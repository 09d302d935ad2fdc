---------------------------- MODULE MCDetection ----------------------------
(***************************************************************************)
(* Seven parts of detection and masking, one of them from an initial state  *)
(* on: a detect() call with all its backends; the merge loop on all lists  *)
(* of up to four spans of five positions; two calls of the HTTP client of  *)
(* a backend; and in the backend, the decoding of labels, the merge of     *)
(* spans and the masking of a text (MCRedactMerge) and of an image, and    *)
(* its proxy, whose two requests may share a session.                      *)
(*                                                                         *)
(* Detection on a text of nine positions: a Korean name (0, 1), its        *)
(* honorific (2), a latin word (3 to 5), a hyphen (6) and two digits.  The *)
(* local patterns answer disjoint spans, as LocalRegexBackend does; the    *)
(* dictionary and the model need not.                                      *)
(***************************************************************************)
EXTENDS Detection, MergeLoop, RemoteClient, PortVault, SpanDecoding, ImageRedaction,
        MCRedactMerge

VARIABLE layer

resting == <<layer, vars, loopVars, mergeVars, portVars, decodingVars, imageVars>>

MCText == 0 .. 8
MCLatin == 3 .. 5

Found(start, end, cat, conf) == [start |-> start, end |-> end, cat |-> cat, conf |-> conf]

Name == Found(0, 2, Person, 1)
Mail == Found(4, 9, "private_email", 1)
Place == Found(1, 4, "private_address", 1)
Digits == Found(7, 9, "account_number", 1)
Code == Found(5, 9, "account_number", 1)
Honoured == Found(0, 3, Person, 2)
Cut == Found(3, 5, Person, 2)
Account == Found(4, 9, "account_number", 2)

MCReports ==
    [regex |-> {<<>>, <<Name>>, <<Mail>>, <<Name, Mail>>},
     personal |-> BoundedSeq({Name, Place, Code}, 2),
     http |-> BoundedSeq({Honoured, Cut, Account, Digits}, 2)]

MCConfigs ==
    {c \in [locals: {<<"regex">>, <<"regex", "personal">>}, remote: BOOLEAN, tiered: BOOLEAN,
            critical: BOOLEAN, onLocalFailure: {"skip_remote", "throw"}] :
        /\ c.tiered => c.remote
        /\ ~c.remote => ~c.critical
        /\ ~c.tiered => c.onLocalFailure = "skip_remote"}

MCDetections ==
    {d \in [start: 0 .. 4, end: 1 .. 5, cat: {"phone"}, conf: {1, 2}] :
        d.start < d.end /\ Width(d) < 5 /\ (Width(d) # 2 => d.conf = 1)}

MCInputs ==
    {ds \in UNION {[1 .. n -> MCDetections] : n \in 0 .. 4} :
        \A i, j \in DOMAIN ds : i < j => Precedes(ds, i, j)}

LoopConfig == [locals |-> <<"regex">>, remote |-> FALSE, tiered |-> FALSE,
               critical |-> FALSE, onLocalFailure |-> "skip_remote"]

\* An OPF server on this machine; and others that ask for a token, a key, a certificate, a CA of
\* their own or a pinned one, in both runtimes.
MCEndpoints ==
    {e \in [local: BOOLEAN, auth: {"none", "bearer", "api_key", "mtls"},
            credentials: {"unnamed", "missing", "there"},
            ca: BOOLEAN, pinned: BOOLEAN, verify: {TRUE}, bun: BOOLEAN, retries: {1}] :
        /\ e.auth = "none" => e.credentials = "there"
        /\ e.auth = "mtls" => e.credentials # "missing"
        /\ e.auth \in {"bearer", "api_key"} => ~e.ca
        /\ e.auth = "api_key" => ~e.pinned /\ ~e.local
        /\ e.pinned => ~e.ca
        /\ e.bun => e.auth = "mtls" /\ ~e.pinned}

\* An item to keep, an empty one, one that leaves the text, one of no category we know.
MCItems ==
    {[start |-> 0, end |-> 1, category |-> "private_email"], [start |-> 1, end |-> 1, category |-> "private_email"],
     [start |-> 0, end |-> 3, category |-> "private_email"], [start |-> 0, end |-> 1, category |-> "odd"]}

AnEndpoint == CHOOSE e \in MCEndpoints : Client(e) = "refused"

\* Two spellings of one value, and two others; together they go over the limit.
MCPortForm == ("kim" :> "KIM") @@ ("Kim" :> "KIM") @@ ("mail" :> "MAIL") @@ ("phone" :> "PHONE")

MCPortBodies ==
    {<<<<"kim">>>>, <<<<"Kim", "mail">>>>, <<<<"mail">>, <<"Kim">>>>, <<<<"phone">>>>, <<<<>>, <<"mail">>>>}

Label(boundary, tag) == [boundary |-> boundary, tag |-> tag]

MCTagset ==
    <<Label("O", "none"), Label("B", "PS"), Label("I", "PS"), Label("E", "PS"), Label("S", "PS"),
      Label("I", "LC"), Label("E", "LC")>>

Bias(stay, start, continue) ==
    [stay |-> stay, start |-> start, end |-> 0, again |-> 0, continue |-> continue, finish |-> 0]

MCCalibration == {Bias(0, 0, 0), Bias(1, -1, 1)}

\* A token is clearly of one label, or outside.
MCEmissions == {[l \in DOMAIN MCTagset |-> IF l = k THEN 3 ELSE IF l = 1 THEN 1 ELSE 0] : k \in DOMAIN MCTagset}

\* Words with white space in them or around them; special tokens; a token too many.
MCTokenized ==
    {<<<<0, 2>>, <<2, 4>>, <<4, 5>>>>, <<<<0, 0>>, <<0, 1>>, <<1, 3>>, <<3, 3>>>>,
     <<<<0, 1>>, <<1, 2>>, <<2, 3>>, <<3, 4>>>>}

Word(length, line, left, sure) ==
    [length |-> length, line |-> line, left |-> left, width |-> length - 1, sure |-> sure]

\* Three words of one line, one of the next between them; any may be read badly.
MCReadings ==
    {<<Word(1, 1, 0, a), Word(2, 1, 2, b), Word(1, 2, 1, c), Word(2, 1, 5, TRUE)>> : a, b, c \in BOOLEAN}

\* A layer that rests: one state is enough.
DetectRests == config = LoopConfig /\ Init
LoopRests == input = <<>> /\ next = 1 /\ result = <<>>
ClientRests == endpoint = AnEndpoint /\ disk = [f \in Files |-> 0] /\ ClientInit
MergeRests ==
    /\ matches = {} /\ opf = {} /\ kner = {} /\ excluded = {}
    /\ phase = "regex" /\ todo = <<>> /\ kept = <<>> /\ regexKept = <<>> /\ out = <<>>
DecodingRests ==
    /\ scheme = "bio" /\ biases = Bias(0, 0, 0) /\ tokens = <<>>
    /\ emitted = <<>> /\ best = <<>> /\ back = <<>> /\ labels = <<>> /\ at = 1 /\ open = <<>> /\ spans = <<>>
\* Bound: four spans in all.
FewSpans == Cardinality(matches \cup opf \cup kner) <= 4
ImageRests ==
    /\ read = <<>> /\ policy = "mask" /\ step = "reading" /\ cursor = 0 /\ offsets = <<>>
    /\ findings = <<>> /\ regions = {} /\ painted = {} /\ warned = {}

MCInit ==
    /\ layer \in {"detect", "loop", "client", "merge", "port", "decode", "image"}
    /\ PortInit
    /\ \/ layer = "decode" /\ DecodingInit
       \/ layer # "decode" /\ DecodingRests
    /\ \/ layer = "image" /\ ImageInit
       \/ layer # "image" /\ ImageRests
    /\ \/ layer = "detect" /\ Init /\ LoopRests /\ ClientRests /\ MergeRests
       \/ layer = "loop" /\ LoopInit /\ DetectRests /\ ClientRests /\ MergeRests
       \/ layer = "client" /\ ClientInit /\ DetectRests /\ LoopRests /\ MergeRests
       \/ layer = "merge" /\ MergeInit /\ FewSpans /\ DetectRests /\ LoopRests /\ ClientRests
       \/ layer \in {"port", "decode", "image"} /\ DetectRests /\ LoopRests /\ ClientRests /\ MergeRests

\* The calls are alike: the second is one that begins while the first is in progress.
FirstBegins == call[1].pc = "idle" /\ call[2].pc = "idle" => call'[2].pc = "idle"

MCNext ==
    /\ UNCHANGED layer
    /\ \/ layer = "detect" /\ Next /\ UNCHANGED <<loopVars, clientVars, mergeVars, portVars, decodingVars, imageVars>>
       \/ layer = "loop" /\ Step /\ UNCHANGED <<vars, clientVars, mergeVars, portVars, decodingVars, imageVars>>
       \/ layer = "client" /\ ClientNext /\ FirstBegins /\ UNCHANGED <<vars, loopVars, mergeVars, portVars, decodingVars, imageVars>>
       \/ layer = "merge" /\ MergeNext /\ UNCHANGED <<vars, loopVars, clientVars, portVars, decodingVars, imageVars>>
       \/ layer = "port" /\ PortNext /\ UNCHANGED <<vars, loopVars, clientVars, mergeVars, decodingVars, imageVars>>
       \/ layer = "decode" /\ DecodingNext /\ UNCHANGED <<vars, loopVars, clientVars, mergeVars, portVars, imageVars>>
       \/ layer = "image" /\ ImageNext /\ UNCHANGED <<vars, loopVars, clientVars, mergeVars, portVars, decodingVars>>

MCSpec == MCInit /\ [][MCNext]_<<resting, clientVars>>

\* The client alone, under the fairness of its timer and of the event loop.
MCFairClientSpec ==
    /\ layer = "client" /\ MCInit /\ [][MCNext]_<<resting, clientVars>> /\ ClientFairness

\* What one request of the backend goes through: the labels of the models are decoded into
\* spans, spans are merged and masked, in a text or in an image.
BackendInv == DecodingInv /\ MergeInv /\ ImageInv
=============================================================================
