---------------------------- MODULE RemoteClient ---------------------------
(***************************************************************************)
(* The HTTP clients of the detection backends, which Detection takes for   *)
(* something that answers or fails: buildRemoteBackend of pii-remover.ts,  *)
(* backend/remote-http.ts with its retries, backend/opf-http.ts without,   *)
(* the token, which is read from the environment when the client is made,  *)
(* and the TLS material of backend/tls.ts, which is read at the first call *)
(* and kept, be it complete or not, for the life of the client.            *)
(*                                                                         *)
(* The network answers what it likes, when it likes, or nothing.           *)
(***************************************************************************)
EXTENDS Naturals, Sequences, SequencesExt

CONSTANTS
    Calls,        \* calls of detect() and healthCheck() that can be in progress
    Endpoints,    \* configurations of the backend
    Items,        \* what the endpoint may list as a detection
    TextLength,   \* of the text
    Categories,   \* that are supported
    MaxRotations  \* bound: files an operator replaces

\* retries is a whole number (remote-http.ts:116).
ASSUME ClientAssumption ==
    /\ MaxRotations \in Nat
    /\ \A e \in Endpoints : e.retries \in Nat

\* The token's variable, or the certificate's paths, need not be named (schema.ts:14); a
\* variable may be missing, or empty.
ASSUME CredentialAssumption ==
    \A e \in Endpoints : e.credentials \in {"unnamed", "missing", "there"}

VARIABLES
    endpoint,   \* the configuration in use
    client,     \* "opf", "remote", or "refused": construction has thrown
    disk,       \* [file -> its version], 0 while it cannot be read
    rotations,
    tls,        \* tlsExtensionPromise: its state, and the material it carries
    call,       \* the calls
    requests    \* history: the token and the material each request went out with

clientVars == <<endpoint, client, disk, rotations, tls, call, requests>>

Files == {"ca", "cert", "key"}
NoMaterial == [f \in {} |-> 0]
NoCall == [pc |-> "idle", kind |-> "detect", tried |-> <<>>, result |-> {}]

-----------------------------------------------------------------------------
(* Construction                                                            *)

NeedsTls(e) == e.auth = "mtls" \/ e.ca \/ e.pinned \/ ~e.verify

\* An OPF endpoint on this machine, with nothing its client cannot do.
SpeaksOpf(e) == e.local /\ e.auth \notin {"api_key", "mtls"} /\ ~NeedsTls(e)

\* Mutant of Client: a token that is missing is done without.
ClientLenient(e) ==
    IF SpeaksOpf(e) THEN "opf"
    ELSE IF e.auth # "none" /\ e.credentials # "there" THEN "refused"
    ELSE "remote"

\* A token, or the paths of a certificate, that were asked for and are not there end
\* construction; but an OPF endpoint that asks for a token, and names none, goes without.
Client(e) ==
    IF SpeaksOpf(e) THEN IF e.auth = "bearer" /\ e.credentials = "missing" THEN "refused" ELSE "opf"
    ELSE IF e.auth # "none" /\ e.credentials # "there" THEN "refused"
    ELSE "remote"

\* buildHeaders: the token goes out with every request, of either client.
Token == IF endpoint.auth \in {"bearer", "api_key"} /\ endpoint.credentials = "there" THEN endpoint.auth ELSE "none"

Request(material) == [token |-> Token, files |-> material]

\* The files that make up the configured protection.
Needed == (IF endpoint.ca THEN {"ca"} ELSE {}) \cup (IF endpoint.auth = "mtls" THEN {"cert", "key"} ELSE {})

ClientInit ==
    /\ endpoint \in Endpoints
    /\ client = Client(endpoint)
    /\ disk \in [Files -> {0, 1}] /\ \A f \in Files \ Needed : disk[f] = 0
    /\ rotations = 0
    /\ tls = [state |-> "none", material |-> NoMaterial]
    /\ call = [c \in Calls |-> NoCall]
    /\ requests = {}

-----------------------------------------------------------------------------
(* The TLS material                                                        *)

\* Mutant of Built: what cannot be read is left out.
BuiltOpen == [state |-> "ready", material |-> [f \in {g \in Needed : disk[g] > 0} |-> disk[f]]]

\* buildFetchTlsExtension up to its first await: the files are read at once; Node has yet
\* to import undici, unless plain fetch is enough.
Built ==
    IF \E f \in Needed : disk[f] = 0 THEN [state |-> "failed", material |-> NoMaterial]
    ELSE [state |-> IF NeedsTls(endpoint) /\ ~endpoint.bun THEN "importing" ELSE "ready",
          material |-> [f \in Needed |-> disk[f]]]

\* Mutant of Resolved: nothing is kept.
ResolvedAnew == Built

\* resolveTlsExtension: whoever calls first builds it, for all.
Resolved == IF tls.state = "none" THEN Built ELSE tls

\* The import of undici ends.
Imported ==
    /\ tls.state = "importing"
    /\ \E state \in {"ready", "failed"} : tls' = [tls EXCEPT !.state = state]
    /\ UNCHANGED <<endpoint, client, disk, rotations, call, requests>>

\* An operator replaces, removes or supplies a file.
Rotate(f) ==
    /\ rotations < MaxRotations /\ f \in Needed
    /\ \E version \in {0, disk[f] + 1} : disk' = [disk EXCEPT ![f] = version]
    /\ rotations' = rotations + 1
    /\ UNCHANGED <<endpoint, client, tls, call, requests>>

-----------------------------------------------------------------------------
(* A call                                                                  *)

\* retries + 1; a health check and the OPF client have one attempt.
Attempts(c) == IF client = "opf" \/ call[c].kind = "health" THEN 1 ELSE endpoint.retries + 1

\* detect() or healthCheck(), up to the await of the TLS material or of the first fetch.
Begin(c, kind) ==
    /\ client # "refused" /\ call[c].pc = "idle"
    /\ call' = [call EXCEPT ![c] = [NoCall EXCEPT !.pc = IF client = "opf" THEN "fetch" ELSE "tls",
                                                 !.kind = kind]]
    /\ IF client = "opf"
       THEN UNCHANGED tls /\ requests' = requests \cup {Request(NoMaterial)}
       ELSE tls' = Resolved /\ UNCHANGED requests
    /\ UNCHANGED <<endpoint, client, disk, rotations>>

\* The material is there and the first request goes out; or the call has failed.
Resume(c) ==
    /\ call[c].pc = "tls"
    /\ \/ tls.state = "ready" /\ call' = [call EXCEPT ![c].pc = "fetch"]
          /\ requests' = requests \cup {Request(tls.material)}
       \/ tls.state = "failed" /\ call' = [call EXCEPT ![c].pc = "failed"] /\ UNCHANGED requests
    /\ UNCHANGED <<endpoint, client, disk, rotations, tls>>

\* Mutant of Transient: everything but a good answer is tried again.
TransientUnlessOk(outcome) == outcome # "ok"

\* isTransientHttpStatus and isTransientNetworkError: a 5xx, and a network error of a
\* known kind, the timer's abort among them.
Transient(outcome) == outcome \in {"unavailable", "lost"}

\* An attempt is over: the next one goes out, the body is awaited, or the call fails
\* (detect() on any other status; an error that is permanent or the last).
Settle(c, outcome) ==
    LET tried == Append(call[c].tried, outcome) IN
    IF Transient(outcome) /\ Len(tried) < Attempts(c)
    THEN call' = [call EXCEPT ![c].tried = tried] /\ requests' = requests \cup {Request(tls.material)}
    ELSE /\ call' = [call EXCEPT ![c].tried = tried,
                                 ![c].pc = IF outcome = "ok" THEN "body" ELSE "failed"]
         /\ UNCHANGED requests

\* The headers arrive, with a good status, a client's or a server's error; or the network
\* fails, in a way that isTransientNetworkError knows or not.
Fetched(c) ==
    /\ call[c].pc = "fetch"
    /\ \E outcome \in {"ok", "rejected", "unavailable", "lost", "broken"} : Settle(c, outcome)
    /\ UNCHANGED <<endpoint, client, disk, rotations, tls>>

\* timeout_ms has passed and fetch is aborted.  The timer was stopped when headers came.
TimesOut(c) ==
    /\ call[c].pc = "fetch"
    /\ Settle(c, "lost")
    /\ UNCHANGED <<endpoint, client, disk, rotations, tls>>

\* Mutant of Usable: the end of a span is not compared with the text.
UsableFrom(item) == item.start < item.end /\ item.category \in Categories

\* parseDetections keeps what lies in the text and has a category it knows, in any case.
Usable(item) ==
    item.start < item.end /\ item.end <= TextLength /\ item.category \in Categories

\* The OPF client's parser has the same three conditions.
Parsed(items) == {i \in items : Usable(i)}

\* The body arrives: detections (their order is the sort's of MergeLoop), something else
\* that is JSON, which counts as an empty one, or none that can be read.
Body(c) ==
    /\ call[c].pc = "body"
    /\ \/ /\ call[c].kind = "detect"
          /\ \E items \in SUBSET Items :
               call' = [call EXCEPT ![c].pc = "answered", ![c].result = Parsed(items)]
       \/ call[c].kind = "health" /\ call' = [call EXCEPT ![c].pc = "answered"]
       \/ call' = [call EXCEPT ![c].pc = "failed"]
    /\ UNCHANGED <<endpoint, client, disk, rotations, tls, requests>>

\* The caller has its answer, and may call again.
Return(c) ==
    /\ call[c].pc \in {"answered", "failed"}
    /\ call' = [call EXCEPT ![c] = NoCall]
    /\ UNCHANGED <<endpoint, client, disk, rotations, tls, requests>>

ClientNext ==
    \/ Imported
    \/ \E f \in Files : Rotate(f)
    \/ \E c \in Calls :
         \/ \E kind \in {"detect", "health"} : Begin(c, kind)
         \/ Resume(c) \/ Fetched(c) \/ TimesOut(c) \/ Body(c) \/ Return(c)

ClientSpec == ClientInit /\ [][ClientNext]_clientVars

\* The timer fires, an import ends, and the event loop runs what was awaited.  The body of
\* a response comes when the server sends it.
ClientFairness ==
    /\ WF_clientVars(Imported)
    /\ \A c \in Calls : WF_clientVars(Resume(c)) /\ WF_clientVars(TimesOut(c))

-----------------------------------------------------------------------------
ClientTypeOK ==
    /\ client \in {"opf", "remote", "refused"}
    /\ disk \in [Files -> 0 .. MaxRotations + 1] /\ rotations \in 0 .. MaxRotations
    /\ tls.state \in {"none", "importing", "ready", "failed"}
    /\ \A c \in Calls :
         call[c].pc \in {"idle", "tls", "fetch", "body", "answered", "failed"}

\* The endpoint asks for a token, which is not left out as Client says.
TokenDue == endpoint.auth \in {"bearer", "api_key"} /\ ~(SpeaksOpf(endpoint) /\ endpoint.credentials = "unnamed")

\* docs/TRUST_TIERS.md:606, 767, tls.ts:114: no request leaves without all that protects it,
\* the token and the files, and however files are replaced under way, all requests of a
\* client, of whichever call and attempt, are protected in the same way.
RequestsAreProtected ==
    /\ requests # {} => client # "refused"
    /\ \A r \in requests :
         /\ DOMAIN r.files = Needed /\ \A f \in Needed : r.files[f] > 0
         /\ TokenDue => r.token = endpoint.auth
    /\ \A r, s \in requests : r = s

\* A detection is an answer only when the last attempt was good, and all before it were
\* given up for a passing reason; a call fails for a passing reason only when it has made
\* all its attempts (remote-http.ts:240).
RetriesAreRight ==
    \A c \in Calls :
        LET tried == call[c].tried IN
        /\ Len(tried) <= Attempts(c)
        /\ \A i \in DOMAIN tried : i < Len(tried) => tried[i] \in {"unavailable", "lost"}
        /\ call[c].pc \in {"body", "answered"} => Last(tried) = "ok"
        /\ call[c].pc = "failed" /\ tried # <<>> /\ Last(tried) \in {"unavailable", "lost"}
           => Len(tried) = Attempts(c)

\* What the detector is handed fits the text: MergeLoop and VaultManager.assign slice the
\* text by it.
AnswersFit ==
    \A c \in Calls : \A d \in call[c].result :
        d.start < d.end /\ d.end <= TextLength /\ d.category \in Categories

ClientInv == ClientTypeOK /\ RequestsAreProtected /\ RetriesAreRight /\ AnswersFit

\* "timeout_ms applies to the whole life of a fetch (DNS -> TCP -> TLS -> HTTP request and
\* response)" (docs/TRUST_TIERS.md:907): a call that has begun ends.  The code does not keep
\* this: the timer is stopped when the headers are there, and the body has none.
CallEnds == \A c \in Calls : call[c].pc = "fetch" ~> call[c].pc # "fetch" /\ call[c].pc # "body"
=============================================================================
