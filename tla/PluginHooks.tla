----------------------------- MODULE PluginHooks ---------------------------
(***************************************************************************)
(* The plugin of OpenCode (packages/opencode-plugin/src).  The host keeps  *)
(* the conversation with the real values in its store.  Before a request   *)
(* the plugin masks a copy of the whole conversation, part by part; what   *)
(* the model writes and the arguments of its tool calls are restored.  A   *)
(* restart empties the vault and keeps the store.                          *)
(*                                                                         *)
(* A leaf of a part holds a value, a token, or nothing of interest.        *)
(* Tokens are deterministic: a value has the same one in every process,    *)
(* and it is live in a process from the moment the value is masked there.  *)
(***************************************************************************)
EXTENDS Naturals, Sequences, FiniteSets

CONSTANTS
    Values,
    Split,          \* whether the host loads it as two modules that share a remover
    Dispatches,     \* requests under way at the same time, of subagents too
    MaxParts        \* bound: the parts of a conversation

VARIABLES
    boundary,       \* the option experimental
    build,          \* instance -> "new", "waiting", "ready" or "failed"
    remover,        \* instance -> the instance that created its remover
    singleton,      \* the creator of the shared one, or "none"
    promise,        \* creator -> "pending", "resolved" or "rejected"
    vault,          \* creator -> the values its remover has masked
    store,          \* the parts of the conversation
    pending,        \* dispatch -> [copy, next], next = 0 when it rests
    shown           \* what the model was sent in this process: [user, bare, atom, live]

\* The loaded modules: index.ts, or mask.ts and restore.ts.
Instances == IF Split THEN {"mask", "restore"} ELSE {"full"}
Masker == IF Split THEN "mask" ELSE "full"
Restorer == IF Split THEN "restore" ELSE "full"

vars == <<boundary, build, remover, singleton, promise, vault, store, pending, shown>>
buildVars == <<build, remover, singleton, promise>>

Filler == [kind |-> "nothing"]
Raw(v) == [kind |-> "raw", value |-> v]
Token(v) == [kind |-> "token", value |-> v]
Forged == [kind |-> "forged"]       \* a token that no process ever made
Swept == [kind |-> "swept"]         \* [UNRESTORABLE:...] or [REDACTED]
Atoms == {Filler, Forged} \cup {Raw(v) : v \in Values} \cup {Token(v) : v \in Values}

Part(type, user, leaves) == [type |-> type, user |-> user, leaves |-> leaves]

-----------------------------------------------------------------------------
(* The walk over the leaves of a part.                                      *)

\* Fields that name things (url, path, command, *_name, ...) and short strings are left
\* alone, so that the model sees real paths.
Plumbing == {"plumbing"}

\* Parts whose values are not masked: those without text, and those where tokens are cut.
Bare == {"step", "compaction"}

Alive(held, atom) == atom.kind = "token" /\ atom.value \in held

Live(held, atom) == IF Alive(held, atom) THEN Raw(atom.value) ELSE atom

RestoreFields(leaves, held) == [l \in DOMAIN leaves |-> Live(held, leaves[l])]

Masked(atom) == IF atom.kind = "raw" THEN Token(atom.value) ELSE atom

MaskStrict(leaves) == [l \in DOMAIN leaves |-> Masked(leaves[l])]
MaskFields(leaves) == [l \in DOMAIN leaves |-> IF l \in Plumbing THEN leaves[l] ELSE Masked(leaves[l])]

\* Mutant of SweepDead: parts of the model are not swept.
SweepNever(part, held) == part.leaves

\* A token of an earlier process would be copied by the model; what the user typed is left.
SweepDead(part, held) ==
    IF part.user \/ part.type = "compaction" THEN part.leaves
    ELSE [l \in DOMAIN part.leaves |->
             IF part.leaves[l].kind \in {"token", "forged"} /\ ~Alive(held, part.leaves[l])
             THEN Swept ELSE part.leaves[l]]

StripTokens(leaves) ==
    [l \in DOMAIN leaves |-> IF leaves[l].kind \in {"token", "forged"} THEN Swept ELSE leaves[l]]

MaskPart(part, held) ==
    LET swept == SweepDead(part, held) IN
    [part EXCEPT !.leaves =
        CASE part.type = "tool" -> MaskFields(swept)
          [] part.type = "compaction" -> StripTokens(swept)
          [] part.type = "step" -> swept
          [] OTHER -> MaskStrict(swept)]

\* The values a masking leaves in the vault.
Minted(part, held) ==
    {v \in Values : \E l \in DOMAIN part.leaves :
        part.leaves[l] = Raw(v) /\ MaskPart(part, held).leaves[l] = Token(v)}

-----------------------------------------------------------------------------
(* The modules of the plugin and the remover they share.                    *)

KeptBy(m) == vault[remover[m]]

\* Mutant of Shared: the singleton is set when the init ends.
SharedWhenReady(m) == singleton # "none" /\ promise[singleton] = "resolved"

Shared(m) == singleton # "none"

\* The promise is kept before anything is awaited, for good: also if it is rejected.
Build(m) ==
    /\ build[m] \in {"new", "failed"}
    /\ build' = [build EXCEPT ![m] = "waiting"]
    /\ IF m # "full" /\ Shared(m)
       THEN remover' = [remover EXCEPT ![m] = singleton] /\ UNCHANGED <<singleton, promise, vault>>
       ELSE /\ remover' = [remover EXCEPT ![m] = m]
            /\ promise' = [promise EXCEPT ![m] = "pending"]
            /\ vault' = [vault EXCEPT ![m] = {}]
            /\ singleton' = IF m = "full" THEN singleton ELSE m
    /\ UNCHANGED <<boundary, store, pending, shown>>

InitEnds(m) ==
    /\ promise[m] = "pending" /\ \E n \in Instances : build[n] = "waiting" /\ remover[n] = m
    /\ \E result \in {"resolved", "rejected"} : promise' = [promise EXCEPT ![m] = result]
    /\ UNCHANGED <<boundary, build, remover, singleton, vault, store, pending, shown>>

\* The health probe fails the build of a fail-closed remover.
BuildEnds(m) ==
    /\ build[m] = "waiting" /\ promise[remover[m]] # "pending"
    /\ \E result \in IF promise[remover[m]] = "rejected" THEN {"failed"} ELSE {"ready", "failed"} :
           build' = [build EXCEPT ![m] = result]
    /\ UNCHANGED <<boundary, remover, singleton, promise, vault, store, pending, shown>>

-----------------------------------------------------------------------------
(* The conversation.  The host works only with both modules loaded.         *)

Loaded == \A m \in Instances : build[m] = "ready"
Adds(part) == Len(store) < MaxParts /\ store' = Append(store, part)

\* The user types a text, or the host adds a part of another type.
UserSays(atom) ==
    /\ Loaded /\ Adds(Part("text", TRUE, [text |-> atom]))
    /\ UNCHANGED <<boundary, buildVars, vault, pending, shown>>

HostAdds(type, atom) ==
    /\ Loaded /\ Adds(Part(type, FALSE, [text |-> atom]))
    /\ UNCHANGED <<boundary, buildVars, vault, pending, shown>>

First == IF boundary THEN 1 ELSE Len(store) + 1

\* Mutant of Dispatch: the host's own parts are masked.
DispatchInPlace(d) ==
    /\ Loaded /\ pending[d].next = 0 /\ store # <<>>
    /\ pending' = [pending EXCEPT ![d] = [copy |-> store, next |-> First]]
    /\ store' = [i \in DOMAIN store |-> MaskPart(store[i], KeptBy(Masker))]
    /\ UNCHANGED <<boundary, buildVars, vault, shown>>

\* experimental.chat.messages.transform, if it is registered, detaches a copy of
\* everything ...
Dispatch(d) ==
    /\ Loaded /\ pending[d].next = 0 /\ store # <<>>
    /\ pending' = [pending EXCEPT ![d] = [copy |-> store, next |-> First]]
    /\ UNCHANGED <<boundary, buildVars, vault, store, shown>>

\* ... and masks it part by part, with the detector awaited for each; an error there
\* fails the request.
MaskNext(d) ==
    LET i == pending[d].next
        part == pending[d].copy[i] IN
    /\ i \in 1 .. Len(pending[d].copy)
    /\ \/ /\ pending' = [pending EXCEPT ![d] = [copy |-> [@.copy EXCEPT ![i] = MaskPart(part, KeptBy(Masker))],
                                               next |-> i + 1]]
          /\ vault' = [vault EXCEPT ![remover[Masker]] = @ \cup Minted(part, @)]
       \/ pending' = [pending EXCEPT ![d] = [copy |-> <<>>, next |-> 0]] /\ UNCHANGED vault
    /\ UNCHANGED <<boundary, buildVars, store, shown>>

Send(d) ==
    /\ pending[d].next = Len(pending[d].copy) + 1
    /\ shown' = shown \cup UNION {
           {[user |-> part.user, bare |-> l \in Plumbing \/ part.type \in Bare, atom |-> part.leaves[l],
             live |-> Alive(KeptBy(Masker), part.leaves[l])] : l \in DOMAIN part.leaves} :
           part \in {pending[d].copy[i] : i \in DOMAIN pending[d].copy}}
    /\ pending' = [pending EXCEPT ![d] = [copy |-> <<>>, next |-> 0]]
    /\ UNCHANGED <<boundary, buildVars, vault, store>>

\* The model repeats what it was shown.  experimental.text.complete restores its text.
Says == {Filler} \cup {s.atom : s \in shown}

ModelWrites(atom) ==
    /\ Loaded /\ atom \in Says
    /\ Adds(Part("text", FALSE, [text |-> IF boundary THEN Live(KeptBy(Restorer), atom) ELSE atom]))
    /\ UNCHANGED <<boundary, buildVars, vault, pending, shown>>

\* tool.execute.before restores the arguments.  Without the boundary they are masked again,
\* but for those of a tool that displays them, if the user has opted in.
Remasks(display) == ~boundary /\ ~display

Arguments(leaves, display) ==
    LET restored == RestoreFields(leaves, KeptBy(Masker))
    IN  IF Remasks(display) THEN MaskFields(restored) ELSE restored

\* A tool call that has an atom in two arguments, with the output the tool had: what it was
\* given, or what it read.  tool.execute.after restores that.
ToolRuns(atom, display, read) ==
    LET args == Arguments([free |-> atom, plumbing |-> atom], display)
        output == IF read = Filler THEN args["free"] ELSE read
        held == KeptBy(Masker) \cup
                    {v \in Values : Remasks(display) /\ Live(KeptBy(Masker), atom) = Raw(v)} IN
    /\ Loaded /\ atom \in Says
    /\ vault' = [vault EXCEPT ![remover[Masker]] = held]
    /\ Adds(Part("tool", FALSE, [free |-> args["free"], plumbing |-> args["plumbing"],
                                output |-> Live(vault'[remover[Restorer]], output)]))
    /\ UNCHANGED <<boundary, buildVars, pending, shown>>

\* Mutant of Idle: the vault ends with a turn.
IdleDisposes == Loaded /\ vault' = [m \in DOMAIN vault |-> {}]
                /\ UNCHANGED <<boundary, buildVars, store, pending, shown>>

\* The host calls session.idle after every turn and for every subagent; the vault stays.
Idle == Loaded /\ UNCHANGED vars

\* The process ends and the session is resumed in another one.
Restart ==
    /\ build' = [m \in Instances |-> "new"] /\ remover' = [m \in Instances |-> m]
    /\ singleton' = "none" /\ promise' = [m \in Instances |-> "resolved"]
    /\ vault' = [m \in Instances |-> {}]
    /\ pending' = [d \in Dispatches |-> [copy |-> <<>>, next |-> 0]]
    /\ shown' = {} /\ UNCHANGED <<boundary, store>>

Init ==
    /\ boundary \in BOOLEAN /\ store = <<>> /\ shown = {}
    /\ build = [m \in Instances |-> "new"] /\ remover = [m \in Instances |-> m]
    /\ singleton = "none" /\ promise = [m \in Instances |-> "resolved"]
    /\ vault = [m \in Instances |-> {}]
    /\ pending = [d \in Dispatches |-> [copy |-> <<>>, next |-> 0]]

Next ==
    \/ \E m \in Instances : Build(m) \/ InitEnds(m) \/ BuildEnds(m)
    \/ \E atom \in Atoms \ {Filler} : UserSays(atom) \/ ModelWrites(atom)
    \/ \E atom \in Atoms \ {Filler}, type \in {"step", "compaction", "unknown"} : HostAdds(type, atom)
    \/ \E d \in Dispatches : Dispatch(d) \/ MaskNext(d) \/ Send(d)
    \/ \E atom, read \in Atoms, display \in BOOLEAN : ToolRuns(atom, display, read)
    \/ Idle \/ Restart

Spec == Init /\ [][Next]_vars

-----------------------------------------------------------------------------
TypeOK ==
    /\ build \in [Instances -> {"new", "waiting", "ready", "failed"}]
    /\ remover \in [Instances -> Instances] /\ singleton \in Instances \cup {"none"}
    /\ vault \in [Instances -> SUBSET Values]
    /\ \A i \in DOMAIN store : \A l \in DOMAIN store[i].leaves :
           store[i].leaves[l] \in Atoms \cup {Swept}

\* With the boundary no value reaches the model, whatever the host had in its store and
\* the tools restored there; a field of plumbing is excepted, and a part without text.
NothingRawIsShown ==
    boundary => \A s \in shown :
        s.atom.kind = "raw" => s.bare

\* A token the model gets without the user having typed it can be restored for as long as
\* this process lives, by both modules: in a tool call, a path, a text.
ShownIsRestorable ==
    boundary => \A s \in shown :
        s.atom.kind \in {"token", "forged"} =>
            \/ s.user /\ ~s.live
            \/ Alive(KeptBy(Masker), s.atom) /\ Alive(KeptBy(Restorer), s.atom)

PluginInv == TypeOK /\ NothingRawIsShown /\ ShownIsRestorable

\* What the user sees is never rewritten: masking works on a copy, and the parts the host
\* has rendered keep their values (hooks.ts:652-656).
StoreKeepsItsParts == [][\A i \in DOMAIN store : store'[i] = store[i]]_vars
=============================================================================
