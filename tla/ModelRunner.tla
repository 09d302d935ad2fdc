---------------------------- MODULE ModelRunner ----------------------------
(***************************************************************************)
(* The models of the detection service: how they are loaded, used and      *)
(* unloaded (packages/backend/server: opf_runner.py, korean_ner_runner.py, *)
(* main.py, api/warmup.py, api/redact.py).                                 *)
(*                                                                         *)
(* A runner keeps the parts of its model (session, tokenizer, labels, ...) *)
(* in attributes that a load sets one by one, under the runner's lock.     *)
(* Requests are accepted, continued and answered on the event loop; loads  *)
(* and inference hold a worker thread.  The idle monitor is a task of the  *)
(* event loop, so waiting for a lock there stops every request.  What      *)
(* /health and /warmup report is left out.                                 *)
(***************************************************************************)
EXTENDS Naturals, FiniteSets, TLC

CONSTANTS
    Calls,       \* requests that may be in flight
    Kinds,       \* [Calls -> what they ask for: "redact" or "warmup"]
    Startup,     \* the lifespan, which loads before the first request
    Loads,       \* names of loads, to tell what one load set from another's
    Parts,       \* [Runners -> number of parts]
    Variants,    \* [Runners -> number of variants a load tries]
    Nobody, Missing

Runners == {"opf", "kner"}
Threads == Calls \cup {Startup}

ASSUME RunnerAssumption ==
    /\ Startup \notin Calls /\ Kinds \in [Calls -> SUBSET {"redact", "warmup"}]
    /\ Nobody \notin Threads /\ Missing \notin Loads
    /\ Parts \in [Runners -> Nat \ {0}] /\ Variants \in [Runners -> Nat \ {0}]

VARIABLES
    model,         \* [Runners -> parts, each the load that set it or Missing]
    lock,          \* [Runners -> its holder]
    stage,         \* [Threads -> how far it is with the runner at]
    kind,          \* [Threads -> "none", "redact", "warmup" or "startup"]
    at,            \* [Threads -> Runners]
    trying,        \* [Threads -> [variant, part]], of a load
    held,          \* [Threads -> the parts it took along, for an inference]
    outcome,       \* [Threads -> "ok" or "raised"], of the work on a thread
    clock,         \* last_request_at: "none", "recent", or "old": beyond the timeout
    monitor,       \* "asleep", or the runner it is about to unload
    broken         \* history: [Runners -> whether a load has ever raised]

callVars == <<stage, kind, at, trying, held, outcome>>
vars == <<model, lock, callVars, clock, monitor, broken>>

-----------------------------------------------------------------------------
Nothing(r) == [p \in 1 .. Parts[r] |-> Missing]

\* is_loaded looks at the session only, which a load sets first.
Loaded(r) == model[r][1] # Missing

Whole(parts) == \A p \in DOMAIN parts : parts[p] # Missing

\* The event loop runs one thing at a time, the lifespan's loads and the monitor's
\* unloads included.
LoopIsFree == monitor = "asleep" /\ stage[Startup] = "idle"
OnLoop(c) == c = Startup \/ LoopIsFree

InUse(r) == {model[r][p] : p \in 1 .. Parts[r]}
            \cup UNION {{held[c][p] : p \in DOMAIN held[c]} : c \in Threads}

First == [variant |-> 1, part |-> 1]

Init ==
    /\ model = [r \in Runners |-> Nothing(r)]
    /\ lock = [r \in Runners |-> Nobody]
    /\ stage = [c \in Threads |-> IF c = Startup THEN "turn" ELSE "idle"]
    /\ kind = [c \in Threads |-> IF c = Startup THEN "startup" ELSE "none"]
    /\ at = [c \in Threads |-> "opf"]
    /\ trying = [c \in Threads |-> First]
    /\ held = [c \in Threads |-> <<>>]
    /\ outcome = [c \in Threads |-> "ok"]
    /\ clock = "none"
    /\ monitor = "asleep"
    /\ broken = [r \in Runners |-> FALSE]

-----------------------------------------------------------------------------
\* Mutant of Accept: the monitor unloads on a thread, and requests are accepted meanwhile.
AcceptMeanwhile(c, k) ==
    /\ stage[Startup] = "idle" /\ stage[c] = "idle"
    /\ stage' = [stage EXCEPT ![c] = "turn"]
    /\ kind' = [kind EXCEPT ![c] = k]
    /\ clock' = "recent"
    /\ UNCHANGED <<model, lock, at, trying, held, outcome, monitor, broken>>

\* A request comes in, and marks activity.
Accept(c, k) ==
    /\ LoopIsFree /\ stage[c] = "idle"
    /\ stage' = [stage EXCEPT ![c] = "turn"]
    /\ kind' = [kind EXCEPT ![c] = k]
    /\ clock' = "recent"
    /\ UNCHANGED <<model, lock, at, trying, held, outcome, monitor, broken>>

\* The handler reaches a runner: warmup leaves out what is loaded, the lifespan a Korean
\* model it need not preload, a redaction what its text does not need (it is empty, or
\* has no Hangul).  The others go to a thread, an inference takes the lock first there.
Turn(c) ==
    /\ OnLoop(c) /\ stage[c] = "turn"
    /\ \E s \in CASE kind[c] = "warmup" -> {IF Loaded(at[c]) THEN "back" ELSE "thread"}
                 [] kind[c] = "startup" -> {"thread"} \cup {x \in {"back"} : at[c] = "kner"}
                 [] OTHER -> {"back", "locking"} :
           stage' = [stage EXCEPT ![c] = s]
    /\ UNCHANGED <<model, lock, kind, at, trying, held, outcome, clock, monitor, broken>>

\* load() looks for a session before it takes the lock.
Begin(c) ==
    /\ stage[c] = "thread"
    /\ stage' = [stage EXCEPT ![c] = IF Loaded(at[c]) THEN "back" ELSE "locking"]
    /\ UNCHANGED <<model, lock, kind, at, trying, held, outcome, clock, monitor, broken>>

\* The lock is taken; load() looks for a session again.
Acquire(c) ==
    /\ stage[c] = "locking" /\ lock[at[c]] = Nobody
    /\ lock' = [lock EXCEPT ![at[c]] = c]
    /\ stage' = [stage EXCEPT ![c] = IF Loaded(at[c]) THEN "holding" ELSE "loading"]
    /\ UNCHANGED <<model, kind, at, trying, held, outcome, clock, monitor, broken>>

\* The next part is set; the first one names the load.
LoadPart(c) ==
    LET r == at[c]  p == trying[c].part
    IN  /\ stage[c] = "loading"
        /\ \/ /\ p = 1
              /\ Loads \ InUse(r) # {}
              /\ model' = [model EXCEPT ![r][1] = CHOOSE l \in Loads \ InUse(r) : TRUE]
           \/ /\ p > 1
              /\ model' = [model EXCEPT ![r][p] = model[r][1]]
        /\ IF p = Parts[r]
           THEN stage' = [stage EXCEPT ![c] = "holding"] /\ trying' = [trying EXCEPT ![c] = First]
           ELSE trying' = [trying EXCEPT ![c].part = p + 1] /\ UNCHANGED stage
        /\ UNCHANGED <<lock, kind, at, held, outcome, clock, monitor, broken>>

\* Mutant of LoadFails: it starts over until a load succeeds.
LoadFailsRetries(c) ==
    /\ stage[c] = "loading"
    /\ trying' = [trying EXCEPT ![c] = First]
    /\ UNCHANGED <<model, lock, stage, kind, at, held, outcome, clock, monitor, broken>>

\* A part cannot be loaded: what was set stays, and the next variant is tried.  When
\* there is none, load() raises.  Only the Korean runner's inference catches that.
LoadFails(c) ==
    LET r == at[c]
    IN  /\ stage[c] = "loading"
        /\ IF trying[c].variant < Variants[r]
           THEN /\ trying' = [trying EXCEPT ![c] = [variant |-> @.variant + 1, part |-> 1]]
                /\ UNCHANGED <<stage, lock, outcome, broken>>
           ELSE /\ stage' = [stage EXCEPT ![c] = "back"]
                /\ lock' = [lock EXCEPT ![r] = Nobody]
                /\ outcome' = [outcome EXCEPT ![c] =
                      IF kind[c] = "redact" /\ r = "kner" THEN "ok" ELSE "raised"]
                /\ broken' = [broken EXCEPT ![r] = TRUE]
                /\ trying' = [trying EXCEPT ![c] = First]
        /\ UNCHANGED <<model, kind, at, held, clock, monitor>>

\* The lock is released; an inference takes the parts along.
Leave(c) ==
    /\ stage[c] = "holding"
    /\ lock' = [lock EXCEPT ![at[c]] = Nobody]
    /\ IF kind[c] = "redact"
       THEN /\ held' = [held EXCEPT ![c] = model[at[c]]]
            /\ stage' = [stage EXCEPT ![c] = "running"]
       ELSE /\ stage' = [stage EXCEPT ![c] = "back"]
            /\ UNCHANGED held
    /\ UNCHANGED <<model, kind, at, trying, outcome, clock, monitor, broken>>

\* Mutant of Infer: the inference reads the runner's attributes again.
InferOnRunner(c) ==
    /\ stage[c] = "running"
    /\ stage' = [stage EXCEPT ![c] = "back"]
    /\ outcome' = [outcome EXCEPT ![c] = IF Whole(model[at[c]]) THEN "ok" ELSE "raised"]
    /\ held' = [held EXCEPT ![c] = <<>>]
    /\ UNCHANGED <<model, lock, kind, at, trying, clock, monitor, broken>>

\* The inference runs on what it took along, and asserts that nothing is missing.
Infer(c) ==
    /\ stage[c] = "running"
    /\ stage' = [stage EXCEPT ![c] = "back"]
    /\ outcome' = [outcome EXCEPT ![c] = IF Whole(held[c]) THEN "ok" ELSE "raised"]
    /\ held' = [held EXCEPT ![c] = <<>>]
    /\ UNCHANGED <<model, lock, kind, at, trying, clock, monitor, broken>>

\* What a handler makes of an exception: a redaction fails, warmup fails for OPF and
\* warns for the Korean model, the lifespan logs it.
Fatal(c) == outcome[c] = "raised" /\ (kind[c] = "redact" \/ (kind[c] = "warmup" /\ at[c] = "opf"))

\* Back on the loop: on to the next runner, or to the answer, which marks activity.
Back(c) ==
    /\ OnLoop(c) /\ stage[c] = "back"
    /\ outcome' = [outcome EXCEPT ![c] = "ok"]
    /\ IF at[c] = "opf" /\ ~Fatal(c)
       THEN /\ at' = [at EXCEPT ![c] = "kner"]
            /\ stage' = [stage EXCEPT ![c] = "turn"]
            /\ UNCHANGED <<kind, clock>>
       ELSE /\ at' = [at EXCEPT ![c] = "opf"]
            /\ stage' = [stage EXCEPT ![c] = "idle"]
            /\ kind' = [kind EXCEPT ![c] = "none"]
            /\ IF c = Startup THEN UNCHANGED <<clock>>
                              ELSE clock' = "recent"
    /\ UNCHANGED <<model, lock, trying, held, monitor, broken>>

-----------------------------------------------------------------------------
\* The idle timeout passes, whatever is in flight.
Tick ==
    /\ clock = "recent"
    /\ clock' = "old"
    /\ UNCHANGED <<model, lock, callVars, monitor, broken>>

\* Mutant of Wake: it looks at the OPF model only.
WakeForOpf ==
    /\ LoopIsFree
    /\ clock = "old" /\ Loaded("opf")
    /\ monitor' = "opf"
    /\ UNCHANGED <<model, lock, callVars, clock, broken>>

\* Mutant of Wake: it has no eye for what a failed load left behind.
WakeForWhole ==
    /\ LoopIsFree
    /\ clock = "old" /\ \E r \in Runners : Whole(model[r])
    /\ monitor' = "opf"
    /\ UNCHANGED <<model, lock, callVars, clock, broken>>

\* The monitor's sleep is over and the clock has run out; its ticks that find nothing
\* to do are left out.
Wake ==
    /\ LoopIsFree
    /\ clock = "old" /\ \E r \in Runners : Loaded(r)
    /\ monitor' = "opf"
    /\ UNCHANGED <<model, lock, callVars, clock, broken>>

\* Mutant of Unload: the session is dropped, the rest of the model is not.
UnloadSession ==
    LET r == monitor
    IN  /\ r # "asleep"
        /\ Loaded(r) => lock[r] = Nobody
        /\ model' = [model EXCEPT ![r][1] = Missing]
        /\ monitor' = IF r = "opf" THEN "kner" ELSE "asleep"
        /\ UNCHANGED <<lock, callVars, clock, broken>>

\* unload() of one runner after the other; the event loop waits for the lock.
Unload ==
    LET r == monitor
    IN  /\ r # "asleep"
        /\ Loaded(r) => lock[r] = Nobody
        /\ model' = [model EXCEPT ![r] = Nothing(r)]
        /\ monitor' = IF r = "opf" THEN "kner" ELSE "asleep"
        /\ UNCHANGED <<lock, callVars, clock, broken>>

OnThread(c) == Begin(c) \/ LoadPart(c) \/ LoadFails(c) \/ Leave(c) \/ Infer(c)

\* A thread's next step is one of the four at any time.
Advance(c) == Turn(c) \/ Acquire(c) \/ OnThread(c) \/ Back(c)

Next ==
    \/ \E c \in Calls : \E k \in Kinds[c] : Accept(c, k)
    \/ \E c \in Threads : Advance(c)
    \/ Tick \/ Wake \/ Unload

Spec == Init /\ [][Next]_vars

\* Threads run, the event loop gets to everything that is ready, also when the monitor
\* stops it from time to time, and whoever waits for a lock that is released again and
\* again gets it.  The monitor's sleep ends.  Nobody has to call.
Fairness ==
    /\ \A c \in Threads : SF_vars(Advance(c))
    /\ SF_vars(Wake \/ Unload)

FairSpec == Spec /\ Fairness

-----------------------------------------------------------------------------
PartsOf(r) == [1 .. Parts[r] -> Loads \cup {Missing}]

TypeOK ==
    /\ \A r \in Runners : model[r] \in PartsOf(r)
    /\ lock \in [Runners -> Threads \cup {Nobody}]
    /\ stage \in [Threads -> {"idle", "turn", "thread", "locking", "loading", "holding",
                              "running", "back"}]
    /\ kind \in [Threads -> {"none", "redact", "warmup", "startup"}]
    /\ at \in [Threads -> Runners]
    /\ \A c \in Threads : /\ trying[c].variant \in 1 .. Variants[at[c]] \/ stage[c] # "loading"
                          /\ trying[c].part \in 1 .. Parts[at[c]] \/ stage[c] # "loading"
                          /\ held[c] \in {<<>>} \cup PartsOf(at[c])
    /\ outcome \in [Threads -> {"ok", "raised"}]
    /\ clock \in {"none", "recent", "old"}
    /\ monitor \in Runners \cup {"asleep"}
    /\ broken \in [Runners -> BOOLEAN]

\* opf_runner.py:366: an inference that passes its assertions has all its parts from one
\* load, however loads, failed loads and unloads went on around it.
InferenceIsOfOneLoad ==
    \A c \in Threads : stage[c] = "running" /\ Whole(held[c])
                       => \A p, q \in DOMAIN held[c] : held[c][p] = held[c][q]

\* main.py:174: the idle monitor never makes a request fail; whoever fails, fails on a
\* model that could not be loaded.
UnloadFailsNobody ==
    \A c \in Calls : stage[c] = "back" /\ outcome[c] = "raised" => broken[at[c]]

RunnerInv == TypeOK /\ InferenceIsOfOneLoad /\ UnloadFailsNobody

\* main.py:72: the clock the monitor looked at is still that old when it unloads, although
\* it may have waited for a lock in between, and it unloads a whole model or, after a
\* failed load, what is left of one.
OnlyIdleIsUnloaded ==
    [][\A r \in Runners : Loaded(r) /\ model'[r] = Nothing(r)
            => clock = "old" /\ (Whole(model[r]) \/ broken[r])]_vars

\* Every request is answered, also when the monitor waits for a lock on the event loop;
\* and a model nobody has used for a time is unloaded, what a failed load left behind like
\* any other, so that the next call loads again; unless requests come before (main.py:9).
RequestIsAnswered ==
    /\ \A c \in Threads : stage[c] # "idle" ~> stage[c] = "idle"
    /\ \A r \in Runners : clock = "old" /\ Loaded(r) ~> clock # "old" \/ ~Loaded(r)
=============================================================================
