----------------------------- MODULE AutoStart -----------------------------
(***************************************************************************)
(* How the clients of the detection service bring it up before they mask   *)
(* (packages/core/src/backend/auto-start.ts), and on which token key the   *)
(* two sides settle (redaction/token-hash.ts).                             *)
(*                                                                         *)
(* A process (plugin, hook, proxy) may have several initialisations under  *)
(* way: the first probes, warms up or starts the container, the others     *)
(* await its promise.  Each of them makes a remover then, which takes its  *)
(* key from the key file or writes one.  Reading and writing that file is  *)
(* synchronous: it stops the process, but no other process.  (A key in the *)
(* environment is everybody's, and that case is left out.)                 *)
(***************************************************************************)
EXTENDS Naturals, FiniteSets

CONSTANTS
    Callers, Processes,
    Owner,     \* [Callers -> Processes]
    NoCaller,
    MaxPolls   \* bound: further health probes before start_timeout_ms is over

ASSUME StartAssumption ==
    /\ Owner \in [Callers -> Processes] /\ NoCaller \notin Callers /\ MaxPolls \in Nat

VARIABLES
    pc, task,      \* [Callers -> where it is, and what it needs the key for]
    inFlight,      \* inFlightAutoStart: [Processes -> the caller whose work it is]
    leader,        \* [Callers -> whose promise it awaits]
    verdict,       \* [Callers -> "none", "ok" or "failed"], of its own work
    polls,         \* [Callers -> further probes since docker compose up]
    key,           \* [Callers -> the key it has resolved last: at most one]
    file,          \* the key in the key file: none if it is missing or empty
    writable,      \* whether the key file can be written
    elsewhere,     \* the configuration names another place for the key
    backend,       \* "down", "up" (with no model) or "loaded"
    containerKey,  \* the key the container was given
    inPeace,       \* history: whether that key was resolved in no race
    misread,       \* history: whether a key file that was there could not be read
    raced          \* history: who resolved its key while another process was making one

startCallVars == <<pc, task, inFlight, leader, verdict, polls>>
keyVars == <<key, file, misread, raced>>
hostVars == <<writable, elsewhere>>
backendVars == <<backend, containerKey, inPeace>>
startVars == <<startCallVars, keyVars, hostVars, backendVars>>

\* A key that is generated is named for the resolution that generates it.
Keys == [by : Callers, for : {"compose", "init"}]

InFile == {"read", "open", "write"}

\* A process does one thing at a time, and its file accesses are synchronous.
Runs(c) == \A d \in Callers : d # c /\ Owner[d] = Owner[c] => pc[d] \notin InFile

-----------------------------------------------------------------------------
StartInit ==
    /\ pc = [c \in Callers |-> "idle"]
    /\ task = [c \in Callers |-> "compose"]
    /\ inFlight = [p \in Processes |-> NoCaller]
    /\ leader = [c \in Callers |-> NoCaller]
    /\ verdict = [c \in Callers |-> "none"]
    /\ polls = [c \in Callers |-> 0]
    /\ key = [c \in Callers |-> {}]
    /\ file = {} /\ misread = FALSE /\ raced = {}
    /\ writable \in BOOLEAN /\ elsewhere \in BOOLEAN
    /\ backend = "down" /\ containerKey = {} /\ inPeace = TRUE

Goto(c, place) == pc' = [pc EXCEPT ![c] = place]

\* The work's promise is settled.
Settle(c, result) ==
    /\ Goto(c, "settled")
    /\ verdict' = [verdict EXCEPT ![c] = result]

\* On to PIIRemover.init, or out with the error.
Proceed(c, result) ==
    /\ Goto(c, IF result = "failed" THEN "failed" ELSE IF elsewhere THEN "ready" ELSE "read")
    /\ task' = [task EXCEPT ![c] = "init"]

\* Mutant of Call: the work is not put into the Map.
CallUnregistered(c) ==
    /\ pc[c] = "idle" /\ Runs(c)
    /\ LET existing == inFlight[Owner[c]] IN
       IF existing # NoCaller
       THEN Goto(c, "join") /\ leader' = [leader EXCEPT ![c] = existing] /\ UNCHANGED inFlight
       ELSE Goto(c, "probe") /\ UNCHANGED <<inFlight, leader>>
    /\ UNCHANGED <<task, verdict, polls, keyVars, hostVars, backendVars>>

\* The Map is looked at and written before anything is awaited.
Call(c) ==
    /\ pc[c] = "idle" /\ Runs(c)
    /\ LET existing == inFlight[Owner[c]] IN
       IF existing # NoCaller
       THEN Goto(c, "join") /\ leader' = [leader EXCEPT ![c] = existing] /\ UNCHANGED inFlight
       ELSE Goto(c, "probe") /\ inFlight' = [inFlight EXCEPT ![Owner[c]] = c] /\ UNCHANGED leader
    /\ UNCHANGED <<task, verdict, polls, keyVars, hostVars, backendVars>>

\* isHealthy; a probe may always run out of time.
Probe(c) ==
    /\ pc[c] = "probe" /\ Runs(c)
    /\ \/ backend = "loaded" /\ Settle(c, "ok")
       \/ Goto(c, "probeUp") /\ UNCHANGED verdict
    /\ UNCHANGED <<task, inFlight, leader, polls, keyVars, hostVars, backendVars>>

\* isContainerUp; without a container the compose file is looked for.
ProbeUp(c) ==
    /\ pc[c] = "probeUp" /\ Runs(c)
    /\ \/ backend # "down" /\ Goto(c, "warmup") /\ UNCHANGED verdict
       \/ Goto(c, "read") /\ UNCHANGED verdict
       \/ Settle(c, "failed")
    /\ UNCHANGED <<task, inFlight, leader, polls, keyVars, hostVars, backendVars>>

\* /warmup loads the model, which may go on when the call itself has failed.
Warmup(c) ==
    /\ pc[c] = "warmup" /\ Runs(c)
    /\ \/ backend # "down" /\ backend' = "loaded" /\ \E result \in {"ok", "failed"} : Settle(c, result)
       \/ UNCHANGED backend /\ Settle(c, "failed")
    /\ UNCHANGED <<task, inFlight, leader, polls, keyVars, hostVars, containerKey, inPeace>>

-----------------------------------------------------------------------------
(* resolveTokenSecret                                                      *)

Fresh(c) == [by |-> c, for |-> task[c]]

\* With its key the caller goes on to docker, or has its remover.
Resolved(c, k) ==
    /\ key' = [key EXCEPT ![c] = {k}]
    /\ Goto(c, IF task[c] = "compose" THEN "spawn" ELSE "ready")

\* Others that have found no key, and are about to write one.
Makers(c) == {d \in Callers : pc[d] \in {"open", "write"} /\ Owner[d] # Owner[c]}

Meet(c) ==
    raced' = IF Makers(c) = {} THEN raced \ {c} ELSE raced \cup Makers(c) \cup {c}

\* Mutant of Read: a key that is there is not looked for.
ReadNothing(c) ==
    /\ pc[c] = "read" /\ Runs(c) /\ Meet(c)
    /\ Goto(c, "open") /\ UNCHANGED <<key, misread>>
    /\ UNCHANGED <<task, inFlight, leader, verdict, polls, file, hostVars, backendVars>>

\* The file is read.  If it is missing or empty, or cannot be read, a key is generated.
Read(c) ==
    /\ pc[c] = "read" /\ Runs(c) /\ Meet(c)
    /\ \/ \E k \in file : Resolved(c, k) /\ UNCHANGED misread
       \/ file = {} /\ Goto(c, "open") /\ UNCHANGED <<key, misread>>
       \/ file # {} /\ Goto(c, "open") /\ misread' = TRUE /\ UNCHANGED key
    /\ UNCHANGED <<task, inFlight, leader, verdict, polls, file, hostVars, backendVars>>

\* writeFileSync opens the file, which empties it; or the key stays with this process.
Open(c) ==
    /\ pc[c] = "open"
    /\ \/ writable /\ file' = {} /\ Goto(c, "write") /\ UNCHANGED key
       \/ ~writable /\ Resolved(c, Fresh(c)) /\ UNCHANGED file
    /\ UNCHANGED <<task, inFlight, leader, verdict, polls, misread, raced, hostVars, backendVars>>

Write(c) ==
    /\ pc[c] = "write"
    /\ file' = {Fresh(c)} /\ Resolved(c, Fresh(c))
    /\ UNCHANGED <<task, inFlight, leader, verdict, polls, misread, raced, hostVars, backendVars>>

-----------------------------------------------------------------------------
\* The key of composeEnv is a local one.
Forget(c) == key' = [key EXCEPT ![c] = {}] /\ raced' = raced \ {c}

\* Mutant of Spawn: the container is left to find a key itself.
SpawnWithoutKey(c) ==
    /\ pc[c] = "spawn" /\ Runs(c) /\ Forget(c)
    /\ \/ /\ Goto(c, "poll") /\ UNCHANGED verdict
          /\ containerKey' = {[by |-> c, for |-> "container"]} /\ inPeace' = (c \notin raced)
          /\ backend' = "up"
       \/ Settle(c, "failed") /\ UNCHANGED backendVars
    /\ UNCHANGED <<task, inFlight, leader, polls, file, misread, hostVars>>

\* docker compose up -d, with a key the caller keeps no longer: it leaves a container with
\* the same environment alone, and replaces any other.
Spawn(c) ==
    /\ pc[c] = "spawn" /\ Runs(c) /\ Forget(c)
    /\ \/ /\ Goto(c, "poll") /\ UNCHANGED verdict
          /\ containerKey' = key[c] /\ inPeace' = (c \notin raced)
          /\ backend' = IF backend = "down" \/ containerKey # key[c] THEN "up" ELSE backend
       \/ Settle(c, "failed") /\ UNCHANGED backendVars
    /\ UNCHANGED <<task, inFlight, leader, polls, file, misread, hostVars>>

\* Mutant of Poll: the deadline is set anew in every round.
PollForEver(c) ==
    /\ pc[c] = "poll" /\ Runs(c)
    /\ \/ backend = "loaded" /\ Settle(c, "ok")
       \/ UNCHANGED <<pc, verdict>>
    /\ UNCHANGED <<task, inFlight, leader, polls, keyVars, hostVars, backendVars>>

\* A probe; without a model the next one follows a second later, if there is time for it.
Poll(c) ==
    /\ pc[c] = "poll" /\ Runs(c)
    /\ \/ /\ Settle(c, "failed") \/ (backend = "loaded" /\ Settle(c, "ok"))
          /\ polls' = [polls EXCEPT ![c] = 0]
       \/ /\ polls[c] < MaxPolls /\ polls' = [polls EXCEPT ![c] = @ + 1]
          /\ UNCHANGED <<pc, verdict>>
    /\ UNCHANGED <<task, inFlight, leader, keyVars, hostVars, backendVars>>

\* Mutant of End: only a success is taken out of the Map.
EndKeepsFailure(c) ==
    /\ pc[c] = "settled" /\ Runs(c)
    /\ inFlight' = [inFlight EXCEPT ![Owner[c]] = IF verdict[c] = "ok" THEN NoCaller ELSE @]
    /\ Proceed(c, verdict[c])
    /\ UNCHANGED <<leader, verdict, polls, keyVars, hostVars, backendVars>>

\* Whatever the verdict, the work is taken out of the Map.
End(c) ==
    /\ pc[c] = "settled" /\ Runs(c)
    /\ inFlight' = [inFlight EXCEPT ![Owner[c]] = NoCaller]
    /\ Proceed(c, verdict[c])
    /\ UNCHANGED <<leader, verdict, polls, keyVars, hostVars, backendVars>>

Follow(c) ==
    /\ pc[c] = "join" /\ Runs(c) /\ verdict[leader[c]] # "none"
    /\ Proceed(c, verdict[leader[c]])
    /\ UNCHANGED <<inFlight, leader, verdict, polls, keyVars, hostVars, backendVars>>

-----------------------------------------------------------------------------
\* The service loads its model, unloads it when idle, and may go down.
ModelLoads == backend = "up" /\ backend' = "loaded" /\ UNCHANGED <<containerKey, inPeace>>
ModelUnloads == backend = "loaded" /\ backend' = "up" /\ UNCHANGED <<containerKey, inPeace>>
GoesDown == backend # "down" /\ backend' = "down" /\ containerKey' = {} /\ inPeace' = TRUE

Outside == (ModelLoads \/ ModelUnloads \/ GoesDown) /\ UNCHANGED <<startCallVars, keyVars, hostVars>>

StartAdvance(c) ==
    \/ Probe(c) \/ ProbeUp(c) \/ Warmup(c) \/ Read(c) \/ Open(c) \/ Write(c)
    \/ Spawn(c) \/ Poll(c) \/ End(c) \/ Follow(c)

StartNext == (\E c \in Callers : Call(c) \/ StartAdvance(c)) \/ Outside

\* Probes and warm-ups have time limits, docker comes to an end, and the event loop of a
\* process runs everything that is ready, between its file accesses.
StartFairness == \A c \in Callers : WF_startVars(StartAdvance(c))

StartSpec == StartInit /\ [][StartNext]_startVars /\ StartFairness

-----------------------------------------------------------------------------
StartTypeOK ==
    /\ pc \in [Callers -> {"idle", "join", "probe", "probeUp", "warmup", "read", "open", "write",
                           "spawn", "poll", "settled", "ready", "failed"}]
    /\ task \in [Callers -> {"compose", "init"}]
    /\ inFlight \in [Processes -> Callers \cup {NoCaller}]
    /\ leader \in [Callers -> Callers \cup {NoCaller}]
    /\ verdict \in [Callers -> {"none", "ok", "failed"}] /\ polls \in [Callers -> 0 .. MaxPolls]
    /\ key \in [Callers -> SUBSET Keys] /\ file \subseteq Keys /\ Cardinality(file) <= 1
    /\ containerKey \subseteq Keys /\ inPeace \in BOOLEAN /\ misread \in BOOLEAN
    /\ raced \subseteq Callers
    /\ backend \in {"down", "up", "loaded"}

\* It is bringing the service up itself.
Works(c) ==
    pc[c] \notin {"idle", "join", "ready", "failed"} /\ (task[c] = "compose" \/ pc[c] = "settled")

\* tests/auto-start.test.ts:300: however many initialisations a process has under way,
\* one of them at a time brings the service up.
OneAtATime ==
    \A c, d \in Callers : Works(c) /\ Works(d) /\ Owner[c] = Owner[d] => c = d

\* Those who waited go on exactly if the work they waited for has succeeded.
FollowersShare ==
    \A c \in Callers : leader[c] # NoCaller /\ pc[c] # "join" =>
        (pc[c] = "failed" <=> verdict[leader[c]] = "failed")

\* auto-start.ts:153: a failure is not remembered; who comes after it tries again.
FailureIsForgotten ==
    [][\A c \in Callers : leader'[c] # leader[c] => pc[leader'[c]] \notin {"ready", "failed"}]_startVars

\* The key is configured where the container's is, it can be saved, and whoever has looked
\* for it where it was could read it.
KeyIsShared == ~elsewhere /\ writable /\ ~misread

\* It has its remover, with a key that was resolved while no other process was making one.
ReadyInPeace(c) == pc[c] = "ready" /\ c \notin raced

\* token-hash.ts:129: when two processes find no key at the same time, each keeps its own;
\* but whoever resolves the key before or after that has the one in the file for good,
\* whatever others do, so each restores what another has masked.
RemoversAgree ==
    KeyIsShared => \A c \in Callers : ReadyInPeace(c) => key[c] = file

\* auto-start.ts:256: a container that was given the key in peace has theirs.
KeysAgree ==
    KeyIsShared /\ backend # "down" /\ inPeace =>
        \A c \in Callers : ReadyInPeace(c) => containerKey = key[c]

\* However initialisations interleave: one work at a time in a process, shared by those
\* who wait for it, and one key for all who did not look for it while it was being made.
StartInv == StartTypeOK /\ OneAtATime /\ FollowersShare /\ KeysAgree /\ RemoversAgree

\* Every initialisation comes to an end, however slow the service is.
EveryCallEnds == \A c \in Callers : pc[c] # "idle" ~> pc[c] \in {"ready", "failed"}
=============================================================================
