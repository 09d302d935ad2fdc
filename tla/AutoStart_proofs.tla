-------------------------- MODULE AutoStart_proofs -------------------------
(***************************************************************************)
(* Proofs about AutoStart, for any processes and initialisations: one work *)
(* at a time in a process, shared by those who wait for it, a failure that *)
(* is forgotten, and one key for all who have not raced for it.            *)
(***************************************************************************)
EXTENDS AutoStart, FiniteSetTheorems, TLAPS

\* A work is in the Map exactly as long as it lasts.
WorkInv ==
    /\ \A c \in Callers : Works(c) <=> inFlight[Owner[c]] = c
    /\ \A p \in Processes : inFlight[p] # NoCaller => Owner[inFlight[p]] = p

\* What a caller needs the key for, and when its own work has a verdict.
StageInv ==
    \A c \in Callers :
        /\ pc[c] \in {"idle", "join"} => task[c] = "compose"
        /\ task[c] = "init" => pc[c] \in {"read", "open", "write", "ready", "failed"}
        /\ pc[c] \in {"ready", "failed"} => task[c] = "init"
        /\ pc[c] = "settled" <=> task[c] = "compose" /\ verdict[c] # "none"

\* Who waits has found a work; whom it has waited for has a verdict.
LeaderInv ==
    \A c \in Callers :
        /\ pc[c] = "join" => leader[c] # NoCaller
        /\ leader[c] # NoCaller =>
             /\ pc[c] = "join" \/ task[c] = "init"
             /\ pc[c] # "join" => verdict[leader[c]] # "none"

\* A process reads and writes the key file for one initialisation at a time.
FileInv ==
    \A c, d \in Callers :
        Owner[c] = Owner[d] /\ pc[c] \in InFile /\ pc[d] \in InFile => c = d

\* The file holds one key or none.
FileHolds == file = {} \/ \E k \in Keys : file = {k}

\* It has found no key, and is about to write one.
Making(c) == pc[c] \in {"open", "write"}

\* There is a key in the file, and nobody is making another.
FileSettled == file # {} /\ \A d \in Callers : ~Making(d)

\* While the key is shared: who makes one in peace is the only one to do so, and writes to
\* an empty file; who has resolved one in peace, and a container that was given such a key,
\* has the one in the file, which nobody will replace.
MakerInv ==
    \A c \in Callers : Making(c) /\ c \notin raced =>
        file = {} /\ \A d \in Callers : Making(d) => d = c

HolderInv ==
    /\ \A c \in Callers : pc[c] \in {"spawn", "ready"} /\ c \notin raced =>
         key[c] = file /\ FileSettled
    /\ backend # "down" /\ inPeace => containerKey = file /\ FileSettled

PeaceInv == KeyIsShared => MakerInv /\ HolderInv

AutoInv ==
    /\ StartTypeOK /\ WorkInv /\ StageInv /\ LeaderInv /\ FollowersShare
    /\ FileInv /\ FileHolds /\ PeaceInv

-----------------------------------------------------------------------------
(* The key                                                                 *)

\* A file with one key or none meets the type.
LEMMA OneKeyOrNone ==
    ASSUME NEW keys, keys = {} \/ \E k \in Keys : keys = {k}
    PROVE  keys \subseteq Keys /\ Cardinality(keys) <= 1
<1>1. CASE keys = {}
  BY <1>1, FS_EmptySet
<1>2. ASSUME NEW k \in Keys, keys = {k} PROVE keys \subseteq Keys /\ Cardinality(keys) <= 1
  <2>1. Cardinality({k}) = 1
    BY FS_Singleton
  <2> QED BY <1>2, <2>1
<1> QED BY <1>1, <1>2

\* A step that leaves the keys alone, and lets nobody begin or end the making of one.
LEMMA PeaceKept ==
    ASSUME AutoInv, UNCHANGED <<file, misread, key, raced, hostVars>>,
           \A c \in Callers : /\ pc'[c] \in {"open", "write"} <=> pc[c] \in {"open", "write"}
                              /\ KeyIsShared /\ pc'[c] \in {"spawn", "ready"} =>
                                   pc[c] \in {"spawn", "ready"},
           backend' # "down" /\ inPeace' =>
               backend # "down" /\ inPeace /\ containerKey' = containerKey
    PROVE  PeaceInv'
<1>1. KeyIsShared' = KeyIsShared
  BY DEF KeyIsShared, hostVars
<1>2. (\A d \in Callers : Making(d)' <=> Making(d)) /\ (FileSettled' <=> FileSettled)
  BY DEF Making, FileSettled
<1>3. ASSUME KeyIsShared PROVE MakerInv'
  BY <1>2, <1>3 DEF AutoInv, PeaceInv, MakerInv
<1>4. ASSUME KeyIsShared PROVE HolderInv'
  BY <1>2, <1>4 DEF AutoInv, PeaceInv, HolderInv
<1> QED BY <1>1, <1>3, <1>4 DEF PeaceInv

\* Who finds no key while others have found none has them all in its race; who finds one
\* finds nobody making another, or has them in its race too.
LEMMA ReadKeepsPeace ==
    ASSUME AutoInv, NEW c \in Callers, Read(c)
    PROVE  PeaceInv'
<1> SUFFICES ASSUME KeyIsShared' PROVE MakerInv' /\ HolderInv'
  BY DEF PeaceInv
<1>1. /\ pc[c] = "read" /\ UNCHANGED <<file, backend, containerKey, inPeace>>
      /\ KeyIsShared /\ UNCHANGED misread
  BY DEF Read, KeyIsShared, hostVars, backendVars
<1>2. MakerInv /\ HolderInv
  BY <1>1 DEF AutoInv, PeaceInv
<1>3. /\ \A d \in Callers \ {c} : pc'[d] = pc[d] /\ key'[d] = key[d]
      /\ \/ file = {} /\ pc'[c] = "open"
         \/ file # {} /\ pc'[c] \in {"spawn", "ready"} /\ key'[c] = file
  <2>1. CASE file = {}
    BY <2>1 DEF Read, Goto, AutoInv, StartTypeOK
  <2>2. CASE file # {}
    <3>1. PICK k \in file : Resolved(c, k)
      BY <1>1, <2>2 DEF Read, KeyIsShared
    <3>2. file = {k}
      BY <3>1 DEF AutoInv, FileHolds
    <3> QED BY <2>2, <3>1, <3>2 DEF Resolved, Goto, AutoInv, StartTypeOK
  <2> QED BY <2>1, <2>2
<1>4. /\ \A d \in Callers : d \notin raced' => d \notin Makers(c) /\ (d = c \/ d \notin raced)
      /\ c \notin raced' => Makers(c) = {}
  BY DEF Read, Meet
<1>5. \A d \in Callers : Making(d) => d \in Makers(c)
  BY <1>1 DEF Read, Runs, InFile, Making, Makers
<1>6. \A d \in Callers \ {c} : Making(d)' <=> Making(d)
  BY <1>3 DEF Making
<1>7. MakerInv'
  <2> SUFFICES ASSUME NEW d \in Callers, Making(d)', d \notin raced'
               PROVE  file' = {} /\ \A e \in Callers : Making(e)' => e = d
    BY DEF MakerInv
  <2>1. d = c
    BY <1>4, <1>5, <1>6
  <2>2. \A e \in Callers \ {c} : ~Making(e)'
    BY <1>4, <1>5, <1>6, <2>1
  <2>3. file = {}
    BY <1>3, <2>1 DEF Making
  <2> QED BY <1>1, <2>1, <2>2, <2>3
<1>8. \A d \in Callers : pc'[d] \in {"spawn", "ready"} /\ d \notin raced' =>
                           key'[d] = file' /\ FileSettled'
  <2> SUFFICES ASSUME NEW d \in Callers, pc'[d] \in {"spawn", "ready"}, d \notin raced'
               PROVE  key'[d] = file' /\ FileSettled'
    OBVIOUS
  <2>1. CASE d = c
    <3>1. \A e \in Callers : ~Making(e)'
      BY <1>3, <1>4, <1>5, <1>6, <2>1 DEF Making
    <3> QED BY <1>1, <1>3, <2>1, <3>1 DEF FileSettled
  <2>2. CASE d # c
    <3>1. key[d] = file /\ FileSettled
      BY <1>2, <1>3, <1>4, <2>2 DEF HolderInv
    <3>2. ~Making(c)'
      BY <1>3, <3>1 DEF FileSettled, Making
    <3> QED BY <1>1, <1>3, <1>6, <2>2, <3>1, <3>2 DEF FileSettled
  <2> QED BY <2>1, <2>2
<1>9. backend' # "down" /\ inPeace' => containerKey' = file' /\ FileSettled'
  <2> SUFFICES ASSUME backend # "down", inPeace PROVE containerKey = file /\ FileSettled'
    BY <1>1
  <2>1. containerKey = file /\ FileSettled
    BY <1>2 DEF HolderInv
  <2>2. ~Making(c)'
    BY <1>3, <2>1 DEF FileSettled, Making
  <2> QED BY <1>1, <1>6, <2>1, <2>2 DEF FileSettled
<1> QED BY <1>7, <1>8, <1>9 DEF HolderInv

\* The file is emptied by one whom the race of others has met, or who is alone.
LEMMA OpenKeepsPeace ==
    ASSUME AutoInv, NEW c \in Callers, Open(c)
    PROVE  PeaceInv'
<1> SUFFICES ASSUME KeyIsShared' PROVE MakerInv' /\ HolderInv'
  BY DEF PeaceInv
<1>1. /\ pc[c] = "open" /\ file' = {} /\ pc' = [pc EXCEPT ![c] = "write"]
      /\ UNCHANGED <<key, raced, backend, containerKey, inPeace>> /\ KeyIsShared
  BY DEF Open, Goto, KeyIsShared, hostVars, backendVars
<1>2. MakerInv /\ HolderInv
  BY <1>1 DEF AutoInv, PeaceInv
<1>3. pc'[c] = "write" /\ \A d \in Callers \ {c} : pc'[d] = pc[d]
  BY <1>1 DEF AutoInv, StartTypeOK
<1>4. Making(c) /\ \A d \in Callers : Making(d)' <=> Making(d)
  BY <1>1, <1>3 DEF Making
<1>5. ~FileSettled
  BY <1>4 DEF FileSettled
<1>6. MakerInv'
  BY <1>1, <1>2, <1>4 DEF MakerInv
<1>7. HolderInv'
  BY <1>1, <1>2, <1>3, <1>5 DEF HolderInv
<1> QED BY <1>6, <1>7

\* The key that is written in peace is the only one, and stays.
LEMMA WriteKeepsPeace ==
    ASSUME AutoInv, NEW c \in Callers, Write(c)
    PROVE  PeaceInv'
<1> SUFFICES ASSUME KeyIsShared' PROVE MakerInv' /\ HolderInv'
  BY DEF PeaceInv
<1>1. /\ pc[c] = "write" /\ file' = {Fresh(c)} /\ key' = [key EXCEPT ![c] = {Fresh(c)}]
      /\ pc' = [pc EXCEPT ![c] = IF task[c] = "compose" THEN "spawn" ELSE "ready"]
      /\ UNCHANGED <<raced, backend, containerKey, inPeace>> /\ KeyIsShared
  BY DEF Write, Resolved, Goto, KeyIsShared, hostVars, backendVars
<1>2. MakerInv /\ HolderInv
  BY <1>1 DEF AutoInv, PeaceInv
<1>3. /\ \A d \in Callers \ {c} : pc'[d] = pc[d] /\ key'[d] = key[d]
      /\ pc'[c] \in {"spawn", "ready"} /\ key'[c] = file' /\ file' # {}
  BY <1>1 DEF AutoInv, StartTypeOK
<1>4. Making(c) /\ ~Making(c)' /\ \A d \in Callers \ {c} : Making(d)' <=> Making(d)
  BY <1>1, <1>3 DEF Making
<1>5. ~FileSettled
  BY <1>4 DEF FileSettled
<1>6. MakerInv'
  BY <1>1, <1>2, <1>4 DEF MakerInv
<1>7. ASSUME NEW d \in Callers, pc'[d] \in {"spawn", "ready"}, d \notin raced'
      PROVE  key'[d] = file' /\ FileSettled'
  <2>1. d = c
    BY <1>1, <1>2, <1>3, <1>5, <1>7 DEF HolderInv
  <2>2. \A e \in Callers \ {c} : ~Making(e)
    BY <1>1, <1>2, <1>4, <1>7, <2>1 DEF MakerInv
  <2> QED BY <1>3, <1>4, <2>1, <2>2 DEF FileSettled
<1>8. ~(backend' # "down" /\ inPeace')
  BY <1>1, <1>2, <1>5 DEF HolderInv
<1> QED BY <1>6, <1>7, <1>8 DEF HolderInv

\* The container is given the key that its caller has resolved.
LEMMA SpawnKeepsPeace ==
    ASSUME AutoInv, NEW c \in Callers, Spawn(c)
    PROVE  PeaceInv'
<1> SUFFICES ASSUME KeyIsShared' PROVE MakerInv' /\ HolderInv'
  BY DEF PeaceInv
<1>1. /\ pc[c] = "spawn" /\ UNCHANGED file /\ raced' = raced \ {c} /\ KeyIsShared
      /\ \A d \in Callers \ {c} : pc'[d] = pc[d] /\ key'[d] = key[d]
      /\ pc'[c] \in {"poll", "settled"}
      /\ \/ containerKey' = key[c] /\ (inPeace' => c \notin raced)
         \/ UNCHANGED <<backend, containerKey, inPeace>>
  BY DEF Spawn, Forget, Goto, Settle, KeyIsShared, hostVars, backendVars, AutoInv, StartTypeOK
<1>2. MakerInv /\ HolderInv
  BY <1>1 DEF AutoInv, PeaceInv
<1>3. \A d \in Callers : Making(d)' <=> Making(d)
  BY <1>1 DEF Making
<1>4. FileSettled' <=> FileSettled
  BY <1>1, <1>3 DEF FileSettled
<1>5. MakerInv'
  BY <1>1, <1>2, <1>3 DEF MakerInv, Making
<1>6. \A d \in Callers : pc'[d] \in {"spawn", "ready"} /\ d \notin raced' =>
                           key'[d] = file' /\ FileSettled'
  BY <1>1, <1>2, <1>4 DEF HolderInv
<1>7. backend' # "down" /\ inPeace' => containerKey' = file' /\ FileSettled'
  <2> SUFFICES ASSUME backend' # "down", inPeace' PROVE containerKey' = file' /\ FileSettled'
    OBVIOUS
  <2>1. CASE containerKey' = key[c] /\ (inPeace' => c \notin raced)
    BY <1>1, <1>2, <1>4, <2>1 DEF HolderInv
  <2>2. CASE UNCHANGED <<backend, containerKey, inPeace>>
    BY <1>1, <1>2, <1>4, <2>2 DEF HolderInv
  <2> QED BY <1>1, <2>1, <2>2
<1> QED BY <1>5, <1>6, <1>7 DEF HolderInv

-----------------------------------------------------------------------------
(* The steps                                                               *)

LEMMA CallKeeps ==
    ASSUME AutoInv, NEW c \in Callers, Call(c)
    PROVE  AutoInv'
<1> USE StartAssumption DEF AutoInv, StartTypeOK, startCallVars, keyVars, hostVars, backendVars, Call, Goto
<1>1. StartTypeOK'
  BY DEF StartTypeOK, Keys
<1>2. WorkInv'
  BY DEF WorkInv, Works, StageInv
<1>3. StageInv'
  BY DEF StageInv
<1>4. LeaderInv'
  BY DEF LeaderInv, StageInv
<1>5. FollowersShare'
  BY DEF FollowersShare, LeaderInv, StageInv
<1>6. FileInv'
  BY DEF FileInv, InFile, Runs
<1>7. FileHolds'
  BY DEF FileHolds
<1>8. PeaceInv'
  BY PeaceKept
<1> QED BY <1>1, <1>2, <1>3, <1>4, <1>5, <1>6, <1>7, <1>8

LEMMA ProbeKeeps ==
    ASSUME AutoInv, NEW c \in Callers, Probe(c)
    PROVE  AutoInv'
<1> USE StartAssumption DEF AutoInv, StartTypeOK, startCallVars, keyVars, hostVars, backendVars, Probe, Goto, Settle
<1>1. StartTypeOK'
  BY DEF StartTypeOK, Keys
<1>2. WorkInv'
  BY DEF WorkInv, Works, StageInv
<1>3. StageInv'
  BY DEF StageInv
<1>4. LeaderInv'
  BY DEF LeaderInv, StageInv
<1>5. FollowersShare'
  BY DEF FollowersShare, LeaderInv, StageInv
<1>6. FileInv'
  BY DEF FileInv, InFile, Runs
<1>7. FileHolds'
  BY DEF FileHolds
<1>8. PeaceInv'
  BY PeaceKept
<1> QED BY <1>1, <1>2, <1>3, <1>4, <1>5, <1>6, <1>7, <1>8

LEMMA ProbeUpKeeps ==
    ASSUME AutoInv, NEW c \in Callers, ProbeUp(c)
    PROVE  AutoInv'
<1> USE StartAssumption DEF AutoInv, StartTypeOK, startCallVars, keyVars, hostVars, backendVars, ProbeUp, Goto, Settle
<1>1. StartTypeOK'
  BY DEF StartTypeOK, Keys
<1>2. WorkInv'
  BY DEF WorkInv, Works, StageInv
<1>3. StageInv'
  BY DEF StageInv
<1>4. LeaderInv'
  BY DEF LeaderInv, StageInv
<1>5. FollowersShare'
  BY DEF FollowersShare, LeaderInv, StageInv
<1>6. FileInv'
  BY DEF FileInv, InFile, Runs
<1>7. FileHolds'
  BY DEF FileHolds
<1>8. PeaceInv'
  BY PeaceKept
<1> QED BY <1>1, <1>2, <1>3, <1>4, <1>5, <1>6, <1>7, <1>8

LEMMA WarmupKeeps ==
    ASSUME AutoInv, NEW c \in Callers, Warmup(c)
    PROVE  AutoInv'
<1> USE StartAssumption DEF AutoInv, StartTypeOK, startCallVars, keyVars, hostVars, backendVars, Warmup, Goto, Settle
<1>1. StartTypeOK'
  BY DEF StartTypeOK, Keys
<1>2. WorkInv'
  BY DEF WorkInv, Works, StageInv
<1>3. StageInv'
  BY DEF StageInv
<1>4. LeaderInv'
  BY DEF LeaderInv, StageInv
<1>5. FollowersShare'
  BY DEF FollowersShare, LeaderInv, StageInv
<1>6. FileInv'
  BY DEF FileInv, InFile, Runs
<1>7. FileHolds'
  BY DEF FileHolds
<1>8. PeaceInv'
  BY PeaceKept
<1> QED BY <1>1, <1>2, <1>3, <1>4, <1>5, <1>6, <1>7, <1>8

LEMMA ReadKeeps ==
    ASSUME AutoInv, NEW c \in Callers, Read(c)
    PROVE  AutoInv'
<1> USE StartAssumption DEF AutoInv, StartTypeOK, startCallVars, keyVars, hostVars, backendVars, Read, Goto, Resolved, Meet, Makers
<1>1. StartTypeOK'
  <2>1. misread' \in BOOLEAN
    BY Zenon
  <2>2. raced' \subseteq Callers
    BY Zenon
  <2>3. key' \in [Callers -> SUBSET Keys]
    BY DEF Keys
  <2> QED BY <2>1, <2>2, <2>3 DEF StartTypeOK, Keys
<1>2. WorkInv'
  BY DEF WorkInv, Works, StageInv
<1>3. StageInv'
  BY DEF StageInv
<1>4. LeaderInv'
  BY DEF LeaderInv, StageInv
<1>5. FollowersShare'
  BY DEF FollowersShare, LeaderInv, StageInv
<1>6. FileInv'
  BY DEF FileInv, InFile, Runs
<1>7. FileHolds'
  BY DEF FileHolds, Keys
<1>8. PeaceInv'
  BY ReadKeepsPeace
<1> QED BY <1>1, <1>2, <1>3, <1>4, <1>5, <1>6, <1>7, <1>8


LEMMA OpenKeeps ==
    ASSUME AutoInv, NEW c \in Callers, Open(c)
    PROVE  AutoInv'
<1> USE StartAssumption DEF AutoInv, StartTypeOK, startCallVars, keyVars, hostVars, backendVars, Open, Goto, Resolved, Fresh
<1>1. StartTypeOK'
  <2>1. FileHolds'
    BY DEF FileHolds, Keys
  <2>2. file' \subseteq Keys /\ Cardinality(file') <= 1
    BY <2>1, OneKeyOrNone DEF FileHolds, Keys
  <2> QED BY <2>2 DEF Keys
<1>2. WorkInv'
  BY DEF WorkInv, Works, StageInv
<1>3. StageInv'
  BY DEF StageInv
<1>4. LeaderInv'
  BY DEF LeaderInv, StageInv
<1>5. FollowersShare'
  BY DEF FollowersShare, LeaderInv, StageInv
<1>6. FileInv'
  BY DEF FileInv, InFile, Runs
<1>7. FileHolds'
  BY DEF FileHolds, Keys
<1>8. PeaceInv'
  BY OpenKeepsPeace
<1> QED BY <1>1, <1>2, <1>3, <1>4, <1>5, <1>6, <1>7, <1>8


LEMMA WriteKeeps ==
    ASSUME AutoInv, NEW c \in Callers, Write(c)
    PROVE  AutoInv'
<1> USE StartAssumption DEF AutoInv, StartTypeOK, startCallVars, keyVars, hostVars, backendVars, Write, Goto, Resolved, Fresh
<1>1. StartTypeOK'
  <2>1. FileHolds'
    BY DEF FileHolds, Keys
  <2>2. file' \subseteq Keys /\ Cardinality(file') <= 1
    BY <2>1, OneKeyOrNone DEF FileHolds, Keys
  <2> QED BY <2>2 DEF Keys
<1>2. WorkInv'
  BY DEF WorkInv, Works, StageInv
<1>3. StageInv'
  BY DEF StageInv
<1>4. LeaderInv'
  BY DEF LeaderInv, StageInv
<1>5. FollowersShare'
  BY DEF FollowersShare, LeaderInv, StageInv
<1>6. FileInv'
  BY DEF FileInv, InFile, Runs
<1>7. FileHolds'
  BY DEF FileHolds, Keys
<1>8. PeaceInv'
  BY WriteKeepsPeace
<1> QED BY <1>1, <1>2, <1>3, <1>4, <1>5, <1>6, <1>7, <1>8


LEMMA SpawnKeeps ==
    ASSUME AutoInv, NEW c \in Callers, Spawn(c)
    PROVE  AutoInv'
<1> USE StartAssumption DEF AutoInv, StartTypeOK, startCallVars, keyVars, hostVars, backendVars, Spawn, Goto, Settle, Forget
<1>1. StartTypeOK'
  <2>1. inPeace' \in BOOLEAN
    BY Zenon
  <2>2. key' \in [Callers -> SUBSET Keys] /\ containerKey' \subseteq Keys /\ raced' \subseteq Callers
    BY DEF Keys
  <2> QED BY <2>1, <2>2 DEF StartTypeOK, Keys
<1>2. WorkInv'
  BY DEF WorkInv, Works, StageInv
<1>3. StageInv'
  BY DEF StageInv
<1>4. LeaderInv'
  BY DEF LeaderInv, StageInv
<1>5. FollowersShare'
  BY DEF FollowersShare, LeaderInv, StageInv
<1>6. FileInv'
  BY DEF FileInv, InFile, Runs
<1>7. FileHolds'
  BY DEF FileHolds
<1>8. PeaceInv'
  BY SpawnKeepsPeace
<1> QED BY <1>1, <1>2, <1>3, <1>4, <1>5, <1>6, <1>7, <1>8

LEMMA PollKeeps ==
    ASSUME AutoInv, NEW c \in Callers, Poll(c)
    PROVE  AutoInv'
<1> USE StartAssumption DEF AutoInv, StartTypeOK, startCallVars, keyVars, hostVars, backendVars, Poll, Goto, Settle
<1>1. StartTypeOK'
  BY DEF StartTypeOK, Keys
<1>2. WorkInv'
  BY DEF WorkInv, Works, StageInv
<1>3. StageInv'
  BY DEF StageInv
<1>4. LeaderInv'
  BY DEF LeaderInv, StageInv
<1>5. FollowersShare'
  BY DEF FollowersShare, LeaderInv, StageInv
<1>6. FileInv'
  BY DEF FileInv, InFile, Runs
<1>7. FileHolds'
  BY DEF FileHolds
<1>8. PeaceInv'
  BY PeaceKept
<1> QED BY <1>1, <1>2, <1>3, <1>4, <1>5, <1>6, <1>7, <1>8

LEMMA EndKeeps ==
    ASSUME AutoInv, NEW c \in Callers, End(c)
    PROVE  AutoInv'
<1> USE StartAssumption DEF AutoInv, StartTypeOK, startCallVars, keyVars, hostVars, backendVars, End, Goto, Proceed
<1>1. StartTypeOK'
  BY DEF StartTypeOK, Keys
<1>2. WorkInv'
  <2>1. /\ inFlight' = [inFlight EXCEPT ![Owner[c]] = NoCaller]
        /\ Works(c) /\ ~Works(c)' /\ Owner[c] \in Processes
        /\ \A d \in Callers \ {c} : Works(d)' <=> Works(d)
    BY DEF Works, StageInv
  <2> QED BY <2>1 DEF WorkInv
<1>3. StageInv'
  BY DEF StageInv
<1>4. LeaderInv'
  BY DEF LeaderInv, StageInv
<1>5. FollowersShare'
  BY DEF FollowersShare, LeaderInv, StageInv
<1>6. FileInv'
  BY DEF FileInv, InFile, Runs
<1>7. FileHolds'
  BY DEF FileHolds
<1>8. PeaceInv'
  BY PeaceKept DEF KeyIsShared
<1> QED BY <1>1, <1>2, <1>3, <1>4, <1>5, <1>6, <1>7, <1>8

LEMMA FollowKeeps ==
    ASSUME AutoInv, NEW c \in Callers, Follow(c)
    PROVE  AutoInv'
<1> USE StartAssumption DEF AutoInv, StartTypeOK, startCallVars, keyVars, hostVars, backendVars, Follow, Goto, Proceed
<1>1. StartTypeOK'
  BY DEF StartTypeOK, Keys
<1>2. WorkInv'
  BY DEF WorkInv, Works, StageInv
<1>3. StageInv'
  BY DEF StageInv
<1>4. LeaderInv'
  BY DEF LeaderInv, StageInv
<1>5. FollowersShare'
  BY DEF FollowersShare, LeaderInv, StageInv
<1>6. FileInv'
  BY DEF FileInv, InFile, Runs
<1>7. FileHolds'
  BY DEF FileHolds
<1>8. PeaceInv'
  BY PeaceKept DEF KeyIsShared
<1> QED BY <1>1, <1>2, <1>3, <1>4, <1>5, <1>6, <1>7, <1>8

LEMMA OutsideKeeps ==
    ASSUME AutoInv, Outside
    PROVE  AutoInv'
<1> USE StartAssumption DEF AutoInv, StartTypeOK, startCallVars, keyVars, hostVars, backendVars, Outside, ModelLoads, ModelUnloads, GoesDown
<1>1. StartTypeOK'
  BY DEF StartTypeOK, Keys
<1>2. WorkInv'
  BY DEF WorkInv, Works, StageInv
<1>3. StageInv'
  BY DEF StageInv
<1>4. LeaderInv'
  BY DEF LeaderInv, StageInv
<1>5. FollowersShare'
  BY DEF FollowersShare, LeaderInv, StageInv
<1>6. FileInv'
  BY DEF FileInv, InFile, Runs
<1>7. FileHolds'
  BY DEF FileHolds
<1>8. PeaceInv'
  BY PeaceKept
<1> QED BY <1>1, <1>2, <1>3, <1>4, <1>5, <1>6, <1>7, <1>8

-----------------------------------------------------------------------------
(* The theorems                                                            *)

LEMMA AutoInit == StartInit => AutoInv
<1> SUFFICES ASSUME StartInit PROVE AutoInv
  OBVIOUS
<1> USE StartAssumption DEF StartInit
<1>1. StartTypeOK
  <2>1. inPeace \in BOOLEAN /\ misread \in BOOLEAN
    BY Zenon
  <2>2. Cardinality(file) <= 1
    BY FS_EmptySet
  <2> QED BY <2>1, <2>2 DEF StartTypeOK
<1>2. WorkInv /\ StageInv /\ LeaderInv /\ FollowersShare
  BY DEF WorkInv, Works, StageInv, LeaderInv, FollowersShare
<1>3. FileInv /\ FileHolds /\ PeaceInv
  BY DEF FileInv, InFile, FileHolds, PeaceInv, MakerInv, HolderInv, Making
<1> QED BY <1>1, <1>2, <1>3 DEF AutoInv

LEMMA AutoStep == AutoInv /\ [StartNext]_startVars => AutoInv'
<1> SUFFICES ASSUME AutoInv, [StartNext]_startVars PROVE AutoInv'
  OBVIOUS
<1>1. CASE Outside
  BY <1>1, OutsideKeeps
<1>2. ASSUME NEW c \in Callers, Call(c) \/ StartAdvance(c) PROVE AutoInv'
  BY <1>2, CallKeeps, ProbeKeeps, ProbeUpKeeps, WarmupKeeps, ReadKeeps, OpenKeeps, WriteKeeps,
     SpawnKeeps, PollKeeps, EndKeeps, FollowKeeps DEF StartAdvance
<1>3. CASE UNCHANGED startVars
  <2>1. PeaceInv'
    BY <1>3, PeaceKept DEF startVars, startCallVars, keyVars, hostVars, backendVars
  <2>2. /\ StartTypeOK' /\ WorkInv' /\ StageInv' /\ LeaderInv' /\ FollowersShare'
        /\ FileInv' /\ FileHolds'
    BY <1>3 DEF AutoInv, startVars, startCallVars, keyVars, hostVars, backendVars, StartTypeOK, WorkInv, Works,
       StageInv, LeaderInv, FollowersShare, FileInv, FileHolds
  <2> QED BY <2>1, <2>2 DEF AutoInv
<1> QED BY <1>1, <1>2, <1>3 DEF StartNext

\* Whatever processes and initialisations there are: a process has its work in the Map as
\* long as it lasts, and while the key is shared, a key that was made or found in no race is
\* the one in the file, and nobody is about to replace it.
THEOREM StartStaysOrderly == StartSpec => []AutoInv
  BY AutoInit, AutoStep, PTL DEF StartSpec

\* auto-start.ts, token-hash.ts:129: one work at a time in a process, shared by those who
\* wait for it, and the key of the file for all who have not resolved theirs in a race, and
\* for the container if it has been given its own in none.
THEOREM StartIsSafe == StartSpec => []StartInv
<1>1. ASSUME AutoInv PROVE StartInv
  <2>1. OneAtATime
    BY <1>1 DEF AutoInv, WorkInv, OneAtATime
  <2>2. RemoversAgree
    BY <1>1 DEF AutoInv, PeaceInv, HolderInv, RemoversAgree, ReadyInPeace
  <2>3. KeysAgree
    BY <1>1, <2>2 DEF AutoInv, PeaceInv, HolderInv, KeysAgree, RemoversAgree
  <2> QED BY <1>1, <2>1, <2>2, <2>3 DEF AutoInv, StartInv
<1> QED BY <1>1, StartStaysOrderly, PTL

\* auto-start.ts:153: who comes after a failure finds no promise of it, and tries again.
THEOREM FailuresAreForgotten == StartSpec => FailureIsForgotten
<1>1. ASSUME AutoInv, [StartNext]_startVars, NEW c \in Callers, leader'[c] # leader[c]
      PROVE  pc[leader'[c]] \notin {"ready", "failed"}
  <2>1. PICK d \in Callers : Call(d)
    BY <1>1 DEF StartNext, Outside, StartAdvance, Probe, ProbeUp, Warmup, Read, Open, Write, Spawn, Poll,
       End, Follow, startVars, startCallVars
  <2>2. c = d /\ leader'[c] = inFlight[Owner[c]] /\ inFlight[Owner[c]] # NoCaller
    BY <1>1, <2>1 DEF Call, AutoInv, StartTypeOK
  <2>3. leader'[c] \in Callers /\ Works(leader'[c])
    BY <1>1, <2>2, StartAssumption DEF AutoInv, StartTypeOK, WorkInv
  <2> QED BY <2>3 DEF Works
<1>2. AutoInv /\ [StartNext]_startVars =>
        [\A c \in Callers : leader'[c] # leader[c] => pc[leader'[c]] \notin {"ready", "failed"}]_startVars
  BY <1>1
<1> QED BY <1>2, StartStaysOrderly, PTL DEF StartSpec, FailureIsForgotten
=============================================================================
