------------------------- MODULE ModelRunner_proofs ------------------------
(***************************************************************************)
(* Proofs about ModelRunner, for any calls, and any number of parts and    *)
(* variants of a model: an inference never mixes two loads, the idle       *)
(* monitor makes no request fail, and what it unloads has been idle.       *)
(***************************************************************************)
EXTENDS ModelRunner, TLAPS

\* The shape of the state that TypeOK leaves open, and what a thread keeps between uses.
Shape ==
    /\ DOMAIN model = Runners /\ DOMAIN held = Threads
    /\ trying \in [Threads -> [variant : Nat, part : Nat]]
    /\ \A c \in Threads : /\ stage[c] # "loading" => trying[c] = First
                          /\ stage[c] # "running" => held[c] = <<>>
                          /\ stage[c] # "back" => outcome[c] = "ok"

\* Whoever loads or has loaded a model holds its lock.
LockInv ==
    \A r \in Runners, c \in Threads :
      lock[r] = c <=> at[c] = r /\ stage[c] \in {"loading", "holding"}

Last(r) == model[r][Parts[r]]

\* All parts of a model come from one load, or its last part is missing.
OfOneLoad(r) ==
    \/ \A p, q \in 1 .. Parts[r] : model[r][p] # Missing /\ model[r][p] = model[r][q]
    \/ Last(r) = Missing

\* What a load has set of the variant it tries is all its own.
LoadInv(c) ==
    stage[c] = "loading" =>
        /\ Last(at[c]) = Missing
        /\ trying[c].part > 1 => Loaded(at[c])
        /\ \A p \in 1 .. trying[c].part - 1 : model[at[c]][p] = model[at[c]][1]

\* Only a load that raised leaves a part of a model behind.
PartInv ==
    /\ \A r \in Runners :
         \/ ~Loaded(r) \/ Whole(model[r]) \/ broken[r]
         \/ \E c \in Threads : stage[c] = "loading" /\ at[c] = r
    /\ \A c \in Threads : /\ stage[c] = "holding" => Loaded(at[c])
                          /\ stage[c] = "running" /\ ~Whole(held[c]) => broken[at[c]]
                          /\ stage[c] = "back" /\ outcome[c] = "raised" => broken[at[c]]

MonitorInv == monitor # "asleep" => clock = "old"

ModelInv ==
    /\ TypeOK /\ Shape /\ LockInv
    /\ \A r \in Runners : OfOneLoad(r)
    /\ \A c \in Threads : LoadInv(c)
    /\ InferenceIsOfOneLoad
    /\ PartInv /\ MonitorInv

-----------------------------------------------------------------------------
(* Steps that leave the models alone                                       *)

\* A step of thread q that stays clear of the work under the lock and of its result.
Aside(q) ==
    \/ stage'[q] = stage[q] /\ at'[q] = at[q] /\ outcome'[q] = outcome[q]
    \/ /\ {stage[q], stage'[q]} \cap {"loading", "holding", "running"} = {}
       /\ outcome'[q] = "ok"

LEMMA AsideKeeps ==
    ASSUME ModelInv, UNCHANGED <<model, held, trying, broken>>, \A q \in Threads : Aside(q)
    PROVE  /\ (\A r \in Runners : OfOneLoad(r))' /\ (\A c \in Threads : LoadInv(c))'
           /\ InferenceIsOfOneLoad' /\ PartInv'
<1>1. (\A r \in Runners : OfOneLoad(r))'
  BY DEF ModelInv, OfOneLoad, Last
<1>2. \A c \in Threads : LoadInv(c)'
  BY DEF ModelInv, LoadInv, Last, Loaded, Aside
<1>3. InferenceIsOfOneLoad'
  BY DEF ModelInv, InferenceIsOfOneLoad, Aside
<1>4. PartInv'
  <2>1. \A r \in Runners, c \in Threads :
          stage[c] = "loading" /\ at[c] = r => stage'[c] = "loading" /\ at'[c] = r
    BY DEF Aside
  <2>2. ASSUME NEW r \in Runners
        PROVE  \/ ~Loaded(r)' \/ Whole(model'[r]) \/ broken'[r]
               \/ \E c \in Threads : stage'[c] = "loading" /\ at'[c] = r
    BY <2>1 DEF ModelInv, PartInv, Loaded
  <2>3. ASSUME NEW c \in Threads
        PROVE  /\ stage'[c] = "holding" => Loaded(at[c]) /\ at'[c] = at[c]
               /\ stage'[c] = "running" /\ ~Whole(held[c]) => broken[at'[c]]
               /\ stage'[c] = "back" /\ outcome'[c] = "raised" => broken[at'[c]]
    BY DEF ModelInv, PartInv, Aside
  <2> QED BY <2>2, <2>3 DEF PartInv, Loaded
<1> QED BY <1>1, <1>2, <1>3, <1>4

LEMMA AcceptKeeps ==
    ASSUME ModelInv, NEW c \in Calls, NEW k \in Kinds[c], Accept(c, k)
    PROVE  ModelInv'
<1> USE DEF ModelInv, TypeOK, Shape, callVars, Accept
<1>1. TypeOK'
  BY RunnerAssumption DEF TypeOK, PartsOf, Threads
<1>2. Shape'
  BY RunnerAssumption DEF Shape, Threads
<1>3. LockInv'
  BY RunnerAssumption DEF LockInv, Threads
<1>4. \A q \in Threads : Aside(q)
  BY DEF Aside
<1>5. MonitorInv'
  BY DEF MonitorInv, LoopIsFree
<1> QED BY <1>1, <1>2, <1>3, <1>4, <1>5, AsideKeeps

LEMMA TurnKeeps ==
    ASSUME ModelInv, NEW c \in Threads, Turn(c)
    PROVE  ModelInv'
<1> USE DEF ModelInv, TypeOK, Shape, callVars, Turn
<1>1. TypeOK'
  BY RunnerAssumption DEF TypeOK, PartsOf, Threads
<1>2. Shape'
  BY RunnerAssumption DEF Shape, Threads
<1>3. LockInv'
  BY RunnerAssumption DEF LockInv, Threads
<1>4. \A q \in Threads : Aside(q)
  BY DEF Aside
<1>5. MonitorInv'
  BY DEF MonitorInv, LoopIsFree
<1> QED BY <1>1, <1>2, <1>3, <1>4, <1>5, AsideKeeps

LEMMA BeginKeeps ==
    ASSUME ModelInv, NEW c \in Threads, Begin(c)
    PROVE  ModelInv'
<1> USE DEF ModelInv, TypeOK, Shape, callVars, Begin
<1>1. TypeOK'
  BY RunnerAssumption DEF TypeOK, PartsOf, Threads
<1>2. Shape'
  BY RunnerAssumption DEF Shape, Threads
<1>3. LockInv'
  BY RunnerAssumption DEF LockInv, Threads
<1>4. \A q \in Threads : Aside(q)
  BY DEF Aside
<1>5. MonitorInv'
  BY DEF MonitorInv, LoopIsFree
<1> QED BY <1>1, <1>2, <1>3, <1>4, <1>5, AsideKeeps

LEMMA BackKeeps ==
    ASSUME ModelInv, NEW c \in Threads, Back(c)
    PROVE  ModelInv'
<1>0. /\ stage \in [Threads -> {"idle", "turn", "thread", "locking", "loading", "holding",
                                 "running", "back"}]
      /\ kind \in [Threads -> {"none", "redact", "warmup", "startup"}]
      /\ at \in [Threads -> Runners]
  BY DEF ModelInv, TypeOK
<1>1. /\ UNCHANGED <<model, lock, trying, held, monitor, broken>>
      /\ outcome' = [outcome EXCEPT ![c] = "ok"]
      /\ kind' \in [Threads -> {"none", "redact", "warmup", "startup"}]
      /\ at' \in [Threads -> Runners] /\ \A q \in Threads \ {c} : at'[q] = at[q]
      /\ stage' \in [Threads -> {"idle", "turn", "thread", "locking", "loading", "holding",
                                 "running", "back"}]
      /\ stage'[c] \in {"turn", "idle"} /\ \A q \in Threads \ {c} : stage'[q] = stage[q]
      /\ stage[c] = "back" /\ OnLoop(c)
      /\ clock' = clock \/ (c # Startup /\ clock' = "recent")
  <2>1. CASE at[c] = "opf" /\ ~Fatal(c)
    BY <1>0, <2>1 DEF Back, Runners
  <2>2. CASE ~(at[c] = "opf" /\ ~Fatal(c))
    BY <1>0, <2>2 DEF Back, Runners, Fatal
  <2> QED BY <2>1, <2>2 DEF Fatal
<1>2. TypeOK'
  <2>1. \A q \in Threads : \/ at'[q] = at[q] /\ stage'[q] = stage[q]
                           \/ held[q] = <<>> /\ stage'[q] # "loading"
    BY <1>1 DEF ModelInv, Shape
  <2> QED BY <1>1, <2>1 DEF ModelInv, TypeOK, PartsOf
<1>3. Shape'
  BY <1>1 DEF ModelInv, TypeOK, Shape
<1>4. LockInv'
  BY <1>1 DEF ModelInv, TypeOK, LockInv
<1>5. \A q \in Threads : Aside(q)
  BY <1>1 DEF ModelInv, TypeOK, Shape, Aside
<1>6. MonitorInv'
  BY <1>1 DEF ModelInv, MonitorInv, LoopIsFree, OnLoop
<1> QED BY <1>1, <1>2, <1>3, <1>4, <1>5, <1>6, AsideKeeps DEF ModelInv

LEMMA TickKeeps ==
    ASSUME ModelInv, Tick
    PROVE  ModelInv'
<1> USE DEF ModelInv, TypeOK, Shape, callVars, Tick
<1>1. TypeOK'
  BY RunnerAssumption DEF TypeOK, PartsOf, Threads
<1>2. Shape'
  BY RunnerAssumption DEF Shape, Threads
<1>3. LockInv'
  BY RunnerAssumption DEF LockInv, Threads
<1>4. \A q \in Threads : Aside(q)
  BY DEF Aside
<1>5. MonitorInv'
  BY DEF MonitorInv, LoopIsFree
<1> QED BY <1>1, <1>2, <1>3, <1>4, <1>5, AsideKeeps

LEMMA WakeKeeps ==
    ASSUME ModelInv, Wake
    PROVE  ModelInv'
<1> USE DEF ModelInv, TypeOK, Shape, callVars, Wake
<1>1. TypeOK'
  BY RunnerAssumption DEF TypeOK, PartsOf, Threads, Runners
<1>2. Shape'
  BY RunnerAssumption DEF Shape, Threads
<1>3. LockInv'
  BY RunnerAssumption DEF LockInv, Threads
<1>4. \A q \in Threads : Aside(q)
  BY DEF Aside
<1>5. MonitorInv'
  BY DEF MonitorInv, LoopIsFree
<1> QED BY <1>1, <1>2, <1>3, <1>4, <1>5, AsideKeeps


-----------------------------------------------------------------------------
(* Steps under a lock, and unloading                                       *)

LEMMA HolderIsAlone ==
    ASSUME ModelInv, NEW c \in Threads, stage[c] \in {"loading", "holding"}
    PROVE  /\ lock[at[c]] = c
           /\ \A q \in Threads :
                stage[q] \in {"loading", "holding"} /\ at[q] = at[c] => q = c
  BY DEF ModelInv, TypeOK, LockInv

LEMMA AcquireKeeps ==
    ASSUME ModelInv, NEW c \in Threads, Acquire(c)
    PROVE  ModelInv'
<1> USE DEF ModelInv, TypeOK, Shape
<1>1. /\ UNCHANGED <<model, kind, at, trying, held, outcome, clock, monitor, broken>>
      /\ lock[at[c]] = Nobody /\ lock' = [lock EXCEPT ![at[c]] = c]
      /\ stage[c] = "locking"
      /\ stage' = [stage EXCEPT ![c] = IF Loaded(at[c]) THEN "holding" ELSE "loading"]
  BY DEF Acquire
<1>2. /\ stage'[c] = IF Loaded(at[c]) THEN "holding" ELSE "loading"
      /\ \A q \in Threads \ {c} : stage'[q] = stage[q]
      /\ trying[c] = First /\ at[c] \in Runners
  BY <1>1
<1>3. TypeOK'
  <2>1. Variants[at[c]] \in Nat \ {0} /\ Parts[at[c]] \in Nat \ {0}
    BY <1>2, RunnerAssumption
  <2> QED BY <1>1, <1>2, <2>1 DEF TypeOK, PartsOf, First
<1>4. Shape'
  BY <1>1 DEF Shape
<1>5. LockInv'
  BY <1>1, RunnerAssumption DEF LockInv
<1>6. (\A r \in Runners : OfOneLoad(r))'
  BY <1>1 DEF OfOneLoad, Last
<1>7. \A q \in Threads : LoadInv(q)'
  <2>1. Loaded(at[c]) \/ Last(at[c]) = Missing
    <3>1. 1 \in 1 .. Parts[at[c]]
      BY <1>2, RunnerAssumption
    <3>2. OfOneLoad(at[c])
      BY <1>2
    <3> QED BY <3>1, <3>2 DEF OfOneLoad, Loaded
  <2>2. LoadInv(c)'
    BY <1>1, <1>2, <2>1 DEF LoadInv, Last, Loaded, First
  <2>3. ASSUME NEW q \in Threads \ {c} PROVE LoadInv(q)'
    <3>1. LoadInv(q)
      OBVIOUS
    <3> QED BY <1>1, <1>2, <3>1 DEF LoadInv, Last, Loaded
  <2> QED BY <2>2, <2>3
<1>8. InferenceIsOfOneLoad'
  BY <1>1, <1>2 DEF InferenceIsOfOneLoad
<1>9. PartInv'
  <2>1. \A q \in Threads : stage[q] = "loading" => stage'[q] = "loading"
    BY <1>2, <1>1
  <2>2. \A r \in Runners : Loaded(r)' <=> Loaded(r)
    BY <1>1 DEF Loaded
  <2>3. ASSUME NEW r \in Runners
        PROVE  \/ ~Loaded(r)' \/ Whole(model'[r]) \/ broken'[r]
               \/ \E q \in Threads : stage'[q] = "loading" /\ at'[q] = r
    BY <1>1, <2>1, <2>2 DEF PartInv
  <2>4. ASSUME NEW q \in Threads
        PROVE  /\ stage'[q] = "holding" => Loaded(at[q])
               /\ stage'[q] = "running" /\ ~Whole(held[q]) => broken[at[q]]
               /\ stage'[q] = "back" /\ outcome[q] = "raised" => broken[at[q]]
    BY <1>2 DEF PartInv
  <2> QED BY <1>1, <2>2, <2>3, <2>4 DEF PartInv
<1>10. MonitorInv'
  BY <1>1 DEF MonitorInv
<1> QED BY <1>3, <1>4, <1>5, <1>6, <1>7, <1>8, <1>9, <1>10


\* The parts of a model that is being loaded.
LEMMA LoadingFacts ==
    ASSUME ModelInv, NEW c \in Threads, stage[c] = "loading"
    PROVE  /\ at[c] \in Runners /\ Parts[at[c]] \in Nat \ {0}
           /\ trying[c].part \in 1 .. Parts[at[c]]
           /\ trying[c].variant \in 1 .. Variants[at[c]]
           /\ model[at[c]] \in PartsOf(at[c]) /\ LoadInv(c)
  BY RunnerAssumption DEF ModelInv, TypeOK

LEMMA LoadPartKeeps ==
    ASSUME ModelInv, NEW c \in Threads, LoadPart(c)
    PROVE  ModelInv'
<1> DEFINE r == at[c]
           p == trying[c].part
<1>1. /\ stage[c] = "loading"
      /\ UNCHANGED <<lock, kind, at, held, outcome, clock, monitor, broken>>
  BY DEF LoadPart
<1>2. /\ r \in Runners /\ Parts[r] \in Nat \ {0} /\ p \in 1 .. Parts[r]
      /\ model[r] \in PartsOf(r) /\ LoadInv(c)
      /\ trying[c].variant \in 1 .. Variants[r]
  BY <1>1, LoadingFacts
<1>3. PICK l \in Loads :
        /\ model' = [model EXCEPT ![r][p] = l]
        /\ p > 1 => l = model[r][1]
  <2>1. CASE p = 1
    BY <1>1, <2>1 DEF LoadPart
  <2>2. CASE p > 1
    <3>1. model[r][1] \in Loads
      BY <1>1, <1>2, <2>2 DEF LoadInv, Loaded, PartsOf
    <3>2. model' = [model EXCEPT ![r][p] = model[r][1]]
      BY <2>2 DEF LoadPart
    <3> QED BY <3>1, <3>2
  <2>3. p = 1 \/ p > 1
    BY <1>2
  <2> QED BY <2>1, <2>2, <2>3
<1>4. /\ l # Missing /\ model'[r] \in PartsOf(r)
      /\ \A q \in 1 .. Parts[r] : model'[r][q] = IF q = p THEN l ELSE model[r][q]
      /\ \A x \in Runners \ {r} : model'[x] = model[x]
      /\ DOMAIN model' = Runners
  BY <1>2, <1>3, RunnerAssumption DEF PartsOf, ModelInv, Shape
<1>5. \A q \in 1 .. p : model'[r][q] = l
  <2>1. ASSUME NEW q \in 1 .. p - 1 PROVE model[r][q] = l
    <3>1. p > 1 /\ q \in 1 .. Parts[r]
      BY <1>2
    <3> QED BY <1>1, <1>2, <1>3, <3>1 DEF LoadInv
  <2>2. \A q \in 1 .. p : q \in 1 .. Parts[r] /\ (q = p \/ q \in 1 .. p - 1)
    BY <1>2
  <2> QED BY <1>4, <2>1, <2>2
<1>6. \/ /\ p = Parts[r] /\ stage' = [stage EXCEPT ![c] = "holding"]
         /\ trying' = [trying EXCEPT ![c] = First]
      \/ /\ p < Parts[r] /\ UNCHANGED stage
         /\ trying' = [trying EXCEPT ![c].part = p + 1]
  BY <1>2 DEF LoadPart
<1>7. /\ \A q \in Threads \ {c} : stage'[q] = stage[q] /\ trying'[q] = trying[q]
      /\ \/ /\ p = Parts[r] /\ stage'[c] = "holding" /\ trying'[c] = First
         \/ /\ p < Parts[r] /\ stage'[c] = "loading" /\ trying'[c].part = p + 1
            /\ trying'[c].variant = trying[c].variant
      /\ stage' \in [Threads -> {"idle", "turn", "thread", "locking", "loading", "holding",
                                 "running", "back"}]
      /\ trying' \in [Threads -> [variant : Nat, part : Nat]]
  <2>1. /\ trying \in [Threads -> [variant : Nat, part : Nat]]
        /\ stage \in [Threads -> {"idle", "turn", "thread", "locking", "loading", "holding",
                                  "running", "back"}]
    BY DEF ModelInv, TypeOK, Shape
  <2>2. p + 1 \in Nat
    BY <1>2
  <2>3. CASE /\ p = Parts[r] /\ stage' = [stage EXCEPT ![c] = "holding"]
             /\ trying' = [trying EXCEPT ![c] = First]
    BY <2>1, <2>3 DEF First
  <2>4. CASE /\ p < Parts[r] /\ UNCHANGED stage
             /\ trying' = [trying EXCEPT ![c].part = p + 1]
    BY <1>1, <2>1, <2>2, <2>4
  <2> QED BY <1>6, <2>3, <2>4
<1>8. \A q \in Threads \ {c} : stage[q] \in {"loading", "holding"} => at[q] # r
  BY <1>1, HolderIsAlone
<1>9. TypeOK'
  <2>1. \A x \in Runners : model'[x] \in PartsOf(x)
    BY <1>4 DEF ModelInv, TypeOK
  <2>2. \A q \in Threads : /\ trying'[q].variant \in 1 .. Variants[at[q]] \/ stage'[q] # "loading"
                           /\ trying'[q].part \in 1 .. Parts[at[q]] \/ stage'[q] # "loading"
    <3>1. ASSUME NEW q \in Threads \ {c}
          PROVE  /\ trying'[q].variant \in 1 .. Variants[at[q]] \/ stage'[q] # "loading"
                 /\ trying'[q].part \in 1 .. Parts[at[q]] \/ stage'[q] # "loading"
      BY <1>7 DEF ModelInv, TypeOK
    <3>2. /\ trying'[c].variant \in 1 .. Variants[r] \/ stage'[c] # "loading"
          /\ trying'[c].part \in 1 .. Parts[r] \/ stage'[c] # "loading"
      BY <1>2, <1>7
    <3> QED BY <3>1, <3>2
  <2> QED BY <1>1, <1>7, <2>1, <2>2 DEF ModelInv, TypeOK, PartsOf
<1>10. Shape'
  BY <1>1, <1>4, <1>7 DEF ModelInv, Shape
<1>11. LockInv'
  BY <1>1, <1>7 DEF ModelInv, LockInv
<1>12. ASSUME NEW x \in Runners PROVE OfOneLoad(x)'
  <2>1. CASE x # r
    BY <1>4, <2>1 DEF ModelInv, OfOneLoad, Last
  <2>2. CASE x = r /\ p = Parts[r]
    BY <1>2, <1>4, <1>5, <2>2 DEF OfOneLoad
  <2>3. CASE x = r /\ p < Parts[r]
    BY <1>1, <1>2, <1>4, <2>3 DEF OfOneLoad, Last, LoadInv
  <2> QED BY <1>2, <2>1, <2>2, <2>3
<1>13. ASSUME NEW q \in Threads PROVE LoadInv(q)'
  <2>1. CASE q = c
    BY <1>1, <1>2, <1>4, <1>5, <1>7, <2>1 DEF LoadInv, Last, Loaded
  <2>2. CASE q # c
    <3>1. stage'[q] = "loading" => at[q] # r /\ at[q] \in Runners /\ LoadInv(q)
      BY <1>7, <1>8, <2>2, LoadingFacts
    <3> QED BY <1>1, <1>4, <1>7, <2>2, <3>1 DEF LoadInv, Last, Loaded
  <2> QED BY <2>1, <2>2
<1>14. InferenceIsOfOneLoad'
  BY <1>1, <1>7 DEF ModelInv, InferenceIsOfOneLoad
<1>15. PartInv'
  <2>1. ASSUME NEW x \in Runners
        PROVE  \/ ~Loaded(x)' \/ Whole(model'[x]) \/ broken[x]
               \/ \E q \in Threads : stage'[q] = "loading" /\ at[q] = x
    <3>1. CASE x = r /\ p = Parts[r]
      BY <1>2, <1>4, <1>5, <3>1 DEF Whole, PartsOf
    <3>2. CASE x = r /\ p < Parts[r]
      <4>1. stage'[c] = "loading"
        BY <1>2, <1>7, <3>2
      <4> QED BY <3>2, <4>1
    <3>3. CASE x # r
      BY <1>4, <1>7, <3>3 DEF ModelInv, PartInv, Loaded
    <3> QED BY <1>2, <3>1, <3>2, <3>3
  <2>2. ASSUME NEW q \in Threads, stage'[q] = "holding" PROVE Loaded(at[q])'
    <3>1. CASE q = c
      BY <1>1, <1>2, <1>4, <1>5, <3>1 DEF Loaded
    <3>2. CASE q # c
      <4>1. stage[q] = "holding" /\ at[q] \in Runners \ {r}
        BY <1>7, <1>8, <2>2, <3>2 DEF ModelInv, TypeOK
      <4>2. Loaded(at[q])
        BY <4>1 DEF ModelInv, PartInv
      <4> QED BY <1>1, <1>4, <4>1, <4>2 DEF Loaded
    <3> QED BY <3>1, <3>2
  <2> QED BY <1>1, <1>7, <2>1, <2>2 DEF ModelInv, PartInv, Loaded
<1>16. MonitorInv'
  BY <1>1 DEF ModelInv, MonitorInv
<1> QED BY <1>9, <1>10, <1>11, <1>12, <1>13, <1>14, <1>15, <1>16 DEF ModelInv


LEMMA LoadFailsKeeps ==
    ASSUME ModelInv, NEW c \in Threads, LoadFails(c)
    PROVE  ModelInv'
<1> DEFINE r == at[c]
<1>1. stage[c] = "loading" /\ UNCHANGED <<model, kind, at, held, clock, monitor>>
  BY DEF LoadFails
<1>2. /\ r \in Runners /\ Parts[r] \in Nat \ {0} /\ Variants[r] \in Nat \ {0}
      /\ trying[c].variant \in 1 .. Variants[r] /\ LoadInv(c)
  BY <1>1, LoadingFacts, RunnerAssumption
<1>3. MonitorInv' /\ (\A x \in Runners : OfOneLoad(x))'
  BY <1>1 DEF ModelInv, MonitorInv, OfOneLoad, Last
<1>4. CASE trying[c].variant < Variants[r]
  <2>1. /\ trying' = [trying EXCEPT ![c] = [variant |-> @.variant + 1, part |-> 1]]
        /\ UNCHANGED <<stage, lock, outcome, broken>>
    BY <1>4 DEF LoadFails
  <2>2. /\ \A q \in Threads \ {c} : trying'[q] = trying[q]
        /\ trying'[c].variant \in 1 .. Variants[r] /\ trying'[c].part = 1
        /\ trying' \in [Threads -> [variant : Nat, part : Nat]]
    BY <1>2, <1>4, <2>1 DEF ModelInv, Shape
  <2>3. TypeOK'
    BY <1>1, <1>2, <2>1, <2>2 DEF ModelInv, TypeOK, PartsOf
  <2>4. Shape'
    BY <1>1, <2>1, <2>2 DEF ModelInv, Shape
  <2>5. ASSUME NEW q \in Threads PROVE LoadInv(q)'
    BY <1>1, <1>2, <2>1, <2>2 DEF ModelInv, LoadInv, Last, Loaded
  <2>6. LockInv' /\ InferenceIsOfOneLoad' /\ PartInv'
    BY <1>1, <2>1 DEF ModelInv, LockInv, InferenceIsOfOneLoad, PartInv, Loaded
  <2> QED BY <1>3, <2>3, <2>4, <2>5, <2>6 DEF ModelInv
<1>5. CASE trying[c].variant >= Variants[r]
  <2>1. /\ stage' = [stage EXCEPT ![c] = "back"]
        /\ lock' = [lock EXCEPT ![r] = Nobody]
        /\ \E o \in {"ok", "raised"} : outcome' = [outcome EXCEPT ![c] = o]
        /\ broken' = [broken EXCEPT ![r] = TRUE]
        /\ trying' = [trying EXCEPT ![c] = First]
    BY <1>2, <1>5 DEF LoadFails
  <2>2. /\ \A q \in Threads \ {c} : /\ trying'[q] = trying[q] /\ stage'[q] = stage[q]
                                    /\ outcome'[q] = outcome[q]
        /\ stage'[c] = "back" /\ trying'[c] = First /\ broken'[r] = TRUE
        /\ \A x \in Runners \ {r} : broken'[x] = broken[x] /\ lock'[x] = lock[x]
        /\ lock'[r] = Nobody
    BY <1>2, <2>1 DEF ModelInv, TypeOK, Shape
  <2>3. TypeOK'
    <3>1. lock' \in [Runners -> Threads \cup {Nobody}] /\ broken' \in [Runners -> BOOLEAN]
      BY <2>1 DEF ModelInv, TypeOK
    <3>2. outcome' \in [Threads -> {"ok", "raised"}]
      BY <2>1 DEF ModelInv, TypeOK
    <3> QED BY <1>1, <2>1, <2>2, <3>1, <3>2 DEF ModelInv, TypeOK, PartsOf
  <2>4. Shape'
    <3>1. trying' \in [Threads -> [variant : Nat, part : Nat]]
      <4>1. First \in [variant : Nat, part : Nat]
        BY DEF First
      <4> QED BY <2>1, <4>1 DEF ModelInv, Shape
    <3>2. \A q \in Threads : stage'[q] # "back" => outcome'[q] = "ok"
      BY <2>2 DEF ModelInv, Shape
    <3>3. \A q \in Threads : /\ stage'[q] # "loading" => trying'[q] = First
                             /\ stage'[q] # "running" => held[q] = <<>>
      BY <1>1, <2>2 DEF ModelInv, Shape
    <3>4. DOMAIN model' = Runners /\ DOMAIN held' = Threads
      BY <1>1 DEF ModelInv, Shape
    <3> QED BY <1>1, <3>1, <3>2, <3>3, <3>4, Zenon DEF Shape
  <2>5. LockInv'
    <3>1. \A q \in Threads \ {c} : stage[q] \in {"loading", "holding"} => at[q] # r
      BY <1>1, HolderIsAlone
    <3> QED BY <1>1, <1>2, <2>2, <3>1, RunnerAssumption DEF ModelInv, LockInv
  <2>6. ASSUME NEW q \in Threads PROVE LoadInv(q)'
    BY <1>1, <2>2 DEF ModelInv, LoadInv, Last, Loaded
  <2>7. InferenceIsOfOneLoad'
    BY <1>1, <2>2 DEF ModelInv, InferenceIsOfOneLoad
  <2>8. PartInv'
    <3>1. ASSUME NEW x \in Runners
          PROVE  \/ ~Loaded(x)' \/ Whole(model'[x]) \/ broken'[x]
                 \/ \E q \in Threads : stage'[q] = "loading" /\ at'[q] = x
      BY <1>1, <2>2 DEF ModelInv, PartInv, Loaded
    <3>2. ASSUME NEW x \in Runners, broken[x] PROVE broken'[x]
      BY <2>2, <3>2
    <3>3. ASSUME NEW q \in Threads
          PROVE  /\ stage'[q] = "holding" => Loaded(at[q])'
                 /\ stage'[q] = "running" /\ ~Whole(held[q]) => broken'[at[q]]
                 /\ stage'[q] = "back" /\ outcome'[q] = "raised" => broken'[at[q]]
      <4>1. at[q] \in Runners
        BY DEF ModelInv, TypeOK
      <4> QED BY <1>1, <2>2, <3>2, <4>1 DEF ModelInv, PartInv, Loaded
    <3> QED BY <1>1, <3>1, <3>3 DEF PartInv, Loaded
  <2> QED BY <1>3, <2>3, <2>4, <2>5, <2>6, <2>7, <2>8 DEF ModelInv
<1> QED BY <1>2, <1>4, <1>5

LEMMA LeaveKeeps ==
    ASSUME ModelInv, NEW c \in Threads, Leave(c)
    PROVE  ModelInv'
<1> DEFINE r == at[c]
<1>1. /\ stage[c] = "holding" /\ lock' = [lock EXCEPT ![r] = Nobody]
      /\ UNCHANGED <<model, kind, at, trying, outcome, clock, monitor, broken>>
      /\ r \in Runners
  BY DEF Leave, ModelInv, TypeOK
<1>2. \/ held' = [held EXCEPT ![c] = model[r]] /\ stage' = [stage EXCEPT ![c] = "running"]
      \/ held' = held /\ stage' = [stage EXCEPT ![c] = "back"]
  BY DEF Leave
<1>3. /\ \A q \in Threads \ {c} : stage'[q] = stage[q] /\ held'[q] = held[q]
      /\ \/ held'[c] = model[r] /\ stage'[c] = "running"
         \/ held'[c] = held[c] /\ stage'[c] = "back"
      /\ DOMAIN held' = Threads
      /\ stage' \in [Threads -> {"idle", "turn", "thread", "locking", "loading", "holding",
                                 "running", "back"}]
      /\ lock' \in [Runners -> Threads \cup {Nobody}]
  BY <1>1, <1>2 DEF ModelInv, TypeOK, Shape
<1>4. \A q \in Threads \ {c} : stage[q] \in {"loading", "holding"} => at[q] # r
  BY <1>1, HolderIsAlone
<1>5. TypeOK'
  BY <1>1, <1>3 DEF ModelInv, TypeOK, PartsOf
<1>6. Shape'
  BY <1>1, <1>3 DEF ModelInv, Shape
<1>7. LockInv'
  BY <1>1, <1>3, <1>4, RunnerAssumption DEF ModelInv, TypeOK, LockInv
<1>8. (\A x \in Runners : OfOneLoad(x))' /\ MonitorInv'
  BY <1>1 DEF ModelInv, OfOneLoad, Last, MonitorInv
<1>9. ASSUME NEW q \in Threads PROVE LoadInv(q)'
  BY <1>1, <1>3 DEF ModelInv, LoadInv, Last, Loaded
<1>10. model[r] \in PartsOf(r) /\ Parts[r] \in Nat \ {0}
  BY <1>1, RunnerAssumption DEF ModelInv, TypeOK
<1>11. InferenceIsOfOneLoad'
  <2>1. Whole(model[r]) => \A p, q \in DOMAIN model[r] : model[r][p] = model[r][q]
    BY <1>1, <1>10 DEF ModelInv, OfOneLoad, Last, Whole, PartsOf
  <2> QED BY <1>3, <2>1 DEF ModelInv, InferenceIsOfOneLoad
<1>12. PartInv'
  <2>1. Whole(model[r]) \/ broken[r]
    BY <1>1, <1>4 DEF ModelInv, PartInv
  <2>2. ASSUME NEW x \in Runners
        PROVE  \/ ~Loaded(x)' \/ Whole(model'[x]) \/ broken'[x]
               \/ \E q \in Threads : stage'[q] = "loading" /\ at'[q] = x
    <3>1. \A q \in Threads : stage[q] = "loading" => stage'[q] = "loading"
      BY <1>1, <1>3
    <3> QED BY <1>1, <3>1 DEF ModelInv, PartInv, Loaded
  <2>3. ASSUME NEW q \in Threads
        PROVE  /\ stage'[q] = "holding" => Loaded(at[q])'
               /\ stage'[q] = "running" /\ ~Whole(held'[q]) => broken[at[q]]
               /\ stage'[q] = "back" /\ outcome[q] = "raised" => broken[at[q]]
    <3>1. CASE q = c
      BY <1>1, <1>3, <2>1, <3>1 DEF ModelInv, Shape
    <3>2. CASE q # c
      BY <1>1, <1>3, <3>2 DEF ModelInv, PartInv, Loaded
    <3> QED BY <3>1, <3>2
  <2> QED BY <1>1, <2>2, <2>3 DEF PartInv, Loaded
<1> QED BY <1>5, <1>6, <1>7, <1>8, <1>9, <1>11, <1>12 DEF ModelInv


LEMMA InferKeeps ==
    ASSUME ModelInv, NEW c \in Threads, Infer(c)
    PROVE  ModelInv'
<1>1. /\ stage[c] = "running" /\ stage' = [stage EXCEPT ![c] = "back"]
      /\ outcome' = [outcome EXCEPT ![c] = IF Whole(held[c]) THEN "ok" ELSE "raised"]
      /\ held' = [held EXCEPT ![c] = <<>>]
      /\ UNCHANGED <<model, lock, kind, at, trying, clock, monitor, broken>>
  BY DEF Infer
<1>2. /\ \A q \in Threads \ {c} : /\ stage'[q] = stage[q] /\ held'[q] = held[q]
                                  /\ outcome'[q] = outcome[q]
      /\ stage'[c] = "back" /\ held'[c] = <<>>
      /\ outcome'[c] = "raised" => ~Whole(held[c])
      /\ DOMAIN held' = Threads
      /\ stage' \in [Threads -> {"idle", "turn", "thread", "locking", "loading", "holding",
                                 "running", "back"}]
      /\ outcome' \in [Threads -> {"ok", "raised"}]
  BY <1>1 DEF ModelInv, TypeOK, Shape
<1>3. TypeOK'
  BY <1>1, <1>2 DEF ModelInv, TypeOK, PartsOf
<1>4. Shape'
  BY <1>1, <1>2 DEF ModelInv, Shape
<1>5. LockInv'
  BY <1>1, <1>2 DEF ModelInv, LockInv
<1>6. (\A x \in Runners : OfOneLoad(x))' /\ MonitorInv'
  BY <1>1 DEF ModelInv, OfOneLoad, Last, MonitorInv
<1>7. ASSUME NEW q \in Threads PROVE LoadInv(q)'
  BY <1>1, <1>2 DEF ModelInv, LoadInv, Last, Loaded
<1>8. InferenceIsOfOneLoad'
  BY <1>1, <1>2 DEF ModelInv, InferenceIsOfOneLoad
<1>9. PartInv'
  <2>1. ASSUME NEW x \in Runners
        PROVE  \/ ~Loaded(x)' \/ Whole(model'[x]) \/ broken'[x]
               \/ \E q \in Threads : stage'[q] = "loading" /\ at'[q] = x
    <3>1. \A q \in Threads : stage[q] = "loading" => stage'[q] = "loading"
      BY <1>1, <1>2
    <3> QED BY <1>1, <3>1 DEF ModelInv, PartInv, Loaded
  <2>2. ASSUME NEW q \in Threads
        PROVE  /\ stage'[q] = "holding" => Loaded(at[q])'
               /\ stage'[q] = "running" /\ ~Whole(held'[q]) => broken[at[q]]
               /\ stage'[q] = "back" /\ outcome'[q] = "raised" => broken[at[q]]
    <3>1. CASE q = c
      BY <1>1, <1>2, <3>1 DEF ModelInv, PartInv
    <3>2. CASE q # c
      BY <1>1, <1>2, <3>2 DEF ModelInv, PartInv, Loaded
    <3> QED BY <3>1, <3>2
  <2> QED BY <1>1, <2>1, <2>2 DEF PartInv, Loaded
<1> QED BY <1>3, <1>4, <1>5, <1>6, <1>7, <1>8, <1>9 DEF ModelInv

LEMMA UnloadKeeps ==
    ASSUME ModelInv, Unload
    PROVE  ModelInv'
<1> DEFINE r == monitor
<1>1. /\ r \in Runners /\ (Loaded(r) => lock[r] = Nobody)
      /\ model' = [model EXCEPT ![r] = Nothing(r)]
      /\ monitor' \in Runners \cup {"asleep"}
      /\ UNCHANGED <<lock, stage, kind, at, trying, held, outcome, clock, broken>>
  BY DEF Unload, callVars, ModelInv, TypeOK, Runners
<1>2. /\ model'[r] = Nothing(r) /\ \A x \in Runners \ {r} : model'[x] = model[x]
      /\ DOMAIN model' = Runners /\ Parts[r] \in Nat \ {0}
  BY <1>1, RunnerAssumption DEF ModelInv, Shape
<1>3. Nothing(r) \in PartsOf(r) /\ \A p \in 1 .. Parts[r] : model'[r][p] = Missing
  BY <1>2 DEF Nothing, PartsOf
<1>4. \A q \in Threads : at[q] = r =>
        /\ stage[q] # "holding"
        /\ stage[q] = "loading" => trying[q].part = 1
  <2>1. ASSUME NEW q \in Threads, at[q] = r, stage[q] \in {"loading", "holding"}
        PROVE  ~Loaded(r)
    BY <1>1, <2>1, RunnerAssumption, HolderIsAlone
  <2>2. ASSUME NEW q \in Threads, at[q] = r, stage[q] = "loading"
        PROVE  trying[q].part = 1
    <3>1. trying[q].part \in 1 .. Parts[r] /\ LoadInv(q) /\ ~Loaded(r)
      BY <2>1, <2>2, LoadingFacts
    <3> QED BY <1>2, <2>2, <3>1 DEF LoadInv
  <2>3. \A q \in Threads : stage[q] = "holding" => Loaded(at[q])
    BY DEF ModelInv, PartInv
  <2> QED BY <2>1, <2>2, <2>3
<1>5. TypeOK' /\ Shape'
  BY <1>1, <1>2, <1>3 DEF ModelInv, TypeOK, Shape, PartsOf
<1>6. LockInv' /\ InferenceIsOfOneLoad'
  BY <1>1 DEF ModelInv, LockInv, InferenceIsOfOneLoad
<1>7. ASSUME NEW x \in Runners PROVE OfOneLoad(x)'
  BY <1>2, <1>3 DEF ModelInv, OfOneLoad, Last
<1>8. ASSUME NEW q \in Threads PROVE LoadInv(q)'
  <2>1. CASE at[q] = r
    BY <1>1, <1>2, <1>3, <1>4, <2>1 DEF LoadInv, Last
  <2>2. CASE at[q] # r
    <3>1. at[q] \in Runners /\ LoadInv(q)
      BY DEF ModelInv, TypeOK
    <3> QED BY <1>1, <1>2, <2>2, <3>1 DEF LoadInv, Last, Loaded
  <2> QED BY <2>1, <2>2
<1>9. PartInv'
  <2>1. ASSUME NEW x \in Runners
        PROVE  \/ ~Loaded(x)' \/ Whole(model'[x]) \/ broken'[x]
               \/ \E q \in Threads : stage'[q] = "loading" /\ at'[q] = x
    <3>1. CASE x = r
      BY <1>2, <1>3, <3>1 DEF Loaded
    <3>2. CASE x # r
      BY <1>1, <1>2, <3>2 DEF ModelInv, PartInv, Loaded
    <3> QED BY <3>1, <3>2
  <2>2. ASSUME NEW q \in Threads, stage[q] = "holding" PROVE Loaded(at[q])'
    <3>1. at[q] \in Runners \ {r} /\ Loaded(at[q])
      BY <1>4, <2>2 DEF ModelInv, TypeOK, PartInv
    <3> QED BY <1>1, <1>2, <3>1 DEF Loaded
  <2> QED BY <1>1, <2>1, <2>2 DEF ModelInv, PartInv, Loaded
<1>10. MonitorInv'
  BY <1>1 DEF ModelInv, MonitorInv, Runners
<1> QED BY <1>5, <1>6, <1>7, <1>8, <1>9, <1>10 DEF ModelInv

-----------------------------------------------------------------------------
(* The theorems                                                            *)

LEMMA ModelInvInit ==
    ASSUME Init
    PROVE  ModelInv
<1> USE RunnerAssumption DEF Init, Nothing
<1>1. \A r \in Runners : /\ Parts[r] \in Nat \ {0} /\ model[r] \in PartsOf(r)
                         /\ \A p \in 1 .. Parts[r] : model[r][p] = Missing
  BY DEF PartsOf
<1>2. TypeOK
  BY <1>1 DEF TypeOK, Runners
<1>3. Shape
  BY DEF Shape, First
<1>4. LockInv
  BY DEF LockInv, Threads
<1>5. (\A r \in Runners : OfOneLoad(r)) /\ \A c \in Threads : LoadInv(c)
  BY <1>1 DEF OfOneLoad, Last, LoadInv
<1>6. InferenceIsOfOneLoad /\ PartInv /\ MonitorInv
  BY <1>1 DEF InferenceIsOfOneLoad, PartInv, Loaded, MonitorInv
<1> QED BY <1>2, <1>3, <1>4, <1>5, <1>6 DEF ModelInv

\* However loads, failed loads, unloads and inferences go on around each other: a model is
\* of one load or lacks its last part, and only a load that raised leaves a part behind.
THEOREM ModelsAreWhole == Spec => []ModelInv
<1>1. ModelInv /\ [Next]_vars => ModelInv'
  <2> SUFFICES ASSUME ModelInv, [Next]_vars PROVE ModelInv'
    OBVIOUS
  <2>1. CASE UNCHANGED vars
    BY <2>1 DEF vars, callVars, ModelInv, TypeOK, Shape, LockInv, OfOneLoad, Last, LoadInv,
       Loaded, InferenceIsOfOneLoad, PartInv, MonitorInv
  <2>2. ASSUME NEW c \in Threads, Advance(c) PROVE ModelInv'
    BY <2>2, TurnKeeps, AcquireKeeps, BeginKeeps, LoadPartKeeps, LoadFailsKeeps, LeaveKeeps,
       InferKeeps, BackKeeps DEF Advance, OnThread
  <2> QED BY <2>1, <2>2, AcceptKeeps, TickKeeps, WakeKeeps, UnloadKeeps DEF Next
<1> QED BY <1>1, ModelInvInit, PTL DEF Spec

\* opf_runner.py:366, main.py:174: an inference that passes its assertions has all its
\* parts from one load, and the idle monitor makes no request fail.
THEOREM RunnersAreSafe == Spec => []RunnerInv
<1>1. ModelInv => RunnerInv
  BY DEF ModelInv, RunnerInv, UnloadFailsNobody, PartInv, Threads
<1> QED BY <1>1, ModelsAreWhole, PTL

\* main.py:72: what is unloaded has been idle for the timeout, and is a whole model or what
\* a failed load left of one, never one that is being loaded.
THEOREM UnloadedIsIdle == Spec => OnlyIdleIsUnloaded
<1>1. ModelInv /\ [Next]_vars =>
        [\A r \in Runners : Loaded(r) /\ model'[r] = Nothing(r)
            => clock = "old" /\ (Whole(model[r]) \/ broken[r])]_vars
  <2> SUFFICES ASSUME ModelInv, [Next]_vars, NEW r \in Runners, Loaded(r),
                      model'[r] = Nothing(r)
               PROVE  clock = "old" /\ (Whole(model[r]) \/ broken[r])
    OBVIOUS
  <2>1. model'[r] # model[r]
    BY RunnerAssumption DEF Nothing, Loaded
  <2>2. ASSUME NEW c \in Threads, LoadPart(c) PROVE FALSE
    <3>1. model'[r][1] # Missing
      <4>1. /\ stage[c] = "loading" /\ LoadInv(c) /\ DOMAIN model = Runners
            /\ at[c] \in Runners /\ trying[c].part \in 1 .. Parts[at[c]]
            /\ model[at[c]] \in PartsOf(at[c]) /\ Parts[at[c]] \in Nat \ {0}
        BY <2>2, LoadingFacts DEF LoadPart, ModelInv, Shape
      <4>2. CASE at[c] # r
        BY <2>1, <2>2, <4>1, <4>2 DEF LoadPart
      <4>3. CASE at[c] = r /\ trying[c].part = 1
        <5>1. PICK l \in Loads : model' = [model EXCEPT ![r][1] = l]
          BY <2>2, <4>3 DEF LoadPart
        <5> QED BY <4>1, <4>3, <5>1, RunnerAssumption DEF PartsOf
      <4>4. CASE at[c] = r /\ trying[c].part > 1
        BY <2>2, <4>1, <4>4 DEF LoadPart, Loaded, PartsOf
      <4> QED BY <4>1, <4>2, <4>3, <4>4
    <3> QED BY <3>1, RunnerAssumption DEF Nothing
  <2>3. Unload
    BY <2>1, <2>2 DEF Next, vars, Accept, Advance, OnThread, Turn, Begin, Acquire, LoadFails,
       Leave, Infer, Back, Tick, Wake
  <2>4. monitor = r /\ lock[r] = Nobody
    BY <2>1, <2>3 DEF Unload, ModelInv, Shape
  <2>5. \A c \in Threads : ~(stage[c] = "loading" /\ at[c] = r)
    BY <2>4, HolderIsAlone, RunnerAssumption
  <2> QED BY <2>3, <2>4, <2>5 DEF Unload, ModelInv, MonitorInv, PartInv
<1> QED BY <1>1, ModelsAreWhole, PTL DEF Spec, OnlyIdleIsUnloaded

=============================================================================
