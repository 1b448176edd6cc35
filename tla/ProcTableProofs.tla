-------------------------- MODULE ProcTableProofs --------------------------
(***************************************************************************)
(* What the modules about processes need to know of the process table: the *)
(* types are kept, a pid has one owner at a time, and the life of a        *)
(* process goes forward only.                                              *)
(***************************************************************************)
EXTENDS ProcTable, TLAPS

(* What is born stays born with its start time, what has terminated stays  *)
(* terminated, what is gone stays gone.                                    *)
Forward ==
  \A i \in Inc :
    /\ state[i] = "gone" => state'[i] = "gone"
    /\ state[i] = "zombie" => state'[i] \in {"zombie", "gone"}
    /\ state[i] # "unborn" => state'[i] # "unborn" /\ start'[i] = start[i]

TableInv == TableTypeOK /\ PidsAreUnique

(* The processes that are there at first have different pids. *)
LEMMA TableInitInv == TableInit => TableInv
BY TableAssumption DEF TableInit, TableInv, TableTypeOK, PidsAreUnique, Owns,
   States, Listed, Alive

(* A signal moves a process between the states that have an entry, and     *)
(* changes nothing of a zombie.                                            *)
LEMMA EffectFacts ==
  ASSUME NEW s \in Listed, NEW m \in Signals
  PROVE  /\ Effect(m, s) \subseteq Listed
         /\ s = "zombie" => Effect(m, s) = {"zombie"}
BY DEF Effect, Listed, Alive, Signals

LEMMA DeliverFacts ==
  ASSUME TableTypeOK, NEW m \in Signals, NEW i \in Inc, state[i] \in Listed,
         Deliver(m, i)
  PROVE  /\ start' = start /\ btime' = btime
         /\ \A j \in Inc : state'[j] \in Listed <=> state[j] \in Listed
         /\ \A j \in Inc : state[j] \notin Listed => state'[j] = state[j]
<1>1. Effect(m, state[i]) \subseteq Listed
  BY EffectFacts
<1> QED
  BY <1>1 DEF Deliver, TableTypeOK

LEMMA DeliverInv ==
  ASSUME TableInv, NEW m \in Signals, NEW i \in Inc, state[i] \in Listed,
         Deliver(m, i)
  PROVE  TableInv' /\ Forward
<1> USE DEF TableInv, TableTypeOK
<1>1. PICK s \in Effect(m, state[i]) : state' = [state EXCEPT ![i] = s]
  BY DEF Deliver
<1>2. /\ s \in Listed
      /\ state[i] = "zombie" => s = "zombie"
  BY EffectFacts, <1>1
<1>3. UNCHANGED <<start, now, btime>>
  BY DEF Deliver
<1>4. TableTypeOK' /\ Forward
  BY <1>1, <1>2, <1>3 DEF Forward, States, Listed, Alive
<1>5. PidsAreUnique'
  BY <1>3, DeliverFacts DEF PidsAreUnique, Listed, Alive
<1> QED
  BY <1>4, <1>5

LEMMA SpawnInv ==
  ASSUME TableInv, NEW i \in Inc, Spawn(i)
  PROVE  TableInv' /\ Forward
<1> USE DEF TableInv, TableTypeOK
<1>1. TableTypeOK' /\ Forward
  BY DEF Spawn, Forward, States, Listed, Alive
<1>2. ASSUME NEW j \in Inc, NEW k \in Inc, j # k, PidOf[j] = PidOf[k]
      PROVE  /\ ~(state'[j] \in Listed /\ state'[k] \in Listed)
             /\ state'[j] # "unborn" /\ state'[k] # "unborn" =>
                  start'[j] # start'[k]
  <2>1. CASE j # i /\ k # i
    BY <1>2, <2>1 DEF Spawn, PidsAreUnique
  <2>2. CASE j = i
    BY <1>2, <2>2 DEF Spawn, Listed, Alive
  <2>3. CASE k = i
    BY <1>2, <2>3 DEF Spawn, Listed, Alive
  <2> QED
    BY <2>1, <2>2, <2>3
<1> QED
  BY <1>1, <1>2 DEF PidsAreUnique

(* Every step of the table keeps the invariant and goes forward. *)
LEMMA TableNextInv ==
  ASSUME TableInv, TableNext
  PROVE  TableInv' /\ Forward
<1> USE DEF TableInv, TableTypeOK
<1>1. CASE Tick \/ ClockStep
  BY <1>1 DEF Tick, ClockStep, Forward, PidsAreUnique
<1>2. ASSUME NEW i \in Inc, Exit(i) PROVE TableInv' /\ Forward
  BY <1>2 DEF Exit, Forward, PidsAreUnique, States, Listed, Alive
<1>3. ASSUME NEW i \in Inc, Reap(i) PROVE TableInv' /\ Forward
  BY <1>3 DEF Reap, Forward, PidsAreUnique, States, Listed, Alive
<1> QED
  BY <1>1, <1>2, <1>3, SpawnInv DEF TableNext

LEMMA TableUnchanged ==
  ASSUME TableInv, UNCHANGED table
  PROVE  TableInv' /\ Forward
BY DEF table, TableInv, TableTypeOK, PidsAreUnique, Forward

(* If somebody else has the pid of a process that was born, or nobody has  *)
(* it, then that process is gone.                                          *)
LEMMA OtherOwner ==
  ASSUME TableInv, NEW i \in Inc, NEW j \in Inc, state[i] # "unborn",
         Owns(j, PidOf[i]), i # j
  PROVE  state[i] = "gone"
BY DEF TableInv, TableTypeOK, PidsAreUnique, Owns, States

LEMMA NoOwner ==
  ASSUME TableInv, NEW i \in Inc, state[i] # "unborn", ~Exists(PidOf[i])
  PROVE  state[i] = "gone"
BY DEF TableInv, TableTypeOK, Exists, Owns, States

============================================================================
