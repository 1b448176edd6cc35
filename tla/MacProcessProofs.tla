-------------------------- MODULE MacProcessProofs --------------------------
(***************************************************************************)
(* Proofs about MacProcess, for any set of processes and pids and any      *)
(* changes of the clock.                                                   *)
(***************************************************************************)
EXTENDS MacProcess, ProcTableProofs

----------------------------------------------------------------------------
(* The inductive invariant *)

(* The place where a call is suspended goes with its method; nothing has   *)
(* been signalled or returned before it ends.                              *)
CallShape ==
  /\ pc # "idle" => op # "none" /\ hit = {} /\ result = "none"
  /\ pc = "info" => op \in {"get", "is_running"} \union Signals \union Info
  /\ pc = "kill" => op \in Signals
  /\ pc \notin {"idle", "info", "kill"} => op \in Queries
  /\ pc \in {"args", "exists"} => op \in Args
  /\ op = "none" => result = "none" /\ hit = {}
  /\ op = "get" => result \in {"none", "Ok", "NoSuchProcess", "Load"}

(* A method of a handle looks up the pid of the process that the handle    *)
(* was made for, and the handle remembers its start time.                  *)
HandleShape ==
  /\ who # NoInc => state[who] # "unborn" /\ create_time = stamp[who]
  /\ op \notin {"none", "get"} => who # NoInc /\ arg = PidOf[who]

(* What a signal has seen and hit was born with the pid of the handle.     *)
SeenShape ==
  /\ seen # NoInc => state[seen] # "unborn" /\ PidOf[seen] = arg
  /\ op \in Signals /\ seen \notin {NoInc, who} => state[who] = "gone"
  /\ pc = "kill" => seen # NoInc /\ stamp[seen] = create_time
  /\ op \in Signals /\ hit # {} => seen # NoInc

(* The second question is asked only of a process that was a zombie or     *)
(* nowhere to be found at the first one, or that is another user's.        *)
FirstAnswer == /\ pc = "catch" => Terminated(who)
               /\ pc = "exists" => Terminated(who) \/ who \in Foreign

Inv == /\ TypeOK
       /\ PidsAreUnique
       /\ CallShape
       /\ HandleShape
       /\ SeenShape
       /\ FirstAnswer
       /\ WhereSignalsGo
       /\ WhatErrorsTell

LEMMA InitInv == Init => Inv
<1> SUFFICES ASSUME Init PROVE Inv
  OBVIOUS
<1>1. TableInv
  BY TableInitInv DEF Init
<1>2. TypeOK
  BY <1>1, TableAssumption DEF Init, TypeOK, TableInv, TableTypeOK, PCs, Ops,
     Results
<1>3. CallShape /\ HandleShape /\ SeenShape /\ FirstAnswer
  BY DEF Init, CallShape, HandleShape, SeenShape, FirstAnswer
<1>4. WhereSignalsGo /\ WhatErrorsTell
  BY DEF Init, WhereSignalsGo, WhatErrorsTell,
     ZombieMeans, NoSuchProcessMeansGone,
     DeniedMeans
<1> QED
  BY <1>1, <1>2, <1>3, <1>4 DEF Inv, TableInv

----------------------------------------------------------------------------
(* Who has the pid of the handle *)

(* Of the owner of the pid that a method of a handle looks up. *)
LEMMA OwnerFacts ==
  ASSUME Inv, op \notin {"none", "get"}, NEW i \in Inc, Owns(i, arg)
  PROVE  /\ who \in Inc /\ PidOf[i] = PidOf[who] /\ state[i] # "unborn"
         /\ i # who => state[who] = "gone"
<1>1. who \in Inc /\ arg = PidOf[who] /\ state[who] # "unborn"
  BY DEF Inv, TypeOK, HandleShape
<1>2. PidOf[i] = PidOf[who] /\ state[i] # "unborn"
  BY <1>1 DEF Owns, Listed, Alive
<1> QED
  BY <1>1, <1>2, OtherOwner DEF Inv, TableInv, TypeOK

LEMMA NobodyFacts ==
  ASSUME Inv, op \notin {"none", "get"}, ~Exists(arg)
  PROVE  state[who] = "gone"
BY NoOwner DEF Inv, TableInv, TypeOK, HandleShape

----------------------------------------------------------------------------
(* Steps *)

(* The steps of the table, and a signal, keep what was found out before. *)
LEMMA EnvironmentInv ==
  ASSUME Inv, Environment
  PROVE  Inv'
<1> USE DEF Environment, process, call
<1>1. TableInv' /\ Forward
  BY TableNextInv DEF Inv, TableInv, TypeOK
<1>2. btime \in Nat /\ now \in Nat
  BY TableAssumption DEF Inv, TypeOK, TableTypeOK
<1>3. /\ stamp' \in [Inc -> Nat]
      /\ \A i \in Inc : state[i] # "unborn" => stamp'[i] = stamp[i]
  BY <1>2 DEF Inv, TypeOK
<1>4. TypeOK' /\ PidsAreUnique'
  BY <1>1, <1>3 DEF Inv, TypeOK, TableInv
<1>5. CallShape'
  BY DEF Inv, CallShape
<1>6. HandleShape' /\ FirstAnswer'
  BY <1>1, <1>3 DEF Inv, TypeOK, Forward, CallShape, HandleShape, FirstAnswer,
     Terminated, Queries, Info, LibProc, Args, Nice
<1>7. SeenShape'
  BY <1>1, <1>3 DEF Inv, TypeOK, Forward, CallShape, HandleShape, SeenShape,
     Signals
<1>8. WhereSignalsGo'
  BY <1>1, <1>3 DEF Inv, TypeOK, Forward, HandleShape, SeenShape,
     WhereSignalsGo, Signals
<1>9. WhatErrorsTell'
  <2>1. CASE op \in {"none", "get"}
    BY <2>1 DEF Inv, CallShape, WhatErrorsTell, ZombieMeans,
       NoSuchProcessMeansGone, DeniedMeans
  <2>2. CASE op \notin {"none", "get"}
    <3>1. who \in Inc /\ Foreign \subseteq Inc
      BY <2>2, TableAssumption DEF Inv, TypeOK, HandleShape
    <3>2. ZombieMeans' /\ NoSuchProcessMeansGone'
      BY <1>1, <3>1 DEF Inv, Forward, WhatErrorsTell, ZombieMeans,
         NoSuchProcessMeansGone, Terminated
    <3>3. DeniedMeans'
      BY <1>1, <3>1 DEF Inv, Forward, WhatErrorsTell,
         DeniedMeans
    <3> QED
      BY <3>2, <3>3 DEF WhatErrorsTell
  <2> QED
    BY <2>1, <2>2
<1> QED
  BY <1>4, <1>5, <1>6, <1>7, <1>8, <1>9 DEF Inv

(* A method is called. *)
LEMMA CallInv ==
  ASSUME Inv, NEW m \in Ops \ {"none"}, NEW l \in PCs,
         NEW p \in Pid, Call(m, l, p),
         m # "get" => who # NoInc /\ p = PidOf[who],
         \/ l = "info" /\ m \in {"get", "is_running"} \union Signals \union Info
         \/ l \in {"libproc", "args", "nice", "rusage"} /\ m \in Queries,
         l = "args" => m \in Args
  PROVE  Inv'
<1> USE DEF Call, table, process
<1>1. TypeOK' /\ PidsAreUnique'
  BY DEF Inv, TypeOK, TableTypeOK, PidsAreUnique, Results
<1>2. CallShape' /\ HandleShape' /\ SeenShape' /\ FirstAnswer'
  BY DEF Inv, CallShape, HandleShape, SeenShape, FirstAnswer
<1>3. WhereSignalsGo' /\ WhatErrorsTell'
  BY DEF WhereSignalsGo, WhatErrorsTell, ZombieMeans,
     NoSuchProcessMeansGone, DeniedMeans
<1> QED
  BY <1>1, <1>2, <1>3 DEF Inv

LEMMA InvokeInv ==
  ASSUME Inv, Invoke
  PROVE  Inv'
<1>1. who # NoInc => PidOf[who] \in Pid
  BY TableAssumption DEF Inv, TypeOK
<1>2. "info" \in PCs /\ {"get", "is_running"} \subseteq Ops \ {"none"}
      /\ Signals \subseteq Ops \ {"none"} /\ Queries \subseteq Ops \ {"none"}
  BY DEF PCs, Ops, Signals, Queries, Info, LibProc, Args, Nice
<1>3. ASSUME NEW p \in Pid, get(p) PROVE Inv'
  BY <1>2, <1>3, CallInv DEF get
<1>4. CASE is_running
  BY <1>1, <1>2, <1>4, CallInv DEF is_running
<1>5. ASSUME NEW s \in Signals, signal(s) PROVE Inv'
  <2>1. s # "get"
    BY DEF Signals
  <2> QED
    BY <1>1, <1>2, <1>5, <2>1, CallInv DEF signal
<1>6. ASSUME NEW m \in Queries, ask(m) PROVE Inv'
  <2>1. /\ m # "get" /\ StartOf(m) \in PCs
        /\ \/ StartOf(m) = "info" /\ m \in Info
           \/ StartOf(m) \in {"libproc", "args", "nice", "rusage"}
        /\ StartOf(m) = "args" => m \in Args
    BY DEF StartOf, Queries, Info, LibProc, Args, Nice, PCs
  <2> HIDE DEF StartOf
  <2> QED
    BY <1>1, <1>2, <1>6, <2>1, CallInv DEF ask
<1> QED
  BY <1>3, <1>4, <1>5, <1>6 DEF Invoke

(* A call ends with an error that is true now. *)
LEMMA FailInv ==
  ASSUME Inv, pc # "idle", NEW r \in Results \ {"none"}, Fail(r),
         op = "get" => r \in {"NoSuchProcess", "Load"},
         r = "ZombieProcess" =>
           Terminated(who) \/ (op \in Args /\ who \in Foreign),
         r = "NoSuchProcess" /\ op # "get" => state[who] = "gone",
         r = "AccessDenied" =>
           \/ who \in Foreign
           \/ /\ state[who] = "gone"
              /\ \E i \in Inc \ {who} : PidOf[i] = arg /\ state[i] # "unborn"
  PROVE  Inv'
<1> USE DEF Fail, Return, table, process
<1>1. TypeOK' /\ PidsAreUnique'
  BY DEF Inv, TypeOK, TableTypeOK, PidsAreUnique, PCs
<1>2. CallShape' /\ HandleShape' /\ SeenShape' /\ FirstAnswer'
  BY DEF Inv, CallShape, HandleShape, SeenShape, FirstAnswer
<1>3. WhereSignalsGo'
  BY DEF Inv, WhereSignalsGo
<1>4. WhatErrorsTell'
  BY DEF WhatErrorsTell, ZombieMeans, NoSuchProcessMeansGone,
     DeniedMeans, Terminated
<1> QED
  BY <1>1, <1>2, <1>3, <1>4 DEF Inv

(* A question is answered with the data of a process. *)
LEMMA AnswerInv ==
  ASSUME Inv, pc # "idle", op \in Queries, NEW i \in Inc \union {NoInc},
         i # NoInc => Owns(i, arg),
         \/ Answer(i)
         \/ /\ hit' = {i} /\ i # NoInc /\ Return("Ok")
            /\ UNCHANGED <<table, process, seen>>
  PROVE  Inv'
<1> USE DEF Answer, Return, table, process
<1>1. TypeOK' /\ PidsAreUnique'
  BY DEF Inv, TypeOK, TableTypeOK, PidsAreUnique, PCs, Results
<1>2. op \notin Signals
  BY DEF Queries, Info, LibProc, Args, Nice, Signals
<1>3. CallShape' /\ HandleShape' /\ SeenShape' /\ FirstAnswer'
  BY <1>2 DEF Inv, CallShape, HandleShape, SeenShape, FirstAnswer, Owns,
     Listed, Alive
<1>4. WhereSignalsGo' /\ WhatErrorsTell'
  BY <1>2 DEF WhereSignalsGo, WhatErrorsTell,
     ZombieMeans, NoSuchProcessMeansGone,
     DeniedMeans
<1> QED
  BY <1>1, <1>3, <1>4 DEF Inv

(* What becomes of an entry of the process table that was found. *)
LEMMA FoundInv ==
  ASSUME Inv, pc = "info", NEW i \in Inc, Owns(i, arg), Found(i)
  PROVE  Inv'
<1>1. op \in {"get", "is_running"} \union Signals \union Info
  BY DEF Inv, CallShape
<1>2. state[i] # "unborn" /\ PidOf[i] = arg
  BY DEF Owns, Listed, Alive
<1>3. hit = {} /\ result = "none"
  BY DEF Inv, CallShape
<1>4. op \notin {"none", "get"} =>
        who \in Inc /\ arg = PidOf[who] /\ (i # who => state[who] = "gone")
  BY OwnerFacts DEF Inv, HandleShape
<1>5. ASSUME op = "get", who' = i, create_time' = stamp[i], seen' = i,
             Return("Ok"), UNCHANGED <<table, hit>>
      PROVE  Inv'
  <2> USE <1>5 DEF Return, table
  <2>1. TypeOK' /\ PidsAreUnique'
    BY DEF Inv, TypeOK, TableTypeOK, PidsAreUnique, PCs, Results
  <2>2. CallShape' /\ HandleShape' /\ FirstAnswer'
    BY <1>2, <1>3 DEF CallShape, HandleShape, FirstAnswer
  <2>3. "get" \notin Signals
    BY DEF Signals
  <2>4. SeenShape' /\ WhereSignalsGo' /\ WhatErrorsTell'
    BY <1>2, <2>3 DEF SeenShape, WhereSignalsGo, WhatErrorsTell,
       ZombieMeans, NoSuchProcessMeansGone,
       DeniedMeans
  <2> QED
    BY <2>1, <2>2, <2>4 DEF Inv
<1>6. ASSUME op \notin {"none", "get"}, seen' = i,
             NEW r \in {"Ok", "true", "false", "NoSuchProcess"}, Return(r),
             r = "NoSuchProcess" => stamp[i] # create_time,
             UNCHANGED <<table, process, hit>>
      PROVE  Inv'
  <2> USE <1>6 DEF Return, table, process
  <2>1. TypeOK' /\ PidsAreUnique'
    BY DEF Inv, TypeOK, TableTypeOK, PidsAreUnique, PCs, Results
  <2>2. CallShape' /\ HandleShape' /\ SeenShape' /\ FirstAnswer'
    BY <1>2, <1>3, <1>4 DEF Inv, CallShape, HandleShape, SeenShape,
       FirstAnswer
  <2>3. WhereSignalsGo'
    BY <1>3 DEF WhereSignalsGo
  <2>4. r = "NoSuchProcess" => state[who] = "gone"
    BY <1>4 DEF Inv, HandleShape
  <2>5. WhatErrorsTell'
    BY <2>4 DEF WhatErrorsTell, ZombieMeans, NoSuchProcessMeansGone,
       DeniedMeans
  <2> QED
    BY <2>1, <2>2, <2>3, <2>5 DEF Inv
<1>7. ASSUME op \in Signals, stamp[i] = create_time, seen' = i,
             Goto("kill"), UNCHANGED hit
      PROVE  Inv'
  <2> USE <1>7 DEF Goto, table, process
  <2>1. op \notin {"none", "get"}
    BY DEF Signals
  <2>2. TypeOK' /\ PidsAreUnique'
    BY DEF Inv, TypeOK, TableTypeOK, PidsAreUnique, PCs
  <2>3. CallShape' /\ HandleShape' /\ SeenShape' /\ FirstAnswer'
    BY <1>2, <1>3, <1>4, <2>1, MacAssumption DEF Inv, CallShape, HandleShape,
       SeenShape, FirstAnswer
  <2>4. WhereSignalsGo' /\ WhatErrorsTell'
    BY <1>3 DEF WhereSignalsGo, WhatErrorsTell,
       ZombieMeans, NoSuchProcessMeansGone,
       DeniedMeans
  <2> QED
    BY <2>2, <2>3, <2>4 DEF Inv
<1>8. CASE op = "get"
  <2>1. op # "is_running" /\ op \notin Signals /\ op \notin Info
    BY <1>8 DEF Signals, Info
  <2> QED
    BY <1>5, <1>8, <2>1 DEF Found
<1>9. CASE op # "get"
  <2>1. op \notin {"none", "get"}
    BY <1>9 DEF Inv, CallShape
  <2>2. CASE op \in Signals /\ stamp[i] = create_time /\ Goto("kill")
             /\ UNCHANGED hit
    BY <1>7, <2>2 DEF Found
  <2>3. CASE \E r \in {"Ok", "true", "false", "NoSuchProcess"} :
               /\ r = "NoSuchProcess" => stamp[i] # create_time
               /\ Return(r) /\ UNCHANGED <<table, process, hit>>
    BY <1>6, <2>1, <2>3 DEF Found
  <2> QED
    BY <1>9, <2>2, <2>3 DEF Found
<1> QED
  BY <1>8, <1>9

(* kill, after the check: the stranger that it reaches has the pid of a    *)
(* process that is gone.                                                   *)
LEMMA KillInv ==
  ASSUME Inv, Kill
  PROVE  Inv'
<1>1. /\ pc = "kill" /\ op \in Signals /\ op \notin {"none", "get"}
      /\ {"AccessDenied", "NoSuchProcess"} \subseteq Results \ {"none"}
  BY DEF Kill, Inv, CallShape, Results, Signals
<1>2. ASSUME NEW i \in Inc \ Foreign, Owns(i, arg), Deliver(op, i),
             hit' = {i}, Return("Ok"), UNCHANGED <<process, seen>>
      PROVE  Inv'
  <2> USE <1>2 DEF Return, process
  <2>1. state[i] \in Listed
    BY DEF Owns
  <2>2. TableInv' /\ Forward
    BY <1>1, <2>1, DeliverInv DEF Inv, TableInv, TypeOK
  <2>3. /\ who \in Inc /\ seen \in Inc /\ arg = PidOf[who]
        /\ state[who] # "unborn" /\ state[seen] # "unborn"
        /\ PidOf[seen] = PidOf[who] /\ PidOf[i] = PidOf[who]
        /\ i # who => state[who] = "gone"
        /\ seen # who => state[who] = "gone"
        /\ stamp[seen] = stamp[who]
    BY <1>1, OwnerFacts DEF Inv, TypeOK, HandleShape, SeenShape
  <2>4. TypeOK' /\ PidsAreUnique'
    BY <2>2 DEF Inv, TypeOK, TableInv, PCs, Results
  <2>5. CallShape' /\ HandleShape' /\ SeenShape' /\ FirstAnswer'
    BY <1>1, <2>2, <2>3 DEF Inv, Forward, CallShape, HandleShape, SeenShape,
       FirstAnswer
  <2>6. seen # who => start'[seen] # start'[who]
    BY <2>2, <2>3 DEF Inv, PidsAreUnique, Forward
  <2>7. WhereSignalsGo'
    BY <2>2, <2>3, <2>6 DEF Forward, WhereSignalsGo
  <2>8. WhatErrorsTell'
    BY DEF WhatErrorsTell, ZombieMeans, NoSuchProcessMeansGone,
       DeniedMeans
  <2> QED
    BY <2>4, <2>5, <2>7, <2>8 DEF Inv
<1>3. ASSUME NEW i \in Foreign, Owns(i, arg), Fail("AccessDenied")
      PROVE  Inv'
  <2>1. \/ who \in Foreign
        \/ state[who] = "gone" /\ i # who
    BY <1>1, <1>3, OwnerFacts, TableAssumption
  <2>2. i \in Inc /\ PidOf[i] = arg /\ state[i] # "unborn"
    BY <1>3, TableAssumption DEF Owns, Listed, Alive
  <2> QED
    BY <1>1, <1>3, <2>1, <2>2, FailInv
<1>4. CASE ~Exists(arg) /\ Fail("NoSuchProcess")
  BY <1>1, <1>4, NobodyFacts, FailInv
<1> QED
  BY <1>2, <1>3, <1>4 DEF Kill

(* The group of the caller is signalled: each of its processes keeps its   *)
(* entry in the table.                                                     *)
LEMMA GroupMoves ==
  ASSUME Inv, KillZero, op \in Signals
  PROVE  TableInv' /\ Forward
<1> USE DEF KillZero
<1>1. \A i \in hit' : i \in Inc /\ state[i] \in Listed
  BY MacAssumption
<1>2. ASSUME NEW i \in Inc
      PROVE  \/ state'[i] = state[i]
             \/ /\ state[i] \in Listed /\ state'[i] \in Listed
                /\ state[i] = "zombie" => state'[i] = "zombie"
  <2>1. CASE i \in hit'
    BY <1>1, <2>1, EffectFacts
  <2>2. CASE i \notin hit'
    BY <2>2
  <2> QED
    BY <2>1, <2>2
<1>3. state' \in [Inc -> States] /\ UNCHANGED <<start, now, btime>>
  OBVIOUS
<1>4. TableTypeOK' /\ Forward
  BY <1>2, <1>3 DEF Inv, TypeOK, TableTypeOK, Forward, States, Listed, Alive
<1>5. \A i \in Inc : /\ state'[i] \in Listed <=> state[i] \in Listed
                     /\ state'[i] = "unborn" <=> state[i] = "unborn"
  BY <1>2 DEF Listed, Alive
<1>6. PidsAreUnique'
  BY <1>3, <1>5 DEF Inv, PidsAreUnique
<1> QED
  BY <1>4, <1>6 DEF TableInv

(* kill with the pid 0, which is that of the kernel task alone. *)
LEMMA KillZeroInv ==
  ASSUME Inv, KillZero
  PROVE  Inv'
<1>1. pc = "kill" /\ op \in Signals /\ op \notin {"none", "get"}
  BY DEF KillZero, Inv, CallShape, Signals
<1>2. TableInv' /\ Forward
  BY <1>1, GroupMoves
<1>3. /\ UNCHANGED <<who, create_time, seen, stamp, op, arg>>
      /\ pc' = "idle" /\ result' = "Ok" /\ hit' \subseteq Group
  BY DEF KillZero, Return, process
<1>4. who \in Inc /\ seen \in Inc /\ arg = PidOf[who]
      /\ state[who] # "unborn" /\ state[seen] # "unborn"
  BY <1>1 DEF Inv, TypeOK, HandleShape, SeenShape
<1>5. who \in KernelTask
  BY <1>4, MacAssumption DEF KillZero, IsZero
<1>6. TypeOK' /\ PidsAreUnique'
  <2>1. hit' \subseteq Inc
    BY <1>3, MacAssumption
  <2> QED
    BY <1>2, <1>3, <2>1 DEF Inv, TypeOK, TableInv, PCs, Results
<1>7. CallShape' /\ HandleShape' /\ SeenShape' /\ FirstAnswer'
  BY <1>1, <1>2, <1>3, <1>4 DEF Inv, Forward, CallShape, HandleShape,
     SeenShape, FirstAnswer
<1>8. WhereSignalsGo'
  BY <1>3, <1>5 DEF WhereSignalsGo
<1>9. WhatErrorsTell'
  BY <1>3 DEF WhatErrorsTell, ZombieMeans, NoSuchProcessMeansGone, DeniedMeans
<1> QED
  BY <1>6, <1>7, <1>8, <1>9 DEF Inv

LEMMA ProcessInfoInv ==
  ASSUME Inv, ProcessInfo
  PROVE  Inv'
<1>1. pc = "info" /\ "NoSuchProcess" \in Results \ {"none"}
  BY DEF ProcessInfo, Results
<1>2. CASE ~Exists(arg) /\ Fail("NoSuchProcess")
  <2>1. op # "get" => state[who] = "gone"
    BY <1>1, <1>2, NobodyFacts DEF Inv, CallShape
  <2> QED
    BY <1>1, <1>2, <2>1, FailInv
<1> QED
  BY <1>1, <1>2, FoundInv DEF ProcessInfo

(* The process of the handle has terminated or may not be asked, and the   *)
(* call goes on to find out why.                                           *)
LEMMA GoOnInv ==
  ASSUME Inv, pc \in {"libproc", "args"}, NEW l \in {"catch", "exists"},
         l = "catch" => Terminated(who),
         l = "exists" => pc = "args" /\ (Terminated(who) \/ who \in Foreign),
         Goto(l), UNCHANGED <<seen, hit>>
  PROVE  Inv'
<1>1. op \in Queries /\ op \notin {"none", "get"}
  BY DEF Inv, CallShape, Queries, Info, LibProc, Args, Nice
<1> USE DEF Goto, table, process
<1>3. TypeOK' /\ PidsAreUnique'
  BY DEF Inv, TypeOK, TableTypeOK, PidsAreUnique, PCs
<1>4. CallShape' /\ HandleShape' /\ SeenShape' /\ FirstAnswer'
  BY <1>1 DEF Inv, CallShape, HandleShape, SeenShape, FirstAnswer, Terminated
<1>5. hit' = {} /\ result' = "none"
  BY DEF Inv, CallShape
<1>6. WhereSignalsGo' /\ WhatErrorsTell'
  BY <1>5 DEF WhereSignalsGo, WhatErrorsTell, ZombieMeans,
     NoSuchProcessMeansGone, DeniedMeans
<1> QED
  BY <1>3, <1>4, <1>6 DEF Inv

(* Whom a question finds: if nobody has the pid but zombies and those in   *)
(* the set S, then the process has terminated or is one of these.          *)
LEMMA NotAnswering ==
  ASSUME Inv, op \notin {"none", "get"}, NEW S,
         \A i \in Inc : Owns(i, arg) => state[i] = "zombie" \/ i \in S
  PROVE  Terminated(who) \/ who \in S
<1>1. CASE ~Exists(arg)
  BY <1>1, NobodyFacts DEF Terminated
<1>2. ASSUME NEW i \in Inc, Owns(i, arg)
      PROVE  Terminated(who) \/ who \in S
  BY <1>2, OwnerFacts DEF Terminated
<1> QED
  BY <1>1, <1>2 DEF Exists

(* An owner of the pid that may not be asked is refused, any other one     *)
(* answers.                                                                *)
LEMMA RefusedInv ==
  ASSUME Inv, pc \notin {"idle", "info", "kill"}, NEW i \in Foreign,
         Owns(i, arg), Fail("AccessDenied")
  PROVE  Inv'
<1>1. op \notin {"none", "get"} /\ "AccessDenied" \in Results \ {"none"}
  BY DEF Inv, CallShape, Queries, Info, LibProc, Args, Nice, Results
<1>2. i \in Inc /\ PidOf[i] = arg /\ state[i] # "unborn"
  BY TableAssumption DEF Owns, Listed, Alive
<1>3. who \in Foreign \/ (state[who] = "gone" /\ i # who)
  BY <1>1, <1>2, OwnerFacts
<1> QED
  BY <1>1, <1>2, <1>3, FailInv

LEMMA LibProcInv ==
  ASSUME Inv, LibProcCall
  PROVE  Inv'
<1>1. pc = "libproc" /\ op \in Queries /\ op \notin {"none", "get"}
  BY DEF LibProcCall, Inv, CallShape, Queries, Info, LibProc, Args, Nice
<1>2. ASSUME NEW i \in Inc, Owns(i, arg),
             IF i \in KernelTask \/ (i \in Foreign /\ op # "exe")
             THEN Fail("AccessDenied") ELSE Answer(i)
      PROVE  Inv'
  BY <1>1, <1>2, RefusedInv, AnswerInv, MacAssumption
<1>3. CASE /\ \A i \in Inc : Owns(i, arg) => state[i] = "zombie"
           /\ Goto("catch") /\ UNCHANGED <<seen, hit>>
  <2>1. \E S : S = {}
    OBVIOUS
  <2>2. PICK S : S = {}
    BY <2>1
  <2>3. Terminated(who) \/ who \in S
    BY <1>1, <1>3, NotAnswering
  <2> QED
    BY <1>1, <1>3, <2>2, <2>3, GoOnInv
<1> QED
  BY <1>2, <1>3 DEF LibProcCall

LEMMA ProcArgsInv ==
  ASSUME Inv, ProcArgs
  PROVE  Inv'
<1>1. pc = "args" /\ op \in Queries /\ op \notin {"none", "get"}
  BY DEF ProcArgs, Inv, CallShape, Queries, Info, LibProc, Args, Nice
<1>2. ASSUME NEW i \in Inc, Owns(i, arg),
             \/ i \in KernelTask /\ Fail("AccessDenied")
             \/ i \notin Foreign /\ Answer(i)
      PROVE  Inv'
  BY <1>1, <1>2, RefusedInv, AnswerInv, MacAssumption
<1>3. CASE /\ \A i \in Inc : Owns(i, arg) =>
                state[i] = "zombie" \/ i \in Foreign \ KernelTask
           /\ Goto("exists") /\ UNCHANGED <<seen, hit>>
  <2>1. Terminated(who) \/ who \in Foreign \ KernelTask
    BY <1>1, <1>3, NotAnswering
  <2> QED
    BY <1>1, <1>3, <2>1, GoOnInv
<1> QED
  BY <1>2, <1>3 DEF ProcArgs

(* The second question: whoever has the pid now, and is not a zombie, is   *)
(* not the process of the handle.                                          *)
LEMMA SecondAnswerInv ==
  ASSUME Inv, CatchZombie \/ ArgsExists
  PROVE  Inv'
<1>1. /\ pc \in {"catch", "exists"} /\ op \notin {"none", "get"}
      /\ {"ZombieProcess", "AccessDenied", "NoSuchProcess", "Load"}
           \subseteq Results \ {"none"}
  BY DEF CatchZombie, ArgsExists, Inv, CallShape, Queries, Info, LibProc,
     Args, Nice, Results
<1>2. /\ pc = "catch" => Terminated(who)
      /\ pc = "exists" => /\ op \in Args
                          /\ Terminated(who) \/ who \in Foreign
  BY <1>1 DEF Inv, FirstAnswer, CallShape
<1>3. CASE CatchZombie
  <2> USE DEF CatchZombie
  <2>1. ASSUME NEW i \in Inc, Owns(i, arg), state[i] = "zombie",
               Fail("ZombieProcess")
        PROVE  Inv'
    BY <1>1, <1>2, <1>3, <2>1, FailInv
  <2>2. ASSUME NEW i \in Inc, Owns(i, arg), state[i] # "zombie",
               Fail("AccessDenied")
        PROVE  Inv'
    <3>1. i # who
      BY <1>2, <1>3, <2>2 DEF Terminated, Owns, Listed, Alive
    <3>2. state[who] = "gone"
      BY <1>1, <2>2, <3>1, OwnerFacts
    <3>3. PidOf[i] = arg /\ state[i] # "unborn"
      BY <2>2 DEF Owns, Listed, Alive
    <3> QED
      BY <1>1, <2>2, <3>1, <3>2, <3>3, FailInv
  <2>3. CASE ~Exists(arg) /\ Fail("NoSuchProcess")
    BY <1>1, <2>3, NobodyFacts, FailInv
  <2> QED
    BY <1>3, <2>1, <2>2, <2>3 DEF CatchZombie
<1>4. CASE ArgsExists
  <2>1. pc = "exists" /\ (Fail("ZombieProcess") \/ Fail("Load"))
    BY <1>4 DEF ArgsExists
  <2> QED
    BY <1>1, <1>2, <2>1, FailInv
<1> QED
  BY <1>3, <1>4

LEMMA RusageInv ==
  ASSUME Inv, Rusage
  PROVE  Inv'
<1>1. pc = "rusage" /\ op \in Queries /\ op # "get"
      /\ "Load" \in Results \ {"none"}
  BY DEF Rusage, Inv, CallShape, Queries, Info, LibProc, Args, Nice, Results
<1>2. ASSUME NEW i \in Inc, Owns(i, arg),
             IF i \in Foreign THEN Fail("AccessDenied") ELSE Answer(i)
      PROVE  Inv'
  BY <1>1, <1>2, RefusedInv, AnswerInv
<1>3. CASE Fail("Load")
  BY <1>1, <1>3, FailInv
<1> QED
  BY <1>2, <1>3 DEF Rusage

LEMMA PriorityInv ==
  ASSUME Inv, Priority
  PROVE  Inv'
<1>1. pc = "nice" /\ op \in Queries /\ op \notin {"none", "get"}
      /\ {"Load", "NoSuchProcess"} \subseteq Results \ {"none"}
  BY DEF Priority, Inv, CallShape, Queries, Info, LibProc, Args, Nice, Results
<1>2. ASSUME NEW i \in Inc, Owns(i, arg),
             \/ Answer(i)
             \/ /\ hit' = {i} /\ Return("Ok")
                /\ UNCHANGED <<table, process, seen>>
      PROVE  Inv'
  BY <1>1, <1>2, AnswerInv, MacAssumption
<1>5. CASE Answer(NoInc)
  BY <1>1, <1>5, AnswerInv
<1>3. CASE Fail("Load")
  BY <1>1, <1>3, FailInv
<1>4. CASE ~Exists(arg) /\ Fail("NoSuchProcess")
  BY <1>1, <1>4, NobodyFacts, FailInv
<1> QED
  BY <1>2, <1>3, <1>4, <1>5 DEF Priority

LEMMA StepInv == Inv /\ [Next]_vars => Inv'
<1> SUFFICES ASSUME Inv, [Next]_vars PROVE Inv'
  OBVIOUS
<1>1. CASE UNCHANGED vars
  BY <1>1 DEF vars, table, process, call, Inv, TypeOK, TableTypeOK,
     PidsAreUnique, CallShape, HandleShape, SeenShape, FirstAnswer,
     WhereSignalsGo, WhatErrorsTell, ZombieMeans,
     NoSuchProcessMeansGone, DeniedMeans, Terminated
<1>2. CASE OtherError
  <2>1. "Load" \in Results \ {"none"}
    BY DEF Results
  <2> QED
    BY <1>2, <2>1, FailInv DEF OtherError
<1>3. CASE Step /\ ~OtherError
  BY <1>3, ProcessInfoInv, LibProcInv, SecondAnswerInv, ProcArgsInv,
     RusageInv, PriorityInv, KillInv, KillZeroInv DEF Step
<1> QED
  BY <1>1, <1>2, <1>3, EnvironmentInv, InvokeInv DEF Next

----------------------------------------------------------------------------
(* The invariant holds in every reachable state. *)
THEOREM Invariance == Spec => []Inv
BY InitInv, StepInv, PTL DEF Spec

(* Every call ends in one of the answers and errors of the code. *)
THEOREM TypeCorrectness == Spec => []TypeOK
<1>1. Inv => TypeOK
  BY DEF Inv
<1> QED
  BY <1>1, Invariance, PTL

(* A signal for the kernel task goes to the group of the caller; any other *)
(* one reaches a stranger only if the process of the handle is gone, and   *)
(* then only through the window behind the check or because the clock gave *)
(* both the same start time, for any number of processes and any changes   *)
(* of the clock (_signal and pid_kill).                                    *)
THEOREM SignalsGoThere == Spec => []WhereSignalsGo
<1>1. Inv => WhereSignalsGo
  BY DEF Inv
<1> QED
  BY <1>1, Invariance, PTL

(* What NoSuchProcess, ZombieProcess and AccessDenied say of the process   *)
(* that was asked about, although catch_zombie and pid_exists look at the  *)
(* pid a second time.                                                      *)
THEOREM ErrorsTellThisMuch == Spec => []WhatErrorsTell
<1>1. Inv => WhatErrorsTell
  BY DEF Inv
<1> QED
  BY <1>1, Invariance, PTL

============================================================================
