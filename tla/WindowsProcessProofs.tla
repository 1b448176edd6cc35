------------------------ MODULE WindowsProcessProofs ------------------------
(***************************************************************************)
(* Proofs about WindowsProcess and WindowsQuery, for any set of processes  *)
(* and pids.                                                               *)
(***************************************************************************)
EXTENDS WindowsQuery, ProcTableProofs

----------------------------------------------------------------------------
(* The inductive invariant *)

(* Where a call has a handle open. *)
HasOpen == {"exit_code", "enum", "times", "traverse", "act", "query",
            "name_exe", "peb32_addr", "wow64"} \union ReadStages

(* Where get and is_running may be suspended. *)
Checks == {"exists", "exit_code", "enum", "create", "times", "traverse"}

CallShape ==
  /\ pc # "idle" => op # "none" /\ result = "none" /\ hit = NoInc
  /\ pc \in Checks => op \in {"get", "is_running"}
  /\ pc \in {"open", "act"} => op \in Acts
  /\ pc \in QueryPCs => op \in Queries
  /\ pc = "spin" => op \notin Acts
  /\ result \in {"true", "false"} => op = "is_running"
  /\ op = "none" => result = "none" /\ hit = NoInc
  /\ op = "get" => result \in {"none", "Ok", "NoSuchProcess", "AccessDenied",
                               "Load"}
  /\ hit # NoInc => op \in Acts
  /\ op = "kill" /\ result = "Ok" => hit # NoInc

(* A method of a handle looks up the pid of the process that the handle    *)
(* was made for.                                                           *)
HandleShape ==
  /\ who # NoInc => state[who] # "unborn"
  /\ op \notin {"none", "get"} => /\ who # NoInc /\ arg = PidOf[who]
                                  /\ was # "unborn"
                                  /\ was = "zombie" => Terminated(who)
                                  /\ was = "gone" => state[who] = "gone"

(* is_running goes on behind pid_exists with a process that had exited     *)
(* before only if it could not be opened or is one of those that pid_exists *)
(* takes for running.                                                      *)
Passed == {"create", "times", "traverse"}

Excused == op = "is_running" /\ was = "zombie" /\ state[who] # "gone" =>
             who \in Foreign \union StillActive \union Lingering

ExcusedShape == pc \in Passed => Excused

(* The process that is open has the pid of the call, may be opened, and    *)
(* cannot be gone.  get_peb comes to a 32-bit process only if that has     *)
(* exited.                                                                 *)
OpenShape ==
  /\ pc \in HasOpen => open # NoInc
  /\ pc = "idle" => open = NoInc
  /\ open # NoInc => open \notin Foreign
  /\ pc = "wow64" /\ open \in Wow64 => state[open] = "zombie"
  /\ pc \in {"times", "traverse"} => \A i \in System : PidOf[i] # arg
  /\ pc = "traverse" => open \in Guarded

(* The pids of the system processes are never used again. *)
SystemIsUp ==
  /\ \A i \in System : state[i] = "running"
  /\ \A i \in System, j \in Inc :
       i # j /\ PidOf[i] = PidOf[j] => state[j] = "unborn"

(* The creation time of a handle is the one that every later question      *)
(* would yield for its process.                                            *)
TimeShape ==
  /\ now <= MaxTick
  /\ \A i \in Inc : start[i] <= MaxTick
  /\ who \notin System \union {NoInc} =>
       create_time = start[who] + (IF who \in Guarded THEN Epoch ELSE 0)

Inv == /\ QueryTypeOK
       /\ PidsAreUnique
       /\ CallShape
       /\ HandleShape
       /\ ExcusedShape
       /\ OpenShape
       /\ SystemIsUp
       /\ TimeShape
       /\ WhatCallsTell
       /\ ActReachesHandle
       /\ AnswerIsOwn

LEMMA InitInv == QueryInit => Inv
<1> SUFFICES ASSUME QueryInit PROVE Inv
  OBVIOUS
<1> USE DEF QueryInit, Init
<1>1. TableInv
  BY TableInitInv
<1>2. QueryTypeOK
  BY <1>1 DEF QueryTypeOK, TypeOK, TableInv, PCs, Ops, Results, States,
     Attempts
<1>3. CallShape /\ HandleShape /\ ExcusedShape /\ OpenShape
  BY DEF CallShape, HandleShape, ExcusedShape, Passed, OpenShape, HasOpen,
     Checks, QueryPCs, ReadStages
<1>4. SystemIsUp
  BY TableAssumption, WindowsAssumption DEF SystemIsUp, TableInit, Owns,
     Listed, Alive
<1>5. TimeShape
  BY TableAssumption DEF TimeShape, TableInit
<1>6. WhatCallsTell /\ ActReachesHandle /\ AnswerIsOwn
  BY DEF WhatCallsTell, VerdictTells, UnreadablePebMeansExited,
     DeniedMeansForbidden, ActReachesHandle, AnswerIsOwn
<1> QED
  BY <1>1, <1>2, <1>3, <1>4, <1>5, <1>6 DEF Inv, TableInv

----------------------------------------------------------------------------
(* Who has the pid of the handle *)

LEMMA OwnerFacts ==
  ASSUME Inv, op \notin {"none", "get"}, NEW i \in Inc, Owns(i, arg)
  PROVE  /\ who \in Inc /\ PidOf[i] = PidOf[who] /\ state[i] # "unborn"
         /\ i # who => state[who] = "gone"
<1>1. who \in Inc /\ arg = PidOf[who] /\ state[who] # "unborn"
  BY DEF Inv, QueryTypeOK, TypeOK, HandleShape
<1>2. PidOf[i] = PidOf[who] /\ state[i] # "unborn"
  BY <1>1 DEF Owns, Listed, Alive
<1> QED
  BY <1>1, <1>2, OtherOwner DEF Inv, TableInv, QueryTypeOK, TypeOK

LEMMA NobodyFacts ==
  ASSUME Inv, op \notin {"none", "get"}, ~Exists(arg)
  PROVE  state[who] = "gone"
BY NoOwner DEF Inv, TableInv, QueryTypeOK, TypeOK, HandleShape

(* A list of processes without the pid says that the process has exited. *)
LEMMA ListFacts ==
  ASSUME Inv, op \notin {"none", "get"}, NEW L \in Lists,
         \A i \in L : PidOf[i] # arg
  PROVE  Terminated(who)
BY DEF Lists, Inv, QueryTypeOK, TypeOK, TableTypeOK, HandleShape, Terminated,
   States, Listed

LEMMA OpenFacts ==
  ASSUME Inv, open # NoInc
  PROVE  open \in Inc /\ Owns(open, arg) /\ open \notin Foreign
BY DEF Inv, QueryTypeOK, TypeOK, OpenShape, Owns

----------------------------------------------------------------------------
(* Steps *)

(* The table goes on; what is open is kept. *)
LEMMA TableMoves ==
  ASSUME Inv, TableInv', Forward, UNCHANGED <<process, call, tries>>,
         open # NoInc => state'[open] # "gone",
         SystemIsUp', now' <= MaxTick,
         \A i \in Inc : start'[i] <= MaxTick
  PROVE  Inv'
<1> USE DEF process, call
<1>1. who \in Inc \union {NoInc} /\ Foreign \subseteq Inc /\ Wow64 \subseteq Inc
      /\ Inc \subseteq Inc
  BY TableAssumption, QueryAssumption DEF Inv, QueryTypeOK, TypeOK
<1>2. open # NoInc => /\ state'[open] \in Listed
                      /\ state[open] = "zombie" => state'[open] = "zombie"
  BY DEF Inv, QueryTypeOK, TypeOK, TableInv, TableTypeOK, Forward, States,
     Listed, Alive
<1>3. QueryTypeOK' /\ PidsAreUnique'
  BY <1>2 DEF Inv, QueryTypeOK, TypeOK, TableInv
<1>4. CallShape'
  BY DEF Inv, CallShape
<1>5. HandleShape' /\ OpenShape' /\ ExcusedShape'
  <2>1. HandleShape'
    BY <1>1, WindowsAssumption DEF Inv, Forward, HandleShape, Terminated
  <2>2. OpenShape'
    BY <1>1, <1>2, WindowsAssumption DEF Inv, Forward, OpenShape, HasOpen
  <2>3. ExcusedShape'
    <3>1. op = "is_running" => who \in Inc
      BY <1>1 DEF Inv, HandleShape
    <3> QED
      BY <3>1 DEF Inv, Forward, ExcusedShape, Excused
  <2> QED
    BY <2>1, <2>2, <2>3
<1>6. TimeShape'
  BY <1>1 DEF Inv, Forward, HandleShape, TimeShape
<1>7. VerdictTells' /\ UnreadablePebMeansExited'
  BY <1>1 DEF Inv, Forward, CallShape, HandleShape, WhatCallsTell,
     VerdictTells, UnreadablePebMeansExited, Terminated
<1>8. DeniedMeansForbidden'
  BY <1>1 DEF Inv, Forward, WhatCallsTell, DeniedMeansForbidden
<1>9. ActReachesHandle' /\ AnswerIsOwn'
  BY <1>1 DEF Inv, QueryTypeOK, TypeOK, Forward, CallShape, HandleShape,
     ActReachesHandle, AnswerIsOwn, Terminated, Acts, Queries, OnHandle
<1> QED
  BY <1>3, <1>4, <1>5, <1>6, <1>7, <1>8, <1>9 DEF Inv, WhatCallsTell

LEMMA EnvironmentInv ==
  ASSUME Inv, Environment, UNCHANGED tries
  PROVE  Inv'
<1>1. TableInv' /\ Forward
  BY TableNextInv DEF Inv, QueryTypeOK, TypeOK, TableInv, Environment
<1>2. /\ \A i \in System : i \in Inc
      /\ Inc \subseteq Inc
  BY TableAssumption, WindowsAssumption
<1>3. now' <= MaxTick /\ \A i \in Inc : start'[i] <= MaxTick
  <2> USE TableAssumption DEF Inv, QueryTypeOK, TypeOK, TableTypeOK, TimeShape
  <2>1. CASE Tick \/ ClockStep
    BY <2>1 DEF Tick, ClockStep
  <2>2. ASSUME NEW i \in Inc, Spawn(i) \/ Exit(i) \/ Reap(i)
        PROVE  now' <= MaxTick /\ \A j \in Inc : start'[j] <= MaxTick
    BY <2>2 DEF Spawn, Exit, Reap
  <2> QED
    BY <2>1, <2>2 DEF Environment, TableNext
<1>4. \A i \in System : state'[i] = "running"
  BY DEF Inv, SystemIsUp, Environment
<1>5. ASSUME NEW i \in System, NEW j \in Inc, i # j, PidOf[i] = PidOf[j]
      PROVE  state'[j] = "unborn"
  <2>1. state[i] = "running" /\ state[j] = "unborn" /\ i \in Inc
    BY <1>2, <1>5 DEF Inv, SystemIsUp
  <2>2. ~Spawn(j)
    BY <1>5, <2>1 DEF Spawn
  <2> QED
    BY <2>1, <2>2 DEF Environment, TableNext, Tick, ClockStep, Spawn, Exit,
       Reap, Inv, QueryTypeOK, TypeOK, TableTypeOK, Alive
<1>6. SystemIsUp'
  BY <1>4, <1>5 DEF SystemIsUp
<1> QED
  BY <1>1, <1>3, <1>6, TableMoves DEF Environment

(* A method is called. *)
LEMMA CallInv ==
  ASSUME Inv, NEW m \in Ops \ {"none"}, NEW l \in PCs \ {"idle"},
         NEW p \in Pid, Call(m, l, p), tries' \in 0 .. Attempts - 1,
         l \notin HasOpen \union {"spin"},
         m # "get" => who # NoInc /\ p = PidOf[who],
         l \in Checks => m \in {"get", "is_running"},
         l = "open" => m \in Acts,
         l \in QueryPCs => m \in Queries,
         l \notin Passed
  PROVE  Inv'
<1> USE DEF Call
<1>1. UNCHANGED <<state, start, now, btime, who, create_time, dying, open>>
  BY DEF table, process
<1>2. open = NoInc
  BY DEF Inv, OpenShape
<1>3. TypeOK'
  BY <1>1, <1>2 DEF Inv, QueryTypeOK, TypeOK, TableTypeOK, Results, States
<1>4. QueryTypeOK' /\ PidsAreUnique'
  BY <1>1, <1>3 DEF Inv, QueryTypeOK, PidsAreUnique, Listed, Alive
<1>5. CallShape'
  BY DEF CallShape, Ops, HasOpen, Acts, Queries, OnHandle
<1>6. HandleShape' /\ OpenShape' /\ ExcusedShape'
  BY <1>1, <1>2 DEF Inv, HandleShape, OpenShape, ExcusedShape, HasOpen,
     ReadStages, Terminated
<1>7. SystemIsUp' /\ TimeShape'
  BY <1>1 DEF Inv, SystemIsUp, TimeShape
<1>8. WhatCallsTell' /\ ActReachesHandle' /\ AnswerIsOwn'
  BY DEF WhatCallsTell, VerdictTells, UnreadablePebMeansExited,
     DeniedMeansForbidden, ActReachesHandle, AnswerIsOwn
<1> QED
  BY <1>4, <1>5, <1>6, <1>7, <1>8 DEF Inv

(* A call goes on, with or without a process that it has open. *)
LEMMA GotoInv ==
  ASSUME Inv, pc # "idle", NEW l \in PCs \ {"idle"}, Goto(l),
         UNCHANGED <<table, process, seen, hit>>,
         tries' \in 0 .. Attempts - 1,
         open' \in Inc \union {NoInc},
         open' # NoInc => open' \notin Foreign /\ Owns(open', arg),
         l \in HasOpen => open' # NoInc,
         l \in Checks => op \in {"get", "is_running"},
         l \in {"open", "act"} => op \in Acts,
         l \in QueryPCs => op \in Queries,
         l = "spin" => op \notin Acts,
         l = "wow64" /\ open' \in Wow64 => state[open'] = "zombie",
         l \in {"times", "traverse"} => \A i \in System : PidOf[i] # arg,
         l = "traverse" => open' \in Guarded,
         l \in Passed => Excused
  PROVE  Inv'
<1> USE DEF Goto
<1>1. UNCHANGED <<state, start, now, btime, who, create_time, dying, seen, hit, op,
                  arg, result, was>>
  BY DEF table, process
<1>2. QueryTypeOK' /\ PidsAreUnique'
  BY <1>1 DEF Inv, QueryTypeOK, TypeOK, TableTypeOK, PidsAreUnique, Owns
<1>3. CallShape'
  BY <1>1 DEF Inv, CallShape
<1>4. HandleShape' /\ OpenShape' /\ ExcusedShape'
  BY <1>1 DEF Inv, HandleShape, OpenShape, ExcusedShape, Excused, Terminated
<1>5. SystemIsUp' /\ TimeShape'
  BY <1>1 DEF Inv, SystemIsUp, TimeShape
<1>6. result' = "none" /\ hit' = NoInc
  BY <1>1 DEF Inv, CallShape
<1>7. WhatCallsTell' /\ ActReachesHandle' /\ AnswerIsOwn'
  BY <1>6 DEF WhatCallsTell, VerdictTells, UnreadablePebMeansExited,
     DeniedMeansForbidden, ActReachesHandle, AnswerIsOwn
<1> QED
  BY <1>2, <1>3, <1>4, <1>5, <1>7 DEF Inv

(* A call that leaves the processes and the handle alone returns. *)
LEMMA ReturnInv ==
  ASSUME Inv, pc # "idle", NEW r \in Results \ {"none"}, Return(r),
         UNCHANGED <<table, process, hit>>, seen' \in Inc \union {NoInc},
         tries' \in 0 .. Attempts - 1,
         r \in {"true", "false"} => op = "is_running",
         op = "get" => r \in {"NoSuchProcess", "AccessDenied", "Load"},
         r = "Ok" => op # "kill",
         r = "true" =>
           /\ seen' = who
           /\ \/ was \in Alive
              \/ was = "zombie" /\ who \in StillActive \union Lingering,
         r = "false" /\ who \notin System =>
           seen' # who /\ state[who] = "gone",
         op # "get" /\ r = "NoSuchProcess" => Terminated(who),
         r = "UnreadablePeb" => seen' \in Wow64 /\ Terminated(seen'),
         r = "AccessDenied" =>
           \E i \in Foreign : PidOf[i] = arg /\ state[i] # "unborn",
         op \in Queries /\ r \in {"Ok", "UnreadablePeb"} =>
           /\ seen' # NoInc /\ PidOf[seen'] = PidOf[who]
           /\ seen' # who => state[who] = "gone"
  PROVE  Inv'
<1> USE DEF Return
<1>1. UNCHANGED <<state, start, now, btime, who, create_time, dying, hit, op, arg,
                  was>>
  BY DEF table, process
<1>2. QueryTypeOK' /\ PidsAreUnique'
  BY <1>1 DEF Inv, QueryTypeOK, TypeOK, TableTypeOK, PidsAreUnique, PCs
<1>3. hit' = NoInc /\ op # "none"
  BY <1>1 DEF Inv, CallShape
<1>4. CallShape'
  BY <1>1, <1>3 DEF Inv, CallShape, Checks, QueryPCs, ReadStages
<1>5. HandleShape' /\ OpenShape' /\ ExcusedShape'
  BY <1>1 DEF Inv, HandleShape, OpenShape, ExcusedShape, Passed, HasOpen,
     ReadStages, Terminated
<1>6. SystemIsUp' /\ TimeShape'
  BY <1>1 DEF Inv, SystemIsUp, TimeShape
<1>7. WhatCallsTell'
  BY <1>1 DEF WhatCallsTell, VerdictTells, UnreadablePebMeansExited,
     DeniedMeansForbidden, Terminated
<1>8. ActReachesHandle' /\ AnswerIsOwn'
  BY <1>1, <1>3 DEF ActReachesHandle, AnswerIsOwn
<1> QED
  BY <1>2, <1>4, <1>5, <1>6, <1>7, <1>8 DEF Inv

(* A question is answered with what is known of an owner of the pid. *)
LEMMA AnswerInv ==
  ASSUME Inv, pc \in QueryPCs, NEW i \in Inc, Owns(i, arg), Answer(i)
  PROVE  Inv'
<1>1. op \in Queries /\ pc # "idle" /\ op \notin {"none", "get", "kill"}
  BY DEF Inv, CallShape, QueryPCs, ReadStages, Queries, OnHandle
<1>2. PidOf[i] = PidOf[who] /\ (i # who => state[who] = "gone") /\ i # NoInc
  BY <1>1, OwnerFacts, WindowsAssumption
<1> QED
  BY <1>1, <1>2, ReturnInv DEF Answer, Stay, Results, Inv, QueryTypeOK

(* A call is refused, or fails because nobody has the pid. *)
LEMMA DeniedInv ==
  ASSUME Inv, pc # "idle", op # "none", NEW i \in Foreign, Owns(i, arg),
         Return("AccessDenied"),
         UNCHANGED <<table, process, hit, seen, tries>>
  PROVE  Inv'
BY ReturnInv DEF Results, Inv, QueryTypeOK, TypeOK, Owns, Listed, Alive

LEMMA NobodyInv ==
  ASSUME Inv, pc # "idle", Return("NoSuchProcess"),
         op # "get" => Terminated(who),
         UNCHANGED <<table, process, hit, seen, tries>>
  PROVE  Inv'
BY ReturnInv DEF Results, Inv, QueryTypeOK, TypeOK

LEMMA NotIdle ==
  ASSUME Inv, pc # "idle"
  PROVE  op # "none" /\ result = "none" /\ hit = NoInc
BY DEF Inv, CallShape

(* A pid is opened, or nobody has it. *)
LEMMA OpenInv ==
  ASSUME Inv, NEW l \in HasOpen, pc # "idle",
         \/ \E i \in Inc \ Foreign : Owns(i, arg) /\ open' = i /\ Goto(l)
         \/ ~Exists(arg) /\ Return("NoSuchProcess"),
         UNCHANGED <<table, process, hit, seen, tries>>,
         l \in Checks => op \in {"get", "is_running"},
         l = "act" => op \in Acts,
         l \in QueryPCs => op \in Queries,
         l # "wow64",
         l = "times" => \A i \in System : PidOf[i] # arg,
         l \in Passed => Excused,
         l # "traverse"
  PROVE  Inv'
<1>1. l \in PCs \ {"idle"} /\ l \notin {"open", "spin"}
  BY DEF HasOpen, PCs, QueryPCs, ReadStages
<1>2. ASSUME NEW i \in Inc \ Foreign, Owns(i, arg), open' = i, Goto(l)
      PROVE  Inv'
  <2>1. open' # NoInc /\ open' \in Inc /\ open' \notin Foreign
        /\ Owns(open', arg)
    BY <1>2, WindowsAssumption
  <2>2. tries' \in 0 .. Attempts - 1
    BY DEF Inv, QueryTypeOK
  <2> QED
    BY <1>1, <1>2, <2>1, <2>2, GotoInv
<1>3. CASE ~Exists(arg) /\ Return("NoSuchProcess")
  <2>1. op # "get" => Terminated(who)
    BY <1>3, NotIdle, NobodyFacts DEF Terminated
  <2> QED
    BY <1>3, <2>1, NobodyInv
<1> QED
  BY <1>2, <1>3

----------------------------------------------------------------------------
(* get and is_running *)

(* A pid and a creation time make a process, though the times of a guarded *)
(* process and of others are counted from different years.                 *)
LEMMA TimeTells ==
  ASSUME Inv, op = "is_running", NEW i \in Inc, Owns(i, arg),
         NEW t \in Nat,
         i \notin System =>
           t = start[i] + (IF i \in Guarded THEN Epoch ELSE 0)
  PROVE  /\ t = create_time => i = who
         /\ i = who /\ who \notin System => t = create_time
<1>1. /\ who \in Inc /\ PidOf[i] = PidOf[who] /\ state[i] # "unborn"
      /\ i # who => state[who] = "gone"
      /\ state[who] # "unborn" /\ who # NoInc
  BY OwnerFacts, WindowsAssumption DEF Inv, HandleShape
<1>2. CASE i \in System \/ who \in System
  <2>1. i = who
    BY <1>1, <1>2 DEF Inv, SystemIsUp
  <2> QED
    BY <1>2, <2>1
<1>3. CASE i \notin System /\ who \notin System
  <2>1. /\ t = start[i] + (IF i \in Guarded THEN Epoch ELSE 0)
        /\ create_time = start[who] + (IF who \in Guarded THEN Epoch ELSE 0)
    BY <1>1, <1>3 DEF Inv, TimeShape
  <2>2. /\ start[i] \in 0 .. MaxTick /\ start[who] \in 0 .. MaxTick
        /\ Epoch \in Nat /\ MaxTick < Epoch /\ MaxTick \in Nat
    BY <1>1, TableAssumption, WindowsAssumption DEF Inv, TimeShape,
       QueryTypeOK, TypeOK, TableTypeOK
  <2>3. i # who => start[i] # start[who]
    BY <1>1 DEF Inv, PidsAreUnique
  <2> QED
    BY <2>1, <2>2, <2>3
<1> QED
  BY <1>2, <1>3

LEMMA CreatedInv ==
  ASSUME Inv, pc \in Checks, NEW i \in Inc, Owns(i, arg),
         NEW t \in Nat, Created(i, t), UNCHANGED tries,
         i \notin System =>
           t = start[i] + (IF i \in Guarded THEN Epoch ELSE 0),
         i = who /\ op = "is_running" /\ was = "zombie" =>
           who \in StillActive \union Lingering
  PROVE  Inv'
<1>1. op \in {"get", "is_running"} /\ pc # "idle" /\ i # NoInc
      /\ state[i] # "unborn" /\ state[i] # "gone"
  BY WindowsAssumption DEF Inv, CallShape, Checks, Owns, Listed, Alive
<1>2. CASE op = "is_running"
  <2>1. /\ t = create_time => i = who
        /\ i = who /\ who \notin System => t = create_time
    BY <1>2, TimeTells
  <2>2. i # who => state[who] = "gone"
    BY <1>2, OwnerFacts
  <2>3. i = who => \/ was \in Alive
                   \/ was = "zombie" /\ who \in StillActive \union Lingering
    BY <1>1, <1>2 DEF Inv, HandleShape, QueryTypeOK, TypeOK, States, Listed
  <2>4. /\ seen' = i /\ UNCHANGED <<table, process, hit>>
        /\ Return(IF t = create_time THEN "true" ELSE "false")
    BY <1>2 DEF Created
  <2>5. tries' \in 0 .. Attempts - 1
    BY DEF Inv, QueryTypeOK
  <2>6. CASE t = create_time
    <3>1. Return("true")
      BY <2>4, <2>6
    <3> QED
      BY <1>1, <1>2, <2>1, <2>3, <2>4, <2>5, <2>6, <3>1, ReturnInv DEF Results,
         Queries, OnHandle
  <2>7. CASE t # create_time
    <3>1. Return("false")
      BY <2>4, <2>7
    <3> QED
      BY <1>1, <1>2, <2>1, <2>2, <2>4, <2>5, <2>7, <3>1, ReturnInv DEF Results,
         Queries, OnHandle
  <2> QED
    BY <2>6, <2>7
<1>3. CASE op = "get"
  <2> USE DEF Created, Return
  <2>1. /\ UNCHANGED <<state, start, now, btime, op, arg, was, hit, tries>>
        /\ who' = i /\ create_time' = t /\ dying' = dying
        /\ result' = "Ok" /\ pc' = "idle"
        /\ open' = NoInc /\ seen' = i
    BY <1>3 DEF table
  <2>2. hit' = NoInc /\ op' = "get"
    BY <1>1, <1>3, <2>1, NotIdle
  <2>3. QueryTypeOK' /\ PidsAreUnique'
    BY <2>1 DEF Inv, QueryTypeOK, TypeOK, TableTypeOK, PidsAreUnique, PCs,
       Results
  <2>4. CallShape'
    BY <2>1, <2>2 DEF CallShape, Checks, QueryPCs, ReadStages, Acts
  <2>5. HandleShape' /\ OpenShape' /\ ExcusedShape'
    BY <1>1, <2>1, <2>2 DEF HandleShape, OpenShape, ExcusedShape, Passed,
       HasOpen, ReadStages
  <2>6. SystemIsUp' /\ TimeShape'
    BY <2>1 DEF Inv, SystemIsUp, TimeShape
  <2>7. WhatCallsTell' /\ ActReachesHandle' /\ AnswerIsOwn'
    BY <2>1, <2>2 DEF WhatCallsTell, VerdictTells, UnreadablePebMeansExited,
       DeniedMeansForbidden, ActReachesHandle, AnswerIsOwn, Queries, OnHandle
  <2> QED
    BY <2>3, <2>4, <2>5, <2>6, <2>7 DEF Inv
<1> QED
  BY <1>1, <1>2, <1>3

LEMMA CheckFacts ==
  ASSUME Inv, pc \in Checks
  PROVE  op \in {"get", "is_running"} /\ pc # "idle"
BY DEF Inv, CallShape, Checks

(* A check goes on without a process that is open. *)
LEMMA CheckGoesOn ==
  ASSUME Inv, pc \in Checks, open' = NoInc, Goto("create"), Excused,
         UNCHANGED <<table, process, seen, hit, tries>>
  PROVE  Inv'
BY CheckFacts, GotoInv DEF Inv, QueryTypeOK, PCs, HasOpen, QueryPCs,
   ReadStages

LEMMA ExistsOpenInv ==
  ASSUME Inv, ExistsOpen, UNCHANGED tries
  PROVE  Inv'
<1>1. pc \in Checks /\ op \in {"get", "is_running"} /\ pc # "idle"
      /\ UNCHANGED <<table, process, seen, hit>>
      /\ OpenProcess("exit_code", open' = NoInc /\ Goto("create"))
  BY CheckFacts DEF ExistsOpen, Checks
<1>2. ASSUME NEW i \in Foreign, Owns(i, arg), open' = NoInc, Goto("create")
      PROVE  Inv'
  <2>1. op = "is_running" /\ i # who => state[who] = "gone"
    BY <1>1, <1>2, OwnerFacts, TableAssumption
  <2> QED
    BY <1>1, <1>2, <2>1, CheckGoesOn DEF Excused
<1>3. CASE \/ \E i \in Inc \ Foreign :
                Owns(i, arg) /\ open' = i /\ Goto("exit_code")
           \/ ~Exists(arg) /\ Return("NoSuchProcess")
  BY <1>1, <1>3, OpenInv DEF HasOpen, QueryPCs, ReadStages, Passed
<1> QED
  BY <1>1, <1>2, <1>3 DEF OpenProcess

LEMMA ExistsExitCodeInv ==
  ASSUME Inv, ExistsExitCode, UNCHANGED tries
  PROVE  Inv'
<1>1. pc \in Checks /\ op \in {"get", "is_running"} /\ pc # "idle"
      /\ UNCHANGED <<table, process, seen, hit>>
      /\ open # NoInc
  BY CheckFacts DEF ExistsExitCode, Checks, Inv, OpenShape, HasOpen
<1>2. CASE /\ state[open] \in Alive \/ open \in StillActive
           /\ open' = NoInc /\ Goto("create")
  <2>1. open \in Inc /\ Owns(open, arg)
    BY <1>1, OpenFacts
  <2>2. op = "is_running" /\ open # who => state[who] = "gone"
    BY <1>1, <2>1, OwnerFacts
  <2>3. open = who /\ op = "is_running" /\ was = "zombie" => Terminated(open)
    BY DEF Inv, HandleShape
  <2>4. Excused
    BY <1>2, <2>2, <2>3 DEF Excused, Terminated, Alive
  <2> QED
    BY <1>1, <1>2, <2>4, CheckGoesOn
<1>3. CASE UNCHANGED open /\ Goto("enum")
  BY <1>1, <1>3, OpenFacts, GotoInv DEF Inv, QueryTypeOK, PCs, QueryPCs,
     ReadStages, Passed
<1> QED
  BY <1>2, <1>3 DEF ExistsExitCode

LEMMA ExistsEnumInv ==
  ASSUME Inv, ExistsEnum, UNCHANGED tries
  PROVE  Inv'
<1>1. pc \in Checks /\ op \in {"get", "is_running"} /\ pc # "idle"
      /\ UNCHANGED <<table, process, seen, hit>>
      /\ open # NoInc
  BY CheckFacts DEF ExistsEnum, Checks, Inv, OpenShape, HasOpen
<1>2. ASSUME NEW L \in Lists, NEW i \in L, PidOf[i] = arg, open' = NoInc,
             Goto("create")
      PROVE  Inv'
  <2>1. i \in Inc /\ Owns(i, arg) /\ (state[i] = "zombie" => i \in Lingering)
    BY <1>2 DEF Lists, Owns
  <2>2. op = "is_running" /\ i # who => state[who] = "gone"
    BY <1>1, <2>1, OwnerFacts
  <2>3. i = who /\ op = "is_running" /\ was = "zombie" => Terminated(i)
    BY DEF Inv, HandleShape
  <2>4. Excused
    BY <2>1, <2>2, <2>3 DEF Excused, Terminated
  <2> QED
    BY <1>1, <1>2, <2>4, CheckGoesOn
<1>3. CASE UNCHANGED open /\ Goto("enum")
  BY <1>1, <1>3, OpenFacts, GotoInv DEF Inv, QueryTypeOK, PCs, QueryPCs,
     ReadStages, Passed
<1>4. ASSUME NEW L \in Lists, \A i \in L : PidOf[i] # arg,
             Return("NoSuchProcess")
      PROVE  Inv'
  <2>1. op # "get" => Terminated(who)
    BY <1>1, <1>4, ListFacts
  <2> QED
    BY <1>1, <1>4, <2>1, NobodyInv
<1> QED
  BY <1>2, <1>3, <1>4 DEF ExistsEnum

LEMMA CreateOpenInv ==
  ASSUME Inv, CreateOpen, UNCHANGED tries
  PROVE  Inv'
<1>1. pc \in Checks /\ op \in {"get", "is_running"} /\ pc # "idle"
  BY CheckFacts DEF CreateOpen, Checks
<1>2. ASSUME NEW i \in System, PidOf[i] = arg, Created(i, now + btime)
      PROVE  Inv'
  <2>1. i \in Inc /\ Owns(i, arg)
    BY <1>2, TableAssumption, WindowsAssumption DEF Inv, SystemIsUp, Owns,
       Listed, Alive
  <2>2. now + btime \in Nat
    BY TableAssumption DEF Inv, QueryTypeOK, TypeOK, TableTypeOK
  <2>3. ~(i = who /\ op = "is_running" /\ was = "zombie")
    BY <1>2 DEF Inv, HandleShape, SystemIsUp, Terminated
  <2> QED
    BY <1>1, <1>2, <2>1, <2>2, <2>3, CreatedInv
<1>3. CASE /\ \A i \in System : PidOf[i] # arg
           /\ OpenProcess("times", Return("AccessDenied"))
           /\ UNCHANGED <<table, process, seen, hit>>
  <2>1. CASE \/ \E i \in Inc \ Foreign :
                  Owns(i, arg) /\ open' = i /\ Goto("times")
             \/ ~Exists(arg) /\ Return("NoSuchProcess")
    <3>1. Excused
      BY DEF CreateOpen, Inv, ExcusedShape, Passed
    <3> QED
      BY <1>1, <1>3, <2>1, <3>1, OpenInv DEF HasOpen, QueryPCs, ReadStages
  <2>2. ASSUME NEW i \in Foreign, Owns(i, arg), Return("AccessDenied")
        PROVE  Inv'
    BY <1>1, <1>3, <2>2, DeniedInv
  <2> QED
    BY <1>3, <2>1, <2>2 DEF OpenProcess
<1> QED
  BY <1>2, <1>3 DEF CreateOpen

LEMMA CreateTimesInv ==
  ASSUME Inv, CreateTimes, UNCHANGED tries
  PROVE  Inv'
<1>1. /\ pc \in Checks /\ op \in {"get", "is_running"} /\ pc # "idle"
      /\ open # NoInc /\ \A i \in System : PidOf[i] # arg
  BY CheckFacts DEF CreateTimes, Checks, Inv, OpenShape, HasOpen
<1>2. open \in Inc /\ Owns(open, arg) /\ open \notin Foreign
  BY <1>1, OpenFacts
<1>5. Excused
  BY DEF CreateTimes, Inv, ExcusedShape, Passed
<1>6. open = who /\ op = "is_running" /\ was = "zombie" =>
        who \in StillActive \union Lingering
  BY <1>2, <1>5 DEF Excused, Owns, Listed, Alive
<1>3. CASE open \notin Guarded /\ Created(open, start[open])
  <2>1. start[open] \in Nat /\ start[open] = start[open] + 0
    BY <1>2 DEF Inv, QueryTypeOK, TypeOK, TableTypeOK
  <2> QED
    BY <1>1, <1>2, <1>3, <1>6, <2>1, CreatedInv
<1>4. CASE /\ open \in Guarded /\ Goto("traverse")
           /\ UNCHANGED <<table, process, open, seen, hit>>
  BY <1>1, <1>2, <1>4, <1>5, GotoInv DEF Inv, QueryTypeOK, PCs, QueryPCs,
     ReadStages
<1> QED
  BY <1>3, <1>4 DEF CreateTimes

LEMMA TraverseInv ==
  ASSUME Inv, Traverse, UNCHANGED tries
  PROVE  Inv'
<1>1. /\ pc \in Checks /\ op \in {"get", "is_running"} /\ pc # "idle"
      /\ open # NoInc /\ open \in Guarded
  BY CheckFacts DEF Traverse, Checks, Inv, OpenShape, HasOpen
<1>2. open \in Inc /\ Owns(open, arg) /\ open \notin Foreign
  BY <1>1, OpenFacts
<1>5. Excused
  BY DEF Traverse, Inv, ExcusedShape, Passed
<1>6. open = who /\ op = "is_running" /\ was = "zombie" =>
        who \in StillActive \union Lingering
  BY <1>2, <1>5 DEF Excused, Owns, Listed, Alive
<1>3. CASE Created(open, start[open] + Epoch)
  <2>1. start[open] + Epoch \in Nat
    BY <1>2, WindowsAssumption DEF Inv, QueryTypeOK, TypeOK, TableTypeOK
  <2> QED
    BY <1>1, <1>2, <1>3, <1>6, <2>1, CreatedInv
<1>4. CASE Goto("spin") /\ UNCHANGED <<table, process, open, seen, hit>>
  BY <1>1, <1>2, <1>4, GotoInv DEF Inv, QueryTypeOK, PCs, QueryPCs,
     ReadStages, HasOpen, Checks, Acts, Passed
<1> QED
  BY <1>3, <1>4 DEF Traverse

----------------------------------------------------------------------------
(* Acting on a process *)

LEMMA ActOpenInv ==
  ASSUME Inv, ActOpen, UNCHANGED tries
  PROVE  Inv'
<1>1. /\ pc # "idle" /\ op \in Acts /\ op # "none"
      /\ UNCHANGED <<table, process, seen, hit>>
  BY DEF ActOpen, Inv, CallShape, Acts
<1>2. CASE \/ \E i \in Inc \ Foreign :
                Owns(i, arg) /\ open' = i /\ Goto("act")
           \/ ~Exists(arg) /\ Return("NoSuchProcess")
  BY <1>1, <1>2, OpenInv DEF HasOpen, QueryPCs, ReadStages, Checks, Passed
<1>3. ASSUME NEW i \in Foreign, Owns(i, arg), Return("AccessDenied")
      PROVE  Inv'
  BY <1>1, <1>3, DeniedInv
<1> QED
  BY <1>2, <1>3 DEF ActOpen, OpenProcess

(* What an action does to the table: a process that has an entry keeps one. *)
LEMMA ActMoves ==
  ASSUME Inv, Act, open \in Inc, state[open] \in Listed, op \in Acts
  PROVE  /\ UNCHANGED <<start, now, btime>>
         /\ state' \in [Inc -> States]
         /\ state'[open] \in Listed
         /\ \A i \in Inc \ {open} : state'[i] = state[i]
         /\ state[open] = "zombie" => state'[open] = "zombie"
<1>1. state \in [Inc -> States] /\ UNCHANGED <<start, now, btime>>
  BY DEF Inv, QueryTypeOK, TypeOK, TableTypeOK, Act
<1>2. CASE state[open] \in Alive
  <2>1. PICK s \in Listed : state' = [state EXCEPT ![open] = s]
    BY <1>1, <1>2 DEF Act, Alive, Listed, Acts
  <2> QED
    BY <1>1, <1>2, <2>1 DEF States, Alive
<1>3. CASE state[open] = "zombie"
  BY <1>1, <1>3 DEF Act, Alive
<1> QED
  BY <1>2, <1>3 DEF Act

LEMMA ActInv ==
  ASSUME Inv, Act, UNCHANGED tries
  PROVE  Inv'
<1>1. /\ open # NoInc /\ op \in Acts /\ op \notin {"none", "get"}
      /\ op \notin Queries /\ op # "is_running"
  BY DEF Act, Inv, OpenShape, CallShape, HasOpen, Acts, Queries, OnHandle
<1>2. open \in Inc /\ Owns(open, arg) /\ open \notin Foreign
      /\ state[open] \in Listed
  BY <1>1, OpenFacts DEF Owns
<1>3. /\ who \in Inc /\ PidOf[open] = PidOf[who]
      /\ open # who => state[who] = "gone"
      /\ state[who] # "unborn"
  BY <1>1, <1>2, OwnerFacts DEF Inv, HandleShape
<1>4. /\ UNCHANGED <<start, now, btime>>
      /\ state' \in [Inc -> States]
      /\ state'[open] \in Listed
      /\ \A i \in Inc \ {open} : state'[i] = state[i]
      /\ state[open] = "zombie" => state'[open] = "zombie"
  BY <1>1, <1>2, ActMoves
<1>5. /\ UNCHANGED <<who, create_time, dying, seen, op, arg, was>>
      /\ op # "kill" /\ hit' = open /\ pc' = "idle" /\ open' = NoInc
      /\ result' \in {"Ok", "Load"}
  BY DEF Act, Return, process
<1>6. QueryTypeOK'
  BY <1>2, <1>4, <1>5 DEF Inv, QueryTypeOK, TypeOK, TableTypeOK, PCs, Results
<1>7. PidsAreUnique'
  BY <1>2, <1>4 DEF Inv, PidsAreUnique, Listed, Alive
<1>8. CallShape'
  BY <1>1, <1>2, <1>5 DEF CallShape, Checks, QueryPCs, ReadStages
<1>9. HandleShape' /\ OpenShape' /\ ExcusedShape'
  <2>1. HandleShape'
    BY <1>1, <1>2, <1>3, <1>4, <1>5 DEF Inv, HandleShape, Listed, Alive,
       Terminated
  <2>2. OpenShape' /\ ExcusedShape'
    BY <1>5 DEF OpenShape, ExcusedShape, Passed, HasOpen, ReadStages
  <2> QED
    BY <2>1, <2>2
<1>10. SystemIsUp' /\ TimeShape'
  <2>1. \A i \in System : i \in Inc /\ i # open
    BY <1>2, TableAssumption, WindowsAssumption
  <2> QED
    BY <1>2, <1>4, <1>5, <2>1 DEF Inv, SystemIsUp, TimeShape, Listed, Alive
<1>11. WhatCallsTell' /\ AnswerIsOwn'
  BY <1>1, <1>5 DEF WhatCallsTell, VerdictTells, UnreadablePebMeansExited,
     DeniedMeansForbidden, AnswerIsOwn
<1>12. ActReachesHandle'
  BY <1>1, <1>2, <1>3, <1>4, <1>5 DEF ActReachesHandle
<1> QED
  BY <1>6, <1>7, <1>8, <1>9, <1>10, <1>11, <1>12 DEF Inv

(* TerminateProcess leaves the table as it is. *)
LEMMA TerminateInv ==
  ASSUME Inv, Terminate, UNCHANGED tries
  PROVE  Inv'
<1>1. /\ open # NoInc /\ op = "kill" /\ pc # "idle"
      /\ op \notin Queries /\ op \in Acts
  BY DEF Terminate, Inv, OpenShape, HasOpen, Acts, Queries, OnHandle
<1>2. open \in Inc /\ Owns(open, arg)
  BY <1>1, OpenFacts
<1>3. PidOf[open] = PidOf[who] /\ (open # who => state[who] = "gone")
  BY <1>1, <1>2, OwnerFacts
<1>4. /\ UNCHANGED <<state, start, now, btime, who, create_time, seen, op,
                     arg, was>>
      /\ hit' = open /\ pc' = "idle" /\ open' = NoInc /\ result' = "Ok"
      /\ dying' = dying \union {i \in {open} \ Shielded : state[i] \in Alive}
  BY DEF Terminate, Return, table
<1>5. Terminated(open) \/ open \in dying' \/ open \in Shielded
  BY <1>2, <1>4 DEF Owns, Listed, Terminated
<1>6. dying' \subseteq Inc
  BY <1>2, <1>4 DEF Inv, QueryTypeOK, TypeOK
<1>7. QueryTypeOK' /\ PidsAreUnique'
  BY <1>2, <1>4, <1>6 DEF Inv, QueryTypeOK, TypeOK, TableTypeOK, PidsAreUnique,
     PCs, Results
<1>8. CallShape'
  BY <1>1, <1>4 DEF CallShape, Checks, QueryPCs, ReadStages
<1>9. HandleShape' /\ OpenShape' /\ ExcusedShape'
  BY <1>4 DEF Inv, HandleShape, OpenShape, ExcusedShape, Passed, HasOpen,
     ReadStages, Terminated
<1>10. SystemIsUp' /\ TimeShape'
  BY <1>4 DEF Inv, SystemIsUp, TimeShape
<1>11. WhatCallsTell' /\ AnswerIsOwn'
  BY <1>1, <1>4 DEF WhatCallsTell, VerdictTells, UnreadablePebMeansExited,
     DeniedMeansForbidden, AnswerIsOwn
<1>12. ActReachesHandle'
  BY <1>3, <1>4, <1>5 DEF ActReachesHandle, Terminated
<1> QED
  BY <1>7, <1>8, <1>9, <1>10, <1>11, <1>12 DEF Inv

(* A system call fails for another reason. *)
LEMMA FailureInv ==
  ASSUME Inv, LoadError, tries' = 0
  PROVE  Inv'
BY ReturnInv DEF LoadError, Results, Inv, QueryTypeOK, TypeOK, Attempts

----------------------------------------------------------------------------
(* The questions *)

LEMMA QueryFacts ==
  ASSUME Inv, pc \in QueryPCs
  PROVE  /\ op \in Queries /\ pc # "idle" /\ op \notin {"none", "get"}
         /\ op \notin Acts /\ op # "is_running"
         /\ tries \in 0 .. Attempts - 1
         /\ who \in Inc /\ arg = PidOf[who] /\ state[who] # "unborn"
BY DEF Inv, CallShape, HandleShape, QueryTypeOK, TypeOK, QueryPCs, ReadStages,
   Queries, OnHandle, Acts

(* A question goes on with or without what is open. *)
LEMMA QueryGoesOn ==
  ASSUME Inv, pc \in QueryPCs, NEW l \in QueryPCs \union {"spin"}, Goto(l),
         \/ UNCHANGED open
         \/ open' = NoInc
         \/ \E i \in Inc \ Foreign : Owns(i, arg) /\ open' = i,
         l \in HasOpen => open' # NoInc,
         l = "wow64" /\ open' \in Wow64 => state[open'] = "zombie",
         tries' \in 0 .. Attempts - 1,
         UNCHANGED <<table, process, hit, seen>>
  PROVE  Inv'
<1>1. /\ l \in PCs \ {"idle"} /\ l \notin Checks /\ l \notin {"open", "act"}
      /\ l \notin Passed
  BY DEF PCs, QueryPCs, ReadStages, Checks, Passed
<1>2. /\ open' \in Inc \union {NoInc}
      /\ open' # NoInc => open' \notin Foreign /\ Owns(open', arg)
  BY OpenFacts DEF Inv, QueryTypeOK, TypeOK
<1>3. op \in Queries /\ pc # "idle" /\ op \notin Acts
  BY QueryFacts
<1> QED
  BY <1>1, <1>2, <1>3, GotoInv DEF Checks

LEMMA QueryOpenInv ==
  ASSUME Inv, QueryOpen
  PROVE  Inv'
<1>1. pc \in QueryPCs /\ UNCHANGED <<table, process, hit, seen, tries>>
  BY DEF QueryOpen, QueryPCs, Stay
<1>2. /\ op \in Queries /\ pc # "idle" /\ op # "none"
      /\ who \in Inc /\ arg = PidOf[who] /\ state[who] # "unborn"
  BY <1>1, QueryFacts
<1>3. CASE who \in RefusedFor(op) /\ Return("AccessDenied")
  <2>1. who \in System
    BY <1>3, QueryAssumption DEF RefusedFor
  <2>2. who \in Foreign /\ Owns(who, arg)
    BY <1>2, <2>1, WindowsAssumption DEF Inv, SystemIsUp, Owns, Listed, Alive
  <2> QED
    BY <1>1, <1>2, <1>3, <2>2, DeniedInv
<1>4. ASSUME NEW l \in {"peb32_addr", "query"},
             OpenProcess(l, Return("AccessDenied"))
      PROVE  Inv'
  <2>1. CASE \/ \E i \in Inc \ Foreign :
                  Owns(i, arg) /\ open' = i /\ Goto(l)
             \/ ~Exists(arg) /\ Return("NoSuchProcess")
    BY <1>1, <1>2, <1>4, <2>1, OpenInv DEF HasOpen, Checks, Passed
  <2>2. ASSUME NEW i \in Foreign, Owns(i, arg), Return("AccessDenied")
        PROVE  Inv'
    BY <1>1, <1>2, <2>2, DeniedInv
  <2> QED
    BY <1>4, <2>1, <2>2 DEF OpenProcess
<1>5. CASE op = "cwd" /\ OpenProcess("peb32_addr", Return("AccessDenied"))
  BY <1>4, <1>5
<1>6. CASE op # "cwd" /\ OpenProcess("query", Return("AccessDenied"))
  BY <1>4, <1>6
<1>7. \/ who \in RefusedFor(op) /\ Return("AccessDenied")
      \/ OpenProcess(IF op = "cwd" THEN "peb32_addr" ELSE "query",
                     Return("AccessDenied"))
  BY DEF QueryOpen
<1> QED
  BY <1>3, <1>5, <1>6, <1>7

(* A process from a list of all of them has the pid at that moment. *)
LEMMA ListedOwns ==
  ASSUME NEW i \in UNION Lists, PidOf[i] = arg
  PROVE  i \in Inc /\ Owns(i, arg)
BY DEF Lists, Owns

LEMMA HandleQueryInv ==
  ASSUME Inv, HandleQuery
  PROVE  Inv'
<1>1. pc \in QueryPCs /\ open # NoInc
  BY DEF HandleQuery, QueryPCs, Inv, OpenShape, HasOpen
<1> QED
  BY <1>1, OpenFacts, AnswerInv DEF HandleQuery

LEMMA NameOpenInv ==
  ASSUME Inv, NameOpen
  PROVE  Inv'
<1>1. pc \in QueryPCs /\ tries \in 0 .. Attempts - 1
  BY DEF NameOpen, QueryPCs, Inv, QueryTypeOK
<1>2. CASE who \in System /\ Answer(who)
  <2>1. who \in Inc /\ Owns(who, arg)
    BY <1>1, <1>2, QueryFacts DEF Inv, SystemIsUp, Owns, Listed, Alive
  <2> QED
    BY <1>1, <1>2, <2>1, AnswerInv
<1>3. ASSUME NEW i \in Inc \ Foreign, Owns(i, arg), open' = i,
             Goto("name_exe"), UNCHANGED seen, Stay
      PROVE  Inv'
  BY <1>1, <1>3, WindowsAssumption, QueryGoesOn DEF Stay, QueryPCs
<1>4. CASE Goto("snapshot") /\ UNCHANGED open /\ UNCHANGED seen /\ Stay
  BY <1>1, <1>4, QueryGoesOn DEF Stay, QueryPCs, HasOpen, ReadStages
<1> QED
  BY <1>2, <1>3, <1>4 DEF NameOpen

LEMMA NameExeInv ==
  ASSUME Inv, NameExe
  PROVE  Inv'
<1>1. pc \in QueryPCs /\ tries \in 0 .. Attempts - 1 /\ open # NoInc
  BY DEF NameExe, QueryPCs, Inv, QueryTypeOK, OpenShape, HasOpen
<1>2. CASE Answer(open)
  BY <1>1, <1>2, OpenFacts, AnswerInv
<1>3. CASE open' = NoInc /\ Goto("snapshot") /\ UNCHANGED seen /\ Stay
  BY <1>1, <1>3, QueryGoesOn DEF Stay, QueryPCs, HasOpen, ReadStages
<1> QED
  BY <1>2, <1>3 DEF NameExe

LEMMA SnapshotFindInv ==
  ASSUME Inv, SnapshotFind
  PROVE  Inv'
<1>1. pc \in QueryPCs /\ tries \in 0 .. Attempts - 1
  BY DEF SnapshotFind, QueryPCs, Inv, QueryTypeOK
<1>2. ASSUME NEW i \in UNION Lists, PidOf[i] = arg, Answer(i) PROVE Inv'
  BY <1>1, <1>2, ListedOwns, AnswerInv
<1>3. ASSUME NEW L \in Lists, \A i \in L : PidOf[i] # arg,
             Return("NoSuchProcess"), UNCHANGED seen, Stay
      PROVE  Inv'
  <2>1. Terminated(who) /\ pc # "idle"
    BY <1>1, <1>3, QueryFacts, ListFacts
  <2> QED
    BY <1>3, <2>1, NobodyInv DEF Stay
<1>4. CASE Goto("spin") /\ UNCHANGED <<open, seen>> /\ Stay
  BY <1>1, <1>4, QueryGoesOn DEF Stay, HasOpen, ReadStages
<1> QED
  BY <1>2, <1>3, <1>4 DEF SnapshotFind

LEMMA StatusInv ==
  ASSUME Inv, Status
  PROVE  Inv'
<1>1. pc \in QueryPCs /\ tries \in 0 .. Attempts - 1
  BY DEF Status, QueryPCs, Inv, QueryTypeOK
<1>2. ASSUME NEW i \in UNION Lists, PidOf[i] = arg, Answer(i) PROVE Inv'
  BY <1>1, <1>2, ListedOwns, AnswerInv
<1>3. CASE Goto("spin") /\ UNCHANGED <<open, seen>> /\ Stay
  BY <1>1, <1>3, QueryGoesOn DEF Stay, HasOpen, ReadStages
<1> QED
  BY <1>2, <1>3 DEF Status

LEMMA Peb32AddressInv ==
  ASSUME Inv, Peb32Address
  PROVE  Inv'
<1>1. pc \in QueryPCs /\ tries \in 0 .. Attempts - 1 /\ open # NoInc
  BY DEF Peb32Address, QueryPCs, Inv, QueryTypeOK, OpenShape, HasOpen
<1>2. CASE Goto("peb32") /\ UNCHANGED <<open, seen>> /\ Stay
  BY <1>1, <1>2, QueryGoesOn DEF Stay, QueryPCs, ReadStages
<1>3. CASE /\ open \in Wow64 => state[open] = "zombie"
           /\ Goto("wow64") /\ UNCHANGED <<open, seen>> /\ Stay
  BY <1>1, <1>3, QueryGoesOn DEF Stay, QueryPCs
<1> QED
  BY <1>2, <1>3 DEF Peb32Address

LEMMA IsWow64Inv ==
  ASSUME Inv, IsWow64
  PROVE  Inv'
<1>1. /\ pc \in QueryPCs /\ tries \in 0 .. Attempts - 1 /\ open # NoInc
      /\ open \in Wow64 => state[open] = "zombie"
  BY DEF IsWow64, QueryPCs, Inv, QueryTypeOK, OpenShape, HasOpen
<1>2. CASE open \in Wow64 /\ seen' = open /\ Return("UnreadablePeb") /\ Stay
  <2>1. open \in Inc /\ Owns(open, arg) /\ Terminated(open)
    BY <1>1, <1>2, OpenFacts DEF Terminated
  <2>2. op \notin {"none", "get"} /\ pc # "idle"
    BY <1>1, QueryFacts
  <2>3. PidOf[open] = PidOf[who] /\ (open # who => state[who] = "gone")
    BY <2>1, <2>2, OwnerFacts
  <2> QED
    BY <1>1, <1>2, <2>1, <2>2, <2>3, ReturnInv DEF Stay, Results, Terminated
<1>3. CASE Goto("peb") /\ UNCHANGED <<open, seen>> /\ Stay
  BY <1>1, <1>3, QueryGoesOn DEF Stay, QueryPCs, ReadStages
<1> QED
  BY <1>2, <1>3 DEF IsWow64

LEMMA PartialCopyInv ==
  ASSUME Inv, PartialCopy
  PROVE  Inv'
<1>1. /\ pc \in QueryPCs /\ pc \in ReadStages /\ pc # "wow64" /\ open # NoInc
      /\ tries \in 0 .. 4 /\ Attempts = 5
      /\ UNCHANGED <<table, process, hit, seen>>
  BY DEF PartialCopy, QueryPCs, Inv, QueryTypeOK, OpenShape, HasOpen,
     ReadStages, Attempts
<1>2. CASE tries < 4 /\ tries' = tries + 1 /\ Goto(pc) /\ UNCHANGED open
  <2>1. tries' \in 0 .. Attempts - 1
    BY <1>1, <1>2
  <2> QED
    BY <1>1, <1>2, <2>1, QueryGoesOn
<1>3. CASE tries' = 0 /\ Return("Load")
  <2>1. /\ pc # "idle" /\ op # "get" /\ tries' \in 0 .. Attempts - 1
        /\ seen' \in Inc \union {NoInc}
    BY <1>1, <1>3, QueryFacts DEF Inv, QueryTypeOK, TypeOK
  <2> QED
    BY <1>1, <1>3, <2>1, ReturnInv DEF Results
<1> QED
  BY <1>1, <1>2, <1>3 DEF PartialCopy

LEMMA ReadMemoryInv ==
  ASSUME Inv, ReadMemory
  PROVE  Inv'
<1>1. /\ pc \in QueryPCs /\ pc \in ReadStages /\ open # NoInc
      /\ tries' \in 0 .. Attempts - 1
      /\ UNCHANGED <<table, process, hit>>
  BY DEF ReadMemory, QueryPCs, Inv, OpenShape, HasOpen, Attempts
<1>2. CASE pc # "path" /\ Goto(Follows[pc]) /\ UNCHANGED <<open, seen>>
  <2>1. Follows[pc] \in {"params32", "params", "path"}
    BY <1>1, <1>2 DEF Follows, ReadStages
  <2> QED
    BY <1>1, <1>2, <2>1, QueryGoesOn DEF QueryPCs, ReadStages
<1>3. CASE seen' = open /\ Return("Ok")
  <2>1. /\ pc # "idle" /\ op \notin {"none", "get", "is_running", "kill"}
    BY <1>1, QueryFacts DEF Acts
  <2>2. open \in Inc /\ Owns(open, arg)
    BY <1>1, OpenFacts
  <2>3. PidOf[open] = PidOf[who] /\ (open # who => state[who] = "gone")
    BY <2>1, <2>2, OwnerFacts
  <2> QED
    BY <1>1, <1>3, <2>1, <2>2, <2>3, ReturnInv DEF Results
<1> QED
  BY <1>2, <1>3 DEF ReadMemory

----------------------------------------------------------------------------
LEMMA InvokeInv ==
  ASSUME Inv, Invoke, UNCHANGED tries
  PROVE  Inv'
<1>1. tries' \in 0 .. Attempts - 1
  BY DEF Inv, QueryTypeOK
<1>2. who # NoInc => PidOf[who] \in Pid
  BY TableAssumption DEF Inv, QueryTypeOK, TypeOK
<1>3. ASSUME NEW p \in Pid, get(p) PROVE Inv'
  BY <1>1, <1>3, CallInv DEF get, Ops, PCs, HasOpen, Checks, QueryPCs,
     ReadStages, Passed
<1>4. CASE is_running
  BY <1>1, <1>2, <1>4, CallInv DEF is_running, Ops, PCs, HasOpen, Checks,
     QueryPCs, ReadStages, Passed
<1>5. ASSUME NEW m \in Acts, act(m) PROVE Inv'
  <2>1. m \in Ops \ {"none"} /\ m # "get"
    BY DEF Ops, Acts
  <2> QED
    BY <1>1, <1>2, <1>5, <2>1, CallInv DEF act, PCs, HasOpen, Checks, QueryPCs,
       ReadStages, Passed
<1> QED
  BY <1>3, <1>4, <1>5 DEF Invoke

LEMMA AskInv ==
  ASSUME Inv, NEW m \in Queries, ask(m)
  PROVE  Inv'
<1>1. tries' \in 0 .. Attempts - 1
  BY DEF ask, Inv, QueryTypeOK
<1>2. who # NoInc /\ PidOf[who] \in Pid
  BY TableAssumption DEF ask, Inv, QueryTypeOK, TypeOK
<1>3. m \in Ops \ {"none"} /\ m # "get"
  BY DEF Ops, Queries, OnHandle
<1>4. StartOf(m) \in {"name_open", "snapshot", "status", "query_open"}
  BY DEF StartOf
<1>5. /\ StartOf(m) \in PCs \ {"idle"} /\ StartOf(m) \in QueryPCs
      /\ StartOf(m) \notin HasOpen \union {"spin"}
      /\ StartOf(m) \notin Checks /\ StartOf(m) # "open"
      /\ StartOf(m) \notin Passed
  BY <1>4 DEF PCs, QueryPCs, HasOpen, ReadStages, Checks, Passed
<1> QED
  BY <1>1, <1>2, <1>3, <1>5, CallInv DEF ask

LEMMA StutterInv ==
  ASSUME Inv, UNCHANGED allvars
  PROVE  Inv'
<1> USE DEF allvars, vars, table, process, call
<1>1. QueryTypeOK' /\ PidsAreUnique' /\ CallShape'
  BY DEF Inv, QueryTypeOK, TypeOK, TableTypeOK, PidsAreUnique, CallShape
<1>2. HandleShape' /\ OpenShape' /\ SystemIsUp' /\ TimeShape' /\ ExcusedShape'
  BY DEF Inv, HandleShape, OpenShape, SystemIsUp, TimeShape, ExcusedShape,
     Excused, Terminated
<1>3. WhatCallsTell' /\ ActReachesHandle' /\ AnswerIsOwn'
  BY DEF Inv, WhatCallsTell, VerdictTells, UnreadablePebMeansExited,
     DeniedMeansForbidden, ActReachesHandle, AnswerIsOwn, Terminated
<1> QED
  BY <1>1, <1>2, <1>3 DEF Inv

LEMMA StepInv ==
  ASSUME Inv, [QueryNext]_allvars
  PROVE  Inv'
<1>1. CASE Environment /\ UNCHANGED tries
  BY <1>1, EnvironmentInv
<1>2. CASE Invoke /\ UNCHANGED tries
  BY <1>2, InvokeInv
<1>3. CASE Resume /\ UNCHANGED tries
  <2>1. CASE ExistsOpen \/ ExistsExitCode \/ ExistsEnum
    BY <1>3, <2>1, ExistsOpenInv, ExistsExitCodeInv, ExistsEnumInv
  <2>2. CASE CreateOpen \/ CreateTimes \/ Traverse
    BY <1>3, <2>2, CreateOpenInv, CreateTimesInv, TraverseInv
  <2>3. CASE Spin
    BY <1>3, <2>3, StutterInv DEF Spin, allvars
  <2>4. CASE ActOpen \/ Act \/ Terminate
    BY <1>3, <2>4, ActOpenInv, ActInv, TerminateInv
  <2> QED
    BY <1>3, <2>1, <2>2, <2>3, <2>4 DEF Resume
<1>4. CASE Failure
  BY <1>4, FailureInv DEF Failure
<1>5. ASSUME NEW m \in Queries, ask(m) PROVE Inv'
  BY <1>5, AskInv
<1>6. CASE QueryStep
  BY <1>6, QueryOpenInv, HandleQueryInv, NameOpenInv, NameExeInv,
     SnapshotFindInv, StatusInv, Peb32AddressInv, IsWow64Inv, PartialCopyInv,
     ReadMemoryInv DEF QueryStep
<1>7. CASE UNCHANGED allvars
  BY <1>7, StutterInv
<1> QED
  BY <1>1, <1>2, <1>3, <1>4, <1>5, <1>6, <1>7 DEF QueryNext

----------------------------------------------------------------------------
(* The invariant holds in every reachable state. *)
THEOREM Invariance == QuerySpec => []Inv
BY InitInv, StepInv, PTL DEF QuerySpec

(* Every call of a Process on Windows ends in one of the answers and       *)
(* errors of the code, no handle stays open behind it, and read_memory     *)
(* counts no more attempts than it may make.                               *)
THEOREM TypeCorrectness == QuerySpec => []QueryTypeOK
<1>1. Inv => QueryTypeOK
  BY DEF Inv
<1> QED
  BY <1>1, Invariance, PTL

(* What is_running, NoSuchProcess, AccessDenied and UnreadablePeb tell of  *)
(* the process, for any number of processes that share pids and creation   *)
(* times from two clocks: in particular, exactly which exited processes    *)
(* is_running can call running.                                            *)
THEOREM CallsTellThisMuch == QuerySpec => []WhatCallsTell
<1>1. Inv => WhatCallsTell
  BY DEF Inv
<1> QED
  BY <1>1, Invariance, PTL

(* suspend, resume, kill and set_priority reach the process of the handle  *)
(* or, if that is gone, the next owner of its pid; after a kill that says  *)
(* Ok it has exited, its end was initiated, or it may not be ended at all. *)
THEOREM ActsReachTheirProcess == QuerySpec => []ActReachesHandle
<1>1. Inv => ActReachesHandle
  BY DEF Inv
<1> QED
  BY <1>1, Invariance, PTL

(* Every answer is about the process of the handle or, if that is gone,    *)
(* about the next owner of its pid, although name and parent_pid look the  *)
(* pid up a second time in a snapshot.                                     *)
THEOREM AnswersAreOwn == QuerySpec => []AnswerIsOwn
<1>1. Inv => AnswerIsOwn
  BY DEF Inv
<1> QED
  BY <1>1, Invariance, PTL

----------------------------------------------------------------------------
(* How many reads of foreign memory a call of cwd may still make: five     *)
(* attempts for the PEB, the parameters and the path, one after the other. *)
Stage == CASE pc \in {"peb32", "peb"} -> 3
           [] pc \in {"params32", "params"} -> 2
           [] OTHER -> 1

ReadsLeft == Attempts * Stage - tries

Reading == pc \in ReadStages

ReadsOn == \/ pc' = "idle"
           \/ pc' \in ReadStages /\ ReadsLeft' < ReadsLeft
           \/ UNCHANGED <<pc, tries>>

LEMMA StepReads == Inv /\ [QueryNext]_allvars => [Reading => ReadsOn]_allvars
<1> SUFFICES ASSUME Inv, QueryNext, pc \in ReadStages PROVE ReadsOn
  BY DEF Reading
<1>1. pc \notin {"idle", "exists", "exit_code", "enum", "create", "times", "traverse",
               "spin", "open", "act", "query_open", "query", "name_open", "name_exe",
               "snapshot", "status", "peb32_addr", "wow64"}
  BY DEF ReadStages
<1>2. CASE Environment /\ UNCHANGED tries
  BY <1>2 DEF Environment, call, ReadsOn
<1>3. ~Invoke /\ ~Resume /\ \A m \in Queries : ~ask(m)
  BY <1>1 DEF Invoke, get, is_running, act, ask, Call, Resume, ExistsOpen, ExistsExitCode,
     ExistsEnum, CreateOpen, CreateTimes, Traverse, Spin, ActOpen, Act,
     Terminate
<1>4. CASE Failure
  BY <1>4 DEF Failure, LoadError, Return, ReadsOn
<1>5. CASE PartialCopy
  <2>1. tries \in 0 .. 4 /\ Attempts = 5
    BY DEF Inv, QueryTypeOK, Attempts
  <2>2. CASE tries < Attempts - 1 /\ tries' = tries + 1 /\ Goto(pc)
    <3>1. pc' = pc /\ Stage \in 1 .. 3 /\ Stage' = Stage
      BY <2>2 DEF Goto, Stage
    <3> QED
      BY <2>1, <2>2, <3>1 DEF ReadsOn, ReadsLeft, Attempts
  <2> QED
    BY <1>5, <2>2 DEF PartialCopy, Return, ReadsOn
<1>6. CASE ReadMemory
  <2>1. tries \in 0 .. 4
    BY DEF Inv, QueryTypeOK, Attempts
  <2>2. CASE pc # "path" /\ Goto(Follows[pc]) /\ tries' = 0
    <3>1. pc' \in ReadStages /\ Stage \in 2 .. 3 /\ Stage' = Stage - 1
      BY <2>2 DEF Goto, Follows, Stage, ReadStages
    <3> QED
      BY <2>1, <2>2, <3>1 DEF ReadsOn, ReadsLeft, Attempts
  <2> QED
    BY <1>6, <2>2 DEF ReadMemory, Return, ReadsOn
<1>7. CASE QueryStep
  BY <1>1, <1>5, <1>6, <1>7 DEF QueryStep, QueryOpen, HandleQuery, NameOpen, NameExe,
     SnapshotFind, Status, Peb32Address, IsWow64
<1> QED
  BY <1>2, <1>3, <1>4, <1>7 DEF QueryNext

(* The bound behind CwdReturns: cwd reads the memory of the other process  *)
(* at most fifteen times.  Each step of a call that reads returns, or      *)
(* leaves fewer of the reads to be made, whatever the process does in      *)
(* between and however often ERROR_PARTIAL_COPY comes.                     *)
THEOREM ReadsAreBounded ==
  QuerySpec => [](ReadsLeft \in 1 .. 15) /\ [][Reading => ReadsOn]_allvars
<1>1. Inv => ReadsLeft \in 1 .. 15
  <2> SUFFICES ASSUME Inv PROVE ReadsLeft \in 1 .. 15
    OBVIOUS
  <2>1. tries \in 0 .. 4 /\ Stage \in 1 .. 3
    BY DEF Inv, QueryTypeOK, Attempts, Stage
  <2> QED
    BY <2>1 DEF ReadsLeft, Attempts
<1> QED
  BY <1>1, Invariance, StepReads, PTL DEF QuerySpec

============================================================================
