------------------------ MODULE LinuxProcessProofs ------------------------
(***************************************************************************)
(* Proofs about LinuxProcess, for any set of processes, pids and tasks.    *)
(***************************************************************************)
EXTENDS LinuxProcess, ProcTableProofs

(* What a step does to one task leaves the others alone, and a step of the *)
(* program reaches the process table only through kill and waitpid.        *)
TaskStep(t) == Invoke(t) \/ Resume(t) \/ IoError(t) \/ Drop(t)

----------------------------------------------------------------------------
(* The inductive invariant *)

(* The place where a call is suspended goes with the method called. *)
CallShape ==
  \A t \in Task :
    /\ pc[t] = "kill" => op[t] \in Signals
    /\ pc[t] \in Waiting => op[t] = "wait"
    /\ pc[t] \in {"open", "read", "btime"} =>
         op[t] \in {"get", "is_running"} \union Signals
    /\ result[t] \in {"true", "false"} => op[t] = "is_running"

(* A method of a handle looks up the pid of the process that the handle   *)
(* was made for.                                                          *)
HandleShape ==
  \A t \in Task :
    /\ HasHandle(t) => pid[t] = PidOf[who[t]] /\ state[who[t]] # "unborn"
    /\ op[t] \notin {"none", "get"} => HasHandle(t) /\ arg[t] = pid[t]

(* The file a call has opened is that of a process with the right pid, and *)
(* if it is not the handle's process then that one is gone.  It is not the *)
(* handle's if that was gone before the call.                             *)
FileShape ==
  \A t \in Task :
    /\ pc[t] \in {"read", "btime", "kill"} => fd[t] # NoInc
    /\ pc[t] = "btime" => start_time[t] = start[fd[t]]
    /\ fd[t] # NoInc => PidOf[fd[t]] = arg[t] /\ state[fd[t]] # "unborn"
    /\ op[t] \notin {"none", "get"} =>
         /\ fd[t] \notin {NoInc, who[t]} => state[who[t]] = "gone"
         /\ was[t] = "gone" => state[who[t]] = "gone" /\ fd[t] # who[t]

Inv == /\ TypeOK
       /\ PidsAreUnique
       /\ CallShape
       /\ HandleShape
       /\ FileShape
       /\ WaitOkMeansGone

(* With a clock that is never set, what the handle remembers is the start *)
(* of its process, so a passed check has seen that very process.          *)
ClockInv == /\ \A t \in Task :
                 /\ HasHandle(t) => create_time[t] = start[who[t]] + btime
                 /\ pc[t] = "kill" => fd[t] = who[t]
                 /\ pc[t] # "idle" => hit[t] = NoInc
            /\ WrongTargetOnlyByLateReuse
            /\ ReuseIsRefused
            /\ VerdictIsTrue

----------------------------------------------------------------------------
(* Type correctness *)

LEMMA TypeInit == Init => TypeOK
BY TableAssumption, TaskAssumption DEF Init, TableInit, TypeOK, TableTypeOK,
   PCs, Ops, Results, Waiting, States, Listed, Alive, Signals

LEMMA TypeEnvironment == TypeOK /\ Environment => TypeOK'
<1> SUFFICES ASSUME TypeOK, Environment PROVE TypeOK'
  OBVIOUS
<1> USE TableAssumption DEF Environment, TypeOK, TableTypeOK, handle, call
<1>1. CASE Tick
  BY <1>1 DEF Tick
<1>2. CASE ClockStep
  BY <1>2 DEF ClockStep
<1>3. ASSUME NEW i \in Inc, Spawn(i) PROVE TypeOK'
  BY <1>3 DEF Spawn, States, Listed, Alive
<1>4. ASSUME NEW i \in Inc, Exit(i) PROVE TypeOK'
  BY <1>4 DEF Exit, States, Listed
<1>5. ASSUME NEW i \in Inc, Reap(i) PROVE TypeOK'
  BY <1>5 DEF Reap, States
<1> QED
  BY <1>1, <1>2, <1>3, <1>4, <1>5 DEF TableNext

LEMMA TypeInvoke ==
  ASSUME TypeOK, NEW t \in Task, Invoke(t)
  PROVE  TypeOK'
<1> USE TaskAssumption DEF TypeOK, TableTypeOK, table, handle, call
<1>1. ASSUME NEW m \in Ops, NEW l \in PCs, NEW p \in Pid \union {NoPid},
             Call(t, m, l, p)
      PROVE  TypeOK'
  BY <1>1 DEF Call, Results, States
<1>2. ASSUME NEW p \in Pid, get(t, p) PROVE TypeOK'
  BY <1>1, <1>2 DEF get, Ops, PCs
<1>3. CASE is_running(t)
  BY <1>1, <1>3 DEF is_running, Ops, PCs
<1>4. ASSUME NEW s \in Sent, signal(t, s) PROVE TypeOK'
  BY <1>1, <1>4 DEF signal, Ops, PCs
<1>5. CASE wait(t)
  BY <1>1, <1>5 DEF wait, Ops, PCs, Waiting
<1>6. CASE set_niceness(t)
  BY <1>6 DEF set_niceness, Ops, Results, HasHandle, Owns
<1> QED
  BY <1>2, <1>3, <1>4, <1>5, <1>6 DEF Invoke

LEMMA TypeResume ==
  ASSUME TypeOK, CallShape, FileShape, NEW t \in Task,
         Resume(t) \/ IoError(t) \/ Drop(t)
  PROVE  TypeOK'
<1> USE TableAssumption DEF TypeOK, TableTypeOK, table, handle, call
<1>1. ASSUME NEW r \in Results, Return(t, r)
      PROVE  /\ pc' \in [Task -> PCs] /\ result' \in [Task -> Results]
             /\ UNCHANGED <<op, arg, was>>
  BY <1>1 DEF Return, PCs
<1>2. ASSUME NEW l \in PCs, Goto(t, l)
      PROVE  pc' \in [Task -> PCs] /\ UNCHANGED <<op, arg, was, result>>
  BY <1>2 DEF Goto
<1>3. {"Ok", "true", "false", "NoSuchProcess", "AccessDenied", "Load",
       "dropped"} \subseteq Results
  BY DEF Results
<1>4. {"read", "btime", "kill", "poll"} \subseteq PCs
  BY DEF PCs, Waiting
<1>5. CASE StatOpen(t)
  <2>1. ASSUME NEW i \in Inc, fd' = [fd EXCEPT ![t] = i], Goto(t, "read")
        PROVE  TypeOK'
    BY <1>2, <1>4, <1>5, <2>1 DEF StatOpen
  <2>2. CASE Return(t, "NoSuchProcess") /\ UNCHANGED fd
    BY <1>1, <1>3, <1>5, <2>2 DEF StatOpen
  <2> QED
    BY <1>5, <2>1, <2>2 DEF StatOpen
<1>6. CASE StatRead(t)
  <2>1. fd[t] \in Inc
    BY <1>6 DEF StatRead, FileShape
  <2> QED
    BY <1>1, <1>2, <1>3, <1>4, <1>6, <2>1 DEF StatRead
<1>7. CASE GetDone(t)
  BY <1>1, <1>3, <1>7 DEF GetDone, StatCreateTime
<1>8. CASE IsRunningDone(t)
  BY <1>1, <1>3, <1>8 DEF IsRunningDone
<1>9. CASE SignalChecked(t)
  BY <1>1, <1>2, <1>3, <1>4, <1>9 DEF SignalChecked
<1>10. CASE pid_kill(t)
  <2>1. ASSUME NEW i \in Inc \ Foreign, Owns(i, arg[t]), Deliver(op[t], i),
               hit' = [hit EXCEPT ![t] = i], Return(t, "Ok")
        PROVE  TypeOK'
    <3>1. op[t] \in Signals /\ state[i] \in Listed
      BY <1>10, <2>1 DEF pid_kill, CallShape, Owns
    <3>2. Effect(op[t], state[i]) \subseteq States
      BY <3>1, EffectFacts DEF States
    <3> QED
      BY <1>1, <1>3, <1>10, <2>1, <3>2 DEF pid_kill, Deliver
  <2>2. CASE UNCHANGED <<table, hit>> /\
             (Return(t, "AccessDenied") \/ Return(t, "NoSuchProcess"))
    BY <1>1, <1>3, <1>10, <2>2 DEF pid_kill
  <2> QED
    BY <1>10, <2>1, <2>2 DEF pid_kill
<1>11. CASE WaitReaped(t)
  BY <1>1, <1>3, <1>11 DEF WaitReaped, Reap, States
<1>12. CASE WaitFailed(t)
  BY <1>2, <1>4, <1>12 DEF WaitFailed
<1>13. CASE PollGone(t) \/ IoError(t) \/ Drop(t)
  BY <1>1, <1>3, <1>13 DEF PollGone, IoError, Drop
<1> QED
  BY <1>5, <1>6, <1>7, <1>8, <1>9, <1>10, <1>11, <1>12, <1>13
     DEF Resume, StatStep, WaitStep

----------------------------------------------------------------------------
(* The process table *)

(* Of all the steps of the program, pid_kill and WaitReaped alone touch    *)
(* the table.                                                              *)
LEMMA TaskTable ==
  ASSUME TypeOK, CallShape, NEW t \in Task, TaskStep(t)
  PROVE  \/ UNCHANGED table
         \/ \E i \in Inc, m \in Signals : state[i] \in Listed /\ Deliver(m, i)
         \/ \E i \in Inc : Reap(i)
<1>1. CASE pid_kill(t)
  BY <1>1 DEF pid_kill, Owns, CallShape
<1>2. CASE WaitReaped(t)
  BY <1>2, TableAssumption DEF WaitReaped
<1>3. CASE Invoke(t)
  BY <1>3 DEF Invoke, get, is_running, signal, wait, set_niceness, Call
<1>4. CASE StatStep(t) \/ WaitFailed(t) \/ PollGone(t) \/ IoError(t) \/ Drop(t)
  BY <1>4 DEF StatStep, StatOpen, StatRead, GetDone, IsRunningDone,
     SignalChecked, WaitFailed, PollGone, IoError, Drop
<1> QED
  BY <1>1, <1>2, <1>3, <1>4 DEF TaskStep, Resume, WaitStep

LEMMA TableStep ==
  ASSUME TypeOK, CallShape, PidsAreUnique, Next
  PROVE  Forward /\ PidsAreUnique'
<1>1. TableInv
  BY DEF TableInv, TypeOK
<1>2. CASE Environment
  BY <1>1, <1>2, TableNextInv DEF Environment, TableInv
<1>3. ASSUME NEW t \in Task, TaskStep(t) PROVE Forward /\ PidsAreUnique'
  <2>1. CASE UNCHANGED table
    BY <1>1, <2>1, TableUnchanged DEF TableInv
  <2>2. ASSUME NEW i \in Inc, NEW m \in Signals, state[i] \in Listed,
               Deliver(m, i)
        PROVE  Forward /\ PidsAreUnique'
    BY <1>1, <2>2, DeliverInv DEF TableInv
  <2>3. ASSUME NEW i \in Inc, Reap(i) PROVE Forward /\ PidsAreUnique'
    BY <1>1, <2>3, TableNextInv DEF TableInv, TableNext
  <2> QED
    BY <1>3, <2>1, <2>2, <2>3, TaskTable
<1> QED
  BY <1>2, <1>3 DEF Next, TaskStep

----------------------------------------------------------------------------
(* Shapes *)

LEMMA ShapeEnvironment ==
  ASSUME Inv, Environment, Forward
  PROVE  CallShape' /\ HandleShape' /\ FileShape' /\ WaitOkMeansGone'
<1> USE DEF Environment, handle, call, Inv
<1>1. CallShape'
  BY DEF CallShape
<1>2. HandleShape'
  BY DEF HandleShape, HasHandle, Forward, TypeOK
<1>3. FileShape'
  BY DEF FileShape, HandleShape, HasHandle, Forward, TypeOK
<1>4. WaitOkMeansGone'
  BY DEF WaitOkMeansGone, HandleShape, HasHandle, Forward, TypeOK
<1> QED
  BY <1>1, <1>2, <1>3, <1>4

(* The labels and methods that occur are different strings. *)
LEMMA CallStep ==
  ASSUME Inv, NEW t \in Task, NEW m \in Ops \ {"none"}, NEW l \in PCs,
         NEW p \in Pid \union {NoPid}, Call(t, m, l, p),
         m # "get" => HasHandle(t) /\ p = pid[t],
         l = "open" => m \in {"get", "is_running"} \union Signals,
         l = "waitpid" => m = "wait",
         l \in {"open", "waitpid"}
  PROVE  CallShape' /\ HandleShape' /\ FileShape' /\ WaitOkMeansGone'
<1> USE DEF Inv, TypeOK, TableTypeOK, Call, table, handle
<1>1. CallShape'
  BY DEF CallShape, Waiting
<1>2. HandleShape'
  BY DEF HandleShape, HasHandle
<1>3. FileShape'
  BY TaskAssumption DEF FileShape, HandleShape, HasHandle
<1>4. WaitOkMeansGone'
  BY DEF WaitOkMeansGone
<1> QED
  BY <1>1, <1>2, <1>3, <1>4

LEMMA ShapeInvoke ==
  ASSUME Inv, NEW t \in Task, Invoke(t)
  PROVE  CallShape' /\ HandleShape' /\ FileShape' /\ WaitOkMeansGone'
<1> DEFINE Goal == CallShape' /\ HandleShape' /\ FileShape' /\ WaitOkMeansGone'
<1>1. {"open", "waitpid"} \subseteq PCs /\ pid[t] \in Pid \union {NoPid}
  BY DEF PCs, Waiting, Inv, TypeOK
<1>2. Sent \subseteq Ops \ {"none", "get"} /\ Sent \subseteq Signals
      /\ {"get", "is_running", "wait"} \subseteq Ops
  BY TaskAssumption DEF Ops, Signals
<1>3. ASSUME NEW p \in Pid, get(t, p) PROVE Goal
  BY <1>1, <1>2, <1>3, CallStep DEF get
<1>4. CASE is_running(t)
  BY <1>1, <1>2, <1>4, CallStep DEF is_running
<1>5. ASSUME NEW s \in Sent, signal(t, s) PROVE Goal
  BY <1>1, <1>2, <1>5, CallStep DEF signal
<1>6. CASE wait(t)
  BY <1>1, <1>2, <1>6, CallStep DEF wait
<1>7. CASE set_niceness(t)
  <2> USE <1>7 DEF set_niceness, Inv, TypeOK, TableTypeOK, table, handle
  <2>1. CallShape'
    BY DEF CallShape, Waiting
  <2>2. HandleShape'
    BY DEF HandleShape, HasHandle
  <2>3. FileShape'
    BY TaskAssumption DEF FileShape, HandleShape, HasHandle, Waiting
  <2>4. WaitOkMeansGone'
    BY DEF WaitOkMeansGone
  <2> QED
    BY <2>1, <2>2, <2>3, <2>4
<1> QED
  BY <1>3, <1>4, <1>5, <1>6, <1>7 DEF Invoke

(* How the two ways a step can end move the control of a call. *)
LEMMA ReturnShape ==
  ASSUME Inv, NEW t \in Task, NEW r \in Results, Return(t, r),
         r \in {"true", "false"} => op[t] = "is_running"
  PROVE  CallShape'
BY DEF Return, Inv, TypeOK, CallShape, Waiting

LEMMA GotoShape ==
  ASSUME Inv, NEW t \in Task, NEW l \in PCs, Goto(t, l),
         l = "kill" => op[t] \in Signals,
         l \in Waiting => op[t] = "wait",
         l \in {"open", "read", "btime"} =>
           op[t] \in {"get", "is_running"} \union Signals
  PROVE  CallShape'
BY DEF Goto, Inv, TypeOK, CallShape

(* A call that returns without a new handle or a new file. *)
LEMMA QuietReturn ==
  ASSUME Inv, Forward, NEW t \in Task, NEW r \in Results, Return(t, r),
         r \in {"true", "false"} => op[t] = "is_running",
         op[t] = "wait" /\ r = "Ok" => state'[who[t]] = "gone",
         UNCHANGED <<handle, fd, start_time>>
  PROVE  CallShape' /\ HandleShape' /\ FileShape' /\ WaitOkMeansGone'
<1> USE DEF Inv, TypeOK, TableTypeOK, Return, handle
<1>1. CallShape'
  BY ReturnShape
<1>2. HandleShape'
  BY DEF HandleShape, HasHandle, Forward
<1>3. FileShape'
  BY DEF FileShape, HandleShape, HasHandle, Forward
<1>4. WaitOkMeansGone'
  BY DEF WaitOkMeansGone, HandleShape, HasHandle, Forward
<1> QED
  BY <1>1, <1>2, <1>3, <1>4

(* A pid without an entry is that of a process that is gone. *)
LEMMA MissingMeansGone ==
  ASSUME Inv, NEW t \in Task, op[t] \notin {"none", "get"}, ~Exists(arg[t])
  PROVE  state[who[t]] = "gone"
BY DEF Inv, TypeOK, TableTypeOK, HandleShape, HasHandle, Exists, Owns, States

(* A pid whose entry belongs to another process is that of one that is    *)
(* gone.                                                                  *)
LEMMA OtherMeansGone ==
  ASSUME Inv, NEW t \in Task, op[t] \notin {"none", "get"},
         NEW i \in Inc, Owns(i, arg[t]), i # who[t]
  PROVE  state[who[t]] = "gone"
BY DEF Inv, TypeOK, TableTypeOK, HandleShape, HasHandle, Owns, States,
   PidsAreUnique

LEMMA ShapeStat ==
  ASSUME Inv, Forward, NEW t \in Task, StatStep(t) \/ IoError(t) \/ Drop(t)
  PROVE  CallShape' /\ HandleShape' /\ FileShape' /\ WaitOkMeansGone'
<1> DEFINE Goal == CallShape' /\ HandleShape' /\ FileShape' /\ WaitOkMeansGone'
<1>1. {"true", "false", "NoSuchProcess", "AccessDenied", "Load",
       "dropped", "Ok"} \subseteq Results
      /\ {"read", "btime", "kill"} \subseteq PCs
  BY DEF Results, PCs
<1>2. pc[t] \in {"open", "read", "btime"} => op[t] # "wait"
  BY DEF Inv, CallShape, Signals
<1>3. CASE StatOpen(t)
  <2>1. CASE Return(t, "NoSuchProcess") /\ UNCHANGED fd
    BY <1>1, <1>3, <2>1, QuietReturn DEF StatOpen
  <2>2. ASSUME NEW i \in Inc, Owns(i, arg[t]),
               fd' = [fd EXCEPT ![t] = i], Goto(t, "read")
        PROVE  Goal
    <3> USE <1>3, <2>2 DEF StatOpen, Goto, Inv, TypeOK, TableTypeOK, table,
            handle
    <3>1. CallShape'
      BY <1>1, GotoShape DEF CallShape, Waiting
    <3>2. HandleShape'
      BY DEF HandleShape, HasHandle
    <3>3. op[t] \notin {"none", "get"} /\ i # who[t] => state[who[t]] = "gone"
      BY OtherMeansGone
    <3>4. i # NoInc /\ state[i] # "gone" /\ state[i] # "unborn"
          /\ PidOf[i] = arg[t]
      BY TaskAssumption DEF Owns, Listed, Alive
    <3>5. FileShape'
      BY <3>3, <3>4 DEF FileShape, HandleShape, HasHandle
    <3>6. WaitOkMeansGone'
      BY DEF WaitOkMeansGone
    <3> QED
      BY <3>1, <3>2, <3>5, <3>6
  <2> QED
    BY <1>3, <2>1, <2>2 DEF StatOpen
<1>4. CASE StatRead(t)
  <2>1. CASE Return(t, "Load") /\ UNCHANGED start_time
    BY <1>1, <1>4, <2>1, QuietReturn DEF StatRead
  <2>2. CASE /\ start_time' = [start_time EXCEPT ![t] = start[fd[t]]]
             /\ Goto(t, "btime")
    <3> USE <1>4, <2>2 DEF StatRead, Goto, Inv, TypeOK, TableTypeOK, table,
            handle
    <3>1. CallShape'
      BY <1>1, GotoShape DEF CallShape, Waiting
    <3>2. HandleShape' /\ WaitOkMeansGone'
      BY DEF HandleShape, HasHandle, WaitOkMeansGone
    <3>3. FileShape'
      BY DEF FileShape
    <3> QED
      BY <3>1, <3>2, <3>3
  <2> QED
    BY <1>4, <2>1, <2>2 DEF StatRead
<1>5. CASE GetDone(t)
  <2> USE <1>5 DEF GetDone, Return, Inv, TypeOK, TableTypeOK, table
  <2>1. CallShape'
    BY <1>1, ReturnShape
  <2>2. HandleShape'
    BY DEF HandleShape, HasHandle, FileShape
  <2>3. FileShape' /\ WaitOkMeansGone'
    BY DEF FileShape, WaitOkMeansGone
  <2> QED
    BY <2>1, <2>2, <2>3
<1>6. CASE IsRunningDone(t)
  BY <1>1, <1>2, <1>6, QuietReturn DEF IsRunningDone
<1>7. CASE SignalChecked(t)
  <2>1. CASE Return(t, "NoSuchProcess")
    BY <1>1, <1>7, <2>1, QuietReturn DEF SignalChecked
  <2>2. CASE Goto(t, "kill")
    <3> USE <1>7, <2>2 DEF SignalChecked, Goto, Inv, TypeOK, TableTypeOK,
            table, handle
    <3>1. CallShape'
      BY <1>1, GotoShape DEF Waiting
    <3>2. HandleShape' /\ WaitOkMeansGone'
      BY DEF HandleShape, HasHandle, WaitOkMeansGone
    <3>3. FileShape'
      BY DEF FileShape
    <3> QED
      BY <3>1, <3>2, <3>3
  <2> QED
    BY <1>7, <2>1, <2>2 DEF SignalChecked
<1>8. CASE IoError(t) \/ Drop(t)
  BY <1>1, <1>8, QuietReturn DEF IoError, Drop
<1> QED
  BY <1>3, <1>4, <1>5, <1>6, <1>7, <1>8 DEF StatStep

LEMMA ShapeKillWait ==
  ASSUME Inv, Forward, NEW t \in Task, pid_kill(t) \/ WaitStep(t)
  PROVE  CallShape' /\ HandleShape' /\ FileShape' /\ WaitOkMeansGone'
<1>1. {"NoSuchProcess", "AccessDenied", "Ok"} \subseteq Results
      /\ "poll" \in PCs /\ "wait" \notin Signals
  BY DEF Results, PCs, Waiting, Signals
<1>2. CASE pid_kill(t)
  <2>1. op[t] # "wait"
    BY <1>1, <1>2 DEF pid_kill, Inv, CallShape
  <2>2. UNCHANGED <<handle, fd, start_time>>
    BY <1>2 DEF pid_kill
  <2> QED
    BY <1>1, <1>2, <2>1, <2>2, QuietReturn DEF pid_kill
<1>3. CASE WaitReaped(t)
  <2>1. op[t] = "wait"
    BY <1>3 DEF WaitReaped, Inv, CallShape, Waiting
  <2>2. PICK i \in Kids : PidOf[i] = arg[t] /\ Reap(i)
    BY <1>3 DEF WaitReaped
  <2>3. i \in Inc /\ Owns(i, arg[t])
    BY <2>2, TableAssumption DEF Owns, Reap, Listed
  <2>4. state'[who[t]] = "gone"
    <3>1. CASE i = who[t]
      BY <2>2, <2>3, <3>1 DEF Reap, Inv, TypeOK, TableTypeOK
    <3>2. CASE i # who[t]
      <4>1. state[who[t]] = "gone" /\ who[t] \in Inc
        BY <2>1, <2>3, <3>2, OtherMeansGone DEF Inv, TypeOK, HandleShape,
           HasHandle
      <4> QED
        BY <4>1 DEF Forward
    <3> QED
      BY <3>1, <3>2
  <2>5. Return(t, "Ok") /\ UNCHANGED <<handle, fd, start_time>>
    BY <1>3 DEF WaitReaped
  <2> QED
    BY <1>1, <2>1, <2>4, <2>5, QuietReturn
<1>4. CASE WaitFailed(t)
  <2> USE <1>4 DEF WaitFailed, Goto, Inv, TypeOK, TableTypeOK, table, handle
  <2>1. CallShape'
    BY <1>1, GotoShape DEF CallShape, Waiting
  <2>2. HandleShape' /\ WaitOkMeansGone'
    BY DEF HandleShape, HasHandle, WaitOkMeansGone
  <2>3. FileShape'
    BY DEF FileShape
  <2> QED
    BY <2>1, <2>2, <2>3
<1>5. CASE PollGone(t)
  <2>1. op[t] = "wait"
    BY <1>5 DEF PollGone, Inv, CallShape, Waiting
  <2>2. state[who[t]] = "gone" /\ state' = state
    BY <1>5, <2>1, MissingMeansGone DEF PollGone, table
  <2> QED
    BY <1>1, <1>5, <2>1, <2>2, QuietReturn DEF PollGone
<1> QED
  BY <1>2, <1>3, <1>4, <1>5 DEF WaitStep

----------------------------------------------------------------------------
(* What holds whatever the clock does *)

LEMMA InitInv == Init => Inv
<1> SUFFICES ASSUME Init PROVE Inv
  OBVIOUS
<1>1. TypeOK
  BY TypeInit
<1>2. PidsAreUnique
  BY DEF Init, TableInit, PidsAreUnique, Owns, Listed, Alive
<1>3. CallShape /\ HandleShape /\ FileShape /\ WaitOkMeansGone
  BY DEF Init, CallShape, HandleShape, HasHandle, FileShape, WaitOkMeansGone,
     Waiting
<1> QED
  BY <1>1, <1>2, <1>3 DEF Inv

LEMMA StepInv == Inv /\ [Next]_vars => Inv'
<1>1. ASSUME Inv, UNCHANGED vars PROVE Inv'
  BY <1>1 DEF vars, table, handle, call, Inv, TypeOK, TableTypeOK,
     PidsAreUnique, CallShape, HandleShape, HasHandle, FileShape,
     WaitOkMeansGone
<1>2. ASSUME Inv, Next PROVE Inv'
  <2>1. Forward /\ PidsAreUnique'
    BY <1>2, TableStep DEF Inv
  <2>2. CASE Environment
    BY <1>2, <2>1, <2>2, TypeEnvironment, ShapeEnvironment DEF Inv
  <2>3. ASSUME NEW t \in Task, TaskStep(t) PROVE Inv'
    <3>1. TypeOK'
      BY <1>2, <2>3, TypeInvoke, TypeResume DEF TaskStep, Inv
    <3>2. CallShape' /\ HandleShape' /\ FileShape' /\ WaitOkMeansGone'
      BY <1>2, <2>1, <2>3, ShapeInvoke, ShapeStat, ShapeKillWait
         DEF TaskStep, Resume
    <3> QED
      BY <2>1, <3>1, <3>2 DEF Inv
  <2> QED
    BY <1>2, <2>2, <2>3 DEF Next, TaskStep
<1> QED
  BY <1>1, <1>2

(* The invariant holds in every reachable state. *)
THEOREM Invariance == Spec => []Inv
BY InitInv, StepInv, PTL DEF Spec

(* Every variable of the process handles, the calls and the process table *)
(* keeps its type.                                                        *)
THEOREM TypeCorrectness == Spec => []TypeOK
<1>1. Inv => TypeOK
  BY DEF Inv
<1> QED
  BY <1>1, Invariance, PTL

(* wait() answers Ok only for a process that is gone, however its pid is  *)
(* reused, whoever collects it and whether or not waitpid is interrupted  *)
(* (pid_wait in sys/unix/process.rs).                                     *)
THEOREM WaitIsSound == Spec => []WaitOkMeansGone
<1>1. Inv => WaitOkMeansGone
  BY DEF Inv
<1> QED
  BY <1>1, Invariance, PTL

----------------------------------------------------------------------------
(* What holds as long as nobody sets the clock *)

LEMMA SteadyBootTime ==
  ASSUME StableClock, Inv, Inv'
  PROVE  btime' = btime
BY DEF StableClock, Inv, TypeOK, TableTypeOK

(* A call that returns without a new handle, a new file or a new target. *)
LEMMA ClockReturn ==
  ASSUME Inv, ClockInv, Forward, btime' = btime, NEW t \in Task,
         NEW r \in Results, Return(t, r), UNCHANGED <<handle, fd, hit>>,
         op[t] \in Signals /\ was[t] = "gone" => r \notin {"Ok", "AccessDenied"},
         r = "false" => state[who[t]] = "gone",
         op[t] \in Signals /\ r = "NoSuchProcess" => state[who[t]] = "gone",
         r = "true" => was[t] # "gone",
         r \in {"true", "false"} => op[t] = "is_running"
  PROVE  ClockInv'
<1> USE DEF Inv, TypeOK, TableTypeOK, Return, handle, ClockInv
<1> HIDE DEF WrongTargetOnlyByLateReuse, ReuseIsRefused, VerdictIsTrue
<1>1. \A u \in Task : op[u] \notin {"none", "get"} => who[u] \in Inc
  BY DEF HandleShape, HasHandle
<1>2. "none" \notin Signals /\ "get" \notin Signals
  BY DEF Signals
<1>3. \A u \in Task : /\ HasHandle(u)' => create_time'[u] = start'[who'[u]] + btime'
                      /\ pc'[u] = "kill" => fd'[u] = who'[u]
                      /\ pc'[u] # "idle" => hit'[u] = NoInc
  BY DEF HasHandle, HandleShape, Forward
<1>4. WrongTargetOnlyByLateReuse'
  BY <1>1, <1>2 DEF WrongTargetOnlyByLateReuse, Forward
<1>5. ReuseIsRefused'
  BY DEF ReuseIsRefused
<1>6. VerdictIsTrue'
  <2>1. ASSUME NEW u \in Task
        PROVE  /\ result'[u] = "false" => state'[who'[u]] = "gone"
               /\ op'[u] \in Signals /\ result'[u] = "NoSuchProcess"
                    => state'[who'[u]] = "gone"
               /\ result'[u] = "true" => was'[u] # "gone"
    <3>1. result[u] = "false" => op[u] \notin {"none", "get"}
      BY DEF CallShape
    <3>2. op[t] = "is_running" => op[t] \notin {"none", "get"}
      OBVIOUS
    <3> QED
      BY <1>1, <1>2, <3>1, <3>2 DEF VerdictIsTrue, Forward
  <2> QED
    BY <2>1 DEF VerdictIsTrue
<1> QED
  BY <1>3, <1>4, <1>5, <1>6

LEMMA ClockGoto ==
  ASSUME Inv, ClockInv, btime' = btime, NEW t \in Task, NEW l \in PCs,
         Goto(t, l), UNCHANGED <<table, handle, hit>>,
         pc[t] # "idle",
         \A u \in Task \ {t} : fd'[u] = fd[u],
         l = "kill" => fd'[t] = who[t]
  PROVE  ClockInv'
<1> USE DEF Inv, TypeOK, TableTypeOK, Goto, table, handle
<1>1. \A u \in Task : /\ HasHandle(u)' => create_time'[u] = start'[who'[u]] + btime'
                      /\ pc'[u] = "kill" => fd'[u] = who'[u]
                      /\ pc'[u] # "idle" => hit'[u] = NoInc
  BY DEF HasHandle, ClockInv
<1>2. WrongTargetOnlyByLateReuse'
  BY DEF ClockInv, WrongTargetOnlyByLateReuse
<1>3. ReuseIsRefused' /\ VerdictIsTrue'
  BY DEF ClockInv, ReuseIsRefused, VerdictIsTrue
<1> QED
  BY <1>1, <1>2, <1>3 DEF ClockInv

LEMMA ClockEnvironment ==
  ASSUME Inv, ClockInv, Forward, btime' = btime, Environment
  PROVE  ClockInv'
<1> USE DEF Inv, TypeOK, Environment, handle, call
<1>1. \A u \in Task : op[u] \notin {"none", "get"} => who[u] \in Inc
  BY DEF HandleShape, HasHandle
<1>2. \A u \in Task : op[u] \in Signals \/ result[u] = "false"
                        => op[u] \notin {"none", "get"}
  BY DEF CallShape, Signals
<1>3. \A u \in Task : /\ HasHandle(u)' => create_time'[u] = start'[who'[u]] + btime'
                      /\ pc'[u] = "kill" => fd'[u] = who'[u]
                      /\ pc'[u] # "idle" => hit'[u] = NoInc
  BY DEF ClockInv, HasHandle, HandleShape, Forward
<1>4. WrongTargetOnlyByLateReuse'
  BY <1>1, <1>2 DEF ClockInv, WrongTargetOnlyByLateReuse, Forward
<1>5. ReuseIsRefused'
  BY DEF ClockInv, ReuseIsRefused
<1>6. VerdictIsTrue'
  BY <1>1, <1>2 DEF ClockInv, VerdictIsTrue, Forward
<1> QED
  BY <1>3, <1>4, <1>5, <1>6 DEF ClockInv

LEMMA ClockInvoke ==
  ASSUME Inv, ClockInv, btime' = btime, NEW t \in Task, Invoke(t)
  PROVE  ClockInv'
<1> USE DEF Inv, TypeOK, TableTypeOK, table, handle
<1>1. ASSUME NEW m \in Ops, NEW l \in {"open", "waitpid"},
             NEW p \in Pid \union {NoPid}, Call(t, m, l, p)
      PROVE  ClockInv'
  <2> USE <1>1 DEF Call
  <2>1. \A u \in Task : /\ HasHandle(u)' => create_time'[u] = start'[who'[u]] + btime'
                        /\ pc'[u] = "kill" => fd'[u] = who'[u]
                        /\ pc'[u] # "idle" => hit'[u] = NoInc
    BY DEF ClockInv, HasHandle
  <2>2. WrongTargetOnlyByLateReuse'
    BY DEF ClockInv, WrongTargetOnlyByLateReuse
  <2>3. ReuseIsRefused' /\ VerdictIsTrue'
    BY DEF ClockInv, ReuseIsRefused, VerdictIsTrue
  <2> QED
    BY <2>1, <2>2, <2>3 DEF ClockInv
<1>2. CASE set_niceness(t)
  <2> USE <1>2 DEF set_niceness
  <2>1. \A u \in Task : /\ HasHandle(u)' => create_time'[u] = start'[who'[u]] + btime'
                        /\ pc'[u] = "kill" => fd'[u] = who'[u]
                        /\ pc'[u] # "idle" => hit'[u] = NoInc
    BY DEF ClockInv, HasHandle
  <2>2. "set_niceness" \notin Signals
    BY DEF Signals
  <2>3. WrongTargetOnlyByLateReuse'
    BY <2>2 DEF ClockInv, WrongTargetOnlyByLateReuse
  <2>4. ReuseIsRefused' /\ VerdictIsTrue'
    BY <2>2 DEF ClockInv, ReuseIsRefused, VerdictIsTrue
  <2> QED
    BY <2>1, <2>3, <2>4 DEF ClockInv
<1>3. CASE \/ \E p \in Pid : get(t, p) 
           \/ is_running(t) \/ wait(t)
  BY <1>1, <1>3 DEF get, is_running, wait, Ops
<1>4. CASE \E s \in Sent : signal(t, s)
  BY <1>1, <1>4, TaskAssumption DEF signal, Ops
<1> QED
  BY <1>2, <1>3, <1>4 DEF Invoke

(* The check: the creation time read now and the one remembered agree     *)
(* exactly for the process of the handle.                                 *)
LEMMA CheckIsExact ==
  ASSUME Inv, ClockInv, NEW t \in Task, pc[t] = "btime",
         op[t] \notin {"none", "get"}
  PROVE  SameUniqueId(t) <=> fd[t] = who[t]
<1>1. /\ who[t] \in Inc /\ fd[t] \in Inc
      /\ PidOf[fd[t]] = PidOf[who[t]] /\ arg[t] = pid[t]
      /\ state[who[t]] # "unborn" /\ state[fd[t]] # "unborn"
  BY DEF Inv, TypeOK, HandleShape, HasHandle, FileShape
<1>2. /\ start_time[t] = start[fd[t]]
      /\ create_time[t] = start[who[t]] + btime
  BY <1>1, TaskAssumption DEF Inv, FileShape, ClockInv, HasHandle
<1>3. btime \in Nat /\ start[fd[t]] \in Nat /\ start[who[t]] \in Nat
  BY <1>1, TableAssumption DEF Inv, TypeOK, TableTypeOK
<1>4. start[fd[t]] = start[who[t]] <=> fd[t] = who[t]
  BY <1>1 DEF Inv, PidsAreUnique
<1> QED
  BY <1>1, <1>2, <1>3, <1>4 DEF SameUniqueId, StatCreateTime

LEMMA ClockStat ==
  ASSUME Inv, ClockInv, Forward, btime' = btime, NEW t \in Task,
         StatStep(t) \/ IoError(t) \/ Drop(t)
  PROVE  ClockInv'
<1>1. {"true", "false", "NoSuchProcess", "Load", "dropped", "Ok"}
        \subseteq Results
      /\ {"read", "btime", "kill"} \subseteq PCs
  BY DEF Results, PCs
<1>2. "none" \notin Signals /\ "get" \notin Signals
      /\ "is_running" \notin Signals
  BY DEF Signals
<1>3. CASE StatOpen(t)
  <2>1. CASE /\ ~Exists(arg[t]) /\ Return(t, "NoSuchProcess")
             /\ UNCHANGED fd
    <3>1. op[t] \in Signals => state[who[t]] = "gone"
      BY <1>2, <2>1, MissingMeansGone
    <3> QED
      BY <1>1, <1>3, <2>1, <3>1, ClockReturn DEF StatOpen
  <2>2. ASSUME NEW i \in Inc, fd' = [fd EXCEPT ![t] = i], Goto(t, "read")
        PROVE  ClockInv'
    BY <1>1, <1>3, <2>2, ClockGoto DEF StatOpen, Inv, TypeOK
  <2> QED
    BY <1>3, <2>1, <2>2 DEF StatOpen
<1>4. CASE StatRead(t)
  BY <1>1, <1>4, ClockReturn, ClockGoto DEF StatRead
<1>5. CASE GetDone(t)
  <2> USE <1>5 DEF GetDone, Return, Inv, TypeOK, TableTypeOK, table
  <2>1. \A u \in Task : /\ HasHandle(u)' => create_time'[u] = start'[who'[u]] + btime'
                        /\ pc'[u] = "kill" => fd'[u] = who'[u]
                        /\ pc'[u] # "idle" => hit'[u] = NoInc
    BY DEF ClockInv, HasHandle, FileShape, StatCreateTime
  <2>2. WrongTargetOnlyByLateReuse'
    BY <1>2 DEF ClockInv, WrongTargetOnlyByLateReuse
  <2>3. ReuseIsRefused' /\ VerdictIsTrue'
    BY <1>2 DEF ClockInv, ReuseIsRefused, VerdictIsTrue
  <2> QED
    BY <2>1, <2>2, <2>3 DEF ClockInv
<1>6. CASE IsRunningDone(t)
  <2>1. op[t] = "is_running" /\ (SameUniqueId(t) <=> fd[t] = who[t])
    BY <1>6, CheckIsExact DEF IsRunningDone
  <2>2. CASE SameUniqueId(t)
    <3>1. was[t] # "gone"
      BY <2>1, <2>2 DEF Inv, FileShape
    <3> QED
      BY <1>1, <1>2, <1>6, <2>1, <2>2, <3>1, ClockReturn DEF IsRunningDone
  <2>3. CASE ~SameUniqueId(t)
    <3>1. state[who[t]] = "gone"
      BY <1>6, <2>1, <2>3 DEF IsRunningDone, Inv, FileShape
    <3> QED
      BY <1>1, <1>2, <1>6, <2>1, <2>3, <3>1, ClockReturn DEF IsRunningDone
  <2> QED
    BY <2>2, <2>3
<1>7. CASE SignalChecked(t)
  <2>1. op[t] \in Signals /\ (SameUniqueId(t) <=> fd[t] = who[t])
    BY <1>2, <1>7, CheckIsExact DEF SignalChecked
  <2>2. CASE SameUniqueId(t)
    BY <1>1, <1>7, <2>1, <2>2, ClockGoto DEF SignalChecked
  <2>3. CASE ~SameUniqueId(t)
    <3>1. state[who[t]] = "gone"
      BY <1>2, <1>7, <2>1, <2>3 DEF SignalChecked, Inv, FileShape
    <3> QED
      BY <1>1, <1>7, <2>1, <2>3, <3>1, ClockReturn DEF SignalChecked
  <2> QED
    BY <2>2, <2>3
<1>8. CASE IoError(t) \/ Drop(t)
  BY <1>1, <1>8, ClockReturn DEF IoError, Drop
<1> QED
  BY <1>3, <1>4, <1>5, <1>6, <1>7, <1>8 DEF StatStep

LEMMA ClockKillWait ==
  ASSUME Inv, ClockInv, Forward, btime' = btime, NEW t \in Task,
         pid_kill(t) \/ WaitStep(t)
  PROVE  ClockInv'
<1>1. {"NoSuchProcess", "AccessDenied", "Ok"} \subseteq Results
      /\ "poll" \in PCs /\ "wait" \notin Signals
      /\ "none" \notin Signals /\ "get" \notin Signals
  BY DEF Results, PCs, Waiting, Signals
<1>2. \A u \in Task : op[u] \notin {"none", "get"} => who[u] \in Inc
  BY DEF Inv, TypeOK, HandleShape, HasHandle
<1>3. \A u \in Task : op[u] \in Signals \/ result[u] = "false"
                        => op[u] \notin {"none", "get"}
  BY DEF Inv, CallShape, Signals
<1>4. ASSUME NEW i \in Inc, Owns(i, arg[t]), Return(t, "Ok"),
             hit' = [hit EXCEPT ![t] = i], UNCHANGED <<handle, fd, start_time>>,
             op[t] \in Signals => fd[t] = who[t]
      PROVE  ClockInv'
  <2> USE <1>4 DEF Return, handle, Inv, TypeOK, TableTypeOK
  <2>1. \A u \in Task : /\ HasHandle(u)' => create_time'[u] = start'[who'[u]] + btime'
                        /\ pc'[u] = "kill" => fd'[u] = who'[u]
                        /\ pc'[u] # "idle" => hit'[u] = NoInc
    BY DEF ClockInv, HasHandle, HandleShape, Forward
  <2>2. op[t] \in Signals /\ i # who[t] => state[who[t]] = "gone"
    BY <1>1, OtherMeansGone
  <2>3. op[t] \in Signals => was[t] # "gone"
    BY <1>1 DEF FileShape
  <2>4. WrongTargetOnlyByLateReuse'
    BY <1>2, <1>3, <2>2 DEF ClockInv, WrongTargetOnlyByLateReuse, Forward
  <2>5. ReuseIsRefused'
    BY <2>3 DEF ClockInv, ReuseIsRefused
  <2>6. VerdictIsTrue'
    BY <1>2, <1>3 DEF ClockInv, VerdictIsTrue, Forward
  <2> QED
    BY <2>1, <2>4, <2>5, <2>6 DEF ClockInv
<1>5. CASE pid_kill(t)
  <2>1. op[t] \in Signals /\ fd[t] = who[t] /\ was[t] # "gone"
    BY <1>1, <1>5 DEF pid_kill, Inv, CallShape, ClockInv, FileShape
  <2>2. UNCHANGED <<handle, fd, start_time>>
    BY <1>5 DEF pid_kill
  <2>3. CASE \E i \in Inc \ Foreign : /\ Owns(i, arg[t])
                                      /\ hit' = [hit EXCEPT ![t] = i]
                                      /\ Return(t, "Ok")
    BY <1>4, <2>1, <2>2, <2>3
  <2>4. CASE Return(t, "AccessDenied") /\ UNCHANGED hit
    BY <1>1, <2>1, <2>2, <2>4, ClockReturn
  <2>5. CASE ~Exists(arg[t]) /\ Return(t, "NoSuchProcess") /\ UNCHANGED hit
    <3>1. state[who[t]] = "gone"
      BY <1>1, <2>1, <2>5, MissingMeansGone
    <3> QED
      BY <1>1, <2>1, <2>2, <2>5, <3>1, ClockReturn
  <2> QED
    BY <1>5, <2>3, <2>4, <2>5 DEF pid_kill
<1>6. CASE WaitReaped(t)
  <2>1. op[t] = "wait"
    BY <1>6 DEF WaitReaped, Inv, CallShape, Waiting
  <2>2. PICK i \in Kids : /\ PidOf[i] = arg[t] /\ Reap(i)
                          /\ hit' = [hit EXCEPT ![t] = i]
    BY <1>6 DEF WaitReaped
  <2>3. i \in Inc /\ Owns(i, arg[t])
    BY <2>2, TableAssumption DEF Owns, Reap, Listed
  <2> QED
    BY <1>1, <1>4, <1>6, <2>1, <2>2, <2>3 DEF WaitReaped
<1>7. CASE WaitFailed(t)
  BY <1>1, <1>7, ClockGoto DEF WaitFailed
<1>8. CASE PollGone(t)
  <2>1. op[t] = "wait"
    BY <1>8 DEF PollGone, Inv, CallShape, Waiting
  <2> QED
    BY <1>1, <1>8, <2>1, ClockReturn DEF PollGone
<1> QED
  BY <1>5, <1>6, <1>7, <1>8 DEF WaitStep

LEMMA ClockInit == Init => ClockInv
BY DEF Init, ClockInv, HasHandle, WrongTargetOnlyByLateReuse, ReuseIsRefused,
   VerdictIsTrue

LEMMA ClockStepInv ==
  ASSUME StableClock
  PROVE  Inv /\ Inv' /\ ClockInv /\ [Next]_vars => ClockInv'
<1> SUFFICES ASSUME Inv, Inv', ClockInv, [Next]_vars PROVE ClockInv'
  OBVIOUS
<1>1. btime' = btime
  BY SteadyBootTime
<1>2. CASE UNCHANGED vars
  BY <1>2 DEF vars, table, handle, call, ClockInv, HasHandle,
     WrongTargetOnlyByLateReuse, ReuseIsRefused, VerdictIsTrue
<1>3. CASE Next
  <2>1. Forward
    BY <1>3, TableStep DEF Inv
  <2> QED
    BY <1>1, <1>3, <2>1, ClockEnvironment, ClockInvoke, ClockStat,
       ClockKillWait DEF Next, Resume
<1> QED
  BY <1>2, <1>3

LEMMA ClockInvariance ==
  ASSUME StableClock
  PROVE  Spec => [](Inv /\ ClockInv)
<1>1. Inv /\ Inv' /\ ClockInv /\ [Next]_vars => ClockInv'
  BY ClockStepInv
<1> QED
  BY <1>1, ClockInit, Invariance, PTL DEF Spec

(* As long as the clock is not set, suspend, resume, terminate and kill   *)
(* reach a process other than the handle's only through the window        *)
(* between the check and the system call, for any number of processes,    *)
(* pids and concurrent callers (_signal and pid_kill).                    *)
THEOREM SignalsReachTheirProcess ==
  ASSUME StableClock
  PROVE  Spec => []WrongTargetOnlyByLateReuse
<1>1. ClockInv => WrongTargetOnlyByLateReuse
  BY DEF ClockInv
<1> QED
  BY <1>1, ClockInvariance, PTL

(* As long as the clock is not set, the check before a signal does what   *)
(* the documentation of suspend, resume, terminate and kill promises: a   *)
(* process gone before the call is never confused with the new owner of   *)
(* its pid.                                                               *)
THEOREM SignalsAreChecked ==
  ASSUME StableClock
  PROVE  Spec => []ReuseIsRefused
<1>1. ClockInv => ReuseIsRefused
  BY DEF ClockInv
<1> QED
  BY <1>1, ClockInvariance, PTL

(* As long as the clock is not set, is_running and the check in _signal   *)
(* are right about the process, whatever happens between opening the stat *)
(* file and reading the boot time.                                        *)
THEOREM VerdictsAreTrue ==
  ASSUME StableClock
  PROVE  Spec => []VerdictIsTrue
<1>1. ClockInv => VerdictIsTrue
  BY DEF ClockInv
<1> QED
  BY <1>1, ClockInvariance, PTL

(* As long as the clock is not set, UniqueId tells processes apart:       *)
(* handles are equal exactly if they stand for the same process.          *)
THEOREM UniqueIdIsIdentity ==
  ASSUME StableClock
  PROVE  Spec => []HandlesIdentify
<1>1. Inv /\ ClockInv => HandlesIdentify
  <2> SUFFICES ASSUME Inv, ClockInv, NEW s \in Task, NEW t \in Task,
                      HasHandle(s), HasHandle(t)
               PROVE  pid[s] = pid[t] /\ create_time[s] = create_time[t]
                        <=> who[s] = who[t]
    BY DEF HandlesIdentify
  <2>1. /\ who[s] \in Inc /\ who[t] \in Inc
        /\ pid[s] = PidOf[who[s]] /\ pid[t] = PidOf[who[t]]
        /\ state[who[s]] # "unborn" /\ state[who[t]] # "unborn"
    BY DEF Inv, TypeOK, HandleShape, HasHandle
  <2>2. /\ create_time[s] = start[who[s]] + btime
        /\ create_time[t] = start[who[t]] + btime
        /\ btime \in Nat /\ start[who[s]] \in Nat /\ start[who[t]] \in Nat
    BY <2>1, TableAssumption DEF ClockInv, Inv, TypeOK, TableTypeOK
  <2>3. PidOf[who[s]] = PidOf[who[t]] /\ start[who[s]] = start[who[t]]
          => who[s] = who[t]
    BY <2>1 DEF Inv, PidsAreUnique
  <2> QED
    BY <2>1, <2>2, <2>3
<1> QED
  BY <1>1, ClockInvariance, PTL

============================================================================
