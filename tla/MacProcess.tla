----------------------------- MODULE MacProcess -----------------------------
(***************************************************************************)
(* heim_process::Process on macOS (heim-process/src/sys/macos): obtaining  *)
(* a handle, asking whether it is still running, signalling it, and all    *)
(* the questions a caller may ask of it.  wait() is the code that          *)
(* LinuxProcess models and is left out here.                               *)
(*                                                                         *)
(* The process may terminate, be reaped and have its pid reused between    *)
(* any two system calls.  The start time in the process table is a time of *)
(* day, taken when the process is forked and never changed afterwards.     *)
(***************************************************************************)
EXTENDS ProcTable

CONSTANTS NoInc, NoPid, \* stand for "none"
          KernelTask,   \* the process with the pid 0
          Group         \* the others in the process group of the caller

ASSUME MacAssumption ==
  /\ NoInc \notin Inc /\ NoPid \notin Pid
  /\ KernelTask \subseteq Foreign
  /\ \A k \in KernelTask, i \in Inc : PidOf[i] = PidOf[k] => i = k
  /\ Group \subseteq Inc \ Foreign

VARIABLES stamp,        \* p_starttime of an incarnation
          who,          \* the incarnation the Process was made for
          create_time,  \* its UniqueId::create_time
          pc, op, arg,  \* where the call is, its method and its pid
          result,       \* what the last call returned
          seen,         \* whose data the call has found last
          hit           \* the incarnations the call has signalled or reniced

process == <<who, create_time>>
call == <<pc, op, arg, result, seen, hit>>
vars == <<table, stamp, process, call>>

Info == {"parent_pid", "name", "status"}
LibProc == {"exe", "cwd", "cpu_time", "memory"}
Args == {"command", "environment"}
Nice == {"niceness", "set_niceness"}
Queries == Info \union LibProc \union Args \union Nice \union {"io_counters"}
Ops == {"none", "get", "is_running"} \union Signals \union Queries
PCs == {"idle", "info", "libproc", "catch", "args", "exists", "rusage", "nice",
        "kill"}
Results == {"none", "Ok", "true", "false", "NoSuchProcess", "ZombieProcess",
            "AccessDenied", "Load"}

TypeOK == /\ TableTypeOK
          /\ stamp \in [Inc -> Nat]
          /\ who \in Inc \union {NoInc} /\ create_time \in Nat
          /\ pc \in PCs /\ op \in Ops /\ arg \in Pid \union {NoPid}
          /\ result \in Results
          /\ seen \in Inc \union {NoInc} /\ hit \subseteq Inc

Init == /\ TableInit
        /\ \A i \in KernelTask : state[i] = "running"
        /\ stamp = [i \in Inc |-> IF state[i] = "running" THEN btime ELSE 0]
        /\ who = NoInc /\ create_time = 0
        /\ pc = "idle" /\ op = "none" /\ arg = NoPid
        /\ result = "none" /\ seen = NoInc /\ hit = {}

----------------------------------------------------------------------------
Call(m, l, p) == /\ pc = "idle"
                 /\ pc' = l /\ op' = m /\ arg' = p
                 /\ result' = "none" /\ seen' = NoInc /\ hit' = {}
                 /\ UNCHANGED <<table, stamp, process>>

Goto(l) == pc' = l /\ UNCHANGED <<table, stamp, process, op, arg, result>>

Return(r) == pc' = "idle" /\ result' = r /\ UNCHANGED <<stamp, op, arg>>

Fail(r) == Return(r) /\ UNCHANGED <<table, process, seen, hit>>

Answer(i) == /\ seen' = i
             /\ Return("Ok")
             /\ UNCHANGED <<table, process, hit>>

(* The pid 0: system calls take it for the caller or for its group. *)
IsZero(p) == \E k \in KernelTask : PidOf[k] = p

(* The methods; what a method asks first decides where it starts. *)
get(p) == Call("get", "info", p)
is_running == who # NoInc /\ Call("is_running", "info", PidOf[who])
signal(s) == who # NoInc /\ Call(s, "info", PidOf[who])

StartOf(m) == CASE m \in Info    -> "info"
                [] m \in LibProc -> "libproc"
                [] m \in Args    -> "args"
                [] m \in Nice    -> "nice"
                [] OTHER         -> "rusage"

ask(m) == who # NoInc /\ Call(m, StartOf(m), PidOf[who])

----------------------------------------------------------------------------
(* Mutant: a process is compared with the stored one by its pid alone. *)
FoundByPid(i) ==
  /\ seen' = i
  /\ \/ /\ op = "get"
        /\ who' = i /\ create_time' = stamp[i]
        /\ Return("Ok") /\ UNCHANGED <<table, hit>>
     \/ /\ op = "is_running"
        /\ Return("true")
        /\ UNCHANGED <<table, process, hit>>
     \/ /\ op \in Signals
        /\ Goto("kill") /\ UNCHANGED hit
     \/ /\ op \in Info
        /\ Return("Ok") /\ UNCHANGED <<table, process, hit>>

(* What is made of the entry of the process table that was found. *)
Found(i) ==
  /\ seen' = i
  /\ \/ /\ op = "get"
        /\ who' = i /\ create_time' = stamp[i]
        /\ Return("Ok") /\ UNCHANGED <<table, hit>>
     \/ /\ op = "is_running"
        /\ Return(IF stamp[i] = create_time THEN "true" ELSE "false")
        /\ UNCHANGED <<table, process, hit>>
     \/ /\ op \in Signals /\ stamp[i] = create_time
        /\ Goto("kill") /\ UNCHANGED hit
     \/ /\ op \in Signals /\ stamp[i] # create_time
        /\ Return("NoSuchProcess") /\ UNCHANGED <<table, process, hit>>
     \/ /\ op \in Info
        /\ Return("Ok") /\ UNCHANGED <<table, process, hit>>

(* bindings::process: an answer of size 0 says that there is no process. *)
ProcessInfo == /\ pc = "info"
               /\ \/ \E i \in Inc : Owns(i, arg) /\ Found(i)
                  \/ ~Exists(arg) /\ Fail("NoSuchProcess")

(* darwin_libproc's pid_path, pid_cwd and task_info: nothing is told of a *)
(* zombie, and the path of any living process.                            *)
LibProcCall ==
  /\ pc = "libproc"
  /\ \/ \E i \in Inc :
          /\ Owns(i, arg) /\ state[i] \in Alive
          /\ IF i \in KernelTask \/ (i \in Foreign /\ op # "exe")
             THEN Fail("AccessDenied") ELSE Answer(i)
     \/ /\ \A i \in Inc : Owns(i, arg) => state[i] = "zombie"
        /\ Goto("catch") /\ UNCHANGED <<seen, hit>>

(* Mutant: any process that is found now must be one that was refused. *)
CatchNeverZombie ==
  /\ pc = "catch"
  /\ \/ Exists(arg) /\ Fail("AccessDenied")
     \/ ~Exists(arg) /\ Fail("NoSuchProcess")

(* catch_zombie, after ESRCH: what the process table says now. *)
CatchZombie ==
  /\ pc = "catch"
  /\ \/ \E i \in Inc : /\ Owns(i, arg)
                       /\ Fail(IF state[i] = "zombie" THEN "ZombieProcess"
                                                      ELSE "AccessDenied")
     \/ ~Exists(arg) /\ Fail("NoSuchProcess")

(* proc_args for command and environment: the kernel task is refused, and *)
(* EINVAL is the answer for a zombie, for no process and for a living     *)
(* process of another user.                                               *)
ProcArgs ==
  /\ pc = "args"
  /\ \/ \E i \in Inc :
          /\ Owns(i, arg) /\ state[i] \in Alive
          /\ \/ i \in KernelTask /\ Fail("AccessDenied")
             \/ i \notin Foreign /\ Answer(i)
     \/ /\ \A i \in Inc : Owns(i, arg) =>
             state[i] = "zombie" \/ i \in Foreign \ KernelTask
        /\ Goto("exists") /\ UNCHANGED <<seen, hit>>

(* Mutant: the error is passed on as it is. *)
ArgsExistsRaw == pc = "exists" /\ Fail("EINVAL")

(* Then pid_exists decides. *)
ArgsExists == /\ pc = "exists"
              /\ Fail(IF Exists(arg) THEN "ZombieProcess" ELSE "Load")

(* io_counters: ESRCH is passed on. *)
Rusage ==
  /\ pc = "rusage"
  /\ \/ \E i \in Inc : /\ Owns(i, arg)
                       /\ IF i \in Foreign THEN Fail("AccessDenied")
                                           ELSE Answer(i)
     \/ ~Exists(arg) /\ Fail("Load")

(* niceness and set_niceness act on whoever has the pid now, and with the *)
(* pid 0 on the caller itself.                                            *)
Priority ==
  /\ pc = "nice"
  /\ \/ IsZero(arg) /\ Answer(NoInc)
     \/ \E i \in Inc :
          /\ Owns(i, arg) /\ ~IsZero(arg)
          /\ \/ op = "niceness" /\ Answer(i)
             \/ op = "set_niceness" /\ i \in Foreign /\ Fail("Load")
             \/ /\ op = "set_niceness" /\ i \notin Foreign
                /\ hit' = {i} /\ Return("Ok")
                /\ UNCHANGED <<table, process, seen>>
     \/ /\ ~Exists(arg)
        /\ Fail(IF op = "niceness" THEN "NoSuchProcess" ELSE "Load")

(* pid_kill, after the check in _signal, to a pid other than 0. *)
Kill ==
  /\ pc = "kill" /\ ~IsZero(arg)
  /\ \/ \E i \in Inc \ Foreign :
          /\ Owns(i, arg)
          /\ Deliver(op, i)
          /\ hit' = {i} /\ Return("Ok") /\ UNCHANGED <<process, seen>>
     \/ (\E i \in Foreign : Owns(i, arg)) /\ Fail("AccessDenied")
     \/ ~Exists(arg) /\ Fail("NoSuchProcess")

(* pid_kill for a handle of the kernel task: nothing keeps the pid 0 away *)
(* from kill(2), for which it means the whole process group of the        *)
(* caller.  (What that does to the caller itself is left out.)            *)
KillZero ==
  /\ pc = "kill" /\ IsZero(arg)
  /\ hit' = {i \in Group : state[i] \in Listed}
  /\ state' \in [Inc -> States]
  /\ \A i \in Inc : IF i \in hit' THEN state'[i] \in Effect(op, state[i])
                                  ELSE state'[i] = state[i]
  /\ Return("Ok")
  /\ UNCHANGED <<start, now, btime, process, seen>>

(* Any system call may fail for another reason. *)
OtherError == pc # "idle" /\ Fail("Load")

----------------------------------------------------------------------------
Invoke == \/ \E p \in Pid : get(p)
          \/ is_running
          \/ \E s \in Signals : signal(s)
          \/ \E m \in Queries : ask(m)

Step == \/ ProcessInfo \/ LibProcCall \/ CatchZombie \/ ProcArgs \/ ArgsExists
        \/ Rusage \/ Priority \/ Kill \/ KillZero \/ OtherError

(* A fork notes the time of day; the kernel task goes on for ever. *)
Environment ==
  /\ TableNext
  /\ stamp' = [i \in Inc |-> IF state[i] = "unborn" /\ state'[i] = "running"
                             THEN now + btime ELSE stamp[i]]
  /\ \A i \in KernelTask : state'[i] = state[i]
  /\ UNCHANGED <<process, call>>

Next == Environment \/ Invoke \/ Step

Spec == Init /\ [][Next]_vars

----------------------------------------------------------------------------
(* Whom a signal reaches other than the process of the handle: in the     *)
(* case of the kernel task the group of the caller, always; else the next *)
(* owner of the pid of a process that is gone, and that only if the pid   *)
(* changed hands behind the check of the start time, or if the clock was  *)
(* set back so far that both were started at one time.                    *)
WhereSignalsGo ==
  op \in Signals =>
    \A i \in hit \ {who} :
      \/ who \in KernelTask /\ i \in Group
      \/ /\ state[who] = "gone" /\ PidOf[i] = PidOf[who]
         /\ seen # who => stamp[seen] = stamp[who] /\ start[seen] # start[who]

(* ZombieProcess means that the process has terminated, though the second *)
(* system call, which decides, may find a new owner of the pid; command   *)
(* and environment say it also of living processes of other users.        *)
ZombieMeans ==
  result = "ZombieProcess" => \/ Terminated(who)
                              \/ op \in Args /\ who \in Foreign

(* NoSuchProcess is said only if the process is gone. *)
NoSuchProcessMeansGone ==
  result = "NoSuchProcess" /\ op # "get" => state[who] = "gone"

(* AccessDenied means that the process belongs to another user, or that   *)
(* it is gone and its pid has had a new owner since: either that one is   *)
(* the one who refuses, or catch_zombie takes it for a process that would *)
(* not answer.                                                            *)
DeniedMeans ==
  result = "AccessDenied" =>
    \/ who \in Foreign
    \/ /\ state[who] = "gone"
       /\ \E i \in Inc \ {who} : PidOf[i] = arg /\ state[i] # "unborn"

(* What a caller can conclude about its own process from an error, though *)
(* the system call that fails and the one that decides which error it is  *)
(* may find two owners of the pid.                                        *)
WhatErrorsTell == /\ ZombieMeans
                  /\ NoSuchProcessMeansGone
                  /\ DeniedMeans

============================================================================
