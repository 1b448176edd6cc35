---------------------------- MODULE LinuxProcess ----------------------------
(***************************************************************************)
(* heim_process::Process on Linux (heim-process/src/sys/linux/process,     *)
(* sys/unix/process.rs, sys/common.rs): obtaining a handle, asking whether *)
(* it is still running, signalling it and waiting for it, while processes  *)
(* come and go and pids are used again.                                    *)
(*                                                                         *)
(* A task is an async task of the program that owns at most one handle and *)
(* has at most one call in progress.  A call suspends wherever the code    *)
(* awaits or enters the kernel, so anything may happen between two of its  *)
(* steps; its future may also be dropped there.                            *)
(***************************************************************************)
EXTENDS ProcTable

CONSTANTS Task,         \* async tasks of the program
          NoInc, NoPid, \* stand for "none"
          Interrupts,   \* whether waitpid may fail with EINTR
          Sent          \* the signals the program sends

ASSUME TaskAssumption == /\ NoInc \notin Inc
                         /\ NoPid \notin Pid
                         /\ Interrupts \in BOOLEAN
                         /\ Sent \subseteq Signals

VARIABLES pc,           \* where the call of a task is suspended
          op,           \* the method called last
          arg,          \* the pid that call looks up
          fd,           \* the incarnation whose /proc/<pid>/stat was opened
          start_time,   \* Stat::create_time before the boot time is added
          pid,          \* handle: UniqueId::pid
          create_time,  \* handle: UniqueId::create_time
          result,       \* what the last call returned
          who,          \* history: the incarnation the handle was made for
          was,          \* history: its state when the last call began
          hit           \* history: whom the last call reached in the kernel

handle == <<pid, create_time, who>>
call == <<pc, op, arg, fd, start_time, result, was, hit>>
vars == <<table, handle, call>>

Waiting == {"waitpid", "poll"}
PCs == {"idle", "open", "read", "btime", "kill"} \union Waiting
Ops == {"none", "get", "is_running", "set_niceness", "wait"} \union Signals
Results == {"none", "Ok", "true", "false", "NoSuchProcess", "AccessDenied",
            "Load", "dropped"}

TypeOK == /\ TableTypeOK
          /\ pc \in [Task -> PCs]
          /\ op \in [Task -> Ops]
          /\ arg \in [Task -> Pid \union {NoPid}]
          /\ fd \in [Task -> Inc \union {NoInc}]
          /\ start_time \in [Task -> Nat]
          /\ pid \in [Task -> Pid \union {NoPid}]
          /\ create_time \in [Task -> Nat]
          /\ result \in [Task -> Results]
          /\ who \in [Task -> Inc \union {NoInc}]
          /\ was \in [Task -> States]
          /\ hit \in [Task -> Inc \union {NoInc}]

Init == /\ TableInit
        /\ pc = [t \in Task |-> "idle"]
        /\ op = [t \in Task |-> "none"]
        /\ arg = [t \in Task |-> NoPid]
        /\ fd = [t \in Task |-> NoInc]
        /\ start_time = [t \in Task |-> 0]
        /\ pid = [t \in Task |-> NoPid]
        /\ create_time = [t \in Task |-> 0]
        /\ result = [t \in Task |-> "none"]
        /\ who = [t \in Task |-> NoInc]
        /\ was = [t \in Task |-> "unborn"]
        /\ hit = [t \in Task |-> NoInc]

----------------------------------------------------------------------------
(* Method m is called and goes on at label l, looking up the pid p. *)
Call(t, m, l, p) ==
  /\ pc[t] = "idle"
  /\ pc' = [pc EXCEPT ![t] = l]
  /\ op' = [op EXCEPT ![t] = m]
  /\ arg' = [arg EXCEPT ![t] = p]
  /\ fd' = [fd EXCEPT ![t] = NoInc]
  /\ start_time' = [start_time EXCEPT ![t] = 0]
  /\ result' = [result EXCEPT ![t] = "none"]
  /\ hit' = [hit EXCEPT ![t] = NoInc]
  /\ was' = [was EXCEPT ![t] = IF who[t] = NoInc THEN "unborn"
                                                 ELSE state[who[t]]]
  /\ UNCHANGED <<table, handle>>

Goto(t, l) == /\ pc' = [pc EXCEPT ![t] = l]
              /\ UNCHANGED <<op, arg, result, was>>

Return(t, r) == /\ pc' = [pc EXCEPT ![t] = "idle"]
                /\ result' = [result EXCEPT ![t] = r]
                /\ UNCHANGED <<op, arg, was>>

HasHandle(t) == who[t] # NoInc

(* sys::get, also the first half of is_running and of every signal. *)
get(t, p) == Call(t, "get", "open", p)

is_running(t) == HasHandle(t) /\ Call(t, "is_running", "open", pid[t])

(* suspend, resume, terminate and kill: _signal with Stop, Cont, Term and *)
(* Kill.                                                                  *)
signal(t, s) == HasHandle(t) /\ Call(t, s, "open", pid[t])

wait(t) == HasHandle(t) /\ Call(t, "wait", "waitpid", pid[t])

----------------------------------------------------------------------------
(* procfs::stat opens /proc/<pid>/stat.  The open file stands for the     *)
(* incarnation that has the pid now.                                      *)
StatOpen(t) ==
  /\ pc[t] = "open"
  /\ \/ \E i \in Inc : /\ Owns(i, arg[t])
                       /\ fd' = [fd EXCEPT ![t] = i]
                       /\ Goto(t, "read")
     \/ /\ ~Exists(arg[t])
        /\ Return(t, "NoSuchProcess")
        /\ UNCHANGED fd
  /\ UNCHANGED <<table, handle, start_time, hit>>

(* The file is read.  If its process has been reaped since the open, the  *)
(* read fails with ESRCH, which is not ErrorKind::NotFound.               *)
StatRead(t) ==
  /\ pc[t] = "read"
  /\ \/ /\ state[fd[t]] # "gone"
        /\ start_time' = [start_time EXCEPT ![t] = start[fd[t]]]
        /\ Goto(t, "btime")
     \/ /\ state[fd[t]] = "gone"
        /\ Return(t, "Load")
        /\ UNCHANGED start_time
  /\ UNCHANGED <<table, handle, fd, hit>>

(* Any other failure to open or to read one of the two files. *)
IoError(t) ==
  /\ pc[t] \in {"open", "read", "btime"}
  /\ Return(t, "Load")
  /\ UNCHANGED <<table, handle, fd, start_time, hit>>

(* Mutant: the boot time is taken away instead of added. *)
CreateTimeSwapped(t) == start_time[t] - btime

(* Mutant: the creation time is that of the boot. *)
CreateTimeOfBoot(t) == btime

(* heim_host::boot_time, read anew by every call of stat. *)
StatCreateTime(t) == start_time[t] + btime

(* Mutant: handles are compared by their pid alone. *)
SamePid(t) == arg[t] = pid[t]

(* Process::eq *)
SameUniqueId(t) == arg[t] = pid[t] /\ StatCreateTime(t) = create_time[t]

(* Mutant: the handle is built from the start time without the boot time. *)
GetDoneUptime(t) ==
  /\ pc[t] = "btime" /\ op[t] = "get"
  /\ pid' = [pid EXCEPT ![t] = arg[t]]
  /\ create_time' = [create_time EXCEPT ![t] = start_time[t]]
  /\ who' = [who EXCEPT ![t] = fd[t]]
  /\ Return(t, "Ok")
  /\ UNCHANGED <<table, fd, start_time, hit>>

(* The end of `get`: the new handle. *)
GetDone(t) ==
  /\ pc[t] = "btime" /\ op[t] = "get"
  /\ pid' = [pid EXCEPT ![t] = arg[t]]
  /\ create_time' = [create_time EXCEPT ![t] = StatCreateTime(t)]
  /\ who' = [who EXCEPT ![t] = fd[t]]
  /\ Return(t, "Ok")
  /\ UNCHANGED <<table, fd, start_time, hit>>

(* The end of `is_running`. *)
IsRunningDone(t) ==
  /\ pc[t] = "btime" /\ op[t] = "is_running"
  /\ Return(t, IF SameUniqueId(t) THEN "true" ELSE "false")
  /\ UNCHANGED <<table, handle, fd, start_time, hit>>

(* Mutant: the signal is sent without the check. *)
SignalUnchecked(t) ==
  /\ pc[t] = "btime" /\ op[t] \in Signals
  /\ Goto(t, "kill")
  /\ UNCHANGED <<table, handle, fd, start_time, hit>>

(* The answer of is_running inside _signal. *)
SignalChecked(t) ==
  /\ pc[t] = "btime" /\ op[t] \in Signals
  /\ \/ /\ SameUniqueId(t)
        /\ Goto(t, "kill")
     \/ /\ ~SameUniqueId(t)
        /\ Return(t, "NoSuchProcess")
  /\ UNCHANGED <<table, handle, fd, start_time, hit>>

(* pid_kill: whoever has the pid now gets the signal. *)
pid_kill(t) ==
  /\ pc[t] = "kill"
  /\ \/ \E i \in Inc \ Foreign :
          /\ Owns(i, arg[t])
          /\ Deliver(op[t], i)
          /\ hit' = [hit EXCEPT ![t] = i]
          /\ Return(t, "Ok")
     \/ /\ \E i \in Foreign : Owns(i, arg[t])
        /\ Return(t, "AccessDenied")
        /\ UNCHANGED <<table, hit>>
     \/ /\ ~Exists(arg[t])
        /\ Return(t, "NoSuchProcess")
        /\ UNCHANGED <<table, hit>>
  /\ UNCHANGED <<handle, fd, start_time>>

(* pid_setpriority: one system call, on whoever has the pid. *)
set_niceness(t) ==
  /\ HasHandle(t)
  /\ pc[t] = "idle"
  /\ op' = [op EXCEPT ![t] = "set_niceness"]
  /\ arg' = [arg EXCEPT ![t] = pid[t]]
  /\ \/ \E i \in Inc \ Foreign : /\ Owns(i, pid[t])
                                 /\ hit' = [hit EXCEPT ![t] = i]
                                 /\ result' = [result EXCEPT ![t] = "Ok"]
     \/ /\ ~\E i \in Inc \ Foreign : Owns(i, pid[t])
        /\ hit' = [hit EXCEPT ![t] = NoInc]
        /\ result' = [result EXCEPT ![t] = "Load"]
  /\ was' = [was EXCEPT ![t] = state[who[t]]]
  /\ fd' = [fd EXCEPT ![t] = NoInc]
  /\ UNCHANGED <<table, handle, pc, start_time>>

----------------------------------------------------------------------------
(* pid_wait.  waitpid collects a child that has terminated... *)
WaitReaped(t) ==
  /\ pc[t] = "waitpid"
  /\ \E i \in Kids : /\ PidOf[i] = arg[t]
                     /\ Reap(i)
                     /\ hit' = [hit EXCEPT ![t] = i]
  /\ Return(t, "Ok")
  /\ UNCHANGED <<handle, fd, start_time>>

(* Mutant: a failed waitpid is taken for a process that is gone. *)
WaitFailedIsOk(t) ==
  /\ pc[t] = "waitpid"
  /\ Interrupts \/ ~\E i \in Kids : Owns(i, arg[t])
  /\ Return(t, "Ok")
  /\ UNCHANGED <<table, handle, fd, start_time, hit>>

(* ... or fails: there is no child of this program with that pid, or a    *)
(* signal interrupts the call.  Why it failed is not looked at.           *)
WaitFailed(t) ==
  /\ pc[t] = "waitpid"
  /\ Interrupts \/ ~\E i \in Kids : Owns(i, arg[t])
  /\ Goto(t, "poll")
  /\ UNCHANGED <<table, handle, fd, start_time, hit>>

(* Mutant: the loop ends when the process is found, not when it is not. *)
PollFound(t) ==
  /\ pc[t] = "poll"
  /\ Exists(arg[t])
  /\ Return(t, "Ok")
  /\ UNCHANGED <<table, handle, fd, start_time, hit>>

(* A round of the polling loop that finds the pid gone; a round that does *)
(* not changes nothing.                                                   *)
PollGone(t) ==
  /\ pc[t] = "poll"
  /\ ~Exists(arg[t])
  /\ Return(t, "Ok")
  /\ UNCHANGED <<table, handle, fd, start_time, hit>>

(* The future of the call is dropped. *)
Drop(t) ==
  /\ pc[t] # "idle"
  /\ Return(t, "dropped")
  /\ UNCHANGED <<table, handle, fd, start_time, hit>>

----------------------------------------------------------------------------
Invoke(t) == \/ \E p \in Pid : get(t, p)
             \/ is_running(t)
             \/ \E s \in Sent : signal(t, s)
             \/ set_niceness(t)
             \/ wait(t)

StatStep(t) == \/ StatOpen(t) \/ StatRead(t)
               \/ GetDone(t) \/ IsRunningDone(t) \/ SignalChecked(t)

WaitStep(t) == WaitReaped(t) \/ WaitFailed(t) \/ PollGone(t)

Resume(t) == StatStep(t) \/ pid_kill(t) \/ WaitStep(t)

Environment == TableNext /\ UNCHANGED <<handle, call>>

Next == \/ Environment
        \/ \E t \in Task : Invoke(t) \/ Resume(t) \/ IoError(t) \/ Drop(t)

Spec == Init /\ [][Next]_vars

(* The executor polls a woken task again and the 40 ms interval ticks on. *)
FairSpec == Spec /\ \A t \in Task : WF_vars(Resume(t))

(* Moreover, a parent other than this program collects its children. *)
ReapedSpec ==
  /\ FairSpec
  /\ \A i \in Inc \ Kids : WF_vars(Reap(i) /\ UNCHANGED <<handle, call>>)

----------------------------------------------------------------------------
(* Nobody sets the clock while the program runs. *)
StableClock == \A b, c \in BootTimes : b = c

(* Process::eq is identity: two handles are equal exactly when they were  *)
(* made for the same run of the same process, whatever pids were reused   *)
(* and however the reads of two calls interleave.                         *)
HandlesIdentify ==
  \A s, t \in Task : HasHandle(s) /\ HasHandle(t) =>
    (pid[s] = pid[t] /\ create_time[s] = create_time[t] <=> who[s] = who[t])

(* suspend, resume, terminate and kill reach a process other than the     *)
(* handle's only through the window between the check and the system call: *)
(* the check has seen the right one, which has been reaped since.         *)
WrongTargetOnlyByLateReuse ==
  \A t \in Task : op[t] \in Signals /\ hit[t] \notin {NoInc, who[t]} =>
    fd[t] = who[t] /\ state[who[t]] = "gone"

(* A process that was already reaped when the method was called, and      *)
(* whose pid may have a new owner, is never signalled, and the caller is  *)
(* not told that it was ("checks whether process PID has been reused").   *)
ReuseIsRefused ==
  \A t \in Task : op[t] \in Signals /\ was[t] = "gone" =>
    hit[t] = NoInc /\ result[t] \notin {"Ok", "AccessDenied"}

(* The verdicts of is_running and of the check in _signal are right for   *)
(* the process the handle was made for: "not running" and NoSuchProcess   *)
(* only for one that is gone, "running" only for one that was not gone    *)
(* when the question was asked.                                           *)
VerdictIsTrue ==
  \A t \in Task :
    /\ result[t] = "false" => state[who[t]] = "gone"
    /\ op[t] \in Signals /\ result[t] = "NoSuchProcess"
         => state[who[t]] = "gone"
    /\ result[t] = "true" => was[t] # "gone"

(* wait() returns Ok only when the process of the handle has terminated   *)
(* and its entry is gone, also when waitpid failed, was interrupted or    *)
(* collected a later process with the same pid.                           *)
WaitOkMeansGone ==
  \A t \in Task : op[t] = "wait" /\ result[t] = "Ok" => state[who[t]] = "gone"

(* A wait() for a process that has terminated comes to an end, whether    *)
(* waitpid collects it or the polling loop finds it gone.                 *)
WaitReturns ==
  \A t \in Task : (pc[t] \in Waiting /\ Terminated(who[t]))
                     ~> pc[t] \notin Waiting

============================================================================
