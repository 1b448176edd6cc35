--------------------------- MODULE WindowsProcess ---------------------------
(***************************************************************************)
(* heim_process::Process on Windows (heim-process/src/sys/windows):        *)
(* obtaining a handle, asking whether it is still running, and suspending, *)
(* resuming, killing it or changing its priority.  What else a caller may  *)
(* ask is in WindowsQuery, which adds its steps to these.                  *)
(*                                                                         *)
(* In terms of the process table, a zombie is a process that has exited    *)
(* while somebody has it open; its pid is free once nobody has ("gone").   *)
(* The calls do not suspend, but the rest of the system goes on between    *)
(* any two of the system calls they make.                                  *)
(***************************************************************************)
EXTENDS ProcTable, FiniteSets

CONSTANTS NoInc, NoPid, \* stand for "none"
          System,       \* the processes with the pids 0 and 4
          StillActive,  \* those that exit with the code STILL_ACTIVE
          Lingering,    \* those that stay in the lists after they exited
          Shielded,     \* those TerminateProcess is refused for
          Guarded,      \* those GetProcessTimes is refused for
          Capacity,     \* number of pids that the buffer of pids() holds
          Epoch         \* 1601 to 1970, longer than any system runs

ASSUME WindowsAssumption == /\ NoInc \notin Inc /\ NoPid \notin Pid
                            /\ System \subseteq Foreign
                            /\ StillActive \subseteq Inc
                            /\ Lingering \subseteq Inc
                            /\ Shielded \subseteq Inc
                            /\ Guarded \subseteq Inc
                            /\ Capacity \in Nat \ {0}
                            /\ Epoch \in Nat /\ MaxTick < Epoch

VARIABLES who,          \* the incarnation the Process was made for
          create_time,  \* its UniqueId::create_time
          dying,        \* those that TerminateProcess has been told to end
          pc, op, arg,  \* where the call is, its method and its pid
          open,         \* the incarnation a ProcessHandle is open on
          result,       \* what the last call returned
          seen,         \* history: whose creation time the call has read
          was,          \* history: the state of `who` when the call began
          hit           \* history: the incarnation the call acted on

process == <<who, create_time, dying>>
call == <<pc, op, arg, open, result, seen, was, hit>>
vars == <<table, process, call>>

Acts == {"suspend", "resume", "kill", "set_priority"}
OnHandle == {"exe", "memory", "cpu_time", "io_counters", "priority"}
Queries == OnHandle \union {"name", "parent_pid", "status", "cwd"}
Ops == Acts \union Queries \union {"none", "get", "is_running"}
ReadStages == {"peb32", "params32", "peb", "params", "path"}
QueryPCs == {"query_open", "query", "name_open", "name_exe", "snapshot",
             "status", "peb32_addr", "wow64"} \union ReadStages
PCs == {"idle", "exists", "exit_code", "enum", "create", "times", "traverse",
        "spin", "open", "act"} \union QueryPCs
Results == {"none", "Ok", "true", "false", "NoSuchProcess", "AccessDenied",
            "Load", "UnreadablePeb"}

TypeOK == /\ TableTypeOK
          /\ who \in Inc \union {NoInc} /\ create_time \in Nat
          /\ dying \subseteq Inc
          /\ pc \in PCs /\ op \in Ops /\ arg \in Pid \union {NoPid}
          /\ open \in Inc \union {NoInc} /\ result \in Results
          /\ seen \in Inc \union {NoInc} /\ was \in States
          /\ hit \in Inc \union {NoInc}
          /\ (open # NoInc => PidOf[open] = arg /\ state[open] \in Listed)

Init == /\ TableInit
        /\ \A i \in System : state[i] = "running"
        /\ who = NoInc /\ create_time = 0 /\ dying = {}
        /\ pc = "idle" /\ op = "none" /\ arg = NoPid
        /\ open = NoInc /\ result = "none"
        /\ seen = NoInc /\ was = "unborn" /\ hit = NoInc

----------------------------------------------------------------------------
Call(m, l, p) ==
  /\ pc = "idle"
  /\ pc' = l /\ op' = m /\ arg' = p
  /\ result' = "none"
  /\ seen' = NoInc /\ hit' = NoInc
  /\ was' = IF who = NoInc THEN "unborn" ELSE state[who]
  /\ UNCHANGED <<table, process, open>>

Goto(l) == /\ pc' = l
           /\ UNCHANGED <<op, arg, result, was>>

(* Mutant: the handle is leaked. *)
ReturnLeaks(r) == /\ pc' = "idle"
                  /\ result' = r
                  /\ UNCHANGED <<op, arg, was, open>>

(* The handle is closed when it goes out of scope. *)
Return(r) == /\ pc' = "idle"
             /\ result' = r
             /\ open' = NoInc
             /\ UNCHANGED <<op, arg, was>>

get(p) == Call("get", "exists", p)
is_running == who # NoInc /\ Call("is_running", "exists", PidOf[who])

(* suspend, resume, terminate (an alias of kill), kill and set_priority. *)
act(m) == who # NoInc /\ Call(m, "open", PidOf[who])

(* Mutant: the pid is not looked at. *)
OpenAnything(l, Denied) ==
  \/ \E i \in Inc \ Foreign : state[i] \in Listed /\ open' = i /\ Goto(l)
  \/ Denied

(* OpenProcess for the pid of the call: it goes on with the handle at l,  *)
(* is refused and does what Denied says, or fails with NoSuchProcess.     *)
OpenProcess(l, Denied) ==
  \/ \E i \in Inc \ Foreign : Owns(i, arg) /\ open' = i /\ Goto(l)
  \/ (\E i \in Foreign : Owns(i, arg)) /\ Denied
  \/ ~Exists(arg) /\ Return("NoSuchProcess")

----------------------------------------------------------------------------
(* pid_exists.  A process that may not be opened exists, and so does one   *)
(* whose exit code is STILL_ACTIVE; any other one must be in the list.     *)
ExistsOpen ==
  /\ pc = "exists"
  /\ OpenProcess("exit_code", open' = NoInc /\ Goto("create"))
  /\ UNCHANGED <<table, process, seen, hit>>

ExistsExitCode ==
  /\ pc = "exit_code"
  /\ IF state[open] \in Alive \/ open \in StillActive
     THEN open' = NoInc /\ Goto("create")
     ELSE UNCHANGED open /\ Goto("enum")
  /\ UNCHANGED <<table, process, seen, hit>>

(* What EnumProcesses and NtQuerySystemInformation list: every process    *)
(* that has not exited, and of those that have exited some that linger.   *)
Lists == {L \in SUBSET Inc :
            /\ \A i \in L : state[i] \in Listed
            /\ \A i \in L : state[i] = "zombie" => i \in Lingering
            /\ \A i \in Inc : state[i] \in Alive => i \in L}

(* bindings::pids.  The call has to leave room in the buffer; as nothing   *)
(* in the vector counts as used, `reserve` never makes the buffer larger.  *)
ExistsEnum ==
  /\ pc = "enum"
  /\ \E L \in Lists :
       \/ /\ Cardinality(L) < Capacity
          /\ \E i \in L : PidOf[i] = arg
          /\ open' = NoInc
          /\ Goto("create")
       \/ /\ Cardinality(L) < Capacity
          /\ \A i \in L : PidOf[i] # arg
          /\ Return("NoSuchProcess")
       \/ /\ Cardinality(L) >= Capacity
          /\ UNCHANGED open
          /\ Goto("enum")
  /\ UNCHANGED <<table, process, seen, hit>>

(* Mutant: a process is compared with the stored one by its pid alone. *)
CreatedByPid(i, t) ==
  /\ seen' = i
  /\ \/ /\ op = "get"
        /\ who' = i /\ create_time' = t /\ UNCHANGED dying
        /\ Return("Ok")
     \/ /\ op = "is_running"
        /\ Return("true")
        /\ UNCHANGED process
  /\ UNCHANGED <<table, hit>>

(* The end of `get`, and of the comparison in `is_running`. *)
Created(i, t) ==
  /\ seen' = i
  /\ \/ /\ op = "get"
        /\ who' = i /\ create_time' = t /\ UNCHANGED dying
        /\ Return("Ok")
     \/ /\ op = "is_running"
        /\ Return(IF t = create_time THEN "true" ELSE "false")
        /\ UNCHANGED process
  /\ UNCHANGED <<table, hit>>

(* create_time::get.  For the system processes it asks for the boot time, *)
(* and heim_host::boot_time answers with the time of the call.            *)
CreateOpen ==
  /\ pc = "create"
  /\ \/ \E i \in System : PidOf[i] = arg /\ Created(i, now + btime)
     \/ /\ \A i \in System : PidOf[i] # arg
        /\ OpenProcess("times", Return("AccessDenied"))
        /\ UNCHANGED <<table, process, seen, hit>>

CreateTimes ==
  /\ pc = "times"
  /\ \/ open \notin Guarded /\ Created(open, start[open])
     \/ /\ open \in Guarded
        /\ Goto("traverse")
        /\ UNCHANGED <<table, process, open, seen, hit>>

(* The search in the list of the kernel.  Its times are not converted to  *)
(* the Unix epoch, and its iterator has no end: behind the last entry it  *)
(* yields that entry again.                                               *)
Traverse ==
  /\ pc = "traverse"
  /\ \E L \in Lists :
       \/ open \in L /\ Created(open, start[open] + Epoch)
       \/ /\ open \notin L
          /\ Goto("spin")
          /\ UNCHANGED <<table, process, open, seen, hit>>

Spin == pc = "spin" /\ UNCHANGED vars

----------------------------------------------------------------------------
(* The handle for an action is opened by pid, without a look at the       *)
(* creation time.                                                         *)
ActOpen ==
  /\ pc = "open"
  /\ OpenProcess("act", Return("AccessDenied"))
  /\ UNCHANGED <<table, process, seen, hit>>

(* ProcessHandle::suspend, resume and set_priority: they fail for a       *)
(* process that has exited.                                               *)
Act ==
  /\ pc = "act" /\ op # "kill"
  /\ hit' = open
  /\ \/ /\ state[open] \in Alive
        /\ state' = [state EXCEPT ![open] =
                       CASE op = "suspend" -> "stopped"
                         [] op = "resume" -> "running" [] OTHER -> @]
        /\ Return("Ok")
     \/ /\ state[open] = "zombie"
        /\ Return("Load")
        /\ UNCHANGED state
  /\ UNCHANGED <<start, now, btime, process, seen>>

(* ProcessHandle::terminate.  TerminateProcess initiates the end of the   *)
(* process and does not wait for it.  ERROR_ACCESS_DENIED counts as       *)
(* success: it comes for a process that has exited or is about to, and    *)
(* for a living one that may not be ended.                                *)
Terminate ==
  /\ pc = "act" /\ op = "kill"
  /\ hit' = open
  /\ dying' = dying \union {i \in {open} \ Shielded : state[i] \in Alive}
  /\ Return("Ok")
  /\ UNCHANGED <<table, who, create_time, seen>>

(* Mutant: an action that fails is taken for done. *)
LoadErrorIsOk ==
  /\ pc = "act"
  /\ hit' = open
  /\ Return("Ok")
  /\ UNCHANGED <<table, process, seen>>

(* Any system call may fail for another reason. *)
LoadError ==
  /\ pc \notin {"idle", "spin"}
  /\ Return("Load")
  /\ UNCHANGED <<table, process, seen, hit>>

----------------------------------------------------------------------------
Invoke == (\E p \in Pid : get(p)) \/ is_running \/ (\E m \in Acts : act(m))

Resume == \/ ExistsOpen \/ ExistsExitCode \/ ExistsEnum
          \/ CreateOpen \/ CreateTimes \/ Traverse \/ Spin
          \/ ActOpen \/ Act \/ Terminate

(* An open process is kept; the system processes do not exit. *)
Environment == /\ TableNext
               /\ open # NoInc => state'[open] # "gone"
               /\ \A i \in System : state'[i] = state[i]
               /\ UNCHANGED <<process, call>>

Next == Environment \/ Invoke \/ Resume \/ LoadError

Spec == Init /\ [][Next]_vars

----------------------------------------------------------------------------
(* What is_running and get say of a process.  "false" is said only if the *)
(* pid has another owner (of a system process it is said in error),       *)
(* NoSuchProcess only if the process has exited.  "true" is said of the   *)
(* right process, but it need not be "still running", as the              *)
(* documentation has it: one that had exited before the call is called    *)
(* running if its exit code is STILL_ACTIVE (the TODO in pid_exists) or   *)
(* if it lingers in the list of pids; in no other case.                   *)
VerdictTells ==
  /\ result = "true" =>
       /\ seen = who
       /\ \/ was \in Alive
          \/ was = "zombie" /\ who \in StillActive \union Lingering
  /\ result = "false" /\ who \notin System => seen # who /\ state[who] = "gone"
  /\ op # "get" /\ result = "NoSuchProcess" => Terminated(who)

(* What an action reaches is the process whose handle it has, although    *)
(* the pid could change hands between OpenProcess and the action: a       *)
(* stranger is reached only if the process was gone before.  A kill that  *)
(* says Ok has reached one that has exited or whose end was initiated, or *)
(* one that may not be ended and lives on (the TODO in terminate).        *)
ActReachesHandle ==
  /\ hit # NoInc => PidOf[hit] = PidOf[who]
  /\ hit \notin {NoInc, who} => state[who] = "gone"
  /\ op = "kill" /\ result = "Ok" =>
       Terminated(hit) \/ hit \in dying \union Shielded

(* "Before the signal send, it checks whether process PID has been        *)
(* reused": nothing is done to the next owner of the pid of a process     *)
(* that was gone when the method was called.                              *)
ActIsChecked == op \in Acts /\ was = "gone" => hit = NoInc

============================================================================
