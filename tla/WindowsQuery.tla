---------------------------- MODULE WindowsQuery ----------------------------
(***************************************************************************)
(* The questions a caller may ask of a heim_process::Process on Windows:   *)
(* exe, memory, cpu_time, io_counters and priority of an opened process,   *)
(* name and parent_pid with the help of a snapshot of all processes,       *)
(* status from the list of the kernel, and cwd, which is read from the     *)
(* memory of the process.  The steps are added to those of WindowsProcess. *)
(***************************************************************************)
EXTENDS WindowsProcess

CONSTANTS Idle,         \* the process with the pid 0
          Wow64         \* the 32-bit processes

ASSUME QueryAssumption == Idle \subseteq System /\ Wow64 \subseteq Inc

VARIABLE tries          \* failed attempts of read_memory so far

allvars == <<vars, tries>>

Attempts == 5

QueryTypeOK == TypeOK /\ tries \in 0 .. Attempts - 1

(* The processes that a method refuses before it opens anything. *)
RefusedFor(m) == CASE m \in {"exe", "io_counters"}  -> System
                   [] m \in {"memory", "cpu_time"}  -> Idle
                   [] OTHER                         -> {}

StartOf(m) == CASE m = "name"       -> "name_open"
                [] m = "parent_pid" -> "snapshot"
                [] m = "status"     -> "status"
                [] OTHER            -> "query_open"

ask(m) == /\ who # NoInc
          /\ Call(m, StartOf(m), PidOf[who])
          /\ UNCHANGED tries

Stay == UNCHANGED <<table, process, hit, tries>>

Answer(i) == seen' = i /\ Return("Ok") /\ Stay

----------------------------------------------------------------------------
(* query_limited_info, then for all but cwd one system call. *)
QueryOpen ==
  /\ pc = "query_open"
  /\ \/ who \in RefusedFor(op) /\ Return("AccessDenied")
     \/ /\ who \notin RefusedFor(op)
        /\ OpenProcess(IF op = "cwd" THEN "peb32_addr" ELSE "query",
                       Return("AccessDenied"))
  /\ UNCHANGED seen /\ Stay

(* A process that has exited has no image name any more. *)
HandleQuery == /\ pc = "query"
               /\ op = "exe" => state[open] \in Alive
               /\ op = "cpu_time" => open \notin Guarded
               /\ Answer(open)

(* name: any failure on the way to the image name leads to the snapshot.  *)
NameOpen ==
  /\ pc = "name_open"
  /\ \/ who \in System /\ Answer(who)
     \/ /\ who \notin System
        /\ \/ /\ \E i \in Inc \ Foreign : Owns(i, arg) /\ open' = i
              /\ Goto("name_exe")
           \/ Goto("snapshot") /\ UNCHANGED open
        /\ UNCHANGED seen /\ Stay

NameExe ==
  /\ pc = "name_exe"
  /\ \/ state[open] \in Alive /\ Answer(open)
     \/ open' = NoInc /\ Goto("snapshot") /\ UNCHANGED seen /\ Stay

(* The search in the snapshot.  Entries that cannot be read are skipped,  *)
(* so the search does not end if the same error comes again and again.    *)
SnapshotFind ==
  /\ pc = "snapshot"
  /\ \/ \E i \in UNION Lists : PidOf[i] = arg /\ Answer(i)
     \/ /\ \E L \in Lists : \A i \in L : PidOf[i] # arg
        /\ Return("NoSuchProcess") /\ UNCHANGED seen /\ Stay
     \/ Goto("spin") /\ UNCHANGED <<open, seen>> /\ Stay

(* is_suspended: the list of the kernel has no end, see Traverse. *)
Status ==
  /\ pc = "status"
  /\ \/ \E i \in UNION Lists : PidOf[i] = arg /\ Answer(i)
     \/ /\ \E L \in Lists : \A i \in L : PidOf[i] # arg
        /\ Goto("spin") /\ UNCHANGED <<open, seen>> /\ Stay

----------------------------------------------------------------------------
(* get_peb32: where the 32-bit PEB is, if the process has one (still). *)
Peb32Address ==
  /\ pc = "peb32_addr"
  /\ \/ open \in Wow64 /\ Goto("peb32")
     \/ /\ open \in Wow64 => state[open] = "zombie"
        /\ Goto("wow64")
  /\ UNCHANGED <<open, seen>> /\ Stay

(* get_peb: the PEB of a 32-bit process is not read this way. *)
IsWow64 ==
  /\ pc = "wow64"
  /\ \/ open \in Wow64 /\ seen' = open /\ Return("UnreadablePeb")
     \/ open \notin Wow64 /\ Goto("peb") /\ UNCHANGED <<open, seen>>
  /\ Stay

(* What is read one after the other: the PEB, the parameters it points to *)
(* and the path these point to.                                           *)
Follows == [peb32 |-> "params32", params32 |-> "path",
            peb |-> "params", params |-> "path"]

(* Mutant: a partial copy is retried until it succeeds. *)
PartialCopyForever == /\ pc \in ReadStages
                      /\ tries' = 1 - tries
                      /\ Goto(pc) /\ UNCHANGED open
                      /\ UNCHANGED <<table, process, hit, seen>>

(* read_memory: up to five attempts as long as the error is               *)
(* ERROR_PARTIAL_COPY; the memory of a process that has exited is gone.   *)
PartialCopy == /\ pc \in ReadStages
               /\ \/ /\ tries < Attempts - 1
                     /\ tries' = tries + 1
                     /\ Goto(pc) /\ UNCHANGED open
                  \/ /\ tries = Attempts - 1
                     /\ tries' = 0
                     /\ Return("Load")
               /\ UNCHANGED <<table, process, hit, seen>>

ReadMemory ==
  /\ pc \in ReadStages /\ state[open] \in Alive
  /\ \/ /\ pc # "path"
        /\ Goto(Follows[pc])
        /\ UNCHANGED <<open, seen>>
     \/ /\ pc = "path"
        /\ seen' = open
        /\ Return("Ok")
  /\ tries' = 0
  /\ UNCHANGED <<table, process, hit>>

----------------------------------------------------------------------------
QueryStep == \/ QueryOpen \/ HandleQuery \/ NameOpen \/ NameExe \/ SnapshotFind
             \/ Status \/ Peb32Address \/ IsWow64 \/ PartialCopy \/ ReadMemory

(* Any other failure ends the call, and with it the attempts. *)
Failure == LoadError /\ tries' = 0

QueryInit == Init /\ tries = 0

QueryNext == \/ (Environment \/ Invoke \/ Resume) /\ UNCHANGED tries
             \/ Failure
             \/ \E m \in Queries : ask(m)
             \/ QueryStep

(* The calls run to their end: nothing in them waits for anybody else. *)
QuerySpec == /\ QueryInit /\ [][QueryNext]_allvars
             /\ WF_allvars(QueryStep)

----------------------------------------------------------------------------
(* An answer describes the process the handle was made for, or, if that   *)
(* one is gone, the next owner of its pid, although name and parent_pid   *)
(* look the pid up a second time and in another list.                     *)
AnswerIsOwn ==
  op \in Queries /\ result \in {"Ok", "UnreadablePeb"} =>
    /\ seen # NoInc /\ PidOf[seen] = PidOf[who]
    /\ seen # who => state[who] = "gone"

(* UnreadablePeb is said of nothing but a 32-bit process that has exited: *)
(* any other one has a PEB that one of the two ways finds.                *)
UnreadablePebMeansExited ==
  result = "UnreadablePeb" => seen \in Wow64 /\ Terminated(seen)

(* AccessDenied is said only where somebody whom the caller may not open  *)
(* has or had the pid.                                                    *)
DeniedMeansForbidden ==
  result = "AccessDenied" =>
    \E i \in Foreign : PidOf[i] = arg /\ state[i] # "unborn"

(* What a call tells of the process it was asked about: running or not,   *)
(* exited, unreadable or forbidden.                                       *)
WhatCallsTell == /\ VerdictTells
                 /\ UnreadablePebMeansExited
                 /\ DeniedMeansForbidden

(* The five attempts bound the reading of foreign memory: cwd returns,    *)
(* however often the copies are partial.                                  *)
CwdReturns == pc \in ReadStages ~> pc = "idle"

============================================================================
