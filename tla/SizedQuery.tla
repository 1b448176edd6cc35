----------------------------- MODULE SizedQuery -----------------------------
(***************************************************************************)
(* The lists heim gets from macOS and Windows by a system call that fills  *)
(* a buffer of the caller: most ask for the size first, allocate, and ask  *)
(* again, while the list may grow or shrink in between.                    *)
(*                                                                         *)
(*   processes     heim-process, macOS: sysctl KERN_PROC_ALL               *)
(*   load          heim-process, Windows: NtQuerySystemInformation, and    *)
(*                 the search for one process in what it has returned      *)
(*   mounts        heim-disk, macOS: getfsstat64                           *)
(*   drives        heim-disk, Windows: GetLogicalDriveStringsW             *)
(*   net_pf_route  heim-net, macOS: sysctl NET_RT_IFLIST2                  *)
(*   nic           heim-net, Windows: GetAdaptersAddresses                 *)
(*   cpus          heim-cpu, Windows: GetLogicalProcessorInformationEx     *)
(*   cpu_info      heim-cpu, Windows: NtQuerySystemInformation, one entry  *)
(*                 per processor (times, interrupts, dpc_count)            *)
(*   perf_info     heim-cpu, Windows: the same function for the one record *)
(*                 of SYSTEM_PERFORMANCE_INFORMATION                       *)
(*   power_info    heim-cpu, Windows: CallNtPowerInformation, one entry    *)
(*                 per processor, of which the first is used               *)
(*                                                                         *)
(* A size counts entries.  A vector is its capacity, its length and the    *)
(* entries the system has written to it; it is empty until set_len, so     *)
(* `reserve` compares the capacity with the additional entries alone.      *)
(***************************************************************************)
EXTENDS Integers, FiniteSets

CONSTANTS Entry,        \* what may be in the list of the system
          Skipped,      \* entries that the walk over the list leaves out
          Bare,         \* network adapters without an address
          InitialCap,   \* capacity the buffer of `load` begins with
          MaxChanges    \* bound: changes of the list during one call

ASSUME SizedAssumption == /\ IsFiniteSet(Entry) /\ Entry # {}
                          /\ Skipped \subseteq Entry /\ Bare \subseteq Entry
                          /\ InitialCap \in Nat \ {0}
                          /\ MaxChanges \in Nat

VARIABLES list,         \* the list of the system
          debug,        \* debug_assert! is compiled in
          pc, op,       \* where the call is, and which one it is
          cap,          \* capacity of the vector
          size,         \* the size variable of the call
          data, len,    \* entries written to the vector, and its length
          target,       \* the process that `load` is searched for
          out,          \* what the walk over the vector has yielded
          tries,        \* "again" once a buffer was too small
          result,
          filled,       \* history: the list when the buffer was filled
          overrun,      \* history: the system wrote behind the buffer
          changes       \* history: how often the list changed in this call

call == <<pc, op, cap, size, data, len, target, out, tries, result, filled,
          overrun>>
vars == <<list, debug, call, changes>>

Ops == {"processes", "load", "mounts", "drives", "net_pf_route", "nic",
        "cpus", "cpu_info", "perf_info", "power_info"}

(* Calls that return an NTSTATUS and leave the error code of the thread    *)
(* alone.                                                                  *)
NtStatus == {"load", "cpu_info", "perf_info", "power_info"}

(* Calls that use the first entry of the vector only. *)
FirstOnly == {"perf_info", "power_info"}

(* Load and Stale are errors: one with the code of the system call that    *)
(* failed, the other with the code of some call before.                    *)
Results == {"none", "Ok", "Load", "Stale", "Panic", "Garbage", "Crash"}

TypeOK == /\ list \in (SUBSET Entry) \ {{}} /\ debug \in BOOLEAN
          /\ pc \in {"idle", "ask", "reserve", "fill", "walk", "spin"}
          /\ op \in Ops \union {"none"}
          /\ cap \in Nat /\ size \in Nat /\ len \in Nat
          /\ data \in SUBSET Entry /\ out \in SUBSET Entry
          /\ target \in SUBSET Entry
          /\ tries \in {"first", "again"} /\ result \in Results
          /\ filled \in SUBSET Entry /\ overrun \in BOOLEAN
          /\ changes \in 0 .. MaxChanges

Init == /\ list \in (SUBSET Entry) \ {{}} /\ debug \in BOOLEAN
        /\ pc = "idle" /\ op = "none"
        /\ cap = 0 /\ size = 0 /\ data = {} /\ len = 0 /\ out = {}
        /\ target = {} /\ tries = "first" /\ result = "none"
        /\ filled = {} /\ overrun = FALSE
        /\ changes = 0

----------------------------------------------------------------------------
(* The drives are one string, with a NUL behind the last of them. *)
Need == Cardinality(list) + (IF op = "drives" THEN 1 ELSE 0)

Larger(m, n) == IF m > n THEN m ELSE n

Begin(m) == /\ pc = "idle"
            /\ op' = m
            /\ pc' = IF m = "load" THEN "fill" ELSE "ask"
            /\ cap' = IF m = "load" THEN InitialCap ELSE 0
            /\ target' \in IF m = "load" THEN {{e} : e \in Entry} ELSE {{}}
            /\ size' = 0 /\ data' = {} /\ len' = 0 /\ out' = {}
            /\ tries' = "first" /\ result' = "none"
            /\ filled' = {} /\ overrun' = FALSE
            /\ changes' = 0
            /\ UNCHANGED <<list, debug>>

Goto(l) == pc' = l /\ UNCHANGED <<op, target, out, result>>

Return(r) == pc' = "idle" /\ result' = r /\ UNCHANGED <<op, target, out>>

Untouched == UNCHANGED <<list, debug, changes>>

Fail(r) == Return(r) /\ Untouched
           /\ UNCHANGED <<cap, size, data, len, tries, filled, overrun>>

(* An error is made of the error code of the thread. *)
FailSystem == Fail(IF op \in NtStatus THEN "Stale" ELSE "Load")

(* The system writes the list to the buffer, and set_len(n) follows. *)
Filled(n) == /\ data' = list /\ filled' = list
             /\ len' = n /\ size' = n
             /\ overrun' = (Need > cap)
             /\ Goto("walk")
             /\ UNCHANGED <<cap, tries>> /\ Untouched

(* The buffer was too small, and its size is taken again. *)
Again(l) == Goto(l) /\ tries' = "again"
            /\ UNCHANGED <<data, len, filled, overrun>> /\ Untouched

----------------------------------------------------------------------------
(* Mutant: the allocation is one entry short. *)
AskSizeShort == /\ pc = "ask" /\ op \notin {"processes", "cpus"}
                /\ size' = Need /\ cap' = Need - 1
                /\ Goto("fill")
                /\ UNCHANGED <<data, len, tries, filled, overrun>> /\ Untouched

(* The first system call, for the size, and the allocation. *)
AskSize == /\ pc = "ask" /\ op \notin {"processes", "cpus"}
           /\ size' = Need /\ cap' = Need
           /\ Goto("fill")
           /\ UNCHANGED <<data, len, tries, filled, overrun>> /\ Untouched

AskProcesses == /\ pc = "ask" /\ op = "processes"
                /\ size' = Need
                /\ cap' = IF Need > cap THEN Larger(cap, Need - cap) ELSE cap
                /\ Goto("fill")
                /\ UNCHANGED <<data, len, tries, filled, overrun>> /\ Untouched

FillProcesses == /\ pc = "fill" /\ op = "processes"
                 /\ \/ Need <= size /\ Filled(Need)
                    \/ /\ Need > size               \* ENOMEM
                       /\ Again("ask") /\ UNCHANGED <<cap, size>>

(* GetLogicalProcessorInformationEx: the loop begins with the allocation.  *)
(* The first call always fails; if for another reason than the size, the   *)
(* size stays zero and nobody notices.                                     *)
AskCpus == /\ pc = "ask" /\ op = "cpus"
           /\ size' \in {Need, 0}
           /\ Goto("reserve")
           /\ UNCHANGED <<cap, data, len, tries, filled, overrun>> /\ Untouched

ReserveCpus == /\ pc = "reserve"
               /\ cap' = Larger(cap, size - cap)
               /\ Goto("fill")
               /\ UNCHANGED <<size, data, len, tries, filled, overrun>>
               /\ Untouched

FillCpus == /\ pc = "fill" /\ op = "cpus"
            /\ \/ Need <= size /\ Filled(Need)
               \/ /\ Need > size            \* ERROR_INSUFFICIENT_BUFFER
                  /\ size' = Need
                  /\ Again("reserve") /\ UNCHANGED cap

(* Mutant: the capacity is taken into account twice. *)
LoadReservesRest ==
  /\ pc = "fill" /\ op = "load"
  /\ \/ Need <= cap /\ Filled(Need)
     \/ /\ Need > cap
        /\ cap' = Larger(cap, Need - cap) /\ size' = 1 - size
        /\ Again("fill")

(* NtProcesses::load: the capacity of the buffer is what the call is told. *)
Load == /\ pc = "fill" /\ op = "load"
        /\ \/ Need <= cap /\ Filled(Need)
           \/ /\ Need > cap                 \* STATUS_INFO_LENGTH_MISMATCH
              /\ cap' = Larger(cap, Need) /\ size' = Need
              /\ Again("fill")

(* getfsstat64 fills the buffer with as many entries as it has room for.  *)
FillMounts ==
  /\ pc = "fill" /\ op = "mounts"
  /\ \/ Need # size /\ debug /\ Fail("Panic")
     \/ /\ Need = size \/ ~debug
        /\ \E D \in SUBSET list :
             /\ Cardinality(D) = IF Need < size THEN Need ELSE size
             /\ data' = D /\ len' = Cardinality(D)
        /\ filled' = list
        /\ Goto("walk")
        /\ UNCHANGED <<cap, size, tries, overrun>> /\ Untouched

(* GetLogicalDriveStringsW: a list that does not fit is not written, and  *)
(* the result is the size with the NUL, not the length without it.        *)
FillDrives ==
  /\ pc = "fill" /\ op = "drives"
  /\ \/ Need # size /\ debug /\ Fail("Panic")
     \/ /\ Need <= size /\ ~(Need # size /\ debug)
        /\ Filled(Need)
     \/ /\ Need > size /\ ~debug
        /\ len' = Need + 1
        /\ Goto("walk")
        /\ UNCHANGED <<cap, size, data, tries, filled, overrun>> /\ Untouched

(* Mutant: the second size is taken whether or not the call succeeded. *)
FillOrFailUnchecked == /\ pc = "fill" /\ op \in {"net_pf_route", "nic"}
                       /\ Filled(Need)

(* sysctl NET_RT_IFLIST2 and GetAdaptersAddresses: too small is an error. *)
FillOrFail == /\ pc = "fill" /\ op \in {"net_pf_route", "nic"}
              /\ \/ Need <= size /\ Filled(Need)
                 \/ Need > size /\ Fail("Load")

(* query_system_information and get_processors: the length is the number  *)
(* of processors that was asked for first.                                *)
FillCpuInfo == /\ pc = "fill" /\ op \in {"cpu_info", "power_info"}
               /\ \/ Need <= size /\ Filled(size)
                  \/ Need > size /\ FailSystem

(* ... and of a class with one record no more than that is written. *)
FillPerfInfo == /\ pc = "fill" /\ op = "perf_info"
                /\ \E e \in list : data' = {e}
                /\ filled' = list /\ len' = size /\ overrun' = (1 > cap)
                /\ Goto("walk")
                /\ UNCHANGED <<cap, size, tries>> /\ Untouched

(* Mutant: the code of the system is passed on. *)
OtherErrorRaw == pc \in {"ask", "fill"} /\ Fail("ERROR_NOT_SUPPORTED")

(* A system call fails for a reason that the code does not know.  The      *)
(* first getfsstat64 is not checked: its -1 becomes the capacity of a      *)
(* vector.  GetSystemInfo cannot fail.                                     *)
OtherError ==
  \/ /\ pc = "ask" /\ op \in {"processes", "drives", "net_pf_route", "nic"}
     /\ FailSystem
  \/ pc = "ask" /\ op = "mounts" /\ Fail("Panic")
  \/ pc = "fill" /\ FailSystem

----------------------------------------------------------------------------
(* The walk over the vector yields the entries it holds, one by one.      *)
Terminators == IF op = "drives" THEN 1 ELSE 0

Yield(e) == /\ out' = out \union {e}
            /\ UNCHANGED <<list, debug, pc, op, cap, size, data, len, target,
                           tries, result, filled, overrun, changes>>

Kept(e) == op \in {"net_pf_route", "mounts", "cpus"} => e \notin Skipped

(* The search has found its process, or the first entry is there. *)
Satisfied == \/ op = "load" /\ target \subseteq out
             \/ op \in FirstOnly /\ out # {}

WalkNext == /\ pc = "walk" /\ ~Satisfied
            /\ \E e \in data \ out :
                 \/ /\ Kept(e) /\ ~(op = "nic" /\ e \in Bare)
                    /\ Yield(e)
                 \/ /\ op = "nic" /\ e \in Bare       \* a null pointer
                    /\ Fail("Crash")

(* How much of the vector is read. *)
Read == IF op \in FirstOnly THEN 1 ELSE len

(* Behind the entries that were written there is nothing to be read. *)
WalkEnd == /\ pc = "walk"
           /\ Satisfied \/ (op # "load" /\ \A e \in data \ out : ~Kept(e))
           /\ Fail(IF Read > Cardinality(data) + Terminators
                   THEN "Garbage" ELSE "Ok")

(* NtProcessesIter::next never returns None: the last entry has an offset  *)
(* of zero to the next one, which is itself.                               *)
Spin == /\ pc \in {"walk", "spin"} /\ op = "load"
        /\ ~Satisfied /\ data \subseteq out
        /\ Goto("spin")
        /\ UNCHANGED <<cap, size, data, len, tries, filled, overrun>>
        /\ Untouched

----------------------------------------------------------------------------
Step == \/ AskSize \/ AskProcesses \/ FillProcesses \/ AskCpus \/ ReserveCpus
        \/ FillCpus \/ Load \/ FillMounts \/ FillDrives \/ FillOrFail
        \/ FillCpuInfo \/ FillPerfInfo \/ OtherError
        \/ WalkNext \/ WalkEnd \/ Spin

(* Entries come and go; the list is never empty. *)
Change == /\ pc # "idle" /\ changes < MaxChanges
          /\ \E e \in Entry :
               list' = IF e \in list THEN list \ {e} ELSE list \union {e}
          /\ list' # {}
          /\ changes' = changes + 1
          /\ UNCHANGED <<debug, call>>

Next == (\E m \in Ops : Begin(m)) \/ Step \/ Change

(* A call runs in one thread and waits for nobody. *)
Spec == Init /\ [][Next]_vars /\ WF_vars(Step)

----------------------------------------------------------------------------
Wanted == {e \in filled : Kept(e)}

(* What a call that succeeds returns: the process that was searched for,   *)
(* the one record, or the list.                                            *)
Answers == CASE op = "load"      -> target \subseteq out /\ out \subseteq filled
             [] op \in FirstOnly -> \E e \in filled : out = {e}
             [] OTHER            -> out = Wanted

(* If the list stays as it is, a call that succeeds returns what is in it, *)
(* and reads and writes nothing but its buffer.  It dies of an adapter     *)
(* without an address, and of a first getfsstat64 that fails (there is no  *)
(* size then), but of nothing else.                                        *)
StableListIsExact ==
  changes = 0 => /\ ~overrun
                 /\ result # "Garbage"
                 /\ result = "Panic" => op = "mounts" /\ size = 0
                 /\ result = "Crash" =>
                      op = "nic" /\ filled \intersect Bare # {}
                 /\ result = "Ok" => Answers

(* What may happen if the list changes between the system calls, and to    *)
(* whom.  The system writes behind the buffer of `processes` and of        *)
(* LogicalProcessors::get, when they try again with a vector that was      *)
(* enlarged by the difference, and of nobody else; a build with debug      *)
(* assertions panics in mounts and drives, one without them reads          *)
(* unwritten memory in drives; query_system_information does so if the     *)
(* processors have become fewer.  Everybody else returns an error or what  *)
(* was in the list when it was copied, of which mounts leaves out what     *)
(* came late; and `buffer_size - buffer.capacity()` is not below zero.     *)
WhatChangesDo ==
  /\ overrun => /\ op \in {"processes", "cpus"}
                /\ tries = "again" /\ changes > 0
  /\ result = "Panic" =>
       \/ op = "mounts" /\ size = 0
       \/ op \in {"mounts", "drives"} /\ debug /\ changes > 0
  /\ result = "Garbage" =>
       /\ changes > 0
       /\ op = "cpu_info" \/ (op = "drives" /\ ~debug)
  /\ result = "Ok" /\ op # "mounts" => Answers
  /\ result = "Ok" /\ op = "mounts" =>
       /\ out \subseteq Wanted
       /\ out # Wanted => size < Cardinality(filled) /\ ~debug
  /\ pc = "reserve" => size >= cap

(* "Reserve enough room to store the whole process list": the system does *)
(* not write more entries than the vector has room for.                   *)
ProcessListFits == op = "processes" => ~overrun

============================================================================
