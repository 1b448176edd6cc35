----------------------------- MODULE ProcTable -----------------------------
(***************************************************************************)
(* The process table of the operating system, as far as heim-process sees  *)
(* it.  It is not part of the repository: the modules that model           *)
(* heim-process use this one as their environment.                         *)
(*                                                                         *)
(* An incarnation is one run of one process, from its fork to its reaping. *)
(* Several incarnations may have the same pid, one after the other: that   *)
(* is how a pid gets reused.                                               *)
(***************************************************************************)
EXTENDS Naturals

CONSTANTS Inc,          \* incarnations
          Pid,          \* process identifiers
          PidOf,        \* the pid of an incarnation
          Kids,         \* the incarnations that are children of this program
          Foreign,      \* those this program may not signal (EPERM)
          MaxTick,      \* bound: clock ticks since boot
          BootTimes     \* values of btime; more than one if the clock is set

ASSUME TableAssumption == /\ PidOf \in [Inc -> Pid]
                          /\ Kids \subseteq Inc
                          /\ Foreign \subseteq Inc
                          /\ MaxTick \in Nat
                          /\ BootTimes \subseteq Nat

VARIABLES state,        \* where an incarnation is in its life
          start,        \* ticks from boot to its fork (starttime in its stat)
          now,          \* ticks since boot
          btime         \* wall clock time of the boot, as /proc/stat tells it

table == <<state, start, now, btime>>

Alive == {"running", "stopped"}
Listed == Alive \union {"zombie"}
States == Listed \union {"unborn", "gone"}

TableTypeOK == /\ state \in [Inc -> States]
               /\ start \in [Inc -> Nat]
               /\ now \in Nat
               /\ btime \in BootTimes

(* The incarnation that /proc/<p> and kill(p) stand for, if there is one. *)
Owns(i, p) == PidOf[i] = p /\ state[i] \in Listed
Exists(p) == \E i \in Inc : Owns(i, p)

Terminated(i) == state[i] \in {"zombie", "gone"}

TableInit == /\ state \in [Inc -> {"unborn", "running"}]
             /\ \A i, j \in Inc : Owns(i, PidOf[j]) /\ state[j] \in Listed
                                    => i = j
             /\ start = [i \in Inc |-> 0]
             /\ now = 0
             /\ btime \in BootTimes

----------------------------------------------------------------------------
Tick == /\ now < MaxTick
        /\ now' = now + 1
        /\ UNCHANGED <<state, start, btime>>

(* The wall clock is set: ticks since boot go on, the boot time moves. *)
ClockStep == /\ btime' \in BootTimes \ {btime}
             /\ UNCHANGED <<state, start, now>>

(* A pid is handed out again only when it is free, and never twice within *)
(* one tick: the kernel goes round the whole pid range first.             *)
Spawn(i) == /\ state[i] = "unborn"
            /\ \A j \in Inc \ {i} : PidOf[j] = PidOf[i] =>
                 \/ state[j] = "unborn"
                 \/ state[j] = "gone" /\ start[j] < now
            /\ state' = [state EXCEPT ![i] = "running"]
            /\ start' = [start EXCEPT ![i] = now]
            /\ UNCHANGED <<now, btime>>

Exit(i) == /\ state[i] \in Alive
           /\ state' = [state EXCEPT ![i] = "zombie"]
           /\ UNCHANGED <<start, now, btime>>

(* The parent collects the exit status.  The parent of a Kid is this      *)
(* program: its own Child::wait, or the thread of a wait() whose future   *)
(* was dropped, may collect it at any time.                               *)
Reap(i) == /\ state[i] = "zombie"
           /\ state' = [state EXCEPT ![i] = "gone"]
           /\ UNCHANGED <<start, now, btime>>

TableNext == \/ Tick
             \/ ClockStep
             \/ \E i \in Inc : Spawn(i) \/ Exit(i) \/ Reap(i)

(* What a delivered signal does to its target.  A process may handle      *)
(* SIGTERM and live on; a stopped one does not see it before SIGCONT.     *)
Signals == {"Stop", "Cont", "Term", "Kill"}

Effect(signal, s) ==
  CASE s = "zombie"                         -> {"zombie"}
    [] s \in Alive /\ signal = "Stop"       -> {"stopped"}
    [] s \in Alive /\ signal = "Cont"       -> {"running"}
    [] s \in Alive /\ signal = "Kill"       -> {"zombie"}
    [] s = "running" /\ signal = "Term"     -> {"running", "zombie"}
    [] s = "stopped" /\ signal = "Term"     -> {"stopped"}

Deliver(signal, i) == /\ \E s \in Effect(signal, state[i]) :
                           state' = [state EXCEPT ![i] = s]
                      /\ UNCHANGED <<start, now, btime>>

----------------------------------------------------------------------------
(* At any time a pid belongs to one incarnation at most, and two          *)
(* incarnations with the same pid were never forked in the same tick.     *)
PidsAreUnique ==
  \A i, j \in Inc : i # j /\ PidOf[i] = PidOf[j] =>
    /\ ~(state[i] \in Listed /\ state[j] \in Listed)
    /\ state[i] # "unborn" /\ state[j] # "unborn" => start[i] # start[j]

============================================================================
