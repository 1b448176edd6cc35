-------------------------- MODULE MCLinuxProcess --------------------------
(* LinuxProcess for TLC.  ReusedPid: two incarnations share a pid. *)
EXTENDS LinuxProcess, TLC

CONSTANTS a1, a2,       \* incarnations with the pid pa, one after the other
          b1,           \* an incarnation with the pid pb
          pa, pb        \* pids

ReusedPid == a1 :> pa @@ a2 :> pa
DistinctPids == a1 :> pa @@ b1 :> pb

TaskSymmetry == Permutations(Task)

============================================================================
