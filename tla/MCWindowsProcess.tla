------------------------- MODULE MCWindowsProcess -------------------------
(* WindowsQuery for TLC: a pid that is used twice, the system processes.    *)
EXTENDS WindowsQuery, TLC

CONSTANTS a1, a2,       \* incarnations with the pid pa, one after the other
          b1,           \* an incarnation with the pid pb
          s0, s4,       \* the system processes
          pa, pb, p0, p4\* pids

WindowsPids == a1 :> pa @@ a2 :> pa @@ b1 :> pb
               @@ s0 :> p0 @@ s4 :> p4

============================================================================
