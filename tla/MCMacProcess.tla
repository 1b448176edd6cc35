--------------------------- MODULE MCMacProcess ---------------------------
(* MacProcess for TLC: a pid that is used twice, the process of another   *)
(* user, the kernel task.                                                 *)
EXTENDS MacProcess, TLC

CONSTANTS a1, a2,       \* incarnations with the pid pa, one after the other
          f1,           \* the process of another user, with the pid pf
          k0,           \* the kernel task, with the pid p0
          pa, pf, p0

MacPids == a1 :> pa @@ a2 :> pa @@ f1 :> pf @@ k0 :> p0

============================================================================
