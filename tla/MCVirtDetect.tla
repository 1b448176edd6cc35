---------------------------- MODULE MCVirtDetect ----------------------------
(* VirtDetect for TLC: builds that differ in the sources they probe.       *)
(* Bound: at most two sources of a machine show anything, which is enough  *)
(* for any two probes to disagree.                                         *)
EXTENDS VirtDetect

MCArchs == {"x86", "arm", "powerpc", "mips"}

Keywords(k) == DOMAIN Chain[k].verdict

MCMachines ==
  UNION {{[s \in Sources |-> CASE s = Chain[i].source -> p[1]
                               [] s = Chain[j].source -> p[2]
                               [] OTHER               -> "none"] :
            p \in Keywords(i) \X Keywords(j)} :
         i \in 1..Len(Chain), j \in 1..Len(Chain)}

=============================================================================
