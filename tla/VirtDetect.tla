---------------------------- MODULE VirtDetect ----------------------------
(***************************************************************************)
(* heim_virt::detect on Linux (heim-virt/src): a chain of probes, each of  *)
(* which looks at one file or at the CPU and either names a virtualization *)
(* system, which ends the search, or fails, which leads to the next probe; *)
(* and the classification of what was found (is_vm, is_container, as_str). *)
(*                                                                         *)
(* The contents of a file are abstracted to the keyword that the code      *)
(* looks for in it; "other" is a text with none of them, "none" a file     *)
(* that is missing or cannot be read (or an environment without the        *)
(* variable "container").                                                  *)
(***************************************************************************)
EXTENDS Naturals, Sequences, FiniteSets

CONSTANTS Archs,        \* target architectures that builds are made for
          Machines      \* what the sources of a machine show, functions

ASSUME ArchAssumption == Archs \subseteq {"x86", "arm", "powerpc", "mips"}

VARIABLES arch,         \* target architecture of the build
          shows,        \* what each source shows
          at,           \* number of the next probe
          found         \* the verdict, "None" as long as there is none

detectvars == <<arch, shows, at, found>>

Vms == {"Kvm", "Qemu", "Bochs", "Xen", "Uml", "Vmware", "Oracle", "HyperV",
        "Bhyve", "Parallels", "Qnx", "Acrn"}
Containers == {"SystemdNspawn", "LxcLibvirt", "Lxc", "OpenVz", "Docker",
               "Podman", "Rkt", "Wsl"}
Virtualization == Vms \union Containers \union {"Unknown"}

is_vm(v) == v \in {"Kvm", "Qemu", "Bochs", "Xen", "Uml", "Vmware", "Oracle",
                   "HyperV", "Bhyve", "Qnx", "Acrn"}

is_container(v) == v \in {"SystemdNspawn", "LxcLibvirt", "Lxc", "OpenVz",
                          "Docker", "Podman", "Rkt", "Wsl"}

(* The variants as_str has a string for; any other one is unreachable!(). *)
as_str(v) == IF is_vm(v) \/ is_container(v) \/ v = "Unknown"
             THEN "a string" ELSE "panic"

----------------------------------------------------------------------------
(* try_guess_container: a name it does not know is Unknown, not a failure. *)
Guess == [lxc |-> "Lxc", libvirt |-> "LxcLibvirt", nspawn |-> "SystemdNspawn",
          docker |-> "Docker", podman |-> "Podman", rkt |-> "Rkt",
          wsl |-> "Wsl", other |-> "Unknown", none |-> "None"]

(* /proc/vz exists inside and outside of an OpenVz container, /proc/bc    *)
(* outside only.                                                          *)
OpenVz == [inside |-> "OpenVz", outside |-> "None", none |-> "None"]

WslRelease == [Microsoft |-> "Wsl", WSL |-> "Wsl",
               other |-> "None", none |-> "None"]

(* The first line of the cgroup file that names a system decides. *)
Cgroups == [lxc |-> "Lxc", docker |-> "Docker", rkt |-> "Rkt",
            other |-> "None", none |-> "None"]

(* The start of the first line of a DMI file. *)
Dmi == [KVM |-> "Kvm", QEMU |-> "Qemu", VMware |-> "Vmware",
        VMW |-> "Vmware", innotek |-> "Oracle", Xen |-> "Xen",
        Bochs |-> "Bochs", Parallels |-> "Parallels", BHYVE |-> "Bhyve",
        other |-> "None", none |-> "None"]

CpuId == [Xen |-> "Xen", HyperV |-> "HyperV", KVM |-> "Kvm",
          VMware |-> "Vmware", TCG |-> "Qemu", bhyve |-> "Bhyve",
          QNX |-> "Qnx", ACRN |-> "Acrn", other |-> "None", none |-> "None"]

(* A hypervisor node that is there but not known is Unknown. *)
Hypervisor == [kvm |-> "Kvm", xen |-> "Xen", other |-> "Unknown",
               none |-> "None"]

DeviceTree == [fwcfg |-> "Qemu", other |-> "None", none |-> "None"]

----------------------------------------------------------------------------
(* The probes in the order of detect, detect_container and detect_vm_dmi, *)
(* each with the source it looks at and what it makes of it.              *)
Chain == << [source |-> "vz",           verdict |-> OpenVz],
            [source |-> "osrelease",    verdict |-> WslRelease],
            [source |-> "container",    verdict |-> Guess],
            [source |-> "environ",      verdict |-> Guess],
            [source |-> "cgroup",       verdict |-> Cgroups],
            [source |-> "product_name", verdict |-> Dmi],
            [source |-> "sys_vendor",   verdict |-> Dmi],
            [source |-> "board_vendor", verdict |-> Dmi],
            [source |-> "bios_vendor",  verdict |-> Dmi],
            [source |-> "cpuid",        verdict |-> CpuId],
            [source |-> "compatible",   verdict |-> Hypervisor],
            [source |-> "device-tree",  verdict |-> DeviceTree] >>

Sources == {Chain[k].source : k \in 1..Len(Chain)}
ContainerSources == {"vz", "osrelease", "container", "environ", "cgroup"}
DmiSources == {"product_name", "sys_vendor", "board_vendor", "bios_vendor"}

(* Which sources a build for the architecture looks at. *)
Probed(a, s) == CASE s \in ContainerSources                 -> TRUE
                  [] s \in DmiSources                       -> a \in {"x86", "arm"}
                  [] s = "cpuid"                            -> a = "x86"
                  [] s \in {"compatible", "device-tree"}    -> a \in {"arm", "powerpc"}

(* A source shows something that its probe tells apart. *)
IsMachine(m) == /\ DOMAIN m = Sources
                /\ \A k \in 1..Len(Chain) :
                     m[Chain[k].source] \in DOMAIN Chain[k].verdict

ASSUME MachineAssumption == \A m \in Machines : IsMachine(m)

(* What the k-th probe says, if the build makes it. *)
Says(k) == IF Probed(arch, Chain[k].source)
           THEN Chain[k].verdict[shows[Chain[k].source]] ELSE "None"

DetectInit == /\ arch \in Archs
              /\ shows \in Machines
              /\ at = 1
              /\ found = "None"

(* Plausible bugs: the names of VMs are tried first; a failed probe yields *)
(* a verdict; the first failing DMI file ends the search.                  *)
VmFirst == <<6, 7, 8, 9, 10, 11, 12, 1, 2, 3, 4, 5>>
ProbeVmFirst == /\ found = "None"
                /\ at <= Len(Chain)
                /\ found' = Says(VmFirst[at])
                /\ at' = at + 1
                /\ UNCHANGED <<arch, shows>>
ProbeGivesUp == /\ found = "None"
                /\ at <= Len(Chain)
                /\ found' = Says(at)
                /\ at' = IF Chain[at].source \in DmiSources
                             /\ shows[Chain[at].source] = "none"
                         THEN Len(Chain) + 1 ELSE at + 1
                /\ UNCHANGED <<arch, shows>>
ProbeKeepsNone == /\ found = "None"
                  /\ at <= Len(Chain)
                  /\ found' = IF shows[Chain[at].source] = "none" THEN "none"
                              ELSE Says(at)
                  /\ at' = at + 1
                  /\ UNCHANGED <<arch, shows>>

(* One probe of the or_else chain. *)
Probe == /\ found = "None"
         /\ at <= Len(Chain)
         /\ found' = Says(at)
         /\ at' = at + 1
         /\ UNCHANGED <<arch, shows>>

Done == found # "None" \/ at > Len(Chain)

DetectNext == Probe \/ (Done /\ UNCHANGED detectvars)

DetectSpec == DetectInit /\ [][DetectNext]_detectvars

----------------------------------------------------------------------------
(* Types: the verdict is a variant of the enum, or there is none. *)
DetectTypeOK == /\ arch \in Archs
                /\ IsMachine(shows)
                /\ at \in 1..(Len(Chain) + 1)
                /\ found \in Virtualization \union {"None"}

(* None is answered only after every source of the build has been asked:  *)
(* a file that is missing or says nothing must not hide a later one.      *)
NothingMissed ==
  Done /\ found = "None" => \A k \in 1..Len(Chain) : Says(k) = "None"

(* A container inside of a virtual machine is reported as the container:  *)
(* a VM is named only if no source of containers says anything.           *)
ContainerBeforeVm ==
  found \in Vms => \A k \in 1..Len(Chain) :
                    Chain[k].source \in ContainerSources => Says(k) = "None"

(* Every verdict of detect but one can be turned into a string, and is_vm *)
(* and is_container follow the enum; Parallels, which DMI data may name,  *)
(* is in neither list, and as_str panics for it.                          *)
VerdictIsUsable ==
  found \notin {"None", "Parallels"} =>
    /\ as_str(found) # "panic"
    /\ is_vm(found) <=> found \in Vms
    /\ is_container(found) <=> found \in Containers

(* What detect answers is the innermost system and of use to the caller. *)
VerdictIsRight == ContainerBeforeVm /\ VerdictIsUsable

============================================================================
