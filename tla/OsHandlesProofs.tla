--------------------------- MODULE OsHandlesProofs ---------------------------
(***************************************************************************)
(* Proofs about OsHandles and SizedQuery, for any list of entries, any     *)
(* number of changes of it and any number of system calls that fail.       *)
(***************************************************************************)
EXTENDS OsHandles, FiniteSetTheorems, TLAPS

----------------------------------------------------------------------------
(* The inductive invariant *)

HPCs == {"idle", "stopped", "open", "next", "drop", "dropped", "filter",
         "ioctl", "close", "mode", "volume", "restore", "info", "address",
         "services", "parent", "conforms", "properties", "keys", "cpus",
         "copy", "type", "user", "panicked"}

VolumeOps == {"volumes", "volumes_physical"}
Streams == VolumeOps \union {"information", "sessions", "media"}

(* Which call may be where, and only one call is under way. *)
Places ==
  /\ hpc \in HPCs /\ hop \in HandleOps \union {"none"}
  /\ hpc \in {"filter", "ioctl", "close"} => hop \in VolumeOps
  /\ hpc \in {"mode", "volume", "restore"} => hop = "information"
  /\ hpc \in {"info", "address"} => hop = "sessions"
  /\ hpc \in {"services", "parent", "conforms", "properties", "keys"} =>
       hop = "media"
  /\ hpc \in {"cpus", "copy"} => hop = "load_info"
  /\ hpc \in {"type", "user"} => hop = "users"
  /\ hpc = "open" => hop \in {"sessions", "media", "load_info", "users"}
  /\ hpc = "next" => hop \in Streams \union {"users"}
  /\ hpc \in {"drop", "dropped"} => hop \in Streams
  /\ hop = "none" => hpc = "idle"
  /\ hop # "none" => op = "none" /\ pc = "idle"

(* What may be held where. *)
HeldShape ==
  /\ held \subseteq Device \union {"find", "file", "array", "info", "port",
                                   "iterator", "host", "memory"}
  /\ "find" \in held => ~Ended /\ hop \in VolumeOps
  /\ "file" \in held => hpc \in {"ioctl", "close"}
  /\ "array" \in held => ~Ended /\ hpc # "open" /\ hop = "sessions"
  /\ "info" \in held => hpc = "address"
  /\ "port" \in held => hpc = "services"
  /\ "iterator" \in held => /\ ~Ended /\ hop = "media"
                            /\ hpc \notin {"open", "services"}
  /\ \A d \in Device : d \in held =>
       hpc \in {"parent", "conforms", "properties", "keys"}
  /\ "host" \in held => hpc \in {"cpus", "copy"}
  /\ "memory" \in held => hpc = "copy"

(* What is lost, and the mode between two changes of it. *)
LostShape ==
  /\ mode \in {"old", "critical"}
  /\ mode = "critical" => hpc \in {"volume", "restore"} \/ "mode" \in lost
  /\ lost \subseteq {"unclosable", "mode", "info", "address"}
  /\ "info" \in lost => hop = "sessions"
  /\ "address" \in lost => hop = "sessions" /\ hpc = "panicked"
  /\ hop # "sessions" => foreign = FALSE

(* Nothing is refused by the system without a failure. *)
CountShape ==
  /\ failures \in Nat
  /\ "unclosable" \in lost \/ "mode" \in lost => failures > 0

(* A call in the middle that failed has left its code. *)
CodeShape ==
  /\ status \in {"ok", "ignored", "failed"}
  /\ status # "ok" => hpc \in {"close", "restore"}
  /\ hop \in Windows /\ status # "ok" => err # "stale"
  /\ hop \notin KernReturn => "stale" \notin reported
  /\ hop \in KernReturn => /\ err = "stale"
                           /\ reported \subseteq {"stale", "missing_key"}

HandleInv == Places /\ HeldShape /\ LostShape /\ CountShape /\ CodeShape

(* The sizes of the system and of the buffer, until it is filled: they     *)
(* agree before a buffer was too small, and the loop of                    *)
(* GetLogicalProcessorInformationEx never shrinks below the capacity.      *)
SizeShape ==
  /\ pc # "idle" => op # "none" /\ result = "none"
  /\ op = "none" => result = "none" /\ ~overrun
  /\ pc \in {"ask", "reserve", "fill"} => out = {} /\ ~overrun
  /\ pc \in {"ask", "reserve", "fill"} => data = {} /\ filled = {}
  /\ pc = "reserve" => op = "cpus"
  /\ pc = "ask" => op # "load" /\ (op # "processes" => cap = 0 /\ size = 0)
  /\ op \notin {"processes", "cpus", "load"} => tries = "first"
  /\ pc = "ask" /\ tries = "first" => cap = 0
  /\ pc = "reserve" /\ tries = "first" => cap = 0
  /\ pc = "fill" /\ op # "load" /\ tries = "first" => cap = size
  /\ pc = "fill" /\ op = "perf_info" => cap > 0
  /\ op = "load" => \E e \in Entry : target = {e}
  /\ pc \in {"ask", "reserve", "fill"} /\ op = "cpus" => cap <= size

(* The walk over the buffer. *)
WalkShape ==
  /\ pc \in {"walk", "spin"} =>
       out \subseteq {e \in data : Kept(e)} /\ data \subseteq filled
  /\ pc \in {"walk", "spin"} /\ op \notin {"mounts", "perf_info"} =>
       data = filled
  /\ pc = "walk" /\ op = "mounts" /\ data # filled =>
       size < Cardinality(filled) /\ ~debug
  /\ pc = "walk" /\ len > Cardinality(data) + Terminators =>
       op \in {"cpu_info"} \union FirstOnly \/ (op = "drives" /\ ~debug)
  /\ pc = "walk" /\ op \in FirstOnly =>
       data # {} /\ (out = {} \/ \E e \in filled : out = {e})
  /\ pc = "spin" => op = "load" /\ target \intersect filled = {}

(* What a call has done so far, and how it has ended. *)
SafeShape ==
  /\ overrun => op \in {"processes", "cpus"} /\ tries = "again"
  /\ result = "Panic" => \/ op = "mounts" /\ size = 0
                         \/ op \in {"mounts", "drives"} /\ debug
  /\ result = "Garbage" => op = "cpu_info" \/ (op = "drives" /\ ~debug)
  /\ result = "Ok" /\ op # "mounts" => Answers
  /\ result = "Ok" /\ op = "mounts" =>
       /\ out \subseteq Wanted
       /\ out # Wanted => size < Cardinality(filled) /\ ~debug
  /\ result = "Stale" => op \in NtStatus
  /\ result = "Load" => op \notin NtStatus
  /\ pc = "reserve" => size >= cap

(* As long as the list stays as it is, the sizes agree. *)
StableShape ==
  changes = 0 =>
    /\ pc = "ask" => cap = 0
    /\ pc = "reserve" => size \in {0, Need} /\ cap = 0
    /\ pc = "fill" /\ op \notin {"load", "cpus"} => size = Need /\ cap = Need
    /\ pc = "fill" /\ op = "cpus" => size \in {0, Need} /\ cap = size
    /\ pc = "walk" => ~overrun
    /\ pc = "walk" /\ op # "perf_info" =>
         data = filled /\ len <= Cardinality(data) + Terminators
    /\ StableListIsExact

SizedInv == TypeOK /\ SizeShape /\ WalkShape /\ SafeShape

----------------------------------------------------------------------------
(* What is held, lost and reported *)

LEMMA HandleInitInv == AllInit => HandleInv
BY DEF AllInit, Init, HandleInit, HandleInv, Places, HeldShape, LostShape,
   CountShape, CodeShape, HPCs, Ended, Windows, KernReturn

(* Volumes::next, and disk_performance of each volume. *)
LEMMA VolumesInv ==
  ASSUME HandleInv, Others, UNCHANGED mode,
         FindFirstVolume \/ FindNextVolume \/ VolumeFilter \/ DeviceIoControl \/ CloseFile
  PROVE  HandleInv'
<1> USE DEF Others, Do, Same, MoveTo, Pass, Give, FailWith, Report, SetsCode,
        OneMoreFailure, DropInfo
<1>1. CASE FindFirstVolume
  <2> USE <1>1 DEF FindFirstVolume
  <2>1. Places'
    BY DEF HandleInv, Places, HPCs, HandleOps, VolumeOps, Streams
  <2>2. HeldShape'
    BY DEF HandleInv, Places, HeldShape, Ended, Device, VolumeOps, Streams
  <2>3. LostShape'
    BY DEF HandleInv, Places, LostShape
  <2>4. CountShape'
    BY DEF HandleInv, CountShape
  <2>5. CodeShape'
    BY DEF HandleInv, Places, CodeShape, Windows, KernReturn, VolumeOps,
       Streams
  <2> QED
    BY <2>1, <2>2, <2>3, <2>4, <2>5 DEF HandleInv
<1>2. CASE FindNextVolume
  <2> USE <1>2 DEF FindNextVolume
  <2>1. Places'
    BY DEF HandleInv, Places, HPCs, HandleOps, VolumeOps, Streams
  <2>2. HeldShape'
    BY DEF HandleInv, Places, HeldShape, Ended, Device, VolumeOps, Streams
  <2>3. LostShape'
    BY DEF HandleInv, Places, LostShape
  <2>4. CountShape'
    BY DEF HandleInv, CountShape
  <2>5. CodeShape'
    BY DEF HandleInv, Places, CodeShape, Windows, KernReturn, VolumeOps,
       Streams
  <2> QED
    BY <2>1, <2>2, <2>3, <2>4, <2>5 DEF HandleInv
<1>3. CASE VolumeFilter
  <2> USE <1>3 DEF VolumeFilter
  <2>1. Places'
    BY DEF HandleInv, Places, HPCs, HandleOps, VolumeOps, Streams
  <2>2. HeldShape'
    BY DEF HandleInv, Places, HeldShape, Ended, Device, VolumeOps, Streams
  <2>3. LostShape'
    BY DEF HandleInv, Places, LostShape
  <2>4. CountShape'
    BY DEF HandleInv, CountShape
  <2>5. CodeShape'
    BY DEF HandleInv, Places, CodeShape, Windows, KernReturn, VolumeOps,
       Streams
  <2> QED
    BY <2>1, <2>2, <2>3, <2>4, <2>5 DEF HandleInv
<1>4. CASE DeviceIoControl
  <2> USE <1>4 DEF DeviceIoControl
  <2>1. Places'
    BY DEF HandleInv, Places, HPCs, HandleOps, VolumeOps, Streams
  <2>2. HeldShape'
    BY DEF HandleInv, Places, HeldShape, Ended, Device, VolumeOps, Streams
  <2>3. LostShape'
    BY DEF HandleInv, Places, LostShape
  <2>4. CountShape'
    BY DEF HandleInv, CountShape
  <2>5. CodeShape'
    BY DEF HandleInv, Places, CodeShape, Windows, KernReturn, VolumeOps,
       Streams
  <2> QED
    BY <2>1, <2>2, <2>3, <2>4, <2>5 DEF HandleInv
<1>5. CASE CloseFile
  <2> USE <1>5 DEF CloseFile
  <2>1. Places'
    BY DEF HandleInv, Places, HPCs, HandleOps, VolumeOps, Streams
  <2>2. HeldShape'
    BY DEF HandleInv, Places, HeldShape, Ended, Device, VolumeOps, Streams
  <2>3. LostShape'
    BY DEF HandleInv, Places, LostShape
  <2>4. CountShape'
    BY DEF HandleInv, CountShape
  <2>5. CodeShape'
    BY DEF HandleInv, Places, CodeShape, Windows, KernReturn, VolumeOps,
       Streams
  <2> QED
    BY <2>1, <2>2, <2>3, <2>4, <2>5 DEF HandleInv
<1> QED
  BY <1>1, <1>2, <1>3, <1>4, <1>5

(* Drive::information. *)
LEMMA DrivesInv ==
  ASSUME HandleInv, Others, UNCHANGED mode,
         DriveNext \/ GetVolumeInformation
  PROVE  HandleInv'
<1> USE DEF Others, Do, Same, MoveTo, Pass, Give, FailWith, Report, SetsCode,
        OneMoreFailure, DropInfo
<1>1. CASE DriveNext
  <2> USE <1>1 DEF DriveNext
  <2>1. Places'
    BY DEF HandleInv, Places, HPCs, HandleOps, VolumeOps, Streams
  <2>2. HeldShape'
    BY DEF HandleInv, Places, HeldShape, Ended, Device, VolumeOps, Streams
  <2>3. LostShape'
    BY DEF HandleInv, Places, LostShape
  <2>4. CountShape'
    BY DEF HandleInv, CountShape
  <2>5. CodeShape'
    BY DEF HandleInv, Places, CodeShape, Windows, KernReturn, VolumeOps,
       Streams
  <2> QED
    BY <2>1, <2>2, <2>3, <2>4, <2>5 DEF HandleInv
<1>2. CASE GetVolumeInformation
  <2> USE <1>2 DEF GetVolumeInformation
  <2>1. Places'
    BY DEF HandleInv, Places, HPCs, HandleOps, VolumeOps, Streams
  <2>2. HeldShape'
    BY DEF HandleInv, Places, HeldShape, Ended, Device, VolumeOps, Streams
  <2>3. LostShape'
    BY DEF HandleInv, Places, LostShape
  <2>4. CountShape'
    BY DEF HandleInv, CountShape
  <2>5. CodeShape'
    BY DEF HandleInv, Places, CodeShape, Windows, KernReturn, VolumeOps,
       Streams
  <2> QED
    BY <2>1, <2>2, <2>3, <2>4, <2>5 DEF HandleInv
<1> QED
  BY <1>1, <1>2

(* The error mode is set and restored. *)
LEMMA ModeInv ==
  ASSUME HandleInv, Others, SetMode \/ RestoreMode
  PROVE  HandleInv'
<1> USE DEF Others, Do, Same, MoveTo, Pass, Give, FailWith, Report, SetsCode,
        OneMoreFailure, DropInfo
<1>1. CASE SetMode
  <2> USE <1>1 DEF SetMode
  <2>1. Places'
    BY DEF HandleInv, Places, HPCs, HandleOps, VolumeOps, Streams
  <2>2. HeldShape'
    BY DEF HandleInv, Places, HeldShape, Ended, Device, VolumeOps, Streams
  <2>3. LostShape'
    BY DEF HandleInv, Places, LostShape
  <2>4. CountShape'
    BY DEF HandleInv, CountShape
  <2>5. CodeShape'
    BY DEF HandleInv, Places, CodeShape, Windows, KernReturn, VolumeOps,
       Streams
  <2> QED
    BY <2>1, <2>2, <2>3, <2>4, <2>5 DEF HandleInv
<1>2. CASE RestoreMode
  <2> USE <1>2 DEF RestoreMode
  <2>1. Places'
    BY DEF HandleInv, Places, HPCs, HandleOps, VolumeOps, Streams
  <2>2. HeldShape'
    BY DEF HandleInv, Places, HeldShape, Ended, Device, VolumeOps, Streams
  <2>3. LostShape'
    BY DEF HandleInv, Places, LostShape
  <2>4. CountShape'
    BY DEF HandleInv, CountShape
  <2>5. CodeShape'
    BY DEF HandleInv, Places, CodeShape, Windows, KernReturn, VolumeOps,
       Streams
  <2> QED
    BY <2>1, <2>2, <2>3, <2>4, <2>5 DEF HandleInv
<1> QED
  BY <1>1, <1>2

(* Sessions::next, and from_session of each of them. *)
LEMMA SessionsInv ==
  ASSUME HandleInv, Others, UNCHANGED mode,
         EnumerateSessions \/ SessionNext \/ SessionInfo \/ SessionAddress
           \/ UnknownFamily
  PROVE  HandleInv'
<1> USE DEF Others, Do, Same, MoveTo, Pass, Give, FailWith, Report, SetsCode,
        OneMoreFailure, DropInfo
<1>1. CASE EnumerateSessions
  <2> USE <1>1 DEF EnumerateSessions
  <2>1. Places'
    BY DEF HandleInv, Places, HPCs, HandleOps, VolumeOps, Streams
  <2>2. HeldShape'
    BY DEF HandleInv, Places, HeldShape, Ended, Device, VolumeOps, Streams
  <2>3. LostShape'
    BY DEF HandleInv, Places, LostShape
  <2>4. CountShape'
    BY DEF HandleInv, CountShape
  <2>5. CodeShape'
    BY DEF HandleInv, Places, CodeShape, Windows, KernReturn, VolumeOps,
       Streams
  <2> QED
    BY <2>1, <2>2, <2>3, <2>4, <2>5 DEF HandleInv
<1>2. CASE SessionNext
  <2> USE <1>2 DEF SessionNext
  <2>1. Places'
    BY DEF HandleInv, Places, HPCs, HandleOps, VolumeOps, Streams
  <2>2. HeldShape'
    BY DEF HandleInv, Places, HeldShape, Ended, Device, VolumeOps, Streams
  <2>3. LostShape'
    BY DEF HandleInv, Places, LostShape
  <2>4. CountShape'
    BY DEF HandleInv, CountShape
  <2>5. CodeShape'
    BY DEF HandleInv, Places, CodeShape, Windows, KernReturn, VolumeOps,
       Streams
  <2> QED
    BY <2>1, <2>2, <2>3, <2>4, <2>5 DEF HandleInv
<1>3. CASE SessionInfo
  <2> USE <1>3 DEF SessionInfo
  <2>1. Places'
    BY DEF HandleInv, Places, HPCs, HandleOps, VolumeOps, Streams
  <2>2. HeldShape'
    BY DEF HandleInv, Places, HeldShape, Ended, Device, VolumeOps, Streams
  <2>3. LostShape'
    BY DEF HandleInv, Places, LostShape
  <2>4. CountShape'
    BY DEF HandleInv, CountShape
  <2>5. CodeShape'
    BY DEF HandleInv, Places, CodeShape, Windows, KernReturn, VolumeOps,
       Streams
  <2> QED
    BY <2>1, <2>2, <2>3, <2>4, <2>5 DEF HandleInv
<1>4. CASE SessionAddress
  <2> USE <1>4 DEF SessionAddress
  <2>1. Places'
    BY DEF HandleInv, Places, HPCs, HandleOps, VolumeOps, Streams
  <2>2. HeldShape'
    BY DEF HandleInv, Places, HeldShape, Ended, Device, VolumeOps, Streams
  <2>3. LostShape'
    BY DEF HandleInv, Places, LostShape
  <2>4. CountShape'
    BY DEF HandleInv, CountShape
  <2>5. CodeShape'
    BY DEF HandleInv, Places, CodeShape, Windows, KernReturn, VolumeOps,
       Streams
  <2> QED
    BY <2>1, <2>2, <2>3, <2>4, <2>5 DEF HandleInv
<1>5. CASE UnknownFamily
  <2> USE <1>5 DEF UnknownFamily
  <2>1. Places'
    BY DEF HandleInv, Places, HPCs, HandleOps, VolumeOps, Streams
  <2>2. HeldShape'
    BY DEF HandleInv, Places, HeldShape, Ended, Device, VolumeOps, Streams
  <2>3. LostShape'
    BY DEF HandleInv, Places, LostShape
  <2>4. CountShape'
    BY DEF HandleInv, CountShape
  <2>5. CodeShape'
    BY DEF HandleInv, Places, CodeShape, Windows, KernReturn, VolumeOps,
       Streams
  <2> QED
    BY <2>1, <2>2, <2>3, <2>4, <2>5 DEF HandleInv
<1> QED
  BY <1>1, <1>2, <1>3, <1>4, <1>5

(* filter_map_block_devices. *)
LEMMA MediaInv ==
  ASSUME HandleInv, Others, UNCHANGED mode,
         MasterPort \/ GetServices \/ MediaNext \/ MediaParent \/ ConformsTo \/ MediaProperties \/ MediaKeys
  PROVE  HandleInv'
<1> USE DEF Others, Do, Same, MoveTo, Pass, Give, FailWith, Report, SetsCode,
        OneMoreFailure, DropInfo
<1>1. CASE MasterPort
  <2> USE <1>1 DEF MasterPort
  <2>1. Places'
    BY DEF HandleInv, Places, HPCs, HandleOps, VolumeOps, Streams
  <2>2. HeldShape'
    BY DEF HandleInv, Places, HeldShape, Ended, Device, VolumeOps, Streams
  <2>3. LostShape'
    BY DEF HandleInv, Places, LostShape
  <2>4. CountShape'
    BY DEF HandleInv, CountShape
  <2>5. CodeShape'
    BY DEF HandleInv, Places, CodeShape, Windows, KernReturn, VolumeOps,
       Streams
  <2> QED
    BY <2>1, <2>2, <2>3, <2>4, <2>5 DEF HandleInv
<1>2. CASE GetServices
  <2> USE <1>2 DEF GetServices
  <2>1. Places'
    BY DEF HandleInv, Places, HPCs, HandleOps, VolumeOps, Streams
  <2>2. HeldShape'
    BY DEF HandleInv, Places, HeldShape, Ended, Device, VolumeOps, Streams
  <2>3. LostShape'
    BY DEF HandleInv, Places, LostShape
  <2>4. CountShape'
    BY DEF HandleInv, CountShape
  <2>5. CodeShape'
    BY DEF HandleInv, Places, CodeShape, Windows, KernReturn, VolumeOps,
       Streams
  <2> QED
    BY <2>1, <2>2, <2>3, <2>4, <2>5 DEF HandleInv
<1>3. CASE MediaNext
  <2> USE <1>3 DEF MediaNext
  <2>1. Places'
    BY DEF HandleInv, Places, HPCs, HandleOps, VolumeOps, Streams
  <2>2. HeldShape'
    BY DEF HandleInv, Places, HeldShape, Ended, Device, VolumeOps, Streams
  <2>3. LostShape'
    BY DEF HandleInv, Places, LostShape
  <2>4. CountShape'
    BY DEF HandleInv, CountShape
  <2>5. CodeShape'
    BY DEF HandleInv, Places, CodeShape, Windows, KernReturn, VolumeOps,
       Streams
  <2> QED
    BY <2>1, <2>2, <2>3, <2>4, <2>5 DEF HandleInv
<1>4. CASE MediaParent
  <2> USE <1>4 DEF MediaParent
  <2>1. Places'
    BY DEF HandleInv, Places, HPCs, HandleOps, VolumeOps, Streams
  <2>2. HeldShape'
    BY DEF HandleInv, Places, HeldShape, Ended, Device, VolumeOps, Streams
  <2>3. LostShape'
    BY DEF HandleInv, Places, LostShape
  <2>4. CountShape'
    BY DEF HandleInv, CountShape
  <2>5. CodeShape'
    BY DEF HandleInv, Places, CodeShape, Windows, KernReturn, VolumeOps,
       Streams
  <2> QED
    BY <2>1, <2>2, <2>3, <2>4, <2>5 DEF HandleInv
<1>5. CASE ConformsTo
  <2> USE <1>5 DEF ConformsTo
  <2>1. Places'
    BY DEF HandleInv, Places, HPCs, HandleOps, VolumeOps, Streams
  <2>2. HeldShape'
    BY DEF HandleInv, Places, HeldShape, Ended, Device, VolumeOps, Streams
  <2>3. LostShape'
    BY DEF HandleInv, Places, LostShape
  <2>4. CountShape'
    BY DEF HandleInv, CountShape
  <2>5. CodeShape'
    BY DEF HandleInv, Places, CodeShape, Windows, KernReturn, VolumeOps,
       Streams
  <2> QED
    BY <2>1, <2>2, <2>3, <2>4, <2>5 DEF HandleInv
<1>6. CASE MediaProperties
  <2> USE <1>6 DEF MediaProperties
  <2>1. Places'
    BY DEF HandleInv, Places, HPCs, HandleOps, VolumeOps, Streams
  <2>2. HeldShape'
    BY DEF HandleInv, Places, HeldShape, Ended, Device, VolumeOps, Streams
  <2>3. LostShape'
    BY DEF HandleInv, Places, LostShape
  <2>4. CountShape'
    BY DEF HandleInv, CountShape
  <2>5. CodeShape'
    BY DEF HandleInv, Places, CodeShape, Windows, KernReturn, VolumeOps,
       Streams
  <2> QED
    BY <2>1, <2>2, <2>3, <2>4, <2>5 DEF HandleInv
<1>7. CASE MediaKeys
  <2> USE <1>7 DEF MediaKeys
  <2>1. Places'
    BY DEF HandleInv, Places, HPCs, HandleOps, VolumeOps, Streams
  <2>2. HeldShape'
    BY DEF HandleInv, Places, HeldShape, Ended, Device, VolumeOps, Streams
  <2>3. LostShape'
    BY DEF HandleInv, Places, LostShape
  <2>4. CountShape'
    BY DEF HandleInv, CountShape
  <2>5. CodeShape'
    BY DEF HandleInv, Places, CodeShape, Windows, KernReturn, VolumeOps,
       Streams
  <2> QED
    BY <2>1, <2>2, <2>3, <2>4, <2>5 DEF HandleInv
<1> QED
  BY <1>1, <1>2, <1>3, <1>4, <1>5, <1>6, <1>7

(* processor_load_info. *)
LEMMA LoadInfoInv ==
  ASSUME HandleInv, Others, UNCHANGED mode,
         LoadInfo \/ VmDeallocate
  PROVE  HandleInv'
<1> USE DEF Others, Do, Same, MoveTo, Pass, Give, FailWith, Report, SetsCode,
        OneMoreFailure, DropInfo
<1>1. CASE LoadInfo
  <2> USE <1>1 DEF LoadInfo
  <2>1. Places'
    BY DEF HandleInv, Places, HPCs, HandleOps, VolumeOps, Streams
  <2>2. HeldShape'
    BY DEF HandleInv, Places, HeldShape, Ended, Device, VolumeOps, Streams
  <2>3. LostShape'
    BY DEF HandleInv, Places, LostShape
  <2>4. CountShape'
    BY DEF HandleInv, CountShape
  <2>5. CodeShape'
    BY DEF HandleInv, Places, CodeShape, Windows, KernReturn, VolumeOps,
       Streams
  <2> QED
    BY <2>1, <2>2, <2>3, <2>4, <2>5 DEF HandleInv
<1>2. CASE VmDeallocate
  <2> USE <1>2 DEF VmDeallocate
  <2>1. Places'
    BY DEF HandleInv, Places, HPCs, HandleOps, VolumeOps, Streams
  <2>2. HeldShape'
    BY DEF HandleInv, Places, HeldShape, Ended, Device, VolumeOps, Streams
  <2>3. LostShape'
    BY DEF HandleInv, Places, LostShape
  <2>4. CountShape'
    BY DEF HandleInv, CountShape
  <2>5. CodeShape'
    BY DEF HandleInv, Places, CodeShape, Windows, KernReturn, VolumeOps,
       Streams
  <2> QED
    BY <2>1, <2>2, <2>3, <2>4, <2>5 DEF HandleInv
<1> QED
  BY <1>1, <1>2

(* get_users. *)
LEMMA UsersInv ==
  ASSUME HandleInv, Others, UNCHANGED mode,
         SetUtxEnt \/ GetUtxEnt \/ UserType \/ UserPush
  PROVE  HandleInv'
<1> USE DEF Others, Do, Same, MoveTo, Pass, Give, FailWith, Report, SetsCode,
        OneMoreFailure, DropInfo
<1>1. CASE SetUtxEnt
  <2> USE <1>1 DEF SetUtxEnt
  <2>1. Places'
    BY DEF HandleInv, Places, HPCs, HandleOps, VolumeOps, Streams
  <2>2. HeldShape'
    BY DEF HandleInv, Places, HeldShape, Ended, Device, VolumeOps, Streams
  <2>3. LostShape'
    BY DEF HandleInv, Places, LostShape
  <2>4. CountShape'
    BY DEF HandleInv, CountShape
  <2>5. CodeShape'
    BY DEF HandleInv, Places, CodeShape, Windows, KernReturn, VolumeOps,
       Streams
  <2> QED
    BY <2>1, <2>2, <2>3, <2>4, <2>5 DEF HandleInv
<1>2. CASE GetUtxEnt
  <2> USE <1>2 DEF GetUtxEnt
  <2>1. Places'
    BY DEF HandleInv, Places, HPCs, HandleOps, VolumeOps, Streams
  <2>2. HeldShape'
    BY DEF HandleInv, Places, HeldShape, Ended, Device, VolumeOps, Streams
  <2>3. LostShape'
    BY DEF HandleInv, Places, LostShape
  <2>4. CountShape'
    BY DEF HandleInv, CountShape
  <2>5. CodeShape'
    BY DEF HandleInv, Places, CodeShape, Windows, KernReturn, VolumeOps,
       Streams
  <2> QED
    BY <2>1, <2>2, <2>3, <2>4, <2>5 DEF HandleInv
<1>3. CASE UserType
  <2> USE <1>3 DEF UserType
  <2>1. Places'
    BY DEF HandleInv, Places, HPCs, HandleOps, VolumeOps, Streams
  <2>2. HeldShape'
    BY DEF HandleInv, Places, HeldShape, Ended, Device, VolumeOps, Streams
  <2>3. LostShape'
    BY DEF HandleInv, Places, LostShape
  <2>4. CountShape'
    BY DEF HandleInv, CountShape
  <2>5. CodeShape'
    BY DEF HandleInv, Places, CodeShape, Windows, KernReturn, VolumeOps,
       Streams
  <2> QED
    BY <2>1, <2>2, <2>3, <2>4, <2>5 DEF HandleInv
<1>4. CASE UserPush
  <2> USE <1>4 DEF UserPush
  <2>1. Places'
    BY DEF HandleInv, Places, HPCs, HandleOps, VolumeOps, Streams
  <2>2. HeldShape'
    BY DEF HandleInv, Places, HeldShape, Ended, Device, VolumeOps, Streams
  <2>3. LostShape'
    BY DEF HandleInv, Places, LostShape
  <2>4. CountShape'
    BY DEF HandleInv, CountShape
  <2>5. CodeShape'
    BY DEF HandleInv, Places, CodeShape, Windows, KernReturn, VolumeOps,
       Streams
  <2> QED
    BY <2>1, <2>2, <2>3, <2>4, <2>5 DEF HandleInv
<1> QED
  BY <1>1, <1>2, <1>3, <1>4

(* Drop of a stream. *)
LEMMA DropInv ==
  ASSUME HandleInv, Others, UNCHANGED mode,
         DropStream \/ DropPanics
  PROVE  HandleInv'
<1> USE DEF Others, Do, Same, MoveTo, Pass, Give, FailWith, Report, SetsCode,
        OneMoreFailure, DropInfo
<1>1. CASE DropStream
  <2> USE <1>1 DEF DropStream
  <2>1. Places'
    BY DEF HandleInv, Places, HPCs, HandleOps, VolumeOps, Streams
  <2>2. HeldShape'
    BY DEF HandleInv, Places, HeldShape, Ended, Device, VolumeOps, Streams
  <2>3. LostShape'
    BY DEF HandleInv, Places, LostShape
  <2>4. CountShape'
    BY DEF HandleInv, CountShape
  <2>5. CodeShape'
    BY DEF HandleInv, Places, CodeShape, Windows, KernReturn, VolumeOps,
       Streams
  <2> QED
    BY <2>1, <2>2, <2>3, <2>4, <2>5 DEF HandleInv
<1>2. CASE DropPanics
  <2> USE <1>2 DEF DropPanics
  <2>1. Places'
    BY DEF HandleInv, Places, HPCs, HandleOps, VolumeOps, Streams
  <2>2. HeldShape'
    BY DEF HandleInv, Places, HeldShape, Ended, Device, VolumeOps, Streams
  <2>3. LostShape'
    BY DEF HandleInv, Places, LostShape
  <2>4. CountShape'
    BY DEF HandleInv, CountShape
  <2>5. CodeShape'
    BY DEF HandleInv, Places, CodeShape, Windows, KernReturn, VolumeOps,
       Streams
  <2> QED
    BY <2>1, <2>2, <2>3, <2>4, <2>5 DEF HandleInv
<1> QED
  BY <1>1, <1>2

----------------------------------------------------------------------------
(* What is written to the buffer and read from it *)

LEMMA CardFacts ==
  ASSUME NEW S \in SUBSET Entry
  PROVE  IsFiniteSet(S) /\ Cardinality(S) \in Nat
BY SizedAssumption, FS_Subset, FS_CardinalityType

LEMMA NeedType == TypeOK => Need \in Nat
BY CardFacts DEF TypeOK, Need

LEMMA NeedPositive == TypeOK => Need > 0
<1> SUFFICES ASSUME TypeOK PROVE Need > 0
  OBVIOUS
<1>1. list \in SUBSET Entry /\ list # {}
  BY DEF TypeOK
<1>2. IsFiniteSet(list) /\ Cardinality(list) \in Nat
  BY <1>1, CardFacts
<1>3. Cardinality(list) # 0
  BY <1>1, <1>2, FS_EmptySet
<1> QED
  BY <1>2, <1>3 DEF Need

LEMMA SizedInitInv == AllInit => SizedInv
<1> SUFFICES ASSUME AllInit PROVE SizedInv
  OBVIOUS
<1> USE DEF AllInit, Init
<1>1. TypeOK
  <2>1. overrun \in BOOLEAN /\ debug \in BOOLEAN
    OBVIOUS
  <2>2. changes \in 0 .. MaxChanges
    BY SizedAssumption
  <2> QED
    BY <2>1, <2>2 DEF TypeOK, Results
<1>2. SizeShape /\ WalkShape
  BY DEF SizeShape, WalkShape
<1>3. SafeShape
  BY DEF SafeShape
<1> QED
  BY <1>1, <1>2, <1>3 DEF SizedInv

LEMMA BeginInv ==
  ASSUME SizedInv, NEW m \in Ops, Begin(m)
  PROVE  SizedInv'
<1> USE DEF Begin
<1>1. /\ target' \in SUBSET Entry
      /\ m = "load" => \E e \in Entry : target' = {e}
  OBVIOUS
<1>2. TypeOK'
  <2>1. overrun' \in BOOLEAN
    OBVIOUS
  <2>2. cap' \in Nat /\ changes' \in 0 .. MaxChanges
    BY SizedAssumption
  <2> QED
    BY <1>1, <2>1, <2>2 DEF SizedInv, TypeOK, Results
<1>3. SizeShape' /\ WalkShape'
  BY <1>1 DEF SizeShape, WalkShape, Ops
<1>4. SafeShape'
  BY DEF SafeShape
<1> QED
  BY <1>2, <1>3, <1>4 DEF SizedInv

(* What a call returns depends on what it has copied alone. *)
LEMMA AnswersKept ==
  ASSUME op' = op, target' = target, out' = out, filled' = filled
  PROVE  Answers' = Answers /\ Wanted' = Wanted
<1>1. Wanted' = Wanted
  BY DEF Wanted, Kept
<1> QED
  BY <1>1 DEF Answers

(* The size is asked for, or the buffer is made larger. *)
LEMMA GrowInv ==
  ASSUME SizedInv, pc \in {"ask", "reserve", "fill"}, NEW l \in {"reserve", "fill"},
         Goto(l), UNCHANGED <<data, len, filled, overrun>>, Untouched,
         cap' \in Nat, size' \in Nat,
         tries' \in {"first", "again"},
         op \notin {"processes", "cpus", "load"} => tries' = "first",
         l = "reserve" => op = "cpus",
         l = "reserve" /\ tries' = "first" => cap' = 0,
         l = "fill" /\ op # "load" /\ tries' = "first" => cap' = size',
         l = "fill" /\ op = "perf_info" => cap' > 0,
         op = "cpus" => cap' <= size'
  PROVE  SizedInv'
<1> USE DEF Goto, Untouched
<1>1. TypeOK'
  BY DEF SizedInv, TypeOK
<1>2. ~overrun /\ result = "none"
  BY DEF SizedInv, SizeShape
<1>3. SizeShape'
  BY DEF SizedInv, SizeShape
<1>4. WalkShape'
  BY DEF WalkShape
<1>5. SafeShape'
  BY <1>2 DEF SafeShape
<1> QED
  BY <1>1, <1>3, <1>4, <1>5 DEF SizedInv

(* The whole list is written. *)
LEMMA FilledInv ==
  ASSUME SizedInv, pc = "fill", NEW n \in Nat, Filled(n),
         op \notin {"mounts", "perf_info"},
         op \notin {"cpu_info", "power_info"} => n = Need,
         (op \in {"processes", "cpus"} /\ tries = "again") \/ Need <= cap
  PROVE  SizedInv'
<1> USE DEF Filled, Goto, Untouched
<1>1. overrun' \in BOOLEAN
  OBVIOUS
<1>2. TypeOK'
  BY <1>1 DEF SizedInv, TypeOK
<1>3. SizeShape'
  BY DEF SizedInv, SizeShape
<1>4. out = {} /\ result = "none"
  BY DEF SizedInv, SizeShape
<1>5. WalkShape'
  <2>1. Cardinality(list) \in Nat /\ list # {}
    BY CardFacts DEF SizedInv, TypeOK
  <2>2. n > Cardinality(list) + Terminators =>
          op \in {"cpu_info", "power_info"}
    BY <2>1 DEF Need, Terminators
  <2>3. Terminators' = Terminators
    BY DEF Terminators
  <2> QED
    BY <1>4, <2>1, <2>2, <2>3 DEF WalkShape, FirstOnly
<1>6. overrun' => op \in {"processes", "cpus"} /\ tries = "again"
  <2>1. Need <= cap => ~(Need > cap)
    BY NeedType DEF SizedInv, TypeOK
  <2>2. overrun' = (Need > cap)
    OBVIOUS
  <2> QED
    BY <2>1, <2>2, Zenon
<1>7. SafeShape'
  BY <1>4, <1>6 DEF SafeShape
<1> QED
  BY <1>2, <1>3, <1>5, <1>7 DEF SizedInv

(* The call returns, and leaves the buffer as it is. *)
LEMMA FailInv ==
  ASSUME SizedInv, pc # "idle", NEW r \in Results \ {"none"}, Fail(r),
         r = "Panic" => \/ op = "mounts" /\ size = 0
                        \/ op \in {"mounts", "drives"} /\ debug,
         r = "Garbage" => op = "cpu_info" \/ (op = "drives" /\ ~debug),
         r = "Ok" /\ op # "mounts" => Answers,
         r = "Ok" /\ op = "mounts" =>
           /\ out \subseteq Wanted
           /\ out # Wanted => size < Cardinality(filled) /\ ~debug,
         r = "Stale" => op \in NtStatus,
         r = "Load" => op \notin NtStatus
  PROVE  SizedInv'
<1> USE DEF Fail, Return, Untouched
<1>1. TypeOK'
  BY DEF SizedInv, TypeOK
<1>2. SizeShape' /\ WalkShape'
  BY DEF SizedInv, SizeShape, WalkShape
<1>3. Wanted' = Wanted /\ Answers' = Answers
  BY AnswersKept
<1>4. SafeShape'
  BY <1>3 DEF SizedInv, SafeShape
<1> QED
  BY <1>1, <1>2, <1>4 DEF SizedInv

LEMMA FailSystemInv ==
  ASSUME SizedInv, pc # "idle", FailSystem
  PROVE  SizedInv'
<1>1. CASE op \in NtStatus
  BY <1>1, FailInv DEF FailSystem, Results
<1>2. CASE op \notin NtStatus
  BY <1>2, FailInv DEF FailSystem, Results
<1> QED
  BY <1>1, <1>2

LEMMA AskInv ==
  ASSUME SizedInv, AskSize \/ AskProcesses \/ AskCpus
  PROVE  SizedInv'
<1>1. /\ Need \in Nat /\ Need > 0 /\ cap \in Nat /\ pc = "ask"
      /\ tries \in {"first", "again"} /\ tries' = tries
      /\ op \notin {"processes", "cpus", "load"} => tries = "first"
      /\ tries = "first" => cap = 0
  BY NeedType, NeedPositive DEF SizedInv, TypeOK, SizeShape, AskSize,
     AskProcesses, AskCpus
<1>2. CASE AskSize
  BY <1>1, <1>2, GrowInv DEF AskSize
<1>3. CASE AskProcesses
  <2>1. cap' \in Nat /\ size' = Need /\ (tries = "first" => cap' = Need)
    BY <1>1, <1>3 DEF AskProcesses, Larger
  <2> QED
    BY <1>1, <1>3, <2>1, GrowInv DEF AskProcesses
<1>4. CASE AskCpus
  <2>1. cap = 0 /\ cap' = 0 /\ size' \in Nat
    BY <1>1, <1>4 DEF AskCpus, SizedInv, SizeShape
  <2> QED
    BY <1>1, <1>4, <2>1, GrowInv DEF AskCpus
<1> QED
  BY <1>2, <1>3, <1>4

LEMMA CpusInv ==
  ASSUME SizedInv, ReserveCpus \/ FillCpus
  PROVE  SizedInv'
<1>1. /\ Need \in Nat /\ cap \in Nat /\ size \in Nat /\ cap <= size
      /\ op = "cpus" /\ pc \in {"reserve", "fill"}
      /\ tries \in {"first", "again"}
  BY NeedType DEF SizedInv, TypeOK, SizeShape, ReserveCpus, FillCpus
<1>2. CASE ReserveCpus
  <2>1. /\ cap' \in Nat /\ cap' <= size /\ size' = size /\ tries' = tries
        /\ tries = "first" => cap' = size
    <3>1. tries = "first" => cap = 0
      BY <1>2 DEF ReserveCpus, SizedInv, SizeShape
    <3> QED
      BY <1>1, <1>2, <3>1 DEF ReserveCpus, Larger
  <2> QED
    BY <1>1, <1>2, <2>1, GrowInv DEF ReserveCpus
<1>3. CASE FillCpus
  <2>1. CASE Need <= size /\ Filled(Need)
    <3>1. tries = "first" => cap = size
      BY <1>1, <1>3 DEF FillCpus, SizedInv, SizeShape
    <3>2. (op \in {"processes", "cpus"} /\ tries = "again") \/ Need <= cap
      BY <1>1, <2>1, <3>1
    <3> QED
      BY <1>1, <1>3, <2>1, <3>2, FilledInv DEF FillCpus
  <2>2. CASE Need > size /\ size' = Need /\ Again("reserve") /\ UNCHANGED cap
    BY <1>1, <2>2, GrowInv DEF Again
  <2> QED
    BY <1>3, <2>1, <2>2 DEF FillCpus
<1> QED
  BY <1>2, <1>3

LEMMA LoadInv ==
  ASSUME SizedInv, Load
  PROVE  SizedInv'
<1>1. Need \in Nat /\ cap \in Nat /\ op = "load" /\ pc = "fill"
  BY NeedType DEF SizedInv, TypeOK, Load
<1>2. CASE Need <= cap /\ Filled(Need)
  BY <1>1, <1>2, FilledInv
<1>3. CASE Need > cap
  <2>1. cap' \in Nat
    BY <1>1, <1>3 DEF Load, Larger
  <2> QED
    BY <1>1, <1>3, <2>1, GrowInv DEF Load, Again
<1> QED
  BY <1>2, <1>3 DEF Load

LEMMA FillProcessesInv ==
  ASSUME SizedInv, FillProcesses
  PROVE  SizedInv'
<1>1. /\ Need \in Nat /\ size \in Nat /\ cap \in Nat
      /\ op = "processes" /\ pc = "fill" /\ tries \in {"first", "again"}
      /\ tries = "first" => cap = size
  BY NeedType DEF SizedInv, TypeOK, SizeShape, FillProcesses
<1>2. CASE Need <= size /\ Filled(Need)
  <2>1. (op \in {"processes", "cpus"} /\ tries = "again") \/ Need <= cap
    BY <1>1, <1>2
  <2> QED
    BY <1>1, <1>2, <2>1, FilledInv
<1>3. CASE Again("ask") /\ UNCHANGED <<cap, size>>
  <2> USE <1>3 DEF Again, Goto, Untouched
  <2>1. TypeOK'
    BY DEF SizedInv, TypeOK
  <2>2. ~overrun /\ result = "none"
    BY <1>1 DEF SizedInv, SizeShape
  <2>3. SizeShape' /\ WalkShape'
    BY <1>1 DEF SizedInv, SizeShape, WalkShape
  <2>4. SafeShape'
    BY <2>2 DEF SafeShape
  <2> QED
    BY <2>1, <2>3, <2>4 DEF SizedInv
<1> QED
  BY <1>2, <1>3 DEF FillProcesses

(* getfsstat64: as much of the list as there is room for. *)
LEMMA FillMountsInv ==
  ASSUME SizedInv, FillMounts
  PROVE  SizedInv'
<1>1. Need \in Nat /\ size \in Nat /\ op = "mounts" /\ pc = "fill"
  BY NeedType DEF SizedInv, TypeOK, FillMounts
<1>2. CASE debug /\ Fail("Panic")
  BY <1>1, <1>2, FailInv DEF Results
<1>3. CASE ~(debug /\ Fail("Panic"))
  <2>1. PICK D \in SUBSET list :
          /\ Cardinality(D) = IF Need < size THEN Need ELSE size
          /\ data' = D /\ len' = Cardinality(D)
    BY <1>3 DEF FillMounts
  <2>2. /\ Need = size \/ ~debug
        /\ filled' = list /\ Goto("walk")
        /\ UNCHANGED <<cap, size, tries, overrun>> /\ Untouched
    BY <1>3 DEF FillMounts
  <2> USE <2>2 DEF Goto, Untouched
  <2>3. /\ list \subseteq Entry /\ D \subseteq Entry
        /\ Cardinality(list) \in Nat /\ Cardinality(D) \in Nat
        /\ IsFiniteSet(list)
    BY CardFacts DEF SizedInv, TypeOK
  <2>4. Need = Cardinality(list)
    BY <1>1, <2>3 DEF Need
  <2>5. D # list => size < Cardinality(list)
    <3>1. Cardinality(D) = Cardinality(list) => D = list
      BY <2>3, FS_Subset
    <3> QED
      BY <1>1, <2>1, <2>3, <2>4, <3>1
  <2>6. TypeOK'
    BY <2>1, <2>3 DEF SizedInv, TypeOK
  <2>7. out = {} /\ result = "none" /\ ~overrun
    BY <1>1 DEF SizedInv, SizeShape
  <2>8. SizeShape'
    BY <1>1, <2>7 DEF SizedInv, SizeShape
  <2>9. D # list => ~debug
    BY <1>1, <2>2, <2>3, <2>4, <2>5
  <2>10. WalkShape'
    <3>1. ~(len' > Cardinality(data') + Terminators')
      BY <1>1, <2>1, <2>3 DEF Terminators
    <3> QED
      BY <1>1, <2>1, <2>5, <2>7, <2>9, <3>1 DEF WalkShape, FirstOnly
  <2>11. SafeShape'
    BY <1>1, <2>7 DEF SafeShape
  <2> QED
    BY <2>6, <2>8, <2>10, <2>11 DEF SizedInv
<1> QED
  BY <1>2, <1>3

LEMMA FillDrivesInv ==
  ASSUME SizedInv, FillDrives
  PROVE  SizedInv'
<1>1. /\ Need \in Nat /\ op = "drives" /\ pc = "fill"
      /\ size \in Nat /\ cap = size
  BY NeedType DEF SizedInv, TypeOK, SizeShape, FillDrives
<1>2. CASE debug /\ Fail("Panic")
  BY <1>1, <1>2, FailInv DEF Results
<1>3. CASE Need <= size /\ Filled(Need)
  BY <1>1, <1>3, FilledInv
<1>4. CASE /\ ~debug /\ len' = Need + 1 /\ Goto("walk")
           /\ UNCHANGED <<cap, size, data, tries, filled, overrun>> /\ Untouched
  <2> USE <1>4 DEF Goto, Untouched
  <2>1. TypeOK'
    BY <1>1 DEF SizedInv, TypeOK
  <2>2. ~overrun /\ result = "none" /\ out = {} /\ data = {}
    BY <1>1 DEF SizedInv, SizeShape
  <2>3. SizeShape'
    BY <1>1 DEF SizedInv, SizeShape
  <2>4. SafeShape'
    BY <2>2 DEF SafeShape
  <2>5. filled = {}
    BY <1>1 DEF SizedInv, SizeShape
  <2>6. WalkShape'
    BY <1>1, <2>2, <2>5 DEF WalkShape, FirstOnly
  <2> QED
    BY <2>1, <2>3, <2>4, <2>6 DEF SizedInv
<1> QED
  BY <1>2, <1>3, <1>4 DEF FillDrives

LEMMA FillOrFailInv ==
  ASSUME SizedInv, FillOrFail \/ FillCpuInfo \/ OtherError
  PROVE  SizedInv'
<1>1. Need \in Nat /\ size \in Nat
  BY NeedType DEF SizedInv, TypeOK
<1>2. CASE FillOrFail
  <2>1. cap = size /\ pc = "fill" /\ op \in {"net_pf_route", "nic"}
    BY <1>2 DEF FillOrFail, SizedInv, SizeShape
  <2>2. CASE Need <= size /\ Filled(Need)
    BY <1>1, <2>1, <2>2, FilledInv
  <2>3. CASE Fail("Load")
    BY <2>1, <2>3, FailInv DEF Results, NtStatus
  <2> QED
    BY <1>2, <2>2, <2>3 DEF FillOrFail
<1>3. CASE FillCpuInfo
  <2>1. cap = size /\ pc = "fill" /\ op \in {"cpu_info", "power_info"}
    BY <1>3 DEF FillCpuInfo, SizedInv, SizeShape
  <2>2. CASE Need <= size /\ Filled(size)
    BY <1>1, <2>1, <2>2, FilledInv
  <2>3. CASE FailSystem
    BY <2>1, <2>3, FailSystemInv
  <2> QED
    BY <1>3, <2>2, <2>3 DEF FillCpuInfo
<1>4. CASE OtherError
  <2>1. CASE pc = "ask" /\ op = "mounts" /\ Fail("Panic")
    <3>1. size = 0
      BY <2>1 DEF SizedInv, SizeShape
    <3> QED
      BY <2>1, <3>1, FailInv DEF Results
  <2>2. CASE pc # "idle" /\ FailSystem
    BY <2>2, FailSystemInv
  <2> QED
    BY <1>4, <2>1, <2>2 DEF OtherError
<1> QED
  BY <1>2, <1>3, <1>4

(* SYSTEM_PERFORMANCE_INFORMATION: one record. *)
LEMMA FillPerfInfoInv ==
  ASSUME SizedInv, FillPerfInfo
  PROVE  SizedInv'
<1> USE DEF FillPerfInfo, Goto, Untouched
<1>1. /\ pc = "fill" /\ op = "perf_info" /\ cap \in Nat /\ cap > 0
      /\ out = {} /\ result = "none" /\ tries = "first"
  BY DEF SizedInv, TypeOK, SizeShape
<1>2. PICK e \in list : data' = {e}
  OBVIOUS
<1>3. ~overrun'
  <2>1. ~(1 > cap)
    BY <1>1
  <2>2. overrun' = (1 > cap)
    OBVIOUS
  <2> QED
    BY <2>1, <2>2, Zenon
<1>4. overrun' \in BOOLEAN
  OBVIOUS
<1>5. TypeOK'
  BY <1>2, <1>4 DEF SizedInv, TypeOK
<1>6. SizeShape'
  BY <1>1 DEF SizedInv, SizeShape
<1>7. WalkShape'
  BY <1>1, <1>2 DEF WalkShape, FirstOnly
<1>8. SafeShape'
  BY <1>1, <1>3 DEF SafeShape
<1> QED
  BY <1>5, <1>6, <1>7, <1>8 DEF SizedInv

LEMMA WalkNextInv ==
  ASSUME SizedInv, WalkNext
  PROVE  SizedInv'
<1>1. /\ pc = "walk" /\ result = "none" /\ op # "none" /\ ~Satisfied
      /\ out \subseteq {e \in data : Kept(e)} /\ data \subseteq filled
      /\ data \subseteq Entry /\ out \subseteq Entry
  BY DEF SizedInv, TypeOK, SizeShape, WalkShape, WalkNext
<1>2. CASE Fail("Crash")
  BY <1>1, <1>2, FailInv DEF Results
<1>3. ASSUME NEW e \in data \ out, Kept(e), Yield(e)
      PROVE  SizedInv'
  <2> USE <1>3 DEF Yield
  <2>1. TypeOK'
    BY <1>1 DEF SizedInv, TypeOK
  <2>2. SizeShape'
    BY <1>1 DEF SizedInv, SizeShape
  <2>3. op \in FirstOnly => out' = {e} /\ e \in filled
    BY <1>1 DEF Satisfied
  <2>4. out' \subseteq {x \in data : Kept(x)} /\ Terminators' = Terminators
    BY <1>1 DEF Terminators
  <2>5. \A x : Kept(x)' <=> Kept(x)
    BY DEF Kept
  <2>6. WalkShape'
    BY <1>1, <2>3, <2>4, <2>5 DEF SizedInv, WalkShape
  <2>7. SafeShape'
    BY <1>1 DEF SizedInv, SafeShape
  <2> QED
    BY <2>1, <2>2, <2>6, <2>7 DEF SizedInv
<1> QED
  BY <1>2, <1>3 DEF WalkNext

(* What the walk has come to when it ends. *)
LEMMA WalkEndAnswers ==
  ASSUME SizedInv, pc = "walk",
         Satisfied \/ (op # "load" /\ \A e \in data \ out : ~Kept(e))
  PROVE  /\ op # "mounts" => Answers
         /\ op = "mounts" => /\ out \subseteq Wanted
                             /\ data = filled => out = Wanted
<1>1. /\ out \subseteq {e \in data : Kept(e)} /\ data \subseteq filled
      /\ op \notin {"mounts", "perf_info"} => data = filled
      /\ op \in FirstOnly =>
           data # {} /\ (out = {} \/ \E e \in filled : out = {e})
  BY DEF SizedInv, WalkShape
<1>2. out \subseteq Wanted
  BY <1>1 DEF Wanted
<1>3. CASE op = "load"
  BY <1>1, <1>3 DEF Satisfied, Answers, FirstOnly
<1>4. CASE op \in FirstOnly
  <2>1. out # {}
    BY <1>1, <1>4 DEF Satisfied, Kept, FirstOnly
  <2> QED
    BY <1>1, <1>4, <2>1 DEF Answers, FirstOnly
<1>5. CASE op # "load" /\ op \notin FirstOnly
  <2>1. out = {e \in data : Kept(e)}
    BY <1>1, <1>5 DEF Satisfied
  <2>2. data = filled => out = Wanted
    BY <2>1 DEF Wanted
  <2>3. op # "mounts" => Answers
    BY <1>1, <1>5, <2>2 DEF Answers, FirstOnly
  <2> QED
    BY <1>2, <2>2, <2>3
<1> QED
  BY <1>3, <1>4, <1>5 DEF FirstOnly

(* Where unwritten memory is read. *)
LEMMA WalkEndReads ==
  ASSUME SizedInv, pc = "walk", Read > Cardinality(data) + Terminators
  PROVE  /\ op \notin FirstOnly /\ len > Cardinality(data) + Terminators
         /\ op = "cpu_info" \/ (op = "drives" /\ ~debug)
<1>1. data \in SUBSET Entry
  BY DEF SizedInv, TypeOK
<1>2. IsFiniteSet(data) /\ Cardinality(data) \in Nat /\ Terminators \in Nat
  BY <1>1, CardFacts DEF Terminators
<1>3. op \notin FirstOnly
  <2>1. SUFFICES ASSUME op \in FirstOnly PROVE FALSE
    OBVIOUS
  <2>2. data # {}
    BY <2>1 DEF SizedInv, WalkShape
  <2>3. Cardinality(data) # 0
    BY <1>2, <2>2, FS_EmptySet
  <2> QED
    BY <1>2, <2>1, <2>3 DEF Read
<1>4. len > Cardinality(data) + Terminators
  BY <1>3 DEF Read
<1> QED
  BY <1>3, <1>4 DEF SizedInv, WalkShape

LEMMA WalkEndInv ==
  ASSUME SizedInv, WalkEnd
  PROVE  SizedInv'
<1>1. pc = "walk"
  BY DEF WalkEnd
<1>2. /\ op # "mounts" => Answers
      /\ op = "mounts" => out \subseteq Wanted /\ (data = filled => out = Wanted)
  BY <1>1, WalkEndAnswers DEF WalkEnd
<1>3. op = "mounts" /\ data # filled => size < Cardinality(filled) /\ ~debug
  BY <1>1 DEF SizedInv, WalkShape
<1>4. CASE Read > Cardinality(data) + Terminators /\ Fail("Garbage")
  BY <1>1, <1>4, WalkEndReads, FailInv DEF Results
<1>5. CASE Fail("Ok")
  BY <1>1, <1>2, <1>3, <1>5, FailInv DEF Results
<1> QED
  BY <1>4, <1>5 DEF WalkEnd

LEMMA SpinInv ==
  ASSUME SizedInv, Spin
  PROVE  SizedInv'
<1> USE DEF Spin, Goto, Untouched
<1>1. /\ op = "load" /\ result = "none" /\ pc' = "spin"
      /\ out \subseteq data /\ data = filled /\ data \subseteq out
  BY DEF SizedInv, SizeShape, WalkShape
<1>2. target \intersect filled = {}
  <2>1. PICK e \in Entry : target = {e}
    BY <1>1 DEF SizedInv, SizeShape
  <2> QED
    BY <1>1, <2>1 DEF Satisfied
<1>3. TypeOK' /\ SizeShape'
  BY <1>1 DEF SizedInv, TypeOK, SizeShape
<1>4. WalkShape'
  BY <1>1, <1>2 DEF SizedInv, WalkShape, Kept
<1>5. SafeShape'
  BY <1>1 DEF SizedInv, SafeShape
<1> QED
  BY <1>3, <1>4, <1>5 DEF SizedInv

LEMMA SizedStepInv ==
  ASSUME SizedInv, Step
  PROVE  SizedInv'
BY AskInv, FillProcessesInv, CpusInv, LoadInv, FillMountsInv, FillDrivesInv,
   FillOrFailInv, FillPerfInfoInv, WalkNextInv, WalkEndInv, SpinInv DEF Step

----------------------------------------------------------------------------
(* A list that stays as it is *)

LEMMA StableAsk ==
  ASSUME SizedInv, StableShape, AskSize \/ AskProcesses \/ AskCpus \/ ReserveCpus
  PROVE  StableShape'
<1> USE DEF AskSize, AskProcesses, AskCpus, ReserveCpus, Goto, Untouched
<1>1. Need \in Nat /\ Need' = Need /\ cap \in Nat /\ result' = "none"
  BY NeedType DEF SizedInv, TypeOK, Need, SizeShape
<1>2. /\ pc' \in {"reserve", "fill"}
      /\ pc' = "reserve" /\ changes = 0 => size' \in {0, Need} /\ cap' = 0
      /\ pc' = "fill" /\ changes = 0 /\ op # "cpus" =>
           size' = Need /\ cap' = Need
      /\ pc' = "fill" /\ changes = 0 /\ op = "cpus" =>
           size' \in {0, Need} /\ cap' = size'
  <2>1. CASE AskSize
    BY <1>1, <2>1
  <2>2. CASE AskProcesses
    BY <1>1, <2>2 DEF StableShape, Larger
  <2>3. CASE AskCpus
    BY <1>1, <2>3 DEF StableShape
  <2>4. CASE ReserveCpus
    <3>1. op = "cpus" /\ pc' = "fill" /\ size' = size
      BY <2>4 DEF SizedInv, SizeShape
    <3>2. changes = 0 => size \in {0, Need} /\ cap = 0
      BY <2>4 DEF StableShape
    <3>3. changes = 0 => cap' = size
      BY <1>1, <2>4, <3>2 DEF Larger
    <3> QED
      BY <3>1, <3>2, <3>3
  <2> QED
    BY <2>1, <2>2, <2>3, <2>4
<1>3. ~overrun'
  BY DEF SizedInv, SizeShape
<1> QED
  BY <1>1, <1>2, <1>3 DEF StableShape, StableListIsExact

LEMMA StableFilled ==
  ASSUME SizedInv, StableShape, pc = "fill", NEW n \in Nat, Filled(n),
         changes = 0 => n = Need /\ Need <= cap
  PROVE  StableShape'
<1> USE DEF Filled, Goto, Untouched
<1>1. /\ Need \in Nat /\ cap \in Nat /\ result' = "none"
      /\ Cardinality(list) \in Nat
  BY NeedType, CardFacts DEF SizedInv, TypeOK, SizeShape
<1>2. changes = 0 => ~overrun'
  <2>1. changes = 0 => ~(Need > cap)
    BY <1>1
  <2>2. overrun' = (Need > cap)
    OBVIOUS
  <2> QED
    BY <2>1, <2>2, Zenon
<1>3. changes = 0 => len' <= Cardinality(data') + Terminators'
  BY <1>1 DEF Need, Terminators
<1> QED
  BY <1>1, <1>2, <1>3 DEF StableShape, StableListIsExact

LEMMA StableFail ==
  ASSUME SizedInv, StableShape, pc # "idle", NEW r \in Results, Fail(r),
         changes = 0 =>
           /\ ~overrun /\ r # "Garbage"
           /\ r = "Panic" => op = "mounts" /\ size = 0
           /\ r = "Crash" => op = "nic" /\ filled \intersect Bare # {}
           /\ r = "Ok" => Answers
  PROVE  StableShape'
<1> USE DEF Fail, Return, Untouched
<1>1. Answers' = Answers
  BY AnswersKept
<1> QED
  BY <1>1 DEF StableShape, StableListIsExact

LEMMA StableFailSystem ==
  ASSUME SizedInv, StableShape, pc # "idle", ~overrun, FailSystem
  PROVE  StableShape'
<1>1. CASE op \in NtStatus
  BY <1>1, StableFail DEF FailSystem, Results
<1>2. CASE op \notin NtStatus
  BY <1>2, StableFail DEF FailSystem, Results
<1> QED
  BY <1>1, <1>2

LEMMA StableMounts ==
  ASSUME SizedInv, StableShape, FillMounts
  PROVE  StableShape'
<1>1. /\ Need \in Nat /\ cap \in Nat /\ size \in Nat /\ pc = "fill"
      /\ Cardinality(list) \in Nat /\ result = "none" /\ ~overrun
      /\ changes = 0 => size = Need /\ cap = Need
  BY NeedType, CardFacts DEF SizedInv, TypeOK, SizeShape, StableShape,
     FillMounts
<1>2. CASE changes # 0
  BY <1>2 DEF FillMounts, Fail, Untouched, StableShape
<1>3. CASE changes = 0
  <2>1. PICK D \in SUBSET list : /\ Cardinality(D) = Need
                                 /\ data' = D /\ len' = Cardinality(D)
    BY <1>1, <1>3 DEF FillMounts
  <2>2. Need = Cardinality(list)
    BY <1>1 DEF FillMounts, Need
  <2>3. D = list
    BY <2>1, <2>2, CardFacts, FS_Subset DEF SizedInv, TypeOK
  <2>4. /\ data' = list /\ filled' = list /\ len' = Cardinality(data')
        /\ pc' = "walk" /\ UNCHANGED <<overrun, result, op, changes>>
    BY <1>1, <1>3, <2>1, <2>3 DEF FillMounts, Goto, Untouched
  <2>5. ~overrun' /\ result' = "none"
    BY <1>1, <2>4
  <2>6. len' <= Cardinality(data') + Terminators'
    BY <1>1, <2>4 DEF Terminators
  <2> QED
    BY <2>4, <2>5, <2>6 DEF StableShape, StableListIsExact
<1> QED
  BY <1>2, <1>3

LEMMA StableFill ==
  ASSUME SizedInv, StableShape,
         FillProcesses \/ FillCpus \/ Load \/ FillDrives
           \/ FillOrFail \/ FillCpuInfo \/ FillPerfInfo
  PROVE  StableShape'
<1>1. /\ Need \in Nat /\ Need > 0 /\ cap \in Nat /\ size \in Nat /\ pc = "fill"
      /\ result = "none" /\ ~overrun
      /\ changes = 0 /\ op \notin {"load", "cpus"} => size = Need /\ cap = Need
      /\ changes = 0 /\ op = "cpus" => size \in {0, Need} /\ cap = size
  BY NeedType, NeedPositive DEF SizedInv, TypeOK, SizeShape, StableShape,
     FillProcesses, FillCpus, Load, FillDrives, FillOrFail, FillCpuInfo,
     FillPerfInfo
<1>2. CASE FillProcesses
  <2>1. CASE Filled(Need)
    BY <1>1, <1>2, <2>1, StableFilled DEF FillProcesses
  <2>2. CASE changes # 0 /\ Untouched
    BY <2>2 DEF StableShape, Untouched
  <2> QED
    BY <1>1, <1>2, <2>1, <2>2 DEF FillProcesses, Again
<1>3. CASE FillCpus
  <2>1. CASE Need <= size /\ Filled(Need)
    BY <1>1, <1>3, <2>1, StableFilled DEF FillCpus
  <2>2. CASE Need > size /\ size' = Need /\ Again("reserve") /\ UNCHANGED cap
    <3> USE <2>2 DEF Again, Goto, Untouched
    <3>1. Need' = Need
      BY DEF Need
    <3>2. changes = 0 => cap' = 0
      BY <1>1, <1>3 DEF FillCpus
    <3> QED
      BY <1>1, <3>1, <3>2 DEF StableShape, StableListIsExact
  <2> QED
    BY <1>3, <2>1, <2>2 DEF FillCpus
<1>4. CASE Load
  <2>1. CASE Need <= cap /\ Filled(Need)
    BY <1>1, <2>1, StableFilled
  <2>2. CASE Need > cap
    <3> USE <1>4, <2>2 DEF Load, Again, Goto, Untouched
    <3>1. pc' = "fill" /\ op' = "load" /\ result' = "none" /\ ~overrun'
      BY <1>1
    <3> QED
      BY <3>1 DEF StableShape, StableListIsExact
  <2> QED
    BY <1>4, <2>1, <2>2 DEF Load
<1>6. CASE FillDrives
  <2>1. CASE changes # 0
    <3>1. changes' # 0
      BY <1>6, <2>1 DEF FillDrives, Filled, Fail, Untouched
    <3> QED
      BY <3>1 DEF StableShape
  <2>2. CASE changes = 0
    BY <1>1, <1>6, <2>2, StableFilled DEF FillDrives
  <2> QED
    BY <2>1, <2>2
<1>7. CASE FillOrFail
  <2>1. CASE Need <= size /\ Filled(Need)
    BY <1>1, <1>7, <2>1, StableFilled DEF FillOrFail
  <2>2. CASE Fail("Load")
    BY <1>1, <2>2, StableFail DEF Results
  <2> QED
    BY <1>7, <2>1, <2>2 DEF FillOrFail
<1>8. CASE FillCpuInfo
  <2>1. CASE Need <= size /\ Filled(size)
    BY <1>1, <1>8, <2>1, StableFilled DEF FillCpuInfo
  <2>2. CASE FailSystem
    BY <1>1, <2>2, StableFailSystem
  <2> QED
    BY <1>8, <2>1, <2>2 DEF FillCpuInfo
<1>9. CASE FillPerfInfo
  <2>1. ~overrun'
    <3>1. SizedInv'
      BY <1>9, FillPerfInfoInv
    <3>2. op' = "perf_info"
      BY <1>9 DEF FillPerfInfo, Goto
    <3> QED
      BY <3>1, <3>2 DEF SizedInv, SafeShape
  <2>2. pc' = "walk" /\ op' = "perf_info" /\ result' = "none"
    BY <1>1, <1>9 DEF FillPerfInfo, Goto
  <2> QED
    BY <2>1, <2>2 DEF StableShape, StableListIsExact
<1> QED
  BY <1>2, <1>3, <1>4, <1>6, <1>7, <1>8, <1>9

LEMMA StableOther ==
  ASSUME SizedInv, StableShape, OtherError
  PROVE  StableShape'
<1>1. pc # "idle" /\ ~overrun /\ pc \in {"ask", "fill"}
  BY DEF SizedInv, SizeShape, OtherError
<1>2. CASE FailSystem
  BY <1>1, <1>2, StableFailSystem
<1>3. CASE pc = "ask" /\ op = "mounts" /\ Fail("Panic")
  <2>1. size = 0
    BY <1>3 DEF SizedInv, SizeShape
  <2> QED
    BY <1>1, <1>3, <2>1, StableFail DEF Results
<1> QED
  BY <1>2, <1>3 DEF OtherError

LEMMA StableWalk ==
  ASSUME SizedInv, StableShape, WalkNext \/ WalkEnd \/ Spin
  PROVE  StableShape'
<1>1. pc \in {"walk", "spin"} /\ pc # "idle" /\ result = "none"
  BY DEF SizedInv, SizeShape, WalkNext, WalkEnd, Spin
<1>2. /\ out \subseteq {e \in data : Kept(e)} /\ data \subseteq filled
      /\ changes = 0 => ~overrun
      /\ changes = 0 /\ pc = "walk" /\ op # "perf_info" =>
           data = filled /\ len <= Cardinality(data) + Terminators
  BY <1>1 DEF SizedInv, WalkShape, StableShape, StableListIsExact
<1>3. CASE WalkNext
  <2>1. ASSUME NEW e \in data \ out, op = "nic", e \in Bare, Fail("Crash")
        PROVE  StableShape'
    BY <1>1, <1>2, <2>1, StableFail DEF Results
  <2>2. ASSUME NEW e \in data \ out, Kept(e), Yield(e)
        PROVE  StableShape'
    <3> USE <2>2 DEF Yield
    <3>1. pc = "walk" /\ result' = "none"
      BY <1>1, <1>3 DEF WalkNext
    <3>2. Terminators' = Terminators
      BY DEF Terminators
    <3> QED
      BY <1>2, <3>1, <3>2 DEF StableShape, StableListIsExact
  <2> QED
    BY <1>3, <2>1, <2>2 DEF WalkNext
<1>4. CASE WalkEnd
  <2>1. pc = "walk" /\ (op # "mounts" => Answers)
        /\ (op = "mounts" /\ data = filled => out = Wanted)
    BY <1>4, WalkEndAnswers DEF WalkEnd
  <2>2. changes = 0 => Answers
    <3>1. op = "mounts" /\ out = Wanted => Answers
      BY DEF Answers, FirstOnly
    <3> QED
      BY <1>2, <2>1, <3>1
  <2>3. CASE Read > Cardinality(data) + Terminators /\ Fail("Garbage")
    <3>1. len > Cardinality(data) + Terminators /\ op \notin FirstOnly
      BY <2>1, <2>3, WalkEndReads
    <3>2. Cardinality(data) + Terminators \in Nat /\ len \in Nat
      BY CardFacts DEF SizedInv, TypeOK, Terminators
    <3>3. changes # 0
      BY <1>2, <2>1, <3>1, <3>2 DEF FirstOnly
    <3> QED
      BY <1>1, <2>3, <3>3, StableFail DEF Results
  <2>4. CASE Fail("Ok")
    BY <1>1, <1>2, <2>2, <2>4, StableFail DEF Results
  <2> QED
    BY <1>4, <2>3, <2>4 DEF WalkEnd
<1>5. CASE Spin
  <2> USE <1>5 DEF Spin, Goto, Untouched
  <2>1. pc' = "spin" /\ result' = "none" /\ (changes = 0 => ~overrun')
    BY <1>1, <1>2
  <2> QED
    BY <2>1 DEF StableShape, StableListIsExact
<1> QED
  BY <1>3, <1>4, <1>5

LEMMA StableStep ==
  ASSUME SizedInv, StableShape, Step
  PROVE  StableShape'
BY StableAsk, StableMounts, StableFill, StableOther, StableWalk DEF Step

----------------------------------------------------------------------------
(* Types *)

HandleTypes == /\ cur \subseteq Entry /\ Cardinality(cur) <= 1
               /\ done \subseteq Entry
               /\ foreign \in BOOLEAN /\ failures \in 0 .. MaxFailures

LEMMA HandleStepSets ==
  ASSUME TypeOK, HandleTypes, HandleStep
  PROVE  /\ cur' = cur \/ \E e \in Entry : cur' = {e}
         /\ done' \subseteq Entry /\ data' \subseteq Entry /\ out' \subseteq Entry
         /\ failures' = failures \/ OneMoreFailure
         /\ foreign' = foreign \/ foreign' = TRUE
<1> USE DEF TypeOK, HandleTypes, Do, Same, MoveTo, Pass, Give, FailWith, Report,
        DropInfo
<1>1. filled \subseteq Entry /\ list \subseteq Entry /\ data \subseteq Entry
      /\ out \subseteq Entry
  OBVIOUS
<1>2. CASE FindFirstVolume
  BY <1>1, <1>2 DEF FindFirstVolume
<1>3. CASE FindNextVolume
  BY <1>1, <1>3 DEF FindNextVolume
<1>4. CASE VolumeFilter
  BY <1>1, <1>4 DEF VolumeFilter
<1>5. CASE DeviceIoControl
  BY <1>1, <1>5 DEF DeviceIoControl
<1>6. CASE CloseFile
  BY <1>1, <1>6 DEF CloseFile
<1>7. CASE DriveNext
  BY <1>1, <1>7 DEF DriveNext
<1>8. CASE GetVolumeInformation
  BY <1>1, <1>8 DEF GetVolumeInformation
<1>9. CASE EnumerateSessions
  BY <1>1, <1>9 DEF EnumerateSessions
<1>10. CASE SessionNext
  BY <1>1, <1>10 DEF SessionNext
<1>11. CASE FromSession
  BY <1>1, <1>11 DEF FromSession, SessionInfo, SessionAddress,
     UnknownFamily
<1>12. CASE MasterPort
  BY <1>1, <1>12 DEF MasterPort
<1>13. CASE GetServices
  BY <1>1, <1>13 DEF GetServices
<1>14. CASE MediaNext
  BY <1>1, <1>14 DEF MediaNext
<1>15. CASE MediaParent
  BY <1>1, <1>15 DEF MediaParent
<1>16. CASE ConformsTo
  BY <1>1, <1>16 DEF ConformsTo
<1>17. CASE MediaProperties
  BY <1>1, <1>17 DEF MediaProperties
<1>18. CASE MediaKeys
  BY <1>1, <1>18 DEF MediaKeys
<1>19. CASE LoadInfo
  BY <1>1, <1>19 DEF LoadInfo
<1>20. CASE VmDeallocate
  BY <1>1, <1>20 DEF VmDeallocate
<1>21. CASE SetUtxEnt
  BY <1>1, <1>21 DEF SetUtxEnt
<1>22. CASE GetUtxEnt
  BY <1>1, <1>22 DEF GetUtxEnt
<1>23. CASE UserType
  BY <1>1, <1>23 DEF UserType
<1>24. CASE UserPush
  BY <1>1, <1>24 DEF UserPush
<1>25. CASE DropStream
  BY <1>1, <1>25 DEF DropStream
<1>26. CASE SetMode
  BY <1>1, <1>26 DEF SetMode
<1>27. CASE RestoreMode
  BY <1>1, <1>27 DEF RestoreMode
<1>28. CASE DropPanics
  BY <1>1, <1>28 DEF DropPanics
<1> QED
  BY <1>2, <1>3, <1>4, <1>5, <1>6, <1>7, <1>8, <1>9, <1>10, <1>11, <1>12,
     <1>13, <1>14, <1>15, <1>16, <1>17, <1>18, <1>19, <1>20, <1>21, <1>22,
     <1>23, <1>24, <1>25, <1>26, <1>27, <1>28
     DEF HandleStep

(* The steps of such a call are taken while it is under way, and no other  *)
(* call is.                                                                *)
LEMMA Underway ==
  ASSUME HandleInv, HandleStep
  PROVE  hop # "none" /\ op = "none" /\ pc = "idle" /\ Others /\ ~Ended
<1>1. ~Ended /\ Others
  BY DEF HandleStep, Ended, FindFirstVolume, FindNextVolume, VolumeFilter,
     DeviceIoControl, CloseFile, DriveNext, GetVolumeInformation,
     EnumerateSessions, SessionNext, FromSession, SessionInfo, SessionAddress,
     MasterPort, GetServices, MediaNext, MediaParent, ConformsTo,
     MediaProperties, MediaKeys, LoadInfo, VmDeallocate, SetUtxEnt, GetUtxEnt,
     UserType, UserPush, DropStream, DropPanics, UnknownFamily, SetMode,
     RestoreMode
<1> QED
  BY <1>1 DEF HandleInv, Places, Ended

(* They leave what SizedQuery is about alone. *)
LEMMA SizedIdle ==
  ASSUME SizedInv, op' = "none", pc' = "idle", result' = "none", ~overrun',
         tries' = "first", TypeOK'
  PROVE  SizedInv' /\ StableShape'
<1>1. SizeShape' /\ WalkShape'
  BY DEF SizeShape, WalkShape
<1>2. SafeShape'
  BY DEF SafeShape
<1>3. StableShape'
  BY DEF StableShape, StableListIsExact
<1> QED
  BY <1>1, <1>2, <1>3 DEF SizedInv

LEMMA HandleStepTypes ==
  ASSUME SizedInv, HandleInv, HandleTypes, HandleStep
  PROVE  SizedInv' /\ StableShape' /\ HandleTypes'
<1>1. TypeOK
  BY DEF SizedInv
<1>2. /\ cur' = cur \/ \E e \in Entry : cur' = {e}
      /\ done' \subseteq Entry /\ data' \subseteq Entry /\ out' \subseteq Entry
      /\ failures' = failures \/ OneMoreFailure
      /\ foreign' = foreign \/ foreign' = TRUE
  BY <1>1, HandleStepSets
<1>3. op = "none" /\ pc = "idle" /\ Others
  BY Underway
<1>4. HandleTypes'
  <2>1. cur' \subseteq Entry /\ Cardinality(cur') <= 1
    BY <1>2, FS_Singleton DEF HandleTypes
  <2>2. failures' \in 0 .. MaxFailures
    BY <1>2, FailuresAssumption DEF HandleTypes, OneMoreFailure
  <2>3. foreign' \in BOOLEAN
    BY <1>2 DEF HandleTypes
  <2> QED
    BY <1>2, <2>1, <2>2, <2>3 DEF HandleTypes
<1>5. TypeOK'
  BY <1>1, <1>2, <1>3 DEF TypeOK, Others
<1>6. result' = "none" /\ ~overrun' /\ tries' = "first"
  BY <1>3 DEF Others, SizedInv, SizeShape
<1> QED
  BY <1>3, <1>4, <1>5, <1>6, SizedIdle DEF Others

----------------------------------------------------------------------------
(* What is yielded, if nobody else is about *)

(* Where a stream works on an entry; where the entry has passed the filter. *)
Working == {"filter", "ioctl", "close", "mode", "volume", "restore", "info",
            "address", "parent", "conforms", "properties", "keys", "type",
            "user"}
Chosen == {"ioctl", "close", "mode", "volume", "restore", "address", "user"}

(* The entries that should have been yielded and were not, and the system  *)
(* calls that failed for them.                                             *)
Missing == ((done \intersect Expected) \ out) \
           (IF hpc \in Working THEN cur ELSE {})
Debt == IF status = "ok" THEN 0 ELSE 1

ExactStream ==
  /\ done \subseteq list /\ out \subseteq Expected
  /\ hop = "sessions" /\ ~Ended /\ hpc # "open" => data = list
  /\ Cardinality(Missing) + Debt <= failures
  /\ hpc \in Working => \E e \in done : cur = {e}
  /\ hpc \in Chosen => cur \subseteq Expected
  /\ hpc \in {"properties", "keys"} => cur \intersect Skipped = {}
  /\ hpc = "drop" => Expected \subseteq done
  /\ hpc = "idle" => \/ Expected \subseteq done
                     \/ failures > 0 /\ ~Opened

ExactInfo == out = {} \/ (hpc = "idle" /\ out = list)
ExactInfoEnd == hpc = "idle" /\ failures = 0 => out = list

ExactShape ==
  changes = 0 /\ hop # "none" /\ hpc # "panicked" =>
    /\ filled = list
    /\ IF hop = "load_info" THEN ExactInfo /\ ExactInfoEnd ELSE ExactStream

LEMMA CardStep ==
  ASSUME NEW M \in SUBSET Entry, NEW N \in SUBSET Entry, NEW e
  PROVE  /\ Cardinality(M) \in Nat /\ Cardinality(N) \in Nat
         /\ N \subseteq M => Cardinality(N) <= Cardinality(M)
         /\ N \subseteq M \union {e} => Cardinality(N) <= Cardinality(M) + 1
<1>1. /\ IsFiniteSet(M) /\ Cardinality(M) \in Nat
      /\ IsFiniteSet(N) /\ Cardinality(N) \in Nat
  BY CardFacts
<1>2. /\ IsFiniteSet(M \union {e})
      /\ \/ Cardinality(M \union {e}) = Cardinality(M)
         \/ Cardinality(M \union {e}) = Cardinality(M) + 1
  BY <1>1, FS_AddElement
<1>3. ASSUME N \subseteq M PROVE Cardinality(N) <= Cardinality(M)
  BY <1>1, <1>3, FS_Subset
<1>4. ASSUME N \subseteq M \union {e}
      PROVE  Cardinality(N) <= Cardinality(M \union {e})
  BY <1>2, <1>4, FS_Subset
<1> QED
  BY <1>1, <1>2, <1>3, <1>4

LEMMA Balance ==
  ASSUME NEW m \in Nat, NEW n \in Nat, NEW d \in Nat, NEW e \in Nat,
         NEW f \in Nat, NEW g \in Nat, m + d <= f,
         \/ n <= m /\ f + e <= g + d
         \/ n <= m + 1 /\ f + e + 1 <= g + d
  PROVE  n + e <= g
OBVIOUS

(* A step that leaves at most one more entry out, and then pays for it. *)
LEMMA Bookkeeping ==
  ASSUME HandleTypes, HandleTypes', Cardinality(Missing) + Debt <= failures,
         \/ Missing' \subseteq Missing /\ failures + Debt' <= failures' + Debt
         \/ \E e \in Entry : /\ Missing' \subseteq Missing \union {e}
                             /\ failures + Debt' + 1 <= failures' + Debt
  PROVE  Cardinality(Missing') + Debt' <= failures'
<1>1. /\ Missing \in SUBSET Entry /\ Missing' \in SUBSET Entry
      /\ failures \in Nat /\ failures' \in Nat
      /\ Debt \in Nat /\ Debt' \in Nat
  BY FailuresAssumption DEF HandleTypes, Missing, Debt
<1>2. /\ Cardinality(Missing) \in Nat /\ Cardinality(Missing') \in Nat
      /\ Missing' \subseteq Missing =>
           Cardinality(Missing') <= Cardinality(Missing)
      /\ \A e \in Entry : Missing' \subseteq Missing \union {e} =>
           Cardinality(Missing') <= Cardinality(Missing) + 1
  <2> HIDE DEF Missing
  <2>1. ASSUME NEW e \in Entry
        PROVE  /\ Cardinality(Missing) \in Nat /\ Cardinality(Missing') \in Nat
               /\ Missing' \subseteq Missing =>
                    Cardinality(Missing') <= Cardinality(Missing)
               /\ Missing' \subseteq Missing \union {e} =>
                    Cardinality(Missing') <= Cardinality(Missing) + 1
    BY <1>1, CardStep
  <2> QED
    BY <2>1, SizedAssumption
<1>3. CASE Missing' \subseteq Missing /\ failures + Debt' <= failures' + Debt
  <2>1. Cardinality(Missing') <= Cardinality(Missing)
    BY <1>2, <1>3
  <2> QED
    BY <1>1, <1>2, <1>3, <2>1, Balance
<1>4. ASSUME NEW e \in Entry, Missing' \subseteq Missing \union {e},
             failures + Debt' + 1 <= failures' + Debt
      PROVE  Cardinality(Missing') + Debt' <= failures'
  <2>1. Cardinality(Missing') <= Cardinality(Missing) + 1
    BY <1>2, <1>4
  <2> QED
    BY <1>1, <1>2, <1>4, <2>1, Balance
<1> QED
  BY <1>3, <1>4

(* A call that is not disturbed. *)
Undisturbed == /\ SizedInv /\ HandleInv /\ HandleTypes /\ ExactShape
               /\ changes = 0 /\ hop # "none" /\ hop # "load_info"
               /\ hpc # "panicked"
               /\ Others /\ HandleTypes'

LEMMA UndisturbedFacts ==
  ASSUME Undisturbed
  PROVE  /\ ExactStream /\ filled = list /\ list \subseteq Entry
         /\ list' = list /\ filled' = filled /\ hop' = hop
         /\ changes' = changes /\ Expected' = Expected /\ Expected \subseteq list
         /\ failures \in Nat /\ Debt \in Nat
         /\ status # "ok" => hpc \in {"close", "restore"}
<1>1. /\ ExactStream /\ filled = list /\ list' = list /\ filled' = filled
      /\ hop' = hop /\ changes' = changes
  BY DEF Undisturbed, ExactShape, Others
<1>2. Expected' = Expected
  BY <1>1 DEF Expected
<1>3. Expected \subseteq list
  BY <1>1 DEF Undisturbed, HandleInv, Places, HandleOps, Expected
<1>4. /\ list \subseteq Entry /\ failures \in Nat /\ Debt \in Nat
      /\ status # "ok" => hpc \in {"close", "restore"}
  BY FailuresAssumption DEF Undisturbed, SizedInv, TypeOK, HandleTypes, Debt,
     HandleInv, CodeShape
<1> QED
  BY <1>1, <1>2, <1>3, <1>4

(* It works on an entry. *)
LEMMA ExactWork ==
  ASSUME Undisturbed, hpc \in Working, hpc' \in Working, Same,
         hpc' \in Chosen => cur \subseteq Expected,
         hpc' \in {"properties", "keys"} => cur \intersect Skipped = {}
  PROVE  ExactShape'
<1> USE UndisturbedFacts DEF Same
<1>1. Missing' \subseteq Missing /\ failures + Debt' <= failures' + Debt
  BY DEF Missing, Debt
<1>2. Cardinality(Missing') + Debt' <= failures'
  BY <1>1, Bookkeeping DEF Undisturbed, ExactStream
<1>3. ExactStream'
  BY <1>2 DEF ExactStream, Working, Ended
<1> QED
  BY <1>3 DEF ExactShape, Undisturbed

(* A system call in the middle of three fails. *)
LEMMA ExactOwes ==
  ASSUME Undisturbed, hpc \in Working, hpc' \in {"close", "restore"},
         status = "ok", OneMoreFailure, UNCHANGED <<cur, done, data, out>>,
         cur \subseteq Expected
  PROVE  ExactShape'
<1> USE UndisturbedFacts DEF OneMoreFailure
<1>1. Missing' \subseteq Missing /\ failures + Debt' <= failures' + Debt
  BY DEF Missing, Debt, Working
<1>2. Cardinality(Missing') + Debt' <= failures'
  BY <1>1, Bookkeeping DEF Undisturbed, ExactStream
<1>3. ExactStream'
  BY <1>2 DEF ExactStream, Working, Ended
<1> QED
  BY <1>3 DEF ExactShape, Undisturbed

(* It takes up the next entry. *)
LEMMA ExactMove ==
  ASSUME Undisturbed, hpc = "next", NEW e \in list,
         NEW l \in {"filter", "mode", "info", "parent", "type"}, NEW h,
         MoveTo(e, l, h), l = "mode" => e \in Expected
  PROVE  ExactShape'
<1> USE UndisturbedFacts DEF MoveTo, Do
<1>1. Missing' \subseteq Missing /\ failures + Debt' <= failures' + Debt
  BY DEF Missing, Debt, Working
<1>2. Cardinality(Missing') + Debt' <= failures'
  BY <1>1, Bookkeeping DEF Undisturbed, ExactStream
<1>3. ExactStream'
  BY <1>2 DEF ExactStream, Working, Chosen, Ended
<1> QED
  BY <1>3 DEF ExactShape, Undisturbed

(* It is done with an entry: yielded, of no interest, or paid for. *)
LEMMA ExactLeave ==
  ASSUME Undisturbed, hpc \in Working, hpc' = "next",
         UNCHANGED <<cur, done, data>>, status' = "ok",
         \/ out' = out \union cur /\ cur \subseteq Expected
         \/ out' = out,
         \/ cur \intersect Expected \subseteq out' /\ failures' = failures
         \/ status # "ok" /\ failures' = failures
         \/ OneMoreFailure
  PROVE  ExactShape'
<1> USE UndisturbedFacts
<1>1. PICK e \in done : cur = {e} /\ e \in Entry
  BY DEF ExactStream
<1>2. CASE cur \intersect Expected \subseteq out' /\ failures' = failures
  <2>1. Missing' \subseteq Missing /\ failures + Debt' <= failures' + Debt
    BY <1>2 DEF Missing, Debt, Working
  <2> QED
    BY <2>1, Bookkeeping DEF Undisturbed, ExactStream, ExactShape, Working,
       Chosen, Ended
<1>3. CASE (status # "ok" /\ failures' = failures) \/ OneMoreFailure
  <2>1. Missing' \subseteq Missing \union {e}
    BY <1>1 DEF Missing, Working
  <2>2. failures + Debt' + 1 <= failures' + Debt
    BY <1>3 DEF Debt, OneMoreFailure
  <2> QED
    BY <1>1, <2>1, <2>2, Bookkeeping DEF Undisturbed, ExactStream, ExactShape,
       Working, Chosen, Ended
<1> QED
  BY <1>2, <1>3

(* Between two entries a system call fails, or the stream ends. *)
LEMMA ExactBetween ==
  ASSUME Undisturbed, hpc \in {"open", "next", "drop", "dropped", "services"},
         hpc' \notin Working, UNCHANGED <<cur, done, out, status>>,
         (failures' = failures) \/ OneMoreFailure,
         hop = "sessions" /\ hpc' \notin {"idle", "stopped", "open"} => data' = list,
         hpc' = "drop" => Expected \subseteq done,
         hpc' = "idle" => \/ Expected \subseteq done
                          \/ failures' > 0 /\ ~Opened'
  PROVE  ExactShape'
<1> USE UndisturbedFacts DEF OneMoreFailure
<1>1. Missing' \subseteq Missing /\ failures + Debt' <= failures' + Debt
  BY DEF Missing, Debt, Working
<1>2. Cardinality(Missing') + Debt' <= failures'
  BY <1>1, Bookkeeping DEF Undisturbed, ExactStream
<1>3. ExactStream'
  BY <1>2 DEF ExactStream, Working, Chosen, Ended
<1> QED
  BY <1>3 DEF ExactShape, Undisturbed

(* A system call for an entry fails; one between two entries fails. *)
LEMMA ExactFail ==
  ASSUME Undisturbed, NEW c, NEW h, FailWith(c, "next", h),
         hpc \in Working \union {"next"}, status = "ok"
  PROVE  ExactShape'
<1> USE DEF FailWith, Report
<1>1. CASE hpc \in Working
  BY <1>1, ExactLeave
<1>2. CASE hpc = "next"
  BY <1>2, ExactBetween, UndisturbedFacts DEF ExactStream, Working, Ended
<1> QED
  BY <1>1, <1>2

LEMMA ExactEnd ==
  ASSUME Undisturbed, NEW h, NEW g, hpc = "next", Do("drop", h, g), Same,
         Expected \subseteq done
  PROVE  ExactShape'
BY ExactBetween, UndisturbedFacts DEF Do, Same, ExactStream, Working, Ended

LEMMA ExactPass ==
  ASSUME Undisturbed, hpc \in Working, status = "ok", NEW h, Pass(h),
         cur \intersect Expected = {}
  PROVE  ExactShape'
BY ExactLeave DEF Pass, Do, Same

LEMMA ExactGive ==
  ASSUME Undisturbed, hpc \in Working, status = "ok", NEW h, Give(h),
         cur \subseteq Expected
  PROVE  ExactShape'
BY ExactLeave DEF Give, Do

LEMMA CurFacts ==
  ASSUME Undisturbed, hpc \in Working
  PROVE  cur \subseteq list /\ cur # {} /\ \E e \in list : cur = {e}
BY UndisturbedFacts DEF ExactStream

LEMMA ExactVolumes ==
  ASSUME Undisturbed, FindFirstVolume \/ FindNextVolume \/ VolumeFilter
                        \/ DeviceIoControl \/ CloseFile
  PROVE  ExactShape'
<1> USE UndisturbedFacts
<1>1. CASE FindFirstVolume
  <2>1. hpc = "next" /\ status = "ok"
    BY <1>1 DEF FindFirstVolume
  <2> QED
    BY <1>1, <2>1, ExactMove, ExactFail DEF FindFirstVolume
<1>2. CASE FindNextVolume
  <2>1. hpc = "next" /\ status = "ok"
    BY <1>2 DEF FindNextVolume
  <2>2. CASE list \subseteq done /\ Do("drop", {}, {}) /\ Same
    BY <2>1, <2>2, ExactEnd
  <2> QED
    BY <1>2, <2>1, <2>2, ExactMove, ExactFail DEF FindNextVolume
<1>3. CASE VolumeFilter
  <2>1. hpc = "filter" /\ hpc \in Working /\ status = "ok"
        /\ hop \in VolumeOps /\ cur \subseteq list
    BY <1>3, CurFacts DEF VolumeFilter, Working, Undisturbed, HandleInv, Places
  <2>2. CASE FailWith("CreateFileW", "next", {})
    BY <2>1, <2>2, ExactFail
  <2>3. CASE /\ hop = "volumes" \/ cur \intersect Skipped = {}
             /\ Do("ioctl", {"file"}, {}) /\ Same
    <3>1. cur \subseteq Expected
      BY <2>1, <2>3 DEF Expected, VolumeOps
    <3> QED
      BY <2>1, <2>3, <3>1, ExactWork DEF Do, Working
  <2>4. CASE hop = "volumes_physical" /\ cur \subseteq Skipped /\ Pass({})
    <3>1. cur \intersect Expected = {}
      BY <2>4 DEF Expected
    <3> QED
      BY <2>1, <2>4, <3>1, ExactPass
  <2> QED
    BY <1>3, <2>2, <2>3, <2>4 DEF VolumeFilter
<1>4. CASE DeviceIoControl
  <2>1. hpc = "ioctl" /\ hpc \in Working /\ status = "ok" /\ cur \subseteq Expected
    BY <1>4 DEF DeviceIoControl, Working, Chosen, ExactStream
  <2>2. CASE Do("close", {}, {}) /\ Same
    BY <2>1, <2>2, ExactWork DEF Do, Working
  <2> QED
    BY <1>4, <2>1, <2>2, ExactOwes DEF DeviceIoControl, Do
<1>5. CASE CloseFile
  <2>1. hpc = "close" /\ hpc \in Working /\ cur \subseteq Expected
    BY <1>5 DEF CloseFile, Working, Chosen, ExactStream
  <2> QED
    BY <1>5, <2>1, ExactLeave DEF CloseFile, Do
<1> QED
  BY <1>1, <1>2, <1>3, <1>4, <1>5

LEMMA ExactDrives ==
  ASSUME Undisturbed, DriveNext \/ SetMode \/ GetVolumeInformation
                        \/ RestoreMode
  PROVE  ExactShape'
<1> USE UndisturbedFacts
<1>1. CASE DriveNext
  <2>1. hpc = "next" /\ Expected = list
    BY <1>1 DEF DriveNext, Expected
  <2>2. CASE filled \subseteq done /\ Do("drop", {}, {}) /\ Same
    BY <2>1, <2>2, ExactEnd
  <2> QED
    BY <1>1, <2>1, <2>2, ExactMove DEF DriveNext
<1>2. CASE SetMode
  <2>1. hpc = "mode" /\ hpc \in Working /\ status = "ok" /\ cur \subseteq Expected
    BY <1>2 DEF SetMode, Working, Chosen, ExactStream
  <2>2. CASE Do("volume", {}, {}) /\ Same
    BY <2>1, <2>2, ExactWork DEF Do, Working
  <2> QED
    BY <1>2, <2>1, <2>2, ExactFail DEF SetMode
<1>3. CASE GetVolumeInformation
  <2>1. /\ hpc = "volume" /\ hpc \in Working /\ status = "ok"
        /\ cur \subseteq Expected
    BY <1>3 DEF GetVolumeInformation, Working, Chosen, ExactStream
  <2>2. CASE Do("restore", {}, {}) /\ Same
    BY <2>1, <2>2, ExactWork DEF Do, Working
  <2> QED
    BY <1>3, <2>1, <2>2, ExactOwes DEF GetVolumeInformation, Do
<1>4. CASE RestoreMode
  <2>1. hpc = "restore" /\ hpc \in Working /\ cur \subseteq Expected
    BY <1>4 DEF RestoreMode, Working, Chosen, ExactStream
  <2> QED
    BY <1>4, <2>1, ExactLeave DEF RestoreMode, Do
<1> QED
  BY <1>1, <1>2, <1>3, <1>4

LEMMA ExactSessions ==
  ASSUME Undisturbed, EnumerateSessions \/ SessionNext \/ SessionInfo
                        \/ SessionAddress
  PROVE  ExactShape'
<1> USE UndisturbedFacts
<1>1. CASE EnumerateSessions
  <2>1. CASE /\ Do("next", {"array"}, {}) /\ data' = list
             /\ UNCHANGED <<cur, done, out, err, status, failures>>
    BY <1>1, <2>1, ExactBetween DEF EnumerateSessions, Do, Working
  <2>2. CASE FailWith("WTSEnumerateSessionsW", "idle", {})
    <3>1. "WTSEnumerateSessionsW" \in reported' /\ hop' = "sessions"
      BY <1>1, <2>2 DEF EnumerateSessions, FailWith, Report, SetsCode, Windows
    <3>2. ~Opened' /\ failures' > 0
      BY <1>1, <2>2, <3>1 DEF Opened, FailWith, OneMoreFailure
    <3> QED
      BY <1>1, <2>2, <3>2, ExactBetween DEF EnumerateSessions, FailWith, Report,
         Working
  <2> QED
    BY <1>1, <2>1, <2>2 DEF EnumerateSessions
<1>2. CASE SessionNext
  <2>1. hpc = "next" /\ data = list
    BY <1>2 DEF SessionNext, ExactStream, Ended
  <2>2. CASE data \subseteq done /\ Do("drop", {}, {}) /\ Same
    BY <2>1, <2>2, ExactEnd
  <2> QED
    BY <1>2, <2>1, <2>2, ExactMove DEF SessionNext
<1>3. CASE SessionInfo
  <2>1. /\ hpc = "info" /\ hpc \in Working /\ status = "ok"
        /\ Expected = list \ Skipped /\ cur \subseteq list /\ cur # {}
    BY <1>3, CurFacts DEF SessionInfo, Working, Undisturbed, HandleInv, Places,
       Expected
  <2>2. CASE cur \intersect Skipped = {} /\ Do("address", {"info"}, {}) /\ Same
    BY <2>1, <2>2, ExactWork DEF Do, Working
  <2>3. CASE cur \subseteq Skipped /\ hpc' = "next" /\ Same
    BY <2>1, <2>3, ExactLeave DEF Same
  <2>4. CASE FailWith("WTSQuerySessionInformationW", "next", {})
    BY <2>1, <2>4, ExactFail
  <2> QED
    BY <1>3, <2>1, <2>2, <2>3, <2>4 DEF SessionInfo
<1>4. CASE SessionAddress
  <2>1. /\ hpc = "address" /\ hpc \in Working /\ status = "ok"
        /\ cur \subseteq Expected
    BY <1>4 DEF SessionAddress, Working, Chosen, ExactStream
  <2> QED
    BY <1>4, <2>1, ExactLeave DEF SessionAddress
<1> QED
  BY <1>1, <1>2, <1>3, <1>4

LEMMA ExactMedia ==
  ASSUME Undisturbed, MasterPort \/ GetServices \/ MediaNext \/ MediaParent
                        \/ ConformsTo \/ MediaProperties \/ MediaKeys
  PROVE  ExactShape'
<1> USE UndisturbedFacts
<1>1. /\ hop = "media" /\ hop' = "media" /\ ~Opened'
      /\ Expected = list \ (Skipped \union Bare)
  BY DEF Undisturbed, HandleInv, Places, Expected, Opened, MasterPort,
     GetServices, MediaNext, MediaParent, ConformsTo, MediaProperties,
     MediaKeys
<1>2. CASE MasterPort
  BY <1>1, <1>2, ExactBetween DEF MasterPort, Do, Same, FailWith, Report,
     OneMoreFailure, Working
<1>3. CASE GetServices
  BY <1>1, <1>3, ExactBetween DEF GetServices, Do, Same, FailWith, Report,
     OneMoreFailure, Working
<1>4. CASE MediaNext
  <2>1. hpc = "next"
    BY <1>4 DEF MediaNext
  <2>2. CASE list \subseteq done /\ Do("drop", {}, {}) /\ Same
    BY <2>1, <2>2, ExactEnd
  <2> QED
    BY <1>4, <2>1, <2>2, ExactMove DEF MediaNext
<1>5. ASSUME hpc \in {"parent", "conforms", "properties", "keys"}
      PROVE  hpc \in Working /\ status = "ok" /\ cur \subseteq list
  BY <1>5, CurFacts DEF Working
<1>6. CASE MediaParent
  <2>1. CASE Do("conforms", {"parent"}, {}) /\ Same
    BY <1>5, <1>6, <2>1, ExactWork DEF MediaParent, Do, Working, Chosen
  <2> QED
    BY <1>5, <1>6, <2>1, ExactFail DEF MediaParent
<1>7. CASE ConformsTo
  <2>1. CASE cur \subseteq Skipped /\ Pass(Device)
    BY <1>1, <1>5, <1>7, <2>1, ExactPass DEF ConformsTo
  <2>2. CASE cur \intersect Skipped = {} /\ Do("properties", {}, {}) /\ Same
    BY <1>5, <1>7, <2>2, ExactWork DEF ConformsTo, Do, Working, Chosen
  <2> QED
    BY <1>7, <2>1, <2>2 DEF ConformsTo
<1>8. CASE MediaProperties
  <2>1. hpc = "properties" /\ cur \intersect Skipped = {}
    BY <1>8 DEF MediaProperties, ExactStream
  <2>2. CASE FailWith("IORegistryEntryCreateCFProperties", "next", Device)
    BY <1>5, <2>1, <2>2, ExactFail
  <2>3. CASE hpc' \in {"properties", "keys"} /\ Same
    BY <1>5, <2>1, <2>3, ExactWork DEF Working, Chosen
  <2> QED
    BY <1>8, <2>2, <2>3 DEF MediaProperties, Do
<1>9. CASE MediaKeys
  <2>1. hpc = "keys" /\ cur \intersect Skipped = {}
    BY <1>9 DEF MediaKeys, ExactStream
  <2>2. CASE cur \intersect Bare = {} /\ Give(Device)
    BY <1>1, <1>5, <2>1, <2>2, ExactGive
  <2>3. CASE cur \subseteq Bare /\ hpc' = "next" /\ Same
    BY <1>1, <1>5, <2>1, <2>3, ExactLeave DEF Same
  <2> QED
    BY <1>9, <2>2, <2>3 DEF MediaKeys
<1> QED
  BY <1>2, <1>3, <1>4, <1>6, <1>7, <1>8, <1>9

LEMMA ExactUsers ==
  ASSUME Undisturbed, SetUtxEnt \/ GetUtxEnt \/ UserType \/ UserPush
                        \/ DropStream
  PROVE  ExactShape'
<1> USE UndisturbedFacts
<1>1. CASE SetUtxEnt
  <2>1. Missing' = {} /\ Debt' = Debt /\ failures' = failures
    BY <1>1 DEF SetUtxEnt, Missing, Debt
  <2>2. Missing' \subseteq Missing /\ failures + Debt' <= failures' + Debt
    BY <2>1
  <2>3. Cardinality(Missing') + Debt' <= failures'
    BY <2>2, Bookkeeping DEF Undisturbed, ExactStream
  <2>4. ExactStream'
    BY <1>1, <2>3 DEF SetUtxEnt, ExactStream, Working, Chosen
  <2> QED
    BY <2>4 DEF ExactShape, Undisturbed
<1>2. CASE GetUtxEnt
  <2>1. hpc = "next"
    BY <1>2 DEF GetUtxEnt
  <2>2. CASE list \subseteq done /\ Do("idle", {}, {}) /\ Same
    BY <2>1, <2>2, ExactBetween DEF Do, Same, Working
  <2> QED
    BY <1>2, <2>1, <2>2, ExactMove DEF GetUtxEnt
<1>3. ASSUME hpc \in {"type", "user"}
      PROVE  /\ hpc \in Working /\ status = "ok" /\ cur \subseteq list
             /\ Expected = list \ Skipped
  BY <1>3, CurFacts DEF Working, Expected, Undisturbed, HandleInv, Places
<1>4. CASE UserType
  <2>1. CASE cur \subseteq Skipped /\ Pass({})
    BY <1>3, <1>4, <2>1, ExactPass DEF UserType
  <2>2. CASE cur \intersect Skipped = {} /\ Do("user", {}, {}) /\ Same
    BY <1>3, <1>4, <2>2, ExactWork DEF UserType, Do, Working
  <2> QED
    BY <1>4, <2>1, <2>2 DEF UserType
<1>5. CASE UserPush
  <2>1. cur \subseteq Expected
    BY <1>5 DEF UserPush, ExactStream, Chosen
  <2> QED
    BY <1>3, <1>5, <2>1, ExactGive DEF UserPush
<1>6. CASE DropStream
  <2>1. hpc = "drop" => Expected \subseteq done
    BY DEF ExactStream
  <2> QED
    BY <1>6, <2>1, ExactBetween DEF DropStream, Do, Same, Working
<1> QED
  BY <1>1, <1>2, <1>4, <1>5, <1>6

LEMMA ExactLoadInfo ==
  ASSUME ExactShape, HandleTypes, Others, changes = 0, hop = "load_info",
         LoadInfo \/ VmDeallocate
  PROVE  ExactShape'
<1>1. /\ filled' = list' /\ hop' = hop /\ list' = list /\ hop # "none"
      /\ hpc \in {"open", "cpus", "copy"} /\ failures \in Nat
  <2>1. hpc \in {"open", "cpus", "copy"}
    BY DEF LoadInfo, VmDeallocate
  <2>2. failures \in Nat
    BY FailuresAssumption DEF HandleTypes
  <2> QED
    BY <2>1, <2>2 DEF ExactShape, Others
<1>2. out = {}
  BY <1>1 DEF ExactShape, ExactInfo
<1>3. ExactInfo' /\ ExactInfoEnd'
  <2>1. CASE LoadInfo
    BY <1>1, <1>2, <2>1 DEF LoadInfo, Do, Same, FailWith, Report,
       OneMoreFailure, ExactInfo, ExactInfoEnd
  <2>2. CASE VmDeallocate
    BY <1>1, <1>2, <2>2 DEF VmDeallocate, Do, OneMoreFailure, ExactInfo,
       ExactInfoEnd
  <2> QED
    BY <2>1, <2>2
<1> QED
  BY <1>1, <1>3 DEF ExactShape

LEMMA ExactStep ==
  ASSUME SizedInv, HandleInv, HandleTypes, HandleTypes', ExactShape, HandleStep
  PROVE  ExactShape'
<1>1. hop # "none" /\ Others
  BY Underway
<1>2. CASE changes # 0 \/ DropPanics \/ UnknownFamily
  BY <1>1, <1>2 DEF ExactShape, Others, DropPanics, UnknownFamily
<1>3. CASE /\ changes = 0 /\ hop # "load_info"
           /\ ~DropPanics /\ ~UnknownFamily
  <2>1. Undisturbed
    BY <1>1, <1>3, Underway DEF Undisturbed, Ended
  <2>2. ~LoadInfo /\ ~VmDeallocate
    BY <1>3 DEF LoadInfo, VmDeallocate, HandleInv, Places
  <2>3. \/ FindFirstVolume \/ FindNextVolume \/ VolumeFilter
        \/ DeviceIoControl \/ CloseFile \/ DriveNext \/ GetVolumeInformation
        \/ EnumerateSessions \/ SessionNext \/ SessionInfo \/ SessionAddress
        \/ MasterPort \/ GetServices \/ MediaNext \/ MediaParent
        \/ ConformsTo \/ MediaProperties \/ MediaKeys
        \/ SetUtxEnt \/ GetUtxEnt \/ UserType \/ UserPush
        \/ DropStream \/ SetMode \/ RestoreMode
    BY <1>3, <2>2 DEF HandleStep, FromSession
  <2> QED
    BY <2>1, <2>3, ExactVolumes, ExactDrives, ExactSessions, ExactMedia,
       ExactUsers
<1>4. CASE changes = 0 /\ hop = "load_info" /\ ~DropPanics
  <2>1. hpc \in {"open", "cpus", "copy", "idle", "stopped", "panicked"}
    BY <1>4 DEF HandleInv, Places, HPCs, VolumeOps, Streams
  <2>2. LoadInfo \/ VmDeallocate
    BY <1>4, <2>1 DEF HandleStep, FindFirstVolume, FindNextVolume,
       VolumeFilter, DeviceIoControl, CloseFile, DriveNext,
       GetVolumeInformation, EnumerateSessions, SessionNext, FromSession,
       SessionInfo, SessionAddress, MasterPort, GetServices, MediaNext,
       MediaParent, ConformsTo, MediaProperties, MediaKeys, SetUtxEnt,
       GetUtxEnt, UserType, UserPush, DropStream, DropPanics, UnknownFamily,
       SetMode, RestoreMode
  <2> QED
    BY <1>1, <1>4, <2>2, ExactLoadInfo
<1> QED
  BY <1>2, <1>3, <1>4

----------------------------------------------------------------------------
(* The specification *)

Inv == SizedInv /\ StableShape /\ HandleInv /\ HandleTypes /\ ExactShape

LEMMA InitInv == AllInit => Inv
<1> SUFFICES ASSUME AllInit PROVE Inv
  OBVIOUS
<1>1. StableShape
  BY DEF AllInit, Init, StableShape, StableListIsExact
<1>2. HandleTypes
  <2> USE DEF AllInit, HandleInit
  <2>1. foreign \in BOOLEAN
    OBVIOUS
  <2>2. Cardinality(cur) <= 1 /\ failures \in 0 .. MaxFailures
    BY FailuresAssumption, FS_EmptySet
  <2> QED
    BY <2>1, <2>2 DEF HandleTypes
<1>3. ExactShape
  BY DEF AllInit, HandleInit, ExactShape
<1> QED
  BY <1>1, <1>2, <1>3, SizedInitInv, HandleInitInv DEF Inv

LEMMA FreshTypes ==
  ASSUME NEW l, NEW m, Fresh(l, m)
  PROVE  HandleTypes'
<1> USE DEF Fresh
<1>1. foreign' \in BOOLEAN
  OBVIOUS
<1>2. Cardinality(cur') <= 1 /\ failures' \in 0 .. MaxFailures
  BY FailuresAssumption, FS_EmptySet
<1> QED
  BY <1>1, <1>2 DEF HandleTypes

LEMMA BeginStep ==
  ASSUME Inv, NEW m \in Ops, Begin(m), Fresh("idle", "none")
  PROVE  Inv'
<1>1. SizedInv'
  BY BeginInv DEF Inv
<1>2. StableShape'
  BY DEF Begin, StableShape, StableListIsExact
<1>3. HandleInv'
  BY DEF Fresh, HandleInv, Places, HeldShape, LostShape, CountShape,
     CodeShape, HPCs, Ended, Windows
<1>4. ExactShape'
  BY DEF Fresh, ExactShape
<1> QED
  BY <1>1, <1>2, <1>3, <1>4, FreshTypes DEF Inv

LEMMA BeginHandlesStep ==
  ASSUME Inv, NEW m \in HandleOps, BeginHandles(m)
  PROVE  Inv'
<1> DEFINE l == IF m \in {"volumes", "volumes_physical", "information"}
                THEN "next" ELSE "open"
<1>1. Fresh(l, m) /\ l \in {"next", "open"}
  BY DEF BeginHandles
<1> USE DEF BeginHandles
<1>2. /\ UNCHANGED <<list, debug, pc>> /\ pc = "idle" /\ op' = "none"
      /\ result' = "none" /\ filled' = list /\ out' = {} /\ changes' = 0
  OBVIOUS
<1>3. ~overrun' /\ overrun' \in BOOLEAN
  OBVIOUS
<1>4. TypeOK'
  <2>1. changes' \in 0 .. MaxChanges
    BY SizedAssumption
  <2> QED
    BY <1>3, <2>1 DEF Inv, SizedInv, TypeOK, Results
<1>5. SizedInv' /\ StableShape'
  BY <1>2, <1>3, <1>4, SizedIdle DEF Inv
<1>6. Places'
  BY <1>1, <1>2 DEF Fresh, Places, HPCs, HandleOps, Streams, VolumeOps
<1>7. HeldShape' /\ LostShape' /\ CountShape' /\ CodeShape'
  BY <1>1 DEF Fresh, HeldShape, LostShape, CountShape, CodeShape
<1>8. HandleTypes'
  BY <1>1, FreshTypes
<1>9. ExactShape'
  <2>1. /\ hpc' \in {"next", "open"} /\ done' = {} /\ status' = "ok"
        /\ failures' = 0 /\ hop' = m /\ (m = "sessions" => hpc' = "open")
    BY <1>1 DEF Fresh
  <2>2. Missing' = {} /\ Debt' = 0
    BY <2>1 DEF Missing, Debt
  <2>3. Cardinality(Missing') + Debt' <= failures'
    BY <2>1, <2>2, FS_EmptySet
  <2>4. ExactStream'
    BY <1>2, <2>1, <2>3 DEF ExactStream, Working, Chosen
  <2>5. ExactInfo' /\ ExactInfoEnd'
    BY <1>2, <2>1 DEF ExactInfo, ExactInfoEnd
  <2> QED
    BY <1>2, <2>4, <2>5 DEF ExactShape
<1> QED
  BY <1>5, <1>6, <1>7, <1>8, <1>9 DEF Inv, HandleInv

(* While a list is copied to a buffer, no stream is under way. *)
LEMMA HandlesKept ==
  ASSUME Inv, pc # "idle", UNCHANGED handles
  PROVE  HandleInv' /\ HandleTypes' /\ ExactShape'
<1> USE DEF handles
<1>1. hop = "none"
  BY DEF Inv, HandleInv, Places
<1>2. Places' /\ HeldShape'
  BY <1>1 DEF Inv, HandleInv, Places, HeldShape, Ended
<1>3. LostShape' /\ CountShape' /\ CodeShape'
  BY <1>1 DEF Inv, HandleInv, LostShape, CountShape, CodeShape
<1>4. HandleTypes' /\ ExactShape'
  BY <1>1 DEF Inv, HandleTypes, ExactShape
<1> QED
  BY <1>2, <1>3, <1>4 DEF HandleInv

LEMMA SizedStep ==
  ASSUME Inv, Step, UNCHANGED handles
  PROVE  Inv'
<1>1. pc # "idle"
  BY DEF Step, AskSize, AskProcesses, FillProcesses, AskCpus, ReserveCpus,
     FillCpus, Load, FillMounts, FillDrives, FillOrFail, FillCpuInfo,
     FillPerfInfo, OtherError, WalkNext, WalkEnd, Spin
<1> QED
  BY <1>1, SizedStepInv, StableStep, HandlesKept DEF Inv

LEMMA HandleStepInv ==
  ASSUME Inv, HandleStep
  PROVE  Inv'
<1>1. SizedInv' /\ StableShape' /\ HandleTypes'
  BY HandleStepTypes DEF Inv
<1>2. HandleInv'
  BY VolumesInv, DrivesInv, ModeInv, SessionsInv, MediaInv, LoadInfoInv,
     UsersInv, DropInv DEF Inv, HandleStep, FromSession
<1>3. ExactShape'
  BY <1>1, ExactStep DEF Inv
<1> QED
  BY <1>1, <1>2, <1>3 DEF Inv

LEMMA StopEarlyStep ==
  ASSUME Inv, StopEarly, UNCHANGED mode, Others
  PROVE  Inv'
<1> USE DEF StopEarly, Do, Same, Others
<1>1. /\ hpc = "next" /\ hop \notin {"users", "load_info", "none"}
      /\ op = "none" /\ pc = "idle"
  BY DEF Inv, HandleInv, Places
<1>2. TypeOK' /\ result' = "none" /\ ~overrun' /\ tries' = "first"
  BY <1>1 DEF Inv, SizedInv, TypeOK, SizeShape
<1>3. SizedInv' /\ StableShape'
  BY <1>1, <1>2, SizedIdle DEF Inv
<1>4. Places' /\ HeldShape'
  BY <1>1 DEF Inv, HandleInv, Places, HPCs, Streams, HeldShape, Ended,
     VolumeOps, Device
<1>5. LostShape' /\ CountShape' /\ CodeShape'
  BY <1>1 DEF Inv, HandleInv, LostShape, CountShape, CodeShape
<1>6. HandleTypes'
  BY DEF Inv, HandleTypes
<1>7. ExactShape'
  <2>1. CASE changes # 0
    BY <2>1 DEF ExactShape
  <2>2. CASE changes = 0
    <3>1. Undisturbed
      BY <1>1, <1>6, <2>2 DEF Undisturbed, Inv
    <3> QED
      BY <1>1, <3>1, ExactBetween, UndisturbedFacts DEF ExactStream, Working,
         Ended
  <2> QED
    BY <2>1, <2>2
<1> QED
  BY <1>3, <1>4, <1>5, <1>6, <1>7 DEF Inv, HandleInv

(* The list changes under a call. *)
LEMMA ChangeStep ==
  ASSUME Inv, Change, UNCHANGED handles
  PROVE  Inv'
<1> USE DEF Change, call
<1>1. list' \in (SUBSET Entry) \ {{}} /\ changes \in Nat
      /\ changes' \in 0 .. MaxChanges /\ changes' # 0
  <2>1. list \in SUBSET Entry
    BY DEF Inv, SizedInv, TypeOK
  <2>2. list' \in SUBSET Entry
    <3>1. PICK e \in Entry :
            list' = IF e \in list THEN list \ {e} ELSE list \union {e}
      OBVIOUS
    <3> QED
      BY <2>1, <3>1
  <2>3. changes \in 0 .. MaxChanges /\ MaxChanges \in Nat
    BY SizedAssumption DEF Inv, SizedInv, TypeOK
  <2>4. changes < MaxChanges /\ changes' = changes + 1
    OBVIOUS
  <2>5. changes \in Nat /\ changes' \in 0 .. MaxChanges /\ changes' # 0
    BY <2>3, <2>4
  <2> QED
    BY <2>2, <2>5
<1>2. TypeOK'
  BY <1>1 DEF Inv, SizedInv, TypeOK
<1>3. SizeShape'
  BY DEF Inv, SizedInv, SizeShape
<1>4. WalkShape' /\ Wanted' = Wanted
  <2>1. Wanted' = Wanted /\ \A e : Kept(e)' = Kept(e)
    BY DEF Wanted, Kept
  <2>2. WalkShape
    BY DEF Inv, SizedInv
  <2> QED
    BY <2>1, <2>2 DEF WalkShape, Terminators
<1>5. SafeShape'
  <2>1. Answers' = Answers
    BY AnswersKept
  <2> QED
    BY <1>4, <2>1 DEF Inv, SizedInv, SafeShape
<1>6. StableShape'
  BY <1>1 DEF StableShape
<1>7. HandleInv' /\ HandleTypes' /\ ExactShape'
  BY HandlesKept
<1> QED
  BY <1>2, <1>3, <1>4, <1>5, <1>6, <1>7 DEF Inv, SizedInv

LEMMA ListChangesStep ==
  ASSUME Inv, ListChanges
  PROVE  Inv'
<1> USE DEF ListChanges, call, handles
<1>1. list' \in (SUBSET Entry) \ {{}} /\ changes \in Nat
      /\ changes' \in 0 .. MaxChanges /\ changes' # 0
  <2>1. list \in SUBSET Entry
    BY DEF Inv, SizedInv, TypeOK
  <2>2. list' \in SUBSET Entry
    <3>1. PICK e \in Entry :
            list' = IF e \in list THEN list \ {e} ELSE list \union {e}
      OBVIOUS
    <3> QED
      BY <2>1, <3>1
  <2>3. changes \in 0 .. MaxChanges /\ MaxChanges \in Nat
    BY SizedAssumption DEF Inv, SizedInv, TypeOK
  <2>4. changes < MaxChanges /\ changes' = changes + 1
    OBVIOUS
  <2>5. changes \in Nat /\ changes' \in 0 .. MaxChanges /\ changes' # 0
    BY <2>3, <2>4
  <2> QED
    BY <2>2, <2>5
<1>2. op = "none" /\ pc = "idle"
  BY DEF Inv, HandleInv, Places, Ended
<1>3. TypeOK' /\ result' = "none" /\ ~overrun' /\ tries' = "first"
  BY <1>1, <1>2 DEF Inv, SizedInv, TypeOK, SizeShape
<1>4. SizedInv' /\ StableShape'
  BY <1>2, <1>3, SizedIdle DEF Inv
<1>5. Places' /\ HeldShape'
  BY DEF Inv, HandleInv, Places, HeldShape, Ended
<1>6. LostShape' /\ CountShape' /\ CodeShape'
  BY DEF Inv, HandleInv, LostShape, CountShape, CodeShape
<1>7. HandleTypes'
  BY DEF Inv, HandleTypes
<1>8. ExactShape'
  BY <1>1 DEF ExactShape
<1> QED
  BY <1>4, <1>5, <1>6, <1>7, <1>8 DEF Inv, HandleInv

(* Another thread moves the cursor of utmp. *)
LEMMA OtherUsersStep ==
  ASSUME Inv, OtherUsers
  PROVE  Inv'
<1> USE DEF OtherUsers, call
<1>1. changes \in Nat /\ changes' \in 0 .. MaxChanges /\ changes' # 0
  BY SizedAssumption DEF Inv, SizedInv, TypeOK
<1>2. op = "none" /\ pc = "idle"
  BY DEF Inv, HandleInv, Places
<1>3. TypeOK' /\ result' = "none" /\ ~overrun' /\ tries' = "first"
  BY <1>1, <1>2 DEF Inv, SizedInv, TypeOK, SizeShape
<1>4. SizedInv' /\ StableShape'
  BY <1>2, <1>3, SizedIdle DEF Inv
<1>5. Places' /\ HeldShape'
  BY DEF Inv, HandleInv, Places, HeldShape, Ended
<1>6. LostShape' /\ CountShape' /\ CodeShape'
  BY DEF Inv, HandleInv, LostShape, CountShape, CodeShape
<1>7. HandleTypes'
  <2>1. /\ cur' = cur \/ \E e \in Entry : cur' = {e}
        /\ done' \subseteq Entry
    <3>1. list \subseteq Entry /\ done \subseteq Entry
      BY DEF Inv, SizedInv, TypeOK, HandleTypes
    <3>2. \/ done' = {} /\ cur' = cur
          \/ \E e \in list : cur' = {e} /\ done' = done \union {e}
      OBVIOUS
    <3> QED
      BY <3>1, <3>2
  <2>2. cur' \subseteq Entry /\ Cardinality(cur') <= 1
    <3>1. cur \subseteq Entry /\ Cardinality(cur) <= 1
      BY DEF Inv, HandleTypes
    <3>2. ASSUME NEW e \in Entry, cur' = {e}
          PROVE  cur' \subseteq Entry /\ Cardinality(cur') <= 1
      BY <3>2, FS_Singleton
    <3> QED
      BY <2>1, <3>1, <3>2
  <2> QED
    BY <2>1, <2>2 DEF Inv, HandleTypes
<1>8. ExactShape'
  BY <1>1 DEF ExactShape
<1> QED
  BY <1>4, <1>5, <1>6, <1>7, <1>8 DEF Inv, HandleInv

LEMMA StutterStep ==
  ASSUME Inv, UNCHANGED allvars
  PROVE  Inv'
<1> USE DEF allvars, vars, call, handles
<1>1. TypeOK' /\ SizeShape'
  BY DEF Inv, SizedInv, TypeOK, SizeShape
<1>2. WalkShape' /\ Wanted' = Wanted /\ Need' = Need
      /\ Terminators' = Terminators
  BY DEF Inv, SizedInv, WalkShape, Wanted, Kept, Need, Terminators
<1>3. SafeShape' /\ StableShape'
  <2>1. Answers' = Answers
    BY AnswersKept
  <2>2. SafeShape'
    BY <1>2, <2>1 DEF Inv, SizedInv, SafeShape
  <2>3. StableShape
    BY DEF Inv
  <2>4. StableShape'
    BY <1>2, <2>1, <2>3 DEF StableShape, StableListIsExact
  <2> QED
    BY <2>2, <2>4
<1>4. Places' /\ HeldShape'
  BY DEF Inv, HandleInv, Places, HeldShape, Ended
<1>5. LostShape' /\ CountShape' /\ CodeShape'
  BY DEF Inv, HandleInv, LostShape, CountShape, CodeShape
<1>6. HandleTypes'
  BY DEF Inv, HandleTypes
<1>7. Expected' = Expected /\ Opened' = Opened /\ Debt' = Debt
  BY DEF Expected, Opened, Debt
<1>8. Missing' = Missing
  BY <1>7 DEF Missing
<1>9. ExactStream' = ExactStream
  BY <1>7, <1>8 DEF ExactStream, Ended
<1>10. ExactShape'
  BY <1>9 DEF Inv, ExactShape, ExactInfo, ExactInfoEnd
<1> QED
  BY <1>1, <1>2, <1>3, <1>4, <1>5, <1>6, <1>10 DEF Inv, SizedInv, HandleInv

LEMMA NextInv ==
  ASSUME Inv, [AllNext]_allvars
  PROVE  Inv'
<1>1. ASSUME NEW m \in Ops, Begin(m), Fresh("idle", "none") PROVE Inv'
  BY <1>1, BeginStep
<1>2. ASSUME NEW m \in HandleOps, BeginHandles(m) PROVE Inv'
  BY <1>2, BeginHandlesStep
<1>3. CASE AllStep
  BY <1>3, SizedStep, HandleStepInv DEF AllStep
<1>4. CASE Change /\ UNCHANGED handles
  BY <1>4, ChangeStep
<1>5. CASE ListChanges \/ OtherUsers
  BY <1>5, ListChangesStep, OtherUsersStep
<1>6. CASE StopEarly /\ UNCHANGED mode /\ Others
  BY <1>6, StopEarlyStep
<1>7. CASE UNCHANGED allvars
  BY <1>7, StutterStep
<1> QED
  BY <1>1, <1>2, <1>3, <1>4, <1>5, <1>6, <1>7 DEF AllNext

(* The invariant holds in every reachable state. *)
THEOREM Invariance == AllSpec => []Inv
BY InitInv, NextInv, PTL DEF AllSpec

(* Every system call of the lists of macOS and Windows leaves buffers,     *)
(* handles and error codes of the right kind, for any list.                *)
THEOREM TypeCorrectness == AllSpec => []AllTypeOK
<1>1. Inv => AllTypeOK
  BY DEF Inv, SizedInv, HandleInv, Places, HeldShape, LostShape, CountShape,
     CodeShape, HandleTypes, AllTypeOK
<1> QED
  BY <1>1, Invariance, PTL

(* However often the list changes between the system calls, the system     *)
(* writes behind the buffers of `processes` and LogicalProcessors::get     *)
(* only, and only after a first attempt that was too small; mounts and     *)
(* drives are the only ones to panic, drives and query_system_information  *)
(* the only ones to read what was not written; whatever else is returned   *)
(* is an error or what was in the list when it was copied.                 *)
THEOREM ChangesDoThisMuch == AllSpec => []WhatChangesDo
<1>1. ASSUME Inv PROVE WhatChangesDo
  <2>1. /\ SafeShape /\ changes \in Nat
        /\ changes = 0 => /\ ~overrun /\ result # "Garbage"
                          /\ result = "Panic" => op = "mounts" /\ size = 0
    BY <1>1 DEF Inv, SizedInv, TypeOK, StableShape, StableListIsExact
  <2>2. changes # 0 => changes > 0
    BY <2>1
  <2> QED
    BY <2>1, <2>2 DEF SafeShape, WhatChangesDo
<1> QED
  BY <1>1, Invariance, PTL

(* Wherever a system call fails, whenever a stream is dropped and even if  *)
(* a Drop panics, every handle, port and piece of memory is given back if  *)
(* the system takes it, and so is the error mode of the thread; WtsInfo    *)
(* alone loses what it has copied, and an address of an unknown family is  *)
(* lost in a panic.                                                        *)
THEOREM NothingIsKept == AllSpec => []EverythingIsGivenBack
<1>1. ASSUME HandleInv PROVE EverythingIsGivenBack
  <2>1. Ended => held = {}
    BY <1>1 DEF HandleInv, HeldShape, Ended, Device
  <2>2. Ended /\ mode = "critical" => "mode" \in lost
    BY <1>1 DEF HandleInv, LostShape, Ended
  <2>3. lost \subseteq {"unclosable", "mode"} \union
                       (IF hop = "sessions" THEN {"info", "address"} ELSE {})
    BY <1>1 DEF HandleInv, LostShape
  <2>4. /\ foreign => hop = "sessions"
        /\ "address" \in lost => hpc = "panicked"
    BY <1>1 DEF HandleInv, LostShape
  <2>5. lost \intersect {"unclosable", "mode"} # {} => failures > 0
    BY <1>1 DEF HandleInv, CountShape
  <2> QED
    BY <2>1, <2>2, <2>3, <2>4, <2>5 DEF EverythingIsGivenBack
<1>2. Inv => EverythingIsGivenBack
  BY <1>1 DEF Inv
<1> QED
  BY <1>2, Invariance, PTL

(* An error carries the code of a system call of its own, although files   *)
(* are closed and modes restored between the failure and the reading of    *)
(* the code; the errors of the calls that return an NTSTATUS or a          *)
(* kern_return_t carry a stale code, all of them.                          *)
THEOREM OwnAndStaleErrors == AllSpec => []WhichErrorsAreOwn
<1>1. Inv => WhichErrorsAreOwn
  BY DEF Inv, HandleInv, CodeShape, SizedInv, SafeShape, WhichErrorsAreOwn
<1> QED
  BY <1>1, Invariance, PTL

(* A list that stays as it is, is yielded exactly, and each system call    *)
(* that fails costs one entry at most, for any list and any number of      *)
(* failures; the one panic is that of a first getfsstat64 that failed.     *)
THEOREM UndisturbedCallsAreExact == AllSpec => []UndisturbedCallIsExact
<1>1. ASSUME Inv PROVE UndisturbedCallIsExact
  <2>1. StableListIsExact
    BY <1>1 DEF Inv, StableShape, StableListIsExact
  <2>2. ASSUME hop # "none", hpc = "idle", changes = 0, hop = "load_info"
        PROVE  /\ out \subseteq Expected
               /\ failures = 0 => out = Expected
               /\ ~Opened
    BY <1>1, <2>2 DEF Inv, ExactShape, ExactInfo, ExactInfoEnd, Expected,
       Opened
  <2>3. ASSUME hop # "none", hpc = "idle", changes = 0, hop # "load_info"
        PROVE  /\ out \subseteq Expected
               /\ failures = 0 => out = Expected
               /\ Opened => Cardinality(Expected \ out) <= failures
    <3>1. /\ ExactStream /\ done \subseteq Entry /\ failures \in Nat
          /\ status = "ok"
      BY <1>1, <2>3, FailuresAssumption DEF Inv, ExactShape, HandleTypes,
         HandleInv, CodeShape
    <3>2. /\ out \subseteq Expected
          /\ Expected \subseteq done \/ (failures > 0 /\ ~Opened)
          /\ Cardinality(Missing) + Debt <= failures
      BY <2>3, <3>1 DEF ExactStream
    <3>3. Missing \subseteq Entry /\ Missing = (done \intersect Expected) \ out
      BY <2>3, <3>1 DEF Missing, Working
    <3>4. IsFiniteSet(Missing) /\ Cardinality(Missing) \in Nat
      BY <3>3, CardFacts
    <3>5. Cardinality(Missing) <= failures
      BY <3>1, <3>2, <3>4 DEF Debt
    <3>6. CASE Expected \subseteq done
      <4>1. Missing = Expected \ out
        BY <3>3, <3>6
      <4>2. failures = 0 => Missing = {}
        BY <3>1, <3>4, <3>5, FS_EmptySet
      <4> QED
        BY <3>2, <3>5, <4>1, <4>2
    <3>7. CASE failures > 0 /\ ~Opened
      BY <3>1, <3>2, <3>7
    <3> QED
      BY <3>2, <3>6, <3>7
  <2> QED
    BY <2>1, <2>2, <2>3 DEF UndisturbedCallIsExact
<1> QED
  BY <1>1, Invariance, PTL

----------------------------------------------------------------------------
(* How far a call is from its end.  TLC checks EveryCallReturns under weak *)
(* fairness; the measure behind it needs no fairness and is proved.        *)

Busy == ~Idle /\ pc # "spin"

(* A loop that asks for the size again is nearer to its end with a buffer  *)
(* that is large enough for the list as it is now.                         *)
Room == IF op = "load" THEN Need <= cap ELSE Need <= size

SizedRank == CASE pc = "spin"    -> 0
               [] pc = "walk"    -> 1
               [] pc = "fill"    -> (IF Room THEN 2 ELSE 5)
               [] pc = "reserve" -> (IF Room THEN 3 ELSE 6)
               [] pc = "ask"     -> (IF op = "cpus" THEN 7 ELSE 4)

HandleRank ==
  CASE hpc \in {"drop", "dropped", "copy"} -> 1
    [] hpc \in {"next", "cpus"} -> 2
    [] hpc \in {"close", "restore", "address", "user", "keys",
                "services"} -> 3
    [] hpc \in {"ioctl", "volume", "info", "type", "open"} -> 4
    [] hpc = "properties" -> (IF "properties" \in held THEN 4 ELSE 5)
    [] hpc \in {"filter", "mode"} -> 5
    [] hpc = "conforms" -> 6
    [] hpc = "parent" -> 7

(* The list has not been begun: setutxent rewinds the cursor that another  *)
(* thread has moved, and a search for volumes is tried again.              *)
Unbegun == \/ hpc = "open"
           \/ hop \in VolumeOps /\ "find" \notin held

Rank == IF pc # "idle" THEN SizedRank ELSE IF Ended THEN 0 ELSE HandleRank

(* Entries that the call has not come to. *)
Left == IF pc # "idle" THEN Cardinality(Entry \ out)
        ELSE IF Ended THEN 0
        ELSE IF Unbegun THEN Cardinality(Entry) + 1
        ELSE Cardinality(Entry \ done)

(* A step of a call, or of the system beside it. *)
GetsOn == /\ changes' >= changes /\ failures' >= failures
          /\ \/ changes' > changes
             \/ failures' > failures
             \/ Left' < Left
             \/ Left' = Left /\ Rank' < Rank

LEMMA FewerLeft ==
  ASSUME NEW D \in SUBSET Entry
  PROVE  /\ Cardinality(Entry \ D) \in Nat /\ Cardinality(Entry) \in Nat
         /\ Cardinality(Entry \ D) <= Cardinality(Entry)
         /\ \A e \in Entry \ D :
              Cardinality(Entry \ (D \union {e})) < Cardinality(Entry \ D)
<1>1. IsFiniteSet(Entry) /\ Cardinality(Entry) \in Nat
  BY CardFacts
<1>2. /\ IsFiniteSet(Entry \ D) /\ Cardinality(Entry \ D) \in Nat
      /\ Cardinality(Entry \ D) <= Cardinality(Entry)
  BY <1>1, CardFacts, FS_Subset
<1>3. ASSUME NEW e \in Entry \ D
      PROVE  Cardinality(Entry \ (D \union {e})) < Cardinality(Entry \ D)
  <2>1. Entry \ (D \union {e}) = (Entry \ D) \ {e}
    OBVIOUS
  <2>2. Cardinality((Entry \ D) \ {e}) = Cardinality(Entry \ D) - 1
    BY <1>2, <1>3, FS_RemoveElement
  <2> QED
    BY <1>2, <2>1, <2>2
<1> QED
  BY <1>1, <1>2, <1>3

LEMMA MeasureType == Inv => Left \in Nat /\ Rank \in 0 .. 7
<1> SUFFICES ASSUME Inv PROVE Left \in Nat /\ Rank \in 0 .. 7
  OBVIOUS
<1>1. done \subseteq Entry /\ out \subseteq Entry
  BY DEF Inv, SizedInv, TypeOK, HandleTypes
<1>2. Left \in Nat
  <2>1. Cardinality(Entry \ out) \in Nat
    BY <1>1, FewerLeft
  <2>2. Cardinality(Entry \ done) \in Nat /\ Cardinality(Entry) \in Nat
    BY <1>1, FewerLeft
  <2> QED
    BY <2>1, <2>2 DEF Left
<1>3. pc # "idle" => SizedRank \in 0 .. 7
  BY DEF Inv, SizedInv, TypeOK, SizedRank
<1>4. ~Ended => HandleRank \in 0 .. 7
  BY DEF Inv, HandleInv, Places, HPCs, Ended, HandleRank
<1> QED
  BY <1>2, <1>3, <1>4 DEF Rank

(* A step of the calls of SizedQuery. *)
LEMMA SizedNears ==
  ASSUME SizedInv, Step, pc # "spin"
  PROVE  /\ pc # "idle" /\ changes' = changes
         /\ \/ pc' = "idle"
            \/ pc' # "idle" /\ out' = out /\ SizedRank' < SizedRank
            \/ /\ pc' = pc /\ SizedRank' = SizedRank
               /\ \E e \in Entry \ out : out' = out \union {e}
<1> USE DEF Goto, Untouched, Fail, FailSystem, Return, Again
<1>1. TypeOK /\ Need \in Nat
  BY NeedType DEF SizedInv
<1>2. ASSUME op' = op, list' = list PROVE Need' = Need
  BY <1>2 DEF Need
<1>3. ASSUME pc \in {"ask", "reserve", "fill"}, NEW n, Filled(n)
      PROVE  pc' = "walk" /\ out' = out /\ SizedRank' < SizedRank
  BY <1>3 DEF Filled, SizedRank
<1>4. CASE AskSize
  BY <1>1, <1>2, <1>4 DEF AskSize, SizedRank, Room, SizedInv, SizeShape
<1>5. CASE AskProcesses
  BY <1>1, <1>2, <1>5 DEF AskProcesses, SizedRank, Room
<1>6. CASE FillProcesses
  <2>1. CASE Need <= size
    BY <1>1, <1>3, <1>6, <2>1 DEF TypeOK, FillProcesses, Filled
  <2>2. CASE ~(Need <= size)
    BY <1>1, <1>2, <1>6, <2>2 DEF FillProcesses, SizedRank, Room, TypeOK
  <2> QED
    BY <2>1, <2>2
<1>7. CASE AskCpus
  BY <1>1, <1>2, <1>7 DEF AskCpus, SizedRank, Room
<1>8. CASE ReserveCpus
  BY <1>1, <1>2, <1>8 DEF ReserveCpus, SizedRank, Room, SizedInv, SizeShape
<1>9. CASE FillCpus
  <2>1. CASE Need <= size
    BY <1>1, <1>3, <1>9, <2>1 DEF TypeOK, FillCpus, Filled
  <2>2. CASE ~(Need <= size)
    BY <1>1, <1>2, <1>9, <2>2 DEF FillCpus, SizedRank, Room, TypeOK
  <2> QED
    BY <2>1, <2>2
<1>10. CASE Load
  <2>1. CASE Need <= cap
    BY <1>1, <1>3, <1>10, <2>1 DEF TypeOK, Load, Filled
  <2>2. CASE ~(Need <= cap)
    BY <1>1, <1>2, <1>10, <2>2 DEF Load, Larger, SizedRank, Room, TypeOK
  <2> QED
    BY <2>1, <2>2
<1>11. CASE FillMounts
  BY <1>11 DEF FillMounts, SizedRank
<1>12. CASE FillDrives
  BY <1>3, <1>12 DEF FillDrives, Filled, SizedRank
<1>13. CASE FillOrFail
  BY <1>3, <1>13 DEF FillOrFail, Filled
<1>14. CASE FillCpuInfo
  BY <1>3, <1>14 DEF FillCpuInfo, Filled
<1>15. CASE OtherError
  BY <1>15 DEF OtherError
<1>16. CASE WalkNext
  BY <1>1, <1>16 DEF WalkNext, Yield, TypeOK, SizedRank
<1>17. CASE WalkEnd
  BY <1>17 DEF WalkEnd
<1>18. CASE FillPerfInfo
  BY <1>18 DEF FillPerfInfo, SizedRank
<1>19. CASE Spin
  BY <1>19 DEF Spin, SizedRank
<1> QED
  BY <1>4, <1>5, <1>6, <1>7, <1>8, <1>9, <1>10, <1>11, <1>12, <1>13, <1>14,
     <1>15, <1>16, <1>17, <1>18, <1>19 DEF Step

(* What a step of the other calls does: a system call fails, the list is   *)
(* moved on, or the call comes nearer to the next entry or to its end.     *)
Moves == /\ ~Ended' /\ ~Unbegun'
         /\ \E e \in Entry : /\ done' = done \union {e}
                             /\ Unbegun \/ e \notin done

Nears == \/ Ended'
         \/ /\ ~Ended' /\ HandleRank' < HandleRank
            /\ Unbegun \/ (~Unbegun' /\ done' = done)

LEMMA HandleNears ==
  ASSUME SizedInv, HandleInv, HandleTypes, HandleStep
  PROVE  failures' > failures \/ Moves \/ Nears
<1> USE DEF Do, Same, MoveTo, Pass, Give, FailWith, Report, OneMoreFailure
<1>1. /\ filled \subseteq Entry /\ list \subseteq Entry /\ data \subseteq Entry
      /\ done \subseteq Entry /\ failures \in Nat
  BY FailuresAssumption DEF SizedInv, TypeOK, HandleTypes
<1>2. Others /\ Places /\ HeldShape
  BY Underway DEF HandleInv
<1>3. hop' = hop
  BY <1>2 DEF Others
<1>4. CASE FindFirstVolume
  BY <1>1, <1>2, <1>3, <1>4
     DEF FindFirstVolume, Moves, Nears, Ended, Unbegun, HandleRank, VolumeOps
<1>5. CASE FindNextVolume
  BY <1>1, <1>2, <1>3, <1>5
     DEF FindNextVolume, Moves, Nears, Ended, Unbegun, HandleRank, VolumeOps
<1>6. CASE VolumeFilter
  BY <1>1, <1>2, <1>3, <1>6
     DEF VolumeFilter, Nears, Ended, Unbegun, HandleRank,
         VolumeOps, Places, HeldShape, Device
<1>7. CASE DeviceIoControl
  BY <1>1, <1>2, <1>3, <1>7
     DEF DeviceIoControl, Nears, Ended, Unbegun, HandleRank,
         VolumeOps, Places, HeldShape, Device
<1>8. CASE CloseFile
  BY <1>1, <1>2, <1>3, <1>8
     DEF CloseFile, Nears, Ended, Unbegun, HandleRank,
         VolumeOps, Places, HeldShape, Device
<1>9. CASE DriveNext
  BY <1>1, <1>2, <1>3, <1>9
     DEF DriveNext, Moves, Nears, Ended, Unbegun, HandleRank, VolumeOps
<1>10. CASE SetMode
  BY <1>1, <1>2, <1>3, <1>10
     DEF SetMode, Nears, Ended, Unbegun, HandleRank,
         VolumeOps, Places, HeldShape, Device
<1>11. CASE GetVolumeInformation
  BY <1>1, <1>2, <1>3, <1>11
     DEF GetVolumeInformation, Nears, Ended, Unbegun, HandleRank,
         VolumeOps, Places, HeldShape, Device
<1>12. CASE RestoreMode
  BY <1>1, <1>2, <1>3, <1>12
     DEF RestoreMode, Nears, Ended, Unbegun, HandleRank,
         VolumeOps, Places, HeldShape, Device
<1>13. CASE EnumerateSessions
  BY <1>1, <1>2, <1>3, <1>13
     DEF EnumerateSessions, Nears, Ended, Unbegun, HandleRank,
         VolumeOps, Places, HeldShape, Device
<1>14. CASE SessionNext
  BY <1>1, <1>2, <1>3, <1>14
     DEF SessionNext, Moves, Nears, Ended, Unbegun, HandleRank, VolumeOps
<1>15. CASE FromSession
  BY <1>1, <1>2, <1>3, <1>15
     DEF FromSession, SessionInfo, SessionAddress, UnknownFamily, DropInfo,
         Nears, Ended, Unbegun, HandleRank,
         VolumeOps, Places, HeldShape, Device
<1>16. CASE MasterPort
  BY <1>1, <1>2, <1>3, <1>16
     DEF MasterPort, Nears, Ended, Unbegun, HandleRank,
         VolumeOps, Places, HeldShape, Device
<1>17. CASE GetServices
  BY <1>1, <1>2, <1>3, <1>17
     DEF GetServices, Nears, Ended, Unbegun, HandleRank,
         VolumeOps, Places, HeldShape, Device
<1>18. CASE MediaNext
  BY <1>1, <1>2, <1>3, <1>18
     DEF MediaNext, Moves, Nears, Ended, Unbegun, HandleRank, VolumeOps
<1>19. CASE MediaParent
  BY <1>1, <1>2, <1>3, <1>19
     DEF MediaParent, Nears, Ended, Unbegun, HandleRank,
         VolumeOps, Places, HeldShape, Device
<1>20. CASE ConformsTo
  BY <1>1, <1>2, <1>3, <1>20
     DEF ConformsTo, Nears, Ended, Unbegun, HandleRank,
         VolumeOps, Places, HeldShape, Device
<1>21. CASE MediaProperties
  BY <1>1, <1>2, <1>3, <1>21
     DEF MediaProperties, Nears, Ended, Unbegun, HandleRank,
         VolumeOps, Places, HeldShape, Device
<1>22. CASE MediaKeys
  BY <1>1, <1>2, <1>3, <1>22
     DEF MediaKeys, Nears, Ended, Unbegun, HandleRank,
         VolumeOps, Places, HeldShape, Device
<1>23. CASE LoadInfo
  BY <1>1, <1>2, <1>3, <1>23
     DEF LoadInfo, Nears, Ended, Unbegun, HandleRank,
         VolumeOps, Places, HeldShape, Device
<1>24. CASE VmDeallocate
  BY <1>1, <1>2, <1>3, <1>24
     DEF VmDeallocate, Nears, Ended, Unbegun, HandleRank,
         VolumeOps, Places, HeldShape, Device
<1>25. CASE SetUtxEnt
  BY <1>1, <1>2, <1>3, <1>25
     DEF SetUtxEnt, Nears, Ended, Unbegun, HandleRank,
         VolumeOps, Places, HeldShape, Device
<1>26. CASE GetUtxEnt
  BY <1>1, <1>2, <1>3, <1>26
     DEF GetUtxEnt, Moves, Nears, Ended, Unbegun, HandleRank, VolumeOps
<1>27. CASE UserType
  BY <1>1, <1>2, <1>3, <1>27
     DEF UserType, Nears, Ended, Unbegun, HandleRank,
         VolumeOps, Places, HeldShape, Device
<1>28. CASE UserPush
  BY <1>1, <1>2, <1>3, <1>28
     DEF UserPush, Nears, Ended, Unbegun, HandleRank,
         VolumeOps, Places, HeldShape, Device
<1>29. CASE DropStream
  BY <1>1, <1>2, <1>3, <1>29
     DEF DropStream, Nears, Ended, Unbegun, HandleRank,
         VolumeOps, Places, HeldShape, Device
<1>30. CASE DropPanics
  BY <1>30 DEF DropPanics, Nears, Ended
<1> QED
  BY <1>4, <1>5, <1>6, <1>7, <1>8, <1>9, <1>10, <1>11, <1>12, <1>13, <1>14,
     <1>15, <1>16, <1>17, <1>18, <1>19, <1>20, <1>21, <1>22, <1>23, <1>24,
     <1>25, <1>26, <1>27, <1>28, <1>29, <1>30
     DEF HandleStep

LEMMA HandleMeasure ==
  ASSUME HandleInv, HandleTypes, pc = "idle", ~Ended, pc' = "idle",
         done' \subseteq Entry, Moves \/ Nears, HandleInv'
  PROVE  Left' < Left \/ (Left' = Left /\ Rank' < Rank)
<1> DEFINE whole == Cardinality(Entry)
           here == Cardinality(Entry \ done)
           there == Cardinality(Entry \ done')
<1>1. /\ here \in Nat /\ there \in Nat /\ whole \in Nat
      /\ here <= whole /\ there <= whole
  BY FewerLeft DEF HandleTypes
<1>2. HandleRank \in 1 .. 7 /\ Rank = HandleRank
  BY DEF HandleInv, Places, HPCs, Ended, HandleRank, Rank
<1>3. Left = IF Unbegun THEN whole + 1 ELSE here
  BY DEF Left
<1>4. CASE Moves
  <2>1. Left' = there
    BY <1>4 DEF Moves, Left
  <2>2. PICK e \in Entry : /\ done' = done \union {e}
                           /\ Unbegun \/ e \notin done
    BY <1>4 DEF Moves
  <2>3. Unbegun \/ there < here
    BY <2>2, FewerLeft DEF HandleTypes
  <2> QED
    BY <1>1, <1>3, <2>1, <2>3
<1>5. CASE Nears
  <2>1. CASE Ended'
    <3>1. Left' = 0 /\ Rank' = 0
      BY <2>1 DEF Left, Rank
    <3> QED
      BY <1>1, <1>2, <1>3, <3>1
  <2>2. CASE ~Ended'
    <3>1. HandleRank' < HandleRank /\ Rank' = HandleRank'
      BY <1>5, <2>2 DEF Nears, Rank
    <3>2. Left' = IF Unbegun' THEN whole + 1 ELSE there
      BY <2>2 DEF Left
    <3>3. Unbegun \/ (~Unbegun' /\ there = here)
      BY <1>5, <2>2 DEF Nears
    <3> HIDE DEF whole, here, there
    <3>4. Left' < Left \/ Left' = Left
      BY <1>1, <1>3, <3>2, <3>3
    <3> QED
      BY <1>2, <3>1, <3>4
  <2> QED
    BY <2>1, <2>2
<1> QED
  BY <1>4, <1>5

LEMMA SizedMeasure ==
  ASSUME Inv, Step, pc # "spin", UNCHANGED handles, Inv'
  PROVE  Left' < Left \/ (Left' = Left /\ Rank' < Rank)
<1>1. /\ pc # "idle"
      /\ \/ pc' = "idle"
         \/ pc' # "idle" /\ out' = out /\ SizedRank' < SizedRank
         \/ /\ pc' = pc /\ SizedRank' = SizedRank
            /\ \E e \in Entry \ out : out' = out \union {e}
  BY SizedNears DEF Inv
<1>2. /\ out \subseteq Entry /\ SizedRank \in 1 .. 7
      /\ Left = Cardinality(Entry \ out) /\ Rank = SizedRank
  BY <1>1 DEF Inv, SizedInv, TypeOK, SizedRank, Left, Rank
<1>3. Cardinality(Entry \ out) \in Nat
  BY <1>2, FewerLeft
<1>4. CASE pc' = "idle"
  <2>1. Ended'
    BY <1>1 DEF Inv, HandleInv, Places, Ended, handles
  <2>2. Left' = 0 /\ Rank' = 0
    BY <1>4, <2>1 DEF Left, Rank
  <2> QED
    BY <1>2, <1>3, <2>2
<1>5. CASE pc' # "idle" /\ out' = out /\ SizedRank' < SizedRank
  <2>1. Left' = Cardinality(Entry \ out) /\ Rank' = SizedRank'
    BY <1>5 DEF Left, Rank
  <2> QED
    BY <1>2, <1>3, <1>5, <2>1
<1>6. CASE /\ pc' = pc
           /\ \E e \in Entry \ out : out' = out \union {e}
  <2>1. Left' = Cardinality(Entry \ out')
    BY <1>1, <1>6 DEF Left
  <2>2. Cardinality(Entry \ out') < Cardinality(Entry \ out)
    BY <1>2, <1>6, FewerLeft
  <2> QED
    BY <1>2, <2>1, <2>2
<1> QED
  BY <1>1, <1>4, <1>5, <1>6

LEMMA NextGetsOn ==
  ASSUME Inv, Inv', AllNext, Busy
  PROVE  GetsOn
<1> USE DEF GetsOn
<1>1. changes \in Nat /\ failures \in Nat
  BY SizedAssumption, FailuresAssumption DEF Inv, SizedInv, TypeOK, HandleTypes
<1>2. ASSUME NEW m \in Ops, Ended, Begin(m) PROVE FALSE
  BY <1>2 DEF Begin, Busy, Idle
<1>3. ASSUME NEW m \in HandleOps, BeginHandles(m) PROVE FALSE
  BY <1>3 DEF BeginHandles, Busy, Idle
<1>4. CASE Step /\ UNCHANGED handles
  <2>1. changes' = changes /\ failures' = failures
    BY <1>4, SizedNears DEF Inv, Busy, handles
  <2> QED
    BY <1>1, <1>4, <2>1, SizedMeasure DEF Busy
<1>5. CASE HandleStep
  <2>1. /\ SizedInv /\ TypeOK /\ HandleInv /\ HandleTypes
        /\ HandleInv' /\ HandleTypes'
    BY DEF Inv, SizedInv
  <2>2. pc = "idle" /\ Others
    BY <1>5, <2>1, Underway
  <2>3. changes' = changes /\ (failures' = failures \/ failures' > failures)
    BY <1>1, <1>5, <2>1, <2>2, HandleStepSets DEF Others, OneMoreFailure
  <2>4. failures' > failures \/ Moves \/ Nears
    BY <1>5, <2>1, HandleNears
  <2>5. pc' = "idle" /\ ~Ended /\ done' \subseteq Entry
    BY <2>1, <2>2 DEF Others, Busy, Idle, HandleTypes
  <2>6. ASSUME Moves \/ Nears
        PROVE  Left' < Left \/ (Left' = Left /\ Rank' < Rank)
    BY <2>1, <2>2, <2>5, <2>6, HandleMeasure
  <2>7. failures' \in Nat
    BY <2>1, FailuresAssumption DEF HandleTypes
  <2> QED
    BY <1>1, <2>3, <2>4, <2>6, <2>7
<1>6. CASE Change /\ UNCHANGED handles
  BY <1>1, <1>6 DEF Change, handles
<1>7. CASE ListChanges
  BY <1>1, <1>7 DEF ListChanges, handles
<1>8. CASE OtherUsers
  BY <1>1, <1>8 DEF OtherUsers
<1>9. CASE StopEarly /\ UNCHANGED mode /\ Others
  <2>1. /\ hpc = "next" /\ hpc' = "dropped" /\ done' = done /\ held' = held
        /\ hop' = hop /\ pc' = pc /\ changes' = changes
        /\ failures' = failures
    BY <1>9 DEF StopEarly, Do, Same, Others
  <2>2. /\ HandleInv /\ HandleTypes /\ HandleInv' /\ done' \subseteq Entry
        /\ pc = "idle"
    BY <2>1 DEF Inv, HandleInv, Places, HandleTypes
  <2>3. ~Ended /\ ~Ended'
    BY <2>1 DEF Ended
  <2>4. HandleRank = 2 /\ HandleRank' = 1
    BY <2>1 DEF HandleRank
  <2>5. Unbegun' => Unbegun
    BY <2>1 DEF Unbegun
  <2>6. Nears
    BY <2>1, <2>3, <2>4, <2>5 DEF Nears
  <2> QED
    BY <1>1, <2>1, <2>2, <2>3, <2>6, HandleMeasure
<1> QED
  BY <1>2, <1>3, <1>4, <1>5, <1>6, <1>7, <1>8, <1>9 DEF AllNext, AllStep

(* A search that has come to the last entry stays there. *)
LEMMA EndlessStays ==
  ASSUME Inv, [AllNext]_allvars, Endless
  PROVE  Endless'
<1>1. pc = "spin" /\ op = "load" /\ hop = "none" /\ hpc = "idle"
  BY DEF Endless, Inv, HandleInv, Places
<1>2. CASE Step
  <2>1. Spin
    BY <1>1, <1>2 DEF Step, AskSize, AskProcesses, FillProcesses, AskCpus,
       ReserveCpus, FillCpus, Load, FillMounts, FillDrives, FillOrFail,
       FillCpuInfo, FillPerfInfo, OtherError, WalkNext, WalkEnd
  <2> QED
    BY <2>1 DEF Spin, Goto, Endless
<1>3. ~HandleStep
  BY <1>1, Underway DEF Inv
<1>4. CASE Change \/ UNCHANGED allvars
  BY <1>4 DEF Change, call, Endless, allvars, vars
<1>5. /\ \A m \in Ops : ~Begin(m)
      /\ \A m \in HandleOps : ~BeginHandles(m)
      /\ ~ListChanges /\ ~OtherUsers /\ ~StopEarly
  BY <1>1 DEF Begin, BeginHandles, ListChanges, OtherUsers, StopEarly, Ended
<1> QED
  BY <1>2, <1>3, <1>4, <1>5 DEF AllNext, AllStep

(* No loop of a call that is under way goes round for nothing: each of its *)
(* steps, unless the list has changed or a system call has failed, leaves  *)
(* fewer entries to come to or brings it nearer to the next one.  Since    *)
(* the measure is a pair of natural numbers in lexicographic order, a call *)
(* ends once the system leaves it alone, whatever the sizes the retries of *)
(* NtProcesses::load, processes and GetLogicalProcessorInformationEx begin *)
(* with, and although Volumes::next tries to begin again after an error.   *)
(* The exception is a search that has come to the end of NtProcesses: it   *)
(* is for a process that is not in the list, and it never ends.            *)
THEOREM CallsGetOn ==
  AllSpec => /\ [](Left \in Nat /\ Rank \in 0 .. 7)
             /\ [][Busy => GetsOn]_allvars
             /\ [](Busy \/ Idle \/ Endless)
             /\ [][Endless => Endless']_allvars
<1>1. Inv => Left \in Nat /\ Rank \in 0 .. 7
  BY MeasureType
<1>2. ASSUME Inv, Inv', [AllNext]_allvars PROVE [Busy => GetsOn]_allvars
  BY <1>2, NextGetsOn
<1>3. Inv => Busy \/ Idle \/ Endless
  BY DEF Inv, SizedInv, WalkShape, Busy, Endless
<1>4. ASSUME Inv, [AllNext]_allvars PROVE [Endless => Endless']_allvars
  BY <1>4, EndlessStays
<1> QED
  BY <1>1, <1>2, <1>3, <1>4, Invariance, PTL DEF AllSpec

============================================================================
