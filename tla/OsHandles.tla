----------------------------- MODULE OsHandles -----------------------------
(***************************************************************************)
(* The calls of macOS and Windows that hand out something the caller has   *)
(* to give back (SizedQuery has the ones that fill a buffer of the caller) *)
(*                                                                         *)
(*   volumes      heim-disk, Windows: io_counters, io_counters_physical;   *)
(*                FindFirstVolumeW, and a file for each volume             *)
(*   information  heim-disk, Windows: partitions; the error mode of the    *)
(*                thread is changed and restored for each drive            *)
(*   sessions     heim-host, Windows: users; memory of WTS                 *)
(*   media        heim-disk, macOS: io_counters; ports and IOKit objects   *)
(*   load_info    heim-cpu, macOS: times; a port and memory of the kernel  *)
(*   users        heim-host, Unix: the cursor and the one buffer of utmp   *)
(*                                                                         *)
(* `list` is the list of volumes, drives, sessions, media or users, `data` *)
(* a copy the system has made of it and `out` what was yielded, as in      *)
(* SizedQuery.  Skipped entries are those without a user, a fixed drive or *)
(* a driver; Bare ones are removable drives and media without statistics.  *)
(***************************************************************************)
EXTENDS SizedQuery

CONSTANTS MaxFailures   \* bound: system calls that fail during one call

ASSUME FailuresAssumption == MaxFailures \in Nat

VARIABLES hpc, hop,     \* where the call is, and which one it is
          cur,          \* the entry it is at, or the set of none
          done,         \* entries that the system's cursor has passed
          held,         \* what has to be given back
          mode,         \* the error mode of the thread
          err,          \* the system call that set the error code last
          status,       \* how the call in the middle of three ended
          reported,     \* history: the error codes that were yielded
          lost,         \* history: what was not given back
          foreign,      \* history: something else was freed
          failures      \* history: system calls that failed

handles == <<hpc, hop, cur, done, held, mode, err, status, reported, lost,
             foreign, failures>>
allvars == <<vars, handles>>

Ended == hpc \in {"idle", "stopped", "panicked"}

HandleOps == {"volumes", "volumes_physical", "information", "sessions",
              "media", "load_info", "users"}
Windows == {"volumes", "volumes_physical", "information", "sessions"}

Fresh(l, m) ==
  /\ hpc' = l /\ hop' = m /\ cur' = {} /\ done' = {} /\ held' = {}
  /\ mode' = "old" /\ err' = "stale" /\ status' = "ok"
  /\ reported' = {} /\ lost' = {} /\ foreign' = FALSE /\ failures' = 0

HandleInit == /\ hpc = "idle" /\ hop = "none" /\ cur = {} /\ done = {}
              /\ held = {} /\ mode = "old" /\ err = "stale" /\ status = "ok"
              /\ reported = {} /\ lost = {} /\ foreign = FALSE
              /\ failures = 0

BeginHandles(m) ==
  /\ pc = "idle" /\ Ended
  /\ Fresh(IF m \in {"volumes", "volumes_physical", "information"}
           THEN "next" ELSE "open", m)
  /\ cap' = 0 /\ size' = 0 /\ data' = {} /\ len' = 0 /\ out' = {}
  /\ target' = {} /\ tries' = "first" /\ op' = "none" /\ result' = "none"
  /\ filled' = list /\ overrun' = FALSE
  /\ changes' = 0
  /\ UNCHANGED <<list, debug, pc>>

----------------------------------------------------------------------------
(* Steps: the label that follows, what is acquired and what is released.   *)
Others == UNCHANGED <<list, debug, pc, op, cap, size, len, target, tries,
                      result, filled, overrun, changes, hop>>

Do(l, get, give) ==
  /\ hpc' = l
  /\ held' = (held \union get) \ give
  /\ UNCHANGED <<reported, lost, foreign>>

Same == UNCHANGED <<cur, done, data, out, err, status, failures>>

(* A system call fails: on Windows the error code of the thread is set,    *)
(* while a kern_return_t of macOS leaves errno as it was.  The code is     *)
(* read at once, and everything in `give` is dropped.                      *)
SetsCode(c) == IF hop \in Windows THEN c ELSE err

Report(c, l, give) ==
  /\ err' = SetsCode(c)
  /\ reported' = reported \union {SetsCode(c)}
  /\ hpc' = l /\ held' = held \ give
  /\ UNCHANGED <<cur, done, data, out, status, lost, foreign>>

OneMoreFailure == failures < MaxFailures /\ failures' = failures + 1

FailWith(c, l, give) == OneMoreFailure /\ Report(c, l, give)

(* An entry is left out, or yielded. *)
Pass(give) == Do("next", {}, give) /\ Same

Give(give) == /\ Do("next", {}, give) /\ out' = out \union cur
              /\ UNCHANGED <<cur, done, data, err, status, failures>>

(* The iterator moves on; the system's cursor is behind the entry then. *)
MoveTo(e, l, get) == /\ cur' = {e} /\ done' = done \union {e}
                     /\ Do(l, get, {})
                     /\ UNCHANGED <<data, out, err, status, failures>>

----------------------------------------------------------------------------
(* Volumes::next.  A search that does not begin is tried again by the next *)
(* poll.                                                                   *)
FindFirstVolume ==
  /\ hop \in {"volumes", "volumes_physical"}
  /\ hpc = "next" /\ "find" \notin held
  /\ \/ \E e \in list : MoveTo(e, "filter", {"find"})
     \/ FailWith("FindFirstVolumeW", "next", {})

FindNextVolume ==
  /\ hop \in {"volumes", "volumes_physical"}
  /\ hpc = "next" /\ "find" \in held
  /\ \/ \E e \in list \ done : MoveTo(e, "filter", {})
     \/ list \subseteq done /\ Do("drop", {}, {}) /\ Same
     \/ FailWith("FindNextVolumeW", "next", {})

(* inner_stream with its filter, and CreateFileW of disk_performance. *)
VolumeFilter ==
  /\ hpc = "filter"
  /\ \/ /\ hop = "volumes" \/ cur \intersect Skipped = {}
        /\ \/ Do("ioctl", {"file"}, {}) /\ Same
           \/ FailWith("CreateFileW", "next", {})
     \/ /\ hop = "volumes_physical" /\ cur \subseteq Skipped
        /\ Pass({})

(* Mutant: an error of DeviceIoControl is returned at once. *)
DeviceIoControlReturns ==
  /\ hpc = "ioctl"
  /\ \/ Do("close", {}, {}) /\ Same
     \/ FailWith("DeviceIoControl", "next", {})

DeviceIoControl ==
  /\ hpc = "ioctl"
  /\ \/ Do("close", {}, {}) /\ Same
     \/ /\ OneMoreFailure
        /\ Do("close", {}, {})
        /\ err' = "DeviceIoControl" /\ status' \in {"ignored", "failed"}
        /\ UNCHANGED <<cur, done, data, out>>

(* The file is closed before the error of DeviceIoControl is looked at; a  *)
(* call that succeeds leaves the code alone.                               *)
CloseFile ==
  /\ hpc = "close"
  /\ status' = "ok"
  /\ \/ /\ status = "ok" /\ Do("next", {}, {"file"})
        /\ out' = out \union cur
        /\ UNCHANGED <<cur, done, data, err, failures>>
     \/ /\ status = "ignored" /\ Do("next", {}, {"file"})
        /\ UNCHANGED <<cur, done, data, out, err, failures>>
     \/ /\ status = "failed"
        /\ hpc' = "next" /\ held' = held \ {"file"}
        /\ reported' = reported \union {err}
        /\ UNCHANGED <<cur, done, data, out, err, failures, lost, foreign>>
     \/ /\ OneMoreFailure
        /\ err' = "CloseHandle" /\ reported' = reported \union {"CloseHandle"}
        /\ hpc' = "next" /\ held' = held \ {"file"}
        /\ lost' = lost \union {"unclosable"}
        /\ UNCHANGED <<cur, done, data, out, foreign>>

----------------------------------------------------------------------------
(* Drive::information, for each of the drives that were listed before.     *)
DriveNext == /\ hop = "information" /\ hpc = "next"
             /\ \/ \E e \in filled \ done : MoveTo(e, "mode", {})
                \/ filled \subseteq done /\ Do("drop", {}, {}) /\ Same

SetMode == /\ hpc = "mode"
           /\ \/ Do("volume", {}, {}) /\ Same /\ mode' = "critical"
              \/ FailWith("SetThreadErrorMode", "next", {}) /\ UNCHANGED mode

GetVolumeInformation ==
  /\ hpc = "volume"
  /\ \/ Do("restore", {}, {}) /\ Same
     \/ /\ OneMoreFailure
        /\ Do("restore", {}, {})
        /\ err' = "GetVolumeInformationW" /\ status' = "failed"
        /\ UNCHANGED <<cur, done, data, out>>

(* Errors of drives that can be removed are ignored. *)
RestoreMode ==
  /\ hpc = "restore"
  /\ status' = "ok"
  /\ \/ /\ mode' = "old"
        /\ \/ /\ status = "ok" /\ Do("next", {}, {})
              /\ out' = out \union cur
              /\ UNCHANGED <<cur, done, data, err, failures>>
           \/ /\ status = "failed" /\ cur \subseteq Bare /\ Do("next", {}, {})
              /\ UNCHANGED <<cur, done, data, out, err, failures>>
           \/ /\ status = "failed" /\ ~(cur \subseteq Bare)
              /\ hpc' = "next" /\ reported' = reported \union {err}
              /\ UNCHANGED <<cur, done, data, out, err, failures, held, lost,
                             foreign>>
     \/ /\ OneMoreFailure
        /\ err' = "SetThreadErrorMode"
        /\ reported' = reported \union {"SetThreadErrorMode"}
        /\ hpc' = "next" /\ lost' = lost \union {"mode"}
        /\ UNCHANGED <<cur, done, data, out, held, foreign, mode>>

----------------------------------------------------------------------------
(* Sessions::new copies the list. *)
EnumerateSessions ==
  /\ hop = "sessions" /\ hpc = "open"
  /\ \/ /\ Do("next", {"array"}, {}) /\ data' = list
        /\ UNCHANGED <<cur, done, out, err, status, failures>>
     \/ FailWith("WTSEnumerateSessionsW", "idle", {})

SessionNext == /\ hop = "sessions" /\ hpc = "next"
               /\ \/ \E e \in data \ done : MoveTo(e, "info", {})
                  \/ data \subseteq done /\ Do("drop", {}, {}) /\ Same

(* WtsInfo is a copy of what the system has allocated.  Its Drop frees the *)
(* address of the copy, and the original is not freed at all.              *)
DropInfo == /\ held' = held \ {"info"}
            /\ lost' = lost \union {"info"} /\ foreign' = TRUE

(* A session that is closed by now has no information; one without a user  *)
(* is left out.                                                            *)
SessionInfo ==
  /\ hpc = "info"
  /\ \/ /\ cur \subseteq list /\ cur \intersect Skipped = {}
        /\ Do("address", {"info"}, {}) /\ Same
     \/ /\ cur \subseteq list /\ cur \subseteq Skipped
        /\ DropInfo /\ hpc' = "next"
        /\ UNCHANGED reported /\ Same
     \/ /\ cur \intersect list = {}
        /\ Report("WTSQuerySessionInformationW", "next", {})
        /\ UNCHANGED failures
     \/ FailWith("WTSQuerySessionInformationW", "next", {})

(* Mutant: the result of the call is taken for its opposite. *)
SessionAddressInverted ==
  /\ hpc = "address"
  /\ DropInfo /\ hpc' = "next" /\ reported' = reported \union {err}
  /\ Same

(* The address is copied and freed at once.  A family that is not known is *)
(* unreachable!, and a panic with the address in its hands.                *)
SessionAddress ==
  /\ hpc = "address"
  /\ DropInfo
  /\ \/ /\ hpc' = "next" /\ out' = out \union cur
        /\ UNCHANGED <<cur, done, data, err, status, failures, reported>>
     \/ /\ OneMoreFailure
        /\ err' = "WTSQuerySessionInformationW"
        /\ reported' = reported \union {err'}
        /\ hpc' = "next"
        /\ UNCHANGED <<cur, done, data, out, status>>

UnknownFamily ==
  /\ hpc = "address"
  /\ OneMoreFailure
  /\ hpc' = "panicked" /\ held' = {}
  /\ lost' = lost \union {"info", "address"} /\ foreign' = TRUE
  /\ UNCHANGED <<cur, done, data, out, err, status, reported>>

(* User::from_session: the information, and for a user the address. *)
FromSession == SessionInfo \/ SessionAddress \/ UnknownFamily

----------------------------------------------------------------------------
(* io_counters of macOS.  The master port is dropped once there is an      *)
(* iterator, or none.                                                      *)
MasterPort == /\ hop = "media" /\ hpc = "open"
              /\ \/ Do("services", {"port"}, {}) /\ Same
                 \/ FailWith("IOMasterPort", "idle", {})

GetServices == /\ hpc = "services"
               /\ \/ Do("next", {"iterator"}, {"port"}) /\ Same
                  \/ FailWith("IOServiceGetMatchingServices", "idle", {"port"})

MediaNext == /\ hop = "media" /\ hpc = "next"
             /\ \/ \E e \in list \ done : MoveTo(e, "parent", {"device"})
                \/ list \subseteq done /\ Do("drop", {}, {}) /\ Same

Device == {"device", "parent", "properties", "parent_properties"}

(* filter_map_block_devices: what it has is dropped wherever it returns. *)
MediaParent ==
  /\ hpc = "parent"
  /\ \/ Do("conforms", {"parent"}, {}) /\ Same
     \/ FailWith("IORegistryEntryGetParentEntry", "next", Device)

ConformsTo == /\ hpc = "conforms"
              /\ \/ cur \subseteq Skipped /\ Pass(Device)
                 \/ /\ cur \intersect Skipped = {}
                    /\ Do("properties", {}, {}) /\ Same

MediaProperties ==
  /\ hpc = "properties"
  /\ \/ /\ "properties" \notin held
        /\ Do("properties", {"properties"}, {}) /\ Same
     \/ /\ "properties" \in held
        /\ Do("keys", {"parent_properties"}, {}) /\ Same
     \/ FailWith("IORegistryEntryCreateCFProperties", "next", Device)

(* A key that is missing is an error of its own, not one of the system. *)
MediaKeys ==
  /\ hpc = "keys"
  /\ \/ cur \intersect Bare = {} /\ Give(Device)
     \/ /\ cur \subseteq Bare
        /\ hpc' = "next" /\ held' = held \ Device
        /\ reported' = reported \union {"missing_key"}
        /\ UNCHANGED <<lost, foreign>> /\ Same

----------------------------------------------------------------------------
(* processor_load_info: the entries are copied, and the memory is given    *)
(* back; then the port, wherever the function returns.                     *)
LoadInfo ==
  /\ hop = "load_info"
  /\ \/ hpc = "open" /\ Do("cpus", {"host"}, {}) /\ Same
     \/ /\ hpc = "cpus"
        /\ \/ Do("copy", {"memory"}, {}) /\ Same
           \/ FailWith("host_processor_info", "idle", {"host"})

VmDeallocate ==
  /\ hpc = "copy"
  /\ \/ /\ Do("idle", {}, {"memory", "host"}) /\ out' = list
        /\ UNCHANGED <<cur, done, data, err, status, failures>>
     \/ /\ OneMoreFailure
        /\ hpc' = "idle" /\ held' = {}
        /\ reported' = reported \union {err}
        /\ lost' = lost \union {"unclosable"}
        /\ UNCHANGED <<cur, done, data, out, err, status, foreign>>

----------------------------------------------------------------------------
(* get_users: setutxent, getutxent and endutxent of one database.  The     *)
(* type is read from the library's buffer, and then the entry.             *)
SetUtxEnt == /\ hop = "users" /\ hpc = "open"
             /\ hpc' = "next" /\ done' = {}
             /\ UNCHANGED <<held, reported, lost, foreign, cur, data, out, err,
                            status, failures>>

GetUtxEnt == /\ hop = "users" /\ hpc = "next"
             /\ \/ \E e \in list \ done : MoveTo(e, "type", {})
                \/ list \subseteq done /\ Do("idle", {}, {}) /\ Same

UserType == /\ hpc = "type"
            /\ \/ cur \subseteq Skipped /\ Pass({})
               \/ cur \intersect Skipped = {} /\ Do("user", {}, {}) /\ Same

UserPush == hpc = "user" /\ Give({})

(* Another thread is in get_users, too: it rewinds the cursor, or it reads *)
(* an entry into the same buffer.                                          *)
OtherUsers == /\ hop = "users" /\ hpc # "idle" /\ changes < MaxChanges
              /\ changes' = changes + 1
              /\ \/ done' = {} /\ UNCHANGED cur
                 \/ \E e \in list \ done : cur' = {e} /\ done' = done \union {e}
              /\ UNCHANGED <<list, debug, call, hpc, hop, held, mode, err,
                             status, reported, lost, foreign, failures>>

----------------------------------------------------------------------------
(* Whoever polls a stream may drop it between two items. *)
StopEarly == /\ hpc = "next" /\ hop \notin {"users", "load_info"}
             /\ Do("dropped", {}, {}) /\ Same

(* Drop of Volumes, Sessions and IoIterator. *)
DropStream == /\ hpc \in {"drop", "dropped"}
              /\ Do(IF hpc = "drop" THEN "idle" ELSE "stopped", {},
                    {"find", "array", "iterator"})
              /\ Same

(* A Drop asserts that the handle of a search, an IOKit object or a port   *)
(* was closed: where one is dropped whatever the calls before it returned, *)
(* its failure ends the thread, and unwinding drops the rest.              *)
DropPanics ==
  /\ \/ hpc \in {"drop", "dropped"} /\ held \intersect {"find", "iterator"} # {}
     \/ hpc = "conforms" /\ cur \subseteq Skipped
     \/ hpc \in {"services", "keys", "copy"}
  /\ OneMoreFailure
  /\ hpc' = "panicked" /\ held' = {} /\ lost' = lost \union {"unclosable"}
  /\ UNCHANGED <<cur, done, data, out, err, status, reported, foreign>>

HandleStep ==
  /\ \/ /\ \/ FindFirstVolume \/ FindNextVolume \/ VolumeFilter
           \/ DeviceIoControl \/ CloseFile
           \/ DriveNext \/ GetVolumeInformation
           \/ EnumerateSessions \/ SessionNext \/ FromSession
           \/ MasterPort \/ GetServices \/ MediaNext \/ MediaParent
           \/ ConformsTo \/ MediaProperties \/ MediaKeys
           \/ LoadInfo \/ VmDeallocate
           \/ SetUtxEnt \/ GetUtxEnt \/ UserType \/ UserPush
           \/ DropStream \/ DropPanics
        /\ UNCHANGED mode
     \/ SetMode \/ RestoreMode
  /\ Others

(* Volumes, sessions, media and users come and go; the drives were listed  *)
(* before.                                                                 *)
ListChanges == /\ ~Ended /\ hop # "information" /\ changes < MaxChanges
               /\ \E e \in Entry :
                    list' = IF e \in list THEN list \ {e} ELSE list \union {e}
               /\ list' # {}
               /\ changes' = changes + 1
               /\ UNCHANGED <<debug, call, handles>>

AllStep == (Step /\ UNCHANGED handles) \/ HandleStep

AllNext ==
  \/ \E m \in Ops : Ended /\ Begin(m) /\ Fresh("idle", "none")
  \/ \E m \in HandleOps : BeginHandles(m)
  \/ AllStep
  \/ Change /\ UNCHANGED handles
  \/ ListChanges \/ OtherUsers
  \/ StopEarly /\ UNCHANGED mode /\ Others

AllInit == Init /\ HandleInit

(* A call runs in one thread, and its stream is polled to its end. *)
AllSpec == AllInit /\ [][AllNext]_allvars /\ WF_allvars(AllStep)

----------------------------------------------------------------------------
AllTypeOK ==
  /\ TypeOK
  /\ hop \in HandleOps \union {"none"}
  /\ cur \subseteq Entry /\ Cardinality(cur) <= 1 /\ done \subseteq Entry
  /\ held \subseteq Device \union {"find", "file", "array", "info", "port",
                                  "iterator", "host", "memory"}
  /\ mode \in {"old", "critical"} /\ status \in {"ok", "ignored", "failed"}
  /\ foreign \in BOOLEAN /\ failures \in 0 .. MaxFailures

(* Wherever a call fails or panics and whenever its stream is dropped,     *)
(* everything it was handed out is given back once, unless the system      *)
(* refuses to take it; nothing else is freed, and the error mode of the    *)
(* thread is what it was.  Two things are never freed: the information     *)
(* about a session, which WtsInfo copies, freeing the copy instead; and an *)
(* address of an unknown family, which is a panic.                         *)
EverythingIsGivenBack ==
  Ended => /\ held = {}
           /\ mode = "critical" => "mode" \in lost
           /\ lost \subseteq {"unclosable", "mode"} \union
                              (IF hop = "sessions" THEN {"info", "address"}
                               ELSE {})
           /\ "address" \in lost => hpc = "panicked"
           /\ lost \intersect {"unclosable", "mode"} # {} => failures > 0
           /\ foreign => hop = "sessions"

(* Calls of macOS that return a kern_return_t. *)
KernReturn == {"media", "load_info"}

(* Whose error code an error carries, although files are closed and modes  *)
(* restored before the code is read: the one of a system call that failed  *)
(* in this call, wherever that call sets the code; a stale one for every   *)
(* call that returns an NTSTATUS or a kern_return_t instead, and for those *)
(* only.                                                                   *)
WhichErrorsAreOwn ==
  /\ "stale" \in reported => hop \in KernReturn
  /\ hop \in KernReturn => reported \subseteq {"stale", "missing_key"}
  /\ result = "Stale" => op \in NtStatus
  /\ result = "Load" => op \notin NtStatus

(* What a stream yields if nothing fails. *)
Expected == CASE hop = "volumes"          -> filled
              [] hop = "volumes_physical" -> filled \ Skipped
              [] hop = "information"      -> filled
              [] hop = "sessions"         -> filled \ Skipped
              [] hop = "media"            -> filled \ (Skipped \union Bare)
              [] hop = "load_info"        -> filled
              [] hop = "users"            -> filled \ Skipped

Opened == hop \in {"volumes", "volumes_physical", "information", "users"}
          \/ (hop = "sessions" /\ "WTSEnumerateSessionsW" \notin reported)

(* A list that stays as it is, and is read by one thread, is yielded       *)
(* exactly, and a system call that fails hides the entry it was for and no *)
(* other (SizedQuery has the lists that are copied to a buffer).           *)
UndisturbedCallIsExact ==
  /\ StableListIsExact
  /\ (hop # "none" /\ hpc = "idle" /\ changes = 0) =>
       /\ out \subseteq Expected
       /\ failures = 0 => out = Expected
       /\ Opened => Cardinality(Expected \ out) <= failures

Idle == pc = "idle" /\ Ended

(* A search of NtProcesses for a process that is not in the list. *)
Endless == pc = "spin" /\ op = "load" /\ target \intersect filled = {}

(* Each call ends, once the list stops changing and its system calls stop  *)
(* failing: the loops that try again with a larger buffer, and the stream  *)
(* of volumes, which tries to begin again after an error.  The exception   *)
(* is a search of NtProcesses for a process that is not in the list (it    *)
(* has exited before the list was made): it goes round for ever, since the *)
(* iterator has no end.                                                    *)
EveryCallReturns == ~Idle ~> (Idle \/ Endless)

============================================================================
