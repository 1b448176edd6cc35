----------------------------- MODULE LinuxFiles -----------------------------
(***************************************************************************)
(* What heim reads on Linux from more than one file, while devices come    *)
(* and go: a directory or a table is listed first, and then the files of   *)
(* each entry are read one after the other.                                *)
(*                                                                         *)
(*   temperatures          heim-sensors: hwmon, hwmon/device, thermal      *)
(*   frequency             heim-cpu: cpufreq of each CPU                   *)
(*   physical_count        heim-cpu: topology of each CPU, or cpuinfo      *)
(*   logical_count         heim-cpu: sysconf, or cpuinfo, or stat          *)
(*   times                 heim-cpu: the rows of /proc/stat                *)
(*   io_counters_physical  heim-disk: diskstats, then /sys/block           *)
(*   partitions_physical   heim-disk: filesystems, then mounts             *)
(*   net_io_counters       heim-net: net/dev                               *)
(*                                                                         *)
(* A slot is a name in the file system (cpu1, sda, or temp2 of hwmon0) or  *)
(* a row of a table; a device is what is in the slot, with the files it    *)
(* has.  The sensors of one hwmon are slots beside each other: their       *)
(* devices share a directory, its name and its id, and come and go         *)
(* together.  A value that was read is known by the device that it is      *)
(* from.  The root of the proc file system is a cell that is written once, *)
(* by set_procfs_root or by the first file that is opened (heim-runtime,   *)
(* linux.rs; the root of sysfs has a cell of the same kind).               *)
(***************************************************************************)
EXTENDS Integers, FiniteSets, Functions

CONSTANTS Slots,        \* the slots of each kind of device, a function
          Devices,      \* the devices of each kind, a function
          Beside,       \* the slots in the directory of each slot
          Globbed,      \* the CPUs whose number has one digit
          NoDev,        \* file systems that need no device
          MaxChanges    \* bound: changes during a call

Kind == [hwmon |-> "hwmon", hwmon_device |-> "hwmon", thermal_zone |-> "zone",
         cpufreq |-> "cpu", core_id |-> "cpu", stat |-> "cpu", logical |-> "cpu",
         diskstats |-> "disk", mounts |-> "mount", net |-> "nic"]

Streams == DOMAIN Kind
Slot == UNION {Slots[k] : k \in DOMAIN Slots}
Empty == [id |-> "empty", files |-> {}, trips |-> {}]

(* A name belongs to one kind of device, and is not "directory", which     *)
(* stands for a directory in the errors; "read" marks a table that has     *)
(* been read, so it is no file system; the numbers that a CPU shows are    *)
(* told apart by its id, and it runs between the limits that it shows.     *)
ASSUME FilesAssumption ==
  /\ DOMAIN Slots = {Kind[s] : s \in Streams} /\ DOMAIN Devices = DOMAIN Slots
  /\ \A j, k \in DOMAIN Slots : j # k => Slots[j] \intersect Slots[k] = {}
  /\ \A k \in DOMAIN Slots : \A x \in Slots[k] :
       x \in Beside[x] /\ Beside[x] \subseteq Slots[k]
  /\ IsFiniteSet(Slot) /\ Globbed \subseteq Slots["cpu"]
  /\ "directory" \notin Slot
  /\ "read" \notin NoDev
  /\ \A d, e \in Devices["cpu"] : d.id = e.id => d = e
  /\ \A d \in Devices["cpu"] :
       /\ d.cur \in Nat /\ d.max \in Nat /\ d.min \in Nat
       /\ {"max", "min"} \subseteq d.files => d.min <= d.cur /\ d.cur <= d.max
  /\ MaxChanges \in Nat

(* The trip points of a zone are files of its directory. *)
ASSUME TripsAssumption == \A d \in Devices["zone"] : IsFiniteSet(d.trips)

VARIABLES slot,         \* the device in each slot
          class,        \* kinds whose directory or table is there
          op,           \* the call
          st,           \* where each of its streams is
          drivers,      \* the file systems that the kernel knows
          known,        \* the ones that partitions_physical has read
          out, errors,  \* the items and the errors that were yielded
          result,
          seen,         \* the rows of a table, as they were read
          root,         \* the cell PROCFS_ROOT
          roots,        \* history: the roots that the call has used
          touched,      \* history: slots in which a device came or went
          changes       \* history: how often that happened

vars == <<slot, class, op, st, drivers, known, out, errors, result, seen,
          root, roots, touched, changes>>

StreamsOf(m) == CASE m = "temperatures"         -> {"hwmon", "hwmon_device"}
                  [] m = "frequency"            -> {"cpufreq"}
                  [] m = "physical_count"       -> {"core_id"}
                  [] m = "logical_count"        -> {"logical"}
                  [] m = "times"                -> {"stat"}
                  [] m = "io_counters_physical" -> {"diskstats"}
                  [] m = "partitions_physical"  -> {"mounts"}
                  [] m = "net_io_counters"      -> {"net"}

Ops == {"temperatures", "frequency", "physical_count", "logical_count", "times",
        "io_counters_physical", "partitions_physical", "net_io_counters"}

(* The ones that ask for procfs_root() in any case. *)
ProcOps == {"times", "io_counters_physical", "partitions_physical",
            "net_io_counters"}

KindsOf(m) == {Kind[s] : s \in StreamsOf(m)}
              \union (IF m = "temperatures" THEN {"zone"} ELSE {})

(* A stream: where it is, the slots it has still to visit, those of them   *)
(* in the directory it is in, the slot it visits, the files it has still   *)
(* to read and the ones it has.                                            *)
At(l) == [pc |-> l, todo |-> {}, inside |-> {}, cur |-> "none",
          pending |-> {}, have |-> {}]

NoResult == [kind |-> "none", n |-> 0, lo |-> 0, hi |-> 0]

Init == /\ slot = [x \in Slot |-> Empty] /\ class = {} /\ op = "none"
        /\ st = [s \in Streams |-> At("wait")]
        /\ drivers = {} /\ known = {}
        /\ out = {} /\ errors = {} /\ result = NoResult
        /\ seen = slot /\ root = "unset" /\ roots = {}
        /\ touched = {} /\ changes = 0

----------------------------------------------------------------------------
(* The system.  A mounted file system is one that the kernel knows.        *)
FileSystems == {d.fs : d \in Devices["mount"]}

SlotsOf(m) == UNION {Slots[k] : k \in KindsOf(m)}

Allowed(x, C) == {Empty} \union UNION {Devices[k] : k \in {j \in C : x \in Slots[j]}}

(* The files of a hwmon that its sensors have in common. *)
Shared == {"name", "device", "device/name"}

(* What may be in the slots of one directory at a time. *)
Directory(f, X) ==
  \/ \A x \in X : f[x] = Empty
  \/ \A x, y \in X : /\ f[x] # Empty /\ f[x].id = f[y].id
                     /\ f[x].files \intersect Shared =
                          f[y].files \intersect Shared

Mounted(f) == {f[x].fs : x \in {y \in Slots["mount"] : f[y] # Empty}}

Begin(m) ==
  /\ op = "none"
  /\ op' = m
  /\ class' \in {C \in SUBSET KindsOf(m) : m = "temperatures" \/ C = KindsOf(m)}
  /\ \E f \in [SlotsOf(m) -> UNION {Allowed(x, class') : x \in SlotsOf(m)}] :
       /\ \A x \in SlotsOf(m) : /\ f[x] \in Allowed(x, class')
                               /\ Directory(f, Beside[x])
       /\ slot' = [x \in Slot |-> IF x \in SlotsOf(m) THEN f[x] ELSE Empty]
  /\ drivers' = Mounted(slot') \union NoDev
  /\ st' = [s \in Streams |-> At(IF s \notin StreamsOf(m) THEN "wait"
                                   ELSE IF s = "logical" THEN "sysconf" ELSE "list")]
  /\ UNCHANGED <<known, out, errors, result, seen, root, roots, touched, changes>>

(* A device is unplugged, or another one takes its name. *)
Change == /\ op # "none" /\ result = NoResult /\ changes < MaxChanges
          /\ \E x \in Slot, k \in class :
               /\ x \in Slots[k]
               /\ \E f \in [Beside[x] -> Devices[k] \union {Empty}] :
                    /\ Directory(f, Beside[x])
                    /\ slot' = [y \in Slot |-> IF y \in Beside[x] THEN f[y]
                                              ELSE slot[y]]
               /\ slot' # slot
               /\ touched' = touched \union Beside[x]
          /\ drivers' = drivers \union Mounted(slot')
          /\ changes' = changes + 1
          /\ UNCHANGED <<class, op, st, known, out, errors, result, seen, root, roots>>

Still == UNCHANGED <<slot, class, op, drivers, touched, changes>>

(* Mutant: the cell can be written again. *)
SetProcfsRootAgain == /\ op \in ProcOps /\ result = NoResult
                      /\ root' = "custom"
                      /\ UNCHANGED <<known, out, errors, result, seen, st, roots>>
                      /\ Still

(* set_procfs_root: get_or_init keeps what is in the cell. *)
SetProcfsRoot == /\ op \in ProcOps /\ result = NoResult
                 /\ root' = IF root = "unset" THEN "custom" ELSE root
                 /\ UNCHANGED <<known, out, errors, result, seen, st, roots>>
                 /\ Still

(* procfs_root, in front of each open. *)
ProcfsRoot == /\ root' = IF root = "unset" THEN "default" ELSE root
              /\ roots' = roots \union {root'}

Rest(s, x) == [At("next") EXCEPT !.todo = st[s].todo \ {x},
                                 !.inside = st[s].inside \ {x}]

----------------------------------------------------------------------------
(* Steps that all streams share. *)
Move(s, r) == st' = [st EXCEPT ![s] = r]

(* An item: the files that were read for it, and whose they were. *)
Item(s, x, have) == [stream |-> s, slot |-> x, have |-> have]

Yield(s, i, r) == Move(s, r) /\ out' = out \union {i} /\ UNCHANGED errors

(* The calls that are no streams themselves return the first error. *)
Throw(s, x, r) ==
  /\ errors' = errors \union {<<s, x>>}
  /\ st' = [st EXCEPT ![s] = IF op \in {"frequency", "physical_count"}
                             THEN At("failed") ELSE r]
  /\ UNCHANGED out

Unread == UNCHANGED <<known, result, seen, root, roots>> /\ Still

Goto(s, r) == Move(s, r) /\ UNCHANGED <<out, errors>>

(* The read_dir, glob or open in front of a stream.  What cannot be listed *)
(* is an error, and the end of the stream; a glob just finds nothing; a    *)
(* table that cannot be opened is the end of the call.                     *)
Listed(s) == {x \in Slots[Kind[s]] : /\ slot[x] # Empty
                                     /\ s \in {"cpufreq", "core_id"} =>
                                          x \in Globbed /\ s \in slot[x].files}

(* The rows in front of the ones a table is read for. *)
Headers(s) == CASE s = "stat" -> {"cpu"} [] s = "net" -> {"Inter-", "face"}
                [] OTHER -> {}

(* Mutant: the first line of the file is parsed as well. *)
SkippedNone(s) == {}

Skipped(s) == CASE s = "stat" -> {"cpu"} [] s = "net" -> {"Inter-", "face"}
                [] OTHER -> {}

List(s) ==
  /\ st[s].pc = "list" /\ (s = "mounts" => known # {})
  /\ \/ Kind[s] \notin class /\ Throw(s, "class", At("end"))
     \/ /\ Kind[s] \in class
        /\ Goto(s, [At("next") EXCEPT !.todo =
                      Listed(s) \union (Headers(s) \ Skipped(s))])
     \/ op \in ProcOps /\ Goto(s, At("failed"))
  /\ seen' = IF op \in ProcOps THEN slot ELSE seen
  /\ IF op \in ProcOps THEN ProcfsRoot ELSE UNCHANGED <<root, roots>>
  /\ UNCHANGED <<known, result>> /\ Still

EndStream(s) == /\ st[s].pc = "next" /\ st[s].todo = {}
                /\ Goto(s, At("end")) /\ Unread

(* Files of a device, by the directory they are in.  A file that cannot be *)
(* parsed is not among them.                                               *)
Has(x, f) == f \in slot[x].files

Visit(s, x, pending) ==
  Goto(s, [Rest(s, x) EXCEPT !.pc = "read", !.cur = x, !.pending = pending])

(* One of the files of the entry.  Without a required one there is no      *)
(* item; an optional one is left out.                                      *)
TakeFile(s, f) ==
  /\ st[s].pc = "read" /\ f \in st[s].pending /\ Has(st[s].cur, f)
  /\ Goto(s, [st[s] EXCEPT !.pending = @ \ {f},
                           !.have = @ \union {<<f, slot[st[s].cur].id>>}])
  /\ Unread

Required(s, f) ==
  \/ TakeFile(s, f)
  \/ /\ st[s].pc = "read" /\ f \in st[s].pending /\ ~Has(st[s].cur, f)
     /\ Throw(s, st[s].cur, Rest(s, st[s].cur))
     /\ Unread

Optional(s, f) ==
  \/ TakeFile(s, f)
  \/ /\ st[s].pc = "read" /\ f \in st[s].pending /\ ~Has(st[s].cur, f)
     /\ Goto(s, [st[s] EXCEPT !.pending = @ \ {f}])
     /\ Unread

Deliver(s) ==
  /\ st[s].pc = "read" /\ st[s].pending = {}
  /\ Yield(s, Item(s, st[s].cur, st[s].have), Rest(s, st[s].cur))
  /\ Unread

----------------------------------------------------------------------------
(* temperatures.  The sensors of hwmon are in its own directory or in      *)
(* device below it.                                                        *)
Needed(s) == IF s = "hwmon" THEN {"name", "input"}
             ELSE {"device/name", "device/input"}

Limits(s) == IF s = "hwmon" THEN "limits" ELSE "device/limits"

SensorFiles(s) == Needed(s) \union {Limits(s)}

(* The directory of a slot has been dealt with, but for the sensors in L. *)
Open(s, X, L) == [At("next") EXCEPT !.todo = (st[s].todo \ X) \union L,
                                    !.inside = L]

(* read_dir of a hwmon, for temp*_input. *)
Hwmon ==
  LET r == st["hwmon"] IN
  /\ r.pc = "next" /\ r.inside = {}
  /\ \E x \in r.todo :
       LET X == Beside[x] \intersect r.todo
           gone == \A y \in X : slot[y] = Empty
       IN \/ gone /\ Throw("hwmon", "directory", Open("hwmon", X, {}))
          \/ /\ ~gone
             /\ Goto("hwmon", Open("hwmon", X, {y \in X : Has(y, "input")}))
  /\ Unread

(* Mutant: an entry without the directory is tried again. *)
HwmonDeviceAgain ==
  LET r == st["hwmon_device"] IN
  /\ r.pc = "next" /\ r.inside = {}
  /\ \E x \in r.todo :
       LET X == Beside[x] \intersect r.todo IN
       /\ \E y \in X : Has(y, "device")
       /\ Goto("hwmon_device", [Open("hwmon_device", X, X) EXCEPT
                                  !.pc = "device"])
  /\ Unread

(* path_exists of device below a hwmon, and then read_dir. *)
HwmonDevice ==
  LET r == st["hwmon_device"] IN
  /\ r.pc = "next" /\ r.inside = {}
  /\ \E x \in r.todo :
       LET X == Beside[x] \intersect r.todo
           exists == \E y \in X : Has(y, "device")
       IN \/ ~exists /\ Goto("hwmon_device", Open("hwmon_device", X, {}))
          \/ /\ exists
             /\ Goto("hwmon_device", [Open("hwmon_device", X, X) EXCEPT
                                        !.pc = "device"])
  /\ Unread

HwmonDeviceDir ==
  LET r == st["hwmon_device"]
      X == r.inside
      exists == \E y \in X : Has(y, "device")
  IN
  /\ r.pc = "device"
  /\ \/ /\ ~exists
        /\ Throw("hwmon_device", "directory", Open("hwmon_device", X, {}))
     \/ /\ exists
        /\ Goto("hwmon_device",
                Open("hwmon_device", X,
                     {y \in X : Has(y, "device") /\ Has(y, "device/input")}))
  /\ Unread

(* The next sensor of the directory. *)
HwmonInput == \E s \in {"hwmon", "hwmon_device"} :
                /\ st[s].pc = "next"
                /\ \E x \in st[s].inside : Visit(s, x, SensorFiles(s))
                /\ Unread

(* Mutant: a limit that is missing is an error, too. *)
HwmonSensorStrict == \E s \in {"hwmon", "hwmon_device"} :
                       \/ \E f \in SensorFiles(s) : Required(s, f)
                       \/ Deliver(s)

(* hwmon_sensor: try_join5 reads the files in any order; label, max and    *)
(* crit are optional, and are read here in one step.                       *)
HwmonSensor == \E s \in {"hwmon", "hwmon_device"} :
                 \/ \E f \in Needed(s) : Required(s, f)
                 \/ Optional(s, Limits(s))
                 \/ Deliver(s)

(* choose_chain: the zones are asked if hwmon has yielded neither an item  *)
(* nor an error.                                                           *)
ChooseZones == /\ op = "temperatures" /\ st["thermal_zone"].pc = "wait"
               /\ \A s \in StreamsOf(op) : st[s].pc = "end"
               /\ out = {} /\ errors = {}
               /\ Goto("thermal_zone", At("list")) /\ Unread

ZoneNext == /\ st["thermal_zone"].pc = "next"
            /\ \E x \in st["thermal_zone"].todo :
                 Visit("thermal_zone", x, {"temp", "type"})
            /\ Unread

(* The zone's own files; then its directory, for the trip points. *)
Zone == \/ \E f \in {"temp", "type"} : Required("thermal_zone", f)
        \/ /\ st["thermal_zone"].pc = "read" /\ st["thermal_zone"].pending = {}
           /\ LET x == st["thermal_zone"].cur IN
                \/ slot[x] = Empty /\ Throw("thermal_zone", x, Rest("thermal_zone", x))
                \/ /\ slot[x] # Empty
                   /\ Goto("thermal_zone", [st["thermal_zone"] EXCEPT
                             !.pc = "trips", !.pending = slot[x].trips])
           /\ Unread

(* try_fold: the type of a trip point, and its temperature if the type is  *)
(* one that matters.                                                       *)
TripPoint ==
  LET r == st["thermal_zone"]
      x == r.cur
  IN
  /\ r.pc = "trips"
  /\ \/ \E t \in r.pending :
          \/ /\ t \in slot[x].trips
             /\ t # "passive" => Has(x, t)
             /\ Goto("thermal_zone", [r EXCEPT
                  !.pending = @ \ {t},
                  !.have = IF t = "passive" THEN @
                           ELSE @ \union {<<t, slot[x].id>>}])
          \/ /\ t \notin slot[x].trips \/ (t # "passive" /\ ~Has(x, t))
             /\ Throw("thermal_zone", x, Rest("thermal_zone", x))
     \/ /\ r.pending = {}
        /\ Yield("thermal_zone", Item("thermal_zone", x, r.have),
                 Rest("thermal_zone", x))
  /\ Unread

Temperatures == Hwmon \/ HwmonDevice \/ HwmonDeviceDir \/ HwmonInput
                \/ HwmonSensor \/ ChooseZones \/ ZoneNext \/ Zone \/ TripPoint

----------------------------------------------------------------------------
(* frequency: the current one is read first and is required.               *)
FreqNext == /\ st["cpufreq"].pc = "next"
            /\ \E x \in st["cpufreq"].todo : Visit("cpufreq", x, {"cur", "max", "min"})
            /\ Unread

ReadFreq == \/ Required("cpufreq", "cur")
            \/ "cur" \notin st["cpufreq"].pending /\ Optional("cpufreq", "max")
            \/ /\ st["cpufreq"].pending = {"min"}
               /\ Optional("cpufreq", "min")
            \/ Deliver("cpufreq")

CpuOf(id) == CHOOSE d \in Devices["cpu"] : d.id = id

(* CpuFrequency + CpuFrequency: a limit that is missing adds nothing. *)
Total(f) ==
  SumFunction([p \in UNION {{i.slot} \X {h \in i.have : h[1] = f} : i \in out} |->
                 CpuOf(p[2][2])[f]])

Finish(r) == /\ result = NoResult
             /\ result' = r
             /\ UNCHANGED <<st, known, out, errors, seen, root, roots>> /\ Still

(* Mutant: the sum is divided by the number of all CPUs. *)
FrequencyOfAll ==
  /\ op = "frequency"
  /\ \/ st["cpufreq"].pc = "failed" /\ Finish([NoResult EXCEPT !.kind = "Err"])
     \/ /\ st["cpufreq"].pc = "end" /\ out = {}
        /\ Finish([NoResult EXCEPT !.kind = "Err"])
     \/ /\ st["cpufreq"].pc = "end" /\ out # {}
        /\ LET n == Cardinality(Slots["cpu"]) IN
             Finish([kind |-> "Ok", n |-> Total("cur") \div n,
                     lo |-> Total("min") \div n, hi |-> Total("max") \div n])

(* Mean values over the CPUs that were found, whatever limits they have. *)
Frequency ==
  /\ op = "frequency"
  /\ \/ st["cpufreq"].pc = "failed" /\ Finish([NoResult EXCEPT !.kind = "Err"])
     \/ /\ st["cpufreq"].pc = "end" /\ out = {}
        /\ Finish([NoResult EXCEPT !.kind = "Err"])
     \/ /\ st["cpufreq"].pc = "end" /\ out # {}
        /\ LET n == Cardinality(out) IN
             Finish([kind |-> "Ok", n |-> Total("cur") \div n,
                     lo |-> Total("min") \div n, hi |-> Total("max") \div n])

----------------------------------------------------------------------------
(* physical_count.  topology() counts the different core ids.              *)
Topology == \/ /\ st["core_id"].pc = "next"
               /\ \E x \in st["core_id"].todo : Visit("core_id", x, {"core_id"})
               /\ Unread
            \/ Required("core_id", "core_id")
            \/ Deliver("core_id")

Cores == {CpuOf(h[2]).core : h \in UNION {i.have : i \in out}}

Online == {x \in Slots["cpu"] : slot[x] # Empty}

(* The fallback: parse_line asks for a third part of a line that has two,  *)
(* so that the first "physical id" is an error; without one there is no    *)
(* number.                                                                 *)
CpuInfo == IF \E x \in Online : slot[x].physical_id
           THEN [NoResult EXCEPT !.kind = "Err"]
           ELSE [NoResult EXCEPT !.kind = "None"]

PhysicalCount ==
  /\ op = "physical_count"
  /\ \/ st["core_id"].pc = "failed" /\ Finish(CpuInfo)
     \/ st["core_id"].pc = "end" /\ Cores = {} /\ Finish(CpuInfo)
     \/ /\ st["core_id"].pc = "end" /\ Cores # {}
        /\ Finish([NoResult EXCEPT !.kind = "Ok", !.n = Cardinality(Cores)])

(* logical_count: sysconf, the "processor" lines of cpuinfo, the "cpu"     *)
(* lines of stat behind the first; each is asked if the one before failed. *)
Try(l, next) ==
  /\ st["logical"].pc = l
  /\ \/ Finish([NoResult EXCEPT !.kind = "Ok", !.n = Cardinality(Online)])
     \/ result = NoResult /\ Goto("logical", At(next)) /\ Unread

LogicalCount == \/ Try("sysconf", "cpuinfo") \/ Try("cpuinfo", "stat")
                \/ Try("stat", "failed")
                \/ /\ st["logical"].pc = "failed"
                   /\ Finish([NoResult EXCEPT !.kind = "Err"])

----------------------------------------------------------------------------
(* Tables that are read row by row from one file.  A header that is not    *)
(* skipped is taken for a row; one that cannot be parsed is an error among *)
(* the items, and so is a line that is no text.                            *)
Parsed(x) == x \in Slot => {"text", "row"} \subseteq seen[x].files

TableRow == \E s \in {"stat", "net"} :
              /\ st[s].pc = "next"
              /\ \E x \in st[s].todo :
                   \/ Parsed(x) /\ Yield(s, Item(s, x, {}), Rest(s, x))
                   \/ ~Parsed(x) /\ Throw(s, x, Rest(s, x))
              /\ Unread

(* access to /sys/block/<name>: what is in the slot now. *)
IsStorageDevice(x) == Has(x, "block")

Row(s, x) == Item(s, x, {<<"row", seen[x].id>>})

IoCountersPhysical ==
  /\ st["diskstats"].pc = "next"
  /\ \E x \in st["diskstats"].todo :
       \/ /\ Parsed(x) /\ IsStorageDevice(x)
          /\ Yield("diskstats", Row("diskstats", x), Rest("diskstats", x))
       \/ /\ Parsed(x) /\ ~IsStorageDevice(x)
          /\ Goto("diskstats", Rest("diskstats", x))
       \/ ~Parsed(x) /\ Throw("diskstats", x, Rest("diskstats", x))
  /\ Unread

(* known_filesystems: the ones that need no device are left out, but zfs.  *)
(* If the file cannot be read, the call fails.                             *)
KnownFilesystems ==
  /\ st["mounts"].pc = "list" /\ known = {}
  /\ \/ /\ known' = {"read"} \union {fs \in drivers :
                                      fs \notin NoDev \/ fs = "zfs"}
        /\ UNCHANGED st
     \/ Move("mounts", At("failed")) /\ UNCHANGED known
  /\ ProcfsRoot
  /\ UNCHANGED <<out, errors, result, seen>> /\ Still

MountRow(x, keep) ==
  \/ keep /\ Yield("mounts", Row("mounts", x), Rest("mounts", x))
  \/ ~keep /\ Goto("mounts", Rest("mounts", x))

(* A row that cannot be parsed is dropped here, and one without a device   *)
(* or with an unknown file system is filtered.                             *)
PartitionsPhysical ==
  /\ st["mounts"].pc = "next"
  /\ \E x \in st["mounts"].todo :
       \/ /\ "text" \in seen[x].files
          /\ MountRow(x, /\ {"row", "device"} \subseteq seen[x].files
                         /\ seen[x].fs \in known)
       \/ /\ "text" \notin seen[x].files
          /\ Throw("mounts", x, Rest("mounts", x))
  /\ Unread

StreamEnds == /\ op \in {"temperatures", "times", "net_io_counters",
                         "io_counters_physical", "partitions_physical"}
              /\ \A s \in StreamsOf(op) : st[s].pc = "end"
              /\ op = "temperatures" =>
                   \/ st["thermal_zone"].pc = "end"
                   \/ /\ st["thermal_zone"].pc = "wait"
                      /\ out # {} \/ errors # {}
              /\ Finish([NoResult EXCEPT !.kind = "Ok"])

(* The error of a file that cannot be opened is returned instead. *)
CallFails == /\ op \in ProcOps
             /\ \E s \in StreamsOf(op) : st[s].pc = "failed"
             /\ Finish([NoResult EXCEPT !.kind = "Err"])

----------------------------------------------------------------------------
Step == \/ \E s \in Streams : List(s) \/ EndStream(s)
        \/ Temperatures
        \/ FreqNext \/ ReadFreq \/ Frequency \/ Topology \/ PhysicalCount
        \/ LogicalCount
        \/ TableRow \/ IoCountersPhysical \/ KnownFilesystems \/ PartitionsPhysical
        \/ StreamEnds \/ CallFails

Next == (\E m \in Ops : Begin(m)) \/ Step \/ Change \/ SetProcfsRoot

(* The call is polled to its end. *)
Spec == Init /\ [][Next]_vars /\ WF_vars(Step)

----------------------------------------------------------------------------
TypeOK == /\ slot \in [Slot -> {Empty} \union
                                UNION {Devices[k] : k \in DOMAIN Devices}]
          /\ class \subseteq DOMAIN Slots /\ op \in Ops \union {"none"}
          /\ \A s \in Streams :
               /\ st[s].pc \in {"wait", "list", "next", "device", "read",
                                "trips", "end", "failed",
                                "sysconf", "cpuinfo", "stat"}
               /\ st[s].todo \subseteq Slots[Kind[s]]
          /\ drivers \subseteq FileSystems \union NoDev
          /\ touched \subseteq Slot /\ changes \in 0 .. MaxChanges
          /\ root \in {"unset", "default", "custom"}
          /\ roots \subseteq {"default", "custom"}
          /\ result.kind \in {"none", "Ok", "Err", "None"}

(* What a device that stays in its slot has to contribute to a stream. *)
Contributes(s, x) ==
  LET d == slot[x] IN
  CASE s = "hwmon"        -> Needed(s) \subseteq d.files
    [] s = "hwmon_device" -> {"device"} \union Needed(s) \subseteq d.files
    [] s = "thermal_zone" -> /\ {"temp", "type"} \subseteq d.files
                             /\ \A t \in d.trips : t # "passive" => t \in d.files
    [] s = "diskstats"    -> {"text", "row", "block"} \subseteq d.files
    [] s = "mounts"       -> /\ {"text", "row", "device"} \subseteq d.files
                             /\ d.fs \notin NoDev \/ d.fs = "zfs"
    [] s = "cpufreq"      -> x \in Globbed /\ {"cpufreq", "cur"} \subseteq d.files
    [] s = "core_id"      -> x \in Globbed /\ "core_id" \in d.files
    [] OTHER              -> {"text", "row"} \subseteq d.files

(* The files of a device that go into its item. *)
Of(s, d) ==
  CASE s \in {"hwmon", "hwmon_device"} -> SensorFiles(s) \intersect d.files
    [] s = "thermal_zone" -> {"temp", "type"} \union (d.trips \ {"passive"})
    [] s = "cpufreq"      -> {"cur", "max", "min"} \intersect d.files
    [] s = "core_id"      -> {"core_id"}
    [] s \in {"diskstats", "mounts"} -> {"row"}
    [] OTHER              -> {}

(* Streams whose end a call that succeeds has reached. *)
Asked == IF op = "none" THEN {} ELSE
         {s \in StreamsOf(op) \union {"thermal_zone"} : st[s].pc = "end"}

(* Devices that come and go do not hide or distort the others of the same  *)
(* stream: one that has ended has yielded, for each device that stayed     *)
(* where it was, one item with all the files the device has; one that      *)
(* lacks a file that is needed has none.                                   *)
UntouchedIsReported ==
  result.kind = "Ok" =>
    \A s \in Asked : Kind[s] \in class =>
      \A x \in Slots[Kind[s]] \ touched :
        LET items == {i \in out : i.stream = s /\ i.slot = x} IN
        IF slot[x] = Empty \/ ~Contributes(s, x) THEN items = {} ELSE
          /\ items = {Item(s, x, Of(s, slot[x]) \X {slot[x].id})}
          /\ <<s, x>> \notin errors

(* A sensor that hwmon or hwmon_device finds, whatever it lacks. *)
IsSensor(x) == \/ "input" \in slot[x].files
               \/ {"device", "device/input"} \subseteq slot[x].files

(* But an error of hwmon hides the zones, as an item of it does: they are  *)
(* passed over if there is a sensor, also one that cannot be read, if a    *)
(* hwmon comes or goes, and if there is no directory of them at all; for   *)
(* no other reason.                                                        *)
ZonesAreAsked ==
  (op = "temperatures" /\ result.kind = "Ok" /\ st["thermal_zone"].pc = "wait")
    => \/ "hwmon" \notin class
       \/ \E x \in Slots["hwmon"] : x \in touched \/ IsSensor(x)

(* The tables hold one row for each device: the headers of /proc/stat and  *)
(* net/dev, and the sum over all CPUs, are not among the items; zones are  *)
(* reported only by a system in which hwmon has nothing to report.         *)
NothingElseIsReported ==
  /\ \A i \in out : i.slot \in Slots[Kind[i.stream]]
  /\ (\E i \in out : i.stream = "thermal_zone") =>
       /\ \A i \in out : i.stream = "thermal_zone"
       /\ \A x \in Slots["hwmon"] \ touched :
            ~Contributes("hwmon", x) /\ ~Contributes("hwmon_device", x)

(* The items of a call are those of the devices that are there, neither    *)
(* more nor fewer, and the zones are left out for a reason.                *)
ItemsAreExact == /\ UntouchedIsReported /\ NothingElseIsReported
                 /\ ZonesAreAsked

Counted == {x \in Online \intersect Globbed : "cpufreq" \in slot[x].files}

Sum(f) == SumFunction([x \in Counted |-> slot[x][f]])

(* Fewer than eleven CPUs of one package, and each of them tells its core. *)
OnePackage == /\ Online \subseteq Globbed
              /\ \A x \in Online : "core_id" \in slot[x].files
              /\ \A x, y \in Online : slot[x].package = slot[y].package

(* If no CPU comes or goes: the frequency is the mean of the CPUs that are *)
(* found, and lies between the limits if each of them has limits; the      *)
(* number of cores is right for one package of less than eleven CPUs.      *)
CountsAreExact ==
  (result.kind = "Ok" /\ touched = {}) =>
    /\ op = "frequency" =>
         /\ result.n = Sum("cur") \div Cardinality(Counted)
         /\ (\A x \in Counted : {"max", "min"} \subseteq slot[x].files) =>
              result.lo <= result.n /\ result.n <= result.hi
    /\ (op = "physical_count" /\ OnePackage) =>
         result.n = Cardinality({slot[x].core : x \in Online})

(* All files of one call are below the same root, also if another thread   *)
(* calls set_procfs_root between two of them.                              *)
OneRoot == Cardinality(roots) <= 1

(* Every call returns, however its two hwmon streams are interleaved, once *)
(* devices stop to come and go.                                            *)
CallReturns == op # "none" ~> result # NoResult

=============================================================================
