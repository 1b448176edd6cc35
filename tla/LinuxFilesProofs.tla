-------------------------- MODULE LinuxFilesProofs --------------------------
(***************************************************************************)
(* Proofs about LinuxFiles, for any number of slots and devices and any    *)
(* number of changes during a call; and, at the end, about VirtDetect, for *)
(* machines whose sources show anything in any combination.                *)
(***************************************************************************)
EXTENDS LinuxFiles, VirtDetect, FiniteSetTheorems, TLAPS

----------------------------------------------------------------------------
(* The inductive invariant, in named parts.                                *)

(* The states in which a stream works on the files of one slot, those in   *)
(* which it goes from slot to slot, and those between its listing and its  *)
(* end.                                                                    *)
Busy == {"read", "trips"}
Walking == {"next"} \union Busy
Underway == {"device"} \union Walking

(* The streams that read the rows of a table. *)
RowStreams == {"stat", "net", "diskstats", "mounts"}

PcsOf(s) ==
  CASE s = "hwmon"        -> {"wait", "list", "next", "read", "end"}
    [] s = "hwmon_device" -> {"wait", "list", "next", "device", "read", "end"}
    [] s = "thermal_zone" -> {"wait", "list", "next", "read", "trips", "end"}
    [] s \in {"cpufreq", "core_id"} ->
         {"wait", "list", "next", "read", "end", "failed"}
    [] s = "logical"      -> {"wait", "sysconf", "cpuinfo", "stat", "failed"}
    [] OTHER              -> {"wait", "list", "next", "end", "failed"}

(* The streams that the call may run. *)
Runs(s) == /\ op \in Ops
           /\ s \in StreamsOf(op) \/ (s = "thermal_zone" /\ op = "temperatures")

Shape(r) == r = [pc |-> r.pc, todo |-> r.todo, inside |-> r.inside,
                 cur |-> r.cur, pending |-> r.pending, have |-> r.have]

(* A stream that runs belongs to the call, and works on slots of its kind; *)
(* if its directory is missing, it has ended with an error.                *)
StreamOK(s) ==
  /\ Shape(st[s])
  /\ st[s].pc \in PcsOf(s)
  /\ st[s].pc # "wait" => Runs(s)
  /\ st[s].todo \subseteq Slots[Kind[s]]
  /\ st[s].inside \subseteq st[s].todo
  /\ st[s].pc \in Busy => st[s].cur \in Slots[Kind[s]]
  /\ st[s].pc \notin Underway => st[s].todo = {}
  /\ (Kind[s] \notin class /\ st[s].pc \notin {"wait", "list"}) =>
       st[s].pc = "end" /\ <<s, "class">> \in errors

StOK == st = [s \in Streams |-> st[s]] /\ \A s \in Streams : StreamOK(s)

SlotsOK == /\ slot = [x \in Slot |-> slot[x]] /\ seen = [x \in Slot |-> seen[x]]
           /\ \A k \in DOMAIN Slots : \A x \in Slots[k] :
                slot[x] \in Devices[k] \union {Empty}

CallOK == /\ op \in Ops \union {"none"}
          /\ op = "none" => /\ out = {} /\ errors = {} /\ touched = {}
                            /\ known = {} /\ result = NoResult
          /\ op \in Ops => /\ class \subseteq KindsOf(op)
                           /\ op # "temperatures" => class = KindsOf(op)

HistoryOK == /\ touched \subseteq Slot /\ changes \in 0 .. MaxChanges
             /\ result.kind \in {"none", "Ok", "Err", "None"}
             /\ class \subseteq DOMAIN Slots
             /\ drivers \subseteq FileSystems \union NoDev
             /\ Mounted(slot) \subseteq drivers

(* Files were opened below the root that is in the cell. *)
RootOK == /\ root \in {"unset", "default", "custom"}
          /\ roots \subseteq {root} \ {"unset"}

OutOK == \A i \in out :
           /\ i = Item(i.stream, i.slot, i.have)
           /\ i.stream \in Streams /\ i.slot \in Slots[Kind[i.stream]]
           /\ st[i.stream].pc \notin {"wait", "list"}

(* Streams that read a fixed list of files for each slot, with the files   *)
(* without which there is no item.                                         *)
ReadWhole == {"hwmon", "hwmon_device", "cpufreq", "core_id"}

FilesOf(s) == CASE s = "cpufreq" -> {"cur", "max", "min"}
                [] s = "core_id" -> {"core_id"}
                [] OTHER         -> SensorFiles(s)

Needs(s) == CASE s = "cpufreq" -> {"cur"}
              [] s = "core_id" -> {"core_id"}
              [] OTHER         -> Needed(s)

ItemsOf(s, x) == {i \in out : i.stream = s /\ i.slot = x}

(* The slots that a stream has still to deal with. *)
OpenSlots(s) == st[s].todo \union (IF st[s].pc \in Busy THEN {st[s].cur} ELSE {})

Fresh(s, x) == ItemsOf(s, x) = {} /\ <<s, x>> \notin errors

(* What a stream has made of a slot that nobody has touched. *)
Handled(s, x) ==
  /\ (slot[x] = Empty \/ ~Contributes(s, x)) =>
       /\ ItemsOf(s, x) = {}
       /\ (s = "cpufreq" /\ slot[x] # Empty) =>
            ~(x \in Globbed /\ "cpufreq" \in slot[x].files)
  /\ (slot[x] # Empty /\ Contributes(s, x)) =>
       /\ <<s, x>> \notin errors
       /\ ItemsOf(s, x) = {Item(s, x, Of(s, slot[x]) \X {slot[x].id})}

(* A sensor that the listing of its directory has shown. *)
Found(s, d) ==
  /\ s = "hwmon" => "input" \in d.files
  /\ s = "hwmon_device" => {"device", "device/input"} \subseteq d.files

(* What a stream has read so far of the slot it is working on. *)
Reading(s, r, d) ==
  /\ (s \in ReadWhole /\ r.pc = "read") =>
       /\ r.pending \subseteq FilesOf(s)
       /\ Needs(s) \ r.pending \subseteq d.files
       /\ r.have = ((FilesOf(s) \ r.pending) \intersect d.files) \X {d.id}
  /\ Found(s, d)
  /\ (s = "thermal_zone" /\ r.pc = "read") =>
       /\ r.pending \subseteq {"temp", "type"}
       /\ {"temp", "type"} \ r.pending \subseteq d.files
       /\ r.have = ({"temp", "type"} \ r.pending) \X {d.id}
  /\ (s = "thermal_zone" /\ r.pc = "trips") =>
       /\ {"temp", "type"} \subseteq d.files
       /\ r.pending \subseteq d.trips
       /\ \A t \in d.trips \ r.pending : t # "passive" => t \in d.files
       /\ r.have = ({"temp", "type"} \union ((d.trips \ r.pending) \ {"passive"}))
                   \X {d.id}

(* A slot that nobody has touched is fresh as long as it is open, and what *)
(* was read of it is what the device has; then it has been handled.        *)
SlotOK(s, x) ==
  /\ st[s].pc \in {"wait", "list"} => Fresh(s, x)
  /\ x \in OpenSlots(s) => Fresh(s, x) /\ x \in Listed(s)
  /\ (st[s].pc \in Underway \union {"end"} /\ x \notin OpenSlots(s)) => Handled(s, x)
  /\ (st[s].pc # "device" /\ x \in st[s].inside) => Found(s, slot[x])
  /\ (st[s].pc \in Busy /\ st[s].cur = x) => Reading(s, st[s], slot[x])

StreamIsExact(s) == Kind[s] \in class =>
                      \A x \in Slots[Kind[s]] \ touched : SlotOK(s, x)

SlotsAreHandled == \A s \in Streams : StreamIsExact(s)

(* The zones are asked after hwmon, and only if hwmon has said nothing. *)
ZonesOK ==
  st["thermal_zone"].pc # "wait" =>
    /\ st["hwmon"].pc = "end" /\ st["hwmon_device"].pc = "end"
    /\ \A i \in out : i.stream = "thermal_zone"
    /\ \A x \in Slots["hwmon"] \ touched :
         ~Contributes("hwmon", x) /\ ~Contributes("hwmon_device", x)

(* There is a reason to pass over the zones: a hwmon that came or went, or *)
(* a sensor.                                                               *)
Excused == \E x \in Slots["hwmon"] : x \in touched \/ IsSensor(x)

(* Items and errors of hwmon come from such a device, and a directory that *)
(* was seen and is opened next is there, unless it has been touched.       *)
SaidOK ==
  /\ ("hwmon" \in class /\ op = "temperatures" /\ st["thermal_zone"].pc = "wait")
       => out \union errors = {} \/ Excused
  /\ st["hwmon_device"].pc = "device" =>
       \E y \in st["hwmon_device"].inside : y \in touched \/ Has(y, "device")

(* The rows of a table that was read are those of the devices that stay;   *)
(* the file systems that were read contain those of the mounts that stay,  *)
(* although a mount may have come in between.                              *)
MountsOK ==
  /\ \A s \in RowStreams : st[s].pc = "next" =>
       \A x \in Slots[Kind[s]] \ touched : seen[x] = slot[x]
  /\ st["mounts"].pc \notin {"wait", "list", "failed"} => known # {}
  /\ \A x \in Slots["mount"] \ touched :
       (known # {} /\ slot[x] # Empty) =>
         (slot[x].fs \in known <=> (slot[x].fs \notin NoDev \/ slot[x].fs = "zfs"))

(* A number that was returned is still the one that the items give. *)
AnswerOK ==
  /\ (result.kind = "Ok" /\ op = "frequency") =>
       /\ st["cpufreq"].pc = "end" /\ out # {}
       /\ result.n = Total("cur") \div Cardinality(out)
       /\ result.lo = Total("min") \div Cardinality(out)
       /\ result.hi = Total("max") \div Cardinality(out)
  /\ (result.kind = "Ok" /\ op = "physical_count") =>
       st["core_id"].pc = "end" /\ result.n = Cardinality(Cores)
  /\ (result.kind = "Ok" /\ op = "temperatures" /\ st["thermal_zone"].pc = "wait")
       => out \union errors # {}

Inv == /\ StOK /\ SlotsOK /\ CallOK /\ HistoryOK /\ RootOK /\ OutOK
       /\ SlotsAreHandled /\ ZonesOK /\ SaidOK /\ MountsOK /\ AnswerOK

----------------------------------------------------------------------------
(* The streams and the kinds of devices.                                   *)
LEMMA StreamsAre ==
  Streams = {"hwmon", "hwmon_device", "thermal_zone", "cpufreq", "core_id",
             "stat", "logical", "diskstats", "mounts", "net"}
BY DEF Streams, Kind

LEMMA KindIs ==
  /\ Kind["hwmon"] = "hwmon" /\ Kind["hwmon_device"] = "hwmon"
  /\ Kind["thermal_zone"] = "zone" /\ Kind["cpufreq"] = "cpu"
  /\ Kind["core_id"] = "cpu" /\ Kind["stat"] = "cpu" /\ Kind["logical"] = "cpu"
  /\ Kind["diskstats"] = "disk" /\ Kind["mounts"] = "mount" /\ Kind["net"] = "nic"
BY DEF Kind

LEMMA KindsAre == /\ DOMAIN Slots = {"hwmon", "zone", "cpu", "disk", "mount", "nic"}
                  /\ DOMAIN Devices = DOMAIN Slots
                  /\ \A s \in Streams : Kind[s] \in DOMAIN Slots
                  /\ \A k \in DOMAIN Slots : Slots[k] \subseteq Slot
<1>1. {Kind[s] : s \in Streams} = {"hwmon", "zone", "cpu", "disk", "mount", "nic"}
  BY StreamsAre, KindIs
<1>2. DOMAIN Slots = {Kind[s] : s \in Streams} /\ DOMAIN Devices = DOMAIN Slots
  BY FilesAssumption
<1>3. \A k \in DOMAIN Slots : Slots[k] \subseteq Slot
  BY DEF Slot
<1> QED
  BY <1>1, <1>2, <1>3

(* The call that a stream belongs to. *)
LEMMA RunsOf ==
  ASSUME NEW s \in Streams, Runs(s)
  PROVE  /\ s \in {"hwmon", "hwmon_device", "thermal_zone"} <=> op = "temperatures"
         /\ s = "cpufreq" <=> op = "frequency"
         /\ s = "core_id" <=> op = "physical_count"
         /\ s = "logical" <=> op = "logical_count"
         /\ s = "mounts" <=> op = "partitions_physical"
         /\ s = "stat" <=> op = "times"
         /\ s = "diskstats" <=> op = "io_counters_physical"
         /\ s = "net" <=> op = "net_io_counters"
BY StreamsAre DEF Runs, StreamsOf, Ops

----------------------------------------------------------------------------
(* Steps of one stream.                                                    *)

LEMMA Steady ==
  ASSUME Unread
  PROVE  /\ slot' = slot /\ class' = class /\ op' = op /\ drivers' = drivers
         /\ touched' = touched /\ changes' = changes /\ known' = known
         /\ result' = result /\ seen' = seen /\ root' = root /\ roots' = roots
BY DEF Unread, Still

(* A device contributes what it did while nobody touches its slot. *)
LEMMA SameContribution ==
  ASSUME NEW s, NEW x, slot'[x] = slot[x]
  PROVE  Contributes(s, x)' <=> Contributes(s, x)
BY DEF Contributes

LEMMA SameSlot ==
  ASSUME NEW s \in Streams, NEW x, slot'[x] = slot[x], st'[s] = st[s],
         ItemsOf(s, x)' = ItemsOf(s, x), <<s, x>> \in errors' <=> <<s, x>> \in errors,
         SlotOK(s, x)
  PROVE  SlotOK(s, x)'
<1>1. OpenSlots(s)' = OpenSlots(s)
  BY DEF OpenSlots
<1>2. Fresh(s, x)' <=> Fresh(s, x)
  BY DEF Fresh
<1>3. x \in Listed(s)' <=> x \in Listed(s)
  BY DEF Listed
<1>4. Handled(s, x) => Handled(s, x)'
  BY SameContribution DEF Handled
<1>5. /\ Reading(s, st[s], slot[x]) => Reading(s, st[s], slot[x])'
      /\ Found(s, slot[x]) => Found(s, slot[x])'
  BY DEF Reading, Found
<1> QED
  BY <1>1, <1>2, <1>3, <1>4, <1>5 DEF SlotOK

(* One stream moves; it may yield an item or an error for one of its own   *)
(* slots.  What is left to show is that it keeps its own part.             *)
YieldsFor(s) == \/ out' = out
                \/ \E x \in Slots[Kind[s]] : \E h : out' = out \union {Item(s, x, h)}

FailsFor(s) == errors' = errors \/ \E x : errors' = errors \union {<<s, x>>}

LEMMA OthersKeep ==
  ASSUME Inv, NEW s \in Streams, NEW r, Move(s, r), YieldsFor(s), FailsFor(s),
         UNCHANGED <<slot, class, touched>>,
         NEW t \in Streams \ {s}
  PROVE  /\ st'[t] = st[t]
         /\ (<<t, "class">> \in errors) => (<<t, "class">> \in errors')
         /\ StreamIsExact(t)'
<1>1. st'[t] = st[t]
  BY DEF Inv, StOK, Move
<1>2. \A x : ItemsOf(t, x)' = ItemsOf(t, x)
  BY DEF YieldsFor, ItemsOf, Item
<1>3. \A x : <<t, x>> \in errors' <=> <<t, x>> \in errors
  BY DEF FailsFor
<1>4. ASSUME NEW x \in Slots[Kind[t]] \ touched, Kind[t] \in class
      PROVE  SlotOK(t, x)'
  <2>1. SlotOK(t, x)
    BY <1>4 DEF Inv, SlotsAreHandled, StreamIsExact
  <2> QED
    BY <1>1, <1>2, <1>3, <2>1, SameSlot
<1> QED
  BY <1>1, <1>3, <1>4 DEF StreamIsExact

LEMMA MoveStep ==
  ASSUME Inv, NEW s \in Streams, NEW r, Move(s, r), Still, UNCHANGED <<known, result>>,
         seen' = [x \in Slot |-> seen'[x]], RootOK', MountsOK', SaidOK',
         st[s].pc \notin {"wait", "end"}, YieldsFor(s), FailsFor(s),
         StreamOK(s)', r.pc \notin {"wait", "list"}, StreamIsExact(s)'
  PROVE  Inv'
<1>1. /\ slot' = slot /\ class' = class /\ op' = op /\ drivers' = drivers
      /\ touched' = touched /\ changes' = changes /\ known' = known
      /\ result' = result
  BY DEF Still
<1>2. st' = [st EXCEPT ![s] = r] /\ st = [t \in Streams |-> st[t]]
  BY DEF Move, Inv, StOK
<1>3. st'[s] = r /\ \A t \in Streams \ {s} : st'[t] = st[t]
  BY <1>2
<1>4. Runs(s)
  BY DEF Inv, StOK, StreamOK
<1>5. StOK'
  <2>1. ASSUME NEW t \in Streams \ {s} PROVE StreamOK(t)'
    <3>1. StreamOK(t)
      BY DEF Inv, StOK
    <3>2. <<t, "class">> \in errors => <<t, "class">> \in errors'
      BY OthersKeep, <1>1
    <3> QED
      BY <1>1, <1>3, <3>1, <3>2 DEF StreamOK, Runs
  <2>2. st' = [t \in Streams |-> st'[t]]
    BY <1>2
  <2> QED
    BY <2>1, <2>2 DEF StOK
<1>6. SlotsOK' /\ HistoryOK'
  BY <1>1 DEF Inv, SlotsOK, HistoryOK, Mounted
<1>7. CallOK'
  <2>1. op \in Ops /\ op # "none"
    BY <1>4 DEF Runs, Ops
  <2> QED
    BY <1>1, <2>1 DEF Inv, CallOK
<1>8. OutOK'
  <2>1. ASSUME NEW i \in out' PROVE /\ i = Item(i.stream, i.slot, i.have)
                                    /\ i.stream \in Streams
                                    /\ i.slot \in Slots[Kind[i.stream]]
                                    /\ st'[i.stream].pc \notin {"wait", "list"}
    <3>1. CASE i \in out
      <4>1. i.stream \in Streams /\ st[i.stream].pc \notin {"wait", "list"}
        BY <3>1 DEF Inv, OutOK
      <4>2. st'[i.stream].pc \notin {"wait", "list"}
        BY <1>3, <4>1
      <4> QED
        BY <3>1, <4>1, <4>2 DEF Inv, OutOK
    <3>2. CASE i \notin out
      <4>1. PICK x \in Slots[Kind[s]] : \E h : i = Item(s, x, h)
        BY <2>1, <3>2 DEF YieldsFor
      <4> QED
        BY <1>3, <4>1 DEF Item
    <3> QED
      BY <3>1, <3>2
  <2> QED
    BY <2>1 DEF OutOK
<1>9. SlotsAreHandled'
  BY OthersKeep, <1>1 DEF SlotsAreHandled
<1>10. ZonesOK'
  <2>1. st'["thermal_zone"].pc # "wait" => st["thermal_zone"].pc # "wait"
    BY <1>3, StreamsAre
  <2>2. ASSUME st["thermal_zone"].pc # "wait" PROVE s = "thermal_zone"
    <3>1. StreamOK("thermal_zone")
      BY StreamsAre DEF Inv, StOK
    <3>2. op = "temperatures"
      BY <2>2, <3>1, RunsOf, StreamsAre DEF StreamOK
    <3>3. s \in {"hwmon", "hwmon_device", "thermal_zone"}
      BY <1>4, <3>2, RunsOf
    <3> QED
      BY <2>2, <3>3 DEF Inv, ZonesOK
  <2>3. ASSUME st["thermal_zone"].pc # "wait" PROVE ZonesOK'
    <3>1. \A i \in out' : i.stream = "thermal_zone"
      BY <2>2, <2>3 DEF Inv, ZonesOK, YieldsFor, Item
    <3>2. st'["hwmon"].pc = "end" /\ st'["hwmon_device"].pc = "end"
      BY <1>3, <2>2, <2>3, StreamsAre DEF Inv, ZonesOK
    <3>3. \A x, t : Contributes(t, x)' <=> Contributes(t, x)
      BY <1>1, SameContribution
    <3> QED
      BY <1>1, <2>3, <3>1, <3>2, <3>3 DEF Inv, ZonesOK
  <2> QED
    BY <2>1, <2>3 DEF ZonesOK
<1>11. AnswerOK'
  <2>1. result.kind = "Ok" => op # "frequency" /\ op # "physical_count"
    BY <1>4, RunsOf DEF Inv, AnswerOK
  <2>2. st'["thermal_zone"].pc = "wait" => st["thermal_zone"].pc = "wait"
    BY <1>3, StreamsAre
  <2>3. out \subseteq out' /\ errors \subseteq errors'
    BY DEF YieldsFor, FailsFor
  <2> QED
    BY <1>1, <2>1, <2>2, <2>3 DEF Inv, AnswerOK
<1> QED
  BY <1>5, <1>6, <1>7, <1>8, <1>9, <1>10, <1>11 DEF Inv

(* A stream that has been listed moves on. *)
LEMMA StreamStep ==
  ASSUME Inv, NEW s \in Streams, NEW r, Move(s, r), Unread,
         st[s].pc \in Underway, YieldsFor(s), FailsFor(s),
         Shape(r), r.pc \in PcsOf(s) \ {"wait", "list"},
         r.todo \subseteq Slots[Kind[s]], r.inside \subseteq r.todo,
         r.pc \in Busy => r.cur \in Slots[Kind[s]],
         r.pc \notin Underway => r.todo = {},
         s \in RowStreams => st[s].pc = "next",
         s \in {"hwmon", "hwmon_device"} => UNCHANGED <<out, errors>> \/ Excused,
         (s = "hwmon_device" /\ r.pc = "device") =>
           \E y \in r.inside : y \in touched \/ Has(y, "device"),
         StreamIsExact(s)'
  PROVE  Inv'
<1>1. /\ slot' = slot /\ class' = class /\ op' = op /\ touched' = touched
      /\ known' = known /\ result' = result /\ seen' = seen
      /\ root' = root /\ roots' = roots /\ Still
  BY Steady DEF Unread
<1>2. st' = [st EXCEPT ![s] = r] /\ st = [t \in Streams |-> st[t]]
  BY DEF Move, Inv, StOK
<1>3. st'[s] = r /\ \A t \in Streams \ {s} : st'[t] = st[t]
  BY <1>2
<1>4. st[s].pc \notin {"wait", "list", "end", "failed"}
  BY DEF Underway, Walking, Busy
<1>5. Runs(s) /\ Kind[s] \in class /\ StreamOK(s)
  BY <1>4 DEF Inv, StOK, StreamOK
<1>6. StreamOK(s)'
  BY <1>1, <1>3, <1>5 DEF StreamOK, Runs
<1>7. RootOK' /\ seen' = [x \in Slot |-> seen'[x]]
  BY <1>1 DEF Inv, RootOK, SlotsOK
<1>8. MountsOK'
  <2>1. /\ st'["mounts"].pc \notin {"wait", "list", "failed"} =>
             st["mounts"].pc \notin {"wait", "list", "failed"}
        /\ \A t \in RowStreams : st'[t].pc = "next" => st[t].pc = "next"
    BY <1>3, <1>4, StreamsAre DEF RowStreams
  <2> QED
    BY <1>1, <2>1 DEF Inv, MountsOK
<1>9. SaidOK'
  <2>1. Excused => Excused'
    BY <1>1 DEF Excused, IsSensor
  <2>2. ASSUME "hwmon" \in class, op = "temperatures",
               st'["thermal_zone"].pc = "wait"
        PROVE  out' \union errors' = {} \/ Excused'
    <3>1. s # "thermal_zone" /\ st["thermal_zone"].pc = "wait"
      BY <1>3, <2>2, StreamsAre
    <3>2. s \in {"hwmon", "hwmon_device"}
      BY <1>5, <2>2, <3>1, RunsOf
    <3> QED
      BY <2>1, <2>2, <3>1, <3>2 DEF Inv, SaidOK
  <2>3. ASSUME st'["hwmon_device"].pc = "device"
        PROVE  \E y \in st'["hwmon_device"].inside :
                 y \in touched' \/ Has(y, "device")'
    BY <1>1, <1>3, <2>3, StreamsAre DEF Inv, SaidOK, Has
  <2> QED
    BY <1>1, <2>2, <2>3 DEF SaidOK
<1> QED
  BY <1>1, <1>4, <1>6, <1>7, <1>8, <1>9, MoveStep

(* What is known of the slots that a stream has open. *)
LEMMA OpenFacts ==
  ASSUME Inv, NEW s \in Streams, st[s].pc \in Underway, NEW x \in OpenSlots(s)
  PROVE  /\ x \in Slots[Kind[s]] /\ Kind[s] \in class /\ Runs(s) /\ Shape(st[s])
         /\ x \notin touched =>
              /\ slot[x] # Empty /\ Fresh(s, x)
              /\ s \in {"cpufreq", "core_id"} => x \in Globbed /\ s \in slot[x].files
              /\ (st[s].pc \in Busy /\ st[s].cur = x) => Reading(s, st[s], slot[x])
              /\ (st[s].pc # "device" /\ x \in st[s].inside) => Found(s, slot[x])
<1>1. StreamOK(s) /\ StreamIsExact(s)
  BY DEF Inv, StOK, SlotsAreHandled
<1>2. st[s].pc \notin {"wait", "list", "end"}
  BY DEF Underway, Walking, Busy
<1>3. x \in Slots[Kind[s]] /\ Kind[s] \in class /\ Runs(s) /\ Shape(st[s])
  BY <1>1, <1>2 DEF StreamOK, OpenSlots
<1>4. ASSUME x \notin touched
      PROVE  /\ Fresh(s, x) /\ x \in Listed(s)
             /\ (st[s].pc \in Busy /\ st[s].cur = x) => Reading(s, st[s], slot[x])
             /\ (st[s].pc # "device" /\ x \in st[s].inside) => Found(s, slot[x])
  BY <1>1, <1>3, <1>4 DEF StreamIsExact, SlotOK
<1>5. x \in Listed(s) =>
        /\ slot[x] # Empty
        /\ s \in {"cpufreq", "core_id"} => x \in Globbed /\ s \in slot[x].files
  BY DEF Listed
<1> QED
  BY <1>3, <1>4, <1>5

LEMMA RestIs ==
  ASSUME NEW s, NEW x
  PROVE  Rest(s, x) = [pc |-> "next", todo |-> st[s].todo \ {x},
                       inside |-> st[s].inside \ {x}, cur |-> "none",
                       pending |-> {}, have |-> {}]
<1> DEFINE t == st[s].todo \ {x}
           i == st[s].inside \ {x}
           a == [pc |-> "next", todo |-> {}, inside |-> {}, cur |-> "none",
                 pending |-> {}, have |-> {}]
           b == [pc |-> "next", todo |-> t, inside |-> {}, cur |-> "none",
                 pending |-> {}, have |-> {}]
<1>1. At("next") = a
  BY DEF At
<1>2. [a EXCEPT !.todo = t] = b
  OBVIOUS
<1>3. [b EXCEPT !.inside = i] =
        [pc |-> "next", todo |-> t, inside |-> i, cur |-> "none", pending |-> {},
         have |-> {}]
  BY SMTT(60)
<1>4. \A q : [q EXCEPT !.todo = t, !.inside = i] =
              [[q EXCEPT !.todo = t] EXCEPT !.inside = i]
  OBVIOUS
<1>5. Rest(s, x) = [At("next") EXCEPT !.todo = t, !.inside = i]
  BY DEF Rest
<1> HIDE DEF a, b, t, i
<1>6. Rest(s, x) = [pc |-> "next", todo |-> t, inside |-> i, cur |-> "none",
                    pending |-> {}, have |-> {}]
  BY <1>1, <1>2, <1>3, <1>4, <1>5
<1> QED
  BY <1>6 DEF t, i

(* A sensor is read, or its hwmon has been touched. *)
LEMMA ReadExcused ==
  ASSUME Inv, NEW s \in {"hwmon", "hwmon_device"}, st[s].pc = "read"
  PROVE  Excused
<1>1. s \in Streams /\ Kind[s] = "hwmon"
  BY StreamsAre, KindIs
<1>2. st[s].cur \in OpenSlots(s) /\ st[s].pc \in Underway /\ st[s].pc \in Busy
  BY DEF OpenSlots, Underway, Walking, Busy
<1>3. /\ st[s].cur \in Slots["hwmon"]
      /\ st[s].cur \notin touched => Reading(s, st[s], slot[st[s].cur])
  BY <1>1, <1>2, OpenFacts
<1>4. st[s].cur \notin touched => IsSensor(st[s].cur)
  BY <1>3 DEF Reading, Found, IsSensor
<1> QED
  BY <1>3, <1>4 DEF Excused

(* A stream has dealt with a slot and goes on to the next one. *)
LEMMA HandleStep ==
  ASSUME Inv, NEW s \in Streams, st[s].pc \in Walking, NEW x \in OpenSlots(s),
         st[s].pc \in Busy => st[s].cur = x,
         Move(s, Rest(s, x)), Unread,
         out' = out \/ \E h : out' = out \union {Item(s, x, h)},
         errors' = errors \/ errors' = errors \union {<<s, x>>},
         s \in RowStreams => st[s].pc = "next",
         s \in {"hwmon", "hwmon_device"} => st[s].pc = "read",
         x \notin touched => Handled(s, x)'
  PROVE  Inv'
<1> DEFINE r == Rest(s, x)
<1>1. r = [pc |-> "next", todo |-> st[s].todo \ {x},
           inside |-> st[s].inside \ {x}, cur |-> "none",
           pending |-> {}, have |-> {}]
  BY RestIs
<1>2. x \in Slots[Kind[s]] /\ Kind[s] \in class /\ Runs(s)
  BY OpenFacts DEF Underway
<1>3. slot' = slot /\ class' = class /\ op' = op /\ touched' = touched
  BY Steady
<1>4. YieldsFor(s) /\ FailsFor(s)
  BY <1>2 DEF YieldsFor, FailsFor
<1>5. StreamOK(s) /\ st = [t \in Streams |-> st[t]] /\ st'[s] = r
  BY DEF Inv, StOK, Move
<1>6. /\ Shape(r) /\ r.pc = "next" /\ r.todo \subseteq Slots[Kind[s]]
      /\ r.inside \subseteq r.todo /\ r.inside = st[s].inside \ {x}
  BY <1>1, <1>5 DEF Shape, StreamOK
<1>7. "next" \in PcsOf(s)
  BY <1>5 DEF StreamOK, PcsOf, Walking, Busy
<1>8. OpenSlots(s)' = OpenSlots(s) \ {x}
  BY <1>1, <1>5 DEF OpenSlots, Busy
<1>9. ASSUME NEW y \in Slots[Kind[s]] \ touched
      PROVE  SlotOK(s, y)'
  <2>1. SlotOK(s, y)
    BY <1>2, <1>9 DEF Inv, SlotsAreHandled, StreamIsExact
  <2>2. CASE y = x
    BY <1>1, <1>5, <1>6, <1>8, <1>9, <2>2 DEF SlotOK, Busy
  <2>3. CASE y # x
    <3>1. ItemsOf(s, y)' = ItemsOf(s, y)
      BY <2>3 DEF ItemsOf, Item
    <3>2. <<s, y>> \in errors' <=> <<s, y>> \in errors
      BY <2>3
    <3>3. Fresh(s, y)' <=> Fresh(s, y)
      BY <3>1, <3>2 DEF Fresh
    <3>4. Handled(s, y) => Handled(s, y)'
      BY <1>3, <3>1, <3>2, SameContribution DEF Handled
    <3>5. Listed(s)' = Listed(s)
      BY <1>3 DEF Listed
    <3>6. Found(s, slot[y]) => Found(s, slot[y])'
      BY <1>3 DEF Found
    <3>7. st[s].pc # "device"
      BY DEF Walking, Busy
    <3> QED
      BY <1>1, <1>5, <1>6, <1>8, <2>1, <2>3, <3>3, <3>4, <3>5, <3>6, <3>7
         DEF SlotOK, Busy, Walking, Underway
  <2> QED
    BY <2>2, <2>3
<1>10. StreamIsExact(s)'
  BY <1>3, <1>9 DEF StreamIsExact
<1>11. s \in {"hwmon", "hwmon_device"} => Excused
  BY ReadExcused
<1> HIDE DEF r
<1>12. Move(s, r)
  BY DEF r
<1> QED
  BY <1>4, <1>6, <1>7, <1>10, <1>11, <1>12, StreamStep DEF Busy, Walking, Underway

(* Three ways to deal with a slot: it is left out, its device lacks a file *)
(* that is needed, or its item is yielded.                                 *)
LEMMA SkipStep ==
  ASSUME Inv, NEW s \in Streams, st[s].pc \in Walking, NEW x \in OpenSlots(s),
         st[s].pc \in Busy => st[s].cur = x,
         s \in RowStreams => st[s].pc = "next",
         s \in {"hwmon", "hwmon_device"} => st[s].pc = "read",
         Goto(s, Rest(s, x)), Unread, s # "cpufreq",
         x \notin touched => ~Contributes(s, x)
  PROVE  Inv'
<1>1. x \notin touched => Fresh(s, x)
  BY OpenFacts DEF Underway
<1>2. out' = out /\ errors' = errors /\ slot' = slot /\ Move(s, Rest(s, x))
  BY Steady DEF Goto
<1>3. x \notin touched => Handled(s, x)'
  BY <1>1, <1>2, SameContribution DEF Handled, Fresh, ItemsOf
<1> QED
  BY <1>2, <1>3, HandleStep

LEMMA ThrowStep ==
  ASSUME Inv, NEW s \in Streams, st[s].pc \in Walking, NEW x \in OpenSlots(s),
         st[s].pc \in Busy => st[s].cur = x,
         s \in RowStreams => st[s].pc = "next",
         s \in {"hwmon", "hwmon_device"} => st[s].pc = "read",
         Throw(s, x, Rest(s, x)), Unread,
         s \notin {"cpufreq", "core_id"},
         x \notin touched => ~Contributes(s, x)
  PROVE  Inv'
<1>1. Runs(s) /\ (x \notin touched => Fresh(s, x))
  BY OpenFacts DEF Underway
<1>2. op \notin {"frequency", "physical_count"}
  BY <1>1, RunsOf
<1>3. /\ out' = out /\ errors' = errors \union {<<s, x>>} /\ slot' = slot
      /\ Move(s, Rest(s, x))
  BY <1>2, Steady DEF Throw, Move
<1>4. x \notin touched => Handled(s, x)'
  BY <1>1, <1>3, SameContribution DEF Handled, Fresh, ItemsOf
<1> QED
  BY <1>3, <1>4, HandleStep

LEMMA YieldStep ==
  ASSUME Inv, NEW s \in Streams, st[s].pc \in Walking, NEW x \in OpenSlots(s),
         st[s].pc \in Busy => st[s].cur = x,
         s \in RowStreams => st[s].pc = "next",
         s \in {"hwmon", "hwmon_device"} => st[s].pc = "read",
         NEW h, Yield(s, Item(s, x, h), Rest(s, x)), Unread,
         x \notin touched =>
           Contributes(s, x) /\ h = Of(s, slot[x]) \X {slot[x].id}
  PROVE  Inv'
<1>1. x \notin touched => Fresh(s, x) /\ slot[x] # Empty
  BY OpenFacts DEF Underway
<1>2. /\ out' = out \union {Item(s, x, h)} /\ errors' = errors /\ slot' = slot
      /\ Move(s, Rest(s, x))
  BY Steady DEF Yield
<1>3. Item(s, x, h).stream = s /\ Item(s, x, h).slot = x
  BY DEF Item
<1>4. x \notin touched => ItemsOf(s, x)' = {Item(s, x, h)}
  BY <1>1, <1>2, <1>3 DEF ItemsOf, Fresh
<1>5. x \notin touched => Handled(s, x)'
  BY <1>1, <1>2, <1>4, SameContribution DEF Handled, Fresh
<1> QED
  BY <1>2, <1>5, HandleStep

(* A stream goes on with the slot it has open. *)
LEMMA WorkStep ==
  ASSUME Inv, NEW s \in Streams, st[s].pc \in Walking, NEW x \in OpenSlots(s),
         st[s].pc \in Busy => st[s].cur = x, s \notin RowStreams,
         NEW r, Goto(s, r), Unread,
         Shape(r), r.pc \in PcsOf(s) \intersect Busy, r.cur = x,
         r.todo = st[s].todo \ {x} \/ (st[s].pc \in Busy /\ r.todo = st[s].todo),
         r.inside \subseteq r.todo, r.inside \subseteq st[s].inside,
         x \notin touched => Reading(s, r, slot[x])
  PROVE  Inv'
<1>1. x \in Slots[Kind[s]] /\ Kind[s] \in class /\ Runs(s)
  BY OpenFacts DEF Underway
<1>2. slot' = slot /\ class' = class /\ op' = op /\ touched' = touched
  BY Steady
<1>3. out' = out /\ errors' = errors /\ Move(s, r)
  BY DEF Goto
<1>4. StreamOK(s) /\ st = [t \in Streams |-> st[t]] /\ st'[s] = r
  BY <1>3 DEF Inv, StOK, Move
<1>5. r.todo \subseteq Slots[Kind[s]] /\ r.pc \in Walking
  BY <1>4 DEF StreamOK, Walking
<1>6. OpenSlots(s)' = OpenSlots(s)
  BY <1>4 DEF OpenSlots
<1>7. ASSUME NEW y \in Slots[Kind[s]] \ touched
      PROVE  SlotOK(s, y)'
  <2>1. SlotOK(s, y)
    BY <1>1, <1>7 DEF Inv, SlotsAreHandled, StreamIsExact
  <2>2. ItemsOf(s, y)' = ItemsOf(s, y)
    BY <1>3 DEF ItemsOf
  <2>3. (Fresh(s, y)' <=> Fresh(s, y)) /\ Listed(s)' = Listed(s)
    BY <1>2, <1>3, <2>2 DEF Fresh, Listed
  <2>4. Handled(s, y) => Handled(s, y)'
    BY <1>2, <1>3, <2>2, SameContribution DEF Handled
  <2>5. (st'[s].pc \in Busy /\ st'[s].cur = y) => Reading(s, st[s], slot[y])'
    BY <1>2, <1>4, <1>7 DEF Reading, Found
  <2>6. st'[s].pc \notin {"wait", "list"}
    BY <1>4 DEF Busy
  <2>7. st[s].pc \in Underway \union {"end"} /\ st[s].pc # "device"
    BY DEF Underway, Walking, Busy
  <2>8. y \in st'[s].inside => y \in st[s].inside
    BY <1>4
  <2>9. Found(s, slot[y]) => Found(s, slot[y])'
    BY <1>2 DEF Found
  <2> QED
    BY <1>6, <2>1, <2>3, <2>4, <2>5, <2>6, <2>7, <2>8, <2>9 DEF SlotOK
<1>8. StreamIsExact(s)'
  BY <1>2, <1>7 DEF StreamIsExact
<1>9. YieldsFor(s) /\ FailsFor(s) /\ r.pc \notin {"wait", "list", "device"}
  BY <1>3 DEF YieldsFor, FailsFor, Busy
<1> QED
  BY <1>1, <1>3, <1>5, <1>8, <1>9, StreamStep DEF Walking, Underway

(* A call that is no stream itself returns the first error. *)
LEMMA FailStep ==
  ASSUME Inv, NEW s \in {"cpufreq", "core_id"}, st[s].pc \in Walking,
         NEW x \in OpenSlots(s), Throw(s, x, Rest(s, x)), Unread
  PROVE  Inv'
<1>1. s \in Streams
  BY StreamsAre
<1>2. Runs(s)
  BY <1>1, OpenFacts DEF Underway
<1>3. op \in {"frequency", "physical_count"}
  BY <1>1, <1>2, RunsOf
<1> DEFINE r == At("failed")
<1>4. out' = out /\ errors' = errors \union {<<s, x>>} /\ Move(s, r)
  BY <1>3 DEF Throw, Move
<1>5. /\ r.pc = "failed" /\ r.todo = {} /\ r.inside = {} /\ Shape(r)
  BY DEF At, Shape
<1>6. st'[s] = r
  BY <1>1, <1>4 DEF Inv, StOK, Move
<1>7. OpenSlots(s)' = {}
  BY <1>5, <1>6 DEF OpenSlots, Busy
<1>8. StreamIsExact(s)'
  BY <1>5, <1>6, <1>7 DEF StreamIsExact, SlotOK, Busy, Walking, Underway
<1>9. "failed" \in PcsOf(s)
  BY DEF PcsOf
<1>10. YieldsFor(s) /\ FailsFor(s) /\ s \notin RowStreams
  BY <1>4 DEF YieldsFor, FailsFor, RowStreams
<1> HIDE DEF r
<1> QED
  BY <1>1, <1>4, <1>5, <1>8, <1>9, <1>10, StreamStep DEF Busy, Walking, Underway

LEMMA EndStep ==
  ASSUME Inv, NEW s \in Streams, EndStream(s)
  PROVE  Inv'
<1> DEFINE r == At("end")
<1>1. /\ st[s].pc = "next" /\ st[s].todo = {} /\ Move(s, r) /\ Unread
      /\ out' = out /\ errors' = errors
  BY DEF EndStream, Goto
<1>2. /\ r.pc = "end" /\ r.todo = {} /\ r.inside = {} /\ Shape(r)
  BY DEF At, Shape
<1>3. st'[s] = r /\ StreamOK(s) /\ StreamIsExact(s)
  BY <1>1 DEF Inv, StOK, Move, SlotsAreHandled
<1>4. "end" \in PcsOf(s)
  BY <1>1, <1>3 DEF StreamOK, PcsOf
<1>5. OpenSlots(s)' = {} /\ OpenSlots(s) = {}
  BY <1>1, <1>2, <1>3 DEF OpenSlots, Busy
<1>6. slot' = slot /\ class' = class /\ touched' = touched
  BY <1>1, Steady
<1>7. ASSUME NEW x, Handled(s, x) PROVE Handled(s, x)'
  BY <1>1, <1>6, <1>7, SameContribution DEF Handled, ItemsOf
<1>8. StreamIsExact(s)'
  BY <1>1, <1>2, <1>3, <1>5, <1>6, <1>7
     DEF StreamIsExact, SlotOK, Busy, Walking, Underway
<1>9. YieldsFor(s) /\ FailsFor(s)
  BY <1>1 DEF YieldsFor, FailsFor
<1> HIDE DEF r
<1> QED
  BY <1>1, <1>2, <1>4, <1>8, <1>9, StreamStep DEF Busy, Walking, Underway

----------------------------------------------------------------------------
(* The steps in which one file of a slot is read.                          *)
LEMMA FilesAre ==
  /\ FilesOf("hwmon") = {"name", "input", "limits"}
  /\ Needs("hwmon") = {"name", "input"} /\ Needed("hwmon") = {"name", "input"}
  /\ FilesOf("hwmon_device") = {"device/name", "device/input", "device/limits"}
  /\ Needs("hwmon_device") = {"device/name", "device/input"}
  /\ Needed("hwmon_device") = {"device/name", "device/input"}
  /\ Limits("hwmon") = "limits" /\ Limits("hwmon_device") = "device/limits"
  /\ SensorFiles("hwmon") = FilesOf("hwmon")
  /\ SensorFiles("hwmon_device") = FilesOf("hwmon_device")
  /\ FilesOf("cpufreq") = {"cur", "max", "min"} /\ Needs("cpufreq") = {"cur"}
  /\ FilesOf("core_id") = {"core_id"} /\ Needs("core_id") = {"core_id"}
BY DEF FilesOf, Needs, Needed, Limits, SensorFiles

(* What goes into an item is what is read of a device that contributes. *)
LEMMA OfIs ==
  ASSUME NEW d
  PROVE  /\ \A s \in {"hwmon", "hwmon_device", "cpufreq"} :
              Of(s, d) = FilesOf(s) \intersect d.files
         /\ "core_id" \in d.files =>
              Of("core_id", d) = FilesOf("core_id") \intersect d.files
         /\ Of("thermal_zone", d) = {"temp", "type"} \union (d.trips \ {"passive"})
         /\ Of("diskstats", d) = {"row"} /\ Of("mounts", d) = {"row"}
         /\ Of("stat", d) = {} /\ Of("net", d) = {}
BY FilesAre DEF Of

Readers == ReadWhole \union {"thermal_zone"}

LEMMA ReadersAreStreams == /\ Readers \subseteq Streams
                           /\ Readers \intersect RowStreams = {}
                           /\ \A s \in Readers : "read" \in PcsOf(s)
<1>1. Readers = {"hwmon", "hwmon_device", "cpufreq", "core_id", "thermal_zone"}
  BY DEF Readers, ReadWhole
<1>2. \A s \in Readers : "read" \in PcsOf(s)
  BY <1>1 DEF PcsOf
<1>3. Readers \intersect RowStreams = {}
  BY <1>1 DEF RowStreams
<1> QED
  BY <1>1, <1>2, <1>3, StreamsAre

(* Each device that has what a stream needs contributes to it. *)
LEMMA ContributesIs ==
  ASSUME NEW x
  PROVE  /\ \A s \in {"hwmon", "hwmon_device"} :
              Contributes(s, x) => Needs(s) \subseteq slot[x].files
         /\ Needs("hwmon") \subseteq slot[x].files => Contributes("hwmon", x)
         /\ Contributes("hwmon_device", x) => "device" \in slot[x].files
         /\ (Needs("hwmon_device") \subseteq slot[x].files
             /\ "device" \in slot[x].files) => Contributes("hwmon_device", x)
         /\ (x \in Globbed /\ "cpufreq" \in slot[x].files
             /\ Needs("cpufreq") \subseteq slot[x].files) => Contributes("cpufreq", x)
         /\ Contributes("cpufreq", x) => x \in Globbed /\ "cpufreq" \in slot[x].files
         /\ (x \in Globbed /\ "core_id" \in slot[x].files) <=> Contributes("core_id", x)
         /\ Contributes("thermal_zone", x) <=>
              /\ {"temp", "type"} \subseteq slot[x].files
              /\ \A t \in slot[x].trips : t # "passive" => t \in slot[x].files
         /\ Contributes("diskstats", x) <=>
              {"text", "row", "block"} \subseteq slot[x].files
         /\ Contributes("mounts", x) <=>
              /\ {"text", "row", "device"} \subseteq slot[x].files
              /\ slot[x].fs \notin NoDev \/ slot[x].fs = "zfs"
         /\ \A s \in {"stat", "net"} :
              Contributes(s, x) <=> {"text", "row"} \subseteq slot[x].files
BY FilesAre DEF Contributes

(* What holds while a file of an entry is read. *)
LEMMA ReadFacts ==
  ASSUME Inv, NEW s \in Readers, st[s].pc = "read"
  PROVE  /\ s \in Streams /\ st[s].pc \in Walking /\ st[s].pc \in Busy
         /\ st[s].cur \in OpenSlots(s) /\ Shape(st[s]) /\ s \notin RowStreams
         /\ st[s].inside \subseteq st[s].todo
         /\ st[s].cur \notin touched =>
              /\ Reading(s, st[s], slot[st[s].cur])
              /\ s \in {"cpufreq", "core_id"} =>
                   st[s].cur \in Globbed /\ s \in slot[st[s].cur].files
<1>1. s \in Streams /\ st[s].pc \in Walking /\ st[s].pc \in Busy
      /\ s \notin RowStreams /\ st[s].pc \in Underway
  BY ReadersAreStreams DEF Walking, Busy, Underway
<1>2. st[s].cur \in OpenSlots(s) /\ st[s].inside \subseteq st[s].todo
  BY <1>1 DEF OpenSlots, Inv, StOK, StreamOK
<1> QED
  BY <1>1, <1>2, OpenFacts

LEMMA ExceptIs ==
  ASSUME NEW q, Shape(q), NEW p, NEW h
  PROVE  [q EXCEPT !.pending = p, !.have = h] =
           [pc |-> q.pc, todo |-> q.todo, inside |-> q.inside, cur |-> q.cur,
            pending |-> p, have |-> h]
<1> DEFINE a == [pc |-> q.pc, todo |-> q.todo, inside |-> q.inside, cur |-> q.cur,
                 pending |-> q.pending, have |-> q.have]
           b == [pc |-> q.pc, todo |-> q.todo, inside |-> q.inside, cur |-> q.cur,
                 pending |-> p, have |-> q.have]
<1>1. [q EXCEPT !.pending = p, !.have = h] =
        [[q EXCEPT !.pending = p] EXCEPT !.have = h]
  OBVIOUS
<1>2. [a EXCEPT !.pending = p] = b
  OBVIOUS
<1>3. [b EXCEPT !.have = h] =
        [pc |-> q.pc, todo |-> q.todo, inside |-> q.inside, cur |-> q.cur,
         pending |-> p, have |-> h]
  OBVIOUS
<1>4. q = a
  BY DEF Shape
<1> HIDE DEF a, b
<1> QED
  BY <1>1, <1>2, <1>3, <1>4

LEMMA TakeFileStep ==
  ASSUME Inv, NEW s \in Readers, NEW f, TakeFile(s, f)
  PROVE  Inv'
<1> DEFINE x == st[s].cur
           p == st[s].pending \ {f}
           h == st[s].have \union {<<f, slot[x].id>>}
           r == [st[s] EXCEPT !.pending = @ \ {f},
                              !.have = @ \union {<<f, slot[st[s].cur].id>>}]
<1>1. /\ st[s].pc = "read" /\ f \in st[s].pending /\ f \in slot[x].files
      /\ Goto(s, r) /\ Unread
  BY DEF TakeFile, Has
<1>2. /\ s \in Streams /\ st[s].pc \in Walking /\ st[s].pc \in Busy
      /\ x \in OpenSlots(s) /\ Shape(st[s]) /\ s \notin RowStreams
      /\ st[s].inside \subseteq st[s].todo
      /\ x \notin touched => Reading(s, st[s], slot[x])
  BY <1>1, ReadFacts
<1>3. r = [pc |-> "read", todo |-> st[s].todo, inside |-> st[s].inside, cur |-> x,
           pending |-> p, have |-> h]
  <2>1. r = [pc |-> st[s].pc, todo |-> st[s].todo, inside |-> st[s].inside,
             cur |-> st[s].cur, pending |-> p, have |-> h]
    BY <1>2, ExceptIs, Zenon
  <2> QED
    BY <1>1, <2>1
<1>4. Shape(r) /\ r.pc = "read" /\ r.cur = x /\ r.todo = st[s].todo
      /\ r.inside = st[s].inside /\ r.pending = p /\ r.have = h
  BY <1>3 DEF Shape
<1> HIDE DEF r
<1>5. "read" \in PcsOf(s) \intersect Busy
  BY ReadersAreStreams DEF Busy
<1>6. x \notin touched => Reading(s, r, slot[x])
  <2> HAVE x \notin touched
  <2>1. Reading(s, st[s], slot[x])
    BY <1>2
  <2>2. ASSUME s \in ReadWhole
        PROVE  /\ p \subseteq FilesOf(s)
               /\ Needs(s) \ p \subseteq slot[x].files
               /\ h = ((FilesOf(s) \ p) \intersect slot[x].files) \X {slot[x].id}
    <3>1. /\ st[s].pending \subseteq FilesOf(s)
          /\ Needs(s) \ st[s].pending \subseteq slot[x].files
          /\ st[s].have = ((FilesOf(s) \ st[s].pending) \intersect slot[x].files)
                          \X {slot[x].id}
      BY <1>1, <2>1, <2>2 DEF Reading
    <3>2. (FilesOf(s) \ p) \intersect slot[x].files =
            ((FilesOf(s) \ st[s].pending) \intersect slot[x].files) \union {f}
      BY <1>1, <3>1
    <3>3. h = ((FilesOf(s) \ p) \intersect slot[x].files) \X {slot[x].id}
      BY <3>1, <3>2
    <3> QED
      BY <1>1, <3>1, <3>3
  <2>3. ASSUME s = "thermal_zone"
        PROVE  /\ p \subseteq {"temp", "type"}
               /\ {"temp", "type"} \ p \subseteq slot[x].files
               /\ h = ({"temp", "type"} \ p) \X {slot[x].id}
    <3>1. /\ st[s].pending \subseteq {"temp", "type"}
          /\ {"temp", "type"} \ st[s].pending \subseteq slot[x].files
          /\ st[s].have = ({"temp", "type"} \ st[s].pending) \X {slot[x].id}
      BY <1>1, <2>1, <2>3 DEF Reading
    <3>2. {"temp", "type"} \ p = ({"temp", "type"} \ st[s].pending) \union {f}
      BY <1>1, <3>1
    <3>3. h = ({"temp", "type"} \ p) \X {slot[x].id}
      BY <3>1, <3>2
    <3> QED
      BY <1>1, <3>1, <3>3
  <2>4. Found(s, slot[x])
    BY <2>1 DEF Reading
  <2> QED
    BY <1>4, <2>2, <2>3, <2>4 DEF Reading
<1> QED
  BY <1>1, <1>2, <1>4, <1>5, <1>6, WorkStep

(* A device without a file that is needed does not contribute. *)
LEMMA RequiredStep ==
  ASSUME Inv, NEW s \in Readers, NEW f, Required(s, f),
         f \in Needs(s) \/ (s = "thermal_zone" /\ f \in {"temp", "type"}),
         s = "thermal_zone" => f \in {"temp", "type"}
  PROVE  Inv'
<1>1. CASE TakeFile(s, f)
  BY <1>1, TakeFileStep
<1>2. CASE /\ st[s].pc = "read" /\ f \in st[s].pending /\ ~Has(st[s].cur, f)
           /\ Throw(s, st[s].cur, Rest(s, st[s].cur)) /\ Unread
  <2>1. /\ s \in Streams /\ st[s].pc \in Walking /\ s \notin RowStreams
        /\ st[s].cur \in OpenSlots(s)
    BY <1>2, ReadFacts
  <2>2. CASE s \in {"cpufreq", "core_id"}
    BY <1>2, <2>1, <2>2, FailStep
  <2>3. CASE s \notin {"cpufreq", "core_id"}
    <3>1. s \in {"hwmon", "hwmon_device", "thermal_zone"}
      BY <2>3 DEF Readers, ReadWhole
    <3>2. ~Contributes(s, st[s].cur)
      BY <1>2, <3>1, ContributesIs DEF Has
    <3> QED
      BY <1>2, <2>1, <2>3, <3>2, ThrowStep
  <2> QED
    BY <2>2, <2>3
<1> QED
  BY <1>1, <1>2 DEF Required

LEMMA OptionalStep ==
  ASSUME Inv, NEW s \in ReadWhole, NEW f, Optional(s, f), f \notin Needs(s)
  PROVE  Inv'
<1>0. s \in Readers
  BY DEF Readers
<1>1. CASE TakeFile(s, f)
  BY <1>0, <1>1, TakeFileStep
<1>2. CASE /\ st[s].pc = "read" /\ f \in st[s].pending /\ ~Has(st[s].cur, f)
           /\ Goto(s, [st[s] EXCEPT !.pending = @ \ {f}]) /\ Unread
  <2> DEFINE x == st[s].cur
             p == st[s].pending \ {f}
             r == [st[s] EXCEPT !.pending = @ \ {f}]
  <2>1. /\ s \in Streams /\ st[s].pc \in Walking /\ st[s].pc \in Busy
        /\ x \in OpenSlots(s) /\ Shape(st[s]) /\ s \notin RowStreams
        /\ st[s].inside \subseteq st[s].todo
        /\ x \notin touched => Reading(s, st[s], slot[x])
    BY <1>0, <1>2, ReadFacts
  <2>2. r = [pc |-> "read", todo |-> st[s].todo, inside |-> st[s].inside,
             cur |-> x, pending |-> p, have |-> st[s].have]
    BY <1>2, <2>1 DEF Shape
  <2>3. Shape(r) /\ r.pc = "read" /\ r.cur = x /\ r.todo = st[s].todo
        /\ r.inside = st[s].inside /\ r.pending = p /\ r.have = st[s].have
    BY <2>2 DEF Shape
  <2> HIDE DEF r
  <2>4. "read" \in PcsOf(s) \intersect Busy
    BY <1>0, ReadersAreStreams DEF Busy
  <2>5. x \notin touched => Reading(s, r, slot[x])
    <3> HAVE x \notin touched
    <3>1. /\ st[s].pending \subseteq FilesOf(s)
          /\ Needs(s) \ st[s].pending \subseteq slot[x].files
          /\ st[s].have = ((FilesOf(s) \ st[s].pending) \intersect slot[x].files)
                          \X {slot[x].id}
          /\ Found(s, slot[x])
      BY <1>2, <2>1 DEF Reading
    <3>2. (FilesOf(s) \ p) \intersect slot[x].files =
            (FilesOf(s) \ st[s].pending) \intersect slot[x].files
      BY <1>2 DEF Has
    <3>3. p \subseteq FilesOf(s) /\ Needs(s) \ p \subseteq slot[x].files
      BY <3>1
    <3>4. s # "thermal_zone"
      BY DEF ReadWhole
    <3> QED
      BY <2>3, <3>1, <3>2, <3>3, <3>4 DEF Reading
  <2>6. Goto(s, r)
    BY <1>2 DEF r
  <2> QED
    BY <1>2, <2>1, <2>3, <2>4, <2>5, <2>6, WorkStep
<1> QED
  BY <1>1, <1>2 DEF Optional

LEMMA DeliverStep ==
  ASSUME Inv, NEW s \in ReadWhole, Deliver(s)
  PROVE  Inv'
<1> DEFINE x == st[s].cur
<1>1. /\ st[s].pc = "read" /\ st[s].pending = {} /\ Unread
      /\ Yield(s, Item(s, x, st[s].have), Rest(s, x))
  BY DEF Deliver
<1>2. s \in Readers
  BY DEF Readers
<1>3. /\ s \in Streams /\ st[s].pc \in Walking /\ st[s].pc \in Busy
      /\ x \in OpenSlots(s) /\ s \notin RowStreams
      /\ x \notin touched =>
           /\ Reading(s, st[s], slot[x])
           /\ s \in {"cpufreq", "core_id"} => x \in Globbed /\ s \in slot[x].files
  BY <1>1, <1>2, ReadFacts
<1>4. ASSUME x \notin touched
      PROVE  Contributes(s, x) /\ st[s].have = Of(s, slot[x]) \X {slot[x].id}
  <2>1. /\ Needs(s) \subseteq slot[x].files
        /\ st[s].have = (FilesOf(s) \intersect slot[x].files) \X {slot[x].id}
        /\ s = "hwmon_device" => "device" \in slot[x].files
    <3>1. /\ Needs(s) \ st[s].pending \subseteq slot[x].files
          /\ st[s].have = ((FilesOf(s) \ st[s].pending) \intersect slot[x].files)
                          \X {slot[x].id}
          /\ s = "hwmon_device" => "device" \in slot[x].files
      BY <1>1, <1>3, <1>4 DEF Reading, Found
    <3>2. Needs(s) \ st[s].pending = Needs(s) /\ FilesOf(s) \ st[s].pending = FilesOf(s)
      BY <1>1
    <3> QED
      BY <3>1, <3>2
  <2>2. Contributes(s, x)
    BY <1>3, <1>4, <2>1, ContributesIs DEF ReadWhole
  <2>3. Of(s, slot[x]) = FilesOf(s) \intersect slot[x].files
    BY <1>3, <1>4, OfIs DEF ReadWhole
  <2> QED
    BY <2>1, <2>2, <2>3
<1> QED
  BY <1>1, <1>3, <1>4, YieldStep

----------------------------------------------------------------------------
(* temperatures.                                                           *)
Visiting(s, x, p) == [Rest(s, x) EXCEPT !.pc = "read", !.cur = x, !.pending = p]

LEMMA VisitIs ==
  ASSUME NEW s, NEW x, NEW p
  PROVE  Visiting(s, x, p) =
           [pc |-> "read", todo |-> st[s].todo \ {x}, inside |-> st[s].inside \ {x},
            cur |-> x, pending |-> p, have |-> {}]
<1> DEFINE q == Rest(s, x)
           t == st[s].todo \ {x}
           i == st[s].inside \ {x}
           a == [pc |-> "next", todo |-> t, inside |-> i, cur |-> "none",
                 pending |-> {}, have |-> {}]
           b == [pc |-> "read", todo |-> t, inside |-> i, cur |-> "none",
                 pending |-> {}, have |-> {}]
           c == [pc |-> "read", todo |-> t, inside |-> i, cur |-> x,
                 pending |-> {}, have |-> {}]
<1>1. [q EXCEPT !.pc = "read", !.cur = x, !.pending = p] =
        [[[q EXCEPT !.pc = "read"] EXCEPT !.cur = x] EXCEPT !.pending = p]
  OBVIOUS
<1>2. q = a
  BY RestIs
<1>3. [a EXCEPT !.pc = "read"] = b
  BY SMTT(60)
<1>4. [b EXCEPT !.cur = x] = c
  OBVIOUS
<1>5. [c EXCEPT !.pending = p] =
        [pc |-> "read", todo |-> t, inside |-> i, cur |-> x, pending |-> p,
         have |-> {}]
  OBVIOUS
<1> HIDE DEF a, b, c, q
<1>6. [q EXCEPT !.pc = "read", !.cur = x, !.pending = p] =
        [pc |-> "read", todo |-> t, inside |-> i, cur |-> x, pending |-> p,
         have |-> {}]
  BY <1>1, <1>2, <1>3, <1>4, <1>5
<1> QED
  BY <1>6 DEF q, Visiting

LEMMA VisitStep ==
  ASSUME Inv, NEW s \in Readers, st[s].pc \in Walking, NEW x \in OpenSlots(s),
         st[s].pc \in Busy => st[s].cur = x,
         NEW p, Visit(s, x, p), Unread,
         s \in ReadWhole => p = FilesOf(s),
         s = "thermal_zone" => p = {"temp", "type"},
         x \notin touched => Found(s, slot[x])
  PROVE  Inv'
<1> DEFINE r == [pc |-> "read", todo |-> st[s].todo \ {x},
                 inside |-> st[s].inside \ {x}, cur |-> x,
                 pending |-> p, have |-> {}]
<1>1. Goto(s, r)
  <2>1. Visiting(s, x, p) = r
    BY VisitIs
  <2>2. Goto(s, Visiting(s, x, p))
    BY DEF Visit, Visiting
  <2> QED
    BY <2>1, <2>2
<1>2. /\ Shape(r) /\ r.pc = "read" /\ r.cur = x /\ r.todo = st[s].todo \ {x}
      /\ r.inside = st[s].inside \ {x} /\ r.pending = p /\ r.have = {}
  BY DEF Shape
<1> HIDE DEF r
<1>3. s \in Streams /\ s \notin RowStreams /\ "read" \in PcsOf(s) \intersect Busy
  BY ReadersAreStreams DEF Busy
<1>6. r.inside \subseteq r.todo /\ r.inside \subseteq st[s].inside
  BY <1>2, <1>3 DEF Inv, StOK, StreamOK
<1>4. ASSUME s \in ReadWhole
      PROVE  /\ p \subseteq FilesOf(s) /\ Needs(s) \ p \subseteq slot[x].files
             /\ {} = ((FilesOf(s) \ p) \intersect slot[x].files) \X {slot[x].id}
  <2>1. Needs(s) \subseteq FilesOf(s)
    BY <1>4, FilesAre DEF ReadWhole
  <2> QED
    BY <1>4, <2>1
<1>5. x \notin touched => Reading(s, r, slot[x])
  <2>1. s = "thermal_zone" => {} = ({"temp", "type"} \ p) \X {slot[x].id}
    OBVIOUS
  <2> QED
    BY <1>2, <1>4, <2>1 DEF Reading
<1> QED
  BY <1>1, <1>2, <1>3, <1>5, <1>6, WorkStep

(* A slot that is next to be dealt with. *)
LEMMA NextFacts ==
  ASSUME Inv, NEW s \in Streams, st[s].pc = "next", NEW x \in st[s].todo
  PROVE  /\ st[s].pc \in Walking /\ x \in OpenSlots(s) /\ st[s].pc \notin Busy
         /\ x \notin touched =>
              /\ slot[x] # Empty
              /\ s \in {"cpufreq", "core_id"} => x \in Globbed /\ s \in slot[x].files
              /\ x \in st[s].inside => Found(s, slot[x])
         /\ x \in Slots[Kind[s]] /\ Kind[s] \in class
<1>1. st[s].pc \in Walking /\ x \in OpenSlots(s) /\ st[s].pc \notin Busy
      /\ st[s].pc \in Underway
  BY DEF Walking, Busy, OpenSlots, Underway
<1> QED
  BY <1>1, OpenFacts

LEMMA OpenIs ==
  ASSUME NEW s, NEW X, NEW L
  PROVE  Open(s, X, L) = [pc |-> "next", todo |-> (st[s].todo \ X) \union L,
                          inside |-> L, cur |-> "none", pending |-> {}, have |-> {}]
<1> DEFINE t == (st[s].todo \ X) \union L
           a == [pc |-> "next", todo |-> {}, inside |-> {}, cur |-> "none",
                 pending |-> {}, have |-> {}]
           b == [pc |-> "next", todo |-> t, inside |-> {}, cur |-> "none",
                 pending |-> {}, have |-> {}]
<1>1. At("next") = a
  BY DEF At
<1>2. [a EXCEPT !.todo = t] = b
  BY SMTT(60)
<1>3. [b EXCEPT !.inside = L] =
        [pc |-> "next", todo |-> t, inside |-> L, cur |-> "none", pending |-> {},
         have |-> {}]
  OBVIOUS
<1>4. \A q : [q EXCEPT !.todo = t, !.inside = L] =
              [[q EXCEPT !.todo = t] EXCEPT !.inside = L]
  OBVIOUS
<1>5. Open(s, X, L) = [At("next") EXCEPT !.todo = t, !.inside = L]
  BY DEF Open
<1> HIDE DEF a, b, t
<1>6. Open(s, X, L) = [pc |-> "next", todo |-> t, inside |-> L, cur |-> "none",
                       pending |-> {}, have |-> {}]
  BY <1>1, <1>2, <1>3, <1>4, <1>5
<1> QED
  BY <1>6 DEF t

LEMMA DeviceIs ==
  ASSUME NEW s, NEW X
  PROVE  [Open(s, X, X) EXCEPT !.pc = "device"] =
           [pc |-> "device", todo |-> (st[s].todo \ X) \union X, inside |-> X,
            cur |-> "none", pending |-> {}, have |-> {}]
<1> DEFINE t == (st[s].todo \ X) \union X
           a == [pc |-> "next", todo |-> t, inside |-> X, cur |-> "none",
                 pending |-> {}, have |-> {}]
<1>1. Open(s, X, X) = a
  BY OpenIs
<1> HIDE DEF t
<1>2. [a EXCEPT !.pc = "device"] =
        [pc |-> "device", todo |-> t, inside |-> X, cur |-> "none",
         pending |-> {}, have |-> {}]
  BY SMTT(60)
<1> HIDE DEF a
<1>3. [Open(s, X, X) EXCEPT !.pc = "device"] =
        [pc |-> "device", todo |-> t, inside |-> X, cur |-> "none",
         pending |-> {}, have |-> {}]
  BY <1>1, <1>2
<1> QED
  BY <1>3 DEF t

(* A directory is opened: the slots in X are dealt with but for those in   *)
(* L, and of those that nobody has touched none that contributes is lost.  *)
LEMMA OpenStep ==
  ASSUME Inv, NEW s \in {"hwmon", "hwmon_device"}, st[s].pc \in {"next", "device"},
         NEW X \in SUBSET st[s].todo, NEW L \in SUBSET X, st[s].inside \subseteq X,
         NEW l \in {"next", "device"}, NEW r,
         r = [pc |-> l, todo |-> (st[s].todo \ X) \union L, inside |-> L,
              cur |-> "none", pending |-> {}, have |-> {}],
         Move(s, r), Unread, out' = out,
         \/ errors' = errors
         \/ errors' = errors \union {<<s, "directory">>} /\ Excused,
         l = "device" => /\ s = "hwmon_device"
                         /\ \E y \in L : y \in touched \/ Has(y, "device"),
         \A y \in X \ L : y \notin touched => ~Contributes(s, y),
         \A y \in L : (l = "next" /\ y \notin touched) => Found(s, slot[y])
  PROVE  Inv'
<1>1. s \in Streams /\ Kind[s] = "hwmon" /\ s \notin RowStreams /\ s # "cpufreq"
  BY StreamsAre, KindIs DEF RowStreams
<1>2. st[s].pc \in Underway /\ st[s].pc \notin Busy /\ st[s].pc # "wait"
  BY DEF Underway, Walking, Busy
<1>3. StreamOK(s) /\ st = [t \in Streams |-> st[t]] /\ st'[s] = r
  BY <1>1 DEF Inv, StOK, Move
<1>4. /\ Shape(r) /\ r.pc = l /\ r.inside = L /\ r.todo = (st[s].todo \ X) \union L
  BY DEF Shape
<1>5. r.todo \subseteq Slots[Kind[s]] /\ r.inside \subseteq r.todo
  BY <1>3, <1>4 DEF StreamOK
<1>6. /\ l \in PcsOf(s) \ {"wait", "list"} /\ l \in Underway /\ l \notin Busy
  BY DEF PcsOf, Underway, Walking, Busy
<1>7. slot' = slot /\ class' = class /\ op' = op /\ touched' = touched
  BY Steady
<1>8. OpenSlots(s) = st[s].todo /\ OpenSlots(s)' = (st[s].todo \ X) \union L
  BY <1>2, <1>3, <1>4, <1>6 DEF OpenSlots
<1>9. Kind[s] \in class
  BY <1>2, <1>3 DEF StreamOK, Underway, Walking, Busy
<1>10. ASSUME NEW y \in Slots[Kind[s]] \ touched
       PROVE  SlotOK(s, y)'
  <2>1. SlotOK(s, y)
    BY <1>1, <1>9, <1>10 DEF Inv, SlotsAreHandled, StreamIsExact
  <2>2. ItemsOf(s, y)' = ItemsOf(s, y)
    BY DEF ItemsOf
  <2>3. y # "directory"
    <3>1. y \in Slot
      BY <1>1, <1>10, KindsAre
    <3> QED
      BY <3>1, FilesAssumption
  <2>4. <<s, y>> \in errors' <=> <<s, y>> \in errors
    BY <2>3
  <2>5. (Fresh(s, y)' <=> Fresh(s, y)) /\ Listed(s)' = Listed(s)
    BY <1>7, <2>2, <2>4 DEF Fresh, Listed
  <2>6. Handled(s, y) => Handled(s, y)'
    BY <1>7, <2>2, <2>4, SameContribution DEF Handled
  <2>7. ASSUME y \in X \ L PROVE Handled(s, y)'
    <3>1. Fresh(s, y)' /\ ~Contributes(s, y)
      BY <1>8, <1>10, <2>1, <2>5, <2>7 DEF SlotOK
    <3>2. ~Contributes(s, y)'
      BY <1>7, <3>1, SameContribution
    <3> QED
      BY <1>1, <3>1, <3>2 DEF Handled, Fresh
  <2>8. (st'[s].pc # "device" /\ y \in st'[s].inside) => Found(s, slot[y])'
    BY <1>3, <1>4, <1>7, <1>10 DEF Found
  <2>9. y \in OpenSlots(s)' => Fresh(s, y)' /\ y \in Listed(s)'
    BY <1>8, <2>1, <2>5 DEF SlotOK
  <2>10. y \notin OpenSlots(s)' => Handled(s, y)'
    BY <1>2, <1>8, <2>1, <2>6, <2>7 DEF SlotOK
  <2> QED
    BY <1>3, <1>4, <1>6, <2>8, <2>9, <2>10 DEF SlotOK, Underway, Walking
<1>11. StreamIsExact(s)'
  BY <1>7, <1>10 DEF StreamIsExact
<1>12. YieldsFor(s) /\ FailsFor(s)
  BY DEF YieldsFor, FailsFor
<1> QED
  BY <1>1, <1>2, <1>4, <1>5, <1>6, <1>11, <1>12, StreamStep

LEMMA HwmonStep ==
  ASSUME Inv, Hwmon
  PROVE  Inv'
<1> DEFINE s == "hwmon"
<1>1. /\ s \in Streams /\ Kind[s] = "hwmon" /\ st[s].pc = "next" /\ Unread
      /\ st[s].inside = {}
  BY StreamsAre, KindIs DEF Hwmon
<1>2. PICK x \in st[s].todo :
        LET X == Beside[x] \intersect st[s].todo
            gone == \A y \in X : slot[y] = Empty
        IN \/ gone /\ Throw(s, "directory", Open(s, X, {}))
           \/ ~gone /\ Goto(s, Open(s, X, {y \in X : Has(y, "input")}))
  BY DEF Hwmon
<1> DEFINE X == Beside[x] \intersect st[s].todo
           L == {y \in X : Has(y, "input")}
<1>3. /\ x \in Slots["hwmon"] /\ x \in X
      /\ \A y \in X : y \notin touched => slot[y] # Empty
  <2>1. x \in Slots["hwmon"]
    BY <1>1, NextFacts
  <2>2. x \in X
    BY <2>1, FilesAssumption, KindsAre
  <2> QED
    BY <1>1, <2>1, <2>2, NextFacts
<1>4. CASE (\A y \in X : slot[y] = Empty) /\ Throw(s, "directory", Open(s, X, {}))
  <2>1. Excused
    BY <1>3, <1>4 DEF Excused
  <2>2. op = "temperatures"
    BY <1>1, RunsOf DEF Inv, StOK, StreamOK
  <2>3. /\ Move(s, Open(s, X, {})) /\ out' = out
        /\ errors' = errors \union {<<s, "directory">>}
    BY <1>4, <2>2 DEF Throw, Move
  <2>4. PICK M : M = {}
    OBVIOUS
  <2>5. Open(s, X, M) = [pc |-> "next", todo |-> (st[s].todo \ X) \union M,
                         inside |-> M, cur |-> "none", pending |-> {}, have |-> {}]
    BY OpenIs
  <2>6. \A y \in X \ M : y \notin touched => ~Contributes(s, y)
    BY <1>3, <1>4
  <2>7. X \in SUBSET st[s].todo /\ M \in SUBSET X
    BY <2>4
  <2>8. Move(s, Open(s, X, M))
    BY <2>3, <2>4
  <2> HIDE DEF X
  <2> QED
    BY <1>1, <2>1, <2>3, <2>4, <2>5, <2>6, <2>7, <2>8, OpenStep
<1>5. CASE Goto(s, Open(s, X, L))
  <2>1. Move(s, Open(s, X, L)) /\ out' = out /\ errors' = errors
    BY <1>5 DEF Goto
  <2>2. Open(s, X, L) = [pc |-> "next", todo |-> (st[s].todo \ X) \union L,
                         inside |-> L, cur |-> "none", pending |-> {}, have |-> {}]
    BY OpenIs
  <2>3. \A y \in X \ L : ~Contributes(s, y)
    BY ContributesIs, FilesAre DEF Has
  <2>4. \A y \in L : Found(s, slot[y])
    BY DEF Found, Has
  <2>5. X \in SUBSET st[s].todo /\ L \in SUBSET X
    OBVIOUS
  <2> HIDE DEF X, L
  <2> QED
    BY <1>1, <2>1, <2>2, <2>3, <2>4, <2>5, OpenStep
<1> QED
  BY <1>2, <1>4, <1>5

LEMMA HwmonDeviceStep ==
  ASSUME Inv, HwmonDevice
  PROVE  Inv'
<1> DEFINE s == "hwmon_device"
<1>1. /\ s \in Streams /\ Kind[s] = "hwmon" /\ st[s].pc = "next" /\ Unread
      /\ st[s].inside = {}
  BY StreamsAre, KindIs DEF HwmonDevice
<1>2. PICK x \in st[s].todo :
        LET X == Beside[x] \intersect st[s].todo
            exists == \E y \in X : Has(y, "device")
        IN \/ ~exists /\ Goto(s, Open(s, X, {}))
           \/ exists /\ Goto(s, [Open(s, X, X) EXCEPT !.pc = "device"])
  BY DEF HwmonDevice
<1> DEFINE X == Beside[x] \intersect st[s].todo
<1>3. X \in SUBSET st[s].todo
  OBVIOUS
<1>4. CASE ~(\E y \in X : Has(y, "device")) /\ Goto(s, Open(s, X, {}))
  <2>1. PICK M : M = {}
    OBVIOUS
  <2>2. Move(s, Open(s, X, M)) /\ out' = out /\ errors' = errors
    BY <1>4, <2>1 DEF Goto
  <2>3. Open(s, X, M) = [pc |-> "next", todo |-> (st[s].todo \ X) \union M,
                         inside |-> M, cur |-> "none", pending |-> {}, have |-> {}]
    BY OpenIs
  <2>4. \A y \in X \ M : ~Contributes(s, y)
    BY <1>4, ContributesIs DEF Has
  <2>5. M \in SUBSET X
    BY <2>1
  <2> HIDE DEF X
  <2> QED
    BY <1>1, <1>3, <2>1, <2>2, <2>3, <2>4, <2>5, OpenStep
<1>5. CASE /\ \E y \in X : Has(y, "device")
           /\ Goto(s, [Open(s, X, X) EXCEPT !.pc = "device"])
  <2> DEFINE r == [Open(s, X, X) EXCEPT !.pc = "device"]
  <2>1. Move(s, r) /\ out' = out /\ errors' = errors
    BY <1>5 DEF Goto
  <2>2. r = [pc |-> "device", todo |-> (st[s].todo \ X) \union X, inside |-> X,
             cur |-> "none", pending |-> {}, have |-> {}]
    BY DeviceIs, Zenon
  <2>3. X \in SUBSET X /\ \E y \in X : y \in touched \/ Has(y, "device")
    BY <1>5
  <2> HIDE DEF X, r
  <2> QED
    BY <1>1, <1>3, <2>1, <2>2, <2>3, OpenStep, SMTT(60)
<1> QED
  BY <1>2, <1>4, <1>5

LEMMA HwmonDeviceDirStep ==
  ASSUME Inv, HwmonDeviceDir
  PROVE  Inv'
<1> DEFINE s == "hwmon_device"
           X == st[s].inside
           L == {y \in X : Has(y, "device") /\ Has(y, "device/input")}
<1>1. s \in Streams /\ Kind[s] = "hwmon" /\ st[s].pc = "device" /\ Unread
  BY StreamsAre, KindIs DEF HwmonDeviceDir
<1>2. \/ /\ ~(\E y \in X : Has(y, "device"))
         /\ Throw(s, "directory", Open(s, X, {}))
      \/ Goto(s, Open(s, X, L))
  BY DEF HwmonDeviceDir
<1>3. /\ X \in SUBSET st[s].todo /\ st[s].todo \subseteq Slots["hwmon"]
      /\ op = "temperatures"
  BY <1>1, RunsOf DEF Inv, StOK, StreamOK
<1>4. CASE /\ ~(\E y \in X : Has(y, "device"))
           /\ Throw(s, "directory", Open(s, X, {}))
  <2>1. Excused
    <3>1. \E y \in X : y \in touched
      BY <1>1, <1>4 DEF Inv, SaidOK
    <3> QED
      BY <1>3, <3>1 DEF Excused
  <2>2. PICK M : M = {}
    OBVIOUS
  <2>3. /\ Move(s, Open(s, X, M)) /\ out' = out
        /\ errors' = errors \union {<<s, "directory">>}
    BY <1>3, <1>4, <2>2 DEF Throw, Move
  <2>4. Open(s, X, M) = [pc |-> "next", todo |-> (st[s].todo \ X) \union M,
                         inside |-> M, cur |-> "none", pending |-> {}, have |-> {}]
    BY OpenIs
  <2>5. \A y \in X \ M : ~Contributes(s, y)
    BY <1>4, ContributesIs DEF Has
  <2>6. M \in SUBSET X /\ st[s].inside \subseteq X
    BY <2>2
  <2> HIDE DEF X
  <2> QED
    BY <1>1, <1>3, <2>1, <2>2, <2>3, <2>4, <2>5, <2>6, OpenStep, ZenonT(60)
<1>5. CASE Goto(s, Open(s, X, L))
  <2>1. Move(s, Open(s, X, L)) /\ out' = out /\ errors' = errors
    BY <1>5 DEF Goto
  <2>2. Open(s, X, L) = [pc |-> "next", todo |-> (st[s].todo \ X) \union L,
                         inside |-> L, cur |-> "none", pending |-> {}, have |-> {}]
    BY OpenIs
  <2>3. \A y \in X \ L : ~Contributes(s, y)
    BY ContributesIs, FilesAre DEF Has
  <2>4. \A y \in L : Found(s, slot[y])
    BY DEF Found, Has
  <2>5. L \in SUBSET X /\ st[s].inside \subseteq X
    OBVIOUS
  <2> HIDE DEF X, L
  <2> QED
    BY <1>1, <1>3, <2>1, <2>2, <2>3, <2>4, <2>5, OpenStep
<1> QED
  BY <1>2, <1>4, <1>5

LEMMA HwmonInputStep ==
  ASSUME Inv, HwmonInput
  PROVE  Inv'
<1>1. PICK s \in {"hwmon", "hwmon_device"} :
        st[s].pc = "next" /\ \E x \in st[s].inside : Visit(s, x, SensorFiles(s))
  BY DEF HwmonInput
<1>2. PICK x \in st[s].inside : Visit(s, x, SensorFiles(s))
  BY <1>1
<1>3. s \in Streams /\ s \in Readers /\ s # "thermal_zone" /\ Unread
  BY StreamsAre DEF HwmonInput, Readers, ReadWhole
<1>4. x \in st[s].todo
  BY <1>3 DEF Inv, StOK, StreamOK
<1>5. /\ st[s].pc \in Walking /\ x \in OpenSlots(s) /\ st[s].pc \notin Busy
      /\ x \notin touched => Found(s, slot[x])
  BY <1>1, <1>3, <1>4, NextFacts
<1>6. SensorFiles(s) = FilesOf(s)
  BY FilesAre
<1> QED
  BY <1>2, <1>3, <1>5, <1>6, VisitStep

LEMMA HwmonSensorStep ==
  ASSUME Inv, HwmonSensor
  PROVE  Inv'
<1>1. PICK s \in {"hwmon", "hwmon_device"} : \/ \E f \in Needed(s) : Required(s, f)
                                            \/ Optional(s, Limits(s))
                                            \/ Deliver(s)
  BY DEF HwmonSensor
<1>2. s \in ReadWhole /\ s \in Readers
  BY DEF ReadWhole, Readers
<1>3. Needs(s) = Needed(s) /\ Limits(s) \notin Needs(s)
  BY FilesAre
<1>4. CASE \E f \in Needed(s) : Required(s, f)
  BY <1>2, <1>3, <1>4, RequiredStep
<1>5. CASE Optional(s, Limits(s))
  BY <1>2, <1>3, <1>5, OptionalStep
<1>6. CASE Deliver(s)
  BY <1>2, <1>6, DeliverStep
<1> QED
  BY <1>1, <1>4, <1>5, <1>6

(* The zones are chosen when both streams of hwmon have ended with neither *)
(* an item nor an error: every device that stayed had nothing to say.      *)
LEMMA ChooseZonesStep ==
  ASSUME Inv, ChooseZones
  PROVE  Inv'
<1> DEFINE z == "thermal_zone"
           r == At("list")
<1>1. /\ op = "temperatures" /\ st[z].pc = "wait" /\ out = {} /\ errors = {}
      /\ Move(z, r) /\ out' = out /\ errors' = errors /\ Unread
      /\ st["hwmon"].pc = "end" /\ st["hwmon_device"].pc = "end"
  BY DEF ChooseZones, Goto, StreamsOf
<1>2. /\ slot' = slot /\ class' = class /\ op' = op /\ drivers' = drivers
      /\ touched' = touched /\ changes' = changes /\ known' = known
      /\ result' = result /\ seen' = seen /\ root' = root /\ roots' = roots
  BY <1>1, Steady
<1>3. /\ z \in Streams /\ st' = [st EXCEPT ![z] = r]
      /\ st = [t \in Streams |-> st[t]]
  BY <1>1, StreamsAre DEF Move, Inv, StOK
<1>4. st'[z] = r /\ \A t \in Streams \ {z} : st'[t] = st[t]
  BY <1>3
<1>5. r.pc = "list" /\ r.todo = {} /\ r.inside = {} /\ Shape(r)
  BY DEF At, Shape
<1>6. StOK'
  <2>1. StreamOK(z)'
    BY <1>1, <1>2, <1>4, <1>5
       DEF StreamOK, Runs, Ops, PcsOf, Busy, Walking, Underway
  <2>2. ASSUME NEW t \in Streams \ {z} PROVE StreamOK(t)'
    <3>1. StreamOK(t)
      BY DEF Inv, StOK
    <3> QED
      BY <1>1, <1>2, <1>4, <3>1 DEF StreamOK, Runs
  <2> QED
    BY <1>3, <2>1, <2>2 DEF StOK
<1>7. SlotsOK' /\ HistoryOK' /\ RootOK' /\ OutOK' /\ CallOK'
  BY <1>1, <1>2 DEF Inv, SlotsOK, HistoryOK, RootOK, Mounted, OutOK, CallOK
<1>8. SlotsAreHandled'
  <2>1. StreamIsExact(z)'
    <3>1. OpenSlots(z)' = {}
      BY <1>4, <1>5 DEF OpenSlots, Busy
    <3>2. \A x : Fresh(z, x)'
      BY <1>1 DEF Fresh, ItemsOf
    <3> QED
      BY <1>4, <1>5, <3>1, <3>2 DEF StreamIsExact, SlotOK, Busy, Walking, Underway
  <2>2. YieldsFor(z) /\ FailsFor(z) /\ UNCHANGED <<slot, class, touched>>
    BY <1>1, <1>2 DEF YieldsFor, FailsFor
  <2> QED
    BY <1>1, <1>3, <2>1, <2>2, OthersKeep DEF SlotsAreHandled
<1>9. ZonesOK'
  <2>1. ASSUME NEW x \in Slots["hwmon"] \ touched, NEW s \in {"hwmon", "hwmon_device"}
        PROVE  ~Contributes(s, x)
    <3>1. s \in Streams /\ Kind[s] = "hwmon" /\ st[s].pc = "end"
      BY <1>1, StreamsAre, KindIs
    <3>2. StreamOK(s) /\ StreamIsExact(s)
      BY <3>1 DEF Inv, StOK, SlotsAreHandled
    <3>3. "hwmon" \in class
      BY <1>1, <3>1, <3>2 DEF StreamOK
    <3>4. OpenSlots(s) = {}
      BY <3>1, <3>2 DEF OpenSlots, StreamOK, Busy, Walking, Underway
    <3>5. Handled(s, x)
      BY <2>1, <3>1, <3>2, <3>3, <3>4 DEF StreamIsExact, SlotOK
    <3>6. ItemsOf(s, x) = {}
      BY <1>1 DEF ItemsOf
    <3>7. slot[x] = Empty \/ ~Contributes(s, x)
      BY <3>5, <3>6 DEF Handled
    <3>8. slot[x] = Empty => ~Contributes(s, x)
      BY ContributesIs, FilesAre DEF Empty
    <3> QED
      BY <3>7, <3>8
  <2>2. \A x, s : Contributes(s, x)' <=> Contributes(s, x)
    BY <1>2, SameContribution
  <2>3. st'["hwmon"].pc = "end" /\ st'["hwmon_device"].pc = "end"
    BY <1>1, <1>4, StreamsAre
  <2> QED
    BY <1>1, <1>2, <2>1, <2>2, <2>3 DEF ZonesOK
<1>10. MountsOK' /\ SaidOK'
  <2>1. /\ \A t \in RowStreams : st'[t] = st[t]
        /\ st'["mounts"] = st["mounts"] /\ st'["hwmon_device"].pc = "end"
    BY <1>1, <1>4, StreamsAre DEF RowStreams
  <2>2. MountsOK'
    BY <1>2, <2>1 DEF Inv, MountsOK
  <2>3. SaidOK'
    BY <1>1, <2>1 DEF SaidOK
  <2> QED
    BY <2>2, <2>3
<1>11. AnswerOK'
  BY <1>1, <1>2, <1>4, <1>5 DEF AnswerOK
<1> QED
  BY <1>6, <1>7, <1>8, <1>9, <1>10, <1>11 DEF Inv

LEMMA ZoneNextStep ==
  ASSUME Inv, ZoneNext
  PROVE  Inv'
<1> DEFINE s == "thermal_zone"
<1>1. PICK x \in st[s].todo : Visit(s, x, {"temp", "type"})
  BY DEF ZoneNext
<1>2. s \in Streams /\ s \in Readers /\ s \notin ReadWhole /\ st[s].pc = "next" /\ Unread
  BY StreamsAre DEF ZoneNext, Readers, ReadWhole
<1>3. st[s].pc \in Walking /\ x \in OpenSlots(s) /\ st[s].pc \notin Busy
  BY <1>2, NextFacts
<1>4. Found(s, slot[x])
  BY DEF Found
<1> QED
  BY <1>1, <1>2, <1>3, <1>4, VisitStep

LEMMA TripsIs ==
  ASSUME NEW q, Shape(q), NEW l, NEW p
  PROVE  [q EXCEPT !.pc = l, !.pending = p] =
           [pc |-> l, todo |-> q.todo, inside |-> q.inside, cur |-> q.cur,
            pending |-> p, have |-> q.have]
<1> DEFINE a == [pc |-> q.pc, todo |-> q.todo, inside |-> q.inside, cur |-> q.cur,
                 pending |-> q.pending, have |-> q.have]
           b == [pc |-> l, todo |-> q.todo, inside |-> q.inside, cur |-> q.cur,
                 pending |-> q.pending, have |-> q.have]
<1>1. [q EXCEPT !.pc = l, !.pending = p] = [[q EXCEPT !.pc = l] EXCEPT !.pending = p]
  OBVIOUS
<1>2. [a EXCEPT !.pc = l] = b
  OBVIOUS
<1>3. [b EXCEPT !.pending = p] =
        [pc |-> l, todo |-> q.todo, inside |-> q.inside, cur |-> q.cur,
         pending |-> p, have |-> q.have]
  OBVIOUS
<1>4. q = a
  BY DEF Shape
<1> HIDE DEF a, b
<1> QED
  BY <1>1, <1>2, <1>3, <1>4

LEMMA ZoneStep ==
  ASSUME Inv, Zone
  PROVE  Inv'
<1> DEFINE s == "thermal_zone"
           x == st[s].cur
           r == [st[s] EXCEPT !.pc = "trips", !.pending = slot[st[s].cur].trips]
<1>1. s \in Streams /\ s \in Readers /\ s \notin ReadWhole /\ s \notin RowStreams
  BY StreamsAre DEF Readers, ReadWhole, RowStreams
<1>2. CASE \E f \in {"temp", "type"} : Required(s, f)
  BY <1>1, <1>2, RequiredStep
<1>3. CASE /\ st[s].pc = "read" /\ st[s].pending = {} /\ Unread
           /\ slot[x] = Empty /\ Throw(s, x, Rest(s, x))
  <2>1. st[s].pc \in Walking /\ x \in OpenSlots(s)
    BY <1>1, <1>3, ReadFacts
  <2>2. ~Contributes(s, x)
    BY <1>3, ContributesIs DEF Empty
  <2> QED
    BY <1>1, <1>3, <2>1, <2>2, ThrowStep
<1>4. CASE /\ st[s].pc = "read" /\ st[s].pending = {} /\ Unread
           /\ slot[x] # Empty /\ Goto(s, r)
  <2>1. /\ st[s].pc \in Walking /\ st[s].pc \in Busy /\ x \in OpenSlots(s)
        /\ Shape(st[s]) /\ (x \notin touched => Reading(s, st[s], slot[x]))
        /\ st[s].inside \subseteq st[s].todo
    BY <1>1, <1>4, ReadFacts
  <2>2. /\ r.pc = "trips" /\ r.cur = x /\ r.todo = st[s].todo
        /\ r.inside = st[s].inside /\ r.have = st[s].have
        /\ r.pending = slot[x].trips /\ Shape(r)
    <3>1. r = [pc |-> "trips", todo |-> st[s].todo, inside |-> st[s].inside,
               cur |-> st[s].cur, pending |-> slot[st[s].cur].trips,
               have |-> st[s].have]
      BY <2>1, TripsIs, Zenon
    <3> QED
      BY <3>1 DEF Shape
  <2> HIDE DEF r
  <2>3. x \notin touched => Reading(s, r, slot[x])
    <3> HAVE x \notin touched
    <3>1. /\ {"temp", "type"} \ st[s].pending \subseteq slot[x].files
          /\ st[s].have = ({"temp", "type"} \ st[s].pending) \X {slot[x].id}
          /\ Found(s, slot[x])
      BY <1>4, <2>1 DEF Reading
    <3>2. /\ {"temp", "type"} \ st[s].pending = {"temp", "type"}
          /\ {"temp", "type"} \union ((slot[x].trips \ r.pending) \ {"passive"}) =
                {"temp", "type"}
      BY <1>4, <2>2
    <3>3. /\ {"temp", "type"} \subseteq slot[x].files
          /\ r.have = ({"temp", "type"} \union
                         ((slot[x].trips \ r.pending) \ {"passive"})) \X {slot[x].id}
      BY <2>2, <3>1, <3>2
    <3> QED
      BY <1>1, <2>2, <3>1, <3>3 DEF Reading
  <2>4. "trips" \in PcsOf(s) \intersect Busy
    BY SMTT(60) DEF PcsOf, Busy
  <2> QED
    BY <1>1, <1>4, <2>1, <2>2, <2>3, <2>4, WorkStep
<1> QED
  BY <1>2, <1>3, <1>4 DEF Zone

LEMMA TripPointStep ==
  ASSUME Inv, TripPoint
  PROVE  Inv'
<1> DEFINE s == "thermal_zone"
           x == st[s].cur
           d == slot[x]
<1>1. s \in Streams /\ s \in Readers /\ s \notin ReadWhole /\ st[s].pc = "trips" /\ Unread
      /\ s \notin RowStreams
  BY StreamsAre DEF Readers, ReadWhole, TripPoint, RowStreams
<1>2. /\ st[s].pc \in Walking /\ st[s].pc \in Busy /\ x \in OpenSlots(s)
      /\ st[s].inside \subseteq st[s].todo /\ st[s].pc \in Underway
  BY <1>1 DEF Walking, Busy, OpenSlots, Underway, Inv, StOK, StreamOK
<1>3. Shape(st[s]) /\ (x \notin touched => Reading(s, st[s], d))
  BY <1>1, <1>2, OpenFacts
<1>4. x \notin touched =>
        /\ {"temp", "type"} \subseteq d.files
        /\ st[s].pending \subseteq d.trips
        /\ \A t \in d.trips \ st[s].pending : t # "passive" => t \in d.files
        /\ st[s].have = ({"temp", "type"} \union
                           ((d.trips \ st[s].pending) \ {"passive"})) \X {d.id}
        /\ Found(s, d)
  BY <1>1, <1>3 DEF Reading
<1>5. ASSUME NEW t \in st[s].pending, t # "passive" => Has(x, t),
             NEW h, h = IF t = "passive" THEN st[s].have
                        ELSE st[s].have \union {<<t, slot[x].id>>},
             Goto(s, [st[s] EXCEPT !.pending = @ \ {t}, !.have = h])
      PROVE  Inv'
  <2> DEFINE p == st[s].pending \ {t}
             r == [st[s] EXCEPT !.pending = @ \ {t}, !.have = h]
  <2>1. r = [pc |-> st[s].pc, todo |-> st[s].todo, inside |-> st[s].inside,
             cur |-> st[s].cur, pending |-> p, have |-> h]
    BY <1>3, ExceptIs, Zenon
  <2>2. /\ Shape(r) /\ r.pc = "trips" /\ r.cur = x /\ r.todo = st[s].todo
        /\ r.inside = st[s].inside /\ r.pending = p /\ r.have = h
    BY <1>1, <2>1 DEF Shape
  <2>3. Goto(s, r)
    BY <1>5
  <2> HIDE DEF r
  <2>4. x \notin touched => Reading(s, r, d)
    <3> HAVE x \notin touched
    <3> DEFINE A == {"temp", "type"} \union ((d.trips \ st[s].pending) \ {"passive"})
               B == {"temp", "type"} \union ((d.trips \ p) \ {"passive"})
    <3>1. B = IF t = "passive" THEN A ELSE A \union {t}
      BY <1>4, <1>5
    <3>2. st[s].have = A \X {d.id}
      BY <1>4
    <3> HIDE DEF A, B
    <3>3. h = B \X {d.id}
      BY <1>5, <3>1, <3>2
    <3>4. r.have = ({"temp", "type"} \union ((d.trips \ r.pending) \ {"passive"}))
                   \X {d.id}
      BY <2>2, <3>3 DEF B
    <3> QED
      BY <1>1, <1>4, <1>5, <2>2, <3>4 DEF Reading, Has
  <2>5. "trips" \in PcsOf(s) \intersect Busy
    BY DEF PcsOf, Busy
  <2> QED
    BY <1>1, <1>2, <2>2, <2>3, <2>4, <2>5, WorkStep
<1>6. ASSUME NEW t \in st[s].pending,
             t \notin slot[x].trips \/ (t # "passive" /\ ~Has(x, t)),
             Throw(s, x, Rest(s, x))
      PROVE  Inv'
  <2>1. x \notin touched => ~Contributes(s, x)
    BY <1>4, <1>6, ContributesIs DEF Has
  <2> QED
    BY <1>1, <1>2, <1>6, <2>1, ThrowStep
<1>7. ASSUME st[s].pending = {}, Yield(s, Item(s, x, st[s].have), Rest(s, x))
      PROVE  Inv'
  <2>1. x \notin touched =>
          Contributes(s, x) /\ st[s].have = Of(s, slot[x]) \X {slot[x].id}
    <3> HAVE x \notin touched
    <3>1. {"temp", "type"} \union ((d.trips \ st[s].pending) \ {"passive"}) = Of(s, d)
      BY <1>7, OfIs
    <3> QED
      BY <1>4, <1>7, <3>1, ContributesIs
  <2> QED
    BY <1>1, <1>2, <1>7, <2>1, YieldStep
<1> QED
  BY <1>5, <1>6, <1>7, ZenonT(60) DEF TripPoint

----------------------------------------------------------------------------
(* The streams of CPUs, and the tables.                                    *)
LEMMA FreqNextStep ==
  ASSUME Inv, FreqNext
  PROVE  Inv'
<1> DEFINE s == "cpufreq"
<1>1. PICK x \in st[s].todo : Visit(s, x, {"cur", "max", "min"})
  BY DEF FreqNext
<1>2. s \in Streams /\ s \in Readers /\ st[s].pc = "next" /\ Unread
  BY StreamsAre DEF FreqNext, Readers, ReadWhole
<1>3. st[s].pc \in Walking /\ x \in OpenSlots(s) /\ st[s].pc \notin Busy
  BY <1>2, NextFacts
<1>4. Found(s, slot[x])
  BY DEF Found
<1> QED
  BY <1>1, <1>2, <1>3, <1>4, FilesAre, VisitStep

LEMMA ReadFreqStep ==
  ASSUME Inv, ReadFreq
  PROVE  Inv'
<1>1. "cpufreq" \in ReadWhole /\ "cpufreq" \in Readers
  BY DEF ReadWhole, Readers
<1>2. CASE Required("cpufreq", "cur")
  BY <1>1, <1>2, FilesAre, RequiredStep
<1>3. CASE Optional("cpufreq", "max") \/ Optional("cpufreq", "min")
  BY <1>1, <1>3, FilesAre, OptionalStep
<1>4. CASE Deliver("cpufreq")
  BY <1>1, <1>4, DeliverStep
<1> QED
  BY <1>2, <1>3, <1>4 DEF ReadFreq

LEMMA TopologyStep ==
  ASSUME Inv, Topology
  PROVE  Inv'
<1> DEFINE s == "core_id"
<1>1. s \in Streams /\ s \in ReadWhole /\ s \in Readers
  BY StreamsAre DEF ReadWhole, Readers
<1>2. ASSUME st[s].pc = "next", NEW x \in st[s].todo, Visit(s, x, {"core_id"}), Unread
      PROVE  Inv'
  <2>1. st[s].pc \in Walking /\ x \in OpenSlots(s) /\ st[s].pc \notin Busy
    BY <1>1, <1>2, NextFacts
  <2>2. Found(s, slot[x])
    BY DEF Found
  <2> QED
    BY <1>1, <1>2, <2>1, <2>2, FilesAre, VisitStep
<1>3. CASE Required(s, "core_id")
  BY <1>1, <1>3, FilesAre, RequiredStep
<1>4. CASE Deliver(s)
  BY <1>1, <1>4, DeliverStep
<1> QED
  BY <1>2, <1>3, <1>4 DEF Topology

(* A row that was read is the one of the device that stays. *)
LEMMA RowFacts ==
  ASSUME Inv, NEW s \in RowStreams, st[s].pc = "next", NEW x \in st[s].todo
  PROVE  /\ s \in Streams /\ x \in Slot /\ x \in Slots[Kind[s]]
         /\ st[s].pc \in Walking /\ x \in OpenSlots(s) /\ st[s].pc \notin Busy
         /\ x \notin touched => seen[x] = slot[x] /\ slot[x] # Empty
<1>1. s \in Streams
  BY StreamsAre DEF RowStreams
<1>2. /\ st[s].pc \in Walking /\ x \in OpenSlots(s) /\ st[s].pc \notin Busy
      /\ x \notin touched => slot[x] # Empty
      /\ x \in Slots[Kind[s]]
  BY <1>1, NextFacts
<1>3. x \notin touched => seen[x] = slot[x]
  BY <1>2 DEF Inv, MountsOK
<1> QED
  BY <1>1, <1>2, <1>3, KindsAre

LEMMA TableRowStep ==
  ASSUME Inv, TableRow
  PROVE  Inv'
<1>1. PICK s \in {"stat", "net"} :
        /\ st[s].pc = "next"
        /\ \E x \in st[s].todo :
             \/ Parsed(x) /\ Yield(s, Item(s, x, {}), Rest(s, x))
             \/ ~Parsed(x) /\ Throw(s, x, Rest(s, x))
  BY DEF TableRow
<1>2. PICK x \in st[s].todo :
        \/ Parsed(x) /\ Yield(s, Item(s, x, {}), Rest(s, x))
        \/ ~Parsed(x) /\ Throw(s, x, Rest(s, x))
  BY <1>1
<1>3. s \in RowStreams /\ Unread
  BY DEF TableRow, RowStreams
<1>4. /\ s \in Streams /\ x \in Slot
      /\ st[s].pc \in Walking /\ x \in OpenSlots(s) /\ st[s].pc \notin Busy
      /\ x \notin touched => seen[x] = slot[x]
  BY <1>1, <1>3, RowFacts
<1>5. x \notin touched => (Contributes(s, x) <=> Parsed(x))
  BY <1>4, ContributesIs DEF Parsed
<1>6. CASE Parsed(x) /\ Yield(s, Item(s, x, {}), Rest(s, x))
  <2>1. PICK h : h = {}
    OBVIOUS
  <2>2. h = Of(s, slot[x]) \X {slot[x].id}
    <3>1. Of(s, slot[x]) = {}
      BY OfIs
    <3> QED
      BY <2>1, <3>1
  <2>3. Yield(s, Item(s, x, h), Rest(s, x))
    BY <1>6, <2>1
  <2> QED
    BY <1>1, <1>3, <1>4, <1>5, <1>6, <2>2, <2>3, YieldStep
<1>7. CASE ~Parsed(x) /\ Throw(s, x, Rest(s, x))
  BY <1>1, <1>3, <1>4, <1>5, <1>7, ThrowStep
<1> QED
  BY <1>2, <1>6, <1>7

LEMMA RowIs ==
  ASSUME NEW s \in {"diskstats", "mounts"}, NEW x, seen[x] = slot[x]
  PROVE  {<<"row", seen[x].id>>} = Of(s, slot[x]) \X {slot[x].id}
<1>1. Of(s, slot[x]) = {"row"}
  BY OfIs
<1> QED
  BY <1>1

LEMMA IoCountersPhysicalStep ==
  ASSUME Inv, IoCountersPhysical
  PROVE  Inv'
<1> DEFINE s == "diskstats"
<1>1. PICK x \in st[s].todo :
        \/ /\ Parsed(x) /\ IsStorageDevice(x)
           /\ Yield(s, Row(s, x), Rest(s, x))
        \/ Parsed(x) /\ ~IsStorageDevice(x) /\ Goto(s, Rest(s, x))
        \/ ~Parsed(x) /\ Throw(s, x, Rest(s, x))
  BY DEF IoCountersPhysical
<1>2. s \in RowStreams /\ st[s].pc = "next" /\ Unread
  BY DEF IoCountersPhysical, RowStreams
<1>3. /\ s \in Streams /\ x \in Slot
      /\ st[s].pc \in Walking /\ x \in OpenSlots(s) /\ st[s].pc \notin Busy
      /\ x \notin touched => seen[x] = slot[x]
  BY <1>2, RowFacts
<1>4. x \notin touched => (Contributes(s, x) <=> Parsed(x) /\ IsStorageDevice(x))
  BY <1>3, ContributesIs DEF IsStorageDevice, Has, Parsed
<1>5. CASE Parsed(x) /\ IsStorageDevice(x) /\ Yield(s, Row(s, x), Rest(s, x))
  <2>1. x \notin touched => {<<"row", seen[x].id>>} = Of(s, slot[x]) \X {slot[x].id}
    BY <1>3, RowIs
  <2>2. Yield(s, Item(s, x, {<<"row", seen[x].id>>}), Rest(s, x))
    BY <1>5 DEF Row
  <2> QED
    BY <1>2, <1>3, <1>4, <1>5, <2>1, <2>2, YieldStep
<1>6. CASE Parsed(x) /\ ~IsStorageDevice(x) /\ Goto(s, Rest(s, x))
  BY <1>2, <1>3, <1>4, <1>6, SkipStep
<1>7. CASE ~Parsed(x) /\ Throw(s, x, Rest(s, x))
  BY <1>2, <1>3, <1>4, <1>7, ThrowStep
<1> QED
  BY <1>1, <1>5, <1>6, <1>7

(* A row that is still what the slot holds is judged by what is known of   *)
(* its file system.                                                        *)
LEMMA PartitionsPhysicalStep ==
  ASSUME Inv, PartitionsPhysical
  PROVE  Inv'
<1> DEFINE s == "mounts"
<1>1. PICK x \in st[s].todo :
        \/ /\ "text" \in seen[x].files
           /\ MountRow(x, /\ {"row", "device"} \subseteq seen[x].files
                          /\ seen[x].fs \in known)
        \/ "text" \notin seen[x].files /\ Throw(s, x, Rest(s, x))
  BY DEF PartitionsPhysical
<1> DEFINE keep == {"row", "device"} \subseteq seen[x].files /\ seen[x].fs \in known
<1>2. s \in RowStreams /\ st[s].pc = "next" /\ Unread
  BY DEF PartitionsPhysical, RowStreams
<1>3. /\ s \in Streams /\ x \in Slots[Kind[s]]
      /\ st[s].pc \in Walking /\ x \in OpenSlots(s) /\ st[s].pc \notin Busy
      /\ x \notin touched => seen[x] = slot[x] /\ slot[x] # Empty
  BY <1>2, RowFacts
<1>4. x \in Slots["mount"] /\ known # {}
  BY <1>2, <1>3, KindIs DEF Inv, MountsOK
<1>5. x \notin touched => (Contributes(s, x) <=> "text" \in seen[x].files /\ keep)
  <2> HAVE x \notin touched
  <2>1. slot[x].fs \in known <=> (slot[x].fs \notin NoDev \/ slot[x].fs = "zfs")
    BY <1>3, <1>4 DEF Inv, MountsOK
  <2> QED
    BY <1>3, <2>1, ContributesIs
<1>6. CASE "text" \in seen[x].files /\ keep /\ Yield(s, Row(s, x), Rest(s, x))
  <2>1. x \notin touched => {<<"row", seen[x].id>>} = Of(s, slot[x]) \X {slot[x].id}
    BY <1>3, RowIs
  <2>2. Yield(s, Item(s, x, {<<"row", seen[x].id>>}), Rest(s, x))
    BY <1>6 DEF Row
  <2> QED
    BY <1>2, <1>3, <1>5, <1>6, <2>1, <2>2, YieldStep
<1>7. CASE ~keep /\ Goto(s, Rest(s, x))
  BY <1>2, <1>3, <1>5, <1>7, SkipStep
<1>8. CASE "text" \notin seen[x].files /\ Throw(s, x, Rest(s, x))
  BY <1>2, <1>3, <1>5, <1>8, ThrowStep
<1> QED
  BY <1>1, <1>6, <1>7, <1>8 DEF MountRow

----------------------------------------------------------------------------
(* The listing in front of a stream.                                       *)
LEMMA KindOfRuns ==
  ASSUME NEW s \in Streams, Runs(s), CallOK
  PROVE  Kind[s] \in class \/ op = "temperatures"
<1>1. op # "temperatures" => Kind[s] \in KindsOf(op)
  BY DEF Runs, KindsOf
<1> QED
  BY <1>1 DEF CallOK, Runs

LEMMA RootStep ==
  ASSUME RootOK, ProcfsRoot \/ UNCHANGED <<root, roots>>
  PROVE  RootOK'
BY DEF RootOK, ProcfsRoot

LEMMA ListStep ==
  ASSUME Inv, NEW s \in Streams, List(s)
  PROVE  Inv'
<1>1. /\ st[s].pc = "list" /\ (s = "mounts" => known # {})
      /\ seen' = IF op \in ProcOps THEN slot ELSE seen
      /\ ProcfsRoot \/ UNCHANGED <<root, roots>>
      /\ UNCHANGED <<known, result>> /\ Still
  BY DEF List
<1>2. RootOK'
  BY <1>1, RootStep DEF Inv
<1>3. seen' = [x \in Slot |-> seen'[x]]
  BY <1>1 DEF Inv, SlotsOK
<1>4. StreamOK(s) /\ Runs(s) /\ StreamIsExact(s) /\ st = [t \in Streams |-> st[t]]
  BY <1>1 DEF Inv, StOK, StreamOK, SlotsAreHandled
<1>5. slot' = slot /\ class' = class /\ op' = op /\ touched' = touched
  BY <1>1 DEF Still
<1>6. /\ {"next", "end"} \subseteq PcsOf(s)
      /\ op \in ProcOps => "failed" \in PcsOf(s) /\ op # "temperatures"
  <2>1. op \in ProcOps => s \in RowStreams /\ op # "temperatures"
    BY <1>4, RunsOf, StreamsAre DEF ProcOps, RowStreams
  <2> QED
    BY <1>1, <1>4, <2>1 DEF StreamOK, PcsOf, RowStreams
<1>7. ASSUME NEW r, Move(s, r) PROVE MountsOK'
  <2>1. \A t \in Streams : st'[t] = IF s = t THEN r ELSE st[t]
    BY <1>4, <1>7 DEF Move
  <2>2. \A x : seen'[x] = slot[x] \/ seen'[x] = seen[x]
    BY <1>1
  <2>3. s \in RowStreams => \A x : seen'[x] = slot[x]
    <3>1. s \in RowStreams => op \in ProcOps
      BY <1>4, RunsOf DEF ProcOps, RowStreams
    <3> QED
      BY <1>1, <3>1
  <2>4. /\ RowStreams \subseteq Streams /\ "mounts" \in RowStreams
        /\ known' = known /\ (s = "mounts" => known # {})
    BY <1>1, StreamsAre DEF RowStreams
  <2>5. \A t \in RowStreams : st'[t].pc = "next" =>
          \A x \in Slots[Kind[t]] \ touched : seen'[x] = slot[x]
    BY <2>1, <2>2, <2>3, <2>4 DEF Inv, MountsOK
  <2>6. st'["mounts"].pc \notin {"wait", "list", "failed"} => known # {}
    BY <2>1, <2>4 DEF Inv, MountsOK
  <2> QED
    BY <1>5, <2>4, <2>5, <2>6 DEF Inv, MountsOK
<1>s. ASSUME NEW r, Move(s, r), r.pc \in {"next", "end", "failed"}, out' = out,
             \/ errors' = errors
             \/ Kind[s] \notin class /\ errors' = errors \union {<<s, "class">>}
      PROVE  SaidOK'
  <2>1. \A t \in Streams : st'[t] = IF s = t THEN r ELSE st[t]
    BY <1>4, <1>s DEF Move
  <2>2. Excused' <=> Excused
    BY <1>5 DEF Excused, IsSensor
  <2>3. st'["hwmon_device"].pc = "device" =>
          \E y \in st'["hwmon_device"].inside : y \in touched' \/ Has(y, "device")'
    <3> HAVE st'["hwmon_device"].pc = "device"
    <3>1. st'["hwmon_device"] = st["hwmon_device"]
      BY <1>s, <2>1, StreamsAre
    <3> QED
      BY <1>5, <3>1 DEF Inv, SaidOK, Has
  <2>4. st'["thermal_zone"].pc = "wait" => st["thermal_zone"].pc = "wait"
    BY <1>s, <2>1, StreamsAre
  <2>5. ("hwmon" \in class /\ op = "temperatures" /\ st'["thermal_zone"].pc = "wait")
          => errors' = errors
    <3> HAVE "hwmon" \in class /\ op = "temperatures" /\ st'["thermal_zone"].pc = "wait"
    <3>1. s # "thermal_zone"
      BY <1>s, <2>1
    <3>2. s \in {"hwmon", "hwmon_device"}
      BY <1>4, <3>1, RunsOf
    <3> QED
      BY <1>s, <3>2, KindIs
  <2> QED
    BY <1>5, <1>s, <2>2, <2>3, <2>4, <2>5 DEF Inv, SaidOK
<1>8. ASSUME Kind[s] \notin class, Throw(s, "class", At("end"))
      PROVE  Inv'
  <2> DEFINE r == At("end")
  <2>1. op \notin {"frequency", "physical_count"}
    BY <1>4, <1>8, KindOfRuns DEF Inv
  <2>2. Move(s, r) /\ out' = out /\ errors' = errors \union {<<s, "class">>}
    BY <1>8, <2>1 DEF Throw, Move
  <2>3. r.pc = "end" /\ r.todo = {} /\ r.inside = {} /\ Shape(r)
    BY DEF At, Shape
  <2>4. st'[s] = r
    BY <1>4, <2>2 DEF Move
  <2> HIDE DEF r
  <2>5. StreamOK(s)'
    BY <1>4, <1>5, <1>6, <2>2, <2>3, <2>4
       DEF StreamOK, Runs, Busy, Walking, Underway
  <2>6. StreamIsExact(s)'
    BY <1>5, <1>8 DEF StreamIsExact
  <2>7. YieldsFor(s) /\ FailsFor(s) /\ MountsOK' /\ SaidOK'
    BY <1>7, <1>8, <1>s, <2>2, <2>3 DEF YieldsFor, FailsFor
  <2> QED
    BY <1>1, <1>2, <1>3, <2>2, <2>3, <2>5, <2>6, <2>7, MoveStep
<1>9. ASSUME Kind[s] \in class,
             Goto(s, [At("next") EXCEPT !.todo = Listed(s) \union (Headers(s) \ Skipped(s))])
      PROVE  Inv'
  <2> DEFINE r == [pc |-> "next", todo |-> Listed(s), inside |-> {},
                   cur |-> "none", pending |-> {}, have |-> {}]
  <2>1. Headers(s) \ Skipped(s) = {}
    BY DEF Headers, Skipped
  <2>2. [At("next") EXCEPT !.todo = Listed(s) \union (Headers(s) \ Skipped(s))] = r
    BY <2>1 DEF At
  <2>3. Move(s, r) /\ out' = out /\ errors' = errors
    BY <1>9, <2>2 DEF Goto
  <2>4. r.pc = "next" /\ r.todo = Listed(s) /\ r.inside = {} /\ Shape(r)
    BY DEF Shape
  <2>5. st'[s] = r
    BY <1>4, <2>3 DEF Move
  <2> HIDE DEF r
  <2>6. Listed(s) \subseteq Slots[Kind[s]] /\ Listed(s)' = Listed(s)
    BY <1>5 DEF Listed
  <2>7. StreamOK(s)'
    BY <1>4, <1>5, <1>6, <1>9, <2>3, <2>4, <2>5, <2>6
       DEF StreamOK, Runs, Busy, Walking, Underway
  <2>8. OpenSlots(s)' = Listed(s)
    BY <2>4, <2>5 DEF OpenSlots, Busy
  <2>9. ASSUME NEW x \in Slots[Kind[s]] \ touched PROVE SlotOK(s, x)'
    <3>1. Fresh(s, x)
      BY <1>1, <1>4, <1>9, <2>9 DEF StreamIsExact, SlotOK
    <3>2. Fresh(s, x)' /\ ItemsOf(s, x)' = {}
      BY <2>3, <3>1 DEF Fresh, ItemsOf
    <3>3. ASSUME x \notin Listed(s)
          PROVE  /\ slot[x] = Empty \/ ~Contributes(s, x)
                 /\ (s = "cpufreq" /\ slot[x] # Empty) =>
                      ~(x \in Globbed /\ "cpufreq" \in slot[x].files)
      <4>1. slot[x] = Empty \/ (/\ s \in {"cpufreq", "core_id"}
                                /\ ~(x \in Globbed /\ s \in slot[x].files))
        BY <2>9, <3>3 DEF Listed
      <4> QED
        BY <4>1, ContributesIs
    <3>4. x \notin Listed(s) => Handled(s, x)'
      BY <1>5, <3>2, <3>3, SameContribution DEF Handled
    <3> QED
      BY <2>4, <2>5, <2>6, <2>8, <3>2, <3>4 DEF SlotOK, Busy, Walking, Underway
  <2>10. StreamIsExact(s)'
    BY <1>5, <2>9 DEF StreamIsExact
  <2>11. YieldsFor(s) /\ FailsFor(s) /\ MountsOK' /\ SaidOK'
    BY <1>7, <1>s, <2>3, <2>4 DEF YieldsFor, FailsFor
  <2> QED
    BY <1>1, <1>2, <1>3, <2>3, <2>4, <2>7, <2>10, <2>11, MoveStep
<1>10. ASSUME op \in ProcOps, Goto(s, At("failed"))
       PROVE  Inv'
  <2> DEFINE r == At("failed")
  <2>1. r.pc = "failed" /\ r.todo = {} /\ r.inside = {} /\ Shape(r)
    BY DEF At, Shape
  <2>2. Move(s, r) /\ out' = out /\ errors' = errors
    BY <1>10 DEF Goto
  <2>3. st'[s] = r
    BY <1>4, <2>2 DEF Move
  <2> HIDE DEF r
  <2>4. Kind[s] \in class
    BY <1>4, <1>6, <1>10, KindOfRuns DEF Inv
  <2>5. StreamOK(s)'
    BY <1>4, <1>5, <1>6, <1>10, <2>1, <2>2, <2>3, <2>4
       DEF StreamOK, Runs, Busy, Walking, Underway
  <2>6. OpenSlots(s)' = {}
    BY <2>1, <2>3 DEF OpenSlots, Busy
  <2>7. StreamIsExact(s)'
    BY <2>1, <2>3, <2>6 DEF StreamIsExact, SlotOK, Busy, Walking, Underway
  <2>8. YieldsFor(s) /\ FailsFor(s) /\ MountsOK' /\ SaidOK'
    BY <1>7, <1>s, <2>1, <2>2 DEF YieldsFor, FailsFor
  <2> QED
    BY <1>1, <1>2, <1>3, <2>1, <2>2, <2>5, <2>7, <2>8, MoveStep
<1> QED
  BY <1>8, <1>9, <1>10 DEF List

----------------------------------------------------------------------------
(* Steps that move no stream.                                              *)
LEMMA StreamsStay ==
  ASSUME Inv, UNCHANGED <<st, out, errors, seen>>, Still
  PROVE  /\ StOK' /\ SlotsOK' /\ OutOK' /\ SlotsAreHandled' /\ ZonesOK' /\ SaidOK'
<1>1. /\ slot' = slot /\ class' = class /\ op' = op /\ touched' = touched
      /\ st' = st /\ out' = out /\ errors' = errors /\ seen' = seen
  BY DEF Still
<1>2. StOK'
  BY <1>1 DEF Inv, StOK, StreamOK, Runs, Shape
<1>3. SlotsOK' /\ OutOK'
  BY <1>1 DEF Inv, SlotsOK, OutOK
<1>4. ASSUME NEW s \in Streams, NEW x, SlotOK(s, x) PROVE SlotOK(s, x)'
  BY <1>1, <1>4, SameSlot DEF ItemsOf
<1>5. SlotsAreHandled'
  BY <1>1, <1>4 DEF Inv, SlotsAreHandled, StreamIsExact
<1>6. \A s, x : Contributes(s, x)' <=> Contributes(s, x)
  BY <1>1, SameContribution
<1>7. ZonesOK'
  BY <1>1, <1>6 DEF Inv, ZonesOK
<1>8. SaidOK'
  BY <1>1 DEF Inv, SaidOK, Excused, IsSensor, Has
<1> QED
  BY <1>2, <1>3, <1>5, <1>7, <1>8

LEMMA SameAnswer ==
  ASSUME AnswerOK, UNCHANGED <<result, op, st, out, errors>>
  PROVE  AnswerOK'
<1>1. \A f : Total(f)' = Total(f)
  BY DEF Total
<1>2. Cores' = Cores
  BY DEF Cores
<1> QED
  BY <1>1, <1>2 DEF AnswerOK

(* The kernel knows the file system of every mount that is there, and so   *)
(* does partitions_physical of those that stay.                            *)
LEMMA KnownRead ==
  ASSUME Inv, op = "partitions_physical", ProcfsRoot,
         known' = {"read"} \union {fs \in drivers : fs \notin NoDev \/ fs = "zfs"},
         UNCHANGED <<st, out, errors, result, seen>>, Still
  PROVE  Inv'
<1>1. /\ op = "partitions_physical" /\ ProcfsRoot
      /\ known' = {"read"} \union {fs \in drivers : fs \notin NoDev \/ fs = "zfs"}
      /\ UNCHANGED <<st, out, errors, result, seen>> /\ Still
  OBVIOUS
<1>2. /\ StOK' /\ SlotsOK' /\ OutOK' /\ SlotsAreHandled' /\ ZonesOK' /\ SaidOK'
  BY <1>1, StreamsStay
<1>3. RootOK'
  BY <1>1, RootStep DEF Inv
<1>4. /\ slot' = slot /\ class' = class /\ op' = op /\ drivers' = drivers
      /\ touched' = touched /\ changes' = changes /\ st' = st /\ seen' = seen
      /\ out' = out /\ errors' = errors /\ result' = result
  BY <1>1 DEF Still
<1>5. CallOK' /\ HistoryOK'
  BY <1>1, <1>4 DEF Inv, CallOK, HistoryOK, Mounted, Ops
<1>6. AnswerOK'
  BY <1>4, SameAnswer DEF Inv
<1>7. MountsOK'
  <2>1. ASSUME NEW x \in Slots["mount"] \ touched, slot[x] # Empty
        PROVE  slot[x].fs \in known' <=> (slot[x].fs \notin NoDev \/ slot[x].fs = "zfs")
    <3>1. slot[x].fs \in drivers
      BY <2>1 DEF Inv, HistoryOK, Mounted
    <3> QED
      BY <1>1, <3>1, FilesAssumption
  <2> QED
    BY <1>1, <1>4, <2>1 DEF Inv, MountsOK
<1> QED
  BY <1>2, <1>3, <1>5, <1>6, <1>7 DEF Inv

LEMMA KnownFilesystemsStep ==
  ASSUME Inv, KnownFilesystems
  PROVE  Inv'
<1> DEFINE s == "mounts"
<1>1. /\ s \in Streams /\ st[s].pc = "list" /\ ProcfsRoot
      /\ UNCHANGED <<out, errors, result, seen>> /\ Still
  BY StreamsAre DEF KnownFilesystems
<1>2. StreamOK(s) /\ Runs(s) /\ st = [t \in Streams |-> st[t]]
  BY <1>1 DEF Inv, StOK, StreamOK
<1>3. op = "partitions_physical"
  BY <1>1, <1>2, RunsOf
<1>4. slot' = slot /\ class' = class /\ op' = op /\ touched' = touched
  BY <1>1 DEF Still
<1>5. CASE /\ known' = {"read"} \union {fs \in drivers : fs \notin NoDev \/ fs = "zfs"}
           /\ UNCHANGED st
  BY <1>1, <1>3, <1>5, KnownRead
<1>6. CASE Move(s, At("failed")) /\ UNCHANGED known
  <2> DEFINE r == At("failed")
  <2>1. r.pc = "failed" /\ r.todo = {} /\ r.inside = {} /\ Shape(r)
    BY DEF At, Shape
  <2>2. Move(s, r)
    BY <1>6
  <2>3. st'[s] = r /\ \A t \in Streams \ {s} : st'[t] = st[t]
    BY <1>1, <1>2, <2>2 DEF Move
  <2> HIDE DEF r
  <2>4. Kind[s] \in class
    BY <1>1, <1>2, <1>3, KindOfRuns DEF Inv
  <2>5. StreamOK(s)'
    BY <1>2, <1>4, <2>1, <2>3, <2>4
       DEF StreamOK, Runs, PcsOf, Busy, Walking, Underway
  <2>6. OpenSlots(s)' = {}
    BY <2>1, <2>3 DEF OpenSlots, Busy
  <2>7. StreamIsExact(s)'
    BY <2>1, <2>3, <2>6 DEF StreamIsExact, SlotOK, Busy, Walking, Underway
  <2>8. RootOK' /\ seen' = [x \in Slot |-> seen'[x]]
    BY <1>1, RootStep DEF Inv, SlotsOK
  <2>9. MountsOK'
    BY <1>1, <1>4, <1>6, <2>1, <2>3, StreamsAre DEF Inv, MountsOK, RowStreams
  <2>10. SaidOK'
    <3>1. /\ st'["hwmon_device"] = st["hwmon_device"]
          /\ st'["thermal_zone"] = st["thermal_zone"]
      BY <2>3, StreamsAre
    <3> QED
      BY <1>1, <1>4, <3>1 DEF Inv, SaidOK, Excused, IsSensor, Has
  <2>11. YieldsFor(s) /\ FailsFor(s)
    BY <1>1 DEF YieldsFor, FailsFor
  <2> QED
    BY <1>1, <1>6, <2>1, <2>2, <2>5, <2>7, <2>8, <2>9, <2>10, <2>11, MoveStep
<1> QED
  BY <1>5, <1>6 DEF KnownFilesystems

LEMMA SetProcfsRootStep ==
  ASSUME Inv, SetProcfsRoot
  PROVE  Inv'
<1>1. /\ root' = IF root = "unset" THEN "custom" ELSE root
      /\ UNCHANGED <<known, out, errors, result, seen, st, roots>> /\ Still
  BY DEF SetProcfsRoot
<1>2. /\ StOK' /\ SlotsOK' /\ OutOK' /\ SlotsAreHandled' /\ ZonesOK' /\ SaidOK'
  BY <1>1, StreamsStay
<1>3. RootOK'
  BY <1>1 DEF Inv, RootOK
<1>4. /\ slot' = slot /\ class' = class /\ op' = op /\ drivers' = drivers
      /\ touched' = touched /\ changes' = changes /\ st' = st /\ seen' = seen
      /\ out' = out /\ errors' = errors /\ result' = result /\ known' = known
  BY <1>1 DEF Still
<1>5. CallOK' /\ HistoryOK' /\ MountsOK'
  BY <1>4 DEF Inv, CallOK, HistoryOK, Mounted, MountsOK
<1>6. AnswerOK'
  BY <1>4, SameAnswer DEF Inv
<1> QED
  BY <1>2, <1>3, <1>5, <1>6 DEF Inv

(* The call returns. *)
LEMMA FinishStep ==
  ASSUME Inv, NEW r, Finish(r), op \in Ops,
         r.kind \in {"none", "Ok", "Err", "None"}, AnswerOK'
  PROVE  Inv'
<1>1. /\ result' = r
      /\ UNCHANGED <<st, known, out, errors, seen, root, roots>> /\ Still
  BY DEF Finish
<1>2. /\ StOK' /\ SlotsOK' /\ OutOK' /\ SlotsAreHandled' /\ ZonesOK' /\ SaidOK'
  BY <1>1, StreamsStay
<1>3. /\ slot' = slot /\ class' = class /\ op' = op /\ drivers' = drivers
      /\ touched' = touched /\ changes' = changes /\ st' = st /\ seen' = seen
      /\ out' = out /\ errors' = errors /\ known' = known
      /\ root' = root /\ roots' = roots
  BY <1>1 DEF Still
<1>4. CallOK' /\ HistoryOK' /\ MountsOK' /\ RootOK'
  BY <1>1, <1>3 DEF Inv, CallOK, HistoryOK, Mounted, MountsOK, RootOK, Ops
<1> QED
  BY <1>2, <1>4 DEF Inv

LEMMA ResultIs ==
  ASSUME NEW k
  PROVE  [NoResult EXCEPT !.kind = k].kind = k
BY DEF NoResult

LEMMA FinishedFacts ==
  ASSUME NEW r, Finish(r)
  PROVE  /\ result' = r /\ op' = op /\ st' = st /\ out' = out /\ errors' = errors
         /\ Cores' = Cores /\ \A f : Total(f)' = Total(f)
<1>1. result' = r /\ op' = op /\ st' = st /\ out' = out /\ errors' = errors
  BY DEF Finish, Still
<1> QED
  BY <1>1 DEF Cores, Total

LEMMA FrequencyStep ==
  ASSUME Inv, Frequency
  PROVE  Inv'
<1>1. op = "frequency" /\ op \in Ops
  BY DEF Frequency, Ops
<1>2. ASSUME Finish([NoResult EXCEPT !.kind = "Err"])
      PROVE  Inv'
  <2> DEFINE r == [NoResult EXCEPT !.kind = "Err"]
  <2>1. r.kind = "Err" /\ Finish(r)
    BY <1>2, ResultIs
  <2> HIDE DEF r
  <2>2. AnswerOK'
    BY <2>1, FinishedFacts DEF AnswerOK
  <2> QED
    BY <1>1, <2>1, <2>2, FinishStep
<1>3. ASSUME st["cpufreq"].pc = "end", out # {},
             Finish([kind |-> "Ok", n |-> Total("cur") \div Cardinality(out),
                     lo |-> Total("min") \div Cardinality(out),
                     hi |-> Total("max") \div Cardinality(out)])
      PROVE  Inv'
  <2> DEFINE r == [kind |-> "Ok", n |-> Total("cur") \div Cardinality(out),
                   lo |-> Total("min") \div Cardinality(out),
                   hi |-> Total("max") \div Cardinality(out)]
  <2>1. /\ r.kind = "Ok" /\ r.n = Total("cur") \div Cardinality(out)
        /\ r.lo = Total("min") \div Cardinality(out)
        /\ r.hi = Total("max") \div Cardinality(out)
    OBVIOUS
  <2>2. Finish(r)
    BY <1>3
  <2> HIDE DEF r
  <2>3. /\ result' = r /\ op' = op /\ st' = st /\ out' = out
        /\ \A f : Total(f)' = Total(f)
    BY <2>2, FinishedFacts
  <2>4. AnswerOK'
    BY <1>1, <1>3, <2>1, <2>3 DEF AnswerOK
  <2> QED
    BY <1>1, <2>1, <2>2, <2>4, FinishStep
<1> QED
  BY <1>2, <1>3 DEF Frequency

LEMMA PhysicalCountStep ==
  ASSUME Inv, PhysicalCount
  PROVE  Inv'
<1>1. op = "physical_count" /\ op \in Ops
  BY DEF PhysicalCount, Ops
<1>2. ASSUME Finish(CpuInfo) PROVE Inv'
  <2>1. CpuInfo.kind \in {"Err", "None"}
    BY ResultIs DEF CpuInfo
  <2>2. AnswerOK'
    BY <1>2, <2>1, FinishedFacts DEF AnswerOK
  <2> QED
    BY <1>1, <1>2, <2>1, <2>2, FinishStep
<1>3. ASSUME st["core_id"].pc = "end",
             Finish([NoResult EXCEPT !.kind = "Ok", !.n = Cardinality(Cores)])
      PROVE  Inv'
  <2> DEFINE r == [NoResult EXCEPT !.kind = "Ok", !.n = Cardinality(Cores)]
  <2>1. r.kind = "Ok" /\ r.n = Cardinality(Cores)
    BY DEF NoResult
  <2>2. Finish(r)
    BY <1>3
  <2> HIDE DEF r
  <2>3. AnswerOK'
    BY <1>1, <1>3, <2>1, <2>2, FinishedFacts DEF AnswerOK
  <2> QED
    BY <1>1, <2>1, <2>2, <2>3, FinishStep
<1> QED
  BY <1>2, <1>3 DEF PhysicalCount

(* The other calls return no number that is made of items. *)
LEMMA OtherStep ==
  ASSUME Inv, NEW r, Finish(r), op \in Ops \ {"frequency", "physical_count"},
         r.kind \in {"Ok", "Err"},
         (r.kind = "Ok" /\ op = "temperatures" /\ st["thermal_zone"].pc = "wait")
           => out \union errors # {}
  PROVE  Inv'
<1>1. AnswerOK'
  BY FinishedFacts DEF AnswerOK
<1> QED
  BY <1>1, FinishStep

LEMMA StreamEndsStep ==
  ASSUME Inv, StreamEnds
  PROVE  Inv'
<1>1. op \in Ops \ {"frequency", "physical_count"}
  BY DEF StreamEnds, Ops
<1>2. (op = "temperatures" /\ st["thermal_zone"].pc = "wait") => out \union errors # {}
  BY DEF StreamEnds
<1>3. Finish([NoResult EXCEPT !.kind = "Ok"])
  BY DEF StreamEnds
<1> QED
  BY <1>1, <1>2, <1>3, ResultIs, OtherStep

LEMMA CallFailsStep ==
  ASSUME Inv, CallFails
  PROVE  Inv'
<1>1. op \in Ops \ {"frequency", "physical_count"}
  BY DEF CallFails, ProcOps, Ops
<1>2. Finish([NoResult EXCEPT !.kind = "Err"])
  BY DEF CallFails
<1>3. [NoResult EXCEPT !.kind = "Err"].kind = "Err"
  BY ResultIs
<1> QED
  BY <1>1, <1>2, <1>3, OtherStep

LEMMA LogicalCountStep ==
  ASSUME Inv, LogicalCount
  PROVE  Inv'
<1> DEFINE s == "logical"
<1>1. /\ s \in Streams /\ st[s].pc \in {"sysconf", "cpuinfo", "stat", "failed"}
  BY StreamsAre DEF LogicalCount, Try
<1>2. StreamOK(s) /\ Runs(s) /\ st = [t \in Streams |-> st[t]]
  BY <1>1 DEF Inv, StOK, StreamOK
<1>3. op = "logical_count" /\ op \in Ops \ {"frequency", "physical_count"}
  BY <1>1, <1>2, RunsOf DEF Ops
<1>4. ASSUME Finish([NoResult EXCEPT !.kind = "Ok", !.n = Cardinality(Online)])
      PROVE  Inv'
  <2>1. [NoResult EXCEPT !.kind = "Ok", !.n = Cardinality(Online)].kind = "Ok"
    BY DEF NoResult
  <2> QED
    BY <1>3, <1>4, <2>1, OtherStep
<1>5. ASSUME Finish([NoResult EXCEPT !.kind = "Err"]) PROVE Inv'
  BY <1>3, <1>5, ResultIs, OtherStep
<1>6. ASSUME NEW l \in {"cpuinfo", "stat", "failed"}, Goto(s, At(l)), Unread,
             st[s].pc # "failed"
      PROVE  Inv'
  <2> DEFINE r == At(l)
  <2>1. r.pc = l /\ r.todo = {} /\ r.inside = {} /\ Shape(r)
    BY DEF At, Shape
  <2>2. Move(s, r) /\ out' = out /\ errors' = errors /\ st'[s] = r
    BY <1>1, <1>2, <1>6 DEF Goto, Move
  <2> HIDE DEF r
  <2>3. /\ slot' = slot /\ class' = class /\ op' = op /\ touched' = touched
        /\ known' = known /\ result' = result /\ seen' = seen
        /\ root' = root /\ roots' = roots /\ Still
    BY <1>6, Steady DEF Unread
  <2>4. Kind[s] \in class
    BY <1>1, <1>2 DEF StreamOK
  <2>5. StreamOK(s)'
    BY <1>2, <2>1, <2>2, <2>3, <2>4
       DEF StreamOK, Runs, PcsOf, Busy, Walking, Underway
  <2>6. OpenSlots(s)' = {}
    BY <2>1, <2>2 DEF OpenSlots, Busy
  <2>7. StreamIsExact(s)'
    BY <2>1, <2>2, <2>6 DEF StreamIsExact, SlotOK, Busy, Walking, Underway
  <2>8. RootOK' /\ seen' = [x \in Slot |-> seen'[x]]
    BY <2>3 DEF Inv, RootOK, SlotsOK
  <2>9. MountsOK' /\ SaidOK'
    <3>1. \A t \in Streams \ {s} : st'[t] = st[t]
      BY <1>2, <2>2 DEF Move
    <3>2. \A t \in RowStreams \union {"hwmon_device", "thermal_zone"} : st'[t] = st[t]
      BY <3>1, StreamsAre DEF RowStreams
    <3>3. MountsOK'
      BY <2>3, <3>2 DEF Inv, MountsOK, RowStreams
    <3>4. SaidOK'
      BY <2>2, <2>3, <3>2 DEF Inv, SaidOK, Excused, IsSensor, Has
    <3> QED
      BY <3>3, <3>4
  <2>10. YieldsFor(s) /\ FailsFor(s)
    BY <2>2 DEF YieldsFor, FailsFor
  <2> QED
    BY <1>1, <2>1, <2>2, <2>3, <2>5, <2>7, <2>8, <2>9, <2>10, MoveStep
<1> QED
  BY <1>4, <1>5, <1>6 DEF LogicalCount, Try

----------------------------------------------------------------------------
(* The system: devices come and go.                                        *)
LEMMA ChangeStep ==
  ASSUME Inv, Change
  PROVE  Inv'
<1>1. PICK x \in Slot, k \in class :
        /\ x \in Slots[k]
        /\ \E f \in [Beside[x] -> Devices[k] \union {Empty}] :
             slot' = [y \in Slot |-> IF y \in Beside[x] THEN f[y] ELSE slot[y]]
        /\ touched' = touched \union Beside[x]
  BY DEF Change
<1>2. PICK f \in [Beside[x] -> Devices[k] \union {Empty}] :
        slot' = [y \in Slot |-> IF y \in Beside[x] THEN f[y] ELSE slot[y]]
  BY <1>1
<1>3. /\ op # "none" /\ result = NoResult /\ changes < MaxChanges
      /\ drivers' = drivers \union Mounted(slot') /\ changes' = changes + 1
      /\ class' = class /\ op' = op /\ st' = st /\ known' = known /\ out' = out
      /\ errors' = errors /\ result' = result /\ seen' = seen
      /\ root' = root /\ roots' = roots
  BY DEF Change
<1>4. slot = [y \in Slot |-> slot[y]] /\ k \in DOMAIN Slots
  BY DEF Inv, SlotsOK, HistoryOK
<1>5. /\ Beside[x] \subseteq Slots[k] /\ Beside[x] \subseteq Slot
      /\ \A y \in Beside[x] : slot'[y] \in Devices[k] \union {Empty}
      /\ \A y \in Slot \ Beside[x] : slot'[y] = slot[y]
  <2>1. Beside[x] \subseteq Slots[k]
    BY <1>1, <1>4, FilesAssumption
  <2>2. Beside[x] \subseteq Slot
    BY <1>4, <2>1, KindsAre
  <2> QED
    BY <1>2, <2>1, <2>2
<1>6. SlotsOK'
  <2>1. ASSUME NEW j \in DOMAIN Slots, NEW y \in Slots[j]
        PROVE  slot'[y] \in Devices[j] \union {Empty}
    <3>1. CASE y \in Beside[x]
      <4>1. j = k
        BY <1>4, <1>5, <3>1, FilesAssumption
      <4> QED
        BY <1>5, <3>1, <4>1
    <3>2. CASE y \notin Beside[x]
      BY <1>5, <3>2, KindsAre DEF Inv, SlotsOK
    <3> QED
      BY <3>1, <3>2
  <2>2. slot' = [y \in Slot |-> slot'[y]]
    BY <1>2
  <2> QED
    BY <1>3, <2>1, <2>2 DEF Inv, SlotsOK
<1>7. StOK' /\ OutOK' /\ RootOK'
  BY <1>3 DEF Inv, StOK, StreamOK, Runs, Shape, OutOK, RootOK
<1>8. CallOK'
  BY <1>3 DEF Inv, CallOK
<1>9. HistoryOK'
  <2>1. Mounted(slot') \subseteq FileSystems
    BY <1>6, KindsAre DEF SlotsOK, Mounted, FileSystems
  <2>2. changes' \in 0 .. MaxChanges
    BY <1>3, FilesAssumption DEF Inv, HistoryOK
  <2>3. touched' \subseteq Slot
    BY <1>1, <1>5 DEF Inv, HistoryOK
  <2> QED
    BY <1>3, <2>1, <2>2, <2>3 DEF Inv, HistoryOK
<1>10. \A y \in Slot \ touched' : slot'[y] = slot[y] /\ y \notin touched
  BY <1>1, <1>5
<1>11. SlotsAreHandled'
  <2>1. ASSUME NEW s \in Streams, Kind[s] \in class, NEW y \in Slots[Kind[s]] \ touched'
        PROVE  SlotOK(s, y)'
    <3>1. y \in Slot
      BY KindsAre
    <3>2. slot'[y] = slot[y] /\ y \notin touched
      BY <1>10, <3>1
    <3>3. SlotOK(s, y)
      BY <2>1, <3>2 DEF Inv, SlotsAreHandled, StreamIsExact
    <3> QED
      BY <1>3, <3>2, <3>3, SameSlot DEF ItemsOf
  <2> QED
    BY <1>3, <2>1 DEF SlotsAreHandled, StreamIsExact
<1>12. ZonesOK'
  <2>1. ASSUME NEW y \in Slots["hwmon"] \ touched', NEW s
        PROVE  /\ Contributes(s, y)' <=> Contributes(s, y)
               /\ y \notin touched
    <3>1. y \in Slot
      BY KindsAre
    <3> QED
      BY <1>10, <3>1, SameContribution
  <2> QED
    BY <1>3, <2>1 DEF Inv, ZonesOK
<1>13. MountsOK'
  <2>1. ASSUME NEW j \in DOMAIN Slots, NEW y \in Slots[j] \ touched'
        PROVE  slot'[y] = slot[y] /\ y \notin touched
    BY <1>10, <2>1, KindsAre
  <2>2. ASSUME NEW s \in RowStreams, st[s].pc = "next",
               NEW y \in Slots[Kind[s]] \ touched'
        PROVE  seen[y] = slot'[y]
    <3>1. s \in Streams
      BY StreamsAre DEF RowStreams
    <3>2. slot'[y] = slot[y] /\ y \notin touched
      BY <2>1, <3>1, KindsAre
    <3> QED
      BY <2>2, <3>2 DEF Inv, MountsOK
  <2>3. \A y \in Slots["mount"] \ touched' : slot'[y] = slot[y] /\ y \notin touched
    BY <2>1, KindsAre
  <2> QED
    BY <1>3, <2>2, <2>3 DEF Inv, MountsOK
<1>14. AnswerOK'
  BY <1>3, SameAnswer DEF Inv
<1>15. SaidOK'
  <2>1. ASSUME NEW y \in Slots["hwmon"]
        PROVE  \/ y \in touched'
               \/ slot'[y] = slot[y] /\ y \notin touched
    <3>1. y \in Slot
      BY KindsAre
    <3> QED
      BY <1>10, <3>1
  <2>2. touched \subseteq touched'
    BY <1>1
  <2>3. Excused => Excused'
    <3> SUFFICES ASSUME NEW y \in Slots["hwmon"], y \in touched \/ IsSensor(y)
                 PROVE  y \in touched' \/ IsSensor(y)'
      BY DEF Excused
    <3> QED
      BY <2>1, <2>2 DEF IsSensor
  <2>4. st["hwmon_device"].pc = "device" =>
          \E y \in st["hwmon_device"].inside : y \in touched' \/ Has(y, "device")'
    <3> HAVE st["hwmon_device"].pc = "device"
    <3>1. PICK y \in st["hwmon_device"].inside : y \in touched \/ Has(y, "device")
      BY DEF Inv, SaidOK
    <3>2. y \in Slots["hwmon"]
      BY StreamsAre, KindIs DEF Inv, StOK, StreamOK
    <3>3. y \in touched' \/ Has(y, "device")'
      BY <2>1, <2>2, <3>1, <3>2 DEF Has
    <3> QED
      BY <3>3
  <2> QED
    BY <1>3, <2>3, <2>4 DEF Inv, SaidOK
<1> QED
  BY <1>6, <1>7, <1>8, <1>9, <1>11, <1>12, <1>13, <1>14, <1>15 DEF Inv

LEMMA BeginStep ==
  ASSUME Inv, NEW m \in Ops, Begin(m)
  PROVE  Inv'
<1>1. /\ op = "none" /\ op' = m /\ class' \subseteq KindsOf(m)
      /\ m = "temperatures" \/ class' = KindsOf(m)
      /\ drivers' = Mounted(slot') \union NoDev
      /\ st' = [s \in Streams |-> At(IF s \notin StreamsOf(m) THEN "wait"
                                       ELSE IF s = "logical" THEN "sysconf" ELSE "list")]
      /\ known' = known /\ out' = out /\ errors' = errors /\ result' = result
      /\ seen' = seen /\ root' = root /\ roots' = roots /\ touched' = touched
      /\ changes' = changes
  BY DEF Begin
<1>2. PICK f : /\ \A x \in SlotsOf(m) : f[x] \in Allowed(x, class')
               /\ slot' = [x \in Slot |-> IF x \in SlotsOf(m) THEN f[x] ELSE Empty]
  BY DEF Begin
<1>3. out' = {} /\ errors' = {} /\ touched' = {} /\ known' = {} /\ result' = NoResult
  BY <1>1 DEF Inv, CallOK
<1>4. class' \subseteq DOMAIN Slots
  <2>1. KindsOf(m) \subseteq DOMAIN Slots
    <3>1. StreamsOf(m) \subseteq Streams
      BY StreamsAre DEF StreamsOf, Ops
    <3> QED
      BY <3>1, KindsAre DEF KindsOf
  <2> QED
    BY <1>1, <2>1
<1>5. SlotsOK'
  <2>1. ASSUME NEW k \in DOMAIN Slots, NEW x \in Slots[k]
        PROVE  slot'[x] \in Devices[k] \union {Empty}
    <3>1. x \in Slot
      BY KindsAre
    <3>2. CASE x \notin SlotsOf(m)
      BY <1>2, <3>1, <3>2
    <3>3. CASE x \in SlotsOf(m)
      <4>1. slot'[x] \in Allowed(x, class')
        BY <1>2, <3>1, <3>3
      <4>2. \A j \in class' : x \in Slots[j] => j = k
        BY <1>4, <2>1, FilesAssumption
      <4> QED
        BY <4>1, <4>2 DEF Allowed
    <3> QED
      BY <3>2, <3>3
  <2>2. slot' = [x \in Slot |-> slot'[x]]
    BY <1>2
  <2> QED
    BY <1>1, <2>1, <2>2 DEF Inv, SlotsOK
<1>6. HistoryOK'
  <2>1. Mounted(slot') \subseteq FileSystems
    BY <1>5, KindsAre DEF SlotsOK, Mounted, FileSystems
  <2> QED
    BY <1>1, <1>3, <1>4, <2>1 DEF Inv, HistoryOK
<1>7. RootOK' /\ OutOK'
  BY <1>1, <1>3 DEF Inv, RootOK, OutOK
<1>8. CallOK'
  BY <1>1, <1>3 DEF CallOK, Ops
<1>9. ASSUME NEW s \in Streams
      PROVE  /\ st'[s].pc \in {"wait", "list", "sysconf"}
             /\ st'[s].pc = "sysconf" <=> (s = "logical" /\ s \in StreamsOf(m))
             /\ st'[s].pc = "wait" <=> s \notin StreamsOf(m)
             /\ st'[s].todo = {} /\ st'[s].inside = {} /\ Shape(st[s])'
  BY <1>1 DEF At, Shape
<1>10. StOK'
  <2>1. ASSUME NEW s \in Streams PROVE StreamOK(s)'
    <3>1. st'[s].pc \in PcsOf(s)
      BY <1>9, StreamsAre DEF PcsOf
    <3>2. st'[s].pc # "wait" => Runs(s)'
      BY <1>1, <1>9 DEF Runs
    <3>3. Kind[s] \notin class' => st'[s].pc \in {"wait", "list"}
      <4>1. ASSUME s = "logical", s \in StreamsOf(m) PROVE Kind[s] \in class'
        <5>1. m # "temperatures"
          BY <4>1 DEF StreamsOf
        <5> QED
          BY <1>1, <4>1, <5>1 DEF KindsOf
      <4> QED
        BY <1>9, <4>1
    <3> QED
      BY <1>9, <3>1, <3>2, <3>3 DEF StreamOK, Busy, Walking, Underway
  <2>2. st' = [s \in Streams |-> st'[s]]
    BY <1>1
  <2> QED
    BY <2>1, <2>2 DEF StOK
<1>11. SlotsAreHandled'
  <2>1. ASSUME NEW s \in Streams, NEW x PROVE SlotOK(s, x)'
    <3>1. OpenSlots(s)' = {}
      BY <1>9 DEF OpenSlots, Busy
    <3>2. Fresh(s, x)'
      BY <1>3 DEF Fresh, ItemsOf
    <3> QED
      BY <1>9, <3>1, <3>2 DEF SlotOK, Busy, Walking, Underway
  <2> QED
    BY <2>1 DEF SlotsAreHandled, StreamIsExact
<1>12. ZonesOK' /\ MountsOK'
  <2>1. "thermal_zone" \notin StreamsOf(m)
    BY DEF StreamsOf, Ops
  <2>2. st'["thermal_zone"].pc = "wait" /\ st'["mounts"].pc \in {"wait", "list", "sysconf"}
        /\ st'["mounts"].pc # "sysconf"
    BY <1>9, <2>1, StreamsAre
  <2>3. \A s \in RowStreams : st'[s].pc # "next"
    BY <1>9, StreamsAre DEF RowStreams
  <2> QED
    BY <1>3, <2>2, <2>3 DEF ZonesOK, MountsOK
<1>13. AnswerOK'
  <2>1. result'.kind # "Ok"
    BY <1>3 DEF NoResult
  <2> QED
    BY <2>1 DEF AnswerOK
<1>14. SaidOK'
  <2>1. st'["hwmon_device"].pc # "device"
    BY <1>9, StreamsAre
  <2> QED
    BY <1>3, <2>1 DEF SaidOK
<1> QED
  BY <1>5, <1>6, <1>7, <1>8, <1>10, <1>11, <1>12, <1>13, <1>14 DEF Inv

LEMMA InitInv == Init => Inv
<1> SUFFICES ASSUME Init PROVE Inv
  OBVIOUS
<1>1. /\ slot = [x \in Slot |-> Empty] /\ class = {} /\ op = "none"
      /\ st = [s \in Streams |-> At("wait")] /\ drivers = {} /\ known = {}
      /\ out = {} /\ errors = {} /\ result = NoResult /\ seen = slot
      /\ root = "unset" /\ roots = {} /\ touched = {} /\ changes = 0
  BY DEF Init
<1>2. /\ At("wait").pc = "wait" /\ At("wait").todo = {} /\ At("wait").inside = {}
      /\ Shape(At("wait"))
  BY DEF At, Shape
<1>3. \A s \in Streams : /\ st[s].pc = "wait" /\ st[s].todo = {}
                         /\ st[s].inside = {} /\ Shape(st[s])
  BY <1>1, <1>2
<1>4. StOK
  <2>1. ASSUME NEW s \in Streams PROVE StreamOK(s)
    <3>1. "wait" \in PcsOf(s)
      BY DEF PcsOf
    <3> QED
      BY <1>3, <3>1 DEF StreamOK, Busy, Walking, Underway
  <2>2. st = [s \in Streams |-> st[s]]
    BY <1>1
  <2> QED
    BY <2>1, <2>2 DEF StOK
<1>5. SlotsOK
  BY <1>1, KindsAre DEF SlotsOK
<1>6. CallOK /\ RootOK /\ OutOK
  BY <1>1 DEF CallOK, RootOK, OutOK, Ops
<1>7. HistoryOK
  <2>1. result.kind = "none"
    BY <1>1 DEF NoResult
  <2>2. Mounted(slot) = {}
    BY <1>1, KindsAre DEF Mounted
  <2> QED
    BY <1>1, <2>1, <2>2, FilesAssumption DEF HistoryOK
<1>8. SlotsAreHandled
  BY <1>1 DEF SlotsAreHandled, StreamIsExact
<1>9. ZonesOK /\ MountsOK /\ SaidOK
  BY <1>1, <1>3, StreamsAre DEF ZonesOK, MountsOK, SaidOK, RowStreams
<1>10. AnswerOK
  BY <1>1 DEF AnswerOK
<1> QED
  BY <1>4, <1>5, <1>6, <1>7, <1>8, <1>9, <1>10 DEF Inv

LEMMA StutterInv == Inv /\ UNCHANGED vars => Inv'
<1> SUFFICES ASSUME Inv, UNCHANGED vars PROVE Inv'
  OBVIOUS
<1>1. /\ UNCHANGED <<st, out, errors, seen>> /\ Still
      /\ UNCHANGED <<known, result, root, roots, drivers, changes, class, op,
                     touched, slot>>
  BY DEF vars, Still
<1>2. /\ StOK' /\ SlotsOK' /\ OutOK' /\ SlotsAreHandled' /\ ZonesOK' /\ SaidOK'
  BY <1>1, StreamsStay
<1>3. CallOK' /\ HistoryOK' /\ MountsOK' /\ RootOK'
  BY <1>1 DEF Inv, CallOK, HistoryOK, Mounted, MountsOK, RootOK
<1>4. AnswerOK'
  BY <1>1, SameAnswer DEF Inv
<1> QED
  BY <1>2, <1>3, <1>4 DEF Inv

LEMMA NextInv == Inv /\ [Next]_vars => Inv'
<1> SUFFICES ASSUME Inv, [Next]_vars PROVE Inv'
  OBVIOUS
<1>1. CASE UNCHANGED vars
  BY <1>1, StutterInv
<1>2. ASSUME NEW m \in Ops, Begin(m) PROVE Inv'
  BY <1>2, BeginStep
<1>3. CASE Change \/ SetProcfsRoot
  BY <1>3, ChangeStep, SetProcfsRootStep
<1>4. ASSUME NEW s \in Streams, List(s) \/ EndStream(s) PROVE Inv'
  BY <1>4, ListStep, EndStep
<1>5. CASE Temperatures
  BY <1>5, HwmonStep, HwmonDeviceStep, HwmonDeviceDirStep, HwmonInputStep,
     HwmonSensorStep, ChooseZonesStep, ZoneNextStep, ZoneStep, TripPointStep
     DEF Temperatures
<1>6. CASE FreqNext \/ ReadFreq \/ Frequency \/ Topology \/ PhysicalCount \/ LogicalCount
  BY <1>6, FreqNextStep, ReadFreqStep, FrequencyStep, TopologyStep,
     PhysicalCountStep, LogicalCountStep
<1>7. CASE \/ TableRow \/ IoCountersPhysical \/ KnownFilesystems \/ PartitionsPhysical
           \/ StreamEnds \/ CallFails
  BY <1>7, TableRowStep, IoCountersPhysicalStep, KnownFilesystemsStep,
     PartitionsPhysicalStep, StreamEndsStep, CallFailsStep
<1> QED
  BY <1>1, <1>2, <1>3, <1>4, <1>5, <1>6, <1>7 DEF Next, Step

----------------------------------------------------------------------------
(* Every reachable state satisfies the invariant: a slot that nobody has   *)
(* touched is fresh while a stream has it open, what was read of it so far *)
(* is what its device has, and then it has been handled as it should be.   *)
THEOREM Invariance == Spec => []Inv
BY InitInv, NextInv, PTL DEF Spec

(* The call is one of those that heim offers, each stream is in a state    *)
(* that its code has, with slots of its own kind left to do, and what the  *)
(* kernel lists are file systems, whatever comes and goes.                 *)
THEOREM TypeCorrectness == Spec => []TypeOK
<1>1. ASSUME Inv PROVE TypeOK
  <2>1. slot \in [Slot -> {Empty} \union UNION {Devices[k] : k \in DOMAIN Devices}]
    <3>1. ASSUME NEW x \in Slot
          PROVE  slot[x] \in {Empty} \union UNION {Devices[k] : k \in DOMAIN Devices}
      <4>1. PICK k \in DOMAIN Slots : x \in Slots[k]
        BY DEF Slot
      <4> QED
        BY <1>1, <4>1, KindsAre DEF Inv, SlotsOK
    <3>2. slot = [x \in Slot |-> slot[x]]
      BY <1>1 DEF Inv, SlotsOK
    <3> QED
      BY <3>1, <3>2
  <2>2. ASSUME NEW s \in Streams
        PROVE  /\ st[s].pc \in {"wait", "list", "next", "device", "read", "trips",
                                "end", "failed", "sysconf", "cpuinfo", "stat"}
               /\ st[s].todo \subseteq Slots[Kind[s]]
    <3>1. st[s].pc \in PcsOf(s) /\ st[s].todo \subseteq Slots[Kind[s]]
      BY <1>1 DEF Inv, StOK, StreamOK
    <3> QED
      BY <3>1, StreamsAre DEF PcsOf
  <2>3. roots \subseteq {"default", "custom"} /\ root \in {"unset", "default", "custom"}
    BY <1>1 DEF Inv, RootOK
  <2> QED
    BY <1>1, <2>1, <2>2, <2>3 DEF TypeOK, Inv, CallOK, HistoryOK
<1> QED
  BY Invariance, <1>1, PTL

(* All files of one call are below the same root, whenever another thread  *)
(* calls set_procfs_root.                                                  *)
THEOREM FilesHaveOneRoot == Spec => []OneRoot
<1>1. ASSUME Inv PROVE OneRoot
  <2>1. roots \in SUBSET {root}
    BY <1>1 DEF Inv, RootOK
  <2>2. IsFiniteSet({root}) /\ Cardinality({root}) = 1
    BY FS_Singleton
  <2>3. Cardinality(roots) <= Cardinality({root})
    BY <2>1, <2>2, FS_Subset
  <2> QED
    BY <2>2, <2>3 DEF OneRoot
<1> QED
  BY Invariance, <1>1, PTL

----------------------------------------------------------------------------
(* Devices that come and go do not hide or distort the others.             *)
LEMMA InvReports == Inv => UntouchedIsReported
<1> SUFFICES ASSUME Inv,
                    NEW s \in Asked, Kind[s] \in class,
                    NEW x \in Slots[Kind[s]] \ touched
             PROVE  LET items == {i \in out : i.stream = s /\ i.slot = x} IN
                    IF slot[x] = Empty \/ ~Contributes(s, x) THEN items = {} ELSE
                      /\ items = {Item(s, x, Of(s, slot[x]) \X {slot[x].id})}
                      /\ <<s, x>> \notin errors
  BY DEF UntouchedIsReported
<1>1. s \in Streams /\ st[s].pc = "end"
  <2>1. op \in Ops => StreamsOf(op) \subseteq Streams
    BY StreamsAre DEF StreamsOf, Ops
  <2> QED
    BY <2>1, StreamsAre DEF Asked, Inv, CallOK
<1>2. OpenSlots(s) = {}
  BY <1>1 DEF Inv, StOK, StreamOK, OpenSlots, Busy, Walking, Underway
<1>3. Handled(s, x)
  BY <1>1, <1>2 DEF Inv, SlotsAreHandled, StreamIsExact, SlotOK
<1> QED
  BY <1>3 DEF Handled, ItemsOf

LEMMA InvReportsNothingElse == Inv => NothingElseIsReported
<1> SUFFICES ASSUME Inv PROVE NothingElseIsReported
  OBVIOUS
<1>1. ASSUME NEW i \in out, i.stream = "thermal_zone"
      PROVE  st["thermal_zone"].pc # "wait"
  BY <1>1 DEF Inv, OutOK
<1> QED
  BY <1>1 DEF NothingElseIsReported, Inv, OutOK, ZonesOK

(* If the zones were passed over, hwmon has said something, and it had a   *)
(* reason to.                                                              *)
LEMMA InvAsksZones == Inv => ZonesAreAsked
<1> SUFFICES ASSUME Inv, op = "temperatures", result.kind = "Ok",
                    st["thermal_zone"].pc = "wait", "hwmon" \in class
             PROVE  Excused
  BY DEF ZonesAreAsked, Excused
<1>1. out \union errors # {}
  BY DEF Inv, AnswerOK
<1> QED
  BY <1>1 DEF Inv, SaidOK

(* The items of a stream that has ended are those of the devices that stay *)
(* where they are, one for each, with all the files that the device has;   *)
(* and the zones are passed over only for a hwmon that came, went or has a *)
(* sensor, or if there is no hwmon at all; however many devices there are, *)
(* and whichever come and go between two reads.                            *)
THEOREM ItemsStayExact == Spec => []ItemsAreExact
<1>1. Inv => ItemsAreExact
  BY InvReports, InvReportsNothingElse, InvAsksZones DEF ItemsAreExact
<1> QED
  BY Invariance, <1>1, PTL

----------------------------------------------------------------------------
(* What a step may never do.                                               *)

(* Every step is the begin of the call, one of the system, one that reads  *)
(* files (and then leaves all but the streams alone), or the answer.       *)
LEMMA Steps ==
  ASSUME Next
  PROVE  \/ \E m \in Ops : Begin(m)
         \/ Change \/ SetProcfsRoot \/ KnownFilesystems
         \/ \E s \in Streams : List(s)
         \/ Unread
         \/ \E r : Finish(r)
<1>1. CASE Temperatures
  <2>1. ASSUME NEW s, NEW f, TakeFile(s, f) PROVE Unread
    BY <2>1 DEF TakeFile
  <2>2. HwmonSensor => Unread
    BY <2>1 DEF HwmonSensor, Required, Optional, Deliver
  <2>3. Zone => Unread
    BY <2>1 DEF Zone, Required
  <2> QED
    BY <1>1, <2>2, <2>3 DEF Temperatures, Hwmon, HwmonDevice, HwmonDeviceDir,
       HwmonInput, ChooseZones, ZoneNext, TripPoint
<1>2. CASE FreqNext \/ ReadFreq \/ Topology
  BY <1>2 DEF FreqNext, ReadFreq, Topology, Required, Optional, Deliver, TakeFile
<1>3. CASE Frequency \/ PhysicalCount \/ StreamEnds \/ CallFails
  BY <1>3 DEF Frequency, PhysicalCount, StreamEnds, CallFails
<1>4. CASE LogicalCount
  BY <1>4 DEF LogicalCount, Try
<1>5. CASE TableRow \/ IoCountersPhysical \/ PartitionsPhysical
  BY <1>5 DEF TableRow, IoCountersPhysical, PartitionsPhysical
<1>6. ASSUME NEW s \in Streams, EndStream(s) PROVE Unread
  BY <1>6 DEF EndStream
<1> QED
  BY <1>1, <1>2, <1>3, <1>4, <1>5, <1>6, SMTT(60) DEF Next, Step

(* The cell is written once: neither set_procfs_root nor the first file    *)
(* that is opened replaces a root that is already there.                   *)
THEOREM RootIsWrittenOnce == Spec => [][root # "unset" => root' = root]_vars
<1>1. ASSUME Next, root # "unset" PROVE root' = root
  <2>1. CASE (\E m \in Ops : Begin(m)) \/ Change
    BY <2>1 DEF Begin, Change
  <2>2. CASE SetProcfsRoot \/ KnownFilesystems
    BY <1>1, <2>2 DEF SetProcfsRoot, KnownFilesystems, ProcfsRoot
  <2>3. CASE \E s \in Streams : List(s)
    BY <1>1, <2>3 DEF List, ProcfsRoot
  <2>4. CASE Unread \/ \E r : Finish(r)
    BY <2>4 DEF Unread, Finish
  <2> QED
    BY <1>1, <2>1, <2>2, <2>3, <2>4, Steps
<1>2. [Next]_vars => [root # "unset" => root' = root]_vars
  BY <1>1
<1> QED
  BY <1>2, PTL DEF Spec

(* When a call has returned, its streams have ended (or have failed), and  *)
(* nothing is left that could choose the zones.                            *)
Answered ==
  result # NoResult =>
    /\ op \in Ops
    /\ \A s \in Streams \ {"logical"} : st[s].pc \in {"wait", "end", "failed"}
    /\ (op = "temperatures" /\ st["thermal_zone"].pc = "wait") =>
         out # {} \/ errors # {}

(* No step of a call is possible after its answer. *)
LEMMA NothingFollows ==
  ASSUME Inv, Answered, result # NoResult, Next
  PROVE  FALSE
<1>1. /\ op # "none" /\ \A s \in Streams \ {"logical"} : st[s].pc \in {"wait", "end", "failed"}
  BY DEF Answered, Ops
<1>2. \A s \in Streams : st[s].pc \notin {"list", "next", "device", "read", "trips"}
  <2>1. "logical" \in Streams => st["logical"].pc \in PcsOf("logical")
    BY DEF Inv, StOK, StreamOK
  <2> QED
    BY <1>1, <2>1 DEF PcsOf
<1>3. ~((\E m \in Ops : Begin(m)) \/ Change \/ SetProcfsRoot)
  BY <1>1 DEF Begin, Change, SetProcfsRoot
<1>4. ~\E s \in Streams : List(s) \/ EndStream(s)
  BY <1>2 DEF List, EndStream
<1>5. ~Temperatures
  <2>1. \A s \in {"hwmon", "hwmon_device", "thermal_zone"} :
          st[s].pc \notin {"list", "next", "device", "read", "trips"}
    BY <1>2, StreamsAre
  <2>2. ~(Hwmon \/ HwmonDevice \/ HwmonDeviceDir \/ ZoneNext \/ TripPoint)
    BY <2>1, ZenonT(60) DEF Hwmon, HwmonDevice, HwmonDeviceDir, ZoneNext, TripPoint
  <2>6. ~HwmonInput
    BY <2>1, SMTT(60) DEF HwmonInput
  <2>3. ~HwmonSensor
    BY <2>1 DEF HwmonSensor, Required, Optional, Deliver, TakeFile
  <2>4. ~Zone
    BY <2>1 DEF Zone, Required, TakeFile
  <2>5. ~ChooseZones
    BY DEF ChooseZones, Answered
  <2> QED
    BY <2>2, <2>3, <2>4, <2>5, <2>6 DEF Temperatures
<1>6. ~(FreqNext \/ ReadFreq \/ Topology)
  <2>1. \A s \in {"cpufreq", "core_id"} :
          st[s].pc \notin {"list", "next", "device", "read", "trips"}
    BY <1>2, StreamsAre
  <2> QED
    BY <2>1 DEF FreqNext, ReadFreq, Topology, Required, Optional, Deliver, TakeFile
<1>7. ~(Frequency \/ PhysicalCount \/ StreamEnds \/ CallFails \/ LogicalCount)
  BY DEF Frequency, PhysicalCount, StreamEnds, CallFails, LogicalCount, Try, Finish
<1>8. ~(TableRow \/ IoCountersPhysical \/ PartitionsPhysical)
  BY <1>2, StreamsAre DEF TableRow, IoCountersPhysical, PartitionsPhysical
<1>9. ~KnownFilesystems
  BY <1>2, StreamsAre DEF KnownFilesystems
<1> QED
  BY <1>3, <1>4, <1>5, <1>6, <1>7, <1>8, <1>9 DEF Next, Step

LEMMA NextAnswered == Inv /\ Answered /\ [Next]_vars => Answered'
<1> SUFFICES ASSUME Inv, Answered, Next, result = NoResult PROVE Answered'
  <2>1. UNCHANGED vars /\ Answered => Answered'
    BY DEF vars, Answered
  <2> QED
    BY <2>1, NothingFollows
<1>1. ASSUME NEW s \in Streams, st[s].pc # "wait" PROVE Runs(s)
  BY <1>1 DEF Inv, StOK, StreamOK
<1>2. ASSUME NEW r, Finish(r)
      PROVE  op' = op /\ st' = st /\ out' = out /\ errors' = errors
  BY <1>2 DEF Finish, Still
<1>3. CASE Frequency
  <2>1. op = "frequency" /\ st["cpufreq"].pc \in {"end", "failed"}
        /\ op' = op /\ st' = st
    BY <1>2, <1>3 DEF Frequency
  <2>2. \A s \in Streams \ {"cpufreq"} : st[s].pc = "wait"
    BY <1>1, <2>1, RunsOf
  <2> QED
    BY <2>1, <2>2 DEF Answered, Ops
<1>4. CASE PhysicalCount
  <2>1. op = "physical_count" /\ st["core_id"].pc \in {"end", "failed"}
        /\ op' = op /\ st' = st
    BY <1>2, <1>4 DEF PhysicalCount
  <2>2. \A s \in Streams \ {"core_id"} : st[s].pc = "wait"
    BY <1>1, <2>1, RunsOf
  <2> QED
    BY <2>1, <2>2 DEF Answered, Ops
<1>5. CASE StreamEnds
  <2>1. op \in Ops /\ op' = op /\ st' = st /\ out' = out /\ errors' = errors
        /\ \A s \in StreamsOf(op) : st[s].pc = "end"
    BY <1>2, <1>5 DEF StreamEnds, Ops
  <2>2. /\ op = "temperatures" =>
             \/ st["thermal_zone"].pc = "end"
             \/ st["thermal_zone"].pc = "wait" /\ (out # {} \/ errors # {})
    BY <1>5 DEF StreamEnds
  <2>3. ASSUME NEW s \in Streams PROVE st[s].pc \in {"wait", "end"}
    <3>1. CASE st[s].pc # "wait"
      <4>1. Runs(s)
        BY <1>1, <3>1
      <4> QED
        BY <2>1, <2>2, <4>1 DEF Runs
    <3> QED
      BY <3>1
  <2> QED
    BY <2>1, <2>2, <2>3 DEF Answered
<1>c. CASE CallFails
  <2>1. op \in ProcOps /\ op' = op /\ st' = st
        /\ \E s \in StreamsOf(op) : st[s].pc = "failed"
    BY <1>2, <1>c DEF CallFails
  <2>2. ASSUME NEW s \in Streams PROVE st[s].pc \in {"wait", "failed"}
    <3>1. CASE st[s].pc # "wait"
      <4>1. Runs(s)
        BY <1>1, <3>1
      <4>2. StreamsOf(op) = {s}
        BY <2>1, <4>1 DEF Runs, ProcOps, StreamsOf
      <4> QED
        BY <2>1, <4>2
    <3> QED
      BY <3>1
  <2>3. op \in Ops /\ op # "temperatures"
    BY <2>1 DEF ProcOps, Ops
  <2> QED
    BY <2>1, <2>2, <2>3 DEF Answered
<1>6. CASE LogicalCount
  <2>1. CASE \E r : Finish(r)
    <3>1. st["logical"].pc # "wait" /\ "logical" \in Streams
      BY <1>6, StreamsAre DEF LogicalCount, Try
    <3>2. Runs("logical") /\ op = "logical_count" /\ op' = op /\ st' = st
      BY <1>1, <1>2, <2>1, <3>1, RunsOf
    <3>3. \A s \in Streams \ {"logical"} : st[s].pc = "wait"
      BY <1>1, <3>2, RunsOf
    <3> QED
      BY <3>2, <3>3 DEF Answered, Ops
  <2>2. CASE ~\E r : Finish(r)
    BY <1>6, <2>2 DEF LogicalCount, Try, Unread, Answered
  <2> QED
    BY <2>1, <2>2
<1>7. CASE ~(Frequency \/ PhysicalCount \/ StreamEnds \/ CallFails \/ LogicalCount)
  <2>1. result' = result
    <3>1. CASE (\E m \in Ops : Begin(m)) \/ Change \/ SetProcfsRoot
      BY <3>1 DEF Begin, Change, SetProcfsRoot
    <3>2. CASE KnownFilesystems \/ \E s \in Streams : List(s)
      BY <3>2 DEF KnownFilesystems, List
    <3>3. CASE Unread
      BY <3>3 DEF Unread
    <3>4. ASSUME NEW s \in Streams, EndStream(s) PROVE Unread
      BY <3>4 DEF EndStream
    <3>5. Temperatures => Unread
      <4>1. ASSUME NEW s, NEW f, TakeFile(s, f) PROVE Unread
        BY <4>1 DEF TakeFile
      <4>2. HwmonSensor => Unread
        BY <4>1 DEF HwmonSensor, Required, Optional, Deliver
      <4>3. Zone => Unread
        BY <4>1 DEF Zone, Required
      <4> QED
        BY <4>2, <4>3 DEF Temperatures, Hwmon, HwmonDevice, HwmonDeviceDir,
           HwmonInput, ChooseZones, ZoneNext, TripPoint
    <3>6. (FreqNext \/ ReadFreq \/ Topology) => Unread
      BY DEF FreqNext, ReadFreq, Topology, Required, Optional, Deliver, TakeFile
    <3>7. (TableRow \/ IoCountersPhysical \/ PartitionsPhysical) => Unread
      BY DEF TableRow, IoCountersPhysical, PartitionsPhysical
    <3> QED
      BY <1>7, <3>1, <3>2, <3>3, <3>4, <3>5, <3>6, <3>7 DEF Next, Step
  <2> QED
    BY <2>1 DEF Answered
<1> QED
  BY <1>3, <1>4, <1>5, <1>6, <1>7, <1>c

(* A call that has returned does nothing more: no item, no error and no    *)
(* file is left over, however its streams were interleaved.                *)
THEOREM AnswerIsFinal == Spec => [][result = NoResult]_vars
<1>1. Init => Answered
  BY DEF Init, Answered
<1>2. Inv /\ Answered /\ [Next]_vars => [result = NoResult]_vars
  BY NothingFollows
<1> QED
  BY Invariance, <1>1, <1>2, NextAnswered, PTL DEF Spec

----------------------------------------------------------------------------
(* How far a stream is from its end: the part of its work it is at, the    *)
(* slots beyond the directory it is in, all slots ahead of it, where it is *)
(* with the files of one slot, and the ones of them that are left.         *)
Level(r) == CASE r.pc = "wait" -> 7 [] r.pc = "list" -> 6
              [] r.pc \in Underway -> 5
              [] r.pc = "sysconf" -> 4 [] r.pc = "cpuinfo" -> 3
              [] r.pc = "stat" -> 2 [] OTHER -> 0

Depth(r) == CASE r.pc = "device" -> 3 [] r.pc = "read" -> 2
              [] r.pc = "trips" -> 1 [] OTHER -> 0

Beyond(r) == r.todo \ r.inside

Deeper(r, q) == \/ Depth(q) < Depth(r)
                \/ /\ Depth(q) = Depth(r)
                   /\ q.pending \subseteq r.pending /\ q.pending # r.pending

Further(r, q) ==
  \/ Level(q) < Level(r)
  \/ /\ Level(q) = Level(r) /\ Beyond(q) \subseteq Beyond(r)
     /\ \/ Beyond(q) # Beyond(r)
        \/ /\ q.todo \subseteq r.todo
           /\ q.todo # r.todo \/ Deeper(r, q)

NothingGoesBack ==
  /\ \A s \in Streams : st'[s] = st[s] \/ Further(st[s], st'[s])
  /\ known' = known \/ (known = {} /\ known' # {})
  /\ root' = root \/ (root = "unset" /\ root' # "unset")
  /\ changes' >= changes

SomethingGoesOn ==
  \/ \E s \in Streams : st'[s] # st[s]
  \/ known' # known \/ root' # root \/ changes' # changes
  \/ result' # result

(* What is ahead of a stream is finite. *)
FinitelyAhead == \A s \in Streams : /\ IsFiniteSet(st[s].todo)
                                    /\ IsFiniteSet(st[s].pending)

(* One stream moves, and not back. *)
MovesTo(s, r) == /\ Move(s, r) /\ Further(st[s], r)
                 /\ IsFiniteSet(st[s].pending) => IsFiniteSet(r.pending)

Advances == \E s \in Streams : \E r : MovesTo(s, r)

LEMMA FurtherDiffers ==
  ASSUME NEW r, NEW q, Further(r, q)
  PROVE  q # r
<1>1. Level(r) \in Int /\ Depth(r) \in Int
  BY DEF Level, Depth
<1> QED
  BY <1>1 DEF Further, Deeper

LEMMA SmallSets ==
  ASSUME NEW a, NEW b, NEW c
  PROVE  IsFiniteSet({}) /\ IsFiniteSet({a}) /\ IsFiniteSet({a, b}) /\ IsFiniteSet({a, b, c})
<1>1. IsFiniteSet({}) /\ IsFiniteSet({a})
  BY FS_EmptySet, FS_Singleton
<1>2. IsFiniteSet({a} \union {b})
  BY <1>1, FS_AddElement
<1>3. IsFiniteSet(({a} \union {b}) \union {c})
  BY <1>2, FS_AddElement
<1>4. {a} \union {b} = {a, b} /\ ({a} \union {b}) \union {c} = {a, b, c}
  OBVIOUS
<1> QED
  BY <1>1, <1>2, <1>3, <1>4, Zenon

(* The places a stream goes to from a slot. *)
LEMMA ToNext ==
  ASSUME NEW s, NEW x, st[s].pc \in Walking, st[s].pc # "next" \/ x \in st[s].todo
  PROVE  Further(st[s], Rest(s, x)) /\ IsFiniteSet(Rest(s, x).pending)
<1>1. /\ Rest(s, x).pc = "next" /\ Rest(s, x).todo = st[s].todo \ {x}
      /\ Rest(s, x).inside = st[s].inside \ {x} /\ Rest(s, x).pending = {}
  BY RestIs
<1>2. Level(st[s]) = 5 /\ Level(Rest(s, x)) = 5 /\ Depth(Rest(s, x)) = 0
  BY <1>1 DEF Level, Depth, Underway, Walking, Busy
<1>3. st[s].pc # "next" => Depth(st[s]) > 0
  BY DEF Depth, Walking, Busy
<1>4. Beyond(Rest(s, x)) = Beyond(st[s]) \ {x}
  BY <1>1 DEF Beyond
<1>5. Further(st[s], Rest(s, x))
  BY <1>1, <1>2, <1>3, <1>4 DEF Further, Deeper
<1> QED
  BY <1>1, <1>5, FS_EmptySet

LEMMA ToEnd ==
  ASSUME NEW s, st[s].pc \in Walking \union {"list"}, NEW l \in {"end", "failed"}
  PROVE  Further(st[s], At(l)) /\ IsFiniteSet(At(l).pending)
<1>1. At(l).pc = l /\ At(l).pending = {}
  BY DEF At
<1>2. Level(At(l)) = 0 /\ Level(st[s]) \in {5, 6}
  BY <1>1 DEF Level, Underway, Walking, Busy
<1> QED
  BY <1>1, <1>2, FS_EmptySet DEF Further

LEMMA ToRead ==
  ASSUME NEW s, NEW x, NEW p, IsFiniteSet(p),
         st[s].pc = "next", x \in st[s].todo
  PROVE  Further(st[s], Visiting(s, x, p)) /\ IsFiniteSet(Visiting(s, x, p).pending)
<1> DEFINE r == Visiting(s, x, p)
<1>1. /\ r.pc = "read" /\ r.todo = st[s].todo \ {x} /\ r.pending = p
      /\ r.inside = st[s].inside \ {x}
  BY VisitIs
<1> HIDE DEF r
<1>2. Level(st[s]) = 5 /\ Level(r) = 5
  BY <1>1 DEF Level, Underway, Walking, Busy
<1>3. Beyond(r) = Beyond(st[s]) \ {x}
  BY <1>1 DEF Beyond
<1>4. Further(st[s], r) /\ IsFiniteSet(r.pending)
  BY <1>1, <1>2, <1>3 DEF Further
<1> QED
  BY <1>4 DEF r

LEMMA GotoAdvances ==
  ASSUME NEW s \in Streams, st[s].pc \in Walking, NEW x,
         st[s].pc # "next" \/ x \in st[s].todo,
         \/ Goto(s, Rest(s, x)) \/ Throw(s, x, Rest(s, x))
         \/ \E i : Yield(s, i, Rest(s, x))
  PROVE  Advances
<1>1. /\ Further(st[s], Rest(s, x)) /\ IsFiniteSet(Rest(s, x).pending)
      /\ Further(st[s], At("failed")) /\ IsFiniteSet(At("failed").pending)
  BY ToNext, ToEnd
<1>2. Move(s, Rest(s, x)) \/ Move(s, At("failed"))
  BY DEF Goto, Throw, Yield, Move
<1> QED
  BY <1>1, <1>2 DEF Advances, MovesTo

LEMMA VisitAdvances ==
  ASSUME NEW s \in Streams, NEW x, NEW p, IsFiniteSet(p), Visit(s, x, p),
         st[s].pc = "next", x \in st[s].todo
  PROVE  Advances
<1>1. Move(s, Visiting(s, x, p))
  BY DEF Visit, Goto, Visiting
<1>2. Further(st[s], Visiting(s, x, p)) /\ IsFiniteSet(Visiting(s, x, p).pending)
  BY ToRead
<1> QED
  BY <1>1, <1>2 DEF Advances, MovesTo

(* A file or a trip point is dealt with. *)
LEMMA FileAdvances ==
  ASSUME Inv, NEW s \in Streams, st[s].pc \in Busy, NEW f \in st[s].pending, NEW r,
         r.pc = st[s].pc, r.todo = st[s].todo, r.inside = st[s].inside,
         r.pending = st[s].pending \ {f}, Move(s, r)
  PROVE  Advances
<1>1. Level(r) = Level(st[s]) /\ Depth(r) = Depth(st[s])
  BY DEF Level, Depth
<1>2. Further(st[s], r)
  BY <1>1 DEF Further, Deeper, Beyond
<1>3. IsFiniteSet(st[s].pending) => IsFiniteSet(r.pending)
  BY FS_Subset
<1> QED
  BY <1>2, <1>3 DEF Advances, MovesTo

LEMMA TakeFileAdvances ==
  ASSUME Inv, NEW s \in Readers, NEW f, TakeFile(s, f)
  PROVE  Advances
<1> DEFINE p == st[s].pending \ {f}
           h == st[s].have \union {<<f, slot[st[s].cur].id>>}
           r == [st[s] EXCEPT !.pending = @ \ {f},
                              !.have = @ \union {<<f, slot[st[s].cur].id>>}]
<1>1. st[s].pc = "read" /\ f \in st[s].pending /\ Move(s, r)
  BY DEF TakeFile, Goto
<1>2. s \in Streams /\ st[s].pc \in Busy /\ Shape(st[s])
  BY <1>1, ReadFacts
<1>3. r = [pc |-> st[s].pc, todo |-> st[s].todo, inside |-> st[s].inside,
           cur |-> st[s].cur, pending |-> p, have |-> h]
  BY <1>2, ExceptIs, Zenon
<1>4. /\ r.pc = st[s].pc /\ r.todo = st[s].todo /\ r.inside = st[s].inside
      /\ r.pending = p
  BY <1>3
<1> HIDE DEF r
<1> QED
  BY <1>1, <1>2, <1>4, FileAdvances

LEMMA RequiredAdvances ==
  ASSUME Inv, NEW s \in Readers, NEW f, Required(s, f)
  PROVE  Advances
<1>1. CASE TakeFile(s, f)
  BY <1>1, TakeFileAdvances
<1>2. CASE st[s].pc = "read" /\ Throw(s, st[s].cur, Rest(s, st[s].cur))
  <2>1. s \in Streams /\ st[s].pc \in Walking /\ st[s].pc # "next"
    BY <1>2, ReadFacts
  <2> QED
    BY <1>2, <2>1, GotoAdvances
<1> QED
  BY <1>1, <1>2 DEF Required

LEMMA OptionalAdvances ==
  ASSUME Inv, NEW s \in Readers, NEW f, Optional(s, f)
  PROVE  Advances
<1>1. CASE TakeFile(s, f)
  BY <1>1, TakeFileAdvances
<1>2. CASE /\ st[s].pc = "read" /\ f \in st[s].pending
           /\ Goto(s, [st[s] EXCEPT !.pending = @ \ {f}])
  <2> DEFINE q == st[s]
             r == [q EXCEPT !.pending = @ \ {f}]
  <2>1. s \in Streams /\ st[s].pc \in Busy /\ Shape(st[s])
    BY <1>2, ReadFacts
  <2>2. /\ r.pc = q.pc /\ r.todo = q.todo /\ r.inside = q.inside
        /\ r.pending = q.pending \ {f}
    <3>1. q = [pc |-> q.pc, todo |-> q.todo, inside |-> q.inside, cur |-> q.cur,
               pending |-> q.pending, have |-> q.have]
      BY <2>1 DEF Shape
    <3> HIDE DEF q
    <3> QED
      BY <3>1
  <2>3. Move(s, r)
    BY <1>2 DEF Goto
  <2> HIDE DEF r
  <2> QED
    BY <1>2, <2>1, <2>2, <2>3, FileAdvances
<1> QED
  BY <1>1, <1>2 DEF Optional

LEMMA DeliverAdvances ==
  ASSUME Inv, NEW s \in Readers, Deliver(s)
  PROVE  Advances
<1>1. /\ st[s].pc = "read"
      /\ Yield(s, Item(s, st[s].cur, st[s].have), Rest(s, st[s].cur))
  BY DEF Deliver
<1>2. s \in Streams /\ st[s].pc \in Walking /\ st[s].pc # "next"
  BY <1>1, ReadFacts
<1> QED
  BY <1>1, <1>2, GotoAdvances

(* A directory is opened. *)
LEMMA OpenAdvances ==
  ASSUME Inv, NEW s \in {"hwmon", "hwmon_device"}, NEW X \in SUBSET st[s].todo,
         NEW L \in SUBSET X, NEW l \in {"next", "device"}, NEW r,
         r = [pc |-> l, todo |-> (st[s].todo \ X) \union L, inside |-> L,
              cur |-> "none", pending |-> {}, have |-> {}],
         \/ st[s].pc = "next" /\ st[s].inside = {} /\ X # {}
         \/ st[s].pc = "device" /\ st[s].inside = X /\ l = "next",
         Move(s, r)
  PROVE  Advances
<1>1. /\ r.pc = l /\ r.todo = (st[s].todo \ X) \union L /\ r.inside = L
      /\ r.pending = {}
  OBVIOUS
<1>2. s \in Streams
  BY StreamsAre
<1>3. Level(st[s]) = 5 /\ Level(r) = 5
  BY <1>1 DEF Level, Underway, Walking, Busy
<1>4. Beyond(r) = st[s].todo \ X
  BY <1>1 DEF Beyond
<1>5. CASE st[s].pc = "next" /\ st[s].inside = {} /\ X # {}
  <2>1. Beyond(st[s]) = st[s].todo
    BY <1>5 DEF Beyond
  <2>2. Beyond(r) \subseteq Beyond(st[s]) /\ Beyond(r) # Beyond(st[s])
    BY <1>4, <1>5, <2>1
  <2> QED
    BY <1>1, <1>2, <1>3, <2>2, FS_EmptySet, ZenonT(60)
       DEF Further, Advances, MovesTo
<1>6. CASE st[s].pc = "device" /\ st[s].inside = X /\ l = "next"
  <2>1. Beyond(r) = Beyond(st[s])
    BY <1>4, <1>6 DEF Beyond
  <2>2. Depth(st[s]) = 3 /\ Depth(r) = 0
    BY <1>1, <1>6 DEF Depth
  <2>3. r.todo \subseteq st[s].todo
    BY <1>1
  <2>4. Further(st[s], r)
    BY <1>3, <2>1, <2>2, <2>3 DEF Further, Deeper
  <2> QED
    BY <1>1, <1>2, <2>4, FS_EmptySet DEF Advances, MovesTo
<1> QED
  BY <1>5, <1>6

LEMMA HwmonAdvances ==
  ASSUME Inv, Hwmon \/ HwmonDevice \/ HwmonDeviceDir \/ HwmonInput
  PROVE  Advances
<1>1. ASSUME NEW s \in {"hwmon", "hwmon_device"}
      PROVE  /\ s \in Streams /\ st[s].inside \subseteq st[s].todo
             /\ \A x \in st[s].todo : x \in Beside[x]
             /\ st[s].pc # "wait" => op = "temperatures"
  <2>1. s \in Streams /\ Kind[s] = "hwmon" /\ "hwmon" \in DOMAIN Slots
    BY StreamsAre, KindIs, KindsAre
  <2>2. StreamOK(s)
    BY <2>1 DEF Inv, StOK
  <2>3. st[s].pc # "wait" => op = "temperatures"
    BY <2>1, <2>2, RunsOf DEF StreamOK
  <2>4. \A x \in st[s].todo : x \in Slots["hwmon"]
    BY <2>1, <2>2 DEF StreamOK
  <2>5. \A x \in st[s].todo : x \in Beside[x]
    BY <2>1, <2>4, FilesAssumption
  <2> QED
    BY <2>1, <2>2, <2>3, <2>5 DEF StreamOK
<1>2. ASSUME NEW s \in {"hwmon", "hwmon_device"}, NEW X \in SUBSET st[s].todo,
             NEW L \in SUBSET X,
             \/ st[s].pc = "next" /\ st[s].inside = {} /\ X # {}
             \/ st[s].pc = "device" /\ st[s].inside = X,
             Move(s, Open(s, X, L))
      PROVE  Advances
  <2>1. Open(s, X, L) = [pc |-> "next", todo |-> (st[s].todo \ X) \union L,
                         inside |-> L, cur |-> "none", pending |-> {}, have |-> {}]
    BY OpenIs
  <2> QED
    BY <1>2, <2>1, OpenAdvances
<1>3. ASSUME NEW s \in {"hwmon", "hwmon_device"}, NEW X \in SUBSET st[s].todo,
             st[s].pc # "wait", NEW d,
             \/ st[s].pc = "next" /\ st[s].inside = {} /\ X # {}
             \/ st[s].pc = "device" /\ st[s].inside = X,
             Throw(s, d, Open(s, X, {}))
      PROVE  Advances
  <2>1. op = "temperatures"
    BY <1>1, <1>3
  <2>2. PICK M : M = {}
    OBVIOUS
  <2>3. Move(s, Open(s, X, M)) /\ M \in SUBSET X
    BY <1>3, <2>1, <2>2 DEF Throw, Move
  <2> QED
    BY <1>2, <1>3, <2>3
<1>4. CASE Hwmon
  <2> DEFINE s == "hwmon"
  <2>1. PICK x \in st[s].todo :
          LET X == Beside[x] \intersect st[s].todo
          IN \/ Throw(s, "directory", Open(s, X, {}))
             \/ Goto(s, Open(s, X, {y \in X : Has(y, "input")}))
    BY <1>4 DEF Hwmon
  <2> DEFINE X == Beside[x] \intersect st[s].todo
             L == {y \in X : Has(y, "input")}
  <2>2. st[s].pc = "next" /\ st[s].inside = {}
    BY <1>4 DEF Hwmon
  <2>3. X # {} /\ X \in SUBSET st[s].todo /\ L \in SUBSET X
    BY <1>1
  <2>4. Throw(s, "directory", Open(s, X, {})) \/ Move(s, Open(s, X, L))
    BY <2>1 DEF Goto
  <2> HIDE DEF X, L
  <2> QED
    BY <1>2, <1>3, <2>2, <2>3, <2>4
<1>5. CASE HwmonDevice
  <2> DEFINE s == "hwmon_device"
  <2>1. PICK x \in st[s].todo :
          LET X == Beside[x] \intersect st[s].todo
          IN \/ Goto(s, Open(s, X, {}))
             \/ Goto(s, [Open(s, X, X) EXCEPT !.pc = "device"])
    BY <1>5 DEF HwmonDevice
  <2> DEFINE X == Beside[x] \intersect st[s].todo
             r == [Open(s, X, X) EXCEPT !.pc = "device"]
  <2>2. st[s].pc = "next" /\ st[s].inside = {}
    BY <1>5 DEF HwmonDevice
  <2>3. X # {} /\ X \in SUBSET st[s].todo /\ X \in SUBSET X
    BY <1>1
  <2>4. Move(s, Open(s, X, {})) \/ Move(s, r)
    BY <2>1 DEF Goto
  <2>5. r = [pc |-> "device", todo |-> (st[s].todo \ X) \union X, inside |-> X,
             cur |-> "none", pending |-> {}, have |-> {}]
    BY DeviceIs, Zenon
  <2>6. PICK M : M = {}
    OBVIOUS
  <2>7. M \in SUBSET X /\ (Move(s, Open(s, X, {})) => Move(s, Open(s, X, M)))
    BY <2>6
  <2> HIDE DEF X, r
  <2>8. CASE Move(s, Open(s, X, {}))
    BY <1>2, <2>2, <2>3, <2>7, <2>8
  <2>9. CASE Move(s, r)
    BY <2>2, <2>3, <2>5, <2>9, OpenAdvances
  <2> QED
    BY <2>4, <2>8, <2>9
<1>6. CASE HwmonDeviceDir
  <2> DEFINE s == "hwmon_device"
             X == st[s].inside
             L == {y \in X : Has(y, "device") /\ Has(y, "device/input")}
  <2>1. st[s].pc = "device"
    BY <1>6 DEF HwmonDeviceDir
  <2>2. X \in SUBSET st[s].todo /\ L \in SUBSET X
    BY <1>1
  <2>3. Throw(s, "directory", Open(s, X, {})) \/ Move(s, Open(s, X, L))
    BY <1>6 DEF HwmonDeviceDir, Goto
  <2>4. st[s].inside = X
    OBVIOUS
  <2> HIDE DEF X, L
  <2> QED
    BY <1>2, <1>3, <2>1, <2>2, <2>3, <2>4
<1>7. CASE HwmonInput
  <2>1. PICK s \in {"hwmon", "hwmon_device"} :
          st[s].pc = "next" /\ \E x \in st[s].inside : Visit(s, x, SensorFiles(s))
    BY <1>7 DEF HwmonInput
  <2>2. PICK x \in st[s].inside : Visit(s, x, SensorFiles(s))
    BY <2>1
  <2>3. IsFiniteSet(SensorFiles(s))
    <3>1. IsFiniteSet({"name", "input", "limits"})
      BY SmallSets, Zenon
    <3>2. IsFiniteSet({"device/name", "device/input", "device/limits"})
      BY SmallSets, Zenon
    <3> QED
      BY <3>1, <3>2, FilesAre, Zenon
  <2>4. s \in Streams /\ x \in st[s].todo
    BY <1>1
  <2> QED
    BY <2>1, <2>2, <2>3, <2>4, VisitAdvances
<1> QED
  BY <1>4, <1>5, <1>6, <1>7

LEMMA SensorsAdvance ==
  ASSUME Inv, HwmonSensor \/ ReadFreq
  PROVE  Advances
<1>1. {"hwmon", "hwmon_device", "cpufreq"} \subseteq Readers
  BY DEF Readers, ReadWhole
<1>2. CASE HwmonSensor
  BY <1>1, <1>2, RequiredAdvances, OptionalAdvances, DeliverAdvances DEF HwmonSensor
<1>3. CASE ReadFreq
  BY <1>1, <1>3, RequiredAdvances, OptionalAdvances, DeliverAdvances DEF ReadFreq
<1> QED
  BY <1>2, <1>3

LEMMA ZonesAdvance ==
  ASSUME Inv, ChooseZones \/ ZoneNext \/ Zone \/ TripPoint
  PROVE  Advances
<1> DEFINE s == "thermal_zone"
           x == st[s].cur
<1>1. s \in Streams /\ s \in Readers
  BY StreamsAre DEF Readers
<1>2. CASE ChooseZones
  <2>1. st[s].pc = "wait" /\ Move(s, At("list"))
    BY <1>2 DEF ChooseZones, Goto
  <2>2. At("list").pc = "list" /\ At("list").pending = {}
    BY DEF At
  <2>3. Level(st[s]) = 7 /\ Level(At("list")) = 6
    BY <2>1, <2>2 DEF Level, Underway, Walking, Busy
  <2>4. Further(st[s], At("list")) /\ IsFiniteSet(At("list").pending)
    BY <2>2, <2>3, FS_EmptySet DEF Further
  <2> QED
    BY <1>1, <2>1, <2>4 DEF Advances, MovesTo
<1>3. CASE ZoneNext
  <2>1. st[s].pc = "next" /\ \E y \in st[s].todo : Visit(s, y, {"temp", "type"})
    BY <1>3 DEF ZoneNext
  <2> QED
    BY <1>1, <2>1, SmallSets, VisitAdvances
<1>4. CASE Zone
  <2>1. CASE \E f \in {"temp", "type"} : Required(s, f)
    BY <1>1, <2>1, RequiredAdvances
  <2>2. CASE st[s].pc = "read" /\ Throw(s, x, Rest(s, x))
    <3>1. st[s].pc \in Walking /\ st[s].pc # "next"
      BY <2>2 DEF Walking, Busy
    <3> QED
      BY <1>1, <2>2, <3>1, GotoAdvances
  <2>3. CASE /\ st[s].pc = "read" /\ slot[x] # Empty
             /\ Goto(s, [st[s] EXCEPT !.pc = "trips", !.pending = slot[x].trips])
    <3> DEFINE r == [st[s] EXCEPT !.pc = "trips", !.pending = slot[x].trips]
    <3>1. Shape(st[s]) /\ x \in Slots["zone"]
      BY <1>1, <2>3, KindIs DEF Inv, StOK, StreamOK, Busy
    <3>2. slot[x] \in Devices["zone"]
      BY <2>3, <3>1, KindsAre DEF Inv, SlotsOK
    <3>3. r = [pc |-> "trips", todo |-> st[s].todo, inside |-> st[s].inside,
               cur |-> st[s].cur, pending |-> slot[x].trips, have |-> st[s].have]
      BY <3>1, TripsIs, Zenon
    <3>4. /\ r.pc = "trips" /\ r.todo = st[s].todo /\ r.inside = st[s].inside
          /\ r.pending = slot[x].trips
      BY <3>3
    <3>5. Move(s, r)
      BY <2>3 DEF Goto
    <3> HIDE DEF r
    <3>6. Level(st[s]) = 5 /\ Level(r) = 5 /\ Depth(st[s]) = 2 /\ Depth(r) = 1
      BY <2>3, <3>4 DEF Level, Depth, Underway, Walking, Busy
    <3>7. Further(st[s], r)
      BY <3>4, <3>6 DEF Further, Deeper, Beyond
    <3>8. IsFiniteSet(r.pending)
      BY <3>2, <3>4, TripsAssumption
    <3> QED
      BY <1>1, <3>5, <3>7, <3>8 DEF Advances, MovesTo
  <2> QED
    BY <1>4, <2>1, <2>2, <2>3 DEF Zone
<1>5. CASE TripPoint
  <2>1. st[s].pc = "trips" /\ st[s].pc \in Busy /\ st[s].pc \in Walking
    BY <1>5 DEF TripPoint, Busy, Walking
  <2>2. Shape(st[s])
    BY <1>1 DEF Inv, StOK, StreamOK
  <2>3. ASSUME NEW t \in st[s].pending, NEW h,
               Goto(s, [st[s] EXCEPT !.pending = @ \ {t}, !.have = h])
        PROVE  Advances
    <3> DEFINE r == [st[s] EXCEPT !.pending = @ \ {t}, !.have = h]
    <3>1. r = [pc |-> st[s].pc, todo |-> st[s].todo, inside |-> st[s].inside,
               cur |-> st[s].cur, pending |-> st[s].pending \ {t}, have |-> h]
      BY <2>2, ExceptIs, Zenon
    <3>2. /\ r.pc = st[s].pc /\ r.todo = st[s].todo /\ r.inside = st[s].inside
          /\ r.pending = st[s].pending \ {t}
      BY <3>1
    <3>3. Move(s, r)
      BY <2>3 DEF Goto
    <3> HIDE DEF r
    <3> QED
      BY <1>1, <2>1, <2>3, <3>2, <3>3, FileAdvances
  <2>4. ASSUME \/ Throw(s, x, Rest(s, x))
               \/ \E i : Yield(s, i, Rest(s, x))
        PROVE  Advances
    BY <1>1, <2>1, <2>4, GotoAdvances
  <2> QED
    BY <1>5, <2>3, <2>4, ZenonT(60) DEF TripPoint
<1> QED
  BY <1>2, <1>3, <1>4, <1>5

LEMMA CpusAdvance ==
  ASSUME Inv, FreqNext \/ Topology
  PROVE  Advances
<1>1. {"cpufreq", "core_id"} \subseteq Streams /\ {"cpufreq", "core_id"} \subseteq Readers
  BY StreamsAre DEF Readers, ReadWhole
<1>2. IsFiniteSet({"cur", "max", "min"}) /\ IsFiniteSet({"core_id"})
  BY SmallSets
<1>3. CASE FreqNext
  BY <1>1, <1>2, <1>3, VisitAdvances DEF FreqNext
<1>4. CASE Topology
  BY <1>1, <1>2, <1>4, VisitAdvances, RequiredAdvances, DeliverAdvances DEF Topology
<1> QED
  BY <1>3, <1>4

LEMMA TablesAdvance ==
  ASSUME Inv, TableRow \/ IoCountersPhysical \/ PartitionsPhysical
  PROVE  Advances
<1>1. /\ {"stat", "net", "diskstats", "mounts"} \subseteq Streams
      /\ "next" \in Walking
  BY StreamsAre DEF Walking
<1>2. PICK s \in {"stat", "net", "diskstats", "mounts"} :
        /\ st[s].pc = "next"
        /\ \E x \in st[s].todo : \/ Goto(s, Rest(s, x))
                                  \/ Throw(s, x, Rest(s, x))
                                  \/ \E i : Yield(s, i, Rest(s, x))
  <2>1. CASE TableRow
    BY <2>1 DEF TableRow
  <2>2. CASE IoCountersPhysical
    BY <2>2 DEF IoCountersPhysical
  <2>3. CASE PartitionsPhysical
    BY <2>3 DEF PartitionsPhysical, MountRow
  <2> QED
    BY <2>1, <2>2, <2>3
<1> QED
  BY <1>1, <1>2, GotoAdvances

(* The call returns. *)
Answers == \E r : r # NoResult /\ Finish(r)

LEMMA KindsAnswer ==
  /\ \A k \in {"Ok", "Err", "None"} : [NoResult EXCEPT !.kind = k] # NoResult
  /\ \A m : [NoResult EXCEPT !.kind = "Ok", !.n = m] # NoResult
  /\ \A a, b, c : [kind |-> "Ok", n |-> a, lo |-> b, hi |-> c] # NoResult
<1>1. \A k \in {"Ok", "Err", "None"} : [NoResult EXCEPT !.kind = k] # NoResult
  BY DEF NoResult
<1>2. \A m : [NoResult EXCEPT !.kind = "Ok", !.n = m] # NoResult
  BY DEF NoResult
<1>3. \A a, b, c : [kind |-> "Ok", n |-> a, lo |-> b, hi |-> c] # NoResult
  BY DEF NoResult
<1> QED
  BY <1>1, <1>2, <1>3

LEMMA CallAnswers ==
  ASSUME Frequency \/ PhysicalCount \/ StreamEnds \/ CallFails
  PROVE  Answers
<1>1. CpuInfo # NoResult
  BY KindsAnswer DEF CpuInfo
<1>2. CASE Frequency
  BY <1>2, KindsAnswer DEF Frequency, Answers
<1>3. CASE PhysicalCount
  BY <1>1, <1>3, KindsAnswer DEF PhysicalCount, Answers
<1>4. CASE StreamEnds
  BY <1>4, KindsAnswer DEF StreamEnds, Answers
<1>5. CASE CallFails
  BY <1>5, KindsAnswer DEF CallFails, Answers
<1> QED
  BY <1>2, <1>3, <1>4, <1>5

LEMMA LogicalAdvances ==
  ASSUME Inv, LogicalCount
  PROVE  Advances \/ Answers
<1> DEFINE s == "logical"
<1>1. s \in Streams
  BY StreamsAre
<1>2. ASSUME NEW l, NEW n, Try(l, n),
             <<l, n>> \in {<<"sysconf", "cpuinfo">>, <<"cpuinfo", "stat">>,
                           <<"stat", "failed">>}
      PROVE  Advances \/ Answers
  <2>1. CASE st[s].pc = l /\ Goto(s, At(n))
    <3>1. At(n).pc = n /\ At(n).pending = {} /\ Move(s, At(n))
      BY <2>1 DEF At, Goto
    <3>2. Level(At(n)) < Level(st[s])
      BY <1>2, <2>1, <3>1 DEF Level, Underway, Walking, Busy
    <3> QED
      BY <1>1, <3>1, <3>2, FS_EmptySet DEF Advances, MovesTo, Further
  <2>2. CASE \E n1 : Finish([NoResult EXCEPT !.kind = "Ok", !.n = n1])
    BY <2>2, KindsAnswer DEF Answers
  <2> QED
    BY <1>2, <2>1, <2>2 DEF Try
<1>3. CASE Finish([NoResult EXCEPT !.kind = "Err"])
  BY <1>3, KindsAnswer DEF Answers
<1> QED
  BY <1>2, <1>3 DEF LogicalCount

LEMMA ListAdvances ==
  ASSUME Inv, NEW s \in Streams, List(s) \/ EndStream(s)
  PROVE  Advances
<1>1. CASE EndStream(s)
  <2>1. st[s].pc \in Walking /\ Move(s, At("end"))
    BY <1>1 DEF EndStream, Goto, Walking
  <2> QED
    BY <2>1, ToEnd DEF Advances, MovesTo
<1>2. CASE List(s)
  <2> DEFINE T == Listed(s) \union (Headers(s) \ Skipped(s))
             r == [At("next") EXCEPT !.todo = T]
  <2>1. st[s].pc = "list"
    BY <1>2 DEF List
  <2>2. \/ Move(s, At("end")) \/ Move(s, At("failed")) \/ Move(s, r)
    BY <1>2 DEF List, Throw, Goto, Move
  <2>3. r.pc = "next" /\ r.pending = {}
    BY DEF At
  <2> HIDE DEF r
  <2>4. Level(st[s]) = 6 /\ Level(r) = 5
    BY <2>1, <2>3 DEF Level, Underway, Walking, Busy
  <2>5. Further(st[s], r) /\ IsFiniteSet(r.pending)
    BY <2>3, <2>4, FS_EmptySet DEF Further
  <2> QED
    BY <2>1, <2>2, <2>5, ToEnd DEF Advances, MovesTo
<1> QED
  BY <1>1, <1>2

(* The file systems cannot be read. *)
KnownFails == st["mounts"].pc = "list" /\ Move("mounts", At("failed")) /\ UNCHANGED known

LEMMA KnownFailsAdvances == KnownFails => Advances
<1>1. "mounts" \in Streams
  BY StreamsAre
<1> QED
  BY <1>1, ToEnd DEF KnownFails, Advances, MovesTo

(* Every step of a call moves a stream, reads the file systems or answers. *)
LEMMA StepAdvances ==
  ASSUME Inv, Step
  PROVE  Advances \/ KnownFilesystems \/ Answers
<1>1. CASE Temperatures
  BY <1>1, HwmonAdvances, SensorsAdvance, ZonesAdvance DEF Temperatures
<1> QED
  BY <1>1, SensorsAdvance, CpusAdvance, TablesAdvance, LogicalAdvances, ListAdvances,
     CallAnswers
     DEF Step

(* What the steps of a call leave alone, ... *)
LEMMA StepKeeps ==
  ASSUME Next, op # "none", ~Change, ~SetProcfsRoot, ~KnownFilesystems
  PROVE  /\ known' = known /\ changes' = changes
         /\ root' = root \/ (root = "unset" /\ root' # "unset")
<1>1. \A m \in Ops : ~Begin(m)
  BY DEF Begin
<1>2. CASE \E s \in Streams : List(s)
  BY <1>2 DEF List, ProcfsRoot, Still
<1>3. CASE Unread
  BY <1>3 DEF Unread, Still
<1>4. CASE \E r : Finish(r)
  BY <1>4 DEF Finish, Still
<1> QED
  BY <1>1, <1>2, <1>3, <1>4, Steps

(* ... and what a move does to the streams. *)
LEMMA MoveGoesOn ==
  ASSUME Inv, NEW s \in Streams, NEW r, MovesTo(s, r)
  PROVE  /\ \A t \in Streams : st'[t] = st[t] \/ Further(st[t], st'[t])
         /\ \E t \in Streams : st'[t] # st[t]
         /\ FinitelyAhead => \A t \in Streams : IsFiniteSet(st'[t].pending)
<1>1. st = [t \in Streams |-> st[t]] /\ st' = [st EXCEPT ![s] = r]
  BY DEF Inv, StOK, MovesTo, Move
<1>2. st'[s] = r /\ \A t \in Streams \ {s} : st'[t] = st[t]
  BY <1>1
<1>3. Further(st[s], st'[s]) /\ st'[s] # st[s]
  BY <1>2, FurtherDiffers DEF MovesTo
<1>4. FinitelyAhead => \A t \in Streams : IsFiniteSet(st'[t].pending)
  BY <1>2 DEF FinitelyAhead, MovesTo
<1> QED
  BY <1>2, <1>3, <1>4

LEMMA NextGoesOn ==
  ASSUME Inv, Next, op # "none"
  PROVE  (NothingGoesBack /\ SomethingGoesOn) \/ UNCHANGED vars
<1>1. changes \in Nat
  BY DEF Inv, HistoryOK
<1>2. CASE Change
  <2>1. UNCHANGED <<st, known, root>> /\ changes' = changes + 1
    BY <1>2 DEF Change
  <2> QED
    BY <1>1, <2>1 DEF NothingGoesBack, SomethingGoesOn
<1>3. CASE SetProcfsRoot
  <2>1. UNCHANGED <<slot, class, op, st, drivers, known, out, errors, result, seen,
                    roots, touched, changes>>
    BY <1>3 DEF SetProcfsRoot, Still
  <2>2. root' = IF root = "unset" THEN "custom" ELSE root
    BY <1>3 DEF SetProcfsRoot
  <2>3. CASE root = "unset"
    BY <1>1, <2>1, <2>2, <2>3 DEF NothingGoesBack, SomethingGoesOn
  <2>4. CASE root # "unset"
    BY <2>1, <2>2, <2>4 DEF vars
  <2> QED
    BY <2>3, <2>4
<1>4. CASE KnownFilesystems
  <2>1. /\ UNCHANGED changes
        /\ root' = root \/ (root = "unset" /\ root' # "unset")
    BY <1>4 DEF KnownFilesystems, ProcfsRoot, Still
  <2>2. CASE UNCHANGED st /\ known = {} /\ known' # {}
    BY <1>1, <2>1, <2>2 DEF NothingGoesBack, SomethingGoesOn
  <2>3. CASE KnownFails
    <3>1. PICK s \in Streams : \E r : MovesTo(s, r)
      BY <2>3, KnownFailsAdvances DEF Advances
    <3>2. /\ \A t \in Streams : st'[t] = st[t] \/ Further(st[t], st'[t])
          /\ \E t \in Streams : st'[t] # st[t]
      BY <3>1, MoveGoesOn
    <3> QED
      BY <1>1, <2>1, <2>3, <3>2 DEF NothingGoesBack, SomethingGoesOn, KnownFails
  <2> QED
    BY <1>4, <2>2, <2>3 DEF KnownFilesystems, KnownFails
<1>5. CASE ~Change /\ ~SetProcfsRoot /\ ~KnownFilesystems
  <2>1. /\ known' = known /\ changes' = changes
        /\ root' = root \/ (root = "unset" /\ root' # "unset")
    BY <1>5, StepKeeps
  <2>2. Advances \/ Answers
    <3>1. Step
      BY <1>5 DEF Next, Begin
    <3> QED
      BY <1>5, <3>1, StepAdvances
  <2>3. CASE Advances
    <3>1. PICK s \in Streams : \E r : MovesTo(s, r)
      BY <2>3 DEF Advances
    <3>2. /\ \A t \in Streams : st'[t] = st[t] \/ Further(st[t], st'[t])
          /\ \E t \in Streams : st'[t] # st[t]
      BY <3>1, MoveGoesOn
    <3> QED
      BY <1>1, <2>1, <3>2 DEF NothingGoesBack, SomethingGoesOn
  <2>4. CASE Answers
    <3>1. result' # result /\ st' = st
      BY <2>4 DEF Answers, Finish
    <3> QED
      BY <1>1, <2>1, <3>1 DEF NothingGoesBack, SomethingGoesOn
  <2> QED
    BY <2>2, <2>3, <2>4
<1> QED
  BY <1>2, <1>3, <1>4, <1>5

LEMMA SlotsAhead == Inv => \A s \in Streams : IsFiniteSet(st[s].todo)
<1> SUFFICES ASSUME Inv, NEW s \in Streams PROVE IsFiniteSet(st[s].todo)
  OBVIOUS
<1>1. st[s].todo \subseteq Slots[Kind[s]] /\ Kind[s] \in DOMAIN Slots
  BY FilesAssumption DEF Inv, StOK, StreamOK, Shape
<1>2. st[s].todo \subseteq Slot
  BY <1>1 DEF Slot
<1>3. IsFiniteSet(Slot)
  BY FilesAssumption, Zenon
<1> QED
  BY <1>2, <1>3, FS_Subset

LEMMA InitAhead == Init => FinitelyAhead
<1>1. IsFiniteSet(At("wait").todo) /\ IsFiniteSet(At("wait").pending)
  BY FS_EmptySet DEF At
<1> QED
  BY <1>1 DEF Init, FinitelyAhead

LEMMA NextAhead == Inv /\ Inv' /\ FinitelyAhead /\ [Next]_vars => FinitelyAhead'
<1> SUFFICES ASSUME Inv, Inv', FinitelyAhead, [Next]_vars PROVE FinitelyAhead'
  OBVIOUS
<1>1. \A s \in Streams : IsFiniteSet(st'[s].todo)
  <2>1. (\A s \in Streams : IsFiniteSet(st[s].todo))'
    BY SlotsAhead, PTL
  <2> QED
    BY <2>1
<1>2. \A s \in Streams : IsFiniteSet(st'[s].pending)
  <2>1. CASE st' = st
    BY <2>1 DEF FinitelyAhead
  <2>2. CASE \E m \in Ops : Begin(m)
    <3>1. \A s \in Streams : \E l : st'[s] = At(l)
      BY <2>2 DEF Begin
    <3>2. \A l : IsFiniteSet(At(l).pending)
      BY FS_EmptySet DEF At
    <3> QED
      BY <3>1, <3>2
  <2>3. CASE Advances
    BY <2>3, MoveGoesOn DEF Advances
  <2>4. CASE Change \/ SetProcfsRoot \/ Answers
    BY <2>1, <2>4 DEF Change, SetProcfsRoot, Answers, Finish
  <2>6. CASE KnownFilesystems
    <3>1. st' = st \/ KnownFails
      BY <2>6 DEF KnownFilesystems, KnownFails
    <3> QED
      BY <2>1, <2>3, <3>1, KnownFailsAdvances
  <2>5. UNCHANGED vars => st' = st
    BY DEF vars
  <2> QED
    BY <2>1, <2>2, <2>3, <2>4, <2>5, <2>6, StepAdvances DEF Next
<1> QED
  BY <1>1, <1>2 DEF FinitelyAhead

(* The measure behind CallReturns.  While a call runs, no step takes any   *)
(* of its streams back, and each step takes one of them on, fills a cell   *)
(* that is filled once, or answers; what is ahead of a stream is finite,   *)
(* and the changes are bounded.  With AnswerIsFinal this says that a call  *)
(* takes finitely many steps, whatever is plugged in or out meanwhile.     *)
THEOREM StreamsGoOn ==
  Spec => []FinitelyAhead /\ [][op # "none" => NothingGoesBack /\ SomethingGoesOn]_vars
<1>1. Inv /\ [Next]_vars => [op # "none" => NothingGoesBack /\ SomethingGoesOn]_vars
  BY NextGoesOn
<1> QED
  BY Invariance, InitAhead, NextAhead, <1>1, PTL DEF Spec

----------------------------------------------------------------------------
(* Sums.  Induction is by the least number for which a claim fails, since  *)
(* that takes a set and no operator.                                       *)
Any(s) == CHOOSE x \in s : TRUE

IsSum(F, S, G) ==
  G = [s \in SUBSET S |-> IF s = {} THEN 0 ELSE F[Any(s)] + G[s \ {Any(s)}]]

LEMMA SumIs ==
  ASSUME NEW F
  PROVE  SumFunction(F) = (CHOOSE G : IsSum(F, DOMAIN F, G))[DOMAIN F]
BY Zenon DEF SumFunction, SumFunctionOnSet, FoldFunctionOnSet, MapThenFoldSet, IsSum, Any

LEMMA LeastNat ==
  ASSUME NEW T \in SUBSET Nat, T # {}
  PROVE  \E n \in T : \A m \in T : n <= m
<1> DEFINE R == {p \in Nat \X Nat : p[1] < p[2]}
<1>1. IsWellFoundedOn(R, Nat)
  BY NatLessThanWellFounded, Zenon DEF OpToRel
<1>2. \E n \in T : \A m \in T : ~(<<m, n>> \in R)
  <2> HIDE DEF R
  <2> QED
    BY <1>1, WFMin
<1>3. \A m, n \in Nat : m < n => <<m, n>> \in R
  OBVIOUS
<1> HIDE DEF R
<1>4. PICK n \in T : \A m \in T : ~(<<m, n>> \in R)
  BY <1>2
<1>5. ASSUME NEW m \in T PROVE n <= m
  <2>1. m \in Nat /\ n \in Nat /\ ~(m < n)
    BY <1>3, <1>4
  <2> QED
    BY <2>1
<1> QED
  BY <1>5

(* A sum step by step: it exists for every finite set, ... *)
Unfolds(F, G, s) == G[s] = IF s = {} THEN 0 ELSE F[Any(s)] + G[s \ {Any(s)}]

LEMMA AnyIn ==
  ASSUME NEW s, s # {}
  PROVE  Any(s) \in s
BY DEF Any

LEMMA Smaller ==
  ASSUME NEW S, IsFiniteSet(S), NEW s \in SUBSET S, NEW x \in s
  PROVE  /\ s \ {x} \in SUBSET S
         /\ Cardinality(s) \in Nat /\ Cardinality(s \ {x}) \in Nat
         /\ Cardinality(s) = Cardinality(s \ {x}) + 1
<1>1. IsFiniteSet(s) /\ IsFiniteSet(s \ {x})
  BY FS_Subset, FS_RemoveElement
<1>2. Cardinality(s) \in Nat /\ Cardinality(s \ {x}) \in Nat
  BY <1>1, FS_CardinalityType
<1>3. Cardinality(s \ {x}) = Cardinality(s) - 1
  BY <1>1, FS_RemoveElement
<1> QED
  BY <1>2, <1>3

LEMMA SumExists ==
  ASSUME NEW S, IsFiniteSet(S), NEW F \in [S -> Nat]
  PROVE  \E G \in [SUBSET S -> Nat] : \A s \in SUBSET S : Unfolds(F, G, s)
<1> DEFINE Good(n) == \E G \in [SUBSET S -> Nat] :
                         \A s \in SUBSET S : Cardinality(s) <= n => Unfolds(F, G, s)
           T == {n \in Nat : ~Good(n)}
<1>1. Good(0)
  <2> DEFINE G == [s \in SUBSET S |-> 0]
  <2>1. ASSUME NEW s \in SUBSET S, Cardinality(s) <= 0 PROVE Unfolds(F, G, s)
    <3>1. s = {}
      <4>1. IsFiniteSet(s)
        BY FS_Subset
      <4> QED
        BY <2>1, <4>1, FS_EmptySet, FS_CardinalityType
    <3> QED
      BY <3>1 DEF Unfolds
  <2>2. G \in [SUBSET S -> Nat]
    OBVIOUS
  <2> QED
    BY <2>1, <2>2
<1>2. ASSUME NEW n \in Nat, Good(n) PROVE Good(n + 1)
  <2>1. PICK H \in [SUBSET S -> Nat] :
               \A s \in SUBSET S : Cardinality(s) <= n => Unfolds(F, H, s)
    BY <1>2
  <2> DEFINE val(s) == IF s = {} THEN 0 ELSE F[Any(s)] + H[s \ {Any(s)}]
             G == [s \in SUBSET S |-> val(s)]
  <2>2. \A s \in SUBSET S : val(s) \in Nat
    BY <2>1, AnyIn
  <2>3. G \in [SUBSET S -> Nat]
    BY <2>2
  <2>4. ASSUME NEW s \in SUBSET S, Cardinality(s) <= n + 1 PROVE Unfolds(F, G, s)
    <3>1. CASE s = {}
      BY <3>1 DEF Unfolds
    <3>2. CASE s # {}
      <4> DEFINE x == Any(s)
                 t == s \ {x}
      <4>1. x \in s
        BY <3>2, AnyIn
      <4>2. t \in SUBSET S /\ Cardinality(t) <= n
        <5> HIDE DEF x
        <5> QED
          BY <4>1, <2>4, Smaller
      <4>3. H[t] = val(t)
        BY <2>1, <4>2, Zenon DEF Unfolds
      <4>4. G[t] = val(t) /\ G[s] = F[x] + H[t]
        BY <3>2, <4>2, Zenon
      <4>5. G[s] = F[x] + G[t]
        BY <4>3, <4>4, Zenon
      <4> QED
        BY <3>2, <4>5, Zenon DEF Unfolds
    <3> QED
      BY <3>1, <3>2
  <2> HIDE DEF G
  <2> QED
    BY <2>3, <2>4
<1>3. ASSUME T # {} PROVE FALSE
  <2>1. PICK n \in T : \A m \in T : n <= m
    <3> HIDE DEF T
    <3>1. T \in SUBSET Nat
      BY DEF T
    <3> QED
      BY <1>3, <3>1, LeastNat
  <2>2. n \in Nat /\ ~Good(n)
    BY <2>1
  <2> HIDE DEF Good
  <2>3. n # 0
    BY <1>1, <2>2
  <2>4. n - 1 \in Nat /\ Good(n - 1)
    BY <2>1, <2>2, <2>3
  <2>5. Good((n - 1) + 1)
    BY <1>2, <2>4
  <2>6. (n - 1) + 1 = n
    BY <2>2
  <2> QED
    BY <2>2, <2>5, <2>6
<1>4. Cardinality(S) \in Nat /\ \A s \in SUBSET S : Cardinality(s) <= Cardinality(S)
  BY FS_CardinalityType, FS_Subset
<1>5. Good(Cardinality(S))
  <2> HIDE DEF Good
  <2> QED
    BY <1>3, <1>4
<1> QED
  BY <1>4, <1>5

(* ... and is the same whichever element is taken first. *)
LEMMA SumIsTyped ==
  ASSUME NEW S, IsFiniteSet(S), NEW F \in [S -> Nat], NEW G, IsSum(F, S, G),
         NEW H \in [SUBSET S -> Nat], \A s \in SUBSET S : Unfolds(F, H, s)
  PROVE  G = H
<1>1. \A s \in SUBSET S : Unfolds(F, G, s)
  BY DEF IsSum, Unfolds
<1>2. G = [s \in SUBSET S |-> G[s]]
  BY DEF IsSum
<1> DEFINE T == {n \in Nat : \E s \in SUBSET S : Cardinality(s) = n /\ G[s] # H[s]}
<1>3. ASSUME T # {} PROVE FALSE
  <2>1. PICK n \in T : \A m \in T : n <= m
    <3> HIDE DEF T
    <3>1. T \in SUBSET Nat
      BY DEF T
    <3> QED
      BY <1>3, <3>1, LeastNat
  <2>2. PICK s \in SUBSET S : Cardinality(s) = n /\ G[s] # H[s]
    BY <2>1
  <2>3. CASE s = {}
    BY <1>1, <2>2, <2>3 DEF Unfolds
  <2>4. CASE s # {}
    <3>1. PICK x \in s : x = Any(s)
      BY <2>4, AnyIn
    <3>2. s \ {x} \in SUBSET S /\ Cardinality(s \ {x}) \in Nat
          /\ n = Cardinality(s \ {x}) + 1
      BY <2>2, Smaller
    <3>3. G[s \ {x}] = H[s \ {x}]
      <4>1. Cardinality(s \ {x}) \notin T
        <5> HIDE DEF T
        <5>1. ~(n <= Cardinality(s \ {x}))
          BY <3>2
        <5> QED
          BY <2>1, <5>1
      <4> QED
        BY <3>2, <4>1
    <3>4. G[s] = F[x] + G[s \ {x}] /\ H[s] = F[x] + H[s \ {x}]
      BY <1>1, <2>4, <3>1, Zenon DEF Unfolds
    <3> QED
      BY <2>2, <3>3, <3>4
  <2> QED
    BY <2>3, <2>4
<1>4. ASSUME NEW s \in SUBSET S PROVE G[s] = H[s]
  <2>1. IsFiniteSet(s)
    BY FS_Subset
  <2>2. Cardinality(s) \in Nat
    BY <2>1, FS_CardinalityType
  <2> QED
    BY <1>3, <2>2
<1> QED
  BY <1>2, <1>4

Sums(F, S, G) ==
  /\ G \in [SUBSET S -> Nat] /\ G[{}] = 0
  /\ \A s \in SUBSET S : \A x \in s : G[s] = F[x] + G[s \ {x}]

LEMMA AnyOrder ==
  ASSUME NEW S, IsFiniteSet(S), NEW F \in [S -> Nat],
         NEW G \in [SUBSET S -> Nat], \A s \in SUBSET S : Unfolds(F, G, s)
  PROVE  Sums(F, S, G)
<1> DEFINE T == {n \in Nat : \E s \in SUBSET S : \E x \in s :
                   Cardinality(s) = n /\ G[s] # F[x] + G[s \ {x}]}
<1>1. ASSUME T # {} PROVE FALSE
  <2>1. PICK n \in T : \A m \in T : n <= m
    <3> HIDE DEF T
    <3>1. T \in SUBSET Nat
      BY DEF T
    <3> QED
      BY <1>1, <3>1, LeastNat
  <2>2. PICK s \in SUBSET S : \E x \in s :
               Cardinality(s) = n /\ G[s] # F[x] + G[s \ {x}]
    BY <2>1
  <2>3. PICK x \in s : Cardinality(s) = n /\ G[s] # F[x] + G[s \ {x}]
    BY <2>2
  <2>4. PICK y \in s : y = Any(s)
    BY AnyIn
  <2>5. G[s] = F[y] + G[s \ {y}]
    BY <2>4, Zenon DEF Unfolds
  <2>6. x # y
    BY <2>3, <2>5
  <2>7. /\ s \ {y} \in SUBSET S /\ Cardinality(s \ {y}) \in Nat
        /\ n = Cardinality(s \ {y}) + 1
        /\ s \ {x} \in SUBSET S /\ Cardinality(s \ {x}) \in Nat
        /\ n = Cardinality(s \ {x}) + 1
    BY <2>3, Smaller
  <2>8. Cardinality(s \ {x}) \notin T /\ Cardinality(s \ {y}) \notin T
    <3> HIDE DEF T
    <3>1. ~(n <= Cardinality(s \ {x})) /\ ~(n <= Cardinality(s \ {y}))
      BY <2>7
    <3> QED
      BY <2>1, <3>1
  <2>9. x \in s \ {y} /\ y \in s \ {x}
    BY <2>6
  <2>10. G[s \ {y}] = F[x] + G[(s \ {y}) \ {x}] /\ G[s \ {x}] = F[y] + G[(s \ {x}) \ {y}]
    BY <2>7, <2>8, <2>9
  <2>11. (s \ {y}) \ {x} = (s \ {x}) \ {y} /\ (s \ {x}) \ {y} \in SUBSET S
    OBVIOUS
  <2>12. F[x] \in Nat /\ F[y] \in Nat /\ G[(s \ {x}) \ {y}] \in Nat
    BY <2>11
  <2> DEFINE r == G[(s \ {x}) \ {y}]
  <2>13. G[s] = F[y] + (F[x] + r) /\ G[s] # F[x] + (F[y] + r)
    BY <2>3, <2>5, <2>10, <2>11, Zenon
  <2> HIDE DEF r
  <2>14. r \in Nat
    BY <2>12 DEF r
  <2> QED
    BY <2>12, <2>13, <2>14
<1>2. ASSUME NEW s \in SUBSET S, NEW x \in s PROVE G[s] = F[x] + G[s \ {x}]
  <2>1. Cardinality(s) \in Nat
    BY Smaller
  <2> QED
    BY <1>1, <2>1, ZenonT(60)
<1>3. G[{}] = 0
  BY DEF Unfolds
<1> QED
  BY <1>2, <1>3 DEF Sums

LEMMA SumFacts ==
  ASSUME NEW S, IsFiniteSet(S), NEW F \in [S -> Nat]
  PROVE  \E G : Sums(F, S, G) /\ SumFunction(F) = G[S]
<1>1. PICK H \in [SUBSET S -> Nat] : \A s \in SUBSET S : Unfolds(F, H, s)
  BY SumExists
<1>2. IsSum(F, S, H)
  BY <1>1 DEF IsSum, Unfolds
<1>3. SumFunction(F) = (CHOOSE G : IsSum(F, S, G))[S] /\ DOMAIN F = S
  BY SumIs
<1>4. PICK G : IsSum(F, S, G) /\ SumFunction(F) = G[S]
  BY <1>2, <1>3
<1>5. G = H
  BY <1>1, <1>4, SumIsTyped
<1> QED
  BY <1>1, <1>4, <1>5, AnyOrder

(* Terms that are not larger have a sum that is not larger, in whatever    *)
(* way the terms of one sum are matched with those of the other.           *)
LEMMA SumIsMonotone ==
  ASSUME NEW S, IsFiniteSet(S), NEW F \in [S -> Nat],
         NEW T, IsFiniteSet(T), NEW H \in [T -> Nat], NEW g \in [S -> T],
         \A x, y \in S : g[x] = g[y] => x = y,
         \A y \in T : \E x \in S : g[x] = y,
         \A x \in S : F[x] <= H[g[x]]
  PROVE  SumFunction(F) <= SumFunction(H)
<1>1. PICK f : Sums(F, S, f) /\ SumFunction(F) = f[S]
  BY SumFacts
<1>2. PICK h : Sums(H, T, h) /\ SumFunction(H) = h[T]
  BY SumFacts
<1> DEFINE Im(s) == {g[x] : x \in s}
           Bad == {n \in Nat : \E s \in SUBSET S :
                     Cardinality(s) = n /\ ~(f[s] <= h[Im(s)])}
<1>3. ASSUME Bad # {} PROVE FALSE
  <2>1. PICK n \in Bad : \A m \in Bad : n <= m
    <3> HIDE DEF Bad
    <3>1. Bad \in SUBSET Nat
      BY DEF Bad
    <3> QED
      BY <1>3, <3>1, LeastNat
  <2>2. PICK s \in SUBSET S : Cardinality(s) = n /\ ~(f[s] <= h[Im(s)])
    BY <2>1
  <2>3. CASE s = {}
    <3>1. Im(s) = {}
      BY <2>3
    <3> QED
      BY <1>1, <1>2, <2>2, <2>3, <3>1 DEF Sums
  <2>4. CASE s # {}
    <3>1. PICK x \in s : TRUE
      BY <2>4
    <3>2. /\ s \ {x} \in SUBSET S /\ Cardinality(s \ {x}) \in Nat
          /\ n = Cardinality(s \ {x}) + 1
      BY <2>2, Smaller
    <3>3. Cardinality(s \ {x}) \notin Bad
      <4> HIDE DEF Bad
      <4>1. ~(n <= Cardinality(s \ {x}))
        BY <3>2
      <4> QED
        BY <2>1, <4>1
    <3>4. f[s \ {x}] <= h[Im(s \ {x})]
      BY <3>2, <3>3
    <3>5. Im(s \ {x}) = Im(s) \ {g[x]} /\ g[x] \in Im(s) /\ Im(s) \in SUBSET T
      OBVIOUS
    <3>6. f[s] = F[x] + f[s \ {x}] /\ h[Im(s)] = H[g[x]] + h[Im(s) \ {g[x]}]
      BY <1>1, <1>2, <3>5, ZenonT(60) DEF Sums
    <3>7. /\ F[x] \in Nat /\ f[s \ {x}] \in Nat /\ H[g[x]] \in Nat
          /\ h[Im(s) \ {g[x]}] \in Nat /\ F[x] <= H[g[x]]
      BY <1>1, <1>2, <3>2, <3>5 DEF Sums
    <3>8. f[s \ {x}] <= h[Im(s) \ {g[x]}]
      BY <3>4, <3>5
    <3> QED
      BY <2>2, <3>6, <3>7, <3>8
  <2> QED
    BY <2>3, <2>4
<1>4. Im(S) = T
  OBVIOUS
<1>5. f[S] <= h[Im(S)]
  <2>1. Cardinality(S) \in Nat /\ S \in SUBSET S
    BY FS_CardinalityType
  <2> QED
    BY <1>3, <2>1
<1> QED
  BY <1>1, <1>2, <1>4, <1>5

LEMMA SumIsNat ==
  ASSUME NEW S, IsFiniteSet(S), NEW F \in [S -> Nat]
  PROVE  SumFunction(F) \in Nat
<1>1. PICK f : Sums(F, S, f) /\ SumFunction(F) = f[S]
  BY SumFacts
<1> QED
  BY <1>1 DEF Sums

LEMMA DivIsMonotone ==
  ASSUME NEW a \in Nat, NEW b \in Nat, NEW n \in Nat, n > 0, a <= b
  PROVE  a \div n <= b \div n
<1>1. /\ a \div n \in Int /\ b \div n \in Int
      /\ n * (a \div n) <= a /\ b < n * (b \div n) + n
  OBVIOUS
<1>2. ASSUME NEW p \in Int, NEW q \in Int, n * p <= a, b < n * q + n PROVE p <= q
  <2>1. ASSUME ~(p <= q) PROVE FALSE
    <3>1. p - q - 1 \in Nat
      BY <2>1
    <3>2. n * (p - q - 1) \in Nat
      BY <3>1
    <3>3. n * (p - q - 1) = n * p - n * q - n
      OBVIOUS
    <3>4. n * p \in Int /\ n * q \in Int
      OBVIOUS
    <3> QED
      BY <1>2, <3>2, <3>3, <3>4
  <2> QED
    BY <2>1
<1> QED
  BY <1>1, <1>2

----------------------------------------------------------------------------
(* The numbers of a call during which no CPU comes or goes.                *)
WholeItem(s, x) == Item(s, x, (FilesOf(s) \intersect slot[x].files) \X {slot[x].id})

Reported(s) == {x \in Online : Contributes(s, x)}

LEMMA CpuItems ==
  ASSUME Inv, touched = {}, NEW s \in {"cpufreq", "core_id"}, st[s].pc = "end"
  PROVE  /\ out = {WholeItem(s, x) : x \in Reported(s)}
         /\ s = "cpufreq" => Counted = Reported(s)
<1>1. s \in Streams /\ Kind[s] = "cpu" /\ "cpu" \in DOMAIN Slots
  BY StreamsAre, KindIs, KindsAre
<1>2. Runs(s) /\ st[s].todo = {}
  BY <1>1 DEF Inv, StOK, StreamOK, Underway, Walking, Busy
<1>3. /\ s = "cpufreq" => op = "frequency"
      /\ s = "core_id" => op = "physical_count"
      /\ op \in Ops
  BY <1>1, <1>2, RunsOf DEF Runs
<1>4. Kind[s] \in class
  <2>1. class = KindsOf(op)
    BY <1>3 DEF Inv, CallOK
  <2>2. s \in StreamsOf(op)
    BY <1>3 DEF StreamsOf
  <2> QED
    BY <2>1, <2>2 DEF KindsOf
<1>5. ASSUME NEW x \in Slots["cpu"] PROVE Handled(s, x)
  <2>1. SlotOK(s, x)
    BY <1>1, <1>4 DEF Inv, SlotsAreHandled, StreamIsExact
  <2>2. x \notin OpenSlots(s)
    BY <1>2 DEF OpenSlots, Busy
  <2> QED
    BY <2>1, <2>2 DEF SlotOK
<1>6. ASSUME NEW x \in Reported(s) PROVE ItemsOf(s, x) = {WholeItem(s, x)}
  <2>1. x \in Slots["cpu"] /\ slot[x] # Empty /\ Contributes(s, x)
    BY <1>6 DEF Reported, Online
  <2>2. ItemsOf(s, x) = {Item(s, x, Of(s, slot[x]) \X {slot[x].id})}
    BY <1>5, <2>1 DEF Handled
  <2>3. s = "core_id" => "core_id" \in slot[x].files
    BY <2>1 DEF Contributes
  <2>4. Of(s, slot[x]) = FilesOf(s) \intersect slot[x].files
    BY <2>3, OfIs
  <2> QED
    BY <2>2, <2>4 DEF WholeItem
<1>7. ASSUME NEW i \in out PROVE \E x \in Reported(s) : i = WholeItem(s, x)
  <2>1. i.stream \in Streams /\ i.slot \in Slots[Kind[i.stream]]
        /\ st[i.stream].pc # "wait"
    BY DEF Inv, OutOK
  <2>2. Runs(i.stream)
    BY <2>1 DEF Inv, StOK, StreamOK
  <2>3. i.stream = s
    BY <1>3, <2>1, <2>2, RunsOf
  <2>4. i.slot \in Slots["cpu"] /\ i \in ItemsOf(s, i.slot)
    BY <1>1, <2>1, <2>3 DEF ItemsOf
  <2>5. i.slot \in Reported(s)
    BY <1>5, <2>4 DEF Handled, Reported, Online
  <2> QED
    BY <1>6, <2>4, <2>5
<1>8. ASSUME NEW x \in Reported(s) PROVE WholeItem(s, x) \in out
  BY <1>6 DEF ItemsOf
<1>9. ASSUME s = "cpufreq" PROVE Counted = Reported(s)
  <2>1. ASSUME NEW x \in Counted PROVE x \in Reported(s)
    BY <1>5, <1>9, <2>1 DEF Counted, Online, Reported, Handled
  <2>2. ASSUME NEW x \in Reported(s) PROVE x \in Counted
    BY <1>9, <2>2 DEF Counted, Online, Reported, Contributes
  <2> QED
    BY <2>1, <2>2
<1> QED
  BY <1>7, <1>8, <1>9

(* The id of a CPU tells which one it is. *)
LEMMA CpuIs ==
  ASSUME Inv, NEW x \in Online
  PROVE  slot[x] \in Devices["cpu"] /\ CpuOf(slot[x].id) = slot[x]
<1>1. slot[x] \in Devices["cpu"]
  BY KindsAre DEF Inv, SlotsOK, Online
<1> QED
  BY <1>1, FilesAssumption DEF CpuOf

LEMMA OnlineIsFinite == IsFiniteSet(Online) /\ \A S \in SUBSET Online : IsFiniteSet(S)
<1>1. Online \in SUBSET Slot
  BY KindsAre DEF Online
<1>2. IsFiniteSet(Online)
  BY <1>1, FilesAssumption, FS_Subset
<1> QED
  BY <1>2, FS_Subset

(* Sets that are matched one to one have the same number of elements. *)
LEMMA Matched ==
  ASSUME NEW S, IsFiniteSet(S), NEW T, NEW g \in [S -> T],
         \A x, y \in S : g[x] = g[y] => x = y,
         \A y \in T : \E x \in S : g[x] = y
  PROVE  IsFiniteSet(T) /\ Cardinality(T) = Cardinality(S)
<1>1. g \in Injection(S, T)
  BY DEF Injection, IsInjective
<1>2. g \in Surjection(S, T)
  BY DEF Surjection
<1>3. ExistsBijection(S, T)
  BY <1>1, <1>2 DEF ExistsBijection, Bijection
<1> QED
  BY <1>3, FS_Bijection

(* The sum over what was read is the sum over the CPUs, if all of them     *)
(* show the number.                                                        *)
LEMMA TotalIsSum ==
  ASSUME Inv, touched = {}, st["cpufreq"].pc = "end",
         NEW f \in {"cur", "max", "min"}, \A x \in Counted : f \in slot[x].files
  PROVE  Total(f) = Sum(f) /\ Sum(f) \in Nat
<1> DEFINE P == UNION {{i.slot} \X {h \in i.have : h[1] = f} : i \in out}
           F == [p \in P |-> CpuOf(p[2][2])[f]]
           H == [x \in Counted |-> slot[x][f]]
           pair(x) == <<x, <<f, slot[x].id>>>>
<1>1. out = {WholeItem("cpufreq", x) : x \in Counted}
  BY CpuItems
<1>2. Counted \in SUBSET Online /\ IsFiniteSet(Counted)
  BY OnlineIsFinite DEF Counted
<1>3. ASSUME NEW x \in Counted PROVE pair(x) \in P
  <2>1. PICK i \in out : i = WholeItem("cpufreq", x)
    BY <1>1
  <2>2. i.slot = x /\ <<f, slot[x].id>> \in i.have
    BY <2>1 DEF WholeItem, Item, FilesOf
  <2> QED
    BY <2>2
<1>4. ASSUME NEW p \in P PROVE \E x \in Counted : p = pair(x)
  <2>1. PICK i \in out : p \in {i.slot} \X {h \in i.have : h[1] = f}
    OBVIOUS
  <2>2. PICK x \in Counted : i = WholeItem("cpufreq", x)
    BY <1>1
  <2>3. i.slot = x /\ i.have = (FilesOf("cpufreq") \intersect slot[x].files) \X {slot[x].id}
    BY <2>2 DEF WholeItem, Item
  <2>4. PICK h \in i.have : p = <<i.slot, h>> /\ h[1] = f
    BY <2>1
  <2>5. h = <<f, slot[x].id>>
    BY <2>3, <2>4
  <2> QED
    BY <2>3, <2>4, <2>5
<1> HIDE DEF P
<1>5. \A x \in Counted : slot[x] \in Devices["cpu"] /\ CpuOf(slot[x].id) = slot[x]
  BY <1>2, CpuIs
<1>6. \A x \in Counted : slot[x][f] \in Nat
  BY <1>5, FilesAssumption
<1>7. H \in [Counted -> Nat]
  BY <1>6
<1>8. \A x \in Counted : F[pair(x)] = slot[x][f]
  BY <1>3, <1>5
<1>9. F \in [P -> Nat]
  BY <1>4, <1>5, <1>6
<1> DEFINE to == [x \in Counted |-> pair(x)]
           from == [p \in P |-> p[1]]
<1>10. /\ to \in [Counted -> P] /\ from \in [P -> Counted]
       /\ \A x \in Counted : from[to[x]] = x
       /\ \A p \in P : to[from[p]] = p
  BY <1>3, <1>4
<1>11. /\ \A x \in Counted : H[x] = slot[x][f] /\ F[to[x]] = slot[x][f]
       /\ \A p \in P : F[p] = slot[from[p]][f]
  <2>1. ASSUME NEW x \in Counted PROVE H[x] = slot[x][f] /\ to[x] = pair(x)
    OBVIOUS
  <2>2. ASSUME NEW p \in P PROVE F[p] = slot[from[p]][f]
    <3>1. PICK x \in Counted : p = pair(x)
      BY <1>4
    <3>2. from[p] = x
      BY <3>1
    <3> QED
      BY <1>8, <3>1, <3>2
  <2> HIDE DEF F, H, to, from, pair
  <2> QED
    BY <1>8, <2>1, <2>2
<1>12. Total(f) = SumFunction(F) /\ Sum(f) = SumFunction(H)
  BY DEF Total, Sum, P
<1> HIDE DEF F, H, to, from, pair
<1>13. /\ \A x, y \in Counted : to[x] = to[y] => x = y
       /\ \A p \in P : \E x \in Counted : to[x] = p
  <2>1. ASSUME NEW x \in Counted, NEW y \in Counted, to[x] = to[y] PROVE x = y
    <3>1. from[to[x]] = x /\ from[to[y]] = y
      BY <1>10
    <3> QED
      BY <2>1, <3>1
  <2>2. ASSUME NEW p \in P PROVE \E x \in Counted : to[x] = p
    BY <1>10
  <2> QED
    BY <2>1, <2>2
<1>14. IsFiniteSet(P)
  BY <1>2, <1>10, <1>13, Matched
<1>15. SumFunction(H) <= SumFunction(F)
  <2>1. \A x \in Counted : H[x] <= F[to[x]]
    BY <1>6, <1>11
  <2> QED
    BY <1>2, <1>7, <1>9, <1>10, <1>13, <1>14, <2>1, SumIsMonotone
<1>16. SumFunction(F) <= SumFunction(H)
  <2>1. \A p \in P : F[p] <= H[from[p]]
    BY <1>6, <1>10, <1>11
  <2>2. ASSUME NEW p \in P, NEW q \in P, from[p] = from[q] PROVE p = q
    <3>1. to[from[p]] = p /\ to[from[q]] = q
      BY <1>10
    <3> QED
      BY <2>2, <3>1
  <2>3. ASSUME NEW x \in Counted PROVE \E p \in P : from[p] = x
    BY <1>10
  <2> QED
    BY <1>2, <1>7, <1>9, <1>10, <1>14, <2>1, <2>2, <2>3, SumIsMonotone
<1>17. SumFunction(F) \in Nat /\ SumFunction(H) \in Nat
  BY <1>2, <1>7, <1>9, <1>14, SumIsNat
<1> QED
  BY <1>12, <1>15, <1>16, <1>17

LEMMA OneItemEach ==
  ASSUME Inv, touched = {}, st["cpufreq"].pc = "end"
  PROVE  Cardinality(out) = Cardinality(Counted) /\ IsFiniteSet(Counted)
<1>1. out = {WholeItem("cpufreq", x) : x \in Counted}
  BY CpuItems
<1>2. IsFiniteSet(Counted)
  BY OnlineIsFinite DEF Counted
<1> DEFINE to == [x \in Counted |-> WholeItem("cpufreq", x)]
<1>3. \A x, y \in Counted : WholeItem("cpufreq", x) = WholeItem("cpufreq", y) => x = y
  BY DEF WholeItem, Item
<1>4. to \in [Counted -> out] /\ \A x \in Counted : to[x] = WholeItem("cpufreq", x)
  BY <1>1
<1> HIDE DEF to
<1>5. \A x, y \in Counted : to[x] = to[y] => x = y
  BY <1>3, <1>4
<1>6. \A i \in out : \E x \in Counted : to[x] = i
  BY <1>1, <1>4
<1> QED
  BY <1>2, <1>4, <1>5, <1>6, Matched

LEMMA FrequencyIsMean ==
  ASSUME Inv, result.kind = "Ok", touched = {}, op = "frequency"
  PROVE  /\ result.n = Sum("cur") \div Cardinality(Counted)
         /\ (\A x \in Counted : {"max", "min"} \subseteq slot[x].files) =>
              result.lo <= result.n /\ result.n <= result.hi
<1>1. /\ st["cpufreq"].pc = "end" /\ out # {}
      /\ result.n = Total("cur") \div Cardinality(out)
      /\ result.lo = Total("min") \div Cardinality(out)
      /\ result.hi = Total("max") \div Cardinality(out)
  BY DEF Inv, AnswerOK
<1>2. \A x \in Counted : "cur" \in slot[x].files
  BY <1>1, CpuItems DEF Reported, Contributes
<1>3. Total("cur") = Sum("cur") /\ Sum("cur") \in Nat
  BY <1>1, <1>2, TotalIsSum
<1>4. Cardinality(out) = Cardinality(Counted) /\ IsFiniteSet(Counted)
  BY <1>1, OneItemEach
<1>5. Cardinality(Counted) \in Nat /\ Cardinality(Counted) > 0
  <2>1. Counted # {}
    BY <1>1, CpuItems
  <2>2. Cardinality(Counted) \in Nat /\ Cardinality(Counted) # 0
    BY <1>4, <2>1, FS_CardinalityType, FS_EmptySet
  <2> QED
    BY <2>2
<1>6. ASSUME \A x \in Counted : {"max", "min"} \subseteq slot[x].files
      PROVE  result.lo <= result.n /\ result.n <= result.hi
  <2>1. /\ Total("min") = Sum("min") /\ Sum("min") \in Nat
        /\ Total("max") = Sum("max") /\ Sum("max") \in Nat
    BY <1>1, <1>6, TotalIsSum
  <2>2. \A x \in Counted : slot[x] \in Devices["cpu"]
    BY CpuIs DEF Counted
  <2>3. \A x \in Counted : /\ slot[x].cur \in Nat /\ slot[x].min \in Nat
                           /\ slot[x].max \in Nat /\ slot[x].min <= slot[x].cur
                           /\ slot[x].cur <= slot[x].max
    BY <1>6, <2>2, FilesAssumption
  <2> DEFINE same == [x \in Counted |-> x]
             Cur == [x \in Counted |-> slot[x].cur]
             Lo == [x \in Counted |-> slot[x].min]
             Hi == [x \in Counted |-> slot[x].max]
  <2>4. /\ same \in [Counted -> Counted] /\ Cur \in [Counted -> Nat]
        /\ Lo \in [Counted -> Nat] /\ Hi \in [Counted -> Nat]
        /\ \A x \in Counted : same[x] = x /\ Lo[x] <= Cur[x] /\ Cur[x] <= Hi[x]
    BY <2>3
  <2>5. /\ Sum("cur") = SumFunction(Cur) /\ Sum("min") = SumFunction(Lo)
        /\ Sum("max") = SumFunction(Hi)
    BY DEF Sum
  <2> HIDE DEF same, Cur, Lo, Hi
  <2>6. \A x, y \in Counted : same[x] = same[y] => x = y
    BY <2>4
  <2>7. \A y \in Counted : \E x \in Counted : same[x] = y
    BY <2>4
  <2>8. /\ \A x \in Counted : Lo[x] <= Cur[same[x]]
        /\ \A x \in Counted : Cur[x] <= Hi[same[x]]
    BY <2>4
  <2>9. SumFunction(Lo) <= SumFunction(Cur)
    BY <1>4, <2>4, <2>6, <2>7, <2>8, SumIsMonotone
  <2>10. SumFunction(Cur) <= SumFunction(Hi)
    BY <1>4, <2>4, <2>6, <2>7, <2>8, SumIsMonotone
  <2>11. Sum("min") <= Sum("cur") /\ Sum("cur") <= Sum("max")
    BY <2>5, <2>9, <2>10
  <2>12. /\ Sum("min") \div Cardinality(Counted) <= Sum("cur") \div Cardinality(Counted)
         /\ Sum("cur") \div Cardinality(Counted) <= Sum("max") \div Cardinality(Counted)
    BY <1>3, <1>5, <2>1, <2>11, DivIsMonotone
  <2> QED
    BY <1>1, <1>3, <1>4, <2>1, <2>12
<1> QED
  BY <1>1, <1>3, <1>4, <1>6

LEMMA PhysicalCountIsCores ==
  ASSUME Inv, result.kind = "Ok", touched = {}, op = "physical_count", OnePackage
  PROVE  result.n = Cardinality({slot[x].core : x \in Online})
<1>1. st["core_id"].pc = "end" /\ result.n = Cardinality(Cores)
  BY DEF Inv, AnswerOK
<1>2. Reported("core_id") = Online
  BY DEF OnePackage, Reported, Contributes
<1>3. out = {WholeItem("core_id", x) : x \in Online}
  BY <1>1, <1>2, CpuItems
<1>4. ASSUME NEW x \in Online
      PROVE  WholeItem("core_id", x).have = {<<"core_id", slot[x].id>>}
  BY DEF OnePackage, WholeItem, Item, FilesOf
<1>5. UNION {i.have : i \in out} = {<<"core_id", slot[x].id>> : x \in Online}
  BY <1>3, <1>4
<1>6. Cores = {slot[x].core : x \in Online}
  <2>1. \A x \in Online : CpuOf(slot[x].id) = slot[x]
    BY CpuIs
  <2>2. ASSUME NEW x \in Online PROVE slot[x].core \in Cores
    <3>1. PICK h \in UNION {i.have : i \in out} : h = <<"core_id", slot[x].id>>
      BY <1>5
    <3> QED
      BY <2>1, <3>1 DEF Cores
  <2>3. ASSUME NEW c \in Cores PROVE \E x \in Online : c = slot[x].core
    <3>1. PICK h \in UNION {i.have : i \in out} : c = CpuOf(h[2]).core
      BY DEF Cores
    <3>2. PICK x \in Online : h = <<"core_id", slot[x].id>>
      BY <1>5
    <3> QED
      BY <2>1, <3>1, <3>2
  <2> QED
    BY <2>2, <2>3
<1> QED
  BY <1>1, <1>6

(* If no CPU comes or goes during the call, frequency returns the mean     *)
(* over the CPUs that have cpufreq, between the mean limits if all of them *)
(* have limits, and physical_count the number of different cores, for any  *)
(* number of CPUs and however the reads are interleaved with other calls.  *)
THEOREM CountsStayExact == Spec => []CountsAreExact
<1>1. Inv => CountsAreExact
  BY FrequencyIsMean, PhysicalCountIsCores DEF CountsAreExact
<1> QED
  BY Invariance, <1>1, PTL

----------------------------------------------------------------------------
(***************************************************************************)
(* VirtDetect.                                                             *)
(***************************************************************************)
(* The inductive invariant: all probes up to the last one have failed, and *)
(* the verdict is that of the last one.                                    *)
Failed == \A k \in 1..12 : k < at - 1 => Says(k) = "None"

LastDecides == /\ at = 1 => found = "None"
               /\ at > 1 => found = Says(at - 1)

DetectInv == DetectTypeOK /\ Failed /\ LastDecides

LEMMA ChainLength == Len(Chain) = 12
BY DEF Chain

(* The first five probes look for containers, and the others do not. *)
LEMMA ContainersFirst ==
  ASSUME NEW k \in 1..12
  PROVE  Chain[k].source \in ContainerSources <=> k \in 1..5
BY DEF Chain, ContainerSources

(* What each table of keywords says. *)
LEMMA Tables ==
  /\ \A x \in DOMAIN Guess : Guess[x] \in Containers \union {"Unknown", "None"}
  /\ \A x \in DOMAIN OpenVz : OpenVz[x] \in Containers \union {"None"}
  /\ \A x \in DOMAIN WslRelease : WslRelease[x] \in Containers \union {"None"}
  /\ \A x \in DOMAIN Cgroups : Cgroups[x] \in Containers \union {"None"}
  /\ \A x \in DOMAIN Dmi : Dmi[x] \in Vms \union {"None"}
  /\ \A x \in DOMAIN CpuId : CpuId[x] \in Vms \union {"None"}
  /\ \A x \in DOMAIN Hypervisor : Hypervisor[x] \in Vms \union {"Unknown", "None"}
  /\ \A x \in DOMAIN DeviceTree : DeviceTree[x] \in Vms \union {"None"}
<1>1. \A x \in DOMAIN Guess : Guess[x] \in Containers \union {"Unknown", "None"}
  BY DEF Guess, Containers
<1>2. \A x \in DOMAIN OpenVz : OpenVz[x] \in Containers \union {"None"}
  BY DEF OpenVz, Containers
<1>3. \A x \in DOMAIN WslRelease : WslRelease[x] \in Containers \union {"None"}
  BY DEF WslRelease, Containers
<1>4. \A x \in DOMAIN Cgroups : Cgroups[x] \in Containers \union {"None"}
  BY DEF Cgroups, Containers
<1>5. \A x \in DOMAIN Dmi : Dmi[x] \in Vms \union {"None"}
  BY DEF Dmi, Vms
<1>6. \A x \in DOMAIN CpuId : CpuId[x] \in Vms \union {"None"}
  BY DEF CpuId, Vms
<1>7. \A x \in DOMAIN Hypervisor : Hypervisor[x] \in Vms \union {"Unknown", "None"}
  BY DEF Hypervisor, Vms
<1>8. \A x \in DOMAIN DeviceTree : DeviceTree[x] \in Vms \union {"None"}
  BY DEF DeviceTree, Vms
<1> QED
  BY <1>1, <1>2, <1>3, <1>4, <1>5, <1>6, <1>7, <1>8

(* The table of each probe. *)
LEMMA TableOf ==
  ASSUME NEW k \in 1..12
  PROVE  /\ k \in 1..5 =>
              Chain[k].verdict \in {OpenVz, WslRelease, Guess, Cgroups}
         /\ k \notin 1..5 =>
              Chain[k].verdict \in {Dmi, CpuId, Hypervisor, DeviceTree}
BY DEF Chain

(* A probe for containers names a container, any other one a VM; each may  *)
(* say Unknown or nothing.                                                 *)
LEMMA SaysFacts ==
  ASSUME IsMachine(shows), NEW k \in 1..12
  PROVE  /\ k \in 1..5 => Says(k) \in Containers \union {"Unknown", "None"}
         /\ k \notin 1..5 => Says(k) \in Vms \union {"Unknown", "None"}
<1>1. shows[Chain[k].source] \in DOMAIN Chain[k].verdict
  BY ChainLength DEF IsMachine
<1>2. CASE k \in 1..5
  <2>1. Chain[k].verdict[shows[Chain[k].source]] \in
          Containers \union {"Unknown", "None"}
    BY <1>1, <1>2, Tables, TableOf
  <2> QED
    BY <1>2, <2>1 DEF Says
<1>3. CASE k \notin 1..5
  <2>1. Chain[k].verdict[shows[Chain[k].source]] \in
          Vms \union {"Unknown", "None"}
    BY <1>1, <1>3, Tables, TableOf
  <2> QED
    BY <1>3, <2>1 DEF Says
<1> QED
  BY <1>2, <1>3

LEMMA DetectInitInv == DetectInit => DetectInv
BY MachineAssumption, ChainLength DEF DetectInit, DetectInv, DetectTypeOK, Failed, LastDecides

LEMMA ProbeInv ==
  ASSUME DetectInv, Probe
  PROVE  DetectInv'
<1> USE DEF Probe
<1>1. at \in 1..12 /\ at' = at + 1 /\ found' = Says(at) /\ found = "None"
  BY ChainLength DEF DetectInv, DetectTypeOK
<1>2. \A k \in 1..12 : Says(k)' = Says(k)
  BY DEF Says
<1>3. IsMachine(shows)
  BY DEF DetectInv, DetectTypeOK
<1>4. found' \in Virtualization \union {"None"}
  BY <1>1, <1>3, SaysFacts DEF Virtualization
<1>5. DetectTypeOK'
  BY <1>1, <1>3, <1>4, ChainLength DEF DetectInv, DetectTypeOK, IsMachine
<1>6. Failed'
  <2>1. ASSUME NEW k \in 1..12, k < at PROVE Says(k) = "None"
    <3>1. CASE k = at - 1
      BY <1>1, <2>1, <3>1 DEF DetectInv, LastDecides
    <3>2. CASE k # at - 1
      BY <1>1, <2>1, <3>2, SMTT(60) DEF DetectInv, Failed
    <3> QED
      BY <3>1, <3>2
  <2> QED
    BY <1>1, <1>2, <2>1 DEF Failed
<1>7. LastDecides'
  <2>1. at' - 1 = at /\ at' > 1 /\ at' # 1
    BY <1>1
  <2> QED
    BY <1>1, <2>1 DEF LastDecides, Says
<1> QED
  BY <1>5, <1>6, <1>7 DEF DetectInv

LEMMA DetectNextInv == DetectInv /\ [DetectNext]_detectvars => DetectInv'
<1>1. ASSUME DetectInv, UNCHANGED detectvars PROVE DetectInv'
  BY <1>1 DEF detectvars, DetectInv, DetectTypeOK, IsMachine, Failed, LastDecides, Says
<1> QED
  BY <1>1, ProbeInv DEF DetectNext

(* The probes are made one after the other, and the first that says        *)
(* something ends detect.                                                  *)
THEOREM DetectInvariance == DetectSpec => []DetectInv
BY DetectInitInv, DetectNextInv, PTL DEF DetectSpec

(* detect answers with a variant of the enum or with None, whatever the    *)
(* files and the CPU show.                                                 *)
THEOREM DetectTypeCorrectness == DetectSpec => []DetectTypeOK
<1>1. DetectInv => DetectTypeOK
  BY DEF DetectInv
<1> QED
  BY DetectInvariance, <1>1, PTL

(* detect answers None only if no source of the build says anything: no    *)
(* file that is missing hides a later one.                                 *)
THEOREM NoEvidenceIsMissed == DetectSpec => []NothingMissed
<1>1. ASSUME DetectInv, Done, found = "None", NEW k \in 1..12 PROVE Says(k) = "None"
  <2>1. at \in 1..13 /\ at > 12
    BY <1>1, ChainLength DEF DetectInv, DetectTypeOK, Done
  <2>2. CASE k = 12
    BY <1>1, <2>1, <2>2 DEF DetectInv, LastDecides
  <2>3. CASE k # 12
    BY <1>1, <2>1, <2>3 DEF DetectInv, Failed
  <2> QED
    BY <2>2, <2>3
<1>2. DetectInv => NothingMissed
  BY <1>1, ChainLength DEF NothingMissed
<1> QED
  BY DetectInvariance, <1>2, PTL

(* A container inside of a VM is reported as the container, however many   *)
(* sources show something, and every verdict but Parallels has a string    *)
(* and is what is_vm and is_container take it for.                         *)
THEOREM VerdictsAreRight == DetectSpec => []VerdictIsRight
<1>1. ASSUME DetectInv, found \in Vms, NEW k \in 1..12,
             Chain[k].source \in ContainerSources
      PROVE  Says(k) = "None"
  <2>1. k \in 1..5
    BY <1>1, ContainersFirst
  <2>2. found # "None" /\ found \notin Containers \union {"Unknown", "None"}
    BY <1>1 DEF Vms, Containers
  <2>3. at \in 2..13 /\ found = Says(at - 1)
    BY <1>1, <2>2, ChainLength DEF DetectInv, DetectTypeOK, LastDecides
  <2>4. at - 1 \in 1..12 /\ at - 1 \notin 1..5
    BY <1>1, <2>2, <2>3, SaysFacts, SMTT(60) DEF DetectInv, DetectTypeOK
  <2> QED
    BY <1>1, <2>1, <2>4 DEF DetectInv, Failed
<1>2. DetectInv => ContainerBeforeVm
  BY <1>1, ChainLength DEF ContainerBeforeVm
<1>3. DetectInv => VerdictIsUsable
  BY DEF DetectInv, DetectTypeOK, Virtualization, Vms, Containers, VerdictIsUsable,
     as_str, is_vm, is_container
<1>4. DetectInv => VerdictIsRight
  BY <1>2, <1>3 DEF VerdictIsRight
<1> QED
  BY DetectInvariance, <1>4, PTL

============================================================================
