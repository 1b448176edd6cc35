------------------------- MODULE FileParsersProofs -------------------------
(***************************************************************************)
(* Two parts of the program that turn a sequence into another one: the     *)
(* parsers of FileParsers, and the combinator of ChooseChain, which        *)
(* implements EitherStream for all items and all sets of streams.          *)
(*                                                                         *)
(* The inductive invariant of the parsers says of every moment of a parse  *)
(* which keys or columns have been read, and that exactly their fields     *)
(* hold a value.  A parser is a table or a program of columns, so each of  *)
(* them is checked once (KeyedFacts, ProgramsOK), and the steps are the    *)
(* same for all of them.  Facts about recursive functions are proved with  *)
(* the least number that would refute them (LeastNat).                     *)
(***************************************************************************)
EXTENDS FileParsers, ChooseChain, SequenceTheorems, FiniteSetTheorems, TLAPS

----------------------------------------------------------------------------
(* The tables of the parsers of keys.                                      *)
KeysOf(m) == DOMAIN Keyed[m].field

LEMMA KeyedAre ==
  /\ DOMAIN Keyed = {"vmstat", "swap", "memory", "cpu_stats", "boot_time", "io"}
  /\ Keyed["vmstat"] = VmStat /\ Keyed["swap"] = Swap /\ Keyed["memory"] = Memory
  /\ Keyed["cpu_stats"] = CpuStats /\ Keyed["boot_time"] = BootTime
  /\ Keyed["io"] = IoCounters
BY DEF Keyed

LEMMA KeysAre ==
  /\ KeysOf("vmstat") = {"pswpin", "pswpout"}
  /\ KeysOf("swap") = {"SwapTotal", "SwapFree"}
  /\ KeysOf("memory") = {"MemTotal", "MemFree", "MemAvailable", "Buffers",
                         "Cached", "Active", "Inactive", "Shmem"}
  /\ KeysOf("cpu_stats") = {"ctxt", "intr", "softirq"}
  /\ KeysOf("boot_time") = {"btime"}
  /\ KeysOf("io") = {"rchar", "wchar", "syscr", "syscw", "read_bytes",
                     "write_bytes", "cancelled_write_bytes"}
BY KeyedAre DEF KeysOf, VmStat, Swap, Memory, CpuStats, BootTime, IoCounters

(* Every key has a field of its own. *)
LEMMA FieldsDiffer ==
  ASSUME NEW m \in DOMAIN Keyed, NEW k \in KeysOf(m), NEW l \in KeysOf(m),
         Keyed[m].field[k] = Keyed[m].field[l]
  PROVE  k = l
<1>1. CASE m = "vmstat"
  BY <1>1, KeyedAre, KeysAre DEF VmStat
<1>2. CASE m = "swap"
  BY <1>2, KeyedAre, KeysAre DEF Swap
<1>3. CASE m = "memory"
  BY <1>3, KeyedAre, KeysAre DEF Memory
<1>4. CASE m = "cpu_stats"
  BY <1>4, KeyedAre, KeysAre DEF CpuStats
<1>5. CASE m = "boot_time"
  BY <1>5, KeyedAre, KeysAre DEF BootTime
<1>6. CASE m = "io"
  BY <1>6, KeyedAre, KeysAre DEF IoCounters
<1> QED
  BY <1>1, <1>2, <1>3, <1>4, <1>5, <1>6, KeyedAre

(* How many keys there are, counted one by one. *)
Counts(S, n) == IsFiniteSet(S) /\ Cardinality(S) = n

LEMMA CountsOneMore ==
  ASSUME NEW S, NEW n \in Nat, Counts(S, n), NEW x, x \notin S, NEW T, T = S \union {x}
  PROVE  Counts(T, n + 1)
BY FS_AddElement DEF Counts

LEMMA MemoryHasEight == Counts(KeysOf("memory"), 8)
<1>1. Counts({"MemTotal"}, 1)
  BY FS_Singleton DEF Counts
<1>2. Counts({"MemTotal", "MemFree"}, 2)
  BY <1>1, CountsOneMore
<1>3. Counts({"MemTotal", "MemFree", "MemAvailable"}, 3)
  BY <1>2, CountsOneMore
<1>4. Counts({"MemTotal", "MemFree", "MemAvailable", "Buffers"}, 4)
  BY <1>3, CountsOneMore
<1>5. Counts({"MemTotal", "MemFree", "MemAvailable", "Buffers", "Cached"}, 5)
  BY <1>4, CountsOneMore
<1>6. Counts({"MemTotal", "MemFree", "MemAvailable", "Buffers", "Cached", "Active"}, 6)
  BY <1>5, CountsOneMore
<1>7. Counts({"MemTotal", "MemFree", "MemAvailable", "Buffers",
                  "Cached", "Active", "Inactive"}, 7)
  BY <1>6, CountsOneMore
<1>8. Counts({"MemTotal", "MemFree", "MemAvailable", "Buffers",
                  "Cached", "Active", "Inactive", "Shmem"}, 8)
  BY <1>7, CountsOneMore
<1> QED
  BY <1>8, KeysAre

(* A parser that stops early stops with the last of its keys. *)
LEMMA StopsAtLast ==
  ASSUME NEW m \in DOMAIN Keyed \ {"vmstat", "io"}
  PROVE  Counts(KeysOf(m), Keyed[m].stopAt)
<1>1. CASE m = "swap"
  <2>1. Counts({"SwapTotal"}, 1)
    BY FS_Singleton DEF Counts
  <2>2. Counts({"SwapTotal", "SwapFree"}, 2)
    BY <2>1, CountsOneMore
  <2> QED
    BY <1>1, <2>2, KeyedAre, KeysAre DEF Swap
<1>2. CASE m = "memory"
  BY <1>2, MemoryHasEight, KeyedAre DEF Memory
<1>3. CASE m = "cpu_stats"
  <2>1. Counts({"ctxt"}, 1)
    BY FS_Singleton DEF Counts
  <2>2. Counts({"ctxt", "intr"}, 2)
    BY <2>1, CountsOneMore
  <2>3. Counts({"ctxt", "intr", "softirq"}, 3)
    BY <2>2, CountsOneMore
  <2> QED
    BY <1>3, <2>3, KeyedAre, KeysAre DEF CpuStats
<1>4. CASE m = "boot_time"
  <2>1. Counts({"btime"}, 1)
    BY FS_Singleton DEF Counts
  <2> QED
    BY <1>4, <2>1, KeyedAre, KeysAre DEF BootTime
<1> QED
  BY <1>1, <1>2, <1>3, <1>4, KeyedAre

LEMMA KeyedFacts ==
  ASSUME NEW m \in DOMAIN Keyed
  PROVE  /\ Keyed[m].short \in {"panic", "none", "skip"}
         /\ Keyed[m].noValue \in {"skip", "MissingKey", "none"}
         /\ Keyed[m].missing \in {"default", "File", "MissingKey"}
         /\ Keyed[m].missing = "default" <=> m \notin {"swap", "memory", "boot_time"}
         /\ Keyed[m].stopAt = 0 <=> m \in {"vmstat", "io"}
         /\ {"short", "Other"} \intersect KeysOf(m) = {}
<1>1. CASE m = "vmstat"
  BY <1>1, KeyedAre, KeysAre DEF VmStat
<1>2. CASE m = "swap"
  BY <1>2, KeyedAre, KeysAre DEF Swap
<1>3. CASE m = "memory"
  BY <1>3, KeyedAre, KeysAre DEF Memory
<1>4. CASE m = "cpu_stats"
  BY <1>4, KeyedAre, KeysAre DEF CpuStats
<1>5. CASE m = "boot_time"
  BY <1>5, KeyedAre, KeysAre DEF BootTime
<1>6. CASE m = "io"
  BY <1>6, KeyedAre, KeysAre DEF IoCounters
<1> QED
  BY <1>1, <1>2, <1>3, <1>4, <1>5, <1>6, KeyedAre

(* An accessor leads to the field of the key that is documented for it,    *)
(* and every key has one.                                                  *)
LEMMA AccessorsFit ==
  ASSUME NEW m \in DOMAIN Keyed
  PROVE  /\ \A a \in DOMAIN KeyOf[m] :
              KeyOf[m][a] \in KeysOf(m) /\ Accessors[m][a] = Keyed[m].field[KeyOf[m][a]]
         /\ \A k \in KeysOf(m) : \E a \in DOMAIN KeyOf[m] : KeyOf[m][a] = k
<1>1. CASE m = "vmstat"
  BY <1>1, KeyedAre, KeysAre DEF VmStat, KeyOf, Accessors, SwapAccessors
<1>2. CASE m = "swap"
  BY <1>2, KeyedAre, KeysAre DEF Swap, KeyOf, Accessors
<1>3. CASE m = "memory"
  BY <1>3, KeyedAre, KeysAre DEF Memory, KeyOf, Accessors, MemoryAccessors
<1>4. CASE m = "cpu_stats"
  BY <1>4, KeyedAre, KeysAre DEF CpuStats, KeyOf, Accessors, CpuStatsAccessors
<1>5. CASE m = "boot_time"
  BY <1>5, KeyedAre, KeysAre DEF BootTime, KeyOf, Accessors
<1>6. CASE m = "io"
  BY <1>6, KeyedAre, KeysAre DEF IoCounters, KeyOf, Accessors, IoAccessors
<1> QED
  BY <1>1, <1>2, <1>3, <1>4, <1>5, <1>6, KeyedAre

(* The kernel writes no key twice. *)
OrderOK(m) == /\ Len(KernelOrder(m)) \in Nat
              /\ \A i, j \in 1 .. Len(KernelOrder(m)) :
                   KernelOrder(m)[i] = KernelOrder(m)[j] => i = j
              /\ \A i \in 1 .. Len(KernelOrder(m)) :
                   KernelOrder(m)[i] \notin {"short", "Other"}

LEMMA KernelOrderOK ==
  ASSUME NEW m \in DOMAIN Keyed
  PROVE  OrderOK(m)
<1>1. OrderOK("vmstat")
  <2>1. KernelOrder("vmstat") = <<"pswpin", "pswpout">>
    BY DEF KernelOrder
  <2> QED
    BY <2>1 DEF OrderOK
<1>2. OrderOK("swap")
  <2>1. KernelOrder("swap") = <<"SwapCached", "SwapTotal", "SwapFree">>
    BY DEF KernelOrder
  <2> QED
    BY <2>1 DEF OrderOK
<1>3. OrderOK("memory")
  <2>1. KernelOrder("memory") = <<"MemTotal", "MemFree", "MemAvailable", "Buffers",
                                 "Cached", "SwapCached", "Active", "Inactive",
                                 "Shmem">>
    BY DEF KernelOrder
  <2> QED
    BY <2>1, SMTT(60) DEF OrderOK
<1>4. OrderOK("cpu_stats")
  <2>1. KernelOrder("cpu_stats") = <<"intr", "ctxt", "softirq">>
    BY DEF KernelOrder
  <2> QED
    BY <2>1 DEF OrderOK
<1>5. OrderOK("boot_time")
  <2>1. KernelOrder("boot_time") = <<"ctxt", "btime", "softirq">>
    BY DEF KernelOrder
  <2> QED
    BY <2>1 DEF OrderOK
<1>6. OrderOK("io")
  <2>1. KernelOrder("io") = <<"rchar", "wchar", "syscr", "syscw", "read_bytes",
                             "write_bytes", "cancelled_write_bytes">>
    BY DEF KernelOrder
  <2> QED
    BY <2>1 DEF OrderOK
<1> QED
  BY <1>1, <1>2, <1>3, <1>4, <1>5, <1>6, KeyedAre

LineType(m) == [key : {KernelOrder(m)[i] : i \in 1 .. Len(KernelOrder(m))}
                        \union {"short", "Other"},
                val : {"num", "bad", "none"}]

(* A file that a parser of keys may meet. *)
IsFile(m, in) ==
  /\ in \in Seq(LineType(m))
  /\ \A i \in 1 .. Len(in) : in[i].key = "short" => in[i].val = "none"
  /\ \A i, j \in 1 .. Len(in) :
       in[i].key = in[j].key => i = j \/ in[i].key = "Other"

LEMMA LineIs ==
  ASSUME NEW m, NEW v \in {"num", "bad", "none"},
         NEW k \in {KernelOrder(m)[i] : i \in 1 .. Len(KernelOrder(m))}
                     \union {"short", "Other"}
  PROVE  Line(k, v) \in LineType(m) /\ Line(k, v).key = k /\ Line(k, v).val = v
BY DEF Line, LineType

LEMMA LinesAreFiles ==
  ASSUME NEW m \in DOMAIN Keyed, NEW n \in {0, Len(KernelOrder(m))}, NEW gone, NEW d,
         NEW v \in {"bad", "none"}, NEW ls, ls = Lines(m, n, gone, d, v)
  PROVE  IsFile(m, ls) /\ \A i \in 1 .. Len(ls) : ls[i].key # "short"
<1>1. /\ ls = [i \in 1 .. n |-> ls[i]]
      /\ \A i \in 1 .. n :
           ls[i] = IF i \in gone THEN Line("Other", "num")
                   ELSE Line(KernelOrder(m)[i], IF i = d THEN v ELSE "num")
  BY DEF Lines
<1>2. OrderOK(m) /\ n \in Nat /\ n <= Len(KernelOrder(m))
  BY KernelOrderOK DEF OrderOK
<1>3. ASSUME NEW i \in 1 .. n
      PROVE  /\ ls[i] \in LineType(m)
             /\ ls[i].key # "short"
             /\ ls[i].key = KernelOrder(m)[i] \/ ls[i].key = "Other"
             /\ i \in 1 .. Len(KernelOrder(m))
  <2>1. i \in 1 .. Len(KernelOrder(m))
    BY <1>2 DEF OrderOK
  <2>2. CASE i \in gone
    <3>1. ls[i] = Line("Other", "num")
      BY <1>1, <2>2
    <3> QED
      BY <2>1, <3>1, LineIs
  <2>3. CASE i \notin gone
    <3>1. PICK w \in {"num", "bad", "none"} : ls[i] = Line(KernelOrder(m)[i], w)
      BY <1>1, <2>3
    <3> QED
      BY <1>2, <2>1, <3>1, LineIs DEF OrderOK
  <2> QED
    BY <2>2, <2>3
<1>4. ls \in [1 .. n -> LineType(m)]
  BY <1>1, <1>3
<1>5. ls \in Seq(LineType(m)) /\ Len(ls) = n
  BY <1>2, <1>4, SeqDef, LenProperties
<1>6. ASSUME NEW i \in 1 .. n, NEW j \in 1 .. n, ls[i].key = ls[j].key
      PROVE  i = j \/ ls[i].key = "Other"
  BY <1>2, <1>3, <1>6 DEF OrderOK
<1> QED
  BY <1>3, <1>5, <1>6 DEF IsFile

LEMMA FilesAreFiles ==
  ASSUME NEW m \in DOMAIN Keyed, NEW n \in {0, Len(KernelOrder(m))}, NEW gone, NEW d,
         NEW v \in {"bad", "none"}, NEW ls, ls = Lines(m, n, gone, d, v),
         NEW head \in {<<>>, <<Line("short", "none")>>}
  PROVE  IsFile(m, head \o ls)
<1>1. IsFile(m, ls) /\ \A i \in 1 .. Len(ls) : ls[i].key # "short"
  BY LinesAreFiles
<1>2. ls \in Seq(LineType(m)) /\ Len(ls) \in Nat
  BY <1>1, LenProperties DEF IsFile
<1>3. CASE head = <<>>
  BY <1>1, <1>2, <1>3, ConcatEmptySeq
<1>4. CASE head = <<Line("short", "none")>>
  <2> DEFINE s == Line("short", "none")
             in == <<s>> \o ls
  <2>1. s \in LineType(m) /\ s.key = "short" /\ s.val = "none"
    BY LineIs
  <2> HIDE DEF s
  <2>2. <<s>> \in Seq(LineType(m)) /\ Len(<<s>>) = 1 /\ <<s>>[1] = s
    BY <2>1
  <2>3. /\ in \in Seq(LineType(m)) /\ Len(in) = 1 + Len(ls)
        /\ \A i \in 1 .. 1 + Len(ls) : in[i] = IF i <= 1 THEN <<s>>[i] ELSE ls[i - 1]
    BY <1>2, <2>2, ConcatProperties
  <2>4. /\ in[1] = s
        /\ \A i \in 2 .. Len(in) : in[i] = ls[i - 1] /\ i - 1 \in 1 .. Len(ls)
    BY <1>2, <2>2, <2>3
  <2> HIDE DEF in
  <2>5. ASSUME NEW i \in 1 .. Len(in), in[i].key = "short" PROVE in[i].val = "none"
    <3>1. CASE i = 1
      BY <2>1, <2>4, <3>1
    <3>2. CASE i # 1
      <4>1. i \in 2 .. Len(in)
        BY <1>2, <2>3, <3>2
      <4> QED
        BY <1>1, <2>4, <2>5, <4>1
    <3> QED
      BY <3>1, <3>2
  <2>6. ASSUME NEW i \in 1 .. Len(in), NEW j \in 1 .. Len(in), in[i].key = in[j].key
        PROVE  i = j \/ in[i].key = "Other"
    <3>1. ASSUME NEW k \in 1 .. Len(in) PROVE in[k].key = "short" <=> k = 1
      <4>1. CASE k = 1
        BY <2>1, <2>4, <4>1
      <4>2. CASE k # 1
        <5>1. k \in 2 .. Len(in)
          BY <1>2, <2>3, <4>2
        <5> QED
          BY <1>1, <2>4, <4>2, <5>1
      <4> QED
        BY <4>1, <4>2
    <3>2. CASE i = 1 \/ j = 1
      BY <2>6, <3>1, <3>2
    <3>3. CASE i # 1 /\ j # 1
      <4>1. i \in 2 .. Len(in) /\ j \in 2 .. Len(in)
        BY <1>2, <2>3, <3>3
      <4>2. in[i] = ls[i - 1] /\ in[j] = ls[j - 1]
            /\ i - 1 \in 1 .. Len(ls) /\ j - 1 \in 1 .. Len(ls)
        BY <2>4, <4>1
      <4>3. i - 1 = j - 1 \/ in[i].key = "Other"
        BY <1>1, <2>6, <4>2, SMTT(60) DEF IsFile
      <4> QED
        BY <4>1, <4>3
    <3> QED
      BY <3>2, <3>3
  <2> QED
    BY <1>4, <2>3, <2>5, <2>6 DEF IsFile, in, s
<1> QED
  BY <1>3, <1>4

----------------------------------------------------------------------------
(* The programs of the parsers of columns.                                 *)
LEMMA ColumnsAre ==
  /\ DOMAIN Columns = {"diskstats", "net", "mounts", "statm", "cpu", "stat", "uptime"}
  /\ Columns["diskstats"] = DiskCounters /\ Columns["net"] = NetCounters
  /\ Columns["mounts"] = Partition /\ Columns["statm"] = StatM
  /\ Columns["cpu"] = CpuTimes /\ Columns["stat"] = Stat
  /\ Columns["uptime"] = Uptime
BY DEF Columns

(* How many columns there are in front of the one that instruction i of a  *)
(* parser is about; only the one of diskstats skips two at a time.         *)
BeginOf(m, i) == IF m # "diskstats" THEN i - 1
                 ELSE IF i = 1 THEN 0
                 ELSE IF i <= 10 THEN i ELSE i + 1

LEMMA BeginIncreases ==
  ASSUME NEW m, NEW i \in Nat \ {0}, NEW j \in Nat \ {0}
  PROVE  /\ BeginOf(m, i) \in Nat /\ BeginOf(m, 1) = 0
         /\ i < j => BeginOf(m, i) < BeginOf(m, j)
         /\ BeginOf(m, i) = BeginOf(m, j) => i = j
BY DEF BeginOf

(* What an instruction does, and what it must do to be the i-th of m. *)
IsInstr(c, do, n, f) == /\ c.do = do /\ c.n = n /\ c.f = f
                        /\ c.missing \in {"none", "MissingKey"}

LEMMA Instructions ==
  /\ \A n : IsInstr(Skip(n), "skip", n, "_")
  /\ \A f : IsInstr(Num(f), "num", 1, f)
  /\ \A f : IsInstr(Text(f), "text", 1, f)
  /\ \A f : IsInstr(Opt(f), "opt", 1, f)
  /\ \A f : IsInstr(Required(Text(f)), "text", 1, f)
<1>1. \A n : IsInstr(Skip(n), "skip", n, "_")
  BY DEF Skip, IsInstr
<1>2. \A f : IsInstr(Num(f), "num", 1, f)
  BY DEF Num, IsInstr
<1>3. \A f : IsInstr(Text(f), "text", 1, f)
  BY DEF Text, IsInstr
<1>4. \A f : IsInstr(Opt(f), "opt", 1, f)
  BY DEF Opt, IsInstr
<1>5. \A f : IsInstr(Required(Text(f)), "text", 1, f)
  BY DEF Text, Required, IsInstr
<1> QED
  BY <1>1, <1>2, <1>3, <1>4, <1>5

Fits(m, i, do, n, f) ==
  /\ n \in Nat \ {0} /\ BeginOf(m, i + 1) = BeginOf(m, i) + n
  /\ do \in {"skip", "num", "text", "opt"}
  /\ do = "opt" => m = "cpu"
  /\ do = "skip" => f = "_"
  /\ do = "skip" \/ n = 1
  /\ m = "stat" /\ f = "name" <=> m = "stat" /\ i = 2

InstrOK(m, i, c) == Fits(m, i, c.do, c.n, c.f) /\ c.missing \in {"none", "MissingKey"}

LEMMA InstrIs ==
  ASSUME NEW m, NEW i, NEW c, NEW do, NEW n, NEW f,
         IsInstr(c, do, n, f), Fits(m, i, do, n, f)
  PROVE  InstrOK(m, i, c)
BY DEF IsInstr, InstrOK

(* An accessor leads to a field, and that is read from the documented      *)
(* column and from no other.                                               *)
AccessorOK(m, a) ==
  /\ \E i \in 1 .. Len(Columns[m]) : Columns[m][i].f = Accessors[m][a]
  /\ \A i \in 1 .. Len(Columns[m]) :
       Columns[m][i].f = Accessors[m][a] => ColumnOf[m][a] = BeginOf(m, i) + 1
  /\ Accessors[m][a] # "_"

(* Column c is the one that field f is read from. *)
Holds(m, names, f, c, n) ==
  /\ \E i \in 1 .. n : names[i] = f
  /\ \A i \in 1 .. n : names[i] = f => c = BeginOf(m, i) + 1
  /\ f # "_"

LEMMA AccessorIs ==
  ASSUME NEW m, NEW names, NEW n, n = Len(Columns[m]),
         \A i \in 1 .. n : Columns[m][i].f = names[i],
         NEW a, Holds(m, names, Accessors[m][a], ColumnOf[m][a], n)
  PROVE  AccessorOK(m, a)
BY DEF Holds, AccessorOK

ProgramOK(m) ==
  /\ Len(Columns[m]) \in Nat \ {0} /\ DOMAIN Columns[m] = 1 .. Len(Columns[m])
  /\ \A i \in 1 .. Len(Columns[m]) : InstrOK(m, i, Columns[m][i])
  /\ \A a \in DOMAIN ColumnOf[m] : AccessorOK(m, a)

LEMMA DiskCountersOK == ProgramOK("diskstats")
<1> DEFINE d == DiskCounters
           m == "diskstats"
           names == <<"_", "name", "read_count", "read_merged_count",
                      "read_bytes", "_", "write_count",
                      "write_merged_count", "write_bytes", "_", "busy_time">>
<1>1. d = Columns[m] /\ Len(d) = 11 /\ DOMAIN d = 1 .. 11
  <2>1. d = Columns[m]
    BY ColumnsAre
  <2>2. Len(d) = 11 /\ DOMAIN d = 1 .. 11
    BY DEF DiskCounters
  <2> QED
    BY <2>1, <2>2
<1>2. /\ d[1] = Skip(2) /\ d[2] = Text("name") /\ d[3] = Num("read_count")
      /\ d[4] = Num("read_merged_count") /\ d[5] = Num("read_bytes")
      /\ d[6] = Skip(1) /\ d[7] = Num("write_count")
      /\ d[8] = Num("write_merged_count") /\ d[9] = Num("write_bytes")
      /\ d[10] = Skip(2) /\ d[11] = Num("busy_time")
  BY DEF DiskCounters
<1> HIDE DEF d
<1>3. /\ IsInstr(d[1], "skip", 2, "_") /\ IsInstr(d[2], "text", 1, "name")
      /\ IsInstr(d[3], "num", 1, "read_count")
      /\ IsInstr(d[4], "num", 1, "read_merged_count")
      /\ IsInstr(d[5], "num", 1, "read_bytes")
      /\ IsInstr(d[6], "skip", 1, "_")
      /\ IsInstr(d[7], "num", 1, "write_count")
      /\ IsInstr(d[8], "num", 1, "write_merged_count")
      /\ IsInstr(d[9], "num", 1, "write_bytes")
      /\ IsInstr(d[10], "skip", 2, "_")
      /\ IsInstr(d[11], "num", 1, "busy_time")
  BY <1>2, Instructions
<1>4. /\ Fits(m, 1, "skip", 2, "_") /\ Fits(m, 2, "text", 1, "name")
      /\ Fits(m, 3, "num", 1, "read_count")
      /\ Fits(m, 4, "num", 1, "read_merged_count")
      /\ Fits(m, 5, "num", 1, "read_bytes") /\ Fits(m, 6, "skip", 1, "_")
      /\ Fits(m, 7, "num", 1, "write_count")
      /\ Fits(m, 8, "num", 1, "write_merged_count")
      /\ Fits(m, 9, "num", 1, "write_bytes") /\ Fits(m, 10, "skip", 2, "_")
      /\ Fits(m, 11, "num", 1, "busy_time")
  BY DEF Fits, BeginOf
<1>5. /\ InstrOK(m, 1, d[1]) /\ InstrOK(m, 2, d[2]) /\ InstrOK(m, 3, d[3])
      /\ InstrOK(m, 4, d[4]) /\ InstrOK(m, 5, d[5]) /\ InstrOK(m, 6, d[6])
      /\ InstrOK(m, 7, d[7]) /\ InstrOK(m, 8, d[8]) /\ InstrOK(m, 9, d[9])
      /\ InstrOK(m, 10, d[10]) /\ InstrOK(m, 11, d[11])
  BY <1>3, <1>4, InstrIs
<1> HIDE DEF m
<1>6. \A i \in 1 .. 11 : InstrOK(m, i, d[i])
  BY <1>5
<1>7. /\ d[1].f = names[1] /\ d[2].f = names[2] /\ d[3].f = names[3]
      /\ d[4].f = names[4] /\ d[5].f = names[5] /\ d[6].f = names[6]
      /\ d[7].f = names[7] /\ d[8].f = names[8] /\ d[9].f = names[9]
      /\ d[10].f = names[10] /\ d[11].f = names[11]
  BY <1>3 DEF IsInstr
<1> HIDE DEF names
<1>8. \A i \in 1 .. 11 : d[i].f = names[i]
  BY <1>7
<1>9. DOMAIN ColumnOf[m] = {"device_name", "read_count", "read_bytes", "write_count",
        "write_bytes", "busy_time"}
  BY DEF m, ColumnOf
<1>10. /\ Accessors[m]["device_name"] = "name"
       /\ Accessors[m]["read_count"] = "read_count"
       /\ Accessors[m]["read_bytes"] = "read_bytes"
       /\ Accessors[m]["write_count"] = "write_count"
       /\ Accessors[m]["write_bytes"] = "write_bytes"
       /\ Accessors[m]["busy_time"] = "busy_time"
  BY DEF m, Accessors, DiskAccessors
<1>11. /\ ColumnOf[m]["device_name"] = 3 /\ ColumnOf[m]["read_count"] = 4
       /\ ColumnOf[m]["read_bytes"] = 6 /\ ColumnOf[m]["write_count"] = 8
       /\ ColumnOf[m]["write_bytes"] = 10 /\ ColumnOf[m]["busy_time"] = 13
  BY DEF m, ColumnOf
<1>12. /\ Holds(m, names, "name", 3, 11)
       /\ Holds(m, names, "read_count", 4, 11)
       /\ Holds(m, names, "read_bytes", 6, 11)
       /\ Holds(m, names, "write_count", 8, 11)
       /\ Holds(m, names, "write_bytes", 10, 11)
       /\ Holds(m, names, "busy_time", 13, 11)
  BY DEF names, Holds, BeginOf, m
<1>13. \A a \in DOMAIN ColumnOf[m] : AccessorOK(m, a)
  <2> TAKE a \in DOMAIN ColumnOf[m]
  <2>1. Holds(m, names, Accessors[m][a], ColumnOf[m][a], 11)
    BY <1>9, <1>10, <1>11, <1>12
  <2>2. 11 = Len(Columns[m]) /\ \A i \in 1 .. 11 : Columns[m][i].f = names[i]
    BY <1>1, <1>8
  <2> QED
    BY <2>1, <2>2, AccessorIs
<1>14. ProgramOK(m)
  BY <1>1, <1>6, <1>13 DEF ProgramOK
<1> QED
  BY <1>14 DEF m

LEMMA NetCountersOK == ProgramOK("net")
<1> DEFINE d == NetCounters
           m == "net"
           names == <<"interface", "rx_bytes", "rx_packets", "rx_errs",
                      "rx_drop", "rx_fifo", "rx_frame", "rx_compressed",
                      "rx_multicast", "tx_bytes", "tx_packets", "tx_errs",
                      "tx_drop", "tx_fifo", "tx_frame", "tx_compressed",
                      "tx_multicast">>
<1>1. d = Columns[m] /\ Len(d) = 17 /\ DOMAIN d = 1 .. 17
  <2>1. d = Columns[m]
    BY ColumnsAre
  <2>2. Len(d) = 17 /\ DOMAIN d = 1 .. 17
    BY DEF NetCounters
  <2> QED
    BY <2>1, <2>2
<1>2. /\ d[1] = Required(Text("interface")) /\ d[2] = Num("rx_bytes")
      /\ d[3] = Num("rx_packets") /\ d[4] = Num("rx_errs")
      /\ d[5] = Num("rx_drop") /\ d[6] = Num("rx_fifo")
      /\ d[7] = Num("rx_frame") /\ d[8] = Num("rx_compressed")
      /\ d[9] = Num("rx_multicast") /\ d[10] = Num("tx_bytes")
      /\ d[11] = Num("tx_packets") /\ d[12] = Num("tx_errs")
      /\ d[13] = Num("tx_drop") /\ d[14] = Num("tx_fifo")
      /\ d[15] = Num("tx_frame") /\ d[16] = Num("tx_compressed")
      /\ d[17] = Num("tx_multicast")
  BY DEF NetCounters
<1> HIDE DEF d
<1>3. /\ IsInstr(d[1], "text", 1, "interface")
      /\ IsInstr(d[2], "num", 1, "rx_bytes")
      /\ IsInstr(d[3], "num", 1, "rx_packets")
      /\ IsInstr(d[4], "num", 1, "rx_errs")
      /\ IsInstr(d[5], "num", 1, "rx_drop")
      /\ IsInstr(d[6], "num", 1, "rx_fifo")
      /\ IsInstr(d[7], "num", 1, "rx_frame")
      /\ IsInstr(d[8], "num", 1, "rx_compressed")
      /\ IsInstr(d[9], "num", 1, "rx_multicast")
      /\ IsInstr(d[10], "num", 1, "tx_bytes")
      /\ IsInstr(d[11], "num", 1, "tx_packets")
      /\ IsInstr(d[12], "num", 1, "tx_errs")
      /\ IsInstr(d[13], "num", 1, "tx_drop")
      /\ IsInstr(d[14], "num", 1, "tx_fifo")
      /\ IsInstr(d[15], "num", 1, "tx_frame")
      /\ IsInstr(d[16], "num", 1, "tx_compressed")
      /\ IsInstr(d[17], "num", 1, "tx_multicast")
  BY <1>2, Instructions
<1>4. /\ Fits(m, 1, "text", 1, "interface")
      /\ Fits(m, 2, "num", 1, "rx_bytes")
      /\ Fits(m, 3, "num", 1, "rx_packets")
      /\ Fits(m, 4, "num", 1, "rx_errs") /\ Fits(m, 5, "num", 1, "rx_drop")
      /\ Fits(m, 6, "num", 1, "rx_fifo") /\ Fits(m, 7, "num", 1, "rx_frame")
      /\ Fits(m, 8, "num", 1, "rx_compressed")
      /\ Fits(m, 9, "num", 1, "rx_multicast")
      /\ Fits(m, 10, "num", 1, "tx_bytes")
      /\ Fits(m, 11, "num", 1, "tx_packets")
      /\ Fits(m, 12, "num", 1, "tx_errs")
      /\ Fits(m, 13, "num", 1, "tx_drop")
      /\ Fits(m, 14, "num", 1, "tx_fifo")
      /\ Fits(m, 15, "num", 1, "tx_frame")
      /\ Fits(m, 16, "num", 1, "tx_compressed")
      /\ Fits(m, 17, "num", 1, "tx_multicast")
  BY DEF Fits, BeginOf
<1>5. /\ InstrOK(m, 1, d[1]) /\ InstrOK(m, 2, d[2]) /\ InstrOK(m, 3, d[3])
      /\ InstrOK(m, 4, d[4]) /\ InstrOK(m, 5, d[5]) /\ InstrOK(m, 6, d[6])
      /\ InstrOK(m, 7, d[7]) /\ InstrOK(m, 8, d[8]) /\ InstrOK(m, 9, d[9])
      /\ InstrOK(m, 10, d[10]) /\ InstrOK(m, 11, d[11])
      /\ InstrOK(m, 12, d[12]) /\ InstrOK(m, 13, d[13])
      /\ InstrOK(m, 14, d[14]) /\ InstrOK(m, 15, d[15])
      /\ InstrOK(m, 16, d[16]) /\ InstrOK(m, 17, d[17])
  BY <1>3, <1>4, InstrIs
<1> HIDE DEF m
<1>6. \A i \in 1 .. 17 : InstrOK(m, i, d[i])
  BY <1>5
<1>7. /\ d[1].f = names[1] /\ d[2].f = names[2] /\ d[3].f = names[3]
      /\ d[4].f = names[4] /\ d[5].f = names[5] /\ d[6].f = names[6]
      /\ d[7].f = names[7] /\ d[8].f = names[8] /\ d[9].f = names[9]
      /\ d[10].f = names[10] /\ d[11].f = names[11] /\ d[12].f = names[12]
      /\ d[13].f = names[13] /\ d[14].f = names[14] /\ d[15].f = names[15]
      /\ d[16].f = names[16] /\ d[17].f = names[17]
  BY <1>3 DEF IsInstr
<1> HIDE DEF names
<1>8. \A i \in 1 .. 17 : d[i].f = names[i]
  BY <1>7
<1>9. DOMAIN ColumnOf[m] = {"interface", "bytes_recv", "packets_recv", "errors_recv",
        "drop_recv", "bytes_sent", "packets_sent", "errors_sent",
        "drop_sent"}
  BY DEF m, ColumnOf
<1>10. /\ Accessors[m]["interface"] = "interface"
       /\ Accessors[m]["bytes_recv"] = "rx_bytes"
       /\ Accessors[m]["packets_recv"] = "rx_packets"
       /\ Accessors[m]["errors_recv"] = "rx_errs"
       /\ Accessors[m]["drop_recv"] = "rx_drop"
       /\ Accessors[m]["bytes_sent"] = "tx_bytes"
       /\ Accessors[m]["packets_sent"] = "tx_packets"
       /\ Accessors[m]["errors_sent"] = "tx_errs"
       /\ Accessors[m]["drop_sent"] = "tx_drop"
  BY DEF m, Accessors, NetAccessors
<1>11. /\ ColumnOf[m]["interface"] = 1 /\ ColumnOf[m]["bytes_recv"] = 2
       /\ ColumnOf[m]["packets_recv"] = 3 /\ ColumnOf[m]["errors_recv"] = 4
       /\ ColumnOf[m]["drop_recv"] = 5 /\ ColumnOf[m]["bytes_sent"] = 10
       /\ ColumnOf[m]["packets_sent"] = 11
       /\ ColumnOf[m]["errors_sent"] = 12 /\ ColumnOf[m]["drop_sent"] = 13
  BY DEF m, ColumnOf
<1>12. /\ Holds(m, names, "interface", 1, 17)
       /\ Holds(m, names, "rx_bytes", 2, 17)
       /\ Holds(m, names, "rx_packets", 3, 17)
       /\ Holds(m, names, "rx_errs", 4, 17)
       /\ Holds(m, names, "rx_drop", 5, 17)
       /\ Holds(m, names, "tx_bytes", 10, 17)
       /\ Holds(m, names, "tx_packets", 11, 17)
       /\ Holds(m, names, "tx_errs", 12, 17)
       /\ Holds(m, names, "tx_drop", 13, 17)
  BY DEF names, Holds, BeginOf, m
<1>13. \A a \in DOMAIN ColumnOf[m] : AccessorOK(m, a)
  <2> TAKE a \in DOMAIN ColumnOf[m]
  <2>1. Holds(m, names, Accessors[m][a], ColumnOf[m][a], 17)
    BY <1>9, <1>10, <1>11, <1>12
  <2>2. 17 = Len(Columns[m]) /\ \A i \in 1 .. 17 : Columns[m][i].f = names[i]
    BY <1>1, <1>8
  <2> QED
    BY <2>1, <2>2, AccessorIs
<1>14. ProgramOK(m)
  BY <1>1, <1>6, <1>13 DEF ProgramOK
<1> QED
  BY <1>14 DEF m

LEMMA PartitionOK == ProgramOK("mounts")
<1> DEFINE d == Partition
           m == "mounts"
           names == <<"device", "mount_point", "fs_type", "options">>
<1>1. d = Columns[m] /\ Len(d) = 4 /\ DOMAIN d = 1 .. 4
  <2>1. d = Columns[m]
    BY ColumnsAre
  <2>2. Len(d) = 4 /\ DOMAIN d = 1 .. 4
    BY DEF Partition
  <2> QED
    BY <2>1, <2>2
<1>2. /\ d[1] = Required(Text("device"))
      /\ d[2] = Required(Text("mount_point"))
      /\ d[3] = Required(Text("fs_type"))
      /\ d[4] = Required(Text("options"))
  BY DEF Partition
<1> HIDE DEF d
<1>3. /\ IsInstr(d[1], "text", 1, "device")
      /\ IsInstr(d[2], "text", 1, "mount_point")
      /\ IsInstr(d[3], "text", 1, "fs_type")
      /\ IsInstr(d[4], "text", 1, "options")
  BY <1>2, Instructions
<1>4. /\ Fits(m, 1, "text", 1, "device")
      /\ Fits(m, 2, "text", 1, "mount_point")
      /\ Fits(m, 3, "text", 1, "fs_type")
      /\ Fits(m, 4, "text", 1, "options")
  BY DEF Fits, BeginOf
<1>5. /\ InstrOK(m, 1, d[1]) /\ InstrOK(m, 2, d[2]) /\ InstrOK(m, 3, d[3])
      /\ InstrOK(m, 4, d[4])
  BY <1>3, <1>4, InstrIs
<1> HIDE DEF m
<1>6. \A i \in 1 .. 4 : InstrOK(m, i, d[i])
  BY <1>5
<1>7. /\ d[1].f = names[1] /\ d[2].f = names[2] /\ d[3].f = names[3]
      /\ d[4].f = names[4]
  BY <1>3 DEF IsInstr
<1> HIDE DEF names
<1>8. \A i \in 1 .. 4 : d[i].f = names[i]
  BY <1>7
<1>9. DOMAIN ColumnOf[m] = {"device", "mount_point", "file_system", "options"}
  BY DEF m, ColumnOf
<1>10. /\ Accessors[m]["device"] = "device"
       /\ Accessors[m]["mount_point"] = "mount_point"
       /\ Accessors[m]["file_system"] = "fs_type"
       /\ Accessors[m]["options"] = "options"
  BY DEF m, Accessors
<1>11. /\ ColumnOf[m]["device"] = 1 /\ ColumnOf[m]["mount_point"] = 2
       /\ ColumnOf[m]["file_system"] = 3 /\ ColumnOf[m]["options"] = 4
  BY DEF m, ColumnOf
<1>12. /\ Holds(m, names, "device", 1, 4)
       /\ Holds(m, names, "mount_point", 2, 4)
       /\ Holds(m, names, "fs_type", 3, 4)
       /\ Holds(m, names, "options", 4, 4)
  BY DEF names, Holds, BeginOf, m
<1>13. \A a \in DOMAIN ColumnOf[m] : AccessorOK(m, a)
  <2> TAKE a \in DOMAIN ColumnOf[m]
  <2>1. Holds(m, names, Accessors[m][a], ColumnOf[m][a], 4)
    BY <1>9, <1>10, <1>11, <1>12
  <2>2. 4 = Len(Columns[m]) /\ \A i \in 1 .. 4 : Columns[m][i].f = names[i]
    BY <1>1, <1>8
  <2> QED
    BY <2>1, <2>2, AccessorIs
<1>14. ProgramOK(m)
  BY <1>1, <1>6, <1>13 DEF ProgramOK
<1> QED
  BY <1>14 DEF m

LEMMA StatMOK == ProgramOK("statm")
<1> DEFINE d == StatM
           m == "statm"
           names == <<"size", "resident", "shared", "text", "_", "data">>
<1>1. d = Columns[m] /\ Len(d) = 6 /\ DOMAIN d = 1 .. 6
  <2>1. d = Columns[m]
    BY ColumnsAre
  <2>2. Len(d) = 6 /\ DOMAIN d = 1 .. 6
    BY DEF StatM
  <2> QED
    BY <2>1, <2>2
<1>2. /\ d[1] = Num("size") /\ d[2] = Num("resident")
      /\ d[3] = Num("shared") /\ d[4] = Num("text") /\ d[5] = Skip(1)
      /\ d[6] = Num("data")
  BY DEF StatM
<1> HIDE DEF d
<1>3. /\ IsInstr(d[1], "num", 1, "size")
      /\ IsInstr(d[2], "num", 1, "resident")
      /\ IsInstr(d[3], "num", 1, "shared")
      /\ IsInstr(d[4], "num", 1, "text") /\ IsInstr(d[5], "skip", 1, "_")
      /\ IsInstr(d[6], "num", 1, "data")
  BY <1>2, Instructions
<1>4. /\ Fits(m, 1, "num", 1, "size") /\ Fits(m, 2, "num", 1, "resident")
      /\ Fits(m, 3, "num", 1, "shared") /\ Fits(m, 4, "num", 1, "text")
      /\ Fits(m, 5, "skip", 1, "_") /\ Fits(m, 6, "num", 1, "data")
  BY DEF Fits, BeginOf
<1>5. /\ InstrOK(m, 1, d[1]) /\ InstrOK(m, 2, d[2]) /\ InstrOK(m, 3, d[3])
      /\ InstrOK(m, 4, d[4]) /\ InstrOK(m, 5, d[5]) /\ InstrOK(m, 6, d[6])
  BY <1>3, <1>4, InstrIs
<1> HIDE DEF m
<1>6. \A i \in 1 .. 6 : InstrOK(m, i, d[i])
  BY <1>5
<1>7. /\ d[1].f = names[1] /\ d[2].f = names[2] /\ d[3].f = names[3]
      /\ d[4].f = names[4] /\ d[5].f = names[5] /\ d[6].f = names[6]
  BY <1>3 DEF IsInstr
<1> HIDE DEF names
<1>8. \A i \in 1 .. 6 : d[i].f = names[i]
  BY <1>7
<1>9. DOMAIN ColumnOf[m] = {"vms", "rss", "shared", "text", "data"}
  BY DEF m, ColumnOf
<1>10. /\ Accessors[m]["vms"] = "size" /\ Accessors[m]["rss"] = "resident"
       /\ Accessors[m]["shared"] = "shared" /\ Accessors[m]["text"] = "text"
       /\ Accessors[m]["data"] = "data"
  BY DEF m, Accessors, StatMAccessors
<1>11. /\ ColumnOf[m]["vms"] = 1 /\ ColumnOf[m]["rss"] = 2
       /\ ColumnOf[m]["shared"] = 3 /\ ColumnOf[m]["text"] = 4
       /\ ColumnOf[m]["data"] = 6
  BY DEF m, ColumnOf
<1>12. /\ Holds(m, names, "size", 1, 6) /\ Holds(m, names, "resident", 2, 6)
       /\ Holds(m, names, "shared", 3, 6) /\ Holds(m, names, "text", 4, 6)
       /\ Holds(m, names, "data", 6, 6)
  BY DEF names, Holds, BeginOf, m
<1>13. \A a \in DOMAIN ColumnOf[m] : AccessorOK(m, a)
  <2> TAKE a \in DOMAIN ColumnOf[m]
  <2>1. Holds(m, names, Accessors[m][a], ColumnOf[m][a], 6)
    BY <1>9, <1>10, <1>11, <1>12
  <2>2. 6 = Len(Columns[m]) /\ \A i \in 1 .. 6 : Columns[m][i].f = names[i]
    BY <1>1, <1>8
  <2> QED
    BY <2>1, <2>2, AccessorIs
<1>14. ProgramOK(m)
  BY <1>1, <1>6, <1>13 DEF ProgramOK
<1> QED
  BY <1>14 DEF m

LEMMA CpuTimesOK == ProgramOK("cpu")
<1> DEFINE d == CpuTimes
           m == "cpu"
           names == <<"_", "user", "nice", "system", "idle", "io_wait",
                      "irq", "soft_irq", "steal", "guest", "guest_nice", "_">>
<1>1. d = Columns[m] /\ Len(d) = 12 /\ DOMAIN d = 1 .. 12
  <2>1. d = Columns[m]
    BY ColumnsAre
  <2>2. Len(d) = 12 /\ DOMAIN d = 1 .. 12
    BY DEF CpuTimes
  <2> QED
    BY <2>1, <2>2
<1>2. /\ d[1] = Skip(1) /\ d[2] = Opt("user") /\ d[3] = Opt("nice")
      /\ d[4] = Opt("system") /\ d[5] = Opt("idle") /\ d[6] = Opt("io_wait")
      /\ d[7] = Opt("irq") /\ d[8] = Opt("soft_irq") /\ d[9] = Opt("steal")
      /\ d[10] = Opt("guest") /\ d[11] = Opt("guest_nice")
      /\ d[12] = Opt("_")
  BY DEF CpuTimes
<1> HIDE DEF d
<1>3. /\ IsInstr(d[1], "skip", 1, "_") /\ IsInstr(d[2], "opt", 1, "user")
      /\ IsInstr(d[3], "opt", 1, "nice")
      /\ IsInstr(d[4], "opt", 1, "system")
      /\ IsInstr(d[5], "opt", 1, "idle")
      /\ IsInstr(d[6], "opt", 1, "io_wait")
      /\ IsInstr(d[7], "opt", 1, "irq")
      /\ IsInstr(d[8], "opt", 1, "soft_irq")
      /\ IsInstr(d[9], "opt", 1, "steal")
      /\ IsInstr(d[10], "opt", 1, "guest")
      /\ IsInstr(d[11], "opt", 1, "guest_nice")
      /\ IsInstr(d[12], "opt", 1, "_")
  BY <1>2, Instructions
<1>4. /\ Fits(m, 1, "skip", 1, "_") /\ Fits(m, 2, "opt", 1, "user")
      /\ Fits(m, 3, "opt", 1, "nice") /\ Fits(m, 4, "opt", 1, "system")
      /\ Fits(m, 5, "opt", 1, "idle") /\ Fits(m, 6, "opt", 1, "io_wait")
      /\ Fits(m, 7, "opt", 1, "irq") /\ Fits(m, 8, "opt", 1, "soft_irq")
      /\ Fits(m, 9, "opt", 1, "steal") /\ Fits(m, 10, "opt", 1, "guest")
      /\ Fits(m, 11, "opt", 1, "guest_nice") /\ Fits(m, 12, "opt", 1, "_")
  BY DEF Fits, BeginOf
<1>5. /\ InstrOK(m, 1, d[1]) /\ InstrOK(m, 2, d[2]) /\ InstrOK(m, 3, d[3])
      /\ InstrOK(m, 4, d[4]) /\ InstrOK(m, 5, d[5]) /\ InstrOK(m, 6, d[6])
      /\ InstrOK(m, 7, d[7]) /\ InstrOK(m, 8, d[8]) /\ InstrOK(m, 9, d[9])
      /\ InstrOK(m, 10, d[10]) /\ InstrOK(m, 11, d[11])
      /\ InstrOK(m, 12, d[12])
  BY <1>3, <1>4, InstrIs
<1> HIDE DEF m
<1>6. \A i \in 1 .. 12 : InstrOK(m, i, d[i])
  BY <1>5
<1>7. /\ d[1].f = names[1] /\ d[2].f = names[2] /\ d[3].f = names[3]
      /\ d[4].f = names[4] /\ d[5].f = names[5] /\ d[6].f = names[6]
      /\ d[7].f = names[7] /\ d[8].f = names[8] /\ d[9].f = names[9]
      /\ d[10].f = names[10] /\ d[11].f = names[11] /\ d[12].f = names[12]
  BY <1>3, ZenonT(60) DEF IsInstr
<1> HIDE DEF names
<1>8. \A i \in 1 .. 12 : d[i].f = names[i]
  BY <1>7
<1>9. DOMAIN ColumnOf[m] = {"user", "nice", "system", "idle", "io_wait", "irq", "soft_irq",
        "steal", "guest", "guest_nice"}
  BY DEF m, ColumnOf
<1>10. /\ Accessors[m]["user"] = "user" /\ Accessors[m]["nice"] = "nice"
       /\ Accessors[m]["system"] = "system" /\ Accessors[m]["idle"] = "idle"
       /\ Accessors[m]["io_wait"] = "io_wait" /\ Accessors[m]["irq"] = "irq"
       /\ Accessors[m]["soft_irq"] = "soft_irq"
       /\ Accessors[m]["steal"] = "steal" /\ Accessors[m]["guest"] = "guest"
       /\ Accessors[m]["guest_nice"] = "guest_nice"
  BY DEF m, Accessors, CpuTimeAccessors
<1>11. /\ ColumnOf[m]["user"] = 2 /\ ColumnOf[m]["nice"] = 3
       /\ ColumnOf[m]["system"] = 4 /\ ColumnOf[m]["idle"] = 5
       /\ ColumnOf[m]["io_wait"] = 6 /\ ColumnOf[m]["irq"] = 7
       /\ ColumnOf[m]["soft_irq"] = 8 /\ ColumnOf[m]["steal"] = 9
       /\ ColumnOf[m]["guest"] = 10 /\ ColumnOf[m]["guest_nice"] = 11
  BY DEF m, ColumnOf
<1>12. /\ Holds(m, names, "user", 2, 12) /\ Holds(m, names, "nice", 3, 12)
       /\ Holds(m, names, "system", 4, 12) /\ Holds(m, names, "idle", 5, 12)
       /\ Holds(m, names, "io_wait", 6, 12) /\ Holds(m, names, "irq", 7, 12)
       /\ Holds(m, names, "soft_irq", 8, 12)
       /\ Holds(m, names, "steal", 9, 12)
       /\ Holds(m, names, "guest", 10, 12)
       /\ Holds(m, names, "guest_nice", 11, 12)
  BY DEF names, Holds, BeginOf, m
<1>13. \A a \in DOMAIN ColumnOf[m] : AccessorOK(m, a)
  <2> TAKE a \in DOMAIN ColumnOf[m]
  <2>1. Holds(m, names, Accessors[m][a], ColumnOf[m][a], 12)
    BY <1>9, <1>10, <1>11, <1>12
  <2>2. 12 = Len(Columns[m]) /\ \A i \in 1 .. 12 : Columns[m][i].f = names[i]
    BY <1>1, <1>8
  <2> QED
    BY <2>1, <2>2, AccessorIs
<1>14. ProgramOK(m)
  BY <1>1, <1>6, <1>13 DEF ProgramOK
<1> QED
  BY <1>14 DEF m

LEMMA StatOK == ProgramOK("stat")
<1> DEFINE d == Stat
           m == "stat"
           names == <<"pid", "name", "state", "ppid", "_", "_", "_", "_",
                      "_", "_", "_", "_", "_", "utime", "stime", "cutime",
                      "cstime", "_", "_", "_", "_", "create_time", "_", "_",
                      "_">>
<1>1. d = Columns[m] /\ Len(d) = 25 /\ DOMAIN d = 1 .. 25
  <2>1. d = Columns[m]
    BY ColumnsAre
  <2>2. Len(d) = 25 /\ DOMAIN d = 1 .. 25
    BY SMTT(60) DEF Stat
  <2> QED
    BY <2>1, <2>2
<1>2. /\ d[1] = Num("pid") /\ d[2] = Text("name") /\ d[3] = Num("state")
      /\ d[4] = Num("ppid") /\ d[5] = Num("_") /\ d[6] = Num("_")
      /\ d[7] = Num("_") /\ d[8] = Num("_") /\ d[9] = Num("_")
      /\ d[10] = Num("_") /\ d[11] = Num("_") /\ d[12] = Num("_")
      /\ d[13] = Num("_") /\ d[14] = Num("utime") /\ d[15] = Num("stime")
      /\ d[16] = Num("cutime") /\ d[17] = Num("cstime") /\ d[18] = Num("_")
      /\ d[19] = Num("_") /\ d[20] = Num("_") /\ d[21] = Num("_")
      /\ d[22] = Num("create_time") /\ d[23] = Num("_") /\ d[24] = Num("_")
      /\ d[25] = Num("_")
  BY DEF Stat
<1> HIDE DEF d
<1>3. /\ IsInstr(d[1], "num", 1, "pid") /\ IsInstr(d[2], "text", 1, "name")
      /\ IsInstr(d[3], "num", 1, "state") /\ IsInstr(d[4], "num", 1, "ppid")
      /\ IsInstr(d[5], "num", 1, "_") /\ IsInstr(d[6], "num", 1, "_")
      /\ IsInstr(d[7], "num", 1, "_") /\ IsInstr(d[8], "num", 1, "_")
      /\ IsInstr(d[9], "num", 1, "_") /\ IsInstr(d[10], "num", 1, "_")
      /\ IsInstr(d[11], "num", 1, "_") /\ IsInstr(d[12], "num", 1, "_")
      /\ IsInstr(d[13], "num", 1, "_") /\ IsInstr(d[14], "num", 1, "utime")
      /\ IsInstr(d[15], "num", 1, "stime")
      /\ IsInstr(d[16], "num", 1, "cutime")
      /\ IsInstr(d[17], "num", 1, "cstime") /\ IsInstr(d[18], "num", 1, "_")
      /\ IsInstr(d[19], "num", 1, "_") /\ IsInstr(d[20], "num", 1, "_")
      /\ IsInstr(d[21], "num", 1, "_")
      /\ IsInstr(d[22], "num", 1, "create_time")
      /\ IsInstr(d[23], "num", 1, "_") /\ IsInstr(d[24], "num", 1, "_")
      /\ IsInstr(d[25], "num", 1, "_")
  BY <1>2, Instructions
<1>4. /\ Fits(m, 1, "num", 1, "pid") /\ Fits(m, 2, "text", 1, "name")
      /\ Fits(m, 3, "num", 1, "state") /\ Fits(m, 4, "num", 1, "ppid")
      /\ Fits(m, 5, "num", 1, "_") /\ Fits(m, 6, "num", 1, "_")
      /\ Fits(m, 7, "num", 1, "_") /\ Fits(m, 8, "num", 1, "_")
      /\ Fits(m, 9, "num", 1, "_") /\ Fits(m, 10, "num", 1, "_")
      /\ Fits(m, 11, "num", 1, "_") /\ Fits(m, 12, "num", 1, "_")
      /\ Fits(m, 13, "num", 1, "_") /\ Fits(m, 14, "num", 1, "utime")
      /\ Fits(m, 15, "num", 1, "stime") /\ Fits(m, 16, "num", 1, "cutime")
      /\ Fits(m, 17, "num", 1, "cstime") /\ Fits(m, 18, "num", 1, "_")
      /\ Fits(m, 19, "num", 1, "_") /\ Fits(m, 20, "num", 1, "_")
      /\ Fits(m, 21, "num", 1, "_") /\ Fits(m, 22, "num", 1, "create_time")
      /\ Fits(m, 23, "num", 1, "_") /\ Fits(m, 24, "num", 1, "_")
      /\ Fits(m, 25, "num", 1, "_")
  BY DEF Fits, BeginOf
<1>5. /\ InstrOK(m, 1, d[1]) /\ InstrOK(m, 2, d[2]) /\ InstrOK(m, 3, d[3])
      /\ InstrOK(m, 4, d[4]) /\ InstrOK(m, 5, d[5]) /\ InstrOK(m, 6, d[6])
      /\ InstrOK(m, 7, d[7]) /\ InstrOK(m, 8, d[8]) /\ InstrOK(m, 9, d[9])
      /\ InstrOK(m, 10, d[10]) /\ InstrOK(m, 11, d[11])
      /\ InstrOK(m, 12, d[12]) /\ InstrOK(m, 13, d[13])
      /\ InstrOK(m, 14, d[14]) /\ InstrOK(m, 15, d[15])
      /\ InstrOK(m, 16, d[16]) /\ InstrOK(m, 17, d[17])
      /\ InstrOK(m, 18, d[18]) /\ InstrOK(m, 19, d[19])
      /\ InstrOK(m, 20, d[20]) /\ InstrOK(m, 21, d[21])
      /\ InstrOK(m, 22, d[22]) /\ InstrOK(m, 23, d[23])
      /\ InstrOK(m, 24, d[24]) /\ InstrOK(m, 25, d[25])
  BY <1>3, <1>4, InstrIs, ZenonT(60)
<1> HIDE DEF m
<1>6. \A i \in 1 .. 25 : InstrOK(m, i, d[i])
  BY <1>5
<1>7. /\ d[1].f = names[1] /\ d[2].f = names[2] /\ d[3].f = names[3]
      /\ d[4].f = names[4] /\ d[5].f = names[5] /\ d[6].f = names[6]
      /\ d[7].f = names[7] /\ d[8].f = names[8] /\ d[9].f = names[9]
      /\ d[10].f = names[10] /\ d[11].f = names[11] /\ d[12].f = names[12]
      /\ d[13].f = names[13] /\ d[14].f = names[14] /\ d[15].f = names[15]
      /\ d[16].f = names[16] /\ d[17].f = names[17] /\ d[18].f = names[18]
      /\ d[19].f = names[19] /\ d[20].f = names[20] /\ d[21].f = names[21]
      /\ d[22].f = names[22] /\ d[23].f = names[23] /\ d[24].f = names[24]
      /\ d[25].f = names[25]
  BY <1>3, ZenonT(60) DEF IsInstr
<1> HIDE DEF names
<1>8. \A i \in 1 .. 25 : d[i].f = names[i]
  BY <1>7
<1>9. DOMAIN ColumnOf[m] = {"pid", "name", "status", "parent_pid", "user", "system",
        "create_time"}
  BY DEF m, ColumnOf
<1>10. /\ Accessors[m]["pid"] = "pid" /\ Accessors[m]["name"] = "name"
       /\ Accessors[m]["status"] = "state"
       /\ Accessors[m]["parent_pid"] = "ppid"
       /\ Accessors[m]["user"] = "utime" /\ Accessors[m]["system"] = "stime"
       /\ Accessors[m]["create_time"] = "create_time"
  BY DEF m, Accessors, ProcessTimeAccessors
<1>11. /\ ColumnOf[m]["pid"] = 1 /\ ColumnOf[m]["name"] = 2
       /\ ColumnOf[m]["status"] = 3 /\ ColumnOf[m]["parent_pid"] = 4
       /\ ColumnOf[m]["user"] = 14 /\ ColumnOf[m]["system"] = 15
       /\ ColumnOf[m]["create_time"] = 22
  BY DEF m, ColumnOf
<1>12. /\ Holds(m, names, "pid", 1, 25) /\ Holds(m, names, "name", 2, 25)
       /\ Holds(m, names, "state", 3, 25) /\ Holds(m, names, "ppid", 4, 25)
       /\ Holds(m, names, "utime", 14, 25)
       /\ Holds(m, names, "stime", 15, 25)
       /\ Holds(m, names, "create_time", 22, 25)
  BY DEF names, Holds, BeginOf, m
<1>13. \A a \in DOMAIN ColumnOf[m] : AccessorOK(m, a)
  <2> TAKE a \in DOMAIN ColumnOf[m]
  <2>1. Holds(m, names, Accessors[m][a], ColumnOf[m][a], 25)
    BY <1>9, <1>10, <1>11, <1>12
  <2>2. 25 = Len(Columns[m]) /\ \A i \in 1 .. 25 : Columns[m][i].f = names[i]
    BY <1>1, <1>8
  <2> QED
    BY <2>1, <2>2, AccessorIs
<1>14. ProgramOK(m)
  BY <1>1, <1>6, <1>13 DEF ProgramOK
<1> QED
  BY <1>14 DEF m

LEMMA UptimeOK == ProgramOK("uptime")
<1> DEFINE d == Uptime
           m == "uptime"
           names == <<"uptime">>
<1>1. d = Columns[m] /\ Len(d) = 1 /\ DOMAIN d = 1 .. 1
  <2>1. d = Columns[m]
    BY ColumnsAre
  <2>2. Len(d) = 1 /\ DOMAIN d = 1 .. 1
    BY DEF Uptime
  <2> QED
    BY <2>1, <2>2
<1>2. /\ d[1] = Num("uptime")
  BY DEF Uptime
<1> HIDE DEF d
<1>3. /\ IsInstr(d[1], "num", 1, "uptime")
  BY <1>2, Instructions
<1>4. /\ Fits(m, 1, "num", 1, "uptime")
  BY DEF Fits, BeginOf
<1>5. /\ InstrOK(m, 1, d[1])
  BY <1>3, <1>4, InstrIs
<1> HIDE DEF m
<1>6. \A i \in 1 .. 1 : InstrOK(m, i, d[i])
  BY <1>5
<1>7. /\ d[1].f = names[1]
  BY <1>3 DEF IsInstr
<1> HIDE DEF names
<1>8. \A i \in 1 .. 1 : d[i].f = names[i]
  BY <1>7
<1>9. DOMAIN ColumnOf[m] = {"uptime"}
  BY DEF m, ColumnOf
<1>10. /\ Accessors[m]["uptime"] = "uptime"
  BY DEF m, Accessors
<1>11. /\ ColumnOf[m]["uptime"] = 1
  BY DEF m, ColumnOf
<1>12. /\ Holds(m, names, "uptime", 1, 1)
  BY DEF names, Holds, BeginOf, m
<1>13. \A a \in DOMAIN ColumnOf[m] : AccessorOK(m, a)
  <2> TAKE a \in DOMAIN ColumnOf[m]
  <2>1. Holds(m, names, Accessors[m][a], ColumnOf[m][a], 1)
    BY <1>9, <1>10, <1>11, <1>12
  <2>2. 1 = Len(Columns[m]) /\ \A i \in 1 .. 1 : Columns[m][i].f = names[i]
    BY <1>1, <1>8
  <2> QED
    BY <2>1, <2>2, AccessorIs
<1>14. ProgramOK(m)
  BY <1>1, <1>6, <1>13 DEF ProgramOK
<1> QED
  BY <1>14 DEF m

LEMMA ProgramsOK ==
  ASSUME NEW m \in DOMAIN Columns
  PROVE  ProgramOK(m)
BY ColumnsAre, DiskCountersOK, NetCountersOK, PartitionOK, StatMOK, CpuTimesOK, StatOK,
   UptimeOK

----------------------------------------------------------------------------
(* Induction is by the least number for which a claim fails: that takes a  *)
(* set and no operator.                                                    *)
LEMMA LeastNat ==
  ASSUME NEW T \in SUBSET Nat, T # {}
  PROVE  \E n \in T : \A m \in T : n <= m
<1> DEFINE R == {p \in Nat \X Nat : p[1] < p[2]}
<1>1. IsWellFoundedOn(R, Nat)
  BY NatLessThanWellFounded, Zenon DEF OpToRel
<1>2. \E n \in T : \A m \in T : ~(<<m, n>> \in R)
  <2> HIDE DEF R
  <2> QED
    BY <1>1, WFMin
<1>3. \A m, n \in Nat : m < n => <<m, n>> \in R
  OBVIOUS
<1> HIDE DEF R
<1>4. PICK n \in T : \A m \in T : ~(<<m, n>> \in R)
  BY <1>2
<1>5. ASSUME NEW m \in T PROVE n <= m
  <2>1. m \in Nat /\ n \in Nat /\ ~(m < n)
    BY <1>3, <1>4
  <2> QED
    BY <2>1
<1> QED
  BY <1>5

(* A row has as many columns as the instructions read and skip. *)
IsWidth(m, n, s) == s = [i \in 0 .. n |-> IF i = 0 THEN 0 ELSE s[i - 1] + Columns[m][i].n]

LEMMA WidthIsSum ==
  ASSUME NEW m
  PROVE  Width(m) = (CHOOSE s : IsWidth(m, Len(Columns[m]), s))[Len(Columns[m])]
BY Zenon DEF Width, IsWidth

LEMMA WidthIs ==
  ASSUME NEW m \in DOMAIN Columns
  PROVE  Width(m) = BeginOf(m, Len(Columns[m]) + 1)
<1> DEFINE n == Len(Columns[m])
<1>1. n \in Nat /\ \A i \in 1 .. n : InstrOK(m, i, Columns[m][i])
  BY ProgramsOK DEF ProgramOK
<1>2. \A i \in 1 .. n : BeginOf(m, i + 1) = BeginOf(m, i) + Columns[m][i].n
  BY <1>1 DEF InstrOK, Fits
<1>3. \E s : IsWidth(m, n, s)
  <2> DEFINE g == [i \in 0 .. n |-> BeginOf(m, i + 1)]
  <2>1. ASSUME NEW i \in 0 .. n
        PROVE  g[i] = IF i = 0 THEN 0 ELSE g[i - 1] + Columns[m][i].n
    <3>1. CASE i = 0
      BY <3>1, BeginIncreases
    <3>2. CASE i # 0
      <4>1. i \in 1 .. n /\ i - 1 \in 0 .. n /\ (i - 1) + 1 = i
        BY <1>1, <3>2
      <4>2. g[i] = BeginOf(m, i + 1) /\ g[i - 1] = BeginOf(m, i)
        BY <4>1
      <4> HIDE DEF g
      <4> QED
        BY <1>2, <3>2, <4>1, <4>2
    <3> QED
      BY <3>1, <3>2
  <2>2. g = [i \in 0 .. n |-> g[i]]
    OBVIOUS
  <2> HIDE DEF g
  <2>3. g = [i \in 0 .. n |-> IF i = 0 THEN 0 ELSE g[i - 1] + Columns[m][i].n]
    BY <2>1, <2>2
  <2> QED
    BY <2>3 DEF IsWidth
<1>4. PICK s : IsWidth(m, n, s) /\ Width(m) = s[n]
  BY <1>3, WidthIsSum
<1>5. \A i \in 0 .. n : s[i] = IF i = 0 THEN 0 ELSE s[i - 1] + Columns[m][i].n
  BY <1>4, Zenon DEF IsWidth
<1> DEFINE T == {i \in 0 .. n : s[i] # BeginOf(m, i + 1)}
<1> HIDE DEF n
<1>6. ASSUME T # {} PROVE FALSE
  <2>1. T \in SUBSET Nat
    BY <1>1
  <2>2. PICK i \in T : \A j \in T : i <= j
    <3> HIDE DEF T
    <3> QED
      BY <1>6, <2>1, LeastNat
  <2>3. i \in 0 .. n /\ s[i] # BeginOf(m, i + 1)
    BY <2>2
  <2>4. i # 0
    BY <1>1, <1>5, <2>3, BeginIncreases
  <2>5. i \in 1 .. n /\ i - 1 \in 0 .. n /\ (i - 1) + 1 = i
    BY <1>1, <2>3, <2>4
  <2>6. s[i - 1] = BeginOf(m, i)
    <3>1. i - 1 \notin T
      BY <1>1, <2>2, <2>5
    <3> QED
      BY <2>5, <3>1
  <2>7. s[i] = s[i - 1] + Columns[m][i].n
    BY <1>5, <2>3, <2>4
  <2>8. s[i] = BeginOf(m, i + 1)
    BY <1>2, <2>5, <2>6, <2>7
  <2> QED
    BY <2>3, <2>8
<1>7. s[n] = BeginOf(m, n + 1)
  BY <1>1, <1>6
<1> QED
  BY <1>4, <1>7 DEF n

----------------------------------------------------------------------------
(* The name of a process survives its parentheses. *)
Char == {"a", " ", "=", ")", "(", "NUL"}

LEMMA Single ==
  ASSUME NEW S, NEW x \in S
  PROVE  <<x>> \in Seq(S) /\ Len(<<x>>) = 1 /\ <<x>>[1] = x
OBVIOUS

LEMMA Join ==
  ASSUME NEW S, NEW s \in Seq(S), NEW t \in Seq(S)
  PROVE  /\ s \o t \in Seq(S) /\ Len(s \o t) = Len(s) + Len(t)
         /\ Len(s) \in Nat /\ Len(t) \in Nat /\ Len(s \o t) \in Nat
         /\ \A i \in 1 .. Len(s) : (s \o t)[i] = s[i]
         /\ \A i \in 1 .. Len(t) : (s \o t)[Len(s) + i] = t[i]
<1>1. Len(s) \in Nat /\ Len(t) \in Nat
  BY LenProperties
<1>2. /\ s \o t \in Seq(S) /\ Len(s \o t) = Len(s) + Len(t)
      /\ \A i \in 1 .. Len(s) + Len(t) :
           (s \o t)[i] = IF i <= Len(s) THEN s[i] ELSE t[i - Len(s)]
  BY ConcatProperties
<1> DEFINE u == s \o t
<1> HIDE DEF u
<1>3. \A i \in 1 .. Len(s) : u[i] = s[i]
  BY <1>1, <1>2 DEF u
<1>4. ASSUME NEW i \in 1 .. Len(t) PROVE u[Len(s) + i] = t[i]
  <2>1. Len(s) + i \in 1 .. Len(s) + Len(t) /\ ~(Len(s) + i <= Len(s))
        /\ (Len(s) + i) - Len(s) = i
    BY <1>1
  <2> QED
    BY <1>2, <2>1 DEF u
<1> QED
  BY <1>1, <1>2, <1>3, <1>4 DEF u

LEMMA CommIs ==
  ASSUME NEW w \in Seq(Char)
  PROVE  /\ Comm(w) \in Seq(Char) /\ Len(Comm(w)) = Len(w) + 2
         /\ Comm(w)[Len(w) + 2] = ")"
         /\ \A i \in 1 .. Len(w) : Comm(w)[i + 1] = w[i]
<1> DEFINE p == <<"(">>
           q == <<")">>
           u == p \o w
           t == u \o q
<1>1. "(" \in Char /\ ")" \in Char
  BY DEF Char
<1>2. p \in Seq(Char) /\ q \in Seq(Char) /\ Len(p) = 1 /\ Len(q) = 1 /\ q[1] = ")"
  BY <1>1, Single
<1> HIDE DEF p, q
<1>3. /\ u \in Seq(Char) /\ Len(u) = 1 + Len(w) /\ Len(w) \in Nat
      /\ \A i \in 1 .. Len(w) : u[1 + i] = w[i]
  <2>1. p \in Seq(Char)
    BY <1>2
  <2>2. /\ u \in Seq(Char) /\ Len(u) = Len(p) + Len(w) /\ Len(w) \in Nat
        /\ \A i \in 1 .. Len(w) : u[Len(p) + i] = w[i]
    BY <2>1, Join
  <2> HIDE DEF u
  <2> QED
    BY <1>2, <2>2
<1> HIDE DEF u
<1>4. /\ t \in Seq(Char) /\ Len(t) = Len(u) + Len(q)
      /\ \A i \in 1 .. Len(u) : t[i] = u[i]
      /\ \A i \in 1 .. Len(q) : t[Len(u) + i] = q[i]
  <2>1. u \in Seq(Char) /\ q \in Seq(Char)
    BY <1>2, <1>3
  <2> QED
    BY <2>1, Join
<1>5. Comm(w) = t
  BY DEF Comm, t, u, p, q
<1> HIDE DEF t
<1>6. Len(t) = Len(w) + 2 /\ t[Len(w) + 2] = ")"
  <2>1. Len(u) + 1 = Len(w) + 2
    BY <1>3
  <2> QED
    BY <1>2, <1>3, <1>4, <2>1
<1>7. ASSUME NEW i \in 1 .. Len(w) PROVE t[i + 1] = w[i]
  BY <1>3, <1>4
<1> QED
  BY <1>4, <1>5, <1>6, <1>7

LEMMA NameIs ==
  ASSUME NEW w \in Seq(Char)
  PROVE  NameOf(Comm(w)) = w
<1> DEFINE t == Comm(w)
           Last(i) == t[i] = ")" /\ \A j \in i + 1 .. Len(t) : t[j] # ")"
           e == CHOOSE i \in DOMAIN t : Last(i)
<1>1. /\ t \in Seq(Char) /\ Len(t) = Len(w) + 2 /\ t[Len(t)] = ")" /\ Len(w) \in Nat
      /\ \A i \in 1 .. Len(w) : t[i + 1] = w[i]
  BY CommIs, LenProperties
<1>2. NameOf(t) = SubSeq(t, 2, e - 1)
  BY Zenon DEF NameOf
<1> HIDE DEF t
<1>3. DOMAIN t = 1 .. Len(t) /\ Len(t) \in Nat
  BY <1>1
<1>4. Last(Len(t)) /\ Len(t) \in DOMAIN t
  BY <1>1, <1>3
<1>5. e \in DOMAIN t /\ Last(e)
  <2> HIDE DEF Last
  <2> QED
    BY <1>4
<1> HIDE DEF e
<1>6. e = Len(t)
  BY <1>1, <1>3, <1>5
<1>7. SubSeq(t, 2, Len(t) - 1) = w
  <2> DEFINE s == SubSeq(t, 2, Len(t) - 1)
  <2>1. s \in Seq(Char) /\ Len(s) = Len(w) /\ \A i \in 1 .. Len(w) : s[i] = t[i + 1]
    BY <1>1
  <2> HIDE DEF s
  <2>2. \A i \in 1 .. Len(s) : s[i] = w[i]
    BY <1>1, <2>1
  <2> QED
    BY <2>1, <2>2, SeqEqual DEF s
<1> QED
  BY <1>2, <1>6, <1>7 DEF t

----------------------------------------------------------------------------
(* Looking for characters. *)
FoundAt(c, t, i, e) ==
  /\ e \in Nat
  /\ \/ e = Len(t) + 1 /\ \A j \in i .. Len(t) : t[j] # c
     \/ /\ e \in i .. Len(t) /\ t[e] = c
        /\ \A j \in i .. e - 1 : t[j] # c

LEMMA FindIs ==
  ASSUME NEW c, NEW t, Len(t) \in Nat, NEW i \in Nat
  PROVE  FoundAt(c, t, i, Find(c, t, i))
<1> DEFINE hits == {j \in i .. Len(t) : t[j] = c}
           Least(j) == \A k \in hits : j <= k
<1>1. CASE hits = {}
  <2>1. Find(c, t, i) = Len(t) + 1
    BY <1>1, Zenon DEF Find
  <2> QED
    BY <1>1, <2>1 DEF FoundAt
<1>2. CASE hits # {}
  <2>1. Find(c, t, i) = CHOOSE j \in hits : Least(j)
    BY <1>2, Zenon DEF Find
  <2>2. hits \in SUBSET Nat
    OBVIOUS
  <2>3. \E j \in hits : Least(j)
    <3> HIDE DEF hits
    <3> QED
      BY <1>2, <2>2, LeastNat
  <2>4. Find(c, t, i) \in hits /\ Least(Find(c, t, i))
    <3> HIDE DEF hits, Least
    <3> QED
      BY <2>1, <2>3
  <2> DEFINE e == Find(c, t, i)
  <2> HIDE DEF e
  <2>5. e \in i .. Len(t) /\ t[e] = c /\ e \in Nat
    BY <2>4 DEF e
  <2>6. ASSUME NEW j \in i .. e - 1 PROVE t[j] # c
    BY <2>4, <2>5 DEF e
  <2> QED
    BY <2>5, <2>6 DEF FoundAt, e
<1> QED
  BY <1>1, <1>2

(* Where the arguments begin: behind the NULs that end the path of the     *)
(* program, or in front of them if nothing else follows.                   *)
BeginsAt(t, i) ==
  \/ i <= Len(t) /\ t[i] # Nul /\ \A j \in ExeEnd(t) .. i - 1 : t[j] = Nul
  \/ i = ExeEnd(t) /\ \A j \in i .. Len(t) : t[j] = Nul

LEMMA ArgsStartIs ==
  ASSUME NEW t, Len(t) \in Nat
  PROVE  /\ ExeEnd(t) \in Nat \ {0}
         /\ ArgsStart(t) \in ExeEnd(t) .. Len(t) + 1
         /\ BeginsAt(t, ArgsStart(t))
<1> DEFINE x == ExeEnd(t)
           T == {j \in x .. Len(t) : t[j] # Nul}
<1>1. x \in 1 .. Len(t) + 1
  <2>1. FoundAt(Nul, t, 1, x)
    BY FindIs DEF ExeEnd
  <2> HIDE DEF x
  <2> QED
    BY <2>1 DEF FoundAt
<1>2. ArgsStart(t) = CHOOSE i \in x .. Len(t) + 1 : BeginsAt(t, i)
  BY Zenon DEF ArgsStart, BeginsAt
<1>3. \E i \in x .. Len(t) + 1 : BeginsAt(t, i)
  <2> HIDE DEF x
  <2>1. CASE T = {}
    <3>1. BeginsAt(t, x)
      BY <1>1, <2>1 DEF BeginsAt, x
    <3> QED
      BY <1>1, <3>1
  <2>2. CASE T # {}
    <3>1. T \in SUBSET Nat
      BY <1>1
    <3>2. PICK i \in T : \A j \in T : i <= j
      <4> HIDE DEF T
      <4> QED
        BY <2>2, <3>1, LeastNat
    <3>3. i \in x .. Len(t) /\ t[i] # Nul
      BY <3>2
    <3>4. ASSUME NEW j \in x .. i - 1 PROVE t[j] = Nul
      BY <1>1, <3>2, <3>3
    <3>5. BeginsAt(t, i)
      BY <1>1, <3>3, <3>4 DEF BeginsAt, x
    <3> QED
      BY <1>1, <3>3, <3>5
  <2> QED
    BY <2>1, <2>2
<1> HIDE DEF x
<1>4. ArgsStart(t) \in x .. Len(t) + 1 /\ BeginsAt(t, ArgsStart(t))
  BY <1>2, <1>3
<1> QED
  BY <1>1, <1>4 DEF x

(* Numbers of a finite set are counted from the least. *)
LEMMA NthExists ==
  ASSUME NEW l \in Nat, NEW H \in SUBSET (1 .. l), NEW n \in Nat \ {0},
         n <= Cardinality(H)
  PROVE  \E j \in H : Cardinality({k \in H : k <= j}) = n
<1> DEFINE Below(j) == {k \in H : k <= j}
           T == {j \in 0 .. l : n <= Cardinality(Below(j))}
<1>1. \A j : IsFiniteSet(Below(j)) /\ Cardinality(Below(j)) \in Nat
  <2> TAKE j
  <2>1. IsFiniteSet(1 .. l)
    BY FS_Interval
  <2>2. Below(j) \subseteq 1 .. l
    OBVIOUS
  <2> HIDE DEF Below
  <2> QED
    BY <2>1, <2>2, FS_Subset, FS_CardinalityType
<1>a. \A k \in H : k \in Nat /\ 1 <= k /\ k <= l
  OBVIOUS
<1>2. Below(l) = H /\ Below(0) = {}
  <2>1. \A k \in H : k <= l /\ ~(k <= 0)
    BY <1>a
  <2> QED
    BY <2>1
<1>3. T \in SUBSET Nat /\ l \in T /\ 0 \notin T
  <2>1. Cardinality(Below(0)) = 0
    BY <1>2, FS_EmptySet, Zenon
  <2>2. Cardinality(Below(l)) = Cardinality(H)
    BY <1>2, Zenon
  <2> HIDE DEF Below
  <2> QED
    BY <2>1, <2>2
<1>4. PICK j \in T : \A i \in T : j <= i
  <2> HIDE DEF T
  <2> QED
    BY <1>3, LeastNat
<1>5. j \in 1 .. l /\ n <= Cardinality(Below(j)) /\ ~(n <= Cardinality(Below(j - 1)))
  <2> HIDE DEF Below
  <2>1. j \in 0 .. l /\ j # 0 /\ n <= Cardinality(Below(j))
    BY <1>3, <1>4
  <2>2. j - 1 \in 0 .. l /\ j - 1 \notin T
    BY <1>4, <2>1
  <2> QED
    BY <2>1, <2>2
<1>6. j \in H
  <2> SUFFICES ASSUME j \notin H PROVE FALSE
    OBVIOUS
  <2>1. Below(j) = Below(j - 1)
    <3>1. \A k \in H : k <= j <=> k <= j - 1
      <4> TAKE k \in H
      <4>1. k \in Nat /\ k # j /\ j \in Nat
        BY <1>a, <1>5
      <4> QED
        BY <4>1
    <3> QED
      BY <3>1
  <2> HIDE DEF Below
  <2> QED
    BY <1>5, <2>1
<1>7. Below(j) = Below(j - 1) \union {j} /\ j \notin Below(j - 1)
  <2>1. \A k \in H : k <= j <=> k <= j - 1 \/ k = j
    <3> TAKE k \in H
    <3>1. k \in Nat /\ j \in Nat
      BY <1>a, <1>5
    <3> QED
      BY <3>1
  <2>2. j \in H /\ ~(j <= j - 1)
    BY <1>5, <1>6
  <2> QED
    BY <2>1, <2>2
<1>8. Cardinality(Below(j)) = Cardinality(Below(j - 1)) + 1
  <2> HIDE DEF Below
  <2> QED
    BY <1>1, <1>7, FS_AddElement
<1>9. Cardinality(Below(j)) = n
  <2> DEFINE a == Cardinality(Below(j))
             b == Cardinality(Below(j - 1))
  <2>1. a \in Nat /\ b \in Nat
    BY <1>1
  <2> HIDE DEF a, b
  <2>2. a = b + 1 /\ n <= a /\ ~(n <= b)
    BY <1>5, <1>8 DEF a, b
  <2>3. a = n
    BY <2>1, <2>2
  <2> QED
    BY <2>3 DEF a
<1> QED
  BY <1>6, <1>9

Nuls(t, i) == {j \in i .. Len(t) : t[j] = Nul}

UpToIndex(S, x) == {k \in S : k <= x}

LEMMA NthNulIs ==
  ASSUME NEW t, Len(t) \in Nat, NEW i \in Nat \ {0}, NEW n \in Nat \ {0}
  PROVE  \/ Cardinality(Nuls(t, i)) < n /\ NthNul(t, i, n) = i
         \/ /\ NthNul(t, i, n) \in Nuls(t, i)
            /\ Cardinality(UpToIndex(Nuls(t, i), NthNul(t, i, n))) = n
<1> USE DEF Nuls, UpToIndex
<1> DEFINE hits == Nuls(t, i)
           Nth(j) == Cardinality(UpToIndex(hits, j)) = n
<1>1. CASE Cardinality(hits) < n
  BY <1>1, Zenon DEF NthNul
<1>2. CASE ~(Cardinality(hits) < n)
  <2>1. NthNul(t, i, n) = CHOOSE j \in hits : Nth(j)
    BY <1>2, Zenon DEF NthNul
  <2>2. \E j \in hits : Nth(j)
    <3>1. hits \in SUBSET (1 .. Len(t))
      OBVIOUS
    <3> HIDE DEF hits
    <3>2. IsFiniteSet(1 .. Len(t))
      BY FS_Interval
    <3>3. Cardinality(hits) \in Nat
      BY <3>1, <3>2, FS_Subset, FS_CardinalityType
    <3>4. n <= Cardinality(hits)
      BY <1>2, <3>3
    <3> QED
      BY <3>1, <3>4, NthExists, ZenonT(60)
  <2>3. NthNul(t, i, n) \in hits /\ Nth(NthNul(t, i, n))
    <3> HIDE DEF hits, Nth
    <3> QED
      BY <2>1, <2>2
  <2> QED
    BY <2>3
<1> QED
  BY <1>1, <1>2

----------------------------------------------------------------------------
(* Strings, each with a NUL behind it. *)
IsCat(ss, n, g) ==
  g = [i \in 0 .. n |-> IF i = 0 THEN <<>> ELSE g[i - 1] \o ss[i] \o <<Nul>>]

LEMMA NulAfterIs ==
  ASSUME NEW ss
  PROVE  NulAfter(ss) = (CHOOSE g : IsCat(ss, Len(ss), g))[Len(ss)]
BY Zenon DEF NulAfter, IsCat

LEMMA OneMoreString ==
  ASSUME NEW t \in Seq(Char), NEW w \in Seq(Char)
  PROVE  t \o w \o <<Nul>> \in Seq(Char)
<1>1. Nul \in Char
  BY DEF Nul, Char
<1>2. <<Nul>> \in Seq(Char)
  BY <1>1, Single
<1>3. t \o w \in Seq(Char)
  BY Join
<1> QED
  BY <1>2, <1>3, Join

LEMMA CatExists ==
  ASSUME NEW ss, NEW n \in Nat
  PROVE  \E g : IsCat(ss, n, g)
<1> DEFINE Good(k) == \E g : IsCat(ss, k, g)
           T == {k \in 0 .. n : ~Good(k)}
<1>1. Good(0)
  <2> DEFINE g == [i \in 0 .. 0 |-> <<>>]
  <2>1. g = [i \in 0 .. 0 |-> IF i = 0 THEN <<>> ELSE g[i - 1] \o ss[i] \o <<Nul>>]
    OBVIOUS
  <2> QED
    BY <2>1 DEF IsCat
<1>2. ASSUME NEW k \in Nat, Good(k) PROVE Good(k + 1)
  <2>1. PICK g : IsCat(ss, k, g)
    BY <1>2
  <2> DEFINE v(f, i) == IF i = 0 THEN <<>> ELSE f[i - 1] \o ss[i] \o <<Nul>>
             h == [i \in 0 .. k + 1 |-> v(g, i)]
  <2>2. \A i \in 0 .. k : g[i] = v(g, i)
    BY <2>1, Zenon DEF IsCat
  <2>3. \A i \in 0 .. k + 1 : h[i] = v(g, i)
    BY Zenon
  <2>4. \A i \in 0 .. k : h[i] = g[i]
    <3> HIDE DEF v, h
    <3>1. 0 .. k \subseteq 0 .. k + 1
      OBVIOUS
    <3> QED
      BY <2>2, <2>3, <3>1
  <2>5. ASSUME NEW i \in 0 .. k + 1 PROVE v(h, i) = v(g, i)
    <3>1. CASE i = 0
      BY <3>1
    <3>2. CASE i # 0
      <4>1. i - 1 \in 0 .. k
        BY <3>2
      <4>2. h[i - 1] = g[i - 1]
        <5> HIDE DEF h
        <5> QED
          BY <2>4, <4>1
      <4> HIDE DEF h
      <4> QED
        BY <4>2, Zenon
    <3> QED
      BY <3>1, <3>2
  <2>6. h = [i \in 0 .. k + 1 |-> v(h, i)]
    <3>1. h = [i \in 0 .. k + 1 |-> h[i]]
      OBVIOUS
    <3> HIDE DEF v, h
    <3> QED
      BY <2>3, <2>5, <3>1
  <2> HIDE DEF h
  <2>7. IsCat(ss, k + 1, h)
    BY <2>6, Zenon DEF IsCat
  <2> QED
    BY <2>7
<1>3. ASSUME T # {} PROVE FALSE
  <2> HIDE DEF Good
  <2>1. T \in SUBSET Nat
    OBVIOUS
  <2>2. PICK k \in T : \A j \in T : k <= j
    <3> HIDE DEF T
    <3> QED
      BY <1>3, <2>1, LeastNat
  <2>3. k \in 0 .. n /\ k # 0 /\ ~Good(k)
    BY <1>1, <2>2
  <2>4. k - 1 \in 0 .. n /\ Good(k - 1) /\ (k - 1) + 1 = k
    <3>1. k - 1 \in 0 .. n /\ ~(k <= k - 1) /\ (k - 1) + 1 = k
      BY <2>3
    <3>2. k - 1 \notin T
      BY <2>2, <3>1
    <3> QED
      BY <3>1, <3>2
  <2>5. Good((k - 1) + 1)
    BY <1>2, <2>4
  <2> QED
    BY <2>3, <2>4, <2>5
<1>4. Good(n)
  <2> HIDE DEF Good
  <2> QED
    BY <1>3
<1> QED
  BY <1>4

(* The parts of such a text, and that it is one. *)
Typed(n, g) == \A i \in 0 .. n : g[i] \in Seq(Char)

Catted(ss, n, g) ==
  /\ g[0] = <<>>
  /\ \A i \in 1 .. n : g[i] = g[i - 1] \o ss[i] \o <<Nul>>
  /\ Typed(n, g)

LEMMA NulAfterFacts ==
  ASSUME NEW ss, Len(ss) \in Nat, \A i \in 1 .. Len(ss) : ss[i] \in Seq(Char)
  PROVE  \E g : Catted(ss, Len(ss), g) /\ NulAfter(ss) = g[Len(ss)]
<1> DEFINE n == Len(ss)
<1>1. \E g : IsCat(ss, n, g)
  BY CatExists
<1>2. PICK g : IsCat(ss, n, g) /\ NulAfter(ss) = g[n]
  BY <1>1, NulAfterIs
<1> HIDE DEF n
<1>3. n \in Nat /\ \A i \in 1 .. n : ss[i] \in Seq(Char)
  BY DEF n
<1>4. \A i \in 0 .. n : g[i] = IF i = 0 THEN <<>> ELSE g[i - 1] \o ss[i] \o <<Nul>>
  BY <1>2, Zenon DEF IsCat
<1>5. g[0] = <<>>
  BY <1>3, <1>4
<1>6. ASSUME NEW i \in 1 .. n PROVE g[i] = g[i - 1] \o ss[i] \o <<Nul>>
  <2>1. i \in 0 .. n /\ i # 0
    BY <1>3
  <2> QED
    BY <1>4, <2>1, Zenon
<1> DEFINE T == {k \in 0 .. n : g[k] \notin Seq(Char)}
<1>7. ASSUME T # {} PROVE FALSE
  <2>1. T \in SUBSET Nat
    BY <1>3
  <2>2. PICK k \in T : \A j \in T : k <= j
    <3> HIDE DEF T
    <3> QED
      BY <1>7, <2>1, LeastNat
  <2>3. k \in 0 .. n /\ g[k] \notin Seq(Char)
    BY <2>2
  <2>4. k # 0
    BY <1>5, <2>3, EmptySeq
  <2>5. k \in 1 .. n /\ k - 1 \in 0 .. n /\ ~(k <= k - 1)
    BY <1>3, <2>3, <2>4
  <2>6. g[k - 1] \in Seq(Char)
    <3>1. k - 1 \notin T
      BY <2>2, <2>5
    <3> QED
      BY <2>5, <3>1
  <2>7. g[k] \in Seq(Char)
    BY <1>3, <1>6, <2>5, <2>6, OneMoreString
  <2> QED
    BY <2>3, <2>7
<1>8. Typed(n, g)
  BY <1>7 DEF Typed
<1>9. Catted(ss, n, g)
  BY <1>5, <1>6, <1>8 DEF Catted
<1> QED
  BY <1>2, <1>9 DEF n

LEMMA NulAfterType ==
  ASSUME NEW ss, Len(ss) \in Nat, \A i \in 1 .. Len(ss) : ss[i] \in Seq(Char)
  PROVE  NulAfter(ss) \in Seq(Char)
<1>1. PICK g : Catted(ss, Len(ss), g) /\ NulAfter(ss) = g[Len(ss)]
  BY NulAfterFacts
<1> QED
  BY <1>1 DEF Catted, Typed

----------------------------------------------------------------------------
(* Errors and results. *)
LEMMA ErrorsAre ==
  /\ FromParse \in ErrorType /\ FromParse.source = "InvalidData"
  /\ \A c \in Contexts : Failure(c) \in ErrorType /\ Failure(c).source = "InvalidData"
  /\ \A c \in Codes : FromOsCode(c) \in ErrorType /\ FromOsCode(c).source = c
  /\ \A c \in Codes : /\ With(FromOsCode(c), "File") \in ErrorType
                      /\ With(FromOsCode(c), "File").source = c
<1>1. FromParse \in ErrorType /\ FromParse.source = "InvalidData"
  BY DEF FromParse, FromIo, ErrorType, Codes, Kinds, Contexts
<1>2. ASSUME NEW e \in ErrorType, NEW c \in Contexts
      PROVE  With(e, c) \in ErrorType /\ With(e, c).source = e.source
  BY DEF With, ErrorType
<1>3. MissingKey \in ErrorType /\ MissingKey.source = "InvalidData"
  BY DEF MissingKey, ErrorType, Kinds, Contexts
<1>4. \A c \in Contexts : Failure(c) \in ErrorType /\ Failure(c).source = "InvalidData"
  BY <1>1, <1>2, <1>3 DEF Failure
<1>5. \A c \in Codes : FromOsCode(c) \in ErrorType /\ FromOsCode(c).source = c
  BY DEF FromOsCode, FromIo, ErrorType, Codes, Contexts
<1>6. "File" \in Contexts
  BY DEF Contexts
<1> QED
  BY <1>1, <1>2, <1>4, <1>5, <1>6

LEMMA ResultsAre ==
  /\ Nothing.kind = "none" /\ Nothing.error = FromParse
  /\ Ok.kind = "Ok" /\ Ok.error = FromParse
  /\ Panic.kind = "Panic" /\ Panic.error = FromParse
  /\ \A e : Err(e).kind = "Err" /\ Err(e).error = e
  /\ Ok # Nothing /\ Panic # Nothing /\ \A e : Err(e) # Nothing
<1>1. Nothing.kind = "none" /\ Nothing.error = FromParse
  BY DEF Nothing
<1>2. Ok.kind = "Ok" /\ Ok.error = FromParse
  BY DEF Ok
<1>3. Panic.kind = "Panic" /\ Panic.error = FromParse
  BY DEF Panic
<1>4. \A e : Err(e).kind = "Err" /\ Err(e).error = e
  BY DEF Err
<1> QED
  BY <1>1, <1>2, <1>3, <1>4

LEMMA OpsAre ==
  /\ DOMAIN Keyed \intersect DOMAIN Columns = {}
  /\ DOMAIN Keyed \intersect Strings = {} /\ DOMAIN Columns \intersect Strings = {}
  /\ "none" \notin Ops
BY KeyedAre, ColumnsAre DEF Strings, Ops

LEMMA StopsAre ==
  ASSUME NEW m \in DOMAIN Keyed
  PROVE  Keyed[m].stopAt \in Nat /\ IsFiniteSet(KeysOf(m))
<1>1. CASE m = "vmstat"
  <2>1. Counts({"pswpin"}, 1)
    BY FS_Singleton DEF Counts
  <2>2. Counts({"pswpin", "pswpout"}, 2)
    BY <2>1, CountsOneMore
  <2> QED
    BY <1>1, <2>2, KeysAre, KeyedAre DEF VmStat, Counts
<1>2. CASE m = "io"
  <2>1. Counts({"rchar"}, 1)
    BY FS_Singleton DEF Counts
  <2>2. Counts({"rchar", "wchar"}, 2)
    BY <2>1, CountsOneMore
  <2>3. Counts({"rchar", "wchar", "syscr"}, 3)
    BY <2>2, CountsOneMore
  <2>4. Counts({"rchar", "wchar", "syscr", "syscw"}, 4)
    BY <2>3, CountsOneMore
  <2>5. Counts({"rchar", "wchar", "syscr", "syscw", "read_bytes"}, 5)
    BY <2>4, CountsOneMore
  <2>6. Counts({"rchar", "wchar", "syscr", "syscw", "read_bytes", "write_bytes"}, 6)
    BY <2>5, CountsOneMore
  <2>7. Counts({"rchar", "wchar", "syscr", "syscw", "read_bytes", "write_bytes",
                "cancelled_write_bytes"}, 7)
    BY <2>6, CountsOneMore
  <2> QED
    BY <1>2, <2>7, KeysAre, KeyedAre DEF IoCounters, Counts
<1>3. CASE m \notin {"vmstat", "io"}
  <2>1. Counts(KeysOf(m), Keyed[m].stopAt)
    BY <1>3, StopsAtLast
  <2> QED
    BY <2>1, FS_CardinalityType DEF Counts
<1> QED
  BY <1>1, <1>2, <1>3

----------------------------------------------------------------------------
(* The inductive invariant.  A parser starts from nothing, ... *)
Unread == /\ pos = 0 /\ ip = 0 /\ matched = 0 /\ stop = 0 /\ left = 0
          /\ args = <<>> /\ envs = <<>>

Phase == /\ pc \in {"idle", "open", "parse", "arguments", "environment"}
         /\ op \in Ops \union {"none"}
         /\ result = Nothing => pc # "idle" \/ op = "none"
         /\ pc # "idle" => result = Nothing /\ op # "none"
         /\ pc = "open" \/ op = "none" => Unread
         /\ pc = "parse" => op \notin Strings
         /\ pc \in {"arguments", "environment"} => op \in Strings

Numbers == /\ pos \in Nat /\ ip \in Nat /\ matched \in Nat
           /\ stop \in Nat /\ left \in 0 .. MaxArgs

(* ... an error of the system comes before anything was read, ... *)
ResultOK == /\ result.kind \in {"none", "Ok", "Err", "Panic"}
            /\ result.kind = "none" => result = Nothing
            /\ result.error \in ErrorType
            /\ \/ result.error.source = "InvalidData"
               \/ result.error.source \in Codes /\ pos = 0 /\ ip = 0

TextOK == /\ text \in Seq(Char)
          /\ op = "proc_args" => Len(given.argv) \in 0 .. MaxArgs
          /\ op \in DOMAIN Columns => /\ given.argv = <<given.argv[1]>>
                                      /\ given.argv[1] \in Seq(Char)
                                      /\ text = Comm(given.argv[1])

FieldsOK == /\ \A f \in DOMAIN fields : fields[f] = {} \/ \E x \in fields[f] : fields[f] = {x}
            /\ op \in DOMAIN Keyed \union DOMAIN Columns => DOMAIN fields = FieldsOf(op)

(* ... the fields that are filled are the ones of the keys in the lines    *)
(* that were read, ...                                                     *)
Read(k, n) == \E i \in 1 .. n : input[i] = Line(k, "num")

Found(n) == {k \in KeysOf(op) : Read(k, n)}

Amiss == \/ \E i \in DOMAIN input : input[i].val # "num"
         \/ \E a \in DOMAIN KeyOf[op] : ~HasValue(KeyOf[op][a])

KeyedState ==
  /\ IsFile(op, input) /\ pos <= Len(input)
  /\ \A k \in KeysOf(op) :
       fields[Keyed[op].field[k]] = IF Read(k, pos) THEN {k} ELSE {}
  /\ matched = Cardinality(Found(pos))

KeyedResult ==
  /\ pc # "idle" => Keyed[op].stopAt = 0 \/ matched < Keyed[op].stopAt
  /\ result.kind = "Ok" => \/ pos = Len(input) /\ Keyed[op].missing = "default"
                           \/ KeysOf(op) = Found(pos)
  /\ result.kind \in {"Err", "Panic"} => Amiss \/ result.error.source \in Codes

KeyedInv == op \in DOMAIN Keyed => KeyedState /\ KeyedResult

(* ... or of the columns that are behind.                                  *)
ColumnsState ==
  /\ Len(input) \in Nat /\ DOMAIN input = 1 .. Len(input)
  /\ ip <= Len(Columns[op]) /\ pos = BeginOf(op, ip + 1)
  /\ \A a \in DOMAIN ColumnOf[op] :
       /\ Get(a) = IF ColumnOf[op][a] <= pos THEN {ColumnOf[op][a]} ELSE {}
       /\ ColumnOf[op][a] <= pos => ColumnOf[op][a] <= Len(input)
  /\ op = "stat" /\ ip >= 2 => args = given.argv

ColumnsResult ==
  /\ result.kind = "Ok" => \/ ip = Len(Columns[op])
                           \/ op = "cpu" /\ pos >= Len(input)
  /\ result.kind \in {"Err", "Panic"} =>
       \/ \E i \in DOMAIN input : input[i] = "bad"
       \/ Len(input) < Width(op)
       \/ result.error.source \in Codes
  /\ result.kind = "Panic" => op = "stat" /\ Len(input) = 2

ColumnsInv == op \in DOMAIN Columns => ColumnsState /\ ColumnsResult

Inv == Phase /\ Numbers /\ ResultOK /\ TextOK /\ FieldsOK /\ KeyedInv /\ ColumnsInv

----------------------------------------------------------------------------
LEMMA FieldsAre ==
  /\ \A m \in DOMAIN Keyed : \A k \in KeysOf(m) : Keyed[m].field[k] \in FieldsOf(m)
  /\ \A m \in DOMAIN Columns : \A i \in 1 .. Len(Columns[m]) : Columns[m][i].f \in FieldsOf(m)
  /\ \A m \in DOMAIN Columns : \A a \in DOMAIN ColumnOf[m] : Accessors[m][a] \in FieldsOf(m)
<1>1. \A m \in DOMAIN Keyed : \A k \in KeysOf(m) : Keyed[m].field[k] \in FieldsOf(m)
  BY DEF FieldsOf, KeysOf
<1>2. ASSUME NEW m \in DOMAIN Columns, NEW i \in 1 .. Len(Columns[m])
      PROVE  Columns[m][i].f \in FieldsOf(m)
  <2>1. m \notin DOMAIN Keyed /\ i \in DOMAIN Columns[m]
    BY OpsAre, ProgramsOK DEF ProgramOK
  <2> QED
    BY <2>1 DEF FieldsOf
<1>3. ASSUME NEW m \in DOMAIN Columns, NEW a \in DOMAIN ColumnOf[m]
      PROVE  Accessors[m][a] \in FieldsOf(m)
  <2>1. AccessorOK(m, a)
    BY ProgramsOK DEF ProgramOK
  <2> QED
    BY <1>2, <2>1 DEF AccessorOK
<1> QED
  BY <1>1, <1>2, <1>3

(* A column that is documented is a number from 1 on. *)
LEMMA ColumnsAreNumbers ==
  ASSUME NEW m \in DOMAIN Columns, NEW a \in DOMAIN ColumnOf[m]
  PROVE  ColumnOf[m][a] \in Nat \ {0}
<1>1. AccessorOK(m, a) /\ Len(Columns[m]) \in Nat
  BY ProgramsOK DEF ProgramOK
<1>2. PICK i \in 1 .. Len(Columns[m]) : ColumnOf[m][a] = BeginOf(m, i) + 1
  BY <1>1 DEF AccessorOK
<1>3. i \in Nat \ {0}
  BY <1>1
<1>4. BeginOf(m, i) \in Nat
  BY <1>3, BeginIncreases
<1> QED
  BY <1>2, <1>4

LEMMA InitInv == Init => Inv
<1> SUFFICES ASSUME Init PROVE Inv
  OBVIOUS
<1>1. op \notin DOMAIN Keyed /\ op \notin DOMAIN Columns /\ op \notin Strings
  BY OpsAre DEF Init, Ops
<1>2. Phase
  BY <1>1 DEF Init, Phase, Unread
<1>3. Numbers
  <2>1. MaxArgs \in Nat
    BY ParserAssumption, Zenon
  <2> QED
    BY <2>1 DEF Init, Numbers
<1>4. ResultOK
  BY ResultsAre, ErrorsAre DEF Init, ResultOK
<1>5. TextOK
  <2>1. text \in Seq(Char) /\ op # "proc_args"
    BY EmptySeq DEF Init
  <2> QED
    BY <1>1, <2>1 DEF TextOK
<1>6. FieldsOK
  BY <1>1 DEF Init, FieldsOK
<1> QED
  BY <1>1, <1>2, <1>3, <1>4, <1>5, <1>6 DEF Inv, KeyedInv, ColumnsInv

(* What a call may start from. *)
Startable(m, in, txt, g) ==
  /\ m \in Ops /\ txt \in Seq(Char)
  /\ m = "proc_args" => Len(g.argv) \in 0 .. MaxArgs
  /\ m \in DOMAIN Columns => /\ g.argv = <<g.argv[1]>> /\ g.argv[1] \in Seq(Char)
                             /\ txt = Comm(g.argv[1])
                             /\ Len(in) \in Nat /\ DOMAIN in = 1 .. Len(in)
  /\ m \in DOMAIN Keyed => IsFile(m, in)

LEMMA StartInv ==
  ASSUME Inv, Fresh, NEW m, NEW in, NEW txt, NEW g, Startable(m, in, txt, g),
         Start(m, in, txt, g)
  PROVE  Inv'
<1>1. op = "none" /\ Unread
  BY DEF Inv, Phase, Fresh
<1>2. /\ pc' = "open" /\ op' = m /\ input' = in /\ text' = txt /\ given' = g
      /\ result' = Nothing /\ Unread' /\ UNCHANGED <<pos, ip, matched, stop, left, args, envs>>
  BY <1>1 DEF Start, Fresh, Unread
<1>3. m # "none" /\ m \in Ops
  BY OpsAre DEF Startable
<1>4. Phase'
  BY <1>2, <1>3 DEF Phase
<1>5. Numbers'
  BY <1>2 DEF Inv, Numbers
<1>6. ResultOK'
  BY <1>2, ResultsAre, ErrorsAre DEF ResultOK
<1>7. TextOK'
  BY <1>2, Zenon DEF TextOK, Startable
<1>8. /\ DOMAIN fields' = IF m \in Strings THEN {} ELSE FieldsOf(m)
      /\ \A f \in DOMAIN fields' : fields'[f] = {}
  BY DEF Start
<1>9. FieldsOK'
  BY <1>2, <1>8, OpsAre DEF FieldsOK
<1>10. KeyedInv'
  <2> SUFFICES ASSUME m \in DOMAIN Keyed PROVE KeyedInv'
    BY <1>2 DEF KeyedInv
  <2>1. IsFile(m, in) /\ Len(in) \in Nat
    BY LenProperties DEF Startable, IsFile
  <2>2. \A k : Read(k, 0)' = FALSE
    BY DEF Read
  <2>3. Found(0)' = {}
    BY <2>2 DEF Found
  <2>4. pos' = 0 /\ matched' = 0
    BY <1>2 DEF Unread
  <2>5. ASSUME NEW k \in KeysOf(m) PROVE fields'[Keyed[m].field[k]] = {}
    BY <1>8, <2>5, FieldsAre, OpsAre
  <2>6. matched' = Cardinality(Found(pos)')
    <3>1. Found(pos)' = {}
      BY <2>3, <2>4 DEF Found, Read
    <3> QED
      BY <2>4, <3>1, FS_EmptySet
  <2>7. Keyed[m].stopAt \in Nat
    BY StopsAre
  <2>8. \A k : Read(k, pos)' = FALSE
    BY <2>4 DEF Read
  <2>9. IsFile(op, input)' /\ pos' <= Len(input')
    BY <1>2, <2>1, <2>4 DEF IsFile
  <2>10. (Keyed[op].stopAt = 0 \/ matched < Keyed[op].stopAt)'
    BY <1>2, <2>4, <2>7
  <2>11. result'.kind = "none"
    BY <1>2, ResultsAre
  <2>12. \A k \in KeysOf(op)' :
           fields'[Keyed[op'].field[k]] = IF Read(k, pos)' THEN {k} ELSE {}
    BY <1>2, <2>5, <2>8 DEF KeysOf
  <2> QED
    BY <2>6, <2>9, <2>10, <2>11, <2>12 DEF KeyedInv, KeyedState, KeyedResult
<1>11. ColumnsInv'
  <2> SUFFICES ASSUME m \in DOMAIN Columns PROVE ColumnsInv'
    BY <1>2 DEF ColumnsInv
  <2>1. Len(in) \in Nat /\ DOMAIN in = 1 .. Len(in)
    BY DEF Startable
  <2>2. pos' = 0 /\ ip' = 0
    BY <1>2 DEF Unread
  <2>3. pos' = BeginOf(op, ip + 1)'
    BY <2>2 DEF BeginOf
  <2>4. ip' <= Len(Columns[op'])
    BY <1>2, <2>2, ProgramsOK DEF ProgramOK
  <2>5. ASSUME NEW a \in DOMAIN ColumnOf[m]
        PROVE  fields'[Accessors[m][a]] = {} /\ ~(ColumnOf[m][a] <= 0)
    BY <1>8, <2>5, FieldsAre, OpsAre, ColumnsAreNumbers
  <2>6. result'.kind = "none"
    BY <1>2, ResultsAre
  <2>7. ~(ip' >= 2)
    BY <2>2
  <2> QED
    BY <1>2, <2>1, <2>2, <2>3, <2>4, <2>5, <2>6, <2>7
       DEF ColumnsInv, ColumnsState, ColumnsResult, Get
<1> QED
  BY <1>4, <1>5, <1>6, <1>7, <1>9, <1>10, <1>11 DEF Inv

----------------------------------------------------------------------------
(* How the calls begin. *)
LEMMA Wider ==
  ASSUME NEW A, NEW B, A \subseteq B, NEW s \in Seq(A)
  PROVE  s \in Seq(B)
<1>1. Len(s) \in Nat /\ s \in [1 .. Len(s) -> A]
  BY LenProperties
<1>2. s \in [1 .. Len(s) -> B]
  BY <1>1
<1> QED
  BY <1>1, <1>2, SeqDef

LEMMA WordsAre ==
  /\ \A w \in Words : w \in Seq(Char)
  /\ \A w \in Entries : w \in Seq(Char)
<1> DEFINE A == {"a", " ", "=", ")"}
<1>1. A \subseteq Char
  BY DEF Char
<1>2. Words \subseteq Seq(A) /\ Entries \subseteq Seq(A)
  BY ParserAssumption, Zenon
<1> HIDE DEF A
<1> QED
  BY <1>1, <1>2, Wider

LEMMA UpToIs ==
  ASSUME NEW S, \A w \in S : w \in Seq(Char), NEW a \in UpTo(S)
  PROVE  /\ Len(a) \in 0 .. MaxArgs /\ MaxArgs \in Nat
         /\ \A i \in 1 .. Len(a) : a[i] \in S /\ a[i] \in Seq(Char)
         /\ a \in Seq(S) /\ NulAfter(a) \in Seq(Char)
<1>1. PICK n \in 0 .. MaxArgs : a \in [1 .. n -> S]
  BY DEF UpTo
<1>2. MaxArgs \in Nat
  BY ParserAssumption, Zenon
<1>3. n \in Nat
  BY <1>2
<1>4. a \in Seq(S) /\ Len(a) = n
  BY <1>1, <1>3, SeqDef, LenProperties
<1>5. \A i \in 1 .. Len(a) : a[i] \in S /\ a[i] \in Seq(Char)
  BY <1>1, <1>4
<1>6. NulAfter(a) \in Seq(Char)
  BY <1>3, <1>4, <1>5, NulAfterType
<1> QED
  BY <1>2, <1>4, <1>5, <1>6

LEMMA BeginKeyedInv ==
  ASSUME Inv, BeginKeyed
  PROVE  Inv'
<1>a. PICK m \in DOMAIN Keyed :
             \E n \in {0, Len(KernelOrder(m))}, gone \in SUBSET (1 .. Len(KernelOrder(m))),
                d \in 0 .. Len(KernelOrder(m)), v \in {"bad", "none"},
                head \in {<<>>, <<Line("short", "none")>>} :
                  Start(m, head \o Lines(m, n, gone, d, v), <<>>, NotGiven)
  BY Zenon DEF BeginKeyed
<1>1. PICK n \in {0, Len(KernelOrder(m))}, gone \in SUBSET (1 .. Len(KernelOrder(m))),
           d \in 0 .. Len(KernelOrder(m)), v \in {"bad", "none"},
           head \in {<<>>, <<Line("short", "none")>>} :
             Start(m, head \o Lines(m, n, gone, d, v), <<>>, NotGiven)
  BY <1>a, Zenon
<1>2. IsFile(m, head \o Lines(m, n, gone, d, v))
  BY FilesAreFiles
<1>3. m \in Ops /\ m \notin DOMAIN Columns /\ m # "proc_args"
  BY OpsAre DEF Ops, Strings
<1>4. <<>> \in Seq(Char)
  BY EmptySeq
<1>5. Startable(m, head \o Lines(m, n, gone, d, v), <<>>, NotGiven)
  BY <1>2, <1>3, <1>4, Zenon DEF Startable
<1>6. Fresh
  BY DEF BeginKeyed
<1> QED
  BY <1>1, <1>5, <1>6, StartInv

LEMMA RowIs ==
  ASSUME NEW n \in Nat, NEW d
  PROVE  Len(Row(n, d)) = n /\ DOMAIN Row(n, d) = 1 .. n
<1>1. Row(n, d) \in [1 .. n -> {"bad", "num"}]
  BY DEF Row
<1>2. Row(n, d) \in Seq({"bad", "num"})
  BY <1>1, SeqDef
<1> QED
  BY <1>1, <1>2, LenProperties

LEMMA BeginColumnsInv ==
  ASSUME Inv, BeginColumns
  PROVE  Inv'
<1>a. PICK m \in DOMAIN Columns : \E n, d \in 0 .. Width(m) + 1 :
             \E w \in IF m = "stat" /\ n > Width(m) THEN Words ELSE {<<>>} :
               Start(m, Row(n, d), Comm(w), [argv |-> <<w>>, env |-> <<>>])
  BY Zenon DEF BeginColumns
<1>b. PICK n \in 0 .. Width(m) + 1, d \in 0 .. Width(m) + 1 :
             \E w \in IF m = "stat" /\ n > Width(m) THEN Words ELSE {<<>>} :
               Start(m, Row(n, d), Comm(w), [argv |-> <<w>>, env |-> <<>>])
  BY <1>a, Zenon
<1>1. PICK w \in IF m = "stat" /\ n > Width(m) THEN Words ELSE {<<>>} :
             Start(m, Row(n, d), Comm(w), [argv |-> <<w>>, env |-> <<>>])
  BY <1>b, Zenon
<1>2. w \in Seq(Char)
  BY <1>1, WordsAre, EmptySeq
<1>3. n \in Nat
  BY <1>1
<1>4. Len(Row(n, d)) \in Nat /\ DOMAIN Row(n, d) = 1 .. Len(Row(n, d))
  BY <1>3, RowIs
<1> DEFINE g == [argv |-> <<w>>, env |-> <<>>]
<1>5. g.argv = <<w>>
  BY Zenon
<1>6. <<w>>[1] = w
  OBVIOUS
<1> HIDE DEF g
<1>7. g.argv = <<g.argv[1]>> /\ g.argv[1] \in Seq(Char) /\ Comm(w) = Comm(g.argv[1])
  <2>1. g.argv[1] = w
    BY <1>5, <1>6
  <2> QED
    BY <1>2, <1>5, <2>1
<1>8. m \in Ops /\ m \notin DOMAIN Keyed /\ m # "proc_args"
  BY OpsAre DEF Ops, Strings
<1>9. Comm(w) \in Seq(Char)
  BY <1>2, CommIs
<1>10. Startable(m, Row(n, d), Comm(w), g)
  BY <1>4, <1>7, <1>8, <1>9, Zenon DEF Startable
<1>11. Fresh /\ Start(m, Row(n, d), Comm(w), g)
  BY <1>1 DEF BeginColumns, g
<1> QED
  BY <1>10, <1>11, StartInv

LEMMA StringsAre == /\ Strings \subseteq Ops
                    /\ \A m \in Strings : m \notin DOMAIN Keyed /\ m \notin DOMAIN Columns
BY OpsAre DEF Ops

LEMMA BeginCommandInv ==
  ASSUME Inv, BeginCommand
  PROVE  Inv'
<1>1. PICK a \in UpTo(Words) :
             Start("command", <<>>, NulAfter(a), [argv |-> a, env |-> <<>>])
  BY DEF BeginCommand
<1> DEFINE g == [argv |-> a, env |-> <<>>]
<1> HIDE DEF g
<1>2. NulAfter(a) \in Seq(Char)
  BY UpToIs, WordsAre
<1>3. "command" \in Strings
  BY DEF Strings
<1>4. Startable("command", <<>>, NulAfter(a), g)
  BY <1>2, <1>3, StringsAre DEF Startable
<1>5. Fresh /\ Start("command", <<>>, NulAfter(a), g)
  BY <1>1 DEF BeginCommand, g
<1> QED
  BY <1>4, <1>5, StartInv

LEMMA BeginTitleInv ==
  ASSUME Inv, BeginTitle
  PROVE  Inv'
<1>1. PICK a \in UpTo(Words), w \in Words \ {<<>>} :
             Start("command", <<"title">>, NulAfter(a) \o w,
                   [argv |-> Append(a, w), env |-> <<>>])
  BY DEF BeginTitle
<1> DEFINE g == [argv |-> Append(a, w), env |-> <<>>]
<1> HIDE DEF g
<1>2. NulAfter(a) \in Seq(Char)
  BY UpToIs, WordsAre
<1>3. "command" \in Strings
  BY DEF Strings
<1>4. NulAfter(a) \o w \in Seq(Char)
  BY <1>2, WordsAre, Join
<1>5. Startable("command", <<"title">>, NulAfter(a) \o w, g)
  BY <1>3, <1>4, StringsAre DEF Startable
<1>6. Fresh /\ Start("command", <<"title">>, NulAfter(a) \o w, g)
  BY <1>1 DEF BeginTitle, g
<1> QED
  BY <1>5, <1>6, StartInv

LEMMA BeginEnvironmentInv ==
  ASSUME Inv, BeginEnvironment
  PROVE  Inv'
<1>1. PICK e \in UpTo(Entries) :
             Start("environment", <<>>, NulAfter(e), [argv |-> <<>>, env |-> e])
  BY DEF BeginEnvironment
<1> DEFINE g == [argv |-> <<>>, env |-> e]
<1> HIDE DEF g
<1>2. NulAfter(e) \in Seq(Char)
  BY UpToIs, WordsAre
<1>3. "environment" \in Strings
  BY DEF Strings
<1>4. Startable("environment", <<>>, NulAfter(e), g)
  BY <1>2, <1>3, StringsAre DEF Startable
<1>5. Fresh /\ Start("environment", <<>>, NulAfter(e), g)
  BY <1>1 DEF BeginEnvironment, g
<1> QED
  BY <1>4, <1>5, StartInv

LEMMA BeginProcArgsInv ==
  ASSUME Inv, BeginProcArgs
  PROVE  Inv'
<1>1. PICK a \in UpTo(Words), e \in UpTo(Entries), pad \in 1 .. 2 :
             Start("proc_args", <<>>,
                   <<"a">> \o [i \in 1 .. pad |-> Nul]
                     \o NulAfter(a) \o NulAfter(e) \o <<Nul, Nul>>,
                   [argv |-> a, env |-> e])
  BY DEF BeginProcArgs
<1> DEFINE exe == <<"a">>
           nuls == [i \in 1 .. pad |-> Nul]
           end == <<Nul, Nul>>
           txt == exe \o nuls \o NulAfter(a) \o NulAfter(e) \o end
           g == [argv |-> a, env |-> e]
<1>2. "a" \in Char /\ Nul \in Char
  BY DEF Char, Nul
<1>3. exe \in Seq(Char)
  BY <1>2, Single
<1>4. nuls \in Seq(Char)
  <2>1. nuls \in [1 .. pad -> Char] /\ pad \in Nat
    BY <1>2
  <2> HIDE DEF nuls
  <2> QED
    BY <2>1, SeqDef
<1>5. end \in Seq(Char)
  BY <1>2
<1> HIDE DEF exe, nuls, end
<1>6. NulAfter(a) \in Seq(Char) /\ NulAfter(e) \in Seq(Char) /\ Len(a) \in 0 .. MaxArgs
  BY UpToIs, WordsAre
<1>7. txt \in Seq(Char)
  <2>1. exe \o nuls \in Seq(Char)
    BY <1>3, <1>4, Join
  <2>2. exe \o nuls \o NulAfter(a) \in Seq(Char)
    BY <1>6, <2>1, Join
  <2>3. exe \o nuls \o NulAfter(a) \o NulAfter(e) \in Seq(Char)
    BY <1>6, <2>2, Join
  <2> QED
    BY <1>5, <2>3, Join
<1>8. g.argv = a
  OBVIOUS
<1>9. Fresh /\ Start("proc_args", <<>>, txt, g)
  BY <1>1, Zenon DEF BeginProcArgs, txt, g, exe, nuls, end
<1> HIDE DEF txt, g
<1>10. "proc_args" \in Strings
  BY DEF Strings
<1>11. Startable("proc_args", <<>>, txt, g)
  BY <1>6, <1>7, <1>8, <1>10, StringsAre DEF Startable
<1> QED
  BY <1>9, <1>11, StartInv

----------------------------------------------------------------------------
(* Opening a file, and what the parsers of keys do with it. *)
LEMMA SameState ==
  ASSUME UNCHANGED <<op, input, pos, ip, fields, matched, args, text, given>>
  PROVE  /\ KeyedState' = KeyedState /\ ColumnsState' = ColumnsState
         /\ TextOK' = TextOK /\ FieldsOK' = FieldsOK
<1>1. KeyedState' = KeyedState
  BY DEF KeyedState, Found, Read, IsFile
<1>2. ColumnsState' = ColumnsState
  BY DEF ColumnsState, Get
<1>3. TextOK' = TextOK /\ FieldsOK' = FieldsOK
  BY DEF TextOK, FieldsOK
<1> QED
  BY <1>1, <1>2, <1>3

LEMMA OpenInv ==
  ASSUME Inv, Open
  PROVE  Inv'
<1>1. /\ pc = "open" /\ op \notin Strings /\ op # "none" /\ result = Nothing
      /\ pos = 0 /\ ip = 0 /\ op \in Ops
  BY DEF Open, Inv, Phase, Unread
<1>2. UNCHANGED <<op, input, pos, ip, fields, matched, args, text, given>>
  BY DEF Open, Same
<1>3. UNCHANGED <<stop, left, envs>>
  BY DEF Open, Same
<1>4. \/ pc' = "parse" /\ result' = Nothing
      \/ pc' = "idle" /\ \E e \in ErrorType : e.source \in Codes /\ result' = Err(e)
  <2>1. CASE pc' = "parse" /\ UNCHANGED result
    BY <1>1, <2>1
  <2>2. CASE \E code \in Codes : Done(Err(IF op = "net" THEN With(FromOsCode(code), "File")
                                          ELSE FromOsCode(code)))
    BY <2>2, ErrorsAre DEF Done
  <2> QED
    BY <2>1, <2>2 DEF Open
<1>5. result'.kind \in {"none", "Err"} /\ (result'.kind = "Err" => result'.error.source \in Codes)
      /\ (pc' = "idle" => result'.kind = "Err")
  BY <1>4, ResultsAre
<1>6. Phase'
  BY <1>1, <1>2, <1>4, ResultsAre DEF Phase
<1>7. Numbers'
  BY <1>2, <1>3 DEF Inv, Numbers
<1>8. ResultOK'
  <2>1. CASE pc' = "parse" /\ result' = Nothing
    BY <1>1, <1>2, <2>1 DEF Inv, ResultOK
  <2>2. CASE \E e \in ErrorType : e.source \in Codes /\ result' = Err(e)
    BY <1>1, <1>2, <2>2, ResultsAre DEF ResultOK
  <2> QED
    BY <1>4, <2>1, <2>2
<1>9. TextOK' /\ FieldsOK'
  BY <1>2, SameState DEF Inv
<1>10. KeyedInv'
  <2> SUFFICES ASSUME op \in DOMAIN Keyed PROVE KeyedState' /\ KeyedResult'
    BY <1>2 DEF KeyedInv
  <2>1. KeyedState /\ KeyedResult
    BY DEF Inv, KeyedInv
  <2>2. KeyedState'
    BY <1>2, <2>1, SameState
  <2>3. (pc # "idle" => Keyed[op].stopAt = 0 \/ matched < Keyed[op].stopAt)'
    BY <1>1, <1>2, <2>1 DEF KeyedResult
  <2>4. result'.kind # "Ok" /\ (result'.kind \in {"Err", "Panic"} => result'.error.source \in Codes)
    BY <1>5
  <2> QED
    BY <2>2, <2>3, <2>4 DEF KeyedResult
<1>11. ColumnsInv'
  <2> SUFFICES ASSUME op \in DOMAIN Columns PROVE ColumnsState' /\ ColumnsResult'
    BY <1>2 DEF ColumnsInv
  <2>1. ColumnsState'
    BY <1>2, SameState DEF Inv, ColumnsInv
  <2>2. /\ result'.kind \notin {"Ok", "Panic"}
        /\ result'.kind = "Err" => result'.error.source \in Codes
    BY <1>5
  <2> QED
    BY <2>1, <2>2 DEF ColumnsResult
<1> QED
  BY <1>6, <1>7, <1>8, <1>9, <1>10, <1>11 DEF Inv

LEMMA EndOfLinesInv ==
  ASSUME Inv, EndOfLines
  PROVE  Inv'
<1> DEFINE p == Keyed[op]
<1>1. /\ pc = "parse" /\ op \in DOMAIN Keyed /\ pos = Len(input) /\ op # "none"
      /\ pc' = "idle" /\ op \notin Strings /\ op \notin DOMAIN Columns
      /\ result' = IF p.missing = "default" THEN Ok ELSE Err(Failure(p.missing))
  BY OpsAre DEF EndOfLines, Inv, Phase, Done
<1>2. UNCHANGED <<op, input, pos, ip, fields, matched, args, text, given>>
  BY DEF EndOfLines, Same
<1>3. UNCHANGED <<stop, left, envs>>
  BY DEF EndOfLines, Same
<1>4. p.missing \in Contexts \/ p.missing = "default"
  BY <1>1, KeyedFacts DEF Contexts
<1>5. /\ result'.kind = IF p.missing = "default" THEN "Ok" ELSE "Err"
      /\ result'.error \in ErrorType /\ result'.error.source = "InvalidData"
      /\ result' # Nothing
  BY <1>1, <1>4, ResultsAre, ErrorsAre
<1> HIDE DEF p
<1>6. Phase'
  BY <1>1, <1>2, <1>5 DEF Inv, Phase
<1>7. Numbers'
  BY <1>2, <1>3 DEF Inv, Numbers
<1>8. ResultOK'
  BY <1>5 DEF ResultOK
<1>9. TextOK' /\ FieldsOK'
  BY <1>2, SameState DEF Inv
<1>10. KeyedState /\ KeyedResult
  BY <1>1 DEF Inv, KeyedInv
<1>11. KeyedState'
  BY <1>2, <1>10, SameState
<1>12. p.missing # "default" => Amiss
  <2> SUFFICES ASSUME p.missing # "default" PROVE Amiss
    OBVIOUS
  <2>1. op \in {"swap", "memory", "boot_time"}
    BY <1>1, KeyedFacts DEF p
  <2>2. Counts(KeysOf(op), p.stopAt) /\ p.stopAt # 0 /\ p.stopAt \in Nat
    BY <1>1, <2>1, StopsAtLast, KeyedFacts, StopsAre DEF p
  <2>3. Cardinality(Found(pos)) < Cardinality(KeysOf(op))
    BY <1>1, <1>10, <2>2 DEF KeyedResult, KeyedState, Counts, p
  <2>4. PICK k \in KeysOf(op) : k \notin Found(pos)
    <3>1. Cardinality(KeysOf(op)) \in Nat
      BY <2>2 DEF Counts
    <3>2. KeysOf(op) # Found(pos)
      BY <2>3, <3>1
    <3> QED
      BY <3>2 DEF Found
  <2>5. ~HasValue(k)
    <3>1. DOMAIN input = 1 .. Len(input)
      BY <1>10 DEF KeyedState, IsFile
    <3> QED
      BY <1>1, <2>4, <3>1 DEF Found, Read, HasValue
  <2>6. PICK a \in DOMAIN KeyOf[op] : KeyOf[op][a] = k
    BY <1>1, AccessorsFit
  <2> QED
    BY <2>5, <2>6 DEF Amiss
<1>13. Amiss' = Amiss
  BY <1>2 DEF Amiss, HasValue
<1>14. KeyedResult'
  <2>1. (pos = Len(input))' /\ Keyed[op'].missing = p.missing
    BY <1>1, <1>2 DEF p
  <2> QED
    BY <1>1, <1>5, <1>12, <1>13, <2>1 DEF KeyedResult
<1> QED
  BY <1>1, <1>2, <1>6, <1>7, <1>8, <1>9, <1>11, <1>14 DEF Inv, KeyedInv, ColumnsInv

LEMMA ReadNext ==
  ASSUME NEW m, IsFile(m, input), NEW n \in Nat, n < Len(input), NEW k
  PROVE  Read(k, n + 1) <=> Read(k, n) \/ (input[n + 1].key = k /\ input[n + 1].val = "num")
<1>1. input \in Seq(LineType(m)) /\ Len(input) \in Nat
  BY LenProperties DEF IsFile
<1>2. n + 1 \in 1 .. Len(input)
  BY <1>1
<1>3. input[n + 1] \in LineType(m)
  BY <1>1, <1>2, ElementOfSeq
<1>4. input[n + 1] = Line(k, "num") <=> input[n + 1].key = k /\ input[n + 1].val = "num"
  <2> DEFINE l == input[n + 1]
  <2> HIDE DEF l
  <2>1. l \in LineType(m)
    BY <1>3 DEF l
  <2>2. l = Line(k, "num") <=> l.key = k /\ l.val = "num"
    BY <2>1 DEF LineType, Line
  <2> QED
    BY <2>2 DEF l
<1>5. \A i : i \in 1 .. n + 1 <=> i \in 1 .. n \/ i = n + 1
  OBVIOUS
<1> QED
  BY <1>4, <1>5 DEF Read

(* A line that gives no value changes nothing. *)
LEMMA PassedBy ==
  ASSUME op \in DOMAIN Keyed, KeyedState, pos \in Nat, pos < Len(input), pos' = pos + 1,
         UNCHANGED <<op, input, fields, matched>>,
         ~(input[pos + 1].key \in KeysOf(op) /\ input[pos + 1].val = "num")
  PROVE  KeyedState' /\ Found(pos)' = Found(pos)
<1>1. IsFile(op, input) /\ Len(input) \in Nat
  BY LenProperties DEF KeyedState, IsFile
<1>2. ASSUME NEW k \in KeysOf(op) PROVE Read(k, pos + 1) <=> Read(k, pos)
  BY <1>1, <1>2, ReadNext
<1>3. \A k \in KeysOf(op) : Read(k, pos)' <=> Read(k, pos)
  <2>1. \A k : Read(k, pos)' <=> Read(k, pos + 1)
    BY DEF Read
  <2> QED
    BY <1>2, <2>1
<1>4. Found(pos)' = Found(pos)
  BY <1>3 DEF Found
<1>5. (\A k \in KeysOf(op) :
         fields[Keyed[op].field[k]] = IF Read(k, pos) THEN {k} ELSE {})'
  BY <1>3 DEF KeyedState
<1>6. IsFile(op, input)' /\ pos' <= Len(input')
  <2>1. pos + 1 <= Len(input)
    BY <1>1
  <2> QED
    BY <1>1, <2>1 DEF IsFile
<1>7. matched' = Cardinality(Found(pos)')
  BY <1>4 DEF KeyedState
<1> QED
  BY <1>4, <1>5, <1>6, <1>7 DEF KeyedState

(* A line that does fills one field, for the first time. *)
LEMMA TakenIn ==
  ASSUME op \in DOMAIN Keyed, KeyedState, pos \in Nat, pos < Len(input), pos' = pos + 1,
         UNCHANGED <<op, input>>, DOMAIN fields = FieldsOf(op),
         NEW key \in KeysOf(op), input[pos + 1].key = key, input[pos + 1].val = "num",
         fields' = [fields EXCEPT ![Keyed[op].field[key]] = {key}],
         matched' = matched + 1
  PROVE  KeyedState' /\ Found(pos)' = Found(pos) \union {key} /\ matched' \in Nat \ {0}
<1>1. IsFile(op, input) /\ Len(input) \in Nat
  BY LenProperties DEF KeyedState, IsFile
<1>2. \A k : Read(k, pos + 1) <=> Read(k, pos) \/ k = key
  BY <1>1, ReadNext
<1>3. \A k : Read(k, pos)' <=> Read(k, pos) \/ k = key
  <2>1. \A k : Read(k, pos)' <=> Read(k, pos + 1)
    BY DEF Read
  <2> QED
    BY <1>2, <2>1
<1>4. Found(pos)' = Found(pos) \union {key}
  BY <1>3 DEF Found
<1>5. ~Read(key, pos)
  <2> SUFFICES ASSUME NEW i \in 1 .. pos, input[i] = Line(key, "num") PROVE FALSE
    BY DEF Read
  <2>1. input[i].key = key
    BY DEF Line
  <2>2. key # "Other"
    BY KeyedFacts
  <2>3. i \in 1 .. Len(input) /\ pos + 1 \in 1 .. Len(input) /\ i # pos + 1
    BY <1>1
  <2> QED
    BY <1>1, <2>1, <2>2, <2>3 DEF IsFile
<1>6. IsFiniteSet(Found(pos))
  BY StopsAre, FS_Subset DEF Found
<1>7. matched' = Cardinality(Found(pos)') /\ matched' \in Nat \ {0}
  <2>1. key \notin Found(pos)
    BY <1>5 DEF Found
  <2>2. Cardinality(Found(pos) \union {key}) = Cardinality(Found(pos)) + 1
    BY <1>6, <2>1, FS_AddElement
  <2>3. Cardinality(Found(pos)) \in Nat
    BY <1>6, FS_CardinalityType
  <2>4. matched = Cardinality(Found(pos))
    BY DEF KeyedState
  <2>5. matched + 1 \in Nat \ {0}
    BY <2>3, <2>4
  <2>6. Cardinality(Found(pos)') = matched + 1
    BY <1>4, <2>2, <2>4
  <2> QED
    BY <2>5, <2>6
<1>8. ASSUME NEW k \in KeysOf(op)
      PROVE  fields'[Keyed[op].field[k]] = IF Read(k, pos)' THEN {k} ELSE {}
  <2>1. Keyed[op].field[k] \in DOMAIN fields
    BY FieldsAre
  <2>2. CASE k = key
    BY <1>3, <2>1, <2>2
  <2>3. CASE k # key
    <3>1. Keyed[op].field[k] # Keyed[op].field[key]
      BY <2>3, FieldsDiffer
    <3>2. fields'[Keyed[op].field[k]] = fields[Keyed[op].field[k]]
      BY <2>1, <3>1
    <3> QED
      BY <1>3, <2>3, <3>2 DEF KeyedState
  <2> QED
    BY <2>2, <2>3
<1>9. IsFile(op, input)' /\ pos' <= Len(input')
  <2>1. pos + 1 <= Len(input)
    BY <1>1
  <2> QED
    BY <1>1, <2>1 DEF IsFile
<1> QED
  BY <1>4, <1>7, <1>8, <1>9 DEF KeyedState

LEMMA NextLineInv ==
  ASSUME Inv, NextLine
  PROVE  Inv'
<1> DEFINE p == Keyed[op]
           line == input[pos + 1]
           known == line.key \in DOMAIN p.field
           Fails(r) == Done(r) /\ UNCHANGED <<fields, matched>>
           Passes == UNCHANGED <<pc, result, fields, matched>>
<1>1. /\ pc = "parse" /\ op \in DOMAIN Keyed /\ pos < Len(input) /\ op # "none"
      /\ pos' = pos + 1 /\ pos \in Nat
      /\ op \notin Strings /\ op \notin DOMAIN Columns /\ result = Nothing
  BY OpsAre DEF NextLine, Inv, Phase, Numbers
<1>2. UNCHANGED <<op, input, ip, args, text, given>> /\ UNCHANGED <<stop, left, envs>>
  BY DEF NextLine, Same
<1>3. \/ line.key = "short" /\ p.short = "panic" /\ Fails(Panic)
      \/ line.key = "short" /\ p.short = "none" /\ Fails(Err(FromParse))
      \/ /\ \/ line.key = "short" /\ p.short = "skip"
            \/ line.key # "short" /\ ~known
            \/ known /\ line.val = "none" /\ p.noValue = "skip"
         /\ Passes
      \/ known /\ line.val = "none" /\ p.noValue # "skip" /\ Fails(Err(Failure(p.noValue)))
      \/ known /\ line.val = "bad" /\ Fails(Err(FromParse))
      \/ /\ known /\ line.val = "num"
         /\ fields' = [fields EXCEPT ![p.field[line.key]] = {line.key}]
         /\ matched' = matched + 1
         /\ IF matched' = p.stopAt THEN Done(Ok) ELSE UNCHANGED <<pc, result>>
  BY Zenon DEF NextLine
<1>4. known <=> line.key \in KeysOf(op)
  BY DEF KeysOf
<1>5. KeyedState /\ KeyedResult /\ IsFile(op, input) /\ Len(input) \in Nat
  BY <1>1, LenProperties DEF Inv, KeyedInv, KeyedState, IsFile
<1>6. pos + 1 \in 1 .. Len(input) /\ DOMAIN input = 1 .. Len(input) /\ pos' \in Nat
  BY <1>1, <1>5 DEF IsFile
<1>7. line.key = "short" => line.val = "none"
  BY <1>5, <1>6 DEF IsFile
<1>8. "short" \notin KeysOf(op) /\ p.noValue \in Contexts \union {"skip"}
  BY <1>1, KeyedFacts DEF Contexts
<1>9. line.val # "num" => Amiss'
  BY <1>2, <1>6 DEF Amiss
<1> HIDE DEF p, line, known
<1>10. TextOK'
  BY <1>2 DEF Inv, TextOK
<1>11. ~ColumnsInv' => FALSE
  BY <1>1, <1>2 DEF ColumnsInv
<1> DEFINE Rejects(r) == /\ Fails(r) /\ line.val # "num"
                         /\ r.kind \in {"Err", "Panic"} /\ r.error \in ErrorType
                         /\ r.error.source = "InvalidData"
<1>12. ASSUME NEW r, Rejects(r) PROVE Inv'
  <2>1. Fails(r) /\ line.val # "num"
    BY <1>12
  <2>2. r.kind \in {"Err", "Panic"} /\ r.error \in ErrorType /\ r.error.source = "InvalidData"
    BY <1>12
  <2>3. pc' = "idle" /\ result' = r /\ UNCHANGED <<fields, matched>> /\ r # Nothing
    BY <2>1, <2>2, ResultsAre DEF Done
  <2>4. KeyedState'
    BY <1>1, <1>2, <1>5, <2>1, <2>3, PassedBy DEF line
  <2>5. KeyedResult'
    BY <1>9, <2>1, <2>2, <2>3 DEF KeyedResult
  <2>6. Phase'
    BY <1>1, <1>2, <2>3 DEF Inv, Phase
  <2>7. Numbers'
    BY <1>2, <1>6, <2>3 DEF Inv, Numbers
  <2>8. ResultOK'
    BY <2>2, <2>3 DEF ResultOK
  <2>9. FieldsOK'
    BY <1>2, <2>3 DEF Inv, FieldsOK
  <2> QED
    BY <1>10, <1>11, <2>4, <2>5, <2>6, <2>7, <2>8, <2>9 DEF Inv, KeyedInv
<1>13. CASE Passes /\ ~(known /\ line.val = "num")
  <2>1. KeyedState' /\ Found(pos)' = Found(pos)
    BY <1>1, <1>2, <1>4, <1>5, <1>13, PassedBy DEF line
  <2>2. result' = Nothing /\ result'.kind = "none" /\ pc' = "parse" /\ matched' = matched
    BY <1>1, <1>13, ResultsAre
  <2>3. KeyedResult'
    BY <1>1, <1>2, <1>5, <2>2 DEF KeyedResult
  <2>4. Phase'
    BY <1>1, <1>2, <2>2 DEF Inv, Phase
  <2>5. Numbers'
    BY <1>2, <1>6, <2>2 DEF Inv, Numbers
  <2>6. ResultOK'
    BY <2>2, ResultsAre, ErrorsAre DEF ResultOK
  <2>7. FieldsOK'
    BY <1>2, <1>13 DEF Inv, FieldsOK
  <2> QED
    BY <1>10, <1>11, <2>1, <2>3, <2>4, <2>5, <2>6, <2>7 DEF Inv, KeyedInv
<1>14. CASE /\ known /\ line.val = "num"
            /\ fields' = [fields EXCEPT ![p.field[line.key]] = {line.key}]
            /\ matched' = matched + 1
            /\ IF matched' = p.stopAt THEN Done(Ok) ELSE UNCHANGED <<pc, result>>
  <2>1. DOMAIN fields = FieldsOf(op)
    BY <1>1 DEF Inv, FieldsOK
  <2> DEFINE key == line.key
  <2>2. key \in KeysOf(op) /\ p.field[key] \in DOMAIN fields
    BY <1>1, <1>4, <1>14, <2>1, FieldsAre DEF p
  <2>3. KeyedState' /\ Found(pos)' = Found(pos) \union {key} /\ matched' \in Nat \ {0}
    <3>1. input[pos + 1].key = key /\ input[pos + 1].val = "num"
      BY <1>14 DEF line
    <3>2. fields' = [fields EXCEPT ![Keyed[op].field[key]] = {key}] /\ matched' = matched + 1
      BY <1>14 DEF p
    <3> HIDE DEF key
    <3> QED
      BY <1>1, <1>2, <1>5, <2>1, <2>2, <3>1, <3>2, TakenIn
  <2> HIDE DEF key
  <2>4. FieldsOK'
    <3>1. DOMAIN fields' = DOMAIN fields
      BY <1>14
    <3>2. ASSUME NEW f \in DOMAIN fields
          PROVE  fields'[f] = {} \/ \E x \in fields'[f] : fields'[f] = {x}
      <4>1. CASE f = p.field[key]
        <5>1. fields'[f] = {key}
          BY <1>14, <4>1 DEF key
        <5> QED
          BY <5>1
      <4>2. CASE f # p.field[key]
        <5>1. fields'[f] = fields[f]
          BY <1>14, <4>2 DEF key
        <5> QED
          BY <5>1 DEF Inv, FieldsOK
      <4> QED
        BY <4>1, <4>2
    <3> QED
      BY <1>2, <2>1, <3>1, <3>2 DEF FieldsOK
  <2>5. Numbers'
    BY <1>2, <1>6, <2>3 DEF Inv, Numbers
  <2>6. p.stopAt \in Nat /\ IsFiniteSet(KeysOf(op))
    BY <1>1, StopsAre DEF p
  <2>7. p.stopAt = 0 \/ matched < p.stopAt
    BY <1>1, <1>5 DEF KeyedResult, p
  <2>8. CASE matched' = p.stopAt
    <3>1. pc' = "idle" /\ result' = Ok /\ result'.kind = "Ok" /\ result' # Nothing
      BY <1>14, <2>8, ResultsAre DEF Done
    <3>2. KeysOf(op) = Found(pos)'
      <4>1. op \notin {"vmstat", "io"}
        BY <1>1, <2>3, <2>8, KeyedFacts DEF p
      <4>2. Cardinality(KeysOf(op)) = p.stopAt
        BY <1>1, <4>1, StopsAtLast DEF Counts, p
      <4>3. matched' = Cardinality(Found(pos)')
        BY <2>3 DEF KeyedState
      <4>4. Found(pos)' \in SUBSET KeysOf(op)
        BY <1>2 DEF Found
      <4>5. Cardinality(KeysOf(op)) = Cardinality(Found(pos)')
        BY <2>8, <4>2, <4>3
      <4> QED
        BY <2>6, <4>4, <4>5, FS_Subset
    <3>3. KeyedResult'
      BY <1>2, <3>1, <3>2 DEF KeyedResult
    <3>4. Phase'
      BY <1>1, <1>2, <3>1 DEF Inv, Phase
    <3>5. ResultOK'
      BY <3>1, ResultsAre, ErrorsAre DEF ResultOK
    <3> QED
      BY <1>10, <1>11, <2>3, <2>4, <2>5, <3>3, <3>4, <3>5 DEF Inv, KeyedInv
  <2>9. CASE matched' # p.stopAt
    <3>1. pc' = "parse" /\ result' = Nothing /\ result'.kind = "none"
      BY <1>1, <1>14, <2>9, ResultsAre
    <3>2. (Keyed[op].stopAt = 0 \/ matched < Keyed[op].stopAt)'
      <4>1. matched \in Nat /\ matched' = matched + 1
        BY <1>14 DEF Inv, Numbers
      <4>2. p.stopAt = 0 \/ matched' < p.stopAt
        BY <2>6, <2>7, <2>9, <4>1
      <4> QED
        BY <1>2, <4>2 DEF p
    <3>3. KeyedResult'
      BY <3>1, <3>2 DEF KeyedResult
    <3>4. Phase'
      BY <1>1, <1>2, <3>1 DEF Inv, Phase
    <3>5. ResultOK'
      BY <3>1, ResultsAre, ErrorsAre DEF ResultOK
    <3> QED
      BY <1>10, <1>11, <2>3, <2>4, <2>5, <3>3, <3>4, <3>5 DEF Inv, KeyedInv
  <2> QED
    BY <2>8, <2>9
<1>15. Fails(Panic) /\ line.val # "num" => Rejects(Panic)
  BY ResultsAre, ErrorsAre
<1>16. Fails(Err(FromParse)) /\ line.val # "num" => Rejects(Err(FromParse))
  BY ResultsAre, ErrorsAre
<1>17. p.noValue # "skip" /\ Fails(Err(Failure(p.noValue))) /\ line.val # "num" =>
         Rejects(Err(Failure(p.noValue)))
  BY <1>8, ResultsAre, ErrorsAre
<1> HIDE DEF Fails, Passes, Rejects
<1>18. line.key = "short" => ~known /\ line.val # "num"
  BY <1>4, <1>7, <1>8
<1> QED
  BY <1>3, <1>12, <1>13, <1>14, <1>15, <1>16, <1>17, <1>18

----------------------------------------------------------------------------
(* Along a row of columns. *)
LEMMA OtherColumns ==
  ASSUME NEW m \in DOMAIN Columns, NEW j \in 1 .. Len(Columns[m]),
         NEW a \in DOMAIN ColumnOf[m], Columns[m][j].f # Accessors[m][a]
  PROVE  ColumnOf[m][a] <= BeginOf(m, j + 1) <=> ColumnOf[m][a] <= BeginOf(m, j)
<1>1. AccessorOK(m, a) /\ Len(Columns[m]) \in Nat
  BY ProgramsOK DEF ProgramOK
<1>2. PICK i \in 1 .. Len(Columns[m]) : /\ Columns[m][i].f = Accessors[m][a]
                                        /\ ColumnOf[m][a] = BeginOf(m, i) + 1
  BY <1>1 DEF AccessorOK
<1>3. i # j /\ i \in Nat \ {0} /\ j \in Nat \ {0} /\ j + 1 \in Nat \ {0}
  BY <1>1, <1>2
<1>4. /\ BeginOf(m, i) \in Nat /\ BeginOf(m, j) \in Nat /\ BeginOf(m, j + 1) \in Nat
      /\ i < j => BeginOf(m, i) < BeginOf(m, j)
      /\ j < j + 1 => BeginOf(m, j) < BeginOf(m, j + 1)
      /\ j + 1 < i => BeginOf(m, j + 1) < BeginOf(m, i)
  BY <1>3, BeginIncreases
<1>5. CASE i < j
  BY <1>2, <1>3, <1>4, <1>5
<1>6. CASE j + 1 <= i
  <2>1. BeginOf(m, j + 1) <= BeginOf(m, i)
    <3>1. CASE i = j + 1
      BY <1>4, <3>1
    <3>2. CASE i # j + 1
      BY <1>3, <1>4, <1>6, <3>2
    <3> QED
      BY <3>1, <3>2
  <2> QED
    BY <1>2, <1>3, <1>4, <2>1
<1> QED
  BY <1>3, <1>5, <1>6

(* What holds when an instruction is about to be done. *)
LEMMA AtInstr ==
  ASSUME Inv, pc = "parse", op \in DOMAIN Columns, ip < Len(Columns[op])
  PROVE  /\ ip + 1 \in 1 .. Len(Columns[op]) /\ ip \in Nat /\ pos \in Nat
         /\ InstrOK(op, ip + 1, Instr) /\ Instr.f \in DOMAIN fields
         /\ BeginOf(op, (ip + 1) + 1) = pos + Instr.n
         /\ ColumnsState /\ op # "none" /\ op \in Ops /\ op \notin Strings
         /\ op \notin DOMAIN Keyed /\ result = Nothing /\ Len(Columns[op]) \in Nat
<1>1. /\ ColumnsState /\ op # "none" /\ op \in Ops /\ op \notin Strings
      /\ op \notin DOMAIN Keyed /\ result = Nothing /\ ip \in Nat /\ pos \in Nat
      /\ DOMAIN fields = FieldsOf(op)
  BY OpsAre DEF Inv, Phase, Numbers, ColumnsInv, FieldsOK
<1>2. Len(Columns[op]) \in Nat /\ \A i \in 1 .. Len(Columns[op]) : InstrOK(op, i, Columns[op][i])
  BY ProgramsOK DEF ProgramOK
<1>3. ip + 1 \in 1 .. Len(Columns[op])
  BY <1>1, <1>2
<1>4. InstrOK(op, ip + 1, Instr)
  BY <1>2, <1>3 DEF Instr
<1>5. Instr.f \in DOMAIN fields
  BY <1>1, <1>3, FieldsAre DEF Instr
<1>6. BeginOf(op, (ip + 1) + 1) = pos + Instr.n
  BY <1>1, <1>4 DEF InstrOK, Fits, ColumnsState
<1> QED
  BY <1>1, <1>2, <1>3, <1>4, <1>5, <1>6

LEMMA SkipColumnsInv ==
  ASSUME Inv, SkipColumns
  PROVE  Inv'
<1>1. /\ pc = "parse" /\ op \in DOMAIN Columns /\ ip < Len(Columns[op]) /\ Instr.do = "skip"
      /\ pos' = pos + Instr.n /\ ip' = ip + 1
      /\ UNCHANGED <<pc, op, input, fields, matched, args, text, given, result>>
      /\ UNCHANGED <<stop, left, envs>>
  BY DEF SkipColumns, Same
<1>2. /\ ip + 1 \in 1 .. Len(Columns[op]) /\ ip \in Nat /\ pos \in Nat
      /\ InstrOK(op, ip + 1, Instr) /\ BeginOf(op, (ip + 1) + 1) = pos + Instr.n
      /\ ColumnsState /\ op # "none" /\ op \notin DOMAIN Keyed /\ result = Nothing
      /\ Len(Columns[op]) \in Nat
  BY <1>1, AtInstr
<1>3. Instr.f = "_" /\ Instr.n \in Nat /\ ~(op = "stat" /\ ip + 1 = 2)
  BY <1>1, <1>2 DEF InstrOK, Fits
<1>4. pos' = BeginOf(op, (ip + 1) + 1) /\ pos' \in Nat
  <2>1. \A x, y \in Nat : x + y \in Nat
    OBVIOUS
  <2>2. pos + Instr.n \in Nat
    BY <1>2, <1>3, <2>1
  <2> QED
    BY <1>1, <1>2, <2>2
<1>5. ASSUME NEW a \in DOMAIN ColumnOf[op]
      PROVE  /\ ColumnOf[op][a] <= pos' <=> ColumnOf[op][a] <= pos
             /\ Get(a)' = Get(a)
  <2>1. Columns[op][ip + 1].f # Accessors[op][a]
    BY <1>1, <1>3, ProgramsOK DEF Instr, ProgramOK, AccessorOK
  <2>2. pos = BeginOf(op, ip + 1)
    BY <1>2 DEF ColumnsState
  <2>3. Get(a)' = Get(a)
    BY <1>1 DEF Get
  <2> QED
    BY <1>1, <1>2, <1>4, <2>1, <2>2, <2>3, OtherColumns
<1>6. ColumnsState'
  <2>1. ip' <= Len(Columns[op'])
    BY <1>1, <1>2
  <2>2. (op = "stat" /\ ip >= 2 => args = given.argv)'
    <3> SUFFICES ASSUME op = "stat", ip + 1 >= 2 PROVE args = given.argv
      BY <1>1
    <3>1. ip + 1 # 2 /\ ip \in Nat
      BY <1>2, <1>3
    <3>2. ip >= 2
      BY <3>1
    <3> QED
      BY <1>2, <3>2 DEF ColumnsState
  <2>3. Len(input') \in Nat /\ DOMAIN input' = 1 .. Len(input')
    BY <1>1, <1>2 DEF ColumnsState
  <2>4. pos' = BeginOf(op', ip' + 1)
    BY <1>1, <1>4
  <2>5. ASSUME NEW a \in DOMAIN ColumnOf[op']
        PROVE  /\ Get(a)' = IF ColumnOf[op'][a] <= pos' THEN {ColumnOf[op'][a]} ELSE {}
               /\ ColumnOf[op'][a] <= pos' => ColumnOf[op'][a] <= Len(input')
    BY <1>1, <1>2, <1>5 DEF ColumnsState
  <2> QED
    BY <2>1, <2>2, <2>3, <2>4, <2>5 DEF ColumnsState
<1>7. ColumnsResult'
  BY <1>1, <1>2, ResultsAre DEF ColumnsResult
<1>8. Phase'
  BY <1>1, <1>2 DEF Inv, Phase
<1>9. Numbers'
  BY <1>1, <1>2, <1>4 DEF Inv, Numbers
<1>10. ResultOK'
  BY <1>1, <1>2, ResultsAre, ErrorsAre DEF ResultOK
<1>11. TextOK' /\ FieldsOK'
  BY <1>1 DEF Inv, TextOK, FieldsOK
<1> QED
  BY <1>1, <1>2, <1>6, <1>7, <1>8, <1>9, <1>10, <1>11 DEF Inv, KeyedInv, ColumnsInv

LEMMA TakeColumnInv ==
  ASSUME Inv, TakeColumn
  PROVE  Inv'
<1>1. /\ pc = "parse" /\ op \in DOMAIN Columns /\ ip < Len(Columns[op]) /\ Instr.do # "skip"
      /\ pos < Len(input) /\ pos' = pos + 1 /\ ip' = ip + 1
      /\ UNCHANGED <<pc, op, input, matched, text, given, result>>
      /\ UNCHANGED <<stop, left, envs>>
  BY DEF TakeColumn, TakesColumn, Same
<1>2. /\ fields' = [fields EXCEPT ![Instr.f] = {pos + 1}]
      /\ args' = IF op = "stat" /\ Instr.f = "name" THEN <<NameOf(text)>> ELSE args
  BY DEF TakeColumn
<1>3. /\ ip + 1 \in 1 .. Len(Columns[op]) /\ ip \in Nat /\ pos \in Nat
      /\ InstrOK(op, ip + 1, Instr) /\ BeginOf(op, (ip + 1) + 1) = pos + Instr.n
      /\ ColumnsState /\ op # "none" /\ op \notin DOMAIN Keyed /\ result = Nothing
      /\ Len(Columns[op]) \in Nat /\ Instr.f \in DOMAIN fields
  BY <1>1, AtInstr
<1>4. Instr.n = 1 /\ (op = "stat" => (Instr.f = "name" <=> ip + 1 = 2))
  BY <1>1, <1>3 DEF InstrOK, Fits
<1>5. pos' = BeginOf(op, (ip + 1) + 1) /\ pos' \in Nat
  BY <1>1, <1>3, <1>4
<1>6. ASSUME NEW a \in DOMAIN ColumnOf[op]
      PROVE  /\ Get(a)' = IF ColumnOf[op][a] <= pos' THEN {ColumnOf[op][a]} ELSE {}
             /\ ColumnOf[op][a] <= pos' => ColumnOf[op][a] <= Len(input)
  <2>1. pos = BeginOf(op, ip + 1) /\ Len(input) \in Nat
    BY <1>3 DEF ColumnsState
  <2>2. Accessors[op][a] \in DOMAIN fields
    BY <1>1, FieldsAre DEF Inv, FieldsOK
  <2>3. Get(a)' = fields'[Accessors[op][a]]
    BY <1>1 DEF Get
  <2>4. CASE Instr.f = Accessors[op][a]
    <3>1. ColumnOf[op][a] = pos + 1
      BY <1>1, <1>3, <2>1, <2>4, ProgramsOK DEF Instr, ProgramOK, AccessorOK
    <3>2. Get(a)' = {pos + 1}
      BY <1>2, <2>2, <2>3, <2>4
    <3> QED
      BY <1>1, <1>3, <2>1, <3>1, <3>2
  <2>5. CASE Instr.f # Accessors[op][a]
    <3>1. ColumnOf[op][a] <= pos' <=> ColumnOf[op][a] <= pos
      BY <1>1, <1>3, <1>5, <2>1, <2>5, OtherColumns, SMTT(60) DEF Instr
    <3>2. Get(a)' = Get(a)
      BY <1>2, <2>2, <2>3, <2>5 DEF Get
    <3> QED
      BY <1>3, <3>1, <3>2 DEF ColumnsState
  <2> QED
    BY <2>4, <2>5
<1>7. ASSUME op = "stat", ip' >= 2 PROVE args' = given'.argv
  <2>1. CASE ip = 1
    <3>1. args' = <<NameOf(text)>>
      BY <1>2, <1>4, <1>7, <2>1
    <3>2. NameOf(text) = given.argv[1] /\ given.argv = <<given.argv[1]>>
      BY <1>1, NameIs DEF Inv, TextOK
    <3> QED
      BY <1>1, <3>1, <3>2
  <2>2. CASE ip # 1
    <3>1. ip >= 2 /\ ip + 1 # 2
      BY <1>1, <1>3, <1>7, <2>2, SMTT(60)
    <3>2. args' = args
      BY <1>2, <1>4, <1>7, <3>1
    <3> QED
      BY <1>1, <1>3, <1>7, <3>1, <3>2 DEF ColumnsState
  <2> QED
    BY <2>1, <2>2
<1>8. ColumnsState'
  <2>1. ip' <= Len(Columns[op'])
    BY <1>1, <1>3
  <2>2. Len(input') \in Nat /\ DOMAIN input' = 1 .. Len(input')
    BY <1>1, <1>3 DEF ColumnsState
  <2>3. pos' = BeginOf(op', ip' + 1)
    BY <1>1, <1>5
  <2>4. ASSUME NEW a \in DOMAIN ColumnOf[op']
        PROVE  /\ Get(a)' = IF ColumnOf[op'][a] <= pos' THEN {ColumnOf[op'][a]} ELSE {}
               /\ ColumnOf[op'][a] <= pos' => ColumnOf[op'][a] <= Len(input')
    BY <1>1, <1>6
  <2>5. (op = "stat" /\ ip >= 2 => args = given.argv)'
    BY <1>1, <1>7
  <2> QED
    BY <2>1, <2>2, <2>3, <2>4, <2>5 DEF ColumnsState
<1>9. ColumnsResult'
  BY <1>1, <1>3, ResultsAre DEF ColumnsResult
<1>10. Phase'
  BY <1>1, <1>3 DEF Inv, Phase
<1>11. Numbers'
  BY <1>1, <1>3, <1>5 DEF Inv, Numbers
<1>12. ResultOK'
  BY <1>1, <1>3, ResultsAre, ErrorsAre DEF ResultOK
<1>13. TextOK'
  BY <1>1 DEF Inv, TextOK
<1>14. FieldsOK'
  <2>1. DOMAIN fields' = DOMAIN fields
    BY <1>2
  <2>2. ASSUME NEW f \in DOMAIN fields
        PROVE  fields'[f] = {} \/ \E x \in fields'[f] : fields'[f] = {x}
    <3>1. CASE f = Instr.f
      <4>1. fields'[f] = {pos + 1}
        BY <1>2, <3>1
      <4> QED
        BY <4>1
    <3>2. CASE f # Instr.f
      <4>1. fields'[f] = fields[f]
        BY <1>2, <3>2
      <4> QED
        BY <4>1 DEF Inv, FieldsOK
    <3> QED
      BY <3>1, <3>2
  <2> QED
    BY <1>1, <2>1, <2>2 DEF Inv, FieldsOK
<1> QED
  BY <1>1, <1>3, <1>8, <1>9, <1>10, <1>11, <1>12, <1>13, <1>14 DEF Inv, KeyedInv, ColumnsInv

(* A parser of columns that ends leaves what it has read. *)
LEMMA EndsInv ==
  ASSUME Inv, pc = "parse", op \in DOMAIN Columns, NEW r, Done(r),
         UNCHANGED <<op, input, pos, ip, fields, matched, args, text, given>>,
         UNCHANGED <<stop, left, envs>>,
         r.kind \in {"Ok", "Err", "Panic"}, r.error \in ErrorType,
         r.error.source = "InvalidData",
         r.kind = "Panic" => op = "stat" /\ Len(input) = 2,
         r.kind = "Ok" => ip = Len(Columns[op]) \/ (op = "cpu" /\ pos >= Len(input)),
         r.kind # "Ok" => (\E i \in DOMAIN input : input[i] = "bad") \/ Len(input) < Width(op)
  PROVE  Inv'
<1>1. pc' = "idle" /\ result' = r /\ r # Nothing
  BY ResultsAre DEF Done
<1>2. op # "none" /\ op \notin DOMAIN Keyed /\ op \in Ops /\ op \notin Strings
  BY OpsAre DEF Ops
<1>3. Phase'
  BY <1>1, <1>2 DEF Phase
<1>4. Numbers'
  BY DEF Inv, Numbers
<1>5. ResultOK'
  BY <1>1 DEF ResultOK
<1>6. TextOK' /\ FieldsOK' /\ ColumnsState'
  BY SameState DEF Inv, ColumnsInv
<1>7. ColumnsResult'
  BY <1>1, Zenon DEF ColumnsResult
<1> QED
  BY <1>2, <1>3, <1>4, <1>5, <1>6, <1>7 DEF Inv, KeyedInv, ColumnsInv

LEMMA MalformedColumnInv ==
  ASSUME Inv, MalformedColumn
  PROVE  Inv'
<1>1. /\ pc = "parse" /\ op \in DOMAIN Columns /\ ip < Len(Columns[op])
      /\ pos < Len(input) /\ input[pos + 1] = "bad" /\ Done(Err(FromParse))
  BY DEF MalformedColumn, TakesColumn
<1>2. /\ UNCHANGED <<op, input, pos, ip, fields, matched, args, text, given>>
      /\ UNCHANGED <<stop, left, envs>>
  BY DEF MalformedColumn, TakesColumn, Same
<1>3. pos + 1 \in DOMAIN input
  <2>1. ColumnsState /\ pos \in Nat
    BY <1>1, AtInstr
  <2> QED
    BY <1>1, <2>1 DEF ColumnsState
<1>4. \E i \in DOMAIN input : input[i] = "bad"
  BY <1>1, <1>3
<1>5. /\ Err(FromParse).kind = "Err" /\ Err(FromParse).error \in ErrorType
      /\ Err(FromParse).error.source = "InvalidData"
  BY ResultsAre, ErrorsAre
<1> DEFINE r == Err(FromParse)
<1> HIDE DEF r
<1>6. Done(r) /\ r.kind = "Err" /\ r.error \in ErrorType /\ r.error.source = "InvalidData"
  BY <1>1, <1>5 DEF r
<1> QED
  BY <1>1, <1>2, <1>4, <1>6, EndsInv

LEMMA NoColumnInv ==
  ASSUME Inv, NoColumn
  PROVE  Inv'
<1> DEFINE e == IF Instr.do = "opt" THEN Ok ELSE Err(Failure(Instr.missing))
<1>1. /\ pc = "parse" /\ op \in DOMAIN Columns /\ ip < Len(Columns[op])
      /\ pos >= Len(input)
      /\ Done(e) \/ (op = "stat" /\ ip = 2 /\ Done(Panic))
  BY DEF NoColumn, TakesColumn
<1>2. /\ UNCHANGED <<op, input, pos, ip, fields, matched, args, text, given>>
      /\ UNCHANGED <<stop, left, envs>>
  BY DEF NoColumn, TakesColumn, Same
<1>3. /\ ip + 1 \in 1 .. Len(Columns[op]) /\ ip \in Nat /\ pos \in Nat
      /\ InstrOK(op, ip + 1, Instr) /\ ColumnsState /\ Len(Columns[op]) \in Nat
  BY <1>1, AtInstr
<1>4. Instr.missing \in Contexts /\ (Instr.do = "opt" => op = "cpu")
  BY <1>3 DEF InstrOK, Fits, Contexts
<1>5. /\ e.kind = IF Instr.do = "opt" THEN "Ok" ELSE "Err"
      /\ e.error \in ErrorType /\ e.error.source = "InvalidData"
  BY <1>4, ResultsAre, ErrorsAre
<1> HIDE DEF e
<1>6. Len(input) < Width(op)
  <2> DEFINE n == Len(Columns[op])
             b == BeginOf(op, n + 1)
  <2>1. ip + 1 < n + 1 /\ ip + 1 \in Nat \ {0} /\ n + 1 \in Nat \ {0}
    BY <1>1, <1>3
  <2> HIDE DEF n
  <2>2. BeginOf(op, ip + 1) < b /\ b \in Nat
    BY <2>1, BeginIncreases
  <2>3. Width(op) = b
    BY <1>1, WidthIs DEF n
  <2>4. pos = BeginOf(op, ip + 1) /\ Len(input) \in Nat
    BY <1>3 DEF ColumnsState
  <2> HIDE DEF b
  <2> QED
    BY <1>1, <1>3, <2>2, <2>3, <2>4
<1>7. e.kind = "Ok" => op = "cpu" /\ pos >= Len(input)
  BY <1>1, <1>4, <1>5
<1>8. e.kind \in {"Ok", "Err"}
  BY <1>5
<1>9. CASE Done(e)
  BY <1>1, <1>2, <1>5, <1>6, <1>7, <1>8, <1>9, EndsInv
<1>10. CASE op = "stat" /\ ip = 2 /\ Done(Panic)
  <2>1. pos = 2 /\ Len(input) \in Nat
    BY <1>3, <1>10 DEF ColumnsState, BeginOf
  <2>2. "name" \in DOMAIN ColumnOf["stat"] /\ ColumnOf["stat"]["name"] = 2
    BY DEF ColumnOf
  <2>3. Len(input) = 2
    BY <1>1, <1>3, <1>10, <2>1, <2>2 DEF ColumnsState
  <2>4. /\ Panic.kind = "Panic" /\ Panic.error \in ErrorType
        /\ Panic.error.source = "InvalidData"
    BY ResultsAre, ErrorsAre
  <2> DEFINE p == Panic
  <2> HIDE DEF p
  <2>5. /\ Done(p) /\ p.kind = "Panic" /\ p.error \in ErrorType
        /\ p.error.source = "InvalidData"
    BY <1>10, <2>4 DEF p
  <2> QED
    BY <1>1, <1>2, <1>6, <1>10, <2>3, <2>5, EndsInv
<1> QED
  BY <1>1, <1>9, <1>10

LEMMA EndOfRowInv ==
  ASSUME Inv, EndOfRow
  PROVE  Inv'
<1>1. pc = "parse" /\ op \in DOMAIN Columns /\ ip = Len(Columns[op]) /\ Done(Ok)
  BY DEF EndOfRow
<1>2. /\ UNCHANGED <<op, input, pos, ip, fields, matched, args, text, given>>
      /\ UNCHANGED <<stop, left, envs>>
  BY DEF EndOfRow, Same
<1>3. Ok.kind = "Ok" /\ Ok.error \in ErrorType /\ Ok.error.source = "InvalidData"
  BY ResultsAre, ErrorsAre
<1> QED
  BY <1>1, <1>2, <1>3, EndsInv

----------------------------------------------------------------------------
(* Strings. *)
LEMMA StringInv ==
  ASSUME Inv, op \in Strings, pc # "idle",
         UNCHANGED <<op, input, ip, fields, matched, text, given>>,
         pos' \in Nat, stop' \in Nat, left' \in 0 .. MaxArgs,
         \/ pc' \in {"arguments", "environment"} /\ UNCHANGED result
         \/ \E r \in {Ok, Panic} : Done(r)
  PROVE  Inv'
<1>1. op # "none" /\ op \notin DOMAIN Keyed /\ op \notin DOMAIN Columns /\ op \in Ops
      /\ result = Nothing
  BY OpsAre, StringsAre DEF Inv, Phase
<1>2. \/ pc' \in {"arguments", "environment"} /\ result' = Nothing
      \/ pc' = "idle" /\ result' \in {Ok, Panic}
  BY <1>1 DEF Done
<1>3. Phase'
  BY <1>1, <1>2, ResultsAre DEF Phase
<1>4. Numbers'
  BY DEF Inv, Numbers
<1>5. ResultOK'
  BY <1>2, ResultsAre, ErrorsAre DEF ResultOK
<1>6. TextOK' /\ FieldsOK'
  BY DEF Inv, TextOK, FieldsOK
<1> QED
  BY <1>1, <1>3, <1>4, <1>5, <1>6 DEF Inv, KeyedInv, ColumnsInv

LEMMA StringNumbers ==
  ASSUME Inv
  PROVE  /\ pos \in Nat /\ pos + 1 \in Nat /\ stop \in Nat /\ left \in 0 .. MaxArgs
         /\ Len(text) \in Nat
         /\ \A c : Find(c, text, pos + 1) \in Nat
<1>1. pos \in Nat /\ stop \in Nat /\ left \in 0 .. MaxArgs /\ text \in Seq(Char)
  BY DEF Inv, Numbers, TextOK
<1>2. Len(text) \in Nat /\ pos + 1 \in Nat
  BY <1>1, LenProperties
<1>3. \A c : FoundAt(c, text, pos + 1, Find(c, text, pos + 1))
  BY <1>2, FindIs
<1>4. \A c : Find(c, text, pos + 1) \in Nat
  BY <1>3 DEF FoundAt
<1> QED
  BY <1>1, <1>2, <1>4

LEMMA OpenStringsInv ==
  ASSUME Inv, OpenCommand \/ OpenEnvironment
  PROVE  Inv'
<1>1. /\ op \in Strings /\ pc # "idle" /\ pc' \in {"arguments", "environment"}
      /\ UNCHANGED <<op, input, ip, fields, matched, text, given, result, pos, stop, left>>
  BY DEF OpenCommand, OpenEnvironment, Same, Strings
<1> QED
  BY <1>1, StringInv, StringNumbers

LEMMA CommandNextInv ==
  ASSUME Inv, CommandNext
  PROVE  Inv'
<1> DEFINE e == Find(Delimiter(text), text, pos + 1)
<1>1. /\ op \in Strings /\ pc = "arguments"
      /\ UNCHANGED <<op, input, ip, fields, matched, text, given, stop, left>>
  BY DEF CommandNext, Same, Strings
<1>2. \/ Done(Ok) /\ UNCHANGED pos
      \/ pos' = e /\ UNCHANGED <<pc, result>>
  BY Zenon DEF CommandNext
<1>3. e \in Nat
  BY StringNumbers
<1> HIDE DEF e
<1>4. pos' \in Nat /\ stop' \in Nat /\ left' \in 0 .. MaxArgs
  BY <1>1, <1>2, <1>3, StringNumbers
<1> QED
  BY <1>1, <1>2, <1>4, StringInv

LEMMA EnvironmentNextInv ==
  ASSUME Inv, EnvironmentNext
  PROVE  Inv'
<1> DEFINE e == Find(Nul, text, pos + 1)
<1>1. /\ op \in Strings /\ pc = "environment"
      /\ UNCHANGED <<op, input, ip, fields, matched, text, given, stop, left>>
  BY DEF EnvironmentNext, Same, Inv, Phase
<1>2. \/ Done(Ok) /\ UNCHANGED pos
      \/ pos' = e /\ UNCHANGED <<pc, result>>
  BY Zenon DEF EnvironmentNext
<1>3. e \in Nat
  BY StringNumbers
<1> HIDE DEF e
<1>4. pos' \in Nat /\ stop' \in Nat /\ left' \in 0 .. MaxArgs
  BY <1>1, <1>2, <1>3, StringNumbers
<1> QED
  BY <1>1, <1>2, <1>4, StringInv

LEMMA OpenProcArgsInv ==
  ASSUME Inv, OpenProcArgs
  PROVE  Inv'
<1>1. /\ op = "proc_args" /\ op \in Strings /\ pc = "open"
      /\ UNCHANGED <<op, input, ip, fields, matched, text, given>>
  BY DEF OpenProcArgs, Same, Strings
<1>2. \/ Done(Panic) /\ UNCHANGED <<pos, stop, left>>
      \/ /\ pos' = ArgsStart(text) - 1
         /\ stop' = IF Argc = 0 THEN ArgsStart(text) ELSE NthNul(text, ArgsStart(text), Argc)
         /\ left' = Argc
         /\ pc' = "arguments" /\ UNCHANGED result
  BY DEF OpenProcArgs
<1>3. CASE Done(Panic) /\ UNCHANGED <<pos, stop, left>>
  BY <1>1, <1>3, StringInv, StringNumbers
<1>4. CASE /\ pos' = ArgsStart(text) - 1
           /\ stop' = IF Argc = 0 THEN ArgsStart(text) ELSE NthNul(text, ArgsStart(text), Argc)
           /\ left' = Argc
           /\ pc' = "arguments" /\ UNCHANGED result
  <2>1. Argc \in 0 .. MaxArgs /\ Len(text) \in Nat
    BY <1>1, StringNumbers DEF Inv, TextOK, Argc
  <2>2. ArgsStart(text) \in Nat \ {0}
    <3>1. ExeEnd(text) \in Nat \ {0} /\ ArgsStart(text) \in ExeEnd(text) .. Len(text) + 1
      BY <2>1, ArgsStartIs
    <3> QED
      BY <2>1, <3>1
  <2>3. Argc # 0 => NthNul(text, ArgsStart(text), Argc) \in Nat
    <3> SUFFICES ASSUME Argc # 0 PROVE NthNul(text, ArgsStart(text), Argc) \in Nat
      OBVIOUS
    <3> DEFINE s == ArgsStart(text)
               n == Argc
               hits == Nuls(text, s)
    <3>1. s \in Nat \ {0} /\ n \in Nat \ {0}
      BY <2>1, <2>2
    <3> HIDE DEF s, n
    <3>2. NthNul(text, s, n) = s \/ NthNul(text, s, n) \in hits
      BY <2>1, <3>1, NthNulIs
    <3>3. hits \in SUBSET Nat
      BY <2>1, <3>1 DEF Nuls
    <3> HIDE DEF hits
    <3>4. NthNul(text, s, n) \in Nat
      BY <3>1, <3>2, <3>3
    <3> QED
      BY <3>4 DEF s, n
  <2>4. pos' \in Nat
    BY <1>4, <2>2
  <2>5. stop' \in Nat
    BY <1>4, <2>2, <2>3
  <2>6. left' \in 0 .. MaxArgs
    BY <1>4, <2>1
  <2> QED
    BY <1>1, <1>4, <2>4, <2>5, <2>6, StringInv
<1> QED
  BY <1>2, <1>3, <1>4

LEMMA ProcArgsNextInv ==
  ASSUME Inv, ProcArgsNext
  PROVE  Inv'
<1> DEFINE e == Find(Nul, text, pos + 1)
<1>1. /\ op \in Strings /\ pc = "arguments" /\ left > 0 /\ left' = left - 1
      /\ UNCHANGED <<pc, op, input, ip, fields, matched, text, given, stop, result>>
  BY DEF ProcArgsNext, Same, Strings
<1>2. pos' = e \/ UNCHANGED pos
  BY Zenon DEF ProcArgsNext
<1>3. e \in Nat
  BY StringNumbers
<1> HIDE DEF e
<1>4. pos' \in Nat /\ stop' \in Nat
  BY <1>1, <1>2, <1>3, StringNumbers
<1>5. left' \in 0 .. MaxArgs
  <2>1. left \in 0 .. MaxArgs /\ MaxArgs \in Nat
    BY StringNumbers, ParserAssumption, Zenon
  <2> QED
    BY <1>1, <2>1
<1>6. pc' \in {"arguments", "environment"} /\ UNCHANGED result /\ pc # "idle"
  BY <1>1
<1> QED
  BY <1>1, <1>4, <1>5, <1>6, StringInv

LEMMA ProcArgsEnvironmentInv ==
  ASSUME Inv, ProcArgsEnvironment
  PROVE  Inv'
<1>1. /\ op \in Strings /\ pc # "idle" /\ pc' \in {"arguments", "environment"}
      /\ pos' = stop
      /\ UNCHANGED <<op, input, ip, fields, matched, text, given, stop, left, result>>
  BY DEF ProcArgsEnvironment, Same, Strings
<1>2. pos' \in Nat /\ stop' \in Nat /\ left' \in 0 .. MaxArgs
  BY <1>1, StringNumbers
<1> QED
  BY <1>1, <1>2, StringInv

----------------------------------------------------------------------------
LEMMA NextInv == Inv /\ [Next]_vars => Inv'
<1> SUFFICES ASSUME Inv, [Next]_vars PROVE Inv'
  OBVIOUS
<1>1. CASE BeginKeyed \/ BeginColumns \/ BeginCommand \/ BeginTitle \/ BeginEnvironment
           \/ BeginProcArgs
  BY <1>1, BeginKeyedInv, BeginColumnsInv, BeginCommandInv, BeginTitleInv,
     BeginEnvironmentInv, BeginProcArgsInv
<1>2. CASE Open \/ NextLine \/ EndOfLines
  BY <1>2, OpenInv, NextLineInv, EndOfLinesInv
<1>3. CASE SkipColumns \/ TakeColumn \/ MalformedColumn \/ NoColumn \/ EndOfRow
  BY <1>3, SkipColumnsInv, TakeColumnInv, MalformedColumnInv, NoColumnInv, EndOfRowInv
<1>4. CASE OpenCommand \/ CommandNext \/ OpenEnvironment \/ EnvironmentNext
  BY <1>4, OpenStringsInv, CommandNextInv, EnvironmentNextInv
<1>5. CASE OpenProcArgs \/ ProcArgsNext \/ ProcArgsEnvironment
  BY <1>5, OpenProcArgsInv, ProcArgsNextInv, ProcArgsEnvironmentInv
<1>6. CASE UNCHANGED vars
  <2>1. /\ UNCHANGED <<op, input, pos, ip, fields, matched, args, text, given>>
        /\ UNCHANGED <<pc, stop, left, envs, result>>
    BY <1>6 DEF vars
  <2>2. TextOK' /\ FieldsOK' /\ KeyedState' = KeyedState /\ ColumnsState' = ColumnsState
    BY <2>1, SameState DEF Inv
  <2>3. Phase' /\ Numbers' /\ ResultOK'
    BY <2>1 DEF Inv, Phase, Unread, Numbers, ResultOK
  <2>4. KeyedResult' = KeyedResult /\ ColumnsResult' = ColumnsResult
    BY <2>1 DEF KeyedResult, ColumnsResult, Found, Read, Amiss, HasValue
  <2> QED
    BY <2>1, <2>2, <2>3, <2>4 DEF Inv, KeyedInv, ColumnsInv
<1> QED
  BY <1>1, <1>2, <1>3, <1>4, <1>5, <1>6 DEF Next

(* The invariant holds while a file is read and after it, whatever is in   *)
(* the file.                                                               *)
THEOREM Invariance == Spec => []Inv
BY InitInv, NextInv, PTL DEF Spec

(* A parser is always in one of its states, with numbers that fit, and a   *)
(* field is read from one place at most.                                   *)
THEOREM TypeCorrectness == Spec => []TypeOK
<1>1. Inv => TypeOK
  <2> SUFFICES ASSUME Inv PROVE TypeOK
    OBVIOUS
  <2>1. ASSUME NEW f \in DOMAIN fields PROVE Cardinality(fields[f]) <= 1
    <3>1. CASE fields[f] = {}
      BY <3>1, FS_EmptySet
    <3>2. CASE \E x : fields[f] = {x}
      <4>1. Cardinality(fields[f]) = 1
        BY <3>2, FS_Singleton, Zenon
      <4> QED
        BY <4>1
    <3> QED
      BY <3>1, <3>2 DEF Inv, FieldsOK
  <2> QED
    BY <2>1 DEF Inv, Phase, Numbers, ResultOK, TypeOK
<1> QED
  BY <1>1, Invariance, PTL

LEMMA KeyedExact == Inv => KeyedIsExact
<1> SUFFICES ASSUME Inv, op \in DOMAIN Keyed PROVE KeyedIsExact
  BY DEF KeyedIsExact
<1>1. KeyedState /\ KeyedResult /\ DOMAIN input = 1 .. Len(input)
  <2>1. KeyedState /\ KeyedResult
    BY DEF Inv, KeyedInv
  <2>2. DOMAIN input = 1 .. Len(input)
    BY <2>1 DEF KeyedState, IsFile
  <2> QED
    BY <2>1, <2>2
<1>2. ASSUME result.kind = "Ok", NEW a \in DOMAIN KeyOf[op]
      PROVE  /\ Get(a) = IF HasValue(KeyOf[op][a]) THEN {KeyOf[op][a]} ELSE {}
             /\ op \in {"swap", "memory", "boot_time"} => Get(a) # {}
  <2> DEFINE k == KeyOf[op][a]
  <2>1. k \in KeysOf(op) /\ Accessors[op][a] = Keyed[op].field[k]
    BY AccessorsFit
  <2> HIDE DEF k
  <2>2. Get(a) = IF Read(k, pos) THEN {k} ELSE {}
    BY <1>1, <2>1 DEF KeyedState, Get
  <2>3. Read(k, Len(input)) <=> HasValue(k)
    BY <1>1 DEF Read, HasValue
  <2>4. Read(k, pos) => HasValue(k)
    <3>1. \A i \in 1 .. pos : i \in DOMAIN input
      <4>1. pos \in Nat /\ pos <= Len(input) /\ Len(input) \in Nat
        BY <1>1, LenProperties DEF Inv, Numbers, KeyedState, IsFile
      <4> QED
        BY <1>1, <4>1
    <3> QED
      BY <3>1 DEF Read, HasValue
  <2>5. CASE KeysOf(op) = Found(pos)
    <3>1. Read(k, pos)
      BY <2>1, <2>5 DEF Found
    <3>2. Get(a) = {k} /\ HasValue(k)
      BY <2>2, <2>4, <3>1
    <3> QED
      BY <3>2 DEF k
  <2>6. CASE pos = Len(input) /\ Keyed[op].missing = "default"
    <3>1. op \notin {"swap", "memory", "boot_time"}
      BY <2>6, KeyedFacts
    <3>2. Get(a) = IF HasValue(k) THEN {k} ELSE {}
      BY <2>2, <2>3, <2>6
    <3> QED
      BY <3>1, <3>2 DEF k
  <2> QED
    BY <1>1, <1>2, <2>5, <2>6 DEF KeyedResult
<1>3. ASSUME result.kind \in {"Err", "Panic"}, RawOsError(result.error) = "none"
      PROVE  Amiss
  <2>1. result.error.source \notin Codes
    BY <1>3 DEF RawOsError, Codes
  <2> QED
    BY <1>1, <1>3, <2>1 DEF KeyedResult
<1> QED
  BY <1>2, <1>3 DEF KeyedIsExact, Amiss

LEMMA ColumnsExact == Inv => ColumnsAreExact
<1> SUFFICES ASSUME Inv, op \in DOMAIN Columns PROVE ColumnsAreExact
  BY DEF ColumnsAreExact
<1>1. /\ ColumnsState /\ ColumnsResult /\ pos \in Nat /\ Len(input) \in Nat
      /\ ip \in Nat
  BY DEF Inv, ColumnsInv, Numbers, ColumnsState
<1>2. ASSUME ip = Len(Columns[op]), NEW a \in DOMAIN ColumnOf[op]
      PROVE  ColumnOf[op][a] <= pos
  <2>1. AccessorOK(op, a) /\ Len(Columns[op]) \in Nat
    BY ProgramsOK DEF ProgramOK
  <2>2. PICK i \in 1 .. Len(Columns[op]) : ColumnOf[op][a] = BeginOf(op, i) + 1
    BY <2>1 DEF AccessorOK
  <2>3. i < ip + 1 /\ i \in Nat \ {0} /\ ip + 1 \in Nat \ {0}
    BY <1>1, <1>2, <2>1
  <2>4. BeginOf(op, i) < BeginOf(op, ip + 1) /\ BeginOf(op, i) \in Nat
    BY <2>3, BeginIncreases
  <2>5. pos = BeginOf(op, ip + 1)
    BY <1>1 DEF ColumnsState
  <2> QED
    BY <1>1, <2>2, <2>4, <2>5
<1>3. ASSUME result.kind = "Ok", NEW a \in DOMAIN ColumnOf[op]
      PROVE  \/ Get(a) = {ColumnOf[op][a]} /\ ColumnOf[op][a] <= Len(input)
             \/ op = "cpu" /\ Get(a) = {} /\ ColumnOf[op][a] > Len(input)
  <2>1. /\ Get(a) = IF ColumnOf[op][a] <= pos THEN {ColumnOf[op][a]} ELSE {}
        /\ ColumnOf[op][a] <= pos => ColumnOf[op][a] <= Len(input)
    BY <1>1 DEF ColumnsState
  <2>2. CASE ColumnOf[op][a] <= pos
    BY <2>1, <2>2
  <2>3. CASE ~(ColumnOf[op][a] <= pos)
    <3>1. op = "cpu" /\ pos >= Len(input)
      BY <1>1, <1>2, <1>3, <2>3 DEF ColumnsResult
    <3>2. ColumnOf[op][a] \in Nat
      BY ColumnsAreNumbers
    <3>3. ColumnOf[op][a] > Len(input)
      BY <1>1, <2>3, <3>1, <3>2
    <3> QED
      BY <2>1, <2>3, <3>1, <3>3
  <2> QED
    BY <2>2, <2>3
<1>4. ASSUME result.kind = "Ok", op = "stat" PROVE args = given.argv
  <2>1. ip = Len(Columns["stat"])
    BY <1>1, <1>4 DEF ColumnsResult
  <2>2. Len(Columns["stat"]) >= 2
    <3>1. Columns["stat"] = Stat
      BY ColumnsAre
    <3>2. Len(Stat) = 25
      BY DEF Stat
    <3> QED
      BY <3>1, <3>2
  <2>3. ip >= 2
    BY <2>1, <2>2
  <2> QED
    BY <1>1, <1>4, <2>3 DEF ColumnsState
<1>5. ASSUME result.kind \in {"Err", "Panic"}, RawOsError(result.error) = "none"
      PROVE  (\E i \in DOMAIN input : input[i] = "bad") \/ Len(input) < Width(op)
  <2>1. result.error.source \notin Codes
    BY <1>5 DEF RawOsError, Codes
  <2> QED
    BY <1>1, <1>5, <2>1 DEF ColumnsResult
<1>6. result.kind = "Panic" => op = "stat" /\ Len(input) = 2
  BY <1>1 DEF ColumnsResult
<1> QED
  BY <1>3, <1>4, <1>5, <1>6 DEF ColumnsAreExact

LEMMA ErrorsExact == Inv => ParseErrorsAreNoOsErrors
<1> SUFFICES ASSUME Inv PROVE ParseErrorsAreNoOsErrors
  OBVIOUS
<1> DEFINE e == result.error
<1>1. /\ e \in ErrorType /\ pos \in Nat
      /\ e.source = "InvalidData" \/ (e.source \in Codes /\ pos = 0 /\ ip = 0)
  BY DEF Inv, ResultOK, Numbers
<1> HIDE DEF e
<1>2. pos > 0 => RawOsError(e) = "none"
  BY <1>1 DEF RawOsError, Codes
<1>3. Kind(e) = "NotFound" => pos = 0 /\ ip = 0
  <2>1. e.source = "InvalidData" => Kind(e) = "InvalidData"
    BY DEF Kind
  <2> QED
    BY <1>1, <2>1
<1>4. RawOsError(e) # "none" => Display(e)[Len(Display(e))] \in Codes
  <2> SUFFICES ASSUME RawOsError(e) # "none" PROVE Display(e)[Len(Display(e))] \in Codes
    OBVIOUS
  <2>1. e.source \in Codes
    BY DEF RawOsError
  <2>2. CASE e.context = "none"
    <3>1. Display(e) = <<e.source>>
      BY <2>2 DEF Display
    <3> QED
      BY <2>1, <3>1
  <2>3. CASE e.context # "none"
    <3>1. Display(e) = <<e.context, e.source>>
      BY <2>3 DEF Display
    <3> QED
      BY <2>1, <3>1
  <2> QED
    BY <2>2, <2>3
<1> QED
  BY <1>2, <1>3, <1>4 DEF ParseErrorsAreNoOsErrors, e

(* Whatever a file holds, a parser that succeeds has given every accessor  *)
(* the value of its own key or of its own column, it fails only for a      *)
(* reason in the file, and a malformed file is never taken for one that    *)
(* is not there.                                                           *)
THEOREM ParsedStaysExact == Spec => []ParsedIsExact
<1>1. Inv => ParsedIsExact
  BY KeyedExact, ColumnsExact, ErrorsExact DEF ParsedIsExact
<1> QED
  BY <1>1, Invariance, PTL

----------------------------------------------------------------------------
(* The strings of a process.  Their invariant says where each argument and *)
(* each entry of the environment ends in the text: how far a parser has    *)
(* come, and what has to have come out, are both told by those ends.       *)

(* Induction along an interval. *)
LEMMA Induct ==
  ASSUME NEW n \in Nat, NEW S, 0 \in S, \A i \in 1 .. n : i - 1 \in S => i \in S
  PROVE  \A i \in 0 .. n : i \in S
<1> DEFINE T == {i \in 0 .. n : i \notin S}
<1>1. ASSUME T # {} PROVE FALSE
  <2>1. T \in SUBSET Nat
    OBVIOUS
  <2>2. PICK k \in T : \A j \in T : k <= j
    <3> HIDE DEF T
    <3> QED
      BY <1>1, <2>1, LeastNat
  <2>3. k \in 0 .. n /\ k \notin S /\ k # 0
    BY <2>2
  <2>4. k \in 1 .. n /\ k - 1 \in 0 .. n /\ ~(k <= k - 1)
    BY <2>3
  <2>5. k - 1 \in S
    BY <2>2, <2>4
  <2> QED
    BY <2>3, <2>4, <2>5
<1> QED
  BY <1>1

(* What a word may be made of: anything but NUL. *)
Plain == {"a", " ", "=", ")"}

(* The characters behind o are those of w, and its NUL is at e. *)
Part(t, w, o, e) ==
  /\ w \in Seq(Plain) /\ o \in Nat /\ e = o + Len(w) + 1 /\ e <= Len(t) /\ t[e] = Nul
  /\ \A j \in 1 .. Len(w) : t[o + j] = w[j]

(* Strings one behind the other; b tells where each of them ends. *)
Laid(t, ss, b) ==
  /\ t \in Seq(Char) /\ Len(ss) \in Nat
  /\ \A i \in 0 .. Len(ss) : b[i] \in Nat /\ b[i] <= Len(t)
  /\ \A i \in 1 .. Len(ss) : Part(t, ss[i], b[i - 1], b[i])

(* A string is found behind the NUL of the one in front of it. *)
LEMMA PartIsFound ==
  ASSUME NEW t \in Seq(Char), NEW w, NEW o, NEW e, Part(t, w, o, e)
  PROVE  /\ Find(Nul, t, o + 1) = e /\ SubSeq(t, o + 1, e - 1) = w
         /\ e \in Nat /\ o < e /\ (e = o + 1 <=> w = <<>>)
<1>1. /\ w \in Seq(Plain) /\ Len(w) \in Nat /\ Len(t) \in Nat
      /\ \A j \in 1 .. Len(w) : w[j] \in Plain
      /\ w = <<>> <=> Len(w) = 0
  <2>1. w \in Seq(Plain)
    BY DEF Part
  <2> QED
    BY <2>1, LenProperties, ElementOfSeq, EmptySeq
<1>2. /\ o \in Nat /\ e = o + Len(w) + 1 /\ e <= Len(t) /\ t[e] = Nul
      /\ \A j \in 1 .. Len(w) : t[o + j] = w[j]
  BY DEF Part
<1>3. \A c \in Plain : c # Nul
  BY DEF Plain, Nul
<1>4. ASSUME NEW j \in o + 1 .. e - 1 PROVE t[j] # Nul /\ t[j] = w[j - o]
  <2>1. j - o \in 1 .. Len(w) /\ o + (j - o) = j
    BY <1>1, <1>2
  <2>2. t[j] = w[j - o]
    BY <1>2, <2>1
  <2> QED
    BY <1>1, <1>3, <2>1, <2>2
<1>5. Find(Nul, t, o + 1) = e
  <2> DEFINE f == Find(Nul, t, o + 1)
  <2>1. FoundAt(Nul, t, o + 1, f)
    BY <1>1, <1>2, FindIs
  <2> HIDE DEF f
  <2>2. f \in Nat /\ e \in o + 1 .. Len(t)
    BY <1>1, <1>2, <2>1 DEF FoundAt
  <2>3. f # Len(t) + 1
    BY <1>1, <1>2, <2>1, <2>2 DEF FoundAt
  <2>4. f \in o + 1 .. Len(t) /\ t[f] = Nul /\ \A j \in o + 1 .. f - 1 : t[j] # Nul
    BY <2>1, <2>3 DEF FoundAt
  <2>5. ~(f < e)
    BY <1>1, <1>2, <1>4, <2>4
  <2>6. ~(e < f)
    BY <1>1, <1>2, <2>4
  <2> QED
    BY <1>1, <1>2, <2>2, <2>5, <2>6 DEF f
<1>6. SubSeq(t, o + 1, e - 1) = w
  <2> DEFINE s == SubSeq(t, o + 1, e - 1)
  <2>1. o + 1 \in 1 .. Len(t) + 1 /\ e - 1 \in o .. Len(t) /\ e - 1 - (o + 1) + 1 = Len(w)
    BY <1>1, <1>2
  <2>2. s \in Seq(Char) /\ Len(s) = Len(w) /\ \A j \in 1 .. Len(w) : s[j] = t[o + j]
    <3>1. \A j \in o + 1 .. e - 1 : t[j] \in Char
      BY <1>1, <1>2, ElementOfSeq
    <3>2. /\ s \in Seq(Char)
          /\ Len(s) = IF o + 1 <= e - 1 THEN e - 1 - (o + 1) + 1 ELSE 0
          /\ \A j \in 1 .. e - 1 - (o + 1) + 1 : s[j] = t[o + 1 + j - 1]
      BY <1>1, <1>2, <2>1, SubSeqProperties
    <3> QED
      BY <1>1, <1>2, <2>1, <3>2
  <2> HIDE DEF s
  <2>3. \A j \in 1 .. Len(s) : s[j] = w[j]
    BY <1>2, <2>2
  <2>4. s = w
    BY <1>1, <2>2, <2>3, SeqEqual
  <2> QED
    BY <2>4 DEF s
<1> QED
  BY <1>1, <1>2, <1>5, <1>6

LEMMA NulIsString == <<Nul>> \in Seq(Char) /\ Len(<<Nul>>) = 1 /\ <<Nul>>[1] = Nul
<1>1. Nul \in Char
  BY DEF Nul, Char
<1> QED
  BY <1>1, Single

(* A text that begins with another one. *)
Before(s, t) == /\ Len(s) <= Len(t)
                /\ \A j \in 1 .. Len(s) : t[j] = s[j]

LEMMA BeforeBefore ==
  ASSUME NEW x, NEW y, NEW z, Len(x) \in Nat, Len(y) \in Nat, Len(z) \in Nat,
         Before(x, y), Before(y, z)
  PROVE  Before(x, z)
BY DEF Before

LEMMA BeforeAll ==
  ASSUME NEW ss, NEW n \in Nat, NEW g, Catted(ss, n, g),
         \A i \in 1 .. n : ss[i] \in Seq(Char)
  PROVE  \A m \in 0 .. n : \A i \in 0 .. m : Before(g[i], g[m])
<1> DEFINE S == {m \in 0 .. n : \A i \in 0 .. m : Before(g[i], g[m])}
<1>1. \A i \in 0 .. n : g[i] \in Seq(Char) /\ Len(g[i]) \in Nat
  BY LenProperties DEF Catted, Typed
<1>2. \A i \in 0 .. n : Before(g[i], g[i])
  BY <1>1 DEF Before
<1>3. 0 \in S
  BY <1>2
<1>4. ASSUME NEW m \in 1 .. n, m - 1 \in S PROVE m \in S
  <2>1. m \in 0 .. n /\ m - 1 \in 0 .. n
    OBVIOUS
  <2>2. Before(g[m - 1], g[m])
    <3>1. g[m] = (g[m - 1] \o ss[m]) \o <<Nul>>
      BY DEF Catted
    <3> DEFINE x == g[m - 1]
               w == ss[m]
               z == <<Nul>>
               u == x \o w
    <3>2. x \in Seq(Char) /\ w \in Seq(Char)
      BY <1>1, <2>1
    <3>3. z \in Seq(Char) /\ Len(z) = 1
      BY NulIsString
    <3> HIDE DEF x, w, z
    <3>4. /\ u \in Seq(Char) /\ Len(u) = Len(x) + Len(w)
          /\ Len(x) \in Nat /\ Len(w) \in Nat /\ Len(u) \in Nat
          /\ \A j \in 1 .. Len(x) : u[j] = x[j]
      BY <3>2, Join
    <3> HIDE DEF u
    <3>5. g[m] = u \o z
      BY <3>1 DEF u, x, w, z
    <3>6. u \in Seq(Char)
      BY <3>4
    <3>7. Len(g[m]) = Len(u) + 1 /\ \A j \in 1 .. Len(u) : g[m][j] = u[j]
      <4>1. Len(u \o z) = Len(u) + Len(z) /\ \A j \in 1 .. Len(u) : (u \o z)[j] = u[j]
        BY <3>3, <3>6, Join, ZenonT(60)
      <4> QED
        BY <3>3, <3>5, <4>1, Zenon
    <3>8. Before(x, g[m])
      BY <3>4, <3>7 DEF Before
    <3> QED
      BY <3>8 DEF x
  <2>3. ASSUME NEW i \in 0 .. m PROVE Before(g[i], g[m])
    <3>1. CASE i = m
      BY <1>2, <2>1, <3>1
    <3>2. CASE i # m
      <4>1. i \in 0 .. m - 1 /\ i \in 0 .. n
        BY <3>2
      <4>2. Before(g[i], g[m - 1])
        BY <1>4, <4>1
      <4>3. Len(g[i]) \in Nat /\ Len(g[m - 1]) \in Nat /\ Len(g[m]) \in Nat
        BY <1>1, <2>1, <4>1
      <4> QED
        BY <2>2, <4>2, <4>3, BeforeBefore
    <3> QED
      BY <3>1, <3>2
  <2> QED
    BY <2>1, <2>3
<1> HIDE DEF S
<1>5. \A m \in 0 .. n : m \in S
  BY <1>3, <1>4, Induct
<1> QED
  BY <1>5 DEF S

(* Strings with NULs in a text, behind p and in front of q. *)
LEMMA LaidIn ==
  ASSUME NEW ss, Len(ss) \in Nat, \A i \in 1 .. Len(ss) : ss[i] \in Seq(Plain),
         NEW p \in Seq(Char), NEW q \in Seq(Char)
  PROVE  LET t == (p \o NulAfter(ss)) \o q IN
           \E b : /\ Laid(t, ss, b) /\ b[0] = Len(p)
                  /\ b[Len(ss)] = Len(p) + Len(NulAfter(ss))
<1> DEFINE n == Len(ss)
           c == NulAfter(ss)
           u == p \o c
           t == u \o q
<1>1. \A i \in 1 .. n : ss[i] \in Seq(Char)
  <2>1. Plain \subseteq Char
    BY DEF Plain, Char
  <2> QED
    BY <2>1, Wider
<1>2. PICK g : Catted(ss, n, g) /\ c = g[n]
  BY <1>1, NulAfterFacts
<1>3. n \in Nat
  OBVIOUS
<1> HIDE DEF n, c
<1>4. \A i \in 0 .. n : g[i] \in Seq(Char) /\ Len(g[i]) \in Nat
  BY <1>2, LenProperties DEF Catted, Typed
<1>5. \A i \in 0 .. n : Before(g[i], c)
  <2>1. n \in 0 .. n
    BY <1>3
  <2> QED
    BY <1>1, <1>2, <1>3, <2>1, BeforeAll
<1>6. /\ u \in Seq(Char) /\ Len(u) = Len(p) + Len(c) /\ Len(p) \in Nat /\ Len(c) \in Nat
      /\ \A j \in 1 .. Len(c) : u[Len(p) + j] = c[j]
  <2>1. c \in Seq(Char)
    BY <1>2, <1>3, <1>4
  <2> QED
    BY <2>1, Join
<1> HIDE DEF u
<1>7. /\ t \in Seq(Char) /\ Len(t) = Len(u) + Len(q) /\ Len(q) \in Nat /\ Len(t) \in Nat
      /\ \A j \in 1 .. Len(u) : t[j] = u[j]
  <2>1. u \in Seq(Char)
    BY <1>6
  <2> QED
    BY <2>1, Join
<1> HIDE DEF t
<1> DEFINE b == [i \in 0 .. n |-> Len(p) + Len(g[i])]
<1>8. \A i \in 0 .. n : b[i] = Len(p) + Len(g[i])
  OBVIOUS
<1> HIDE DEF b
<1>9. \A i \in 0 .. n : b[i] \in Nat /\ b[i] <= Len(t)
  <2> TAKE i \in 0 .. n
  <2>1. Len(g[i]) \in Nat /\ Len(g[i]) <= Len(c)
    BY <1>4, <1>5 DEF Before
  <2> QED
    BY <1>6, <1>7, <1>8, <2>1, SMTT(60)
<1>10. ASSUME NEW i \in 0 .. n, NEW j \in 1 .. Len(g[i])
       PROVE  t[Len(p) + j] = g[i][j]
  <2>1. j \in 1 .. Len(c) /\ c[j] = g[i][j]
    BY <1>4, <1>5, <1>6, SMTT(60) DEF Before
  <2>2. Len(p) + j \in 1 .. Len(u)
    BY <1>6, <2>1
  <2> QED
    BY <1>6, <1>7, <2>1, <2>2
<1>11. ASSUME NEW i \in 1 .. n PROVE Part(t, ss[i], b[i - 1], b[i])
  <2> DEFINE x == g[i - 1]
             w == ss[i]
             y == x \o w
             z == <<Nul>>
  <2>1. i \in 0 .. n /\ i - 1 \in 0 .. n
    BY <1>3
  <2>2. g[i] = (g[i - 1] \o ss[i]) \o <<Nul>>
    BY <1>2 DEF Catted
  <2>3. x \in Seq(Char) /\ w \in Seq(Char) /\ w \in Seq(Plain)
    BY <1>1, <1>4, <2>1 DEF n
  <2>12. z \in Seq(Char) /\ Len(z) = 1 /\ z[1] = Nul
    BY NulIsString
  <2> HIDE DEF x, w, z
  <2>4. /\ y \in Seq(Char) /\ Len(y) = Len(x) + Len(w) /\ Len(x) \in Nat /\ Len(w) \in Nat
        /\ \A j \in 1 .. Len(w) : y[Len(x) + j] = w[j]
    BY <2>3, Join
  <2> HIDE DEF y
  <2>5. g[i] = y \o z
    BY <2>2 DEF y, x, w, z
  <2>6. /\ Len(g[i]) = Len(y) + 1 /\ \A j \in 1 .. Len(y) : g[i][j] = y[j]
        /\ g[i][Len(y) + 1] = Nul
    <3>1. y \in Seq(Char)
      BY <2>4
    <3>2. /\ Len(g[i]) = Len(y) + Len(z) /\ \A j \in 1 .. Len(y) : g[i][j] = y[j]
          /\ \A j \in 1 .. Len(z) : g[i][Len(y) + j] = z[j]
      <4>1. /\ Len(y \o z) = Len(y) + Len(z) /\ \A j \in 1 .. Len(y) : (y \o z)[j] = y[j]
            /\ \A j \in 1 .. Len(z) : (y \o z)[Len(y) + j] = z[j]
        <5>1. z \in Seq(Char)
          BY <2>12
        <5> QED
          BY <3>1, <5>1, Join
      <4> QED
        BY <2>5, <4>1, Zenon
    <3> QED
      BY <2>12, <3>2
  <2>7. b[i - 1] = Len(p) + Len(x) /\ b[i] = Len(p) + Len(g[i])
    BY <1>8, <2>1 DEF x
  <2>8. b[i - 1] \in Nat /\ b[i] \in Nat /\ b[i] = b[i - 1] + Len(w) + 1 /\ b[i] <= Len(t)
    BY <1>6, <1>9, <2>1, <2>4, <2>6, <2>7, SMTT(60)
  <2>9. t[b[i]] = Nul
    <3>1. Len(y) + 1 \in 1 .. Len(g[i]) /\ b[i] = Len(p) + (Len(y) + 1)
      BY <2>4, <2>6, <2>7
    <3> QED
      BY <1>10, <2>1, <2>6, <3>1, SMTT(60)
  <2>10. ASSUME NEW j \in 1 .. Len(w) PROVE t[b[i - 1] + j] = w[j]
    <3>1. Len(x) + j \in 1 .. Len(y) /\ Len(x) + j \in 1 .. Len(g[i])
      BY <2>4, <2>6, SMTT(60)
    <3>2. b[i - 1] + j = Len(p) + (Len(x) + j)
      BY <1>6, <2>4, <2>7, SMTT(60)
    <3>3. t[Len(p) + (Len(x) + j)] = g[i][Len(x) + j]
      BY <1>10, <2>1, <3>1
    <3> QED
      BY <2>4, <2>6, <3>1, <3>2, <3>3
  <2>11. Part(t, w, b[i - 1], b[i])
    BY <2>3, <2>8, <2>9, <2>10 DEF Part
  <2> QED
    BY <2>11 DEF w
<1>12. Laid(t, ss, b)
  BY <1>3, <1>7, <1>9, <1>11 DEF Laid, n
<1>13. b[0] = Len(p) /\ b[n] = Len(p) + Len(c)
  <2>1. 0 \in 0 .. n /\ n \in 0 .. n
    BY <1>3
  <2>2. Len(g[0]) = 0
    BY <1>2, EmptySeq DEF Catted
  <2> QED
    <3>1. b[0] = Len(p) + 0 /\ b[n] = Len(p) + Len(g[n])
      BY <1>8, <2>1, <2>2
    <3> QED
      BY <1>2, <1>6, <3>1
<1> QED
  BY <1>12, <1>13 DEF n, c, t, u

(* The ends increase. *)
LEMMA LaidIncreases ==
  ASSUME NEW t, NEW ss, NEW b, Laid(t, ss, b)
  PROVE  \A m \in 0 .. Len(ss) : \A i \in 0 .. m : b[i] + (m - i) <= b[m]
<1> DEFINE n == Len(ss)
           S == {m \in 0 .. n : \A i \in 0 .. m : b[i] + (m - i) <= b[m]}
<1>1. n \in Nat /\ \A i \in 0 .. n : b[i] \in Nat
  BY DEF Laid
<1>2. \A i \in 1 .. n : b[i - 1] < b[i]
  <2> TAKE i \in 1 .. n
  <2>1. Part(t, ss[i], b[i - 1], b[i]) /\ t \in Seq(Char)
    BY DEF Laid
  <2> QED
    BY <2>1, PartIsFound
<1> HIDE DEF n
<1>3. 0 \in S
  BY <1>1
<1>4. ASSUME NEW m \in 1 .. n, m - 1 \in S PROVE m \in S
  <2>1. ASSUME NEW i \in 0 .. m PROVE b[i] + (m - i) <= b[m]
    <3>1. CASE i = m
      BY <1>1, <3>1
    <3>2. CASE i # m
      <4>1. i \in 0 .. m - 1 /\ m - 1 \in 0 .. n /\ m \in 0 .. n /\ i \in 0 .. n
        BY <1>1, <3>2
      <4>2. b[i] + ((m - 1) - i) <= b[m - 1]
        BY <1>4, <4>1
      <4> QED
        BY <1>1, <1>2, <4>1, <4>2
    <3> QED
      BY <3>1, <3>2
  <2> QED
    BY <2>1
<1> HIDE DEF S
<1>5. \A m \in 0 .. n : m \in S
  BY <1>1, <1>3, <1>4, Induct
<1> QED
  BY <1>5 DEF S, n

(* A part of a text, with spaces for its NULs. *)
Spaced(t, o, m) == [j \in 1 .. m |-> IF t[o + j] = Nul THEN " " ELSE t[o + j]]

LEMMA SpacedIs ==
  ASSUME NEW t \in Seq(Char), NEW o \in Nat, NEW m \in Nat, o + m <= Len(t)
  PROVE  /\ Spaced(t, o, m) \in Seq(Char) /\ Len(Spaced(t, o, m)) = m
         /\ \A j \in 1 .. m :
              Spaced(t, o, m)[j] = IF t[o + j] = Nul THEN " " ELSE t[o + j]
<1>1. Len(t) \in Nat /\ \A j \in 1 .. Len(t) : t[j] \in Char
  BY LenProperties, ElementOfSeq
<1>2. " " \in Char
  BY DEF Char
<1>3. \A j \in 1 .. m : o + j \in 1 .. Len(t)
  BY <1>1
<1> DEFINE s == Spaced(t, o, m)
<1>4. s \in [1 .. m -> Char]
  BY <1>1, <1>2, <1>3 DEF Spaced
<1>5. \A j \in 1 .. m : s[j] = IF t[o + j] = Nul THEN " " ELSE t[o + j]
  BY DEF Spaced
<1> HIDE DEF s
<1>6. s \in Seq(Char) /\ Len(s) = m
  BY <1>4, SeqDef, LenProperties
<1> QED
  BY <1>5, <1>6 DEF s

LEMMA SpacedPart ==
  ASSUME NEW t \in Seq(Char), NEW w, NEW o, NEW e, Part(t, w, o, e)
  PROVE  Spaced(t, o, Len(w)) = w
<1>1. w \in Seq(Plain) /\ Len(w) \in Nat /\ \A j \in 1 .. Len(w) : w[j] \in Plain
  <2>1. w \in Seq(Plain)
    BY DEF Part
  <2> QED
    BY <2>1, LenProperties, ElementOfSeq
<1>2. \A c \in Plain : c # Nul /\ c \in Char
  BY DEF Plain, Nul, Char
<1>3. o \in Nat /\ o + Len(w) <= Len(t) /\ \A j \in 1 .. Len(w) : t[o + j] = w[j]
  <2>1. o \in Nat /\ e = o + Len(w) + 1 /\ e <= Len(t)
    BY DEF Part
  <2>2. Len(t) \in Nat
    BY LenProperties
  <2> QED
    BY <1>1, <2>1, <2>2 DEF Part
<1> DEFINE s == Spaced(t, o, Len(w))
<1>4. /\ s \in Seq(Char) /\ Len(s) = Len(w)
      /\ \A j \in 1 .. Len(w) : s[j] = IF t[o + j] = Nul THEN " " ELSE t[o + j]
  BY <1>1, <1>3, SpacedIs
<1> HIDE DEF s
<1>5. \A j \in 1 .. Len(s) : s[j] = w[j]
  BY <1>1, <1>2, <1>3, <1>4
<1>6. w \in Seq(Char)
  BY <1>1, <1>2, Wider
<1>7. s = w
  BY <1>4, <1>5, <1>6, SeqEqual
<1> QED
  BY <1>7 DEF s

LEMMA SpacedNext ==
  ASSUME NEW t \in Seq(Char), NEW w, NEW o \in Nat, NEW m \in Nat, NEW e,
         t[o + m + 1] = Nul, Part(t, w, o + m + 1, e)
  PROVE  Spaced(t, o, m + 1 + Len(w)) = (Spaced(t, o, m) \o <<" ">>) \o w
<1> DEFINE k == o + m + 1
<1>1. w \in Seq(Plain) /\ Len(w) \in Nat
  <2>1. w \in Seq(Plain)
    BY DEF Part
  <2> QED
    BY <2>1, LenProperties
<1>2. k + Len(w) <= Len(t) /\ Len(t) \in Nat /\ k \in Nat
  <2>1. e = k + Len(w) + 1 /\ e <= Len(t)
    BY DEF Part
  <2>2. Len(t) \in Nat
    BY LenProperties
  <2> QED
    BY <1>1, <2>1, <2>2
<1>13. k = o + m + 1 /\ Part(t, w, k, e) /\ o + m <= Len(t)
  BY <1>1, <1>2
<1> HIDE DEF k
<1>3. /\ Spaced(t, k, Len(w)) = w
      /\ \A j \in 1 .. Len(w) : w[j] = IF t[k + j] = Nul THEN " " ELSE t[k + j]
  <2>1. Spaced(t, k, Len(w)) = w
    BY <1>13, SpacedPart
  <2>2. \A j \in 1 .. Len(w) :
          Spaced(t, k, Len(w))[j] = IF t[k + j] = Nul THEN " " ELSE t[k + j]
    BY <1>1, <1>2, SpacedIs, ZenonT(60)
  <2> QED
    BY <2>1, <2>2
<1> DEFINE s == Spaced(t, o, m)
           z == <<" ">>
           u == s \o z
           v == u \o w
           y == Spaced(t, o, m + 1 + Len(w))
<1>4. /\ s \in Seq(Char) /\ Len(s) = m
      /\ \A j \in 1 .. m : s[j] = IF t[o + j] = Nul THEN " " ELSE t[o + j]
  BY <1>13, SpacedIs
<1>5. /\ y \in Seq(Char) /\ Len(y) = m + 1 + Len(w)
      /\ \A j \in 1 .. m + 1 + Len(w) : y[j] = IF t[o + j] = Nul THEN " " ELSE t[o + j]
  <2>1. m + 1 + Len(w) \in Nat /\ o + (m + 1 + Len(w)) <= Len(t)
    BY <1>1, <1>2, <1>13
  <2> QED
    BY <2>1, SpacedIs, ZenonT(60)
<1>6. z \in Seq(Char) /\ Len(z) = 1 /\ z[1] = " "
  <2>1. " " \in Char
    BY DEF Char
  <2> QED
    BY <2>1, Single
<1>7. w \in Seq(Char)
  <2>1. Plain \subseteq Char
    BY DEF Plain, Char
  <2> QED
    BY <1>1, <2>1, Wider
<1> HIDE DEF s, z, y
<1>8. /\ u \in Seq(Char) /\ Len(u) = Len(s) + Len(z)
      /\ \A j \in 1 .. Len(s) : u[j] = s[j]
      /\ \A j \in 1 .. Len(z) : u[Len(s) + j] = z[j]
  <2>1. s \in Seq(Char) /\ z \in Seq(Char)
    BY <1>4, <1>6
  <2> QED
    BY <2>1, Join, SMTT(60)
<1> HIDE DEF u
<1>9. /\ v \in Seq(Char) /\ Len(v) = Len(u) + Len(w)
      /\ \A j \in 1 .. Len(u) : v[j] = u[j]
      /\ \A j \in 1 .. Len(w) : v[Len(u) + j] = w[j]
  <2>1. u \in Seq(Char)
    BY <1>8
  <2> QED
    BY <1>7, <2>1, Join
<1> HIDE DEF v
<1>14. /\ \A j \in 1 .. m : u[j] = s[j]
       /\ u[m + 1] = " " /\ Len(u) = m + 1
  <2>1. Len(s) = m /\ Len(z) = 1
    BY <1>4, <1>6
  <2>2. 1 \in 1 .. Len(z)
    BY <2>1
  <2>3. u[Len(s) + 1] = z[1]
    BY <1>8, <2>2
  <2> QED
    BY <1>6, <1>8, <2>1, <2>3
<1>15. /\ Len(v) = m + 1 + Len(w)
       /\ \A j \in 1 .. m + 1 : v[j] = u[j]
       /\ \A j \in 1 .. Len(w) : v[m + 1 + j] = w[j]
  <2>1. Len(u) = m + 1
    BY <1>14
  <2> QED
    BY <1>9, <2>1, Zenon
<1>10. ASSUME NEW j \in 1 .. m + 1 + Len(w) PROVE v[j] = y[j]
  <2>1. CASE j <= m
    <3>1. j \in 1 .. m /\ j \in 1 .. m + 1
      BY <1>1, <2>1
    <3>2. v[j] = s[j]
      BY <1>14, <1>15, <3>1
    <3> QED
      BY <1>4, <1>5, <3>1, <3>2, ZenonT(60)
  <2>2. CASE j = m + 1
    <3>1. v[m + 1] = u[m + 1]
      BY <1>15
    <3>2. y[m + 1] = " "
      <4>1. o + (m + 1) = o + m + 1 /\ m + 1 \in 1 .. m + 1 + Len(w)
        BY <1>1
      <4> QED
        BY <1>5, <4>1
    <3> QED
      BY <1>14, <2>2, <3>1, <3>2
  <2>3. CASE j > m + 1
    <3> DEFINE i == j - (m + 1)
    <3>1. i \in 1 .. Len(w) /\ j = m + 1 + i /\ o + j = k + i
      BY <1>1, <1>13, <2>3
    <3> HIDE DEF i
    <3>2. v[j] = w[i]
      BY <1>15, <3>1
    <3>3. w[i] = IF t[k + i] = Nul THEN " " ELSE t[k + i]
      BY <1>3, <3>1
    <3>4. y[j] = IF t[o + j] = Nul THEN " " ELSE t[o + j]
      BY <1>5
    <3> QED
      BY <3>1, <3>2, <3>3, <3>4
  <2> QED
    BY <2>1, <2>2, <2>3
<1>11. Len(v) = Len(y)
  BY <1>1, <1>5, <1>9, <1>14
<1>12. v = y
  BY <1>5, <1>9, <1>10, <1>11, SeqEqual, ZenonT(60)
<1> QED
  BY <1>12 DEF v, y, u, s, z

(* The command line is the text, without its last NUL. *)
IsJoin(ss, n, g) ==
  g = [i \in 0 .. n |-> IF i = 0 THEN <<>> ELSE
                        IF i = 1 THEN ss[1] ELSE g[i - 1] \o <<" ">> \o ss[i]]

LEMMA JoinedIs ==
  ASSUME NEW ss
  PROVE  Joined(ss) = (CHOOSE g : IsJoin(ss, Len(ss), g))[Len(ss)]
BY Zenon DEF Joined, IsJoin

LEMMA JoinedIsSpaced ==
  ASSUME NEW t, NEW ss, NEW b, Laid(t, ss, b), Len(ss) # 0
  PROVE  /\ Joined(ss) = Spaced(t, b[0], (b[Len(ss)] - b[0]) - 1)
         /\ (b[Len(ss)] - b[0]) - 1 \in Nat
<1> DEFINE n == Len(ss)
           w(i) == Spaced(t, b[0], (b[i] - b[0]) - 1)
<1>1. /\ n \in Nat /\ n # 0 /\ t \in Seq(Char)
      /\ \A i \in 0 .. n : b[i] \in Nat
      /\ \A i \in 1 .. n : Part(t, ss[i], b[i - 1], b[i])
  BY DEF Laid
<1>2. \A m \in 0 .. n : \A i \in 0 .. m : b[i] + (m - i) <= b[m]
  BY LaidIncreases
<1> HIDE DEF n
<1>3. ASSUME NEW i \in 1 .. n PROVE (b[i] - b[0]) - 1 \in Nat
  <2>1. i \in 0 .. n /\ 0 \in 0 .. i /\ 0 \in 0 .. n
    BY <1>1
  <2>2. b[0] + (i - 0) <= b[i]
    BY <1>2, <2>1
  <2> QED
    BY <1>1, <2>1, <2>2
<1>4. w(1) = ss[1]
  <2>1. 1 \in 1 .. n /\ 1 - 1 = 0
    BY <1>1
  <2>2. Part(t, ss[1], b[0], b[1])
    BY <1>1, <2>1
  <2>3. Spaced(t, b[0], Len(ss[1])) = ss[1]
    BY <1>1, <2>2, SpacedPart
  <2>4. (b[1] - b[0]) - 1 = Len(ss[1])
    <3>1. b[1] = b[0] + Len(ss[1]) + 1 /\ b[0] \in Nat /\ ss[1] \in Seq(Plain)
      BY <2>2 DEF Part
    <3>2. Len(ss[1]) \in Nat
      BY <3>1, LenProperties
    <3> QED
      BY <3>1, <3>2
  <2> QED
    BY <2>3, <2>4, Zenon
<1>5. ASSUME NEW i \in 2 .. n PROVE w(i) = (w(i - 1) \o <<" ">>) \o ss[i]
  <2> DEFINE o == b[0]
             m == (b[i - 1] - b[0]) - 1
             k == i - 1
             l == i - 2
  <2>1. i \in 1 .. n /\ i - 1 \in 1 .. n /\ i - 1 \in 0 .. n /\ 0 \in 0 .. n
    BY <1>1
  <2>2. m \in Nat /\ o \in Nat /\ b[i - 1] \in Nat
    BY <1>1, <1>3, <2>1
  <2>3. Part(t, ss[i], b[i - 1], b[i]) /\ Part(t, ss[i - 1], b[(i - 1) - 1], b[i - 1])
    BY <1>1, <2>1
  <2>4. t[b[i - 1]] = Nul
    BY <2>3 DEF Part
  <2>5. b[i - 1] = o + m + 1
    BY <2>2
  <2>6. (b[i] - b[0]) - 1 = m + 1 + Len(ss[i])
    <3>1. b[i] = b[i - 1] + Len(ss[i]) + 1 /\ ss[i] \in Seq(Plain)
      BY <2>3 DEF Part
    <3>2. Len(ss[i]) \in Nat
      BY <3>1, LenProperties
    <3> QED
      BY <2>2, <3>1, <3>2, SMTT(60)
  <2> HIDE DEF m, o
  <2>7. Spaced(t, o, m + 1 + Len(ss[i])) = (Spaced(t, o, m) \o <<" ">>) \o ss[i]
    <3>1. t[o + m + 1] = Nul /\ Part(t, ss[i], o + m + 1, b[i])
      BY <2>3, <2>4, <2>5
    <3> QED
      BY <1>1, <2>2, <3>1, SpacedNext, ZenonT(60)
  <2>8. w(i) = Spaced(t, o, m + 1 + Len(ss[i])) /\ w(i - 1) = Spaced(t, o, m)
    BY <2>6 DEF o, m
  <2> QED
    BY <2>7, <2>8, Zenon
<1> HIDE DEF w
<1> DEFINE v == [i \in 0 .. n |-> IF i = 0 THEN <<>> ELSE w(i)]
<1>6. IsJoin(ss, n, v)
  <2>1. \A i \in 0 .. n : v[i] = IF i = 0 THEN <<>> ELSE w(i)
    OBVIOUS
  <2>6. v = [i \in 0 .. n |-> v[i]]
    BY Zenon
  <2> HIDE DEF v
  <2> DEFINE x == [i \in 0 .. n |-> IF i = 0 THEN <<>> ELSE
                        IF i = 1 THEN ss[1] ELSE v[i - 1] \o <<" ">> \o ss[i]]
  <2>2. \A i \in 0 .. n : x[i] = IF i = 0 THEN <<>> ELSE
                        IF i = 1 THEN ss[1] ELSE v[i - 1] \o <<" ">> \o ss[i]
    OBVIOUS
  <2>3. x = [i \in 0 .. n |-> x[i]]
    BY Zenon
  <2> HIDE DEF x
  <2>4. ASSUME NEW i \in 0 .. n PROVE x[i] = v[i]
    <3>1. CASE i = 0
      BY <2>1, <2>2, <3>1
    <3>2. CASE i = 1
      BY <1>4, <2>1, <2>2, <3>2
    <3>3. CASE i \notin {0, 1}
      <4>1. i \in 2 .. n /\ i - 1 \in 0 .. n /\ i - 1 # 0 /\ i # 0 /\ i # 1
        BY <1>1, <3>3
      <4>2. v[i - 1] = w(i - 1) /\ v[i] = w(i)
        BY <2>1, <4>1
      <4>3. x[i] = v[i - 1] \o <<" ">> \o ss[i]
        BY <2>2, <4>1
      <4> QED
        BY <1>5, <4>1, <4>2, <4>3, Zenon
    <3> QED
      BY <3>1, <3>2, <3>3
  <2>5. x = v
    BY <2>3, <2>4, <2>6
  <2> QED
    BY <2>5 DEF IsJoin, x
<1>7. PICK g : IsJoin(ss, n, g) /\ Joined(ss) = g[n]
  BY <1>6, JoinedIs DEF n
<1>8. \A i \in 0 .. n : g[i] = IF i = 0 THEN <<>> ELSE
                        IF i = 1 THEN ss[1] ELSE g[i - 1] \o <<" ">> \o ss[i]
  BY <1>7, Zenon DEF IsJoin
<1> DEFINE S == {i \in 0 .. n : i # 0 => g[i] = w(i)}
<1>9. 0 \in S
  BY <1>1
<1>10. ASSUME NEW i \in 1 .. n, i - 1 \in S PROVE i \in S
  <2>1. CASE i = 1
    <3>1. i \in 0 .. n /\ i # 0
      BY <2>1
    <3>2. g[i] = ss[1]
      BY <1>8, <2>1, <3>1
    <3> QED
      BY <1>4, <2>1, <3>1, <3>2
  <2>2. CASE i # 1
    <3>1. i \in 2 .. n /\ i \in 0 .. n /\ i - 1 # 0 /\ i # 0
      BY <1>1, <2>2
    <3>2. g[i - 1] = w(i - 1)
      BY <1>10, <3>1
    <3>3. g[i] = g[i - 1] \o <<" ">> \o ss[i]
      BY <1>8, <2>2, <3>1
    <3>4. g[i] = w(i)
      BY <1>5, <3>1, <3>2, <3>3, Zenon
    <3> QED
      BY <3>1, <3>4
  <2> QED
    BY <2>1, <2>2
<1> HIDE DEF S
<1>14. \A i \in 0 .. n : i \in S
  BY <1>1, <1>9, <1>10, Induct
<1>11. n \in S
  BY <1>1, <1>14
<1>12. g[n] = w(n)
  BY <1>1, <1>11 DEF S
<1>13. (b[n] - b[0]) - 1 \in Nat
  BY <1>1, <1>3
<1> QED
  BY <1>7, <1>12, <1>13 DEF w, n

(* The NUL of the last string is found by counting. *)
LEMMA NthNulEnds ==
  ASSUME NEW t, NEW ss, NEW b, Laid(t, ss, b), Len(ss) # 0
  PROVE  NthNul(t, b[0] + 1, Len(ss)) = b[Len(ss)]
<1> DEFINE n == Len(ss)
           o == b[0] + 1
           hits == Nuls(t, o)
           Below(x) == UpToIndex(hits, x)
<1> USE DEF Nuls, UpToIndex
<1>1. /\ n \in Nat \ {0} /\ t \in Seq(Char) /\ Len(t) \in Nat
      /\ \A i \in 0 .. n : b[i] \in Nat /\ b[i] <= Len(t)
      /\ \A i \in 1 .. n : Part(t, ss[i], b[i - 1], b[i])
  BY LenProperties DEF Laid
<1>2. \A m \in 0 .. n : \A i \in 0 .. m : b[i] + (m - i) <= b[m]
  BY LaidIncreases
<1> HIDE DEF n
<1>3. o \in Nat \ {0} /\ o = b[0] + 1 /\ 0 \in 0 .. n /\ n \in 0 .. n
  BY <1>1
<1> HIDE DEF o
<1>4. hits \in SUBSET Nat /\ IsFiniteSet(hits)
  <2>1. hits \subseteq o .. Len(t)
    OBVIOUS
  <2>3. IsFiniteSet(o .. Len(t))
    <3>1. o \in Int /\ Len(t) \in Int
      BY <1>1, <1>3
    <3> QED
      BY <3>1, FS_Interval
  <2>2. o .. Len(t) \subseteq Nat
    BY <1>1, <1>3
  <2> HIDE DEF hits
  <2> QED
    BY <2>1, <2>2, <2>3, FS_Subset
<1>5. \A x : IsFiniteSet(Below(x)) /\ Cardinality(Below(x)) \in Nat
  <2> TAKE x
  <2>1. Below(x) \subseteq hits
    OBVIOUS
  <2> HIDE DEF Below, hits
  <2> QED
    BY <1>4, <2>1, FS_Subset, FS_CardinalityType
<1> DEFINE S == {i \in 0 .. n : Cardinality(Below(b[i])) = i}
<1>6. 0 \in S
  <2>1. \A j \in hits : ~(j <= b[0])
    BY <1>1, <1>3
  <2>2. Below(b[0]) = {}
    <3> HIDE DEF hits
    <3> QED
      BY <2>1
  <2> HIDE DEF Below
  <2> QED
    BY <1>3, <2>2, FS_EmptySet
<1>7. ASSUME NEW i \in 1 .. n, i - 1 \in S PROVE i \in S
  <2>1. i \in 0 .. n /\ i - 1 \in 0 .. n /\ i - 1 \in Nat /\ 0 \in 0 .. i - 1 /\ (i - 1) + 1 = i
    BY <1>1
  <2>2. Part(t, ss[i], b[i - 1], b[i])
    BY <1>1
  <2>3. b[i] \in Nat /\ b[i - 1] \in Nat /\ b[i - 1] < b[i] /\ t[b[i]] = Nul
        /\ Find(Nul, t, b[i - 1] + 1) = b[i]
    <3>1. b[i] \in Nat /\ b[i - 1] \in Nat
      BY <1>1, <2>1
    <3>2. t[b[i]] = Nul
      BY <2>2 DEF Part
    <3>3. Find(Nul, t, b[i - 1] + 1) = b[i] /\ b[i - 1] < b[i]
      BY <1>1, <2>2, PartIsFound
    <3> QED
      BY <3>1, <3>2, <3>3
  <2>4. \A j \in b[i - 1] + 1 .. b[i] - 1 : t[j] # Nul
    <3>1. FoundAt(Nul, t, b[i - 1] + 1, b[i])
      BY <1>1, <2>3, FindIs
    <3>2. b[i] <= Len(t)
      BY <1>1, <2>1
    <3> QED
      BY <1>1, <2>3, <3>1, <3>2 DEF FoundAt
  <2>5. b[0] <= b[i - 1]
    <3>1. b[0] + ((i - 1) - 0) <= b[i - 1]
      BY <1>2, <2>1
    <3> QED
      BY <1>1, <1>3, <2>1, <2>3, <3>1
  <2>6. b[i] \in hits
    BY <1>1, <1>3, <2>1, <2>3, <2>5
  <2>7. \A j \in hits : j <= b[i] <=> (j <= b[i - 1] \/ j = b[i])
    <3> TAKE j \in hits
    <3>1. j \in Nat /\ t[j] = Nul
      BY <1>4
    <3>2. ~(b[i - 1] < j /\ j < b[i])
      BY <2>3, <2>4, <3>1
    <3> HIDE DEF hits
    <3> QED
      BY <2>3, <3>1, <3>2
  <2>8. Below(b[i]) = Below(b[i - 1]) \union {b[i]} /\ b[i] \notin Below(b[i - 1])
    <3>1. ~(b[i] <= b[i - 1])
      BY <2>3
    <3> HIDE DEF hits
    <3> QED
      BY <2>6, <2>7, <3>1
  <2>9. Cardinality(Below(b[i - 1])) = i - 1
    BY <1>7
  <2> DEFINE X == Below(b[i - 1])
             Y == Below(b[i])
  <2>10. IsFiniteSet(X) /\ Y = X \union {b[i]} /\ b[i] \notin X /\ Cardinality(X) = i - 1
    BY <1>5, <2>8, <2>9
  <2> HIDE DEF X, Y
  <2>11. Cardinality(Y) = (i - 1) + 1
    BY <2>10, FS_AddElement
  <2> QED
    BY <2>1, <2>11 DEF Y
<1> HIDE DEF S
<1>8. \A i \in 0 .. n : i \in S
  BY <1>1, <1>6, <1>7, Induct
<1>9. Cardinality(Below(b[n])) = n
  BY <1>3, <1>8 DEF S
<1>10. b[n] \in hits
  <2>1. n \in 1 .. n /\ 0 \in 0 .. n
    BY <1>1
  <2>2. t[b[n]] = Nul
    BY <1>1, <2>1 DEF Part
  <2>3. b[0] + (n - 0) <= b[n]
    BY <1>2, <1>3
  <2> QED
    BY <1>1, <1>3, <2>2, <2>3
<1>11. ASSUME NEW x \in hits, NEW y \in hits, x < y
       PROVE  Cardinality(Below(x)) < Cardinality(Below(y))
  <2>1. x \in Nat /\ y \in Nat
    BY <1>4
  <2> DEFINE X == Below(x)
             Y == Below(y)
  <2>2. X \subseteq Y /\ y \in Y /\ y \notin X
    <3>1. \A j \in hits : j \in Nat
      BY <1>4
    <3> HIDE DEF hits
    <3>2. ~(y <= x) /\ y <= y /\ \A j \in hits : j <= x => j <= y
      BY <1>11, <2>1, <3>1
    <3> QED
      BY <3>2, Zenon
  <2>3. IsFiniteSet(X) /\ IsFiniteSet(Y) /\ Cardinality(X) \in Nat /\ Cardinality(Y) \in Nat
    BY <1>5
  <2> HIDE DEF X, Y
  <2>4. X \union {y} \subseteq Y /\ Cardinality(X \union {y}) = Cardinality(X) + 1
    BY <2>2, <2>3, FS_AddElement
  <2>5. Cardinality(X \union {y}) <= Cardinality(Y)
    BY <2>3, <2>4, FS_Subset
  <2>6. Cardinality(X) < Cardinality(Y)
    BY <2>3, <2>4, <2>5
  <2> QED
    BY <2>6 DEF X, Y
<1>12. Cardinality(hits) \in Nat /\ ~(Cardinality(hits) < n)
  <2>1. Below(b[n]) \subseteq hits
    OBVIOUS
  <2> HIDE DEF Below, hits
  <2>2. Cardinality(Below(b[n])) <= Cardinality(hits) /\ Cardinality(hits) \in Nat
    BY <1>4, <2>1, FS_Subset, FS_CardinalityType
  <2> QED
    BY <1>1, <1>9, <2>2
<1> DEFINE r == NthNul(t, o, n)
<1>13. r \in hits /\ Cardinality(Below(r)) = n
  <2>1. \/ Cardinality(hits) < n /\ r = o
        \/ r \in hits /\ Cardinality(Below(r)) = n
    <3>1. o \in Nat \ {0} /\ n \in Nat \ {0} /\ Len(t) \in Nat
      BY <1>1, <1>3
    <3> QED
      <4> HIDE DEF Nuls, UpToIndex
      <4> QED
        BY <3>1, NthNulIs
  <2> QED
    BY <1>12, <2>1
<1> HIDE DEF r, hits, Below
<1>14. r = b[n]
  <2>1. r \in Nat /\ b[n] \in Nat
    BY <1>4, <1>10, <1>13
  <2>2. ~(r < b[n])
    BY <1>1, <1>9, <1>10, <1>11, <1>13
  <2>3. ~(b[n] < r)
    BY <1>1, <1>9, <1>10, <1>11, <1>13
  <2> QED
    BY <2>1, <2>2, <2>3
<1> QED
  BY <1>3, <1>14 DEF r, n

(* The arguments are found behind the path and its NULs. *)
LEMMA ArgsStartBehindPath ==
  ASSUME NEW t \in Seq(Char), NEW o \in Nat, o >= 2, o + 1 <= Len(t), t[1] = "a",
         \A j \in 2 .. o : t[j] = Nul, t[o + 1] # Nul
  PROVE  ArgsStart(t) = o + 1
<1>1. Len(t) \in Nat
  BY LenProperties
<1>2. ExeEnd(t) = 2
  <2> DEFINE f == ExeEnd(t)
  <2>1. FoundAt(Nul, t, 1, f)
    BY <1>1, FindIs DEF ExeEnd
  <2> HIDE DEF f
  <2>2. t[2] = Nul /\ t[1] # Nul /\ 2 \in 1 .. Len(t)
    BY <1>1 DEF Nul
  <2>3. f \in 1 .. Len(t) /\ t[f] = Nul /\ \A j \in 1 .. f - 1 : t[j] # Nul
    BY <1>1, <2>1, <2>2 DEF FoundAt
  <2>4. f # 1 /\ ~(2 < f)
    BY <2>2, <2>3
  <2>5. f = 2
    BY <2>3, <2>4
  <2> QED
    BY <2>5 DEF f
<1> DEFINE r == ArgsStart(t)
<1>3. r \in 2 .. Len(t) + 1 /\ BeginsAt(t, r)
  BY <1>1, <1>2, ArgsStartIs
<1> HIDE DEF r
<1>4. r <= Len(t) /\ t[r] # Nul /\ \A j \in 2 .. r - 1 : t[j] = Nul
  <2>1. \/ r <= Len(t) /\ t[r] # Nul /\ \A j \in 2 .. r - 1 : t[j] = Nul
        \/ r = 2 /\ \A j \in r .. Len(t) : t[j] = Nul
    BY <1>2, <1>3 DEF BeginsAt
  <2>2. ~(r = 2 /\ \A j \in r .. Len(t) : t[j] = Nul)
    BY <1>1
  <2> QED
    BY <2>1, <2>2
<1>5. ~(r < o + 1)
  BY <1>3, <1>4
<1>6. ~(o + 1 < r)
  BY <1>3, <1>4
<1>7. r = o + 1
  BY <1>3, <1>5, <1>6
<1> QED
  BY <1>7 DEF r

----------------------------------------------------------------------------
(* The invariant of the strings.  The arguments that have to come out: a   *)
(* title loses its last one.                                               *)
Due == IF input = <<>> THEN given.argv
       ELSE SubSeq(given.argv, 1, Len(given.argv) - 1)

(* The first ones of them have come out. *)
Taken == /\ Due \in Seq(Seq(Plain)) /\ args \in Seq(Seq(Plain))
         /\ Len(args) \in 0 .. Len(Due)
         /\ \A i \in 1 .. Len(args) : args[i] = Due[i]

CommandText(b) == /\ Laid(text, Due, b) /\ b[0] = 0 /\ Due \in Seq(Seq(Plain))
                  /\ \A j \in b[Len(Due)] + 1 .. Len(text) : text[j] # Nul
                  /\ input = <<>> => b[Len(Due)] = Len(text)

CommandState(b) == /\ Taken /\ pos = b[Len(args)]
                   /\ result.kind = "Ok" => Len(args) = Len(Due)

CommandInv == op = "command" =>
                \E b : CommandText(b) /\ (Delimiter(text) = Nul => CommandState(b))

(* A title is in the file instead of its arguments. *)
LEMMA TitleIs ==
  ASSUME NEW a \in Seq(Words), NEW w \in Words
  PROVE  SubSeq(Append(a, w), 1, Len(Append(a, w)) - 1) = a
<1>1. /\ Append(a, w) \in Seq(Words) /\ Len(Append(a, w)) = Len(a) + 1 /\ Len(a) \in Nat
      /\ \A i \in 1 .. Len(a) : Append(a, w)[i] = a[i]
  BY AppendProperties, LenProperties
<1> DEFINE x == Append(a, w)
           s == SubSeq(x, 1, Len(x) - 1)
<1> HIDE DEF x
<1>2. \A i \in 1 .. Len(x) - 1 : x[i] \in Words
  <2>1. \A i \in 1 .. Len(a) : a[i] \in Words
    BY ElementOfSeq
  <2> QED
    BY <1>1, <2>1 DEF x
<1>3. Len(x) = Len(a) + 1 /\ Len(x) - 1 = Len(a)
  BY <1>1 DEF x
<1>4. s \in Seq(Words) /\ Len(s) = Len(a) /\ \A i \in 1 .. Len(a) : s[i] = x[i]
  <2>1. /\ s \in Seq(Words) /\ Len(s) = IF 1 <= Len(x) - 1 THEN (Len(x) - 1) - 1 + 1 ELSE 0
        /\ \A i \in 1 .. (Len(x) - 1) - 1 + 1 : s[i] = x[1 + i - 1]
    BY <1>1, <1>2, <1>3, SubSeqProperties
  <2> QED
    BY <1>1, <1>3, <2>1
<1> HIDE DEF s
<1>5. s = a
  BY <1>1, <1>4, SeqEqual DEF x
<1> QED
  BY <1>5 DEF s, x

LEMMA WordsArePlain ==
  /\ Words \subseteq Seq(Plain) /\ Entries \subseteq Seq(Plain)
  /\ Seq(Plain) \subseteq Seq(Char)
<1>1. Words \subseteq Seq(Plain) /\ Entries \subseteq Seq(Plain)
  BY ParserAssumption, Zenon DEF Plain
<1>2. Plain \subseteq Char
  BY DEF Plain, Char
<1> QED
  BY <1>1, <1>2, Wider

(* Arguments and entries that a process may have. *)
LEMMA UpToPlain ==
  ASSUME NEW S, S \subseteq Seq(Plain), NEW a \in UpTo(S)
  PROVE  /\ a \in Seq(S) /\ a \in Seq(Seq(Plain)) /\ Len(a) \in Nat
         /\ \A i \in 1 .. Len(a) : a[i] \in Seq(Plain)
         /\ NulAfter(a) \in Seq(Char)
<1>1. \A w \in S : w \in Seq(Char)
  BY WordsArePlain
<1>2. a \in Seq(S) /\ NulAfter(a) \in Seq(Char) /\ Len(a) \in 0 .. MaxArgs /\ MaxArgs \in Nat
      /\ \A i \in 1 .. Len(a) : a[i] \in S
  BY <1>1, UpToIs
<1>3. Len(a) \in Nat
  BY <1>2
<1>4. a \in Seq(Seq(Plain))
  BY <1>2, Wider
<1> QED
  BY <1>2, <1>3, <1>4

(* Nothing in front, and nothing or a word behind. *)
LEMMA LaidAlone ==
  ASSUME NEW ss, Len(ss) \in Nat, \A i \in 1 .. Len(ss) : ss[i] \in Seq(Plain),
         NulAfter(ss) \in Seq(Char), NEW q \in Seq(Char)
  PROVE  \E b : /\ Laid(NulAfter(ss) \o q, ss, b) /\ b[0] = 0
                /\ b[Len(ss)] = Len(NulAfter(ss))
<1> DEFINE c == NulAfter(ss)
           p == <<>>
<1>1. p \in Seq(Char) /\ Len(p) = 0 /\ p \o c = c
  BY EmptySeq, ConcatEmptySeq
<1> HIDE DEF p
<1>2. PICK b : Laid((p \o c) \o q, ss, b) /\ b[0] = Len(p) /\ b[Len(ss)] = Len(p) + Len(c)
  BY <1>1, LaidIn
<1>3. Len(c) \in Nat
  BY LenProperties
<1> QED
  BY <1>1, <1>2, <1>3

LEMMA Alone ==
  ASSUME NEW c \in Seq(Char)
  PROVE  c \o <<>> = c /\ <<>> \in Seq(Char)
BY EmptySeq, ConcatEmptySeq

(* A call that has just begun. *)
LEMMA Begun ==
  ASSUME Inv, NEW m, NEW in, NEW txt, NEW g, Fresh, Start(m, in, txt, g)
  PROVE  /\ pc' = "open" /\ op' = m /\ input' = in /\ text' = txt /\ given' = g
         /\ pos' = 0 /\ stop' = 0 /\ left' = 0 /\ args' = <<>> /\ envs' = <<>>
         /\ result' = Nothing /\ Nothing.kind = "none"
<1>1. result = Nothing /\ pc = "idle"
  BY DEF Fresh
<1>2. Unread
  BY <1>1 DEF Inv, Phase
<1> QED
  BY <1>1, <1>2 DEF Unread, Start, Nothing

LEMMA CommandBegins ==
  ASSUME Inv, NEW a \in Seq(Seq(Plain)), NEW txt, NEW b,
         op' = "command", text' = txt, Due' = a,
         Laid(txt, a, b), b[0] = 0,
         \A j \in b[Len(a)] + 1 .. Len(txt) : txt[j] # Nul,
         input' = <<>> => b[Len(a)] = Len(txt),
         pos' = 0, args' = <<>>, result' = Nothing
  PROVE  CommandInv'
<1>1. CommandText(b)'
  BY DEF CommandText
<1>2. CommandState(b)'
  <2>1. args' \in Seq(Seq(Plain)) /\ Len(args') = 0
    BY EmptySeq
  <2>2. Len(a) \in Nat
    BY LenProperties
  <2>3. Taken'
    BY <2>1, <2>2 DEF Taken
  <2>4. result'.kind # "Ok"
    BY DEF Nothing
  <2> QED
    BY <2>1, <2>3, <2>4 DEF CommandState
<1> QED
  BY <1>1, <1>2 DEF CommandInv

LEMMA BeginCommandStrings ==
  ASSUME Inv, BeginCommand
  PROVE  CommandInv'
<1>1. PICK a \in UpTo(Words) :
             Start("command", <<>>, NulAfter(a), [argv |-> a, env |-> <<>>])
  BY DEF BeginCommand
<1> DEFINE g == [argv |-> a, env |-> <<>>]
           c == NulAfter(a)
<1>2. g.argv = a
  OBVIOUS
<1>3. Fresh /\ Start("command", <<>>, c, g)
  BY <1>1 DEF BeginCommand
<1> HIDE DEF g
<1>4. /\ op' = "command" /\ input' = <<>> /\ text' = c /\ given' = g
      /\ pos' = 0 /\ args' = <<>> /\ result' = Nothing
  BY <1>3, Begun
<1>5. Due' = a
  BY <1>2, <1>4 DEF Due
<1>6. /\ a \in Seq(Seq(Plain)) /\ Len(a) \in Nat /\ c \in Seq(Char)
      /\ \A i \in 1 .. Len(a) : a[i] \in Seq(Plain)
  BY UpToPlain, WordsArePlain
<1>7. c \o <<>> = c /\ <<>> \in Seq(Char)
  BY <1>6, Alone
<1>8. PICK b : Laid(c \o <<>>, a, b) /\ b[0] = 0 /\ b[Len(a)] = Len(c)
  BY <1>6, <1>7, LaidAlone
<1>9. Laid(c, a, b)
  BY <1>7, <1>8
<1>10. Len(c) \in Nat
  BY <1>6, LenProperties
<1>11. \A j \in b[Len(a)] + 1 .. Len(c) : c[j] # Nul
  BY <1>8, <1>10
<1> HIDE DEF c
<1> QED
  BY <1>4, <1>5, <1>6, <1>8, <1>9, <1>11, CommandBegins

LEMMA BeginTitleStrings ==
  ASSUME Inv, BeginTitle
  PROVE  CommandInv'
<1>1. PICK a \in UpTo(Words), w \in Words \ {<<>>} :
             Start("command", <<"title">>, NulAfter(a) \o w,
                   [argv |-> Append(a, w), env |-> <<>>])
  BY DEF BeginTitle
<1> DEFINE g == [argv |-> Append(a, w), env |-> <<>>]
           c == NulAfter(a)
           t == c \o w
<1>2. g.argv = Append(a, w)
  OBVIOUS
<1>3. Fresh /\ Start("command", <<"title">>, t, g)
  BY <1>1 DEF BeginTitle
<1> HIDE DEF g
<1>4. /\ op' = "command" /\ input' = <<"title">> /\ text' = t /\ given' = g
      /\ pos' = 0 /\ args' = <<>> /\ result' = Nothing
  BY <1>3, Begun
<1>5. /\ a \in Seq(Words) /\ a \in Seq(Seq(Plain)) /\ Len(a) \in Nat /\ c \in Seq(Char)
      /\ \A i \in 1 .. Len(a) : a[i] \in Seq(Plain)
  BY UpToPlain, WordsArePlain
<1>6. <<"title">> # <<>>
  OBVIOUS
<1>7. Due' = a
  <2>1. SubSeq(Append(a, w), 1, Len(Append(a, w)) - 1) = a
    BY <1>5, TitleIs
  <2> QED
    BY <1>2, <1>4, <1>6, <2>1 DEF Due
<1>8. w \in Seq(Char) /\ w \in Seq(Plain)
  BY WordsArePlain
<1>9. PICK b : Laid(t, a, b) /\ b[0] = 0 /\ b[Len(a)] = Len(c)
  BY <1>5, <1>8, LaidAlone
<1>10. ASSUME NEW j \in b[Len(a)] + 1 .. Len(t) PROVE t[j] # Nul
  <2>1. /\ Len(t) = Len(c) + Len(w) /\ Len(c) \in Nat /\ Len(w) \in Nat
        /\ \A i \in 1 .. Len(w) : t[Len(c) + i] = w[i]
    BY <1>5, <1>8, Join
  <2> HIDE DEF t, c
  <2> DEFINE i == j - Len(c)
  <2>2. i \in 1 .. Len(w) /\ j = Len(c) + i
    BY <1>9, <2>1
  <2> HIDE DEF i
  <2>3. t[j] = w[i]
    BY <2>1, <2>2
  <2>4. w[i] \in Plain
    BY <1>8, <2>2, ElementOfSeq
  <2>5. Nul \notin Plain
    BY DEF Nul, Plain
  <2> QED
    BY <2>3, <2>4, <2>5
<1> HIDE DEF t
<1> QED
  BY <1>4, <1>5, <1>6, <1>7, <1>9, <1>10, CommandBegins

(* An argument more. *)
LEMMA TakenNext ==
  ASSUME Taken, Due' = Due, Len(args) < Len(Due), args' = Append(args, Due[Len(args) + 1])
  PROVE  Taken' /\ Len(args') = Len(args) + 1
<1> DEFINE k == Len(args)
           n == Len(Due)
<1>1. Due \in Seq(Seq(Plain)) /\ args \in Seq(Seq(Plain)) /\ n \in Nat /\ k \in Nat
  BY LenProperties DEF Taken
<1>2. k + 1 \in 1 .. n /\ k + 1 \in 0 .. n
  BY <1>1
<1>3. Due[k + 1] \in Seq(Plain)
  BY <1>1, <1>2, ElementOfSeq
<1>4. /\ args' \in Seq(Seq(Plain)) /\ Len(args') = k + 1
      /\ \A i \in 1 .. k : args'[i] = args[i]
      /\ args'[k + 1] = Due[k + 1]
  BY <1>1, <1>3, AppendProperties
<1>5. ASSUME NEW i \in 1 .. k + 1 PROVE args'[i] = Due[i]
  <2>1. CASE i = k + 1
    BY <1>4, <2>1
  <2>2. CASE i # k + 1
    <3>1. i \in 1 .. k
      BY <1>1, <2>2
    <3> QED
      BY <1>4, <3>1 DEF Taken
  <2> QED
    BY <2>1, <2>2
<1> QED
  BY <1>1, <1>2, <1>4, <1>5 DEF Taken

(* The next argument is found, up to the last. *)
LEMMA CommandNextStrings ==
  ASSUME Inv, CommandInv, CommandNext
  PROVE  CommandInv'
<1>1. /\ op = "command" /\ pc = "arguments" /\ op' = op /\ input' = input
      /\ text' = text /\ given' = given
  BY DEF CommandNext, Same
<1>2. Due' = Due
  BY <1>1 DEF Due
<1>3. PICK b : CommandText(b) /\ (Delimiter(text) = Nul => CommandState(b))
  BY <1>1 DEF CommandInv
<1>4. CommandText(b)'
  BY <1>1, <1>2, <1>3 DEF CommandText
<1>5. ASSUME Delimiter(text)' = Nul PROVE CommandState(b)'
  <2>1. Delimiter(text) = Nul
    BY <1>1, <1>5
  <2>2. CommandState(b) /\ Taken /\ pos = b[Len(args)]
    BY <1>3, <2>1 DEF CommandState
  <2> DEFINE k == Len(args)
             n == Len(Due)
             e == Find(Nul, text, pos + 1)
  <2>3. \/ /\ pos >= Len(text) \/ e > Len(text)
           /\ UNCHANGED <<pos, args>>
        \/ /\ ~(pos >= Len(text) \/ e > Len(text))
           /\ args' = Append(args, SubSeq(text, pos + 1, e - 1))
           /\ pos' = e /\ UNCHANGED result
    BY <2>1, Zenon DEF CommandNext
  <2>4. /\ Laid(text, Due, b) /\ text \in Seq(Char) /\ n \in Nat /\ Len(text) \in Nat
        /\ \A i \in 0 .. n : b[i] \in Nat /\ b[i] <= Len(text)
        /\ \A i \in 1 .. n : Part(text, Due[i], b[i - 1], b[i])
    BY <1>3, LenProperties DEF CommandText, Laid
  <2>5. k \in 0 .. n /\ k \in Nat
    BY <2>2, <2>4 DEF Taken
  <2>6. result.kind = "none"
    BY <1>1 DEF Inv, Phase, Nothing
  <2>7. CASE k < n
    <3>1. k + 1 \in 1 .. n /\ (k + 1) - 1 = k
      BY <2>4, <2>5, <2>7
    <3>2. Part(text, Due[k + 1], b[k], b[k + 1])
      BY <2>4, <3>1
    <3>3. /\ Find(Nul, text, b[k] + 1) = b[k + 1]
          /\ SubSeq(text, b[k] + 1, b[k + 1] - 1) = Due[k + 1]
          /\ b[k + 1] \in Nat /\ b[k] < b[k + 1] /\ b[k + 1] <= Len(text)
      <4>1. b[k + 1] <= Len(text)
        BY <2>4, <3>1
      <4> QED
        BY <2>4, <3>2, <4>1, PartIsFound
    <3>4. e = b[k + 1] /\ pos = b[k] /\ pos \in Nat
      BY <2>2, <2>4, <2>5, <3>3
    <3> HIDE DEF e
    <3>5. ~(pos >= Len(text) \/ e > Len(text))
      BY <2>4, <3>3, <3>4, SMTT(60)
    <3>6. args' = Append(args, Due[k + 1]) /\ pos' = b[k + 1] /\ result' = result
      BY <2>3, <3>3, <3>4, <3>5
    <3>7. Taken' /\ Len(args') = k + 1
      BY <1>2, <2>2, <2>7, <3>6, TakenNext
    <3> QED
      BY <1>2, <2>6, <3>6, <3>7 DEF CommandState
  <2>8. CASE k = n
    <3>1. pos = b[n] /\ pos \in Nat
      BY <2>2, <2>4, <2>5, <2>8
    <3>2. pos >= Len(text) \/ e > Len(text)
      <4>1. FoundAt(Nul, text, pos + 1, e)
        BY <2>4, <3>1, FindIs
      <4> HIDE DEF e
      <4>2. \A j \in pos + 1 .. Len(text) : text[j] # Nul
        BY <1>3, <3>1 DEF CommandText
      <4> QED
        BY <2>4, <4>1, <4>2 DEF FoundAt
    <3> HIDE DEF e
    <3>3. UNCHANGED <<pos, args>>
      BY <2>3, <3>2
    <3> QED
      BY <1>2, <2>2, <2>8, <3>3 DEF CommandState, Taken
  <2> QED
    BY <2>4, <2>5, <2>7, <2>8
<1> QED
  BY <1>1, <1>4, <1>5 DEF CommandInv

(* What the arguments are, once they have all come out. *)
LEMMA DueIsDone ==
  ASSUME Taken, Len(args) = Len(Due)
  PROVE  args = Due
BY SeqEqual DEF Taken

LEMMA EndsWithNul ==
  ASSUME NEW b, CommandText(b), input = <<>>
  PROVE  /\ Delimiter(text) = Nul
         /\ Len(Due) # 0 => ToOsString(text) = Spaced(text, 0, Len(text) - 1)
         /\ Len(Due) = 0 => ToOsString(text) = <<>>
<1> DEFINE n == Len(Due)
<1>1. /\ text \in Seq(Char) /\ n \in Nat /\ Len(text) \in Nat /\ b[n] = Len(text) /\ b[0] = 0
      /\ \A i \in 1 .. n : Part(text, Due[i], b[i - 1], b[i])
  BY LenProperties DEF CommandText, Laid
<1> HIDE DEF n
<1>2. n # 0 => text[Len(text)] = Nul
  <2> SUFFICES ASSUME n # 0 PROVE text[Len(text)] = Nul
    OBVIOUS
  <2>1. n \in 1 .. n
    BY <1>1
  <2>2. Part(text, Due[n], b[n - 1], b[n])
    BY <1>1, <2>1
  <2>3. text[b[n]] = Nul
    BY <2>2 DEF Part
  <2> QED
    BY <1>1, <2>3
<1>3. n = 0 => text = <<>>
  BY <1>1, EmptySeq
<1>4. Nul # " "
  BY DEF Nul
<1>5. Delimiter(text) = Nul
  BY <1>2, <1>3, <1>4 DEF Delimiter
<1>6. ToOsString(text) = [i \in 1 .. Len(text) - 1 |-> IF text[i] = Nul THEN " " ELSE text[i]]
  BY <1>4, <1>5, Zenon DEF ToOsString
<1>7. n # 0 => ToOsString(text) = Spaced(text, 0, Len(text) - 1)
  <2>1. \A i \in 1 .. Len(text) - 1 : 0 + i = i
    BY <1>1
  <2> QED
    BY <1>6, <2>1 DEF Spaced
<1>8. n = 0 => ToOsString(text) = <<>>
  <2> SUFFICES ASSUME n = 0 PROVE ToOsString(text) = <<>>
    OBVIOUS
  <2> DEFINE f == [i \in 1 .. Len(text) - 1 |-> IF text[i] = Nul THEN " " ELSE text[i]]
  <2>1. Len(text) = 0
    BY <1>1
  <2>2. 1 .. Len(text) - 1 = 1 .. 0 /\ \A i \in 1 .. 0 : FALSE
    BY <2>1
  <2>3. f \in [1 .. 0 -> Char]
    BY <2>2
  <2> HIDE DEF f
  <2>4. f \in Seq(Char) /\ Len(f) = 0
    BY <2>3, SeqDef, LenProperties
  <2> QED
    BY <1>6, <2>4, EmptySeq DEF f
<1> QED
  BY <1>5, <1>7, <1>8 DEF n

LEMMA JoinedNothing ==
  ASSUME NEW ss, Len(ss) = 0
  PROVE  Joined(ss) = <<>>
<1> DEFINE v == [i \in 0 .. 0 |-> <<>>]
<1>1. IsJoin(ss, 0, v)
  <2>1. \A i \in 0 .. 0 : i = 0
    OBVIOUS
  <2> QED
    BY <2>1 DEF IsJoin
<1>2. PICK g : IsJoin(ss, 0, g) /\ Joined(ss) = g[0]
  BY <1>1, JoinedIs
<1>3. \A i \in 0 .. 0 : g[i] = IF i = 0 THEN <<>> ELSE
                        IF i = 1 THEN ss[1] ELSE g[i - 1] \o <<" ">> \o ss[i]
  BY <1>2, Zenon DEF IsJoin
<1>4. 0 \in 0 .. 0
  OBVIOUS
<1> QED
  BY <1>2, <1>3, <1>4

LEMMA CommandSurvives ==
  ASSUME CommandInv, op = "command", result.kind = "Ok"
  PROVE  /\ input = <<>> => args = given.argv /\ ToOsString(text) = Joined(given.argv)
         /\ input # <<>> /\ Delimiter(text) = Nul =>
              args = SubSeq(given.argv, 1, Len(given.argv) - 1)
<1>1. PICK b : CommandText(b) /\ (Delimiter(text) = Nul => CommandState(b))
  BY DEF CommandInv
<1>2. Delimiter(text) = Nul => args = Due
  BY <1>1, DueIsDone DEF CommandState
<1>3. input # <<>> /\ Delimiter(text) = Nul =>
        args = SubSeq(given.argv, 1, Len(given.argv) - 1)
  BY <1>2 DEF Due
<1>4. ASSUME input = <<>>
      PROVE  args = given.argv /\ ToOsString(text) = Joined(given.argv)
  <2>1. Due = given.argv
    BY <1>4 DEF Due
  <2>2. /\ Delimiter(text) = Nul
        /\ Len(Due) # 0 => ToOsString(text) = Spaced(text, 0, Len(text) - 1)
        /\ Len(Due) = 0 => ToOsString(text) = <<>>
    BY <1>1, <1>4, EndsWithNul
  <2>3. CASE Len(Due) = 0
    BY <1>2, <2>1, <2>2, <2>3, JoinedNothing
  <2>4. CASE Len(Due) # 0
    <3>1. Laid(text, Due, b) /\ b[0] = 0 /\ b[Len(Due)] = Len(text)
      BY <1>1, <1>4 DEF CommandText
    <3>2. Joined(Due) = Spaced(text, b[0], (b[Len(Due)] - b[0]) - 1)
      BY <2>4, <3>1, JoinedIsSpaced
    <3>3. Len(text) \in Nat
      BY <3>1, LenProperties DEF Laid
    <3>4. (b[Len(Due)] - b[0]) - 1 = Len(text) - 1
      BY <3>1, <3>3
    <3>5. Joined(Due) = Spaced(text, 0, Len(text) - 1)
      BY <3>1, <3>2, <3>4, Zenon
    <3> QED
      BY <1>2, <2>1, <2>2, <2>4, <3>5
  <2> QED
    BY <2>3, <2>4
<1> QED
  BY <1>3, <1>4

----------------------------------------------------------------------------
(* The environment. *)
HasEquals(kv) == \E j \in 2 .. Len(kv) : kv[j] = "="

SplitOK(p, kv) == /\ p[1] \o <<"=">> \o p[2] = kv
                  /\ \A j \in 2 .. Len(p[1]) : p[1][j] # "="
                  /\ p[1] # <<>>

Pair == Seq(Plain) \X Seq(Plain)

LEMMA EntryIsSplit ==
  ASSUME NEW kv \in Seq(Plain), kv # <<>>
  PROVE  \/ ~HasEquals(kv) /\ SplitEntry(kv) = <<>>
         \/ /\ HasEquals(kv)
            /\ \E p \in Pair : SplitEntry(kv) = <<p>> /\ SplitOK(p, kv)
<1> DEFINE d == Find("=", kv, 2)
           l == Len(kv)
<1>1. l \in Nat /\ l # 0 /\ \A j \in 1 .. l : kv[j] \in Plain
  BY LenProperties, ElementOfSeq, EmptySeq
<1>2. FoundAt("=", kv, 2, d)
  BY <1>1, FindIs
<1>3. SplitEntry(kv) = IF d > l THEN <<>>
                       ELSE << <<SubSeq(kv, 1, d - 1), SubSeq(kv, d + 1, l)>> >>
  BY Zenon DEF SplitEntry
<1> HIDE DEF d, l
<1>4. d \in Nat
  BY <1>2 DEF FoundAt
<1>5. CASE d > l
  <2>1. \A j \in 2 .. l : kv[j] # "="
    BY <1>1, <1>2, <1>4, <1>5 DEF FoundAt, l
  <2> QED
    BY <1>3, <1>5, <2>1 DEF HasEquals, l
<1>6. CASE ~(d > l)
  <2>1. d \in 2 .. l /\ kv[d] = "=" /\ \A j \in 2 .. d - 1 : kv[j] # "="
    BY <1>1, <1>2, <1>4, <1>6 DEF FoundAt, l
  <2> DEFINE x == SubSeq(kv, 1, d - 1)
             y == SubSeq(kv, d + 1, l)
             p == <<x, y>>
  <2>2. x \in Seq(Plain) /\ Len(x) = d - 1 /\ \A i \in 1 .. d - 1 : x[i] = kv[i]
    <3>1. \A i \in 1 .. d - 1 : kv[i] \in Plain
      BY <1>1, <2>1
    <3>2. /\ x \in Seq(Plain) /\ Len(x) = IF 1 <= d - 1 THEN (d - 1) - 1 + 1 ELSE 0
          /\ \A i \in 1 .. (d - 1) - 1 + 1 : x[i] = kv[1 + i - 1]
      BY <1>4, <3>1, SubSeqProperties
    <3> QED
      BY <1>1, <2>1, <3>2
  <2>3. y \in Seq(Plain) /\ Len(y) = l - d /\ \A i \in 1 .. l - d : y[i] = kv[d + i]
    <3>1. \A i \in d + 1 .. l : kv[i] \in Plain
      BY <1>1, <2>1
    <3>2. /\ y \in Seq(Plain) /\ Len(y) = IF d + 1 <= l THEN l - (d + 1) + 1 ELSE 0
          /\ \A i \in 1 .. l - (d + 1) + 1 : y[i] = kv[d + 1 + i - 1]
      BY <1>1, <1>4, <3>1, SubSeqProperties
    <3> QED
      BY <1>1, <2>1, <3>2
  <2>4. p[1] = x /\ p[2] = y /\ p \in Pair /\ SplitEntry(kv) = <<p>>
    BY <1>3, <1>6, <2>2, <2>3 DEF Pair
  <2> DEFINE z == <<"=">>
             u == x \o z
             v == u \o y
  <2>5. z \in Seq(Plain) /\ Len(z) = 1 /\ z[1] = "="
    <3>1. "=" \in Plain
      BY DEF Plain
    <3> QED
      BY <3>1, Single
  <2> HIDE DEF x, y, z, p
  <2>6. /\ u \in Seq(Plain) /\ Len(u) = Len(x) + Len(z)
        /\ \A i \in 1 .. Len(x) : u[i] = x[i]
        /\ \A i \in 1 .. Len(z) : u[Len(x) + i] = z[i]
    <3>1. x \in Seq(Plain) /\ z \in Seq(Plain)
      BY <2>2, <2>5
    <3> QED
      BY <3>1, Join
  <2> HIDE DEF u
  <2>7. /\ v \in Seq(Plain) /\ Len(v) = Len(u) + Len(y)
        /\ \A i \in 1 .. Len(u) : v[i] = u[i]
        /\ \A i \in 1 .. Len(y) : v[Len(u) + i] = y[i]
    <3>1. u \in Seq(Plain) /\ y \in Seq(Plain)
      BY <2>3, <2>6
    <3> QED
      BY <3>1, Join
  <2> HIDE DEF v
  <2>8. /\ Len(u) = d /\ u[d] = "=" /\ \A i \in 1 .. d - 1 : u[i] = kv[i]
    <3>1. Len(x) = d - 1 /\ Len(z) = 1 /\ (d - 1) + 1 = d /\ 1 \in 1 .. Len(z)
      BY <1>4, <2>2, <2>5
    <3>2. u[(d - 1) + 1] = z[1]
      BY <2>6, <3>1, Zenon
    <3>3. \A i \in 1 .. d - 1 : u[i] = x[i]
      BY <2>6, <3>1, Zenon
    <3> QED
      BY <2>2, <2>5, <2>6, <3>1, <3>2, <3>3
  <2>9. Len(v) = l
    BY <1>1, <2>1, <2>3, <2>7, <2>8
  <2>10. ASSUME NEW i \in 1 .. l PROVE v[i] = kv[i]
    <3>1. CASE i < d
      <4>1. i \in 1 .. d - 1 /\ i \in 1 .. d
        BY <1>4, <3>1
      <4> QED
        BY <2>7, <2>8, <4>1
    <3>2. CASE i = d
      BY <2>1, <2>7, <2>8, <3>2
    <3>3. CASE i > d
      <4> DEFINE j == i - d
      <4>1. j \in 1 .. l - d /\ i = d + j
        BY <1>1, <1>4, <3>3
      <4> HIDE DEF j
      <4>2. v[d + j] = y[j]
        BY <2>3, <2>7, <2>8, <4>1
      <4> QED
        BY <2>3, <4>1, <4>2
    <3> QED
      BY <1>4, <3>1, <3>2, <3>3
  <2>11. v = kv
    BY <2>7, <2>9, <2>10, SeqEqual DEF l
  <2>12. SplitOK(p, kv)
    <3>1. p[1] \o <<"=">> \o p[2] = kv
      BY <2>4, <2>11 DEF v, u, z
    <3>2. \A j \in 2 .. Len(x) : x[j] # "="
      BY <2>1, <2>2
    <3>3. x # <<>>
      BY <2>1, <2>2, EmptySeq
    <3> QED
      BY <2>4, <3>1, <3>2, <3>3 DEF SplitOK
  <2>13. HasEquals(kv)
    BY <2>1 DEF HasEquals, l
  <2> QED
    BY <2>4, <2>12, <2>13
<1> QED
  BY <1>5, <1>6

(* The entries among the first k that have to come out. *)
Kept(k) == {i \in Whole : i <= k}

LEMMA WholeIs ==
  ASSUME given.env \in Seq(Seq(Plain))
  PROVE  /\ Len(given.env) \in Nat /\ Whole \subseteq 1 .. Len(given.env)
         /\ \A i \in 1 .. Len(given.env) :
              i \in Whole <=> /\ \A j \in 1 .. i : given.env[j] # <<>>
                              /\ HasEquals(given.env[i])
<1>1. Len(given.env) \in Nat /\ DOMAIN given.env = 1 .. Len(given.env)
  BY LenProperties
<1> QED
  BY <1>1 DEF Whole, HasEquals

LEMMA KeptCounts ==
  ASSUME given.env \in Seq(Seq(Plain))
  PROVE  /\ \A k : IsFiniteSet(Kept(k)) /\ Cardinality(Kept(k)) \in Nat
         /\ \A k \in Nat : \A i \in Kept(k) : Cardinality(Kept(i)) \in 1 .. Cardinality(Kept(k))
<1>1. \A k : IsFiniteSet(Kept(k)) /\ Cardinality(Kept(k)) \in Nat
  <2> TAKE k
  <2>1. IsFiniteSet(1 .. Len(given.env))
    BY WholeIs, FS_Interval
  <2>2. Kept(k) \subseteq 1 .. Len(given.env)
    BY WholeIs DEF Kept
  <2> QED
    BY <2>1, <2>2, FS_Subset, FS_CardinalityType
<1>2. ASSUME NEW k \in Nat, NEW i \in Kept(k)
      PROVE  Cardinality(Kept(i)) \in 1 .. Cardinality(Kept(k))
  <2>1. i \in Whole /\ i <= k /\ i \in Nat /\ \A j \in Whole : j \in Nat
    BY WholeIs DEF Kept
  <2>2. Kept(i) \subseteq Kept(k) /\ i \in Kept(i)
    <3>1. i <= i /\ \A j \in Whole : j <= i => j <= k
      BY <2>1
    <3> QED
      BY <2>1, <3>1, Zenon DEF Kept
  <2>3. Cardinality(Kept(i)) <= Cardinality(Kept(k))
    BY <1>1, <2>2, FS_Subset
  <2>4. Cardinality(Kept(i)) # 0
    BY <1>1, <2>2, FS_EmptySet
  <2> QED
    BY <1>1, <2>3, <2>4
<1> QED
  BY <1>1, <1>2

LEMMA KeptNext ==
  ASSUME given.env \in Seq(Seq(Plain)), NEW k \in Nat, k < Len(given.env),
         \A j \in 1 .. k + 1 : given.env[j] # <<>>
  PROVE  /\ ~HasEquals(given.env[k + 1]) => Kept(k + 1) = Kept(k)
         /\ HasEquals(given.env[k + 1]) =>
              /\ Kept(k + 1) = Kept(k) \union {k + 1}
              /\ Cardinality(Kept(k + 1)) = Cardinality(Kept(k)) + 1
<1>1. k + 1 \in 1 .. Len(given.env) /\ \A i \in Whole : i \in Nat
  BY WholeIs
<1>2. k + 1 \in Whole <=> HasEquals(given.env[k + 1])
  BY <1>1, WholeIs
<1>3. \A i \in Whole : i <= k + 1 <=> (i <= k \/ i = k + 1)
  BY <1>1
<1>4. ASSUME ~HasEquals(given.env[k + 1]) PROVE Kept(k + 1) = Kept(k)
  <2>1. k + 1 \notin Whole
    BY <1>2, <1>4
  <2> QED
    BY <1>3, <2>1, Zenon DEF Kept
<1>5. ASSUME HasEquals(given.env[k + 1])
      PROVE  /\ Kept(k + 1) = Kept(k) \union {k + 1}
             /\ Cardinality(Kept(k + 1)) = Cardinality(Kept(k)) + 1
  <2>1. k + 1 \in Whole
    BY <1>2, <1>5
  <2>2. Kept(k + 1) = Kept(k) \union {k + 1}
    BY <1>3, <2>1, Zenon DEF Kept
  <2>3. k + 1 \notin Kept(k)
    BY DEF Kept
  <2> QED
    BY <2>2, <2>3, KeptCounts, FS_AddElement
<1> QED
  BY <1>4, <1>5

EnvText(c) == /\ Laid(text, given.env, c) /\ given.env \in Seq(Seq(Plain))
              /\ \/ c[Len(given.env)] = Len(text)
                 \/ /\ c[Len(given.env)] < Len(text)
                    /\ text[c[Len(given.env)] + 1] = Nul

(* What has come out of the first k entries. *)
EnvDone(k) ==
  /\ k \in 0 .. Len(given.env) /\ \A j \in 1 .. k : given.env[j] # <<>>
  /\ envs \in Seq(Pair) /\ Len(envs) = Cardinality(Kept(k))
  /\ \A i \in Kept(k) : SplitOK(envs[Cardinality(Kept(i))], given.env[i])

Stopped(k) == k < Len(given.env) => given.env[k + 1] = <<>>

EnvState(c) == \E k : /\ EnvDone(k)
                      /\ pc = "environment" => pos = c[k]
                      /\ result.kind = "Ok" => Stopped(k)

(* An entry more. *)
LEMMA EnvDoneNext ==
  ASSUME given.env \in Seq(Seq(Plain)), NEW k, EnvDone(k), k < Len(given.env),
         given.env[k + 1] # <<>>, given' = given,
         envs' = envs \o SplitEntry(given.env[k + 1])
  PROVE  EnvDone(k + 1)'
<1> DEFINE kv == given.env[k + 1]
           es == SplitEntry(kv)
<1>1. /\ Len(given.env) \in Nat /\ k \in Nat /\ k + 1 \in 0 .. Len(given.env)
      /\ k + 1 \in 1 .. Len(given.env) /\ envs \in Seq(Pair) /\ Len(envs) = Cardinality(Kept(k))
  BY LenProperties DEF EnvDone
<1>2. kv \in Seq(Plain) /\ kv # <<>>
  BY <1>1, ElementOfSeq
<1>3. \A j \in 1 .. k + 1 : given.env[j] # <<>>
  BY <1>1, SMTT(60) DEF EnvDone
<1>4. /\ Whole' = Whole /\ \A i : Kept(i)' = Kept(i)
  BY DEF Whole, Kept
<1>5. /\ ~HasEquals(kv) => Kept(k + 1) = Kept(k)
      /\ HasEquals(kv) => /\ Kept(k + 1) = Kept(k) \union {k + 1}
                          /\ Cardinality(Kept(k + 1)) = Cardinality(Kept(k)) + 1
  BY <1>1, <1>3, KeptNext
<1>6. \A i \in Kept(k) : Cardinality(Kept(i)) \in 1 .. Len(envs)
  BY <1>1, KeptCounts
<1>7. \A i \in Kept(k) : SplitOK(envs[Cardinality(Kept(i))], given.env[i])
  BY DEF EnvDone
<1>8. /\ envs' \in Seq(Pair) /\ Len(envs') = Cardinality(Kept(k + 1))
      /\ \A i \in Kept(k + 1) : SplitOK(envs'[Cardinality(Kept(i))], given.env[i])
  <2>1. CASE ~HasEquals(kv) /\ es = <<>>
    <3>1. envs \o <<>> = envs
      BY <1>1, ConcatEmptySeq
    <3>2. envs' = envs
      BY <2>1, <3>1
    <3> HIDE DEF kv, es
    <3> QED
      BY <1>1, <1>5, <1>7, <2>1, <3>2
  <2>2. CASE HasEquals(kv) /\ \E p \in Pair : es = <<p>> /\ SplitOK(p, kv)
    <3>1. PICK p \in Pair : es = <<p>> /\ SplitOK(p, kv)
      BY <2>2
    <3>2. es \in Seq(Pair) /\ Len(es) = 1 /\ es[1] = p
      BY <3>1, Single
    <3>3. envs' = envs \o es
      OBVIOUS
    <3> HIDE DEF es
    <3>4. es \in Seq(Pair)
      BY <3>2
    <3>5. /\ envs \o es \in Seq(Pair) /\ Len(envs \o es) = Len(envs) + Len(es)
          /\ Len(envs) \in Nat
          /\ \A i \in 1 .. Len(envs) : (envs \o es)[i] = envs[i]
          /\ \A i \in 1 .. Len(es) : (envs \o es)[Len(envs) + i] = es[i]
      <4>1. envs \in Seq(Pair)
        BY <1>1
      <4> QED
        BY <3>4, <4>1, Join
    <3>6. /\ envs' \in Seq(Pair) /\ Len(envs') = Len(envs) + Len(es) /\ Len(envs) \in Nat
          /\ \A i \in 1 .. Len(envs) : envs'[i] = envs[i]
          /\ \A i \in 1 .. Len(es) : envs'[Len(envs) + i] = es[i]
      BY <3>3, <3>5, Zenon
    <3>7. 1 \in 1 .. Len(es)
      BY <3>2
    <3>8. Len(envs') = Len(envs) + 1 /\ envs'[Len(envs) + 1] = p
      BY <3>2, <3>6, <3>7
    <3>9. /\ Kept(k + 1) = Kept(k) \union {k + 1}
          /\ Cardinality(Kept(k + 1)) = Len(envs) + 1
      BY <1>1, <1>5, <2>2
    <3>10. ASSUME NEW i \in Kept(k + 1)
           PROVE  SplitOK(envs'[Cardinality(Kept(i))], given.env[i])
      <4>1. CASE i \in Kept(k)
        BY <1>6, <1>7, <3>6, <4>1
      <4>2. CASE i = k + 1
        <5>1. Cardinality(Kept(i)) = Len(envs) + 1
          BY <3>9, <4>2
        <5> QED
          BY <3>1, <3>8, <4>2, <5>1
      <4> QED
        BY <3>9, <4>1, <4>2
    <3> QED
      BY <3>6, <3>8, <3>9, <3>10
  <2> QED
    BY <1>2, <2>1, <2>2, EntryIsSplit
<1> HIDE DEF kv
<1> QED
  BY <1>1, <1>3, <1>4, <1>8 DEF EnvDone

LEMMA EnvironmentNextStrings ==
  ASSUME Inv, EnvironmentNext, NEW c, EnvText(c), EnvState(c)
  PROVE  EnvText(c)' /\ EnvState(c)'
<1>1. /\ pc = "environment" /\ op' = op /\ input' = input /\ text' = text
      /\ given' = given /\ args' = args /\ left' = left
  BY DEF EnvironmentNext, Same
<1>2. EnvText(c)'
  BY <1>1 DEF EnvText
<1>3. PICK k : EnvDone(k) /\ pos = c[k]
  BY <1>1 DEF EnvState
<1> DEFINE n == Len(given.env)
           e == Find(Nul, text, pos + 1)
<1>4. /\ Laid(text, given.env, c) /\ text \in Seq(Char) /\ n \in Nat /\ Len(text) \in Nat
      /\ \A i \in 0 .. n : c[i] \in Nat /\ c[i] <= Len(text)
      /\ \A i \in 1 .. n : Part(text, given.env[i], c[i - 1], c[i])
  BY LenProperties DEF EnvText, Laid
<1>5. k \in 0 .. n /\ k \in Nat
  BY <1>3, <1>4 DEF EnvDone
<1>6. result.kind = "none" /\ Ok.kind = "Ok"
  BY <1>1 DEF Inv, Phase, Nothing, Ok
<1>7. \/ (e > Len(text) \/ e = pos + 1) /\ Done(Ok) /\ UNCHANGED envs
      \/ /\ ~(e > Len(text) \/ e = pos + 1)
         /\ envs' = envs \o SplitEntry(SubSeq(text, pos + 1, e - 1))
         /\ pos' = e /\ UNCHANGED <<pc, result>>
  BY Zenon DEF EnvironmentNext
<1> HIDE DEF e
<1>8. ASSUME (e > Len(text) \/ e = pos + 1), Stopped(k) PROVE EnvState(c)'
  <2>1. pc' = "idle" /\ envs' = envs
    BY <1>7, <1>8 DEF Done
  <2>2. EnvDone(k)'
    BY <1>1, <1>3, <2>1, ZenonT(60) DEF EnvDone, Kept, Whole
  <2>3. Stopped(k)'
    BY <1>1, <1>8 DEF Stopped
  <2> QED
    BY <2>1, <2>2, <2>3 DEF EnvState
<1>9. CASE k < n
  <2>1. k + 1 \in 1 .. n /\ (k + 1) - 1 = k /\ k + 1 \in 0 .. n
    BY <1>4, <1>5, <1>9, SMTT(60)
  <2>2. Part(text, given.env[k + 1], c[k], c[k + 1]) /\ c[k + 1] <= Len(text)
    BY <1>4, <2>1
  <2>3. /\ Find(Nul, text, c[k] + 1) = c[k + 1]
        /\ SubSeq(text, c[k] + 1, c[k + 1] - 1) = given.env[k + 1]
        /\ c[k + 1] = c[k] + 1 <=> given.env[k + 1] = <<>>
    BY <1>4, <2>2, PartIsFound
  <2>4. e = c[k + 1]
    BY <1>3, <2>3 DEF e
  <2>5. ~(e > Len(text))
    BY <1>4, <2>1, <2>4
  <2>6. CASE given.env[k + 1] = <<>>
    <3>1. e = pos + 1 /\ Stopped(k)
      BY <1>3, <2>3, <2>4, <2>6 DEF Stopped
    <3> QED
      BY <1>2, <1>8, <3>1
  <2>7. CASE given.env[k + 1] # <<>>
    <3>1. e # pos + 1
      BY <1>3, <2>3, <2>4, <2>7
    <3>2. /\ envs' = envs \o SplitEntry(given.env[k + 1])
          /\ pos' = c[k + 1] /\ result' = result
      BY <1>3, <1>7, <2>3, <2>4, <2>5, <3>1
    <3>3. given.env \in Seq(Seq(Plain))
      BY DEF EnvText
    <3>4. EnvDone(k + 1)'
      BY <1>1, <1>3, <1>9, <2>7, <3>2, <3>3, EnvDoneNext
    <3>5. result'.kind # "Ok"
      BY <1>6, <3>2
    <3>6. /\ EnvDone(k + 1)'
          /\ pc' = "environment" => pos' = c[k + 1]
          /\ result'.kind = "Ok" => Stopped(k + 1)'
      BY <3>2, <3>4, <3>5, Zenon
    <3> QED
      BY <1>2, <3>6, Zenon DEF EnvState
  <2> QED
    BY <2>6, <2>7
<1>10. CASE k = n
  <2>1. pos = c[n] /\ pos \in Nat /\ Stopped(k)
    BY <1>3, <1>4, <1>5, <1>10 DEF Stopped
  <2>2. FoundAt(Nul, text, pos + 1, e)
    BY <1>4, <2>1, FindIs DEF e
  <2>3. e > Len(text) \/ e = pos + 1
    <3>1. \/ pos = Len(text)
          \/ pos < Len(text) /\ text[pos + 1] = Nul
      BY <2>1 DEF EnvText
    <3> QED
      BY <1>4, <2>1, <2>2, <3>1, SMTT(60) DEF FoundAt
  <2> QED
    BY <1>2, <1>8, <2>1, <2>3
<1> QED
  BY <1>2, <1>4, <1>5, <1>9, <1>10

(* Nothing has come out yet. *)
LEMMA EnvBegins ==
  ASSUME given.env \in Seq(Seq(Plain)), envs = <<>>
  PROVE  EnvDone(0)
<1>1. Len(given.env) \in Nat /\ Len(envs) = 0 /\ envs \in Seq(Pair)
  BY LenProperties, EmptySeq
<1>2. Kept(0) = {}
  BY WholeIs DEF Kept
<1>3. Cardinality(Kept(0)) = 0
  BY <1>2, FS_EmptySet
<1> QED
  BY <1>1, <1>2, <1>3 DEF EnvDone

(* The entries that came out are the ones that had to. *)
LEMMA EnvSurvives ==
  ASSUME NEW c, EnvText(c), EnvState(c), result.kind = "Ok"
  PROVE  /\ Len(envs) = Cardinality(Whole)
         /\ \A i \in Whole :
              LET n == Cardinality({j \in Whole : j <= i}) IN
                /\ envs[n][1] \o <<"=">> \o envs[n][2] = given.env[i]
                /\ \A j \in 2 .. Len(envs[n][1]) : envs[n][1][j] # "="
                /\ envs[n][1] # <<>>
<1>1. PICK k : EnvDone(k) /\ Stopped(k)
  BY DEF EnvState
<1>2. given.env \in Seq(Seq(Plain))
  BY DEF EnvText
<1>3. k \in Nat /\ Len(given.env) \in Nat
  BY <1>1, <1>2, WholeIs DEF EnvDone
<1>4. Whole = Kept(k)
  <2>1. ASSUME NEW i \in Whole PROVE i <= k
    <3>1. i \in 1 .. Len(given.env) /\ \A j \in 1 .. i : given.env[j] # <<>>
      BY <1>2, WholeIs
    <3>2. ASSUME ~(i <= k) PROVE FALSE
      <4>1. k < Len(given.env) /\ k + 1 \in 1 .. i
        BY <1>3, <3>1, <3>2
      <4> QED
        BY <1>1, <3>1, <4>1 DEF Stopped
    <3> QED
      BY <3>2
  <2> QED
    BY <2>1 DEF Kept
<1>5. \A i \in Whole : SplitOK(envs[Cardinality(Kept(i))], given.env[i])
  BY <1>1, <1>4 DEF EnvDone
<1>6. Len(envs) = Cardinality(Whole)
  BY <1>1, <1>4 DEF EnvDone
<1> QED
  BY <1>5, <1>6, Zenon DEF SplitOK, Kept

EnvironmentInv == op = "environment" =>
                    \E c : EnvText(c) /\ c[0] = 0 /\ EnvState(c)

(* As long as nothing comes out, ... *)
LEMMA EnvSame ==
  ASSUME NEW c, EnvText(c), EnvState(c), UNCHANGED <<text, given, envs>>,
         pc' # "environment", result'.kind # "Ok"
  PROVE  EnvText(c)' /\ EnvState(c)'
<1>1. EnvText(c)'
  BY DEF EnvText
<1>2. PICK k : EnvDone(k)
  BY DEF EnvState
<1>3. EnvDone(k)'
  BY <1>2, ZenonT(60) DEF EnvDone, Kept, Whole
<1> QED
  BY <1>1, <1>3 DEF EnvState

(* ... and where the first entry is looked for. *)
LEMMA EnvOpens ==
  ASSUME NEW c, EnvText(c), envs = <<>>, UNCHANGED <<text, given, envs>>,
         pos' = c[0], result'.kind # "Ok"
  PROVE  EnvText(c)' /\ EnvState(c)'
<1>1. EnvText(c)'
  BY DEF EnvText
<1>2. EnvDone(0)
  BY EnvBegins DEF EnvText
<1>3. EnvDone(0)'
  BY <1>2 DEF EnvDone, Kept, Whole
<1> QED
  BY <1>1, <1>3 DEF EnvState

LEMMA EnvBeginning == given.env \in Seq(Seq(Plain)) /\ envs = <<>> => EnvDone(0)
BY EnvBegins

(* A text that has just been laid out. *)
LEMMA EnvStarts ==
  ASSUME NEW c, Laid(text', given'.env, c), given'.env \in Seq(Seq(Plain)), envs' = <<>>,
         \/ c[Len(given'.env)] = Len(text')
         \/ /\ c[Len(given'.env)] < Len(text')
            /\ text'[c[Len(given'.env)] + 1] = Nul,
         pc' = "open", result' = Nothing
  PROVE  EnvText(c)' /\ EnvState(c)'
<1>1. EnvText(c)'
  BY DEF EnvText
<1>2. (given.env \in Seq(Seq(Plain)) /\ envs = <<>> => EnvDone(0))'
  BY EnvBeginning, PTL
<1>3. EnvDone(0)'
  BY <1>2
<1>4. result'.kind # "Ok"
  BY DEF Nothing
<1> QED
  BY <1>1, <1>3, <1>4 DEF EnvState

LEMMA BeginEnvironmentStrings ==
  ASSUME Inv, BeginEnvironment
  PROVE  EnvironmentInv'
<1>1. PICK a \in UpTo(Entries) :
             Start("environment", <<>>, NulAfter(a), [argv |-> <<>>, env |-> a])
  BY DEF BeginEnvironment
<1> DEFINE g == [argv |-> <<>>, env |-> a]
           t == NulAfter(a)
<1>2. g.env = a
  OBVIOUS
<1>3. Fresh /\ Start("environment", <<>>, t, g)
  BY <1>1 DEF BeginEnvironment
<1> HIDE DEF g
<1>4. /\ pc' = "open" /\ text' = t /\ given' = g /\ envs' = <<>> /\ result' = Nothing
  BY <1>3, Begun
<1>5. /\ a \in Seq(Seq(Plain)) /\ Len(a) \in Nat /\ t \in Seq(Char)
      /\ \A i \in 1 .. Len(a) : a[i] \in Seq(Plain)
  BY UpToPlain, WordsArePlain
<1>6. t \o <<>> = t /\ <<>> \in Seq(Char)
  BY <1>5, Alone
<1>7. PICK c : Laid(t \o <<>>, a, c) /\ c[0] = 0 /\ c[Len(a)] = Len(t)
  BY <1>5, <1>6, LaidAlone
<1>8. Laid(t, a, c)
  BY <1>6, <1>7
<1> HIDE DEF t
<1>9. EnvText(c)' /\ EnvState(c)'
  BY <1>2, <1>4, <1>5, <1>7, <1>8, EnvStarts
<1> QED
  BY <1>7, <1>9 DEF EnvironmentInv

LEMMA OpenEnvironmentStrings ==
  ASSUME Inv, EnvironmentInv, OpenEnvironment
  PROVE  EnvironmentInv'
<1>1. /\ pc = "open" /\ op = "environment" /\ pos' = pos
      /\ UNCHANGED <<text, given, envs>> /\ result' = result
  BY DEF OpenEnvironment, Same
<1>2. pos = 0 /\ envs = <<>> /\ result'.kind # "Ok"
  BY <1>1 DEF Inv, Phase, Unread, Nothing
<1>3. PICK c : EnvText(c) /\ c[0] = 0
  BY <1>1 DEF EnvironmentInv
<1>4. EnvText(c)' /\ EnvState(c)'
  BY <1>1, <1>2, <1>3, EnvOpens
<1> QED
  BY <1>3, <1>4 DEF EnvironmentInv

LEMMA EnvironmentStep ==
  ASSUME Inv, EnvironmentInv, EnvironmentNext
  PROVE  EnvironmentInv'
<1>1. op' = op
  BY DEF EnvironmentNext, Same
<1>2. ASSUME op = "environment" PROVE EnvironmentInv'
  <2>1. PICK c : EnvText(c) /\ c[0] = 0 /\ EnvState(c)
    BY <1>2 DEF EnvironmentInv
  <2>2. EnvText(c)' /\ EnvState(c)'
    BY <2>1, EnvironmentNextStrings
  <2> QED
    BY <2>1, <2>2 DEF EnvironmentInv
<1> QED
  BY <1>1, <1>2 DEF EnvironmentInv

(* The arguments on macOS, if there is a first one: where they begin, ... *)
Named == given.argv # <<>> /\ given.argv[1] # <<>>

ProcText(b) == /\ Laid(text, given.argv, b) /\ given.argv \in Seq(Seq(Plain))
               /\ input = <<>> /\ ArgsStart(text) = b[0] + 1

(* ... how many of them have come out, ... *)
ProcState(b) ==
  /\ pc = "arguments" =>
       /\ Taken /\ stop = b[Len(given.argv)] /\ left = Len(given.argv) - Len(args)
       /\ left > 0 => pos = b[Len(args)]
  /\ pc = "environment" \/ result.kind = "Ok" => args = given.argv

(* ... and the environment behind them. *)
ProcEnv(b) == \E c : /\ EnvText(c) /\ EnvState(c) /\ c[0] = b[Len(given.argv)]

ProcInv == op = "proc_args" /\ Named =>
             /\ \E b : ProcText(b) /\ ProcState(b) /\ ProcEnv(b)
             /\ pc \in {"open", "arguments"} => envs = <<>>

LEMMA OpenProcArgsStrings ==
  ASSUME Inv, ProcInv, OpenProcArgs, Named
  PROVE  ProcInv'
<1>1. /\ pc = "open" /\ op = "proc_args" /\ op' = op
      /\ UNCHANGED <<text, given, input, args, envs>>
  BY DEF OpenProcArgs, Same
<1>2. /\ args = <<>> /\ envs = <<>> /\ result = Nothing /\ result.kind = "none"
  BY <1>1 DEF Inv, Phase, Unread, Nothing
<1>3. PICK b : ProcText(b) /\ ProcState(b) /\ ProcEnv(b)
  BY <1>1 DEF ProcInv
<1> DEFINE n == Len(given.argv)
<1>4. /\ given.argv \in Seq(Seq(Plain)) /\ n \in Nat /\ n # 0 /\ Laid(text, given.argv, b)
      /\ b[0] \in Nat /\ ArgsStart(text) = b[0] + 1
  <2>1. given.argv \in Seq(Seq(Plain)) /\ given.argv # <<>>
    BY <1>3 DEF ProcText, Named
  <2>2. n \in Nat /\ n # 0
    BY <2>1, LenProperties, EmptySeq
  <2>3. 0 \in 0 .. n
    BY <2>2
  <2> QED
    BY <1>3, <2>1, <2>2, <2>3 DEF ProcText, Laid
<1>5. /\ pc' = "arguments" /\ pos' = b[0] /\ left' = n /\ result' = result
      /\ stop' = NthNul(text, b[0] + 1, n)
  <2>1. /\ pc' = "arguments" /\ pos' = ArgsStart(text) - 1 /\ left' = n /\ result' = result
        /\ stop' = NthNul(text, ArgsStart(text), n)
    BY <1>4 DEF OpenProcArgs, Argc
  <2> QED
    BY <1>4, <2>1
<1>6. stop' = b[n]
  BY <1>4, <1>5, NthNulEnds
<1>7. ProcText(b)'
  BY <1>1, <1>3 DEF ProcText
<1>8. Taken' /\ Len(args') = 0
  <2>1. Due = given.argv /\ Due' = Due
    BY <1>1, <1>3 DEF Due, ProcText
  <2>2. Len(args) = 0 /\ args \in Seq(Seq(Plain))
    BY <1>2, EmptySeq
  <2> QED
    BY <1>1, <1>4, <2>1, <2>2 DEF Taken
<1>9. ProcState(b)'
  <2>1. pos' = b[Len(args')] /\ left' = n - Len(args')
    BY <1>4, <1>5, <1>8
  <2>2. result'.kind # "Ok"
    BY <1>2, <1>5
  <2> QED
    BY <1>1, <1>5, <1>6, <1>8, <2>1, <2>2 DEF ProcState
<1>10. ProcEnv(b)'
  <2>1. PICK c : EnvText(c) /\ EnvState(c) /\ c[0] = b[n]
    BY <1>3 DEF ProcEnv
  <2>2. result'.kind # "Ok" /\ pc' # "environment"
    BY <1>2, <1>5
  <2>3. EnvText(c)' /\ EnvState(c)'
    BY <1>1, <2>1, <2>2, EnvSame
  <2> QED
    BY <1>1, <2>1, <2>3 DEF ProcEnv
<1> QED
  BY <1>1, <1>2, <1>7, <1>9, <1>10 DEF ProcInv

LEMMA ProcArgsNextStrings ==
  ASSUME Inv, ProcInv, ProcArgsNext, Named
  PROVE  ProcInv'
<1>1. /\ pc = "arguments" /\ op = "proc_args" /\ op' = op /\ pc' = pc /\ left > 0
      /\ left' = left - 1 /\ stop' = stop /\ result' = result
      /\ UNCHANGED <<text, given, input, envs>>
  BY DEF ProcArgsNext, Same
<1>2. envs = <<>> /\ result.kind = "none"
  BY <1>1 DEF Inv, Phase, Nothing, ProcInv
<1>3. PICK b : ProcText(b) /\ ProcState(b) /\ ProcEnv(b)
  BY <1>1 DEF ProcInv
<1> DEFINE n == Len(given.argv)
           k == Len(args)
           e == Find(Nul, text, pos + 1)
<1>4. /\ Laid(text, given.argv, b) /\ given.argv \in Seq(Seq(Plain)) /\ text \in Seq(Char)
      /\ n \in Nat /\ \A i \in 0 .. n : b[i] \in Nat
      /\ \A i \in 1 .. n : Part(text, given.argv[i], b[i - 1], b[i])
  BY <1>3 DEF ProcText, Laid
<1>5. Due = given.argv /\ Due' = Due
  BY <1>1, <1>3 DEF Due, ProcText
<1>6. Taken /\ stop = b[n] /\ left = n - k /\ pos = b[k]
  BY <1>1, <1>3 DEF ProcState
<1>7. k \in Nat /\ k < n /\ k + 1 \in 1 .. n /\ (k + 1) - 1 = k /\ k + 1 \in 0 .. n /\ n \in 0 .. n
  <2>1. k \in 0 .. n
    BY <1>5, <1>6 DEF Taken
  <2> QED
    BY <1>1, <1>4, <1>6, <2>1, SMTT(60)
<1>8. Part(text, given.argv[k + 1], b[k], b[k + 1])
  BY <1>4, <1>7
<1>9. /\ Find(Nul, text, b[k] + 1) = b[k + 1]
      /\ SubSeq(text, b[k] + 1, b[k + 1] - 1) = given.argv[k + 1]
  BY <1>4, <1>8, PartIsFound, SMTT(60)
<1>10. e = b[k + 1]
  BY <1>6, <1>9
<1>11. \/ /\ e < stop /\ args' = Append(args, SubSeq(text, pos + 1, e - 1)) /\ pos' = e
       \/ /\ ~(e < stop) /\ args' = Append(args, SubSeq(text, pos + 1, stop - 1))
  BY Zenon DEF ProcArgsNext
<1> HIDE DEF e
<1>12. /\ args' = Append(args, given.argv[k + 1])
       /\ k + 1 < n => pos' = b[k + 1]
  <2>1. CASE k + 1 < n
    <3>1. b[k + 1] + (n - (k + 1)) <= b[n] /\ b[k + 1] \in Nat /\ b[n] \in Nat
      BY <1>4, <1>7, LaidIncreases
    <3>2. e < stop
      BY <1>6, <1>7, <1>10, <2>1, <3>1, SMTT(60)
    <3> QED
      BY <1>6, <1>9, <1>10, <1>11, <3>2
  <2>2. CASE ~(k + 1 < n)
    <3>1. k + 1 = n
      BY <1>4, <1>7, <2>2
    <3>2. e = stop /\ ~(e < stop)
      <4>1. e = stop /\ b[n] \in Nat
        BY <1>4, <1>6, <1>7, <1>10, <3>1
      <4> QED
        BY <1>6, <4>1
    <3>3. args' = Append(args, SubSeq(text, pos + 1, e - 1))
      BY <1>11, <3>2
    <3> QED
      BY <1>6, <1>9, <1>10, <2>2, <3>3
  <2> QED
    BY <2>1, <2>2
<1>13. Taken' /\ Len(args') = k + 1
  BY <1>5, <1>6, <1>7, <1>12, TakenNext
<1>14. ProcText(b)'
  BY <1>1, <1>3 DEF ProcText
<1>15. ProcState(b)'
  <2>1. left' = n - Len(args') /\ (left' > 0 => k + 1 < n)
    BY <1>1, <1>4, <1>6, <1>7, <1>13
  <2>2. left' > 0 => pos' = b[Len(args')]
    BY <1>12, <1>13, <2>1
  <2>3. pc' # "environment" /\ result'.kind # "Ok"
    BY <1>1, <1>2
  <2> QED
    BY <1>1, <1>6, <1>13, <2>1, <2>2, <2>3 DEF ProcState
<1>16. ProcEnv(b)'
  <2>1. PICK c : EnvText(c) /\ EnvState(c) /\ c[0] = b[n]
    BY <1>3 DEF ProcEnv
  <2>2. result'.kind # "Ok" /\ pc' # "environment"
    BY <1>1, <1>2
  <2>3. EnvText(c)' /\ EnvState(c)'
    BY <1>1, <2>1, <2>2, EnvSame
  <2> QED
    BY <1>1, <2>1, <2>3 DEF ProcEnv
<1> QED
  BY <1>1, <1>2, <1>14, <1>15, <1>16 DEF ProcInv

LEMMA ProcArgsEnvironmentStrings ==
  ASSUME Inv, ProcInv, ProcArgsEnvironment, Named
  PROVE  ProcInv'
<1>1. /\ pc = "arguments" /\ op = "proc_args" /\ op' = op /\ pc' = "environment" /\ left = 0
      /\ pos' = stop /\ result' = result
      /\ UNCHANGED <<text, given, input, args, envs>>
  BY DEF ProcArgsEnvironment, Same
<1>2. envs = <<>> /\ result.kind = "none"
  BY <1>1 DEF Inv, Phase, Nothing, ProcInv
<1>3. PICK b : ProcText(b) /\ ProcState(b) /\ ProcEnv(b)
  BY <1>1 DEF ProcInv
<1> DEFINE n == Len(given.argv)
<1>4. Due = given.argv
  BY <1>3 DEF Due, ProcText
<1>5. Taken /\ stop = b[n] /\ left = n - Len(args)
  BY <1>1, <1>3 DEF ProcState
<1>6. args = given.argv
  <2>1. n \in Nat /\ Len(args) \in 0 .. n
    BY <1>3, <1>4, <1>5 DEF Taken, ProcText, Laid
  <2>2. Len(args) = Len(Due)
    BY <1>1, <1>4, <1>5, <2>1
  <2> QED
    BY <1>4, <1>5, <2>2, DueIsDone
<1>7. ProcText(b)'
  BY <1>1, <1>3 DEF ProcText
<1>8. ProcState(b)'
  BY <1>1, <1>6 DEF ProcState
<1>9. ProcEnv(b)'
  <2>1. PICK c : EnvText(c) /\ c[0] = b[n]
    BY <1>3 DEF ProcEnv
  <2>2. result'.kind # "Ok" /\ pos' = c[0]
    BY <1>1, <1>2, <1>5, <2>1
  <2>3. EnvText(c)' /\ EnvState(c)'
    BY <1>1, <1>2, <2>1, <2>2, EnvOpens
  <2> QED
    BY <1>1, <2>1, <2>3 DEF ProcEnv
<1> QED
  BY <1>1, <1>7, <1>8, <1>9 DEF ProcInv

LEMMA ProcEnvironmentNextStrings ==
  ASSUME Inv, ProcInv, EnvironmentNext, op = "proc_args", Named
  PROVE  ProcInv'
<1>1. /\ pc = "environment" /\ op' = op /\ UNCHANGED <<text, given, input, args>>
      /\ pc' \in {"environment", "idle"}
  BY DEF EnvironmentNext, Same, Done
<1>2. PICK b : ProcText(b) /\ ProcState(b) /\ ProcEnv(b)
  BY DEF ProcInv
<1>3. ProcText(b)'
  BY <1>1, <1>2 DEF ProcText
<1>4. ProcState(b)'
  BY <1>1, <1>2 DEF ProcState
<1>5. ProcEnv(b)'
  <2>1. PICK c : EnvText(c) /\ EnvState(c) /\ c[0] = b[Len(given.argv)]
    BY <1>2 DEF ProcEnv
  <2>2. EnvText(c)' /\ EnvState(c)'
    BY <2>1, EnvironmentNextStrings
  <2> QED
    BY <1>1, <2>1, <2>2 DEF ProcEnv
<1> QED
  BY <1>1, <1>3, <1>4, <1>5 DEF ProcInv

(* The text that a process on macOS begins with. *)
Padding(pad) == [i \in 1 .. pad |-> Nul]
ProcPath(pad) == <<"a">> \o Padding(pad)
ProcEnd == <<Nul, Nul>>
ProcArgsText(a, e, pad) == ProcPath(pad) \o NulAfter(a) \o NulAfter(e) \o ProcEnd

LEMMA PathIs ==
  ASSUME NEW pad \in 1 .. 2
  PROVE  /\ ProcPath(pad) \in Seq(Char) /\ Len(ProcPath(pad)) = 1 + pad
         /\ ProcPath(pad)[1] = "a"
         /\ \A j \in 2 .. 1 + pad : ProcPath(pad)[j] = Nul
<1> DEFINE exe == <<"a">>
           nuls == Padding(pad)
<1>1. "a" \in Char /\ Nul \in Char
  BY DEF Char, Nul
<1>2. exe \in Seq(Char) /\ Len(exe) = 1 /\ exe[1] = "a"
  BY <1>1, Single
<1>3. nuls \in Seq(Char) /\ Len(nuls) = pad /\ \A j \in 1 .. pad : nuls[j] = Nul
  <2>1. nuls \in [1 .. pad -> Char] /\ pad \in Nat /\ \A j \in 1 .. pad : nuls[j] = Nul
    BY <1>1 DEF Padding
  <2>2. DOMAIN nuls = 1 .. pad
    BY <2>1
  <2> HIDE DEF nuls
  <2>3. nuls \in Seq(Char)
    BY <2>1, SeqDef
  <2> QED
    BY <2>1, <2>2, <2>3, LenProperties
<1>4. exe \in Seq(Char) /\ nuls \in Seq(Char)
  BY <1>2, <1>3
<1> HIDE DEF exe, nuls
<1>5. /\ exe \o nuls \in Seq(Char) /\ Len(exe \o nuls) = Len(exe) + Len(nuls)
      /\ \A i \in 1 .. Len(exe) : (exe \o nuls)[i] = exe[i]
      /\ \A i \in 1 .. Len(nuls) : (exe \o nuls)[Len(exe) + i] = nuls[i]
  BY <1>4, Join
<1>6. exe \o nuls = ProcPath(pad)
  BY DEF exe, nuls, ProcPath
<1>7. /\ ProcPath(pad) \in Seq(Char) /\ Len(ProcPath(pad)) = Len(exe) + Len(nuls)
      /\ \A i \in 1 .. Len(exe) : ProcPath(pad)[i] = exe[i]
      /\ \A i \in 1 .. Len(nuls) : ProcPath(pad)[Len(exe) + i] = nuls[i]
  BY <1>5, <1>6, Zenon
<1>8. ASSUME NEW j \in 2 .. 1 + pad PROVE ProcPath(pad)[j] = Nul
  <2>1. j - 1 \in 1 .. pad /\ Len(exe) + (j - 1) = j
    BY <1>2
  <2>2. ProcPath(pad)[Len(exe) + (j - 1)] = nuls[j - 1] /\ nuls[j - 1] = Nul
    BY <1>3, <1>7, <2>1
  <2> QED
    BY <2>1, <2>2
<1> QED
  BY <1>2, <1>3, <1>7, <1>8

ProcLaid(t, a, e, pad) ==
  /\ t \in Seq(Char) /\ t[1] = "a" /\ \A j \in 2 .. 1 + pad : t[j] = Nul
  /\ \E b, c : /\ Laid(t, a, b) /\ b[0] = 1 + pad
               /\ Laid(t, e, c) /\ c[0] = b[Len(a)]
               /\ c[Len(e)] < Len(t) /\ t[c[Len(e)] + 1] = Nul

Behind(x, y, z, q) == ((x \o y) \o z) \o q
Grouped(x, y, z, q) == (x \o y) \o (z \o q)

LEMMA Regrouped ==
  ASSUME NEW x \in Seq(Char), NEW y \in Seq(Char), NEW z \in Seq(Char)
  PROVE  (x \o y) \o z = x \o (y \o z)
BY ConcatAssociative

LEMMA FourParts ==
  ASSUME NEW x \in Seq(Char), NEW y \in Seq(Char), NEW z \in Seq(Char), NEW q \in Seq(Char)
  PROVE  Behind(x, y, z, q) = Grouped(x, y, z, q)
<1>1. x \o y \in Seq(Char)
  BY Join
<1> DEFINE u == x \o y
<1>2. u \in Seq(Char)
  BY <1>1
<1> HIDE DEF u
<1>3. (u \o z) \o q = u \o (z \o q)
  BY <1>2, Regrouped, ZenonT(60)
<1> QED
  BY <1>3 DEF u, Behind, Grouped

(* It holds the path, the arguments, the environment and the end in this   *)
(* order.                                                                  *)
LEMMA ProcTextIs ==
  ASSUME NEW a, NEW e, NEW pad \in 1 .. 2,
         a \in Seq(Seq(Plain)), Len(a) \in Nat, NulAfter(a) \in Seq(Char),
         \A i \in 1 .. Len(a) : a[i] \in Seq(Plain),
         e \in Seq(Seq(Plain)), Len(e) \in Nat, NulAfter(e) \in Seq(Char),
         \A i \in 1 .. Len(e) : e[i] \in Seq(Plain)
  PROVE  ProcLaid(ProcArgsText(a, e, pad), a, e, pad)
<1> DEFINE p == ProcPath(pad)
           A == NulAfter(a)
           E == NulAfter(e)
           q == ProcEnd
           pA == p \o A
           t == ProcArgsText(a, e, pad)
<1>1. p \in Seq(Char) /\ A \in Seq(Char) /\ E \in Seq(Char)
  BY PathIs
<1>2. q \in Seq(Char) /\ Len(q) = 2 /\ q[1] = Nul
  <2>1. Nul \in Char
    BY DEF Nul, Char
  <2> QED
    BY <2>1 DEF ProcEnd
<1>3. t = (pA \o E) \o q
  BY DEF ProcArgsText
<1> HIDE DEF t
<1>4. Len(p) = 1 + pad /\ p[1] = "a" /\ \A j \in 2 .. 1 + pad : p[j] = Nul
  BY PathIs
<1>5. PICK c0 : /\ Laid((pA \o E) \o q, e, c0) /\ c0[0] = Len(pA)
                /\ c0[Len(e)] = Len(pA) + Len(E)
  <2>1. pA \in Seq(Char)
    BY <1>1, Join
  <2> HIDE DEF pA, q
  <2> QED
    BY <1>2, <2>1, LaidIn
<1>6. PICK b0 : /\ Laid((p \o A) \o (E \o q), a, b0) /\ b0[0] = Len(p)
                /\ b0[Len(a)] = Len(p) + Len(A)
  <2>1. E \o q \in Seq(Char)
    BY <1>1, <1>2, Join
  <2> DEFINE r == E \o q
  <2>2. r \in Seq(Char)
    BY <2>1
  <2> HIDE DEF r, p
  <2>3. \E b0 : /\ Laid((p \o A) \o r, a, b0) /\ b0[0] = Len(p)
                /\ b0[Len(a)] = Len(p) + Len(A)
    BY <1>1, <2>2, LaidIn
  <2> QED
    BY <2>3 DEF r
<1> HIDE DEF p, A, E, q
<1>7. /\ pA \in Seq(Char) /\ Len(pA) = Len(p) + Len(A) /\ Len(p) \in Nat /\ Len(A) \in Nat
      /\ \A i \in 1 .. Len(p) : pA[i] = p[i]
  BY <1>1, Join
<1> HIDE DEF pA
<1> DEFINE pAE == pA \o E
<1>8. /\ pAE \in Seq(Char) /\ Len(pAE) = Len(pA) + Len(E) /\ Len(pA) \in Nat /\ Len(E) \in Nat
      /\ \A i \in 1 .. Len(pA) : pAE[i] = pA[i]
  BY <1>1, <1>7, Join, ZenonT(60)
<1>9. t = pAE \o q
  BY <1>3
<1>10. pAE \o q = (p \o A) \o (E \o q)
  <2>1. q \in Seq(Char)
    BY <1>2
  <2>2. Behind(p, A, E, q) = Grouped(p, A, E, q)
    BY <1>1, <2>1, FourParts
  <2> QED
    BY <2>2, Zenon DEF pA, pAE, Behind, Grouped
<1>11. Laid(t, e, c0) /\ Laid(t, a, b0)
  BY <1>3, <1>5, <1>6, <1>9, <1>10
<1> HIDE DEF pAE
<1>12. /\ pAE \o q \in Seq(Char) /\ Len(pAE \o q) = Len(pAE) + Len(q)
       /\ \A i \in 1 .. Len(pAE) : (pAE \o q)[i] = pAE[i]
       /\ \A i \in 1 .. Len(q) : (pAE \o q)[Len(pAE) + i] = q[i]
  <2>1. pAE \in Seq(Char) /\ q \in Seq(Char)
    BY <1>2, <1>8
  <2> QED
    BY <2>1, Join
<1>13. /\ t \in Seq(Char) /\ Len(t) = Len(pAE) + Len(q)
       /\ \A i \in 1 .. Len(pAE) : t[i] = pAE[i]
       /\ \A i \in 1 .. Len(q) : t[Len(pAE) + i] = q[i]
  BY <1>9, <1>12, Zenon
<1>14. ASSUME NEW j \in 1 .. Len(p) PROVE t[j] = p[j]
  <2>1. j \in 1 .. Len(pA) /\ j \in 1 .. Len(pAE)
    BY <1>7, <1>8, SMTT(60)
  <2> QED
    BY <1>7, <1>8, <1>13, <2>1
<1>15. t[1] = "a" /\ \A j \in 2 .. 1 + pad : t[j] = Nul
  BY <1>4, <1>14
<1>16. c0[Len(e)] < Len(t) /\ t[c0[Len(e)] + 1] = Nul
  <2>1. c0[Len(e)] = Len(pAE) /\ Len(pAE) \in Nat /\ 1 \in 1 .. Len(q)
    BY <1>2, <1>5, <1>8
  <2>2. t[Len(pAE) + 1] = q[1]
    BY <1>13, <2>1
  <2> QED
    BY <1>2, <1>13, <2>1, <2>2
<1>17. b0[0] = 1 + pad /\ c0[0] = b0[Len(a)]
  BY <1>4, <1>5, <1>6, <1>7
<1>18. \E b, c : /\ Laid(t, a, b) /\ b[0] = 1 + pad
                 /\ Laid(t, e, c) /\ c[0] = b[Len(a)]
                 /\ c[Len(e)] < Len(t) /\ t[c[Len(e)] + 1] = Nul
  BY <1>11, <1>16, <1>17
<1> QED
  BY <1>13, <1>15, <1>18, Zenon DEF t, ProcLaid

LEMMA BeginProcArgsStrings ==
  ASSUME Inv, BeginProcArgs
  PROVE  ProcInv'
<1>1. PICK a \in UpTo(Words), e \in UpTo(Entries), pad \in 1 .. 2 :
             Start("proc_args", <<>>,
                   <<"a">> \o [i \in 1 .. pad |-> Nul]
                     \o NulAfter(a) \o NulAfter(e) \o <<Nul, Nul>>,
                   [argv |-> a, env |-> e])
  BY DEF BeginProcArgs
<1> DEFINE t == ProcArgsText(a, e, pad)
           g == [argv |-> a, env |-> e]
<1>2. g.argv = a /\ g.env = e
  OBVIOUS
<1>3. Fresh /\ Start("proc_args", <<>>, t, g)
  BY <1>1, Zenon DEF BeginProcArgs, ProcArgsText, ProcPath, Padding, ProcEnd
<1> HIDE DEF t, g
<1>4. /\ pc' = "open" /\ op' = "proc_args" /\ input' = <<>> /\ text' = t /\ given' = g
      /\ envs' = <<>> /\ result' = Nothing
  BY <1>3, Begun
<1>5. /\ a \in Seq(Seq(Plain)) /\ Len(a) \in Nat /\ NulAfter(a) \in Seq(Char)
      /\ \A i \in 1 .. Len(a) : a[i] \in Seq(Plain)
      /\ e \in Seq(Seq(Plain)) /\ Len(e) \in Nat /\ NulAfter(e) \in Seq(Char)
      /\ \A i \in 1 .. Len(e) : e[i] \in Seq(Plain)
  BY UpToPlain, WordsArePlain
<1>6. /\ t \in Seq(Char) /\ t[1] = "a" /\ \A j \in 2 .. 1 + pad : t[j] = Nul
      /\ \E b, c : /\ Laid(t, a, b) /\ b[0] = 1 + pad
                   /\ Laid(t, e, c) /\ c[0] = b[Len(a)]
                   /\ c[Len(e)] < Len(t) /\ t[c[Len(e)] + 1] = Nul
  <2>1. ProcLaid(ProcArgsText(a, e, pad), a, e, pad)
    BY <1>5, ProcTextIs
  <2> QED
    BY <2>1, Zenon DEF t, ProcLaid
<1>7. PICK b, c : /\ Laid(t, a, b) /\ b[0] = 1 + pad
                  /\ Laid(t, e, c) /\ c[0] = b[Len(a)]
                  /\ c[Len(e)] < Len(t) /\ t[c[Len(e)] + 1] = Nul
  BY <1>6
<1>8. ASSUME Named' PROVE ProcText(b)'
  <2>1. a # <<>> /\ a[1] # <<>> /\ Len(a) # 0
    BY <1>2, <1>4, <1>5, <1>8, EmptySeq DEF Named
  <2>2. 1 \in 1 .. Len(a) /\ 1 - 1 = 0
    BY <1>5, <2>1
  <2>3. Part(t, a[1], b[0], b[1])
    BY <1>7, <2>2 DEF Laid
  <2>4. a[1] \in Seq(Plain) /\ Len(a[1]) \in Nat /\ Len(a[1]) # 0
    BY <1>5, <2>1, <2>2, LenProperties, EmptySeq
  <2>5. t[b[0] + 1] = a[1][1] /\ b[0] + 1 <= Len(t) /\ a[1][1] \in Plain
    <3>1. 1 \in 1 .. Len(a[1])
      BY <2>4
    <3>2. a[1][1] \in Plain
      BY <2>4, <3>1, ElementOfSeq
    <3>3. b[0] \in Nat /\ b[1] = b[0] + Len(a[1]) + 1 /\ b[1] <= Len(t) /\ Len(t) \in Nat
      BY <1>6, <2>3, LenProperties DEF Part
    <3> QED
      BY <2>3, <2>4, <3>1, <3>2, <3>3 DEF Part
  <2>6. Nul \notin Plain
    BY DEF Nul, Plain
  <2>7. ArgsStart(t) = b[0] + 1
    <3>1. b[0] \in Nat /\ b[0] >= 2 /\ t[b[0] + 1] # Nul /\ \A j \in 2 .. b[0] : t[j] = Nul
      BY <1>6, <1>7, <2>5, <2>6
    <3> QED
      BY <1>6, <2>5, <3>1, ArgsStartBehindPath
  <2> QED
    BY <1>2, <1>4, <1>5, <1>7, <2>7 DEF ProcText
<1>9. ProcState(b)'
  BY <1>4 DEF ProcState, Nothing
<1>10. EnvText(c)' /\ EnvState(c)'
  BY <1>2, <1>4, <1>5, <1>7, EnvStarts
<1>11. ProcEnv(b)'
  BY <1>2, <1>4, <1>7, <1>10 DEF ProcEnv
<1> QED
  BY <1>4, <1>8, <1>9, <1>11 DEF ProcInv

LEMMA ProcSurvives ==
  ASSUME ProcInv, op = "proc_args", Named, result.kind = "Ok"
  PROVE  /\ args = given.argv /\ ToCommand(text) = Joined(given.argv)
         /\ \E c : EnvText(c) /\ EnvState(c)
<1>1. PICK b : ProcText(b) /\ ProcState(b) /\ ProcEnv(b)
  BY DEF ProcInv
<1> DEFINE n == Len(given.argv)
           m == (b[n] - b[0]) - 1
<1>2. args = given.argv /\ \E c : EnvText(c) /\ EnvState(c)
  BY <1>1 DEF ProcState, ProcEnv
<1>3. /\ Laid(text, given.argv, b) /\ given.argv \in Seq(Seq(Plain)) /\ n \in Nat /\ n # 0
      /\ ArgsStart(text) = b[0] + 1
  <2>1. given.argv \in Seq(Seq(Plain)) /\ given.argv # <<>>
    BY <1>1 DEF ProcText, Named
  <2>2. n \in Nat /\ n # 0
    BY <2>1, LenProperties, EmptySeq
  <2> QED
    BY <1>1, <2>1, <2>2 DEF ProcText
<1>4. b[0] \in Nat /\ b[n] \in Nat
  BY <1>3 DEF Laid
<1>5. Joined(given.argv) = Spaced(text, b[0], m) /\ m \in Nat
  BY <1>3, JoinedIsSpaced
<1>6. NthNul(text, ArgsStart(text), Argc) = b[n] /\ Argc # 0
  <2>1. NthNul(text, b[0] + 1, n) = b[n]
    BY <1>3, NthNulEnds
  <2> QED
    BY <1>3, <2>1 DEF Argc
<1>7. b[n] - ArgsStart(text) = m /\ \A i \in 1 .. m : ArgsStart(text) + i - 1 = b[0] + i
  <2> DEFINE s == ArgsStart(text)
             x == b[0]
             y == b[n]
  <2>1. x \in Nat /\ y \in Nat /\ s = x + 1
    BY <1>3, <1>4
  <2> HIDE DEF s, x, y
  <2>2. y - s = (y - x) - 1 /\ \A i \in Int : s + i - 1 = x + i
    BY <2>1
  <2> QED
    BY <2>2 DEF s, x, y
<1>8. ToCommand(text) = [i \in 1 .. b[n] - ArgsStart(text) |->
                           IF text[ArgsStart(text) + i - 1] = Nul THEN " "
                           ELSE text[ArgsStart(text) + i - 1]]
  BY <1>6 DEF ToCommand
<1> HIDE DEF n, m
<1>9. ToCommand(text) = Spaced(text, b[0], m)
  <2>1. ToCommand(text) = [i \in 1 .. m |->
                             IF text[ArgsStart(text) + i - 1] = Nul THEN " "
                             ELSE text[ArgsStart(text) + i - 1]]
    BY <1>7, <1>8, Zenon
  <2> QED
    <3> DEFINE F(i) == IF text[ArgsStart(text) + i - 1] = Nul THEN " "
                       ELSE text[ArgsStart(text) + i - 1]
               G(i) == IF text[b[0] + i] = Nul THEN " " ELSE text[b[0] + i]
    <3>1. \A i \in 1 .. m : F(i) = G(i)
      <4> SUFFICES ASSUME NEW i \in 1 .. m PROVE F(i) = G(i)
        OBVIOUS
      <4>1. ArgsStart(text) + i - 1 = b[0] + i
        BY <1>7
      <4> QED
        BY <4>1, Zenon
    <3> HIDE DEF F, G
    <3>2. [i \in 1 .. m |-> F(i)] = [i \in 1 .. m |-> G(i)]
      BY <3>1
    <3> QED
      BY <2>1, <3>2, Zenon DEF Spaced, F, G
<1> QED
  BY <1>2, <1>5, <1>9

----------------------------------------------------------------------------
(* Only the strings of an environment are taken for one. *)
StrInv == /\ CommandInv /\ EnvironmentInv /\ ProcInv
          /\ pc = "environment" => op # "command"

LEMMA InitStrings == Init => StrInv
BY DEF Init, StrInv, CommandInv, EnvironmentInv, ProcInv

LEMMA OpenCommandStrings ==
  ASSUME CommandInv, OpenCommand
  PROVE  CommandInv'
<1>1. op = "command" /\ UNCHANGED <<op, input, text, given, pos, args, result>>
  BY DEF OpenCommand, Same
<1>2. Due' = Due
  BY <1>1 DEF Due
<1>3. PICK b : CommandText(b) /\ (Delimiter(text) = Nul => CommandState(b))
  BY <1>1 DEF CommandInv
<1>4. CommandText(b)'
  BY <1>1, <1>2, <1>3 DEF CommandText
<1>5. Delimiter(text)' = Nul => CommandState(b)'
  BY <1>1, <1>2, <1>3 DEF CommandState, Taken
<1> QED
  BY <1>4, <1>5 DEF CommandInv

(* The other parsers. *)
LEMMA OtherStrings ==
  ASSUME Inv, StrInv,
         \/ BeginKeyed \/ BeginColumns \/ Open \/ NextLine \/ EndOfLines
         \/ SkipColumns \/ TakeColumn \/ MalformedColumn \/ NoColumn \/ EndOfRow
  PROVE  StrInv'
<1>1. \A m \in DOMAIN Keyed \union DOMAIN Columns : m \notin Strings
  BY OpsAre, StringsAre
<1>2. op' \notin Strings
  <2>1. CASE BeginKeyed
    <3>1. op' \in DOMAIN Keyed
      BY <2>1 DEF BeginKeyed, Start
    <3> QED
      BY <1>1, <3>1, SMTT(60)
  <2>2. CASE BeginColumns
    <3>1. op' \in DOMAIN Columns
      BY <2>2 DEF BeginColumns, Start
    <3> QED
      BY <1>1, <3>1
  <2>3. CASE Open
    BY <2>3 DEF Open, Same
  <2>4. CASE NextLine \/ EndOfLines
    <3>1. op' = op /\ op \in DOMAIN Keyed
      BY <2>4 DEF NextLine, EndOfLines, Same
    <3> QED
      BY <1>1, <3>1, SMTT(60)
  <2>5. CASE SkipColumns \/ TakeColumn \/ MalformedColumn \/ NoColumn \/ EndOfRow
    <3>1. op' = op /\ op \in DOMAIN Columns
      BY <2>5 DEF SkipColumns, TakeColumn, MalformedColumn, NoColumn, EndOfRow, TakesColumn, Same
    <3> QED
      BY <1>1, <3>1
  <2> QED
    BY <2>1, <2>2, <2>3, <2>4, <2>5
<1>3. op' \notin {"command", "environment", "proc_args"}
  BY <1>2 DEF Strings
<1> QED
  BY <1>3 DEF StrInv, CommandInv, EnvironmentInv, ProcInv

LEMMA StringsUnchanged ==
  ASSUME StrInv, UNCHANGED vars
  PROVE  StrInv'
<1>1. /\ UNCHANGED <<pc, op, input, pos, text, stop>>
      /\ UNCHANGED <<left, args, envs, given, result>>
  BY DEF vars
<1>2. Due' = Due /\ Named' = Named /\ (Taken <=> Taken')
  BY <1>1 DEF Due, Named, Taken
<1>3. \A c : (EnvText(c)' <=> EnvText(c)) /\ (EnvState(c)' <=> EnvState(c))
  BY <1>1 DEF EnvText, EnvState, EnvDone, Stopped, Kept, Whole
<1>4. CommandInv'
  BY <1>1, <1>2 DEF StrInv, CommandInv, CommandText, CommandState
<1>5. EnvironmentInv'
  BY <1>1, <1>3 DEF StrInv, EnvironmentInv
<1>6. ProcInv'
  BY <1>1, <1>2, <1>3 DEF StrInv, ProcInv, ProcText, ProcState, ProcEnv
<1> QED
  BY <1>1, <1>4, <1>5, <1>6 DEF StrInv

LEMMA NextStrings == Inv /\ StrInv /\ [Next]_vars => StrInv'
<1> SUFFICES ASSUME Inv, StrInv, [Next]_vars PROVE StrInv'
  OBVIOUS
<1>1. CASE BeginKeyed \/ BeginColumns \/ Open \/ NextLine \/ EndOfLines
           \/ SkipColumns \/ TakeColumn \/ MalformedColumn \/ NoColumn \/ EndOfRow
  BY <1>1, OtherStrings
<1>2. CASE BeginCommand \/ BeginTitle
  <2>1. op' = "command" /\ pc' = "open"
    BY <1>2 DEF BeginCommand, BeginTitle, Start
  <2>2. CommandInv'
    BY <1>2, BeginCommandStrings, BeginTitleStrings
  <2> QED
    BY <2>1, <2>2 DEF StrInv, EnvironmentInv, ProcInv
<1>3. CASE OpenCommand \/ CommandNext
  <2>1. op' = "command" /\ pc' # "environment"
    BY <1>3 DEF OpenCommand, CommandNext, Same, Done
  <2>2. CommandInv'
    BY <1>3, OpenCommandStrings, CommandNextStrings DEF StrInv
  <2> QED
    BY <2>1, <2>2 DEF StrInv, EnvironmentInv, ProcInv
<1>4. CASE BeginEnvironment \/ OpenEnvironment
  <2>1. op' = "environment"
    BY <1>4 DEF BeginEnvironment, Start, OpenEnvironment, Same
  <2>2. EnvironmentInv'
    BY <1>4, BeginEnvironmentStrings, OpenEnvironmentStrings DEF StrInv
  <2> QED
    BY <2>1, <2>2 DEF StrInv, CommandInv, ProcInv
<1>5. CASE BeginProcArgs
  <2>1. op' = "proc_args"
    BY <1>5 DEF BeginProcArgs, Start
  <2>2. ProcInv'
    BY <1>5, BeginProcArgsStrings
  <2> QED
    BY <2>1, <2>2 DEF StrInv, CommandInv, EnvironmentInv
<1>6. CASE OpenProcArgs \/ ProcArgsNext \/ ProcArgsEnvironment
  <2>1. op' = "proc_args" /\ given' = given
    BY <1>6 DEF OpenProcArgs, ProcArgsNext, ProcArgsEnvironment, Same
  <2>2. CASE Named
    <3>1. ProcInv'
      BY <1>6, <2>2, OpenProcArgsStrings, ProcArgsNextStrings, ProcArgsEnvironmentStrings
         DEF StrInv
    <3> QED
      BY <2>1, <3>1 DEF StrInv, CommandInv, EnvironmentInv
  <2>3. CASE ~Named
    BY <2>1, <2>3 DEF StrInv, CommandInv, EnvironmentInv, ProcInv, Named
  <2> QED
    BY <2>2, <2>3
<1>7. CASE EnvironmentNext
  <2>1. pc = "environment" /\ op' = op /\ given' = given
    BY <1>7 DEF EnvironmentNext, Same
  <2>2. op # "command" /\ EnvironmentInv'
    BY <1>7, <2>1, EnvironmentStep DEF StrInv
  <2>3. ProcInv'
    <3>1. CASE op = "proc_args" /\ Named
      BY <1>7, <3>1, ProcEnvironmentNextStrings DEF StrInv
    <3>2. CASE ~(op = "proc_args" /\ Named)
      BY <2>1, <3>2 DEF ProcInv, Named
    <3> QED
      BY <3>1, <3>2
  <2> QED
    BY <2>1, <2>2, <2>3 DEF StrInv, CommandInv
<1>8. CASE UNCHANGED vars
  BY <1>8, StringsUnchanged
<1> QED
  BY <1>1, <1>2, <1>3, <1>4, <1>5, <1>6, <1>7, <1>8 DEF Next

LEMMA StringsAreSound == StrInv => StringsSurvive
<1> SUFFICES ASSUME StrInv PROVE StringsSurvive
  OBVIOUS
<1>1. ArgumentsSurvive
  <2>1. ASSUME op = "command", result.kind = "Ok"
        PROVE  /\ input = <<>> => args = given.argv /\ ToOsString(text) = Joined(given.argv)
               /\ input # <<>> /\ Delimiter(text) = Nul =>
                    args = SubSeq(given.argv, 1, Len(given.argv) - 1)
    BY <2>1, CommandSurvives DEF StrInv
  <2>2. ASSUME op = "proc_args", result.kind = "Ok", Named
        PROVE  args = given.argv /\ ToCommand(text) = Joined(given.argv)
    BY <2>2, ProcSurvives DEF StrInv
  <2> QED
    BY <2>1, <2>2, Zenon DEF ArgumentsSurvive, Named
<1>2. EnvironmentSurvives
  <2>1. ASSUME \/ op = "environment"
               \/ op = "proc_args" /\ Named,
               result.kind = "Ok"
        PROVE  \E c : EnvText(c) /\ EnvState(c)
    BY <2>1, ProcSurvives DEF StrInv, EnvironmentInv
  <2>2. ASSUME \/ op = "environment"
               \/ op = "proc_args" /\ Named,
               result.kind = "Ok"
        PROVE  /\ Len(envs) = Cardinality(Whole)
               /\ \A i \in Whole :
                    LET n == Cardinality({j \in Whole : j <= i}) IN
                      /\ envs[n][1] \o <<"=">> \o envs[n][2] = given.env[i]
                      /\ \A j \in 2 .. Len(envs[n][1]) : envs[n][1][j] # "="
                      /\ envs[n][1] # <<>>
    BY <2>1, <2>2, EnvSurvives
  <2> QED
    BY <2>2, Zenon DEF EnvironmentSurvives, Named
<1> QED
  BY <1>1, <1>2 DEF StringsSurvive

(* Whatever a process was started with, its arguments and its environment  *)
(* survive the buffers they come in: cmdline and environ on Linux, behind  *)
(* the path of the program on macOS.                                       *)
THEOREM StringsStayWhole == Spec => []StringsSurvive
<1>1. Spec => []StrInv
  BY Invariance, InitStrings, NextStrings, PTL DEF Spec
<1> QED
  BY <1>1, StringsAreSound, PTL

----------------------------------------------------------------------------
(* How far a parser is from its end: the part of the work it is at, and    *)
(* the lines, columns, arguments or characters ahead of it.                *)
Stage == CASE pc = "idle" -> 0
           [] pc \in {"parse", "environment"} -> 1
           [] pc = "arguments" -> 2
           [] pc = "open" -> 3

Unseen == IF pos < Len(text) THEN Len(text) - pos ELSE 0

Ahead == IF pc = "parse" /\ op \in DOMAIN Keyed THEN Len(input) - pos
         ELSE IF pc = "parse" THEN Len(Columns[op]) - ip
         ELSE IF pc = "arguments" /\ op = "proc_args" THEN left
         ELSE Unseen

GoesOn == Stage' < Stage \/ (Stage' = Stage /\ Ahead' < Ahead)

LEMMA AheadType == Inv => Stage \in 0 .. 3 /\ Ahead \in Nat
<1> SUFFICES ASSUME Inv PROVE Stage \in 0 .. 3 /\ Ahead \in Nat
  OBVIOUS
<1>1. Stage \in 0 .. 3
  BY DEF Inv, Phase, Stage
<1>2. Unseen \in Nat /\ left \in Nat
  <2>1. pos \in Nat /\ Len(text) \in Nat /\ left \in 0 .. MaxArgs
    BY StringNumbers
  <2>2. MaxArgs \in Nat
    BY ParserAssumption
  <2>3. Unseen \in Nat
    BY <2>1 DEF Unseen
  <2> QED
    BY <2>1, <2>2, <2>3
<1>3. CASE pc = "parse"
  <2>1. op \in DOMAIN Keyed \union DOMAIN Columns
    BY <1>3 DEF Inv, Phase, Ops
  <2>2. ASSUME op \in DOMAIN Keyed PROVE Len(input) - pos \in Nat
    BY <2>2, LenProperties DEF Inv, KeyedInv, KeyedState, IsFile, Numbers
  <2>3. ASSUME op \in DOMAIN Columns PROVE Len(Columns[op]) - ip \in Nat
    BY <2>3, ProgramsOK DEF Inv, ColumnsInv, ColumnsState, Numbers, ProgramOK
  <2>4. CASE op \in DOMAIN Keyed
    BY <1>1, <1>3, <2>2, <2>4 DEF Ahead
  <2>5. CASE op \in DOMAIN Columns
    <3>1. op \notin DOMAIN Keyed
      BY <2>5, OpsAre
    <3> QED
      BY <1>1, <1>3, <2>3, <2>5, <3>1 DEF Ahead
  <2> QED
    BY <1>1, <2>1, <2>4, <2>5
<1>4. CASE pc # "parse"
  BY <1>1, <1>2, <1>4 DEF Ahead
<1> QED
  BY <1>1, <1>3, <1>4

(* memchr finds nothing behind its own start, so each string that is taken *)
(* leaves fewer characters.                                                *)
LEMMA LessUnseen ==
  ASSUME Inv, NEW c, Find(c, text, pos + 1) <= Len(text), text' = text,
         pos' = Find(c, text, pos + 1)
  PROVE  Unseen' < Unseen
<1> DEFINE e == Find(c, text, pos + 1)
<1>1. pos \in Nat /\ pos + 1 \in Nat /\ Len(text) \in Nat /\ e \in Nat
  BY StringNumbers
<1>2. FoundAt(c, text, pos + 1, e)
  BY <1>1, FindIs
<1> HIDE DEF e
<1>3. e >= pos + 1 /\ e <= Len(text)
  BY <1>1, <1>2 DEF FoundAt, e
<1>4. pos' = e /\ Len(text') = Len(text)
  BY DEF e
<1> QED
  BY <1>1, <1>3, <1>4 DEF Unseen

LEMMA LinesGoOn ==
  ASSUME Inv, Open \/ NextLine \/ EndOfLines
  PROVE  GoesOn
<1> USE DEF Done, Same, Stage, GoesOn
<1>1. CASE Open
  BY <1>1 DEF Open
<1>2. CASE NextLine
  <2>1. pc = "parse" /\ op \in DOMAIN Keyed /\ pos' = pos + 1
        /\ op' = op /\ input' = input /\ (pc' = "idle" \/ pc' = pc)
    BY <1>2 DEF NextLine
  <2>2. pos \in Nat /\ Len(input) \in Nat
    BY <2>1, LenProperties DEF Inv, KeyedInv, KeyedState, IsFile, Numbers
  <2>3. CASE pc' = "idle"
    BY <2>1, <2>3
  <2>4. CASE pc' = pc
    <3>1. Ahead = Len(input) - pos /\ Ahead' = Len(input) - (pos + 1)
      BY <2>1, <2>4 DEF Ahead
    <3> QED
      BY <2>1, <2>2, <2>4, <3>1
  <2> QED
    BY <2>1, <2>3, <2>4
<1>3. CASE EndOfLines
  BY <1>3 DEF EndOfLines
<1> QED
  BY <1>1, <1>2, <1>3

LEMMA ColumnsGoOn ==
  ASSUME Inv, SkipColumns \/ TakeColumn \/ MalformedColumn \/ NoColumn \/ EndOfRow
  PROVE  GoesOn
<1> USE DEF Done, Same, Stage, GoesOn
<1>1. CASE SkipColumns \/ TakeColumn
  <2>1. /\ pc = "parse" /\ pc' = pc /\ op \in DOMAIN Columns /\ op' = op
        /\ ip' = ip + 1
    BY <1>1 DEF SkipColumns, TakeColumn, TakesColumn
  <2>2. ip \in Nat /\ Len(Columns[op]) \in Nat /\ op \notin DOMAIN Keyed
    BY <2>1, ProgramsOK, OpsAre DEF Inv, Numbers, ProgramOK
  <2>3. /\ Ahead = Len(Columns[op]) - ip
        /\ Ahead' = Len(Columns[op]) - (ip + 1)
    BY <2>1, <2>2 DEF Ahead
  <2> QED
    BY <2>1, <2>2, <2>3
<1>2. CASE MalformedColumn \/ NoColumn \/ EndOfRow
  BY <1>2 DEF MalformedColumn, NoColumn, EndOfRow, TakesColumn
<1> QED
  BY <1>1, <1>2

LEMMA StringsGoOn ==
  ASSUME Inv, OpenCommand \/ CommandNext \/ OpenEnvironment \/ EnvironmentNext
  PROVE  GoesOn
<1> USE DEF GoesOn
<1>1. CASE OpenCommand \/ OpenEnvironment
  BY <1>1 DEF OpenCommand, OpenEnvironment, Stage
<1>2. CASE CommandNext
  <2> DEFINE e == Find(Delimiter(text), text, pos + 1)
  <2>1. pc = "arguments" /\ op = "command" /\ op' = op /\ text' = text
    BY <1>2 DEF CommandNext, Same
  <2>2. \/ pc' = "idle"
        \/ ~(e > Len(text)) /\ pos' = e /\ pc' = pc
    BY <1>2, Zenon DEF CommandNext, Done
  <2>3. CASE pc' = "idle"
    BY <2>1, <2>3 DEF Stage
  <2>4. CASE ~(e > Len(text)) /\ pos' = e /\ pc' = pc
    <3>1. e <= Len(text)
      BY <2>4, StringNumbers
    <3>2. Unseen' < Unseen
      BY <2>1, <2>4, <3>1, LessUnseen
    <3>3. Ahead = Unseen /\ Ahead' = Unseen' /\ Stage' = Stage
      BY <2>1, <2>4 DEF Ahead, Stage
    <3> QED
      BY <3>2, <3>3
  <2> QED
    BY <2>2, <2>3, <2>4
<1>3. CASE EnvironmentNext
  <2> DEFINE e == Find(Nul, text, pos + 1)
  <2>1. pc = "environment" /\ text' = text
    BY <1>3 DEF EnvironmentNext, Same
  <2>2. \/ pc' = "idle"
        \/ ~(e > Len(text)) /\ pos' = e /\ pc' = pc
    BY <1>3, Zenon DEF EnvironmentNext, Done
  <2>3. CASE pc' = "idle"
    BY <2>1, <2>3 DEF Stage
  <2>4. CASE ~(e > Len(text)) /\ pos' = e /\ pc' = pc
    <3>1. e <= Len(text)
      BY <2>4, StringNumbers
    <3>2. Unseen' < Unseen
      BY <2>1, <2>4, <3>1, LessUnseen
    <3>3. Ahead = Unseen /\ Ahead' = Unseen' /\ Stage' = Stage
      BY <2>1, <2>4 DEF Ahead, Stage
    <3> QED
      BY <3>2, <3>3
  <2> QED
    BY <2>2, <2>3, <2>4
<1> QED
  BY <1>1, <1>2, <1>3

LEMMA ProcArgsGoOn ==
  ASSUME Inv, OpenProcArgs \/ ProcArgsNext \/ ProcArgsEnvironment
  PROVE  GoesOn
<1> USE DEF GoesOn
<1>1. CASE OpenProcArgs
  <2>1. pc = "open" /\ pc' \in {"idle", "arguments"}
    BY <1>1 DEF OpenProcArgs, Done
  <2> QED
    BY <2>1 DEF Stage
<1>2. CASE ProcArgsNext
  <2>1. /\ pc = "arguments" /\ op = "proc_args" /\ pc' = pc /\ op' = op
        /\ left' = left - 1
    BY <1>2 DEF ProcArgsNext, Same
  <2>2. left \in Int
    BY StringNumbers
  <2> QED
    BY <2>1, <2>2 DEF Ahead, Stage
<1>3. CASE ProcArgsEnvironment
  BY <1>3 DEF ProcArgsEnvironment, Stage
<1> QED
  BY <1>1, <1>2, <1>3

(* No parser goes round for nothing: between its first step and its result *)
(* it gets on with every step, to the next part of its work or to the next *)
(* line, column or string of it, whatever the file holds and even if       *)
(* argc counts more arguments than the buffer has; and what it has         *)
(* returned it never takes back.                                           *)
THEOREM ParsersGoOn ==
  Spec => /\ [](Stage \in 0 .. 3 /\ Ahead \in Nat)
          /\ [][~Fresh => GoesOn]_vars
<1>1. ASSUME Inv, [Next]_vars PROVE [~Fresh => GoesOn]_vars
  <2>1. CASE BeginKeyed \/ BeginColumns \/ BeginCommand \/ BeginTitle
             \/ BeginEnvironment \/ BeginProcArgs
    BY <2>1 DEF BeginKeyed, BeginColumns, BeginCommand, BeginTitle,
       BeginEnvironment, BeginProcArgs
  <2>2. CASE Open \/ NextLine \/ EndOfLines
    BY <1>1, <2>2, LinesGoOn
  <2>3. CASE SkipColumns \/ TakeColumn \/ MalformedColumn \/ NoColumn \/ EndOfRow
    BY <1>1, <2>3, ColumnsGoOn
  <2>4. CASE OpenCommand \/ CommandNext \/ OpenEnvironment \/ EnvironmentNext
    BY <1>1, <2>4, StringsGoOn
  <2>5. CASE OpenProcArgs \/ ProcArgsNext \/ ProcArgsEnvironment
    BY <1>1, <2>5, ProcArgsGoOn
  <2> QED
    BY <1>1, <2>1, <2>2, <2>3, <2>4, <2>5 DEF Next
<1> QED
  BY <1>1, AheadType, Invariance, PTL DEF Spec

----------------------------------------------------------------------------
(* The combinator of streams.  Its invariant ties the fields to the        *)
(* positions in the sources, and the output to the items taken.            *)

(* `first_yielded` remembers exactly that an item was taken, and the field *)
(* `first` is empty exactly when the first source has returned None.       *)
FieldsMatchFirst == /\ first_yielded <=> at1 > 0
                    /\ over1 <=> ~first
                    /\ ~first => at1 = Len(items1)

(* The second source is touched only after an empty first one. *)
SecondAfterEmptyFirst == /\ polled2 => ~first /\ at1 = 0
                         /\ at2 > 0 => polled2
                         /\ over2 => polled2 /\ at2 = Len(items2)

(* The output is what was taken, in the order it was taken. *)
OutIsTaken == /\ Len(out) = at1 + at2
              /\ \A k \in 1..at1 : out[k] = items1[k]
              /\ at1 = 0 => \A k \in 1..at2 : out[k] = items2[k]

(* None was returned only by an exhausted stream. *)
ToldAtEnd == /\ told => ~first /\ (at1 = 0 => over2)
             /\ 1 \notin misuse
             /\ over2 => told

ChainInv == /\ ChainTypeOK
            /\ FieldsMatchFirst
            /\ SecondAfterEmptyFirst
            /\ OutIsTaken
            /\ ToldAtEnd
            /\ 2 \in misuse => told

----------------------------------------------------------------------------
(* A source that is not empty has a first item to give. *)
LEMMA StreamFacts ==
  ASSUME NEW s \in Streams
  PROVE  /\ s \in Seq(Item)
         /\ Len(s) \in Nat
         /\ s = <<>> <=> Len(s) = 0
         /\ \A k \in 1..Len(s) : s[k] \in Item
<1>1. s \in Seq(Item)
  BY StreamsAssumption
<1> QED
  BY <1>1, EmptySeq, LenProperties, ElementOfSeq

LEMMA ChainInitInv == ChainInit => ChainInv
<1> SUFFICES ASSUME ChainInit PROVE ChainInv
  OBVIOUS
<1>1. Len(items1) \in Nat /\ Len(items2) \in Nat
  BY StreamFacts DEF ChainInit
<1>2. out \in Seq(Item) /\ Len(out) = 0
  <2>1. out = <<>>
    BY DEF ChainInit
  <2> QED
    BY <2>1, EmptySeq
<1>3. ChainTypeOK
  <2>1. at1 \in 0..Len(items1) /\ at2 \in 0..Len(items2)
    BY <1>1 DEF ChainInit
  <2>2. misuse \in SUBSET {1, 2} /\ polled2 \in BOOLEAN /\ told \in BOOLEAN
    BY DEF ChainInit
  <2>3. /\ over1 \in BOOLEAN /\ over2 \in BOOLEAN
        /\ first \in BOOLEAN /\ first_yielded \in BOOLEAN
    BY DEF ChainInit
  <2>4. items1 \in Streams /\ items2 \in Streams
    BY DEF ChainInit
  <2> QED
    BY <1>2, <2>1, <2>2, <2>3, <2>4 DEF ChainTypeOK
<1>4. FieldsMatchFirst /\ SecondAfterEmptyFirst
  BY <1>1 DEF ChainInit, FieldsMatchFirst, SecondAfterEmptyFirst
<1>5. OutIsTaken
  BY <1>2 DEF ChainInit, OutIsTaken
<1>6. ToldAtEnd /\ (2 \in misuse => told)
  BY DEF ChainInit, ToldAtEnd
<1> QED
  BY <1>3, <1>4, <1>5, <1>6 DEF ChainInv

(* What the invariant says of the sources, in the form the steps need. *)
LEMMA SourceFacts ==
  ASSUME ChainInv
  PROVE  /\ Len(items1) \in Nat /\ Len(items2) \in Nat
         /\ \A k \in 1..Len(items1) : items1[k] \in Item
         /\ \A k \in 1..Len(items2) : items2[k] \in Item
         /\ at1 \in Nat /\ at2 \in Nat
         /\ items1 = <<>> <=> Len(items1) = 0
BY StreamFacts DEF ChainInv, ChainTypeOK

(* The first source is not touched by a poll of the second one. *)
LEMMA PollSecondInv ==
  ASSUME ChainInv, AfterFirst,
         ~first', over1', first' \in BOOLEAN, over1' \in BOOLEAN,
         at1 = Len(items1),
         UNCHANGED <<items1, items2, at1, first_yielded>>
  PROVE  ChainInv'
<1> USE SourceFacts
<1>1. CASE first_yielded /\ told' = TRUE
           /\ UNCHANGED <<at2, over2, out, polled2, misuse>>
  BY <1>1 DEF ChainInv, ChainTypeOK, FieldsMatchFirst, SecondAfterEmptyFirst,
     OutIsTaken, ToldAtEnd
<1>2. CASE ~first_yielded /\ PollSecond
  <2>1. at1 = 0 /\ (first \/ ~first) /\ misuse' \in SUBSET {1, 2}
        /\ 1 \notin misuse' /\ (2 \in misuse' => told)
    BY <1>2 DEF PollSecond, Touch, ChainInv, ChainTypeOK, FieldsMatchFirst, ToldAtEnd
  <2>2. CASE SecondPending
    BY <1>2, <2>1, <2>2 DEF PollSecond, SecondPending, ChainInv, ChainTypeOK,
       FieldsMatchFirst, SecondAfterEmptyFirst, OutIsTaken, ToldAtEnd
  <2>3. CASE SecondItem
    <3>1. items2[at2 + 1] \in Item
      BY <2>3 DEF SecondItem
    <3>2. /\ out' \in Seq(Item)
          /\ Len(out') = Len(out) + 1
          /\ \A k \in 1..Len(out) : out'[k] = out[k]
          /\ out'[Len(out) + 1] = items2[at2 + 1]
      BY <2>3, <3>1, AppendProperties DEF SecondItem, ChainInv, ChainTypeOK
    <3>3. OutIsTaken'
      BY <2>1, <2>3, <3>2 DEF SecondItem, ChainInv, OutIsTaken, ChainTypeOK
    <3>4. ~told /\ ~over2
      BY <2>1, <2>3 DEF SecondItem, ChainInv, ToldAtEnd, SecondAfterEmptyFirst
    <3> QED
      BY <1>2, <2>1, <2>3, <3>2, <3>3, <3>4 DEF PollSecond, SecondItem, ChainInv,
         ChainTypeOK, FieldsMatchFirst, SecondAfterEmptyFirst, ToldAtEnd
  <2>4. CASE SecondOver
    BY <1>2, <2>1, <2>4 DEF PollSecond, SecondOver, ChainInv, ChainTypeOK,
       FieldsMatchFirst, SecondAfterEmptyFirst, OutIsTaken, ToldAtEnd
  <2> QED
    BY <1>2, <2>2, <2>3, <2>4 DEF PollSecond
<1> QED
  BY <1>1, <1>2 DEF AfterFirst

LEMMA ChainStepInv == ChainInv /\ [poll_next]_chainvars => ChainInv'
<1> SUFFICES ASSUME ChainInv, [poll_next]_chainvars PROVE ChainInv'
  OBVIOUS
<1>1. CASE FirstPending
  BY <1>1 DEF FirstPending, Touch, ChainInv, ChainTypeOK, FieldsMatchFirst,
     SecondAfterEmptyFirst, OutIsTaken, ToldAtEnd
<1>2. CASE FirstItem
  <2> USE SourceFacts
  <2>1. items1[at1 + 1] \in Item
    BY <1>2 DEF FirstItem
  <2>2. /\ out' \in Seq(Item)
        /\ Len(out') = Len(out) + 1
        /\ \A k \in 1..Len(out) : out'[k] = out[k]
        /\ out'[Len(out) + 1] = items1[at1 + 1]
    BY <1>2, <2>1, AppendProperties DEF FirstItem, ChainInv, ChainTypeOK
  <2>3. at2 = 0 /\ ~over2 /\ ~told /\ ~polled2 /\ misuse' = misuse
    BY <1>2 DEF FirstItem, Touch, ChainInv, FieldsMatchFirst,
       SecondAfterEmptyFirst, ToldAtEnd
  <2>4. OutIsTaken'
    BY <1>2, <2>2, <2>3 DEF FirstItem, ChainInv, OutIsTaken
  <2> QED
    BY <1>2, <2>2, <2>3, <2>4 DEF FirstItem, ChainInv, ChainTypeOK, FieldsMatchFirst,
       SecondAfterEmptyFirst, ToldAtEnd
<1>3. CASE FirstOver
  BY <1>3, PollSecondInv DEF FirstOver, ChainInv, ChainTypeOK
<1>4. CASE FirstGone
  <2>1. /\ over1 /\ at1 = Len(items1)
        /\ first \in BOOLEAN /\ over1 \in BOOLEAN
    BY <1>4 DEF FirstGone, ChainInv, FieldsMatchFirst, ChainTypeOK
  <2> QED
    BY <1>4, <2>1, PollSecondInv DEF FirstGone
<1>5. CASE UNCHANGED chainvars
  BY <1>5 DEF chainvars, ChainInv, ChainTypeOK, FieldsMatchFirst,
     SecondAfterEmptyFirst, OutIsTaken, ToldAtEnd
<1> QED
  BY <1>1, <1>2, <1>3, <1>4, <1>5 DEF poll_next

(* The invariant holds in every reachable state. *)
THEOREM ChainInvariance == ChainSpec => []ChainInv
BY ChainInitInv, ChainStepInv, PTL DEF ChainSpec

(* Fields and positions keep their types: in particular no source is      *)
(* asked for more items than it has.                                       *)
THEOREM ChainTypeCorrectness == ChainSpec => []ChainTypeOK
<1>1. ChainInv => ChainTypeOK
  BY DEF ChainInv
<1> QED
  BY <1>1, ChainInvariance, PTL

(* The second source is left alone unless the first one was empty, for     *)
(* streams of any length (poll_next).                                      *)
THEOREM SecondIsLeftAlone == ChainSpec => []Exclusive
<1>1. ChainInv => Exclusive
  BY SourceFacts DEF ChainInv, ChainTypeOK, FieldsMatchFirst, SecondAfterEmptyFirst,
     ToldAtEnd, Exclusive
<1> QED
  BY <1>1, ChainInvariance, PTL

(* No source is polled past its end by a caller that stops at None, and    *)
(* is_terminated is never early.                                           *)
THEOREM Safety == ChainSpec => []PollingIsSafe
<1>1. ChainInv => NoSourceOverPolled
  BY SourceFacts DEF ChainInv, ChainTypeOK, FieldsMatchFirst, SecondAfterEmptyFirst,
     ToldAtEnd, NoSourceOverPolled
<1>2. ChainInv => TerminatedMeansDrained
  <2> SUFFICES ASSUME ChainInv, is_terminated PROVE out = Chosen
    BY DEF TerminatedMeansDrained
  <2>1. items1 = <<>> /\ Len(out) = Len(items2)
        /\ \A k \in 1..Len(out) : out[k] = items2[k]
    BY SourceFacts DEF is_terminated, ChainInv, FieldsMatchFirst, 
       SecondAfterEmptyFirst, OutIsTaken
  <2>2. out \in Seq(Item) /\ items2 \in Seq(Item)
    BY StreamFacts DEF ChainInv, ChainTypeOK
  <2>3. out = items2
    BY <2>1, <2>2, SeqEqual
  <2> QED
    BY <2>1, <2>3 DEF Chosen
<1>3. ChainInv => PollingIsSafe
  BY <1>1, <1>2 DEF PollingIsSafe
<1> QED
  BY <1>3, ChainInvariance, PTL

(* Every poll is a step of the promise or invisible to the caller.         *)
LEMMA StepRefines ==
  ChainInv /\ ChainInv' /\ [poll_next]_chainvars => [Abstract!Next]_(Abstract!vars)
<1> SUFFICES ASSUME ChainInv, ChainInv', [poll_next]_chainvars
             PROVE  [Abstract!Next]_(Abstract!vars)
  OBVIOUS
<1> USE SourceFacts
<1>1. CASE FirstPending
  BY <1>1 DEF FirstPending, Abstract!vars, Chosen
<1>2. CASE FirstItem
  <2>1. items1 # <<>> /\ Len(out) = at1 /\ ~told
    BY <1>2 DEF FirstItem, ChainInv, FieldsMatchFirst, SecondAfterEmptyFirst,
       OutIsTaken, ToldAtEnd
  <2> QED
    BY <1>2, <2>1 DEF FirstItem, Abstract!Next, Abstract!Yield, Chosen
<1>3. CASE /\ AfterFirst /\ at1 = Len(items1)
           /\ UNCHANGED <<items1, items2>>
  <2>1. CASE /\ first_yielded /\ told' = TRUE
             /\ UNCHANGED <<at2, over2, out, polled2, misuse>>
    <3>1. items1 # <<>> /\ at2 = 0
      BY <1>3, <2>1 DEF ChainInv, FieldsMatchFirst, SecondAfterEmptyFirst
    <3> QED
      BY <1>3, <2>1, <3>1 DEF ChainInv, OutIsTaken, Abstract!Next, Abstract!End,
         Chosen
  <2>2. CASE ~first_yielded /\ PollSecond
    <3>1. items1 = <<>> /\ Len(out) = at2 /\ Chosen = items2
          /\ Chosen' = Chosen
      BY <1>3, <2>2 DEF ChainInv, FieldsMatchFirst, OutIsTaken, Chosen
    <3>2. CASE SecondPending
      BY <3>1, <3>2 DEF SecondPending, Abstract!vars
    <3>3. CASE SecondItem
      <4>1. ~told
        BY <1>3, <2>2, <3>3 DEF SecondItem, ChainInv, ToldAtEnd,
           FieldsMatchFirst, SecondAfterEmptyFirst
      <4> QED
        BY <3>1, <3>3, <4>1 DEF SecondItem, Abstract!Next, Abstract!Yield
    <3>4. CASE SecondOver
      BY <3>1, <3>4 DEF SecondOver, Abstract!Next, Abstract!End
    <3> QED
      BY <2>2, <3>2, <3>3, <3>4 DEF PollSecond
  <2> QED
    BY <1>3, <2>1, <2>2 DEF AfterFirst
<1>4. CASE FirstOver
  BY <1>3, <1>4 DEF FirstOver
<1>5. CASE FirstGone
  BY <1>3, <1>5 DEF FirstGone, ChainInv, FieldsMatchFirst
<1>6. CASE UNCHANGED chainvars
  BY <1>6 DEF chainvars, Abstract!vars, Chosen
<1> QED
  BY <1>1, <1>2, <1>4, <1>5, <1>6 DEF poll_next

(* poll_next implements the promise of HeimStreamExt::choose_chain: an     *)
(* in-order, gapless copy of the chosen stream and nothing after its end.  *)
THEOREM Refinement == ChainSpec => ImplementsEitherStream
<1>1. ChainInit => Abstract!Init
  <2> SUFFICES ASSUME ChainInit PROVE Abstract!Init
    OBVIOUS
  <2>1. Chosen = Abstract!Choice(items1, items2)
    BY DEF Chosen, Abstract!Choice
  <2> QED
    BY <2>1 DEF ChainInit, Abstract!Init
<1> QED
  BY <1>1, StepRefines, ChainInvariance, PTL
     DEF ChainSpec, ImplementsEitherStream, Abstract!Spec

============================================================================
