---------------------------- MODULE FileParsers ----------------------------
(***************************************************************************)
(* The parsers of what the system writes about itself: files with a key in *)
(* each line (meminfo, vmstat, stat, io), rows of columns (diskstats,      *)
(* net/dev, mounts, statm, stat of a process), and strings that end with   *)
(* NUL (cmdline, environ, the arguments of a process on macOS).            *)
(*                                                                         *)
(* A number is told apart by where it stands: a field holds the key or the *)
(* column it was read from, {} if it has its default.                      *)
(***************************************************************************)
EXTENDS Integers, Sequences, FiniteSets, Errors

CONSTANTS Words,        \* arguments of a process, sequences of characters
          Entries,      \* strings in its environment
          MaxArgs       \* bound: arguments, and entries of the environment

ASSUME ParserAssumption == /\ MaxArgs \in Nat \ {0}
                           /\ Words \subseteq Seq({"a", " ", "=", ")"})
                           /\ Entries \subseteq Seq({"a", " ", "=", ")"})

VARIABLES pc, op,       \* the parser, and what it is doing
          input,        \* the lines or the columns it reads
          pos,          \* how many of them, or of the characters, it has read
          ip,           \* the column parsers: how many instructions are done
          fields,       \* what has been read
          matched,      \* lines that have a value
          text,         \* the characters of a string
          stop, left,   \* end of the arguments, and how many are left
          args, envs,   \* what the iterators have yielded
          given,        \* history: what the process was started with
          result

vars == <<pc, op, input, pos, ip, fields, matched, text, stop, left, args,
          envs, given, result>>

----------------------------------------------------------------------------
(* Parsers that look for keys: the field each key is for, after how many   *)
(* values they stop, what they make of a line without a value or with less *)
(* than two characters, and of a file in which a key is missing.           *)
VmStat == [field |-> [pswpin |-> "swap_in", pswpout |-> "swap_out"],
           stopAt |-> 0, noValue |-> "skip", short |-> "panic",
           missing |-> "default"]

Swap == [field |-> [SwapTotal |-> "total", SwapFree |-> "free"],
         stopAt |-> 2, noValue |-> "skip", short |-> "panic",
         missing |-> "File"]

Memory == [field |-> [MemTotal |-> "total", MemFree |-> "free",
                      MemAvailable |-> "available", Buffers |-> "buffers",
                      Cached |-> "cached", Active |-> "active",
                      Inactive |-> "inactive", Shmem |-> "shared"],
           stopAt |-> 8, noValue |-> "skip", short |-> "panic",
           missing |-> "File"]

CpuStats == [field |-> [ctxt |-> "ctx_switches", intr |-> "interrupts",
                        softirq |-> "soft_interrupts"],
             stopAt |-> 3, noValue |-> "MissingKey", short |-> "skip",
             missing |-> "default"]

BootTime == [field |-> [btime |-> "boot_time"],
             stopAt |-> 1, noValue |-> "skip", short |-> "skip",
             missing |-> "MissingKey"]

IoCounters == [field |-> [rchar |-> "rchar", wchar |-> "wchar",
                          syscr |-> "syscr", syscw |-> "syscw",
                          read_bytes |-> "read_bytes",
                          write_bytes |-> "write_bytes",
                          cancelled_write_bytes |-> "cancelled_write_bytes"],
               stopAt |-> 0, noValue |-> "none", short |-> "none",
               missing |-> "default"]

Keyed == [vmstat |-> VmStat, swap |-> Swap, memory |-> Memory,
          cpu_stats |-> CpuStats, boot_time |-> BootTime, io |-> IoCounters]

----------------------------------------------------------------------------
(* Parsers of columns, as the steps they take along a row. *)
Skip(n) == [do |-> "skip", n |-> n, f |-> "_", missing |-> "none"]
Num(f)  == [do |-> "num", n |-> 1, f |-> f, missing |-> "none"]
Text(f) == [do |-> "text", n |-> 1, f |-> f, missing |-> "none"]
Opt(f)  == [do |-> "opt", n |-> 1, f |-> f, missing |-> "none"]
Required(i) == [i EXCEPT !.missing = "MissingKey"]

(* Mutant: one column too few is skipped. *)
DiskCountersOff ==
  <<Skip(2), Text("name"), Num("read_count"), Num("read_merged_count"),
    Num("read_bytes"), Num("write_count"), Num("write_merged_count"),
    Num("write_bytes"), Skip(2), Num("busy_time")>>

DiskCounters ==
  <<Skip(2), Text("name"), Num("read_count"), Num("read_merged_count"),
    Num("read_bytes"), Skip(1), Num("write_count"), Num("write_merged_count"),
    Num("write_bytes"), Skip(2), Num("busy_time")>>

NetCounters ==
  <<Required(Text("interface")),
    Num("rx_bytes"), Num("rx_packets"), Num("rx_errs"), Num("rx_drop"),
    Num("rx_fifo"), Num("rx_frame"), Num("rx_compressed"), Num("rx_multicast"),
    Num("tx_bytes"), Num("tx_packets"), Num("tx_errs"), Num("tx_drop"),
    Num("tx_fifo"), Num("tx_frame"), Num("tx_compressed"), Num("tx_multicast")>>

Partition == <<Required(Text("device")), Required(Text("mount_point")),
               Required(Text("fs_type")), Required(Text("options"))>>

StatM == <<Num("size"), Num("resident"), Num("shared"), Num("text"), Skip(1),
           Num("data")>>

CpuTimes ==
  <<Skip(1), Opt("user"), Opt("nice"), Opt("system"), Opt("idle"),
    Opt("io_wait"), Opt("irq"), Opt("soft_irq"), Opt("steal"), Opt("guest"),
    Opt("guest_nice"), Opt("_")>>

Stat ==
  <<Num("pid"), Text("name"), Num("state"), Num("ppid"), Num("_"), Num("_"),
    Num("_"), Num("_"), Num("_"), Num("_"), Num("_"), Num("_"), Num("_"),
    Num("utime"), Num("stime"), Num("cutime"), Num("cstime"), Num("_"),
    Num("_"), Num("_"), Num("_"), Num("create_time"), Num("_"), Num("_"),
    Num("_")>>

Uptime == <<Num("uptime")>>

Columns == [diskstats |-> DiskCounters, net |-> NetCounters,
            mounts |-> Partition, statm |-> StatM, cpu |-> CpuTimes,
            stat |-> Stat, uptime |-> Uptime]

Strings == {"command", "environment", "proc_args"}

----------------------------------------------------------------------------
(* The accessors of the public types, and the field each one returns. *)
SwapAccessors == [sin |-> "swap_in", sout |-> "swap_out"]

MemoryAccessors ==
  [total |-> "total", free |-> "free", available |-> "available",
   buffers |-> "buffers", cached |-> "cached", active |-> "active",
   inactive |-> "inactive", shared |-> "shared"]

CpuStatsAccessors ==
  [ctx_switches |-> "ctx_switches", interrupts |-> "interrupts",
   soft_interrupts |-> "soft_interrupts"]

IoAccessors ==
  [chars_read |-> "rchar", chars_written |-> "wchar", read_syscalls |-> "syscr",
   write_syscalls |-> "syscw", bytes_read |-> "read_bytes",
   bytes_written |-> "write_bytes",
   cancelled_write_bytes |-> "cancelled_write_bytes"]

DiskAccessors ==
  [device_name |-> "name", read_count |-> "read_count",
   write_count |-> "write_count", read_bytes |-> "read_bytes",
   write_bytes |-> "write_bytes", busy_time |-> "busy_time"]

(* Mutant: what was dropped is mixed up. *)
NetAccessorsSwapped ==
  [interface |-> "interface", bytes_sent |-> "tx_bytes",
   bytes_recv |-> "rx_bytes", packets_sent |-> "tx_packets",
   packets_recv |-> "rx_packets", errors_sent |-> "tx_errs",
   errors_recv |-> "rx_errs", drop_recv |-> "tx_drop", drop_sent |-> "rx_drop"]

NetAccessors ==
  [interface |-> "interface", bytes_sent |-> "tx_bytes",
   bytes_recv |-> "rx_bytes", packets_sent |-> "tx_packets",
   packets_recv |-> "rx_packets", errors_sent |-> "tx_errs",
   errors_recv |-> "rx_errs", drop_recv |-> "rx_drop", drop_sent |-> "tx_drop"]

StatMAccessors == [rss |-> "resident", vms |-> "size", shared |-> "shared",
                   text |-> "text", data |-> "data"]

CpuTimeAccessors ==
  [user |-> "user", nice |-> "nice", system |-> "system", idle |-> "idle",
   io_wait |-> "io_wait", irq |-> "irq", soft_irq |-> "soft_irq",
   steal |-> "steal", guest |-> "guest", guest_nice |-> "guest_nice"]

(* CpuTime of a process is made of its Stat. *)
ProcessTimeAccessors == [user |-> "utime", system |-> "stime",
                         pid |-> "pid", parent_pid |-> "ppid", name |-> "name",
                         status |-> "state", create_time |-> "create_time"]

Accessors ==
  [vmstat |-> SwapAccessors,
   swap |-> [total |-> "total", free |-> "free"],
   memory |-> MemoryAccessors, cpu_stats |-> CpuStatsAccessors,
   boot_time |-> [boot_time |-> "boot_time"], io |-> IoAccessors,
   diskstats |-> DiskAccessors, net |-> NetAccessors,
   mounts |-> [device |-> "device", mount_point |-> "mount_point",
               file_system |-> "fs_type", options |-> "options"],
   statm |-> StatMAccessors, cpu |-> CpuTimeAccessors,
   stat |-> ProcessTimeAccessors, uptime |-> [uptime |-> "uptime"]]

Get(accessor) == fields[Accessors[op][accessor]]

----------------------------------------------------------------------------
Ops == DOMAIN Keyed \union DOMAIN Columns \union Strings

FieldsOf(m) ==
  IF m \in DOMAIN Keyed
  THEN {Keyed[m].field[k] : k \in DOMAIN Keyed[m].field}
  ELSE {Columns[m][i].f : i \in DOMAIN Columns[m]}

Nothing == [kind |-> "none", error |-> FromParse]
Ok == [kind |-> "Ok", error |-> FromParse]
Err(e) == [kind |-> "Err", error |-> e]
Panic == [kind |-> "Panic", error |-> FromParse]

Init == /\ pc = "idle" /\ op = "none" /\ input = <<>> /\ pos = 0 /\ ip = 0
        /\ fields = [f \in {} |-> {}] /\ matched = 0
        /\ text = <<>> /\ stop = 0 /\ left = 0 /\ args = <<>> /\ envs = <<>>
        /\ given = [argv |-> <<>>, env |-> <<>>]
        /\ result = Nothing

Fresh == pc = "idle" /\ result = Nothing

Start(m, in, txt, g) ==
  /\ pc' = "open" /\ op' = m /\ input' = in /\ text' = txt /\ given' = g
  /\ fields' = [f \in (IF m \in Strings THEN {} ELSE FieldsOf(m)) |-> {}]
  /\ UNCHANGED <<pos, ip, matched, stop, left, args, envs, result>>

NotGiven == [argv |-> <<>>, env |-> <<>>]

Done(r) == pc' = "idle" /\ result' = r

Same(v) == UNCHANGED v /\ UNCHANGED <<op, input, text, given>>

----------------------------------------------------------------------------
(* The files.  The kernel writes its keys in a fixed order; which of them  *)
(* there are depends on its version, and other lines are strangers to the  *)
(* parser.  At most one line is malformed; a file may be empty.            *)
KernelOrder(m) ==
  CASE m = "vmstat"    -> <<"pswpin", "pswpout">>
    [] m = "swap"      -> <<"SwapCached", "SwapTotal", "SwapFree">>
    [] m = "memory"    -> <<"MemTotal", "MemFree", "MemAvailable", "Buffers",
                            "Cached", "SwapCached", "Active", "Inactive",
                            "Shmem">>
    [] m = "cpu_stats" -> <<"intr", "ctxt", "softirq">>
    [] m = "boot_time" -> <<"ctxt", "btime", "softirq">>
    [] m = "io"        -> <<"rchar", "wchar", "syscr", "syscw", "read_bytes",
                            "write_bytes", "cancelled_write_bytes">>

Line(k, v) == [key |-> k, val |-> v]

Lines(m, n, gone, d, v) ==
  [i \in 1 .. n |-> IF i \in gone THEN Line("Other", "num")
                    ELSE Line(KernelOrder(m)[i], IF i = d THEN v ELSE "num")]

BeginKeyed ==
  Fresh /\ \E m \in DOMAIN Keyed :
             LET max == Len(KernelOrder(m)) IN
             \E n \in {0, max}, gone \in SUBSET (1 .. max), d \in 0 .. max,
                v \in {"bad", "none"}, head \in {<<>>, <<Line("short", "none")>>} :
               Start(m, head \o Lines(m, n, gone, d, v), <<>>, NotGiven)

(* Rows have up to one column more than is read; one may be malformed. *)
Width(m) == LET sum[i \in 0 .. Len(Columns[m])] ==
                  IF i = 0 THEN 0 ELSE sum[i - 1] + Columns[m][i].n
            IN sum[Len(Columns[m])]

Row(n, d) == [i \in 1 .. n |-> IF i = d THEN "bad" ELSE "num"]

(* `comm` is in parentheses and may itself contain some. *)
Comm(w) == <<"(">> \o w \o <<")">>

BeginColumns ==
  Fresh /\ \E m \in DOMAIN Columns : \E n, d \in 0 .. Width(m) + 1 :
             \E w \in IF m = "stat" /\ n > Width(m) THEN Words ELSE {<<>>} :
               Start(m, Row(n, d), Comm(w), [argv |-> <<w>>, env |-> <<>>])

(* read_to_string and its kin: the file may not be there. *)
Open == /\ pc = "open" /\ op \notin Strings
        /\ \/ /\ pc' = "parse" /\ UNCHANGED result
           \/ \E code \in Codes :
                Done(Err(IF op = "net" THEN With(FromOsCode(code), "File")
                         ELSE FromOsCode(code)))
        /\ Same(<<pos, ip, fields, matched, stop, left, args, envs>>)

----------------------------------------------------------------------------
(* `?` and the errors the parsers build themselves. *)
Failure(context) == IF context = "MissingKey" THEN MissingKey
                    ELSE With(FromParse, context)

NextLine ==
  /\ pc = "parse" /\ op \in DOMAIN Keyed /\ pos < Len(input)
  /\ LET p == Keyed[op]
         line == input[pos + 1]
         known == line.key \in DOMAIN p.field
     IN /\ pos' = pos + 1
        /\ \/ /\ line.key = "short" /\ p.short = "panic"
              /\ Done(Panic) /\ UNCHANGED <<fields, matched>>
           \/ /\ line.key = "short" /\ p.short = "none"
              /\ Done(Err(FromParse)) /\ UNCHANGED <<fields, matched>>
           \/ /\ \/ line.key = "short" /\ p.short = "skip"
                 \/ line.key # "short" /\ ~known
                 \/ known /\ line.val = "none" /\ p.noValue = "skip"
              /\ UNCHANGED <<pc, result, fields, matched>>
           \/ /\ known /\ line.val = "none" /\ p.noValue # "skip"
              /\ Done(Err(Failure(p.noValue))) /\ UNCHANGED <<fields, matched>>
           \/ /\ known /\ line.val = "bad"
              /\ Done(Err(FromParse)) /\ UNCHANGED <<fields, matched>>
           \/ /\ known /\ line.val = "num"
              /\ fields' = [fields EXCEPT ![p.field[line.key]] = {line.key}]
              /\ matched' = matched + 1
              /\ IF matched' = p.stopAt THEN Done(Ok)
                                        ELSE UNCHANGED <<pc, result>>
  /\ Same(<<ip, stop, left, args, envs>>)

EndOfLines ==
  /\ pc = "parse" /\ op \in DOMAIN Keyed /\ pos = Len(input)
  /\ Done(IF Keyed[op].missing = "default" THEN Ok
          ELSE Err(Failure(Keyed[op].missing)))
  /\ Same(<<pos, ip, fields, matched, stop, left, args, envs>>)

----------------------------------------------------------------------------
Instr == Columns[op][ip + 1]

TakesColumn == /\ pc = "parse" /\ op \in DOMAIN Columns
               /\ ip < Len(Columns[op]) /\ Instr.do # "skip"
               /\ Same(<<matched, stop, left, envs>>)

SkipColumns == /\ pc = "parse" /\ op \in DOMAIN Columns
               /\ ip < Len(Columns[op]) /\ Instr.do = "skip"
               /\ pos' = pos + Instr.n /\ ip' = ip + 1
               /\ Same(<<pc, fields, matched, stop, left, args, envs, result>>)

(* Mutant: the name ends at the first parenthesis. *)
NameOfFirst(t) ==
  LET e == CHOOSE i \in DOMAIN t : /\ t[i] = ")"
                                   /\ \A j \in 1 .. i - 1 : t[j] # ")"
  IN SubSeq(t, 2, e - 1)

(* The name is what is between the first character and the last `)`. *)
NameOf(t) ==
  LET e == CHOOSE i \in DOMAIN t : /\ t[i] = ")"
                                   /\ \A j \in i + 1 .. Len(t) : t[j] # ")"
  IN SubSeq(t, 2, e - 1)

(* try_next, try_from_next and try_parse_next. *)
TakeColumn == /\ TakesColumn /\ pos < Len(input)
              /\ Instr.do = "text" \/ input[pos + 1] = "num"
              /\ pos' = pos + 1 /\ ip' = ip + 1
              /\ fields' = [fields EXCEPT ![Instr.f] = {pos + 1}]
              /\ args' = IF op = "stat" /\ Instr.f = "name"
                         THEN <<NameOf(text)>> ELSE args
              /\ UNCHANGED <<pc, result>>

MalformedColumn == /\ TakesColumn /\ pos < Len(input)
                   /\ Instr.do # "text" /\ input[pos + 1] = "bad"
                   /\ Done(Err(FromParse))
                   /\ UNCHANGED <<pos, ip, fields, args>>

(* The row ends.  Stat::from_str cuts the rest of its row two characters  *)
(* behind the name, and there is no such place if `)` is the last one.    *)
NoColumn == /\ TakesColumn /\ pos >= Len(input)
            /\ \/ Done(IF Instr.do = "opt" THEN Ok
                       ELSE Err(Failure(Instr.missing)))
               \/ op = "stat" /\ ip = 2 /\ Done(Panic)
            /\ UNCHANGED <<pos, ip, fields, args>>

EndOfRow == /\ pc = "parse" /\ op \in DOMAIN Columns /\ ip = Len(Columns[op])
            /\ Done(Ok)
            /\ Same(<<pos, ip, fields, matched, stop, left, args, envs>>)

----------------------------------------------------------------------------
(* Strings of a process, as the kernel lays them out. *)
Nul == "NUL"

NulAfter(ss) == LET cat[i \in 0 .. Len(ss)] ==
                      IF i = 0 THEN <<>> ELSE cat[i - 1] \o ss[i] \o <<Nul>>
                IN cat[Len(ss)]

UpTo(S) == UNION {[1 .. n -> S] : n \in 0 .. MaxArgs}

BeginCommand == Fresh /\ \E a \in UpTo(Words) :
                           Start("command", <<>>, NulAfter(a),
                                 [argv |-> a, env |-> <<>>])

(* A process that wrote its own title: no NUL ends the last argument. *)
BeginTitle == Fresh /\ \E a \in UpTo(Words), w \in Words \ {<<>>} :
                         Start("command", <<"title">>, NulAfter(a) \o w,
                               [argv |-> Append(a, w), env |-> <<>>])

BeginEnvironment == Fresh /\ \E e \in UpTo(Entries) :
                               Start("environment", <<>>, NulAfter(e),
                                     [argv |-> <<>>, env |-> e])

(* KERN_PROCARGS2: the path of the program, one or more NULs, then the     *)
(* arguments and the environment.                                          *)
BeginProcArgs == Fresh /\ \E a \in UpTo(Words), e \in UpTo(Entries) :
                          \E pad \in 1 .. 2 :
                            Start("proc_args", <<>>,
                                  <<"a">> \o [i \in 1 .. pad |-> Nul]
                                    \o NulAfter(a) \o NulAfter(e) \o <<Nul, Nul>>,
                                  [argv |-> a, env |-> e])

(* memchr in t from position i on: Len(t) + 1 stands for None. *)
Find(c, t, i) == LET hits == {j \in i .. Len(t) : t[j] = c}
                 IN IF hits = {} THEN Len(t) + 1
                    ELSE CHOOSE j \in hits : \A k \in hits : j <= k

(* Delimiter::from the last character of the line. *)
Delimiter(t) == IF t # <<>> /\ t[Len(t)] = " " THEN " " ELSE Nul

(* Command::to_os_string: NULs are replaced and the last one is dropped. *)
ToOsString(t) ==
  IF Delimiter(t) = " " THEN t
  ELSE [i \in 1 .. Len(t) - 1 |-> IF t[i] = Nul THEN " " ELSE t[i]]

OpenCommand == /\ pc = "open" /\ op = "command"
               /\ pc' = "arguments"
               /\ Same(<<pos, ip, fields, matched, stop, left, args, envs,
                         result>>)

(* Mutant: the delimiter is left in front of the next argument. *)
CommandNextKeepsDelimiter ==
  /\ pc = "arguments" /\ op = "command"
  /\ LET e == Find(Delimiter(text), text, pos + 1) IN
       IF pos >= Len(text) \/ e > Len(text)
       THEN Done(Ok) /\ UNCHANGED <<pos, args>>
       ELSE /\ args' = Append(args, SubSeq(text, pos + 1, e - 1))
            /\ pos' = IF e = pos + 1 THEN e ELSE e - 1
            /\ UNCHANGED <<pc, result>>
  /\ Same(<<ip, fields, matched, stop, left, envs>>)

CommandNext ==
  /\ pc = "arguments" /\ op = "command"
  /\ LET e == Find(Delimiter(text), text, pos + 1) IN
       IF pos >= Len(text) \/ e > Len(text)
       THEN Done(Ok) /\ UNCHANGED <<pos, args>>
       ELSE /\ args' = Append(args, SubSeq(text, pos + 1, e - 1))
            /\ pos' = e
            /\ UNCHANGED <<pc, result>>
  /\ Same(<<ip, fields, matched, stop, left, envs>>)

(* Environment::from_bytes *)
OpenEnvironment == /\ pc = "open" /\ op = "environment"
                   /\ pc' = "environment"
                   /\ Same(<<pos, ip, fields, matched, stop, left, args, envs,
                             result>>)

(* A key has at least one character, even if that is `=`. *)
SplitEntry(kv) ==
  LET d == Find("=", kv, 2) IN
    IF d > Len(kv) THEN <<>>
    ELSE << <<SubSeq(kv, 1, d - 1), SubSeq(kv, d + 1, Len(kv))>> >>

EnvironmentNext ==
  /\ pc = "environment"
  /\ LET e == Find(Nul, text, pos + 1) IN
       IF e > Len(text) \/ e = pos + 1
       THEN Done(Ok) /\ UNCHANGED <<pos, envs>>
       ELSE /\ envs' = envs \o SplitEntry(SubSeq(text, pos + 1, e - 1))
            /\ pos' = e
            /\ UNCHANGED <<pc, result>>
  /\ Same(<<ip, fields, matched, stop, left, args>>)

----------------------------------------------------------------------------
(* ProcArgs: the offsets are into the bytes behind argc. *)
Argc == Len(given.argv)

ExeEnd(t) == Find(Nul, t, 1)

ArgsStart(t) == CHOOSE i \in ExeEnd(t) .. Len(t) + 1 :
                  \/ i <= Len(t) /\ t[i] # Nul
                     /\ \A j \in ExeEnd(t) .. i - 1 : t[j] = Nul
                  \/ i = ExeEnd(t) /\ \A j \in i .. Len(t) : t[j] = Nul

(* The n-th NUL at or behind i; i itself if there are not so many. *)
NthNul(t, i, n) == LET hits == {j \in i .. Len(t) : t[j] = Nul} IN
                     IF Cardinality(hits) < n THEN i
                     ELSE CHOOSE j \in hits :
                            Cardinality({k \in hits : k <= j}) = n

(* Mutant: the path of the program is taken for an argument. *)
OpenProcArgsCountsExe ==
  /\ pc = "open" /\ op = "proc_args"
  /\ \/ Argc = 0 /\ Done(Panic) /\ UNCHANGED <<pos, stop, left>>
     \/ /\ pos' = ArgsStart(text) - 1
        /\ stop' = IF Argc = 0 THEN ArgsStart(text)
                   ELSE NthNul(text, ArgsStart(text), Argc)
        /\ left' = Argc + 1
        /\ pc' = "arguments" /\ UNCHANGED result
  /\ Same(<<ip, fields, matched, args, envs>>)

(* arguments_range.  `argc - 1` of a process without arguments panics in a *)
(* debug build and is a large number in a release build.                   *)
OpenProcArgs ==
  /\ pc = "open" /\ op = "proc_args"
  /\ \/ Argc = 0 /\ Done(Panic) /\ UNCHANGED <<pos, stop, left>>
     \/ /\ pos' = ArgsStart(text) - 1
        /\ stop' = IF Argc = 0 THEN ArgsStart(text)
                   ELSE NthNul(text, ArgsStart(text), Argc)
        /\ left' = Argc
        /\ pc' = "arguments" /\ UNCHANGED result
  /\ Same(<<ip, fields, matched, args, envs>>)

ProcArgsNext ==
  /\ pc = "arguments" /\ op = "proc_args" /\ left > 0
  /\ left' = left - 1
  /\ LET e == Find(Nul, text, pos + 1) IN
       IF e < stop
       THEN /\ args' = Append(args, SubSeq(text, pos + 1, e - 1))
            /\ pos' = e
       ELSE /\ args' = Append(args, SubSeq(text, pos + 1, stop - 1))
            /\ UNCHANGED pos
  /\ Same(<<pc, ip, fields, matched, stop, envs, result>>)

(* environment(): it begins behind the NUL of the last argument. *)
ProcArgsEnvironment == /\ pc = "arguments" /\ op = "proc_args" /\ left = 0
                       /\ pc' = "environment" /\ pos' = stop
                       /\ Same(<<ip, fields, matched, stop, left, args, envs,
                                 result>>)

ToCommand(t) == LET e == IF Argc = 0 THEN ArgsStart(t)
                         ELSE NthNul(t, ArgsStart(t), Argc)
                IN [i \in 1 .. e - ArgsStart(t) |->
                      IF t[ArgsStart(t) + i - 1] = Nul THEN " "
                      ELSE t[ArgsStart(t) + i - 1]]

----------------------------------------------------------------------------
Next == \/ BeginKeyed \/ BeginColumns \/ BeginCommand \/ BeginTitle
        \/ BeginEnvironment \/ BeginProcArgs
        \/ Open \/ NextLine \/ EndOfLines
        \/ SkipColumns \/ TakeColumn \/ MalformedColumn \/ NoColumn \/ EndOfRow
        \/ OpenCommand \/ CommandNext \/ OpenEnvironment \/ EnvironmentNext
        \/ OpenProcArgs \/ ProcArgsNext \/ ProcArgsEnvironment

Spec == Init /\ [][Next]_vars

----------------------------------------------------------------------------
TypeOK == /\ pc \in {"idle", "open", "parse", "arguments", "environment"}
          /\ op \in Ops \union {"none"}
          /\ pos \in Nat /\ ip \in Nat /\ matched \in Nat
          /\ stop \in Nat /\ left \in 0 .. MaxArgs
          /\ \A f \in DOMAIN fields : Cardinality(fields[f]) <= 1
          /\ result.kind \in {"none", "Ok", "Err", "Panic"}
          /\ result.error \in ErrorType

----------------------------------------------------------------------------
(* Where proc(5) says that the values are to be found. *)
KeyOf ==
  [vmstat |-> [sin |-> "pswpin", sout |-> "pswpout"],
   swap |-> [total |-> "SwapTotal", free |-> "SwapFree"],
   memory |-> [total |-> "MemTotal", free |-> "MemFree",
               available |-> "MemAvailable", buffers |-> "Buffers",
               cached |-> "Cached", active |-> "Active",
               inactive |-> "Inactive", shared |-> "Shmem"],
   cpu_stats |-> [ctx_switches |-> "ctxt", interrupts |-> "intr",
                  soft_interrupts |-> "softirq"],
   boot_time |-> [boot_time |-> "btime"],
   io |-> [chars_read |-> "rchar", chars_written |-> "wchar",
           read_syscalls |-> "syscr", write_syscalls |-> "syscw",
           bytes_read |-> "read_bytes", bytes_written |-> "write_bytes",
           cancelled_write_bytes |-> "cancelled_write_bytes"]]

ColumnOf ==
  [diskstats |-> [device_name |-> 3, read_count |-> 4, read_bytes |-> 6,
                  write_count |-> 8, write_bytes |-> 10, busy_time |-> 13],
   net |-> [interface |-> 1, bytes_recv |-> 2, packets_recv |-> 3,
            errors_recv |-> 4, drop_recv |-> 5, bytes_sent |-> 10,
            packets_sent |-> 11, errors_sent |-> 12, drop_sent |-> 13],
   mounts |-> [device |-> 1, mount_point |-> 2, file_system |-> 3,
               options |-> 4],
   statm |-> [vms |-> 1, rss |-> 2, shared |-> 3, text |-> 4, data |-> 6],
   cpu |-> [user |-> 2, nice |-> 3, system |-> 4, idle |-> 5, io_wait |-> 6,
            irq |-> 7, soft_irq |-> 8, steal |-> 9, guest |-> 10,
            guest_nice |-> 11],
   stat |-> [pid |-> 1, name |-> 2, status |-> 3, parent_pid |-> 4,
             user |-> 14, system |-> 15, create_time |-> 22],
   uptime |-> [uptime |-> 1]]

HasValue(k) == \E i \in DOMAIN input : input[i] = Line(k, "num")

(* A parser of keys that succeeds gives every accessor the value of its    *)
(* own key, and the default only if the file has no value for that key;    *)
(* swap, memory and boot time then lack nothing.  It fails only if a line  *)
(* is malformed or missing.                                                *)
KeyedIsExact ==
  op \in DOMAIN Keyed =>
    /\ result.kind = "Ok" =>
         \A a \in DOMAIN KeyOf[op] :
           /\ Get(a) = IF HasValue(KeyOf[op][a]) THEN {KeyOf[op][a]} ELSE {}
           /\ op \in {"swap", "memory", "boot_time"} => Get(a) # {}
    /\ result.kind \in {"Err", "Panic"} /\ RawOsError(result.error) = "none" =>
         \/ \E i \in DOMAIN input : input[i].val # "num"
         \/ \E a \in DOMAIN KeyOf[op] : ~HasValue(KeyOf[op][a])

(* A parser of columns that succeeds has read every value in the column    *)
(* that is documented, whatever else the row holds; only the times of old  *)
(* kernels may be missing.  It fails only for a row that is too short or   *)
(* malformed, panics only for a `stat` that ends with its name, and the    *)
(* name of a process survives its parentheses.                             *)
ColumnsAreExact ==
  op \in DOMAIN Columns =>
    /\ result.kind = "Ok" =>
         \A a \in DOMAIN ColumnOf[op] :
           \/ Get(a) = {ColumnOf[op][a]} /\ ColumnOf[op][a] <= Len(input)
           \/ op = "cpu" /\ Get(a) = {} /\ ColumnOf[op][a] > Len(input)
    /\ result.kind = "Ok" /\ op = "stat" => args = given.argv
    /\ result.kind \in {"Err", "Panic"} /\ RawOsError(result.error) = "none" =>
         \/ \E i \in DOMAIN input : input[i] = "bad"
         \/ Len(input) < Width(op)
    /\ result.kind = "Panic" => op = "stat" /\ Len(input) = 2

Joined(ss) == LET join[i \in 0 .. Len(ss)] ==
                    IF i = 0 THEN <<>> ELSE
                    IF i = 1 THEN ss[1] ELSE join[i - 1] \o <<" ">> \o ss[i]
              IN join[Len(ss)]

(* The arguments that come out are the ones the process was started with,  *)
(* one by one and in the command line with spaces.  Exceptions are a title *)
(* that no NUL ends, which loses its end, and on macOS a process without   *)
(* a first argument.                                                       *)
ArgumentsSurvive ==
  /\ op = "command" /\ result.kind = "Ok" /\ input = <<>> =>
       args = given.argv /\ ToOsString(text) = Joined(given.argv)
  /\ op = "command" /\ result.kind = "Ok" /\ input # <<>>
       /\ Delimiter(text) = Nul =>
       args = SubSeq(given.argv, 1, Len(given.argv) - 1)
  /\ op = "proc_args" /\ result.kind = "Ok" /\ given.argv # <<>>
       /\ given.argv[1] # <<>> =>
       args = given.argv /\ ToCommand(text) = Joined(given.argv)

(* What the environment is made of: the entries in front of the first that *)
(* is empty, as far as they have a `=` behind their first character.       *)
Whole == {i \in DOMAIN given.env :
            /\ \A j \in 1 .. i : given.env[j] # <<>>
            /\ \E j \in 2 .. Len(given.env[i]) : given.env[i][j] = "="}

(* Each entry of the environment comes out once and in its order, split at *)
(* a `=`: key, `=` and value are the entry.  On macOS it is found behind   *)
(* the arguments, as long as there is a first one.                         *)
EnvironmentSurvives ==
  (/\ \/ op = "environment"
      \/ op = "proc_args" /\ given.argv # <<>> /\ given.argv[1] # <<>>
   /\ result.kind = "Ok") =>
    /\ Len(envs) = Cardinality(Whole)
    /\ \A i \in Whole :
         LET n == Cardinality({j \in Whole : j <= i}) IN
           /\ envs[n][1] \o <<"=">> \o envs[n][2] = given.env[i]
           /\ \A j \in 2 .. Len(envs[n][1]) : envs[n][1][j] # "="
           /\ envs[n][1] # <<>>

(* A parse error never looks like an error of the system: callers tell a   *)
(* process that is gone by the kind of the error, and must not take a      *)
(* malformed file for one; an error of the system keeps its code whatever  *)
(* context is put around it.                                               *)
ParseErrorsAreNoOsErrors ==
  result.kind = "Err" =>
    /\ pos > 0 => RawOsError(result.error) = "none"
    /\ Kind(result.error) = "NotFound" => pos = 0 /\ ip = 0
    /\ RawOsError(result.error) # "none" =>
         Display(result.error)[Len(Display(result.error))] \in Codes

(* Values, by key or by column, and errors are the ones of the file. *)
ParsedIsExact == KeyedIsExact /\ ColumnsAreExact /\ ParseErrorsAreNoOsErrors

(* Arguments and environment survive the buffers that they come in. *)
StringsSurvive == ArgumentsSurvive /\ EnvironmentSurvives

=============================================================================
