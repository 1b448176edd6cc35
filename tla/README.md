# Formal models of heim

heim is a Rust library that reads system information (processes, sensors,
CPUs, memory, disks, network, users, virtualization) on Linux, macOS and
Windows through an async interface. This directory holds TLA+ models of its
core, the TLC configurations that check them on small instances, and theorems
proved with TLAPS. `PROJECT.json` lists components, runs, mutants, the map
from definitions to source lines, findings, hazards and theorems.

    tlc -workers 2 -config ProcessTwoTasks.cfg MCLinuxProcess   # one run
    tlapm LinuxProcessProofs.tla                                # one proof

## 1. Inventory

heim has little state of its own. What makes it hard is that every answer is
put together from several reads of a system that goes on changing, that what is
remembered (a pid, a creation time, a size, a root directory) may be stale when
it is used, and that what the system hands out has to be given back on every
path.

| component | state | operations | interaction | what is hard | what makes it correct |
|---|---|---|---|---|---|
| `heim-common` streams (`choose_chain`) | two sources, a flag | `poll_next`, `is_terminated` | wraps the streams of `heim-sensors` | Pending between items, polls after the end | exactly one of the streams, complete, in order |
| `heim-process` handles, Linux | `(pid, create_time)` | `get`, `is_running`, `suspend`, `resume`, `terminate`, `kill`, `set_niceness`, `wait` | procfs, `kill`, `waitpid`, boot time of `heim-host` | pid reuse between check and use, clock changes, two waiters | the right process is named, signalled and waited for |
| `heim-process` queries, Linux | none | `exe`, `cwd`, `command`, `environment`, `memory`, `io_counters`, `net_io_counters`, `status`, `name`, `parent` | procfs, `heim-net` | the process ends between two reads | what each error tells of the process, data are not mixed |
| `heim-process`, Windows | `(pid, create_time)`, open handles | the same actions and queries, `pids` | Win32 and NT calls, memory of another process | pid reuse, two clocks, retries, buffers of the enumerations | as on Linux |
| `heim-process`, macOS | `(pid, create_time)` | the same | sysctl, libproc, `pid_wait` shared with Linux | a time of day as identity, two system calls decide on one error | as on Linux |
| lists of macOS and Windows (all crates) | buffers, handles, ports, memory of the system | processes, mounts, drives, adapters, processors, volumes, sessions, media, users | sysctl, Win32, IOKit, WTS, utmp | the list changes between the question for its size and the copy; calls fail half way; streams are dropped | exact if nothing changes, known damage if something does, everything given back |
| parsers | none | command line, environment, rows and keyed lines | used by all of Linux | columns skipped by hand, missing keys, texts cut off | what is written is what is read |
| `heim-virt` | none | `detect`, `is_vm`, `is_container`, `as_str` | files, CPUID | many sources that may disagree | nothing missed, containers first |
| `heim-sensors` | none | `temperatures` | sysfs, `choose_chain`, `select` | devices come and go, errors are items | what stays is reported, thermal zones only if hwmon has nothing to say |
| `heim-host` | cursor of utmp (in libc) | `users`, `boot_time`, `uptime`, `platform` | libc, procfs, WTS | a cursor shared by all threads | every session once |
| `heim-runtime` | roots of procfs and sysfs | `set_procfs_root`, `procfs_root`, files, `spawn_blocking` | used by all | the first use decides | one root per call |
| `heim-cpu`, `heim-memory`, `heim-disk`, `heim-net` | none | counters, counts, frequencies, partitions, interfaces | procfs, sysfs, Win32 | several files make one answer, missing files | fallbacks, sums and means are right |
| `heim-derive`, `heim` | none | test macros, re-exports | | | |

`PROJECT.json` lists the main hazards of this code at their lines, with the
properties that are about them, and for those without a property the reason.
Section 7 adds lesser observations.

## 2. Plan and state of the work

1. `ChooseChain` implements `EitherStream`; proofs in `FileParsersProofs`. Done.
2. `ProcTable` (environment), `LinuxProcess`; `ProcTableProofs`,
   `LinuxProcessProofs`. Done.
3. `ProcessQuery` over `ProcTable`; `ProcessQueryProofs`. Done.
4. `VirtDetect`; proofs in `LinuxFilesProofs`. Done.
5. `WindowsProcess`, `WindowsQuery` over `ProcTable`; `WindowsProcessProofs`. Done.
6. `MacProcess` over `ProcTable`; `MacProcessProofs`. Done.
7. `SizedQuery` (buffers) and `OsHandles` over it (handles, memory, cursors);
   `OsHandlesProofs`. Done.
8. `LinuxFiles`: sensors, CPUs, disks, mounts, interfaces and the root of procfs
   while devices come and go; `LinuxFilesProofs`. Done.
9. `Errors` and `FileParsers`; `FileParsersProofs`. Done.

What could follow: `select` as a component of its own below the sensors; two
threads that call `users` at once to their end, not only one that disturbs the
other.

## 3. Modules and the code

```
EitherStream <- ChooseChain                        (refinement)
ProcTable <- LinuxProcess, ProcessQuery, MacProcess, WindowsProcess <- WindowsQuery
SizedQuery <- OsHandles
Errors <- FileParsers
LinuxFiles      VirtDetect
```

An arrow is `EXTENDS` unless said otherwise. The `MC` modules hold nothing but
the values of the constants.

**EitherStream / ChooseChain** (`heim-common/src/utils/stream`). A source is a
sequence of items of any length that may answer Pending before each of them.
The variables are the fields of the struct (whether the first source is there,
whether it has yielded) plus what the caller has got; one action per way
`poll_next` can go. The caller may poll after the end and may ask
`is_terminated` at any time. `EitherStream` says only: one stream is chosen,
the second one just if the first is empty, and its items come out in order;
it is an `INSTANCE` with a refinement mapping in `ChooseChain`.

**ProcTable** (external). Incarnations of processes: unborn, running, stopped,
zombie, gone; a pid may have several incarnations one after the other. `Spawn`
assumes that a pid is not handed out twice within one clock tick. `ClockStep`
moves the boot time that `/proc/stat` tells.

**LinuxProcess** (`sys/linux/process/mod.rs`, `procfs/stat.rs`,
`sys/unix/process.rs`, `sys/common.rs`). Tasks with one handle each. A call is a
small program: `open` and `read` of the stat file, `btime`, then what the
method does with the result; `kill` for the signals; `waitpid` and `poll` for
`wait`. Between two labels anything may happen, an I/O error or the drop of the
future too. The open file is bound to the incarnation it was opened for, as in
procfs. `who`, `was` and `hit` are history: for whom the handle was made, how
that process was when the call began, whom the call reached.

**ProcessQuery** (`sys/linux/process/mod.rs`, `procfs/*.rs`, `process/mod.rs`).
Which file each method reads, in which order, and which `ProcessError` it makes
of a failure. The contents of a file are abstracted to the incarnation they
come from, names to whether they fill the `comm` field and whose begin alike. A
read may fail for any other reason too (`Outcomes`): `cwd` takes every failure of
`readlink` but `PermissionDenied` into one arm, and `link` remembers which it was.

**WindowsProcess, WindowsQuery** (`sys/windows`). `pid_exists` with its three
system calls, `create_time::get` with the search it falls back to, the actions;
then the questions: an opened process, the snapshot of all processes, the list
of the kernel, and `cwd`, which finds the PEB of a 32-bit or 64-bit process and
copies its memory with up to five attempts. A zombie of `ProcTable` is here a
process that has exited while somebody has it open, and an open handle keeps it
and its pid. `Terminate` only initiates the end of a process (`dying`), which
comes some time later; for `Shielded` ones, living or not, the refusal counts as
success, as in `terminate`. `Lingering` processes stay in the lists after they have
exited, and `StillActive` ones have exited with the code that means "running".
The buffer of `pids()` has the constant `Capacity` (1024 in the
code); the loop at its limit and the iterator without end are in the model
(`ExistsEnum`, `Spin`). A creation time comes from one of two clocks; `Epoch` is
the distance between them. The processes 0 and 4 are `System`: they get the time
of the call as creation time because `heim_host::boot_time` on Windows answers
with the current time, so `VerdictTells` leaves the verdict false out for them.

**MacProcess** (`sys/macos`). `stamp` is `p_starttime`, a time of day that is
taken at the fork. A question is one system call, and after `ESRCH` or `EINVAL` a
second look-up that decides which error is reported (`catch_zombie`,
`pid_exists`). `Foreign` processes refuse, `KERN_PROCARGS2` with the same `EINVAL`
that a zombie gets. The kernel task has the pid 0, which `kill` and `getpriority`
take for the caller: `KillZero` signals its process group (`Group`), and `Priority`
answers for it.

**SizedQuery** (macOS and Windows bindings of `heim-process`, `heim-disk`,
`heim-net`, `heim-cpu`). Ten calls that fill a buffer: ask for the size, reserve,
fill, set the length, walk. `load` is searched for one process (`target`), and its
iterator has no end (`Spin`); `perf_info` is a query for one record whose vector
gets the length of all processors (`FillPerfInfo`). An error after an NTSTATUS is
`Stale`: it is made of the thread's error code, which the call has not set. A vector is its capacity, its length and
what the system has written; `reserve` on an empty vector compares only with the
additional entries, as `Vec` does. `debug` says whether `debug_assert!` is
compiled in. The results `Panic`, `Garbage` and `Crash` are a panic, entries that
were never written, and a null pointer that is followed.

**OsHandles** (`heim-disk`, `heim-host`, `heim-cpu`, IOKit of `heim-common`). The
calls that are handed something: `held` is what has to be given back, `lost` what
nobody will give back any more, `err` which system call set the error code last.
Each system call may fail; a stream may be dropped between two items, and its
`Drop` is an action. The asserts in the `Drop`s are `DropPanics`, the `unreachable!`
of an address family `UnknownFamily`. Another thread may move the cursor of utmp.

**LinuxFiles** (`heim-sensors`, `heim-cpu`, `heim-disk`, `heim-net`,
`heim-runtime/src/linux.rs`). A directory or a table is listed, then the files of
each entry are read, while slots are emptied and refilled. A value is known by
the device it is from. The two hwmon streams advance in any order, as `select`
lets them; the sensors of one hwmon are slots of one directory (`Beside`), which is
listed, and read sensor by sensor, or goes as a whole. The thermal zones are asked
only if hwmon yields neither an item nor an error. A row that cannot be parsed is
an error among the items, a table that cannot be opened one of the call
(`CallFails`). The root of procfs is a cell that is written once. `FilesAssumption` says of the system
that a slot belongs to one kind of directory, that the numbers a CPU shows are
told apart by its `id` and that it runs between the limits it shows; `"read"`,
which marks a table that has been read, is no file system.

**Errors, FileParsers** (`heim-common/src/errors.rs`, `utils/iter.rs`; the parsers
of `heim-process`, `heim-memory`, `heim-cpu`, `heim-disk`, `heim-net`, `heim-host`).
A parser of keys is a table (which key goes to which field, what an odd line
does); a parser of columns is a little program of skips and takes; the strings
are sequences of characters with NULs. A value is known by the key or column it
stands at, so a property can say whether an accessor returns the right one. The
reference is the layout that proc(5) gives (`KeyOf`, `ColumnOf`).

**VirtDetect** (`heim-virt/src`). The chain of probes; a file is abstracted to
the keyword the code looks for, and a machine (`Machines`) to what each of its
sources shows. Bound in `MCVirtDetect`: at most two sources show anything, for
every pair of sources, keywords and architectures.

The operators that are commented as mutants or plausible bugs are not part of
any specification; each property of a passing run is violated when one of them
takes the place of the definition it stands next to.

## 4. Runs

| run | instance | shows |
|---|---|---|
| `choose_chain` | all streams of up to three items, every pattern of Pending | `Exclusive`, `PollingIsSafe`, `CallerGetsAll`, implements `EitherStream` |
| `process_two_tasks` | two tasks (symmetric), two incarnations of one pid, the first another user's, the second a child; interrupts, three signals | `HandlesIdentify`: equality of handles is identity; `WaitOkMeansGone`: no early answer, whoever collects the child; `WrongTargetOnlyByLateReuse`, `ReuseIsRefused`, `VerdictIsTrue` |
| `process_wait` | no pid reuse, no interrupts, the clock is set | `WaitReturns` under fairness |
| `process_query` | two pids with two incarnations each, parents, two foreign processes, any read may fail | `WhatErrorsTell`, `MixedOnlyByReuse` |
| `process_windows` | a reused pid, a guarded and two system processes, a 32-bit one that may not be ended, one that lingers, the exit code STILL_ACTIVE, room for four pids | `WhatCallsTell`, `ActReachesHandle`, `AnswerIsOwn`, `CwdReturns` |
| `process_windows_reuse` | the same | **violated** `ActIsChecked`: no check before `kill` |
| `process_mac` | a reused pid, another user's process, the kernel task, a caller's group, a clock that is set back | `WhereSignalsGo`, `WhatErrorsTell` |
| `os_calls` | seventeen calls, lists of up to four entries that change up to twice, one failing system call | `UndisturbedCallIsExact`, `WhatChangesDo`, `EverythingIsGivenBack`, `WhichErrorsAreOwn`, `EveryCallReturns` |
| `process_list_fits` | the list of processes of macOS grows | **violated** `ProcessListFits`: the retry is given more room than there is |
| `linux_files` | a hwmon with two sensors and one with one, a thermal zone, three CPUs, two slots of each other kind, devices with all, some or odd files; one of them comes or goes | `ItemsAreExact`, `CountsAreExact`, `OneRoot`, `CallReturns` |
| `file_parsers` | every subset of the keys, every length of a row, one malformed place; up to two arguments and two variables | `ParsedIsExact`, `StringsSurvive` |
| `virt_detect` | every pair of sources, four architectures | `NothingMissed`, `VerdictIsRight` |

Every passing run but `process_wait` checks the type invariant of its module.
What a violated property states, and where the repository says so, is in the
findings of `PROJECT.json`.

Several properties say what the code does where that is less than a caller may
expect. They list the cases one by one, so that a further case would violate them:

- `WhatErrorsTell` (Linux): only `NoSuchProcess` means what `errors.rs` says.
  `ZombieProcess` from `exe` means that the process is gone; from `cwd` also that
  the link of a living process could not be read for an unusual reason.
  `AccessDenied` may come from the next owner of the pid, and from `cwd` for a
  process that is gone. The empty path of `exe` is also the answer for a zombie.
- `WhatErrorsTell` (macOS): `command` and `environment` say `ZombieProcess` of the
  living processes of other users; `AccessDenied` of a process that is gone means
  that its pid has a new owner.
- `WhatCallsTell`: `is_running` is true of the right process, but of one that had
  exited if its exit code is STILL_ACTIVE or if it lingers in the list of pids.
- `ActReachesHandle`: a kill that says Ok has initiated the end of a process, found
  it ended, or was refused.
- `WhereSignalsGo`: a signal to the kernel task goes to the caller's group.
- `WhatChangesDo`: two calls let the system write behind their buffer when the list
  grows between two tries (`processes`, which contradicts its comment and is a
  finding, and `LogicalProcessors::get`); `mounts` and `drives` panic in a debug
  build, `drives` and `cpu_info` read unwritten memory in a release build.
- `UndisturbedCallIsExact`: also on a stable list, a first `getfsstat64` that fails
  is a panic and an adapter without an address a null pointer.
- `WhichErrorsAreOwn`: calls that return an NTSTATUS or a `kern_return_t` report a
  stale code, always; the others never.
- `EveryCallReturns`: a search of `NtProcesses` for a process that is not in the list
  goes round for ever.
- `ItemsAreExact`: a hwmon that comes or goes, a sensor that cannot be read and a
  missing class directory hide the thermal zones.
- `EverythingIsGivenBack`: the information of a session is never freed.
- `VerdictIsRight`: `as_str` panics for Parallels.
- `ParsedIsExact`: a stat row that ends with the name is a panic.
- `StringsSurvive` leaves out a process without a first argument on macOS.

Two limits are part of an instance instead, and TLC gives the counterexample
when they are lifted:

- with `BootTimes = {1, 2}` in `ProcessTwoTasks.cfg` somebody sets the clock, and
  `HandlesIdentify` and `VerdictIsTrue` fail: two handles of one process differ,
  and a running process is taken for gone, because its creation time is computed
  from the boot time of the moment;
- with the constants of `ProcessTwoTasks.cfg` for `Inc`, `Pid` and `PidOf` in
  `ProcessWait.cfg` a pid is reused, and `WaitReturns` fails: `wait` goes on for as
  long as the next owner lives.

*Bounds.* Two incarnations of a pid are enough for a reuse, one tick for two
start times (`MaxTick`), two boot times for a clock change; a second task is
needed only where tasks meet (a common child, equality of handles). The signals
act on one pid at a time, so further pids add only copies of the same behaviour;
one foreign process reaches each `AccessDenied`. In `choose_chain` three items
distinguish first, middle and last. `MaxChanges` in `OsCalls.cfg` lets a list grow
and shrink, or grow twice so that a retry fails as well; four entries are one of
each kind (kept, skipped, bare) and one that comes later. `MaxFailures` is one
because each call is to survive the failure of any one of its system calls; the
theorems have any number. In `LinuxFiles` one change
suffices to empty or refill a slot between any two reads; two sensors of one hwmon
go together, and the second hwmon stays. This is the largest run (875 thousand
states, about three minutes). `MaxArgs` is two: first
and last argument differ, and both may be empty.

*Fairness.* `FairSpec` of `LinuxProcess` has weak fairness for each task's next
step: the executor polls a woken task, and the 40 ms interval of `pid_wait` keeps
ticking. Nothing is assumed about calls being made, about errors or drops, or
about processes ending. `ReapedSpec` adds that a parent other than this program
collects its children; without it the polling loop waits for as long as a
zombie exists, because `pid_exists` is true of it. `FairSpec` of `ChooseChain` lets
the caller go on polling. `QuerySpec`, `AllSpec` and `Spec` of `LinuxFiles` have weak
fairness of the steps of the code only: these calls run in one thread and wait
for nobody. That the system stops changing is due to the bounds; the loops that
try again with a larger buffer would not end otherwise, nor would the stream of
volumes if its search never began. `Endless` in `EveryCallReturns` is the one loop
that no fairness ends.

## 5. Proofs

All theorems hold for every value of the constants that satisfies the named
assumptions of the modules: any number of processes, pids, tasks, entries,
changes and failures. Each module has an inductive invariant that was checked
with TLC before it was proved; the theorems about single properties follow from
it.

*ProcTableProofs* holds what the four modules about processes share: types, one
owner per pid, and that the life of a process goes forward only.

*LinuxProcessProofs*.

- `TypeCorrectness`: `Spec => []TypeOK`.
- `WaitIsSound`: `Spec => []WaitOkMeansGone`, with clock changes, interrupts and
  any number of waiters. It needs `PidsAreUnique` and, for a call that waits,
  that its handle's process is alive or its pid belongs to somebody else: when
  the pid is free, or another incarnation was collected, the handle's is gone.
- `SignalsReachTheirProcess`, `SignalsAreChecked`, `VerdictsAreTrue`,
  `UniqueIdIsIdentity`: if `StableClock` (all boot times are equal),
  `WrongTargetOnlyByLateReuse`, `ReuseIsRefused`, `VerdictIsTrue` and
  `HandlesIdentify` always hold. The strengthening `ClockInv` says that a
  remembered or half-read start time is that of the incarnation it was read
  from. Since two incarnations of a pid never start in the same tick, equal
  `(pid, create_time)` means equal incarnations. `StableClock` cannot be
  dropped, see the first counterexample of section 4.

*ProcessQueryProofs*: `ErrorsTellThisMuch`, `AnswersAreOfOneProcess`. The invariant
says which method may be suspended where, that what was read first had the pid
of the handle, and what the failure of a link says of the process, which stays true
until the question for the pid decides on the error (`MissingLink`).

*WindowsProcessProofs*: `CallsTellThisMuch`, `ActsReachTheirProcess`,
`AnswersAreOwn`. `ExcusedShape`: behind `pid_exists`, `is_running` goes on with a
process that had exited only if it is one that `pid_exists` takes for running;
`OpenShape`: an open process cannot be gone, so its pid is not
given away; `TimeShape`: the creation time of a handle is what every later
question would yield for its process, with the clock that the process always
gets; `SystemIsUp`: the pids 0 and 4 are never reused. The assumption
`MaxTick < Epoch` keeps the two clocks apart, as 1601 and 1970 are.

*MacProcessProofs*: `SignalsGoThere`, `ErrorsTellThisMuch`, for any changes of the
clock. `FirstAnswer` is the key: the second look-up is made only when the process of
the handle has terminated or, by `command` and `environment`, is another user's.

*OsHandlesProofs* (both `OsHandles` and `SizedQuery`): `ChangesDoThisMuch`,
`NothingIsKept`, `OwnAndStaleErrors`, `UndisturbedCallsAreExact`. `HeldShape` says
what may be held at which place of which call, so that nothing is held at the
end; `SizeShape` and `WalkShape` relate capacity, size and contents of the buffer;
`StableShape` says that they agree if the list has not changed, `CodeShape` which
call set the error code. For
`UndisturbedCallIsExact` the entries that the cursor has passed and that were not
yielded are counted: never more than the system calls that have failed
(`ExactShape`), which uses the cardinality of finite sets.

*LinuxFilesProofs* (`LinuxFiles`, any number of slots, devices and changes):
`FilesHaveOneRoot`, `ItemsStayExact`, `CountsStayExact`, and the action properties
`RootIsWrittenOnce` and `AnswerIsFinal`. The invariant follows one slot at a time,
as long as nobody has touched it: while a stream has it on its list nothing was
yielded for it; while its files are read, what was read so far is what its
device has; afterwards it has been handled as `ItemsAreExact` wants
(`SlotsAreHandled`). `ZonesOK` is the choice between hwmon and the thermal zones:
once the zones are asked, no slot of hwmon has anything to say; `SaidOK` that
whatever hwmon has said comes from a sensor or from a hwmon that came or went. `MountsOK` joins
the two files that `partitions_physical` reads. `AnswerOK` keeps a returned number
equal to the sum of the items that were yielded; that a mean is between the
means of the limits is then a comparison of sums over finite sets. The proof of
`AnswerIsFinal` failed at first: the end of a stream was possible after the call
had returned, and the model was corrected.

The same module proves `VirtDetect` (machines whose sources show anything in any
combination): `NoEvidenceIsMissed`, `VerdictsAreRight`. All probes but the last one
made have failed, and the verdict is what that one says; the first five probes
name only containers.

*FileParsersProofs* (`FileParsers`, words of any length, any number of arguments):
`TypeCorrectness`, `ParsedStaysExact`, `StringsStayWhole`. `KeyedInv` says that
exactly the fields of the keys in the lines read so far are filled and that
`matched` counts these keys, so that the parser that stops at `stopAt` has found all of them; `ColumnsInv` that
exactly the fields of the columns in front of `pos` are filled, and that `pos` is
where the program of columns has come to (`BeginOf`). An error of the system comes
only before anything was read (`ResultOK`). Each table and each program is checked
once against proc(5) (`KeyedFacts`, `ProgramsOK`), the steps of the loop are common
to all.

The strings need an invariant of their own (`StrInv`), relative to the other one:
the text that a parser reads has been laid out by the kernel, so there are
positions at which each argument and each entry ends (`Laid`). Words are made of
`a`, space, `=` and `)`; what matters is that none of these is NUL. `NulAfter` is
shown to lay strings out in this way (`LaidIn`), and where they are laid out, `Find`
gives back the word behind a position (`PartIsFound`), the n-th NUL ends the n-th
argument (`NthNulEnds`) and the text with its NULs replaced is the arguments joined
(`JoinedIsSpaced`). With these lemmas an iterator that stands at the end of one
string yields the next one; `EnvDone(k)` says which pairs have come out of the
first k entries, because entries without a `=` yield nothing.

The same module proves `ChooseChain` (streams of any length). `ChainInvariance`
ties the flag and the cursor of each source to what the caller has;
`SecondIsLeftAlone`, `Safety` and `Refinement` (`ChainSpec => ImplementsEitherStream`)
follow. A step of the code maps to one step of `EitherStream` or to none.

*Recursive functions.* `Width`, `NulAfter` and `Joined` are recursive functions on
an interval. The library's induction theorems cannot be used, so a fact about
such a function is proved by contradiction with the least index that would refute
it (`LeastNat`, which rests on the well-foundedness of the naturals).

Assumed of the environment: what `ProcTable` says, above all that a pid is not
reused within the tick it was handed out in.

*Progress.* Liveness needs fairness and ENABLED, which the provers cannot treat.
What can be proved is the part of the argument that is about the code: that the
steps of a call cannot go on for ever. Each of these theorems is an invariant (the
measure has its type) and an action property (no step fails to lower it):

- `CallsGetOn` (*OsHandlesProofs*), behind `EveryCallReturns`: a step of a call
  uses up a change or a failure, or leaves fewer entries to come to (`Left`), or
  brings the call nearer to the next one (`Rank`, at most 7). So the loops that try
  again with a larger buffer and the search for volumes that begins again after an
  error go round only as often as the system disturbs them. Every call is busy, idle
  or `Endless`, and an endless search stays one.
- `StreamsGoOn` (*LinuxFilesProofs*), behind `CallReturns`: while a call runs no
  step takes any stream back, and each step takes one on, fills a cell that is
  filled once, counts a change or answers. A stream goes on (`Further`) to a later
  part of its work, past a slot, to the next part of the slot or past a file;
  `FinitelyAhead` says that slots and files ahead are finite, which for the trip
  points of a zone is `TripsAssumption` (they are files of a directory). With
  `AnswerIsFinal`, a call takes finitely many steps.
- `ReadsAreBounded` (*WindowsProcessProofs*), behind `CwdReturns`: of at most fifteen
  reads of foreign memory each one made leaves fewer, or the call returns.
- `ParsersGoOn` (*FileParsersProofs*): for files of any length each step of a parser
  reaches a later stage or leaves less of the text ahead, also if `argc` counts more
  arguments than the buffer of macOS has.

*Only model-checked:* the liveness properties themselves (`WaitReturns`,
`CallerGetsAll`, `CwdReturns`, `EveryCallReturns`, `CallReturns`): that a step is
possible as long as the call has not returned, and that it is taken. `WaitReturns`
and `CallerGetsAll` have no measure of this kind, because `wait` polls and a source
may be `Pending` as often as it likes; how often is up to others.

## 6. Not modelled

Formatting, units, floating point numbers (with them `cpu_usage` of a process and
the usage of CPUs), conversions of numbers and addresses, the accessors of the
result types that return a field, bindings that are one system call each
(memory and swap of macOS and Windows, platform, disk usage), the lists that a
library walks (`getifaddrs`, the directory of `/proc`), structures and constants
of the system, the executors, the macros of `heim-derive`, the re-exports of
`heim`, examples and benchmarks. `wait` and `environment` on Windows are
`unimplemented!()` in the code, the sensors of macOS and Windows are empty.
On Windows the threads of a process are not modelled, so `status` says nothing
of suspended processes.

## 7. Further observations

Met while modelling; no statement of the repository is precise enough to be
held against them, or they are about data that the models leave out. Paths are
below `src/`.

| where | what |
|---|---|
| `heim-common/src/utils/stream/choose_chain.rs:39` | after a first stream that had items `is_terminated` stays false |
| `heim-process/src/sys/linux/process/mod.rs:134` | `set_niceness` acts on whoever has the pid, without the check of the signals |
| `heim-process/src/sys/unix/process.rs:59` | `wait` may reap a child that reused the pid and take its exit status |
| `heim-process/src/sys/linux/process/mod.rs:138` | a zombie counts as running |
| `heim-virt/src/sys/linux/containers.rs:20` | an unknown container name ends the search with `Unknown` |
| `heim-host/src/sys/windows/boot_time.rs:16` | the boot time is the time of the call, so the system processes have no stable creation time |
| `heim-process/src/sys/linux/process/mod.rs:81` | `exe` of a process that is gone is `ZombieProcess` |
| `heim-process/src/sys/linux/process/mod.rs:97` | every failure of `readlink` but `PermissionDenied` becomes `ZombieProcess` or `NoSuchProcess` |
| `heim-process/src/sys/unix/process.rs:40` | `kill(0, signal)` for a handle of the kernel task of macOS |
| `heim-process/src/sys/macos/process/command.rs:45` | `EINVAL` of another user's living process becomes `ZombieProcess` |
| `heim-process/src/sys/windows/bindings/processes.rs:77` | the iterator never returns `None` (`Endless`) |
| `heim-process/src/sys/windows/bindings/processes.rs:41` | `last_os_error` after an NTSTATUS (`Stale`) |
| `heim-disk/src/sys/unix/bindings/mod.rs:20` | the first `getfsstat64` is not checked: -1 as a capacity panics |
| `heim-cpu/src/sys/windows/wrappers/count.rs:40` | `reserve` of the difference on an empty vector: a second try is told of more room than there is |
| `heim-sensors/src/sys/linux/temperatures.rs:216` | an error item of hwmon keeps the thermal zones out |
| `heim-process/src/sys/linux/process/procfs/stat.rs:63` | a row that ends with `)` makes the slice panic |
| `heim-process/src/sys/windows/bindings/snapshot.rs:61` | errors of `Process32NextW` are skipped; if they persist, `name` and `parent_pid` never return |
| `heim-process/src/sys/windows/process/suspend.rs:15` | a process without threads counts as suspended |
| `heim-process/src/sys/macos/process/io_counters.rs:38` | bytes written are filled from the bytes read |
| `heim-net/src/sys/windows/nic.rs:215` | an adapter without an address: a null pointer is followed (`Crash` in `SizedQuery`) |
| `heim-cpu/src/sys/windows/bindings/winternl.rs:169` | the vector gets the length asked for, not the one written (`Garbage`) |
| `heim-common/src/sys/macos/iokit/io_object.rs:31` | `kern_return_t` is dropped and a stale `errno` reported |
| `heim-cpu/src/sys/linux/freq.rs:93` | the sums of the limits are divided by the number of all CPUs, those without limits too |
| `heim-cpu/src/sys/linux/count/physical.rs:11` | `cpu[0-9]` leaves out the eleventh CPU; packages are not told apart |
| `heim-cpu/src/sys/linux/count/physical.rs:44` | the fallback asks for a third part of lines that have two |
| `heim-disk/src/sys/linux/counters.rs:102` | milliseconds are taken for seconds |
| `heim-disk/src/sys/linux/partitions.rs:140` | a file system that is loaded and mounted between the two reads is left out |
| `heim-memory/src/sys/linux/swap.rs:144` | two files of two moments make one answer |
| `heim-memory/src/os/linux.rs:41` | a difference of unsigned sizes can underflow |
