---------------------------- MODULE ProcessQuery ----------------------------
(***************************************************************************)
(* The questions a caller may ask of a heim_process::Process on Linux:     *)
(* exe, cwd, command, environment, memory, io_counters, net_io_counters,   *)
(* status, name and parent.  Each reads one or two files below /proc/<pid> *)
(* and turns a failure into a ProcessError, while the process may          *)
(* terminate, be reaped and have its pid reused between any two reads.     *)
(*                                                                         *)
(* What the files contain is left out but for whose they are: an answer is *)
(* the incarnation it was read from.                                       *)
(***************************************************************************)
EXTENDS ProcTable

CONSTANTS NoInc,        \* stands for "no incarnation"
          ParentOf,     \* the parent an incarnation was forked by, or NoInc
          LongNames,    \* incarnations whose name fills the comm field
          SameComm      \* pairs whose executables begin with the same comm

ASSUME QueryAssumption == /\ NoInc \notin Inc
                          /\ ParentOf \in [Inc -> Inc \union {NoInc}]
                          /\ LongNames \subseteq Inc
                          /\ SameComm \subseteq Inc \X Inc

VARIABLES who,          \* the incarnation the handle was made for
          pc,           \* where the query is suspended
          op,           \* the method called last
          result,       \* what it returned
          about,        \* the incarnation an error was meant to describe
          link,         \* how the read of the link failed, or "none"
          seen,         \* whose file the first read of the query found
          answer        \* whose data the query returned, or NoInc

query == <<who, pc, op, result, about, link, seen, answer>>
vars == <<table, query>>

Simple == {"command", "environment", "memory", "io_counters", "status"}
Ops == Simple \union {"none", "exe", "cwd", "net_io_counters", "name", "parent"}
PCs == {"idle", "file", "link", "exists", "netdev", "netstat",
        "comm", "cmdline", "ppid", "parent"}
Results == {"none", "Ok", "Empty", "NoSuchProcess", "ZombieProcess",
            "AccessDenied", "Load"}
Failures == {"NotFound", "PermissionDenied", "Other"}

TypeOK == /\ TableTypeOK
          /\ who \in Inc
          /\ pc \in PCs /\ op \in Ops /\ result \in Results
          /\ about \in Inc \union {NoInc}
          /\ link \in Failures \union {"none"}
          /\ seen \in Inc \union {NoInc}
          /\ answer \in Inc \union {NoInc}

Init == /\ TableInit
        /\ who \in {i \in Inc : state[i] = "running"}
        /\ pc = "idle" /\ op = "none" /\ result = "none"
        /\ about = NoInc /\ link = "none" /\ seen = NoInc /\ answer = NoInc

----------------------------------------------------------------------------
(* What reading a file below /proc/<pid> may give: the incarnation read,  *)
(* or the kind of the error.  Private files are refused for the processes *)
(* of other users; a zombie has lost its links.  Any read may fail for     *)
(* another reason too: no memory, a path that is too long, or a process    *)
(* that is reaped after its file was opened.                               *)
Private == {"environ", "io", "exe", "cwd"}
Links == {"exe", "cwd"}

Gives(i, file) ==
  IF i \in Foreign /\ file \in Private THEN "PermissionDenied"
  ELSE IF state[i] = "zombie" /\ file \in Links THEN "NotFound"
  ELSE "content"

Outcomes(file) ==
  LET owner == {i \in Inc : Owns(i, PidOf[who])} IN
  {Gives(i, file) : i \in owner}
  \union (IF owner = {} THEN {"NotFound"} ELSE {})
  \union {"Other"}

Reader == CHOOSE i \in Inc : Owns(i, PidOf[who])

Call(m, l) == /\ pc = "idle"
              /\ pc' = l
              /\ op' = m
              /\ result' = "none"
              /\ about' = who /\ link' = "none"
              /\ seen' = NoInc /\ answer' = NoInc
              /\ UNCHANGED <<table, who>>

Goto(l) == /\ pc' = l
           /\ UNCHANGED <<table, who, op, result, link>>

Return(r) == /\ pc' = "idle"
             /\ result' = r
             /\ UNCHANGED <<table, who, op, link>>

Fail(r) == Return(r) /\ UNCHANGED <<about, seen, answer>>

Answer(i) == Return("Ok") /\ answer' = i /\ UNCHANGED <<about, seen>>

----------------------------------------------------------------------------
(* The queries that read one file. *)
FileOf == [command |-> "cmdline", environment |-> "environ",
           memory |-> "statm", io_counters |-> "io", status |-> "stat"]

(* Mutant: the error of the read is passed on as it is. *)
ClassifyRaw(m, outcome) == outcome

(* Mutant: a process whose file cannot be read is taken to be gone. *)
ClassifyGone(m, outcome) == "NoSuchProcess"

(* Which error each of them makes of a failed read. *)
CommandError(o) == IF o = "NotFound" THEN "NoSuchProcess" ELSE "Load"
EnvironmentError(o) == CASE o = "NotFound"         -> "NoSuchProcess"
                         [] o = "PermissionDenied" -> "AccessDenied"
                         [] OTHER                  -> "Load"
MemoryError(o) == "Load"
IoError(o) == IF o = "PermissionDenied" THEN "AccessDenied" ELSE "Load"
StatError(o) == IF o = "NotFound" THEN "NoSuchProcess" ELSE "Load"

Classify(m, outcome) == CASE m = "command"     -> CommandError(outcome)
                          [] m = "environment" -> EnvironmentError(outcome)
                          [] m = "memory"      -> MemoryError(outcome)
                          [] m = "io_counters" -> IoError(outcome)
                          [] m = "status"      -> StatError(outcome)

AskSimple == \E m \in Simple : Call(m, "file")

ReadFile == /\ pc = "file"
            /\ \E o \in Outcomes(FileOf[op]) :
                 \/ o = "content" /\ Answer(Reader)
                 \/ o # "content" /\ Fail(Classify(op, o))

(* A link that could not be read: does the process exist at all? *)
AskExists(o) == /\ pc' = "exists"
                /\ link' = o
                /\ UNCHANGED <<table, who, op, result, about, seen, answer>>

(* Process::exe *)
exe == Call("exe", "link")

ExeLink == /\ pc = "link" /\ op = "exe"
           /\ \E o \in Outcomes("exe") :
                \/ o = "content" /\ Answer(Reader)
                \/ o # "content" /\ AskExists(o)

ExeExists == /\ pc = "exists" /\ op = "exe"
             /\ Fail(IF Exists(PidOf[who]) THEN "Empty" ELSE "ZombieProcess")

(* Process::cwd *)
cwd == Call("cwd", "link")

CwdLink == /\ pc = "link" /\ op = "cwd"
           /\ \E o \in Outcomes("cwd") :
                \/ o = "content" /\ Answer(Reader)
                \/ o = "PermissionDenied" /\ Fail("AccessDenied")
                \/ o \in {"NotFound", "Other"} /\ AskExists(o)

CwdExists == /\ pc = "exists" /\ op = "cwd"
             /\ Fail(IF Exists(PidOf[who]) THEN "ZombieProcess"
                                           ELSE "AccessDenied")

(* Process::net_io_counters.  The net directory of a zombie is not there. *)
net_io_counters == Call("net_io_counters", "netdev")

NetDev == /\ pc = "netdev"
          /\ \/ /\ "content" \in Outcomes("net/dev")
                /\ state[Reader] # "zombie"
                /\ Answer(Reader)
             \/ /\ Exists(PidOf[who]) => state[Reader] = "zombie"
                /\ Goto("netstat")
                /\ UNCHANGED <<about, seen, answer>>
             \/ Fail("Load")

NetStat == /\ pc = "netstat"
           /\ \E o \in Outcomes("stat") :
                Fail(IF o = "content" /\ state[Reader] = "zombie"
                     THEN "ZombieProcess" ELSE "Load")

----------------------------------------------------------------------------
(* Process::name: the comm of the stat file, or if that may be cut off    *)
(* the file name in cmdline, provided it begins with the comm.            *)
name == Call("name", "comm")

NameComm == /\ pc = "comm"
            /\ \E o \in Outcomes("stat") :
                 \/ /\ o = "content" /\ Reader \in LongNames
                    /\ seen' = Reader
                    /\ Goto("cmdline")
                    /\ UNCHANGED <<about, answer>>
                 \/ /\ o = "content" /\ Reader \notin LongNames
                    /\ seen' = Reader /\ answer' = Reader
                    /\ Return("Ok")
                    /\ UNCHANGED about
                 \/ o # "content" /\ Fail(StatError(o))

(* Mutant: the file name of cmdline is taken without comparing it. *)
NameAnyFile == /\ pc = "cmdline"
               /\ \E o \in Outcomes("cmdline") :
                    IF o = "content" /\ state[Reader] # "zombie"
                    THEN Answer(Reader) ELSE Answer(seen)

NameCmdline == /\ pc = "cmdline"
               /\ \E o \in Outcomes("cmdline") :
                    IF o = "content" /\ state[Reader] # "zombie"
                       /\ (Reader = seen \/ <<seen, Reader>> \in SameComm)
                    THEN Answer(Reader) ELSE Answer(seen)

(* Process::parent: parent_pid, then get.  A process whose parent has     *)
(* terminated is a child of pid 1, which never terminates.                *)
parent == Call("parent", "ppid")

ParentPid == /\ pc = "ppid"
             /\ \E o \in Outcomes("stat") :
                  \/ /\ o = "content"
                     /\ seen' = Reader
                     /\ \/ /\ ParentOf[Reader] # NoInc
                           /\ state[ParentOf[Reader]] \in Alive
                           /\ about' = ParentOf[Reader]
                           /\ Goto("parent")
                           /\ UNCHANGED answer
                        \/ /\ ParentOf[Reader] # NoInc =>
                                state[ParentOf[Reader]] \notin Alive
                           /\ answer' = NoInc
                           /\ Return("Ok")
                           /\ UNCHANGED about
                  \/ o # "content" /\ Fail(StatError(o))

ParentGet == /\ pc = "parent"
             /\ \/ \E i \in Inc : Owns(i, PidOf[about]) /\ Answer(i)
                \/ ~Exists(PidOf[about]) /\ Fail("NoSuchProcess")
                \/ Fail("Load")

----------------------------------------------------------------------------
Ask == AskSimple \/ exe \/ cwd \/ net_io_counters \/ name \/ parent

Step == \/ ReadFile \/ ExeLink \/ ExeExists \/ CwdLink \/ CwdExists
        \/ NetDev \/ NetStat \/ NameComm \/ NameCmdline
        \/ ParentPid \/ ParentGet

Environment == TableNext /\ UNCHANGED query

Next == Environment \/ Ask \/ Step

Spec == Init /\ [][Next]_vars

----------------------------------------------------------------------------
(* NoSuchProcess is said only of a process that is gone: the one of the   *)
(* handle, or for `parent` the one whose pid parent_pid has returned.     *)
NoSuchProcessMeansGone == result = "NoSuchProcess" => state[about] = "gone"

(* What ZombieProcess means depends on who says it.  From exe it means    *)
(* that the process is gone, which errors.rs calls NoSuchProcess; only    *)
(* net_io_counters says it of terminated processes; cwd says it also of a *)
(* living process whose link could not be read for any other reason.      *)
ZombieMeans ==
  result = "ZombieProcess" =>
    \/ op = "exe" /\ state[who] = "gone"
    \/ op = "net_io_counters" /\ Terminated(who)
    \/ op = "cwd" /\ (Terminated(who) \/ link = "Other")

(* AccessDenied means that the process is one which the caller may not    *)
(* read or that it is gone; in the latter case a later owner of the pid   *)
(* is the one that refused, unless it is cwd that says so.                *)
DeniedMeans ==
  result = "AccessDenied" =>
    /\ who \in Foreign \/ state[who] = "gone"
    /\ op # "cwd" =>
         \E i \in Foreign : PidOf[i] = PidOf[who] /\ state[i] # "unborn"

(* The empty path of exe does not mean what the comment in it says, "not  *)
(* enough permissions": it is also the answer for a zombie, and for a     *)
(* link that could not be read for another reason.                        *)
EmptyMeans ==
  result = "Empty" => who \in Foreign \/ Terminated(who) \/ link = "Other"

(* What a caller can conclude about its own process from an error or an   *)
(* empty path, although the pid may change hands between the read that    *)
(* fails and the question that decides which error it is.  Only           *)
(* NoSuchProcess means what errors.rs says of it.                         *)
WhatErrorsTell == /\ NoSuchProcessMeansGone
                  /\ ZombieMeans
                  /\ DeniedMeans
                  /\ EmptyMeans

(* An answer is made of the data of one process unless that process was   *)
(* reaped in between: what is returned, or was looked up first, belongs   *)
(* to somebody else only if the one it should belong to is gone.          *)
MixedOnlyByReuse ==
  /\ seen \notin {NoInc, who} => state[who] = "gone"
  /\ op = "name" /\ answer \notin {NoInc, seen} =>
       state[seen] = "gone" /\ <<seen, answer>> \in SameComm
  /\ op = "parent" /\ answer \notin {NoInc, about} => state[about] = "gone"
  /\ op \notin {"name", "parent"} /\ answer \notin {NoInc, who} =>
       state[who] = "gone"

============================================================================
