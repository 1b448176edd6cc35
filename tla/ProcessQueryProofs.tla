------------------------- MODULE ProcessQueryProofs -------------------------
(***************************************************************************)
(* Proofs about ProcessQuery, for any set of processes and pids and any    *)
(* family of parents and names.                                            *)
(***************************************************************************)
EXTENDS ProcessQuery, ProcTableProofs

----------------------------------------------------------------------------
(* The inductive invariant *)

(* The place where a query is suspended goes with the method called. *)
CallShape ==
  /\ pc = "file" => op \in Simple
  /\ pc \in {"link", "exists"} => op \in {"exe", "cwd"}
  /\ pc \in {"netdev", "netstat"} => op = "net_io_counters"
  /\ pc \in {"comm", "cmdline"} => op = "name"
  /\ pc \in {"ppid", "parent"} => op = "parent"
  /\ pc # "idle" => op # "none" /\ result = "none" /\ answer = NoInc

(* What a query is about has been born: the process of the handle, but for *)
(* `parent`, which goes on with the parent it has found.                   *)
AboutShape ==
  /\ state[who] # "unborn"
  /\ op = "none" <=> about = NoInc
  /\ op = "none" => pc = "idle" /\ result = "none"
  /\ op # "none" => state[about] # "unborn"
  /\ op \notin {"none", "parent"} => about = who
  /\ pc = "ppid" => about = who

(* What the first read of name or parent has found had the pid of the      *)
(* handle, and the process of the handle is gone if it was not that one.   *)
SeenShape ==
  /\ pc = "cmdline" => seen # NoInc
  /\ op = "name" /\ answer # NoInc => seen # NoInc
  /\ seen # NoInc => /\ PidOf[seen] = PidOf[who]
                     /\ state[seen] # "unborn"

(* exe and cwd ask whether the pid exists after the read of the link has   *)
(* failed; what the failure says of the process stays true.                *)
MissingLink ==
  /\ pc = "exists" => link # "none"
  /\ pc = "exists" /\ op = "cwd" => link # "PermissionDenied"
  /\ link = "NotFound" => Terminated(who)
  /\ link = "PermissionDenied" => who \in Foreign \/ state[who] = "gone"

Inv == /\ TypeOK
       /\ PidsAreUnique
       /\ CallShape
       /\ AboutShape
       /\ SeenShape
       /\ MissingLink
       /\ WhatErrorsTell
       /\ MixedOnlyByReuse

LEMMA InitInv == Init => Inv
<1> SUFFICES ASSUME Init PROVE Inv
  OBVIOUS
<1>1. TableInv
  BY TableInitInv DEF Init
<1> QED
  BY <1>1, QueryAssumption DEF Init, Inv, TableInv, TypeOK, PCs, Ops, Results,
     CallShape, AboutShape, SeenShape, MissingLink, WhatErrorsTell,
     NoSuchProcessMeansGone, ZombieMeans,
     DeniedMeans, EmptyMeans, MixedOnlyByReuse

----------------------------------------------------------------------------
(* Whose file is read *)

(* A read that finds a file finds the one of the process that has the pid  *)
(* now; if that is not the process of the handle, then this one is gone.   *)
LEMMA ReaderFacts ==
  ASSUME Inv, Exists(PidOf[who])
  PROVE  /\ Reader \in Inc
         /\ Owns(Reader, PidOf[who])
         /\ state[Reader] \in Listed /\ state[Reader] # "unborn"
         /\ PidOf[Reader] = PidOf[who]
         /\ Reader # who => state[who] = "gone"
<1>1. Reader \in Inc /\ Owns(Reader, PidOf[who])
  BY DEF Reader, Exists
<1>2. Reader # who => state[who] = "gone"
  BY <1>1, OtherOwner DEF Inv, TableInv, TypeOK, AboutShape
<1> QED
  BY <1>1, <1>2 DEF Owns, Listed, Alive

(* What the outcome of a read says about the process of the handle. *)
LEMMA OutcomeFacts ==
  ASSUME Inv, NEW file, NEW o \in Outcomes(file)
  PROVE  /\ o \in {"content", "NotFound", "PermissionDenied", "Other"}
         /\ o = "content" => Exists(PidOf[who])
         /\ o = "NotFound" => Terminated(who)
         /\ o = "NotFound" /\ file \notin Links => state[who] = "gone"
         /\ o = "PermissionDenied" =>
              /\ who \in Foreign \/ state[who] = "gone"
              /\ \E i \in Foreign : PidOf[i] = PidOf[who] /\ state[i] # "unborn"
<1> DEFINE owner == {i \in Inc : Owns(i, PidOf[who])}
<1>1. \/ \E i \in owner : o = Gives(i, file)
      \/ owner = {} /\ o = "NotFound"
      \/ o = "Other"
  BY DEF Outcomes
<1>2. ASSUME owner = {} PROVE state[who] = "gone"
  BY <1>2, NoOwner DEF Exists, Inv, TableInv, TypeOK, AboutShape
<1>3. ASSUME NEW i \in owner, o = Gives(i, file)
      PROVE  /\ o \in {"content", "NotFound", "PermissionDenied"}
             /\ o = "PermissionDenied" => i \in Foreign
             /\ o = "NotFound" => state[i] = "zombie" /\ file \in Links
  BY <1>3 DEF Gives
<1>4. ASSUME NEW i \in owner, i # who PROVE state[who] = "gone"
  BY <1>4, OtherOwner DEF Inv, TableInv, TypeOK, AboutShape
<1>5. ASSUME NEW i \in owner
      PROVE  /\ Exists(PidOf[who]) /\ PidOf[i] = PidOf[who]
             /\ state[i] # "unborn"
  BY <1>5 DEF Exists, Owns, Listed, Alive
<1> HIDE DEF owner
<1>6. CASE owner = {} /\ o = "NotFound"
  BY <1>2, <1>6 DEF Terminated
<1>7. CASE \E i \in owner : o = Gives(i, file)
  BY <1>3, <1>4, <1>5, <1>7 DEF Terminated
<1> QED
  BY <1>1, <1>6, <1>7

----------------------------------------------------------------------------
(* Steps *)

(* The table moves while a query is suspended or none is in progress. *)
LEMMA EnvironmentInv ==
  ASSUME Inv, Environment
  PROVE  Inv'
<1> USE DEF Environment, query
<1>1. TableInv' /\ Forward
  BY TableNextInv DEF Inv, TableInv, TypeOK
<1>2. TypeOK' /\ PidsAreUnique'
  BY <1>1 DEF Inv, TypeOK, TableInv
<1>3. CallShape' /\ AboutShape' /\ SeenShape' /\ MissingLink'
  BY <1>1 DEF Inv, TypeOK, Forward, CallShape, AboutShape, SeenShape,
     MissingLink, Terminated
<1>4. NoSuchProcessMeansGone' /\ ZombieMeans' /\ EmptyMeans'
  BY <1>1 DEF Inv, TypeOK, Forward, AboutShape, WhatErrorsTell,
     NoSuchProcessMeansGone, ZombieMeans, EmptyMeans, Terminated
<1>5. DeniedMeans'
  <2> SUFFICES ASSUME result = "AccessDenied"
               PROVE  /\ who \in Foreign \/ state'[who] = "gone"
                      /\ op # "cwd" =>
                           \E i \in Foreign : /\ PidOf[i] = PidOf[who]
                                              /\ state'[i] # "unborn"
    BY DEF DeniedMeans
  <2>1. who \in Inc /\ Foreign \subseteq Inc
    BY TableAssumption DEF Inv, TypeOK
  <2> QED
    BY <1>1, <2>1 DEF Inv, Forward, WhatErrorsTell, DeniedMeans
<1>6. MixedOnlyByReuse'
  BY <1>1 DEF Inv, TypeOK, Forward, AboutShape, SeenShape, MixedOnlyByReuse
<1> QED
  BY <1>2, <1>3, <1>4, <1>5, <1>6 DEF Inv, WhatErrorsTell

(* A query begins. *)
LEMMA CallInv ==
  ASSUME Inv, NEW m \in Ops \ {"none"}, NEW l \in PCs, Call(m, l),
         \/ l = "file" /\ m \in Simple
         \/ l = "link" /\ m \in {"exe", "cwd"}
         \/ l = "netdev" /\ m = "net_io_counters"
         \/ l = "comm" /\ m = "name"
         \/ l = "ppid" /\ m = "parent"
  PROVE  Inv'
<1> USE DEF Call, table
<1>1. TypeOK' /\ PidsAreUnique'
  BY DEF Inv, TypeOK, TableTypeOK, PidsAreUnique, Results
<1>2. CallShape' /\ AboutShape' /\ SeenShape' /\ MissingLink'
  BY QueryAssumption DEF Inv, TypeOK, CallShape, AboutShape, SeenShape,
     MissingLink, Simple
<1>3. WhatErrorsTell' /\ MixedOnlyByReuse'
  BY DEF WhatErrorsTell, NoSuchProcessMeansGone, ZombieMeans,
     DeniedMeans, EmptyMeans, MixedOnlyByReuse
<1> QED
  BY <1>1, <1>2, <1>3 DEF Inv

(* A query ends with an error that is true now. *)
LEMMA FailInv ==
  ASSUME Inv, pc # "idle", NEW r \in Results \ {"none"}, Fail(r),
         r = "NoSuchProcess" => state[about] = "gone",
         r = "ZombieProcess" =>
           \/ op = "exe" /\ state[who] = "gone"
           \/ op = "net_io_counters" /\ Terminated(who)
           \/ op = "cwd" /\ (Terminated(who) \/ link = "Other"),
         r = "AccessDenied" =>
           /\ who \in Foreign \/ state[who] = "gone"
           /\ op # "cwd" =>
                \E i \in Foreign : PidOf[i] = PidOf[who] /\ state[i] # "unborn",
         r = "Empty" => who \in Foreign \/ Terminated(who) \/ link = "Other"
  PROVE  Inv'
<1> USE DEF Fail, Return, table
<1>1. TypeOK' /\ PidsAreUnique'
  BY DEF Inv, TypeOK, TableTypeOK, PidsAreUnique, PCs
<1>2. CallShape' /\ AboutShape' /\ SeenShape' /\ MissingLink'
  BY DEF Inv, CallShape, AboutShape, SeenShape, MissingLink, Terminated
<1>3. WhatErrorsTell'
  BY DEF WhatErrorsTell, NoSuchProcessMeansGone, ZombieMeans,
     DeniedMeans, EmptyMeans, Terminated
<1>4. MixedOnlyByReuse'
  BY DEF Inv, MixedOnlyByReuse
<1> QED
  BY <1>1, <1>2, <1>3, <1>4 DEF Inv

(* A query ends with the data of a process. *)
LEMMA AnswerInv ==
  ASSUME Inv, pc # "idle", NEW i \in Inc, Answer(i),
         op = "name" => seen # NoInc,
         op = "name" /\ i # seen =>
           state[seen] = "gone" /\ <<seen, i>> \in SameComm,
         op = "parent" /\ i # about => state[about] = "gone",
         op \notin {"name", "parent"} /\ i # who => state[who] = "gone"
  PROVE  Inv'
<1> USE DEF Answer, Return, table
<1>1. TypeOK' /\ PidsAreUnique'
  BY DEF Inv, TypeOK, TableTypeOK, PidsAreUnique, PCs, Results
<1>2. CallShape' /\ AboutShape' /\ SeenShape' /\ MissingLink'
  BY DEF Inv, CallShape, AboutShape, SeenShape, MissingLink, Terminated
<1>3. WhatErrorsTell'
  BY DEF WhatErrorsTell, NoSuchProcessMeansGone, ZombieMeans,
     DeniedMeans, EmptyMeans
<1>4. MixedOnlyByReuse'
  BY DEF Inv, MixedOnlyByReuse
<1> QED
  BY <1>1, <1>2, <1>3, <1>4 DEF Inv

(* net_io_counters goes on to its second question. *)
LEMMA NetStatNextInv ==
  ASSUME Inv, pc = "netdev", Goto("netstat"), UNCHANGED <<about, seen, answer>>
  PROVE  Inv'
<1> USE DEF Goto, table
<1>1. TypeOK' /\ PidsAreUnique'
  BY DEF Inv, TypeOK, TableTypeOK, PidsAreUnique, PCs
<1>2. CallShape' /\ AboutShape' /\ SeenShape' /\ MissingLink'
  BY DEF Inv, CallShape, AboutShape, SeenShape, MissingLink, Terminated
<1>3. WhatErrorsTell' /\ MixedOnlyByReuse'
  BY DEF Inv, CallShape, WhatErrorsTell, NoSuchProcessMeansGone, ZombieMeans,
     DeniedMeans, EmptyMeans, MixedOnlyByReuse, Terminated
<1> QED
  BY <1>1, <1>2, <1>3 DEF Inv

(* exe and cwd go on to ask whether the process exists. *)
LEMMA AskExistsInv ==
  ASSUME Inv, pc = "link", NEW o \in Failures, AskExists(o),
         op = "cwd" => o # "PermissionDenied",
         o = "NotFound" => Terminated(who),
         o = "PermissionDenied" => who \in Foreign \/ state[who] = "gone"
  PROVE  Inv'
<1> USE DEF AskExists, table
<1>1. TypeOK' /\ PidsAreUnique'
  BY DEF Inv, TypeOK, TableTypeOK, PidsAreUnique, PCs
<1>2. CallShape' /\ AboutShape' /\ SeenShape'
  BY DEF Inv, CallShape, AboutShape, SeenShape
<1>3. MissingLink'
  BY DEF Inv, MissingLink, Terminated, Failures
<1>4. result' = "none"
  BY DEF Inv, CallShape
<1>5. WhatErrorsTell' /\ MixedOnlyByReuse'
  BY <1>4 DEF Inv, WhatErrorsTell, NoSuchProcessMeansGone, ZombieMeans,
     DeniedMeans, EmptyMeans, MixedOnlyByReuse
<1> QED
  BY <1>1, <1>2, <1>3, <1>5 DEF Inv

(* Every method begins with a call of its own shape. *)
LEMMA AskInv ==
  ASSUME Inv, Ask
  PROVE  Inv'
<1>1. ASSUME NEW m \in Simple, Call(m, "file") PROVE Inv'
  <2>1. m \in Ops \ {"none"} /\ "file" \in PCs
    BY DEF Ops, Simple, PCs
  <2> QED
    BY <1>1, <2>1, CallInv
<1>2. CASE exe \/ cwd
  <2>1. {"exe", "cwd"} \subseteq Ops \ {"none"} /\ "link" \in PCs
    BY DEF Ops, PCs
  <2> QED
    BY <1>2, <2>1, CallInv DEF exe, cwd
<1>3. CASE net_io_counters
  <2>1. "net_io_counters" \in Ops \ {"none"} /\ "netdev" \in PCs
    BY DEF Ops, PCs
  <2> QED
    BY <1>3, <2>1, CallInv DEF net_io_counters
<1>4. CASE name
  <2>1. "name" \in Ops \ {"none"} /\ "comm" \in PCs
    BY DEF Ops, PCs
  <2> QED
    BY <1>4, <2>1, CallInv DEF name
<1>5. CASE parent
  <2>1. "parent" \in Ops \ {"none"} /\ "ppid" \in PCs
    BY DEF Ops, PCs
  <2> QED
    BY <1>5, <2>1, CallInv DEF parent
<1> QED
  BY <1>1, <1>2, <1>3, <1>4, <1>5 DEF Ask, AskSimple

(* An answer that is read where the process has one file only. *)
LEMMA ReaderAnswers ==
  ASSUME Inv, pc # "idle", Exists(PidOf[who]), Answer(Reader),
         op \notin {"name", "parent"}
  PROVE  Inv'
<1>1. Reader \in Inc /\ (Reader # who => state[who] = "gone")
  BY ReaderFacts
<1> HIDE DEF Reader
<1> QED
  BY <1>1, AnswerInv

LEMMA ReadFileInv ==
  ASSUME Inv, ReadFile
  PROVE  Inv'
<1>1. pc # "idle" /\ op \in Simple /\ about = who
  BY DEF ReadFile, Inv, CallShape, AboutShape, Simple
<1>2. FileOf[op] \notin Links
  BY <1>1 DEF FileOf, Simple, Links
<1>3. PICK o \in Outcomes(FileOf[op]) :
        \/ o = "content" /\ Answer(Reader)
        \/ o # "content" /\ Fail(Classify(op, o))
  BY DEF ReadFile
<1>4. CASE o = "content" /\ Answer(Reader)
  <2>1. Exists(PidOf[who])
    BY <1>4, OutcomeFacts
  <2> QED
    BY <1>1, <1>4, <2>1, ReaderAnswers DEF Simple
<1>5. CASE o # "content" /\ Fail(Classify(op, o))
  <2>1. /\ o \in {"NotFound", "PermissionDenied", "Other"}
        /\ o = "NotFound" => state[who] = "gone"
        /\ o = "PermissionDenied" =>
             /\ who \in Foreign \/ state[who] = "gone"
             /\ \E i \in Foreign : PidOf[i] = PidOf[who] /\ state[i] # "unborn"
    BY <1>2, <1>5, OutcomeFacts
  <2>2. /\ Classify(op, o) \in {"NoSuchProcess", "AccessDenied", "Load"}
        /\ Classify(op, o) = "NoSuchProcess" => o = "NotFound"
        /\ Classify(op, o) = "AccessDenied" => o = "PermissionDenied"
    BY <1>1, <2>1 DEF Classify, CommandError, EnvironmentError, MemoryError,
       IoError, StatError, Simple
  <2> HIDE DEF Classify
  <2>3. Classify(op, o) \in Results \ {"none"}
    BY <2>2 DEF Results
  <2>4. Classify(op, o) \notin {"ZombieProcess", "Empty"}
    BY <2>2
  <2> QED
    BY <1>1, <1>5, <2>1, <2>2, <2>3, <2>4, FailInv
<1> QED
  BY <1>3, <1>4, <1>5

LEMMA LinkInv ==
  ASSUME Inv, ExeLink \/ CwdLink
  PROVE  Inv'
<1>1. pc = "link" /\ op \in {"exe", "cwd"}
  BY DEF ExeLink, CwdLink
<1>2. PICK o \in Outcomes(op) :
        \/ o = "content" /\ Answer(Reader)
        \/ o = "PermissionDenied" /\ Fail("AccessDenied")
        \/ /\ o # "content" /\ (op = "cwd" => o # "PermissionDenied")
           /\ AskExists(o)
  BY DEF ExeLink, CwdLink
<1>3. /\ o \in {"content", "NotFound", "PermissionDenied", "Other"}
      /\ o = "content" => Exists(PidOf[who])
      /\ o = "NotFound" => Terminated(who)
      /\ o = "PermissionDenied" =>
           /\ who \in Foreign \/ state[who] = "gone"
           /\ \E i \in Foreign : PidOf[i] = PidOf[who] /\ state[i] # "unborn"
  BY OutcomeFacts
<1>4. CASE o = "content" /\ Answer(Reader)
  BY <1>1, <1>3, <1>4, ReaderAnswers
<1>5. CASE o = "PermissionDenied" /\ Fail("AccessDenied")
  <2>1. "AccessDenied" \in Results \ {"none"}
    BY DEF Results
  <2> QED
    BY <1>1, <1>3, <1>5, <2>1, FailInv
<1>6. CASE /\ o # "content" /\ (op = "cwd" => o # "PermissionDenied")
           /\ AskExists(o)
  <2>1. o \in Failures
    BY <1>3, <1>6 DEF Failures
  <2> QED
    BY <1>1, <1>3, <1>6, <2>1, AskExistsInv
<1> QED
  BY <1>2, <1>4, <1>5, <1>6

LEMMA ExistsInv ==
  ASSUME Inv, ExeExists \/ CwdExists
  PROVE  Inv'
<1>1. pc # "idle" /\ {"Empty", "ZombieProcess", "AccessDenied"} \subseteq
        Results \ {"none"}
  BY DEF ExeExists, CwdExists, Results
<1>2. ~Exists(PidOf[who]) => state[who] = "gone"
  BY NoOwner DEF Inv, TableInv, TypeOK, AboutShape
<1>3. CASE ExeExists
  <2>1. CASE Exists(PidOf[who])
    <3>1. who \in Foreign \/ Terminated(who) \/ link = "Other"
      BY <1>3 DEF ExeExists, Inv, TypeOK, MissingLink, Failures, Terminated
    <3> QED
      BY <1>1, <1>3, <2>1, <3>1, FailInv DEF ExeExists
  <2>2. CASE ~Exists(PidOf[who])
    BY <1>1, <1>2, <1>3, <2>2, FailInv DEF ExeExists
  <2> QED
    BY <2>1, <2>2
<1>4. CASE CwdExists
  <2>1. CASE Exists(PidOf[who])
    <3>1. Terminated(who) \/ link = "Other"
      BY <1>4 DEF CwdExists, Inv, TypeOK, MissingLink, Failures
    <3> QED
      BY <1>1, <1>4, <2>1, <3>1, FailInv DEF CwdExists
  <2>2. CASE ~Exists(PidOf[who])
    BY <1>1, <1>2, <1>4, <2>2, FailInv DEF CwdExists
  <2> QED
    BY <2>1, <2>2
<1> QED
  BY <1>3, <1>4

LEMMA NetInv ==
  ASSUME Inv, NetDev \/ NetStat
  PROVE  Inv'
<1>1. /\ pc \in {"netdev", "netstat"} /\ op = "net_io_counters"
      /\ {"Load", "ZombieProcess"} \subseteq Results \ {"none"}
  BY DEF NetDev, NetStat, Inv, CallShape, Results
<1>2. CASE NetDev
  <2>1. CASE "content" \in Outcomes("net/dev") /\ Answer(Reader)
    <3>1. Exists(PidOf[who])
      BY <2>1, OutcomeFacts
    <3> QED
      BY <1>1, <2>1, <3>1, ReaderAnswers
  <2>2. CASE Goto("netstat") /\ UNCHANGED <<about, seen, answer>>
    BY <1>2, <2>2, NetStatNextInv DEF NetDev
  <2>3. CASE Fail("Load")
    BY <1>1, <2>3, FailInv
  <2> QED
    BY <1>2, <2>1, <2>2, <2>3 DEF NetDev
<1>3. CASE NetStat
  <2>1. PICK o \in Outcomes("stat") :
          Fail(IF o = "content" /\ state[Reader] = "zombie"
               THEN "ZombieProcess" ELSE "Load")
    BY <1>3 DEF NetStat
  <2>2. ASSUME o = "content", state[Reader] = "zombie" PROVE Terminated(who)
    <3>1. Reader # who => state[who] = "gone"
      BY <2>2, OutcomeFacts, ReaderFacts
    <3> QED
      BY <2>2, <3>1 DEF Terminated
  <2> HIDE DEF Reader
  <2>3. CASE o = "content" /\ state[Reader] = "zombie"
    BY <1>1, <2>1, <2>2, <2>3, FailInv
  <2>4. CASE ~(o = "content" /\ state[Reader] = "zombie")
    BY <1>1, <2>1, <2>4, FailInv
  <2> QED
    BY <2>3, <2>4
<1> QED
  BY <1>2, <1>3

(* A stat file that cannot be read: NoSuchProcess if it is not there. *)
LEMMA StatErrorInv ==
  ASSUME Inv, pc # "idle", about = who, NEW o \in Outcomes("stat"),
         o # "content", Fail(StatError(o))
  PROVE  Inv'
<1>1. o = "NotFound" => state[who] = "gone"
  BY OutcomeFacts DEF Links
<1>2. {"NoSuchProcess", "Load"} \subseteq Results \ {"none"}
  BY DEF Results
<1> QED
  BY <1>1, <1>2, FailInv DEF StatError

LEMMA NameCommInv ==
  ASSUME Inv, NameComm
  PROVE  Inv'
<1>1. pc = "comm" /\ op = "name" /\ about = who
  BY DEF NameComm, Inv, CallShape, AboutShape
<1>2. PICK o \in Outcomes("stat") :
        \/ /\ o = "content" /\ seen' = Reader /\ Goto("cmdline")
           /\ UNCHANGED <<about, answer>>
        \/ /\ o = "content" /\ seen' = Reader /\ answer' = Reader
           /\ Return("Ok") /\ UNCHANGED about
        \/ o # "content" /\ Fail(StatError(o))
  BY DEF NameComm
<1>3. CASE o = "content"
  <2>1. /\ Reader \in Inc /\ state[Reader] # "unborn"
        /\ PidOf[Reader] = PidOf[who]
        /\ Reader # who => state[who] = "gone"
    BY <1>3, OutcomeFacts, ReaderFacts
  <2> HIDE DEF Reader
  <2>2. /\ seen' = Reader /\ answer' \in {NoInc, Reader}
        /\ UNCHANGED <<table, who, op, about, link>>
        /\ \/ pc' = "cmdline" /\ result' = result /\ answer' = answer
           \/ pc' = "idle" /\ result' = "Ok"
    BY <1>1, <1>2, <1>3 DEF Goto, Return, Inv, CallShape
  <2>3. TypeOK' /\ PidsAreUnique'
    BY <2>1, <2>2 DEF Inv, TypeOK, TableTypeOK, PidsAreUnique, PCs, Results,
       table
  <2>4. CallShape' /\ AboutShape' /\ SeenShape' /\ MissingLink'
    BY <1>1, <2>1, <2>2, QueryAssumption DEF Inv, CallShape, AboutShape,
       SeenShape, MissingLink, Terminated, table
  <2>5. WhatErrorsTell' /\ MixedOnlyByReuse'
    BY <1>1, <2>1, <2>2 DEF Inv, CallShape, WhatErrorsTell,
       NoSuchProcessMeansGone, ZombieMeans, DeniedMeans,
       EmptyMeans, MixedOnlyByReuse, table
  <2> QED
    BY <2>3, <2>4, <2>5 DEF Inv
<1>4. CASE o # "content"
  BY <1>1, <1>2, <1>4, StatErrorInv
<1> QED
  BY <1>3, <1>4

(* The second read of name may find another process only if the one of     *)
(* the first read is gone, and is used only if their names agree.          *)
LEMMA NameCmdlineInv ==
  ASSUME Inv, NameCmdline
  PROVE  Inv'
<1>1. /\ pc = "cmdline" /\ op = "name" /\ seen \in Inc
      /\ PidOf[seen] = PidOf[who] /\ state[seen] # "unborn"
  BY DEF NameCmdline, Inv, CallShape, SeenShape, TypeOK
<1>2. CASE Answer(seen)
  BY <1>1, <1>2, AnswerInv, QueryAssumption
<1>3. ASSUME NEW o \in Outcomes("cmdline"), o = "content", Answer(Reader),
             Reader = seen \/ <<seen, Reader>> \in SameComm
      PROVE  Inv'
  <2>1. Reader \in Inc /\ Owns(Reader, PidOf[seen])
    BY <1>1, <1>3, OutcomeFacts, ReaderFacts
  <2> HIDE DEF Reader
  <2>2. Reader # seen => state[seen] = "gone"
    BY <1>1, <2>1, OtherOwner DEF Inv, TableInv, TypeOK
  <2> QED
    BY <1>1, <1>3, <2>1, <2>2, AnswerInv, QueryAssumption
<1> QED
  BY <1>2, <1>3 DEF NameCmdline

LEMMA ParentPidInv ==
  ASSUME Inv, ParentPid
  PROVE  Inv'
<1>1. pc = "ppid" /\ op = "parent" /\ about = who
  BY DEF ParentPid, Inv, CallShape, AboutShape
<1>2. ASSUME NEW o \in Outcomes("stat"), o # "content", Fail(StatError(o))
      PROVE  Inv'
  BY <1>1, <1>2, StatErrorInv
<1>3. ASSUME NEW o \in Outcomes("stat"), o = "content", seen' = Reader,
             \/ /\ ParentOf[Reader] # NoInc
                /\ state[ParentOf[Reader]] \in Alive
                /\ about' = ParentOf[Reader]
                /\ Goto("parent")
                /\ UNCHANGED answer
             \/ /\ answer' = NoInc /\ Return("Ok") /\ UNCHANGED about
      PROVE  Inv'
  <2>1. /\ Reader \in Inc /\ state[Reader] # "unborn"
        /\ PidOf[Reader] = PidOf[who]
        /\ Reader # who => state[who] = "gone"
    BY <1>3, OutcomeFacts, ReaderFacts
  <2> HIDE DEF Reader
  <2>2. /\ about' \in Inc /\ state[about'] # "unborn" /\ answer' = NoInc
        /\ UNCHANGED <<table, who, op, link>>
        /\ \/ pc' = "parent" /\ result' = result
           \/ pc' = "idle" /\ result' = "Ok"
    BY <1>1, <1>3, <2>1, QueryAssumption DEF Goto, Return, Inv, TypeOK,
       CallShape, AboutShape, Alive
  <2>3. TypeOK' /\ PidsAreUnique'
    BY <1>3, <2>1, <2>2 DEF Inv, TypeOK, TableTypeOK, PidsAreUnique, PCs,
       Results, table
  <2>4. CallShape' /\ AboutShape' /\ SeenShape' /\ MissingLink'
    BY <1>1, <1>3, <2>1, <2>2, QueryAssumption DEF Inv, CallShape, AboutShape,
       SeenShape, MissingLink, Terminated, table
  <2>5. WhatErrorsTell' /\ MixedOnlyByReuse'
    BY <1>1, <1>3, <2>1, <2>2 DEF Inv, CallShape, WhatErrorsTell,
       NoSuchProcessMeansGone, ZombieMeans, DeniedMeans,
       EmptyMeans, MixedOnlyByReuse, table
  <2> QED
    BY <2>3, <2>4, <2>5 DEF Inv
<1> QED
  BY <1>2, <1>3 DEF ParentPid

LEMMA ParentGetInv ==
  ASSUME Inv, ParentGet
  PROVE  Inv'
<1>1. /\ pc = "parent" /\ op = "parent" /\ about \in Inc
      /\ state[about] # "unborn"
      /\ {"NoSuchProcess", "Load"} \subseteq Results \ {"none"}
  BY DEF ParentGet, Inv, CallShape, AboutShape, TypeOK, Results
<1>2. ASSUME NEW i \in Inc, Owns(i, PidOf[about]), Answer(i) PROVE Inv'
  <2>1. i # about => state[about] = "gone"
    BY <1>1, <1>2, OtherOwner DEF Inv, TableInv, TypeOK
  <2> QED
    BY <1>1, <1>2, <2>1, AnswerInv
<1>3. CASE ~Exists(PidOf[about]) /\ Fail("NoSuchProcess")
  <2>1. state[about] = "gone"
    BY <1>1, <1>3, NoOwner DEF Inv, TableInv, TypeOK
  <2> QED
    BY <1>1, <1>3, <2>1, FailInv
<1>4. CASE Fail("Load")
  BY <1>1, <1>4, FailInv
<1> QED
  BY <1>2, <1>3, <1>4 DEF ParentGet

LEMMA StepInv == Inv /\ [Next]_vars => Inv'
<1> SUFFICES ASSUME Inv, [Next]_vars PROVE Inv'
  OBVIOUS
<1>1. CASE UNCHANGED vars
  BY <1>1 DEF vars, table, query, Inv, TypeOK, TableTypeOK, PidsAreUnique,
     CallShape, AboutShape, SeenShape, MissingLink, WhatErrorsTell,
     NoSuchProcessMeansGone, ZombieMeans,
     DeniedMeans, EmptyMeans, MixedOnlyByReuse, Terminated
<1>2. CASE Next
  BY <1>2, EnvironmentInv, AskInv, ReadFileInv, LinkInv, ExistsInv, NetInv,
     NameCommInv, NameCmdlineInv, ParentPidInv, ParentGetInv DEF Next, Step
<1> QED
  BY <1>1, <1>2

----------------------------------------------------------------------------
(* The invariant holds in every reachable state. *)
THEOREM Invariance == Spec => []Inv
BY InitInv, StepInv, PTL DEF Spec

(* Every query ends in one of the answers and errors of the code, and what *)
(* it remembers between its reads keeps its type.                          *)
THEOREM TypeCorrectness == Spec => []TypeOK
<1>1. Inv => TypeOK
  BY DEF Inv
<1> QED
  BY <1>1, Invariance, PTL

(* What the errors of the queries and the empty path of exe say of the     *)
(* process that was asked about, for any number of processes, any reuse of *)
(* pids between the reads of a query and any failure of a read.            *)
THEOREM ErrorsTellThisMuch == Spec => []WhatErrorsTell
<1>1. Inv => WhatErrorsTell
  BY DEF Inv
<1> QED
  BY <1>1, Invariance, PTL

(* name and parent join the data of two processes only if the pid changed  *)
(* hands between the two reads, and name only if the names agree.          *)
THEOREM AnswersAreOfOneProcess == Spec => []MixedOnlyByReuse
<1>1. Inv => MixedOnlyByReuse
  BY DEF Inv
<1> QED
  BY <1>1, Invariance, PTL

============================================================================
