----------------------- MODULE NetDiskDatabaseProofs -----------------------
(***************************************************************************)
(* The database commands of the net disk server, for any connections,      *)
(* users, files and options, and any number of commands.                   *)
(*                                                                         *)
(* The invariants are stated for one connection at a time.  A step of c    *)
(* changes the variables of c, and the tables only as all tasks may rely   *)
(* on: directories and files of the disk stay, ids are not used again.     *)
(***************************************************************************)
EXTENDS NetDiskDatabase, WellFoundedInduction, FiniteSetTheorems, TLAPS

----------------------------------------------------------------------------
(* ResultsDrained: types, and which variable has a value at which stage *)

UserRow == [name : Users, code : Codes]
Result  == [open : BOOLEAN, rows : SUBSET (Row \cup UserRow)]
Session == [name : Users \cup {NoName}, path : Seq(Users)]

\* The stages of each handler.
StagesOf(op) ==
    CASE op = "login"  -> {"check"}
      [] op = "regist" -> {"check", "adduser", "adddir"}
      [] op = "cd"     -> {"walk"}
      [] op = "ls"     -> {"walk", "list"}
      [] op = "remove" -> {"walk", "find", "delete"}
      [] op = "gets"   -> {"walk", "find", "transfer"}
      [] op = "puts"   -> {"walk", "find", "transfer", "addfile"}
      [] op = "none"   -> {"menu", "prompt", "unanswered"}

\* The stages that issue a SELECT, and those of a user who has logged in.
AskStages  == {"check", "walk", "list", "find"}
UserStages == Stages \ {"menu", "check", "adduser", "adddir"}

JobShape(c) ==
    /\ stage[c] \in StagesOf(job[c].op)
    /\ stage[c] \in UserStages => session[c].name \in Users
    /\ job[c].op \in {"login", "regist"} => job[c].name \in Names /\ job[c].code \in Codes
    /\ job[c].op = "puts" => job[c].md5 \in Md5s
    /\ stage[c] = "adddir" <=> lock = c

ResultShape(c) ==
    /\ result[c].open => stage[c] \in AskStages
    /\ stage[c] \in {"delete", "transfer", "addfile"} => job[c].file # NoName
    /\ stage[c] = "find" /\ result[c].open => job[c].file # NoName
    /\ link = c => result[c].open
    /\ stage[c] # "check" => result[c].rows \subseteq Row

TypeInv ==
    /\ TypeOK /\ result \in [Conns -> Result]
    /\ \A c \in Conns : JobShape(c) /\ ResultShape(c)


\* The steps of a task, each with the command it belongs to.
Asks(c) == CheckUser(c) \/ AskDir(c) \/ ListDir(c) \/ AskFile(c)

TaskStep(c) ==
    \/ Asks(c)
    \/ LoginRow(c) \/ RegistRow(c) \/ AddUser(c) \/ AddHome(c)
    \/ TakeDir(c)
    \/ (job[c].op = "ls" /\ TakeLastDir(c, "list"))
    \/ (job[c].op \in {"remove", "gets", "puts"} /\ TakeLastDir(c, "find"))
    \/ (job[c].op = "cd" /\ CdRow(c))
    \/ ListRows(c) \/ NotAFile(c)
    \/ (job[c].op = "remove" /\ (RemoveRow(c) \/ DeleteRow(c)))
    \/ (job[c].op = "gets" /\ (GetsRow(c) \/ SendFile(c)))
    \/ (job[c].op = "puts" /\ (PutsRow(c) \/ ReceiveFile(c) \/ AddFile(c)))

LEMMA TaskSteps == ASSUME NEW c \in Conns, DoTask(c) PROVE TaskStep(c)
  BY DEF DoTask, DoTaskLogin, DoTaskRegist, DoTaskCd, DoTaskLs, DoTaskRemove, DoTaskGets,
         DoTaskPuts, Walk, FindFile, TaskStep, Asks

\* A set of numbers has a least one, so a fetch gives a row if there are any.
LEMMA LeastNumber ==
    ASSUME NEW S \in SUBSET Nat, S # {} PROVE \E m \in S : \A n \in S : m <= n
<1> DEFINE Lt == {p \in Nat \X Nat : p[1] < p[2]}
<1>1. IsWellFoundedOn(Lt, Nat)
  BY NatLessThanWellFounded, Zenon DEF OpToRel
<1> HIDE DEF Lt
<1>2. PICK m \in S : \A n \in S : ~(<<n, m>> \in Lt)
  BY <1>1, WFMin
<1>3. \A x, y \in Nat : x < y => <<x, y>> \in Lt
  BY DEF Lt
<1>4. \A n \in S : m \in Nat /\ n \in Nat
  OBVIOUS
<1>5. \A x, y \in Nat : ~(x < y) => y <= x
  OBVIOUS
<1> QED BY <1>2, <1>3, <1>4, <1>5

LEMMA FirstRowIsOne ==
    ASSUME NEW rows \in SUBSET Row, rows # {} PROVE FirstRow(rows) \in rows
<1> DEFINE ids == {r.dir_id : r \in rows}
<1>1. ids \in SUBSET Nat /\ ids # {}
  BY DEF Row
<1>2. PICK m \in ids : \A n \in ids : m <= n
  BY <1>1, LeastNumber
<1>3. PICK r \in rows : r.dir_id = m
  OBVIOUS
<1>4. \A q \in rows : r.dir_id <= q.dir_id
  BY <1>2, <1>3
<1> QED BY <1>3, <1>4 DEF FirstRow

\* The facts about constants that the proofs use.
LEMMA Values ==
    /\ NoName \notin Users /\ NoCode \notin Codes /\ NoMd5 \notin Md5s /\ Nobody \notin Conns
    /\ Root \in Users /\ Names \subseteq Users /\ Users \subseteq Entries
    /\ Root \notin Names /\ InitialCode # NoCode
    /\ NoName \notin Entries /\ NoJob \in Job /\ NoResult \in Result
  BY DatabaseConstants DEF Users, Entries, NoJob, Job, Ops, NoResult, Result

----------------------------------------------------------------------------
(* The invariant of types is kept *)

\* A step of c leaves the variables of the other connections alone.
StepOf(c) ==
    /\ stage' \in [Conns -> Stages] /\ job' \in [Conns -> Job] /\ sent' \in [Conns -> Nat]
    /\ result' \in [Conns -> Result] /\ session' \in [Conns -> Session]
    /\ \A d \in Conns \ {c} : /\ stage'[d] = stage[d] /\ job'[d] = job[d]
                              /\ result'[d] = result[d] /\ session'[d] = session[d]

\* The tables and locks keep their types, and c moves them only for itself.
TablesTyped(c) ==
    /\ user' \in [Users -> Codes \cup {NoCode}] /\ file' \subseteq Row /\ nextId' \in Nat
    /\ disk' \subseteq Md5s /\ refused' \subseteq Conns
    /\ link' = link \/ (link' \in {c, Nobody} /\ link \in {c, Nobody})
    /\ lock' = lock \/ (lock' \in {c, Nobody} /\ lock \in {c, Nobody})

LEMMA TypeStep ==
    ASSUME TypeInv, NEW c \in Conns, StepOf(c), TablesTyped(c), JobShape(c)', ResultShape(c)'
    PROVE  TypeInv'
<1>1. \A d \in Conns \ {c} : (link' = d => link = d) /\ (lock' = d <=> lock = d)
  BY Values DEF TablesTyped
<1>2. \A d \in Conns \ {c} : JobShape(d)' /\ ResultShape(d)'
  BY <1>1 DEF TypeInv, StepOf, JobShape, ResultShape
<1>3. \A d \in Conns : JobShape(d)' /\ ResultShape(d)'
  BY <1>2
<1>4. \A d \in Conns : /\ (job'[d].op = "none" <=> stage'[d] \in {"menu", "prompt", "unanswered"})
                       /\ (stage'[d] = "adddir" <=> lock' = d)
  <2>1. SUFFICES ASSUME NEW d \in Conns
                 PROVE  job'[d].op = "none" <=> stage'[d] \in {"menu", "prompt", "unanswered"}
    BY <1>3 DEF JobShape
  <2>2. job'[d].op \in Ops /\ stage'[d] \in StagesOf(job'[d].op)
    BY <1>3 DEF JobShape, StepOf, Job
  <2> QED BY <2>2 DEF StagesOf, Ops
<1>5. result' \in [Conns -> Result] /\ \A d \in Conns : result'[d].open \in BOOLEAN
  BY DEF StepOf, Result
<1>6. link' \in Conns \cup {Nobody} /\ lock' \in Conns \cup {Nobody}
  BY DEF TablesTyped, TypeInv, TypeOK
<1>7. TypeOK'
  BY <1>4, <1>5, <1>6 DEF TypeOK, StepOf, TablesTyped, Session
<1> QED BY <1>3, <1>5, <1>7 DEF TypeInv

LEMMA InitTyped == ASSUME Init PROVE TypeInv
<1> USE Values DEF Init
<1>1. file \subseteq Row
  <2>1. PICK id \in [InitialUsers -> 1 .. Cardinality(InitialUsers)] :
               file = {DirRow(0, Root, 0)} \cup InitialHomes(id)
    OBVIOUS
  <2>2. \A n \in InitialUsers : id[n] \in Nat /\ n \in Users
    BY <2>1, DatabaseConstants, FS_CardinalityType
  <2> QED BY <2>1, <2>2 DEF InitialHomes, DirRow, Row
<1>2. nextId \in Nat
  BY DatabaseConstants, FS_CardinalityType
<1>3. user \in [Users -> Codes \cup {NoCode}]
  BY DatabaseConstants
<1>4. stage \in [Conns -> Stages] /\ sent \in [Conns -> Nat]
  BY DEF Stages
<1>5. job \in [Conns -> Job] /\ result \in [Conns -> Result] /\ session \in [Conns -> Session]
  BY DEF Session
<1>6. \A c \in Conns : JobShape(c) /\ ResultShape(c)
  BY DEF JobShape, ResultShape, NoJob, NoResult, StagesOf, UserStages, AskStages
<1>7. TypeOK
  BY <1>1, <1>2, <1>3, <1>4, <1>5 DEF TypeOK, NoJob, NoResult, Session
<1> QED BY <1>5, <1>6, <1>7 DEF TypeInv


\* What a stage, a job and a session must be for each other.
Fits(s, j, e) ==
    /\ s \in StagesOf(j.op)
    /\ s \in UserStages => e.name \in Users
    /\ j.op \in {"login", "regist"} => j.name \in Names /\ j.code \in Codes
    /\ j.op = "puts" => j.md5 \in Md5s
    /\ s \in {"delete", "transfer", "addfile"} => j.file # NoName

LEMMA MoveTyped ==
    ASSUME TypeInv, NEW c \in Conns,
           NEW s \in Stages, NEW j \in Job, NEW e \in Session, NEW r \in Result,
           stage' = [stage EXCEPT ![c] = s], job' = [job EXCEPT ![c] = j],
           session' = [session EXCEPT ![c] = e], result' = [result EXCEPT ![c] = r],
           sent' \in [Conns -> Nat], TablesTyped(c), Fits(s, j, e), s = "adddir" <=> lock' = c,
           r.open => s \in AskStages /\ (s = "find" => j.file # NoName),
           link' = c => r.open, s # "check" => r.rows \subseteq Row
    PROVE  TypeInv'
<1>1. /\ stage \in [Conns -> Stages] /\ job \in [Conns -> Job] /\ result \in [Conns -> Result]
      /\ session \in [Conns -> Session]
  BY DEF TypeInv, TypeOK, Session
<1>2. /\ stage'[c] = s /\ job'[c] = j /\ session'[c] = e /\ result'[c] = r
  BY <1>1
<1>3. StepOf(c)
  BY <1>1 DEF StepOf
<1>4. JobShape(c)'
  BY <1>2 DEF JobShape, Fits
<1>5. ResultShape(c)'
  BY <1>2 DEF ResultShape, Fits
<1> QED BY <1>3, <1>4, <1>5, TypeStep

\* What holds of a connection before its step.
LEMMA Typed ==
    ASSUME TypeInv, NEW c \in Conns
    PROVE  /\ stage[c] \in Stages /\ job[c] \in Job /\ session[c] \in Session /\ result[c] \in Result
           /\ stage \in [Conns -> Stages] /\ job \in [Conns -> Job]
           /\ session \in [Conns -> Session] /\ result \in [Conns -> Result]
           /\ sent \in [Conns -> Nat] /\ file \subseteq Row /\ nextId \in Nat
           /\ user \in [Users -> Codes \cup {NoCode}]
           /\ stage = [stage EXCEPT ![c] = stage[c]] /\ job = [job EXCEPT ![c] = job[c]]
           /\ session = [session EXCEPT ![c] = session[c]] /\ result = [result EXCEPT ![c] = result[c]]
           /\ JobShape(c) /\ ResultShape(c)
  BY DEF TypeInv, TypeOK, Session

LEMMA TablesStay ==
    ASSUME TypeInv, NEW c \in Conns, UNCHANGED <<tables, disk, lock, refused>>,
           link' = link \/ (link' \in {c, Nobody} /\ link \in {c, Nobody})
    PROVE  TablesTyped(c)
  BY DEF TypeInv, TypeOK, TablesTyped, tables

\* Select leaves an open result, whether or not the statement was refused.
LEMMA SelectTyped ==
    ASSUME TypeInv, NEW c \in Conns, NEW rows \in SUBSET (Row \cup UserRow), Select(c, rows),
           stage[c] \in AskStages, stage[c] # "check" => rows \subseteq Row,
           stage[c] = "find" => job[c].file # NoName
    PROVE  TypeInv'
<1> DEFINE r == [open |-> TRUE, rows |-> IF link = Nobody THEN rows ELSE {}]
<1>1. r \in Result /\ r.open = TRUE /\ (stage[c] # "check" => r.rows \subseteq Row)
  BY DEF Result
<1>2. /\ UNCHANGED <<tables, lock, disk, session, stage, job, sent>>
      /\ result' = [result EXCEPT ![c] = r]
      /\ link' = IF link = Nobody THEN c ELSE link
      /\ refused' \subseteq Conns
  BY DEF Select, Refuse, TypeInv, TypeOK
<1>3. TablesTyped(c)
  BY <1>2, Typed DEF TablesTyped, tables, TypeInv, TypeOK
<1>4. Fits(stage[c], job[c], session[c]) /\ (stage[c] = "adddir" <=> lock' = c)
  BY <1>2, Typed DEF JobShape, ResultShape, Fits
<1> HIDE DEF r
<1> QED BY <1>1, <1>2, <1>3, <1>4, Typed, MoveTyped

LEMMA AskTyped == ASSUME TypeInv, NEW c \in Conns, Asks(c) PROVE TypeInv'
<1>1. CASE CheckUser(c)
  <2>1. UserRows(job[c].name) \in SUBSET UserRow
    <3>1. stage[c] = "check" /\ job[c].op \in Ops /\ stage[c] \in StagesOf(job[c].op)
      BY <1>1, Typed DEF CheckUser, JobShape, Job
    <3>2. job[c].op \in {"login", "regist"}
      BY <3>1 DEF StagesOf, Ops
    <3>3. job[c].name \in Users /\ user[job[c].name] \in Codes \cup {NoCode}
      BY <3>2, Typed, Values DEF JobShape
    <3> QED BY <3>3 DEF UserRows, UserRow
  <2> QED BY <1>1, <2>1, SelectTyped DEF CheckUser, AskStages
<1>2. CASE AskDir(c)
  BY <1>2, SelectTyped, Typed DEF AskDir, SubDirs, Dirs, AskStages
<1>3. CASE ListDir(c)
  BY <1>3, SelectTyped, Typed DEF ListDir, AskStages
<1>4. CASE AskFile(c)
  BY <1>4, SelectTyped, Typed DEF AskFile, OwnFiles, AskStages
<1> QED BY <1>1, <1>2, <1>3, <1>4 DEF Asks

\* After a fetch the result is closed and the link is free, if c had it.
LEMMA FetchTyped ==
    ASSUME TypeInv, NEW c \in Conns, Fetch(c), NEW s \in Stages, NEW j \in Job, NEW e \in Session,
           stage' = [stage EXCEPT ![c] = s], job' = [job EXCEPT ![c] = j],
           session' = [session EXCEPT ![c] = e],
           Fits(s, j, e), s # "adddir"
    PROVE  TypeInv'
<1>1. /\ UNCHANGED <<tables, lock, disk, sent, refused>>
      /\ result' = [result EXCEPT ![c] = NoResult]
      /\ link' = IF link = c THEN Nobody ELSE link
      /\ result[c].open
  BY DEF Fetch, FreeResult
<1>2. TablesTyped(c)
  BY <1>1, TablesStay
<1>3. lock' # c
  BY <1>1, Typed DEF ResultShape, AskStages, JobShape
<1>4. /\ NoResult \in Result /\ NoResult.open = FALSE /\ NoResult.rows \subseteq Row
  BY Values DEF NoResult
<1>5. link' # c
  BY <1>1, Values
<1> HIDE DEF NoResult
<1> QED BY <1>1, <1>2, <1>3, <1>4, <1>5, Typed, MoveTyped

\* A task that is answered leaves no job.
LEMMA AnswerFits ==
    ASSUME NEW e \in Session, NEW s \in {"menu", "prompt", "unanswered"},
           s # "menu" => e.name \in Users
    PROVE  Fits(s, NoJob, e) /\ s \in Stages
  BY DEF Fits, NoJob, StagesOf, UserStages, Stages

LEMMA EnterType ==
    ASSUME NEW n \in Users PROVE [name |-> n, path |-> HomePath(n)] \in Session
  BY Values DEF HomePath, Session

\* The commands that a user types.
LEMMA CommandTyped == ASSUME TypeInv, NEW c \in Conns, Menu(c) \/ Command(c) PROVE TypeInv'
<1>1. UNCHANGED <<tables, link, lock, disk, session, result, refused>> /\ sent' \in [Conns -> Nat]
  <2>1. sent[c] + 1 \in Nat
    BY Typed
  <2> QED BY <2>1, Typed DEF Menu, Command
<1>2. stage[c] \in {"menu", "prompt"} /\ link # c /\ lock # c /\ ~result[c].open
  BY Typed DEF Menu, Command, ResultShape, JobShape, AskStages
<1>3. TablesTyped(c)
  BY <1>1, TablesStay
<1>4. ASSUME NEW s \in {"check", "walk"}, NEW j \in Job, Fits(s, j, session[c]),
             stage' = [stage EXCEPT ![c] = s], job' = [job EXCEPT ![c] = j]
      PROVE  TypeInv'
  <2>1. session' = [session EXCEPT ![c] = session[c]] /\ result' = [result EXCEPT ![c] = result[c]]
    BY <1>1, Typed
  <2>2. result[c].rows \subseteq Row /\ s \in Stages
    BY <1>2, Typed DEF ResultShape, Stages
  <2> QED BY <1>1, <1>2, <1>3, <1>4, <2>1, <2>2, Typed, MoveTyped
<1>5. CASE Menu(c)
  <2>1. PICK op \in {"login", "regist"}, n \in Names, k \in Codes :
             /\ job' = [job EXCEPT ![c] = [NoJob EXCEPT !.op = op, !.name = n, !.code = k]]
             /\ stage' = [stage EXCEPT ![c] = "check"]
    BY <1>5 DEF Menu, Goto
  <2> DEFINE j == [NoJob EXCEPT !.op = op, !.name = n, !.code = k]
  <2>2. j \in Job /\ j.op = op /\ j.name = n /\ j.code = k
    BY Values DEF NoJob, Job, Ops
  <2>3. Fits("check", j, session[c])
    BY <2>2 DEF Fits, StagesOf, UserStages
  <2> HIDE DEF j
  <2> QED BY <1>4, <2>1, <2>2, <2>3 DEF j
<1>6. ASSUME NEW o, IsOption(o), stage[c] = "prompt"
      PROVE  PathOf(c, o) \in Seq(Users) /\ session[c].name \in Users
  <2>1. session[c].path \in Seq(Users) /\ o.dirs \in Seq(Users)
    BY <1>6, Typed DEF IsOption, Session
  <2>2. session[c].path \o o.dirs \in Seq(Users)
    BY <2>1
  <2>3. session[c].name \in Users
    BY <1>6, Typed DEF JobShape, UserStages, Stages
  <2> QED BY <2>1, <2>2, <2>3 DEF PathOf
<1>7. CASE Command(c) /\ DirCommand(c)
  <2>1. PICK op \in {"cd", "ls"}, o \in DirOptions :
             /\ job' = [job EXCEPT ![c] = [NoJob EXCEPT !.op = op, !.todo = PathOf(c, o),
                                                        !.path = PathOf(c, o)]]
             /\ stage' = [stage EXCEPT ![c] = "walk"]
    BY <1>7 DEF DirCommand, Goto
  <2> DEFINE j == [NoJob EXCEPT !.op = op, !.todo = PathOf(c, o), !.path = PathOf(c, o)]
  <2>2. PathOf(c, o) \in Seq(Users) /\ session[c].name \in Users
    BY <1>6, <1>7, DatabaseConstants DEF Command
  <2>3. j \in Job /\ j.op = op
    BY <2>2, Values DEF NoJob, Job, Ops
  <2>4. Fits("walk", j, session[c])
    BY <2>2, <2>3 DEF Fits, StagesOf, UserStages
  <2> HIDE DEF j
  <2> QED BY <1>4, <2>1, <2>3, <2>4 DEF j
<1>8. CASE Command(c) /\ FileCommand(c)
  <2>1. PICK op \in {"remove", "gets", "puts"}, o \in FileOptions,
             m \in Md5s \cup {NoMd5} :
             /\ op = "puts" => m \in Md5s
             /\ job' = [job EXCEPT ![c] = [NoJob EXCEPT !.op = op, !.todo = PathOf(c, o),
                                                        !.file = o.file, !.md5 = m]]
             /\ stage' = [stage EXCEPT ![c] = "walk"]
    BY <1>8 DEF FileCommand, Goto
  <2> DEFINE j == [NoJob EXCEPT !.op = op, !.todo = PathOf(c, o), !.file = o.file, !.md5 = m]
  <2>2. /\ PathOf(c, o) \in Seq(Users) /\ session[c].name \in Users
        /\ o.file \in Entries \cup {NoName} /\ m \in Md5s \cup {NoMd5}
    BY <1>6, <1>8, DatabaseConstants DEF Command
  <2>3. j \in Job /\ j.op = op /\ j.md5 = m
    BY <2>2, Values DEF NoJob, Job, Ops
  <2>4. Fits("walk", j, session[c])
    BY <2>1, <2>2, <2>3 DEF Fits, StagesOf, UserStages
  <2> HIDE DEF j
  <2> QED BY <1>4, <2>1, <2>3, <2>4 DEF j
<1> QED BY <1>5, <1>7, <1>8 DEF Command

\* The steps that fetch.
LEMMA FetchesTyped ==
    ASSUME TypeInv, NEW c \in Conns,
           \/ LoginRow(c) \/ RegistRow(c) \/ TakeDir(c) \/ ListRows(c)
           \/ (job[c].op = "ls" /\ TakeLastDir(c, "list"))
           \/ (job[c].op \in {"remove", "gets", "puts"} /\ TakeLastDir(c, "find"))
           \/ (job[c].op = "cd" /\ CdRow(c)) \/ (job[c].op = "remove" /\ RemoveRow(c))
           \/ (job[c].op = "gets" /\ GetsRow(c)) \/ (job[c].op = "puts" /\ PutsRow(c))
    PROVE  TypeInv'
<1>1. /\ stage \in [Conns -> Stages] /\ job \in [Conns -> Job] /\ session \in [Conns -> Session]
      /\ JobShape(c) /\ ResultShape(c) /\ job[c] \in Job /\ session[c] \in Session
      /\ Fetch(c) /\ result[c].open
  BY Typed DEF LoginRow, RegistRow, TakeDir, TakeLastDir, CdRow, ListRows, RemoveRow, GetsRow, PutsRow,
               Fetch
<1>2. stage[c] # "check" => session[c].name \in Users /\ Rows(c) \subseteq Row
  BY <1>1 DEF JobShape, ResultShape, AskStages, UserStages, Stages, Rows
\* An answer, with the session as it is or a new one.
<1>3. ASSUME NEW s \in {"menu", "prompt"}, Answer(c, s), NEW e \in Session,
             session' = [session EXCEPT ![c] = e], s # "menu" => e.name \in Users
      PROVE  TypeInv'
  <2>1. Fits(s, NoJob, e) /\ s \in Stages
    BY <1>3, AnswerFits
  <2> QED BY <1>1, <1>3, <2>1, Values, FetchTyped DEF Answer, Goto
<1>4. ASSUME Answer(c, "prompt"), UNCHANGED session, stage[c] # "check" PROVE TypeInv'
  <2>1. session' = [session EXCEPT ![c] = session[c]]
    BY <1>1, <1>4
  <2> QED BY <1>1, <1>2, <1>3, <1>4, <2>1
\* A job goes on.
<1>5. ASSUME NEW s \in Stages \ {"adddir"}, NEW j \in Job, Fits(s, j, session[c]),
             stage' = [stage EXCEPT ![c] = s], job' = [job EXCEPT ![c] = j], UNCHANGED session
      PROVE  TypeInv'
  <2>1. session' = [session EXCEPT ![c] = session[c]]
    BY <1>1, <1>5
  <2> QED BY <1>1, <1>5, <2>1, FetchTyped
<1>6. CASE LoginRow(c)
  <2>1. job[c].name \in Users
    BY <1>1, <1>6, Values DEF LoginRow, JobShape
  <2>2. CASE Enter(c, job[c].name) /\ Answer(c, "prompt")
    BY <1>3, <2>1, <2>2, EnterType DEF Enter
  <2>3. CASE Answer(c, "menu") /\ UNCHANGED session
    <3>1. session' = [session EXCEPT ![c] = session[c]]
      BY <1>1, <2>3
    <3> QED BY <1>1, <1>3, <2>3, <3>1
  <2> QED BY <1>6, <2>2, <2>3 DEF LoginRow
<1>7. CASE RegistRow(c)
  <2>1. CASE Goto(c, "adduser") /\ UNCHANGED <<job, session>>
    <3>1. job' = [job EXCEPT ![c] = job[c]]
      BY <1>1, <2>1
    <3>2. Fits("adduser", job[c], session[c])
      BY <1>1, <1>7 DEF RegistRow, Fits, StagesOf, JobShape, UserStages
    <3>3. "adduser" \in Stages \ {"adddir"}
      BY DEF Stages
    <3> QED BY <1>1, <1>5, <2>1, <3>1, <3>2, <3>3 DEF Goto
  <2>2. CASE Answer(c, "menu") /\ UNCHANGED session
    <3>1. session' = [session EXCEPT ![c] = session[c]]
      BY <1>1, <2>2
    <3> QED BY <1>1, <1>3, <2>2, <3>1
  <2> QED BY <1>7, <2>1, <2>2 DEF RegistRow
<1>8. CASE TakeDir(c) /\ ~Answer(c, "prompt")
  <2> DEFINE d == FirstRow(Rows(c)).dir_id
             j == [job[c] EXCEPT !.todo = Tail(@), !.dir = d]
  <2>1. /\ stage[c] = "walk" /\ Len(job[c].todo) > 1 /\ Rows(c) # {}
        /\ job' = [job EXCEPT ![c] = j] /\ UNCHANGED <<stage, session>>
    BY <1>1, <1>8 DEF TakeDir
  <2>2. d \in Nat
    BY <1>2, <2>1, FirstRowIsOne DEF Row
  <2> HIDE DEF d
  <2>3. Tail(job[c].todo) \in Seq(Users)
    BY <1>1, <2>1 DEF Job
  <2>4. j \in Job /\ j.op = job[c].op /\ j.md5 = job[c].md5 /\ j.name = job[c].name /\ j.code = job[c].code
    BY <1>1, <2>2, <2>3 DEF Job
  <2>5. Fits("walk", j, session[c])
    BY <1>1, <1>2, <2>1, <2>4 DEF Fits, JobShape
  <2>6. "walk" \in Stages \ {"adddir"} /\ stage' = [stage EXCEPT ![c] = "walk"]
    BY <1>1, <2>1 DEF Stages
  <2> HIDE DEF j
  <2> QED BY <1>5, <2>1, <2>4, <2>5, <2>6
<1>9. ASSUME NEW next \in {"list", "find"}, TakeLastDir(c, next), ~Answer(c, "prompt"),
             next \in StagesOf(job[c].op)
      PROVE  TypeInv'
  <2> DEFINE d == FirstRow(Rows(c)).dir_id
             j == [job[c] EXCEPT !.todo = <<>>, !.dir = d]
  <2>1. /\ stage[c] = "walk" /\ Rows(c) # {}
        /\ job' = [job EXCEPT ![c] = j] /\ UNCHANGED session
        /\ stage' = [stage EXCEPT ![c] = next]
    BY <1>1, <1>9 DEF TakeLastDir, Goto
  <2>2. d \in Nat
    BY <1>2, <2>1, FirstRowIsOne DEF Row
  <2> HIDE DEF d
  <2>3. j \in Job /\ j.op = job[c].op /\ j.md5 = job[c].md5 /\ j.name = job[c].name /\ j.code = job[c].code
    <3>1. <<>> \in Seq(Users)
      OBVIOUS
    <3> QED BY <1>1, <2>2, <3>1 DEF Job
  <2>4. Fits(next, j, session[c])
    BY <1>1, <1>2, <1>9, <2>1, <2>3 DEF Fits, JobShape
  <2>5. next \in Stages \ {"adddir"}
    BY DEF Stages
  <2> HIDE DEF j
  <2> QED BY <1>5, <2>1, <2>3, <2>4, <2>5
<1>10. CASE job[c].op = "cd" /\ CdRow(c)
  <2> DEFINE e == IF Rows(c) = {} THEN session[c] ELSE [session[c] EXCEPT !.path = job[c].path]
  <2>1. e \in Session /\ e.name \in Users
    BY <1>1, <1>2, <1>10 DEF CdRow, Session, Job
  <2>2. session' = [session EXCEPT ![c] = e] /\ Answer(c, "prompt")
    BY <1>1, <1>10 DEF CdRow
  <2> HIDE DEF e
  <2> QED BY <1>3, <2>1, <2>2
<1>11. CASE ListRows(c)
  BY <1>4, <1>11 DEF ListRows
<1>12. CASE job[c].op = "remove" /\ RemoveRow(c) /\ ~Answer(c, "prompt")
  <2> DEFINE d == FirstRow(Rows(c)).dir_id
             j == [job[c] EXCEPT !.row = d]
  <2>1. /\ stage[c] = "find" /\ Rows(c) # {} /\ job' = [job EXCEPT ![c] = j] /\ UNCHANGED session
        /\ stage' = [stage EXCEPT ![c] = "delete"]
    BY <1>1, <1>12 DEF RemoveRow, Goto
  <2>2. d \in Nat
    BY <1>2, <2>1, FirstRowIsOne DEF Row
  <2> HIDE DEF d
  <2>3. j \in Job /\ j.op = "remove" /\ j.file = job[c].file
    BY <1>1, <1>12, <2>2 DEF Job
  <2>4. Fits("delete", j, session[c])
    BY <1>1, <1>2, <2>1, <2>3 DEF Fits, StagesOf, ResultShape
  <2>5. "delete" \in Stages \ {"adddir"}
    BY DEF Stages
  <2> HIDE DEF j
  <2> QED BY <1>5, <2>1, <2>3, <2>4, <2>5
<1>13. CASE job[c].op = "gets" /\ GetsRow(c) /\ ~Answer(c, "prompt")
  <2> DEFINE m == FirstRow(Rows(c)).md5
             j == [job[c] EXCEPT !.md5 = m]
  <2>1. /\ stage[c] = "find" /\ Rows(c) # {} /\ job' = [job EXCEPT ![c] = j] /\ UNCHANGED session
        /\ stage' = [stage EXCEPT ![c] = "transfer"]
    BY <1>1, <1>13 DEF GetsRow, Goto
  <2>2. m \in Md5s \cup {NoMd5}
    BY <1>2, <2>1, FirstRowIsOne DEF Row
  <2> HIDE DEF m
  <2>3. j \in Job /\ j.op = "gets" /\ j.file = job[c].file
    BY <1>1, <1>13, <2>2 DEF Job
  <2>4. Fits("transfer", j, session[c])
    BY <1>1, <1>2, <2>1, <2>3 DEF Fits, StagesOf, ResultShape
  <2>5. "transfer" \in Stages \ {"adddir"}
    BY DEF Stages
  <2> HIDE DEF j
  <2> QED BY <1>5, <2>1, <2>3, <2>4, <2>5
<1>14. CASE job[c].op = "puts" /\ PutsRow(c) /\ ~Answer(c, "prompt")
  <2>1. /\ stage[c] = "find" /\ UNCHANGED <<job, session>> /\ stage' = [stage EXCEPT ![c] = "transfer"]
    BY <1>1, <1>14 DEF PutsRow, Goto
  <2>2. job' = [job EXCEPT ![c] = job[c]]
    BY <1>1, <2>1
  <2>3. Fits("transfer", job[c], session[c])
    BY <1>1, <1>2, <1>14, <2>1 DEF Fits, StagesOf, ResultShape, JobShape
  <2>4. "transfer" \in Stages \ {"adddir"}
    BY DEF Stages
  <2> QED BY <1>1, <1>5, <2>1, <2>2, <2>3, <2>4
<1>15. CASE /\ Answer(c, "prompt")
            /\ \/ TakeDir(c) \/ TakeLastDir(c, "list") \/ TakeLastDir(c, "find")
               \/ RemoveRow(c) \/ GetsRow(c) \/ PutsRow(c)
  BY <1>4, <1>15 DEF TakeDir, TakeLastDir, RemoveRow, GetsRow, PutsRow
<1>16. /\ job[c].op = "ls" => "list" \in StagesOf(job[c].op)
       /\ job[c].op \in {"remove", "gets", "puts"} => "find" \in StagesOf(job[c].op)
  BY DEF StagesOf
<1> QED BY <1>6, <1>7, <1>8, <1>9, <1>10, <1>11, <1>12, <1>13, <1>14, <1>15, <1>16

\* The steps that fetch nothing: the task has no result then.
LEMMA PlainTyped ==
    ASSUME TypeInv, NEW c \in Conns, NEW s \in Stages \ {"check"}, NEW j \in Job, NEW e \in Session,
           stage' = [stage EXCEPT ![c] = s], job' = [job EXCEPT ![c] = j],
           session' = [session EXCEPT ![c] = e], UNCHANGED <<result, link, sent>>,
           TablesTyped(c), Fits(s, j, e), s = "adddir" <=> lock' = c, ~result[c].open, stage[c] # "check"
    PROVE  TypeInv'
<1>1. result' = [result EXCEPT ![c] = result[c]] /\ link' # c /\ result[c].rows \subseteq Row
  BY Typed DEF ResultShape
<1> QED BY <1>1, Typed, MoveTyped

LEMMA InsertTyped ==
    ASSUME TypeInv, NEW c \in Conns, NEW row \in Row, InsertFile(c, row)
    PROVE  file' \subseteq Row /\ nextId' \in Nat /\ refused' \subseteq Conns
<1>1. file \subseteq Row /\ nextId \in Nat /\ refused \subseteq Conns
  BY DEF TypeInv, TypeOK
<1>2. (file' = file /\ nextId' = nextId) \/ (file' = file \cup {row} /\ nextId' = nextId + 1)
  BY DEF InsertFile
<1>3. refused' = refused \/ refused' = refused \cup {c}
  BY DEF InsertFile, Refuse
<1> QED BY <1>1, <1>2, <1>3

LEMMA PlainStepsTyped ==
    ASSUME TypeInv, NEW c \in Conns,
           \/ AddUser(c) \/ AddHome(c) \/ NotAFile(c) \/ (job[c].op = "remove" /\ DeleteRow(c))
           \/ (job[c].op = "gets" /\ SendFile(c))
           \/ (job[c].op = "puts" /\ (ReceiveFile(c) \/ AddFile(c)))
    PROVE  TypeInv'
<1>1. /\ stage \in [Conns -> Stages] /\ job \in [Conns -> Job] /\ session \in [Conns -> Session]
      /\ JobShape(c) /\ ResultShape(c) /\ job[c] \in Job /\ session[c] \in Session
      /\ user \in [Users -> Codes \cup {NoCode}] /\ nextId \in Nat /\ file \subseteq Row
      /\ refused \subseteq Conns /\ disk \subseteq Md5s
      /\ UNCHANGED <<result, link, sent>>
  BY Typed DEF TypeInv, TypeOK, AddUser, AddHome, NotAFile, DeleteRow, SendFile, ReceiveFile, AddFile
<1>2. stage[c] # "check" /\ ~result[c].open
  BY <1>1 DEF AddUser, AddHome, NotAFile, DeleteRow, SendFile, ReceiveFile, AddFile, ResultShape, AskStages
<1>3. stage[c] \in UserStages => session[c].name \in Users
  BY <1>1 DEF JobShape
<1>4. ASSUME Answer(c, "prompt") \/ (Answer(c, "unanswered") /\ UNCHANGED session),
             TablesTyped(c), lock' # c, NEW e \in Session,
             session' = [session EXCEPT ![c] = e], e.name \in Users
      PROVE  TypeInv'
  <2>1. PICK s \in {"prompt", "unanswered"} : Answer(c, s)
    BY <1>4
  <2>2. Fits(s, NoJob, e) /\ s \in Stages \ {"check"} /\ s # "adddir"
    BY <1>4, AnswerFits
  <2> QED BY <1>1, <1>2, <1>4, <2>1, <2>2, Values, PlainTyped DEF Answer, Goto
<1>5. CASE AddUser(c)
  <2>1. job[c].name \in Users /\ job[c].code \in Codes
    BY <1>1, <1>5, Values DEF AddUser, JobShape, StagesOf, Job, Ops
  <2>2. user' \in [Users -> Codes \cup {NoCode}]
    BY <1>1, <1>5, <2>1 DEF AddUser
  <2>3. refused' \subseteq Conns
    BY <1>1, <1>5 DEF AddUser, Refuse
  <2>4. TablesTyped(c)
    BY <1>1, <1>5, <2>2, <2>3 DEF AddUser, TablesTyped
  <2>5. /\ stage' = [stage EXCEPT ![c] = "adddir"] /\ job' = [job EXCEPT ![c] = job[c]]
        /\ session' = [session EXCEPT ![c] = session[c]] /\ lock' = c
    BY <1>1, <1>5 DEF AddUser, Goto
  <2>6. Fits("adddir", job[c], session[c]) /\ "adddir" \in Stages
    BY <1>1, <1>5 DEF AddUser, Fits, StagesOf, JobShape, UserStages, Stages, Job, Ops
  <2> QED BY <1>1, <1>2, <2>4, <2>5, <2>6, PlainTyped
<1>6. CASE AddHome(c)
  <2>1. job[c].name \in Users /\ lock = c
    BY <1>1, <1>6, Values DEF AddHome, JobShape, StagesOf, Job, Ops
  <2>2. DirRow(nextId, job[c].name, 0) \in Row
    BY <1>1, <2>1, Values DEF DirRow, Row
  <2>3. file' \subseteq Row /\ nextId' \in Nat /\ refused' \subseteq Conns
    BY <1>6, <2>2, InsertTyped DEF AddHome
  <2>4. TablesTyped(c) /\ lock' # c
    BY <1>1, <1>6, <2>1, <2>3, Values DEF AddHome, TablesTyped
  <2> DEFINE e == [name |-> job[c].name, path |-> HomePath(job[c].name)]
  <2>5. e \in Session /\ e.name \in Users
    BY <2>1, EnterType
  <2>6. session' = [session EXCEPT ![c] = e] /\ Answer(c, "prompt")
    BY <1>6 DEF AddHome, Enter
  <2> HIDE DEF e
  <2> QED BY <1>4, <2>4, <2>5, <2>6
\* The others keep the session.
<1>7. ASSUME stage[c] \in UserStages \ {"adddir"}, UNCHANGED <<session, lock>>, TablesTyped(c),
             Answer(c, "prompt") \/ Answer(c, "unanswered")
      PROVE  TypeInv'
  <2>1. session' = [session EXCEPT ![c] = session[c]] /\ lock' # c
    BY <1>1, <1>7 DEF JobShape
  <2> QED BY <1>1, <1>3, <1>4, <1>7, <2>1
<1>8. CASE NotAFile(c) \/ SendFile(c)
  <2>1. stage[c] \in UserStages \ {"adddir"} /\ UNCHANGED <<session, lock, tables, disk, refused>>
    BY <1>8 DEF NotAFile, SendFile, UserStages, Stages
  <2>2. TablesTyped(c)
    BY <1>1, <2>1, TablesStay
  <2>3. Answer(c, "prompt") \/ Answer(c, "unanswered")
    BY <1>8 DEF NotAFile, SendFile
  <2> QED BY <1>7, <2>1, <2>2, <2>3
<1>9. CASE DeleteRow(c)
  <2>1. stage[c] \in UserStages \ {"adddir"} /\ UNCHANGED <<session, lock>>
    BY <1>9 DEF DeleteRow, UserStages, Stages
  <2>2. file' \subseteq Row /\ refused' \subseteq Conns
    BY <1>1, <1>9 DEF DeleteRow, DeleteFile, Refuse
  <2>3. TablesTyped(c)
    BY <1>1, <1>9, <2>2 DEF DeleteRow, TablesTyped
  <2>4. Answer(c, "prompt")
    BY <1>9 DEF DeleteRow
  <2> QED BY <1>7, <2>1, <2>3, <2>4
<1>10. CASE job[c].op = "puts" /\ AddFile(c)
  <2>1. stage[c] \in UserStages \ {"adddir"} /\ UNCHANGED <<session, lock, user, link, disk>>
    BY <1>10 DEF AddFile, UserStages, Stages
  <2> DEFINE row == [dir_id |-> nextId, name |-> session[c].name,
                     file_name |-> job[c].file, md5 |-> job[c].md5,
                     file_type |-> "f", pre_dir_id |-> job[c].dir]
  <2>2. job[c].file \in Entries /\ job[c].md5 \in Md5s /\ job[c].dir \in Nat
    BY <1>1, <1>10 DEF AddFile, Job, JobShape, ResultShape
  <2>3. row \in Row
    BY <1>1, <1>3, <2>1, <2>2 DEF Row
  <2>4. InsertFile(c, row) /\ Answer(c, "prompt")
    BY <1>10 DEF AddFile
  <2> HIDE DEF row
  <2>5. file' \subseteq Row /\ nextId' \in Nat /\ refused' \subseteq Conns
    BY <2>3, <2>4, InsertTyped
  <2>6. TablesTyped(c)
    BY <1>1, <2>1, <2>5 DEF TablesTyped
  <2> QED BY <1>7, <2>1, <2>4, <2>6
<1>11. CASE job[c].op = "puts" /\ ReceiveFile(c)
  <2>1. /\ stage[c] = "transfer" /\ UNCHANGED <<session, lock, tables, refused, job>>
        /\ disk' = disk \cup {job[c].md5} /\ stage' = [stage EXCEPT ![c] = "addfile"]
    BY <1>11 DEF ReceiveFile, Goto
  <2>2. TablesTyped(c)
    BY <1>1, <1>11, <2>1 DEF TablesTyped, tables, JobShape
  <2>3. Fits("addfile", job[c], session[c]) /\ "addfile" \in Stages
    BY <1>1, <1>3, <1>11, <2>1 DEF Fits, StagesOf, JobShape, ResultShape, UserStages, Stages
  <2>4. /\ job' = [job EXCEPT ![c] = job[c]] /\ session' = [session EXCEPT ![c] = session[c]]
        /\ lock' # c
    BY <1>1, <2>1 DEF JobShape
  <2> QED BY <1>1, <1>2, <2>1, <2>2, <2>3, <2>4, PlainTyped
<1> QED BY <1>5, <1>6, <1>8, <1>9, <1>10, <1>11

LEMMA StepTyped == ASSUME TypeInv, [Next]_vars PROVE TypeInv'
<1>1. CASE UNCHANGED vars
  BY <1>1 DEF vars, tables, TypeInv, TypeOK, JobShape, ResultShape
<1>2. ASSUME NEW c \in Conns, DoTask(c) PROVE TypeInv'
  <2>1. TaskStep(c)
    BY <1>2, TaskSteps
  <2> QED BY <2>1, AskTyped, FetchesTyped, PlainStepsTyped DEF TaskStep
<1> QED BY <1>1, <1>2, CommandTyped DEF Next

LEMMA DatabaseTypes == Spec => []TypeInv
<1> QED BY InitTyped, StepTyped, PTL DEF Spec

\* No handler leaves a result pending when it goes on to another statement.
THEOREM NoResultPending == Spec => []ResultsDrained
<1>1. TypeInv => ResultsDrained
  BY DEF TypeInv, ResultShape, ResultsDrained, AskStages
<1> QED BY <1>1, DatabaseTypes, PTL

----------------------------------------------------------------------------
(* TreeRooted, RowHasContent, OnlyOwnerRemoves *)

\* Rows that have the id of r are r.
OnlyRow(r) == r.dir_id < nextId /\ \A q \in file : q.dir_id = r.dir_id => q = r

Tree ==
    /\ DirRow(0, Root, 0) \in file
    /\ \A r \in file : r.pre_dir_id \in DirIds /\ OnlyRow(r)
    /\ \A r \in file : r.file_type = "f" => r.md5 \in disk

\* The directory in which a task works exists.
DirFound(c) == stage[c] \in UserStages => job[c].dir \in DirIds

\* What a SELECT found is still so: a directory is there; a file has its owner,
\* and its content is on the disk.
RowsFound(c) ==
    /\ stage[c] = "walk" /\ result[c].open =>
         result[c].rows \subseteq SubDirs(job[c].dir, Head(job[c].todo))
    /\ stage[c] = "find" /\ result[c].open =>
         \A r \in result[c].rows :
            /\ OnlyRow(r) /\ r.file_type = "f"
            /\ r.name = session[c].name /\ r.md5 \in disk

\* The row that remove will delete, and the content that gets and puts need.
RowChosen(c) ==
    /\ stage[c] = "delete" =>
         /\ job[c].row < nextId
         /\ \A r \in file : r.dir_id = job[c].row =>
              r.file_type = "f" /\ r.name = session[c].name
    /\ stage[c] = "transfer" /\ job[c].op = "gets" => job[c].md5 \in disk
    /\ stage[c] = "addfile" => job[c].md5 \in disk
    /\ stage[c] # "unanswered"

TreeInv ==
    /\ TypeInv /\ Tree
    /\ \A c \in Conns : DirFound(c) /\ RowsFound(c) /\ RowChosen(c)


\* A task changes its own variables only.
OthersSame(c) ==
    \A d \in Conns \ {c} : /\ stage'[d] = stage[d] /\ job'[d] = job[d]
                           /\ result'[d] = result[d] /\ session'[d] = session[d]

\* All steps of c that may change its own variables; the others are CommandTyped's.
LEMMA OwnStep ==
    ASSUME TypeInv, NEW c \in Conns, Menu(c) \/ Command(c) \/ TaskStep(c)
    PROVE  OthersSame(c)
<1> USE Typed DEF OthersSame, Answer, Goto
<1>1. CASE Menu(c)
  BY <1>1 DEF Menu
<1>2. CASE Command(c)
  BY <1>2 DEF Command, DirCommand, FileCommand
<1>3. CASE Asks(c)
  BY <1>3 DEF Asks, CheckUser, AskDir, ListDir, AskFile, Select
<1>4. CASE LoginRow(c)
  BY <1>4 DEF LoginRow, Fetch, FreeResult, Enter
<1>5. CASE RegistRow(c)
  BY <1>5 DEF RegistRow, Fetch, FreeResult
<1>6. CASE AddUser(c)
  BY <1>6 DEF AddUser
<1>7. CASE AddHome(c)
  BY <1>7 DEF AddHome, Enter
<1>8. CASE TakeDir(c)
  BY <1>8 DEF TakeDir, Fetch, FreeResult
<1>9. CASE TakeLastDir(c, "list") \/ TakeLastDir(c, "find")
  BY <1>9 DEF TakeLastDir, Fetch, FreeResult
<1>10. CASE CdRow(c)
  BY <1>10 DEF CdRow, Fetch, FreeResult
<1>11. CASE ListRows(c) \/ RemoveRow(c) \/ GetsRow(c) \/ PutsRow(c)
  BY <1>11 DEF ListRows, RemoveRow, GetsRow, PutsRow, Fetch, FreeResult
<1>12. CASE NotAFile(c) \/ DeleteRow(c) \/ SendFile(c) \/ ReceiveFile(c) \/ AddFile(c)
  BY <1>12 DEF NotAFile, DeleteRow, SendFile, ReceiveFile, AddFile
<1> QED BY <1>1, <1>2, <1>3, <1>4, <1>5, <1>6, <1>7, <1>8, <1>9, <1>10, <1>11, <1>12 DEF TaskStep

\* What every step does to the tables: directories and contents stay, and a new
\* row has a new id.
Grow ==
    /\ Dirs \subseteq Dirs' /\ disk \subseteq disk' /\ nextId <= nextId'
    /\ \A r \in file' \ file : nextId <= r.dir_id

LEMMA OthersFound ==
    ASSUME TreeInv, Grow, TypeInv', NEW d \in Conns,
           stage'[d] = stage[d], job'[d] = job[d], result'[d] = result[d], session'[d] = session[d]
    PROVE  DirFound(d)' /\ RowsFound(d)' /\ RowChosen(d)'
<1>1. DirFound(d)'
  BY DEF TreeInv, DirFound, Grow, DirIds
<1>2. nextId \in Nat /\ nextId' \in Nat /\ file \subseteq Row /\ file' \subseteq Row
  BY DEF TreeInv, TypeInv, TypeOK
<1>3. ASSUME NEW r \in Row, OnlyRow(r) PROVE OnlyRow(r)'
  <2>1. r.dir_id \in Nat /\ r.dir_id < nextId'
    BY <1>2, <1>3 DEF OnlyRow, Grow, Row
  <2>2. ASSUME NEW q \in file', q.dir_id = r.dir_id PROVE q = r
    <3>1. q \in file
      BY <1>2, <1>3, <2>1, <2>2 DEF OnlyRow, Grow, Row
    <3> QED BY <1>3, <2>2, <3>1 DEF OnlyRow
  <2> QED BY <2>1, <2>2 DEF OnlyRow
<1>4. RowsFound(d)'
  <2>1. ASSUME stage[d] = "walk", result[d].open
        PROVE  result[d].rows \subseteq SubDirs(job[d].dir, Head(job[d].todo))'
    BY <2>1 DEF TreeInv, RowsFound, Grow, SubDirs
  <2>2. ASSUME stage[d] = "find", result[d].open, NEW r \in result[d].rows
        PROVE  OnlyRow(r)' /\ r.file_type = "f" /\ r.name = session[d].name /\ r.md5 \in disk'
    <3>1. r \in Row
      BY <2>2 DEF TreeInv, TypeInv, ResultShape
    <3>2. OnlyRow(r) /\ r.file_type = "f" /\ r.name = session[d].name /\ r.md5 \in disk
      BY <2>2 DEF TreeInv, RowsFound
    <3> QED BY <1>3, <3>1, <3>2 DEF Grow
  <2> QED BY <2>1, <2>2 DEF RowsFound, SubDirs
<1>5. RowChosen(d)'
  <2>1. ASSUME stage[d] = "delete"
        PROVE  /\ job[d].row < nextId'
               /\ \A r \in file' : r.dir_id = job[d].row => r.file_type = "f" /\ r.name = session[d].name
    <3>1. job[d].row \in Nat /\ job[d].row < nextId
      BY <2>1 DEF TreeInv, TypeInv, TypeOK, RowChosen, Job
    <3>2. ASSUME NEW r \in file', r.dir_id = job[d].row PROVE r \in file
      BY <1>2, <3>1, <3>2 DEF Grow, Row
    <3> QED BY <1>2, <2>1, <3>1, <3>2 DEF TreeInv, RowChosen, Grow
  <2> QED BY <2>1 DEF TreeInv, RowChosen, Grow
<1> QED BY <1>1, <1>4, <1>5

LEMMA TablesSame ==
    ASSUME Tree, TypeInv, UNCHANGED <<file, nextId, disk>> PROVE Grow /\ Tree'
<1>1. nextId <= nextId
  BY DEF TypeInv, TypeOK
<1> QED BY <1>1 DEF Grow, Tree, Dirs, DirIds, OnlyRow

LEMMA InsertGrows ==
    ASSUME Tree, TypeInv, NEW c \in Conns, NEW row \in Row, InsertFile(c, row), UNCHANGED disk,
           row.dir_id = nextId, row.pre_dir_id \in DirIds, row.file_type = "f" => row.md5 \in disk
    PROVE  Grow /\ Tree'
<1>1. CASE UNCHANGED <<file, nextId>>
  BY <1>1, TablesSame
<1>2. CASE file' = file \cup {row} /\ nextId' = nextId + 1
  <2>1. nextId \in Nat /\ \A r \in file : r.dir_id \in Nat /\ r.dir_id < nextId
    BY DEF TypeInv, TypeOK, Tree, OnlyRow, Row
  <2>2. Grow
    BY <1>2, <2>1 DEF Grow, Dirs
  <2>3. DirIds \subseteq DirIds'
    BY <2>2 DEF Grow, DirIds
  <2>4. ASSUME NEW r \in file' PROVE r.pre_dir_id \in DirIds' /\ OnlyRow(r)'
    <3>1. r.dir_id < nextId'
      BY <1>2, <2>1
    <3>2. \A q \in file' : q.dir_id = r.dir_id => q = r
      BY <1>2, <2>1 DEF Tree, OnlyRow
    <3> QED BY <1>2, <2>3, <3>1, <3>2 DEF Tree, OnlyRow
  <2> QED BY <1>2, <2>2, <2>4 DEF Tree
<1> QED BY <1>1, <1>2 DEF InsertFile

LEMMA TreeStep ==
    ASSUME TreeInv, TypeInv', NEW c \in Conns, Menu(c) \/ Command(c) \/ TaskStep(c)
    PROVE  Grow /\ Tree'
<1>1. Tree /\ TypeInv /\ DirFound(c) /\ RowChosen(c)
  BY DEF TreeInv
<1>2. CASE UNCHANGED <<file, nextId, disk>>
  BY <1>1, <1>2, TablesSame
<1>3. CASE AddHome(c)
  <2>1. job[c].name \in Users
    BY <1>1, <1>3, Typed, Values DEF AddHome, JobShape, StagesOf, Job, Ops
  <2>2. DirRow(nextId, job[c].name, 0) \in Row
    BY <2>1, Typed, Values DEF TreeInv, DirRow, Row
  <2>3. 0 \in DirIds
    BY <1>1 DEF Tree, DirIds, Dirs, DirRow
  <2> QED BY <1>1, <1>3, <2>2, <2>3, InsertGrows DEF AddHome, DirRow
<1>4. CASE AddFile(c) /\ job[c].op = "puts"
  <2> DEFINE row == [dir_id |-> nextId, name |-> session[c].name,
                     file_name |-> job[c].file, md5 |-> job[c].md5,
                     file_type |-> "f", pre_dir_id |-> job[c].dir]
  <2>1. /\ session[c].name \in Users /\ job[c].file \in Entries /\ job[c].md5 \in Md5s
        /\ job[c].dir \in Nat /\ nextId \in Nat
    BY <1>1, <1>4, Typed DEF AddFile, Job, JobShape, ResultShape, UserStages, Stages
  <2>2. row \in Row /\ row.dir_id = nextId /\ row.pre_dir_id = job[c].dir /\ row.md5 = job[c].md5
    BY <2>1 DEF Row
  <2>3. job[c].dir \in DirIds /\ job[c].md5 \in disk
    BY <1>1, <1>4 DEF AddFile, DirFound, RowChosen, UserStages, Stages
  <2>4. InsertFile(c, row) /\ UNCHANGED disk
    BY <1>4 DEF AddFile
  <2> HIDE DEF row
  <2> QED BY <1>1, <2>2, <2>3, <2>4, InsertGrows
<1>5. CASE DeleteRow(c)
  <2>1. /\ UNCHANGED <<nextId, disk>> /\ file' \subseteq file
        /\ \A r \in file \ file' : r.dir_id = job[c].row /\ stage[c] = "delete"
    BY <1>5 DEF DeleteRow, DeleteFile
  <2>2. \A r \in file \ file' : r.file_type = "f"
    BY <1>1, <2>1 DEF RowChosen
  <2>3. Dirs' = Dirs
    BY <2>1, <2>2 DEF Dirs
  <2>4. nextId <= nextId' /\ DirIds' = DirIds
    BY <1>1, <2>1, <2>3 DEF TypeInv, TypeOK, DirIds
  <2>5. Grow
    BY <2>1, <2>3, <2>4 DEF Grow
  <2>6. DirRow(0, Root, 0) \in file'
    BY <1>1, <2>2 DEF Tree, DirRow
  <2> QED BY <1>1, <2>1, <2>4, <2>5, <2>6 DEF Tree, OnlyRow
<1>6. CASE ReceiveFile(c)
  <2>1. disk \subseteq disk' /\ UNCHANGED <<file, nextId>>
    BY <1>6 DEF ReceiveFile, tables
  <2>2. nextId <= nextId'
    BY <1>1, <2>1 DEF TypeInv, TypeOK
  <2> QED BY <1>1, <2>1, <2>2 DEF Grow, Tree, Dirs, DirIds, OnlyRow
<1>7. CASE \/ Menu(c) \/ Command(c) \/ Asks(c) \/ AddUser(c) \/ NotAFile(c) \/ SendFile(c)
  <2>1. UNCHANGED <<file, nextId, disk>>
    BY <1>7 DEF Menu, Command, Asks, CheckUser, AskDir, ListDir, AskFile, Select, AddUser, NotAFile,
                SendFile, tables
  <2> QED BY <1>2, <2>1
<1>8. CASE Fetch(c)
  BY <1>2, <1>8 DEF Fetch, tables
<1>9. CASE \/ LoginRow(c) \/ RegistRow(c) \/ TakeDir(c) \/ TakeLastDir(c, "list")
           \/ TakeLastDir(c, "find") \/ CdRow(c) \/ ListRows(c) \/ RemoveRow(c) \/ GetsRow(c)
           \/ PutsRow(c)
  BY <1>8, <1>9 DEF LoginRow, RegistRow, TakeDir, TakeLastDir, CdRow, ListRows, RemoveRow, GetsRow, PutsRow
<1> QED BY <1>3, <1>4, <1>5, <1>6, <1>7, <1>9 DEF TaskStep


\* No step but a SELECT leaves the task with a result.
LEMMA ClosedAfter ==
    ASSUME TypeInv, NEW c \in Conns, Menu(c) \/ Command(c) \/ TaskStep(c), ~Asks(c)
    PROVE  ~result'[c].open
<1> USE Typed
<1>1. CASE Fetch(c)
  BY <1>1 DEF Fetch, FreeResult, NoResult
<1>2. CASE Menu(c) \/ Command(c)
  BY <1>2 DEF Menu, Command, ResultShape, AskStages
<1>3. CASE AddUser(c) \/ AddHome(c) \/ NotAFile(c) \/ DeleteRow(c) \/ SendFile(c) \/ ReceiveFile(c) \/ AddFile(c)
  BY <1>3 DEF AddUser, AddHome, NotAFile, DeleteRow, SendFile, ReceiveFile, AddFile, ResultShape, AskStages
<1>4. CASE \/ LoginRow(c) \/ RegistRow(c) \/ TakeDir(c) \/ TakeLastDir(c, "list")
           \/ TakeLastDir(c, "find") \/ CdRow(c) \/ ListRows(c) \/ RemoveRow(c) \/ GetsRow(c)
           \/ PutsRow(c)
  BY <1>1, <1>4 DEF LoginRow, RegistRow, TakeDir, TakeLastDir, CdRow, ListRows, RemoveRow, GetsRow, PutsRow
<1> QED BY <1>2, <1>3, <1>4 DEF TaskStep

LEMMA AskFound ==
    ASSUME TreeInv, NEW c \in Conns, Asks(c)
    PROVE  DirFound(c)' /\ RowsFound(c)' /\ RowChosen(c)'
<1>1. /\ UNCHANGED <<tables, disk, session, stage, job>> /\ stage[c] \in AskStages
      /\ TypeInv /\ Tree /\ DirFound(c)
  BY DEF Asks, CheckUser, AskDir, ListDir, AskFile, Select, AskStages, TreeInv
<1>2. DirFound(c)'
  BY <1>1 DEF DirFound, DirIds, Dirs, tables
<1>3. RowChosen(c)'
  BY <1>1 DEF RowChosen, AskStages
<1> SUFFICES RowsFound(c)'
  BY <1>2, <1>3
<1>4. ASSUME NEW rows, Select(c, rows) PROVE result'[c].rows \subseteq rows
  BY <1>1, <1>4, Typed DEF Select
<1>5. CASE stage[c] \in {"check", "list"}
  BY <1>1, <1>5 DEF RowsFound
<1>6. CASE AskDir(c)
  <2>1. result'[c].rows \subseteq SubDirs(job[c].dir, Head(job[c].todo)) /\ stage[c] = "walk"
    BY <1>4, <1>6 DEF AskDir
  <2> QED BY <1>1, <2>1 DEF RowsFound, SubDirs, Dirs, tables
<1>7. CASE AskFile(c)
  <2>1. result'[c].rows \subseteq OwnFiles(c) /\ stage[c] = "find"
    BY <1>4, <1>7 DEF AskFile
  <2>2. ASSUME NEW r \in OwnFiles(c)
        PROVE OnlyRow(r)' /\ r.file_type = "f" /\ r.name = session[c].name /\ r.md5 \in disk
    <3>1. r \in file /\ r \in Row /\ r.file_type # "d" /\ r.name = session[c].name
      BY <1>1, Typed DEF OwnFiles
    <3>2. r.file_type = "f"
      BY <3>1 DEF Row
    <3> QED BY <1>1, <3>1, <3>2 DEF Tree, OnlyRow, tables
  <2> QED BY <1>1, <2>1, <2>2 DEF RowsFound
<1> QED BY <1>5, <1>6, <1>7 DEF Asks, CheckUser, ListDir

LEMMA OwnFound ==
    ASSUME TreeInv, TypeInv', NEW c \in Conns, Menu(c) \/ Command(c) \/ TaskStep(c), ~Asks(c), Grow, Tree'
    PROVE  DirFound(c)' /\ RowsFound(c)' /\ RowChosen(c)'
<1>1. RowsFound(c)'
  BY ClosedAfter DEF RowsFound, TreeInv
<1> SUFFICES DirFound(c)' /\ RowChosen(c)'
  BY <1>1
<1>2. 0 \in DirIds'
  BY DEF Tree, DirIds, Dirs, DirRow
<1>3. /\ stage \in [Conns -> Stages] /\ job \in [Conns -> Job] /\ session \in [Conns -> Session]
      /\ JobShape(c) /\ ResultShape(c) /\ DirFound(c) /\ RowsFound(c) /\ RowChosen(c) /\ TypeInv
  BY Typed DEF TreeInv
\* A task that was answered, or has just begun.
<1>4. ASSUME job'[c].dir = 0, stage'[c] \notin {"delete", "transfer", "addfile", "unanswered"}
      PROVE  DirFound(c)' /\ RowChosen(c)'
  BY <1>2, <1>4 DEF DirFound, RowChosen
<1>5. ASSUME Answer(c, "menu") \/ Answer(c, "prompt") PROVE DirFound(c)' /\ RowChosen(c)'
  BY <1>3, <1>4, <1>5 DEF Answer, Goto, NoJob
\* One that stays in its directory, or goes to one that it found.
<1>6. ASSUME job'[c].dir = job[c].dir, stage[c] \in UserStages PROVE DirFound(c)'
  BY <1>3, <1>6 DEF DirFound, Grow, DirIds
<1>7. ASSUME result[c].open, stage[c] \in AskStages \ {"check"}, Rows(c) # {} PROVE FirstRow(Rows(c)) \in Rows(c)
  BY <1>3, <1>7, FirstRowIsOne DEF ResultShape, Rows
<1>8. CASE Menu(c) \/ Command(c)
  BY <1>3, <1>4, <1>8 DEF Menu, Command, DirCommand, FileCommand, Goto, NoJob
<1>9. CASE LoginRow(c) \/ ListRows(c) \/ CdRow(c) \/ NotAFile(c) \/ DeleteRow(c) \/ AddFile(c) \/ AddHome(c)
  BY <1>5, <1>9 DEF LoginRow, ListRows, CdRow, NotAFile, DeleteRow, AddFile, AddHome
<1>10. CASE RegistRow(c) \/ AddUser(c)
  <2>1. CASE Answer(c, "menu")
    BY <1>5, <2>1
  <2>2. CASE stage'[c] \in {"adduser", "adddir"}
    BY <2>2 DEF DirFound, RowChosen, UserStages
  <2> QED BY <1>3, <1>10, <2>1, <2>2 DEF RegistRow, AddUser, Goto
<1>11. CASE TakeDir(c) \/ TakeLastDir(c, "list") \/ TakeLastDir(c, "find")
  <2>1. CASE Answer(c, "prompt")
    BY <1>5, <2>1
  <2>2. CASE ~Answer(c, "prompt")
    <3>1. /\ stage[c] = "walk" /\ result[c].open /\ Rows(c) # {}
          /\ job'[c].dir = FirstRow(Rows(c)).dir_id /\ stage'[c] \in {"walk", "list", "find"}
      BY <1>3, <1>11, <2>2 DEF TakeDir, TakeLastDir, Fetch, Goto, Job
    <3>2. FirstRow(Rows(c)) \in Dirs
      BY <1>3, <1>7, <3>1 DEF RowsFound, Rows, SubDirs, AskStages
    <3>3. DirFound(c)'
      BY <3>1, <3>2 DEF DirFound, DirIds, Grow
    <3> QED BY <3>1, <3>3 DEF RowChosen
  <2> QED BY <2>1, <2>2
<1>12. CASE RemoveRow(c)
  <2>1. CASE Answer(c, "prompt")
    BY <1>5, <2>1
  <2>2. CASE ~Answer(c, "prompt")
    <3> DEFINE r == FirstRow(Rows(c))
    <3>1. /\ stage[c] = "find" /\ result[c].open /\ Rows(c) # {} /\ UNCHANGED <<session, tables>>
          /\ job'[c].row = r.dir_id /\ job'[c].dir = job[c].dir /\ stage'[c] = "delete"
      BY <1>3, <1>12, <2>2 DEF RemoveRow, Fetch, Goto, Job
    <3>2. OnlyRow(r) /\ r.file_type = "f" /\ r.name = session[c].name
      BY <1>3, <1>7, <3>1 DEF RowsFound, Rows, AskStages
    <3>3. DirFound(c)'
      BY <1>6, <3>1 DEF UserStages, Stages
    <3> HIDE DEF r
    <3>4. RowChosen(c)'
      BY <3>1, <3>2 DEF RowChosen, OnlyRow, tables
    <3> QED BY <3>3, <3>4
  <2> QED BY <2>1, <2>2
<1>13. CASE GetsRow(c)
  <2>1. CASE Answer(c, "prompt")
    BY <1>5, <2>1
  <2>2. CASE ~Answer(c, "prompt")
    <3> DEFINE r == FirstRow(Rows(c))
    <3>1. /\ stage[c] = "find" /\ result[c].open /\ Rows(c) # {}
          /\ job'[c].md5 = r.md5 /\ job'[c].dir = job[c].dir /\ stage'[c] = "transfer"
      BY <1>3, <1>13, <2>2 DEF GetsRow, Fetch, Goto, Job
    <3>2. r.md5 \in disk
      BY <1>3, <1>7, <3>1 DEF RowsFound, Rows, AskStages
    <3>3. DirFound(c)'
      BY <1>6, <3>1 DEF UserStages, Stages
    <3> HIDE DEF r
    <3>4. RowChosen(c)'
      BY <3>1, <3>2 DEF RowChosen, Grow
    <3> QED BY <3>3, <3>4
  <2> QED BY <2>1, <2>2
<1>14. CASE job[c].op = "gets" /\ SendFile(c)
  <2>1. Answer(c, "prompt")
    BY <1>3, <1>14 DEF SendFile, RowChosen
  <2> QED BY <1>5, <2>1
<1>15. CASE job[c].op = "puts" /\ (PutsRow(c) \/ ReceiveFile(c))
  <2>1. CASE Answer(c, "prompt")
    BY <1>5, <2>1
  <2>2. CASE ~Answer(c, "prompt")
    <3>1. /\ job' = job /\ stage[c] \in {"find", "transfer"}
          /\ stage'[c] = "transfer" \/ (stage'[c] = "addfile" /\ job[c].md5 \in disk')
      BY <1>3, <1>15, <2>2 DEF PutsRow, ReceiveFile, Goto
    <3>2. DirFound(c)'
      BY <1>6, <3>1 DEF UserStages, Stages
    <3> QED BY <1>15, <3>1, <3>2 DEF RowChosen
  <2> QED BY <2>1, <2>2
<1> QED BY <1>8, <1>9, <1>10, <1>11, <1>12, <1>13, <1>14, <1>15 DEF TaskStep

LEMMA TreeKept == ASSUME TreeInv, [Next]_vars PROVE TreeInv'
<1>1. TypeInv'
  BY StepTyped DEF TreeInv
<1>2. CASE UNCHANGED vars
  <2>1. Tree'
    BY <1>2, TablesSame DEF vars, tables, TreeInv
  <2>2. \A c \in Conns : DirFound(c)' /\ RowsFound(c)' /\ RowChosen(c)'
    BY <1>2 DEF vars, tables, TreeInv, DirFound, RowsFound, RowChosen, DirIds, Dirs, SubDirs, OnlyRow
  <2> QED BY <1>1, <2>1, <2>2 DEF TreeInv
<1>3. ASSUME NEW c \in Conns, Menu(c) \/ Command(c) \/ TaskStep(c) PROVE TreeInv'
  <2>1. Grow /\ Tree'
    BY <1>1, <1>3, TreeStep
  <2>2. DirFound(c)' /\ RowsFound(c)' /\ RowChosen(c)'
    BY <1>1, <1>3, <2>1, AskFound, OwnFound
  <2>3. \A d \in Conns \ {c} : DirFound(d)' /\ RowsFound(d)' /\ RowChosen(d)'
    BY <1>1, <1>3, <2>1, OwnStep, OthersFound DEF TreeInv, OthersSame
  <2>4. \A d \in Conns : DirFound(d)' /\ RowsFound(d)' /\ RowChosen(d)'
    BY <2>2, <2>3
  <2> QED BY <1>1, <2>1, <2>4 DEF TreeInv
<1> QED BY <1>2, <1>3, TaskSteps DEF Next

LEMMA InitTree == ASSUME Init PROVE TreeInv
<1>1. TypeInv
  BY InitTyped
<1>2. PICK id \in [InitialUsers -> 1 .. Cardinality(InitialUsers)] :
         /\ \A m, n \in InitialUsers : id[m] = id[n] => m = n
         /\ file = {DirRow(0, Root, 0)} \cup InitialHomes(id)
  BY DEF Init
<1>3. \A n \in InitialUsers : id[n] \in Nat /\ 0 < id[n] /\ id[n] < nextId
  BY <1>2, DatabaseConstants, FS_CardinalityType DEF Init
<1>4. 0 < nextId
  BY DatabaseConstants, FS_CardinalityType DEF Init
<1>5. \A r \in file : /\ r.pre_dir_id = 0 /\ r.file_type = "d" /\ r.dir_id < nextId
                      /\ r = DirRow(0, Root, 0) \/ \E n \in InitialUsers : r = DirRow(id[n], n, 0)
  BY <1>2, <1>3, <1>4 DEF InitialHomes, DirRow
<1>6. DirRow(0, Root, 0) \in file /\ 0 \in DirIds
  <2>1. DirRow(0, Root, 0) \in file
    BY <1>2
  <2> QED BY <2>1 DEF DirIds, Dirs, DirRow
<1>7. \A r, q \in file : r.dir_id = q.dir_id => r = q
  <2>1. ASSUME NEW r \in file, NEW n \in InitialUsers, r = DirRow(id[n], n, 0) PROVE r.dir_id = id[n] /\ r.dir_id # 0
    BY <1>3, <2>1 DEF DirRow
  <2> QED BY <1>2, <1>5, <2>1 DEF DirRow
<1>8. Tree
  BY <1>5, <1>6, <1>7 DEF Tree, OnlyRow
<1>9. \A c \in Conns : DirFound(c) /\ RowsFound(c) /\ RowChosen(c)
  BY <1>6 DEF Init, DirFound, RowsFound, RowChosen, NoJob, NoResult
<1> QED BY <1>1, <1>8, <1>9 DEF TreeInv

LEMMA TreeStays == Spec => []TreeInv
<1> QED BY InitTree, TreeKept, PTL DEF Spec

\* FILE is a tree under the root, though handlers use directories that they found
\* in an earlier critical section.
THEOREM FileIsTree == Spec => []TreeRooted
<1>1. TreeInv => TreeRooted
  BY DEF TreeInv, Tree, OnlyRow, DirIds, TreeRooted
<1> QED BY <1>1, TreeStays, PTL

\* Every file that gets can find has a content, so it is answered.
THEOREM GetsIsAnswered == Spec => []RowHasContent
<1>1. TreeInv => RowHasContent
  BY DEF TreeInv, Tree, RowChosen, RowHasContent
<1> QED BY <1>1, TreeStays, PTL

\* What remove deletes is the file of its user that it found, and nothing else
\* deletes.
THEOREM RemovesOwnFiles == Spec => OnlyOwnerRemoves
<1> DEFINE Own == \A r \in file \ file' :
         \E c \in Conns : /\ job[c].op = "remove" /\ job'[c].op = "none"
                          /\ session[c].name = r.name /\ r.file_type = "f"
<1>1. ASSUME TreeInv, TreeInv', Next PROVE Own
  <2>1. PICK c \in Conns : Menu(c) \/ Command(c) \/ TaskStep(c)
    BY <1>1, TaskSteps DEF Next
  <2>2. CASE job[c].op = "remove" /\ DeleteRow(c)
    <3>1. /\ job'[c].op = "none" /\ stage[c] = "delete"
          /\ \A r \in file \ file' : r.dir_id = job[c].row
      BY <1>1, <2>2, Typed DEF TreeInv, DeleteRow, DeleteFile, Answer, NoJob
    <3> QED BY <1>1, <2>2, <3>1 DEF TreeInv, RowChosen
  <2>3. CASE ~(job[c].op = "remove" /\ DeleteRow(c))
    <3>1. CASE AddHome(c) \/ AddFile(c)
      BY <3>1 DEF AddHome, AddFile, InsertFile
    <3>2. CASE \/ Menu(c) \/ Command(c) \/ Asks(c) \/ AddUser(c) \/ NotAFile(c) \/ SendFile(c)
               \/ ReceiveFile(c)
      BY <3>2 DEF Menu, Command, Asks, CheckUser, AskDir, ListDir, AskFile, Select, AddUser, NotAFile,
                  SendFile, ReceiveFile, tables
    <3>3. CASE \/ LoginRow(c) \/ RegistRow(c) \/ TakeDir(c) \/ TakeLastDir(c, "list")
               \/ TakeLastDir(c, "find") \/ CdRow(c) \/ ListRows(c) \/ RemoveRow(c) \/ GetsRow(c)
               \/ PutsRow(c)
      BY <3>3 DEF LoginRow, RegistRow, TakeDir, TakeLastDir, CdRow, ListRows, RemoveRow, GetsRow, PutsRow,
                  Fetch, tables
    <3> QED BY <2>1, <2>3, <3>1, <3>2, <3>3 DEF TaskStep
  <2> QED BY <2>2, <2>3
<1>2. TreeInv /\ TreeInv' /\ [Next]_vars => [Own]_vars
  BY <1>1
<1> QED BY <1>2, TreeStays, PTL DEF Spec, OnlyOwnerRemoves

----------------------------------------------------------------------------
(* EveryUserHasHome *)

HasHome(n) == SubDirs(0, n) # {}

\* While regist is between its INSERTs no result can be pending, unless there
\* was one at the first already, which was then refused.
HomeOrLock ==
    \A n \in Names : user[n] # NoCode =>
        HasHome(n) \/ (lock # Nobody /\ job[lock].name = n /\ link = Nobody)

HomeInv == TreeInv /\ HomeOrLock


\* Apart from the two INSERTs of regist, no step changes USER or the lock, and none
\* takes the link while another task has the lock.
LEMMA LockedOut ==
    ASSUME TypeInv, NEW c \in Conns, Menu(c) \/ Command(c) \/ TaskStep(c), ~AddUser(c), ~AddHome(c)
    PROVE  /\ UNCHANGED <<user, lock>> /\ stage[c] # "adddir"
           /\ link' \in {link, Nobody} \/ lock = Nobody
<1>1. CASE Asks(c)
  BY <1>1 DEF Asks, CheckUser, AskDir, ListDir, AskFile, Select, tables
<1>2. CASE Menu(c) \/ Command(c)
  BY <1>2 DEF Menu, Command, tables
<1>3. CASE NotAFile(c) \/ DeleteRow(c) \/ SendFile(c) \/ ReceiveFile(c) \/ AddFile(c)
  BY <1>3 DEF NotAFile, DeleteRow, SendFile, ReceiveFile, AddFile, tables
<1>4. CASE \/ LoginRow(c) \/ RegistRow(c) \/ TakeDir(c) \/ TakeLastDir(c, "list")
           \/ TakeLastDir(c, "find") \/ CdRow(c) \/ ListRows(c) \/ RemoveRow(c) \/ GetsRow(c)
           \/ PutsRow(c)
  <2>1. Fetch(c) /\ stage[c] # "adddir"
    BY <1>4 DEF LoginRow, RegistRow, TakeDir, TakeLastDir, CdRow, ListRows, RemoveRow, GetsRow, PutsRow
  <2> QED BY <2>1 DEF Fetch, FreeResult, tables
<1> QED BY <1>1, <1>2, <1>3, <1>4 DEF TaskStep

\* Names are registered for good.
UsersGrow == \A n \in Users : user[n] # NoCode => user'[n] # NoCode

LEMMA UsersStay ==
    ASSUME TypeInv, NEW c \in Conns, Menu(c) \/ Command(c) \/ TaskStep(c) PROVE UsersGrow
<1>1. user \in [Users -> Codes \cup {NoCode}] /\ job[c].name \in Users \cup {NoName}
      /\ JobShape(c) /\ job[c].op \in Ops
  BY Typed DEF Job
<1>2. CASE AddUser(c)
  <2>1. job[c].name \in Users /\ job[c].code # NoCode
    BY <1>1, <1>2, Values DEF AddUser, JobShape, StagesOf, Ops
  <2> QED BY <1>1, <1>2, <2>1 DEF AddUser, UsersGrow
<1>3. CASE AddHome(c)
  BY <1>3 DEF AddHome, UsersGrow
<1> QED BY <1>2, <1>3, LockedOut DEF UsersGrow

\* The second INSERT of regist is not refused when the first was not.
LEMMA AddHomeWorks ==
    ASSUME NEW c \in Conns, AddHome(c), NEW n, job[c].name = n, link = Nobody, user[n] # NoCode
    PROVE  HasHome(n)'
<1>1. DirRow(nextId, n, 0) \in file'
  BY DEF AddHome, InsertFile, DirRow
<1> QED BY <1>1 DEF HasHome, SubDirs, Dirs, DirRow

LEMMA HomeStep ==
    ASSUME HomeInv, TypeInv', NEW c \in Conns, Menu(c) \/ Command(c) \/ TaskStep(c), Grow
    PROVE  HomeOrLock'
<1>1. /\ TypeInv /\ HomeOrLock /\ user \in [Users -> Codes \cup {NoCode}] /\ Names \subseteq Users
      /\ JobShape(c) /\ job[c] \in Job /\ lock \in Conns \cup {Nobody}
  BY Typed, Values DEF HomeInv, TreeInv, TypeInv, TypeOK
<1>2. ASSUME NEW n \in Names, HasHome(n) PROVE HasHome(n)'
  BY <1>2 DEF Grow, HasHome, SubDirs
<1>3. CASE AddUser(c)
  <2>1. lock = Nobody /\ lock' = c /\ link' = link /\ job' = job /\ c # Nobody
    BY <1>3, Values DEF AddUser
  <2>2. ASSUME NEW n \in Names, user'[n] # NoCode, user[n] = NoCode PROVE job[c].name = n /\ link = Nobody
    BY <1>1, <1>3, <2>2 DEF AddUser
  <2>3. \A n \in Names : user[n] # NoCode => HasHome(n)
    BY <1>1, <2>1 DEF HomeOrLock
  <2> QED BY <1>2, <2>1, <2>2, <2>3 DEF HomeOrLock
<1>4. CASE AddHome(c)
  <2>1. lock = c /\ user' = user /\ c # Nobody
    BY <1>1, <1>4, Values DEF AddHome, JobShape
  <2>2. ASSUME NEW n \in Names, user[n] # NoCode, ~HasHome(n) PROVE HasHome(n)'
    <3>1. job[c].name = n /\ link = Nobody
      BY <1>1, <2>1, <2>2 DEF HomeOrLock
    <3> QED BY <1>4, <2>2, <3>1, AddHomeWorks
  <2> QED BY <1>2, <2>1, <2>2 DEF HomeOrLock
<1>5. CASE ~AddUser(c) /\ ~AddHome(c)
  <2>1. /\ user' = user /\ lock' = lock /\ stage[c] # "adddir"
        /\ link' \in {link, Nobody} \/ lock = Nobody
    BY <1>1, <1>5, LockedOut
  <2>2. lock # c /\ OthersSame(c)
    BY <1>1, <2>1, OwnStep DEF JobShape
  <2>3. ASSUME lock # Nobody PROVE job'[lock].name = job[lock].name /\ (link = Nobody => link' = Nobody)
    BY <1>1, <2>1, <2>2, <2>3 DEF OthersSame
  <2> QED BY <1>1, <1>2, <2>1, <2>3 DEF HomeOrLock
<1> QED BY <1>3, <1>4, <1>5

LEMMA HomeKept == ASSUME HomeInv, [Next]_vars PROVE HomeInv'
<1>1. TypeInv' /\ TreeInv'
  BY TreeKept DEF HomeInv, TreeInv
<1>2. CASE UNCHANGED vars
  BY <1>1, <1>2 DEF vars, tables, HomeInv, HomeOrLock, HasHome, SubDirs, Dirs
<1>3. ASSUME NEW c \in Conns, Menu(c) \/ Command(c) \/ TaskStep(c) PROVE HomeInv'
  <2>1. Grow
    BY <1>1, <1>3, TreeStep DEF HomeInv
  <2> QED BY <1>1, <1>3, <2>1, HomeStep DEF HomeInv
<1> QED BY <1>2, <1>3, TaskSteps DEF Next

LEMMA InitHome == ASSUME Init PROVE HomeInv
<1>1. TreeInv
  BY InitTree
<1>2. ASSUME NEW n \in Names, user[n] # NoCode PROVE HasHome(n)
  <2>1. n \in InitialUsers
    BY <1>2, Values DEF Init
  <2>2. PICK id \in [InitialUsers -> 1 .. Cardinality(InitialUsers)] :
             file = {DirRow(0, Root, 0)} \cup InitialHomes(id)
    BY DEF Init
  <2>3. DirRow(id[n], n, 0) \in file
    BY <2>1, <2>2 DEF InitialHomes
  <2> QED BY <2>3 DEF HasHome, SubDirs, Dirs, DirRow
<1> QED BY <1>1, <1>2 DEF HomeInv, HomeOrLock

LEMMA HomeStays == Spec => []HomeInv
<1> QED BY InitHome, HomeKept, PTL DEF Spec

\* Whoever can see a user can see its home: regist holds the lock over both INSERTs.
THEOREM UsersHaveHomes == Spec => []EveryUserHasHome
<1>1. HomeInv => EveryUserHasHome
  BY DEF HomeInv, HomeOrLock, HasHome, EveryUserHasHome
<1> QED BY <1>1, HomeStays, PTL

----------------------------------------------------------------------------
(* SessionValid *)

\* The path that cd records was walked up to the directories still to do.
PathWalked(c) ==
    stage[c] = "walk" /\ job[c].op = "cd" =>
        \E k \in 0 .. Len(job[c].path) :
           /\ job[c].todo = SubSeq(job[c].path, k + 1, Len(job[c].path))
           /\ WalkedTo(job[c].path, k, job[c].dir)

\* login found a user, who has a home; regist has added one.
UserFound(c) ==
    /\ stage[c] = "check" /\ result[c].open /\ result[c].rows # {} =>
         user[job[c].name] # NoCode /\ HasHome(job[c].name)
    /\ stage[c] = "adddir" /\ c \notin refused => user[job[c].name] # NoCode

\* SessionValid, for one connection.
SessionGood(c) ==
    c \notin refused /\ session[c].name # NoName =>
        /\ user[session[c].name] # NoCode
        /\ \E id \in DirIds : WalkedTo(session[c].path, Len(session[c].path), id)

SessionInv ==
    HomeInv /\ \A c \in Conns : SessionGood(c) /\ PathWalked(c) /\ UserFound(c)



\* The directories still to do, when the first of them is done.
LEMMA PathTail ==
    ASSUME NEW s \in Seq(Users), NEW k \in 0 .. Len(s), NEW t, t = SubSeq(s, k + 1, Len(s)), Len(t) > 0
    PROVE  /\ k + 1 \in 0 .. Len(s) /\ Head(t) = s[k + 1] /\ Len(t) = Len(s) - k
           /\ Tail(t) = SubSeq(s, (k + 1) + 1, Len(s))
<1>1. Len(s) \in Nat /\ k \in Nat /\ t \in Seq(Users)
  OBVIOUS
<1>2. Len(t) = Len(s) - k
  BY <1>1
<1>3. Head(t) = s[k + 1]
  BY <1>1, <1>2
<1>4. Tail(t) = SubSeq(s, (k + 1) + 1, Len(s))
  BY <1>1, <1>2
<1> QED BY <1>1, <1>2, <1>3, <1>4

\* Directories stay, and with them the paths that lead to them.
LEMMA WalkGrows ==
    ASSUME Grow, NEW path, NEW k \in Nat, NEW id, WalkedTo(path, k, id)
    PROVE  WalkedTo(path, k, id)' /\ (id \in DirIds => id \in DirIds')
<1>1. DirIds \subseteq DirIds' /\ \A i, n : SubDirs(i, n) \subseteq SubDirs(i, n)'
  BY DEF Grow, DirIds, SubDirs
<1>2. PICK at \in [0 .. k -> DirIds] :
        /\ at[0] = 0 /\ at[k] = id
        /\ \A i \in 1 .. k : \E d \in SubDirs(at[i - 1], path[i]) : d.dir_id = at[i]
  BY DEF WalkedTo
<1>3. at \in [0 .. k -> DirIds']
  BY <1>1, <1>2
<1>4. ASSUME NEW i \in 1 .. k PROVE \E d \in SubDirs(at[i - 1], path[i])' : d.dir_id = at[i]
  BY <1>1, <1>2
<1>5. WalkedTo(path, k, id)'
  BY <1>2, <1>3, <1>4 DEF WalkedTo
<1> QED BY <1>1, <1>5

LEMMA WalkBegins == ASSUME Tree', NEW path PROVE WalkedTo(path, 0, 0)'
<1> DEFINE at == [i \in 0 .. 0 |-> 0]
<1>1. at \in [0 .. 0 -> DirIds'] /\ at[0] = 0
  BY DEF Tree, DirIds, Dirs, DirRow
<1> HIDE DEF at
<1>2. \A i \in 1 .. 0 : FALSE
  OBVIOUS
<1> QED BY <1>1, <1>2 DEF WalkedTo

LEMMA WalkStep ==
    ASSUME NEW path, NEW k \in Nat, NEW id, WalkedTo(path, k, id), NEW r \in SubDirs(id, path[k + 1])
    PROVE  WalkedTo(path, k + 1, r.dir_id) /\ r.dir_id \in DirIds
<1>1. PICK at \in [0 .. k -> DirIds] :
        /\ at[0] = 0 /\ at[k] = id
        /\ \A i \in 1 .. k : \E d \in SubDirs(at[i - 1], path[i]) : d.dir_id = at[i]
  BY DEF WalkedTo
<1>2. r.dir_id \in DirIds
  BY DEF SubDirs, DirIds
<1> DEFINE on == [i \in 0 .. k + 1 |-> IF i = k + 1 THEN r.dir_id ELSE at[i]]
<1>3. on \in [0 .. k + 1 -> DirIds]
  BY <1>1, <1>2
<1>4. on[k + 1] = r.dir_id /\ \A i \in 0 .. k : on[i] = at[i]
  OBVIOUS
<1> HIDE DEF on
<1>5. ASSUME NEW i \in 1 .. k + 1 PROVE \E d \in SubDirs(on[i - 1], path[i]) : d.dir_id = on[i]
  <2>1. CASE i = k + 1
    BY <1>1, <1>4, <2>1
  <2>2. CASE i # k + 1
    <3>1. i \in 1 .. k /\ i \in 0 .. k /\ i - 1 \in 0 .. k
      BY <2>2
    <3> QED BY <1>1, <1>4, <3>1
  <2> QED BY <2>1, <2>2
<1>6. on[0] = 0
  BY <1>1, <1>4
<1> QED BY <1>2, <1>3, <1>4, <1>5, <1>6 DEF WalkedTo

\* The path of a home leads to it.
LEMMA HomeWalked ==
    ASSUME Tree', NEW n \in Names, HasHome(n)'
    PROVE  \E id \in DirIds' : WalkedTo(HomePath(n), Len(HomePath(n)), id)'
<1>1. HomePath(n) = <<Root, n>> /\ Len(HomePath(n)) = 2
  BY Values DEF HomePath
<1>2. PICK r \in SubDirs(0, n)' : TRUE
  BY DEF HasHome
<1>3. DirRow(0, Root, 0) \in SubDirs(0, Root)' /\ 0 \in DirIds' /\ r.dir_id \in DirIds'
      /\ DirRow(0, Root, 0).dir_id = 0
  BY <1>2 DEF Tree, SubDirs, Dirs, DirIds, DirRow
<1> DEFINE at == [i \in 0 .. 2 |-> IF i = 2 THEN r.dir_id ELSE 0]
<1>4. at \in [0 .. 2 -> DirIds'] /\ at[0] = 0 /\ at[1] = 0 /\ at[2] = r.dir_id
  BY <1>3
<1> HIDE DEF at
<1>5. ASSUME NEW i \in 1 .. 2
      PROVE \E d \in SubDirs(at[i - 1], <<Root, n>>[i])' : d.dir_id = at[i]
  <2>1. CASE i = 1
    BY <1>3, <1>4, <2>1
  <2>2. CASE i = 2
    BY <1>2, <1>4, <2>2
  <2> QED BY <2>1, <2>2
<1>6. WalkedTo(<<Root, n>>, 2, r.dir_id)'
  BY <1>4, <1>5 DEF WalkedTo
<1> QED BY <1>1, <1>3, <1>6


\* A connection one of whose statements was refused is not forgotten.
LEMMA RefusedGrows ==
    ASSUME NEW c \in Conns, Menu(c) \/ Command(c) \/ TaskStep(c) PROVE refused \subseteq refused'
<1>1. CASE Asks(c)
  BY <1>1 DEF Asks, CheckUser, AskDir, ListDir, AskFile, Select, Refuse
<1>2. CASE Menu(c) \/ Command(c) \/ NotAFile(c) \/ SendFile(c) \/ ReceiveFile(c)
  BY <1>2 DEF Menu, Command, NotAFile, SendFile, ReceiveFile
<1>3. CASE AddUser(c) \/ AddHome(c) \/ DeleteRow(c) \/ AddFile(c)
  BY <1>3 DEF AddUser, AddHome, DeleteRow, AddFile, InsertFile, DeleteFile, Refuse
<1>4. CASE \/ LoginRow(c) \/ RegistRow(c) \/ TakeDir(c) \/ TakeLastDir(c, "list")
           \/ TakeLastDir(c, "find") \/ CdRow(c) \/ ListRows(c) \/ RemoveRow(c) \/ GetsRow(c)
           \/ PutsRow(c)
  <2>1. Fetch(c)
    BY <1>4 DEF LoginRow, RegistRow, TakeDir, TakeLastDir, CdRow, ListRows, RemoveRow, GetsRow, PutsRow
  <2> QED BY <2>1 DEF Fetch
<1> QED BY <1>1, <1>2, <1>3, <1>4 DEF TaskStep

\* What holds of a connection holds after a step that leaves its variables alone.
LEMMA SessionStays ==
    ASSUME SessionInv, Grow, UsersGrow, refused \subseteq refused',
           NEW d \in Conns, session'[d] = session[d]
    PROVE  SessionGood(d)'
<1>1. TypeInv /\ session[d].name \in Users \cup {NoName} /\ Len(session[d].path) \in Nat
  BY Typed DEF SessionInv, HomeInv, TreeInv, Session
<1>2. ASSUME d \notin refused', session[d].name # NoName
      PROVE  /\ user'[session[d].name] # NoCode
             /\ \E id \in DirIds' : WalkedTo(session[d].path, Len(session[d].path), id)'
  <2>1. d \notin refused /\ SessionGood(d)
    BY <1>2 DEF SessionInv
  <2>2. user'[session[d].name] # NoCode
    BY <1>1, <1>2, <2>1 DEF SessionGood, UsersGrow
  <2>3. PICK id \in DirIds : WalkedTo(session[d].path, Len(session[d].path), id)
    BY <1>2, <2>1 DEF SessionGood
  <2>4. WalkedTo(session[d].path, Len(session[d].path), id)' /\ id \in DirIds'
    <3>1. PICK path : path = session[d].path
      OBVIOUS
    <3>2. PICK k \in Nat : k = Len(path)
      BY <1>1, <3>1
    <3>3. WalkedTo(path, k, id)' /\ id \in DirIds'
      BY <2>3, <3>1, <3>2, WalkGrows
    <3>4. path = session'[d].path
      BY <3>1
    <3> QED BY <3>2, <3>3, <3>4
  <2> QED BY <2>2, <2>4
<1> QED BY <1>2 DEF SessionGood

LEMMA PathStays ==
    ASSUME TypeInv, Grow, NEW d \in Conns, PathWalked(d), stage'[d] = stage[d], job'[d] = job[d]
    PROVE  PathWalked(d)'
<1>1. SUFFICES ASSUME stage[d] = "walk", job[d].op = "cd"
               PROVE  \E k \in 0 .. Len(job[d].path) :
                        /\ job[d].todo = SubSeq(job[d].path, k + 1, Len(job[d].path))
                        /\ WalkedTo(job[d].path, k, job[d].dir)'
  BY DEF PathWalked
<1>2. PICK path : path = job[d].path
  OBVIOUS
<1>3. PICK id : id = job[d].dir
  OBVIOUS
<1>4. PICK k \in 0 .. Len(path) : job[d].todo = SubSeq(path, k + 1, Len(path)) /\ WalkedTo(path, k, id)
  BY <1>1, <1>2, <1>3 DEF PathWalked
<1>5. WalkedTo(path, k, id)'
  BY <1>4, WalkGrows
<1> QED BY <1>2, <1>3, <1>4, <1>5

LEMMA UserStays ==
    ASSUME TypeInv, Grow, UsersGrow, refused \subseteq refused', NEW d \in Conns, UserFound(d),
           stage'[d] = stage[d], job'[d] = job[d], result'[d] = result[d]
    PROVE  UserFound(d)'
<1>1. stage[d] \in {"check", "adddir"} => job[d].name \in Users
  BY Typed, Values DEF JobShape, StagesOf, Job, Ops
<1>2. ASSUME NEW n \in Users, HasHome(n) PROVE HasHome(n)'
  BY <1>2 DEF Grow, HasHome, SubDirs
<1>3. ASSUME stage[d] = "check", result[d].open, result[d].rows # {}
      PROVE  user'[job[d].name] # NoCode /\ HasHome(job[d].name)'
  <2>1. PICK n \in Users : n = job[d].name
    BY <1>1, <1>3
  <2>2. user[n] # NoCode /\ HasHome(n)
    BY <1>3, <2>1 DEF UserFound
  <2>3. user'[n] # NoCode /\ HasHome(n)'
    BY <1>2, <2>2 DEF UsersGrow
  <2> QED BY <2>1, <2>3
<1>4. ASSUME stage[d] = "adddir", d \notin refused' PROVE user'[job[d].name] # NoCode
  BY <1>1, <1>4 DEF UserFound, UsersGrow
<1> QED BY <1>3, <1>4 DEF UserFound

\* The walk of cd begins at the root, and each row takes it one directory further.
LEMMA PathStep ==
    ASSUME TreeInv, TypeInv', Tree', Grow, NEW c \in Conns, PathWalked(c),
           Menu(c) \/ Command(c) \/ TaskStep(c)
    PROVE  PathWalked(c)'
<1>1. TypeInv
  BY DEF TreeInv
<1>2. CASE Asks(c)
  <2>1. stage' = stage /\ job' = job
    BY <1>2 DEF Asks, CheckUser, AskDir, ListDir, AskFile, Select
  <2> QED BY <1>1, <2>1, PathStays
<1>3. CASE Command(c)
  <2>1. CASE DirCommand(c)
    <3>1. PICK p : \E o \in DirOptions : p = PathOf(c, o) /\ \E op \in {"cd", "ls"} :
              job' = [job EXCEPT ![c] = [NoJob EXCEPT !.op = op, !.todo = p, !.path = p]]
      BY <2>1 DEF DirCommand
    <3>2. job'[c].todo = p /\ job'[c].path = p /\ job'[c].dir = 0
      BY <1>1, <3>1, Typed DEF NoJob
    <3>3. job'[c] \in Job
      BY DEF TypeInv, TypeOK
    <3>4. p \in Seq(Users)
      BY <3>2, <3>3 DEF Job
    <3>5. p = SubSeq(p, 0 + 1, Len(p)) /\ 0 \in 0 .. Len(p)
      BY <3>4
    <3>6. WalkedTo(p, 0, 0)'
      BY WalkBegins
    <3> QED BY <3>2, <3>5, <3>6 DEF PathWalked
  <2>2. CASE FileCommand(c)
    <3>1. job'[c].op \in {"remove", "gets", "puts"}
      BY <1>1, <2>2, Typed DEF FileCommand, NoJob
    <3> QED BY <3>1 DEF PathWalked
  <2> QED BY <1>3, <2>1, <2>2 DEF Command
<1>4. CASE TakeDir(c)
  <2>1. CASE Rows(c) = {}
    <3>1. stage'[c] = "prompt"
      BY <1>1, <1>4, <2>1, Typed DEF TakeDir, Answer, Goto
    <3> QED BY <3>1 DEF PathWalked
  <2>2. CASE Rows(c) # {} /\ job[c].op = "cd"
    <3>1. PICK r : r = FirstRow(Rows(c))
      OBVIOUS
    <3>2. /\ stage[c] = "walk" /\ result[c].open /\ Len(job[c].todo) > 1
          /\ stage' = stage
          /\ job' = [job EXCEPT ![c].todo = Tail(@), ![c].dir = FirstRow(Rows(c)).dir_id]
      BY <1>4, <2>2 DEF TakeDir, Fetch
    <3>3. /\ job'[c].todo = Tail(job[c].todo) /\ job'[c].dir = r.dir_id
          /\ job'[c].path = job[c].path
      BY <1>1, <3>1, <3>2, Typed DEF Job
    <3>4. r \in SubDirs(job[c].dir, Head(job[c].todo))
      <4>1. Rows(c) \subseteq SubDirs(job[c].dir, Head(job[c].todo)) /\ Rows(c) \subseteq Row
        BY <1>1, <3>2, Typed DEF TreeInv, RowsFound, Rows, ResultShape
      <4> QED BY <2>2, <3>1, <4>1, FirstRowIsOne
    <3>5. PICK path \in Seq(Users) : path = job[c].path
      BY <1>1, Typed DEF Job
    <3>6. PICK id : id = job[c].dir
      OBVIOUS
    <3>7. PICK k \in 0 .. Len(path) : job[c].todo = SubSeq(path, k + 1, Len(path)) /\ WalkedTo(path, k, id)
      BY <2>2, <3>2, <3>5, <3>6 DEF PathWalked
    <3>8. /\ k \in Nat /\ k + 1 \in 0 .. Len(path) /\ k + 1 \in Nat
          /\ Head(job[c].todo) = path[k + 1]
          /\ Tail(job[c].todo) = SubSeq(path, (k + 1) + 1, Len(path))
      <4>1. PICK t : t = job[c].todo
        OBVIOUS
      <4>2. t = SubSeq(path, k + 1, Len(path)) /\ Len(t) > 0
        BY <3>2, <3>7, <4>1
      <4>3. /\ k + 1 \in 0 .. Len(path) /\ Head(t) = path[k + 1]
            /\ Tail(t) = SubSeq(path, (k + 1) + 1, Len(path))
        BY <4>2, PathTail
      <4> QED BY <4>1, <4>3
    <3>9. WalkedTo(path, k + 1, r.dir_id)
      <4>1. r \in SubDirs(id, path[k + 1])
        BY <3>4, <3>6, <3>8
      <4> QED BY <3>7, <3>8, <4>1, WalkStep
    <3>10. PICK to : to = r.dir_id
      OBVIOUS
    <3>11. WalkedTo(path, k + 1, to)'
      BY <3>8, <3>9, <3>10, WalkGrows
    <3> QED BY <3>3, <3>5, <3>8, <3>10, <3>11 DEF PathWalked
  <2>3. CASE Rows(c) # {} /\ job[c].op # "cd"
    <3>1. job' = [job EXCEPT ![c].todo = Tail(@), ![c].dir = FirstRow(Rows(c)).dir_id]
      BY <1>4, <2>3 DEF TakeDir
    <3>2. job'[c].op = job[c].op
      BY <1>1, <3>1, Typed DEF Job
    <3> QED BY <2>3, <3>2 DEF PathWalked
  <2> QED BY <2>1, <2>2, <2>3
<1>5. CASE \/ Menu(c) \/ LoginRow(c) \/ RegistRow(c) \/ AddUser(c) \/ AddHome(c) \/ NotAFile(c)
           \/ TakeLastDir(c, "list") \/ TakeLastDir(c, "find") \/ CdRow(c) \/ ListRows(c)
           \/ RemoveRow(c) \/ DeleteRow(c) \/ GetsRow(c) \/ SendFile(c) \/ PutsRow(c)
           \/ ReceiveFile(c) \/ AddFile(c)
  <2>1. stage'[c] # "walk"
    <3> USE <1>1, Typed DEF Goto, Answer
    <3>1. CASE Menu(c) \/ LoginRow(c) \/ RegistRow(c) \/ AddUser(c) \/ AddHome(c) \/ NotAFile(c)
      BY <3>1 DEF Menu, LoginRow, RegistRow, AddUser, AddHome, NotAFile
    <3>2. CASE TakeLastDir(c, "list") \/ TakeLastDir(c, "find") \/ CdRow(c) \/ ListRows(c)
      BY <3>2 DEF TakeLastDir, CdRow, ListRows
    <3>3. CASE RemoveRow(c) \/ DeleteRow(c) \/ GetsRow(c) \/ SendFile(c) \/ PutsRow(c)
               \/ ReceiveFile(c) \/ AddFile(c)
      BY <3>3 DEF RemoveRow, DeleteRow, GetsRow, SendFile, PutsRow, ReceiveFile, AddFile
    <3> QED BY <1>5, <3>1, <3>2, <3>3
  <2> QED BY <2>1 DEF PathWalked
<1> QED BY <1>2, <1>3, <1>4, <1>5 DEF TaskStep

\* A row that login found is that of a user, whose home is there, for nobody has the
\* lock; and an INSERT that was not refused leaves a user.
LEMMA UserStep ==
    ASSUME HomeInv, TypeInv', Grow, NEW c \in Conns, Menu(c) \/ Command(c) \/ TaskStep(c)
    PROVE  UserFound(c)'
<1>1. TypeInv
  BY DEF HomeInv, TreeInv
<1>2. CASE CheckUser(c)
  <2>1. PICK n \in Names : n = job[c].name
    BY <1>1, <1>2, Typed DEF CheckUser, JobShape, StagesOf, Ops, Job
  <2>2. stage'[c] = "check" /\ job'[c].name = n /\ lock = Nobody /\ UNCHANGED tables
    BY <1>2, <2>1 DEF CheckUser, Select
  <2>3. ASSUME result'[c].rows # {} PROVE user[n] # NoCode /\ HasHome(n)
    <3>1. UserRows(n) # {}
      BY <1>1, <1>2, <2>1, <2>3, Typed DEF CheckUser, Select
    <3>2. user[n] # NoCode
      BY <3>1 DEF UserRows
    <3> QED BY <2>2, <3>2 DEF HomeInv, HomeOrLock
  <2>4. user' = user /\ (HasHome(n) => HasHome(n)')
    BY <2>2 DEF tables, Grow, HasHome, SubDirs
  <2> QED BY <2>2, <2>3, <2>4 DEF UserFound
<1>3. CASE AddUser(c)
  <2>1. stage'[c] = "adddir" /\ job' = job
    BY <1>1, <1>3, Typed DEF AddUser, Goto
  <2>2. ASSUME c \notin refused' PROVE user'[job[c].name] # NoCode
    <3>1. link = Nobody
      BY <1>3, <2>2 DEF AddUser, Refuse
    <3>2. job[c].name \in Users /\ job[c].code # NoCode
      <4>1. JobShape(c) /\ job[c].op \in Ops
        BY <1>1, Typed DEF Job
      <4> QED BY <1>3, <4>1, Values DEF AddUser, JobShape, StagesOf, Ops
    <3> QED BY <1>1, <1>3, <3>1, <3>2, Typed DEF AddUser
  <2> QED BY <2>1, <2>2 DEF UserFound
<1>4. CASE Menu(c)
  <2>1. stage'[c] = "check" /\ ~result'[c].open
    BY <1>1, <1>4, Typed DEF Menu, Goto, ResultShape, AskStages
  <2> QED BY <2>1 DEF UserFound
<1>5. CASE \/ Command(c) \/ AskDir(c) \/ ListDir(c) \/ AskFile(c) \/ LoginRow(c) \/ RegistRow(c)
           \/ AddHome(c) \/ NotAFile(c) \/ TakeDir(c)
           \/ TakeLastDir(c, "list") \/ TakeLastDir(c, "find") \/ CdRow(c) \/ ListRows(c)
           \/ RemoveRow(c) \/ DeleteRow(c) \/ GetsRow(c) \/ SendFile(c) \/ PutsRow(c)
           \/ ReceiveFile(c) \/ AddFile(c)
  <2>1. stage'[c] \notin {"check", "adddir"}
    <3> USE <1>1, Typed DEF Goto, Answer
    <3>1. CASE AskDir(c) \/ ListDir(c) \/ AskFile(c)
      BY <3>1 DEF AskDir, ListDir, AskFile, Select
    <3>2. CASE LoginRow(c) \/ RegistRow(c) \/ AddHome(c) \/ NotAFile(c)
      BY <3>2 DEF LoginRow, RegistRow, AddHome, NotAFile
    <3>3. CASE TakeDir(c) \/ TakeLastDir(c, "list") \/ TakeLastDir(c, "find") \/ CdRow(c) \/ ListRows(c)
      BY <3>3 DEF TakeDir, TakeLastDir, CdRow, ListRows
    <3>4. CASE RemoveRow(c) \/ DeleteRow(c) \/ GetsRow(c) \/ SendFile(c) \/ PutsRow(c)
               \/ ReceiveFile(c) \/ AddFile(c)
      BY <3>4 DEF RemoveRow, DeleteRow, GetsRow, SendFile, PutsRow, ReceiveFile, AddFile
    <3>5. CASE Command(c)
      BY <3>5 DEF Command, DirCommand, FileCommand
    <3> QED BY <1>5, <3>1, <3>2, <3>3, <3>4, <3>5
  <2> QED BY <2>1 DEF UserFound
<1> QED BY <1>2, <1>3, <1>4, <1>5 DEF TaskStep, Asks


\* login and regist enter a home that is there, cd a directory that it walked to.
LEMMA SessionStep ==
    ASSUME SessionInv, TypeInv', Tree', Grow, UsersGrow, refused \subseteq refused', NEW c \in Conns,
           Menu(c) \/ Command(c) \/ TaskStep(c)
    PROVE  SessionGood(c)'
<1>1. TypeInv /\ SessionGood(c) /\ PathWalked(c) /\ UserFound(c)
  BY DEF SessionInv, HomeInv, TreeInv
<1>2. CASE session'[c] = session[c]
  BY <1>2, SessionStays
<1>3. ASSUME NEW n \in Names, session'[c] = [name |-> n, path |-> HomePath(n)],
             user'[n] # NoCode, HasHome(n)'
      PROVE  SessionGood(c)'
  <2>1. PICK path : path = HomePath(n)
    OBVIOUS
  <2>2. \E id \in DirIds' : WalkedTo(path, Len(path), id)'
    BY <1>3, <2>1, HomeWalked
  <2> QED BY <1>3, <2>1, <2>2 DEF SessionGood
<1>4. CASE LoginRow(c)
  <2>1. PICK n \in Names : n = job[c].name
    BY <1>1, <1>4, Typed DEF LoginRow, JobShape
  <2>2. CASE \E r \in Rows(c) : r.code = job[c].code
    <3>1. session'[c] = [name |-> n, path |-> HomePath(n)]
      BY <1>1, <1>4, <2>1, <2>2, Typed DEF LoginRow, Enter
    <3>2. user[n] # NoCode /\ HasHome(n)
      BY <1>1, <1>4, <2>1, <2>2 DEF LoginRow, Fetch, UserFound, Rows
    <3>3. user'[n] # NoCode /\ HasHome(n)'
      BY <3>2, Values DEF UsersGrow, Grow, HasHome, SubDirs
    <3> QED BY <1>3, <3>1, <3>3
  <2>3. CASE ~\E r \in Rows(c) : r.code = job[c].code
    BY <1>2, <1>4, <2>3 DEF LoginRow
  <2> QED BY <2>2, <2>3
<1>5. CASE AddHome(c)
  <2>1. PICK n \in Names : n = job[c].name
    <3>1. JobShape(c) /\ job[c].op \in Ops
      BY <1>1, Typed DEF Job
    <3> QED BY <1>5, <3>1 DEF AddHome, JobShape, StagesOf, Ops
  <2>2. session'[c] = [name |-> n, path |-> HomePath(n)]
    BY <1>1, <1>5, <2>1, Typed DEF AddHome, Enter
  <2>3. CASE c \in refused'
    BY <2>3 DEF SessionGood
  <2>4. CASE c \notin refused'
    <3>1. link = Nobody
      BY <1>5, <2>4 DEF AddHome, InsertFile, Refuse
    <3>2. user[n] # NoCode
      BY <1>1, <1>5, <2>1, <2>4 DEF AddHome, UserFound
    <3>3. HasHome(n)'
      BY <1>5, <2>1, <3>1, <3>2, AddHomeWorks
    <3>4. user'[n] # NoCode
      BY <3>2, Values DEF UsersGrow
    <3> QED BY <1>3, <2>2, <3>3, <3>4
  <2> QED BY <2>3, <2>4
<1>6. CASE job[c].op = "cd" /\ CdRow(c)
  <2>1. /\ stage[c] = "walk" /\ result[c].open /\ Len(job[c].todo) = 1
        /\ session' = IF Rows(c) = {} THEN session ELSE [session EXCEPT ![c].path = job[c].path]
    BY <1>6 DEF CdRow, Fetch
  <2>2. CASE Rows(c) # {}
    <3>1. PICK path \in Seq(Users) : path = job[c].path
      BY <1>1, Typed DEF Job
    <3>2. PICK id : id = job[c].dir
      OBVIOUS
    <3>3. PICK k \in 0 .. Len(path) : job[c].todo = SubSeq(path, k + 1, Len(path)) /\ WalkedTo(path, k, id)
      BY <1>1, <1>6, <2>1, <3>1, <3>2 DEF PathWalked
    <3>4. k \in Nat /\ k + 1 = Len(path) /\ k + 1 \in Nat /\ Head(job[c].todo) = path[k + 1]
      <4>1. PICK t : t = job[c].todo
        OBVIOUS
      <4>2. t = SubSeq(path, k + 1, Len(path)) /\ Len(t) = 1
        BY <2>1, <3>3, <4>1
      <4>3. /\ k + 1 \in 0 .. Len(path) /\ Head(t) = path[k + 1] /\ Len(t) = Len(path) - k
        BY <4>2, PathTail
      <4> QED BY <4>1, <4>2, <4>3
    <3>5. PICK r \in Rows(c) : r \in SubDirs(id, path[k + 1])
      <4>1. Rows(c) \subseteq SubDirs(job[c].dir, Head(job[c].todo))
        BY <2>1 DEF SessionInv, HomeInv, TreeInv, RowsFound, Rows
      <4> QED BY <2>2, <3>2, <3>4, <4>1
    <3>6. PICK to : to = r.dir_id
      OBVIOUS
    <3>7. WalkedTo(path, k + 1, to) /\ to \in DirIds
      BY <3>3, <3>4, <3>5, <3>6, WalkStep
    <3>8. WalkedTo(path, k + 1, to)' /\ to \in DirIds'
      BY <3>4, <3>7, WalkGrows
    <3>9. session'[c].path = path /\ session'[c].name = session[c].name
      BY <1>1, <2>1, <2>2, <3>1, Typed DEF Session
    <3>10. c \notin refused' /\ session[c].name # NoName => user'[session[c].name] # NoCode
      BY <1>1, Typed DEF SessionGood, Session, UsersGrow
    <3> QED BY <3>4, <3>8, <3>9, <3>10 DEF SessionGood
  <2>3. CASE Rows(c) = {}
    BY <1>2, <2>1, <2>3
  <2> QED BY <2>2, <2>3
<1>7. CASE \/ Menu(c) \/ Command(c) \/ Asks(c) \/ RegistRow(c) \/ AddUser(c) \/ NotAFile(c)
           \/ TakeDir(c) \/ TakeLastDir(c, "list") \/ TakeLastDir(c, "find") \/ ListRows(c)
           \/ RemoveRow(c) \/ DeleteRow(c) \/ GetsRow(c) \/ SendFile(c) \/ PutsRow(c)
           \/ ReceiveFile(c) \/ AddFile(c)
  <2>1. session' = session
    <3>1. CASE Menu(c) \/ Command(c) \/ Asks(c) \/ RegistRow(c) \/ AddUser(c) \/ NotAFile(c)
      BY <3>1 DEF Menu, Command, Asks, CheckUser, AskDir, ListDir, AskFile, Select, RegistRow, AddUser,
                  NotAFile
    <3>2. CASE \/ TakeDir(c) \/ TakeLastDir(c, "list") \/ TakeLastDir(c, "find") \/ ListRows(c)
               \/ RemoveRow(c) \/ DeleteRow(c) \/ GetsRow(c)
      BY <3>2 DEF TakeDir, TakeLastDir, ListRows, RemoveRow, DeleteRow, GetsRow
    <3>3. CASE SendFile(c) \/ PutsRow(c) \/ ReceiveFile(c) \/ AddFile(c)
      BY <3>3 DEF SendFile, PutsRow, ReceiveFile, AddFile
    <3> QED BY <1>7, <3>1, <3>2, <3>3
  <2> QED BY <1>2, <2>1
<1> QED BY <1>4, <1>5, <1>6, <1>7 DEF TaskStep

LEMMA SessionKept == ASSUME SessionInv, [Next]_vars PROVE SessionInv'
<1>1. HomeInv' /\ TypeInv' /\ Tree'
  BY HomeKept DEF SessionInv, HomeInv, TreeInv
<1>2. CASE UNCHANGED vars
  <2>1. /\ UNCHANGED <<user, file, session, stage, job, result, refused>>
        /\ TypeInv /\ Tree /\ nextId' = nextId /\ disk' = disk
    BY <1>2 DEF vars, tables, SessionInv, HomeInv, TreeInv
  <2>2. Grow /\ UsersGrow /\ refused \subseteq refused'
    BY <2>1, TablesSame DEF UsersGrow
  <2> QED BY <1>1, <2>1, <2>2, SessionStays, PathStays, UserStays DEF SessionInv
<1>3. ASSUME NEW c \in Conns, Menu(c) \/ Command(c) \/ TaskStep(c) PROVE SessionInv'
  <2>1. TypeInv /\ TreeInv
    BY DEF SessionInv, HomeInv, TreeInv
  <2>2. Grow /\ UsersGrow /\ refused \subseteq refused' /\ OthersSame(c)
    BY <1>1, <1>3, <2>1, TreeStep, UsersStay, RefusedGrows, OwnStep
  <2>3. SessionGood(c)' /\ PathWalked(c)' /\ UserFound(c)'
    BY <1>1, <1>3, <2>1, <2>2, SessionStep, PathStep, UserStep DEF SessionInv
  <2>4. ASSUME NEW d \in Conns \ {c} PROVE SessionGood(d)' /\ PathWalked(d)' /\ UserFound(d)'
    BY <2>1, <2>2, SessionStays, PathStays, UserStays DEF SessionInv, OthersSame
  <2> QED BY <1>1, <2>3, <2>4 DEF SessionInv
<1> QED BY <1>2, <1>3, TaskSteps DEF Next

LEMMA InitSession == ASSUME Init PROVE SessionInv
<1>1. HomeInv
  BY InitHome
<1>2. ASSUME NEW c \in Conns PROVE SessionGood(c) /\ PathWalked(c) /\ UserFound(c)
  BY DEF Init, SessionGood, PathWalked, UserFound
<1> QED BY <1>1, <1>2 DEF SessionInv

\* The directory of a session is one that its path leads to, and its user is registered,
\* unless a statement of its own was refused: the walk of cd may take many steps, between
\* which other tasks add and remove rows, and the rows it has read stay.
THEOREM SessionsAreValid == Spec => []SessionValid
<1>1. SessionInv => SessionValid
  BY DEF SessionInv, SessionGood, SessionValid
<1> QED BY <1>1, InitSession, SessionKept, PTL DEF Spec

============================================================================
