-------------------------- MODULE NetDiskDatabase --------------------------
(***************************************************************************)
(* The commands of the net disk server on its database: login, regist, cd, *)
(* ls, remove, pwd, and the parts of gets and puts that look a file up and *)
(* record it.  All worker threads share one MySQL connection.  Every       *)
(* statement is issued under database_lock, but the rows of a SELECT are   *)
(* fetched after the lock is released, and until they are all fetched or   *)
(* freed the client library refuses every other statement.                 *)
(*                                                                         *)
(* A connection has at most one task (NetDiskServer), so tasks are indexed *)
(* by their connection; every task has a worker.  One step is one critical *)
(* section of database_lock, or the fetch, use and release of a result.    *)
(* The bytes of a transfer are the subject of NetDiskTransfer.             *)
(***************************************************************************)
EXTENDS Naturals, Sequences, FiniteSets

CONSTANTS
    Conns,         \* connections of client programs
    Names,         \* user names
    Root,          \* the name of the root directory and of its user
    Codes,         \* passwords
    Files,         \* names of files
    Md5s,          \* contents of files, by their MD5
    NoName, NoCode, NoMd5, Nobody,
    DirOptions,    \* options of cd and ls: [abs, dirs]
    FileOptions,   \* options of remove, gets and puts: [abs, dirs, file]
    InitialUsers,  \* users of the dump besides Root: they have a home
    InitialCode,   \* their password
    MaxCommands    \* MaxCommands[c] bounds the commands of connection c

Users   == Names \cup {Root}
Entries == Users \cup Files

\* An absolute path has at least the root directory in it.
IsOption(o) == /\ o.abs \in BOOLEAN /\ o.dirs \in Seq(Users)
               /\ o.abs => o.dirs # <<>>

ASSUME DatabaseConstants ==
    /\ Root \notin Names /\ Users \cap Files = {}
    /\ NoName \notin Entries /\ NoCode \notin Codes /\ NoMd5 \notin Md5s
    /\ Nobody \notin Conns
    /\ InitialUsers \subseteq Names /\ IsFiniteSet(InitialUsers)
    /\ InitialCode \in Codes
    /\ MaxCommands \in [Conns -> Nat]
    /\ \A o \in DirOptions : IsOption(o)
    /\ \A o \in FileOptions : IsOption(o) /\ o.file \in Entries \cup {NoName}

VARIABLES
    user,      \* table USER: the code of each name, NoCode when there is no row
    file,      \* table FILE: its rows
    nextId,    \* AUTO_INCREMENT of FILE
    link,      \* the task whose result the MySQL connection is sending
    lock,      \* who holds database_lock between two statements
    disk,      \* the files of USER_FILE_DIR, named after their MD5
    session,   \* client_fd[j].name and .path of each connection
    stage,     \* what each connection is doing
    job,       \* the local variables of its task
    result,    \* the MYSQL_RES of its task
    sent,      \* commands sent (bounds the model)
    refused    \* history: connections one of whose statements was refused

tables == <<user, file, nextId>>
vars == <<tables, link, lock, disk, session, stage, job, result, sent, refused>>

----------------------------------------------------------------------------
(* Rows, jobs and results *)

Row == [dir_id : Nat, name : Users, file_name : Entries, md5 : Md5s \cup {NoMd5},
        file_type : {"d", "f"}, pre_dir_id : Nat]
DirRow(id, name, parent) ==
    [dir_id |-> id, name |-> name, file_name |-> name, md5 |-> NoMd5,
     file_type |-> "d", pre_dir_id |-> parent]

Ops      == {"cd", "ls", "remove", "gets", "puts", "login", "regist", "none"}
Stages   == {"menu", "prompt", "check", "adduser", "adddir", "walk", "list",
             "find", "delete", "transfer", "addfile", "unanswered"}

Job   == [op : Ops, name : Users \cup {NoName}, code : Codes \cup {NoCode},
          todo : Seq(Users), path : Seq(Users), dir : Nat,
          file : Entries \cup {NoName}, md5 : Md5s \cup {NoMd5}, row : Nat]
NoJob == [op |-> "none", name |-> NoName, code |-> NoCode, todo |-> <<>>,
          path |-> <<>>, dir |-> 0, file |-> NoName, md5 |-> NoMd5, row |-> 0]

NoResult == [open |-> FALSE, rows |-> {}]

Dirs == {r \in file : r.file_type = "d"}

\* mysql_fetch_row: rows come in the order of the primary key.
FirstRow(rows) == CHOOSE r \in rows : \A q \in rows : r.dir_id <= q.dir_id

HomePath(n) == IF n = Root THEN <<Root>> ELSE <<Root, n>>

----------------------------------------------------------------------------
(* The dump net_disk_project.sql: the root directory contains itself and    *)
(* every home directory.                                                   *)

InitialHomes(id) == {DirRow(id[n], n, 0) : n \in InitialUsers}

Init ==
    /\ user = [n \in Users |-> IF n \in InitialUsers \cup {Root} THEN InitialCode
                                                                 ELSE NoCode]
    /\ \E id \in [InitialUsers -> 1 .. Cardinality(InitialUsers)] :
         /\ \A m, n \in InitialUsers : id[m] = id[n] => m = n
         /\ file = {DirRow(0, Root, 0)} \cup InitialHomes(id)
    /\ nextId = Cardinality(InitialUsers) + 1
    /\ link = Nobody /\ lock = Nobody
    /\ disk = {}
    /\ session = [c \in Conns |-> [name |-> NoName, path |-> <<>>]]
    /\ stage = [c \in Conns |-> "menu"]
    /\ job = [c \in Conns |-> NoJob]
    /\ result = [c \in Conns |-> NoResult]
    /\ sent = [c \in Conns |-> 0]
    /\ refused = {}

----------------------------------------------------------------------------
(* database_api.c on the shared connection *)

Goto(c, s) == stage' = [stage EXCEPT ![c] = s]

\* The task ends and its client gets an answer: it goes back to its menu or
\* its prompt.
Answer(c, s) == Goto(c, s) /\ job' = [job EXCEPT ![c] = NoJob]

\* The library refuses a statement while the rows of a result are pending.
Refuse(c) == refused' = IF link = Nobody THEN refused ELSE refused \cup {c}

\* lock, database_select, mysql_use_result, unlock.  A refused query has a
\* NULL result, which looks like one without rows.
Select(c, rows) ==
    /\ ~result[c].open /\ lock = Nobody
    /\ result' = [result EXCEPT ![c] =
                    [open |-> TRUE, rows |-> IF link = Nobody THEN rows ELSE {}]]
    /\ link' = IF link = Nobody THEN c ELSE link
    /\ Refuse(c)
    /\ UNCHANGED <<tables, lock, disk, session, stage, job, sent>>

\* Mutant: the result is not freed when there was a row.
FreeResultEmpty(c) ==
    /\ result' = [result EXCEPT ![c] = NoResult]
    /\ link' = IF link = c /\ result[c].rows = {} THEN Nobody ELSE link

\* mysql_free_result, or the end of the rows: the connection is free again.
FreeResult(c) ==
    /\ result' = [result EXCEPT ![c] = NoResult]
    /\ link' = IF link = c THEN Nobody ELSE link

\* mysql_fetch_row outside the lock, and what is done before the result is
\* freed: the part common to all handlers.
Fetch(c) ==
    /\ result[c].open
    /\ FreeResult(c)
    /\ UNCHANGED <<tables, lock, disk, sent, refused>>

Rows(c) == result[c].rows

\* database_add into FILE: refused, or a violated foreign key, or a new row.
\* The caller does not look at what database_add returns.
InsertFile(c, row) ==
    /\ IF link = Nobody /\ user[row.name] # NoCode
         THEN file' = file \cup {row} /\ nextId' = nextId + 1
         ELSE UNCHANGED <<file, nextId>>
    /\ Refuse(c)

\* database_delete from FILE.
DeleteFile(c, id) ==
    /\ file' = IF link = Nobody THEN {r \in file : r.dir_id # id} ELSE file
    /\ Refuse(c)

----------------------------------------------------------------------------
(* login and regist *)

\* user_login of the client: a name and a password.
Menu(c) ==
    /\ stage[c] = "menu" /\ sent[c] < MaxCommands[c]
    /\ sent' = [sent EXCEPT ![c] = @ + 1]
    /\ Goto(c, "check")
    /\ \E op \in {"login", "regist"} : \E n \in Names : \E k \in Codes :
         job' = [job EXCEPT ![c] = [NoJob EXCEPT !.op = op, !.name = n, !.code = k]]
    /\ UNCHANGED <<tables, link, lock, disk, session, result, refused>>

\* What the SELECT on USER finds: the row of the name, if there is one.
UserRows(n) == IF user[n] = NoCode THEN {} ELSE {[name |-> n, code |-> user[n]]}

CheckUser(c) == stage[c] = "check" /\ Select(c, UserRows(job[c].name))

\* The slot of the connection is given the name and the home of the user.
Enter(c, n) == session' = [session EXCEPT ![c] = [name |-> n, path |-> HomePath(n)]]

\* do_task_login after its query: the password is compared.
LoginRow(c) ==
    /\ stage[c] = "check" /\ job[c].op = "login"
    /\ Fetch(c)
    /\ IF \E r \in Rows(c) : r.code = job[c].code
         THEN Enter(c, job[c].name) /\ Answer(c, "prompt")
         ELSE Answer(c, "menu") /\ UNCHANGED session

DoTaskLogin(c) == (job[c].op = "login" /\ CheckUser(c)) \/ LoginRow(c)

\* do_task_regist after its query: no row means that the name is free.
RegistRow(c) ==
    /\ stage[c] = "check" /\ job[c].op = "regist"
    /\ Fetch(c)
    /\ IF Rows(c) = {} THEN Goto(c, "adduser") /\ UNCHANGED job
                       ELSE Answer(c, "menu")
    /\ UNCHANGED session

\* Mutant: database_lock is released between the two INSERTs.
AddUserUnlocked(c) ==
    /\ stage[c] = "adduser" /\ lock = Nobody
    /\ user' = IF link = Nobody /\ user[job[c].name] = NoCode
                 THEN [user EXCEPT ![job[c].name] = job[c].code] ELSE user
    /\ Refuse(c)
    /\ Goto(c, "adddir")
    /\ UNCHANGED <<file, nextId, link, lock, disk, session, job, result, sent>>

\* lock, INSERT INTO USER: refused, or a duplicate key, or a new row.
AddUser(c) ==
    /\ stage[c] = "adduser" /\ lock = Nobody
    /\ lock' = c
    /\ user' = IF link = Nobody /\ user[job[c].name] = NoCode
                 THEN [user EXCEPT ![job[c].name] = job[c].code] ELSE user
    /\ Refuse(c)
    /\ Goto(c, "adddir")
    /\ UNCHANGED <<file, nextId, link, disk, session, job, result, sent>>

\* Mutant: the lock is kept.
AddHomeLocked(c) ==
    /\ stage[c] = "adddir"
    /\ InsertFile(c, DirRow(nextId, job[c].name, 0))
    /\ Enter(c, job[c].name)
    /\ Answer(c, "prompt")
    /\ UNCHANGED <<user, link, lock, disk, result, sent>>

\* INSERT INTO FILE of the home directory, unlock, and "success".
AddHome(c) ==
    /\ stage[c] = "adddir"
    /\ InsertFile(c, DirRow(nextId, job[c].name, 0))
    /\ lock' = Nobody
    /\ Enter(c, job[c].name)
    /\ Answer(c, "prompt")
    /\ UNCHANGED <<user, link, disk, result, sent>>

DoTaskRegist(c) ==
    \/ job[c].op = "regist" /\ CheckUser(c)
    \/ RegistRow(c) \/ AddUser(c) \/ AddHome(c)

----------------------------------------------------------------------------
(* The walk over the directories of a path *)

\* An option is taken from the current directory or from the root.
PathOf(c, o) == IF o.abs THEN o.dirs ELSE session[c].path \o o.dirs

\* The commands a user types, and where the handler of each begins: cd and ls
\* resolve a whole path, the others its directories.
DirCommand(c) ==
    \E op \in {"cd", "ls"} : \E o \in DirOptions :
       /\ Goto(c, "walk")
       /\ job' = [job EXCEPT ![c] = [NoJob EXCEPT !.op = op, !.todo = PathOf(c, o),
                                                  !.path = PathOf(c, o)]]

FileCommand(c) ==
    \E op \in {"remove", "gets", "puts"} : \E o \in FileOptions :
    \E m \in IF op = "puts" THEN Md5s ELSE {NoMd5} :
       /\ Goto(c, "walk")
       /\ job' = [job EXCEPT ![c] = [NoJob EXCEPT !.op = op, !.todo = PathOf(c, o),
                                                  !.file = o.file, !.md5 = m]]

\* do_user_task of the client.  pwd is left out: it copies session[c].path into
\* its answer and changes nothing.
Command(c) ==
    /\ stage[c] = "prompt" /\ sent[c] < MaxCommands[c]
    /\ sent' = [sent EXCEPT ![c] = @ + 1]
    /\ DirCommand(c) \/ FileCommand(c)
    /\ UNCHANGED <<tables, link, lock, disk, session, result, refused>>

SubDirs(id, n) == {r \in Dirs : r.file_name = n /\ r.pre_dir_id = id}

AskDir(c) ==
    /\ stage[c] = "walk"
    /\ Select(c, SubDirs(job[c].dir, Head(job[c].todo)))

\* The row of a directory that is not the last one: the loop goes on in it.
TakeDir(c) ==
    /\ stage[c] = "walk" /\ Len(job[c].todo) > 1
    /\ Fetch(c)
    /\ IF Rows(c) = {} THEN Answer(c, "prompt")
       ELSE /\ job' = [job EXCEPT ![c].todo = Tail(@),
                                  ![c].dir = FirstRow(Rows(c)).dir_id]
            /\ UNCHANGED stage
    /\ UNCHANGED session

\* The row of the last directory.  next is where the handler goes on.
TakeLastDir(c, next) ==
    /\ stage[c] = "walk" /\ Len(job[c].todo) = 1
    /\ Fetch(c)
    /\ IF Rows(c) = {} THEN Answer(c, "prompt")
       ELSE /\ job' = [job EXCEPT ![c].todo = <<>>,
                                  ![c].dir = FirstRow(Rows(c)).dir_id]
            /\ Goto(c, next)
    /\ UNCHANGED session

Walk(c) == AskDir(c) \/ TakeDir(c)

----------------------------------------------------------------------------
(* cd, ls *)

\* Mutant: the path is recorded before it is known to be valid.
CdRowAny(c) ==
    /\ stage[c] = "walk" /\ Len(job[c].todo) = 1
    /\ Fetch(c)
    /\ session' = [session EXCEPT ![c].path = job[c].path]
    /\ Answer(c, "prompt")

\* cd ends with the row of the last directory, and records the path.
CdRow(c) ==
    /\ stage[c] = "walk" /\ Len(job[c].todo) = 1
    /\ Fetch(c)
    /\ session' = IF Rows(c) = {} THEN session
                  ELSE [session EXCEPT ![c].path = job[c].path]
    /\ Answer(c, "prompt")

DoTaskCd(c) == job[c].op = "cd" /\ (Walk(c) \/ CdRow(c))

\* ls asks for the rows of the directory, and fetches them all.
ListDir(c) ==
    /\ stage[c] = "list"
    /\ Select(c, {r \in file : r.pre_dir_id = job[c].dir})

ListRows(c) ==
    /\ stage[c] = "list"
    /\ Fetch(c)
    /\ Answer(c, "prompt")
    /\ UNCHANGED session

DoTaskLs(c) ==
    job[c].op = "ls" /\ (Walk(c) \/ TakeLastDir(c, "list") \/ ListDir(c) \/ ListRows(c))

----------------------------------------------------------------------------
(* remove, gets, puts *)

\* A path that ends in a slash names no file: the task is answered at once.
NotAFile(c) ==
    /\ stage[c] = "find" /\ job[c].file = NoName
    /\ Answer(c, "prompt")
    /\ UNCHANGED <<tables, link, lock, disk, session, result, sent, refused>>

\* Mutant: directories can be found, too.
OwnFilesAny(c) ==
    {r \in file : /\ r.name = session[c].name /\ r.file_name = job[c].file
                  /\ r.pre_dir_id = job[c].dir}

\* Mutant: files of every user can be found.
OwnFilesOfAll(c) ==
    {r \in file : /\ r.file_name = job[c].file
                  /\ r.pre_dir_id = job[c].dir /\ r.file_type # "d"}

\* The rows that remove, gets and puts look for: files of the session's user.
OwnFiles(c) ==
    {r \in file : /\ r.name = session[c].name /\ r.file_name = job[c].file
                  /\ r.pre_dir_id = job[c].dir /\ r.file_type # "d"}

AskFile(c) ==
    /\ stage[c] = "find" /\ job[c].file # NoName
    /\ Select(c, OwnFiles(c))

\* remove: the row's dir_id is kept for the DELETE.
RemoveRow(c) ==
    /\ stage[c] = "find"
    /\ Fetch(c)
    /\ IF Rows(c) = {} THEN Answer(c, "prompt")
       ELSE /\ job' = [job EXCEPT ![c].row = FirstRow(Rows(c)).dir_id]
            /\ Goto(c, "delete")
    /\ UNCHANGED session

\* lock, DELETE, unlock; "remove success" whatever became of it.
DeleteRow(c) ==
    /\ stage[c] = "delete" /\ lock = Nobody
    /\ DeleteFile(c, job[c].row)
    /\ Answer(c, "prompt")
    /\ UNCHANGED <<user, nextId, link, lock, disk, session, result, sent>>

FindFile(c) == TakeLastDir(c, "find") \/ NotAFile(c) \/ AskFile(c)

DoTaskRemove(c) ==
    job[c].op = "remove" /\ (Walk(c) \/ FindFile(c) \/ RemoveRow(c) \/ DeleteRow(c))

\* gets: the row's MD5 names the file to send.
GetsRow(c) ==
    /\ stage[c] = "find"
    /\ Fetch(c)
    /\ IF Rows(c) = {} THEN Answer(c, "prompt")
       ELSE /\ job' = [job EXCEPT ![c].md5 = FirstRow(Rows(c)).md5]
            /\ Goto(c, "transfer")
    /\ UNCHANGED session

\* send_file.  When the file cannot be opened nothing is sent, and the client
\* waits for ever.
SendFile(c) ==
    /\ stage[c] = "transfer"
    /\ Answer(c, IF job[c].md5 \in disk THEN "prompt" ELSE "unanswered")
    /\ UNCHANGED <<tables, link, lock, disk, session, result, sent, refused>>

DoTaskGets(c) ==
    job[c].op = "gets" /\ (Walk(c) \/ FindFile(c) \/ GetsRow(c) \/ SendFile(c))

\* Mutant: the file is recorded without a transfer.
PutsRowAtOnce(c) ==
    /\ stage[c] = "find"
    /\ Fetch(c)
    /\ IF Rows(c) = {} THEN Goto(c, "addfile") /\ UNCHANGED job
                       ELSE Answer(c, "prompt")
    /\ UNCHANGED session

\* puts: no row means that the user has no such file.
PutsRow(c) ==
    /\ stage[c] = "find"
    /\ Fetch(c)
    /\ IF Rows(c) = {} THEN Goto(c, "transfer") /\ UNCHANGED job
                       ELSE Answer(c, "prompt")
    /\ UNCHANGED session

\* recv_file: open creates the file, whatever becomes of the transfer.
ReceiveFile(c) ==
    /\ stage[c] = "transfer"
    /\ disk' = disk \cup {job[c].md5}
    /\ Goto(c, "addfile")
    /\ UNCHANGED <<tables, link, lock, session, job, result, sent, refused>>

\* lock, INSERT INTO FILE, unlock.
AddFile(c) ==
    /\ stage[c] = "addfile" /\ lock = Nobody
    /\ InsertFile(c, [dir_id |-> nextId, name |-> session[c].name,
                      file_name |-> job[c].file, md5 |-> job[c].md5,
                      file_type |-> "f", pre_dir_id |-> job[c].dir])
    /\ Answer(c, "prompt")
    /\ UNCHANGED <<user, link, lock, disk, session, result, sent>>

DoTaskPuts(c) ==
    job[c].op = "puts" /\ (Walk(c) \/ FindFile(c) \/ PutsRow(c) \/ ReceiveFile(c) \/ AddFile(c))

----------------------------------------------------------------------------
DoTask(c) ==
    \/ DoTaskLogin(c) \/ DoTaskRegist(c) \/ DoTaskCd(c) \/ DoTaskLs(c)
    \/ DoTaskRemove(c) \/ DoTaskGets(c) \/ DoTaskPuts(c)

Next == \E c \in Conns : Menu(c) \/ Command(c) \/ DoTask(c)

Spec == Init /\ [][Next]_vars

\* Worker threads keep running; users need not type anything.
FairSpec == Spec /\ \A c \in Conns : WF_vars(DoTask(c))

----------------------------------------------------------------------------
(* Properties *)

\* Type invariant of the tables, the MySQL connection and the tasks: a task
\* lasts from the command to its answer, and only regist keeps database_lock
\* from one step to the next.
TypeOK ==
    /\ user \in [Users -> Codes \cup {NoCode}]
    /\ file \subseteq Row /\ nextId \in Nat
    /\ link \in Conns \cup {Nobody} /\ lock \in Conns \cup {Nobody}
    /\ disk \subseteq Md5s
    /\ session \in [Conns -> [name : Users \cup {NoName}, path : Seq(Users)]]
    /\ stage \in [Conns -> Stages]
    /\ job \in [Conns -> Job]
    /\ \A c \in Conns : /\ job[c].op = "none" <=> stage[c] \in {"menu", "prompt", "unanswered"}
                       /\ stage[c] = "adddir" <=> lock = c
    /\ \A c \in Conns : result[c].open \in BOOLEAN
    /\ sent \in [Conns -> Nat]
    /\ refused \subseteq Conns

\* Every path through every handler drains or frees its result before it issues
\* its next statement or answers: no result stays pending on the shared
\* connection, which would have the server refuse all statements for ever.
\* And the state has its type.
ResultsDrained ==
    TypeOK /\ \A c \in Conns : link = c =>
        result[c].open /\ stage[c] \in {"check", "walk", "list", "find"}

\* FILE is a tree: every row lies in a directory that exists, and stays so
\* although rows are removed while other tasks are between a SELECT that
\* found their directory and the INSERT into it.
TreeRooted ==
    /\ \A r \in file : \E d \in Dirs : d.dir_id = r.pre_dir_id
    /\ \A r, q \in file : r.dir_id = q.dir_id => r = q

\* A user has a home as soon as another task can see the user: regist keeps
\* the lock over its two INSERTs, and the second cannot be refused when the
\* first was not.
EveryUserHasHome ==
    \A n \in Names : user[n] # NoCode =>
        \/ SubDirs(0, n) # {}
        \/ lock # Nobody /\ job[lock].name = n

\* The first k names of a path lead from the root to the directory id.
DirIds == {d.dir_id : d \in Dirs}
WalkedTo(path, k, id) ==
    \E at \in [0 .. k -> DirIds] :
        /\ at[0] = 0 /\ at[k] = id
        /\ \A i \in 1 .. k : \E d \in SubDirs(at[i - 1], path[i]) : d.dir_id = at[i]

\* The directory of a session exists and its user is registered, unless one of
\* the statements of its own tasks was refused.
SessionValid ==
    \A c \in Conns \ refused : session[c].name # NoName =>
        /\ user[session[c].name] # NoCode
        /\ \E id \in DirIds : WalkedTo(session[c].path, Len(session[c].path), id)

\* A row in FILE names a file that exists in USER_FILE_DIR: otherwise gets
\* answers nothing and its client waits for ever.
RowHasContent ==
    /\ \A r \in file : r.file_type = "f" => r.md5 \in disk
    /\ \A c \in Conns : stage[c] # "unanswered"

\* A row of FILE disappears only through remove, and only by its owner, though
\* the row was looked up in an earlier critical section than the DELETE.
OnlyOwnerRemoves ==
    [][\A r \in file \ file' :
         \E c \in Conns : /\ job[c].op = "remove" /\ job'[c].op = "none"
                          /\ session[c].name = r.name /\ r.file_type = "f"]_vars

\* Every command is answered.
CommandAnswered ==
    \A c \in Conns : stage[c] \notin {"menu", "prompt"} ~> stage[c] \in {"menu", "prompt"}

\* A name belongs to the client that registered it: whoever is told "success"
\* has its own password in USER, even if none of its statements was refused.
RegisteredOnce ==
    \A c \in Conns \ refused :
        stage[c] = "adddir" => user[job[c].name] = job[c].code
============================================================================
