------------------------------- MODULE ServerConn -------------------------------
(***************************************************************************)
(* The one SQLite connection of the API server (db.connect, api.lifespan), *)
(* shared by the threads its requests run in: the lazy pass of             *)
(* _transition_staged, the reads of the route, and the INSERT of the       *)
(* request_logger middleware; and the CLI processes that write.            *)
(*                                                                         *)
(* Python's sqlite3 sends BEGIN before an INSERT or UPDATE when no         *)
(* transaction is open, and COMMIT in commit() when one is.  The test and  *)
(* the statement are two steps, and SQLite makes only statements exclusive *)
(* on a connection: other threads come in between.  BEGIN is deferred: the *)
(* first SELECT inside the transaction fixes the snapshot it reads, the    *)
(* first write takes the database's write lock, and needs the snapshot to  *)
(* be the latest.  An error leaves the transaction open, and the API       *)
(* swallows the errors of these writes without a rollback.                 *)
(***************************************************************************)
CONSTANTS
    Threads,    \* threads of the server's pool
    Writers,    \* CLI processes
    Free, Server

ASSUME ConnAssumption ==
    Free # Server /\ {Free, Server} \cap Writers = {}

VARIABLES
    lock,    \* the holder of the database's write lock
    inTx,    \* the server's connection has a transaction open
    snap,    \* the snapshot its transaction reads: none yet, the latest, or an older one
    pc,      \* pc[t]: the next step of the request in thread t
    work,    \* work[t]: what t writes: the rows of the lazy pass, or its log row
    logged,  \* logged[t]: the log row of t's request: none, in the open transaction, or kept
    calm     \* history: no two requests have overlapped, and no write met a lock

connVars == <<lock, inTx, snap, pc, work, logged, calm>>

ConnTypeOK ==
    /\ lock \in {Free, Server} \cup Writers
    /\ inTx \in BOOLEAN
    /\ snap \in {"none", "latest", "old"}
    /\ pc \in [Threads -> {"idle", "scan", "read", "test", "begin", "write",
                           "test_commit", "commit", "ended"}]
    /\ work \in [Threads -> {"pass", "log"}]
    /\ logged \in [Threads -> {"none", "open", "kept"}]
    /\ calm \in BOOLEAN

ConnInit ==
    /\ lock = Free
    /\ inTx = FALSE
    /\ snap = "none"
    /\ pc = [t \in Threads |-> "idle"]
    /\ work = [t \in Threads |-> "pass"]
    /\ logged = [t \in Threads |-> "none"]
    /\ calm = TRUE

-------------------------------------------------------------------------------
Goto(t, label) == pc' = [pc EXCEPT ![t] = label]

\* A write is over, or failed: the API goes on in both cases.
Over(t) == Goto(t, IF work[t] = "pass" THEN "read" ELSE "ended")

\* A SELECT: inside a transaction it reads that transaction's snapshot.
Pinned == IF inTx /\ snap = "none" THEN "latest" ELSE snap

\* A request comes, to a route that begins with the lazy pass or to another.
Arrive(t) ==
    /\ pc[t] = "idle"
    /\ \E label \in {"scan", "read"} : Goto(t, label)
    /\ work' = [work EXCEPT ![t] = IF pc'[t] = "scan" THEN "pass" ELSE "log"]
    /\ logged' = [logged EXCEPT ![t] = "none"]
    /\ calm' = (calm /\ \A o \in Threads : pc[o] = "idle")
    /\ UNCHANGED <<lock, inTx, snap>>

\* transition_staged_to_published: some packages are due, or none is.
ScanInTx(t) ==                                   \* mutant: the pass opens a transaction
    /\ pc[t] = "scan"
    /\ inTx' = TRUE /\ snap' = "latest"
    /\ Goto(t, "read")
    /\ UNCHANGED <<lock, work, logged, calm>>
Scan(t) ==
    /\ pc[t] = "scan"
    /\ snap' = Pinned
    /\ \E label \in {"test", "read"} : Goto(t, label)
    /\ UNCHANGED <<lock, inTx, work, logged, calm>>

\* The queries of the route, and then the log row.
Read(t) ==
    /\ pc[t] = "read"
    /\ snap' = Pinned
    /\ Goto(t, "test")
    /\ work' = [work EXCEPT ![t] = "log"]
    /\ UNCHANGED <<lock, inTx, logged, calm>>

\* A query of the route raises, and the exception passes request_logger too: no log
\* row, no commit, and the 500 leaves.
Escape(t) ==
    /\ pc[t] = "read"
    /\ snap' \in {snap, Pinned}
    /\ Goto(t, "idle")
    /\ UNCHANGED <<lock, inTx, work, logged, calm>>

\* execute() of an INSERT or UPDATE: is a transaction open ...
TestBegin(t) ==
    /\ pc[t] = "test"
    /\ Goto(t, IF inTx THEN "write" ELSE "begin")
    /\ UNCHANGED <<lock, inTx, snap, work, logged, calm>>

\* ... BEGIN, an error if another thread has just opened one.
BeginTx(t) ==
    /\ pc[t] = "begin"
    /\ IF inTx THEN Over(t) ELSE Goto(t, "write")
    /\ inTx' = TRUE
    /\ UNCHANGED <<lock, snap, work, logged, calm>>

\* The statement itself takes the write lock. If another thread has ended the
\* transaction meanwhile, it is a transaction of its own.
Write(t) ==
    /\ pc[t] = "write"
    /\ lock \in {Free, Server} /\ snap # "old"
    /\ IF inTx THEN lock' = Server /\ snap' = "latest" ELSE UNCHANGED <<lock, snap>>
    /\ logged' = IF work[t] = "pass" THEN logged
                 ELSE [logged EXCEPT ![t] = IF inTx THEN "open" ELSE "kept"]
    /\ Goto(t, "test_commit")
    /\ UNCHANGED <<inTx, work, calm>>

\* SQLITE_BUSY: the snapshot is not the latest; or the lock is taken, which a
\* transaction that has read does not wait for and others wait busy_timeout for.
Busy(t) ==
    /\ pc[t] = "write"
    /\ \/ snap = "old"
       \/ lock \in Writers
    /\ Over(t)
    /\ calm' = FALSE
    /\ UNCHANGED <<lock, inTx, snap, work, logged>>

\* A later row of the lazy pass raises: the commit is not reached.
PassRaises(t) ==
    /\ pc[t] = "test_commit" /\ work[t] = "pass"
    /\ Over(t)
    /\ UNCHANGED <<lock, inTx, snap, work, logged, calm>>

\* commit(): is a transaction open ...
TestCommitSkip(t) ==                             \* mutant: no commit
    /\ pc[t] = "test_commit"
    /\ Over(t)
    /\ UNCHANGED <<lock, inTx, snap, work, logged, calm>>
TestCommit(t) ==
    /\ pc[t] = "test_commit"
    /\ IF inTx THEN Goto(t, "commit") ELSE Over(t)
    /\ UNCHANGED <<lock, inTx, snap, work, logged, calm>>

\* ... COMMIT, of all that any thread wrote in it; an error, and no effect, if
\* another thread has just ended it.
Commit(t) ==
    /\ pc[t] = "commit"
    /\ Over(t)
    /\ IF inTx
       THEN /\ lock' = IF lock = Server THEN Free ELSE lock
            /\ logged' = [o \in Threads |-> IF logged[o] = "open" THEN "kept" ELSE logged[o]]
       ELSE UNCHANGED <<lock, logged>>
    /\ inTx' = FALSE /\ snap' = "none"
    /\ UNCHANGED <<work, calm>>

\* The response leaves the middleware.
Leave(t) ==
    /\ pc[t] = "ended"
    /\ Goto(t, "idle")
    /\ UNCHANGED <<lock, inTx, snap, work, logged, calm>>

\* A CLI process takes the lock with its first write, and commits or dies.
CliWrite(w) ==
    /\ lock = Free
    /\ lock' = w
    /\ UNCHANGED <<inTx, snap, pc, work, logged, calm>>
CliCommit(w) ==
    /\ lock = w
    /\ lock' = Free
    /\ snap' = IF snap = "latest" THEN "old" ELSE snap
    /\ UNCHANGED <<inTx, pc, work, logged, calm>>
CliDie(w) ==
    /\ lock = w
    /\ lock' = Free
    /\ UNCHANGED <<inTx, snap, pc, work, logged, calm>>

Serving(t) ==
    \/ Scan(t) \/ Read(t) \/ Escape(t)
    \/ TestBegin(t) \/ BeginTx(t) \/ Write(t) \/ Busy(t) \/ PassRaises(t)
    \/ TestCommit(t) \/ Commit(t) \/ Leave(t)

ConnNext ==
    \/ \E t \in Threads : Arrive(t) \/ Serving(t)
    \/ \E w \in Writers : CliWrite(w) \/ CliCommit(w) \/ CliDie(w)

ConnSpec == ConnInit /\ [][ConnNext]_connVars

\* Requests keep coming, each goes on, and a command that holds the lock ends.
FairConnSpec ==
    /\ ConnSpec
    /\ \A t \in Threads : WF_connVars(Arrive(t)) /\ WF_connVars(Serving(t))
    /\ \A w \in Writers : WF_connVars(CliCommit(w) \/ CliDie(w))

-------------------------------------------------------------------------------
\* What a thread inserted is committed when its response leaves, whichever
\* thread began the transaction and whichever ended it.
InsertedIsCommitted == \A t \in Threads : pc[t] = "ended" => logged[t] # "open"

\* "The same data is persisted in the request_log SQLite table": while requests
\* come one by one and no CLI command makes a write time out, each request's row
\* is in the table when its response leaves request_logger, also after a pass
\* that raised; and also after a request that no logger has seen (Escape).
LoggedWhileCalm == calm => \A t \in Threads : pc[t] = "ended" => logged[t] = "kept"

\* A response is computed from everything committed before it: as long, no read is
\* made on an old snapshot.
ReadsAreFresh == [][\A t \in Threads : calm /\ (Scan(t) \/ Read(t) \/ Escape(t)) => snap # "old"]_connVars

\* The write lock does not stay with the server, not even when a lazy pass
\* raises with it and then its route: CLI commands get their turn, if only some
\* request comes through request_logger now and again.
SomeAreAnswered == []<>(\E t \in Threads : pc[t] = "ended")
LockIsReleased == SomeAreAnswered => (lock = Server ~> lock # Server)

-------------------------------------------------------------------------------
\* Two statements of the repository that do not hold (see the README).

\* "WAL + busy_timeout + retry_on_lock handle the observed contention": after a
\* write that timed out the server sees the database's state again.
ServerCatchesUp == SomeAreAnswered => (snap = "old" ~> snap # "old")

\* "The same data is persisted in the request_log SQLite table", of every request
\* that request_logger answers.
EveryRequestLogged == \A t \in Threads : pc[t] = "ended" => logged[t] = "kept"
===============================================================================
