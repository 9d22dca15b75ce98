------------------------------- MODULE WatchLoop -------------------------------
(***************************************************************************)
(* agentnews watch (cli.py: cmd_watch): a process that takes the lockfile, *)
(* and scans the runs directory again and again, importing the runs that   *)
(* neither packages nor ingest_runs know (_import_one), until SIGTERM.     *)
(* Beside it: the program that writes the runs, a CLI import, and the      *)
(* signals and errors that end a watcher.                                  *)
(*                                                                         *)
(* One connection serves a whole scan. What a failed INSERT leaves in its   *)
(* transaction is committed by the next commit of that scan, or rolled     *)
(* back when the scan closes the connection. A second watcher finds the    *)
(* lockfile, exits with status 2, and changes nothing.                     *)
(***************************************************************************)
EXTENDS Integers, FiniteSets, FiniteSetsExt

CONSTANTS
    Watchers,   \* watch processes, started again and again
    NoWatcher,
    Last,       \* runs are 1..Last in the order of their names
    Natures,    \* what the runs may turn out to be: see Nature
    Renames,    \* TRUE: a run directory appears with all its files
    Delayed,    \* STAGING_DELAY_MINUTES > 0
    Events,     \* what happens beside the watchers: see Event
    MaxFaults   \* bound on sqlite3 errors

\* "fine"; "refused" by the filter; "bad": IngestError; "raising": parse_run or admit
\* raise what _import_one does not catch (RejectError for an empty artifact, the
\* ValueError of a link without a scheme); "naive": compute_latency raises;
\* "unbindable": a citation has a field that SQLite cannot store (a list of authors
\* in corpus_manifest.json).
Nature == {"fine", "refused", "bad", "raising", "naive", "unbindable"}

Event == {"kill", "term", "interrupt", "full", "cli", "unlock"}

ASSUME WatchAssumption ==
    /\ NoWatcher \notin Watchers
    /\ Last \in Nat /\ MaxFaults \in Nat
    /\ Natures \subseteq Nature /\ Events \subseteq Event
    /\ Renames \in BOOLEAN /\ Delayed \in BOOLEAN

VARIABLES
    disk,       \* disk[r]: the directory of run r
    nature,     \* nature[r]: what r will be when it is complete
    row,        \* row[r]: the committed package of r
    logs,       \* logs[r]: number of rows of ingest_runs that watchers wrote for r
    lock,       \* the watcher that created the lockfile
    orphan,     \* history: that watcher ended before or without the clause that unlinks it
    pc,         \* pc[w]: the next step of watcher w
    stop,       \* stop[w]: _stop
    queue,      \* queue[w]: children of this scan still to come
    job,        \* job[w]: the run at hand
    tx,         \* tx[w]: runs whose package row is in the open transaction
    faults

world == <<disk, nature>>
store == <<row, logs>>
vars == <<disk, nature, row, logs, lock, orphan, pc, stop, queue, job, tx, faults>>

Runs == 1..Last
Row == [status: {"none", "imported", "served"},  \* served: staged or published
        whole: BOOLEAN]                          \* has all citations parsed
NoRow == [status |-> "none", whole |-> TRUE]
Job == [run: Runs \cup {0}, outcome: Nature \cup {"none"}]
NoJob == [run |-> 0, outcome |-> "none"]

TypeOK ==
    /\ disk \in [Runs -> {"absent", "dir", "partial", "complete"}]
    /\ nature \in [Runs -> Natures]
    /\ row \in [Runs -> Row] /\ logs \in [Runs -> Nat]
    /\ lock \in Watchers \cup {NoWatcher} /\ orphan \in BOOLEAN
    /\ pc \in [Watchers -> {"off", "locked", "list", "child", "parse", "insert",
                            "finalize", "log"}]
    /\ stop \in [Watchers -> BOOLEAN]
    /\ queue \in [Watchers -> SUBSET Runs] /\ job \in [Watchers -> Job]
    /\ tx \in [Watchers -> SUBSET Runs]
    /\ faults \in 0..MaxFaults
    /\ \A w \in Watchers : pc[w] \in {"off", "locked", "list"} => tx[w] = {}

Init ==
    /\ disk = [r \in Runs |-> "absent"]
    /\ nature \in [Runs -> Natures]
    /\ row = [r \in Runs |-> NoRow] /\ logs = [r \in Runs |-> 0]
    /\ lock = NoWatcher /\ orphan = FALSE
    /\ pc = [w \in Watchers |-> "off"] /\ stop = [w \in Watchers |-> FALSE]
    /\ queue = [w \in Watchers |-> {}] /\ job = [w \in Watchers |-> NoJob]
    /\ tx = [w \in Watchers |-> {}]
    /\ faults = 0

-------------------------------------------------------------------------------
\* The program that writes run r: its directory, signature.json, the other files.
Produce(r) ==
    /\ \E d \in CASE Renames /\ disk[r] = "absent" -> {"complete"}
                  [] ~Renames /\ disk[r] = "absent" -> {"dir"}
                  [] disk[r] = "dir" -> {"partial"}
                  [] disk[r] = "partial" -> {"complete"}
                  [] OTHER -> {} :
          disk' = [disk EXCEPT ![r] = d]
    /\ UNCHANGED <<nature, store, lock, orphan, pc, stop, queue, job, tx, faults>>

\* import-run on r, which other processes' transactions keep out.
CliImport(r) ==
    /\ "cli" \in Events
    /\ disk[r] = "complete" /\ nature[r] \in {"fine", "refused"}
    /\ row[r].status = "none" /\ \A w \in Watchers : tx[w] = {}
    /\ row' = [row EXCEPT ![r].status = "served"]
    /\ UNCHANGED <<world, logs, lock, orphan, pc, stop, queue, job, tx, faults>>

\* The operator removes the lockfile of a watcher that is no more.
Unlock ==
    /\ "unlock" \in Events /\ orphan
    /\ lock' = NoWatcher /\ orphan' = FALSE
    /\ UNCHANGED <<world, store, pc, stop, queue, job, tx, faults>>

-------------------------------------------------------------------------------
Goto(w, label) == pc' = [pc EXCEPT ![w] = label]

\* The process is gone, and so is its open transaction.
Gone(w) ==
    /\ Goto(w, "off")
    /\ stop' = [stop EXCEPT ![w] = FALSE]
    /\ queue' = [queue EXCEPT ![w] = {}] /\ job' = [job EXCEPT ![w] = NoJob]
    /\ tx' = [tx EXCEPT ![w] = {}]

\* The finally clauses: the connection is closed and the lockfile unlinked.
ExitKeepingLock(w) == Gone(w) /\ UNCHANGED <<lock, orphan>>     \* mutant
Exit(w) == Gone(w) /\ lock' = NoWatcher /\ UNCHANGED orphan

\* _acquire_watch_lock creates the lockfile with O_EXCL.
StartAnyway(w) ==     \* mutant: O_EXCL is dropped
    /\ pc[w] = "off"
    /\ lock' = w /\ orphan' = FALSE
    /\ Goto(w, "locked")
    /\ UNCHANGED <<world, store, stop, queue, job, tx, faults>>
Start(w) ==
    /\ pc[w] = "off" /\ lock = NoWatcher
    /\ lock' = w
    /\ Goto(w, "locked")
    /\ UNCHANGED <<world, store, orphan, stop, queue, job, tx, faults>>

\* The lockfile is there, but its pid cannot be written (a full disk): the OSError ends
\* the command before the clause that unlinks it.
StartFails(w) ==
    /\ "full" \in Events
    /\ pc[w] = "off" /\ lock = NoWatcher
    /\ lock' = w /\ orphan' = TRUE
    /\ UNCHANGED <<world, store, pc, stop, queue, job, tx, faults>>

\* The handler of SIGTERM is installed.
Install(w) ==
    /\ pc[w] = "locked"
    /\ Goto(w, "list")
    /\ UNCHANGED <<world, store, lock, orphan, stop, queue, job, tx, faults>>

Term(w) ==
    /\ "term" \in Events
    /\ pc[w] \notin {"off", "locked"}
    /\ stop' = [stop EXCEPT ![w] = TRUE]
    /\ UNCHANGED <<world, store, lock, orphan, pc, queue, job, tx, faults>>

\* SIGKILL at any time, SIGTERM or Ctrl-C before the loop has begun.
Kill(w) ==
    /\ \/ "kill" \in Events /\ pc[w] # "off"
       \/ {"term", "interrupt"} \cap Events # {} /\ pc[w] = "locked"
    /\ Gone(w)
    /\ orphan' = TRUE
    /\ UNCHANGED <<world, store, lock, faults>>

\* Ctrl-C within the loop.
Interrupt(w) ==
    /\ "interrupt" \in Events
    /\ pc[w] \notin {"off", "locked"}
    /\ Exit(w)
    /\ UNCHANGED <<world, store, faults>>

-------------------------------------------------------------------------------
\* A new scan: the children are listed before the first is looked at.
ScanAnyway(w) ==      \* mutant: while True
    /\ pc[w] = "list"
    /\ queue' = [queue EXCEPT ![w] = {r \in Runs : disk[r] # "absent"}]
    /\ Goto(w, "child")
    /\ UNCHANGED <<world, store, lock, orphan, stop, job, tx, faults>>
Scan(w) ==
    /\ pc[w] = "list" /\ ~stop[w]
    /\ queue' = [queue EXCEPT ![w] = {r \in Runs : disk[r] # "absent"}]
    /\ Goto(w, "child")
    /\ UNCHANGED <<world, store, lock, orphan, stop, job, tx, faults>>

Leave(w) ==
    /\ pc[w] = "list" /\ stop[w]
    /\ Exit(w)
    /\ UNCHANGED <<world, store, faults>>

\* run_already_seen
SeenPackage(r) == row[r].status # "none"            \* mutant: ingest_runs is not asked
Seen(r) == row[r].status # "none" \/ logs[r] > 0

\* The next child is passed over, or taken.
NextChild(w) ==
    LET r == Min(queue[w])
    IN /\ pc[w] = "child" /\ queue[w] # {} /\ ~stop[w]
       /\ queue' = [queue EXCEPT ![w] = @ \ {r}]
       /\ IF disk[r] = "dir" \/ Seen(r) THEN UNCHANGED <<pc, job>>
          ELSE /\ Goto(w, "parse")
               /\ job' = [job EXCEPT ![w] = [NoJob EXCEPT !.run = r]]
       /\ UNCHANGED <<world, store, lock, orphan, stop, tx, faults>>

\* The connection is closed, and a transaction left open rolled back.
EndScan(w) ==
    /\ pc[w] = "child" /\ (queue[w] = {} \/ stop[w])
    /\ queue' = [queue EXCEPT ![w] = {}]
    /\ tx' = [tx EXCEPT ![w] = {}]
    /\ Goto(w, "list")
    /\ UNCHANGED <<world, store, lock, orphan, stop, job, faults>>

-------------------------------------------------------------------------------
NextRun(w) == Goto(w, "child") /\ job' = [job EXCEPT ![w] = NoJob]

\* parse_run and admit: a half-written run may end in any way.
Parse(w) ==
    LET r == job[w].run
        early == IF disk[r] = "complete" THEN {} ELSE {"bad", "raising", "refused"}
    IN /\ pc[w] = "parse"
       /\ \E o \in {nature[r]} \cup early :
             IF o = "raising" THEN Exit(w)
             ELSE /\ Goto(w, IF o \in {"bad", "refused"} THEN "log" ELSE "insert")
                  /\ job' = [job EXCEPT ![w].outcome = o]
                  /\ UNCHANGED <<lock, orphan, stop, queue, tx>>
       /\ UNCHANGED <<world, store, faults>>

\* A commit: the rows of the open transaction are stored with the new ones.
Commit(w, rows) ==
    /\ row' = [r \in Runs |-> CASE r \in tx[w] -> [status |-> "imported", whole |-> FALSE]
                                [] OTHER -> rows[r]]
    /\ tx' = [tx EXCEPT ![w] = {}]

\* insert_package
InsertPartly(w) ==    \* mutant: the citations that cannot be stored are left out
    /\ pc[w] = "insert" /\ row[job[w].run].status = "none"
    /\ Commit(w, [row EXCEPT ![job[w].run] =
                     [status |-> "imported", whole |-> job[w].outcome # "unbindable"]])
    /\ Goto(w, "finalize")
    /\ UNCHANGED <<world, logs, lock, orphan, stop, queue, job, faults>>
Insert(w) ==
    /\ pc[w] = "insert" /\ row[job[w].run].status = "none"
    /\ IF job[w].outcome = "unbindable"
       THEN /\ tx' = [tx EXCEPT ![w] = @ \cup {job[w].run}]
            /\ NextRun(w) /\ UNCHANGED row
       ELSE /\ Commit(w, [row EXCEPT ![job[w].run].status = "imported"])
            /\ Goto(w, "finalize") /\ UNCHANGED job
    /\ UNCHANGED <<world, logs, lock, orphan, stop, queue, faults>>

\* Another process has imported the run meanwhile: DuplicateRunError, which nothing
\* catches, or the unique index when that process came after the SELECT.
InsertDuplicate(w) ==
    /\ pc[w] = "insert" /\ row[job[w].run].status # "none"
    /\ \/ Exit(w)
       \/ NextRun(w) /\ UNCHANGED <<lock, orphan, stop, queue, tx>>
    /\ UNCHANGED <<world, store, faults>>

\* _finalize_import_status
Finalize(w) ==
    /\ pc[w] = "finalize"
    /\ IF job[w].outcome = "naive" /\ ~Delayed
       THEN Exit(w) /\ UNCHANGED row
       ELSE /\ Commit(w, [row EXCEPT ![job[w].run].status = "served"])
            /\ Goto(w, "log") /\ UNCHANGED <<lock, orphan, stop, queue, job>>
    /\ UNCHANGED <<world, logs, faults>>

\* log_ingest_run
LogRun(w) ==
    /\ pc[w] = "log"
    /\ logs' = [logs EXCEPT ![job[w].run] = @ + 1]
    /\ Commit(w, row)
    /\ NextRun(w)
    /\ UNCHANGED <<world, lock, orphan, stop, queue, faults>>

\* sqlite3.Error (a lock timeout, a full disk): _import_one catches it, except in
\* the handler that logs an IngestError.
Fault(w) ==
    /\ faults < MaxFaults /\ faults' = faults + 1
    /\ \/ /\ pc[w] \in {"insert", "finalize"} \/ (pc[w] = "log" /\ job[w].outcome # "bad")
          /\ NextRun(w) /\ UNCHANGED <<lock, orphan, stop, queue, tx>>
       \/ /\ pc[w] \in {"list", "child"} \/ (pc[w] = "log" /\ job[w].outcome = "bad")
          /\ Exit(w)
    /\ UNCHANGED <<world, store>>

Step(w) ==
    \/ Install(w) \/ Scan(w) \/ Leave(w) \/ NextChild(w) \/ EndScan(w)
    \/ Parse(w) \/ Insert(w) \/ InsertDuplicate(w) \/ Finalize(w) \/ LogRun(w)

Next ==
    \/ \E r \in Runs : Produce(r) \/ CliImport(r)
    \/ Unlock
    \/ \E w \in Watchers :
          Start(w) \/ StartFails(w) \/ Step(w) \/ Term(w) \/ Kill(w) \/ Interrupt(w) \/ Fault(w)

Spec == Init /\ [][Next]_vars

\* A watcher goes on when it can, and one is started when the lockfile is free.
LiveSpec == Spec /\ \A w \in Watchers : WF_vars(Step(w)) /\ WF_vars(Start(w))

-------------------------------------------------------------------------------
\* "Concurrent watch instances are excluded by a lockfile" (AC-050): whoever is in
\* the loop created the lockfile that is there, whatever ended the others.
OneWatcher == \A w \in Watchers : pc[w] # "off" => lock = w

\* However a watcher ends, it takes its lockfile with it, unless it is killed or cannot
\* write its pid: an exception at any later point does not leave it behind.
LockFollowsHolder == lock # NoWatcher => pc[lock] # "off" \/ orphan

\* A run is logged by watchers once at most, through restarts, kills and errors,
\* so a rejected or broken run is not tried again and again (FR-029).
LoggedOnce == \A r \in Runs : logs[r] <= 1

\* A package whose INSERT failed half-way, and which a later commit of the same
\* connection stored without its citations, is not staged or published.
ServedIsWhole == \A r \in Runs : row[r].status = "served" => row[r].whole

\* After SIGTERM the watcher ends, whatever new runs keep coming.
TermStops == \A w \in Watchers : stop[w] ~> pc[w] = "off"

-------------------------------------------------------------------------------
\* Two statements of the repository that do not hold (see the README).

\* "Single-shot insert of the package row and its citations."
RowsAreWhole == \A r \in Runs : row[r].whole

\* "Poll SNEFERU_RUNS_DIR and auto-import new runs": a complete run in order is
\* served in the end.
NewRunIsServed ==
    \A r \in Runs : disk[r] = "complete" /\ nature[r] = "fine" ~> row[r].status = "served"
===============================================================================
