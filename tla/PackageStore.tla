----------------------------- MODULE PackageStore -----------------------------
(***************************************************************************)
(* The packages table of src/agentnews/storage.py and the processes that   *)
(* read and write it: CLI commands (import-run, watch, withhold, republish, *)
(* sample, list/show), each on its own SQLite connection, and the threads  *)
(* of the API server.                                                      *)
(*                                                                         *)
(* A SELECT opens no transaction, and a write transaction starts at the    *)
(* first INSERT/UPDATE/DELETE and holds SQLite's write lock until commit.  *)
(* So each read is a step of its own, each committed write transaction is  *)
(* one step, and any other process may run between a read and the write    *)
(* that relies on it.  A command can end at any of these points (killed,   *)
(* lock timeout, uncaught exception): what it committed stays.  A lock     *)
(* timeout of the server is worse: nobody rolls back, and its connection   *)
(* may be unable to write until the server is restarted.                   *)
(***************************************************************************)
EXTENDS Naturals

CONSTANTS
    Pids,       \* package ids; a fresh one is never handed out twice
    Runs,       \* Sneferu run ids
    NaiveRuns,  \* runs whose completion stamp has no UTC offset: compute_latency raises
    Procs,      \* CLI processes and server threads
    Server,     \* those of Procs that are API server threads
    Commands,   \* commands the operators issue
    Flags,      \* import-run flags the operators use
    Delays,     \* values that STAGING_DELAY_MINUTES > 0 takes over the commands
    MaxStops,   \* bound on the number of processes that stop half-way
    NoRun, NoPid

ASSUME ConstantsAssumption ==
    /\ NaiveRuns \subseteq Runs /\ NoRun \notin Runs
    /\ NoPid \notin Pids
    /\ Server \subseteq Procs
    /\ Commands \subseteq {"import", "watch", "list", "withhold", "republish", "sample"}
    /\ Flags \subseteq {"replace", "stage", "sample", "force"}
    /\ Delays \subseteq BOOLEAN /\ Delays # {}
    /\ MaxStops \in Nat

VARIABLES
    pkg,        \* pkg[q]: the row of packages with id q, or Absent
    seen,       \* run ids that have a row in ingest_runs
    issued,     \* history: the run that id q was generated for
    pc,         \* pc[p]: the next step of process p; "stuck": its write timed out
    job,        \* job[p]: what p's command was called with and has read
    stops

vars == <<pkg, seen, issued, pc, job, stops>>

Row == [status: {"absent", "imported", "staged", "published", "withheld"},
        run: Runs \cup {NoRun},
        sample: BOOLEAN,                      \* is_sample
        after: {"null", "later", "due"},      \* publish_after: NULL, future, passed
        publishedAt: BOOLEAN,                 \* published_at is not NULL
        withheldAt: BOOLEAN,                  \* withheld_at is not NULL
        forced: BOOLEAN]                      \* extensions.agentnews.forced_import

Absent == [status |-> "absent", run |-> NoRun, sample |-> FALSE, after |-> "null",
           publishedAt |-> FALSE, withheldAt |-> FALSE, forced |-> FALSE]

Labels == {"idle", "lookup", "delete", "insert", "finalize", "publish", "log",
           "mark_read", "mark_write", "lazy_read", "lazy_write", "withhold", "republish",
           "stuck"}

Job == [run: Runs \cup {NoRun}, pid: Pids \cup {NoPid}, flags: SUBSET Flags,
        queue: SUBSET Pids]

NoJob == [run |-> NoRun, pid |-> NoPid, flags |-> {}, queue |-> {}]

TypeOK ==
    /\ pkg \in [Pids -> Row]
    /\ seen \subseteq Runs
    /\ issued \in [Pids -> Runs \cup {NoRun}]
    /\ pc \in [Procs -> Labels]
    /\ job \in [Procs -> Job]
    /\ stops \in 0..MaxStops

Init ==
    /\ pkg = [q \in Pids |-> Absent]
    /\ seen = {}
    /\ issued = [q \in Pids |-> NoRun]
    /\ pc = [p \in Procs |-> "idle"]
    /\ job = [p \in Procs |-> NoJob]
    /\ stops = 0

-------------------------------------------------------------------------------
Stored(q) == pkg[q].status # "absent"

\* Mutant of RowsOf: the lookup forgets its WHERE run_id = ?.
RowsOfAnyRun(r) == {q \in Pids : Stored(q)}
RowsOf(r) == {q \in Pids : Stored(q) /\ pkg[q].run = r}

Samples == {q \in Pids : pkg[q].sample}

\* compute_latency on row q raises: there is no row, or its run_completed_at
\* cannot be subtracted from the UTC stamp of publication.
Unpublishable(q) == ~Stored(q) \/ pkg[q].run \in NaiveRuns

Published(row) == [row EXCEPT !.status = "published", !.publishedAt = TRUE]

\* UPDATE packages SET ... WHERE id = q: nothing happens when there is no such row.
Update(q, row) == pkg' = IF Stored(q) THEN [pkg EXCEPT ![q] = row] ELSE pkg

Goto(p, label) == pc' = [pc EXCEPT ![p] = label]
Begin(p, label, j) == Goto(p, label) /\ job' = [job EXCEPT ![p] = j]
Finish(p) == Begin(p, "idle", NoJob)

Cli(p, command) == pc[p] = "idle" /\ p \notin Server /\ command \in Commands

-------------------------------------------------------------------------------
\* import-run, after parsing and admission: "force" is in the flags when the
\* filter rejected the run and --force let it through.
BeginImport(p) ==
    /\ Cli(p, "import")
    /\ \E r \in Runs, f \in SUBSET Flags :
          Begin(p, "lookup", [NoJob EXCEPT !.run = r, !.flags = f])
    /\ UNCHANGED <<pkg, seen, issued, stops>>

\* One run of a watch scan: not seen in packages nor in ingest_runs; it is
\* imported with no flags, or rejected and only logged.
BeginWatch(p) ==
    /\ Cli(p, "watch")
    /\ \E r \in Runs \ seen, next \in {"insert", "log"} :
          /\ RowsOf(r) = {}
          /\ Begin(p, next, [NoJob EXCEPT !.run = r])
    /\ UNCHANGED <<pkg, seen, issued, stops>>

\* Mutant of LookupRun: a known run goes through its status transition again.
LookupRunAgain(p) ==
    /\ pc[p] = "lookup"
    /\ LET held == RowsOf(job[p].run)
       IN \/ /\ held = {}
             /\ Goto(p, "insert") /\ UNCHANGED job
          \/ \E q \in held :
                Begin(p, IF "replace" \in job[p].flags THEN "delete" ELSE "finalize",
                      [job[p] EXCEPT !.pid = q])
    /\ UNCHANGED <<pkg, seen, issued, stops>>

\* get_package_by_run: a new run is inserted, a known one is replaced when
\* --replace asks for it and is otherwise only logged as already imported.
LookupRun(p) ==
    /\ pc[p] = "lookup"
    /\ LET held == RowsOf(job[p].run)
       IN \/ /\ held = {}
             /\ Goto(p, "insert") /\ UNCHANGED job
          \/ \E q \in held :
                IF "replace" \in job[p].flags
                THEN Begin(p, "delete", [job[p] EXCEPT !.pid = q])
                ELSE Begin(p, "log", [job[p] EXCEPT !.flags = {}])
    /\ UNCHANGED <<pkg, seen, issued, stops>>

\* delete_package commits before the new row is inserted.
DeleteOld(p) ==
    /\ pc[p] = "delete"
    /\ pkg' = [pkg EXCEPT ![job[p].pid] = Absent]
    /\ Goto(p, "insert")
    /\ UNCHANGED <<seen, issued, job, stops>>

NewRow(j) == [Absent EXCEPT !.status = "imported", !.run = j.run,
                            !.sample = "sample" \in j.flags,
                            !.forced = "force" \in j.flags]

\* A row with the same run_id refuses the insert, and so does another sample
\* when --sample is given.
NeverTaken(p) == FALSE                      \* mutant of both
RunTaken(p) == RowsOf(job[p].run) # {}
SampleTaken(p) == "sample" \in job[p].flags /\ Samples # {}

\* insert_package: under the id of the replaced package, or a fresh one.
InsertRow(p) ==
    /\ pc[p] = "insert"
    /\ ~RunTaken(p) /\ ~SampleTaken(p)
    /\ \E q \in Pids :
          /\ ~Stored(q)
          /\ IF job[p].pid = NoPid
             THEN /\ issued[q] = NoRun
                  /\ issued' = [issued EXCEPT ![q] = job[p].run]
             ELSE q = job[p].pid /\ UNCHANGED issued
          /\ pkg' = [pkg EXCEPT ![q] = NewRow(job[p])]
          /\ Begin(p, "finalize", [job[p] EXCEPT !.pid = q])
    /\ UNCHANGED <<seen, stops>>

\* insert_package: DuplicateRunError, or the unique run_id or id refuses the row.
DuplicateRefused(p) ==
    /\ pc[p] = "insert"
    /\ \/ RunTaken(p)
       \/ job[p].pid # NoPid /\ Stored(job[p].pid)
    /\ Finish(p)
    /\ UNCHANGED <<pkg, seen, issued, stops>>

\* insert_package: three generated ids in a row collide (here: none is left).
IdCollision(p) ==
    /\ pc[p] = "insert"
    /\ job[p].pid = NoPid
    /\ \A q \in Pids : issued[q] # NoRun
    /\ Finish(p)
    /\ UNCHANGED <<pkg, seen, issued, stops>>

\* insert_package: SampleLimitError, some package is the sample already.
SampleRefused(p) ==
    /\ pc[p] = "insert"
    /\ SampleTaken(p)
    /\ Finish(p)
    /\ UNCHANGED <<pkg, seen, issued, stops>>

\* Mutant of Staged: a status no reader knows.
Staged(row, when) == [row EXCEPT !.status = "staged", !.after = when]

\* --force and --stage hold the package back, whatever the delay is.
HeldIfStaged(p) == "stage" \in job[p].flags   \* mutant: a forced run is not held
Held(p) == job[p].flags \cap {"force", "stage"} # {}

\* transition_to_staged: an UPDATE by id, whatever status the row has by now.
\* --force and --stage leave publish_after NULL.
FinalizeStaged(p) ==
    LET q == job[p].pid
    IN /\ pc[p] = "finalize"
       /\ Held(p) \/ TRUE \in Delays
       /\ Update(q, Staged(pkg[q], IF Held(p) THEN "null" ELSE "later"))
       /\ Goto(p, "log")
       /\ UNCHANGED <<seen, issued, job, stops>>

\* transition_to_published reads the row, checks its status and computes the
\* latency; if any of these raises, the row stays "imported".
FinalizeRead(p) ==
    LET q == job[p].pid
    IN /\ pc[p] = "finalize"
       /\ ~Held(p) /\ FALSE \in Delays
       /\ IF pkg[q].status \in {"imported", "staged"} /\ ~Unpublishable(q)
          THEN Goto(p, "publish") /\ UNCHANGED job
          ELSE Finish(p)
       /\ UNCHANGED <<pkg, seen, issued, stops>>

FinalizeWrite(p) ==
    LET q == job[p].pid
    IN /\ pc[p] = "publish"
       /\ Update(q, Published(pkg[q]))
       /\ Goto(p, "log")
       /\ UNCHANGED <<seen, issued, job, stops>>

\* log_ingest_run, then mark_sample when --sample was given.
LogRun(p) ==
    /\ pc[p] = "log"
    /\ seen' = seen \cup {job[p].run}
    /\ IF "sample" \in job[p].flags THEN Goto(p, "mark_read") /\ UNCHANGED job
       ELSE Finish(p)
    /\ UNCHANGED <<pkg, issued, stops>>

-------------------------------------------------------------------------------
BeginMark(p) ==
    /\ Cli(p, "sample")
    /\ \E q \in Pids : Begin(p, "mark_read", [NoJob EXCEPT !.pid = q])
    /\ UNCHANGED <<pkg, seen, issued, stops>>

\* mark_sample: the package must exist ...
MarkRead(p) ==
    /\ pc[p] = "mark_read"
    /\ IF Stored(job[p].pid) THEN Goto(p, "mark_write") /\ UNCHANGED job ELSE Finish(p)
    /\ UNCHANGED <<pkg, seen, issued, stops>>

\* ... then one transaction clears every flag and sets the target's, if it is
\* still there.
MarkWrite(p) ==
    /\ pc[p] = "mark_write"
    /\ pkg' = [q \in Pids |->
                 [pkg[q] EXCEPT !.sample = (q = job[p].pid) /\ Stored(q)]]
    /\ Finish(p)
    /\ UNCHANGED <<seen, issued, stops>>

Unmark(p) ==
    /\ Cli(p, "sample")
    /\ \E q \in Pids : Update(q, [pkg[q] EXCEPT !.sample = FALSE])
    /\ UNCHANGED <<seen, issued, pc, job, stops>>

\* withhold_package and republish_package: the status is read and checked,
\* the UPDATE that follows names only the id.
WithholdAnyRead(p) ==                         \* mutant: no check of the status
    /\ Cli(p, "withhold")
    /\ \E q \in Pids : Stored(q) /\ Begin(p, "withhold", [NoJob EXCEPT !.pid = q])
    /\ UNCHANGED <<pkg, seen, issued, stops>>
WithholdRead(p) ==
    /\ Cli(p, "withhold")
    /\ \E q \in Pids :
          /\ pkg[q].status = "published"
          /\ Begin(p, "withhold", [NoJob EXCEPT !.pid = q])
    /\ UNCHANGED <<pkg, seen, issued, stops>>

WithholdWrite(p) ==
    LET q == job[p].pid
    IN /\ pc[p] = "withhold"
       /\ Update(q, [pkg[q] EXCEPT !.status = "withheld", !.withheldAt = TRUE])
       /\ Finish(p)
       /\ UNCHANGED <<seen, issued, stops>>

RepublishRead(p) ==
    /\ Cli(p, "republish")
    /\ \E q \in Pids :
          /\ pkg[q].status = "withheld" /\ ~Unpublishable(q)
          /\ Begin(p, "republish", [NoJob EXCEPT !.pid = q])
    /\ UNCHANGED <<pkg, seen, issued, stops>>

RepublishKeepsStamp(p) ==                     \* mutant: withheld_at is not cleared
    /\ pc[p] = "republish"
    /\ Update(job[p].pid, Published(pkg[job[p].pid]))
    /\ Finish(p)
    /\ UNCHANGED <<seen, issued, stops>>
RepublishWrite(p) ==
    LET q == job[p].pid
    IN /\ pc[p] = "republish"
       /\ Update(q, [Published(pkg[q]) EXCEPT !.withheldAt = FALSE])
       /\ Finish(p)
       /\ UNCHANGED <<seen, issued, stops>>

-------------------------------------------------------------------------------
\* A write of some server thread has met "database is locked": the transaction that
\* all of them share stays open on a snapshot that others' commits make useless.
ServerStuck == \E p \in Server : pc[p] = "stuck"

DueEarly == {q \in Pids : pkg[q].status = "staged" /\ pkg[q].after # "null"}  \* mutant
Due == {q \in Pids : pkg[q].status = "staged" /\ pkg[q].after = "due"}

\* transition_staged_to_published, from an API read or from list/show: the ids
\* of the packages that are due are read first.
LazyScanCliOnly(p) ==                         \* mutant: API reads do not trigger it
    /\ Cli(p, "list")
    /\ Due # {}
    /\ Begin(p, "lazy_read", [NoJob EXCEPT !.queue = Due])
    /\ UNCHANGED <<pkg, seen, issued, stops>>
LazyScan(p) ==
    /\ p \in Server \/ Cli(p, "list")
    /\ pc[p] = "idle"
    /\ Due # {}
    /\ Begin(p, "lazy_read", [NoJob EXCEPT !.queue = Due])
    /\ UNCHANGED <<pkg, seen, issued, stops>>

\* The next row of the loop is read by its id; a row that cannot be published
\* raises and ends the pass.
LazyRead(p) ==
    /\ pc[p] = "lazy_read"
    /\ \E q \in job[p].queue :
          IF Unpublishable(q) THEN Finish(p)
          ELSE Begin(p, "lazy_write", [job[p] EXCEPT !.pid = q])
    /\ UNCHANGED <<pkg, seen, issued, stops>>

\* The UPDATEs name only the id. From the first one on the write lock is held,
\* so a CLI process treats its whole queue in one transaction. Server threads
\* share one connection, and any thread's commit ends the transaction: a
\* thread's queue may be written in parts.
LazyWrite(p) ==
    LET rest == job[p].queue \ {job[p].pid}
    IN /\ pc[p] = "lazy_write"
       /\ p \in Server => ~ServerStuck
       /\ \E more \in SUBSET rest :
             /\ \A q \in more : ~Unpublishable(q)
             /\ p \in Server \/ more = rest
             /\ pkg' = [q \in Pids |->
                          IF q \in more \cup {job[p].pid} /\ Stored(q)
                          THEN Published(pkg[q]) ELSE pkg[q]]
             /\ IF more = rest THEN Finish(p)
                ELSE Begin(p, "lazy_read",
                           [job[p] EXCEPT !.pid = NoPid, !.queue = rest \ more])
       /\ UNCHANGED <<seen, issued, stops>>

\* A later row raises in the CLI: closing the connection rolls everything back. In
\* the server the first UPDATE raises when its connection is stuck.
LazyAbort(p) ==
    /\ pc[p] = "lazy_write"
    /\ IF p \in Server THEN ServerStuck
       ELSE \E q \in job[p].queue \ {job[p].pid} : Unpublishable(q)
    /\ Finish(p)
    /\ UNCHANGED <<pkg, seen, issued, stops>>

-------------------------------------------------------------------------------
\* The clock passes the publish_after of q.
Elapse(q) ==
    /\ pkg[q].after = "later"
    /\ pkg' = [pkg EXCEPT ![q].after = "due"]
    /\ UNCHANGED <<seen, issued, pc, job, stops>>

\* A command ends half-way: killed, out of the 5 s it waits for the write lock,
\* or an exception nobody catches.
Stop(p) ==
    /\ pc[p] # "idle" /\ p \notin Server
    /\ stops < MaxStops
    /\ stops' = stops + 1
    /\ Finish(p)
    /\ UNCHANGED <<pkg, seen, issued>>

\* A write of server thread p, of a pass or of a log row, runs out of these 5 s: the
\* exception is swallowed, and the open transaction is not rolled back.
Stick(p) ==
    /\ p \in Server /\ pc[p] \in {"idle", "lazy_write"}
    /\ stops < MaxStops
    /\ stops' = stops + 1
    /\ Begin(p, "stuck", NoJob)
    /\ UNCHANGED <<pkg, seen, issued>>

\* Nobody has committed since: the next write gets through, and its commit ends the
\* transaction.
Unstick(p) ==
    /\ pc[p] = "stuck"
    /\ Finish(p)
    /\ UNCHANGED <<pkg, seen, issued, stops>>

\* The server dies, or is stopped, and is started again with a new connection.
Restart ==
    /\ \E p \in Server : pc[p] # "idle"
    /\ stops < MaxStops
    /\ stops' = stops + 1
    /\ pc' = [p \in Procs |-> IF p \in Server THEN "idle" ELSE pc[p]]
    /\ job' = [p \in Procs |-> IF p \in Server THEN NoJob ELSE job[p]]
    /\ UNCHANGED <<pkg, seen, issued>>

Import(p) ==
    \/ BeginImport(p) \/ BeginWatch(p)
    \/ LookupRun(p) \/ DeleteOld(p)
    \/ InsertRow(p) \/ DuplicateRefused(p) \/ SampleRefused(p) \/ IdCollision(p)
    \/ FinalizeStaged(p) \/ FinalizeRead(p) \/ FinalizeWrite(p)
    \/ LogRun(p)

Curate(p) ==
    \/ BeginMark(p) \/ MarkRead(p) \/ MarkWrite(p) \/ Unmark(p)
    \/ WithholdRead(p) \/ WithholdWrite(p)
    \/ RepublishRead(p) \/ RepublishWrite(p)

Lazy(p) == LazyScan(p) \/ LazyRead(p) \/ LazyWrite(p) \/ LazyAbort(p)

Halt(p) == Stop(p) \/ Stick(p) \/ Unstick(p)

Next ==
    \/ \E p \in Procs : Import(p) \/ Curate(p) \/ Lazy(p) \/ Halt(p)
    \/ Restart
    \/ \E q \in Pids : Elapse(q)

Spec == Init /\ [][Next]_vars

\* API reads keep coming, and so do the server's passes over due packages, those
\* that raise included; the clock does not stop. A pass need not get its write
\* through: nothing ends "stuck" by fairness, and nothing is assumed of the
\* operators' commands or restarts.
FairSpec ==
    /\ Spec
    /\ \A p \in Server : WF_vars(Lazy(p))
    /\ \A q \in Pids : WF_vars(Elapse(q))

-------------------------------------------------------------------------------
\* There is at most one sample, whichever of import-run --sample and sample
\* set/unset run at the same time (FR-022, mark_sample and insert_package).
OneSample == \A q1, q2 \in Samples : q1 = q2

\* A run is stored at most once, also when two imports of it, by hand and by
\* watch, pass their lookups together (FR-005).
RunStoredOnce ==
    \A q1, q2 \in Pids :
        Stored(q1) /\ Stored(q2) /\ pkg[q1].run = pkg[q2].run => q1 = q2

\* A package id, and so an article URL, never comes to name another run: two
\* racing --replace imports put back only what the id was issued for.
PidNamesRun == \A q \in Pids : Stored(q) => pkg[q].run = issued[q]

\* A package whose latency cannot be computed is never served, not even when
\* it replaces one that is being published or withheld meanwhile (FR-015).
NaiveNeverServed ==
    \A q \in Pids : pkg[q].status \in {"published", "withheld"}
                        => pkg[q].run \notin NaiveRuns

\* published_at and withheld_at are set exactly in the statuses that
\* withhold_package, republish_package and the publications leave them in.
StampsMatchStatus ==
    \A q \in Pids :
        /\ pkg[q].publishedAt <=> pkg[q].status \in {"published", "withheld"}
        /\ pkg[q].withheldAt <=> pkg[q].status = "withheld"

\* "forced packages are always staged, never published" (FR-027).
ForcedNeverPublished ==
    \A q \in Pids : pkg[q].forced => pkg[q].status \in {"imported", "staged"}

\* With a staging delay, no package is served before its publish_after (FR-006).
NotBeforeItsTime ==
    \A q \in Pids : pkg[q].status \in {"published", "withheld"} => pkg[q].after = "due"

\* A package that was served is never put back to imported or staged: what an
\* import has started does not reach a row that others have moved on.
NeverBackToStaged ==
    [][\A q \in Pids : pkg[q].status \in {"published", "withheld"}
                          => pkg'[q].status \in {"published", "withheld"}]_vars

\* withheld -> published happens by republish and nothing else (FR-021).
WithheldLeftByRepublish ==
    [][\A q \in Pids : pkg[q].status = "withheld" /\ pkg'[q].status # "withheld"
                          => \E p \in Procs : pc[p] = "republish" /\ job[p].pid = q]_vars

\* Taken one command at a time the store implements the lifecycle.
Lifecycle == INSTANCE PackageLifecycle
    WITH life <- [q \in Pids |-> [status |-> pkg[q].status, after |-> pkg[q].after]]
ImplementsLifecycle == Lifecycle!Spec

\* A due package whose latency cannot be computed ends every pass that comes to it.
Poisoned == \E q \in Due : Unpublishable(q)

\* A staged package whose publish_after has passed is published (FR-006: the lazy
\* transition on API reads), whoever raced or stopped half-way; unless a due package
\* that cannot be published stops the passes, or a lock timeout the server's writes:
\* after a restart the package is published all the same.
DueIsPublished ==
    \A q \in Pids :
        q \in Due ~> pkg[q].status # "staged" \/ Poisoned \/ ServerStuck

\* The same without the two excuses, as FR-006 has it.
DueAlwaysPublished ==
    \A q \in Pids : (q \in Due /\ ~Unpublishable(q)) ~> pkg[q].status # "staged"

\* "--stage: land as staged with publish_after ..., lazy transition to published".
StagedIsPublished == \A q \in Pids : pkg[q].status = "staged" ~> pkg[q].status # "staged"

\* "--replace ... preserving the original package id": a run has one id for ever.
RunKeepsId ==
    \A q1, q2 \in Pids : issued[q1] = issued[q2] /\ issued[q1] # NoRun => q1 = q2

\* "--sample: mark the imported package as the single sample (replaces any
\* existing sample)": an import is not refused because there is a sample.
SampleIsReplaced == [][\A p \in Procs : ~SampleRefused(p)]_vars
===============================================================================
