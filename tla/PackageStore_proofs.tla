-------------------------- MODULE PackageStore_proofs --------------------------
(***************************************************************************)
(* Proofs about PackageStore for every number of packages, runs, CLI       *)
(* processes and server threads.                                           *)
(***************************************************************************)
EXTENDS PackageStore, TLAPS

USE DEF NoJob, Absent

\* A step that names a run, or a package, has one.
HasArgs(p) ==
    /\ pc[p] \in {"lookup", "delete", "insert", "finalize", "publish", "log"}
          => job[p].run \in Runs
    /\ pc[p] \in {"delete", "finalize", "publish", "withhold", "republish", "lazy_write"}
          => job[p].pid \in Pids

\* What a step relies on from the reads before it. The writes that publish or
\* withhold name an id that was issued for a run with a proper stamp; those of
\* import-run name the run that the id they reuse was issued for.
Intent(p) ==
    /\ pc[p] = "lookup" => job[p].pid = NoPid
    /\ pc[p] \in {"delete", "insert"} /\ job[p].pid \in Pids
          => issued[job[p].pid] = job[p].run
    /\ pc[p] \in {"publish", "withhold", "republish", "lazy_write"}
          => issued[job[p].pid] \in Runs \ NaiveRuns

Intents == \A p \in Procs : HasArgs(p) /\ Intent(p)

\* A stored row names the run its id was issued for; an absent one is no sample.
RowsOK ==
    \A q \in Pids :
        /\ Stored(q) => pkg[q].run = issued[q] /\ issued[q] \in Runs
        /\ ~Stored(q) => ~pkg[q].sample

Rows == RowsOK /\ OneSample /\ RunStoredOnce /\ NaiveNeverServed

IInv == TypeOK /\ Intents /\ Rows

-------------------------------------------------------------------------------
\* A publication keeps a row's run and sample flag.
LEMMA PublishedRow ==
    ASSUME NEW row \in Row
    PROVE  /\ Published(row) \in Row
           /\ Published(row).run = row.run
           /\ Published(row).sample = row.sample
           /\ Published(row).status = "published"
BY DEF Published, Row

\* transition_to_staged keeps a row's run and sample flag.
LEMMA StagedRow ==
    ASSUME NEW row \in Row, NEW when \in {"null", "later"}
    PROVE  /\ Staged(row, when) \in Row
           /\ Staged(row, when).run = row.run
           /\ Staged(row, when).sample = row.sample
           /\ Staged(row, when).status = "staged"
BY DEF Staged, Row

\* Withholding, clearing a stamp or flag, and the passing of publish_after leave a row.
LEMMA CuratedRow ==
    ASSUME NEW row \in Row
    PROVE  /\ [row EXCEPT !.status = "withheld", !.withheldAt = TRUE] \in Row
           /\ [row EXCEPT !.withheldAt = FALSE] \in Row
           /\ [row EXCEPT !.sample = FALSE] \in Row
           /\ [row EXCEPT !.after = "due"] \in Row
BY DEF Row

\* insert_package writes an imported row for the run it was given.
LEMMA NewRowRow ==
    ASSUME NEW j \in Job
    PROVE  /\ NewRow(j) \in Row
           /\ NewRow(j).run = j.run
           /\ NewRow(j).sample <=> "sample" \in j.flags
           /\ NewRow(j).status = "imported"
<1>1. j.run \in Runs \cup {NoRun}
  BY DEF Job
<1>2. ("sample" \in j.flags) \in BOOLEAN /\ ("force" \in j.flags) \in BOOLEAN
  OBVIOUS
<1>3. ASSUME NEW a \in BOOLEAN, NEW b \in BOOLEAN, NEW r \in Runs \cup {NoRun}
      PROVE  LET row == [Absent EXCEPT !.status = "imported", !.run = r,
                                       !.sample = a, !.forced = b]
             IN /\ row \in Row
                /\ row.run = r /\ row.status = "imported"
                /\ row.sample = a
  BY DEF Row
<1>4. QED
  BY <1>1, <1>2, <1>3 DEF NewRow

\* An UPDATE by id leaves a table of rows.
LEMMA UpdateType ==
    ASSUME pkg \in [Pids -> Row], NEW q \in Pids, NEW row \in Row, Update(q, row)
    PROVE  pkg' \in [Pids -> Row]
BY DEF Update

\* The helpers that move a process to its next step keep the types of pc and job:
\* with new arguments,
LEMMA BeginType ==
    ASSUME TypeOK, NEW p \in Procs, NEW label \in Labels, NEW j \in Job,
           Begin(p, label, j)
    PROVE  /\ pc' \in [Procs -> Labels]
           /\ job' \in [Procs -> Job]
BY DEF Begin, Goto, TypeOK

\* when a command ends,
LEMMA FinishType ==
    ASSUME TypeOK, NEW p \in Procs, Finish(p)
    PROVE  /\ pc' \in [Procs -> Labels]
           /\ job' \in [Procs -> Job]
<1>1. NoJob \in Job /\ "idle" \in Labels
  BY DEF Job, Labels
<1>2. QED
  BY <1>1, BeginType DEF Finish

\* and when only the step changes.
LEMMA GotoType ==
    ASSUME TypeOK, NEW p \in Procs, NEW label \in Labels, Goto(p, label), UNCHANGED job
    PROVE  /\ pc' \in [Procs -> Labels]
           /\ job' \in [Procs -> Job]
BY DEF Goto, TypeOK

\* A restart of the server leaves a process where it was, or with nothing to do.
LEMMA RestartFrame ==
    ASSUME TypeOK, Restart
    PROVE  /\ pc' \in [Procs -> Labels] /\ job' \in [Procs -> Job]
           /\ UNCHANGED <<pkg, seen, issued>>
           /\ \A o \in Procs : (pc'[o] = pc[o] /\ job'[o] = job[o]) \/ pc'[o] = "idle"
<1>1. NoJob \in Job /\ "idle" \in Labels
  BY DEF Job, Labels
<1>2. QED
  BY <1>1 DEF Restart, TypeOK

\* Type correctness of the rows and of the processes' local states.
LEMMA TypeStep == TypeOK /\ Intents /\ [Next]_vars => TypeOK'
<1> SUFFICES ASSUME TypeOK, Intents, [Next]_vars PROVE TypeOK'
  OBVIOUS
<1> USE ConstantsAssumption
<1>0. NoJob \in Job
  BY DEF Job
<1>1. ASSUME NEW p \in Procs, BeginImport(p) PROVE TypeOK'
  <2>1. PICK r \in Runs, f \in SUBSET Flags :
           Begin(p, "lookup", [NoJob EXCEPT !.run = r, !.flags = f])
    BY <1>1 DEF BeginImport
  <2>2. [NoJob EXCEPT !.run = r, !.flags = f] \in Job /\ "lookup" \in Labels
    BY DEF Job, Labels
  <2>3. QED
    BY <1>1, <2>1, <2>2, BeginType DEF BeginImport, TypeOK
<1>2. ASSUME NEW p \in Procs, BeginWatch(p) PROVE TypeOK'
  <2>1. PICK r \in Runs \ seen, next \in {"insert", "log"} :
           Begin(p, next, [NoJob EXCEPT !.run = r])
    BY <1>2 DEF BeginWatch
  <2>2. [NoJob EXCEPT !.run = r] \in Job /\ next \in Labels
    BY DEF Job, Labels
  <2>3. QED
    BY <1>2, <2>1, <2>2, BeginType DEF BeginWatch, TypeOK
<1>3. ASSUME NEW p \in Procs, LookupRun(p) PROVE TypeOK'
  <2>1. /\ "insert" \in Labels /\ "delete" \in Labels /\ "log" \in Labels
        /\ [job[p] EXCEPT !.flags = {}] \in Job
        /\ \A q \in Pids : [job[p] EXCEPT !.pid = q] \in Job
    BY DEF Job, Labels, TypeOK
  <2>2. pc' \in [Procs -> Labels] /\ job' \in [Procs -> Job]
    BY <1>3, <2>1, BeginType, GotoType DEF LookupRun, RowsOf
  <2>3. QED
    BY <1>3, <2>2 DEF LookupRun, TypeOK
<1>4. ASSUME NEW p \in Procs, DeleteOld(p) PROVE TypeOK'
  <2>1. Absent \in Row /\ "insert" \in Labels
    BY DEF Row, Labels
  <2>2. pc' \in [Procs -> Labels] /\ job' \in [Procs -> Job]
    BY <1>4, <2>1, GotoType DEF DeleteOld
  <2>3. QED
    BY <1>4, <2>1, <2>2 DEF DeleteOld, TypeOK
<1>5. ASSUME NEW p \in Procs, InsertRow(p) PROVE TypeOK'
  <2>1. PICK q \in Pids :
          /\ IF job[p].pid = NoPid
             THEN issued' = [issued EXCEPT ![q] = job[p].run]
             ELSE UNCHANGED issued
          /\ pkg' = [pkg EXCEPT ![q] = NewRow(job[p])]
          /\ Begin(p, "finalize", [job[p] EXCEPT !.pid = q])
    BY <1>5 DEF InsertRow
  <2>2. [job[p] EXCEPT !.pid = q] \in Job /\ "finalize" \in Labels /\ job[p] \in Job
    BY DEF Job, Labels, TypeOK
  <2>3. issued' \in [Pids -> Runs \cup {NoRun}]
    <3>1. job[p].run \in Runs \cup {NoRun}
      BY <2>2 DEF Job
    <3>2. QED
      BY <2>1, <3>1 DEF TypeOK
  <2>4. pkg' \in [Pids -> Row]
    BY <2>1, <2>2, NewRowRow DEF TypeOK
  <2>5. pc' \in [Procs -> Labels] /\ job' \in [Procs -> Job]
    BY <2>1, <2>2, BeginType
  <2>6. QED
    BY <1>5, <2>3, <2>4, <2>5 DEF InsertRow, TypeOK
<1>6. ASSUME NEW p \in Procs,
             DuplicateRefused(p) \/ SampleRefused(p) \/ IdCollision(p) \/ LazyAbort(p)
      PROVE  TypeOK'
  BY <1>6, FinishType DEF DuplicateRefused, SampleRefused, IdCollision, LazyAbort, TypeOK
<1>7. ASSUME NEW p \in Procs, FinalizeStaged(p) PROVE TypeOK'
  <2>1. job[p].pid \in Pids /\ "log" \in Labels
    BY <1>7 DEF Intents, HasArgs, FinalizeStaged, Labels
  <2>2. PICK when \in {"null", "later"} : Update(job[p].pid, Staged(pkg[job[p].pid], when))
    BY <1>7 DEF FinalizeStaged
  <2>3. Staged(pkg[job[p].pid], when) \in Row
    BY <2>1, StagedRow DEF TypeOK
  <2>4. pkg' \in [Pids -> Row]
    BY <2>1, <2>2, <2>3, UpdateType DEF TypeOK
  <2>5. QED
    BY <1>7, <2>1, <2>4, GotoType DEF FinalizeStaged, TypeOK
<1>8. ASSUME NEW p \in Procs, FinalizeRead(p) PROVE TypeOK'
  <2>1. "publish" \in Labels
    BY DEF Labels
  <2>2. QED
    BY <1>8, <2>1, GotoType, FinishType DEF FinalizeRead, TypeOK
<1>9. ASSUME NEW p \in Procs, FinalizeWrite(p) PROVE TypeOK'
  <2>1. job[p].pid \in Pids /\ "log" \in Labels
    BY <1>9 DEF Intents, HasArgs, FinalizeWrite, Labels
  <2>2. pkg' \in [Pids -> Row]
    BY <1>9, <2>1, PublishedRow, UpdateType DEF FinalizeWrite, TypeOK
  <2>3. QED
    BY <1>9, <2>1, <2>2, GotoType DEF FinalizeWrite, TypeOK
<1>10. ASSUME NEW p \in Procs, LogRun(p) PROVE TypeOK'
  <2>1. "mark_read" \in Labels
    BY DEF Labels
  <2>2. pc' \in [Procs -> Labels] /\ job' \in [Procs -> Job]
    BY <1>10, <2>1, GotoType, FinishType DEF LogRun
  <2>3. QED
    BY <1>10, <2>2 DEF LogRun, TypeOK, Intents, HasArgs
<1>11. ASSUME NEW p \in Procs, BeginMark(p) \/ WithholdRead(p) \/ RepublishRead(p)
       PROVE  TypeOK'
  <2>1. PICK q \in Pids, label \in {"mark_read", "withhold", "republish"} :
           Begin(p, label, [NoJob EXCEPT !.pid = q])
    BY <1>11 DEF BeginMark, WithholdRead, RepublishRead
  <2>2. [NoJob EXCEPT !.pid = q] \in Job /\ label \in Labels
    BY DEF Job, Labels
  <2>3. UNCHANGED <<pkg, seen, issued, stops>>
    BY <1>11 DEF BeginMark, WithholdRead, RepublishRead
  <2>4. QED
    BY <2>1, <2>2, <2>3, BeginType DEF TypeOK
<1>12. ASSUME NEW p \in Procs, MarkRead(p) PROVE TypeOK'
  <2>1. "mark_write" \in Labels
    BY DEF Labels
  <2>2. QED
    BY <1>12, <2>1, GotoType, FinishType DEF MarkRead, TypeOK
<1>13. ASSUME NEW p \in Procs, MarkWrite(p) PROVE TypeOK'
  <2>1. \A q \in Pids, b \in BOOLEAN : [pkg[q] EXCEPT !.sample = b] \in Row
    BY DEF TypeOK, Row
  <2>2. \A q \in Pids : ((q = job[p].pid) /\ Stored(q)) \in BOOLEAN
    OBVIOUS
  <2>3. pkg' \in [Pids -> Row]
    BY <1>13, <2>1, <2>2 DEF MarkWrite
  <2>4. QED
    BY <1>13, <2>3, FinishType DEF MarkWrite, TypeOK
<1>14. ASSUME NEW p \in Procs, Unmark(p) PROVE TypeOK'
  <2>1. PICK q \in Pids : Update(q, [pkg[q] EXCEPT !.sample = FALSE])
    BY <1>14 DEF Unmark
  <2>2. [pkg[q] EXCEPT !.sample = FALSE] \in Row
    BY CuratedRow DEF TypeOK
  <2>3. QED
    BY <1>14, <2>1, <2>2, UpdateType DEF Unmark, TypeOK
<1>15. ASSUME NEW p \in Procs, WithholdWrite(p) PROVE TypeOK'
  <2>1. job[p].pid \in Pids
    BY <1>15 DEF Intents, HasArgs, WithholdWrite
  <2>2. [pkg[job[p].pid] EXCEPT !.status = "withheld", !.withheldAt = TRUE] \in Row
    BY <2>1, CuratedRow DEF TypeOK
  <2>3. pkg' \in [Pids -> Row]
    BY <1>15, <2>1, <2>2, UpdateType DEF WithholdWrite, TypeOK
  <2>4. QED
    BY <1>15, <2>3, FinishType DEF WithholdWrite, TypeOK
<1>16. ASSUME NEW p \in Procs, RepublishWrite(p) PROVE TypeOK'
  <2>1. job[p].pid \in Pids
    BY <1>16 DEF Intents, HasArgs, RepublishWrite
  <2>2. Published(pkg[job[p].pid]) \in Row
    BY <2>1, PublishedRow DEF TypeOK
  <2>3. [Published(pkg[job[p].pid]) EXCEPT !.withheldAt = FALSE] \in Row
    BY <2>2, CuratedRow
  <2>4. pkg' \in [Pids -> Row]
    BY <1>16, <2>1, <2>3, UpdateType DEF RepublishWrite, TypeOK
  <2>5. QED
    BY <1>16, <2>4, FinishType DEF RepublishWrite, TypeOK
<1>17. ASSUME NEW p \in Procs, LazyScan(p) PROVE TypeOK'
  <2>1. [NoJob EXCEPT !.queue = Due] \in Job /\ "lazy_read" \in Labels
    BY DEF Job, Labels, Due
  <2>2. QED
    BY <1>17, <2>1, BeginType DEF LazyScan, TypeOK
<1>18. ASSUME NEW p \in Procs, LazyRead(p) PROVE TypeOK'
  <2>1. "lazy_write" \in Labels /\ job[p].queue \subseteq Pids
    BY DEF Labels, TypeOK, Job
  <2>2. \A q \in Pids : [job[p] EXCEPT !.pid = q] \in Job
    BY DEF Job, TypeOK
  <2>3. pc' \in [Procs -> Labels] /\ job' \in [Procs -> Job]
    BY <1>18, <2>1, <2>2, BeginType, FinishType DEF LazyRead
  <2>4. QED
    BY <1>18, <2>3 DEF LazyRead, TypeOK
<1>19. ASSUME NEW p \in Procs, LazyWrite(p) PROVE TypeOK'
  <2> DEFINE rest == job[p].queue \ {job[p].pid}
  <2>1. PICK more \in SUBSET rest :
          /\ pkg' = [q \in Pids |->
                        IF q \in more \cup {job[p].pid} /\ Stored(q)
                        THEN Published(pkg[q]) ELSE pkg[q]]
          /\ IF more = rest THEN Finish(p)
             ELSE Begin(p, "lazy_read",
                        [job[p] EXCEPT !.pid = NoPid, !.queue = rest \ more])
    BY <1>19 DEF LazyWrite
  <2>2. pkg' \in [Pids -> Row]
    BY <2>1, PublishedRow DEF TypeOK
  <2>3. [job[p] EXCEPT !.pid = NoPid, !.queue = rest \ more] \in Job
    <3>1. job[p] \in Job
      BY DEF TypeOK
    <3>2. rest \ more \in SUBSET Pids
      BY <3>1 DEF Job
    <3>3. \A S \in SUBSET Pids : [job[p] EXCEPT !.pid = NoPid, !.queue = S] \in Job
      BY <3>1 DEF Job
    <3>4. QED
      BY <3>2, <3>3
  <2>4. "lazy_read" \in Labels
    BY DEF Labels
  <2>5. pc' \in [Procs -> Labels] /\ job' \in [Procs -> Job]
    BY <2>1, <2>3, <2>4, BeginType, FinishType
  <2>6. QED
    BY <1>19, <2>2, <2>5 DEF LazyWrite, TypeOK
<1>20. ASSUME NEW q \in Pids, Elapse(q) PROVE TypeOK'
  <2>1. [pkg[q] EXCEPT !.after = "due"] \in Row
    BY CuratedRow DEF TypeOK
  <2>2. QED
    BY <1>20, <2>1 DEF Elapse, TypeOK
<1>21. ASSUME NEW p \in Procs, Halt(p) PROVE TypeOK'
  <2>1. "stuck" \in Labels
    BY DEF Labels
  <2>2. pc' \in [Procs -> Labels] /\ job' \in [Procs -> Job]
    BY <1>0, <1>21, <2>1, FinishType, BeginType DEF Halt, Stop, Stick, Unstick
  <2>3. QED
    BY <1>21, <2>2 DEF Halt, Stop, Stick, Unstick, TypeOK
<1>24. CASE Restart
  <2>1. stops' \in 0..MaxStops
    BY <1>24 DEF Restart, TypeOK
  <2>2. /\ pc' \in [Procs -> Labels] /\ job' \in [Procs -> Job]
        /\ UNCHANGED <<pkg, seen, issued>>
    BY <1>24, RestartFrame
  <2>3. QED
    BY <2>1, <2>2 DEF TypeOK
<1>22. CASE UNCHANGED vars
  BY <1>22 DEF vars, TypeOK
<1>23. QED
  BY <1>1, <1>2, <1>3, <1>4, <1>5, <1>6, <1>7, <1>8, <1>9, <1>10, <1>11, <1>12, <1>13,
     <1>14, <1>15, <1>16, <1>17, <1>18, <1>19, <1>20, <1>21, <1>22, <1>24
     DEF Next, Import, Curate, Lazy

-------------------------------------------------------------------------------
\* A step of p leaves the other processes alone, and an issued id stays issued
\* for its run: only p's own arguments and intent remain to be shown.
LEMMA OthersKeepIntents ==
    ASSUME TypeOK, Intents, NEW p \in Procs,
           \A q \in Pids : issued[q] \in Runs => issued'[q] = issued[q],
           \A o \in Procs \ {p} : pc'[o] = pc[o] /\ job'[o] = job[o],
           HasArgs(p)', Intent(p)'
    PROVE  Intents'
<1> SUFFICES ASSUME NEW o \in Procs \ {p} PROVE HasArgs(o)' /\ Intent(o)'
  BY DEF Intents
<1>1. HasArgs(o) /\ Intent(o) /\ pc'[o] = pc[o] /\ job'[o] = job[o]
  BY DEF Intents
<1>2. HasArgs(o)'
  BY <1>1 DEF HasArgs
<1>3. Intent(o)'
  BY <1>1 DEF Intent, HasArgs
<1>4. QED
  BY <1>2, <1>3

\* They touch no other process: with new arguments,
LEMMA BeginFrame ==
    ASSUME TypeOK, NEW p \in Procs, NEW label, NEW j, Begin(p, label, j)
    PROVE  /\ pc'[p] = label /\ job'[p] = j
           /\ \A o \in Procs \ {p} : pc'[o] = pc[o] /\ job'[o] = job[o]
BY DEF Begin, Goto, TypeOK

\* or with the same ones.
LEMMA GotoFrame ==
    ASSUME TypeOK, NEW p \in Procs, NEW label, Goto(p, label), UNCHANGED job
    PROVE  /\ pc'[p] = label /\ job'[p] = job[p]
           /\ \A o \in Procs \ {p} : pc'[o] = pc[o] /\ job'[o] = job[o]
BY DEF Goto, TypeOK

\* A command that ends relies on nothing any more.
LEMMA FinishIntents ==
    ASSUME TypeOK, Intents, NEW p \in Procs, Finish(p), UNCHANGED issued
    PROVE  Intents'
<1>1. /\ pc'[p] = "idle"
      /\ \A o \in Procs \ {p} : pc'[o] = pc[o] /\ job'[o] = job[o]
  BY BeginFrame DEF Finish
<1>2. HasArgs(p)' /\ Intent(p)'
  BY <1>1 DEF HasArgs, Intent
<1>3. QED
  BY <1>1, <1>2, OthersKeepIntents

\* The arguments import-run starts with.
LEMMA NewImport ==
    ASSUME NEW n \in Job, NEW r \in Runs, NEW f \in SUBSET Flags
    PROVE  LET j == [n EXCEPT !.run = r, !.flags = f]
           IN j.run = r /\ j.pid = n.pid
BY DEF Job

\* What a process has read stays true for as long as it relies on it.
LEMMA IntentStep == TypeOK /\ Intents /\ Rows /\ [Next]_vars => Intents'
<1> SUFFICES ASSUME TypeOK, Intents, Rows, [Next]_vars PROVE Intents'
  OBVIOUS
<1> USE ConstantsAssumption
<1>1. ASSUME NEW p \in Procs, BeginImport(p) PROVE Intents'
  <2>1. PICK r \in Runs, f \in SUBSET Flags :
           Begin(p, "lookup", [NoJob EXCEPT !.run = r, !.flags = f])
    BY <1>1 DEF BeginImport
  <2>2. pc'[p] = "lookup" /\ job'[p] = [NoJob EXCEPT !.run = r, !.flags = f]
    BY <2>1, BeginFrame
  <2>. NoJob \in Job /\ NoJob.pid = NoPid
    BY DEF Job
  <2>. HIDE DEF NoJob
  <2>3. HasArgs(p)' /\ Intent(p)'
    BY <2>2, NewImport DEF HasArgs, Intent
  <2>4. QED
    BY <1>1, <2>1, <2>3, BeginFrame, OthersKeepIntents DEF BeginImport
<1>2. ASSUME NEW p \in Procs, BeginWatch(p) PROVE Intents'
  <2>1. PICK r \in Runs, next \in {"insert", "log"} :
           Begin(p, next, [NoJob EXCEPT !.run = r])
    BY <1>2 DEF BeginWatch
  <2>2. pc'[p] \in {"insert", "log"} /\ job'[p].run \in Runs /\ job'[p].pid = NoPid
    BY <2>1, BeginFrame
  <2>3. HasArgs(p)' /\ Intent(p)'
    BY <2>2 DEF HasArgs, Intent
  <2>4. QED
    BY <1>2, <2>1, <2>3, BeginFrame, OthersKeepIntents DEF BeginWatch
<1>3. ASSUME NEW p \in Procs, LookupRun(p) PROVE Intents'
  <2>1. job[p].run \in Runs /\ UNCHANGED issued /\ job[p] \in Job
    BY <1>3 DEF Intents, HasArgs, LookupRun, TypeOK
  <2>. job[p].pid = NoPid
    BY <1>3 DEF Intents, Intent, LookupRun
  <2>2. CASE Goto(p, "insert") /\ UNCHANGED job
    <3>1. pc'[p] = "insert" /\ job'[p] = job[p]
      BY <2>2, GotoFrame
    <3>2. HasArgs(p)' /\ Intent(p)'
      BY <2>1, <2>2, <3>1 DEF HasArgs, Intent
    <3>3. QED
      BY <2>1, <2>2, <3>2, GotoFrame, OthersKeepIntents
  <2>3. ASSUME NEW q \in RowsOf(job[p].run), Begin(p, "delete", [job[p] EXCEPT !.pid = q])
        PROVE  Intents'
    <3>1. issued[q] = job[p].run /\ q \in Pids
      BY <2>3 DEF RowsOf, Rows, RowsOK
    <3>2. pc'[p] = "delete" /\ job'[p].pid = q /\ job'[p].run = job[p].run
      BY <2>1, <2>3, BeginFrame DEF Job
    <3>3. HasArgs(p)' /\ Intent(p)'
      BY <2>1, <3>1, <3>2 DEF HasArgs, Intent
    <3>4. QED
      BY <2>1, <2>3, <3>3, BeginFrame, OthersKeepIntents
  <2>4. CASE Begin(p, "log", [job[p] EXCEPT !.flags = {}])
    <3>1. pc'[p] = "log" /\ job'[p].run = job[p].run
      BY <2>1, <2>4, BeginFrame DEF Job
    <3>2. HasArgs(p)' /\ Intent(p)'
      BY <2>1, <3>1 DEF HasArgs, Intent
    <3>3. QED
      BY <2>1, <2>4, <3>2, BeginFrame, OthersKeepIntents
  <2>5. QED
    BY <1>3, <2>2, <2>3, <2>4 DEF LookupRun
<1>4. ASSUME NEW p \in Procs, DeleteOld(p) PROVE Intents'
  <2>1. HasArgs(p) /\ Intent(p) /\ pc[p] = "delete" /\ UNCHANGED issued
    BY <1>4 DEF Intents, DeleteOld
  <2>2. pc'[p] = "insert" /\ job'[p] = job[p]
    BY <1>4, GotoFrame DEF DeleteOld
  <2>3. HasArgs(p)' /\ Intent(p)'
    BY <2>1, <2>2 DEF HasArgs, Intent
  <2>4. QED
    BY <1>4, <2>1, <2>3, GotoFrame, OthersKeepIntents DEF DeleteOld
<1>5. ASSUME NEW p \in Procs, InsertRow(p) PROVE Intents'
  <2>1. PICK q \in Pids :
          /\ \/ issued[q] = NoRun /\ issued' = [issued EXCEPT ![q] = job[p].run]
             \/ UNCHANGED issued
          /\ Begin(p, "finalize", [job[p] EXCEPT !.pid = q])
    BY <1>5 DEF InsertRow
  <2>2. \A o \in Pids : issued[o] \in Runs => issued'[o] = issued[o]
    BY <2>1 DEF TypeOK
  <2>3. HasArgs(p) /\ pc[p] = "insert" /\ job[p] \in Job
    BY <1>5 DEF Intents, InsertRow, TypeOK
  <2>4. pc'[p] = "finalize" /\ job'[p].pid = q /\ job'[p].run = job[p].run
    BY <2>1, <2>3, BeginFrame DEF Job
  <2>5. HasArgs(p)' /\ Intent(p)'
    BY <2>3, <2>4 DEF HasArgs, Intent
  <2>6. QED
    BY <2>1, <2>2, <2>5, BeginFrame, OthersKeepIntents
<1>6. ASSUME NEW p \in Procs, Finish(p), UNCHANGED issued PROVE Intents'
  BY <1>6, FinishIntents
<1>7. ASSUME NEW p \in Procs, FinalizeStaged(p) \/ FinalizeWrite(p) PROVE Intents'
  <2>1. /\ HasArgs(p) /\ pc[p] \in {"finalize", "publish"} /\ UNCHANGED issued
        /\ Goto(p, "log") /\ UNCHANGED job
    BY <1>7 DEF Intents, FinalizeStaged, FinalizeWrite
  <2>2. HasArgs(p)' /\ Intent(p)'
    BY <2>1, GotoFrame DEF HasArgs, Intent
  <2>3. QED
    BY <2>1, <2>2, GotoFrame, OthersKeepIntents
<1>8. ASSUME NEW p \in Procs, FinalizeRead(p) PROVE Intents'
  <2>1. HasArgs(p) /\ pc[p] = "finalize" /\ UNCHANGED issued /\ job[p].pid \in Pids
    BY <1>8 DEF Intents, HasArgs, FinalizeRead
  <2>2. CASE Goto(p, "publish") /\ UNCHANGED job /\ ~Unpublishable(job[p].pid)
    <3>1. issued[job[p].pid] \in Runs \ NaiveRuns
      BY <2>1, <2>2 DEF Unpublishable, Rows, RowsOK
    <3>2. HasArgs(p)' /\ Intent(p)'
      BY <2>1, <2>2, <3>1, GotoFrame DEF HasArgs, Intent
    <3>3. QED
      BY <2>1, <2>2, <3>2, GotoFrame, OthersKeepIntents
  <2>3. QED
    BY <1>6, <1>8, <2>1, <2>2 DEF FinalizeRead
<1>9. ASSUME NEW p \in Procs, NEW label \in {"mark_read", "mark_write"},
             Goto(p, label), UNCHANGED <<issued, job>>
      PROVE  Intents'
  <2>1. HasArgs(p)' /\ Intent(p)'
    BY <1>9, GotoFrame DEF HasArgs, Intent
  <2>2. QED
    BY <1>9, <2>1, GotoFrame, OthersKeepIntents
<1>10. ASSUME NEW p \in Procs, NEW label \in {"mark_read", "lazy_read", "stuck"}, NEW j,
              Begin(p, label, j), UNCHANGED issued
       PROVE  Intents'
  <2>1. HasArgs(p)' /\ Intent(p)'
    BY <1>10, BeginFrame DEF HasArgs, Intent
  <2>2. QED
    BY <1>10, <2>1, BeginFrame, OthersKeepIntents
<1>11. ASSUME NEW p \in Procs, NEW q \in Pids, NEW label \in {"withhold", "republish", "lazy_write"},
              NEW j \in Job, Begin(p, label, [j EXCEPT !.pid = q]),
              pkg[q].status = "published" \/ ~Unpublishable(q), UNCHANGED issued
       PROVE  Intents'
  <2>1. Stored(q) /\ pkg[q].run \notin NaiveRuns
    BY <1>11 DEF Unpublishable, Stored, Rows, NaiveNeverServed
  <2>2. issued[q] \in Runs \ NaiveRuns
    BY <2>1 DEF Rows, RowsOK
  <2>3. pc'[p] = label /\ job'[p].pid = q
    BY <1>11, BeginFrame DEF Job
  <2>4. HasArgs(p)' /\ Intent(p)'
    BY <2>2, <2>3, <1>11 DEF HasArgs, Intent
  <2>5. QED
    BY <1>11, <2>4, BeginFrame, OthersKeepIntents
<1>12. NoJob \in Job /\ \A p \in Procs : job[p] \in Job /\ job[p].queue \subseteq Pids
  BY DEF Job, TypeOK
<1>13. ASSUME NEW p \in Procs, WithholdRead(p) \/ RepublishRead(p) \/ LazyRead(p)
       PROVE  Intents'
  BY <1>6, <1>11, <1>12, <1>13 DEF WithholdRead, RepublishRead, LazyRead
<1>14. ASSUME NEW p \in Procs, LazyWrite(p) PROVE Intents'
  BY <1>6, <1>10, <1>14 DEF LazyWrite
<1>15. ASSUME NEW p \in Procs,
              \/ DuplicateRefused(p) \/ SampleRefused(p) \/ IdCollision(p)
              \/ MarkWrite(p) \/ WithholdWrite(p) \/ RepublishWrite(p)
              \/ LazyAbort(p) \/ Stop(p) \/ Unstick(p)
       PROVE  Intents'
  BY <1>6, <1>15 DEF DuplicateRefused, SampleRefused, IdCollision, MarkWrite,
                     WithholdWrite, RepublishWrite, LazyAbort, Stop, Unstick
<1>16. ASSUME NEW p \in Procs, LogRun(p) \/ MarkRead(p) PROVE Intents'
  BY <1>6, <1>9, <1>16 DEF LogRun, MarkRead
<1>17. ASSUME NEW p \in Procs, BeginMark(p) \/ LazyScan(p) \/ Stick(p) PROVE Intents'
  BY <1>10, <1>17 DEF BeginMark, LazyScan, Stick
<1>18. ASSUME UNCHANGED <<pc, job, issued>> PROVE Intents'
  BY <1>18 DEF Intents, HasArgs, Intent
<1>19. ASSUME NEW p \in Procs, Unmark(p) PROVE Intents'
  BY <1>18, <1>19 DEF Unmark
<1>20. ASSUME NEW q \in Pids, Elapse(q) PROVE Intents'
  BY <1>18, <1>20 DEF Elapse
<1>21. CASE UNCHANGED vars
  BY <1>18, <1>21 DEF vars
<1>22. CASE Restart
  BY <1>22, RestartFrame DEF Intents, HasArgs, Intent
<1>23. QED
  BY <1>1, <1>2, <1>3, <1>4, <1>5, <1>7, <1>8, <1>13, <1>14, <1>15, <1>16, <1>17,
     <1>19, <1>20, <1>21, <1>22 DEF Next, Import, Curate, Lazy, Halt

-------------------------------------------------------------------------------
\* A write that adds and removes no row, renames no run, marks no sample and
\* serves only what may be served keeps the row invariants.
LEMMA RowsKept ==
    ASSUME TypeOK, Rows, UNCHANGED issued,
           \A q \in Pids :
              /\ Stored(q)' <=> Stored(q)
              /\ pkg'[q].run = pkg[q].run
              /\ pkg'[q].sample => pkg[q].sample
              /\ pkg'[q].status \in {"published", "withheld"}
                    => \/ pkg[q].status \in {"published", "withheld"}
                       \/ pkg[q].run \notin NaiveRuns
    PROVE  Rows'
<1>1. RowsOK'
  BY DEF Rows, RowsOK
<1>2. OneSample'
  BY DEF Rows, OneSample, Samples
<1>3. RunStoredOnce'
  BY DEF Rows, RunStoredOnce
<1>4. NaiveNeverServed'
  BY DEF Rows, NaiveNeverServed
<1>5. QED
  BY <1>1, <1>2, <1>3, <1>4 DEF Rows

\* One UPDATE by id of a row of its own run, served only if it may be.
LEMMA UpdateRows ==
    ASSUME TypeOK, Rows, UNCHANGED issued, NEW q \in Pids, NEW row \in Row, Update(q, row),
           row.run = pkg[q].run, row.status # "absent", row.sample => pkg[q].sample,
           row.status \in {"published", "withheld"} /\ Stored(q)
              => pkg[q].run \notin NaiveRuns
    PROVE  Rows'
<1>1. CASE ~Stored(q)
  <2>1. pkg' = pkg
    BY <1>1 DEF Update
  <2>2. \A o \in Pids : Stored(o)' <=> Stored(o)
    BY <2>1 DEF Stored
  <2>3. QED
    BY <2>1, <2>2, RowsKept
<1>2. CASE Stored(q)
  <2>1. /\ pkg'[q] = row
        /\ \A o \in Pids \ {q} : pkg'[o] = pkg[o]
    BY <1>2 DEF Update, TypeOK
  <2>2. \A o \in Pids : Stored(o)' <=> Stored(o)
    BY <1>2, <2>1 DEF Stored
  <2>3. QED
    BY <1>2, <2>1, <2>2, RowsKept
<1>3. QED
  BY <1>1, <1>2

\* Every step of every process keeps the row invariants.
LEMMA RowStep == TypeOK /\ Intents /\ Rows /\ [Next]_vars => Rows'
<1> SUFFICES ASSUME TypeOK, Intents, Rows, [Next]_vars PROVE Rows'
  OBVIOUS
<1> USE ConstantsAssumption
<1>1. ASSUME UNCHANGED <<pkg, issued>> PROVE Rows'
  BY <1>1 DEF Rows, RowsOK, OneSample, RunStoredOnce, NaiveNeverServed, Stored, Samples
<1>2. ASSUME NEW p \in Procs, DeleteOld(p) PROVE Rows'
  <2>1. /\ job[p].pid \in Pids /\ UNCHANGED issued
        /\ pkg' = [pkg EXCEPT ![job[p].pid] = Absent]
    BY <1>2 DEF Intents, HasArgs, DeleteOld
  <2>2. /\ pkg'[job[p].pid].status = "absent" /\ ~pkg'[job[p].pid].sample
        /\ \A q \in Pids \ {job[p].pid} : pkg'[q] = pkg[q]
    BY <2>1 DEF TypeOK
  <2>3. \A q \in Pids : Stored(q)' <=> Stored(q) /\ q # job[p].pid
    BY <2>1, <2>2 DEF Stored
  <2>4. RowsOK'
    BY <2>1, <2>2, <2>3 DEF Rows, RowsOK
  <2>5. OneSample'
    BY <2>2 DEF Rows, OneSample, Samples
  <2>6. RunStoredOnce'
    BY <2>2, <2>3 DEF Rows, RunStoredOnce
  <2>7. NaiveNeverServed'
    BY <2>2 DEF Rows, NaiveNeverServed
  <2>8. QED
    BY <2>4, <2>5, <2>6, <2>7 DEF Rows
<1>3. ASSUME NEW p \in Procs, InsertRow(p) PROVE Rows'
  <2> DEFINE r == job[p].run
  <2>1. PICK q \in Pids :
          /\ ~Stored(q)
          /\ IF job[p].pid = NoPid
             THEN /\ issued[q] = NoRun
                  /\ issued' = [issued EXCEPT ![q] = r]
             ELSE q = job[p].pid /\ UNCHANGED issued
          /\ pkg' = [pkg EXCEPT ![q] = NewRow(job[p])]
    BY <1>3 DEF InsertRow
  <2>2. /\ pc[p] = "insert" /\ ~RunTaken(p) /\ ~SampleTaken(p) /\ job[p] \in Job
        /\ r \in Runs /\ HasArgs(p) /\ Intent(p)
    BY <1>3 DEF InsertRow, Intents, HasArgs, TypeOK
  <2>3. /\ pkg'[q].run = r /\ pkg'[q].status = "imported"
        /\ pkg'[q].sample <=> "sample" \in job[p].flags
        /\ \A o \in Pids \ {q} : pkg'[o] = pkg[o]
    BY <2>1, <2>2, NewRowRow DEF TypeOK
  <2>4. /\ issued'[q] = r
        /\ \A o \in Pids \ {q} : issued'[o] = issued[o]
    BY <2>1, <2>2 DEF TypeOK, Intent, Job
  <2>5. \A o \in Pids : Stored(o)' <=> Stored(o) \/ o = q
    BY <2>1, <2>3 DEF Stored
  <2>6. RowsOK'
    BY <2>2, <2>3, <2>4, <2>5 DEF Rows, RowsOK
  <2>7. OneSample'
    <3>1. ASSUME NEW o \in Pids, pkg'[o].sample, o # q PROVE ~pkg'[q].sample
      BY <2>2, <2>3, <3>1 DEF SampleTaken, Samples
    <3>2. QED
      BY <2>3, <3>1 DEF Rows, OneSample, Samples
  <2>8. RunStoredOnce'
    <3>1. \A o \in Pids : Stored(o) => pkg[o].run # r
      BY <2>2 DEF RunTaken, RowsOf
    <3>2. QED
      BY <2>3, <2>5, <3>1 DEF Rows, RunStoredOnce
  <2>9. NaiveNeverServed'
    BY <2>3 DEF Rows, NaiveNeverServed
  <2>10. QED
    BY <2>6, <2>7, <2>8, <2>9 DEF Rows
<1>4. ASSUME NEW p \in Procs, FinalizeStaged(p) PROVE Rows'
  <2>1. job[p].pid \in Pids /\ UNCHANGED issued /\ pkg[job[p].pid] \in Row
    BY <1>4 DEF Intents, HasArgs, FinalizeStaged, TypeOK
  <2>2. PICK when \in {"null", "later"} : Update(job[p].pid, Staged(pkg[job[p].pid], when))
    BY <1>4 DEF FinalizeStaged
  <2>3. QED
    BY <2>1, <2>2, StagedRow, UpdateRows
<1>5. ASSUME NEW p \in Procs, FinalizeWrite(p) \/ WithholdWrite(p) \/ RepublishWrite(p)
      PROVE  /\ job[p].pid \in Pids /\ UNCHANGED issued /\ pkg[job[p].pid] \in Row
             /\ Stored(job[p].pid) => pkg[job[p].pid].run \notin NaiveRuns
  BY <1>5 DEF Intents, HasArgs, Intent, FinalizeWrite, WithholdWrite, RepublishWrite,
              TypeOK, Rows, RowsOK
<1>6. ASSUME NEW p \in Procs, FinalizeWrite(p) PROVE Rows'
  BY <1>5, <1>6, PublishedRow, UpdateRows DEF FinalizeWrite
<1>7. ASSUME NEW p \in Procs, WithholdWrite(p) PROVE Rows'
  <2> DEFINE row == [pkg[job[p].pid] EXCEPT !.status = "withheld", !.withheldAt = TRUE]
  <2>1. row \in Row
    BY <1>5, <1>7, CuratedRow
  <2>2. /\ row.run = pkg[job[p].pid].run /\ row.status = "withheld"
        /\ row.sample = pkg[job[p].pid].sample
    BY <1>5, <1>7 DEF Row
  <2>3. Update(job[p].pid, row)
    BY <1>7 DEF WithholdWrite
  <2>4. QED
    BY <1>5, <1>7, <2>1, <2>2, <2>3, UpdateRows
<1>8. ASSUME NEW p \in Procs, RepublishWrite(p) PROVE Rows'
  <2> DEFINE pub == Published(pkg[job[p].pid])
             row == [pub EXCEPT !.withheldAt = FALSE]
  <2>1. pub \in Row
    BY <1>5, <1>8, PublishedRow
  <2>2. row \in Row
    BY <2>1, CuratedRow
  <2>3. row.run = pub.run /\ row.status = pub.status /\ row.sample = pub.sample
    BY <2>1 DEF Row
  <2>4. /\ row.run = pkg[job[p].pid].run /\ row.status = "published"
        /\ row.sample = pkg[job[p].pid].sample
    BY <1>5, <1>8, <2>3, PublishedRow
  <2>5. Update(job[p].pid, row)
    BY <1>8 DEF RepublishWrite
  <2>6. QED
    BY <1>5, <1>8, <2>2, <2>4, <2>5, UpdateRows
<1>9. ASSUME NEW p \in Procs, MarkWrite(p) PROVE Rows'
  <2> DEFINE marked(q) == (q = job[p].pid) /\ Stored(q)
  <2>1. \A q \in Pids, b \in BOOLEAN :
           LET row == [pkg[q] EXCEPT !.sample = b]
           IN /\ row.run = pkg[q].run /\ row.status = pkg[q].status
              /\ row.sample = b
    BY DEF TypeOK, Row
  <2>2. \A q \in Pids : marked(q) \in BOOLEAN
    OBVIOUS
  <2>3. UNCHANGED issued /\ pkg' = [q \in Pids |-> [pkg[q] EXCEPT !.sample = marked(q)]]
    BY <1>9 DEF MarkWrite
  <2>4. \A q \in Pids : /\ pkg'[q].run = pkg[q].run
                       /\ pkg'[q].status = pkg[q].status
                       /\ pkg'[q].sample = marked(q)
    <3> HIDE DEF marked
    <3>1. QED
      BY <2>1, <2>2, <2>3
  <2>5. \A q \in Pids : Stored(q)' <=> Stored(q)
    BY <2>4 DEF Stored
  <2>6. RowsOK'
    BY <2>3, <2>4, <2>5 DEF Rows, RowsOK
  <2>7. OneSample'
    BY <2>4 DEF OneSample, Samples
  <2>8. RunStoredOnce'
    BY <2>4, <2>5 DEF Rows, RunStoredOnce
  <2>9. NaiveNeverServed'
    BY <2>4 DEF Rows, NaiveNeverServed
  <2>10. QED
    BY <2>6, <2>7, <2>8, <2>9 DEF Rows
<1>10. ASSUME NEW p \in Procs, Unmark(p) PROVE Rows'
  <2>1. PICK q \in Pids : Update(q, [pkg[q] EXCEPT !.sample = FALSE])
    BY <1>10 DEF Unmark
  <2>2. CASE ~Stored(q)
    BY <1>1, <1>10, <2>1, <2>2 DEF Unmark, Update
  <2>3. CASE Stored(q)
    <3> DEFINE row == [pkg[q] EXCEPT !.sample = FALSE]
    <3>1. row.run = pkg[q].run /\ row.status = pkg[q].status /\ ~row.sample
      BY DEF TypeOK, Row
    <3>2. /\ pkg'[q] = row
          /\ \A o \in Pids \ {q} : pkg'[o] = pkg[o]
      BY <2>1, <2>3 DEF Update, TypeOK
    <3> HIDE DEF row
    <3>3. \A o \in Pids : Stored(o)' <=> Stored(o)
      BY <3>1, <3>2 DEF Stored
    <3>4. UNCHANGED issued
      BY <1>10 DEF Unmark
    <3>5. QED
      BY <3>1, <3>2, <3>3, <3>4, RowsKept
  <2>4. QED
    BY <2>2, <2>3
<1>11. ASSUME NEW p \in Procs, LazyWrite(p) PROVE Rows'
  <2>1. PICK more \in SUBSET (job[p].queue \ {job[p].pid}) :
          /\ \A q \in more : ~Unpublishable(q)
          /\ pkg' = [q \in Pids |->
                        IF q \in more \cup {job[p].pid} /\ Stored(q)
                        THEN Published(pkg[q]) ELSE pkg[q]]
    BY <1>11 DEF LazyWrite
  <2>2. UNCHANGED issued /\ pc[p] = "lazy_write" /\ Intent(p) /\ HasArgs(p)
    BY <1>11 DEF LazyWrite, Intents
  <2>3. \A q \in more \cup {job[p].pid} : Stored(q) => pkg[q].run \notin NaiveRuns
    BY <2>1, <2>2 DEF Unpublishable, Intent, HasArgs, Rows, RowsOK
  <2>4. \A q \in Pids : /\ pkg'[q].run = pkg[q].run
                       /\ pkg'[q].sample = pkg[q].sample
                       /\ \/ pkg'[q].status = pkg[q].status
                          \/ /\ q \in more \cup {job[p].pid} /\ Stored(q)
                             /\ pkg'[q].status = "published"
    BY <2>1, PublishedRow DEF TypeOK
  <2>5. \A q \in Pids : Stored(q)' <=> Stored(q)
    BY <2>4 DEF Stored
  <2>6. QED
    BY <2>2, <2>3, <2>4, <2>5, RowsKept
<1>12. ASSUME NEW q \in Pids, Elapse(q) PROVE Rows'
  <2>1. UNCHANGED issued /\ pkg' = [pkg EXCEPT ![q].after = "due"]
    BY <1>12 DEF Elapse
  <2>2. \A o \in Pids : /\ pkg'[o].run = pkg[o].run
                       /\ pkg'[o].sample = pkg[o].sample
                       /\ pkg'[o].status = pkg[o].status
    BY <2>1 DEF TypeOK, Row
  <2>3. \A o \in Pids : Stored(o)' <=> Stored(o)
    BY <2>2 DEF Stored
  <2>4. QED
    BY <2>1, <2>2, <2>3, RowsKept
<1>13. ASSUME NEW p \in Procs,
              \/ BeginImport(p) \/ BeginWatch(p) \/ LookupRun(p) \/ DuplicateRefused(p)
              \/ SampleRefused(p) \/ IdCollision(p) \/ FinalizeRead(p) \/ LogRun(p)
       PROVE  Rows'
  BY <1>1, <1>13 DEF BeginImport, BeginWatch, LookupRun, DuplicateRefused,
                     SampleRefused, IdCollision, FinalizeRead, LogRun
<1>14. ASSUME NEW p \in Procs,
              \/ BeginMark(p) \/ MarkRead(p) \/ WithholdRead(p) \/ RepublishRead(p)
              \/ LazyScan(p) \/ LazyRead(p) \/ LazyAbort(p) \/ Halt(p)
       PROVE  Rows'
  BY <1>1, <1>14 DEF BeginMark, MarkRead, WithholdRead, RepublishRead, LazyScan,
                     LazyRead, LazyAbort, Halt, Stop, Stick, Unstick
<1>15. CASE UNCHANGED vars \/ Restart
  BY <1>1, <1>15 DEF vars, Restart
<1>16. QED
  BY <1>2, <1>3, <1>4, <1>6, <1>7, <1>8, <1>9, <1>10, <1>11, <1>12, <1>13, <1>14, <1>15
     DEF Next, Import, Curate, Lazy

-------------------------------------------------------------------------------
\* The strengthened invariant holds when the database is empty ...
LEMMA InitIInv == Init => IInv
<1> SUFFICES ASSUME Init PROVE IInv
  OBVIOUS
<1> USE ConstantsAssumption DEF Init
<1>1. TypeOK
  <2>1. Absent \in Row /\ NoJob \in Job /\ "idle" \in Labels
    BY DEF Row, Job, Labels
  <2>2. QED
    BY <2>1 DEF TypeOK
<1>2. Intents
  BY DEF Intents, HasArgs, Intent
<1>3. Rows
  BY DEF Rows, RowsOK, OneSample, RunStoredOnce, NaiveNeverServed, Stored, Samples
<1>4. QED
  BY <1>1, <1>2, <1>3 DEF IInv

\* ... and every step of every process keeps it.
THEOREM Invariance == Spec => []IInv
<1>1. IInv /\ [Next]_vars => IInv'
  BY TypeStep, IntentStep, RowStep DEF IInv
<1>2. QED
  BY InitIInv, <1>1, PTL DEF Spec

\* Every reachable row and local state is of its type, the steps' own reads included.
THEOREM TypeCorrect == Spec => []TypeOK
<1>1. IInv => TypeOK
  BY DEF IInv
<1>2. QED
  BY <1>1, Invariance, PTL

\* At most one package is the sample, for any number of concurrent import-run
\* --sample and sample set/unset commands, and wherever they are killed.
THEOREM SampleIsSingle == Spec => []OneSample
<1>1. IInv => OneSample
  BY DEF IInv, Rows
<1>2. QED
  BY <1>1, Invariance, PTL

\* A run is stored at most once and an id always names the run it was issued
\* for, for any number of concurrent imports, replacements and watch loops.
THEOREM RunsAndIds == Spec => [](RunStoredOnce /\ PidNamesRun)
<1>1. IInv => RunStoredOnce /\ PidNamesRun
  BY DEF IInv, Rows, RowsOK, PidNamesRun
<1>2. QED
  BY <1>1, Invariance, PTL

\* No writer, however stale the row it read, ever serves a package whose
\* latency cannot be computed.
THEOREM NaiveStaysUnserved == Spec => []NaiveNeverServed
<1>1. IInv => NaiveNeverServed
  BY DEF IInv, Rows
<1>2. QED
  BY <1>1, Invariance, PTL

-------------------------------------------------------------------------------
(* The lifecycle. A write that names only an id does what the command meant *)
(* as long as the row is still the one that the command has read. Without   *)
(* --replace no row goes away under another process; alone, a process       *)
(* takes away only its own.                                                 *)

Alone == \A p1, p2 \in Procs : p1 = p2
NoTakeover == "replace" \notin Flags \/ Alone

Settled(q) == pkg[q].status \in {"published", "withheld"}
Finalizing(p) == pc[p] \in {"finalize", "publish"}

\* What a process relies on of the rows it goes on to write: an import still has the
\* row it inserted, a pass over due packages meets rows that are due or have moved on,
\* and what was published or withheld has not left these two statuses.
Claim(p) ==
    /\ pc[p] = "delete" => "replace" \in Flags /\ Stored(job[p].pid)
    /\ Finalizing(p) => /\ pkg[job[p].pid].status = "imported"
                        /\ pkg[job[p].pid].forced => "force" \in job[p].flags
    /\ pc[p] = "publish" => ~Held(p) /\ FALSE \in Delays
    /\ pc[p] \in {"lazy_read", "lazy_write"} => \A q \in job[p].queue : q \in Due \/ Settled(q)
    /\ pc[p] = "lazy_write" => job[p].pid \in job[p].queue
    /\ pc[p] \in {"withhold", "republish"} => Settled(job[p].pid)

\* No two imports finish the same row.
Apart ==
    \A p1, p2 \in Procs :
        Finalizing(p1) /\ Finalizing(p2) /\ job[p1].pid = job[p2].pid => p1 = p2

\* How the columns of a row go together, whoever wrote them.
Columns ==
    \A q \in Pids :
        /\ ~Stored(q) => pkg[q].after = "null" /\ ~pkg[q].forced
        /\ pkg[q].status = "imported" => pkg[q].after = "null"
        /\ pkg[q].forced => ~Settled(q) /\ pkg[q].after = "null"
        /\ FALSE \notin Delays /\ Settled(q) => pkg[q].after = "due"

Owned == Columns /\ Apart /\ \A p \in Procs : Claim(p)

-------------------------------------------------------------------------------
\* The row q gets these columns, keeps its others, and no other row changes.
Sets(q, status, after, publishedAt, withheldAt) ==
    /\ pkg'[q].status = status /\ pkg'[q].after = after
    /\ pkg'[q].publishedAt = publishedAt /\ pkg'[q].withheldAt = withheldAt
    /\ pkg'[q].forced = pkg[q].forced
    /\ \A o \in Pids \ {q} : pkg'[o] = pkg[o]

\* All columns of row q but the sample flag are as they were.
Same(q) ==
    /\ pkg'[q].status = pkg[q].status /\ pkg'[q].after = pkg[q].after
    /\ pkg'[q].publishedAt = pkg[q].publishedAt /\ pkg'[q].withheldAt = pkg[q].withheldAt
    /\ pkg'[q].forced = pkg[q].forced

\* The UPDATE of one row that is there, column by column.
LEMMA UpdateSets ==
    ASSUME TypeOK, NEW q \in Pids, Stored(q), NEW row \in Row, Update(q, row),
           row.forced = pkg[q].forced
    PROVE  Sets(q, row.status, row.after, row.publishedAt, row.withheldAt)
BY DEF Update, Sets, TypeOK

\* transition_to_staged.
LEMMA StagedSets ==
    ASSUME TypeOK, NEW p \in Procs, FinalizeStaged(p), job[p].pid \in Pids, Stored(job[p].pid)
    PROVE  LET q == job[p].pid
           IN \E when \in {"null", "later"} :
                 /\ Held(p) => when = "null"
                 /\ Sets(q, "staged", when, pkg[q].publishedAt, pkg[q].withheldAt)
<1> DEFINE q == job[p].pid
           when == IF Held(p) THEN "null" ELSE "later"
           row == Staged(pkg[q], when)
<1>1. when \in {"null", "later"} /\ (Held(p) => when = "null") /\ Update(q, row) /\ pkg[q] \in Row
  BY DEF FinalizeStaged, TypeOK
<1> HIDE DEF when
<1>2. /\ row \in Row /\ row.status = "staged" /\ row.after = when /\ row.forced = pkg[q].forced
      /\ row.publishedAt = pkg[q].publishedAt /\ row.withheldAt = pkg[q].withheldAt
  BY <1>1 DEF Staged, Row
<1> HIDE DEF row
<1>3. Sets(q, "staged", when, pkg[q].publishedAt, pkg[q].withheldAt)
  BY <1>1, <1>2, UpdateSets
<1>4. QED
  BY <1>1, <1>3

\* transition_to_published, withhold_package and republish_package.
LEMMA ServedSets ==
    ASSUME TypeOK, NEW p \in Procs, job[p].pid \in Pids, Stored(job[p].pid)
    PROVE  LET q == job[p].pid
           IN /\ FinalizeWrite(p) => Sets(q, "published", pkg[q].after, TRUE, pkg[q].withheldAt)
              /\ WithholdWrite(p) => Sets(q, "withheld", pkg[q].after, pkg[q].publishedAt, TRUE)
              /\ RepublishWrite(p) => Sets(q, "published", pkg[q].after, TRUE, FALSE)
<1> DEFINE q == job[p].pid
           pub == Published(pkg[q])
           held == [pkg[q] EXCEPT !.status = "withheld", !.withheldAt = TRUE]
           back == [pub EXCEPT !.withheldAt = FALSE]
<1>1. pkg[q] \in Row
  BY DEF TypeOK
<1>2. /\ pub \in Row /\ pub.status = "published" /\ pub.after = pkg[q].after
      /\ pub.forced = pkg[q].forced /\ pub.publishedAt = TRUE
      /\ pub.withheldAt = pkg[q].withheldAt
  BY <1>1 DEF Published, Row
<1>3. /\ held \in Row /\ held.status = "withheld" /\ held.after = pkg[q].after
      /\ held.forced = pkg[q].forced /\ held.publishedAt = pkg[q].publishedAt
      /\ held.withheldAt = TRUE
  BY <1>1 DEF Row
<1> HIDE DEF pub
<1>4. /\ back \in Row /\ back.status = "published" /\ back.after = pkg[q].after
      /\ back.forced = pkg[q].forced /\ back.publishedAt = TRUE /\ back.withheldAt = FALSE
  BY <1>2 DEF Row
<1> HIDE DEF held, back
<1>5. ASSUME FinalizeWrite(p)
      PROVE  Sets(q, "published", pkg[q].after, TRUE, pkg[q].withheldAt)
  <2>1. Update(q, pub)
    BY <1>5 DEF FinalizeWrite, pub
  <2>2. QED
    BY <1>2, <2>1, UpdateSets
<1>6. ASSUME WithholdWrite(p)
      PROVE  Sets(q, "withheld", pkg[q].after, pkg[q].publishedAt, TRUE)
  <2>1. Update(q, held)
    BY <1>6 DEF WithholdWrite, held
  <2>2. QED
    BY <1>3, <2>1, UpdateSets
<1>7. ASSUME RepublishWrite(p)
      PROVE  Sets(q, "published", pkg[q].after, TRUE, FALSE)
  <2>1. Update(q, back)
    BY <1>7 DEF RepublishWrite, back, pub
  <2>2. QED
    BY <1>4, <2>1, UpdateSets
<1>8. QED
  BY <1>5, <1>6, <1>7

\* insert_package and delete_package.
LEMMA BornSets ==
    ASSUME TypeOK, NEW p \in Procs, InsertRow(p)
    PROVE  \E q \in Pids :
              /\ ~Stored(q) /\ pkg'[q] = NewRow(job[p])
              /\ pkg'[q].status = "imported" /\ pkg'[q].after = "null"
              /\ ~pkg'[q].publishedAt /\ ~pkg'[q].withheldAt
              /\ pkg'[q].forced => "force" \in job[p].flags
              /\ \A o \in Pids \ {q} : pkg'[o] = pkg[o]
              /\ Begin(p, "finalize", [job[p] EXCEPT !.pid = q])
<1>1. PICK q \in Pids : /\ ~Stored(q) /\ pkg' = [pkg EXCEPT ![q] = NewRow(job[p])]
                        /\ Begin(p, "finalize", [job[p] EXCEPT !.pid = q])
  BY DEF InsertRow
<1>2. job[p] \in Job
  BY DEF TypeOK
<1>3. ("sample" \in job[p].flags) \in BOOLEAN /\ ("force" \in job[p].flags) \in BOOLEAN
  OBVIOUS
<1>4. ASSUME NEW a \in BOOLEAN, NEW b \in BOOLEAN, NEW r
      PROVE  LET row == [Absent EXCEPT !.status = "imported", !.run = r, !.sample = a, !.forced = b]
             IN /\ row.status = "imported" /\ row.after = "null" /\ row.forced = b
                /\ row.publishedAt = FALSE /\ row.withheldAt = FALSE
  OBVIOUS
<1>5. LET row == NewRow(job[p])
      IN /\ row.status = "imported" /\ row.after = "null"
         /\ ~row.publishedAt /\ ~row.withheldAt
         /\ row.forced => "force" \in job[p].flags
  BY <1>3, <1>4 DEF NewRow
<1>6. pkg'[q] = NewRow(job[p]) /\ \A o \in Pids \ {q} : pkg'[o] = pkg[o]
  BY <1>1 DEF TypeOK
<1>7. QED
  BY <1>1, <1>5, <1>6

\* mark_sample and sample unset touch no column but their own.
LEMMA SampleSame ==
    ASSUME TypeOK, NEW p \in Procs, MarkWrite(p) \/ Unmark(p)
    PROVE  \A q \in Pids : Same(q)
<1>1. \A q \in Pids, b \in BOOLEAN :
         LET row == [pkg[q] EXCEPT !.sample = b]
         IN /\ row.status = pkg[q].status /\ row.after = pkg[q].after /\ row.forced = pkg[q].forced
            /\ row.publishedAt = pkg[q].publishedAt /\ row.withheldAt = pkg[q].withheldAt
  BY DEF TypeOK, Row
<1>2. ASSUME MarkWrite(p) PROVE \A q \in Pids : Same(q)
  <2> DEFINE marked(q) == (q = job[p].pid) /\ Stored(q)
  <2>1. \A q \in Pids : marked(q) \in BOOLEAN
    OBVIOUS
  <2>2. pkg' = [q \in Pids |-> [pkg[q] EXCEPT !.sample = marked(q)]]
    BY <1>2 DEF MarkWrite
  <2> HIDE DEF marked
  <2>3. QED
    BY <1>1, <2>1, <2>2 DEF Same
<1>3. ASSUME Unmark(p) PROVE \A q \in Pids : Same(q)
  <2>1. PICK o \in Pids : Update(o, [pkg[o] EXCEPT !.sample = FALSE])
    BY <1>3 DEF Unmark
  <2>2. QED
    BY <1>1, <2>1 DEF Update, Same, TypeOK
<1>4. QED
  BY <1>2, <1>3

\* A pass over due packages publishes some of its queue, touches no other row, and keeps
\* at most the rest of its queue.
LEMMA LazySets ==
    ASSUME TypeOK, NEW p \in Procs, LazyWrite(p), \A q \in job[p].queue : Stored(q),
           job[p].pid \in job[p].queue
    PROVE  \E S \in SUBSET job[p].queue :
              /\ S # {}
              /\ \A q \in S : /\ pkg'[q].status = "published" /\ pkg'[q].after = pkg[q].after
                              /\ pkg'[q].publishedAt /\ pkg'[q].withheldAt = pkg[q].withheldAt
                              /\ pkg'[q].forced = pkg[q].forced
              /\ \A q \in Pids \ S : pkg'[q] = pkg[q]
              /\ \/ Finish(p)
                 \/ \E j : /\ Begin(p, "lazy_read", j)
                           /\ j.queue \subseteq job[p].queue \ S
<1> DEFINE rest == job[p].queue \ {job[p].pid}
<1>1. PICK more \in SUBSET rest :
          /\ pkg' = [q \in Pids |-> IF q \in more \cup {job[p].pid} /\ Stored(q)
                                    THEN Published(pkg[q]) ELSE pkg[q]]
          /\ \/ Finish(p)
             \/ Begin(p, "lazy_read", [job[p] EXCEPT !.pid = NoPid, !.queue = rest \ more])
  BY DEF LazyWrite
<1> DEFINE S == more \cup {job[p].pid}
           j == [job[p] EXCEPT !.pid = NoPid, !.queue = rest \ more]
<1>2. S \in SUBSET job[p].queue /\ S # {} /\ job[p] \in Job /\ job[p].queue \subseteq Pids
  BY DEF TypeOK, Job
<1>3. j.queue = rest \ more
  BY <1>2 DEF Job
<1>4. \A q \in S : pkg'[q] = Published(pkg[q]) /\ pkg[q] \in Row
  BY <1>1, <1>2 DEF TypeOK
<1>5. ASSUME NEW row \in Row
      PROVE  LET pub == Published(row)
             IN /\ pub.status = "published" /\ pub.after = row.after /\ pub.forced = row.forced
                /\ pub.publishedAt /\ pub.withheldAt = row.withheldAt
  BY DEF Published, Row
<1>6. \A q \in Pids \ S : pkg'[q] = pkg[q]
  BY <1>1
<1>7. Finish(p) \/ \E k : Begin(p, "lazy_read", k) /\ k.queue \subseteq job[p].queue \ S
  <2>1. j.queue \subseteq job[p].queue \ S
    BY <1>3
  <2> HIDE DEF S
  <2>2. QED
    BY <1>1, <2>1
<1> HIDE DEF S, j
<1>8. QED
  BY <1>2, <1>4, <1>5, <1>6, <1>7

-------------------------------------------------------------------------------
\* What the others may do to row q while process o relies on its claim: nothing but let
\* publish_after pass; fill a free id; finish another import; serve it, once it is due.
Harmless(q, o) ==
    \/ /\ pkg'[q].status = pkg[q].status /\ pkg'[q].forced = pkg[q].forced
       /\ pkg'[q].after = pkg[q].after \/ pkg[q].after = "later"
    \/ ~Stored(q)
    \/ pkg[q].status = "imported" /\ Stored(q)' /\ ~(Finalizing(o) /\ job[o].pid = q)
    \/ (q \in Due \/ Settled(q)) /\ Settled(q)'

\* Such steps keep the claim of a process that does not move.
LEMMA ClaimKept ==
    ASSUME TypeOK, NEW o \in Procs, HasArgs(o), Claim(o), pc'[o] = pc[o], job'[o] = job[o],
           \A q \in Pids : Harmless(q, o)
    PROVE  Claim(o)'
<1>1. job[o].queue \subseteq Pids
  BY DEF TypeOK, Job
<1>2. \A q \in Pids : (q \in Due \/ Settled(q)) => (q \in Due \/ Settled(q))'
  BY DEF Harmless, Due, Settled, Stored
<1>3. \A q \in Pids : Stored(q) => Stored(q)'
  BY DEF Harmless, Due, Settled, Stored
<1>4. pc[o] = "delete" => Stored(job[o].pid)'
  BY <1>3 DEF Claim, HasArgs
<1>5. Finalizing(o) => /\ pkg'[job[o].pid].status = "imported"
                       /\ pkg'[job[o].pid].forced => "force" \in job[o].flags
  BY DEF Claim, HasArgs, Finalizing, Harmless, Due, Settled, Stored
<1>6. pc[o] \in {"withhold", "republish"} => Settled(job[o].pid)'
  BY DEF Claim, HasArgs, Harmless, Due, Settled, Stored
<1>7. pc[o] \in {"lazy_read", "lazy_write"}
         => \A q \in job[o].queue : (q \in Due \/ Settled(q))'
  BY <1>1, <1>2 DEF Claim
<1>8. QED
  BY <1>4, <1>5, <1>6, <1>7 DEF Claim, Finalizing, Held

\* The processes other than p are where they were.
OthersStay(p) == \A o \in Procs \ {p} : pc'[o] = pc[o] /\ job'[o] = job[o]

\* A step of p that is harmless to all others leaves the table in order if it leaves p's
\* own claim and the columns so, and gives p no row to finish that it did not have.
LEMMA OwnedKept ==
    ASSUME TypeOK, Intents, Owned, NEW p \in Procs, OthersStay(p), Columns', Claim(p)',
           Finalizing(p)' => Finalizing(p) /\ job'[p].pid = job[p].pid,
           \A o \in Procs \ {p}, q \in Pids : Harmless(q, o)
    PROVE  Owned'
<1>1. \A o \in Procs : Claim(o)'
  BY ClaimKept DEF Owned, OthersStay, Intents
<1>2. Apart'
  BY DEF Owned, Apart, OthersStay, Finalizing
<1>3. QED
  BY <1>1, <1>2 DEF Owned

\* A step that reads, or writes columns the lifecycle does not look at.
LEMMA ReadingStep ==
    ASSUME TypeOK, Intents, Owned, NEW p \in Procs, OthersStay(p), Claim(p)',
           \A q \in Pids : Same(q),
           Finalizing(p)' => Finalizing(p) /\ job'[p].pid = job[p].pid
    PROVE  Owned'
<1>1. Columns'
  BY DEF Owned, Columns, Settled, Stored, Same
<1>2. \A o \in Procs \ {p}, q \in Pids : Harmless(q, o)
  BY DEF Harmless, Same
<1>3. QED
  BY <1>1, <1>2, OwnedKept

\* Most steps leave p with nothing to rely on.
LEMMA NoClaim ==
    ASSUME NEW p \in Procs,
           pc'[p] \in {"idle", "lookup", "insert", "log", "mark_read", "mark_write", "stuck"}
    PROVE  Claim(p)' /\ ~Finalizing(p)'
BY DEF Claim, Finalizing

\* The steps of import-run and watch.
LEMMA ImportOwned ==
    ASSUME TypeOK, Intents, Owned, NoTakeover, NEW p \in Procs, Import(p)
    PROVE  Owned'
<1>1. CASE BeginImport(p) \/ BeginWatch(p) \/ DuplicateRefused(p) \/ SampleRefused(p)
           \/ IdCollision(p) \/ LogRun(p)
  <2>1. pc'[p] \in {"idle", "lookup", "insert", "log", "mark_read"} /\ OthersStay(p)
    BY <1>1, BeginFrame, GotoFrame
       DEF BeginImport, BeginWatch, DuplicateRefused, SampleRefused, IdCollision, LogRun,
           Finish, OthersStay
  <2>2. \A q \in Pids : Same(q)
    BY <1>1 DEF BeginImport, BeginWatch, DuplicateRefused, SampleRefused, IdCollision, LogRun, Same
  <2>3. QED
    BY <2>1, <2>2, NoClaim, ReadingStep
<1>2. CASE LookupRun(p)
  <2>1. /\ OthersStay(p)
        /\ \/ pc'[p] \in {"insert", "log"}
           \/ /\ pc'[p] = "delete" /\ "replace" \in job[p].flags
              /\ \E q \in Pids : Stored(q) /\ job'[p] = [job[p] EXCEPT !.pid = q]
    <3>1. \/ Goto(p, "insert") /\ UNCHANGED job
          \/ \E q \in Pids : /\ Stored(q) /\ "replace" \in job[p].flags
                              /\ Begin(p, "delete", [job[p] EXCEPT !.pid = q])
          \/ Begin(p, "log", [job[p] EXCEPT !.flags = {}])
      BY <1>2 DEF LookupRun, RowsOf
    <3>2. CASE Goto(p, "insert") /\ UNCHANGED job
      BY <3>2, GotoFrame DEF OthersStay
    <3>3. CASE Begin(p, "log", [job[p] EXCEPT !.flags = {}])
      BY <3>3, BeginFrame DEF OthersStay
    <3>4. ASSUME NEW q \in Pids, Stored(q), "replace" \in job[p].flags,
                 Begin(p, "delete", [job[p] EXCEPT !.pid = q])
          PROVE  /\ OthersStay(p) /\ pc'[p] = "delete"
                 /\ job'[p] = [job[p] EXCEPT !.pid = q]
      BY <3>4, BeginFrame DEF OthersStay
    <3>5. QED
      BY <3>1, <3>2, <3>3, <3>4
  <2>2. \A q \in Pids : Same(q)
    BY <1>2 DEF LookupRun, Same
  <2>3. CASE pc'[p] \in {"insert", "log"}
    BY <2>1, <2>2, <2>3, NoClaim, ReadingStep
  <2>4. CASE pc'[p] = "delete" /\ "replace" \in job[p].flags
    <3>1. "replace" \in Flags /\ job[p] \in Job
      BY <2>4 DEF TypeOK, Job
    <3>2. PICK q \in Pids : Stored(q) /\ job'[p] = [job[p] EXCEPT !.pid = q]
      BY <2>1, <2>4
    <3>3. job'[p].pid = q /\ pkg' = pkg
      BY <1>2, <3>1, <3>2 DEF Job, LookupRun
    <3>4. Claim(p)' /\ ~Finalizing(p)'
      BY <2>4, <3>1, <3>2, <3>3 DEF Claim, Finalizing, Stored
    <3>5. QED
      BY <2>1, <2>2, <3>4, ReadingStep
  <2>5. QED
    BY <2>1, <2>3, <2>4
<1>3. CASE DeleteOld(p)
  <2>1. /\ pc[p] = "delete" /\ job[p].pid \in Pids /\ "replace" \in Flags
        /\ pkg' = [pkg EXCEPT ![job[p].pid] = Absent]
    BY <1>3 DEF DeleteOld, Intents, HasArgs, Owned, Claim
  <2>2. Procs \ {p} = {}
    BY <2>1 DEF NoTakeover, Alone
  <2>3. pc'[p] = "insert" /\ OthersStay(p)
    BY <1>3, GotoFrame DEF DeleteOld, OthersStay
  <2>4. Columns'
    BY <2>1 DEF Owned, Columns, Settled, Stored, TypeOK
  <2>5. \A o \in Procs \ {p}, q \in Pids : Harmless(q, o)
    BY <2>2
  <2>6. QED
    BY <2>3, <2>4, <2>5, NoClaim, OwnedKept
<1>4. CASE InsertRow(p)
  <2>1. PICK q \in Pids :
           /\ ~Stored(q)
           /\ pkg'[q].status = "imported" /\ pkg'[q].after = "null"
           /\ pkg'[q].forced => "force" \in job[p].flags
           /\ \A o \in Pids \ {q} : pkg'[o] = pkg[o]
           /\ Begin(p, "finalize", [job[p] EXCEPT !.pid = q])
    BY <1>4, BornSets
  <2>2. /\ pc'[p] = "finalize" /\ job'[p] = [job[p] EXCEPT !.pid = q] /\ OthersStay(p)
        /\ job[p] \in Job
    BY <2>1, BeginFrame DEF OthersStay, TypeOK
  <2>3. job'[p].pid = q /\ job'[p].flags = job[p].flags
    BY <2>2 DEF Job
  <2>4. Columns'
    BY <2>1 DEF Owned, Columns, Settled, Stored
  <2>5. Claim(p)'
    BY <2>1, <2>2, <2>3 DEF Claim, Finalizing
  <2>6. \A o \in Procs \ {p}, i \in Pids : Harmless(i, o)
    BY <2>1 DEF Harmless
  <2>7. \A o \in Procs : Claim(o)'
    BY <2>2, <2>5, <2>6, ClaimKept DEF Owned, OthersStay, Intents
  <2>8. ASSUME NEW o \in Procs \ {p}, Finalizing(o)' PROVE job'[o].pid # q
    BY <2>1, <2>2, <2>8 DEF OthersStay, Finalizing, Owned, Claim, Stored
  <2>9. Apart'
    BY <2>2, <2>3, <2>8 DEF Owned, Apart, OthersStay, Finalizing
  <2>10. QED
    BY <2>4, <2>7, <2>9 DEF Owned
<1>5. CASE FinalizeStaged(p)
  <2> DEFINE q == job[p].pid
  <2>1. /\ pc[p] = "finalize" /\ q \in Pids /\ pkg[q].status = "imported" /\ Stored(q)
        /\ pkg[q].forced => Held(p)
    BY <1>5 DEF FinalizeStaged, Intents, HasArgs, Owned, Claim, Finalizing, Stored, Held
  <2>2. PICK when \in {"null", "later"} :
           /\ Held(p) => when = "null"
           /\ Sets(q, "staged", when, pkg[q].publishedAt, pkg[q].withheldAt)
    BY <1>5, <2>1, StagedSets
  <2>3. pc'[p] = "log" /\ OthersStay(p)
    BY <1>5, GotoFrame DEF FinalizeStaged, OthersStay
  <2>4. Columns'
    BY <2>1, <2>2 DEF Sets, Owned, Columns, Settled, Stored
  <2>5. \A o \in Procs \ {p}, i \in Pids : Harmless(i, o)
    BY <2>1, <2>2 DEF Sets, Harmless, Stored, Owned, Apart, Finalizing
  <2>6. QED
    BY <2>3, <2>4, <2>5, NoClaim, OwnedKept
<1>6. CASE FinalizeRead(p)
  <2>1. /\ pc[p] = "finalize" /\ ~Held(p) /\ FALSE \in Delays /\ OthersStay(p)
        /\ pc'[p] = "idle" \/ (pc'[p] = "publish" /\ job'[p] = job[p])
        /\ pkg' = pkg
    BY <1>6, BeginFrame, GotoFrame DEF FinalizeRead, Finish, OthersStay
  <2>2. \A q \in Pids : Same(q)
    BY <2>1 DEF Same
  <2>3. CASE pc'[p] = "idle"
    BY <2>1, <2>2, <2>3, NoClaim, ReadingStep
  <2>4. CASE pc'[p] = "publish" /\ job'[p] = job[p]
    <3>1. Finalizing(p)' /\ Finalizing(p)
      BY <2>1, <2>4 DEF Finalizing
    <3>2. Claim(p)'
      BY <2>1, <2>4, <3>1 DEF Owned, Claim, Held, Finalizing
    <3>3. QED
      BY <2>1, <2>2, <2>4, <3>1, <3>2, ReadingStep
  <2>5. QED
    BY <2>1, <2>3, <2>4
<1>7. CASE FinalizeWrite(p)
  <2> DEFINE q == job[p].pid
  <2>1. /\ pc[p] = "publish" /\ q \in Pids /\ pkg[q].status = "imported" /\ Stored(q)
        /\ ~pkg[q].forced /\ FALSE \in Delays
    BY <1>7 DEF FinalizeWrite, Intents, HasArgs, Owned, Claim, Finalizing, Stored, Held
  <2>2. Sets(q, "published", pkg[q].after, TRUE, pkg[q].withheldAt)
    BY <1>7, <2>1, ServedSets
  <2>3. pc'[p] = "log" /\ OthersStay(p)
    BY <1>7, GotoFrame DEF FinalizeWrite, OthersStay
  <2>4. Columns'
    BY <2>1, <2>2 DEF Sets, Owned, Columns, Settled, Stored
  <2>5. \A o \in Procs \ {p}, i \in Pids : Harmless(i, o)
    BY <2>1, <2>2 DEF Sets, Harmless, Stored, Owned, Apart, Finalizing
  <2>6. QED
    BY <2>3, <2>4, <2>5, NoClaim, OwnedKept
<1>8. QED
  BY <1>1, <1>2, <1>3, <1>4, <1>5, <1>6, <1>7 DEF Import

\* withhold, republish and sample.
LEMMA CurateOwned ==
    ASSUME TypeOK, Intents, Owned, NEW p \in Procs, Curate(p)
    PROVE  Owned'
<1>1. CASE BeginMark(p) \/ MarkRead(p)
  <2>1. pc'[p] \in {"idle", "mark_read", "mark_write"} /\ OthersStay(p)
    BY <1>1, BeginFrame, GotoFrame DEF BeginMark, MarkRead, Finish, OthersStay
  <2>2. \A q \in Pids : Same(q)
    BY <1>1 DEF BeginMark, MarkRead, Same
  <2>3. QED
    BY <2>1, <2>2, NoClaim, ReadingStep
<1>2. CASE MarkWrite(p)
  <2>1. pc'[p] = "idle" /\ OthersStay(p)
    BY <1>2, BeginFrame DEF MarkWrite, Finish, OthersStay
  <2>2. QED
    BY <1>2, <2>1, SampleSame, NoClaim, ReadingStep
<1>3. CASE Unmark(p)
  <2>1. pc'[p] = "idle" /\ OthersStay(p)
    BY <1>3 DEF Unmark, Cli, OthersStay
  <2>2. QED
    BY <1>3, <2>1, SampleSame, NoClaim, ReadingStep
<1>4. CASE WithholdRead(p) \/ RepublishRead(p)
  <2>1. PICK q \in Pids, label \in {"withhold", "republish"} :
           Settled(q) /\ Begin(p, label, [NoJob EXCEPT !.pid = q])
    BY <1>4 DEF WithholdRead, RepublishRead, Settled
  <2>2. pc'[p] = label /\ job'[p].pid = q /\ OthersStay(p) /\ pkg' = pkg
    BY <1>4, <2>1, BeginFrame DEF WithholdRead, RepublishRead, OthersStay
  <2>3. Claim(p)' /\ ~Finalizing(p)'
    BY <2>1, <2>2 DEF Claim, Finalizing, Settled
  <2>4. \A o \in Pids : Same(o)
    BY <2>2 DEF Same
  <2>5. QED
    BY <2>2, <2>3, <2>4, ReadingStep
<1>5. CASE WithholdWrite(p) \/ RepublishWrite(p)
  <2> DEFINE q == job[p].pid
  <2>1. q \in Pids /\ Settled(q) /\ Stored(q)
    BY <1>5 DEF WithholdWrite, RepublishWrite, Intents, HasArgs, Owned, Claim, Settled, Stored
  <2>2. PICK status \in {"published", "withheld"}, pub \in BOOLEAN, wh \in BOOLEAN :
           Sets(q, status, pkg[q].after, pub, wh)
    <3>1. pkg[q].publishedAt \in BOOLEAN /\ pkg[q].withheldAt \in BOOLEAN
      BY <2>1 DEF TypeOK, Row
    <3>2. QED
      BY <1>5, <2>1, <3>1, ServedSets
  <2>3. pc'[p] = "idle" /\ OthersStay(p)
    BY <1>5, BeginFrame DEF WithholdWrite, RepublishWrite, Finish, OthersStay
  <2>4. Columns'
    BY <2>1, <2>2 DEF Sets, Owned, Columns, Settled, Stored
  <2>5. \A o \in Procs \ {p}, i \in Pids : Harmless(i, o)
    BY <2>1, <2>2 DEF Sets, Harmless, Settled
  <2>6. QED
    BY <2>3, <2>4, <2>5, NoClaim, OwnedKept
<1>6. QED
  BY <1>1, <1>2, <1>3, <1>4, <1>5 DEF Curate

\* The passes over due packages.
LEMMA LazyOwned ==
    ASSUME TypeOK, Intents, Owned, NEW p \in Procs, Lazy(p)
    PROVE  Owned'
<1>1. CASE LazyScan(p)
  <2>1. pc'[p] = "lazy_read" /\ job'[p].queue = Due /\ OthersStay(p) /\ pkg' = pkg
    BY <1>1, BeginFrame DEF LazyScan, OthersStay
  <2>2. Claim(p)' /\ ~Finalizing(p)'
    BY <2>1 DEF Claim, Finalizing, Due
  <2>3. \A q \in Pids : Same(q)
    BY <2>1 DEF Same
  <2>4. QED
    BY <2>1, <2>2, <2>3, ReadingStep
<1>2. CASE LazyRead(p)
  <2>1. /\ OthersStay(p) /\ pkg' = pkg /\ pc[p] = "lazy_read" /\ job[p] \in Job
        /\ \/ pc'[p] = "idle"
           \/ /\ pc'[p] = "lazy_write"
              /\ \E q \in job[p].queue : job'[p] = [job[p] EXCEPT !.pid = q]
    BY <1>2, BeginFrame DEF LazyRead, Finish, OthersStay, TypeOK
  <2>2. \A q \in Pids : Same(q)
    BY <2>1 DEF Same
  <2>3. CASE pc'[p] = "idle"
    BY <2>1, <2>2, <2>3, NoClaim, ReadingStep
  <2>4. CASE pc'[p] = "lazy_write"
    <3>1. PICK q \in job[p].queue : job'[p] = [job[p] EXCEPT !.pid = q]
      BY <2>1, <2>4
    <3>2. job'[p].pid = q /\ job'[p].queue = job[p].queue
      BY <2>1, <3>1 DEF Job
    <3>3. Claim(p)' /\ ~Finalizing(p)'
      BY <2>1, <2>4, <3>2 DEF Owned, Claim, Finalizing, Due, Settled
    <3>4. QED
      BY <2>1, <2>2, <3>3, ReadingStep
  <2>5. QED
    BY <2>1, <2>3, <2>4
<1>3. CASE LazyWrite(p)
  <2>1. /\ job[p].pid \in job[p].queue /\ job[p].queue \subseteq Pids
        /\ \A q \in job[p].queue : q \in Due \/ Settled(q)
    BY <1>3 DEF LazyWrite, Owned, Claim, TypeOK, Job
  <2>2. \A q \in job[p].queue : Stored(q)
    BY <2>1 DEF Stored, Due, Settled
  <2>3. PICK S \in SUBSET job[p].queue :
           /\ \A q \in S : /\ pkg'[q].status = "published" /\ pkg'[q].after = pkg[q].after
                           /\ pkg'[q].forced = pkg[q].forced
           /\ \A q \in Pids \ S : pkg'[q] = pkg[q]
           /\ \/ Finish(p)
              \/ \E j : Begin(p, "lazy_read", j) /\ j.queue \subseteq job[p].queue \ S
    BY <1>3, <2>1, <2>2, LazySets
  <2>4. Columns'
    <3>1. ASSUME NEW q \in Pids, q \in S
          PROVE  /\ pkg'[q].status = "published" /\ ~pkg'[q].forced
                 /\ FALSE \notin Delays => pkg'[q].after = "due"
      BY <2>1, <2>3, <3>1 DEF Owned, Columns, Settled, Due
    <3>2. ASSUME NEW q \in Pids, q \notin S PROVE pkg'[q] = pkg[q]
      BY <2>3, <3>2
    <3>3. QED
      BY <3>1, <3>2 DEF Owned, Columns, Settled, Stored
  <2>5. \A o \in Procs \ {p}, i \in Pids : Harmless(i, o)
    BY <2>1, <2>3 DEF Harmless, Settled
  <2>6. /\ OthersStay(p)
        /\ \/ pc'[p] = "idle"
           \/ pc'[p] = "lazy_read" /\ job'[p].queue \subseteq job[p].queue \ S
    BY <2>3, BeginFrame DEF Finish, OthersStay
  <2>7. Claim(p)' /\ ~Finalizing(p)'
    <3>1. \A q \in job[p].queue \ S : (q \in Due \/ Settled(q))'
      BY <2>1, <2>3 DEF Due, Settled
    <3>2. QED
      BY <2>6, <3>1 DEF Claim, Finalizing
  <2>8. QED
    BY <2>4, <2>5, <2>6, <2>7, OwnedKept
<1>4. CASE LazyAbort(p)
  <2>1. pc'[p] = "idle" /\ OthersStay(p)
    BY <1>4, BeginFrame DEF LazyAbort, Finish, OthersStay
  <2>2. \A q \in Pids : Same(q)
    BY <1>4 DEF LazyAbort, Same
  <2>3. QED
    BY <2>1, <2>2, NoClaim, ReadingStep
<1>5. QED
  BY <1>1, <1>2, <1>3, <1>4 DEF Lazy

\* Every step, of processes and of the clock.
LEMMA OwnedStep == TypeOK /\ Intents /\ NoTakeover /\ Owned /\ [Next]_vars => Owned'
<1> SUFFICES ASSUME TypeOK, Intents, NoTakeover, Owned, [Next]_vars PROVE Owned'
  OBVIOUS
<1>1. ASSUME NEW p \in Procs, Halt(p) PROVE Owned'
  <2>1. pc'[p] \in {"idle", "stuck"} /\ OthersStay(p)
    BY <1>1, BeginFrame DEF Halt, Stop, Stick, Unstick, Finish, OthersStay
  <2>2. \A q \in Pids : Same(q)
    BY <1>1 DEF Halt, Stop, Stick, Unstick, Same
  <2>3. QED
    BY <2>1, <2>2, NoClaim, ReadingStep
<1>2. ASSUME UNCHANGED <<pc, job>>, Columns', \A q \in Pids, o \in Procs : Harmless(q, o)
      PROVE  Owned'
  <2>1. \A o \in Procs : Claim(o)'
    BY <1>2, ClaimKept DEF Owned, Intents
  <2>2. QED
    BY <1>2, <2>1 DEF Owned, Apart, Finalizing
<1>3. ASSUME NEW q \in Pids, Elapse(q) PROVE Owned'
  <2>1. /\ pkg[q].after = "later"
        /\ Sets(q, pkg[q].status, "due", pkg[q].publishedAt, pkg[q].withheldAt)
    BY <1>3 DEF Elapse, Sets, TypeOK, Row
  <2>2. Columns'
    BY <2>1 DEF Sets, Owned, Columns, Settled, Stored
  <2>3. \A i \in Pids, o \in Procs : Harmless(i, o)
    BY <2>1 DEF Sets, Harmless
  <2>4. QED
    BY <1>2, <1>3, <2>2, <2>3 DEF Elapse
<1>4. CASE UNCHANGED vars
  <2>1. Columns'
    BY <1>4 DEF vars, Owned, Columns, Settled, Stored
  <2>2. \A i \in Pids, o \in Procs : Harmless(i, o)
    BY <1>4 DEF vars, Harmless
  <2>3. QED
    BY <1>2, <1>4, <2>1, <2>2 DEF vars
<1>5. CASE Restart
  <2>1. /\ pkg' = pkg
        /\ \A o \in Procs : (pc'[o] = pc[o] /\ job'[o] = job[o]) \/ pc'[o] = "idle"
    BY <1>5, RestartFrame
  <2>2. Columns' /\ \A i \in Pids, o \in Procs : Harmless(i, o)
    BY <2>1 DEF Owned, Columns, Settled, Stored, Harmless
  <2>3. \A o \in Procs : Claim(o)'
    BY <2>1, <2>2, ClaimKept, NoClaim DEF Owned, Intents
  <2>4. Apart'
    BY <2>1 DEF Owned, Apart, Finalizing
  <2>5. QED
    BY <2>2, <2>3, <2>4 DEF Owned
<1>6. QED
  BY <1>1, <1>3, <1>4, <1>5, ImportOwned, CurateOwned, LazyOwned DEF Next

\* No process relies on anything at first.
LEMMA InitOwned == Init => Owned
<1> SUFFICES ASSUME Init PROVE Owned
  OBVIOUS
<1>1. \A q \in Pids : pkg[q].status = "absent" /\ pkg[q].after = "null" /\ ~pkg[q].forced
  BY DEF Init
<1>2. Columns
  BY <1>1 DEF Columns, Settled, Stored
<1>3. \A p \in Procs : pc[p] = "idle"
  BY DEF Init
<1>4. QED
  BY <1>2, <1>3 DEF Owned, Apart, Claim, Finalizing

\* What the processes rely on is so, unless two processes run and replace packages.
THEOREM OwnedInvariance ==
    ASSUME NoTakeover
    PROVE  Spec => []Owned
<1>1. IInv /\ Owned /\ [Next]_vars => Owned'
  BY OwnedStep DEF IInv
<1>2. QED
  BY InitOwned, Invariance, <1>1, PTL DEF Spec

-------------------------------------------------------------------------------
(* All that a step can do to the rows of an owned table. *)

\* --replace takes away a row that is there.
Dropped(p, q) ==
    /\ pc[p] = "delete" /\ "replace" \in Flags /\ Stored(q)
    /\ pkg'[q] = Absent
    /\ \A o \in Pids \ {q} : pkg'[o] = pkg[o]

\* insert_package fills a free id.
Born(q) ==
    /\ ~Stored(q)
    /\ pkg'[q].status = "imported" /\ pkg'[q].after = "null"
    /\ ~pkg'[q].publishedAt /\ ~pkg'[q].withheldAt
    /\ \A o \in Pids \ {q} : pkg'[o] = pkg[o]

\* The transitions of import-run,
StagedNow(q) ==
    /\ pkg[q].status = "imported"
    /\ \E when \in {"null", "later"} :
          Sets(q, "staged", when, pkg[q].publishedAt, pkg[q].withheldAt)
PublishedNow(q) ==
    /\ pkg[q].status = "imported"
    /\ Sets(q, "published", pkg[q].after, TRUE, pkg[q].withheldAt)

\* of withhold and republish,
WithheldNow(p, q) ==
    /\ pc[p] = "withhold" /\ Settled(q)
    /\ Sets(q, "withheld", pkg[q].after, pkg[q].publishedAt, TRUE)
RepublishedNow(p, q) ==
    /\ pc[p] = "republish" /\ job[p].pid = q /\ Settled(q)
    /\ Sets(q, "published", pkg[q].after, TRUE, FALSE)

\* of a pass over due packages, which keeps no row of S in its queue,
LazyNow(p, S) ==
    /\ pc[p] = "lazy_write" /\ S # {} /\ S \subseteq job[p].queue
    /\ \A q \in S : /\ pkg'[q].status = "published" /\ pkg'[q].after = pkg[q].after
                    /\ pkg'[q].publishedAt /\ pkg'[q].withheldAt = pkg[q].withheldAt
    /\ \A q \in Pids \ S : pkg'[q] = pkg[q]
    /\ \/ pc'[p] = "idle"
       \/ pc'[p] = "lazy_read" /\ job'[p].queue \subseteq job[p].queue \ S

\* and of the clock.
DueNow(q) ==
    /\ pkg[q].after = "later"
    /\ Sets(q, pkg[q].status, "due", pkg[q].publishedAt, pkg[q].withheldAt)

RowMoved(p, q) ==
    \/ Dropped(p, q) \/ Born(q) \/ StagedNow(q) \/ PublishedNow(q)
    \/ WithheldNow(p, q) \/ RepublishedNow(p, q)

\* A pass of a process that relies on its queue.
LEMMA LazyMoves ==
    ASSUME TypeOK, Owned, NEW p \in Procs, LazyWrite(p)
    PROVE  \E S \in SUBSET Pids : LazyNow(p, S)
<1>1. /\ pc[p] = "lazy_write" /\ job[p].pid \in job[p].queue /\ job[p].queue \subseteq Pids
      /\ \A q \in job[p].queue : Stored(q)
  BY DEF LazyWrite, Owned, Claim, Due, Settled, Stored, TypeOK, Job
<1>2. PICK S \in SUBSET job[p].queue :
         /\ S # {}
         /\ \A q \in S : /\ pkg'[q].status = "published" /\ pkg'[q].after = pkg[q].after
                         /\ pkg'[q].publishedAt /\ pkg'[q].withheldAt = pkg[q].withheldAt
         /\ \A q \in Pids \ S : pkg'[q] = pkg[q]
         /\ \/ Finish(p)
            \/ \E j : Begin(p, "lazy_read", j) /\ j.queue \subseteq job[p].queue \ S
  BY <1>1, LazySets
<1>3. \/ pc'[p] = "idle"
      \/ pc'[p] = "lazy_read" /\ job'[p].queue \subseteq job[p].queue \ S
  BY <1>2, BeginFrame DEF Finish
<1>4. LazyNow(p, S) /\ S \in SUBSET Pids
  BY <1>1, <1>2, <1>3 DEF LazyNow
<1>5. QED
  BY <1>4

\* There is nothing else: UPDATEs by id do what the statuses allow.
LEMMA RowChanges ==
    ASSUME TypeOK, Intents, Owned, [Next]_vars
    PROVE  \/ \A q \in Pids : Same(q)
           \/ \E p \in Procs, q \in Pids : RowMoved(p, q)
           \/ \E q \in Pids : DueNow(q)
           \/ \E p \in Procs, S \in SUBSET Pids : LazyNow(p, S)
<1> DEFINE Goal == \/ \A q \in Pids : Same(q)
                   \/ \E p \in Procs, q \in Pids : RowMoved(p, q)
                   \/ \E q \in Pids : DueNow(q)
                   \/ \E p \in Procs, S \in SUBSET Pids : LazyNow(p, S)
<1>1. ASSUME pkg' = pkg PROVE Goal
  BY <1>1 DEF Same
<1>2. ASSUME NEW p \in Procs, DeleteOld(p) PROVE Goal
  <2>1. job[p].pid \in Pids /\ Dropped(p, job[p].pid)
    BY <1>2 DEF DeleteOld, Intents, HasArgs, Owned, Claim, Dropped, TypeOK
  <2>2. QED
    BY <2>1 DEF RowMoved
<1>3. ASSUME NEW p \in Procs, InsertRow(p) PROVE Goal
  BY <1>3, BornSets DEF RowMoved, Born
<1>4. ASSUME NEW p \in Procs, FinalizeStaged(p) \/ FinalizeWrite(p) PROVE Goal
  <2>1. /\ job[p].pid \in Pids /\ pkg[job[p].pid].status = "imported" /\ Stored(job[p].pid)
    BY <1>4 DEF FinalizeStaged, FinalizeWrite, Intents, HasArgs, Owned, Claim, Finalizing, Stored
  <2>2. StagedNow(job[p].pid) \/ PublishedNow(job[p].pid)
    BY <1>4, <2>1, StagedSets, ServedSets DEF StagedNow, PublishedNow
  <2>3. QED
    BY <2>1, <2>2 DEF RowMoved
<1>5. ASSUME NEW p \in Procs, WithholdWrite(p) \/ RepublishWrite(p) PROVE Goal
  <2>1. job[p].pid \in Pids /\ Settled(job[p].pid) /\ Stored(job[p].pid)
    BY <1>5 DEF WithholdWrite, RepublishWrite, Intents, HasArgs, Owned, Claim, Settled, Stored
  <2>2. WithheldNow(p, job[p].pid) \/ RepublishedNow(p, job[p].pid)
    BY <1>5, <2>1, ServedSets DEF WithheldNow, RepublishedNow, WithholdWrite, RepublishWrite
  <2>3. QED
    BY <2>1, <2>2 DEF RowMoved
<1>6. ASSUME NEW p \in Procs, MarkWrite(p) \/ Unmark(p) PROVE Goal
  <2>1. \A q \in Pids : Same(q)
    BY <1>6, SampleSame
  <2>2. QED
    BY <2>1
<1>7. ASSUME NEW p \in Procs, LazyWrite(p) PROVE Goal
  BY <1>7, LazyMoves
<1>8. ASSUME NEW q \in Pids, Elapse(q) PROVE Goal
  <2>1. DueNow(q)
    BY <1>8 DEF Elapse, DueNow, Sets, TypeOK, Row
  <2>2. QED
    BY <2>1
<1>9. ASSUME NEW p \in Procs,
             \/ BeginImport(p) \/ BeginWatch(p) \/ LookupRun(p) \/ DuplicateRefused(p)
             \/ SampleRefused(p) \/ IdCollision(p) \/ FinalizeRead(p) \/ LogRun(p)
      PROVE  Goal
  BY <1>1, <1>9 DEF BeginImport, BeginWatch, LookupRun, DuplicateRefused, SampleRefused,
                    IdCollision, FinalizeRead, LogRun
<1>10. ASSUME NEW p \in Procs,
              \/ BeginMark(p) \/ MarkRead(p) \/ WithholdRead(p) \/ RepublishRead(p)
              \/ LazyScan(p) \/ LazyRead(p) \/ LazyAbort(p) \/ Halt(p)
       PROVE  Goal
  BY <1>1, <1>10 DEF BeginMark, MarkRead, WithholdRead, RepublishRead, LazyScan, LazyRead,
                     LazyAbort, Halt, Stop, Stick, Unstick
<1>11. ASSUME UNCHANGED vars \/ Restart PROVE Goal
  BY <1>1, <1>11 DEF vars, Restart
<1> HIDE DEF Goal
<1>12. Goal
  BY <1>2, <1>3, <1>4, <1>5, <1>6, <1>7, <1>8, <1>9, <1>10, <1>11 DEF Next, Import, Curate, Lazy
<1>13. QED
  BY <1>12 DEF Goal

\* A package that the filter refused and --force let in is never served, for one process
\* with every flag and for any number of them without --replace.
THEOREM ForcedStaysUnserved ==
    ASSUME NoTakeover
    PROVE  Spec => []ForcedNeverPublished
<1>1. TypeOK /\ Owned => ForcedNeverPublished
  <2> SUFFICES ASSUME TypeOK, Owned, NEW q \in Pids, pkg[q].forced
               PROVE  pkg[q].status \in {"imported", "staged"}
    BY DEF ForcedNeverPublished
  <2>1. Stored(q) /\ ~Settled(q)
    BY DEF Owned, Columns
  <2>2. pkg[q].status \in {"absent", "imported", "staged", "published", "withheld"}
    BY DEF TypeOK, Row
  <2>3. QED
    BY <2>1, <2>2 DEF Stored, Settled
<1>2. QED
  BY <1>1, TypeCorrect, OwnedInvariance, PTL

\* With a staging delay no package is served before its publish_after, in the same cases.
THEOREM NotServedEarly ==
    ASSUME NoTakeover, FALSE \notin Delays
    PROVE  Spec => []NotBeforeItsTime
<1>1. Owned => NotBeforeItsTime
  BY DEF Owned, Columns, Settled, NotBeforeItsTime
<1>2. QED
  BY <1>1, OwnedInvariance, PTL

\* Without --replace no step of any process takes a served package back to imported or
\* staged: what an import has started does not reach a row that others have moved on.
THEOREM ServedStaysServed ==
    ASSUME "replace" \notin Flags
    PROVE  Spec => NeverBackToStaged
<1>1. TypeOK /\ Intents /\ Owned /\ [Next]_vars
         => [\A q \in Pids : pkg[q].status \in {"published", "withheld"}
                                => pkg'[q].status \in {"published", "withheld"}]_vars
  <2> SUFFICES ASSUME TypeOK, Intents, Owned, Next, NEW q \in Pids, Settled(q)
               PROVE  pkg'[q].status \in {"published", "withheld"}
    BY DEF Settled
  <2>1. CASE \A o \in Pids : Same(o)
    BY <2>1 DEF Same, Settled
  <2>2. ASSUME NEW p \in Procs, NEW o \in Pids, RowMoved(p, o)
        PROVE  pkg'[q].status \in {"published", "withheld"}
    BY <2>2 DEF RowMoved, Dropped, Born, StagedNow, PublishedNow, WithheldNow, RepublishedNow,
                Sets, Settled, Stored
  <2>3. ASSUME NEW o \in Pids, DueNow(o)
        PROVE  pkg'[q].status \in {"published", "withheld"}
    BY <2>3 DEF DueNow, Sets, Settled
  <2>4. ASSUME NEW p \in Procs, NEW S \in SUBSET Pids, LazyNow(p, S)
        PROVE  pkg'[q].status \in {"published", "withheld"}
    BY <2>4 DEF LazyNow, Settled
  <2>5. QED
    BY <2>1, <2>2, <2>3, <2>4, RowChanges
<1>2. NoTakeover
  BY DEF NoTakeover
<1>3. IInv => TypeOK /\ Intents
  BY DEF IInv
<1>4. QED
  BY <1>1, <1>2, <1>3, Invariance, OwnedInvariance, PTL DEF Spec, NeverBackToStaged

-------------------------------------------------------------------------------
(* A pass over due packages relies on rows that it has read a while ago. It *)
(* finds them unchanged when no other pass runs, and does no harm to them   *)
(* when nothing is ever withheld.                                           *)

Publishers == IF "list" \in Commands THEN Procs ELSE Server
OnePublisher == \A p1, p2 \in Publishers : p1 = p2
NoStalePass == OnePublisher \/ "withhold" \notin Commands

Passing(p) == pc[p] \in {"lazy_read", "lazy_write"}

\* Publishing q does nothing that the lifecycle forbids.
Servable(q) ==
    \/ pkg[q].status = "staged" /\ pkg[q].after = "due"
    \/ pkg[q].status = "published" /\ "withhold" \notin Commands

\* The queue of a pass has only rows that are due, or were published by another pass
\* and can not be withheld.
Fresh(p) ==
    /\ Passing(p) => /\ p \in Publishers
                     /\ \A q \in job[p].queue : Servable(q)
    /\ pc[p] = "withhold" => "withhold" \in Commands

Ordered == StampsMatchStatus /\ \A p \in Procs : Fresh(p)

\* A step that does not go on with a pass or a withholding ends what p relies on.
LEMMA NextLabel ==
    ASSUME TypeOK, NEW p \in Procs, Import(p) \/ Curate(p) \/ Lazy(p) \/ Halt(p)
    PROVE  /\ OthersStay(p)
           /\ \/ pc'[p] \notin {"lazy_read", "lazy_write", "withhold"}
              \/ WithholdRead(p) \/ LazyScan(p) \/ LazyRead(p) \/ LazyWrite(p)
<1>1. ASSUME BeginImport(p) \/ BeginWatch(p) \/ LookupRun(p) \/ DeleteOld(p) \/ InsertRow(p)
      PROVE  OthersStay(p) /\ pc'[p] \in {"lookup", "insert", "log", "delete", "finalize"}
  <2>1. CASE BeginImport(p) \/ BeginWatch(p)
    BY <2>1, BeginFrame DEF BeginImport, BeginWatch, OthersStay
  <2>2. CASE LookupRun(p)
    <3>1. \/ Goto(p, "insert") /\ UNCHANGED job
          \/ \E label \in {"delete", "log"} : \E j : Begin(p, label, j)
      BY <2>2 DEF LookupRun
    <3>2. QED
      BY <3>1, BeginFrame, GotoFrame DEF OthersStay
  <2>3. CASE DeleteOld(p)
    BY <2>3, GotoFrame DEF DeleteOld, OthersStay
  <2>4. CASE InsertRow(p)
    BY <2>4, BornSets, BeginFrame DEF OthersStay
  <2>5. QED
    BY <1>1, <2>1, <2>2, <2>3, <2>4
<1>2. ASSUME FinalizeStaged(p) \/ FinalizeRead(p) \/ FinalizeWrite(p) \/ LogRun(p) \/ MarkRead(p)
      PROVE  OthersStay(p) /\ pc'[p] \in {"log", "publish", "mark_read", "mark_write", "idle"}
  BY <1>2, BeginFrame, GotoFrame
     DEF FinalizeStaged, FinalizeRead, FinalizeWrite, LogRun, MarkRead, Finish, OthersStay
<1>3. ASSUME \/ DuplicateRefused(p) \/ SampleRefused(p) \/ IdCollision(p) \/ MarkWrite(p)
             \/ WithholdWrite(p) \/ RepublishWrite(p) \/ LazyAbort(p) \/ Halt(p)
      PROVE  OthersStay(p) /\ pc'[p] \in {"idle", "stuck"}
  BY <1>3, BeginFrame
     DEF DuplicateRefused, SampleRefused, IdCollision, MarkWrite, WithholdWrite,
         RepublishWrite, LazyAbort, Halt, Stop, Stick, Unstick, Finish, OthersStay
<1>4. ASSUME BeginMark(p) \/ RepublishRead(p)
      PROVE  OthersStay(p) /\ pc'[p] \in {"mark_read", "republish"}
  BY <1>4, BeginFrame DEF BeginMark, RepublishRead, OthersStay
<1>5. ASSUME Unmark(p) PROVE OthersStay(p) /\ pc'[p] = "idle"
  BY <1>5 DEF Unmark, Cli, OthersStay
<1>6. ASSUME WithholdRead(p) \/ LazyScan(p) \/ LazyRead(p) \/ LazyWrite(p) PROVE OthersStay(p)
  BY <1>6, BeginFrame DEF WithholdRead, LazyScan, LazyRead, LazyWrite, Finish, OthersStay
<1>7. QED
  BY <1>1, <1>2, <1>3, <1>4, <1>5, <1>6 DEF Import, Curate, Lazy

\* Steps of others leave the queue of o fresh.
LEMMA FreshKept ==
    ASSUME TypeOK, Intents, Owned, Ordered, NoTakeover, NoStalePass, [Next]_vars,
           NEW o \in Procs, pc'[o] = pc[o], job'[o] = job[o]
    PROVE  Fresh(o)'
<1> SUFFICES ASSUME Passing(o), NEW q \in job[o].queue
             PROVE  Servable(q)'
  BY DEF Ordered, Fresh, Passing
<1>1. /\ q \in Pids /\ Servable(q)
      /\ o \in Publishers /\ Publishers \subseteq Procs
  BY ConstantsAssumption DEF Ordered, Fresh, TypeOK, Job, Publishers
<1>2. ASSUME pkg'[q].status = pkg[q].status, pkg[q].after = "due" => pkg'[q].after = "due"
      PROVE  Servable(q)'
  BY <1>1, <1>2 DEF Servable
<1>3. CASE \A i \in Pids : Same(i)
  BY <1>1, <1>2, <1>3 DEF Same
<1>4. ASSUME NEW p \in Procs, NEW i \in Pids, RowMoved(p, i)
      PROVE  Servable(q)'
  <2>1. CASE Dropped(p, i)
    BY <2>1 DEF Dropped, NoTakeover, Alone, Passing
  <2>2. CASE Born(i) \/ StagedNow(i) \/ PublishedNow(i)
    BY <1>1, <1>2, <2>2 DEF Born, StagedNow, PublishedNow, Sets, Stored, Servable
  <2>3. CASE WithheldNow(p, i)
    BY <1>1, <1>2, <2>3 DEF WithheldNow, Sets, Settled, Servable, Ordered, Fresh
  <2>4. CASE RepublishedNow(p, i)
    BY <1>1, <1>2, <2>4 DEF RepublishedNow, Sets, Settled, Servable
  <2>5. QED
    BY <1>4, <2>1, <2>2, <2>3, <2>4 DEF RowMoved
<1>5. ASSUME NEW i \in Pids, DueNow(i)
      PROVE  Servable(q)'
  BY <1>1, <1>2, <1>5 DEF DueNow, Sets
<1>6. ASSUME NEW p \in Procs, NEW S \in SUBSET Pids, LazyNow(p, S)
      PROVE  Servable(q)'
  <2>1. p # o /\ p \in Publishers
    BY <1>6 DEF LazyNow, Ordered, Fresh, Passing
  <2>2. "withhold" \notin Commands
    BY <1>1, <2>1 DEF NoStalePass, OnePublisher
  <2>3. CASE q \in S
    BY <1>6, <2>2, <2>3 DEF LazyNow, Servable
  <2>4. CASE q \notin S
    BY <1>1, <1>2, <1>6, <2>4 DEF LazyNow
  <2>5. QED
    BY <2>3, <2>4
<1>7. QED
  BY <1>3, <1>4, <1>5, <1>6, RowChanges

\* And so does a step of its own.
LEMMA FreshStep ==
    ASSUME TypeOK, Intents, Owned, Ordered, NoTakeover, NoStalePass, [Next]_vars, NEW o \in Procs
    PROVE  Fresh(o)'
<1>1. ASSUME NEW p \in Procs, Import(p) \/ Curate(p) \/ Lazy(p) \/ Halt(p)
      PROVE  Fresh(o)'
  <2>1. OthersStay(p)
    BY <1>1, NextLabel
  <2>2. CASE o # p
    BY <2>1, <2>2, FreshKept DEF OthersStay
  <2>3. CASE o = p
    <3>1. CASE pc'[p] \notin {"lazy_read", "lazy_write", "withhold"}
      BY <2>3, <3>1 DEF Fresh, Passing
    <3>2. CASE WithholdRead(p)
      BY <2>3, <3>2, BeginFrame DEF WithholdRead, Cli, Fresh, Passing
    <3>3. CASE LazyScan(p)
      <4>1. pc'[p] = "lazy_read" /\ job'[p].queue = Due /\ pkg' = pkg /\ p \in Publishers
        BY <3>3, BeginFrame DEF LazyScan, Cli, Publishers
      <4>2. QED
        BY <2>3, <4>1 DEF Fresh, Passing, Servable, Due
    <3>4. CASE LazyRead(p)
      <4>1. /\ pkg' = pkg /\ pc[p] = "lazy_read" /\ job[p] \in Job
            /\ \/ pc'[p] = "idle"
               \/ /\ pc'[p] = "lazy_write"
                  /\ \E q \in job[p].queue : job'[p] = [job[p] EXCEPT !.pid = q]
        BY <3>4, BeginFrame DEF LazyRead, Finish, TypeOK
      <4>2. pc'[p] = "idle" \/ (pc'[p] = "lazy_write" /\ job'[p].queue = job[p].queue)
        BY <4>1 DEF Job
      <4>3. QED
        BY <2>3, <4>1, <4>2 DEF Ordered, Fresh, Passing, Servable
    <3>5. CASE LazyWrite(p)
      <4>1. PICK S \in SUBSET Pids : LazyNow(p, S)
        BY <3>5, LazyMoves
      <4>2. /\ p \in Publishers /\ job[p].queue \subseteq Pids
            /\ \A q \in job[p].queue \ S :
                  Servable(q)'
        BY <4>1 DEF LazyNow, Ordered, Fresh, Passing, Servable, TypeOK, Job
      <4>3. QED
        BY <2>3, <4>1, <4>2 DEF LazyNow, Fresh, Passing
    <3>6. QED
      BY <1>1, <3>1, <3>2, <3>3, <3>4, <3>5, NextLabel
  <2>4. QED
    BY <2>2, <2>3
<1>2. ASSUME UNCHANGED <<pc, job>> PROVE Fresh(o)'
  BY <1>2, FreshKept
<1>3. CASE Restart
  <2>1. (pc'[o] = pc[o] /\ job'[o] = job[o]) \/ pc'[o] = "idle"
    BY <1>3, RestartFrame
  <2>2. QED
    BY <2>1, FreshKept DEF Fresh, Passing
<1>4. QED
  BY <1>1, <1>2, <1>3 DEF Next, Elapse, vars

\* The stamps that withhold, republish and the publications write are those of the status.
LEMMA StampsStep ==
    ASSUME TypeOK, Intents, Owned, Ordered, [Next]_vars
    PROVE  StampsMatchStatus'
<1> SUFFICES ASSUME NEW q \in Pids
             PROVE  /\ pkg'[q].publishedAt <=> pkg'[q].status \in {"published", "withheld"}
                    /\ pkg'[q].withheldAt <=> pkg'[q].status = "withheld"
  BY DEF StampsMatchStatus
<1>1. /\ pkg[q].publishedAt <=> pkg[q].status \in {"published", "withheld"}
      /\ pkg[q].withheldAt <=> pkg[q].status = "withheld"
  BY DEF Ordered, StampsMatchStatus
<1>2. CASE \A o \in Pids : Same(o)
  BY <1>1, <1>2 DEF Same
<1>3. ASSUME NEW p \in Procs, NEW o \in Pids, RowMoved(p, o)
      PROVE  /\ pkg'[q].publishedAt <=> pkg'[q].status \in {"published", "withheld"}
             /\ pkg'[q].withheldAt <=> pkg'[q].status = "withheld"
  <2>1. CASE o # q
    BY <1>1, <1>3, <2>1 DEF RowMoved, Dropped, Born, StagedNow, PublishedNow, WithheldNow,
                            RepublishedNow, Sets
  <2>2. CASE o = q /\ (Dropped(p, q) \/ Born(q))
    BY <2>2 DEF Dropped, Born
  <2>3. CASE o = q /\ (StagedNow(q) \/ PublishedNow(q))
    BY <1>1, <2>3 DEF StagedNow, PublishedNow, Sets
  <2>4. CASE o = q /\ (WithheldNow(p, q) \/ RepublishedNow(p, q))
    BY <1>1, <2>4 DEF WithheldNow, RepublishedNow, Sets, Settled
  <2>5. QED
    BY <1>3, <2>1, <2>2, <2>3, <2>4 DEF RowMoved
<1>4. ASSUME NEW o \in Pids, DueNow(o)
      PROVE  /\ pkg'[q].publishedAt <=> pkg'[q].status \in {"published", "withheld"}
             /\ pkg'[q].withheldAt <=> pkg'[q].status = "withheld"
  BY <1>1, <1>4 DEF DueNow, Sets
<1>5. ASSUME NEW p \in Procs, NEW S \in SUBSET Pids, LazyNow(p, S)
      PROVE  /\ pkg'[q].publishedAt <=> pkg'[q].status \in {"published", "withheld"}
             /\ pkg'[q].withheldAt <=> pkg'[q].status = "withheld"
  <2>1. CASE q \in S
    <3>1. Servable(q)
      BY <1>5, <2>1 DEF LazyNow, Ordered, Fresh, Passing
    <3>2. QED
      BY <1>1, <1>5, <2>1, <3>1 DEF LazyNow, Servable
  <2>2. CASE q \notin S
    BY <1>1, <1>5, <2>2 DEF LazyNow
  <2>3. QED
    BY <2>1, <2>2
<1>6. QED
  BY <1>2, <1>3, <1>4, <1>5, RowChanges

\* Passes stay fresh and stamps right, as long as no row goes away under a process and no
\* pass publishes what another has published and the operator withheld.
LEMMA OrderedInvariance ==
    ASSUME NoTakeover, NoStalePass
    PROVE  Spec => [](IInv /\ Owned /\ Ordered)
<1>1. Init => Ordered
  <2> SUFFICES ASSUME Init PROVE Ordered
    OBVIOUS
  <2>1. \A q \in Pids : pkg[q].status = "absent" /\ ~pkg[q].publishedAt /\ ~pkg[q].withheldAt
    BY DEF Init
  <2>2. \A p \in Procs : pc[p] = "idle"
    BY DEF Init
  <2>3. QED
    BY <2>1, <2>2 DEF Ordered, StampsMatchStatus, Fresh, Passing
<1>2. IInv /\ Owned /\ Ordered /\ [Next]_vars => Ordered'
  <2> SUFFICES ASSUME IInv, Owned, Ordered, [Next]_vars PROVE Ordered'
    OBVIOUS
  <2>1. TypeOK /\ Intents
    BY DEF IInv
  <2>2. StampsMatchStatus'
    BY <2>1, StampsStep
  <2>3. \A p \in Procs : Fresh(p)'
    BY <2>1, FreshStep
  <2>4. QED
    BY <2>2, <2>3 DEF Ordered
<1>3. QED
  BY <1>1, <1>2, Invariance, OwnedInvariance, PTL DEF Spec

\* published_at and withheld_at say what the status says, for one process with every
\* command and flag; and for any number of them without --replace, as long as at most one
\* of them runs passes over due packages, or none withholds.
THEOREM StampsAreRight ==
    ASSUME NoTakeover, NoStalePass
    PROVE  Spec => []StampsMatchStatus
<1>1. Ordered => StampsMatchStatus
  BY DEF Ordered
<1>2. QED
  BY <1>1, OrderedInvariance, PTL

\* Without --replace a package leaves "withheld" by republish and by nothing else, as long
\* as no pass can be stale (withhold_package, FR-021).
THEOREM WithheldUntilRepublished ==
    ASSUME "replace" \notin Flags, NoStalePass
    PROVE  Spec => WithheldLeftByRepublish
<1>1. TypeOK /\ Intents /\ Owned /\ Ordered /\ [Next]_vars
         => [\A q \in Pids : pkg[q].status = "withheld" /\ pkg'[q].status # "withheld"
                                => \E p \in Procs : pc[p] = "republish" /\ job[p].pid = q]_vars
  <2> SUFFICES ASSUME TypeOK, Intents, Owned, Ordered, Next, NEW q \in Pids,
                      pkg[q].status = "withheld", pkg'[q].status # "withheld"
               PROVE  \E p \in Procs : pc[p] = "republish" /\ job[p].pid = q
    OBVIOUS
  <2>1. ~ \A o \in Pids : Same(o)
    BY DEF Same
  <2>2. ASSUME NEW p \in Procs, NEW o \in Pids, RowMoved(p, o)
        PROVE  pc[p] = "republish" /\ job[p].pid = q
    BY <2>2 DEF RowMoved, Dropped, Born, StagedNow, PublishedNow, WithheldNow, RepublishedNow,
                Sets, Stored
  <2>3. ASSUME NEW o \in Pids, DueNow(o) PROVE FALSE
    BY <2>3 DEF DueNow, Sets
  <2>4. ASSUME NEW p \in Procs, NEW S \in SUBSET Pids, LazyNow(p, S) PROVE FALSE
    BY <2>4 DEF LazyNow, Ordered, Fresh, Passing, Servable
  <2>5. QED
    BY <2>1, <2>2, <2>3, <2>4, RowChanges
<1>2. NoTakeover
  BY DEF NoTakeover
<1>3. IInv => TypeOK /\ Intents
  BY DEF IInv
<1>4. QED
  BY <1>1, <1>2, <1>3, OrderedInvariance, PTL DEF Spec, WithheldLeftByRepublish

-------------------------------------------------------------------------------
(* The refinement. *)

Life == [q \in Pids |-> [status |-> pkg[q].status, after |-> pkg[q].after]]

\* What a change of one row is to the lifecycle.
LEMMA LifeMoves ==
    ASSUME NEW q \in Pids, NEW status, NEW after,
           pkg'[q].status = status, pkg'[q].after = after,
           \A o \in Pids \ {q} : pkg'[o] = pkg[o]
    PROVE  /\ Life' = [Life EXCEPT ![q] = [status |-> status, after |-> after]]
           /\ after = pkg[q].after => Life' = [Life EXCEPT ![q].status = status]
           /\ status = pkg[q].status => Life' = [Life EXCEPT ![q].after = after]
BY DEF Life

\* Every change of the rows is one operation of the lifecycle, or none.
LEMMA LifecycleStep ==
    ASSUME TypeOK, Intents, Owned, Ordered, [Next]_vars
    PROVE  [Lifecycle!Next]_Life
<1>1. CASE \A q \in Pids : Same(q)
  BY <1>1 DEF Same, Life
<1>2. ASSUME NEW p \in Procs, NEW q \in Pids, RowMoved(p, q)
      PROVE  [Lifecycle!Next]_Life
  <2>0. Life[q].status = pkg[q].status /\ Life[q].after = pkg[q].after
    BY DEF Life
  <2>1. CASE Dropped(p, q)
    <3>1. Life' = [Life EXCEPT ![q] = Lifecycle!Gone]
      BY <2>1, LifeMoves DEF Dropped, Lifecycle!Gone
    <3>2. Lifecycle!Remove(q)
      BY <2>0, <2>1, <3>1 DEF Dropped, Stored, Lifecycle!Remove, Life
    <3>3. QED
      BY <3>2 DEF Lifecycle!Next
  <2>2. CASE Born(q)
    <3>1. pkg[q].status = "absent" /\ pkg[q].after = "null"
      BY <2>2 DEF Born, Stored, Owned, Columns
    <3>2. Life' = [Life EXCEPT ![q].status = "imported"]
      BY <2>2, <3>1, LifeMoves DEF Born
    <3>3. Lifecycle!Insert(q)
      BY <2>0, <3>1, <3>2 DEF Lifecycle!Insert, Lifecycle!Move, Life
    <3>4. QED
      BY <3>3 DEF Lifecycle!Next
  <2>3. CASE StagedNow(q)
    <3>1. PICK when \in {"null", "later"} :
             Sets(q, "staged", when, pkg[q].publishedAt, pkg[q].withheldAt)
      BY <2>3 DEF StagedNow
    <3>2. Life' = [Life EXCEPT ![q] = [status |-> "staged", after |-> when]]
      BY <3>1, LifeMoves DEF Sets
    <3>3. Lifecycle!Stage(q, when)
      BY <2>0, <2>3, <3>2 DEF StagedNow, Lifecycle!Stage, Life
    <3>4. QED
      BY <3>3 DEF Lifecycle!Next
  <2>4. CASE PublishedNow(q)
    <3>1. Life' = [Life EXCEPT ![q].status = "published"]
      BY <2>4, LifeMoves DEF PublishedNow, Sets
    <3>2. Lifecycle!Publish(q)
      BY <2>0, <2>4, <3>1 DEF PublishedNow, Lifecycle!Publish, Lifecycle!Move, Life
    <3>3. QED
      BY <3>2 DEF Lifecycle!Next
  <2>5. CASE WithheldNow(p, q)
    <3>1. Life' = [Life EXCEPT ![q].status = "withheld"]
      BY <2>5, LifeMoves DEF WithheldNow, Sets
    <3>2. CASE pkg[q].status = "published"
      <4>1. Lifecycle!Withhold(q)
        BY <2>0, <3>1, <3>2 DEF Lifecycle!Withhold, Lifecycle!Move, Life
      <4>2. QED
        BY <4>1 DEF Lifecycle!Next
    <3>3. CASE pkg[q].status = "withheld"
      <4>1. \A o \in Pids : pkg'[o].status = pkg[o].status /\ pkg'[o].after = pkg[o].after
        BY <2>5, <3>3 DEF WithheldNow, Sets
      <4>2. QED
        BY <4>1 DEF Life
    <3>4. QED
      BY <2>5, <3>2, <3>3 DEF WithheldNow, Settled
  <2>6. CASE RepublishedNow(p, q)
    <3>1. Life' = [Life EXCEPT ![q].status = "published"]
      BY <2>6, LifeMoves DEF RepublishedNow, Sets
    <3>2. CASE pkg[q].status = "withheld"
      <4>1. Lifecycle!Republish(q)
        BY <2>0, <3>1, <3>2 DEF Lifecycle!Republish, Lifecycle!Move, Life
      <4>2. QED
        BY <4>1 DEF Lifecycle!Next
    <3>3. CASE pkg[q].status = "published"
      <4>1. \A o \in Pids : pkg'[o].status = pkg[o].status /\ pkg'[o].after = pkg[o].after
        BY <2>6, <3>3 DEF RepublishedNow, Sets
      <4>2. QED
        BY <4>1 DEF Life
    <3>4. QED
      BY <2>6, <3>2, <3>3 DEF RepublishedNow, Settled
  <2>7. QED
    BY <1>2, <2>1, <2>2, <2>3, <2>4, <2>5, <2>6 DEF RowMoved
<1>3. ASSUME NEW q \in Pids, DueNow(q) PROVE [Lifecycle!Next]_Life
  <2>1. pkg[q].after = "later" /\ Life' = [Life EXCEPT ![q].after = "due"]
    BY <1>3, LifeMoves DEF DueNow, Sets
  <2>2. Lifecycle!Elapse(q)
    BY <2>1 DEF Lifecycle!Elapse, Life
  <2>3. QED
    BY <2>2 DEF Lifecycle!Next
<1>4. ASSUME NEW p \in Procs, NEW S \in SUBSET Pids, LazyNow(p, S)
      PROVE  [Lifecycle!Next]_Life
  <2> DEFINE T == {q \in S : pkg[q].status = "staged"}
  <2>1. \A q \in S : Servable(q)
    BY <1>4 DEF LazyNow, Ordered, Fresh, Passing
  <2>2. \A q \in T : Life[q] = [status |-> "staged", after |-> "due"]
    BY <2>1 DEF Servable, Life
  <2>3. Life' = [q \in Pids |-> IF q \in T THEN [Life[q] EXCEPT !.status = "published"]
                                ELSE Life[q]]
    BY <1>4, <2>1 DEF LazyNow, Servable, Life
  <2>4. CASE T = {}
    BY <2>3, <2>4 DEF Life
  <2>5. CASE T # {}
    <3>1. PICK U \in (SUBSET Pids) \ {{}} : U = T
      BY <2>5
    <3> HIDE DEF T
    <3>2. Lifecycle!LazyPublish(U)
      BY <2>2, <2>3, <3>1 DEF Lifecycle!LazyPublish, Life
    <3>3. QED
      BY <3>2 DEF Lifecycle!Next
  <2>6. QED
    BY <2>4, <2>5
<1>5. QED
  BY <1>1, <1>2, <1>3, <1>4, RowChanges

\* The same as far as steps go: it fails if a row goes away under another process, or a
\* pass is stale.
LEMMA StoreSteps ==
    ASSUME NoTakeover, NoStalePass
    PROVE  Spec => ImplementsLifecycle
<1>1. Init => Lifecycle!Init
  BY DEF Init, Lifecycle!Init, Lifecycle!Gone
<1>2. IInv => TypeOK /\ Intents
  BY DEF IInv
<1>3. IInv /\ Owned /\ Ordered /\ [Next]_vars => [Lifecycle!Next]_Life
  BY <1>2, LifecycleStep
<1>4. QED
  BY <1>1, <1>3, OrderedInvariance, PTL DEF Spec, ImplementsLifecycle, Lifecycle!Spec, Life

\* One process implements the lifecycle that the docstrings of storage.py promise, with
\* every command and flag, --replace included, and wherever a command stops half-way.
THEOREM OneProcessImplementsLifecycle ==
    ASSUME Alone
    PROVE  Spec => ImplementsLifecycle
<1>1. NoTakeover /\ NoStalePass
  BY ConstantsAssumption DEF Alone, NoTakeover, NoStalePass, OnePublisher, Publishers
<1>2. QED
  BY <1>1, StoreSteps

\* Any number of CLI processes, with any interleaving of their reads and writes, implement
\* it too as long as no import replaces a package and only one process runs passes over
\* due packages. Either condition is needed: see ForcedNeverPublished of two processes
\* that replace, and WithheldLeftByRepublish of two passes.
THEOREM ProcessesImplementLifecycle ==
    ASSUME "replace" \notin Flags, OnePublisher
    PROVE  Spec => ImplementsLifecycle
BY StoreSteps DEF NoTakeover, NoStalePass
===============================================================================
