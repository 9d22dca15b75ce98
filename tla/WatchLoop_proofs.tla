----------------------------- MODULE WatchLoop_proofs -----------------------------
(***************************************************************************)
(* Proofs about WatchLoop for every number of watchers, of runs and of     *)
(* database errors, whatever the runs turn out to be and however watchers  *)
(* end.                                                                    *)
(***************************************************************************)
EXTENDS WatchLoop, WellFoundedInduction, TLAPS

\* The lockfile is that of the watcher that runs, or of one that died without a
\* chance to unlink it.
LockInv ==
    /\ OneWatcher /\ LockFollowsHolder
    /\ orphan => lock # NoWatcher /\ \A w \in Watchers : pc[w] = "off"

Busy(w) == pc[w] \in {"parse", "insert", "finalize", "log"}

\* The run at hand has not been logged, is not met again in this scan, and its row is not
\* one that an earlier INSERT left in the transaction.
JobOK(w) ==
    /\ queue[w] \cap tx[w] = {}
    /\ Busy(w) => /\ job[w].run \in Runs /\ logs[job[w].run] = 0
                  /\ job[w].run \notin queue[w] \cup tx[w]
    /\ pc[w] = "finalize" => row[job[w].run].whole

\* A package without its citations stays imported, which is not served.
PartlyImported == \A r \in Runs : ~row[r].whole => row[r].status = "imported"

JobInv == LoggedOnce /\ PartlyImported /\ \A w \in Watchers : JobOK(w)

WatchInv == TypeOK /\ LockInv /\ JobInv

Pcs == {"off", "locked", "list", "child", "parse", "insert", "finalize", "log"}

-------------------------------------------------------------------------------
\* The first of the children still to come is one of them.
LEMMA FirstChild ==
    ASSUME NEW S \in SUBSET Runs, S # {}
    PROVE  Min(S) \in S
<1> DEFINE R == OpToRel(<, Nat)
<1>1. IsWellFoundedOn(R, Nat)
  BY NatLessThanWellFounded
<1>2. \A v, w \in Nat : w < v => <<w, v>> \in R
  BY DEF OpToRel
<1>3. S \in SUBSET Nat
  BY WatchAssumption DEF Runs
<1> HIDE DEF R
<1>4. PICK v \in S : \A w \in S : ~ (<<w, v>> \in R)
  BY <1>1, <1>3, WFMin
<1>5. \A w \in S : ~ (w < v)
  BY <1>2, <1>3, <1>4
<1>6. \A w \in S : v <= w
  BY <1>3, <1>5
<1>7. QED
  BY <1>6 DEF Min

\* At first nobody runs and nothing is stored.
LEMMA InitWatch == Init => WatchInv
<1> SUFFICES ASSUME Init PROVE WatchInv
  OBVIOUS
<1> USE DEF Init
<1>1. NoRow \in Row /\ NoRow.whole /\ NoJob \in Job
  BY DEF NoRow, Row, NoJob, Job
<1>2. faults \in 0..MaxFaults
  BY WatchAssumption
<1>3. TypeOK
  BY <1>1, <1>2 DEF TypeOK
<1>4. LockInv
  BY DEF LockInv, OneWatcher, LockFollowsHolder
<1>5. JobInv
  BY <1>1 DEF JobInv, LoggedOnce, PartlyImported, JobOK, Busy
<1>6. QED
  BY <1>3, <1>4, <1>5 DEF WatchInv

-------------------------------------------------------------------------------
(* The lockfile. *)

\* A watcher goes from one step to another.
LEMMA LockKept ==
    ASSUME TypeOK, LockInv, UNCHANGED <<lock, orphan>>,
           \/ pc' = pc
           \/ \E w \in Watchers, l \in Pcs : pc[w] # "off" /\ l # "off" /\ Goto(w, l)
    PROVE  LockInv'
BY DEF TypeOK, LockInv, OneWatcher, LockFollowsHolder, Goto

\* A watcher ends and takes its lockfile with it.
LEMMA LockReleased ==
    ASSUME TypeOK, LockInv, NEW w \in Watchers, pc[w] # "off", Exit(w)
    PROVE  LockInv'
BY DEF TypeOK, LockInv, OneWatcher, LockFollowsHolder, Exit, Gone, Goto

\* The lockfile in every step.
LEMMA LockStep ==
    ASSUME TypeOK, LockInv, Next
    PROVE  LockInv'
<1> USE DEF Pcs
<1>1. ASSUME NEW w \in Watchers, Start(w) \/ StartFails(w) PROVE LockInv'
  BY <1>1, WatchAssumption DEF Start, StartFails, Goto, TypeOK, LockInv, OneWatcher, LockFollowsHolder
<1>2. ASSUME NEW w \in Watchers, Kill(w) PROVE LockInv'
  <2>1. pc[w] # "off" /\ lock = w /\ lock' = lock /\ orphan' = TRUE /\ pc' = [pc EXCEPT ![w] = "off"]
    BY <1>2 DEF Kill, Gone, Goto, LockInv, OneWatcher
  <2>2. \A v \in Watchers : pc'[v] = "off"
    BY <2>1 DEF TypeOK, LockInv, OneWatcher
  <2>3. QED
    BY <2>1, <2>2, WatchAssumption DEF LockInv, OneWatcher, LockFollowsHolder
<1>3. CASE Unlock
  BY <1>3 DEF Unlock, LockInv, OneWatcher, LockFollowsHolder
<1>4. ASSUME NEW r \in Runs, Produce(r) \/ CliImport(r) PROVE LockInv'
  BY <1>4, LockKept DEF Produce, CliImport
<1>5. ASSUME NEW w \in Watchers, Install(w) \/ Scan(w) \/ NextChild(w) \/ EndScan(w) \/ Insert(w) \/ LogRun(w) \/ Term(w)
      PROVE  LockInv'
  BY <1>5, LockKept DEF Install, Scan, NextChild, EndScan, Insert, LogRun, Term, NextRun, Goto
<1>6. ASSUME NEW w \in Watchers, Leave(w) \/ Interrupt(w) PROVE LockInv'
  BY <1>6, LockReleased DEF Leave, Interrupt
<1>7. ASSUME NEW w \in Watchers, Parse(w) PROVE LockInv'
  <2>1. Exit(w) \/ (\E l \in {"log", "insert"} : Goto(w, l) /\ UNCHANGED <<lock, orphan>>)
    BY <1>7 DEF Parse
  <2>2. QED
    BY <1>7, <2>1, LockKept, LockReleased DEF Parse
<1>8. ASSUME NEW w \in Watchers, InsertDuplicate(w) \/ Finalize(w) \/ Fault(w) PROVE LockInv'
  <2>1. /\ pc[w] # "off"
        /\ Exit(w) \/ (\E l \in {"child", "log"} : Goto(w, l) /\ UNCHANGED <<lock, orphan>>)
    BY <1>8 DEF InsertDuplicate, Finalize, Fault, NextRun
  <2>2. QED
    BY <2>1, LockKept, LockReleased
<1>9. QED
  BY <1>1, <1>2, <1>3, <1>4, <1>5, <1>6, <1>7, <1>8 DEF Next, Step

-------------------------------------------------------------------------------
(* Types and the run at hand. *)

\* All others are off, so that only w has a run at hand.
LEMMA Alone ==
    ASSUME LockInv, NEW w \in Watchers, pc[w] # "off", NEW v \in Watchers, v # w
    PROVE  pc[v] = "off"
BY DEF LockInv, OneWatcher

\* A step of watcher w alone: where it is then, what is left of its scan, the run at hand
\* and the open transaction.
Moved(w, l, q, j, t) ==
    /\ pc' = [pc EXCEPT ![w] = l] /\ queue' = [queue EXCEPT ![w] = q]
    /\ job' = [job EXCEPT ![w] = j] /\ tx' = [tx EXCEPT ![w] = t]

\* These are such that the watcher can go on.
Ready(l, q, j, t) ==
    /\ l \in Pcs /\ q \in SUBSET Runs /\ j \in Job /\ t \in SUBSET Runs
    /\ l \in {"off", "locked", "list"} => t = {}
    /\ q \cap t = {}
    /\ l \in {"parse", "insert", "finalize", "log"} =>
          j.run \in Runs /\ logs[j.run] = 0 /\ j.run \notin q \cup t
    /\ l = "finalize" => row'[j.run].whole

\* The rest of the state.
Sound ==
    /\ disk' = disk /\ nature' = nature /\ logs' = logs /\ faults' \in 0..MaxFaults
    /\ stop' \in [Watchers -> BOOLEAN] /\ lock' \in Watchers \cup {NoWatcher}
    /\ orphan' \in BOOLEAN /\ row' \in [Runs -> Row] /\ PartlyImported'

LEMMA OwnStep ==
    ASSUME TypeOK, LockInv, JobInv, NEW w \in Watchers, pc[w] # "off", Sound,
           NEW l, NEW q, NEW j, NEW t, Moved(w, l, q, j, t), Ready(l, q, j, t)
    PROVE  TypeOK' /\ JobInv'
<1>0. pc' = [pc EXCEPT ![w] = l] /\ queue' = [queue EXCEPT ![w] = q] /\ job' = [job EXCEPT ![w] = j]
      /\ tx' = [tx EXCEPT ![w] = t]
  BY DEF Moved
<1>1. TypeOK'
  BY <1>0 DEF TypeOK, Sound, Ready, Pcs
<1>2. \A v \in Watchers : v # w => /\ pc'[v] = "off" /\ queue'[v] = queue[v] /\ tx'[v] = tx[v]
  BY <1>0, Alone DEF TypeOK
<1>3. JobOK(w)'
  BY <1>0 DEF TypeOK, JobOK, Busy, Ready, Sound
<1>4. \A v \in Watchers : JobOK(v)'
  BY <1>2, <1>3 DEF JobInv, JobOK, Busy
<1>5. LoggedOnce'
  BY DEF JobInv, LoggedOnce, Sound
<1>6. QED
  BY <1>1, <1>4, <1>5 DEF JobInv, Sound

\* A watcher that ends, however it does.
LEMMA GoneStep ==
    ASSUME TypeOK, LockInv, JobInv, NEW w \in Watchers, pc[w] # "off", Gone(w), LockInv',
           UNCHANGED <<world, store>>, faults' \in 0..MaxFaults,
           lock' \in Watchers \cup {NoWatcher}, orphan' \in BOOLEAN
    PROVE  TypeOK' /\ JobInv'
<1>1. NoJob \in Job /\ NoJob.run = 0
  BY DEF NoJob, Job
<1>2. TypeOK'
  BY <1>1 DEF TypeOK, Gone, Goto, world, store
<1>3. \A v \in Watchers : pc'[v] = "off" /\ queue'[v] \cap tx'[v] = {}
  BY Alone DEF Gone, Goto, TypeOK, JobInv, JobOK
<1>4. LoggedOnce' /\ PartlyImported'
  BY DEF JobInv, LoggedOnce, PartlyImported, store
<1>5. QED
  BY <1>2, <1>3, <1>4 DEF JobInv, JobOK, Busy

\* What a commit stores: the rows left in the transaction, without their citations.
LEMMA CommitRows ==
    ASSUME TypeOK, JobInv, NEW w \in Watchers, NEW rows \in [Runs -> Row], Commit(w, rows),
           \A r \in Runs : ~rows[r].whole => rows[r].status = "imported"
    PROVE  /\ row' \in [Runs -> Row] /\ PartlyImported'
           /\ tx' = [tx EXCEPT ![w] = {}]
           /\ \A r \in Runs : r \notin tx[w] => row'[r] = rows[r]
<1>1. [status |-> "imported", whole |-> FALSE] \in Row
  BY DEF Row
<1>2. \A r \in Runs : row'[r] = IF r \in tx[w] THEN [status |-> "imported", whole |-> FALSE] ELSE rows[r]
  BY DEF Commit
<1>3. row' \in [Runs -> Row]
  BY <1>1 DEF Commit
<1>4. PartlyImported'
  BY <1>2 DEF PartlyImported
<1>5. QED
  BY <1>2, <1>3, <1>4 DEF Commit

\* The steps of a scan between two runs.
LEMMA ScanSteps ==
    ASSUME TypeOK, LockInv, JobInv, NEW w \in Watchers, LockInv',
           Install(w) \/ Scan(w) \/ NextChild(w) \/ EndScan(w) \/ Term(w)
    PROVE  TypeOK' /\ JobInv'
<1>f. /\ job[w] \in Job /\ queue[w] \in SUBSET Runs /\ tx[w] \in SUBSET Runs /\ faults \in 0..MaxFaults
      /\ pc[w] \in {"off", "locked", "list"} => tx[w] = {}
      /\ queue[w] \cap tx[w] = {} /\ job = [job EXCEPT ![w] = job[w]]
      /\ tx = [tx EXCEPT ![w] = tx[w]] /\ queue = [queue EXCEPT ![w] = queue[w]]
      /\ pc = [pc EXCEPT ![w] = pc[w]]
      /\ stop \in [Watchers -> BOOLEAN] /\ lock \in Watchers \cup {NoWatcher} /\ orphan \in BOOLEAN
      /\ row \in [Runs -> Row]
  BY DEF TypeOK, JobInv, JobOK
<1>1. CASE Install(w)
  <2>1. Moved(w, "list", queue[w], job[w], tx[w])
    BY <1>1, <1>f DEF Install, Goto, Moved
  <2>2. pc[w] = "locked" /\ Ready("list", queue[w], job[w], tx[w])
    BY <1>1, <1>f DEF Install, Ready, Pcs
  <2>3. Sound
    BY <1>1, <1>f DEF Install, Sound, world, store, JobInv, PartlyImported
  <2>4. QED
    BY <2>1, <2>2, <2>3, OwnStep
<1>2. CASE Scan(w)
  <2> DEFINE q == {r \in Runs : disk[r] # "absent"}
  <2>1. Moved(w, "child", q, job[w], tx[w])
    BY <1>2, <1>f DEF Scan, Goto, Moved
  <2>2. pc[w] = "list" /\ Ready("child", q, job[w], tx[w])
    BY <1>2, <1>f DEF Scan, Ready, Pcs
  <2>3. Sound
    BY <1>2, <1>f DEF Scan, Sound, world, store, JobInv, PartlyImported
  <2> HIDE DEF q
  <2>4. QED
    BY <2>1, <2>2, <2>3, OwnStep
<1>3. CASE NextChild(w)
  <2> DEFINE r == Min(queue[w])
  <2>1. r \in queue[w] /\ r \in Runs /\ pc[w] = "child" /\ queue' = [queue EXCEPT ![w] = queue[w] \ {r}]
    BY <1>3, <1>f, FirstChild DEF NextChild
  <2>2. Sound /\ tx' = tx
    BY <1>3, <1>f DEF NextChild, Sound, world, store, JobInv, PartlyImported
  <2>3. queue[w] \ {r} \in SUBSET Runs /\ (queue[w] \ {r}) \cap tx[w] = {} /\ r \notin tx[w]
    BY <1>f, <2>1
  <2>4. CASE disk[r] = "dir" \/ Seen(r)
    <3>1. pc' = [pc EXCEPT ![w] = "child"] /\ job' = [job EXCEPT ![w] = job[w]]
      BY <1>3, <1>f, <2>1, <2>4 DEF NextChild
    <3> HIDE DEF r
    <3>2. Moved(w, "child", queue[w] \ {r}, job[w], tx[w]) /\ Ready("child", queue[w] \ {r}, job[w], tx[w])
      BY <1>f, <2>1, <2>2, <2>3, <3>1 DEF Moved, Ready, Pcs
    <3>3. QED
      BY <2>1, <2>2, <3>2, OwnStep
  <2>5. CASE ~(disk[r] = "dir" \/ Seen(r))
    <3> DEFINE j == [NoJob EXCEPT !.run = r]
    <3>1. pc' = [pc EXCEPT ![w] = "parse"] /\ job' = [job EXCEPT ![w] = j]
      BY <1>3, <2>5 DEF NextChild, Goto
    <3>2. j \in Job /\ j.run = r
      BY <2>1 DEF NoJob, Job
    <3>3. logs[r] = 0
      BY <2>1, <2>5 DEF Seen, TypeOK
    <3> HIDE DEF r, j
    <3>4. Moved(w, "parse", queue[w] \ {r}, j, tx[w]) /\ Ready("parse", queue[w] \ {r}, j, tx[w])
      BY <1>f, <2>1, <2>2, <2>3, <3>1, <3>2, <3>3 DEF Moved, Ready, Pcs
    <3>5. QED
      BY <2>1, <2>2, <3>4, OwnStep
  <2>6. QED
    BY <2>4, <2>5
<1>4. CASE EndScan(w)
  <2>1. Moved(w, "list", {}, job[w], {}) /\ pc[w] # "off"
    BY <1>4, <1>f DEF EndScan, Goto, Moved
  <2>2. Ready("list", {}, job[w], {})
    BY <1>f DEF Ready, Pcs
  <2>3. Sound
    BY <1>4, <1>f DEF EndScan, Sound, world, store, JobInv, PartlyImported
  <2>4. QED
    BY <2>1, <2>2, <2>3, OwnStep
<1>5. CASE Term(w)
  <2>1. stop' \in [Watchers -> BOOLEAN]
    BY <1>5, <1>f DEF Term
  <2>2. TypeOK'
    BY <1>5, <2>1 DEF Term, TypeOK, world, store
  <2>3. JobInv'
    BY <1>5 DEF Term, JobInv, LoggedOnce, PartlyImported, JobOK, Busy, store
  <2>4. QED
    BY <2>2, <2>3
<1>6. QED
  BY <1>1, <1>2, <1>3, <1>4, <1>5

\* The steps of one run, up to its row of ingest_runs.
LEMMA RunSteps ==
    ASSUME TypeOK, LockInv, JobInv, NEW w \in Watchers, LockInv',
           Parse(w) \/ Insert(w) \/ InsertDuplicate(w) \/ Finalize(w) \/ Fault(w)
    PROVE  TypeOK' /\ JobInv'
<1> DEFINE r == job[w].run
<1>f. /\ job[w] \in Job /\ queue[w] \in SUBSET Runs /\ tx[w] \in SUBSET Runs /\ faults \in 0..MaxFaults
      /\ queue[w] \cap tx[w] = {}
      /\ tx = [tx EXCEPT ![w] = tx[w]] /\ queue = [queue EXCEPT ![w] = queue[w]]
      /\ stop \in [Watchers -> BOOLEAN] /\ lock \in Watchers \cup {NoWatcher} /\ orphan \in BOOLEAN
      /\ row \in [Runs -> Row] /\ PartlyImported
  BY DEF TypeOK, JobInv, JobOK
<1>b. Busy(w) => r \in Runs /\ logs[r] = 0 /\ r \notin queue[w] \cup tx[w]
  BY DEF JobInv, JobOK
<1>n. NoJob \in Job
  BY DEF NoJob, Job
<1>g. ASSUME pc[w] # "off", Exit(w), UNCHANGED <<world, store>>, faults' \in 0..MaxFaults
      PROVE  TypeOK' /\ JobInv'
  BY <1>g, <1>f, GoneStep DEF Exit
<1>x. ASSUME Busy(w), NextRun(w), UNCHANGED <<world, store, lock, orphan, stop, queue>>, faults' \in 0..MaxFaults,
             NEW t \in SUBSET Runs, tx' = [tx EXCEPT ![w] = t], queue[w] \cap t = {}
      PROVE  TypeOK' /\ JobInv'
  <2>1. pc' = [pc EXCEPT ![w] = "child"] /\ job' = [job EXCEPT ![w] = NoJob] /\ pc[w] # "off"
    BY <1>x DEF NextRun, Goto, Busy
  <2>2. Sound
    BY <1>x, <1>f DEF Sound, world, store, PartlyImported
  <2>3. Moved(w, "child", queue[w], NoJob, t)
    BY <1>x, <1>f, <2>1 DEF Moved
  <2>4. Ready("child", queue[w], NoJob, t)
    BY <1>x, <1>f, <1>n DEF Ready, Pcs
  <2>5. QED
    BY <2>1, <2>2, <2>3, <2>4, OwnStep
<1>1. CASE Parse(w)
  <2>1. pc[w] = "parse" /\ Busy(w) /\ UNCHANGED <<world, store, faults>>
    BY <1>1 DEF Parse, Busy
  <2>2. CASE Exit(w)
    BY <1>f, <1>g, <2>1, <2>2
  <2>3. ASSUME NEW o \in Nature, NEW l \in {"log", "insert"}, Goto(w, l),
               job' = [job EXCEPT ![w].outcome = o], UNCHANGED <<lock, orphan, stop, queue, tx>>
        PROVE  TypeOK' /\ JobInv'
    <3> DEFINE j == [job[w] EXCEPT !.outcome = o]
    <3>1. j \in Job /\ j.run = r /\ job' = [job EXCEPT ![w] = j]
      BY <1>f, <2>3 DEF Job
    <3>2. Sound
      BY <1>f, <2>1, <2>3 DEF Sound, world, store, PartlyImported
    <3> HIDE DEF j, r
    <3>3. Moved(w, l, queue[w], j, tx[w])
      BY <1>f, <2>3, <3>1 DEF Moved, Goto
    <3>4. Ready(l, queue[w], j, tx[w])
      BY <1>f, <1>b, <2>1, <3>1 DEF Ready, Pcs
    <3>5. QED
      BY <2>1, <3>2, <3>3, <3>4, OwnStep
  <2>4. nature[r] \in Nature
    BY <1>b, <2>1, WatchAssumption DEF TypeOK
  <2>5. QED
    BY <1>1, <2>2, <2>3, <2>4 DEF Parse, Nature
<1>2. CASE Insert(w)
  <2>1. pc[w] = "insert" /\ Busy(w) /\ r \in Runs /\ row[r].status = "none" /\ r \notin queue[w] \cup tx[w]
    BY <1>2, <1>b DEF Insert, Busy
  <2>2. CASE job[w].outcome = "unbindable"
    <3> DEFINE t == tx[w] \cup {r}
    <3>1. t \in SUBSET Runs /\ tx' = [tx EXCEPT ![w] = t] /\ queue[w] \cap t = {}
      BY <1>2, <1>f, <2>1, <2>2 DEF Insert
    <3>2. NextRun(w) /\ UNCHANGED <<world, store, lock, orphan, stop, queue, faults>>
      BY <1>2, <2>2 DEF Insert, store
    <3> HIDE DEF t
    <3>3. QED
      BY <1>f, <1>x, <2>1, <3>1, <3>2
  <2>3. CASE job[w].outcome # "unbindable"
    <3> DEFINE rows == [row EXCEPT ![r].status = "imported"]
    <3>1. rows \in [Runs -> Row] /\ rows[r].whole /\ \A x \in Runs : ~rows[x].whole => rows[x].status = "imported"
      BY <1>f, <2>1 DEF Row, PartlyImported
    <3>2. Commit(w, rows) /\ pc' = [pc EXCEPT ![w] = "finalize"]
      BY <1>2, <2>3 DEF Insert, Goto
    <3>3. UNCHANGED <<world, logs, lock, orphan, stop, queue, faults, job>>
      BY <1>2, <2>3 DEF Insert
    <3> HIDE DEF rows
    <3>4. /\ row' \in [Runs -> Row] /\ PartlyImported' /\ tx' = [tx EXCEPT ![w] = {}]
          /\ row'[r] = rows[r]
      BY <2>1, <3>1, <3>2, CommitRows
    <3>5. job' = [job EXCEPT ![w] = job[w]]
      BY <3>3 DEF TypeOK
    <3> HIDE DEF r
    <3>6. Sound
      BY <1>f, <3>3, <3>4 DEF Sound, world
    <3>7. Moved(w, "finalize", queue[w], job[w], {})
      BY <1>f, <3>2, <3>3, <3>4, <3>5 DEF Moved
    <3>8. Ready("finalize", queue[w], job[w], {})
      BY <1>f, <1>b, <2>1, <3>1, <3>4 DEF Ready, Pcs, r
    <3>9. QED
      BY <2>1, <3>6, <3>7, <3>8, OwnStep
  <2>4. QED
    BY <2>2, <2>3
<1>3. CASE InsertDuplicate(w)
  <2>1. pc[w] = "insert" /\ Busy(w) /\ UNCHANGED <<world, store, faults>>
    BY <1>3 DEF InsertDuplicate, Busy
  <2>2. CASE Exit(w)
    BY <1>f, <1>g, <2>1, <2>2
  <2>3. CASE NextRun(w) /\ UNCHANGED <<lock, orphan, stop, queue, tx>>
    BY <1>f, <1>x, <2>1, <2>3
  <2>4. QED
    BY <1>3, <2>2, <2>3 DEF InsertDuplicate
<1>4. CASE Finalize(w)
  <2>1. pc[w] = "finalize" /\ Busy(w) /\ UNCHANGED <<world, logs, faults>> /\ row[r].whole
    BY <1>4 DEF Finalize, Busy, JobInv, JobOK
  <2>2. CASE job[w].outcome = "naive" /\ ~Delayed
    BY <1>4, <1>f, <1>g, <2>1, <2>2 DEF Finalize, store
  <2>3. CASE ~(job[w].outcome = "naive" /\ ~Delayed)
    <3> DEFINE rows == [row EXCEPT ![r].status = "served"]
    <3>1. rows \in [Runs -> Row] /\ \A x \in Runs : ~rows[x].whole => rows[x].status = "imported"
      BY <1>f, <1>b, <2>1 DEF Row, PartlyImported
    <3>2. Commit(w, rows) /\ pc' = [pc EXCEPT ![w] = "log"] /\ UNCHANGED <<lock, orphan, stop, queue, job>>
      BY <1>4, <2>3 DEF Finalize, Goto
    <3> HIDE DEF rows
    <3>3. row' \in [Runs -> Row] /\ PartlyImported' /\ tx' = [tx EXCEPT ![w] = {}]
      BY <3>1, <3>2, CommitRows
    <3>4. job' = [job EXCEPT ![w] = job[w]]
      BY <3>2 DEF TypeOK
    <3>5. Sound
      BY <1>f, <2>1, <3>2, <3>3 DEF Sound, world
    <3>6. Moved(w, "log", queue[w], job[w], {})
      BY <1>f, <3>2, <3>3, <3>4 DEF Moved
    <3>7. Ready("log", queue[w], job[w], {})
      BY <1>f, <1>b, <2>1 DEF Ready, Pcs
    <3>8. QED
      BY <2>1, <3>5, <3>6, <3>7, OwnStep
  <2>4. QED
    BY <2>2, <2>3
<1>5. CASE Fault(w)
  <2>1. faults' \in 0..MaxFaults
    BY <1>5, <1>f, WatchAssumption DEF Fault
  <2>2. UNCHANGED <<world, store>>
    BY <1>5 DEF Fault
  <2>3. CASE /\ pc[w] \in {"insert", "finalize"} \/ (pc[w] = "log" /\ job[w].outcome # "bad")
             /\ NextRun(w) /\ UNCHANGED <<lock, orphan, stop, queue, tx>>
    BY <1>f, <1>x, <2>1, <2>2, <2>3 DEF Busy
  <2>4. CASE /\ pc[w] \in {"list", "child"} \/ (pc[w] = "log" /\ job[w].outcome = "bad")
             /\ Exit(w)
    BY <1>g, <2>1, <2>2, <2>4
  <2>5. QED
    BY <1>5, <2>3, <2>4 DEF Fault
<1>6. QED
  BY <1>1, <1>2, <1>3, <1>4, <1>5

\* The row of ingest_runs is the first of its run, for the run at hand has none yet.
LEMMA LogStep ==
    ASSUME TypeOK, LockInv, JobInv, NEW w \in Watchers, LogRun(w)
    PROVE  TypeOK' /\ JobInv'
<1> DEFINE r == job[w].run
<1>1. pc[w] = "log" /\ r \in Runs /\ logs[r] = 0 /\ logs' = [logs EXCEPT ![r] = 1]
  <2>1. pc[w] = "log" /\ logs' = [logs EXCEPT ![r] = logs[r] + 1]
    BY DEF LogRun
  <2>2. r \in Runs /\ logs[r] = 0
    BY <2>1 DEF JobInv, JobOK, Busy
  <2> HIDE DEF r
  <2>3. logs[r] + 1 = 1
    BY <2>2
  <2>4. QED
    BY <2>1, <2>2, <2>3
<1>2. row \in [Runs -> Row] /\ \A x \in Runs : ~row[x].whole => row[x].status = "imported"
  BY DEF TypeOK, JobInv, PartlyImported
<1>3. row' \in [Runs -> Row] /\ PartlyImported' /\ tx' = [tx EXCEPT ![w] = {}]
  BY <1>2, CommitRows DEF LogRun
<1>4. NoJob \in Job
  BY DEF NoJob, Job
<1>5. /\ pc' = [pc EXCEPT ![w] = "child"] /\ job' = [job EXCEPT ![w] = NoJob]
      /\ UNCHANGED <<disk, nature, lock, orphan, stop, queue, faults>>
  BY DEF LogRun, NextRun, Goto, world
<1> HIDE DEF r
<1>6. TypeOK'
  BY <1>1, <1>3, <1>4, <1>5 DEF TypeOK
<1>7. LoggedOnce'
  BY <1>1 DEF JobInv, LoggedOnce, TypeOK
<1>8. \A v \in Watchers : pc'[v] \in {"off", "child"} /\ queue'[v] \cap tx'[v] = {}
  BY <1>1, <1>3, <1>5, Alone DEF TypeOK, JobInv, JobOK
<1>9. QED
  BY <1>3, <1>6, <1>7, <1>8 DEF JobInv, JobOK, Busy

\* What happens beside the watchers: runs are written and imported, a lockfile is removed.
LEMMA WorldStep ==
    ASSUME TypeOK, JobInv,
           Unlock \/ \E r \in Runs : Produce(r) \/ CliImport(r)
    PROVE  TypeOK' /\ JobInv'
<1>1. CASE Unlock
  <2>1. TypeOK'
    BY <1>1 DEF Unlock, TypeOK, world, store
  <2>2. JobInv'
    BY <1>1 DEF Unlock, JobInv, LoggedOnce, PartlyImported, JobOK, Busy, store
  <2>3. QED
    BY <2>1, <2>2
<1>2. ASSUME NEW r \in Runs, Produce(r) PROVE TypeOK' /\ JobInv'
  <2>1. disk' \in [Runs -> {"absent", "dir", "partial", "complete"}]
    BY <1>2 DEF Produce, TypeOK
  <2>2. TypeOK'
    BY <1>2, <2>1 DEF Produce, TypeOK, store
  <2>3. JobInv'
    BY <1>2 DEF Produce, JobInv, LoggedOnce, PartlyImported, JobOK, Busy, store
  <2>4. QED
    BY <2>2, <2>3
<1>3. ASSUME NEW r \in Runs, CliImport(r) PROVE TypeOK' /\ JobInv'
  <2>1. /\ row[r].status = "none" /\ row' = [row EXCEPT ![r].status = "served"]
        /\ UNCHANGED <<disk, nature, logs, lock, orphan, pc, stop, queue, job, tx, faults>>
    BY <1>3 DEF CliImport, world
  <2>2. row[r].whole
    BY <2>1 DEF JobInv, PartlyImported
  <2>3. row' \in [Runs -> Row] /\ \A x \in Runs : row'[x].whole = row[x].whole
    BY <2>1 DEF TypeOK, Row
  <2>4. TypeOK'
    BY <2>1, <2>3 DEF TypeOK
  <2>5. PartlyImported'
    BY <2>1, <2>2, <2>3 DEF JobInv, PartlyImported, TypeOK
  <2>6. LoggedOnce' /\ \A v \in Watchers : JobOK(v)'
    BY <2>1, <2>3 DEF JobInv, LoggedOnce, JobOK, Busy
  <2>7. QED
    BY <2>4, <2>5, <2>6 DEF JobInv
<1>4. QED
  BY <1>1, <1>2, <1>3

\* A watcher begins, or ends.
LEMMA EndStep ==
    ASSUME TypeOK, LockInv, JobInv, NEW w \in Watchers, LockInv',
           Start(w) \/ StartFails(w) \/ Kill(w) \/ Interrupt(w) \/ Leave(w)
    PROVE  TypeOK' /\ JobInv'
<1>f. faults \in 0..MaxFaults /\ lock \in Watchers \cup {NoWatcher} /\ orphan \in BOOLEAN
  BY DEF TypeOK
<1>1. CASE Start(w)
  <2>1. /\ pc[w] = "off" /\ pc' = [pc EXCEPT ![w] = "locked"] /\ lock' = w
        /\ UNCHANGED <<disk, nature, row, logs, orphan, stop, queue, job, tx, faults>>
    BY <1>1 DEF Start, Goto, world, store
  <2>2. TypeOK'
    BY <2>1 DEF TypeOK
  <2>3. JobInv'
    BY <2>1 DEF JobInv, LoggedOnce, PartlyImported, JobOK, Busy, TypeOK
  <2>4. QED
    BY <2>2, <2>3
<1>2. CASE Kill(w)
  <2>1. /\ pc[w] # "off" /\ Gone(w) /\ orphan' = TRUE /\ lock' = lock /\ faults' = faults
        /\ UNCHANGED <<world, store>>
    BY <1>2 DEF Kill
  <2>2. QED
    BY <1>f, <2>1, GoneStep
<1>3. CASE Interrupt(w) \/ Leave(w)
  <2>1. /\ pc[w] # "off" /\ Gone(w) /\ orphan' = orphan /\ lock' = NoWatcher /\ faults' = faults
        /\ UNCHANGED <<world, store>>
    BY <1>3 DEF Interrupt, Leave, Exit
  <2>2. QED
    BY <1>f, <2>1, GoneStep
<1>4. CASE StartFails(w)
  <2>1. /\ lock' = w /\ orphan' = TRUE
        /\ UNCHANGED <<disk, nature, row, logs, pc, stop, queue, job, tx, faults>>
    BY <1>4 DEF StartFails, world, store
  <2>2. TypeOK'
    BY <2>1 DEF TypeOK
  <2>3. JobInv'
    BY <2>1 DEF JobInv, LoggedOnce, PartlyImported, JobOK, Busy, TypeOK
  <2>4. QED
    BY <2>2, <2>3
<1>5. QED
  BY <1>1, <1>2, <1>3, <1>4

-------------------------------------------------------------------------------
\* The strengthened invariant is kept by every step.
LEMMA StepWatch == WatchInv /\ [Next]_vars => WatchInv'
<1> SUFFICES ASSUME WatchInv, [Next]_vars PROVE WatchInv'
  OBVIOUS
<1> USE DEF WatchInv
<1>1. CASE Next
  <2>1. LockInv'
    BY <1>1, LockStep
  <2>2. TypeOK' /\ JobInv'
    BY <1>1, <2>1, WorldStep, EndStep, ScanSteps, RunSteps, LogStep DEF Next, Step
  <2>3. QED
    BY <2>1, <2>2
<1>2. CASE UNCHANGED vars
  <2>1. TypeOK'
    BY <1>2 DEF vars, TypeOK
  <2>2. LockInv'
    BY <1>2 DEF vars, LockInv, OneWatcher, LockFollowsHolder
  <2>3. JobInv'
    BY <1>2 DEF vars, JobInv, LoggedOnce, PartlyImported, JobOK, Busy
  <2>4. QED
    BY <2>1, <2>2, <2>3
<1>3. QED
  BY <1>1, <1>2

LEMMA WatchSound == Spec => []WatchInv
BY InitWatch, StepWatch, PTL DEF Spec

\* Every variable keeps its type, and no transaction is open outside a scan: cmd_watch
\* opens its connection for one scan and closes it in a finally clause.
THEOREM TypeCorrect == Spec => []TypeOK
<1>1. WatchInv => TypeOK
  BY DEF WatchInv
<1>2. QED
  BY <1>1, WatchSound, PTL

\* Of any number of watchers, started and ended in any way, one at most is in its loop: the
\* one that created the lockfile that is there (_acquire_watch_lock).
THEOREM OneWatcherAtATime == Spec => []OneWatcher
<1>1. WatchInv => OneWatcher
  BY DEF WatchInv, LockInv
<1>2. QED
  BY <1>1, WatchSound, PTL

\* A lockfile without a watcher is that of one that was killed or could not write its pid:
\* the finally clause of cmd_watch removes it at every other end.
THEOREM LockIsFollowed == Spec => []LockFollowsHolder
<1>1. WatchInv => LockFollowsHolder
  BY DEF WatchInv, LockInv
<1>2. QED
  BY <1>1, WatchSound, PTL

\* However watchers are killed, interrupted and meet errors, no run gets a second row of
\* ingest_runs: run_already_seen, the single watcher and the listing made once a scan.
THEOREM LoggedAtMostOnce == Spec => []LoggedOnce
<1>1. WatchInv => LoggedOnce
  BY DEF WatchInv, JobInv
<1>2. QED
  BY <1>1, WatchSound, PTL

\* A package that insert_package left in the transaction without its citations, and that a
\* later commit stored, is served by no later step.
THEOREM ServedWhole == Spec => []ServedIsWhole
<1>1. WatchInv => ServedIsWhole
  BY DEF WatchInv, JobInv, PartlyImported, ServedIsWhole
<1>2. QED
  BY <1>1, WatchSound, PTL
===============================================================================
