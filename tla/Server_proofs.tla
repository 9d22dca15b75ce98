------------------------------- MODULE Server_proofs -------------------------------
(***************************************************************************)
(* Proofs about the API server: about its requests (Responses) for every   *)
(* number of clients, threads and commands, and about the connection that  *)
(* their threads share (ServerConn) for every number of threads and CLI    *)
(* processes.  The two specifications have no variable in common.          *)
(***************************************************************************)
EXTENDS Responses, ServerConn, TLAPS

-------------------------------------------------------------------------------
(* ServerConn: the connection. *)

\* A log row waits for a commit only while there is a transaction to commit, and
\* its own thread is on the way to its commit().
Waiting(t) ==
    logged[t] = "open" => inTx /\ work[t] = "log" /\ pc[t] \in {"test_commit", "commit"}

Waits == \A t \in Threads : Waiting(t)

\* While the server is calm one request is in progress; what it is about to do
\* is what the connection is ready for, and a log row it has written is there.
Alone == \A t, o \in Threads : t # o => pc[t] = "idle" \/ pc[o] = "idle"
OnItsWay(t) ==
    /\ pc[t] = "begin" => ~inTx
    /\ pc[t] \in {"test_commit", "commit"} /\ work[t] = "log" => logged[t] # "none"
    /\ pc[t] = "ended" => logged[t] = "kept"

\* A transaction that has read has the write lock, so no other commit makes its
\* snapshot old; one that is left open by a pass that raised has it too.
LockedIfRead ==
    /\ snap # "none" => snap = "latest" /\ lock = Server
    /\ inTx => lock = Server \/ \E t \in Threads : pc[t] = "write"

Calm == calm => Alone /\ LockedIfRead /\ \A t \in Threads : OnItsWay(t)

ConnInv == ConnTypeOK /\ Waits /\ Calm

-------------------------------------------------------------------------------
\* The server has no transaction and no request at first.
LEMMA StartConn == ConnInit => ConnInv
BY DEF ConnInit, ConnInv, ConnTypeOK, Waits, Waiting, Calm, Alone, LockedIfRead, OnItsWay

\* Every step keeps the invariant. Only Write makes a row wait and only Commit ends
\* the transaction; the thread whose row waits moves from the test to the commit.
LEMMA StepConn ==
    ASSUME ConnInv, [ConnNext]_connVars
    PROVE  ConnInv'
<1> USE ConnAssumption DEF ConnInv, ConnTypeOK, Waits, Waiting, Calm, Alone, LockedIfRead, OnItsWay
<1>1. ASSUME NEW t \in Threads, Arrive(t) PROVE ConnInv'
  <2>1. PICK label \in {"scan", "read"} : Goto(t, label)
    BY <1>1 DEF Arrive
  <2>2. ConnTypeOK' /\ Waits'
    BY <1>1, <2>1 DEF Arrive, Goto
  <2>3. ASSUME calm' PROVE Alone' /\ LockedIfRead'
    BY <1>1, <2>1, <2>3 DEF Arrive, Goto
  <2>4. ASSUME calm' PROVE \A o \in Threads : OnItsWay(o)'
    BY <1>1, <2>1, <2>4 DEF Arrive, Goto
  <2>5. QED
    BY <2>2, <2>3, <2>4
<1>2. ASSUME NEW t \in Threads, Scan(t) PROVE ConnInv'
  BY <1>2 DEF Scan, Goto, Pinned
<1>3. ASSUME NEW t \in Threads, Read(t) PROVE ConnInv'
  BY <1>3 DEF Read, Goto, Pinned
<1>e. ASSUME NEW t \in Threads, Escape(t) PROVE ConnInv'
  BY <1>e DEF Escape, Goto, Pinned
<1>4. ASSUME NEW t \in Threads, TestBegin(t) PROVE ConnInv'
  BY <1>4 DEF TestBegin, Goto
<1>5. ASSUME NEW t \in Threads, BeginTx(t) PROVE ConnInv'
  BY <1>5 DEF BeginTx, Over, Goto
<1>6. ASSUME NEW t \in Threads, Write(t) PROVE ConnInv'
  BY <1>6 DEF Write, Goto
<1>7. ASSUME NEW t \in Threads, Busy(t) PROVE ConnInv'
  BY <1>7 DEF Busy, Over, Goto
<1>8. ASSUME NEW t \in Threads, PassRaises(t) PROVE ConnInv'
  BY <1>8 DEF PassRaises, Over, Goto
<1>9. ASSUME NEW t \in Threads, TestCommit(t) PROVE ConnInv'
  BY <1>9 DEF TestCommit, Over, Goto
<1>10. ASSUME NEW t \in Threads, Commit(t) PROVE ConnInv'
  <2>1. ConnTypeOK'
    BY <1>10 DEF Commit, Over, Goto
  <2>2. Waits'
    BY <1>10 DEF Commit, Over, Goto
  <2>3. ASSUME calm' PROVE Alone' /\ LockedIfRead'
    BY <1>10, <2>3 DEF Commit, Over, Goto
  <2>4. ASSUME calm' PROVE \A o \in Threads : OnItsWay(o)'
    BY <1>10, <2>4 DEF Commit, Over, Goto
  <2>5. QED
    BY <2>1, <2>2, <2>3, <2>4
<1>11. ASSUME NEW t \in Threads, Leave(t) PROVE ConnInv'
  BY <1>11 DEF Leave, Goto
<1>12. ASSUME NEW w \in Writers, CliWrite(w) \/ CliCommit(w) \/ CliDie(w) PROVE ConnInv'
  BY <1>12 DEF CliWrite, CliCommit, CliDie
<1>13. CASE UNCHANGED connVars
  BY <1>13 DEF connVars
<1>14. QED
  BY <1>1, <1>2, <1>3, <1>e, <1>4, <1>5, <1>6, <1>7, <1>8, <1>9, <1>10, <1>11, <1>12, <1>13
     DEF ConnNext, Serving

\* The invariant holds in every reachable state.
LEMMA ConnInvariance == ConnSpec => []ConnInv
BY StartConn, StepConn, PTL DEF ConnSpec

\* The variables keep their types.
THEOREM ConnectionTyped == ConnSpec => []ConnTypeOK
<1>1. ConnInv => ConnTypeOK
  BY DEF ConnInv
<1>2. QED
  BY ConnInvariance, <1>1, PTL

\* What a thread inserted into request_log is committed when its response leaves,
\* however many threads share the connection and its transactions.
THEOREM CommittedWhenAnswered == ConnSpec => []InsertedIsCommitted
<1>1. ConnInv => InsertedIsCommitted
  BY DEF ConnInv, Waits, Waiting, InsertedIsCommitted
<1>2. QED
  BY ConnInvariance, <1>1, PTL

\* While requests come one by one and no command makes a write time out, every
\* request is in the table when its response leaves.
THEOREM LoggedOneByOne == ConnSpec => []LoggedWhileCalm
<1>1. ConnInv => LoggedWhileCalm
  BY DEF ConnInv, Calm, OnItsWay, LoggedWhileCalm
<1>2. QED
  BY ConnInvariance, <1>1, PTL

\* As long, no route and no lazy pass reads an old snapshot.
THEOREM FreshReads == ConnSpec => ReadsAreFresh
<1>1. ConnInv => (\A t \in Threads : calm /\ (Scan(t) \/ Read(t) \/ Escape(t)) => snap # "old")
  BY DEF ConnInv, Calm, LockedIfRead
<1>2. QED
  BY ConnInvariance, <1>1, PTL DEF ReadsAreFresh

-------------------------------------------------------------------------------
(* What is read, published and logged in the life of a request. *)

PackageRow == [st : {"none", "imported", "staged", "published", "withheld"}, ver : Versions]
Progress == [todo : Seq(Calls), runs : BOOLEAN, row : PackageRow, cits : Versions \cup {None}]
Statuses == {0, 200, 304, 401, 404, 429, 500, 503, 504}
Outer == [pc : {"idle", "inside", "log", "logging", "sent"}, status : Statuses]
Kinds == {"list", "fetch", "verify", "article", "again", "sample"}

\* The calls that a handler may have left before it ends.
Left(kind) ==
    CASE kind = "list" -> {<<"gate", "lazy", "rows">>, <<"lazy", "rows">>, <<"rows">>}
      [] kind = "fetch" -> {<<"gate", "lazy", "row", "cits">>, <<"lazy", "row", "cits">>,
                            <<"row", "cits">>, <<"cits">>}
      [] kind = "verify" -> {<<"hash">>, <<"hash_cits">>}
      [] kind \in {"article", "again"} -> {<<"slug", "row", "cits">>, <<"row", "cits">>, <<"cits">>}
      [] kind = "sample" -> {<<"limit", "lazy", "sample", "cits">>, <<"lazy", "sample", "cits">>, <<"sample", "cits">>, <<"cits">>}

Good(q) == outer[q].status \in {200, 304}
Has(q) == handler[q].row.st # "none"

\* A row is logged once, when the answer is sent.
LogOK(q) ==
    /\ outer[q].pc # "sent" => log[q] = <<>> /\ q \notin lost
    /\ outer[q].pc \in {"log", "logging"} => outer[q].status \in {200, 401, 404, 429, 503, 504}
    /\ outer[q].pc = "sent" =>
          log[q] = IF q \in lost \/ outer[q].status = 500 THEN <<>>
                   ELSE <<IF outer[q].status = 304 THEN 200 ELSE outer[q].status>>

\* What a handler has left to do says what it has read.
HandlerOK(q) ==
    /\ handler[q].todo \in Left(q[2]) \cup {<<>>}
    /\ handler[q].runs => handler[q].todo # <<>>
    /\ Idle(q) => handler[q] = NewHandler
    /\ Good(q) => ~Idle(q) /\ outer[q].pc # "inside" /\ handler[q].todo = <<>>
    /\ Has(q) \/ handler[q].row = NoRow
    /\ handler[q].todo \in {<<"cits">>, <<"hash_cits">>} \/ (Good(q) /\ q[2] # "list") => Has(q)

\* What was published while the request was in progress, and what was read of it.
ShownOK(q) ==
    /\ Open(q) /\ Published(pkg) => pkg.ver \in shown[q]
    /\ (Open(q) \/ Good(q)) /\ Has(q) /\ q[2] \notin {"verify", "sample"}
          => handler[q].row.ver \in shown[q]

\* Without a --replace the package is still the one that was read, and its citations are
\* its own.
QuietOK(q) ==
    /\ Matters(q) /\ quiet[q] /\ Has(q) => pkg.st # "none" /\ pkg.ver = handler[q].row.ver
    /\ Good(q) /\ q[2] # "list" /\ quiet[q] => Whole(q)

Fine(q) == LogOK(q) /\ HandlerOK(q) /\ ShownOK(q) /\ QuietOK(q)

\* The hash is asked for when the bundle is there, and is that of the same version.
VerifyOK(a) ==
    LET f == <<a, "fetch">> v == <<a, "verify">> IN
    ~Idle(v) => /\ Answered(f, 200)
                /\ quiet[f] => quiet[v] /\ (Has(v) => handler[v].row.ver = handler[f].row.ver)

\* No commit leaves the package without its own citations; none makes two versions.
StoreOK ==
    /\ pkg.st # "none" => cit = pkg.ver
    /\ pkg.ver <= edits

AnswersInv ==
    /\ TypeOK /\ StoreOK
    /\ \A q \in Requests : Fine(q)
    /\ \A a \in Agents : VerifyOK(a)

-------------------------------------------------------------------------------
\* The types, with the names that the proofs give them.
LEMMA AnswerTypes ==
    TypeOK <=> /\ pkg \in PackageRow /\ cit \in Versions \cup {None}
               /\ handler \in [Requests -> Progress] /\ outer \in [Requests -> Outer]
               /\ log \in [Requests -> Seq({200, 401, 404, 429, 503, 504})]
               /\ shown \in [Requests -> SUBSET Versions] /\ quiet \in [Requests -> BOOLEAN]
               /\ lost \subseteq Requests /\ edits \in 0..MaxEdits
BY DEF TypeOK, PackageRow, Progress, Outer, Statuses

\* A request is of one of six kinds; those of an agent are its own.
LEMMA RequestKinds ==
    /\ \A q \in Requests : q[2] \in Kinds /\ q = <<q[1], q[2]>>
    /\ \A q \in Requests : q[2] = "verify" => q[1] \in Agents
    /\ \A a \in Agents : <<a, "fetch">> \in Requests /\ <<a, "verify">> \in Requests
BY DEF Requests, Kinds

\* A request begins with calls that it may have left.
LEMMA PlanIsLeft == \A kind \in Kinds : Plan(kind) \in Left(kind)
BY DEF Kinds, Plan, Left

\* What is left after a call, and which call it is that reads.
LEMMA LeftAfter ==
    ASSUME NEW kind \in Kinds, NEW t \in Left(kind)
    PROVE  /\ t \in Seq(Calls) /\ Head(t) \in Calls /\ t # <<>> /\ <<>> \in Seq(Calls)
           /\ Len(t) = 1 <=> Tail(t) = <<>>
           /\ Tail(t) \in Left(kind) \cup {<<>>} /\ Tail(t) \in Seq(Calls)
           /\ Head(t) = "cits" <=> t = <<"cits">>
           /\ Head(t) = "hash_cits" <=> t = <<"hash_cits">>
           /\ Tail(t) = <<"cits">> <=> Head(t) \in {"row", "sample"}
           /\ Tail(t) # <<"hash_cits">>
           /\ Tail(t) = <<>> <=> Head(t) \in {"rows", "cits", "hash", "hash_cits"}
           /\ Head(t) = "rows" => kind = "list"
           /\ Head(t) \in {"gate", "rows"} => kind \in {"list", "fetch"}
           /\ Head(t) = "cits" => kind \notin {"list", "verify"}
           /\ Head(t) \in {"hash", "hash_cits"} <=> kind = "verify"
           /\ Head(t) = "sample" => kind = "sample"
           /\ Head(t) = "row" => kind \in {"fetch", "article", "again"}
<1> USE DEF Left, Calls
<1>1. CASE t = <<"gate", "lazy", "rows">>
  BY <1>1 DEF Kinds
<1>2. CASE t = <<"lazy", "rows">>
  BY <1>2 DEF Kinds
<1>3. CASE t = <<"rows">>
  BY <1>3 DEF Kinds
<1>4. CASE t = <<"gate", "lazy", "row", "cits">>
  BY <1>4 DEF Kinds
<1>5. CASE t = <<"lazy", "row", "cits">>
  BY <1>5 DEF Kinds
<1>6. CASE t = <<"row", "cits">>
  BY <1>6 DEF Kinds
<1>7. CASE t = <<"cits">>
  BY <1>7 DEF Kinds
<1>8. CASE t = <<"hash">>
  BY <1>8 DEF Kinds
<1>9. CASE t = <<"hash_cits">>
  BY <1>9 DEF Kinds
<1>10. CASE t = <<"slug", "row", "cits">>
  BY <1>10 DEF Kinds
<1>11. CASE t = <<"lazy", "sample", "cits">>
  BY <1>11 DEF Kinds
<1>12. CASE t = <<"sample", "cits">>
  BY <1>12 DEF Kinds
<1>13. CASE t = <<"limit", "lazy", "sample", "cits">>
  BY <1>13 DEF Kinds
<1>14. QED
  BY <1>1, <1>2, <1>3, <1>4, <1>5, <1>6, <1>7, <1>8, <1>9, <1>10, <1>11, <1>12, <1>13 DEF Kinds

\* At first no request has come.
LEMMA InitAnswers == Init => AnswersInv
<1> SUFFICES ASSUME Init PROVE AnswersInv
  OBVIOUS
<1>1. 0 \in Versions /\ 0 \in 0..MaxEdits
  BY ResponsesAssumption DEF Versions
<1>2. pkg \in PackageRow /\ StoreOK /\ cit \in Versions \cup {None}
  BY <1>1, ResponsesAssumption DEF Init, PackageRow, NoRow, StoreOK
<1>3. <<>> \in Seq(Calls) /\ NoRow \in PackageRow
  BY <1>1 DEF PackageRow, NoRow
<1>4. NewHandler \in Progress
  BY <1>3 DEF NewHandler, Progress
<1>5. [pc |-> "idle", status |-> 0] \in Outer
  BY DEF Outer, Statuses
<1>6. TypeOK
  BY <1>1, <1>2, <1>4, <1>5, AnswerTypes DEF Init
<1>7. ASSUME NEW q \in Requests PROVE Fine(q)
  <2>1. handler[q] = NewHandler /\ outer[q].pc = "idle" /\ outer[q].status = 0 /\ log[q] = <<>>
        /\ q \notin lost
    BY DEF Init
  <2>2. LogOK(q)
    BY <2>1 DEF LogOK
  <2>3. HandlerOK(q)
    BY <2>1 DEF HandlerOK, Idle, Good, Has, NewHandler, NoRow
  <2>4. ShownOK(q) /\ QuietOK(q)
    BY <2>1 DEF ShownOK, QuietOK, Open, Good, Has, Matters, Answered, NewHandler, NoRow
  <2>5. QED
    BY <2>2, <2>3, <2>4 DEF Fine
<1>8. \A a \in Agents : VerifyOK(a)
  BY RequestKinds DEF Init, VerifyOK, Idle
<1>9. QED
  BY <1>2, <1>6, <1>7, <1>8 DEF AnswersInv

\* The package may be published, or not any more; it remains the same version.
StillThere ==
    /\ pkg' \in PackageRow /\ pkg'.ver = pkg.ver /\ (pkg'.st = "none" <=> pkg.st = "none")
    /\ cit' = cit
    /\ shown' \in [Requests -> SUBSET Versions]
    /\ \A q \in Requests : /\ shown[q] \subseteq shown'[q]
                           /\ Open(q) /\ Published(pkg') => pkg'.ver \in shown'[q]

LEMMA StoreUntouched == AnswersInv /\ UNCHANGED <<pkg, cit, shown>> => StillThere
BY AnswerTypes DEF AnswersInv, Fine, ShownOK, StillThere, Published

\* lazy passes, and the commands that delete nothing, note what they publish.
LEMMA StoreMoved ==
    ASSUME AnswersInv, NEW st \in {"imported", "staged", "published", "withheld"},
           pkg.st # "none", pkg' = [st |-> st, ver |-> pkg.ver], cit' = cit, Note(pkg')
    PROVE  StillThere
<1>1. pkg \in PackageRow /\ shown \in [Requests -> SUBSET Versions]
  BY AnswerTypes DEF AnswersInv
<1>2. pkg' \in PackageRow /\ pkg'.ver = pkg.ver /\ pkg'.st = st
  BY <1>1 DEF PackageRow
<1>3. Live(pkg') \in SUBSET Versions /\ (Published(pkg') => Live(pkg') = {pkg'.ver})
  BY <1>2 DEF Live, PackageRow, Published
<1>4. \A q \in Requests : shown'[q] = IF Open(q) THEN shown[q] \cup Live(pkg') ELSE shown[q]
  BY DEF Note
<1>5. shown' \in [Requests -> SUBSET Versions]
  BY <1>1, <1>3, <1>4 DEF Note
<1>6. \A q \in Requests : /\ shown[q] \subseteq shown'[q]
                          /\ Open(q) /\ Published(pkg') => pkg'.ver \in shown'[q]
  BY <1>3, <1>4
<1>7. QED
  BY <1>2, <1>5, <1>6 DEF StillThere

\* Who takes no part in a step stays as it is.
LEMMA Bystander ==
    ASSUME AnswersInv, StillThere, NEW r \in Requests, handler'[r] = handler[r], outer'[r] = outer[r],
           log'[r] = log[r], quiet'[r] = quiet[r], r \in lost' <=> r \in lost
    PROVE  Fine(r)'
<1>1. Fine(r) /\ pkg.st \in {"none", "imported", "staged", "published", "withheld"}
  BY AnswerTypes DEF AnswersInv, PackageRow
<1>2. LogOK(r)'
  BY <1>1 DEF Fine, LogOK
<1>3. HandlerOK(r)'
  BY <1>1 DEF Fine, HandlerOK, Idle, Good, Has
<1>4. ShownOK(r)'
  BY <1>1 DEF Fine, ShownOK, StillThere, Open, Good, Has, Published
<1>5. QuietOK(r)'
  BY <1>1 DEF Fine, QuietOK, StillThere, Matters, Open, Good, Has, Answered, Whole
<1>6. QED
  BY <1>2, <1>3, <1>4, <1>5 DEF Fine

\* The log rows of the other requests stay as they are.
OthersLogged(q) ==
    /\ log' \in [Requests -> Seq({200, 401, 404, 429, 503, 504})] /\ lost' \subseteq Requests
    /\ \A r \in Requests \ {q} : log'[r] = log[r] /\ (r \in lost' <=> r \in lost)

\* A step in the life of a request after it has come and before it is answered.
LEMMA OneRequest ==
    ASSUME AnswersInv, StillThere, NEW q \in Requests, ~Idle(q), ~Idle(q)', ~Answered(q, 200),
           NEW h \in Progress, NEW o \in Outer,
           handler' = [handler EXCEPT ![q] = h], outer' = [outer EXCEPT ![q] = o],
           OthersLogged(q),
           quiet' = quiet, edits' = edits, Fine(q)',
           q[2] = "verify" /\ h.row.st # "none" => h.row = handler[q].row \/ h.row = pkg
    PROVE  AnswersInv'
<1>1. /\ handler \in [Requests -> Progress] /\ outer \in [Requests -> Outer]
      /\ handler'[q] = h /\ outer'[q] = o
      /\ \A r \in Requests \ {q} : handler'[r] = handler[r] /\ outer'[r] = outer[r]
  BY AnswerTypes DEF AnswersInv
<1>2. TypeOK'
  <2>1. TypeOK
    BY DEF AnswersInv
  <2>2. handler' \in [Requests -> Progress] /\ outer' \in [Requests -> Outer]
    BY <1>1
  <2>3. QED
    BY <2>1, <2>2, AnswerTypes DEF OthersLogged, StillThere, TypeOK, PackageRow, Progress, Outer, Statuses
<1>3. StoreOK'
  BY DEF AnswersInv, StoreOK, StillThere
<1>4. ASSUME NEW r \in Requests PROVE Fine(r)'
  <2>1. CASE r = q
    BY <2>1
  <2>2. CASE r # q
    BY <1>1, <2>2, Bystander DEF OthersLogged
  <2>3. QED
    BY <2>1, <2>2
<1>5. ASSUME NEW a \in Agents PROVE VerifyOK(a)'
  <2> DEFINE f == <<a, "fetch">>
             v == <<a, "verify">>
  <2>1. f \in Requests /\ v \in Requests /\ f # v /\ f[2] = "fetch" /\ v[2] = "verify"
    BY RequestKinds
  <2>2. VerifyOK(a) /\ (~Idle(v) => /\ Answered(f, 200)
                                    /\ quiet[f] => quiet[v] /\ (Has(v) => handler[v].row.ver = handler[f].row.ver))
    BY DEF AnswersInv, VerifyOK
  <2>3. Fine(f)
    BY <2>1 DEF AnswersInv
  <2> HIDE DEF f, v
  <2>4. SUFFICES ASSUME ~Idle(v)'
                 PROVE  /\ Answered(f, 200)'
                        /\ quiet'[f] => quiet'[v] /\ (Has(v)' => handler'[v].row.ver = handler'[f].row.ver)
    BY <2>4 DEF VerifyOK, f, v
  <2>5. CASE q = f
    BY <1>1, <2>1, <2>2, <2>4, <2>5 DEF Idle
  <2>6. CASE q = v
    <3>1. Answered(f, 200) /\ outer'[f] = outer[f] /\ handler'[f] = handler[f]
      BY <1>1, <2>1, <2>2, <2>6
    <3>2. ASSUME quiet[f] PROVE Has(f) /\ pkg.ver = handler[f].row.ver
      BY <2>1, <2>3, <3>1, <3>2 DEF Fine, HandlerOK, QuietOK, Good, Answered, Matters
    <3>3. Has(v)' => h.row.st # "none" /\ (h.row = handler[v].row \/ h.row = pkg)
      BY <1>1, <2>1, <2>6 DEF Has
    <3>4. QED
      BY <1>1, <2>1, <2>2, <2>6, <3>1, <3>2, <3>3 DEF Answered, Has
  <2>7. CASE q # f /\ q # v
    BY <1>1, <2>1, <2>2, <2>4, <2>7 DEF Idle, Answered, Has
  <2>8. QED
    BY <2>5, <2>6, <2>7
<1>6. QED
  BY <1>2, <1>3, <1>4, <1>5 DEF AnswersInv

\* A handler that has not begun, or is over.
LEMMA FreshHandler == NewHandler \in Progress /\ NewHandler.todo = <<>> /\ ~NewHandler.runs
                      /\ NewHandler.row = NoRow /\ NoRow.st = "none"
<1>1. 0 \in Versions
  BY ResponsesAssumption DEF Versions
<1>2. NoRow \in PackageRow /\ NoRow.st = "none"
  BY <1>1 DEF NoRow, PackageRow
<1>3. <<>> \in Seq(Calls)
  OBVIOUS
<1>4. QED
  BY <1>1, <1>2, <1>3 DEF NewHandler, Progress

\* A handler with something left to do is that of a request without an answer yet, or with
\* one that did not wait for it.
LEMMA Unfinished ==
    ASSUME AnswersInv, NEW q \in Requests, handler[q].todo # <<>>
    PROVE  /\ ~Idle(q) /\ ~Good(q) /\ ~Answered(q, 200) /\ Fine(q)
           /\ q[2] \in Kinds /\ handler[q].todo \in Left(q[2])
           /\ handler[q] \in Progress /\ outer[q] \in Outer
           /\ handler \in [Requests -> Progress] /\ outer \in [Requests -> Outer]
<1>1. Fine(q) /\ handler \in [Requests -> Progress] /\ outer \in [Requests -> Outer]
  BY AnswerTypes DEF AnswersInv
<1>2. ~Idle(q)
  BY <1>1, FreshHandler DEF Fine, HandlerOK
<1>3. ~Good(q) /\ handler[q].todo \in Left(q[2])
  BY <1>1 DEF Fine, HandlerOK
<1>4. QED
  BY <1>1, <1>2, <1>3, RequestKinds DEF Good, Answered

\* A handler ends without an answer of its own, or with a refusal or an error.
Ending(q, o) ==
    \/ o = outer[q]
    \/ outer[q].pc = "inside" /\ \E s \in {401, 404, 429, 503} : o = [pc |-> "log", status |-> s]
    \/ outer[q].pc = "inside" /\ o = [pc |-> "sent", status |-> 500]

LEMMA HandlerEnds ==
    ASSUME AnswersInv, NEW q \in Requests, handler[q].todo # <<>>,
           UNCHANGED <<store, log, history>>, handler' = [handler EXCEPT ![q] = NewHandler],
           NEW o, outer' = [outer EXCEPT ![q] = o], Ending(q, o)
    PROVE  AnswersInv'
<1>1. /\ ~Idle(q) /\ ~Good(q) /\ ~Answered(q, 200) /\ Fine(q)
      /\ outer[q] \in Outer /\ handler \in [Requests -> Progress] /\ outer \in [Requests -> Outer]
  BY Unfinished
<1>2. o \in Outer /\ o.pc # "idle" /\ o.status \notin {200, 304}
  BY <1>1 DEF Ending, Outer, Statuses, Good, Idle
<1>3. handler'[q] = NewHandler /\ outer'[q] = o /\ log' = log /\ lost' = lost /\ quiet' = quiet
      /\ edits' = edits
  BY <1>1 DEF history, store
<1>4. StillThere
  BY StoreUntouched DEF store, history
<1>5. LogOK(q)'
  <2>1. LogOK(q)
    BY <1>1 DEF Fine
  <2>2. CASE o = outer[q]
    BY <1>3, <2>1, <2>2 DEF LogOK
  <2>3. CASE outer[q].pc = "inside" /\ \E s \in {401, 404, 429, 503} : o = [pc |-> "log", status |-> s]
    BY <1>3, <2>1, <2>3 DEF LogOK
  <2>4. CASE outer[q].pc = "inside" /\ o = [pc |-> "sent", status |-> 500]
    BY <1>3, <2>1, <2>4 DEF LogOK
  <2>5. QED
    BY <2>2, <2>3, <2>4 DEF Ending
<1>6. HandlerOK(q)'
  BY <1>2, <1>3, FreshHandler DEF HandlerOK, Idle, Good, Has
<1>7. ShownOK(q)'
  <2>1. Open(q)' => Open(q)
    BY <1>1, <1>3 DEF Ending, Open, Idle
  <2>2. QED
    BY <1>3, <1>4, <2>1, FreshHandler DEF ShownOK, StillThere, Has
<1>8. QuietOK(q)'
  BY <1>2, <1>3, FreshHandler DEF QuietOK, Has, Good
<1>9. Fine(q)'
  BY <1>5, <1>6, <1>7, <1>8 DEF Fine
<1>10. NewHandler \in Progress /\ NewHandler.row.st = "none"
  BY FreshHandler
<1>11. ~Idle(q)'
  BY <1>2, <1>3 DEF Idle
<1>12. OthersLogged(q)
  BY <1>3, AnswerTypes DEF OthersLogged, AnswersInv
<1>13. QED
  BY <1>1, <1>2, <1>3, <1>4, <1>9, <1>10, <1>11, <1>12, OneRequest

\* The thread has done a call: what h has read besides fits the package and the request.
LEMMA CallDone ==
    ASSUME AnswersInv, StillThere, NEW q \in Requests, handler[q].todo # <<>>,
           UNCHANGED <<edits, log, quiet, lost>>,
           NEW h \in Progress, h.todo = handler[q].todo, Continue(q, h), Head(h.todo) # "hash",
           h.row = NoRow \/ h.row.st # "none",
           Head(h.todo) \in {"row", "sample"} => h.row.st # "none",
           Open(q) /\ h.row.st # "none" /\ q[2] \notin {"verify", "sample"} => h.row.ver \in shown'[q],
           Open(q) /\ quiet[q] /\ h.row.st # "none" => pkg.st # "none" /\ pkg.ver = h.row.ver,
           Head(h.todo) \in {"cits", "hash_cits"} =>
               h.row.st # "none" /\ (Open(q) /\ quiet[q] => h.cits = h.row.ver),
           q[2] = "verify" => h.row = handler[q].row
    PROVE  AnswersInv'
<1>1. handler[q].todo # <<>>
  OBVIOUS
<1>2. /\ ~Idle(q) /\ ~Good(q) /\ ~Answered(q, 200) /\ Fine(q) /\ outer[q] \in Outer
      /\ q[2] \in Kinds /\ h.todo \in Left(q[2])
      /\ handler \in [Requests -> Progress] /\ outer \in [Requests -> Outer]
  BY <1>1, Unfinished
<1>3. LogOK(q) /\ HandlerOK(q)
  BY <1>2 DEF Fine
<1> DEFINE n == Onward(h)
<1>4. /\ n \in Progress /\ n.todo = Tail(h.todo) /\ n.runs = FALSE /\ n.row = h.row /\ n.cits = h.cits
  <2>1. Tail(h.todo) \in Seq(Calls)
    BY <1>2, LeftAfter
  <2>2. QED
    BY <2>1 DEF Onward, Progress
<1> HIDE DEF n
<1>5. CASE Len(h.todo) = 1 /\ outer[q].pc # "inside"
  <2>1. handler' = [handler EXCEPT ![q] = NewHandler] /\ outer' = [outer EXCEPT ![q] = outer[q]]
    BY <1>2, <1>5 DEF Continue, Respond
  <2>2. /\ handler'[q] = NewHandler /\ outer'[q] = outer[q] /\ log' = log /\ lost' = lost
        /\ quiet' = quiet
    BY <1>2, <2>1
  <2>3. LogOK(q)' /\ HandlerOK(q)'
    BY <1>2, <1>3, <2>2, FreshHandler DEF LogOK, HandlerOK, Idle, Good, Has
  <2>4. ShownOK(q)' /\ QuietOK(q)'
    BY <1>2, <2>2, FreshHandler DEF ShownOK, QuietOK, Good, Has, Open, StillThere
  <2>5. Fine(q)'
    BY <2>3, <2>4 DEF Fine
  <2>6. NewHandler \in Progress /\ NewHandler.row.st = "none" /\ ~Idle(q)'
    BY <1>2, <2>2, FreshHandler DEF Idle
  <2>7. OthersLogged(q)
    BY <2>2, AnswerTypes DEF OthersLogged, AnswersInv
  <2>8. QED
    BY <1>2, <2>1, <2>5, <2>6, <2>7, OneRequest
<1>6. CASE ~(Len(h.todo) = 1 /\ outer[q].pc # "inside")
  <2> DEFINE o == IF Len(h.todo) = 1 THEN [pc |-> "log", status |-> 200] ELSE outer[q]
  <2>1. handler' = [handler EXCEPT ![q] = n] /\ outer' = [outer EXCEPT ![q] = o]
    BY <1>2, <1>6 DEF Continue, Respond, n
  <2>2. /\ o \in Outer /\ o.pc # "idle"
        /\ Len(h.todo) = 1 => outer[q].pc = "inside" /\ o.pc = "log" /\ o.status = 200
        /\ Len(h.todo) # 1 => o = outer[q]
    BY <1>2, <1>6 DEF Outer, Statuses, Idle
  <2> HIDE DEF o
  <2>3. /\ handler'[q] = n /\ outer'[q] = o /\ log' = log /\ lost' = lost /\ quiet' = quiet
    BY <1>2, <2>1
  <2>4. LogOK(q)'
    BY <1>3, <2>2, <2>3 DEF LogOK
  <2>5. /\ n.todo \in Left(q[2]) \cup {<<>>}
        /\ n.todo = <<"cits">> => h.row.st # "none"
        /\ n.todo # <<"hash_cits">>
        /\ Len(h.todo) = 1 /\ q[2] # "list" => Head(h.todo) \in {"cits", "hash_cits"}
        /\ Len(h.todo) = 1 <=> n.todo = <<>>
    <3> DEFINE kind == q[2]
               t == h.todo
    <3>1. kind \in Kinds /\ t \in Left(kind) /\ kind = q[2] /\ t = h.todo
      BY <1>2
    <3> HIDE DEF kind, t
    <3>2. /\ Tail(t) \in Left(kind) \cup {<<>>} /\ Tail(t) # <<"hash_cits">>
          /\ Tail(t) = <<"cits">> <=> Head(t) \in {"row", "sample"}
          /\ Len(t) = 1 <=> Tail(t) = <<>>
      BY <3>1, LeftAfter
    <3>3. /\ Tail(t) = <<>> <=> Head(t) \in {"rows", "cits", "hash", "hash_cits"}
          /\ Head(t) = "rows" => kind = "list"
      BY <3>1, LeftAfter
    <3>4. QED
      BY <1>4, <3>1, <3>2, <3>3
  <2>6. HandlerOK(q)'
    <3>1. Has(q)' <=> h.row.st # "none"
      BY <1>4, <2>3 DEF Has
    <3>2. Good(q)' => Len(h.todo) = 1 /\ o.pc = "log"
      BY <1>2, <2>2, <2>3 DEF Good
    <3>3. Good(q)' /\ q[2] # "list" => h.row.st # "none"
      BY <2>5, <3>2
    <3>4. QED
      BY <1>4, <2>2, <2>3, <2>5, <3>1, <3>2, <3>3 DEF HandlerOK, Idle, Has
  <2>7. Open(q)' => Open(q)
    BY <1>2, <2>2, <2>3 DEF Open, Idle
  <2>8. Good(q)' => Len(h.todo) = 1 /\ Open(q)
    BY <1>2, <2>2, <2>3 DEF Good, Open
  <2>9. ShownOK(q)'
    BY <1>4, <2>3, <2>7, <2>8 DEF ShownOK, StillThere, Has
  <2>10. QuietOK(q)'
    BY <1>2, <1>4, <2>2, <2>3, <2>5, <2>7, <2>8 DEF QuietOK, StillThere, Has, Matters, Answered, Whole, Good
  <2>11. Fine(q)'
    BY <2>4, <2>6, <2>9, <2>10 DEF Fine
  <2>12. ~Idle(q)'
    BY <2>2, <2>3 DEF Idle
  <2>13. OthersLogged(q)
    BY <2>3, AnswerTypes DEF OthersLogged, AnswersInv
  <2>14. q[2] = "verify" /\ n.row.st # "none" => n.row = handler[q].row \/ n.row = pkg
    BY <1>4
  <2>15. quiet' = quiet /\ edits' = edits
    OBVIOUS
  <2>16. QED
    BY <2>14, <2>15, <1>2, <1>4, <2>1, <2>2, <2>11, <2>12, <2>13, OneRequest
<1>7. QED
  BY <1>5, <1>6

\* The calls of the handlers, one after the other.
LEMMA HandlerStep ==
    ASSUME AnswersInv, NEW q \in Requests,
           \/ Gate(q) \/ Limit(q) \/ Lazy(q) \/ Rows(q) \/ Slug(q) \/ Row(q) \/ Sample(q) \/ Cits(q)
           \/ Hash(q) \/ HashCits(q) \/ Raise(q)
    PROVE  AnswersInv'
<1> DEFINE k == handler[q]
<1>1. k.todo # <<>>
  <2>1. HandlerOK(q)
    BY DEF AnswersInv, Fine
  <2>2. k.runs \/ k.todo # <<>>
    BY DEF Gate, Limit, Lazy, Rows, Slug, Row, Sample, Cits, Hash, HashCits, Raise, Running
  <2>3. QED
    BY <2>1, <2>2 DEF HandlerOK
<1>2. /\ ~Idle(q) /\ ~Good(q) /\ ~Answered(q, 200) /\ LogOK(q) /\ HandlerOK(q) /\ ShownOK(q) /\ QuietOK(q)
      /\ q[2] \in Kinds /\ k.todo \in Left(q[2]) /\ k \in Progress /\ outer[q] \in Outer
      /\ handler \in [Requests -> Progress] /\ outer \in [Requests -> Outer]
  BY <1>1, Unfinished DEF Fine
<1>3. /\ pkg \in PackageRow /\ cit \in Versions \cup {None} /\ StoreOK
  BY AnswerTypes DEF AnswersInv
<1>4. Open(q) => ~Answered(q, 200) /\ outer[q].pc # "sent"
  BY <1>2 DEF Open
<1>5. /\ k.row = NoRow \/ k.row.st # "none"
      /\ Open(q) /\ k.row.st # "none" /\ q[2] \notin {"verify", "sample"} => k.row.ver \in shown[q]
      /\ Open(q) /\ quiet[q] /\ k.row.st # "none" => pkg.st # "none" /\ pkg.ver = k.row.ver
      /\ Head(k.todo) \in {"cits", "hash_cits"} => k.row.st # "none"
  <2>1. Head(k.todo) \in {"cits", "hash_cits"} => k.todo \in {<<"cits">>, <<"hash_cits">>}
    BY <1>2, LeftAfter
  <2>2. QED
    BY <1>2, <2>1 DEF HandlerOK, ShownOK, QuietOK, Has, Matters
<1>6. ASSUME NEW s, s \in {401, 404, 429, 503}, Refuse(q, s), UNCHANGED <<store, log, history>>
      PROVE  AnswersInv'
  <2> DEFINE o == IF outer[q].pc = "inside" THEN [pc |-> "log", status |-> s] ELSE outer[q]
  <2>1. handler' = [handler EXCEPT ![q] = NewHandler] /\ outer' = [outer EXCEPT ![q] = o]
    <3>1. handler' = [handler EXCEPT ![q] = NewHandler]
      BY <1>6 DEF Refuse
    <3>2. CASE outer[q].pc = "inside"
      BY <1>6, <3>1, <3>2 DEF Refuse, Respond
    <3>3. CASE outer[q].pc # "inside"
      <4>1. outer' = outer /\ o = outer[q]
        BY <1>6, <3>3 DEF Refuse, Respond
      <4>2. QED
        BY <1>2, <3>1, <4>1
    <3>4. QED
      BY <3>2, <3>3
  <2>2. Ending(q, o)
    BY <1>6 DEF Ending
  <2>3. UNCHANGED <<store, log, history>>
    BY <1>6
  <2> HIDE DEF o
  <2>4. QED
    BY <1>1, <2>1, <2>2, <2>3, HandlerEnds
<1>7. ASSUME Continue(q, k), UNCHANGED <<store, log, history>>,
             Head(k.todo) \in {"gate", "limit", "slug"}
      PROVE  AnswersInv'
  <2>1. StillThere /\ UNCHANGED <<edits, log, quiet, lost>> /\ shown' = shown
    BY <1>7, StoreUntouched DEF store, history
  <2>2. Head(k.todo) \notin {"hash", "row", "sample", "cits", "hash_cits"}
    BY <1>7
  <2>3. QED
    BY <1>1, <1>2, <1>5, <1>7, <2>1, <2>2, CallDone
<1>8. CASE Gate(q)
  <2>1. Head(k.todo) = "gate" /\ UNCHANGED <<store, log, history>>
    BY <1>8 DEF Gate, Running
  <2>2. Continue(q, k) \/ Refuse(q, 401) \/ Refuse(q, 429)
    BY <1>8 DEF Gate
  <2>3. QED
    BY <1>6, <1>7, <2>1, <2>2
<1>l. CASE Limit(q)
  BY <1>6, <1>7, <1>l DEF Limit
<1>9. CASE Slug(q)
  BY <1>6, <1>7, <1>9 DEF Slug, Running
<1>10. CASE Lazy(q)
  <2>1. UNCHANGED <<edits, log, quiet, lost>> /\ Continue(q, k) /\ Head(k.todo) = "lazy" /\ cit' = cit
    BY <1>10 DEF Lazy, Running
  <2>2. StillThere
    <3>1. CASE UNCHANGED <<pkg, shown>>
      BY <2>1, <3>1, StoreUntouched
    <3>2. CASE pkg.st = "staged" /\ pkg' = [pkg EXCEPT !.st = "published"] /\ Note(pkg')
      <4>1. pkg' = [st |-> "published", ver |-> pkg.ver]
        BY <1>3, <3>2 DEF PackageRow
      <4>2. QED
        BY <2>1, <3>2, <4>1, StoreMoved
    <3>3. QED
      BY <1>10, <3>1, <3>2 DEF Lazy
  <2>3. Open(q) /\ k.row.st # "none" /\ q[2] \notin {"verify", "sample"} => k.row.ver \in shown'[q]
    BY <1>5, <2>2 DEF StillThere
  <2>4. Head(k.todo) \notin {"hash", "row", "sample", "cits", "hash_cits"}
    BY <2>1
  <2>5. QED
    BY <1>1, <1>2, <1>5, <2>1, <2>2, <2>3, <2>4, CallDone
<1>11. ASSUME NEW row \in PackageRow, Continue(q, [k EXCEPT !.row = row]),
              UNCHANGED <<store, log, history>>, Head(k.todo) \in {"rows", "row", "sample"},
              row = NoRow \/ (row = pkg /\ pkg.st # "none"),
              Head(k.todo) # "rows" => row = pkg /\ pkg.st # "none",
              q[2] # "sample" => row = NoRow \/ Published(pkg)
       PROVE  AnswersInv'
  <2> DEFINE h == [k EXCEPT !.row = row]
  <2>1. h \in Progress /\ h.todo = k.todo /\ h.row = row
    BY <1>2, <1>11 DEF Progress
  <2>2. StillThere /\ UNCHANGED <<edits, log, quiet, lost>> /\ shown' = shown
    BY <1>11, StoreUntouched DEF store, history
  <2>3. NoRow.st = "none"
    BY DEF NoRow
  <2>4. Continue(q, h)
    BY <1>11
  <2> HIDE DEF h
  <2>5. Open(q) /\ h.row.st # "none" /\ q[2] \notin {"verify", "sample"} => h.row.ver \in shown'[q]
    BY <1>2, <1>11, <2>1, <2>2, <2>3 DEF ShownOK
  <2>6. /\ Open(q) /\ quiet[q] /\ h.row.st # "none" => pkg.st # "none" /\ pkg.ver = h.row.ver
        /\ h.row = NoRow \/ h.row.st # "none"
        /\ Head(h.todo) \in {"row", "sample"} => h.row.st # "none"
        /\ Head(h.todo) \notin {"cits", "hash_cits", "hash"}
    BY <1>11, <2>1, <2>3
  <2>7. q[2] # "verify"
    BY <1>2, <1>11, LeftAfter
  <2>8. QED
    BY <1>1, <2>1, <2>2, <2>4, <2>5, <2>6, <2>7, CallDone
<1>12. CASE Rows(q)
  <2> DEFINE row == IF Published(pkg) THEN pkg ELSE NoRow
  <2>1. row \in PackageRow /\ (row = NoRow \/ (row = pkg /\ pkg.st # "none" /\ Published(pkg)))
    BY <1>3, FreshHandler DEF Published, Progress
  <2>2. Continue(q, [k EXCEPT !.row = row]) /\ Head(k.todo) = "rows" /\ UNCHANGED <<store, log, history>>
    BY <1>12 DEF Rows, Running
  <2> HIDE DEF row
  <2>3. QED
    BY <1>11, <2>1, <2>2
<1>13. CASE Row(q)
  <2>1. Head(k.todo) = "row" /\ UNCHANGED <<store, log, history>>
    BY <1>13 DEF Row, Running
  <2>2. CASE Published(pkg)
    BY <1>3, <1>11, <1>13, <2>1, <2>2 DEF Row, Published
  <2>3. CASE ~Published(pkg)
    BY <1>6, <1>13, <2>1, <2>3 DEF Row
  <2>4. QED
    BY <2>2, <2>3
<1>14. CASE Sample(q)
  <2>1. Head(k.todo) = "sample" /\ UNCHANGED <<store, log, history>> /\ q[2] = "sample"
    BY <1>2, <1>14, LeftAfter DEF Sample, Running
  <2>2. CASE pkg.st # "none"
    BY <1>3, <1>11, <1>14, <2>1, <2>2 DEF Sample
  <2>3. CASE pkg.st = "none"
    BY <1>6, <1>14, <2>1, <2>3 DEF Sample
  <2>4. QED
    BY <2>2, <2>3
<1>15. ASSUME Continue(q, [k EXCEPT !.cits = cit]), UNCHANGED <<store, log, history>>,
              Head(k.todo) \in {"cits", "hash_cits"}
       PROVE  AnswersInv'
  <2> DEFINE h == [k EXCEPT !.cits = cit]
  <2>1. h \in Progress /\ h.todo = k.todo /\ h.row = k.row /\ h.cits = cit
    BY <1>2, <1>3, <1>15 DEF Progress
  <2>2. StillThere /\ UNCHANGED <<edits, log, quiet, lost>> /\ shown' = shown
    BY <1>15, StoreUntouched DEF store, history
  <2>3. Continue(q, h)
    BY <1>15
  <2> HIDE DEF h
  <2>4. /\ h.row.st # "none"
        /\ Open(q) /\ quiet[q] => h.cits = h.row.ver
    BY <1>3, <1>5, <1>15, <2>1 DEF StoreOK
  <2>5. Head(h.todo) \notin {"hash", "row", "sample"}
    BY <1>15, <2>1
  <2>6. QED
    BY <1>1, <1>5, <2>1, <2>2, <2>3, <2>4, <2>5, CallDone
<1>16. CASE Cits(q) \/ HashCits(q)
  BY <1>15, <1>16 DEF Cits, HashCits, Running
<1>17. CASE Hash(q)
  <2>1. Head(k.todo) = "hash" /\ q[2] = "verify" /\ UNCHANGED <<store, log, history>>
    BY <1>2, <1>17, LeftAfter DEF Hash, Running
  <2>2. CASE pkg.st = "none"
    BY <1>6, <1>17, <2>1, <2>2 DEF Hash
  <2>3. CASE pkg.st # "none"
    <3> DEFINE h == [k EXCEPT !.row = pkg, !.todo = <<"hash_cits">>]
    <3>1. handler' = [handler EXCEPT ![q] = h] /\ outer' = [outer EXCEPT ![q] = outer[q]]
      BY <1>2, <1>17, <2>3 DEF Hash
    <3>2. <<"hash_cits">> \in Seq(Calls) /\ <<"hash_cits">> \in Left("verify")
          /\ <<"hash_cits">> # <<>>
      BY DEF Calls, Left
    <3>3. h \in Progress /\ h.row = pkg /\ h.todo = <<"hash_cits">>
      BY <1>2, <1>3, <3>2 DEF Progress
    <3> HIDE DEF h
    <3>4. /\ handler'[q] = h /\ outer'[q] = outer[q] /\ log' = log /\ quiet' = quiet /\ lost' = lost
          /\ edits' = edits /\ shown' = shown /\ pkg' = pkg
      BY <1>2, <2>1, <3>1 DEF store, history
    <3>5. LogOK(q)' /\ HandlerOK(q)'
      <4>1. LogOK(q)'
        BY <1>2, <3>4 DEF LogOK
      <4>2. h.todo \in Left(q[2]) /\ h.todo # <<>>
        BY <2>1, <3>2, <3>3
      <4>3. ~Idle(q)' /\ ~Good(q)' /\ Has(q)'
        BY <1>2, <2>3, <3>3, <3>4 DEF Idle, Good, Has
      <4>4. HandlerOK(q)'
        BY <3>4, <4>2, <4>3 DEF HandlerOK
      <4>5. QED
        BY <4>1, <4>4
    <3>6. ShownOK(q)' /\ QuietOK(q)'
      BY <1>2, <2>1, <2>3, <3>3, <3>4 DEF ShownOK, QuietOK, Good, Open, Published
    <3>7. Fine(q)' /\ ~Idle(q)'
      BY <1>2, <3>4, <3>5, <3>6 DEF Fine, Idle
    <3>8. StillThere
      BY <2>1, StoreUntouched DEF store, history
    <3>9. OthersLogged(q)
      BY <3>4, AnswerTypes DEF OthersLogged, AnswersInv
    <3>10. QED
      BY <1>2, <3>1, <3>3, <3>4, <3>7, <3>8, <3>9, OneRequest
  <2>4. QED
    BY <2>2, <2>3
<1>18. CASE Raise(q)
  <2>1. UNCHANGED <<store, log, history>> /\ handler' = [handler EXCEPT ![q] = NewHandler]
    BY <1>18 DEF Raise
  <2>2. CASE Running(q, "slug")
    BY <1>6, <1>18, <2>1, <2>2 DEF Raise, Refuse
  <2>3. CASE ~Running(q, "slug")
    <3> DEFINE o == IF outer[q].pc = "inside" THEN [pc |-> "sent", status |-> 500] ELSE outer[q]
    <3>1. outer' = [outer EXCEPT ![q] = o]
      BY <1>2, <1>18, <2>3 DEF Raise
    <3>2. Ending(q, o)
      BY DEF Ending
    <3> HIDE DEF o
    <3>3. QED
      BY <1>1, <2>1, <3>1, <3>2, HandlerEnds
  <2>4. QED
    BY <2>2, <2>3
<1>19. QED
  BY <1>8, <1>l, <1>9, <1>10, <1>12, <1>13, <1>14, <1>16, <1>17, <1>18

\* The middlewares, the pool and the client: steps that read nothing.
LEMMA MiddlewareStep ==
    ASSUME AnswersInv, NEW q \in Requests,
           Call(q) \/ Timeout(q) \/ Cancel(q) \/ CallLog(q) \/ LogAndSend(q)
    PROVE  AnswersInv'
<1>1. /\ Fine(q) /\ handler[q] \in Progress /\ outer[q] \in Outer
      /\ handler \in [Requests -> Progress] /\ outer \in [Requests -> Outer]
      /\ log \in [Requests -> Seq({200, 401, 404, 429, 503, 504})] /\ lost \subseteq Requests
  BY AnswerTypes DEF AnswersInv
<1>2. LogOK(q) /\ HandlerOK(q) /\ ShownOK(q) /\ QuietOK(q)
  BY <1>1 DEF Fine
<1>3. StillThere /\ quiet' = quiet /\ edits' = edits /\ shown' = shown /\ pkg' = pkg
  BY StoreUntouched DEF Call, Timeout, Cancel, CallLog, LogAndSend, store, history
<1>4. CASE Cancel(q)
  <2>1. /\ handler[q].todo # <<>> /\ UNCHANGED <<store, log, history>>
        /\ handler' = [handler EXCEPT ![q] = NewHandler] /\ outer' = [outer EXCEPT ![q] = outer[q]]
    BY <1>1, <1>4 DEF Cancel, Late
  <2>2. Ending(q, outer[q])
    BY DEF Ending
  <2>3. QED
    BY <2>1, <2>2, HandlerEnds
<1>5. ASSUME NEW h \in Progress, h.row = handler[q].row, h.cits = handler[q].cits,
             h.todo = handler[q].todo, h.runs => h.todo # <<>>,
             NEW o \in Outer, o.pc # "idle", ~Answered(q, 200), ~Idle(q),
             handler' = [handler EXCEPT ![q] = h], outer' = [outer EXCEPT ![q] = o],
             o.pc # "sent" => outer[q].pc # "sent",
             o.status \in {200, 304} => Good(q) /\ o.pc # "inside",
             LogOK(q)', OthersLogged(q),
             Matters(q)' => Matters(q)
      PROVE  AnswersInv'
  <2>1. handler'[q] = h /\ outer'[q] = o
    BY <1>1, <1>5
  <2>2. ~Idle(q)' /\ (Open(q)' => Open(q)) /\ (Good(q)' => Good(q)) /\ (Has(q)' <=> Has(q))
    BY <1>5, <2>1 DEF Idle, Open, Good, Has
  <2>3. HandlerOK(q)'
    BY <1>2, <1>5, <2>1, <2>2 DEF HandlerOK, Good
  <2>4. ShownOK(q)'
    BY <1>2, <1>3, <1>5, <2>1, <2>2 DEF ShownOK, Has
  <2>5. QuietOK(q)'
    BY <1>2, <1>3, <1>5, <2>1, <2>2 DEF QuietOK, Has, Whole
  <2>6. Fine(q)'
    BY <1>5, <2>3, <2>4, <2>5 DEF Fine
  <2>7. QED
    BY <1>3, <1>5, <2>2, <2>6, OneRequest
<1>6. ASSUME UNCHANGED <<log, lost>>
      PROVE  OthersLogged(q)
  BY <1>1, <1>6 DEF OthersLogged
<1>7. CASE Call(q)
  <2> DEFINE h == [handler[q] EXCEPT !.runs = TRUE]
  <2>o. PICK o : o = outer[q]
    OBVIOUS
  <2>1. /\ handler' = [handler EXCEPT ![q] = h] /\ outer' = outer /\ UNCHANGED <<log, lost>>
        /\ handler[q].todo # <<>>
    BY <1>7 DEF Call, history
  <2>2. /\ h \in Progress /\ h.row = handler[q].row /\ h.cits = handler[q].cits
        /\ h.todo = handler[q].todo
    BY <1>1 DEF Progress
  <2>3. ~Idle(q) /\ ~Answered(q, 200) /\ ~Good(q)
    BY <2>1, Unfinished
  <2> HIDE DEF h
  <2>4. LogOK(q)' /\ (Matters(q)' => Matters(q)) /\ outer' = [outer EXCEPT ![q] = o]
    BY <1>1, <1>2, <2>1, <2>o DEF LogOK, Matters, Open, Answered
  <2>5. o \in Outer /\ o.pc # "idle" /\ (o.status \in {200, 304} => FALSE)
    BY <1>1, <2>3, <2>o DEF Idle, Good
  <2>6. /\ o.pc # "sent" => outer[q].pc # "sent"
        /\ o.status \in {200, 304} => Good(q) /\ o.pc # "inside"
        /\ h.runs => h.todo # <<>>
    BY <2>1, <2>2, <2>3, <2>5, <2>o
  <2>7. OthersLogged(q)
    BY <1>6, <2>1
  <2>8. QED
    BY <1>5, <2>1, <2>2, <2>3, <2>4, <2>5, <2>6, <2>7
<1>8. CASE Timeout(q) \/ CallLog(q)
  <2> DEFINE h == handler[q]
  <2>1. PICK o : /\ outer' = [outer EXCEPT ![q] = o]
                 /\ \/ outer[q].pc = "inside" /\ o = [pc |-> "log", status |-> 504]
                    \/ outer[q].pc = "log" /\ o = [outer[q] EXCEPT !.pc = "logging"]
    BY <1>1, <1>8 DEF Timeout, CallLog
  <2>2. handler' = [handler EXCEPT ![q] = h] /\ UNCHANGED <<log, lost>>
    BY <1>1, <1>8 DEF Timeout, CallLog, history
  <2>3. /\ o \in Outer /\ o.pc \in {"log", "logging"} /\ (o.status \in {200, 304} => Good(q))
        /\ o.status = 504 \/ (outer[q].pc = "log" /\ o.status = outer[q].status)
    BY <1>1, <2>1 DEF Outer, Statuses, Good
  <2>4. outer[q].pc \in {"inside", "log"} /\ ~Idle(q) /\ ~Answered(q, 200)
    BY <2>1 DEF Idle, Answered
  <2>5. handler'[q] = h /\ outer'[q] = o /\ log' = log /\ lost' = lost
    BY <1>1, <2>1, <2>2
  <2>6. LogOK(q)' /\ (Matters(q)' => Matters(q))
    BY <1>2, <2>3, <2>4, <2>5 DEF LogOK, Matters, Open
  <2>7. h \in Progress /\ (h.runs => h.todo # <<>>)
    BY <1>1, <1>2 DEF HandlerOK
  <2>8. o.pc # "idle" /\ o.pc # "inside" /\ o.pc # "sent" /\ outer[q].pc # "sent"
    BY <2>3, <2>4
  <2>9. QED
    BY <1>5, <1>6, <2>1, <2>2, <2>3, <2>4, <2>6, <2>7, <2>8
<1>9. CASE LogAndSend(q)
  <2> DEFINE h == handler[q]
             status == IF outer[q].status = 200 /\ Known(q) THEN 304 ELSE outer[q].status
             o == [outer[q] EXCEPT !.pc = "sent", !.status = status]
  <2>1. /\ outer[q].pc = "logging" /\ outer' = [outer EXCEPT ![q] = o] /\ handler' = [handler EXCEPT ![q] = h]
        /\ \/ log' = [log EXCEPT ![q] = Append(log[q], outer[q].status)] /\ lost' = lost
           \/ lost' = lost \cup {q} /\ log' = log
    <3>1. /\ outer[q].pc = "logging" /\ handler' = [handler EXCEPT ![q] = h]
          /\ \/ log' = [log EXCEPT ![q] = Append(log[q], outer[q].status)] /\ lost' = lost
             \/ lost' = lost \cup {q} /\ log' = log
      BY <1>1, <1>9 DEF LogAndSend
    <3>2. outer' = [outer EXCEPT ![q].pc = "sent", ![q].status = status]
      BY <1>9 DEF LogAndSend
    <3> HIDE DEF status
    <3>3. outer' = [outer EXCEPT ![q] = o]
      BY <1>1, <3>2
    <3>4. QED
      BY <3>1, <3>3
  <2>2. /\ log[q] = <<>> /\ q \notin lost /\ outer[q].status \in {200, 401, 404, 429, 503, 504}
    BY <1>2, <2>1 DEF LogOK
  <2>3. /\ status = outer[q].status \/ (outer[q].status = 200 /\ status = 304)
        /\ outer[q].status = 200 /\ q[2] # "again" => status = 200
    BY DEF Known
  <2> HIDE DEF status
  <2>4. o \in Outer /\ o.pc = "sent" /\ o.status = status
    <3>1. status \in Statuses
      BY <2>2, <2>3 DEF Statuses
    <3>2. QED
      BY <1>1, <3>1 DEF Outer
  <2> HIDE DEF o
  <2>5. handler'[q] = h /\ outer'[q] = o
    BY <1>1, <2>1
  <2>6. /\ OthersLogged(q)
        /\ log'[q] = IF q \in lost' THEN <<>> ELSE <<outer[q].status>>
    <3>1. CASE log' = [log EXCEPT ![q] = Append(log[q], outer[q].status)] /\ lost' = lost
      <4>1. Append(log[q], outer[q].status) = <<outer[q].status>>
        BY <2>2
      <4>2. <<outer[q].status>> \in Seq({200, 401, 404, 429, 503, 504})
        BY <2>2
      <4>3. QED
        BY <1>1, <2>2, <3>1, <4>1, <4>2 DEF OthersLogged
    <3>2. CASE lost' = lost \cup {q} /\ log' = log
      BY <1>1, <2>2, <3>2 DEF OthersLogged
    <3>3. QED
      BY <2>1, <3>1, <3>2
  <2>7. LogOK(q)'
    BY <2>2, <2>3, <2>4, <2>5, <2>6 DEF LogOK
  <2>8. ~Idle(q) /\ ~Answered(q, 200) /\ Matters(q)
    BY <2>1 DEF Idle, Answered, Matters, Open
  <2>9. o.status \in {200, 304} => Good(q)
    BY <2>3, <2>4 DEF Good
  <2>10. h \in Progress /\ (h.runs => h.todo # <<>>)
    BY <1>1, <1>2 DEF HandlerOK
  <2>11. QED
    BY <1>5, <2>1, <2>4, <2>6, <2>7, <2>8, <2>9, <2>10
<1>10. QED
  BY <1>4, <1>7, <1>8, <1>9

\* A request comes, and what is published at that moment is noted.
LEMMA RequestStep == ASSUME AnswersInv, NEW q \in Requests, Request(q) PROVE AnswersInv'
<1> DEFINE h == [handler[q] EXCEPT !.todo = Plan(q[2])]
           o == [outer[q] EXCEPT !.pc = "inside"]
<1>1. /\ TypeOK /\ Fine(q) /\ handler[q] \in Progress /\ outer[q] \in Outer
      /\ handler \in [Requests -> Progress] /\ outer \in [Requests -> Outer]
      /\ shown \in [Requests -> SUBSET Versions] /\ quiet \in [Requests -> BOOLEAN]
      /\ pkg \in PackageRow
  BY AnswerTypes DEF AnswersInv
<1>2. /\ Idle(q) /\ May(q) /\ handler' = [handler EXCEPT ![q] = h] /\ outer' = [outer EXCEPT ![q] = o]
      /\ shown' = [shown EXCEPT ![q] = Live(pkg)] /\ quiet' = [quiet EXCEPT ![q] = TRUE]
      /\ UNCHANGED <<pkg, cit, edits, log, lost>>
  BY <1>1 DEF Request, store
<1>3. handler[q].runs = FALSE /\ handler[q].row = NoRow /\ NoRow.st = "none" /\ ~Good(q)
  BY <1>1, <1>2, FreshHandler DEF Fine, HandlerOK, NewHandler
<1>4. /\ q[2] \in Kinds /\ Plan(q[2]) \in Left(q[2]) /\ Plan(q[2]) \in Seq(Calls)
      /\ Plan(q[2]) \notin {<<"cits">>, <<"hash_cits">>}
  <2>1. q[2] \in Kinds /\ Plan(q[2]) \in Left(q[2])
    BY RequestKinds, PlanIsLeft
  <2>2. Plan(q[2]) \notin {<<"cits">>, <<"hash_cits">>}
    BY <2>1 DEF Plan, Kinds
  <2>3. QED
    BY <2>1, <2>2, LeftAfter
<1>5. h \in Progress /\ h.todo = Plan(q[2]) /\ h.row = NoRow /\ h.runs = FALSE
  BY <1>1, <1>3, <1>4 DEF Progress
<1>6. o \in Outer /\ o.pc = "inside" /\ o.status = outer[q].status
  BY <1>1 DEF Outer
<1> HIDE DEF h, o
<1>7. /\ handler'[q] = h /\ outer'[q] = o /\ shown'[q] = Live(pkg) /\ quiet'[q] = TRUE
      /\ \A r \in Requests \ {q} : /\ handler'[r] = handler[r] /\ outer'[r] = outer[r]
                                   /\ shown'[r] = shown[r] /\ quiet'[r] = quiet[r]
  BY <1>1, <1>2
<1>8. Live(pkg) \in SUBSET Versions /\ (Published(pkg) => pkg.ver \in Live(pkg))
  BY <1>1 DEF Live, PackageRow
<1>9. TypeOK'
  <2>1. /\ handler' \in [Requests -> Progress] /\ outer' \in [Requests -> Outer]
        /\ shown' \in [Requests -> SUBSET Versions] /\ quiet' \in [Requests -> BOOLEAN]
    BY <1>1, <1>2, <1>5, <1>6, <1>8
  <2>2. QED
    BY <1>1, <1>2, <2>1 DEF TypeOK, Progress, Outer, Statuses, PackageRow
<1>10. StoreOK'
  BY <1>2 DEF AnswersInv, StoreOK
<1>11. ASSUME NEW r \in Requests PROVE Fine(r)'
  <2>1. CASE r # q
    <3>1. Fine(r)
      BY DEF AnswersInv
    <3>2. LogOK(r)' /\ HandlerOK(r)'
      BY <1>2, <1>7, <2>1, <3>1 DEF Fine, LogOK, HandlerOK, Idle, Good, Has
    <3>3. ShownOK(r)' /\ QuietOK(r)'
      BY <1>2, <1>7, <2>1, <3>1
         DEF Fine, ShownOK, QuietOK, Open, Good, Has, Matters, Answered, Whole, Published
    <3>4. QED
      BY <3>2, <3>3 DEF Fine
  <2>2. CASE r = q
    <3>1. ~Idle(q)' /\ ~Good(q)' /\ ~Has(q)'
      BY <1>3, <1>5, <1>6, <1>7 DEF Idle, Good, Has
    <3>2. LogOK(q)'
      BY <1>1, <1>2, <1>6, <1>7 DEF Fine, LogOK, Idle
    <3>3. HandlerOK(q)'
      BY <1>4, <1>5, <1>7, <3>1 DEF HandlerOK
    <3>4. ShownOK(q)' /\ QuietOK(q)'
      BY <1>2, <1>7, <1>8, <3>1 DEF ShownOK, QuietOK
    <3>5. QED
      BY <2>2, <3>2, <3>3, <3>4 DEF Fine
  <2>3. QED
    BY <2>1, <2>2
<1>12. ASSUME NEW a \in Agents PROVE VerifyOK(a)'
  <2> DEFINE f == <<a, "fetch">>
             v == <<a, "verify">>
  <2>1. /\ f \in Requests /\ v \in Requests /\ f # v
        /\ q = v => Answered(f, 200)
    BY <1>2, RequestKinds DEF May
  <2>2. ~Idle(v) => /\ Answered(f, 200)
                    /\ quiet[f] => quiet[v] /\ (Has(v) => handler[v].row.ver = handler[f].row.ver)
    BY DEF AnswersInv, VerifyOK
  <2> HIDE DEF f, v
  <2>3. SUFFICES ASSUME ~Idle(v)'
                 PROVE  /\ Answered(f, 200)'
                        /\ quiet'[f] => quiet'[v] /\ (Has(v)' => handler'[v].row.ver = handler'[f].row.ver)
    BY <2>3 DEF VerifyOK, f, v
  <2>4. CASE q = v
    <3>1. ~Has(v)' /\ quiet'[v]
      BY <1>3, <1>5, <1>7, <2>4 DEF Has
    <3>2. Answered(f, 200)'
      BY <1>7, <2>1, <2>4 DEF Answered
    <3>3. QED
      BY <3>1, <3>2
  <2>5. CASE q = f
    BY <1>2, <1>7, <2>1, <2>2, <2>3, <2>5 DEF Idle, Answered
  <2>6. CASE q # f /\ q # v
    BY <1>7, <2>1, <2>2, <2>3, <2>6 DEF Idle, Answered, Has
  <2>7. QED
    BY <2>4, <2>5, <2>6
<1>13. QED
  BY <1>9, <1>10, <1>11, <1>12 DEF AnswersInv

\* A command of the editor: who has something at stake notices a --replace.
LEMMA EditorStep == ASSUME AnswersInv, Editor PROVE AnswersInv'
<1>1. /\ TypeOK /\ StoreOK /\ pkg \in PackageRow /\ cit \in Versions \cup {None} /\ edits \in 0..MaxEdits
      /\ quiet \in [Requests -> BOOLEAN] /\ shown \in [Requests -> SUBSET Versions]
  BY AnswerTypes DEF AnswersInv
<1>2. ASSUME NEW st, NEW ver, NEW cits, NEW replacing \in BOOLEAN, Edit(st, ver, cits, replacing),
             st \in {"none", "imported", "staged", "published", "withheld"}, ver \in Versions,
             cits \in Versions \cup {None}, st # "none" => cits = ver, ver <= edits + 1,
             replacing \/ (ver = pkg.ver /\ st # "none" /\ pkg.st # "none")
      PROVE  AnswersInv'
  <2>1. /\ edits' \in 0..MaxEdits /\ pkg' = [st |-> st, ver |-> ver] /\ cit' = cits /\ Note(pkg')
        /\ UNCHANGED <<handler, outer, log, lost>>
        /\ quiet' = [q \in Requests |-> quiet[q] /\ ~(replacing /\ Matters(q))]
    BY <1>1, <1>2, ResponsesAssumption DEF Edit
  <2>2. pkg' \in PackageRow /\ pkg'.st = st /\ pkg'.ver = ver
    BY <1>2, <2>1 DEF PackageRow
  <2>3. Live(pkg') \in SUBSET Versions /\ (Published(pkg') => pkg'.ver \in Live(pkg'))
    BY <2>2 DEF Live, PackageRow
  <2>4. /\ shown' \in [Requests -> SUBSET Versions]
        /\ \A q \in Requests : /\ shown[q] \subseteq shown'[q]
                               /\ Open(q) /\ Published(pkg') => pkg'.ver \in shown'[q]
    BY <1>1, <2>1, <2>3 DEF Note
  <2>5. \A q \in Requests : /\ quiet'[q] => quiet[q] /\ ~(replacing /\ Matters(q))
                            /\ quiet[q] /\ ~(replacing /\ Matters(q)) => quiet'[q]
    BY <2>1
  <2>6. TypeOK'
    <3>1. quiet' \in [Requests -> BOOLEAN]
      BY <2>1
    <3>2. QED
      BY <1>1, <1>2, <2>1, <2>2, <2>4, <3>1 DEF TypeOK, PackageRow
  <2>7. StoreOK'
    <3>1. edits' = edits + 1 /\ edits \in Nat
      BY <1>1, <1>2, ResponsesAssumption DEF Edit
    <3>2. QED
      BY <1>2, <2>1, <2>2, <3>1 DEF StoreOK, Versions
  <2>8. ASSUME NEW q \in Requests PROVE Fine(q)'
    <3>1. Fine(q)
      BY DEF AnswersInv
    <3>2. LogOK(q)' /\ HandlerOK(q)'
      BY <2>1, <3>1 DEF Fine, LogOK, HandlerOK, Idle, Good, Has
    <3>3. ShownOK(q)'
      BY <2>1, <2>4, <3>1 DEF Fine, ShownOK, Open, Good, Has
    <3>4. QuietOK(q)'
      BY <1>2, <2>1, <2>2, <2>5, <3>1 DEF Fine, QuietOK, Matters, Open, Answered, Good, Has, Whole
    <3>5. QED
      BY <3>2, <3>3, <3>4 DEF Fine
  <2>9. ASSUME NEW a \in Agents PROVE VerifyOK(a)'
    <3> DEFINE f == <<a, "fetch">>
               v == <<a, "verify">>
    <3>1. f \in Requests /\ v \in Requests /\ f[2] = "fetch"
      BY RequestKinds
    <3>2. ~Idle(v) => /\ Answered(f, 200)
                      /\ quiet[f] => quiet[v] /\ (Has(v) => handler[v].row.ver = handler[f].row.ver)
      BY DEF AnswersInv, VerifyOK
    <3> HIDE DEF f, v
    <3>3. SUFFICES ASSUME ~Idle(v)'
                   PROVE  /\ Answered(f, 200)'
                          /\ quiet'[f] => quiet'[v] /\ (Has(v)' => handler'[v].row.ver = handler'[f].row.ver)
      BY <3>3 DEF VerifyOK, f, v
    <3>4. Answered(f, 200) /\ Matters(f)
      BY <2>1, <3>1, <3>2, <3>3 DEF Idle, Matters
    <3>5. ASSUME quiet'[f]
          PROVE  quiet'[v] /\ (Has(v)' => handler'[v].row.ver = handler'[f].row.ver)
      <4>1. quiet[f] /\ ~replacing
        BY <2>5, <3>1, <3>4, <3>5
      <4>2. QED
        BY <2>1, <2>5, <3>1, <3>2, <3>3, <4>1 DEF Idle, Has
    <3>6. QED
      BY <2>1, <3>4, <3>5 DEF Answered
  <2>10. QED
    BY <2>6, <2>7, <2>8, <2>9 DEF AnswersInv
<1>3. /\ pkg.ver \in Versions /\ (pkg.st # "none" => cit = pkg.ver)
      /\ pkg.ver <= edits + 1 /\ pkg.ver + 1 <= edits + 1
      /\ edits < MaxEdits => pkg.ver + 1 \in Versions
  BY <1>1, ResponsesAssumption DEF PackageRow, StoreOK, Versions
<1>4. CASE Withhold
  BY <1>1, <1>2, <1>3, <1>4 DEF Withhold, Published
<1>5. CASE Republish
  BY <1>1, <1>2, <1>3, <1>5 DEF Republish
<1>6. CASE ReplaceDelete
  BY <1>1, <1>2, <1>3, <1>6 DEF ReplaceDelete
<1>7. CASE ReplaceInsert
  BY <1>1, <1>2, <1>3, <1>7 DEF ReplaceInsert, Edit
<1>8. CASE ReplacePublish
  BY <1>1, <1>2, <1>3, <1>8 DEF ReplacePublish
<1>9. QED
  BY <1>4, <1>5, <1>6, <1>7, <1>8 DEF Editor

\* Every step keeps what is true of the requests.
LEMMA StepAnswers == AnswersInv /\ [Next]_vars => AnswersInv'
<1> SUFFICES ASSUME AnswersInv, [Next]_vars PROVE AnswersInv'
  OBVIOUS
<1>1. CASE UNCHANGED vars
  <2>1. StillThere /\ TypeOK' /\ StoreOK'
    BY <1>1, StoreUntouched DEF vars, AnswersInv, TypeOK, StoreOK
  <2>2. \A q \in Requests : Fine(q)'
    BY <1>1, <2>1, Bystander DEF vars
  <2>3. \A a \in Agents : VerifyOK(a)'
    BY <1>1 DEF vars, AnswersInv, VerifyOK, Idle, Answered, Has
  <2>4. QED
    BY <2>1, <2>2, <2>3 DEF AnswersInv
<1>2. CASE Editor
  BY <1>2, EditorStep
<1>3. ASSUME NEW q \in Requests, Request(q) \/ Handle(q) \/ Timeout(q) \/ Cancel(q)
      PROVE  AnswersInv'
  BY <1>3, RequestStep, HandlerStep, MiddlewareStep DEF Handle
<1>4. QED
  BY <1>1, <1>2, <1>3 DEF Next

LEMMA AnswersInvariance == Spec => []AnswersInv
BY InitAnswers, StepAnswers, PTL DEF Spec

\* The variables of Responses keep their types.
THEOREM AnswersTyped == Spec => []TypeOK
<1>1. AnswersInv => TypeOK
  BY DEF AnswersInv
<1>2. QED
  BY AnswersInvariance, <1>1, PTL

\* What fetch_package, list_packages or article_html answers with 200, or confirms with
\* 304, was published while the request was in progress; and it is a package with its own
\* citations, if no --replace came between its reads.
THEOREM AnswersArePublished == Spec => []ServedWasPublished
<1>1. ASSUME AnswersInv, NEW q \in Requests, Served(q), q[2] # "verify", handler[q].row # NoRow
      PROVE  /\ q[2] # "sample" => handler[q].row.ver \in shown[q]
             /\ q[2] # "list" /\ quiet[q] => Whole(q)
  <2>1. Good(q) /\ HandlerOK(q) /\ ShownOK(q) /\ QuietOK(q)
    BY <1>1 DEF AnswersInv, Fine, Served, Good
  <2>2. Has(q)
    BY <1>1, <2>1 DEF HandlerOK
  <2>3. QED
    BY <1>1, <2>1, <2>2 DEF ShownOK, QuietOK
<1>2. AnswersInv => ServedWasPublished
  BY <1>1 DEF ServedWasPublished
<1>3. QED
  BY AnswersInvariance, <1>2, PTL

\* While no --replace commits, whatever else the editor does between the bundle and the
\* hash, verify recomputes the hash of the bundle's version, and says that it matches just
\* when the import has stored what it hashed: after verify_urls it seldom has.
THEOREM VerifyIsOfTheBundle == Spec => []TamperCheck
<1>1. ASSUME AnswersInv, NEW a \in Agents, Answered(<<a, "fetch">>, 200), quiet[<<a, "fetch">>],
             Answered(<<a, "verify">>, 200)
      PROVE  /\ handler[<<a, "verify">>].row.ver = handler[<<a, "fetch">>].row.ver
             /\ Whole(<<a, "verify">>)
  <2> DEFINE f == <<a, "fetch">>
             v == <<a, "verify">>
  <2>1. v \in Requests /\ v[2] = "verify" /\ ~Idle(v) /\ Good(v)
    BY <1>1, RequestKinds DEF Answered, Idle, Good
  <2>2. Fine(v) /\ VerifyOK(a)
    BY <1>1, <2>1 DEF AnswersInv
  <2>3. Has(v)
    BY <2>1, <2>2 DEF Fine, HandlerOK
  <2>4. quiet[v] /\ handler[v].row.ver = handler[f].row.ver
    BY <1>1, <2>1, <2>2, <2>3 DEF VerifyOK
  <2>5. Whole(v)
    BY <2>1, <2>2, <2>4 DEF Fine, QuietOK
  <2>6. QED
    BY <2>4, <2>5
<1>2. AnswersInv => TamperCheck
  BY <1>1 DEF TamperCheck, Match
<1>3. QED
  BY AnswersInvariance, <1>2, PTL

\* request_logger leaves one row for each answer, with the status that was sent, unless the
\* INSERT fails or an error has passed all middlewares.
THEOREM AnswersAreLogged == Spec => []AnsweredAsLogged
<1>1. AnswersInv => AnsweredAsLogged
  BY DEF AnswersInv, Fine, LogOK, AnsweredAsLogged
<1>2. QED
  BY AnswersInvariance, <1>1, PTL
===============================================================================
