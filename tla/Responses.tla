-------------------------------- MODULE Responses --------------------------------
(***************************************************************************)
(* The life of an HTTP request in the API (api.py): the chain of           *)
(* middlewares around the handler, the handler's calls in the thread pool  *)
(* one after the other, and the editor's commands that change the package  *)
(* between any two of them.  The clients are the one of                    *)
(* examples/fetch_bundle.py, a reader of an article's page who comes back  *)
(* with the ETag of the first visit, and one of /v1/sample.                *)
(*                                                                         *)
(* One package, the sample, whose id, slug and run stay the same when      *)
(* --replace gives it another version (and --sample marks it again).  A    *)
(* body is what its statements read: the row and the version of the        *)
(* citations.  From the outside in the middlewares are etag, logger,       *)
(* timeout and the two that add headers.                                   *)
(***************************************************************************)
EXTENDS Integers, Sequences, FiniteSets

CONSTANTS
    Agents,    \* programs that run fetch_bundle.py once
    Readers,   \* browsers that get the article twice
    Tasters,   \* clients that get the sample
    Pool,      \* threads of the pool
    AsHashed,  \* the versions whose citations are stored as they were hashed
    MaxEdits,  \* bound on the editor's commits
    MaxRequests,  \* bound on the requests of all clients
    None

ASSUME ResponsesAssumption ==
    /\ Pool \in Nat \ {0}
    /\ MaxEdits \in Nat /\ MaxRequests \in Nat
    /\ None \notin Nat
    /\ Agents \cap Readers = {} /\ Tasters \cap (Agents \cup Readers) = {}

\* The content_hash of a version is made before verify_urls sets `verified`: an import
\* that is not in AsHashed has stored something else than it hashed (see RunAdmission).

\* Each client makes each of its requests at most once.
Requests == (Agents \X {"list", "fetch", "verify"}) \cup (Readers \X {"article", "again"})
                \cup (Tasters \X {"sample"})

VARIABLES
    pkg,      \* status and version in the row of packages
    cit,      \* version of the rows of citations
    handler,  \* calls left, whether a thread runs the first, what was read
    outer,    \* the middlewares: progress and status
    log,      \* statuses in the request's rows of request_log
    shown,    \* history: versions that were published at a moment since the request came
    quiet,    \* history: no --replace has committed since the request came
    lost,     \* history: requests whose log row was dropped
    edits     \* commits of the editor

vars == <<pkg, cit, handler, outer, log, shown, quiet, lost, edits>>
store == <<pkg, cit, edits>>
history == <<shown, quiet, lost>>

NoRow == [st |-> "none", ver |-> 0]
Versions == 0..MaxEdits
Calls == {"gate", "limit", "lazy", "rows", "row", "cits", "slug", "sample", "hash", "hash_cits"}

TypeOK ==
    /\ pkg \in [st : {"none", "imported", "staged", "published", "withheld"}, ver : Versions]
    /\ cit \in Versions \cup {None}
    /\ handler \in [Requests -> [todo : Seq(Calls), runs : BOOLEAN,
                                 row : [st : {"none", "imported", "staged", "published", "withheld"},
                                        ver : Versions],
                                 cits : Versions \cup {None}]]
    /\ outer \in [Requests -> [pc : {"idle", "inside", "log", "logging", "sent"},
                               status : {0, 200, 304, 401, 404, 429, 500, 503, 504}]]
    /\ log \in [Requests -> Seq({200, 401, 404, 429, 503, 504})]
    /\ shown \in [Requests -> SUBSET Versions]
    /\ quiet \in [Requests -> BOOLEAN]
    /\ lost \subseteq Requests
    /\ edits \in 0..MaxEdits

NewHandler == [todo |-> <<>>, runs |-> FALSE, row |-> NoRow, cits |-> None]

Init ==
    /\ pkg \in [st : {"imported", "staged", "published", "withheld"}, ver : {0}] \cup {NoRow}
    /\ cit = IF pkg = NoRow THEN None ELSE 0
    /\ handler = [q \in Requests |-> NewHandler]
    /\ outer = [q \in Requests |-> [pc |-> "idle", status |-> 0]]
    /\ log = [q \in Requests |-> <<>>]
    /\ shown = [q \in Requests |-> {}]
    /\ quiet = [q \in Requests |-> TRUE]
    /\ lost = {} /\ edits = 0

-------------------------------------------------------------------------------
(* The editor: commands of the CLI, each commit a step. *)

Published(row) == row.st = "published"
Live(row) == IF Published(row) THEN {row.ver} ELSE {}

Idle(q) == outer[q].pc = "idle"
Answered(q, s) == outer[q].pc = "sent" /\ outer[q].status = s
Open(q) == outer[q].pc \notin {"idle", "sent"}
Note(row) == shown' = [q \in Requests |-> IF Open(q) THEN shown[q] \cup Live(row) ELSE shown[q]]
\* fetch_bundle.py still has the bundle when it asks for the hash.
Matters(q) == Open(q) \/ (q[2] = "fetch" /\ Answered(q, 200))

Edit(st, ver, cits, replacing) ==
    /\ edits < MaxEdits
    /\ edits' = edits + 1
    /\ pkg' = [st |-> st, ver |-> ver]
    /\ cit' = cits
    /\ Note(pkg')
    /\ quiet' = [q \in Requests |-> quiet[q] /\ ~(replacing /\ Matters(q))]
    /\ UNCHANGED <<handler, outer, log, lost>>

Withhold == Published(pkg) /\ Edit("withheld", pkg.ver, cit, FALSE)
Republish == pkg.st = "withheld" /\ Edit("published", pkg.ver, cit, FALSE)

\* import-run --replace: the deletion is a commit of its own, the row and its
\* citations are inserted by the next, and the third publishes or schedules it.
ReplaceDelete == pkg.st # "none" /\ Edit("none", pkg.ver, None, TRUE)
ReplaceInsertRow == pkg.st = "none" /\ Edit("imported", pkg.ver + 1, None, TRUE)
ReplaceInsert == pkg.st = "none" /\ Edit("imported", pkg.ver + 1, pkg.ver + 1, TRUE)
ReplacePublish ==
    /\ pkg.st = "imported"
    /\ \E st \in {"published", "staged"} : Edit(st, pkg.ver, cit, FALSE)

Editor == Withhold \/ Republish \/ ReplaceDelete \/ ReplaceInsert \/ ReplacePublish

-------------------------------------------------------------------------------
(* Clients. *)

Plan(kind) ==
    CASE kind = "list" -> <<"gate", "lazy", "rows">>
      [] kind = "fetch" -> <<"gate", "lazy", "row", "cits">>
      [] kind = "verify" -> <<"hash">>
      [] kind \in {"article", "again"} -> <<"slug", "row", "cits">>
      [] kind = "sample" -> <<"limit", "lazy", "sample", "cits">>

\* fetch_bundle.py lists unless it is given an id, and quits on any status but 200,
\* or when the list is empty.
May(q) ==
    LET c == q[1] IN
    CASE q[2] = "list" -> Idle(<<c, "fetch">>)
      [] q[2] = "fetch" -> \/ Idle(<<c, "list">>)
                           \/ Answered(<<c, "list">>, 200) /\ Published(handler[<<c, "list">>].row)
      [] q[2] = "verify" -> Answered(<<c, "fetch">>, 200)
      [] q[2] \in {"article", "sample"} -> TRUE
      [] q[2] = "again" -> outer[<<c, "article">>].pc = "sent"

Request(q) ==
    /\ Idle(q) /\ May(q)
    /\ Cardinality({r \in Requests : ~Idle(r)}) < MaxRequests
    /\ outer' = [outer EXCEPT ![q].pc = "inside"]
    /\ handler' = [handler EXCEPT ![q].todo = Plan(q[2])]
    /\ shown' = [shown EXCEPT ![q] = Live(pkg)]
    /\ quiet' = [quiet EXCEPT ![q] = TRUE]
    /\ UNCHANGED <<store, log, lost>>

-------------------------------------------------------------------------------
(* The handler. *)

Holders == {q \in Requests : handler[q].runs}
Loggers == {q \in Requests : outer[q].pc = "logging"}
ThreadIsFree == Cardinality(Holders) + Cardinality(Loggers) < Pool

Call(q) ==
    /\ handler[q].todo # <<>> /\ Head(handler[q].todo) # "limit"
    /\ ~handler[q].runs /\ ThreadIsFree
    /\ handler' = [handler EXCEPT ![q].runs = TRUE]
    /\ UNCHANGED <<store, outer, log, history>>

Running(q, call) == handler[q].runs /\ Head(handler[q].todo) = call

\* The thread has done its call, and the handler goes on or has ended,
Onward(h) == [h EXCEPT !.todo = Tail(@), !.runs = FALSE]
\* with a response, which the timeout middleware passes on if it still waits.
Respond(q, s) ==
    outer' = IF outer[q].pc = "inside"
             THEN [outer EXCEPT ![q] = [pc |-> "log", status |-> s]]
             ELSE outer

\* h is what the handler has after the call that runs; it may be its last.
ContinueIfAwaited(q, h) ==                       \* mutant: a late call keeps its thread
    /\ handler' = [handler EXCEPT ![q] = IF outer[q].pc = "inside" THEN Onward(h) ELSE h]
    /\ IF Len(h.todo) = 1 THEN Respond(q, 200) ELSE UNCHANGED outer
Continue(q, h) ==
    /\ handler' = [handler EXCEPT ![q] =
                       IF Len(h.todo) = 1 /\ outer[q].pc # "inside" THEN NewHandler ELSE Onward(h)]
    /\ IF Len(h.todo) = 1 THEN Respond(q, 200) ELSE UNCHANGED outer
Refuse(q, s) ==
    /\ handler' = [handler EXCEPT ![q] = NewHandler]
    /\ Respond(q, s)

\* require_api_key: the key is good, or not, or over its limits (KeyAuth and RateLimit
\* say when).
Gate(q) ==
    /\ Running(q, "gate")
    /\ Continue(q, handler[q]) \/ \E s \in {401, 429} : Refuse(q, s)
    /\ UNCHANGED <<store, log, history>>

\* ip_limit and ua_limit, in the event loop without a thread.
Limit(q) ==
    /\ handler[q].todo # <<>> /\ Head(handler[q].todo) = "limit"
    /\ Continue(q, handler[q]) \/ Refuse(q, 429)
    /\ UNCHANGED <<store, log, history>>

\* _transition_staged publishes what is due; it drops errors.
Lazy(q) ==
    /\ Running(q, "lazy")
    /\ \/ /\ pkg.st = "staged"
          /\ pkg' = [pkg EXCEPT !.st = "published"]
          /\ Note(pkg')
       \/ UNCHANGED <<pkg, shown>>
    /\ Continue(q, handler[q])
    /\ UNCHANGED <<cit, edits, log, quiet, lost>>

\* list_packages(status="published") and the count.
Rows(q) ==
    /\ Running(q, "rows")
    /\ Continue(q, [handler[q] EXCEPT !.row = IF Published(pkg) THEN pkg ELSE NoRow])
    /\ UNCHANGED <<store, log, history>>

\* get_package_id_by_slug looks at no status.
Slug(q) ==
    /\ Running(q, "slug")
    /\ IF pkg.st = "none" THEN Refuse(q, 404) ELSE Continue(q, handler[q])
    /\ UNCHANGED <<store, log, history>>

RowOfAnyStatus(q) ==                             \* mutant: a row is enough
    /\ Running(q, "row")
    /\ IF pkg.st = "none" THEN Refuse(q, 404) ELSE Continue(q, [handler[q] EXCEPT !.row = pkg])
    /\ UNCHANGED <<store, log, history>>
Row(q) ==
    /\ Running(q, "row")
    /\ IF Published(pkg) THEN Continue(q, [handler[q] EXCEPT !.row = pkg]) ELSE Refuse(q, 404)
    /\ UNCHANGED <<store, log, history>>

\* get_sample looks at no status, and no one after it.
Sample(q) ==
    /\ Running(q, "sample")
    /\ IF pkg.st = "none" THEN Refuse(q, 404) ELSE Continue(q, [handler[q] EXCEPT !.row = pkg])
    /\ UNCHANGED <<store, log, history>>

Cits(q) ==
    /\ Running(q, "cits")
    /\ Continue(q, [handler[q] EXCEPT !.cits = cit])
    /\ UNCHANGED <<store, log, history>>

\* recompute_content_hash: both reads in one call, of a package in any status.
Hash(q) ==
    /\ Running(q, "hash")
    /\ IF pkg.st = "none" THEN Refuse(q, 404)
       ELSE /\ handler' = [handler EXCEPT ![q].row = pkg, ![q].todo = <<"hash_cits">>]
            /\ UNCHANGED outer
    /\ UNCHANGED <<store, log, history>>
HashCits(q) ==
    /\ Running(q, "hash_cits")
    /\ Continue(q, [handler[q] EXCEPT !.cits = cit])
    /\ UNCHANGED <<store, log, history>>

\* A statement raises. article_html has an answer when its first does; any other
\* error passes through all middlewares, the logger among them.
Raise(q) ==
    /\ handler[q].runs /\ ~Running(q, "lazy")
    /\ handler' = [handler EXCEPT ![q] = NewHandler]
    /\ IF Running(q, "slug") THEN Respond(q, 503)
       ELSE outer' = IF outer[q].pc = "inside"
                     THEN [outer EXCEPT ![q] = [pc |-> "sent", status |-> 500]]
                     ELSE outer
    /\ UNCHANGED <<store, log, history>>

-------------------------------------------------------------------------------
(* The middlewares. *)

Late(q) == handler[q].todo # <<>> /\ outer[q].pc # "inside"

\* wait_for gives up: the call that runs goes on in its thread.
TimeoutUnlogged(q) ==                            \* mutant: the timeout is outside of the logger
    /\ outer[q].pc = "inside"
    /\ outer' = [outer EXCEPT ![q] = [pc |-> "sent", status |-> 504]]
    /\ UNCHANGED <<store, handler, log, history>>
Timeout(q) ==
    /\ outer[q].pc = "inside"
    /\ outer' = [outer EXCEPT ![q] = [pc |-> "log", status |-> 504]]
    /\ UNCHANGED <<store, handler, log, history>>

\* Starlette's versions differ in what becomes of the handler: it goes on with its
\* next calls, or is cancelled between two of them.
Cancel(q) ==
    /\ Late(q) /\ ~handler[q].runs
    /\ handler' = [handler EXCEPT ![q] = NewHandler]
    /\ UNCHANGED <<store, outer, log, history>>

\* request_logger awaits a thread as well, and no timeout ends its wait.
CallLog(q) ==
    /\ outer[q].pc = "log" /\ ThreadIsFree
    /\ outer' = [outer EXCEPT ![q].pc = "logging"]
    /\ UNCHANGED <<store, handler, log, history>>

\* What If-None-Match has: the ETag is a hash of the body.
Body(q) == <<handler[q].row, handler[q].cits>>
Known(q) ==
    /\ q[2] = "again"
    /\ outer[<<q[1], "article">>].status \in {200, 304}
    /\ Body(<<q[1], "article">>) = Body(q)

\* The row is written, or an error dropped; then etag_middleware sends.
LogAndSend(q) ==
    /\ outer[q].pc = "logging"
    /\ \/ log' = [log EXCEPT ![q] = Append(@, outer[q].status)] /\ UNCHANGED lost
       \/ lost' = lost \cup {q} /\ UNCHANGED log
    /\ outer' = [outer EXCEPT ![q].pc = "sent",
                              ![q].status = IF @ = 200 /\ Known(q) THEN 304 ELSE @]
    /\ UNCHANGED <<store, handler, shown, quiet>>

-------------------------------------------------------------------------------
Handle(q) ==
    \/ Call(q) \/ Gate(q) \/ Limit(q) \/ Lazy(q) \/ Rows(q) \/ Slug(q) \/ Row(q) \/ Sample(q) \/ Cits(q)
    \/ Hash(q) \/ HashCits(q) \/ Raise(q)
    \/ CallLog(q) \/ LogAndSend(q)

Next ==
    \/ Editor
    \/ \E q \in Requests : Request(q) \/ Handle(q) \/ Timeout(q) \/ Cancel(q)

Spec == Init /\ [][Next]_vars

\* SQLite's busy timeout bounds every call, and a free thread takes one that waits:
\* nothing is assumed of which.
FairSpec == Spec /\ WF_vars(\E q \in Requests : Handle(q))

-------------------------------------------------------------------------------
(* Properties *)

Served(q) == outer[q].pc = "sent" /\ outer[q].status \in {200, 304}
Whole(q) == handler[q].cits = handler[q].row.ver

\* What verify answers: the recomputed hash is the one in the row.
Match(q) == Whole(q) /\ handler[q].row.ver \in AsHashed

\* What fetch_package, list_packages or article_html answers 200 with, and what a
\* 304 tells a reader to keep, was published at a moment since the request came;
\* and unless --replace came in between, it has its own citations, the sample too.  The gate,
\* the lazy pass and the reads are calls of their own, with commands between them.
ServedWasPublished ==
    \A q \in Requests : Served(q) /\ q[2] # "verify" /\ handler[q].row # NoRow =>
        /\ q[2] # "sample" => handler[q].row.ver \in shown[q]
        /\ q[2] # "list" /\ quiet[q] => Whole(q)

\* The tamper check of fetch_bundle.py speaks of the bundle it has: whatever else the
\* editor did, if no --replace has committed since the bundle was asked for, then verify
\* recomputes the hash of that version, and it matches just when the import has stored
\* what it hashed.
TamperCheck ==
    \A a \in Agents : LET f == <<a, "fetch">> v == <<a, "verify">> IN
        Answered(f, 200) /\ quiet[f] /\ Answered(v, 200) =>
            /\ handler[v].row.ver = handler[f].row.ver
            /\ Match(v) <=> handler[f].row.ver \in AsHashed

\* request_logger keeps one row per answer, with the status the client was sent (200
\* for a 304, as etag_middleware is outside), also if the handler ends after its
\* timeout; none for a 500, and none if the INSERT failed.
AnsweredAsLogged ==
    \A q \in Requests : outer[q].pc = "sent" =>
        log[q] = IF q \in lost \/ outer[q].status = 500 THEN <<>>
                 ELSE <<IF outer[q].status = 304 THEN 200 ELSE outer[q].status>>

\* Every request is answered once no more come, though handlers that timed out still
\* hold threads and the logger waits for one without a timeout.
EveryoneAnswered == <>[](\A q \in Requests : ~Open(q))

-------------------------------------------------------------------------------
(* Statements that the code does not keep, for the configurations that refute them *)

\* "Full bundle": what fetch_package answers 200 with has its own citations.
BundleIsWhole == \A a \in Agents : Answered(<<a, "fetch">>, 200) => Whole(<<a, "fetch">>)

\* Where fetch_bundle.py prints "Match: True", it is the hash of the bundle it has.
MatchIsOfTheBundle ==
    \A a \in Agents : LET f == <<a, "fetch">> v == <<a, "verify">> IN
        Answered(f, 200) /\ Answered(v, 200) /\ Match(v) => handler[v].row = handler[f].row

\* "match: false means the stored bundle was altered after import"
MismatchIsAlteration ==
    \A a \in Agents : LET f == <<a, "fetch">> v == <<a, "verify">> IN
        Answered(f, 200) /\ quiet[f] /\ Answered(v, 200) => Match(v)

\* "withheld from future distribution": the sample that is served was published at a
\* moment since the request came.
SampleIsPublished ==
    \A t \in Tasters : Answered(<<t, "sample">>, 200) =>
        handler[<<t, "sample">>].row.ver \in shown[<<t, "sample">>]

\* Every answer is in request_log.
AllLogged == \A q \in Requests : outer[q].pc = "sent" => log[q] # <<>> \/ q \in lost

===============================================================================
