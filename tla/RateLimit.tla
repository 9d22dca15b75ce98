------------------------------- MODULE RateLimit -------------------------------
(***************************************************************************)
(* src/agentnews/ratelimit.py and its callers in api.py: the rolling       *)
(* windows kept in memory for keys, IPs and user agents, the request_log   *)
(* rows written behind them, and the warm-up from those rows on startup.   *)
(*                                                                         *)
(* The gates of a request and the headers they set run on the event loop   *)
(* with no await in between: one step.  The log row is written in the      *)
(* thread pool after the answer was computed: another step.                *)
(*                                                                         *)
(* Time is kept as ages, in ticks, so that the clock needs no bound; a     *)
(* second is Second ticks, because request_log stores whole seconds and    *)
(* Retry-After is a whole number of them, while the deques hold floats.    *)
(* The window is a day, and purge-logs goes by the dates of the rows.      *)
(***************************************************************************)
EXTENDS Integers, Sequences

CONSTANTS
    Prefixes,    \* key prefixes: what a key's requests are counted under
    Ips, Agents, \* salted hashes of client addresses and user agents
    Endpoints,   \* kinds of endpoint requested
    PerDay, Burst, IpPerDay, CatalogPerDay, AgentPerDay,   \* the limits
    Second,      \* ticks in a second
    Seconds,     \* WINDOW_S
    Faults,      \* what may go wrong: see below
    PurgeDays,   \* --days of purge-logs
    MaxRows,     \* bound on the requests of a window
    MaxLost,     \* bound on the log rows that are lost
    MaxRestarts, \* bound on the restarts and crashes
    NoPrefix

ASSUME RateAssumption ==
    /\ NoPrefix \notin Prefixes
    /\ Endpoints \subseteq {"packages", "catalog", "sample", "open"}
    /\ PerDay \in Nat \ {0} /\ Burst \in Nat
    /\ IpPerDay \in Nat \ {0} /\ CatalogPerDay \in Nat \ {0} /\ AgentPerDay \in Nat \ {0}
    /\ Second \in Nat \ {0} /\ Seconds \in Nat \ {0}
    /\ Faults \subseteq {"restart", "crash", "lose"}
    /\ PurgeDays \subseteq Nat
    /\ MaxRows \in Nat /\ MaxLost \in Nat /\ MaxRestarts \in Nat

VARIABLES
    dq,       \* dq[b]: ages of the requests counted in bucket b, oldest first
    log,      \* request_log: the rows that a warm-up may still read, in order
    pending,  \* requests answered and not logged yet
    phase,    \* ticks since the wall clock's last midnight
    lost,     \* history: how many rows were never logged
    restarts, \* history: how often the server was started again
    passed    \* history: ages of the requests that bucket b let pass in this window

rateVars == <<dq, log, pending, phase, lost, restarts, passed>>

Window == Seconds * Second

Buckets == ({"key"} \X Prefixes) \cup ({"ip", "catalog"} \X Ips) \cup ({"agent"} \X Agents)

Limit(b) == CASE b[1] = "key" -> PerDay + Burst
              [] b[1] = "ip" -> IpPerDay
              [] b[1] = "catalog" -> CatalogPerDay
              [] b[1] = "agent" -> AgentPerDay

\* A valid key comes with the requests that need one; "open" stands for the
\* routes without a limit, and for the 401s.
Request == {q \in [endpoint: Endpoints, key: Prefixes \cup {NoPrefix}, ip: Ips, agent: Agents] :
              q.endpoint = "packages" <=> q.key # NoPrefix}

Ages == 0..(Window + 1)         \* Window + 1: any age past the window

RateTypeOK ==
    /\ dq \in [Buckets -> Seq(Ages)]
    /\ log \in Seq([req: Request, age: 0..(Window + Second - 1)])
    /\ \A i \in DOMAIN log : log[i].age % Second = phase % Second   \* whole seconds of the clock
    /\ pending \in Seq(Request)
    /\ phase \in 0..(Window - 1)
    /\ lost \in 0..MaxLost /\ restarts \in 0..MaxRestarts
    /\ passed \in [Buckets -> Seq(0..Window)]

RateInit ==
    /\ dq = [b \in Buckets |-> <<>>]
    /\ log = <<>> /\ pending = <<>>
    /\ phase \in 0..(Window - 1) /\ lost = 0 /\ restarts = 0
    /\ passed = [b \in Buckets |-> <<>>]

-------------------------------------------------------------------------------
\* The dependencies of the routes, in the order they are called.
Gates(q) == CASE q.endpoint = "packages" -> << <<"key", q.key>> >>
              [] q.endpoint = "catalog" -> << <<"catalog", q.ip>> >>
              [] q.endpoint = "sample" -> << <<"ip", q.ip>>, <<"agent", q.agent>> >>
              [] q.endpoint = "open" -> <<>>

\* What is left of d when it is popped from the left while its front is older than limit.
Within(d, limit) ==
    IF \A i \in DOMAIN d : d[i] > limit THEN <<>>
    ELSE LET first == CHOOSE i \in DOMAIN d :
                        d[i] <= limit /\ \A k \in 1..(i - 1) : d[k] > limit
         IN SubSeq(d, first, Len(d))

\* _prune.
PruneNothing(d) == d                                   \* mutant
Prune(d) == Within(d, Window)

Room(b) == Len(Prune(dq[b])) < Limit(b)

\* retry_after_*: whole seconds until the oldest entry is Window old, at least
\* one; here in ticks.
RetryAfterPlusAge(d) == Second * ((Window + d[1]) \div Second)   \* mutant: wrong sign
RetryAfter(d) ==
    LET left == (Window - d[1]) \div Second
    IN Second * (IF left < 1 THEN 1 ELSE left)

\* The gates that q passes before one refuses it, and that one.
Passing(q) == {Gates(q)[i] : i \in {j \in DOMAIN Gates(q) : \A k \in 1..j : Room(Gates(q)[k])}}
Blocking(q) == {Gates(q)[i] : i \in {j \in DOMAIN Gates(q) :
                                       ~Room(Gates(q)[j]) /\ \A k \in 1..(j - 1) : Room(Gates(q)[k])}}

\* allow_* appends to the deque of each gate passed; a refusal prunes it.
Count(q) ==
    /\ Len(log) + Len(pending) < MaxRows
    /\ dq' = [b \in Buckets |-> IF b \in Passing(q) THEN Append(Prune(dq[b]), 0)
                               ELSE IF b \in Blocking(q) THEN Prune(dq[b]) ELSE dq[b]]
    /\ passed' = [b \in Buckets |-> IF b \in Passing(q) THEN Append(passed[b], 0)
                                   ELSE passed[b]]
    /\ pending' = Append(pending, q)
    /\ UNCHANGED <<log, phase, lost, restarts>>

\* The request passes every gate, or a gate answers 429.
Serve(q) == Blocking(q) = {} /\ Count(q)
Refuse(q) == Blocking(q) # {} /\ Count(q)

\* log_request, whatever the status was; created_at is datetime('now').
LogRow(i) ==
    /\ log' = Append(log, [req |-> pending[i], age |-> phase % Second])
    /\ pending' = SubSeq(pending, 1, i - 1) \o SubSeq(pending, i + 1, Len(pending))
    /\ UNCHANGED <<dq, phase, lost, restarts, passed>>

\* The INSERT fails ("database is locked") and the middleware drops the error.
LoseRow(i) ==
    /\ "lose" \in Faults /\ lost < MaxLost
    /\ lost' = lost + 1
    /\ pending' = SubSeq(pending, 1, i - 1) \o SubSeq(pending, i + 1, Len(pending))
    /\ UNCHANGED <<dq, log, phase, restarts, passed>>

\* warm_from_log: every row of the last day, whatever its status, is counted in
\* these buckets; all but those of the catalog count for the sample's IP limit.
CountedIn(q) ==
    (IF q.key # NoPrefix THEN {<<"key", q.key>>} ELSE {})
      \cup {<<IF q.endpoint = "catalog" THEN "catalog" ELSE "ip", q.ip>>}
      \cup (IF q.endpoint = "sample" THEN {<<"agent", q.agent>>} ELSE {})

WarmUp(b) ==
    LET rows == SelectSeq(log, LAMBDA r : b \in CountedIn(r.req) /\ r.age - (phase % Second) <= Window)
    IN [i \in DOMAIN rows |-> IF rows[i].age > Window THEN Window + 1 ELSE rows[i].age]

\* A new process starts: on a stop the server answers and logs what it has
\* begun, a crash loses it.
StopAndStart ==
    /\ "restart" \in Faults /\ restarts < MaxRestarts
    /\ restarts' = restarts + 1
    /\ pending = <<>>
    /\ dq' = [b \in Buckets |-> WarmUp(b)]
    /\ UNCHANGED <<log, pending, phase, lost, passed>>
Crash ==
    /\ "crash" \in Faults /\ restarts < MaxRestarts
    /\ restarts' = restarts + 1
    /\ pending # <<>> /\ lost + Len(pending) <= MaxLost
    /\ lost' = lost + Len(pending)
    /\ pending' = <<>>
    /\ dq' = [b \in Buckets |-> WarmUp(b)]
    /\ UNCHANGED <<log, phase, passed>>

\* purge_logs compares the rows' "YYYY-MM-DD hh:mm:ss" with "YYYY-MM-DDThh:mm:ssZ":
\* a blank sorts before a T, so all rows of the boundary's date are deleted too.
DeleteThrough(days) ==
    /\ log' = SelectSeq(log, LAMBDA r : r.age <= phase + (days - 1) * Window)
    /\ UNCHANGED <<dq, pending, phase, lost, restarts, passed>>
PurgeOneMore(days) == DeleteThrough(days - 1)          \* mutant: > for >=
Purge(days) == DeleteThrough(days)

Older(a) == IF a > Window THEN a ELSE a + 1

\* Rows that no later warm-up reads are dropped from log.
LogLater ==
    LET rows == SelectSeq(log, LAMBDA r : r.age < Window + Second - 1)
    IN [i \in DOMAIN rows |-> [rows[i] EXCEPT !.age = @ + 1]]

\* A tick of the clock.
ClockTick ==
    /\ phase' = (phase + 1) % Window
    /\ dq' = [b \in Buckets |-> [i \in DOMAIN dq[b] |-> Older(dq[b][i])]]
    /\ passed' = [b \in Buckets |-> Within([i \in DOMAIN passed[b] |-> passed[b][i] + 1], Window)]
    /\ log' = LogLater
    /\ UNCHANGED <<pending, lost, restarts>>

RateNext ==
    \/ \E q \in Request : Serve(q) \/ Refuse(q)
    \/ \E i \in DOMAIN pending : LogRow(i) \/ LoseRow(i)
    \/ StopAndStart \/ Crash
    \/ \E days \in PurgeDays : Purge(days)
    \/ ClockTick

RateSpec == RateInit /\ [][RateNext]_rateVars

-------------------------------------------------------------------------------
\* In one life of the server, no 24 hours see more requests of a key, an IP or
\* a user agent than its limit (FR-013, FR-014, FR-022, FR-032).  "A restart ...
\* preserves the 24h history": neither do they when it is stopped and started, but for
\* one more request for each log row lost to a crash or a failed INSERT, in 24 hours
\* less the fraction of a second that request_log cuts off; and purge-logs, which
\* deletes by date, leaves what a warm-up needs.
WindowCap ==
    \A b \in Buckets :
        IF restarts = 0 THEN Len(passed[b]) <= Limit(b)
        ELSE Len(Within(passed[b], Window - (Second - 1))) <= Limit(b) + lost

\* Retry-After is right to a second, in one life of the server: a client that was
\* refused is served a second after the wait it was told, if nobody else used the
\* bucket, and it was told no more than what was left, or one second.
AfterWait(b, ticks) == LET d == Prune(dq[b]) IN Prune([i \in DOMAIN d |-> d[i] + ticks])
RetryAfterIsNear ==
    \A b \in Buckets : restarts = 0 /\ ~Room(b) =>
        LET wait == RetryAfter(Prune(dq[b]))
        IN /\ Len(AfterWait(b, wait + Second)) < Limit(b)
           /\ wait > Second => Len(AfterWait(b, wait - 1)) = Limit(b)

\* A refusal adds nothing to the wait: in one life of the server a bucket refuses
\* only when its limit has really passed within 24 hours, however often its client
\* came back meanwhile.
RefusedOnlyWhenFull ==
    \A b \in Buckets : restarts = 0 /\ ~Room(b) => Len(passed[b]) = Limit(b)

-------------------------------------------------------------------------------
\* Three statements of the repository that do not hold (see the README).

\* "Retry-After": the wait that a refused client is told is enough.
RetryAfterIsEnough ==
    \A b \in Buckets : ~Room(b) => Len(AfterWait(b, RetryAfter(Prune(dq[b])))) < Limit(b)

\* "rebuilt from request_log on restart": a bucket does not come back fuller
\* than what it had let pass.
WarmCountsPassed ==
    [][StopAndStart \/ Crash => \A b \in Buckets : Len(Prune(WarmUp(b))) <= Len(passed[b])]_rateVars

\* ... and a bucket that had room, as its client was told, has room after it.
RoomSurvives == [][StopAndStart \/ Crash => \A b \in Buckets : Room(b) => Room(b)']_rateVars
===============================================================================
