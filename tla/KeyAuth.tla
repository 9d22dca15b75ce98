-------------------------------- MODULE KeyAuth --------------------------------
(***************************************************************************)
(* API keys: the api_keys table (storage.py: insert_api_key,               *)
(* revoke_api_key), and its validation in the server with a cache of 60 s  *)
(* (auth.py: KeyCache, validate_key; api.py: require_api_key).             *)
(*                                                                         *)
(* Validations run in threads of a pool and share the cache, a dict with   *)
(* no lock: the lookup, the deletion of an expired entry, the SELECT and   *)
(* the store that follows it are steps that others interleave with.  The   *)
(* CLI's revoke is a SELECT and an UPDATE on a connection of its own.      *)
(*                                                                         *)
(* Time is kept as ages and remaining lives in ticks, not as a clock.      *)
(***************************************************************************)
EXTENDS Naturals

CONSTANTS
    Keys,       \* keys that may be issued
    Guesses,    \* strings of the shape of a key that never are
    Prefix,     \* Prefix[k]: the first 8 characters of key k
    Threads,    \* threads of the server's pool
    Operators,  \* CLI processes that revoke keys
    Lives, Life, \* the lifetimes keys are issued with, in ticks, and the longest
    TTL,        \* CACHE_TTL, in ticks
    Prompt,     \* TRUE: a validation's SELECT and store take no time
    NoKey

ASSUME KeyAssumption ==
    /\ Keys \cap Guesses = {} /\ NoKey \notin Keys \cup Guesses
    /\ DOMAIN Prefix = Keys
    /\ Life \in Nat /\ Lives \subseteq 0..Life
    /\ TTL \in Nat
    /\ Prompt \in BOOLEAN

VARIABLES
    row,     \* row[k]: the row of api_keys
    cache,   \* cache[k]: KeyCache._entries
    pc,      \* pc[t]: the next step of thread t
    job,     \* job[t]: the key it validates, what it found, and its answer
    revoke,  \* revoke[o]: the key an operator asked to revoke, and the row found
    dead     \* history: ticks since k was revoked or expired

vars == <<row, cache, pc, job, revoke, dead>>

Presented == Keys \cup Guesses
Bound == 2 * (TTL + 1)          \* of dead: any longer time

Row == [status: {"none", "active", "revoked"}, life: 0..Life]
Entry == [cached: BOOLEAN, valid: BOOLEAN, age: 0..(TTL + 1)]   \* TTL + 1: expired
NoEntry == [cached |-> FALSE, valid |-> FALSE, age |-> 0]
Answers == {"none", "accepted", "unauthorized", "key_revoked_or_expired", "error"}
Job == [key: Presented \cup {NoKey}, valid: BOOLEAN, answer: Answers,
        late: 0..Bound]         \* history: dead[key] when the request came
NoJob == [key |-> NoKey, valid |-> FALSE, answer |-> "none", late |-> 0]
NoRevoke == [asked |-> NoKey, found |-> NoKey]

TypeOK ==
    /\ row \in [Presented -> Row]
    /\ cache \in [Presented -> Entry]
    /\ pc \in [Threads -> {"idle", "drop", "select", "store", "done"}]
    /\ job \in [Threads -> Job]
    /\ revoke \in [Operators -> [asked: Keys \cup {NoKey}, found: Keys \cup {NoKey}]]
    /\ dead \in [Presented -> 0..Bound]

Init ==
    /\ row = [k \in Presented |-> [status |-> "none", life |-> 0]]
    /\ cache = [k \in Presented |-> NoEntry]
    /\ pc = [t \in Threads |-> "idle"]
    /\ job = [t \in Threads |-> NoJob]
    /\ revoke = [o \in Operators |-> NoRevoke]
    /\ dead = [k \in Presented |-> 0]

-------------------------------------------------------------------------------
\* By its row, k may be used.
InForce(k) == row[k].status = "active" /\ row[k].life > 0

\* The checks of validate_key: no row, status = "revoked", expires_at <= now.
PassesUntilExpiry(k) == row[k].status # "none" /\ row[k].life > 0   \* mutant
Passes(k) == row[k].status \notin {"none", "revoked"} /\ row[k].life > 0

\* insert_api_key
CreateKey(k, life) ==
    /\ row[k].status = "none"
    /\ row' = [row EXCEPT ![k] = [status |-> "active", life |-> life]]
    /\ UNCHANGED <<cache, pc, job, revoke, dead>>

\* revoke_api_key: by id or full key any row, by prefix an active one that has
\* the prefix, whichever fetchone returns.
FindRow(o, asked) ==
    /\ revoke[o] = NoRevoke
    /\ row[asked].status # "none"
    /\ \E k \in Keys :
          /\ \/ k = asked
             \/ row[k].status = "active" /\ Prefix[k] = Prefix[asked]
          /\ revoke' = [revoke EXCEPT ![o] = [asked |-> asked, found |-> k]]
    /\ UNCHANGED <<row, cache, pc, job, dead>>

RevokeRow(o) ==
    /\ revoke[o] # NoRevoke
    /\ row' = [row EXCEPT ![revoke[o].found].status = "revoked"]
    /\ revoke' = [revoke EXCEPT ![o] = NoRevoke]
    /\ UNCHANGED <<cache, pc, job, dead>>

-------------------------------------------------------------------------------
Set(t, next, j) == pc' = [pc EXCEPT ![t] = next] /\ job' = [job EXCEPT ![t] = j]
Answer(t, j, a) == Set(t, "done", [j EXCEPT !.answer = a])

\* cache.set: a fresh entry; the clock is read when it is stored.
Store(k, valid) == cache' = [cache EXCEPT ![k] = [cached |-> TRUE, valid |-> valid, age |-> 0]]

\* What the cache says of k, if it says anything.
FreshForEver(k) == cache[k].cached               \* mutant: entries do not expire
Fresh(k) == cache[k].cached /\ cache[k].age <= TTL

\* A request comes with key k; KeyCache.get looks it up. A stale entry is
\* deleted by the next step, and a missing one sends the thread to the table.
Begin(t, k) ==
    LET j == [NoJob EXCEPT !.key = k, !.late = dead[k]]
    IN /\ pc[t] = "idle"
       /\ k \in Guesses \/ row[k].status # "none"
       /\ \/ /\ Fresh(k)
             /\ Answer(t, j, IF cache[k].valid THEN "accepted" ELSE "key_revoked_or_expired")
          \/ /\ cache[k].cached /\ ~Fresh(k)
             /\ Set(t, "drop", j)
          \/ /\ ~cache[k].cached
             /\ Set(t, "select", j)
       /\ UNCHANGED <<row, cache, revoke, dead>>

\* del self._entries[key_hash]: a KeyError when another thread was faster.
Drop(t) ==
    LET k == job[t].key
    IN /\ pc[t] = "drop"
       /\ IF cache[k].cached THEN Set(t, "select", job[t])
          ELSE Answer(t, job[t], "error")
       /\ cache' = [cache EXCEPT ![k] = NoEntry]
       /\ UNCHANGED <<row, revoke, dead>>

\* The SELECT and the two checks of the row it returns. The reason for a refusal
\* depends on whether there was a row.
Select(t) ==
    LET k == job[t].key
    IN /\ pc[t] = "select"
       /\ Set(t, "store",
              [job[t] EXCEPT !.valid = Passes(k),
                             !.answer = IF Passes(k) THEN "accepted"
                                        ELSE IF row[k].status = "none" THEN "unauthorized"
                                        ELSE "key_revoked_or_expired"])
       /\ UNCHANGED <<row, cache, revoke, dead>>

StoreInverted(t) ==                              \* mutant: the checks' result is inverted
    /\ pc[t] = "store"
    /\ Store(job[t].key, ~job[t].valid)
    /\ Set(t, "done", job[t])
    /\ UNCHANGED <<row, revoke, dead>>
StoreResult(t) ==
    /\ pc[t] = "store"
    /\ Store(job[t].key, job[t].valid)
    /\ Set(t, "done", job[t])
    /\ UNCHANGED <<row, revoke, dead>>

\* require_api_key has its answer.
Return(t) ==
    /\ pc[t] = "done"
    /\ Set(t, "idle", NoJob)
    /\ UNCHANGED <<row, cache, revoke, dead>>

\* The server restarts: the cache and the requests in progress are gone.
Restart ==
    /\ cache' = [k \in Presented |-> NoEntry]
    /\ pc' = [t \in Threads |-> "idle"]
    /\ job' = [t \in Threads |-> NoJob]
    /\ UNCHANGED <<row, revoke, dead>>

\* A tick of the clock.
Tick ==
    /\ Prompt => \A t \in Threads : pc[t] # "store"
    /\ row' = [k \in Presented |->
                 [row[k] EXCEPT !.life = IF @ = 0 THEN 0 ELSE @ - 1]]
    /\ cache' = [k \in Presented |->
                   [cache[k] EXCEPT !.age = IF cache[k].cached /\ @ <= TTL THEN @ + 1 ELSE @]]
    /\ dead' = [k \in Presented |->
                  IF row[k].status = "none" \/ InForce(k) \/ dead[k] = Bound THEN dead[k]
                  ELSE dead[k] + 1]
    /\ UNCHANGED <<pc, job, revoke>>

Thread(t) ==
    \/ \E k \in Presented : Begin(t, k)
    \/ Drop(t) \/ Select(t) \/ StoreResult(t) \/ Return(t)

Next ==
    \/ \E k \in Keys, life \in Lives : CreateKey(k, life)
    \/ \E o \in Operators : (\E k \in Keys : FindRow(o, k)) \/ RevokeRow(o)
    \/ \E t \in Threads : Thread(t)
    \/ Restart
    \/ Tick

Spec == Init /\ [][Next]_vars

\* A validation that has begun ends, an answer is returned, and time passes.
\* Nothing is assumed of the operators, of requests, or of restarts.
FairSpec ==
    /\ Spec
    /\ \A t \in Threads : WF_vars(Drop(t) \/ Select(t) \/ StoreResult(t) \/ Return(t))
    /\ WF_vars(Tick)

-------------------------------------------------------------------------------
Answered(t, a) == pc[t] = "done" /\ job[t].answer = a

\* "stale entries expire within 60s": a request that comes more than TTL after
\* its key was revoked or has expired is refused, whatever the threads, the
\* cache and the CLI did in between (FR-017).
RevocationTakesEffect == \A t \in Threads : Answered(t, "accepted") => job[t].late <= TTL

\* A key in force is never refused: no refusal in the cache outlives its cause,
\* since revocation and expiry are for ever.
InForceNotRefused ==
    \A t \in Threads :
        pc[t] = "done" /\ InForce(job[t].key) => job[t].answer \in {"accepted", "error"}

\* A string that was never issued as a key is never accepted.
GuessNeverAccepted ==
    \A t \in Threads : Answered(t, "accepted") => job[t].key \notin Guesses

\* However long a validation stalls, a revoked key is refused for good in the end.
RevokedIsRefused ==
    \A k \in Keys : row[k].status = "revoked"
                        ~> [](\A t \in Threads : ~(Answered(t, "accepted") /\ job[t].key = k))

\* "Revocation invalidates the revoked key's cache entry immediately": a request
\* that comes after the revocation is refused.
RevocationIsImmediate == \A t \in Threads : Answered(t, "accepted") => job[t].late = 0

\* "key_revoked_or_expired: Key revoked or past expires_at": there is such a key.
ReasonIsTrue ==
    \A t \in Threads : Answered(t, "key_revoked_or_expired") => job[t].key \in Keys

\* "key revoke <ident>: revoke a key by id or prefix": the key that was meant.
RevokesTheKeyMeant ==
    [][\A o \in Operators : RevokeRow(o) => row'[revoke[o].asked].status = "revoked"]_vars

\* "All API errors return a flat JSON body": validation raises nothing.
NoUncaughtError == \A t \in Threads : ~Answered(t, "error")
===============================================================================
