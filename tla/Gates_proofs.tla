------------------------------ MODULE Gates_proofs ------------------------------
(***************************************************************************)
(* Proofs about the gates that a request passes before its route runs: its *)
(* key (KeyAuth), for any number of keys, threads and operators, any       *)
(* lifetimes and any cache TTL; and the rolling windows (RateLimit), for   *)
(* any clients, limits and window.  The two specifications have no         *)
(* variable in common.                                                     *)
(***************************************************************************)
EXTENDS KeyAuth, RateLimit, SequenceTheorems, WellFoundedInduction, TLAPS

-------------------------------------------------------------------------------
(* KeyAuth: the keys. *)

\* What the table, the history and the cache say of k fit together: a refusal
\* in the cache is still true, and with prompt validations a fresh acceptance
\* is at least as old as the key has been dead.
KeyOK(k) ==
    /\ k \in Guesses => row[k].status = "none"
    /\ InForce(k) \/ row[k].status = "none" => dead[k] = 0
    /\ cache[k].cached => k \in Guesses \/ row[k].status # "none"
    /\ cache[k].cached /\ cache[k].valid =>
          /\ k \in Keys
          /\ Prompt /\ cache[k].age <= TTL => dead[k] <= cache[k].age
    /\ cache[k].cached /\ ~cache[k].valid => ~InForce(k)

\* What a thread has read of its key: a refusal in hand stays true, and so does
\* an acceptance until it is stored, if the store is prompt.
ThreadOK(t) ==
    LET k == job[t].key
    IN pc[t] # "idle" =>
         /\ k \in Guesses \/ (k \in Keys /\ row[k].status # "none")
         /\ pc[t] \in {"drop", "select", "store"} => job[t].late <= dead[k]
         /\ pc[t] = "store" => /\ job[t].valid <=> job[t].answer = "accepted"
                               /\ job[t].valid /\ Prompt => dead[k] = 0
         /\ pc[t] \in {"store", "done"} =>
               /\ job[t].answer # "none"
               /\ job[t].answer = "accepted" => k \in Keys /\ (Prompt => job[t].late <= TTL)
               /\ job[t].answer \in {"unauthorized", "key_revoked_or_expired"} => ~InForce(k)
         /\ pc[t] = "store" => job[t].answer # "error"

\* A row that an operator has found is the row of an issued key.
OperatorOK(o) ==
    revoke[o] # NoRevoke => revoke[o].found \in Keys /\ row[revoke[o].found].status # "none"

IInv ==
    /\ TypeOK
    /\ \A k \in Presented : KeyOK(k)
    /\ \A t \in Threads : ThreadOK(t)
    /\ \A o \in Operators : OperatorOK(o)

-------------------------------------------------------------------------------
\* An answer changes nothing else of what a thread knows.
LEMMA JobAnswered ==
    ASSUME NEW j \in Job, NEW a \in Answers
    PROVE  LET n == [j EXCEPT !.answer = a]
           IN n \in Job /\ n.answer = a /\ n.key = j.key /\ n.late = j.late
BY DEF Job

\* A new validation knows its key and when it came.
LEMMA JobBegun ==
    ASSUME NEW k \in Presented, NEW d \in 0..Bound
    PROVE  LET n == [NoJob EXCEPT !.key = k, !.late = d]
           IN n \in Job /\ n.key = k /\ n.late = d
BY DEF Job, NoJob, Answers

\* Set moves thread t only.
LEMMA SetFrame ==
    ASSUME TypeOK, NEW t \in Threads, NEW next, NEW j, Set(t, next, j)
    PROVE  /\ pc'[t] = next /\ job'[t] = j
           /\ \A u \in Threads \ {t} : pc'[u] = pc[u] /\ job'[u] = job[u]
           /\ next \in {"idle", "drop", "select", "store", "done"} /\ j \in Job
                 => /\ pc' \in [Threads -> {"idle", "drop", "select", "store", "done"}]
                    /\ job' \in [Threads -> Job]
BY DEF Set, TypeOK

\* A step of thread t that leaves the cache alone keeps the invariant if what t
\* knows afterwards is right.
LEMMA ThreadStep ==
    ASSUME IInv, NEW t \in Threads, UNCHANGED <<row, revoke, dead>>,
           NEW next \in {"idle", "drop", "select", "store", "done"}, NEW j \in Job,
           Set(t, next, j), cache' \in [Presented -> Entry],
           \A k \in Presented : KeyOK(k)',
           ThreadOK(t)'
    PROVE  IInv'
<1>1. TypeOK'
  BY SetFrame DEF IInv, TypeOK
<1>2. ASSUME NEW u \in Threads \ {t} PROVE ThreadOK(u)'
  BY SetFrame DEF IInv, ThreadOK, InForce
<1>3. \A o \in Operators : OperatorOK(o)'
  BY DEF IInv, OperatorOK
<1>4. QED
  BY <1>1, <1>2, <1>3 DEF IInv

\* The keys are not touched by a step that leaves the table and the cache alone.
LEMMA KeysKept ==
    ASSUME IInv, UNCHANGED <<row, dead, cache>>
    PROVE  \A k \in Presented : KeyOK(k)'
BY DEF IInv, KeyOK, InForce

-------------------------------------------------------------------------------
\* Every step keeps the invariant.
LEMMA Step == IInv /\ [Next]_vars => IInv'
<1> SUFFICES ASSUME IInv, [Next]_vars PROVE IInv'
  OBVIOUS
<1> USE KeyAssumption
<1>1. ASSUME NEW k \in Keys, NEW life \in Lives, CreateKey(k, life) PROVE IInv'
  <2>1. /\ row[k].status = "none"
        /\ row' = [row EXCEPT ![k] = [status |-> "active", life |-> life]]
        /\ UNCHANGED <<cache, pc, job, revoke, dead>>
    BY <1>1 DEF CreateKey
  <2>2. /\ row'[k].status = "active"
        /\ \A m \in Presented \ {k} : row'[m] = row[m]
    BY <2>1 DEF IInv, TypeOK, Presented
  <2>3. TypeOK'
    <3>1. [status |-> "active", life |-> life] \in Row
      BY DEF Row
    <3>2. QED
      BY <2>1, <3>1 DEF IInv, TypeOK
  <2>4. k \in Presented /\ k \notin Guesses /\ ~cache[k].cached /\ dead[k] = 0
    BY <2>1 DEF IInv, KeyOK, Presented
  <2>5. ASSUME NEW m \in Presented PROVE KeyOK(m)'
    <3>1. CASE m = k
      BY <2>1, <2>2, <2>4, <3>1 DEF KeyOK
    <3>2. CASE m # k
      BY <2>1, <2>2, <3>2 DEF IInv, KeyOK, InForce
    <3>3. QED
      BY <3>1, <3>2
  <2>6. ASSUME NEW t \in Threads PROVE ThreadOK(t)'
    <3>1. pc[t] # "idle" => job[t].key # k /\ job[t].key \in Presented
      BY <2>1, <2>4 DEF IInv, ThreadOK, Presented
    <3>2. QED
      BY <2>1, <2>2, <3>1 DEF IInv, ThreadOK, InForce
  <2>7. ASSUME NEW o \in Operators PROVE OperatorOK(o)'
    BY <2>1, <2>2 DEF IInv, OperatorOK, Presented
  <2>8. QED
    BY <2>3, <2>5, <2>6, <2>7 DEF IInv
<1>2. ASSUME NEW o \in Operators, NEW asked \in Keys, FindRow(o, asked) PROVE IInv'
  <2>1. PICK k \in Keys :
          /\ k = asked \/ row[k].status = "active"
          /\ revoke' = [revoke EXCEPT ![o] = [asked |-> asked, found |-> k]]
    BY <1>2 DEF FindRow
  <2>2. UNCHANGED <<row, cache, pc, job, dead>> /\ row[k].status # "none"
    BY <1>2, <2>1 DEF FindRow
  <2>3. TypeOK'
    BY <2>1, <2>2 DEF IInv, TypeOK
  <2>4. \A m \in Presented : KeyOK(m)'
    BY <2>2, KeysKept
  <2>5. \A t \in Threads : ThreadOK(t)'
    BY <2>2 DEF IInv, ThreadOK, InForce
  <2>6. ASSUME NEW p \in Operators PROVE OperatorOK(p)'
    BY <2>1, <2>2 DEF IInv, OperatorOK, TypeOK
  <2>7. QED
    BY <2>3, <2>4, <2>5, <2>6 DEF IInv
<1>3. ASSUME NEW o \in Operators, RevokeRow(o) PROVE IInv'
  <2> DEFINE k == revoke[o].found
  <2>1. /\ row' = [row EXCEPT ![k].status = "revoked"]
        /\ revoke' = [revoke EXCEPT ![o] = NoRevoke]
        /\ UNCHANGED <<cache, pc, job, dead>>
    BY <1>3 DEF RevokeRow
  <2>2. k \in Keys /\ k \in Presented /\ row[k].status # "none" /\ row[k] \in Row
    BY <1>3 DEF RevokeRow, IInv, OperatorOK, Presented, TypeOK
  <2>3. /\ row'[k].status = "revoked"
        /\ \A m \in Presented \ {k} : row'[m] = row[m]
    BY <2>1, <2>2 DEF IInv, TypeOK, Row
  <2>4. TypeOK'
    <3>1. [row[k] EXCEPT !.status = "revoked"] \in Row
      BY <2>2 DEF Row
    <3>2. row' \in [Presented -> Row]
      BY <2>1, <2>2, <3>1 DEF IInv, TypeOK
    <3>3. revoke' \in [Operators -> [asked: Keys \cup {NoKey}, found: Keys \cup {NoKey}]]
      BY <2>1 DEF IInv, TypeOK, NoRevoke
    <3>4. QED
      BY <2>1, <3>2, <3>3 DEF IInv, TypeOK
  <2>5. ASSUME NEW m \in Presented PROVE KeyOK(m)'
    <3>1. CASE m = k
      BY <2>1, <2>2, <2>3, <3>1 DEF IInv, KeyOK, InForce
    <3>2. CASE m # k
      BY <2>1, <2>3, <3>2 DEF IInv, KeyOK, InForce
    <3>3. QED
      BY <3>1, <3>2
  <2>6. ASSUME NEW t \in Threads PROVE ThreadOK(t)'
    <3>1. \A m \in Presented : /\ InForce(m)' => InForce(m)
                               /\ row[m].status # "none" => row'[m].status # "none"
      BY <2>2, <2>3 DEF InForce
    <3>2. QED
      BY <2>1, <3>1 DEF IInv, ThreadOK, Presented
  <2>7. ASSUME NEW p \in Operators PROVE OperatorOK(p)'
    <3>1. revoke'[p] = IF p = o THEN NoRevoke ELSE revoke[p]
      BY <2>1 DEF IInv, TypeOK
    <3>2. QED
      BY <2>2, <2>3, <3>1 DEF IInv, OperatorOK, Presented
  <2>8. QED
    BY <2>4, <2>5, <2>6, <2>7 DEF IInv
<1>4. ASSUME NEW t \in Threads, NEW k \in Presented, Begin(t, k) PROVE IInv'
  <2> DEFINE j == [NoJob EXCEPT !.key = k, !.late = dead[k]]
  <2>1. j \in Job /\ j.key = k /\ j.late = dead[k]
    BY JobBegun DEF IInv, TypeOK
  <2> HIDE DEF j
  <2>2. /\ UNCHANGED <<row, cache, revoke, dead>>
        /\ k \in Guesses \/ (k \in Keys /\ row[k].status # "none")
        /\ cache' \in [Presented -> Entry] /\ \A m \in Presented : KeyOK(m)'
    BY <1>4, KeysKept DEF Begin, IInv, TypeOK, Presented
  <2>3. KeyOK(k) /\ dead[k] \in 0..Bound
    BY DEF IInv, TypeOK
  <2>4. ASSUME NEW a \in {"accepted", "key_revoked_or_expired"}, Fresh(k), Answer(t, j, a),
               a = "accepted" <=> cache[k].valid
        PROVE  IInv'
    <3> DEFINE n == [j EXCEPT !.answer = a]
    <3>0. a \in Answers
      BY DEF Answers
    <3>1. n \in Job /\ n.answer = a /\ n.key = k /\ n.late = dead[k]
      BY <2>1, <3>0, JobAnswered
    <3> HIDE DEF n
    <3>2. Set(t, "done", n)
      BY <2>4 DEF Answer, n
    <3>3. pc'[t] = "done" /\ job'[t] = n
      BY <3>2, SetFrame DEF IInv
    <3>4. a = "accepted" => k \in Keys /\ (Prompt => dead[k] <= TTL)
      BY <2>3, <2>4 DEF KeyOK, Fresh, IInv, TypeOK, Entry
    <3>5. a = "key_revoked_or_expired" => ~InForce(k)
      BY <2>3, <2>4 DEF KeyOK, Fresh, IInv, TypeOK, Entry
    <3>6. ThreadOK(t)'
      BY <2>2, <3>1, <3>3, <3>4, <3>5 DEF ThreadOK, InForce
    <3>7. QED
      BY <2>2, <3>1, <3>2, <3>6, ThreadStep
  <2>5. ASSUME NEW next \in {"drop", "select"}, Set(t, next, j) PROVE IInv'
    <3>1. pc'[t] = next /\ job'[t] = j
      BY <2>5, SetFrame DEF IInv
    <3>2. ThreadOK(t)'
      BY <2>1, <2>2, <2>3, <3>1 DEF ThreadOK
    <3>3. QED
      BY <2>1, <2>2, <2>5, <3>2, ThreadStep
  <2>6. \/ Fresh(k) /\ Answer(t, j, IF cache[k].valid THEN "accepted" ELSE "key_revoked_or_expired")
        \/ Set(t, "drop", j)
        \/ Set(t, "select", j)
    BY <1>4 DEF Begin, j
  <2>7. QED
    BY <2>4, <2>5, <2>6
<1>5. ASSUME NEW t \in Threads, Drop(t) PROVE IInv'
  <2> DEFINE k == job[t].key
  <2>1. /\ pc[t] = "drop" /\ UNCHANGED <<row, revoke, dead>>
        /\ cache' = [cache EXCEPT ![k] = NoEntry]
        /\ ThreadOK(t) /\ k \in Presented /\ job[t] \in Job
    BY <1>5 DEF Drop, IInv, ThreadOK, TypeOK, Presented
  <2>2. cache' \in [Presented -> Entry]
    BY <2>1 DEF NoEntry, Entry, IInv, TypeOK
  <2>3. ASSUME NEW m \in Presented PROVE KeyOK(m)'
    <3>1. cache'[m] = IF m = k THEN NoEntry ELSE cache[m]
      BY <2>1 DEF IInv, TypeOK
    <3>2. QED
      BY <2>1, <3>1 DEF IInv, KeyOK, InForce, NoEntry
  <2>4. CASE Set(t, "select", job[t])
    <3>1. pc'[t] = "select" /\ job'[t] = job[t]
      BY <2>4, SetFrame DEF IInv
    <3>2. ThreadOK(t)'
      BY <2>1, <3>1 DEF ThreadOK
    <3>3. QED
      BY <2>1, <2>2, <2>3, <2>4, <3>2, ThreadStep
  <2>5. CASE Answer(t, job[t], "error")
    <3> DEFINE n == [job[t] EXCEPT !.answer = "error"]
    <3>1. n \in Job /\ n.answer = "error" /\ n.key = k
      BY <2>1, JobAnswered DEF Answers
    <3> HIDE DEF n
    <3>2. Set(t, "done", n)
      BY <2>5 DEF Answer, n
    <3>3. pc'[t] = "done" /\ job'[t] = n
      BY <3>2, SetFrame DEF IInv
    <3>4. ThreadOK(t)'
      BY <2>1, <3>1, <3>3 DEF ThreadOK
    <3>5. QED
      BY <2>1, <2>2, <2>3, <3>1, <3>2, <3>4, ThreadStep
  <2>6. QED
    BY <1>5, <2>4, <2>5 DEF Drop
<1>6. ASSUME NEW t \in Threads, Select(t) PROVE IInv'
  <2> DEFINE k == job[t].key
             a == IF Passes(k) THEN "accepted"
                  ELSE IF row[k].status = "none" THEN "unauthorized"
                  ELSE "key_revoked_or_expired"
             n == [job[t] EXCEPT !.valid = Passes(k), !.answer = a]
  <2>1. /\ pc[t] = "select" /\ UNCHANGED <<row, cache, revoke, dead>>
        /\ Set(t, "store", n)
        /\ ThreadOK(t) /\ k \in Presented /\ job[t] \in Job
    BY <1>6 DEF Select, IInv, ThreadOK, TypeOK, Presented
  <2>2. /\ Passes(k) <=> InForce(k)
        /\ Passes(k) \in BOOLEAN /\ a \in Answers /\ a \notin {"none", "error"}
    <3>1. row[k].status \in {"none", "active", "revoked"}
      BY <2>1 DEF IInv, TypeOK, Row
    <3>2. QED
      BY <3>1 DEF Passes, InForce, Answers
  <2>3. a = "accepted" <=> InForce(k)
    BY <2>2
  <2>4. n \in Job /\ n.answer = a /\ n.key = k /\ n.late = job[t].late /\ (n.valid <=> InForce(k))
    <3>1. ASSUME NEW b \in BOOLEAN, NEW c \in Answers
          PROVE  LET m == [job[t] EXCEPT !.valid = b, !.answer = c]
                 IN m \in Job /\ m.answer = c /\ m.key = k /\ m.late = job[t].late /\ m.valid = b
      BY <2>1 DEF Job
    <3> HIDE DEF a
    <3>2. QED
      BY <2>2, <3>1
  <2>5. InForce(k) => k \in Keys /\ dead[k] = 0 /\ job[t].late = 0
    <3>1. job[t].late \in 0..Bound /\ job[t].late <= dead[k]
      BY <2>1 DEF ThreadOK, Job
    <3>2. InForce(k) => k \in Keys /\ dead[k] = 0
      BY <2>1 DEF IInv, KeyOK, InForce, Presented
    <3>3. QED
      BY <3>1, <3>2
  <2>6. pc'[t] = "store" /\ job'[t] = n
    BY <2>1, SetFrame DEF IInv
  <2> HIDE DEF a, n
  <2>7. ThreadOK(t)'
    BY <2>1, <2>2, <2>3, <2>4, <2>5, <2>6 DEF ThreadOK, InForce
  <2>8. cache' \in [Presented -> Entry] /\ \A m \in Presented : KeyOK(m)'
    BY <2>1, KeysKept DEF IInv, TypeOK
  <2>9. QED
    BY <2>1, <2>4, <2>7, <2>8, ThreadStep
<1>7. ASSUME NEW t \in Threads, StoreResult(t) PROVE IInv'
  <2> DEFINE k == job[t].key
             e == [cached |-> TRUE, valid |-> job[t].valid, age |-> 0]
  <2>1. /\ pc[t] = "store" /\ UNCHANGED <<row, revoke, dead>>
        /\ cache' = [cache EXCEPT ![k] = e]
        /\ Set(t, "done", job[t])
        /\ ThreadOK(t) /\ k \in Presented /\ job[t] \in Job
    BY <1>7 DEF StoreResult, Store, IInv, ThreadOK, TypeOK, Presented
  <2>2. cache' \in [Presented -> Entry]
    <3>1. e \in Entry
      BY <2>1 DEF Entry, Job
    <3>2. QED
      BY <2>1, <3>1 DEF IInv, TypeOK
  <2>3. ASSUME NEW m \in Presented PROVE KeyOK(m)'
    <3>1. CASE m # k
      BY <2>1, <3>1 DEF IInv, KeyOK, InForce, TypeOK
    <3>2. CASE m = k
      <4>1. cache'[k] = e /\ KeyOK(k) /\ job[t].answer \in Answers
        BY <2>1 DEF IInv, TypeOK, Job
      <4>2. ~job[t].valid => ~InForce(k)
        BY <2>1, <4>1 DEF ThreadOK, Answers
      <4>3. job[t].valid => k \in Keys /\ (Prompt => dead[k] = 0)
        BY <2>1 DEF ThreadOK
      <4>4. QED
        BY <2>1, <3>2, <4>1, <4>2, <4>3 DEF KeyOK, ThreadOK, InForce
    <3>3. QED
      BY <3>1, <3>2
  <2>4. pc'[t] = "done" /\ job'[t] = job[t]
    BY <2>1, SetFrame DEF IInv
  <2>5. ThreadOK(t)'
    BY <2>1, <2>4 DEF ThreadOK, InForce
  <2>6. QED
    BY <2>1, <2>2, <2>3, <2>5, ThreadStep
<1>8. ASSUME NEW t \in Threads, Return(t) PROVE IInv'
  <2>1. Set(t, "idle", NoJob) /\ UNCHANGED <<row, cache, revoke, dead>>
    BY <1>8 DEF Return
  <2>2. NoJob \in Job
    BY DEF NoJob, Job, Answers, Bound
  <2>3. ThreadOK(t)'
    BY <2>1, SetFrame DEF IInv, ThreadOK
  <2>4. cache' \in [Presented -> Entry] /\ \A m \in Presented : KeyOK(m)'
    BY <2>1, KeysKept DEF IInv, TypeOK
  <2>5. QED
    BY <2>1, <2>2, <2>3, <2>4, ThreadStep
<1>9. CASE Restart
  <2>1. NoEntry \in Entry /\ NoJob \in Job
    BY DEF NoEntry, Entry, NoJob, Job, Answers, Bound
  <2>2. TypeOK'
    BY <1>9, <2>1 DEF Restart, IInv, TypeOK
  <2>3. \A k \in Presented : KeyOK(k)'
    BY <1>9 DEF Restart, IInv, KeyOK, InForce, NoEntry
  <2>4. \A t \in Threads : ThreadOK(t)'
    BY <1>9 DEF Restart, ThreadOK
  <2>5. \A o \in Operators : OperatorOK(o)'
    BY <1>9 DEF Restart, IInv, OperatorOK
  <2>6. QED
    BY <2>2, <2>3, <2>4, <2>5 DEF IInv
<1>10. CASE Tick
  <2>1. /\ Prompt => \A t \in Threads : pc[t] # "store"
        /\ UNCHANGED <<pc, job, revoke>>
    BY <1>10 DEF Tick
  <2>2. ASSUME NEW k \in Presented
        PROVE  /\ row'[k] \in Row
               /\ row'[k].status = row[k].status
               /\ InForce(k)' => InForce(k)
    <3>1. row'[k] = [row[k] EXCEPT !.life = IF @ = 0 THEN 0 ELSE @ - 1] /\ row[k] \in Row
      BY <1>10 DEF Tick, IInv, TypeOK
    <3>2. QED
      BY <3>1 DEF Row, InForce
  <2>3. ASSUME NEW k \in Presented
        PROVE  /\ cache'[k] \in Entry
               /\ cache'[k].cached = cache[k].cached /\ cache'[k].valid = cache[k].valid
               /\ cache[k].cached => IF cache[k].age <= TTL THEN cache'[k].age = cache[k].age + 1
                                     ELSE cache'[k].age = cache[k].age
    <3>1. /\ cache'[k] = [cache[k] EXCEPT !.age = IF cache[k].cached /\ @ <= TTL THEN @ + 1 ELSE @]
          /\ cache[k] \in Entry
      BY <1>10 DEF Tick, IInv, TypeOK
    <3>2. QED
      BY <3>1 DEF Entry
  <2>4. ASSUME NEW k \in Presented
        PROVE  /\ dead'[k] \in 0..Bound /\ dead[k] <= dead'[k] /\ dead'[k] <= dead[k] + 1
               /\ InForce(k) \/ row[k].status = "none" => dead'[k] = dead[k]
    <3>1. /\ dead'[k] = IF row[k].status = "none" \/ InForce(k) \/ dead[k] = Bound
                        THEN dead[k] ELSE dead[k] + 1
          /\ dead[k] \in 0..Bound /\ Bound \in Nat
      BY <1>10 DEF Tick, IInv, TypeOK, Bound
    <3>2. QED
      BY <3>1
  <2>5. TypeOK'
    <3>1. /\ row' \in [Presented -> Row] /\ cache' \in [Presented -> Entry]
          /\ dead' \in [Presented -> 0..Bound]
      BY <1>10, <2>2, <2>3, <2>4 DEF Tick
    <3>2. QED
      BY <2>1, <3>1 DEF IInv, TypeOK
  <2>6. ASSUME NEW k \in Presented PROVE KeyOK(k)'
    <3>1. KeyOK(k) /\ cache[k] \in Entry /\ dead[k] \in 0..Bound /\ Bound \in Nat
      BY DEF IInv, TypeOK, Bound
    <3>2. /\ k \in Guesses => row'[k].status = "none"
          /\ InForce(k)' \/ row'[k].status = "none" => dead'[k] = 0
          /\ cache'[k].cached => k \in Guesses \/ row'[k].status # "none"
          /\ cache'[k].cached /\ ~cache'[k].valid => ~InForce(k)'
      BY <2>2, <2>3, <2>4, <3>1 DEF KeyOK
    <3>3. cache'[k].cached /\ cache'[k].valid =>
             /\ k \in Keys
             /\ Prompt /\ cache'[k].age <= TTL => dead'[k] <= cache'[k].age
      BY <2>3, <2>4, <3>1 DEF KeyOK, Entry
    <3>4. QED
      BY <3>2, <3>3 DEF KeyOK
  <2>7. ASSUME NEW t \in Threads PROVE ThreadOK(t)'
    <3>1. CASE pc[t] = "idle"
      BY <2>1, <3>1 DEF ThreadOK
    <3>2. CASE pc[t] # "idle"
      <4>1. job[t].key \in Presented /\ job[t] \in Job /\ dead[job[t].key] \in 0..Bound
        BY <3>2 DEF IInv, ThreadOK, TypeOK, Presented
      <4>2. job[t].late \in 0..Bound
        BY <4>1 DEF Job
      <4>3. /\ dead[job[t].key] <= dead'[job[t].key] /\ dead'[job[t].key] \in 0..Bound
            /\ row'[job[t].key].status = row[job[t].key].status
            /\ InForce(job[t].key)' => InForce(job[t].key)
        BY <2>1, <2>2, <2>4, <4>1
      <4>4. QED
        BY <2>1, <3>2, <4>1, <4>2, <4>3 DEF IInv, ThreadOK
    <3>3. QED
      BY <3>1, <3>2
  <2>8. \A o \in Operators : OperatorOK(o)'
    BY <2>1, <2>2 DEF IInv, OperatorOK, Presented
  <2>9. QED
    BY <2>5, <2>6, <2>7, <2>8 DEF IInv
<1>11. CASE UNCHANGED vars
  BY <1>11 DEF vars, IInv, TypeOK, KeyOK, ThreadOK, OperatorOK, InForce
<1>12. QED
  BY <1>1, <1>2, <1>3, <1>4, <1>5, <1>6, <1>7, <1>8, <1>9, <1>10, <1>11 DEF Next, Thread

\* No key is issued and nothing is cached at first.
LEMMA Start == Init => IInv
<1> SUFFICES ASSUME Init PROVE IInv
  OBVIOUS
<1> USE KeyAssumption DEF Init
<1>1. TypeOK
  <2>1. NoEntry \in Entry /\ NoJob \in Job /\ [status |-> "none", life |-> 0] \in Row
    BY DEF NoEntry, Entry, NoJob, Job, Answers, Bound, Row
  <2>2. QED
    BY <2>1 DEF TypeOK, NoRevoke, Bound
<1>2. QED
  BY <1>1 DEF IInv, KeyOK, ThreadOK, OperatorOK, InForce, NoEntry, NoRevoke

\* The invariant holds for any number of threads, keys and operators.
THEOREM Invariance == Spec => []IInv
BY Start, Step, PTL DEF Spec

\* Types of the table, the cache and the threads' local state.
THEOREM TypeCorrect == Spec => []TypeOK
<1>1. IInv => TypeOK
  BY DEF IInv
<1>2. QED
  BY <1>1, Invariance, PTL

\* A key in force is never refused, whatever entries other threads store, drop
\* and read meanwhile.
THEOREM KeysInForceServed == Spec => []InForceNotRefused
<1>1. IInv => InForceNotRefused
  <2> SUFFICES ASSUME IInv, NEW t \in Threads, pc[t] = "done", InForce(job[t].key)
               PROVE  job[t].answer \in {"accepted", "error"}
    BY DEF InForceNotRefused
  <2>1. ThreadOK(t) /\ job[t] \in Job
    BY DEF IInv, TypeOK
  <2>2. job[t].answer \in Answers
    BY <2>1 DEF Job
  <2>3. QED
    BY <2>1, <2>2 DEF ThreadOK, Answers
<1>2. QED
  BY <1>1, Invariance, PTL

\* What was never issued is never accepted.
THEOREM GuessesRefused == Spec => []GuessNeverAccepted
<1>1. IInv => GuessNeverAccepted
  BY KeyAssumption DEF IInv, ThreadOK, GuessNeverAccepted, Answered
<1>2. QED
  BY <1>1, Invariance, PTL

\* If a validation's SELECT and store are prompt, no request that comes more than
\* TTL after its key's revocation or expiry is accepted.
THEOREM RevocationWithinTTL == Prompt => (Spec => []RevocationTakesEffect)
<1>1. Prompt /\ IInv => RevocationTakesEffect
  BY DEF IInv, ThreadOK, RevocationTakesEffect, Answered
<1>2. ASSUME Prompt PROVE Spec => []RevocationTakesEffect
  <2>1. IInv => RevocationTakesEffect
    BY <1>1, <1>2
  <2>2. QED
    BY <2>1, Invariance, PTL
<1>3. QED
  BY <1>2

-------------------------------------------------------------------------------
(* RateLimit: the windows in one life of the server. *)

\* The oldest request comes first.
Oldest1st(d) == \A i, j \in 1..Len(d) : i <= j => d[i] >= d[j]

\* In one life a window holds what its bucket has let pass, oldest first; what is
\* older than a day may be in it still, until it is pruned.
WindowOK(b) ==
    /\ dq[b] \in Seq(Ages) /\ Oldest1st(dq[b])
    /\ passed[b] = Prune(dq[b])
    /\ Len(passed[b]) <= Limit(b)

LifeInv ==
    /\ restarts \in Nat
    /\ restarts = 0 => /\ dq \in [Buckets -> Seq(Ages)] /\ passed \in [Buckets -> Seq(Nat)]
                       /\ \A b \in Buckets : WindowOK(b)

-------------------------------------------------------------------------------
\* A set of indices has a least one.
LEMMA LeastIndex ==
    ASSUME NEW S \in SUBSET Nat, S # {}
    PROVE  \E v \in S : \A w \in S : v <= w
<1> DEFINE R == OpToRel(<, Nat)
<1>1. IsWellFoundedOn(R, Nat)
  BY NatLessThanWellFounded
<1>2. \A v, w \in Nat : w < v => <<w, v>> \in R
  BY DEF OpToRel
<1> HIDE DEF R
<1>3. PICK v \in S : \A w \in S : ~ (<<w, v>> \in R)
  BY <1>1, WFMin
<1>4. \A w \in S : ~ (w < v)
  BY <1>2, <1>3
<1>5. QED
  BY <1>4

\* n is the number of entries of d that are popped, and e what is left.
Popped(d, limit, n, e) ==
    /\ n \in 0..Len(d)
    /\ \A i \in 1..n : d[i] > limit
    /\ \A i \in (n + 1)..Len(d) : d[i] <= limit
    /\ e \in Seq(Nat) /\ Len(e) = Len(d) - n
    /\ \A i \in 1..Len(e) : e[i] = d[n + i]

\* Within pops the entries that are too old, and none else, when the oldest come first.
LEMMA WithinPops ==
    ASSUME NEW d \in Seq(Nat), Oldest1st(d), NEW limit \in Int
    PROVE  \E n \in Nat : Popped(d, limit, n, Within(d, limit))
<1>1. DOMAIN d = 1..Len(d) /\ Len(d) \in Nat /\ \A i \in 1..Len(d) : d[i] \in Nat
  BY LenProperties, ElementOfSeq
<1>2. CASE \A i \in DOMAIN d : d[i] > limit
  <2>1. Within(d, limit) = <<>>
    BY <1>2 DEF Within
  <2>2. Popped(d, limit, Len(d), <<>>)
    BY <1>1, <1>2, EmptySeq DEF Popped
  <2>3. QED
    BY <1>1, <2>1, <2>2
<1>3. CASE \E i \in DOMAIN d : ~ (d[i] > limit)
  <2> DEFINE first == CHOOSE i \in DOMAIN d : d[i] <= limit /\ \A k \in 1..(i - 1) : d[k] > limit
             S == {i \in DOMAIN d : d[i] <= limit}
  <2>1. S \in SUBSET Nat /\ S # {}
    BY <1>1, <1>3
  <2>2. PICK v \in S : \A w \in S : v <= w
    BY <2>1, LeastIndex
  <2>3. \A k \in 1..(v - 1) : d[k] > limit
    BY <1>1, <2>2
  <2>4. /\ first \in DOMAIN d
        /\ d[first] <= limit /\ \A k \in 1..(first - 1) : d[k] > limit
    BY <2>2, <2>3
  <2>5. Within(d, limit) = SubSeq(d, first, Len(d))
    BY <1>3 DEF Within
  <2> HIDE DEF first
  <2>6. \A i \in first..Len(d) : d[i] \in Nat
    BY <1>1, <2>4
  <2>7. first \in 1..Len(d) /\ first \in Int /\ Len(d) \in Int
    BY <1>1, <2>4
  <2> DEFINE e == SubSeq(d, first, Len(d))
  <2>8. /\ e \in Seq(Nat) /\ Len(e) = Len(d) - first + 1
        /\ \A i \in 1..(Len(d) - first + 1) : e[i] = d[first + i - 1]
    BY <2>6, <2>7, SubSeqProperties
  <2>9. \A i \in first..Len(d) : d[i] <= limit
    BY <1>1, <2>4, <2>7 DEF Oldest1st
  <2> HIDE DEF e
  <2>10. Popped(d, limit, first - 1, e)
    <3>1. \A i \in 1..Len(e) : e[i] = d[(first - 1) + i]
      BY <2>7, <2>8
    <3>2. Len(e) = Len(d) - (first - 1) /\ first - 1 \in 0..Len(d)
      BY <2>7, <2>8
    <3>3. \A i \in 1..(first - 1) : d[i] > limit
      BY <2>4
    <3>4. \A i \in (first - 1 + 1)..Len(d) : d[i] <= limit
      BY <2>7, <2>9
    <3>5. QED
      BY <2>8, <3>1, <3>2, <3>3, <3>4 DEF Popped
  <2>11. QED
    BY <2>5, <2>7, <2>10 DEF e
<1>4. QED
  BY <1>2, <1>3

\* That determines what is left.
LEMMA PoppedOnce ==
    ASSUME NEW d \in Seq(Nat), NEW limit \in Int, NEW m \in Nat, NEW n \in Nat,
           NEW e, NEW f, Popped(d, limit, m, e), Popped(d, limit, n, f)
    PROVE  m = n /\ e = f
<1>1. Len(d) \in Nat /\ \A i \in 1..Len(d) : d[i] \in Nat
  BY LenProperties, ElementOfSeq
<1>2. m = n
  <2>1. ~ (m < n)
    BY <1>1 DEF Popped
  <2>2. ~ (n < m)
    BY <1>1 DEF Popped
  <2>3. QED
    BY <2>1, <2>2
<1>3. e \in Seq(Nat) /\ f \in Seq(Nat) /\ Len(e) = Len(f) /\ \A i \in 1..Len(e) : e[i] = f[i]
  BY <1>2 DEF Popped
<1>4. QED
  BY <1>2, <1>3, SeqEqual

\* What is popped once is popped: what has no older entry is left as it is, and
\* what is left of it keeps its order.
LEMMA PrunedStays ==
    ASSUME NEW d \in Seq(Nat), Oldest1st(d), NEW limit \in Int
    PROVE  /\ Within(d, limit) \in Seq(Nat) /\ Oldest1st(Within(d, limit))
           /\ \A i \in 1..Len(Within(d, limit)) : Within(d, limit)[i] <= limit
           /\ Len(Within(d, limit)) <= Len(d)
<1>1. PICK n \in Nat : Popped(d, limit, n, Within(d, limit))
  BY WithinPops
<1>2. Len(d) \in Nat /\ Len(Within(d, limit)) \in Nat /\ DOMAIN d = 1..Len(d)
      /\ DOMAIN Within(d, limit) = 1..Len(Within(d, limit))
  BY <1>1, LenProperties DEF Popped
<1> DEFINE e == Within(d, limit)
<1>3. /\ Popped(d, limit, n, e) /\ Len(e) \in Nat /\ \A i \in 1..Len(d) : d[i] \in Nat
  BY <1>1, <1>2
<1> HIDE DEF e
<1>4. e \in Seq(Nat) /\ Len(e) <= Len(d) /\ \A i \in 1..Len(e) : e[i] <= limit
  BY <1>2, <1>3 DEF Popped
<1>5. Oldest1st(e)
  BY <1>2, <1>3 DEF Popped, Oldest1st
<1>6. QED
  BY <1>4, <1>5 DEF e

LEMMA NothingToPop ==
    ASSUME NEW d \in Seq(Nat), Oldest1st(d), NEW limit \in Int,
           \A i \in 1..Len(d) : d[i] <= limit
    PROVE  Within(d, limit) = d
<1>1. PICK n \in Nat : Popped(d, limit, n, Within(d, limit))
  BY WithinPops
<1>2. Len(d) \in Nat
  BY LenProperties
<1>3. Popped(d, limit, 0, d)
  BY <1>2 DEF Popped
<1>4. QED
  BY <1>1, <1>3, PoppedOnce

-------------------------------------------------------------------------------
\* A day is a positive number of ticks.
LEMMA WindowType == Window \in Nat /\ Window > 0
<1>1. \A m, n \in Nat \ {0} : m * n \in Nat /\ m * n > 0
  OBVIOUS
<1>2. QED
  BY <1>1, RateAssumption DEF Window

\* Ages are numbers, and every bucket has a limit.
LEMMA AgesType == Ages \subseteq Nat /\ 0 \in Ages
BY WindowType DEF Ages

LEMMA LimitType ==
    ASSUME NEW b \in Buckets
    PROVE  Limit(b) \in Nat /\ Limit(b) > 0
BY RateAssumption DEF Buckets, Limit

\* A request that passes comes last in its window.
LEMMA PassedLast ==
    ASSUME NEW d \in Seq(Nat), Oldest1st(d), \A i \in 1..Len(d) : d[i] <= Window
    PROVE  LET e == Append(d, 0)
           IN e \in Seq(Nat) /\ Len(e) = Len(d) + 1 /\ Oldest1st(e) /\ Prune(e) = e
<1> DEFINE e == Append(d, 0)
<1>1. Len(d) \in Nat /\ \A i \in 1..Len(d) : d[i] \in Nat
  BY LenProperties, ElementOfSeq
<1>2. /\ e \in Seq(Nat) /\ Len(e) = Len(d) + 1
      /\ \A i \in 1..Len(d) : e[i] = d[i]
      /\ e[Len(d) + 1] = 0
  BY <1>1, AppendProperties
<1> HIDE DEF e
<1>3. \A i \in 1..Len(e) : e[i] <= Window
  BY <1>1, <1>2, WindowType
<1>4. Oldest1st(e)
  BY <1>1, <1>2 DEF Oldest1st
<1>5. Prune(e) = e
  BY <1>2, <1>3, <1>4, NothingToPop, WindowType DEF Prune
<1>6. QED
  BY <1>2, <1>4, <1>5 DEF e

\* Two sequences that age by a tick, one of which is what is left of the other:
\* what is left afterwards is the same.
LEMMA AgedAlike ==
    ASSUME NEW d \in Seq(Ages), Oldest1st(d)
    PROVE  LET aged == [i \in DOMAIN d |-> Older(d[i])]
               p == Prune(d)
           IN /\ aged \in Seq(Ages) /\ Oldest1st(aged)
              /\ Within([i \in DOMAIN p |-> p[i] + 1], Window) = Prune(aged)
<1> DEFINE aged == [i \in DOMAIN d |-> Older(d[i])]
           p == Prune(d)
           later == [i \in DOMAIN p |-> p[i] + 1]
<1>1. /\ d \in Seq(Nat) /\ Len(d) \in Nat /\ DOMAIN d = 1..Len(d)
      /\ \A i \in 1..Len(d) : d[i] \in Ages /\ d[i] \in Nat
  BY LenProperties, ElementOfSeq, SeqMonotonic, AgesType
<1>2. \A a \in Ages : Older(a) \in Ages /\ Older(a) = IF a > Window THEN a ELSE a + 1
  BY WindowType DEF Ages, Older
<1>3. /\ aged \in Seq(Ages) /\ aged \in Seq(Nat) /\ Len(aged) = Len(d)
      /\ \A i \in 1..Len(d) : aged[i] = Older(d[i])
  BY <1>1, <1>2, AgesType
<1>4. PICK n \in Nat : Popped(d, Window, n, p)
  BY <1>1, WindowType, WithinPops DEF Prune
<1>5. p \in Seq(Nat) /\ Len(p) \in Nat /\ DOMAIN p = 1..Len(p) /\ Oldest1st(p)
      /\ \A i \in 1..Len(p) : p[i] \in Nat
  BY <1>1, PrunedStays, WindowType, LenProperties, ElementOfSeq DEF Prune
<1>6. /\ later \in Seq(Nat) /\ Len(later) = Len(p)
      /\ \A i \in 1..Len(p) : later[i] = p[i] + 1
  BY <1>5
<1> HIDE DEF aged, p, later
<1>7. Oldest1st(aged)
  BY <1>1, <1>2, <1>3, WindowType DEF Oldest1st
<1>8. Oldest1st(later)
  BY <1>5, <1>6 DEF Oldest1st
<1>9. PICK m \in Nat : Popped(later, Window, m, Within(later, Window))
  BY <1>6, <1>8, WindowType, WithinPops
<1> DEFINE e == Within(later, Window)
<1> HIDE DEF e
<1>10. Popped(aged, Window, n + m, e)
  <2>1. Popped(later, Window, m, e)
    BY <1>9 DEF e
  <2>2. /\ n \in 0..Len(d) /\ Len(p) = Len(d) - n
        /\ \A i \in 1..n : d[i] > Window
        /\ \A i \in 1..Len(p) : p[i] = d[n + i] /\ d[n + i] <= Window
    BY <1>1, <1>4 DEF Popped
  <2>3. /\ m \in 0..Len(p) /\ Len(e) = Len(p) - m /\ e \in Seq(Nat)
        /\ \A i \in 1..m : later[i] > Window
        /\ \A i \in (m + 1)..Len(p) : later[i] <= Window
        /\ \A i \in 1..Len(e) : e[i] = later[m + i]
    BY <1>5, <1>6, <2>1 DEF Popped
  <2>4. \A i \in 1..n : aged[i] > Window
    BY <1>1, <1>2, <1>3, <2>2
  <2>5. \A i \in 1..Len(p) : aged[n + i] = later[i]
    <3>1. ASSUME NEW i \in 1..Len(p) PROVE aged[n + i] = later[i]
      <4>1. n + i \in 1..Len(d)
        BY <1>1, <2>2, <3>1
      <4>2. p[i] = d[n + i] /\ d[n + i] <= Window
        BY <2>2, <3>1
      <4>3. aged[n + i] = Older(d[n + i]) /\ d[n + i] \in Ages
        BY <1>1, <1>3, <4>1
      <4>4. aged[n + i] = d[n + i] + 1
        <5>1. d[n + i] \in Nat /\ ~ (d[n + i] > Window)
          BY <1>1, <4>1, <4>2, WindowType
        <5>2. QED
          BY <1>2, <4>3, <5>1
      <4>5. QED
        BY <1>6, <3>1, <4>4, <4>2
    <3>2. QED
      BY <3>1
  <2>6. \A i \in 1..(n + m) : aged[i] > Window
    <3>1. ASSUME NEW i \in 1..(n + m), i > n PROVE aged[i] > Window
      <4>1. i - n \in 1..m /\ i - n \in 1..Len(p) /\ n + (i - n) = i
        BY <2>2, <2>3, <3>1
      <4>2. QED
        BY <2>3, <2>5, <4>1
    <3>2. QED
      BY <2>4, <3>1
  <2>7. \A i \in (n + m + 1)..Len(d) : aged[i] <= Window
    <3>1. ASSUME NEW i \in (n + m + 1)..Len(d) PROVE aged[i] <= Window
      <4>1. i - n \in (m + 1)..Len(p) /\ i - n \in 1..Len(p) /\ n + (i - n) = i
        BY <1>1, <2>2, <2>3, <3>1
      <4>2. QED
        BY <2>3, <2>5, <4>1
    <3>2. QED
      BY <3>1
  <2>8. \A i \in 1..Len(e) : e[i] = aged[n + m + i]
    <3>1. ASSUME NEW i \in 1..Len(e) PROVE e[i] = aged[n + m + i]
      <4>1. m + i \in 1..Len(p) /\ n + (m + i) = n + m + i
        BY <1>5, <2>2, <2>3, <3>1
      <4>2. QED
        BY <2>3, <2>5, <4>1
    <3>2. QED
      BY <3>1
  <2>9. n + m \in 0..Len(d) /\ Len(e) = Len(d) - (n + m)
    BY <1>1, <2>2, <2>3
  <2>10. QED
    BY <1>3, <2>3, <2>6, <2>7, <2>8, <2>9 DEF Popped
<1>11. PICK k \in Nat : Popped(aged, Window, k, Prune(aged))
  BY <1>3, <1>7, WindowType, WithinPops DEF Prune
<1>12. Prune(aged) = e
  <2>1. n + m \in Nat
    OBVIOUS
  <2>2. QED
    BY <1>3, <1>10, <1>11, <2>1, WindowType, PoppedOnce
<1>13. QED
  BY <1>3, <1>7, <1>12 DEF aged, p, later, e

-------------------------------------------------------------------------------
\* A gate that a request passes has room.
LEMMA PassingHasRoom ==
    ASSUME NEW q \in Request, NEW b \in Passing(q)
    PROVE  Room(b)
<1>1. DOMAIN Gates(q) \subseteq Nat \ {0}
  BY RateAssumption DEF Request, Gates
<1>2. PICK j \in DOMAIN Gates(q) : b = Gates(q)[j] /\ \A k \in 1..j : Room(Gates(q)[k])
  BY DEF Passing
<1>3. j \in 1..j
  BY <1>1
<1>4. QED
  BY <1>2, <1>3

\* All windows are empty at first.
LEMMA InitLife == RateInit => LifeInv
<1> SUFFICES ASSUME RateInit PROVE LifeInv
  OBVIOUS
<1>1. /\ restarts = 0 /\ dq = [b \in Buckets |-> <<>>]
      /\ passed = [b \in Buckets |-> <<>>]
  BY DEF RateInit
<1>2. <<>> \in Seq(Ages) /\ <<>> \in Seq(Nat) /\ Len(<<>>) = 0
  BY EmptySeq
<1>3. Oldest1st(<<>>) /\ Prune(<<>>) = <<>>
  <2> DEFINE e == <<>>
  <2>1. e \in Seq(Nat) /\ Len(e) = 0
    BY <1>2
  <2> HIDE DEF e
  <2>2. Oldest1st(e) /\ \A i \in 1..Len(e) : e[i] <= Window
    BY <2>1 DEF Oldest1st
  <2>3. Prune(e) = e
    <3>1. e \in Seq(Nat) /\ Oldest1st(e) /\ Window \in Int /\ \A i \in 1..Len(e) : e[i] <= Window
      BY <2>1, <2>2, WindowType
    <3>2. Within(e, Window) = e
      BY <3>1, NothingToPop
    <3>3. QED
      BY <3>2 DEF Prune
  <2>4. QED
    BY <2>2, <2>3 DEF e
<1>4. \A b \in Buckets : WindowOK(b)
  BY <1>1, <1>2, <1>3, LimitType DEF WindowOK
<1>5. QED
  BY <1>1, <1>2, <1>4 DEF LifeInv

\* A request at its gates: what passes is younger than all that the window holds, and
\* comes when there is room.
LEMMA CountLife ==
    ASSUME LifeInv, NEW q \in Request, Count(q)
    PROVE  LifeInv'
<1>1. restarts' = restarts
  BY DEF Count
<1>2. CASE restarts # 0
  BY <1>1, <1>2 DEF LifeInv
<1>3. CASE restarts = 0
  <2>1. /\ dq \in [Buckets -> Seq(Ages)] /\ passed \in [Buckets -> Seq(Nat)]
        /\ \A b \in Buckets : WindowOK(b)
    BY <1>3 DEF LifeInv
  <2>2. ASSUME NEW b \in Buckets
        PROVE  dq'[b] \in Seq(Ages) /\ passed'[b] \in Seq(Nat) /\ WindowOK(b)'
    <3> DEFINE d == dq[b]
               p == Prune(d)
    <3>1. /\ d \in Seq(Ages) /\ d \in Seq(Nat) /\ Oldest1st(d)
          /\ passed[b] = p /\ Len(p) <= Limit(b)
      BY <2>1, AgesType, SeqMonotonic DEF WindowOK
    <3>2. /\ dq'[b] = IF b \in Passing(q) THEN Append(p, 0)
                      ELSE IF b \in Blocking(q) THEN p ELSE d
          /\ passed'[b] = IF b \in Passing(q) THEN Append(passed[b], 0) ELSE passed[b]
      BY <2>1 DEF Count
    <3>3. b \in Passing(q) => Len(p) < Limit(b)
      BY PassingHasRoom DEF Room
    <3> HIDE DEF d, p
    <3>4. /\ p = Within(d, Window) /\ p \in Seq(Nat) /\ Oldest1st(p)
          /\ \A i \in 1..Len(p) : p[i] <= Window
          /\ Len(p) \in Nat /\ Len(d) \in Nat
      BY <3>1, PrunedStays, WindowType, LenProperties DEF Prune, p
    <3>5. p \in Seq(Ages)
      <4>1. p \in [1..Len(p) -> Nat]
        BY <3>4, LenProperties
      <4>2. \A i \in 1..Len(p) : p[i] \in Ages
        BY <3>4, <4>1, WindowType DEF Ages
      <4>3. QED
        BY <3>4, <4>1, <4>2
    <3>6. Prune(p) = p
      BY <3>4, NothingToPop, WindowType DEF Prune
    <3>7. CASE b \in Passing(q)
      <4> DEFINE e == Append(p, 0)
      <4>1. e \in Seq(Nat) /\ Len(e) = Len(p) + 1 /\ Oldest1st(e) /\ Prune(e) = e
        BY <3>4, PassedLast
      <4>2. e \in Seq(Ages)
        BY <3>5, AgesType, AppendProperties
      <4>3. dq'[b] = e /\ passed'[b] = e
        BY <3>1, <3>2, <3>7
      <4> HIDE DEF e
      <4>4. Len(e) <= Limit(b)
        BY <3>3, <3>4, <3>7, <4>1, LimitType
      <4>5. QED
        BY <4>1, <4>2, <4>3, <4>4 DEF WindowOK
    <3>8. CASE b \notin Passing(q) /\ b \in Blocking(q)
      BY <3>1, <3>2, <3>4, <3>5, <3>6, <3>8 DEF WindowOK
    <3>9. CASE b \notin Passing(q) /\ b \notin Blocking(q)
      BY <3>1, <3>2, <3>4, <3>9 DEF WindowOK, p
    <3>10. QED
      BY <3>7, <3>8, <3>9
  <2>3. dq' \in [Buckets -> Seq(Ages)] /\ passed' \in [Buckets -> Seq(Nat)]
    <3>1. dq' = [b \in Buckets |-> dq'[b]] /\ passed' = [b \in Buckets |-> passed'[b]]
      BY DEF Count
    <3>2. QED
      BY <2>2, <3>1
  <2>4. QED
    BY <1>1, <1>3, <2>2, <2>3 DEF LifeInv
<1>4. QED
  BY <1>2, <1>3

\* A tick ages both alike.
LEMMA TickLife ==
    ASSUME LifeInv, ClockTick
    PROVE  LifeInv'
<1>1. restarts' = restarts
  BY DEF ClockTick
<1>2. CASE restarts # 0
  BY <1>1, <1>2 DEF LifeInv
<1>3. CASE restarts = 0
  <2>1. /\ dq \in [Buckets -> Seq(Ages)] /\ passed \in [Buckets -> Seq(Nat)]
        /\ \A b \in Buckets : WindowOK(b)
    BY <1>3 DEF LifeInv
  <2>2. /\ dq' = [b \in Buckets |-> [i \in DOMAIN dq[b] |-> Older(dq[b][i])]]
        /\ passed' = [b \in Buckets |->
                        Within([i \in DOMAIN passed[b] |-> passed[b][i] + 1], Window)]
    BY DEF ClockTick
  <2>3. ASSUME NEW b \in Buckets
        PROVE  dq'[b] \in Seq(Ages) /\ passed'[b] \in Seq(Nat) /\ WindowOK(b)'
    <3> DEFINE p == passed[b]
               later == [i \in DOMAIN p |-> p[i] + 1]
    <3>1. /\ dq[b] \in Seq(Ages) /\ dq[b] \in Seq(Nat) /\ Oldest1st(dq[b])
          /\ p \in Seq(Nat) /\ p = Prune(dq[b]) /\ Len(p) <= Limit(b)
      BY <2>1, AgesType, SeqMonotonic DEF WindowOK
    <3>2. dq'[b] = [i \in DOMAIN dq[b] |-> Older(dq[b][i])] /\ passed'[b] = Within(later, Window)
      BY <2>2
    <3>3. dq'[b] \in Seq(Ages) /\ Oldest1st(dq'[b]) /\ passed'[b] = Prune(dq'[b])
      BY <3>1, <3>2, AgedAlike
    <3>4. Oldest1st(p) /\ Len(p) \in Nat /\ DOMAIN p = 1..Len(p) /\ \A i \in 1..Len(p) : p[i] \in Nat
      BY <3>1, PrunedStays, WindowType, LenProperties, ElementOfSeq DEF Prune
    <3>5. later \in Seq(Nat) /\ Len(later) = Len(p) /\ \A i \in 1..Len(p) : later[i] = p[i] + 1
      BY <3>4
    <3> HIDE DEF p, later
    <3>6. Oldest1st(later)
      BY <3>4, <3>5 DEF Oldest1st
    <3>7. passed'[b] \in Seq(Nat) /\ Len(passed'[b]) <= Len(p)
      BY <3>2, <3>5, <3>6, PrunedStays, WindowType
    <3>8. Len(passed'[b]) \in Nat
      BY <3>7, LenProperties
    <3>9. Len(passed'[b]) <= Limit(b)
      BY <3>1, <3>4, <3>7, <3>8, LimitType
    <3>10. QED
      BY <3>3, <3>7, <3>9 DEF WindowOK, Prune
  <2>4. dq' \in [Buckets -> Seq(Ages)] /\ passed' \in [Buckets -> Seq(Nat)]
    BY <2>2, <2>3
  <2>5. QED
    BY <1>1, <1>3, <2>3, <2>4 DEF LifeInv
<1>4. QED
  BY <1>2, <1>3

\* Every other step leaves the windows as they are, or begins a new life.
LEMMA StepLife ==
    ASSUME LifeInv, [RateNext]_rateVars
    PROVE  LifeInv'
<1>1. ASSUME NEW q \in Request, Serve(q) \/ Refuse(q) PROVE LifeInv'
  BY <1>1, CountLife DEF Serve, Refuse
<1>2. ASSUME UNCHANGED <<dq, restarts, passed>> PROVE LifeInv'
  BY <1>2 DEF LifeInv, WindowOK
<1>3. ASSUME NEW i \in DOMAIN pending, LogRow(i) \/ LoseRow(i) PROVE LifeInv'
  BY <1>2, <1>3 DEF LogRow, LoseRow
<1>4. CASE StopAndStart \/ Crash
  <2>1. restarts \in Nat /\ restarts' = restarts + 1
    BY <1>4 DEF LifeInv, StopAndStart, Crash
  <2>2. QED
    BY <2>1 DEF LifeInv
<1>5. ASSUME NEW days \in PurgeDays, Purge(days) PROVE LifeInv'
  BY <1>2, <1>5 DEF Purge, DeleteThrough
<1>6. CASE ClockTick
  BY <1>6, TickLife
<1>7. CASE UNCHANGED rateVars
  BY <1>2, <1>7 DEF rateVars
<1>8. QED
  BY <1>1, <1>3, <1>4, <1>5, <1>6, <1>7 DEF RateNext

LEMMA OneLife == RateSpec => []LifeInv
BY InitLife, StepLife, PTL DEF RateSpec

\* In one life of the server no bucket lets more requests pass in 24 hours than its limit,
\* for any limits, any number of clients and any order and times of their requests.
THEOREM CapInOneLife == RateSpec => [](restarts = 0 => WindowCap)
<1>1. LifeInv => (restarts = 0 => WindowCap)
  BY DEF LifeInv, WindowOK, WindowCap
<1>2. QED
  BY OneLife, <1>1, PTL

\* As long, a request is refused only when its bucket's limit has passed within 24 hours:
\* refusals are never counted.
THEOREM RefusalsAreDue == RateSpec => []RefusedOnlyWhenFull
<1>1. ASSUME LifeInv, NEW b \in Buckets, restarts = 0, ~Room(b)
      PROVE  Len(passed[b]) = Limit(b)
  <2>1. /\ passed \in [Buckets -> Seq(Nat)] /\ passed[b] = Prune(dq[b])
        /\ Len(passed[b]) <= Limit(b)
    BY <1>1 DEF LifeInv, WindowOK
  <2>2. Len(passed[b]) \in Nat /\ ~ (Len(passed[b]) < Limit(b))
    BY <1>1, <2>1, LenProperties DEF Room
  <2>3. QED
    BY <2>1, <2>2, LimitType
<1>2. LifeInv => RefusedOnlyWhenFull
  BY <1>1 DEF RefusedOnlyWhenFull
<1>3. QED
  BY OneLife, <1>2, PTL

\* A division rounds down by less than the divisor.
LEMMA RoundsDown ==
    ASSUME NEW x \in Nat, NEW m \in Nat \ {0}
    PROVE  x \div m \in Nat /\ m * (x \div m) \in Nat
           /\ m * (x \div m) <= x /\ x < m * (x \div m) + m
OBVIOUS

\* A wait of t ticks ages what the window holds.
Aged(d, t) == [i \in DOMAIN d |-> d[i] + t]

LEMMA AgedType ==
    ASSUME NEW d \in Seq(Nat), Oldest1st(d), NEW t \in Nat
    PROVE  /\ Aged(d, t) \in Seq(Nat) /\ Oldest1st(Aged(d, t)) /\ Len(Aged(d, t)) = Len(d)
           /\ \A i \in 1..Len(d) : Aged(d, t)[i] = d[i] + t
<1>1. Len(d) \in Nat /\ DOMAIN d = 1..Len(d) /\ \A i \in 1..Len(d) : d[i] \in Nat
  BY LenProperties, ElementOfSeq
<1> DEFINE e == Aged(d, t)
<1>2. e \in Seq(Nat) /\ Len(e) = Len(d) /\ \A i \in 1..Len(d) : e[i] = d[i] + t
  BY <1>1 DEF Aged
<1> HIDE DEF e
<1>3. Oldest1st(e)
  BY <1>1, <1>2 DEF Oldest1st
<1>4. QED
  BY <1>2, <1>3 DEF e

\* As long, Retry-After is right to a second: a second after the time it names there is room,
\* and before that time, when it is more than one second, there is none.
THEOREM RetryAfterIsRight == RateSpec => []RetryAfterIsNear
<1>1. ASSUME LifeInv, NEW b \in Buckets, restarts = 0, ~Room(b)
      PROVE  LET wait == RetryAfter(Prune(dq[b]))
             IN /\ Len(AfterWait(b, wait + Second)) < Limit(b)
                /\ wait > Second => Len(AfterWait(b, wait - 1)) = Limit(b)
  <2> DEFINE d == Prune(dq[b])
             wait == RetryAfter(d)
  <2>1. /\ dq[b] \in Seq(Ages) /\ Oldest1st(dq[b]) /\ passed[b] = d /\ Len(passed[b]) <= Limit(b)
        /\ ~ (Len(d) < Limit(b))
    BY <1>1 DEF LifeInv, WindowOK, Room
  <2>2. dq[b] \in Seq(Nat)
    BY <2>1, AgesType, SeqMonotonic
  <2>3. d \in Seq(Nat) /\ Oldest1st(d) /\ \A i \in 1..Len(d) : d[i] <= Window
    BY <2>1, <2>2, PrunedStays, WindowType DEF Prune
  <2>4. \A t \in Nat : AfterWait(b, t) = Within(Aged(d, t), Window)
    BY DEF AfterWait, Prune, Aged
  <2>5. wait = Second * (IF (Window - d[1]) \div Second < 1 THEN 1 ELSE (Window - d[1]) \div Second)
    BY DEF RetryAfter
  <2> HIDE DEF d, wait
  <2>6. /\ Len(d) \in Nat /\ Len(d) = Limit(b) /\ Len(d) > 0
        /\ \A i \in 1..Len(d) : d[i] \in Nat
    BY <2>1, <2>3, LimitType, LenProperties, ElementOfSeq
  <2>7. 1 \in 1..Len(d) /\ d[1] \in Nat /\ d[1] <= Window
    BY <2>3, <2>6
  <2> DEFINE x == Window - d[1]
             k == x \div Second
  <2>8. x \in Nat /\ Second \in Nat \ {0} /\ Second \in Nat /\ Second > 0
    BY <2>7, WindowType, RateAssumption
  <2> HIDE DEF x
  <2>9. k \in Nat /\ Second * k \in Nat /\ Second * k <= x /\ x < Second * k + Second
    BY <2>8, RoundsDown
  <2>10. wait = IF k < 1 THEN Second ELSE Second * k
    BY <2>5, <2>8, <2>9 DEF x
  <2> HIDE DEF k
  <2>11. wait \in Nat /\ wait > 0 /\ x < wait + Second /\ (wait > Second => wait <= x)
    <3>1. CASE k < 1
      <4>1. Second * k = 0
        BY <2>8, <2>9, <3>1
      <4>2. QED
        BY <2>8, <2>9, <2>10, <3>1, <4>1
    <3>2. CASE ~ (k < 1)
      <4>1. Second * k > 0
        BY <2>8, <2>9, <3>2
      <4>2. QED
        BY <2>8, <2>9, <2>10, <3>2, <4>1
    <3>3. QED
      BY <3>1, <3>2
  <2>12. Len(AfterWait(b, wait + Second)) < Limit(b)
    <3> DEFINE t == wait + Second
               e == Aged(d, t)
    <3>1. t \in Nat /\ d[1] + t > Window
      BY <2>7, <2>8, <2>11, WindowType DEF x
    <3> HIDE DEF t
    <3>2. /\ e \in Seq(Nat) /\ Oldest1st(e) /\ Len(e) = Len(d)
          /\ \A i \in 1..Len(d) : e[i] = d[i] + t
      BY <2>3, <3>1, AgedType
    <3>3. AfterWait(b, t) = Within(e, Window)
      BY <2>4, <3>1
    <3> HIDE DEF e
    <3>4. PICK n \in Nat : Popped(e, Window, n, Within(e, Window))
      BY <3>2, WithinPops, WindowType
    <3>5. e[1] > Window
      BY <2>7, <3>1, <3>2
    <3>6. n > 0
      BY <2>6, <2>7, <3>1, <3>2, <3>4, <3>5, WindowType DEF Popped
    <3>7. Len(Within(e, Window)) = Len(d) - n
      BY <3>2, <3>4 DEF Popped
    <3>8. QED
      BY <2>6, <3>3, <3>6, <3>7 DEF t
  <2>13. ASSUME wait > Second PROVE Len(AfterWait(b, wait - 1)) = Limit(b)
    <3> DEFINE t == wait - 1
               e == Aged(d, t)
    <3>1. t \in Nat /\ d[1] + t <= Window
      BY <2>7, <2>8, <2>11, <2>13, WindowType DEF x
    <3> HIDE DEF t
    <3>2. /\ e \in Seq(Nat) /\ Oldest1st(e) /\ Len(e) = Len(d)
          /\ \A i \in 1..Len(d) : e[i] = d[i] + t
      BY <2>3, <3>1, AgedType
    <3>3. AfterWait(b, t) = Within(e, Window)
      BY <2>4, <3>1
    <3> HIDE DEF e
    <3>4. \A i \in 1..Len(d) : d[i] <= d[1]
      BY <2>3, <2>6, <2>7 DEF Oldest1st
    <3>5. \A i \in 1..Len(e) : e[i] <= Window
      BY <2>6, <2>7, <3>1, <3>2, <3>4, WindowType
    <3>6. Within(e, Window) = e
      BY <3>2, <3>5, NothingToPop, WindowType
    <3>7. QED
      BY <2>6, <3>2, <3>3, <3>6 DEF t
  <2>14. QED
    BY <2>12, <2>13 DEF d, wait
<1>2. LifeInv => RetryAfterIsNear
  BY <1>1 DEF RetryAfterIsNear
<1>3. QED
  BY OneLife, <1>2, PTL
===============================================================================
