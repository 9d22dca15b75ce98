--------------------------- MODULE PackageLifecycle ---------------------------
(***************************************************************************)
(* What the packages table promises its readers: the status machine that   *)
(* the docstrings and guards of src/agentnews/storage.py state, one package *)
(* at a time, with no processes, reads or transactions.  PackageStore is   *)
(* the code that has to keep this promise.                                 *)
(***************************************************************************)
CONSTANT Pids           \* package ids

VARIABLE life           \* life[q]: the status of q and where its publish_after stands

Statuses == {"absent", "imported", "staged", "published", "withheld"}
Schedules == {"null", "later", "due"}   \* publish_after NULL, in the future, passed

Gone == [status |-> "absent", after |-> "null"]

Init == life = [q \in Pids |-> Gone]

Move(q, from, to) ==
    /\ life[q].status = from
    /\ life' = [life EXCEPT ![q].status = to]

\* insert_package: a row is born "imported", with no publish_after.
Insert(q) == Move(q, "absent", "imported")

\* transition_to_staged: only a freshly imported package is staged.
Stage(q, when) ==
    /\ life[q].status = "imported"
    /\ life' = [life EXCEPT ![q] = [status |-> "staged", after |-> when]]

\* transition_to_published with STAGING_DELAY_MINUTES = 0.
Publish(q) == Move(q, "imported", "published")

\* transition_staged_to_published: every package in S is staged and due, and
\* all of them become published in one commit.
LazyPublish(S) ==
    /\ \A q \in S : life[q] = [status |-> "staged", after |-> "due"]
    /\ life' = [q \in Pids |->
                  IF q \in S THEN [life[q] EXCEPT !.status = "published"]
                  ELSE life[q]]

\* withhold_package: "Only from published".
Withhold(q) == Move(q, "published", "withheld")

\* republish_package: the one way out of "withheld".
Republish(q) == Move(q, "withheld", "published")

\* delete_package, for import-run --replace.
Remove(q) ==
    /\ life[q].status # "absent"
    /\ life' = [life EXCEPT ![q] = Gone]

\* The clock passes publish_after.
Elapse(q) ==
    /\ life[q].after = "later"
    /\ life' = [life EXCEPT ![q].after = "due"]

Next ==
    \/ \E q \in Pids :
          \/ Insert(q)
          \/ \E when \in {"null", "later"} : Stage(q, when)
          \/ Publish(q)
          \/ Withhold(q)
          \/ Republish(q)
          \/ Remove(q)
          \/ Elapse(q)
    \/ \E S \in (SUBSET Pids) \ {{}} : LazyPublish(S)

Spec == Init /\ [][Next]_life
===============================================================================
