-------------------------------- MODULE Startup --------------------------------
(***************************************************************************)
(* What happens before agentnews serves or imports anything: `init`,       *)
(* `migrate`, `serve` and the systemd unit (uvicorn alone) read .env,      *)
(* give it a LOG_SALT if it has none (config.py), and migrate the database *)
(* (db.py), each in a process of its own, several of them possibly at once *)
(* and any of them killed at any point.                                    *)
(*                                                                         *)
(* Of .env only the LOG_SALT matters that a parse returns: the last one.   *)
(* A start without the required variables ends at once; a file has them    *)
(* unless `init` is writing it, or died doing so.  SQLite's part: DDL is transactional, and one process has    *)
(* the write lock at a time.                                               *)
(***************************************************************************)
EXTENDS Integers, FiniteSets

CONSTANTS
    Operators,   \* processes that an operator starts: any command but the unit
    Units,       \* processes that systemd starts
    Versions,    \* numbers of the files in migrations/
    Salts,       \* salts that may be generated
    First,       \* what LOG_SALT may be before the first start
    MaxKills,    \* bound on kills
    NoFile, NoLine, Empty,  \* no .env; no LOG_SALT in it; "LOG_SALT="
    None

Procs == Operators \cup Units
Lines == {NoFile, NoLine, Empty} \cup Salts

ASSUME StartupAssumption ==
    /\ Versions \subseteq Nat /\ IsFiniteSet(Versions)
    /\ First \subseteq Lines
    /\ {NoFile, NoLine, Empty} \cap Salts = {} /\ NoFile # NoLine /\ NoFile # Empty /\ NoLine # Empty
    /\ None \notin Procs
    /\ MaxKills \in Nat

VARIABLES
    file,     \* LOG_SALT in .env
    whole,    \* .env has the required variables
    proc,     \* the processes: command, next step, os.environ, pending migrations
    tables,   \* the migrations whose tables are there
    applied,  \* versions in schema_migrations
    lock,     \* the process in a write transaction
    issued,   \* history: salts generated or found at first
    used,     \* history: salts that servers have hashed with
    overlap,  \* history: two processes were giving .env a salt at once
    kills     \* how many were killed

vars == <<file, whole, proc, tables, applied, lock, issued, used, overlap, kills>>
envVars == <<file, whole, issued, overlap>>
dbVars == <<tables, applied, lock>>

\* cmd "app" is uvicorn's lifespan, started by the unit or reached by `serve`; ready:
\* os.environ has the required variables; pc "failed": the unit is to be restarted.
Process == [cmd : {"init", "migrate", "serve", "app"},
            pc : {"off", "failed", "exists", "create", "sample", "salt", "append", "load", "reload",
                  "meta", "known", "apply", "commit", "bind", "serving"},
            env : {NoLine, Empty} \cup Salts,
            ready : BOOLEAN,
            todo : SUBSET Versions]

Off == [cmd |-> "init", pc |-> "off", env |-> NoLine, ready |-> FALSE, todo |-> {}]

TypeOK ==
    /\ file \in Lines /\ whole \in BOOLEAN
    /\ proc \in [Procs -> Process]
    /\ tables \subseteq Versions /\ applied \subseteq Versions
    /\ lock \in Procs \cup {None}
    /\ issued \subseteq Salts /\ used \subseteq {Empty} \cup Salts
    /\ overlap \in BOOLEAN
    /\ kills \in 0..MaxKills

Init ==
    /\ file \in First /\ whole = (file # NoFile)
    /\ issued = {file} \cap Salts
    /\ proc = [p \in Procs |-> Off]
    /\ tables = {} /\ applied = {} /\ lock = None
    /\ used = {} /\ overlap = FALSE /\ kills = 0

At(p, pc) == proc[p].pc = pc
Goto(p, pc) == proc' = [proc EXCEPT ![p].pc = pc]

\* A process ends by itself, or is killed; of the unit this is a failure.
Ended(p) == IF p \in Units THEN [Off EXCEPT !.pc = "failed"] ELSE Off
Exit(p) == proc' = [proc EXCEPT ![p] = Ended(p)]
Down(p) == proc[p].pc \in {"off", "failed"}

-------------------------------------------------------------------------------
\* The unit's EnvironmentFile puts the line of the file into os.environ, and the
\* unit does not start without the file.
Start(p) ==
    /\ Down(p)
    /\ IF p \in Units
       THEN /\ file # NoFile
            /\ proc' = [proc EXCEPT ![p] = [Off EXCEPT !.cmd = "app", !.env = file,
                                                       !.ready = whole, !.pc = "load"]]
       ELSE \/ proc' = [proc EXCEPT ![p] = [Off EXCEPT !.pc = "exists"]]
            \/ \E c \in {"migrate", "serve"} :
                   proc' = [proc EXCEPT ![p] = [Off EXCEPT !.cmd = c, !.pc = "load"]]
    /\ UNCHANGED <<envVars, dbVars, used, kills>>

\* p is about to write a salt; another may be as well.
Writing(p) == proc[p].pc \in {"create", "sample", "append"}
NoteOverlap(p) == overlap' = (overlap \/ \E q \in Procs \ {p} : Writing(q))

Fresh(s) == s \in Salts \ issued

\* cmd_init writes a whole sample file if there was none.
Exists(p) ==
    /\ At(p, "exists")
    /\ \/ file = NoFile /\ Goto(p, "create") /\ NoteOverlap(p)
       \/ file # NoFile /\ Goto(p, "salt") /\ UNCHANGED overlap
    /\ UNCHANGED <<file, whole, issued, dbVars, used, kills>>

\* Path.write_text creates an empty file, or makes the one that has come empty, and
\* then writes.
CreateSample(p) ==
    /\ At(p, "create")
    /\ file' = NoLine /\ whole' = FALSE
    /\ Goto(p, "sample")
    /\ UNCHANGED <<issued, overlap, dbVars, used, kills>>

WriteSample(p, s) ==
    /\ At(p, "sample") /\ Fresh(s)
    /\ file' = s /\ whole' = TRUE /\ issued' = issued \cup {s}
    /\ Goto(p, "salt")
    /\ UNCHANGED <<overlap, dbVars, used, kills>>

\* ensure_log_salt returns: cmd_serve goes on to uvicorn, whose lifespan loads the
\* configuration; the lifespan itself loads it once more.
AfterSalt(p, env) ==
    LET c == proc[p].cmd
    IN proc' = [proc EXCEPT ![p].env = env,
                            ![p].cmd = IF c = "serve" THEN "app" ELSE c,
                            ![p].pc = IF c = "app" THEN "reload" ELSE "load"]

\* A salt that is in the file is left alone, and not put into os.environ either.
ReadSalt(p) ==
    /\ At(p, "salt")
    /\ \/ file \in Salts /\ AfterSalt(p, proc[p].env) /\ UNCHANGED overlap
       \/ file \notin Salts /\ Goto(p, "append") /\ NoteOverlap(p)
    /\ UNCHANGED <<file, whole, issued, dbVars, used, kills>>

\* _append_env_line, then os.environ if the name is not in it.
AppendToEnvOnly(p, s) ==                               \* mutant: the file is not written
    /\ At(p, "append") /\ Fresh(s)
    /\ issued' = issued \cup {s}
    /\ AfterSalt(p, IF proc[p].env = NoLine THEN s ELSE proc[p].env)
    /\ UNCHANGED <<file, whole, overlap, dbVars, used, kills>>
AppendSalt(p, s) ==
    /\ At(p, "append") /\ Fresh(s)
    /\ file' = s /\ issued' = issued \cup {s}
    /\ AfterSalt(p, IF proc[p].env = NoLine THEN s ELSE proc[p].env)
    /\ UNCHANGED <<whole, overlap, dbVars, used, kills>>

\* load_env_file does not override what os.environ has.
Loaded(p) == IF proc[p].env = NoLine /\ file # NoFile THEN file ELSE proc[p].env

\* load_config, then what each caller does with it: all but migrate need the required
\* variables; migrate goes on without a salt, init fails, serve and the lifespan make one.
Load(p) ==
    /\ At(p, "load")
    /\ LET c == proc[p].cmd
           ready == proc[p].ready \/ whole
           salted == Loaded(p) \in Salts
           Goes(cmd, pc) == proc' = [proc EXCEPT ![p].env = Loaded(p), ![p].ready = ready,
                                                 ![p].cmd = cmd, ![p].pc = pc]
       IN \/ c = "migrate" /\ Goes(c, "meta")
          \/ c # "migrate" /\ (~ready \/ (c = "init" /\ ~salted)) /\ Exit(p)
          \/ c \in {"init", "app"} /\ ready /\ salted /\ Goes(c, "meta")
          \/ c = "serve" /\ ready /\ salted /\ Goes("app", "load")
          \/ c \in {"serve", "app"} /\ ready /\ ~salted /\ Goes(c, "salt")
    /\ UNCHANGED <<envVars, dbVars, used, kills>>

\* The lifespan's second load_config takes what there is.
Reload(p) ==
    /\ At(p, "reload")
    /\ proc' = [proc EXCEPT ![p].env = Loaded(p), ![p].pc = "meta"]
    /\ UNCHANGED <<envVars, dbVars, used, kills>>

-------------------------------------------------------------------------------
\* run_migrations.  CREATE TABLE IF NOT EXISTS schema_migrations, committed.
EnsureTable(p) ==
    /\ At(p, "meta") /\ lock = None
    /\ Goto(p, "known")
    /\ UNCHANGED <<envVars, dbVars, used, kills>>

\* With nothing left to apply init and migrate end, the lifespan goes on.
Continue(p, left) ==
    IF left = {} /\ proc[p].cmd # "app" THEN Exit(p)
    ELSE proc' = [proc EXCEPT ![p].todo = left, ![p].pc = IF left = {} THEN "bind" ELSE "apply"]

\* The versions known are read once, before the loop.
KnownIfAny == IF applied = {} THEN {} ELSE Versions    \* mutant: some means all
Known == applied
AppliedMigrations(p) ==
    /\ At(p, "known")
    /\ Continue(p, Versions \ Known)
    /\ UNCHANGED <<envVars, dbVars, used, kills>>

Version(p) == CHOOSE v \in proc[p].todo : \A w \in proc[p].todo : v <= w

\* BEGIN and the statements of the file: the first CREATE TABLE takes the write lock,
\* and raises if the table is there; then ROLLBACK, and the process ends.
ApplyInPlace(p) ==                                     \* mutant: no BEGIN
    /\ At(p, "apply") /\ lock = None
    /\ \/ /\ Version(p) \notin tables
          /\ lock' = p /\ tables' = tables \cup {Version(p)}
          /\ Goto(p, "commit")
       \/ Version(p) \in tables /\ Exit(p) /\ UNCHANGED <<lock, tables>>
    /\ UNCHANGED <<envVars, applied, used, kills>>
Apply(p) ==
    /\ At(p, "apply") /\ lock = None
    /\ \/ Version(p) \notin tables /\ lock' = p /\ Goto(p, "commit")
       \/ Version(p) \in tables /\ Exit(p) /\ UNCHANGED lock
    /\ UNCHANGED <<envVars, tables, applied, used, kills>>

\* The INSERT into schema_migrations and COMMIT; on to the next file.
CommitMigration(p) ==
    /\ At(p, "commit")
    /\ tables' = tables \cup {Version(p)} /\ applied' = applied \cup {Version(p)}
    /\ lock' = None
    /\ Continue(p, proc[p].todo \ {Version(p)})
    /\ UNCHANGED <<envVars, used, kills>>

\* "database is locked" after busy_timeout: the process ends with the exception.
LockTimeout(p) ==
    /\ lock \notin {None, p}
    /\ At(p, "meta") \/ At(p, "apply")
    /\ Exit(p)
    /\ UNCHANGED <<envVars, dbVars, used, kills>>

-------------------------------------------------------------------------------
\* uvicorn binds its socket after the lifespan's startup; the second server on a
\* port shuts down and exits.
Serving(p) == At(p, "serving")
Bind(p) ==
    /\ At(p, "bind")
    /\ \/ (\E q \in Procs : Serving(q)) /\ Exit(p) /\ UNCHANGED used
       \/ /\ \A q \in Procs : ~Serving(q)
          /\ Goto(p, "serving")
          /\ used' = used \cup {IF proc[p].env \in Salts THEN proc[p].env ELSE Empty}
    /\ UNCHANGED <<envVars, dbVars, kills>>

\* SIGTERM ends a server cleanly; `systemctl stop` may also end a unit that is starting,
\* or is to be restarted, and it stays down.
Stop(p) ==
    /\ Serving(p) \/ (p \in Units /\ ~At(p, "off"))
    /\ proc' = [proc EXCEPT ![p] = Off]
    /\ lock' = IF lock = p THEN None ELSE lock
    /\ UNCHANGED <<envVars, tables, applied, used, kills>>

\* SIGKILL, at any point: SQLite rolls back.  The same comes of the unit's ExecStartPost
\* when it asks for /healthz before the server listens.
Kill(p) ==
    /\ ~Down(p) /\ kills < MaxKills
    /\ kills' = kills + 1
    /\ Exit(p)
    /\ lock' = IF lock = p THEN None ELSE lock
    /\ UNCHANGED <<envVars, tables, applied, used>>

Step(p) ==
    \/ Exists(p) \/ CreateSample(p) \/ ReadSalt(p) \/ Load(p) \/ Reload(p)
    \/ \E s \in Salts : WriteSample(p, s) \/ AppendSalt(p, s)
    \/ EnsureTable(p) \/ AppliedMigrations(p) \/ Apply(p) \/ CommitMigration(p)
    \/ Bind(p)

Next == \E p \in Procs : Start(p) \/ Step(p) \/ LockTimeout(p) \/ Stop(p) \/ Kill(p)

Spec == Init /\ [][Next]_vars

\* Every process goes on, and systemd restarts the unit on failure: RestartSec keeps its
\* starts too far apart for the start limit.  Nobody need start it after a clean stop.
FairSpec ==
    /\ Spec
    /\ \A p \in Procs : WF_vars(Step(p))
    /\ \A p \in Units : WF_vars(At(p, "failed") /\ Start(p))

-------------------------------------------------------------------------------
\* Whoever passed run_migrations finds the whole schema, and schema_migrations
\* tells which tables are there: no kill, and no second process between the
\* SELECT of the versions and the BEGIN, leaves half a migration (FR-026).
SchemaIsWhole ==
    /\ applied = tables
    /\ \A p \in Procs : At(p, "bind") \/ At(p, "serving") => tables = Versions

\* LOG_SALT, once used, stays: all lives of the server hash addresses with one
\* salt, if no two processes gave .env a salt at the same time.
SaltIsKept == ~overlap => \A s, t \in used : s = t

\* Once the unit is started a server comes up, though starts collide in run_migrations
\* and fail, or are killed half-way; unless the operator stops the unit, or .env is an
\* unfinished one.
ServerComesUp ==
    \A u \in Units : ~At(u, "off") ~> At(u, "off") \/ ~whole \/ \E p \in Procs : Serving(p)

-------------------------------------------------------------------------------
\* Three statements of the repository that do not hold (see the README).

\* "Protects IP/UA hashes": no server hashes without a salt.
HashesAreSalted == Empty \notin used

\* "generate LOG_SALT if absent": one salt, also when two first starts race.
OneSalt == \A s, t \in used : s = t

\* "Apply pending migrations": nobody fails because another process applied one.
NobodyFails == [][\A p \in Procs : Apply(p) => ~Down(p)']_vars
===============================================================================
