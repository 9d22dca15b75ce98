----------------------------- MODULE Startup_proofs -----------------------------
(***************************************************************************)
(* Proofs about Startup for every number of processes, migrations, salts   *)
(* and kills.                                                              *)
(***************************************************************************)
EXTENDS Startup, WellFoundedInduction, TLAPS

\* A process that applies migrations has some left, and the tables of all others are
\* there: it read the versions when they were, and no table is ever dropped.
Pending(p) ==
    At(p, "apply") \/ At(p, "commit") => proc[p].todo # {} /\ Versions \ proc[p].todo \subseteq tables

\* What run_migrations relies on.
Migrated ==
    /\ applied = tables
    /\ \A p \in Procs : Pending(p)
    /\ \A p \in Procs : At(p, "bind") \/ At(p, "serving") => tables = Versions

\* What a process carries fits the file: its salt is the file's, and it has one before
\* it goes on to the database as the server.
Fits(r) ==
    /\ r.env # NoLine => r.env = file /\ file \in Salts
    /\ r.pc = "reload" => file \in Salts
    /\ r.pc \in {"meta", "known", "apply", "commit"} /\ r.cmd = "app" => r.env \in Salts
    /\ r.pc \in {"bind", "serving"} => r.env \in Salts

\* While no two processes write a salt at once, all salts around are the file's, and
\* whoever is about to write one found none there.
OneAtATime ==
    /\ \A p, q \in Procs : Writing(p) /\ Writing(q) => p = q
    /\ \A p \in Procs : Writing(p) => file \notin Salts
    /\ \A p \in Procs : Fits(proc[p])
    /\ \A s \in used : s = file /\ file \in Salts

OneFile == file # Empty /\ (~overlap => OneAtATime)

-------------------------------------------------------------------------------
\* A set of numbers of migrations has a least one.
LEMMA Least ==
    ASSUME NEW S \in SUBSET Nat, S # {}
    PROVE  \E v \in S : \A w \in S : v <= w
<1> DEFINE R == OpToRel(<, Nat)
<1>1. IsWellFoundedOn(R, Nat)
  BY NatLessThanWellFounded
<1>2. \A v, w \in Nat : w < v => <<w, v>> \in R
  BY DEF OpToRel
<1> HIDE DEF R
<1>3. PICK v \in S : \A w \in S : ~ (<<w, v>> \in R)
  BY <1>1, WFMin
<1>4. \A w \in S : ~ (w < v)
  BY <1>2, <1>3
<1>5. QED
  BY <1>4

\* The next file to apply is one of those left.
LEMMA VersionIsLeft ==
    ASSUME NEW p \in Procs, proc[p].todo \subseteq Versions, proc[p].todo # {}
    PROVE  Version(p) \in proc[p].todo
<1>1. proc[p].todo \in SUBSET Nat
  BY StartupAssumption
<1>2. QED
  BY <1>1, Least DEF Version

\* What load_env_file leaves in os.environ is LOG_SALT as a parse gives it.
LEMMA LoadedType ==
    ASSUME NEW p \in Procs, TypeOK
    PROVE  Loaded(p) \in {NoLine, Empty} \cup Salts
BY StartupAssumption DEF TypeOK, Process, Lines, Loaded

\* What is left of a process that ended.
LEMMA EndedType ==
    ASSUME NEW p \in Procs
    PROVE  /\ Off \in Process /\ Off.pc = "off" /\ Off.env = NoLine
           /\ Ended(p) \in Process /\ Ended(p).pc \in {"off", "failed"} /\ Ended(p).env = NoLine
<1>1. Off \in Process /\ Off.pc = "off" /\ Off.env = NoLine
  BY DEF Off, Process
<1>2. CASE p \in Units
  <2>1. Ended(p) = [Off EXCEPT !.pc = "failed"]
    BY <1>2 DEF Ended
  <2>2. QED
    BY <1>1, <2>1 DEF Process
<1>3. CASE p \notin Units
  BY <1>1, <1>3 DEF Ended
<1>4. QED
  BY <1>1, <1>2, <1>3

\* Continue keeps the types of the processes.
LEMMA ContinueType ==
    ASSUME NEW p \in Procs, TypeOK, NEW left \in SUBSET Versions, Continue(p, left)
    PROVE  proc' \in [Procs -> Process]
<1>1. CASE Exit(p)
  BY <1>1, EndedType DEF TypeOK, Exit
<1>2. CASE ~Exit(p)
  BY <1>2 DEF TypeOK, Process, Continue
<1>3. QED
  BY <1>1, <1>2

\* A process that stops running leaves the others as they are.
LEMMA ExitType ==
    ASSUME NEW p \in Procs, TypeOK, Exit(p)
    PROVE  proc' \in [Procs -> Process]
BY EndedType DEF TypeOK, Exit

-------------------------------------------------------------------------------
\* Types and migrations hold at first: nothing has been applied.
LEMMA InitMigrated == Init => TypeOK /\ Migrated
<1> SUFFICES ASSUME Init PROVE TypeOK /\ Migrated
  OBVIOUS
<1>1. proc \in [Procs -> Process]
  BY DEF Init, Off, Process
<1>2. file \in Lines /\ whole \in BOOLEAN /\ kills \in 0..MaxKills
  BY StartupAssumption DEF Init
<1>3. overlap \in BOOLEAN /\ lock \in Procs \cup {None} /\ used \subseteq {Empty} \cup Salts
  BY DEF Init
<1>4. issued \subseteq Salts /\ tables \subseteq Versions /\ applied \subseteq Versions
  BY DEF Init
<1>5. Migrated
  BY DEF Init, Migrated, Pending, At, Off
<1>6. QED
  BY <1>1, <1>2, <1>3, <1>4, <1>5 DEF TypeOK

\* A process that is not applying a migration after a step that leaves the database
\* alone disturbs nobody's migration.
LEMMA Bystander ==
    ASSUME TypeOK, Migrated, NEW p \in Procs, NEW r \in Process, proc' = [proc EXCEPT ![p] = r],
           r.pc \notin {"apply", "commit", "bind", "serving"}, UNCHANGED <<tables, applied>>
    PROVE  proc' \in [Procs -> Process] /\ Migrated'
BY DEF TypeOK, Migrated, Pending, At

\* Steps of the configuration do not touch the database, and whoever takes one is
\* not applying a migration after it.
LEMMA ConfigurationStep ==
    ASSUME TypeOK, Migrated, NEW p \in Procs,
           \/ Start(p) \/ Exists(p) \/ CreateSample(p) \/ ReadSalt(p) \/ Load(p) \/ Reload(p)
           \/ \E s \in Salts : WriteSample(p, s) \/ AppendSalt(p, s)
    PROVE  TypeOK' /\ Migrated'
<1>1. CASE Start(p)
  <2>1. PICK r \in Process : proc' = [proc EXCEPT ![p] = r] /\ r.pc \in {"load", "exists"}
    <3>1. CASE p \in Units
      <4> DEFINE r == [cmd |-> "app", pc |-> "load", env |-> file, ready |-> whole, todo |-> {}]
      <4>1. r \in Process
        BY <1>1, <3>1 DEF Start, TypeOK, Lines, Process
      <4>2. proc' = [proc EXCEPT ![p] = r]
        BY <1>1, <3>1 DEF Start, Off
      <4>3. QED
        BY <4>1, <4>2
    <3>2. CASE p \notin Units /\ proc' = [proc EXCEPT ![p] = [Off EXCEPT !.pc = "exists"]]
      <4> DEFINE r == [Off EXCEPT !.pc = "exists"]
      <4>1. r \in Process /\ r.pc = "exists"
        BY DEF Off, Process
      <4>2. proc' = [proc EXCEPT ![p] = r]
        BY <3>2
      <4> HIDE DEF r
      <4>3. QED
        BY <4>1, <4>2
    <3>3. ASSUME NEW c \in {"migrate", "serve"},
                 proc' = [proc EXCEPT ![p] = [Off EXCEPT !.cmd = c, !.pc = "load"]]
          PROVE  \E r \in Process : proc' = [proc EXCEPT ![p] = r] /\ r.pc \in {"load", "exists"}
      <4> DEFINE r == [Off EXCEPT !.cmd = c, !.pc = "load"]
      <4>1. r \in Process /\ r.pc = "load"
        BY DEF Off, Process
      <4>2. proc' = [proc EXCEPT ![p] = r]
        BY <3>3
      <4> HIDE DEF r
      <4>3. QED
        BY <4>1, <4>2
    <3>4. QED
      BY <1>1, <3>1, <3>2, <3>3 DEF Start
  <2>2. QED
    BY <1>1, <2>1, Bystander DEF Start, TypeOK, envVars, dbVars
<1>2. CASE Exists(p)
  <2>1. proc' \in [Procs -> Process] /\ Migrated'
    BY <1>2 DEF Exists, Goto, TypeOK, Process, Migrated, Pending, At, dbVars
  <2>2. overlap' \in BOOLEAN
    BY <1>2 DEF Exists, NoteOverlap, TypeOK
  <2>3. QED
    BY <1>2, <2>1, <2>2 DEF Exists, TypeOK, dbVars
<1>c. CASE CreateSample(p)
  <2>1. proc' \in [Procs -> Process] /\ Migrated'
    BY <1>c DEF CreateSample, Goto, TypeOK, Process, Migrated, Pending, At, dbVars
  <2>2. QED
    BY <1>c, <2>1 DEF CreateSample, TypeOK, Lines, dbVars
<1>3. CASE ReadSalt(p)
  <2>1. proc' \in [Procs -> Process] /\ Migrated'
    BY <1>3 DEF ReadSalt, AfterSalt, Goto, TypeOK, Process, Migrated, Pending, At, dbVars
  <2>2. overlap' \in BOOLEAN
    BY <1>3 DEF ReadSalt, NoteOverlap, TypeOK
  <2>3. QED
    BY <1>3, <2>1, <2>2 DEF ReadSalt, TypeOK, dbVars
<1>4. CASE Load(p)
  <2>1. proc' \in [Procs -> Process] /\ Migrated'
    <3> DEFINE ready == proc[p].ready \/ whole
               Goes(cmd, l) == proc' = [proc EXCEPT ![p].env = Loaded(p), ![p].ready = ready,
                                                    ![p].cmd = cmd, ![p].pc = l]
    <3>1. Exit(p) \/ (\E l \in {"meta", "salt"} : Goes(proc[p].cmd, l)) \/ Goes("app", "load")
      BY <1>4 DEF Load
    <3>2. At(p, "load") /\ tables' = tables /\ applied' = applied
      BY <1>4 DEF Load, dbVars
    <3>3. Loaded(p) \in {NoLine, Empty} \cup Salts
      BY LoadedType
    <3>4. CASE Exit(p)
      BY <3>2, <3>4 DEF Exit, Ended, Off, TypeOK, Process, Migrated, Pending, At
    <3>5. ASSUME NEW cmd \in {"init", "migrate", "serve", "app"}, NEW l \in {"meta", "salt", "load"}, Goes(cmd, l)
          PROVE  proc' \in [Procs -> Process] /\ Migrated'
      <4> DEFINE r == [proc[p] EXCEPT !.env = Loaded(p), !.ready = ready, !.cmd = cmd, !.pc = l]
      <4>1. proc' = [proc EXCEPT ![p] = r]
        BY <3>5
      <4>2. ready \in BOOLEAN
        BY DEF TypeOK, Process
      <4>3. r \in Process /\ r.pc = l
        BY <3>3, <4>2 DEF TypeOK, Process
      <4> HIDE DEF r
      <4>4. QED
        BY <3>2, <4>1, <4>3, Bystander
    <3>6. proc[p].cmd \in {"init", "migrate", "serve", "app"}
      BY DEF TypeOK, Process
    <3> HIDE DEF Goes
    <3>7. QED
      BY <3>1, <3>4, <3>5, <3>6
  <2>2. QED
    BY <1>4, <2>1 DEF Load, TypeOK, envVars, dbVars
<1>5. CASE Reload(p)
  <2>1. proc' \in [Procs -> Process] /\ Migrated'
    BY <1>5, LoadedType DEF Reload, TypeOK, Process, Migrated, Pending, At, dbVars
  <2>2. QED
    BY <1>5, <2>1 DEF Reload, TypeOK, envVars, dbVars
<1>6. ASSUME NEW s \in Salts, WriteSample(p, s) \/ AppendSalt(p, s)
      PROVE  TypeOK' /\ Migrated'
  <2>1. PICK r \in Process : /\ proc' = [proc EXCEPT ![p] = r]
                             /\ r.pc \in {"salt", "reload", "load"}
    <3>1. CASE WriteSample(p, s)
      <4> DEFINE r == [proc[p] EXCEPT !.pc = "salt"]
      <4>1. r \in Process /\ r.pc = "salt"
        BY DEF TypeOK, Process
      <4>2. proc' = [proc EXCEPT ![p] = r]
        BY <3>1 DEF WriteSample, Goto
      <4> HIDE DEF r
      <4>3. QED
        BY <4>1, <4>2
    <3>2. CASE AppendSalt(p, s)
      <4> DEFINE c == proc[p].cmd
                 env == IF proc[p].env = NoLine THEN s ELSE proc[p].env
                 cmd == IF c = "serve" THEN "app" ELSE c
                 pc == IF c = "app" THEN "reload" ELSE "load"
                 r == [proc[p] EXCEPT !.env = env, !.cmd = cmd, !.pc = pc]
      <4>1. r \in Process /\ r.pc \in {"reload", "load"}
        BY DEF TypeOK, Process
      <4>2. proc' = [proc EXCEPT ![p] = r]
        BY <3>2 DEF AppendSalt, AfterSalt
      <4> HIDE DEF r
      <4>3. QED
        BY <4>1, <4>2
    <3>3. QED
      BY <1>6, <3>1, <3>2
  <2>2. QED
    BY <1>6, <2>1, Bystander DEF WriteSample, AppendSalt, TypeOK, Lines, dbVars
<1>7. QED
  BY <1>1, <1>2, <1>c, <1>3, <1>4, <1>5, <1>6

\* The steps of run_migrations. Between the SELECT and the BEGIN another process may
\* have applied the migration: Apply then finds its table and ends.
LEMMA MigrationStep ==
    ASSUME TypeOK, Migrated, NEW p \in Procs,
           EnsureTable(p) \/ AppliedMigrations(p) \/ Apply(p) \/ CommitMigration(p) \/ LockTimeout(p)
    PROVE  TypeOK' /\ Migrated'
<1> USE StartupAssumption DEF TypeOK, Migrated, Pending, At, envVars, dbVars
<1>1. CASE EnsureTable(p)
  BY <1>1 DEF EnsureTable, Goto, Process
<1>2. CASE AppliedMigrations(p)
  <2>1. proc' \in [Procs -> Process]
    BY <1>2, ContinueType DEF AppliedMigrations, Known
  <2>2. QED
    <3>1. CASE Exit(p)
      BY <1>2, <2>1, <3>1, EndedType DEF AppliedMigrations, Exit
    <3>2. CASE ~Exit(p)
      BY <1>2, <2>1, <3>2 DEF AppliedMigrations, Known, Continue, Process
    <3>3. QED
      BY <3>1, <3>2
<1>3. CASE Apply(p)
  <2>1. CASE Exit(p)
    BY <1>3, <2>1, EndedType DEF Apply, Exit
  <2>2. CASE ~Exit(p)
    BY <1>3, <2>2 DEF Apply, Goto, Process
  <2>3. QED
    BY <2>1, <2>2
<1>4. CASE CommitMigration(p)
  <2>1. Version(p) \in proc[p].todo /\ proc[p].todo \subseteq Versions
    BY <1>4, VersionIsLeft DEF CommitMigration, Process
  <2>2. proc' \in [Procs -> Process]
    BY <1>4, <2>1, ContinueType DEF CommitMigration
  <2>3. tables \subseteq tables' /\ tables' \subseteq Versions /\ applied' = tables' /\ lock' = None
    BY <1>4, <2>1 DEF CommitMigration
  <2>4. ASSUME NEW q \in Procs, q # p PROVE proc'[q] = proc[q]
    BY <1>4, <2>4 DEF CommitMigration, Continue, Exit
  <2>5. Versions \ (proc[p].todo \ {Version(p)}) \subseteq tables'
    BY <1>4, <2>1 DEF CommitMigration
  <2>6. Pending(p)' /\ (At(p, "bind")' \/ At(p, "serving")' => tables' = Versions)
    <3> DEFINE left == proc[p].todo \ {Version(p)}
    <3>1. CASE left = {} /\ proc[p].cmd # "app"
      BY <1>4, <3>1, EndedType DEF CommitMigration, Continue, Exit
    <3>2. CASE left = {} /\ proc[p].cmd = "app"
      BY <1>4, <2>3, <2>5, <3>2 DEF CommitMigration, Continue, Process
    <3>3. CASE left # {}
      BY <1>4, <2>3, <2>5, <3>3 DEF CommitMigration, Continue, Process
    <3>4. QED
      BY <3>1, <3>2, <3>3
  <2>7. UNCHANGED <<file, whole, issued, used, overlap, kills>>
    BY <1>4 DEF CommitMigration
  <2>8. QED
    BY <2>2, <2>3, <2>4, <2>6, <2>7
<1>5. CASE LockTimeout(p)
  BY <1>5, EndedType DEF LockTimeout, Exit
<1>6. QED
  BY <1>1, <1>2, <1>3, <1>4, <1>5

\* The server's steps and a kill.
LEMMA ServerStep ==
    ASSUME TypeOK, Migrated, NEW p \in Procs, Bind(p) \/ Stop(p) \/ Kill(p)
    PROVE  TypeOK' /\ Migrated'
<1> USE StartupAssumption DEF TypeOK, Migrated, Pending, At, envVars, dbVars
<1>1. CASE Bind(p)
  <2>1. CASE Exit(p) /\ UNCHANGED used
    BY <1>1, <2>1, EndedType DEF Bind, Exit
  <2>2. CASE ~Exit(p)
    BY <1>1, <2>2 DEF Bind, Goto, Process
  <2>3. QED
    BY <1>1, <2>1, <2>2 DEF Bind, Goto, Process
<1>2. CASE Stop(p)
  BY <1>2, EndedType DEF Stop
<1>3. CASE Kill(p)
  <2>1. TypeOK'
    BY <1>3, ExitType DEF Kill
  <2>2. Migrated'
    BY <1>3, EndedType DEF Kill, Exit
  <2>3. QED
    BY <2>1, <2>2
<1>4. QED
  BY <1>1, <1>2, <1>3

\* Every step keeps types and what run_migrations relies on.
LEMMA StepMigrated == TypeOK /\ Migrated /\ [Next]_vars => TypeOK' /\ Migrated'
<1> SUFFICES ASSUME TypeOK, Migrated, [Next]_vars PROVE TypeOK' /\ Migrated'
  OBVIOUS
<1>1. CASE UNCHANGED vars
  BY <1>1 DEF vars, TypeOK, Migrated, Pending, At
<1>2. ASSUME NEW p \in Procs, Start(p) \/ Step(p) \/ LockTimeout(p) \/ Stop(p) \/ Kill(p)
      PROVE  TypeOK' /\ Migrated'
  BY <1>2, ConfigurationStep, MigrationStep, ServerStep DEF Step
<1>3. QED
  BY <1>1, <1>2 DEF Next

\* The variables of Startup keep their types: what .env holds, where each process
\* is, and what the database has.
THEOREM TypeCorrect == Spec => []TypeOK
<1>1. QED
  BY InitMigrated, StepMigrated, PTL DEF Spec

\* Whoever passed run_migrations finds the whole schema, however many processes migrate
\* at once and whenever they are killed (db.run_migrations).
THEOREM MigrationsAreWhole == Spec => []SchemaIsWhole
<1>1. Migrated => SchemaIsWhole
  BY DEF Migrated, SchemaIsWhole
<1>2. QED
  BY <1>1, InitMigrated, StepMigrated, PTL DEF Spec

-------------------------------------------------------------------------------
\* At first no process carries anything.
LEMMA InitOneFile == Empty \notin First /\ Init => OneFile
<1> SUFFICES ASSUME Empty \notin First, Init PROVE OneFile
  OBVIOUS
<1>1. \A p \in Procs : ~ Writing(p) /\ Fits(proc[p])
  BY DEF Init, Off, Writing, Fits
<1>2. QED
  BY <1>1 DEF Init, OneFile, OneAtATime

\* A process that carries what fits, and does not begin to write, disturbs nothing.
LEMMA Quiet ==
    ASSUME TypeOK, OneFile, NEW p \in Procs, NEW r \in Process, proc' = [proc EXCEPT ![p] = r],
           r.pc \notin {"create", "sample", "append"}, ~overlap => Fits(r),
           file' = file, overlap' = overlap,
           ~overlap => used' = used \/ (r.pc = "serving" /\ used' = used \cup {r.env})
    PROVE  OneFile'
<1>1. CASE overlap
  BY <1>1 DEF OneFile
<1>2. CASE ~overlap
  <2>1. \A q \in Procs : q # p => proc'[q] = proc[q]
    OBVIOUS
  <2>2. proc'[p] = r
    BY DEF TypeOK
  <2>3. \A q \in Procs : Fits(proc[q])'
    BY <1>2, <2>1, <2>2 DEF OneFile, OneAtATime, Fits
  <2>4. \A q \in Procs : Writing(q)' => Writing(q)
    BY <2>1, <2>2 DEF Writing
  <2>5. \A s \in used' : s = file /\ file \in Salts
    BY <1>2, StartupAssumption DEF OneFile, OneAtATime, Fits
  <2>6. QED
    BY <1>2, <2>3, <2>4, <2>5 DEF OneFile, OneAtATime
<1>3. QED
  BY <1>1, <1>2

\* A process that begins to write found no salt, and whoever writes already is noted.
LEMMA BeginsToWrite ==
    ASSUME TypeOK, OneFile, NEW p \in Procs, NEW l \in {"create", "append"}, Goto(p, l),
           NoteOverlap(p), file \notin Salts, file' = file, used' = used
    PROVE  OneFile'
<1>1. CASE overlap'
  BY <1>1 DEF OneFile
<1>2. CASE ~overlap'
  <2>1. ~overlap /\ \A q \in Procs \ {p} : ~ Writing(q)
    BY <1>2 DEF NoteOverlap, TypeOK
  <2>2. \A q \in Procs : q # p => proc'[q] = proc[q]
    BY DEF Goto
  <2>3. proc'[p] = [proc[p] EXCEPT !.pc = l]
    BY DEF Goto, TypeOK
  <2>4. Fits(proc[p])' /\ \A q \in Procs : q # p => Fits(proc[q])'
    BY <2>1, <2>2, <2>3 DEF OneFile, OneAtATime, Fits, TypeOK, Process
  <2>5. \A q \in Procs : Writing(q)' => q = p
    BY <2>1, <2>2 DEF Writing
  <2>6. QED
    BY <2>1, <2>4, <2>5 DEF OneFile, OneAtATime
<1>3. QED
  BY <1>1, <1>2

\* What fits stays so when the process only moves on within one phase.
LEMMA Moves ==
    ASSUME TypeOK, NEW p \in Procs, Fits(proc[p]), NEW l \in {"salt", "known", "apply", "commit", "serving"},
           \/ l = "salt"
           \/ l \in {"known", "apply", "commit"} /\ proc[p].pc \in {"meta", "known", "apply", "commit"}
           \/ l = "serving" /\ proc[p].pc = "bind"
    PROVE  /\ [proc[p] EXCEPT !.pc = l] \in Process
           /\ [proc[p] EXCEPT !.pc = l].pc = l
           /\ Fits([proc[p] EXCEPT !.pc = l])
BY DEF TypeOK, Process, Fits

\* A process that ends carries nothing.
LEMMA Ends ==
    ASSUME TypeOK, OneFile, NEW p \in Procs, Exit(p), file' = file, overlap' = overlap, used' = used
    PROVE  OneFile'
<1>1. Ended(p) \in Process /\ Ended(p).pc \in {"off", "failed"} /\ Fits(Ended(p))
  BY EndedType DEF Fits
<1>2. QED
  BY <1>1, Quiet DEF Exit

\* What load_env_file leaves in os.environ fits the file.
LEMMA LoadedFits ==
    ASSUME TypeOK, OneFile, ~overlap, NEW p \in Procs
    PROVE  /\ Loaded(p) # NoLine => Loaded(p) = file /\ file \in Salts
           /\ file \in Salts => Loaded(p) \in Salts
BY StartupAssumption DEF TypeOK, Process, Lines, OneFile, OneAtATime, Fits, Loaded

\* Starting and reading the configuration.
LEMMA ConfigurationKeepsFile ==
    ASSUME TypeOK, OneFile, NEW p \in Procs,
           Start(p) \/ Exists(p) \/ CreateSample(p) \/ ReadSalt(p) \/ Load(p) \/ Reload(p)
    PROVE  OneFile'
<1>1. CASE Start(p)
  <2>1. PICK r \in Process : /\ proc' = [proc EXCEPT ![p] = r] /\ r.pc \in {"load", "exists"}
                             /\ r.env # NoLine => r.env = file /\ file \in Salts
    <3>1. CASE p \in Units
      <4> DEFINE r == [Off EXCEPT !.cmd = "app", !.env = file, !.ready = whole, !.pc = "load"]
      <4>1. file \in {NoLine} \cup Salts
        BY <1>1, <3>1 DEF Start, TypeOK, Lines, OneFile
      <4>2. r \in Process /\ r.pc = "load" /\ r.env = file
        BY <4>1 DEF TypeOK, Off, Process
      <4>3. proc' = [proc EXCEPT ![p] = r]
        BY <1>1, <3>1 DEF Start
      <4> HIDE DEF r
      <4>4. QED
        BY <4>1, <4>2, <4>3
    <3>2. CASE proc' = [proc EXCEPT ![p] = [Off EXCEPT !.pc = "exists"]]
      <4> DEFINE r == [Off EXCEPT !.pc = "exists"]
      <4>1. r \in Process /\ r.pc = "exists" /\ r.env = NoLine
        BY DEF Off, Process
      <4>2. proc' = [proc EXCEPT ![p] = r]
        BY <3>2
      <4> HIDE DEF r
      <4>3. QED
        BY <4>1, <4>2
    <3>3. ASSUME NEW c \in {"migrate", "serve"},
                 proc' = [proc EXCEPT ![p] = [Off EXCEPT !.cmd = c, !.pc = "load"]]
          PROVE  \E r \in Process : /\ proc' = [proc EXCEPT ![p] = r] /\ r.pc \in {"load", "exists"}
                                    /\ r.env # NoLine => r.env = file /\ file \in Salts
      <4> DEFINE r == [Off EXCEPT !.cmd = c, !.pc = "load"]
      <4>1. r \in Process /\ r.pc = "load" /\ r.env = NoLine
        BY DEF Off, Process
      <4>2. proc' = [proc EXCEPT ![p] = r]
        BY <3>3
      <4> HIDE DEF r
      <4>3. QED
        BY <4>1, <4>2
    <3>4. QED
      BY <1>1, <3>1, <3>2, <3>3 DEF Start
  <2>2. Fits(r)
    BY <2>1 DEF Fits
  <2>3. QED
    BY <1>1, <2>1, <2>2, Quiet DEF Start, envVars
<1>2. CASE Exists(p)
  <2>1. CASE file = NoFile /\ Goto(p, "create") /\ NoteOverlap(p)
    BY <1>2, <2>1, BeginsToWrite, StartupAssumption DEF Exists
  <2>2. CASE file # NoFile /\ Goto(p, "salt") /\ UNCHANGED overlap
    BY <1>2, <2>2, Moves, Quiet DEF Exists, Goto, OneFile, OneAtATime
  <2>3. QED
    BY <1>2, <2>1, <2>2 DEF Exists
<1>c. CASE CreateSample(p)
  <2>1. Writing(p) /\ file' = NoLine /\ proc' = [proc EXCEPT ![p].pc = "sample"] /\ UNCHANGED <<overlap, used>>
    BY <1>c DEF CreateSample, Writing, At, Goto, dbVars
  <2>2. NoLine # Empty /\ NoLine \notin Salts
    BY StartupAssumption
  <2>3. CASE overlap
    BY <2>1, <2>2, <2>3 DEF OneFile
  <2>4. CASE ~overlap
    <3>1. /\ file \notin Salts /\ used = {}
          /\ \A q \in Procs : proc[q].env = NoLine /\ proc[q].pc # "reload" /\ Fits(proc[q])
          /\ \A q \in Procs : Writing(q) => q = p
      BY <2>1, <2>4 DEF OneFile, OneAtATime, Fits
    <3>2. \A q \in Procs : /\ proc'[q].env = proc[q].env /\ proc'[q].cmd = proc[q].cmd
                           /\ proc'[q].pc = IF q = p THEN "sample" ELSE proc[q].pc
      BY <2>1 DEF TypeOK, Process
    <3>3. \A q \in Procs : Fits(proc[q])'
      BY <2>1, <3>1, <3>2 DEF Fits
    <3>4. \A q \in Procs : Writing(q)' => q = p
      BY <3>1, <3>2 DEF Writing
    <3>5. QED
      BY <2>1, <2>2, <3>1, <3>3, <3>4 DEF OneFile, OneAtATime
  <2>5. QED
    BY <2>3, <2>4
<1>3. CASE ReadSalt(p)
  <2>1. CASE file \notin Salts
    BY <1>3, <2>1, BeginsToWrite DEF ReadSalt
  <2>2. CASE file \in Salts
    <3> DEFINE c == proc[p].cmd
               cmd == IF c = "serve" THEN "app" ELSE c
               pc == IF c = "app" THEN "reload" ELSE "load"
               r == [proc[p] EXCEPT !.env = proc[p].env, !.cmd = cmd, !.pc = pc]
    <3>1. r \in Process /\ r.pc \in {"reload", "load"} /\ r.env = proc[p].env
      BY DEF TypeOK, Process
    <3>2. proc' = [proc EXCEPT ![p] = r] /\ UNCHANGED <<file, overlap, used>>
      BY <1>3, <2>2 DEF ReadSalt, AfterSalt
    <3> HIDE DEF r
    <3>3. ~overlap => Fits(r)
      BY <2>2, <3>1 DEF OneFile, OneAtATime, Fits
    <3>4. QED
      BY <3>1, <3>2, <3>3, Quiet
  <2>3. QED
    BY <2>1, <2>2
<1>4. CASE Load(p)
  <2>1. CASE Exit(p)
    BY <1>4, <2>1, Ends DEF Load, envVars
  <2> DEFINE ready == proc[p].ready \/ whole
             Goes(cmd, l) == proc' = [proc EXCEPT ![p].env = Loaded(p), ![p].ready = ready,
                                                  ![p].cmd = cmd, ![p].pc = l]
  <2>2. ASSUME NEW cmd \in {"init", "migrate", "serve", "app"}, NEW l \in {"meta", "salt", "load"},
               Goes(cmd, l), l # "meta" \/ cmd # "app" \/ Loaded(p) \in Salts
        PROVE  OneFile'
    <3> DEFINE r == [proc[p] EXCEPT !.env = Loaded(p), !.ready = ready, !.cmd = cmd, !.pc = l]
    <3>0. ready \in BOOLEAN
      BY DEF TypeOK, Process
    <3>1. r \in Process /\ r.pc = l /\ r.env = Loaded(p) /\ r.cmd = cmd
      BY <3>0, LoadedType DEF TypeOK, Process
    <3>2. proc' = [proc EXCEPT ![p] = r]
      BY <2>2
    <3> HIDE DEF r
    <3>3. ~overlap => Fits(r)
      BY <2>2, <3>1, LoadedFits DEF Fits
    <3>4. QED
      BY <1>4, <3>1, <3>2, <3>3, Quiet DEF Load, envVars
  <2>3. \/ Exit(p)
        \/ Goes("app", "load") \/ Goes(proc[p].cmd, "salt")
        \/ Goes(proc[p].cmd, "meta") /\ (proc[p].cmd # "app" \/ Loaded(p) \in Salts)
    BY <1>4 DEF Load
  <2>4. proc[p].cmd \in {"init", "migrate", "serve", "app"}
    BY DEF TypeOK, Process
  <2> HIDE DEF Goes
  <2>5. QED
    BY <2>1, <2>2, <2>3, <2>4
<1>5. CASE Reload(p)
  <2> DEFINE r == [proc[p] EXCEPT !.env = Loaded(p), !.pc = "meta"]
  <2>1. r \in Process /\ r.pc = "meta" /\ r.env = Loaded(p)
    BY LoadedType DEF TypeOK, Process
  <2>2. proc' = [proc EXCEPT ![p] = r]
    BY <1>5 DEF Reload
  <2> HIDE DEF r
  <2>3. ~overlap => file \in Salts
    BY <1>5 DEF Reload, At, OneFile, OneAtATime, Fits
  <2>4. ~overlap => Fits(r)
    BY <2>1, <2>3, LoadedFits DEF Fits
  <2>5. QED
    BY <1>5, <2>1, <2>2, <2>4, Quiet DEF Reload, envVars
<1>6. QED
  BY <1>1, <1>2, <1>c, <1>3, <1>4, <1>5

\* Writing a salt: nobody else writes one and nobody carries one, so that all there
\* is afterwards is the new one.
LEMMA WritingKeepsFile ==
    ASSUME TypeOK, OneFile, NEW p \in Procs, NEW s \in Salts, WriteSample(p, s) \/ AppendSalt(p, s)
    PROVE  OneFile'
<1>1. Writing(p) /\ file' = s /\ overlap' = overlap /\ used' = used /\ s # Empty
  BY StartupAssumption DEF WriteSample, AppendSalt, Writing, At
<1>2. CASE overlap
  BY <1>1, <1>2 DEF OneFile
<1>3. CASE ~overlap
  <2>1. /\ file \notin Salts /\ used = {}
        /\ \A q \in Procs : proc[q].env = NoLine /\ proc[q].pc # "reload" /\ Fits(proc[q])
        /\ \A q \in Procs : Writing(q) => q = p
    BY <1>1, <1>3 DEF OneFile, OneAtATime, Fits
  <2>2. PICK r \in Process : /\ proc' = [proc EXCEPT ![p] = r]
                             /\ r.pc \in {"salt", "reload", "load"} /\ r.env \in {NoLine, s}
    <3>1. CASE WriteSample(p, s)
      <4> DEFINE r == [proc[p] EXCEPT !.pc = "salt"]
      <4>1. r \in Process /\ r.pc = "salt" /\ r.env = NoLine
        BY <2>1 DEF TypeOK, Process
      <4>2. proc' = [proc EXCEPT ![p] = r]
        BY <3>1 DEF WriteSample, Goto
      <4> HIDE DEF r
      <4>3. QED
        BY <4>1, <4>2
    <3>2. CASE AppendSalt(p, s)
      <4> DEFINE c == proc[p].cmd
                 env == IF proc[p].env = NoLine THEN s ELSE proc[p].env
                 cmd == IF c = "serve" THEN "app" ELSE c
                 pc == IF c = "app" THEN "reload" ELSE "load"
                 r == [proc[p] EXCEPT !.env = env, !.cmd = cmd, !.pc = pc]
      <4>1. r \in Process /\ r.pc \in {"reload", "load"} /\ r.env = s
        BY <2>1 DEF TypeOK, Process
      <4>2. proc' = [proc EXCEPT ![p] = r]
        BY <3>2 DEF AppendSalt, AfterSalt
      <4> HIDE DEF r
      <4>3. QED
        BY <4>1, <4>2
    <3>3. QED
      BY <3>1, <3>2
  <2>3. proc'[p] = r /\ \A q \in Procs : q # p => proc'[q] = proc[q]
    BY <2>2 DEF TypeOK
  <2>4. \A q \in Procs : Fits(proc[q])'
    BY <1>1, <2>1, <2>2, <2>3 DEF Fits
  <2>5. \A q \in Procs : ~ Writing(q)'
    BY <2>1, <2>2, <2>3 DEF Writing
  <2>6. QED
    BY <1>1, <2>1, <2>4, <2>5 DEF OneFile, OneAtATime
<1>4. QED
  BY <1>2, <1>3

\* run_migrations moves processes on; its outcome is an end or a socket to bind.
LEMMA DatabaseKeepsFile ==
    ASSUME TypeOK, OneFile, NEW p \in Procs,
           \/ EnsureTable(p) \/ AppliedMigrations(p) \/ Apply(p) \/ CommitMigration(p)
           \/ LockTimeout(p) \/ Bind(p) \/ Stop(p) \/ Kill(p)
    PROVE  OneFile'
<1> USE DEF envVars, dbVars
<1>1. CASE Exit(p) /\ UNCHANGED <<file, overlap, used>>
  BY <1>1, Ends
<1>2. ASSUME NEW l \in {"known", "commit"}, proc[p].pc \in {"meta", "known", "apply", "commit"},
             Goto(p, l), UNCHANGED <<file, overlap, used>>
      PROVE  OneFile'
  <2> DEFINE r == [proc[p] EXCEPT !.pc = l]
  <2>1. proc' = [proc EXCEPT ![p] = r]
    BY <1>2 DEF Goto
  <2>2. r \in Process /\ r.pc = l
    BY DEF TypeOK, Process
  <2>3. ~overlap => Fits(r)
    BY <1>2, Moves DEF OneFile, OneAtATime
  <2> HIDE DEF r
  <2>4. QED
    BY <1>2, <2>1, <2>2, <2>3, Quiet
<1>3. ASSUME NEW left \in SUBSET Versions, Continue(p, left), proc[p].pc \in {"known", "commit"},
             UNCHANGED <<file, overlap, used>>
      PROVE  OneFile'
  <2>1. CASE left = {} /\ proc[p].cmd # "app"
    BY <1>1, <1>3, <2>1 DEF Continue
  <2>2. CASE ~(left = {} /\ proc[p].cmd # "app")
    <3> DEFINE l == IF left = {} THEN "bind" ELSE "apply"
               r == [proc[p] EXCEPT !.todo = left, !.pc = l]
    <3>1. proc' = [proc EXCEPT ![p] = r]
      BY <1>3, <2>2 DEF Continue
    <3>2. r \in Process /\ r.pc = l /\ r.env = proc[p].env /\ r.cmd = proc[p].cmd
      BY DEF TypeOK, Process
    <3> HIDE DEF r
    <3>3. ~overlap => Fits(r)
      BY <1>3, <2>2, <3>2 DEF OneFile, OneAtATime, Fits
    <3>4. QED
      BY <1>3, <3>1, <3>2, <3>3, Quiet
  <2>3. QED
    BY <2>1, <2>2
<1>4. CASE EnsureTable(p)
  BY <1>2, <1>4 DEF EnsureTable, At
<1>5. CASE AppliedMigrations(p)
  BY <1>3, <1>5 DEF AppliedMigrations, At
<1>6. CASE Apply(p)
  BY <1>1, <1>2, <1>6 DEF Apply, At
<1>7. CASE CommitMigration(p)
  <2>1. proc[p].todo \ {Version(p)} \in SUBSET Versions
    BY DEF TypeOK, Process
  <2>2. QED
    BY <1>3, <1>7, <2>1 DEF CommitMigration, At
<1>8. CASE LockTimeout(p) \/ Kill(p)
  BY <1>1, <1>8 DEF LockTimeout, Kill
<1>s. CASE Stop(p)
  <2>1. Off \in Process /\ Off.pc = "off" /\ Fits(Off)
    BY EndedType DEF Fits
  <2>2. QED
    BY <1>s, <2>1, Quiet DEF Stop
<1>9. CASE Bind(p)
  <2>1. CASE Exit(p) /\ UNCHANGED used
    BY <1>1, <1>9, <2>1 DEF Bind
  <2>2. CASE /\ Goto(p, "serving")
             /\ used' = used \cup {IF proc[p].env \in Salts THEN proc[p].env ELSE Empty}
    <3> DEFINE r == [proc[p] EXCEPT !.pc = "serving"]
    <3>1. proc' = [proc EXCEPT ![p] = r]
      BY <2>2 DEF Goto
    <3>2. r \in Process /\ r.pc = "serving" /\ r.env = proc[p].env
      BY DEF TypeOK, Process
    <3>3. ~overlap => Fits(r) /\ proc[p].env \in Salts
      BY <1>9, Moves DEF Bind, At, OneFile, OneAtATime, Fits
    <3> HIDE DEF r
    <3>4. ~overlap => used' = used \cup {r.env}
      BY <2>2, <3>2, <3>3
    <3>5. QED
      BY <1>9, <3>1, <3>2, <3>3, <3>4, Quiet DEF Bind
  <2>3. QED
    BY <1>9, <2>1, <2>2 DEF Bind
<1>10. QED
  BY <1>4, <1>5, <1>6, <1>7, <1>8, <1>s, <1>9

\* LOG_SALT, once used, stays, if no two processes gave .env a salt at the same time
\* and the first .env did not have an empty one (config.ensure_log_salt).
THEOREM SaltKept == ASSUME Empty \notin First PROVE Spec => []SaltIsKept
<1>1. Init => TypeOK /\ OneFile
  BY InitMigrated, InitOneFile
<1>2. TypeOK /\ OneFile /\ [Next]_vars => OneFile'
  <2> SUFFICES ASSUME TypeOK, OneFile, [Next]_vars PROVE OneFile'
    OBVIOUS
  <2>1. CASE UNCHANGED vars
    BY <2>1 DEF vars, OneFile, OneAtATime, Fits, Writing
  <2>2. ASSUME NEW p \in Procs, Start(p) \/ Step(p) \/ LockTimeout(p) \/ Stop(p) \/ Kill(p)
        PROVE  OneFile'
    BY <2>2, ConfigurationKeepsFile, WritingKeepsFile, DatabaseKeepsFile DEF Step
  <2>3. QED
    BY <2>1, <2>2 DEF Next
<1>3. OneFile => SaltIsKept
  BY DEF OneFile, OneAtATime, SaltIsKept
<1>4. QED
  BY <1>1, <1>2, <1>3, TypeCorrect, PTL DEF Spec
===============================================================================
