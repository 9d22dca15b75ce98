-------------------------------- MODULE StaticSite --------------------------------
(***************************************************************************)
(* `deploy-static`, which nginx's directory is written by: run by an       *)
(* operator or deploy.sh, and by a watcher after each import, possibly at  *)
(* once, while commands change the store and while visitors read.          *)
(*                                                                         *)
(* A file is the set of what was written to it since it was last           *)
(* truncated: {} while it is empty, more than one where two writers have   *)
(* written over each other.  A page is what it was rendered from: the      *)
(* version of the row that was listed, and that of the citations read      *)
(* later, if there were any.  The pages that need no package are left out, as are the assets, *)
(* which are copied before the store is read.                              *)
(***************************************************************************)
EXTENDS Integers, FiniteSets

CONSTANTS
    Deployers,   \* processes that deploy
    Packages,    \* each with an id and a slug of its own
    MaxEdits,    \* bound on commits to the store
    MaxCrashes,  \* bound on deployments that are killed
    None

ASSUME StaticAssumption ==
    /\ MaxEdits \in Nat /\ MaxCrashes \in Nat
    /\ None \notin Nat /\ None \notin Deployers /\ None \notin Packages

VARIABLES
    ver,       \* the version of each package in the store
    citations, \* that of its citations: None where the row and they are deleted
    public,    \* the packages that are published
    index,     \* index.html
    dir,       \* articles/ exists
    page,      \* the articles: None where there is no file
    job,       \* the deployments: next step, what was listed, work left, file that is open
    shown,     \* history: versions that have been published
    whole,     \* history: what the deployment that ended last has listed, if no other
               \* ran beside it and none has begun since
    edits, crashes

vars == <<ver, citations, public, index, dir, page, job, shown, whole, edits, crashes>>
site == <<index, dir, page>>
store == <<ver, citations, public, shown, edits>>

Versions == 0..MaxEdits
Rows == Packages \X Versions
Page == [row : Versions, cits : Versions \cup {None}]

ASSUME NoFileAssumption == \A content \in SUBSET Page : content # None

NoJob == [pc |-> "off", listed |-> {}, left |-> {}, open |-> None, cits |-> 0,
          alone |-> TRUE, calm |-> TRUE]

TypeOK ==
    /\ ver \in [Packages -> Versions] /\ citations \in [Packages -> Versions \cup {None}]
    /\ public \subseteq Packages
    /\ index \subseteq SUBSET Rows
    /\ dir \in BOOLEAN
    /\ page \in [Packages -> {None} \cup SUBSET Page]
    /\ job \in [Deployers ->
                  [pc : {"off", "truncate", "index", "exists", "unlink", "rmdir", "mkdir",
                         "cits", "create", "write"},
                   listed : SUBSET Rows, left : SUBSET Packages,
                   open : Packages \cup {None}, cits : Versions \cup {None},
                   alone : BOOLEAN, calm : BOOLEAN]]
    /\ shown \subseteq Rows
    /\ whole \in {None} \cup [listed : SUBSET Rows, calm : BOOLEAN]
    /\ edits \in 0..MaxEdits /\ crashes \in 0..MaxCrashes

Init ==
    /\ ver = [p \in Packages |-> 0] /\ citations = ver /\ public \in SUBSET Packages
    /\ index = {} /\ dir = FALSE /\ page = [p \in Packages |-> None]
    /\ job = [d \in Deployers |-> NoJob]
    /\ shown = public \X {0} /\ whole = None
    /\ edits = 0 /\ crashes = 0

-------------------------------------------------------------------------------
(* The store, changed by other commands. *)

Edit(packages, versions, cits, replacing) ==
    /\ edits < MaxEdits /\ edits' = edits + 1
    /\ public' = packages /\ ver' = versions /\ citations' = cits
    /\ shown' = shown \cup {<<p, versions[p]>> : p \in packages}
    /\ job' = [d \in Deployers |-> [job[d] EXCEPT !.calm = @ /\ ~(replacing /\ job[d].pc # "off")]]
    /\ UNCHANGED <<site, whole, crashes>>

Exist(p) == citations[p] # None
Publish(p) == Exist(p) /\ p \notin public /\ Edit(public \cup {p}, ver, citations, FALSE)
Withhold(p) == p \in public /\ Edit(public \ {p}, ver, citations, FALSE)
\* --replace: a commit deletes the row and its citations, and another, unless the import
\* is killed before it, inserts the new ones, whose row waits for its transition.
ReplaceDelete(p) ==
    Exist(p) /\ Edit(public \ {p}, ver, [citations EXCEPT ![p] = None], TRUE)
ReplaceInsert(p) ==
    ~Exist(p) /\ LET next == ver[p] + 1
                 IN Edit(public, [ver EXCEPT ![p] = next], [citations EXCEPT ![p] = next], TRUE)

-------------------------------------------------------------------------------
(* A deployment. *)

At(d, pc) == job[d].pc = pc
Running == {d \in Deployers : ~At(d, "off")}
Goto(d, pc) == job' = [job EXCEPT ![d].pc = pc]

\* list_packages(status="published").
ListOfAny(d) ==                                  \* mutant: a package of any status is listed
    /\ At(d, "off")
    /\ job' = [e \in Deployers |->
                 IF e = d THEN [NoJob EXCEPT !.pc = "truncate", !.listed = {<<p, ver[p]>> : p \in Packages},
                                             !.alone = Running = {}]
                 ELSE [job[e] EXCEPT !.alone = FALSE]]
    /\ whole' = None
    /\ UNCHANGED <<store, site, crashes>>
List(d) ==
    /\ At(d, "off")
    /\ job' = [e \in Deployers |->
                 IF e = d THEN [NoJob EXCEPT !.pc = "truncate", !.listed = {<<p, ver[p]>> : p \in public},
                                             !.alone = Running = {}]
                 ELSE [job[e] EXCEPT !.alone = FALSE]]
    /\ whole' = None
    /\ UNCHANGED <<store, site, crashes>>

\* write_text opens the file and truncates it, and then writes.
TruncateIndex(d) ==
    /\ At(d, "truncate")
    /\ index' = {} /\ Goto(d, "index")
    /\ UNCHANGED <<store, dir, page, whole, crashes>>
WriteIndex(d) ==
    /\ At(d, "index")
    /\ index' = index \cup {job[d].listed} /\ Goto(d, "exists")
    /\ UNCHANGED <<store, dir, page, whole, crashes>>

\* rmtree lists the directory, removes file after file and then the directory, where
\* there is one.
Present == {p \in Packages : page[p] # None}
KeepTree(d) ==                                   \* mutant: the directory is not cleared
    /\ At(d, "exists") /\ Goto(d, "mkdir")
    /\ UNCHANGED <<store, site, whole, crashes>>
Exists(d) ==
    /\ At(d, "exists")
    /\ job' = [job EXCEPT ![d].pc = IF dir THEN "unlink" ELSE "mkdir", ![d].left = Present]
    /\ UNCHANGED <<store, site, whole, crashes>>

\* Whoever has the file open goes on to write to a file without a name.
Unlink(d) ==
    /\ At(d, "unlink")
    /\ \E p \in job[d].left :
         /\ page[p] # None
         /\ page' = [page EXCEPT ![p] = None]
         /\ job' = [e \in Deployers |->
                      IF e = d THEN [job[d] EXCEPT !.left = @ \ {p}]
                      ELSE IF At(e, "write") /\ job[e].open = p THEN [job[e] EXCEPT !.open = None]
                      ELSE job[e]]
    /\ UNCHANGED <<store, index, dir, whole, crashes>>
RemoveDir(d) ==
    /\ At(d, "unlink") /\ job[d].left = {} /\ dir /\ Present = {}
    /\ dir' = FALSE /\ Goto(d, "mkdir")
    /\ UNCHANGED <<store, index, page, whole, crashes>>
MakeDir(d) ==
    /\ At(d, "mkdir")
    /\ dir' = TRUE
    /\ job' = [job EXCEPT ![d].pc = "cits", ![d].left = {r[1] : r \in job[d].listed}]
    /\ UNCHANGED <<store, index, page, whole, crashes>>

\* For each package listed: the citations are read, the file opened and written.
Cits(d) ==
    /\ At(d, "cits")
    /\ \E p \in job[d].left :
         job' = [job EXCEPT ![d].pc = "create", ![d].open = p, ![d].cits = citations[p]]
    /\ UNCHANGED <<store, site, whole, crashes>>
Create(d) ==
    /\ At(d, "create") /\ dir
    /\ page' = [page EXCEPT ![job[d].open] = {}]
    /\ job' = [job EXCEPT ![d].pc = "write", ![d].left = @ \ {job[d].open}]
    /\ UNCHANGED <<store, index, dir, whole, crashes>>
Rendered(d, p) == [row |-> (CHOOSE r \in job[d].listed : r[1] = p)[2], cits |-> job[d].cits]
Write(d) ==
    /\ At(d, "write")
    /\ LET p == job[d].open
       IN page' = IF p = None THEN page ELSE [page EXCEPT ![p] = @ \cup {Rendered(d, p)}]
    /\ job' = [job EXCEPT ![d].pc = "cits", ![d].open = None]
    /\ UNCHANGED <<store, index, dir, whole, crashes>>
Finish(d) ==
    /\ At(d, "cits") /\ job[d].left = {}
    /\ whole' = IF job[d].alone THEN [listed |-> job[d].listed, calm |-> job[d].calm] ELSE whole
    /\ job' = [job EXCEPT ![d] = NoJob]
    /\ UNCHANGED <<store, site, crashes>>

\* The directory has changed under it: an OSError ends the command, and the watcher.
Clash(d) ==
    /\ \/ At(d, "unlink") /\ \E p \in job[d].left : page[p] = None
       \/ At(d, "unlink") /\ job[d].left = {} /\ ~(dir /\ Present = {})
       \/ At(d, "create") /\ ~dir
    /\ job' = [job EXCEPT ![d] = NoJob]
    /\ UNCHANGED <<store, site, whole, crashes>>
Kill(d) ==
    /\ ~At(d, "off") /\ crashes < MaxCrashes
    /\ crashes' = crashes + 1
    /\ job' = [job EXCEPT ![d] = NoJob]
    /\ UNCHANGED <<store, site, whole>>

-------------------------------------------------------------------------------
Step(d) ==
    \/ TruncateIndex(d) \/ WriteIndex(d) \/ Exists(d) \/ Unlink(d) \/ RemoveDir(d) \/ MakeDir(d)
    \/ Cits(d) \/ Create(d) \/ Write(d) \/ Finish(d) \/ Clash(d)

Next ==
    \/ \E p \in Packages : Publish(p) \/ Withhold(p) \/ ReplaceDelete(p) \/ ReplaceInsert(p)
    \/ \E d \in Deployers : List(d) \/ Step(d) \/ Kill(d)

Spec == Init /\ [][Next]_vars

-------------------------------------------------------------------------------
(* Properties *)

\* A deployment that had the directory to itself leaves what it listed and nothing else,
\* however deployments before it were killed, clashed or wrote over each other: a
\* package that was withheld has no page, and every page is that of its row, with the
\* citations of another version, or none, only if --replace committed meanwhile.
SiteIsSnapshot ==
    whole # None =>
        /\ index = {whole.listed}
        /\ Present = {r[1] : r \in whole.listed}
        /\ \A r \in whole.listed : \E c \in Versions \cup {None} :
              page[r[1]] = {[row |-> r[2], cits |-> c]} /\ (whole.calm => c = r[2])

\* At any time, a visitor finds no row in the index or in a page that was not
\* published when some deployment listed it.
PagesWerePublished ==
    /\ UNION index \subseteq shown
    /\ \A p \in Present : {<<p, g.row>> : g \in page[p]} \subseteq shown

\* Statement that the code does not keep, for the configuration that refutes it.
\* "A frozen copy": while no deployment runs, what the index names has a page.
LinksResolve ==
    Running = {} => \A r \in UNION index : page[r[1]] \notin {None, {}}

===============================================================================
