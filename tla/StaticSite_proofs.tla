---------------------------- MODULE StaticSite_proofs ----------------------------
(***************************************************************************)
(* Proofs about StaticSite for every number of packages, of deployments at *)
(* once, of commits between their steps and of kills.                      *)
(***************************************************************************)
EXTENDS StaticSite, TLAPS

Pcs == {"off", "truncate", "index", "exists", "unlink", "rmdir", "mkdir", "cits", "create", "write"}
Job == [pc : Pcs, listed : SUBSET Rows, left : SUBSET Packages, open : Packages \cup {None},
        cits : Versions \cup {None}, alone : BOOLEAN, calm : BOOLEAN]

\* No package has more versions than there were commits.
Counted == \A p \in Packages : ver[p] <= edits

Names(rows) == {r[1] : r \in rows}

\* What a deployment has listed was published; what it goes through, and the page it
\* writes, are of its list.
Carries(j) ==
    /\ j.listed \subseteq shown
    /\ j.pc \in {"cits", "create", "write"} => j.left \subseteq Names(j.listed)
    /\ j.pc = "create" => j.open \in Names(j.listed)
    /\ j.pc = "write" => j.open \in Names(j.listed) \cup {None}

\* What is published now has been published.
Lists == \A p \in public : <<p, ver[p]>> \in shown

\* The citations are those of the row where there is one, and what is published has one.
Cited ==
    /\ \A p \in Packages : citations[p] \in {ver[p], None}
    /\ \A p \in public : citations[p] # None

\* Whoever is about to write to a file by its name finds one: rmtree takes the name away.
Named == \A d \in Deployers : At(d, "write") /\ job[d].open # None => page[job[d].open] # None

SiteInv ==
    /\ TypeOK /\ Counted /\ Lists /\ Cited
    /\ \A d \in Deployers : Carries(job[d])
    /\ Named /\ PagesWerePublished

-------------------------------------------------------------------------------
\* A deployment that is over carries nothing.
LEMMA NoJobIsJob == NoJob \in Job /\ Carries(NoJob)
BY StaticAssumption DEF NoJob, Job, Pcs, Versions, Carries

\* The types of the deployments, with the name that the proofs give them.
LEMMA JobType == TypeOK <=> /\ ver \in [Packages -> Versions]
                            /\ citations \in [Packages -> Versions \cup {None}]
                            /\ public \subseteq Packages
                            /\ index \subseteq SUBSET Rows /\ dir \in BOOLEAN
                            /\ page \in [Packages -> {None} \cup SUBSET Page]
                            /\ job \in [Deployers -> Job]
                            /\ shown \subseteq Rows
                            /\ whole \in {None} \cup [listed : SUBSET Rows, calm : BOOLEAN]
                            /\ edits \in 0..MaxEdits /\ crashes \in 0..MaxCrashes
BY DEF TypeOK, Job, Pcs

\* Nothing has been written at first.
LEMMA InitSite == Init => SiteInv
<1> SUFFICES ASSUME Init PROVE SiteInv
  OBVIOUS
<1>1. /\ ver \in [Packages -> Versions] /\ citations = ver /\ public \subseteq Packages
      /\ edits \in 0..MaxEdits /\ crashes \in 0..MaxCrashes
  BY StaticAssumption DEF Init, Versions
<1>2. shown \subseteq Rows /\ Lists /\ Cited /\ Counted
  <2>1. \A p \in Packages : ver[p] = 0 /\ citations[p] = 0 /\ 0 # None
    BY <1>1, StaticAssumption DEF Init
  <2>2. QED
    BY <1>1, <2>1 DEF Init, Rows, Lists, Cited, Counted, Versions
<1>3. job \in [Deployers -> Job] /\ \A d \in Deployers : Carries(job[d])
  BY NoJobIsJob DEF Init
<1>4. Named /\ PagesWerePublished
  BY DEF Init, NoJob, Named, At, PagesWerePublished, Present
<1>5. TypeOK
  BY <1>1, <1>2, <1>3, JobType DEF Init
<1>6. QED
  BY <1>2, <1>3, <1>4, <1>5 DEF SiteInv

-------------------------------------------------------------------------------
\* A commit to the store: what was published remains known as such.
LEMMA EditStep ==
    ASSUME SiteInv, NEW packages \in SUBSET Packages, NEW versions, NEW replacing \in BOOLEAN,
           versions \in [Packages -> Nat], \A p \in Packages : versions[p] <= edits + 1,
           NEW cits \in [Packages -> Nat \cup {None}],
           \A p \in Packages : cits[p] \in {versions[p], None}, \A p \in packages : cits[p] # None,
           Edit(packages, versions, cits, replacing)
    PROVE  SiteInv'
<1>1. /\ edits \in Nat /\ MaxEdits \in Nat /\ edits' \in 0..MaxEdits /\ edits' = edits + 1
  BY StaticAssumption, JobType DEF Edit, SiteInv
<1>2. ver' \in [Packages -> Versions] /\ public' \subseteq Packages /\ Counted'
  BY <1>1 DEF Edit, Versions, Counted
<1>c. citations' \in [Packages -> Versions \cup {None}] /\ Cited'
  <2>1. citations' = cits /\ ver' = versions /\ public' = packages
    BY DEF Edit
  <2>2. \A p \in Packages : cits[p] \in Versions \cup {None}
    BY <1>2, <2>1
  <2>3. QED
    BY <2>1, <2>2 DEF Cited
<1>3. shown' \subseteq Rows /\ shown \subseteq shown' /\ Lists'
  BY <1>2, JobType DEF Edit, SiteInv, Rows, Lists
<1>4. \A d \in Deployers : /\ job'[d] \in Job
                           /\ job'[d].listed = job[d].listed /\ job'[d].pc = job[d].pc
                           /\ job'[d].left = job[d].left /\ job'[d].open = job[d].open
  BY JobType DEF Edit, SiteInv, Job
<1>5. job' \in [Deployers -> Job]
  BY <1>4 DEF Edit
<1>6. \A d \in Deployers : Carries(job[d])'
  BY <1>3, <1>4 DEF SiteInv, Carries
<1>7. Named' /\ PagesWerePublished'
  BY <1>3, <1>4 DEF Edit, SiteInv, Named, At, PagesWerePublished, Present, site
<1>8. TypeOK'
  BY <1>1, <1>2, <1>c, <1>3, <1>5 DEF Edit, SiteInv, TypeOK, Job, Pcs, site
<1>9. QED
  BY <1>2, <1>c, <1>3, <1>6, <1>7, <1>8 DEF SiteInv

\* A step of a deployment, or its end, leaves the store alone.
LEMMA DeploymentStep ==
    ASSUME SiteInv, UNCHANGED store, job' \in [Deployers -> Job],
           \A d \in Deployers : Carries(job'[d]),
           index' \subseteq SUBSET Rows, dir' \in BOOLEAN, page' \in [Packages -> {None} \cup SUBSET Page],
           whole' \in {None} \cup [listed : SUBSET Rows, calm : BOOLEAN], crashes' \in 0..MaxCrashes,
           Named', PagesWerePublished'
    PROVE  SiteInv'
<1>1. TypeOK'
  BY DEF SiteInv, TypeOK, Job, Pcs, store
<1>2. Counted' /\ Lists' /\ Cited'
  BY DEF SiteInv, Counted, Lists, Cited, store
<1>3. \A d \in Deployers : Carries(job[d])'
  BY DEF Carries, store
<1>4. QED
  BY <1>1, <1>2, <1>3 DEF SiteInv

\* The same for a step that does not write, of one deployment.
LEMMA ReadingStep ==
    ASSUME SiteInv, UNCHANGED <<store, site>>, NEW d \in Deployers, NEW r \in Job, Carries(r),
           r.pc # "write", job' = [job EXCEPT ![d] = r],
           whole' \in {None} \cup [listed : SUBSET Rows, calm : BOOLEAN], crashes' \in 0..MaxCrashes
    PROVE  SiteInv'
<1>1. job' \in [Deployers -> Job] /\ \A e \in Deployers : Carries(job'[e])
  BY JobType DEF SiteInv
<1>2. Named' /\ PagesWerePublished'
  BY JobType DEF SiteInv, Named, At, PagesWerePublished, Present, store, site
<1>3. /\ index' \subseteq SUBSET Rows /\ dir' \in BOOLEAN
      /\ page' \in [Packages -> {None} \cup SUBSET Page]
  BY JobType DEF SiteInv, site
<1>4. QED
  BY <1>1, <1>2, <1>3, DeploymentStep

\* Listing, and the steps that prepare the directory.
LEMMA PreparingStep ==
    ASSUME SiteInv, NEW d \in Deployers,
           List(d) \/ TruncateIndex(d) \/ WriteIndex(d) \/ Exists(d) \/ Unlink(d) \/ RemoveDir(d) \/ MakeDir(d)
    PROVE  SiteInv'
<1> USE JobType DEF SiteInv, store, site, At
<1>j. job[d] \in Job /\ Carries(job[d])
  OBVIOUS
<1>1. CASE List(d)
  <2> DEFINE rows == {<<p, ver[p]>> : p \in public}
             alone == Running = {}
             r == [NoJob EXCEPT !.pc = "truncate", !.listed = rows, !.alone = alone]
  <2>1. rows \in SUBSET shown /\ rows \in SUBSET Rows /\ alone \in BOOLEAN
    BY DEF Lists, Rows
  <2> HIDE DEF rows, alone
  <2>2. r \in Job /\ r.pc = "truncate" /\ r.listed = rows
    BY <2>1, NoJobIsJob DEF NoJob, Job, Pcs
  <2>3. Carries(r)
    BY <2>1, <2>2 DEF Carries
  <2>4. \A e \in Deployers : job'[e] = IF e = d THEN r ELSE [job[e] EXCEPT !.alone = FALSE]
    BY <1>1 DEF List, rows, alone
  <2> HIDE DEF r
  <2>5. ASSUME NEW e \in Deployers, e # d
        PROVE  /\ job'[e] \in Job /\ job'[e].pc = job[e].pc /\ job'[e].listed = job[e].listed
               /\ job'[e].left = job[e].left /\ job'[e].open = job[e].open
    <3>1. job[e] \in Job /\ job'[e] = [job[e] EXCEPT !.alone = FALSE]
      BY <2>4, <2>5
    <3>2. QED
      BY <3>1 DEF Job
  <2>6. \A e \in Deployers : job'[e] \in Job /\ Carries(job'[e])
    BY <2>2, <2>3, <2>4, <2>5 DEF Carries
  <2>7. job' \in [Deployers -> Job]
    BY <1>1, <2>6 DEF List
  <2>8. UNCHANGED site /\ UNCHANGED store
    BY <1>1 DEF List
  <2>9. PagesWerePublished'
    BY <2>8 DEF PagesWerePublished, Present
  <2>10. Named'
    BY <2>2, <2>4, <2>5, <2>8 DEF Named
  <2>11. QED
    BY <1>1, <2>6, <2>7, <2>8, <2>9, <2>10, DeploymentStep DEF List
<1>g. ASSUME NEW l \in {"index", "exists", "mkdir"}, Goto(d, l)
      PROVE  /\ job' \in [Deployers -> Job] /\ \A e \in Deployers : Carries(job'[e])
             /\ \A e \in Deployers : At(e, "write")' => At(e, "write") /\ job'[e].open = job[e].open
  BY <1>g, <1>j DEF Goto, Job, Pcs, Carries
<1>2. CASE TruncateIndex(d)
  <2>1. index' = {} /\ page' = page /\ UNCHANGED store
    BY <1>2 DEF TruncateIndex
  <2>2. Named' /\ PagesWerePublished'
    BY <1>2, <1>g, <2>1 DEF TruncateIndex, Named, PagesWerePublished, Present
  <2>3. QED
    BY <1>2, <1>g, <2>1, <2>2, DeploymentStep DEF TruncateIndex
<1>3. CASE WriteIndex(d)
  <2>1. index' = index \cup {job[d].listed} /\ page' = page /\ UNCHANGED store
    BY <1>3 DEF WriteIndex
  <2>2. job[d].listed \in SUBSET Rows /\ job[d].listed \in SUBSET shown
    BY <1>j DEF Job, Carries
  <2>3. Named' /\ PagesWerePublished'
    BY <1>3, <1>g, <2>1, <2>2 DEF WriteIndex, Named, PagesWerePublished, Present
  <2>4. QED
    BY <1>3, <1>g, <2>1, <2>2, <2>3, DeploymentStep DEF WriteIndex
<1>4. CASE Exists(d)
  <2> DEFINE l == IF dir THEN "unlink" ELSE "mkdir"
             r == [job[d] EXCEPT !.pc = l, !.left = Present]
  <2>1. l \in {"unlink", "mkdir"} /\ Present \subseteq Packages
    BY DEF Present
  <2>2. job' = [job EXCEPT ![d] = r]
    BY <1>4 DEF Exists
  <2> HIDE DEF l
  <2>3. r \in Job /\ r.pc = l /\ r.listed = job[d].listed
    BY <1>j, <2>1 DEF Job, Pcs
  <2> HIDE DEF r
  <2>4. Carries(r)
    BY <1>j, <2>1, <2>3 DEF Carries
  <2>5. QED
    BY <1>4, <2>1, <2>2, <2>3, <2>4, ReadingStep DEF Exists
<1>5. CASE Unlink(d)
  <2>1. PICK p \in job[d].left : /\ page' = [page EXCEPT ![p] = None]
                                 /\ job' = [e \in Deployers |->
                                              IF e = d THEN [job[d] EXCEPT !.left = @ \ {p}]
                                              ELSE IF At(e, "write") /\ job[e].open = p
                                                   THEN [job[e] EXCEPT !.open = None]
                                              ELSE job[e]]
    BY <1>5 DEF Unlink
  <2>2. ASSUME NEW e \in Deployers
        PROVE  /\ job'[e] \in Job /\ job'[e].pc = job[e].pc
               /\ job'[e].listed = job[e].listed /\ job'[e].left \subseteq job[e].left
               /\ job'[e].open = job[e].open \/ (job'[e].open = None /\ job[e].pc = "write")
               /\ job[e].pc = "write" => job'[e].open # p
    <3>1. job[e] \in Job /\ p \in Packages /\ p # None
      BY <1>j, StaticAssumption DEF Job
    <3>2. CASE e = d
      <4>1. job'[e] = [job[e] EXCEPT !.left = job[e].left \ {p}] /\ job[e].pc # "write"
        BY <1>5, <2>1, <3>2 DEF Unlink
      <4>2. QED
        BY <3>1, <4>1 DEF Job
    <3>3. CASE e # d /\ job[e].pc = "write" /\ job[e].open = p
      <4>1. job'[e] = [job[e] EXCEPT !.open = None]
        BY <2>1, <3>3
      <4>2. QED
        BY <3>1, <3>3, <4>1 DEF Job
    <3>4. CASE e # d /\ ~(job[e].pc = "write" /\ job[e].open = p)
      <4>1. job'[e] = job[e]
        BY <2>1, <3>4
      <4>2. QED
        BY <3>1, <3>4, <4>1
    <3>5. QED
      BY <3>2, <3>3, <3>4
  <2>3. job' \in [Deployers -> Job] /\ \A e \in Deployers : Carries(job'[e])
    BY <2>1, <2>2 DEF Carries
  <2>4. Named' /\ PagesWerePublished'
    BY <1>5, <2>1, <2>2 DEF Unlink, Named, PagesWerePublished, Present
  <2>5. QED
    BY <1>5, <2>1, <2>3, <2>4, DeploymentStep DEF Unlink
<1>6. CASE RemoveDir(d)
  <2>1. Named' /\ PagesWerePublished'
    BY <1>6, <1>g DEF RemoveDir, Named, PagesWerePublished, Present
  <2>2. QED
    BY <1>6, <1>g, <2>1, DeploymentStep DEF RemoveDir
<1>7. CASE MakeDir(d)
  <2> DEFINE names == {x[1] : x \in job[d].listed}
             r == [job[d] EXCEPT !.pc = "cits", !.left = names]
  <2>1. names \in SUBSET Packages /\ names = Names(job[d].listed)
    BY <1>j DEF Job, Rows, Names
  <2>2. job' = [job EXCEPT ![d] = r] /\ page' = page /\ index' = index /\ dir' = TRUE
    BY <1>7 DEF MakeDir
  <2> HIDE DEF names
  <2>3. r \in Job /\ r.pc = "cits" /\ r.listed = job[d].listed /\ r.left = names
    BY <1>j, <2>1 DEF Job, Pcs
  <2> HIDE DEF r
  <2>4. job' \in [Deployers -> Job] /\ \A e \in Deployers : Carries(job'[e])
    BY <1>j, <2>1, <2>2, <2>3 DEF Carries
  <2>5. Named' /\ PagesWerePublished'
    BY <1>7, <2>2, <2>3 DEF MakeDir, Named, PagesWerePublished, Present
  <2>6. QED
    BY <1>7, <2>2, <2>4, <2>5, DeploymentStep DEF MakeDir
<1>8. QED
  BY <1>1, <1>2, <1>3, <1>4, <1>5, <1>6, <1>7

\* A page is rendered from a row of the list, which was published when it was listed.
LEMMA RenderedWasPublished ==
    ASSUME SiteInv, NEW d \in Deployers, At(d, "write"), job[d].open # None
    PROVE  /\ job[d].open \in Packages
           /\ Rendered(d, job[d].open) \in Page
           /\ <<job[d].open, Rendered(d, job[d].open).row>> \in shown
<1> DEFINE p == job[d].open
           r == CHOOSE r \in job[d].listed : r[1] = p
<1>1. p \in Names(job[d].listed) /\ p \in Packages /\ job[d].listed \subseteq Rows
      /\ job[d].listed \subseteq shown /\ job[d].cits \in Versions \cup {None}
  BY JobType DEF SiteInv, Carries, Job, At
<1>2. r \in job[d].listed /\ r[1] = p
  BY <1>1 DEF Names
<1>3. r[2] \in Versions /\ r = <<p, r[2]>>
  BY <1>1, <1>2 DEF Rows
<1>4. Rendered(d, p) = [row |-> r[2], cits |-> job[d].cits]
  BY DEF Rendered
<1> HIDE DEF r
<1>5. QED
  BY <1>1, <1>2, <1>3, <1>4 DEF Page

\* Rendering page after page, and the ways a deployment ends.
LEMMA RenderingStep ==
    ASSUME SiteInv, NEW d \in Deployers,
           Cits(d) \/ Create(d) \/ Write(d) \/ Finish(d) \/ Clash(d) \/ Kill(d)
    PROVE  SiteInv'
<1> USE JobType DEF SiteInv, store, site, At
<1>j. job[d] \in Job /\ Carries(job[d])
  OBVIOUS
<1>1. CASE Cits(d)
  <2>1. PICK p \in job[d].left :
           job' = [job EXCEPT ![d].pc = "create", ![d].open = p, ![d].cits = citations[p]]
    BY <1>1 DEF Cits
  <2> DEFINE r == [job[d] EXCEPT !.pc = "create", !.open = p, !.cits = citations[p]]
  <2>2. p \in Packages /\ citations[p] \in Versions \cup {None} /\ job[d].pc = "cits"
    BY <1>1, <1>j DEF Cits, Job
  <2>3. job' = [job EXCEPT ![d] = r]
    BY <2>1
  <2>4. r \in Job /\ r.pc = "create" /\ r.open = p /\ r.listed = job[d].listed /\ r.left = job[d].left
    BY <1>j, <2>2 DEF Job, Pcs
  <2> HIDE DEF r
  <2>5. Carries(r)
    BY <1>j, <2>2, <2>4 DEF Carries
  <2>6. QED
    BY <1>1, <2>3, <2>4, <2>5, ReadingStep DEF Cits
<1>2. CASE Create(d)
  <2> DEFINE r == [job[d] EXCEPT !.pc = "write", !.left = job[d].left \ {job[d].open}]
  <2>1. job' = [job EXCEPT ![d] = r] /\ page' = [page EXCEPT ![job[d].open] = {}] /\ index' = index
    BY <1>2 DEF Create
  <2>2. /\ r \in Job /\ r.pc = "write" /\ r.open = job[d].open /\ r.listed = job[d].listed
        /\ r.left \subseteq job[d].left
    BY <1>j DEF Job, Pcs
  <2> HIDE DEF r
  <2>3. Carries(r)
    BY <1>2, <1>j, <2>2 DEF Create, Carries
  <2>4. job' \in [Deployers -> Job] /\ \A e \in Deployers : Carries(job'[e])
    BY <2>1, <2>2, <2>3
  <2>5. page' \in [Packages -> {None} \cup SUBSET Page] /\ PagesWerePublished'
    <3> DEFINE content == {}
    <3>1. content \in {None} \cup SUBSET Page /\ page' = [page EXCEPT ![job[d].open] = content]
      BY <2>1
    <3>2. job[d].open \in Packages
      BY <1>2, <1>j DEF Create, Carries, Names, Job, Rows
    <3>3. \A p \in Packages : page'[p] = IF p = job[d].open THEN {} ELSE page[p]
      BY <2>1, <3>2
    <3>4. PagesWerePublished'
      BY <1>2, <2>1, <3>3 DEF Create, PagesWerePublished, Present
    <3> HIDE DEF content
    <3>5. page' \in [Packages -> {None} \cup SUBSET Page]
      BY <3>1, <3>2
    <3>6. QED
      BY <3>4, <3>5
  <2>6. Named'
    BY <2>1, <2>2, NoFileAssumption DEF Named, Job
  <2>7. QED
    BY <1>2, <2>4, <2>5, <2>6, DeploymentStep DEF Create
<1>3. CASE Write(d)
  <2> DEFINE p == job[d].open
             r == [job[d] EXCEPT !.pc = "cits", !.open = None]
  <2>1. job' = [job EXCEPT ![d] = r] /\ index' = index /\ dir' = dir /\ UNCHANGED store
    BY <1>3 DEF Write
  <2>2. r \in Job /\ r.pc = "cits" /\ r.listed = job[d].listed /\ r.left = job[d].left
    BY <1>j DEF Job, Pcs
  <2> HIDE DEF r
  <2>3. Carries(r)
    BY <1>3, <1>j, <2>2 DEF Write, Carries
  <2>4. job' \in [Deployers -> Job] /\ \A e \in Deployers : Carries(job'[e])
    BY <2>1, <2>2, <2>3
  <2>5. page' \in [Packages -> {None} \cup SUBSET Page] /\ Named' /\ PagesWerePublished'
    <3>1. CASE p = None
      BY <1>3, <2>1, <2>2, <3>1 DEF Write, Named, PagesWerePublished, Present
    <3>2. CASE p # None
      <4> DEFINE g == Rendered(d, p)
      <4>1. p \in Packages /\ g \in Page /\ <<p, g.row>> \in shown
        BY <1>3, <3>2, RenderedWasPublished DEF Write
      <4>2. page[p] # None /\ page[p] \in SUBSET Page
        BY <1>3, <3>2, <4>1 DEF Write, Named
      <4>3. page' = [page EXCEPT ![p] = page[p] \cup {g}]
        BY <1>3, <3>2 DEF Write
      <4> HIDE DEF g
      <4>5. \A q \in Packages : page[q] # None => page'[q] # None
        BY <4>1, <4>2, <4>3, NoFileAssumption
      <4>6. Named'
        BY <2>1, <2>2, <4>5, StaticAssumption DEF Named, Job
      <4>7. PagesWerePublished'
        BY <2>1, <4>1, <4>2, <4>3 DEF PagesWerePublished, Present
      <4> DEFINE content == page[p] \cup {g}
      <4>8. content \in SUBSET Page /\ page' = [page EXCEPT ![p] = content]
        BY <4>1, <4>2, <4>3
      <4> HIDE DEF content
      <4>9. page' \in [Packages -> {None} \cup SUBSET Page]
        BY <4>8
      <4>10. QED
        BY <4>6, <4>7, <4>9
    <3>3. QED
      BY <3>1, <3>2
  <2>6. QED
    BY <1>3, <2>1, <2>4, <2>5, DeploymentStep DEF Write
<1>4. CASE Finish(d)
  <2>1. whole' \in {None} \cup [listed : SUBSET Rows, calm : BOOLEAN]
    BY <1>4, <1>j DEF Finish, Job
  <2>2. QED
    BY <1>4, <2>1, NoJobIsJob, ReadingStep DEF Finish, NoJob
<1>5. CASE Clash(d)
  BY <1>5, NoJobIsJob, ReadingStep DEF Clash, NoJob
<1>6. CASE Kill(d)
  <2>1. crashes' \in 0..MaxCrashes
    BY <1>6, StaticAssumption DEF Kill
  <2>2. QED
    BY <1>6, <2>1, NoJobIsJob, ReadingStep DEF Kill, NoJob
<1>7. QED
  BY <1>1, <1>2, <1>3, <1>4, <1>5, <1>6

\* Every step keeps what the deployments carry true.
LEMMA StepSite == SiteInv /\ [Next]_vars => SiteInv'
<1> SUFFICES ASSUME SiteInv, [Next]_vars PROVE SiteInv'
  OBVIOUS
<1>1. CASE UNCHANGED vars
  BY <1>1 DEF vars, SiteInv, TypeOK, Counted, Lists, Cited, Carries, Named, At, PagesWerePublished, Present
<1>2. ASSUME NEW p \in Packages, Publish(p) \/ Withhold(p) \/ ReplaceDelete(p) \/ ReplaceInsert(p)
      PROVE  SiteInv'
  <2>1. /\ public \in SUBSET Packages /\ ver \in [Packages -> Nat] /\ edits \in Nat
        /\ citations \in [Packages -> Nat \cup {None}]
        /\ \A q \in Packages : citations[q] \in {ver[q], None}
        /\ \A q \in public : citations[q] # None
        /\ \A q \in Packages : ver[q] <= edits
    BY JobType, StaticAssumption DEF SiteInv, Counted, Cited, Versions
  <2>n. \A q \in Packages : ver[q] <= edits + 1
    BY <2>1
  <2>2. CASE Publish(p)
    <3> DEFINE packages == public \cup {p}
    <3>1. /\ packages \in SUBSET Packages /\ Edit(packages, ver, citations, FALSE)
          /\ \A q \in packages : citations[q] # None
      BY <2>1, <2>2 DEF Publish, Exist
    <3> HIDE DEF packages
    <3>2. QED
      BY <2>1, <2>n, <3>1, EditStep
  <2>3. CASE Withhold(p)
    <3> DEFINE packages == public \ {p}
    <3>1. /\ packages \in SUBSET Packages /\ Edit(packages, ver, citations, FALSE)
          /\ \A q \in packages : citations[q] # None
      BY <2>1, <2>3 DEF Withhold
    <3> HIDE DEF packages
    <3>2. QED
      BY <2>1, <2>n, <3>1, EditStep
  <2>4. CASE ReplaceDelete(p)
    <3> DEFINE packages == public \ {p}
               cits == [citations EXCEPT ![p] = None]
    <3>1. /\ packages \in SUBSET Packages /\ Edit(packages, ver, cits, TRUE)
          /\ cits \in [Packages -> Nat \cup {None}]
          /\ \A q \in Packages : cits[q] \in {ver[q], None}
          /\ \A q \in packages : cits[q] # None
      BY <2>1, <2>4 DEF ReplaceDelete
    <3> HIDE DEF packages, cits
    <3>2. QED
      BY <2>1, <2>n, <3>1, EditStep
  <2>5. CASE ReplaceInsert(p)
    <3> DEFINE next == ver[p] + 1
               versions == [ver EXCEPT ![p] = next]
               cits == [citations EXCEPT ![p] = next]
    <3>1. Edit(public, versions, cits, TRUE)
      BY <2>5 DEF ReplaceInsert
    <3>2. next \in Nat /\ next <= edits + 1 /\ next # None
      BY <2>1, StaticAssumption
    <3> HIDE DEF next
    <3>3. versions \in [Packages -> Nat] /\ \A q \in Packages : versions[q] <= edits + 1
      BY <2>1, <2>n, <3>2
    <3>4. /\ cits \in [Packages -> Nat \cup {None}]
          /\ \A q \in Packages : cits[q] \in {versions[q], None}
          /\ \A q \in public : cits[q] # None
      BY <2>1, <3>2
    <3> HIDE DEF versions, cits
    <3>5. QED
      BY <2>1, <3>1, <3>3, <3>4, EditStep
  <2>6. QED
    BY <1>2, <2>2, <2>3, <2>4, <2>5
<1>3. ASSUME NEW d \in Deployers, List(d) \/ Step(d) \/ Kill(d) PROVE SiteInv'
  BY <1>3, PreparingStep, RenderingStep DEF Step
<1>4. QED
  BY <1>1, <1>2, <1>3 DEF Next

\* The variables of StaticSite keep their types: rows, files and deployments.
THEOREM TypeCorrect == Spec => []TypeOK
<1>1. SiteInv => TypeOK
  BY DEF SiteInv
<1>2. QED
  BY <1>1, InitSite, StepSite, PTL DEF Spec

\* A visitor finds no row, in the index or a page, that was not published when some
\* deployment listed it (deploy-static and the watcher's deployments).
THEOREM SiteShowsPublished == Spec => []PagesWerePublished
<1>1. SiteInv => PagesWerePublished
  BY DEF SiteInv
<1>2. QED
  BY <1>1, InitSite, StepSite, PTL DEF Spec

-------------------------------------------------------------------------------
(* What a deployment leaves that had the site to itself. *)

\* A package is listed once, with the version that it has until --replace commits; and
\* so are the citations read for its page.
Lists1(j) ==
    /\ \A r1, r2 \in j.listed : r1[1] = r2[1] => r1 = r2
    /\ j.calm => \A r \in j.listed : ver[r[1]] = r[2] /\ citations[r[1]] = r[2]
    /\ j.pc \in {"create", "write"} /\ j.calm /\ j.open # None => <<j.open, j.cits>> \in j.listed

\* The page of p is whole, of the row that was listed, and of its citations but for --replace.
PageOf(listed, calm, p) ==
    \E r \in listed : r[1] = p /\ \E c \in Versions \cup {None} :
        page[p] = {[row |-> r[2], cits |-> c]} /\ (calm => c = r[2])

\* How far a deployment that runs alone has brought the site.
Brought(j) ==
    /\ j.pc = "index" => index = {}
    /\ j.pc \notin {"truncate", "index"} => index = {j.listed}
    /\ j.pc = "unlink" => dir /\ Present = j.left
    /\ j.pc = "mkdir" => Present = {}
    /\ j.pc \in {"cits", "create", "write"} =>
          /\ Present = Names(j.listed) \ j.left
          /\ \A p \in Present : (j.pc = "write" /\ p = j.open) \/ PageOf(j.listed, j.calm, p)
    /\ j.pc = "create" => j.open \in j.left
    /\ j.pc = "write" => j.open \in Present /\ page[j.open] = {}

Single == \A d \in Deployers : At(d, "off") \/ ~job[d].alone
                                 \/ ((\A e \in Deployers \ {d} : At(e, "off")) /\ Brought(job[d]))

SnapInv ==
    /\ \A d \in Deployers : At(d, "off") \/ Lists1(job[d])
    /\ ~dir => Present = {}
    /\ Single
    /\ whole # None => Running = {}
    /\ SiteIsSnapshot

\* At first nobody deploys, and there is no directory.
LEMMA InitSnap == Init => SnapInv
BY DEF Init, SnapInv, Single, At, NoJob, Present, SiteIsSnapshot, Running

\* Who runs alone is the only one that runs.
LEMMA OnlyRunner ==
    ASSUME Single, NEW d \in Deployers, NEW e \in Deployers, ~At(d, "off"), ~At(e, "off"), job[e].alone
    PROVE  d = e /\ Brought(job[e])
BY DEF Single

\* A step of a deployment that goes on: the others go on beside it, at most with a file
\* that has lost its name.
LEMMA RunningStep ==
    ASSUME SiteInv, SnapInv, NEW d \in Deployers, ~At(d, "off"), UNCHANGED store, whole' = whole,
           job'[d].pc # "off", job'[d].alone = job[d].alone, Lists1(job[d])',
           \A e \in Deployers \ {d} :
              /\ job'[e].pc = job[e].pc /\ job'[e].listed = job[e].listed /\ job'[e].cits = job[e].cits
              /\ job'[e].alone = job[e].alone /\ job'[e].calm = job[e].calm
              /\ job'[e].open = job[e].open \/ job'[e].open = None,
           (~dir => Present = {})',
           job[d].alone /\ Brought(job[d]) => Brought(job[d])'
    PROVE  SnapInv'
<1>1. whole = None
  BY DEF SnapInv, Running
<1>2. ASSUME NEW e \in Deployers PROVE At(e, "off")' \/ Lists1(job[e])'
  <2>1. CASE e = d
    BY <2>1
  <2>2. CASE e # d /\ job[e].pc # "off"
    <3>1. Lists1(job[e]) /\ ver' = ver /\ citations' = citations
      BY <2>2 DEF SnapInv, At, store
    <3>2. /\ job'[e].pc = job[e].pc /\ job'[e].listed = job[e].listed /\ job'[e].cits = job[e].cits
          /\ job'[e].calm = job[e].calm /\ (job'[e].open = job[e].open \/ job'[e].open = None)
      BY <2>2
    <3>3. QED
      BY <3>1, <3>2 DEF Lists1
  <2>3. QED
    BY <2>1, <2>2 DEF At
<1>3. Single'
  <2> SUFFICES ASSUME NEW e \in Deployers, ~At(e, "off")', job'[e].alone
               PROVE  (\A f \in Deployers \ {e} : At(f, "off")') /\ Brought(job[e])'
    BY DEF Single
  <2>1. ~At(e, "off") /\ job[e].alone
    BY DEF At
  <2>2. d = e /\ Brought(job[e])
    BY <2>1, OnlyRunner DEF SnapInv
  <2>3. \A f \in Deployers \ {d} : At(f, "off")
    BY <2>1, <2>2 DEF SnapInv, Single
  <2>4. QED
    BY <2>1, <2>2, <2>3 DEF At
<1>4. QED
  BY <1>1, <1>2, <1>3 DEF SnapInv, SiteIsSnapshot

\* The end of a deployment: what is left of one that finishes is what it has listed.
LEMMA EndingStep ==
    ASSUME SiteInv, SnapInv, NEW d \in Deployers, Finish(d) \/ Clash(d) \/ Kill(d)
    PROVE  SnapInv'
<1> USE DEF store, site
<1>1. ~At(d, "off") /\ whole = None /\ UNCHANGED <<ver, citations, index, dir, page>>
  BY DEF Finish, Clash, Kill, At, SnapInv, Running
<1>2. job' = [job EXCEPT ![d] = NoJob] /\ job \in [Deployers -> Job]
  BY JobType DEF Finish, Clash, Kill, SiteInv
<1>3. At(d, "off")' /\ \A e \in Deployers \ {d} : job'[e] = job[e]
  BY <1>2 DEF At, NoJob
<1>4. \A e \in Deployers : At(e, "off")' \/ Lists1(job[e])'
  BY <1>1, <1>3 DEF SnapInv, Lists1, At
<1>5. Single'
  BY <1>1, <1>3, OnlyRunner DEF SnapInv, Single, At
<1>6. whole' = None \/ (At(d, "cits") /\ job[d].left = {} /\ job[d].alone
                        /\ whole' = [listed |-> job[d].listed, calm |-> job[d].calm])
  BY <1>1 DEF Finish, Clash, Kill
<1>7. ASSUME At(d, "cits"), job[d].left = {}, job[d].alone,
             whole' = [listed |-> job[d].listed, calm |-> job[d].calm]
      PROVE  Running' = {} /\ SiteIsSnapshot'
  <2>1. Brought(job[d]) /\ Lists1(job[d]) /\ \A e \in Deployers \ {d} : At(e, "off")
    BY <1>1, <1>7 DEF SnapInv, Single
  <2>2. Running' = {}
    BY <1>3, <2>1 DEF Running, At
  <2>3. /\ index = {job[d].listed} /\ Present = Names(job[d].listed)
        /\ \A p \in Present : PageOf(job[d].listed, job[d].calm, p)
    BY <1>7, <2>1 DEF Brought, At
  <2>4. ASSUME NEW r \in job[d].listed
        PROVE  \E c \in Versions \cup {None} : /\ page[r[1]] = {[row |-> r[2], cits |-> c]}
                                               /\ job[d].calm => c = r[2]
    <3>1. PageOf(job[d].listed, job[d].calm, r[1])
      BY <2>3 DEF Names
    <3>2. PICK s \in job[d].listed : s[1] = r[1] /\ \E c \in Versions \cup {None} :
                page[r[1]] = {[row |-> s[2], cits |-> c]} /\ (job[d].calm => c = s[2])
      BY <3>1 DEF PageOf
    <3>3. s = r
      BY <2>1, <3>2 DEF Lists1
    <3>4. QED
      BY <3>2, <3>3
  <2>5. SiteIsSnapshot'
    BY <1>1, <1>7, <2>3, <2>4 DEF SiteIsSnapshot, Present, Names
  <2>6. QED
    BY <2>2, <2>5
<1>8. (~dir => Present = {})'
  BY <1>1 DEF SnapInv, Present
<1>9. QED
  BY <1>4, <1>5, <1>6, <1>7, <1>8 DEF SnapInv, SiteIsSnapshot

\* A commit to the store: who is calm has missed no replacement.
LEMMA EditSnap ==
    ASSUME SiteInv, SnapInv, NEW packages, NEW versions, NEW cits, NEW replacing \in BOOLEAN,
           replacing \/ (versions = ver /\ cits = citations), Edit(packages, versions, cits, replacing)
    PROVE  SnapInv'
<1>1. job \in [Deployers -> Job]
  BY JobType DEF SiteInv
<1>2. /\ UNCHANGED <<index, dir, page, whole>>
      /\ \A d \in Deployers : job'[d] = [job[d] EXCEPT !.calm = @ /\ ~(replacing /\ job[d].pc # "off")]
      /\ replacing \/ (ver' = ver /\ citations' = citations)
  BY DEF Edit, site
<1>3. ASSUME NEW d \in Deployers
      PROVE  /\ job'[d].pc = job[d].pc /\ job'[d].listed = job[d].listed /\ job'[d].left = job[d].left
             /\ job'[d].open = job[d].open /\ job'[d].cits = job[d].cits
             /\ job'[d].alone = job[d].alone
             /\ job'[d].calm => job[d].calm /\ (job[d].pc = "off" \/ UNCHANGED <<ver, citations>>)
  <2> DEFINE calm == job[d].calm /\ ~(replacing /\ job[d].pc # "off")
  <2>1. job'[d] = [job[d] EXCEPT !.calm = calm] /\ job[d] \in Job
    BY <1>1, <1>2
  <2>2. calm => job[d].calm /\ (job[d].pc = "off" \/ UNCHANGED <<ver, citations>>)
    BY <1>2
  <2> HIDE DEF calm
  <2>3. job'[d].calm = calm
    BY <2>1 DEF Job
  <2>4. /\ job'[d].pc = job[d].pc /\ job'[d].listed = job[d].listed /\ job'[d].left = job[d].left
        /\ job'[d].open = job[d].open /\ job'[d].cits = job[d].cits /\ job'[d].alone = job[d].alone
    BY <2>1 DEF Job
  <2>5. QED
    BY <2>2, <2>3, <2>4
<1>4. \A d \in Deployers : At(d, "off")' \/ Lists1(job[d])'
  BY <1>3 DEF SnapInv, Lists1, At
<1>5. \A d \in Deployers : Brought(job[d]) => Brought(job[d])'
  BY <1>2, <1>3 DEF Brought, PageOf, Present
<1>6. Single'
  BY <1>3, <1>5 DEF SnapInv, Single, At
<1>7. QED
  BY <1>2, <1>3, <1>4, <1>6 DEF SnapInv, Running, At, Present, SiteIsSnapshot

\* Listing begins a deployment that has done nothing yet.
LEMMA ListSnap ==
    ASSUME SiteInv, SnapInv, NEW d \in Deployers, List(d)
    PROVE  SnapInv'
<1> DEFINE rows == {<<p, ver[p]>> : p \in public}
           alone == Running = {}
<1>1. job \in [Deployers -> Job]
  BY JobType DEF SiteInv
<1>2. /\ UNCHANGED <<ver, citations, index, dir, page>> /\ whole' = None
      /\ job'[d] = [NoJob EXCEPT !.pc = "truncate", !.listed = rows, !.alone = alone]
      /\ \A e \in Deployers \ {d} : job'[e] = [job[e] EXCEPT !.alone = FALSE]
  BY DEF List, site, store
<1>3. \A r \in rows : r[2] = ver[r[1]] /\ citations[r[1]] = r[2] /\ r = <<r[1], r[2]>>
  BY JobType DEF SiteInv, Cited
<1> HIDE DEF rows
<1>4. job'[d].pc = "truncate" /\ job'[d].listed = rows /\ (job'[d].alone <=> Running = {})
  BY <1>2 DEF NoJob
<1>5. ASSUME NEW e \in Deployers \ {d}
      PROVE  /\ job'[e].pc = job[e].pc /\ job'[e].listed = job[e].listed /\ job'[e].open = job[e].open
             /\ job'[e].cits = job[e].cits /\ job'[e].calm = job[e].calm /\ ~job'[e].alone
  <2>1. job[e] \in Job /\ job'[e] = [job[e] EXCEPT !.alone = FALSE]
    BY <1>1, <1>2
  <2>2. job'[e].alone = FALSE
    BY <2>1 DEF Job
  <2>3. /\ job'[e].pc = job[e].pc /\ job'[e].listed = job[e].listed /\ job'[e].open = job[e].open
        /\ job'[e].cits = job[e].cits /\ job'[e].calm = job[e].calm
    BY <2>1 DEF Job
  <2>4. QED
    BY <2>2, <2>3
<1>6. Lists1(job[d])' /\ Brought(job[d])'
  BY <1>2, <1>3, <1>4 DEF Lists1, Brought
<1>7. ASSUME NEW e \in Deployers PROVE At(e, "off")' \/ Lists1(job[e])'
  <2>1. CASE e # d /\ job[e].pc # "off"
    <3>1. Lists1(job[e]) /\ ver' = ver /\ citations' = citations
      BY <1>2, <2>1 DEF SnapInv, At
    <3>2. /\ job'[e].pc = job[e].pc /\ job'[e].listed = job[e].listed /\ job'[e].cits = job[e].cits
          /\ job'[e].calm = job[e].calm /\ job'[e].open = job[e].open
      BY <1>5, <2>1
    <3>3. QED
      BY <3>1, <3>2 DEF Lists1
  <2>2. QED
    BY <1>5, <1>6, <2>1 DEF At
<1>8. Single'
  BY <1>4, <1>5, <1>6 DEF Single, Running, At
<1>9. QED
  BY <1>2, <1>7, <1>8 DEF SnapInv, Present, SiteIsSnapshot

\* A step that moves one deployment on, and gives it other work.
Moved(d, pc, left) ==
    /\ job'[d].pc = pc /\ job'[d].left = left /\ job'[d].listed = job[d].listed
    /\ job'[d].calm = job[d].calm /\ job'[d].alone = job[d].alone
    /\ \A e \in Deployers \ {d} : job'[e] = job[e]

LEMMA MovedOn ==
    ASSUME SiteInv, SnapInv, NEW d \in Deployers, NEW pc, NEW left, UNCHANGED <<ver, citations>>,
           ~At(d, "off"), pc \notin {"create", "write", "off"},
           \/ job' = [job EXCEPT ![d].pc = pc, ![d].left = left]
           \/ Goto(d, pc) /\ left = job[d].left
    PROVE  Moved(d, pc, left) /\ Lists1(job[d])'
<1>1. job \in [Deployers -> Job] /\ job[d] \in Job /\ Lists1(job[d])
  BY JobType DEF SiteInv, SnapInv
<1>2. /\ \/ job'[d] = [job[d] EXCEPT !.pc = pc, !.left = left]
         \/ job'[d] = [job[d] EXCEPT !.pc = pc] /\ left = job[d].left
      /\ \A e \in Deployers \ {d} : job'[e] = job[e]
  BY <1>1 DEF Goto
<1>3. /\ job'[d].pc = pc /\ job'[d].left = left /\ job'[d].listed = job[d].listed
      /\ job'[d].calm = job[d].calm /\ job'[d].alone = job[d].alone
  BY <1>1, <1>2 DEF Job
<1>4. Lists1(job[d])'
  BY <1>1, <1>3 DEF Lists1
<1>5. QED
  BY <1>2, <1>3, <1>4 DEF Moved

\* Such a step keeps the invariant when it brings the site as far as it says.
LEMMA MovedSnap ==
    ASSUME SiteInv, SnapInv, NEW d \in Deployers, ~At(d, "off"), UNCHANGED store, whole' = whole,
           NEW pc, pc # "off", NEW left, Moved(d, pc, left), Lists1(job[d])', (~dir => Present = {})',
           job[d].alone /\ Brought(job[d]) => Brought(job[d])'
    PROVE  SnapInv'
BY RunningStep DEF Moved

\* The index and the old directory, when a deployment begins.
LEMMA PreparingSnap ==
    ASSUME SiteInv, SnapInv, NEW d \in Deployers,
           TruncateIndex(d) \/ WriteIndex(d) \/ Exists(d) \/ RemoveDir(d) \/ MakeDir(d)
    PROVE  SnapInv'
<1>1. ~At(d, "off") /\ (~dir => Present = {})
  BY DEF SnapInv, TruncateIndex, WriteIndex, Exists, RemoveDir, MakeDir, At
<1> DEFINE left == job[d].left
           names == Names(job[d].listed)
<1>l. left = job[d].left /\ names = Names(job[d].listed)
  OBVIOUS
<1> HIDE DEF left, names
<1>s. \A pc \in {"index", "exists", "mkdir", "cits"} : pc \notin {"create", "write", "off"} /\ pc # "off"
  OBVIOUS
<1>2. CASE TruncateIndex(d)
  <2>1. Goto(d, "index") /\ index' = {} /\ UNCHANGED <<store, dir, page, whole>>
    BY <1>2 DEF TruncateIndex
  <2>2. Moved(d, "index", left) /\ Lists1(job[d])'
    BY <1>1, <1>l, <1>s, <2>1, MovedOn DEF store
  <2>3. Brought(job[d])'
    BY <2>1, <2>2 DEF Brought, Moved
  <2>4. (~dir => Present = {})'
    BY <1>1, <2>1 DEF Present
  <2>5. QED
    BY <1>1, <2>1, <2>2, <2>3, <2>4, MovedSnap
<1>3. CASE WriteIndex(d)
  <2>1. /\ Goto(d, "exists") /\ job[d].pc = "index"
        /\ index' = index \cup {job[d].listed} /\ UNCHANGED <<store, dir, page, whole>>
    BY <1>3 DEF WriteIndex, At
  <2>2. Moved(d, "exists", left) /\ Lists1(job[d])'
    BY <1>1, <1>l, <1>s, <2>1, MovedOn DEF store
  <2>3. Brought(job[d]) => Brought(job[d])'
    BY <2>1, <2>2 DEF Brought, Moved
  <2>4. (~dir => Present = {})'
    BY <1>1, <2>1 DEF Present
  <2>5. QED
    BY <1>1, <2>1, <2>2, <2>3, <2>4, MovedSnap
<1>4. CASE Exists(d)
  <2> DEFINE l == IF dir THEN "unlink" ELSE "mkdir"
  <2>1. /\ job' = [job EXCEPT ![d].pc = l, ![d].left = Present] /\ job[d].pc = "exists"
        /\ UNCHANGED <<store, index, dir, page, whole>>
    BY <1>4 DEF Exists, At, site
  <2>2. l \in {"unlink", "mkdir"} /\ (l = "unlink" <=> dir)
    OBVIOUS
  <2> HIDE DEF l
  <2>3. Moved(d, l, Present) /\ Lists1(job[d])'
    BY <1>1, <2>1, <2>2, MovedOn DEF store
  <2>4. Present' = Present
    BY <2>1 DEF Present
  <2>5. Brought(job[d]) => Brought(job[d])'
    BY <1>1, <2>1, <2>2, <2>3, <2>4 DEF Brought, Moved
  <2>6. QED
    BY <1>1, <2>1, <2>2, <2>3, <2>4, <2>5, MovedSnap
<1>5. CASE RemoveDir(d)
  <2>1. /\ Goto(d, "mkdir") /\ job[d].pc = "unlink"
        /\ Present = {} /\ UNCHANGED <<store, index, page, whole>>
    BY <1>5 DEF RemoveDir, At
  <2>2. Moved(d, "mkdir", left) /\ Lists1(job[d])'
    BY <1>1, <1>l, <1>s, <2>1, MovedOn DEF store
  <2>3. Present' = {}
    BY <2>1 DEF Present
  <2>4. Brought(job[d]) => Brought(job[d])'
    BY <2>1, <2>2, <2>3 DEF Brought, Moved
  <2>5. QED
    BY <1>1, <2>1, <2>2, <2>3, <2>4, MovedSnap
<1>6. CASE MakeDir(d)
  <2>1. /\ job' = [job EXCEPT ![d].pc = "cits", ![d].left = names]
        /\ job[d].pc = "mkdir" /\ dir' = TRUE /\ UNCHANGED <<store, index, page, whole>>
    BY <1>6, <1>l DEF MakeDir, At, Names
  <2>2. Moved(d, "cits", names) /\ Lists1(job[d])'
    BY <1>1, <1>l, <1>s, <2>1, MovedOn DEF store
  <2>3. Present' = Present
    BY <2>1 DEF Present
  <2>4. Brought(job[d]) => Brought(job[d])'
    BY <1>l, <2>1, <2>2, <2>3 DEF Brought, Moved
  <2>5. QED
    BY <1>1, <2>1, <2>2, <2>3, <2>4, MovedSnap
<1>7. QED
  BY <1>2, <1>3, <1>4, <1>5, <1>6

\* A name is taken away: of the deployments beside this one, who has its file open writes
\* to one without a name.
LEMMA UnlinkSnap ==
    ASSUME SiteInv, SnapInv, NEW d \in Deployers, Unlink(d)
    PROVE  SnapInv'
<1>1. PICK p \in job[d].left :
         /\ page[p] # None
         /\ page' = [page EXCEPT ![p] = None]
         /\ job' = [e \in Deployers |->
                      IF e = d THEN [job[d] EXCEPT !.left = @ \ {p}]
                      ELSE IF At(e, "write") /\ job[e].open = p THEN [job[e] EXCEPT !.open = None]
                      ELSE job[e]]
  BY DEF Unlink
<1>2. /\ job \in [Deployers -> Job] /\ page \in [Packages -> {None} \cup SUBSET Page]
      /\ job[d].pc = "unlink" /\ UNCHANGED <<store, index, dir, whole>>
  BY JobType DEF SiteInv, Unlink, At
<1>3. /\ job'[d].pc = "unlink" /\ job'[d].left = job[d].left \ {p} /\ job'[d].listed = job[d].listed
      /\ job'[d].calm = job[d].calm /\ job'[d].alone = job[d].alone
  <2>1. job'[d] = [job[d] EXCEPT !.left = job[d].left \ {p}] /\ job[d] \in Job
    BY <1>1, <1>2
  <2>2. QED
    BY <1>2, <2>1 DEF Job
<1>4. ASSUME NEW e \in Deployers \ {d}
      PROVE  /\ job'[e].pc = job[e].pc /\ job'[e].listed = job[e].listed /\ job'[e].cits = job[e].cits
             /\ job'[e].alone = job[e].alone /\ job'[e].calm = job[e].calm
             /\ job'[e].open = job[e].open \/ job'[e].open = None
  <2>1. job[e] \in Job /\ job'[e] \in {job[e], [job[e] EXCEPT !.open = None]}
    BY <1>1, <1>2
  <2>2. CASE job'[e] = job[e]
    BY <2>2
  <2>3. CASE job'[e] = [job[e] EXCEPT !.open = None]
    BY <2>1, <2>3 DEF Job
  <2>4. QED
    BY <2>1, <2>2, <2>3
<1>5. Present' = Present \ {p}
  BY <1>1, <1>2 DEF Present, Job
<1>6. Lists1(job[d])'
  BY <1>2, <1>3 DEF SnapInv, Lists1, At, store
<1>7. Brought(job[d]) => Brought(job[d])'
  BY <1>2, <1>3, <1>5 DEF Brought
<1>8. (~dir => Present = {})'
  BY <1>2, <1>5 DEF SnapInv
<1>9. QED
  BY <1>2, <1>3, <1>4, <1>6, <1>7, <1>8, RunningStep DEF At

\* The citations of a package, which are those of the row that was listed unless the row
\* has been replaced since.
LEMMA CitsSnap ==
    ASSUME SiteInv, SnapInv, NEW d \in Deployers, Cits(d)
    PROVE  SnapInv'
<1>1. PICK p \in job[d].left :
         job' = [job EXCEPT ![d].pc = "create", ![d].open = p, ![d].cits = citations[p]]
  BY DEF Cits
<1>2. /\ job \in [Deployers -> Job] /\ job[d].pc = "cits" /\ ~At(d, "off")
      /\ ver' = ver /\ citations' = citations /\ UNCHANGED <<store, index, dir, page, whole>>
      /\ Lists1(job[d]) /\ job[d].left \subseteq Names(job[d].listed)
      /\ job[d].listed \subseteq Rows
  BY JobType DEF SiteInv, SnapInv, Carries, Cits, At, site, store, Job
<1>3. /\ job'[d] = [job[d] EXCEPT !.pc = "create", !.open = p, !.cits = citations[p]]
      /\ \A e \in Deployers \ {d} : job'[e] = job[e]
  BY <1>1, <1>2
<1>4. /\ job'[d].pc = "create" /\ job'[d].open = p /\ job'[d].cits = citations[p]
      /\ job'[d].left = job[d].left /\ job'[d].listed = job[d].listed
      /\ job'[d].calm = job[d].calm /\ job'[d].alone = job[d].alone
  BY <1>2, <1>3 DEF Job
<1>5. job[d].calm => <<p, citations[p]>> \in job[d].listed
  <2>1. PICK r \in job[d].listed : r[1] = p
    BY <1>2 DEF Names
  <2>2. r = <<p, r[2]>>
    BY <1>2, <2>1 DEF Rows
  <2>3. job[d].calm => citations[p] = r[2]
    BY <1>2, <2>1 DEF Lists1
  <2>4. QED
    BY <2>1, <2>2, <2>3
<1>6. Lists1(job[d])'
  BY <1>2, <1>4, <1>5 DEF Lists1
<1>7. Present' = Present
  BY <1>2 DEF Present
<1>8. Brought(job[d]) => Brought(job[d])'
  <2> SUFFICES ASSUME Brought(job[d]) PROVE Brought(job[d])'
    OBVIOUS
  <2>1. /\ index = {job[d].listed} /\ Present = Names(job[d].listed) \ job[d].left
        /\ \A q \in Present : PageOf(job[d].listed, job[d].calm, q)
    BY <1>2 DEF Brought
  <2>2. \A q \in Present' : PageOf(job[d].listed, job[d].calm, q)'
    BY <1>2, <1>4, <1>7, <2>1 DEF PageOf
  <2>3. QED
    BY <1>2, <1>4, <1>7, <2>1, <2>2 DEF Brought
<1>9. (~dir => Present = {})'
  BY <1>2, <1>7 DEF SnapInv
<1>10. QED
  BY <1>2, <1>3, <1>4, <1>6, <1>8, <1>9, RunningStep

\* The file of the package is created, and is the one page that has nothing in it.
LEMMA CreateSnap ==
    ASSUME SiteInv, SnapInv, NEW d \in Deployers, Create(d)
    PROVE  SnapInv'
<1> DEFINE p == job[d].open
           left == job[d].left \ {p}
<1>1. /\ job \in [Deployers -> Job] /\ page \in [Packages -> {None} \cup SUBSET Page]
      /\ job[d].pc = "create" /\ ~At(d, "off") /\ dir
      /\ ver' = ver /\ citations' = citations /\ UNCHANGED <<store, index, dir, whole>>
      /\ page' = [page EXCEPT ![p] = {}]
      /\ job' = [job EXCEPT ![d].pc = "write", ![d].left = left]
  BY JobType DEF SiteInv, Create, At, store
<1>2. /\ Lists1(job[d]) /\ p \in Names(job[d].listed) /\ job[d].listed \subseteq Rows
      /\ job[d].left \subseteq Names(job[d].listed) /\ p \in Packages
  BY <1>1 DEF SnapInv, SiteInv, Carries, At, Names, Job, Rows
<1> HIDE DEF left
<1>3. /\ job'[d] = [job[d] EXCEPT !.pc = "write", !.left = left]
      /\ \A e \in Deployers \ {d} : job'[e] = job[e]
  BY <1>1
<1>4. /\ job'[d].pc = "write" /\ job'[d].left = left /\ job'[d].open = p
      /\ job'[d].cits = job[d].cits /\ job'[d].listed = job[d].listed
      /\ job'[d].calm = job[d].calm /\ job'[d].alone = job[d].alone
  BY <1>1, <1>3 DEF Job
<1> HIDE DEF p
<1>5. Lists1(job[d])'
  BY <1>1, <1>2, <1>4 DEF Lists1, p
<1>6. /\ page'[p] = {} /\ page'[p] # None /\ \A q \in Packages \ {p} : page'[q] = page[q]
      /\ Present' = Present \cup {p}
  <2>1. {} # None
    BY NoFileAssumption
  <2>2. page'[p] = {} /\ \A q \in Packages \ {p} : page'[q] = page[q]
    BY <1>1, <1>2
  <2>3. QED
    BY <1>2, <2>1, <2>2 DEF Present
<1>7. Brought(job[d]) => Brought(job[d])'
  <2> SUFFICES ASSUME Brought(job[d]) PROVE Brought(job[d])'
    OBVIOUS
  <2>1. /\ index = {job[d].listed} /\ Present = Names(job[d].listed) \ job[d].left
        /\ \A q \in Present : PageOf(job[d].listed, job[d].calm, q)
        /\ p \in job[d].left
    BY <1>1 DEF Brought, p
  <2>2. Present' = Names(job[d].listed) \ left
    BY <1>2, <1>6, <2>1 DEF left
  <2>3. \A q \in Present' \ {p} : PageOf(job[d].listed, job[d].calm, q)'
    <3>1. ASSUME NEW q \in Present' \ {p} PROVE PageOf(job[d].listed, job[d].calm, q)'
      <4>1. q \in Present /\ page'[q] = page[q]
        BY <1>6, <3>1 DEF Present
      <4>2. QED
        BY <1>4, <2>1, <4>1 DEF PageOf
    <3>2. QED
      BY <3>1
  <2>4. QED
    BY <1>1, <1>4, <1>6, <2>1, <2>2, <2>3 DEF Brought
<1>8. (~dir => Present = {})'
  BY <1>1
<1>9. QED
  BY <1>1, <1>3, <1>4, <1>5, <1>7, <1>8, RunningStep

\* The page is written from the row that was listed and the citations that were read.
LEMMA WriteSnap ==
    ASSUME SiteInv, SnapInv, NEW d \in Deployers, Write(d)
    PROVE  SnapInv'
<1> DEFINE p == job[d].open
           g == Rendered(d, p)
<1>1. /\ job \in [Deployers -> Job] /\ page \in [Packages -> {None} \cup SUBSET Page]
      /\ job[d].pc = "write" /\ ~At(d, "off")
      /\ ver' = ver /\ citations' = citations /\ UNCHANGED <<store, index, dir, whole>>
      /\ page' = IF p = None THEN page ELSE [page EXCEPT ![p] = @ \cup {g}]
      /\ job' = [job EXCEPT ![d].pc = "cits", ![d].open = None]
  BY JobType DEF SiteInv, Write, At, store
<1>2. /\ Lists1(job[d]) /\ p \in Names(job[d].listed) \cup {None} /\ job[d].listed \subseteq Rows
      /\ p # None => p \in Packages /\ page[p] # None
      /\ (~dir => Present = {})
  BY <1>1, JobType DEF SnapInv, SiteInv, Carries, Named, At, Names, Job, Rows
<1>3. /\ job'[d] = [job[d] EXCEPT !.pc = "cits", !.open = None]
      /\ \A e \in Deployers \ {d} : job'[e] = job[e]
  BY <1>1
<1>4. /\ job'[d].pc = "cits" /\ job'[d].left = job[d].left
      /\ job'[d].cits = job[d].cits /\ job'[d].listed = job[d].listed
      /\ job'[d].calm = job[d].calm /\ job'[d].alone = job[d].alone
  BY <1>1, <1>3 DEF Job
<1>g. g = [row |-> (CHOOSE r \in job[d].listed : r[1] = p)[2], cits |-> job[d].cits]
  BY DEF Rendered
<1> HIDE DEF g
<1>5. Lists1(job[d])'
  BY <1>1, <1>2, <1>4 DEF Lists1
<1>6. /\ \A q \in Packages : q # p => page'[q] = page[q]
      /\ p # None => page'[p] = page[p] \cup {g} /\ page'[p] # None
      /\ Present' = Present
  <2>1. CASE p = None
    BY <1>1, <2>1 DEF Present
  <2>2. CASE p # None
    <3>1. g \in Page
      BY <1>1, <2>2, RenderedWasPublished DEF At, g
    <3>2. page'[p] = page[p] \cup {g} /\ page[p] \in SUBSET Page
          /\ \A q \in Packages : q # p => page'[q] = page[q]
      BY <1>1, <1>2, <2>2
    <3>3. page'[p] # None
      BY <3>1, <3>2, NoFileAssumption
    <3>4. QED
      BY <1>1, <1>2, <2>2, <3>2, <3>3 DEF Present
  <2>3. QED
    BY <2>1, <2>2
<1>7. Brought(job[d]) => Brought(job[d])'
  <2> SUFFICES ASSUME Brought(job[d]) PROVE Brought(job[d])'
    OBVIOUS
  <2>1. /\ index = {job[d].listed} /\ Present = Names(job[d].listed) \ job[d].left
        /\ \A q \in Present : q = p \/ PageOf(job[d].listed, job[d].calm, q)
        /\ p \in Present /\ page[p] = {}
    BY <1>1 DEF Brought
  <2>2. p # None
    BY <2>1, StaticAssumption DEF Present
  <2>o. PICK o : o = p
    OBVIOUS
  <2>3. PageOf(job[d].listed, job[d].calm, o)'
    <3> DEFINE r == CHOOSE r \in job[d].listed : r[1] = p
    <3>1. r \in job[d].listed /\ r[1] = p
      BY <1>2, <2>2 DEF Names
    <3>2. page'[p] = {[row |-> r[2], cits |-> job[d].cits]}
      BY <1>6, <1>g, <2>1, <2>2
    <3> HIDE DEF r
    <3>3. job[d].calm => job[d].cits = r[2]
      <4>1. job[d].calm => <<p, job[d].cits>> \in job[d].listed
        BY <1>1, <1>2, <2>2 DEF Lists1
      <4>2. QED
        BY <1>2, <3>1, <4>1 DEF Lists1
    <3>4. job[d].cits \in Versions \cup {None}
      BY <1>1 DEF Job
    <3>5. QED
      BY <1>4, <2>o, <3>1, <3>2, <3>3, <3>4 DEF PageOf
  <2>4. \A q \in Present' : PageOf(job[d].listed, job[d].calm, q)'
    <3>1. ASSUME NEW q \in Present', q # o PROVE PageOf(job[d].listed, job[d].calm, q)'
      <4>1. q \in Present /\ page'[q] = page[q]
        BY <1>6, <2>o, <3>1 DEF Present
      <4>2. QED
        BY <1>4, <2>o, <2>1, <3>1, <4>1 DEF PageOf
    <3>2. QED
      BY <2>3, <3>1
  <2>5. QED
    BY <1>1, <1>4, <1>6, <2>1, <2>4 DEF Brought
<1>8. (~dir => Present = {})'
  BY <1>1, <1>2, <1>6
<1>9. QED
  BY <1>1, <1>3, <1>4, <1>5, <1>7, <1>8, RunningStep

\* Every step keeps what a deployment alone has brought the site to.
LEMMA StepSnap == SiteInv /\ SnapInv /\ [Next]_vars => SnapInv'
<1> SUFFICES ASSUME SiteInv, SnapInv, [Next]_vars PROVE SnapInv'
  OBVIOUS
<1>1. CASE UNCHANGED vars
  BY <1>1 DEF vars, SnapInv, Lists1, Single, Brought, PageOf, At, Running, Present, SiteIsSnapshot
<1>2. ASSUME NEW p \in Packages, Publish(p) \/ Withhold(p) \/ ReplaceDelete(p) \/ ReplaceInsert(p)
      PROVE  SnapInv'
  <2>1. CASE Publish(p)
    BY <2>1, EditSnap DEF Publish
  <2>2. CASE Withhold(p)
    BY <2>2, EditSnap DEF Withhold
  <2>3. CASE ReplaceDelete(p)
    BY <2>3, EditSnap DEF ReplaceDelete
  <2>4. CASE ReplaceInsert(p)
    BY <2>4, EditSnap DEF ReplaceInsert
  <2>5. QED
    BY <1>2, <2>1, <2>2, <2>3, <2>4
<1>3. ASSUME NEW d \in Deployers, List(d) \/ Step(d) \/ Kill(d) PROVE SnapInv'
  BY <1>3, ListSnap, PreparingSnap, UnlinkSnap, CitsSnap, CreateSnap, WriteSnap, EndingStep DEF Step
<1>4. QED
  BY <1>1, <1>2, <1>3 DEF Next

\* deploy-static leaves what it listed and nothing else when no other deployment has run
\* beside it, after however many that were killed or wrote over each other, and while
\* any command changes the store.
THEOREM SiteIsWhole == Spec => []SiteIsSnapshot
<1>1. SnapInv => SiteIsSnapshot
  BY DEF SnapInv
<1>2. Init => SiteInv /\ SnapInv
  BY InitSite, InitSnap
<1>3. SiteInv /\ SnapInv /\ [Next]_vars => (SiteInv /\ SnapInv)'
  BY StepSite, StepSnap
<1>4. QED
  BY <1>1, <1>2, <1>3, PTL DEF Spec
===============================================================================
