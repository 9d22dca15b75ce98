------------------------- MODULE RunAdmission_proofs -------------------------
(***************************************************************************)
(* Proofs about RunAdmission for every number of citations, every minimum, *)
(* every time budget and every duration of a fetch.                        *)
(***************************************************************************)
EXTENDS RunAdmission, FiniteSetTheorems, WellFoundedInduction, TLAPS

\* Until parsing ends no citation has been verified, and one without a link never is.
Verified ==
    \A n \in DOMAIN cits :
        /\ stage \in {"refs", "corpus"} => cits[n].verified = 0
        /\ cits[n].url = "none" => cits[n].verified = 0

\* The time is looked at before each fetch.
Timed ==
    /\ NearlyWithinBudget
    /\ stage = "identity" => spent < Total /\ current \in DOMAIN cits

\* With --skip-verify-urls nothing touches the citations after they were hashed.
Skipped ==
    skip => /\ todo = {} /\ stage # "identity"
            /\ stage \notin {"refs", "corpus"} => hash = cits

\* The rows that insert_package wrote are the citations, in columns.
Stored == stage = "stored" => origin = [n \in DOMAIN cits |-> Column(cits[n])]

AdmissionInv == TypeOK /\ Verified /\ Timed /\ Skipped /\ Stored /\ StoredMeetsMinimum

-------------------------------------------------------------------------------
(* Helpers of the model. *)

LEMMA CitationSet ==
    ASSUME NEW cs
    PROVE  cs \in Citations <=>
              /\ DOMAIN cs \in SUBSET Ordinals
              /\ cs = [n \in DOMAIN cs |-> cs[n]]
              /\ \A n \in DOMAIN cs : cs[n] \in Citation
BY DEF Citations

\* The least of a set of ordinals.
LEMMA LeastOrdinal ==
    ASSUME NEW S \in SUBSET Ordinals, S # {}
    PROVE  Min(S) \in S
<1> DEFINE R == OpToRel(<, Nat)
<1>1. IsWellFoundedOn(R, Nat)
  BY NatLessThanWellFounded
<1>2. \A v, w \in Nat : w < v => <<w, v>> \in R
  BY DEF OpToRel
<1>3. S \in SUBSET Nat
  BY AdmissionAssumption DEF Ordinals
<1> HIDE DEF R
<1>4. PICK v \in S : \A w \in S : ~ (<<w, v>> \in R)
  BY <1>1, <1>3, WFMin
<1>5. \A w \in S : ~ (w < v)
  BY <1>2, <1>3, <1>4
<1>6. \A w \in S : v <= w
  BY <1>3, <1>5
<1>7. QED
  BY <1>6 DEF Min

\* The greatest of a set of ordinals and 0: the least of their distances from Last.
LEMMA GreatestOrdinal ==
    ASSUME NEW S \in SUBSET Ordinals
    PROVE  /\ Max(S \cup {0}) \in S \cup {0}
           /\ \A n \in S : n <= Max(S \cup {0})
<1> DEFINE T == S \cup {0}
           D == {Last - n : n \in T}
           R == OpToRel(<, Nat)
<1>1. IsWellFoundedOn(R, Nat)
  BY NatLessThanWellFounded
<1>2. \A v, w \in Nat : w < v => <<w, v>> \in R
  BY DEF OpToRel
<1>3. T \in SUBSET (0..Last) /\ 0 \in T
  BY AdmissionAssumption DEF Ordinals
<1>4. D \in SUBSET Nat /\ D # {}
  BY <1>3, AdmissionAssumption
<1> HIDE DEF R
<1>5. PICK v \in D : \A w \in D : ~ (<<w, v>> \in R)
  BY <1>1, <1>4, WFMin
<1>6. PICK x \in T : v = Last - x
  BY <1>5
<1>7. ASSUME NEW n \in T PROVE n <= x
  <2>1. Last - n \in D
    OBVIOUS
  <2>2. ~ (Last - n < v)
    BY <1>2, <1>4, <1>5, <2>1
  <2>3. QED
    BY <1>3, <1>6, <2>2, AdmissionAssumption
<1>8. \A n \in T : x >= n
  BY <1>3, <1>6, <1>7
<1>9. Max(T) \in T /\ \A n \in T : Max(T) >= n
  BY <1>6, <1>8 DEF Max
<1>10. QED
  BY <1>3, <1>9

\* A citation more, or another one under an ordinal.
LEMMA PutCitation ==
    ASSUME cits \in Citations, NEW n \in Ordinals, NEW c \in Citation
    PROVE  /\ Put(n, c) \in Citations
           /\ DOMAIN Put(n, c) = DOMAIN cits \cup {n}
           /\ \A m \in DOMAIN cits \cup {n} : Put(n, c)[m] = IF m = n THEN c ELSE cits[m]
BY CitationSet DEF Put

\* Supplement keeps the link that is there, and the state.
LEMMA Supplemented ==
    ASSUME NEW a \in Citation, NEW c \in Given
    PROVE  /\ Supplement(a, c) \in Citation
           /\ Supplement(a, c).verified = a.verified
           /\ a.url # "none" => Supplement(a, c).url = a.url
BY DEF Supplement, Given, Citation

\* A mark changes the state of one citation and nothing else.
LEMMA Marked ==
    ASSUME cits \in Citations, NEW n \in DOMAIN cits, NEW v \in -3..1, Mark(n, v)
    PROVE  /\ cits' \in Citations /\ DOMAIN cits' = DOMAIN cits
           /\ cits'[n].verified = v /\ cits'[n].url = cits[n].url
           /\ \A m \in DOMAIN cits : m # n => cits'[m] = cits[m]
<1>1. cits[n] \in Citation /\ DOMAIN cits \in SUBSET Ordinals
  BY CitationSet
<1>2. cits' = [m \in DOMAIN cits |-> IF m = n THEN [cits[n] EXCEPT !.verified = v] ELSE cits[m]]
  BY CitationSet DEF Mark
<1>3. [cits[n] EXCEPT !.verified = v] \in Citation
  BY <1>1 DEF Citation
<1>4. \A m \in DOMAIN cits : cits[m] \in Citation
  BY CitationSet
<1>5. cits' \in Citations
  BY <1>1, <1>2, <1>3, <1>4 DEF Citations
<1>6. QED
  BY <1>1, <1>2, <1>5 DEF Citation

-------------------------------------------------------------------------------
(* The steps. *)

\* At first nothing has been read.
LEMMA InitAdmission == Init => AdmissionInv
<1> SUFFICES ASSUME Init PROVE AdmissionInv
  OBVIOUS
<1>1. Nothing \in Citations /\ DOMAIN Nothing = {}
  BY DEF Nothing, Citations
<1>2. TypeOK
  BY <1>1 DEF Init, TypeOK
<1>3. Verified /\ Timed /\ Skipped /\ Stored /\ StoredMeetsMinimum
  BY <1>1 DEF Init, Verified, Timed, NearlyWithinBudget, Skipped, Stored, StoredMeetsMinimum
<1>4. QED
  BY <1>2, <1>3 DEF AdmissionInv

\* A line of the references or an entry of the corpus manifest leaves the citations
\* unverified.
LEMMA GatherKeeps ==
    ASSUME AdmissionInv, stage \in {"refs", "corpus"}, cits' \in Citations, DOMAIN cits \subseteq DOMAIN cits',
           \A n \in DOMAIN cits' : cits'[n].verified = 0, lines' \subseteq Line, dropped' \in BOOLEAN,
           UNCHANGED <<skip, stage, hash, todo, current, spent, forced, rows, origin>>
    PROVE  AdmissionInv'
<1>1. TypeOK'
  BY DEF AdmissionInv, TypeOK
<1>2. Verified' /\ Timed'
  BY DEF AdmissionInv, Verified, Timed, NearlyWithinBudget
<1>3. Skipped' /\ Stored' /\ StoredMeetsMinimum'
  BY DEF AdmissionInv, Skipped, Stored, StoredMeetsMinimum
<1>4. QED
  BY <1>1, <1>2, <1>3 DEF AdmissionInv

\* A bullet gets an ordinal that no citation has.
LEMMA BulletOrdinal ==
    ASSUME TypeOK, NextOrdinal(DOMAIN cits) <= Last
    PROVE  /\ NextOrdinal(DOMAIN cits) \in Ordinals
           /\ NextOrdinal(DOMAIN cits) \notin DOMAIN cits
<1> DEFINE S == DOMAIN cits
           m == Max(S \cup {0})
<1>1. S \in SUBSET Ordinals
  BY CitationSet DEF TypeOK
<1>2. m \in S \cup {0} /\ \A n \in S : n <= m
  BY <1>1, GreatestOrdinal
<1>3. m \in 0..Last /\ S \in SUBSET (1..Last)
  BY <1>1, <1>2, AdmissionAssumption DEF Ordinals
<1>n. NextOrdinal(DOMAIN cits) = m + 1
  BY DEF NextOrdinal
<1> HIDE DEF S, m
<1>4. m + 1 <= Last => m + 1 \in Ordinals
  BY <1>3, AdmissionAssumption DEF Ordinals
<1>5. m + 1 \notin S
  BY <1>2, <1>3, AdmissionAssumption
<1>6. QED
  BY <1>4, <1>5, <1>n DEF S

LEMMA ReferenceStep ==
    ASSUME AdmissionInv, NEW n \in Ordinals, NEW c \in Given, NEW bullet \in BOOLEAN,
           Reference(n, c, bullet)
    PROVE  AdmissionInv'
<1>1. stage = "refs" /\ UNCHANGED <<skip, stage, hash, todo, current, spent, forced, rows, origin>>
  BY DEF Reference
<1>2. cits \in Citations /\ \A m \in DOMAIN cits : cits[m].verified = 0
  BY <1>1 DEF AdmissionInv, TypeOK, Verified
<1>3. c \in Citation /\ c.verified = 0
  BY DEF Given
<1>r. lines' \subseteq Line /\ dropped' \in BOOLEAN
  <2>1. lines \subseteq Line /\ dropped \in BOOLEAN /\ [n |-> n, url |-> c.url, bullet |-> bullet] \in Line
    BY <1>3 DEF AdmissionInv, TypeOK, Citation, Line
  <2>2. lines' = lines \/ lines' = lines \cup {[n |-> n, url |-> c.url, bullet |-> bullet]}
    BY DEF Reference
  <2>3. dropped' \in BOOLEAN
    BY DEF Reference
  <2>4. QED
    BY <2>1, <2>2, <2>3
<1>4. CASE n \in DOMAIN cits
  <2>1. cits' = cits
    BY <1>4 DEF Reference
  <2>2. QED
    BY <1>1, <1>2, <1>r, <2>1, GatherKeeps
<1>5. CASE n \notin DOMAIN cits
  <2>1. cits' = Put(n, c)
    BY <1>5 DEF Reference
  <2>2. /\ cits' \in Citations /\ DOMAIN cits' = DOMAIN cits \cup {n}
        /\ \A m \in DOMAIN cits \cup {n} : cits'[m] = IF m = n THEN c ELSE cits[m]
    BY <1>2, <1>3, <2>1, PutCitation
  <2>3. \A m \in DOMAIN cits' : cits'[m].verified = 0
    BY <1>2, <1>3, <2>2
  <2>4. QED
    BY <1>1, <1>r, <2>2, <2>3, GatherKeeps
<1>6. QED
  BY <1>4, <1>5

LEMMA CorpusStep ==
    ASSUME AdmissionInv, NEW n \in Ordinals, NEW c \in Given, CorpusEntry(n, c)
    PROVE  AdmissionInv'
<1> DEFINE d == IF n \in DOMAIN cits THEN Supplement(cits[n], c) ELSE c
<1>1. /\ stage = "corpus" /\ UNCHANGED <<skip, stage, hash, todo, current, spent, forced, rows, origin>>
      /\ cits' = Put(n, d)
  BY DEF CorpusEntry
<1>r. lines' \subseteq Line /\ dropped' \in BOOLEAN
  BY DEF CorpusEntry, read, AdmissionInv, TypeOK
<1>2. cits \in Citations /\ \A m \in DOMAIN cits : cits[m].verified = 0 /\ cits[m] \in Citation
  BY <1>1, CitationSet DEF AdmissionInv, TypeOK, Verified
<1>3. d \in Citation /\ d.verified = 0
  BY <1>2, Supplemented DEF Given
<1> HIDE DEF d
<1>4. /\ cits' \in Citations /\ DOMAIN cits' = DOMAIN cits \cup {n}
      /\ \A m \in DOMAIN cits \cup {n} : cits'[m] = IF m = n THEN d ELSE cits[m]
  BY <1>1, <1>2, <1>3, PutCitation
<1>5. \A m \in DOMAIN cits' : cits'[m].verified = 0
  BY <1>2, <1>3, <1>4
<1>6. QED
  BY <1>1, <1>r, <1>4, <1>5, GatherKeeps

\* The end of the references, and the end of parsing, where the hash is taken.
LEMMA ParsedStep ==
    ASSUME AdmissionInv, EndOfReferences \/ Parsed
    PROVE  AdmissionInv'
<1>1. CASE EndOfReferences
  <2>1. TypeOK'
    BY <1>1 DEF EndOfReferences, AdmissionInv, TypeOK, read
  <2>2. Verified' /\ Timed' /\ Skipped' /\ Stored' /\ StoredMeetsMinimum'
    BY <1>1 DEF EndOfReferences, AdmissionInv, Verified, Timed, NearlyWithinBudget, Skipped, Stored, StoredMeetsMinimum
  <2>3. QED
    BY <2>1, <2>2 DEF AdmissionInv
<1>2. CASE Parsed
  <2>1. /\ stage = "corpus" /\ stage' = "verify" /\ hash' = cits
        /\ UNCHANGED <<skip, current, spent, forced, rows, origin, lines, dropped>>
    BY <1>2 DEF Parsed, Payload, read
  <2>2. /\ cits \in Citations /\ todo \in SUBSET DOMAIN cits
        /\ \A n \in DOMAIN cits : cits[n] \in Citation /\ cits[n].verified = 0
        /\ cits = [n \in DOMAIN cits |-> cits[n]]
    BY <2>1, CitationSet DEF AdmissionInv, TypeOK, Verified
  <2>3. \A n \in DOMAIN cits : [cits[n] EXCEPT !.verified = 0] = cits[n]
    BY <2>2 DEF Citation
  <2>4. Unchecked(cits) = cits
    BY <2>2, <2>3 DEF Unchecked
  <2>5. cits' = cits /\ todo' \in SUBSET DOMAIN cits /\ (skip => todo' = todo)
    BY <1>2, <2>2, <2>4 DEF Parsed
  <2>6. TypeOK'
    BY <2>1, <2>5 DEF AdmissionInv, TypeOK
  <2>7. Verified' /\ Timed' /\ Skipped' /\ Stored' /\ StoredMeetsMinimum'
    BY <2>1, <2>2, <2>5 DEF AdmissionInv, Verified, Timed, NearlyWithinBudget, Skipped, Stored, StoredMeetsMinimum
  <2>8. QED
    BY <2>6, <2>7 DEF AdmissionInv
<1>3. QED
  BY <1>1, <1>2

-------------------------------------------------------------------------------
\* A step of the verification: one citation is given a state, in time that is measured.
LEMMA VerifyKeeps ==
    ASSUME AdmissionInv, stage \in {"verify", "identity"}, ~skip,
           NEW n \in DOMAIN cits, NEW v \in -3..1, Mark(n, v), cits[n].url = "none" => v = 0,
           UNCHANGED <<skip, hash, forced, rows, origin, lines, dropped>>,
           todo' \in SUBSET todo, stage' \in {"verify", "identity"}, spent' \in Nat, NearlyWithinBudget',
           stage' = "identity" => spent' < Total /\ current' \in DOMAIN cits,
           current' \in DOMAIN cits \cup {NoOrdinal}
    PROVE  AdmissionInv'
<1>1. cits \in Citations
  BY DEF AdmissionInv, TypeOK
<1>2. /\ cits' \in Citations /\ DOMAIN cits' = DOMAIN cits
      /\ cits'[n].verified = v /\ cits'[n].url = cits[n].url
      /\ \A m \in DOMAIN cits : m # n => cits'[m] = cits[m]
  BY <1>1, Marked
<1>3. TypeOK'
  BY <1>2 DEF AdmissionInv, TypeOK
<1>4. Verified'
  BY <1>2 DEF AdmissionInv, Verified
<1>5. Timed' /\ Skipped' /\ Stored' /\ StoredMeetsMinimum'
  BY <1>2 DEF AdmissionInv, Timed, Skipped, Stored, StoredMeetsMinimum
<1>6. QED
  BY <1>3, <1>4, <1>5 DEF AdmissionInv

LEMMA PassOverStep ==
    ASSUME AdmissionInv, PassOver
    PROVE  AdmissionInv'
<1> DEFINE n == Min(todo)
<1>1. /\ stage = "verify" /\ todo # {} /\ Mark(n, 0) /\ todo' = todo \ {n}
      /\ UNCHANGED <<skip, stage, hash, current, spent, forced, rows, origin, lines, dropped>>
  BY DEF PassOver, read
<1>2. todo \in SUBSET DOMAIN cits /\ DOMAIN cits \in SUBSET Ordinals
  BY CitationSet DEF AdmissionInv, TypeOK
<1>3. n \in todo
  BY <1>1, <1>2, LeastOrdinal
<1>4. n \in DOMAIN cits /\ 0 \in -3..1
  BY <1>2, <1>3
<1>5. ~skip /\ NearlyWithinBudget' /\ spent' \in Nat /\ current' \in DOMAIN cits \cup {NoOrdinal}
  BY <1>1 DEF AdmissionInv, Skipped, Timed, NearlyWithinBudget, TypeOK
<1> HIDE DEF n
<1>6. QED
  BY <1>1, <1>4, <1>5, VerifyKeeps

LEMMA ResolveStep ==
    ASSUME AdmissionInv, Resolve
    PROVE  AdmissionInv'
<1> DEFINE n == Min(todo)
<1>1. /\ stage = "verify" /\ todo # {} /\ cits[n].url # "none" /\ todo' = todo \ {n} /\ spent < Total
      /\ UNCHANGED <<skip, hash, forced, rows, origin, lines, dropped>>
      /\ IF spent' < Total THEN stage' = "identity" /\ current' = n ELSE UNCHANGED <<stage, current>>
  BY DEF Resolve, OnTime, read
<1>2. todo \in SUBSET DOMAIN cits /\ DOMAIN cits \in SUBSET Ordinals /\ spent \in Nat
      /\ current \in DOMAIN cits \cup {NoOrdinal}
  BY CitationSet DEF AdmissionInv, TypeOK
<1>3. n \in todo
  BY <1>1, <1>2, LeastOrdinal
<1>4. PICK v \in {Verdict(cits[n].url), -2} : Mark(n, v)
  BY DEF Resolve
<1>5. v \in -3..1
  BY <1>4 DEF Verdict
<1>6. PICK d \in 0..Slow : spent' = spent + d
  BY DEF Resolve
<1>7. spent' \in Nat /\ spent' < Total + Slow
  BY <1>1, <1>2, <1>6, AdmissionAssumption
<1>8. ~skip /\ NearlyWithinBudget'
  BY <1>1, <1>7 DEF AdmissionInv, Skipped, NearlyWithinBudget
<1>9. n \in DOMAIN cits /\ todo' \in SUBSET todo /\ current' \in DOMAIN cits \cup {NoOrdinal}
      /\ stage' \in {"verify", "identity"} /\ (stage' = "identity" => spent' < Total /\ current' \in DOMAIN cits)
  BY <1>1, <1>2, <1>3
<1> HIDE DEF n
<1>10. QED
  BY <1>1, <1>4, <1>5, <1>7, <1>8, <1>9, VerifyKeeps

LEMMA IdentityStep ==
    ASSUME AdmissionInv, CheckIdentity
    PROVE  AdmissionInv'
<1>1. /\ stage = "identity" /\ stage' = "verify" /\ current' = NoOrdinal
      /\ UNCHANGED <<skip, hash, todo, forced, rows, origin, lines, dropped>>
  BY DEF CheckIdentity, read
<1>2. current \in DOMAIN cits /\ spent < Total /\ ~skip /\ spent \in Nat
  BY <1>1 DEF AdmissionInv, Timed, Skipped, TypeOK
<1>3. CASE NeedsTitle(cits[current])
  <2>1. PICK d \in 0..Slow : spent' = spent + d
    BY <1>3 DEF CheckIdentity
  <2>2. PICK v \in {1, IF cits[current].url = "wrong" /\ cits[current].title = "text" THEN -3 ELSE 1} : Mark(current, v)
    BY <1>3 DEF CheckIdentity
  <2>3. spent' \in Nat /\ spent' < Total + Slow
    BY <1>2, <2>1, AdmissionAssumption
  <2>4. v \in -3..1 /\ cits[current].url # "none" /\ NearlyWithinBudget' /\ todo' \in SUBSET todo
        /\ stage \in {"verify", "identity"} /\ stage' \in {"verify", "identity"} /\ stage' # "identity"
        /\ current' \in DOMAIN cits \cup {NoOrdinal}
    BY <1>1, <1>3, <2>2, <2>3 DEF NeedsTitle, NearlyWithinBudget
  <2>5. QED
    BY <1>1, <1>2, <2>2, <2>3, <2>4, VerifyKeeps
<1>4. CASE ~NeedsTitle(cits[current])
  <2>1. UNCHANGED <<spent, cits>>
    BY <1>4 DEF CheckIdentity
  <2>2. TypeOK'
    BY <1>1, <2>1 DEF AdmissionInv, TypeOK
  <2>3. Verified' /\ Timed' /\ Skipped' /\ Stored' /\ StoredMeetsMinimum'
    BY <1>1, <2>1 DEF AdmissionInv, Verified, Timed, NearlyWithinBudget, Skipped, Stored, StoredMeetsMinimum
  <2>4. QED
    BY <2>2, <2>3 DEF AdmissionInv
<1>5. QED
  BY <1>3, <1>4

-------------------------------------------------------------------------------
\* The columns keep the link and the state of a citation.
LEMMA ColumnKeeps ==
    ASSUME NEW c \in Citation
    PROVE  /\ Column(c) \in Citation /\ Column(c).url = c.url /\ Column(c).verified = c.verified
           /\ IsText(c) => Column(c) = c
BY DEF Column, Text, IsText, Citation, Type

\* The run is stored, forced or not, or the import ends.
LEMMA AdmitStep ==
    ASSUME AdmissionInv, Admit
    PROVE  AdmissionInv'
<1>1. stage = "verify" /\ UNCHANGED <<skip, cits, hash, todo, current, spent, lines, dropped>>
  BY DEF Admit, read
<1>2. /\ cits \in Citations /\ DOMAIN cits \in SUBSET Ordinals
      /\ \A n \in DOMAIN cits : cits[n] \in Citation /\ (cits[n].url = "none" => cits[n].verified = 0)
  BY CitationSet DEF AdmissionInv, TypeOK, Verified
<1>3. CASE stage' = "ended" /\ UNCHANGED <<forced, rows, origin>>
  <2>1. TypeOK'
    BY <1>1, <1>3 DEF AdmissionInv, TypeOK
  <2>2. Verified' /\ Timed' /\ Skipped' /\ Stored' /\ StoredMeetsMinimum'
    BY <1>1, <1>3 DEF AdmissionInv, Verified, Timed, NearlyWithinBudget, Skipped, Stored, StoredMeetsMinimum
  <2>3. QED
    BY <2>1, <2>2 DEF AdmissionInv
<1>4. CASE ~(stage' = "ended" /\ UNCHANGED <<forced, rows, origin>>)
  <2> DEFINE stored == [n \in DOMAIN cits |-> Column(cits[n])]
             counted == {n \in DOMAIN stored : stored[n].url # "none" /\ (skip \/ stored[n].verified \in {1, -1})}
  <2>1. /\ stage' = "stored" /\ rows' = stored /\ origin' = stored /\ forced' \in BOOLEAN
        /\ ~forced' => ~(Cardinality(Qualifying(cits)) < Minimum)
    BY <1>4 DEF Admit
  <2>2. \A n \in DOMAIN cits : /\ stored[n] \in Citation /\ stored[n].url = cits[n].url
                               /\ stored[n].verified = cits[n].verified
    BY <1>2, ColumnKeeps
  <2>3. stored \in Citations
    BY <1>2, <2>2 DEF Citations
  <2>4. counted = Qualifying(cits)
    BY <1>2, <2>2 DEF Qualifying, Counts
  <2> HIDE DEF stored
  <2>5. TypeOK'
    BY <1>1, <2>1, <2>3 DEF AdmissionInv, TypeOK
  <2>6. Verified' /\ Timed' /\ Skipped'
    BY <1>1, <2>1 DEF AdmissionInv, Verified, Timed, NearlyWithinBudget, Skipped
  <2>7. Stored'
    BY <1>1, <2>1 DEF Stored, stored
  <2>8. Cardinality(counted) \in Nat
    <3>1. IsFiniteSet(Ordinals)
      BY FS_Interval, AdmissionAssumption DEF Ordinals
    <3>2. counted \in SUBSET Ordinals
      BY <1>2 DEF stored
    <3>3. QED
      BY <3>1, <3>2, FS_Subset, FS_CardinalityType
  <2>9. ~forced' => Cardinality(counted) >= Minimum
    <3>1. Minimum \in Nat /\ (~forced' => ~(Cardinality(counted) < Minimum))
      BY <2>1, <2>4, AdmissionAssumption
    <3> HIDE DEF counted
    <3>2. QED
      BY <3>1, <2>8
  <2>10. StoredMeetsMinimum'
    BY <1>1, <2>1, <2>9 DEF StoredMeetsMinimum
  <2>11. QED
    BY <2>5, <2>6, <2>7, <2>10 DEF AdmissionInv
<1>5. QED
  BY <1>3, <1>4

\* The import ends by itself, or somebody alters a stored row.
LEMMA OtherStep ==
    ASSUME AdmissionInv, RaiseValueError \/ RaiseTypeError \/ \E n \in DOMAIN rows, c \in Given : Alter(n, c)
    PROVE  AdmissionInv'
<1>1. CASE RaiseValueError \/ RaiseTypeError
  <2>0. stage \in {"verify", "identity"} /\ stage' = "ended"
        /\ UNCHANGED <<skip, cits, hash, todo, current, spent, forced, rows, origin, lines, dropped>>
    BY <1>1 DEF RaiseValueError, RaiseTypeError, read
  <2>1. TypeOK'
    BY <2>0 DEF AdmissionInv, TypeOK
  <2>2. Verified' /\ Timed' /\ Skipped' /\ Stored' /\ StoredMeetsMinimum'
    <3>1. Verified'
      BY <2>0 DEF AdmissionInv, Verified
    <3>2. Timed' /\ Skipped'
      BY <2>0 DEF AdmissionInv, Timed, NearlyWithinBudget, Skipped
    <3>3. Stored' /\ StoredMeetsMinimum'
      BY <2>0 DEF Stored, StoredMeetsMinimum
    <3>4. QED
      BY <3>1, <3>2, <3>3
  <2>3. QED
    BY <2>1, <2>2 DEF AdmissionInv
<1>2. ASSUME NEW n \in DOMAIN rows, NEW c \in Given, Alter(n, c) PROVE AdmissionInv'
  <2>1. /\ stage = "stored" /\ rows' = [rows EXCEPT ![n] = c]
        /\ UNCHANGED <<skip, stage, cits, hash, todo, current, spent, forced, origin, lines, dropped>>
    BY <1>2 DEF Alter, read
  <2>2. /\ DOMAIN rows \in SUBSET Ordinals /\ \A m \in DOMAIN rows : rows[m] \in Citation
        /\ rows = [m \in DOMAIN rows |-> rows[m]]
    BY CitationSet DEF AdmissionInv, TypeOK
  <2>3. c \in Citation
    BY DEF Given
  <2>4. rows' \in Citations
    BY <2>1, <2>2, <2>3 DEF Citations
  <2>5. TypeOK'
    BY <2>1, <2>4 DEF AdmissionInv, TypeOK
  <2>6. Verified' /\ Timed' /\ Skipped' /\ Stored' /\ StoredMeetsMinimum'
    BY <2>1 DEF AdmissionInv, Verified, Timed, NearlyWithinBudget, Skipped, Stored, StoredMeetsMinimum
  <2>7. QED
    BY <2>5, <2>6 DEF AdmissionInv
<1>3. QED
  BY <1>1, <1>2

LEMMA StepAdmission == AdmissionInv /\ [Next]_vars => AdmissionInv'
<1> SUFFICES ASSUME AdmissionInv, [Next]_vars PROVE AdmissionInv'
  OBVIOUS
<1>1. ASSUME NEW c \in Given, Bullet(c) PROVE AdmissionInv'
  <2>1. NextOrdinal(DOMAIN cits) \in Ordinals
    BY <1>1, BulletOrdinal DEF Bullet, AdmissionInv
  <2>2. QED
    BY <1>1, <2>1, ReferenceStep DEF Bullet
<1>2. ASSUME NEW n \in Ordinals, NEW c \in Given, Numbered(n, c) \/ CorpusEntry(n, c)
      PROVE  AdmissionInv'
  BY <1>2, ReferenceStep, CorpusStep DEF Numbered
<1>3. CASE UNCHANGED vars
  <2>1. TypeOK'
    BY <1>3 DEF vars, read, AdmissionInv, TypeOK
  <2>2. Verified' /\ Timed' /\ Skipped' /\ Stored' /\ StoredMeetsMinimum'
    BY <1>3 DEF vars, AdmissionInv, Verified, Timed, NearlyWithinBudget, Skipped, Stored, StoredMeetsMinimum
  <2>3. QED
    BY <2>1, <2>2 DEF AdmissionInv
<1>4. QED
  BY <1>1, <1>2, <1>3, ParsedStep, PassOverStep, ResolveStep, IdentityStep, AdmitStep, OtherStep DEF Next

LEMMA AdmissionSound == Spec => []AdmissionInv
BY InitAdmission, StepAdmission, PTL DEF Spec

-------------------------------------------------------------------------------
\* Every variable keeps its type: no mark is made under an ordinal that has no citation.
THEOREM TypeCorrect == Spec => []TypeOK
<1>1. AdmissionInv => TypeOK
  BY DEF AdmissionInv
<1>2. QED
  BY <1>1, AdmissionSound, PTL

\* A package that was not forced in has at least CITATION_MINIMUM stored citations that
\* admit counted: a citation without a link is never given a state that counts, and
\* insert_package writes the link and the state that admit has seen.
THEOREM MinimumIsMet == Spec => []StoredMeetsMinimum
<1>1. AdmissionInv => StoredMeetsMinimum
  BY DEF AdmissionInv
<1>2. QED
  BY <1>1, AdmissionSound, PTL

\* verify_urls ends within one fetch of its budget, for every budget and every duration
\* of a fetch.
THEOREM BudgetIsNearlyKept == Spec => []NearlyWithinBudget
<1>1. AdmissionInv => NearlyWithinBudget
  BY DEF AdmissionInv, Timed
<1>2. QED
  BY <1>1, AdmissionSound, PTL

\* A bundle of citations that were all text, stored with --skip-verify-urls, has its hash
\* exactly as long as nobody has altered it: whatever was merged, the columns give back
\* what was hashed.
THEOREM SkippedMatchIsExact == Spec => []MatchIsExact
<1>1. AdmissionInv => MatchIsExact
  <2> SUFFICES ASSUME AdmissionInv, stage = "stored", skip, \A n \in DOMAIN cits : IsText(cits[n])
               PROVE  Match <=> rows = origin
    BY DEF MatchIsExact
  <2>1. hash = cits /\ origin = [n \in DOMAIN cits |-> Column(cits[n])]
    BY DEF AdmissionInv, Skipped, Stored
  <2>2. cits = [n \in DOMAIN cits |-> cits[n]] /\ \A n \in DOMAIN cits : cits[n] \in Citation
    BY CitationSet DEF AdmissionInv, TypeOK
  <2>3. \A n \in DOMAIN cits : Column(cits[n]) = cits[n]
    BY <2>2, ColumnKeeps
  <2>4. origin = hash
    BY <2>1, <2>2, <2>3
  <2>5. QED
    BY <2>4 DEF Match, Payload
<1>2. QED
  BY <1>1, AdmissionSound, PTL

-------------------------------------------------------------------------------
(* What was read is kept. *)

\* Two lines do not share a citation, each has one with its link, and as long as no
\* bullet was read every citation comes from such a line.
LinesInv ==
    /\ \A l1, l2 \in lines : l1.n = l2.n => l1 = l2
    /\ \A l \in lines : l.n \in DOMAIN cits /\ l.url \in {"none", cits[l.n].url}
    /\ stage = "refs" /\ (\A l \in lines : ~l.bullet) => \A n \in DOMAIN cits : \E l \in lines : l.n = n

\* No step after the references takes a citation away, or its link.
LinksKept ==
    \A n \in DOMAIN cits : n \in DOMAIN cits' /\ (cits[n].url # "none" => cits'[n].url = cits[n].url)

LEMMA KeptLines ==
    ASSUME AdmissionInv, LinesInv, LinksKept, UNCHANGED read, stage' # "refs"
    PROVE  LinesInv'
<1>1. lines' = lines
  BY DEF read
<1>2. \A l \in lines : l.n \in DOMAIN cits' /\ l.url \in {"none", cits'[l.n].url}
  BY DEF LinesInv, LinksKept
<1>3. QED
  BY <1>1, <1>2 DEF LinesInv

\* A line that nothing before hides finds its ordinal free.
LEMMA ReferenceLines ==
    ASSUME AdmissionInv, LinesInv, NEW n \in Ordinals, NEW c \in Given, NEW bullet \in BOOLEAN,
           Reference(n, c, bullet), bullet => n \notin DOMAIN cits
    PROVE  LinesInv'
<1> DEFINE new == [n |-> n, url |-> c.url, bullet |-> bullet]
<1>1. /\ stage = "refs" /\ stage' = "refs" /\ cits \in Citations /\ lines \subseteq Line /\ c \in Citation
      /\ new.n = n /\ new.url = c.url /\ new.bullet = bullet
  BY DEF Reference, AdmissionInv, TypeOK, Given
<1>2. /\ DOMAIN Put(n, c) = DOMAIN cits \cup {n}
      /\ \A m \in DOMAIN cits \cup {n} : Put(n, c)[m] = IF m = n THEN c ELSE cits[m]
  BY <1>1, PutCitation
<1>3. cits' = IF n \in DOMAIN cits THEN cits ELSE Put(n, c)
  BY DEF Reference
<1>4. CASE ~bullet /\ \E l \in lines : l.bullet \/ l.n = n
  <2>1. lines' = lines
    BY <1>4 DEF Reference
  <2>2. \A l \in lines : l.n \in DOMAIN cits' /\ l.url \in {"none", cits'[l.n].url}
    BY <1>2, <1>3 DEF LinesInv
  <2>3. (\A l \in lines : ~l.bullet) => \A m \in DOMAIN cits' : \E l \in lines : l.n = m
    BY <1>1, <1>2, <1>3, <1>4 DEF LinesInv
  <2>4. QED
    BY <2>1, <2>2, <2>3 DEF LinesInv
<1>5. CASE ~(~bullet /\ \E l \in lines : l.bullet \/ l.n = n)
  <2>1. lines' = lines \cup {new}
    BY <1>5 DEF Reference
  <2>2. n \notin DOMAIN cits
    BY <1>1, <1>5 DEF LinesInv
  <2>3. /\ cits' = Put(n, c) /\ \A l \in lines : l.n # n
    BY <1>3, <2>2 DEF LinesInv
  <2> HIDE DEF new
  <2>4. \A l \in lines' : l.n \in DOMAIN cits' /\ l.url \in {"none", cits'[l.n].url}
    BY <1>1, <1>2, <2>1, <2>2, <2>3 DEF LinesInv
  <2>5. \A l1, l2 \in lines' : l1.n = l2.n => l1 = l2
    BY <1>1, <2>1, <2>3 DEF LinesInv
  <2>6. (\A l \in lines' : ~l.bullet) => \A m \in DOMAIN cits' : \E l \in lines' : l.n = m
    BY <1>1, <1>2, <2>1, <2>3 DEF LinesInv
  <2>7. QED
    BY <2>4, <2>5, <2>6 DEF LinesInv
<1>6. QED
  BY <1>4, <1>5

LEMMA StepLines == AdmissionInv /\ LinesInv /\ [Next]_vars => LinesInv'
<1> SUFFICES ASSUME AdmissionInv, LinesInv, [Next]_vars PROVE LinesInv'
  OBVIOUS
<1>t. cits \in Citations /\ DOMAIN cits \in SUBSET Ordinals /\ \A m \in DOMAIN cits : cits[m] \in Citation
  BY CitationSet DEF AdmissionInv, TypeOK
<1>g. Given \subseteq Citation
  BY DEF Given
<1>1. ASSUME NEW n \in Ordinals, NEW c \in Given, Numbered(n, c) PROVE LinesInv'
  BY <1>1, ReferenceLines DEF Numbered
<1>2. ASSUME NEW c \in Given, Bullet(c) PROVE LinesInv'
  <2>1. NextOrdinal(DOMAIN cits) \in Ordinals /\ NextOrdinal(DOMAIN cits) \notin DOMAIN cits
    BY <1>2, BulletOrdinal DEF Bullet, AdmissionInv
  <2>2. Reference(NextOrdinal(DOMAIN cits), c, TRUE)
    BY <1>2 DEF Bullet
  <2>3. QED
    BY <2>1, <2>2, ReferenceLines
<1>3. ASSUME NEW n \in Ordinals, NEW c \in Given, CorpusEntry(n, c) PROVE LinesInv'
  <2> DEFINE d == IF n \in DOMAIN cits THEN Supplement(cits[n], c) ELSE c
  <2>1. cits' = Put(n, d) /\ stage' # "refs" /\ UNCHANGED read
    BY <1>3 DEF CorpusEntry
  <2>2. d \in Citation /\ (n \in DOMAIN cits /\ cits[n].url # "none" => d.url = cits[n].url)
    <3>1. CASE n \in DOMAIN cits
      <4>1. cits[n] \in Citation
        BY <1>t, <3>1
      <4>2. QED
        BY <3>1, <4>1, Supplemented
    <3>2. CASE n \notin DOMAIN cits
      BY <1>g, <3>2
    <3>3. QED
      BY <3>1, <3>2
  <2> HIDE DEF d
  <2>3. /\ DOMAIN cits' = DOMAIN cits \cup {n}
        /\ \A m \in DOMAIN cits \cup {n} : cits'[m] = IF m = n THEN d ELSE cits[m]
    BY <1>t, <2>1, <2>2, PutCitation
  <2>4. LinksKept
    BY <2>2, <2>3 DEF LinksKept
  <2>5. QED
    BY <2>1, <2>4, KeptLines
<1>4. CASE Parsed
  <2>1. LinksKept
    BY <1>4, <1>t DEF Parsed, Unchecked, Citation, LinksKept
  <2>2. stage' # "refs" /\ UNCHANGED read
    BY <1>4 DEF Parsed
  <2>3. QED
    BY <2>1, <2>2, KeptLines
<1>5. ASSUME NEW n \in Ordinals, NEW v \in -3..1, n \in DOMAIN cits, Mark(n, v) PROVE LinksKept
  BY <1>5, <1>t, Marked DEF LinksKept
<1>6. CASE PassOver \/ Resolve
  <2> DEFINE n == Min(todo)
  <2>1. todo # {} /\ todo \in SUBSET DOMAIN cits
    BY <1>6 DEF PassOver, Resolve, AdmissionInv, TypeOK
  <2>2. n \in DOMAIN cits
    BY <1>t, <2>1, LeastOrdinal
  <2>3. \E v \in {0, Verdict(cits[n].url), -2} : Mark(n, v)
    BY <1>6 DEF PassOver, Resolve
  <2>4. Verdict(cits[n].url) \in -3..1
    BY DEF Verdict
  <2>5. stage' # "refs" /\ UNCHANGED read
    BY <1>6 DEF PassOver, Resolve
  <2> HIDE DEF n
  <2>6. LinksKept
    BY <1>t, <1>5, <2>2, <2>3, <2>4
  <2>7. QED
    BY <2>5, <2>6, KeptLines
<1>7. CASE CheckIdentity
  <2>1. current \in DOMAIN cits
    BY <1>7 DEF CheckIdentity, AdmissionInv, Timed
  <2>2. cits' = cits \/ \E v \in {1, -3} : Mark(current, v)
    BY <1>7 DEF CheckIdentity
  <2>3. cits' = cits => LinksKept
    BY DEF LinksKept
  <2>4. LinksKept
    BY <1>t, <1>5, <2>1, <2>2, <2>3
  <2>5. stage' # "refs" /\ UNCHANGED read
    BY <1>7 DEF CheckIdentity
  <2>6. QED
    BY <2>4, <2>5, KeptLines
<1>8. CASE EndOfReferences \/ RaiseValueError \/ RaiseTypeError \/ Admit
           \/ \E n \in DOMAIN rows, c \in Given : Alter(n, c)
  <2>1. stage' # "refs" /\ UNCHANGED read /\ UNCHANGED cits
    BY <1>8 DEF EndOfReferences, RaiseValueError, RaiseTypeError, Admit, Alter
  <2>2. LinksKept
    BY <2>1 DEF LinksKept
  <2>3. QED
    BY <2>1, <2>2, KeptLines
<1>9. CASE UNCHANGED vars
  BY <1>9 DEF vars, read, LinesInv
<1>10. QED
  BY <1>1, <1>2, <1>3, <1>4, <1>6, <1>7, <1>8, <1>9 DEF Next

\* Every bullet, and every numbered line that no bullet and no equal number precedes, is
\* a citation of its own with its link up to its row: for every number of citations,
\* every order of lines and every corpus manifest. What the other numbered lines lose,
\* NoReferenceLost, is not claimed: it does not hold.
THEOREM ReferencesAreKept == Spec => []ReferencesKept
<1>1. Init => LinesInv
  BY DEF Init, LinesInv, Nothing
<1>2. AdmissionInv /\ LinesInv => ReferencesKept
  <2> SUFFICES ASSUME AdmissionInv, LinesInv PROVE ReferencesKept
    OBVIOUS
  <2>1. cits \in Citations /\ \A n \in DOMAIN cits : cits[n] \in Citation
    BY CitationSet DEF AdmissionInv, TypeOK
  <2>2. ASSUME stage = "stored"
        PROVE  \A n \in DOMAIN cits : n \in DOMAIN origin /\ origin[n].url = cits[n].url
    <3>1. origin = [n \in DOMAIN cits |-> Column(cits[n])]
      BY <2>2 DEF AdmissionInv, Stored
    <3>2. \A n \in DOMAIN cits : Column(cits[n]).url = cits[n].url
      BY <2>1, ColumnKeeps
    <3>3. QED
      BY <3>1, <3>2
  <2>3. QED
    BY <2>2 DEF LinesInv, ReferencesKept
<1>3. QED
  BY <1>1, <1>2, StepLines, AdmissionSound, PTL DEF Spec
===============================================================================
