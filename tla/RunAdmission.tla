------------------------------ MODULE RunAdmission ------------------------------
(***************************************************************************)
(* One import up to its row: the citations are gathered from the artifact's *)
(* references and the corpus manifest, the content hash is computed        *)
(* (ingest.py: parse_citations, parse_run), the links are verified within a *)
(* time budget and the run is admitted or rejected (filter.py:             *)
(* verify_urls, admit), the rows are stored (storage.py: insert_package),  *)
(* and anybody may ask later whether they still have the hash              *)
(* (recompute_content_hash).                                               *)
(*                                                                         *)
(* A citation is what these steps tell apart: the JSON type of its title,  *)
(* and of its other details (authors, year, excerpt), what its link leads  *)
(* to, and the verified state.                                             *)
(***************************************************************************)
EXTENDS Integers, FiniteSets, FiniteSetsExt

CONSTANTS
    Last,       \* bound on the ordinals of citations
    Urls,       \* what a link may lead to: see Url
    Titles,     \* what the corpus manifest may give as a title,
    Details,    \* and as another detail: see Type
    Minimum,    \* CITATION_MINIMUM
    Total,      \* URL_VERIFY_TOTAL_TIMEOUT, in ticks
    Slow        \* the longest that one fetch takes, in ticks

\* "live": a page; "paper", "wrong": an arXiv page, of the work cited or of
\* another; "blocked": 401, 403, 429; "dead": any other failure; "malformed": not a
\* URL that urllib takes, such as one without a scheme.
Url == {"none", "live", "paper", "wrong", "blocked", "dead", "malformed"}

\* Nothing, a string, or a JSON number or boolean.
Type == {"null", "text", "number"}

ASSUME AdmissionAssumption ==
    /\ Last \in Nat /\ Minimum \in Nat /\ Total \in Nat /\ Slow \in Nat
    /\ Urls \subseteq Url /\ Titles \subseteq Type /\ Details \subseteq Type

VARIABLES
    skip,       \* --skip-verify-urls
    stage,      \* the step that the import has reached
    cits,       \* parsed.citations, by ordinal
    hash,       \* parsed.content_hash
    todo,       \* ordinals whose links are still to be verified, and the one whose
    current,    \* title is to be compared
    spent,      \* time that verify_urls has taken
    forced,     \* the run was rejected and --force let it through
    rows,       \* the rows of citations
    origin,     \* history: the rows that insert_package wrote
    lines,      \* history: the lines of the references section that nothing before hides
    dropped     \* history: some line had an ordinal that was taken

read == <<lines, dropped>>
vars == <<skip, stage, cits, hash, todo, current, spent, forced, rows, origin, read>>

Ordinals == 1..Last
NoOrdinal == 0
Citation == [title: Type, url: Url, detail: Type, verified: -3..1]
Citations == UNION {[S -> Citation] : S \in SUBSET Ordinals}
Nothing == [n \in {} |-> 0]
Line == [n: Ordinals, url: Url, bullet: BOOLEAN]

\* What the artifact and the corpus manifest may say of a citation, which in the
\* artifact is text.
Given == {c \in Citation : /\ c.url \in Urls /\ c.verified = 0
                           /\ c.title \in Titles /\ c.detail \in Details}
IsText(c) == c.title # "number" /\ c.detail # "number"

TypeOK ==
    /\ skip \in BOOLEAN
    /\ stage \in {"refs", "corpus", "verify", "identity", "stored", "ended"}
    /\ {cits, hash, rows, origin} \subseteq Citations
    /\ todo \subseteq DOMAIN cits /\ current \in DOMAIN cits \cup {NoOrdinal}
    /\ spent \in Nat
    /\ forced \in BOOLEAN
    /\ lines \subseteq Line /\ dropped \in BOOLEAN

Init ==
    /\ skip \in BOOLEAN
    /\ stage = "refs"
    /\ cits = Nothing /\ hash = Nothing /\ rows = Nothing /\ origin = Nothing
    /\ todo = {} /\ current = NoOrdinal
    /\ spent = 0
    /\ forced = FALSE
    /\ lines = {} /\ dropped = FALSE

-------------------------------------------------------------------------------
\* The citations with c under ordinal n.
Put(n, c) == [m \in DOMAIN cits \cup {n} |-> IF m = n THEN c ELSE cits[m]]

\* A line of the references section: the first with an ordinal keeps it. A bullet
\* hides the numbered lines that follow, and a number those that repeat it.
Reference(n, c, bullet) ==
    /\ stage = "refs"
    /\ cits' = IF n \in DOMAIN cits THEN cits ELSE Put(n, c)
    /\ dropped' = (dropped \/ n \in DOMAIN cits)
    /\ lines' = IF ~bullet /\ \E l \in lines : l.bullet \/ l.n = n THEN lines
                ELSE lines \cup {[n |-> n, url |-> c.url, bullet |-> bullet]}
    /\ UNCHANGED <<skip, stage, hash, todo, current, spent, forced, rows, origin>>

\* "[n] ..." or "n. ..."
Numbered(n, c) == IsText(c) /\ Reference(n, c, FALSE)

\* A bullet with a link gets the next ordinal.
NextByCount(S) == Cardinality(S) + 1            \* mutant
NextOrdinal(S) == Max(S \cup {0}) + 1

Bullet(c) ==
    /\ c.url # "none" /\ IsText(c)
    /\ NextOrdinal(DOMAIN cits) <= Last
    /\ Reference(NextOrdinal(DOMAIN cits), c, TRUE)

EndOfReferences ==
    /\ stage = "refs"
    /\ stage' = "corpus"
    /\ UNCHANGED <<skip, cits, hash, todo, current, spent, forced, rows, origin, read>>

\* An entry of the corpus manifest fills what the citation lacks, or is added.
Supplement(art, cor) ==
    [art EXCEPT !.title = IF @ = "null" THEN cor.title ELSE @,
                !.url = IF @ = "none" THEN cor.url ELSE @,
                !.detail = IF @ = "null" THEN cor.detail ELSE @]

CorpusEntry(n, c) ==
    /\ stage = "corpus"
    /\ cits' = Put(n, IF n \in DOMAIN cits THEN Supplement(cits[n], c) ELSE c)
    /\ UNCHANGED <<skip, stage, hash, todo, current, spent, forced, rows, origin, read>>

\* What is hashed; equal hashes stand for equal payloads.
PayloadNoLink(cs) == [n \in DOMAIN cs |-> [cs[n] EXCEPT !.url = "none"]]   \* mutant
Payload(cs) == cs

Unchecked(cs) == [n \in DOMAIN cs |-> [cs[n] EXCEPT !.verified = 0]]

\* parse_run ends with the hash; then verify_urls begins.
Parsed ==
    /\ stage = "corpus"
    /\ stage' = "verify"
    /\ hash' = Payload(cits)
    /\ IF skip THEN cits' = Unchecked(cits) /\ UNCHANGED todo
       ELSE todo' = DOMAIN cits /\ UNCHANGED cits
    /\ UNCHANGED <<skip, current, spent, forced, rows, origin, read>>

-------------------------------------------------------------------------------
OnTime == spent < Total

Mark(n, v) == cits' = [cits EXCEPT ![n].verified = v]

\* The next citation has no link, or there is no time left for it.
PassOver ==
    LET n == Min(todo)
    IN /\ stage = "verify" /\ todo # {}
       /\ cits[n].url = "none" \/ ~OnTime
       /\ Mark(n, 0)
       /\ todo' = todo \ {n}
       /\ UNCHANGED <<skip, stage, hash, current, spent, forced, rows, origin, read>>

\* _verify_one: the state for the answer; no answer within the timeout is a failure.
Verdict(url) == CASE url \in {"live", "paper", "wrong"} -> 1
                  [] url = "blocked" -> -1
                  [] OTHER -> -2

\* urllib raises ValueError, which nothing catches: the import ends.
RaiseValueError ==
    /\ stage = "verify" /\ todo # {} /\ OnTime
    /\ cits[Min(todo)].url = "malformed"
    /\ stage' = "ended"
    /\ UNCHANGED <<skip, cits, hash, todo, current, spent, forced, rows, origin, read>>

\* Mutant of Resolve: the title is fetched whatever the time.
ResolveLate ==
    LET n == Min(todo)
    IN /\ stage = "verify" /\ todo # {}
       /\ cits[n].url \notin {"none", "malformed"} /\ OnTime
       /\ \E v \in {Verdict(cits[n].url), -2} : Mark(n, v)
       /\ \E d \in 0..Slow : spent' = spent + d
       /\ todo' = todo \ {n}
       /\ stage' = "identity" /\ current' = n
       /\ UNCHANGED <<skip, hash, forced, rows, origin, read>>

\* The link is fetched; its title is compared next if there is time.
Resolve ==
    LET n == Min(todo)
    IN /\ stage = "verify" /\ todo # {}
       /\ cits[n].url \notin {"none", "malformed"} /\ OnTime
       /\ \E v \in {Verdict(cits[n].url), -2} : Mark(n, v)
       /\ \E d \in 0..Slow : spent' = spent + d
       /\ todo' = todo \ {n}
       /\ IF spent' < Total THEN stage' = "identity" /\ current' = n
          ELSE UNCHANGED <<stage, current>>
       /\ UNCHANGED <<skip, hash, forced, rows, origin, read>>

\* check_identity: the page's title is fetched for resolved arXiv links with a
\* title; a page that cannot be read changes nothing.
NeedsTitle(c) == c.verified = 1 /\ c.title # "null" /\ c.url \in {"paper", "wrong"}

CheckIdentity ==
    LET c == cits[current]
    IN /\ stage = "identity"
       /\ IF NeedsTitle(c)
          THEN /\ \E d \in 0..Slow : spent' = spent + d
               /\ \E v \in {1, IF c.url = "wrong" /\ c.title = "text" THEN -3 ELSE 1} :
                     Mark(current, v)
          ELSE UNCHANGED <<spent, cits>>
       /\ stage' = "verify" /\ current' = NoOrdinal
       /\ UNCHANGED <<skip, hash, todo, forced, rows, origin, read>>

\* A title that is a number is compared with the page's, or an excerpt that is one is
\* split into words: the exception ends the import.
RaiseTypeError ==
    /\ \/ /\ stage = "identity"
          /\ NeedsTitle(cits[current]) /\ cits[current].title = "number"
       \/ /\ stage = "verify" /\ todo = {}
          /\ \E n \in DOMAIN cits : cits[n].detail = "number"
    /\ stage' = "ended"
    /\ UNCHANGED <<skip, cits, hash, todo, current, spent, forced, rows, origin, read>>

\* _counts_toward_minimum
CountsUnlessFailed(c) == IF skip THEN c.url # "none" ELSE c.verified # -2   \* mutant
Counts(c) == IF skip THEN c.url # "none" ELSE c.verified \in {1, -1}

Qualifying(cs) == {n \in DOMAIN cs : Counts(cs[n])}

\* What the columns of citations make of c: title, authors, year and excerpt are TEXT.
Text(type) == IF type = "number" THEN "text" ELSE type
Column(c) == [c EXCEPT !.title = Text(@), !.detail = Text(@)]

\* admit, then insert_package. Other reasons to reject a run may hold as well;
\* --force stores it all the same; --dry-run stores nothing.
Admit ==
    /\ stage = "verify" /\ todo = {}
    /\ \E others, force, dry \in BOOLEAN :
          LET rejected == others \/ Cardinality(Qualifying(cits)) < Minimum
          IN IF ~dry /\ (rejected => force)
             THEN /\ stage' = "stored" /\ forced' = rejected
                  /\ rows' = [n \in DOMAIN cits |-> Column(cits[n])]
                  /\ origin' = rows'
             ELSE stage' = "ended" /\ UNCHANGED <<forced, rows, origin>>
    /\ UNCHANGED <<skip, cits, hash, todo, current, spent, read>>

\* Somebody changes a stored citation by hand; one, as a bound.
Alter(n, c) ==
    /\ stage = "stored" /\ rows = origin
    /\ rows' = [rows EXCEPT ![n] = c]
    /\ UNCHANGED <<skip, stage, cits, hash, todo, current, spent, forced, origin, read>>

\* recompute_content_hash
Match == Payload(rows) = hash

Next ==
    \/ \E n \in Ordinals, c \in Given : Numbered(n, c) \/ CorpusEntry(n, c)
    \/ \E c \in Given : Bullet(c)
    \/ EndOfReferences \/ Parsed
    \/ PassOver \/ Resolve \/ RaiseValueError \/ CheckIdentity \/ RaiseTypeError
    \/ Admit
    \/ \E n \in DOMAIN rows, c \in Given : IsText(c) /\ Alter(n, c)

Spec == Init /\ [][Next]_vars

-------------------------------------------------------------------------------
\* "(c) qualifying citations >= minimum": a package that was not forced in has
\* enough stored citations whose links were seen to lead somewhere (with
\* --skip-verify-urls: that have a link), whatever time verification had (FR-002).
StoredMeetsMinimum ==
    stage = "stored" /\ ~forced =>
        Cardinality({n \in DOMAIN origin : /\ origin[n].url # "none"
                                           /\ skip \/ origin[n].verified \in {1, -1}}) >= Minimum

\* "match: false means the stored bundle was altered after import": with
\* --skip-verify-urls, and unless a citation's title or detail was a number, a stored
\* bundle has its hash exactly as long as nobody has altered a citation, whatever was
\* merged into them (FR-022).
MatchIsExact ==
    stage = "stored" /\ skip /\ (\A n \in DOMAIN cits : IsText(cits[n]))
        => (Match <=> rows = origin)

\* "Bullets get the next free ordinal": a bullet, and a numbered line before the first
\* bullet whose number is new, is a citation of its own and keeps its link, through
\* later lines, the corpus manifest and verification, up to its row. (What numbered
\* lines after a bullet may lose is NoReferenceLost.)
ReferencesKept ==
    /\ \A l1, l2 \in lines : l1.n = l2.n => l1 = l2
    /\ \A l \in lines :
          /\ l.n \in DOMAIN cits /\ l.url \in {"none", cits[l.n].url}
          /\ stage = "stored" => l.n \in DOMAIN origin /\ origin[l.n].url = cits[l.n].url

\* The verification of a run exceeds its budget by less than one fetch.
NearlyWithinBudget == spent < Total + Slow \/ spent = 0

-------------------------------------------------------------------------------
\* Statements of the repository that do not hold (see the README).

\* "Bullets get the next free ordinal", of every line: none is dropped.
NoReferenceLost == ~dropped

\* "match: false means the stored bundle was altered after import", of every import.
UnalteredMatches == stage = "stored" /\ rows = origin => Match

\* "all HTTP URL verification (up to 60s total)"
WithinBudget == spent <= Total

\* "A research run that cites a real-looking arXiv ID for the wrong paper must
\* not be published as verified."
WrongPaperNotVerified ==
    stage = "stored" => \A n \in DOMAIN origin :
        origin[n].url = "wrong" /\ origin[n].title # "null" => origin[n].verified # 1
===============================================================================
