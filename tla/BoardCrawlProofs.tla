--------------------------- MODULE BoardCrawlProofs ---------------------------
(***************************************************************************)
(* Proofs about BoardCrawl, for every number of articles, floor, page size *)
(* and page limit: where iter_source stops, nothing of the board it began  *)
(* with is left behind.                                                    *)
(*                                                                         *)
(* A page is a window of ranks.  The ranks of the regular rows leave no    *)
(* gap, so a row below the page means that the page is full, and a full    *)
(* page of known rows holds one the run has not passed: what lies below it *)
(* is stored, unless an earlier run was cut short.                         *)
(***************************************************************************)
EXTENDS BoardCrawl, FiniteSetTheorems, TLAPS

-----------------------------------------------------------------------------
(* Ranks: the place of a number among a finite set of naturals.            *)

Newer(set, a) == {b \in set : b > a}

\* Newer members of a finite set are finitely many.
LEMMA NewerIsFinite ==
  ASSUME NEW set, IsFiniteSet(set), NEW a
  PROVE  /\ IsFiniteSet(Newer(set, a))
         /\ Cardinality(Newer(set, a)) \in Nat
         /\ Cardinality(Newer(set, a)) <= Cardinality(set)
<1>1. Newer(set, a) \in SUBSET set BY DEF Newer
<1>2. IsFiniteSet(Newer(set, a)) /\ Cardinality(Newer(set, a)) <= Cardinality(set)
  BY <1>1, FS_Subset
<1> QED BY <1>2, FS_CardinalityType

\* A subset that misses an element is smaller.
LEMMA ProperSubsetIsSmaller ==
  ASSUME NEW set, IsFiniteSet(set), NEW part \in SUBSET set, NEW x \in set, x \notin part
  PROVE  Cardinality(part) < Cardinality(set)
<1>1. IsFiniteSet(part) /\ Cardinality(part) <= Cardinality(set)
      /\ Cardinality(part) # Cardinality(set)
  BY FS_Subset
<1>2. Cardinality(part) \in Nat /\ Cardinality(set) \in Nat
  BY <1>1, FS_CardinalityType
<1> QED BY <1>1, <1>2

\* An older number ranks strictly deeper than a member.
LEMMA OlderRanksDeeper ==
  ASSUME NEW set \in SUBSET Nat, IsFiniteSet(set),
         NEW a \in Nat, NEW b \in set, a < b
  PROVE  Cardinality(Newer(set, b)) < Cardinality(Newer(set, a))
<1>1. Newer(set, b) \in SUBSET Newer(set, a)
  <2> SUFFICES ASSUME NEW c \in Newer(set, b) PROVE c \in Newer(set, a)
    OBVIOUS
  <2>1. c \in set /\ c > b BY DEF Newer
  <2>2. c \in Nat /\ b \in Nat BY <2>1
  <2>3. c > a BY <2>1, <2>2
  <2> QED BY <2>1, <2>3 DEF Newer
<1>2. b \in Newer(set, a) /\ b \notin Newer(set, b) BY DEF Newer
<1> QED BY <1>1, <1>2, NewerIsFinite, ProperSubsetIsSmaller

\* A member's rank is below the size of the set.
LEMMA RankBelowSize ==
  ASSUME NEW set \in SUBSET Nat, IsFiniteSet(set), NEW a \in set
  PROVE  Cardinality(Newer(set, a)) < Cardinality(set)
<1>1. Newer(set, a) \in SUBSET set /\ a \notin Newer(set, a) BY DEF Newer
<1> QED BY <1>1, ProperSubsetIsSmaller

\* Ranks leave no gap: every number below the size is the rank of a member.
LEMMA EveryRankIsTaken ==
  ASSUME NEW set \in SUBSET Nat, IsFiniteSet(set),
         NEW k \in Nat, k < Cardinality(set)
  PROVE  \E c \in set : Cardinality(Newer(set, c)) = k
<1> DEFINE n == Cardinality(set)
           places == 0 .. n - 1
           rank == [c \in set |-> Cardinality(Newer(set, c))]
<1>1. n \in Nat BY FS_CardinalityType
<1>2. IsFiniteSet(places) /\ Cardinality(places) = n
  <2>1. n - 1 \in Int /\ 0 \in Int BY <1>1
  <2>2. IsFiniteSet(places) /\ Cardinality(places) = IF 0 > n - 1 THEN 0 ELSE n - 1 - 0 + 1
    BY <2>1, FS_Interval
  <2> QED BY <2>2, <1>1
<1>3. rank \in [set -> places]
  <2> SUFFICES ASSUME NEW c \in set PROVE Cardinality(Newer(set, c)) \in places
    OBVIOUS
  <2>1. Cardinality(Newer(set, c)) < n BY RankBelowSize
  <2>2. Cardinality(Newer(set, c)) \in Nat BY NewerIsFinite
  <2> QED BY <1>1, <2>1, <2>2
<1>4. \A a, b \in set : rank[a] = rank[b] => a = b
  <2> SUFFICES ASSUME NEW a \in set, NEW b \in set, rank[a] = rank[b], a # b PROVE FALSE
    OBVIOUS
  <2>1. Cardinality(Newer(set, a)) = Cardinality(Newer(set, b)) OBVIOUS
  <2>2. Cardinality(Newer(set, a)) \in Nat BY NewerIsFinite
  <2>3. CASE a < b BY <2>1, <2>2, <2>3, OlderRanksDeeper
  <2>4. CASE b < a BY <2>1, <2>2, <2>4, OlderRanksDeeper
  <2> QED BY <2>3, <2>4
<1>5. rank \in Injection(set, places)
  BY <1>3, <1>4 DEF Injection, IsInjective
<1>6. rank \in Surjection(set, places) BY <1>2, <1>5, FS_Injection
<1>7. k \in places BY <1>1
<1>8. PICK c \in set : rank[c] = k BY <1>6, <1>7 DEF Surjection
<1> QED BY <1>8

\* One more member moves a rank by at most one.
LEMMA PostMovesDownByOne ==
  ASSUME NEW set \in SUBSET Nat, IsFiniteSet(set), NEW x \in Nat, NEW a \in Nat
  PROVE  /\ Cardinality(Newer(set, a)) <= Cardinality(Newer(set \cup {x}, a))
         /\ Cardinality(Newer(set \cup {x}, a)) <= Cardinality(Newer(set, a)) + 1
<1>1. IsFiniteSet(Newer(set, a)) /\ Cardinality(Newer(set, a)) \in Nat BY NewerIsFinite
<1>2. CASE x > a
  <2>1. Newer(set \cup {x}, a) = Newer(set, a) \cup {x} BY <1>2 DEF Newer
  <2>2. Cardinality(Newer(set \cup {x}, a))
          = IF x \in Newer(set, a) THEN Cardinality(Newer(set, a))
                                   ELSE Cardinality(Newer(set, a)) + 1
    BY <1>1, <2>1, FS_AddElement
  <2> QED BY <1>1, <2>2
<1>3. CASE ~(x > a)
  <2>1. Newer(set \cup {x}, a) = Newer(set, a) BY <1>3 DEF Newer
  <2> QED BY <1>1, <2>1
<1> QED BY <1>2, <1>3

\* The newest member has rank 0.
LEMMA NewestRanksFirst ==
  ASSUME NEW set \in SUBSET Nat, NEW x \in Nat, \A a \in set : a < x
  PROVE  Cardinality(Newer(set \cup {x}, x)) = 0
<1>1. \A a \in set \cup {x} : ~(a > x)
  <2> SUFFICES ASSUME NEW a \in set \cup {x} PROVE ~(a > x)
    OBVIOUS
  <2>1. a \in Nat /\ (a = x \/ a < x) OBVIOUS
  <2> QED BY <2>1
<1>2. Newer(set \cup {x}, x) = {} BY <1>1 DEF Newer
<1> QED BY <1>2, FS_EmptySet

-----------------------------------------------------------------------------
(* The inductive invariant.                                                *)

Running == stage # "idle"

Stored == {a \in Article : IsStored(a)}

\* Articles that are stored, or will be once the page's rows are processed.
Got == Stored \cup {row.no : row \in rows}

\* Regular rows of the list pages this run has fetched so far.
Listed == IF stage = "page" THEN page * PageSize + PageSize ELSE page * PageSize

FirstFetch == stage = "listing" /\ page = 0

\* Where a run is, and what its page and the store may hold.
Shape ==
  /\ stage # "page" => rows = {}
  /\ stage = "idle" => page = 0
  /\ stage = "page" => page < MaxPages
  /\ allKnown => Running /\ mode = "incremental"
  /\ Stored \subseteq 1 .. posted
  /\ atStart \subseteq 1 .. posted
  /\ \A row \in rows : row.no <= posted
  /\ \A row, other \in rows : row.no = other.no => row = other
  /\ \A a \in Article : title[a] <= edits

\* Titles only grow: stored, then shown by the page, then on the board.
Versions ==
  /\ \A a \in Article : store[a] <= title[a]
  /\ \A row \in rows : store[row.no] <= row.title /\ row.title <= title[row.no]
  /\ \A row \in rows : seen[row.no] # Absent => seen[row.no] = store[row.no]

\* A row of the first page is still to come, or it was processed.
FirstRows ==
  runClean => \A row \in firstPage :
                row \in rows \/ Old(row.no) \/ store[row.no] >= row.title

\* The board of a run nothing has disturbed: new posts are regular rows on top.
CleanBoard ==
  Running /\ runClean =>
    \A b \in live \ atStart : b \notin pinned /\ \A a \in atStart : a < b

\* An article of the board the run began with is got, or still lies deeper.
Deeper ==
  Running /\ runClean =>
    \A b \in Owed : \/ b \in Got
                    \/ b \in Regular /\ Rank(b) >= Listed
                    \/ b \in pinned /\ FirstFetch

\* Verdicts on the page being processed that will end the run after it.
BelowFloorPage == stage = "page" /\ runClean /\ belowFloor => Owed \subseteq Got

KnownPage ==
  stage = "page" /\ runClean /\ intact /\ page = 0 /\ allKnown => Owed \subseteq Got

\* A disturbed run is one cut short.
IntactIsClean ==
  /\ Running /\ intact => runClean
  /\ intact => shifted < PageSize

\* Nothing older than a stored article is missing.
Closed ==
  \A a \in Stored, b \in live : ~Old(b) /\ b < a => IsStored(b)

\* It holds between runs, until a run has fetched its first page.
NoGaps == intact /\ (stage = "idle" \/ FirstFetch) => Closed

\* During a run, an article below which something is missing is one the run has
\* passed: it is pinned, or ranks before where the next list page begins.
Covered ==
  intact /\ Running /\ ~FirstFetch =>
    /\ \A a \in Stored, b \in live :
         ~Old(b) /\ b < a /\ ~IsStored(b) => a \in pinned \/ Rank(a) < Listed + shifted
    /\ \A row \in rows : row.no \in pinned \/ Rank(row.no) < Listed + shifted

\* A post of the run that is not got is newer than all that is.
NewPosts ==
  intact /\ Running =>
    \A b \in live \ atStart :
      /\ FirstFetch => Rank(b) < shifted
      /\ ~FirstFetch /\ ~Old(b) /\ b \notin Got
           => Rank(b) < Listed + shifted /\ \A g \in Got : g < b

\* What a run that ended has achieved.
Done == IntactRunIsComplete /\ FullSweepIsComplete

Walk ==
  /\ CleanBoard /\ Deeper /\ BelowFloorPage /\ KnownPage /\ IntactIsClean
  /\ NoGaps /\ Covered /\ NewPosts /\ Done

-----------------------------------------------------------------------------
(* The board and its pages.                                                *)

\* The sets and ranks of a board are finite and natural.
LEMMA BoardFacts ==
  ASSUME TypeOK
  PROVE  /\ Regular \in SUBSET Nat /\ IsFiniteSet(Regular)
         /\ Cardinality(Regular) \in Nat
         /\ live \in SUBSET Nat /\ live \in SUBSET Article /\ pinned \in SUBSET Article
         /\ \A a \in Nat : Rank(a) \in Nat /\ Rank(a) = Cardinality(Newer(Regular, a))
<1>1. live \in SUBSET Article /\ pinned \in SUBSET Article /\ live \in SUBSET Nat
  BY ArticleAssumption DEF TypeOK, Article
<1>2. Regular \in SUBSET Article /\ Regular \in SUBSET Nat BY <1>1 DEF Regular
<1>3. IsFiniteSet(Article)
  BY ArticleAssumption, FS_Interval DEF Article
<1>4. IsFiniteSet(Regular) BY <1>2, <1>3, FS_Subset
<1>5. Cardinality(Regular) \in Nat BY <1>4, FS_CardinalityType
<1>6. ASSUME NEW a \in Nat
      PROVE  Rank(a) \in Nat /\ Rank(a) = Cardinality(Newer(Regular, a))
  <2>1. Rank(a) = Cardinality(Newer(Regular, a)) BY DEF Rank, Newer
  <2> QED BY <1>4, <2>1, NewerIsFinite
<1> QED BY <1>1, <1>2, <1>4, <1>5, <1>6

\* An older article ranks deeper than a regular one.
LEMMA OlderIsDeeper ==
  ASSUME TypeOK, NEW a \in Nat, NEW b \in Regular, a < b
  PROVE  Rank(b) < Rank(a)
<1>1. b \in Nat BY BoardFacts
<1> QED BY <1>1, BoardFacts, OlderRanksDeeper

\* Of two regular articles the one that ranks higher is newer.
LEMMA NotDeeperIsNewer ==
  ASSUME TypeOK, NEW a \in Regular, NEW b \in Regular, Rank(a) < Rank(b)
  PROVE  b < a
<1>1. a \in Nat /\ b \in Nat /\ Rank(a) \in Nat /\ Rank(b) \in Nat BY BoardFacts
<1>2. a # b BY <1>1
<1>3. ~(a < b) BY <1>1, OlderIsDeeper
<1> QED BY <1>1, <1>2, <1>3

\* A regular article above a rank shows that some article has the rank.
LEMMA RankIsTaken ==
  ASSUME TypeOK, NEW b \in Regular, NEW k \in Nat, k <= Rank(b)
  PROVE  \E c \in Regular : Rank(c) = k
<1>1. b \in Nat /\ Rank(b) \in Nat /\ Rank(b) = Cardinality(Newer(Regular, b))
  BY BoardFacts
<1>2. Rank(b) < Cardinality(Regular) BY <1>1, BoardFacts, RankBelowSize
<1>3. k < Cardinality(Regular) BY <1>1, <1>2, BoardFacts
<1>4. PICK c \in Regular : Cardinality(Newer(Regular, c)) = k
  BY <1>3, BoardFacts, EveryRankIsTaken
<1> QED BY <1>4, BoardFacts

\* What a fetch returns: a row for each pinned article and each one of the page.
LEMMA FetchedRows ==
  ASSUME TypeOK
  PROVE  /\ Fetched \subseteq Row
         /\ \A row \in Fetched : /\ row.no \in Article /\ row.no \in live
                                 /\ row.title = title[row.no]
                                 /\ row.pinned <=> row.no \in pinned
                                 /\ row.no \in pinned \/ row.no \in OnPage(page)
         /\ \A row, other \in Fetched : row.no = other.no => row = other
         /\ \A a \in pinned \cup OnPage(page) : \E row \in Fetched : row.no = a
<1> DEFINE show(a) == [no |-> a, title |-> title[a], pinned |-> a \in pinned]
<1>1. Fetched = {show(a) : a \in pinned \cup OnPage(page)} BY DEF Fetched, Listing
<1>2. ASSUME NEW a \in pinned \cup OnPage(page)
      PROVE  a \in Article /\ a \in live /\ show(a) \in Row
  <2>1. a \in live BY DEF TypeOK, OnPage, Regular
  <2>2. a \in Article BY <2>1, BoardFacts
  <2>3. title[a] \in Title BY <2>2 DEF TypeOK
  <2> QED BY <2>1, <2>2, <2>3 DEF Row
<1>3. ASSUME NEW row \in Fetched
      PROVE  \E a \in pinned \cup OnPage(page) : row = show(a)
  BY <1>1
<1>4. \A a : show(a).no = a /\ show(a).title = title[a] /\ (show(a).pinned <=> a \in pinned)
  OBVIOUS
<1> HIDE DEF show
<1>5. Fetched \subseteq Row BY <1>2, <1>3
<1>6. ASSUME NEW row \in Fetched
      PROVE  /\ row.no \in Article /\ row.no \in live
             /\ row.title = title[row.no]
             /\ row.pinned <=> row.no \in pinned
             /\ row.no \in pinned \/ row.no \in OnPage(page)
             /\ row = show(row.no)
  <2>1. PICK a \in pinned \cup OnPage(page) : row = show(a) BY <1>3
  <2>2. row.no = a BY <2>1, <1>4
  <2> QED BY <2>1, <2>2, <1>2, <1>4
<1>7. ASSUME NEW a \in pinned \cup OnPage(page)
      PROVE  \E row \in Fetched : row.no = a
  BY <1>1, <1>4
<1> QED BY <1>5, <1>6, <1>7

-----------------------------------------------------------------------------
(* Type correctness, with the shape of a run it depends on.                *)

\* Writing a row's title to the store keeps its type.
LEMMA StoreWrite ==
  ASSUME TypeOK, NEW row \in rows
  PROVE  /\ row.no \in Article /\ row.title \in Title
         /\ [store EXCEPT ![row.no] = row.title] \in [Article -> Title \cup {Absent}]
<1>1. row \in Row BY DEF TypeOK
<1>2. row.no \in Article /\ row.title \in Title BY <1>1 DEF Row
<1>3. store \in [Article -> Title \cup {Absent}] BY DEF TypeOK
<1> QED BY <1>2, <1>3

\* No title version is mistaken for an absent document.
LEMMA AbsentIsNoTitle == Absent \notin Title
BY BoundsAssumption DEF Absent, Title

\* The empty lookup has the type of a lookup.
LEMMA NothingType == Nothing \in [Article -> Title \cup {Absent}]
BY DEF Nothing

\* The initial states have the types and the shape.
LEMMA InitType == Init => TypeOK /\ Shape
<1> SUFFICES ASSUME Init PROVE TypeOK /\ Shape
  OBVIOUS
<1>1. 0 \in Title BY BoundsAssumption DEF Title
<1>2. [a \in Article |-> 0] \in [Article -> Title] BY <1>1
<1>3. pinned \subseteq live BY DEF Init
<1>4. live \subseteq 1 .. posted /\ posted \in 0 .. Newest BY DEF Init
<1>5. title \in [Article -> Title] BY <1>2 DEF Init
<1>6. store \in [Article -> Title \cup {Absent}] /\ seen \in [Article -> Title \cup {Absent}]
  BY NothingType DEF Init
<1>7. /\ page \in 0 .. MaxPages /\ faults \in 0 .. MaxFaults
      /\ edits \in 0 .. MaxEdits /\ moves \in 0 .. MaxMoves /\ shifted \in Nat
  BY BoundsAssumption DEF Init
<1>8. TypeOK BY <1>3, <1>4, <1>5, <1>6, <1>7 DEF Init, TypeOK
<1>9. Stored = {} BY DEF Init, Stored, IsStored, Nothing
<1>10. \A a \in Article : title[a] <= edits BY DEF Init
<1> QED BY <1>8, <1>9, <1>10 DEF Init, Shape

\* The board's steps keep the types and the shape.
LEMMA BoardType ==
  ASSUME TypeOK, Shape, Board
  PROVE  TypeOK' /\ Shape'
<1>1. CASE Post
  <2>1. posted' \in 0 .. Newest /\ posted' = posted + 1 BY <1>1, ArticleAssumption DEF Post, TypeOK
  <2>2. pinned' \subseteq live' /\ live' \subseteq 1 .. posted'
    BY <1>1, <2>1, ArticleAssumption DEF Post, TypeOK
  <2>3. shifted' \in Nat BY <1>1 DEF Post, TypeOK
  <2>4. (1 .. posted) \subseteq 1 .. posted' BY <1>1, ArticleAssumption DEF Post, TypeOK
  <2>5. intact' \in BOOLEAN BY <1>1 DEF Post, TypeOK
  <2>6. TypeOK' BY <1>1, <2>1, <2>2, <2>3, <2>5 DEF Post, TypeOK, pageVars
  <2>7. ASSUME NEW row \in rows PROVE row.no <= posted'
    <3>1. row.no \in Int BY StoreWrite DEF Article
    <3> QED BY <3>1, <2>1, <1>1, ArticleAssumption DEF Shape, TypeOK
  <2>8. Shape' BY <1>1, <2>4, <2>7 DEF Post, Shape, Running, Stored, IsStored, pageVars
  <2> QED BY <2>6, <2>8
<1>2. ASSUME NEW a \in Article, Edit(a) PROVE TypeOK' /\ Shape'
  <2> DEFINE next == [title EXCEPT ![a] = @ + 1]
  <2>1. title[a] \in Nat /\ title[a] <= edits /\ edits \in Nat /\ edits < MaxEdits
    BY <1>2, BoundsAssumption DEF TypeOK, Title, Shape, Edit
  <2>2. title[a] + 1 \in Title /\ edits + 1 \in 0 .. MaxEdits
    BY <2>1, BoundsAssumption DEF Title
  <2>3. next \in [Article -> Title] BY <2>2 DEF TypeOK
  <2>4. \A b \in Article : next[b] = IF b = a THEN title[b] + 1 ELSE title[b]
    BY DEF TypeOK
  <2> HIDE DEF next
  <2>5. title' = next /\ edits' = edits + 1 BY <1>2 DEF Edit, next
  <2>6. TypeOK' BY <1>2, <2>2, <2>3, <2>5 DEF Edit, TypeOK, pageVars, historyVars
  <2>7. ASSUME NEW b \in Article PROVE title'[b] <= edits'
    <3>1. title[b] \in Nat /\ title[b] <= edits /\ edits \in Nat
      BY BoundsAssumption DEF TypeOK, Title, Shape
    <3> QED BY <2>4, <2>5, <3>1
  <2>8. Shape' BY <1>2, <2>7 DEF Edit, Shape, Running, Stored, IsStored, pageVars, historyVars
  <2> QED BY <2>6, <2>8
<1>3. ASSUME NEW a \in Article, Move(a) PROVE TypeOK' /\ Shape'
  <2>1. pinned' \subseteq live' /\ live' \subseteq 1 .. posted
    BY <1>3 DEF Move, TypeOK
  <2>2. moves' \in 0 .. MaxMoves BY <1>3, BoundsAssumption DEF Move, TypeOK
  <2>3. runClean' \in BOOLEAN /\ intact' \in BOOLEAN BY <1>3 DEF Move, TypeOK
  <2>4. TypeOK' BY <1>3, <2>1, <2>2, <2>3 DEF Move, TypeOK, pageVars
  <2>5. Shape' BY <1>3 DEF Move, Shape, Running, Stored, IsStored, pageVars
  <2> QED BY <2>4, <2>5
<1> QED BY <1>1, <1>2, <1>3 DEF Board

\* The fault counter stays within its bound.
LEMMA FaultType ==
  ASSUME TypeOK, NEW kind, MayFault(kind)
  PROVE  faults' \in 0 .. MaxFaults
BY BoundsAssumption DEF MayFault, TypeOK

\* Steps that end the run, whatever they make of the history variables.
LEMMA EndType ==
  ASSUME TypeOK, Shape, Finish,
         UNCHANGED <<boardVars, store, mode, atStart, firstPage>>,
         runClean' \in BOOLEAN, intact' \in BOOLEAN, faults' \in 0 .. MaxFaults
  PROVE  TypeOK' /\ Shape'
<1>1. 0 \in 0 .. MaxPages BY BoundsAssumption
<1>2. TypeOK' BY <1>1, NothingType DEF Finish, TypeOK, boardVars
<1>3. Shape' BY DEF Finish, Shape, Running, Stored, IsStored, boardVars
<1> QED BY <1>2, <1>3

\* A lookup returns stored versions.
LEMMA LookupType == TypeOK => Lookup \in [Article -> Title \cup {Absent}]
BY DEF TypeOK, Lookup

\* The run's steps and its faults keep the types and the shape.
LEMMA CrawlType ==
  ASSUME TypeOK, Shape, Crawl \/ ListFails \/ ItemFails \/ Crash
  PROVE  TypeOK' /\ Shape'
<1>1. CASE StartRun
  <2>1. atStart' \subseteq Article /\ atStart' \subseteq 1 .. posted
    BY <1>1, BoardFacts DEF StartRun, TypeOK
  <2>2. 0 \in Nat /\ 0 \in 0 .. MaxPages BY BoundsAssumption
  <2>3. TypeOK' BY <1>1, <2>1, <2>2 DEF StartRun, TypeOK, pageVars
  <2>4. Shape' BY <1>1, <2>1 DEF StartRun, Shape, Running, Stored, IsStored, pageVars
  <2> QED BY <2>3, <2>4
<1>2. CASE ListEnds
  BY <1>2, EndType DEF ListEnds, historyVars, TypeOK
<1>3. CASE ListPage
  <2>1. {allKnown', belowFloor'} \subseteq BOOLEAN
    BY <1>3 DEF ListPage, FetchedAllKnown, PageBelowFloor
  <2>2. seen' \in [Article -> Title \cup {Absent}] BY <1>3, LookupType DEF ListPage
  <2>3. rows' \subseteq Row /\ firstPage' \subseteq Row
    BY <1>3, FetchedRows DEF ListPage, TypeOK
  <2>4. 0 \in Nat OBVIOUS
  <2>5. TypeOK' BY <1>3, <2>1, <2>2, <2>3, <2>4 DEF ListPage, TypeOK
  <2>6. \A row, other \in rows' : row.no = other.no => row = other
    BY <1>3, FetchedRows DEF ListPage
  <2>7. \A row \in rows' : row.no <= posted
    BY <1>3, FetchedRows DEF ListPage, TypeOK
  <2>8. Shape' BY <1>3, <2>6, <2>7 DEF ListPage, FetchedAllKnown, Shape, Running, Stored, IsStored
  <2> QED BY <2>5, <2>8
<1>4. CASE PageLimit
  <2>1. runClean' \in BOOLEAN /\ intact' \in BOOLEAN BY <1>4 DEF PageLimit, TypeOK
  <2> QED BY <1>4, <2>1, EndType DEF PageLimit, TypeOK
<1>5. CASE Item
  <2>1. PICK row \in rows :
          /\ store' = IF Wanted(row) THEN [store EXCEPT ![row.no] = row.title] ELSE store
          /\ rows' = rows \ {row}
    BY <1>5 DEF Item, Foremost
  <2>2. store' \in [Article -> Title \cup {Absent}] BY <2>1, StoreWrite DEF TypeOK
  <2>3. TypeOK'
    BY <1>5, <2>1, <2>2 DEF Item, TypeOK, boardVars, historyVars
  <2>4. row.no \in 1 .. posted
    BY StoreWrite DEF Shape, Article, TypeOK
  <2>5. Stored' \subseteq Stored \cup {row.no}
    BY <2>1, StoreWrite DEF Stored, IsStored, TypeOK
  <2>6. Shape'
    BY <1>5, <2>1, <2>4, <2>5 DEF Item, Shape, Running, boardVars, historyVars
  <2> QED BY <2>3, <2>6
<1>6. CASE BatchCompleted
  <2>1. page + 1 \in 0 .. MaxPages
    BY <1>6, BoundsAssumption DEF BatchCompleted, Shape, TypeOK
  <2>2. CASE (page = 0 /\ allKnown) \/ belowFloor
    BY <1>6, <2>2, EndType DEF BatchCompleted, historyVars, TypeOK
  <2>3. CASE ~((page = 0 /\ allKnown) \/ belowFloor)
    <3>1. TypeOK'
      BY <1>6, <2>1, <2>3 DEF BatchCompleted, TypeOK, boardVars, historyVars, pageVars
    <3>2. Shape'
      BY <1>6, <2>3
      DEF BatchCompleted, Shape, Running, Stored, IsStored, boardVars, historyVars, pageVars
    <3> QED BY <3>1, <3>2
  <2> QED BY <2>2, <2>3
<1>7. CASE ListFails
  <2>1. runClean' \in BOOLEAN /\ intact' \in BOOLEAN BY <1>7 DEF ListFails, TypeOK
  <2> QED BY <1>7, <2>1, FaultType, EndType DEF ListFails
<1>8. CASE ItemFails
  <2>1. PICK row \in rows : rows' = rows \ {row} BY <1>8 DEF ItemFails, Foremost
  <2>2. faults' \in 0 .. MaxFaults BY <1>8, FaultType DEF ItemFails
  <2>3. TypeOK' BY <1>8, <2>1, <2>2 DEF ItemFails, TypeOK, boardVars
  <2>4. Shape' BY <1>8, <2>1 DEF ItemFails, Shape, Running, Stored, IsStored, boardVars
  <2> QED BY <2>3, <2>4
<1>9. CASE Crash
  BY <1>9, FaultType, EndType DEF Crash
<1> QED
  BY <1>1, <1>2, <1>3, <1>4, <1>5, <1>6, <1>7, <1>8, <1>9 DEF Crawl

\* Every step keeps the types and the shape.
LEMMA NextType ==
  ASSUME TypeOK, Shape, [Next]_vars
  PROVE  TypeOK' /\ Shape'
<1>1. CASE UNCHANGED vars
  BY <1>1
  DEF TypeOK, Shape, Running, Stored, IsStored, vars, boardVars, pageVars, historyVars
<1> QED BY <1>1, BoardType, CrawlType DEF Next

\* The variables keep their types; the rows being processed are of one page.
THEOREM TypeCorrect == Spec => []TypeOK
<1>1. Init => TypeOK /\ Shape BY InitType
<1>2. TypeOK /\ Shape /\ [Next]_vars => (TypeOK /\ Shape)' BY NextType
<1> QED BY <1>1, <1>2, PTL DEF Spec

-----------------------------------------------------------------------------
(* Titles: what is stored is never ahead of the board, nor behind a page   *)
(* that was processed.                                                     *)

\* Titles and stored versions can be compared.
LEMMA TitlesAreIntegers ==
  ASSUME TypeOK
  PROVE  /\ \A a \in Article : title[a] \in Int /\ store[a] \in Int
         /\ \A row \in rows \cup firstPage : row.no \in Article /\ row.title \in Int
<1>1. Title \subseteq Int /\ Absent \in Int BY BoundsAssumption DEF Title, Absent
<1>2. \A row \in Row : row.no \in Article /\ row.title \in Title BY DEF Row
<1> QED BY <1>1, <1>2 DEF TypeOK

\* Nothing is stored at first.
LEMMA InitVersions == Init => Versions
<1> SUFFICES ASSUME Init PROVE Versions
  OBVIOUS
<1>1. \A a \in Article : store[a] = -1 /\ title[a] = 0
  BY DEF Init, Nothing, Absent
<1> QED BY <1>1 DEF Init, Versions

\* Processing a row leaves its article below the floor or stored at its title.
LEMMA ItemStep ==
  ASSUME TypeOK, Shape, Versions, Item
  PROVE  \E row \in rows :
           /\ rows' = rows \ {row}
           /\ row.no \in Article
           /\ \A a \in Article : a # row.no => store'[a] = store[a]
           /\ Old(row.no) \/ store'[row.no] = row.title
           /\ store'[row.no] = row.title \/ store'[row.no] = store[row.no]
<1>1. PICK row \in rows :
        /\ store' = IF Wanted(row) THEN [store EXCEPT ![row.no] = row.title] ELSE store
        /\ rows' = rows \ {row}
  BY DEF Item, Foremost
<1>2. row.no \in Article BY StoreWrite
<1>3. store \in [Article -> Title \cup {Absent}] BY DEF TypeOK
<1>4. CASE Wanted(row)
  <2>1. \A a \in Article : store'[a] = IF a = row.no THEN row.title ELSE store[a]
    BY <1>1, <1>3, <1>4
  <2> QED BY <1>1, <1>2, <2>1
<1>5. CASE ~Wanted(row)
  <2>1. store' = store BY <1>1, <1>5
  <2>2. Old(row.no) \/ store[row.no] = row.title
    BY <1>5 DEF Wanted, HasChanged, Versions
  <2> QED BY <1>1, <1>2, <2>1, <2>2
<1> QED BY <1>4, <1>5

\* No step stores or shows a title ahead of the board's.
LEMMA VersionsStep ==
  ASSUME TypeOK, Shape, Versions, [Next]_vars
  PROVE  Versions'
<1>1. CASE UNCHANGED vars
  BY <1>1 DEF Versions, vars, boardVars, pageVars
<1>2. CASE Post BY <1>2 DEF Post, Versions, pageVars
<1>3. ASSUME NEW a \in Article, Edit(a) PROVE Versions'
  <2>1. \A b \in Article : title[b] <= title'[b]
    BY <1>3, TitlesAreIntegers DEF Edit, TypeOK
  <2>2. \A b \in Article : title'[b] \in Int
    BY <1>3, TitlesAreIntegers DEF Edit, TypeOK
  <2> QED BY <1>3, <2>1, <2>2, TitlesAreIntegers DEF Edit, Versions, pageVars
<1>4. ASSUME NEW a \in Article, Move(a) PROVE Versions'
  BY <1>4 DEF Move, Versions, pageVars
<1>5. CASE Finish /\ UNCHANGED <<boardVars, store>>
  BY <1>5 DEF Finish, Versions, boardVars
<1>6. CASE StartRun BY <1>6 DEF StartRun, Versions, pageVars
<1>7. CASE ListPage
  <2>1. rows' = Fetched /\ seen' = Lookup /\ UNCHANGED <<store, title>>
    BY <1>7 DEF ListPage
  <2>2. \A row \in Fetched : row.no \in Article /\ row.title = title[row.no]
    BY FetchedRows
  <2>3. \A row \in Fetched : Lookup[row.no] # Absent => Lookup[row.no] = store[row.no]
    BY <2>2 DEF Lookup
  <2> QED BY <2>1, <2>2, <2>3, TitlesAreIntegers DEF Versions
<1>8. CASE Item
  <2>1. PICK row \in rows :
           /\ rows' = rows \ {row}
           /\ row.no \in Article
           /\ \A a \in Article : a # row.no => store'[a] = store[a]
           /\ store'[row.no] = row.title \/ store'[row.no] = store[row.no]
    BY <1>8, ItemStep
  <2>2. UNCHANGED <<title, seen>> BY <1>8 DEF Item, boardVars
  <2>3. \A other \in rows' : other.no # row.no /\ other.no \in Article
    BY <2>1, TitlesAreIntegers DEF Shape
  <2> QED BY <2>1, <2>2, <2>3, TitlesAreIntegers DEF Versions
<1>9. CASE ItemFails
  BY <1>9 DEF ItemFails, Foremost, Versions, boardVars
<1>10. CASE BatchCompleted /\ UNCHANGED pageVars
  BY <1>10 DEF BatchCompleted, Versions, boardVars, pageVars
<1> QED
  BY <1>1, <1>2, <1>3, <1>4, <1>5, <1>6, <1>7, <1>8, <1>9, <1>10
  DEF Next, Crawl, Board, ListEnds, PageLimit, ListFails, Crash, BatchCompleted

\* No step forgets a row of the first page.
LEMMA FirstRowsStep ==
  ASSUME TypeOK, Shape, Versions, FirstRows, [Next]_vars
  PROVE  FirstRows'
<1>1. CASE UNCHANGED vars
  BY <1>1 DEF FirstRows, vars, pageVars, historyVars
<1>2. CASE Post BY <1>2 DEF Post, FirstRows, pageVars
<1>3. ASSUME NEW a \in Article, Edit(a) PROVE FirstRows'
  BY <1>3 DEF Edit, FirstRows, pageVars, historyVars
<1>4. ASSUME NEW a \in Article, Move(a) PROVE FirstRows'
  BY <1>4 DEF Move, FirstRows, pageVars
<1>5. CASE /\ Finish /\ UNCHANGED <<store, firstPage>>
           /\ ~runClean' \/ (rows = {} /\ runClean)
  BY <1>5 DEF Finish, FirstRows
<1>6. CASE StartRun BY <1>6 DEF StartRun, FirstRows
<1>7. CASE ListPage
  BY <1>7 DEF ListPage, FirstRows, Shape
<1>8. CASE Item
  <2>1. PICK row \in rows :
           /\ rows' = rows \ {row}
           /\ row.no \in Article
           /\ \A a \in Article : a # row.no => store'[a] = store[a]
           /\ Old(row.no) \/ store'[row.no] = row.title
           /\ store'[row.no] = row.title \/ store'[row.no] = store[row.no]
    BY <1>8, ItemStep
  <2>2. \A a \in Article : store'[a] \in Int /\ store[a] <= store'[a]
    BY <2>1, TitlesAreIntegers DEF Versions
  <2>3. UNCHANGED <<firstPage, runClean>> BY <1>8 DEF Item, historyVars
  <2> SUFFICES ASSUME runClean, NEW other \in firstPage
               PROVE  other \in rows' \/ Old(other.no) \/ store'[other.no] >= other.title
    BY <2>3 DEF FirstRows
  <2>4. CASE other = row BY <2>1, <2>2, <2>4, TitlesAreIntegers
  <2>5. CASE other # row BY <2>1, <2>2, <2>5, TitlesAreIntegers DEF FirstRows
  <2> QED BY <2>4, <2>5
<1>9. CASE ItemFails BY <1>9 DEF ItemFails, FirstRows
<1>10. CASE BatchCompleted /\ UNCHANGED pageVars
  BY <1>10 DEF BatchCompleted, FirstRows, pageVars, historyVars
<1>11. CASE (ListEnds \/ PageLimit \/ BatchCompleted) /\ Finish
  BY <1>5, <1>11 DEF ListEnds, PageLimit, BatchCompleted, Shape, FirstRows, historyVars, Finish
<1>12. CASE ListFails \/ Crash
  BY <1>5, <1>12 DEF ListFails, Crash
<1> QED
  BY <1>1, <1>2, <1>3, <1>4, <1>6, <1>7, <1>8, <1>9, <1>10, <1>11, <1>12
  DEF Next, Crawl, Board, ListEnds, PageLimit, BatchCompleted

\* An undisturbed run leaves every row its first page showed stored, at least at
\* the title it showed, unless it is older than the floor.
THEOREM FirstPageStaysFresh == Spec => []FirstPageIsFresh
<1>1. Init => FirstRows BY DEF Init, FirstRows
<1>2. TypeOK /\ Shape /\ Versions /\ FirstRows /\ [Next]_vars
        => (TypeOK /\ Shape /\ Versions /\ FirstRows)'
  BY NextType, VersionsStep, FirstRowsStep
<1>3. Shape /\ FirstRows => FirstPageIsFresh
  BY DEF Shape, FirstRows, FirstPageIsFresh
<1> QED BY <1>1, <1>2, <1>3, InitType, InitVersions, PTL DEF Spec

\* What is stored of an article never goes back to an older title, nor ahead of
\* the board's: a page kept while titles were edited overwrites nothing newer.
StoreOnlyAdvances ==
  [][\A a \in Article : store[a] <= store'[a] /\ store'[a] <= title'[a]]_vars

\* No step but the processing of a row writes the store.
LEMMA OnlyItemStores == [Next]_vars => Item \/ store' = store
BY DEF Next, Crawl, Board, Post, Edit, Move, StartRun, ListEnds, ListPage, PageLimit,
   BatchCompleted, ListFails, ItemFails, Crash, vars, boardVars

\* In runs of either mode, with any faults and edits, the store only advances.
THEOREM StoreNeverGoesBack == Spec => StoreOnlyAdvances
<1>1. ASSUME TypeOK, Shape, Versions, [Next]_vars, NEW a \in Article
      PROVE  store[a] <= store'[a] /\ store'[a] <= title'[a]
  <2>1. store'[a] <= title'[a]
    BY <1>1, VersionsStep DEF Versions, Article
  <2>2. store[a] \in Int
    BY <1>1, TitlesAreIntegers
  <2>3. CASE store' = store BY <2>1, <2>2, <2>3
  <2>4. CASE Item
    <3>1. PICK row \in rows :
             /\ row.no \in Article
             /\ \A b \in Article : b # row.no => store'[b] = store[b]
             /\ store'[row.no] = row.title \/ store'[row.no] = store[row.no]
      BY <1>1, <2>4, ItemStep
    <3>2. store[row.no] <= row.title BY <1>1, <3>1 DEF Versions
    <3> QED BY <2>1, <2>2, <3>1, <3>2
  <2> QED BY <1>1, <2>3, <2>4, OnlyItemStores
<1>2. TypeOK /\ Shape /\ Versions /\ [Next]_vars =>
        [\A a \in Article : store[a] <= store'[a] /\ store'[a] <= title'[a]]_vars
  BY <1>1
<1>3. TypeOK /\ Shape /\ Versions /\ [Next]_vars => (TypeOK /\ Shape /\ Versions)'
  BY NextType, VersionsStep
<1> QED BY <1>2, <1>3, InitType, InitVersions, PTL DEF Spec, StoreOnlyAdvances

-----------------------------------------------------------------------------
(* How far a run has come: what each stop proves about the board.          *)

Start == page * PageSize

\* Arithmetic of the place where the present page starts.
LEMMA StartFacts ==
  ASSUME TypeOK
  PROVE  /\ page \in Nat /\ shifted \in Nat /\ PageSize \in Nat /\ PageSize >= 1
         /\ Start \in Nat
         /\ stage = "listing" => Listed = Start
         /\ stage = "page" => Listed = Start + PageSize
         /\ page = 0 => Start = 0
         /\ (page + 1) * PageSize = Start + PageSize
<1>1. page \in Nat /\ shifted \in Nat /\ PageSize \in Nat /\ PageSize >= 1
  BY PageSizeAssumption, BoundsAssumption, PageLimitAssumption DEF TypeOK
<1>2. \A m, n \in Nat : m * n \in Nat /\ (m + 1) * n = m * n + n /\ 0 * n = 0
  OBVIOUS
<1>3. Start \in Nat /\ (page + 1) * PageSize = Start + PageSize /\ (page = 0 => Start = 0)
  BY <1>1, <1>2 DEF Start
<1> QED BY <1>1, <1>3 DEF Listed, Start

\* A fetched page and the articles that rank on it or below it.
LEMMA PageFacts ==
  ASSUME TypeOK
  PROVE  /\ \A a \in OnPage(page) : /\ a \in Regular
                                    /\ Start <= Rank(a) /\ Rank(a) < Start + PageSize
         /\ \A a \in Regular : Rank(a) >= Start /\ a \notin OnPage(page)
                                 => Rank(a) >= Start + PageSize
<1>1. \A a \in Regular : Rank(a) \in Nat BY BoardFacts
<1>2. Start \in Nat /\ PageSize \in Nat BY StartFacts
<1> QED BY <1>1, <1>2 DEF OnPage, Start

\* If something lies deeper than the page, every place of the page is taken.
LEMMA PlaceIsTaken ==
  ASSUME TypeOK, NEW b \in Regular, Rank(b) >= Start + PageSize,
         NEW k \in Nat, k < PageSize
  PROVE  \E c \in OnPage(page) : Rank(c) = Start + k /\ c \in Regular /\ b < c
<1>1. Rank(b) \in Nat /\ Start \in Nat /\ PageSize \in Nat BY StartFacts, BoardFacts
<1>2. Start + k \in Nat /\ Start + k <= Rank(b) BY <1>1
<1>3. PICK c \in Regular : Rank(c) = Start + k BY <1>2, RankIsTaken
<1>4. Start <= Rank(c) /\ Rank(c) < Start + PageSize BY <1>1, <1>3
<1>5. c \in OnPage(page) BY <1>4 DEF OnPage, Start
<1>6. Rank(c) < Rank(b) BY <1>1, <1>3
<1> QED BY <1>3, <1>5, <1>6, NotDeeperIsNewer

\* An owed article is a live one the run started with.
LEMMA OwedFacts ==
  ASSUME TypeOK, NEW b \in Owed
  PROVE  b \in live /\ b \in atStart /\ ~Old(b) /\ b \in Article /\ b \in Nat
BY BoardFacts DEF Owed

\* At a list fetch, an owed article is stored, shown on the page, or deeper.
LEMMA OwedAtFetch ==
  ASSUME TypeOK, Shape, Deeper, stage = "listing", runClean,
         NEW b \in Owed, ~IsStored(b)
  PROVE  \/ b \in pinned /\ page = 0
         \/ b \in OnPage(page) /\ b \in Regular
         \/ b \in Regular /\ Rank(b) >= Start + PageSize
<1>1. b \notin Got BY DEF Got, Stored, Shape
<1>2. (b \in Regular /\ Rank(b) >= Start) \/ (b \in pinned /\ page = 0)
  BY <1>1, StartFacts DEF Deeper, Running, FirstFetch
<1> QED BY <1>2, PageFacts

\* The stop on an empty page: nothing owed lies deeper.
LEMMA EmptyPageStop ==
  ASSUME TypeOK, Shape, Deeper, stage = "listing", runClean, Fetched = {},
         NEW b \in Owed
  PROVE  IsStored(b)
<1> SUFFICES ASSUME ~IsStored(b) PROVE FALSE
  OBVIOUS
<1>1. pinned \cup OnPage(page) = {} BY FetchedRows
<1>2. b \in Regular /\ Rank(b) >= Start + PageSize BY <1>1, OwedAtFetch
<1>3. 0 \in Nat /\ 0 < PageSize BY StartFacts
<1>4. \E c \in OnPage(page) : TRUE BY <1>2, <1>3, PlaceIsTaken
<1> QED BY <1>1, <1>4

\* Below a page whose regular rows are all old, everything is old.
LEMMA BelowOldPage ==
  ASSUME TypeOK, PageBelowFloor(Fetched), NEW b \in Regular, ~Old(b)
  PROVE  b \notin OnPage(page) /\ ~(Rank(b) >= Start + PageSize)
<1>1. PICK row \in Fetched : ~row.pinned /\ Old(row.no)
  BY DEF PageBelowFloor, RegularOf
<1>2. row.no \in OnPage(page) BY <1>1, FetchedRows
<1>3. b \notin OnPage(page)
  <2> SUFFICES ASSUME b \in OnPage(page) PROVE FALSE
    OBVIOUS
  <2>1. PICK other \in Fetched : other.no = b BY FetchedRows
  <2>2. ~other.pinned BY <2>1, FetchedRows DEF Regular
  <2> QED BY <2>1, <2>2 DEF PageBelowFloor, RegularOf
<1>4. ASSUME Rank(b) >= Start + PageSize PROVE FALSE
  <2>1. row.no \in Regular /\ Rank(row.no) < Start + PageSize BY <1>2, PageFacts
  <2>2. Rank(b) \in Nat /\ Rank(row.no) \in Nat /\ Start + PageSize \in Nat
    BY <2>1, BoardFacts, StartFacts
  <2>3. b < row.no BY <1>4, <2>1, <2>2, NotDeeperIsNewer
  <2>4. b \in Nat /\ row.no \in Nat BY <2>1, BoardFacts
  <2> QED BY <1>1, <2>3, <2>4, ArticleAssumption DEF Old
<1> QED BY <1>3, <1>4

\* A page whose regular rows are all known, in a board without gaps, is followed
\* by known articles only.
LEMMA KnownStop ==
  ASSUME TypeOK, Shape, Deeper, IntactIsClean, NoGaps, Covered,
         stage = "listing", runClean, intact, FetchedAllKnown,
         NEW b \in Owed, ~IsStored(b)
  PROVE  b \in pinned /\ page = 0
<1>1. ASSUME NEW c \in OnPage(page) PROVE IsStored(c)
  <2>1. PICK row \in Fetched : row.no = c BY FetchedRows
  <2>2. c \in Article /\ ~row.pinned BY <2>1, <1>1, FetchedRows DEF OnPage, Regular
  <2>3. Lookup[c] # Absent
    BY <2>1, <2>2 DEF FetchedAllKnown, ShouldContinue, RegularOf
  <2> QED BY <2>2, <2>3 DEF Lookup, IsStored
<1>2. ASSUME b \in Regular, Rank(b) >= Start + PageSize PROVE FALSE
  <2>1. PageSize - 1 \in Nat /\ PageSize - 1 < PageSize BY StartFacts
  <2>2. PICK c \in OnPage(page) : /\ Rank(c) = Start + (PageSize - 1)
                                  /\ c \in Regular /\ b < c
    BY <1>2, <2>1, PlaceIsTaken
  <2>3. c \in Stored BY <1>1, <2>2, FetchedRows, BoardFacts DEF Stored, Regular
  <2>4. b \in live /\ ~Old(b) BY OwedFacts
  <2>5. CASE page = 0
    BY <2>2, <2>3, <2>4, <2>5 DEF NoGaps, FirstFetch, Closed
  <2>6. CASE page # 0
    <3>1. c \in pinned \/ Rank(c) < Start + shifted
      BY <2>2, <2>3, <2>4, <2>6, StartFacts DEF Covered, Running, FirstFetch
    <3>2. c \notin pinned BY <2>2 DEF Regular
    <3>3. shifted < PageSize BY DEF IntactIsClean
    <3> QED BY <2>2, <3>1, <3>2, <3>3, StartFacts
  <2> QED BY <2>5, <2>6
<1> QED BY <1>1, <1>2, OwedAtFetch

\* The stop at the page limit: nothing lies below the pages read.
LEMMA PageLimitStop ==
  ASSUME TypeOK, Shape, Deeper, stage = "listing", runClean,
         page = MaxPages, page * PageSize >= Cardinality(Regular),
         NEW b \in Owed
  PROVE  IsStored(b)
<1> SUFFICES ASSUME ~IsStored(b) PROVE FALSE
  OBVIOUS
<1>1. page # 0 BY PageLimitAssumption
<1>2. b \in Regular /\ Rank(b) >= Start
  <2>1. CASE b \in OnPage(page) /\ b \in Regular BY <2>1, PageFacts
  <2>2. CASE b \in Regular /\ Rank(b) >= Start + PageSize
    BY <2>2, StartFacts, BoardFacts
  <2> QED BY <1>1, <2>1, <2>2, OwedAtFetch
<1>3. Rank(b) < Cardinality(Regular) /\ Rank(b) \in Nat
  BY <1>2, BoardFacts, RankBelowSize
<1> QED BY <1>2, <1>3, BoardFacts, StartFacts DEF Start

-----------------------------------------------------------------------------
(* The steps.                                                              *)

\* Before the first run there is nothing to have missed.
LEMMA InitWalk == Init => Walk
<1> SUFFICES ASSUME Init PROVE Walk
  OBVIOUS
<1>1. TypeOK BY InitType
<1>2. stage = "idle" /\ ~Running /\ Stored = {} /\ atStart = {} /\ shifted = 0
  BY DEF Init, Running, Stored, IsStored, Nothing
<1>3. IntactIsClean BY <1>1, <1>2, StartFacts DEF IntactIsClean
<1>4. Done BY <1>2 DEF Done, IntactRunIsComplete, FullSweepIsComplete, Owed
<1> QED
  BY <1>2, <1>3, <1>4
  DEF Walk, CleanBoard, Deeper, BelowFloorPage, KnownPage, NoGaps, Closed, Covered, NewPosts

\* Steps that change neither the board's rows nor the run.
LEMMA QuietStep ==
  ASSUME Walk,
         UNCHANGED <<live, pinned, shifted, store, stage, mode, page, pageVars, historyVars>>
  PROVE  Walk'
BY DEF Walk, CleanBoard, Deeper, BelowFloorPage, KnownPage, IntactIsClean, NoGaps, Closed,
       Covered, NewPosts, Done, IntactRunIsComplete, FullSweepIsComplete, Running, Stored,
       Got, Listed, FirstFetch, IsStored, Owed, Regular, Rank, pageVars, historyVars

\* A post becomes the first regular row and moves the others by at most one.
LEMMA PostRanks ==
  ASSUME TypeOK, Post
  PROVE  /\ posted + 1 \in Nat /\ \A a \in Nat : a <= posted => a < posted + 1
         /\ live' = live \cup {posted + 1} /\ Regular' = Regular \cup {posted + 1}
         /\ posted + 1 \notin live
         /\ \A a \in Nat : Rank(a)' \in Nat /\ Rank(a) <= Rank(a)' /\ Rank(a)' <= Rank(a) + 1
         /\ \A a : a = posted + 1 => Rank(a)' = 0
<1> DEFINE x == posted + 1
<1>1. x \in Nat /\ \A a \in Nat : a <= posted => a < x
  BY ArticleAssumption DEF TypeOK
<1>2. live' = live \cup {x} /\ pinned' = pinned BY DEF Post
<1>3. \A a \in live : a \in Nat /\ a < x BY <1>1, ArticleAssumption DEF TypeOK
<1>4. x \notin live BY <1>1, <1>3
<1>5. Regular' = Regular \cup {x} BY <1>2, <1>4 DEF Regular, TypeOK
<1>6. \A a : Rank(a)' = Cardinality(Newer(Regular \cup {x}, a))
  BY <1>5 DEF Rank, Newer
<1>7. Regular \in SUBSET Nat /\ IsFiniteSet(Regular) BY BoardFacts
<1> HIDE DEF x
<1>8. ASSUME NEW a \in Nat
      PROVE  Rank(a)' \in Nat /\ Rank(a) <= Rank(a)' /\ Rank(a)' <= Rank(a) + 1
  <2>1. Rank(a) \in Nat /\ Rank(a) = Cardinality(Newer(Regular, a)) BY BoardFacts
  <2>2. IsFiniteSet(Regular \cup {x}) BY <1>7, FS_AddElement
  <2>3. Rank(a)' \in Nat BY <1>6, <2>2, NewerIsFinite
  <2> QED BY <1>1, <1>6, <1>7, <2>1, <2>3, PostMovesDownByOne
<1>9. \A a \in Regular : a < x BY <1>3 DEF Regular
<1>10. Cardinality(Newer(Regular \cup {x}, x)) = 0 BY <1>1, <1>7, <1>9, NewestRanksFirst
<1>11. \A a : a = x => Rank(a)' = 0 BY <1>6, <1>10
<1> QED BY <1>1, <1>2, <1>4, <1>5, <1>8, <1>11 DEF x

\* A post moves rows down: what was not listed still lies deeper.
LEMMA PostStep ==
  ASSUME TypeOK, Shape, Walk, Post
  PROVE  Walk'
<1> DEFINE x == posted + 1
<1>1. /\ x \in Nat /\ live' = live \cup {x} /\ Regular' = Regular \cup {x} /\ x \notin live
      /\ \A a : a = x => Rank(a)' = 0
      /\ \A a \in Nat : a <= posted => a < x
  BY PostRanks
<1>2. \A a \in Nat : Rank(a)' \in Nat /\ Rank(a) <= Rank(a)' /\ Rank(a)' <= Rank(a) + 1
                     /\ Rank(a) \in Nat
  BY PostRanks, BoardFacts
<1>3. /\ UNCHANGED <<pinned, store, stage, mode, page, rows, seen, allKnown, belowFloor,
                     atStart, firstPage, runClean>>
      /\ intact' => intact
      /\ Running => shifted' = shifted + 1
      /\ intact' => shifted' < PageSize
  BY DEF Post, pageVars, Running
<1>4. /\ Got' = Got /\ Stored' = Stored /\ Listed' = Listed /\ FirstFetch' = FirstFetch
      /\ Running' = Running /\ \A a : IsStored(a)' = IsStored(a)
  BY <1>3 DEF Got, Stored, IsStored, Listed, FirstFetch, Running
<1> HIDE DEF x
<1>5. \A a \in Got \cup atStart : a \in Nat /\ a < x
  <2>1. \A a \in Got \cup atStart : a \in Nat /\ a <= posted
    BY StoreWrite, ArticleAssumption DEF Got, Shape, Article, TypeOK
  <2> QED BY <1>1, <2>1
<1>6. x \notin atStart /\ x \notin Got BY <1>1, <1>5
<1>7. Owed' = Owed BY <1>1, <1>3, <1>6 DEF Owed, Old
<1>8. x \notin pinned BY <1>1 DEF TypeOK
<1>9. shifted \in Nat /\ Listed \in Nat
  BY StartFacts, PageSizeAssumption DEF Listed, Start
<1>10. CleanBoard'
  BY <1>1, <1>3, <1>4, <1>5, <1>8 DEF Walk, CleanBoard
<1>11. Deeper'
  <2> SUFFICES ASSUME Running, runClean, NEW b \in Owed
               PROVE  b \in Got \/ (b \in Regular' /\ Rank(b)' >= Listed)
                        \/ (b \in pinned /\ FirstFetch)
    BY <1>3, <1>4, <1>7 DEF Deeper
  <2>1. b \in Got \/ (b \in Regular /\ Rank(b) >= Listed) \/ (b \in pinned /\ FirstFetch)
    BY DEF Walk, Deeper
  <2>2. b \in Nat BY OwedFacts
  <2> QED BY <1>1, <1>2, <1>9, <2>1, <2>2
<1>12. BelowFloorPage' BY <1>3, <1>4, <1>7 DEF Walk, BelowFloorPage
<1>13. KnownPage' BY <1>3, <1>4, <1>7 DEF Walk, KnownPage
<1>14. IntactIsClean' BY <1>3, <1>4 DEF Walk, IntactIsClean
<1>15. NoGaps'
  <2> SUFFICES ASSUME Closed PROVE Closed'
    BY <1>3, <1>4 DEF Walk, NoGaps
  <2>1. \A a \in Stored : a \in Nat /\ ~(x < a) BY <1>1, <1>5 DEF Got
  <2> QED BY <1>1, <1>4, <2>1 DEF Closed, Old
<1>16. Covered'
  <2> SUFFICES ASSUME intact, Running, ~FirstFetch
               PROVE  /\ \A a \in Stored, b \in live' :
                           ~Old(b) /\ b < a /\ ~IsStored(b)
                             => a \in pinned \/ Rank(a)' < Listed + shifted'
                      /\ \A row \in rows : row.no \in pinned \/ Rank(row.no)' < Listed + shifted'
    BY <1>3, <1>4 DEF Covered, Old
  <2>1. \A a \in Nat : Rank(a) < Listed + shifted => Rank(a)' < Listed + shifted'
    BY <1>2, <1>3, <1>9
  <2>2. \A a \in Stored : a \in Nat /\ ~(x < a) BY <1>1, <1>5 DEF Got
  <2>3. \A row \in rows : row.no \in Nat BY <1>5 DEF Got
  <2> QED BY <1>1, <2>1, <2>2, <2>3 DEF Walk, Covered
<1>17. NewPosts'
  <2> SUFFICES ASSUME intact, Running, NEW b \in live', b \notin atStart
               PROVE  /\ FirstFetch => Rank(b)' < shifted'
                      /\ ~FirstFetch /\ ~Old(b) /\ b \notin Got
                           => Rank(b)' < Listed + shifted' /\ \A g \in Got : g < b
    BY <1>3, <1>4 DEF NewPosts, Old
  <2>1. CASE b = x BY <1>1, <1>3, <1>5, <1>9, <2>1
  <2>2. CASE b \in live
    <3>1. b \in Nat BY <2>2, BoardFacts
    <3>2. Rank(b)' <= Rank(b) + 1 /\ Rank(b)' \in Nat /\ Rank(b) \in Nat BY <1>2, <3>1
    <3> QED BY <1>3, <1>9, <2>2, <3>2 DEF Walk, NewPosts
  <2> QED BY <1>1, <2>1, <2>2
<1>18. Done'
  BY <1>3, <1>4, <1>7 DEF Walk, Done, IntactRunIsComplete, FullSweepIsComplete
<1> QED
  BY <1>10, <1>11, <1>12, <1>13, <1>14, <1>15, <1>16, <1>17, <1>18 DEF Walk

\* A moved row disturbs the run it happens in; between runs it changes nothing
\* that is claimed of the last one.
LEMMA MoveStep ==
  ASSUME Walk, NEW m \in Article, Move(m)
  PROVE  Walk'
<1>1. /\ UNCHANGED <<store, shifted, stage, mode, page, rows, seen, allKnown, belowFloor,
                     atStart, firstPage>>
      /\ live' \subseteq live
      /\ runClean' = (runClean /\ stage = "idle") /\ intact' = (intact /\ stage = "idle")
  BY DEF Move, pageVars
<1>2. Running' = Running /\ FirstFetch' = FirstFetch /\ \A a : IsStored(a)' = IsStored(a)
  BY <1>1 DEF Running, FirstFetch, IsStored
<1>3. Owed' \subseteq Owed /\ Stored' = Stored BY <1>1, <1>2 DEF Owed, Old, Stored
<1>4. /\ CleanBoard' /\ Deeper' /\ BelowFloorPage' /\ KnownPage' /\ Covered' /\ NewPosts'
  BY <1>1 DEF CleanBoard, Deeper, BelowFloorPage, KnownPage, Covered, NewPosts, Running
<1>5. IntactIsClean' BY <1>1 DEF Walk, IntactIsClean, Running
<1>6. NoGaps' BY <1>1, <1>2, <1>3 DEF Walk, NoGaps, Closed, Old, FirstFetch
<1>7. Done'
  BY <1>1, <1>2, <1>3 DEF Walk, Done, IntactRunIsComplete, FullSweepIsComplete
<1> QED BY <1>4, <1>5, <1>6, <1>7 DEF Walk

\* Ranks depend on the board only.
LEMMA SameBoard ==
  ASSUME UNCHANGED <<live, pinned>>
  PROVE  Regular' = Regular /\ \A a : Rank(a)' = Rank(a)
BY DEF Regular, Rank

\* A run starts with its whole board still to list.
LEMMA StartRunStep ==
  ASSUME TypeOK, Shape, Walk, StartRun
  PROVE  Walk'
<1>1. /\ UNCHANGED <<live, pinned, store, rows, intact>>
      /\ stage = "idle" /\ stage' = "listing" /\ page' = 0
      /\ atStart' = live /\ runClean' = TRUE /\ shifted' = 0
  BY DEF StartRun, pageVars
<1>2. /\ Regular' = Regular /\ (\A a : Rank(a)' = Rank(a))
      /\ Stored' = Stored /\ FirstFetch' /\ Running' /\ \A a : IsStored(a)' = IsStored(a)
  BY <1>1, SameBoard DEF Stored, IsStored, FirstFetch, Running
<1>3. CleanBoard' BY <1>1 DEF CleanBoard
<1>4. Deeper'
  <2>1. Listed' = 0 * PageSize BY <1>1 DEF Listed
  <2>2. Listed' = 0 BY <2>1, StartFacts
  <2> SUFFICES ASSUME NEW b \in live
               PROVE  (b \in Regular /\ Rank(b) >= 0) \/ b \in pinned
    BY <1>1, <1>2, <2>2 DEF Deeper, Owed
  <2> QED BY BoardFacts DEF Regular
<1>5. BelowFloorPage' /\ KnownPage' /\ Done'
  BY <1>1 DEF BelowFloorPage, KnownPage, Done, IntactRunIsComplete, FullSweepIsComplete
<1>6. IntactIsClean' BY <1>1, StartFacts DEF IntactIsClean
<1>7. NoGaps' BY <1>1, <1>2 DEF Walk, NoGaps, Closed, Old
<1>8. Covered' BY <1>2 DEF Covered
<1>9. NewPosts' BY <1>1 DEF NewPosts
<1> QED BY <1>3, <1>4, <1>5, <1>6, <1>7, <1>8, <1>9 DEF Walk

\* Fetching a page lists one window of ranks more, and judges it rightly.
LEMMA ListPageStep ==
  ASSUME TypeOK, Shape, Walk, ListPage
  PROVE  Walk'
<1>1. /\ UNCHANGED <<live, pinned, store, page, mode, atStart, runClean, intact>>
      /\ stage = "listing" /\ stage' = "page" /\ shifted' = 0
      /\ rows' = Fetched /\ allKnown' = FetchedAllKnown
      /\ belowFloor' = PageBelowFloor(Fetched) /\ ~StopsBefore
  BY DEF ListPage
<1>2. /\ Regular' = Regular /\ (\A a : Rank(a)' = Rank(a))
      /\ Stored' = Stored /\ ~FirstFetch' /\ Running' /\ Running
      /\ (\A a : IsStored(a)' = IsStored(a)) /\ Owed' = Owed
  BY <1>1, SameBoard DEF Stored, IsStored, FirstFetch, Running, Owed, Old
<1>3. Listed = Start /\ Listed' = Start + PageSize
  BY <1>1, StartFacts DEF Listed, Start
<1>4. /\ Got = Stored
      /\ Stored \subseteq Got'
      /\ pinned \cup OnPage(page) \subseteq Got'
      /\ \A g \in Got' : g \in Stored \/ (g \in pinned /\ g \in live) \/ g \in OnPage(page)
  BY <1>1, <1>2, FetchedRows DEF Got, Shape
<1>5. Start \in Nat /\ PageSize \in Nat /\ PageSize >= 1 /\ shifted \in Nat
  BY StartFacts
<1>6. ASSUME runClean, NEW b \in Owed, b \notin Got'
      PROVE  b \in Regular /\ Rank(b) >= Start + PageSize
  <2>1. ~IsStored(b) BY <1>4, <1>6, OwedFacts DEF Stored
  <2> QED BY <1>1, <1>4, <1>6, <2>1, OwedAtFetch DEF Walk
<1>7. CleanBoard' BY <1>1, <1>2 DEF Walk, CleanBoard
<1>8. Deeper' BY <1>1, <1>2, <1>3, <1>6 DEF Deeper
<1>9. BelowFloorPage'
  <2> SUFFICES ASSUME runClean, PageBelowFloor(Fetched), NEW b \in Owed, b \notin Got'
               PROVE  FALSE
    BY <1>1, <1>2 DEF BelowFloorPage
  <2> QED BY <1>6, OwedFacts, BelowOldPage
<1>10. KnownPage'
  <2> SUFFICES ASSUME runClean, intact, FetchedAllKnown, NEW b \in Owed, b \notin Got'
               PROVE  FALSE
    BY <1>1, <1>2 DEF KnownPage
  <2>1. ~IsStored(b) BY <1>4, OwedFacts DEF Stored
  <2>2. b \in pinned BY <1>1, <2>1, KnownStop DEF Walk
  <2> QED BY <1>4, <2>2
<1>11. IntactIsClean' BY <1>1, <1>2, <1>5 DEF Walk, IntactIsClean
<1>12. NoGaps' BY <1>1, <1>2 DEF NoGaps
<1>13. Covered'
  <2> SUFFICES ASSUME intact
               PROVE  /\ \A a \in Stored, b \in live :
                           ~Old(b) /\ b < a /\ ~IsStored(b)
                             => a \in pinned \/ Rank(a) < Start + PageSize + 0
                      /\ \A row \in Fetched :
                           row.no \in pinned \/ Rank(row.no) < Start + PageSize + 0
    BY <1>1, <1>2, <1>3 DEF Covered, Old
  <2>1. \A row \in Fetched : row.no \in pinned \/ Rank(row.no) < Start + PageSize + 0
    BY <1>5, FetchedRows, PageFacts
  <2> SUFFICES ASSUME NEW a \in Stored, NEW b \in live, ~Old(b), b < a, ~IsStored(b)
               PROVE  a \in pinned \/ Rank(a) < Start + PageSize + 0
    BY <2>1
  <2>2. ~FirstFetch BY DEF Walk, NoGaps, Closed
  <2>3. a \in pinned \/ Rank(a) < Start + shifted
    BY <1>2, <1>3, <2>2 DEF Walk, Covered
  <2>4. shifted < PageSize BY DEF Walk, IntactIsClean
  <2>5. Rank(a) \in Nat BY ArticleAssumption, BoardFacts DEF Stored, Article
  <2> QED BY <1>5, <2>3, <2>4, <2>5
<1>14. NewPosts'
  <2> SUFFICES ASSUME intact, NEW b \in live, b \notin atStart, ~Old(b), b \notin Got'
               PROVE  Rank(b) < Start + PageSize + 0 /\ \A g \in Got' : g < b
    BY <1>1, <1>2, <1>3 DEF NewPosts, Old
  <2>1. runClean /\ shifted < PageSize BY <1>2 DEF Walk, IntactIsClean
  <2>2. b \notin pinned /\ \A a \in atStart : a < b
    BY <1>2, <2>1 DEF Walk, CleanBoard
  <2>3. b \in Regular /\ b \in Nat /\ Rank(b) \in Nat BY <2>2, BoardFacts DEF Regular
  <2>4. b \notin Stored /\ b \notin OnPage(page) BY <1>4
  <2>5. ~FirstFetch
    <3> SUFFICES ASSUME FirstFetch PROVE FALSE
      OBVIOUS
    <3>1. Rank(b) < shifted /\ Start = 0
      BY <1>2, StartFacts DEF Walk, NewPosts, FirstFetch
    <3> QED BY <1>5, <2>1, <2>3, <2>4, <3>1, PageFacts
  <2>6. Rank(b) < Start + shifted /\ \A g \in Stored : g < b
    BY <1>2, <1>3, <1>4, <2>4, <2>5 DEF Walk, NewPosts
  <2>7. Rank(b) < Start
    BY <1>5, <2>1, <2>3, <2>4, <2>6, PageFacts
  <2>8. ASSUME NEW g \in OnPage(page) PROVE g < b
    <3>1. g \in Regular /\ Start <= Rank(g) BY PageFacts
    <3>2. Rank(g) \in Nat BY <3>1, BoardFacts
    <3>3. Rank(b) < Rank(g) BY <1>5, <2>3, <2>7, <3>1, <3>2
    <3> QED BY <2>3, <3>1, <3>3, NotDeeperIsNewer
  <2>9. ASSUME NEW g \in pinned, g \in live PROVE g < b
    BY <1>2, <2>1, <2>2, <2>9 DEF Walk, CleanBoard
  <2> QED BY <1>4, <1>5, <2>3, <2>6, <2>7, <2>8, <2>9
<1>15. Done' BY <1>1 DEF Done, IntactRunIsComplete, FullSweepIsComplete
<1> QED
  BY <1>7, <1>8, <1>9, <1>10, <1>11, <1>12, <1>13, <1>14, <1>15 DEF Walk

\* Processing a row only moves its article from the page to the store.
LEMMA ItemWalkStep ==
  ASSUME TypeOK, Shape, Versions, Walk, Item
  PROVE  Walk'
<1>1. PICK row \in rows :
        /\ rows' = rows \ {row}
        /\ row.no \in Article
        /\ \A a \in Article : a # row.no => store'[a] = store[a]
        /\ Old(row.no) \/ store'[row.no] = row.title
        /\ store'[row.no] = row.title \/ store'[row.no] = store[row.no]
  BY ItemStep
<1>2. /\ UNCHANGED <<live, pinned, shifted, stage, mode, page, allKnown, belowFloor,
                     atStart, runClean, intact>>
      /\ stage = "page"
  BY DEF Item, boardVars, historyVars
<1>3. /\ Regular' = Regular /\ (\A a : Rank(a)' = Rank(a)) /\ Listed' = Listed
      /\ ~FirstFetch /\ ~FirstFetch' /\ Running /\ Running' /\ Owed' = Owed
  BY <1>2, SameBoard DEF FirstFetch, Running, Listed, Owed, Old
<1>4. row.title # Absent BY StoreWrite, AbsentIsNoTitle
<1>5. Stored \subseteq Stored' /\ Stored' \subseteq Stored \cup {row.no}
  BY <1>1, <1>4 DEF Stored, IsStored
<1>6. Got' \subseteq Got BY <1>1, <1>5 DEF Got
<1>7. ASSUME NEW b \in Got, ~Old(b) PROVE b \in Got'
  <2>1. CASE b = row.no
    BY <1>1, <1>4, <1>7, <2>1 DEF Got, Stored, IsStored
  <2>2. CASE b # row.no BY <1>1, <1>5, <1>7, <2>2 DEF Got
  <2> QED BY <2>1, <2>2
<1>8. ASSUME NEW b \in live, IsStored(b) PROVE IsStored(b)'
  BY <1>5, <1>8, BoardFacts DEF Stored, IsStored
<1>9. CleanBoard' BY <1>2, <1>3 DEF Walk, CleanBoard
<1>10. Deeper' BY <1>2, <1>3, <1>7, OwedFacts DEF Walk, Deeper
<1>11. BelowFloorPage' BY <1>2, <1>3, <1>7, OwedFacts DEF Walk, BelowFloorPage
<1>12. KnownPage' BY <1>2, <1>3, <1>7, OwedFacts DEF Walk, KnownPage
<1>13. IntactIsClean' BY <1>2, <1>3 DEF Walk, IntactIsClean
<1>14. NoGaps' BY <1>2, <1>3 DEF NoGaps
<1>15. Covered'
  <2> SUFFICES ASSUME intact
               PROVE  /\ \A a \in Stored', b \in live :
                           ~Old(b) /\ b < a /\ ~IsStored(b)'
                             => a \in pinned \/ Rank(a) < Listed + shifted
                      /\ \A other \in rows' :
                           other.no \in pinned \/ Rank(other.no) < Listed + shifted
    BY <1>2, <1>3 DEF Covered, Old
  <2>1. \A other \in rows : other.no \in pinned \/ Rank(other.no) < Listed + shifted
    BY <1>3 DEF Walk, Covered
  <2>2. \A a \in Stored, b \in live :
          ~Old(b) /\ b < a /\ ~IsStored(b) => a \in pinned \/ Rank(a) < Listed + shifted
    BY <1>3 DEF Walk, Covered
  <2> QED BY <1>1, <1>5, <1>8, <2>1, <2>2
<1>16. NewPosts' BY <1>2, <1>3, <1>6, <1>7 DEF Walk, NewPosts, Old
<1>17. Done' BY <1>2 DEF Done, IntactRunIsComplete, FullSweepIsComplete
<1> QED
  BY <1>9, <1>10, <1>11, <1>12, <1>13, <1>14, <1>15, <1>16, <1>17 DEF Walk

\* A page is done and the next one is due: what was listed stays listed.
LEMMA NextPageStep ==
  ASSUME TypeOK, Shape, Walk, stage = "page", rows = {},
         stage' = "listing", page' = page + 1, UNCHANGED pageVars,
         UNCHANGED <<boardVars, store, mode, historyVars>>
  PROVE  Walk'
<1>1. UNCHANGED <<live, pinned, shifted, rows, store, mode, atStart, runClean, intact>>
  BY DEF boardVars, pageVars, historyVars
<1>2. /\ Regular' = Regular /\ (\A a : Rank(a)' = Rank(a))
      /\ (\A a : IsStored(a)' = IsStored(a)) /\ Running /\ Running' /\ Owed' = Owed
      /\ Got' = Got /\ Stored' = Stored
  BY <1>1, SameBoard DEF Stored, IsStored, Running, Owed, Old, Got
<1>3. ~FirstFetch /\ ~FirstFetch' BY StartFacts DEF FirstFetch
<1>4. Listed' = Listed BY StartFacts DEF Listed
<1>5. CleanBoard' /\ IntactIsClean' BY <1>1, <1>2 DEF Walk, CleanBoard, IntactIsClean
<1>6. Deeper' BY <1>1, <1>2, <1>3, <1>4 DEF Walk, Deeper
<1>7. BelowFloorPage' /\ KnownPage' /\ NoGaps' /\ Done'
  BY <1>3
  DEF BelowFloorPage, KnownPage, NoGaps, Done, IntactRunIsComplete, FullSweepIsComplete
<1>8. Covered' BY <1>1, <1>2, <1>3, <1>4 DEF Walk, Covered, Old
<1>9. NewPosts' BY <1>1, <1>2, <1>3, <1>4 DEF Walk, NewPosts, Old
<1> QED BY <1>5, <1>6, <1>7, <1>8, <1>9 DEF Walk

\* What a run's end leaves of the invariant, once its stop is shown to be right.
LEMMA EndStep ==
  ASSUME TypeOK, Shape, Walk, Running, stage' = "idle",
         UNCHANGED <<boardVars, store, mode, atStart>>,
         intact' => intact,
         runClean' /\ (mode = "full" \/ intact') => Owed \subseteq Stored,
         intact' => Closed
  PROVE  Walk'
<1>1. UNCHANGED <<live, pinned, shifted>> BY DEF boardVars
<1>2. Stored' = Stored /\ Owed' = Owed /\ (\A a : IsStored(a)' = IsStored(a)) /\ ~Running'
  BY <1>1 DEF Stored, IsStored, Owed, Old, Running
<1>3. CleanBoard' /\ Deeper' /\ BelowFloorPage' /\ KnownPage' /\ Covered' /\ NewPosts'
  BY <1>2 DEF CleanBoard, Deeper, BelowFloorPage, KnownPage, Covered, NewPosts
<1>4. IntactIsClean' BY <1>1, <1>2 DEF Walk, IntactIsClean
<1>5. NoGaps' BY <1>1, <1>2 DEF NoGaps, Closed, Old
<1>6. Done'
  BY <1>2 DEF Done, IntactRunIsComplete, FullSweepIsComplete, Stored
<1> QED BY <1>3, <1>4, <1>5, <1>6 DEF Walk

\* With no gap before the run, what it stored leaves none: an article missing
\* below a stored one would be owed, or a post newer than everything stored.
LEMMA CompleteRunLeavesNoGap ==
  ASSUME TypeOK, Shape, Walk, Running, intact, rows = {}, Owed \subseteq Stored
  PROVE  Closed
<1>1. CASE FirstFetch BY <1>1 DEF Walk, NoGaps
<1>2. CASE ~FirstFetch
  <2> SUFFICES ASSUME NEW a \in Stored, NEW b \in live, ~Old(b), b < a, ~IsStored(b)
               PROVE  FALSE
    BY DEF Closed
  <2>1. b \notin Stored /\ b \notin Owed BY DEF Stored
  <2>2. b \notin atStart BY <2>1 DEF Owed
  <2>3. Got = Stored BY DEF Got
  <2>4. a < b BY <1>2, <2>1, <2>2, <2>3 DEF Walk, NewPosts
  <2>5. a \in Nat /\ b \in Nat
    BY ArticleAssumption, BoardFacts DEF Stored, Article
  <2> QED BY <2>4, <2>5
<1> QED BY <1>1, <1>2

\* Every step of a run, with its stops, keeps the invariant.
LEMMA CrawlStep ==
  ASSUME TypeOK, Shape, Versions, Walk, Crawl
  PROVE  Walk'
<1>1. CASE StartRun BY <1>1, StartRunStep
<1>2. CASE ListPage BY <1>2, ListPageStep
<1>3. CASE Item BY <1>3, ItemWalkStep
<1>4. CASE ListEnds
  <2>1. /\ UNCHANGED <<boardVars, store, mode, historyVars>>
        /\ stage = "listing" /\ stage' = "idle" /\ rows = {} /\ Running /\ StopsBefore
    BY <1>4 DEF ListEnds, Finish, Shape, Running
  <2>2. ASSUME runClean, mode = "full" \/ intact, NEW b \in Owed PROVE b \in Stored
    <3> SUFFICES ASSUME ~IsStored(b) PROVE FALSE
      BY OwedFacts DEF Stored
    <3>1. CASE Fetched = {} BY <2>1, <2>2, <3>1, EmptyPageStop DEF Walk
    <3>2. CASE page # 0 /\ PageBelowFloor(Fetched)
      <4>1. b \in Regular /\ (b \in OnPage(page) \/ Rank(b) >= Start + PageSize)
        BY <2>1, <2>2, <3>2, OwedAtFetch DEF Walk
      <4> QED BY <3>2, <4>1, OwedFacts, BelowOldPage
    <3>3. CASE page # 0 /\ FetchedAllKnown
      <4>1. intact BY <2>2, <3>3 DEF FetchedAllKnown
      <4> QED BY <2>1, <2>2, <3>3, <4>1, KnownStop DEF Walk
    <3> QED BY <2>1, <3>1, <3>2, <3>3 DEF StopsBefore
  <2>3. runClean' = runClean /\ intact' = intact /\ atStart' = atStart
    BY <2>1 DEF historyVars
  <2>4. intact => runClean BY <2>1 DEF Walk, IntactIsClean
  <2>5. intact => Closed BY <2>1, <2>2, <2>4, CompleteRunLeavesNoGap
  <2> QED BY <2>1, <2>2, <2>3, <2>5, EndStep
<1>5. CASE PageLimit
  <2>1. /\ UNCHANGED <<boardVars, store, mode, atStart>>
        /\ stage = "listing" /\ stage' = "idle" /\ rows = {} /\ Running
        /\ page = MaxPages
        /\ runClean' = (runClean /\ page * PageSize >= Cardinality(Regular))
        /\ intact' = (intact /\ page * PageSize >= Cardinality(Regular))
    BY <1>5 DEF PageLimit, Finish, Shape, Running
  <2>2. runClean' => Owed \subseteq Stored
    BY <2>1, OwedFacts, PageLimitStop DEF Walk, Stored
  <2>3. intact' => intact /\ runClean' BY <2>1 DEF Walk, IntactIsClean
  <2>4. intact' => Closed BY <2>1, <2>2, <2>3, CompleteRunLeavesNoGap
  <2> QED BY <2>1, <2>2, <2>3, <2>4, EndStep
<1>6. CASE BatchCompleted
  <2>1. UNCHANGED <<boardVars, store, mode, historyVars>> /\ stage = "page" /\ rows = {}
    BY <1>6 DEF BatchCompleted
  <2>2. CASE ~((page = 0 /\ allKnown) \/ belowFloor)
    BY <1>6, <2>1, <2>2, NextPageStep DEF BatchCompleted
  <2>3. CASE (page = 0 /\ allKnown) \/ belowFloor
    <3>1. stage' = "idle" /\ Running
      BY <1>6, <2>1, <2>3 DEF BatchCompleted, Finish, Running
    <3>2. Got = Stored BY <2>1 DEF Got
    <3>3. runClean /\ (mode = "full" \/ intact) => Owed \subseteq Stored
      BY <2>1, <2>3, <3>2 DEF Walk, BelowFloorPage, KnownPage, Shape
    <3>4. runClean' = runClean /\ intact' = intact /\ atStart' = atStart
      BY <2>1 DEF historyVars
    <3>5. intact => runClean BY <3>1 DEF Walk, IntactIsClean
    <3>6. intact => Closed BY <2>1, <3>1, <3>3, <3>5, CompleteRunLeavesNoGap
    <3> QED BY <2>1, <3>1, <3>3, <3>4, <3>6, EndStep
  <2> QED BY <2>2, <2>3
<1> QED BY <1>1, <1>2, <1>3, <1>4, <1>5, <1>6 DEF Crawl

\* A failed first fetch has stored nothing; any other fault cuts the run short.
LEMMA FaultStep ==
  ASSUME TypeOK, Shape, Walk, ListFails \/ ItemFails \/ Crash
  PROVE  Walk'
<1>1. CASE ListFails
  <2>1. /\ UNCHANGED <<boardVars, store, mode, atStart>>
        /\ stage = "listing" /\ stage' = "idle" /\ Running
        /\ ~runClean' /\ intact' = (intact /\ page = 0)
    BY <1>1 DEF ListFails, Finish, Running
  <2>2. intact' => Closed BY <2>1 DEF Walk, NoGaps, FirstFetch
  <2> QED BY <2>1, <2>2, EndStep
<1>2. CASE ItemFails
  <2>1. UNCHANGED boardVars /\ ~runClean' /\ ~intact' /\ stage' = "page"
    BY <1>2 DEF ItemFails
  <2> QED
    BY <2>1
    DEF Walk, CleanBoard, Deeper, BelowFloorPage, KnownPage, IntactIsClean, NoGaps,
        Covered, NewPosts, Done, IntactRunIsComplete, FullSweepIsComplete
<1>3. CASE Crash
  <2>1. /\ UNCHANGED <<boardVars, store, mode, atStart>>
        /\ stage' = "idle" /\ Running /\ ~runClean' /\ ~intact'
    BY <1>3 DEF Crash, Finish, Running
  <2> QED BY <2>1, EndStep
<1> QED BY <1>1, <1>2, <1>3

\* Every step keeps the invariant of the walk.
LEMMA WalkStep ==
  ASSUME TypeOK, Shape, Versions, Walk, [Next]_vars
  PROVE  Walk'
<1>1. CASE UNCHANGED vars BY <1>1, QuietStep DEF vars, boardVars
<1>2. CASE Post BY <1>2, PostStep
<1>3. ASSUME NEW a \in Article, Edit(a) PROVE Walk'
  BY <1>3, QuietStep DEF Edit
<1>4. ASSUME NEW a \in Article, Move(a) PROVE Walk'
  BY <1>4, MoveStep
<1> QED
  BY <1>1, <1>2, <1>3, <1>4, CrawlStep, FaultStep DEF Next, Board

\* The two claims about where a run may stop, from the invariant of its walk.
LEMMA WalkIsInvariant == Spec => []Walk
<1>1. TypeOK /\ Shape /\ Versions /\ Walk /\ [Next]_vars
        => (TypeOK /\ Shape /\ Versions /\ Walk)'
  BY NextType, VersionsStep, WalkStep
<1> QED BY <1>1, InitType, InitVersions, InitWalk, PTL DEF Spec

\* As long as no run was ever cut short, a run that ends, on whatever page, leaves
\* no notice of the board it started with unstored.
THEOREM StoppingEarlyLosesNothing == Spec => []IntactRunIsComplete
<1>1. Walk => IntactRunIsComplete BY DEF Walk, Done
<1> QED BY <1>1, WalkIsInvariant, PTL

\* An undisturbed full sweep stores every notice of the board it started with,
\* whatever gaps earlier runs left.
THEOREM FullSweepHeals == Spec => []FullSweepIsComplete
<1>1. Walk => FullSweepIsComplete BY DEF Walk, Done
<1> QED BY <1>1, WalkIsInvariant, PTL

==============================================================================
