------------------------------ MODULE BoardCrawl ------------------------------
(***************************************************************************)
(* One notice board crawled tick after tick: iter_source walks the list    *)
(* pages newest first, compares each page with what is stored and decides  *)
(* where to stop, while the board itself changes under it: posts push rows *)
(* onto later pages, withdrawn or newly pinned posts pull rows onto earlier*)
(* ones, titles are edited.                                                *)
(*                                                                         *)
(* Articles are numbered in posting order and dated by it; pinned rows are *)
(* repeated on top of every list page.                                     *)
(***************************************************************************)
EXTENDS Integers, FiniteSets

CONSTANTS
  Newest,       \* articles are 1 .. Newest
  Floor,        \* the first article dated at or after since_date
  PageSize,     \* regular rows of a list page
  MaxPages,     \* page limit of a run (100 incremental, 2500 full sweep)
  Modes,        \* modes a run may have: "incremental", "full"
  FaultKind,    \* which of "list", "item", "crash" happen
  MaxFaults,    \* bound on faults in a behaviour
  MaxShift,     \* most posts between two list fetches of a run
  MaxEdits,     \* bound on title edits
  MaxMoves      \* bound on withdrawals, pins and unpins

ASSUME PageSizeAssumption == PageSize \in Nat \ {0}
ASSUME ArticleAssumption == Newest \in Nat /\ Floor \in Nat
ASSUME PageLimitAssumption == MaxPages \in Nat \ {0}   \* 0 means the default
ASSUME BoundsAssumption ==
  {MaxPages, MaxFaults, MaxShift, MaxEdits, MaxMoves} \subseteq Nat
ASSUME ModesAssumption == Modes \subseteq {"incremental", "full"}

VARIABLES
  live,         \* articles on the board now
  pinned,       \* those of them shown as pinned rows
  title,        \* title version of each article
  posted,       \* highest article number posted so far
  store,        \* title version stored for an article, or Absent
  stage,        \* "idle", "listing" or "page"
  mode,         \* mode of the present or last run
  page,         \* the page iter_source is at
  rows,         \* list rows of the page not yet processed, with their titles
  seen,         \* what lookup returned for the page: stored versions
  allKnown,     \* every regular row of the page is stored
  belowFloor,   \* every regular row of the page is older than the floor
  atStart,      \* history: the board when the run began
  firstPage,    \* history: the rows of page 0
  runClean,     \* history: nothing has disturbed the present or last run
  intact,       \* history: no incremental run has been cut short
  shifted,      \* history: posts since the last list fetch
  faults, edits, moves

boardVars == <<live, pinned, title, posted, shifted, edits, moves>>
pageVars == <<rows, seen, allKnown, belowFloor>>
historyVars == <<atStart, firstPage, runClean, intact>>
vars == <<boardVars, store, stage, mode, page, pageVars, historyVars, faults>>

Article == 1 .. Newest
Absent == -1
Title == 0 .. MaxEdits
Row == [no : Article, title : Title, pinned : BOOLEAN]

Old(a) == a < Floor
IsStored(a) == store[a] # Absent

TypeOK ==
  /\ pinned \subseteq live /\ live \subseteq 1 .. posted
  /\ posted \in 0 .. Newest
  /\ title \in [Article -> Title]
  /\ store \in [Article -> Title \cup {Absent}]
  /\ stage \in {"idle", "listing", "page"}
  /\ mode \in Modes
  /\ page \in 0 .. MaxPages
  /\ rows \subseteq Row
  /\ seen \in [Article -> Title \cup {Absent}]
  /\ {allKnown, belowFloor, runClean, intact} \subseteq BOOLEAN
  /\ atStart \subseteq Article
  /\ firstPage \subseteq Row
  /\ shifted \in Nat
  /\ faults \in 0 .. MaxFaults /\ edits \in 0 .. MaxEdits /\ moves \in 0 .. MaxMoves

Nothing == [a \in Article |-> Absent]

Init ==
  /\ posted \in 0 .. Newest
  /\ live = 1 .. posted
  /\ pinned \in {p \in SUBSET live : Cardinality(p) <= 1}
  /\ title = [a \in Article |-> 0]
  /\ store = Nothing
  /\ stage = "idle"
  /\ mode \in Modes
  /\ page = 0
  /\ rows = {}
  /\ seen = Nothing
  /\ allKnown = FALSE
  /\ belowFloor = FALSE
  /\ atStart = {}
  /\ firstPage = {}
  /\ runClean = TRUE
  /\ intact = TRUE
  /\ shifted = 0
  /\ faults = 0
  /\ edits = 0
  /\ moves = 0

-----------------------------------------------------------------------------
(* The board.                                                              *)

Regular == live \ pinned

\* Place of an article among the regular rows, the newest first.
Rank(a) == Cardinality({b \in Regular : b > a})

\* Regular articles list page p shows.
OnPage(p) ==
  {a \in Regular : p * PageSize <= Rank(a) /\ Rank(a) < p * PageSize + PageSize}

\* What crawl_list returns for page p now: its rows, in the order of Precedes.
Listing(p) ==
  {[no |-> a, title |-> title[a], pinned |-> a \in pinned] : a \in pinned \cup OnPage(p)}

Precedes(row, other) ==
  \/ row.pinned /\ ~other.pinned
  \/ row.pinned = other.pinned /\ row.no > other.no

\* A new post is a regular row and moves every other one down.  As many posts
\* as a page has rows, between two list fetches, show the run the page it has
\* just stored, and it stops there: the run is cut short.
Post ==
  /\ posted < Newest
  /\ stage = "idle" \/ shifted < MaxShift
  /\ posted' = posted + 1
  /\ live' = live \cup {posted'}
  /\ shifted' = IF stage = "idle" THEN 0 ELSE shifted + 1
  /\ intact' = (intact /\ shifted' < PageSize)
  /\ UNCHANGED <<pinned, title, edits, moves, store, stage, mode, page, pageVars,
                 atStart, firstPage, runClean, faults>>

Edit(a) ==
  /\ a \in live
  /\ edits < MaxEdits
  /\ title' = [title EXCEPT ![a] = @ + 1]
  /\ edits' = edits + 1
  /\ UNCHANGED <<live, pinned, posted, shifted, moves, store, stage, mode, page,
                 pageVars, historyVars, faults>>

\* A row leaves the regular list, or comes back to it.  During a run the rows
\* below a leaving one move up, past the page boundary the run is at.
Move(a) ==
  /\ a \in live
  /\ moves < MaxMoves
  /\ moves' = moves + 1
  /\ \/ live' = live \ {a} /\ pinned' = pinned \ {a}
     \/ live' = live /\ pinned' = pinned \cup {a}
     \/ live' = live /\ pinned' = pinned \ {a}
  /\ runClean' = (runClean /\ stage = "idle")
  /\ intact' = (intact /\ stage = "idle")
  /\ UNCHANGED <<title, posted, shifted, edits, store, stage, mode, page,
                 pageVars, atStart, firstPage, faults>>

-----------------------------------------------------------------------------
(* policy.py                                                               *)

RegularOf(list) == {row \in list : ~row.pinned}

\* page_below_floor: a page with regular rows, all older than the floor.
PageBelowFloor(list) ==
  RegularOf(list) # {} /\ \A row \in RegularOf(list) : Old(row.no)

\* Mutation: one known row is enough.
ShouldContinueUnlessAnyKnown(list, known) ==
  \A row \in RegularOf(list) : known[row.no] = Absent

\* should_continue: the page still holds a regular row that is not stored.
ShouldContinue(list, known) ==
  \E row \in RegularOf(list) : known[row.no] = Absent

\* Mutation: a known row is never compared.
HasChangedNever(row, previous) == FALSE

\* has_changed: the title (or date) of a stored row is another one.
HasChanged(row, previous) == row.title # previous

-----------------------------------------------------------------------------
(* iter_source                                                             *)

MayFault(kind) ==
  /\ kind \in FaultKind
  /\ faults < MaxFaults
  /\ faults' = faults + 1

StartRun ==
  /\ stage = "idle"
  /\ stage' = "listing"
  /\ mode' \in Modes
  /\ page' = 0
  /\ atStart' = live
  /\ firstPage' = {}
  /\ runClean' = TRUE
  /\ shifted' = 0
  /\ UNCHANGED <<live, pinned, title, posted, edits, moves, store, pageVars,
                 intact, faults>>

\* The generator returns, and its locals are gone.
Finish ==
  /\ stage' = "idle"
  /\ page' = 0
  /\ rows' = {}
  /\ seen' = Nothing
  /\ allKnown' = FALSE
  /\ belowFloor' = FALSE

Fetched == Listing(page)

\* Incremental looks the page up; a full sweep treats every row as unknown.
Lookup ==
  [a \in Article |-> IF mode = "incremental" /\ a \in {row.no : row \in Fetched}
                     THEN store[a] ELSE Absent]

\* Mutation: a full sweep stops at known rows too.
FetchedAllKnownInAnyMode == \A row \in RegularOf(Fetched) : IsStored(row.no)

\* all_known of the page, which a full sweep pins to False.
FetchedAllKnown == mode = "incremental" /\ ~ShouldContinue(Fetched, Lookup)

\* The stops decided before the page is processed, on deeper pages only.
StopsBefore ==
  \/ Fetched = {}
  \/ page # 0 /\ (PageBelowFloor(Fetched) \/ FetchedAllKnown)

ListEnds ==
  /\ stage = "listing"
  /\ page < MaxPages
  /\ StopsBefore
  /\ Finish
  /\ UNCHANGED <<boardVars, store, mode, historyVars, faults>>

\* Mutation: the page limit is checked one page late.
ListPageBeyondLimit ==
  /\ stage = "listing"
  /\ page <= MaxPages
  /\ ~StopsBefore
  /\ stage' = "page"
  /\ rows' = Fetched
  /\ seen' = Lookup
  /\ allKnown' = FetchedAllKnown
  /\ belowFloor' = PageBelowFloor(Fetched)
  /\ firstPage' = IF page = 0 THEN Fetched ELSE firstPage
  /\ shifted' = 0
  /\ UNCHANGED <<live, pinned, title, posted, edits, moves, store, mode, page,
                 atStart, runClean, intact, faults>>

\* The page is fetched, looked up and judged before its rows are processed.
ListPage ==
  /\ stage = "listing"
  /\ page < MaxPages
  /\ ~StopsBefore
  /\ stage' = "page"
  /\ rows' = Fetched
  /\ seen' = Lookup
  /\ allKnown' = FetchedAllKnown
  /\ belowFloor' = PageBelowFloor(Fetched)
  /\ firstPage' = IF page = 0 THEN Fetched ELSE firstPage
  /\ shifted' = 0
  /\ UNCHANGED <<live, pinned, title, posted, edits, moves, store, mode, page,
                 atStart, runClean, intact, faults>>

\* The page limit ends the run; rows may be left on the pages it did not reach.
PageLimit ==
  /\ stage = "listing"
  /\ page = MaxPages
  /\ Finish
  /\ LET reachedAll == page * PageSize >= Cardinality(Regular)
     IN runClean' = (runClean /\ reachedAll) /\ intact' = (intact /\ reachedAll)
  /\ UNCHANGED <<boardVars, store, mode, atStart, firstPage, faults>>

\* crawl_list raises.  On page 0 nothing of the run has been stored yet.
ListFails ==
  /\ stage = "listing"
  /\ page < MaxPages
  /\ MayFault("list")
  /\ Finish
  /\ runClean' = FALSE
  /\ intact' = (intact /\ page = 0)
  /\ UNCHANGED <<boardVars, store, mode, atStart, firstPage>>

\* The row that comes next.
Foremost == {row \in rows : \A other \in rows \ {row} : Precedes(row, other)}

Wanted(row) ==
  ~Old(row.no) /\ (seen[row.no] = Absent \/ HasChanged(row, seen[row.no]))

\* One row: below the floor it is skipped, stored and unchanged it is at most
\* touched, otherwise its detail is fetched and the notice is stored.
Item ==
  /\ stage = "page"
  /\ \E row \in Foremost :
       /\ store' = IF Wanted(row) THEN [store EXCEPT ![row.no] = row.title] ELSE store
       /\ rows' = rows \ {row}
  /\ UNCHANGED <<boardVars, stage, mode, page, seen, allKnown, belowFloor,
                 historyVars, faults>>

\* Deriving the notice raises: ItemFailed, and the page goes on.
ItemFails ==
  /\ stage = "page"
  /\ MayFault("item")
  /\ \E row \in Foremost : rows' = rows \ {row}
  /\ runClean' = FALSE
  /\ intact' = FALSE
  /\ UNCHANGED <<boardVars, store, stage, mode, page, seen, allKnown,
                 belowFloor, atStart, firstPage>>

\* After the page: a known first page, or a page below the floor, was the last.
BatchCompleted ==
  /\ stage = "page" /\ rows = {}
  /\ IF (page = 0 /\ allKnown) \/ belowFloor
     THEN Finish
     ELSE stage' = "listing" /\ page' = page + 1 /\ UNCHANGED pageVars
  /\ UNCHANGED <<boardVars, store, mode, historyVars, faults>>

\* The process dies, or the run is aborted by a failing write or flush.
Crash ==
  /\ stage # "idle"
  /\ MayFault("crash")
  /\ Finish
  /\ runClean' = FALSE
  /\ intact' = FALSE
  /\ UNCHANGED <<boardVars, store, mode, atStart, firstPage>>

Crawl == StartRun \/ ListEnds \/ ListPage \/ PageLimit \/ Item \/ BatchCompleted

Board == Post \/ \E a \in Article : Edit(a) \/ Move(a)

Next == Crawl \/ ListFails \/ ItemFails \/ Crash \/ Board

\* The scheduler keeps starting runs, and a run's awaits end.
Spec == Init /\ [][Next]_vars /\ WF_vars(Crawl)

-----------------------------------------------------------------------------

Owed == {a \in atStart \cap live : ~Old(a)}

\* Stopping at the first page that holds nothing new loses nothing: as long as
\* no run was ever cut short, a run that ends leaves no notice of the board it
\* started with unstored, on whatever page it was.
IntactRunIsComplete ==
  stage = "idle" /\ intact /\ runClean => \A a \in Owed : IsStored(a)

\* A full sweep that is not disturbed heals every gap earlier runs have left.
FullSweepIsComplete ==
  stage = "idle" /\ mode = "full" /\ runClean => \A a \in Owed : IsStored(a)

\* Whatever earlier runs did, an undisturbed run stores every row of the first
\* page at the title it showed: pinned rows though all regular ones are below
\* the floor, and edited rows though every row is known.
FirstPageIsFresh ==
  stage = "idle" /\ runClean =>
    \A row \in firstPage : Old(row.no) \/ store[row.no] >= row.title

=============================================================================
