-------------------------------- MODULE Site --------------------------------
(***************************************************************************)
(* The way to the sites.  Every source of a run walks its own board with   *)
(* one of nine strategies; all of them share one Fetcher, which spaces     *)
(* requests, retries what may pass and raises the rest.  A strategy turns  *)
(* a page number into a request, the answer into list rows, and a failure  *)
(* into an exception or into an empty page.                                *)
(*                                                                         *)
(* A board is a sequence of row kinds; a row is its place in the sequence. *)
(* Sites and their answers are external.  Time passes in units of half a   *)
(* second.  The page loop is BoardCrawl's: here it reads a page, fetches   *)
(* one detail of it or none, and goes on until a page is empty.            *)
(***************************************************************************)
EXTENDS Naturals, Sequences, FiniteSets

CONSTANTS
  Task,         \* the tasks of a run, one for each source
  Plans,        \* what the tasks of a run crawl: strategy, board, page size, token
  Delay,        \* delay_ms, in half seconds
  Backoff,      \* the first backoff
  MaxRetries,   \* attempts of a fetch (3)
  MaxPages      \* bound: pages of a walk

ASSUME TimesAssumption == Delay \in Nat \ {0} /\ Backoff \in Nat \ {0}
ASSUME LimitsAssumption == MaxRetries \in Nat \ {0} /\ MaxPages \in Nat \ {0}
\* Arithmetic that the provers do not know: the powers of two grow from one.
ASSUME DoublingAssumption ==
  \A k \in 0 .. MaxRetries - 1 : 2 ^ k \in Nat \ {0} /\ 2 ^ k <= 2 ^ (MaxRetries - 1)

VARIABLES
  plan,         \* what each task of this run crawls, fixed
  since,        \* time since the Fetcher's last request, up to Delay
  own,          \* history: time since the task's own last request
  work,         \* where each task is
  read          \* what each task has read of its board

vars == <<plan, since, own, work, read>>

Strategies ==
  {"skku-standard", "gnuboard", "gnuboard-custom", "custom-php", "skkumed-asp",
   "jsp-dorm", "wordpress-api", "pyxis-api", "webflow-skku"}

\* The kinds of a row: pinned to the top of every page, or without a link to
\* an article, a title, or the usual number of cells.
RowKinds == {"plain", "pinned", "unlinked", "untitled", "short"}

\* What may come of asking for a list: an exception of the fetch, an answer that
\* holds no list, and a first page that does not show the page token.
Failures == {"timeout", "5xx", "4xx", "400", "refused", "no_list", "no_token"}

Least(a, b) == IF a < b THEN a ELSE b
MaxWait == Delay + Backoff * 2 ^ (MaxRetries - 1)

Running == DOMAIN plan
Rows(t) == DOMAIN plan[t].board
Work(t) ==
  [stage : {"list", "page", "detail", "ended"}, page : 0 .. MaxPages, row : Rows(t) \cup {0},
   request : {"none", "waiting", "open"}, attempt : 0 .. MaxRetries, wait : 0 .. MaxWait,
   how : {"", "empty_page", "list_fetch_failed", "max_pages"}]
Read(t) ==
  [rows : SUBSET Rows(t), twice : SUBSET Rows(t), current : SUBSET Rows(t),
   cache : SUBSET Rows(t), token : BOOLEAN, failed : SUBSET Failures]

TypeOK ==
  /\ plan \in Plans
  /\ since \in 0 .. Delay
  /\ \A t \in Running : own[t] \in 0 .. Delay /\ work[t] \in Work(t) /\ read[t] \in Read(t)

Fresh(page) ==
  [stage |-> "list", page |-> page, row |-> 0, request |-> "none", attempt |-> 0,
   wait |-> 0, how |-> ""]

Init ==
  /\ plan \in Plans
  /\ since = Delay
  /\ own = [t \in Running |-> Delay]
  /\ work = [t \in Running |-> Fresh(0)]
  /\ read = [t \in Running |-> [rows |-> {}, twice |-> {}, current |-> {}, cache |-> {},
                                token |-> plan[t].token, failed |-> {}]]

-----------------------------------------------------------------------------
(* What a site shows.  A walk's plan is what it crawls.                    *)

Pinned(p) == {r \in DOMAIN p.board : p.board[r] = "pinned"}
Unpinned(p) == DOMAIN p.board \ Pinned(p)

\* How many rows come before one; the pinned ones do not count.
Rank(p, r) == Cardinality({q \in Unpinned(p) : q < r})

\* The rows from an offset on, a page of them; the pinned ones come on top of
\* every page, those past the end of the board too.
Shown(p, offset) ==
  Pinned(p) \cup {r \in Unpinned(p) : offset <= Rank(p, r) /\ Rank(p, r) < offset + p.limit}

\* A site that numbers its pages counts them from one.
ShownOnPage(p, number) == Shown(p, (number - 1) * p.limit)

TotalCount(p) == Cardinality(DOMAIN p.board)

-----------------------------------------------------------------------------
(* What each strategy's crawl_list makes of the answer for a page.         *)

Linked(p, rows) == {r \in rows : p.board[r] # "unlinked"}
Titled(p, rows) == {r \in rows : p.board[r] # "untitled"}
Whole(p, rows) == {r \in rows : p.board[r] # "short"}

\* Only the article number matters, and the offset is in rows.
SkkuStandardList(p, page) == Linked(p, Shown(p, page * p.limit))

GnuboardList(p, page) ==
  Linked(p, Titled(p, IF p.skin = "table" THEN Whole(p, ShownOnPage(p, page + 1))
                                             ELSE ShownOnPage(p, page + 1)))

\* Mutation: pinned rows are skipped on the first page too.
GnuboardCustomNoPins(p, page) ==
  Linked(p, Titled(p, Whole(p, ShownOnPage(p, page + 1) \ Pinned(p))))

\* The repeated pinned rows of deeper pages are left out, so that the page
\* behind the last one is empty.
GnuboardCustomList(p, page) ==
  LET shown == ShownOnPage(p, page + 1)
  IN  Linked(p, Titled(p, Whole(p, IF page > 0 THEN shown \ Pinned(p) ELSE shown)))

CustomPhpList(p, page) == Linked(p, Titled(p, Whole(p, ShownOnPage(p, page + 1))))

SkkumedAspList(p, page) == Linked(p, ShownOnPage(p, page + 1))

JspDormList(p, page) ==
  LET shown == Shown(p, page * p.limit)
  IN  Linked(p, Whole(p, IF page > 0 THEN shown \ Pinned(p) ELSE shown))

\* A post is what the API says it is.
WordPressList(p, page) == ShownOnPage(p, page + 1)

PyxisList(p, page) ==
  IF page * p.limit >= TotalCount(p) THEN {} ELSE Shown(p, page * p.limit)

WebflowList(p, page) == Linked(p, Titled(p, Whole(p, ShownOnPage(p, page + 1))))

ListOf(p, page) ==
  LET s == p.strategy
  IN  CASE s = "skku-standard" -> SkkuStandardList(p, page)
        [] s = "gnuboard" -> GnuboardList(p, page)
        [] s = "gnuboard-custom" -> GnuboardCustomList(p, page)
        [] s = "custom-php" -> CustomPhpList(p, page)
        [] s = "skkumed-asp" -> SkkumedAspList(p, page)
        [] s = "jsp-dorm" -> JspDormList(p, page)
        [] s = "wordpress-api" -> WordPressList(p, page)
        [] s = "pyxis-api" -> PyxisList(p, page)
        [] s = "webflow-skku" -> WebflowList(p, page)

\* The rows a strategy is able to read at all.
Addressable(p) ==
  LET s == p.strategy
      needs == CASE s \in {"skku-standard", "skkumed-asp"} -> {"unlinked"}
                 [] s = "jsp-dorm" -> {"unlinked", "short"}
                 [] s \in {"wordpress-api", "pyxis-api"} -> {}
                 [] s = "gnuboard" /\ p.skin # "table" -> {"unlinked", "untitled"}
                 [] OTHER -> {"unlinked", "untitled", "short"}
  IN  {r \in DOMAIN p.board : p.board[r] \notin needs}

\* No page before the last readable row is without one: the walk would take it
\* for the end of the board.
PagesHoldArticles(p) ==
  \A page \in 0 .. MaxPages : \A r \in Addressable(p) \ Pinned(p) :
    page * p.limit <= Rank(p, r) =>
      (Shown(p, page * p.limit) \cap Addressable(p)) \ Pinned(p) # {}

ASSUME PlansAssumption ==
  \A plans \in Plans : \A t \in DOMAIN plans :
    plans[t] \in [strategy : Strategies, board : Seq(RowKinds), limit : Nat \ {0},
                  skin : STRING, token : BOOLEAN]

-----------------------------------------------------------------------------
(* One fetch.                                                              *)

Sent(t, w) ==
  /\ work' = [work EXCEPT ![t] = [w EXCEPT !.request = "open", !.attempt = @ + 1, !.wait = 0]]
  /\ since' = 0
  /\ own' = [own EXCEPT ![t] = 0]

\* _rate_limit reads the time of the last request once, and sleeps without
\* looking again: whatever others send meanwhile does not delay this task.  A
\* redirect is followed within its request.
Fetch(t, w) ==
  IF since >= Delay
  THEN Sent(t, w)
  ELSE /\ work' = [work EXCEPT ![t] = [w EXCEPT !.request = "waiting", !.wait = Delay - since]]
       /\ UNCHANGED <<since, own>>

\* Mutation: only the first attempt of a fetch is noted as the last request.
SendAfterWaitUnnoted(t) ==
  /\ work[t].request = "waiting" /\ work[t].wait = 0
  /\ work' = [work EXCEPT ![t].request = "open", ![t].attempt = @ + 1]
  /\ since' = IF work[t].attempt = 0 THEN 0 ELSE since
  /\ own' = [own EXCEPT ![t] = 0]
  /\ UNCHANGED <<plan, read>>

\* The sleep of the rate limit or of a backoff is over.
SendAfterWait(t) ==
  /\ work[t].request = "waiting" /\ work[t].wait = 0
  /\ Sent(t, work[t])
  /\ UNCHANGED <<plan, read>>

\* Timeouts and server errors may pass.
Retryable(answer) == answer \in {"timeout", "5xx"}

\* Mutation: the last attempt is retried too.
RetryOnceMore(t) ==
  /\ work[t].request = "open" /\ work[t].attempt <= MaxRetries
  /\ work' = [work EXCEPT ![t].request = "waiting",
                          ![t].wait = Backoff * 2 ^ (work[t].attempt - 1)]
  /\ UNCHANGED <<plan, since, own, read>>

\* Mutation: the attempts are never counted up to their limit.
RetryForever(t) ==
  /\ work[t].request = "open"
  /\ work' = [work EXCEPT ![t].request = "waiting", ![t].attempt = 0,
                          ![t].wait = Backoff]
  /\ UNCHANGED <<plan, since, own, read>>

Retry(t) ==
  /\ work[t].request = "open" /\ work[t].attempt < MaxRetries
  /\ work' = [work EXCEPT ![t].request = "waiting",
                          ![t].wait = Backoff * 2 ^ (work[t].attempt - 1)]
  /\ UNCHANGED <<plan, since, own, read>>

\* The answers on which _fetch_with_retry raises: any other error at once, a
\* retryable one after the last attempt.
Raising(t, answer) ==
  /\ work[t].request = "open"
  /\ Retryable(answer) => work[t].attempt = MaxRetries

-----------------------------------------------------------------------------
(* The walk of one board.                                                  *)

Ended(t, how) == [Fresh(work[t].page) EXCEPT !.stage = "ended", !.how = how]

\* Without a page token a Webflow board has no address for a deeper page.
HasAddress(t) ==
  plan[t].strategy = "webflow-skku" /\ work[t].page > 0 => read[t].token

AskForList(t) ==
  /\ work[t].stage = "list" /\ work[t].request = "none"
  /\ IF HasAddress(t) THEN Fetch(t, work[t])
     ELSE /\ work' = [work EXCEPT ![t] = Ended(t, "empty_page")]
          /\ UNCHANGED <<since, own>>
  /\ UNCHANGED <<plan, read>>

\* Page zero of a Webflow board links to the next page; where the selector and
\* the pattern match, the link shows the token.
LinksOn(t) ==
  /\ plan[t].strategy = "webflow-skku" /\ work[t].page = 0
  /\ Cardinality(Rows(t)) > plan[t].limit

Discovers(t, found) == found => LinksOn(t)

\* The board goes on and the walk has no token for it.
MissesToken(t, found) == LinksOn(t) /\ ~found /\ ~read[t].token

ListArrives(t) ==
  /\ work[t].stage = "list" /\ work[t].request = "open"
  /\ LET page == work[t].page
         rows == ListOf(plan[t], page)
     IN  \E found \in BOOLEAN :
         /\ Discovers(t, found)
         /\ work' = [work EXCEPT ![t] = IF rows = {} THEN Ended(t, "empty_page")
                                        ELSE [Fresh(page) EXCEPT !.stage = "page"]]
         /\ read' = [read EXCEPT ![t] = [read[t] EXCEPT
              !.rows = @ \cup rows,
              !.twice = @ \cup ((rows \cap read[t].rows) \ Pinned(plan[t])),
              !.current = rows,
              !.cache = IF plan[t].strategy = "wordpress-api" THEN @ \cup rows ELSE @,
              !.token = @ \/ found,
              !.failed = IF MissesToken(t, found) THEN @ \cup {"no_token"} ELSE @]]
  /\ UNCHANGED <<plan, since, own>>

\* pyxis takes every failed fetch for an empty page, WordPress every 400.
ErrorIsEmpty(t, answer) ==
  \/ plan[t].strategy = "pyxis-api"
  \/ plan[t].strategy = "wordpress-api" /\ answer = "400"

\* WordPress says by a 400 that there is no such page: then it is no failure.
Recorded(t, answer) ==
  {answer} \ (IF ListOf(plan[t], work[t].page) = {} THEN {"400"} ELSE {})

ListFails(t) ==
  /\ work[t].stage = "list"
  /\ \E answer \in {"timeout", "5xx", "4xx", "400", "refused"} :
       /\ Raising(t, answer)
       /\ work' = [work EXCEPT ![t] = Ended(t, IF ErrorIsEmpty(t, answer) THEN "empty_page"
                                               ELSE "list_fetch_failed")]
       /\ read' = [read EXCEPT ![t].failed = @ \cup Recorded(t, answer)]
  /\ UNCHANGED <<plan, since, own>>

\* What a strategy makes of an answer with status 200 that is not the list, as a
\* maintenance page: nothing in it is a row.  Where the list is JSON, an answer
\* that cannot be taken apart raises.
WithoutList(t) ==
  {"empty_page"} \cup (IF plan[t].strategy \in {"wordpress-api", "pyxis-api"}
                       THEN {"list_fetch_failed"} ELSE {})

ListIsNone(t) ==
  /\ work[t].stage = "list" /\ work[t].request = "open"
  /\ \E how \in WithoutList(t) : work' = [work EXCEPT ![t] = Ended(t, how)]
  /\ read' = [read EXCEPT ![t].failed = @ \cup {"no_list"}]
  /\ UNCHANGED <<plan, since, own>>

\* The detail of one row of the page.  The WordPress list carried the bodies.
AskForDetail(t) ==
  /\ work[t].stage = "page"
  /\ \E r \in read[t].current :
       IF r \in read[t].cache
       THEN /\ read' = [read EXCEPT ![t] = [read[t] EXCEPT !.cache = @ \ {r}, !.current = {}]]
            /\ UNCHANGED <<since, own, work>>
       ELSE /\ Fetch(t, [Fresh(work[t].page) EXCEPT !.stage = "detail", !.row = r])
            /\ read' = [read EXCEPT ![t].current = {}]
  /\ UNCHANGED plan

DetailArrives(t) ==
  /\ work[t].stage = "detail" /\ work[t].request = "open"
  /\ work' = [work EXCEPT ![t] = [Fresh(work[t].page) EXCEPT !.stage = "page"]]
  /\ UNCHANGED <<plan, since, own, read>>

\* A crawl_detail answers a failure with None, and what it raises the item loop
\* catches; the walk goes on.
DetailFails(t) ==
  /\ work[t].stage = "detail"
  /\ \E answer \in {"timeout", "5xx", "4xx", "refused"} : Raising(t, answer)
  /\ work' = [work EXCEPT ![t] = [Fresh(work[t].page) EXCEPT !.stage = "page"]]
  /\ UNCHANGED <<plan, since, own, read>>

NextPage(t) ==
  /\ work[t].stage = "page"
  /\ work' = [work EXCEPT ![t] = IF work[t].page + 1 < MaxPages THEN Fresh(work[t].page + 1)
                                 ELSE Ended(t, "max_pages")]
  /\ read' = [read EXCEPT ![t].current = {}]
  /\ UNCHANGED <<plan, since, own>>

\* Half a second.
TimePasses ==
  /\ since' = Least(since + 1, Delay)
  /\ own' = [t \in Running |-> Least(own[t] + 1, Delay)]
  /\ work' = [t \in Running |-> [work[t] EXCEPT !.wait = IF @ > 0 THEN @ - 1 ELSE 0]]
  /\ UNCHANGED <<plan, read>>

TaskStep(t) ==
  /\ t \in Running
  /\ \/ AskForList(t) \/ ListArrives(t) \/ ListFails(t) \/ ListIsNone(t)
     \/ AskForDetail(t) \/ DetailArrives(t) \/ DetailFails(t)
     \/ SendAfterWait(t) \/ Retry(t) \/ NextPage(t)

Next == TimePasses \/ \E t \in Task : TaskStep(t)

\* Every await of a task ends, requests by their own timeout.
Spec == Init /\ [][Next]_vars /\ WF_vars(TimePasses) /\ \A t \in Task : WF_vars(TaskStep(t))

-----------------------------------------------------------------------------

\* fetcher.py: two requests of one source, the retries among them, are at least
\* the delay apart, or the first backoff if that is shorter, whatever the other
\* sources send.  (Requests of different sources may coincide.)
RequestsAreSpaced ==
  [][\A t \in Running : work[t].request # "open" /\ work'[t].request = "open" =>
       own[t] >= Least(Delay, Backoff)]_vars

\* The failures that a strategy cannot tell from the end of a board.
PassForTheEnd(strategy) ==
  {"no_list"} \cup (CASE strategy = "pyxis-api" -> Failures
                     [] strategy = "wordpress-api" -> {"400"}
                     [] strategy = "webflow-skku" -> {"no_token"}
                     [] OTHER -> {})

\* A walk that ended at an empty page has read every row its strategy is able
\* to read, each unpinned one once and no other row: the strategies' offsets
\* and page numbers tile the board, and no failure passes for its end, with the
\* exceptions of PassForTheEnd.  (A page of unreadable rows alone looks like
\* the end of the board, too.)
EmptyPageIsTheEnd ==
  \A t \in Running :
    /\ work[t].how = "empty_page"
    /\ read[t].failed \cap PassForTheEnd(plan[t].strategy) = {}
    /\ PagesHoldArticles(plan[t])
    => read[t].rows = Addressable(plan[t]) /\ read[t].twice = {}

\* Every walk ends, however its sites answer.
WalkEnds == \A t \in Task : <>(t \in Running => work[t].stage = "ended")

=============================================================================
