------------------------------- MODULE TierTwo -------------------------------
(***************************************************************************)
(* The two writers of a stored notice.  The crawl (tier 1) refetches a     *)
(* notice when its list row is new or retitled, and retries notices whose  *)
(* content is missing; the update checker (tier 2) snapshots the recent    *)
(* notices of a source and refetches them one by one.  Each reads before   *)
(* an await and writes after it, on its own schedule, while the page can   *)
(* change in between.                                                      *)
(*                                                                         *)
(* A page body is a version number, or one that sanitises to nothing, or   *)
(* one the size guard drops; the hash of a body is modelled as the version *)
(* it is the hash of.  The edit history is left out: neither writer reads  *)
(* it back.                                                                *)
(***************************************************************************)
EXTENDS Integers, FiniteSets

CONSTANTS
  Notice,          \* notices of the source inside the update window
  SwallowsErrors,  \* crawl_detail turns every error, 404 included, into None
  MassMin,         \* attempts below which a mass 404 is not judged (5)
  BodyKinds,       \* what an edit may leave: "text", "blank", "huge"
  GoneSets,        \* sets of notices whose pages can disappear together
  MaxEdits,        \* bound on edits of the pages
  MaxGone,         \* bound on disappearances
  MaxFailures      \* bound on detail fetches that fail and passes that abort

ASSUME NoticeAssumption == Notice # {}
ASSUME BoundsAssumption == {MassMin, MaxEdits, MaxGone, MaxFailures} \subseteq Nat
ASSUME SwallowsAssumption == SwallowsErrors \in BOOLEAN
ASSUME KindsAssumption == BodyKinds \subseteq {"text", "blank", "huge"}
ASSUME GoneAssumption == GoneSets \subseteq SUBSET Notice

VARIABLES
  page,      \* the origin: what the detail page and the list row show
  gone,      \* notices whose page answers 404 and that are not listed
  store,     \* the notices collection
  crawl,     \* the notice the crawl is at, with what it read
  tier,      \* the pass the update checker is in, with its snapshot
  misses,    \* history: 404 verdicts since a check last found the page
  edits, vanishings, failures

vars == <<page, gone, store, crawl, tier, misses, edits, vanishings, failures>>
originVars == <<page, gone, edits, vanishings>>

Version == 1 .. MaxEdits + 1
None == 0                \* no content, no hash, no document
Blank == -1              \* a body that sanitises to nothing
Huge == -2               \* a body the size guard drops
NoDetail == -3           \* crawl_detail returned None
SoftDeleteAt == 3

Derived == Version \cup {None}
StorableBody == Version \cup {None, Blank}
Fetched == Version \cup {Blank, Huge, NoDetail}

\* derive_content_fields: `content` keeps a body that sanitises to nothing, the
\* size guard drops it, and without a detail it is null.
BodyOf(body) == IF body \in StorableBody THEN body ELSE None

\* The hash is of the sanitised body, so only a text has one.
HashOf(body) == IF body \in Version THEN body ELSE None

NoDoc == [title |-> None, body |-> None, hash |-> None, fails |-> 0, deleted |-> FALSE]

TypeOK ==
  /\ page \in [Notice -> [version : Version, kind : {"text", "blank", "huge"},
                          title : Version]]
  /\ gone \subseteq Notice
  /\ store \in [Notice -> [title : Derived, body : StorableBody, hash : Derived,
                           fails : 0 .. SoftDeleteAt, deleted : BOOLEAN]]
  /\ crawl \in [stage : {"idle", "refresh", "item", "refreshed", "fetched"},
                notice : Notice, seenTitle : Derived, row : Version,
                body : Fetched]
  /\ tier \in [stage : {"idle", "checking", "fetched", "second"},
               todo : SUBSET Notice, notice : Notice, body : Fetched,
               snapshot : [Notice -> [hash : Derived, fails : 0 .. SoftDeleteAt]],
               missing : SUBSET Notice, answered : Nat]
  /\ misses \in [Notice -> Nat]
  /\ edits \in 0 .. MaxEdits /\ vanishings \in 0 .. MaxGone
  /\ failures \in 0 .. MaxFailures

\* An idle writer holds nothing; its notice is then a placeholder.
NoNotice == CHOOSE n \in Notice : TRUE

IdleCrawl == [stage |-> "idle", notice |-> NoNotice, seenTitle |-> None, row |-> 1,
              body |-> NoDetail]

SnapshotOf(n) == [hash |-> store[n].hash, fails |-> store[n].fails]

IdleTier ==
  [stage |-> "idle", todo |-> {}, notice |-> NoNotice, body |-> NoDetail,
   snapshot |-> [m \in Notice |-> [hash |-> None, fails |-> 0]],
   missing |-> {}, answered |-> 0]

Init ==
  /\ page = [n \in Notice |-> [version |-> 1, kind |-> "text", title |-> 1]]
  /\ gone = {}
  /\ store = [n \in Notice |-> NoDoc]
  /\ crawl = IdleCrawl /\ tier = IdleTier
  /\ misses = [n \in Notice |-> 0]
  /\ edits = 0 /\ vanishings = 0 /\ failures = 0

-----------------------------------------------------------------------------
(* The origin.                                                             *)

\* One edit changes the body, the title, or both.
EditPage(n) ==
  /\ n \notin gone
  /\ edits < MaxEdits
  /\ edits' = edits + 1
  /\ \E version \in {page[n].version, page[n].version + 1},
        title \in {page[n].title, page[n].title + 1}, kind \in BodyKinds :
        /\ page[n] # [version |-> version, kind |-> kind, title |-> title]
        /\ page' = [page EXCEPT ![n] = [version |-> version, kind |-> kind,
                                        title |-> title]]
  /\ UNCHANGED <<gone, store, crawl, tier, misses, vanishings, failures>>

Vanish ==
  /\ vanishings < MaxGone
  /\ vanishings' = vanishings + 1
  /\ \E group \in GoneSets : gone' = gone \cup group
  /\ UNCHANGED <<page, store, crawl, tier, misses, edits, failures>>

Reappear ==
  /\ gone # {} /\ gone' = {}
  /\ UNCHANGED <<page, store, crawl, tier, misses, edits, vanishings, failures>>

PageBody(n) == CASE page[n].kind = "text" -> page[n].version
                 [] page[n].kind = "blank" -> Blank
                 [] page[n].kind = "huge" -> Huge

\* What crawl_detail answers that is not an exception.  Every bundled strategy
\* catches its own errors, so a missing page is no detail there.
Answers(n, body) ==
  \/ n \notin gone /\ body = PageBody(n) /\ UNCHANGED failures
  \/ n \in gone /\ SwallowsErrors /\ body = NoDetail /\ UNCHANGED failures
  \/ /\ body = NoDetail
     /\ failures < MaxFailures
     /\ failures' = failures + 1

-----------------------------------------------------------------------------
(* The crawl: work seed, list rows, and their writes.                      *)

Stored(n) == store[n].title # None

\* pending_refs: a stored notice without content is refetched every run; one
\* whose content merely sanitised to nothing is not.
CrawlPending(n) ==
  /\ crawl.stage = "idle"
  /\ Stored(n) /\ store[n].body = None
  /\ crawl' = [IdleCrawl EXCEPT !.stage = "refresh", !.notice = n]
  /\ UNCHANGED <<originVars, store, tier, misses, failures>>

\* A list row that is unknown, or whose title is not the stored one.
CrawlRow(n) ==
  /\ crawl.stage = "idle"
  /\ n \notin gone
  /\ store[n].title # page[n].title
  /\ crawl' = [IdleCrawl EXCEPT !.stage = "item", !.notice = n,
                                !.row = page[n].title, !.seenTitle = store[n].title]
  /\ UNCHANGED <<originVars, store, tier, misses, failures>>

\* An exception in the backfill would abort the source; on a row it is an
\* ItemFailed.  Either way nothing is written.
CrawlDetail ==
  /\ crawl.stage \in {"refresh", "item"}
  /\ \/ \E body \in Fetched :
          /\ Answers(crawl.notice, body)
          /\ crawl' = [crawl EXCEPT !.stage = IF @ = "refresh" THEN "refreshed"
                                              ELSE "fetched",
                                    !.body = body]
     \/ /\ crawl.notice \in gone /\ ~SwallowsErrors
        /\ crawl' = IdleCrawl
        /\ UNCHANGED failures
  /\ UNCHANGED <<originVars, store, tier, misses>>

\* ContentRefreshed, if there was a detail: the derived fields, no history.
CrawlRefresh ==
  LET n == crawl.notice
  IN /\ crawl.stage = "refreshed"
     /\ store' = IF crawl.body = NoDetail THEN store
                 ELSE [store EXCEPT ![n].body = BodyOf(crawl.body),
                                    ![n].hash = HashOf(crawl.body)]
     /\ crawl' = IdleCrawl
     /\ UNCHANGED <<originVars, tier, misses, failures>>

\* ItemCrawled, for an unknown row or a known one.  Without a detail the content
\* fields are stored as nulls.
CrawlStore ==
  LET n == crawl.notice
  IN /\ crawl.stage = "fetched"
     /\ store' = [store EXCEPT ![n].title = crawl.row,
                               ![n].body = BodyOf(crawl.body),
                               ![n].hash = HashOf(crawl.body)]
     /\ crawl' = IdleCrawl
     /\ UNCHANGED <<originVars, tier, misses, failures>>

-----------------------------------------------------------------------------
(* The update checker: _check_department over one snapshot.                *)

TierStart ==
  /\ tier.stage = "idle"
  /\ LET inWindow == {n \in Notice : Stored(n) /\ ~store[n].deleted}
     IN /\ inWindow # {}
        /\ tier' = [tier EXCEPT !.stage = "checking", !.todo = inWindow,
                                !.snapshot = [n \in Notice |-> SnapshotOf(n)],
                                !.missing = {}, !.answered = 0]
  /\ UNCHANGED <<originVars, store, crawl, misses, failures>>

\* A fetched body is compared and written by TierWrite; no detail is counted
\* as a fetch error; a 404 that reaches the checker is left to the second pass.
TierFetch(n) ==
  /\ tier.stage = "checking"
  /\ n \in tier.todo
  /\ \/ \E body \in Fetched :
          /\ Answers(n, body)
          /\ tier' = IF body = NoDetail
                     THEN [tier EXCEPT !.todo = @ \ {n}, !.answered = @ + 1]
                     ELSE [tier EXCEPT !.todo = @ \ {n}, !.answered = @ + 1,
                                       !.stage = "fetched", !.notice = n,
                                       !.body = body]
     \/ /\ n \in gone /\ ~SwallowsErrors
        /\ tier' = [tier EXCEPT !.todo = @ \ {n}, !.missing = @ \cup {n}]
        /\ UNCHANGED failures
  /\ UNCHANGED <<originVars, store, crawl, misses>>

OldHash == tier.snapshot[tier.notice].hash
NewHash == HashOf(tier.body)

\* Mutation: a body that sanitises to nothing is written through.
ContentVanishedNever == FALSE

\* A body that sanitised to nothing, where a hash was stored: likelier a soft
\* error page than an edit.  An oversized one is written through as nulls.
ContentVanished == NewHash = None /\ OldHash # None /\ tier.body # Huge

Checked ==
  tier' = [tier EXCEPT !.stage = "checking", !.notice = NoNotice, !.body = NoDetail]

KeepVanished ==
  /\ tier.stage = "fetched"
  /\ ContentVanished
  /\ Checked
  /\ UNCHANGED <<originVars, store, crawl, misses, failures>>

\* No hash in the snapshot: only the hash is set.
BackfillHash ==
  /\ tier.stage = "fetched"
  /\ ~ContentVanished
  /\ OldHash = None
  /\ store' = [store EXCEPT ![tier.notice].hash = NewHash,
                            ![tier.notice].fails = 0]
  /\ misses' = [misses EXCEPT ![tier.notice] = 0]
  /\ Checked
  /\ UNCHANGED <<originVars, crawl, failures>>

\* Mutation: an unchanged notice keeps its failure count.
KeepUnchangedCount ==
  /\ tier.stage = "fetched"
  /\ OldHash # None /\ OldHash = NewHash
  /\ UNCHANGED store
  /\ misses' = [misses EXCEPT ![tier.notice] = 0]
  /\ Checked
  /\ UNCHANGED <<originVars, crawl, failures>>

\* The page is as the snapshot has it: a nonzero failure count is cleared.
KeepUnchanged ==
  /\ tier.stage = "fetched"
  /\ OldHash # None /\ OldHash = NewHash
  /\ store' = IF tier.snapshot[tier.notice].fails > 0
              THEN [store EXCEPT ![tier.notice].fails = 0] ELSE store
  /\ misses' = [misses EXCEPT ![tier.notice] = 0]
  /\ Checked
  /\ UNCHANGED <<originVars, crawl, failures>>

\* Mutation: the new hash is stored without the content it belongs to.
WriteChangedHashOnly ==
  /\ tier.stage = "fetched"
  /\ ~ContentVanished
  /\ OldHash # None /\ OldHash # NewHash
  /\ store' = [store EXCEPT ![tier.notice].hash = NewHash,
                            ![tier.notice].fails = 0]
  /\ misses' = [misses EXCEPT ![tier.notice] = 0]
  /\ Checked
  /\ UNCHANGED <<originVars, crawl, failures>>

\* The page differs from the snapshot: every derived field is rewritten.
WriteChanged ==
  /\ tier.stage = "fetched"
  /\ ~ContentVanished
  /\ OldHash # None /\ OldHash # NewHash
  /\ store' = [store EXCEPT ![tier.notice].body = BodyOf(tier.body),
                            ![tier.notice].hash = NewHash,
                            ![tier.notice].fails = 0]
  /\ misses' = [misses EXCEPT ![tier.notice] = 0]
  /\ Checked
  /\ UNCHANGED <<originVars, crawl, failures>>

\* Mutation: the share of missing pages is never judged.
Mass404Never == FALSE

Mass404 ==
  LET missing == Cardinality(tier.missing)
      attempted == tier.answered + missing
  IN attempted >= MassMin /\ 2 * missing > attempted

\* The second pass changes nothing if the whole source seems to be gone.
TierSecondPass ==
  /\ tier.stage = "checking" /\ tier.todo = {}
  /\ tier' = IF Mass404 \/ tier.missing = {} THEN IdleTier
             ELSE [IdleTier EXCEPT !.stage = "second", !.missing = tier.missing]
  /\ UNCHANGED <<originVars, store, crawl, misses, failures>>

\* Mutation: the deletion is decided before the count is raised.
TierMissTestsFirst(n) ==
  /\ tier.stage = "second"
  /\ n \in tier.missing
  /\ store' = [store EXCEPT ![n].fails = @ + 1,
                            ![n].deleted = @ \/ store[n].fails >= SoftDeleteAt]
  /\ misses' = [misses EXCEPT ![n] = @ + 1]
  /\ tier' = IF tier.missing = {n} THEN IdleTier
             ELSE [tier EXCEPT !.missing = @ \ {n}]
  /\ UNCHANGED <<originVars, crawl, failures>>

\* One atomic update: count the miss, delete at the third.
TierMiss(n) ==
  /\ tier.stage = "second"
  /\ n \in tier.missing
  /\ store' = [store EXCEPT ![n].fails = @ + 1,
                            ![n].deleted = @ \/ store[n].fails + 1 >= SoftDeleteAt]
  /\ misses' = [misses EXCEPT ![n] = @ + 1]
  /\ tier' = IF tier.missing = {n} THEN IdleTier
             ELSE [tier EXCEPT !.missing = @ \ {n}]
  /\ UNCHANGED <<originVars, crawl, failures>>

\* A write of the pass raises and gather drops the source, or the process is
\* replaced: the snapshot and the 404 verdicts of the pass are gone.
Abort ==
  /\ failures < MaxFailures
  /\ failures' = failures + 1
  /\ \/ tier.stage # "idle" /\ tier' = IdleTier /\ UNCHANGED crawl
     \/ crawl.stage # "idle" /\ crawl' = IdleCrawl /\ UNCHANGED tier
  /\ UNCHANGED <<originVars, store, misses>>

TierWrite == KeepVanished \/ BackfillHash \/ KeepUnchanged \/ WriteChanged

CrawlWork == CrawlDetail \/ CrawlRefresh \/ CrawlStore

Tier ==
  \/ TierStart \/ TierWrite \/ TierSecondPass
  \/ \E n \in Notice : TierFetch(n) \/ TierMiss(n)

Origin == (\E n \in Notice : EditPage(n)) \/ Vanish \/ Reappear

Next ==
  \/ Origin \/ CrawlWork \/ Tier \/ Abort
  \/ \E n \in Notice : CrawlPending(n) \/ CrawlRow(n)

\* Both modules keep ticking and their awaits end; every crawl run visits every
\* pending notice and every first-page row, every pass every notice.
Fairness ==
  /\ WF_vars(CrawlWork) /\ WF_vars(Tier)
  /\ \A n \in Notice : SF_vars(CrawlPending(n)) /\ SF_vars(CrawlRow(n))

Spec == Init /\ [][Next]_vars /\ Fairness

-----------------------------------------------------------------------------

\* The update checker never blanks a stored body: a page that sanitises to
\* nothing leaves it alone even if the crawl has written it since the snapshot;
\* only the size guard may null it, as the crawl would.
VanishedBodyIsKept ==
  [][\A n \in Notice :
       tier.stage = "fetched" /\ tier'.stage # "fetched" /\ store[n].body \in Version
         => store'[n].body \in Version \/ tier.body = Huge]_vars

\* A notice is soft-deleted only after three 404 verdicts, and no check between
\* them found a page that it could compare or write (one that sanitises to
\* nothing leaves the count as it is), however passes and edits interleave.
SoftDeleteNeedsThreeMisses ==
  \A n \in Notice : store[n].deleted => misses[n] >= SoftDeleteAt

\* One move of a whole site, while every fetch answers, deletes nothing, though
\* the pass that was running when it moved sees only some of the pages missing.
OutageDeletesNothing ==
  \A n \in Notice :
    {n} \notin GoneSets /\ vanishings <= 1 /\ failures = 0 => ~store[n].deleted

\* The API reference: a notice that disappears from its origin is soft-deleted,
\* in the end, while the rest of its site answers.
GoneIsSoftDeleted ==
  \A n \in Notice :
    (Stored(n) /\ gone = {n}) ~> (store[n].deleted \/ gone # {n})

\* Of a stored notice whose page always has a text, while no fetch fails: once
\* the page rests, and unless it is soft-deleted, the stored body settles on it.
\* The two writers correct each other's stale writes and do not fight.
BodyConverges ==
  \A n \in Notice :
    /\ [](page[n].kind = "text" /\ failures = 0)
    /\ <>[](Stored(n) /\ n \notin gone /\ ~store[n].deleted)
    => <>[](store[n].body = PageBody(n))

=============================================================================
