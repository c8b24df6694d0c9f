------------------------------ MODULE AiSummary ------------------------------
(***************************************************************************)
(* AI summaries of stored notices.  A batch takes the notices that have no *)
(* summary, asks the AI service about one after the other, then takes the  *)
(* notices whose summary is of another content hash and does the same.     *)
(* Both lists are snapshots: meanwhile the crawl and the update checker    *)
(* rewrite the contents, and a second batch may run, because the batch     *)
(* started with the process is not one of the scheduler's own jobs.        *)
(*                                                                         *)
(* A text is a version number, and so is its hash; a text derived from a   *)
(* body that was dropped or sanitised to nothing is stored without a hash. *)
(* The update checker gives a notice without a hash the hash of the body   *)
(* it has just fetched and does not store.                                 *)
(*                                                                         *)
(* Its names are not those of CrawlHealth, so that PluginProofs, which is   *)
(* about both plugins, can extend the two.                                 *)
(***************************************************************************)
EXTENDS Naturals, FiniteSets

CONSTANTS
  Notice,       \* stored notices
  BatchSize,    \* most notices of a query (50)
  GiveUpAt,     \* failures after which a notice is not retried (3)
  MaxVersion,   \* bound: texts are versions 1 .. MaxVersion
  MaxRewrites,  \* bound on rewrites of contents
  MaxBreaks     \* bound on failing database operations and restarts

ASSUME NoticeAssumption == IsFiniteSet(Notice)
ASSUME BatchSizeAssumption == BatchSize \in Nat \ {0}
ASSUME GiveUpAssumption == GiveUpAt \in Nat \ {0}
ASSUME BoundsAssumption == {MaxVersion, MaxRewrites, MaxBreaks} \subseteq Nat

VARIABLES
  content,      \* contentText and contentHash of each notice
  recent,       \* the place of each notice by crawledAt, the newest at 0
  summary,      \* the text the summary is of and its summaryContentHash
  failures,     \* summaryFailures
  batch,        \* the two batches: where they are and what is left of a list
  booting,      \* the process has not yet started its run_on_start batch
  foreign,      \* history: the hashes each notice was given without their text
  rewrites, breaks

summaryVars ==
  <<content, recent, summary, failures, batch, booting, foreign, rewrites, breaks>>
storeVars == <<content, recent, summary, failures, foreign>>

None == 0
Version == 1 .. MaxVersion
Batches == {"start", "cron"}
Empty == [text |-> None, hash |-> None]

Content == [text : Version \cup {None}, hash : Version \cup {None}]

\* What the derivation pipeline returns of a body.
Derived == {c \in Content : c.hash \in {c.text, None}}

\* What a query returns of a notice, and its place in the list.
Snapshot == [notice : Notice, text : Version, hash : Version \cup {None},
             place : 0 .. BatchSize - 1]

\* No two notices were stored at the same moment.
Orders == {r \in [Notice -> 0 .. Cardinality(Notice) - 1] :
             \A m, n \in Notice : r[m] = r[n] => m = n}

SummaryTypeOK ==
  /\ content \in [Notice -> Content]
  /\ recent \in Orders
  /\ summary \in [Notice -> Content]
  /\ failures \in [Notice -> 0 .. GiveUpAt + 1]
  /\ batch \in [Batches -> [stage : {"idle", "new", "stale"}, todo : SUBSET Snapshot]]
  /\ \A b \in Batches : \A doc, other \in batch[b].todo :
       doc.place = other.place \/ doc.notice = other.notice => doc = other
  /\ booting \in BOOLEAN
  /\ foreign \in [Notice -> SUBSET Version]
  /\ rewrites \in 0 .. MaxRewrites /\ breaks \in 0 .. MaxBreaks

Idle == [stage |-> "idle", todo |-> {}]

SummaryInit ==
  /\ content = [n \in Notice |-> Empty]
  /\ recent \in Orders
  /\ summary = [n \in Notice |-> Empty]
  /\ failures = [n \in Notice |-> 0]
  /\ batch = [b \in Batches |-> Idle]
  /\ booting = TRUE
  /\ foreign = [n \in Notice |-> {}]
  /\ rewrites = 0 /\ breaks = 0

Newer(m, n) == recent[m] < recent[n]

\* A write of the crawl or of the update checker: crawledAt is now.
Written(n) ==
  /\ rewrites < MaxRewrites
  /\ rewrites' = rewrites + 1
  /\ recent' = [m \in Notice |-> IF m = n THEN 0
                                ELSE IF Newer(m, n) THEN recent[m] + 1
                                ELSE recent[m]]
  /\ UNCHANGED <<summary, failures, batch, booting, breaks>>

\* It stores another content, or only touches the notice.
Rewrite(n) ==
  /\ Written(n)
  /\ \E c \in Derived \cup {content[n]} : content' = [content EXCEPT ![n] = c]
  /\ UNCHANGED foreign

\* The update checker read the notice without a hash: it stores the hash of the
\* body it fetched, and nothing else of that body, whatever the crawl has stored
\* since.
BackfillHash(n) ==
  /\ Written(n)
  /\ \E new \in Version \cup {None} :
       /\ content' = [content EXCEPT ![n].hash = new]
       /\ foreign' = [foreign EXCEPT ![n] = @ \cup ({new} \ {content[n].text, None})]

-----------------------------------------------------------------------------
(* query.py                                                                *)

HasSummary(n) == summary[n].text # None

Retryable(n) == failures[n] < GiveUpAt

Unsummarized(n) == content[n].text # None /\ ~HasSummary(n) /\ Retryable(n)

StaleSummary(n) ==
  /\ HasSummary(n)
  /\ content[n].text # None
  /\ summary[n].hash # content[n].hash
  /\ Retryable(n)

Ahead(n, found) == Cardinality({m \in found : Newer(m, n)})

\* Mutation: the limit is one too high.
LimitedOneMore(found) == {n \in found : Ahead(n, found) <= BatchSize}

\* At most a batch of what matches, the newest of it.
Limited(found) == {n \in found : Ahead(n, found) < BatchSize}

\* The notices taken, as they are stored now.
Query(found) ==
  {[notice |-> n, text |-> content[n].text, hash |-> content[n].hash,
    place |-> Ahead(n, found)] : n \in Limited(found)}

-----------------------------------------------------------------------------
(* processor.py                                                            *)

\* The scheduler runs one batch at a time; the one the process starts with is
\* awaited by run_scheduler itself, once.
StartBatch(b) ==
  /\ batch[b].stage = "idle"
  /\ b = "start" => booting
  /\ booting' = (booting /\ b # "start")
  /\ LET found == {n \in Notice : Unsummarized(n)}
     IN batch' = [batch EXCEPT ![b] = [stage |-> "new", todo |-> Query(found)]]
  /\ UNCHANGED <<storeVars, rewrites, breaks>>

\* The first list is done: only now is the second one read.
QueryStale(b) ==
  /\ batch[b].stage = "new" /\ batch[b].todo = {}
  /\ LET found == {n \in Notice : StaleSummary(n)}
     IN batch' = [batch EXCEPT ![b] = [stage |-> "stale", todo |-> Query(found)]]
  /\ UNCHANGED <<storeVars, booting, rewrites, breaks>>

EndBatch(b) ==
  /\ batch[b].stage = "stale" /\ batch[b].todo = {}
  /\ batch' = [batch EXCEPT ![b] = Idle]
  /\ UNCHANGED <<storeVars, booting, rewrites, breaks>>

\* The document the loop is at.
Current(b) ==
  {doc \in batch[b].todo : \A other \in batch[b].todo : doc.place <= other.place}

NextDoc(b, doc) == batch' = [batch EXCEPT ![b].todo = @ \ {doc}]

\* Mutation: the summary is stored with the hash the notice has now.
SummarizedWithHashOfNow(doc) ==
  /\ summary' = [summary EXCEPT ![doc.notice] =
                   [text |-> doc.text, hash |-> content[doc.notice].hash]]
  /\ failures' = [failures EXCEPT ![doc.notice] = 0]

\* The summary of the snapshot's text, with the snapshot's hash.
Summarized(doc) ==
  /\ summary' = [summary EXCEPT ![doc.notice] =
                   [text |-> doc.text, hash |-> doc.hash]]
  /\ failures' = [failures EXCEPT ![doc.notice] = 0]

SummarizeOk(b) ==
  /\ \E doc \in Current(b) : Summarized(doc) /\ NextDoc(b, doc)
  /\ UNCHANGED <<content, recent, booting, foreign, rewrites, breaks>>

\* Mutation: a failure is only logged.
CountFailureNever(n) == UNCHANGED failures

CountFailure(n) == failures' = [failures EXCEPT ![n] = @ + 1]

\* The AI service gave up or answered nonsense: the failure is counted.
SummarizeFails(b) ==
  /\ \E doc \in Current(b) : CountFailure(doc.notice) /\ NextDoc(b, doc)
  /\ UNCHANGED <<content, recent, summary, booting, foreign, rewrites, breaks>>

MayBreak == breaks < MaxBreaks /\ breaks' = breaks + 1

\* Storing the summary raised though it may have been applied: it is counted
\* as a failure like any other.
StoreFails(b) ==
  /\ MayBreak
  /\ \E doc \in Current(b) :
       /\ NextDoc(b, doc)
       /\ \/ summary' = summary /\ CountFailure(doc.notice)
          \/ /\ summary' = [summary EXCEPT ![doc.notice] =
                              [text |-> doc.text, hash |-> doc.hash]]
             /\ failures' = [failures EXCEPT ![doc.notice] = 1]
  /\ UNCHANGED <<content, recent, booting, foreign, rewrites>>

\* A query or the counting itself raises: the batch is over.
AbortCron ==
  /\ batch["cron"].stage # "idle"
  /\ MayBreak
  /\ batch' = [batch EXCEPT !["cron"] = Idle]
  /\ UNCHANGED <<storeVars, booting, rewrites>>

\* Nothing catches what the start-up batch raises, so it ends the process, as a
\* redeploy does; the next process starts with a batch again.
Restart ==
  /\ MayBreak
  /\ batch' = [b \in Batches |-> Idle]
  /\ booting' = TRUE
  /\ UNCHANGED <<storeVars, rewrites>>

Work(b) ==
  StartBatch(b) \/ QueryStale(b) \/ EndBatch(b) \/ SummarizeOk(b) \/ SummarizeFails(b)

SummaryNext ==
  \/ \E b \in Batches : Work(b) \/ StoreFails(b)
  \/ AbortCron \/ Restart
  \/ \E n \in Notice : Rewrite(n) \/ BackfillHash(n)

\* The cron trigger keeps firing, and the calls of a batch end.  Nothing is
\* assumed of the AI service: it may fail every time.
SummarySpec ==
  /\ SummaryInit /\ [][SummaryNext]_summaryVars
  /\ \A b \in Batches : WF_summaryVars(Work(b))

-----------------------------------------------------------------------------

LooksFresh(n) == HasSummary(n) /\ summary[n].hash = content[n].hash

\* A summary with the hash of the stored content was made of the stored text,
\* however batches overlap and texts come and go between a query and a write:
\* unless the notice was once given that very hash without its text.  Then the
\* summary of the old text stays when the text of that hash is stored.
FreshSummaryIsCurrent ==
  \A n \in Notice :
    LooksFresh(n) /\ content[n].hash \notin foreign[n] \cup {None}
      => summary[n].text = content[n].text

\* A notice that is being given up does not keep others waiting: once contents
\* rest, every notice with a text ends summarised or given up, although a batch
\* takes only the newest ones.
EveryNoticeSettles ==
  \A n \in Notice :
    <>[](content[n].text = None \/ LooksFresh(n) \/ ~Retryable(n))

=============================================================================
