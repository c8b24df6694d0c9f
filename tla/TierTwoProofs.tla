---------------------------- MODULE TierTwoProofs ----------------------------
(* The safety of the two writers, for any notices, edits and outages.      *)
EXTENDS TierTwo, FiniteSetTheorems, TLAPS

CrawlTyped ==
  crawl \in [stage : {"idle", "refresh", "item", "refreshed", "fetched"},
             notice : Notice, seenTitle : Derived, row : Version, body : Fetched]

TierTyped ==
  tier \in [stage : {"idle", "checking", "fetched", "second"},
            todo : SUBSET Notice, notice : Notice, body : Fetched,
            snapshot : [Notice -> [hash : Derived, fails : 0 .. SoftDeleteAt]],
            missing : SUBSET Notice, answered : Nat]

Doc == [title : Derived, body : StorableBody, hash : Derived,
        fails : 0 .. SoftDeleteAt, deleted : BOOLEAN]

StoreTyped == store \in [Notice -> Doc]

\* The notices whose check is still to be written in the running pass.
Open == IF tier.stage \in {"checking", "fetched"}
        THEN tier.todo \cup (IF tier.stage = "fetched" THEN {tier.notice} ELSE {})
        ELSE {}

\* A pass takes up no deleted notice and judges none twice, and until it has
\* written a notice nobody else touches its failure count.
PassInv ==
  /\ \A n \in Open : ~store[n].deleted /\ store[n].fails = tier.snapshot[n].fails
  /\ tier.stage # "idle" => \A n \in tier.missing : ~store[n].deleted
  /\ tier.missing \cap Open = {}
  /\ tier.stage = "fetched" => tier.notice \notin tier.todo /\ tier.body # NoDetail

\* Failures are counted misses, and only a notice at the limit is deleted.
CountInv ==
  \A n \in Notice : /\ store[n].fails <= misses[n]
                    /\ store[n].deleted <=> store[n].fails = SoftDeleteAt

\* What a page shows is no newer than the edits so far.
OriginInv ==
  \A n \in Notice : page[n].version <= edits + 1 /\ page[n].title <= edits + 1

IInv == TypeOK /\ OriginInv /\ PassInv /\ CountInv

\* The bounds are numbers.
LEMMA Bounds == MaxEdits \in Nat /\ MaxGone \in Nat /\ MaxFailures \in Nat
BY BoundsAssumption

\* The placeholder of an idle writer is a notice.
LEMMA NoNoticeType == NoNotice \in Notice
BY NoticeAssumption DEF NoNotice

\* An idle writer is of its type, and an idle pass holds nothing.
LEMMA IdleTypes ==
  /\ IdleCrawl \in [stage : {"idle", "refresh", "item", "refreshed", "fetched"},
                    notice : Notice, seenTitle : Derived, row : Version, body : Fetched]
  /\ IdleTier \in [stage : {"idle", "checking", "fetched", "second"},
                   todo : SUBSET Notice, notice : Notice, body : Fetched,
                   snapshot : [Notice -> [hash : Derived, fails : 0 .. SoftDeleteAt]],
                   missing : SUBSET Notice, answered : Nat]
  /\ IdleTier.stage = "idle" /\ IdleTier.missing = {} /\ IdleTier.answered = 0
BY NoNoticeType, Bounds DEF IdleCrawl, IdleTier, Fetched, Derived, Version, None, NoDetail,
   SoftDeleteAt

\* What is derived from a fetched body can be stored.
LEMMA DerivedTypes ==
  ASSUME NEW body \in Fetched
  PROVE  BodyOf(body) \in StorableBody /\ HashOf(body) \in Derived
BY DEF BodyOf, HashOf, Fetched, StorableBody, Derived

\* The parts of the type invariant one step or another disturbs.
LEMMA Typed == TypeOK => CrawlTyped /\ TierTyped /\ StoreTyped
BY DEF TypeOK, CrawlTyped, TierTyped, StoreTyped, Doc

\* One document is replaced.
LEMMA StoreWrite ==
  ASSUME StoreTyped, NEW n \in Notice, NEW doc \in Doc,
         store' = [store EXCEPT ![n] = doc]
  PROVE  /\ StoreTyped' /\ store'[n] = doc
         /\ \A m \in Notice \ {n} : store'[m] = store[m]
BY DEF StoreTyped

\* A fetch either counts a failure that is left, or none.
LEMMA AnswersBounded ==
  ASSUME TypeOK, NEW n \in Notice, NEW body \in Fetched, Answers(n, body)
  PROVE  failures' \in 0 .. MaxFailures
<1>1. failures' = failures \/ (failures < MaxFailures /\ failures' = failures + 1)
  BY DEF Answers
<1>2. failures \in 0 .. MaxFailures
  BY DEF TypeOK
<1> QED
  BY <1>1, <1>2, Bounds

\* Nothing is stored and no pass runs.
LEMMA InitIInv == Init => IInv
<1> SUFFICES ASSUME Init PROVE IInv
  OBVIOUS
<1> USE Bounds DEF Init
<1>2. TypeOK
  BY IdleTypes DEF TypeOK, Version, Derived, StorableBody, NoDoc, None, SoftDeleteAt
<1>3. OriginInv /\ CountInv
  BY DEF OriginInv, CountInv, NoDoc, SoftDeleteAt
<1>4. PassInv
  BY IdleTypes DEF PassInv, Open
<1> QED
  BY <1>2, <1>3, <1>4 DEF IInv

\* Edits and disappearances: only the origin changes.
LEMMA OriginIInv ==
  ASSUME IInv, Origin
  PROVE  IInv'
<1> USE Bounds DEF IInv
<1>0. UNCHANGED <<store, crawl, tier, misses, failures>>
  BY DEF Origin, EditPage, Vanish, Reappear
<1>1. PassInv' /\ CountInv'
  BY <1>0 DEF PassInv, CountInv, Open
<1>2. TypeOK' /\ OriginInv'
  <2>1. CASE \E n \in Notice : EditPage(n)
    <3>1. PICK n \in Notice : EditPage(n)
      BY <2>1
    <3>2. PICK version \in {page[n].version, page[n].version + 1},
               title \in {page[n].title, page[n].title + 1}, kind \in BodyKinds :
            page' = [page EXCEPT ![n] = [version |-> version, kind |-> kind, title |-> title]]
      BY <3>1 DEF EditPage
    <3>3. /\ version \in Version /\ version <= edits' + 1
          /\ title \in Version /\ title <= edits' + 1
          /\ kind \in {"text", "blank", "huge"}
      BY <3>1, <3>2, KindsAssumption DEF EditPage, TypeOK, OriginInv, Version
    <3>4. page' \in [Notice -> [version : Version, kind : {"text", "blank", "huge"},
                               title : Version]]
      BY <3>2, <3>3 DEF TypeOK
    <3>5. TypeOK'
      BY <1>0, <3>1, <3>4 DEF EditPage, TypeOK
    <3>6. OriginInv'
      <4> SUFFICES ASSUME NEW m \in Notice
                   PROVE  page'[m].version <= edits' + 1 /\ page'[m].title <= edits' + 1
        BY DEF OriginInv
      <4>1. CASE m = n
        BY <3>2, <3>3, <4>1 DEF TypeOK
      <4>2. CASE m # n
        BY <3>1, <3>2, <4>2 DEF EditPage, TypeOK, OriginInv, Version
      <4> QED
        BY <4>1, <4>2
    <3> QED
      BY <3>5, <3>6
  <2>2. CASE Vanish \/ Reappear
    BY <1>0, <2>2, GoneAssumption DEF Vanish, Reappear, TypeOK, OriginInv
  <2> QED
    BY <2>1, <2>2 DEF Origin
<1> QED
  BY <1>1, <1>2

\* What the crawl reads.
LEMMA CrawlReadIInv ==
  ASSUME IInv,
         CrawlDetail \/ \E n \in Notice : CrawlPending(n) \/ CrawlRow(n)
  PROVE  IInv'
<1> USE Bounds DEF IInv
<1>0. UNCHANGED <<originVars, store, tier, misses>>
  BY DEF CrawlDetail, CrawlPending, CrawlRow
<1>1. OriginInv' /\ PassInv' /\ CountInv'
  BY <1>0 DEF originVars, OriginInv, PassInv, CountInv, Open
<1>2. TypeOK'
  <2>1. CASE CrawlDetail
    <3>1. CrawlTyped'
      <4>1. ASSUME NEW body \in Fetched,
                   crawl' = [crawl EXCEPT !.stage = IF @ = "refresh" THEN "refreshed"
                                                    ELSE "fetched",
                                          !.body = body]
            PROVE  CrawlTyped'
        BY <4>1 DEF TypeOK, CrawlTyped
      <4>2. ASSUME crawl' = IdleCrawl
            PROVE  CrawlTyped'
        BY <4>2, IdleTypes DEF CrawlTyped
      <4> QED
        BY <2>1, <4>1, <4>2 DEF CrawlDetail
    <3>2. failures' \in 0 .. MaxFailures
      <4>1. crawl.notice \in Notice /\ failures \in 0 .. MaxFailures
        BY DEF TypeOK
      <4> QED
        BY <2>1, <4>1, AnswersBounded DEF CrawlDetail
    <3> QED
      BY <1>0, <3>1, <3>2 DEF TypeOK, CrawlTyped, originVars
  <2>2. CASE \E n \in Notice : CrawlPending(n) \/ CrawlRow(n)
    <3>1. PICK n \in Notice : CrawlPending(n) \/ CrawlRow(n)
      BY <2>2
    <3>2. page[n].title \in Version /\ store[n].title \in Derived
      BY DEF TypeOK
    <3>3. CrawlTyped'
      <4>1. CASE CrawlPending(n)
        BY <4>1, IdleTypes DEF CrawlPending, CrawlTyped
      <4>2. CASE CrawlRow(n)
        BY <4>2, <3>2, IdleTypes DEF CrawlRow, CrawlTyped
      <4> QED
        BY <3>1, <4>1, <4>2
    <3>4. UNCHANGED failures
      BY <3>1 DEF CrawlPending, CrawlRow
    <3> QED
      BY <1>0, <3>3, <3>4 DEF TypeOK, CrawlTyped, originVars
  <2> QED
    BY <2>1, <2>2
<1> QED
  BY <1>1, <1>2

\* What the crawl writes: no failure count, no deletion.
LEMMA CrawlWriteIInv ==
  ASSUME IInv, CrawlRefresh \/ CrawlStore
  PROVE  IInv'
<1> USE Bounds DEF IInv
<1> DEFINE n == crawl.notice
<1>0. /\ UNCHANGED <<originVars, tier, misses, failures>>
      /\ crawl' = IdleCrawl /\ n \in Notice
  BY DEF CrawlRefresh, CrawlStore, TypeOK
<1>1. BodyOf(crawl.body) \in StorableBody /\ HashOf(crawl.body) \in Derived
  BY DerivedTypes DEF TypeOK
<1>2. /\ StoreTyped'
      /\ \A m \in Notice : /\ store'[m].fails = store[m].fails
                            /\ store'[m].deleted = store[m].deleted
  <2> StoreTyped /\ crawl.row \in Derived
    BY Typed DEF TypeOK, Derived
  <2>1. CASE CrawlRefresh
    <3>1. CASE crawl.body = NoDetail
      BY <2>1, <3>1 DEF CrawlRefresh, StoreTyped
    <3>2. CASE crawl.body # NoDetail
      <4> DEFINE doc == [store[n] EXCEPT !.body = BodyOf(crawl.body),
                                         !.hash = HashOf(crawl.body)]
      <4>1. store' = [store EXCEPT ![n] = doc]
        BY <1>0, <2>1, <3>2 DEF CrawlRefresh, StoreTyped, Doc
      <4>2. doc \in Doc /\ doc.fails = store[n].fails /\ doc.deleted = store[n].deleted
        BY <1>0, <1>1 DEF StoreTyped, Doc
      <4> HIDE DEF doc
      <4> QED
        BY <1>0, <4>1, <4>2, StoreWrite
    <3> QED
      BY <3>1, <3>2
  <2>2. CASE CrawlStore
    <3> DEFINE doc == [store[n] EXCEPT !.title = crawl.row,
                                       !.body = BodyOf(crawl.body),
                                       !.hash = HashOf(crawl.body)]
    <3>1. store' = [store EXCEPT ![n] = doc]
      BY <1>0, <2>2 DEF CrawlStore, StoreTyped, Doc
    <3>2. doc \in Doc /\ doc.fails = store[n].fails /\ doc.deleted = store[n].deleted
      BY <1>0, <1>1 DEF StoreTyped, Doc
    <3> HIDE DEF doc
    <3> QED
      BY <1>0, <3>1, <3>2, StoreWrite
  <2> QED
    BY <2>1, <2>2
<1>3. TypeOK'
  BY <1>0, <1>2, IdleTypes DEF TypeOK, StoreTyped, Doc, originVars
<1>4. OriginInv'
  BY <1>0 DEF OriginInv, originVars
<1>5. Open' = Open /\ Open \subseteq Notice /\ tier.missing \subseteq Notice
  BY <1>0 DEF Open, TypeOK
<1>6. PassInv'
  BY <1>0, <1>2, <1>5 DEF PassInv
<1>7. CountInv'
  BY <1>0, <1>2 DEF CountInv
<1> QED
  BY <1>3, <1>4, <1>6, <1>7

\* The checker's own steps that write nothing: a snapshot is taken, a page
\* fetched, the missing ones judged.
LEMMA TierReadIInv ==
  ASSUME IInv,
         TierStart \/ TierSecondPass \/ \E n \in Notice : TierFetch(n)
  PROVE  IInv'
<1> USE Bounds DEF IInv
<1>0. UNCHANGED <<originVars, store, crawl, misses>>
  BY DEF TierStart, TierSecondPass, TierFetch
<1>1. OriginInv' /\ CountInv'
  BY <1>0 DEF originVars, OriginInv, CountInv
<1>2. SUFFICES TierTyped' /\ failures' \in 0 .. MaxFailures /\ PassInv'
  BY <1>0, <1>1 DEF TypeOK, TierTyped, originVars
<1>3. CASE TierStart
  <2> DEFINE inWindow == {n \in Notice : Stored(n) /\ ~store[n].deleted}
  <2>1. /\ tier' = [tier EXCEPT !.stage = "checking", !.todo = inWindow,
                                !.snapshot = [n \in Notice |-> SnapshotOf(n)],
                                !.missing = {}, !.answered = 0]
        /\ UNCHANGED failures
    BY <1>3 DEF TierStart
  <2>2. [n \in Notice |-> SnapshotOf(n)] \in
          [Notice -> [hash : Derived, fails : 0 .. SoftDeleteAt]]
    BY DEF TypeOK, SnapshotOf
  <2>3. TierTyped'
    BY <2>1, <2>2 DEF TypeOK, TierTyped
  <2>4. /\ tier'.stage = "checking" /\ tier'.missing = {} /\ Open' = inWindow
        /\ \A n \in Notice : tier'.snapshot[n].fails = store[n].fails
    BY <2>1 DEF TypeOK, Open, SnapshotOf
  <2>5. PassInv'
    BY <1>0, <2>4 DEF PassInv
  <2> QED
    BY <2>1, <2>3, <2>5 DEF TypeOK
<1>4. CASE TierSecondPass
  <2>1. /\ tier.stage = "checking" /\ UNCHANGED failures
        /\ \/ tier' = IdleTier
           \/ tier' = [IdleTier EXCEPT !.stage = "second", !.missing = tier.missing]
    BY <1>4 DEF TierSecondPass
  <2>2. /\ TierTyped' /\ tier'.stage \in {"idle", "second"}
        /\ tier'.missing \subseteq tier.missing
    BY <2>1, IdleTypes DEF TypeOK, TierTyped
  <2>3. PassInv'
    BY <1>0, <2>1, <2>2 DEF PassInv, Open
  <2> QED
    BY <2>1, <2>2, <2>3 DEF TypeOK
<1>5. ASSUME NEW n \in Notice, TierFetch(n)
      PROVE  TierTyped' /\ failures' \in 0 .. MaxFailures /\ PassInv'
  <2>1. failures' \in 0 .. MaxFailures
    <3>1. failures \in 0 .. MaxFailures
      BY DEF TypeOK
    <3> QED
      BY <1>5, <3>1, AnswersBounded DEF TierFetch
  <2>2. tier.stage = "checking" /\ n \in tier.todo /\ Open = tier.todo
    BY <1>5 DEF TierFetch, Open
  <2>3. ASSUME tier' = [tier EXCEPT !.todo = @ \ {n}, !.answered = @ + 1]
        PROVE  TierTyped' /\ PassInv'
    <3>1. TierTyped'
      <4>1. tier.todo \ {n} \in SUBSET Notice /\ tier.answered + 1 \in Nat
        BY Typed DEF TierTyped
      <4> QED
        BY <2>3, <4>1, Typed DEF TierTyped
    <3>2. /\ tier'.stage = "checking" /\ tier'.missing = tier.missing
          /\ tier'.snapshot = tier.snapshot /\ Open' = tier.todo \ {n}
      BY <2>2, <2>3 DEF TypeOK, Open
    <3> QED
      BY <1>0, <2>2, <3>1, <3>2 DEF PassInv
  <2>4. ASSUME NEW body \in Fetched \ {NoDetail},
               tier' = [tier EXCEPT !.todo = @ \ {n}, !.answered = @ + 1,
                                    !.stage = "fetched", !.notice = n, !.body = body]
        PROVE  TierTyped' /\ PassInv'
    <3>1. TierTyped'
      <4>1. tier.todo \ {n} \in SUBSET Notice /\ tier.answered + 1 \in Nat
        BY Typed DEF TierTyped
      <4> QED
        BY <2>4, <4>1, Typed DEF TierTyped
    <3>2. /\ tier'.stage = "fetched" /\ tier'.missing = tier.missing /\ tier'.notice = n
          /\ tier'.body # NoDetail /\ tier'.todo = tier.todo \ {n}
          /\ tier'.snapshot = tier.snapshot
      BY <2>2, <2>4 DEF TypeOK
    <3>3. Open' = tier.todo
      BY <2>2, <3>2 DEF Open
    <3> QED
      BY <1>0, <2>2, <3>1, <3>2, <3>3 DEF PassInv
  <2>5. ASSUME tier' = [tier EXCEPT !.todo = @ \ {n}, !.missing = @ \cup {n}]
        PROVE  TierTyped' /\ PassInv'
    <3>1. TierTyped'
      BY <2>5 DEF TypeOK, TierTyped
    <3>2. /\ tier'.stage = "checking" /\ tier'.missing = tier.missing \cup {n}
          /\ tier'.snapshot = tier.snapshot /\ Open' = tier.todo \ {n}
      BY <2>2, <2>5 DEF TypeOK, Open
    <3> QED
      BY <1>0, <2>2, <3>1, <3>2 DEF PassInv
  <2> QED
    BY <1>5, <2>1, <2>3, <2>4, <2>5 DEF TierFetch
<1> QED
  BY <1>3, <1>4, <1>5

\* The write that ends a check that found the page: the failure count is
\* cleared, whatever else is written.
LEMMA TierWriteIInv ==
  ASSUME IInv, TierWrite
  PROVE  IInv'
<1> USE Bounds DEF IInv
<1> DEFINE n == tier.notice
<1>0. /\ UNCHANGED <<originVars, crawl, failures>>
      /\ tier.stage = "fetched" /\ n \in Notice
      /\ tier' = [tier EXCEPT !.stage = "checking", !.notice = NoNotice, !.body = NoDetail]
  BY DEF TierWrite, KeepVanished, BackfillHash, KeepUnchanged, WriteChanged, Checked, TypeOK
<1>1. TierTyped'
  BY <1>0, NoNoticeType DEF TypeOK, TierTyped, Fetched
<1>2. /\ tier'.stage = "checking" /\ tier'.missing = tier.missing
      /\ tier'.snapshot = tier.snapshot /\ Open = tier.todo \cup {n} /\ Open' = tier.todo
      /\ n \notin tier.todo /\ n \notin tier.missing
      /\ ~store[n].deleted /\ store[n].fails = tier.snapshot[n].fails
  BY <1>0 DEF TypeOK, Open, PassInv
<1>3. BodyOf(tier.body) \in StorableBody /\ NewHash \in Derived
  BY DerivedTypes DEF TypeOK, NewHash
<1>4. /\ StoreTyped' /\ misses' \in [Notice -> Nat]
      /\ \A m \in Notice : store'[m].deleted = store[m].deleted
      /\ \A m \in Notice \ {n} : store'[m].fails = store[m].fails /\ misses'[m] = misses[m]
      /\ (store'[n].fails = store[n].fails /\ misses'[n] = misses[n]) \/ store'[n].fails = 0
  <2>0. StoreTyped /\ misses \in [Notice -> Nat] /\ 0 \in 0 .. SoftDeleteAt
    BY Typed DEF TypeOK, SoftDeleteAt
  <2>1. CASE KeepVanished
    BY <2>0, <2>1 DEF KeepVanished, StoreTyped
  <2>2. CASE BackfillHash
    <3> DEFINE doc == [store[n] EXCEPT !.hash = NewHash, !.fails = 0]
    <3>1. store' = [store EXCEPT ![n] = doc] /\ misses' = [misses EXCEPT ![n] = 0]
      BY <1>0, <2>0, <2>2 DEF BackfillHash, StoreTyped, Doc
    <3>2. doc \in Doc /\ doc.fails = 0 /\ doc.deleted = store[n].deleted
      BY <1>0, <1>3, <2>0 DEF StoreTyped, Doc
    <3> HIDE DEF doc
    <3> QED
      BY <1>0, <2>0, <3>1, <3>2, StoreWrite
  <2>3. CASE KeepUnchanged
    <3>1. misses' = [misses EXCEPT ![n] = 0]
      BY <2>3 DEF KeepUnchanged
    <3>2. CASE tier.snapshot[n].fails > 0
      <4> DEFINE doc == [store[n] EXCEPT !.fails = 0]
      <4>1. store' = [store EXCEPT ![n] = doc]
        BY <1>0, <2>0, <2>3, <3>2 DEF KeepUnchanged, StoreTyped, Doc
      <4>2. doc \in Doc /\ doc.fails = 0 /\ doc.deleted = store[n].deleted
        BY <1>0, <2>0 DEF StoreTyped, Doc
      <4> HIDE DEF doc
      <4> QED
        BY <1>0, <2>0, <3>1, <4>1, <4>2, StoreWrite
    <3>3. CASE ~(tier.snapshot[n].fails > 0)
      <4>1. store' = store
        BY <2>3, <3>3 DEF KeepUnchanged
      <4>2. store[n].fails \in 0 .. 3
        BY <1>0, <2>0 DEF StoreTyped, Doc, SoftDeleteAt
      <4>3. store[n].fails = 0
        BY <1>2, <3>3, <4>2
      <4> QED
        BY <1>0, <2>0, <3>1, <4>1, <4>3 DEF StoreTyped
    <3> QED
      BY <3>2, <3>3
  <2>4. CASE WriteChanged
    <3> DEFINE doc == [store[n] EXCEPT !.body = BodyOf(tier.body), !.hash = NewHash,
                                       !.fails = 0]
    <3>1. store' = [store EXCEPT ![n] = doc] /\ misses' = [misses EXCEPT ![n] = 0]
      BY <1>0, <2>0, <2>4 DEF WriteChanged, StoreTyped, Doc
    <3>2. doc \in Doc /\ doc.fails = 0 /\ doc.deleted = store[n].deleted
      BY <1>0, <1>3, <2>0 DEF StoreTyped, Doc
    <3> HIDE DEF doc
    <3> QED
      BY <1>0, <2>0, <3>1, <3>2, StoreWrite
  <2> QED
    BY <2>1, <2>2, <2>3, <2>4 DEF TierWrite
<1>5. TypeOK' /\ OriginInv'
  BY <1>0, <1>1, <1>4 DEF TypeOK, TierTyped, StoreTyped, Doc, OriginInv, originVars
<1>6. PassInv'
  BY <1>0, <1>2, <1>4 DEF PassInv, TypeOK
<1>7. CountInv'
  <2>1. /\ store'[n].fails <= misses'[n]
        /\ store'[n].deleted <=> store'[n].fails = SoftDeleteAt
    <3>1. misses'[n] \in Nat /\ ~store'[n].deleted /\ store[n].fails # SoftDeleteAt
      BY <1>0, <1>2, <1>4 DEF CountInv
    <3>2. store[n].fails <= misses[n]
      BY <1>0 DEF CountInv
    <3> QED
      BY <1>4, <3>1, <3>2 DEF SoftDeleteAt
  <2> QED
    BY <1>4, <2>1 DEF CountInv
<1> QED
  BY <1>5, <1>6, <1>7

\* A 404 verdict: the miss is counted, and the third deletes.
LEMMA TierMissIInv ==
  ASSUME IInv, NEW n \in Notice, TierMiss(n)
  PROVE  IInv'
<1> USE Bounds DEF IInv
<1>0. /\ UNCHANGED <<originVars, crawl, failures>>
      /\ tier.stage = "second" /\ n \in tier.missing
      /\ store' = [store EXCEPT ![n].fails = @ + 1,
                                ![n].deleted = @ \/ store[n].fails + 1 >= SoftDeleteAt]
      /\ misses' = [misses EXCEPT ![n] = @ + 1]
  BY DEF TierMiss
<1>1. ~store[n].deleted /\ store[n].fails \in 0 .. 2
  BY <1>0 DEF PassInv, CountInv, TypeOK, SoftDeleteAt
<1>2. /\ StoreTyped' /\ misses' \in [Notice -> Nat]
      /\ \A m \in Notice \ {n} : store'[m] = store[m] /\ misses'[m] = misses[m]
      /\ store'[n].fails = store[n].fails + 1 /\ misses'[n] = misses[n] + 1
      /\ store'[n].deleted <=> store[n].fails + 1 >= SoftDeleteAt
  <2>0. StoreTyped /\ misses \in [Notice -> Nat]
    BY Typed DEF TypeOK
  <2> DEFINE doc == [store[n] EXCEPT !.fails = @ + 1,
                                     !.deleted = @ \/ store[n].fails + 1 >= SoftDeleteAt]
  <2>1. store' = [store EXCEPT ![n] = doc]
    BY <1>0, <2>0 DEF StoreTyped, Doc
  <2>2. store[n].fails + 1 \in 0 .. SoftDeleteAt
    BY <1>1 DEF SoftDeleteAt
  <2>3. /\ doc \in Doc /\ doc.fails = store[n].fails + 1
        /\ doc.deleted <=> store[n].fails + 1 >= SoftDeleteAt
    BY <1>1, <2>0, <2>2 DEF StoreTyped, Doc
  <2> HIDE DEF doc
  <2>4. misses[n] + 1 \in Nat
    BY <2>0
  <2>5. misses' \in [Notice -> Nat] /\ misses'[n] = misses[n] + 1
    BY <1>0, <2>0, <2>4
  <2>6. StoreTyped' /\ store'[n] = doc /\ \A m \in Notice \ {n} : store'[m] = store[m]
    BY <2>0, <2>1, <2>3, StoreWrite
  <2> QED
    BY <1>0, <2>0, <2>3, <2>5, <2>6
<1>3. \/ tier.missing = {n} /\ tier' = IdleTier
      \/ tier' = [tier EXCEPT !.missing = @ \ {n}]
  BY <1>0 DEF TierMiss
<1>4. /\ TierTyped' /\ tier'.stage \in {"idle", "second"}
      /\ tier'.missing = tier.missing \ {n}
  BY <1>0, <1>3, Typed, IdleTypes DEF TierTyped
<1>5. TypeOK' /\ OriginInv'
  BY <1>0, <1>2, <1>4 DEF TypeOK, TierTyped, StoreTyped, Doc, OriginInv, originVars
<1>6. PassInv'
  BY <1>0, <1>2, <1>4 DEF PassInv, TypeOK, Open
<1>7. CountInv'
  BY <1>1, <1>2 DEF CountInv, TypeOK, SoftDeleteAt
<1> QED
  BY <1>5, <1>6, <1>7

\* A pass or a crawl step is dropped: the store is as it was.
LEMMA AbortIInv ==
  ASSUME IInv, Abort
  PROVE  IInv'
<1> USE Bounds DEF IInv
<1>0. /\ UNCHANGED <<originVars, store, misses>> /\ failures' \in 0 .. MaxFailures
      /\ \/ tier' = IdleTier /\ UNCHANGED crawl
         \/ crawl' = IdleCrawl /\ UNCHANGED tier
  BY DEF Abort, TypeOK
<1>1. OriginInv' /\ CountInv'
  BY <1>0 DEF OriginInv, CountInv, originVars
<1>2. CASE tier' = IdleTier /\ UNCHANGED crawl
  <2>1. TierTyped'
    BY <1>2, IdleTypes DEF TierTyped
  <2>2. PassInv'
    BY <1>2, IdleTypes DEF PassInv, Open
  <2> QED
    BY <1>0, <1>1, <1>2, <2>1, <2>2 DEF TypeOK, TierTyped, originVars
<1>3. CASE crawl' = IdleCrawl /\ UNCHANGED tier
  <2>1. CrawlTyped'
    BY <1>3, IdleTypes DEF CrawlTyped
  <2>2. PassInv'
    BY <1>0, <1>3 DEF PassInv, Open
  <2> QED
    BY <1>0, <1>1, <1>3, <2>1, <2>2 DEF TypeOK, CrawlTyped, originVars
<1> QED
  BY <1>0, <1>2, <1>3

\* Every step keeps the invariant.
LEMMA StepIInv == IInv /\ [Next]_vars => IInv'
<1> SUFFICES ASSUME IInv, [Next]_vars PROVE IInv'
  OBVIOUS
<1>1. CASE UNCHANGED vars
  BY <1>1 DEF vars, IInv, TypeOK, OriginInv, PassInv, CountInv, Open
<1>2. CASE Next
  BY <1>2, OriginIInv, CrawlReadIInv, CrawlWriteIInv, TierReadIInv, TierWriteIInv,
     TierMissIInv, AbortIInv DEF Next, CrawlWork, Tier
<1> QED
  BY <1>1, <1>2

\* So it always holds.
LEMMA Inductive == Spec => []IInv
BY InitIInv, StepIInv, PTL DEF Spec

\* Type correctness: the failure count of a notice never passes the limit.
THEOREM TierTwoTypeOK == Spec => []TypeOK
<1>1. IInv => TypeOK
  BY DEF IInv
<1> QED
  BY <1>1, Inductive, PTL

\* A notice is soft-deleted only after three 404 verdicts, and no check between
\* them found a page that it could compare or write, for any notices, edits,
\* outages and failures: the crawl writes no count, and a pass clears or raises
\* the one it read.
THEOREM DeletionSafety == Spec => []SoftDeleteNeedsThreeMisses
<1>1. IInv => SoftDeleteNeedsThreeMisses
  BY DEF IInv, TypeOK, CountInv, SoftDeleteNeedsThreeMisses, SoftDeleteAt
<1> QED
  BY <1>1, Inductive, PTL

\* The pass takes up no deleted notice, and between its snapshot of a notice
\* and its write nobody else touches the failure count: clearing the count by
\* the snapshot's copy is as good as clearing it by the stored one.
THEOREM SnapshotCountIsCurrent == Spec => []PassInv
<1>1. IInv => PassInv
  BY DEF IInv
<1> QED
  BY <1>1, Inductive, PTL

\* A step that ends a check keeps a stored body, unless the size guard drops it.
LEMMA StepKeepsBody ==
  ASSUME IInv, [Next]_vars, NEW n \in Notice,
         tier.stage = "fetched", tier'.stage # "fetched", store[n].body \in Version
  PROVE  store'[n].body \in Version \/ tier.body = Huge
<1>1. CASE UNCHANGED store
  BY <1>1
<1>2. CASE BackfillHash \/ KeepUnchanged
  <2>1. \A m \in Notice : store'[m].body = store[m].body
    BY <1>2, Typed DEF BackfillHash, KeepUnchanged, IInv, StoreTyped, Doc
  <2> QED
    BY <2>1
<1>3. CASE WriteChanged
  <2>1. NewHash # None \/ tier.body = Huge
    BY <1>3 DEF WriteChanged, ContentVanished
  <2>2. CASE NewHash # None
    <3>1. tier.body \in Version /\ BodyOf(tier.body) = tier.body
      BY <2>2 DEF NewHash, HashOf, BodyOf, StorableBody
    <3> QED
      BY <1>3, <3>1 DEF WriteChanged, IInv, TypeOK
  <2> QED
    BY <2>1, <2>2
<1> QED
  <2>1. CASE tier' = tier
    BY <2>1
  <2>2. CASE Tier \/ Abort
    BY <1>1, <1>2, <1>3, <2>2 DEF Tier, TierWrite, KeepVanished, TierStart, TierSecondPass,
                                  TierFetch, TierMiss, Abort
  <2>3. CASE Origin \/ CrawlWork \/ \E m \in Notice : CrawlPending(m) \/ CrawlRow(m)
    BY <2>1, <2>3 DEF Origin, EditPage, Vanish, Reappear, CrawlWork, CrawlDetail, CrawlRefresh,
                      CrawlStore, CrawlPending, CrawlRow
  <2>4. CASE UNCHANGED vars
    BY <2>1, <2>4 DEF vars
  <2> QED
    BY <2>2, <2>3, <2>4 DEF Next

\* The update checker never blanks a stored body with a page that sanitises to
\* nothing, even one the crawl has written since the snapshot was taken.
THEOREM VanishedSafety == Spec => VanishedBodyIsKept
<1>1. IInv /\ [Next]_vars =>
        [\A n \in Notice :
           tier.stage = "fetched" /\ tier'.stage # "fetched" /\ store[n].body \in Version
             => store'[n].body \in Version \/ tier.body = Huge]_vars
  BY StepKeepsBody
<1> QED
  BY <1>1, Inductive, PTL DEF Spec, VanishedBodyIsKept

-----------------------------------------------------------------------------
(* The outage of a whole site.                                             *)

\* A page disappears alone or with its whole site.
OneOrWhole == \A group \in GoneSets : group = Notice \/ \E m \in Notice : group = {m}

\* A pass has taken up as many notices as the share of missing pages is judged
\* from.  The code's least number is five.
PassIsJudged ==
  tier.stage = "checking" /\ tier.todo = {} =>
    tier.answered + Cardinality(tier.missing) >= MassMin

Calm == vanishings <= 1 /\ failures = 0

\* A notice whose page goes with its whole site has two misses at most: one of
\* the pass that the outage began in, and one of the pass that it ended in.
Spared(n) ==
  /\ store[n].fails <= 2
  /\ n \in tier.missing => store[n].fails <= 1
  /\ SwallowsErrors \/ vanishings = 0 => store[n].fails = 0 /\ n \notin tier.missing
  /\ n \in gone =>
       /\ gone = Notice /\ store[n].fails <= 1
       /\ tier.stage = "checking" /\ tier.answered > 0 => store[n].fails = 0
       /\ tier.stage = "fetched" => store[n].fails = 0
       /\ tier.stage = "second" /\ n \in tier.missing => store[n].fails = 0

OutageInv ==
  /\ vanishings = 0 => gone = {}
  /\ tier.stage = "fetched" => tier.answered > 0
  /\ \A n \in Notice : {n} \notin GoneSets /\ Calm => Spared(n)

\* The crawl and edits of pages leave the pass, the counts and the site alone.
LEMMA OthersKeepCounts ==
  ASSUME IInv,
         \/ CrawlWork \/ UNCHANGED vars
         \/ \E n \in Notice : EditPage(n) \/ CrawlPending(n) \/ CrawlRow(n)
  PROVE  /\ UNCHANGED <<gone, tier, vanishings>> /\ (failures' = 0 => failures = 0)
         /\ \A n \in Notice : store'[n].fails = store[n].fails
<1> USE DEF IInv
<1>0. failures \in Nat /\ StoreTyped
  BY Typed, Bounds DEF TypeOK
<1>1. CASE UNCHANGED store
  <2>1. UNCHANGED <<gone, tier, vanishings>>
    BY <1>1 DEF CrawlWork, CrawlDetail, CrawlRefresh, CrawlStore, EditPage, CrawlPending,
                CrawlRow, originVars, vars
  <2>2. failures' \in {failures, failures + 1}
    BY <1>1 DEF CrawlWork, CrawlDetail, CrawlRefresh, CrawlStore, EditPage, CrawlPending,
                CrawlRow, Answers, vars
  <2> QED
    BY <1>0, <1>1, <2>1, <2>2
<1>2. CASE CrawlRefresh \/ CrawlStore
  <2>1. UNCHANGED <<gone, tier, vanishings, failures>>
    BY <1>2 DEF CrawlRefresh, CrawlStore, originVars
  <2>2. \A n \in Notice : store'[n].fails = store[n].fails
    BY <1>0, <1>2 DEF CrawlRefresh, CrawlStore, StoreTyped, Doc
  <2> QED
    BY <2>1, <2>2
<1> QED
  BY <1>1, <1>2 DEF CrawlWork, CrawlDetail, EditPage, CrawlPending, CrawlRow, vars

\* They keep what is known of the outage.
LEMMA OthersKeepOutage ==
  ASSUME IInv, OutageInv,
         \/ CrawlWork \/ UNCHANGED vars
         \/ \E n \in Notice : EditPage(n) \/ CrawlPending(n) \/ CrawlRow(n)
  PROVE  OutageInv'
<1>1. /\ UNCHANGED <<gone, tier, vanishings>> /\ (failures' = 0 => failures = 0)
      /\ \A n \in Notice : store'[n].fails = store[n].fails
  BY OthersKeepCounts
<1> QED
  BY <1>1 DEF OutageInv, Calm, Spared

\* A site that is not out yet has no misses; a site that is back makes no more.
LEMMA OutageBeginsAndEnds ==
  ASSUME IInv, OutageInv, OneOrWhole, Vanish \/ Reappear
  PROVE  OutageInv'
<1>0. UNCHANGED <<store, tier, failures>> /\ vanishings \in Nat
  BY Bounds DEF Vanish, Reappear, IInv, TypeOK
<1>1. CASE Vanish
  <2>1. PICK group \in GoneSets : gone' = gone \cup group
    BY <1>1 DEF Vanish
  <2>2. vanishings' = vanishings + 1
    BY <1>1 DEF Vanish
  <2>3. ASSUME NEW n \in Notice, {n} \notin GoneSets, Calm'
        PROVE  Spared(n)'
    <3>1. vanishings = 0 /\ Calm /\ gone = {}
      BY <1>0, <2>2, <2>3 DEF Calm, OutageInv
    <3>2. Spared(n) /\ store[n].fails = 0 /\ n \notin tier.missing
      BY <2>3, <3>1 DEF OutageInv, Spared
    <3>3. n \in gone' => gone' = Notice
      BY <2>1, <2>3, <3>1 DEF OneOrWhole
    <3> QED
      BY <1>0, <3>2, <3>3 DEF Spared
  <2> QED
    BY <1>0, <2>2, <2>3 DEF OutageInv
<1>2. CASE Reappear
  <2>1. gone' = {} /\ vanishings' = vanishings
    BY <1>2 DEF Reappear
  <2> QED
    BY <1>0, <2>1 DEF OutageInv, Calm, Spared
<1> QED
  BY <1>1, <1>2

\* A pass that begins in the outage finds nothing but missing pages.
LEMMA FetchKeepsOutage ==
  ASSUME IInv, OutageInv, NEW k \in Notice, TierFetch(k)
  PROVE  OutageInv'
<1>0. /\ UNCHANGED <<gone, vanishings, store>> /\ tier.stage = "checking"
      /\ TierTyped /\ tier.answered \in Nat /\ failures \in Nat
  <2>1. TierTyped /\ tier.answered \in Nat
    BY Typed DEF IInv, TypeOK
  <2>2. failures \in Nat
    BY Bounds DEF IInv, TypeOK
  <2> QED
    BY <2>1, <2>2 DEF TierFetch, originVars
<1>1. ASSUME NEW body \in Fetched, Answers(k, body),
             tier' = IF body = NoDetail
                     THEN [tier EXCEPT !.todo = @ \ {k}, !.answered = @ + 1]
                     ELSE [tier EXCEPT !.todo = @ \ {k}, !.answered = @ + 1,
                                       !.stage = "fetched", !.notice = k,
                                       !.body = body]
      PROVE  OutageInv'
  <2>1. /\ tier'.missing = tier.missing /\ tier'.answered = tier.answered + 1
        /\ tier'.stage \in {"checking", "fetched"}
    BY <1>0, <1>1 DEF TierTyped
  <2>2. failures' \in {failures, failures + 1}
    BY <1>1 DEF Answers
  <2>3. ASSUME NEW n \in Notice, {n} \notin GoneSets, Calm'
        PROVE  Spared(n)'
    <3>1. Calm /\ Spared(n) /\ failures' = failures
      BY <1>0, <2>2, <2>3 DEF Calm, OutageInv
    <3>2. n \in gone => store[n].fails = 0
      <4>1. k \in gone => SwallowsErrors
        BY <1>0, <1>1, <3>1 DEF Answers
      <4> QED
        BY <3>1, <4>1 DEF Spared
    <3> QED
      BY <1>0, <2>1, <3>1, <3>2 DEF Spared
  <2> QED
    BY <1>0, <2>1, <2>3 DEF OutageInv
<1>2. ASSUME k \in gone, ~SwallowsErrors, failures' = failures,
             tier' = [tier EXCEPT !.todo = @ \ {k}, !.missing = @ \cup {k}]
      PROVE  OutageInv'
  <2>1. /\ tier'.missing = tier.missing \cup {k} /\ tier'.answered = tier.answered
        /\ tier'.stage = "checking"
    BY <1>0, <1>2 DEF TierTyped
  <2>2. ASSUME NEW n \in Notice, {n} \notin GoneSets, Calm'
        PROVE  Spared(n)'
    <3>1. Calm /\ Spared(n)
      BY <1>0, <1>2, <2>2 DEF Calm, OutageInv
    <3>2. vanishings # 0
      BY <1>2 DEF OutageInv
    <3>3. n \in gone => store[n].fails <= 1
      BY <3>1 DEF Spared
    <3> QED
      BY <1>0, <1>2, <2>1, <3>1, <3>2, <3>3 DEF Spared
  <2> QED
    BY <1>0, <2>1, <2>2 DEF OutageInv
<1> QED
  BY <1>1, <1>2 DEF TierFetch

\* A pass that has found nothing but missing pages is judged and counts none.
LEMMA JudgedInOutage ==
  ASSUME IInv, OutageInv, PassIsJudged, IsFiniteSet(Notice), TierSecondPass
  PROVE  OutageInv'
<1>0. /\ UNCHANGED <<gone, vanishings, store, failures>>
      /\ tier.stage = "checking" /\ tier.todo = {}
      /\ TierTyped /\ tier.answered \in Nat /\ IsFiniteSet(tier.missing)
  BY Typed, FS_Subset DEF TierSecondPass, originVars, IInv, TypeOK
<1>1. /\ tier'.missing \subseteq tier.missing
      /\ tier'.stage = IF Mass404 \/ tier.missing = {} THEN "idle" ELSE "second"
  BY <1>0, IdleTypes DEF TierSecondPass
<1>2. tier.answered = 0 => tier'.stage = "idle"
  <2> SUFFICES ASSUME tier.answered = 0, tier.missing # {} PROVE Mass404
    BY <1>1
  <2> DEFINE missing == Cardinality(tier.missing)
  <2>1. missing \in Nat /\ missing # 0
    BY <1>0, FS_CardinalityType, FS_EmptySet
  <2>2. tier.answered + missing >= MassMin
    BY <1>0 DEF PassIsJudged
  <2> HIDE DEF missing
  <2>3. 2 * missing > tier.answered + missing
    BY <2>1
  <2> QED
    BY <2>2, <2>3 DEF Mass404, missing
<1>3. ASSUME NEW n \in Notice, {n} \notin GoneSets, Calm'
      PROVE  Spared(n)'
  <2>1. Spared(n)
    BY <1>0, <1>3 DEF Calm, OutageInv
  <2>2. n \in gone /\ tier'.stage = "second" => store[n].fails = 0
    BY <1>0, <1>2, <2>1 DEF Spared
  <2> QED
    BY <1>0, <1>1, <2>1, <2>2 DEF Spared
<1> QED
  BY <1>0, <1>1, <1>3 DEF OutageInv

\* The rest of a pass: it begins, clears counts, or counts its misses.
LEMMA PassKeepsOutage ==
  ASSUME IInv, OutageInv, TierStart \/ TierWrite \/ \E k \in Notice : TierMiss(k)
  PROVE  OutageInv'
<1>0. /\ UNCHANGED <<gone, vanishings, failures>> /\ TierTyped /\ StoreTyped
      /\ tier.answered \in Nat
  BY Typed DEF TierStart, TierWrite, TierMiss, KeepVanished, BackfillHash, KeepUnchanged,
               WriteChanged, originVars, IInv, TypeOK
<1>1. CASE TierStart
  <2>1. tier'.missing = {} /\ tier'.answered = 0 /\ tier'.stage = "checking" /\ store' = store
    BY <1>0, <1>1 DEF TierStart, TierTyped
  <2> QED
    BY <1>0, <2>1 DEF OutageInv, Calm, Spared
<1>2. CASE TierWrite
  <2>1. /\ tier.stage = "fetched" /\ tier'.stage = "checking"
        /\ tier'.missing = tier.missing /\ tier'.answered = tier.answered
    BY <1>0, <1>2 DEF TierWrite, KeepVanished, BackfillHash, KeepUnchanged, WriteChanged,
                      Checked, TierTyped
  <2>2. \A n \in Notice : store'[n].fails \in {store[n].fails, 0}
    BY <1>0, <1>2 DEF TierWrite, KeepVanished, BackfillHash, KeepUnchanged, WriteChanged,
                      StoreTyped, Doc
  <2>3. ASSUME NEW n \in Notice, {n} \notin GoneSets, Calm'
        PROVE  Spared(n)'
    <3>1. Spared(n)
      BY <1>0, <2>3 DEF Calm, OutageInv
    <3>2. store'[n].fails = store[n].fails \/ store'[n].fails = 0
      BY <2>2
    <3> QED
      BY <1>0, <2>1, <3>1, <3>2 DEF Spared
  <2> QED
    BY <1>0, <2>1, <2>3 DEF OutageInv
<1>3. ASSUME NEW k \in Notice, TierMiss(k)
      PROVE  OutageInv'
  <2>1. /\ tier.stage = "second" /\ k \in tier.missing
        /\ tier'.missing = tier.missing \ {k} /\ tier'.stage \in {"second", "idle"}
    BY <1>0, <1>3, IdleTypes DEF TierMiss, TierTyped
  <2>2. /\ store'[k].fails = store[k].fails + 1
        /\ \A n \in Notice \ {k} : store'[n] = store[n]
    <3> DEFINE doc == [store[k] EXCEPT !.fails = @ + 1,
                                       !.deleted = @ \/ store[k].fails + 1 >= SoftDeleteAt]
    <3>1. store' = [store EXCEPT ![k] = doc]
      BY <1>0, <1>3 DEF TierMiss, StoreTyped, Doc
    <3>2. doc.fails = store[k].fails + 1
      BY <1>0 DEF StoreTyped, Doc
    <3> HIDE DEF doc
    <3> QED
      BY <1>0, <3>1, <3>2 DEF StoreTyped
  <2>3. ASSUME NEW n \in Notice, {n} \notin GoneSets, Calm'
        PROVE  Spared(n)'
    <3>1. Spared(n) /\ store[n].fails \in Nat
      BY <1>0, <2>3 DEF Calm, OutageInv, StoreTyped, Doc
    <3>2. CASE n = k
      BY <1>0, <2>1, <2>2, <3>1, <3>2 DEF Spared
    <3>3. CASE n # k
      BY <1>0, <2>1, <2>2, <3>1, <3>3 DEF Spared
    <3> QED
      BY <3>2, <3>3
  <2> QED
    BY <1>0, <2>1, <2>3 DEF OutageInv
<1> QED
  BY <1>1, <1>2, <1>3

\* A failure ends the calm.
LEMMA AbortKeepsOutage ==
  ASSUME IInv, OutageInv, Abort
  PROVE  OutageInv'
<1>1. failures' # 0 /\ UNCHANGED <<gone, vanishings>>
  BY Bounds DEF Abort, originVars, IInv, TypeOK
<1>2. tier'.stage = "fetched" => tier' = tier
  BY IdleTypes DEF Abort
<1> QED
  BY <1>1, <1>2 DEF OutageInv, Calm

\* Every step keeps what is known of the outage.
LEMMA OutageStep ==
  ASSUME IInv, OutageInv, PassIsJudged, OneOrWhole, IsFiniteSet(Notice), [Next]_vars
  PROVE  OutageInv'
BY OthersKeepOutage, OutageBeginsAndEnds, FetchKeepsOutage, JudgedInOutage,
   PassKeepsOutage, AbortKeepsOutage DEF Next, Tier, Origin

\* One move of a whole site deletes nothing, for any notices, edits, and order of
\* crawl and passes, as long as every pass takes up enough notices for the share
\* of missing pages to be judged: a pass that began in the outage is judged, and
\* the two that saw a part of it leave each notice one miss short of the limit.
THEOREM OutageSafety ==
  ASSUME OneOrWhole, IsFiniteSet(Notice)
  PROVE  Spec /\ []PassIsJudged => []OutageDeletesNothing
<1>1. Init => OutageInv
  <2> SUFFICES ASSUME Init PROVE OutageInv
    OBVIOUS
  <2> QED
    BY IdleTypes DEF Init, OutageInv, Spared, NoDoc
<1>2. IInv /\ OutageInv /\ PassIsJudged /\ [Next]_vars => OutageInv'
  BY OutageStep
<1>3. IInv /\ OutageInv => OutageDeletesNothing
  BY DEF IInv, CountInv, OutageInv, OutageDeletesNothing, Calm, Spared, SoftDeleteAt
<1> QED
  BY <1>1, <1>2, <1>3, Inductive, PTL DEF Spec
=============================================================================
