--------------------------- MODULE BusPollerProofs ---------------------------
(* What a tick of a bus poller reports, what it publishes, and how long the *)
(* clock of a station runs, for any pollers and any upstream.               *)
EXTENDS BusPoller, SequenceTheorems, FiniteSetTheorems, TLAPS

TickTypeOK ==
  /\ poller \in Pollers
  /\ stage \in {"idle", "fetching", "storing", "reporting"}
  /\ at \in DOMAIN poller
  /\ leg \in 1 .. Document.legs
  /\ errors \in BOOLEAN /\ down \in BOOLEAN /\ failed \in BOOLEAN

AccountedFor(i) == poller[i].doc \in fresh \cup quiet \/ errors

\* Every document behind the present one is accounted for, every leg behind the
\* present one was answered, or there is an error to report.
TickProgress ==
  /\ stage \in {"fetching", "storing"} => \A i \in 1 .. at - 1 : AccountedFor(i)
  /\ stage = "fetching" =>
       \A l \in 1 .. leg - 1 : <<Document.doc, l>> \in answered \/ errors
  /\ stage = "storing" => LegsOf(at) \subseteq answered
  /\ errors => failed

TickInv ==
  /\ TickTypeOK
  /\ TickProgress
  /\ NoHalfDocument
  /\ UpMeansAccountedFor
  /\ DownMeansFailure

\* The facts about a poller that the steps use.
LEMMA PollerFacts ==
  ASSUME TickTypeOK
  PROVE  /\ DOMAIN poller = 1 .. Len(poller) /\ Len(poller) \in Nat \ {0}
         /\ \A i \in DOMAIN poller : poller[i].legs \in Nat \ {0}
         /\ \A i, j \in DOMAIN poller : poller[i].doc = poller[j].doc => i = j
<1>1. poller \in Seq(DocumentType) /\ poller # <<>>
  BY PollersAssumption DEF TickTypeOK
<1>2. DOMAIN poller = 1 .. Len(poller) /\ Len(poller) \in Nat \ {0}
  BY <1>1
<1>3. \A i \in DOMAIN poller : poller[i] \in DocumentType
  BY <1>1
<1>4. QED
  BY <1>2, <1>3, PollersAssumption DEF TickTypeOK, DocumentType

\* A tick has not begun.
LEMMA TickInit == Init => TickInv
<1>1. SUFFICES ASSUME Init PROVE TickInv
  OBVIOUS
<1>2. poller \in Seq(DocumentType) /\ poller # <<>>
  BY <1>1, PollersAssumption DEF Init
<1>3. DOMAIN poller = 1 .. Len(poller) /\ Len(poller) \in Nat \ {0}
  BY <1>2
<1>4. poller[1] \in DocumentType
  BY <1>2, <1>3
<1>5. 1 \in DOMAIN poller /\ poller[1].legs \in Nat \ {0}
  BY <1>3, <1>4 DEF DocumentType
<1>6. TickTypeOK
  <2>1. at = 1 /\ leg = 1 /\ at \in DOMAIN poller /\ leg \in 1 .. poller[at].legs
    BY <1>1, <1>5 DEF Init
  <2>2. QED
    BY <1>1, <2>1 DEF Init, TickTypeOK, Document
<1>7. QED
  BY <1>1, <1>6 DEF Init, TickInv, TickProgress, NoHalfDocument,
    UpMeansAccountedFor, DownMeansFailure

\* The end of a document: what is to be known of the tick when it is over.
LEMMA NextDocumentKeeps ==
  ASSUME TickInv, NextDocument, UNCHANGED poller,
         stage \in {"fetching", "storing"},
         fresh \subseteq fresh', quiet \subseteq quiet',
         errors' \in BOOLEAN, failed' \in BOOLEAN,
         errors => errors', errors' => failed',
         poller[at].doc \in fresh' \cup quiet' \/ errors', NoHalfDocument'
  PROVE  TickInv'
<1>1. /\ DOMAIN poller = 1 .. Len(poller) /\ Len(poller) \in Nat \ {0}
      /\ \A i \in DOMAIN poller : poller[i].legs \in Nat \ {0}
  BY PollerFacts DEF TickInv
<1>2. at \in 1 .. Len(poller) /\ poller' = poller
  BY <1>1 DEF TickInv, TickTypeOK
<1>3. \A i \in 1 .. at : poller[i].doc \in fresh' \cup quiet' \/ errors'
  <2>1. \A i \in 1 .. at - 1 : poller[i].doc \in fresh \cup quiet \/ errors
    BY DEF TickInv, TickProgress, AccountedFor
  <2>2. \A i \in 1 .. at : i \in 1 .. at - 1 \/ i = at
    BY <1>1, <1>2
  <2>3. QED
    BY <2>1, <2>2
<1>4. CASE at < Len(poller)
  <2>1. stage' = "fetching" /\ at' = at + 1 /\ leg' = 1 /\ down' = down
    BY <1>4 DEF NextDocument
  <2>2. TickTypeOK'
    BY <1>1, <1>2, <1>4, <2>1 DEF TickInv, TickTypeOK, Document
  <2>3. \A i \in 1 .. at' - 1 : AccountedFor(i)'
    BY <1>1, <1>2, <1>3, <2>1 DEF AccountedFor
  <2>4. TickProgress'
    BY <2>1, <2>3 DEF TickProgress
  <2>5. QED
    BY <2>1, <2>2, <2>4 DEF TickInv, UpMeansAccountedFor, DownMeansFailure
<1>5. CASE ~(at < Len(poller))
  <2>1. stage' = "reporting" /\ down' = errors' /\ at' = at /\ leg' = leg
    BY <1>5 DEF NextDocument
  <2>2. TickTypeOK'
    BY <1>2, <2>1 DEF TickInv, TickTypeOK, Document
  <2>3. TickProgress'
    BY <2>1 DEF TickProgress
  <2>4. UpMeansAccountedFor'
    <3>1. SUFFICES ASSUME ~errors', NEW d \in Doc
                   PROVE  d \in fresh' \cup quiet'
      BY <1>2, <2>1 DEF UpMeansAccountedFor, Doc
    <3>2. PICK i \in DOMAIN poller : d = poller[i].doc
      BY DEF Doc
    <3>3. i \in 1 .. at
      BY <1>1, <1>2, <1>5, <3>2
    <3>4. QED
      BY <1>3, <3>1, <3>2, <3>3
  <2>5. DownMeansFailure'
    BY <2>1 DEF DownMeansFailure
  <2>6. QED
    BY <2>2, <2>3, <2>4, <2>5 DEF TickInv
<1>6. QED
  BY <1>4, <1>5

\* After a leg: the next one, the write, or the next document.
LEMMA NextLegKeeps ==
  ASSUME TickInv, NextLeg, UNCHANGED <<poller, fresh, quiet>>,
         stage = "fetching",
         answered \subseteq answered',
         errors' \in BOOLEAN, failed' \in BOOLEAN,
         errors => errors', errors' => failed', failed => failed',
         <<Document.doc, leg>> \in answered' \/ errors'
  PROVE  TickInv'
<1>1. /\ DOMAIN poller = 1 .. Len(poller) /\ Len(poller) \in Nat \ {0}
      /\ \A i \in DOMAIN poller : poller[i].legs \in Nat \ {0}
  BY PollerFacts DEF TickInv
<1>2. at \in 1 .. Len(poller) /\ leg \in 1 .. poller[at].legs /\ poller' = poller
  BY <1>1 DEF TickInv, TickTypeOK, Document
<1>3. NoHalfDocument'
  BY DEF TickInv, NoHalfDocument, LegsOf
<1>4. \A l \in 1 .. leg : <<Document.doc, l>> \in answered' \/ errors'
  <2>1. \A l \in 1 .. leg - 1 : <<Document.doc, l>> \in answered \/ errors
    BY DEF TickInv, TickProgress
  <2>2. \A l \in 1 .. leg : l \in 1 .. leg - 1 \/ l = leg
    BY <1>1, <1>2
  <2>3. QED
    BY <2>1, <2>2
<1>5. \A i \in 1 .. at - 1 : poller[i].doc \in fresh' \cup quiet' \/ errors'
  BY DEF TickInv, TickProgress, AccountedFor
<1>6. CASE leg < Document.legs
  <2>1. leg' = leg + 1 /\ stage' = "fetching" /\ at' = at /\ down' = down
    BY <1>6 DEF NextLeg
  <2>2. TickTypeOK'
    BY <1>1, <1>2, <1>6, <2>1 DEF TickInv, TickTypeOK, Document
  <2>3. \A l \in 1 .. leg' - 1 : <<Document.doc, l>>' \in answered' \/ errors'
    BY <1>1, <1>2, <1>4, <2>1 DEF Document
  <2>4. TickProgress'
    BY <1>2, <1>5, <2>1, <2>3 DEF TickProgress, AccountedFor
  <2>5. QED
    BY <1>3, <2>1, <2>2, <2>4 DEF TickInv, UpMeansAccountedFor, DownMeansFailure
<1>7. CASE ~(leg < Document.legs) /\ Complete(answered')
  <2>1. stage' = "storing" /\ at' = at /\ leg' = leg /\ down' = down
    BY <1>7 DEF NextLeg
  <2>2. TickTypeOK'
    BY <1>2, <2>1 DEF TickInv, TickTypeOK, Document
  <2>3. LegsOf(at)' \subseteq answered'
    BY <1>2, <1>7, <2>1 DEF Complete, LegsOf
  <2>4. TickProgress'
    BY <1>2, <1>5, <2>1, <2>3 DEF TickProgress, AccountedFor
  <2>5. QED
    BY <1>3, <2>1, <2>2, <2>4 DEF TickInv, UpMeansAccountedFor, DownMeansFailure
<1>8. CASE ~(leg < Document.legs) /\ ~Complete(answered')
  <2>1. errors'
    <3>1. PICK l \in 1 .. poller[at].legs : <<poller[at].doc, l>> \notin answered'
      BY <1>8 DEF Complete, LegsOf
    <3>2. l \in 1 .. leg
      BY <1>1, <1>2, <1>8, <3>1 DEF Document
    <3>3. QED
      BY <1>4, <3>1, <3>2 DEF Document
  <2>2. NextDocument
    BY <1>8 DEF NextLeg
  <2>3. QED
    BY <1>3, <2>1, <2>2, NextDocumentKeeps
<1>9. QED
  BY <1>6, <1>7, <1>8

\* Every step keeps what is known of the tick.
LEMMA TickStep == TickInv /\ [Next]_vars => TickInv'
<1>1. SUFFICES ASSUME TickInv, [Next]_vars PROVE TickInv'
  OBVIOUS
<1>2. /\ DOMAIN poller = 1 .. Len(poller) /\ Len(poller) \in Nat \ {0}
      /\ \A i \in DOMAIN poller : poller[i].legs \in Nat \ {0}
      /\ \A i, j \in DOMAIN poller : poller[i].doc = poller[j].doc => i = j
  BY <1>1, PollerFacts DEF TickInv
<1>3. CASE UNCHANGED <<poller, tick>>
  BY <1>1, <1>3 DEF tick, TickInv, TickTypeOK, TickProgress, AccountedFor,
    NoHalfDocument, UpMeansAccountedFor, DownMeansFailure, Document, Doc, LegsOf
<1>4. CASE BeginTick
  <2>1. TickTypeOK'
    <3>1. at' \in DOMAIN poller' /\ leg' \in 1 .. poller'[at'].legs
      BY <1>2, <1>4 DEF BeginTick
    <3>2. QED
      BY <1>1, <1>4, <3>1 DEF BeginTick, TickInv, TickTypeOK, Document
  <2>2. TickProgress'
    BY <1>4 DEF BeginTick, TickProgress
  <2>3. QED
    BY <1>4, <2>1, <2>2 DEF BeginTick, TickInv, NoHalfDocument,
      UpMeansAccountedFor, DownMeansFailure
<1>5. CASE AnswerData
  BY <1>1, <1>5, NextLegKeeps DEF AnswerData, TickInv, TickTypeOK, TickProgress
<1>6. CASE AnswerFails
  BY <1>1, <1>6, NextLegKeeps DEF AnswerFails, TickInv, TickTypeOK
<1>7. CASE AnswerRest
  <2>1. NoHalfDocument'
    BY <1>1, <1>7 DEF AnswerRest, TickInv, NoHalfDocument, LegsOf
  <2>2. QED
    BY <1>1, <1>7, <2>1, NextDocumentKeeps
      DEF AnswerRest, TickInv, TickTypeOK, TickProgress, Document
<1>8. CASE Store
  <2>1. LegsOf(at) \subseteq answered /\ at \in DOMAIN poller
    BY <1>1, <1>8 DEF Store, TickInv, TickTypeOK, TickProgress
  <2>2. NoHalfDocument'
    BY <1>1, <1>2, <1>8, <2>1 DEF Store, TickInv, NoHalfDocument, LegsOf, Document
  <2>3. QED
    BY <1>1, <1>8, <2>2, NextDocumentKeeps
      DEF Store, TickInv, TickTypeOK, TickProgress, Document
<1>9. CASE StoreFails \/ ParserRaises
  <2>1. Abort /\ poller' = poller
    BY <1>9 DEF StoreFails, ParserRaises
  <2>2. TickTypeOK'
    BY <1>1, <2>1 DEF Abort, TickInv, TickTypeOK, Document
  <2>3. QED
    BY <1>1, <2>1, <2>2 DEF Abort, TickInv, TickProgress, NoHalfDocument,
      UpMeansAccountedFor, DownMeansFailure, LegsOf
<1>10. CASE Report \/ Restart
  <2>1. /\ stage' = "idle"
        /\ UNCHANGED <<poller, at, leg, answered, errors, down, fresh, quiet, failed>>
    BY <1>10 DEF Report, Restart
  <2>2. TickTypeOK'
    BY <1>1, <2>1 DEF TickInv, TickTypeOK, Document
  <2>3. QED
    BY <1>1, <2>1, <2>2 DEF TickInv, TickProgress, NoHalfDocument,
      UpMeansAccountedFor, DownMeansFailure, LegsOf
<1>11. CASE Arrive \/ SeeAgain \/ Leave \/ TimePasses
  BY <1>3, <1>11 DEF Arrive, SeeAgain, Sight, Leave, TimePasses
<1>12. QED
  BY <1>1, <1>3, <1>4, <1>5, <1>6, <1>7, <1>8, <1>9, <1>10, <1>11
    DEF Next, Poll, vars

\* So it is always known.
LEMMA TickInvariant == Spec => []TickInv
BY TickInit, TickStep, PTL DEF Spec

\* A tick reported as up leaves no document unaccounted for.
THEOREM UpReportIsComplete == Spec => []UpMeansAccountedFor
<1>1. TickInv => UpMeansAccountedFor
  BY DEF TickInv
<1>2. QED
  BY <1>1, TickInvariant, PTL

\* A source is reported down only when something failed in the tick.
THEOREM DownReportIsFailure == Spec => []DownMeansFailure
<1>1. TickInv => DownMeansFailure
  BY DEF TickInv
<1>2. QED
  BY <1>1, TickInvariant, PTL

\* No document is written from part of its legs.
THEOREM WrittenInFull == Spec => []NoHalfDocument
<1>1. TickInv => NoHalfDocument
  BY DEF TickInv
<1>2. QED
  BY <1>1, TickInvariant, PTL

-----------------------------------------------------------------------------
(* Rows and ages.                                                          *)

\* Ages are numbers.
LEMMA AgesAreNumbers == Window + 1 \in Nat /\ 0 \in Age /\ Age \subseteq Nat
BY BoundsAssumption DEF Age

\* Time sets no clock back, and none beyond the window.
LEMMA OlderIsLater ==
  ASSUME NEW ages \in Seq(Age)
  PROVE  /\ Older(ages) \in Seq(Age) /\ Len(Older(ages)) = Len(ages)
         /\ ages # <<>> => Older(ages) # <<>> /\ Older(ages)[1] >= ages[1]
<1> DEFINE next(i) == Min({ages[i] + 1, Window + 1})
<1>1. DOMAIN ages = 1 .. Len(ages) /\ Len(ages) \in Nat
  BY Zenon, LenProperties
<1>2. ASSUME NEW i \in 1 .. Len(ages)
      PROVE  next(i) \in Age /\ next(i) >= ages[i]
  <2>1. ages[i] \in Age
    BY <1>1
  <2>2. PICK n \in {ages[i] + 1, Window + 1} : n \in Age /\ n >= ages[i]
           /\ \A m \in {ages[i] + 1, Window + 1} : n <= m
    BY <2>1, BoundsAssumption DEF Age
  <2>3. next(i) \in {ages[i] + 1, Window + 1}
           /\ \A m \in {ages[i] + 1, Window + 1} : next(i) <= m
    BY <2>2 DEF Min
  <2>4. QED
    BY <2>1, <2>3, BoundsAssumption DEF Age
<1>3. Older(ages) = [i \in 1 .. Len(ages) |-> next(i)]
  BY <1>1 DEF Older
<1> HIDE DEF next
<1>4. Older(ages) \in Seq(Age) /\ Len(Older(ages)) = Len(ages)
  BY <1>1, <1>2, <1>3, IsASeq
<1>5. ASSUME ages # <<>>
      PROVE  Older(ages) # <<>> /\ Older(ages)[1] >= ages[1]
  <2>1. 1 \in 1 .. Len(ages)
    BY <1>1, <1>5, EmptySeq
  <2>2. Older(ages)[1] = next(1)
    BY <1>3, <2>1
  <2>3. DOMAIN Older(ages) = 1 .. Len(ages)
    BY <1>3
  <2>4. Older(ages) # <<>>
    BY <2>1, <2>3
  <2>5. QED
    BY <1>2, <2>1, <2>2, <2>4
<1> QED
  BY <1>4, <1>5

\* A row more, a row seen again, a row less.
LEMMA RowsFacts ==
  ASSUME NEW ages \in Seq(Age)
  PROVE  /\ Append(ages, 0) \in Seq(Age) /\ Len(Append(ages, 0)) = Len(ages) + 1
         /\ \A i \in DOMAIN ages :
              /\ [ages EXCEPT ![i] = 0] \in Seq(Age)
              /\ Len([ages EXCEPT ![i] = 0]) = Len(ages)
              /\ RemoveAt(ages, i) \in Seq(Age) /\ Len(RemoveAt(ages, i)) = Len(ages) - 1
<1>1. 0 \in Age
  BY AgesAreNumbers
<1>2. Append(ages, 0) \in Seq(Age) /\ Len(Append(ages, 0)) = Len(ages) + 1
  BY <1>1
<1>3. ASSUME NEW i \in DOMAIN ages
      PROVE  [ages EXCEPT ![i] = 0] \in Seq(Age) /\ Len([ages EXCEPT ![i] = 0]) = Len(ages)
  BY <1>1
<1>4. ASSUME NEW i \in DOMAIN ages
      PROVE  RemoveAt(ages, i) \in Seq(Age) /\ Len(RemoveAt(ages, i)) = Len(ages) - 1
  <2>1. i \in 1 .. Len(ages) /\ Len(ages) \in Nat
    OBVIOUS
  <2>2. /\ SubSeq(ages, 1, i - 1) \in Seq(Age) /\ Len(SubSeq(ages, 1, i - 1)) = i - 1
        /\ SubSeq(ages, i + 1, Len(ages)) \in Seq(Age)
        /\ Len(SubSeq(ages, i + 1, Len(ages))) = Len(ages) - i
    BY <2>1
  <2>3. RemoveAt(ages, i) = SubSeq(ages, 1, i - 1) \o SubSeq(ages, i + 1, Len(ages))
    BY DEF RemoveAt
  <2> HIDE DEF RemoveAt
  <2>4. RemoveAt(ages, i) \in Seq(Age) /\ Len(RemoveAt(ages, i)) = (i - 1) + (Len(ages) - i)
    BY <2>2, <2>3, ConcatProperties
  <2> QED
    BY <2>1, <2>4
<1> QED
  BY <1>2, <1>3, <1>4

Earlier(set, i) == {j \in set : j < i}

\* The places in a finite set of numbers are numbers below its size, and leave
\* none out.
LEMMA PlacesAreTaken ==
  ASSUME NEW set \in SUBSET Nat, IsFiniteSet(set),
         NEW k \in Nat, k < Cardinality(set)
  PROVE  \E i \in set : Cardinality(Earlier(set, i)) = k
<1> DEFINE n == Cardinality(set)
           places == 0 .. n - 1
           place == [i \in set |-> Cardinality(Earlier(set, i))]
<1>1. n \in Nat
  BY FS_CardinalityType
<1>2. IsFiniteSet(places) /\ Cardinality(places) = n
  <2>1. n - 1 \in Int /\ 0 \in Int
    BY <1>1
  <2>2. IsFiniteSet(places) /\ Cardinality(places) = IF 0 > n - 1 THEN 0 ELSE n - 1 - 0 + 1
    BY <2>1, FS_Interval
  <2> QED
    BY <2>2, <1>1
<1>3. ASSUME NEW i \in set
      PROVE  IsFiniteSet(Earlier(set, i)) /\ Cardinality(Earlier(set, i)) \in places
  <2>1. Earlier(set, i) \in SUBSET set /\ i \notin Earlier(set, i)
    BY DEF Earlier
  <2>2. /\ IsFiniteSet(Earlier(set, i)) /\ Cardinality(Earlier(set, i)) <= n
        /\ Cardinality(Earlier(set, i)) # n
    BY <2>1, FS_Subset
  <2>3. Cardinality(Earlier(set, i)) \in Nat
    BY <2>2, FS_CardinalityType
  <2> QED
    BY <1>1, <2>2, <2>3
<1>4. ASSUME NEW i \in set, NEW j \in set, i < j
      PROVE  Cardinality(Earlier(set, i)) # Cardinality(Earlier(set, j))
  <2>0. i \in Nat /\ j \in Nat /\ \A k1 \in set : k1 \in Nat
    OBVIOUS
  <2>1. ASSUME NEW k1 \in Earlier(set, i)
        PROVE  k1 \in Earlier(set, j)
    BY <1>4, <2>0 DEF Earlier
  <2>2. i \in Earlier(set, j) /\ i \notin Earlier(set, i)
    BY <1>4, <2>0 DEF Earlier
  <2>3. Earlier(set, i) \in SUBSET Earlier(set, j) /\ Earlier(set, i) # Earlier(set, j)
    BY <2>1, <2>2
  <2> QED
    BY <1>3, <2>3, FS_Subset
<1>5. place \in Injection(set, places)
  <2>1. place \in [set -> places]
    BY <1>3
  <2>2. ASSUME NEW i \in set, NEW j \in set, place[i] = place[j]
        PROVE  i = j
    <3>1. ~(i < j) /\ ~(j < i)
      BY <1>4, <2>2
    <3> QED
      BY <3>1
  <2> QED
    BY <2>1, <2>2 DEF Injection, IsInjective
<1>6. place \in Surjection(set, places)
  BY <1>2, <1>5, FS_Injection
<1>7. k \in places
  BY <1>1
<1>8. PICK i \in set : place[i] = k
  BY <1>6, <1>7 DEF Surjection
<1> QED
  BY <1>8

\* What is timely of a sequence is part of it, and nothing of it is stale.
LEMMA TimelyFacts ==
  ASSUME NEW ages \in Seq(Age)
  PROVE  /\ Timely(ages) \in Seq(Age) /\ Len(Timely(ages)) <= Len(ages)
         /\ \A i \in DOMAIN Timely(ages) : ~Stale(Timely(ages)[i])
<1> DEFINE kept == {i \in DOMAIN ages : ~Stale(ages[i])}
           n == Cardinality(kept)
           at1(k) == CHOOSE i \in kept : Cardinality(Earlier(kept, i)) = k - 1
<1>1. DOMAIN ages = 1 .. Len(ages) /\ Len(ages) \in Nat
  BY Zenon, LenProperties
<1>2. IsFiniteSet(1 .. Len(ages)) /\ Cardinality(1 .. Len(ages)) = Len(ages)
  <2>1. 1 \in Int /\ Len(ages) \in Int
    BY <1>1
  <2>2. IsFiniteSet(1 .. Len(ages)) /\ Cardinality(1 .. Len(ages)) =
          IF 1 > Len(ages) THEN 0 ELSE Len(ages) - 1 + 1
    BY <2>1, FS_Interval
  <2> QED
    BY <1>1, <2>2
<1>3. kept \in SUBSET (1 .. Len(ages)) /\ kept \in SUBSET Nat
  BY <1>1
<1>4. IsFiniteSet(kept) /\ n <= Len(ages)
  BY <1>2, <1>3, FS_Subset
<1>5. n \in Nat
  BY <1>4, FS_CardinalityType
<1>6. ASSUME NEW k \in 1 .. n
      PROVE  at1(k) \in kept
  <2>1. k - 1 \in Nat /\ k - 1 < n
    BY <1>5
  <2>2. \E i \in kept : Cardinality(Earlier(kept, i)) = k - 1
    BY <1>3, <1>4, <2>1, PlacesAreTaken
  <2> QED
    BY <2>2
<1>7. Timely(ages) = [k \in 1 .. n |-> ages[at1(k)]]
  BY DEF Timely, Earlier
<1> HIDE DEF at1, n
<1>8. ASSUME NEW k \in 1 .. n
      PROVE  ages[at1(k)] \in Age /\ ~Stale(ages[at1(k)])
  BY <1>1, <1>3, <1>6
<1>9. Timely(ages) \in Seq(Age) /\ Len(Timely(ages)) = n
  BY <1>5, <1>7, <1>8, IsASeq
<1> QED
  BY <1>4, <1>5, <1>7, <1>8, <1>9

-----------------------------------------------------------------------------
(* What is remembered and published.                                       *)

\* A poller with a station remembers one clock.
StationMemory == Remembers("station") => Len(remembered) <= 1

PollerInv == TickInv /\ TypeOK /\ StationMemory

\* The shuttle carries over what is not too old.
LEMMA ShuttleFacts ==
  ASSUME TypeOK
  PROVE  /\ Shuttle \in Seq(Age) /\ Len(Shuttle) <= MaxBuses
         /\ \A i \in DOMAIN Shuttle : ~Stale(Shuttle[i])
<1> DEFINE carried == IF remembered = <<>> THEN rows ELSE [i \in DOMAIN rows |-> remembered[1]]
<1>1. rows \in Seq(Age) /\ Len(rows) <= MaxBuses /\ remembered \in Seq(Age) /\ MaxBuses \in Nat
  BY BoundsAssumption DEF TypeOK
<1>2. carried \in Seq(Age) /\ Len(carried) = Len(rows)
  <2>1. remembered # <<>> => remembered[1] \in Age
    BY <1>1
  <2>2. DOMAIN rows = 1 .. Len(rows) /\ Len(rows) \in Nat
    BY <1>1, LenProperties
  <2>3. CASE remembered = <<>>
    BY <1>1, <2>3
  <2>4. CASE remembered # <<>>
    <3>1. carried = [i \in 1 .. Len(rows) |-> remembered[1]]
      BY <2>2, <2>4
    <3> QED
      BY <2>1, <2>2, <2>4, <3>1, IsASeq
  <2> QED
    BY <2>3, <2>4
<1>3. Shuttle = Timely(carried)
  BY DEF Shuttle
<1> HIDE DEF carried
<1>4. Len(Timely(carried)) \in Nat /\ Len(rows) \in Nat
  BY <1>1, <1>2, TimelyFacts, LenProperties
<1> QED
  BY <1>1, <1>2, <1>3, <1>4, TimelyFacts

\* The clock that runs at a station where there is a bus has not expired.
LEMMA StationFacts ==
  ASSUME TypeOK
  PROVE  /\ StationClock \in Seq(Age)
         /\ Len(remembered) <= 1 => Len(StationClock) <= 1
         /\ rows # <<>> => StationClock[1] \in Age
         /\ rows # <<>> /\ Len(remembered) <= 1 => ~Stale(StationClock[1])
<1>1. rows \in Seq(Age) /\ remembered \in Seq(Age) /\ Window \in Nat
  BY BoundsAssumption DEF TypeOK
<1>2. <<0>> \in Seq(Age) /\ Len(<<0>>) = 1 /\ <<0>>[1] = 0 /\ 0 \in Age
  BY AgesAreNumbers
<1>3. CASE \E i \in DOMAIN remembered : ~Stale(remembered[i])
  <2>1. StationClock = remembered
    BY <1>3 DEF StationClock
  <2>2. PICK i \in DOMAIN remembered : ~Stale(remembered[i])
    BY <1>3
  <2>3. i \in 1 .. Len(remembered) /\ Len(remembered) \in Nat
    BY <1>1, <2>2
  <2>4. remembered[1] \in Age
    BY <1>1, <2>3
  <2>5. Len(remembered) <= 1 => i = 1
    BY <2>3
  <2> QED
    BY <1>1, <2>1, <2>2, <2>4, <2>5
<1>4. CASE rows = <<>>
  BY <1>1, <1>4 DEF StationClock
<1>5. CASE rows # <<>> /\ ~\E i \in DOMAIN remembered : ~Stale(remembered[i])
  <2>1. StationClock = <<0>>
    BY <1>5 DEF StationClock
  <2>2. ~Stale(0)
    BY <1>1 DEF Stale
  <2> QED
    BY <1>2, <2>1, <2>2
<1> QED
  BY <1>3, <1>4, <1>5

\* A payload holds no more rows than the upstream, and nothing stale.
LEMMA PayloadFacts ==
  ASSUME PollerInv
  PROVE  /\ Payload \in Seq(Age) /\ Len(Payload) <= MaxBuses
         /\ \A i \in DOMAIN Payload : ~Stale(Payload[i])
<1>1. /\ rows \in Seq(Age) /\ Len(rows) <= MaxBuses /\ MaxBuses \in Nat
      /\ at \in DOMAIN poller /\ TypeOK
  BY BoundsAssumption DEF PollerInv, TypeOK
<1>2. CASE Document.memory = "shuttle"
  BY <1>1, <1>2, ShuttleFacts DEF Payload
<1>3. CASE Document.memory = "station"
  <2>1. Payload = [i \in DOMAIN rows |-> StationClock[1]]
    BY <1>3 DEF Payload
  <2>2. Len(remembered) <= 1
    BY <1>1, <1>3 DEF PollerInv, StationMemory, Remembers, Document
  <2>3. DOMAIN rows = 1 .. Len(rows) /\ Len(rows) \in Nat
    BY <1>1, LenProperties
  <2>4. \A i \in 1 .. Len(rows) : StationClock[1] \in Age /\ ~Stale(StationClock[1])
    <3>1. ASSUME NEW i \in 1 .. Len(rows) PROVE rows # <<>>
      BY <1>1
    <3> QED
      BY <1>1, <2>2, <3>1, StationFacts
  <2>5. Payload = [i \in 1 .. Len(rows) |-> StationClock[1]]
    BY <2>1, <2>3
  <2>6. Payload \in Seq(Age) /\ Len(Payload) = Len(rows)
    BY <2>3, <2>4, <2>5, IsASeq
  <2> QED
    BY <1>1, <2>4, <2>5, <2>6
<1>4. CASE Document.memory \notin {"shuttle", "station"}
  <2>1. Payload = <<>>
    BY <1>4 DEF Payload
  <2> QED
    BY <1>1, <2>1
<1> QED
  BY <1>2, <1>3, <1>4

\* What is remembered stays a sequence of ages, of a station a single one.
LEMMA RememberFacts ==
  ASSUME PollerInv, Remember
  PROVE  /\ remembered' \in Seq(Age)
         /\ Remembers("station") => Len(remembered') <= 1
<1>1. at \in DOMAIN poller /\ remembered \in Seq(Age) /\ poller \in Pollers /\ TypeOK
  BY DEF PollerInv, TypeOK
<1>2. remembered' \in {remembered, Shuttle, StationClock}
  BY DEF Remember
<1>3. remembered' \in Seq(Age)
  BY <1>1, <1>2, ShuttleFacts, StationFacts
<1>4. ASSUME Remembers("station")
      PROVE  Len(remembered') <= 1
  <2>1. Len(remembered) <= 1
    BY <1>4 DEF PollerInv, StationMemory
  <2>2. Document.memory # "shuttle"
    BY <1>1, <1>4, PollersAssumption DEF Remembers, Document
  <2>3. remembered' \in {remembered, StationClock}
    BY <2>2 DEF Remember
  <2> QED
    BY <1>1, <2>1, <2>3, StationFacts
<1> QED
  BY <1>3, <1>4

-----------------------------------------------------------------------------
(* Types, and the clock of a station.                                      *)

RowsType ==
  /\ rows \in Seq(Age) /\ Len(rows) <= MaxBuses
  /\ remembered \in Seq(Age)
  /\ stored \in [Doc -> Seq(Age)] /\ \A d \in Doc : Len(stored[d]) <= MaxBuses
  /\ StationMemory

CountsType ==
  /\ answered \subseteq UNION {LegsOf(i) : i \in DOMAIN poller}
  /\ fresh \subseteq Doc /\ quiet \subseteq Doc
  /\ sightings \in 0 .. MaxSightings /\ faults \in 0 .. MaxFaults

\* The parts of the invariant.
LEMMA Parts == TickInv => (PollerInv <=> RowsType /\ CountsType)
BY Zenon DEF TickInv, TickTypeOK, PollerInv, TypeOK, RowsType, CountsType

\* A poller stays what it is.
LEMMA PollerStays == [Next]_vars => poller' = poller /\ Doc' = Doc
BY DEF Next, Poll, BeginTick, AnswerData, AnswerRest, AnswerFails, Store, StoreFails,
   ParserRaises, Report, Arrive, SeeAgain, Sight, Leave, TimePasses, Restart, vars, Doc

\* A write replaces the document at hand by its payload, if it succeeds.
LEMMA WriteFacts ==
  ASSUME PollerInv, Store \/ StoreFails
  PROVE  /\ Document.doc \in Doc
         /\ stored' \in {stored, [stored EXCEPT ![Document.doc] = Payload]}
         /\ Remember /\ UNCHANGED <<poller, rows>>
BY DEF Store, StoreFails, PollerInv, TypeOK, Document, Doc

\* Sequences of ages stay such.
LEMMA RowsStep == PollerInv /\ [Next]_vars => RowsType'
<1> SUFFICES ASSUME PollerInv, [Next]_vars PROVE RowsType'
  OBVIOUS
<1>1. RowsType /\ MaxBuses \in Nat
  BY BoundsAssumption DEF PollerInv, TypeOK, RowsType
<1>2. poller' = poller /\ Doc' = Doc /\ (Remembers("station")' <=> Remembers("station"))
  BY PollerStays DEF Remembers
<1>3. CASE Store \/ StoreFails
  <2>1. stored' \in [Doc -> Seq(Age)] /\ \A d \in Doc : Len(stored'[d]) <= MaxBuses
    BY <1>1, <1>3, WriteFacts, PayloadFacts DEF RowsType
  <2>2. remembered' \in Seq(Age) /\ StationMemory'
    BY <1>2, <1>3, WriteFacts, RememberFacts DEF StationMemory
  <2>3. rows' = rows
    BY <1>3, WriteFacts
  <2> QED
    BY <1>1, <1>2, <2>1, <2>2, <2>3 DEF RowsType
<1>4. CASE TimePasses
  <2>1. rows' = Older(rows) /\ remembered' = Older(remembered)
        /\ stored' = [d \in Doc |-> Older(stored[d])]
    BY <1>4 DEF TimePasses
  <2>2. rows' \in Seq(Age) /\ Len(rows') = Len(rows)
        /\ remembered' \in Seq(Age) /\ Len(remembered') = Len(remembered)
    BY <1>1, <2>1, OlderIsLater DEF RowsType
  <2>3. ASSUME NEW d \in Doc
        PROVE  stored'[d] \in Seq(Age) /\ Len(stored'[d]) <= MaxBuses
    <3>1. stored[d] \in Seq(Age) /\ stored'[d] = Older(stored[d])
      BY <1>1, <2>1, <2>3 DEF RowsType
    <3> QED
      BY <1>1, <2>3, <3>1, OlderIsLater DEF RowsType
  <2>4. stored' \in [Doc -> Seq(Age)]
    BY <2>1, <2>3
  <2> QED
    BY <1>1, <1>2, <2>2, <2>3, <2>4 DEF RowsType, StationMemory
<1>5. CASE Arrive \/ SeeAgain \/ Leave
  <2>1. UNCHANGED <<remembered, stored>>
    BY <1>5 DEF Arrive, SeeAgain, Leave, Sight
  <2>2. \/ Len(rows) < MaxBuses /\ rows' = Append(rows, 0)
        \/ \E i \in DOMAIN rows : rows' = [rows EXCEPT ![i] = 0]
        \/ \E i \in DOMAIN rows : rows' = RemoveAt(rows, i)
    BY <1>5 DEF Arrive, SeeAgain, Leave, Sight
  <2>3. rows \in Seq(Age) /\ Len(rows) \in Nat /\ Len(rows) <= MaxBuses
    BY <1>1, LenProperties DEF RowsType
  <2>4. rows' \in Seq(Age) /\ Len(rows') <= MaxBuses
    <3>1. CASE Len(rows) < MaxBuses /\ rows' = Append(rows, 0)
      BY <1>1, <2>3, <3>1, RowsFacts
    <3>2. ASSUME NEW i \in DOMAIN rows, rows' = [rows EXCEPT ![i] = 0]
          PROVE  rows' \in Seq(Age) /\ Len(rows') <= MaxBuses
      BY <1>1, <2>3, <3>2, RowsFacts
    <3>3. ASSUME NEW i \in DOMAIN rows, rows' = RemoveAt(rows, i)
          PROVE  rows' \in Seq(Age) /\ Len(rows') <= MaxBuses
      BY <1>1, <2>3, <3>3, RowsFacts
    <3> QED
      BY <2>2, <3>1, <3>2, <3>3
  <2> QED
    BY <1>1, <1>2, <2>1, <2>4 DEF RowsType, StationMemory
<1>6. CASE Restart
  <2>1. remembered' = <<>> /\ UNCHANGED <<rows, stored>>
    BY <1>6 DEF Restart
  <2> QED
    BY <1>1, <1>2, <2>1 DEF RowsType, StationMemory
<1>7. CASE (Poll /\ ~(Store \/ StoreFails)) \/ UNCHANGED vars
  <2>1. UNCHANGED <<rows, remembered, stored>>
    BY <1>7 DEF Poll, BeginTick, AnswerData, AnswerRest, AnswerFails, ParserRaises, Report, vars
  <2> QED
    BY <1>1, <1>2, <2>1 DEF RowsType, StationMemory
<1> QED
  BY <1>3, <1>4, <1>5, <1>6, <1>7 DEF Next

\* The rest of the types.
LEMMA CountsStep == PollerInv /\ [Next]_vars => CountsType'
<1> SUFFICES ASSUME PollerInv, [Next]_vars PROVE CountsType'
  OBVIOUS
<1>1. /\ CountsType /\ at \in DOMAIN poller /\ leg \in 1 .. Document.legs
      /\ MaxSightings \in Nat /\ MaxFaults \in Nat
  BY BoundsAssumption DEF PollerInv, TypeOK, CountsType
<1>2. /\ poller' = poller /\ Doc' = Doc
      /\ \A i \in DOMAIN poller : LegsOf(i)' = LegsOf(i)
  BY PollerStays DEF LegsOf
<1>3. Document.doc \in Doc /\ <<Document.doc, leg>> \in LegsOf(at)
  BY <1>1 DEF Doc, Document, LegsOf
<1>4. answered' \in {answered, {}, answered \cup {<<Document.doc, leg>>}}
      /\ fresh' \in {fresh, {}, fresh \cup {Document.doc}}
      /\ quiet' \in {quiet, {}, quiet \cup {Document.doc}}
  BY DEF Next, Poll, BeginTick, AnswerData, AnswerRest, AnswerFails, Store, StoreFails, Abort,
     ParserRaises, Report, Arrive, SeeAgain, Sight, Leave, TimePasses, Restart, vars, tick
<1>5. \/ faults' = faults
      \/ faults < MaxFaults /\ faults' = faults + 1
  BY DEF Next, Poll, BeginTick, AnswerData, AnswerRest, AnswerFails, Store, StoreFails, MayFault,
     ParserRaises, Report, Arrive, SeeAgain, Sight, Leave, TimePasses, Restart, vars
<1>6. \/ sightings' = sightings
      \/ sightings < MaxSightings /\ sightings' = sightings + 1
  BY DEF Next, Poll, BeginTick, AnswerData, AnswerRest, AnswerFails, Store, StoreFails,
     ParserRaises, Report, Arrive, SeeAgain, Sight, Leave, TimePasses, Restart, vars
<1>7. faults' \in 0 .. MaxFaults /\ sightings' \in 0 .. MaxSightings
  BY <1>1, <1>5, <1>6 DEF CountsType
<1>8. answered' \subseteq UNION {LegsOf(i) : i \in DOMAIN poller}
  BY <1>1, <1>3, <1>4 DEF CountsType
<1>9. UNION {LegsOf(i) : i \in DOMAIN poller}' = UNION {LegsOf(i) : i \in DOMAIN poller}
  BY <1>2
<1> QED
  BY <1>1, <1>2, <1>3, <1>4, <1>7, <1>8, <1>9 DEF CountsType

\* The invariant holds of every behaviour.
LEMMA PollerInvariant == Spec => []PollerInv
<1>1. Init => PollerInv
  <2> SUFFICES ASSUME Init PROVE PollerInv
    OBVIOUS
  <2>1. TickInv /\ RowsType /\ CountsType
    BY TickInit, BoundsAssumption DEF Init, RowsType, CountsType, StationMemory
  <2> QED
    BY <2>1, Parts
<1>2. PollerInv /\ [Next]_vars => PollerInv'
  <2> SUFFICES ASSUME PollerInv, [Next]_vars PROVE PollerInv'
    OBVIOUS
  <2>1. TickInv'
    BY TickStep DEF PollerInv
  <2>2. RowsType' /\ CountsType'
    BY RowsStep, CountsStep
  <2>3. TypeOK' /\ StationMemory'
    BY <2>1, <2>2 DEF TickInv, TickTypeOK, TypeOK, RowsType, CountsType
  <2> QED
    BY <2>1, <2>3 DEF PollerInv
<1> QED
  BY <1>1, <1>2, PTL DEF Spec

\* Types, for any pollers: a document and its upstream hold no more rows than the
\* bound, and every age is one.
THEOREM BusPollerTypeOK == Spec => []TypeOK
<1>1. PollerInv => TypeOK
  BY DEF PollerInv
<1> QED
  BY <1>1, PollerInvariant, PTL

\* What a write publishes is not past its window, whatever the upstream repeats
\* and however long the poller could not reach it: rows age only in the store.
NothingStaleIsPublished ==
  [][\A d \in Doc : stored'[d] # stored[d] =>
       TimePasses \/ \A i \in DOMAIN stored'[d] : ~Stale(stored'[d][i])]_vars

\* A sighting that is too old is never published.
THEOREM FreshIsPublished == Spec => NothingStaleIsPublished
<1>1. ASSUME PollerInv, [Next]_vars, NEW d \in Doc, stored'[d] # stored[d], ~TimePasses
      PROVE  \A i \in DOMAIN stored'[d] : ~Stale(stored'[d][i])
  <2>1. Store \/ StoreFails
    BY <1>1 DEF Next, Poll, BeginTick, AnswerData, AnswerRest, AnswerFails, ParserRaises,
      Report, Arrive, SeeAgain, Sight, Leave, Restart, vars
  <2>2. stored'[d] = Payload
    BY <1>1, <2>1, WriteFacts DEF PollerInv, TypeOK
  <2> QED
    BY <1>1, <2>2, PayloadFacts
<1>2. PollerInv /\ [Next]_vars =>
        [\A d \in Doc : stored'[d] # stored[d] =>
           TimePasses \/ \A i \in DOMAIN stored'[d] : ~Stale(stored'[d][i])]_vars
  BY <1>1
<1> QED
  BY <1>2, PollerInvariant, PTL DEF Spec, NothingStaleIsPublished

\* Storing leaves a clock that has not expired alone.
LEMMA RememberedClock ==
  ASSUME PollerInv, Remembers("station"), Remember,
         remembered # <<>>, ~Stale(remembered[1])
  PROVE  remembered' = remembered
<1>1. at \in DOMAIN poller /\ remembered \in Seq(Age) /\ poller \in Pollers
  BY DEF PollerInv, TypeOK
<1>2. Document.memory # "shuttle"
  BY <1>1, PollersAssumption DEF Remembers, Document
<1>3. remembered' \in {remembered, StationClock}
  BY <1>2 DEF Remember
<1>4. 1 \in DOMAIN remembered
  BY <1>1
<1>5. StationClock = remembered
  BY <1>4 DEF StationClock
<1> QED
  BY <1>3, <1>5

\* What a step other than a restart does to the clock.
LEMMA ClockStep ==
  ASSUME PollerInv, Remembers("station"), [Next]_vars, ~Restart,
         remembered # <<>>, ~Stale(remembered[1])
  PROVE  remembered' # <<>> /\ remembered'[1] >= remembered[1]
<1>1. remembered \in Seq(Age) /\ remembered[1] \in Nat
  <2>1. remembered \in Seq(Age)
    BY DEF PollerInv, TypeOK
  <2>2. remembered[1] \in Age
    BY <2>1
  <2>3. QED
    BY <2>1, <2>2, AgesAreNumbers
<1>2. CASE remembered' = remembered
  BY <1>1, <1>2
<1>3. CASE Store \/ StoreFails
  BY <1>1, <1>3, WriteFacts, RememberedClock
<1>4. CASE TimePasses
  <2>1. remembered' = Older(remembered)
    BY <1>4 DEF TimePasses
  <2>2. QED
    BY <1>1, <2>1, OlderIsLater
<1>5. CASE Poll /\ ~(Store \/ StoreFails)
  BY <1>2, <1>5 DEF Poll, BeginTick, AnswerData, AnswerRest, AnswerFails, ParserRaises,
    Report
<1>6. CASE Arrive \/ SeeAgain \/ Leave \/ UNCHANGED vars
  BY <1>2, <1>6 DEF Arrive, SeeAgain, Sight, Leave, vars
<1> QED
  BY <1>3, <1>4, <1>5, <1>6 DEF Next

\* The clock of a station starts anew only past its expiry or in a new process,
\* whatever upstreams and writes do meanwhile.
THEOREM ClockOutlivesOutages == Spec => DwellOutlivesOutages
<1>1. PollerInv /\ [Next]_vars =>
        [ (\E i \in DOMAIN poller : poller[i].memory = "station")
            /\ remembered # <<>> /\ ~Stale(remembered[1])
            => \/ remembered' # <<>> /\ remembered'[1] >= remembered[1]
               \/ Restart ]_vars
  BY ClockStep DEF Remembers
<1> QED
  BY <1>1, PollerInvariant, PTL DEF Spec, DwellOutlivesOutages
=============================================================================
