----------------------------- MODULE SiteProofs -----------------------------
(* The spacing of requests, the types, and that a walk which ends at an    *)
(* empty page has read its board, for any tasks, boards, strategies and    *)
(* answers.                                                                *)
EXTENDS Site, FiniteSetTheorems, TLAPS

Spacing == Least(Delay, Backoff)

\* Where a task is in its fetch; the rest of what it does is left open.
Fetching(w) ==
  /\ w \in [stage : {w.stage}, page : {w.page}, row : {w.row}, how : {w.how},
           request : {"none", "waiting", "open"}, attempt : 0 .. MaxRetries, wait : Nat]
  /\ w.request = "open" => w.attempt > 0
  /\ w.request = "none" => w.attempt = 0
  /\ w.request = "waiting" => w.attempt < MaxRetries

\* The clocks are those of the run's tasks.
Clocks ==
  /\ since \in 0 .. Delay /\ own \in [Running -> 0 .. Delay]
  /\ work = [t \in Running |-> work[t]]

\* A task sleeps long enough: the last request of any task is no older than its
\* own last one, and a task that waits will have kept its distance by the end.
SpaceInv ==
  /\ Clocks
  /\ \A t \in Running :
       /\ since <= own[t]
       /\ Fetching(work[t])
       /\ work[t].request = "waiting" => own[t] + work[t].wait >= Spacing

\* The times and the attempts are positive.
LEMMA Times ==
  /\ Delay \in Nat \ {0} /\ Backoff \in Nat \ {0} /\ MaxRetries \in Nat \ {0}
  /\ Spacing \in Nat /\ Spacing <= Delay /\ Spacing <= Backoff
BY TimesAssumption, LimitsAssumption DEF Spacing, Least

\* A backoff is no shorter than the first one.
LEMMA BackoffBound ==
  ASSUME NEW k \in 0 .. MaxRetries - 1
  PROVE  Backoff * 2 ^ k \in Nat /\ Backoff * 2 ^ k >= Backoff
<1> DEFINE p == 2 ^ k
<1>1. p \in Nat \ {0}
  BY DoublingAssumption
<1> HIDE DEF p
<1>2. Backoff * p \in Nat /\ Backoff * p >= Backoff
  BY <1>1, Times
<1> QED
  BY <1>2 DEF p

\* A capped clock never goes back.
LEMMA Capped ==
  ASSUME NEW n \in 0 .. Delay
  PROVE  /\ Least(n + 1, Delay) \in 0 .. Delay /\ n <= Least(n + 1, Delay)
         /\ Least(n + 1, Delay) \in {n + 1, Delay} /\ Least(n + 1, Delay) <= n + 1
BY Times DEF Least

\* Places that differ from w in the fetch alone.
Beside(w) ==
  [stage : {w.stage}, page : {w.page}, row : {w.row}, how : {w.how},
   request : {"none", "waiting", "open"}, attempt : 0 .. MaxRetries, wait : Nat]

\* A task moves on in its fetch.
LEMMA Placed ==
  ASSUME NEW w, NEW next \in Beside(w),
         next.request = "open" => next.attempt > 0,
         next.request = "none" => next.attempt = 0,
         next.request = "waiting" => next.attempt < MaxRetries
  PROVE  Fetching(next)
<1>1. /\ next.stage = w.stage /\ next.page = w.page /\ next.row = w.row
      /\ next.how = w.how
  BY DEF Beside
<1> QED
  BY <1>1 DEF Fetching, Beside

\* No request is under way where a page begins.
LEMMA FreshFetching == \A page : Fetching(Fresh(page)) /\ Fresh(page).request = "none"
BY Times DEF Fetching, Fresh

\* One task's place changes; its clocks do or do not start anew.
LEMMA OneTask ==
  ASSUME SpaceInv, NEW t \in Running, UNCHANGED plan, NEW w,
         work' = [work EXCEPT ![t] = w], Fetching(w),
         \/ /\ since' = 0 /\ own' = [own EXCEPT ![t] = 0]
            /\ w.request # "waiting"
         \/ /\ UNCHANGED <<since, own>>
            /\ w.request = "waiting" => own[t] + w.wait >= Spacing
  PROVE  SpaceInv'
<1>1. Running' = Running
  BY DEF Running
<1>2. /\ work' = [u \in Running |-> work'[u]]
      /\ work'[t] = w /\ \A u \in Running \ {t} : work'[u] = work[u]
  BY DEF SpaceInv, Clocks
<1>3. since' \in 0 .. Delay /\ own' \in [Running -> 0 .. Delay]
  BY Times DEF SpaceInv, Clocks
<1>4. ASSUME NEW u \in Running
      PROVE  /\ since' <= own'[u]
             /\ Fetching(work'[u])
             /\ work'[u].request = "waiting" => own'[u] + work'[u].wait >= Spacing
  <2>1. since' <= own'[u]
    BY Times DEF SpaceInv, Clocks
  <2>2. CASE u = t
    BY <1>2, <2>1, <2>2 DEF SpaceInv
  <2>3. CASE u # t
    <3>1. own'[u] = own[u]
      BY <2>3 DEF SpaceInv, Clocks
    <3> QED
      BY <1>2, <2>1, <2>3, <3>1 DEF SpaceInv
  <2> QED
    BY <2>2, <2>3
<1> QED
  BY <1>1, <1>2, <1>3, <1>4 DEF SpaceInv, Clocks, Fetching

\* A request goes out.
LEMMA SentKeeps ==
  ASSUME SpaceInv, NEW t \in Running, UNCHANGED plan, NEW w, Fetching(w),
         w.attempt < MaxRetries, Sent(t, w)
  PROVE  SpaceInv'
<1> DEFINE next == [w EXCEPT !.request = "open", !.attempt = @ + 1, !.wait = 0]
<1>1. Fetching(next) /\ next.request = "open"
  <2>1. w.attempt \in 0 .. MaxRetries
    BY DEF Fetching
  <2>2. w.attempt + 1 \in 0 .. MaxRetries /\ w.attempt + 1 > 0
    BY <2>1, Times
  <2> DEFINE more == w.attempt + 1
  <2>3. w \in Beside(w) /\ next = [w EXCEPT !.request = "open", !.attempt = more, !.wait = 0]
    BY DEF Fetching, Beside
  <2> HIDE DEF next, more
  <2>4. next \in Beside(w) /\ next.request = "open" /\ next.attempt = more
    BY <2>2, <2>3 DEF Beside, more
  <2>5. next.attempt > 0
    BY <2>2, <2>4 DEF more
  <2> QED
    BY <2>4, <2>5, Placed
<1>2. work' = [work EXCEPT ![t] = next] /\ since' = 0 /\ own' = [own EXCEPT ![t] = 0]
  BY DEF Sent
<1> HIDE DEF next
<1> QED
  BY <1>1, <1>2, OneTask

\* A fetch sends at once, or sleeps until the delay has passed.
LEMMA FetchKeeps ==
  ASSUME SpaceInv, NEW t \in Running, UNCHANGED plan, NEW w, Fetching(w),
         w.request = "none", Fetch(t, w)
  PROVE  SpaceInv'
<1>1. CASE since >= Delay
  BY <1>1, SentKeeps, Times DEF Fetch, Fetching
<1>2. CASE ~(since >= Delay)
  <2> DEFINE next == [w EXCEPT !.request = "waiting", !.wait = Delay - since]
  <2>1. since \in 0 .. Delay /\ own[t] \in 0 .. Delay /\ since <= own[t]
    BY DEF SpaceInv, Clocks
  <2>2. Delay - since \in Nat /\ own[t] + (Delay - since) >= Spacing
    BY <2>1, Times
  <2>3. Fetching(next) /\ own[t] + next.wait >= Spacing
    <3>1. w.attempt = 0 /\ 0 \in 0 .. MaxRetries /\ 0 < MaxRetries
      BY Times DEF Fetching
    <3> DEFINE rest == Delay - since
    <3>2. w \in Beside(w) /\ next = [w EXCEPT !.request = "waiting", !.wait = rest]
      BY DEF Fetching, Beside
    <3>3. rest \in Nat /\ own[t] + rest >= Spacing
      BY <2>2
    <3> HIDE DEF next, rest
    <3>4. /\ next \in Beside(w) /\ next.request = "waiting" /\ next.wait = rest
          /\ next.attempt = 0
      BY <3>1, <3>2, <3>3 DEF Beside
    <3> QED
      BY <3>1, <3>3, <3>4, Placed
  <2>4. work' = [work EXCEPT ![t] = next] /\ UNCHANGED <<since, own>>
    BY <1>2 DEF Fetch
  <2> HIDE DEF next
  <2> QED
    BY <2>3, <2>4, OneTask
<1> QED
  BY <1>1, <1>2

\* A task that ends a fetch or a page keeps everybody's distance.
LEMMA MoveOn ==
  ASSUME SpaceInv, NEW t \in Running, UNCHANGED <<plan, since, own>>, NEW w,
         work' = [work EXCEPT ![t] = w], Fetching(w), w.request = "none"
  PROVE  SpaceInv'
BY OneTask

\* At the start nobody has asked for anything.
LEMMA SpaceInit == Init => SpaceInv
<1> SUFFICES ASSUME Init PROVE SpaceInv
  OBVIOUS
<1>1. Clocks
  BY Times DEF Init, Clocks
<1>2. ASSUME NEW t \in Running
      PROVE  since <= own[t] /\ Fetching(work[t]) /\ work[t].request = "none"
  BY FreshFetching, Times DEF Init
<1> QED
  BY <1>1, <1>2 DEF SpaceInv

\* Time shortens a wait by no more than it ages the last request.
LEMMA TimeKeeps ==
  ASSUME SpaceInv, TimePasses
  PROVE  SpaceInv'
<1>1. Running' = Running /\ UNCHANGED plan
  BY DEF TimePasses, Running
<1>2. since' = Least(since + 1, Delay) /\ since \in 0 .. Delay
  BY DEF TimePasses, SpaceInv, Clocks
<1>3. ASSUME NEW t \in Running
      PROVE  /\ own'[t] = Least(own[t] + 1, Delay) /\ own[t] \in 0 .. Delay
             /\ work'[t] = [work[t] EXCEPT !.wait = IF @ > 0 THEN @ - 1 ELSE 0]
             /\ since <= own[t] /\ Fetching(work[t])
             /\ work[t].request = "waiting" => own[t] + work[t].wait >= Spacing
  BY DEF TimePasses, SpaceInv, Clocks
<1>4. Clocks'
  <2>1. \A t \in Running : Least(own[t] + 1, Delay) \in 0 .. Delay
    BY <1>3, Capped
  <2>2. own' \in [Running -> 0 .. Delay]
    BY <2>1 DEF TimePasses
  <2>3. work' = [t \in Running |-> work'[t]]
    BY DEF TimePasses
  <2>4. since' \in 0 .. Delay
    BY <1>2, Capped
  <2> QED
    BY <1>1, <2>2, <2>3, <2>4 DEF Clocks
<1>5. ASSUME NEW t \in Running
      PROVE  /\ since' <= own'[t] /\ Fetching(work'[t])
             /\ work'[t].request = "waiting" => own'[t] + work'[t].wait >= Spacing
  <2> DEFINE rest == IF work[t].wait > 0 THEN work[t].wait - 1 ELSE 0
  <2>1. work[t].wait \in Nat /\ rest \in Nat
    <3>1. work[t].wait \in Nat
      BY <1>3 DEF Fetching
    <3> QED
      BY <3>1
  <2>2. work'[t] = [work[t] EXCEPT !.wait = rest]
    BY <1>3
  <2>3. since' <= own'[t]
    <3>1. /\ own'[t] \in {own[t] + 1, Delay} /\ since' <= since + 1
          /\ since' \in 0 .. Delay /\ since \in 0 .. Delay
      BY <1>2, <1>3, Capped
    <3>2. own[t] \in 0 .. Delay /\ since <= own[t]
      BY <1>3
    <3> QED
      BY <3>1, <3>2, Times
  <2>4. own[t] + work[t].wait >= Spacing => own'[t] + rest >= Spacing
    <3>1. own'[t] >= own[t] /\ own'[t] \in {own[t] + 1, Delay}
      BY <1>3, Capped
    <3>2. own[t] \in 0 .. Delay /\ rest \in {work[t].wait - 1, 0}
      BY <1>3
    <3>3. rest = 0 \/ rest = work[t].wait - 1
      BY <3>2
    <3>4. rest = 0 => work[t].wait \in {0, 1}
      BY <2>1
    <3>5. rest \in Nat /\ Spacing \in Nat /\ Spacing <= Delay /\ Delay \in Nat
      BY <2>1, Times
    <3> HIDE DEF rest
    <3> DEFINE now == work[t].wait
    <3>6. now \in Nat
      BY <2>1
    <3>7. (rest = 0 /\ now \in {0, 1}) \/ rest = now - 1
      BY <3>3, <3>4
    <3> HIDE DEF now
    <3>8. ASSUME own[t] + now >= Spacing PROVE own'[t] + rest >= Spacing
      BY <3>1, <3>2, <3>5, <3>6, <3>7, <3>8
    <3> QED
      BY <3>8 DEF now
  <2> HIDE DEF rest
  <2>5. /\ Fetching(work'[t]) /\ work'[t].wait = rest
        /\ work'[t].request = work[t].request
    <3>1. /\ work[t] \in Beside(work[t])
          /\ work[t].request = "open" => work[t].attempt > 0
          /\ work[t].request = "none" => work[t].attempt = 0
          /\ work[t].request = "waiting" => work[t].attempt < MaxRetries
      BY <1>3 DEF Fetching, Beside
    <3>2. /\ work'[t] \in Beside(work[t]) /\ work'[t].wait = rest
          /\ work'[t].request = work[t].request /\ work'[t].attempt = work[t].attempt
      BY <2>1, <2>2, <3>1 DEF Beside
    <3> QED
      BY <3>1, <3>2, Placed
  <2> QED
    BY <1>3, <2>3, <2>4, <2>5
<1> QED
  BY <1>1, <1>4, <1>5 DEF SpaceInv, Fetching

\* Every step of a task keeps the distances.
LEMMA TaskKeeps ==
  ASSUME SpaceInv, NEW t \in Running, TaskStep(t)
  PROVE  SpaceInv'
<1>0. Fetching(work[t]) /\ own[t] \in 0 .. Delay /\ UNCHANGED plan
  BY DEF SpaceInv, Clocks, TaskStep, AskForList, ListArrives, ListFails, ListIsNone, AskForDetail,
         DetailArrives, DetailFails, SendAfterWait, Retry, NextPage
<1>e. \A how : Fetching(Ended(t, how)) /\ Ended(t, how).request = "none"
  BY FreshFetching DEF Ended, Fresh, Fetching
<1>s. \A page, stage :
        /\ Fetching([Fresh(page) EXCEPT !.stage = stage])
        /\ [Fresh(page) EXCEPT !.stage = stage].request = "none"
  BY FreshFetching DEF Fresh, Fetching
<1>1. CASE AskForList(t)
  <2>1. CASE HasAddress(t)
    BY <1>0, <1>1, <2>1, FetchKeeps DEF AskForList
  <2>2. CASE ~HasAddress(t)
    BY <1>0, <1>1, <1>e, <2>2, MoveOn DEF AskForList
  <2> QED
    BY <2>1, <2>2
<1>2. CASE ListArrives(t)
  <2>1. UNCHANGED <<plan, since, own>>
    BY <1>2 DEF ListArrives
  <2>2. CASE work' = [work EXCEPT ![t] = Ended(t, "empty_page")]
    BY <1>e, <2>1, <2>2, MoveOn
  <2>3. CASE work' = [work EXCEPT ![t] = [Fresh(work[t].page) EXCEPT !.stage = "page"]]
    BY <1>s, <2>1, <2>3, MoveOn
  <2> QED
    BY <1>2, <2>2, <2>3 DEF ListArrives
<1>3. CASE ListFails(t)
  <2>1. PICK how : work' = [work EXCEPT ![t] = Ended(t, how)]
    BY <1>3 DEF ListFails
  <2> QED
    BY <1>0, <1>3, <1>e, <2>1, MoveOn DEF ListFails
<1>n. CASE ListIsNone(t)
  <2>1. PICK how : work' = [work EXCEPT ![t] = Ended(t, how)]
    BY <1>n DEF ListIsNone
  <2> QED
    BY <1>0, <1>n, <1>e, <2>1, MoveOn DEF ListIsNone
<1>4. CASE AskForDetail(t)
  <2>1. PICK r \in read[t].current :
          \/ UNCHANGED <<since, own, work>>
          \/ Fetch(t, [Fresh(work[t].page) EXCEPT !.stage = "detail", !.row = r])
    BY <1>4 DEF AskForDetail
  <2>2. CASE UNCHANGED <<since, own, work>>
    BY <1>0, <2>2 DEF SpaceInv, Clocks, Running
  <2>3. CASE Fetch(t, [Fresh(work[t].page) EXCEPT !.stage = "detail", !.row = r])
    <3> DEFINE w == [Fresh(work[t].page) EXCEPT !.stage = "detail", !.row = r]
    <3>1. Fetching(w) /\ w.request = "none"
      <4> DEFINE fresh == Fresh(work[t].page)
                 Rest(stages, rows) ==
                   [stage : stages, row : rows, page : {work[t].page}, how : {""},
                    request : {"none"}, attempt : {0}, wait : {0}]
      <4>1. fresh \in Rest({"list"}, {0})
        BY DEF Fresh
      <4>2. w = [fresh EXCEPT !.stage = "detail", !.row = r]
        OBVIOUS
      <4> HIDE DEF fresh, w
      <4>3. w \in Rest({"detail"}, {r})
        BY <4>1, <4>2
      <4>4. /\ w.stage = "detail" /\ w.page = work[t].page /\ w.row = r /\ w.how = ""
            /\ w.request = "none" /\ w.attempt = 0
        BY <4>3
      <4>5. 0 \in 0 .. MaxRetries /\ 0 \in Nat
        BY Times
      <4>6. w \in Beside(w)
        BY <4>3, <4>4, <4>5 DEF Beside
      <4> QED
        BY <4>4, <4>6, Placed
    <3> HIDE DEF w
    <3>2. Fetch(t, w)
      BY <2>3 DEF w
    <3> QED
      BY <1>0, <3>1, <3>2, FetchKeeps
  <2> QED
    BY <2>1, <2>2, <2>3
<1>5. CASE DetailArrives(t) \/ DetailFails(t)
  <2>1. /\ UNCHANGED <<plan, since, own>>
        /\ work' = [work EXCEPT ![t] = [Fresh(work[t].page) EXCEPT !.stage = "page"]]
    BY <1>5 DEF DetailArrives, DetailFails
  <2> QED
    BY <1>s, <2>1, MoveOn
<1>6. CASE SendAfterWait(t)
  BY <1>0, <1>6, SentKeeps DEF SendAfterWait, Fetching
<1>7. CASE Retry(t)
  <2> DEFINE pause == Backoff * 2 ^ (work[t].attempt - 1)
             next == [work[t] EXCEPT !.request = "waiting", !.wait = pause]
  <2>1. work[t].request = "open" /\ work[t].attempt < MaxRetries /\ UNCHANGED <<since, own>>
    BY <1>7 DEF Retry
  <2>2. work[t].attempt - 1 \in 0 .. MaxRetries - 1
    BY <1>0, <2>1, Times DEF Fetching
  <2>3. pause \in Nat /\ pause >= Backoff
    BY <2>2, BackoffBound
  <2>4. work' = [work EXCEPT ![t] = next]
    BY <1>7 DEF Retry, SpaceInv, Clocks
  <2> HIDE DEF pause
  <2>5. Fetching(next) /\ next.wait = pause
    BY <1>0, <2>1, <2>3 DEF Fetching
  <2>6. own[t] + next.wait >= Spacing
    BY <1>0, <2>3, <2>5, Times
  <2> HIDE DEF next
  <2> QED
    BY <1>0, <2>1, <2>4, <2>5, <2>6, OneTask
<1>8. CASE NextPage(t)
  <2>1. PICK w : w \in {Fresh(work[t].page + 1), Ended(t, "max_pages")}
                 /\ work' = [work EXCEPT ![t] = w]
    BY <1>8 DEF NextPage
  <2> QED
    BY <1>0, <1>8, <1>e, <2>1, FreshFetching, MoveOn DEF NextPage
<1> QED
  BY <1>1, <1>2, <1>3, <1>n, <1>4, <1>5, <1>6, <1>7, <1>8 DEF TaskStep

\* Every step does.
LEMMA SpaceStep == SpaceInv /\ [Next]_vars => SpaceInv'
<1> SUFFICES ASSUME SpaceInv, [Next]_vars PROVE SpaceInv'
  OBVIOUS
<1>1. CASE UNCHANGED vars
  BY <1>1 DEF vars, SpaceInv, Clocks, Running
<1>2. CASE \E t \in Task : TaskStep(t)
  BY <1>2, TaskKeeps DEF TaskStep
<1> QED
  BY <1>1, <1>2, TimeKeeps DEF Next

\* A request of a task goes out only at a distance from its own last one.
LEMMA StepIsSpaced ==
  ASSUME SpaceInv, [Next]_vars, NEW u \in Running,
         work[u].request # "open", work'[u].request = "open"
  PROVE  own[u] >= Spacing
<1>0. /\ since \in 0 .. Delay /\ own[u] \in 0 .. Delay /\ since <= own[u]
      /\ Fetching(work[u]) /\ work = [v \in Running |-> work[v]]
      /\ work[u].request = "waiting" => own[u] + work[u].wait >= Spacing
  BY DEF SpaceInv, Clocks
<1>1. CASE since >= Delay
  BY <1>0, <1>1, Times
<1>2. CASE SendAfterWait(u)
  BY <1>0, <1>2, Times DEF SendAfterWait, Fetching
<1>3. work' # work
  OBVIOUS
<1>4. ~TimePasses
  BY <1>0 DEF TimePasses, Fetching
<1>5. PICK t \in Running : TaskStep(t)
  BY <1>3, <1>4 DEF Next, TaskStep, vars
<1>6. t = u
  <2> SUFFICES ASSUME t # u PROVE work'[u] = work[u]
    OBVIOUS
  <2>1. \E w : work' = [work EXCEPT ![t] = w]
    BY <1>0, <1>5 DEF TaskStep, AskForList, ListArrives, ListFails, ListIsNone, AskForDetail, DetailArrives,
       DetailFails, SendAfterWait, Retry, NextPage, Fetch, Sent
  <2> QED
    BY <1>0, <2>1
<1>7. CASE ~(since >= Delay) /\ ~SendAfterWait(u)
  <2>1. ASSUME NEW w, work' = [work EXCEPT ![u] = w] PROVE work'[u] = w
    BY <1>0, <2>1
  <2>2. \A how, page, stage : /\ Ended(u, how).request = "none"
                             /\ Fresh(page).request = "none"
                             /\ [Fresh(page) EXCEPT !.stage = stage].request = "none"
    BY DEF Ended, Fresh
  <2>3. ASSUME NEW w, w.request = "none", DOMAIN w = DOMAIN Fresh(0), Fetch(u, w)
        PROVE  work'[u].request # "open"
    <3>1. work' = [work EXCEPT ![u] = [w EXCEPT !.request = "waiting", !.wait = Delay - since]]
      BY <1>7, <2>3 DEF Fetch
    <3> QED
      BY <2>1, <2>3, <3>1 DEF Fresh
  <2>4. CASE AskForList(u)
    <3>1. CASE HasAddress(u)
      <4>1. work[u].request = "none" /\ DOMAIN work[u] = DOMAIN Fresh(0)
        BY <1>0, <2>4 DEF AskForList, Fetching, Fresh
      <4> QED
        BY <2>3, <2>4, <3>1, <4>1 DEF AskForList
    <3>2. CASE ~HasAddress(u)
      BY <2>1, <2>2, <2>4, <3>2 DEF AskForList
    <3> QED
      BY <3>1, <3>2
  <2>5. CASE AskForDetail(u)
    <3>1. PICK r \in read[u].current :
            \/ UNCHANGED <<since, own, work>>
            \/ Fetch(u, [Fresh(work[u].page) EXCEPT !.stage = "detail", !.row = r])
      BY <2>5 DEF AskForDetail
    <3> DEFINE w == [Fresh(work[u].page) EXCEPT !.stage = "detail", !.row = r]
    <3>2. w.request = "none" /\ DOMAIN w = DOMAIN Fresh(0)
      BY DEF Fresh
    <3> HIDE DEF w
    <3>3. Fetch(u, w) => work'[u].request # "open"
      BY <2>3, <3>2
    <3> QED
      BY <3>1, <3>3 DEF w
  <2>6. CASE Retry(u)
    BY <1>0, <2>6 DEF Retry, Fetching
  <2>7. CASE ListArrives(u)
    BY <2>1, <2>2, <2>7 DEF ListArrives
  <2>8. CASE ListFails(u)
    BY <2>1, <2>2, <2>8 DEF ListFails
  <2>11. CASE ListIsNone(u)
    BY <2>1, <2>2, <2>11 DEF ListIsNone
  <2>9. CASE DetailArrives(u) \/ DetailFails(u)
    BY <2>1, <2>2, <2>9 DEF DetailArrives, DetailFails
  <2>10. CASE NextPage(u)
    BY <2>1, <2>2, <2>10 DEF NextPage
  <2> QED
    BY <1>5, <1>6, <1>7, <2>4, <2>5, <2>6, <2>7, <2>8, <2>9, <2>10, <2>11 DEF TaskStep
<1> QED
  BY <1>1, <1>2, <1>7

\* Two requests of one source, the retries among them, are at least the delay or
\* the first backoff apart, whatever the other sources of the run send: the rate
\* limit looks at the clock once, and that is enough for a task's own requests.
THEOREM SpacedRequests == Spec => RequestsAreSpaced
<1>1. SpaceInv /\ [Next]_vars =>
        [\A t \in Running : work[t].request # "open" /\ work'[t].request = "open" =>
           own[t] >= Least(Delay, Backoff)]_vars
  BY StepIsSpaced DEF Spacing
<1> QED
  BY <1>1, SpaceInit, SpaceStep, PTL DEF Spec, RequestsAreSpaced

-----------------------------------------------------------------------------
(* What the pages of a board show.                                         *)

Plan ==
  [strategy : Strategies, board : Seq(RowKinds), limit : Nat \ {0}, skin : STRING,
   token : BOOLEAN]

\* The unpinned rows that the strategy can read, those of one page among them,
\* and those of the pages before it.
Readable(p) == Addressable(p) \ Pinned(p)
OnPage(p, k) ==
  {r \in Readable(p) : k * p.limit <= Rank(p, r) /\ Rank(p, r) < (k + 1) * p.limit}
Above(p, k) == {r \in Readable(p) : Rank(p, r) < k * p.limit}

\* Where a page starts.
LEMMA Offsets ==
  ASSUME NEW p \in Plan, NEW k \in Nat
  PROVE  /\ p.limit \in Nat \ {0} /\ k * p.limit \in Nat
         /\ (k + 1) * p.limit = k * p.limit + p.limit
         /\ k = 0 => k * p.limit = 0
         /\ k > 0 => k * p.limit >= p.limit
<1> DEFINE n == p.limit
<1>1. n \in Nat \ {0} BY DEF Plan
<1> HIDE DEF n
<1>2. k * n \in Nat /\ (k + 1) * n = k * n + n BY <1>1
<1>3. k = 0 => k * n = 0 BY <1>1
<1>4. k > 0 => k * n >= n BY <1>1
<1> QED BY <1>1, <1>2, <1>3, <1>4 DEF n

\* A row ranks below the size of its board.
LEMMA RankBelowSize ==
  ASSUME NEW p \in Plan
  PROVE  /\ IsFiniteSet(DOMAIN p.board) /\ Cardinality(DOMAIN p.board) \in Nat
         /\ Cardinality(DOMAIN p.board) = 0 => DOMAIN p.board = {}
         /\ \A r \in DOMAIN p.board :
              Rank(p, r) \in Nat /\ Rank(p, r) < Cardinality(DOMAIN p.board)
<1>1. Len(p.board) \in Nat /\ DOMAIN p.board = 1 .. Len(p.board)
  BY DEF Plan
<1>2. IsFiniteSet(DOMAIN p.board) BY <1>1, FS_Interval
<1>3. Cardinality(DOMAIN p.board) \in Nat BY <1>2, FS_CardinalityType
<1>4. ASSUME NEW r \in DOMAIN p.board
      PROVE  Rank(p, r) \in Nat /\ Rank(p, r) < Cardinality(DOMAIN p.board)
  <2> DEFINE before == {q \in Unpinned(p) : q < r}
  <2>1. before \in SUBSET DOMAIN p.board /\ r \notin before
    BY <1>1 DEF Unpinned
  <2>2. /\ IsFiniteSet(before) /\ Cardinality(before) <= Cardinality(DOMAIN p.board)
        /\ Cardinality(before) # Cardinality(DOMAIN p.board)
    BY <1>2, <2>1, FS_Subset
  <2>3. Cardinality(before) \in Nat BY <2>2, FS_CardinalityType
  <2> QED BY <1>3, <2>2, <2>3 DEF Rank
<1>5. Cardinality(DOMAIN p.board) = 0 => DOMAIN p.board = {} BY <1>2, FS_EmptySet
<1> QED BY <1>2, <1>3, <1>4, <1>5

\* A page shows its pinned rows, and the others by their ranks.
LEMMA ShownRows ==
  ASSUME NEW p \in Plan, NEW k \in Nat
  PROVE  /\ ShownOnPage(p, k + 1) = Shown(p, k * p.limit)
         /\ Shown(p, k * p.limit) \subseteq DOMAIN p.board
         /\ Pinned(p) \subseteq Shown(p, k * p.limit)
         /\ \A r \in DOMAIN p.board \ Pinned(p) :
              r \in Shown(p, k * p.limit) <=>
                k * p.limit <= Rank(p, r) /\ Rank(p, r) < (k + 1) * p.limit
<1>1. k + 1 - 1 = k OBVIOUS
<1>2. ShownOnPage(p, k + 1) = Shown(p, k * p.limit) BY <1>1 DEF ShownOnPage
<1> QED BY <1>2, Offsets DEF Shown, Pinned, Unpinned

\* Every strategy reads the same of a page: the rows that rank there and that it
\* can read, and the pinned ones on the first page at least.  Its offsets and
\* page numbers tile the board.
LEMMA ListFacts ==
  ASSUME NEW p \in Plan, NEW k \in Nat
  PROVE  /\ ListOf(p, k) \subseteq Addressable(p)
         /\ ListOf(p, k) \ Pinned(p) = OnPage(p, k)
         /\ k = 0 => Pinned(p) \subseteq ListOf(p, k)
<1> DEFINE shown == Shown(p, k * p.limit)
<1>1. /\ ShownOnPage(p, k + 1) = shown
      /\ shown \subseteq DOMAIN p.board /\ Pinned(p) \subseteq shown
      /\ \A r \in DOMAIN p.board \ Pinned(p) :
           r \in shown <=> k * p.limit <= Rank(p, r) /\ Rank(p, r) < (k + 1) * p.limit
  BY ShownRows
<1>2. p.strategy \in Strategies BY DEF Plan
<1>3. \A r \in Pinned(p) : r \in DOMAIN p.board /\ p.board[r] = "pinned" BY DEF Pinned
<1> DEFINE Reads(odd) ==
             /\ Addressable(p) = {r \in DOMAIN p.board : p.board[r] \notin odd}
             /\ \/ ListOf(p, k) = {r \in shown : p.board[r] \notin odd}
                \/ k > 0 /\ ListOf(p, k) = {r \in shown \ Pinned(p) : p.board[r] \notin odd}
             /\ "pinned" \notin odd
<1>4. ASSUME NEW odd, Reads(odd)
      PROVE  /\ ListOf(p, k) \subseteq Addressable(p)
             /\ ListOf(p, k) \ Pinned(p) = OnPage(p, k)
             /\ k = 0 => Pinned(p) \subseteq ListOf(p, k)
  <2> HIDE DEF shown
  <2>1. OnPage(p, k) = {r \in shown : p.board[r] \notin odd} \ Pinned(p)
    BY <1>1, <1>4 DEF OnPage, Readable
  <2> QED BY <1>1, <1>3, <1>4, <2>1
<1>5. CASE p.strategy = "skku-standard"
  <2>1. Reads({"unlinked"}) BY <1>5 DEF ListOf, Addressable, SkkuStandardList, Linked
  <2> QED BY <1>4, <2>1
<1>6. CASE p.strategy = "gnuboard" /\ p.skin = "table"
  <2>1. Reads({"unlinked", "untitled", "short"})
    BY <1>1, <1>6 DEF ListOf, Addressable, GnuboardList, Linked, Titled, Whole
  <2> QED BY <1>4, <2>1
<1>7. CASE p.strategy = "gnuboard" /\ p.skin # "table"
  <2>1. Reads({"unlinked", "untitled"})
    BY <1>1, <1>7 DEF ListOf, Addressable, GnuboardList, Linked, Titled
  <2> QED BY <1>4, <2>1
<1>8. CASE p.strategy = "gnuboard-custom"
  <2>1. Reads({"unlinked", "untitled", "short"})
    BY <1>1, <1>8 DEF ListOf, Addressable, GnuboardCustomList, Linked, Titled, Whole
  <2> QED BY <1>4, <2>1
<1>9. CASE p.strategy = "custom-php"
  <2>1. Reads({"unlinked", "untitled", "short"})
    BY <1>1, <1>9 DEF ListOf, Addressable, CustomPhpList, Linked, Titled, Whole
  <2> QED BY <1>4, <2>1
<1>10. CASE p.strategy = "skkumed-asp"
  <2>1. Reads({"unlinked"}) BY <1>1, <1>10 DEF ListOf, Addressable, SkkumedAspList, Linked
  <2> QED BY <1>4, <2>1
<1>11. CASE p.strategy = "jsp-dorm"
  <2>1. Reads({"unlinked", "short"})
    BY <1>11 DEF ListOf, Addressable, JspDormList, Linked, Whole
  <2> QED BY <1>4, <2>1
<1>12. CASE p.strategy = "wordpress-api"
  <2> DEFINE none == {}
  <2>1. Reads(none) BY <1>1, <1>12 DEF ListOf, Addressable, WordPressList
  <2> HIDE DEF none
  <2> QED BY <1>4, <2>1
<1>13. CASE p.strategy = "pyxis-api"
  <2> DEFINE size == Cardinality(DOMAIN p.board)
  <2>1. Addressable(p) = DOMAIN p.board BY <1>13 DEF Addressable
  <2>2. ListOf(p, k) = IF k * p.limit >= size THEN {} ELSE shown
    BY <1>13 DEF ListOf, PyxisList, TotalCount
  <2>3. CASE ~(k * p.limit >= size)
    <3> DEFINE none == {}
    <3>1. Reads(none) BY <2>1, <2>2, <2>3
    <3> HIDE DEF none
    <3> QED BY <1>4, <3>1
  <2>4. CASE k * p.limit >= size
    <3>1. size \in Nat /\ k * p.limit \in Nat /\ (size = 0 => DOMAIN p.board = {})
          /\ \A r \in DOMAIN p.board : Rank(p, r) \in Nat /\ Rank(p, r) < size
      BY RankBelowSize, Offsets
    <3>2. ListOf(p, k) = {} BY <2>2, <2>4
    <3>3. OnPage(p, k) = {} BY <2>1, <2>4, <3>1 DEF OnPage, Readable
    <3>4. k = 0 => Pinned(p) = {} BY <1>3, <2>4, <3>1, Offsets
    <3> QED BY <3>2, <3>3, <3>4
  <2> QED BY <2>3, <2>4
<1>14. CASE p.strategy = "webflow-skku"
  <2>1. Reads({"unlinked", "untitled", "short"})
    BY <1>1, <1>14 DEF ListOf, Addressable, WebflowList, Linked, Titled, Whole
  <2> QED BY <1>4, <2>1
<1> QED
  BY <1>2, <1>5, <1>6, <1>7, <1>8, <1>9, <1>10, <1>11, <1>12, <1>13, <1>14 DEF Strategies

-----------------------------------------------------------------------------
(* The walk.                                                               *)

\* The page behind the first k adds its rows to theirs, none of them again.
LEMMA PagesTile ==
  ASSUME NEW p \in Plan, NEW k \in Nat
  PROVE  /\ Above(p, k + 1) = Above(p, k) \cup OnPage(p, k)
         /\ Above(p, k) \cap OnPage(p, k) = {}
<1>1. /\ k * p.limit \in Nat /\ p.limit \in Nat
      /\ (k + 1) * p.limit = k * p.limit + p.limit
  BY Offsets
<1>2. \A r \in Readable(p) : Rank(p, r) \in Nat
  BY RankBelowSize DEF Readable, Addressable
<1> DEFINE here == k * p.limit
           next == (k + 1) * p.limit
<1>3. here \in Nat /\ next \in Nat /\ here <= next BY <1>1
<1>4. /\ Above(p, k) = {r \in Readable(p) : Rank(p, r) < here}
      /\ Above(p, k + 1) = {r \in Readable(p) : Rank(p, r) < next}
      /\ OnPage(p, k) = {r \in Readable(p) : here <= Rank(p, r) /\ Rank(p, r) < next}
  BY DEF Above, OnPage
<1> HIDE DEF here, next
<1> QED BY <1>2, <1>3, <1>4

\* No strategy needs more of a row than a pinned one has.
LEMMA PinnedAreRead ==
  ASSUME NEW p \in Plan
  PROVE  Pinned(p) \subseteq Addressable(p)
BY ListFacts

\* Behind an empty page there is nothing to read.
LEMMA EmptyPageEnds ==
  ASSUME NEW p \in Plan, PagesHoldArticles(p), NEW k \in 0 .. MaxPages, ListOf(p, k) = {}
  PROVE  /\ Above(p, k) = Readable(p)
         /\ k = 0 => Pinned(p) = {}
<1>1. k \in Nat BY LimitsAssumption
<1>2. OnPage(p, k) = {} /\ (k = 0 => Pinned(p) = {}) BY <1>1, ListFacts
<1>3. ASSUME NEW r \in Readable(p) PROVE Rank(p, r) < k * p.limit
  <2>1. Rank(p, r) \in Nat /\ k * p.limit \in Nat
    BY <1>1, RankBelowSize, Offsets DEF Readable, Addressable
  <2>2. ASSUME k * p.limit <= Rank(p, r) PROVE FALSE
    <3>1. PICK q \in (Shown(p, k * p.limit) \cap Addressable(p)) \ Pinned(p) : TRUE
      BY <2>2 DEF PagesHoldArticles, Readable
    <3>2. q \in DOMAIN p.board \ Pinned(p) BY <3>1 DEF Addressable
    <3>3. q \in OnPage(p, k) BY <1>1, <3>1, <3>2, ShownRows DEF OnPage, Readable
    <3> QED BY <1>2, <3>3
  <2> QED BY <2>1, <2>2
<1> QED BY <1>2, <1>3 DEF Above

\* List pages that a walk has read.
PagesRead(w) == IF w.stage = "list" THEN w.page ELSE w.page + 1

\* While a walk goes on it has read what the pages before its place hold; a token
\* is there unless there is no page to use it for or the first page did not show
\* it.
Underway(p, w, d) ==
  /\ w.how = "" /\ d.twice = {}
  /\ d.rows \subseteq Addressable(p)
  /\ d.rows \ Pinned(p) = Above(p, PagesRead(w))
  /\ PagesRead(w) > 0 => Pinned(p) \subseteq d.rows
  /\ p.strategy = "webflow-skku" /\ PagesRead(w) > 0 =>
       d.token \/ Cardinality(DOMAIN p.board) <= p.limit \/ "no_token" \in d.failed

\* What the end at an empty page means: EmptyPageIsTheEnd of one walk.
ReadAll(p, d) ==
  d.failed \cap PassForTheEnd(p.strategy) = {} /\ PagesHoldArticles(p) =>
    d.rows = Addressable(p) /\ d.twice = {}

PlaceType(p, w, d) ==
  /\ w \in [stage : {"list", "page", "detail", "ended"}, page : 0 .. MaxPages,
            row : DOMAIN p.board \cup {0}, request : {"none", "waiting", "open"},
            attempt : 0 .. MaxRetries, wait : 0 .. MaxWait,
            how : {"", "empty_page", "list_fetch_failed", "max_pages"}]
  /\ d \in [rows : SUBSET DOMAIN p.board, twice : SUBSET DOMAIN p.board,
            current : SUBSET DOMAIN p.board, cache : SUBSET DOMAIN p.board,
            token : BOOLEAN, failed : SUBSET Failures]

Place(p, w, d) ==
  /\ PlaceType(p, w, d)
  /\ w.stage # "ended" => Underway(p, w, d)
  /\ w.how = "empty_page" => ReadAll(p, d)

WalkInv ==
  /\ SpaceInv
  /\ plan \in Plans
  /\ read = [t \in Running |-> read[t]]
  /\ \A t \in Running : Place(plan[t], work[t], read[t])

\* A task of the run crawls one of the plans.
LEMMA PlanFacts ==
  ASSUME plan \in Plans, NEW t \in Running
  PROVE  plan[t] \in Plan
BY PlansAssumption DEF Plan, Running

\* One task's place and what it has read change.
LEMMA OneWalk ==
  ASSUME WalkInv, SpaceInv', NEW t \in Running, UNCHANGED plan, NEW w, NEW d,
         work' = [work EXCEPT ![t] = w],
         read' = [read EXCEPT ![t] = d] \/ (read' = read /\ d = read[t]),
         Place(plan[t], w, d)
  PROVE  WalkInv'
<1>1. Running' = Running BY DEF Running
<1>2. work = [u \in Running |-> work[u]] /\ read = [u \in Running |-> read[u]]
  BY DEF WalkInv, SpaceInv, Clocks
<1>3. work'[t] = w /\ \A u \in Running \ {t} : work'[u] = work[u] BY <1>2
<1>4. /\ read' = [u \in Running |-> read'[u]]
      /\ read'[t] = d /\ \A u \in Running \ {t} : read'[u] = read[u]
  BY <1>2
<1>5. ASSUME NEW u \in Running PROVE Place(plan'[u], work'[u], read'[u])
  BY <1>3, <1>4 DEF WalkInv
<1> QED BY <1>1, <1>4, <1>5 DEF WalkInv

\* Every wait is at most the longest one.
LEMMA Waits ==
  /\ MaxWait \in Nat /\ Delay <= MaxWait
  /\ \A k \in 0 .. MaxRetries - 1 : Backoff * 2 ^ k \in 0 .. MaxWait
<1> DEFINE last == 2 ^ (MaxRetries - 1)
<1>1. MaxRetries - 1 \in 0 .. MaxRetries - 1 BY Times
<1>2. last \in Nat \ {0} BY <1>1, DoublingAssumption
<1>3. \A k \in 0 .. MaxRetries - 1 : 2 ^ k \in Nat \ {0} /\ 2 ^ k <= last
  BY DoublingAssumption
<1>4. MaxWait = Delay + Backoff * last BY DEF MaxWait
<1> HIDE DEF last
<1>5. Backoff * last \in Nat BY <1>2, Times
<1>6. MaxWait \in Nat /\ Delay <= MaxWait /\ Backoff * last <= MaxWait
  BY <1>4, <1>5, Times
<1>7. ASSUME NEW k \in 0 .. MaxRetries - 1 PROVE Backoff * 2 ^ k \in 0 .. MaxWait
  <2> DEFINE power == 2 ^ k
  <2>1. power \in Nat /\ power <= last BY <1>3
  <2> HIDE DEF power
  <2>2. Backoff * power \in Nat /\ Backoff * power <= Backoff * last
    BY <1>2, <2>1, Times
  <2>3. Backoff * power \in 0 .. MaxWait BY <1>5, <1>6, <2>2
  <2> QED BY <2>3 DEF power
<1> QED BY <1>6, <1>7

\* Places that differ from w in the fetch alone, no wait longer than the longest.
Slot(w) ==
  [stage : {w.stage}, page : {w.page}, row : {w.row}, how : {w.how},
   request : {"none", "waiting", "open"}, attempt : 0 .. MaxRetries, wait : 0 .. MaxWait]

\* What is true of a walk does not depend on where it is in its fetch.
LEMMA SlotKeeps ==
  ASSUME NEW p, NEW w, NEW d, Place(p, w, d), NEW next \in Slot(w)
  PROVE  Place(p, next, d)
<1>1. next.stage = w.stage /\ next.page = w.page /\ next.row = w.row /\ next.how = w.how
  BY DEF Slot
<1>2. PlaceType(p, next, d) BY <1>1 DEF Place, PlaceType, Slot
<1>3. w.stage # "ended" => Underway(p, w, d) BY DEF Place
<1>4. w.how = "empty_page" => ReadAll(p, d) BY DEF Place
<1>5. PagesRead(next) = PagesRead(w) BY <1>1 DEF PagesRead
<1>6. next.stage # "ended" => Underway(p, next, d) BY <1>1, <1>3, <1>5 DEF Underway
<1> QED BY <1>1, <1>2, <1>4, <1>6 DEF Place

\* A place is one of those that differ from it in the fetch alone.
LEMMA InSlot ==
  ASSUME NEW p, NEW w, NEW d, PlaceType(p, w, d)
  PROVE  w \in Slot(w)
BY DEF PlaceType, Slot

\* A request that goes out, or its wait, leaves the walk where it is.
LEMMA SentSlot ==
  ASSUME NEW t \in Running, NEW w, w \in Slot(w), Sent(t, w), w.attempt < MaxRetries
  PROVE  \E next \in Slot(w) : work' = [work EXCEPT ![t] = next]
<1> DEFINE more == w.attempt + 1
           next == [w EXCEPT !.request = "open", !.attempt = more, !.wait = 0]
<1>1. w.attempt \in 0 .. MaxRetries BY DEF Slot
<1>2. more \in 0 .. MaxRetries BY <1>1, Times
<1>3. 0 \in 0 .. MaxWait BY Waits
<1> HIDE DEF more
<1>4. next \in Slot(w) BY <1>2, <1>3 DEF Slot
<1>5. work' = [work EXCEPT ![t] = next] BY DEF Sent, more
<1> QED BY <1>4, <1>5

\* So is one with another wait.
LEMMA WaitSlot ==
  ASSUME NEW w, w \in Slot(w), NEW rest \in 0 .. MaxWait, NEW request \in {"none", "waiting", "open"}
  PROVE  [w EXCEPT !.request = request, !.wait = rest] \in Slot(w)
BY DEF Slot

\* A fetch begins with a wait or with its first request.
LEMMA FetchSlot ==
  ASSUME SpaceInv, NEW t \in Running, NEW w, w \in Slot(w), w.attempt = 0, Fetch(t, w)
  PROVE  \E next \in Slot(w) : work' = [work EXCEPT ![t] = next]
<1>1. CASE since >= Delay
  BY <1>1, SentSlot, Times DEF Fetch
<1>2. CASE ~(since >= Delay)
  <2>1. since \in 0 .. Delay BY DEF SpaceInv, Clocks
  <2> DEFINE rest == Delay - since
  <2>2. rest \in 0 .. MaxWait BY <2>1, Times, Waits
  <2>3. work' = [work EXCEPT ![t] = [w EXCEPT !.request = "waiting", !.wait = rest]]
    BY <1>2 DEF Fetch
  <2> HIDE DEF rest
  <2> QED BY <2>2, <2>3, WaitSlot
<1> QED BY <1>1, <1>2

PlaceWork(p) ==
  [stage : {"list", "page", "detail", "ended"}, page : 0 .. MaxPages,
   row : DOMAIN p.board \cup {0}, request : {"none", "waiting", "open"},
   attempt : 0 .. MaxRetries, wait : 0 .. MaxWait,
   how : {"", "empty_page", "list_fetch_failed", "max_pages"}]
PlaceRead(p) ==
  [rows : SUBSET DOMAIN p.board, twice : SUBSET DOMAIN p.board,
   current : SUBSET DOMAIN p.board, cache : SUBSET DOMAIN p.board,
   token : BOOLEAN, failed : SUBSET Failures]

\* The places where a fetch, a page or the walk is over.
LEMMA FreshPlaces ==
  ASSUME NEW p, NEW page \in 0 .. MaxPages
  PROVE  /\ Fresh(page) \in PlaceWork(p)
         /\ Fresh(page).stage = "list" /\ Fresh(page).page = page /\ Fresh(page).how = ""
<1>1. 0 \in 0 .. MaxRetries BY Times
<1>2. 0 \in 0 .. MaxWait BY Waits
<1> QED BY <1>1, <1>2 DEF Fresh, PlaceWork

\* A page that was read.
LEMMA PagePlace ==
  ASSUME NEW p, NEW page \in 0 .. MaxPages
  PROVE  LET w == [Fresh(page) EXCEPT !.stage = "page"]
         IN  /\ w \in PlaceWork(p) /\ w.stage = "page" /\ w.page = page /\ w.how = ""
             /\ w.attempt = 0
<1>1. 0 \in 0 .. MaxRetries BY Times
<1>2. 0 \in 0 .. MaxWait BY Waits
<1> QED BY <1>1, <1>2 DEF Fresh, PlaceWork

\* The end of a walk.
LEMMA EndPlace ==
  ASSUME NEW p, NEW t \in Running, work[t].page \in 0 .. MaxPages,
         NEW how \in {"empty_page", "list_fetch_failed", "max_pages"}
  PROVE  LET w == Ended(t, how)
         IN  w \in PlaceWork(p) /\ w.stage = "ended" /\ w.how = how
<1>1. 0 \in 0 .. MaxRetries BY Times
<1>2. 0 \in 0 .. MaxWait BY Waits
<1> QED BY <1>1, <1>2 DEF Ended, Fresh, PlaceWork

\* A walk that ends is at its end only if it says that a page was empty.
LEMMA EndsKeep ==
  ASSUME WalkInv, NEW t \in Running, NEW d \in PlaceRead(plan[t]),
         NEW how \in {"empty_page", "list_fetch_failed", "max_pages"},
         how = "empty_page" => ReadAll(plan[t], d)
  PROVE  Place(plan[t], Ended(t, how), d)
<1>1. work[t].page \in 0 .. MaxPages BY DEF WalkInv, Place, PlaceType
<1> DEFINE w == Ended(t, how)
<1>2. w \in PlaceWork(plan[t]) /\ w.stage = "ended" /\ w.how = how BY <1>1, EndPlace
<1> HIDE DEF w
<1>3. Place(plan[t], w, d) BY <1>2 DEF Place, PlaceType, PlaceWork, PlaceRead
<1> QED BY <1>3 DEF w

\* What a walk that goes on has read when the next page is empty: everything.
LEMMA EmptyPageIsLast ==
  ASSUME NEW p \in Plan, PagesHoldArticles(p), NEW w, NEW d,
         w.page \in 0 .. MaxPages, w.stage = "list", Underway(p, w, d),
         \/ ListOf(p, w.page) = {}
         \/ /\ p.strategy = "webflow-skku" /\ w.page > 0 /\ ~d.token
            /\ "no_token" \notin d.failed
  PROVE  d.rows = Addressable(p) /\ d.twice = {}
<1> DEFINE k == w.page
<1>1. PagesRead(w) = k /\ k \in Nat BY LimitsAssumption DEF PagesRead
<1>2. Above(p, k) = Readable(p) /\ (k = 0 => Pinned(p) = {})
  <2>1. CASE ListOf(p, k) = {} BY <2>1, EmptyPageEnds
  <2>2. CASE /\ p.strategy = "webflow-skku" /\ k > 0 /\ ~d.token
             /\ "no_token" \notin d.failed
    <3>1. Cardinality(DOMAIN p.board) <= p.limit BY <1>1, <2>2 DEF Underway
    <3>2. p.limit \in Nat /\ k * p.limit \in Nat /\ k * p.limit >= p.limit
      BY <1>1, <2>2, Offsets
    <3>3. \A r \in Readable(p) : Rank(p, r) < k * p.limit
      BY <3>1, <3>2, RankBelowSize DEF Readable, Addressable
    <3> QED BY <2>2, <3>3 DEF Above
  <2> QED BY <2>1, <2>2
<1>3. d.rows \ Pinned(p) = Readable(p) /\ d.rows \subseteq Addressable(p)
  BY <1>1, <1>2 DEF Underway
<1>4. Pinned(p) \subseteq d.rows
  <2>1. k = 0 \/ PagesRead(w) > 0 BY <1>1
  <2>2. PagesRead(w) > 0 => Pinned(p) \subseteq d.rows BY DEF Underway
  <2> QED BY <1>2, <2>1, <2>2
<1>5. Pinned(p) \subseteq Addressable(p) BY PinnedAreRead
<1>6. d.rows = Addressable(p) BY <1>3, <1>4, <1>5 DEF Readable
<1> QED BY <1>6 DEF Underway

\* A page that was read: its rows are new, and there is one page more.
LEMMA PageArrives ==
  ASSUME WalkInv, NEW t \in Running, ListArrives(t), SpaceInv'
  PROVE  WalkInv'
<1> DEFINE p == plan[t]
           k == work[t].page
           rows == ListOf(p, k)
           d == read[t]
           cache == IF p.strategy = "wordpress-api" THEN d.cache \cup rows ELSE d.cache
<1>0. PICK found \in BOOLEAN :
        /\ Discovers(t, found)
        /\ work' = [work EXCEPT ![t] = IF rows = {} THEN Ended(t, "empty_page")
                                       ELSE [Fresh(k) EXCEPT !.stage = "page"]]
        /\ read' = [read EXCEPT ![t] = [d EXCEPT
              !.rows = @ \cup rows,
              !.twice = @ \cup ((rows \cap d.rows) \ Pinned(p)),
              !.current = rows,
              !.cache = IF p.strategy = "wordpress-api" THEN @ \cup rows ELSE @,
              !.token = @ \/ found,
              !.failed = IF MissesToken(t, found) THEN @ \cup {"no_token"} ELSE @]]
  BY DEF ListArrives
<1> DEFINE token == d.token \/ found
           failed == IF MissesToken(t, found) THEN d.failed \cup {"no_token"} ELSE d.failed
           next == [d EXCEPT !.rows = @ \cup rows,
                             !.twice = @ \cup ((rows \cap d.rows) \ Pinned(p)),
                             !.current = rows, !.cache = cache, !.token = token,
                             !.failed = failed]
<1>1. /\ p \in Plan
      /\ work[t] \in PlaceWork(p) /\ d \in PlaceRead(p)
      /\ work[t].stage = "list" /\ Underway(p, work[t], d) /\ k \in 0 .. MaxPages
  BY PlanFacts DEF WalkInv, Place, PlaceType, PlaceWork, PlaceRead, ListArrives
<1>2. k \in Nat /\ PagesRead(work[t]) = k BY <1>1, LimitsAssumption DEF PagesRead
<1>3. /\ read' = [read EXCEPT ![t] = next] /\ UNCHANGED plan
      /\ work' = [work EXCEPT ![t] = IF rows = {} THEN Ended(t, "empty_page")
                                     ELSE [Fresh(k) EXCEPT !.stage = "page"]]
  BY <1>0 DEF ListArrives, WalkInv
<1>4. /\ rows \subseteq Addressable(p) /\ rows \ Pinned(p) = OnPage(p, k)
      /\ k = 0 => Pinned(p) \subseteq rows
      /\ Addressable(p) \subseteq DOMAIN p.board
  BY <1>1, <1>2, ListFacts DEF Addressable
<1>5. /\ d.rows \subseteq Addressable(p) /\ d.rows \ Pinned(p) = Above(p, k)
      /\ d.twice = {} /\ (k > 0 => Pinned(p) \subseteq d.rows)
  BY <1>1, <1>2 DEF Underway
<1>6. (rows \cap d.rows) \ Pinned(p) = {} BY <1>1, <1>2, <1>4, <1>5, PagesTile
<1>7. cache \in SUBSET DOMAIN p.board /\ token \in BOOLEAN /\ failed \in SUBSET Failures
  BY <1>1, <1>4 DEF PlaceRead, Failures
<1>8. /\ next \in PlaceRead(p)
      /\ next.rows = d.rows \cup rows /\ next.twice = {} /\ next.failed = failed
      /\ next.token = token
  <2> DEFINE all == d.rows \cup rows
             twice == d.twice \cup ((rows \cap d.rows) \ Pinned(p))
  <2>1. all \in SUBSET DOMAIN p.board /\ rows \in SUBSET DOMAIN p.board BY <1>4, <1>5
  <2>2. twice = {} BY <1>5, <1>6
  <2>3. next = [d EXCEPT !.rows = all, !.twice = twice, !.current = rows,
                         !.cache = cache, !.token = token, !.failed = failed]
    OBVIOUS
  <2> HIDE DEF next, all, twice, cache, token, failed, rows
  <2>4. /\ next \in PlaceRead(p) /\ next.rows = all /\ next.twice = twice
        /\ next.failed = failed /\ next.token = token
    BY <1>1, <1>7, <2>1, <2>2, <2>3 DEF PlaceRead
  <2> QED BY <2>2, <2>4 DEF all
<1> HIDE DEF next
<1>9. CASE rows = {}
  <2>1. PagesHoldArticles(p) => d.rows = Addressable(p) BY <1>1, <1>9, EmptyPageIsLast
  <2>2. ReadAll(p, next) BY <1>8, <1>9, <2>1 DEF ReadAll
  <2>3. Place(p, Ended(t, "empty_page"), next) BY <1>8, <2>2, EndsKeep
  <2> QED BY <1>3, <1>9, <2>3, OneWalk
<1>10. CASE rows # {}
  <2> DEFINE w == [Fresh(k) EXCEPT !.stage = "page"]
  <2>1. w \in PlaceWork(p) /\ w.stage = "page" /\ w.page = k /\ w.how = ""
    BY <1>1, PagePlace
  <2> HIDE DEF w
  <2>2. PagesRead(w) = k + 1 BY <2>1 DEF PagesRead
  <2>3. next.rows \ Pinned(p) = Above(p, k + 1)
    BY <1>1, <1>2, <1>4, <1>5, <1>8, PagesTile
  <2>4. Pinned(p) \subseteq next.rows
    <3>1. k = 0 \/ k > 0 BY <1>2
    <3> QED BY <1>4, <1>5, <1>8, <3>1
  <2>5. p.strategy = "webflow-skku" =>
          token \/ Cardinality(DOMAIN p.board) <= p.limit \/ "no_token" \in failed
    <3>1. k = 0 \/ k > 0 BY <1>2
    <3>2. CASE k = 0
      <4>1. Cardinality(DOMAIN p.board) \in Nat /\ p.limit \in Nat
        BY <1>1, RankBelowSize, Offsets DEF Plan
      <4> QED BY <3>2, <4>1 DEF MissesToken, LinksOn, Rows
    <3>3. CASE k > 0 BY <1>1, <1>2, <3>3 DEF Underway
    <3> QED BY <3>1, <3>2, <3>3
  <2>6. Underway(p, w, next)
    BY <1>4, <1>5, <1>8, <2>1, <2>2, <2>3, <2>4, <2>5 DEF Underway
  <2>7. Place(p, w, next)
    BY <1>8, <2>1, <2>6 DEF Place, PlaceType, PlaceWork, PlaceRead
  <2>8. work' = [work EXCEPT ![t] = w] BY <1>3, <1>10 DEF w
  <2> QED BY <1>3, <2>7, <2>8, OneWalk
<1> QED BY <1>9, <1>10

\* What is underway stays so, as long as no page is read.
LEMMA GoesOn ==
  ASSUME NEW p, NEW v, NEW w \in PlaceWork(p), NEW d, NEW next \in PlaceRead(p),
         Underway(p, v, d), w.stage # "ended", w.how = "", PagesRead(w) = PagesRead(v),
         next.rows = d.rows, next.twice = d.twice, next.failed = d.failed,
         next.token = d.token
  PROVE  Place(p, w, next)
<1>1. Underway(p, w, next) BY DEF Underway
<1>2. PlaceType(p, w, next) BY DEF PlaceType, PlaceWork, PlaceRead
<1> QED BY <1>1, <1>2 DEF Place

\* What the invariant says of one task.
LEMMA PlaceFacts ==
  ASSUME WalkInv, NEW t \in Running
  PROVE  /\ plan[t] \in Plan
         /\ work[t] \in PlaceWork(plan[t]) /\ read[t] \in PlaceRead(plan[t])
         /\ work[t].page \in 0 .. MaxPages /\ work[t] \in Slot(work[t])
         /\ Place(plan[t], work[t], read[t])
         /\ work[t].stage # "ended" => Underway(plan[t], work[t], read[t])
         /\ Fetching(work[t])
<1>1. Place(plan[t], work[t], read[t]) /\ PlaceType(plan[t], work[t], read[t])
  BY DEF WalkInv, Place
<1>2. work[t] \in PlaceWork(plan[t]) /\ read[t] \in PlaceRead(plan[t])
  BY <1>1 DEF PlaceType, PlaceWork, PlaceRead
<1>3. work[t].page \in 0 .. MaxPages BY <1>2 DEF PlaceWork
<1>4. work[t] \in Slot(work[t]) BY <1>1, InSlot
<1>5. work[t].stage # "ended" => Underway(plan[t], work[t], read[t]) BY <1>1 DEF Place
<1>6. Fetching(work[t]) BY DEF WalkInv, SpaceInv
<1>7. plan[t] \in Plan BY PlanFacts DEF WalkInv
<1> QED BY <1>1, <1>2, <1>3, <1>4, <1>5, <1>6, <1>7

\* A step within a fetch.
LEMMA SlotStep ==
  ASSUME WalkInv, SpaceInv', NEW t \in Running, UNCHANGED <<plan, read>>,
         NEW next \in Slot(work[t]), work' = [work EXCEPT ![t] = next]
  PROVE  WalkInv'
<1>1. Place(plan[t], next, read[t]) BY PlaceFacts, SlotKeeps
<1> QED BY <1>1, OneWalk

\* A list is asked for, or has no address and is taken for empty.
LEMMA ListAsked ==
  ASSUME WalkInv, NEW t \in Running, AskForList(t), SpaceInv'
  PROVE  WalkInv'
<1>1. /\ work[t].stage = "list" /\ work[t].request = "none" /\ work[t].attempt = 0
      /\ UNCHANGED <<plan, read>> /\ Underway(plan[t], work[t], read[t])
  BY PlaceFacts DEF AskForList, Fetching
<1>2. CASE HasAddress(t)
  <2>1. Fetch(t, work[t]) BY <1>2 DEF AskForList
  <2>2. \E next \in Slot(work[t]) : work' = [work EXCEPT ![t] = next]
    BY <1>1, <2>1, PlaceFacts, FetchSlot DEF WalkInv
  <2> QED BY <1>1, <2>2, SlotStep
<1>3. CASE ~HasAddress(t)
  <2>1. work' = [work EXCEPT ![t] = Ended(t, "empty_page")] BY <1>3 DEF AskForList
  <2>2. plan[t].strategy = "webflow-skku" /\ work[t].page > 0 /\ ~read[t].token
    BY <1>3 DEF HasAddress
  <2>3. PagesHoldArticles(plan[t]) /\ "no_token" \notin read[t].failed =>
          read[t].rows = Addressable(plan[t]) /\ read[t].twice = {}
    BY <1>1, <2>2, PlaceFacts, EmptyPageIsLast
  <2>4. ReadAll(plan[t], read[t]) BY <2>2, <2>3 DEF ReadAll, PassForTheEnd
  <2>5. Place(plan[t], Ended(t, "empty_page"), read[t]) BY <2>4, PlaceFacts, EndsKeep
  <2> QED BY <1>1, <2>1, <2>5, OneWalk
<1> QED BY <1>2, <1>3

\* The walk ends with a failure, which is remembered.
LEMMA FailureEnds ==
  ASSUME WalkInv, NEW t \in Running, SpaceInv', UNCHANGED plan,
         NEW more \in SUBSET Failures, NEW how \in {"empty_page", "list_fetch_failed"},
         work' = [work EXCEPT ![t] = Ended(t, how)],
         read' = [read EXCEPT ![t].failed = @ \cup more],
         how = "empty_page" =>
           \/ more \cap PassForTheEnd(plan[t].strategy) # {}
           \/ PagesHoldArticles(plan[t]) =>
                read[t].rows = Addressable(plan[t]) /\ read[t].twice = {}
  PROVE  WalkInv'
<1> DEFINE d == read[t]
           failed == d.failed \cup more
           next == [d EXCEPT !.failed = failed]
<1>1. read' = [read EXCEPT ![t] = next] BY DEF WalkInv
<1>2. failed \in SUBSET Failures BY PlaceFacts DEF PlaceRead
<1>3. /\ next \in PlaceRead(plan[t]) /\ next.rows = d.rows /\ next.twice = d.twice
      /\ next.failed = failed
  BY <1>2, PlaceFacts DEF PlaceRead
<1> HIDE DEF next
<1>4. how = "empty_page" => ReadAll(plan[t], next) BY <1>3 DEF ReadAll
<1>5. Place(plan[t], Ended(t, how), next) BY <1>3, <1>4, EndsKeep
<1> QED BY <1>1, <1>5, OneWalk

\* A failed fetch that passes for an empty page is the library's or a 400 of
\* WordPress, which may say that the board has no such page.
LEMMA ListFailed ==
  ASSUME WalkInv, NEW t \in Running, ListFails(t), SpaceInv'
  PROVE  WalkInv'
<1>1. work[t].stage = "list" /\ UNCHANGED plan /\ Underway(plan[t], work[t], read[t])
  BY PlaceFacts DEF ListFails
<1>2. PICK answer \in {"timeout", "5xx", "4xx", "400", "refused"} :
        /\ work' = [work EXCEPT ![t] = Ended(t, IF ErrorIsEmpty(t, answer) THEN "empty_page"
                                                ELSE "list_fetch_failed")]
        /\ read' = [read EXCEPT ![t].failed = @ \cup Recorded(t, answer)]
  BY DEF ListFails
<1>3. PICK how \in {"empty_page", "list_fetch_failed"} :
        /\ work' = [work EXCEPT ![t] = Ended(t, how)]
        /\ how = "empty_page" => ErrorIsEmpty(t, answer)
  BY <1>2
<1>4. Recorded(t, answer) \in SUBSET Failures BY DEF Recorded, Failures
<1>5. ASSUME how = "empty_page"
      PROVE  \/ Recorded(t, answer) \cap PassForTheEnd(plan[t].strategy) # {}
             \/ PagesHoldArticles(plan[t]) =>
                  read[t].rows = Addressable(plan[t]) /\ read[t].twice = {}
  <2>1. CASE ListOf(plan[t], work[t].page) = {}
    BY <1>1, <2>1, PlaceFacts, EmptyPageIsLast
  <2>2. CASE ListOf(plan[t], work[t].page) # {}
    <3>1. answer \in Recorded(t, answer) BY <2>2 DEF Recorded
    <3>2. answer \in PassForTheEnd(plan[t].strategy)
      BY <1>3, <1>5 DEF ErrorIsEmpty, PassForTheEnd, Failures
    <3> QED BY <3>1, <3>2
  <2> QED BY <2>1, <2>2
<1> QED BY <1>1, <1>2, <1>3, <1>4, <1>5, FailureEnds

\* An answer without a list may be taken for an empty page.
LEMMA NoList ==
  ASSUME WalkInv, NEW t \in Running, ListIsNone(t), SpaceInv'
  PROVE  WalkInv'
<1> DEFINE more == {"no_list"}
<1>1. PICK how \in {"empty_page", "list_fetch_failed"} :
        work' = [work EXCEPT ![t] = Ended(t, how)]
  BY DEF ListIsNone, WithoutList
<1>2. read' = [read EXCEPT ![t].failed = @ \cup more] /\ UNCHANGED plan BY DEF ListIsNone
<1>3. more \in SUBSET Failures /\ more \cap PassForTheEnd(plan[t].strategy) # {}
  BY DEF Failures, PassForTheEnd
<1> HIDE DEF more
<1> QED BY <1>1, <1>2, <1>3, FailureEnds

\* A detail is asked for, or taken from the cache.
LEMMA DetailAsked ==
  ASSUME WalkInv, NEW t \in Running, AskForDetail(t), SpaceInv'
  PROVE  WalkInv'
<1> DEFINE p == plan[t]
           d == read[t]
           v == work[t]
<1>1. /\ v.stage = "page" /\ UNCHANGED plan /\ Underway(p, v, d)
      /\ v \in PlaceWork(p) /\ d \in PlaceRead(p) /\ v.page \in 0 .. MaxPages /\ v.how = ""
  BY PlaceFacts DEF AskForDetail, Underway
<1>2. PICK r \in d.current :
        \/ /\ read' = [read EXCEPT ![t] = [d EXCEPT !.cache = @ \ {r}, !.current = {}]]
           /\ UNCHANGED work
        \/ /\ Fetch(t, [Fresh(v.page) EXCEPT !.stage = "detail", !.row = r])
           /\ read' = [read EXCEPT ![t].current = {}]
  BY DEF AskForDetail
<1>3. r \in DOMAIN p.board BY <1>1 DEF PlaceRead
<1>4. CASE /\ read' = [read EXCEPT ![t] = [d EXCEPT !.cache = @ \ {r}, !.current = {}]]
           /\ UNCHANGED work
  <2> DEFINE cache == d.cache \ {r}
             next == [d EXCEPT !.cache = cache, !.current = {}]
  <2>1. read' = [read EXCEPT ![t] = next] BY <1>4
  <2>2. cache \in SUBSET DOMAIN p.board BY <1>1 DEF PlaceRead
  <2> HIDE DEF cache
  <2>3. /\ next \in PlaceRead(p) /\ next.rows = d.rows /\ next.twice = d.twice
        /\ next.failed = d.failed /\ next.token = d.token
    BY <1>1, <2>2 DEF PlaceRead
  <2> HIDE DEF next
  <2>4. Place(p, v, next) BY <1>1, <2>3, GoesOn
  <2>5. work' = [work EXCEPT ![t] = v] BY <1>4 DEF WalkInv, SpaceInv, Clocks
  <2> QED BY <1>1, <2>1, <2>4, <2>5, OneWalk
<1>5. CASE /\ Fetch(t, [Fresh(v.page) EXCEPT !.stage = "detail", !.row = r])
           /\ read' = [read EXCEPT ![t].current = {}]
  <2> DEFINE w == [Fresh(v.page) EXCEPT !.stage = "detail", !.row = r]
             next == [d EXCEPT !.current = {}]
  <2>1. read' = [read EXCEPT ![t] = next] BY <1>5 DEF WalkInv
  <2>2. /\ next \in PlaceRead(p) /\ next.rows = d.rows /\ next.twice = d.twice
        /\ next.failed = d.failed /\ next.token = d.token
    BY <1>1 DEF PlaceRead
  <2> HIDE DEF next
  <2>3. /\ w \in PlaceWork(p) /\ w.stage = "detail" /\ w.page = v.page /\ w.how = ""
        /\ w.attempt = 0
    <3> DEFINE page == v.page
               at == [Fresh(page) EXCEPT !.stage = "detail", !.row = r]
    <3>1. page \in 0 .. MaxPages BY <1>1
    <3>2. w = at OBVIOUS
    <3> HIDE DEF page, p, w
    <3>3. /\ at \in PlaceWork(p) /\ at.stage = "detail" /\ at.page = page /\ at.how = ""
          /\ at.attempt = 0
      <4>1. 0 \in 0 .. MaxRetries BY Times
      <4>2. 0 \in 0 .. MaxWait BY Waits
      <4> QED BY <1>3, <3>1, <4>1, <4>2 DEF Fresh, PlaceWork
    <3> QED BY <3>2, <3>3 DEF page
  <2>4. Fetch(t, w) BY <1>5
  <2> HIDE DEF w
  <2>5. PagesRead(w) = PagesRead(v) BY <1>1, <2>3 DEF PagesRead
  <2>6. Place(p, w, next) BY <1>1, <2>2, <2>3, <2>5, GoesOn
  <2>7. w \in Slot(w) BY <2>3 DEF PlaceWork, Slot
  <2>8. PICK sent \in Slot(w) : work' = [work EXCEPT ![t] = sent]
    BY <2>3, <2>4, <2>7, FetchSlot DEF WalkInv
  <2>9. Place(p, sent, next) BY <2>6, SlotKeeps
  <2> QED BY <1>1, <2>1, <2>8, <2>9, OneWalk
<1> QED BY <1>2, <1>4, <1>5

\* A detail arrives or fails: the walk is at its page again.
LEMMA DetailEnds ==
  ASSUME WalkInv, NEW t \in Running, DetailArrives(t) \/ DetailFails(t), SpaceInv'
  PROVE  WalkInv'
<1> DEFINE w == [Fresh(work[t].page) EXCEPT !.stage = "page"]
<1>1. /\ work[t].stage = "detail" /\ UNCHANGED <<plan, read>>
      /\ work' = [work EXCEPT ![t] = w] /\ Underway(plan[t], work[t], read[t])
  BY PlaceFacts DEF DetailArrives, DetailFails
<1>2. w \in PlaceWork(plan[t]) /\ w.stage = "page" /\ w.page = work[t].page /\ w.how = ""
  BY PlaceFacts, PagePlace
<1> HIDE DEF w
<1>3. PagesRead(w) = PagesRead(work[t]) BY <1>1, <1>2 DEF PagesRead
<1>4. Place(plan[t], w, read[t]) BY <1>1, <1>2, <1>3, PlaceFacts, GoesOn
<1> QED BY <1>1, <1>4, OneWalk

\* The next page, or the last one that is allowed.
LEMMA PageEnds ==
  ASSUME WalkInv, NEW t \in Running, NextPage(t), SpaceInv'
  PROVE  WalkInv'
<1> DEFINE p == plan[t]
           d == read[t]
           k == work[t].page
           next == [d EXCEPT !.current = {}]
<1>1. /\ work[t].stage = "page" /\ UNCHANGED plan /\ Underway(p, work[t], d)
      /\ d \in PlaceRead(p) /\ k \in 0 .. MaxPages
      /\ work' = [work EXCEPT ![t] = IF k + 1 < MaxPages THEN Fresh(k + 1)
                                     ELSE Ended(t, "max_pages")]
  BY PlaceFacts DEF NextPage
<1>2. read' = [read EXCEPT ![t] = next] BY DEF NextPage, WalkInv
<1>3. /\ next \in PlaceRead(p) /\ next.rows = d.rows /\ next.twice = d.twice
      /\ next.failed = d.failed /\ next.token = d.token
  BY <1>1 DEF PlaceRead
<1> HIDE DEF next
<1>4. CASE k + 1 < MaxPages
  <2> DEFINE w == Fresh(k + 1)
  <2>1. k + 1 \in 0 .. MaxPages BY <1>1, <1>4, LimitsAssumption
  <2>2. w \in PlaceWork(p) /\ w.stage = "list" /\ w.page = k + 1 /\ w.how = ""
    BY <2>1, FreshPlaces
  <2> HIDE DEF w
  <2>3. PagesRead(w) = PagesRead(work[t]) BY <1>1, <2>2 DEF PagesRead
  <2>4. Place(p, w, next) BY <1>1, <1>3, <2>2, <2>3, GoesOn
  <2>5. work' = [work EXCEPT ![t] = w] BY <1>1, <1>4 DEF w
  <2> QED BY <1>1, <1>2, <2>4, <2>5, OneWalk
<1>5. CASE ~(k + 1 < MaxPages)
  <2>1. Place(p, Ended(t, "max_pages"), next) BY <1>3, EndsKeep
  <2> QED BY <1>1, <1>2, <1>5, <2>1, OneWalk
<1> QED BY <1>4, <1>5

\* A wait is over.
LEMMA SendStep ==
  ASSUME WalkInv, NEW t \in Running, SendAfterWait(t), SpaceInv'
  PROVE  WalkInv'
<1>1. /\ work[t].request = "waiting" /\ Sent(t, work[t]) /\ UNCHANGED <<plan, read>>
      /\ work[t].attempt < MaxRetries
  BY PlaceFacts DEF SendAfterWait, Fetching
<1>2. \E next \in Slot(work[t]) : work' = [work EXCEPT ![t] = next]
  BY <1>1, PlaceFacts, SentSlot
<1> QED BY <1>1, <1>2, SlotStep

\* A backoff.
LEMMA RetryStep ==
  ASSUME WalkInv, NEW t \in Running, Retry(t), SpaceInv'
  PROVE  WalkInv'
<1> DEFINE v == work[t]
           pause == Backoff * 2 ^ (v.attempt - 1)
           next == [v EXCEPT !.request = "waiting", !.wait = pause]
<1>1. v.request = "open" /\ v.attempt < MaxRetries /\ v.attempt > 0
      /\ v.attempt \in 0 .. MaxRetries /\ UNCHANGED <<plan, read>>
  BY PlaceFacts DEF Retry, Fetching
<1>2. v.attempt - 1 \in 0 .. MaxRetries - 1 BY <1>1, Times
<1>3. pause \in 0 .. MaxWait BY <1>2, Waits
<1>4. work' = [work EXCEPT ![t] = next] BY DEF Retry, WalkInv, SpaceInv, Clocks
<1> HIDE DEF pause
<1>5. next \in Slot(v) BY <1>3, PlaceFacts, WaitSlot
<1> QED BY <1>1, <1>4, <1>5, SlotStep

\* Time passes for all tasks.
LEMMA TimeStep ==
  ASSUME WalkInv, TimePasses, SpaceInv'
  PROVE  WalkInv'
<1>1. Running' = Running /\ UNCHANGED <<plan, read>> BY DEF TimePasses, Running
<1>2. ASSUME NEW t \in Running
      PROVE  Place(plan'[t], work'[t], read'[t])
  <2> DEFINE rest == IF work[t].wait > 0 THEN work[t].wait - 1 ELSE 0
  <2>1. work[t].wait \in 0 .. MaxWait BY PlaceFacts DEF Slot
  <2>2. rest \in 0 .. MaxWait BY <2>1, Waits
  <2>3. work'[t] = [work[t] EXCEPT !.wait = rest] BY DEF TimePasses
  <2> HIDE DEF rest
  <2>4. work'[t] \in Slot(work[t]) BY <2>2, <2>3, PlaceFacts DEF Slot
  <2>5. Place(plan[t], work'[t], read[t]) BY <2>4, PlaceFacts, SlotKeeps
  <2> QED BY <1>1, <2>5
<1> QED BY <1>1, <1>2 DEF WalkInv

\* At the start nothing has been read.
LEMMA WalkInit == Init => WalkInv
<1> SUFFICES ASSUME Init PROVE WalkInv
  OBVIOUS
<1>1. ASSUME NEW t \in Running PROVE Place(plan[t], work[t], read[t])
  <2> DEFINE p == plan[t]
             w == Fresh(0)
             d == [rows |-> {}, twice |-> {}, current |-> {}, cache |-> {},
                   token |-> p.token, failed |-> {}]
  <2>1. work[t] = w /\ read[t] = d BY DEF Init
  <2>2. p \in Plan BY PlanFacts DEF Init
  <2>3. w \in PlaceWork(p) /\ w.stage = "list" /\ w.page = 0 /\ w.how = ""
    <3>1. 0 \in 0 .. MaxPages BY LimitsAssumption
    <3> QED BY <3>1, FreshPlaces
  <2>4. d \in PlaceRead(p) /\ d.rows = {} /\ d.twice = {}
    BY <2>2 DEF PlaceRead, Plan
  <2>5. PagesRead(w) = 0 BY <2>3 DEF PagesRead
  <2>6. Above(p, 0) = {}
    <3>1. 0 * p.limit = 0 BY <2>2, Offsets
    <3>2. \A r \in Readable(p) : Rank(p, r) \in Nat
      BY <2>2, RankBelowSize DEF Readable, Addressable
    <3> QED BY <3>1, <3>2 DEF Above
  <2> HIDE DEF w, d
  <2>7. Underway(p, w, d)
    <3>1. ~(PagesRead(w) > 0) BY <2>5
    <3>2. d.rows \ Pinned(p) = Above(p, PagesRead(w)) /\ d.rows \subseteq Addressable(p)
      BY <2>4, <2>5, <2>6
    <3> HIDE DEF p
    <3> QED BY <2>3, <2>4, <3>1, <3>2 DEF Underway
  <2>8. Place(p, w, d) BY <2>3, <2>4, <2>7 DEF Place, PlaceType, PlaceWork, PlaceRead
  <2> QED BY <2>1, <2>8
<1>2. SpaceInv BY SpaceInit
<1>3. plan \in Plans /\ read = [t \in Running |-> read[t]] BY DEF Init
<1> QED BY <1>1, <1>2, <1>3 DEF WalkInv

\* Every step keeps what is known of the walks.
LEMMA WalkStep == WalkInv /\ [Next]_vars => WalkInv'
<1> SUFFICES ASSUME WalkInv, [Next]_vars PROVE WalkInv'
  OBVIOUS
<1>1. SpaceInv' BY SpaceStep DEF WalkInv
<1>2. CASE UNCHANGED vars BY <1>1, <1>2 DEF vars, WalkInv, Running
<1>3. ASSUME NEW t \in Running, TaskStep(t) PROVE WalkInv'
  BY <1>1, <1>3, ListAsked, PageArrives, ListFailed, NoList, DetailAsked, DetailEnds,
     SendStep, RetryStep, PageEnds
  DEF TaskStep
<1>4. CASE \E t \in Task : TaskStep(t) BY <1>3, <1>4 DEF TaskStep
<1>5. CASE TimePasses BY <1>1, <1>5, TimeStep
<1> QED BY <1>2, <1>4, <1>5 DEF Next

\* Clocks, fetches and what was read stay within their types: no wait is longer
\* than the longest backoff and no fetch is tried more often than MaxRetries.
THEOREM TypeCorrect == Spec => []TypeOK
<1>1. WalkInv => TypeOK
  BY DEF WalkInv, SpaceInv, Clocks, Place, PlaceType, TypeOK, Work, Read, Rows
<1> QED BY <1>1, WalkInit, WalkStep, PTL DEF Spec

\* A walk that ended at an empty page has read every row its strategy is able to
\* read, each unpinned one once: for every board whose pages each hold an article,
\* any page size and any mix of failures but those that its strategy cannot tell
\* from the end, which PassForTheEnd lists.
THEOREM EmptyPageEndsTheBoard == Spec => []EmptyPageIsTheEnd
<1>1. WalkInv => EmptyPageIsTheEnd
  BY DEF WalkInv, Place, ReadAll, EmptyPageIsTheEnd
<1> QED BY <1>1, WalkInit, WalkStep, PTL DEF Spec
=============================================================================
