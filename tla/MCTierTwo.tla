------------------------------ MODULE MCTierTwo ------------------------------
(* Instances of TierTwo for TLC. *)
EXTENDS TierTwo

CONSTANT n1

VARIABLE scenario  \* what the origin may do in this behaviour

\* That page or the whole site disappears.
OneOrAll == {{n1}, Notice}

\* Either both notices, of which n1 is edited once in any way, with two
\* disappearances and one failure; or n1 alone, edited three times, while nothing
\* fails and its page always has a text.
Scenarios ==
  {[notices |-> Notice, edits |-> 1, vanishings |-> 2, failures |-> 1,
    kinds |-> BodyKinds],
   [notices |-> {n1}, edits |-> 3, vanishings |-> 1, failures |-> 0,
    kinds |-> {"text"}]}

\* Only the origin, failures and the rows that are listed are limited: no step
\* that fairness asks for is taken away.
Within ==
  /\ edits' <= scenario.edits
  /\ vanishings' <= scenario.vanishings
  /\ failures' <= scenario.failures
  /\ \A n \in Notice : page'[n] # page[n] => n = n1 /\ page'[n].kind \in scenario.kinds
  /\ crawl'.stage # "idle" => crawl'.notice \in scenario.notices
  /\ UNCHANGED scenario

ScenarioInit == Init /\ scenario \in Scenarios

\* Next, action by action.
ScenarioNext ==
  \/ Vanish /\ Within
  \/ Reappear /\ Within
  \/ CrawlDetail /\ Within
  \/ CrawlRefresh /\ Within
  \/ CrawlStore /\ Within
  \/ TierStart /\ Within
  \/ KeepVanished /\ Within
  \/ BackfillHash /\ Within
  \/ KeepUnchanged /\ Within
  \/ WriteChanged /\ Within
  \/ TierSecondPass /\ Within
  \/ Abort /\ Within
  \/ \E n \in Notice :
       \/ EditPage(n) /\ Within
       \/ CrawlPending(n) /\ Within
       \/ CrawlRow(n) /\ Within
       \/ TierFetch(n) /\ Within
       \/ TierMiss(n) /\ Within

ScenarioSpec ==
  /\ ScenarioInit
  /\ [][ScenarioNext]_<<vars, scenario>>
  /\ WF_vars(CrawlWork) /\ WF_vars(Tier)
  /\ \A n \in Notice : /\ SF_vars(n \in scenario.notices /\ CrawlPending(n))
                       /\ SF_vars(n \in scenario.notices /\ CrawlRow(n))
=============================================================================
