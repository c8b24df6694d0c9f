----------------------------- MODULE MCBusPoller -----------------------------
(* The three pollers of the repository for TLC; of the two city bus routes one *)
(* is enough to have a document behind another.                                *)
EXTENDS BusPoller

Single(doc, mayRest, memory) ==
  [doc |-> doc, legs |-> 1, mayRest |-> mayRest, memory |-> memory]

BusHssc == <<Single("hssc", FALSE, "shuttle")>>
BusJongro ==
  <<Single("jongro_stations", TRUE, "none"), Single("jongro_locations", TRUE, "station")>>
BusCampusEta ==
  <<[doc |-> "campus_eta", legs |-> 2, mayRest |-> FALSE, memory |-> "none"]>>

MCPollers == {BusHssc, BusJongro, BusCampusEta}
=============================================================================
