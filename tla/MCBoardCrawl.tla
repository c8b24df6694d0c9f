----------------------------- MODULE MCBoardCrawl -----------------------------
(* Instances of BoardCrawl for TLC. *)
EXTENDS BoardCrawl

SafetySpec == Init /\ [][Next]_vars
=============================================================================
