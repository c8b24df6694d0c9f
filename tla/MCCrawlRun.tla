------------------------------ MODULE MCCrawlRun ------------------------------
(* The instance of CrawlRun for TLC.  No symmetry: it is unsound for liveness. *)
EXTENDS CrawlRun
=============================================================================
