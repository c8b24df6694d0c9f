---------------------------- MODULE MCCrawlHealth ----------------------------
(* Instances of CrawlHealth for TLC. *)
EXTENDS CrawlHealth
=============================================================================
