------------------------------ MODULE MCProcess ------------------------------
(* The families of wiring.py, the four notices modules cut down to two.    *)
EXTENDS Process, TLC

MCFamily == {"notices", "bus", "bus-eta"}
MCModulesOf ==
  [f \in {"notices", "bus", "bus-eta"} |->
     CASE f = "notices" -> {"notices-crawl", "notices-summary"}
       [] f = "bus" -> {"bus-hssc"}
       [] f = "bus-eta" -> {"bus-campus-eta"}]
MCRank ==
  "notices-crawl" :> 1 @@ "notices-summary" :> 2 @@ "bus-hssc" :> 3 @@ "bus-campus-eta" :> 4
MCRequires ==
  [f \in {"notices", "bus", "bus-eta"} |->
     CASE f = "notices" -> {}
       [] f = "bus" -> {"mongo_bus_db_name", "hssc_api_url", "seoul_bus_service_key"}
       [] f = "bus-eta" -> {"mongo_bus_db_name", "naver_api_key_id", "naver_api_key"}]
MCRunOnStart == {"notices-summary", "bus-campus-eta"}
MCUnguarded == {"notices-summary"}
MCMarker == {"motor", "apscheduler", "tenacity"}

Bus == {"mongo_bus_db_name", "seoul_bus_service_key"}
Naver == {"mongo_bus_db_name", "naver_api_key_id", "naver_api_key"}

\* Nothing; a store; a store and one family; everything.
Environments ==
  {{}, {"mongo_url"}, {"mongo_url", "hssc_dev"} \cup Bus, {"mongo_url"} \cup Naver,
   {"mongo_url", "hssc_prod"} \cup Bus \cup Naver}

Options ==
  {[option |-> FALSE, asked |-> {}]} \cup
  {[option |-> TRUE, asked |-> a] :
     a \in {{"blank"}, {"notice"}, {"notices-crawl", "notice"}, {"notices-crawl", "blank"},
            {"bus-hssc"}, {"bus-hssc", "bus-campus-eta"}}}

Deployment(e, v, i, o) ==
  [env |-> e, variables |-> v, installed |-> i, option |-> o.option, asked |-> o.asked]

\* CRAWLER_ENV=prod is not a name the code knows.
MCDeployments ==
  {Deployment("prod", v, MCMarker, o) : v \in Environments, o \in Options}
  \cup {Deployment("development", v, MCMarker, o) :
          v \in Environments \ {{"mongo_url", "hssc_prod"} \cup Bus \cup Naver},
          o \in {p \in Options : ~p.option \/ "bus-hssc" \in p.asked \/ "blank" \in p.asked}}
  \cup {Deployment("production", {"mongo_url"}, {"motor", "apscheduler"}, o) : o \in Options}

MCHangs == {{}, {"notices-summary"}, {"bus-hssc", "bus-campus-eta"}}
=============================================================================
