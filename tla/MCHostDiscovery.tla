-------------------------- MODULE MCHostDiscovery --------------------------
(* HostSearch with one host whose accounts change, a host without accounts, *)
(* one that the filters drop, one with accounts of its own, and one that    *)
(* the page is too short for.                                               *)
EXTENDS HostSearch

MCAsset == {"web", "db"}
MCQuery == {"page"}
MCPage == [q \in MCQuery |-> 4]

Root == [id |-> "u1", username |-> "root"]
Deploy == [id |-> "u2", username |-> "deploy"]
Oracle == [id |-> "u3", username |-> "oracle"]

HostOf(id, n) == [id |-> id, accounts |-> n]
MCHosts == <<HostOf("bare", 0), HostOf("dropped", 1), HostOf("web", 2), HostOf("db", 1),
             HostOf("late", 1)>>
MCPasses(h) == h.id # "dropped"

MCAnswers ==
  [k \in MCAsset \cup MCQuery |->
     CASE k = "web" -> {<<Root>>, <<Root, Deploy>>}
       [] k = "db" -> {<<Oracle>>}
       [] k = "page" -> {MCHosts}]
=============================================================================
