----------------------------- MODULE HostSearch -----------------------------
(***************************************************************************)
(* The discover_hosts tool: search_hosts() and search_hosts_with_accounts() *)
(* (host_discovery.py), a chain of HostDiscovery's cached lookups, beside   *)
(* the lookups of other callers.                                            *)
(*                                                                          *)
(* The search makes one lookup after the other, here always the same one,   *)
(* Mine.  Once a lookup has its answer, or the cache had it, the coroutine  *)
(* goes on to its next await and nobody else takes a step.                  *)
(***************************************************************************)
EXTENDS HostDiscovery

CONSTANTS
  Mine,      \* the lookup that the search makes
  Passes(_)  \* the client-side filters: system, type, group, subnet

(* A page is a list of hosts.  Asset holds the id of every host that a      *)
(* search can list with accounts.                                           *)
ASSUME HostSearchAssumption ==
  /\ Mine \in Lookup
  /\ \A q \in Query : \A matches \in Answers[q] :
       LET page == Reply(q, matches)
       IN  /\ page \in Seq(ToSet(page))
           /\ \A host \in ToSet(page) :
                Passes(host) /\ host.accounts > 0 => host.id \in Asset

VARIABLES
  step,      \* "idle", "listing", "fetching", "returned" or "raised"
  listedAt,  \* history: when JumpServer read the page
  hosts,     \* the hosts of the page that pass the filters, at their places
  found      \* the accounts of the first of them, and when they were read

searchVars == <<step, listedAt, hosts, found>>
allVars == <<vars, searchVars>>

InitSearch == Init /\ step = "idle" /\ listedAt = -1 /\ hosts = <<>> /\ found = <<>>

Resuming == step \in {"listing", "fetching"} /\ pc[Mine] \in {"idle", "done"}

-----------------------------------------------------------------------------
SearchHosts(q) ==
  /\ step = "idle"
  /\ Ask(Mine, q)
  /\ step' = "listing"
  /\ UNCHANGED <<listedAt, hosts, found>>

(* search_hosts() filters the page; without accounts that is all.           *)
Listed(withAccounts) ==
  /\ step = "listing" /\ pc[Mine] = "done"
  /\ listedAt' = readAt[Mine]
  /\ hosts' = RestrictValues(value[Mine], Passes)
  /\ step' = IF withAccounts /\ DOMAIN hosts' # {} THEN "fetching" ELSE "returned"
  /\ Forget(Mine, "idle")
  /\ UNCHANGED found

LookedUp == {i \in DOMAIN hosts : hosts[i].accounts > 0}

Place == Min(DOMAIN hosts \ DOMAIN found)

\* Seeded defect: the hosts without accounts are not counted.
NextHostLookedUp ==
  LET left == LookedUp \ DOMAIN found
  IN  hosts[IF left # {} THEN Min(left) ELSE Max(DOMAIN hosts)]

NextHost == hosts[Place]

Collect(accounts, at) ==
  /\ found' = [i \in DOMAIN found \cup {Place} |->
                 IF i = Place THEN [accounts |-> accounts, readAt |-> at] ELSE found[i]]
  /\ step' = IF DOMAIN found' = DOMAIN hosts THEN "returned" ELSE "fetching"
  /\ UNCHANGED <<listedAt, hosts>>

(* A host without accounts is not looked up.                                *)
SkipHost ==
  /\ step = "fetching" /\ pc[Mine] = "idle"
  /\ NextHost.accounts = 0
  /\ Collect(<<>>, now)
  /\ UNCHANGED vars

AskNext ==
  /\ step = "fetching" /\ pc[Mine] = "idle"
  /\ NextHost.accounts > 0
  /\ \E a \in Asset : a = NextHost.id /\ Ask(Mine, a)
  /\ UNCHANGED searchVars

Collected ==
  /\ step = "fetching" /\ pc[Mine] = "done"
  /\ Collect(value[Mine], readAt[Mine])
  /\ Forget(Mine, "idle")

(* One of the lookups fails: so does the search, and what it found is lost. *)
SearchRaises ==
  /\ Fail(Mine)
  /\ step' = "raised"
  /\ UNCHANGED <<listedAt, hosts, found>>

-----------------------------------------------------------------------------
NextSearch ==
  \/ /\ ~Resuming
     /\ \/ \E k \in Key : \E v \in Answers[k] : ServerChanges(k, v)
        \/ Tick
        \/ \E l \in Lookup \ {Mine} :
             \/ \E k \in Key : Ask(l, k)
             \/ Fail(l)
             \/ Leave(l)
        \/ \E l \in Lookup : ServerReads(l) \/ Arrive(l)
     /\ UNCHANGED searchVars
  \/ ~Resuming /\ SearchRaises
  \/ \E q \in Query : SearchHosts(q)
  \/ \E withAccounts \in BOOLEAN : Listed(withAccounts)
  \/ SkipHost
  \/ AskNext
  \/ Collected

SpecSearch == InitSearch /\ [][NextSearch]_allVars

-----------------------------------------------------------------------------
(* What discover_hosts returns belongs together: every host passes the      *)
(* filters and has accounts that JumpServer gave for that very host, however*)
(* many were skipped or came out of the cache; and each part is at most one *)
(* time to live and the requests since it was looked up old.                *)
SearchIsSound ==
  [][step # "returned" /\ step' = "returned" =>
       /\ \A i \in DOMAIN found' :
            LET later == {j \in LookedUp' : j >= i}
            IN  /\ Passes(hosts'[i])
                /\ IF i \in LookedUp' THEN found'[i].accounts \in Answers[hosts'[i].id]
                   ELSE found'[i].accounts = <<>>
                /\ now' - found'[i].readAt <= Ttl + Latency * Cardinality(later)
       /\ now' - listedAt' <=
            Ttl + Latency * (1 + Cardinality(LookedUp' \cap DOMAIN found'))]_allVars
=============================================================================
