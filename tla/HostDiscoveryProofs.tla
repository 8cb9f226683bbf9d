------------------------- MODULE HostDiscoveryProofs -------------------------
(***************************************************************************)
(* For every inventory, every time to live and any number of lookups: what  *)
(* a lookup returns is an answer of JumpServer to the key it asked for, and *)
(* no older than the time to live and one request; and what a caller makes  *)
(* of it names the account that the caller asked for, or the only one.      *)
(***************************************************************************)
EXTENDS HostSearch, FiniteSetTheorems, WellFoundedInduction, TLAPS

Saw(k, v) == \E m \in Answers[k] : v = Reply(k, m)

(* A lookup under way knows what it asked for, and is not late.             *)
InTime ==
  \A l \in Lookup :
    /\ pc[l] \in {"asking", "answered", "done"} =>
         asked[l] \in Key
    /\ pc[l] \in {"asking", "answered"} =>
         since[l] <= now /\ now <= since[l] + Latency
    /\ pc[l] = "answered" => since[l] <= readAt[l] /\ readAt[l] <= now

(* What lookups and caches hold was read from JumpServer.                   *)
Answered ==
  \A l \in Lookup : pc[l] \in {"answered", "done"} => Saw(asked[l], value[l])

(* An entry is put at most Latency after its answer was read.               *)
Cached ==
  \A k \in Key :
    cache[k].readAt >= 0 =>
      /\ cache[k].expires <= cache[k].readAt + Ttl + Latency
      /\ Saw(k, cache[k].value)

IInv == TypeOK /\ InTime /\ Answered /\ Cached

-----------------------------------------------------------------------------
(* At the start nobody has asked anything and nothing is cached.            *)
LEMMA InitInvariant == Init => IInv
BY HostDiscoveryAssumption
   DEF Init, IInv, TypeOK, InTime, Answered, Cached, Entry, NoEntry,
       Possible, Answer

(* What JumpServer returns for a key is among the values a cache can hold.  *)
LEMMA ReplyIsValue ==
  ASSUME NEW k \in Key, NEW m \in Answers[k]
  PROVE  Reply(k, m) \in Value
BY DEF Value

(* A change at JumpServer makes nothing false that was read before it.      *)
LEMMA ServerChangesKeeps ==
  ASSUME IInv, NEW k \in Key, NEW v \in Answers[k], ServerChanges(k, v)
  PROVE  IInv'
<1> USE DEF IInv
<1>1. /\ server' = [server EXCEPT ![k] = v]
      /\ UNCHANGED <<now, cache, pc, asked, since, value, readAt>>
  BY DEF ServerChanges, lookupVars
<1>2. v \in Answer /\ server \in Possible
  BY DEF Answer, TypeOK
<1>3. server' \in Possible
  BY <1>1, <1>2 DEF Possible
<1>4. TypeOK'
  BY <1>1, <1>3 DEF TypeOK
<1>5. InTime' /\ Answered' /\ Cached'
  BY <1>1 DEF InTime, Answered, Cached, Saw
<1> QED
  BY <1>4, <1>5

(* Time passes only while every pending request is within its term.         *)
LEMMA TickKeeps == IInv /\ Tick => IInv'
<1> SUFFICES ASSUME IInv, Tick PROVE IInv'
  OBVIOUS
<1> USE DEF IInv
<1>1. /\ now < MaxTime /\ now' = now + 1
      /\ UNCHANGED <<server, cache, pc, asked, since, value, readAt>>
      /\ \A l \in Lookup : pc[l] \in {"asking", "answered"} => now - since[l] < Latency
  BY DEF Tick, lookupVars, Pending
<1>2. TypeOK'
  BY <1>1, HostDiscoveryAssumption DEF TypeOK
<1>3. InTime'
  BY <1>1, HostDiscoveryAssumption DEF InTime, TypeOK
<1>4. Answered' /\ Cached'
  BY <1>1 DEF Answered, Cached, Saw
<1> QED
  BY <1>2, <1>3, <1>4

(* A lookup is answered from a fresh entry, or asks and drops a stale one.  *)
LEMMA AskKeeps ==
  ASSUME IInv, NEW l \in Lookup, NEW k \in Key, Ask(l, k)
  PROVE  IInv'
<1> USE DEF IInv
<1>1. asked' = [asked EXCEPT ![l] = k]
      /\ UNCHANGED <<now, server>> /\ pc[l] = "idle"
  BY DEF Ask
<1>2. CASE /\ Fresh(k)
           /\ pc' = [pc EXCEPT ![l] = "done"]
           /\ value' = [value EXCEPT ![l] = cache[k].value]
           /\ readAt' = [readAt EXCEPT ![l] = cache[k].readAt]
           /\ UNCHANGED <<cache, since>>
  <2>1. cache[k] \in Entry
    BY DEF TypeOK
  <2>2. TypeOK'
    BY <1>1, <1>2, <2>1 DEF TypeOK, Entry
  <2>3. InTime'
    BY <1>1, <1>2 DEF InTime, TypeOK
  <2>4. Saw(k, cache[k].value)
    BY <1>2 DEF Fresh, Cached
  <2>5. Answered'
    BY <1>1, <1>2, <2>4 DEF Answered, Saw, TypeOK
  <2>6. Cached'
    BY <1>1, <1>2 DEF Cached, Saw
  <2> QED
    BY <2>2, <2>3, <2>5, <2>6
<1>3. CASE /\ ~Fresh(k)
           /\ pc' = [pc EXCEPT ![l] = "asking"]
           /\ since' = [since EXCEPT ![l] = now]
           /\ cache' = [cache EXCEPT ![k] = NoEntry]
           /\ UNCHANGED <<value, readAt>>
  <2>1. NoEntry \in Entry
    BY HostDiscoveryAssumption DEF NoEntry, Entry
  <2>2. TypeOK'
    BY <1>1, <1>3, <2>1 DEF TypeOK
  <2>3. InTime'
    BY <1>1, <1>3, HostDiscoveryAssumption DEF InTime, TypeOK
  <2>4. Answered'
    BY <1>1, <1>3 DEF Answered, Saw, TypeOK
  <2>5. Cached'
    BY <1>1, <1>3 DEF Cached, Saw, TypeOK, NoEntry
  <2> QED
    BY <2>2, <2>3, <2>4, <2>5
<1> QED
  BY <1>2, <1>3 DEF Ask

(* JumpServer's reply is one of the answers to the key that was asked for.  *)
LEMMA ServerReadsKeeps ==
  ASSUME IInv, NEW l \in Lookup, ServerReads(l)
  PROVE  IInv'
<1> USE DEF IInv
<1> DEFINE k == asked[l]
<1>1. /\ pc[l] = "asking" /\ pc' = [pc EXCEPT ![l] = "answered"]
      /\ value' = [value EXCEPT ![l] = Reply(k, server[k])]
      /\ readAt' = [readAt EXCEPT ![l] = now]
      /\ UNCHANGED <<now, server, cache, asked, since>>
  BY DEF ServerReads
<1>2. k \in Key
  BY <1>1 DEF InTime
<1>3. server[k] \in Answers[k]
  BY <1>2 DEF TypeOK, Possible
<1>4. Reply(k, server[k]) \in Value /\ Saw(k, Reply(k, server[k]))
  BY <1>2, <1>3, ReplyIsValue DEF Saw
<1> HIDE DEF k
<1>5. TypeOK'
  BY <1>1, <1>4, HostDiscoveryAssumption DEF TypeOK
<1>6. InTime'
  BY <1>1, HostDiscoveryAssumption DEF InTime, TypeOK
<1>7. Answered'
  BY <1>1, <1>4 DEF Answered, Saw, TypeOK, k
<1>8. Cached'
  BY <1>1 DEF Cached, Saw
<1> QED
  BY <1>5, <1>6, <1>7, <1>8

(* An answer that arrives was read within the request's term, and is put    *)
(* under the key that was asked for.                                        *)
LEMMA ArriveKeeps ==
  ASSUME IInv, NEW l \in Lookup, Arrive(l)
  PROVE  IInv' /\ now - readAt'[l] <= Latency
<1> USE DEF IInv
<1> DEFINE k == asked[l]
           e == [value |-> value[l], expires |-> now + Ttl, readAt |-> readAt[l]]
<1>1. /\ pc[l] = "answered" /\ pc' = [pc EXCEPT ![l] = "done"]
      /\ cache' = [cache EXCEPT ![k] = e]
      /\ since' = [since EXCEPT ![l] = 0]
      /\ UNCHANGED <<now, server, asked, value, readAt>>
  BY DEF Arrive, Put
<1>2. k \in Key /\ Saw(k, value[l])
  BY <1>1 DEF InTime, Answered
<1>3. /\ readAt[l] \in 0..now /\ now - readAt[l] <= Latency
      /\ now \in 0..MaxTime /\ since[l] \in Nat
  BY <1>1, HostDiscoveryAssumption DEF InTime, TypeOK
<1>4. e \in Entry /\ e.expires <= e.readAt + Ttl + Latency
  BY <1>3, HostDiscoveryAssumption DEF TypeOK, Entry
<1>5. e.value = value[l]
  OBVIOUS
<1> HIDE DEF k, e
<1>6. TypeOK'
  BY <1>1, <1>2, <1>4, HostDiscoveryAssumption DEF TypeOK
<1>7. InTime'
  BY <1>1 DEF InTime, TypeOK
<1>8. Answered'
  BY <1>1 DEF Answered, Saw, TypeOK
<1>9. \A j \in Key : (cache'[j] = e /\ j = k) \/ cache'[j] = cache[j]
  BY <1>1, <1>2 DEF TypeOK
<1>10. Cached'
  BY <1>1, <1>2, <1>4, <1>5, <1>9 DEF Cached, Saw
<1> QED
  BY <1>1, <1>3, <1>6, <1>7, <1>8, <1>10

(* A lookup that fails or is left leaves the cache as it is.                *)
LEMMA ForgetKeeps ==
  ASSUME IInv, NEW l \in Lookup, NEW place \in {"idle", "failed"}, Forget(l, place)
  PROVE  IInv'
<1> USE DEF IInv
<1>1. /\ pc' = [pc EXCEPT ![l] = place]
      /\ asked' = [asked EXCEPT ![l] = None]
      /\ since' = [since EXCEPT ![l] = 0]
      /\ value' = [value EXCEPT ![l] = None]
      /\ readAt' = [readAt EXCEPT ![l] = -1]
      /\ UNCHANGED <<now, server, cache>>
  BY DEF Forget
<1>2. TypeOK'
  BY <1>1, HostDiscoveryAssumption DEF TypeOK
<1>3. InTime'
  BY <1>1 DEF InTime, TypeOK
<1>4. Answered' /\ Cached'
  BY <1>1 DEF Answered, Cached, Saw, TypeOK
<1> QED
  BY <1>2, <1>3, <1>4

-----------------------------------------------------------------------------
(* Every step of the lookups, of JumpServer and of the clock keeps the      *)
(* invariant.                                                               *)
LEMMA NextInvariant == IInv /\ [Next]_vars => IInv'
<1> SUFFICES ASSUME IInv, [Next]_vars PROVE IInv'
  OBVIOUS
<1>1. ASSUME NEW k \in Key, NEW v \in Answers[k], ServerChanges(k, v) PROVE IInv'
  BY <1>1, ServerChangesKeeps
<1>2. CASE Tick
  BY <1>2, TickKeeps
<1>3. ASSUME NEW l \in Lookup, NEW k \in Key, Ask(l, k) PROVE IInv'
  BY <1>3, AskKeeps
<1>4. ASSUME NEW l \in Lookup, ServerReads(l) PROVE IInv'
  BY <1>4, ServerReadsKeeps
<1>5. ASSUME NEW l \in Lookup, Arrive(l) PROVE IInv'
  BY <1>5, ArriveKeeps
<1>6. ASSUME NEW l \in Lookup, Fail(l) \/ Leave(l) PROVE IInv'
  BY <1>6, ForgetKeeps DEF Fail, Leave
<1>7. CASE UNCHANGED vars
  BY <1>7 DEF vars, lookupVars, IInv, TypeOK, InTime, Answered, Cached, Saw
<1> QED
  BY <1>1, <1>2, <1>3, <1>4, <1>5, <1>6, <1>7 DEF Next

(* What the lookups and the caches hold stays so: the invariant that the    *)
(* theorems below rest on.                                                  *)
THEOREM IInvHolds == Spec => []IInv
BY InitInvariant, NextInvariant, PTL DEF Spec

(* Caches, lookups and the history keep their types.                        *)
THEOREM TypeCorrect == Spec => []TypeOK
<1>1. IInv => TypeOK
  BY DEF IInv
<1> QED
  BY <1>1, IInvHolds, PTL

(* No lookup is answered with what JumpServer said of another asset or name. *)
THEOREM AnswersItsOwnKeyHolds == Spec => []AnswersItsOwnKey
<1>1. IInv => AnswersItsOwnKey
  BY DEF IInv, Answered, Saw, AnswersItsOwnKey, AccountLookups, HostLookups
<1> QED
  BY <1>1, IInvHolds, PTL

(* A lookup that gets its answer, from JumpServer or from the cache, gets   *)
(* one that is at most a time to live and one request old.                  *)
LEMMA DoneIsFresh ==
  ASSUME IInv, Next, NEW l \in Lookup, pc[l] # "done", pc'[l] = "done"
  PROVE  now - readAt'[l] <= Ttl + Latency
<1> USE DEF IInv
<1>1. ASSUME NEW m \in Lookup, NEW k \in Key, Ask(m, k)
      PROVE  now - readAt'[l] <= Ttl + Latency
  <2>1. m = l
    BY <1>1 DEF Ask, TypeOK
  <2>2. Fresh(k) /\ readAt'[l] = cache[k].readAt
    BY <1>1, <2>1 DEF Ask, TypeOK
  <2>3. /\ now <= cache[k].expires
        /\ cache[k].expires <= cache[k].readAt + Ttl + Latency
        /\ cache[k] \in Entry /\ now \in 0..MaxTime
    BY <2>2, HostDiscoveryAssumption DEF Fresh, Cached, TypeOK, Entry
  <2>4. cache[k].expires \in Int /\ cache[k].readAt \in Int
    BY <2>3, HostDiscoveryAssumption DEF Entry
  <2> QED
    BY <2>2, <2>3, <2>4, HostDiscoveryAssumption
<1>2. ASSUME NEW m \in Lookup, Arrive(m)
      PROVE  now - readAt'[l] <= Ttl + Latency
  <2>1. m = l
    BY <1>2 DEF Arrive, TypeOK
  <2>2. now - readAt'[l] <= Latency
    BY <1>2, <2>1, ArriveKeeps
  <2>3. readAt'[l] \in Int /\ now \in Int
    BY <1>2, HostDiscoveryAssumption DEF Arrive, TypeOK
  <2> QED
    BY <2>2, <2>3, HostDiscoveryAssumption
<1>3. ASSUME NEW k \in Key, NEW v \in Answers[k], ServerChanges(k, v) PROVE FALSE
  BY <1>3 DEF ServerChanges, lookupVars
<1>4. ASSUME Tick PROVE FALSE
  BY <1>4 DEF Tick, lookupVars
<1>5. ASSUME NEW m \in Lookup, ServerReads(m) \/ Fail(m) \/ Leave(m) PROVE FALSE
  BY <1>5 DEF ServerReads, Fail, Leave, Forget, TypeOK
<1> QED
  BY <1>1, <1>2, <1>3, <1>4, <1>5 DEF Next

(* No lookup is answered with something JumpServer said longer ago than the *)
(* time to live and one request.                                            *)
THEOREM FreshEnoughHolds == Spec => FreshEnough
<1> DEFINE Bound ==
      \A l \in Lookup :
        pc[l] # "done" /\ pc'[l] = "done" => now - readAt'[l] <= Ttl + Latency
<1>1. IInv /\ [Next]_vars => [Bound]_vars
  BY DoneIsFresh DEF vars
<1> QED
  BY <1>1, IInvHolds, PTL DEF Spec, FreshEnough

-----------------------------------------------------------------------------
(* A set of positions that is not empty has a least one.                    *)
LEMMA LeastExists ==
  ASSUME NEW S \in SUBSET Nat, S # {}
  PROVE  \E i \in S : \A j \in S : i <= j
<1>1. \E i \in S : \A j \in S : ~(<<j, i>> \in OpToRel(<, Nat))
  <2>1. IsWellFoundedOn(OpToRel(<, Nat), Nat)
    BY NatLessThanWellFounded
  <2> HIDE DEF OpToRel
  <2>2. ASSUME NEW R, IsWellFoundedOn(R, Nat)
        PROVE  \E i \in S : \A j \in S : ~(<<j, i>> \in R)
    BY <2>2, WFMin, Zenon
  <2> QED BY <2>1, <2>2
<1>2. \A i, j \in S : ~(<<j, i>> \in OpToRel(<, Nat)) => i <= j
  BY DEF OpToRel
<1> QED
  BY <1>1, <1>2

(* Among an asset's accounts, resolve() names the one asked for by id or by *)
(* username, or the only one for a caller who asks for none; it has no      *)
(* other way to a runas user.                                               *)
LEMMA ResolveIsExact ==
  ASSUME NEW a \in Asset, NEW accounts \in Answers[a], NEW user,
         user = [id |-> user.id, username |-> user.username],
         Resolve(accounts, user).kind = "resolved"
  PROVE  LET runas == Resolve(accounts, user).runas
         IN  \/ user.username = runas
             \/ [id |-> user.id, username |-> runas] \in ToSet(accounts)
             \/ user = Nobody /\ Len(accounts) = 1
<1> DEFINE resolution == Resolve(accounts, user)
           matching == Matches(accounts, user)
<1>1. /\ accounts \in Seq(ToSet(accounts))
      /\ \A account \in ToSet(accounts) :
           account = [id |-> account.id, username |-> account.username]
  BY AccountsAssumption
<1>2. /\ DOMAIN accounts = 1..Len(accounts) /\ Len(accounts) \in Nat
      /\ \A i \in DOMAIN accounts : accounts[i] \in ToSet(accounts)
  BY <1>1
<1>3. accounts # <<>> => Len(accounts) # 0
  BY <1>1
<1>4. CASE accounts = <<>>
  <2>1. resolution = Unresolved("no_accounts")
    BY <1>4 DEF Resolve
  <2> QED BY <2>1 DEF Unresolved
<1>5. CASE accounts # <<>> /\ user # Nobody /\ matching # {}
  <2> DEFINE i == First(matching)
  <2>1. i \in matching
    <3>1. matching \in SUBSET Nat
      BY <1>2 DEF Matches
    <3> HIDE DEF matching
    <3> QED BY <1>5, <3>1, LeastExists DEF First
  <2>2. resolution = Resolved(accounts[i])
    BY <1>5 DEF Resolve
  <2>3. resolution.runas = accounts[i].username
    BY <2>2 DEF Resolved
  <2> HIDE DEF i
  <2>4. /\ accounts[i] \in ToSet(accounts)
        /\ accounts[i].id = user.id \/ accounts[i].username = user.username
    BY <1>2, <2>1 DEF Matches
  <2> QED BY <1>1, <2>3, <2>4
<1>6. CASE accounts # <<>> /\ user # Nobody /\ matching = {}
  <2>1. resolution = Unresolved("not_configured")
    BY <1>6 DEF Resolve
  <2> QED BY <2>1 DEF Unresolved
<1>7. CASE Len(accounts) > 1 /\ user = Nobody
  <2>1. resolution = Unresolved("needs_selection")
    BY <1>3, <1>7 DEF Resolve
  <2> QED BY <2>1 DEF Unresolved
<1> QED
  BY <1>2, <1>3, <1>4, <1>5, <1>6, <1>7

(* A caller that asks for an account is never given another one, and a      *)
(* caller that asks for none is given one only where there is no choice,    *)
(* however old the answer it chose from.                                    *)
THEOREM NeverGuessesHolds == Spec => []NeverGuesses
<1>1. ASSUME IInv, NEW l \in AccountLookups PROVE value[l] \in Answers[asked[l]]
  BY <1>1, AccountsAssumption DEF IInv, Answered, Saw, AccountLookups, Reply
<1>2. IInv => NeverGuesses
  <2> SUFFICES ASSUME IInv, NEW l \in AccountLookups, NEW user \in Choice(asked[l]),
                      Resolve(value[l], user).kind = "resolved"
               PROVE  LET runas == Resolve(value[l], user).runas
                      IN  \/ user.username = runas
                          \/ [id |-> user.id, username |-> runas] \in ToSet(value[l])
                          \/ user = Nobody /\ Len(value[l]) = 1
    BY DEF NeverGuesses
  <2>1. asked[l] \in Asset /\ value[l] \in Answers[asked[l]]
    BY <1>1 DEF AccountLookups
  <2>2. user = [id |-> user.id, username |-> user.username]
    BY DEF Choice
  <2> QED BY <2>1, <2>2, ResolveIsExact
<1> QED
  BY <1>2, IInvHolds, PTL

-----------------------------------------------------------------------------
(* A step of the search is a lookup of its own, or nothing to the lookups.  *)
LEMMA SearchStep == [NextSearch]_allVars => [Next]_vars
<1> SUFFICES ASSUME NextSearch PROVE [Next]_vars
  BY DEF allVars
<1> USE HostSearchAssumption
<1>1. ASSUME NEW k \in Key, NEW v \in Answers[k], ServerChanges(k, v) PROVE Next
  BY <1>1 DEF Next
<1>2. ASSUME Tick PROVE Next
  BY <1>2 DEF Next
<1>3. ASSUME NEW l \in Lookup, NEW k \in Key, Ask(l, k) PROVE Next
  BY <1>3 DEF Next
<1>4. ASSUME NEW l \in Lookup, ServerReads(l) \/ Arrive(l) \/ Fail(l) \/ Leave(l)
      PROVE  Next
  BY <1>4 DEF Next
<1>5. ASSUME Resuming, pc[Mine] = "done", Forget(Mine, "idle") PROVE Next
  BY <1>4, <1>5 DEF Leave
<1>6. CASE \E q \in Query : SearchHosts(q)
  BY <1>3, <1>6 DEF SearchHosts, Key
<1>7. CASE \E withAccounts \in BOOLEAN : Listed(withAccounts)
  BY <1>5, <1>7 DEF Listed, Resuming
<1>8. CASE SkipHost
  BY <1>8 DEF SkipHost
<1>9. CASE AskNext
  BY <1>3, <1>9 DEF AskNext, Key
<1>10. CASE Collected
  BY <1>5, <1>10 DEF Collected, Resuming
<1>11. CASE SearchRaises
  BY <1>4, <1>11 DEF SearchRaises
<1> QED
  BY <1>1, <1>2, <1>3, <1>4, <1>6, <1>7, <1>8, <1>9, <1>10, <1>11 DEF NextSearch

(* The discover_hosts tool is one more caller of the lookups.               *)
THEOREM SearchRefinesLookups == SpecSearch => Spec
BY SearchStep, PTL DEF SpecSearch, InitSearch, Spec

(* So what is shown above of the lookups holds while it searches.           *)
THEOREM SearchKeepsPromises ==
  SpecSearch => [](TypeOK /\ AnswersItsOwnKey /\ NeverGuesses) /\ FreshEnough
BY SearchRefinesLookups, TypeCorrect, AnswersItsOwnKeyHolds, NeverGuessesHolds,
   FreshEnoughHolds, PTL
-----------------------------------------------------------------------------
(* What the search's own lookup is for.                                     *)
Purpose ==
  /\ step \in {"idle", "listing", "fetching", "returned", "raised"}
  /\ step = "idle" => pc[Mine] = "idle"
  /\ step = "listing" =>
       pc[Mine] \in {"asking", "answered", "done"} /\ asked[Mine] \in Query
  /\ step = "fetching" =>
       /\ pc[Mine] \in {"idle", "asking", "answered", "done"}
       /\ DOMAIN found # DOMAIN hosts
       /\ pc[Mine] # "idle" => NextHost.accounts > 0 /\ asked[Mine] = NextHost.id

(* What it has found: hosts that pass, and their own accounts, in order.    *)
Collection ==
  /\ DOMAIN hosts \subseteq Nat /\ IsFiniteSet(DOMAIN hosts)
  /\ DOMAIN found \subseteq DOMAIN hosts
  /\ step \in {"idle", "listing"} => DOMAIN hosts = {}
  /\ \A i \in DOMAIN found, j \in DOMAIN hosts \ DOMAIN found : i < j
  /\ \A i \in DOMAIN hosts :
       Passes(hosts[i]) /\ (hosts[i].accounts > 0 => hosts[i].id \in Asset)
  /\ \A i \in DOMAIN found :
       IF i \in LookedUp THEN found[i].accounts \in Answers[hosts[i].id]
       ELSE found[i].accounts = <<>>
  /\ listedAt \in Int /\ \A i \in DOMAIN found : found[i].readAt \in Int

(* How many requests can have been made since the i-th place was seen to.   *)
Requests(i) == Cardinality({j \in LookedUp \cap DOMAIN found : j >= i})

(* When the request under way was sent, and how long it can have taken.     *)
Sent == IF pc[Mine] \in {"asking", "answered"} THEN since[Mine] ELSE now
Spent == IF pc[Mine] = "done" THEN Latency ELSE 0

Aged ==
  /\ \A i \in DOMAIN found : Sent - found[i].readAt <= Ttl + Latency * Requests(i) + Spent
  /\ Sent - listedAt <= Ttl + Latency * (1 + Requests(0)) + Spent

Search ==
  /\ Purpose
  /\ Collection
  /\ step \in {"listing", "fetching"} /\ pc[Mine] = "done" =>
       now - readAt[Mine] <= Ttl + Latency
  /\ step = "fetching" => Aged

(* A page's places have a least one among those not seen to.                *)
LEMMA PlaceIsNext ==
  ASSUME Collection, DOMAIN found # DOMAIN hosts
  PROVE  /\ Place \in DOMAIN hosts \ DOMAIN found
         /\ \A j \in DOMAIN hosts \ DOMAIN found : Place <= j
<1> DEFINE left == DOMAIN hosts \ DOMAIN found
<1>1. left \in SUBSET Nat /\ left # {}
  BY DEF Collection
<1>2. \E i \in left : \A j \in left : i <= j
  BY <1>1, LeastExists
<1>3. Place = CHOOSE i \in left : \A j \in left : i <= j
  BY DEF Place, Min
<1> HIDE DEF left
<1>4. Place \in left /\ \A j \in left : Place <= j
  BY <1>2, <1>3
<1> QED
  BY <1>4 DEF left

(* One place more has been seen to: if its accounts were looked up, every   *)
(* place before it has one request more after it.                           *)
LEMMA RequestsGrow ==
  ASSUME Collection, DOMAIN found # DOMAIN hosts, hosts' = hosts,
         NEW p, p = Place, DOMAIN found' = DOMAIN found \cup {p}
  PROVE  /\ \A i : Requests(i) \in Nat
         /\ \A i \in DOMAIN found \cup {0} :
              Requests(i)' = IF p \in LookedUp THEN Requests(i) + 1 ELSE Requests(i)
         /\ p \in LookedUp => Requests(p)' = 1
         /\ Requests(p)' \in Nat
<1> DEFINE After(i) == {j \in LookedUp \cap DOMAIN found : j >= i}
<1>1. p \in DOMAIN hosts \ DOMAIN found /\ p \in Nat
  BY PlaceIsNext DEF Collection
<1>2. LookedUp \subseteq DOMAIN hosts /\ LookedUp' = LookedUp
  BY DEF LookedUp
<1>3. \A i : IsFiniteSet(After(i))
  BY FS_Subset, <1>2 DEF Collection
<1>4. \A i : Requests(i) = Cardinality(After(i))
  BY DEF Requests
<1>5. \A i : Requests(i)' = Cardinality({j \in LookedUp \cap (DOMAIN found \cup {p}) : j >= i})
  BY <1>2 DEF Requests
<1>6. \A i : Requests(i) \in Nat
  BY <1>3, <1>4, FS_CardinalityType
<1>7. ASSUME NEW i \in DOMAIN found \cup {0}
      PROVE  Requests(i)' = IF p \in LookedUp THEN Requests(i) + 1 ELSE Requests(i)
  <2>1. p >= i
    BY <1>1 DEF Collection
  <2>2. CASE p \in LookedUp
    <3>1. {j \in LookedUp \cap (DOMAIN found \cup {p}) : j >= i} = After(i) \cup {p}
      BY <2>1, <2>2
    <3>2. p \notin After(i) /\ IsFiniteSet(After(i))
      BY <1>1, <1>3
    <3> HIDE DEF After
    <3>3. Cardinality(After(i) \cup {p}) = Cardinality(After(i)) + 1
      BY <3>2, FS_AddElement
    <3> QED BY <1>4, <1>5, <2>2, <3>1, <3>3
  <2>3. CASE p \notin LookedUp
    <3>1. {j \in LookedUp \cap (DOMAIN found \cup {p}) : j >= i} = After(i)
      BY <2>3
    <3> QED BY <1>4, <1>5, <2>3, <3>1
  <2> QED BY <2>2, <2>3
<1>8. /\ p \in LookedUp => Requests(p)' = 1
      /\ p \notin LookedUp => Requests(p)' = 0
  <2>1. \A j \in DOMAIN found : ~(j >= p)
    BY <1>1 DEF Collection
  <2>2. {j \in LookedUp \cap (DOMAIN found \cup {p}) : j >= p} = LookedUp \cap {p}
    BY <1>1, <2>1
  <2>3. p \in LookedUp => LookedUp \cap {p} = {p}
    OBVIOUS
  <2>4. p \notin LookedUp => LookedUp \cap {p} = {}
    OBVIOUS
  <2> QED BY <1>5, <2>2, <2>3, <2>4, FS_Singleton, FS_EmptySet
<1> QED
  BY <1>6, <1>7, <1>8

(* The accounts of the next host are added to those found, and all of them  *)
(* keep within their bounds: a request that was made has its term.          *)
LEMMA CollectKeeps ==
  ASSUME TypeOK, Search, step = "fetching", pc[Mine] \in {"idle", "done"},
         NEW accounts, NEW at \in Int, Collect(accounts, at),
         now' = now, pc'[Mine] = "idle",
         pc[Mine] = "done" <=> NextHost.accounts > 0,
         IF NextHost.accounts > 0
           THEN accounts \in Answers[NextHost.id] /\ now - at <= Ttl + Latency
           ELSE accounts = <<>> /\ now - at <= Ttl
  PROVE  Search' /\ Aged'
<1>0. PICK p : p = Place
  OBVIOUS
<1> DEFINE cost == IF p \in LookedUp THEN 1 ELSE 0
<1>1. /\ DOMAIN found # DOMAIN hosts /\ Collection /\ Aged
      /\ p \in DOMAIN hosts \ DOMAIN found /\ p \in Nat
      /\ \A j \in DOMAIN hosts \ DOMAIN found : p <= j
  BY <1>0, PlaceIsNext DEF Search, Purpose, Collection
<1>2. /\ hosts' = hosts /\ listedAt' = listedAt
      /\ found' = [i \in DOMAIN found \cup {p} |->
                     IF i = p THEN [accounts |-> accounts, readAt |-> at] ELSE found[i]]
      /\ step' = IF DOMAIN found' = DOMAIN hosts THEN "returned" ELSE "fetching"
  BY <1>0 DEF Collect
<1>3. LookedUp' = LookedUp /\ (p \in LookedUp <=> NextHost.accounts > 0)
  BY <1>0, <1>1, <1>2 DEF LookedUp, NextHost
<1>4. /\ \A i : Requests(i) \in Nat
      /\ \A i \in DOMAIN found \cup {0} : Requests(i)' = Requests(i) + cost
      /\ Requests(p)' \in Nat /\ (p \in LookedUp => Requests(p)' = 1)
  <2>1. DOMAIN found' = DOMAIN found \cup {p}
    BY <1>2
  <2>2. /\ \A i : Requests(i) \in Nat
        /\ \A i \in DOMAIN found \cup {0} :
             Requests(i)' = IF p \in LookedUp THEN Requests(i) + 1 ELSE Requests(i)
        /\ p \in LookedUp => Requests(p)' = 1
        /\ Requests(p)' \in Nat
    BY <1>0, <1>1, <1>2, <2>1, RequestsGrow
  <2> QED BY <2>2
<1>5. NextHost = hosts[p]
  BY <1>0 DEF NextHost
<1>6. /\ found'[p].accounts = accounts /\ found'[p].readAt = at
      /\ \A i \in DOMAIN found : found'[i] = found[i]
      /\ DOMAIN found' = DOMAIN found \cup {p}
  BY <1>1, <1>2
<1>7. Collection'
  <2>1. DOMAIN found' \subseteq DOMAIN hosts
    BY <1>1, <1>6 DEF Collection
  <2>2. \A i \in DOMAIN found', j \in DOMAIN hosts \ DOMAIN found' : i < j
    BY <1>1, <1>6 DEF Collection
  <2>3. \A i \in DOMAIN found' :
          /\ IF i \in LookedUp THEN found'[i].accounts \in Answers[hosts[i].id]
             ELSE found'[i].accounts = <<>>
          /\ found'[i].readAt \in Int
    BY <1>1, <1>3, <1>5, <1>6 DEF Collection
  <2>4. step' \notin {"idle", "listing"} /\ listedAt \in Int
    BY <1>1, <1>2 DEF Collection
  <2> QED BY <1>1, <1>2, <1>3, <2>1, <2>2, <2>3, <2>4 DEF Collection
<1>8. /\ now \in Int /\ Ttl \in Nat /\ Latency \in Nat
      /\ listedAt \in Int /\ \A i \in DOMAIN found : found[i].readAt \in Int
  BY <1>1, HostDiscoveryAssumption DEF TypeOK, Collection
<1>9. \A n \in Nat : Latency * (n + 1) = Latency * n + Latency
  BY HostDiscoveryAssumption
<1>10. Latency * 0 = 0 /\ Latency * 1 = Latency
  BY HostDiscoveryAssumption
<1>11. Sent = now /\ Spent = Latency * cost /\ Sent' = now /\ Spent' = 0
  BY <1>3, <1>10 DEF Sent, Spent
<1>12. \A n \in Nat : Latency * n \in Nat /\ Latency * (n + cost) = Latency * n + Latency * cost
  <2>1. \A n \in Nat : Latency * n \in Nat
    BY <1>8
  <2>2. CASE p \in LookedUp
    <3>1. cost = 1
      BY <2>2
    <3> HIDE DEF cost
    <3>2. \A n \in Nat : Latency * (n + cost) = Latency * n + Latency
      BY <1>9, <3>1
    <3>3. Latency * cost = Latency
      BY <1>10, <3>1
    <3> QED BY <2>1, <3>2, <3>3
  <2>3. CASE p \notin LookedUp
    <3>1. cost = 0
      BY <2>3
    <3> HIDE DEF cost
    <3>2. \A n \in Nat : n + cost = n
      BY <3>1
    <3>3. \A n \in Nat : Latency * n + 0 = Latency * n
      BY <2>1
    <3>4. Latency * cost = 0
      BY <1>10, <3>1
    <3> QED BY <2>1, <3>2, <3>3, <3>4
  <2> QED BY <2>2, <2>3
<1>13. Aged'
  <2>1. ASSUME NEW i \in DOMAIN found
        PROVE  now - found'[i].readAt <= Ttl + Latency * Requests(i)'
    <3> DEFINE n == Requests(i)
    <3>1. now - found[i].readAt <= Ttl + Latency * n + Latency * cost
      BY <1>1, <1>11 DEF Aged
    <3>2. n \in Nat /\ Requests(i)' = n + cost
      BY <1>4
    <3>3. Latency * Requests(i)' = Latency * n + Latency * cost
      BY <1>12, <3>2
    <3>4. Latency * n \in Nat /\ Latency * cost \in Nat
      BY <1>8, <1>10, <1>12, <3>2
    <3> HIDE DEF n, cost
    <3> QED BY <1>6, <1>8, <3>1, <3>3, <3>4
  <2>2. now - at <= Ttl + Latency * Requests(p)'
    <3>1. CASE p \in LookedUp
      BY <1>3, <1>4, <1>8, <1>10, <3>1
    <3>2. CASE p \notin LookedUp
      <4>1. Latency * Requests(p)' \in Nat /\ now - at <= Ttl
        BY <1>3, <1>4, <1>12, <3>2
      <4> HIDE DEF cost
      <4> QED BY <1>8, <4>1
    <3> QED BY <3>1, <3>2
  <2>3. now - listedAt <= Ttl + Latency * (1 + Requests(0)')
    <3> DEFINE n == Requests(0)
    <3>1. now - listedAt <= Ttl + Latency * (1 + n) + Latency * cost
      BY <1>1, <1>11 DEF Aged
    <3>2. n \in Nat /\ Requests(0)' = n + cost /\ 1 + n \in Nat
      BY <1>4
    <3>3. 1 + Requests(0)' = (1 + n) + cost
      BY <3>2
    <3>4. Latency * (1 + Requests(0)') = Latency * (1 + n) + Latency * cost
      BY <1>12, <3>2, <3>3
    <3>5. Latency * (1 + n) \in Nat /\ Latency * cost \in Nat
      BY <1>8, <1>10, <1>12, <3>2
    <3> HIDE DEF n, cost
    <3> QED BY <1>8, <3>1, <3>4, <3>5
  <2>4. \A i : Requests(i)' \in Int => Latency * Requests(i)' \in Int
    BY <1>8
  <2>5. \A i \in DOMAIN found' : Requests(i)' \in Nat /\ now - found'[i].readAt <= Ttl + Latency * Requests(i)'
    BY <1>4, <1>6, <2>1, <2>2
  <2>6. Requests(0)' \in Nat
    BY <1>4
  <2>7. \A n \in Nat : Ttl + Latency * n + 0 = Ttl + Latency * n
    BY <1>8, <1>12
  <2>8. Latency * (1 + Requests(0)') \in Int
    BY <1>8, <2>6
  <2>9. Ttl + Latency * (1 + Requests(0)') + 0 = Ttl + Latency * (1 + Requests(0)')
    BY <1>8, <2>8
  <2> QED BY <1>2, <1>11, <2>3, <2>5, <2>7, <2>9 DEF Aged
<1>14. Purpose'
  BY <1>2 DEF Purpose
<1> QED
  BY <1>2, <1>7, <1>13, <1>14 DEF Search

-----------------------------------------------------------------------------
(* While the search stands still, so does what it has found.                *)
LEMMA CollectionStays ==
  ASSUME Collection, UNCHANGED searchVars
  PROVE  /\ Collection' /\ NextHost' = NextHost
         /\ \A i : Requests(i)' = Requests(i)
<1>1. step' = step /\ listedAt' = listedAt /\ hosts' = hosts /\ found' = found
  BY DEF searchVars
<1>2. LookedUp' = LookedUp
  BY <1>1 DEF LookedUp
<1>3. Collection'
  BY <1>1, <1>2 DEF Collection
<1>4. NextHost' = NextHost
  BY <1>1 DEF NextHost, Place, Min
<1> QED
  BY <1>1, <1>2, <1>3, <1>4 DEF Requests

(* Others' lookups, and time while its request is under way, leave the      *)
(* search's promises as they are.                                           *)
LEMMA OthersKeepSearch ==
  ASSUME Search, UNCHANGED searchVars,
         pc'[Mine] = pc[Mine], asked'[Mine] = asked[Mine],
         since'[Mine] = since[Mine], readAt'[Mine] = readAt[Mine],
         now' = now \/ ~Resuming
  PROVE  Search'
<1>1. step' = step /\ listedAt' = listedAt /\ hosts' = hosts /\ found' = found
  BY DEF searchVars
<1>2. Purpose /\ Collection
  BY DEF Search
<1>3. Collection' /\ NextHost' = NextHost /\ \A i : Requests(i)' = Requests(i)
  BY <1>2, CollectionStays
<1>4. Purpose'
  BY <1>1, <1>2, <1>3 DEF Purpose
<1>5. step' \in {"listing", "fetching"} /\ pc'[Mine] = "done" =>
        now' - readAt'[Mine] <= Ttl + Latency
  BY <1>1 DEF Search, Resuming
<1>6. ASSUME step = "fetching" PROVE Aged'
  <2>1. Sent' = Sent /\ Spent' = Spent
    BY <1>2, <1>6 DEF Sent, Spent, Purpose, Resuming
  <2>2. Aged
    BY <1>6 DEF Search
  <2> QED BY <1>1, <1>3, <2>1, <2>2 DEF Aged
<1> QED
  BY <1>1, <1>3, <1>4, <1>5, <1>6 DEF Search

(* An answer arrives in the search's own lookup: the request was sent at    *)
(* most Latency ago.                                                        *)
LEMMA ArriveKeepsSearch ==
  ASSUME IInv, Search, Arrive(Mine), Next, UNCHANGED searchVars
  PROVE  Search'
<1> USE HostSearchAssumption
<1>1. step' = step /\ listedAt' = listedAt /\ hosts' = hosts /\ found' = found
  BY DEF searchVars
<1>2. Purpose /\ Collection
  BY DEF Search
<1>3. Collection' /\ NextHost' = NextHost /\ \A i : Requests(i)' = Requests(i)
  BY <1>2, CollectionStays
<1>4. /\ pc[Mine] = "answered" /\ pc'[Mine] = "done" /\ now' = now
      /\ asked'[Mine] = asked[Mine]
  BY DEF Arrive, IInv, TypeOK
<1>5. now' - readAt'[Mine] <= Ttl + Latency
  BY <1>4, DoneIsFresh
<1>6. Purpose'
  BY <1>1, <1>2, <1>3, <1>4 DEF Purpose
<1>7. ASSUME step = "fetching" PROVE Aged'
  <2>1. Sent = since[Mine] /\ Spent = 0 /\ Sent' = now /\ Spent' = Latency
    BY <1>4 DEF Sent, Spent
  <2>2. /\ now <= since[Mine] + Latency /\ now \in Int /\ since[Mine] \in Int
        /\ Latency \in Nat /\ Ttl \in Nat
    BY <1>4, HostDiscoveryAssumption DEF IInv, InTime, TypeOK
  <2>3. Aged
    BY <1>7 DEF Search
  <2>4. \A i : IsFiniteSet({j \in LookedUp \cap DOMAIN found : j >= i})
    BY <1>2, FS_Subset DEF Collection
  <2>5. \A i : Requests(i) \in Nat
    BY <2>4, FS_CardinalityType DEF Requests
  <2>6. \A n \in Nat : Latency * n \in Nat /\ Latency * (1 + n) \in Nat
    BY <2>2
  <2>7. ASSUME NEW i \in DOMAIN found
        PROVE  now - found[i].readAt <= Ttl + Latency * Requests(i) + Latency
    <3>1. since[Mine] - found[i].readAt <= Ttl + Latency * Requests(i) + 0
      BY <2>1, <2>3 DEF Aged
    <3>2. found[i].readAt \in Int /\ Latency * Requests(i) \in Nat
      BY <1>2, <2>5, <2>6 DEF Collection
    <3> QED BY <2>2, <3>1, <3>2
  <2>8. now - listedAt <= Ttl + Latency * (1 + Requests(0)) + Latency
    <3>1. since[Mine] - listedAt <= Ttl + Latency * (1 + Requests(0)) + 0
      BY <2>1, <2>3 DEF Aged
    <3>2. listedAt \in Int /\ Latency * (1 + Requests(0)) \in Nat
      BY <1>2, <2>5, <2>6 DEF Collection
    <3> QED BY <2>2, <3>1, <3>2
  <2> QED BY <1>1, <1>3, <2>1, <2>7, <2>8 DEF Aged
<1> QED
  BY <1>1, <1>3, <1>4, <1>5, <1>6, <1>7 DEF Search

(* The search begins: nothing is found yet.                                 *)
LEMMA SearchHostsKeeps ==
  ASSUME IInv, Search, Next, NEW q \in Query, SearchHosts(q)
  PROVE  Search'
<1> USE HostSearchAssumption
<1>1. /\ step = "idle" /\ step' = "listing"
      /\ listedAt' = listedAt /\ hosts' = hosts /\ found' = found
      /\ pc[Mine] = "idle" /\ pc'[Mine] \in {"asking", "done"} /\ asked'[Mine] = q
      /\ now' = now
  BY DEF SearchHosts, Ask, IInv, TypeOK
<1>2. Collection'
  BY <1>1 DEF Search, Collection, LookedUp
<1>3. pc'[Mine] = "done" => now' - readAt'[Mine] <= Ttl + Latency
  BY <1>1, DoneIsFresh
<1>4. Purpose'
  BY <1>1 DEF Purpose
<1> QED
  BY <1>1, <1>2, <1>3, <1>4 DEF Search

(* The page has arrived: its hosts that pass are at their places, and their *)
(* accounts, if any are asked for, are next.                                *)
LEMMA ListedKeeps ==
  ASSUME IInv, Search, NEW withAccounts \in BOOLEAN, Listed(withAccounts)
  PROVE  Search' /\ Aged' /\ DOMAIN found' = {}
<1> USE HostSearchAssumption
<1>1. /\ step = "listing" /\ pc[Mine] = "done"
      /\ listedAt' = readAt[Mine]
      /\ hosts' = RestrictValues(value[Mine], Passes)
      /\ step' = IF withAccounts /\ DOMAIN hosts' # {} THEN "fetching" ELSE "returned"
      /\ pc'[Mine] = "idle" /\ now' = now /\ found' = found
  BY DEF Listed, Forget, IInv, TypeOK
<1> DEFINE page == value[Mine]
<1>2. DOMAIN found = {}
  BY <1>1 DEF Search, Collection
<1>3. /\ page \in Seq(ToSet(page))
      /\ \A host \in ToSet(page) : Passes(host) /\ host.accounts > 0 => host.id \in Asset
  <2>1. asked[Mine] \in Query
    BY <1>1 DEF Search, Purpose
  <2>2. \E m \in Answers[asked[Mine]] : page = Reply(asked[Mine], m)
    BY <1>1 DEF IInv, Answered, Saw
  <2> QED BY <2>1, <2>2
<1> HIDE DEF page
<1>4. /\ DOMAIN page = 1..Len(page) /\ Len(page) \in Nat
      /\ \A i \in DOMAIN page : page[i] \in ToSet(page)
  BY <1>3
<1>5. IsFiniteSet(DOMAIN page)
  BY <1>4, FS_Interval
<1>6. hosts' = [i \in {i \in DOMAIN page : Passes(page[i])} |-> page[i]]
  BY <1>1 DEF RestrictValues, Restrict, page
<1>7. DOMAIN hosts' \subseteq DOMAIN page
      /\ \A i \in DOMAIN hosts' : hosts'[i] = page[i] /\ Passes(page[i])
  BY <1>6
<1>8. IsFiniteSet(DOMAIN hosts') /\ DOMAIN hosts' \subseteq Nat
  BY <1>4, <1>5, <1>7, FS_Subset
<1>9. \A i \in DOMAIN hosts' :
        Passes(hosts'[i]) /\ (hosts'[i].accounts > 0 => hosts'[i].id \in Asset)
  BY <1>3, <1>4, <1>7
<1>10. now \in Int /\ readAt[Mine] \in Int /\ Ttl \in Nat /\ Latency \in Nat
  BY HostDiscoveryAssumption DEF IInv, TypeOK
<1>11. Collection'
  BY <1>1, <1>2, <1>8, <1>9, <1>10 DEF Collection
<1>12. Purpose'
  BY <1>1, <1>2 DEF Purpose
<1>13. Aged'
  <2>1. {j \in LookedUp' \cap DOMAIN found' : j >= 0} = {}
    BY <1>1, <1>2
  <2>2. Requests(0)' = 0
    BY <2>1, FS_EmptySet DEF Requests
  <2>3. now - readAt[Mine] <= Ttl + Latency
    BY <1>1 DEF Search
  <2>4. Latency * (1 + 0) = Latency
    BY <1>10
  <2>5. Sent' = now /\ Spent' = 0
    BY <1>1 DEF Sent, Spent
  <2>6. now - readAt[Mine] <= Ttl + Latency * (1 + 0) + 0
    BY <1>10, <2>3, <2>4
  <2> QED BY <1>1, <1>2, <2>2, <2>5, <2>6 DEF Aged
<1> QED
  BY <1>1, <1>2, <1>11, <1>12, <1>13 DEF Search

(* The accounts of the next host are asked for, or found in the cache.      *)
LEMMA AskNextKeeps ==
  ASSUME IInv, Search, Next, AskNext
  PROVE  Search'
<1> USE HostSearchAssumption
<1>1. PICK a \in Asset : a = NextHost.id /\ Ask(Mine, a)
  BY DEF AskNext
<1>2. /\ step = "fetching" /\ pc[Mine] = "idle" /\ NextHost.accounts > 0
      /\ UNCHANGED searchVars
  BY DEF AskNext
<1>3. step' = step /\ listedAt' = listedAt /\ hosts' = hosts /\ found' = found
  BY <1>2 DEF searchVars
<1>4. /\ asked'[Mine] = NextHost.id /\ now' = now
      /\ \/ pc'[Mine] = "asking" /\ since'[Mine] = now
         \/ pc'[Mine] = "done"
  BY <1>1 DEF Ask, IInv, TypeOK
<1>5. Collection' /\ NextHost' = NextHost /\ \A i : Requests(i)' = Requests(i)
  BY <1>2, CollectionStays DEF Search
<1>6. pc'[Mine] = "done" => now' - readAt'[Mine] <= Ttl + Latency
  BY <1>2, <1>4, DoneIsFresh
<1>7. Purpose'
  BY <1>2, <1>3, <1>4, <1>5 DEF Search, Purpose
<1>8. Aged'
  <2>1. /\ Sent = now /\ Spent = 0 /\ Sent' = now
        /\ Spent' \in Nat /\ Ttl \in Nat /\ Latency \in Nat /\ now \in Int
    BY <1>2, <1>4, HostDiscoveryAssumption DEF Sent, Spent, IInv, TypeOK
  <2>2. Aged /\ Collection
    BY <1>2 DEF Search
  <2>3. \A i : IsFiniteSet({j \in LookedUp \cap DOMAIN found : j >= i})
    BY <2>2, FS_Subset DEF Collection
  <2>4. \A i : Requests(i) \in Nat
    BY <2>3, FS_CardinalityType DEF Requests
  <2>5. \A n \in Nat : Latency * n \in Nat /\ Latency * (1 + n) \in Nat
    BY <2>1
  <2>6. ASSUME NEW i \in DOMAIN found
        PROVE  now - found[i].readAt <= Ttl + Latency * Requests(i) + Spent'
    <3>1. now - found[i].readAt <= Ttl + Latency * Requests(i) + 0
      BY <2>1, <2>2 DEF Aged
    <3>2. found[i].readAt \in Int /\ Latency * Requests(i) \in Nat
      BY <2>2, <2>4, <2>5 DEF Collection
    <3> QED BY <2>1, <3>1, <3>2
  <2>7. now - listedAt <= Ttl + Latency * (1 + Requests(0)) + Spent'
    <3>1. now - listedAt <= Ttl + Latency * (1 + Requests(0)) + 0
      BY <2>1, <2>2 DEF Aged
    <3>2. listedAt \in Int /\ Latency * (1 + Requests(0)) \in Nat
      BY <2>2, <2>4, <2>5 DEF Collection
    <3> QED BY <2>1, <3>1, <3>2
  <2> QED BY <1>3, <1>5, <2>1, <2>6, <2>7 DEF Aged
<1> QED
  BY <1>2, <1>3, <1>5, <1>6, <1>7, <1>8 DEF Search

(* The next host has no accounts, or those that were asked for are there:   *)
(* they are its own.                                                        *)
LEMMA CollectedKeeps ==
  ASSUME IInv, Search, SkipHost \/ Collected
  PROVE  Search' /\ Aged' /\ pc'[Mine] = "idle" /\ (step' = "returned" => DOMAIN found' = DOMAIN hosts')
<1> USE HostSearchAssumption
<1>1. TypeOK /\ Collection /\ Purpose
  BY DEF IInv, Search
<1>2. CASE SkipHost
  <2>1. /\ step = "fetching" /\ pc[Mine] = "idle" /\ NextHost.accounts = 0
        /\ Collect(<<>>, now) /\ now' = now /\ pc'[Mine] = "idle"
    BY <1>2 DEF SkipHost, vars, lookupVars
  <2>2. now \in Int /\ now - now <= Ttl
    BY <1>1, HostDiscoveryAssumption DEF TypeOK
  <2>3. ~(NextHost.accounts > 0) /\ pc[Mine] # "done"
    BY <2>1
  <2>4. Search' /\ Aged'
    BY <1>1, <2>1, <2>2, <2>3, CollectKeeps
  <2> QED BY <2>1, <2>4 DEF Collect
<1>3. CASE Collected
  <2>1. /\ step = "fetching" /\ pc[Mine] = "done"
        /\ Collect(value[Mine], readAt[Mine]) /\ now' = now /\ pc'[Mine] = "idle"
    BY <1>1, <1>3 DEF Collected, Forget, TypeOK
  <2>2. NextHost.accounts > 0 /\ asked[Mine] = NextHost.id /\ DOMAIN found # DOMAIN hosts
    BY <1>1, <2>1 DEF Purpose
  <2>3. NextHost.id \in Asset
    BY <1>1, <2>2, PlaceIsNext DEF Collection, NextHost
  <2>4. value[Mine] \in Answers[NextHost.id]
    BY <2>1, <2>2, <2>3, AccountsAssumption DEF IInv, Answered, Saw, Reply
  <2>5. readAt[Mine] \in Int /\ now - readAt[Mine] <= Ttl + Latency
    BY <1>1, <2>1, HostDiscoveryAssumption DEF Search, TypeOK
  <2>6. Search' /\ Aged'
    BY <1>1, <2>1, <2>2, <2>4, <2>5, CollectKeeps
  <2> QED BY <2>1, <2>6 DEF Collect
<1> QED
  BY <1>2, <1>3

(* Whatever step is taken, by the search, by another lookup, by JumpServer  *)
(* or by the clock, the search keeps to what it has promised.               *)
LEMMA SearchKeeps ==
  ASSUME IInv, Search, NextSearch
  PROVE  Search'
<1> USE HostSearchAssumption
<1>1. Next \/ UNCHANGED vars
  BY SearchStep DEF allVars
<1>2. CASE SkipHost \/ Collected
  BY <1>2, CollectedKeeps
<1>3. ASSUME NEW withAccounts \in BOOLEAN, Listed(withAccounts) PROVE Search'
  BY <1>3, ListedKeeps
<1>4. ASSUME NEW l \in Lookup, NEW k \in Key, Ask(l, k) PROVE Next
  BY <1>4 DEF Next
<1>5. CASE AskNext
  BY <1>4, <1>5, AskNextKeeps DEF AskNext, Key
<1>6. ASSUME NEW q \in Query, SearchHosts(q) PROVE Search'
  BY <1>4, <1>6, SearchHostsKeeps DEF SearchHosts, Key
<1>7. CASE SearchRaises
  <2>1. /\ step' = "raised" /\ listedAt' = listedAt /\ hosts' = hosts /\ found' = found
    BY <1>7 DEF SearchRaises
  <2>2. Collection' /\ Purpose'
    BY <2>1 DEF Search, Collection, Purpose, LookedUp
  <2> QED BY <2>1, <2>2 DEF Search
<1>8. ASSUME ~Resuming, UNCHANGED searchVars,
             \/ \E k \in Key : \E v \in Answers[k] : ServerChanges(k, v)
             \/ Tick
             \/ \E l \in Lookup \ {Mine} :
                  \/ \E k \in Key : Ask(l, k)
                  \/ Fail(l)
                  \/ Leave(l)
                  \/ ServerReads(l)
                  \/ Arrive(l)
      PROVE  Search'
  <2>1. /\ pc'[Mine] = pc[Mine] /\ asked'[Mine] = asked[Mine]
        /\ since'[Mine] = since[Mine] /\ readAt'[Mine] = readAt[Mine]
    BY <1>8 DEF ServerChanges, Tick, Ask, Fail, Leave, Forget, ServerReads, Arrive,
                lookupVars, IInv, TypeOK
  <2> QED BY <1>8, <2>1, OthersKeepSearch
<1>9. ASSUME ~Resuming, UNCHANGED searchVars, ServerReads(Mine) PROVE Search'
  <2>1. /\ pc[Mine] = "asking" /\ pc'[Mine] = "answered" /\ asked'[Mine] = asked[Mine]
        /\ since'[Mine] = since[Mine] /\ now' = now
        /\ step' = step /\ listedAt' = listedAt /\ hosts' = hosts /\ found' = found
    BY <1>9 DEF ServerReads, searchVars, IInv, TypeOK
  <2>2. Collection' /\ NextHost' = NextHost /\ \A i : Requests(i)' = Requests(i)
    BY <1>9, CollectionStays DEF Search
  <2>3. Sent' = Sent /\ Spent' = Spent
    BY <2>1 DEF Sent, Spent
  <2>4. Purpose'
    BY <2>1, <2>2 DEF Search, Purpose
  <2>5. step = "fetching" => Aged'
    BY <2>1, <2>2, <2>3 DEF Search, Aged
  <2> QED BY <2>1, <2>2, <2>4, <2>5 DEF Search
<1>10. ASSUME UNCHANGED searchVars, Arrive(Mine) PROVE Search'
  <2>1. Next
    BY <1>10 DEF Next
  <2> QED BY <1>10, <2>1, ArriveKeepsSearch
<1> QED
  BY <1>2, <1>3, <1>5, <1>6, <1>7, <1>8, <1>9, <1>10 DEF NextSearch

(* So it is in every state of a search.                                     *)
THEOREM SearchHolds == SpecSearch => [](IInv /\ Search)
<1>1. InitSearch => IInv /\ Search
  <2> SUFFICES ASSUME InitSearch PROVE IInv /\ Search
    OBVIOUS
  <2>1. IInv
    BY InitInvariant DEF InitSearch
  <2>2. step = "idle" /\ pc[Mine] = "idle" /\ DOMAIN hosts = {} /\ DOMAIN found = {}
        /\ listedAt = -1
    BY HostSearchAssumption DEF InitSearch, Init
  <2>3. Purpose /\ Collection
    BY <2>2, FS_EmptySet DEF Purpose, Collection
  <2> QED BY <2>1, <2>2, <2>3 DEF Search
<1>2. IInv /\ Search /\ [NextSearch]_allVars => IInv' /\ Search'
  <2> SUFFICES ASSUME IInv, Search, [NextSearch]_allVars PROVE IInv' /\ Search'
    OBVIOUS
  <2>1. IInv'
    BY SearchStep, NextInvariant
  <2>2. CASE UNCHANGED allVars
    <3>1. /\ UNCHANGED searchVars /\ now' = now /\ pc' = pc /\ asked' = asked
          /\ since' = since /\ readAt' = readAt
      BY <2>2 DEF allVars, vars, lookupVars
    <3> QED BY <2>1, <3>1, OthersKeepSearch
  <2> QED BY <2>1, <2>2, SearchKeeps
<1> QED
  BY <1>1, <1>2, PTL DEF SpecSearch

(* What a search has collected when it is over is what it may return.       *)
AllCollected ==
  /\ Collection /\ Aged /\ pc[Mine] = "idle"
  /\ DOMAIN found = {} \/ DOMAIN found = DOMAIN hosts

Together ==
  /\ \A i \in DOMAIN found :
       /\ Passes(hosts[i])
       /\ IF i \in LookedUp THEN found[i].accounts \in Answers[hosts[i].id]
          ELSE found[i].accounts = <<>>
       /\ now - found[i].readAt <= Ttl + Latency * Cardinality({j \in LookedUp : j >= i})
  /\ now - listedAt <= Ttl + Latency * (1 + Cardinality(LookedUp \cap DOMAIN found))

(* The requests counted since a place are all there were: its hosts without *)
(* accounts cost none.                                                      *)
LEMMA ReturnedIsSound == AllCollected => Together
<1> SUFFICES ASSUME AllCollected PROVE Together
  OBVIOUS
<1> USE DEF AllCollected
<1>1. /\ Sent = now /\ Spent = 0 /\ Ttl \in Nat /\ Latency \in Nat
  BY HostDiscoveryAssumption DEF Sent, Spent
<1>2. \A i : IsFiniteSet({j \in LookedUp \cap DOMAIN found : j >= i})
  BY FS_Subset DEF Collection
<1>3. \A i : Requests(i) \in Nat
  BY <1>2, FS_CardinalityType DEF Requests
<1>4. \A n \in Nat : /\ Ttl + Latency * n + 0 = Ttl + Latency * n
                    /\ Ttl + Latency * (1 + n) + 0 = Ttl + Latency * (1 + n)
  <2>1. \A n \in Nat : Latency * n \in Nat /\ 1 + n \in Nat
    BY <1>1
  <2> QED BY <1>1, <2>1
<1>5. \A i \in DOMAIN found : now - found[i].readAt <= Ttl + Latency * Requests(i)
  BY <1>1, <1>3, <1>4 DEF Aged
<1>6. now - listedAt <= Ttl + Latency * (1 + Requests(0))
  BY <1>1, <1>3, <1>4 DEF Aged
<1>7. LookedUp \cap DOMAIN found = {j \in LookedUp \cap DOMAIN found : j >= 0}
  BY DEF Collection
<1>8. ASSUME NEW i \in DOMAIN found
      PROVE  {j \in LookedUp : j >= i} = {j \in LookedUp \cap DOMAIN found : j >= i}
  BY DEF LookedUp
<1> QED
  BY <1>5, <1>6, <1>7, <1>8 DEF Collection, Requests, Together

(* What discover_hosts returns belongs together: hosts that pass the        *)
(* filters, each with accounts that JumpServer gave for that very host, and *)
(* no part older than a time to live and the requests made since.           *)
THEOREM SearchIsSoundHolds == SpecSearch => SearchIsSound
<1> DEFINE Sound ==
      step # "returned" /\ step' = "returned" =>
        /\ \A i \in DOMAIN found' :
             LET later == {j \in LookedUp' : j >= i}
             IN  /\ Passes(hosts'[i])
                 /\ IF i \in LookedUp' THEN found'[i].accounts \in Answers[hosts'[i].id]
                    ELSE found'[i].accounts = <<>>
                 /\ now' - found'[i].readAt <= Ttl + Latency * Cardinality(later)
        /\ now' - listedAt' <=
             Ttl + Latency * (1 + Cardinality(LookedUp' \cap DOMAIN found'))
<1>1. IInv /\ Search /\ [NextSearch]_allVars => [Sound]_allVars
  <2> SUFFICES ASSUME IInv, Search, NextSearch, step # "returned", step' = "returned"
               PROVE  Sound
    BY DEF allVars
  <2>1. AllCollected' => Together'
    BY ReturnedIsSound, PTL
  <2>2. /\ Collection' /\ Aged' /\ pc'[Mine] = "idle"
        /\ DOMAIN found' = {} \/ DOMAIN found' = DOMAIN hosts'
    <3>1. Search'
      BY SearchKeeps
    <3>2. CASE \E withAccounts \in BOOLEAN : Listed(withAccounts)
      <4>1. pc'[Mine] = "idle"
        BY <3>2, HostSearchAssumption DEF Listed, Forget, IInv, TypeOK
      <4> QED BY <3>1, <3>2, <4>1, ListedKeeps DEF Search
    <3>3. CASE SkipHost \/ Collected
      BY <3>1, <3>3, CollectedKeeps DEF Search
    <3>4. step' = step => FALSE
      OBVIOUS
    <3>5. ASSUME UNCHANGED searchVars PROVE FALSE
      BY <3>4, <3>5 DEF searchVars
    <3>6. CASE AskNext
      BY <3>5, <3>6 DEF AskNext
    <3>7. CASE (\E q \in Query : SearchHosts(q)) \/ SearchRaises
      BY <3>7 DEF SearchHosts, SearchRaises
    <3> QED BY <3>2, <3>3, <3>5, <3>6, <3>7 DEF NextSearch
  <2> QED BY <2>1, <2>2 DEF AllCollected, Together
<1> QED
  BY <1>1, SearchHolds, PTL DEF SpecSearch, SearchIsSound
=============================================================================
