---------------------------- MODULE HostDiscovery ----------------------------
(***************************************************************************)
(* HostDiscovery (host_discovery.py) and what its callers make of a lookup: *)
(* the runas user (user_connection.py) and the host of a session            *)
(* (sessions.py, _resolve_host).                                            *)
(*                                                                          *)
(* A lookup is cut at its one await, the GET.  Several may be under way at  *)
(* once.  The process has two HostDiscovery objects, the tools' one and the *)
(* session manager's one; they share nothing, and a behaviour follows one   *)
(* of them.  JumpServer's inventory is external and changes at any moment.  *)
(***************************************************************************)
EXTENDS Integers, SequencesExt

CONSTANTS
  Lookup,    \* lookups: calls of fetch_runas_candidates() or _list_hosts()
  Asset,     \* asset ids; the accounts of each are looked up
  Query,     \* the searches that are made: a name and a page
  Page,      \* the length of each search's page: 1 in _resolve_host()
  Answers,   \* what matches a key at JumpServer, at one time or another
  Ttl,       \* host_cache_ttl_seconds, in ticks
  Latency,   \* bound: a GET takes at most so many ticks (the client's timeout)
  MaxTime,   \* bound: the clock stops here
  None

Key == Asset \cup Query

(* What a GET for k returns of the matches v: a search asks for one page.   *)
Reply(k, v) == IF k \in Query /\ Len(v) > Page[k] THEN SubSeq(v, 1, Page[k]) ELSE v

Answer == UNION {Answers[k] : k \in Key}
Possible == {f \in [Key -> Answer] : \A k \in Key : f[k] \in Answers[k]}
Value == UNION {{Reply(k, v) : v \in Answers[k]} : k \in Key}

ASSUME HostDiscoveryAssumption ==
  /\ Ttl \in Nat /\ Latency \in Nat /\ MaxTime \in Nat
  /\ \A k \in Key : Answers[k] # {}

(* The cache keys of accounts and of searches differ in their prefix, and   *)
(* the accounts of an asset arrive as a list of ids and usernames           *)
(* (_normalize_account).                                                    *)
ASSUME AccountsAssumption ==
  /\ Asset \cap Query = {}
  /\ \A a \in Asset : \A accounts \in Answers[a] :
       /\ accounts \in Seq(ToSet(accounts))
       /\ \A account \in ToSet(accounts) :
            account = [id |-> account.id, username |-> account.username]

VARIABLES
  now,      \* time.monotonic(), in ticks
  server,   \* JumpServer's present matches for each key, in its order
  cache,    \* HostDiscovery._cache
  pc,       \* where each lookup stands
  asked,    \* the key of each lookup
  since,    \* when a pending lookup was sent to JumpServer
  value,    \* the answer the lookup got
  readAt    \* history: when JumpServer read that answer

lookupVars == <<pc, asked, since, value, readAt>>
vars == <<now, server, cache, lookupVars>>

Nobody == [id |-> None, username |-> None]

NoEntry == [value |-> None, expires |-> -1, readAt |-> -1]

Entry ==
  [value : Value \cup {None}, expires : -1..(MaxTime + Ttl), readAt : -1..MaxTime]

TypeOK ==
  /\ now \in 0..MaxTime
  /\ server \in Possible
  /\ cache \in [Key -> Entry]
  /\ pc \in [Lookup -> {"idle", "asking", "answered", "done", "failed"}]
  /\ asked \in [Lookup -> Key \cup {None}]
  /\ since \in [Lookup -> 0..MaxTime]
  /\ value \in [Lookup -> Value \cup {None}]
  /\ readAt \in [Lookup -> -1..MaxTime]

Init ==
  /\ now = 0
  /\ server \in Possible
  /\ cache = [k \in Key |-> NoEntry]
  /\ pc = [l \in Lookup |-> "idle"]
  /\ asked = [l \in Lookup |-> None]
  /\ since = [l \in Lookup |-> 0]
  /\ value = [l \in Lookup |-> None]
  /\ readAt = [l \in Lookup |-> -1]

-----------------------------------------------------------------------------
(* JumpServer (external) and the clock.                                     *)

ServerChanges(k, v) ==
  /\ v # server[k]
  /\ server' = [server EXCEPT ![k] = v]
  /\ UNCHANGED <<now, cache, lookupVars>>

ServerReads(l) ==
  /\ pc[l] = "asking"
  /\ pc' = [pc EXCEPT ![l] = "answered"]
  /\ value' = [value EXCEPT ![l] = Reply(asked[l], server[asked[l]])]
  /\ readAt' = [readAt EXCEPT ![l] = now]
  /\ UNCHANGED <<now, server, cache, asked, since>>

Pending == {l \in Lookup : pc[l] \in {"asking", "answered"}}

Tick ==
  /\ now < MaxTime
  /\ \A l \in Pending : now - since[l] < Latency
  /\ now' = now + 1
  /\ UNCHANGED <<server, cache, lookupVars>>

-----------------------------------------------------------------------------
\* Seeded defect: an entry never expires.
FreshForEver(k) == cache[k].readAt >= 0

(* _cache_get(): there is an entry, and it has not expired.                 *)
Fresh(k) == cache[k].readAt >= 0 /\ ~(cache[k].expires < now)

(* _list_hosts() or fetch_runas_candidates(): a fresh entry answers at once,*)
(* an expired one is dropped and JumpServer is asked.                       *)
Ask(l, k) ==
  /\ pc[l] = "idle"
  /\ asked' = [asked EXCEPT ![l] = k]
  /\ \/ /\ Fresh(k)
        /\ pc' = [pc EXCEPT ![l] = "done"]
        /\ value' = [value EXCEPT ![l] = cache[k].value]
        /\ readAt' = [readAt EXCEPT ![l] = cache[k].readAt]
        /\ UNCHANGED <<cache, since>>
     \/ /\ ~Fresh(k)
        /\ pc' = [pc EXCEPT ![l] = "asking"]
        /\ since' = [since EXCEPT ![l] = now]
        /\ cache' = [cache EXCEPT ![k] = NoEntry]
        /\ UNCHANGED <<value, readAt>>
  /\ UNCHANGED <<now, server>>

\* Seeded defect: the entry lives too long.
PutTooLong(l) ==
  cache' = [cache EXCEPT ![asked[l]] =
              [value |-> value[l], expires |-> MaxTime + Ttl + 1, readAt |-> readAt[l]]]

(* _cache_put(): whatever another lookup has put there meanwhile is         *)
(* overwritten.                                                             *)
Put(l) ==
  cache' = [cache EXCEPT ![asked[l]] =
              [value |-> value[l], expires |-> now + Ttl, readAt |-> readAt[l]]]

Arrive(l) ==
  /\ pc[l] = "answered"
  /\ Put(l)
  /\ pc' = [pc EXCEPT ![l] = "done"]
  /\ since' = [since EXCEPT ![l] = 0]
  /\ UNCHANGED <<now, server, asked, value, readAt>>

(* A lookup is over and what it held is forgotten.                          *)
Forget(l, place) ==
  /\ pc' = [pc EXCEPT ![l] = place]
  /\ asked' = [asked EXCEPT ![l] = None]
  /\ since' = [since EXCEPT ![l] = 0]
  /\ value' = [value EXCEPT ![l] = None]
  /\ readAt' = [readAt EXCEPT ![l] = -1]
  /\ UNCHANGED <<now, server, cache>>

(* A transport error, an error status, or the caller is cancelled: nothing  *)
(* is cached.                                                               *)
Fail(l) ==
  /\ pc[l] \in {"asking", "answered"}
  /\ Forget(l, "failed")

(* The caller has made use of the answer, and looks something else up.      *)
Leave(l) ==
  /\ pc[l] \in {"done", "failed"}
  /\ Forget(l, "idle")

-----------------------------------------------------------------------------
(* What a caller makes of an answer.                                        *)

Resolved(account) == [kind |-> "resolved", runas |-> account.username]
Unresolved(kind) == [kind |-> kind, runas |-> None]

(* _match_account(): the first account with that id or that username.       *)
Matches(candidates, user) ==
  {i \in DOMAIN candidates :
     \/ user.id # None /\ candidates[i].id = user.id
     \/ user.username # None /\ candidates[i].username = user.username}

First(S) == CHOOSE i \in S : \A j \in S : i <= j

\* Seeded defect: of several candidates the first is taken.
ResolveFirst(candidates, user) ==
  CASE candidates = <<>> -> Unresolved("no_accounts")
    [] candidates # <<>> /\ Matches(candidates, user) # {} ->
         Resolved(candidates[First(Matches(candidates, user))])
    [] OTHER -> Resolved(candidates[1])

(* UserConnectionResolver.resolve().                                        *)
Resolve(candidates, user) ==
  CASE candidates = <<>> -> Unresolved("no_accounts")
    [] candidates # <<>> /\ user # Nobody /\ Matches(candidates, user) # {} ->
         Resolved(candidates[First(Matches(candidates, user))])
    [] candidates # <<>> /\ user # Nobody /\ Matches(candidates, user) = {} ->
         Unresolved("not_configured")
    [] Len(candidates) = 1 /\ user = Nobody -> Resolved(candidates[1])
    [] Len(candidates) > 1 /\ user = Nobody -> Unresolved("needs_selection")

AccountLookups == {l \in Lookup : pc[l] = "done" /\ asked[l] \in Asset}
HostLookups == {l \in Lookup : pc[l] = "done" /\ asked[l] \in Query}

(* A caller specifies nothing, or any id and username that the asset has at *)
(* one time or another.                                                     *)
Account(a) == UNION {ToSet(accounts) : accounts \in Answers[a]}
Choice(a) ==
  [id : {None} \cup {acc.id : acc \in Account(a)},
   username : {None} \cup {acc.username : acc \in Account(a)}]

-----------------------------------------------------------------------------
Next ==
  \/ \E k \in Key : \E v \in Answers[k] : ServerChanges(k, v)
  \/ Tick
  \/ \E l \in Lookup :
       \/ \E k \in Key : Ask(l, k)
       \/ ServerReads(l)
       \/ Arrive(l)
       \/ Fail(l)
       \/ Leave(l)

Spec == Init /\ [][Next]_vars

-----------------------------------------------------------------------------
(* Whatever way an answer took, through a cache that an older answer may    *)
(* have overwritten or not, JumpServer read it at most one time to live and *)
(* one request before it is used.                                           *)
FreshEnough ==
  [][\A l \in Lookup :
       pc[l] # "done" /\ pc'[l] = "done" => now - readAt'[l] <= Ttl + Latency]_vars

(* A lookup is answered with something JumpServer said of the asset or the  *)
(* name it asked for, never with another key's answer.                      *)
AnswersItsOwnKey ==
  \A l \in AccountLookups \cup HostLookups :
    \E v \in Answers[asked[l]] : value[l] = Reply(asked[l], v)

(* Whatever user a caller asks for, and however old the accounts that it    *)
(* chose from: the runas user is that one, or the only one there is; among  *)
(* several nothing is guessed (user_connection.py 7-13).                    *)
NeverGuesses ==
  \A l \in AccountLookups : \A user \in Choice(asked[l]) :
    LET resolution == Resolve(value[l], user)
    IN  resolution.kind = "resolved" =>
          \/ user.username = resolution.runas
          \/ [id |-> user.id, username |-> resolution.runas] \in ToSet(value[l])
          \/ user = Nobody /\ Len(value[l]) = 1
=============================================================================
