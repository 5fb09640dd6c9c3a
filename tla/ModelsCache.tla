---------------------------- MODULE ModelsCache ----------------------------
(***************************************************************************)
(* GET /v1/models: the cached snapshot of the upstream's models, the        *)
(* callers that read it or fetch a new one, and the task that replaces a    *)
(* stale one in the background.                                             *)
(*                                                                          *)
(* A fetch goes through accounts until one answers with a readable list:    *)
(* execute_with_failover_from fails over on its own, and an answer that     *)
(* cannot be read sends the fetch into it again with the accounts tried so  *)
(* far.  A step is one critical section or one answer; the runtime has      *)
(* several threads, so others may run between any two.                      *)
(*                                                                          *)
(* Which accounts the pool would select, and their refreshes, are left open *)
(* (AccountPool).  A snapshot is known by its version, which the upstream   *)
(* raises as it likes; the headers kept with it are left out.               *)
(***************************************************************************)
EXTENDS Naturals, FiniteSets

CONSTANTS
  Accounts, NoAccount,
  Callers,      \* clients, each with one request at a time,
  Codex,        \*   and those of them that are Codex
  Tasks,        \* tasks that may refresh in the background
  Nothing,      \* the empty cache
  TTL,          \* MODELS_CACHE_TTL
  MaxTime,      \* bound on the clock
  MaxVersion    \* bound on the upstream's versions

ASSUME ModelsAssumption ==
  /\ IsFiniteSet(Callers) /\ IsFiniteSet(Tasks) /\ Callers \cap Tasks = {}
  /\ Codex \subseteq Callers
  /\ NoAccount \notin Accounts
  /\ TTL \in Nat /\ MaxTime \in Nat /\ MaxVersion \in Nat

Fetchers == Callers \cup Tasks

Versions == 0..MaxVersion

VARIABLES
  now,          \* in hours, as TTL is
  version,      \* what the upstream would answer now,
  superseded,   \*   and when it last answered each version
  cache,        \* ModelsCache, or Nothing
  refreshing,   \* models_refresh_in_flight
  pc,           \* where each request or task is
  acct,         \* the account it has to settle
  inFlight,     \* in_flight_requests of each account
  tried,        \* tried_accounts
  garbled,      \* parse_failed_accounts
  heard,        \* how the accounts of this fetch failed it
  got           \* the version it has read

vars == <<now, version, superseded, cache, refreshing, pc, acct, inFlight,
          tried, garbled, heard, got>>

world == <<now, version, superseded>>
loop  == <<acct, inFlight, tried, garbled, heard, got>>

PC == {"idle",     \* no request, or no task
       "stale",    \* has read a stale entry, may spawn a refresh
       "select",   \* at the head of the fetch loop
       "ask",      \* awaiting the upstream's answer
       "settle",   \* has read a snapshot, awaits the accounts lock
       "write",    \* awaits the cache's lock
       "clear",    \* the background fetch has succeeded,
       "failed",   \*   or failed, and the flag is still set
       "gone"}     \* the client left

TypeOK ==
  /\ now \in 0..MaxTime /\ version \in Versions
  /\ superseded \in [Versions -> 0..MaxTime]
  /\ cache \in {Nothing} \cup [version : Versions, at : 0..MaxTime]
  /\ refreshing \in BOOLEAN
  /\ pc \in [Fetchers -> PC]
  /\ acct \in [Fetchers -> Accounts \cup {NoAccount}]
  /\ inFlight \in [Accounts -> 0..Cardinality(Fetchers)]
  /\ tried \in [Fetchers -> SUBSET Accounts]
  /\ garbled \in [Fetchers -> SUBSET Accounts]
  /\ heard \in [Fetchers -> SUBSET {"garbled", "failed"}]
  /\ got \in [Fetchers -> Versions]
  /\ \A f \in Fetchers :
       /\ garbled[f] \subseteq tried[f]
       /\ acct[f] # NoAccount => pc[f] \in {"ask", "settle", "gone"}

Init ==
  /\ now = 0 /\ version = 0
  /\ superseded = [v \in Versions |-> 0]
  /\ cache = Nothing
  /\ refreshing = FALSE
  /\ pc = [f \in Fetchers |-> "idle"]
  /\ acct = [f \in Fetchers |-> NoAccount]
  /\ inFlight = [a \in Accounts |-> 0]
  /\ tried = [f \in Fetchers |-> {}]
  /\ garbled = [f \in Fetchers |-> {}]
  /\ heard = [f \in Fetchers |-> {}]
  /\ got = [f \in Fetchers |-> 0]

-----------------------------------------------------------------------------
(* The cache *)

\* Mutant of IsFresh: the entry's age is not looked at.
IsFreshForever == cache # Nothing

\* ModelsCache::fresh_entry
IsFresh == cache # Nothing /\ now <= cache.at + TTL

\* ModelsCache::replace
Replace(v) == cache' = [version |-> v, at |-> now]

Goto(f, where) == pc' = [pc EXCEPT ![f] = where]

\* A fresh entry is an answer, and changes nothing.  A stale one is read, and
\* whether it is refreshed is decided later.
ReadStale(c) ==
  /\ c \notin Codex /\ pc[c] = "idle"
  /\ cache # Nothing /\ ~IsFresh
  /\ Goto(c, "stale")
  /\ UNCHANGED <<world, cache, refreshing, loop>>

\* Mutant of ServeStale: the flag is looked at first, and set in a step of its own.
CheckThenSet(c) ==
  /\ \/ /\ pc[c] = "stale" /\ refreshing
        /\ Goto(c, "idle") /\ UNCHANGED refreshing
     \/ /\ pc[c] = "stale" /\ ~refreshing
        /\ Goto(c, "set") /\ UNCHANGED refreshing
     \/ /\ pc[c] = "set"
        /\ refreshing' = TRUE
        /\ \E t \in Tasks :
             /\ pc[t] = "idle"
             /\ pc' = [pc EXCEPT ![c] = "idle", ![t] = "select"]
  /\ UNCHANGED <<world, cache, loop>>

\* maybe_spawn_models_refresh, and the answer with no-store.
ServeStale(c) ==
  /\ pc[c] = "stale"
  /\ refreshing' = TRUE
  /\ IF refreshing THEN Goto(c, "idle")
     ELSE \E t \in Tasks :
            /\ pc[t] = "idle"
            /\ pc' = [pc EXCEPT ![c] = "idle", ![t] = "select"]
  /\ UNCHANGED <<world, cache, loop>>

\* Codex always fetches; another client when nothing is cached.
BeginFetch(c) ==
  /\ pc[c] = "idle" /\ (c \in Codex \/ cache = Nothing)
  /\ Goto(c, "select")
  /\ UNCHANGED <<world, cache, refreshing, loop>>

-----------------------------------------------------------------------------
(* The fetch *)

\* The fetch's locals are gone.
Forget(f) ==
  /\ tried' = [tried EXCEPT ![f] = {}]
  /\ garbled' = [garbled EXCEPT ![f] = {}]
  /\ heard' = [heard EXCEPT ![f] = {}]
  /\ got' = [got EXCEPT ![f] = 0]

\* The fetch is over.
End(f, how) ==
  /\ Goto(f, IF f \in Tasks THEN how ELSE "idle")
  /\ acct' = [acct EXCEPT ![f] = NoAccount]
  /\ Forget(f)

Settle(f) == inFlight' = [inFlight EXCEPT ![acct[f]] = @ - 1]

\* The pool selects an account that has not been tried.
Select(f) ==
  /\ pc[f] = "select"
  /\ \E a \in Accounts \ tried[f] :
       /\ acct' = [acct EXCEPT ![f] = a]
       /\ inFlight' = [inFlight EXCEPT ![a] = @ + 1]
  /\ Goto(f, "ask")
  /\ UNCHANGED <<world, cache, refreshing, tried, garbled, heard, got>>

\* Mutant of AllGarbled: one unreadable answer is enough.
SomeGarbled(f) == garbled[f] # {}

\* The upstream, not the pool, is to blame.
AllGarbled(f) == garbled[f] # {} /\ garbled[f] = tried[f]

\* No account may be selected: the error of the parse, 502 ...
BadGateway(f) ==
  /\ pc[f] = "select"
  /\ AllGarbled(f)
  /\ End(f, "failed")
  /\ UNCHANGED <<world, cache, refreshing, inFlight>>

\* ... or that the pool is blocked.
PoolBlocked(f) ==
  /\ pc[f] = "select"
  /\ ~AllGarbled(f)
  /\ End(f, "failed")
  /\ UNCHANGED <<world, cache, refreshing, inFlight>>

\* The upstream answers with a list that can be read.
Readable(f) ==
  /\ pc[f] = "ask"
  /\ got' = [got EXCEPT ![f] = version]
  /\ Goto(f, "settle")
  /\ UNCHANGED <<world, cache, refreshing, acct, inFlight, tried, garbled, heard>>

\* This account is settled, and not asked again by this fetch.
NextAccount(f, how) ==
  /\ Settle(f)
  /\ acct' = [acct EXCEPT ![f] = NoAccount]
  /\ tried' = [tried EXCEPT ![f] = @ \cup {acct[f]}]
  /\ heard' = [heard EXCEPT ![f] = @ \cup {how}]
  /\ Goto(f, "select")
  /\ UNCHANGED <<world, cache, refreshing, got>>

\* Mutants of Garbled: the account is not settled; it is not remembered as tried.
GarbledUnsettled(f) ==
  /\ pc[f] = "ask"
  /\ acct' = [acct EXCEPT ![f] = NoAccount]
  /\ tried' = [tried EXCEPT ![f] = @ \cup {acct[f]}]
  /\ garbled' = [garbled EXCEPT ![f] = @ \cup {acct[f]}]
  /\ heard' = [heard EXCEPT ![f] = @ \cup {"garbled"}]
  /\ Goto(f, "select")
  /\ UNCHANGED <<world, cache, refreshing, got, inFlight>>

GarbledUntried(f) ==
  /\ pc[f] = "ask"
  /\ Settle(f)
  /\ acct' = [acct EXCEPT ![f] = NoAccount]
  /\ heard' = [heard EXCEPT ![f] = @ \cup {"garbled"}]
  /\ Goto(f, "select")
  /\ UNCHANGED <<world, cache, refreshing, got, tried, garbled>>

\* settle_models_parse_failure
Garbled(f) ==
  /\ pc[f] = "ask"
  /\ NextAccount(f, "garbled")
  /\ garbled' = [garbled EXCEPT ![f] = @ \cup {acct[f]}]

\* The loop fails over.
Fails(f) ==
  /\ pc[f] = "ask"
  /\ NextAccount(f, "failed")
  /\ UNCHANGED garbled

\* The failure, of the request or of the refresh before it, is one that no other
\* account would spare the client: it is told as it is, whatever failed before.
Rejected(f) ==
  /\ pc[f] = "ask"
  /\ Settle(f)
  /\ End(f, "failed")
  /\ UNCHANGED <<world, cache, refreshing>>

SettleSuccess(f) ==
  /\ pc[f] = "settle"
  /\ Settle(f)
  /\ acct' = [acct EXCEPT ![f] = NoAccount]
  /\ Goto(f, "write")
  /\ UNCHANGED <<world, cache, refreshing, tried, garbled, heard, got>>

WriteCache(f) ==
  /\ pc[f] = "write"
  /\ Replace(got[f])
  /\ End(f, "clear")
  /\ UNCHANGED <<world, refreshing, inFlight>>

\* Mutant of ClearFlag: a refresh that failed leaves early.
ClearFlagOnSuccess(t) ==
  /\ pc[t] \in {"clear", "failed"}
  /\ refreshing' = (pc[t] = "failed")
  /\ Goto(t, "idle")
  /\ UNCHANGED <<world, cache, loop>>

\* The task clears the flag, whichever way its fetch ended.
ClearFlag(t) ==
  /\ pc[t] \in {"clear", "failed"}
  /\ refreshing' = FALSE
  /\ Goto(t, "idle")
  /\ UNCHANGED <<world, cache, loop>>

\* The client leaves while its handler awaits; a task has no client.  What it holds
\* stays held.
Disconnect(c) ==
  /\ pc[c] \in {"select", "ask", "settle", "write"}
  /\ Goto(c, "gone")
  /\ Forget(c)
  /\ UNCHANGED <<world, cache, refreshing, acct, inFlight>>

-----------------------------------------------------------------------------
(* The upstream, and time *)

Publish ==
  /\ version < MaxVersion
  /\ version' = version + 1
  /\ superseded' = [superseded EXCEPT ![version] = now]
  /\ UNCHANGED <<now, cache, refreshing, pc, loop>>

\* Hours pass only while everybody waits for the upstream or a client.
Tick ==
  /\ now < MaxTime
  /\ \A f \in Fetchers : pc[f] \in {"idle", "ask", "gone"}
  /\ now' = now + 1
  /\ UNCHANGED <<version, superseded, cache, refreshing, pc, loop>>

-----------------------------------------------------------------------------

Asked(f) == Readable(f) \/ Garbled(f) \/ Fails(f) \/ Rejected(f)

FetchStep(f) ==
  \/ Select(f) \/ BadGateway(f) \/ PoolBlocked(f)
  \/ Asked(f)
  \/ SettleSuccess(f) \/ WriteCache(f)

Next ==
  \/ \E c \in Callers :
       ReadStale(c) \/ ServeStale(c) \/ BeginFetch(c) \/ Disconnect(c)
  \/ \E f \in Fetchers : FetchStep(f)
  \/ \E t \in Tasks : ClearFlag(t)
  \/ Publish \/ Tick

Spec == Init /\ [][Next]_vars

\* What a task or a request can do it does: get_models runs under
\* unary_request_timeout, so the upstream's answer or an error comes.  Nothing is
\* assumed of clients, of the upstream's list or of time.
Fairness ==
  /\ \A f \in Fetchers : WF_vars(FetchStep(f))
  /\ \A c \in Callers : WF_vars(ServeStale(c))
  /\ \A t \in Tasks : WF_vars(ClearFlag(t))

FairSpec == Spec /\ Fairness

-----------------------------------------------------------------------------
(* Safety *)

\* However many clients read a stale entry at once, one task refreshes it, and the
\* flag that keeps the others away is set exactly as long as it runs
\* (maybe_spawn_models_refresh's compare_exchange and its task's last store).
OneRefresh ==
  LET running == {t \in Tasks : pc[t] # "idle"}
  IN  /\ Cardinality(running) <= 1
      /\ refreshing <=> running # {}

\* What is served as fresh was the upstream's list no longer than the TTL ago,
\* although fetches overlap and the one that writes last need not be the one that
\* read last.
FreshIsRecent ==
  IsFresh => \/ cache.version = version
             \/ superseded[cache.version] + TTL >= now

\* The client is told that the upstream's answer made no sense exactly when that
\* is all its accounts have answered: one that failed otherwise, in whatever round
\* of the failover, makes it a blocked pool.
BlamedOnlyForGarbage ==
  [][\A f \in Fetchers :
       /\ BadGateway(f) => heard[f] = {"garbled"}
       /\ PoolBlocked(f) => heard[f] # {"garbled"}]_vars

Lease == INSTANCE AccountLease WITH
  Users  <- Fetchers,
  Nobody <- NoAccount,
  lease  <- acct,
  count  <- inFlight

\* A fetch that goes through several accounts, some of which answer what cannot
\* be read, settles each of them once.
LeasesAccounts == Lease!Spec

-----------------------------------------------------------------------------
(* Liveness *)

\* A fetch ends, whatever the accounts answer: none is asked twice, although an
\* unreadable answer cools its account down only for a while.
FetchEnds == \A f \in Fetchers : pc[f] # "idle" ~> pc[f] \in {"idle", "gone"}

\* A client that is given a stale list sets a refresh off, or finds one under way:
\* the list is replaced, or a refresh has failed.
StaleIsReplaced ==
  \A c \in Callers :
    pc[c] = "stale" ~> IsFresh \/ \E t \in Tasks : pc[t] = "failed"
=============================================================================
