------------------------- MODULE ModelsCacheProofs -------------------------
(***************************************************************************)
(* The fetches of the models list, for any accounts, clients and tasks, and *)
(* without a bound on time or versions: they settle each account they take, *)
(* one task refreshes at a time, and the upstream is blamed only for what   *)
(* it did.                                                                  *)
(***************************************************************************)
EXTENDS ModelsCache, FiniteSetTheorems, TLAPS

\* Where a fetch is tells whether it has an account to settle.
HasNone == {"idle", "stale", "select", "write", "clear", "failed"}
HasOne  == {"ask", "settle"}

LoopInv ==
  /\ pc \in [Fetchers -> PC]
  /\ acct \in [Fetchers -> Accounts \cup {NoAccount}]
  /\ inFlight \in [Accounts -> Int]
  /\ \A f \in Fetchers : /\ pc[f] \in HasNone => acct[f] = NoAccount
                         /\ pc[f] \in HasOne => acct[f] # NoAccount

-----------------------------------------------------------------------------
(* The lease *)

LEMMA EndsEmpty ==
  ASSUME LoopInv, NEW f \in Fetchers, NEW how \in {"clear", "failed"}, End(f, how),
         inFlight' \in [Accounts -> Int]
  PROVE  LoopInv'
  BY DEF LoopInv, End, Goto, HasNone, HasOne, PC

LEMMA SettlesIt ==
  ASSUME LoopInv, NEW f \in Fetchers, acct[f] # NoAccount, Settle(f),
         acct' = [acct EXCEPT ![f] = NoAccount]
  PROVE  Lease!Next /\ inFlight' \in [Accounts -> Int]
<1>1. acct[f] \in Accounts
  BY DEF LoopInv
<1>2. Lease!Settle(f)
  BY DEF Settle, Lease!Settle
<1>3. inFlight' \in [Accounts -> Int]
  BY <1>1 DEF LoopInv, Settle
<1> QED
  BY <1>2, <1>3 DEF Lease!Next

LEMMA FetchStepLease ==
  ASSUME LoopInv, NEW f \in Fetchers, FetchStep(f)
  PROVE  LoopInv' /\ [Lease!Next]_(Lease!vars)
<1>1. CASE Select(f)
  <2>1. PICK a \in Accounts : /\ acct' = [acct EXCEPT ![f] = a]
                              /\ inFlight' = [inFlight EXCEPT ![a] = @ + 1]
    BY <1>1 DEF Select
  <2>2. acct[f] = NoAccount /\ pc' = [pc EXCEPT ![f] = "ask"]
    BY <1>1 DEF Select, Goto, LoopInv, HasNone
  <2>3. LoopInv'
    BY <2>1, <2>2, ModelsAssumption DEF LoopInv, HasNone, HasOne, PC
  <2>4. Lease!Take(f, a)
    BY <2>1, <2>2 DEF Lease!Take
  <2> QED
    BY <2>3, <2>4 DEF Lease!Next
<1>2. CASE BadGateway(f) \/ PoolBlocked(f) \/ WriteCache(f)
  <2>1. /\ acct' = acct /\ inFlight' = inFlight
        /\ \E how \in {"clear", "failed"} : End(f, how)
    BY <1>2 DEF BadGateway, PoolBlocked, WriteCache, End, LoopInv, HasNone
  <2>2. LoopInv'
    BY <2>1, EndsEmpty DEF LoopInv
  <2> QED
    BY <2>1, <2>2 DEF Lease!vars
<1>3. CASE Readable(f)
  <2>1. /\ UNCHANGED <<acct, inFlight>> /\ pc[f] = "ask"
        /\ pc' = [pc EXCEPT ![f] = "settle"]
    BY <1>3 DEF Readable, Goto
  <2>2. LoopInv'
    BY <2>1 DEF LoopInv, HasNone, HasOne, PC
  <2> QED
    BY <2>1, <2>2 DEF Lease!vars
<1>4. CASE Garbled(f) \/ Fails(f) \/ SettleSuccess(f)
  <2>1. /\ pc[f] \in HasOne /\ Settle(f)
        /\ acct' = [acct EXCEPT ![f] = NoAccount]
        /\ \E where \in {"select", "write"} : pc' = [pc EXCEPT ![f] = where]
    BY <1>4 DEF Garbled, Fails, SettleSuccess, NextAccount, Goto, HasOne
  <2>2. Lease!Next /\ inFlight' \in [Accounts -> Int]
    BY <2>1, SettlesIt DEF LoopInv
  <2>3. LoopInv'
    BY <2>1, <2>2 DEF LoopInv, HasNone, HasOne, PC
  <2> QED
    BY <2>2, <2>3
<1>5. CASE Rejected(f)
  <2>1. /\ pc[f] \in HasOne /\ Settle(f) /\ End(f, "failed")
        /\ acct' = [acct EXCEPT ![f] = NoAccount]
    BY <1>5 DEF Rejected, End, HasOne
  <2>2. Lease!Next /\ inFlight' \in [Accounts -> Int]
    BY <2>1, SettlesIt DEF LoopInv
  <2> QED
    BY <2>1, <2>2, EndsEmpty
<1> QED
  BY <1>1, <1>2, <1>3, <1>4, <1>5 DEF FetchStep, Asked

\* What clients, tasks that end, the upstream and time do holds or settles nothing.
LEMMA OthersHold ==
  ASSUME LoopInv,
         \/ \E c \in Callers :
              ReadStale(c) \/ ServeStale(c) \/ BeginFetch(c) \/ Disconnect(c)
         \/ \E t \in Tasks : ClearFlag(t)
         \/ Publish \/ Tick
         \/ UNCHANGED vars
  PROVE  LoopInv' /\ [Lease!Next]_(Lease!vars)
<1>1. UNCHANGED <<acct, inFlight>>
  BY DEF ReadStale, ServeStale, BeginFetch, Disconnect, ClearFlag, Publish, Tick, loop, vars
<1>2. pc' \in [Fetchers -> PC]
  BY DEF ReadStale, ServeStale, BeginFetch, Disconnect, ClearFlag, Publish, Tick, vars, Goto,
         LoopInv, PC, Fetchers
<1>3. \A f \in Fetchers : \/ pc'[f] = pc[f]
                          \/ pc'[f] = "gone"
                          \/ pc[f] \in HasNone /\ pc'[f] \in HasNone
  BY DEF ReadStale, ServeStale, BeginFetch, Disconnect, ClearFlag, Publish, Tick, vars, Goto,
         LoopInv, HasNone, Fetchers
<1>4. LoopInv'
  BY <1>1, <1>2, <1>3 DEF LoopInv, HasNone, HasOne
<1> QED
  BY <1>1, <1>4 DEF Lease!vars

LEMMA LoopStep ==
  ASSUME LoopInv, [Next]_vars
  PROVE  LoopInv' /\ [Lease!Next]_(Lease!vars)
  BY FetchStepLease, OthersHold DEF Next

LEMMA LoopStarts == Init => LoopInv /\ Lease!Init
<1> SUFFICES ASSUME Init
             PROVE  LoopInv /\ Lease!Init
  OBVIOUS
<1>1. LoopInv
  BY DEF Init, LoopInv, HasNone, HasOne, PC
<1>2. ASSUME NEW a \in Accounts
      PROVE  Lease!HeldBy(a) = {}
  BY <1>2, ModelsAssumption DEF Init, Lease!HeldBy
<1>3. Lease!Cardinality({}) = 0
  BY FS_EmptySet DEF Cardinality, Lease!Cardinality
<1>4. \A a \in Accounts : Lease!Cardinality(Lease!HeldBy(a)) = 0
  BY <1>2, <1>3
<1> QED
  BY <1>1, <1>4 DEF Init, Lease!Init

\* A fetch settles each account it takes once, whatever they answer and whether or
\* not its client waits (fetch_models_snapshot, settle_models_parse_failure).
THEOREM FetchesImplementLease == Spec => LeasesAccounts
<1>1. LoopInv /\ [Next]_vars => LoopInv' /\ [Lease!Next]_(Lease!vars)
  BY LoopStep
<1> QED
  BY LoopStarts, <1>1, PTL DEF Spec, LeasesAccounts, Lease!Spec

-----------------------------------------------------------------------------
(* One refresh *)

Runs(t) == pc[t] # "idle"

FlagInv ==
  /\ pc \in [Fetchers -> PC] /\ refreshing \in BOOLEAN
  /\ \A t, u \in Tasks : Runs(t) /\ Runs(u) => t = u
  /\ refreshing <=> \E t \in Tasks : Runs(t)

\* A fetch never gives up its task: only ClearFlag does.
LEMMA FetchKeepsTask ==
  ASSUME FlagInv, NEW f \in Fetchers, FetchStep(f)
  PROVE  FlagInv'
<1>1. refreshing' = refreshing
  BY DEF FetchStep, Asked, Select, BadGateway, PoolBlocked, Readable, Garbled, Fails, Rejected,
         NextAccount, SettleSuccess, WriteCache
<1>2. pc[f] # "idle"
  BY DEF FetchStep, Asked, Select, BadGateway, PoolBlocked, Readable, Garbled, Fails, Rejected,
         SettleSuccess, WriteCache
<1>3. \E where \in PC : /\ pc' = [pc EXCEPT ![f] = where]
                        /\ f \in Tasks => where # "idle"
  BY DEF FetchStep, Asked, Select, BadGateway, PoolBlocked, Readable, Garbled, Fails, Rejected,
         NextAccount, SettleSuccess, WriteCache, End, Goto, PC
<1> QED
  BY <1>1, <1>2, <1>3 DEF FlagInv, Runs, Fetchers

LEMMA FlagStep ==
  ASSUME FlagInv, [Next]_vars
  PROVE  FlagInv'
<1>1. CASE \E f \in Fetchers : FetchStep(f)
  BY <1>1, FetchKeepsTask
<1>2. CASE \E c \in Callers : ReadStale(c) \/ BeginFetch(c) \/ Disconnect(c)
  <2>1. PICK c \in Callers, where \in PC : /\ pc' = [pc EXCEPT ![c] = where]
                                           /\ refreshing' = refreshing
    BY <1>2 DEF ReadStale, BeginFetch, Disconnect, Goto, PC
  <2>2. c \notin Tasks
    BY ModelsAssumption
  <2> QED
    BY <2>1, <2>2 DEF FlagInv, Runs, Fetchers
<1>3. ASSUME NEW c \in Callers, ServeStale(c)
      PROVE  FlagInv'
  <2>1. c \notin Tasks /\ refreshing' = TRUE
    BY <1>3, ModelsAssumption DEF ServeStale
  <2>2. CASE refreshing
    <3>1. pc' = [pc EXCEPT ![c] = "idle"]
      BY <1>3, <2>2 DEF ServeStale, Goto
    <3> QED
      BY <2>1, <2>2, <3>1 DEF FlagInv, Runs, Fetchers, PC
  <2>3. CASE ~refreshing
    <3>1. PICK t \in Tasks : pc' = [pc EXCEPT ![c] = "idle", ![t] = "select"]
      BY <1>3, <2>3 DEF ServeStale
    <3>2. pc' \in [Fetchers -> PC] /\ Runs(t)'
      BY <2>1, <3>1 DEF FlagInv, Fetchers, PC, Runs
    <3>3. \A u \in Tasks \ {t} : ~Runs(u)'
      BY <2>1, <2>3, <3>1 DEF FlagInv, Runs, Fetchers
    <3> QED
      BY <2>1, <3>2, <3>3 DEF FlagInv
  <2> QED
    BY <2>2, <2>3 DEF FlagInv
<1>4. ASSUME NEW t \in Tasks, ClearFlag(t)
      PROVE  FlagInv'
  <2>1. Runs(t) /\ pc' = [pc EXCEPT ![t] = "idle"] /\ refreshing' = FALSE
    BY <1>4 DEF ClearFlag, Runs, Goto
  <2>2. pc' \in [Fetchers -> PC] /\ \A u \in Tasks : ~Runs(u)'
    BY <2>1 DEF FlagInv, Runs, Fetchers, PC
  <2> QED
    BY <2>1, <2>2 DEF FlagInv
<1>5. CASE Publish \/ Tick \/ UNCHANGED vars
  BY <1>5 DEF Publish, Tick, vars, FlagInv, Runs
<1> QED
  BY <1>1, <1>2, <1>3, <1>4, <1>5 DEF Next

\* At most one task refreshes a stale list, and the flag tells (the
\* compare_exchange of maybe_spawn_models_refresh and its task's last store).
THEOREM OneTaskRefreshes == Spec => []OneRefresh
<1>1. Init => FlagInv
  <2> SUFFICES ASSUME Init PROVE FlagInv
    OBVIOUS
  <2>1. pc = [f \in Fetchers |-> "idle"] /\ refreshing = FALSE
    BY DEF Init
  <2>2. pc \in [Fetchers -> PC]
    BY <2>1 DEF PC
  <2>3. \A t \in Tasks : ~Runs(t)
    BY <2>1 DEF Runs, Fetchers
  <2> QED
    BY <2>1, <2>2, <2>3 DEF FlagInv
<1>2. FlagInv /\ [Next]_vars => FlagInv'
  BY FlagStep
<1>3. FlagInv => OneRefresh
  <2> SUFFICES ASSUME FlagInv
               PROVE  OneRefresh
    OBVIOUS
  <2> DEFINE running == {t \in Tasks : pc[t] # "idle"}
  <2>1. running = {} \/ \E t \in Tasks : running = {t}
    BY DEF FlagInv, Runs
  <2>2. Cardinality(running) <= 1
    <3>1. Cardinality({}) = 0 /\ \A t \in Tasks : Cardinality({t}) = 1
      BY FS_EmptySet, FS_Singleton
    <3> HIDE DEF running
    <3>2. CASE running = {}
      BY <3>1, <3>2
    <3>3. CASE \E t \in Tasks : running = {t}
      BY <3>1, <3>3
    <3> QED
      BY <2>1, <3>2, <3>3
  <2>3. refreshing <=> running # {}
    BY DEF FlagInv, Runs
  <2> QED
    BY <2>2, <2>3 DEF OneRefresh
<1> QED
  BY <1>1, <1>2, <1>3, PTL DEF Spec

-----------------------------------------------------------------------------
(* Who is to blame *)

\* The two sets the code keeps tell how the accounts failed this fetch.
HeardInv ==
  /\ tried \in [Fetchers -> SUBSET Accounts]
  /\ garbled \in [Fetchers -> SUBSET Accounts]
  /\ heard \in [Fetchers -> SUBSET {"garbled", "failed"}]
  /\ \A f \in Fetchers :
       /\ garbled[f] \subseteq tried[f]
       /\ acct[f] \notin tried[f]
       /\ "garbled" \in heard[f] <=> garbled[f] # {}
       /\ "failed" \in heard[f] <=> tried[f] \ garbled[f] # {}

LEMMA HeardStep ==
  ASSUME LoopInv, HeardInv, [Next]_vars
  PROVE  HeardInv'
<1>1. CASE UNCHANGED <<acct, tried, garbled, heard>>
  BY <1>1 DEF HeardInv
<1>2. ASSUME NEW f \in Fetchers, Select(f)
      PROVE  HeardInv'
  BY <1>2 DEF Select, HeardInv, LoopInv
<1>3. ASSUME NEW f \in Fetchers, Forget(f), acct' \in {acct, [acct EXCEPT ![f] = NoAccount]}
      PROVE  HeardInv'
  BY <1>3 DEF Forget, HeardInv, LoopInv
<1>4. ASSUME NEW f \in Fetchers, Garbled(f) \/ Fails(f)
      PROVE  HeardInv'
  <2>1. acct[f] \in Accounts /\ acct[f] \notin tried[f] /\ NoAccount \notin Accounts
    BY <1>4, ModelsAssumption DEF LoopInv, HeardInv, Garbled, Fails, HasOne
  <2>2. /\ acct' = [acct EXCEPT ![f] = NoAccount]
        /\ tried' = [tried EXCEPT ![f] = @ \cup {acct[f]}]
        /\ \/ /\ garbled' = [garbled EXCEPT ![f] = @ \cup {acct[f]}]
              /\ heard' = [heard EXCEPT ![f] = @ \cup {"garbled"}]
           \/ /\ garbled' = garbled
              /\ heard' = [heard EXCEPT ![f] = @ \cup {"failed"}]
    BY <1>4 DEF Garbled, Fails, NextAccount
  <2> QED
    BY <2>1, <2>2 DEF HeardInv, LoopInv
<1>5. ASSUME NEW f \in Fetchers, SettleSuccess(f)
      PROVE  HeardInv'
  BY <1>5, ModelsAssumption DEF SettleSuccess, HeardInv, LoopInv
<1>6. ASSUME NEW f \in Fetchers, FetchStep(f)
      PROVE  HeardInv'
  BY <1>1, <1>2, <1>3, <1>4, <1>5, <1>6
     DEF FetchStep, Asked, BadGateway, PoolBlocked, Readable, Rejected, WriteCache, End
<1>7. ASSUME NEW c \in Callers, Disconnect(c)
      PROVE  HeardInv'
  BY <1>3, <1>7 DEF Disconnect, Fetchers
<1> QED
  BY <1>1, <1>6, <1>7
     DEF Next, ReadStale, ServeStale, BeginFetch, ClearFlag, Publish, Tick, loop, vars

\* The client is told of an unreadable answer exactly when its accounts gave no
\* other (fetch_models_snapshot's comparison of parse_failed_accounts with
\* tried_accounts), although accounts fail in rounds of the failover loop too.
THEOREM BlameIsJust == Spec => BlamedOnlyForGarbage
<1>1. Init => HeardInv
  BY ModelsAssumption DEF Init, HeardInv
<1>2. LoopInv /\ HeardInv /\ [Next]_vars => HeardInv'
  BY HeardStep
<1>3. LoopInv /\ [Next]_vars => LoopInv'
  BY LoopStep
<1>4. HeardInv =>
        \A f \in Fetchers : /\ BadGateway(f) => heard[f] = {"garbled"}
                            /\ PoolBlocked(f) => heard[f] # {"garbled"}
  BY DEF HeardInv, BadGateway, PoolBlocked, AllGarbled
<1>5. HeardInv /\ [Next]_vars =>
        [\A f \in Fetchers : /\ BadGateway(f) => heard[f] = {"garbled"}
                             /\ PoolBlocked(f) => heard[f] # {"garbled"}]_vars
  BY <1>4
<1> QED
  BY LoopStarts, <1>1, <1>2, <1>3, <1>5, PTL DEF Spec, BlamedOnlyForGarbage

-----------------------------------------------------------------------------
(* What is fresh *)

\* A version is the upstream's, or has been at the time at.
CurrentAt(v, at) == v = version \/ superseded[v] >= at

\* The clock stands while a snapshot is on its way into the cache.
FreshInv ==
  /\ now \in Nat /\ version \in Versions
  /\ superseded \in [Versions -> Nat]
  /\ cache \in {Nothing} \cup [version : Versions, at : Nat]
  /\ cache # Nothing => cache.at <= now /\ CurrentAt(cache.version, cache.at)
  /\ pc \in [Fetchers -> PC] /\ got \in [Fetchers -> Versions]
  /\ \A f \in Fetchers : pc[f] \in {"settle", "write"} => CurrentAt(got[f], now)

\* A new list makes no other older than it was.
LEMMA PublishKeeps ==
  ASSUME FreshInv, Publish
  PROVE  FreshInv'
<1> USE ModelsAssumption
<1>1. /\ version' = version + 1 /\ version < MaxVersion
      /\ superseded' = [superseded EXCEPT ![version] = now]
      /\ UNCHANGED <<now, cache, pc, got>>
  BY DEF Publish, loop
<1>2. version' \in Versions /\ superseded' \in [Versions -> Nat]
  BY <1>1 DEF FreshInv, Versions
<1>3. ASSUME NEW v \in Versions, NEW at \in Nat, at <= now, CurrentAt(v, at)
      PROVE  CurrentAt(v, at)'
  BY <1>1, <1>3 DEF CurrentAt, FreshInv
<1>4. cache # Nothing => cache.version \in Versions /\ cache.at \in Nat
  BY DEF FreshInv
<1>5. \A f \in Fetchers : got[f] \in Versions
  BY DEF FreshInv
<1> QED
  BY <1>1, <1>2, <1>3, <1>4, <1>5 DEF FreshInv, CurrentAt

LEMMA FreshStep ==
  ASSUME FreshInv, [Next]_vars
  PROVE  FreshInv'
<1> USE DEF FreshInv
<1>1. CASE Publish
  BY <1>1, PublishKeeps
<1>2. CASE Tick
  <2>1. /\ now' = now + 1 /\ UNCHANGED <<version, superseded, cache, pc, got>>
        /\ \A f \in Fetchers : pc[f] \notin {"settle", "write"}
    BY <1>2 DEF Tick, loop
  <2>2. cache # Nothing => cache.at \in Nat
    OBVIOUS
  <2> QED
    BY <2>1, <2>2 DEF CurrentAt
<1>3. ASSUME NEW f \in Fetchers, Readable(f)
      PROVE  FreshInv'
  BY <1>3 DEF Readable, Goto, CurrentAt, world, PC
<1>4. ASSUME NEW f \in Fetchers, SettleSuccess(f)
      PROVE  FreshInv'
  BY <1>4 DEF SettleSuccess, Goto, CurrentAt, world, PC
<1>5. ASSUME NEW f \in Fetchers, WriteCache(f)
      PROVE  FreshInv'
  <2>1. /\ cache' = [version |-> got[f], at |-> now] /\ CurrentAt(got[f], now)
        /\ UNCHANGED world
    BY <1>5 DEF WriteCache, Replace
  <2>2. PICK where \in PC \ {"settle", "write"} : pc' = [pc EXCEPT ![f] = where]
    BY <1>5 DEF WriteCache, End, Goto, PC
  <2>3. got' = [got EXCEPT ![f] = 0] /\ 0 \in Versions
    BY <1>5, ModelsAssumption DEF WriteCache, End, Forget, Versions
  <2> QED
    BY <2>1, <2>2, <2>3 DEF CurrentAt, world
<1>6. ASSUME NEW f \in Fetchers, Forget(f), NEW where \in PC \ {"settle", "write"},
             Goto(f, where), UNCHANGED <<world, cache>>
      PROVE  FreshInv'
  <2>1. got' = [got EXCEPT ![f] = 0] /\ 0 \in Versions
    BY <1>6, ModelsAssumption DEF Forget, Versions
  <2> QED
    BY <1>6, <2>1 DEF CurrentAt, world, Goto
\* A request or a task that has read nothing yet.
<1>7. ASSUME UNCHANGED <<world, cache, got>>, pc' \in [Fetchers -> PC],
             \A f \in Fetchers : pc'[f] \in {"settle", "write"} => pc'[f] = pc[f]
      PROVE  FreshInv'
  BY <1>7 DEF CurrentAt, world
<1>8. ASSUME NEW f \in Fetchers, Select(f) \/ Garbled(f) \/ Fails(f)
      PROVE  FreshInv'
  BY <1>7, <1>8 DEF Select, Garbled, Fails, NextAccount, Goto, PC
<1>9. CASE \/ \E c \in Callers : ReadStale(c) \/ ServeStale(c) \/ BeginFetch(c)
           \/ \E t \in Tasks : ClearFlag(t)
           \/ UNCHANGED vars
  <2>1. UNCHANGED <<world, cache, got>>
    BY <1>9 DEF ReadStale, ServeStale, BeginFetch, ClearFlag, loop, world, vars
  <2>2. /\ pc' \in [Fetchers -> PC]
        /\ \A f \in Fetchers : pc'[f] \in {"settle", "write"} => pc'[f] = pc[f]
    BY <1>9 DEF ReadStale, ServeStale, BeginFetch, ClearFlag, Goto, Fetchers, PC, vars
  <2> QED
    BY <1>7, <2>1, <2>2
<1>10. ASSUME NEW f \in Fetchers, BadGateway(f) \/ PoolBlocked(f) \/ Rejected(f)
       PROVE  FreshInv'
  <2>1. Forget(f) /\ UNCHANGED <<world, cache>>
    BY <1>10 DEF BadGateway, PoolBlocked, Rejected, End
  <2>2. \E where \in PC \ {"settle", "write"} : Goto(f, where)
    BY <1>10 DEF BadGateway, PoolBlocked, Rejected, End, PC
  <2> QED
    BY <1>6, <2>1, <2>2
<1>11. ASSUME NEW c \in Callers, Disconnect(c)
       PROVE  FreshInv'
  <2>1. "gone" \in PC \ {"settle", "write"} /\ c \in Fetchers
    BY DEF PC, Fetchers
  <2> QED
    BY <1>6, <1>11, <2>1 DEF Disconnect
<1>12. ASSUME NEW f \in Fetchers, FetchStep(f)
       PROVE  FreshInv'
  BY <1>3, <1>4, <1>5, <1>8, <1>10, <1>12 DEF FetchStep, Asked
<1> QED
  BY <1>1, <1>2, <1>9, <1>11, <1>12 DEF Next

\* What is served as fresh was the upstream's list within the TTL, whichever fetch
\* wrote it last (ModelsCache::replace after the fetch, fresh_entry).
THEOREM FreshIsFresh == Spec => []FreshIsRecent
<1>1. Init => FreshInv
  BY ModelsAssumption DEF Init, FreshInv, Versions, Fetchers, PC
<1>2. FreshInv /\ [Next]_vars => FreshInv'
  BY FreshStep
<1>3. FreshInv => FreshIsRecent
  <2> SUFFICES ASSUME FreshInv, IsFresh, cache.version # version
               PROVE  superseded[cache.version] + TTL >= now
    BY DEF FreshIsRecent
  <2>1. /\ cache.version \in Versions /\ cache.at \in Nat
        /\ superseded[cache.version] \in Nat /\ now \in Nat /\ TTL \in Nat
    BY ModelsAssumption DEF FreshInv, IsFresh
  <2>2. superseded[cache.version] >= cache.at /\ now <= cache.at + TTL
    BY DEF FreshInv, IsFresh, CurrentAt
  <2> QED
    BY <2>1, <2>2
<1> QED
  BY <1>1, <1>2, <1>3, PTL DEF Spec
=============================================================================
