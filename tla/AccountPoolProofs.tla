------------------------- MODULE AccountPoolProofs -------------------------
(***************************************************************************)
(* For every set of accounts, finite set of requests, choice of cooldowns  *)
(* and bound on time: the pool keeps its types, every selection is settled *)
(* exactly once, no record is removed under a request that holds it, and   *)
(* the pool implements AccountLease.  The three invariants go together: a  *)
(* settlement finds its record because the record is counted as held, and  *)
(* the count is right because no settlement was lost or made twice.        *)
(*                                                                         *)
(* Then what late settlements, refreshes, expiries and wakes leave of an   *)
(* account they find in a state they did not expect: no account is called  *)
(* ready while it is blocked, no running block is cut short, no retirement *)
(* loses the account it retires; and, while clients stay, no refresh mark  *)
(* is left without a refresh and no deleted record is kept that nobody     *)
(* uses.  Blocks are about one record at a time; a retirement is safe by   *)
(* the disk lock it holds (LockHeld); the marks and the deleted records    *)
(* need each other, and UseInv joins them.                                 *)
(***************************************************************************)
EXTENDS AccountPool, FiniteSetTheorems, TLAPS

-----------------------------------------------------------------------------
(* One record: what every operation of the store keeps of its type, and what *)
(* it does to the count of requests that hold it                             *)

\* A timed block leaves every field but the block itself.
LEMMA TimedBlockType ==
  ASSUME NEW rec \in AccountRecord, NEW reason \in BlockedReason,
         NEW until \in Nat, NEW t \in Nat
  PROVE  /\ TimedBlock(rec, reason, until, t) \in AccountRecord
         /\ TimedBlock(rec, reason, until, t).in_flight_requests
              = rec.in_flight_requests
BY DEF TimedBlock, AccountRecord

LEMMA BackoffType ==
  ASSUME NEW level \in Nat
  PROVE  NextLocalBackoff(level) \in 1..BackoffMax
BY CooldownAssumption DEF NextLocalBackoff

LEMMA RetryableBlockType ==
  ASSUME NEW rec \in AccountRecord, NEW reason \in BlockedReason,
         NEW retryAfter \in Nat \cup {NoTime}, NEW t \in Nat
  PROVE  /\ RetryableBlock(rec, reason, retryAfter, t) \in AccountRecord
         /\ RetryableBlock(rec, reason, retryAfter, t).in_flight_requests
              = rec.in_flight_requests
<1> DEFINE raised == [rec EXCEPT !.local_backoff_level =
                        IF rec.local_backoff_level < LevelMax
                        THEN rec.local_backoff_level + 1 ELSE LevelMax]
<1>1. /\ raised \in AccountRecord
      /\ raised.in_flight_requests = rec.in_flight_requests
  BY CooldownAssumption DEF AccountRecord
<1>2. rec.local_backoff_level \in Nat
  BY CooldownAssumption DEF AccountRecord
<1>3. t + NextLocalBackoff(rec.local_backoff_level) \in Nat
  BY <1>2, BackoffType, CooldownAssumption
<1>4. CASE retryAfter = NoTime
  <2> DEFINE until == t + NextLocalBackoff(rec.local_backoff_level)
  <2>1. RetryableBlock(rec, reason, retryAfter, t) = TimedBlock(raised, reason, until, t)
    BY <1>4 DEF RetryableBlock
  <2>2. raised \in AccountRecord /\ until \in Nat
    BY <1>1, <1>3
  <2> HIDE DEF raised, until
  <2>3. /\ TimedBlock(raised, reason, until, t) \in AccountRecord
        /\ TimedBlock(raised, reason, until, t).in_flight_requests
             = raised.in_flight_requests
    BY <2>2, TimedBlockType
  <2> QED
    BY <1>1, <2>1, <2>3
<1>5. CASE retryAfter # NoTime
  <2>1. t + retryAfter \in Nat
    BY <1>5
  <2> QED
    BY <2>1, <1>5, TimedBlockType DEF RetryableBlock
<1> QED
  BY <1>4, <1>5

\* The two record types a proof uses of a rewritten record: its own type, and
\* that the operation leaves in_flight_requests at n.
Keeps(rec, n) == rec \in AccountRecord /\ rec.in_flight_requests = n

\* One request fewer, never below zero.
OneFewer(n) == IF n = 0 THEN 0 ELSE n - 1

LEMMA ColdRecordType == Keeps(ColdRecord, 0)
BY CooldownAssumption DEF Keeps, ColdRecord, AccountRecord, RoutingState,
   BlockedReason, TokenState

LEMMA ClearBlockType ==
  ASSUME NEW rec \in AccountRecord
  PROVE  Keeps(ClearBlock(rec), rec.in_flight_requests)
BY DEF Keeps, ClearBlock, AccountRecord

LEMMA AuthInvalidBlockType ==
  ASSUME NEW rec \in AccountRecord
  PROVE  Keeps(AuthInvalidBlock(rec), rec.in_flight_requests)
BY DEF Keeps, AuthInvalidBlock, AccountRecord, BlockedReason

LEMMA IdleStateType ==
  ASSUME NEW rec
  PROVE  IdleState(rec) \in RoutingState
BY DEF IdleState, RoutingState

LEMMA SetStateType ==
  ASSUME NEW rec \in AccountRecord, NEW s \in RoutingState
  PROVE  Keeps([rec EXCEPT !.routing_state = s], rec.in_flight_requests)
BY DEF Keeps, AccountRecord

LEMMA DropTokenType ==
  ASSUME NEW rec \in AccountRecord
  PROVE  Keeps([rec EXCEPT !.token = "none"], rec.in_flight_requests)
BY DEF Keeps, AccountRecord, TokenState

LEMMA ExpireBlockType ==
  ASSUME NEW rec \in AccountRecord, NEW t \in Nat
  PROVE  Keeps(ExpireBlock(rec, t), rec.in_flight_requests)
<1> DEFINE expired == rec.blocked_until # NoTime /\ rec.blocked_until <= t
           cleared == IF expired THEN ClearBlock(rec) ELSE rec
           settled == IF /\ expired
                         /\ rec.routing_state # "auth_invalid"
                         /\ ~rec.refresh_in_flight
                      THEN [cleared EXCEPT !.routing_state = IdleState(rec)]
                      ELSE cleared
<1>1. Keeps(cleared, rec.in_flight_requests)
  BY ClearBlockType DEF Keeps
<1>2. Keeps(settled, rec.in_flight_requests)
  <2> HIDE DEF cleared
  <2> QED BY <1>1, SetStateType, IdleStateType DEF Keeps
<1>3. "ready" \in RoutingState
  BY DEF RoutingState
<1>4. ExpireBlock(rec, t) = IF settled.routing_state = "cold" /\ settled.token # "none"
                              THEN [settled EXCEPT !.routing_state = "ready"]
                              ELSE settled
  BY DEF ExpireBlock
<1> HIDE DEF settled
<1> QED
  BY <1>2, <1>3, <1>4, SetStateType DEF Keeps

LEMMA SetInFlightType ==
  ASSUME NEW rec \in AccountRecord, NEW n \in Nat
  PROVE  Keeps([rec EXCEPT !.in_flight_requests = n], n)
BY DEF Keeps, AccountRecord

LEMMA SetRefreshType ==
  ASSUME NEW rec \in AccountRecord, NEW flag \in BOOLEAN
  PROVE  Keeps([rec EXCEPT !.refresh_in_flight = flag], rec.in_flight_requests)
BY DEF Keeps, AccountRecord

LEMMA ResetLevelType ==
  ASSUME NEW rec \in AccountRecord, NEW s \in RoutingState
  PROVE  Keeps([rec EXCEPT !.routing_state = s, !.local_backoff_level = 0],
               rec.in_flight_requests)
<1>1. 0 \in 0..LevelMax
  BY CooldownAssumption
<1> QED
  BY <1>1 DEF Keeps, AccountRecord

LEMMA SelectedType ==
  ASSUME NEW rec \in AccountRecord
  PROVE  Keeps(Selected(rec), rec.in_flight_requests + 1)
<1> DEFINE n == rec.in_flight_requests + 1
           taken == [rec EXCEPT !.in_flight_requests = @ + 1]
<1>1. n \in Nat
  BY DEF AccountRecord
<1>2. Keeps(taken, n)
  BY <1>1, SetInFlightType
<1>3. "warming" \in RoutingState
  BY DEF RoutingState
<1> HIDE DEF n, taken
<1>4. Keeps([taken EXCEPT !.routing_state = "warming", !.refresh_in_flight = TRUE], n)
  BY <1>2, <1>3 DEF Keeps, AccountRecord
<1>5. Selected(rec) =
        IF NeedsRefresh(rec)
        THEN [taken EXCEPT !.routing_state = "warming", !.refresh_in_flight = TRUE]
        ELSE taken
  BY DEF Selected, taken
<1> QED
  BY <1>2, <1>4, <1>5 DEF n

LEMMA UnheldType ==
  ASSUME NEW rec \in AccountRecord
  PROVE  Keeps(Unheld(rec), OneFewer(rec.in_flight_requests))
<1> DEFINE n == OneFewer(rec.in_flight_requests)
           fewer == [rec EXCEPT !.in_flight_requests = n]
<1>1. n \in Nat
  BY DEF AccountRecord, OneFewer
<1>2. Keeps(fewer, n)
  <2> HIDE DEF n
  <2> QED BY <1>1, SetInFlightType
<1>3. Unheld(rec) = [fewer EXCEPT !.refresh_in_flight = FALSE]
  BY DEF Unheld, OneFewer, AccountRecord
<1> HIDE DEF fewer, n
<1>4. Keeps([fewer EXCEPT !.refresh_in_flight = FALSE], n)
  BY <1>2, SetRefreshType DEF Keeps
<1> QED
  BY <1>3, <1>4 DEF n

LEMMA MarkRequestSuccessType ==
  ASSUME NEW rec \in AccountRecord, NEW t \in Nat
  PROVE  Keeps(MarkRequestSuccess(rec, t), OneFewer(rec.in_flight_requests))
BY UnheldType, ResetLevelType, IdleStateType DEF MarkRequestSuccess, Keeps

LEMMA ReleaseSelectionType ==
  ASSUME NEW rec \in AccountRecord, NEW t \in Nat
  PROVE  Keeps(ReleaseSelection(rec, t), OneFewer(rec.in_flight_requests))
BY UnheldType, SetStateType, IdleStateType DEF ReleaseSelection, Keeps

LEMMA InvalidateAccessTokenType ==
  ASSUME NEW rec \in AccountRecord, NEW t \in Nat
  PROVE  Keeps(InvalidateAccessToken(rec, t), rec.in_flight_requests)
<1>1. Keeps([rec EXCEPT !.token = "none", !.refresh_in_flight = FALSE],
            rec.in_flight_requests)
  BY DEF Keeps, AccountRecord, TokenState
<1>2. "cold" \in RoutingState
  BY DEF RoutingState
<1> QED
  BY <1>1, <1>2, SetStateType DEF InvalidateAccessToken, Keeps

LEMMA ApplyFailureType ==
  ASSUME NEW rec \in AccountRecord, NEW class \in FailureClass,
         NEW retryAfter \in Nat \cup {NoTime}, NEW t \in Nat
  PROVE  Keeps(ApplyFailure(rec, class, retryAfter, t),
               OneFewer(rec.in_flight_requests))
<1> DEFINE n == OneFewer(rec.in_flight_requests)
           In(s) == [Unheld(rec) EXCEPT !.routing_state = s]
<1>1. /\ Keeps(Unheld(rec), n)
      /\ \A s \in RoutingState : Keeps(In(s), n)
      /\ \A s \in RoutingState : Keeps([In(s) EXCEPT !.token = "none"], n)
  <2>1. Keeps(Unheld(rec), n)
    BY UnheldType
  <2>2. ASSUME NEW s \in RoutingState PROVE Keeps(In(s), n)
    BY <2>1, SetStateType DEF Keeps
  <2>3. ASSUME NEW s \in RoutingState
        PROVE  Keeps([In(s) EXCEPT !.token = "none"], n)
    <3> HIDE DEF In
    <3> QED BY <2>2, DropTokenType DEF Keeps
  <2> QED BY <2>1, <2>2, <2>3
<1> HIDE DEF In, n
<1>2. ASSUME NEW r, Keeps(r, n), NEW reason \in BlockedReason, NEW d \in Nat
      PROVE  Keeps(FixedBlock(r, reason, d, t), n)
  <2>1. t + d \in Nat
    OBVIOUS
  <2> QED
    BY <1>2, <2>1, TimedBlockType DEF Keeps, FixedBlock
<1>3. ASSUME NEW r, Keeps(r, n), NEW reason \in BlockedReason
      PROVE  Keeps(RetryableBlock(r, reason, retryAfter, t), n)
  BY <1>3, RetryableBlockType DEF Keeps
<1>4. ASSUME NEW r, Keeps(r, n)
      PROVE  Keeps(AuthInvalidBlock(r), n)
  BY <1>4, AuthInvalidBlockType DEF Keeps
<1>5. /\ {"temporarily_unavailable", "auth_invalid", "cooldown", "risk_controlled"}
           \subseteq RoutingState
      /\ IdleState(rec) \in RoutingState
      /\ {"temporarily_unavailable", "risk_controlled", "rate_limited",
          "quota_exhausted"} \subseteq BlockedReason
      /\ TemporaryCooldown \in Nat /\ RiskCooldown \in Nat
  BY IdleStateType, CooldownAssumption DEF RoutingState, BlockedReason
<1>6. ApplyFailure(rec, class, retryAfter, t) =
      CASE class = "access_token_rejected" ->
             FixedBlock([In("temporarily_unavailable") EXCEPT !.token = "none"],
                        "temporarily_unavailable", TemporaryCooldown, t)
        [] class = "auth_invalid" ->
             AuthInvalidBlock([In("auth_invalid") EXCEPT !.token = "none"])
        [] class \in {"rate_limited", "quota_exhausted"} ->
             RetryableBlock(In("cooldown"), class, retryAfter, t)
        [] class = "risk_controlled" ->
             FixedBlock(In("risk_controlled"), "risk_controlled", RiskCooldown, t)
        [] class = "temporary_failure" ->
             IF retryAfter # NoTime
             THEN RetryableBlock(In("temporarily_unavailable"),
                                 "temporarily_unavailable", retryAfter, t)
             ELSE FixedBlock(In("temporarily_unavailable"),
                             "temporarily_unavailable", TemporaryCooldown, t)
        [] OTHER ->
             IF ~HasActiveBlock(rec, t) /\ rec.routing_state # "auth_invalid"
             THEN In(IdleState(rec))
             ELSE Unheld(rec)
  BY DEF ApplyFailure, In
<1> DEFINE result == ApplyFailure(rec, class, retryAfter, t)
<1>7. CASE class \in {"access_token_rejected", "auth_invalid"}
  <2>1. \A s \in RoutingState : Keeps([In(s) EXCEPT !.token = "none"], n)
    BY <1>1
  <2>2. Keeps(FixedBlock([In("temporarily_unavailable") EXCEPT !.token = "none"],
                         "temporarily_unavailable", TemporaryCooldown, t), n)
    BY <2>1, <1>2, <1>5
  <2>3. Keeps(AuthInvalidBlock([In("auth_invalid") EXCEPT !.token = "none"]), n)
    BY <2>1, <1>4, <1>5
  <2> QED
    BY <1>6, <1>7, <2>2, <2>3 DEF n
<1>8. CASE class \in {"rate_limited", "quota_exhausted"}
  <2>1. Keeps(RetryableBlock(In("cooldown"), class, retryAfter, t), n)
    BY <1>1, <1>3, <1>5, <1>8
  <2> QED
    BY <1>6, <1>8, <2>1 DEF n
<1>9. CASE class = "risk_controlled"
  <2>1. Keeps(FixedBlock(In("risk_controlled"), "risk_controlled", RiskCooldown, t), n)
    BY <1>1, <1>2, <1>5
  <2> QED
    BY <1>6, <1>9, <2>1 DEF n
<1>10. CASE class = "temporary_failure"
  <2>1. Keeps(In("temporarily_unavailable"), n)
    BY <1>1, <1>5
  <2>2. Keeps(RetryableBlock(In("temporarily_unavailable"),
                             "temporarily_unavailable", retryAfter, t), n)
    BY <2>1, <1>3, <1>5
  <2>3. Keeps(FixedBlock(In("temporarily_unavailable"),
                         "temporarily_unavailable", TemporaryCooldown, t), n)
    BY <2>1, <1>2, <1>5
  <2> QED
    BY <1>6, <1>10, <2>2, <2>3 DEF n
<1>11. CASE class \in {"request_rejected", "internal_failure"}
  <2>1. Keeps(In(IdleState(rec)), n) /\ Keeps(Unheld(rec), n)
    BY <1>1, <1>5
  <2> QED
    BY <1>6, <1>11, <2>1 DEF n
<1> QED
  BY <1>7, <1>8, <1>9, <1>10, <1>11 DEF FailureClass

LEMMA RefreshSucceededType ==
  ASSUME NEW rec \in AccountRecord, NEW newToken \in TokenState, NEW t \in Nat
  PROVE  Keeps(RefreshSucceeded(rec, newToken, t), rec.in_flight_requests)
<1> DEFINE got == [rec EXCEPT !.token = newToken, !.refresh_in_flight = FALSE]
<1>1. Keeps(got, rec.in_flight_requests)
  BY DEF Keeps, AccountRecord
<1>2. Keeps(ClearBlock(got), rec.in_flight_requests)
  <2> HIDE DEF got
  <2> QED BY <1>1, ClearBlockType DEF Keeps
<1>3. "ready" \in RoutingState
  BY DEF RoutingState
<1>4. Keeps([ClearBlock(got) EXCEPT !.routing_state = "ready",
                                    !.local_backoff_level = 0],
            rec.in_flight_requests)
  <2> HIDE DEF got
  <2> QED BY <1>2, <1>3, ResetLevelType DEF Keeps
<1> QED
  BY <1>1, <1>4 DEF RefreshSucceeded

LEMMA AuthInvalidRecordType ==
  ASSUME NEW rec \in AccountRecord
  PROVE  Keeps(AuthInvalidRecord(rec), rec.in_flight_requests)
<1>1. Keeps([rec EXCEPT !.token = "none", !.routing_state = "auth_invalid",
                        !.auth_invalid_tombstone = TRUE], rec.in_flight_requests)
  BY DEF Keeps, AccountRecord, TokenState, RoutingState
<1> QED
  BY <1>1, AuthInvalidBlockType DEF AuthInvalidRecord, Keeps

LEMMA RetireTypes ==
  ASSUME NEW rec \in AccountRecord
  PROVE  /\ Keeps(PrepareAuthInvalid(rec), OneFewer(rec.in_flight_requests))
         /\ Keeps(FinalizeAuthInvalid(rec), rec.in_flight_requests)
<1>1. Keeps(PrepareAuthInvalid(rec), OneFewer(rec.in_flight_requests))
  BY UnheldType, AuthInvalidRecordType DEF PrepareAuthInvalid, Keeps
<1>2. \A r : Keeps(r, rec.in_flight_requests) =>
        Keeps([r EXCEPT !.detached = TRUE], rec.in_flight_requests)
  BY DEF Keeps, AccountRecord
<1> QED
  BY <1>1, <1>2, AuthInvalidRecordType DEF FinalizeAuthInvalid

LEMMA WakeType ==
  ASSUME NEW rec \in AccountRecord
  PROVE  Keeps(Wake(rec), rec.in_flight_requests)
<1>1. \A r \in AccountRecord, s \in RoutingState :
        Keeps([r EXCEPT !.local_backoff_level = 0, !.routing_state = s],
              r.in_flight_requests)
  <2> SUFFICES ASSUME NEW r \in AccountRecord, NEW s \in RoutingState
      PROVE  Keeps([r EXCEPT !.local_backoff_level = 0, !.routing_state = s],
                   r.in_flight_requests)
    OBVIOUS
  <2>1. 0 \in 0..LevelMax
    BY CooldownAssumption
  <2> QED BY <2>1 DEF Keeps, AccountRecord
<1>2. (IF rec.refresh_in_flight THEN "warming" ELSE IdleState(rec)) \in RoutingState
  BY IdleStateType DEF RoutingState
<1>3. Keeps(rec, rec.in_flight_requests)
  BY DEF Keeps
<1> QED
  BY <1>1, <1>2, <1>3, ClearBlockType DEF Wake, Keeps

LEMMA DetachedTypes ==
  ASSUME NEW rec \in AccountRecord
  PROVE  /\ Keeps(Reattached(rec), rec.in_flight_requests)
         /\ Keeps([rec EXCEPT !.detached = TRUE], rec.in_flight_requests)
BY DEF Keeps, Reattached, AccountRecord

-----------------------------------------------------------------------------
(* The invariant *)

\* Each known record is typed and counts its holders, and only known accounts
\* have any.
RecordsCount ==
  /\ DOMAIN records \subseteq Accounts
  /\ records = [a \in DOMAIN records |-> records[a]]
  /\ \A a \in DOMAIN records : Keeps(records[a], Cardinality(Holders(a)))
  /\ \A a \in Accounts \ DOMAIN records : Holders(a) = {}

\* Where a request is in the loop tells whether it has an account.
Busy == {"refresh", "refreshed", "persist", "retire", "trash", "lookup",
         "unusable", "execute", "hold"}

BusyHasAccount ==
  \A r \in Requests :
    /\ pc[r] \in {"select", "answered", "internal"} => acct[r] = NoAccount
    /\ pc[r] \in Busy => acct[r] # NoAccount

StoreType ==
  /\ now \in Nat
  /\ diskLock \in Requests \cup {Free, Admin}
  /\ removing \in Accounts \cup {NoAccount}

RequestsType ==
  /\ pc \in [Requests -> PC]
  /\ acct \in [Requests -> Accounts \cup {NoAccount}]
  /\ tried \in [Requests -> SUBSET Accounts]
  /\ forced \in [Requests -> SUBSET Accounts]

IndInv == StoreType /\ RequestsType /\ BusyHasAccount /\ RecordsCount

-----------------------------------------------------------------------------
(* The count of holders *)

LEMMA HoldersFinite ==
  ASSUME NEW a
  PROVE  /\ IsFiniteSet(Holders(a)) /\ Cardinality(Holders(a)) \in Nat
         /\ IsFiniteSet(Holders(a)') /\ Cardinality(Holders(a)') \in Nat
<1>1. Holders(a) \subseteq Requests /\ Holders(a)' \subseteq Requests
  BY DEF Holders
<1> QED
  BY <1>1, PoolAssumption, FS_Subset, FS_CardinalityType

\* A request that is counted for an account keeps it known.
LEMMA HolderIsKnown ==
  ASSUME IndInv, NEW r \in Requests, pc[r] # "trash", acct[r] # NoAccount
  PROVE  /\ acct[r] \in DOMAIN records
         /\ records[acct[r]] \in AccountRecord
         /\ acct[r] \in Accounts
<1>1. acct[r] \in Accounts
  BY DEF IndInv, RequestsType
<1>2. r \in Holders(acct[r])
  BY DEF Holders
<1> QED
  BY <1>1, <1>2 DEF IndInv, RecordsCount, Keeps

\* A step that moves no request in or out of an account's count.
LEMMA HoldersUnchanged ==
  ASSUME IndInv, NEW r \in Requests, NEW where \in PC,
         acct' = acct, pc' = [pc EXCEPT ![r] = where],
         (pc[r] = "trash") <=> (where = "trash")
  PROVE  \A a : Holders(a)' = Holders(a)
BY DEF Holders, IndInv, RequestsType

\* A request that lets go of its account is one holder fewer.
LEMMA HoldersLose ==
  ASSUME IndInv, NEW r \in Requests, NEW where \in PC, NEW a \in Accounts,
         pc[r] # "trash", acct[r] = a,
         pc' = [pc EXCEPT ![r] = where],
         \/ acct' = [acct EXCEPT ![r] = NoAccount]
         \/ acct' = acct /\ where = "trash"
  PROVE  /\ \A b \in Accounts \ {a} : Holders(b)' = Holders(b)
         /\ Cardinality(Holders(a)') = OneFewer(records[a].in_flight_requests)
<1>1. Holders(a)' = Holders(a) \ {r}
  BY PoolAssumption DEF Holders, IndInv, RequestsType
<1>2. \A b \in Accounts \ {a} : Holders(b)' = Holders(b)
  BY PoolAssumption DEF Holders, IndInv, RequestsType
<1>3. r \in Holders(a)
  BY DEF Holders
<1>4. Cardinality(Holders(a) \ {r}) = Cardinality(Holders(a)) - 1
  BY <1>3, HoldersFinite, FS_RemoveElement
<1>5. records[a].in_flight_requests = Cardinality(Holders(a))
  BY HolderIsKnown, PoolAssumption DEF IndInv, RecordsCount, Keeps
<1>6. Cardinality(Holders(a)) # 0
  BY <1>3, HoldersFinite, FS_EmptySet
<1>7. OneFewer(Cardinality(Holders(a))) = Cardinality(Holders(a)) - 1
  BY <1>6, HoldersFinite DEF OneFewer
<1> QED
  BY <1>1, <1>2, <1>4, <1>5, <1>7

\* Rewriting one record with the new count of its holders, removing it or not.
LEMMA Recount ==
  ASSUME IndInv, NEW a \in DOMAIN records, NEW rec,
         Keeps(rec, Cardinality(Holders(a)')),
         records' = [records EXCEPT ![a] = rec] \/ records' = Stored(a, rec),
         \A b \in Accounts \ {a} : Holders(b)' = Holders(b)
  PROVE  RecordsCount'
<1>0. /\ DOMAIN records \subseteq Accounts
      /\ records = [b \in DOMAIN records |-> records[b]]
      /\ \A b \in DOMAIN records : Keeps(records[b], Cardinality(Holders(b)))
      /\ \A b \in Accounts \ DOMAIN records : Holders(b) = {}
  BY DEF IndInv, RecordsCount
<1>1. CASE records' = [records EXCEPT ![a] = rec]
  <2>1. DOMAIN records' = DOMAIN records /\ records'[a] = rec
    BY <1>1, <1>0
  <2>2. \A b \in DOMAIN records \ {a} : records'[b] = records[b]
    BY <1>1, <1>0
  <2>3. \A b \in DOMAIN records' : Keeps(records'[b], Cardinality(Holders(b)'))
    BY <2>1, <2>2, <1>0
  <2>4. records' = [b \in DOMAIN records' |-> records'[b]]
    BY <1>1, <1>0
  <2>5. \A b \in Accounts \ DOMAIN records' : Holders(b)' = {}
    BY <2>1, <1>0
  <2> QED
    BY <2>1, <2>3, <2>4, <2>5, <1>0 DEF RecordsCount, Keeps
<1>2. CASE records' = [b \in DOMAIN records \ {a} |-> records[b]] /\ IsRemovable(rec)
  <2>1. Cardinality(Holders(a)') = 0
    BY <1>2 DEF IsRemovable, Keeps
  <2>2. Holders(a)' = {}
    BY <2>1, HoldersFinite, FS_EmptySet
  <2>3. DOMAIN records' = DOMAIN records \ {a}
    BY <1>2
  <2>4. \A b \in DOMAIN records' : Keeps(records'[b], Cardinality(Holders(b)'))
    BY <1>2, <2>3, <1>0
  <2>5. \A b \in Accounts \ DOMAIN records' : Holders(b)' = {}
    BY <2>2, <2>3, <1>0
  <2>6. records' = [b \in DOMAIN records' |-> records'[b]]
    BY <1>2
  <2> QED
    BY <2>3, <2>4, <2>5, <2>6, <1>0 DEF RecordsCount, Keeps
<1> QED
  BY <1>1, <1>2 DEF Stored

\* Rewriting every record without a change of holders.
LEMMA RewriteAll ==
  ASSUME IndInv,
         DOMAIN records' = DOMAIN records,
         records' = [a \in DOMAIN records' |-> records'[a]],
         \A a \in DOMAIN records : Keeps(records'[a], records[a].in_flight_requests),
         \A a \in Accounts : Holders(a)' = Holders(a)
  PROVE  RecordsCount'
BY DEF IndInv, RecordsCount, Keeps

\* The settlement of the account a request holds.
LEMMA SettleCounts ==
  ASSUME IndInv, NEW r \in Requests, NEW where \in PC, NEW rec,
         pc[r] # "trash", acct[r] # NoAccount,
         Keeps(rec, OneFewer(records[acct[r]].in_flight_requests)),
         Settle(acct[r], rec),
         pc' = [pc EXCEPT ![r] = where],
         acct' = [acct EXCEPT ![r] = NoAccount]
  PROVE  RecordsCount'
<1>1. acct[r] \in DOMAIN records /\ acct[r] \in Accounts
  BY HolderIsKnown
<1>2. PICK a \in Accounts : a = acct[r]
  BY <1>1
<1>3. records' = Stored(a, rec)
  BY <1>1, <1>2 DEF Settle
<1>4. /\ \A b \in Accounts \ {a} : Holders(b)' = Holders(b)
      /\ Cardinality(Holders(a)') = OneFewer(records[a].in_flight_requests)
  BY <1>2, HoldersLose
<1> QED
  BY <1>1, <1>2, <1>3, <1>4, Recount

\* A rewriting of the held account that keeps it held.
LEMMA StayCounts ==
  ASSUME IndInv, NEW r \in Requests, NEW where \in PC, NEW rec,
         pc[r] # "trash", where # "trash", acct[r] # NoAccount,
         Keeps(rec, records[acct[r]].in_flight_requests),
         Settle(acct[r], rec),
         pc' = [pc EXCEPT ![r] = where],
         acct' = acct
  PROVE  RecordsCount'
<1>1. acct[r] \in DOMAIN records /\ acct[r] \in Accounts
  BY HolderIsKnown
<1>2. PICK a \in Accounts : a = acct[r]
  BY <1>1
<1>3. records' = Stored(a, rec)
  BY <1>1, <1>2 DEF Settle
<1>4. \A b : Holders(b)' = Holders(b)
  BY HoldersUnchanged
<1>5. records[a].in_flight_requests = Cardinality(Holders(a))
  BY <1>1, <1>2 DEF IndInv, RecordsCount, Keeps
<1>6. Keeps(rec, Cardinality(Holders(a)'))
  BY <1>2, <1>4, <1>5
<1> QED
  BY <1>1, <1>2, <1>3, <1>4, <1>6, Recount

\* A step that leaves the records alone, and no request in or out of a count.
LEMMA SameRecords ==
  ASSUME IndInv, records' = records, \A a \in Accounts : Holders(a)' = Holders(a)
  PROVE  RecordsCount'
BY DEF IndInv, RecordsCount

-----------------------------------------------------------------------------
(* Where a request goes next *)

LEMMA ContinueInv ==
  ASSUME IndInv, NEW r \in Requests, NEW where \in Busy,
         pc[r] \in Busy, Continue(r, where)
  PROVE  RequestsType' /\ BusyHasAccount'
BY DEF IndInv, RequestsType, BusyHasAccount, Continue, Goto, Busy, PC

LEMMA TryAnotherInv ==
  ASSUME IndInv, NEW r \in Requests, pc[r] \in Busy, TryAnother(r)
  PROVE  RequestsType' /\ BusyHasAccount'
<1>1. acct[r] \in Accounts
  BY DEF IndInv, RequestsType, BusyHasAccount
<1>2. tried[r] \cup {acct[r]} \in SUBSET Accounts
  BY <1>1 DEF IndInv, RequestsType
<1>3. RequestsType'
  BY <1>2, PoolAssumption DEF IndInv, RequestsType, TryAnother, Goto, PC
<1>4. BusyHasAccount'
  BY PoolAssumption DEF IndInv, RequestsType, BusyHasAccount, TryAnother, Goto, Busy
<1> QED
  BY <1>3, <1>4

LEMMA FinishInv ==
  ASSUME IndInv, NEW r \in Requests, NEW end \in {"answered", "internal"},
         Finish(r, end)
  PROVE  RequestsType' /\ BusyHasAccount'
BY PoolAssumption DEF IndInv, RequestsType, BusyHasAccount, Finish, Goto, Busy, PC

\* What TryAnother and Finish do to the count.
LEMMA LetsGo ==
  ASSUME NEW r \in Requests, TryAnother(r) \/ \E e \in {"answered", "internal"} : Finish(r, e)
  PROVE  \E where \in PC : /\ pc' = [pc EXCEPT ![r] = where]
                           /\ acct' = [acct EXCEPT ![r] = NoAccount]
BY DEF TryAnother, Finish, Goto, PC

\* A settlement followed by TryAnother or Finish.
LEMMA SettleStep ==
  ASSUME IndInv, NEW r \in Requests, pc[r] \in Busy \ {"trash"}, NEW rec,
         records[acct[r]] \in AccountRecord =>
           Keeps(rec, OneFewer(records[acct[r]].in_flight_requests)),
         Settle(acct[r], rec),
         TryAnother(r) \/ \E e \in {"answered", "internal"} : Finish(r, e),
         UNCHANGED <<now, diskLock, removing>>
  PROVE  IndInv'
<1>1. pc[r] # "trash" /\ acct[r] # NoAccount
  BY DEF IndInv, BusyHasAccount
<1>2. records[acct[r]] \in AccountRecord
  BY <1>1, HolderIsKnown
<1>3. RecordsCount'
  BY <1>1, <1>2, LetsGo, SettleCounts
<1>4. RequestsType' /\ BusyHasAccount'
  BY TryAnotherInv, FinishInv
<1>5. StoreType'
  BY DEF IndInv, StoreType
<1> QED
  BY <1>3, <1>4, <1>5 DEF IndInv

-----------------------------------------------------------------------------
(* The steps of a request *)

\* What an expiring sweep leaves: every record typed and counted as before.
LEMMA ExpiredCounts ==
  ASSUME IndInv
  PROVE  /\ DOMAIN Expired = DOMAIN records
         /\ \A a \in DOMAIN records :
              Keeps(Expired[a], records[a].in_flight_requests)
BY ExpireBlockType DEF IndInv, StoreType, RecordsCount, Keeps, Expired

LEMMA SelectInv ==
  ASSUME IndInv, NEW r \in Requests, Select(r)
  PROVE  IndInv'
<1>1. PICK a \in Candidates(r) :
        /\ records' = [Expired EXCEPT ![a] = Selected(@)]
        /\ acct' = [acct EXCEPT ![r] = a]
        /\ Goto(r, IF NeedsRefresh(Expired[a]) THEN "refresh" ELSE "lookup")
  BY DEF Select
<1>2. a \in DOMAIN records /\ a \in Accounts /\ a # NoAccount
  BY PoolAssumption DEF Candidates, IndInv, RecordsCount
<1>3. pc[r] = "select" /\ acct[r] = NoAccount
  BY DEF Select, IndInv, BusyHasAccount
<1>4. PICK where \in {"refresh", "lookup"} : pc' = [pc EXCEPT ![r] = where]
  BY <1>1 DEF Goto
<1>5. /\ Holders(a)' = Holders(a) \cup {r}
      /\ r \notin Holders(a)
      /\ \A b \in Accounts \ {a} : Holders(b)' = Holders(b)
  BY <1>1, <1>2, <1>3, <1>4, PoolAssumption DEF Holders, IndInv, RequestsType
<1>6. Cardinality(Holders(a)') = Cardinality(Holders(a)) + 1
  BY <1>5, HoldersFinite, FS_AddElement
<1>7. /\ DOMAIN records' = DOMAIN records
      /\ records' = [b \in DOMAIN records' |-> records'[b]]
      /\ records'[a] = Selected(Expired[a])
      /\ \A b \in DOMAIN records \ {a} : records'[b] = Expired[b]
  BY <1>1, <1>2, ExpiredCounts DEF Expired
<1>8. Keeps(records'[a], Cardinality(Holders(a)'))
  BY <1>2, <1>6, <1>7, ExpiredCounts, SelectedType DEF Keeps, IndInv, RecordsCount
<1>9. \A b \in DOMAIN records \ {a} : Keeps(records'[b], Cardinality(Holders(b)'))
  BY <1>5, <1>7, ExpiredCounts DEF Keeps, IndInv, RecordsCount
<1>10. \A b \in Accounts \ DOMAIN records' : Holders(b)' = {}
  BY <1>2, <1>5, <1>7 DEF IndInv, RecordsCount
<1>11. RecordsCount'
  BY <1>7, <1>8, <1>9, <1>10 DEF RecordsCount, IndInv
<1>12. RequestsType'
  BY <1>1, <1>2, <1>4 DEF Select, IndInv, RequestsType, PC
<1>13. BusyHasAccount'
  BY <1>1, <1>2, <1>4 DEF IndInv, RequestsType, BusyHasAccount, Busy
<1> QED
  BY <1>11, <1>12, <1>13 DEF Select, IndInv, StoreType

LEMMA NoCandidateInv ==
  ASSUME IndInv, NEW r \in Requests, NoCandidate(r)
  PROVE  IndInv'
<1>1. Finish(r, "answered") /\ records' = Expired
  BY DEF NoCandidate
<1>2. pc[r] = "select" /\ acct[r] = NoAccount
  BY DEF NoCandidate, IndInv, BusyHasAccount
<1>3. \A a : Holders(a)' = Holders(a)
  <2>1. acct' = acct /\ pc' = [pc EXCEPT ![r] = "answered"]
    BY <1>1, <1>2 DEF Finish, Goto, IndInv, RequestsType
  <2> QED
    BY <2>1, <1>2, HoldersUnchanged DEF PC
<1>4. records' = [a \in DOMAIN records' |-> records'[a]]
  BY <1>1 DEF Expired
<1>5. RecordsCount'
  BY <1>1, <1>3, <1>4, ExpiredCounts, RewriteAll
<1> QED
  BY <1>1, <1>5, FinishInv DEF NoCandidate, IndInv, StoreType

\* Steps that only move the request on.
LEMMA MoveOn ==
  ASSUME IndInv, NEW r \in Requests, NEW where \in Busy \ {"trash"},
         pc[r] \in Busy \ {"trash"}, Continue(r, where), records' = records
  PROVE  RecordsCount' /\ RequestsType' /\ BusyHasAccount'
<1>1. acct' = acct /\ pc' = [pc EXCEPT ![r] = where] /\ where \in PC
  BY DEF Continue, Goto, Busy, PC
<1> QED
  BY <1>1, HoldersUnchanged, SameRecords, ContinueInv

LEMMA MoveOnSteps ==
  ASSUME IndInv, NEW r \in Requests,
         \/ RefreshOk(r) \/ RefreshInvalid(r) \/ Persisted(r)
         \/ Lookup(r) \/ ExecuteOk(r)
  PROVE  IndInv'
<1>1. CASE RefreshOk(r) \/ RefreshInvalid(r) \/ Lookup(r) \/ ExecuteOk(r)
  <2>1. PICK where \in {"refreshed", "retire", "execute", "unusable", "hold"} :
          Continue(r, where)
    BY <1>1 DEF RefreshOk, RefreshInvalid, Lookup, ExecuteOk
  <2>2. /\ pc[r] \in Busy \ {"trash"} /\ where \in Busy \ {"trash"}
        /\ UNCHANGED store
    BY <1>1 DEF RefreshOk, RefreshInvalid, Lookup, ExecuteOk, Busy
  <2> QED
    BY <2>1, <2>2, MoveOn DEF store, IndInv, StoreType
<1>2. CASE Persisted(r)
  <2>1. /\ pc[r] \in Busy \ {"trash"} /\ "lookup" \in Busy \ {"trash"}
        /\ Continue(r, "lookup") /\ records' = records
    BY <1>2 DEF Persisted, Busy
  <2> QED
    BY <1>2, <2>1, MoveOn DEF Persisted, Release, IndInv, StoreType
<1> QED
  BY <1>1, <1>2

LEMMA FinishRefreshInv ==
  ASSUME IndInv, NEW r \in Requests, FinishRefresh(r)
  PROVE  IndInv'
<1>1. pc[r] = "refreshed" /\ acct[r] # NoAccount
  BY DEF FinishRefresh, IndInv, BusyHasAccount, Busy
<1>2. acct[r] \in DOMAIN records /\ records[acct[r]] \in AccountRecord
  BY <1>1, HolderIsKnown
<1>3. PICK t \in TokenState :
        Settle(acct[r], RefreshSucceeded(records[acct[r]], t, now))
  BY <1>2 DEF FinishRefresh
<1>4. PICK where \in {"lookup", "persist"} : Continue(r, where)
  BY <1>2 DEF FinishRefresh
<1>5. /\ where \in Busy \ {"trash"} /\ where \in PC /\ pc[r] \in Busy
      /\ pc' = [pc EXCEPT ![r] = where] /\ acct' = acct
  BY <1>1, <1>4 DEF Busy, PC, Continue, Goto
<1>6. Keeps(RefreshSucceeded(records[acct[r]], t, now),
            records[acct[r]].in_flight_requests)
  BY <1>2, RefreshSucceededType DEF IndInv, StoreType
<1>7. RecordsCount'
  BY <1>1, <1>3, <1>5, <1>6, StayCounts
<1>8. RequestsType' /\ BusyHasAccount'
  BY <1>4, <1>5, ContinueInv
<1>9. StoreType'
  BY <1>2 DEF FinishRefresh, IndInv, StoreType
<1> QED
  BY <1>7, <1>8, <1>9 DEF IndInv

\* The steps that settle the account with a failure, or give it back.
LEMMA SettlingSteps ==
  ASSUME IndInv, NEW r \in Requests,
         \/ RefreshFails(r) \/ ReleaseUnusable(r) \/ RejectedAgain(r)
         \/ ExecuteFails(r) \/ SettleHeld(r)
  PROVE  IndInv'
<1> DEFINE rec == records[acct[r]]
           less == OneFewer(rec.in_flight_requests)
<1>0. now \in Nat /\ RetryAfters \cup {NoTime} \subseteq Nat \cup {NoTime}
  BY PoolAssumption DEF IndInv, StoreType
<1>1. \A class \in FailureClass, retryAfter \in RetryAfters \cup {NoTime} :
        rec \in AccountRecord =>
          /\ Keeps(ApplyFailure(rec, class, retryAfter, now), less)
          /\ Keeps(ReleaseSelection(rec, now), less)
          /\ Keeps(MarkRequestSuccess(rec, now), less)
  BY <1>0, ApplyFailureType, ReleaseSelectionType, MarkRequestSuccessType
<1>2. rec \in AccountRecord =>
        /\ Keeps(ReleaseSelection(InvalidateAccessToken(rec, now), now), less)
        /\ Keeps(ApplyFailure(InvalidateAccessToken(rec, now),
                              "access_token_rejected", NoTime, now), less)
  <2> SUFFICES ASSUME rec \in AccountRecord
      PROVE  /\ Keeps(ReleaseSelection(InvalidateAccessToken(rec, now), now), less)
             /\ Keeps(ApplyFailure(InvalidateAccessToken(rec, now),
                                   "access_token_rejected", NoTime, now), less)
    OBVIOUS
  <2> DEFINE bare == InvalidateAccessToken(rec, now)
  <2>1. bare \in AccountRecord /\ bare.in_flight_requests = rec.in_flight_requests
    BY <1>0, InvalidateAccessTokenType DEF Keeps
  <2>2. "access_token_rejected" \in FailureClass /\ NoTime \in Nat \cup {NoTime}
    BY DEF FailureClass
  <2> HIDE DEF bare
  <2>3. Keeps(ReleaseSelection(bare, now), less)
    BY <1>0, <2>1, ReleaseSelectionType
  <2>4. Keeps(ApplyFailure(bare, "access_token_rejected", NoTime, now), less)
    BY <1>0, <2>1, <2>2, ApplyFailureType
  <2> QED
    BY <2>3, <2>4 DEF bare
<1>3. PICK new : /\ Settle(acct[r], new)
                 /\ rec \in AccountRecord => Keeps(new, less)
  <2>1. CASE RefreshFails(r)
    BY <2>1, <1>1 DEF RefreshFails, RefreshFailure
  <2>2. CASE ReleaseUnusable(r)
    BY <2>2, <1>2 DEF ReleaseUnusable
  <2>3. CASE RejectedAgain(r)
    BY <2>3, <1>2 DEF RejectedAgain
  <2>4. CASE ExecuteFails(r)
    BY <2>4, <1>1 DEF ExecuteFails, RequestFailure
  <2>5. CASE SettleHeld(r)
    <3>1. FailureClass # {} /\ NoTime \in RetryAfters \cup {NoTime}
      BY DEF FailureClass
    <3> QED
      BY <2>5, <3>1, <1>1 DEF SettleHeld, RequestFailure
  <2> QED
    BY <2>1, <2>2, <2>3, <2>4, <2>5
<1>4. /\ pc[r] \in Busy \ {"trash"}
      /\ TryAnother(r) \/ \E e \in {"answered", "internal"} : Finish(r, e)
      /\ UNCHANGED <<now, diskLock, removing>>
  BY DEF RefreshFails, ReleaseUnusable, RejectedAgain, ExecuteFails, SettleHeld, Busy
<1> QED
  BY <1>3, <1>4, SettleStep

\* prepare_auth_invalid_failure settles the account and keeps the request at it.
LEMMA PrepareRetireInv ==
  ASSUME IndInv, NEW r \in Requests, PrepareRetire(r)
  PROVE  IndInv'
<1>1. pc[r] = "retire" /\ acct[r] # NoAccount
  BY DEF PrepareRetire, IndInv, BusyHasAccount, Busy
<1>2. acct[r] \in DOMAIN records /\ records[acct[r]] \in AccountRecord
      /\ acct[r] \in Accounts
  BY <1>1, HolderIsKnown
<1>3. PICK a \in Accounts : a = acct[r]
  BY <1>2
<1>4. /\ records' = [records EXCEPT ![a] = PrepareAuthInvalid(records[a])]
      /\ Continue(r, "trash") /\ diskLock' = r
      /\ UNCHANGED <<now, removing>>
  BY <1>2, <1>3 DEF PrepareRetire
<1>5. acct' = acct /\ pc' = [pc EXCEPT ![r] = "trash"] /\ "trash" \in PC
      /\ "trash" \in Busy /\ pc[r] \in Busy
  BY <1>1, <1>4 DEF Continue, Goto, PC, Busy
<1>6. /\ \A b \in Accounts \ {a} : Holders(b)' = Holders(b)
      /\ Cardinality(Holders(a)') = OneFewer(records[a].in_flight_requests)
  BY <1>1, <1>3, <1>5, HoldersLose
<1>7. Keeps(PrepareAuthInvalid(records[a]), Cardinality(Holders(a)'))
  BY <1>2, <1>3, <1>6, RetireTypes
<1>8. RecordsCount'
  BY <1>2, <1>3, <1>4, <1>6, <1>7, Recount
<1>9. RequestsType' /\ BusyHasAccount'
  BY <1>4, <1>5, ContinueInv
<1> QED
  BY <1>4, <1>8, <1>9 DEF IndInv, StoreType

\* A request that leaves the move to trash/ is in no count, before or after.
LEMMA LeavesTrash ==
  ASSUME IndInv, NEW r \in Requests, NEW where \in PC \ {"trash"},
         pc[r] = "trash",
         pc' = [pc EXCEPT ![r] = where],
         acct' = [acct EXCEPT ![r] = NoAccount]
  PROVE  \A a \in Accounts : Holders(a)' = Holders(a)
BY PoolAssumption DEF Holders, IndInv, RequestsType

LEMMA LeaveTrashSteps ==
  ASSUME IndInv, NEW r \in Requests, FinalizeRetire(r) \/ TrashFails(r)
  PROVE  IndInv'
<1>1. pc[r] = "trash" /\ pc[r] \in Busy /\ acct[r] \in Accounts
  BY DEF FinalizeRetire, TrashFails, IndInv, BusyHasAccount, RequestsType, Busy
<1>2. TryAnother(r) \/ Finish(r, "internal")
  BY DEF FinalizeRetire, TrashFails
<1>3. PICK where \in PC \ {"trash"} : /\ pc' = [pc EXCEPT ![r] = where]
                                      /\ acct' = [acct EXCEPT ![r] = NoAccount]
  BY <1>2 DEF TryAnother, Finish, Goto, PC
<1>4. \A a \in Accounts : Holders(a)' = Holders(a)
  BY <1>1, <1>3, LeavesTrash
<1>5. RequestsType' /\ BusyHasAccount'
  BY <1>1, <1>2, TryAnotherInv, FinishInv
<1>6. PICK a \in Accounts : a = acct[r]
  BY <1>1
<1>7. RecordsCount'
  <2>1. CASE records' = records
    BY <2>1, <1>4, SameRecords
  <2>2. CASE /\ a \in DOMAIN records
             /\ records' = Stored(a, FinalizeAuthInvalid(records[a]))
    <3>1. Keeps(records[a], Cardinality(Holders(a)))
      BY <2>2 DEF IndInv, RecordsCount
    <3>2. Keeps(FinalizeAuthInvalid(records[a]), Cardinality(Holders(a)'))
      BY <3>1, <1>4, RetireTypes DEF Keeps
    <3> QED
      BY <2>2, <3>2, <1>4, Recount
  <2> QED
    BY <1>6, <2>1, <2>2 DEF FinalizeRetire, TrashFails, Settle
<1>8. StoreType'
  BY DEF FinalizeRetire, TrashFails, Release, IndInv, StoreType
<1> QED
  BY <1>5, <1>7, <1>8 DEF IndInv

\* The two returns to the head of the loop that rewrite forced_refresh_attempted.
LEMMA ComeBackSteps ==
  ASSUME IndInv, NEW r \in Requests, ForceRefresh(r) \/ DecodeFails(r)
  PROVE  IndInv'
<1>1. pc[r] \in {"execute", "hold"} /\ acct[r] # NoAccount
  BY DEF ForceRefresh, DecodeFails, IndInv, BusyHasAccount, Busy
<1>2. /\ records[acct[r]] \in AccountRecord /\ acct[r] \in Accounts
      /\ now \in Nat
  BY <1>1, HolderIsKnown DEF IndInv, StoreType
<1> DEFINE rec == records[acct[r]]
           less == OneFewer(rec.in_flight_requests)
           bare == InvalidateAccessToken(rec, now)
<1>3. Keeps(ReleaseSelection(bare, now), less)
  <2>1. bare \in AccountRecord /\ bare.in_flight_requests = rec.in_flight_requests
    BY <1>2, InvalidateAccessTokenType DEF Keeps
  <2> HIDE DEF bare
  <2> QED BY <1>2, <2>1, ReleaseSelectionType
<1>4. Keeps(ApplyFailure(rec, "temporary_failure", NoTime, now), less)
  <2>1. "temporary_failure" \in FailureClass /\ NoTime \in Nat \cup {NoTime}
    BY DEF FailureClass
  <2> QED BY <1>2, <2>1, ApplyFailureType
<1>5. PICK new : Settle(acct[r], new) /\ Keeps(new, less)
  BY <1>3, <1>4 DEF ForceRefresh, DecodeFails
<1>6. /\ pc' = [pc EXCEPT ![r] = "select"] /\ "select" \in PC
      /\ acct' = [acct EXCEPT ![r] = NoAccount]
      /\ UNCHANGED <<now, diskLock, removing>>
  BY DEF ForceRefresh, DecodeFails, Goto, PC
<1>7. RecordsCount'
  BY <1>1, <1>5, <1>6, SettleCounts
<1>8. /\ tried' \in [Requests -> SUBSET Accounts]
      /\ forced' \in [Requests -> SUBSET Accounts]
  <2>1. \A f : f \in [Requests -> SUBSET Accounts] =>
          /\ [f EXCEPT ![r] = @ \cup {acct[r]}] \in [Requests -> SUBSET Accounts]
          /\ [f EXCEPT ![r] = {}] \in [Requests -> SUBSET Accounts]
    BY <1>2
  <2> QED
    BY <2>1 DEF ForceRefresh, DecodeFails, IndInv, RequestsType
<1>9. RequestsType' /\ BusyHasAccount'
  BY <1>6, <1>8 DEF IndInv, RequestsType, BusyHasAccount, Busy
<1> QED
  BY <1>6, <1>7, <1>9 DEF IndInv, StoreType

\* A dropped request stays counted, unless it had settled its account.
LEMMA DisconnectInv ==
  ASSUME IndInv, NEW r \in Requests, Disconnect(r)
  PROVE  IndInv'
<1>1. /\ pc[r] \in Busy \cup {"select"} /\ pc' = [pc EXCEPT ![r] = "dropped"]
      /\ acct' = [acct EXCEPT ![r] = IF pc[r] = "trash" THEN NoAccount ELSE @]
      /\ "dropped" \in PC /\ "dropped" \notin Busy
      /\ records' = records
  BY DEF Disconnect, Goto, PC, Busy, IndInv, RequestsType
<1>2. \A a \in Accounts : Holders(a)' = Holders(a)
  <2>1. CASE pc[r] = "trash"
    BY <1>1, <2>1, LeavesTrash
  <2>2. CASE pc[r] # "trash"
    BY <1>1, <2>2, HoldersUnchanged DEF IndInv, RequestsType
  <2> QED BY <2>1, <2>2
<1>3. RecordsCount'
  BY <1>1, <1>2, SameRecords
<1>4. RequestsType' /\ BusyHasAccount'
  BY <1>1, PoolAssumption
  DEF Disconnect, IndInv, RequestsType, BusyHasAccount, Busy
<1> QED
  BY <1>3, <1>4 DEF Disconnect, IndInv, StoreType

-----------------------------------------------------------------------------
(* Administration and time *)

\* A step outside the requests changes no count.
LEMMA RequestsStay ==
  ASSUME IndInv, UNCHANGED request
  PROVE  /\ RequestsType' /\ BusyHasAccount'
         /\ \A a \in Accounts : Holders(a)' = Holders(a)
BY DEF request, IndInv, RequestsType, BusyHasAccount, Holders

\* One known record rewritten with its count unchanged, kept or removed.
LEMMA RewriteOne ==
  ASSUME IndInv, UNCHANGED request, NEW a \in DOMAIN records, NEW rec,
         Keeps(rec, records[a].in_flight_requests),
         records' = [records EXCEPT ![a] = rec] \/ records' = Stored(a, rec)
  PROVE  RecordsCount'
<1>1. a \in Accounts /\ records[a].in_flight_requests = Cardinality(Holders(a))
  BY DEF IndInv, RecordsCount, Keeps
<1>2. Keeps(rec, Cardinality(Holders(a)'))
  BY <1>1, RequestsStay
<1> QED
  BY <1>2, RequestsStay, Recount

LEMMA ListAccountsInv ==
  ASSUME IndInv, ListAccounts
  PROVE  IndInv'
<1>1. records' = Expired /\ UNCHANGED request
  BY DEF ListAccounts
<1>2. records' = [a \in DOMAIN records' |-> records'[a]]
  BY <1>1 DEF Expired
<1>3. RecordsCount'
  BY <1>1, <1>2, ExpiredCounts, RequestsStay, RewriteAll
<1> QED
  BY <1>1, <1>3, RequestsStay DEF ListAccounts, IndInv, StoreType

LEMMA WakeInv ==
  ASSUME IndInv, WakeAll \/ \E a \in Accounts : WakeAccount(a)
  PROVE  IndInv'
<1>1. UNCHANGED request /\ UNCHANGED <<now, diskLock, removing>>
  BY DEF WakeAll, WakeAccount
<1>2. \A a \in DOMAIN records :
        Keeps(Wake(records[a]), records[a].in_flight_requests)
  BY WakeType DEF IndInv, RecordsCount, Keeps
<1>3. CASE WakeAll
  <2>1. records' = [a \in DOMAIN records |-> Wake(records[a])]
    BY <1>3 DEF WakeAll
  <2>2. /\ DOMAIN records' = DOMAIN records
        /\ records' = [a \in DOMAIN records' |-> records'[a]]
        /\ \A a \in DOMAIN records :
             Keeps(records'[a], records[a].in_flight_requests)
    BY <2>1, <1>2
  <2>3. RecordsCount'
    BY <1>1, <2>2, RequestsStay, RewriteAll
  <2> QED
    BY <1>1, <2>3, RequestsStay DEF IndInv, StoreType
<1>4. CASE \E a \in Accounts : WakeAccount(a)
  <2>1. PICK a \in DOMAIN records : records' = [records EXCEPT ![a] = Wake(records[a])]
    BY <1>4 DEF WakeAccount
  <2>2. RecordsCount'
    BY <1>1, <1>2, <2>1, RewriteOne
  <2> QED
    BY <1>1, <2>2, RequestsStay DEF IndInv, StoreType
<1> QED
  BY <1>3, <1>4

LEMMA RemoveInv ==
  ASSUME IndInv,
         RemoveApply \/ RemoveFails \/ \E a \in Accounts : RemoveBegin(a)
  PROVE  IndInv'
<1>1. UNCHANGED request
  BY DEF RemoveApply, RemoveFails, RemoveBegin
<1>2. StoreType'
  BY DEF RemoveApply, RemoveFails, RemoveBegin, Acquire, Release, IndInv, StoreType
<1>3. RecordsCount'
  <2>1. CASE records' = records
    BY <1>1, <2>1, RequestsStay, SameRecords
  <2>2. CASE RemoveApply /\ removing \in DOMAIN records
    <3>1. PICK a \in DOMAIN records : a = removing
      BY <2>2
    <3>2. records' = Stored(a, [records[a] EXCEPT !.detached = TRUE])
      BY <2>2, <3>1 DEF RemoveApply, Settle
    <3>3. Keeps([records[a] EXCEPT !.detached = TRUE],
                records[a].in_flight_requests)
      BY DetachedTypes DEF IndInv, RecordsCount, Keeps
    <3> QED
      BY <1>1, <3>2, <3>3, RewriteOne
  <2> QED
    BY <2>1, <2>2 DEF RemoveApply, RemoveFails, RemoveBegin, Settle
<1> QED
  BY <1>1, <1>2, <1>3, RequestsStay DEF IndInv

\* A new record counts nothing, and no request holds an unknown account.
LEMMA RegisterInv ==
  ASSUME IndInv, NEW a \in Accounts, Register(a)
  PROVE  IndInv'
<1>1. UNCHANGED request /\ UNCHANGED <<now, diskLock, removing>>
  BY DEF Register
<1>2. /\ DOMAIN records' = DOMAIN records \cup {a}
      /\ records' = [b \in DOMAIN records' |-> records'[b]]
      /\ \A b \in DOMAIN records \ {a} : records'[b] = records[b]
      /\ a \in DOMAIN records => records'[a] = Reattached(records[a])
      /\ a \notin DOMAIN records => records'[a] = ColdRecord
  BY DEF Register
<1>3. \A b \in DOMAIN records : Keeps(records[b], Cardinality(Holders(b)'))
  BY <1>1, RequestsStay DEF IndInv, RecordsCount
<1>4. Keeps(records'[a], Cardinality(Holders(a)'))
  <2>1. CASE a \in DOMAIN records
    BY <2>1, <1>2, <1>3, DetachedTypes DEF Keeps
  <2>2. CASE a \notin DOMAIN records
    <3>1. Holders(a)' = {}
      BY <1>1, <2>2, RequestsStay DEF IndInv, RecordsCount
    <3> QED
      BY <3>1, <2>2, <1>2, ColdRecordType, FS_EmptySet
  <2> QED BY <2>1, <2>2
<1>5. /\ \A b \in DOMAIN records' : Keeps(records'[b], Cardinality(Holders(b)'))
      /\ DOMAIN records' \subseteq Accounts
      /\ \A b \in Accounts \ DOMAIN records' : Holders(b)' = {}
  BY <1>1, <1>2, <1>3, <1>4, RequestsStay DEF IndInv, RecordsCount
<1> QED
  BY <1>1, <1>2, <1>5, RequestsStay DEF IndInv, StoreType, RecordsCount

LEMMA TokenAgesInv ==
  ASSUME IndInv, NEW a \in Accounts, TokenAges(a)
  PROVE  IndInv'
<1>1. /\ UNCHANGED request /\ UNCHANGED <<now, diskLock, removing>>
      /\ a \in DOMAIN records
      /\ records' = [records EXCEPT ![a] = [records[a] EXCEPT !.token = "stale"]]
  BY DEF TokenAges
<1>2. Keeps([records[a] EXCEPT !.token = "stale"], records[a].in_flight_requests)
  BY <1>1 DEF IndInv, RecordsCount, Keeps, AccountRecord, TokenState
<1>3. RecordsCount'
  BY <1>1, <1>2, RewriteOne
<1> QED
  BY <1>1, <1>3, RequestsStay DEF IndInv, StoreType

LEMMA TickInv ==
  ASSUME IndInv, Tick
  PROVE  IndInv'
<1>1. UNCHANGED request /\ records' = records
  BY DEF Tick
<1>2. RecordsCount'
  BY <1>1, RequestsStay, SameRecords
<1> QED
  BY <1>1, <1>2, RequestsStay DEF Tick, IndInv, StoreType

-----------------------------------------------------------------------------
(* The invariant *)

LEMMA InitInv == Init => IndInv
<1> SUFFICES ASSUME Init PROVE IndInv
  OBVIOUS
<1>1. \A a \in Accounts : Holders(a) = {}
  BY PoolAssumption DEF Init, Holders
<1>2. RecordsCount
  BY <1>1, ColdRecordType, FS_EmptySet DEF Init, RecordsCount
<1>3. StoreType /\ RequestsType
  BY DEF Init, StoreType, RequestsType, PC
<1>4. BusyHasAccount
  BY DEF Init, BusyHasAccount, Busy
<1> QED
  BY <1>2, <1>3, <1>4 DEF IndInv

LEMMA StepInv == IndInv /\ [Next]_vars => IndInv'
<1> SUFFICES ASSUME IndInv, [Next]_vars PROVE IndInv'
  OBVIOUS
<1>1. ASSUME NEW r \in Requests, Request(r) PROVE IndInv'
  <2>1. CASE Select(r) \/ NoCandidate(r)
    BY <2>1, SelectInv, NoCandidateInv
  <2>2. CASE \/ RefreshOk(r) \/ RefreshInvalid(r) \/ Persisted(r)
             \/ Lookup(r) \/ ExecuteOk(r)
    BY <2>2, MoveOnSteps
  <2>3. CASE FinishRefresh(r)
    BY <2>3, FinishRefreshInv
  <2>4. CASE \/ RefreshFails(r) \/ ReleaseUnusable(r) \/ RejectedAgain(r)
             \/ ExecuteFails(r) \/ SettleHeld(r)
    BY <2>4, SettlingSteps
  <2>5. CASE PrepareRetire(r) \/ FinalizeRetire(r) \/ TrashFails(r)
    BY <2>5, PrepareRetireInv, LeaveTrashSteps
  <2>6. CASE ForceRefresh(r) \/ DecodeFails(r) \/ Disconnect(r)
    BY <2>6, ComeBackSteps, DisconnectInv
  <2> QED
    BY <1>1, <2>1, <2>2, <2>3, <2>4, <2>5, <2>6 DEF Request, Step
<1>2. CASE Administration
  BY <1>2, ListAccountsInv, WakeInv, RemoveInv, RegisterInv DEF Administration
<1>3. CASE (\E a \in Accounts : TokenAges(a)) \/ Tick
  BY <1>3, TokenAgesInv, TickInv
<1>4. CASE UNCHANGED vars
  <2>1. UNCHANGED request /\ UNCHANGED store
    BY <1>4 DEF vars, request, store
  <2>2. RecordsCount'
    BY <2>1, RequestsStay, SameRecords DEF store
  <2> QED
    BY <2>1, <2>2, RequestsStay DEF store, IndInv, StoreType
<1> QED
  BY <1>1, <1>2, <1>3, <1>4 DEF Next

\* The invariant says what the three properties say.
LEMMA InvImplies == IndInv => TypeOK /\ InFlightExact /\ HoldersHaveRecords
<1> SUFFICES ASSUME IndInv PROVE TypeOK /\ InFlightExact /\ HoldersHaveRecords
  OBVIOUS
<1>1. TypeOK
  BY DEF IndInv, StoreType, RequestsType, RecordsCount, Keeps, TypeOK
<1>2. InFlightExact
  BY DEF IndInv, RecordsCount, Keeps, InFlightExact
<1>3. HoldersHaveRecords
  BY HolderIsKnown DEF HoldersHaveRecords
<1> QED
  BY <1>1, <1>2, <1>3

LEMMA Invariance == Spec => []IndInv
BY InitInv, StepInv, PTL DEF Spec

\* Type correctness: whatever the interleaving, each record keeps the shape the
\* operations of AccountStore expect, and each request a place in the loop of
\* execute_with_failover_from_inner.
THEOREM TypeCorrect == Spec => []TypeOK
BY Invariance, InvImplies, PTL

\* Every selection is settled exactly once (select_account against the
\* settlements of lifecycle.rs): in_flight_requests is the number of requests
\* that still hold the account, clients that left while waiting included.
THEOREM SettledOnce == Spec => []InFlightExact
BY Invariance, InvImplies, PTL

\* apply_remove and maybe_remove_detached never take a record away from a
\* request that holds its account: the "unknown account" errors of
\* finish_refresh_success and prepare_auth_invalid_failure cannot happen.
THEOREM NoRecordLost == Spec => []HoldersHaveRecords
BY Invariance, InvImplies, PTL

-----------------------------------------------------------------------------
(* The lease.  The account pool implements AccountLease, for any accounts and *)
(* requests: in a step at most one request takes or settles an account, and   *)
(* as both sides of the step count their holders exactly (IndInv), the        *)
(* records follow.                                                            *)


\* What a request has still to settle.
Leased(r) == IF pc[r] = "trash" THEN NoAccount ELSE acct[r]

Mark(a) == IF a \in DOMAIN records THEN records[a].in_flight_requests ELSE 0

\* What the invariant says of a state, and so of both sides of a step: the marks of
\* the accounts are the numbers of their holders, known or not.
MarksExact ==
  /\ \A r \in Requests : Leased(r) \in Accounts \cup {NoAccount}
  /\ \A a \in Accounts : /\ Holders(a) = {r \in Requests : Leased(r) = a}
                         /\ Mark(a) = Cardinality(Holders(a))

LEMMA MarksAreHolders == IndInv => MarksExact
<1> SUFFICES ASSUME IndInv
             PROVE  MarksExact
  OBVIOUS
<1>1. \A r \in Requests : Leased(r) \in Accounts \cup {NoAccount}
  BY DEF IndInv, RequestsType, Leased
<1>2. \A a \in Accounts : Holders(a) = {r \in Requests : Leased(r) = a}
  BY PoolAssumption DEF Leased, Holders
<1>3. \A a \in Accounts : Mark(a) = Cardinality(Holders(a))
  BY FS_EmptySet DEF IndInv, RecordsCount, Keeps, Mark
<1> QED
  BY <1>1, <1>2, <1>3 DEF MarksExact

\* A step that moves one request from what it held to what it holds.
LEMMA OneMoves ==
  ASSUME MarksExact, MarksExact', NEW r \in Requests,
         \A s \in Requests \ {r} : Leased(s)' = Leased(s),
         \/ Leased(r)' = Leased(r)
         \/ Leased(r) = NoAccount
         \/ Leased(r)' = NoAccount
  PROVE  [Lease!Next]_(Lease!vars)
<1> DEFINE held == [s \in Requests |-> Leased(s)]
           marks == [a \in Accounts |-> Mark(a)]
<1>1. /\ held \in [Requests -> Accounts \cup {NoAccount}]
      /\ held' \in [Requests -> Accounts \cup {NoAccount}]
      /\ \A s \in Requests : held[s] = Leased(s) /\ held'[s] = Leased(s)'
  BY DEF MarksExact
<1>2. /\ marks = [a \in Accounts |-> Cardinality(Holders(a))]
      /\ marks' = [a \in Accounts |-> Cardinality(Holders(a)')]
  BY DEF MarksExact
<1>3. \A a \in Accounts : /\ Holders(a) = {s \in Requests : held[s] = a}
                          /\ Holders(a)' = {s \in Requests : held'[s] = a}
  BY <1>1 DEF MarksExact
<1> HIDE DEF held, marks
<1>4. held' = [held EXCEPT ![r] = held'[r]]
  BY <1>1
<1>5. CASE held'[r] = held[r]
  <2>1. held' = held
    BY <1>1, <1>4, <1>5
  <2>2. \A a \in Accounts : Holders(a)' = Holders(a)
    BY <1>3, <2>1
  <2>3. marks' = marks
    BY <1>2, <2>2
  <2> QED
    BY <2>1, <2>3 DEF held, marks, Leased, Mark, Lease!vars
<1>6. ASSUME held[r] = NoAccount, held'[r] # NoAccount
      PROVE  Lease!Next
  <2>1. PICK a \in Accounts : a = held'[r]
    BY <1>1, <1>6
  <2>2. Holders(a)' = Holders(a) \cup {r} /\ r \notin Holders(a)
    BY <1>1, <1>3, <1>4, <1>6, <2>1
  <2>3. \A b \in Accounts \ {a} : Holders(b)' = Holders(b)
    <3>1. \A b \in Accounts \ {a}, s \in Requests : held'[s] = b <=> held[s] = b
      BY <1>1, <1>4, <1>6, <2>1, PoolAssumption
    <3> QED
      BY <1>3, <3>1
  <2>4. Cardinality(Holders(a)') = Cardinality(Holders(a)) + 1
    BY <2>2, HoldersFinite, FS_AddElement
  <2>5. marks' = [marks EXCEPT ![a] = @ + 1]
    BY <1>2, <2>3, <2>4
  <2>6. Lease!Take(r, a)
    BY <1>4, <1>6, <2>1, <2>5 DEF held, marks, Leased, Mark, Lease!Take
  <2> QED
    BY <2>6 DEF Lease!Next
<1>7. ASSUME held[r] # NoAccount, held'[r] = NoAccount
      PROVE  Lease!Next
  <2>1. PICK a \in Accounts : a = held[r]
    BY <1>1, <1>7
  <2>2. Holders(a)' = Holders(a) \ {r} /\ r \in Holders(a)
    BY <1>1, <1>3, <1>4, <1>7, <2>1, PoolAssumption
  <2>3. \A b \in Accounts \ {a} : Holders(b)' = Holders(b)
    BY <1>1, <1>3, <1>4, <1>7, <2>1, PoolAssumption
  <2>4. Cardinality(Holders(a)') = Cardinality(Holders(a)) - 1
    BY <2>2, HoldersFinite, FS_RemoveElement
  <2>5. marks' = [marks EXCEPT ![a] = @ - 1]
    BY <1>2, <2>3, <2>4
  <2>6. Lease!Settle(r)
    BY <1>4, <1>7, <2>1, <2>5 DEF held, marks, Leased, Mark, Lease!Settle
  <2> QED
    BY <2>6 DEF Lease!Next
<1> QED
  BY <1>1, <1>5, <1>6, <1>7

\* A request holds nothing before it selects, and only lets go of what it holds after.
LEMMA RequestMovesItself ==
  ASSUME IndInv, NEW r \in Requests, Request(r)
  PROVE  /\ \A s \in Requests \ {r} : Leased(s)' = Leased(s)
         /\ \/ Leased(r)' = Leased(r)
            \/ Leased(r) = NoAccount
            \/ Leased(r)' = NoAccount
<1>1. /\ pc \in [Requests -> PC]
      /\ acct \in [Requests -> Accounts \cup {NoAccount}]
  BY DEF IndInv, RequestsType
<1>2. ASSUME NEW where, pc' = [pc EXCEPT ![r] = where],
             \/ acct[r] = NoAccount /\ \E a : acct' = [acct EXCEPT ![r] = a]
             \/ acct' = [acct EXCEPT ![r] = NoAccount]
             \/ acct' = acct /\ (pc[r] = "trash" => where = "trash")
      PROVE  /\ \A s \in Requests \ {r} : Leased(s)' = Leased(s)
             /\ \/ Leased(r)' = Leased(r)
                \/ Leased(r) = NoAccount
                \/ Leased(r)' = NoAccount
  BY <1>1, <1>2 DEF Leased
<1>3. CASE Select(r)
  <2>1. acct[r] = NoAccount
    BY <1>3 DEF Select, IndInv, BusyHasAccount
  <2> QED
    BY <1>2, <1>3, <2>1 DEF Select, Goto
<1>4. CASE (\E where : Continue(r, where)) /\ pc[r] # "trash"
  BY <1>2, <1>4 DEF Continue, Goto
<1>5. CASE TryAnother(r) \/ \E end : Finish(r, end)
  BY <1>2, <1>5 DEF TryAnother, Finish, Goto
<1>6. CASE ForceRefresh(r) \/ DecodeFails(r)
  BY <1>2, <1>6 DEF ForceRefresh, DecodeFails, Goto
<1>7. CASE Disconnect(r)
  <2>1. CASE pc[r] = "trash"
    BY <1>1, <1>2, <1>7, <2>1 DEF Disconnect, Goto
  <2>2. CASE pc[r] # "trash"
    BY <1>1, <1>2, <1>7, <2>2 DEF Disconnect, Goto
  <2> QED
    BY <2>1, <2>2
<1>8. CASE \/ RefreshOk(r) \/ RefreshInvalid(r) \/ Persisted(r) \/ Lookup(r) \/ ExecuteOk(r)
           \/ FinishRefresh(r) \/ PrepareRetire(r)
  BY <1>4, <1>5, <1>8
     DEF RefreshOk, RefreshInvalid, Persisted, Lookup, ExecuteOk, FinishRefresh, PrepareRetire
<1>9. CASE \/ NoCandidate(r) \/ RefreshFails(r) \/ FinalizeRetire(r) \/ TrashFails(r)
           \/ ReleaseUnusable(r) \/ RejectedAgain(r) \/ ExecuteFails(r) \/ SettleHeld(r)
  BY <1>5, <1>9
     DEF NoCandidate, RefreshFails, FinalizeRetire, TrashFails, ReleaseUnusable, RejectedAgain,
         ExecuteFails, SettleHeld
<1> QED
  BY <1>3, <1>6, <1>7, <1>8, <1>9 DEF Request, Step

\* The administration moves no request: what it drops or puts back is not held.
LEMMA NobodyMoves ==
  ASSUME MarksExact, MarksExact', UNCHANGED request
  PROVE  [Lease!Next]_(Lease!vars)
<1>1. \A r \in Requests : Leased(r)' = Leased(r)
  BY DEF request, Leased
<1>2. CASE Requests # {}
  BY <1>1, <1>2, OneMoves
<1>3. CASE Requests = {}
  <2>1. \A a \in Accounts : Holders(a)' = Holders(a)
    BY <1>3 DEF Holders
  <2>2. \A a \in Accounts : Mark(a)' = Mark(a)
    BY <2>1 DEF MarksExact
  <2>3. [r \in Requests |-> Leased(r)]' = [r \in Requests |-> Leased(r)]
    BY <1>1
  <2>4. [a \in Accounts |-> Mark(a)]' = [a \in Accounts |-> Mark(a)]
    BY <2>2
  <2> QED
    BY <2>3, <2>4 DEF Leased, Mark, Lease!vars
<1> QED
  BY <1>2, <1>3

LEMMA PoolLeaseStep ==
  ASSUME IndInv, MarksExact, MarksExact', [Next]_vars
  PROVE  [Lease!Next]_(Lease!vars)
<1>1. CASE \E r \in Requests : Request(r)
  BY <1>1, RequestMovesItself, OneMoves
<1>2. CASE UNCHANGED request
  BY <1>2, NobodyMoves
<1>3. CASE Administration
  BY <1>2, <1>3
     DEF Administration, ListAccounts, WakeAll, RemoveApply, RemoveFails, WakeAccount,
         RemoveBegin, Register
<1>4. CASE (\E a \in Accounts : TokenAges(a)) \/ Tick
  BY <1>2, <1>4 DEF TokenAges, Tick
<1>5. CASE UNCHANGED vars
  BY <1>2, <1>5 DEF vars, request
<1> QED
  BY <1>1, <1>3, <1>4, <1>5 DEF Next

LEMMA PoolLeaseStarts == Init => Lease!Init
<1> SUFFICES ASSUME Init
             PROVE  Lease!Init
  OBVIOUS
<1>1. ASSUME NEW a \in Accounts
      PROVE  Lease!HeldBy(a) = {}
  BY <1>1, PoolAssumption DEF Init, Lease!HeldBy
<1>2. Lease!Cardinality({}) = 0
  BY FS_EmptySet DEF Cardinality, Lease!Cardinality
<1>3. \A a \in Accounts : Lease!Cardinality(Lease!HeldBy(a)) = 0
  BY <1>1, <1>2
<1>4. \A a \in Accounts : a \in DOMAIN records /\ records[a].in_flight_requests = 0
  BY DEF Init, ColdRecord
<1> QED
  BY <1>3, <1>4 DEF Init, Lease!Init

\* The failover loops implement the lease (select_account, apply_account_settlement,
\* maybe_remove_detached): a step takes or settles one account of one request, or
\* none, and no record is dropped, put back or rewritten that is still to be settled.
THEOREM PoolImplementsLease == Spec => LeasesAccounts
<1>1. IndInv /\ MarksExact /\ MarksExact' /\ [Next]_vars => [Lease!Next]_(Lease!vars)
  BY PoolLeaseStep
<1> QED
  BY Invariance, MarksAreHolders, PoolLeaseStarts, <1>1, PTL DEF Spec, LeasesAccounts, Lease!Spec

-----------------------------------------------------------------------------
(* Blocks: EachRecord says by which operations a step may rewrite a record     *)

\* What ready and cold mean of one record.
Consistent(rec, t) == rec.routing_state \in {"ready", "cold"} => ~HasActiveBlock(rec, t)

NotShortened(old, new, t) ==
  old.blocked_until > t =>
    new.blocked_until >= old.blocked_until \/ new.blocked_reason = "auth_invalid"

Respects(old, new, t) ==
  (Consistent(old, t) => Consistent(new, t)) /\ NotShortened(old, new, t)

-----------------------------------------------------------------------------
(* One record *)

\* A rewriting that leaves the block alone, and says ready only of what is not blocked.
LEMMA SameBlock ==
  ASSUME NEW old \in AccountRecord, NEW new \in AccountRecord, NEW t \in Nat,
         new.blocked_until = old.blocked_until,
         new.blocked_reason = old.blocked_reason,
         \/ new.routing_state = old.routing_state
         \/ ~HasActiveBlock(old, t)
         \/ new.routing_state \notin {"ready", "cold"}
  PROVE  Respects(old, new, t)
  BY DEF Respects, Consistent, NotShortened, HasActiveBlock, AccountRecord, NoTime

LEMMA TimedBlockKeeps ==
  ASSUME NEW rec \in AccountRecord, NEW reason \in BlockedReason, NEW until \in Nat,
         NEW t \in Nat
  PROVE  /\ NotShortened(rec, TimedBlock(rec, reason, until, t), t)
         /\ TimedBlock(rec, reason, until, t).routing_state = rec.routing_state
         /\ TimedBlock(rec, reason, until, t).refresh_in_flight = rec.refresh_in_flight
<1>1. CASE ~HasActiveBlock(rec, t) \/ (rec.blocked_until # NoTime /\ until >= rec.blocked_until)
  <2>1. TimedBlock(rec, reason, until, t)
          = [rec EXCEPT !.blocked_reason = reason, !.blocked_until = until]
    BY <1>1 DEF TimedBlock
  <2>2. rec.blocked_until > t => until >= rec.blocked_until
    BY <1>1 DEF HasActiveBlock, AccountRecord, NoTime
  <2> QED
    BY <2>1, <2>2 DEF NotShortened, AccountRecord
<1>2. CASE ~(~HasActiveBlock(rec, t)
             \/ (rec.blocked_until # NoTime /\ until >= rec.blocked_until))
  <2>1. TimedBlock(rec, reason, until, t) = rec
    BY <1>2 DEF TimedBlock
  <2> QED
    BY <2>1 DEF NotShortened, AccountRecord, NoTime
<1> QED
  BY <1>1, <1>2

LEMMA RetryableBlockKeeps ==
  ASSUME NEW rec \in AccountRecord, NEW reason \in BlockedReason,
         NEW retryAfter \in Nat \cup {NoTime}, NEW t \in Nat
  PROVE  /\ NotShortened(rec, RetryableBlock(rec, reason, retryAfter, t), t)
         /\ RetryableBlock(rec, reason, retryAfter, t).routing_state = rec.routing_state
         /\ RetryableBlock(rec, reason, retryAfter, t).refresh_in_flight = rec.refresh_in_flight
<1> DEFINE raised == [rec EXCEPT !.local_backoff_level =
                        IF rec.local_backoff_level < LevelMax
                        THEN rec.local_backoff_level + 1 ELSE LevelMax]
<1>1. /\ raised \in AccountRecord
      /\ raised.blocked_until = rec.blocked_until
      /\ raised.routing_state = rec.routing_state
      /\ raised.refresh_in_flight = rec.refresh_in_flight
  BY CooldownAssumption DEF AccountRecord
<1>2. rec.local_backoff_level \in Nat
  BY CooldownAssumption DEF AccountRecord
<1>3. t + NextLocalBackoff(rec.local_backoff_level) \in Nat
  BY <1>2, BackoffType, CooldownAssumption
<1>4. CASE retryAfter = NoTime
  <2>1. RetryableBlock(rec, reason, retryAfter, t)
          = TimedBlock(raised, reason, t + NextLocalBackoff(rec.local_backoff_level), t)
    BY <1>4 DEF RetryableBlock
  <2> HIDE DEF raised
  <2>2. /\ NotShortened(raised, RetryableBlock(rec, reason, retryAfter, t), t)
        /\ RetryableBlock(rec, reason, retryAfter, t).routing_state = raised.routing_state
        /\ RetryableBlock(rec, reason, retryAfter, t).refresh_in_flight
             = raised.refresh_in_flight
    BY <1>1, <1>3, <2>1, TimedBlockKeeps
  <2> QED
    BY <1>1, <2>2 DEF NotShortened
<1>5. CASE retryAfter # NoTime
  <2>1. t + retryAfter \in Nat
    BY <1>5
  <2>2. RetryableBlock(rec, reason, retryAfter, t) = TimedBlock(rec, reason, t + retryAfter, t)
    BY <1>5 DEF RetryableBlock
  <2> QED
    BY <2>1, <2>2, TimedBlockKeeps
<1> QED
  BY <1>4, <1>5

LEMMA SettlesSame ==
  ASSUME NEW rec \in AccountRecord
  PROVE  /\ Unheld(rec) \in AccountRecord
         /\ Unheld(rec).blocked_until = rec.blocked_until
         /\ Unheld(rec).blocked_reason = rec.blocked_reason
         /\ Unheld(rec).routing_state = rec.routing_state
         /\ Unheld(rec).refresh_in_flight = FALSE
  BY UnheldType DEF Unheld, AccountRecord, Keeps

LEMMA ApplyFailureKeeps ==
  ASSUME NEW rec \in AccountRecord, NEW class \in FailureClass,
         NEW retryAfter \in Nat \cup {NoTime}, NEW t \in Nat
  PROVE  /\ Respects(rec, ApplyFailure(rec, class, retryAfter, t), t)
         /\ ApplyFailure(rec, class, retryAfter, t).refresh_in_flight = FALSE
<1> DEFINE In(s) == [Unheld(rec) EXCEPT !.routing_state = s]
           new == ApplyFailure(rec, class, retryAfter, t)
<1>1. \A s \in RoutingState :
        /\ In(s) \in AccountRecord
        /\ In(s).blocked_until = rec.blocked_until
        /\ In(s).blocked_reason = rec.blocked_reason
        /\ In(s).routing_state = s
        /\ In(s).refresh_in_flight = FALSE
  BY SettlesSame DEF AccountRecord
<1>2. \A s \in RoutingState :
        /\ [In(s) EXCEPT !.token = "none"] \in AccountRecord
        /\ [In(s) EXCEPT !.token = "none"].blocked_until = rec.blocked_until
        /\ [In(s) EXCEPT !.token = "none"].routing_state = s
        /\ [In(s) EXCEPT !.token = "none"].refresh_in_flight = FALSE
  <2> HIDE DEF In
  <2> QED
    BY <1>1 DEF AccountRecord, TokenState
<1>3. /\ {"temporarily_unavailable", "auth_invalid", "cooldown", "risk_controlled"}
           \subseteq RoutingState
      /\ IdleState(rec) \in RoutingState
      /\ {"temporarily_unavailable", "risk_controlled", "rate_limited",
          "quota_exhausted"} \subseteq BlockedReason
      /\ TemporaryCooldown \in Nat /\ RiskCooldown \in Nat
  BY IdleStateType, CooldownAssumption DEF RoutingState, BlockedReason
\* A record whose state says that it is blocked, with a block that is no shorter.
<1>4. ASSUME NEW mid \in AccountRecord, mid.blocked_until = rec.blocked_until,
             mid.routing_state \notin {"ready", "cold"},
             mid.refresh_in_flight = FALSE,
             NEW res, NotShortened(mid, res, t), res.routing_state = mid.routing_state,
             res.refresh_in_flight = mid.refresh_in_flight
      PROVE  Respects(rec, res, t) /\ res.refresh_in_flight = FALSE
  BY <1>4 DEF Respects, Consistent, NotShortened
<1> HIDE DEF In
<1>5. ASSUME NEW mid \in AccountRecord, NEW reason \in BlockedReason, NEW d \in Nat
      PROVE  /\ NotShortened(mid, FixedBlock(mid, reason, d, t), t)
             /\ FixedBlock(mid, reason, d, t).routing_state = mid.routing_state
             /\ FixedBlock(mid, reason, d, t).refresh_in_flight = mid.refresh_in_flight
  <2>1. t + d \in Nat
    OBVIOUS
  <2> QED
    BY <2>1, TimedBlockKeeps DEF FixedBlock
<1>6. CASE class = "access_token_rejected"
  <2> DEFINE mid == [In("temporarily_unavailable") EXCEPT !.token = "none"]
  <2>1. new = FixedBlock(mid, "temporarily_unavailable", TemporaryCooldown, t)
    BY <1>6 DEF ApplyFailure, In
  <2>2. /\ mid \in AccountRecord /\ mid.blocked_until = rec.blocked_until
        /\ mid.routing_state = "temporarily_unavailable"
        /\ mid.refresh_in_flight = FALSE
    BY <1>2, <1>3
  <2> HIDE DEF mid, new
  <2>3. /\ NotShortened(mid, new, t) /\ new.routing_state = mid.routing_state
        /\ new.refresh_in_flight = mid.refresh_in_flight
    BY <1>3, <1>5, <2>1, <2>2
  <2> QED
    BY <1>4, <2>2, <2>3 DEF new
<1>7. CASE class = "auth_invalid"
  <2> DEFINE mid == [In("auth_invalid") EXCEPT !.token = "none"]
  <2>1. new = AuthInvalidBlock(mid)
    BY <1>7 DEF ApplyFailure, In
  <2>2. /\ mid \in AccountRecord /\ mid.routing_state = "auth_invalid"
        /\ mid.refresh_in_flight = FALSE
    BY <1>2, <1>3
  <2>3. /\ new.blocked_reason = "auth_invalid" /\ new.routing_state = "auth_invalid"
        /\ new.refresh_in_flight = FALSE
    <3> HIDE DEF mid, new
    <3> QED
      BY <2>1, <2>2 DEF AuthInvalidBlock, AccountRecord
  <2> QED
    BY <2>3 DEF Respects, Consistent, NotShortened
<1>8. CASE class \in {"rate_limited", "quota_exhausted"}
  <2>1. new = RetryableBlock(In("cooldown"), class, retryAfter, t)
    BY <1>8 DEF ApplyFailure, In
  <2>2. class \in BlockedReason
    BY <1>3, <1>8
  <2> DEFINE mid == In("cooldown")
  <2>3. /\ mid \in AccountRecord /\ mid.blocked_until = rec.blocked_until
        /\ mid.routing_state = "cooldown"
        /\ mid.refresh_in_flight = FALSE
    BY <1>1, <1>3
  <2> HIDE DEF mid, new
  <2>4. /\ NotShortened(mid, new, t) /\ new.routing_state = mid.routing_state
        /\ new.refresh_in_flight = mid.refresh_in_flight
    BY <2>1, <2>2, <2>3, RetryableBlockKeeps DEF mid
  <2> QED
    BY <1>4, <2>3, <2>4 DEF new
<1>9. CASE class = "risk_controlled"
  <2>1. new = FixedBlock(In("risk_controlled"), "risk_controlled", RiskCooldown, t)
    BY <1>9 DEF ApplyFailure, In
  <2> DEFINE mid == In("risk_controlled")
  <2>2. /\ mid \in AccountRecord /\ mid.blocked_until = rec.blocked_until
        /\ mid.routing_state = "risk_controlled"
        /\ mid.refresh_in_flight = FALSE
    BY <1>1, <1>3
  <2> HIDE DEF mid, new
  <2>3. /\ NotShortened(mid, new, t) /\ new.routing_state = mid.routing_state
        /\ new.refresh_in_flight = mid.refresh_in_flight
    BY <1>3, <1>5, <2>1, <2>2 DEF mid
  <2> QED
    BY <1>4, <2>2, <2>3 DEF new
<1>10. CASE class = "temporary_failure"
  <2>1. new = IF retryAfter # NoTime
              THEN RetryableBlock(In("temporarily_unavailable"),
                                  "temporarily_unavailable", retryAfter, t)
              ELSE FixedBlock(In("temporarily_unavailable"),
                              "temporarily_unavailable", TemporaryCooldown, t)
    BY <1>10 DEF ApplyFailure, In
  <2> DEFINE mid == In("temporarily_unavailable")
  <2>2. /\ mid \in AccountRecord /\ mid.blocked_until = rec.blocked_until
        /\ mid.routing_state = "temporarily_unavailable"
        /\ mid.refresh_in_flight = FALSE
    BY <1>1, <1>3
  <2> HIDE DEF mid, new
  <2>3. /\ NotShortened(mid, new, t) /\ new.routing_state = mid.routing_state
        /\ new.refresh_in_flight = mid.refresh_in_flight
    BY <1>3, <1>5, <2>1, <2>2, RetryableBlockKeeps DEF mid
  <2> QED
    BY <1>4, <2>2, <2>3 DEF new
<1>11. CASE class \in {"request_rejected", "internal_failure"}
  <2>1. new = IF ~HasActiveBlock(rec, t) /\ rec.routing_state # "auth_invalid"
              THEN In(IdleState(rec)) ELSE Unheld(rec)
    BY <1>11 DEF ApplyFailure, In
  <2> HIDE DEF new
  <2>2. CASE ~HasActiveBlock(rec, t) /\ rec.routing_state # "auth_invalid"
    <3>1. new = In(IdleState(rec))
      BY <2>1, <2>2
    <3> QED
      BY <1>1, <1>3, <2>2, <3>1, SameBlock DEF new
  <2>3. CASE ~(~HasActiveBlock(rec, t) /\ rec.routing_state # "auth_invalid")
    <3>1. new = Unheld(rec)
      BY <2>1, <2>3
    <3> QED
      BY <3>1, SettlesSame, SameBlock DEF new
  <2> QED
    BY <2>2, <2>3
<1> QED
  BY <1>6, <1>7, <1>8, <1>9, <1>10, <1>11 DEF FailureClass

\* The settlements that look at the block first.
LEMMA SettledKeep ==
  ASSUME NEW rec \in AccountRecord, NEW t \in Nat
  PROVE  /\ Respects(rec, MarkRequestSuccess(rec, t), t)
         /\ MarkRequestSuccess(rec, t).refresh_in_flight = FALSE
         /\ Respects(rec, ReleaseSelection(rec, t), t)
         /\ ReleaseSelection(rec, t).refresh_in_flight = FALSE
<1>1. ASSUME NEW new \in {MarkRequestSuccess(rec, t), ReleaseSelection(rec, t)}
      PROVE  /\ new \in AccountRecord
             /\ new.blocked_until = rec.blocked_until
             /\ new.blocked_reason = rec.blocked_reason
             /\ new.refresh_in_flight = FALSE
             /\ new.routing_state = rec.routing_state \/ ~HasActiveBlock(rec, t)
  <2>1. new \in AccountRecord
    BY MarkRequestSuccessType, ReleaseSelectionType DEF Keeps
  <2>2. CASE new = MarkRequestSuccess(rec, t)
    BY <2>1, <2>2, SettlesSame DEF MarkRequestSuccess, AccountRecord
  <2>3. CASE new = ReleaseSelection(rec, t)
    BY <2>1, <2>3, SettlesSame DEF ReleaseSelection, AccountRecord
  <2> QED
    BY <2>1, <2>2, <2>3
<1> QED
  BY <1>1, SameBlock

LEMMA InvalidateKeeps ==
  ASSUME NEW rec \in AccountRecord, NEW t \in Nat
  PROVE  /\ InvalidateAccessToken(rec, t) \in AccountRecord
         /\ InvalidateAccessToken(rec, t).blocked_until = rec.blocked_until
         /\ Consistent(rec, t) => Consistent(InvalidateAccessToken(rec, t), t)
<1> DEFINE new == InvalidateAccessToken(rec, t)
<1>1. new \in AccountRecord
  BY InvalidateAccessTokenType DEF Keeps
<1>2. /\ new.blocked_until = rec.blocked_until /\ new.blocked_reason = rec.blocked_reason
      /\ new.routing_state = rec.routing_state \/ ~HasActiveBlock(rec, t)
  BY DEF InvalidateAccessToken, AccountRecord
<1> QED
  BY <1>1, <1>2 DEF Consistent, HasActiveBlock

\* A token taken away and the account settled, in one critical section.
LEMMA InvalidatedKeep ==
  ASSUME NEW rec \in AccountRecord, NEW t \in Nat
  PROVE  LET bare == InvalidateAccessToken(rec, t)
             failed == ApplyFailure(bare, "access_token_rejected", NoTime, t)
         IN  /\ Respects(rec, ReleaseSelection(bare, t), t)
             /\ ReleaseSelection(bare, t).refresh_in_flight = FALSE
             /\ Respects(rec, failed, t)
             /\ failed.refresh_in_flight = FALSE
<1> DEFINE bare == InvalidateAccessToken(rec, t)
<1>1. /\ bare \in AccountRecord /\ bare.blocked_until = rec.blocked_until
      /\ Consistent(rec, t) => Consistent(bare, t)
  BY InvalidateKeeps
<1> HIDE DEF bare
<1>2. \A new : Respects(bare, new, t) => Respects(rec, new, t)
  BY <1>1 DEF Respects, NotShortened
<1>3. "access_token_rejected" \in FailureClass
  BY DEF FailureClass
<1> QED
  BY <1>1, <1>2, <1>3, SettledKeep, ApplyFailureKeeps DEF bare

LEMMA RefreshSucceededKeeps ==
  ASSUME NEW rec \in AccountRecord, NEW token \in TokenState, NEW t \in Nat
  PROVE  /\ Respects(rec, RefreshSucceeded(rec, token, t), t)
         /\ RefreshSucceeded(rec, token, t).refresh_in_flight = FALSE
<1> DEFINE new == RefreshSucceeded(rec, token, t)
<1>1. CASE HasActiveBlock(rec, t)
  <2>1. new = [rec EXCEPT !.token = token, !.refresh_in_flight = FALSE]
    BY <1>1 DEF RefreshSucceeded
  <2> QED
    BY <2>1, RefreshSucceededType, SameBlock DEF AccountRecord, Keeps
<1>2. CASE ~HasActiveBlock(rec, t)
  <2>1. new = [ClearBlock([rec EXCEPT !.token = token, !.refresh_in_flight = FALSE])
                 EXCEPT !.routing_state = "ready", !.local_backoff_level = 0]
    BY <1>2 DEF RefreshSucceeded
  <2>2. /\ new.blocked_until = NoTime /\ new.blocked_reason = "none"
        /\ new.refresh_in_flight = FALSE
    BY <2>1 DEF ClearBlock, AccountRecord
  <2>3. ~(rec.blocked_until > t)
    BY <1>2 DEF HasActiveBlock, AccountRecord, NoTime
  <2> QED
    BY <2>2, <2>3 DEF Respects, Consistent, NotShortened, HasActiveBlock, NoTime
<1> QED
  BY <1>1, <1>2

LEMMA RetireKeeps ==
  ASSUME NEW rec \in AccountRecord, NEW t \in Nat
  PROVE  /\ Respects(rec, PrepareAuthInvalid(rec), t)
         /\ PrepareAuthInvalid(rec).refresh_in_flight = FALSE
         /\ Respects(rec, FinalizeAuthInvalid(rec), t)
         /\ FinalizeAuthInvalid(rec).refresh_in_flight = rec.refresh_in_flight
<1>1. \A old \in AccountRecord :
        /\ AuthInvalidRecord(old).routing_state = "auth_invalid"
        /\ AuthInvalidRecord(old).blocked_reason = "auth_invalid"
        /\ AuthInvalidRecord(old).refresh_in_flight = old.refresh_in_flight
  BY DEF AuthInvalidRecord, AuthInvalidBlock, AccountRecord
<1>2. /\ PrepareAuthInvalid(rec).routing_state = "auth_invalid"
      /\ PrepareAuthInvalid(rec).blocked_reason = "auth_invalid"
      /\ PrepareAuthInvalid(rec).refresh_in_flight = FALSE
  BY <1>1, SettlesSame DEF PrepareAuthInvalid
<1>3. /\ FinalizeAuthInvalid(rec).routing_state = "auth_invalid"
      /\ FinalizeAuthInvalid(rec).blocked_reason = "auth_invalid"
      /\ FinalizeAuthInvalid(rec).refresh_in_flight = rec.refresh_in_flight
  BY <1>1, AuthInvalidRecordType DEF FinalizeAuthInvalid, Keeps, AccountRecord
<1> QED
  BY <1>2, <1>3 DEF Respects, Consistent, NotShortened

\* An expired block is cleared; the mark, the count and the attachment stay.
LEMMA ExpiredFields ==
  ASSUME NEW rec \in AccountRecord, NEW t \in Nat
  PROVE  LET new == ExpireBlock(rec, t)
             expired == rec.blocked_until # NoTime /\ rec.blocked_until <= t
         IN  /\ new.refresh_in_flight = rec.refresh_in_flight
             /\ new.detached = rec.detached
             /\ expired => new.blocked_until = NoTime /\ new.blocked_reason = "none"
             /\ ~expired => /\ new.blocked_until = rec.blocked_until
                            /\ new.blocked_reason = rec.blocked_reason
                            /\ rec.routing_state \in {new.routing_state, "cold"}
             /\ new.routing_state = "auth_invalid" <=> rec.routing_state = "auth_invalid"
<1> DEFINE expired == rec.blocked_until # NoTime /\ rec.blocked_until <= t
           cleared == IF expired THEN ClearBlock(rec) ELSE rec
           settled == IF /\ expired
                         /\ rec.routing_state # "auth_invalid"
                         /\ ~rec.refresh_in_flight
                      THEN [cleared EXCEPT !.routing_state = IdleState(rec)]
                      ELSE cleared
           new == ExpireBlock(rec, t)
<1>1. new = IF settled.routing_state = "cold" /\ settled.token # "none"
            THEN [settled EXCEPT !.routing_state = "ready"] ELSE settled
  BY DEF ExpireBlock
<1>2. /\ cleared \in AccountRecord
      /\ cleared.refresh_in_flight = rec.refresh_in_flight
      /\ cleared.detached = rec.detached
      /\ cleared.routing_state = rec.routing_state
      /\ expired => cleared.blocked_until = NoTime /\ cleared.blocked_reason = "none"
      /\ ~expired => cleared = rec
  BY ClearBlockType DEF Keeps, ClearBlock, AccountRecord
<1> HIDE DEF cleared
<1>3. /\ settled \in AccountRecord
      /\ settled.refresh_in_flight = rec.refresh_in_flight
      /\ settled.detached = rec.detached
      /\ settled.blocked_until = cleared.blocked_until
      /\ settled.blocked_reason = cleared.blocked_reason
      /\ settled.routing_state = "auth_invalid" <=> rec.routing_state = "auth_invalid"
      /\ ~expired => settled = rec
  BY <1>2, IdleStateType, SetStateType DEF Keeps, AccountRecord, IdleState
<1> HIDE DEF settled
<1>4. /\ new.refresh_in_flight = rec.refresh_in_flight
      /\ new.detached = rec.detached
      /\ new.blocked_until = cleared.blocked_until
      /\ new.blocked_reason = cleared.blocked_reason
      /\ settled.routing_state \in {new.routing_state, "cold"}
      /\ new.routing_state = "auth_invalid" <=> settled.routing_state = "auth_invalid"
  BY <1>1, <1>3 DEF AccountRecord
<1> QED
  BY <1>2, <1>3, <1>4

LEMMA ExpiryKeeps ==
  ASSUME NEW rec \in AccountRecord, NEW t \in Nat
  PROVE  LET new == ExpireBlock(rec, t)
         IN  /\ Respects(rec, new, t)
             /\ new.refresh_in_flight = rec.refresh_in_flight
             /\ new.detached = rec.detached
<1> DEFINE new == ExpireBlock(rec, t)
<1>1. CASE rec.blocked_until # NoTime /\ rec.blocked_until <= t
  BY <1>1, ExpiredFields
  DEF Respects, Consistent, NotShortened, HasActiveBlock, AccountRecord, NoTime
<1>2. CASE ~(rec.blocked_until # NoTime /\ rec.blocked_until <= t)
  BY <1>2, ExpiredFields
  DEF Respects, Consistent, NotShortened, HasActiveBlock, AccountRecord, NoTime
<1> QED
  BY <1>1, <1>2

LEMMA SelectionKeeps ==
  ASSUME NEW rec \in AccountRecord, NEW t \in Nat
  PROVE  LET new == Selected(ExpireBlock(rec, t))
         IN  /\ Respects(rec, new, t)
             /\ new.detached = rec.detached
             /\ new.in_flight_requests > 0
             /\ \/ new.refresh_in_flight = rec.refresh_in_flight
                \/ NeedsRefresh(ExpireBlock(rec, t))
<1> DEFINE mid == ExpireBlock(rec, t)
           new == Selected(mid)
<1>1. /\ mid \in AccountRecord /\ Respects(rec, mid, t)
      /\ mid.refresh_in_flight = rec.refresh_in_flight /\ mid.detached = rec.detached
  BY ExpiryKeeps, ExpireBlockType DEF Keeps
<1> HIDE DEF mid
<1>2. /\ new.blocked_until = mid.blocked_until /\ new.blocked_reason = mid.blocked_reason
      /\ new.routing_state \in {mid.routing_state, "warming"}
      /\ new.detached = mid.detached
      /\ new.in_flight_requests = mid.in_flight_requests + 1
      /\ new.refresh_in_flight = mid.refresh_in_flight \/ NeedsRefresh(mid)
  BY <1>1 DEF Selected, AccountRecord
<1>3. Respects(rec, new, t)
  BY <1>1, <1>2 DEF Respects, Consistent, NotShortened, HasActiveBlock
<1>4. new.in_flight_requests > 0
  BY <1>1, <1>2 DEF AccountRecord
<1> QED
  BY <1>1, <1>2, <1>3, <1>4 DEF mid

\* Wake clears a block, and says ready of an account that has none then.
LEMMA WakeKeeps ==
  ASSUME NEW rec \in AccountRecord, NEW t \in Nat
  PROVE  LET new == Wake(rec)
         IN  /\ Consistent(rec, t) => Consistent(new, t)
             /\ new.refresh_in_flight = rec.refresh_in_flight
             /\ new.detached = rec.detached
             /\ new.in_flight_requests = rec.in_flight_requests
<1>1. CASE rec.routing_state = "auth_invalid" \/ rec.blocked_reason = "auth_invalid"
  BY <1>1 DEF Wake
<1>2. CASE ~(rec.routing_state = "auth_invalid" \/ rec.blocked_reason = "auth_invalid")
  <2>1. Wake(rec).blocked_until = NoTime /\ Wake(rec).blocked_reason = "none"
    BY <1>2 DEF Wake, ClearBlock, AccountRecord
  <2>2. /\ Wake(rec).refresh_in_flight = rec.refresh_in_flight
        /\ Wake(rec).detached = rec.detached
        /\ Wake(rec).in_flight_requests = rec.in_flight_requests
    BY <1>2 DEF Wake, ClearBlock, AccountRecord
  <2> QED
    BY <2>1, <2>2 DEF Consistent, HasActiveBlock, NoTime
<1> QED
  BY <1>1, <1>2

\* What concerns neither the block nor the state.
LEMMA OthersKeep ==
  ASSUME NEW rec \in AccountRecord, NEW t \in Nat
  PROVE  /\ Respects(rec, rec, t)
         /\ Respects(rec, [rec EXCEPT !.detached = TRUE], t)
         /\ Respects(rec, Reattached(rec), t)
         /\ Respects(rec, [rec EXCEPT !.token = "stale"], t)
         /\ Consistent(ColdRecord, t)
<1>1. /\ rec \in AccountRecord /\ [rec EXCEPT !.detached = TRUE] \in AccountRecord
      /\ Reattached(rec) \in AccountRecord
      /\ [rec EXCEPT !.token = "stale"] \in AccountRecord
  BY DetachedTypes DEF Keeps, AccountRecord, TokenState
<1>2. Consistent(ColdRecord, t)
  BY DEF Consistent, ColdRecord, HasActiveBlock
<1>3. \A new \in {rec, [rec EXCEPT !.detached = TRUE], Reattached(rec),
                 [rec EXCEPT !.token = "stale"]} :
        /\ new.blocked_until = rec.blocked_until
        /\ new.blocked_reason = rec.blocked_reason
        /\ new.routing_state = rec.routing_state
  BY DEF Reattached, AccountRecord
<1> QED
  BY <1>1, <1>2, <1>3, SameBlock

-----------------------------------------------------------------------------
(* One step *)

\* The other requests do not notice.
Alone(r) ==
  \A s \in Requests \ {r} : pc'[s] = pc[s] /\ acct'[s] = acct[s]

LEMMA OneRequestMoves ==
  ASSUME IndInv, NEW r \in Requests, Request(r)
  PROVE  Alone(r)
<1> USE DEF IndInv, RequestsType, Alone
<1>1. CASE Select(r)
  BY <1>1 DEF Select, Goto
<1>2. CASE NoCandidate(r) \/ FinishRefresh(r) \/ PrepareRetire(r) \/ FinalizeRetire(r)
  BY <1>2 DEF NoCandidate, FinishRefresh, PrepareRetire, FinalizeRetire, Continue,
     TryAnother, Finish, Goto
<1>3. CASE RefreshOk(r) \/ RefreshInvalid(r) \/ Persisted(r) \/ Lookup(r) \/ ExecuteOk(r)
  BY <1>3 DEF RefreshOk, RefreshInvalid, Persisted, Lookup, ExecuteOk, Continue, Goto
<1>4. CASE RefreshFails(r) \/ ExecuteFails(r)
  BY <1>4 DEF RefreshFails, ExecuteFails, TryAnother, Finish, Goto
<1>5. CASE TrashFails(r) \/ ReleaseUnusable(r) \/ RejectedAgain(r) \/ SettleHeld(r)
  BY <1>5 DEF TrashFails, ReleaseUnusable, RejectedAgain, SettleHeld, TryAnother, Finish, Goto
<1>6. CASE ForceRefresh(r) \/ DecodeFails(r) \/ Disconnect(r)
  BY <1>6 DEF ForceRefresh, DecodeFails, Disconnect, Goto
<1> QED
  BY <1>1, <1>2, <1>3, <1>4, <1>5, <1>6 DEF Request, Step

LEMMA SettledRecord ==
  ASSUME IndInv, NEW b, NEW rec, Settle(b, rec)
  PROVE  /\ DOMAIN records' \subseteq DOMAIN records
         /\ b \in DOMAIN records' => records'[b] = rec /\ ~IsRemovable(rec)
         /\ \A a \in DOMAIN records' \ {b} : records'[a] = records[a]
<1>1. CASE b \notin DOMAIN records
  BY <1>1 DEF Settle
<1>2. CASE b \in DOMAIN records
  <2>1. records' = Stored(b, rec)
    BY <1>2 DEF Settle
  <2>2. CASE IsRemovable(rec)
    BY <2>1, <2>2 DEF Stored
  <2>3. CASE ~IsRemovable(rec)
    <3>1. records' = [records EXCEPT ![b] = rec]
      BY <2>1, <2>3 DEF Stored
    <3> QED
      BY <1>2, <2>3, <3>1
  <2> QED
    BY <2>2, <2>3
<1> QED
  BY <1>1, <1>2

\* What a settlement leaves: the block respected and the mark cleared, and the record
\* only if somebody uses it; the other records as they are.
Settled(b) ==
  /\ DOMAIN records' \subseteq DOMAIN records
  /\ b \in DOMAIN records' =>
       /\ Respects(records[b], records'[b], now)
       /\ records'[b].refresh_in_flight = FALSE
       /\ ~IsRemovable(records'[b])
  /\ \A a \in DOMAIN records' \ {b} : records'[a] = records[a]

LEMMA SettledBy ==
  ASSUME IndInv, NEW b, NEW rec, Settle(b, rec),
         b \in DOMAIN records => /\ Respects(records[b], rec, now)
                                 /\ rec.refresh_in_flight = FALSE
  PROVE  Settled(b)
  BY SettledRecord DEF Settled

LEMMA SettlementsSettle ==
  ASSUME IndInv, NEW r \in Requests,
         \/ RefreshFails(r) \/ ReleaseUnusable(r) \/ ForceRefresh(r) \/ RejectedAgain(r)
         \/ ExecuteFails(r) \/ SettleHeld(r) \/ DecodeFails(r) \/ FinishRefresh(r)
  PROVE  Settled(acct[r])
<1> DEFINE a == acct[r]
           old == records[acct[r]]
<1>1. now \in Nat /\ (a \in DOMAIN records => old \in AccountRecord)
  BY DEF IndInv, StoreType, RecordsCount, Keeps
<1>2. \A retryAfter \in RetryAfters \cup {NoTime} : retryAfter \in Nat \cup {NoTime}
  BY PoolAssumption
<1>3. /\ Failures \cap RefreshFailure \subseteq FailureClass
      /\ Failures \cap RequestFailure \subseteq FailureClass
      /\ {"temporary_failure", "access_token_rejected"} \subseteq FailureClass
  BY PoolAssumption DEF RefreshFailure, RequestFailure, FailureClass
<1> HIDE DEF a, old
<1>4. ASSUME NEW class \in FailureClass, NEW retryAfter \in RetryAfters \cup {NoTime},
             Settle(a, ApplyFailure(old, class, retryAfter, now))
      PROVE  Settled(a)
  <2>1. a \in DOMAIN records =>
          /\ Respects(old, ApplyFailure(old, class, retryAfter, now), now)
          /\ ApplyFailure(old, class, retryAfter, now).refresh_in_flight = FALSE
    BY <1>1, <1>2, ApplyFailureKeeps
  <2> QED
    BY <1>4, <2>1, SettledBy DEF a, old
<1>5. ASSUME Settle(a, ReleaseSelection(InvalidateAccessToken(old, now), now))
      PROVE  Settled(a)
  BY <1>1, <1>5, InvalidatedKeep, SettledBy DEF a, old
<1>6. CASE RefreshFails(r) \/ ExecuteFails(r)
  BY <1>3, <1>4, <1>6 DEF RefreshFails, ExecuteFails, a, old
<1>7. CASE ReleaseUnusable(r) \/ ForceRefresh(r)
  BY <1>5, <1>7 DEF ReleaseUnusable, ForceRefresh, a, old
<1>8. CASE RejectedAgain(r)
  BY <1>1, <1>8, InvalidatedKeep, SettledBy DEF RejectedAgain, a, old
<1>9. CASE DecodeFails(r)
  BY <1>3, <1>4, <1>9 DEF DecodeFails, a, old
<1>10. CASE SettleHeld(r)
  <2>1. CASE Settle(a, MarkRequestSuccess(old, now)) \/ Settle(a, ReleaseSelection(old, now))
    BY <1>1, <2>1, SettledKeep, SettledBy DEF a, old
  <2> QED
    BY <1>3, <1>4, <1>10, <2>1 DEF SettleHeld, a, old
<1>11. CASE FinishRefresh(r)
  <2>1. CASE a \notin DOMAIN records
    BY <1>11, <2>1 DEF FinishRefresh, Settled, a
  <2>2. CASE a \in DOMAIN records
    <3>1. PICK token \in TokenState : Settle(a, RefreshSucceeded(old, token, now))
      BY <1>11, <2>2 DEF FinishRefresh, a, old
    <3> QED
      BY <1>1, <3>1, RefreshSucceededKeeps, SettledBy DEF a, old
  <2> QED
    BY <2>1, <2>2
<1> QED
  BY <1>6, <1>7, <1>8, <1>9, <1>10, <1>11 DEF a

-----------------------------------------------------------------------------
(* Blocks *)

\* A sweep over the expired blocks, with one account selected or none.
LEMMA SweepsRespect ==
  ASSUME IndInv, NEW r \in Requests, Select(r) \/ NoCandidate(r)
  PROVE  /\ DOMAIN records' = DOMAIN records
         /\ \A a \in DOMAIN records' : Respects(records[a], records'[a], now)
<1>1. now \in Nat /\ \A a \in DOMAIN records : records[a] \in AccountRecord
  BY DEF IndInv, StoreType, RecordsCount, Keeps
<1>2. /\ DOMAIN Expired = DOMAIN records
      /\ \A a \in DOMAIN records : Expired[a] = ExpireBlock(records[a], now)
  BY DEF Expired
<1>3. CASE NoCandidate(r)
  BY <1>1, <1>2, <1>3, ExpiryKeeps DEF NoCandidate
<1>4. CASE Select(r)
  <2>1. PICK a \in DOMAIN records : records' = [Expired EXCEPT ![a] = Selected(Expired[a])]
    BY <1>4 DEF Select, Candidates
  <2>2. /\ DOMAIN records' = DOMAIN records
        /\ records'[a] = Selected(ExpireBlock(records[a], now))
        /\ \A b \in DOMAIN records \ {a} : records'[b] = ExpireBlock(records[b], now)
    BY <1>2, <2>1
  <2> QED
    BY <1>1, <2>2, ExpiryKeeps, SelectionKeeps
<1> QED
  BY <1>3, <1>4

LEMMA RequestsRespect ==
  ASSUME IndInv, NEW r \in Requests, Request(r)
  PROVE  /\ now' = now /\ DOMAIN records' \subseteq DOMAIN records
         /\ \A a \in DOMAIN records' : Respects(records[a], records'[a], now)
<1>1. now \in Nat /\ \A a \in DOMAIN records : records[a] \in AccountRecord
  BY DEF IndInv, StoreType, RecordsCount, Keeps
<1>2. \A a \in DOMAIN records : Respects(records[a], records[a], now)
  BY <1>1, OthersKeep
<1>3. CASE Select(r) \/ NoCandidate(r)
  BY <1>3, SweepsRespect DEF Select, NoCandidate
<1>4. CASE RefreshOk(r) \/ RefreshInvalid(r) \/ Persisted(r) \/ Lookup(r) \/ ExecuteOk(r)
           \/ TrashFails(r) \/ Disconnect(r)
  <2>1. records' = records /\ now' = now
    BY <1>4 DEF RefreshOk, RefreshInvalid, Persisted, Lookup, ExecuteOk, TrashFails,
       Disconnect, store
  <2> QED
    BY <1>2, <2>1
<1>5. CASE \/ RefreshFails(r) \/ ReleaseUnusable(r) \/ ForceRefresh(r) \/ RejectedAgain(r)
           \/ ExecuteFails(r) \/ SettleHeld(r) \/ DecodeFails(r) \/ FinishRefresh(r)
  <2>1. Settled(acct[r])
    BY <1>5, SettlementsSettle
  <2>2. now' = now
    BY <1>5 DEF RefreshFails, ReleaseUnusable, ForceRefresh, RejectedAgain, ExecuteFails,
       SettleHeld, DecodeFails, FinishRefresh
  <2> QED
    BY <1>2, <2>1, <2>2 DEF Settled
<1>6. CASE PrepareRetire(r)
  <2>1. CASE acct[r] \in DOMAIN records
    <3>1. records' = [records EXCEPT ![acct[r]] = PrepareAuthInvalid(records[acct[r]])]
      BY <1>6, <2>1 DEF PrepareRetire
    <3>2. Respects(records[acct[r]], PrepareAuthInvalid(records[acct[r]]), now)
      BY <1>1, <2>1, RetireKeeps
    <3> QED
      BY <1>2, <1>6, <2>1, <3>1, <3>2 DEF PrepareRetire
  <2>2. CASE acct[r] \notin DOMAIN records
    BY <1>2, <1>6, <2>2 DEF PrepareRetire
  <2> QED
    BY <2>1, <2>2
<1>7. CASE FinalizeRetire(r)
  <2>1. Settle(acct[r], FinalizeAuthInvalid(records[acct[r]])) /\ now' = now
    BY <1>7 DEF FinalizeRetire
  <2>2. acct[r] \in DOMAIN records =>
          Respects(records[acct[r]], FinalizeAuthInvalid(records[acct[r]]), now)
    BY <1>1, RetireKeeps
  <2> QED
    BY <1>2, <2>1, <2>2, SettledRecord
<1> QED
  BY <1>3, <1>4, <1>5, <1>6, <1>7 DEF Request, Step

\* What a step does to the block of an account, whoever makes it.
LEMMA EachRecord ==
  ASSUME IndInv, Next
  PROVE  /\ now' = now \/ Tick
         /\ \A a \in DOMAIN records \cap DOMAIN records' :
              /\ Consistent(records[a], now) => Consistent(records'[a], now)
              /\ \/ NotShortened(records[a], records'[a], now)
                 \/ WakeAll \/ WakeAccount(a)
         /\ \A a \in DOMAIN records' \ DOMAIN records : Consistent(records'[a], now)
<1>1. now \in Nat /\ \A a \in DOMAIN records : records[a] \in AccountRecord
  BY DEF IndInv, StoreType, RecordsCount, Keeps
<1>2. \A a \in DOMAIN records : Respects(records[a], records[a], now)
  BY <1>1, OthersKeep
<1>3. CASE \E r \in Requests : Request(r)
  BY <1>3, RequestsRespect DEF Respects
<1>4. CASE ListAccounts
  <2>1. /\ DOMAIN records' = DOMAIN records /\ now' = now
        /\ \A a \in DOMAIN records : records'[a] = ExpireBlock(records[a], now)
    BY <1>4 DEF ListAccounts, Expired
  <2> QED
    BY <1>1, <2>1, ExpiryKeeps DEF Respects
<1>5. CASE WakeAll
  <2>1. /\ DOMAIN records' = DOMAIN records /\ now' = now
        /\ \A a \in DOMAIN records : records'[a] = Wake(records[a])
    BY <1>5 DEF WakeAll
  <2> QED
    BY <1>1, <1>5, <2>1, WakeKeeps
<1>6. ASSUME NEW b \in Accounts, WakeAccount(b)
      PROVE  /\ now' = now /\ DOMAIN records' = DOMAIN records
             /\ \A a \in DOMAIN records :
                  /\ Consistent(records[a], now) => Consistent(records'[a], now)
                  /\ NotShortened(records[a], records'[a], now) \/ WakeAccount(a)
  <2>1. /\ DOMAIN records' = DOMAIN records /\ now' = now /\ b \in DOMAIN records
        /\ records'[b] = Wake(records[b])
        /\ \A a \in DOMAIN records \ {b} : records'[a] = records[a]
    BY <1>6 DEF WakeAccount
  <2> QED
    BY <1>1, <1>2, <1>6, <2>1, WakeKeeps DEF Respects
<1>7. CASE RemoveApply
  <2>1. Settle(removing, [records[removing] EXCEPT !.detached = TRUE]) /\ now' = now
    BY <1>7 DEF RemoveApply
  <2>2. removing \in DOMAIN records =>
          Respects(records[removing], [records[removing] EXCEPT !.detached = TRUE], now)
    BY <1>1, OthersKeep
  <2> QED
    BY <1>2, <2>1, <2>2, SettledRecord DEF Respects
<1>8. CASE RemoveFails \/ \E a \in Accounts : RemoveBegin(a)
  BY <1>2, <1>8 DEF RemoveFails, RemoveBegin, Respects
<1>9. ASSUME NEW b \in Accounts, Register(b)
      PROVE  /\ now' = now
             /\ \A a \in DOMAIN records \cap DOMAIN records' :
                  Respects(records[a], records'[a], now)
             /\ \A a \in DOMAIN records' \ DOMAIN records : Consistent(records'[a], now)
  <2>1. /\ DOMAIN records' = DOMAIN records \cup {b} /\ now' = now
        /\ \A a \in DOMAIN records \ {b} : records'[a] = records[a]
        /\ b \in DOMAIN records => records'[b] = Reattached(records[b])
        /\ b \notin DOMAIN records => records'[b] = ColdRecord
    BY <1>9 DEF Register
  <2>2. b \in DOMAIN records => Respects(records[b], records'[b], now)
    BY <1>1, <2>1, OthersKeep
  <2>3. ASSUME NEW a \in DOMAIN records
        PROVE  Respects(records[a], records'[a], now)
    BY <1>2, <2>1, <2>2
  <2>4. Consistent(ColdRecord, now)
    BY <1>1, ColdRecordType, OthersKeep DEF Keeps
  <2> QED
    BY <2>1, <2>3, <2>4
<1>10. CASE Administration
  BY <1>4, <1>5, <1>6, <1>7, <1>8, <1>9, <1>10 DEF Administration, Respects
<1>11. CASE \E b \in Accounts : TokenAges(b)
  <2>1. PICK b \in Accounts : TokenAges(b)
    BY <1>11
  <2>2. /\ DOMAIN records' = DOMAIN records /\ now' = now /\ b \in DOMAIN records
        /\ records'[b] = [records[b] EXCEPT !.token = "stale"]
        /\ \A a \in DOMAIN records \ {b} : records'[a] = records[a]
    BY <2>1 DEF TokenAges
  <2> QED
    BY <1>1, <1>2, <2>2, OthersKeep DEF Respects
<1>12. CASE Tick
  BY <1>2, <1>12 DEF Tick, Respects
<1> QED
  BY <1>3, <1>10, <1>11, <1>12 DEF Next

\* Time only ends blocks.
LEMMA ReadyStep ==
  ASSUME IndInv, ReadyMeansUnblocked, [Next]_vars
  PROVE  ReadyMeansUnblocked'
<1>1. \A a \in DOMAIN records : Consistent(records[a], now)
  BY DEF ReadyMeansUnblocked, Consistent
<1>2. CASE Next /\ now' = now
  <2>1. \A a \in DOMAIN records' : Consistent(records'[a], now)
    BY <1>1, <1>2, EachRecord
  <2> QED
    BY <1>2, <2>1 DEF ReadyMeansUnblocked, Consistent
<1>3. CASE Tick
  <2>1. now \in Nat /\ \A a \in DOMAIN records : records[a] \in AccountRecord
    BY DEF IndInv, StoreType, RecordsCount, Keeps
  <2>2. now' = now + 1 /\ records' = records
    BY <1>3 DEF Tick
  <2>3. \A a \in DOMAIN records :
          HasActiveBlock(records[a], now + 1) => HasActiveBlock(records[a], now)
    BY <2>1 DEF HasActiveBlock, AccountRecord, NoTime
  <2> QED
    BY <1>1, <2>2, <2>3 DEF ReadyMeansUnblocked, Consistent
<1>4. CASE UNCHANGED vars
  BY <1>4 DEF vars, ReadyMeansUnblocked
<1> QED
  BY <1>2, <1>3, <1>4, EachRecord

\* The routing state and the block never disagree, whichever settlements, refreshes,
\* expiries and wakes interleave (OPERATIONS.md on what ready means).
THEOREM ReadyIsUnblocked == Spec => []ReadyMeansUnblocked
<1>1. Init => ReadyMeansUnblocked
  BY DEF Init, ReadyMeansUnblocked, ColdRecord, HasActiveBlock
<1> QED
  BY <1>1, ReadyStep, Invariance, PTL DEF Spec

\* No success, late failure, refresh or expiry shortens a running block
\* (apply_block_transition, over every caller).
THEOREM BlocksRunOut == Spec => BlockNotCutShort
<1>1. IndInv /\ [Next]_vars =>
        [\A a \in DOMAIN records \cap DOMAIN records' :
           records[a].blocked_until > now =>
             \/ records'[a].blocked_until >= records[a].blocked_until
             \/ records'[a].blocked_reason = "auth_invalid"
             \/ WakeAll \/ WakeAccount(a)]_vars
  BY EachRecord DEF NotShortened
<1> QED
  BY <1>1, Invariance, PTL DEF Spec, BlockNotCutShort

-----------------------------------------------------------------------------
(* Retirements *)

\* Whoever writes an account's file, or moves it to trash/, has the disk lock.
LockHeld ==
  \A r \in Requests : pc[r] \in {"persist", "trash"} => diskLock = r

\* The account is known, and backed by a file.
Attached(a) == a \in DOMAIN records /\ ~records[a].detached

\* No operation on a record detaches it, but the end of a retirement and a deletion.
LEMMA UnheldStays ==
  ASSUME NEW rec \in AccountRecord, NEW class \in FailureClass, NEW t \in Nat,
         NEW retryAfter \in Nat \cup {NoTime}
  PROVE  ApplyFailure(rec, class, retryAfter, t).detached = rec.detached
<1> DEFINE In(s) == [Unheld(rec) EXCEPT !.routing_state = s]
<1>1. /\ Unheld(rec) \in AccountRecord
      /\ Unheld(rec).detached = rec.detached
  BY UnheldType DEF Unheld, AccountRecord, Keeps
<1>2. \A s \in RoutingState :
        /\ In(s) \in AccountRecord
        /\ In(s).detached = rec.detached
        /\ [In(s) EXCEPT !.token = "none"] \in AccountRecord
        /\ [In(s) EXCEPT !.token = "none"].detached = rec.detached
  <2> HIDE DEF Unheld
  <2>1. \A s \in RoutingState : In(s) \in AccountRecord /\ In(s).detached = rec.detached
    BY <1>1 DEF AccountRecord
  <2> HIDE DEF In
  <2> QED
    BY <2>1, DropTokenType DEF AccountRecord, Keeps
<1>3. \A old \in AccountRecord, reason \in BlockedReason, until \in Nat :
        TimedBlock(old, reason, until, t).detached = old.detached
  BY DEF TimedBlock, AccountRecord
<1>4. \A old \in AccountRecord, reason \in BlockedReason :
        RetryableBlock(old, reason, retryAfter, t).detached = old.detached
  <2> SUFFICES ASSUME NEW old \in AccountRecord, NEW reason \in BlockedReason
               PROVE  RetryableBlock(old, reason, retryAfter, t).detached = old.detached
    OBVIOUS
  <2> DEFINE raised == [old EXCEPT !.local_backoff_level =
                          IF old.local_backoff_level < LevelMax
                          THEN old.local_backoff_level + 1 ELSE LevelMax]
  <2>1. raised \in AccountRecord /\ raised.detached = old.detached
    BY CooldownAssumption DEF AccountRecord
  <2>2. old.local_backoff_level \in Nat
    BY CooldownAssumption DEF AccountRecord
  <2>3. t + NextLocalBackoff(old.local_backoff_level) \in Nat
    BY <2>2, BackoffType, CooldownAssumption
  <2>4. CASE retryAfter = NoTime
    <3>1. RetryableBlock(old, reason, retryAfter, t)
            = TimedBlock(raised, reason, t + NextLocalBackoff(old.local_backoff_level), t)
      BY <2>4 DEF RetryableBlock
    <3> HIDE DEF raised
    <3> QED
      BY <1>3, <2>1, <2>3, <3>1
  <2>5. CASE retryAfter # NoTime
    <3>1. t + retryAfter \in Nat
      BY <2>5
    <3> QED
      BY <1>3, <2>5, <3>1 DEF RetryableBlock
  <2> QED
    BY <2>4, <2>5
<1>5. /\ \A reason \in {"rate_limited", "quota_exhausted", "risk_controlled",
                        "temporarily_unavailable"} : reason \in BlockedReason
      /\ \A s \in {"temporarily_unavailable", "auth_invalid", "cooldown",
                   "risk_controlled", IdleState(rec)} : s \in RoutingState
      /\ t + TemporaryCooldown \in Nat /\ t + RiskCooldown \in Nat
  BY IdleStateType, CooldownAssumption DEF BlockedReason, RoutingState
<1> HIDE DEF In
<1>6. CASE class = "access_token_rejected"
  <2> DEFINE old == [In("temporarily_unavailable") EXCEPT !.token = "none"]
  <2>1. ApplyFailure(rec, class, retryAfter, t)
          = TimedBlock(old, "temporarily_unavailable", t + TemporaryCooldown, t)
    BY <1>6 DEF ApplyFailure, FixedBlock, In
  <2>2. old \in AccountRecord /\ old.detached = rec.detached
    BY <1>2, <1>5
  <2> HIDE DEF old
  <2> QED
    BY <1>3, <1>5, <2>1, <2>2
<1>7. CASE class = "auth_invalid"
  <2> DEFINE old == [In("auth_invalid") EXCEPT !.token = "none"]
  <2>1. ApplyFailure(rec, class, retryAfter, t) = AuthInvalidBlock(old)
    BY <1>7 DEF ApplyFailure, In
  <2>2. old \in AccountRecord /\ old.detached = rec.detached
    BY <1>2, <1>5
  <2> HIDE DEF old
  <2> QED
    BY <2>1, <2>2 DEF AuthInvalidBlock, AccountRecord
<1>8. CASE class \in {"rate_limited", "quota_exhausted"}
  <2> DEFINE old == In("cooldown")
  <2>1. ApplyFailure(rec, class, retryAfter, t) = RetryableBlock(old, class, retryAfter, t)
    BY <1>8 DEF ApplyFailure, In
  <2>2. old \in AccountRecord /\ old.detached = rec.detached /\ class \in BlockedReason
    BY <1>2, <1>5, <1>8
  <2> HIDE DEF old
  <2> QED
    BY <1>4, <2>1, <2>2
<1>9. CASE class = "risk_controlled"
  BY <1>2, <1>3, <1>5, <1>9 DEF ApplyFailure, FixedBlock, In
<1>10. CASE class = "temporary_failure"
  <2>1. CASE retryAfter # NoTime
    BY <1>2, <1>4, <1>5, <1>10, <2>1 DEF ApplyFailure, In
  <2>2. CASE retryAfter = NoTime
    <3> DEFINE old == In("temporarily_unavailable")
    <3>1. ApplyFailure(rec, class, retryAfter, t)
            = TimedBlock(old, "temporarily_unavailable", t + TemporaryCooldown, t)
      BY <1>10, <2>2 DEF ApplyFailure, FixedBlock, In
    <3>2. old \in AccountRecord /\ old.detached = rec.detached
      BY <1>2, <1>5
    <3> HIDE DEF old
    <3> QED
      BY <1>3, <1>5, <3>1, <3>2
  <2> QED
    BY <2>1, <2>2
<1>11. CASE class \notin {"access_token_rejected", "auth_invalid", "rate_limited",
                          "quota_exhausted", "risk_controlled", "temporary_failure"}
  <2>1. ApplyFailure(rec, class, retryAfter, t) \in {In(IdleState(rec)), Unheld(rec)}
    BY <1>11 DEF ApplyFailure, In
  <2> QED
    BY <1>1, <1>2, <1>5, <2>1
<1> QED
  BY <1>6, <1>7, <1>8, <1>9, <1>10, <1>11

LEMMA OthersStay ==
  ASSUME NEW rec \in AccountRecord, NEW t \in Nat
  PROVE  /\ MarkRequestSuccess(rec, t).detached = rec.detached
         /\ ReleaseSelection(rec, t).detached = rec.detached
         /\ InvalidateAccessToken(rec, t) \in AccountRecord
         /\ InvalidateAccessToken(rec, t).detached = rec.detached
         /\ \A token \in TokenState :
              RefreshSucceeded(rec, token, t).detached = rec.detached
         /\ PrepareAuthInvalid(rec).detached = rec.detached
         /\ Reattached(rec).detached => rec.detached
<1>1. Unheld(rec) \in AccountRecord /\ Unheld(rec).detached = rec.detached
  BY UnheldType DEF Unheld, AccountRecord, Keeps
<1>2. /\ MarkRequestSuccess(rec, t).detached = rec.detached
      /\ ReleaseSelection(rec, t).detached = rec.detached
      /\ PrepareAuthInvalid(rec).detached = rec.detached
  <2> HIDE DEF Unheld
  <2> QED
    BY <1>1 DEF MarkRequestSuccess, ReleaseSelection, PrepareAuthInvalid, AuthInvalidRecord,
       AuthInvalidBlock, AccountRecord
<1>3. /\ InvalidateAccessToken(rec, t) \in AccountRecord
      /\ InvalidateAccessToken(rec, t).detached = rec.detached
  BY InvalidateKeeps DEF InvalidateAccessToken, AccountRecord
<1>4. \A token \in TokenState : RefreshSucceeded(rec, token, t).detached = rec.detached
  BY DEF RefreshSucceeded, ClearBlock, AccountRecord
<1>5. Reattached(rec).detached => rec.detached
  BY DEF Reattached, AccountRecord
<1> QED
  BY <1>2, <1>3, <1>4, <1>5

\* A record rewritten without being detached is not dropped either.
LEMMA SettleStays ==
  ASSUME NEW b, NEW rec, Settle(b, rec),
         Attached(b) => ~rec.detached,
         NEW a, Attached(a)
  PROVE  Attached(a)'
<1>1. CASE b \notin DOMAIN records
  BY <1>1 DEF Settle, Attached
<1>2. CASE b \in DOMAIN records /\ IsRemovable(rec)
  <2>1. records' = [c \in DOMAIN records \ {b} |-> records[c]] /\ rec.detached
    BY <1>2 DEF Settle, Stored, IsRemovable
  <2> QED
    BY <2>1 DEF Attached
<1>3. CASE b \in DOMAIN records /\ ~IsRemovable(rec)
  <2>1. records' = [records EXCEPT ![b] = rec]
    BY <1>3 DEF Settle, Stored
  <2> QED
    BY <2>1 DEF Attached
<1> QED
  BY <1>1, <1>2, <1>3

LEMMA RequestsStayAttached ==
  ASSUME IndInv, NEW s \in Requests, Request(s), ~FinalizeRetire(s), NEW a, Attached(a)
  PROVE  Attached(a)'
<1> DEFINE b == acct[s]
           old == records[acct[s]]
<1>1. /\ now \in Nat /\ \A c \in DOMAIN records : records[c] \in AccountRecord
      /\ b \in DOMAIN records => old \in AccountRecord
  BY DEF IndInv, StoreType, RecordsCount, Keeps
<1>2. \A retryAfter \in RetryAfters \cup {NoTime} : retryAfter \in Nat \cup {NoTime}
  BY PoolAssumption
<1>3. /\ Failures \cap RefreshFailure \subseteq FailureClass
      /\ Failures \cap RequestFailure \subseteq FailureClass
      /\ {"temporary_failure", "access_token_rejected"} \subseteq FailureClass
      /\ NoTime \in RetryAfters \cup {NoTime}
  BY PoolAssumption DEF RefreshFailure, RequestFailure, FailureClass
<1>4. Attached(b) => b \in DOMAIN records /\ ~old.detached
  BY DEF Attached
<1> HIDE DEF b, old
<1>5. ASSUME NEW rec, Settle(b, rec), b \in DOMAIN records => rec.detached = old.detached
      PROVE  Attached(a)'
  BY <1>4, <1>5, SettleStays
<1>6. ASSUME NEW class \in FailureClass, NEW retryAfter \in RetryAfters \cup {NoTime},
             Settle(b, ApplyFailure(old, class, retryAfter, now))
      PROVE  Attached(a)'
  <2>1. b \in DOMAIN records =>
          ApplyFailure(old, class, retryAfter, now).detached = old.detached
    BY <1>1, <1>2, UnheldStays
  <2> QED
    BY <1>5, <1>6, <2>1
<1>7. CASE RefreshFails(s) \/ ExecuteFails(s) \/ DecodeFails(s)
  BY <1>3, <1>6, <1>7 DEF RefreshFails, ExecuteFails, DecodeFails, b, old
<1>8. CASE ReleaseUnusable(s) \/ ForceRefresh(s)
  <2> DEFINE rec == ReleaseSelection(InvalidateAccessToken(old, now), now)
  <2>1. Settle(b, rec)
    BY <1>8 DEF ReleaseUnusable, ForceRefresh, b, old
  <2>2. b \in DOMAIN records => rec.detached = old.detached
    BY <1>1, OthersStay
  <2> HIDE DEF rec
  <2> QED
    BY <1>5, <2>1, <2>2
<1>9. CASE RejectedAgain(s)
  <2> DEFINE bare == InvalidateAccessToken(old, now)
             rec == ApplyFailure(bare, "access_token_rejected", NoTime, now)
  <2>1. Settle(b, rec)
    BY <1>9 DEF RejectedAgain, b, old
  <2>2. b \in DOMAIN records => bare \in AccountRecord /\ bare.detached = old.detached
    BY <1>1, OthersStay
  <2> HIDE DEF bare
  <2>3. b \in DOMAIN records => rec.detached = old.detached
    BY <1>1, <1>2, <1>3, <2>2, UnheldStays
  <2> HIDE DEF rec
  <2> QED
    BY <1>5, <2>1, <2>3
<1>10. CASE SettleHeld(s)
  <2>1. CASE Settle(b, MarkRequestSuccess(old, now)) \/ Settle(b, ReleaseSelection(old, now))
    BY <1>1, <1>5, <2>1, OthersStay
  <2> QED
    BY <1>3, <1>6, <1>10, <2>1 DEF SettleHeld, b, old
<1>11. CASE FinishRefresh(s)
  <2>1. CASE b \notin DOMAIN records
    BY <1>11, <2>1 DEF FinishRefresh, Attached, b
  <2>2. CASE b \in DOMAIN records
    <3>1. PICK token \in TokenState : Settle(b, RefreshSucceeded(old, token, now))
      BY <1>11, <2>2 DEF FinishRefresh, b, old
    <3> QED
      BY <1>1, <1>5, <2>2, <3>1, OthersStay
  <2> QED
    BY <2>1, <2>2
<1>12. CASE PrepareRetire(s)
  <2>1. CASE b \in DOMAIN records
    <3>1. records' = [records EXCEPT ![b] = PrepareAuthInvalid(old)]
      BY <1>12, <2>1 DEF PrepareRetire, b, old
    <3>2. PrepareAuthInvalid(old).detached = old.detached
      BY <1>1, <2>1, OthersStay
    <3> QED
      BY <3>1, <3>2 DEF Attached, old, b
  <2>2. CASE b \notin DOMAIN records
    BY <1>12, <2>2 DEF PrepareRetire, Attached, b
  <2> QED
    BY <2>1, <2>2
<1>13. CASE Select(s) \/ NoCandidate(s)
  <2>1. DOMAIN records' = DOMAIN records
    BY <1>13, SweepsRespect
  <2>2. Expired[a].detached = records[a].detached
    BY <1>1, ExpiryKeeps DEF Expired, Attached
  <2>3. CASE NoCandidate(s)
    BY <2>1, <2>2, <2>3 DEF NoCandidate, Attached
  <2>4. CASE Select(s)
    <3>1. PICK c \in DOMAIN records : records' = [Expired EXCEPT ![c] = Selected(Expired[c])]
      BY <2>4 DEF Select, Candidates
    <3>2. CASE a = c
      <4>1. records'[a] = Selected(ExpireBlock(records[a], now))
        BY <3>1, <3>2 DEF Expired
      <4> QED
        BY <1>1, <2>1, <4>1, SelectionKeeps DEF Attached
    <3>3. CASE a # c
      BY <2>1, <2>2, <3>1, <3>3 DEF Attached, Expired
    <3> QED
      BY <3>2, <3>3
  <2> QED
    BY <1>13, <2>3, <2>4
<1>14. CASE RefreshOk(s) \/ RefreshInvalid(s) \/ Persisted(s) \/ Lookup(s) \/ ExecuteOk(s)
            \/ TrashFails(s) \/ Disconnect(s)
  BY <1>14 DEF RefreshOk, RefreshInvalid, Persisted, Lookup, ExecuteOk, TrashFails,
     Disconnect, store, Attached
<1> QED
  BY <1>7, <1>8, <1>9, <1>10, <1>11, <1>12, <1>13, <1>14 DEF Request, Step

\* Outside the requests, only a deletion detaches, and it needs the disk lock.
LEMMA AdministrationStaysAttached ==
  ASSUME IndInv, diskLock # Admin, NEW a, Attached(a),
         Administration \/ (\E c \in Accounts : TokenAges(c)) \/ Tick \/ UNCHANGED vars
  PROVE  Attached(a)'
<1>1. now \in Nat /\ \A c \in DOMAIN records : records[c] \in AccountRecord
  BY DEF IndInv, StoreType, RecordsCount, Keeps
<1>2. a \in DOMAIN records /\ ~records[a].detached
  BY DEF Attached
<1>3. CASE ListAccounts
  BY <1>1, <1>2, <1>3, ExpiryKeeps DEF ListAccounts, Expired, Attached
<1>4. CASE WakeAll
  BY <1>1, <1>2, <1>4, WakeKeeps DEF WakeAll, Attached
<1>5. CASE \E c \in Accounts : WakeAccount(c)
  <2>1. PICK c \in DOMAIN records : records' = [records EXCEPT ![c] = Wake(records[c])]
    BY <1>5 DEF WakeAccount
  <2>2. Wake(records[c]).detached = records[c].detached
    BY <1>1, WakeKeeps
  <2> QED
    BY <1>2, <2>1, <2>2 DEF Attached
<1>6. CASE \E c \in Accounts : Register(c)
  <2>1. PICK c \in Accounts : Register(c)
    BY <1>6
  <2>2. /\ DOMAIN records' = DOMAIN records \cup {c}
        /\ records'[a] \in {records[a], Reattached(records[a])}
    BY <1>2, <2>1 DEF Register
  <2> QED
    BY <1>1, <1>2, <2>2, OthersStay DEF Attached
<1>7. CASE \E c \in Accounts : TokenAges(c)
  <2>1. PICK c \in DOMAIN records : records' = [records EXCEPT ![c].token = "stale"]
    BY <1>7 DEF TokenAges
  <2> QED
    BY <1>1, <1>2, <2>1 DEF Attached, AccountRecord
<1>8. CASE RemoveFails \/ (\E c \in Accounts : RemoveBegin(c)) \/ Tick \/ UNCHANGED vars
  BY <1>8 DEF RemoveFails, RemoveBegin, Tick, vars, Attached
<1>9. ~RemoveApply
  BY DEF RemoveApply
<1> QED
  BY <1>3, <1>4, <1>5, <1>6, <1>7, <1>8, <1>9 DEF Administration

\* The lock is taken when it is free, and given back by its owner.
LEMMA LockStep ==
  ASSUME IndInv, LockHeld, [Next]_vars
  PROVE  LockHeld'
<1> SUFFICES ASSUME NEW r \in Requests, pc'[r] \in {"persist", "trash"}
             PROVE  diskLock' = r
  BY DEF LockHeld
<1>1. /\ \A s \in Requests : pc[s] \in {"persist", "trash"} => diskLock = s
      /\ Free \notin Requests /\ Admin \notin Requests
  BY PoolAssumption DEF LockHeld
<1>2. ASSUME NEW s \in Requests, Request(s)
      PROVE  diskLock' = r
  <2>1. Alone(s) /\ pc \in [Requests -> PC]
    BY <1>2, OneRequestMoves DEF IndInv, RequestsType
  <2>2. s # r => pc[r] \in {"persist", "trash"} /\ diskLock = r
    BY <1>1, <2>1 DEF Alone
  <2>3. CASE FinishRefresh(s)
    BY <1>1, <2>1, <2>2, <2>3 DEF FinishRefresh, Continue, Finish, Goto
  <2>4. CASE PrepareRetire(s)
    BY <1>1, <2>1, <2>2, <2>4 DEF PrepareRetire, Continue, Finish, Goto
  <2>5. CASE Persisted(s)
    BY <1>1, <2>1, <2>2, <2>5 DEF Persisted, Continue, Goto
  <2>6. CASE FinalizeRetire(s) \/ TrashFails(s)
    BY <1>1, <2>1, <2>2, <2>6 DEF FinalizeRetire, TrashFails, TryAnother, Finish, Goto
  <2>7. CASE Disconnect(s)
    BY <2>1, <2>2, <2>7 DEF Disconnect, Goto
  <2>8. CASE Select(s) \/ NoCandidate(s) \/ RefreshOk(s) \/ RefreshInvalid(s) \/ Lookup(s)
             \/ ExecuteOk(s)
    BY <2>1, <2>2, <2>8 DEF Select, NoCandidate, RefreshOk, RefreshInvalid, Lookup, ExecuteOk,
       Continue, Finish, Goto, store
  <2>9. CASE RefreshFails(s) \/ ExecuteFails(s) \/ SettleHeld(s) \/ DecodeFails(s)
    BY <2>1, <2>2, <2>9 DEF RefreshFails, ExecuteFails, SettleHeld, DecodeFails, TryAnother,
       Finish, Goto
  <2>10. CASE ReleaseUnusable(s) \/ ForceRefresh(s) \/ RejectedAgain(s)
    BY <2>1, <2>2, <2>10 DEF ReleaseUnusable, ForceRefresh, RejectedAgain, TryAnother, Goto
  <2> QED
    BY <1>2, <2>3, <2>4, <2>5, <2>6, <2>7, <2>8, <2>9, <2>10 DEF Request, Step
<1>3. CASE Administration \/ (\E c \in Accounts : TokenAges(c)) \/ Tick \/ UNCHANGED vars
  <2>1. UNCHANGED pc
    BY <1>3 DEF Administration, ListAccounts, WakeAll, RemoveApply, RemoveFails, WakeAccount,
       RemoveBegin, Register, TokenAges, Tick, vars, request
  <2>2. diskLock = r
    BY <1>1, <2>1
  <2> QED
    BY <1>1, <1>3, <2>2 DEF Administration, ListAccounts, WakeAll, RemoveApply, RemoveFails,
       WakeAccount, RemoveBegin, Register, TokenAges, Tick, vars, Acquire
<1> QED
  BY <1>2, <1>3 DEF Next

LEMMA LockInvariance == Spec => []LockHeld
<1>1. Init => LockHeld
  BY DEF Init, LockHeld
<1> QED
  BY <1>1, LockStep, Invariance, PTL DEF Spec

\* The request that retires the account, and everybody else.
LEMMA RetirementStep ==
  ASSUME IndInv, LockHeld, [Next]_vars, NEW r \in Requests, pc[r] = "trash", Attached(acct[r])
  PROVE  \/ pc'[r] \in {"select", "dropped"}
         \/ /\ pc'[r] = "trash" /\ acct[r] \in DOMAIN records'
            /\ ~records'[acct[r]].detached
<1>1. diskLock = r /\ r # Free /\ r # Admin
  BY PoolAssumption DEF LockHeld
<1>2. CASE Request(r)
  <2>1. FinalizeRetire(r) \/ TrashFails(r) \/ Disconnect(r)
    BY <1>2 DEF Request, Step, Select, NoCandidate, RefreshOk, RefreshFails, RefreshInvalid,
       FinishRefresh, Persisted, PrepareRetire, Lookup, ReleaseUnusable, ExecuteOk, ForceRefresh,
       RejectedAgain, ExecuteFails, SettleHeld, DecodeFails
  <2> QED
    BY <2>1 DEF FinalizeRetire, TrashFails, Disconnect, TryAnother, Goto, Attached,
       IndInv, RequestsType
<1>3. ASSUME NEW s \in Requests \ {r}, Request(s)
      PROVE  pc'[r] = "trash" /\ Attached(acct[r])'
  <2>1. pc'[r] = pc[r] /\ acct'[r] = acct[r]
    BY <1>3, OneRequestMoves DEF Alone
  <2>2. ~FinalizeRetire(s)
    BY <1>1, <1>3 DEF FinalizeRetire, LockHeld
  <2>3. \A a : Attached(a) => Attached(a)'
    BY <1>3, <2>2, RequestsStayAttached
  <2> QED
    BY <2>1, <2>3 DEF Attached
<1>4. CASE Administration \/ (\E c \in Accounts : TokenAges(c)) \/ Tick \/ UNCHANGED vars
  <2>1. UNCHANGED <<pc, acct>>
    BY <1>4 DEF Administration, ListAccounts, WakeAll, RemoveApply, RemoveFails, WakeAccount,
       RemoveBegin, Register, TokenAges, Tick, vars, request
  <2>2. \A a : Attached(a) => Attached(a)'
    BY <1>1, <1>4, AdministrationStaysAttached
  <2> QED
    BY <2>1, <2>2 DEF Attached
<1>5. CASE \E s \in Requests \ {r} : Request(s)
  <2>1. PICK s \in Requests \ {r} : Request(s)
    BY <1>5
  <2>2. pc'[r] = "trash" /\ Attached(acct[r])' /\ acct'[r] = acct[r]
    BY <1>3, <2>1, OneRequestMoves DEF Alone
  <2> QED
    BY <2>2 DEF Attached
<1> QED
  BY <1>2, <1>4, <1>5 DEF Next

\* While the file of an account is moved to trash/, nobody else removes its record or
\* detaches it: deletions, imports, rescans and retirements wait for the disk lock, and
\* no late settlement drops an attached record (failover.rs, retire_auth_invalid).
THEOREM RetirementsUndisturbed == Spec => RetirementUndisturbed
<1>1. IndInv /\ LockHeld /\ [Next]_vars =>
        [\A r \in Requests :
           LET a == acct[r]
           IN  /\ pc[r] = "trash" /\ a \in DOMAIN records
               /\ ~records[a].detached
               => \/ pc'[r] \in {"select", "dropped"}
                  \/ /\ pc'[r] = "trash" /\ a \in DOMAIN records'
                     /\ ~records'[a].detached]_vars
  BY RetirementStep DEF Attached
<1> QED
  BY <1>1, Invariance, LockInvariance, PTL DEF Spec, RetirementUndisturbed

-----------------------------------------------------------------------------
(* Marks and detached records *)

Refreshing == {"refresh", "refreshed", "retire"}

\* A record that only its last user keeps.
KeptByUser(a) ==
  records[a].detached =>
    \/ records[a].in_flight_requests > 0
    \/ records[a].refresh_in_flight
    \/ \E r \in Requests : acct[r] = a /\ pc[r] = "trash"

MarkOwned(a) ==
  records[a].refresh_in_flight =>
    \E r \in Requests : acct[r] = a /\ pc[r] \in Refreshing

UseInv == \A a \in DOMAIN records : MarkOwned(a) /\ KeptByUser(a)

LEMMA UseIsUse ==
  UseInv <=> RefreshFlagHasOwner /\ DetachedInUse
  BY DEF UseInv, MarkOwned, KeptByUser, RefreshFlagHasOwner, DetachedInUse, Holders, Refreshing

\* Whoever refreshes or retires another account goes on doing so.
LEMMA OthersUse ==
  ASSUME UseInv, NEW r \in Requests, Alone(r),
         NEW a \in DOMAIN records \cap DOMAIN records',
         records'[a] = records[a],
         acct[r] # a \/ pc[r] \notin Refreshing \cup {"trash"}
  PROVE  MarkOwned(a)' /\ KeptByUser(a)'
  BY DEF UseInv, MarkOwned, KeptByUser, Alone

\* A record that is in nobody's way may have no user only if it is attached.
LEMMA UsedOrAttached ==
  ASSUME NEW rec \in AccountRecord, ~IsRemovable(rec)
  PROVE  rec.detached => rec.in_flight_requests > 0 \/ rec.refresh_in_flight
  BY DEF IsRemovable, AccountRecord

LEMMA SettledUse ==
  ASSUME IndInv, IndInv', UseInv, NEW r \in Requests, Alone(r), Settled(acct[r])
  PROVE  UseInv'
<1> SUFFICES ASSUME NEW a \in DOMAIN records'
             PROVE  MarkOwned(a)' /\ KeptByUser(a)'
  BY DEF UseInv
<1>1. records'[a] \in AccountRecord
  BY DEF IndInv, RecordsCount, Keeps
<1>2. CASE a = acct[r]
  BY <1>1, <1>2, UsedOrAttached DEF Settled, MarkOwned, KeptByUser
<1>3. CASE a # acct[r]
  BY <1>3, OthersUse DEF Settled
<1> QED
  BY <1>2, <1>3

LEMMA RequestUse ==
  ASSUME IndInv, IndInv', UseInv, ~AllowDisconnect, NEW r \in Requests, Request(r)
  PROVE  UseInv'
<1>1. Alone(r)
  BY OneRequestMoves
<1>2. now \in Nat /\ \A a \in DOMAIN records : records[a] \in AccountRecord
  BY DEF IndInv, StoreType, RecordsCount, Keeps
<1>3. /\ pc \in [Requests -> PC]
      /\ acct \in [Requests -> Accounts \cup {NoAccount}]
  BY DEF IndInv, RequestsType
<1>4. CASE \/ RefreshFails(r) \/ ReleaseUnusable(r) \/ ForceRefresh(r) \/ RejectedAgain(r)
           \/ ExecuteFails(r) \/ SettleHeld(r) \/ DecodeFails(r) \/ FinishRefresh(r)
  BY <1>1, <1>4, SettlementsSettle, SettledUse
<1>5. CASE Persisted(r) \/ Lookup(r) \/ ExecuteOk(r)
  <2>1. records' = records /\ pc[r] \notin Refreshing \cup {"trash"}
    BY <1>5 DEF Persisted, Lookup, ExecuteOk, store, Refreshing
  <2> QED
    BY <1>1, <2>1, OthersUse DEF UseInv
<1>6. CASE RefreshOk(r) \/ RefreshInvalid(r)
  <2>1. /\ records' = records /\ acct' = acct
        /\ pc[r] = "refresh" /\ pc'[r] \in Refreshing
    BY <1>3, <1>6 DEF RefreshOk, RefreshInvalid, Continue, Goto, store, Refreshing
  <2>2. \A s \in Requests : /\ pc[s] \in Refreshing => pc'[s] \in Refreshing
                            /\ pc[s] = "trash" => pc'[s] = "trash"
    BY <1>1, <2>1 DEF Alone
  <2> QED
    BY <2>1, <2>2 DEF UseInv, MarkOwned, KeptByUser
<1>7. CASE PrepareRetire(r)
  <2>1. CASE acct[r] \notin DOMAIN records
    BY <1>1, <1>7, <2>1, OthersUse DEF PrepareRetire, UseInv
  <2>2. CASE acct[r] \in DOMAIN records
    <3>1. /\ records' = [records EXCEPT ![acct[r]] = PrepareAuthInvalid(records[acct[r]])]
          /\ pc'[r] = "trash" /\ acct'[r] = acct[r]
      BY <1>3, <1>7, <2>2 DEF PrepareRetire, Continue, Goto
    <3>2. PrepareAuthInvalid(records[acct[r]]).refresh_in_flight = FALSE
      BY <1>2, <2>2, RetireKeeps
    <3>3. MarkOwned(acct[r])' /\ KeptByUser(acct[r])'
      <4>1. PICK b \in DOMAIN records : b = acct[r]
        BY <2>2
      <4> QED
        BY <2>2, <3>1, <3>2, <4>1 DEF MarkOwned, KeptByUser
    <3> QED
      BY <1>1, <3>1, <3>3, OthersUse DEF UseInv
  <2> QED
    BY <2>1, <2>2
<1>8. CASE FinalizeRetire(r)
  <2>1. Settle(acct[r], FinalizeAuthInvalid(records[acct[r]])) /\ pc[r] = "trash"
    BY <1>8 DEF FinalizeRetire
  <2>2. /\ DOMAIN records' \subseteq DOMAIN records
        /\ acct[r] \in DOMAIN records' =>
             /\ records'[acct[r]] = FinalizeAuthInvalid(records[acct[r]])
             /\ ~IsRemovable(records'[acct[r]])
        /\ \A a \in DOMAIN records' \ {acct[r]} : records'[a] = records[a]
    BY <2>1, SettledRecord
  <2>3. ASSUME NEW a \in DOMAIN records', a # acct[r]
        PROVE  MarkOwned(a)' /\ KeptByUser(a)'
    BY <1>1, <2>2, <2>3, OthersUse
  <2>4. ASSUME NEW a \in DOMAIN records', a = acct[r]
        PROVE  MarkOwned(a)' /\ KeptByUser(a)'
    <3>1. records'[a] \in AccountRecord
      BY DEF IndInv, RecordsCount, Keeps
    <3>2. records'[a].refresh_in_flight = records[a].refresh_in_flight
      BY <1>2, <2>2, <2>4, RetireKeeps
    <3>3. MarkOwned(a)'
      <4>1. MarkOwned(a)
        BY <2>2 DEF UseInv
      <4>2. \A s \in Requests : acct[s] = a /\ pc[s] \in Refreshing =>
                                 acct'[s] = a /\ pc'[s] \in Refreshing
        BY <1>1, <2>1 DEF Alone, Refreshing
      <4> QED
        BY <3>2, <4>1, <4>2, Zenon DEF MarkOwned
    <3> QED
      BY <2>2, <2>4, <3>1, <3>3, UsedOrAttached DEF KeptByUser
  <2> QED
    BY <2>3, <2>4 DEF UseInv
<1>9. CASE TrashFails(r)
  <2>1. /\ records' = records /\ pc[r] = "trash" /\ pc[r] \notin Refreshing
        /\ acct[r] \in DOMAIN records /\ ~records[acct[r]].detached
    BY <1>9 DEF TrashFails, Refreshing
  <2> QED
    BY <1>1, <2>1 DEF UseInv, MarkOwned, KeptByUser, Alone
<1>10. CASE Select(r)
  <2>1. PICK b \in DOMAIN records :
          /\ records' = [Expired EXCEPT ![b] = Selected(Expired[b])]
          /\ acct' = [acct EXCEPT ![r] = b]
          /\ Goto(r, IF NeedsRefresh(Expired[b]) THEN "refresh" ELSE "lookup")
    BY <1>10 DEF Select, Candidates
  <2>2. /\ DOMAIN records' = DOMAIN records
        /\ records'[b] = Selected(ExpireBlock(records[b], now))
        /\ \A a \in DOMAIN records \ {b} : records'[a] = ExpireBlock(records[a], now)
        /\ Expired[b] = ExpireBlock(records[b], now)
    BY <2>1 DEF Expired
  <2>3. pc[r] = "select" /\ pc[r] \notin Refreshing \cup {"trash"}
    BY <1>10 DEF Select, Refreshing
  <2>4. acct'[r] = b /\ (NeedsRefresh(ExpireBlock(records[b], now)) => pc'[r] \in Refreshing)
    BY <1>3, <2>1, <2>2 DEF Goto, Refreshing
  <2>5. ASSUME NEW a \in DOMAIN records \ {b}
        PROVE  MarkOwned(a)' /\ KeptByUser(a)'
    <3>1. /\ records'[a].refresh_in_flight = records[a].refresh_in_flight
          /\ records'[a].detached = records[a].detached
          /\ records'[a].in_flight_requests = records[a].in_flight_requests
      BY <1>2, <2>2, ExpiryKeeps, ExpireBlockType DEF Keeps
    <3> QED
      BY <1>1, <2>3, <3>1 DEF UseInv, MarkOwned, KeptByUser, Alone
  <2>6. /\ records'[b].in_flight_requests > 0
        /\ \/ records'[b].refresh_in_flight = records[b].refresh_in_flight
           \/ NeedsRefresh(ExpireBlock(records[b], now))
    BY <1>2, <2>2, SelectionKeeps
  <2>7. MarkOwned(b)' /\ KeptByUser(b)'
    BY <1>1, <2>3, <2>4, <2>6 DEF UseInv, MarkOwned, KeptByUser, Alone
  <2> QED
    BY <2>2, <2>5, <2>7 DEF UseInv
<1>11. CASE NoCandidate(r)
  <2>1. /\ DOMAIN records' = DOMAIN records
        /\ \A a \in DOMAIN records : records'[a] = ExpireBlock(records[a], now)
        /\ pc[r] = "select"
    BY <1>11 DEF NoCandidate, Expired
  <2>2. \A a \in DOMAIN records :
          /\ records'[a].refresh_in_flight = records[a].refresh_in_flight
          /\ records'[a].detached = records[a].detached
          /\ records'[a].in_flight_requests = records[a].in_flight_requests
    BY <1>2, <2>1, ExpiryKeeps, ExpireBlockType DEF Keeps
  <2> QED
    BY <1>1, <2>1, <2>2 DEF UseInv, MarkOwned, KeptByUser, Alone, Refreshing
<1>12. ~Disconnect(r)
  BY DEF Disconnect
<1> QED
  BY <1>4, <1>5, <1>6, <1>7, <1>8, <1>9, <1>10, <1>11, <1>12 DEF Request, Step

\* A step outside the requests, of an account whose marks and count it leaves alone.
LEMMA QuietUse ==
  ASSUME UseInv, UNCHANGED request, NEW a \in DOMAIN records,
         records'[a].refresh_in_flight = records[a].refresh_in_flight,
         records'[a].in_flight_requests = records[a].in_flight_requests,
         records'[a].detached => records[a].detached
  PROVE  MarkOwned(a)' /\ KeptByUser(a)'
  BY DEF UseInv, MarkOwned, KeptByUser, request

LEMMA OtherUse ==
  ASSUME IndInv, IndInv', UseInv,
         Administration \/ (\E a \in Accounts : TokenAges(a)) \/ Tick \/ UNCHANGED vars
  PROVE  UseInv'
<1>1. UNCHANGED request
  BY DEF Administration, ListAccounts, WakeAll, RemoveApply, RemoveFails, WakeAccount,
     RemoveBegin, Register, TokenAges, Tick, vars, request
<1>2. now \in Nat /\ \A a \in DOMAIN records : records[a] \in AccountRecord
  BY DEF IndInv, StoreType, RecordsCount, Keeps
<1>3. CASE ListAccounts
  <2>1. /\ DOMAIN records' = DOMAIN records
        /\ \A a \in DOMAIN records : records'[a] = ExpireBlock(records[a], now)
    BY <1>3 DEF ListAccounts, Expired
  <2> QED
    BY <1>1, <1>2, <2>1, ExpiryKeeps, ExpireBlockType, QuietUse DEF UseInv, Keeps
<1>4. CASE WakeAll
  <2>1. /\ DOMAIN records' = DOMAIN records
        /\ \A a \in DOMAIN records : records'[a] = Wake(records[a])
    BY <1>4 DEF WakeAll
  <2> QED
    BY <1>1, <1>2, <2>1, WakeKeeps, QuietUse DEF UseInv
<1>5. CASE \E b \in Accounts : WakeAccount(b)
  <2>1. PICK b \in DOMAIN records : records' = [records EXCEPT ![b] = Wake(records[b])]
    BY <1>5 DEF WakeAccount
  <2>2. /\ DOMAIN records' = DOMAIN records
        /\ records'[b] = Wake(records[b])
        /\ \A a \in DOMAIN records \ {b} : records'[a] = records[a]
    BY <2>1
  <2>3. MarkOwned(b)' /\ KeptByUser(b)'
    BY <1>1, <1>2, <2>2, WakeKeeps, QuietUse
  <2>4. \A a \in DOMAIN records \ {b} : MarkOwned(a)' /\ KeptByUser(a)'
    BY <1>1, <2>2, QuietUse
  <2> QED
    BY <2>2, <2>3, <2>4 DEF UseInv
<1>6. CASE RemoveApply
  <2> DEFINE rec == [records[removing] EXCEPT !.detached = TRUE]
  <2>1. Settle(removing, rec)
    BY <1>6 DEF RemoveApply
  <2>2. /\ DOMAIN records' \subseteq DOMAIN records
        /\ removing \in DOMAIN records' => records'[removing] = rec /\ ~IsRemovable(rec)
        /\ \A a \in DOMAIN records' \ {removing} : records'[a] = records[a]
    BY <2>1, SettledRecord
  <2>3. ASSUME NEW a \in DOMAIN records', a # removing
        PROVE  MarkOwned(a)' /\ KeptByUser(a)'
    BY <1>1, <2>2, <2>3, QuietUse
  <2>4. ASSUME NEW a \in DOMAIN records', a = removing
        PROVE  MarkOwned(a)' /\ KeptByUser(a)'
    <3>1. /\ rec.refresh_in_flight = records[a].refresh_in_flight
          /\ rec \in AccountRecord /\ a \in DOMAIN records
      BY <1>2, <2>2, <2>4, DetachedTypes DEF Keeps, AccountRecord
    <3> HIDE DEF rec
    <3>2. records'[a] = rec /\ ~IsRemovable(rec)
      BY <2>2, <2>4
    <3>3. KeptByUser(a)'
      BY <3>1, <3>2, UsedOrAttached DEF KeptByUser
    <3>4. MarkOwned(a)
      BY <3>1 DEF UseInv
    <3> QED
      BY <1>1, <3>1, <3>2, <3>3, <3>4 DEF MarkOwned, request
  <2> QED
    BY <2>3, <2>4 DEF UseInv
<1>7. CASE \E b \in Accounts : Register(b)
  <2>1. PICK b \in Accounts : Register(b)
    BY <1>7
  <2>2. /\ DOMAIN records' = DOMAIN records \cup {b}
        /\ \A a \in DOMAIN records \ {b} : records'[a] = records[a]
        /\ b \in DOMAIN records => records'[b] = Reattached(records[b])
        /\ b \notin DOMAIN records => records'[b] = ColdRecord
    BY <2>1 DEF Register
  <2>3. \A a \in DOMAIN records \ {b} : MarkOwned(a)' /\ KeptByUser(a)'
    BY <1>1, <2>2, QuietUse
  <2>4. CASE b \in DOMAIN records
    <3>1. /\ Reattached(records[b]).refresh_in_flight = records[b].refresh_in_flight
          /\ Reattached(records[b]).in_flight_requests = records[b].in_flight_requests
          /\ Reattached(records[b]).detached => records[b].detached
      BY <1>2, <2>4 DEF Reattached, AccountRecord
    <3> QED
      BY <1>1, <2>2, <2>3, <2>4, <3>1, QuietUse DEF UseInv
  <2>5. CASE b \notin DOMAIN records
    <3>1. MarkOwned(b)' /\ KeptByUser(b)'
      BY <2>2, <2>5 DEF MarkOwned, KeptByUser, ColdRecord
    <3> QED
      BY <2>2, <2>3, <3>1 DEF UseInv
  <2> QED
    BY <2>4, <2>5
<1>8. CASE \E b \in Accounts : TokenAges(b)
  <2>1. PICK b \in DOMAIN records : records' = [records EXCEPT ![b].token = "stale"]
    BY <1>8 DEF TokenAges
  <2>2. /\ DOMAIN records' = DOMAIN records
        /\ records'[b] = [records[b] EXCEPT !.token = "stale"]
        /\ \A a \in DOMAIN records \ {b} : records'[a] = records[a]
    BY <2>1
  <2>3. /\ records'[b].refresh_in_flight = records[b].refresh_in_flight
        /\ records'[b].in_flight_requests = records[b].in_flight_requests
        /\ records'[b].detached = records[b].detached
    BY <1>2, <2>2 DEF AccountRecord
  <2> QED
    BY <1>1, <2>2, <2>3, QuietUse DEF UseInv
<1>9. CASE RemoveFails \/ (\E a \in Accounts : RemoveBegin(a)) \/ Tick \/ UNCHANGED vars
  <2>1. records' = records
    BY <1>9 DEF RemoveFails, RemoveBegin, Tick, vars
  <2> QED
    BY <1>1, <2>1, QuietUse DEF UseInv
<1> QED
  BY <1>3, <1>4, <1>5, <1>6, <1>7, <1>8, <1>9 DEF Administration

LEMMA UseInvariant == ~AllowDisconnect => (Spec => []UseInv)
<1> SUFFICES ASSUME ~AllowDisconnect
             PROVE  Spec => []UseInv
  OBVIOUS
<1>1. Init => UseInv
  BY DEF Init, UseInv, MarkOwned, KeptByUser, ColdRecord
<1>2. IndInv /\ IndInv' /\ UseInv /\ [Next]_vars => UseInv'
  BY RequestUse, OtherUse DEF Next
<1> QED
  BY <1>1, <1>2, Invariance, PTL DEF Spec

\* While clients stay, the mark that keeps selection away from an account is a
\* request's that is refreshing it (clear_refresh_in_flight on every path).
THEOREM MarksHaveOwners == ~AllowDisconnect => (Spec => []RefreshFlagHasOwner)
<1> SUFFICES ASSUME ~AllowDisconnect
             PROVE  Spec => []RefreshFlagHasOwner
  OBVIOUS
<1> QED
  BY UseInvariant, UseIsUse, PTL

\* While clients stay, a deleted account's record goes with its last user
\* (maybe_remove_detached on every path).
THEOREM DetachedGo == ~AllowDisconnect => (Spec => []DetachedInUse)
<1> SUFFICES ASSUME ~AllowDisconnect
             PROVE  Spec => []DetachedInUse
  OBVIOUS
<1> QED
  BY UseInvariant, UseIsUse, PTL

=============================================================================
