---------------------------- MODULE AccountPool ----------------------------
(***************************************************************************)
(* The account pool under concurrent requests: AccountStore behind its     *)
(* write lock, the failover loop each request runs over it, the disk lock  *)
(* that a refresh outcome and the administration share, and time.          *)
(*                                                                         *)
(* A step of the model is one critical section of the accounts lock, or    *)
(* one answer of the upstream or of the disk.  Between two steps of one    *)
(* request every other actor may run: that is where the code awaits.       *)
(*                                                                         *)
(* The routing policy's choice among the candidates is left open here;     *)
(* what is on disk is left out, only the outcome of a disk operation and   *)
(* the lock held around it remain.                                         *)
(***************************************************************************)
EXTENDS AccountRecord, FiniteSets

CONSTANTS
  Accounts,          \* account ids
  Requests,          \* requests, each of which runs the failover loop once
  NoAccount,         \* what a request holds when it holds nothing
  Free, Admin,       \* owners of the disk lock other than requests
  Failures,          \* the classes of failure the upstream answers with
  RetryAfters,       \* delays an upstream error may carry, besides none
  AllowDisconnect,   \* whether a client may leave while its request awaits
  MaxTime            \* bound on the clock

ASSUME PoolAssumption ==
  /\ IsFiniteSet(Requests)
  /\ NoAccount \notin Accounts
  /\ Free \notin Requests /\ Admin \notin Requests /\ Free # Admin
  /\ Failures \subseteq FailureClass
  /\ RetryAfters \subseteq Nat
  /\ AllowDisconnect \in BOOLEAN
  /\ MaxTime \in Nat

VARIABLES
  now,        \* seconds
  records,    \* AccountStore.records: a function on the known account ids
  diskLock,   \* AppState.account_disk_lock: its owner
  removing,   \* the account an administrator is deleting, or NoAccount
  pc,         \* where each request is in execute_with_failover_from_inner
  acct,       \* the account it has selected
  tried,      \* tried_accounts
  forced      \* forced_refresh_attempted

vars == <<now, records, diskLock, removing, pc, acct, tried, forced>>

store   == <<now, records, diskLock, removing>>
request == <<pc, acct, tried, forced>>

PC == {"select",      \* at the head of the loop
       "refresh",     \* awaiting the token endpoint
       "refreshed",   \* has new tokens, awaits the disk lock
       "persist",     \* has stored them, writes the account file
       "retire",      \* its refresh token is invalid, awaits the disk lock
       "trash",       \* has tombstoned the account, moves its file
       "lookup",      \* about to read the access token
       "unusable",    \* found none
       "execute",     \* awaiting the upstream's answer
       "hold",        \* has handed the account to its caller
       "answered",    \* its client has the answer, and its locals are gone
       "internal",    \* as answered, with the error 500
       "dropped"}     \* its client left

TypeOK ==
  /\ now \in Nat
  /\ DOMAIN records \subseteq Accounts
  /\ \A a \in DOMAIN records : records[a] \in AccountRecord
  /\ records = [a \in DOMAIN records |-> records[a]]
  /\ diskLock \in Requests \cup {Free, Admin}
  /\ removing \in Accounts \cup {NoAccount}
  /\ pc \in [Requests -> PC]
  /\ acct \in [Requests -> Accounts \cup {NoAccount}]
  /\ tried \in [Requests -> SUBSET Accounts]
  /\ forced \in [Requests -> SUBSET Accounts]

\* The requests that still have to settle account a.
Holders(a) == {r \in Requests : acct[r] = a /\ pc[r] # "trash"}

\* Startup has read one file per account; requests have arrived.
Init ==
  /\ now = 0
  /\ records = [a \in Accounts |-> ColdRecord]
  /\ diskLock = Free
  /\ removing = NoAccount
  /\ pc = [r \in Requests |-> "select"]
  /\ acct = [r \in Requests |-> NoAccount]
  /\ tried = [r \in Requests |-> {}]
  /\ forced = [r \in Requests |-> {}]

-----------------------------------------------------------------------------
(* The store *)

\* Leave rec as account a's record, or drop it if maybe_remove_detached would.
Stored(a, rec) ==
  IF IsRemovable(rec)
  THEN [b \in DOMAIN records \ {a} |-> records[b]]
  ELSE [records EXCEPT ![a] = rec]

\* A settlement of an account the store no longer knows does nothing.
Settle(a, rec) ==
  records' = IF a \in DOMAIN records THEN Stored(a, rec) ELSE records

Expired == [a \in DOMAIN records |-> ExpireBlock(records[a], now)]

Candidates(r) ==
  {a \in DOMAIN records \ tried[r] : IsEligible(Expired[a], now)}

-----------------------------------------------------------------------------
(* The failover loop.  Where a request goes next: *)

Goto(r, where) == pc' = [pc EXCEPT ![r] = where]

\* It keeps its account.
Continue(r, where) ==
  /\ Goto(r, where)
  /\ UNCHANGED <<acct, tried, forced>>

\* It has settled its account, and looks for another one.
TryAnother(r) ==
  /\ Goto(r, "select")
  /\ tried' = [tried EXCEPT ![r] = @ \cup {acct[r]}]
  /\ acct' = [acct EXCEPT ![r] = NoAccount]
  /\ UNCHANGED forced

\* It holds no account any more, and is done.
Finish(r, end) ==
  /\ Goto(r, end)
  /\ acct' = [acct EXCEPT ![r] = NoAccount]
  /\ tried' = [tried EXCEPT ![r] = {}]
  /\ forced' = [forced EXCEPT ![r] = {}]

Acquire(owner) == diskLock = Free /\ diskLock' = owner
Release == diskLock' = Free

\* select_account picks some candidate.
Select(r) ==
  /\ pc[r] = "select"
  /\ \E a \in Candidates(r) :
       /\ records' = [Expired EXCEPT ![a] = Selected(@)]
       /\ acct' = [acct EXCEPT ![r] = a]
       /\ Goto(r, IF NeedsRefresh(Expired[a]) THEN "refresh" ELSE "lookup")
  /\ UNCHANGED <<now, diskLock, removing, tried, forced>>

\* No candidate: resolve_selection_failure answers that the pool is blocked.
NoCandidate(r) ==
  /\ pc[r] = "select"
  /\ Candidates(r) = {}
  /\ records' = Expired
  /\ Finish(r, "answered")
  /\ UNCHANGED <<now, diskLock, removing>>

RefreshOk(r) ==
  /\ pc[r] = "refresh"
  /\ Continue(r, "refreshed")
  /\ UNCHANGED store

\* finish_refresh_success: the record first, then the file unless detached.
FinishRefresh(r) ==
  /\ pc[r] = "refreshed"
  /\ diskLock = Free
  /\ IF acct[r] \in DOMAIN records
     THEN /\ \E t \in TokenState \ {"none"} :
               Settle(acct[r], RefreshSucceeded(records[acct[r]], t, now))
          /\ IF records[acct[r]].detached
             THEN Continue(r, "lookup") /\ UNCHANGED diskLock
             ELSE Continue(r, "persist") /\ diskLock' = r
     ELSE Finish(r, "internal") /\ UNCHANGED <<records, diskLock>>
  /\ UNCHANGED <<now, removing>>

\* A failed write only warns.
Persisted(r) ==
  /\ pc[r] = "persist"
  /\ Release
  /\ Continue(r, "lookup")
  /\ UNCHANGED <<now, records, removing>>

\* The refresh fails for a reason other than the refresh token.
RefreshFails(r) ==
  /\ pc[r] = "refresh"
  /\ \E class \in (Failures \cap RefreshFailure) \ {"auth_invalid"},
        retryAfter \in RetryAfters \cup {NoTime} :
       /\ Settle(acct[r], ApplyFailure(records[acct[r]], class, retryAfter, now))
       /\ IF class \in {"request_rejected", "internal_failure"}
          THEN Finish(r, "answered")
          ELSE TryAnother(r)
  /\ UNCHANGED <<now, diskLock, removing>>

\* The refresh token is invalid; retiring the account needs the disk lock.
RefreshInvalid(r) ==
  /\ pc[r] = "refresh"
  /\ Continue(r, "retire")
  /\ UNCHANGED store

\* Mutant of PrepareRetire: the disk lock is given back before the move.
PrepareRetireUnlocked(r) ==
  /\ pc[r] = "retire"
  /\ diskLock = Free
  /\ IF acct[r] \in DOMAIN records
     THEN /\ records' = [records EXCEPT ![acct[r]] = PrepareAuthInvalid(@)]
          /\ Continue(r, "trash")
     ELSE Finish(r, "internal") /\ UNCHANGED records
  /\ UNCHANGED <<now, diskLock, removing>>

\* prepare_auth_invalid_failure: the account is settled and tombstoned, and the
\* disk lock kept for the move to trash/.
PrepareRetire(r) ==
  /\ pc[r] = "retire"
  /\ diskLock = Free
  /\ IF acct[r] \in DOMAIN records
     THEN /\ records' = [records EXCEPT ![acct[r]] = PrepareAuthInvalid(@)]
          /\ diskLock' = r
          /\ Continue(r, "trash")
     ELSE Finish(r, "internal") /\ UNCHANGED <<records, diskLock>>
  /\ UNCHANGED <<now, removing>>

\* The file is in trash/, or was not there: finalize_auth_invalid_failure, an
\* error if the record has gone.
FinalizeRetire(r) ==
  /\ pc[r] = "trash"
  /\ Settle(acct[r], FinalizeAuthInvalid(records[acct[r]]))
  /\ Release
  /\ IF acct[r] \in DOMAIN records THEN TryAnother(r)
     ELSE Finish(r, "internal")
  /\ UNCHANGED <<now, removing>>

\* The move fails: the record stays attached.  A detached one has no file to move.
TrashFails(r) ==
  /\ pc[r] = "trash"
  /\ acct[r] \in DOMAIN records /\ ~records[acct[r]].detached
  /\ Release
  /\ TryAnother(r)
  /\ UNCHANGED <<now, records, removing>>

\* upstream_account, under the read lock.
Lookup(r) ==
  /\ pc[r] = "lookup"
  /\ Continue(r, IF /\ acct[r] \in DOMAIN records
                    /\ records[acct[r]].token # "none"
                 THEN "execute" ELSE "unusable")
  /\ UNCHANGED store

\* Another request has cleared the token since: give the account back.
ReleaseUnusable(r) ==
  /\ pc[r] = "unusable"
  /\ Settle(acct[r],
            ReleaseSelection(InvalidateAccessToken(records[acct[r]], now), now))
  /\ TryAnother(r)
  /\ UNCHANGED <<now, diskLock, removing>>

\* The upstream accepts: the caller holds the account until it settles it.
ExecuteOk(r) ==
  /\ pc[r] = "execute"
  /\ Continue(r, "hold")
  /\ UNCHANGED store

\* Mutants of ForceRefresh: the account is not given back; the account is not
\* remembered as refreshed once.
ForceRefreshLeaks(r) ==
  /\ pc[r] = "execute"
  /\ acct[r] \notin forced[r]
  /\ Settle(acct[r], InvalidateAccessToken(records[acct[r]], now))
  /\ forced' = [forced EXCEPT ![r] = @ \cup {acct[r]}]
  /\ acct' = [acct EXCEPT ![r] = NoAccount]
  /\ Goto(r, "select")
  /\ UNCHANGED <<now, diskLock, removing, tried>>

ForceRefreshForgets(r) ==
  /\ pc[r] = "execute"
  /\ Settle(acct[r],
            ReleaseSelection(InvalidateAccessToken(records[acct[r]], now), now))
  /\ acct' = [acct EXCEPT ![r] = NoAccount]
  /\ Goto(r, "select")
  /\ UNCHANGED <<now, diskLock, removing, tried, forced>>

\* The first 401 from an account: forget its token and go round again.
ForceRefresh(r) ==
  /\ pc[r] = "execute"
  /\ acct[r] \notin forced[r]
  /\ Settle(acct[r],
            ReleaseSelection(InvalidateAccessToken(records[acct[r]], now), now))
  /\ forced' = [forced EXCEPT ![r] = @ \cup {acct[r]}]
  /\ acct' = [acct EXCEPT ![r] = NoAccount]
  /\ Goto(r, "select")
  /\ UNCHANGED <<now, diskLock, removing, tried>>

\* The second one cools the account down.
RejectedAgain(r) ==
  /\ pc[r] = "execute"
  /\ acct[r] \in forced[r]
  /\ Settle(acct[r],
            ApplyFailure(InvalidateAccessToken(records[acct[r]], now),
                         "access_token_rejected", NoTime, now))
  /\ TryAnother(r)
  /\ UNCHANGED <<now, diskLock, removing>>

ExecuteFails(r) ==
  /\ pc[r] = "execute"
  /\ \E class \in (Failures \cap RequestFailure) \ {"access_token_rejected"},
        retryAfter \in RetryAfters \cup {NoTime} :
       /\ Settle(acct[r], ApplyFailure(records[acct[r]], class, retryAfter, now))
       /\ IF class \in {"request_rejected", "internal_failure"}
          THEN Finish(r, "answered")
          ELSE TryAnother(r)
  /\ UNCHANGED <<now, diskLock, removing>>

\* The caller's settlement, at the end of its body, stream or connection.
SettleHeld(r) ==
  /\ pc[r] = "hold"
  /\ \/ Settle(acct[r], MarkRequestSuccess(records[acct[r]], now))
     \/ Settle(acct[r], ReleaseSelection(records[acct[r]], now))
     \/ \E class \in Failures \cap RequestFailure, retryAfter \in RetryAfters \cup {NoTime} :
          Settle(acct[r], ApplyFailure(records[acct[r]], class, retryAfter, now))
  /\ Finish(r, "answered")
  /\ UNCHANGED <<now, diskLock, removing>>

\* A unary body that is not JSON: the account is failed, and the loop entered
\* again with the same tried_accounts.
DecodeFails(r) ==
  /\ pc[r] = "hold"
  /\ Settle(acct[r],
            ApplyFailure(records[acct[r]], "temporary_failure", NoTime, now))
  /\ Goto(r, "select")
  /\ tried' = [tried EXCEPT ![r] = @ \cup {acct[r]}]
  /\ forced' = [forced EXCEPT ![r] = {}]
  /\ acct' = [acct EXCEPT ![r] = NoAccount]
  /\ UNCHANGED <<now, diskLock, removing>>

\* The client leaves: the handler's future is dropped where it awaits, with its
\* lock guards; no guard of its own settles the account.  In "hold" it is a unary
\* answer that waits for the store; a stream or a socket settles when it is dropped.
Disconnect(r) ==
  /\ AllowDisconnect
  /\ pc[r] \notin {"answered", "internal", "dropped"}
  /\ Goto(r, "dropped")
  /\ acct' = [acct EXCEPT ![r] = IF pc[r] = "trash" THEN NoAccount ELSE @]
  /\ tried' = [tried EXCEPT ![r] = {}]
  /\ forced' = [forced EXCEPT ![r] = {}]
  /\ diskLock' = IF diskLock = r THEN Free ELSE diskLock
  /\ UNCHANGED <<now, records, removing>>

-----------------------------------------------------------------------------
(* Administration, the registry and time *)

\* GET /admin/accounts: list, which expires blocks.
ListAccounts ==
  /\ records' = Expired
  /\ UNCHANGED <<now, diskLock, removing, request>>

WakeAccount(a) ==
  /\ a \in DOMAIN records
  /\ records' = [records EXCEPT ![a] = Wake(@)]
  /\ UNCHANGED <<now, diskLock, removing, request>>

WakeAll ==
  /\ records' = [a \in DOMAIN records |-> Wake(records[a])]
  /\ UNCHANGED <<now, diskLock, removing, request>>

\* remove_account: plan and file removal under the disk lock ...
RemoveBegin(a) ==
  /\ a \in DOMAIN records
  /\ Acquire(Admin)
  /\ removing' = a
  /\ UNCHANGED <<now, records, request>>

\* Mutant of RemoveApply: maybe_remove_detached is not called.
RemoveApplyKeeps ==
  /\ diskLock = Admin
  /\ records' = IF removing \in DOMAIN records
                THEN [records EXCEPT ![removing].detached = TRUE] ELSE records
  /\ removing' = NoAccount
  /\ Release
  /\ UNCHANGED <<now, request>>

\* ... then the record is detached, and dropped once nobody uses it ...
RemoveApply ==
  /\ diskLock = Admin
  /\ Settle(removing, [records[removing] EXCEPT !.detached = TRUE])
  /\ removing' = NoAccount
  /\ Release
  /\ UNCHANGED <<now, request>>

\* ... unless the file cannot be removed.
RemoveFails ==
  /\ diskLock = Admin
  /\ removing' = NoAccount
  /\ Release
  /\ UNCHANGED <<now, records, request>>

\* An account file imported, or found by the rescan: upsert_disk_record.
Register(a) ==
  /\ diskLock = Free
  /\ records' = [b \in DOMAIN records \cup {a} |->
                   IF b # a THEN records[b]
                   ELSE IF a \in DOMAIN records THEN Reattached(records[a])
                   ELSE ColdRecord]
  /\ UNCHANGED <<now, diskLock, removing, request>>

\* An access token reaches the refresh skew.
TokenAges(a) ==
  /\ a \in DOMAIN records
  /\ records[a].token = "fresh"
  /\ records' = [records EXCEPT ![a].token = "stale"]
  /\ UNCHANGED <<now, diskLock, removing, request>>

Tick ==
  /\ now < MaxTime
  /\ now' = now + 1
  /\ UNCHANGED <<records, diskLock, removing, request>>

-----------------------------------------------------------------------------

\* What a request does of itself, before its caller holds an account.
Step(r) ==
  \/ Select(r) \/ NoCandidate(r)
  \/ RefreshOk(r) \/ RefreshFails(r) \/ RefreshInvalid(r)
  \/ FinishRefresh(r) \/ Persisted(r)
  \/ PrepareRetire(r) \/ FinalizeRetire(r) \/ TrashFails(r)
  \/ Lookup(r) \/ ReleaseUnusable(r)
  \/ ExecuteOk(r) \/ ForceRefresh(r) \/ RejectedAgain(r) \/ ExecuteFails(r)

Request(r) == Step(r) \/ SettleHeld(r) \/ DecodeFails(r) \/ Disconnect(r)

Administration ==
  \/ ListAccounts \/ WakeAll \/ RemoveApply \/ RemoveFails
  \/ \E a \in Accounts : WakeAccount(a) \/ RemoveBegin(a) \/ Register(a)

Next ==
  \/ \E r \in Requests : Request(r)
  \/ Administration
  \/ \E a \in Accounts : TokenAges(a)
  \/ Tick

Spec == Init /\ [][Next]_vars

\* A request that can run does run: tokio polls it, the upstream client has
\* timeouts, and the disk lock is a fair (first in, first out) tokio Mutex.
\* Nothing is assumed of callers that hold an account, of administrators
\* who start an operation, or of time.
Fairness ==
  /\ \A r \in Requests : WF_vars(Step(r))
  /\ \A r \in Requests : SF_vars(FinishRefresh(r)) /\ SF_vars(PrepareRetire(r))
  /\ WF_vars(RemoveApply \/ RemoveFails)

FairSpec == Spec /\ Fairness

-----------------------------------------------------------------------------
(* Safety *)

\* Every selection is settled exactly once: an account counts as many requests
\* as are still to settle it, whichever paths the failover loops take (retry
\* after a 401, refresh failure, token gone at lookup, decode failure, ...).
\* The saturating subtraction of the code would hide a settlement too many.
InFlightExact ==
  \A a \in DOMAIN records :
    records[a].in_flight_requests = Cardinality(Holders(a))

\* No deletion takes a record away from a request that holds it: the "unknown
\* account" errors of finish_refresh_success and prepare_auth_invalid_failure
\* and the MissingRecord arm of the loop cannot happen.
HoldersHaveRecords ==
  \A r \in Requests :
    (acct[r] # NoAccount /\ pc[r] # "trash") => acct[r] \in DOMAIN records

\* An account marked as refreshing, which selection skips, has a request whose
\* refresh will end: the mark is never left behind by one that moved on.
RefreshFlagHasOwner ==
  \A a \in DOMAIN records :
    records[a].refresh_in_flight =>
      \E r \in Holders(a) : pc[r] \in {"refresh", "refreshed", "retire"}

\* A detached record is kept only while somebody uses it (maybe_remove_detached
\* is called on every path that may be the last use).
DetachedInUse ==
  \A a \in DOMAIN records :
    records[a].detached =>
      \/ records[a].in_flight_requests > 0
      \/ records[a].refresh_in_flight
      \/ \E r \in Requests : acct[r] = a /\ pc[r] = "trash"

\* OPERATIONS.md gives "there is no active block" as the meaning of ready: the
\* routing state and the block fields, written apart, never disagree that way,
\* whichever settlements, refreshes, expiries and wakes interleave.
ReadyMeansUnblocked ==
  \A a \in DOMAIN records :
    records[a].routing_state \in {"ready", "cold"} =>
      ~HasActiveBlock(records[a], now)

\* A block that is still running is cut short only by an administrator's wake
\* or by the account turning invalid: no success, late failure of another
\* request, refresh or expiry shortens it (the precedence rule of
\* apply_block_transition, over every caller).
BlockNotCutShort ==
  [][\A a \in DOMAIN records \cap DOMAIN records' :
       records[a].blocked_until > now =>
         \/ records'[a].blocked_until >= records[a].blocked_until
         \/ records'[a].blocked_reason = "auth_invalid"
         \/ WakeAll \/ WakeAccount(a)]_vars

\* A retirement that has begun is not disturbed.  From the tombstone to the end of
\* the move to trash/ the disk lock keeps deletions, imports, rescans and other
\* retirements out, and late settlements of the account do not drop it: its record is
\* there and attached until the request itself fails over or leaves.  Only of an
\* account deleted before may the record be gone at the end, which is answered 500
\* (prepare_auth_invalid_failure and finalize_auth_invalid_failure).
RetirementUndisturbed ==
  [][\A r \in Requests :
       LET a == acct[r]
       IN  /\ pc[r] = "trash" /\ a \in DOMAIN records
           /\ ~records[a].detached
           => \/ pc'[r] \in {"select", "dropped"}
              \/ /\ pc'[r] = "trash" /\ a \in DOMAIN records'
                 /\ ~records'[a].detached]_vars

\* What the requests hold, and what the accounts are marked with.
Lease == INSTANCE AccountLease WITH
  Users   <- Requests,
  Nobody  <- NoAccount,
  lease   <- [r \in Requests |-> IF pc[r] = "trash" THEN NoAccount ELSE acct[r]],
  count   <- [a \in Accounts |-> IF a \in DOMAIN records
                                 THEN records[a].in_flight_requests ELSE 0]

\* The failover loops implement the lease: whatever a step of the pool does, it
\* takes or settles one account of one request, or none, and no record is
\* dropped, put back or rewritten that is still to be settled.
LeasesAccounts == Lease!Spec

-----------------------------------------------------------------------------
(* Liveness *)

\* Every request whose client stays is answered in the end, whatever the upstream
\* replies and whichever clients leave: the loop is bounded by tried_accounts and
\* forced_refresh_attempted, and no wait for the disk lock is endless.
EventuallyAnswered ==
  \A r \in Requests : <>[](pc[r] \in {"hold", "answered", "internal", "dropped"})

-----------------------------------------------------------------------------
(* What the documentation says and the code does not do *)

\* OPERATIONS.md: "normal client interruption should not keep
\* in_flight_requests occupied for long".
DisconnectReleases ==
  \A r \in Requests :
    pc[r] = "dropped" ~>
      \/ acct[r] \notin DOMAIN records
      \/ records[acct[r]].in_flight_requests <
           Cardinality({s \in Requests : acct[s] = acct[r]})
=============================================================================
