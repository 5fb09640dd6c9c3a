--------------------------- MODULE AccountRecord ---------------------------
(***************************************************************************)
(* One account as the gateway keeps it in memory (accounts::AccountRecord) *)
(* and what each operation of AccountStore does to that one record: the    *)
(* block transitions, the settlements of a request, the outcomes of a      *)
(* refresh, wake, expiry and selection.  The operators are pure: a record  *)
(* and the time go in, the new record comes out.  AccountPool puts them    *)
(* under the store's lock and interleaves the requests.                    *)
(*                                                                         *)
(* Data left out: label, email, plan, last_* timestamps, error texts and   *)
(* blocked_source, none of which a guard of the code reads.                *)
(***************************************************************************)
EXTENDS Integers

CONSTANTS
  TemporaryCooldown,   \* TEMPORARY_FAILURE_COOLDOWN_SECONDS, 60 in the code
  RiskCooldown,        \* RISK_COOLDOWN_SECONDS, 1800 in the code
  BackoffMax,          \* LOCAL_BACKOFF_MAX_SECONDS, 1800; the base is 1 second
  LevelMax             \* where local_backoff_level saturates: u32::MAX

ASSUME CooldownAssumption ==
  /\ TemporaryCooldown \in Nat \ {0}
  /\ RiskCooldown \in Nat \ {0}
  /\ BackoffMax \in Nat \ {0}
  /\ LevelMax \in Nat

\* Option::None for a time or a duration.
NoTime == -1

RoutingState == {"cold", "ready", "warming", "cooldown", "risk_controlled",
                 "temporarily_unavailable", "auth_invalid"}

BlockedReason == {"rate_limited", "quota_exhausted", "risk_controlled",
                  "temporarily_unavailable", "auth_invalid"}

FailureClass == {"access_token_rejected", "auth_invalid", "rate_limited",
                 "quota_exhausted", "risk_controlled", "temporary_failure",
                 "request_rejected", "internal_failure"}

\* A 401 on a request is access_token_rejected, on a refresh auth_invalid.
RequestFailure == FailureClass \ {"auth_invalid"}
RefreshFailure == FailureClass \ {"access_token_rejected"}

\* The access token with its expiry: absent, usable, or present but missing its
\* expiry or inside the refresh skew.
TokenState == {"none", "fresh", "stale"}

AccountRecord ==
  [ token                  : TokenState,
    routing_state          : RoutingState,
    blocked_reason         : BlockedReason \cup {"none"},
    blocked_until          : Nat \cup {NoTime},
    local_backoff_level    : 0..LevelMax,
    refresh_in_flight      : BOOLEAN,
    in_flight_requests     : Nat,
    auth_invalid_tombstone : BOOLEAN,
    detached               : BOOLEAN ]

\* The record a new account file gets.
ColdRecord ==
  [ token |-> "none", routing_state |-> "cold", blocked_reason |-> "none",
    blocked_until |-> NoTime, local_backoff_level |-> 0,
    refresh_in_flight |-> FALSE, in_flight_requests |-> 0,
    auth_invalid_tombstone |-> FALSE, detached |-> FALSE ]

-----------------------------------------------------------------------------
(* Blocks *)

\* A block with a time is active until that time, one without for as long as
\* it has a reason.
HasActiveBlock(rec, now) ==
  \/ rec.blocked_until # NoTime /\ rec.blocked_until > now
  \/ rec.blocked_until = NoTime /\ rec.blocked_reason # "none"

ClearBlock(rec) ==
  [rec EXCEPT !.blocked_reason = "none", !.blocked_until = NoTime]

AuthInvalidBlock(rec) ==
  [rec EXCEPT !.blocked_reason = "auth_invalid", !.blocked_until = NoTime]

\* Mutant of TimedBlock: the newest block wins.
NewestBlock(rec, reason, until, now) ==
  [rec EXCEPT !.blocked_reason = reason, !.blocked_until = until]

\* A timed block replaces an active timed one only if it ends no earlier, and
\* never an active block without an end.
TimedBlock(rec, reason, until, now) ==
  IF ~HasActiveBlock(rec, now)
     \/ (rec.blocked_until # NoTime /\ until >= rec.blocked_until)
  THEN [rec EXCEPT !.blocked_reason = reason, !.blocked_until = until]
  ELSE rec

FixedBlock(rec, reason, seconds, now) ==
  TimedBlock(rec, reason, now + seconds, now)

\* min(2^level, cap); the overflow of the 64-bit shift is far above the cap.
NextLocalBackoff(level) ==
  IF 2^level \in 1..BackoffMax THEN 2^level ELSE BackoffMax

\* The upstream's own delay when it gives one; the local backoff otherwise,
\* whose level grows even if the block is not applied.
RetryableBlock(rec, reason, retryAfter, now) ==
  IF retryAfter # NoTime
  THEN TimedBlock(rec, reason, now + retryAfter, now)
  ELSE TimedBlock(
         [rec EXCEPT !.local_backoff_level =
            IF rec.local_backoff_level < LevelMax
            THEN rec.local_backoff_level + 1 ELSE LevelMax],
         reason, now + NextLocalBackoff(rec.local_backoff_level), now)

\* The state of an account that nothing blocks.
IdleState(rec) == IF rec.token # "none" THEN "ready" ELSE "cold"

\* refresh_expired_blocks, on one record: every selection and listing runs it.
ExpireBlock(rec, now) ==
  LET expired == rec.blocked_until # NoTime /\ rec.blocked_until <= now
      cleared == IF expired THEN ClearBlock(rec) ELSE rec
      settled == IF /\ expired
                    /\ rec.routing_state # "auth_invalid"
                    /\ ~rec.refresh_in_flight
                 THEN [cleared EXCEPT !.routing_state = IdleState(rec)]
                 ELSE cleared
  IN  IF settled.routing_state = "cold" /\ settled.token # "none"
      THEN [settled EXCEPT !.routing_state = "ready"]
      ELSE settled

-----------------------------------------------------------------------------
(* Selection *)

\* AccountStore::is_eligible.  It reads the end of the block, not its reason.
IsEligible(rec, now) ==
  /\ ~rec.detached
  /\ ~rec.refresh_in_flight
  /\ rec.routing_state # "auth_invalid"
  /\ rec.blocked_until = NoTime \/ rec.blocked_until <= now

NeedsRefresh(rec) == rec.token # "fresh"

\* The selected record: one more request, and a refresh if the token needs one.
Selected(rec) ==
  LET taken == [rec EXCEPT !.in_flight_requests = @ + 1]
  IN  IF NeedsRefresh(rec)
      THEN [taken EXCEPT !.routing_state = "warming", !.refresh_in_flight = TRUE]
      ELSE taken

-----------------------------------------------------------------------------
(* Settlements.  Each one drops the request's hold on the account and, whoever *)
(* is refreshing it, the refresh flag.                                         *)

\* Mutant of Unheld: the refresh mark stays.
UnheldStillMarked(rec) ==
  [rec EXCEPT !.in_flight_requests = IF @ = 0 THEN 0 ELSE @ - 1]

Unheld(rec) ==
  [rec EXCEPT !.in_flight_requests = IF @ = 0 THEN 0 ELSE @ - 1,
              !.refresh_in_flight = FALSE]

\* Mutant of MarkRequestSuccess: a success overrides an active block's state.
SuccessOverridesBlock(rec, now) ==
  IF rec.routing_state # "auth_invalid"
  THEN [Unheld(rec) EXCEPT !.routing_state = IdleState(rec),
                           !.local_backoff_level = 0]
  ELSE Unheld(rec)

MarkRequestSuccess(rec, now) ==
  IF rec.routing_state # "auth_invalid" /\ ~HasActiveBlock(rec, now)
  THEN [Unheld(rec) EXCEPT !.routing_state = IdleState(rec),
                           !.local_backoff_level = 0]
  ELSE Unheld(rec)

ReleaseSelection(rec, now) ==
  IF rec.routing_state = "warming" /\ ~HasActiveBlock(rec, now)
  THEN [Unheld(rec) EXCEPT !.routing_state = IdleState(rec)]
  ELSE Unheld(rec)

\* Not a settlement: the caller still holds the account and settles it next.
InvalidateAccessToken(rec, now) ==
  LET bare == [rec EXCEPT !.token = "none", !.refresh_in_flight = FALSE]
  IN  IF rec.routing_state # "auth_invalid" /\ ~HasActiveBlock(rec, now)
      THEN [bare EXCEPT !.routing_state = "cold"]
      ELSE bare

\* apply_failure: what a failure of each class does to the account.
ApplyFailure(rec, class, retryAfter, now) ==
  LET free == Unheld(rec)
      In(s) == [free EXCEPT !.routing_state = s]
  IN  CASE class = "access_token_rejected" ->
             FixedBlock([In("temporarily_unavailable") EXCEPT !.token = "none"],
                        "temporarily_unavailable", TemporaryCooldown, now)
        [] class = "auth_invalid" ->
             AuthInvalidBlock([In("auth_invalid") EXCEPT !.token = "none"])
        [] class \in {"rate_limited", "quota_exhausted"} ->
             RetryableBlock(In("cooldown"), class, retryAfter, now)
        [] class = "risk_controlled" ->
             FixedBlock(In("risk_controlled"), "risk_controlled", RiskCooldown, now)
        [] class = "temporary_failure" ->
             IF retryAfter # NoTime
             THEN RetryableBlock(In("temporarily_unavailable"),
                                 "temporarily_unavailable", retryAfter, now)
             ELSE FixedBlock(In("temporarily_unavailable"),
                             "temporarily_unavailable", TemporaryCooldown, now)
        [] OTHER ->
             IF ~HasActiveBlock(rec, now) /\ rec.routing_state # "auth_invalid"
             THEN In(IdleState(rec))
             ELSE free

-----------------------------------------------------------------------------
(* Outcomes of a refresh *)

\* finish_refresh_success_without_persist: the hold is kept, the request goes on.
RefreshSucceeded(rec, newToken, now) ==
  LET got == [rec EXCEPT !.token = newToken, !.refresh_in_flight = FALSE]
  IN  IF ~HasActiveBlock(rec, now)
      THEN [ClearBlock(got) EXCEPT !.routing_state = "ready",
                                   !.local_backoff_level = 0]
      ELSE got

\* Neither AuthInvalid step looks at the state the record has reached.
AuthInvalidRecord(rec) ==
  AuthInvalidBlock([rec EXCEPT !.token = "none",
                               !.routing_state = "auth_invalid",
                               !.auth_invalid_tombstone = TRUE])

\* prepare_auth_invalid_failure: drops the hold, tombstones, stays attached.
PrepareAuthInvalid(rec) == AuthInvalidRecord(Unheld(rec))

\* finalize_auth_invalid_failure, once the file is in trash/: detaches.
FinalizeAuthInvalid(rec) == [AuthInvalidRecord(rec) EXCEPT !.detached = TRUE]

-----------------------------------------------------------------------------
(* Administration and the registry *)

\* apply_wake: an administrator lifts the block, unless the account is invalid.
Wake(rec) ==
  IF rec.routing_state = "auth_invalid" \/ rec.blocked_reason = "auth_invalid"
  THEN rec
  ELSE [ClearBlock(rec) EXCEPT
          !.local_backoff_level = 0,
          !.routing_state = IF rec.refresh_in_flight THEN "warming"
                            ELSE IdleState(rec)]

\* upsert_disk_record on a record in memory: attached again unless tombstoned.
Reattached(rec) ==
  [rec EXCEPT !.detached = rec.detached /\ rec.auth_invalid_tombstone]

\* Mutant of IsRemovable: the requests in flight are not looked at.
IsRemovableInUse(rec) == rec.detached /\ ~rec.refresh_in_flight

\* maybe_remove_detached: nobody uses it and no file backs it.
IsRemovable(rec) ==
  rec.detached /\ rec.in_flight_requests = 0 /\ ~rec.refresh_in_flight
=============================================================================
