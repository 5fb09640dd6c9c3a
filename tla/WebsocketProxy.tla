--------------------------- MODULE WebsocketProxy ---------------------------
(***************************************************************************)
(* One client on the responses websocket: proxy_websocket between it and   *)
(* the upstream connection of an account, the handler that connects and    *)
(* settles around it, and the replay of a request on another account when   *)
(* the first fails before it has committed the request.                    *)
(*                                                                         *)
(* A step is one arm of the select! loop, or one answer the retry awaits:  *)
(* the task is the only one on its sockets, but the client may leave at    *)
(* any time.  A client message is known by its number, an upstream message *)
(* by its kind.  Accounts are chosen by the failover loop (AccountPool),   *)
(* of which only the outcomes are left.  Rate limit events for other       *)
(* callers than Codex, which are dropped, the rewriting of payloads and    *)
(* the turn state are left out; a rewritten previous_response_not_found is *)
(* a "reset".                                                              *)
(***************************************************************************)
EXTENDS Integers, Sequences, SequencesExt, Functions

CONSTANTS
  Accounts,
  NoAccount,
  MaxMessages   \* bound on the messages of the client and of its upstream
                \* connections together

ASSUME ProxyAssumption ==
  /\ NoAccount \notin Accounts
  /\ MaxMessages \in Nat

VARIABLES
  pc,         \* "upgrading", "open", "retry" (awaits a connection),
              \* "replay" (sends the request again), "done"
  client,     \* "up" or "gone"
  account,    \* current_account_id
  candidate,  \* the account being tried by a retry, or NoAccount
  owed,       \* selections of each account less its settlements
  turn,       \* pending_request
  upstream,   \* what the current upstream connection was sent
  conn,       \* which connection of this client it is
  said,       \* what the upstream has said, and over which connection
  asked,      \* what the client has sent
  delivered,  \* what the client was sent, and over which connection
  start,      \* where the turn began in asked, said and delivered
  path,       \* the accounts connected to for this turn
  outcome     \* how the last account was settled

vars == <<pc, client, account, candidate, owed, turn, upstream, conn, said,
          asked, delivered, start, path, outcome>>

connection == <<account, upstream, conn>>
request    == <<asked, start, path>>

\* response.create, other text or binary, and ping or pong.
ClientKinds == {"create", "text", "ping"}

Replayable == {"create", "text"}

\* Rate limits, an event within a response, response.completed, a failure that
\* another account may not have (or a close that tells one), one of the request
\* itself, a response.failed without its response, the connection limit, ping or
\* pong, and a normal close.
UpstreamKinds == {"rate_limits", "event", "completed", "failed", "rejected",
                  "malformed", "reset", "ping", "close"}

Text == UpstreamKinds \ {"ping", "close"}

\* And to the client, the error message of the gateway itself.
ClientHears == UpstreamKinds \cup {"gateway"}

NoTurn == [pending |-> FALSE, committed |-> FALSE,
           messages |-> <<>>, buffered |-> <<>>, tried |-> {}]

NewTurn == [NoTurn EXCEPT !.pending = TRUE]

TypeOK ==
  /\ pc \in {"upgrading", "open", "retry", "replay", "done"}
  /\ client \in {"up", "gone"}
  /\ account \in Accounts /\ candidate \in Accounts \cup {NoAccount}
  /\ owed \in [Accounts -> Int]
  /\ turn \in [pending : BOOLEAN, committed : BOOLEAN, messages : Seq(1..MaxMessages),
               buffered : Seq(Text), tried : SUBSET Accounts]
  /\ upstream \in Seq(1..MaxMessages)
  /\ conn \in Nat
  /\ said \in Seq([conn : 1..conn, kind : UpstreamKinds])
  /\ asked \in Seq(ClientKinds) /\ Len(asked) + Len(said) <= MaxMessages
  /\ delivered \in Seq([conn : 1..conn, kind : ClientHears])
  /\ start \in [asked : 0..Len(asked), said : 0..Len(said), delivered : 0..Len(delivered)]
  /\ path \in Seq(Accounts)
  /\ outcome \in {"none", "success", "released", "failure"}

\* The failover loop has connected the upstream, and the client upgrades.
Init ==
  /\ pc = "upgrading" /\ client = "up"
  /\ account \in Accounts /\ candidate = NoAccount
  /\ owed = [a \in Accounts |-> IF a = account THEN 1 ELSE 0]
  /\ turn = NoTurn /\ upstream = <<>> /\ conn = 1 /\ said = <<>>
  /\ asked = <<>> /\ delivered = <<>>
  /\ start = [asked |-> 0, said |-> 0, delivered |-> 0]
  /\ path = <<>> /\ outcome = "none"

-----------------------------------------------------------------------------
(* What a message means *)

\* upstream_message_commits_request and upstream_message_is_terminal
Commits(kind)  == kind \in {"event", "completed"}
Terminal(kind) == kind \in {"completed", "failed", "rejected", "malformed", "reset", "close"}

\* classify_websocket_upstream_control_message and active_request_close_failure
KnownSettlement(kind) ==
  CASE kind = "completed" -> "success"
    [] kind \in {"failed", "rejected", "reset"} -> "failure"
    [] kind = "close" -> IF turn.pending THEN "failure" ELSE "released"
    [] OTHER -> "none"

\* Mutant of HeldBack: nothing is.
NothingHeld(kind) == FALSE

\* should_buffer_upstream_message_before_commit
HeldBack(kind) == kind \in Text

\* should_failover_precommit_failure
FailsOver(kind) == kind \in {"failed", "close"}

Uncommitted(t) == t.pending /\ ~t.committed

-----------------------------------------------------------------------------
(* Steps that many arms share *)

Settle(a) == owed' = [owed EXCEPT ![a] = @ - 1]

\* proxy_websocket returns; its caller settles the account.
Return(how) ==
  /\ pc' = "done" /\ outcome' = how
  /\ Settle(account)
  /\ UNCHANGED <<client, connection, candidate>>

\* A send to a client that left may fail, and then nothing more is sent.
Deliver(kinds, ok) ==
  /\ ok \/ client = "gone"
  /\ delivered' = IF ok
                  THEN delivered \o [i \in 1..Len(kinds) |-> [conn |-> conn, kind |-> kinds[i]]]
                  ELSE delivered

\* outcome_after_client_delivery_failure
OrReleased(how) == IF how = "none" THEN "released" ELSE how

\* The loop goes on.
Stay ==
  /\ pc' = "open"
  /\ UNCHANGED <<client, account, conn, candidate, owed, outcome>>

\* Mutant of Retry: the account that failed may be chosen again.
RetryAnywhere(t) ==
  /\ pc' = "retry"
  /\ turn' = t
  /\ UNCHANGED <<client, connection, candidate, owed, delivered, outcome>>

\* retry_pending_websocket_request is entered.
Retry(t) ==
  /\ pc' = "retry"
  /\ turn' = [t EXCEPT !.tried = @ \cup {account}]
  /\ UNCHANGED <<client, connection, candidate, owed, delivered, outcome>>

-----------------------------------------------------------------------------
(* The client *)

\* on_failed_upgrade
UpgradeFails ==
  /\ pc = "upgrading"
  /\ Return("released")
  /\ UNCHANGED <<turn, said, delivered, request>>

Upgrade ==
  /\ pc = "upgrading"
  /\ Stay
  /\ UNCHANGED <<upstream, turn, said, delivered, request>>

ClientLeaves ==
  /\ client = "up" /\ pc # "done"
  /\ client' = "gone"
  /\ UNCHANGED <<pc, connection, candidate, owed, turn, said, delivered, request, outcome>>

\* The socket of the client ends, it sends a close frame, or the gateway
\* shuts down.
Leave ==
  /\ pc = "open"
  /\ Return("released")
  /\ UNCHANGED <<turn, said, delivered, request>>

\* Mutant of Kept: what follows response.create is not kept for a replay.
KeptFirst(t, kind, n) ==
  IF Uncommitted(t) /\ kind = "create" THEN [t EXCEPT !.messages = Append(@, n)] ELSE t

\* The messages of an uncommitted request are kept for a replay.
Kept(t, kind, n) ==
  IF Uncommitted(t) /\ kind \in Replayable THEN [t EXCEPT !.messages = Append(@, n)] ELSE t

\* The arm for a message of the client.  Its send upstream may fail.
ClientSends(kind) ==
  LET n == Len(asked) + 1
      t == Kept(IF kind = "create" THEN NewTurn ELSE turn, kind, n)
  IN  /\ pc = "open" /\ n + Len(said) <= MaxMessages
      /\ asked' = Append(asked, kind)
      /\ IF kind = "create"
         THEN /\ start' = [asked |-> n - 1, said |-> Len(said), delivered |-> Len(delivered)]
              /\ path' = <<account>>
         ELSE UNCHANGED <<start, path>>
      /\ \/ /\ Stay
            /\ upstream' = Append(upstream, n)
            /\ turn' = t
         \/ Uncommitted(t) /\ Retry(t)
         \/ ~Uncommitted(t) /\ Return("failure") /\ turn' = t
      /\ UNCHANGED <<said, delivered>>

-----------------------------------------------------------------------------
(* The upstream *)

Says(kind) ==
  /\ pc = "open" /\ Len(asked) + Len(said) < MaxMessages
  /\ said' = Append(said, [conn |-> conn, kind |-> kind])

\* The connection breaks or ends without a close frame.
Breaks ==
  /\ pc = "open"
  /\ IF Uncommitted(turn)
     THEN Retry(turn)
     ELSE Return("failure") /\ UNCHANGED <<turn, delivered>>
  /\ UNCHANGED <<said, request>>

\* The connection limit, which a client answers by connecting again: passed on,
\* and the account is not to blame.
Reset ==
  /\ Says("reset")
  /\ Uncommitted(turn)
  /\ \E ok \in BOOLEAN : Deliver(Append(turn.buffered, "reset"), ok)
  /\ turn' = [turn EXCEPT !.buffered = <<>>]
  /\ Return("released")
  /\ UNCHANGED request

\* A failure before the request is committed.
FailsEarly(kind) ==
  /\ Says(kind)
  /\ Uncommitted(turn) /\ kind # "reset" /\ KnownSettlement(kind) = "failure"
  /\ IF FailsOver(kind)
     THEN Retry(turn)
     ELSE /\ \E ok \in BOOLEAN : Deliver(Append(turn.buffered, kind), ok)
          /\ turn' = [turn EXCEPT !.buffered = <<>>]
          /\ Return("failure")
  /\ UNCHANGED request

\* Mutant of Passed: a commit does not take along what was held back.
PassedLast(t, kind) ==
  IF Commits(kind) \/ ~HeldBack(kind) THEN <<kind>> ELSE <<>>

\* What a message passes on: a commit, all that was held back.
Passed(t, kind) ==
  (IF HeldBack(kind) THEN <<>> ELSE <<kind>>) \o (IF Commits(kind) THEN t.buffered ELSE <<>>)

\* Another message before the request is committed: text is held back until one
\* of them commits the request, the rest is passed on.
SaysEarly(kind) ==
  /\ Says(kind)
  /\ Uncommitted(turn) /\ KnownSettlement(kind) # "failure"
  /\ LET t == IF HeldBack(kind) THEN [turn EXCEPT !.buffered = Append(@, kind)] ELSE turn
         u == [t EXCEPT !.committed = Commits(kind),
                        !.buffered = IF Commits(kind) THEN <<>> ELSE @]
         how == KnownSettlement(kind)
     IN  \E ok \in BOOLEAN :
           /\ Deliver(Passed(t, kind), ok)
           /\ ok \/ Passed(t, kind) # <<>>
           /\ turn' = IF ok /\ Terminal(kind) THEN NoTurn ELSE u
           /\ IF ~ok THEN Return(OrReleased(how))
              ELSE IF how # "none" THEN Return(how)
              ELSE Stay /\ UNCHANGED upstream
  /\ UNCHANGED request

\* A message to a committed request, or to none, is passed on.
SaysLate(kind) ==
  /\ Says(kind)
  /\ ~Uncommitted(turn)
  /\ LET how == KnownSettlement(kind) IN
     \E ok \in BOOLEAN :
       /\ Deliver(<<kind>>, ok)
       /\ turn' = IF ok /\ how = "none" /\ Terminal(kind) THEN NoTurn ELSE turn
       /\ IF ~ok THEN Return(OrReleased(how))
          ELSE IF how # "none" THEN Return(how)
          ELSE Stay /\ UNCHANGED upstream
  /\ UNCHANGED request

-----------------------------------------------------------------------------
(* The retry *)

\* The failover loop connects to another account; those it tried in vain are
\* settled, and not tried again.
Connect(a) ==
  /\ pc = "retry" /\ a \notin turn.tried
  /\ \E failed \in SUBSET (Accounts \ {a}) :
       turn' = [turn EXCEPT !.tried = @ \cup failed]
  /\ candidate' = a
  /\ owed' = [owed EXCEPT ![a] = @ + 1]
  /\ path' = Append(path, a)
  /\ pc' = "replay"
  /\ UNCHANGED <<client, connection, said, asked, delivered, start, outcome>>

\* Mutant of NoReplacement: the client is not told.
NoReplacementSilent ==
  /\ pc = "retry"
  /\ \E ok \in BOOLEAN : Deliver(turn.buffered, ok)
  /\ turn' = [turn EXCEPT !.buffered = <<>>]
  /\ Return("failure")
  /\ UNCHANGED <<said, request>>

\* No account is left: the client gets what was held back, and an error.
NoReplacement ==
  /\ pc = "retry"
  /\ \E ok \in BOOLEAN : Deliver(Append(turn.buffered, "gateway"), ok)
  /\ turn' = [turn EXCEPT !.buffered = <<>>]
  /\ Return("failure")
  /\ UNCHANGED <<said, request>>

\* The replacement fails while the request is sent to it.
ReplayFails ==
  /\ pc = "replay"
  /\ turn' = [turn EXCEPT !.tried = @ \cup {candidate}]
  /\ Settle(candidate)
  /\ candidate' = NoAccount
  /\ pc' = "retry"
  /\ UNCHANGED <<client, connection, said, delivered, request, outcome>>

\* Mutant of SettleFailed: it is left to the caller.
LeaveFailed == UNCHANGED owed

SettleFailed == Settle(account)

\* The replacement has the whole request: apply_websocket_retry_switch.
Switch ==
  /\ pc = "replay"
  /\ SettleFailed
  /\ account' = candidate /\ candidate' = NoAccount
  /\ upstream' = turn.messages /\ conn' = conn + 1
  /\ turn' = [turn EXCEPT !.buffered = <<>>]
  /\ pc' = "open"
  /\ UNCHANGED <<client, said, delivered, request, outcome>>

-----------------------------------------------------------------------------

Next ==
  \/ UpgradeFails \/ Upgrade \/ ClientLeaves \/ Leave
  \/ \E kind \in ClientKinds : ClientSends(kind)
  \/ Breaks \/ Reset
  \/ \E kind \in UpstreamKinds : FailsEarly(kind) \/ SaysEarly(kind) \/ SaysLate(kind)
  \/ \E a \in Accounts : Connect(a)
  \/ NoReplacement \/ ReplayFails \/ Switch

Spec == Init /\ [][Next]_vars

-----------------------------------------------------------------------------
(* Safety *)

\* Each account the socket selects is settled once: an account is owed a settlement
\* exactly as long as the socket, or its retry, holds it (the switch settles
\* the account that failed, retry_pending_websocket_request the ones whose replay
\* fails, and the handler the last one).
SettledOnce ==
  \A a \in Accounts :
    owed[a] = (IF pc # "done" /\ account = a THEN 1 ELSE 0)
              + (IF candidate = a THEN 1 ELSE 0)

\* What the client has sent since response.create, and may be replayed.
Whole == {n \in start.asked + 1..Len(asked) : asked[n] \in Replayable}

InOrder(s) == \A i, j \in DOMAIN s : i < j => s[i] < s[j]

\* README.md: a request "retried on a different upstream account before commit" is
\* replayed: as long as it may be retried, the connection that serves it was
\* sent all the client has sent since response.create, in order, once.
WholeRequest ==
  Uncommitted(turn) =>
    /\ InOrder(turn.messages) /\ Range(turn.messages) = Whole
    /\ pc = "open" => InOrder(upstream) /\ Whole \subseteq Range(upstream)

\* The client never reads one response from two accounts: whatever was held back
\* of an account that failed is gone, and nothing else of it was passed on.
OneUpstreamPerTurn ==
  LET texts == {i \in start.delivered + 1..Len(delivered) : delivered[i].kind \in Text}
  IN  pc = "open" => \A i \in texts : delivered[i].conn = conn

\* A retry never goes back to an account that failed this request, so it ends
\* when the accounts do.
NoAccountTwice == IsInjective(path)

\* The text that the connection has said since the turn began, and what of it the
\* client was sent.
TextHere(messages, from) ==
  LET here == {i \in from + 1..Len(messages) :
                 messages[i].conn = conn /\ messages[i].kind \in Text}
  IN  [i \in here |-> messages[i].kind]

Spoken == TextHere(said, start.said)
Heard  == TextHere(delivered, start.delivered)

\* Two functions of numbers have the same values in the same order.
InStep(f, g) ==
  \E match \in [DOMAIN f -> DOMAIN g] :
    /\ \A i \in DOMAIN f : f[i] = g[match[i]]
    /\ \A i, j \in DOMAIN f : i < j => match[i] < match[j]
    /\ \A k \in DOMAIN g : \E i \in DOMAIN f : match[i] = k

\* The client of a request that is committed, or over, has been sent all the text its
\* connection has said since, in order; unless there was a response.failed
\* without a response, which ends a request that is not committed and is dropped.
NothingHeldBack ==
  (pc = "open" /\ ~Uncommitted(turn)) =>
    \/ \E i \in 1..Len(said) : said[i].kind = "malformed"
    \/ InStep(Heard, Spoken)

\* A client that stays is told how its request ended: response.completed before its
\* account is settled as a success, and a failure before the request was
\* committed is never silent.
ClientTold ==
  (pc = "done" /\ client = "up") =>
    /\ outcome = "success" => Last(delivered).kind = "completed"
    /\ (outcome = "failure" /\ Uncommitted(turn)) =>
         /\ Len(delivered) > start.delivered
         /\ Last(delivered).kind \in {"rejected", "gateway"}

-----------------------------------------------------------------------------
(* What the account pool is promised *)

\* The socket holds the account it is connected to until it returns, its retry
\* the account it tries.
Lease == INSTANCE AccountLease WITH
  Users   <- {"socket", "retry"},
  Nobody  <- NoAccount,
  lease   <- [h \in {"socket", "retry"} |->
                IF h = "retry" THEN candidate
                ELSE IF pc = "done" THEN NoAccount ELSE account],
  count   <- owed

\* Each account is settled once, by whoever holds it, at every step of a socket
\* that fails, retries and moves between accounts.
LeasesAccounts == Lease!Spec
=============================================================================
