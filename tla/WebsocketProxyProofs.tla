------------------------ MODULE WebsocketProxyProofs ------------------------
(*****************************************************************************)
(* What the runs of WebsocketProxy check for a few messages, for any number  *)
(* of accounts and messages: the socket and its retry settle each account    *)
(* they select once, as AccountLease promises, and a request never returns   *)
(* to an account that failed it.                                             *)
(*                                                                           *)
(* Then what is said over the socket.  A request is replayed with all its    *)
(* messages (KeptInv: what is kept of it is what the client has sent); the   *)
(* client reads a response from one account (TalkInv: a request that may be  *)
(* replayed has not been answered), with nothing of it held back (HeldInv:   *)
(* the buffer and what the connection has said are in step), and is told     *)
(* when its request comes to nothing.                                        *)
(*****************************************************************************)
EXTENDS WebsocketProxy, FiniteSetTheorems, SequenceTheorems, TLAPS

-----------------------------------------------------------------------------
(* The lease *)

\* The part of the state that says who has to settle what: a retry has a candidate
\* exactly while it replays the request, and all selections are accounted for.
LeaseInv ==
  /\ pc \in {"upgrading", "open", "retry", "replay", "done"}
  /\ account \in Accounts /\ candidate \in Accounts \cup {NoAccount}
  /\ owed \in [Accounts -> Int]
  /\ candidate # NoAccount <=> pc = "replay"
  /\ SettledOnce

LEMMA LeaseInit == Init => LeaseInv
  BY ProxyAssumption DEF Init, LeaseInv, SettledOnce

\* A step that neither ends the socket nor moves between accounts.
LEMMA KeepsHolding ==
  ASSUME LeaseInv, pc # "done",
         pc' \in {"upgrading", "open", "retry"} \/ pc' = pc,
         pc' = pc \/ pc # "replay",
         UNCHANGED <<account, candidate, owed>>
  PROVE  LeaseInv' /\ UNCHANGED Lease!vars
<1>1. LeaseInv'
  BY DEF LeaseInv, SettledOnce
<1>2. UNCHANGED Lease!vars
  BY <1>1 DEF LeaseInv, Lease!vars
<1> QED
  BY <1>1, <1>2

LEMMA ReturnSettles ==
  ASSUME LeaseInv, pc \notin {"replay", "done"}, NEW how, Return(how)
  PROVE  LeaseInv' /\ Lease!Next
<1>1. LeaseInv'
  BY DEF LeaseInv, SettledOnce, Return, Settle, connection
<1>2. Lease!Settle("socket")
  BY ProxyAssumption DEF LeaseInv, Return, Settle, connection, Lease!Settle
<1> QED
  BY <1>1, <1>2 DEF Lease!Next

LEMMA ConnectTakes ==
  ASSUME LeaseInv, NEW a \in Accounts, Connect(a)
  PROVE  LeaseInv' /\ Lease!Next
<1>1. LeaseInv'
  <2>1. /\ pc = "retry" /\ pc' = "replay" /\ candidate = NoAccount /\ candidate' = a
        /\ account' = account /\ owed' = [owed EXCEPT ![a] = @ + 1]
    BY DEF LeaseInv, Connect, connection
  <2>2. owed' \in [Accounts -> Int]
    BY <2>1 DEF LeaseInv
  <2>3. SettledOnce'
    BY <2>1, ProxyAssumption DEF LeaseInv, SettledOnce
  <2> QED
    BY <2>1, <2>2, <2>3, ProxyAssumption DEF LeaseInv
<1>2. Lease!Take("retry", a)
  BY ProxyAssumption DEF LeaseInv, Connect, connection, Lease!Take
<1> QED
  BY <1>1, <1>2 DEF Lease!Next

LEMMA ReplayFailsSettles ==
  ASSUME LeaseInv, ReplayFails
  PROVE  LeaseInv' /\ Lease!Next
<1>1. candidate \in Accounts
  BY DEF LeaseInv, ReplayFails
<1>2. LeaseInv'
  BY <1>1, ProxyAssumption DEF LeaseInv, SettledOnce, ReplayFails, Settle, connection
<1>3. Lease!Settle("retry")
  BY <1>1, ProxyAssumption DEF LeaseInv, ReplayFails, Settle, connection, Lease!Settle
<1> QED
  BY <1>2, <1>3 DEF Lease!Next

LEMMA SwitchTakesOver ==
  ASSUME LeaseInv, Switch
  PROVE  LeaseInv' /\ Lease!Next
<1>1. candidate \in Accounts
  BY DEF LeaseInv, Switch
<1>2. LeaseInv'
  BY <1>1, ProxyAssumption DEF LeaseInv, SettledOnce, Switch, SettleFailed, Settle
<1>3. Lease!TakeOver("socket", "retry")
  BY <1>1, ProxyAssumption
     DEF LeaseInv, Switch, SettleFailed, Settle, Lease!TakeOver
<1> QED
  BY <1>2, <1>3 DEF Lease!Next

LEMMA LeaseStep ==
  ASSUME LeaseInv, [Next]_vars
  PROVE  LeaseInv' /\ [Lease!Next]_(Lease!vars)
<1>1. CASE UNCHANGED vars
  BY <1>1 DEF vars, LeaseInv, SettledOnce, Lease!vars
<1>2. CASE UpgradeFails
  BY <1>2, ReturnSettles DEF UpgradeFails
<1>3. CASE Upgrade
  BY <1>3, KeepsHolding DEF Upgrade, Stay
<1>4. CASE ClientLeaves
  BY <1>4, KeepsHolding DEF ClientLeaves, connection
<1>5. CASE Leave
  BY <1>5, ReturnSettles DEF Leave
<1>6. ASSUME NEW kind \in ClientKinds, ClientSends(kind)
      PROVE  LeaseInv' /\ [Lease!Next]_(Lease!vars)
  <2>1. pc = "open"
    BY <1>6 DEF ClientSends
  <2>2. \/ Stay
        \/ \E t : Retry(t)
        \/ Return("failure")
    BY <1>6 DEF ClientSends
  <2>3. CASE Stay
    BY <2>1, <2>3, KeepsHolding DEF Stay
  <2>4. CASE \E t : Retry(t)
    BY <2>1, <2>4, KeepsHolding DEF Retry, connection
  <2>5. CASE Return("failure")
    BY <2>1, <2>5, ReturnSettles
  <2> QED
    BY <2>2, <2>3, <2>4, <2>5
<1>7. CASE Breaks
  <2>1. CASE Uncommitted(turn)
    BY <1>7, <2>1, KeepsHolding DEF Breaks, Retry, connection
  <2>2. CASE ~Uncommitted(turn)
    BY <1>7, <2>2, ReturnSettles DEF Breaks
  <2> QED
    BY <2>1, <2>2
<1>8. CASE Reset
  BY <1>8, ReturnSettles DEF Reset, Says
<1>9. ASSUME NEW kind \in UpstreamKinds, FailsEarly(kind)
      PROVE  LeaseInv' /\ [Lease!Next]_(Lease!vars)
  <2>1. CASE FailsOver(kind)
    BY <1>9, <2>1, KeepsHolding DEF FailsEarly, Says, Retry, connection
  <2>2. CASE ~FailsOver(kind)
    BY <1>9, <2>2, ReturnSettles DEF FailsEarly, Says
  <2> QED
    BY <2>1, <2>2
<1>10. ASSUME NEW kind \in UpstreamKinds, SaysEarly(kind) \/ SaysLate(kind)
       PROVE  LeaseInv' /\ [Lease!Next]_(Lease!vars)
  <2>1. pc = "open"
    BY <1>10 DEF SaysEarly, SaysLate, Says
  <2>2. Stay \/ \E how : Return(how)
    BY <1>10 DEF SaysEarly, SaysLate
  <2>3. CASE Stay
    BY <2>1, <2>3, KeepsHolding DEF Stay
  <2>4. CASE \E how : Return(how)
    BY <2>1, <2>4, ReturnSettles
  <2> QED
    BY <2>2, <2>3, <2>4
<1>11. ASSUME NEW a \in Accounts, Connect(a)
       PROVE  LeaseInv' /\ [Lease!Next]_(Lease!vars)
  BY <1>11, ConnectTakes
<1>12. CASE NoReplacement
  BY <1>12, ReturnSettles DEF NoReplacement
<1>13. CASE ReplayFails
  BY <1>13, ReplayFailsSettles
<1>14. CASE Switch
  BY <1>14, SwitchTakesOver
<1> QED
  BY <1>1, <1>2, <1>3, <1>4, <1>5, <1>6, <1>7, <1>8, <1>9, <1>10, <1>11, <1>12,
     <1>13, <1>14 DEF Next

LEMMA LeaseStarts == Init => Lease!Init
<1> SUFFICES ASSUME Init
             PROVE  Lease!Init
  OBVIOUS
<1>1. ASSUME NEW a \in Accounts
      PROVE  Lease!HeldBy(a) = IF a = account THEN {"socket"} ELSE {}
  BY <1>1, ProxyAssumption DEF Init, Lease!HeldBy
<1>2. Cardinality({"socket"}) = 1 /\ Cardinality({}) = 0
  BY FS_Singleton, FS_EmptySet
<1>3. ASSUME NEW S
      PROVE  Lease!Cardinality(S) = Cardinality(S)
  BY DEF Cardinality, Lease!Cardinality
<1>4. owed = [a \in Accounts |-> Lease!Cardinality(Lease!HeldBy(a))]
  BY <1>1, <1>2, <1>3 DEF Init
<1> QED
  BY <1>4 DEF Init, Lease!Init

\* Every account a socket selects is settled once, however often its requests fail
\* over and wherever the socket ends (proxy_websocket, apply_websocket_retry_switch,
\* retry_pending_websocket_request).
THEOREM SocketSettlesOnce == Spec => []SettledOnce
<1>1. LeaseInv /\ [Next]_vars => LeaseInv'
  BY LeaseStep
<1>2. LeaseInv => SettledOnce
  BY DEF LeaseInv
<1> QED
  BY LeaseInit, <1>1, <1>2, PTL DEF Spec

\* The socket implements the lease: every step that touches in_flight_requests takes,
\* settles or takes over one account, and nothing else does.
THEOREM SocketImplementsLease == Spec => LeasesAccounts
<1>1. LeaseInv /\ [Next]_vars => LeaseInv' /\ [Lease!Next]_(Lease!vars)
  BY LeaseStep
<1> QED
  BY LeaseInit, LeaseStarts, <1>1, PTL DEF Spec, LeasesAccounts, Lease!Spec

-----------------------------------------------------------------------------
(* Types *)

Turns == [pending : BOOLEAN, committed : BOOLEAN, messages : Seq(1..MaxMessages),
          buffered : Seq(Text), tried : SUBSET Accounts]

\* What was sent upstream, and what was said, asked and heard since the turn began.
TalkType ==
  /\ upstream \in Seq(1..MaxMessages)
  /\ conn \in Nat
  /\ said \in Seq([conn : 1..conn, kind : UpstreamKinds])
  /\ asked \in Seq(ClientKinds) /\ Len(asked) + Len(said) <= MaxMessages
  /\ delivered \in Seq([conn : 1..conn, kind : ClientHears])
  /\ start \in [asked : 0..Len(asked), said : 0..Len(said), delivered : 0..Len(delivered)]
  /\ path \in Seq(Accounts)

TypeInv ==
  /\ LeaseInv
  /\ client \in {"up", "gone"}
  /\ turn \in Turns
  /\ TalkType /\ conn >= 1
  /\ outcome \in {"none", "success", "released", "failure"}

LEMMA TypeStarts == Init => TypeInv
  BY LeaseInit, ProxyAssumption DEF Init, TypeInv, Turns, TalkType, NoTurn

LEMMA TurnChanges ==
  ASSUME turn \in Turns
  PROVE  /\ NewTurn \in Turns /\ NoTurn \in Turns
         /\ \A A \in SUBSET Accounts : [turn EXCEPT !.tried = @ \cup A] \in Turns
         /\ [turn EXCEPT !.buffered = <<>>] \in Turns
<1>1. NoTurn \in Turns
  BY DEF Turns, NoTurn
<1>2. NewTurn \in Turns
  BY <1>1 DEF Turns, NewTurn
<1>3. \A A \in SUBSET Accounts : [turn EXCEPT !.tried = @ \cup A] \in Turns
  BY DEF Turns
<1>4. [turn EXCEPT !.buffered = <<>>] \in Turns
  <2>1. <<>> \in Seq(Text)
    OBVIOUS
  <2> QED
    BY <2>1 DEF Turns
<1> QED
  BY <1>1, <1>2, <1>3, <1>4

\* A step that says nothing to the client leaves it as it is.
LEMMA Unheard ==
  ASSUME TalkType, UNCHANGED <<upstream, conn, said, asked, delivered, start>>,
         path' \in Seq(Accounts)
  PROVE  TalkType'
  BY DEF TalkType

LEMMA Delivered ==
  ASSUME TalkType, conn >= 1, NEW kinds \in Seq(ClientHears), NEW ok, Deliver(kinds, ok),
         conn' = conn
  PROVE  /\ delivered' \in Seq([conn : 1..conn, kind : ClientHears])
         /\ Len(delivered') >= Len(delivered)
<1> DEFINE H == [conn : 1..conn, kind : ClientHears]
           new == [i \in 1..Len(kinds) |-> [conn |-> conn, kind |-> kinds[i]]]
<1>1. \A i \in 1..Len(kinds) : [conn |-> conn, kind |-> kinds[i]] \in H
  BY DEF TalkType
<1>2. new \in Seq(H)
  <2> HIDE DEF H
  <2>1. Len(kinds) \in Nat
    OBVIOUS
  <2> QED
    BY <1>1, <2>1
<1>3. delivered \in Seq(H)
  BY DEF TalkType
<1>4. delivered' = delivered \o new \/ delivered' = delivered
  BY DEF Deliver
<1> QED
  <2> HIDE DEF H, new
  <2>1. /\ delivered \o new \in Seq(H)
        /\ Len(delivered \o new) = Len(delivered) + Len(new)
    BY <1>2, <1>3, ConcatProperties
  <2>2. Len(delivered) \in Nat /\ Len(new) \in Nat
    BY <1>2, <1>3, LenProperties
  <2>3. delivered' \in Seq(H) /\ Len(delivered') >= Len(delivered)
    <3>1. CASE delivered' = delivered
      BY <3>1, <1>3, <2>2
    <3>2. CASE delivered' = delivered \o new
      BY <3>2, <2>1, <2>2
    <3> QED
      BY <1>4, <3>1, <3>2
  <2> QED
    BY <2>3 DEF H

LEMMA Said ==
  ASSUME TalkType, conn >= 1, conn' = conn,
         said' = said \/ \E kind \in UpstreamKinds : Says(kind)
  PROVE  /\ said' \in Seq([conn : 1..conn, kind : UpstreamKinds])
         /\ Len(said') >= Len(said)
         /\ Len(asked) + Len(said') <= MaxMessages
<1> DEFINE M == [conn : 1..conn, kind : UpstreamKinds]
<1>1. /\ said \in Seq(M) /\ Len(said) \in Nat /\ Len(asked) \in Nat
      /\ Len(asked) + Len(said) <= MaxMessages
  BY LenProperties DEF TalkType
<1>2. CASE said' = said
  BY <1>1, <1>2
<1>3. ASSUME NEW kind \in UpstreamKinds, Says(kind)
      PROVE  /\ said' \in Seq(M) /\ Len(said') >= Len(said)
             /\ Len(asked) + Len(said') <= MaxMessages
  <2>1. [conn |-> conn, kind |-> kind] \in M
    BY DEF TalkType
  <2>2. /\ said' = Append(said, [conn |-> conn, kind |-> kind])
        /\ Len(asked) + Len(said) < MaxMessages
    BY <1>3 DEF Says
  <2>3. said' \in Seq(M) /\ Len(said') = Len(said) + 1
    <3> HIDE DEF M
    <3> QED
      BY <1>1, <2>1, <2>2, AppendProperties
  <2> QED
    BY <1>1, <2>2, <2>3, ProxyAssumption
<1> QED
  BY <1>1, <1>2, <1>3

\* A step of the upstream, or one that answers the client.
LEMMA Talked ==
  ASSUME TalkType, conn >= 1, conn' = conn, UNCHANGED <<upstream, asked, start, path>>,
         said' = said \/ \E kind \in UpstreamKinds : Says(kind),
         delivered' = delivered \/ \E kinds \in Seq(ClientHears), ok \in BOOLEAN : Deliver(kinds, ok)
  PROVE  TalkType'
<1>1. /\ said' \in Seq([conn : 1..conn, kind : UpstreamKinds])
      /\ Len(said') >= Len(said) /\ Len(said') \in Nat /\ Len(said) \in Nat
      /\ Len(asked) + Len(said') <= MaxMessages
  BY Said, LenProperties DEF TalkType
<1>2. /\ delivered' \in Seq([conn : 1..conn, kind : ClientHears])
      /\ Len(delivered') >= Len(delivered)
  <2>1. CASE delivered' = delivered
    BY <2>1, LenProperties DEF TalkType
  <2>2. CASE \E kinds \in Seq(ClientHears), ok \in BOOLEAN : Deliver(kinds, ok)
    BY <2>2, Delivered
  <2> QED
    BY <2>1, <2>2
<1>3. Len(delivered) \in Nat /\ Len(delivered') \in Nat
  BY <1>2, LenProperties DEF TalkType
<1>4. start' \in [asked : 0..Len(asked), said : 0..Len(said'), delivered : 0..Len(delivered')]
  BY <1>1, <1>2, <1>3 DEF TalkType
<1> QED
  BY <1>1, <1>2, <1>4 DEF TalkType

\* What is passed on is of a kind the client knows.
LEMMA PassedOn ==
  ASSUME NEW t \in Turns, NEW kind \in ClientHears
  PROVE  /\ <<>> \in Seq(ClientHears) /\ <<kind>> \in Seq(ClientHears)
         /\ t.buffered \in Seq(Text) /\ t.buffered \in Seq(ClientHears)
         /\ Append(t.buffered, kind) \in Seq(ClientHears)
<1>1. Text \subseteq ClientHears
  BY DEF Text, ClientHears
<1>2. t.buffered \in Seq(Text)
  BY DEF Turns
<1>3. t.buffered \in Seq(ClientHears)
  BY <1>1, <1>2, SeqMonotonic
<1>4. Append(t.buffered, kind) \in Seq(ClientHears)
  BY <1>3, AppendProperties
<1> QED
  BY <1>2, <1>3, <1>4

\* What TypeInv says beyond LeaseInv.
Others ==
  /\ client \in {"up", "gone"}
  /\ turn \in Turns
  /\ TalkType /\ conn >= 1
  /\ outcome \in {"none", "success", "released", "failure"}

Ends == {"success", "released", "failure"}

LEMMA EndsKnown ==
  ASSUME NEW kind \in UpstreamKinds
  PROVE  /\ KnownSettlement(kind) \in Ends \cup {"none"}
         /\ OrReleased(KnownSettlement(kind)) \in Ends
  BY DEF KnownSettlement, OrReleased, Ends, UpstreamKinds

LEMMA OthersReturn ==
  ASSUME Others, NEW how \in Ends, Return(how), UNCHANGED <<asked, start, path>>,
         turn' \in Turns,
         said' = said \/ \E kind \in UpstreamKinds : Says(kind),
         delivered' = delivered \/ \E kinds \in Seq(ClientHears), ok \in BOOLEAN : Deliver(kinds, ok)
  PROVE  Others'
<1>1. UNCHANGED <<client, conn, upstream>> /\ outcome' = how
  BY DEF Return, connection
<1>2. TalkType'
  BY <1>1, Talked DEF Others
<1> QED
  BY <1>1, <1>2 DEF Others, Ends

LEMMA OthersRetry ==
  ASSUME Others, NEW t \in Turns, account \in Accounts, Retry(t), UNCHANGED <<asked, start, path>>,
         said' = said \/ \E kind \in UpstreamKinds : Says(kind)
  PROVE  Others'
<1>1. UNCHANGED <<client, conn, upstream, delivered, outcome>>
  BY DEF Retry, connection
<1>2. turn' \in Turns
  BY DEF Retry, Turns
<1>3. TalkType'
  BY <1>1, Talked DEF Others
<1> QED
  BY <1>1, <1>2, <1>3 DEF Others

LEMMA SaysEarlyTyped ==
  ASSUME Others, NEW kind \in UpstreamKinds, SaysEarly(kind)
  PROVE  Others'
<1> DEFINE t == IF HeldBack(kind) THEN [turn EXCEPT !.buffered = Append(@, kind)] ELSE turn
           u == [t EXCEPT !.committed = Commits(kind),
                          !.buffered = IF Commits(kind) THEN <<>> ELSE @]
           how == KnownSettlement(kind)
<1>1. turn.buffered \in Seq(Text) /\ turn \in Turns
  BY PassedOn DEF Others, Turns
<1>2. t \in Turns
  <2>1. CASE HeldBack(kind)
    <3>1. Append(turn.buffered, kind) \in Seq(Text)
      BY <1>1, <2>1, AppendProperties DEF HeldBack
    <3> QED
      BY <1>1, <2>1, <3>1 DEF Turns
  <2> QED
    BY <1>1, <2>1
<1>3. u \in Turns
  <2> HIDE DEF t
  <2>1. <<>> \in Seq(Text) /\ t.buffered \in Seq(Text) /\ Commits(kind) \in BOOLEAN
    BY <1>2 DEF Turns, Commits
  <2>2. (IF Commits(kind) THEN <<>> ELSE t.buffered) \in Seq(Text)
    BY <2>1
  <2> QED
    BY <1>2, <2>1, <2>2 DEF Turns
<1>4. Passed(t, kind) \in Seq(ClientHears)
  <2> HIDE DEF t
  <2>1. /\ <<>> \in Seq(ClientHears) /\ <<kind>> \in Seq(ClientHears)
        /\ t.buffered \in Seq(ClientHears)
    BY <1>2, PassedOn DEF ClientHears
  <2> QED
    BY <2>1, ConcatProperties DEF Passed
<1>5. \E ok \in BOOLEAN :
        /\ Deliver(Passed(t, kind), ok)
        /\ turn' = IF ok /\ Terminal(kind) THEN NoTurn ELSE u
        /\ \/ Return(OrReleased(how))
           \/ how # "none" /\ Return(how)
           \/ Stay /\ UNCHANGED upstream
  <2> HIDE DEF t, u, how
  <2> QED
    BY DEF SaysEarly, t, u, how
<1>6. turn' \in Turns
  BY <1>1, <1>3, <1>5, TurnChanges
<1>7. Says(kind) /\ UNCHANGED <<asked, start, path>>
  BY DEF SaysEarly, request
<1>8. ASSUME NEW way \in Ends, Return(way)
      PROVE  Others'
  BY <1>4, <1>5, <1>6, <1>7, <1>8, OthersReturn
<1>9. CASE Stay /\ UNCHANGED upstream
  <2>1. TalkType'
    BY <1>4, <1>5, <1>7, <1>9, Talked DEF Stay, Others
  <2> QED
    BY <1>6, <1>9, <2>1 DEF Stay, Others
<1> QED
  BY <1>5, <1>8, <1>9, EndsKnown

LEMMA ClientSendsTyped ==
  ASSUME Others, account \in Accounts, NEW kind \in ClientKinds, ClientSends(kind)
  PROVE  Others'
<1> DEFINE n == Len(asked) + 1
           t == Kept(IF kind = "create" THEN NewTurn ELSE turn, kind, n)
<1>1. /\ asked \in Seq(ClientKinds) /\ Len(asked) \in Nat
      /\ n \in 1..MaxMessages /\ n + Len(said) <= MaxMessages
      /\ Len(said) \in Nat /\ Len(delivered) \in Nat
  BY LenProperties, ProxyAssumption DEF Others, TalkType, ClientSends
<1>2. /\ asked' = Append(asked, kind) /\ asked' \in Seq(ClientKinds)
      /\ Len(asked') = n
  BY <1>1, AppendProperties DEF ClientSends
<1>3. t \in Turns
  <2>1. ASSUME NEW s \in Turns
        PROVE  Kept(s, kind, n) \in Turns
    <3>1. Append(s.messages, n) \in Seq(1..MaxMessages)
      <4>1. s.messages \in Seq(1..MaxMessages)
        BY DEF Turns
      <4> QED
        BY <4>1, <1>1, AppendProperties
    <3> QED
      BY <3>1 DEF Kept, Turns
  <2>2. NewTurn \in Turns /\ turn \in Turns
    BY TurnChanges DEF Others
  <2> QED
    BY <2>1, <2>2
<1>4. /\ start' \in [asked : 0..Len(asked'), said : 0..Len(said), delivered : 0..Len(delivered)]
      /\ path' \in Seq(Accounts)
  <2>1. CASE kind = "create"
    <3>1. /\ start' = [asked |-> n - 1, said |-> Len(said), delivered |-> Len(delivered)]
          /\ path' = <<account>>
      BY <2>1 DEF ClientSends
    <3>2. <<account>> \in Seq(Accounts)
      OBVIOUS
    <3> QED
      BY <1>1, <1>2, <3>1, <3>2
  <2>2. CASE kind # "create"
    BY <1>1, <1>2, <2>2 DEF ClientSends, Others, TalkType
  <2> QED
    BY <2>1, <2>2
<1>5. \/ Stay /\ upstream' = Append(upstream, n) /\ turn' = t
      \/ Retry(t)
      \/ Return("failure") /\ turn' = t
  BY DEF ClientSends
<1>6. UNCHANGED <<said, delivered>>
  BY DEF ClientSends
<1>7. ASSUME upstream' \in Seq(1..MaxMessages), UNCHANGED <<client, conn>>, turn' \in Turns,
             outcome' \in Ends \cup {"none"}
      PROVE  Others'
  <2>1. TalkType'
    BY <1>1, <1>2, <1>4, <1>6, <1>7 DEF Others, TalkType
  <2> QED
    BY <1>7, <2>1 DEF Others, Ends
<1> HIDE DEF t, n
<1>8. CASE Stay /\ upstream' = Append(upstream, n) /\ turn' = t
  <2>1. upstream' \in Seq(1..MaxMessages)
    <3>1. upstream \in Seq(1..MaxMessages)
      BY DEF Others, TalkType
    <3> QED
      BY <1>1, <1>8, <3>1, AppendProperties
  <2> QED
    BY <1>3, <1>7, <1>8, <2>1 DEF Stay, Others, Ends
<1>9. CASE Retry(t)
  <2>1. turn' \in Turns
    BY <1>3, <1>9 DEF Retry, Turns
  <2> QED
    BY <1>7, <1>9, <2>1 DEF Retry, connection, Others, Ends, TalkType
<1>10. CASE Return("failure") /\ turn' = t
  BY <1>3, <1>7, <1>10 DEF Return, connection, Others, Ends, TalkType
<1> QED
  BY <1>5, <1>8, <1>9, <1>10

LEMMA UpstreamTyped ==
  ASSUME Others, account \in Accounts, NEW kind \in UpstreamKinds,
         Breaks \/ Reset \/ FailsEarly(kind) \/ SaysLate(kind)
  PROVE  Others'
<1>1. /\ turn \in Turns /\ NoTurn \in Turns
      /\ [turn EXCEPT !.buffered = <<>>] \in Turns
  BY TurnChanges DEF Others
<1>2. /\ Append(turn.buffered, "reset") \in Seq(ClientHears)
      /\ Append(turn.buffered, kind) \in Seq(ClientHears)
      /\ <<kind>> \in Seq(ClientHears)
  BY <1>1, PassedOn DEF ClientHears, UpstreamKinds
<1>3. CASE Breaks
  <2>1. UNCHANGED <<said, asked, start, path>>
    BY <1>3 DEF Breaks, request
  <2>2. CASE Uncommitted(turn)
    BY <1>1, <1>3, <2>1, <2>2, OthersRetry DEF Breaks
  <2>3. CASE ~Uncommitted(turn)
    BY <1>1, <1>3, <2>1, <2>3, OthersReturn DEF Breaks, Ends
  <2> QED
    BY <2>2, <2>3
<1>4. CASE Reset
  <2>1. UNCHANGED <<asked, start, path>> /\ Says("reset") /\ "reset" \in UpstreamKinds
    BY <1>4 DEF Reset, request, UpstreamKinds
  <2>2. turn' \in Turns /\ Return("released") /\ "released" \in Ends
    BY <1>1, <1>4 DEF Reset, Ends
  <2>3. \E kinds \in Seq(ClientHears), ok \in BOOLEAN : Deliver(kinds, ok)
    BY <1>2, <1>4 DEF Reset
  <2> QED
    BY <2>1, <2>2, <2>3, OthersReturn
<1>5. CASE FailsEarly(kind)
  <2>1. UNCHANGED <<asked, start, path>> /\ Says(kind)
    BY <1>5 DEF FailsEarly, request
  <2>2. CASE FailsOver(kind)
    BY <1>1, <1>5, <2>1, <2>2, OthersRetry DEF FailsEarly
  <2>3. CASE ~FailsOver(kind)
    <3>1. turn' \in Turns /\ Return("failure") /\ "failure" \in Ends
      BY <1>1, <1>5, <2>3 DEF FailsEarly, Ends
    <3>2. \E kinds \in Seq(ClientHears), ok \in BOOLEAN : Deliver(kinds, ok)
      BY <1>2, <1>5, <2>3 DEF FailsEarly
    <3> QED
      BY <2>1, <3>1, <3>2, OthersReturn
  <2> QED
    BY <2>2, <2>3
<1>6. CASE SaysLate(kind)
  <2>1. UNCHANGED <<asked, start, path>> /\ Says(kind)
    BY <1>6 DEF SaysLate, request
  <2>2. \E ok \in BOOLEAN : Deliver(<<kind>>, ok)
    BY <1>6 DEF SaysLate
  <2>3. turn' \in Turns
    BY <1>1, <1>6 DEF SaysLate
  <2>4. \/ Return(OrReleased(KnownSettlement(kind)))
        \/ KnownSettlement(kind) # "none" /\ Return(KnownSettlement(kind))
        \/ Stay /\ UNCHANGED upstream
    BY <1>6 DEF SaysLate
  <2>5. ASSUME NEW how \in Ends, Return(how)
        PROVE  Others'
    BY <1>2, <2>1, <2>2, <2>3, <2>5, OthersReturn
  <2>6. CASE Stay /\ UNCHANGED upstream
    <3>1. TalkType'
      BY <1>2, <2>1, <2>2, <2>6, Talked DEF Stay, Others
    <3> QED
      BY <2>3, <2>6, <3>1 DEF Stay, Others
  <2> QED
    BY <2>4, <2>5, <2>6, EndsKnown
<1> QED
  BY <1>3, <1>4, <1>5, <1>6

LEMMA RetryTyped ==
  ASSUME Others, LeaseInv,
         (\E a \in Accounts : Connect(a)) \/ NoReplacement \/ ReplayFails \/ Switch
  PROVE  Others'
<1>1. turn \in Turns /\ [turn EXCEPT !.buffered = <<>>] \in Turns
  BY TurnChanges DEF Others
<1>2. ASSUME NEW a \in Accounts, Connect(a)
      PROVE  Others'
  <2>1. turn' \in Turns
    <3>1. PICK failed \in SUBSET (Accounts \ {a}) :
            turn' = [turn EXCEPT !.tried = @ \cup failed]
      BY <1>2 DEF Connect
    <3> QED
      BY <1>1, <3>1, TurnChanges
  <2>2. path' \in Seq(Accounts)
    BY <1>2, AppendProperties DEF Connect, Others, TalkType
  <2>3. TalkType'
    BY <1>2, <2>2, Unheard DEF Connect, connection, Others
  <2> QED
    BY <1>2, <2>1, <2>3 DEF Connect, connection, Others
<1>3. CASE NoReplacement
  <2>1. Append(turn.buffered, "gateway") \in Seq(ClientHears)
    BY <1>1, PassedOn DEF ClientHears
  <2>2. turn' \in Turns /\ Return("failure") /\ "failure" \in Ends
    BY <1>1, <1>3 DEF NoReplacement, Ends
  <2>3. UNCHANGED <<said, asked, start, path>>
    BY <1>3 DEF NoReplacement, request
  <2>4. \E kinds \in Seq(ClientHears), ok \in BOOLEAN : Deliver(kinds, ok)
    BY <1>3, <2>1 DEF NoReplacement
  <2> QED
    BY <2>2, <2>3, <2>4, OthersReturn
<1>4. CASE ReplayFails
  <2>1. turn' \in Turns
    <3>1. candidate \in Accounts
      BY <1>4 DEF LeaseInv, ReplayFails
    <3> QED
      BY <1>1, <1>4, <3>1, TurnChanges DEF ReplayFails
  <2>2. TalkType'
    BY <1>4, Unheard DEF ReplayFails, connection, request, Others, TalkType
  <2> QED
    BY <1>4, <2>1, <2>2 DEF ReplayFails, connection, Others
<1>5. CASE Switch
  <2>1. turn.messages \in Seq(1..MaxMessages)
    BY <1>1 DEF Turns
  <2>2. /\ conn' = conn + 1 /\ conn \in Nat /\ conn >= 1
        /\ upstream' = turn.messages
        /\ UNCHANGED <<client, said, delivered, asked, start, path, outcome>>
    BY <1>5 DEF Switch, request, Others, TalkType
  <2>3. /\ [conn : 1..conn, kind : UpstreamKinds] \subseteq [conn : 1..conn', kind : UpstreamKinds]
        /\ [conn : 1..conn, kind : ClientHears] \subseteq [conn : 1..conn', kind : ClientHears]
    BY <2>2
  <2>4. /\ said \in Seq([conn : 1..conn', kind : UpstreamKinds])
        /\ delivered \in Seq([conn : 1..conn', kind : ClientHears])
    <3>1. /\ said \in Seq([conn : 1..conn, kind : UpstreamKinds])
          /\ delivered \in Seq([conn : 1..conn, kind : ClientHears])
      BY DEF Others, TalkType
    <3> QED
      BY <2>3, <3>1, SeqMonotonic
  <2>5. TalkType'
    BY <2>1, <2>2, <2>4 DEF Others, TalkType
  <2> QED
    BY <1>1, <1>5, <2>2, <2>5 DEF Switch, Others
<1> QED
  BY <1>2, <1>3, <1>4, <1>5

LEMMA TypeStep ==
  ASSUME TypeInv, [Next]_vars
  PROVE  TypeInv'
<1>1. Others /\ LeaseInv /\ account \in Accounts
  BY DEF TypeInv, Others, LeaseInv
<1>2. LeaseInv'
  BY <1>1, LeaseStep
<1>3. Others'
  <2>1. CASE UNCHANGED vars
    BY <1>1, <2>1 DEF vars, Others, TalkType
  <2>2. CASE Upgrade \/ ClientLeaves
    BY <1>1, <2>2 DEF Upgrade, Stay, ClientLeaves, connection, request, Others, TalkType
  <2>3. CASE UpgradeFails \/ Leave
    <3>1. UNCHANGED <<asked, start, path, turn, said, delivered>> /\ Return("released")
      BY <2>3 DEF UpgradeFails, Leave, request
    <3> QED
      BY <1>1, <3>1, OthersReturn DEF Others, Ends
  <2> QED
    BY <1>1, <2>1, <2>2, <2>3, ClientSendsTyped, UpstreamTyped, SaysEarlyTyped, RetryTyped
       DEF Next, UpstreamKinds
<1> QED
  BY <1>2, <1>3 DEF TypeInv, Others

\* Every message that is kept is one the client has sent, what is held back is
\* text, and a turn starts within what was said (PendingWebsocketRequest and its buffers).
THEOREM SocketTypeCorrect == Spec => []TypeOK
<1>1. TypeInv /\ [Next]_vars => TypeInv'
  BY TypeStep
<1>2. TypeInv => TypeOK
  BY DEF TypeInv, LeaseInv, Turns, TalkType, TypeOK
<1> QED
  BY TypeStarts, <1>1, <1>2, PTL DEF Spec

-----------------------------------------------------------------------------
(* No account twice *)

\* Whoever has been connected to for a request that may be retried is excluded from
\* the next attempt, or is the one that has the request now.
Excluded ==
  /\ pc = "upgrading" => ~Uncommitted(turn)
  /\ pc = "open" /\ Uncommitted(turn) => Range(path) \subseteq turn.tried \cup {account}
  /\ pc = "retry" => Range(path) \subseteq turn.tried
  /\ pc = "replay" => Range(path) \subseteq turn.tried \cup {candidate}

PathInv == TypeInv /\ NoAccountTwice /\ Excluded

LEMMA PathStarts == Init => PathInv
  BY TypeStarts DEF Init, PathInv, NoAccountTwice, IsInjective, Excluded, NoTurn, Uncommitted

\* A path goes on with an account that is not excluded.
LEMMA PathGrows ==
  ASSUME path \in Seq(Accounts), NoAccountTwice, NEW a \in Accounts, a \notin Range(path)
  PROVE  /\ IsInjective(Append(path, a))
         /\ Range(Append(path, a)) = Range(path) \cup {a}
<1>1. /\ Len(path) \in Nat /\ DOMAIN path = 1..Len(path)
      /\ DOMAIN Append(path, a) = 1..Len(path) + 1
      /\ \A i \in 1..Len(path) : Append(path, a)[i] = path[i]
      /\ Append(path, a)[Len(path) + 1] = a
  BY AppendProperties, LenProperties
<1>2. \A i \in 1..Len(path) : path[i] # a
  BY <1>1 DEF Range
<1>3. IsInjective(Append(path, a))
  BY <1>1, <1>2 DEF NoAccountTwice, IsInjective
<1>4. Range(Append(path, a)) = Range(path) \cup {a}
  BY <1>1 DEF Range
<1> QED
  BY <1>3, <1>4

LEMMA PathStep ==
  ASSUME PathInv, [Next]_vars
  PROVE  PathInv'
<1>1. TypeInv /\ TypeInv' /\ NoAccountTwice /\ Excluded
  BY TypeStep DEF PathInv
<1>2. turn \in Turns /\ account \in Accounts /\ path \in Seq(Accounts)
  BY <1>1 DEF TypeInv, LeaseInv, TalkType
<1>3. ASSUME NEW how, Return(how), path' = path
      PROVE  NoAccountTwice' /\ Excluded'
  BY <1>1, <1>3 DEF Return, NoAccountTwice, Excluded
<1>4. ASSUME Retry(turn), pc = "open", Uncommitted(turn), path' = path
      PROVE  NoAccountTwice' /\ Excluded'
  BY <1>1, <1>2, <1>4 DEF Retry, connection, NoAccountTwice, Excluded, Turns
<1>5. CASE UNCHANGED vars
  BY <1>1, <1>5 DEF vars, NoAccountTwice, Excluded, Uncommitted, PathInv
<1>6. CASE UpgradeFails \/ Leave \/ Reset \/ NoReplacement
  BY <1>1, <1>3, <1>6 DEF UpgradeFails, Leave, Reset, NoReplacement, request, PathInv
<1>7. CASE Upgrade \/ ClientLeaves
  BY <1>1, <1>7
     DEF Upgrade, Stay, ClientLeaves, connection, request, NoAccountTwice, Excluded, PathInv
<1>8. ASSUME NEW kind \in ClientKinds, ClientSends(kind)
      PROVE  PathInv'
  <2> DEFINE n == Len(asked) + 1
             t == Kept(IF kind = "create" THEN NewTurn ELSE turn, kind, n)
  <2>1. /\ \/ Stay /\ turn' = t
           \/ Uncommitted(t) /\ Retry(t)
           \/ Return("failure")
        /\ pc = "open"
    BY <1>8 DEF ClientSends
  <2>2. NoAccountTwice' /\ (Uncommitted(t) => Range(path') \subseteq t.tried \cup {account})
    <3>1. CASE kind = "create"
      <4>1. path' = <<account>>
        BY <1>8, <3>1 DEF ClientSends
      <4>2. IsInjective(<<account>>) /\ Range(<<account>>) = {account}
        BY DEF IsInjective, Range
      <4> QED
        BY <4>1, <4>2 DEF NoAccountTwice
    <3>2. CASE kind # "create"
      <4>1. path' = path
        BY <1>8, <3>2 DEF ClientSends
      <4>2. t.tried = turn.tried /\ (Uncommitted(t) <=> Uncommitted(turn))
        BY <1>2, <3>2 DEF Kept, Uncommitted, Turns
      <4> QED
        BY <1>1, <2>1, <4>1, <4>2 DEF NoAccountTwice, Excluded
    <3> QED
      BY <3>1, <3>2
  <2>3. DOMAIN t = {"pending", "committed", "messages", "buffered", "tried"}
    BY <1>2 DEF Kept, Turns, NewTurn, NoTurn
  <2> HIDE DEF t
  <2>4. CASE Stay /\ turn' = t
    BY <1>1, <2>2, <2>4 DEF Stay, Excluded, PathInv, Uncommitted
  <2>5. CASE Uncommitted(t) /\ Retry(t)
    <3>1. turn'.tried = t.tried \cup {account}
      BY <2>3, <2>5 DEF Retry
    <3> QED
      BY <1>1, <2>2, <2>5, <3>1 DEF Retry, Excluded, PathInv
  <2>6. CASE Return("failure")
    BY <1>1, <2>2, <2>6 DEF Return, Excluded, PathInv
  <2> QED
    BY <2>1, <2>4, <2>5, <2>6
<1>9. CASE Breaks
  <2>1. CASE Uncommitted(turn)
    BY <1>1, <1>4, <1>9, <2>1 DEF Breaks, request, PathInv
  <2>2. CASE ~Uncommitted(turn)
    BY <1>1, <1>3, <1>9, <2>2 DEF Breaks, request, PathInv
  <2> QED
    BY <2>1, <2>2
<1>10. ASSUME NEW kind \in UpstreamKinds, FailsEarly(kind)
       PROVE  PathInv'
  <2>1. CASE FailsOver(kind)
    BY <1>1, <1>4, <1>10, <2>1 DEF FailsEarly, Says, request, PathInv
  <2>2. CASE ~FailsOver(kind)
    BY <1>1, <1>3, <1>10, <2>2 DEF FailsEarly, request, PathInv
  <2> QED
    BY <2>1, <2>2
<1>11. ASSUME NEW kind \in UpstreamKinds, SaysEarly(kind) \/ SaysLate(kind)
       PROVE  PathInv'
  <2>1. path' = path /\ pc = "open" /\ NoAccountTwice'
    BY <1>1, <1>11 DEF SaysEarly, SaysLate, Says, request, NoAccountTwice
  <2>2. Stay \/ \E how : Return(how)
    BY <1>11 DEF SaysEarly, SaysLate
  <2>3. CASE Stay
    <3>1. Uncommitted(turn') => Uncommitted(turn) /\ turn'.tried = turn.tried
      <4>1. CASE SaysLate(kind)
        BY <4>1 DEF SaysLate, Uncommitted, NoTurn
      <4>2. CASE SaysEarly(kind)
        <5> DEFINE t == IF HeldBack(kind)
                        THEN [turn EXCEPT !.buffered = Append(@, kind)] ELSE turn
                   u == [t EXCEPT !.committed = Commits(kind),
                                  !.buffered = IF Commits(kind) THEN <<>> ELSE @]
        <5>1. Uncommitted(turn) /\ (turn' = NoTurn \/ turn' = u)
          BY <4>2 DEF SaysEarly
        <5>2. t.tried = turn.tried
          BY <1>2 DEF Turns
        <5>3. u.tried = t.tried
          BY <1>2 DEF Turns
        <5> HIDE DEF u
        <5>4. CASE turn' = NoTurn
          BY <5>4 DEF Uncommitted, NoTurn
        <5>5. CASE turn' = u
          BY <5>1, <5>2, <5>3, <5>5
        <5> QED
          BY <5>1, <5>4, <5>5
      <4> QED
        BY <1>11, <4>1, <4>2
    <3> QED
      BY <1>1, <2>1, <2>3, <3>1 DEF Stay, Excluded, PathInv
  <2>4. CASE \E how : Return(how)
    BY <1>1, <1>3, <2>1, <2>4 DEF PathInv
  <2> QED
    BY <2>2, <2>3, <2>4
<1>12. ASSUME NEW a \in Accounts, Connect(a)
       PROVE  PathInv'
  <2>1. a \notin Range(path) /\ path' = Append(path, a)
    BY <1>1, <1>12 DEF Connect, Excluded
  <2>2. /\ pc' = "replay" /\ candidate' = a
        /\ turn.tried \subseteq turn'.tried /\ Range(path) \subseteq turn.tried
    BY <1>1, <1>2, <1>12 DEF Connect, Excluded, Turns
  <2>3. NoAccountTwice' /\ Range(path') = Range(path) \cup {a}
    BY <1>1, <1>2, <2>1, PathGrows DEF NoAccountTwice
  <2> QED
    BY <1>1, <2>2, <2>3 DEF Excluded, PathInv
<1>13. CASE ReplayFails
  <2>1. /\ pc = "replay" /\ pc' = "retry" /\ path' = path
        /\ turn'.tried = turn.tried \cup {candidate}
    BY <1>2, <1>13 DEF ReplayFails, request, Turns
  <2> QED
    BY <1>1, <2>1 DEF Excluded, NoAccountTwice, PathInv
<1>14. CASE Switch
  <2>1. /\ pc = "replay" /\ pc' = "open" /\ path' = path
        /\ turn'.tried = turn.tried /\ account' = candidate
    BY <1>2, <1>14 DEF Switch, request, Turns
  <2> QED
    BY <1>1, <2>1 DEF Excluded, NoAccountTwice, PathInv
<1> QED
  BY <1>1, <1>5, <1>6, <1>7, <1>8, <1>9, <1>10, <1>11, <1>12, <1>13, <1>14
     DEF Next, PathInv

\* A request never goes back to an account that failed it, so its retries end when
\* the accounts do (excluded_account_ids of retry_pending_websocket_request).
THEOREM SocketNeverReturns == Spec => []NoAccountTwice
<1>1. PathInv /\ [Next]_vars => PathInv'
  BY PathStep
<1>2. PathInv => NoAccountTwice
  BY DEF PathInv
<1> QED
  BY PathStarts, <1>1, <1>2, PTL DEF Spec

-----------------------------------------------------------------------------
(* The client is told *)

\* What a send adds to what the client was sent.
LEMMA DeliveredParts ==
  ASSUME TalkType, conn >= 1, NEW kinds \in Seq(ClientHears), NEW ok, Deliver(kinds, ok)
  PROVE  \/ ~ok /\ client = "gone" /\ delivered' = delivered
         \/ /\ Len(delivered') = Len(delivered) + Len(kinds)
            /\ \A i \in 1..Len(delivered) : delivered'[i] = delivered[i]
            /\ \A i \in 1..Len(kinds) :
                 delivered'[Len(delivered) + i] = [conn |-> conn, kind |-> kinds[i]]
<1> DEFINE H == [conn : 1..conn, kind : ClientHears]
           new == [i \in 1..Len(kinds) |-> [conn |-> conn, kind |-> kinds[i]]]
           old == delivered
<1>1. /\ Len(kinds) \in Nat /\ Len(new) = Len(kinds)
      /\ new \in Seq(H)
      /\ \A i \in 1..Len(kinds) : new[i] = [conn |-> conn, kind |-> kinds[i]]
  <2>1. Len(kinds) \in Nat /\ \A i \in 1..Len(kinds) : kinds[i] \in ClientHears
    BY ElementOfSeq, LenProperties
  <2>2. \A i \in 1..Len(kinds) : [conn |-> conn, kind |-> kinds[i]] \in H
    BY <2>1 DEF TalkType
  <2>3. new \in Seq(H)
    <3> HIDE DEF H
    <3> QED
      BY <2>1, <2>2
  <2> QED
    BY <2>1, <2>3
<1>2. old \in Seq(H) /\ Len(old) \in Nat
  BY LenProperties DEF TalkType
<1>3. CASE ok
  <2>1. delivered' = old \o new
    BY <1>3 DEF Deliver
  <2> HIDE DEF H, new, old
  <2>2. /\ Len(old \o new) = Len(old) + Len(new)
        /\ \A i \in 1..Len(old) + Len(new) :
             (old \o new)[i] = IF i <= Len(old) THEN old[i] ELSE new[i - Len(old)]
    <3>1. old \in Seq(H) /\ new \in Seq(H)
      BY <1>1, <1>2
    <3> QED
      BY ONLY <3>1, ConcatProperties
  <2>3. \A i \in 1..Len(kinds) : (old \o new)[Len(old) + i] = new[i]
    <3> SUFFICES ASSUME NEW i \in 1..Len(kinds)
                 PROVE  (old \o new)[Len(old) + i] = new[i]
      OBVIOUS
    <3>1. /\ Len(old) + i \in 1..Len(old) + Len(new)
          /\ ~(Len(old) + i <= Len(old)) /\ (Len(old) + i) - Len(old) = i
      BY <1>1, <1>2
    <3> QED
      BY <2>2, <3>1
  <2>4. \A i \in 1..Len(old) : (old \o new)[i] = old[i]
    BY <1>1, <1>2, <2>2
  <2> QED
    BY <1>1, <2>1, <2>2, <2>3, <2>4 DEF old
<1>4. CASE ~ok
  BY <1>4 DEF Deliver
<1> QED
  BY <1>3, <1>4

\* A client that stays has been sent the last of what is passed on.
LEMMA ToldLast ==
  ASSUME TalkType, conn >= 1, client = "up", NEW kinds \in Seq(ClientHears), NEW kind \in ClientHears,
         NEW ok, Deliver(Append(kinds, kind), ok)
  PROVE  Len(delivered') > Len(delivered) /\ Last(delivered').kind = kind
<1> DEFINE all == Append(kinds, kind)
<1>1. /\ all \in Seq(ClientHears) /\ Len(kinds) \in Nat
      /\ Len(all) = Len(kinds) + 1 /\ all[Len(kinds) + 1] = kind
  BY AppendProperties, LenProperties
<1>2. /\ Len(delivered') = Len(delivered) + (Len(kinds) + 1)
      /\ delivered'[Len(delivered) + (Len(kinds) + 1)].kind = kind
  <2>1. Deliver(all, ok)
    OBVIOUS
  <2> HIDE DEF all
  <2>2. /\ Len(delivered') = Len(delivered) + Len(all)
        /\ \A i \in 1..Len(all) :
             delivered'[Len(delivered) + i] = [conn |-> conn, kind |-> all[i]]
    BY <1>1, <2>1, DeliveredParts
  <2>3. Len(kinds) + 1 \in 1..Len(all)
    BY <1>1
  <2>4. delivered'[Len(delivered) + (Len(kinds) + 1)] = [conn |-> conn, kind |-> all[Len(kinds) + 1]]
    BY <2>2, <2>3
  <2>5. delivered'[Len(delivered) + (Len(kinds) + 1)].kind = kind
    BY <1>1, <2>4
  <2> QED
    BY <1>1, <2>2, <2>5
<1>3. Len(delivered) \in Nat
  BY LenProperties DEF TalkType
<1> QED
  BY <1>1, <1>2, <1>3 DEF Last

\* A step that settles the account for another reason than a success, or a failure of
\* a request that may be retried, says nothing about the client.
LEMMA ToldReturn ==
  ASSUME NEW how, Return(how),
         client = "up" =>
           /\ how = "success" => Last(delivered').kind = "completed"
           /\ (how = "failure" /\ Uncommitted(turn')) =>
                /\ Len(delivered') > start'.delivered
                /\ Last(delivered').kind \in {"rejected", "gateway"}
  PROVE  ClientTold'
BY DEF Return, ClientTold, Uncommitted

LEMMA ToldStep ==
  ASSUME TypeInv, ClientTold, [Next]_vars
  PROVE  ClientTold'
<1>1. /\ TalkType /\ conn >= 1 /\ turn \in Turns /\ Len(delivered) \in Nat
      /\ start.delivered \in Nat /\ start.delivered <= Len(delivered)
  BY LenProperties DEF TypeInv, TalkType
<1>2. \A kind \in ClientHears : /\ turn.buffered \in Seq(ClientHears)
                                /\ <<>> \in Seq(ClientHears)
                                /\ <<kind>> = Append(<<>>, kind)
  BY <1>1, PassedOn
<1>3. CASE UNCHANGED vars
  BY <1>3 DEF vars, ClientTold, Uncommitted
<1>4. CASE UpgradeFails \/ Leave
  BY <1>4, ToldReturn DEF UpgradeFails, Leave
<1>5. CASE Upgrade \/ ClientLeaves \/ (\E a \in Accounts : Connect(a)) \/ ReplayFails \/ Switch
  BY <1>5 DEF Upgrade, Stay, ClientLeaves, Connect, ReplayFails, Switch, ClientTold
<1>6. ASSUME NEW kind \in ClientKinds, ClientSends(kind)
      PROVE  ClientTold'
  <2> DEFINE t == Kept(IF kind = "create" THEN NewTurn ELSE turn, kind, Len(asked) + 1)
  <2>1. Stay \/ (\E u : Retry(u)) \/ (~Uncommitted(t) /\ Return("failure") /\ turn' = t)
    BY <1>6 DEF ClientSends
  <2> HIDE DEF t
  <2>2. CASE Stay \/ \E u : Retry(u)
    BY <2>2 DEF Stay, Retry, ClientTold
  <2>3. CASE ~Uncommitted(t) /\ Return("failure") /\ turn' = t
    <3>1. ~Uncommitted(turn')
      BY <2>3
    <3> QED
      BY <2>3, <3>1, ToldReturn
  <2> QED
    BY <2>1, <2>2, <2>3
<1>7. CASE Breaks
  <2>1. CASE Uncommitted(turn)
    BY <1>7, <2>1 DEF Breaks, Retry, ClientTold
  <2>2. CASE ~Uncommitted(turn)
    BY <1>7, <2>2, ToldReturn DEF Breaks, Uncommitted
  <2> QED
    BY <2>1, <2>2
<1>8. CASE Reset
  BY <1>8, ToldReturn DEF Reset
<1>9. ASSUME NEW kind \in UpstreamKinds, FailsEarly(kind)
      PROVE  ClientTold'
  <2>1. CASE FailsOver(kind)
    BY <1>9, <2>1 DEF FailsEarly, Retry, ClientTold
  <2>2. CASE ~FailsOver(kind)
    <3>1. kind = "rejected" /\ kind \in ClientHears
      BY <1>9, <2>2 DEF FailsEarly, KnownSettlement, FailsOver, UpstreamKinds, ClientHears
    <3>2. PICK ok \in BOOLEAN : Deliver(Append(turn.buffered, kind), ok)
      BY <1>9, <2>2 DEF FailsEarly
    <3>3. client = "up" => Len(delivered') > Len(delivered) /\ Last(delivered').kind = kind
      BY <1>1, <1>2, <3>1, <3>2, ToldLast
    <3>4. start' = start /\ Return("failure")
      BY <1>9, <2>2 DEF FailsEarly, request
    <3>5. Len(delivered') \in Nat
      <4>1. Append(turn.buffered, kind) \in Seq(ClientHears)
        BY <1>2, <3>1, AppendProperties
      <4>2. conn' = conn /\ conn >= 1
        BY <3>4 DEF Return, connection, TypeInv
      <4>3. delivered' \in Seq([conn : 1..conn, kind : ClientHears])
        BY <1>1, <3>2, <4>1, <4>2, Delivered
      <4> QED
        BY <4>3, LenProperties
    <3>6. client = "up" => Len(delivered') > start'.delivered
      BY <1>1, <3>3, <3>4, <3>5
    <3> QED
      BY <3>1, <3>3, <3>4, <3>6, ToldReturn
  <2> QED
    BY <2>1, <2>2
<1>10. ASSUME NEW kind \in UpstreamKinds, SaysEarly(kind)
       PROVE  ClientTold'
  <2>1. PICK ok \in BOOLEAN :
          /\ Deliver(Passed(IF HeldBack(kind) THEN [turn EXCEPT !.buffered = Append(@, kind)]
                            ELSE turn, kind), ok)
          /\ IF ~ok THEN Return(OrReleased(KnownSettlement(kind)))
             ELSE IF KnownSettlement(kind) # "none" THEN Return(KnownSettlement(kind))
             ELSE Stay
    BY <1>10 DEF SaysEarly
  <2>2. KnownSettlement(kind) # "failure"
    BY <1>10 DEF SaysEarly
  <2>3. CASE ~ok
    <3>1. client = "gone"
      BY <2>1, <2>3 DEF Deliver
    <3> QED
      BY <2>1, <2>3, <3>1, ToldReturn
  <2>4. CASE ok /\ KnownSettlement(kind) = "none"
    BY <2>1, <2>4 DEF Stay, ClientTold
  <2>5. CASE ok /\ KnownSettlement(kind) = "success"
    <3>1. kind = "completed" /\ kind \in ClientHears
      BY <2>5 DEF KnownSettlement, UpstreamKinds, ClientHears
    <3>2. Deliver(Append(turn.buffered, kind), ok)
      <4>1. HeldBack(kind) /\ Commits(kind)
        BY <3>1 DEF HeldBack, Commits, Text, UpstreamKinds
      <4>2. [turn EXCEPT !.buffered = Append(@, kind)].buffered = Append(turn.buffered, kind)
        BY <1>1 DEF Turns
      <4>3. <<>> \o Append(turn.buffered, kind) = Append(turn.buffered, kind)
        <5>1. Append(turn.buffered, kind) \in Seq(ClientHears)
          BY <1>2, <3>1, AppendProperties
        <5> QED
          BY <5>1, EmptySeq, ConcatEmptySeq
      <4> QED
        BY <2>1, <4>1, <4>2, <4>3 DEF Passed
    <3>3. client = "up" => Last(delivered').kind = kind
      BY <1>1, <1>2, <3>1, <3>2, ToldLast
    <3> QED
      BY <2>1, <2>5, <3>1, <3>3, ToldReturn
  <2>6. CASE ok /\ KnownSettlement(kind) = "released"
    BY <2>1, <2>6, ToldReturn
  <2> QED
    BY <2>2, <2>3, <2>4, <2>5, <2>6, EndsKnown DEF Ends
<1>11. ASSUME NEW kind \in UpstreamKinds, SaysLate(kind)
       PROVE  ClientTold'
  <2>1. PICK ok \in BOOLEAN :
          /\ Deliver(<<kind>>, ok)
          /\ turn' = IF ok /\ KnownSettlement(kind) = "none" /\ Terminal(kind)
                     THEN NoTurn ELSE turn
          /\ IF ~ok THEN Return(OrReleased(KnownSettlement(kind)))
             ELSE IF KnownSettlement(kind) # "none" THEN Return(KnownSettlement(kind))
             ELSE Stay
    BY <1>11 DEF SaysLate
  <2>2. kind \in ClientHears /\ ~Uncommitted(turn)
    BY <1>11 DEF SaysLate, ClientHears
  <2>3. CASE ~ok
    <3>1. client = "gone"
      BY <2>1, <2>3 DEF Deliver
    <3> QED
      BY <2>1, <2>3, <3>1, ToldReturn
  <2>4. CASE ok /\ KnownSettlement(kind) = "none"
    BY <2>1, <2>4 DEF Stay, ClientTold
  <2>5. CASE ok /\ KnownSettlement(kind) # "none"
    <3>1. client = "up" => Last(delivered').kind = kind
      <4>1. Deliver(Append(<<>>, kind), ok)
        BY <1>2, <2>1, <2>2
      <4> QED
        BY <1>1, <1>2, <2>2, <4>1, ToldLast
    <3>2. KnownSettlement(kind) = "success" => kind = "completed"
      BY DEF KnownSettlement
    <3>3. ~Uncommitted(turn')
      BY <2>1, <2>2, <2>5
    <3> QED
      BY <2>1, <2>5, <3>1, <3>2, <3>3, ToldReturn
  <2> QED
    BY <2>3, <2>4, <2>5
<1>12. CASE NoReplacement
  <2>1. PICK ok \in BOOLEAN : Deliver(Append(turn.buffered, "gateway"), ok)
    BY <1>12 DEF NoReplacement
  <2>2. "gateway" \in ClientHears
    BY DEF ClientHears
  <2>3. client = "up" => Len(delivered') > Len(delivered) /\ Last(delivered').kind = "gateway"
    BY <1>1, <1>2, <2>1, <2>2, ToldLast
  <2>4. start' = start /\ Return("failure")
    BY <1>12 DEF NoReplacement, request
  <2>5. Len(delivered') \in Nat
    BY <1>12, TypeStep, LenProperties DEF TypeInv, TalkType, Next
  <2>6. client = "up" => Len(delivered') > start'.delivered
    BY <1>1, <2>3, <2>4, <2>5
  <2> QED
    BY <2>3, <2>4, <2>6, ToldReturn
<1> QED
  BY <1>3, <1>4, <1>5, <1>6, <1>7, <1>8, <1>9, <1>10, <1>11, <1>12 DEF Next

\* A client that stays is told how its request ended: the completion before its account
\* is settled as a success, and an error when no account is left to retry it
\* (proxy_websocket, retry_pending_websocket_request).
THEOREM ClientsTold == Spec => []ClientTold
<1>1. Init => ClientTold
  BY DEF Init, ClientTold
<1>2. TypeInv /\ ClientTold /\ [Next]_vars => TypeInv' /\ ClientTold'
  BY TypeStep, ToldStep
<1> QED
  BY TypeStarts, <1>1, <1>2, PTL DEF Spec

-----------------------------------------------------------------------------
(* The whole request *)

\* Before the client has upgraded nothing is said; a retry is of a request that
\* nothing has committed; what is kept of such a request is all the client has
\* sent of it, and the connection that serves it has it too.
KeptInv ==
  /\ pc = "upgrading" => /\ turn = NoTurn /\ upstream = <<>>
                         /\ said = <<>> /\ delivered = <<>>
  /\ pc \in {"retry", "replay"} => Uncommitted(turn)
  /\ Uncommitted(turn) => InOrder(turn.messages) /\ Range(turn.messages) = Whole
  /\ pc = "open" => /\ InOrder(upstream)
                    /\ \A i \in DOMAIN upstream : upstream[i] <= Len(asked)
                    /\ Uncommitted(turn) => Whole \subseteq Range(upstream)

LEMMA KeptStarts == Init => KeptInv
  BY DEF Init, KeptInv, NoTurn, Uncommitted

\* A message that follows all the others.
LEMMA InOrderAppend ==
  ASSUME NEW s \in Seq(1..MaxMessages), InOrder(s), NEW n \in 1..MaxMessages,
         \A i \in DOMAIN s : s[i] < n
  PROVE  /\ InOrder(Append(s, n)) /\ Range(Append(s, n)) = Range(s) \cup {n}
         /\ \A i \in DOMAIN Append(s, n) : Append(s, n)[i] <= n
<1>1. /\ Len(s) \in Nat /\ DOMAIN s = 1..Len(s)
      /\ DOMAIN Append(s, n) = 1..Len(s) + 1
      /\ \A i \in 1..Len(s) : Append(s, n)[i] = s[i] /\ s[i] \in 1..MaxMessages
      /\ Append(s, n)[Len(s) + 1] = n
  <2> DEFINE M == 1..MaxMessages
  <2>1. s \in Seq(M) /\ n \in M
    OBVIOUS
  <2> HIDE DEF M
  <2>2. /\ Len(s) \in Nat /\ DOMAIN s = 1..Len(s)
        /\ \A i \in 1..Len(s) : s[i] \in M
    BY <2>1, LenProperties, ElementOfSeq
  <2>3. /\ Append(s, n) \in Seq(M) /\ Len(Append(s, n)) = Len(s) + 1
        /\ \A i \in 1..Len(s) : Append(s, n)[i] = s[i]
        /\ Append(s, n)[Len(s) + 1] = n
    BY <2>1, AppendProperties
  <2>4. DOMAIN Append(s, n) = 1..Len(s) + 1
    BY <2>3, LenProperties
  <2> QED
    BY <2>2, <2>3, <2>4 DEF M
<1> DEFINE a == Append(s, n)
<1>2. \A i \in 1..Len(s) + 1 : i \in 1..Len(s) \/ i = Len(s) + 1
  BY <1>1
<1> HIDE DEF a
<1>3. \A i \in DOMAIN a : a[i] <= n
  <2>1. \A i \in 1..Len(s) : a[i] <= n
    BY <1>1, ProxyAssumption DEF a
  <2>2. a[Len(s) + 1] <= n
    BY <1>1, ProxyAssumption DEF a
  <2> QED
    BY <1>1, <1>2, <2>1, <2>2 DEF a
<1>4. InOrder(a)
  <2> SUFFICES ASSUME NEW i \in DOMAIN a, NEW j \in DOMAIN a, i < j
               PROVE  a[i] < a[j]
    BY DEF InOrder
  <2>1. i \in 1..Len(s) /\ a[i] = s[i]
    BY <1>1 DEF a
  <2>2. CASE j = Len(s) + 1
    BY <1>1, <2>1, <2>2 DEF a
  <2>3. CASE j \in 1..Len(s)
    <3>1. a[j] = s[j] /\ s[i] < s[j]
      BY <1>1, <2>1, <2>3 DEF a, InOrder
    <3> QED
      BY <2>1, <3>1
  <2> QED
    BY <1>1, <1>2, <2>2, <2>3 DEF a
<1>5. Range(a) = Range(s) \cup {n}
  <2>1. \A i \in 1..Len(s) : a[i] = s[i]
    BY <1>1 DEF a
  <2>2. a[Len(s) + 1] = n /\ DOMAIN a = 1..Len(s) + 1
    BY <1>1 DEF a
  <2> QED
    BY <1>1, <1>2, <2>1, <2>2 DEF Range
<1> QED
  BY <1>3, <1>4, <1>5 DEF a

\* What is left of a request that goes on.
Carried == Uncommitted(turn') => Uncommitted(turn) /\ turn'.messages = turn.messages

LEMMA KeptOn ==
  ASSUME KeptInv, UNCHANGED <<asked, start, upstream>>, Carried,
         pc' = "open" => pc = "open",
         pc' # "upgrading",
         pc' \in {"retry", "replay"} => Uncommitted(turn')
  PROVE  KeptInv'
<1>1. Whole' = Whole
  BY DEF Whole
<1>2. Uncommitted(turn') => InOrder(turn'.messages) /\ Range(turn'.messages) = Whole'
  BY <1>1 DEF KeptInv, Carried
<1>3. pc' = "open" => /\ InOrder(upstream')
                      /\ \A i \in DOMAIN upstream' : upstream'[i] <= Len(asked')
                      /\ Uncommitted(turn') => Whole' \subseteq Range(upstream')
  BY <1>1 DEF KeptInv, Carried
<1>4. Uncommitted(turn)' = Uncommitted(turn') /\ InOrder(turn.messages)' = InOrder(turn'.messages)
      /\ Range(turn.messages)' = Range(turn'.messages) /\ InOrder(upstream)' = InOrder(upstream')
      /\ Range(upstream)' = Range(upstream')
  BY DEF Uncommitted, InOrder, Range
<1> QED
  BY <1>2, <1>3, <1>4 DEF KeptInv

\* What a message before the commit passes on, and what it leaves of the request.
LEMMA SaysEarlyParts ==
  ASSUME Others, NEW kind \in UpstreamKinds, SaysEarly(kind)
  PROVE  \E ok \in BOOLEAN :
           /\ Deliver(IF Commits(kind) THEN Append(turn.buffered, kind)
                      ELSE IF HeldBack(kind) THEN <<>> ELSE <<kind>>, ok)
           /\ \/ ok /\ Terminal(kind) /\ turn' = NoTurn
              \/ /\ ~(ok /\ Terminal(kind))
                 /\ turn'.pending = turn.pending /\ turn'.committed = Commits(kind)
                 /\ turn'.messages = turn.messages
                 /\ turn'.buffered = IF Commits(kind) THEN <<>>
                                     ELSE IF HeldBack(kind) THEN Append(turn.buffered, kind)
                                     ELSE turn.buffered
           /\ IF ~ok THEN Return(OrReleased(KnownSettlement(kind)))
              ELSE IF KnownSettlement(kind) # "none" THEN Return(KnownSettlement(kind))
              ELSE Stay /\ UNCHANGED upstream
<1> DEFINE t == IF HeldBack(kind) THEN [turn EXCEPT !.buffered = Append(@, kind)] ELSE turn
           u == [t EXCEPT !.committed = Commits(kind),
                          !.buffered = IF Commits(kind) THEN <<>> ELSE @]
<1>1. turn \in Turns /\ kind \in ClientHears
  BY DEF Others, ClientHears
<1>2. PICK ok \in BOOLEAN :
        /\ Deliver(Passed(t, kind), ok)
        /\ turn' = IF ok /\ Terminal(kind) THEN NoTurn ELSE u
        /\ IF ~ok THEN Return(OrReleased(KnownSettlement(kind)))
           ELSE IF KnownSettlement(kind) # "none" THEN Return(KnownSettlement(kind))
           ELSE Stay /\ UNCHANGED upstream
  BY DEF SaysEarly
<1>3. /\ DOMAIN t = {"pending", "committed", "messages", "buffered", "tried"}
      /\ t.pending = turn.pending /\ t.messages = turn.messages
      /\ t.buffered = IF HeldBack(kind) THEN Append(turn.buffered, kind) ELSE turn.buffered
  BY <1>1 DEF Turns
<1>4. Passed(t, kind) = IF Commits(kind) THEN Append(turn.buffered, kind)
                        ELSE IF HeldBack(kind) THEN <<>> ELSE <<kind>>
  <2> HIDE DEF t
  <2>1. /\ <<>> \o Append(turn.buffered, kind) = Append(turn.buffered, kind)
        /\ <<kind>> \o <<>> = <<kind>> /\ <<>> \o <<>> = <<>>
    <3>1. Append(turn.buffered, kind) \in Seq(ClientHears) /\ <<kind>> \in Seq(ClientHears)
          /\ <<>> \in Seq(ClientHears)
      BY <1>1, PassedOn
    <3> QED
      BY <3>1, ConcatEmptySeq
  <2>2. Commits(kind) => HeldBack(kind)
    BY DEF Commits, HeldBack, Text, UpstreamKinds
  <2>3. CASE Commits(kind)
    BY <1>3, <2>1, <2>2, <2>3 DEF Passed
  <2>4. CASE ~Commits(kind)
    BY <2>1, <2>4 DEF Passed
  <2> QED
    BY <2>3, <2>4
<1>5. /\ u.pending = turn.pending /\ u.committed = Commits(kind)
      /\ u.messages = turn.messages
      /\ u.buffered = IF Commits(kind) THEN <<>>
                      ELSE IF HeldBack(kind) THEN Append(turn.buffered, kind)
                      ELSE turn.buffered
  <2> HIDE DEF t
  <2> QED
    BY <1>3
<1> QED
  <2> HIDE DEF t, u
  <2> QED
    BY <1>2, <1>4, <1>5

\* What the client sends is kept, and joins what was sent upstream.
LEMMA KeptSends ==
  ASSUME TypeInv, TypeInv', KeptInv, NEW kind \in ClientKinds, ClientSends(kind)
  PROVE  KeptInv'
<1> DEFINE n == Len(asked) + 1
           r == IF kind = "create" THEN NewTurn ELSE turn
           t == Kept(r, kind, n)
<1>1. /\ turn \in Turns /\ asked \in Seq(ClientKinds) /\ Len(asked) \in Nat
      /\ upstream \in Seq(1..MaxMessages) /\ start.asked \in 0..Len(asked)
  BY LenProperties DEF TypeInv, TalkType
<1>2. /\ pc = "open" /\ asked' = Append(asked, kind)
      /\ n + Len(said) <= MaxMessages
      /\ \/ Stay /\ upstream' = Append(upstream, n) /\ turn' = t
         \/ Uncommitted(t) /\ Retry(t)
         \/ ~Uncommitted(t) /\ Return("failure") /\ turn' = t
  BY DEF ClientSends
<1>3. /\ Len(asked') = n /\ asked'[n] = kind
      /\ \A i \in 1..Len(asked) : asked'[i] = asked[i]
  BY <1>1, <1>2, AppendProperties
<1>4. n \in 1..MaxMessages
  <2>1. Len(said) \in Nat
    BY LenProperties DEF TypeInv, TalkType
  <2> QED
    BY <1>1, <1>2, <2>1, ProxyAssumption
<1>5. Whole' = (IF kind = "create" THEN {} ELSE Whole)
               \cup (IF kind \in Replayable THEN {n} ELSE {})
  <2>1. CASE kind = "create"
    <3>1. start'.asked = n - 1
      BY <2>1 DEF ClientSends
    <3>2. \A i \in start'.asked + 1..Len(asked') : i = n
      BY <1>1, <1>3, <3>1
    <3>3. n \in start'.asked + 1..Len(asked')
      BY <1>1, <1>3, <3>1
    <3>4. kind \in Replayable
      BY <2>1 DEF Replayable
    <3> QED
      BY <1>3, <2>1, <3>2, <3>3, <3>4 DEF Whole
  <2>2. CASE kind # "create"
    <3>1. start' = start
      BY <2>2 DEF ClientSends
    <3>2. \A i : i \in start'.asked + 1..Len(asked') <=> i \in start.asked + 1..Len(asked) \/ i = n
      BY <1>1, <1>3, <3>1
    <3>3. \A i \in start.asked + 1..Len(asked) : asked'[i] = asked[i] /\ i # n
      BY <1>1, <1>3
    <3>4. \A i : i \in Whole' <=> i \in Whole \/ (i = n /\ kind \in Replayable)
      BY <1>3, <3>2, <3>3 DEF Whole
    <3> QED
      BY <2>2, <3>4
  <2> QED
    BY <2>1, <2>2
<1>6. /\ r \in Turns /\ t.pending = r.pending /\ t.committed = r.committed
      /\ t.messages = IF Uncommitted(r) /\ kind \in Replayable
                      THEN Append(r.messages, n) ELSE r.messages
      /\ DOMAIN t = {"pending", "committed", "messages", "buffered", "tried"}
  <2>1. r \in Turns
    BY <1>1, TurnChanges
  <2> HIDE DEF r
  <2>2. CASE Uncommitted(r) /\ kind \in Replayable
    <3>1. t = [r EXCEPT !.messages = Append(@, n)]
      BY <2>2 DEF Kept
    <3> HIDE DEF t
    <3> QED
      BY <2>1, <2>2, <3>1 DEF Turns
  <2>3. CASE ~(Uncommitted(r) /\ kind \in Replayable)
    <3>1. t = r
      BY <2>3 DEF Kept
    <3>2. DOMAIN r = {"pending", "committed", "messages", "buffered", "tried"}
      BY <2>1 DEF Turns
    <3> HIDE DEF t
    <3> QED
      BY <2>1, <2>3, <3>1, <3>2
  <2> QED
    BY <2>2, <2>3
<1>7. Uncommitted(t) => InOrder(t.messages) /\ Range(t.messages) = Whole'
  <2> SUFFICES ASSUME Uncommitted(t)
               PROVE  InOrder(t.messages) /\ Range(t.messages) = Whole'
    OBVIOUS
  <2>1. Uncommitted(r)
    <3> HIDE DEF r, t
    <3> QED
      BY <1>6 DEF Uncommitted
  <2>2. InOrder(r.messages) /\ Range(r.messages) = (IF kind = "create" THEN {} ELSE Whole)
    <3>1. CASE kind = "create"
      BY <3>1 DEF NewTurn, NoTurn, InOrder, Range
    <3>2. CASE kind # "create"
      BY <2>1, <3>2 DEF KeptInv
    <3> QED
      BY <3>1, <3>2
  <2>3. \A i \in DOMAIN r.messages : r.messages[i] < n
    <3>1. \A i \in DOMAIN r.messages : r.messages[i] \in Whole
      BY <2>2 DEF Range
    <3>2. \A i \in Whole : i < n
      BY <1>1 DEF Whole
    <3> QED
      BY <3>1, <3>2
  <2>4. r.messages \in Seq(1..MaxMessages)
    BY <1>6 DEF Turns
  <2> HIDE DEF r, t, n
  <2>5. /\ InOrder(Append(r.messages, n))
        /\ Range(Append(r.messages, n)) = Range(r.messages) \cup {n}
    BY <1>4, <2>2, <2>3, <2>4, InOrderAppend
  <2>6. CASE kind \in Replayable
    <3>1. t.messages = Append(r.messages, n)
      BY <1>6, <2>1, <2>6
    <3> QED
      BY <1>5, <2>2, <2>5, <2>6, <3>1
  <2>7. CASE kind \notin Replayable
    <3>1. t.messages = r.messages
      BY <1>6, <2>7
    <3>2. kind # "create"
      BY <2>7 DEF Replayable
    <3> QED
      BY <1>5, <2>2, <2>7, <3>1, <3>2
  <2> QED
    BY <2>6, <2>7
<1>8. Uncommitted(t) => /\ Uncommitted([t EXCEPT !.tried = @ \cup {account}])
                        /\ [t EXCEPT !.tried = @ \cup {account}].messages = t.messages
  <2> HIDE DEF t
  <2> QED
    BY <1>6 DEF Uncommitted
<1>9. CASE Stay /\ upstream' = Append(upstream, n) /\ turn' = t
  <2>1. pc' = "open"
    BY <1>9 DEF Stay
  <2>2. InOrder(upstream) /\ \A i \in DOMAIN upstream : upstream[i] <= Len(asked)
    BY <1>2 DEF KeptInv
  <2>3. \A i \in DOMAIN upstream : upstream[i] < n
    <3>1. \A i \in DOMAIN upstream : upstream[i] \in Nat
      <4>1. DOMAIN upstream = 1..Len(upstream)
        BY <1>1, LenProperties
      <4>2. \A i \in 1..Len(upstream) : upstream[i] \in 1..MaxMessages
        BY <1>1, ElementOfSeq
      <4> QED
        BY <4>1, <4>2, ProxyAssumption
    <3> QED
      BY <1>1, <2>2, <3>1
  <2>4. /\ InOrder(upstream') /\ Range(upstream') = Range(upstream) \cup {n}
        /\ \A i \in DOMAIN upstream' : upstream'[i] <= Len(asked')
    <3> HIDE DEF n
    <3> QED
      BY <1>1, <1>3, <1>4, <1>9, <2>2, <2>3, InOrderAppend
  <2>5. Uncommitted(t) => Whole' \subseteq Range(upstream')
    <3>1. Uncommitted(t) /\ kind # "create" => Uncommitted(turn)
      <4> HIDE DEF t
      <4> QED
        BY <1>6 DEF Uncommitted
    <3>2. Uncommitted(turn) => Whole \subseteq Range(upstream)
      BY <1>2 DEF KeptInv
    <3> HIDE DEF t, n
    <3> QED
      BY <1>5, <2>4, <3>1, <3>2
  <2> HIDE DEF t
  <2> QED
    BY <1>7, <1>9, <2>1, <2>4, <2>5 DEF KeptInv, Uncommitted, InOrder, Range
<1>10. CASE Uncommitted(t) /\ Retry(t)
  <2>1. pc' = "retry" /\ Uncommitted(turn') /\ turn'.messages = t.messages
    <3> HIDE DEF t
    <3> QED
      BY <1>8, <1>10 DEF Retry
  <2> HIDE DEF t
  <2> QED
    BY <1>7, <1>10, <2>1 DEF KeptInv, Uncommitted, InOrder, Range
<1>11. CASE ~Uncommitted(t) /\ Return("failure") /\ turn' = t
  <2> HIDE DEF t
  <2> QED
    BY <1>11 DEF Return, KeptInv, Uncommitted
<1> QED
  BY <1>2, <1>9, <1>10, <1>11

LEMMA KeptStep ==
  ASSUME TypeInv, TypeInv', KeptInv, [Next]_vars
  PROVE  KeptInv'
<1>1. turn \in Turns /\ Others
  BY DEF TypeInv, Others
<1>2. ~Uncommitted(NoTurn)
  BY DEF NoTurn, Uncommitted
<1>3. [turn EXCEPT !.buffered = <<>>].messages = turn.messages
      /\ (Uncommitted([turn EXCEPT !.buffered = <<>>]) <=> Uncommitted(turn))
  BY <1>1 DEF Turns, Uncommitted
<1>4. ASSUME NEW how, Return(how), UNCHANGED <<asked, start>>, Carried
      PROVE  KeptInv'
  BY <1>4, KeptOn DEF Return, connection
<1>5. ASSUME Retry(turn), Uncommitted(turn), UNCHANGED <<asked, start>>
      PROVE  KeptInv'
  <2>1. Carried /\ Uncommitted(turn')
    BY <1>1, <1>5 DEF Retry, Carried, Turns, Uncommitted
  <2> QED
    BY <1>5, <2>1, KeptOn DEF Retry, connection
<1>6. CASE UNCHANGED vars
  BY <1>6 DEF vars, KeptInv, Uncommitted, InOrder, Range, Whole
<1>7. CASE UpgradeFails \/ Leave
  BY <1>4, <1>7 DEF UpgradeFails, Leave, request, Carried
<1>8. CASE Upgrade
  <2>1. pc' = "open" /\ turn' = NoTurn /\ upstream' = <<>>
    BY <1>8 DEF Upgrade, Stay, KeptInv
  <2> QED
    BY <1>2, <2>1 DEF KeptInv, Uncommitted, InOrder
<1>9. CASE ClientLeaves
  BY <1>9 DEF ClientLeaves, connection, request, KeptInv, Uncommitted, InOrder, Range, Whole
<1>10. CASE Breaks
  <2>1. CASE Uncommitted(turn)
    BY <1>5, <1>10, <2>1 DEF Breaks, request
  <2>2. CASE ~Uncommitted(turn)
    BY <1>4, <1>10, <2>2 DEF Breaks, request, Carried
  <2> QED
    BY <2>1, <2>2
<1>11. CASE Reset \/ NoReplacement
  BY <1>3, <1>4, <1>11 DEF Reset, NoReplacement, request, Carried
<1>12. ASSUME NEW kind \in UpstreamKinds, FailsEarly(kind)
       PROVE  KeptInv'
  <2>1. CASE FailsOver(kind)
    BY <1>5, <1>12, <2>1 DEF FailsEarly, request
  <2>2. CASE ~FailsOver(kind)
    BY <1>3, <1>4, <1>12, <2>2 DEF FailsEarly, request, Carried
  <2> QED
    BY <2>1, <2>2
<1>13. ASSUME NEW kind \in UpstreamKinds, SaysEarly(kind)
       PROVE  KeptInv'
  <2>1. /\ turn' = NoTurn \/ (turn'.messages = turn.messages /\ turn'.pending = turn.pending)
        /\ (\E how : Return(how)) \/ (Stay /\ UNCHANGED upstream)
    BY <1>1, <1>13, SaysEarlyParts
  <2>2. Uncommitted(turn) /\ pc = "open" /\ UNCHANGED <<asked, start>>
    BY <1>13 DEF SaysEarly, Says, request
  <2>3. Carried
    BY <1>2, <2>1, <2>2 DEF Carried
  <2>4. CASE \E how : Return(how)
    BY <1>4, <2>2, <2>3, <2>4
  <2>5. CASE Stay /\ UNCHANGED upstream
    BY <2>2, <2>3, <2>5, KeptOn DEF Stay
  <2> QED
    BY <2>1, <2>4, <2>5
<1>14. ASSUME NEW kind \in UpstreamKinds, SaysLate(kind)
       PROVE  KeptInv'
  <2>1. /\ turn' = NoTurn \/ turn' = turn
        /\ (\E how : Return(how)) \/ (Stay /\ UNCHANGED upstream)
        /\ pc = "open" /\ UNCHANGED <<asked, start>>
    BY <1>14 DEF SaysLate, Says, request
  <2>2. Carried
    BY <1>2, <2>1 DEF Carried
  <2>3. CASE \E how : Return(how)
    BY <1>4, <2>1, <2>2, <2>3
  <2>4. CASE Stay /\ UNCHANGED upstream
    BY <2>1, <2>2, <2>4, KeptOn DEF Stay
  <2> QED
    BY <2>1, <2>3, <2>4
<1>15. ASSUME NEW a \in Accounts, Connect(a)
       PROVE  KeptInv'
  <2>1. PICK failed : turn' = [turn EXCEPT !.tried = @ \cup failed]
    BY <1>15 DEF Connect
  <2>2. Uncommitted(turn)
    BY <1>15 DEF Connect, KeptInv
  <2>3. Carried /\ Uncommitted(turn')
    BY <1>1, <2>1, <2>2 DEF Carried, Turns, Uncommitted
  <2> QED
    BY <1>15, <2>3, KeptOn DEF Connect, connection
<1>16. CASE ReplayFails
  <2>1. Uncommitted(turn)
    BY <1>16 DEF ReplayFails, KeptInv
  <2>2. Carried /\ Uncommitted(turn')
    BY <1>1, <1>16, <2>1 DEF ReplayFails, Carried, Turns, Uncommitted
  <2> QED
    BY <1>16, <2>2, KeptOn DEF ReplayFails, connection, request
<1>17. CASE Switch
  <2>1. /\ pc' = "open" /\ upstream' = turn.messages
        /\ turn' = [turn EXCEPT !.buffered = <<>>] /\ UNCHANGED <<asked, start>>
    BY <1>17 DEF Switch, request
  <2>2. InOrder(turn.messages) /\ Range(turn.messages) = Whole
    BY <1>17 DEF Switch, KeptInv
  <2>3. Whole' = Whole
    BY <2>1 DEF Whole
  <2>4. \A i \in DOMAIN turn.messages : turn.messages[i] <= Len(asked)
    <3>1. \A i \in DOMAIN turn.messages : turn.messages[i] \in Whole
      BY <2>2 DEF Range
    <3>2. \A i \in Whole : i <= Len(asked)
      BY LenProperties DEF Whole, TypeInv, TalkType
    <3> QED
      BY <3>1, <3>2
  <2>5. turn'.messages = turn.messages
    BY <1>3, <2>1
  <2> QED
    BY <2>1, <2>2, <2>3, <2>4, <2>5 DEF KeptInv, InOrder, Range
<1> QED
  BY <1>6, <1>7, <1>8, <1>9, <1>10, <1>11, <1>12, <1>13, <1>14, <1>15, <1>16, <1>17,
     KeptSends DEF Next

\* As long as a request may be retried, the connection that serves it was sent all the
\* client has sent since response.create, in order, once, on whichever account
\* (request_messages, replay_buffered_request_messages).
THEOREM RequestsReplayedWhole == Spec => []WholeRequest
<1>1. TypeInv /\ KeptInv /\ [Next]_vars => TypeInv' /\ KeptInv'
  BY TypeStep, KeptStep
<1>2. KeptInv => WholeRequest
  BY DEF KeptInv, WholeRequest
<1> QED
  BY TypeStarts, KeptStarts, <1>1, <1>2, PTL DEF Spec

-----------------------------------------------------------------------------
(* One response, one account *)

\* No text of a response has reached the client since the turn began.
Quiet == \A i \in start.delivered + 1..Len(delivered) : delivered[i].kind \notin Text

\* A request that may be retried has been answered by nobody.
TalkInv ==
  /\ (pc \in {"open", "retry", "replay"} /\ Uncommitted(turn)) => Quiet
  /\ OneUpstreamPerTurn

LEMMA TalkStarts == Init => TalkInv
  BY DEF Init, TalkInv, OneUpstreamPerTurn, NoTurn, Uncommitted

\* What the client has after a send is what it had, and what was sent.
LEMMA HeardParts ==
  ASSUME TypeInv, NEW kinds \in Seq(ClientHears), NEW ok, Deliver(kinds, ok)
  PROVE  \A i \in start.delivered + 1..Len(delivered') :
           \/ i \in start.delivered + 1..Len(delivered) /\ delivered'[i] = delivered[i]
           \/ \E k \in 1..Len(kinds) : delivered'[i] = [conn |-> conn, kind |-> kinds[k]]
<1>1. /\ Len(delivered) \in Nat /\ start.delivered \in Nat
      /\ Len(kinds) \in Nat /\ TalkType /\ conn >= 1
  BY LenProperties DEF TypeInv, TalkType
<1>2. CASE delivered' = delivered
  BY <1>2
<1>3. CASE /\ Len(delivered') = Len(delivered) + Len(kinds)
           /\ \A i \in 1..Len(delivered) : delivered'[i] = delivered[i]
           /\ \A i \in 1..Len(kinds) :
                delivered'[Len(delivered) + i] = [conn |-> conn, kind |-> kinds[i]]
  <2> SUFFICES ASSUME NEW i \in start.delivered + 1..Len(delivered')
               PROVE  \/ i \in start.delivered + 1..Len(delivered) /\ delivered'[i] = delivered[i]
                      \/ \E k \in 1..Len(kinds) :
                           delivered'[i] = [conn |-> conn, kind |-> kinds[k]]
    OBVIOUS
  <2>1. CASE i <= Len(delivered)
    <3>1. i \in 1..Len(delivered) /\ i \in start.delivered + 1..Len(delivered)
      BY <1>1, <2>1
    <3> QED
      BY <1>3, <3>1
  <2>2. CASE ~(i <= Len(delivered))
    <3> DEFINE k == i - Len(delivered)
    <3>1. k \in 1..Len(kinds) /\ Len(delivered) + k = i
      BY <1>1, <1>3, <2>2
    <3> HIDE DEF k
    <3>2. delivered'[Len(delivered) + k] = [conn |-> conn, kind |-> kinds[k]]
      BY <1>3, <3>1
    <3> QED
      BY <3>1, <3>2
  <2> QED
    BY <2>1, <2>2
<1> QED
  BY <1>1, <1>2, <1>3, DeliveredParts

LEMMA TalkStep ==
  ASSUME TypeInv, KeptInv, TalkInv, [Next]_vars
  PROVE  TalkInv'
<1>1. turn \in Turns /\ Others /\ conn \in Nat /\ Len(delivered) \in Nat
  BY LenProperties DEF TypeInv, Others, TalkType
<1>2. ~Uncommitted(NoTurn)
  BY DEF NoTurn, Uncommitted
<1>3. ASSUME NEW how, Return(how)
      PROVE  TalkInv'
  BY <1>3 DEF Return, TalkInv, OneUpstreamPerTurn
<1>4. ASSUME pc' \in {"retry", "replay"}, Uncommitted(turn), pc \in {"open", "retry", "replay"},
             UNCHANGED <<delivered, start>>
      PROVE  TalkInv'
  BY <1>4 DEF TalkInv, OneUpstreamPerTurn, Quiet
<1>5. ASSUME pc = "open", Uncommitted(turn') => Uncommitted(turn),
             UNCHANGED <<delivered, start, conn>>
      PROVE  TalkInv'
  BY <1>5 DEF TalkInv, OneUpstreamPerTurn, Quiet, Uncommitted
<1>6. CASE UNCHANGED vars
  BY <1>6 DEF vars, TalkInv, OneUpstreamPerTurn, Quiet, Uncommitted
<1>7. CASE UpgradeFails \/ Leave \/ Reset \/ NoReplacement
  BY <1>3, <1>7 DEF UpgradeFails, Leave, Reset, NoReplacement
<1>8. CASE Upgrade
  <2>1. turn' = NoTurn /\ delivered' = <<>> /\ start' = start /\ start.delivered \in Nat
    BY <1>8, LenProperties DEF Upgrade, KeptInv, request, TypeInv, TalkType
  <2>2. Len(delivered') = 0
    BY <2>1
  <2> QED
    BY <1>2, <2>1, <2>2 DEF TalkInv, OneUpstreamPerTurn, Quiet
<1>9. CASE ClientLeaves
  BY <1>9 DEF ClientLeaves, connection, request, TalkInv, OneUpstreamPerTurn, Quiet, Uncommitted
<1>10. ASSUME NEW kind \in ClientKinds, ClientSends(kind)
       PROVE  TalkInv'
  <2> DEFINE t == Kept(IF kind = "create" THEN NewTurn ELSE turn, kind, Len(asked) + 1)
  <2>1. /\ pc = "open" /\ delivered' = delivered
        /\ \/ Stay /\ turn' = t
           \/ Uncommitted(t) /\ Retry(t)
           \/ Return("failure")
    BY <1>10 DEF ClientSends
  <2>2. CASE kind = "create"
    <3>1. start'.delivered = Len(delivered)
      BY <1>10, <2>2 DEF ClientSends
    <3>2. Quiet' /\ OneUpstreamPerTurn'
      BY <1>1, <2>1, <3>1 DEF Quiet, OneUpstreamPerTurn
    <3> QED
      BY <3>2 DEF TalkInv
  <2>3. CASE kind # "create"
    <3>1. start' = start
      BY <1>10, <2>3 DEF ClientSends
    <3>2. Uncommitted(t) <=> Uncommitted(turn)
      BY <1>1, <2>3 DEF Kept, Uncommitted, Turns
    <3> HIDE DEF t
    <3>3. CASE Stay /\ turn' = t
      BY <1>5, <2>1, <3>1, <3>2, <3>3 DEF Stay
    <3>4. CASE Uncommitted(t) /\ Retry(t)
      BY <1>4, <2>1, <3>1, <3>2, <3>4 DEF Retry
    <3>5. CASE Return("failure")
      BY <1>3, <3>5
    <3> QED
      BY <2>1, <3>3, <3>4, <3>5
  <2> QED
    BY <2>2, <2>3
<1>11. CASE Breaks
  <2>1. CASE Uncommitted(turn)
    BY <1>4, <1>11, <2>1 DEF Breaks, Retry, request
  <2>2. CASE ~Uncommitted(turn)
    BY <1>3, <1>11, <2>2 DEF Breaks
  <2> QED
    BY <2>1, <2>2
<1>12. ASSUME NEW kind \in UpstreamKinds, FailsEarly(kind)
       PROVE  TalkInv'
  <2>1. CASE FailsOver(kind)
    BY <1>4, <1>12, <2>1 DEF FailsEarly, Says, Retry, request
  <2>2. CASE ~FailsOver(kind)
    BY <1>3, <1>12, <2>2 DEF FailsEarly
  <2> QED
    BY <2>1, <2>2
<1>13. ASSUME NEW kinds \in Seq(ClientHears), NEW ok, Deliver(kinds, ok), pc = "open",
              start' = start, conn' = conn, Uncommitted(turn') =>
                Uncommitted(turn) /\ \A k \in 1..Len(kinds) : kinds[k] \notin Text
       PROVE  TalkInv'
  <2>1. \A i \in start.delivered + 1..Len(delivered') :
          \/ i \in start.delivered + 1..Len(delivered) /\ delivered'[i] = delivered[i]
          \/ \E k \in 1..Len(kinds) : delivered'[i] = [conn |-> conn, kind |-> kinds[k]]
    BY <1>13, HeardParts
  <2>2. \A i \in start.delivered + 1..Len(delivered') :
          delivered'[i].kind \in Text => delivered'[i].conn = conn
    <3>1. \A i \in start.delivered + 1..Len(delivered) :
            delivered[i].kind \in Text => delivered[i].conn = conn
      BY <1>13 DEF TalkInv, OneUpstreamPerTurn
    <3>2. \A k \in 1..Len(kinds) : [conn |-> conn, kind |-> kinds[k]].conn = conn
      OBVIOUS
    <3> SUFFICES ASSUME NEW i \in start.delivered + 1..Len(delivered'),
                        delivered'[i].kind \in Text
                 PROVE  delivered'[i].conn = conn
      OBVIOUS
    <3>3. CASE i \in start.delivered + 1..Len(delivered) /\ delivered'[i] = delivered[i]
      BY <3>1, <3>3
    <3>4. CASE \E k \in 1..Len(kinds) : delivered'[i] = [conn |-> conn, kind |-> kinds[k]]
      BY <3>2, <3>4
    <3> QED
      BY <2>1, <3>3, <3>4
  <2>3. OneUpstreamPerTurn'
    BY <1>13, <2>2 DEF OneUpstreamPerTurn
  <2>4. Uncommitted(turn') => Quiet'
    <3> SUFFICES ASSUME Uncommitted(turn'),
                        NEW i \in start.delivered + 1..Len(delivered')
                 PROVE  delivered'[i].kind \notin Text
      BY <1>13 DEF Quiet
    <3>1. CASE i \in start.delivered + 1..Len(delivered) /\ delivered'[i] = delivered[i]
      BY <1>13, <3>1 DEF TalkInv, Quiet
    <3>2. ASSUME NEW k \in 1..Len(kinds), delivered'[i] = [conn |-> conn, kind |-> kinds[k]]
          PROVE  delivered'[i].kind \notin Text
      BY <1>13, <3>2
    <3> QED
      BY <2>1, <3>1, <3>2
  <2> QED
    BY <2>3, <2>4 DEF TalkInv, Uncommitted
<1>14. ASSUME NEW kind \in UpstreamKinds, SaysEarly(kind)
       PROVE  TalkInv'
  <2> DEFINE kinds == IF Commits(kind) THEN Append(turn.buffered, kind)
                      ELSE IF HeldBack(kind) THEN <<>> ELSE <<kind>>
  <2>1. PICK ok \in BOOLEAN :
          /\ Deliver(kinds, ok)
          /\ turn' = NoTurn \/ turn'.committed = Commits(kind)
          /\ (\E how : Return(how)) \/ Stay
    BY <1>1, <1>14, SaysEarlyParts
  <2>2. Uncommitted(turn) /\ pc = "open" /\ start' = start
    BY <1>14 DEF SaysEarly, Says, request
  <2>3. kinds \in Seq(ClientHears)
    BY <1>1, PassedOn DEF ClientHears
  <2>4. Uncommitted(turn') => \A k \in 1..Len(kinds) : kinds[k] \notin Text
    <3>1. Uncommitted(turn') => ~Commits(kind)
      BY <1>2, <2>1 DEF Uncommitted
    <3>2. ~Commits(kind) => \A k \in 1..Len(kinds) : kinds[k] \notin Text
      BY DEF HeldBack
    <3> QED
      BY <3>1, <3>2
  <2> HIDE DEF kinds
  <2>5. CASE \E how : Return(how)
    BY <1>3, <2>5
  <2>6. CASE Stay
    BY <1>13, <2>1, <2>2, <2>3, <2>4, <2>6 DEF Stay
  <2> QED
    BY <2>1, <2>5, <2>6
<1>15. ASSUME NEW kind \in UpstreamKinds, SaysLate(kind)
       PROVE  TalkInv'
  <2>1. PICK ok \in BOOLEAN :
          /\ Deliver(<<kind>>, ok)
          /\ turn' = NoTurn \/ turn' = turn
          /\ (\E how : Return(how)) \/ Stay
    BY <1>15 DEF SaysLate
  <2>2. ~Uncommitted(turn) /\ pc = "open" /\ start' = start
    BY <1>15 DEF SaysLate, Says, request
  <2>3. <<kind>> \in Seq(ClientHears)
    BY DEF ClientHears
  <2>4. ~Uncommitted(turn')
    BY <1>2, <2>1, <2>2
  <2>5. CASE \E how : Return(how)
    BY <1>3, <2>5
  <2>6. CASE Stay
    BY <1>13, <2>1, <2>2, <2>3, <2>4, <2>6 DEF Stay
  <2> QED
    BY <2>1, <2>5, <2>6
<1>16. ASSUME NEW a \in Accounts, Connect(a)
       PROVE  TalkInv'
  BY <1>4, <1>16 DEF Connect, KeptInv
<1>17. CASE ReplayFails
  BY <1>4, <1>17 DEF ReplayFails, request, KeptInv
<1>18. CASE Switch
  <2>1. pc' = "open" /\ UNCHANGED <<delivered, start>> /\ Quiet
    BY <1>18 DEF Switch, request, KeptInv, TalkInv
  <2> QED
    BY <2>1 DEF TalkInv, OneUpstreamPerTurn, Quiet
<1> QED
  BY <1>6, <1>7, <1>8, <1>9, <1>10, <1>11, <1>12, <1>14, <1>15, <1>16, <1>17, <1>18 DEF Next

\* The client never reads one response from two accounts: what was held back of an
\* account that failed is dropped with it (should_buffer_upstream_message_before_commit,
\* apply_websocket_retry_switch).
THEOREM ResponsesFromOneAccount == Spec => []OneUpstreamPerTurn
<1>1. TypeInv /\ KeptInv /\ TalkInv /\ [Next]_vars => TypeInv' /\ KeptInv' /\ TalkInv'
  BY TypeStep, KeptStep, TalkStep
<1>2. TalkInv => OneUpstreamPerTurn
  BY DEF TalkInv
<1> QED
  BY TypeStarts, KeptStarts, TalkStarts, <1>1, <1>2, PTL DEF Spec

-----------------------------------------------------------------------------
(* Nothing held back *)

\* g is f and one more value, v at k, after all those of f.
Grows(g, f, k, v) ==
  /\ DOMAIN g = DOMAIN f \cup {k} /\ g[k] = v
  /\ \A i \in DOMAIN f : i < k /\ g[i] = f[i]

LEMMA EmptyInStep ==
  ASSUME NEW f, NEW g, DOMAIN f = {}, DOMAIN g = {}
  PROVE  InStep(f, g)
<1> DEFINE match == [i \in DOMAIN f |-> 0]
<1>1. match \in [DOMAIN f -> DOMAIN g]
  OBVIOUS
<1> QED
  BY <1>1 DEF InStep

LEMMA GrowInStep ==
  ASSUME NEW f, NEW g, NEW f2, NEW g2, NEW k \in Int, NEW l \in Int, NEW v,
         DOMAIN f \subseteq Int, DOMAIN g \subseteq Int,
         InStep(f, g), Grows(f2, f, k, v), Grows(g2, g, l, v)
  PROVE  InStep(f2, g2)
<1>1. PICK match \in [DOMAIN f -> DOMAIN g] :
        /\ \A i \in DOMAIN f : f[i] = g[match[i]]
        /\ \A i, j \in DOMAIN f : i < j => match[i] < match[j]
        /\ \A n \in DOMAIN g : \E i \in DOMAIN f : match[i] = n
  BY DEF InStep
<1> DEFINE more == [i \in DOMAIN f2 |-> IF i = k THEN l ELSE match[i]]
<1>2. /\ DOMAIN f2 = DOMAIN f \cup {k} /\ DOMAIN g2 = DOMAIN g \cup {l}
      /\ f2[k] = v /\ g2[l] = v
      /\ \A i \in DOMAIN f : i < k /\ i # k /\ f2[i] = f[i]
      /\ \A i \in DOMAIN g : i < l /\ g2[i] = g[i]
  BY DEF Grows
<1>3. more[k] = l /\ \A i \in DOMAIN f : more[i] = match[i]
  BY <1>2
<1>4. more \in [DOMAIN f2 -> DOMAIN g2]
  BY <1>1, <1>2
<1> HIDE DEF more
<1>5. \A i \in DOMAIN f2 : f2[i] = g2[more[i]]
  BY <1>1, <1>2, <1>3
<1>6. \A i, j \in DOMAIN f2 : i < j => more[i] < more[j]
  <2> SUFFICES ASSUME NEW i \in DOMAIN f2, NEW j \in DOMAIN f2, i < j
               PROVE  more[i] < more[j]
    OBVIOUS
  <2>1. i \in DOMAIN f
    BY <1>2
  <2>2. CASE j = k
    <3>1. more[i] \in DOMAIN g /\ more[j] = l
      BY <1>1, <1>3, <2>1, <2>2
    <3> QED
      BY <1>2, <3>1
  <2>3. CASE j \in DOMAIN f
    BY <1>1, <1>3, <2>1, <2>3
  <2> QED
    BY <1>2, <2>2, <2>3
<1>7. \A n \in DOMAIN g2 : \E i \in DOMAIN f2 : more[i] = n
  BY <1>1, <1>2, <1>3
<1> QED
  BY <1>4, <1>5, <1>6, <1>7 DEF InStep

LEMMA ShiftInStep ==
  ASSUME NEW f, NEW g, NEW h, NEW d \in Int, DOMAIN f \subseteq Int, InStep(f, g),
         DOMAIN h = {i + d : i \in DOMAIN f}, \A i \in DOMAIN f : h[i + d] = f[i]
  PROVE  InStep(h, g)
<1>1. PICK match \in [DOMAIN f -> DOMAIN g] :
        /\ \A i \in DOMAIN f : f[i] = g[match[i]]
        /\ \A i, j \in DOMAIN f : i < j => match[i] < match[j]
        /\ \A n \in DOMAIN g : \E i \in DOMAIN f : match[i] = n
  BY DEF InStep
<1> DEFINE shifted == [j \in DOMAIN h |-> match[j - d]]
<1>2. \A j \in DOMAIN h : j \in Int /\ j - d \in DOMAIN f /\ (j - d) + d = j
  OBVIOUS
<1>3. \A i \in DOMAIN f : i + d \in DOMAIN h /\ (i + d) - d = i
  OBVIOUS
<1>4. shifted \in [DOMAIN h -> DOMAIN g]
  BY <1>1, <1>2
<1>5. \A j \in DOMAIN h : shifted[j] = match[j - d] /\ h[j] = f[j - d]
  BY <1>2
<1> HIDE DEF shifted
<1>6. \A j \in DOMAIN h : h[j] = g[shifted[j]]
  BY <1>1, <1>2, <1>5
<1>7. \A i, j \in DOMAIN h : i < j => shifted[i] < shifted[j]
  <2> SUFFICES ASSUME NEW i \in DOMAIN h, NEW j \in DOMAIN h, i < j
               PROVE  shifted[i] < shifted[j]
    OBVIOUS
  <2>1. i - d \in DOMAIN f /\ j - d \in DOMAIN f /\ i - d < j - d
    BY <1>2
  <2> QED
    BY <1>1, <1>5, <2>1
<1>8. \A n \in DOMAIN g : \E j \in DOMAIN h : shifted[j] = n
  <2> SUFFICES ASSUME NEW n \in DOMAIN g
               PROVE  \E j \in DOMAIN h : shifted[j] = n
    OBVIOUS
  <2>1. PICK i \in DOMAIN f : match[i] = n
    BY <1>1
  <2>2. i + d \in DOMAIN h /\ shifted[i + d] = match[(i + d) - d]
    BY <1>3, <1>5
  <2> QED
    BY <1>3, <2>1, <2>2
<1> QED
  BY <1>4, <1>6, <1>7, <1>8 DEF InStep

LEMMA InStepDomains ==
  ASSUME NEW m, NEW from, Len(m) \in Nat, from \in Nat
  PROVE  /\ DOMAIN TextHere(m, from) = {i \in from + 1..Len(m) :
                                          m[i].conn = conn /\ m[i].kind \in Text}
         /\ DOMAIN TextHere(m, from) \subseteq Int
         /\ \A i \in DOMAIN TextHere(m, from) : TextHere(m, from)[i] = m[i].kind
BY DEF TextHere

\* One more message, from the connection in use.
LEMMA TextGrows ==
  ASSUME NEW m, NEW m2, NEW from \in Nat, Len(m) \in Nat, from <= Len(m),
         Len(m2) = Len(m) + 1, \A i \in 1..Len(m) : m2[i] = m[i],
         m2[Len(m) + 1].conn = conn
  PROVE  IF m2[Len(m) + 1].kind \in Text
         THEN Grows(TextHere(m2, from), TextHere(m, from), Len(m) + 1, m2[Len(m) + 1].kind)
         ELSE TextHere(m2, from) = TextHere(m, from)
<1> DEFINE k == Len(m) + 1
<1>1. \A i : i \in from + 1..Len(m2) <=> i \in from + 1..Len(m) \/ i = k
  OBVIOUS
<1>2. \A i \in from + 1..Len(m) : m2[i] = m[i] /\ i < k
  OBVIOUS
<1>3. CASE m2[k].kind \in Text
  <2>1. DOMAIN TextHere(m2, from) = DOMAIN TextHere(m, from) \cup {k}
    BY <1>1, <1>2, <1>3 DEF TextHere
  <2>2. \A i \in DOMAIN TextHere(m, from) : i < k /\ TextHere(m2, from)[i] = TextHere(m, from)[i]
    BY <1>1, <1>2, <1>3 DEF TextHere
  <2>3. TextHere(m2, from)[k] = m2[k].kind
    BY <1>1, <1>3 DEF TextHere
  <2> QED
    BY <1>3, <2>1, <2>2, <2>3 DEF Grows
<1>4. CASE m2[k].kind \notin Text
  BY <1>1, <1>2, <1>4 DEF TextHere
<1> QED
  BY <1>3, <1>4

Malformed == \E i \in 1..Len(said) : said[i].kind = "malformed"

\* What is held back of a request that may be retried is all its connection has said.
HeldInv ==
  /\ (pc = "open" /\ Uncommitted(turn)) => InStep(turn.buffered, Spoken)
  /\ NothingHeldBack

LEMMA HeldStarts == Init => HeldInv
  BY DEF Init, HeldInv, NothingHeldBack

LEMMA SpokenGrows ==
  ASSUME TypeInv, NEW kind \in UpstreamKinds, Says(kind), conn' = conn, start' = start
  PROVE  /\ IF kind \in Text THEN Grows(Spoken', Spoken, Len(said) + 1, kind)
            ELSE Spoken' = Spoken
         /\ (Malformed \/ kind = "malformed") => Malformed'
         /\ DOMAIN Spoken \subseteq Int /\ Len(said) \in Nat
<1> DEFINE M == [conn : 1..conn, kind : UpstreamKinds]
           m == [conn |-> conn, kind |-> kind]
<1>1. said \in Seq(M) /\ Len(said) \in Nat /\ start.said \in Nat /\ start.said <= Len(said)
  BY LenProperties DEF TypeInv, TalkType
<1>2. m \in M /\ said' = Append(said, m) /\ m.conn = conn /\ m.kind = kind
  BY DEF TypeInv, TalkType, Says
<1>3. /\ Len(said') = Len(said) + 1 /\ \A i \in 1..Len(said) : said'[i] = said[i]
      /\ said'[Len(said) + 1] = m
  <2> HIDE DEF M, m
  <2> QED
    BY <1>1, <1>2, AppendProperties
<1> HIDE DEF m
<1>4. Spoken' = TextHere(said', start.said)
  BY DEF Spoken, TextHere
<1>5. IF kind \in Text THEN Grows(Spoken', Spoken, Len(said) + 1, kind) ELSE Spoken' = Spoken
  BY <1>1, <1>2, <1>3, <1>4, TextGrows DEF Spoken
<1>6. (Malformed \/ kind = "malformed") => Malformed'
  <2>1. Malformed' = \E i \in 1..Len(said') : said'[i].kind = "malformed"
    BY DEF Malformed
  <2>2. \A i \in 1..Len(said) : i \in 1..Len(said')
    BY <1>1, <1>3
  <2>3. Len(said) + 1 \in 1..Len(said')
    BY <1>1, <1>3
  <2> QED
    BY <1>2, <1>3, <2>1, <2>2, <2>3 DEF Malformed
<1>7. DOMAIN Spoken \subseteq Int
  BY <1>1, InStepDomains DEF Spoken
<1> QED
  BY <1>1, <1>5, <1>6, <1>7

\* A commit passes on what was held back, and itself.
LEMMA HeardAll ==
  ASSUME TypeInv, Quiet, NEW kinds \in Seq(Text), conn' = conn, start' = start,
         Len(delivered') = Len(delivered) + Len(kinds),
         \A i \in 1..Len(delivered) : delivered'[i] = delivered[i],
         \A i \in 1..Len(kinds) :
           delivered'[Len(delivered) + i] = [conn |-> conn, kind |-> kinds[i]]
  PROVE  /\ DOMAIN kinds \subseteq Int
         /\ DOMAIN Heard' = {i + Len(delivered) : i \in DOMAIN kinds}
         /\ \A i \in DOMAIN kinds : Heard'[i + Len(delivered)] = kinds[i]
<1> DEFINE d == Len(delivered)
<1>1. /\ d \in Nat /\ start.delivered \in Nat /\ start.delivered <= d
      /\ Len(kinds) \in Nat /\ DOMAIN kinds = 1..Len(kinds)
      /\ \A i \in DOMAIN kinds : kinds[i] \in Text
  BY LenProperties, ElementOfSeq DEF TypeInv, TalkType
<1>2. Heard' = TextHere(delivered', start.delivered)
  BY DEF Heard, TextHere
<1>3. /\ \A i : i \in DOMAIN Heard' <=> /\ i \in start.delivered + 1..Len(delivered')
                                       /\ delivered'[i].conn = conn /\ delivered'[i].kind \in Text
      /\ \A i \in DOMAIN Heard' : Heard'[i] = delivered'[i].kind
  BY <1>2 DEF TextHere
<1>4. \A i \in DOMAIN kinds : /\ i + d \in start.delivered + 1..Len(delivered')
                             /\ delivered'[i + d] = [conn |-> conn, kind |-> kinds[i]]
  <2> SUFFICES ASSUME NEW i \in DOMAIN kinds
               PROVE  /\ i + d \in start.delivered + 1..Len(delivered')
                      /\ delivered'[i + d] = [conn |-> conn, kind |-> kinds[i]]
    OBVIOUS
  <2>1. i + d = d + i /\ i \in 1..Len(kinds)
    BY <1>1
  <2> QED
    BY <1>1, <2>1
<1>5. \A i \in DOMAIN kinds : i + d \in DOMAIN Heard' /\ Heard'[i + d] = kinds[i]
  <2> SUFFICES ASSUME NEW i \in DOMAIN kinds
               PROVE  i + d \in DOMAIN Heard' /\ Heard'[i + d] = kinds[i]
    OBVIOUS
  <2>1. delivered'[i + d] = [conn |-> conn, kind |-> kinds[i]]
    BY <1>4
  <2>2. delivered'[i + d].conn = conn /\ delivered'[i + d].kind = kinds[i]
    BY <2>1
  <2> QED
    BY <1>1, <1>3, <1>4, <2>2
<1>6. \A j \in DOMAIN Heard' : \E i \in DOMAIN kinds : j = i + d
  <2> SUFFICES ASSUME NEW j \in DOMAIN Heard'
               PROVE  \E i \in DOMAIN kinds : j = i + d
    OBVIOUS
  <2>1. j \in start.delivered + 1..Len(delivered') /\ delivered'[j].kind \in Text
    BY <1>3
  <2>2. j \notin start.delivered + 1..d
    <3>1. j \in start.delivered + 1..d => delivered'[j] = delivered[j]
      BY <1>1
    <3> QED
      BY <2>1, <3>1 DEF Quiet
  <2>3. j - d \in 1..Len(kinds) /\ j = (j - d) + d
    BY <1>1, <2>1, <2>2
  <2> QED
    BY <1>1, <2>3
<1>7. DOMAIN Heard' = {i + d : i \in DOMAIN kinds}
  <2> DEFINE heard == DOMAIN Heard'
  <2>1. /\ \A i \in DOMAIN kinds : i + d \in heard
        /\ \A j \in heard : \E i \in DOMAIN kinds : j = i + d
    BY <1>5, <1>6
  <2> HIDE DEF heard
  <2>2. heard = {i + d : i \in DOMAIN kinds}
    BY <2>1
  <2> QED
    BY <2>2 DEF heard
<1> QED
  BY <1>1, <1>5, <1>7

LEMMA HeldStep ==
  ASSUME TypeInv, KeptInv, TalkInv, HeldInv, [Next]_vars
  PROVE  HeldInv'
<1>1. /\ turn \in Turns /\ Others /\ conn \in Nat /\ conn >= 1 /\ TalkType
      /\ Len(delivered) \in Nat /\ Len(said) \in Nat
      /\ start.said \in Nat /\ start.said <= Len(said)
      /\ start.delivered \in Nat /\ start.delivered <= Len(delivered)
  BY LenProperties DEF TypeInv, Others, TalkType
<1>2. ~Uncommitted(NoTurn)
  BY DEF NoTurn, Uncommitted
<1>3. pc' # "open" => HeldInv'
  BY DEF HeldInv, NothingHeldBack
<1>4. \A how : Return(how) => HeldInv'
  BY <1>3 DEF Return
<1>5. \A t : Retry(t) => HeldInv'
  BY <1>3 DEF Retry
<1>6. HeldInv' <=> /\ pc' = "open" /\ Uncommitted(turn') => InStep(turn'.buffered, Spoken')
                   /\ pc' = "open" /\ ~Uncommitted(turn') =>
                        Malformed' \/ InStep(Heard', Spoken')
  BY DEF HeldInv, NothingHeldBack, Uncommitted, Malformed, InStep
<1>7. HeldInv <=> /\ pc = "open" /\ Uncommitted(turn) => InStep(turn.buffered, Spoken)
                  /\ pc = "open" /\ ~Uncommitted(turn) => Malformed \/ InStep(Heard, Spoken)
  BY DEF HeldInv, NothingHeldBack, Malformed
<1>8. UNCHANGED <<said, delivered, conn, start>> =>
        Spoken' = Spoken /\ Heard' = Heard /\ Malformed' = Malformed
  BY DEF Spoken, Heard, TextHere, Malformed
<1>9. CASE UNCHANGED vars
  BY <1>6, <1>7, <1>8, <1>9 DEF vars
<1>10. CASE \/ UpgradeFails \/ Leave \/ Breaks \/ Reset \/ NoReplacement \/ ReplayFails
            \/ (\E a \in Accounts : Connect(a))
            \/ (\E kind \in UpstreamKinds : FailsEarly(kind))
  BY <1>3, <1>4, <1>5, <1>10
     DEF UpgradeFails, Leave, Breaks, Reset, NoReplacement, ReplayFails, Connect, FailsEarly
<1>11. CASE Upgrade
  <2>1. turn' = NoTurn /\ said' = <<>> /\ delivered' = <<>> /\ start' = start
    BY <1>11 DEF Upgrade, KeptInv, request
  <2>2. Len(said') = 0 /\ Len(delivered') = 0
    BY <2>1
  <2>3. DOMAIN Spoken' = {} /\ DOMAIN Heard' = {}
    BY <1>1, <2>1, <2>2 DEF Spoken, Heard, TextHere
  <2>4. InStep(Heard', Spoken')
    BY <2>3, EmptyInStep
  <2> QED
    BY <1>2, <1>6, <2>1, <2>4
<1>12. CASE ClientLeaves
  BY <1>6, <1>7, <1>8, <1>12 DEF ClientLeaves, connection, request
<1>13. ASSUME NEW kind \in ClientKinds, ClientSends(kind)
       PROVE  HeldInv'
  <2> DEFINE r == IF kind = "create" THEN NewTurn ELSE turn
             t == Kept(r, kind, Len(asked) + 1)
  <2>1. /\ pc = "open" /\ UNCHANGED <<said, delivered>>
        /\ \/ Stay /\ turn' = t
           \/ (\E u : Retry(u))
           \/ Return("failure")
    BY <1>13 DEF ClientSends
  <2>2. t.buffered = r.buffered /\ (Uncommitted(t) <=> Uncommitted(r))
    <3>1. r \in Turns
      BY <1>1, TurnChanges
    <3> HIDE DEF r
    <3> QED
      BY <3>1 DEF Kept, Uncommitted, Turns
  <2>3. CASE Stay /\ turn' = t
    <3>1. conn' = conn
      BY <2>3 DEF Stay
    <3>2. CASE kind = "create"
      <4>1. start'.said = Len(said)
        BY <1>13, <3>2 DEF ClientSends
      <4>2. DOMAIN Spoken' = {}
        BY <1>1, <2>1, <4>1 DEF Spoken, TextHere
      <4>3. r.buffered = <<>> /\ Uncommitted(r)
        BY <3>2 DEF NewTurn, NoTurn, Uncommitted
      <4>4. InStep(t.buffered, Spoken')
        <5>1. DOMAIN t.buffered = {}
          BY <2>2, <4>3
        <5> QED
          BY <4>2, <5>1, EmptyInStep
      <4> HIDE DEF t, r
      <4> QED
        BY <1>6, <2>2, <2>3, <4>3, <4>4
    <3>3. CASE kind # "create"
      <4>1. start' = start
        BY <1>13, <3>3 DEF ClientSends
      <4>2. Spoken' = Spoken /\ Heard' = Heard /\ Malformed' = Malformed
        BY <1>8, <2>1, <3>1, <4>1
      <4>3. t.buffered = turn.buffered /\ (Uncommitted(t) <=> Uncommitted(turn))
        BY <2>2, <3>3
      <4> HIDE DEF t, r
      <4> QED
        BY <1>6, <1>7, <2>1, <2>3, <4>2, <4>3
    <3> QED
      BY <3>2, <3>3
  <2> HIDE DEF t
  <2> QED
    BY <1>4, <1>5, <2>1, <2>3
<1>14. ASSUME NEW kind \in UpstreamKinds, SaysEarly(kind)
       PROVE  HeldInv'
  <2> DEFINE kinds == IF Commits(kind) THEN Append(turn.buffered, kind)
                      ELSE IF HeldBack(kind) THEN <<>> ELSE <<kind>>
  <2>1. PICK ok \in BOOLEAN :
          /\ Deliver(kinds, ok)
          /\ \/ ok /\ Terminal(kind) /\ turn' = NoTurn
             \/ /\ ~(ok /\ Terminal(kind))
                /\ turn'.pending = turn.pending /\ turn'.committed = Commits(kind)
                /\ turn'.buffered = IF Commits(kind) THEN <<>>
                                    ELSE IF HeldBack(kind) THEN Append(turn.buffered, kind)
                                    ELSE turn.buffered
          /\ IF ~ok THEN \E how : Return(how)
             ELSE IF KnownSettlement(kind) # "none" THEN \E how : Return(how)
             ELSE Stay
    BY <1>1, <1>14, SaysEarlyParts
  <2>2. /\ Uncommitted(turn) /\ pc = "open" /\ start' = start /\ Says(kind)
        /\ KnownSettlement(kind) # "failure"
    BY <1>14 DEF SaysEarly, Says, request
  <2>3. CASE \E how : Return(how)
    BY <1>4, <2>3
  <2>4. CASE ok /\ KnownSettlement(kind) = "none" /\ Stay
    <3>1. conn' = conn /\ pc' = "open" /\ kind \in {"rate_limits", "event", "malformed", "ping"}
      BY <2>4 DEF Stay, KnownSettlement, UpstreamKinds
    <3>2. /\ IF kind \in Text THEN Grows(Spoken', Spoken, Len(said) + 1, kind)
             ELSE Spoken' = Spoken
          /\ kind = "malformed" => Malformed'
          /\ DOMAIN Spoken \subseteq Int
      BY <2>2, <3>1, SpokenGrows
    <3>3. /\ turn.buffered \in Seq(Text) /\ Len(turn.buffered) \in Nat
          /\ DOMAIN turn.buffered = 1..Len(turn.buffered)
      BY <1>1, LenProperties DEF Turns
    <3>4. InStep(turn.buffered, Spoken)
      BY <1>7, <2>2
    <3>5. kind \in Text => /\ InStep(Append(turn.buffered, kind), Spoken')
                           /\ Append(turn.buffered, kind) \in Seq(Text)
      <4> SUFFICES ASSUME kind \in Text
                   PROVE  /\ InStep(Append(turn.buffered, kind), Spoken')
                          /\ Append(turn.buffered, kind) \in Seq(Text)
        OBVIOUS
      <4> DEFINE b == turn.buffered
                 b2 == Append(b, kind)
      <4>1. /\ b2 \in Seq(Text) /\ Len(b2) = Len(b) + 1 /\ b2[Len(b) + 1] = kind
            /\ \A i \in 1..Len(b) : b2[i] = b[i]
        BY <3>3, AppendProperties
      <4>2. DOMAIN b2 = 1..Len(b) + 1
        <5> HIDE DEF b2
        <5> QED
          BY <4>1, LenProperties
      <4>3. Grows(b2, b, Len(b) + 1, kind)
        <5> HIDE DEF b2
        <5> QED
          BY <3>3, <4>1, <4>2 DEF Grows
      <4>4. DOMAIN b \subseteq Int /\ Len(b) + 1 \in Int /\ Len(said) + 1 \in Int
        BY <1>1, <3>3
      <4> HIDE DEF b, b2
      <4>5. InStep(b2, Spoken')
        <5>1. InStep(b, Spoken)
          BY <3>4 DEF b
        <5> QED
          BY <3>2, <4>3, <4>4, <5>1, GrowInStep
      <4> QED
        BY <4>1, <4>5 DEF b, b2
    <3>6. CASE kind = "malformed"
      <4>1. turn' = NoTurn
        BY <2>1, <2>4, <3>6 DEF Terminal
      <4> QED
        BY <1>2, <1>6, <3>2, <3>6, <4>1
    <3>7. CASE kind = "rate_limits"
      <4>1. kind \in Text /\ ~Terminal(kind) /\ ~Commits(kind) /\ HeldBack(kind)
        BY <3>7 DEF Text, UpstreamKinds, Terminal, Commits, HeldBack
      <4>2. /\ turn'.buffered = Append(turn.buffered, kind)
            /\ turn'.pending = turn.pending /\ turn'.committed = FALSE
        BY <2>1, <4>1
      <4>3. Uncommitted(turn')
        BY <2>2, <4>2 DEF Uncommitted
      <4> QED
        BY <1>6, <3>5, <4>1, <4>2, <4>3
    <3>8. CASE kind = "ping"
      <4>1. kind \notin Text /\ ~Terminal(kind) /\ ~Commits(kind) /\ ~HeldBack(kind)
        BY <3>8 DEF Text, UpstreamKinds, Terminal, Commits, HeldBack
      <4>2. /\ turn'.buffered = turn.buffered
            /\ turn'.pending = turn.pending /\ turn'.committed = FALSE
        BY <2>1, <4>1
      <4>3. Uncommitted(turn')
        BY <2>2, <4>2 DEF Uncommitted
      <4> QED
        BY <1>6, <3>2, <3>4, <4>1, <4>2, <4>3
    <3>9. CASE kind = "event"
      <4>1. kind \in Text /\ ~Terminal(kind) /\ Commits(kind)
        BY <3>9 DEF Text, UpstreamKinds, Terminal, Commits
      <4>2. ~Uncommitted(turn')
        BY <2>1, <4>1 DEF Uncommitted
      <4> DEFINE b2 == Append(turn.buffered, kind)
      <4>3. Deliver(b2, TRUE) /\ b2 \in Seq(Text) /\ InStep(b2, Spoken')
        BY <2>1, <2>4, <3>5, <4>1
      <4> HIDE DEF b2
      <4>4. b2 \in Seq(ClientHears)
        <5>1. Text \subseteq ClientHears
          BY DEF Text, ClientHears
        <5> QED
          BY <4>3, <5>1, SeqMonotonic
      <4>5. /\ Len(delivered') = Len(delivered) + Len(b2)
            /\ \A i \in 1..Len(delivered) : delivered'[i] = delivered[i]
            /\ \A i \in 1..Len(b2) :
                 delivered'[Len(delivered) + i] = [conn |-> conn, kind |-> b2[i]]
        BY <1>1, <4>3, <4>4, DeliveredParts
      <4>6. Quiet
        BY <2>2 DEF TalkInv
      <4>7. /\ DOMAIN b2 \subseteq Int
            /\ DOMAIN Heard' = {i + Len(delivered) : i \in DOMAIN b2}
            /\ \A i \in DOMAIN b2 : Heard'[i + Len(delivered)] = b2[i]
        BY <2>2, <3>1, <4>3, <4>5, <4>6, HeardAll
      <4>8. InStep(Heard', Spoken')
        <5> DEFINE h == Heard'
                   g == Spoken'
        <5>1. /\ DOMAIN b2 \subseteq Int /\ InStep(b2, g) /\ Len(delivered) \in Int
              /\ DOMAIN h = {i + Len(delivered) : i \in DOMAIN b2}
              /\ \A i \in DOMAIN b2 : h[i + Len(delivered)] = b2[i]
          BY <1>1, <4>3, <4>7
        <5> HIDE DEF h, g
        <5>2. InStep(h, g)
          BY <5>1, ShiftInStep
        <5> QED
          BY <5>2 DEF h, g
      <4> QED
        BY <1>6, <4>2, <4>8
    <3> QED
      BY <3>1, <3>6, <3>7, <3>8, <3>9
  <2> QED
    BY <2>1, <2>2, <2>3, <2>4, EndsKnown
<1>15. ASSUME NEW kind \in UpstreamKinds, SaysLate(kind)
       PROVE  HeldInv'
  <2>1. PICK ok \in BOOLEAN :
          /\ Deliver(<<kind>>, ok)
          /\ turn' = NoTurn \/ turn' = turn
          /\ IF ~ok THEN \E how : Return(how)
             ELSE IF KnownSettlement(kind) # "none" THEN \E how : Return(how)
             ELSE Stay
    BY <1>15 DEF SaysLate
  <2>2. ~Uncommitted(turn) /\ pc = "open" /\ start' = start /\ Says(kind)
    BY <1>15 DEF SaysLate, Says, request
  <2>3. CASE \E how : Return(how)
    BY <1>4, <2>3
  <2>4. CASE ok /\ Stay
    <3>1. conn' = conn /\ pc' = "open"
      BY <2>4 DEF Stay
    <3>2. /\ IF kind \in Text THEN Grows(Spoken', Spoken, Len(said) + 1, kind)
             ELSE Spoken' = Spoken
          /\ Malformed => Malformed'
          /\ DOMAIN Spoken \subseteq Int
      BY <2>2, <3>1, SpokenGrows
    <3>3. /\ Len(delivered') = Len(delivered) + 1
          /\ \A i \in 1..Len(delivered) : delivered'[i] = delivered[i]
          /\ delivered'[Len(delivered) + 1] = [conn |-> conn, kind |-> kind]
      <4> DEFINE kinds == <<kind>>
      <4>1. kinds \in Seq(ClientHears) /\ Len(kinds) = 1 /\ kinds[1] = kind
        BY DEF ClientHears
      <4>2. Deliver(kinds, ok)
        BY <2>1
      <4> HIDE DEF kinds
      <4>3. /\ Len(delivered') = Len(delivered) + Len(kinds)
            /\ \A i \in 1..Len(delivered) : delivered'[i] = delivered[i]
            /\ \A i \in 1..Len(kinds) :
                 delivered'[Len(delivered) + i] = [conn |-> conn, kind |-> kinds[i]]
        BY <1>1, <2>4, <4>1, <4>2, DeliveredParts
      <4> QED
        BY <4>1, <4>3
    <3>4. /\ delivered'[Len(delivered) + 1].conn = conn
          /\ delivered'[Len(delivered) + 1].kind = kind
      BY <3>3
    <3>5. IF kind \in Text THEN Grows(Heard', Heard, Len(delivered) + 1, kind)
          ELSE Heard' = Heard
      <4>1. Heard' = TextHere(delivered', start.delivered)
        BY <2>2, <3>1 DEF Heard, TextHere
      <4> QED
        BY <1>1, <3>3, <3>4, <4>1, TextGrows DEF Heard
    <3>6. DOMAIN Heard \subseteq Int
      BY <1>1, InStepDomains DEF Heard
    <3>7. InStep(Heard, Spoken) => InStep(Heard', Spoken')
      <4>1. CASE kind \in Text
        <5> DEFINE h == Heard'
                   g == Spoken'
        <5>1. /\ Grows(h, Heard, Len(delivered) + 1, kind)
              /\ Grows(g, Spoken, Len(said) + 1, kind)
              /\ Len(delivered) + 1 \in Int /\ Len(said) + 1 \in Int
          BY <1>1, <3>2, <3>5, <4>1
        <5> HIDE DEF h, g
        <5>2. InStep(Heard, Spoken) => InStep(h, g)
          BY <3>2, <3>6, <5>1, GrowInStep
        <5> QED
          BY <5>2 DEF h, g
      <4>2. CASE kind \notin Text
        BY <3>2, <3>5, <4>2
      <4> QED
        BY <4>1, <4>2
    <3>8. ~Uncommitted(turn')
      BY <1>2, <2>1, <2>2
    <3> QED
      BY <1>6, <1>7, <2>2, <3>2, <3>7, <3>8
  <2> QED
    BY <2>1, <2>3, <2>4
<1>16. CASE Switch
  <2>1. /\ conn' = conn + 1 /\ said' = said /\ start' = start
        /\ turn' = [turn EXCEPT !.buffered = <<>>]
    BY <1>16 DEF Switch, request
  <2>2. Uncommitted(turn)
    BY <1>16 DEF Switch, KeptInv
  <2>3. turn'.buffered = <<>> /\ Uncommitted(turn')
    BY <1>1, <2>1, <2>2 DEF Turns, Uncommitted
  <2>4. DOMAIN Spoken' = {}
    <3>1. \A i \in 1..Len(said) : said[i].conn \in 1..conn
      <4> DEFINE M == [conn : 1..conn, kind : UpstreamKinds]
      <4>1. said \in Seq(M)
        BY <1>1 DEF TalkType
      <4>2. \A i \in 1..Len(said) : said[i] \in M
        <5> HIDE DEF M
        <5> QED
          BY <4>1, ElementOfSeq
      <4> QED
        BY <4>2
    <3>2. \A i \in start.said + 1..Len(said) : said[i].conn # conn + 1
      BY <1>1, <3>1
    <3> QED
      BY <2>1, <3>2 DEF Spoken, TextHere
  <2>5. InStep(turn'.buffered, Spoken')
    <3>1. DOMAIN turn'.buffered = {}
      BY <2>3
    <3> QED
      BY <2>4, <3>1, EmptyInStep
  <2> QED
    BY <1>6, <2>3, <2>5
<1> QED
  BY <1>9, <1>10, <1>11, <1>12, <1>13, <1>14, <1>15, <1>16 DEF Next

\* Nothing the upstream says is lost on the way: the client of a committed request has all
\* the text of its connection, what was held back first (buffered_upstream_messages,
\* flush_buffered_upstream_messages).
THEOREM CommitsPassOnAll == Spec => []NothingHeldBack
<1>1. TypeInv /\ KeptInv /\ TalkInv /\ HeldInv /\ [Next]_vars
        => TypeInv' /\ KeptInv' /\ TalkInv' /\ HeldInv'
  BY TypeStep, KeptStep, TalkStep, HeldStep
<1>2. HeldInv => NothingHeldBack
  BY DEF HeldInv
<1> QED
  BY TypeStarts, KeptStarts, TalkStarts, HeldStarts, <1>1, <1>2, PTL DEF Spec
=============================================================================
