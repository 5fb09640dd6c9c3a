------------------------- MODULE AccountLeaseProofs -------------------------
(***************************************************************************)
(* Users that take and settle accounts one by one keep the counts exact,   *)
(* whatever the accounts and however many users there are.  Every module    *)
(* that implements the lease inherits it.                                  *)
(***************************************************************************)
EXTENDS AccountLease, FiniteSetTheorems, TLAPS

LEMMA HeldFinite ==
  ASSUME IsFiniteSet(Users), NEW a
  PROVE  /\ IsFiniteSet(HeldBy(a)) /\ Cardinality(HeldBy(a)) \in Nat
         /\ IsFiniteSet(HeldBy(a)')
<1>1. HeldBy(a) \subseteq Users /\ HeldBy(a)' \subseteq Users
  BY DEF HeldBy
<1> QED
  BY <1>1, FS_Subset, FS_CardinalityType

LEMMA TakeCounts ==
  ASSUME IsFiniteSet(Users), Nobody \notin Accounts, CountExact,
         NEW u \in Users, NEW a \in Accounts, Take(u, a)
  PROVE  CountExact'
<1>1. lease' \in [Users -> Accounts \cup {Nobody}]
  BY DEF Take, CountExact
<1>2. ASSUME NEW b \in Accounts
      PROVE  count'[b] = Cardinality(HeldBy(b)')
  <2>1. CASE b = a
    <3>1. HeldBy(b)' = HeldBy(b) \cup {u} /\ u \notin HeldBy(b)
      BY <2>1 DEF Take, CountExact, HeldBy
    <3>2. Cardinality(HeldBy(b)') = Cardinality(HeldBy(b)) + 1
      BY <3>1, HeldFinite, FS_AddElement
    <3> QED
      BY <2>1, <3>2 DEF Take, CountExact
  <2>2. CASE b # a
    <3>1. HeldBy(b)' = HeldBy(b)
      BY <2>2 DEF Take, CountExact, HeldBy
    <3> QED
      BY <2>2, <3>1 DEF Take, CountExact
  <2> QED
    BY <2>1, <2>2
<1>3. count' = [b \in Accounts |-> count'[b]]
  BY DEF Take, CountExact
<1> QED
  BY <1>1, <1>2, <1>3 DEF CountExact

LEMMA SettleCounts ==
  ASSUME IsFiniteSet(Users), Nobody \notin Accounts, CountExact,
         NEW u \in Users, Settle(u)
  PROVE  CountExact'
<1>1. lease' \in [Users -> Accounts \cup {Nobody}] /\ lease[u] \in Accounts
  BY DEF Settle, CountExact
<1>2. ASSUME NEW b \in Accounts
      PROVE  count'[b] = Cardinality(HeldBy(b)')
  <2>1. CASE b = lease[u]
    <3>1. HeldBy(b)' = HeldBy(b) \ {u} /\ u \in HeldBy(b)
      BY <2>1 DEF Settle, CountExact, HeldBy
    <3>2. Cardinality(HeldBy(b)') = Cardinality(HeldBy(b)) - 1
      BY <3>1, HeldFinite, FS_RemoveElement
    <3> QED
      BY <2>1, <3>2 DEF Settle, CountExact
  <2>2. CASE b # lease[u]
    <3>1. HeldBy(b)' = HeldBy(b)
      BY <2>2 DEF Settle, CountExact, HeldBy
    <3> QED
      BY <2>2, <3>1 DEF Settle, CountExact
  <2> QED
    BY <2>1, <2>2
<1>3. count' = [b \in Accounts |-> count'[b]]
  BY DEF Settle, CountExact
<1> QED
  BY <1>1, <1>2, <1>3 DEF CountExact

\* The account that is settled loses one user; the one that is taken over changes
\* hands, and they may be the same.
LEMMA TakeOverCounts ==
  ASSUME IsFiniteSet(Users), Nobody \notin Accounts, CountExact,
         NEW u \in Users, NEW v \in Users, TakeOver(u, v)
  PROVE  CountExact'
<1>1. /\ lease' \in [Users -> Accounts \cup {Nobody}]
      /\ lease[u] \in Accounts /\ lease[v] \in Accounts
  BY DEF TakeOver, CountExact
<1>2. ASSUME NEW b \in Accounts
      PROVE  count'[b] = Cardinality(HeldBy(b)')
  <2>1. CASE b = lease[u] /\ b # lease[v]
    <3>1. HeldBy(b)' = HeldBy(b) \ {u} /\ u \in HeldBy(b)
      BY <2>1 DEF TakeOver, CountExact, HeldBy
    <3>2. Cardinality(HeldBy(b)') = Cardinality(HeldBy(b)) - 1
      BY <3>1, HeldFinite, FS_RemoveElement
    <3> QED
      BY <2>1, <3>2 DEF TakeOver, CountExact
  <2>2. CASE b = lease[u] /\ b = lease[v]
    <3>1. HeldBy(b)' = HeldBy(b) \ {v} /\ v \in HeldBy(b)
      BY <2>2 DEF TakeOver, CountExact, HeldBy
    <3>2. Cardinality(HeldBy(b)') = Cardinality(HeldBy(b)) - 1
      BY <3>1, HeldFinite, FS_RemoveElement
    <3> QED
      BY <2>2, <3>2 DEF TakeOver, CountExact
  <2>3. CASE b # lease[u] /\ b = lease[v]
    <3> DEFINE rest == HeldBy(b) \ {v}
    <3>1. /\ HeldBy(b)' = rest \cup {u}
          /\ v \in HeldBy(b) /\ u \notin rest
      BY <2>3 DEF TakeOver, CountExact, HeldBy
    <3>2. IsFiniteSet(rest) /\ Cardinality(rest) = Cardinality(HeldBy(b)) - 1
      BY <3>1, HeldFinite, FS_RemoveElement
    <3>3. Cardinality(HeldBy(b)') = Cardinality(rest) + 1
      BY <3>1, <3>2, FS_AddElement
    <3>4. Cardinality(HeldBy(b)') = Cardinality(HeldBy(b))
      BY <3>2, <3>3, HeldFinite
    <3> QED
      BY <2>3, <3>4 DEF TakeOver, CountExact
  <2>4. CASE b # lease[u] /\ b # lease[v]
    <3>1. HeldBy(b)' = HeldBy(b)
      BY <2>4 DEF TakeOver, CountExact, HeldBy
    <3> QED
      BY <2>4, <3>1 DEF TakeOver, CountExact
  <2> QED
    BY <2>1, <2>2, <2>3, <2>4
<1>3. count' = [b \in Accounts |-> count'[b]]
  BY DEF TakeOver, CountExact
<1> QED
  BY <1>1, <1>2, <1>3 DEF CountExact

\* The promise kept (select_account, apply_account_settlement): in_flight_requests
\* is the number of users that have still to settle the account, so it is zero,
\* and a deleted account can go, exactly when the last of them has.
THEOREM LeaseCounts ==
  ASSUME IsFiniteSet(Users), Nobody \notin Accounts
  PROVE  Spec => []CountExact
<1>1. Init => CountExact
  BY DEF Init, CountExact
<1>2. CountExact /\ [Next]_vars => CountExact'
  <2> SUFFICES ASSUME CountExact, [Next]_vars
               PROVE  CountExact'
    OBVIOUS
  <2>1. CASE UNCHANGED vars
    BY <2>1 DEF vars, CountExact, HeldBy
  <2>2. CASE Next
    BY <2>2, TakeCounts, SettleCounts, TakeOverCounts DEF Next
  <2> QED
    BY <2>1, <2>2
<1> QED
  BY <1>1, <1>2, PTL DEF Spec
=============================================================================
