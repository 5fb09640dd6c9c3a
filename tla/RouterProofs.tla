---------------------------- MODULE RouterProofs ----------------------------
(***************************************************************************)
(* The rotation of round_robin is even for any accounts, any number of       *)
(* requests and any limit of the cursor.                                     *)
(*                                                                           *)
(* The candidates are the places of a wheel, and the cursor modulo their     *)
(* number is the place it stands at.  An account has been passed over at     *)
(* most as often as the wheel has moved since it was at its place, a number  *)
(* that is read off the wheel (Behind): the moves before the candidates      *)
(* became what they are do not matter.                                       *)
(***************************************************************************)
EXTENDS Router, FiniteSetTheorems, TLAPS

\* The place of an account among the candidates, and how many moves ago the turn
\* was past it.
Place(S, a) == Cardinality({b \in S : b < a})

Behind(S, turn, a) ==
  IF turn > Place(S, a) THEN (turn - 1) - Place(S, a)
  ELSE ((turn - 1) - Place(S, a)) + Cardinality(S)

Turn == cursor % Cardinality(eligible)

RotationInv ==
  /\ eligible \subseteq Accounts
  /\ cursor \in 0..MaxCursor
  /\ passed \in [Accounts -> Nat]
  /\ cursor < MaxCursor => \A a \in eligible : passed[a] <= Behind(eligible, Turn, a)

-----------------------------------------------------------------------------
(* Remainders *)

LEMMA ModRange ==
  ASSUME NEW c \in Nat, NEW n \in Nat \ {0}
  PROVE  c % n \in 0..(n - 1) /\ c \div n \in Int /\ c = n * (c \div n) + (c % n)
  OBVIOUS

LEMMA ModUnique ==
  ASSUME NEW n \in Nat \ {0}, NEW q \in Int, NEW p \in Int, NEW r \in 0..(n-1), NEW s \in 0..(n-1),
         n * q + r = n * p + s
  PROVE  r = s
<1>1. n * (q - p) = s - r
  OBVIOUS
<1>2. CASE q - p >= 1
  BY <1>1, <1>2
<1>3. CASE q - p <= -1
  BY <1>1, <1>3
<1> QED
  BY <1>1, <1>2, <1>3

LEMMA ModStep ==
  ASSUME NEW c \in Nat, NEW n \in Nat \ {0}
  PROVE  (c + 1) % n = IF c % n = n - 1 THEN 0 ELSE (c % n) + 1
<1> DEFINE q == c \div n
           r == c % n
           p == (c + 1) \div n
           s == (c + 1) % n
<1>1. q \in Int /\ r \in 0..(n-1) /\ c = n * q + r
  BY ModRange
<1>2. p \in Int /\ s \in 0..(n-1) /\ c + 1 = n * p + s
  <2>1. c + 1 \in Nat
    OBVIOUS
  <2> QED
    BY <2>1, ModRange
<1> HIDE DEF q, r, p, s
<1>3. CASE r = n - 1
  <2>1. n * (q + 1) + 0 = n * p + s
    BY <1>1, <1>2, <1>3
  <2>2. 0 = s
    <3>1. 0 \in 0..(n-1) /\ q + 1 \in Int
      BY <1>1
    <3> QED
      BY <1>2, <2>1, <3>1, ModUnique
  <2> QED
    BY <1>3, <2>2 DEF r, s
<1>4. CASE r # n - 1
  <2>1. n * q + (r + 1) = n * p + s
    BY <1>1, <1>2
  <2>2. r + 1 = s
    <3>1. r + 1 \in 0..(n-1)
      BY <1>1, <1>4
    <3> QED
      BY <1>1, <1>2, <2>1, <3>1, ModUnique
  <2> QED
    BY <1>4, <2>2 DEF r, s
<1> QED
  BY <1>3, <1>4

-----------------------------------------------------------------------------
(* Places *)

\* The candidates below one are fewer than all, and fewer than those below the next.
LEMMA Places ==
  ASSUME NEW S \in SUBSET Accounts, NEW a \in S
  PROVE  /\ Cardinality(S) \in Nat \ {0}
         /\ Place(S, a) \in 0..(Cardinality(S) - 1)
         /\ \A c \in S \ {a} : Place(S, a) # Place(S, c)
<1>1. IsFiniteSet(S) /\ S \subseteq Nat
  BY RouterAssumption, FS_Subset
<1>2. Cardinality(S) \in Nat \ {0}
  BY <1>1, FS_CardinalityType, FS_EmptySet
<1> DEFINE below(c) == {b \in S : b < c}
<1>3. \A c \in S : /\ IsFiniteSet(below(c)) /\ Cardinality(below(c)) \in Nat
                  /\ Cardinality(below(c)) <= Cardinality(S)
  BY <1>1, FS_Subset, FS_CardinalityType
<1>4. Cardinality(below(a)) # Cardinality(S)
  <2>1. below(a) \in SUBSET S /\ a \notin below(a)
    BY <1>1
  <2> QED
    BY <1>1, <2>1, FS_Subset
<1>5. ASSUME NEW c \in S, NEW d \in S, c < d
      PROVE  Cardinality(below(c)) # Cardinality(below(d))
  <2>1. below(c) \in SUBSET below(d)
    <3>1. \A b \in S : b < c => b < d
      BY <1>1, <1>5
    <3> QED
      BY <3>1
  <2>2. c \in below(d) /\ c \notin below(c)
    BY <1>1, <1>5
  <2> HIDE DEF below
  <2> QED
    BY <1>3, <1>5, <2>1, <2>2, FS_Subset
<1>6. \A c \in S : Place(S, c) = Cardinality(below(c))
  BY DEF Place
<1> HIDE DEF below
<1>7. Place(S, a) \in 0..(Cardinality(S) - 1)
  BY <1>2, <1>3, <1>4, <1>6
<1>8. ASSUME NEW c \in S \ {a}
      PROVE  Place(S, a) # Place(S, c)
  <2>1. a < c \/ c < a
    BY <1>1
  <2> QED
    BY <1>5, <1>6, <2>1
<1> QED
  BY <1>2, <1>7, <1>8

LEMMA BehindRange ==
  ASSUME NEW S \in SUBSET Accounts, NEW c \in Nat, NEW a \in S
  PROVE  Behind(S, c % Cardinality(S), a) \in 0..(Cardinality(S) - 1)
<1> DEFINE n == Cardinality(S)
           turn == c % n
<1>1. n \in Nat \ {0} /\ Place(S, a) \in 0..(n - 1)
  BY Places
<1>2. turn \in 0..(n - 1)
  BY <1>1, ModRange
<1> HIDE DEF turn
<1>3. Behind(S, turn, a) \in 0..(n - 1)
  BY <1>1, <1>2 DEF Behind
<1> QED
  BY <1>3 DEF turn

-----------------------------------------------------------------------------
(* The steps *)

\* When the candidates change, the policy, or the accounts tried.
LEMMA EvenAfresh ==
  ASSUME eligible' \in SUBSET Accounts, cursor' \in 0..MaxCursor, passed' = None
  PROVE  RotationInv'
<1>1. cursor' \in Nat
  BY RouterAssumption
<1>2. \A a \in eligible' : Behind(eligible', Turn', a) \in Nat
  BY <1>1, BehindRange DEF Turn
<1> QED
  BY <1>2 DEF RotationInv, None

LEMMA SelectEven ==
  ASSUME RotationInv, NEW r \in Requests, NEW tried \in SUBSET Accounts, Select(r, tried)
  PROVE  RotationInv'
<1> DEFINE candidates == eligible \ tried
           a == Choice(candidates)
<1>1. /\ eligible' = eligible /\ policy' = policy /\ candidates # {}
      /\ eligible \subseteq Accounts /\ cursor \in Nat /\ MaxCursor \in Nat
      /\ passed \in [Accounts -> Nat] /\ cursor <= MaxCursor
  BY RouterAssumption DEF Select, RotationInv
<1>2. CASE policy # "round_robin"
  <2>1. cursor' = cursor /\ passed' = passed
    BY <1>2 DEF Select
  <2> QED
    BY <1>1, <2>1 DEF RotationInv, Turn
<1>3. CASE policy = "round_robin" /\ candidates # eligible
  <2>1. Advance /\ passed' = None
    BY <1>3 DEF Select
  <2>2. cursor' \in 0..MaxCursor
    BY <1>1, <2>1 DEF Advance
  <2> QED
    BY <1>1, <2>1, <2>2, EvenAfresh
<1>4. CASE policy = "round_robin" /\ candidates = eligible
  <2>1. /\ Advance
        /\ passed' = [b \in Accounts |->
                        IF b \notin eligible \/ b = a THEN 0
                        ELSE IF passed[b] < Cardinality(Accounts)
                        THEN passed[b] + 1 ELSE passed[b]]
    BY <1>4 DEF Select
  <2>2. cursor' \in 0..MaxCursor
    BY <1>1, <2>1 DEF Advance
  <2>3. passed' \in [Accounts -> Nat]
    BY <1>1, <2>1
  <2>4. a = CHOOSE b \in eligible : Place(eligible, b) = Turn
    BY <1>4 DEF Choice, RoundRobin, At, Place, Turn
  <2> HIDE DEF a
  <2>5. ASSUME cursor' < MaxCursor, NEW b \in eligible
        PROVE  passed'[b] <= Behind(eligible, Turn', b)
    <3> DEFINE n == Cardinality(eligible)
               place == Place(eligible, b)
    <3>1. cursor' = cursor + 1 /\ cursor < MaxCursor
      BY <1>1, <2>1, <2>5 DEF Advance
    <3>2. n \in Nat \ {0} /\ place \in 0..(n - 1)
      BY <1>1, Places
    <3>3. Turn \in 0..(n - 1)
      BY <1>1, <3>2, ModRange DEF Turn
    <3>4. Turn' = IF Turn = n - 1 THEN 0 ELSE Turn + 1
      BY <1>1, <3>1, <3>2, ModStep DEF Turn
    <3>5. CASE place = Turn
      <4>1. Place(eligible, a) = Turn /\ a \in eligible
        BY <2>4, <3>5
      <4>2. a = b
        BY <1>1, <3>5, <4>1, Places
      <4>3. passed'[b] = 0
        BY <1>1, <2>1, <4>2
      <4>4. Behind(eligible, Turn', b) = 0
        BY <3>2, <3>3, <3>4, <3>5 DEF Behind
      <4> QED
        BY <4>3, <4>4
    <3>6. CASE place # Turn
      <4>1. passed[b] <= Behind(eligible, Turn, b) /\ passed[b] \in Nat
        BY <1>1, <3>1 DEF RotationInv
      <4>2. passed'[b] <= passed[b] + 1 /\ passed'[b] \in Nat
        BY <1>1, <2>1, <2>3, <4>1
      <4>3. Behind(eligible, Turn', b) = Behind(eligible, Turn, b) + 1
        BY <3>2, <3>3, <3>4, <3>6 DEF Behind
      <4>4. Behind(eligible, Turn, b) \in Int
        BY <3>2, <3>3 DEF Behind
      <4> QED
        BY <4>1, <4>2, <4>3, <4>4
    <3> QED
      BY <3>5, <3>6
  <2> QED
    BY <1>1, <2>2, <2>3, <2>5 DEF RotationInv
<1> QED
  BY <1>2, <1>3, <1>4

\* Wherever requests with other candidates left the cursor, round_robin passes no
\* account over more often than it has others (select_candidate below usize::MAX).
THEOREM RotationEven == Spec => []RotationIsEven
<1>1. Init => RotationInv
  <2> SUFFICES ASSUME Init PROVE RotationInv
    OBVIOUS
  <2>1. /\ eligible \in SUBSET Accounts /\ cursor \in Nat /\ cursor \in 0..MaxCursor
        /\ passed = None
    BY RouterAssumption DEF Init
  <2>2. \A a \in eligible : Behind(eligible, Turn, a) \in Nat
    BY <2>1, BehindRange DEF Turn
  <2> QED
    BY <2>1, <2>2 DEF RotationInv, None
<1>2. RotationInv /\ [Next]_vars => RotationInv'
  <2> SUFFICES ASSUME RotationInv, [Next]_vars
               PROVE  RotationInv'
    OBVIOUS
  <2>1. CASE (\E r \in Requests : Settle(r)) \/ UNCHANGED vars
    <3>1. UNCHANGED <<eligible, cursor, passed>>
      BY <2>1 DEF Settle, vars
    <3> QED
      BY <3>1 DEF RotationInv, Turn
  <2>2. CASE \E r \in Requests : \E tried \in SUBSET Accounts : Select(r, tried)
    BY <2>2, SelectEven
  <2>3. CASE \/ \E accounts \in SUBSET Accounts : Change(accounts)
             \/ \E p \in Policies : SetPolicy(p)
    BY <2>3, EvenAfresh DEF Change, SetPolicy, RotationInv
  <2> QED
    BY <2>1, <2>2, <2>3 DEF Next
<1>3. RotationInv => RotationIsEven
  <2> SUFFICES ASSUME RotationInv, cursor < MaxCursor, NEW a \in eligible
               PROVE  passed[a] < Cardinality(eligible)
    BY DEF RotationIsEven
  <2>1. passed[a] <= Behind(eligible, Turn, a) /\ passed[a] \in Nat
    BY DEF RotationInv
  <2>2. /\ Behind(eligible, Turn, a) \in 0..(Cardinality(eligible) - 1)
        /\ Cardinality(eligible) \in Nat
    BY BehindRange, Places, RouterAssumption DEF RotationInv, Turn
  <2> QED
    BY <2>1, <2>2
<1> QED
  BY <1>1, <1>2, <1>3, PTL DEF Spec

=============================================================================
