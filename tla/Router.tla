------------------------------- MODULE Router -------------------------------
(***************************************************************************)
(* The routing policies: which of the candidates of the moment              *)
(* select_candidate takes, and what that amounts to over many requests.     *)
(*                                                                          *)
(* The pool around it is reduced to what the choice depends on: which       *)
(* accounts are eligible, which changes on its own as blocks come and go    *)
(* and tokens are refreshed; how many requests each serves; and the order   *)
(* in which they were selected last, which stands for last_selected_at on a *)
(* clock that does not go back.  Accounts are numbered in the order of      *)
(* their ids.                                                               *)
(***************************************************************************)
EXTENDS Naturals, Sequences, FiniteSets, SequencesExt

CONSTANTS
  Accounts,     \* numbers
  Requests,
  NoAccount,
  MaxCursor     \* usize::MAX

ASSUME RouterAssumption ==
  /\ IsFiniteSet(Accounts) /\ Accounts \subseteq Nat
  /\ NoAccount \notin Accounts
  /\ MaxCursor \in Nat

VARIABLES
  policy,      \* AppState.routing_policy
  eligible,    \* the accounts is_eligible holds of
  serving,     \* the account that serves each request, or NoAccount
  selected,    \* the accounts that were ever selected, the latest last
  cursor,      \* round_robin_cursor
  passed       \* how often round_robin has passed each account over, since
               \* the candidates were other ones

vars == <<policy, eligible, serving, selected, cursor, passed>>

Policies == {"round_robin", "least_in_flight", "fill_first"}

TypeOK ==
  /\ policy \in Policies
  /\ eligible \subseteq Accounts
  /\ serving \in [Requests -> Accounts \cup {NoAccount}]
  /\ selected \in Seq(Accounts) /\ IsInjective(selected)
  /\ cursor \in 0..MaxCursor
  /\ passed \in [Accounts -> 0..Cardinality(Accounts)]

None == [a \in Accounts |-> 0]

Init ==
  /\ policy \in Policies
  /\ eligible = Accounts
  /\ serving = [r \in Requests |-> NoAccount]
  /\ selected = <<>>
  /\ cursor = 0
  /\ passed = None

-----------------------------------------------------------------------------
(* The choice *)

InFlight(a) == Cardinality({r \in Requests : serving[r] = a})

\* last_selected_at, None before any time.
LastSelected(a) == IF Contains(selected, a)
                   THEN CHOOSE i \in DOMAIN selected : selected[i] = a ELSE 0

\* The candidate at an index of the vector, which is sorted by id.
At(candidates, index) ==
  CHOOSE a \in candidates : Cardinality({b \in candidates : b < a}) = index

\* Mutant of RoundRobin: an index past the end falls back to the first one.
RoundRobinClamped(candidates) ==
  At(candidates, IF cursor < Cardinality(candidates) THEN cursor ELSE 0)

RoundRobin(candidates) == At(candidates, cursor % Cardinality(candidates))

\* Mutant of Before: ties are broken by id alone.
BeforeById(a, b) ==
  \/ InFlight(a) < InFlight(b)
  \/ InFlight(a) = InFlight(b) /\ a <= b

\* The order least_in_flight compares by.
Before(a, b) ==
  \/ InFlight(a) < InFlight(b)
  \/ /\ InFlight(a) = InFlight(b)
     /\ \/ LastSelected(a) < LastSelected(b)
        \/ LastSelected(a) = LastSelected(b) /\ a <= b

LeastInFlight(candidates) == CHOOSE a \in candidates : \A b \in candidates : Before(a, b)

FillFirst(candidates) == CHOOSE a \in candidates : \A b \in candidates : a <= b

\* select_candidate
Choice(candidates) ==
  CASE policy = "round_robin"     -> RoundRobin(candidates)
    [] policy = "least_in_flight" -> LeastInFlight(candidates)
    [] policy = "fill_first"      -> FillFirst(candidates)

\* saturating_add
Advance == cursor' = IF cursor < MaxCursor THEN cursor + 1 ELSE cursor

-----------------------------------------------------------------------------
(* The pool around it *)

\* A request that has failed on the accounts in tried selects another one.
Select(r, tried) ==
  LET candidates == eligible \ tried
      a == Choice(candidates)
  IN  /\ serving[r] = NoAccount
      /\ candidates # {}
      /\ serving' = [serving EXCEPT ![r] = a]
      /\ selected' = Append(Remove(selected, a), a)
      /\ IF policy = "round_robin"
         THEN /\ Advance
              /\ passed' = IF candidates # eligible THEN None
                           ELSE [b \in Accounts |->
                                   IF b \notin candidates \/ b = a THEN 0
                                   ELSE IF passed[b] < Cardinality(Accounts)
                                   THEN passed[b] + 1 ELSE passed[b]]
         ELSE UNCHANGED <<cursor, passed>>
      /\ UNCHANGED <<policy, eligible>>

Settle(r) ==
  /\ serving[r] # NoAccount
  /\ serving' = [serving EXCEPT ![r] = NoAccount]
  /\ UNCHANGED <<policy, eligible, selected, cursor, passed>>

\* Accounts are blocked, recover, are added, removed or refreshed.
Change(accounts) ==
  /\ eligible' = accounts
  /\ accounts # eligible
  /\ passed' = None
  /\ UNCHANGED <<policy, serving, selected, cursor>>

\* put_admin_routing_policy
SetPolicy(p) ==
  /\ policy' = p
  /\ p # policy
  /\ passed' = None
  /\ UNCHANGED <<eligible, serving, selected, cursor>>

Next ==
  \/ \E r \in Requests : Settle(r) \/ \E tried \in SUBSET Accounts : Select(r, tried)
  \/ \E accounts \in SUBSET Accounts : Change(accounts)
  \/ \E p \in Policies : SetPolicy(p)

Spec == Init /\ [][Next]_vars

\* Every request is settled (AccountPool, and the streams and sockets behind it);
\* and, as what is said of a policy is said of the requests that it serves, new ones
\* keep coming.
FairSpec ==
  /\ Spec
  /\ \A r \in Requests : WF_vars(Settle(r))
  /\ SF_vars(\E r \in Requests : Select(r, {}))

-----------------------------------------------------------------------------

\* DESIGN.md: "keep a basic level of fairness across accounts".  While the
\* candidates stay the same, round_robin passes none over more often than there are
\* others, wherever the cursor was left by requests that had other candidates,
\* until usize::MAX selections have been made: then it takes one account for ever.
RotationIsEven ==
  (policy = "round_robin" /\ cursor < MaxCursor) =>
    \A a \in eligible : passed[a] < Cardinality(eligible)

\* Under least_in_flight an account that stays eligible is never starved, whatever
\* the others do: once its own requests are settled, requests that end sooner
\* on smaller ids do not keep it waiting (the comparison by last_selected_at).
NotStarved ==
  \A a \in Accounts :
    <>[](a \in eligible /\ policy = "least_in_flight")
      => []<>(\E r \in Requests : serving[r] = a)
=============================================================================
