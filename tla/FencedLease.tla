----------------------------- MODULE FencedLease -----------------------------
(***************************************************************************)
(* What the leased queues promise, whatever they queue and however a lease *)
(* of theirs runs out: the row of an item remembers the token of its last  *)
(* claim, which nobody else has; a result is recorded once, by the worker  *)
(* whose token the row has, who is rid of its claim with it; and whoever   *)
(* was overtaken, revoked or restarted leaves no trace.                    *)
(***************************************************************************)
CONSTANTS
  Items, Workers,
  Open,        \* no result yet
  NoToken,     \* of an item nobody claimed
  None         \* no item

VARIABLES
  result,      \* what was recorded of an item
  token,       \* the token an item has to be settled with
  claim        \* what a worker believes to hold: an item with a token

vars == <<result, token, claim>>

Idle == [item |-> None, token |-> NoToken]

Init ==
  /\ result = [i \in Items |-> Open]
  /\ token = [i \in Items |-> NoToken]
  /\ claim = [w \in Workers |-> Idle]

\* A claim may overtake another one, whose token is void from then on.
Claim(w, i, t) ==
  /\ claim[w] = Idle /\ result[i] = Open
  /\ t # NoToken /\ \A v \in Workers : claim[v] # [item |-> i, token |-> t]
  /\ token' = [token EXCEPT ![i] = t]
  /\ claim' = [claim EXCEPT ![w] = [item |-> i, token |-> t]]
  /\ UNCHANGED result

\* The holder settles its item, or gives it back with its result still open.
Finish(w, i, r) ==
  /\ token[i] # NoToken /\ claim[w] = [item |-> i, token |-> token[i]]
  /\ result[i] = Open
  /\ result' = [result EXCEPT ![i] = r]
  /\ token' = [token EXCEPT ![i] = NoToken]
  /\ claim' = [claim EXCEPT ![w] = Idle]

\* A worker dies, or learns that it was overtaken.
Abandon(w) ==
  /\ claim' = [claim EXCEPT ![w] = Idle]
  /\ UNCHANGED <<result, token>>

\* Leases run out or are revoked, and the queue disposes of items nobody holds.
Arrange ==
  /\ UNCHANGED claim
  /\ \E R \in SUBSET Items : token' = [i \in Items |-> IF i \in R THEN NoToken ELSE token[i]]
  /\ result' = [i \in Items |->
       IF result[i] = Open /\ token[i] = NoToken THEN result'[i] ELSE result[i]]

Next ==
  \/ Arrange
  \/ \E w \in Workers : Abandon(w)
  \/ \E w \in Workers, i \in Items : Claim(w, i, token'[i]) \/ Finish(w, i, result'[i])

Spec == Init /\ [][Next]_vars
=============================================================================
