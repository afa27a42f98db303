------------------------------- MODULE Signal -------------------------------
(***************************************************************************)
(* signal_t (include/barock/core/signal.hpp): a map from tokens to         *)
(* listeners that connect and disconnect, also while the signal is         *)
(* emitted.  A signal is a function from tokens to listeners; emit is the  *)
(* loop of the module that uses it, which goes from Earliest(DOMAIN l) to  *)
(* Earliest(Later(l, t)) after each call.                                  *)
(***************************************************************************)
EXTENDS Naturals

Latest(tokens) == CHOOSE t \in tokens : \A u \in tokens : u <= t
Earliest(tokens) == CHOOSE t \in tokens : \A u \in tokens : t <= u

\* Mutant: the largest token in use is taken for a free one.
UsedToken(l) == IF DOMAIN l = {} THEN 0 ELSE Latest(DOMAIN l)

\* The token of the next listener: one more than the largest in use.
NextToken(l) == IF DOMAIN l = {} THEN 0 ELSE Latest(DOMAIN l) + 1

Connect(l, listener) ==
  [t \in DOMAIN l \cup {NextToken(l)} |->
     IF t = NextToken(l) THEN listener ELSE l[t]]

Disconnect(l, token) == [t \in DOMAIN l \ {token} |-> l[t]]

\* Mutant: the listener that was just called is found again.
LaterOrSame(l, t) == {u \in DOMAIN l : u >= t}

\* Mutant: the iterator is advanced once more.
LaterButOne(l, t) ==
  {u \in DOMAIN l : \E v \in DOMAIN l : u > v /\ v > t}

\* What emit has yet to call when the listener t has returned: upper_bound in
\* the map as the listener left it.
Later(l, t) == {u \in DOMAIN l : u > t}

=============================================================================
