---------------------------- MODULE MCRefCount ----------------------------
(* Instances of RefCount for TLC: variable m is a member of object o1.     *)
EXTENDS RefCount, TLC

CONSTANTS o1, m

MCHome == [x \in Strong \cup Weak |-> IF x = m THEN o1 ELSE Null]

\* Variables of one class that are members of nothing, and threads, are alike.
Alike == Permutations(Thread) \cup Permutations(Strong \ {m})
           \cup Permutations(Weak)

=============================================================================
