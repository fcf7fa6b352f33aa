------------------------------ MODULE Digraphs ------------------------------
(***************************************************************************)
(* Cycles and reachability of a finite relation R (a set of pairs), stated *)
(* with sets of nodes instead of paths: no recursion, so TLAPS can reason  *)
(* about them.                                                             *)
(***************************************************************************)
EXTENDS Integers

\* The nodes of a cycle form a set each of whose members has a successor in
\* the set; in a finite graph every such set contains a cycle.
Acyclic(Node, R) ==
    \A S \in SUBSET Node : S # {} => \E a \in S : \A b \in S : <<a, b>> \notin R

\* S is closed under R.
Closed(Node, R, S) == \A x \in S, y \in Node : <<x, y>> \in R => y \in S

\* There is a path, perhaps empty, from a to b: b is in the least closed set
\* that holds a.
Reaches(Node, R, a, b) ==
    \A S \in SUBSET Node : a \in S /\ Closed(Node, R, S) => b \in S

=============================================================================
