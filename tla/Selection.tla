------------------------------ MODULE Selection ------------------------------
(***************************************************************************)
(* What is left of a list when a loop walks it and keeps some of its       *)
(* elements, in their order: the std::list and cam_list loops that look    *)
(* for, count or erase elements.  The operators are in closed form, where  *)
(* SelectSeq is built element by element, so that facts about them         *)
(* (module SelectionTheorems) need no induction.                           *)
(***************************************************************************)
EXTENDS Naturals, Sequences, FiniteSets

\* The n-th smallest number of a set.
Rank(I, i) == Cardinality({k \in I : k <= i})
Nth(I, n) == CHOOSE i \in I : Rank(I, i) = n

\* The elements of a list at some of its positions, in their order.
At(s, I) == [n \in 1..Cardinality(I) |-> s[Nth(I, n)]]

=============================================================================
