------------------------------- MODULE Vectors -------------------------------
(* What the standard library's vectors do, where a proof needs it spelled out. *)
EXTENDS Integers, Sequences, FiniteSets

\* Vec::retain: the elements at the places in keep, in their order.
Retained(s, keep) ==
  LET rank(i) == Cardinality({k \in keep : k <= i})
  IN [j \in 1 .. Cardinality(keep) |-> s[CHOOSE i \in keep : rank(i) = j]]

\* Everything but x.
Without(s, x) == Retained(s, {i \in DOMAIN s : s[i] # x})

\* The sum of the natural numbers f[x]: as many as x has units, for all of S.
UnitsOf(f, S) == UNION {{x} \X (1 .. f[x]) : x \in S}
SumOver(f, S) == Cardinality(UnitsOf(f, S))

==============================================================================
