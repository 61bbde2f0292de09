------------------------------ MODULE Retain ------------------------------
(***************************************************************************)
(* Vec::retain, as AdditionalLifecycleEventsSet.unregister uses it         *)
(* (sources/mod.rs): drop every entry equal to a given one, keeping the    *)
(* others in order.  This is SelectSeq, defined by the positions kept      *)
(* instead of recursively.                                                 *)
(***************************************************************************)
EXTENDS Integers, Sequences, FiniteSets

Below(keep, i) == {j \in keep : j < i}

\* The k-th smallest element of a set of positions.
Nth(keep, k) == CHOOSE i \in keep : Cardinality(Below(keep, i)) = k - 1

\* Only the first occurrence is dropped.
WithoutFirst(list, t) ==
    LET keep == {i \in DOMAIN list : list[i] # t \/ \E j \in 1 .. i - 1 : list[j] = t}
    IN  [k \in 1 .. Cardinality(keep) |-> list[Nth(keep, k)]]

Without(list, t) ==
    LET keep == {i \in DOMAIN list : list[i] # t}
    IN  [k \in 1 .. Cardinality(keep) |-> list[Nth(keep, k)]]
=============================================================================
