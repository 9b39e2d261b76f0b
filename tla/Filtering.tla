------------------------------ MODULE Filtering ------------------------------
(***************************************************************************)
(* The loop by which the relay's stores and the client's history drop what *)
(* has expired (filterInPlace in internal/relay, filterExpiredMessages in  *)
(* internal/store): the values that are kept, in their order.              *)
(***************************************************************************)
EXTENDS Naturals, Sequences, FiniteSets

\* The values at the places in kept; the i-th of them stands at the place with
\* i kept places up to it.
filterInPlace(values, kept) ==
    [i \in 1..Cardinality(kept) |->
        values[CHOOSE k \in kept : Cardinality({j \in kept : j <= k}) = i]]

=============================================================================
