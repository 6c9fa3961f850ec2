---------------------------- MODULE Arrangements ----------------------------
(***************************************************************************)
(* Python's sorted(), list comprehension and sum(), as the catalog         *)
(* algorithms use them, defined by what they return: without recursion, so *)
(* that facts about them can be proved.                                    *)
(***************************************************************************)
EXTENDS Integers, Sequences, FiniteSets

\* The order of tuples: s is smaller than t at the first place where they differ.
Before(s, t) == \E i \in DOMAIN s : s[i] < t[i] /\ \A j \in 1..(i - 1) : s[j] = t[j]

\* The elements of s at the places in DOMAIN key, by ascending keys; equal ones
\* stay in the order they have.
SortedBy(s, key) ==
    LET Ahead(i) == {j \in DOMAIN key : \/ Before(key[j], key[i])
                                        \/ key[j] = key[i] /\ j < i}
    IN [n \in 1..Cardinality(DOMAIN key) |->
           s[CHOOSE i \in DOMAIN key : Cardinality(Ahead(i)) = n - 1]]

Filtered(s, places) == SortedBy(s, [i \in places |-> <<>>])

\* The sum of natural numbers, as the number of points under their graph.
Total(amount) == Cardinality(UNION {{i} \X (1..amount[i]) : i \in DOMAIN amount})
=============================================================================
