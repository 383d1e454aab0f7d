----------------------------- MODULE Compaction -----------------------------
(***************************************************************************)
(* The in-place filter idiom of Go, kept := s[:0] followed by appends:     *)
(* the elements at the kept indices, in their order.  It is written with   *)
(* ranks instead of recursion (SelectSeq) so that the facts the cache      *)
(* needs of it can be proved; MCDnsCache compares it with SelectSeq.       *)
(***************************************************************************)
EXTENDS Naturals, Sequences, FiniteSets

(* The position that index k takes once only the indices K are kept.       *)
Rank(K, k) == Cardinality({i \in K : i <= k})

(* The j-th smallest member of K.                                          *)
Nth(K, j) == CHOOSE k \in K : Rank(K, k) = j

(* The elements of s at the indices K, in order.                           *)
Compact(s, K) == [j \in 1..Cardinality(K) |-> s[Nth(K, j)]]

=============================================================================
