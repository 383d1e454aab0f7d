----------------------------- MODULE MCDnsCache -----------------------------
(***************************************************************************)
(* DnsCache for TLC: three addresses for two slots, three hosts (one with  *)
(* two spellings) for two name places, and timestamps that go both ways.   *)
(***************************************************************************)
EXTENDS DnsCache, SequencesExt

CONSTANTS a, A, b, c

MCName == {a, A, b, c}
MCFold == [n \in Hostname |-> IF n = A THEN a ELSE n]

(* Addresses are interchangeable, and so are the hosts with one spelling.  *)
MCSymmetry == Permutations(Key) \cup Permutations({b, c})

(* Compact is SelectSeq on every sequence of at most 4 of 3 values.        *)
ASSUME CompactIsSelectSeq ==
  \A s \in BoundedSeq(0..2, 4) : \A v \in 0..2 :
    Compact(s, {i \in DOMAIN s : s[i] > v}) = SelectSeq(s, LAMBDA x : x > v)

=============================================================================
