---------------------------- MODULE MCDnsResponse ----------------------------
(***************************************************************************)
(* DnsMemory for TLC, with room for both addresses and for two of three    *)
(* hosts: MaxMessages messages, each any sequence of at most 3 of the      *)
(* records below, captured one time unit apart.                            *)
(***************************************************************************)
EXTENDS DnsMemory, SequencesExt

CONSTANTS a, A, b, c, k1, k2, MaxMessages

MCName == {a, A, b, c}
MCFold == [n \in Hostname |-> IF n = A THEN a ELSE n]

Addr(n, k, t) == [type |-> "address", owner |-> n, key |-> k, ttl |-> t]
Alias(n, m, t) == [type |-> "cname", owner |-> n, target |-> m, ttl |-> t]

(* A chain c -> b -> a, spellings, lifetimes 0 to 2, unusable names.       *)
MCRecord == {Addr(a, k1, 2), Addr(A, k1, 1), Addr(b, k2, 0),
             Addr(EmptyName, k2, 1), Addr(a, NoAddress, 1),
             Alias(b, A, 1), Alias(c, b, 2), Alias(c, a, 0),
             Alias(LongName, a, 1), Alias(b, EmptyName, 1),
             [type |-> "other"]}

Decoded(s) == [wellFormed |-> TRUE, response |-> TRUE, answer |-> s]

MCMessage ==
  {Decoded(s) : s \in BoundedSeq(MCRecord, 3)} \cup
  {[Decoded(<<Addr(a, k1, 2)>>) EXCEPT !.response = FALSE],
   [Decoded(<<Addr(a, k1, 2)>>) EXCEPT !.wellFormed = FALSE]}

VARIABLE received       \* messages received so far

mcVars == <<memoryVars, received>>

MCReceive(m) ==
  /\ received < MaxMessages
  /\ Hear(m, received)
  /\ received' = received + 1

MCPut == HearPut /\ UNCHANGED received

MCPrune(t) == HearPrune(t) /\ UNCHANGED received

MCInit == MemoryInit /\ received = 0

MCNext ==
  \/ \E m \in Message : MCReceive(m)
  \/ MCPut
  \/ \E t \in Time : MCPrune(t)

MCSpec == MCInit /\ [][MCNext]_mcVars

=============================================================================
