--------------------------- MODULE DnsCacheProofs ---------------------------
(***************************************************************************)
(* The cache of netmon keeps its invariants, and implements NameTable, for *)
(* every capacity, name limit, address set and sequence of timestamps.     *)
(* First what in-place filtering returns, for sequences of any length;     *)
(* then the parser of DNS responses, which fills the cache; at the end,    *)
(* that the cache remembers the answers a reader would believe.            *)
(***************************************************************************)
EXTENDS DnsMemory, FoldProofs, TLAPS

(* Ranks lie between 1 and the size of the set and grow with the index.    *)
LEMMA RankMonotone ==
  ASSUME NEW K \in SUBSET Nat, IsFiniteSet(K)
  PROVE  /\ \A k \in K : Rank(K, k) \in 1..Cardinality(K)
         /\ \A k, l \in K : k < l => Rank(K, k) < Rank(K, l)
<1> DEFINE Below(k) == {i \in K : i <= k}
<1>1. ASSUME NEW k \in K
      PROVE  /\ IsFiniteSet(Below(k))
             /\ Cardinality(Below(k)) \in Nat
             /\ Cardinality(Below(k)) <= Cardinality(K)
             /\ Cardinality(Below(k)) # 0
  <2>1. Below(k) \in SUBSET K
    OBVIOUS
  <2>2. IsFiniteSet(Below(k)) /\ Cardinality(Below(k)) <= Cardinality(K)
    BY <2>1, FS_Subset
  <2>3. k \in Below(k)
    OBVIOUS
  <2>4. Below(k) # {}
    BY <2>3
  <2> HIDE DEF Below
  <2> QED BY <2>2, <2>4, FS_CardinalityType, FS_EmptySet
<1>2. Cardinality(K) \in Nat
  BY FS_CardinalityType
<1>3. ASSUME NEW k \in K, NEW l \in K, k < l
      PROVE  Cardinality(Below(k)) < Cardinality(Below(l))
  <2>1. Below(k) \in SUBSET Below(l)
    <3> SUFFICES ASSUME NEW i \in K, i <= k PROVE i <= l
      OBVIOUS
    <3>1. i \in Nat /\ k \in Nat /\ l \in Nat
      OBVIOUS
    <3> QED BY <3>1, <1>3
  <2>2. l \in Below(l) /\ l \notin Below(k)
    BY <1>3
  <2>3. Below(k) # Below(l)
    BY <2>2
  <2>4. IsFiniteSet(Below(l))
    BY <1>1
  <2>5. /\ Cardinality(Below(k)) <= Cardinality(Below(l))
        /\ Cardinality(Below(l)) # Cardinality(Below(k))
    <3> HIDE DEF Below
    <3> QED BY <2>1, <2>3, <2>4, FS_Subset
  <2>6. Cardinality(Below(k)) \in Nat /\ Cardinality(Below(l)) \in Nat
    BY <1>1
  <2> HIDE DEF Below
  <2> QED BY <2>5, <2>6
<1>4. \A k \in K : Rank(K, k) \in 1..Cardinality(K)
  <2> SUFFICES ASSUME NEW k \in K PROVE Rank(K, k) \in 1..Cardinality(K)
    OBVIOUS
  <2>1. Rank(K, k) = Cardinality(Below(k))
    BY DEF Rank
  <2> HIDE DEF Below
  <2> QED BY <2>1, <1>1, <1>2
<1>5. \A k, l \in K : k < l => Rank(K, k) < Rank(K, l)
  BY <1>3 DEF Rank
<1> QED BY <1>4, <1>5

(* Every position is the rank of one kept index: Nth enumerates K.         *)
LEMMA NthEnumerates ==
  ASSUME NEW K \in SUBSET Nat, IsFiniteSet(K)
  PROVE  /\ Cardinality(K) \in Nat
         /\ \A j \in 1..Cardinality(K) : Nth(K, j) \in K
         /\ \A i, j \in 1..Cardinality(K) : Nth(K, i) = Nth(K, j) => i = j
         /\ \A k \in K : \E j \in 1..Cardinality(K) : Nth(K, j) = k
<1> DEFINE T == 1..Cardinality(K)
           f == [k \in K |-> Rank(K, k)]
<1>1. Cardinality(K) \in Nat
  BY FS_CardinalityType
<1>2. \A k \in K : Rank(K, k) \in T
  BY RankMonotone
<1>3. \A k, l \in K : Rank(K, k) = Rank(K, l) => k = l
  <2> SUFFICES ASSUME NEW k \in K, NEW l \in K, Rank(K, k) = Rank(K, l)
               PROVE  k = l
    OBVIOUS
  <2>1. k \in Nat /\ l \in Nat /\ Rank(K, k) \in Nat /\ Rank(K, l) \in Nat
    BY <1>2, <1>1
  <2>2. ~(k < l) /\ ~(l < k)
    BY <2>1, RankMonotone
  <2> QED BY <2>1, <2>2
<1>4. f \in Injection(K, T)
  BY <1>2, <1>3 DEF Injection, IsInjective
<1>5. IsFiniteSet(T) /\ Cardinality(T) = Cardinality(K)
  <2>1. IsFiniteSet(T)
    BY <1>1, FS_Interval
  <2>2. Cardinality(T) = IF 1 > Cardinality(K) THEN 0 ELSE Cardinality(K) - 1 + 1
    BY <1>1, FS_Interval
  <2> QED BY <2>1, <2>2, <1>1
<1>6. f \in Surjection(K, T)
  <2> HIDE DEF f, T
  <2> QED BY <1>4, <1>5, FS_Injection
<1>7. \A j \in T : \E k \in K : Rank(K, k) = j
  BY <1>6 DEF Surjection
<1>8. \A j \in T : Nth(K, j) \in K /\ Rank(K, Nth(K, j)) = j
  BY <1>7 DEF Nth
<1>9. \A k \in K : Nth(K, Rank(K, k)) = k
  BY <1>2, <1>3, <1>8
<1> QED BY <1>1, <1>2, <1>8, <1>9

(* The filtered sequence consists of the kept elements, each once.         *)
LEMMA CompactKeeps ==
  ASSUME NEW S, NEW s \in Seq(S), NEW K \in SUBSET DOMAIN s
  PROVE  /\ Compact(s, K) \in Seq(S)
         /\ Len(Compact(s, K)) <= Len(s)
         /\ DOMAIN Compact(s, K) = 1..Cardinality(K)
         /\ \A j \in 1..Cardinality(K) :
               Nth(K, j) \in K /\ Compact(s, K)[j] = s[Nth(K, j)]
         /\ \A i, j \in 1..Cardinality(K) : Nth(K, i) = Nth(K, j) => i = j
         /\ \A k \in K : \E j \in 1..Cardinality(K) : Nth(K, j) = k
<1>1. Len(s) \in Nat /\ DOMAIN s = 1..Len(s)
  OBVIOUS
<1>2. IsFiniteSet(1..Len(s)) /\ Cardinality(1..Len(s)) = Len(s)
  <2>1. IsFiniteSet(1..Len(s))
    BY <1>1, FS_Interval
  <2>2. Cardinality(1..Len(s)) = IF 1 > Len(s) THEN 0 ELSE Len(s) - 1 + 1
    BY <1>1, FS_Interval
  <2> QED BY <2>1, <2>2, <1>1
<1>3. IsFiniteSet(K) /\ Cardinality(K) <= Len(s)
  BY <1>1, <1>2, FS_Subset
<1>4. K \in SUBSET Nat
  BY <1>1
<1>5. /\ Cardinality(K) \in Nat
      /\ \A j \in 1..Cardinality(K) : Nth(K, j) \in K
      /\ \A i, j \in 1..Cardinality(K) : Nth(K, i) = Nth(K, j) => i = j
      /\ \A k \in K : \E j \in 1..Cardinality(K) : Nth(K, j) = k
  BY <1>3, <1>4, NthEnumerates
<1>6. \A k \in K : s[k] \in S
  BY <1>1
<1>7. Compact(s, K) \in [1..Cardinality(K) -> S]
  BY <1>5, <1>6 DEF Compact
<1>8. Compact(s, K) \in Seq(S) /\ Len(Compact(s, K)) = Cardinality(K)
  BY <1>5, <1>7
<1> QED BY <1>3, <1>5, <1>7, <1>8 DEF Compact

-----------------------------------------------------------------------------

(* CacheInv, of a cache es and of one entry's names ns.                    *)
GoodNames(ns) ==
  /\ ns \in Seq(NameRecord)
  /\ Len(ns) <= MaxNames
  /\ \A i, j \in DOMAIN ns : Fold[ns[i].value] = Fold[ns[j].value] => i = j

GoodCache(es) ==
  /\ es \in Seq(Entry)
  /\ Len(es) <= Capacity
  /\ \A i, j \in DOMAIN es : es[i].key = es[j].key => i = j
  /\ \A i \in DOMAIN es : GoodNames(es[i].names) /\ es[i].names # << >>

-----------------------------------------------------------------------------

(* Find returns an entry of its key, or 0 when there is none.              *)
LEMMA FindFinds ==
  ASSUME NEW es \in Seq(Entry), NEW k
  PROVE  \/ /\ Find(es, k) \in DOMAIN es
            /\ Find(es, k) # 0
            /\ es[Find(es, k)].key = k
         \/ /\ Find(es, k) = 0
            /\ \A i \in DOMAIN es : es[i].key # k
<1> DEFINE I == {i \in DOMAIN es : es[i].key = k}
<1>1. I \in SUBSET Nat /\ 0 \notin I
  OBVIOUS
<1>2. CASE I = {}
  BY <1>2 DEF Find
<1>3. CASE I # {}
  <2>1. Min(I) \in I
    <3> HIDE DEF I
    <3> QED BY <1>1, <1>3, MinOfNats
  <2>2. Find(es, k) = Min(I)
    BY <1>3 DEF Find
  <2> QED BY <2>1, <2>2, <1>1
<1> QED BY <1>2, <1>3

(* A nonempty cache has a least recently touched entry.                    *)
LEMMA VictimExists ==
  ASSUME NEW es \in Seq(Entry), Len(es) # 0
  PROVE  Victim(es) \in DOMAIN es
<1> DEFINE T == {es[i].touched : i \in DOMAIN es}
           V == {i \in DOMAIN es : \A j \in DOMAIN es :
                                     es[i].touched <= es[j].touched}
<1>1. T \in SUBSET Nat
  <2>1. \A i \in DOMAIN es : es[i] \in Entry
    OBVIOUS
  <2>2. \A i \in DOMAIN es : es[i].touched \in Nat
    BY <2>1 DEF Entry
  <2> QED BY <2>2
<1>2. es[1].touched \in T
  OBVIOUS
<1>3. Min(T) \in T /\ \A t \in T : Min(T) <= t
  <2> HIDE DEF T
  <2> QED BY <1>1, <1>2, MinOfNats
<1>4. PICK i \in DOMAIN es : Min(T) = es[i].touched
  BY <1>3
<1>5. \A j \in DOMAIN es : es[j].touched \in T
  OBVIOUS
<1>6. i \in V
  BY <1>3, <1>4, <1>5
<1>7. V \in SUBSET Nat
  OBVIOUS
<1>8. Min(V) \in V
  <2> HIDE DEF V
  <2> QED BY <1>6, <1>7, MinOfNats
<1> QED BY <1>8 DEF Victim

(* Put's search, slot by slot: p is where k lives afterwards, and every    *)
(* other slot is as it was.                                                *)
LEMMA ClaimSlot ==
  ASSUME NEW es \in Seq(Entry), Len(es) <= Capacity,
         NEW k \in Key, NEW now \in Nat,
         \A i, j \in DOMAIN es : es[i].key = es[j].key => i = j
  PROVE  LET cl == Claim(es, k, now)
             p  == Find(cl, k)
         IN  /\ cl \in Seq(Entry)
             /\ Len(cl) <= Capacity
             /\ p \in DOMAIN cl
             /\ cl[p].key = k
             /\ \A i \in DOMAIN cl \ {p} :
                  i \in DOMAIN es /\ cl[i] = es[i] /\ es[i].key # k
             /\ \/ /\ DOMAIN cl = DOMAIN es
                   /\ es[p].key = k
                   /\ cl[p].names = es[p].names
                \/ /\ DOMAIN cl = DOMAIN es /\ Len(es) = Capacity
                   /\ es[p].key # k
                   /\ \A i \in DOMAIN es : es[i].key # k
                   /\ cl[p].names = << >>
                \/ /\ p \notin DOMAIN es
                   /\ DOMAIN cl = DOMAIN es \cup {p}
                   /\ \A i \in DOMAIN es : es[i].key # k
                   /\ cl[p].names = << >>
<1> DEFINE cl == Claim(es, k, now)
           p == Find(cl, k)
           fresh == [key |-> k, names |-> << >>, touched |-> now]
<1>0. Capacity \in Nat \ {0}
  BY CacheAssumption
<1>1. fresh \in Entry
  BY DEF Entry
<1>2. CASE Find(es, k) # 0
  <2> DEFINE q == Find(es, k)
  <2>1. q \in DOMAIN es /\ es[q].key = k
    BY <1>2, FindFinds
  <2>2. cl = [es EXCEPT ![q].touched = now]
    BY <1>2 DEF Claim
  <2>3. es[q] \in Entry
    BY <2>1
  <2>4. [es[q] EXCEPT !.touched = now] \in Entry
    BY <2>3 DEF Entry
  <2> HIDE DEF q
  <2>5. /\ cl \in Seq(Entry) /\ DOMAIN cl = DOMAIN es /\ Len(cl) = Len(es)
        /\ cl[q] = [es[q] EXCEPT !.touched = now]
        /\ \A i \in DOMAIN es \ {q} : cl[i] = es[i]
    BY <2>1, <2>2, <2>4
  <2>6. cl[q].key = k /\ cl[q].names = es[q].names
    BY <2>1, <2>3, <2>5 DEF Entry
  <2>7. \A i \in DOMAIN es \ {q} : es[i].key # k
    BY <2>1
  <2> HIDE DEF cl
  <2>8. p \in DOMAIN cl /\ cl[p].key = k
    <3>1. ~ (\A i \in DOMAIN cl : cl[i].key # k)
      BY <2>1, <2>5, <2>6
    <3>2. cl \in Seq(Entry)
      BY <2>5
    <3> QED BY <3>1, <3>2, FindFinds
  <2>9. p = q
    BY <2>5, <2>7, <2>8
  <2> HIDE DEF p
  <2>10. QED BY <2>1, <2>5, <2>6, <2>7, <2>8, <2>9 DEF cl, p
<1>3. CASE Find(es, k) = 0 /\ Len(es) >= Capacity
  <2> DEFINE v == Victim(es)
  <2>1. \A i \in DOMAIN es : es[i].key # k
    BY <1>3, FindFinds
  <2>2. v \in DOMAIN es
    BY <1>0, <1>3, VictimExists
  <2>3. cl = [es EXCEPT ![v] = fresh]
    BY <1>3 DEF Claim
  <2> HIDE DEF v, fresh
  <2>4. /\ cl \in Seq(Entry) /\ DOMAIN cl = DOMAIN es /\ Len(cl) = Len(es)
        /\ cl[v] = fresh
        /\ \A i \in DOMAIN es \ {v} : cl[i] = es[i]
    BY <1>1, <2>2, <2>3
  <2>5. fresh.key = k /\ fresh.names = << >>
    BY DEF fresh
  <2> HIDE DEF cl
  <2>6. p \in DOMAIN cl /\ cl[p].key = k
    BY <2>2, <2>4, <2>5, FindFinds
  <2>7. p = v
    BY <2>1, <2>4, <2>6
  <2> HIDE DEF p
  <2>8. Len(es) = Capacity
    BY <1>0, <1>3
  <2> QED BY <2>1, <2>2, <2>4, <2>5, <2>6, <2>7, <2>8 DEF cl, p
<1>4. CASE Find(es, k) = 0 /\ ~ (Len(es) >= Capacity)
  <2> DEFINE w == Len(es) + 1
  <2>1. \A i \in DOMAIN es : es[i].key # k
    BY <1>4, FindFinds
  <2>2. cl = Append(es, fresh)
    BY <1>4 DEF Claim
  <2> HIDE DEF fresh
  <2>3. /\ cl \in Seq(Entry) /\ DOMAIN cl = DOMAIN es \cup {w}
        /\ w \notin DOMAIN es
        /\ Len(cl) <= Capacity
        /\ cl[w] = fresh
        /\ \A i \in DOMAIN es : cl[i] = es[i]
    BY <1>0, <1>1, <1>4, <2>2
  <2>4. fresh.key = k /\ fresh.names = << >>
    BY DEF fresh
  <2> HIDE DEF cl, w
  <2>5. p \in DOMAIN cl /\ cl[p].key = k
    BY <2>3, <2>4, FindFinds
  <2>6. p = w
    BY <2>1, <2>3, <2>5
  <2> HIDE DEF p
  <2> QED BY <2>1, <2>3, <2>4, <2>5, <2>6 DEF cl, p
<1> QED BY <1>2, <1>3, <1>4, FindFinds

-----------------------------------------------------------------------------

(* There is no room for a new host h among ns.                             *)
Crowded(ns, h) == Len(ns) = MaxNames /\ \A i \in DOMAIN ns : Fold[ns[i].value] # h

(* What Remember does to one entry's names: the limits and the uniqueness  *)
(* of hosts survive, the result is nonempty, n's host expires at e, and at *)
(* most the first name is lost, when there is no room.                     *)
LEMMA RememberNames ==
  ASSUME NEW ns, GoodNames(ns), NEW n \in Name, NEW e \in Nat
  PROVE  LET r == Remember(ns, n, e)
         IN  /\ GoodNames(r)
             /\ r # << >>
             /\ \E d \in 0..1 :
                  /\ d = 1 => /\ Len(ns) # 0
                              /\ Fold[ns[1].value] # Fold[n]
                              /\ Crowded(ns, Fold[n])
                  /\ \A j \in DOMAIN r :
                       \/ Fold[r[j].value] = Fold[n] /\ r[j].expires = e
                       \/ /\ Fold[r[j].value] # Fold[n]
                          /\ j + d \in DOMAIN ns
                          /\ r[j] = ns[j + d]
                  /\ \E j \in DOMAIN r :
                       Fold[r[j].value] = Fold[n] /\ r[j].expires = e
                  /\ \A i \in DOMAIN ns :
                       \/ Fold[ns[i].value] = Fold[n]
                       \/ i = 1 /\ d = 1
                       \/ i - d \in DOMAIN r /\ r[i - d] = ns[i]
<1> DEFINE r == Remember(ns, n, e)
           same == {i \in DOMAIN ns : Fold[ns[i].value] = Fold[n]}
           new == [value |-> n, expires |-> e]
<1>0. MaxNames \in Nat \ {0}
  BY CacheAssumption
<1>1. /\ ns \in Seq(NameRecord)
      /\ Len(ns) <= MaxNames
      /\ \A i, j \in DOMAIN ns : Fold[ns[i].value] = Fold[ns[j].value] => i = j
  BY DEF GoodNames
<1>2. new \in NameRecord /\ new.value = n /\ new.expires = e
  BY DEF NameRecord
<1>3. CASE same # {}
  <2>1. same \in SUBSET Nat
    BY <1>1
  <2>2. Min(same) \in same
    <3> HIDE DEF same
    <3> QED BY <1>3, <2>1, MinOfNats
  <2>3. PICK m \in DOMAIN ns : m = Min(same) /\ Fold[ns[m].value] = Fold[n]
    BY <2>2
  <2>4. r = [ns EXCEPT ![m].expires = e]
    BY <1>3, <2>3 DEF Remember
  <2>5. ns[m] \in NameRecord
    BY <1>1
  <2>6. [ns[m] EXCEPT !.expires = e] \in NameRecord
    BY <2>5 DEF NameRecord
  <2> HIDE DEF r, same
  <2>7. /\ r \in Seq(NameRecord) /\ DOMAIN r = DOMAIN ns /\ Len(r) = Len(ns)
        /\ r[m] = [ns[m] EXCEPT !.expires = e]
        /\ \A i \in DOMAIN ns \ {m} : r[i] = ns[i]
    BY <1>1, <2>4, <2>6
  <2>8. r[m].value = ns[m].value /\ r[m].expires = e
    BY <2>5, <2>7 DEF NameRecord
  <2>9. \A i \in DOMAIN ns : r[i].value = ns[i].value
    BY <2>7, <2>8
  <2>10. GoodNames(r) /\ r # << >>
    BY <1>1, <2>3, <2>7, <2>9 DEF GoodNames
  <2>11. \A j \in DOMAIN r :
           \/ Fold[r[j].value] = Fold[n] /\ r[j].expires = e
           \/ /\ Fold[r[j].value] # Fold[n]
              /\ j + 0 \in DOMAIN ns
              /\ r[j] = ns[j + 0]
    <3> SUFFICES ASSUME NEW j \in DOMAIN r
                 PROVE  \/ Fold[r[j].value] = Fold[n] /\ r[j].expires = e
                        \/ /\ Fold[r[j].value] # Fold[n]
                           /\ j \in DOMAIN ns
                           /\ r[j] = ns[j]
      BY <1>1, <2>7
    <3>1. CASE j = m
      BY <2>3, <2>8, <3>1
    <3>2. CASE j # m
      <4>1. r[j] = ns[j] /\ j \in DOMAIN ns
        BY <2>7, <3>2
      <4>2. Fold[ns[j].value] # Fold[ns[m].value]
        BY <1>1, <4>1, <3>2
      <4> QED BY <2>3, <4>1, <4>2
    <3> QED BY <3>1, <3>2
  <2>12. \A i \in DOMAIN ns :
           \/ Fold[ns[i].value] = Fold[n]
           \/ i - 0 \in DOMAIN r /\ r[i - 0] = ns[i]
    BY <1>1, <2>3, <2>7
  <2>13. Fold[r[m].value] = Fold[n] /\ m \in DOMAIN r
    BY <2>3, <2>7, <2>9
  <2>14. 0 \in 0..1 /\ 0 # 1
    OBVIOUS
  <2> QED BY <2>8, <2>10, <2>11, <2>12, <2>13, <2>14 DEF r
<1>4. CASE same = {} /\ Len(ns) < MaxNames
  <2>1. r = Append(ns, new)
    BY <1>4 DEF Remember
  <2>2. \A i \in DOMAIN ns : Fold[ns[i].value] # Fold[n]
    BY <1>4
  <2> HIDE DEF r, new, same
  <2>3. /\ r \in Seq(NameRecord) /\ Len(r) = Len(ns) + 1
        /\ DOMAIN r = 1..(Len(ns) + 1) /\ DOMAIN ns = 1..Len(ns)
        /\ Len(ns) \in Nat
        /\ r[Len(ns) + 1] = new
        /\ \A i \in DOMAIN ns : r[i] = ns[i]
    BY <1>1, <1>2, <2>1
  <2>4. GoodNames(r) /\ r # << >>
    BY <1>0, <1>1, <1>2, <1>4, <2>2, <2>3 DEF GoodNames
  <2>5. \A j \in DOMAIN r :
           \/ Fold[r[j].value] = Fold[n] /\ r[j].expires = e
           \/ /\ Fold[r[j].value] # Fold[n]
              /\ j + 0 \in DOMAIN ns
              /\ r[j] = ns[j + 0]
    BY <1>2, <2>2, <2>3
  <2>6. \A i \in DOMAIN ns :
           \/ Fold[ns[i].value] = Fold[n]
           \/ i - 0 \in DOMAIN r /\ r[i - 0] = ns[i]
    BY <2>3
  <2>7. \E j \in DOMAIN r : Fold[r[j].value] = Fold[n] /\ r[j].expires = e
    BY <1>2, <2>3
  <2>8. 0 \in 0..1 /\ 0 # 1
    OBVIOUS
  <2> QED BY <2>4, <2>5, <2>6, <2>7, <2>8 DEF r
<1>5. CASE same = {} /\ ~ (Len(ns) < MaxNames)
  <2>1. r = Append(Tail(ns), new)
    BY <1>5 DEF Remember
  <2>2. \A i \in DOMAIN ns : Fold[ns[i].value] # Fold[n]
    BY <1>5
  <2>3. Len(ns) \in Nat /\ Len(ns) = MaxNames /\ Len(ns) >= 1 /\ ns # << >>
    BY <1>0, <1>1, <1>5
  <2> HIDE DEF r, new, same
  <2>4. /\ Tail(ns) \in Seq(NameRecord) /\ Len(Tail(ns)) = Len(ns) - 1
        /\ \A i \in 1..(Len(ns) - 1) : Tail(ns)[i] = ns[i + 1]
    BY <1>1, <2>3
  <2>5. /\ r \in Seq(NameRecord) /\ Len(r) = Len(ns)
        /\ DOMAIN r = 1..Len(ns) /\ DOMAIN ns = 1..Len(ns)
        /\ r[Len(ns)] = new
        /\ \A i \in 1..(Len(ns) - 1) : r[i] = ns[i + 1]
    BY <1>1, <1>2, <2>1, <2>3, <2>4
  <2>6. GoodNames(r) /\ r # << >>
    <3>1. \A i, j \in DOMAIN r : Fold[r[i].value] = Fold[r[j].value] => i = j
      <4> SUFFICES ASSUME NEW i \in DOMAIN r, NEW j \in DOMAIN r,
                          Fold[r[i].value] = Fold[r[j].value]
                   PROVE  i = j
        OBVIOUS
      <4>1. CASE i # Len(ns) /\ j # Len(ns)
        <5>1. /\ i + 1 \in DOMAIN ns /\ j + 1 \in DOMAIN ns
              /\ r[i] = ns[i + 1] /\ r[j] = ns[j + 1]
              /\ i \in Nat /\ j \in Nat
          BY <2>3, <2>5, <4>1
        <5>2. i + 1 = j + 1
          BY <1>1, <5>1
        <5> QED BY <5>1, <5>2
      <4>2. CASE i = Len(ns) /\ j # Len(ns)
        <5>1. j \in 1..(Len(ns) - 1) /\ j + 1 \in DOMAIN ns
          BY <2>3, <2>5, <4>2
        <5>2. Fold[r[j].value] # Fold[n]
          BY <2>2, <2>5, <5>1
        <5> QED BY <1>2, <2>5, <4>2, <5>2
      <4>3. CASE i # Len(ns) /\ j = Len(ns)
        <5>1. i \in 1..(Len(ns) - 1) /\ i + 1 \in DOMAIN ns
          BY <2>3, <2>5, <4>3
        <5>2. Fold[r[i].value] # Fold[n]
          BY <2>2, <2>5, <5>1
        <5> QED BY <1>2, <2>5, <4>3, <5>2
      <4> QED BY <4>1, <4>2, <4>3
    <3> QED BY <1>0, <2>3, <2>5, <3>1 DEF GoodNames
  <2>7. \A j \in DOMAIN r :
           \/ Fold[r[j].value] = Fold[n] /\ r[j].expires = e
           \/ /\ Fold[r[j].value] # Fold[n]
              /\ j + 1 \in DOMAIN ns
              /\ r[j] = ns[j + 1]
    BY <1>2, <2>2, <2>3, <2>5
  <2>8. \A i \in DOMAIN ns :
           \/ i = 1
           \/ i - 1 \in DOMAIN r /\ r[i - 1] = ns[i]
    <3> SUFFICES ASSUME NEW i \in DOMAIN ns, i # 1
                 PROVE  i - 1 \in DOMAIN r /\ r[i - 1] = ns[i]
      OBVIOUS
    <3>1. i - 1 \in 1..(Len(ns) - 1) /\ (i - 1) + 1 = i
      BY <2>3, <2>5
    <3> QED BY <2>3, <2>5, <3>1
  <2>9. \E j \in DOMAIN r : Fold[r[j].value] = Fold[n] /\ r[j].expires = e
    BY <1>2, <2>3, <2>5
  <2>10. 1 \in 0..1 /\ Len(ns) # 0 /\ Fold[ns[1].value] # Fold[n]
    BY <2>2, <2>3, <2>5
  <2>11. Crowded(ns, Fold[n])
    BY <2>2, <2>3 DEF Crowded
  <2> QED BY <2>6, <2>7, <2>8, <2>9, <2>10, <2>11 DEF r
<1> QED BY <1>3, <1>4, <1>5

(* What an accepted Put leaves behind: slot p holds k's names, which were  *)
(* old (or none, in a fresh or a taken slot), and the rest is as it was.   *)
PutAt(es, es2, k, p, old, new) ==
  /\ es2 \in Seq(Entry)
  /\ Len(es2) <= Capacity
  /\ p \in DOMAIN es2
  /\ es2[p].key = k
  /\ es2[p].names = new
  /\ \A i \in DOMAIN es2 \ {p} :
       i \in DOMAIN es /\ es2[i] = es[i] /\ es[i].key # k
  /\ \/ /\ DOMAIN es2 = DOMAIN es
        /\ es[p].key = k
        /\ old = es[p].names
     \/ /\ DOMAIN es2 = DOMAIN es /\ Len(es) = Capacity
        /\ es[p].key # k
        /\ \A i \in DOMAIN es : es[i].key # k
        /\ old = << >>
     \/ /\ p \notin DOMAIN es
        /\ DOMAIN es2 = DOMAIN es \cup {p}
        /\ \A i \in DOMAIN es : es[i].key # k
        /\ old = << >>

(* An accepted Put is such a step.                                         *)
LEMMA PutSlot ==
  ASSUME NEW es, GoodCache(es), NEW k \in Key, NEW n \in Name,
         NEW ttl \in Nat, NEW now \in Nat
  PROVE  \E p, old :
           /\ GoodNames(old)
           /\ PutAt(es, Put(es, k, n, ttl, now), k, p, old,
                    Remember(old, n, now + Lifetime(ttl)))
<1> DEFINE cl == Claim(es, k, now)
           p == Find(cl, k)
           e == now + Lifetime(ttl)
           old == cl[p].names
           r == Remember(old, n, e)
           w == [cl[p] EXCEPT !.names = r]
           es2 == Put(es, k, n, ttl, now)
<1>1. es2 = [cl EXCEPT ![p] = w]
  BY DEF Put
<1>2. e \in Nat
  BY CacheAssumption DEF Lifetime
<1>3. /\ es \in Seq(Entry)
      /\ Len(es) <= Capacity
      /\ \A i, j \in DOMAIN es : es[i].key = es[j].key => i = j
      /\ \A i \in DOMAIN es : GoodNames(es[i].names)
  BY DEF GoodCache
<1>4. /\ cl \in Seq(Entry)
      /\ Len(cl) <= Capacity
      /\ p \in DOMAIN cl
      /\ cl[p].key = k
      /\ \A i \in DOMAIN cl \ {p} :
           i \in DOMAIN es /\ cl[i] = es[i] /\ es[i].key # k
      /\ \/ /\ DOMAIN cl = DOMAIN es
            /\ es[p].key = k
            /\ cl[p].names = es[p].names
         \/ /\ DOMAIN cl = DOMAIN es /\ Len(es) = Capacity
            /\ es[p].key # k
            /\ \A i \in DOMAIN es : es[i].key # k
            /\ cl[p].names = << >>
         \/ /\ p \notin DOMAIN es
            /\ DOMAIN cl = DOMAIN es \cup {p}
            /\ \A i \in DOMAIN es : es[i].key # k
            /\ cl[p].names = << >>
  <2> HIDE DEF es2, r, w
  <2> QED BY <1>3, ClaimSlot, Zenon
<1> HIDE DEF es2, cl, p, e
<1>5. GoodNames(<< >>)
  BY CacheAssumption DEF GoodNames
<1>6. GoodNames(old)
  BY <1>3, <1>4, <1>5
<1>7. r \in Seq(NameRecord)
  BY <1>2, <1>6, RememberNames DEF GoodNames
<1>8. cl[p] \in Entry
  BY <1>4
<1> HIDE DEF r
<1>9. w \in Entry /\ w.names = r /\ w.key = k
  BY <1>4, <1>7, <1>8 DEF Entry
<1> HIDE DEF w
<1>10. /\ es2 \in Seq(Entry) /\ DOMAIN es2 = DOMAIN cl /\ Len(es2) = Len(cl)
       /\ es2[p] = w
       /\ \A i \in DOMAIN cl \ {p} : es2[i] = cl[i]
  BY <1>1, <1>4, <1>9
<1>11. PutAt(es, es2, k, p, old, r)
  BY <1>4, <1>9, <1>10 DEF PutAt
<1> QED BY <1>6, <1>11 DEF es2, e, r

(* Put keeps a good cache good.                                            *)
LEMMA PutKeepsGood ==
  ASSUME NEW es, GoodCache(es), NEW k, NEW n, NEW ttl \in Nat, NEW now \in Nat
  PROVE  GoodCache(Put(es, k, n, ttl, now))
<1>1. CASE n \notin Name \/ k \notin Key
  BY <1>1 DEF Put
<1>2. CASE n \in Name /\ k \in Key
  <2> DEFINE e == now + Lifetime(ttl)
             es2 == Put(es, k, n, ttl, now)
  <2>1. PICK p, old :
          GoodNames(old) /\ PutAt(es, es2, k, p, old, Remember(old, n, e))
    BY <1>2, PutSlot
  <2>2. e \in Nat
    BY CacheAssumption DEF Lifetime
  <2> HIDE DEF es2, e
  <2>3. GoodNames(Remember(old, n, e)) /\ Remember(old, n, e) # << >>
    BY <1>2, <2>1, <2>2, RememberNames
  <2>4. /\ \A i, j \in DOMAIN es : es[i].key = es[j].key => i = j
        /\ \A i \in DOMAIN es : GoodNames(es[i].names) /\ es[i].names # << >>
    BY DEF GoodCache
  <2>5. /\ es2 \in Seq(Entry)
        /\ Len(es2) <= Capacity
        /\ p \in DOMAIN es2
        /\ es2[p].key = k
        /\ es2[p].names = Remember(old, n, e)
        /\ \A i \in DOMAIN es2 \ {p} :
             i \in DOMAIN es /\ es2[i] = es[i] /\ es[i].key # k
    BY <2>1 DEF PutAt
  <2>6. \A i, j \in DOMAIN es2 : es2[i].key = es2[j].key => i = j
    <3> SUFFICES ASSUME NEW i \in DOMAIN es2, NEW j \in DOMAIN es2,
                        es2[i].key = es2[j].key
                 PROVE  i = j
      OBVIOUS
    <3>1. CASE i = p \/ j = p
      BY <2>5, <3>1
    <3>2. CASE i # p /\ j # p
      BY <2>4, <2>5, <3>2
    <3> QED BY <3>1, <3>2
  <2>7. \A i \in DOMAIN es2 : GoodNames(es2[i].names) /\ es2[i].names # << >>
    BY <2>3, <2>4, <2>5
  <2>8. GoodCache(es2)
    BY <2>5, <2>6, <2>7 DEF GoodCache
  <2> QED BY <2>8 DEF es2
<1> QED BY <1>1, <1>2

(* Filtering names keeps them good.                                        *)
LEMMA LiveNames ==
  ASSUME NEW ns, GoodNames(ns), NEW now
  PROVE  /\ GoodNames(Live(ns, now))
         /\ \A j \in DOMAIN Live(ns, now) : \E i \in DOMAIN ns :
              ns[i].expires > now /\ Live(ns, now)[j] = ns[i]
         /\ \A i \in DOMAIN ns : ns[i].expires > now =>
              \E j \in DOMAIN Live(ns, now) : Live(ns, now)[j] = ns[i]
<1> DEFINE K == {i \in DOMAIN ns : ns[i].expires > now}
           r == Compact(ns, K)
<1>1. /\ ns \in Seq(NameRecord)
      /\ Len(ns) <= MaxNames
      /\ \A i, j \in DOMAIN ns : Fold[ns[i].value] = Fold[ns[j].value] => i = j
  BY DEF GoodNames
<1>2. K \in SUBSET DOMAIN ns
  OBVIOUS
<1>3. Live(ns, now) = r
  BY DEF Live
<1>4. \A i \in DOMAIN ns : i \in K <=> ns[i].expires > now
  OBVIOUS
<1> HIDE DEF K
<1>5. /\ r \in Seq(NameRecord)
      /\ Len(r) <= Len(ns)
      /\ DOMAIN r = 1..Cardinality(K)
      /\ \A j \in 1..Cardinality(K) : Nth(K, j) \in K /\ r[j] = ns[Nth(K, j)]
      /\ \A i, j \in 1..Cardinality(K) : Nth(K, i) = Nth(K, j) => i = j
      /\ \A k \in K : \E j \in 1..Cardinality(K) : Nth(K, j) = k
  BY <1>1, <1>2, CompactKeeps
<1> HIDE DEF r
<1>6. \A i, j \in DOMAIN r : Fold[r[i].value] = Fold[r[j].value] => i = j
  BY <1>1, <1>2, <1>5
<1>7. Len(r) <= MaxNames
  BY <1>1, <1>5, CacheAssumption
<1>8. GoodNames(r)
  BY <1>5, <1>6, <1>7 DEF GoodNames
<1> QED BY <1>2, <1>3, <1>4, <1>5, <1>8

(* Prune keeps a good cache good, and its entries are those of es that     *)
(* have a live name, with exactly their live names.                        *)
LEMMA PruneKeepsGood ==
  ASSUME NEW es, GoodCache(es), NEW now
  PROVE  /\ GoodCache(Prune(es, now))
         /\ \A j \in DOMAIN Prune(es, now) : \E i \in DOMAIN es :
              /\ Prune(es, now)[j].key = es[i].key
              /\ Prune(es, now)[j].names = Live(es[i].names, now)
         /\ \A i \in DOMAIN es : Live(es[i].names, now) # << >> =>
              \E j \in DOMAIN Prune(es, now) :
                /\ Prune(es, now)[j].key = es[i].key
                /\ Prune(es, now)[j].names = Live(es[i].names, now)
<1> DEFINE pr == [i \in DOMAIN es |-> [es[i] EXCEPT !.names = Live(@, now)]]
           K == {i \in DOMAIN es : pr[i].names # << >>}
           r == Compact(pr, K)
<1>1. /\ es \in Seq(Entry)
      /\ Len(es) <= Capacity
      /\ \A i, j \in DOMAIN es : es[i].key = es[j].key => i = j
      /\ \A i \in DOMAIN es : GoodNames(es[i].names) /\ es[i].names # << >>
  BY DEF GoodCache
<1>2. Prune(es, now) = r
  BY DEF Prune
<1>3. \A i \in DOMAIN es :
        /\ pr[i] \in Entry
        /\ pr[i].key = es[i].key
        /\ pr[i].names = Live(es[i].names, now)
  <2> SUFFICES ASSUME NEW i \in DOMAIN es
               PROVE  /\ pr[i] \in Entry
                      /\ pr[i].key = es[i].key
                      /\ pr[i].names = Live(es[i].names, now)
    OBVIOUS
  <2>1. es[i] \in Entry
    BY <1>1
  <2>2. Live(es[i].names, now) \in Seq(NameRecord)
    BY <1>1, LiveNames DEF GoodNames
  <2>3. pr[i] = [es[i] EXCEPT !.names = Live(es[i].names, now)]
    OBVIOUS
  <2> QED BY <2>1, <2>2, <2>3 DEF Entry
<1>4. DOMAIN pr = DOMAIN es
  OBVIOUS
<1>5. \A i \in DOMAIN es : i \in K <=> pr[i].names # << >>
  OBVIOUS
<1>6. K \in SUBSET DOMAIN pr
  OBVIOUS
<1> HIDE DEF pr, K
<1>7. pr \in Seq(Entry) /\ Len(pr) = Len(es)
  <2>1. DOMAIN pr = 1..Len(es) /\ Len(es) \in Nat
    BY <1>1, <1>4
  <2>2. \A i \in 1..Len(es) : pr[i] \in Entry
    BY <1>1, <1>3
  <2>3. pr = [i \in 1..Len(es) |-> pr[i]]
    BY <2>1 DEF pr
  <2> QED BY <2>1, <2>2, <2>3
<1>8. /\ r \in Seq(Entry)
      /\ Len(r) <= Len(pr)
      /\ DOMAIN r = 1..Cardinality(K)
      /\ \A j \in 1..Cardinality(K) : Nth(K, j) \in K /\ r[j] = pr[Nth(K, j)]
      /\ \A i, j \in 1..Cardinality(K) : Nth(K, i) = Nth(K, j) => i = j
      /\ \A k \in K : \E j \in 1..Cardinality(K) : Nth(K, j) = k
  BY <1>6, <1>7, CompactKeeps
<1> HIDE DEF r
<1>9. Len(r) <= Capacity
  BY <1>1, <1>7, <1>8, CacheAssumption
<1>10. \A i, j \in DOMAIN r : r[i].key = r[j].key => i = j
  BY <1>1, <1>3, <1>4, <1>6, <1>8
<1>11. \A j \in DOMAIN r : GoodNames(r[j].names) /\ r[j].names # << >>
  BY <1>1, <1>3, <1>4, <1>5, <1>6, <1>8, LiveNames
<1>12. GoodCache(r)
  BY <1>8, <1>9, <1>10, <1>11 DEF GoodCache
<1>13. \A j \in DOMAIN r : \E i \in DOMAIN es :
         r[j].key = es[i].key /\ r[j].names = Live(es[i].names, now)
  BY <1>3, <1>4, <1>6, <1>8
<1>14. \A i \in DOMAIN es : Live(es[i].names, now) # << >> =>
         \E j \in DOMAIN r :
           r[j].key = es[i].key /\ r[j].names = Live(es[i].names, now)
  BY <1>3, <1>5, <1>8
<1> QED BY <1>2, <1>12, <1>13, <1>14

-----------------------------------------------------------------------------

(* The invariant of the specification is the goodness of its cache.        *)
LEMMA InvIsGood == CacheInv <=> GoodCache(entries)
<1>1. ASSUME entries \in Seq(Entry), NEW i \in DOMAIN entries
      PROVE  entries[i].names \in Seq(NameRecord)
  <2>1. entries[i] \in Entry
    BY <1>1
  <2> QED BY <2>1 DEF Entry
<1> QED BY <1>1 DEF CacheInv, CacheTypeOK, WithinLimits, OneEntryPerKey,
           OneNamePerHost, NoHollowEntry, GoodCache, GoodNames

(* The invariant is inductive.                                             *)
LEMMA CacheInductive == CacheSpec => []CacheInv
<1>1. CacheInit => GoodCache(entries)
  <2> SUFFICES ASSUME CacheInit PROVE GoodCache(entries)
    OBVIOUS
  <2>1. entries = << >>
    BY DEF CacheInit
  <2> QED BY <2>1, CacheAssumption DEF GoodCache
<1>2. GoodCache(entries) /\ [CacheNext]_entries => GoodCache(entries)'
  <2> SUFFICES ASSUME GoodCache(entries), [CacheNext]_entries
               PROVE  GoodCache(entries)'
    OBVIOUS
  <2>1. CASE CachePut
    <3>1. PICK k \in Key \cup {NoAddress}, n \in Hostname, ttl \in TTL, now \in Time :
            entries' = Put(entries, k, n, ttl, now)
      BY <2>1 DEF CachePut
    <3>2. ttl \in Nat /\ now \in Nat
      BY CacheAssumption
    <3>3. GoodCache(Put(entries, k, n, ttl, now))
      BY <3>2, PutKeepsGood
    <3> QED BY <3>1, <3>3 DEF GoodCache
  <2>2. CASE CachePrune
    <3>1. PICK now \in Time : entries' = Prune(entries, now)
      BY <2>2 DEF CachePrune
    <3>2. GoodCache(Prune(entries, now))
      BY PruneKeepsGood
    <3> QED BY <3>1, <3>2 DEF GoodCache
  <2>3. CASE UNCHANGED entries
    BY <2>3 DEF GoodCache
  <2> QED BY <2>1, <2>2, <2>3 DEF CacheNext
<1>3. GoodCache(entries) => CacheInv
  BY InvIsGood
<1> QED BY <1>1, <1>2, <1>3, PTL DEF CacheSpec

(* For every capacity, name limit and order of calls and timestamps, the   *)
(* cache of netmon stays well-formed and within its limits, has one entry  *)
(* per address, one name per host, and no entry without a name.            *)
THEOREM CacheSafe == CacheSpec => []CacheInv
BY CacheInductive

-----------------------------------------------------------------------------
(* The refinement of NameTable.                                            *)

(* The facts held by the names ns of address k.                            *)
FactOf(k, nm) == [key |-> k, host |-> Fold[nm.value], expires |-> nm.expires]
NameFacts(k, ns) == {FactOf(k, ns[j]) : j \in DOMAIN ns}

(* The fields of a fact.                                                   *)
LEMMA FactFields ==
  ASSUME NEW k, NEW nm
  PROVE  /\ FactOf(k, nm).key = k
         /\ FactOf(k, nm).host = Fold[nm.value]
         /\ FactOf(k, nm).expires = nm.expires
BY DEF FactOf

(* The refinement mapping gathers the entries' facts.                      *)
LEMMA FactsGather ==
  ASSUME NEW es
  PROVE  Facts(es) = UNION {NameFacts(es[i].key, es[i].names) : i \in DOMAIN es}
BY DEF Facts, NameFacts, FactOf

(* Remember replaces what is known of n's host, at the cost of at most one *)
(* other fact about the same address, and of none when there is room.      *)
LEMMA RememberFacts ==
  ASSUME NEW ns, GoodNames(ns), NEW n \in Name, NEW e \in Nat, NEW k
  PROVE  LET rest == {x \in NameFacts(k, ns) : x.host # Fold[n]}
             f    == [key |-> k, host |-> Fold[n], expires |-> e]
             new  == NameFacts(k, Remember(ns, n, e))
         IN  \/ new = rest \cup {f}
             \/ /\ Crowded(ns, Fold[n])
                /\ \E x \in rest : new = (rest \ {x}) \cup {f}
<1> DEFINE rest == {x \in NameFacts(k, ns) : x.host # Fold[n]}
           f == [key |-> k, host |-> Fold[n], expires |-> e]
           r == Remember(ns, n, e)
           new == NameFacts(k, r)
<1>1. PICK d \in 0..1 :
        /\ d = 1 => /\ Len(ns) # 0 /\ Fold[ns[1].value] # Fold[n]
                    /\ Crowded(ns, Fold[n])
        /\ \A j \in DOMAIN r :
             \/ Fold[r[j].value] = Fold[n] /\ r[j].expires = e
             \/ /\ Fold[r[j].value] # Fold[n]
                /\ j + d \in DOMAIN ns
                /\ r[j] = ns[j + d]
        /\ \E j \in DOMAIN r : Fold[r[j].value] = Fold[n] /\ r[j].expires = e
        /\ \A i \in DOMAIN ns :
             \/ Fold[ns[i].value] = Fold[n]
             \/ i = 1 /\ d = 1
             \/ i - d \in DOMAIN r /\ r[i - d] = ns[i]
  BY RememberNames
<1>2. /\ ns \in Seq(NameRecord)
      /\ \A i, j \in DOMAIN ns : Fold[ns[i].value] = Fold[ns[j].value] => i = j
  BY DEF GoodNames
<1>3. GoodNames(r)
  BY RememberNames
<1>4. r \in Seq(NameRecord)
  BY <1>3 DEF GoodNames
<1> HIDE DEF r
<1>5. f \in new
  <2>1. PICK j \in DOMAIN r : Fold[r[j].value] = Fold[n] /\ r[j].expires = e
    BY <1>1
  <2>2. FactOf(k, r[j]) = f
    BY <2>1 DEF FactOf
  <2> QED BY <2>2 DEF NameFacts
<1>6. \A x \in new : x = f \/ \E j \in DOMAIN r : /\ x = FactOf(k, r[j])
                                                 /\ Fold[r[j].value] # Fold[n]
                                                 /\ j + d \in DOMAIN ns
                                                 /\ r[j] = ns[j + d]
  <2> SUFFICES ASSUME NEW j \in DOMAIN r
               PROVE  \/ FactOf(k, r[j]) = f
                      \/ /\ Fold[r[j].value] # Fold[n]
                         /\ j + d \in DOMAIN ns
                         /\ r[j] = ns[j + d]
    BY DEF NameFacts
  <2>1. CASE Fold[r[j].value] = Fold[n] /\ r[j].expires = e
    BY <2>1 DEF FactOf
  <2> QED BY <1>1, <2>1
<1>7. new \subseteq rest \cup {f}
  <2> SUFFICES ASSUME NEW x \in new, x # f PROVE x \in rest
    OBVIOUS
  <2>1. PICK j \in DOMAIN r : /\ x = FactOf(k, r[j])
                              /\ Fold[r[j].value] # Fold[n]
                              /\ j + d \in DOMAIN ns
                              /\ r[j] = ns[j + d]
    BY <1>6
  <2>2. x \in NameFacts(k, ns)
    BY <2>1 DEF NameFacts
  <2>3. x.host # Fold[n]
    BY <2>1, FactFields
  <2> QED BY <2>2, <2>3
<1>8. ASSUME NEW i \in DOMAIN ns, Fold[ns[i].value] # Fold[n],
             i - d \in DOMAIN r, r[i - d] = ns[i]
      PROVE  FactOf(k, ns[i]) \in new
  BY <1>8 DEF NameFacts
<1>9. CASE d = 0
  <2>1. \A x \in rest : x \in new
    <3> SUFFICES ASSUME NEW i \in DOMAIN ns, FactOf(k, ns[i]).host # Fold[n]
                 PROVE  FactOf(k, ns[i]) \in new
      BY DEF NameFacts
    <3>1. Fold[ns[i].value] # Fold[n]
      BY FactFields
    <3> HIDE DEF new
    <3> QED BY <1>1, <1>8, <1>9, <3>1
  <2> HIDE DEF new, rest, f
  <2>2. new = rest \cup {f}
    BY <1>5, <1>7, <2>1
  <2> QED BY <2>2 DEF new, rest, f, r
<1>10. CASE d = 1
  <2> DEFINE x == FactOf(k, ns[1])
  <2>1. 1 \in DOMAIN ns /\ Fold[ns[1].value] # Fold[n]
    BY <1>1, <1>2, <1>10
  <2>2. x \in rest
    <3>1. x \in NameFacts(k, ns)
      BY <2>1 DEF NameFacts
    <3> QED BY <2>1, <3>1, FactFields
  <2>3. ASSUME NEW y \in rest, y # x PROVE y \in new
    <3>1. PICK i \in DOMAIN ns : y = FactOf(k, ns[i])
      BY DEF NameFacts
    <3>2. Fold[ns[i].value] # Fold[n] /\ i # 1
      BY <2>3, <3>1, FactFields
    <3> HIDE DEF new
    <3> QED BY <1>1, <1>8, <3>1, <3>2
  <2>4. x \notin new
    <3> SUFFICES ASSUME x \in new PROVE FALSE
      OBVIOUS
    <3>1. x # f
      BY <2>1 DEF FactOf
    <3>2. PICK j \in DOMAIN r : /\ x = FactOf(k, r[j])
                                /\ j + 1 \in DOMAIN ns
                                /\ r[j] = ns[j + 1]
      BY <1>6, <1>10, <3>1
    <3>3. Fold[ns[1].value] = Fold[ns[j + 1].value]
      BY <3>2, FactFields
    <3>4. 1 = j + 1 /\ j \in Nat /\ j # 0
      BY <1>2, <1>4, <2>1, <3>2, <3>3
    <3> QED BY <3>4
  <2> HIDE DEF new, rest, f, x
  <2>5. new = (rest \ {x}) \cup {f}
    BY <1>5, <1>7, <2>2, <2>3, <2>4
  <2>6. \E y \in rest : new = (rest \ {y}) \cup {f}
    BY <2>2, <2>5
  <2>7. Crowded(ns, Fold[n])
    BY <1>1, <1>10
  <2> QED BY <2>6, <2>7 DEF new, rest, f, r
<1> QED BY <1>9, <1>10

(* There is no room in es for host h of its address k, or for address k.   *)
NamesFull(es, k, h) == \E i \in DOMAIN es : es[i].key = k /\ Crowded(es[i].names, h)
EntriesFull(es, k) == Len(es) = Capacity /\ \A i \in DOMAIN es : es[i].key # k

(* An accepted Put is a Learn of the table, and forgets something else     *)
(* only when there is no room.                                             *)
LEMMA PutLearns ==
  ASSUME NEW es, GoodCache(es), NEW k \in Key, NEW n \in Name,
         NEW ttl \in Nat, NEW now \in Nat
  PROVE  LET es2  == Put(es, k, n, ttl, now)
             rest == {x \in Facts(es) : x.key # k \/ x.host # Fold[n]}
             f    == [key |-> k, host |-> Fold[n],
                      expires |-> now + Lifetime(ttl)]
         IN  \/ Facts(es2) = rest \cup {f}
             \/ /\ NamesFull(es, k, Fold[n])
                /\ \E x \in rest : x.key = k /\ Facts(es2) = (rest \ {x}) \cup {f}
             \/ /\ EntriesFull(es, k)
                /\ \E v \in Key \ {k} :
                     Facts(es2) = {x \in rest : x.key # v} \cup {f}
<1> DEFINE es2 == Put(es, k, n, ttl, now)
           rest == {x \in Facts(es) : x.key # k \/ x.host # Fold[n]}
           e == now + Lifetime(ttl)
           f == [key |-> k, host |-> Fold[n], expires |-> e]
<1>1. e \in Nat
  BY CacheAssumption DEF Lifetime
<1>2. PICK p, old :
        GoodNames(old) /\ PutAt(es, es2, k, p, old, Remember(old, n, e))
  BY PutSlot
<1> DEFINE new == NameFacts(k, Remember(old, n, e))
           olds == {x \in NameFacts(k, old) : x.host # Fold[n]}
           others == UNION {NameFacts(es[i].key, es[i].names) :
                            i \in DOMAIN es2 \ {p}}
<1>3. \/ new = olds \cup {f}
      \/ Crowded(old, Fold[n]) /\ \E x \in olds : new = (olds \ {x}) \cup {f}
  BY <1>1, <1>2, RememberFacts
<1>4. f.key = k /\ f.host = Fold[n]
  OBVIOUS
<1>5. \A x \in NameFacts(k, old) : x.key = k
  BY FactFields DEF NameFacts
<1>6. \A x \in others : x.key # k
  BY <1>2, FactFields DEF NameFacts, PutAt
<1> HIDE DEF es2, e, f
<1>7. Facts(es2) = others \cup new
  <2>1. /\ p \in DOMAIN es2
        /\ NameFacts(es2[p].key, es2[p].names) = new
        /\ \A i \in DOMAIN es2 \ {p} : es2[i] = es[i]
    BY <1>2 DEF PutAt
  <2> HIDE DEF new
  <2> QED BY <2>1, FactsGather
<1>8. CASE /\ DOMAIN es2 = DOMAIN es
           /\ es[p].key = k
           /\ old = es[p].names
  <2>1. Facts(es) = others \cup NameFacts(k, old)
    <3>1. p \in DOMAIN es
      BY <1>2, <1>8 DEF PutAt
    <3> QED BY <1>8, <3>1, FactsGather
  <2> HIDE DEF others, new
  <2>2. rest = others \cup olds
    BY <1>5, <1>6, <2>1
  <2>3. \A x \in olds : x.key = k /\ x \notin others
    BY <1>5, <1>6
  <2> HIDE DEF rest, olds
  <2>4. CASE new = olds \cup {f}
    <3>1. Facts(es2) = rest \cup {f}
      BY <1>7, <2>2, <2>4
    <3> QED BY <3>1 DEF es2, rest, e, f
  <2>5. CASE Crowded(old, Fold[n]) /\ \E x \in olds : new = (olds \ {x}) \cup {f}
    <3>1. PICK x \in olds : new = (olds \ {x}) \cup {f}
      BY <2>5
    <3>2. Facts(es2) = (rest \ {x}) \cup {f}
      BY <1>7, <2>2, <2>3, <3>1
    <3>3. \E y \in rest : y.key = k /\ Facts(es2) = (rest \ {y}) \cup {f}
      BY <2>2, <2>3, <3>2
    <3>4. NamesFull(es, k, Fold[n])
      BY <1>2, <1>8, <2>5 DEF NamesFull, PutAt
    <3> QED BY <3>3, <3>4 DEF es2, rest, e, f
  <2> QED BY <1>3, <2>4, <2>5
<1>9. CASE old = << >>
  <2>1. olds = {}
    BY <1>9 DEF NameFacts
  <2>2. new = {f}
    <3> HIDE DEF new, olds
    <3> QED BY <1>3, <2>1
  <2> HIDE DEF new, olds
  <2>3. CASE /\ DOMAIN es2 = DOMAIN es /\ Len(es) = Capacity
             /\ \A i \in DOMAIN es : es[i].key # k
    <3> DEFINE v == es[p].key
    <3>1. /\ es \in Seq(Entry)
          /\ \A i, j \in DOMAIN es : es[i].key = es[j].key => i = j
      BY DEF GoodCache
    <3>2. p \in DOMAIN es
      BY <1>2, <2>3 DEF PutAt
    <3>3. es[p] \in Entry
      BY <3>1, <3>2
    <3>4. v \in Key \ {k}
      BY <2>3, <3>2, <3>3 DEF Entry
    <3>5. Facts(es) = others \cup NameFacts(v, es[p].names)
      BY <2>3, <3>2, FactsGather
    <3>6. \A x \in others : x.key # v
      BY <2>3, <3>1, <3>2, FactFields DEF NameFacts
    <3>7. \A x \in NameFacts(v, es[p].names) : x.key = v
      BY FactFields DEF NameFacts
    <3> HIDE DEF v, others
    <3>8. others = {x \in rest : x.key # v}
      BY <1>6, <3>4, <3>5, <3>6, <3>7
    <3> HIDE DEF rest
    <3>9. Facts(es2) = {x \in rest : x.key # v} \cup {f}
      BY <1>7, <2>2, <3>8
    <3>10. \E u \in Key \ {k} : Facts(es2) = {x \in rest : x.key # u} \cup {f}
      BY <3>4, <3>9
    <3>11. EntriesFull(es, k)
      BY <2>3 DEF EntriesFull
    <3> QED BY <3>10, <3>11 DEF es2, rest, e, f
  <2>4. CASE p \notin DOMAIN es /\ DOMAIN es2 = DOMAIN es \cup {p}
    <3>1. DOMAIN es2 \ {p} = DOMAIN es
      BY <2>4
    <3>2. Facts(es) = others
      BY <3>1, FactsGather
    <3> HIDE DEF others
    <3>3. rest = others
      BY <1>6, <3>2
    <3> HIDE DEF rest
    <3>4. Facts(es2) = rest \cup {f}
      BY <1>7, <2>2, <3>3
    <3> QED BY <3>4 DEF es2, rest, e, f
  <2>5. \/ DOMAIN es2 = DOMAIN es /\ es[p].key = k /\ old = es[p].names
        \/ /\ DOMAIN es2 = DOMAIN es /\ Len(es) = Capacity
           /\ \A i \in DOMAIN es : es[i].key # k
        \/ p \notin DOMAIN es /\ DOMAIN es2 = DOMAIN es \cup {p}
    BY <1>2 DEF PutAt
  <2> QED BY <1>8, <2>3, <2>4, <2>5
<1>10. \/ DOMAIN es2 = DOMAIN es /\ es[p].key = k /\ old = es[p].names
       \/ old = << >>
  BY <1>2 DEF PutAt
<1> QED BY <1>8, <1>9, <1>10

(* Prune forgets exactly the expired facts.                                *)
LEMMA PruneExpires ==
  ASSUME NEW es, GoodCache(es), NEW now
  PROVE  Facts(Prune(es, now)) = {x \in Facts(es) : x.expires > now}
<1> DEFINE pr == Prune(es, now)
<1>1. \A i \in DOMAIN es : GoodNames(es[i].names)
  BY DEF GoodCache
<1>2. /\ \A j \in DOMAIN pr : \E i \in DOMAIN es :
           pr[j].key = es[i].key /\ pr[j].names = Live(es[i].names, now)
      /\ \A i \in DOMAIN es : Live(es[i].names, now) # << >> =>
           \E j \in DOMAIN pr :
             pr[j].key = es[i].key /\ pr[j].names = Live(es[i].names, now)
  BY PruneKeepsGood
<1> HIDE DEF pr
<1>3. ASSUME NEW i \in DOMAIN es, NEW k
      PROVE  NameFacts(k, Live(es[i].names, now)) =
               {x \in NameFacts(k, es[i].names) : x.expires > now}
  <2> DEFINE ns == es[i].names
             lv == Live(ns, now)
  <2>1. /\ \A j \in DOMAIN lv : \E m \in DOMAIN ns :
             ns[m].expires > now /\ lv[j] = ns[m]
        /\ \A m \in DOMAIN ns : ns[m].expires > now =>
             \E j \in DOMAIN lv : lv[j] = ns[m]
    BY <1>1, LiveNames
  <2> HIDE DEF ns, lv
  <2>2. ASSUME NEW j \in DOMAIN lv
        PROVE  /\ FactOf(k, lv[j]) \in NameFacts(k, ns)
               /\ FactOf(k, lv[j]).expires > now
    BY <2>1, FactFields DEF NameFacts
  <2>3. ASSUME NEW m \in DOMAIN ns, FactOf(k, ns[m]).expires > now
        PROVE  FactOf(k, ns[m]) \in NameFacts(k, lv)
    BY <2>1, <2>3, FactFields DEF NameFacts
  <2>4. NameFacts(k, lv) = {x \in NameFacts(k, ns) : x.expires > now}
    BY <2>2, <2>3 DEF NameFacts
  <2> QED BY <2>4 DEF ns, lv
<1>4. Facts(pr) \subseteq {x \in Facts(es) : x.expires > now}
  <2> SUFFICES ASSUME NEW j \in DOMAIN pr,
                      NEW x \in NameFacts(pr[j].key, pr[j].names)
               PROVE  x \in Facts(es) /\ x.expires > now
    BY FactsGather
  <2>1. PICK i \in DOMAIN es :
          pr[j].key = es[i].key /\ pr[j].names = Live(es[i].names, now)
    BY <1>2
  <2>2. x \in NameFacts(es[i].key, es[i].names) /\ x.expires > now
    BY <1>3, <2>1
  <2> QED BY <2>2, FactsGather
<1>5. {x \in Facts(es) : x.expires > now} \subseteq Facts(pr)
  <2> SUFFICES ASSUME NEW i \in DOMAIN es,
                      NEW x \in NameFacts(es[i].key, es[i].names),
                      x.expires > now
               PROVE  x \in Facts(pr)
    BY FactsGather
  <2>1. x \in NameFacts(es[i].key, Live(es[i].names, now))
    BY <1>3
  <2>2. Live(es[i].names, now) # << >>
    BY <2>1 DEF NameFacts
  <2>3. PICK j \in DOMAIN pr :
          pr[j].key = es[i].key /\ pr[j].names = Live(es[i].names, now)
    BY <1>2, <2>2
  <2> QED BY <2>1, <2>3, FactsGather
<1>6. Facts(pr) = {x \in Facts(es) : x.expires > now}
  BY <1>4, <1>5
<1> QED BY <1>6 DEF pr

(* The slices of cache.go implement the table of NameTable: whatever the   *)
(* order of the timestamps, an answer is believed until its own expiry, a  *)
(* Put forgets at most one bystander, and Prune exactly what has expired.  *)
THEOREM CacheImplementsTable == CacheSpec => ImplementsTable
<1>1. CacheInit => Table!TableInit
  <2> SUFFICES ASSUME entries = << >> PROVE Facts(entries) = {}
    BY DEF CacheInit, Table!TableInit
  <2> QED BY FactsGather
<1>2. /\ CacheInv
      /\ [CacheNext]_entries
      => [Table!TableNext]_(Facts(entries))
  <2> SUFFICES ASSUME GoodCache(entries), [CacheNext]_entries
               PROVE  Table!TableNext \/ Facts(entries)' = Facts(entries)
    BY InvIsGood
  <2>1. CASE CachePut
    <3>1. PICK k \in Key \cup {NoAddress}, n \in Hostname, ttl \in TTL, now \in Time :
            entries' = Put(entries, k, n, ttl, now)
      BY <2>1 DEF CachePut
    <3>2. ttl \in Nat /\ now \in Nat
      BY CacheAssumption
    <3>3. CASE n \notin Name \/ k \notin Key
      <4>1. entries' = entries
        BY <3>1, <3>3 DEF Put
      <4> QED BY <4>1
    <3>4. CASE n \in Name /\ k \in Key
      <4> DEFINE h == Fold[n]
                 e == now + Lifetime(ttl)
      <4>1. Facts(entries)' = Facts(Put(entries, k, n, ttl, now))
        BY <3>1
      <4>2. LET rest == {x \in Facts(entries) : x.key # k \/ x.host # h}
                f    == [key |-> k, host |-> h, expires |-> e]
            IN  \/ Facts(entries)' = rest \cup {f}
                \/ \E x \in rest : /\ x.key = k
                                   /\ Facts(entries)' = (rest \ {x}) \cup {f}
                \/ \E v \in Key \ {k} :
                     Facts(entries)' = {x \in rest : x.key # v} \cup {f}
        BY <3>2, <3>4, <4>1, PutLearns
      <4>3. Table!Learn(k, h, e)
        BY <4>2 DEF Table!Learn, Table!Fact
      <4>4. /\ h \in {Fold[m] : m \in Name}
            /\ e \in {t + Lifetime(l) : t \in Time, l \in TTL}
        BY <3>4
      <4> HIDE DEF h, e
      <4> QED BY <3>4, <4>3, <4>4 DEF Table!TableNext
    <3> QED BY <3>3, <3>4
  <2>2. CASE CachePrune
    <3>1. PICK now \in Time : entries' = Prune(entries, now)
      BY <2>2 DEF CachePrune
    <3>2. Facts(entries)' = {x \in Facts(entries) : x.expires > now}
      BY <3>1, PruneExpires
    <3>3. Table!Expire(now)
      BY <3>2 DEF Table!Expire
    <3> QED BY <3>3 DEF Table!TableNext
  <2>3. CASE UNCHANGED entries
    BY <2>3
  <2> QED BY <2>1, <2>2, <2>3 DEF CacheNext
<1> QED BY <1>1, <1>2, CacheInductive, PTL DEF CacheSpec, ImplementsTable, Table!TableSpec

-----------------------------------------------------------------------------
(* The parser of DNS responses uses the cache as DnsCache allows, whatever *)
(* messages arrive with whatever timestamps.  A Put half way through a     *)
(* message is a CachePut because its arguments are a record of the message *)
(* still held and the timestamp it was captured at: that is what the       *)
(* inductive invariant Parsing says.                                       *)

(* While Puts are outstanding they are Puts of a received message, with a  *)
(* timestamp that was received with it.                                    *)
Parsing ==
  /\ message \in Message \cup {EmptyMessage}
  /\ stamp \in Time \cup {0}
  /\ todo # {} => message \in Message /\ stamp \in Time
  /\ todo \subseteq PutPositions(message)

(* The Puts of a message are made for its records: the argument of each is *)
(* an address, name or lifetime found there (dns.go:40-49, 61-65).         *)
LEMMA PutArguments ==
  ASSUME NEW m \in Message, NEW p \in PutPositions(m)
  PROVE  /\ m.answer[p[1]].key \in Key \cup {NoAddress}
         /\ PutName(m.answer, p) \in Hostname
         /\ PutTTL(m.answer, p) \in TTL
<1> DEFINE ans == m.answer
           adr == {i \in DOMAIN ans : ans[i].type = "address"}
<1>1. ans \in Seq(Record)
  BY ResponseAssumption
<1>2. \A i \in DOMAIN ans : ans[i] \in Record
  BY <1>1
<1>3. \A i \in adr : /\ ans[i].owner \in Hostname
                     /\ ans[i].key \in Key \cup {NoAddress}
                     /\ ans[i].ttl \in TTL
  <2> SUFFICES ASSUME NEW i \in adr
               PROVE  ans[i] \in [type : {"address"}, owner : Hostname,
                                  key : Key \cup {NoAddress}, ttl : TTL]
    OBVIOUS
  <2>1. ans[i] \in Record /\ ans[i].type = "address"
    BY <1>2
  <2> QED  BY <2>1 DEF Record
<1>4. \A i \in Cnames(ans) : /\ i \in DOMAIN ans /\ i # 0
                             /\ ans[i].owner \in Hostname
                             /\ ans[i].ttl \in TTL
  <2> SUFFICES ASSUME NEW i \in Cnames(ans)
               PROVE  /\ i \in DOMAIN ans /\ i # 0
                      /\ ans[i] \in [type : {"cname"}, owner : Hostname,
                                     target : Hostname, ttl : TTL]
    OBVIOUS
  <2>1. i \in DOMAIN ans /\ ans[i].type = "cname"
    BY DEF Cnames
  <2>2. i # 0
    BY <1>1, <2>1
  <2>3. ans[i] \in Record
    BY <1>2, <2>1
  <2> QED  BY <2>1, <2>2, <2>3 DEF Record
<1>5. \/ \E i \in adr : p = <<i, 0>>
      \/ p \in adr \X Cnames(ans)
  BY DEF PutPositions
<1>6. CASE \E i \in adr : p = <<i, 0>>
  BY <1>3, <1>6 DEF PutName, PutTTL
<1>7. CASE p \in adr \X Cnames(ans)
  <2>1. p[1] \in adr /\ p[2] \in Cnames(ans) /\ p[2] # 0
    BY <1>4, <1>7
  <2> QED  BY <1>3, <1>4, <2>1 DEF PutName, PutTTL
<1> QED  BY <1>5, <1>6, <1>7

(* A Put of the message being parsed is a Put the cache allows.            *)
LEMMA PutNextIsPut ==
  ASSUME Parsing, PutNext
  PROVE  CachePut
<1>1. PICK p \in todo : entries' = Put(entries, message.answer[p[1]].key,
                                       PutName(message.answer, p),
                                       PutTTL(message.answer, p), stamp)
  BY DEF PutNext
<1>2. message \in Message /\ stamp \in Time /\ p \in PutPositions(message)
  BY DEF Parsing
<1> QED  BY <1>1, <1>2, PutArguments DEF CachePut

(* Holding a received message for some of its Puts keeps the invariant.    *)
LEMMA HoldKeepsParsing ==
  ASSUME NEW m, NEW t, NEW ps, Hold(m, t, ps), ps \subseteq PutPositions(m),
         ps # {} => m \in Message /\ t \in Time
  PROVE  Parsing'
BY DEF Hold, Parsing, PutPositions

(* Parsing is preserved by every step of the parser.                       *)
LEMMA ParsingInductive ==
  ASSUME Parsing, [ResponseNext]_responseVars
  PROVE  Parsing'
<1>1. ASSUME NEW m \in Message, NEW t \in Time, Receive(m, t)
      PROVE  Parsing'
  BY <1>1, HoldKeepsParsing DEF Receive
<1>2. CASE PutNext
  <2>1. PICK p \in todo : Hold(message, stamp, todo \ {p})
    BY <1>2 DEF PutNext
  <2> QED  BY <2>1, HoldKeepsParsing DEF Parsing
<1>3. ASSUME NEW t \in Time, PruneBetween(t)
      PROVE  Parsing'
  BY <1>3 DEF PruneBetween, Parsing, PutPositions, Cnames
<1>4. CASE UNCHANGED responseVars
  BY <1>4 DEF responseVars, Parsing, PutPositions, Cnames
<1> QED  BY <1>1, <1>2, <1>3, <1>4 DEF ResponseNext

(* Parsing uses the cache only through Put and Prune, with arguments found *)
(* in the messages, for every set of messages and timestamps               *)
(* (dns.go:11-67, main.go:220, 246, 261).                                  *)
THEOREM ResponseUsesCache == ResponseSpec => CacheSpec
<1>1. ResponseInit => CacheInit /\ Parsing
  BY DEF ResponseInit, Parsing
<1>2. Parsing /\ [ResponseNext]_responseVars => Parsing'
  BY ParsingInductive
<1>3. Parsing /\ [ResponseNext]_responseVars => [CacheNext]_entries
  <2> SUFFICES ASSUME Parsing, [ResponseNext]_responseVars
               PROVE  [CacheNext]_entries
    OBVIOUS
  <2>1. ASSUME NEW m \in Message, NEW t \in Time, Receive(m, t)
        PROVE  UNCHANGED entries
    BY <2>1 DEF Receive
  <2>2. CASE PutNext
    BY <2>2, PutNextIsPut DEF CacheNext
  <2>3. ASSUME NEW t \in Time, PruneBetween(t)
        PROVE  CacheNext
    BY <2>3 DEF PruneBetween, CacheNext, CachePrune
  <2>4. CASE UNCHANGED responseVars
    BY <2>4 DEF responseVars
  <2> QED  BY <2>1, <2>2, <2>3, <2>4 DEF ResponseNext
<1> QED  BY <1>1, <1>2, <1>3, PTL DEF ResponseSpec, CacheSpec

(* Hence what holds of the cache holds at every step of the parser, half   *)
(* way through a message too.                                              *)
THEOREM ResponseCacheSafe == ResponseSpec => []CacheInv
BY ResponseUsesCache, CacheSafe, PTL

(* The type invariant: at every step the Puts outstanding are Puts of the  *)
(* message being parsed.                                                   *)
THEOREM ResponseTypeCorrect == ResponseSpec => []ResponseTypeOK
<1>1. ResponseInit => Parsing
  BY DEF ResponseInit, Parsing
<1>2. Parsing /\ [ResponseNext]_responseVars => Parsing'
  BY ParsingInductive
<1>3. ResponseSpec => []Parsing
  BY <1>1, <1>2, PTL DEF ResponseSpec
<1>4. Parsing /\ CacheInv => ResponseTypeOK
  BY DEF Parsing, CacheInv, ResponseTypeOK
<1> QED  BY <1>3, <1>4, ResponseCacheSafe, PTL

-----------------------------------------------------------------------------
(* What one message says, and what its Puts leave in the cache.            *)

(* What message m says with its Put p, and the Puts that count.            *)
KeyOf(m, p) == m.answer[p[1]].key
HostOf(m, p) == Fold[PutName(m.answer, p)]
ExpiryOf(m, p, t) == t + Lifetime(PutTTL(m.answer, p))
Says(m) == {p \in PutPositions(m) : KeyOf(m, p) \in Key /\ PutName(m.answer, p) \in Name}

(* Among the Puts D of m, p has the last word on its address and host.     *)
LastIn(m, D, p) ==
  /\ p \in D
  /\ \A q \in D : Precedes(p, q) => KeyOf(m, q) # KeyOf(m, p) \/ HostOf(m, q) # HostOf(m, p)

(* x is what message m, captured at t, said last with its Puts D; or one   *)
(* of these Puts is about its address and host.                            *)
FreshIn(x, m, t, D) ==
  \E p \in D : LastIn(m, D, p) /\ x.key = KeyOf(m, p) /\ x.host = HostOf(m, p)
               /\ x.expires = ExpiryOf(m, p, t)
OverruledIn(x, m, D) == \E p \in D : x.key = KeyOf(m, p) /\ x.host = HostOf(m, p)

(* The Puts of the message being parsed that have been made, and count.    *)
Done == Says(message) \ todo

(* Positions are pairs of numbers, so Puts are ordered.                    *)
LEMMA PutsOrdered ==
  ASSUME NEW m \in Message, NEW p \in PutPositions(m), NEW q \in PutPositions(m)
  PROVE  /\ p[1] \in Nat /\ p[2] \in Nat
         /\ Precedes(p, q) => ~ Precedes(q, p)
         /\ p = q \/ Precedes(p, q) \/ Precedes(q, p)
<1>1. m.answer \in Seq(Record) /\ DOMAIN m.answer \subseteq Nat
  BY ResponseAssumption
<1>2. ASSUME NEW a \in PutPositions(m)
      PROVE  a[1] \in Nat /\ a[2] \in Nat /\ a = <<a[1], a[2]>>
  <2> DEFINE ans == m.answer
             adr == {i \in DOMAIN ans : ans[i].type = "address"}
  <2>1. Cnames(ans) \subseteq Nat /\ adr \subseteq Nat
    BY <1>1 DEF Cnames
  <2>2. (\E i \in adr : a = <<i, 0>>) \/ a \in adr \X Cnames(ans)
    BY DEF PutPositions
  <2> HIDE DEF adr, ans
  <2>3. CASE \E i \in adr : a = <<i, 0>>
    BY <2>1, <2>3
  <2>4. CASE a \in adr \X Cnames(ans)
    <3>1. PICK i \in adr, j \in Cnames(ans) : a = <<i, j>>
      BY <2>4
    <3> QED  BY <2>1, <3>1
  <2> QED  BY <2>2, <2>3, <2>4
<1>3. /\ p[1] \in Nat /\ p[2] \in Nat /\ p = <<p[1], p[2]>>
      /\ q[1] \in Nat /\ q[2] \in Nat /\ q = <<q[1], q[2]>>
  BY <1>2
<1> QED  BY <1>3 DEF Precedes

(* What Put p, the next of the Puts td of m still to make, leaves in the   *)
(* cache: what m says of p's subject, and old facts on other subjects.     *)
LEMMA PutAdds ==
  ASSUME NEW m \in Message, NEW t \in Nat, NEW td \in SUBSET PutPositions(m),
         NEW p \in td, \A q \in td \ {p} : Precedes(p, q),
         \A a \in PutPositions(m) \ td, q \in td : Precedes(a, q),
         NEW es, GoodCache(es),
         NEW x \in Facts(Put(es, KeyOf(m, p), PutName(m.answer, p),
                             PutTTL(m.answer, p), t))
  PROVE  LET D  == Says(m) \ td
             D2 == Says(m) \ (td \ {p})
         IN  \/ FreshIn(x, m, t, D2)
             \/ /\ x \in Facts(es) /\ ~ FreshIn(x, m, t, D)
                /\ ~ OverruledIn(x, m, D) => ~ OverruledIn(x, m, D2)
<1> DEFINE D  == Says(m) \ td
           D2 == Says(m) \ (td \ {p})
           n  == PutName(m.answer, p)
<1>1. p \in PutPositions(m) /\ Says(m) \subseteq PutPositions(m)
  BY DEF Says
<1>2. CASE p \notin Says(m)
  <2>1. D2 = D
    BY <1>2
  <2>2. Put(es, KeyOf(m, p), n, PutTTL(m.answer, p), t) = es
    BY <1>1, <1>2 DEF Put, Says
  <2> QED  BY <2>1, <2>2
<1>3. CASE p \in Says(m)
  <2>1. D2 = D \cup {p} /\ p \notin D
    BY <1>3
  <2>2. \A q \in D : Precedes(q, p) /\ ~ Precedes(p, q)
    BY <1>1, PutsOrdered
  <2>3. ~ Precedes(p, p)
    BY <1>1, PutsOrdered
  <2>4. LastIn(m, D2, p)
    BY <2>1, <2>2, <2>3 DEF LastIn
  <2>5. /\ KeyOf(m, p) \in Key /\ n \in Name /\ PutTTL(m.answer, p) \in Nat
    BY <1>1, <1>3, PutArguments, CacheAssumption DEF Says
  <2> DEFINE rest == {y \in Facts(es) : y.key # KeyOf(m, p) \/ y.host # Fold[n]}
             f == [key |-> KeyOf(m, p), host |-> Fold[n],
                   expires |-> t + Lifetime(PutTTL(m.answer, p))]
  <2>6. x \in rest \/ x = f
    BY <2>5, PutLearns
  <2>7. CASE x = f
    BY <2>1, <2>4, <2>7 DEF FreshIn, HostOf, ExpiryOf
  <2>8. CASE x \in rest
    <3>1. x \in Facts(es) /\ (x.key # KeyOf(m, p) \/ x.host # HostOf(m, p))
      BY <2>8 DEF HostOf
    <3>2. ASSUME FreshIn(x, m, t, D)
          PROVE  FreshIn(x, m, t, D2)
      <4>1. PICK q \in D : /\ LastIn(m, D, q) /\ x.key = KeyOf(m, q)
                           /\ x.host = HostOf(m, q) /\ x.expires = ExpiryOf(m, q, t)
        BY <3>2 DEF FreshIn
      <4>2. LastIn(m, D2, q)
        BY <2>1, <3>1, <4>1 DEF LastIn
      <4> QED  BY <2>1, <4>1, <4>2 DEF FreshIn
    <3>3. ~ OverruledIn(x, m, D) => ~ OverruledIn(x, m, D2)
      BY <2>1, <3>1 DEF OverruledIn
    <3> QED  BY <3>1, <3>2, <3>3
  <2> QED  BY <2>6, <2>7, <2>8
<1> QED  BY <1>2, <1>3

(* A message makes finitely many Puts.                                     *)
LEMMA PutsFinite ==
  ASSUME NEW m \in Message
  PROVE  IsFiniteSet(PutPositions(m)) /\ IsFiniteSet(Says(m))
<1> DEFINE ans == m.answer
           adr == {i \in DOMAIN ans : ans[i].type = "address"}
           N == 0..Len(ans)
<1>1. ans \in Seq(Record)
  BY ResponseAssumption
<1>2. DOMAIN ans \subseteq N /\ 0 \in N /\ Len(ans) \in Nat
  BY <1>1
<1>3. Cnames(ans) \subseteq DOMAIN ans /\ adr \subseteq DOMAIN ans
  BY DEF Cnames
<1>4. IsFiniteSet(N)
  <2>1. PICK n \in Nat : n = Len(ans)
    BY <1>2
  <2>2. IsFiniteSet(0..n)
    BY FS_Interval
  <2> QED  BY <2>1, <2>2
<1> HIDE DEF N
<1>5. IsFiniteSet(N \X N)
  BY <1>4, FS_Product
<1>6. PutPositions(m) \subseteq N \X N
  <2> SUFFICES ASSUME NEW p \in PutPositions(m) PROVE p \in N \X N
    OBVIOUS
  <2>1. (\E i \in adr : p = <<i, 0>>) \/ p \in adr \X Cnames(ans)
    BY DEF PutPositions
  <2> HIDE DEF adr, ans
  <2>2. CASE \E i \in adr : p = <<i, 0>>
    BY <1>2, <1>3, <2>2
  <2>3. CASE p \in adr \X Cnames(ans)
    <3>1. PICK i \in adr, j \in Cnames(ans) : p = <<i, j>>
      BY <2>3
    <3> QED  BY <1>2, <1>3, <3>1
  <2> QED  BY <2>1, <2>2, <2>3
<1>7. Says(m) \subseteq PutPositions(m)
  BY DEF Says
<1> QED  BY <1>5, <1>6, <1>7, FS_Subset

(* Whatever some Put of D is about, one of D has the last word on it.      *)
LEMMA LastExists ==
  ASSUME NEW m \in Message, NEW D \in SUBSET PutPositions(m), NEW q \in D
  PROVE  \E p \in D : /\ LastIn(m, D, p)
                      /\ KeyOf(m, p) = KeyOf(m, q) /\ HostOf(m, p) = HostOf(m, q)
<1> DEFINE S == {a \in D : KeyOf(m, a) = KeyOf(m, q) /\ HostOf(m, a) = HostOf(m, q)}
           After(a) == {b \in S : Precedes(a, b)}
           Bad == {After(a) : a \in S}
<1>1. IsFiniteSet(S)
  BY PutsFinite, FS_Subset
<1>2. Bad \in SUBSET SUBSET S /\ Bad # {}
  OBVIOUS
<1>3. PICK a \in S : \A b \in S : After(b) \subseteq After(a) => After(b) = After(a)
  <2>1. PICK s \in Bad : \A t \in Bad : t \subseteq s => t = s
    <3> HIDE DEF S, Bad
    <3> QED  BY <1>1, <1>2, MinimalSubset
  <2>2. PICK a \in S : s = After(a)
    BY <2>1
  <2>3. \A b \in S : After(b) \in Bad
    OBVIOUS
  <2> HIDE DEF Bad, After
  <2> QED  BY <2>1, <2>2, <2>3
<1>4. After(a) = {}
  <2> SUFFICES ASSUME NEW b \in After(a) PROVE FALSE
    OBVIOUS
  <2>1. b \in S /\ Precedes(a, b) /\ ~ Precedes(b, b)
    BY PutsOrdered
  <2>2. After(b) \subseteq After(a)
    <3> SUFFICES ASSUME NEW c \in S, Precedes(b, c) PROVE Precedes(a, c)
      OBVIOUS
    <3>1. /\ a[1] \in Nat /\ a[2] \in Nat /\ b[1] \in Nat /\ b[2] \in Nat
          /\ c[1] \in Nat /\ c[2] \in Nat
      BY PutsOrdered
    <3> QED  BY <2>1, <3>1 DEF Precedes
  <2> QED  BY <1>3, <2>1, <2>2
<1>5. LastIn(m, D, a)
  BY <1>4 DEF LastIn
<1> QED  BY <1>5

(* The fact of a name is among the facts.                                  *)
LEMMA NameHasFact ==
  ASSUME NEW es, NEW i \in DOMAIN es, NEW j \in DOMAIN es[i].names
  PROVE  \E x \in Facts(es) : x.key = es[i].key /\ x.host = Fold[es[i].names[j].value]
<1>1. FactOf(es[i].key, es[i].names[j]) \in Facts(es)
  BY FactsGather DEF NameFacts
<1> QED  BY <1>1, FactFields

(* A cache that knows addresses of K only, and of k hosts of H only, has   *)
(* room for host h of H at k, if K and H fit its limits.                   *)
LEMMA RoomLeft ==
  ASSUME NEW es, GoodCache(es), NEW K, NEW k \in K, NEW H, NEW h \in H,
         IsFiniteSet(K), Cardinality(K) <= Capacity,
         IsFiniteSet(H), Cardinality(H) <= MaxNames,
         \A x \in Facts(es) : x.key \in K /\ (x.key = k => x.host \in H)
  PROVE  ~ EntriesFull(es, k) /\ ~ NamesFull(es, k, h)
<1>1. /\ Capacity \in Nat /\ MaxNames \in Nat
      /\ Cardinality(K) \in Nat /\ Cardinality(H) \in Nat
  BY FS_CardinalityType, CacheAssumption
<1>2. /\ es \in Seq(Entry)
      /\ \A i, j \in DOMAIN es : es[i].key = es[j].key => i = j
      /\ \A i \in DOMAIN es : GoodNames(es[i].names) /\ es[i].names # << >>
  BY DEF GoodCache
<1>3. ASSUME EntriesFull(es, k)
      PROVE  FALSE
  <2> DEFINE g == [i \in 1..Capacity |-> es[i].key]
  <2>1. DOMAIN es = 1..Capacity
    BY <1>2, <1>3 DEF EntriesFull
  <2>2. \A i \in 1..Capacity : es[i].key \in K
    <3> SUFFICES ASSUME NEW i \in DOMAIN es PROVE es[i].key \in K
      BY <2>1
    <3>1. 1 \in DOMAIN es[i].names
      BY <1>2 DEF GoodNames
    <3> QED  BY <3>1, NameHasFact
  <2>3. /\ g \in [1..Capacity -> K]
        /\ \A i, j \in 1..Capacity : g[i] = g[j] => i = j
        /\ \A i \in 1..Capacity : g[i] # k
    BY <1>2, <1>3, <2>1, <2>2 DEF EntriesFull
  <2> HIDE DEF g
  <2>4. Capacity < Cardinality(K)
    BY <1>1, <2>3, RoomForOne
  <2> QED  BY <1>1, <2>4
<1>4. ASSUME NamesFull(es, k, h)
      PROVE  FALSE
  <2>1. PICK i \in DOMAIN es : es[i].key = k /\ Crowded(es[i].names, h)
    BY <1>4 DEF NamesFull
  <2>2. PICK ns : ns = es[i].names
    OBVIOUS
  <2> DEFINE g == [j \in 1..MaxNames |-> Fold[ns[j].value]]
  <2>3. /\ DOMAIN ns = 1..MaxNames
        /\ \A j, l \in DOMAIN ns : Fold[ns[j].value] = Fold[ns[l].value] => j = l
        /\ \A j \in DOMAIN ns : Fold[ns[j].value] # h
    BY <1>2, <2>1, <2>2 DEF Crowded, GoodNames
  <2>4. \A j \in DOMAIN ns : Fold[ns[j].value] \in H
    BY <2>1, <2>2, NameHasFact
  <2>5. /\ g \in [1..MaxNames -> H]
        /\ \A j, l \in 1..MaxNames : g[j] = g[l] => j = l
        /\ \A j \in 1..MaxNames : g[j] # h
    BY <2>3, <2>4
  <2> HIDE DEF g
  <2>6. MaxNames < Cardinality(H)
    BY <1>1, <2>5, RoomForOne
  <2> QED  BY <1>1, <2>6
<1> QED  BY <1>3, <1>4

(* With room, a Put loses nothing on other subjects.                       *)
LEMMA PutLosesNothing ==
  ASSUME NEW m \in Message, NEW t \in Nat, NEW p \in PutPositions(m),
         NEW es, GoodCache(es),
         p \in Says(m) => /\ ~ EntriesFull(es, KeyOf(m, p))
                          /\ ~ NamesFull(es, KeyOf(m, p), HostOf(m, p))
  PROVE  LET es2 == Put(es, KeyOf(m, p), PutName(m.answer, p), PutTTL(m.answer, p), t)
         IN  /\ \A x \in Facts(es) :
                  (p \in Says(m) => x.key # KeyOf(m, p) \/ x.host # HostOf(m, p))
                  => x \in Facts(es2)
             /\ p \in Says(m) =>
                  \E x \in Facts(es2) : /\ x.key = KeyOf(m, p) /\ x.host = HostOf(m, p)
                                        /\ x.expires = ExpiryOf(m, p, t)
<1> DEFINE n == PutName(m.answer, p)
           es2 == Put(es, KeyOf(m, p), n, PutTTL(m.answer, p), t)
<1>1. CASE p \notin Says(m)
  <2>1. es2 = es
    BY <1>1 DEF Put, Says
  <2> QED  BY <1>1, <2>1
<1>2. CASE p \in Says(m)
  <2>1. /\ KeyOf(m, p) \in Key /\ n \in Name /\ PutTTL(m.answer, p) \in Nat
    BY <1>2, PutArguments, CacheAssumption DEF Says
  <2> DEFINE rest == {y \in Facts(es) : y.key # KeyOf(m, p) \/ y.host # Fold[n]}
             f == [key |-> KeyOf(m, p), host |-> Fold[n],
                   expires |-> t + Lifetime(PutTTL(m.answer, p))]
  <2>2. HostOf(m, p) = Fold[n]
    BY DEF HostOf
  <2>3. Facts(es2) = rest \cup {f}
    BY <1>2, <2>1, <2>2, PutLearns
  <2>4. /\ f.key = KeyOf(m, p) /\ f.host = HostOf(m, p) /\ f.expires = ExpiryOf(m, p, t)
    BY <2>2 DEF ExpiryOf
  <2>5. \A x \in Facts(es) : x.key # KeyOf(m, p) \/ x.host # HostOf(m, p) => x \in rest
    BY <2>2
  <2> HIDE DEF f, rest
  <2> QED  BY <1>2, <2>3, <2>4, <2>5
<1> QED  BY <1>1, <1>2

-----------------------------------------------------------------------------
(* What the messages said, and what the cache remembers of it.             *)

(* The fact that message m, captured at t, states with its Put p.          *)
Said(m, p, t) == [key |-> KeyOf(m, p), host |-> HostOf(m, p), expires |-> ExpiryOf(m, p, t)]

(* The CNAME records kept are those with fewer than MaxCnames before them. *)
LEMMA CnamesKept ==
  ASSUME NEW ans \in Seq(Record), NEW j \in DOMAIN ans
  PROVE  j \in Cnames(ans) <=>
           /\ ans[j].type = "cname" /\ LongName \notin {ans[j].owner, ans[j].target}
           /\ Cardinality({i \in 1..(j - 1) :
                /\ ans[i].type = "cname"
                /\ LongName \notin {ans[i].owner, ans[i].target}}) < MaxCnames
<1> DEFINE U == {i \in DOMAIN ans : /\ ans[i].type = "cname"
                                    /\ ans[i].owner # LongName
                                    /\ ans[i].target # LongName}
           B == {i \in 1..(j - 1) : /\ ans[i].type = "cname"
                                    /\ LongName \notin {ans[i].owner, ans[i].target}}
           L == {i \in U : i <= j}
<1>1. Len(ans) \in Nat /\ DOMAIN ans = 1..Len(ans) /\ MaxCnames \in Nat
  BY ResponseAssumption
<1>2. j \in Nat /\ j \in 1..Len(ans)
  BY <1>1
<1>3. IsFiniteSet(B)
  <2>1. IsFiniteSet(1..(j - 1))
    BY <1>2, FS_Interval
  <2> QED  BY <2>1, FS_Subset
<1>4. ASSUME j \in U
      PROVE  Cardinality(L) = Cardinality(B) + 1
  <2>1. L = B \cup {j} /\ j \notin B
    BY <1>1, <1>2, <1>4
  <2> HIDE DEF L, B, U
  <2> QED  BY <1>3, <2>1, FS_AddElement
<1>5. j \in Cnames(ans) <=> j \in U /\ Cardinality(L) <= MaxCnames
  BY DEF Cnames, Rank
<1>6. j \in U <=> ans[j].type = "cname" /\ LongName \notin {ans[j].owner, ans[j].target}
  OBVIOUS
<1>7. Cardinality(B) \in Nat
  BY <1>3, FS_CardinalityType
<1> HIDE DEF L, B, U
<1>8. j \in Cnames(ans) <=> j \in U /\ Cardinality(B) < MaxCnames
  BY <1>1, <1>4, <1>5, <1>7
<1> QED  BY <1>6, <1>8 DEF B

(* The parser Puts what the message tells: the same records, in the same   *)
(* order, with the same subjects and lifetimes (dns.go:24-65).             *)
LEMMA TellsIsSays ==
  ASSUME NEW m \in Message
  PROVE  /\ Tells(m) = Says(m)
         /\ \A p \in Says(m) : /\ Subject(m, p).key = KeyOf(m, p)
                               /\ Subject(m, p).host = HostOf(m, p)
                               /\ Lasts(m, p) = Lifetime(PutTTL(m.answer, p))
         /\ \A p, q \in Says(m) : Overrides(q, p) <=> Precedes(p, q)
<1> DEFINE ans == m.answer
           adr == {i \in DOMAIN ans : ans[i].type = "address"}
<1>1. ans \in Seq(Record) /\ Len(ans) \in Nat /\ DOMAIN ans = 1..Len(ans)
  BY ResponseAssumption
<1>2. ASSUME NEW p
      PROVE  p \in Says(m) <=>
               /\ m.wellFormed /\ m.response
               /\ \E i \in adr, j \in 0..Len(ans) :
                    /\ p = <<i, j>>
                    /\ ans[i].key \in Key
                    /\ j = 0 => ans[i].owner \in Name
                    /\ j > 0 => /\ j \in Cnames(ans) /\ ans[j].owner \in Name
                                /\ Fold[ans[j].target] = Fold[ans[i].owner]
  <2>1. Cnames(ans) \subseteq DOMAIN ans
    BY DEF Cnames
  <2>2. p \in PutPositions(m) <=>
          /\ m.wellFormed /\ m.response
          /\ \/ \E i \in adr : p = <<i, 0>>
             \/ \E i \in adr, j \in Cnames(ans) :
                  p = <<i, j>> /\ Fold[ans[j].target] = Fold[ans[i].owner]
    BY DEF PutPositions
  <2>3. \A i, j : p = <<i, j>> =>
          /\ KeyOf(m, p) = ans[i].key
          /\ j = 0 => PutName(ans, p) = ans[i].owner
          /\ j # 0 => PutName(ans, p) = ans[j].owner
    BY DEF KeyOf, PutName
  <2>4. \A j \in DOMAIN ans : j # 0 /\ j > 0 /\ j \in 0..Len(ans)
    BY <1>1
  <2>5. \A j \in 0..Len(ans) : j = 0 \/ j > 0
    BY <1>1
  <2>6. p \in Says(m) <=> p \in PutPositions(m) /\ KeyOf(m, p) \in Key
                           /\ PutName(ans, p) \in Name
    BY DEF Says
  <2>7. 0 \in 0..Len(ans) /\ ~ (0 > 0)
    BY <1>1
  <2> HIDE DEF ans, adr
  <2>8. ASSUME p \in Says(m)
        PROVE  /\ m.wellFormed /\ m.response
               /\ \E i \in adr, j \in 0..Len(ans) :
                    /\ p = <<i, j>>
                    /\ ans[i].key \in Key
                    /\ j = 0 => ans[i].owner \in Name
                    /\ j > 0 => /\ j \in Cnames(ans) /\ ans[j].owner \in Name
                                /\ Fold[ans[j].target] = Fold[ans[i].owner]
    <3>1. CASE \E i \in adr : p = <<i, 0>>
      BY <2>2, <2>3, <2>6, <2>7, <2>8, <3>1
    <3>2. CASE \E i \in adr, j \in Cnames(ans) :
                 p = <<i, j>> /\ Fold[ans[j].target] = Fold[ans[i].owner]
      <4>1. PICK i \in adr, j \in Cnames(ans) :
              p = <<i, j>> /\ Fold[ans[j].target] = Fold[ans[i].owner]
        BY <3>2
      <4>2. j # 0 /\ j > 0 /\ j \in 0..Len(ans)
        BY <2>1, <2>4
      <4>3. ans[i].key \in Key /\ ans[j].owner \in Name
        BY <2>3, <2>6, <2>8, <4>1, <4>2
      <4> QED  BY <2>2, <2>6, <2>8, <4>1, <4>2, <4>3
    <3> QED  BY <2>2, <2>6, <2>8, <3>1, <3>2
  <2>9. ASSUME m.wellFormed, m.response, NEW i \in adr, NEW j \in 0..Len(ans),
               p = <<i, j>>, ans[i].key \in Key, j = 0 => ans[i].owner \in Name,
               j > 0 => /\ j \in Cnames(ans) /\ ans[j].owner \in Name
                        /\ Fold[ans[j].target] = Fold[ans[i].owner]
        PROVE  p \in Says(m)
    <3>1. p \in PutPositions(m)
      BY <2>2, <2>5, <2>9
    <3>2. KeyOf(m, p) \in Key /\ PutName(ans, p) \in Name
      BY <2>3, <2>5, <2>9
    <3> QED  BY <2>6, <3>1, <3>2
  <2> QED  BY <2>8, <2>9
<1>3. ASSUME NEW p
      PROVE  p \in Tells(m) <=> p \in Says(m)
  <2>1. p \in Tells(m) <=>
          /\ m.wellFormed /\ m.response
          /\ \E i \in adr, j \in 0..Len(ans) :
               /\ p = <<i, j>>
               /\ ans[i].key \in Key
               /\ j = 0 => ans[i].owner \in Name
               /\ j > 0 => /\ ans[j].type = "cname"
                           /\ LongName \notin {ans[j].owner, ans[j].target}
                           /\ ans[j].owner \in Name
                           /\ Fold[ans[j].target] = Fold[ans[i].owner]
                           /\ Cardinality({l \in 1..(j - 1) :
                                /\ ans[l].type = "cname"
                                /\ LongName \notin {ans[l].owner, ans[l].target}}) < MaxCnames
    <3> DEFINE short(l) == /\ ans[l].type = "cname"
                           /\ LongName \notin {ans[l].owner, ans[l].target}
               C(i, j) == /\ m.wellFormed /\ m.response
                          /\ ans[i].type = "address" /\ ans[i].key \in Key
                          /\ j = 0 => ans[i].owner \in Name
                          /\ j > 0 => /\ short(j) /\ ans[j].owner \in Name
                                      /\ Fold[ans[j].target] = Fold[ans[i].owner]
                                      /\ Cardinality({l \in 1..(j - 1) : short(l)}) < MaxCnames
    <3>1. Tells(m) = {q \in (DOMAIN ans) \X (0..Len(ans)) : C(q[1], q[2])}
      BY DEF Tells
    <3>2. p \in Tells(m) <=> \E i \in DOMAIN ans, j \in 0..Len(ans) : p = <<i, j>> /\ C(i, j)
      <4> HIDE DEF C
      <4> QED  BY <3>1
    <3> HIDE DEF short
    <3>3. \A i, j : i \in DOMAIN ans /\ C(i, j) <=>
            /\ m.wellFormed /\ m.response /\ i \in adr /\ ans[i].key \in Key
            /\ j = 0 => ans[i].owner \in Name
            /\ j > 0 => /\ short(j) /\ ans[j].owner \in Name
                        /\ Fold[ans[j].target] = Fold[ans[i].owner]
                        /\ Cardinality({l \in 1..(j - 1) : short(l)}) < MaxCnames
      OBVIOUS
    <3> HIDE DEF C, adr
    <3>4. p \in Tells(m) <=>
            /\ m.wellFormed /\ m.response
            /\ \E i \in adr, j \in 0..Len(ans) :
                 /\ p = <<i, j>>
                 /\ ans[i].key \in Key
                 /\ j = 0 => ans[i].owner \in Name
                 /\ j > 0 => /\ short(j) /\ ans[j].owner \in Name
                             /\ Fold[ans[j].target] = Fold[ans[i].owner]
                             /\ Cardinality({l \in 1..(j - 1) : short(l)}) < MaxCnames
      <4>1. adr \subseteq DOMAIN ans
        BY DEF adr
      <4> HIDE DEF ans
      <4> QED  BY <3>2, <3>3, <4>1, Zenon
    <3> QED  BY <3>4 DEF short
  <2>2. \A j \in 0..Len(ans) : j > 0 => j \in DOMAIN ans
    BY <1>1
  <2>3. \A j \in 0..Len(ans) : j > 0 =>
          (j \in Cnames(ans) <=>
             /\ ans[j].type = "cname" /\ LongName \notin {ans[j].owner, ans[j].target}
             /\ Cardinality({l \in 1..(j - 1) :
                  /\ ans[l].type = "cname"
                  /\ LongName \notin {ans[l].owner, ans[l].target}}) < MaxCnames)
    BY <1>1, <2>2, CnamesKept
  <2> HIDE DEF ans, adr
  <2> QED  BY <1>2, <2>1, <2>3
<1>4. ASSUME NEW p \in Says(m)
      PROVE  /\ Subject(m, p).key = KeyOf(m, p)
             /\ Subject(m, p).host = HostOf(m, p)
             /\ Lasts(m, p) = Lifetime(PutTTL(m.answer, p))
  <2>1. Subject(m, p).key = KeyOf(m, p) /\ Subject(m, p).host = HostOf(m, p)
    BY DEF Subject, KeyOf, HostOf, PutName
  <2>2. PICK i \in adr, j \in 0..Len(ans) : p = <<i, j>> /\ (j > 0 => j \in Cnames(ans))
    BY <1>2
  <2>3. ans[i].ttl \in Nat /\ (j > 0 => ans[j].ttl \in Nat)
    <3>1. ans[i] \in Record /\ (j > 0 => ans[j] \in Record /\ ans[j].type = "cname")
      BY <1>1, <2>2 DEF Cnames
    <3> QED  BY <2>2, <3>1, CacheAssumption DEF Record
  <2>4. CASE j = 0
    <3>1. Lasts(m, p) = IF 0 \in {ans[i].ttl} THEN Grace ELSE Min({ans[i].ttl})
      BY <2>2, <2>4 DEF Lasts
    <3>2. Min({ans[i].ttl}) = ans[i].ttl
      <4>1. PICK a \in Nat : a = ans[i].ttl
        BY <2>3
      <4>2. Min({a}) \in {a}
        BY MinOfNats
      <4> QED  BY <4>1, <4>2
    <3>3. PutTTL(ans, p) = ans[i].ttl
      BY <2>2, <2>4 DEF PutTTL
    <3> QED  BY <2>1, <3>1, <3>2, <3>3 DEF Lifetime
  <2>5. CASE j > 0
    <3>1. Lasts(m, p) = IF 0 \in {ans[i].ttl, ans[j].ttl} THEN Grace
                        ELSE Min({ans[i].ttl, ans[j].ttl})
      <4>1. {ans[i].ttl} \cup {ans[j].ttl} = {ans[i].ttl, ans[j].ttl}
        OBVIOUS
      <4>2. p[1] = i /\ p[2] = j /\ j # 0
        BY <2>2, <2>5
      <4>3. Lasts(m, p) = IF 0 \in {ans[i].ttl} \cup {ans[j].ttl} THEN Grace
                          ELSE Min({ans[i].ttl} \cup {ans[j].ttl})
        BY <4>2 DEF Lasts
      <4> QED  BY <4>1, <4>3
    <3>2. PutTTL(ans, p) = IF ans[j].ttl < ans[i].ttl THEN ans[j].ttl ELSE ans[i].ttl
      BY <2>2, <2>5 DEF PutTTL
    <3>3. PICK a \in Nat, b \in Nat : a = ans[i].ttl /\ b = ans[j].ttl
      BY <2>3, <2>5
    <3>4. Min({a, b}) = IF b < a THEN b ELSE a
      <4>1. Min({a, b}) \in {a, b} /\ Min({a, b}) <= a /\ Min({a, b}) <= b
        BY MinOfNats
      <4> QED  BY <4>1
    <3> HIDE DEF ans
    <3> QED  BY <2>1, <3>1, <3>2, <3>3, <3>4 DEF Lifetime, ans
  <2> QED  BY <2>1, <2>2, <2>4, <2>5
<1>5. ASSUME NEW p \in Says(m), NEW q \in Says(m)
      PROVE  Overrides(q, p) <=> Precedes(p, q)
  <2>1. p[1] \in Nat /\ p[2] \in Nat /\ q[1] \in Nat /\ q[2] \in Nat
    BY PutsOrdered DEF Says
  <2> QED  BY <2>1 DEF Overrides, Precedes
<1> QED  BY <1>3, <1>4, <1>5

(* Hence the last word of a message is what its Puts say last.             *)
LEMMA LastWordIsSaid ==
  ASSUME NEW m \in Message, NEW t
  PROVE  LastWord(m, t) = {Said(m, p, t) : p \in {p \in Says(m) : LastIn(m, Says(m), p)}}
<1> DEFINE T == {p \in Tells(m) : \A q \in Tells(m) :
                                     Overrides(q, p) => Subject(m, q) # Subject(m, p)}
           S == {p \in Says(m) : LastIn(m, Says(m), p)}
           f(p) == [key |-> Subject(m, p).key, host |-> Subject(m, p).host,
                    expires |-> t + Lasts(m, p)]
<1>1. \A p, q \in Says(m) :
        Subject(m, q) # Subject(m, p) <=> KeyOf(m, q) # KeyOf(m, p) \/ HostOf(m, q) # HostOf(m, p)
  BY DEF Subject, KeyOf, HostOf, PutName
<1>2. T = S
  BY <1>1, TellsIsSays DEF LastIn
<1>3. \A p \in S : f(p) = Said(m, p, t)
  BY TellsIsSays DEF Said, ExpiryOf
<1>4. LastWord(m, t) = {f(p) : p \in T}
  BY DEF LastWord
<1> HIDE DEF S, T, f
<1>5. LastWord(m, t) = {Said(m, p, t) : p \in S}
  BY <1>2, <1>3, <1>4
<1> QED  BY <1>5 DEF S

(* A fact is known by its address, host and expiry.                        *)
Shaped(x) == x = [key |-> x.key, host |-> x.host, expires |-> x.expires]

(* Facts of the cache are of that shape.                                   *)
LEMMA FactsShaped ==
  ASSUME NEW es, NEW x \in Facts(es)
  PROVE  Shaped(x)
BY DEF Facts, Shaped

(* All the subjects S fit the cache.                                       *)
KeysOf(S) == {x.key : x \in S}
HostsAt(S, k) == {x.host : x \in {x \in S : x.key = k}}
RoomIn(S) ==
  /\ Cardinality(KeysOf(S)) <= Capacity
  /\ \A k \in Key : Cardinality(HostsAt(S, k)) <= MaxNames

(* Finitely many subjects have finitely many addresses and hosts.          *)
LEMMA SubjectsFinite ==
  ASSUME NEW S, IsFiniteSet(S)
  PROVE  IsFiniteSet(KeysOf(S)) /\ \A k : IsFiniteSet(HostsAt(S, k))
<1>1. IsFiniteSet(KeysOf(S))
  <2> DEFINE g == [x \in S |-> x.key]
  <2>1. IsFiniteSet({g[x] : x \in S})
    <3> HIDE DEF g
    <3> QED  BY ImageFinite
  <2> QED  BY <2>1 DEF KeysOf
<1>2. ASSUME NEW k
      PROVE  IsFiniteSet(HostsAt(S, k))
  <2> DEFINE F == {x \in S : x.key = k}
             g == [x \in F |-> x.host]
  <2>1. IsFiniteSet(F)
    BY FS_Subset
  <2>2. IsFiniteSet({g[x] : x \in F})
    <3> HIDE DEF g, F
    <3> QED  BY <2>1, ImageFinite
  <2>3. {g[x] : x \in F} = {x.host : x \in F}
    OBVIOUS
  <2> QED  BY <2>2, <2>3 DEF HostsAt
<1> QED  BY <1>1, <1>2

(* What fits with more subjects fits without them.                         *)
LEMMA RoomBefore ==
  ASSUME NEW S2, IsFiniteSet(S2), NEW S \in SUBSET S2, RoomIn(S2)
  PROVE  RoomIn(S)
<1>1. /\ KeysOf(S) \subseteq KeysOf(S2)
      /\ \A k : HostsAt(S, k) \subseteq HostsAt(S2, k)
  BY DEF KeysOf, HostsAt
<1>2. /\ IsFiniteSet(KeysOf(S2)) /\ \A k : IsFiniteSet(HostsAt(S2, k))
      /\ IsFiniteSet(KeysOf(S)) /\ \A k : IsFiniteSet(HostsAt(S, k))
  BY SubjectsFinite, FS_Subset
<1>3. Capacity \in Nat /\ MaxNames \in Nat
  BY CacheAssumption
<1>4. Cardinality(KeysOf(S)) <= Capacity
  <2>1. /\ Cardinality(KeysOf(S)) <= Cardinality(KeysOf(S2))
        /\ Cardinality(KeysOf(S)) \in Nat /\ Cardinality(KeysOf(S2)) \in Nat
    BY <1>1, <1>2, FS_Subset, FS_CardinalityType
  <2> QED  BY <1>3, <2>1 DEF RoomIn
<1>5. ASSUME NEW k \in Key
      PROVE  Cardinality(HostsAt(S, k)) <= MaxNames
  <2>1. PICK H, H2 : H = HostsAt(S, k) /\ H2 = HostsAt(S2, k)
    OBVIOUS
  <2>2. H \subseteq H2 /\ IsFiniteSet(H2) /\ IsFiniteSet(H) /\ Cardinality(H2) <= MaxNames
    BY <1>1, <1>2, <2>1 DEF RoomIn
  <2>3. /\ Cardinality(H) <= Cardinality(H2)
        /\ Cardinality(H) \in Nat /\ Cardinality(H2) \in Nat
    BY <2>2, FS_Subset, FS_CardinalityType
  <2> QED  BY <1>3, <2>1, <2>2, <2>3
<1> QED  BY <1>4, <1>5 DEF RoomIn

(* B has one fact at most on each of the subjects S.                       *)
Consistent(B, S) ==
  /\ IsFiniteSet(S)
  /\ \A x \in B : Shaped(x) /\ [key |-> x.key, host |-> x.host] \in S
  /\ \A x, y \in B : x.key = y.key /\ x.host = y.host => x = y

(* What message m says last is believed.                                   *)
Honours(B, m, t) ==
  \A p \in Says(m) : LastIn(m, Says(m), p) => Said(m, p, t) \in B

(* With the Puts td of m still to be made, the cache knows what m has said *)
(* so far, and besides only what is believed or m has yet to overrule.     *)
Sourced(es, B, m, t, td) ==
  \A x \in Facts(es) :
    \/ FreshIn(x, m, t, Says(m) \ td)
    \/ /\ ~ OverruledIn(x, m, Says(m) \ td)
       /\ x \in B \/ OverruledIn(x, m, Says(m))

(* It knows all of that.                                                   *)
AllKnown(es, B, m, t, td) ==
  /\ \A y \in B : ~ OverruledIn(y, m, Says(m)) => y \in Facts(es)
  /\ \A q \in Says(m) \ td : LastIn(m, Says(m) \ td, q) => Said(m, q, t) \in Facts(es)

GoodMemory(es, m, t, td, B, S) ==
  /\ td = {} => m = EmptyMessage
  /\ \A p \in PutPositions(m) \ td, q \in td : Precedes(p, q)
  /\ Consistent(B, S)
  /\ Honours(B, m, t)
  /\ Sourced(es, B, m, t, td)
  /\ RoomIn(S) => AllKnown(es, B, m, t, td)

(* Between two messages it knows what is believed, if there is room.       *)
LEMMA MemoryAtRest ==
  ASSUME NEW es, NEW t, NEW B, NEW S
  PROVE  GoodMemory(es, EmptyMessage, t, {}, B, S) <=>
           /\ Consistent(B, S)
           /\ Facts(es) \subseteq B
           /\ RoomIn(S) => B \subseteq Facts(es)
<1>1. PutPositions(EmptyMessage) = {} /\ Says(EmptyMessage) = {}
  BY DEF PutPositions, EmptyMessage, Says
<1>2. \A x, D : D \subseteq Says(EmptyMessage) =>
         ~ FreshIn(x, EmptyMessage, t, D) /\ ~ OverruledIn(x, EmptyMessage, D)
  BY <1>1 DEF FreshIn, OverruledIn
<1>3. Honours(B, EmptyMessage, t)
  BY <1>1 DEF Honours
<1>4. Sourced(es, B, EmptyMessage, t, {}) <=> Facts(es) \subseteq B
  BY <1>1, <1>2 DEF Sourced
<1>5. AllKnown(es, B, EmptyMessage, t, {}) <=> B \subseteq Facts(es)
  BY <1>1, <1>2 DEF AllKnown
<1> QED  BY <1>1, <1>3, <1>4, <1>5 DEF GoodMemory

(* Hearing message m at rest: it is believed on all its subjects at once,  *)
(* and all its Puts are to come.                                           *)
LEMMA HearKeeps ==
  ASSUME NEW m \in Message, NEW t \in Nat, NEW es, NEW B, NEW S, Consistent(B, S),
         Facts(es) \subseteq B, RoomIn(S) => B \subseteq Facts(es)
  PROVE  LET new == LastWord(m, t)
             B2  == new \cup {x \in B : \A y \in new : y.key # x.key \/ y.host # x.host}
             S2  == S \cup {[key |-> y.key, host |-> y.host] : y \in new}
             td  == PutPositions(m)
         IN  GoodMemory(es, IF td = {} THEN EmptyMessage ELSE m,
                        IF td = {} THEN 0 ELSE t, td, B2, S2)
<1> DEFINE new == LastWord(m, t)
           B2  == new \cup {x \in B : \A y \in new : y.key # x.key \/ y.host # x.host}
           S2  == S \cup {[key |-> y.key, host |-> y.host] : y \in new}
           td  == PutPositions(m)
           L   == {p \in Says(m) : LastIn(m, Says(m), p)}
<1>1. new = {Said(m, p, t) : p \in L}
  BY LastWordIsSaid
<1>2. \A p \in L : /\ Said(m, p, t).key = KeyOf(m, p) /\ Said(m, p, t).host = HostOf(m, p)
                   /\ Shaped(Said(m, p, t)) /\ Said(m, p, t) \in new
  BY <1>1 DEF Said, Shaped
<1>3. ASSUME NEW x
      PROVE  (\A y \in new : y.key # x.key \/ y.host # x.host) <=> ~ OverruledIn(x, m, Says(m))
  <2>1. ASSUME NEW y \in new, y.key = x.key, y.host = x.host
        PROVE  OverruledIn(x, m, Says(m))
    BY <1>1, <1>2, <2>1 DEF OverruledIn
  <2>2. ASSUME NEW q \in Says(m), x.key = KeyOf(m, q), x.host = HostOf(m, q)
        PROVE  \E y \in new : y.key = x.key /\ y.host = x.host
    <3>1. Says(m) \in SUBSET PutPositions(m)
      BY DEF Says
    <3>2. PICK p \in Says(m) : /\ LastIn(m, Says(m), p)
                               /\ KeyOf(m, p) = KeyOf(m, q) /\ HostOf(m, p) = HostOf(m, q)
      BY <3>1, LastExists
    <3> QED  BY <1>2, <2>2, <3>2
  <2> QED  BY <2>1, <2>2 DEF OverruledIn
<1>4. IsFiniteSet(new)
  <2> DEFINE g == [p \in L |-> Said(m, p, t)]
  <2>1. IsFiniteSet(L)
    BY PutsFinite, FS_Subset
  <2>2. IsFiniteSet({g[p] : p \in L})
    <3> HIDE DEF g, L
    <3> QED  BY <2>1, ImageFinite
  <2>3. {g[p] : p \in L} = {Said(m, p, t) : p \in L}
    OBVIOUS
  <2> QED  BY <1>1, <2>2, <2>3
<1> HIDE DEF new
<1>5. IsFiniteSet(S2)
  <2> DEFINE g == [y \in new |-> [key |-> y.key, host |-> y.host]]
  <2>1. IsFiniteSet({g[y] : y \in new})
    <3> HIDE DEF g
    <3> QED  BY <1>4, ImageFinite
  <2>2. {g[y] : y \in new} = {[key |-> y.key, host |-> y.host] : y \in new}
    OBVIOUS
  <2>3. IsFiniteSet({[key |-> y.key, host |-> y.host] : y \in new})
    BY <2>1, <2>2
  <2> QED  BY <2>3, FS_Union DEF Consistent
<1>6. Consistent(B2, S2)
  <2>1. \A x \in B2 : Shaped(x) /\ [key |-> x.key, host |-> x.host] \in S2
    BY <1>1, <1>2 DEF Consistent
  <2>2. ASSUME NEW x \in new, NEW y \in new, x.key = y.key, x.host = y.host
        PROVE  x = y
    <3>1. PICK p \in L, q \in L : x = Said(m, p, t) /\ y = Said(m, q, t)
      BY <1>1
    <3>2. KeyOf(m, p) = KeyOf(m, q) /\ HostOf(m, p) = HostOf(m, q)
      BY <1>2, <2>2, <3>1
    <3>3. p \in PutPositions(m) /\ q \in PutPositions(m)
      BY DEF Says
    <3>4. p = q
      BY <3>2, <3>3, PutsOrdered DEF LastIn
    <3> QED  BY <3>1, <3>4
  <2>3. \A x, y \in B2 : x.key = y.key /\ x.host = y.host => x = y
    BY <2>2 DEF Consistent
  <2> QED  BY <1>5, <2>1, <2>3 DEF Consistent
<1>7. RoomIn(S2) => RoomIn(S)
  BY <1>5, RoomBefore
<1>8. CASE td = {}
  <2>1. Says(m) = {}
    BY <1>8 DEF Says
  <2>2. new = {}
    BY <1>1, <2>1
  <2>3. B2 = B
    BY <2>2
  <2>4. GoodMemory(es, EmptyMessage, 0, {}, B2, S2)
    BY <1>6, <1>7, <2>3, MemoryAtRest
  <2> QED  BY <1>8, <2>4 DEF new
<1>9. CASE td # {}
  <2>1. Says(m) \ td = {} /\ PutPositions(m) \ td = {}
    BY DEF Says
  <2>2. Honours(B2, m, t)
    BY <1>2 DEF Honours
  <2>3. Sourced(es, B2, m, t, td)
    <3> SUFFICES ASSUME NEW x \in Facts(es)
                 PROVE  /\ ~ OverruledIn(x, m, Says(m) \ td)
                        /\ x \in B2 \/ OverruledIn(x, m, Says(m))
      BY DEF Sourced
    <3> QED  BY <1>3, <2>1 DEF OverruledIn
  <2>4. RoomIn(S2) => AllKnown(es, B2, m, t, td)
    <3> SUFFICES ASSUME RoomIn(S2), NEW y \in B2, ~ OverruledIn(y, m, Says(m))
                 PROVE  y \in Facts(es)
      BY <2>1 DEF AllKnown
    <3> QED  BY <1>3, <1>7
  <2>5. GoodMemory(es, m, t, td, B2, S2)
    BY <1>6, <1>9, <2>1, <2>2, <2>3, <2>4 DEF GoodMemory
  <2> QED  BY <1>9, <2>5 DEF new
<1> QED  BY <1>8, <1>9

(* A subject is one of the addresses and one of the hosts of the address.  *)
LEMMA SubjectCounts ==
  ASSUME NEW S, NEW k, NEW h, [key |-> k, host |-> h] \in S
  PROVE  k \in KeysOf(S) /\ h \in HostsAt(S, k)
<1>1. PICK x \in S : x = [key |-> k, host |-> h]
  OBVIOUS
<1>2. x.key = k /\ x.host = h
  BY <1>1
<1> QED  BY <1>2 DEF KeysOf, HostsAt

(* The next Put p of message m finds room, if all subjects have it.        *)
LEMMA NextHasRoom ==
  ASSUME NEW m \in Message, NEW t \in Nat, NEW td, NEW es, GoodCache(es), NEW B, NEW S,
         GoodMemory(es, m, t, td, B, S), RoomIn(S), NEW p \in Says(m)
  PROVE  ~ EntriesFull(es, KeyOf(m, p)) /\ ~ NamesFull(es, KeyOf(m, p), HostOf(m, p))
<1>1. ASSUME NEW q \in Says(m)
      PROVE  [key |-> KeyOf(m, q), host |-> HostOf(m, q)] \in S
  <2>1. Says(m) \in SUBSET PutPositions(m)
    BY DEF Says
  <2>2. PICK a \in Says(m) : /\ LastIn(m, Says(m), a)
                             /\ KeyOf(m, a) = KeyOf(m, q) /\ HostOf(m, a) = HostOf(m, q)
    BY <2>1, LastExists
  <2>3. Said(m, a, t) \in B
    BY <2>2 DEF GoodMemory, Honours
  <2>4. Said(m, a, t).key = KeyOf(m, q) /\ Said(m, a, t).host = HostOf(m, q)
    BY <2>2 DEF Said
  <2> QED  BY <2>3, <2>4 DEF GoodMemory, Consistent
<1>2. ASSUME NEW x \in Facts(es)
      PROVE  [key |-> x.key, host |-> x.host] \in S
  <2>1. x \in B \/ \E q \in Says(m) : x.key = KeyOf(m, q) /\ x.host = HostOf(m, q)
    BY DEF GoodMemory, Sourced, FreshIn, OverruledIn
  <2> QED  BY <1>1, <2>1 DEF GoodMemory, Consistent
<1>3. PICK k, h : k = KeyOf(m, p) /\ h = HostOf(m, p)
  OBVIOUS
<1>4. k \in KeysOf(S) /\ h \in HostsAt(S, k) /\ k \in Key
  BY <1>1, <1>3, SubjectCounts DEF Says
<1>5. \A x \in Facts(es) : x.key \in KeysOf(S) /\ x.host \in HostsAt(S, x.key)
  BY <1>2, SubjectCounts
<1>6. IsFiniteSet(S)
  BY DEF GoodMemory, Consistent
<1>7. /\ IsFiniteSet(KeysOf(S)) /\ Cardinality(KeysOf(S)) <= Capacity
      /\ IsFiniteSet(HostsAt(S, k)) /\ Cardinality(HostsAt(S, k)) <= MaxNames
  BY <1>4, <1>6, SubjectsFinite DEF RoomIn
<1> QED  BY <1>3, <1>4, <1>5, <1>7, RoomLeft

(* The next Put p of message m keeps the memory, whether or not it is the  *)
(* last one.                                                               *)
LEMMA PutKeepsMemory ==
  ASSUME NEW m \in Message, NEW t \in Nat, NEW td \in SUBSET PutPositions(m),
         NEW p \in td, \A q \in td \ {p} : Precedes(p, q),
         NEW es, GoodCache(es), NEW B, NEW S, GoodMemory(es, m, t, td, B, S)
  PROVE  LET es2 == Put(es, KeyOf(m, p), PutName(m.answer, p), PutTTL(m.answer, p), t)
             td2 == td \ {p}
         IN  GoodMemory(es2, IF td2 = {} THEN EmptyMessage ELSE m,
                        IF td2 = {} THEN 0 ELSE t, td2, B, S)
<1> DEFINE es2 == Put(es, KeyOf(m, p), PutName(m.answer, p), PutTTL(m.answer, p), t)
           td2 == td \ {p}
           D   == Says(m) \ td
           D2  == Says(m) \ td2
<1>1. /\ \A a \in PutPositions(m) \ td, q \in td : Precedes(a, q)
      /\ Consistent(B, S) /\ Honours(B, m, t) /\ Sourced(es, B, m, t, td)
      /\ RoomIn(S) => AllKnown(es, B, m, t, td)
  BY DEF GoodMemory
<1>2. Sourced(es2, B, m, t, td2)
  <2> SUFFICES ASSUME NEW x \in Facts(es2)
               PROVE  \/ FreshIn(x, m, t, D2)
                      \/ /\ ~ OverruledIn(x, m, D2)
                         /\ x \in B \/ OverruledIn(x, m, Says(m))
    BY DEF Sourced
  <2>1. \/ FreshIn(x, m, t, D2)
        \/ /\ x \in Facts(es) /\ ~ FreshIn(x, m, t, D)
           /\ ~ OverruledIn(x, m, D) => ~ OverruledIn(x, m, D2)
    BY <1>1, PutAdds
  <2>2. x \in Facts(es) => \/ FreshIn(x, m, t, D)
                           \/ /\ ~ OverruledIn(x, m, D)
                              /\ x \in B \/ OverruledIn(x, m, Says(m))
    BY <1>1 DEF Sourced
  <2> QED  BY <2>1, <2>2
<1>3. RoomIn(S) => AllKnown(es2, B, m, t, td2)
  <2> SUFFICES ASSUME RoomIn(S) PROVE AllKnown(es2, B, m, t, td2)
    OBVIOUS
  <2>1. p \in PutPositions(m) /\ AllKnown(es, B, m, t, td)
    BY <1>1
  <2>2. p \in Says(m) => /\ ~ EntriesFull(es, KeyOf(m, p))
                         /\ ~ NamesFull(es, KeyOf(m, p), HostOf(m, p))
    BY NextHasRoom
  <2>3. /\ \A x \in Facts(es) :
             (p \in Says(m) => x.key # KeyOf(m, p) \/ x.host # HostOf(m, p)) => x \in Facts(es2)
        /\ p \in Says(m) =>
             \E x \in Facts(es2) : /\ x.key = KeyOf(m, p) /\ x.host = HostOf(m, p)
                                   /\ x.expires = ExpiryOf(m, p, t)
    BY <2>1, <2>2, PutLosesNothing
  <2> HIDE DEF es2
  <2>4. ASSUME NEW y \in B, ~ OverruledIn(y, m, Says(m))
        PROVE  y \in Facts(es2)
    <3>1. y \in Facts(es) /\ (p \in Says(m) => y.key # KeyOf(m, p) \/ y.host # HostOf(m, p))
      BY <2>1, <2>4 DEF AllKnown, OverruledIn
    <3> QED  BY <2>3, <3>1
  <2>5. ASSUME NEW q \in D2, LastIn(m, D2, q)
        PROVE  Said(m, q, t) \in Facts(es2)
    <3>1. CASE q = p
      <4>1. PICK x \in Facts(es2) : /\ x.key = KeyOf(m, p) /\ x.host = HostOf(m, p)
                                    /\ x.expires = ExpiryOf(m, p, t)
        BY <2>3, <3>1
      <4>2. x = Said(m, p, t)
        BY <4>1, FactsShaped DEF Shaped, Said
      <4> QED  BY <3>1, <4>1, <4>2
    <3>2. CASE q # p
      <4>1. q \in D /\ LastIn(m, D, q)
        BY <2>5, <3>2 DEF LastIn
      <4>2. Said(m, q, t) \in Facts(es)
        BY <2>1, <4>1 DEF AllKnown
      <4>3. p \in Says(m) => KeyOf(m, q) # KeyOf(m, p) \/ HostOf(m, q) # HostOf(m, p)
        <5>1. q \in PutPositions(m) \ td
          BY <4>1 DEF Says
        <5>2. Precedes(q, p)
          BY <1>1, <5>1
        <5> QED  BY <2>5, <5>2 DEF LastIn
      <4>4. Said(m, q, t).key = KeyOf(m, q) /\ Said(m, q, t).host = HostOf(m, q)
        BY DEF Said
      <4> QED  BY <2>3, <4>2, <4>3, <4>4
    <3> QED  BY <3>1, <3>2
  <2> QED  BY <2>4, <2>5 DEF AllKnown
<1> HIDE DEF es2
<1>4. CASE td2 # {}
  <2>1. \A a \in PutPositions(m) \ td2, q \in td2 : Precedes(a, q)
    BY <1>1
  <2>2. GoodMemory(es2, m, t, td2, B, S)
    BY <1>1, <1>2, <1>3, <1>4, <2>1 DEF GoodMemory
  <2> QED  BY <1>4, <2>2 DEF es2
<1>5. CASE td2 = {}
  <2>1. D2 = Says(m)
    BY <1>5
  <2>2. Facts(es2) \subseteq B
    <3> SUFFICES ASSUME NEW x \in Facts(es2) PROVE x \in B
      OBVIOUS
    <3>1. CASE FreshIn(x, m, t, Says(m))
      <4>1. PICK a \in Says(m) : /\ LastIn(m, Says(m), a) /\ x.key = KeyOf(m, a)
                                 /\ x.host = HostOf(m, a) /\ x.expires = ExpiryOf(m, a, t)
        BY <3>1 DEF FreshIn
      <4>2. x = Said(m, a, t)
        BY <4>1, FactsShaped DEF Shaped, Said
      <4> QED  BY <1>1, <4>1, <4>2 DEF Honours
    <3> QED  BY <1>2, <2>1, <3>1 DEF Sourced
  <2>3. RoomIn(S) => B \subseteq Facts(es2)
    <3> SUFFICES ASSUME RoomIn(S), NEW y \in B PROVE y \in Facts(es2)
      OBVIOUS
    <3>1. AllKnown(es2, B, m, t, td2)
      BY <1>3
    <3>2. CASE OverruledIn(y, m, Says(m))
      <4>1. PICK q \in Says(m) : y.key = KeyOf(m, q) /\ y.host = HostOf(m, q)
        BY <3>2 DEF OverruledIn
      <4>2. Says(m) \in SUBSET PutPositions(m)
        BY DEF Says
      <4>3. PICK a \in Says(m) : /\ LastIn(m, Says(m), a)
                                 /\ KeyOf(m, a) = KeyOf(m, q) /\ HostOf(m, a) = HostOf(m, q)
        BY <4>2, LastExists
      <4>4. Said(m, a, t) \in B /\ Said(m, a, t) \in Facts(es2)
        BY <1>1, <2>1, <3>1, <4>3 DEF Honours, AllKnown
      <4>5. Said(m, a, t).key = y.key /\ Said(m, a, t).host = y.host
        BY <4>1, <4>3 DEF Said
      <4>6. y = Said(m, a, t)
        BY <1>1, <4>4, <4>5 DEF Consistent
      <4> QED  BY <4>4, <4>6
    <3> QED  BY <3>1, <3>2 DEF AllKnown
  <2>4. GoodMemory(es2, EmptyMessage, 0, {}, B, S)
    BY <1>1, <2>2, <2>3, MemoryAtRest
  <2> QED  BY <1>5, <2>4 DEF es2
<1> QED  BY <1>4, <1>5

(* Pruning takes the same facts from the cache and from what is believed.  *)
LEMMA PruneKeepsMemory ==
  ASSUME NEW es, GoodCache(es), NEW t, NEW now, NEW B, NEW S,
         GoodMemory(es, EmptyMessage, t, {}, B, S)
  PROVE  GoodMemory(Prune(es, now), EmptyMessage, t, {}, {x \in B : x.expires > now}, S)
<1>1. /\ Consistent(B, S) /\ Facts(es) \subseteq B
      /\ RoomIn(S) => B \subseteq Facts(es)
  BY MemoryAtRest
<1>2. Facts(Prune(es, now)) = {x \in Facts(es) : x.expires > now}
  BY PruneExpires
<1>3. Consistent({x \in B : x.expires > now}, S)
  BY <1>1 DEF Consistent
<1> QED  BY <1>1, <1>2, <1>3, MemoryAtRest

-----------------------------------------------------------------------------
(* RemembersAnswers, for every run of the parser.                          *)

(* The history variables restrict nothing: without them, a run is one of   *)
(* the parser, and what holds of the parser holds of it.                   *)
LEMMA MemoryParses == MemorySpec => [](CacheInv /\ Parsing)
<1>1. MemoryInit => ResponseInit
  BY DEF MemoryInit
<1>2. [MemoryNext]_memoryVars => [ResponseNext]_responseVars
  BY DEF MemoryNext, memoryVars, Hear, HearPut, HearPrune, ResponseNext, responseVars
<1>3. MemorySpec => ResponseSpec
  BY <1>1, <1>2, PTL DEF MemorySpec, ResponseSpec
<1>4. ResponseInit => Parsing
  BY DEF ResponseInit, Parsing
<1>5. Parsing /\ [ResponseNext]_responseVars => Parsing'
  BY ParsingInductive
<1> QED  BY <1>3, <1>4, <1>5, ResponseCacheSafe, PTL DEF ResponseSpec

(* The inductive invariant.                                                *)
MemoryInv == GoodMemory(entries, message, stamp, todo, believed, subjects)

(* It holds with an empty cache and nothing believed.                      *)
LEMMA MemoryStarts ==
  ASSUME MemoryInit
  PROVE  MemoryInv
<1>1. /\ entries = << >> /\ message = EmptyMessage /\ stamp = 0 /\ todo = {}
      /\ believed = {} /\ subjects = {}
  BY DEF MemoryInit, ResponseInit, CacheInit
<1>2. Facts(<< >>) = {}
  BY FactsGather
<1>3. Consistent({}, {})
  BY FS_EmptySet DEF Consistent
<1>4. GoodMemory(<< >>, EmptyMessage, 0, {}, {}, {})
  BY <1>2, <1>3, MemoryAtRest
<1> QED  BY <1>1, <1>4 DEF MemoryInv

(* Every step keeps it.                                                    *)
LEMMA MemoryInductive ==
  ASSUME CacheInv, Parsing, MemoryInv, [MemoryNext]_memoryVars
  PROVE  MemoryInv'
<1>1. PICK es, m, s, td, B, S :
        /\ es = entries /\ m = message /\ s = stamp /\ td = todo
        /\ B = believed /\ S = subjects
  OBVIOUS
<1>2. GoodCache(es) /\ GoodMemory(es, m, s, td, B, S)
  BY <1>1, InvIsGood DEF MemoryInv
<1>3. Time \subseteq Nat
  BY CacheAssumption
<1>4. ASSUME td = {}
      PROVE  /\ m = EmptyMessage /\ GoodMemory(es, EmptyMessage, s, {}, B, S)
             /\ Consistent(B, S) /\ Facts(es) \subseteq B
             /\ RoomIn(S) => B \subseteq Facts(es)
  <2>1. m = EmptyMessage
    BY <1>2, <1>4 DEF GoodMemory
  <2> QED  BY <1>2, <1>4, <2>1, MemoryAtRest
<1>5. ASSUME NEW mm \in Message, NEW t \in Time, Hear(mm, t)
      PROVE  MemoryInv'
  <2> DEFINE new == LastWord(mm, t)
             B2  == new \cup {x \in B : \A y \in new : y.key # x.key \/ y.host # x.host}
             S2  == S \cup {[key |-> y.key, host |-> y.host] : y \in new}
             ps  == PutPositions(mm)
             m2  == IF ps = {} THEN EmptyMessage ELSE mm
             t2  == IF ps = {} THEN 0 ELSE t
  <2>1. td = {} /\ t \in Nat
    BY <1>1, <1>3, <1>5 DEF Hear, Receive
  <2>2. GoodMemory(es, m2, t2, ps, B2, S2)
    BY <1>4, <2>1, HearKeeps
  <2>3. /\ entries' = es /\ message' = m2 /\ stamp' = t2 /\ todo' = ps
        /\ believed' = B2 /\ subjects' = S2
    BY <1>1, <1>5 DEF Hear, Receive, Hold
  <2> HIDE DEF B2, S2, ps, m2, t2
  <2> QED  BY <2>2, <2>3 DEF MemoryInv
<1>6. CASE HearPut
  <2>1. PICK p \in td :
          /\ \A q \in td \ {p} : Precedes(p, q)
          /\ entries' = Put(es, m.answer[p[1]].key, PutName(m.answer, p),
                            PutTTL(m.answer, p), s)
          /\ Hold(m, s, td \ {p})
    BY <1>1, <1>6 DEF HearPut, PutNext
  <2> DEFINE es2 == Put(es, KeyOf(m, p), PutName(m.answer, p), PutTTL(m.answer, p), s)
             td2 == td \ {p}
             m2  == IF td2 = {} THEN EmptyMessage ELSE m
             t2  == IF td2 = {} THEN 0 ELSE s
  <2>2. m \in Message /\ s \in Nat /\ td \in SUBSET PutPositions(m)
    BY <1>1, <1>3, <2>1 DEF Parsing
  <2>3. GoodMemory(es2, m2, t2, td2, B, S)
    BY <1>2, <2>1, <2>2, PutKeepsMemory
  <2>4. /\ entries' = es2 /\ message' = m2 /\ stamp' = t2 /\ todo' = td2
        /\ believed' = B /\ subjects' = S
    BY <1>1, <1>6, <2>1 DEF HearPut, Hold, KeyOf
  <2> HIDE DEF es2, td2, m2, t2
  <2> QED  BY <2>3, <2>4 DEF MemoryInv
<1>7. ASSUME NEW t \in Time, HearPrune(t)
      PROVE  MemoryInv'
  <2> DEFINE es2 == Prune(es, t)
             B2  == {x \in B : x.expires > t}
  <2>1. td = {}
    BY <1>1, <1>7 DEF HearPrune, PruneBetween
  <2>2. GoodMemory(es2, EmptyMessage, s, {}, B2, S)
    BY <1>2, <1>4, <2>1, PruneKeepsMemory
  <2>3. /\ entries' = es2 /\ message' = EmptyMessage /\ stamp' = s /\ todo' = {}
        /\ believed' = B2 /\ subjects' = S
    BY <1>1, <1>4, <1>7, <2>1 DEF HearPrune, PruneBetween
  <2> HIDE DEF es2, B2
  <2> QED  BY <2>2, <2>3 DEF MemoryInv
<1>8. CASE UNCHANGED memoryVars
  <2>1. /\ entries' = es /\ message' = m /\ stamp' = s /\ todo' = td
        /\ believed' = B /\ subjects' = S
    BY <1>1, <1>8 DEF memoryVars
  <2> QED  BY <1>2, <2>1 DEF MemoryInv
<1> QED  BY <1>5, <1>6, <1>7, <1>8 DEF MemoryNext

(* For every set of messages and timestamps and every limit of the cache:  *)
(* between two messages the cache holds only what the messages said, with  *)
(* the expiry of the last record that says so, and all of it while there   *)
(* is room (dns.go:25-50, 56-67; cache.go:55-121).                         *)
THEOREM MemoryRemembers == MemorySpec => []RemembersAnswers
<1>1. MemoryInit => MemoryInv
  BY MemoryStarts
<1>2. CacheInv /\ Parsing /\ MemoryInv /\ [MemoryNext]_memoryVars => MemoryInv'
  BY MemoryInductive
<1>3. MemoryInv => RemembersAnswers
  <2> SUFFICES ASSUME MemoryInv, todo = {}
               PROVE  /\ Facts(entries) \subseteq believed
                      /\ RoomForAll => believed \subseteq Facts(entries)
    BY DEF RemembersAnswers
  <2>1. message = EmptyMessage
    BY DEF MemoryInv, GoodMemory
  <2>2. GoodMemory(entries, EmptyMessage, stamp, {}, believed, subjects)
    BY <2>1 DEF MemoryInv
  <2>3. RoomForAll => RoomIn(subjects)
    BY DEF RoomForAll, RoomIn, KeysOf, HostsAt
  <2> QED  BY <2>2, <2>3, MemoryAtRest
<1> QED  BY <1>1, <1>2, <1>3, MemoryParses, PTL DEF MemorySpec

=============================================================================
