------------------------- MODULE AccessRollupProofs -------------------------
(***************************************************************************)
(* What the dashboard chooses to draw, for every sequence of events, every *)
(* window and all limits: which events diverseEvents keeps, and at which   *)
(* targets graphTargetFor draws the accesses among them.                   *)
(***************************************************************************)
EXTENDS AccessRollup, FoldProofs, SequenceTheorems

-----------------------------------------------------------------------------
(* The choice of the events.                                               *)

(* The first scan has decided the events before m: it kept the newest of   *)
(* each relationship.                                                      *)
Kept(m) == {i \in DOMAIN events : i >= m \/ i \in Newest}

(* The second scan has dropped the newest examples before m.               *)
Remaining(m) == {i \in Newest : i >= m}

DiverseBase == events \in Seq(Relation) /\ limit \in Nat \ {0}

(* What each scan has kept so far.  The second scan has work to do only if *)
(* the newest examples alone exceed the limit.                             *)
KeepInv ==
  /\ phase = "redundant" =>
       /\ keep = Kept(index)
       /\ Len(events) > limit
       /\ counts = [r \in Relation |-> Cardinality({i \in keep : events[i] = r})]
  /\ phase = "oldest" =>
       /\ Len(events) > limit
       /\ \/ removals = 0 /\ \E m \in Nat : keep = Kept(m)
          \/ Cardinality(Newest) > limit /\ keep = Remaining(index)
  /\ phase = "done" =>
       /\ removals = 0
       /\ \/ \E m \in Nat : keep = Kept(m)
          \/ Cardinality(Newest) > limit /\ \E m \in Nat : keep = Remaining(m)

DiverseInv == DiverseBase /\ DiverseTypeOK /\ KeepInv

(* Everything about positions is finite.                                   *)
LEMMA PositionsFinite ==
  ASSUME DiverseBase
  PROVE  /\ Len(events) \in Nat /\ DOMAIN events = 1..Len(events)
         /\ IsFiniteSet(DOMAIN events) /\ Cardinality(DOMAIN events) = Len(events)
         /\ \A K \in SUBSET DOMAIN events :
              IsFiniteSet(K) /\ Cardinality(K) \in Nat /\ Cardinality(K) <= Len(events)
<1>1. Len(events) \in Nat /\ DOMAIN events = 1..Len(events)
  BY LenProperties DEF DiverseBase
<1>2. IsFiniteSet(DOMAIN events) /\ Cardinality(DOMAIN events) = Len(events)
  <2>1. PICK n \in Nat : n = Len(events)
    BY <1>1
  <2>2. IsFiniteSet(1..n) /\ Cardinality(1..n) = IF 1 > n THEN 0 ELSE n - 1 + 1
    BY FS_Interval
  <2>3. Cardinality(1..n) = n
    BY <2>2
  <2> QED  BY <1>1, <2>1, <2>2, <2>3
<1>3. \A K \in SUBSET DOMAIN events :
        IsFiniteSet(K) /\ Cardinality(K) \in Nat /\ Cardinality(K) <= Len(events)
  BY <1>2, FS_Subset, FS_CardinalityType
<1> QED  BY <1>1, <1>2, <1>3

(* The scans start with everything.                                        *)
LEMMA DiverseInvInit == DiverseInit => DiverseInv
<1> SUFFICES ASSUME DiverseInit PROVE DiverseInv
  OBVIOUS
<1>1. DiverseBase
  <2>1. PICK m \in 0..MaxEvents : events \in [1..m -> Relation]
    BY DEF DiverseInit, BoundedSeq, SeqOf
  <2>2. m \in Nat
    BY DiverseAssumption
  <2>3. events \in Seq(Relation)
    BY <2>1, <2>2
  <2>4. limit \in Nat \ {0}
    BY DiverseAssumption DEF DiverseInit
  <2> QED  BY <2>3, <2>4 DEF DiverseBase
<1>2. /\ Len(events) \in Nat /\ DOMAIN events = 1..Len(events)
      /\ Cardinality(DOMAIN events) = Len(events) /\ limit \in Nat \ {0}
  BY <1>1, PositionsFinite DEF DiverseBase
<1>0. /\ keep = DOMAIN events /\ index = 1
      /\ removals = (IF Len(events) <= limit THEN 0 ELSE Len(events) - limit)
      /\ phase = (IF Len(events) <= limit THEN "done" ELSE "redundant")
  BY Zenon DEF DiverseInit
<1>3. keep = Kept(1) /\ keep = DOMAIN events /\ index = 1
  <2>1. \A i \in DOMAIN events : i >= 1
    BY <1>2
  <2> QED  BY <1>0, <2>1, Zenon DEF Kept
<1>4. DiverseTypeOK
  <2>1. CASE Len(events) <= limit
    BY <1>0, <1>2, <2>1 DEF DiverseTypeOK
  <2>2. CASE ~ (Len(events) <= limit)
    BY <1>0, <1>2, <2>2 DEF DiverseTypeOK
  <2> QED  BY <2>1, <2>2
<1>5. KeepInv
  <2>1. counts = [r \in Relation |-> Cardinality({i \in keep : events[i] = r})]
    BY <1>3, Zenon DEF DiverseInit, Occurrences
  <2>2. phase = "redundant" => Len(events) > limit
    <3>1. Len(events) <= limit => phase = "done"
      BY <1>0
    <3>2. "done" # "redundant"
      OBVIOUS
    <3> QED  BY <1>2, <3>1, <3>2
  <2>3. phase = "done" => removals = 0
    <3>1. ~ (Len(events) <= limit) => phase = "redundant"
      BY <1>0
    <3> QED  BY <1>0, <3>1
  <2>4. phase # "oldest" /\ 1 \in Nat
    BY <1>0
  <2> QED  BY <1>3, <2>1, <2>2, <2>3, <2>4 DEF KeepInv
<1> QED  BY <1>1, <1>4, <1>5 DEF DiverseInv

(* Where the first scan is, an event has a kept double exactly if it is    *)
(* not the newest of its relationship.                                     *)
LEMMA CountsTell ==
  ASSUME DiverseInv, phase = "redundant", index \in DOMAIN events
  PROVE  /\ index \in keep /\ events[index] \in Relation
         /\ counts[events[index]] \in Nat
         /\ counts[events[index]] <= 1 <=> index \in Newest
<1> DEFINE r == events[index]
           K == {i \in keep : events[i] = r}
<1>1. /\ Len(events) \in Nat /\ DOMAIN events = 1..Len(events) /\ index \in Nat
      /\ keep = Kept(index) /\ r \in Relation
  BY PositionsFinite, ElementOfSeq DEF DiverseInv, KeepInv, DiverseBase
<1>2. index \in keep
  BY <1>1 DEF Kept
<1>3. counts[r] = Cardinality(K)
  BY <1>1 DEF DiverseInv, KeepInv
<1>4. IsFiniteSet(K) /\ Cardinality(K) \in Nat /\ K \subseteq DOMAIN events
  <2>1. K \in SUBSET DOMAIN events
    BY <1>1 DEF Kept
  <2> QED  BY <2>1, PositionsFinite DEF DiverseInv
<1>5. index \in K
  BY <1>2
<1>6. \A i \in K : i >= index
  <2> SUFFICES ASSUME NEW i \in K, i < index PROVE FALSE
    BY <1>1, <1>4
  <2>1. i \in Newest /\ i \in DOMAIN events /\ events[i] = events[index]
    BY <1>1, <1>4 DEF Kept
  <2> QED  BY <1>1, <2>1 DEF Newest
<1>7. CASE index \in Newest
  <2>1. K = {index}
    <3>1. ASSUME NEW i \in K, i # index PROVE FALSE
      <4>1. i > index /\ i \in DOMAIN events /\ events[i] = events[index]
        BY <1>1, <1>4, <1>6, <3>1
      <4> QED  BY <1>7, <4>1 DEF Newest
    <3> QED  BY <1>5, <3>1
  <2>2. Cardinality(K) = 1
    BY <2>1, FS_Singleton
  <2> QED  BY <1>1, <1>2, <1>3, <1>7, <2>2
<1>8. CASE index \notin Newest
  <2>1. PICK j \in DOMAIN events : j > index /\ events[j] = events[index]
    BY <1>8 DEF Newest
  <2>2. j \in K
    BY <1>1, <2>1 DEF Kept
  <2>3. Cardinality(K) # 1
    <3>1. \A x : K # {x}
      BY <1>1, <1>5, <2>1, <2>2
    <3> HIDE DEF K
    <3> QED  BY <1>4, <3>1, FS_Singleton
  <2>4. Cardinality(K) # 0
    <3> HIDE DEF K
    <3> QED  BY <1>4, <1>5, FS_EmptySet
  <2>5. ~ (Cardinality(K) <= 1)
    BY <1>4, <2>3, <2>4
  <2> QED  BY <1>1, <1>2, <1>3, <1>4, <1>8, <2>5
<1> QED  BY <1>7, <1>8

(* Dropping a kept event keeps the account of what is still to go.         *)
LEMMA StrikeKeeps ==
  ASSUME DiverseInv, index \in keep, index \in DOMAIN events, removals > 0, Strike,
         UNCHANGED <<events, limit, phase>>, index' = index + 1
  PROVE  DiverseTypeOK'
<1>1. /\ Len(events) \in Nat /\ DOMAIN events = 1..Len(events)
      /\ keep \subseteq DOMAIN events /\ IsFiniteSet(keep) /\ Cardinality(keep) \in Nat
      /\ limit \in Nat /\ removals \in Nat
  BY PositionsFinite DEF DiverseInv, DiverseTypeOK, DiverseBase
<1>2. Cardinality(keep \ {index}) = Cardinality(keep) - 1
  BY <1>1, FS_RemoveElement
<1>3. /\ keep' = keep \ {index} /\ removals' = removals - 1
      /\ events' = events /\ limit' = limit /\ phase' = phase /\ index' = index + 1
  BY DEF Strike
<1>4. /\ Cardinality(keep) = removals + (IF Len(events) < limit THEN Len(events) ELSE limit)
      /\ phase \in {"redundant", "oldest", "done"}
  BY DEF DiverseInv, DiverseTypeOK
<1>5. Cardinality(keep') = removals' + (IF Len(events') < limit' THEN Len(events') ELSE limit')
  BY <1>1, <1>2, <1>3, <1>4
<1>6. removals' \in Nat /\ index' \in 1..(Len(events') + 1)
  BY <1>1, <1>3
<1> QED  BY <1>1, <1>3, <1>4, <1>5, <1>6 DEF DiverseTypeOK

(* Passing over an event does, too.                                        *)
LEMMA PassKeeps ==
  ASSUME DiverseInv, index \in DOMAIN events,
         UNCHANGED <<events, limit, phase, keep, removals>>, index' = index + 1
  PROVE  DiverseTypeOK'
<1>1. Len(events) \in Nat /\ DOMAIN events = 1..Len(events)
  BY PositionsFinite DEF DiverseInv
<1>2. index' \in 1..(Len(events') + 1)
  BY <1>1
<1> QED  BY <1>2 DEF DiverseInv, DiverseTypeOK

(* The first scan.                                                         *)
LEMMA DropRedundantKeeps ==
  ASSUME DiverseInv, DropRedundant
  PROVE  DiverseInv'
<1>1. /\ phase = "redundant" /\ removals > 0 /\ index' = index + 1
      /\ UNCHANGED <<events, limit, phase>> /\ Newest' = Newest
  BY DEF DropRedundant, Scanning, Newest
<1>2. /\ Len(events) \in Nat /\ DOMAIN events = 1..Len(events) /\ index \in DOMAIN events
      /\ keep = Kept(index) /\ Len(events) > limit /\ keep \subseteq DOMAIN events
      /\ counts = [r \in Relation |-> Cardinality({i \in keep : events[i] = r})]
  BY <1>1, PositionsFinite DEF DropRedundant, Scanning, DiverseInv, DiverseTypeOK, KeepInv
<1>3. DiverseBase'
  BY <1>1 DEF DiverseInv, DiverseBase
<1>4. /\ index \in keep /\ events[index] \in Relation /\ counts[events[index]] \in Nat
      /\ counts[events[index]] <= 1 <=> index \in Newest
  BY <1>1, <1>2, CountsTell
<1>5. CASE counts[events[index]] <= 1
  <2>1. UNCHANGED <<keep, counts, removals>>
    BY <1>5 DEF DropRedundant
  <2>2. DiverseTypeOK'
    BY <1>1, <1>2, <2>1, PassKeeps
  <2>3. Kept(index) = Kept(index + 1)
    BY <1>2, <1>4, <1>5 DEF Kept
  <2>4. keep' = Kept(index)' /\ Kept(index)' = Kept(index + 1)
    BY <1>1, <1>2, <2>1, <2>3 DEF Kept
  <2>5. KeepInv'
    BY <1>1, <1>2, <2>1, <2>4 DEF KeepInv
  <2> QED  BY <1>3, <2>2, <2>5 DEF DiverseInv
<1>6. CASE ~ (counts[events[index]] <= 1)
  <2>1. Strike /\ counts' = [counts EXCEPT ![events[index]] = @ - 1]
    BY <1>6 DEF DropRedundant
  <2>2. DiverseTypeOK'
    BY <1>1, <1>2, <1>4, <2>1, StrikeKeeps
  <2>3. keep' = Kept(index + 1)
    BY <1>2, <1>4, <1>6, <2>1 DEF Kept, Strike
  <2>4. Kept(index)' = Kept(index + 1)
    BY <1>1 DEF Kept
  <2>5. ASSUME NEW r \in Relation
        PROVE  counts'[r] = Cardinality({i \in keep' : events[i] = r})
    <3> DEFINE K == {i \in keep : events[i] = r}
               L == {i \in keep' : events[i] = r}
    <3>1. counts[r] = Cardinality(K)
      BY <1>2
    <3>2. K \in SUBSET DOMAIN events
      BY <1>2
    <3>3. IsFiniteSet(K)
      <4> HIDE DEF K
      <4> QED  BY <3>2, PositionsFinite DEF DiverseInv
    <3>4. CASE r = events[index]
      <4>1. L = K \ {index} /\ index \in K
        BY <1>4, <2>1, <3>4 DEF Strike
      <4>2. counts'[r] = counts[r] - 1
        BY <1>2, <1>4, <2>1, <3>4
      <4> HIDE DEF K, L
      <4>3. Cardinality(L) = Cardinality(K) - 1
        BY <3>3, <4>1, FS_RemoveElement
      <4> QED  BY <3>1, <4>2, <4>3 DEF L
    <3>5. CASE r # events[index]
      <4>1. L = K
        BY <1>4, <2>1, <3>5 DEF Strike
      <4>2. counts'[r] = counts[r]
        BY <1>2, <1>4, <2>1, <3>5
      <4> QED  BY <3>1, <4>1, <4>2
    <3> QED  BY <3>4, <3>5
  <2>6. counts' = [r \in Relation |-> Cardinality({i \in keep' : events'[i] = r})]
    <3>1. counts' = [r \in Relation |-> counts'[r]]
      BY <1>2, <2>1
    <3> QED  BY <1>1, <2>5, <3>1
  <2>7. KeepInv'
    BY <1>1, <1>2, <2>3, <2>4, <2>6 DEF KeepInv
  <2> QED  BY <1>3, <2>2, <2>7 DEF DiverseInv
<1> QED  BY <1>5, <1>6

(* The second scan.                                                        *)
LEMMA DropOldestKeeps ==
  ASSUME DiverseInv, DropOldest
  PROVE  DiverseInv'
<1>1. /\ phase = "oldest" /\ removals > 0 /\ index' = index + 1
      /\ UNCHANGED <<events, limit, phase>> /\ Newest' = Newest
  BY DEF DropOldest, Scanning, Newest
<1>2. /\ Len(events) \in Nat /\ DOMAIN events = 1..Len(events) /\ index \in DOMAIN events
      /\ removals \in Nat /\ Newest \subseteq DOMAIN events
  BY <1>1, PositionsFinite DEF DropOldest, Scanning, DiverseInv, DiverseTypeOK, Newest
<1>3. DiverseBase'
  BY <1>1 DEF DiverseInv, DiverseBase
<1>4. /\ Len(events) > limit /\ Cardinality(Newest) > limit /\ keep = Remaining(index)
  BY <1>1, <1>2 DEF DiverseInv, KeepInv
<1>5. DiverseTypeOK'
  <2>1. CASE index \in keep
    BY <1>1, <1>2, <2>1, StrikeKeeps DEF DropOldest
  <2>2. CASE index \notin keep
    BY <1>1, <1>2, <2>2, PassKeeps DEF DropOldest
  <2> QED  BY <2>1, <2>2
<1>6. keep' = Remaining(index + 1)
  BY <1>2, <1>4 DEF DropOldest, Strike, Remaining
<1>7. Remaining(index)' = Remaining(index + 1)
  BY <1>1 DEF Remaining
<1>8. KeepInv'
  BY <1>1, <1>4, <1>6, <1>7 DEF KeepInv
<1> QED  BY <1>3, <1>5, <1>8 DEF DiverseInv

(* The change from one scan to the next.                                   *)
LEMMA EndScanKeeps ==
  ASSUME DiverseInv, EndScan
  PROVE  DiverseInv'
<1>1. /\ phase \in {"redundant", "oldest"} /\ ~ Scanning(phase)
      /\ phase' = (IF phase = "redundant" THEN "oldest" ELSE "done") /\ index' = 1
      /\ UNCHANGED <<events, limit, keep, counts, removals>> /\ Newest' = Newest
  BY DEF EndScan, Newest, DiverseInv, DiverseTypeOK
<1>2. /\ Len(events) \in Nat /\ DOMAIN events = 1..Len(events)
      /\ removals \in Nat /\ Newest \subseteq DOMAIN events /\ index \in 1..(Len(events) + 1)
      /\ limit \in Nat \ {0} /\ Len(events) > limit
      /\ Cardinality(keep) = removals + limit
      /\ keep \subseteq DOMAIN events /\ IsFiniteSet(keep)
  BY <1>1, PositionsFinite DEF DiverseInv, DiverseTypeOK, KeepInv, DiverseBase, Newest
<1>3. DiverseBase'
  BY <1>1 DEF DiverseInv, DiverseBase
<1>4. DiverseTypeOK'
  BY <1>1, <1>2 DEF DiverseInv, DiverseTypeOK
<1>5. removals = 0 \/ index = Len(events) + 1
  BY <1>1, <1>2 DEF Scanning
<1>6. \A m : Kept(m)' = Kept(m) /\ Remaining(m)' = Remaining(m)
  BY <1>1 DEF Kept, Remaining
<1>7. CASE phase = "redundant"
  <2>1. keep = Kept(index)
    BY <1>7 DEF DiverseInv, KeepInv
  <2>2. CASE removals = 0
    <3>1. phase' = "oldest" /\ removals' = 0 /\ index \in Nat
          /\ Len(events') > limit'
      BY <1>1, <1>2, <1>7, <2>2
    <3>2. PICK n \in Nat : n = index
      BY <3>1
    <3>3. keep' = Kept(n)'
      BY <1>1, <1>6, <2>1, <3>2
    <3> QED  BY <1>3, <1>4, <3>1, <3>3 DEF DiverseInv, KeepInv
  <2>3. CASE removals # 0 /\ index = Len(events) + 1
    <3>1. keep = Newest
      BY <1>2, <2>1, <2>3 DEF Kept
    <3>2. Cardinality(Newest) > limit
      BY <1>2, <2>3, <3>1
    <3>3. Newest = Remaining(1)
      BY <1>2 DEF Remaining
    <3>4. keep' = Remaining(1)' /\ phase' = "oldest" /\ Len(events') > limit'
          /\ Cardinality(Newest') > limit'
      BY <1>1, <1>2, <1>6, <1>7, <3>1, <3>2, <3>3
    <3>5. Remaining(1)' = Remaining(index)'
      BY <1>1 DEF Remaining
    <3> QED  BY <1>1, <1>3, <1>4, <3>4, <3>5 DEF DiverseInv, KeepInv
  <2> QED  BY <1>5, <2>2, <2>3
<1>8. CASE phase = "oldest"
  <2>1. CASE removals = 0 /\ \E m \in Nat : keep = Kept(m)
    <3>1. PICK m \in Nat : keep = Kept(m)
      BY <2>1
    <3>2. keep' = Kept(m)' /\ phase' = "done" /\ removals' = 0
      BY <1>1, <1>6, <1>8, <2>1, <3>1
    <3>3. \E k \in Nat : keep' = Kept(k)'
      BY <1>1, <1>6, <3>1
    <3> QED  BY <1>3, <1>4, <3>2, <3>3 DEF DiverseInv, KeepInv
  <2>2. CASE Cardinality(Newest) > limit /\ keep = Remaining(index)
    <3>1. removals = 0
      <4> SUFFICES ASSUME index = Len(events) + 1 PROVE FALSE
        BY <1>5
      <4>1. keep = {}
        BY <1>2, <2>2 DEF Remaining
      <4>2. Cardinality(keep) = 0
        BY <4>1, FS_EmptySet
      <4> QED  BY <1>2, <4>2
    <3>2. phase' = "done" /\ removals' = 0 /\ Cardinality(Newest') > limit'
      BY <1>1, <1>8, <2>2, <3>1
    <3>3. \E k \in Nat : keep' = Remaining(k)'
      BY <1>1, <1>2, <1>6, <2>2
    <3> QED  BY <1>3, <1>4, <3>2, <3>3 DEF DiverseInv, KeepInv
  <2> QED  BY <1>8, <2>1, <2>2 DEF DiverseInv, KeepInv
<1> QED  BY <1>1, <1>7, <1>8

(* The scans keep the invariant.                                           *)
LEMMA DiverseInvStep == DiverseInv /\ [DiverseNext]_diverseVars => DiverseInv'
<1> SUFFICES ASSUME DiverseInv, [DiverseNext]_diverseVars PROVE DiverseInv'
  OBVIOUS
<1>1. CASE UNCHANGED diverseVars
  <2>1. /\ events' = events /\ limit' = limit /\ keep' = keep /\ counts' = counts
        /\ removals' = removals /\ index' = index /\ phase' = phase
    BY <1>1 DEF diverseVars
  <2>2. DiverseBase' /\ DiverseTypeOK'
    BY <2>1 DEF DiverseInv, DiverseBase, DiverseTypeOK
  <2>3. Newest' = Newest
    BY <2>1 DEF Newest
  <2>4. Kept(index)' = Kept(index) /\ Remaining(index)' = Remaining(index)
        /\ \A m : Kept(m)' = Kept(m) /\ Remaining(m)' = Remaining(m)
    BY <2>1, <2>3 DEF Kept, Remaining
  <2>5. KeepInv'
    BY <2>1, <2>3, <2>4 DEF DiverseInv, KeepInv
  <2> QED  BY <2>2, <2>5 DEF DiverseInv
<1> QED  BY <1>1, DropRedundantKeeps, DropOldestKeeps, EndScanKeeps DEF DiverseNext

(* It holds whenever the events are chosen.                                *)
LEMMA DiverseHolds == DiverseSpec => []DiverseInv
BY DiverseInvInit, DiverseInvStep, PTL DEF DiverseSpec

(* The graph is drawn from events chosen in this way.                      *)
LEMMA GraphChooses == GraphSpec => DiverseSpec
<1>1. GraphInit => DiverseInit
  BY DEF GraphInit
<1>2. [GraphNext]_graphVars => [DiverseNext]_diverseVars
  BY DEF GraphNext, graphVars, Group, RollUp, RolledUp, Promote, Draw
<1> QED  BY <1>1, <1>2, PTL DEF GraphSpec, DiverseSpec

(* However many events are kept, exactly those beyond the limit are still  *)
(* to go (app.js:156, 165, 172).                                           *)
THEOREM GraphDiverseTypeCorrect == GraphSpec => []DiverseTypeOK
<1>1. DiverseInv => DiverseTypeOK
  BY DEF DiverseInv
<1> QED  BY <1>1, DiverseHolds, GraphChooses, PTL

(* The comment of app.js:158-159 holds for every sequence of events: the   *)
(* oldest redundant ones go, and the newest of each relationship stays     *)
(* whenever the limit permits it; if not, the oldest of those go.          *)
THEOREM GraphDiverse == GraphSpec => []Diverse
<1>1. DiverseInv => Diverse
  <2> SUFFICES ASSUME DiverseInv, phase = "done" PROVE Diverse
    BY DEF Diverse
  <2>1. /\ Len(events) \in Nat /\ DOMAIN events = 1..Len(events) /\ limit \in Nat
        /\ removals = 0 /\ keep \subseteq DOMAIN events /\ Newest \subseteq DOMAIN events
        /\ IsFiniteSet(keep) /\ IsFiniteSet(Newest)
        /\ Cardinality(Newest) \in Nat /\ Cardinality(keep) \in Nat
    BY PositionsFinite DEF DiverseInv, DiverseBase, DiverseTypeOK, KeepInv, Newest
  <2>2. Cardinality(keep) = IF Len(events) < limit THEN Len(events) ELSE limit
    BY <2>1 DEF DiverseInv, DiverseTypeOK
  <2>3. ASSUME NEW m \in Nat, keep = Kept(m)
        PROVE  /\ Cardinality(Newest) <= limit /\ Newest \subseteq keep
               /\ \A i \in keep \ Newest, j \in DOMAIN events \ keep : j < i
    <3>1. Newest \subseteq keep
      BY <2>1, <2>3 DEF Kept
    <3>2. Cardinality(Newest) <= Cardinality(keep)
      BY <2>1, <3>1, FS_Subset
    <3>3. \A i \in keep \ Newest, j \in DOMAIN events \ keep : j < i
      BY <2>1, <2>3 DEF Kept
    <3> QED  BY <2>1, <2>2, <3>1, <3>2, <3>3
  <2>4. ASSUME NEW m \in Nat, keep = Remaining(m)
        PROVE  /\ keep \subseteq Newest
               /\ \A i \in keep, j \in Newest \ keep : j < i
    BY <2>1, <2>4 DEF Remaining
  <2>5. CASE \E m \in Nat : keep = Kept(m)
    BY <2>2, <2>3, <2>5 DEF Diverse
  <2>6. CASE Cardinality(Newest) > limit /\ \E m \in Nat : keep = Remaining(m)
    BY <2>1, <2>2, <2>4, <2>6 DEF Diverse
  <2> QED  BY <2>5, <2>6 DEF DiverseInv, KeepInv
<1> QED  BY <1>1, DiverseHolds, GraphChooses, PTL

-----------------------------------------------------------------------------
(* Paths.                                                                  *)

Paths == [abs : BOOLEAN, names : Seq(Name)]

Begins(s, t) == Len(s) <= Len(t) /\ \A i \in 1..Len(s) : s[i] = t[i]

(* What begins a sequence is a prefix of it.                               *)
LEMMA BeginsPrefix ==
  ASSUME NEW s \in Seq(Name), NEW t \in Seq(Name), Begins(s, t)
  PROVE  IsPrefix(s, t)
<1>1. Len(s) \in Nat /\ Len(t) \in Nat /\ Len(s) <= Len(t)
  BY LenProperties DEF Begins
<1>2. PICK n \in Nat : n = Len(s)
  BY <1>1
<1>3. /\ \A i \in 1..n : s[i] \in Name
      /\ \A i \in 1..n : t[i] \in Name
  BY <1>1, <1>2, ElementOfSeq
<1>4. /\ SubSeq(s, 1, n) \in Seq(Name) /\ Len(SubSeq(s, 1, n)) = n
      /\ \A i \in 1..n : SubSeq(s, 1, n)[i] = s[i]
  BY <1>1, <1>2, <1>3, SubSeqProperties
<1>5. /\ SubSeq(t, 1, n) \in Seq(Name) /\ Len(SubSeq(t, 1, n)) = n
      /\ \A i \in 1..n : SubSeq(t, 1, n)[i] = t[i]
  BY <1>1, <1>2, <1>3, SubSeqProperties
<1>6. \A i \in 1..n : SubSeq(s, 1, n)[i] = SubSeq(t, 1, n)[i]
  BY <1>2, <1>4, <1>5 DEF Begins
<1>7. SubSeq(s, 1, n) = SubSeq(t, 1, n)
  BY <1>4, <1>5, <1>6, SeqEqual
<1> QED  BY <1>1, <1>2, <1>7 DEF IsPrefix

(* The parent of a path is a path, and begins it unless there is nothing   *)
(* to take away.                                                           *)
LEMMA ParentFacts ==
  ASSUME NEW p \in Paths, NEW r, r = ParentDirectory(p)
  PROVE  /\ r \in Paths
         /\ p.names = << >> => r = Dot
         /\ p.names # << >> => /\ r.abs = p.abs /\ Begins(r.names, p.names)
                               /\ Len(p.names) = Len(r.names) + 1
<1>1. p.names \in Seq(Name) /\ p.abs \in BOOLEAN
  BY DEF Paths
<1>2. CASE p.names = << >>
  BY <1>2 DEF ParentDirectory, Dot, Paths
<1>3. CASE p.names # << >>
  <2>1. PICK q, n : q = p.names /\ n = Len(q) - 1
    OBVIOUS
  <2>2. q \in Seq(Name) /\ Len(q) \in Nat \ {0} /\ n \in Nat
    BY <1>1, <1>3, <2>1, LenProperties, EmptySeq
  <2>3. \A i \in 1..n : q[i] \in Name
    BY <2>1, <2>2, ElementOfSeq
  <2>4. /\ SubSeq(q, 1, n) \in Seq(Name) /\ Len(SubSeq(q, 1, n)) = n
        /\ \A i \in 1..n : SubSeq(q, 1, n)[i] = q[i]
    BY <2>1, <2>2, <2>3, SubSeqProperties
  <2>5. PICK w : w = SubSeq(q, 1, n)
    OBVIOUS
  <2>6. r = [p EXCEPT !.names = w]
    BY <1>3, <2>1, <2>5 DEF ParentDirectory, Front, Paths
  <2>7. r \in Paths /\ r.abs = p.abs /\ r.names = w
    BY <2>4, <2>5, <2>6 DEF Paths
  <2>8. Len(w) = n /\ n <= Len(q) /\ Len(q) = n + 1 /\ \A i \in 1..n : w[i] = q[i]
    BY <2>1, <2>2, <2>4, <2>5
  <2> QED  BY <1>3, <2>1, <2>7, <2>8 DEF Begins
<1> QED  BY <1>2, <1>3

(* c is a directory in which d lies, or where d is the root, "."; the root *)
(* stands for nothing below it.                                            *)
Under(c, d) ==
  /\ c \in Paths
  /\ \/ c.abs = d.abs /\ Begins(c.names, d.names) /\ (c = Slash => d = Slash)
     \/ c = Dot /\ d = Slash

(* Moving up keeps this: the step at which a directory would come to the   *)
(* root is the one Up does not take.                                       *)
LEMMA UpKeepsUnder ==
  ASSUME NEW c, NEW d \in Paths, Under(c, d)
  PROVE  Under(Up(c), d)
<1>1. c \in Paths /\ c.names \in Seq(Name) /\ c.abs \in BOOLEAN /\ d.names \in Seq(Name)
  BY DEF Under, Paths
<1>2. PICK r : r = ParentDirectory(c)
  OBVIOUS
<1>3. /\ r \in Paths
      /\ c.names = << >> => r = Dot
      /\ c.names # << >> => /\ r.abs = c.abs /\ Begins(r.names, c.names)
                            /\ Len(c.names) = Len(r.names) + 1
  BY <1>1, <1>2, ParentFacts
<1>4. CASE c # Slash /\ r = Slash
  BY <1>2, <1>4 DEF Up
<1>5. CASE ~ (c # Slash /\ r = Slash)
  <2>1. Up(c) = r
    BY <1>2, <1>5 DEF Up
  <2>2. CASE c.names = << >>
    <3>1. r = Dot
      BY <1>3, <2>2
    <3>2. CASE c.abs
      <4>1. c = Slash
        BY <1>1, <2>2, <3>2 DEF Slash, Paths
      <4>2. c # Dot
        BY <4>1 DEF Slash, Dot
      <4>3. d = Slash
        BY <4>1, <4>2 DEF Under
      <4> QED  BY <1>3, <2>1, <3>1, <4>3 DEF Under
    <3>3. CASE ~ c.abs
      <4>1. c = Dot
        BY <1>1, <2>2, <3>3 DEF Dot, Paths
      <4> QED  BY <2>1, <3>1, <4>1
    <3> QED  BY <3>2, <3>3
  <2>3. CASE c.names # << >>
    <3>1. c # Slash /\ c # Dot
      BY <2>3 DEF Slash, Dot
    <3>2. r # Slash
      BY <1>5, <3>1
    <3>3. c.abs = d.abs /\ Begins(c.names, d.names)
      BY <3>1 DEF Under
    <3>4. r.abs = d.abs /\ Begins(r.names, c.names) /\ r.names \in Seq(Name)
      BY <1>3, <2>3, <3>3 DEF Paths
    <3>5. Len(r.names) \in Nat /\ Len(c.names) \in Nat /\ Len(d.names) \in Nat
      BY <1>1, <3>4, LenProperties
    <3>6. Begins(r.names, d.names)
      BY <3>3, <3>4, <3>5 DEF Begins
    <3> QED  BY <1>3, <2>1, <3>2, <3>4, <3>6 DEF Under
  <2> QED  BY <2>2, <2>3
<1> QED  BY <1>4, <1>5

(* A directory lies under itself.                                          *)
LEMMA UnderSelf ==
  ASSUME NEW d \in Paths
  PROVE  Under(d, d)
<1>1. Len(d.names) \in Nat
  BY LenProperties DEF Paths
<1> QED  BY <1>1 DEF Under, Begins

(* What a directory lies under, so do the files in it, and itself.         *)
LEMMA UnderAbove ==
  ASSUME NEW c, NEW d \in Paths, Under(c, d)
  PROVE  /\ Above(c, d)
         /\ \A f \in Paths : d = ParentDirectory(f) => Above(c, f)
<1>1. c \in Paths /\ c.names \in Seq(Name) /\ d.names \in Seq(Name)
  BY DEF Under, Paths
<1>2. Len(c.names) \in Nat /\ Len(d.names) \in Nat
  BY <1>1, LenProperties
<1>3. Above(c, d)
  <2>1. d = Slash => Len(d.names) = 0
    BY DEF Slash
  <2>2. Begins(c.names, d.names) => IsPrefix(c.names, d.names)
    BY <1>1, BeginsPrefix
  <2> QED  BY <2>1, <2>2 DEF Under, Above
<1>4. ASSUME NEW f \in Paths, d = ParentDirectory(f)
      PROVE  Above(c, f)
  <2>1. /\ f.names = << >> => d = Dot
        /\ f.names # << >> => /\ d.abs = f.abs /\ Begins(d.names, f.names)
                              /\ Len(f.names) = Len(d.names) + 1
    BY <1>4, ParentFacts
  <2>2. f.names \in Seq(Name)
    BY DEF Paths
  <2>3. Len(f.names) \in Nat
    BY <2>2, LenProperties
  <2>4. CASE f.names = << >>
    <3>1. d = Dot /\ Len(f.names) = 0
      BY <2>1, <2>4
    <3>2. d # Slash /\ ~ d.abs /\ d.names = << >>
      BY <3>1 DEF Slash, Dot
    <3>3. c.abs = d.abs /\ Begins(c.names, d.names)
      BY <3>2 DEF Under
    <3>4. c.names = << >>
      <4>1. Len(c.names) = 0
        BY <1>2, <3>2, <3>3 DEF Begins
      <4> QED  BY <1>1, <4>1, EmptySeq
    <3>5. c = Dot
      BY <1>1, <3>2, <3>3, <3>4 DEF Dot, Paths
    <3> QED  BY <3>1, <3>5 DEF Above
  <2>5. CASE f.names # << >>
    <3>1. CASE c = Dot /\ d = Slash
      <4>1. Len(d.names) = 0
        BY <3>1 DEF Slash
      <4>2. Len(f.names) = Len(d.names) + 1
        BY <2>1, <2>5
      <4>3. Len(f.names) <= 1
        BY <4>1, <4>2
      <4> QED  BY <3>1, <4>3, Zenon DEF Above
    <3>2. CASE c.abs = d.abs /\ Begins(c.names, d.names)
      <4>1. Begins(c.names, f.names)
        BY <1>2, <2>1, <2>3, <2>5, <3>2 DEF Begins
      <4>2. IsPrefix(c.names, f.names)
        BY <1>1, <2>2, <4>1, BeginsPrefix
      <4> QED  BY <2>1, <2>5, <3>2, <4>2 DEF Above
    <3> QED  BY <3>1, <3>2 DEF Under
  <2> QED  BY <2>4, <2>5
<1> QED  BY <1>3, <1>4

-----------------------------------------------------------------------------
(* Showing files.                                                          *)

(* Showing a file g as itself leaves at least as many targets as there     *)
(* were, as long as no file is also a directory C that stands for files;   *)
(* also when another file f is shown.                                      *)
LEMMA PromotionGrows ==
  ASSUME NEW F, IsFiniteSet(F), NEW C, F \cap C = {}, NEW T, T = [x \in F |-> T[x]],
         \A x \in F : T[x] = x \/ T[x] \in C,
         NEW f \in F, NEW g \in F, NEW U, U = [T EXCEPT ![g] = g]
  PROVE  /\ Cardinality(Distinct([T EXCEPT ![f] = f])) \in Nat
         /\ Cardinality(Distinct([U EXCEPT ![f] = f])) \in Nat
         /\ Cardinality(Distinct([T EXCEPT ![f] = f]))
              <= Cardinality(Distinct([U EXCEPT ![f] = f]))
<1>1. PICK a, b : a = [T EXCEPT ![f] = f] /\ b = [U EXCEPT ![f] = f]
  OBVIOUS
<1>2. /\ DOMAIN a = F /\ DOMAIN b = F
      /\ \A x \in F : a[x] = IF x = f THEN f ELSE T[x]
      /\ \A x \in F : b[x] = IF x = f THEN f ELSE IF x = g THEN g ELSE T[x]
  BY <1>1
<1>3. PICK A, B : A = Distinct(a) /\ B = Distinct(b)
  OBVIOUS
<1>4. A = {a[x] : x \in F} /\ B = {b[x] : x \in F}
  BY <1>2, <1>3 DEF Distinct
<1>5. IsFiniteSet(A) /\ IsFiniteSet(B)
  BY <1>4, ImageFinite
<1>6. Cardinality(A) \in Nat /\ Cardinality(B) \in Nat
  BY <1>5, FS_CardinalityType
<1>7. CASE f = g \/ T[g] = g
  <2>1. \A x \in F : a[x] = b[x]
    BY <1>2, <1>7
  <2>2. A = B
    BY <1>4, <2>1
  <2> QED  BY <1>1, <1>3, <1>6, <2>2
<1>8. CASE f # g /\ T[g] # g
  <2>1. g \notin A
    <3> SUFFICES ASSUME NEW x \in F, a[x] = g PROVE FALSE
      BY <1>4
    <3>1. x # f /\ T[x] = g
      BY <1>2, <1>8
    <3>2. x # g /\ g \notin C
      BY <1>8, <3>1
    <3> QED  BY <3>1, <3>2
  <2>2. (A \ {T[g]}) \cup {g} \subseteq B
    <3>1. g \in B
      BY <1>2, <1>4, <1>8
    <3>2. ASSUME NEW x \in F, a[x] # T[g] PROVE a[x] \in B
      <4>1. CASE x = f
        BY <1>2, <1>4, <4>1
      <4>2. CASE x # f
        BY <1>2, <1>4, <3>2, <4>2
      <4> QED  BY <4>1, <4>2
    <3> QED  BY <1>4, <3>1, <3>2
  <2>3. PICK D : D = A \ {T[g]}
    OBVIOUS
  <2>4. /\ IsFiniteSet(D) /\ Cardinality(D) \in Nat /\ Cardinality(D) >= Cardinality(A) - 1
    <3>1. IsFiniteSet(D) /\ Cardinality(D) = IF T[g] \in A THEN Cardinality(A) - 1 ELSE Cardinality(A)
      BY <1>5, <2>3, FS_RemoveElement
    <3>2. Cardinality(D) \in Nat
      BY <3>1, FS_CardinalityType
    <3> QED  BY <1>6, <3>1, <3>2
  <2>5. Cardinality(D \cup {g}) = Cardinality(D) + 1
    <3>1. g \notin D
      BY <2>1, <2>3
    <3> QED  BY <2>4, <3>1, FS_AddElement
  <2>6. Cardinality(D \cup {g}) <= Cardinality(B)
    BY <1>5, <2>2, <2>3, FS_Subset
  <2> QED  BY <1>1, <1>3, <1>6, <2>4, <2>5, <2>6
<1> QED  BY <1>7, <1>8

-----------------------------------------------------------------------------
(* The drawing.                                                            *)

(* Each file at the directory that stands for its own.                     *)
Rolled == [f \in Files |-> current[ParentDirectory(f)]]

NoFileIsDirectory == Files \cap (Dirs \cup Distinct(current)) = {}

Shown(f) == target[f] = f \/ Cardinality(Distinct(Promoted(f))) > DetailTarget

(* The directories: each is under the one it has come to, and none has     *)
(* moved unless there were too many.                                       *)
DirectoryInv ==
  /\ current = [d \in Dirs |-> current[d]]
  /\ \A d \in Dirs : Under(current[d], d)
  /\ Cardinality(Dirs) <= MaxTargets => \A d \in Dirs : current[d] = d

(* The targets: each file is drawn as itself or at its directory; there    *)
(* are only as many as details allow, or nothing has been promoted; and    *)
(* a file that was passed over cannot be shown later either.               *)
TargetInv ==
  /\ Settled
  /\ target = [f \in Files |-> target[f]]
  /\ todo \subseteq Files
  /\ \A f \in Files : target[f] = f \/ target[f] = current[ParentDirectory(f)]
  /\ Cardinality(Distinct(target)) <= DetailTarget \/ target = Rolled
  /\ Cardinality(Distinct(current)) < DetailTarget /\ NoFileIsDirectory =>
       \A f \in Files \ todo : Shown(f)

GraphInv ==
  /\ gphase \in {"wait", "up", "detail", "drawn"}
  /\ gphase = "wait" => current = << >> /\ target = << >>
  /\ gphase # "wait" => phase = "done" /\ DirectoryInv
  /\ gphase = "up" => target = << >>
  /\ gphase \in {"detail", "drawn"} => TargetInv
  /\ gphase = "drawn" => todo = {}

(* Files are paths, and finitely many; directories are their parents.      *)
LEMMA FilesFacts ==
  ASSUME DiverseInv
  PROVE  /\ IsFiniteSet(Files) /\ Files \subseteq Paths
         /\ Dirs \subseteq Paths
         /\ \A f \in Files : ParentDirectory(f) \in Dirs
         /\ \A d \in Dirs : \E f \in Files : d = ParentDirectory(f)
<1>1. IsFiniteSet(keep) /\ keep \subseteq DOMAIN events /\ events \in Seq(Relation)
  BY PositionsFinite DEF DiverseInv, DiverseTypeOK, DiverseBase
<1>2. IsFiniteSet(Files)
  BY <1>1, ImageFinite DEF Files
<1>3. \A i \in DOMAIN events : events[i] \in Relation
  BY <1>1, ElementOfSeq, LenProperties
<1>4. Relation \subseteq Paths
  BY RollupAssumption DEF Paths
<1>5. Files \subseteq Paths
  BY <1>1, <1>3, <1>4 DEF Files
<1>6. Dirs \subseteq Paths
  BY <1>5, ParentFacts DEF Dirs
<1> QED  BY <1>2, <1>5, <1>6 DEF Dirs

(* The same files as long as the events kept are the same.                 *)
LEMMA SameFiles ==
  ASSUME UNCHANGED diverseVars
  PROVE  Files' = Files /\ Dirs' = Dirs /\ phase' = phase
BY DEF diverseVars, Files, Dirs

(* Nothing is drawn at the start.                                          *)
LEMMA GraphInvInit == GraphInit => GraphInv
BY DEF GraphInit, RollupInit, GraphInv

(* While the events are chosen nothing is drawn.                           *)
LEMMA ChoosingKeeps ==
  ASSUME GraphInv, DiverseNext, UNCHANGED rollupVars
  PROVE  GraphInv'
<1>1. phase # "done"
  BY DEF DiverseNext, DropRedundant, DropOldest, EndScan, Scanning
<1>2. gphase = "wait" /\ gphase' = "wait" /\ current' = current /\ target' = target
  BY <1>1 DEF GraphInv, rollupVars
<1> QED  BY <1>2 DEF GraphInv

(* Each directory starts as itself.                                        *)
LEMMA GroupKeeps ==
  ASSUME DiverseInv, GraphInv, Group
  PROVE  GraphInv'
<1>1. /\ gphase' = "up" /\ current' = [d \in Dirs |-> d] /\ target' = << >> /\ phase = "done"
      /\ Dirs' = Dirs /\ Files' = Files /\ phase' = phase
  BY SameFiles DEF Group, GraphInv
<1>2. \A d \in Dirs : current'[d] = d /\ Under(current'[d], d)
  BY <1>1, FilesFacts, UnderSelf
<1>3. current' = [d \in Dirs |-> current'[d]]
  BY <1>1
<1>4. DirectoryInv'
  BY <1>1, <1>2, <1>3 DEF DirectoryInv
<1> QED  BY <1>1, <1>4 DEF GraphInv

(* Directories move up only if there are too many.                         *)
LEMMA RollUpKeeps ==
  ASSUME DiverseInv, GraphInv, RollUp
  PROVE  GraphInv'
<1>1. /\ gphase = "up" /\ gphase' = "up" /\ target' = << >> /\ phase = "done"
      /\ current' = [d \in Dirs |-> Up(current[d])]
      /\ Dirs' = Dirs /\ Files' = Files /\ phase' = phase /\ DirectoryInv
      /\ Cardinality(Distinct(current)) > MaxTargets
  BY SameFiles DEF RollUp, GraphInv
<1>2. \A d \in Dirs : current'[d] = Up(current[d])
  BY <1>1
<1>3. \A d \in Dirs : Under(current'[d], d)
  BY <1>1, <1>2, FilesFacts, UpKeepsUnder DEF DirectoryInv
<1>4. current' = [d \in Dirs |-> current'[d]]
  BY <1>1
<1>5. ~ (Cardinality(Dirs) <= MaxTargets)
  <2> SUFFICES ASSUME Cardinality(Dirs) <= MaxTargets PROVE FALSE
    OBVIOUS
  <2>1. DOMAIN current = Dirs /\ \A d \in Dirs : current[d] = d
    BY <1>1 DEF DirectoryInv
  <2>2. Distinct(current) = Dirs
    BY <2>1 DEF Distinct
  <2>3. IsFiniteSet(Dirs)
    <3>1. PICK p : p = [f \in Files |-> ParentDirectory(f)]
      OBVIOUS
    <3>2. Dirs = {p[f] : f \in Files}
      BY <3>1 DEF Dirs
    <3> QED  BY <3>2, FilesFacts, ImageFinite
  <2>4. Cardinality(Dirs) \in Nat
    BY <2>3, FS_CardinalityType
  <2> QED  BY <1>1, <2>2, <2>4, RollupAssumption
<1>6. DirectoryInv'
  BY <1>1, <1>3, <1>4, <1>5 DEF DirectoryInv
<1> QED  BY <1>1, <1>6 DEF GraphInv

(* The rolled-up files are drawn at all directories that are left.         *)
LEMMA RolledSame ==
  ASSUME DiverseInv, DirectoryInv
  PROVE  Distinct(Rolled) = Distinct(current)
<1>1. DOMAIN current = Dirs /\ DOMAIN Rolled = Files
  BY DEF DirectoryInv, Rolled
<1>2. \A f \in Files : Rolled[f] = current[ParentDirectory(f)]
  BY DEF Rolled
<1>3. ASSUME NEW d \in Dirs PROVE current[d] \in Distinct(Rolled)
  <2>1. PICK f \in Files : d = ParentDirectory(f)
    BY FilesFacts
  <2> QED  BY <1>1, <1>2, <2>1 DEF Distinct
<1>4. ASSUME NEW f \in Files PROVE Rolled[f] \in Distinct(current)
  BY <1>1, <1>2, FilesFacts DEF Distinct
<1> HIDE DEF Rolled
<1>5. Distinct(Rolled) = {Rolled[f] : f \in Files} /\ Distinct(current) = {current[d] : d \in Dirs}
  BY <1>1 DEF Distinct
<1> QED  BY <1>3, <1>4, <1>5

(* The loop has ended.                                                     *)
LEMMA RolledUpKeeps ==
  ASSUME DiverseInv, GraphInv, RolledUp
  PROVE  GraphInv'
<1>1. /\ gphase = "up" /\ gphase' = "detail" /\ phase = "done" /\ Settled
      /\ current' = current /\ target' = Rolled
      /\ todo' = (IF Cardinality(Distinct(current)) < DetailTarget THEN Files ELSE {})
      /\ Dirs' = Dirs /\ Files' = Files /\ phase' = phase /\ DirectoryInv
  BY SameFiles DEF RolledUp, GraphInv, Rolled
<1>2. DirectoryInv' /\ Settled'
  BY <1>1 DEF DirectoryInv, Settled
<1>3. Rolled' = Rolled
  BY <1>1 DEF Rolled
<1>4. /\ target' = [f \in Files |-> target'[f]]
      /\ \A f \in Files : target'[f] = current[ParentDirectory(f)]
  BY <1>1 DEF Rolled
<1>5. TargetInv'
  <2>1. todo' \subseteq Files'
    BY <1>1
  <2>2. Cardinality(Distinct(current')) < DetailTarget => Files' \ todo' = {}
    BY <1>1
  <2> QED  BY <1>1, <1>2, <1>3, <1>4, <2>1, <2>2 DEF TargetInv
<1> QED  BY <1>1, <1>2, <1>5 DEF GraphInv

(* A file is shown, or there is no room for it.                            *)
LEMMA PromoteKeeps ==
  ASSUME DiverseInv, GraphInv, NEW g \in Relation, Promote(g)
  PROVE  GraphInv'
<1>1. /\ gphase = "detail" /\ gphase' = "detail" /\ phase = "done" /\ g \in todo
      /\ current' = current /\ todo' = todo \ {g}
      /\ Dirs' = Dirs /\ Files' = Files /\ phase' = phase /\ DirectoryInv /\ TargetInv
      /\ target' = IF Cardinality(Distinct(Promoted(g))) > DetailTarget THEN target
                   ELSE Promoted(g)
  BY SameFiles DEF Promote, GraphInv
<1>2. /\ DirectoryInv' /\ Settled' /\ Rolled' = Rolled
      /\ NoFileIsDirectory' = NoFileIsDirectory
  BY <1>1 DEF DirectoryInv, TargetInv, Settled, Rolled, NoFileIsDirectory
<1>3. /\ target = [f \in Files |-> target[f]] /\ todo \subseteq Files /\ g \in Files
      /\ \A f \in Files : target[f] = f \/ target[f] = current[ParentDirectory(f)]
  BY <1>1 DEF TargetInv
<1>4. /\ target' = [f \in Files |-> target'[f]]
      /\ \A f \in Files : target'[f] = f \/ target'[f] = target[f]
  BY <1>1, <1>3 DEF Promoted
<1>5. Cardinality(Distinct(target')) <= DetailTarget \/ target' = Rolled
  <2>1. CASE Cardinality(Distinct(Promoted(g))) > DetailTarget
    BY <1>1, <2>1 DEF TargetInv
  <2>2. CASE ~ (Cardinality(Distinct(Promoted(g))) > DetailTarget)
    <3>1. IsFiniteSet(Distinct(Promoted(g)))
      <4>1. DOMAIN Promoted(g) = Files
        BY <1>3 DEF Promoted
      <4> QED  BY <4>1, FilesFacts, ImageFinite DEF Distinct
    <3>2. Cardinality(Distinct(Promoted(g))) \in Nat
      BY <3>1, FS_CardinalityType
    <3> QED  BY <1>1, <2>2, <3>2, RollupAssumption
  <2> QED  BY <2>1, <2>2
<1>6. ASSUME Cardinality(Distinct(current)) < DetailTarget, NoFileIsDirectory,
             NEW f \in Files \ todo'
      PROVE  target'[f] = f \/ Cardinality(Distinct([target' EXCEPT ![f] = f])) > DetailTarget
  <2>1. CASE f = g
    BY <1>1, <1>3, <2>1 DEF Promoted
  <2>2. CASE f # g /\ target[f] = f
    BY <1>3, <1>4, <2>2
  <2>3. CASE f # g /\ Cardinality(Distinct([target EXCEPT ![f] = f])) > DetailTarget
    <3>1. CASE target' = target
      BY <2>3, <3>1
    <3>2. CASE target' = [target EXCEPT ![g] = g]
      <4>1. PICK C : C = Dirs \cup Distinct(current)
        OBVIOUS
      <4>2. Files \cap C = {}
        BY <1>6, <4>1 DEF NoFileIsDirectory
      <4>3. \A x \in Files : target[x] = x \/ target[x] \in C
        <5>1. \A x \in Files : current[ParentDirectory(x)] \in Distinct(current)
          BY <1>1, FilesFacts DEF DirectoryInv, Distinct
        <5> QED  BY <1>3, <4>1, <5>1
      <4>4. IsFiniteSet(Files)
        BY FilesFacts
      <4>5. PICK m, n : /\ m = Cardinality(Distinct([target EXCEPT ![f] = f]))
                        /\ n = Cardinality(Distinct([target' EXCEPT ![f] = f]))
        OBVIOUS
      <4>6. m \in Nat /\ n \in Nat /\ m <= n
        BY <1>3, <3>2, <4>2, <4>3, <4>4, <4>5, PromotionGrows
      <4> QED  BY <2>3, <4>5, <4>6, RollupAssumption
    <3> QED  BY <1>1, <3>1, <3>2 DEF Promoted
  <2>4. f # g => Shown(f)
    BY <1>1, <1>6 DEF TargetInv
  <2> QED  BY <2>1, <2>2, <2>3, <2>4 DEF Shown, Promoted
<1>7. TargetInv'
  <2>1. todo' \subseteq Files'
    BY <1>1, <1>3
  <2>2. \A f \in Files' : target'[f] = f \/ target'[f] = current'[ParentDirectory(f)]
    BY <1>1, <1>3, <1>4
  <2>3. Cardinality(Distinct(current))' < DetailTarget /\ NoFileIsDirectory' =>
          \A f \in (Files \ todo)' : Shown(f)'
    BY <1>1, <1>2, <1>6 DEF Shown, Promoted
  <2> QED  BY <1>1, <1>2, <1>4, <1>5, <2>1, <2>2, <2>3 DEF TargetInv
<1> QED  BY <1>1, <1>2, <1>7 DEF GraphInv

(* The last file has been looked at.                                       *)
LEMMA DrawKeeps ==
  ASSUME GraphInv, Draw
  PROVE  GraphInv'
<1>1. /\ gphase = "detail" /\ gphase' = "drawn" /\ phase = "done" /\ todo = {} /\ todo' = {}
      /\ current' = current /\ target' = target /\ todo' = todo
      /\ Dirs' = Dirs /\ Files' = Files /\ phase' = phase /\ DirectoryInv /\ TargetInv
  BY SameFiles DEF Draw, GraphInv
<1>2. DirectoryInv'
  BY <1>1 DEF DirectoryInv
<1>3. Settled' /\ Rolled' = Rolled /\ NoFileIsDirectory' = NoFileIsDirectory
      /\ Distinct(current)' = Distinct(current) /\ \A f : Shown(f)' = Shown(f)
  BY <1>1 DEF TargetInv, Settled, Rolled, NoFileIsDirectory, Shown, Promoted
<1>4. TargetInv'
  BY <1>1, <1>3 DEF TargetInv
<1> QED  BY <1>1, <1>2, <1>4 DEF GraphInv

(* Every step keeps both invariants.                                       *)
LEMMA GraphInvStep == DiverseInv /\ GraphInv /\ [GraphNext]_graphVars => GraphInv'
<1> SUFFICES ASSUME DiverseInv, GraphInv, [GraphNext]_graphVars PROVE GraphInv'
  OBVIOUS
<1>1. CASE UNCHANGED graphVars
  <2>1. /\ gphase' = gphase /\ current' = current /\ target' = target /\ todo' = todo
        /\ Dirs' = Dirs /\ Files' = Files /\ phase' = phase
    BY <1>1, SameFiles DEF graphVars, rollupVars
  <2>2. DirectoryInv => DirectoryInv'
    BY <2>1 DEF DirectoryInv
  <2>3. Settled' = Settled /\ Rolled' = Rolled /\ NoFileIsDirectory' = NoFileIsDirectory
        /\ Distinct(current)' = Distinct(current) /\ \A f : Shown(f)' = Shown(f)
    BY <2>1 DEF Settled, Rolled, NoFileIsDirectory, Shown, Promoted
  <2>4. TargetInv => TargetInv'
    BY <2>1, <2>3 DEF TargetInv
  <2> QED  BY <2>1, <2>2, <2>4 DEF GraphInv
<1> QED  BY <1>1, ChoosingKeeps, GroupKeeps, RollUpKeeps, RolledUpKeeps, PromoteKeeps,
            DrawKeeps DEF GraphNext

(* They hold of every drawing.                                             *)
LEMMA GraphHolds == GraphSpec => [](DiverseInv /\ GraphInv)
<1>1. GraphInit => GraphInv
  BY GraphInvInit
<1> QED  BY <1>1, GraphInvStep, DiverseHolds, GraphChooses, PTL DEF GraphSpec

(* However often the directories moved up, every file is drawn as itself   *)
(* or at a directory it lies in (app.js:508-546, 608-615).                 *)
THEOREM GraphDrawnInPlace == GraphSpec => []DrawnInPlace
<1>1. DiverseInv /\ GraphInv => DrawnInPlace
  <2> SUFFICES ASSUME DiverseInv, GraphInv PROVE DrawnInPlace
    OBVIOUS
  <2>1. DOMAIN << >> = {}
    OBVIOUS
  <2>2. ASSUME NEW d \in DOMAIN current PROVE Above(current[d], d)
    <3>1. gphase # "wait"
      BY <2>1, <2>2 DEF GraphInv
    <3>2. d \in Dirs /\ Under(current[d], d)
      BY <3>1 DEF GraphInv, DirectoryInv
    <3> QED  BY <3>2, FilesFacts, UnderAbove
  <2>3. ASSUME NEW f \in DOMAIN target PROVE Above(target[f], f)
    <3>1. gphase \in {"detail", "drawn"}
      BY <2>1, <2>3 DEF GraphInv
    <3>2. f \in Files /\ (target[f] = f \/ target[f] = current[ParentDirectory(f)])
      BY <3>1 DEF GraphInv, TargetInv
    <3>3. CASE target[f] = f
      <4>1. f \in Paths
        BY <3>2, FilesFacts
      <4> QED  BY <3>3, <4>1, UnderSelf, UnderAbove
    <3>4. CASE target[f] = current[ParentDirectory(f)]
      <4>1. PICK d : d = ParentDirectory(f)
        OBVIOUS
      <4>2. f \in Paths /\ d \in Dirs /\ d \in Paths
        BY <3>2, <4>1, FilesFacts
      <4>3. Under(current[d], d)
        BY <3>1, <4>2 DEF GraphInv, DirectoryInv
      <4> QED  BY <3>4, <4>1, <4>2, <4>3, UnderAbove
    <3> QED  BY <3>2, <3>3, <3>4
  <2> QED  BY <2>2, <2>3 DEF DrawnInPlace
<1> QED  BY <1>1, GraphHolds, PTL

(* The limits on targets are kept or cannot be, nothing moves up while all *)
(* directories fit, and details respect their own limit (app.js:508-546).  *)
THEOREM GraphBounded == GraphSpec => []Bounded
<1>1. DiverseInv /\ GraphInv => Bounded
  <2> SUFFICES ASSUME DiverseInv, GraphInv PROVE Bounded
    OBVIOUS
  <2>1. Cardinality(Dirs) <= MaxTargets => \A d \in DOMAIN current : current[d] = d
    <3>1. CASE gphase = "wait"
      BY <3>1 DEF GraphInv
    <3>2. CASE gphase # "wait"
      BY <3>2 DEF GraphInv, DirectoryInv
    <3> QED  BY <3>1, <3>2
  <2>2. ASSUME gphase = "drawn"
        PROVE  /\ \/ Cardinality(Distinct(target)) <= MaxTargets
                  \/ \A d \in Distinct(target) : Up(d) = d
               /\ Cardinality(Distinct(target)) <= DetailTarget \/ target = Rolled
    <3>1. TargetInv /\ DirectoryInv
      BY <2>2 DEF GraphInv
    <3>2. CASE target = Rolled
      <4>1. Distinct(target) = Distinct(current)
        BY <3>1, <3>2, RolledSame
      <4> QED  BY <3>1, <3>2, <4>1 DEF TargetInv, Settled
    <3>3. CASE Cardinality(Distinct(target)) <= DetailTarget
      <4>1. DOMAIN target = Files
        BY <3>1 DEF TargetInv
      <4>2. IsFiniteSet(Distinct(target))
        BY <4>1, FilesFacts, ImageFinite DEF Distinct
      <4>3. Cardinality(Distinct(target)) \in Nat
        BY <4>2, FS_CardinalityType
      <4> QED  BY <3>3, <4>3, RollupAssumption
    <3> QED  BY <3>1, <3>2, <3>3 DEF TargetInv
  <2> QED  BY <2>1, <2>2 DEF Bounded, Rolled
<1> QED  BY <1>1, GraphHolds, PTL

(* No file is left in a group although there was room to show it, in       *)
(* whatever order the files were looked at: a file passed over for lack of *)
(* room could not be shown later either (app.js:533-546).                  *)
THEOREM GraphDetailMaximal == GraphSpec => []DetailMaximal
<1>1. GraphInv => DetailMaximal
  <2> SUFFICES ASSUME GraphInv, gphase = "drawn",
                      Cardinality(Distinct(current)) < DetailTarget,
                      Files \cap (Dirs \cup Distinct(current)) = {},
                      NEW f \in Files
               PROVE  target[f] = f \/ Cardinality(Distinct(Promoted(f))) > DetailTarget
    BY DEF DetailMaximal
  <2>1. TargetInv /\ todo = {} /\ NoFileIsDirectory
    BY DEF GraphInv, NoFileIsDirectory
  <2> QED  BY <2>1 DEF TargetInv, Shown
<1> QED  BY <1>1, GraphHolds, PTL

=============================================================================
