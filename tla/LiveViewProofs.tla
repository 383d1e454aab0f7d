--------------------------- MODULE LiveViewProofs ---------------------------
(***************************************************************************)
(* What holds of the event server and of every page that follows it, for   *)
(* any number of sessions, posts, clears, clicks and lost connections and  *)
(* for any limits.  First each page by itself: its caches, what it drew,   *)
(* its queue.  Then the frames on its stream: what applying them yields is *)
(* compared with the server's buffer.                                      *)
(***************************************************************************)
EXTENDS LiveView, FoldProofs, SequenceTheorems

-----------------------------------------------------------------------------
(* Sequences and their ends.                                               *)

(* The last n elements are at most n, the last ones, and no other values.  *)
LEMMA LatestFacts ==
  ASSUME NEW T, NEW q \in Seq(T), NEW n \in Nat
  PROVE  /\ Latest(q, n) \in Seq(T)
         /\ Len(Latest(q, n)) = IF Len(q) > n THEN n ELSE Len(q)
         /\ \A i \in 1..Len(Latest(q, n)) :
              Latest(q, n)[i] = q[i + Len(q) - Len(Latest(q, n))]
<1>1. Len(q) \in Nat
  BY LenProperties
<1>2. CASE Len(q) > n
  <2>1. Latest(q, n) = SubSeq(q, Len(q) - n + 1, Len(q))
    BY <1>2 DEF Latest
  <2>2. \A i \in (Len(q) - n + 1)..Len(q) : q[i] \in T
    BY <1>1, <1>2, ElementOfSeq
  <2>3. /\ SubSeq(q, Len(q) - n + 1, Len(q)) \in Seq(T)
        /\ Len(SubSeq(q, Len(q) - n + 1, Len(q))) = n
        /\ \A i \in 1..n : SubSeq(q, Len(q) - n + 1, Len(q))[i] = q[i + Len(q) - n]
    BY <1>1, <1>2, <2>2, SubSeqProperties
  <2> QED  BY <1>2, <2>1, <2>3
<1>3. CASE ~ (Len(q) > n)
  <2>1. Latest(q, n) = q
    BY <1>3 DEF Latest
  <2> QED  BY <1>1, <1>3, <2>1
<1> QED  BY <1>2, <1>3

(* Counted from their ends, v and b agree as far as both go.               *)
Agree(v, b) ==
  \A k \in Nat : k < Len(v) /\ k < Len(b) => v[Len(v) - k] = b[Len(b) - k]

(* u is v, or what is left of it when at least ViewMax of its last         *)
(* elements are kept.                                                      *)
Shortened(u, v) ==
  /\ Len(u) <= Len(v)
  /\ Agree(u, v)
  /\ Len(u) < Len(v) => Len(u) >= ViewMax

(* v ends with b, or is the end of it with at least ViewMax elements, and  *)
(* has no event twice; it is empty if b is.                                *)
Covers(v, b) ==
  /\ Agree(v, b)
  /\ Len(v) < Len(b) => Len(v) >= ViewMax
  /\ Rises(v)
  /\ Len(b) = 0 => Len(v) = 0

(* Trimming to ViewMax shortens; to any other limit it agrees.             *)
LEMMA LatestAgrees ==
  ASSUME NEW T, NEW q \in Seq(T), NEW n \in Nat
  PROVE  Agree(Latest(q, n), q)
<1>1. /\ Len(q) \in Nat
      /\ Len(Latest(q, n)) = IF Len(q) > n THEN n ELSE Len(q)
      /\ \A i \in 1..Len(Latest(q, n)) :
              Latest(q, n)[i] = q[i + Len(q) - Len(Latest(q, n))]
  BY LatestFacts, LenProperties
<1> SUFFICES ASSUME NEW k \in Nat, k < Len(Latest(q, n)), k < Len(q)
             PROVE  Latest(q, n)[Len(Latest(q, n)) - k] = q[Len(q) - k]
  BY DEF Agree
<1>2. PICK m : m = Len(Latest(q, n))
  OBVIOUS
<1>3. m \in Nat /\ m - k \in 1..m /\ (m - k) + Len(q) - m = Len(q) - k
  BY <1>1, <1>2
<1> QED  BY <1>1, <1>2, <1>3

(* Trimming a page's events shortens them.                                 *)
LEMMA TrimShortens ==
  ASSUME NEW T, NEW q \in Seq(T)
  PROVE  Shortened(Latest(q, ViewMax), q)
<1>1. Agree(Latest(q, ViewMax), q)
  BY LatestAgrees, ViewAssumption
<1>2. Len(Latest(q, ViewMax)) = IF Len(q) > ViewMax THEN ViewMax ELSE Len(q)
  BY LatestFacts, ViewAssumption
<1> QED  BY <1>1, <1>2, ViewAssumption, LenProperties DEF Shortened

(* What is appended to two sequences leaves their ends alike.              *)
LEMMA AppendAgrees ==
  ASSUME NEW T, NEW u \in Seq(T), NEW v \in Seq(T), NEW d \in Seq(T), Agree(u, v)
  PROVE  Agree(u \o d, v \o d)
<1>1. /\ Len(u) \in Nat /\ Len(v) \in Nat /\ Len(d) \in Nat
      /\ Len(u \o d) = Len(u) + Len(d) /\ Len(v \o d) = Len(v) + Len(d)
  BY ConcatProperties, LenProperties
<1> SUFFICES ASSUME NEW k \in Nat, k < Len(u \o d), k < Len(v \o d)
             PROVE  (u \o d)[Len(u \o d) - k] = (v \o d)[Len(v \o d) - k]
  BY DEF Agree
<1>2. /\ \A i \in 1..(Len(u) + Len(d)) :
            (u \o d)[i] = IF i <= Len(u) THEN u[i] ELSE d[i - Len(u)]
      /\ \A i \in 1..(Len(v) + Len(d)) :
            (v \o d)[i] = IF i <= Len(v) THEN v[i] ELSE d[i - Len(v)]
  BY ConcatProperties
<1>3. CASE k < Len(d)
  <2>1. (u \o d)[Len(u) + Len(d) - k] = d[Len(d) - k]
    <3>1. /\ Len(u) + Len(d) - k \in 1..(Len(u) + Len(d))
          /\ ~ (Len(u) + Len(d) - k <= Len(u))
          /\ (Len(u) + Len(d) - k) - Len(u) = Len(d) - k
      BY <1>1, <1>3
    <3> QED  BY <1>2, <3>1
  <2>2. (v \o d)[Len(v) + Len(d) - k] = d[Len(d) - k]
    <3>1. /\ Len(v) + Len(d) - k \in 1..(Len(v) + Len(d))
          /\ ~ (Len(v) + Len(d) - k <= Len(v))
          /\ (Len(v) + Len(d) - k) - Len(v) = Len(d) - k
      BY <1>1, <1>3
    <3> QED  BY <1>2, <3>1
  <2> QED  BY <1>1, <2>1, <2>2
<1>4. CASE ~ (k < Len(d))
  <2>1. PICK j : j = k - Len(d)
    OBVIOUS
  <2>2. j \in Nat /\ j < Len(u) /\ j < Len(v)
    BY <1>1, <1>4, <2>1
  <2>3. u[Len(u) - j] = v[Len(v) - j]
    BY <2>2 DEF Agree
  <2>4. /\ Len(u \o d) - k = Len(u) - j /\ Len(v \o d) - k = Len(v) - j
        /\ Len(u) - j \in 1..(Len(u) + Len(d)) /\ Len(v) - j \in 1..(Len(v) + Len(d))
        /\ Len(u) - j <= Len(u) /\ Len(v) - j <= Len(v)
    BY <1>1, <2>1, <2>2
  <2> QED  BY <1>2, <2>3, <2>4
<1> QED  BY <1>3, <1>4

(* Shortening both by the same events, and shortening nothing.             *)
LEMMA ShortenedAppend ==
  ASSUME NEW T, NEW u \in Seq(T), NEW v \in Seq(T), NEW d \in Seq(T), Shortened(u, v)
  PROVE  Shortened(u \o d, v \o d)
<1>1. /\ Len(u) \in Nat /\ Len(v) \in Nat /\ Len(d) \in Nat
      /\ Len(u \o d) = Len(u) + Len(d) /\ Len(v \o d) = Len(v) + Len(d)
  BY ConcatProperties, LenProperties
<1>2. Agree(u \o d, v \o d)
  BY AppendAgrees DEF Shortened
<1> QED  BY <1>1, <1>2, ViewAssumption DEF Shortened

(* The end of a view has no event twice if the view has none.              *)
LEMMA EndRises ==
  ASSUME NEW u \in Events, NEW v \in Events, Len(u) <= Len(v), Agree(u, v), Rises(v)
  PROVE  Rises(u)
<1>1. Len(u) \in Nat /\ Len(v) \in Nat
  BY LenProperties DEF Events
<1>2. ASSUME NEW i \in 1..Len(u)
      PROVE  i + (Len(v) - Len(u)) \in 1..Len(v) /\ u[i] = v[i + (Len(v) - Len(u))]
  <2>1. PICK k : k = Len(u) - i
    OBVIOUS
  <2>2. /\ k \in Nat /\ k < Len(u) /\ k < Len(v)
        /\ Len(u) - k = i /\ Len(v) - k = i + (Len(v) - Len(u))
        /\ i + (Len(v) - Len(u)) \in 1..Len(v)
    BY <1>1, <2>1
  <2>3. u[Len(u) - k] = v[Len(v) - k]
    BY <2>2 DEF Agree
  <2> QED  BY <2>2, <2>3
<1> SUFFICES ASSUME NEW i \in 1..Len(u), NEW j \in 1..Len(u), i < j
             PROVE  u[i] < u[j]
  BY DEF Rises
<1>3. i + (Len(v) - Len(u)) < j + (Len(v) - Len(u))
  BY <1>1
<1> QED  BY <1>2, <1>3 DEF Rises

(* A shortened view still covers what the whole one does.                  *)
LEMMA ShortenedCovers ==
  ASSUME NEW u \in Events, NEW v \in Events, NEW b \in Events,
         Shortened(u, v), Covers(v, b)
  PROVE  Covers(u, b)
<1>1. Len(u) \in Nat /\ Len(v) \in Nat /\ Len(b) \in Nat
  BY LenProperties DEF Events
<1>2. Agree(u, b)
  <2> SUFFICES ASSUME NEW k \in Nat, k < Len(u), k < Len(b)
               PROVE  u[Len(u) - k] = b[Len(b) - k]
    BY DEF Agree
  <2>1. k < Len(v)
    BY <1>1 DEF Shortened
  <2>2. u[Len(u) - k] = v[Len(v) - k]
    BY <2>1 DEF Shortened, Agree
  <2>3. v[Len(v) - k] = b[Len(b) - k]
    BY <2>1 DEF Covers, Agree
  <2> QED  BY <2>2, <2>3
<1>3. /\ Len(u) < Len(b) => Len(u) >= ViewMax
      /\ Len(b) = 0 => Len(u) = 0
  BY <1>1, ViewAssumption DEF Shortened, Covers
<1>4. Rises(u)
  BY EndRises DEF Shortened, Covers
<1> QED  BY <1>2, <1>3, <1>4 DEF Covers

(* Events later than those of b are later than those of a view that        *)
(* covers it.                                                              *)
LEMMA PostRises ==
  ASSUME NEW v \in Events, NEW b \in Events, NEW d \in Events, Covers(v, b),
         Rises(b \o d)
  PROVE  Rises(v \o d)
<1>1. /\ Len(b) \in Nat /\ Len(v) \in Nat /\ Len(d) \in Nat
      /\ Len(b \o d) = Len(b) + Len(d) /\ Len(v \o d) = Len(v) + Len(d)
  BY ConcatProperties, LenProperties DEF Events
<1>2. /\ \A i \in 1..(Len(b) + Len(d)) :
            (b \o d)[i] = IF i <= Len(b) THEN b[i] ELSE d[i - Len(b)]
      /\ \A i \in 1..(Len(v) + Len(d)) :
            (v \o d)[i] = IF i <= Len(v) THEN v[i] ELSE d[i - Len(v)]
  BY ConcatProperties DEF Events
<1>3. ASSUME NEW i \in 1..Len(d), NEW j \in 1..Len(d), i < j PROVE d[i] < d[j]
  <2>1. /\ Len(b) + i \in 1..(Len(b) + Len(d)) /\ Len(b) + j \in 1..(Len(b) + Len(d))
        /\ Len(b) + i < Len(b) + j /\ ~ (Len(b) + i <= Len(b)) /\ ~ (Len(b) + j <= Len(b))
        /\ (Len(b) + i) - Len(b) = i /\ (Len(b) + j) - Len(b) = j
    BY <1>1, <1>3
  <2>2. (b \o d)[Len(b) + i] = d[i] /\ (b \o d)[Len(b) + j] = d[j]
    BY <1>2, <2>1
  <2>3. (b \o d)[Len(b) + i] < (b \o d)[Len(b) + j]
    BY <1>1, <2>1 DEF Rises
  <2> QED  BY <2>2, <2>3
<1>4. ASSUME NEW i \in 1..Len(v), NEW j \in 1..Len(d) PROVE v[i] < d[j]
  <2>1. 0 \in Nat /\ 0 < Len(v) /\ 0 < Len(b)
    BY <1>1 DEF Covers
  <2>2. v[Len(v) - 0] = b[Len(b) - 0]
    BY <2>1 DEF Covers, Agree
  <2>3. v[Len(v)] = b[Len(b)]
    BY <1>1, <2>2
  <2>4. /\ Len(b) \in 1..(Len(b) + Len(d)) /\ Len(b) <= Len(b)
        /\ Len(b) + j \in 1..(Len(b) + Len(d)) /\ Len(b) < Len(b) + j
        /\ ~ (Len(b) + j <= Len(b)) /\ (Len(b) + j) - Len(b) = j
    BY <1>1, <2>1
  <2>5. (b \o d)[Len(b)] = b[Len(b)] /\ (b \o d)[Len(b) + j] = d[j]
    BY <1>2, <2>4
  <2>6. b[Len(b)] < d[j]
    BY <1>1, <2>4, <2>5 DEF Rises
  <2>7. i = Len(v) \/ v[i] < v[Len(v)]
    BY <1>1, <2>1 DEF Covers, Rises
  <2>8. v[i] \in Nat /\ v[Len(v)] \in Nat /\ d[j] \in Nat
    BY <1>1, <2>1, ElementOfSeq, ViewAssumption DEF Events
  <2> QED  BY <2>3, <2>6, <2>7, <2>8
<1> SUFFICES ASSUME NEW i \in 1..Len(v \o d), NEW j \in 1..Len(v \o d), i < j
             PROVE  (v \o d)[i] < (v \o d)[j]
  BY DEF Rises
<1>5. CASE j <= Len(v)
  <2>1. i \in 1..Len(v) /\ j \in 1..Len(v)
    BY <1>1, <1>5
  <2>2. (v \o d)[i] = v[i] /\ (v \o d)[j] = v[j]
    BY <1>1, <1>2, <2>1
  <2> QED  BY <2>1, <2>2 DEF Covers, Rises
<1>6. CASE i <= Len(v) /\ ~ (j <= Len(v))
  <2>1. i \in 1..Len(v) /\ j - Len(v) \in 1..Len(d)
    BY <1>1, <1>6
  <2>2. (v \o d)[i] = v[i] /\ (v \o d)[j] = d[j - Len(v)]
    BY <1>1, <1>2, <1>6
  <2> QED  BY <1>4, <2>1, <2>2
<1>7. CASE ~ (i <= Len(v)) /\ ~ (j <= Len(v))
  <2>1. i - Len(v) \in 1..Len(d) /\ j - Len(v) \in 1..Len(d) /\ i - Len(v) < j - Len(v)
    BY <1>1, <1>7
  <2>2. (v \o d)[i] = d[i - Len(v)] /\ (v \o d)[j] = d[j - Len(v)]
    BY <1>1, <1>2, <1>7
  <2> QED  BY <1>3, <2>1, <2>2
<1> QED  BY <1>1, <1>5, <1>6, <1>7

(* New events added to a view and to the buffer, which is then trimmed.    *)
LEMMA CoversPost ==
  ASSUME NEW v \in Events, NEW b \in Events, NEW d \in Events, Covers(v, b),
         Rises(b \o d)
  PROVE  Covers(v \o d, Latest(b \o d, ServerMax))
<1>1. /\ Len(b) \in Nat /\ Len(v) \in Nat /\ Len(d) \in Nat /\ b \o d \in Events
      /\ Len(b \o d) = Len(b) + Len(d) /\ Len(v \o d) = Len(v) + Len(d)
  BY ConcatProperties, LenProperties DEF Events
<1>2. Agree(v \o d, b \o d)
  BY AppendAgrees DEF Covers, Events
<1> DEFINE c == b \o d
           l == Latest(c, ServerMax)
<1>3. Len(l) = (IF Len(c) > ServerMax THEN ServerMax ELSE Len(c)) /\ Agree(l, c)
  BY <1>1, LatestFacts, LatestAgrees, ViewAssumption DEF Events
<1>4. Agree(v \o d, l)
  <2> SUFFICES ASSUME NEW k \in Nat, k < Len(v \o d), k < Len(l)
               PROVE  (v \o d)[Len(v \o d) - k] = l[Len(l) - k]
    BY DEF Agree
  <2>1. k < Len(c)
    BY <1>1, <1>3, ViewAssumption
  <2>2. l[Len(l) - k] = c[Len(c) - k]
    BY <1>3, <2>1 DEF Agree
  <2>3. (v \o d)[Len(v \o d) - k] = c[Len(c) - k]
    BY <1>2, <2>1 DEF Agree
  <2> QED  BY <2>2, <2>3
<1>5. /\ Len(v \o d) < Len(l) => Len(v \o d) >= ViewMax
      /\ Len(l) = 0 => Len(v \o d) = 0
  BY <1>1, <1>3, ViewAssumption DEF Covers
<1>6. Rises(v \o d)
  BY PostRises
<1> QED  BY <1>4, <1>5, <1>6 DEF Covers

-----------------------------------------------------------------------------
(* Applying frames.                                                        *)

Frames == [kind : {"snapshot", "events", "clear"}, data : Events]

(* One frame applied to a view, and all frames of a stream.                *)
Apply(v, f) == IF f.kind = "events" THEN v \o f.data ELSE f.data
After(b, q) == FoldLeft(Apply, b, q)

(* The views passed through while the frames of q are applied to b.        *)
Trace(t, b, q) ==
  /\ t \in [0..Len(q) -> Events]
  /\ t[0] = b
  /\ \A i \in 1..Len(q) : t[i] = Apply(t[i - 1], q[i])

(* A frame applied to a sequence of events gives one.                      *)
LEMMA ApplyType ==
  ASSUME NEW v \in Events, NEW f \in Frames
  PROVE  Apply(v, f) \in Events
<1>1. f.data \in Events
  BY DEF Frames
<1>2. v \o f.data \in Events
  BY <1>1, ConcatProperties DEF Events
<1> QED  BY <1>1, <1>2 DEF Apply

(* The largest of the first i positions is i.                              *)
LEMMA MaxOfFirst ==
  ASSUME NEW i \in Nat, i # 0
  PROVE  Max(1..i) = i
<1>1. i \in 1..i /\ \A y \in 1..i : i >= y
  OBVIOUS
<1>2. Max(1..i) \in 1..i /\ \A y \in 1..i : Max(1..i) >= y
  BY <1>1 DEF Max
<1>3. Max(1..i) >= i /\ i >= Max(1..i)
  BY <1>1, <1>2
<1> QED  BY <1>2, <1>3

(* A nonempty set of the first positions has a largest.                    *)
LEMMA MaxOfPositions ==
  ASSUME NEW n \in Nat, NEW s \in SUBSET (1..n), s # {}
  PROVE  Max(s) \in s
<1> DEFINE D == {k \in Nat : \E x \in s : x + k = n}
<1>1. D # {} /\ D \in SUBSET Nat
  <2>1. PICK x \in s : TRUE
    OBVIOUS
  <2>2. n - x \in Nat /\ x + (n - x) = n
    OBVIOUS
  <2> QED  BY <2>2
<1>2. Min(D) \in D /\ \A y \in D : Min(D) <= y
  <2> HIDE DEF D
  <2> QED  BY <1>1, MinOfNats
<1>3. PICK x \in s : x + Min(D) = n
  BY <1>2
<1>4. \A y \in s : x >= y
  <2> SUFFICES ASSUME NEW y \in s PROVE x >= y
    OBVIOUS
  <2>1. n - y \in D
    OBVIOUS
  <2>2. Min(D) <= n - y /\ Min(D) \in Nat
    BY <1>2, <2>1
  <2> HIDE DEF D
  <2> QED  BY <1>3, <2>2
<1> QED  BY <1>4 DEF Max

(* The fold computes the last view of a trace.                             *)
LEMMA FoldIsTrace ==
  ASSUME NEW b \in Events, NEW q \in Seq(Frames)
  PROVE  \E t : Trace(t, b, q) /\ After(b, q) = t[Len(q)]
<1> DEFINE n == Len(q)
           S == 1..n
           ch == [s \in SUBSET S |-> Max(s)]
           op == [i \in S |-> [v \in Events |-> Apply(v, q[i])]]
           F(it) == [s \in SUBSET S |->
                       IF s = {} THEN b ELSE Apply(it[s \ {Max(s)}], q[Max(s)])]
           iter == CHOOSE it : it = F(it)
<1>1. n \in Nat /\ DOMAIN q = S /\ \A i \in S : q[i] \in Frames
  BY LenProperties, ElementOfSeq
<1>2. After(b, q) = iter[DOMAIN q]
  BY <1>1, Zenon DEF After, FoldLeft, MapThenFoldSet
<1>3. \A s \in SUBSET S : s # {} => Max(s) \in s
  <2> HIDE DEF n
  <2> QED  BY <1>1, MaxOfPositions
<1>4. PICK g : Solves(g, S, Events, b, ch, op)
  <2>1. \A s \in SUBSET S : s # {} => ch[s] \in s
    BY <1>3
  <2>2. op \in [S -> [Events -> Events]]
    BY <1>1, ApplyType
  <2>3. IsFiniteSet(S)
    BY <1>1, FS_Interval
  <2> HIDE DEF S, ch, op
  <2> QED  BY <2>1, <2>2, <2>3, SolutionExists
<1>5. /\ g \in [SUBSET S -> Events]
      /\ \A s \in SUBSET S :
           g[s] = IF s = {} THEN b ELSE op[ch[s]][g[s \ {ch[s]}]]
  <2> HIDE DEF S, ch, op
  <2> QED  BY <1>4 DEF Solves
<1>6. ASSUME NEW s \in SUBSET S
      PROVE  g[s] = IF s = {} THEN b ELSE Apply(g[s \ {Max(s)}], q[Max(s)])
  <2>1. CASE s = {}
    BY <1>5, <2>1
  <2>2. CASE s # {}
    <3>1. PICK m : m = Max(s)
      OBVIOUS
    <3>2. m \in S /\ ch[s] = m /\ g[s \ {m}] \in Events
      BY <1>3, <1>5, <2>2, <3>1
    <3>3. op[m][g[s \ {m}]] = Apply(g[s \ {m}], q[m])
      BY <3>2
    <3> QED  BY <1>5, <2>2, <3>1, <3>2, <3>3
  <2> QED  BY <2>1, <2>2
<1>7. g = F(g)
  <2>1. g = [s \in SUBSET S |-> g[s]]
    BY <1>5
  <2> QED  BY <1>6, <2>1
<1>8. iter = F(iter)
  <2> HIDE DEF F
  <2> QED  BY <1>7
<1>9. ASSUME NEW s \in SUBSET S
      PROVE  iter[s] = IF s = {} THEN b ELSE Apply(iter[s \ {Max(s)}], q[Max(s)])
  <2>1. iter[s] = F(iter)[s]
    <3> HIDE DEF F, iter
    <3> QED  BY <1>8
  <2> HIDE DEF iter
  <2> QED  BY <2>1
<1> HIDE DEF iter, F, ch, op
<1>10. ASSUME NEW i \in S
       PROVE  /\ 1..i \in SUBSET S /\ 1..i # {} /\ Max(1..i) = i
              /\ (1..i) \ {i} = 1..(i - 1)
  <2>1. i \in Nat /\ i # 0 /\ i <= n
    BY <1>1
  <2>2. Max(1..i) = i
    BY <2>1, MaxOfFirst
  <2>3. \A x : x \in 1..i => x \in S
    BY <1>1, <2>1
  <2>4. \A x : x \in (1..i) \ {i} <=> x \in 1..(i - 1)
    BY <2>1
  <2>5. i \in 1..i
    BY <2>1
  <2> QED  BY <2>2, <2>3, <2>4, <2>5, Zenon
<1> DEFINE Bad == {i \in 0..n : iter[1..i] # g[1..i]}
<1>11. Bad = {}
  <2> SUFFICES ASSUME Bad # {} PROVE FALSE
    OBVIOUS
  <2>1. PICK i : i \in Bad /\ \A j \in Bad : i <= j
    <3>1. Bad \in SUBSET Nat
      BY <1>1
    <3> HIDE DEF Bad
    <3> QED  BY <3>1, MinOfNats
  <2>2. i # 0
    <3>1. 1..0 = {} /\ {} \in SUBSET S
      OBVIOUS
    <3> QED  BY <1>6, <1>9, <2>1, <3>1
  <2>3. i \in S /\ i - 1 \in 0..n /\ ~ (i <= i - 1)
    BY <1>1, <2>1, <2>2
  <2>4. iter[1..(i - 1)] = g[1..(i - 1)]
    BY <2>1, <2>3
  <2>5. /\ iter[1..i] = Apply(iter[1..(i - 1)], q[i])
        /\ g[1..i] = Apply(g[1..(i - 1)], q[i])
    BY <1>6, <1>9, <1>10, <2>3
  <2> QED  BY <2>1, <2>4, <2>5
<1> DEFINE t == [i \in 0..n |-> g[1..i]]
<1>12. t \in [0..n -> Events]
  <2>1. \A i \in 0..n : 1..i \in SUBSET S
    BY <1>1
  <2> QED  BY <1>5, <2>1
<1>13. t[0] = b
  <2>1. 1..0 = {} /\ {} \in SUBSET S /\ 0 \in 0..n
    BY <1>1
  <2> QED  BY <1>6, <2>1
<1>14. ASSUME NEW i \in S PROVE t[i] = Apply(t[i - 1], q[i])
  <2>1. i \in 0..n /\ i - 1 \in 0..n
    BY <1>1
  <2>2. g[1..i] = Apply(g[1..(i - 1)], q[i])
    BY <1>6, <1>10
  <2> QED  BY <2>1, <2>2
<1>15. After(b, q) = t[n]
  <2>1. n \in 0..n
    BY <1>1
  <2> QED  BY <1>1, <1>2, <1>11, <2>1
<1> HIDE DEF t
<1> QED  BY <1>12, <1>13, <1>14, <1>15 DEF Trace

(* Traces over the same frames that meet stay together.                    *)
LEMMA TracesMeet ==
  ASSUME NEW q \in Seq(Frames), NEW t, NEW u, NEW b, NEW c,
         Trace(t, b, q), Trace(u, c, q),
         NEW j \in 0..Len(q), t[j] = u[j]
  PROVE  t[Len(q)] = u[Len(q)]
<1> DEFINE Bad == {i \in 0..Len(q) : i >= j /\ t[i] # u[i]}
<1>1. Len(q) \in Nat
  BY LenProperties
<1>2. Bad = {}
  <2> SUFFICES ASSUME Bad # {} PROVE FALSE
    OBVIOUS
  <2>1. PICK i : i \in Bad /\ \A k \in Bad : i <= k
    <3>1. Bad \in SUBSET Nat
      BY <1>1
    <3> HIDE DEF Bad
    <3> QED  BY <3>1, MinOfNats
  <2>2. i # j /\ i \in 1..Len(q) /\ i - 1 \in 0..Len(q) /\ i - 1 >= j /\ ~ (i <= i - 1)
    BY <1>1, <2>1
  <2>3. t[i - 1] = u[i - 1]
    BY <2>1, <2>2
  <2>4. t[i] = Apply(t[i - 1], q[i]) /\ u[i] = Apply(u[i - 1], q[i])
    BY <2>2 DEF Trace
  <2> QED  BY <2>1, <2>3, <2>4
<1> QED  BY <1>1, <1>2

(* The views of a trace from a shortened start are shortened.              *)
LEMMA TracesShorten ==
  ASSUME NEW q \in Seq(Frames), NEW t, NEW u, NEW b, NEW c,
         Trace(t, b, q), Trace(u, c, q), Shortened(b, c)
  PROVE  Shortened(t[Len(q)], u[Len(q)])
<1> DEFINE Bad == {i \in 0..Len(q) : ~ Shortened(t[i], u[i])}
<1>1. Len(q) \in Nat
  BY LenProperties
<1>2. Bad = {}
  <2> SUFFICES ASSUME Bad # {} PROVE FALSE
    OBVIOUS
  <2>1. PICK i : i \in Bad /\ \A k \in Bad : i <= k
    <3>1. Bad \in SUBSET Nat
      BY <1>1
    <3> HIDE DEF Bad
    <3> QED  BY <3>1, MinOfNats
  <2>2. i # 0
    BY <2>1 DEF Trace
  <2>3. i \in 1..Len(q) /\ i - 1 \in 0..Len(q) /\ ~ (i <= i - 1)
    BY <1>1, <2>1, <2>2
  <2>4. Shortened(t[i - 1], u[i - 1])
    BY <2>1, <2>3
  <2>5. /\ t[i] = Apply(t[i - 1], q[i]) /\ u[i] = Apply(u[i - 1], q[i])
        /\ t[i - 1] \in Events /\ u[i - 1] \in Events
    BY <2>3 DEF Trace
  <2>6. q[i] \in Frames
    BY <2>3, ElementOfSeq
  <2>7. q[i].data \in Events
    BY <2>6 DEF Frames
  <2>8. CASE q[i].kind = "events"
    <3>1. Shortened(t[i - 1] \o q[i].data, u[i - 1] \o q[i].data)
      BY <2>4, <2>5, <2>7, ShortenedAppend DEF Events
    <3> QED  BY <2>1, <2>5, <2>8, <3>1 DEF Apply
  <2>9. CASE q[i].kind # "events"
    <3>1. t[i] = u[i] /\ t[i] \in Events
      BY <2>5, <2>7, <2>9 DEF Apply
    <3>2. Len(t[i]) \in Nat
      BY <3>1, LenProperties DEF Events
    <3>3. Shortened(t[i], u[i])
      BY <3>1, <3>2 DEF Shortened, Agree
    <3> QED  BY <2>1, <3>3
  <2> QED  BY <2>8, <2>9
<1> QED  BY <1>1, <1>2

(* All of a trace's last views are the fold's value.                       *)
LEMMA AfterIsLast ==
  ASSUME NEW b \in Events, NEW q \in Seq(Frames), NEW t, Trace(t, b, q)
  PROVE  After(b, q) = t[Len(q)] /\ After(b, q) \in Events
<1>1. PICK u : Trace(u, b, q) /\ After(b, q) = u[Len(q)]
  BY FoldIsTrace
<1>2. 0 \in 0..Len(q) /\ Len(q) \in 0..Len(q)
  BY LenProperties
<1>3. t[0] = u[0]
  BY <1>1 DEF Trace
<1>4. t[Len(q)] = u[Len(q)]
  BY <1>1, <1>2, <1>3, TracesMeet
<1> QED  BY <1>1, <1>2, <1>4 DEF Trace

(* No frame, no change.                                                    *)
LEMMA AfterNone ==
  ASSUME NEW b \in Events
  PROVE  After(b, << >>) = b
<1>1. << >> \in Seq(Frames) /\ Len(<< >>) = 0
  OBVIOUS
<1>2. PICK t : Trace(t, b, << >>) /\ After(b, << >>) = t[Len(<< >>)]
  BY <1>1, FoldIsTrace
<1> QED  BY <1>1, <1>2 DEF Trace

(* The first frame can be applied first.                                   *)
LEMMA AfterFirst ==
  ASSUME NEW b \in Events, NEW q \in Seq(Frames), q # << >>
  PROVE  After(b, q) = After(Apply(b, Head(q)), Tail(q))
<1>1. PICK t : Trace(t, b, q) /\ After(b, q) = t[Len(q)]
  BY FoldIsTrace
<1>2. /\ Len(q) \in Nat \ {0} /\ Head(q) = q[1] /\ Tail(q) \in Seq(Frames)
      /\ Len(Tail(q)) = Len(q) - 1
      /\ \A i \in 1..Len(Tail(q)) : Tail(q)[i] = q[i + 1]
  BY HeadTailProperties, EmptySeq, LenProperties
<1> DEFINE u == [i \in 0..Len(Tail(q)) |-> t[i + 1]]
<1>3. u \in [0..Len(Tail(q)) -> Events]
  BY <1>1, <1>2 DEF Trace
<1>4. u[0] = Apply(b, Head(q)) /\ u[0] \in Events
  BY <1>1, <1>2 DEF Trace
<1>5. ASSUME NEW i \in 1..Len(Tail(q)) PROVE u[i] = Apply(u[i - 1], Tail(q)[i])
  <2>1. i \in 0..Len(Tail(q)) /\ i - 1 \in 0..Len(Tail(q)) /\ i + 1 \in 1..Len(q)
        /\ (i + 1) - 1 = i /\ (i - 1) + 1 = i
    BY <1>2
  <2>2. t[i + 1] = Apply(t[i], q[i + 1])
    BY <1>1, <2>1 DEF Trace
  <2>3. u[i] = t[i + 1] /\ u[i - 1] = t[i]
    BY <2>1
  <2> QED  BY <1>2, <2>2, <2>3
<1>6. u[Len(Tail(q))] = t[Len(q)]
  BY <1>2
<1> HIDE DEF u
<1>7. Trace(u, Apply(b, Head(q)), Tail(q))
  BY <1>3, <1>4, <1>5 DEF Trace
<1>8. After(Apply(b, Head(q)), Tail(q)) = u[Len(Tail(q))]
  BY <1>2, <1>4, <1>7, AfterIsLast
<1> QED  BY <1>1, <1>6, <1>8

(* A frame written last is applied last.                                   *)
LEMMA AfterLast ==
  ASSUME NEW b \in Events, NEW q \in Seq(Frames), NEW f \in Frames
  PROVE  After(b, Append(q, f)) = Apply(After(b, q), f)
<1> DEFINE r == Append(q, f)
<1>1. /\ r \in Seq(Frames) /\ Len(q) \in Nat /\ Len(r) = Len(q) + 1
      /\ r[Len(q) + 1] = f /\ \A i \in 1..Len(q) : r[i] = q[i]
  BY AppendProperties, LenProperties
<1> HIDE DEF r
<1>2. PICK t : Trace(t, b, r) /\ After(b, r) = t[Len(r)]
  BY <1>1, FoldIsTrace
<1> DEFINE u == [i \in 0..Len(q) |-> t[i]]
<1>3. u \in [0..Len(q) -> Events] /\ u[0] = b
  BY <1>1, <1>2 DEF Trace
<1>4. ASSUME NEW i \in 1..Len(q) PROVE u[i] = Apply(u[i - 1], q[i])
  <2>1. i \in 0..Len(q) /\ i - 1 \in 0..Len(q) /\ i \in 1..Len(r)
    BY <1>1
  <2>2. t[i] = Apply(t[i - 1], r[i])
    BY <1>2, <2>1 DEF Trace
  <2> QED  BY <1>1, <2>1, <2>2
<1>5. u[Len(q)] = t[Len(q)] /\ t[Len(r)] = Apply(t[Len(q)], f)
  <2>1. Len(r) \in 1..Len(r) /\ Len(r) - 1 = Len(q) /\ Len(q) \in 0..Len(q)
    BY <1>1
  <2>2. t[Len(r)] = Apply(t[Len(r) - 1], r[Len(r)])
    BY <1>2, <2>1 DEF Trace
  <2> QED  BY <1>1, <2>1, <2>2
<1> HIDE DEF u
<1>6. After(b, q) = u[Len(q)]
  BY <1>3, <1>4, AfterIsLast DEF Trace
<1> QED  BY <1>2, <1>5, <1>6 DEF r

(* Frames applied to a shortened view give a shortened view.               *)
LEMMA AfterShortened ==
  ASSUME NEW b \in Events, NEW c \in Events, NEW q \in Seq(Frames), Shortened(b, c)
  PROVE  Shortened(After(b, q), After(c, q))
<1>1. PICK t : Trace(t, b, q) /\ After(b, q) = t[Len(q)]
  BY FoldIsTrace
<1>2. PICK u : Trace(u, c, q) /\ After(c, q) = u[Len(q)]
  BY FoldIsTrace
<1> QED  BY <1>1, <1>2, TracesShorten

(* A stream with a snapshot or a clear on it replaces whatever was there.  *)
LEMMA AfterReset ==
  ASSUME NEW b \in Events, NEW c \in Events, NEW q \in Seq(Frames),
         \E i \in 1..Len(q) : q[i].kind # "events"
  PROVE  After(b, q) = After(c, q)
<1>1. PICK t : Trace(t, b, q) /\ After(b, q) = t[Len(q)]
  BY FoldIsTrace
<1>2. PICK u : Trace(u, c, q) /\ After(c, q) = u[Len(q)]
  BY FoldIsTrace
<1>3. PICK i \in 1..Len(q) : q[i].kind # "events"
  OBVIOUS
<1>4. t[i] = u[i] /\ i \in 0..Len(q)
  BY <1>1, <1>2, <1>3, LenProperties DEF Trace, Apply
<1> QED  BY <1>1, <1>2, <1>4, TracesMeet

-----------------------------------------------------------------------------
(* Pages.                                                                  *)

Page ==
  [phase : {"fetch", "load", "connect", "open", "live"}, fetched : Events,
   events : Events, queued : Events, paused : BOOLEAN, since : 0..MaxPosts,
   revision : Nat, cachedRevision : Nat, cached : Events,
   cacheValid : BOOLEAN, due : BOOLEAN, shown : Events]

(* The revision counts what happened to the events once the page has       *)
(* loaded; its caches are never ahead, and current at the same revision.   *)
CacheOK(p) ==
  /\ p.phase \in {"fetch", "load"} => p.revision = 0
  /\ p.cachedRevision <= p.revision
  /\ (p.revision > 0 /\ p.cacheValid /\ p.cachedRevision = p.revision)
       => p.cached = p.events

(* A live page is trimmed, and drawn unless a redraw is due.               *)
ShownOK(p) ==
  p.phase = "live" => /\ Len(p.events) <= ViewMax
                      /\ p.shown = p.events \/ p.due

(* Only a paused page holds events back, and none before it has connected. *)
QueueOK(p) ==
  /\ ~ p.paused => p.queued = << >>
  /\ p.phase \in {"fetch", "load"} => p.queued = << >>

PageOK(p) == CacheOK(p) /\ ShownOK(p) /\ QueueOK(p)

(* The empty page is as it should be.                                      *)
LEMMA NewPageOK == NewPage \in Page /\ PageOK(NewPage)
<1>1. << >> \in Events
  BY DEF Events
<1>2. NewPage \in Page
  BY <1>1, ViewAssumption DEF NewPage, Page
<1>3. PageOK(NewPage)
  BY DEF NewPage, PageOK, CacheOK, ShownOK, QueueOK
<1> QED  BY <1>2, <1>3

(* Trimmed events are events, at most ViewMax.                             *)
LEMMA TrimType ==
  ASSUME NEW q \in Events
  PROVE  /\ Latest(q, ViewMax) \in Events
         /\ Len(Latest(q, ViewMax)) <= ViewMax
<1>1. q \in Seq(1..MaxPosts) /\ ViewMax \in Nat /\ Len(q) \in Nat
  BY ViewAssumption, LenProperties DEF Events
<1> QED  BY <1>1, LatestFacts DEF Events

(* Two sequences of events make one.                                       *)
LEMMA ConcatType ==
  ASSUME NEW u \in Events, NEW v \in Events
  PROVE  u \o v \in Events
BY ConcatProperties DEF Events

(* A snapshot leaves a page in order, with its queue as it was.            *)
LEMMA SnapshotPage ==
  ASSUME NEW p \in Page, PageOK(p), p.phase \in {"open", "live"}, NEW d \in Events,
         NEW r, r = OnSnapshot(p, d)
  PROVE  /\ r \in Page /\ PageOK(r)
         /\ r.phase = "live" /\ r.queued = p.queued /\ r.events = Latest(d, ViewMax)
<1>1. Latest(d, ViewMax) \in Events /\ Len(Latest(d, ViewMax)) <= ViewMax
  BY TrimType
<1>2. PICK e, n : e = Latest(d, ViewMax) /\ n = p.revision + 1
  OBVIOUS
<1>3. r = [p EXCEPT !.events = e, !.phase = "live", !.revision = n, !.due = TRUE]
  BY <1>2 DEF OnSnapshot, Due, Changed, Page
<1>4. r \in Page
  <2>1. n \in Nat
    BY <1>2 DEF Page
  <2> QED  BY <1>1, <1>2, <1>3, <2>1 DEF Page
<1>5. /\ r.phase = "live" /\ r.queued = p.queued /\ r.events = e /\ r.due
      /\ r.revision = p.revision + 1 /\ r.cachedRevision = p.cachedRevision
      /\ r.paused = p.paused /\ p.revision \in Nat /\ p.cachedRevision \in Nat
  BY <1>2, <1>3 DEF Page
<1>6. CacheOK(r)
  BY <1>5 DEF PageOK, CacheOK
<1>7. ShownOK(r) /\ QueueOK(r)
  BY <1>1, <1>2, <1>5 DEF PageOK, ShownOK, QueueOK
<1> QED  BY <1>2, <1>4, <1>5, <1>6, <1>7 DEF PageOK

(* So do new events, held back or appended and trimmed.                    *)
LEMMA EventsPage ==
  ASSUME NEW p \in Page, PageOK(p), p.phase = "live", NEW d \in Events,
         NEW r, r = OnEvents(p, d)
  PROVE  /\ r \in Page /\ PageOK(r) /\ r.phase = p.phase
         /\ \/ r.events = p.events /\ r.queued = p.queued \o d
            \/ /\ p.queued = << >> /\ r.queued = << >>
               /\ r.events = Latest(p.events \o d, ViewMax)
<1>1. p.events \in Events /\ p.queued \in Events
  BY DEF Page
<1>2. PICK e, h : e = Latest(p.events \o d, ViewMax) /\ h = p.queued \o d
  OBVIOUS
<1>3. e \in Events /\ Len(e) <= ViewMax /\ h \in Events
  BY <1>1, <1>2, TrimType, ConcatType
<1>4. CASE p.paused
  <2>0. Latest(p.events, ViewMax) = p.events
    <3>1. Len(p.events) <= ViewMax /\ Len(p.events) \in Nat
      BY <1>1, LenProperties DEF PageOK, ShownOK, Events
    <3> QED  BY <3>1, ViewAssumption DEF Latest
  <2>1. r = [p EXCEPT !.queued = h, !.events = p.events, !.due = TRUE]
    BY <1>2, <1>4, <2>0 DEF OnEvents, Due, Page
  <2>2. r \in Page
    BY <1>1, <1>3, <2>1 DEF Page
  <2>3. /\ r.phase = p.phase /\ r.queued = h /\ r.events = p.events /\ r.due
        /\ r.revision = p.revision /\ r.cachedRevision = p.cachedRevision
        /\ r.paused = p.paused /\ r.cacheValid = p.cacheValid /\ r.cached = p.cached
    BY <2>1 DEF Page
  <2>4. PageOK(r)
    BY <1>4, <2>3 DEF PageOK, CacheOK, ShownOK, QueueOK
  <2> QED  BY <1>2, <2>2, <2>3, <2>4
<1>5. CASE ~ p.paused
  <2>0. PICK n : n = p.revision + 1
    OBVIOUS
  <2>1. r = [p EXCEPT !.events = e, !.revision = n, !.due = TRUE]
    BY <1>2, <1>5, <2>0 DEF OnEvents, Due, Changed, Page
  <2>2. r \in Page
    <3>1. n \in Nat
      BY <2>0 DEF Page
    <3> QED  BY <1>3, <2>1, <3>1 DEF Page
  <2>3. /\ r.phase = p.phase /\ r.queued = p.queued /\ r.events = e /\ r.due
        /\ r.revision = p.revision + 1 /\ r.cachedRevision = p.cachedRevision
        /\ r.paused = p.paused /\ p.revision \in Nat /\ p.cachedRevision \in Nat
    BY <2>0, <2>1 DEF Page
  <2>4. p.queued = << >>
    BY <1>5 DEF PageOK, QueueOK
  <2>5. CacheOK(r)
    BY <2>3 DEF PageOK, CacheOK
  <2>6. ShownOK(r) /\ QueueOK(r)
    BY <1>3, <2>3, <2>4 DEF ShownOK, QueueOK
  <2> QED  BY <1>2, <2>2, <2>3, <2>4, <2>5, <2>6 DEF PageOK
<1> QED  BY <1>4, <1>5

(* So does a clear, which empties both.                                    *)
LEMMA ClearPage ==
  ASSUME NEW p \in Page, PageOK(p), p.phase = "live", NEW r, r = OnClear(p)
  PROVE  /\ r \in Page /\ PageOK(r) /\ r.phase = p.phase
         /\ r.events = << >> /\ r.queued = << >>
<1>0. PICK n : n = p.revision + 1
  OBVIOUS
<1>1. << >> \in Events /\ Len(<< >>) = 0
  BY DEF Events
<1>2. r = [p EXCEPT !.events = << >>, !.queued = << >>, !.revision = n, !.due = TRUE]
  BY <1>0 DEF OnClear, Due, Changed, Page
<1>3. r \in Page
  <2>1. n \in Nat
    BY <1>0 DEF Page
  <2> QED  BY <1>1, <1>2, <2>1 DEF Page
<1>4. /\ r.phase = p.phase /\ r.queued = << >> /\ r.events = << >> /\ r.due
      /\ r.revision = p.revision + 1 /\ r.cachedRevision = p.cachedRevision
      /\ p.revision \in Nat /\ p.cachedRevision \in Nat
  BY <1>0, <1>2 DEF Page
<1>5. CacheOK(r)
  BY <1>4 DEF PageOK, CacheOK
<1>6. ShownOK(r) /\ QueueOK(r)
  BY <1>1, <1>4, ViewAssumption DEF ShownOK, QueueOK
<1> QED  BY <1>3, <1>4, <1>5, <1>6 DEF PageOK

(* Drawing changes neither the events nor the queue; its caches are those  *)
(* of the events unless they were current already.                         *)
LEMMA DrawnPage ==
  ASSUME NEW p \in Page, CacheOK(p), QueueOK(p), NEW r, r = Drawn(p),
         p.phase = "live" => Len(p.events) <= ViewMax
  PROVE  /\ r \in Page /\ PageOK(r) /\ r.phase = p.phase
         /\ r.events = p.events /\ r.queued = p.queued
<1> DEFINE fresh == p.cacheValid /\ p.cachedRevision = p.revision
<1>1. PICK c : c = IF fresh THEN p.cached ELSE p.events
  OBVIOUS
<1>2. /\ p.events \in Events /\ p.cached \in Events
      /\ p.revision \in Nat /\ p.cacheValid \in BOOLEAN
  BY DEF Page
<1>3. c \in Events /\ (p.revision > 0 => c = p.events)
  BY <1>1, <1>2 DEF CacheOK
<1>4. r = [p EXCEPT !.shown = p.events, !.cacheValid = TRUE, !.cached = c,
                    !.cachedRevision = p.revision]
  BY <1>1 DEF Drawn
<1> HIDE DEF fresh
<1>5. r \in Page
  BY <1>2, <1>3, <1>4 DEF Page
<1>6. /\ r.phase = p.phase /\ r.queued = p.queued /\ r.events = p.events
      /\ r.shown = p.events /\ r.cached = c /\ r.paused = p.paused
      /\ r.revision = p.revision /\ r.cachedRevision = p.revision
  BY <1>4 DEF Page
<1>7. CacheOK(r)
  BY <1>2, <1>3, <1>6 DEF CacheOK
<1>8. ShownOK(r) /\ QueueOK(r)
  BY <1>6 DEF ShownOK, QueueOK
<1> QED  BY <1>5, <1>6, <1>7, <1>8 DEF PageOK

(* The page after the pause button: a queue that is released is appended   *)
(* to the events, which are trimmed.                                       *)
Toggled(p, z) ==
  LET q == [p EXCEPT !.paused = ~ @, !.since = z]
  IN  Due(IF p.paused /\ p.queued # << >>
          THEN Changed([q EXCEPT !.events = Latest(@ \o p.queued, ViewMax),
                                 !.queued = << >>])
          ELSE q)

(* The pause button leaves a page in order.                                *)
LEMMA ToggledPage ==
  ASSUME NEW p \in Page, PageOK(p), NEW z \in 0..MaxPosts, NEW r, r = Toggled(p, z)
  PROVE  /\ r \in Page /\ PageOK(r) /\ r.phase = p.phase
         /\ \/ r.events = p.events /\ r.queued = p.queued
            \/ /\ r.events = Latest(p.events \o p.queued, ViewMax)
               /\ r.queued = << >>
<1>1. /\ p.events \in Events /\ p.queued \in Events /\ << >> \in Events
      /\ p.revision \in Nat /\ p.cachedRevision \in Nat /\ p.paused \in BOOLEAN
  BY DEF Page, Events
<1>2. PICK e, n : e = Latest(p.events \o p.queued, ViewMax) /\ n = p.revision + 1
  OBVIOUS
<1>3. e \in Events /\ Len(e) <= ViewMax /\ n \in Nat
  BY <1>1, <1>2, TrimType, ConcatType
<1>4. CASE p.paused /\ p.queued # << >>
  <2>1. r = [p EXCEPT !.paused = FALSE, !.since = z, !.events = e, !.queued = << >>,
                      !.revision = n, !.due = TRUE]
    BY <1>1, <1>2, <1>4 DEF Toggled, Due, Changed, Page
  <2>2. r \in Page
    BY <1>1, <1>3, <2>1 DEF Page
  <2>3. /\ r.phase = p.phase /\ r.queued = << >> /\ r.events = e /\ r.due
        /\ r.revision = n /\ r.cachedRevision = p.cachedRevision
    BY <2>1 DEF Page
  <2>4. p.phase \notin {"fetch", "load"}
    BY <1>4 DEF PageOK, QueueOK
  <2>5. CacheOK(r)
    BY <1>1, <1>2, <2>3, <2>4 DEF PageOK, CacheOK
  <2>6. ShownOK(r) /\ QueueOK(r)
    BY <1>3, <2>3 DEF ShownOK, QueueOK
  <2> QED  BY <1>2, <2>2, <2>3, <2>5, <2>6 DEF PageOK
<1>5. CASE ~ (p.paused /\ p.queued # << >>)
  <2>1. r = [p EXCEPT !.paused = ~ p.paused, !.since = z, !.due = TRUE]
    BY <1>5 DEF Toggled, Due, Page
  <2>2. r \in Page
    BY <1>1, <2>1 DEF Page
  <2>3. /\ r.phase = p.phase /\ r.queued = p.queued /\ r.events = p.events /\ r.due
        /\ r.revision = p.revision /\ r.cachedRevision = p.cachedRevision
        /\ r.cacheValid = p.cacheValid /\ r.cached = p.cached
    BY <2>1 DEF Page
  <2>4. p.queued = << >>
    BY <1>5 DEF PageOK, QueueOK
  <2>5. PageOK(r)
    BY <2>3, <2>4 DEF PageOK, CacheOK, ShownOK, QueueOK
  <2> QED  BY <2>2, <2>3, <2>5
<1> QED  BY <1>4, <1>5

-----------------------------------------------------------------------------
(* A page and its stream.                                                  *)

(* A snapshot is the first frame of a stream that has just been opened and *)
(* nowhere else; a clear carries nothing.                                  *)
StreamOK(p, q) ==
  /\ p.phase = "open" => q # << >> /\ q[1].kind = "snapshot"
  /\ \A i \in 1..Len(q) :
       /\ q[i].kind = "snapshot" => i = 1 /\ p.phase = "open"
       /\ q[i].kind = "clear" => q[i].data = << >>

Resets(q) == \E i \in 1..Len(q) : q[i].kind # "events"

(* What the page will hold covers the buffer b, unless the session is      *)
(* spoiled and nothing on its stream replaces what it holds.               *)
FollowOK(p, q, b, sp) ==
  /\ p.phase = "open" /\ ~ sp => p.queued = << >>
  /\ p.phase \in {"open", "live"} /\ (~ sp \/ Resets(q)) =>
       Covers(After(p.events \o p.queued, q), b)

SessionOK(p, q, b, sp) ==
  /\ p \in Page /\ PageOK(p)
  /\ q \in Seq(Frames) /\ StreamOK(p, q)
  /\ FollowOK(p, q, b, sp)

(* A session without a stream is in order whatever the buffer.             *)
LEMMA SessionAside ==
  ASSUME NEW p, NEW q, NEW b, NEW c, NEW sp, SessionOK(p, q, b, sp),
         p.phase \notin {"open", "live"}
  PROVE  SessionOK(p, q, c, sp)
BY DEF SessionOK, FollowOK

(* Applied frames give events.                                             *)
LEMMA AfterType ==
  ASSUME NEW b \in Events, NEW q \in Seq(Frames)
  PROVE  After(b, q) \in Events
BY FoldIsTrace, AfterIsLast

(* The events of a post are written to the stream and added to the buffer. *)
LEMMA SessionPost ==
  ASSUME NEW p, NEW q, NEW b \in Events, NEW sp, SessionOK(p, q, b, sp),
         p.phase \in {"open", "live"}, NEW d \in Events, Rises(b \o d)
  PROVE  SessionOK(p, Append(q, Frame("events", d)), Latest(b \o d, ServerMax), sp)
<1>1. PICK f : f = Frame("events", d)
  OBVIOUS
<1>2. f \in Frames /\ f.kind = "events" /\ f.data = d
  BY <1>1 DEF Frame, Frames
<1>3. p \in Page /\ q \in Seq(Frames) /\ p.events \o p.queued \in Events
  BY ConcatType DEF SessionOK, Page
<1>4. PICK r : r = Append(q, f)
  OBVIOUS
<1>5. /\ r \in Seq(Frames) /\ Len(q) \in Nat /\ Len(r) = Len(q) + 1
      /\ r[Len(q) + 1] = f /\ \A i \in 1..Len(q) : r[i] = q[i]
  BY <1>2, <1>3, <1>4, AppendProperties, LenProperties
<1>6. StreamOK(p, r)
  <2>1. p.phase = "open" => r # << >> /\ r[1].kind = "snapshot"
    <3>1. q # << >> => 1 \in 1..Len(q)
      BY <1>3, <1>5, EmptySeq
    <3>2. r # << >>
      BY <1>5
    <3> QED  BY <1>5, <3>1, <3>2 DEF SessionOK, StreamOK
  <2>2. ASSUME NEW i \in 1..Len(r)
        PROVE  /\ r[i].kind = "snapshot" => i = 1 /\ p.phase = "open"
               /\ r[i].kind = "clear" => r[i].data = << >>
    <3>1. CASE i \in 1..Len(q)
      BY <1>5, <3>1 DEF SessionOK, StreamOK
    <3>2. CASE i = Len(q) + 1
      BY <1>2, <1>5, <3>2
    <3> QED  BY <1>5, <3>1, <3>2
  <2> QED  BY <2>1, <2>2 DEF StreamOK
<1>7. Resets(r) => Resets(q)
  <2> SUFFICES ASSUME NEW i \in 1..Len(r), r[i].kind # "events" PROVE Resets(q)
    BY DEF Resets
  <2>1. i \in 1..Len(q)
    BY <1>2, <1>5
  <2> QED  BY <1>5, <2>1 DEF Resets
<1>8. After(p.events \o p.queued, r) = After(p.events \o p.queued, q) \o d
  BY <1>2, <1>3, <1>4, AfterLast DEF Apply
<1>9. After(p.events \o p.queued, q) \in Events
  BY <1>3, AfterType
<1>10. ASSUME ~ sp \/ Resets(r)
       PROVE  Covers(After(p.events \o p.queued, r), Latest(b \o d, ServerMax))
  <2>1. Covers(After(p.events \o p.queued, q), b)
    BY <1>7, <1>10 DEF SessionOK, FollowOK
  <2> QED  BY <1>8, <1>9, <2>1, CoversPost
<1>11. FollowOK(p, r, Latest(b \o d, ServerMax), sp)
  BY <1>10 DEF SessionOK, FollowOK
<1> QED  BY <1>1, <1>4, <1>5, <1>6, <1>11 DEF SessionOK

(* A clear is written and the buffer emptied.                              *)
LEMMA SessionClear ==
  ASSUME NEW p, NEW q, NEW b, NEW sp, SessionOK(p, q, b, sp),
         p.phase \in {"open", "live"}
  PROVE  SessionOK(p, Append(q, Frame("clear", << >>)), << >>, sp)
<1>1. PICK f : f = Frame("clear", << >>)
  OBVIOUS
<1>2. f \in Frames /\ f.kind = "clear" /\ f.data = << >>
  BY <1>1 DEF Frame, Frames, Events
<1>3. p \in Page /\ q \in Seq(Frames) /\ p.events \o p.queued \in Events
  BY ConcatType DEF SessionOK, Page
<1>4. PICK r : r = Append(q, f)
  OBVIOUS
<1>5. /\ r \in Seq(Frames) /\ Len(q) \in Nat /\ Len(r) = Len(q) + 1
      /\ r[Len(q) + 1] = f /\ \A i \in 1..Len(q) : r[i] = q[i]
  BY <1>2, <1>3, <1>4, AppendProperties, LenProperties
<1>6. StreamOK(p, r)
  <2>1. p.phase = "open" => r # << >> /\ r[1].kind = "snapshot"
    <3>1. q # << >> => 1 \in 1..Len(q)
      BY <1>3, <1>5, EmptySeq
    <3>2. r # << >>
      BY <1>5
    <3> QED  BY <1>5, <3>1, <3>2 DEF SessionOK, StreamOK
  <2>2. ASSUME NEW i \in 1..Len(r)
        PROVE  /\ r[i].kind = "snapshot" => i = 1 /\ p.phase = "open"
               /\ r[i].kind = "clear" => r[i].data = << >>
    <3>1. CASE i \in 1..Len(q)
      BY <1>5, <3>1 DEF SessionOK, StreamOK
    <3>2. CASE i = Len(q) + 1
      BY <1>2, <1>5, <3>2
    <3> QED  BY <1>5, <3>1, <3>2
  <2> QED  BY <2>1, <2>2 DEF StreamOK
<1>7. After(p.events \o p.queued, r) = << >>
  BY <1>2, <1>3, <1>4, AfterLast DEF Apply
<1>8. Covers(<< >>, << >>)
  BY DEF Covers, Agree, Rises
<1>9. FollowOK(p, r, << >>, sp)
  BY <1>7, <1>8 DEF SessionOK, FollowOK
<1> QED  BY <1>1, <1>4, <1>5, <1>6, <1>9 DEF SessionOK

(* A stream is opened with a snapshot; a queue the page still holds spoils *)
(* the session.                                                            *)
LEMMA SessionOpened ==
  ASSUME NEW p, NEW q, NEW b \in Events, NEW sp, SessionOK(p, q, b, sp),
         p.phase = "connect", Rises(b), NEW r, r = [p EXCEPT !.phase = "open"],
         NEW sp2, sp2 = (sp \/ p.queued # << >>)
  PROVE  SessionOK(r, <<Frame("snapshot", b)>>, b, sp2)
<1>1. PICK f : f = Frame("snapshot", b)
  OBVIOUS
<1>2. f \in Frames /\ f.kind = "snapshot" /\ f.data = b
  BY <1>1 DEF Frame, Frames
<1>3. p \in Page /\ PageOK(p)
  BY DEF SessionOK
<1>4. r \in Page
  BY <1>3 DEF Page
<1>5. /\ r.phase = "open" /\ r.queued = p.queued /\ r.events = p.events
      /\ r.revision = p.revision /\ r.cachedRevision = p.cachedRevision
      /\ r.cacheValid = p.cacheValid /\ r.cached = p.cached /\ r.paused = p.paused
  BY <1>3 DEF Page
<1>6. PageOK(r)
  BY <1>3, <1>5 DEF PageOK, CacheOK, ShownOK, QueueOK
<1>7. PICK w : w = <<f>>
  OBVIOUS
<1>8. /\ w \in Seq(Frames) /\ Len(w) = 1 /\ w[1] = f /\ w # << >>
      /\ Head(w) = f /\ Tail(w) = << >>
  BY <1>2, <1>7
<1>9. StreamOK(r, w)
  BY <1>2, <1>5, <1>8 DEF StreamOK
<1>10. r.events \o r.queued \in Events
  BY <1>4, ConcatType DEF Page
<1>11. After(r.events \o r.queued, w) = b
  <2>1. After(r.events \o r.queued, w) = After(Apply(r.events \o r.queued, f), << >>)
    BY <1>8, <1>10, AfterFirst
  <2>2. Apply(r.events \o r.queued, f) = b
    BY <1>2 DEF Apply
  <2> QED  BY <2>1, <2>2, AfterNone
<1>12. Covers(b, b)
  <2>1. Len(b) \in Nat
    BY LenProperties DEF Events
  <2> QED  BY <2>1 DEF Covers, Agree
<1>13. FollowOK(r, w, b, sp2)
  BY <1>5, <1>11, <1>12 DEF FollowOK
<1> QED  BY <1>1, <1>4, <1>6, <1>7, <1>8, <1>9, <1>13 DEF SessionOK

(* The connection is lost.                                                 *)
LEMMA SessionDropped ==
  ASSUME NEW p, NEW q, NEW b, NEW sp, SessionOK(p, q, b, sp),
         p.phase \in {"open", "live"}, NEW r, r = [p EXCEPT !.phase = "connect"]
  PROVE  SessionOK(r, << >>, b, sp)
<1>1. p \in Page /\ PageOK(p)
  BY DEF SessionOK
<1>2. r \in Page
  BY <1>1 DEF Page
<1>3. /\ r.phase = "connect" /\ r.queued = p.queued /\ r.events = p.events
      /\ r.revision = p.revision /\ r.cachedRevision = p.cachedRevision
      /\ r.cacheValid = p.cacheValid /\ r.cached = p.cached /\ r.paused = p.paused
  BY <1>1 DEF Page
<1>4. PageOK(r)
  BY <1>1, <1>3 DEF PageOK, CacheOK, ShownOK, QueueOK
<1>5. << >> \in Seq(Frames) /\ Len(<< >>) = 0
  OBVIOUS
<1> QED  BY <1>2, <1>3, <1>4, <1>5 DEF SessionOK, StreamOK, FollowOK

(* A page that changes without a frame, its view at most shortened.        *)
LEMMA SessionTouched ==
  ASSUME NEW p, NEW q, NEW b \in Events, NEW sp, SessionOK(p, q, b, sp),
         NEW r \in Page, PageOK(r), r.phase = p.phase,
         p.queued = << >> => r.queued = << >>,
         Shortened(r.events \o r.queued, p.events \o p.queued)
  PROVE  SessionOK(r, q, b, sp)
<1>1. p \in Page /\ q \in Seq(Frames) /\ StreamOK(p, q)
  BY DEF SessionOK
<1>2. p.events \o p.queued \in Events /\ r.events \o r.queued \in Events
  BY <1>1, ConcatType DEF Page
<1>3. StreamOK(r, q)
  BY <1>1 DEF StreamOK
<1>4. ASSUME r.phase \in {"open", "live"}, ~ sp \/ Resets(q)
      PROVE  Covers(After(r.events \o r.queued, q), b)
  <2>1. Covers(After(p.events \o p.queued, q), b)
    BY <1>4 DEF SessionOK, FollowOK
  <2>2. Shortened(After(r.events \o r.queued, q), After(p.events \o p.queued, q))
    BY <1>1, <1>2, AfterShortened
  <2>3. After(r.events \o r.queued, q) \in Events /\ After(p.events \o p.queued, q) \in Events
    BY <1>1, <1>2, AfterType
  <2> QED  BY <2>1, <2>2, <2>3, ShortenedCovers
<1>5. FollowOK(r, q, b, sp)
  BY <1>4 DEF SessionOK, FollowOK
<1> QED  BY <1>1, <1>3, <1>5 DEF SessionOK

(* A sequence is a shortening of itself.                                   *)
LEMMA ShortenedSelf ==
  ASSUME NEW v \in Events
  PROVE  Shortened(v, v)
<1>1. Len(v) \in Nat
  BY LenProperties DEF Events
<1> QED  BY <1>1 DEF Shortened, Agree

(* The first frame is applied; the session stays as it was, or is no       *)
(* longer spoiled because the frame replaced what it held.                 *)
LEMMA SessionDelivered ==
  ASSUME NEW p, NEW q, NEW b \in Events, NEW sp, SessionOK(p, q, b, sp),
         p.phase \in {"open", "live"}, q # << >>,
         NEW r \in Page, PageOK(r), r.phase = "live",
         NEW sp2, ~ sp2 => ~ sp \/ Head(q).kind # "events",
         ~ sp2 => Shortened(r.events \o r.queued, Apply(p.events \o p.queued, Head(q)))
  PROVE  SessionOK(r, Tail(q), b, sp2)
<1>1. p \in Page /\ q \in Seq(Frames) /\ StreamOK(p, q)
  BY DEF SessionOK
<1>2. /\ Len(q) \in Nat \ {0} /\ Head(q) = q[1] /\ Tail(q) \in Seq(Frames)
      /\ Len(Tail(q)) = Len(q) - 1 /\ Head(q) \in Frames
      /\ \A i \in 1..Len(Tail(q)) : Tail(q)[i] = q[i + 1]
  BY <1>1, HeadTailProperties, EmptySeq, LenProperties
<1>3. PICK u, v, w : /\ u = p.events \o p.queued /\ v = Apply(u, Head(q))
                     /\ w = r.events \o r.queued
  OBVIOUS
<1>4. u \in Events /\ v \in Events /\ w \in Events
  BY <1>1, <1>2, <1>3, ConcatType, ApplyType DEF Page
<1>5. After(u, q) = After(v, Tail(q))
  BY <1>1, <1>3, <1>4, AfterFirst
<1>6. StreamOK(r, Tail(q))
  <2> SUFFICES ASSUME NEW i \in 1..Len(Tail(q))
               PROVE  /\ Tail(q)[i].kind # "snapshot"
                      /\ Tail(q)[i].kind = "clear" => Tail(q)[i].data = << >>
    BY DEF StreamOK
  <2>1. i + 1 \in 1..Len(q) /\ i + 1 # 1
    BY <1>2
  <2> QED  BY <1>1, <1>2, <2>1 DEF StreamOK
<1>7. Resets(Tail(q)) => Resets(q)
  <2> SUFFICES ASSUME NEW i \in 1..Len(Tail(q)), Tail(q)[i].kind # "events"
               PROVE  Resets(q)
    BY DEF Resets
  <2>1. i + 1 \in 1..Len(q) /\ q[i + 1].kind # "events"
    BY <1>2
  <2> QED  BY <2>1 DEF Resets
<1>8. Head(q).kind # "events" => Resets(q)
  BY <1>2 DEF Resets
<1>9. CASE Resets(Tail(q))
  <2>1. Covers(After(u, q), b)
    BY <1>3, <1>7, <1>9 DEF SessionOK, FollowOK
  <2>2. After(w, Tail(q)) = After(v, Tail(q))
    BY <1>2, <1>4, <1>9, AfterReset DEF Resets
  <2> QED  BY <1>2, <1>3, <1>5, <1>6, <2>1, <2>2 DEF SessionOK, FollowOK
<1>10. CASE ~ sp2
  <2>1. Covers(After(u, q), b)
    BY <1>3, <1>8, <1>10 DEF SessionOK, FollowOK
  <2>2. Shortened(After(w, Tail(q)), After(v, Tail(q)))
    BY <1>2, <1>3, <1>4, <1>10, AfterShortened
  <2>3. After(w, Tail(q)) \in Events /\ After(v, Tail(q)) \in Events
    BY <1>2, <1>4, AfterType
  <2>4. Covers(After(w, Tail(q)), b)
    BY <1>5, <2>1, <2>2, <2>3, ShortenedCovers
  <2> QED  BY <1>2, <1>3, <1>6, <2>4 DEF SessionOK, FollowOK
<1>11. CASE sp2 /\ ~ Resets(Tail(q))
  BY <1>2, <1>6, <1>11 DEF SessionOK, FollowOK
<1> QED  BY <1>9, <1>10, <1>11

-----------------------------------------------------------------------------
(* The system.                                                             *)

(* The inductive invariant: every session is in order.                     *)
ViewInv ==
  /\ posted \in 0..MaxPosts
  /\ buffer \in Events /\ Len(buffer) <= ServerMax
  /\ Rises(buffer) /\ \A i \in 1..Len(buffer) : buffer[i] <= posted
  /\ stream = [s \in Session |-> stream[s]]
  /\ browser = [s \in Session |-> browser[s]]
  /\ clears \in 0..MaxClears /\ drops \in 0..MaxDrops /\ clicks \in 0..MaxClicks
  /\ spoiled \subseteq Session
  /\ \A s \in Session : SessionOK(browser[s], stream[s], buffer, s \in spoiled)

(* It holds at the start.                                                  *)
LEMMA ViewInvInit == ViewInit => ViewInv
<1> SUFFICES ASSUME ViewInit PROVE ViewInv
  OBVIOUS
<1>1. << >> \in Events /\ << >> \in Seq(Frames) /\ Len(<< >>) = 0
  BY DEF Events
<1>2. NewPage.phase = "fetch"
  BY DEF NewPage
<1>3. SessionOK(NewPage, << >>, << >>, FALSE)
  BY <1>1, <1>2, NewPageOK DEF SessionOK, StreamOK, FollowOK
<1>4. \A s \in Session : SessionOK(browser[s], stream[s], buffer, s \in spoiled)
  <2> SUFFICES ASSUME NEW s \in Session
               PROVE  SessionOK(browser[s], stream[s], buffer, s \in spoiled)
    OBVIOUS
  <2>1. browser[s] = NewPage /\ stream[s] = << >> /\ buffer = << >> /\ (s \in spoiled) = FALSE
    BY DEF ViewInit
  <2> QED  BY <1>3, <2>1
<1> HIDE DEF Events
<1>5. stream = [s \in Session |-> stream[s]] /\ browser = [s \in Session |-> browser[s]]
  BY DEF ViewInit
<1>6. Rises(buffer) /\ \A i \in 1..Len(buffer) : buffer[i] <= posted
  BY <1>1 DEF ViewInit, Rises
<1> QED  BY <1>1, <1>4, <1>5, <1>6, ViewAssumption DEF ViewInit, ViewInv

(* A step that only touches session s leaves the others in order.          *)
LEMMA OneSession ==
  ASSUME ViewInv, NEW s \in Session, NEW r, NEW w,
         browser' = [browser EXCEPT ![s] = r], stream' = [stream EXCEPT ![s] = w],
         buffer' = buffer, posted' = posted, spoiled' \subseteq Session,
         clears' \in 0..MaxClears, drops' \in 0..MaxDrops, clicks' \in 0..MaxClicks,
         \A z \in Session \ {s} : z \in spoiled' <=> z \in spoiled,
         SessionOK(r, w, buffer, s \in spoiled')
  PROVE  ViewInv'
<1>1. /\ browser = [z \in Session |-> browser[z]] /\ stream = [z \in Session |-> stream[z]]
  BY DEF ViewInv
<1>2. /\ browser' = [z \in Session |-> browser'[z]] /\ stream' = [z \in Session |-> stream'[z]]
      /\ browser'[s] = r /\ stream'[s] = w
      /\ \A z \in Session \ {s} : browser'[z] = browser[z] /\ stream'[z] = stream[z]
  BY <1>1
<1>3. \A z \in Session : SessionOK(browser'[z], stream'[z], buffer', z \in spoiled')
  <2> SUFFICES ASSUME NEW z \in Session
               PROVE  SessionOK(browser'[z], stream'[z], buffer, z \in spoiled')
    OBVIOUS
  <2>1. CASE z = s
    BY <1>2, <2>1
  <2>2. CASE z # s
    <3>1. SessionOK(browser[z], stream[z], buffer, z \in spoiled)
      BY DEF ViewInv
    <3>2. (z \in spoiled') = (z \in spoiled)
      BY <2>2
    <3> QED  BY <1>2, <2>2, <3>1, <3>2
  <2> QED  BY <2>1, <2>2
<1> QED  BY <1>2, <1>3 DEF ViewInv

(* A frame written to every open stream, with the buffer it belongs to.    *)
LEMMA PostStep ==
  ASSUME ViewInv, NEW n \in 1..MaxBatch, Post(n)
  PROVE  ViewInv'
<1> DEFINE d == [i \in 1..n |-> posted + i]
<1>1. d \in Events /\ posted + n \in 0..MaxPosts
  <2>1. n \in Nat /\ posted \in Nat /\ MaxPosts \in Nat /\ posted + n <= MaxPosts
    BY ViewAssumption DEF ViewInv, Post
  <2>2. \A i \in 1..n : posted + i \in 1..MaxPosts
    BY <2>1
  <2> QED  BY <2>1, <2>2 DEF Events
<1>2. /\ posted' = posted + n /\ buffer' = Latest(buffer \o d, ServerMax)
      /\ stream' = [s \in Session |-> IF s \in Open THEN Append(stream[s], Frame("events", d))
                                       ELSE stream[s]]
      /\ UNCHANGED <<browser, clears, drops, clicks, spoiled>>
  BY DEF Post, Broadcast
<1>5. /\ Rises(buffer \o d)
      /\ \A i \in 1..Len(buffer \o d) : (buffer \o d)[i] <= posted + n
  <2>1. /\ buffer \in Seq(1..MaxPosts) /\ d \in Seq(1..MaxPosts)
        /\ Len(buffer) \in Nat /\ Len(d) = n /\ n \in Nat \ {0} /\ posted \in Nat
    BY <1>1, LenProperties, ViewAssumption DEF ViewInv, Events
  <2>2. /\ Len(buffer \o d) = Len(buffer) + n
        /\ \A i \in 1..(Len(buffer) + n) :
             (buffer \o d)[i] = IF i <= Len(buffer) THEN buffer[i] ELSE d[i - Len(buffer)]
    BY <2>1, ConcatProperties
  <2>3. ASSUME NEW i \in 1..Len(buffer)
        PROVE  (buffer \o d)[i] = buffer[i] /\ buffer[i] \in Nat /\ buffer[i] <= posted
    <3>1. buffer[i] \in 1..MaxPosts
      BY <2>1, ElementOfSeq
    <3>2. buffer[i] \in Nat
      BY <3>1, ViewAssumption
    <3>3. buffer[i] <= posted
      BY DEF ViewInv
    <3> QED  BY <2>1, <2>2, <3>2, <3>3
  <2>4. ASSUME NEW i \in (Len(buffer) + 1)..(Len(buffer) + n)
        PROVE  (buffer \o d)[i] = posted + (i - Len(buffer))
    BY <2>1, <2>2
  <2>5. ASSUME NEW i \in 1..(Len(buffer) + n), NEW j \in 1..(Len(buffer) + n), i < j
        PROVE  (buffer \o d)[i] < (buffer \o d)[j]
    <3>1. CASE j <= Len(buffer)
      BY <2>1, <2>3, <2>5, <3>1 DEF ViewInv, Rises
    <3>2. CASE i <= Len(buffer) /\ ~ (j <= Len(buffer))
      BY <2>1, <2>3, <2>4, <3>2
    <3>3. CASE ~ (i <= Len(buffer)) /\ ~ (j <= Len(buffer))
      BY <2>1, <2>4, <2>5, <3>3
    <3> QED  BY <2>1, <2>5, <3>1, <3>2, <3>3
  <2>6. ASSUME NEW i \in 1..(Len(buffer) + n)
        PROVE  (buffer \o d)[i] <= posted + n
    BY <2>1, <2>3, <2>4
  <2> HIDE DEF d
  <2> QED  BY <2>2, <2>5, <2>6 DEF Rises
<1> HIDE DEF d
<1>6. Rises(buffer') /\ \A i \in 1..Len(buffer') : buffer'[i] <= posted'
  <2>1. PICK c, l : c = buffer \o d /\ l = buffer'
    OBVIOUS
  <2>2. c \in Events /\ ServerMax \in Nat /\ l = Latest(c, ServerMax)
    BY <1>1, <1>2, <2>1, ConcatType, ViewAssumption DEF ViewInv
  <2>3. /\ l \in Events /\ Len(c) \in Nat /\ Len(l) \in Nat /\ Len(l) <= Len(c)
        /\ \A i \in 1..Len(l) : l[i] = c[i + Len(c) - Len(l)]
    <3>1. c \in Seq(1..MaxPosts) /\ Len(c) \in Nat
      BY <2>2, LenProperties DEF Events
    <3>2. /\ l \in Seq(1..MaxPosts)
          /\ Len(l) = IF Len(c) > ServerMax THEN ServerMax ELSE Len(c)
          /\ \A i \in 1..Len(l) : l[i] = c[i + Len(c) - Len(l)]
      BY <2>2, <3>1, LatestFacts
    <3>3. Len(l) \in Nat /\ Len(l) <= Len(c)
      BY <2>2, <3>1, <3>2
    <3> QED  BY <3>1, <3>2, <3>3 DEF Events
  <2>4. Rises(l)
    BY <1>5, <2>1, <2>2, <2>3, LatestAgrees, EndRises DEF Events
  <2>5. ASSUME NEW i \in 1..Len(l) PROVE l[i] <= posted + n
    <3>1. i + Len(c) - Len(l) \in 1..Len(c)
      BY <2>3
    <3> QED  BY <1>5, <2>1, <2>3, <3>1
  <2> QED  BY <1>2, <2>1, <2>4, <2>5
<1>3. buffer' \in Events /\ Len(buffer') <= ServerMax
  <2>1. buffer \o d \in Events /\ ServerMax \in Nat
    BY <1>1, ConcatType, ViewAssumption DEF ViewInv
  <2>2. PICK c : c = buffer \o d
    OBVIOUS
  <2>3. c \in Seq(1..MaxPosts) /\ Len(c) \in Nat
    BY <2>1, <2>2, LenProperties DEF Events
  <2>4. /\ Latest(c, ServerMax) \in Seq(1..MaxPosts)
        /\ Len(Latest(c, ServerMax)) = IF Len(c) > ServerMax THEN ServerMax ELSE Len(c)
    BY <2>1, <2>3, LatestFacts
  <2> QED  BY <1>2, <2>1, <2>2, <2>3, <2>4 DEF Events
<1>4. ASSUME NEW s \in Session
      PROVE  SessionOK(browser'[s], stream'[s], buffer', s \in spoiled')
  <2>1. SessionOK(browser[s], stream[s], buffer, s \in spoiled) /\ buffer \in Events
    BY DEF ViewInv
  <2>2. CASE s \in Open
    <3>1. browser[s].phase \in {"open", "live"}
      BY <2>2 DEF Open
    <3>2. SessionOK(browser[s], Append(stream[s], Frame("events", d)),
                    Latest(buffer \o d, ServerMax), s \in spoiled)
      BY <1>1, <1>5, <2>1, <3>1, SessionPost
    <3> QED  BY <1>2, <2>2, <3>2
  <2>3. CASE s \notin Open
    <3>1. browser[s].phase \notin {"open", "live"}
      BY <2>3 DEF Open
    <3> QED  BY <1>2, <2>1, <2>3, <3>1, SessionAside
  <2> QED  BY <2>2, <2>3
<1> QED  BY <1>1, <1>2, <1>3, <1>4, <1>6 DEF ViewInv

(* The buffer is cleared, and every open stream told.                      *)
LEMMA ClearStep ==
  ASSUME ViewInv, Clear
  PROVE  ViewInv'
<1>1. /\ posted' = posted /\ buffer' = << >>
      /\ stream' = [s \in Session |-> IF s \in Open THEN Append(stream[s], Frame("clear", << >>))
                                       ELSE stream[s]]
      /\ UNCHANGED <<browser, drops, clicks, spoiled>>
  BY DEF Clear, Broadcast
<1>2. clears' \in 0..MaxClears /\ << >> \in Events /\ Len(<< >>) <= ServerMax
  BY ViewAssumption DEF ViewInv, Clear, Events
<1>3. ASSUME NEW s \in Session
      PROVE  SessionOK(browser'[s], stream'[s], buffer', s \in spoiled')
  <2>1. SessionOK(browser[s], stream[s], buffer, s \in spoiled)
    BY DEF ViewInv
  <2>2. CASE s \in Open
    <3>1. browser[s].phase \in {"open", "live"}
      BY <2>2 DEF Open
    <3>2. SessionOK(browser[s], Append(stream[s], Frame("clear", << >>)), << >>, s \in spoiled)
      BY <2>1, <3>1, SessionClear
    <3> QED  BY <1>1, <2>2, <3>2
  <2>3. CASE s \notin Open
    <3>1. browser[s].phase \notin {"open", "live"}
      BY <2>3 DEF Open
    <3> QED  BY <1>1, <2>1, <2>3, <3>1, SessionAside
  <2> QED  BY <2>2, <2>3
<1>4. Rises(buffer') /\ \A i \in 1..Len(buffer') : buffer'[i] <= posted'
  BY <1>1 DEF Rises
<1> QED  BY <1>1, <1>2, <1>3, <1>4 DEF ViewInv

(* The buffer is fetched and, in a later step, loaded: the page has no     *)
(* stream yet.                                                             *)
LEMMA StartupStep ==
  ASSUME ViewInv, NEW s \in Session, AnswerFetch(s) \/ Load(s)
  PROVE  ViewInv'
<1>1. PICK p : p = browser[s]
  OBVIOUS
<1>2. /\ SessionOK(p, stream[s], buffer, s \in spoiled)
      /\ p \in Page /\ PageOK(p) /\ buffer \in Events /\ << >> \in Events
      /\ stream = [stream EXCEPT ![s] = stream[s]]
  BY <1>1 DEF ViewInv, SessionOK, Events
<1>3. ASSUME NEW r, browser' = [browser EXCEPT ![s] = r], r \in Page, PageOK(r),
             r.phase \in {"load", "connect"}, p.phase \in {"fetch", "load"},
             UNCHANGED <<posted, buffer, stream, clears, drops, clicks, spoiled>>
      PROVE  ViewInv'
  <2>1. SessionOK(r, stream[s], buffer, s \in spoiled)
    BY <1>2, <1>3 DEF SessionOK, StreamOK, FollowOK
  <2>2. /\ clears' \in 0..MaxClears /\ drops' \in 0..MaxDrops /\ clicks' \in 0..MaxClicks
        /\ spoiled' \subseteq Session
    BY <1>3 DEF ViewInv
  <2> QED  BY <1>2, <1>3, <2>1, <2>2, OneSession
<1>4. CASE AnswerFetch(s)
  <2>1. PICK r : r = [p EXCEPT !.phase = "load", !.fetched = buffer]
    OBVIOUS
  <2>2. /\ browser' = [browser EXCEPT ![s] = r] /\ p.phase = "fetch"
        /\ UNCHANGED <<posted, buffer, stream, clears, drops, clicks, spoiled>>
    BY <1>1, <1>4, <2>1 DEF AnswerFetch
  <2>3. r \in Page
    BY <1>2, <2>1 DEF Page
  <2>4. /\ r.phase = "load" /\ r.queued = p.queued /\ r.events = p.events
        /\ r.revision = p.revision /\ r.cachedRevision = p.cachedRevision
        /\ r.cacheValid = p.cacheValid /\ r.cached = p.cached /\ r.paused = p.paused
    BY <1>2, <2>1 DEF Page
  <2>5. PageOK(r)
    BY <1>2, <2>2, <2>4 DEF PageOK, CacheOK, ShownOK, QueueOK
  <2> QED  BY <1>3, <2>2, <2>3, <2>4, <2>5
<1>5. CASE Load(s)
  <2>1. PICK m : m = [p EXCEPT !.phase = "connect", !.events = p.fetched, !.fetched = << >>]
    OBVIOUS
  <2>2. PICK r : r = Drawn(m)
    OBVIOUS
  <2>3. /\ browser' = [browser EXCEPT ![s] = r] /\ p.phase = "load"
        /\ UNCHANGED <<posted, buffer, stream, clears, drops, clicks, spoiled>>
    BY <1>1, <1>5, <2>1, <2>2 DEF Load
  <2>4. m \in Page
    BY <1>2, <2>1 DEF Page
  <2>5. /\ m.phase = "connect" /\ m.queued = p.queued /\ m.paused = p.paused
        /\ m.revision = p.revision /\ m.cachedRevision = p.cachedRevision
    BY <1>2, <2>1 DEF Page
  <2>6. CacheOK(m) /\ QueueOK(m)
    BY <1>2, <2>3, <2>5 DEF PageOK, CacheOK, QueueOK
  <2>7. r \in Page /\ PageOK(r) /\ r.phase = m.phase
    BY <2>2, <2>4, <2>5, <2>6, DrawnPage
  <2> QED  BY <1>3, <2>3, <2>5, <2>7
<1> QED  BY <1>4, <1>5

(* A stream is opened or lost.                                             *)
LEMMA ConnectionStep ==
  ASSUME ViewInv, NEW s \in Session, OpenStream(s) \/ Drop(s)
  PROVE  ViewInv'
<1>1. PICK p : p = browser[s]
  OBVIOUS
<1>2. SessionOK(p, stream[s], buffer, s \in spoiled) /\ buffer \in Events
  BY <1>1 DEF ViewInv
<1>3. CASE OpenStream(s)
  <2>1. PICK r, w : r = [p EXCEPT !.phase = "open"] /\ w = <<Frame("snapshot", buffer)>>
    OBVIOUS
  <2>2. /\ browser' = [browser EXCEPT ![s] = r] /\ stream' = [stream EXCEPT ![s] = w]
        /\ p.phase = "connect"
        /\ UNCHANGED <<posted, buffer, clears, drops, clicks>>
        /\ spoiled' = IF p.queued = << >> THEN spoiled ELSE spoiled \cup {s}
    BY <1>1, <1>3, <2>1 DEF OpenStream
  <2>3. (s \in spoiled') = (s \in spoiled \/ p.queued # << >>)
    BY <2>2
  <2>4. SessionOK(r, w, buffer, s \in spoiled')
    BY <1>2, <2>1, <2>2, <2>3, SessionOpened DEF ViewInv
  <2>5. /\ spoiled' \subseteq Session
        /\ \A z \in Session \ {s} : z \in spoiled' <=> z \in spoiled
        /\ clears' \in 0..MaxClears /\ drops' \in 0..MaxDrops /\ clicks' \in 0..MaxClicks
    BY <2>2 DEF ViewInv
  <2> QED  BY <2>2, <2>4, <2>5, OneSession
<1>4. CASE Drop(s)
  <2>1. PICK r : r = [p EXCEPT !.phase = "connect"]
    OBVIOUS
  <2>2. /\ browser' = [browser EXCEPT ![s] = r] /\ stream' = [stream EXCEPT ![s] = << >>]
        /\ p.phase \in {"open", "live"}
        /\ UNCHANGED <<posted, buffer, clears, clicks, spoiled>>
    BY <1>1, <1>4, <2>1 DEF Drop, Open
  <2>3. SessionOK(r, << >>, buffer, s \in spoiled')
    BY <1>2, <2>1, <2>2, SessionDropped
  <2>4. /\ spoiled' \subseteq Session
        /\ clears' \in 0..MaxClears /\ drops' \in 0..MaxDrops /\ clicks' \in 0..MaxClicks
    BY <1>4, <2>2, ViewAssumption DEF ViewInv, Drop
  <2> QED  BY <2>2, <2>3, <2>4, OneSession
<1> QED  BY <1>3, <1>4

(* A button, an input or an animation frame.                               *)
LEMMA PageStep ==
  ASSUME ViewInv, NEW s \in Session, TogglePause(s) \/ Filter(s) \/ Render(s)
  PROVE  ViewInv'
<1>1. PICK p : p = browser[s]
  OBVIOUS
<1>2. /\ SessionOK(p, stream[s], buffer, s \in spoiled) /\ buffer \in Events
      /\ p \in Page /\ PageOK(p) /\ stream = [stream EXCEPT ![s] = stream[s]]
  BY <1>1 DEF ViewInv, SessionOK
<1>3. ASSUME NEW r, browser' = [browser EXCEPT ![s] = r], r \in Page, PageOK(r),
             r.phase = p.phase,
             \/ r.events = p.events /\ r.queued = p.queued
             \/ r.events = Latest(p.events \o p.queued, ViewMax) /\ r.queued = << >>,
             UNCHANGED <<posted, buffer, stream, clears, drops, spoiled>>,
             clicks' \in 0..MaxClicks
      PROVE  ViewInv'
  <2>1. p.events \o p.queued \in Events
    BY <1>2, ConcatType DEF Page
  <2>2. Shortened(r.events \o r.queued, p.events \o p.queued)
    <3>1. CASE r.events = p.events /\ r.queued = p.queued
      BY <2>1, <3>1, ShortenedSelf
    <3>2. CASE r.events = Latest(p.events \o p.queued, ViewMax) /\ r.queued = << >>
      <4>1. Latest(p.events \o p.queued, ViewMax) \o << >> = Latest(p.events \o p.queued, ViewMax)
        BY <2>1, TrimType, ConcatEmptySeq DEF Events
      <4> QED  BY <2>1, <3>2, <4>1, TrimShortens DEF Events
    <3> QED  BY <1>3, <3>1, <3>2
  <2>3. SessionOK(r, stream[s], buffer, s \in spoiled)
    BY <1>2, <1>3, <2>2, SessionTouched
  <2>4. /\ spoiled' \subseteq Session
        /\ clears' \in 0..MaxClears /\ drops' \in 0..MaxDrops
    BY <1>3 DEF ViewInv
  <2> QED  BY <1>2, <1>3, <2>3, <2>4, OneSession
<1>4. clicks < MaxClicks => clicks + 1 \in 0..MaxClicks
  BY ViewAssumption DEF ViewInv
<1>5. CASE TogglePause(s)
  <2>1. PICK z : z = IF p.phase = "live" THEN posted ELSE MaxPosts
    OBVIOUS
  <2>2. PICK r : r = Toggled(p, z)
    OBVIOUS
  <2>3. /\ browser' = [browser EXCEPT ![s] = r] /\ clicks < MaxClicks /\ clicks' = clicks + 1
        /\ UNCHANGED <<posted, buffer, stream, clears, drops, spoiled>>
    BY <1>1, <1>5, <2>1, <2>2 DEF TogglePause, Toggled
  <2>4. z \in 0..MaxPosts
    BY <2>1, ViewAssumption DEF ViewInv
  <2>5. /\ r \in Page /\ PageOK(r) /\ r.phase = p.phase
        /\ \/ r.events = p.events /\ r.queued = p.queued
           \/ /\ r.events = Latest(p.events \o p.queued, ViewMax)
              /\ r.queued = << >>
    BY <1>2, <2>2, <2>4, ToggledPage
  <2> QED  BY <1>3, <1>4, <2>3, <2>5
<1>6. CASE Filter(s)
  <2>1. PICK r : r = [p EXCEPT !.due = TRUE]
    OBVIOUS
  <2>2. /\ browser' = [browser EXCEPT ![s] = r] /\ clicks < MaxClicks /\ clicks' = clicks + 1
        /\ UNCHANGED <<posted, buffer, stream, clears, drops, spoiled>>
    BY <1>1, <1>6, <2>1 DEF Filter, Due
  <2>3. r \in Page
    BY <1>2, <2>1 DEF Page
  <2>4. /\ r.phase = p.phase /\ r.queued = p.queued /\ r.events = p.events /\ r.due
        /\ r.revision = p.revision /\ r.cachedRevision = p.cachedRevision
        /\ r.cacheValid = p.cacheValid /\ r.cached = p.cached /\ r.paused = p.paused
    BY <1>2, <2>1 DEF Page
  <2>5. PageOK(r)
    BY <1>2, <2>4 DEF PageOK, CacheOK, ShownOK, QueueOK
  <2> QED  BY <1>3, <1>4, <2>2, <2>3, <2>4, <2>5
<1>7. CASE Render(s)
  <2>1. PICK m : m = [p EXCEPT !.due = FALSE]
    OBVIOUS
  <2>2. PICK r : r = Drawn(m)
    OBVIOUS
  <2>3. /\ browser' = [browser EXCEPT ![s] = r]
        /\ UNCHANGED <<posted, buffer, stream, clears, drops, clicks, spoiled>>
    BY <1>1, <1>7, <2>1, <2>2 DEF Render
  <2>4. m \in Page
    BY <1>2, <2>1 DEF Page
  <2>5. /\ m.phase = p.phase /\ m.queued = p.queued /\ m.events = p.events
        /\ m.revision = p.revision /\ m.cachedRevision = p.cachedRevision
        /\ m.cacheValid = p.cacheValid /\ m.cached = p.cached /\ m.paused = p.paused
    BY <1>2, <2>1 DEF Page
  <2>6. CacheOK(m) /\ QueueOK(m) /\ (m.phase = "live" => Len(m.events) <= ViewMax)
    BY <1>2, <2>5 DEF PageOK, CacheOK, QueueOK, ShownOK
  <2>7. r \in Page /\ PageOK(r) /\ r.phase = m.phase /\ r.events = m.events /\ r.queued = m.queued
    BY <2>2, <2>4, <2>6, DrawnPage
  <2>8. clicks' \in 0..MaxClicks
    BY <2>3 DEF ViewInv
  <2> QED  BY <1>3, <2>3, <2>5, <2>7, <2>8
<1> QED  BY <1>5, <1>6, <1>7

(* A frame arrives.                                                        *)
LEMMA DeliverStep ==
  ASSUME ViewInv, NEW s \in Session, Deliver(s)
  PROVE  ViewInv'
<1>1. PICK p, q : p = browser[s] /\ q = stream[s]
  OBVIOUS
<1>2. PICK f : f = Head(q)
  OBVIOUS
<1>3. PICK r : r = CASE f.kind = "snapshot" -> OnSnapshot(p, f.data)
                     [] f.kind = "events" -> OnEvents(p, f.data)
                     [] f.kind = "clear" -> OnClear(p)
  OBVIOUS
<1>4. /\ p.phase \in {"open", "live"} /\ q # << >>
      /\ stream' = [stream EXCEPT ![s] = Tail(q)]
      /\ browser' = [browser EXCEPT ![s] = r]
      /\ spoiled' = IF f.kind = "clear" \/ (f.kind = "snapshot" /\ p.queued = << >>)
                    THEN spoiled \ {s} ELSE spoiled
      /\ UNCHANGED <<posted, buffer, clears, drops, clicks>>
  BY <1>1, <1>2, <1>3 DEF Deliver, Open
<1>5. /\ SessionOK(p, q, buffer, s \in spoiled) /\ buffer \in Events
      /\ p \in Page /\ PageOK(p) /\ q \in Seq(Frames) /\ StreamOK(p, q)
      /\ FollowOK(p, q, buffer, s \in spoiled)
  BY <1>1 DEF ViewInv, SessionOK
<1>6. f \in Frames /\ f = q[1] /\ 1 \in 1..Len(q)
  BY <1>2, <1>4, <1>5, HeadTailProperties, EmptySeq, LenProperties
<1>7. f.data \in Events /\ f.kind \in {"snapshot", "events", "clear"}
  BY <1>6 DEF Frames
<1>8. p.events \in Events /\ p.queued \in Events /\ p.events \o p.queued \in Events
  BY <1>5, ConcatType DEF Page
<1>9. ASSUME r \in Page, PageOK(r), r.phase = "live",
             s \notin spoiled' => s \notin spoiled \/ f.kind # "events",
             s \notin spoiled' =>
               Shortened(r.events \o r.queued, Apply(p.events \o p.queued, f))
      PROVE  ViewInv'
  <2>1. SessionOK(r, Tail(q), buffer, s \in spoiled')
    BY <1>2, <1>4, <1>5, <1>9, SessionDelivered
  <2>2. /\ spoiled' \subseteq Session
        /\ \A z \in Session \ {s} : z \in spoiled' <=> z \in spoiled
        /\ clears' \in 0..MaxClears /\ drops' \in 0..MaxDrops /\ clicks' \in 0..MaxClicks
    BY <1>4 DEF ViewInv
  <2> QED  BY <1>4, <2>1, <2>2, OneSession
<1>10. CASE f.kind = "snapshot"
  <2>1. r = OnSnapshot(p, f.data)
    BY <1>3, <1>10
  <2>2. /\ r \in Page /\ PageOK(r) /\ r.phase = "live" /\ r.queued = p.queued
        /\ r.events = Latest(f.data, ViewMax)
    BY <1>4, <1>5, <1>7, <2>1, SnapshotPage
  <2>3. p.phase = "open"
    BY <1>5, <1>6, <1>10 DEF StreamOK
  <2>4. s \notin spoiled' => p.queued = << >>
    BY <1>4, <1>5, <1>10, <2>3 DEF FollowOK
  <2>5. Latest(f.data, ViewMax) \o << >> = Latest(f.data, ViewMax)
    BY <1>7, TrimType, ConcatEmptySeq DEF Events
  <2>6. Apply(p.events \o p.queued, f) = f.data
    BY <1>10 DEF Apply
  <2>7. Shortened(Latest(f.data, ViewMax), f.data)
    BY <1>7, TrimShortens DEF Events
  <2> QED  BY <1>9, <1>10, <2>2, <2>4, <2>5, <2>6, <2>7
<1>11. CASE f.kind = "events"
  <2>1. r = OnEvents(p, f.data)
    BY <1>3, <1>11
  <2>2. p.phase = "live"
    BY <1>4, <1>5, <1>6, <1>11 DEF StreamOK
  <2>3. /\ r \in Page /\ PageOK(r) /\ r.phase = "live"
        /\ \/ r.events = p.events /\ r.queued = p.queued \o f.data
           \/ /\ p.queued = << >> /\ r.queued = << >>
              /\ r.events = Latest(p.events \o f.data, ViewMax)
    BY <1>5, <1>7, <2>1, <2>2, EventsPage
  <2>4. Apply(p.events \o p.queued, f) = (p.events \o p.queued) \o f.data
    BY <1>11 DEF Apply
  <2>5. Shortened(r.events \o r.queued, (p.events \o p.queued) \o f.data)
    <3>1. CASE r.events = p.events /\ r.queued = p.queued \o f.data
      <4>1. p.events \o (p.queued \o f.data) = (p.events \o p.queued) \o f.data
        <5>1. PICK u, v, w : u = p.events /\ v = p.queued /\ w = f.data
          OBVIOUS
        <5>2. u \in Seq(1..MaxPosts) /\ v \in Seq(1..MaxPosts) /\ w \in Seq(1..MaxPosts)
          BY <1>7, <1>8, <5>1 DEF Events
        <5>3. (u \o v) \o w = u \o (v \o w)
          BY <5>2, ConcatAssociative
        <5> QED  BY <5>1, <5>3
      <4>2. (p.events \o p.queued) \o f.data \in Events
        BY <1>7, <1>8, ConcatType
      <4> QED  BY <3>1, <4>1, <4>2, ShortenedSelf
    <3>2. CASE /\ p.queued = << >> /\ r.queued = << >>
               /\ r.events = Latest(p.events \o f.data, ViewMax)
      <4>1. p.events \o << >> = p.events
        BY <1>8, ConcatEmptySeq DEF Events
      <4>2. p.events \o f.data \in Events
        BY <1>7, <1>8, ConcatType
      <4>3. Latest(p.events \o f.data, ViewMax) \o << >> = Latest(p.events \o f.data, ViewMax)
        BY <4>2, TrimType, ConcatEmptySeq DEF Events
      <4> QED  BY <3>2, <4>1, <4>2, <4>3, TrimShortens DEF Events
    <3> QED  BY <2>3, <3>1, <3>2
  <2>6. spoiled' = spoiled
    BY <1>4, <1>11
  <2> QED  BY <1>9, <2>3, <2>4, <2>5, <2>6
<1>12. CASE f.kind = "clear"
  <2>1. r = OnClear(p)
    BY <1>3, <1>12
  <2>2. p.phase = "live"
    BY <1>4, <1>5, <1>6, <1>12 DEF StreamOK
  <2>3. r \in Page /\ PageOK(r) /\ r.phase = "live" /\ r.events = << >> /\ r.queued = << >>
    BY <1>5, <2>1, <2>2, ClearPage
  <2>4. f.data = << >>
    BY <1>5, <1>6, <1>12 DEF StreamOK
  <2>5. Apply(p.events \o p.queued, f) = << >> /\ << >> \o << >> = << >> /\ << >> \in Events
    BY <1>12, <2>4 DEF Apply, Events
  <2> QED  BY <1>9, <1>12, <2>3, <2>5, ShortenedSelf
<1> QED  BY <1>7, <1>10, <1>11, <1>12

(* Every step keeps every session in order.                                *)
LEMMA ViewInvStep == ViewInv /\ [ViewNext]_vars => ViewInv'
<1> SUFFICES ASSUME ViewInv, [ViewNext]_vars PROVE ViewInv'
  OBVIOUS
<1>1. CASE \E n \in 1..MaxBatch : Post(n)
  BY <1>1, PostStep
<1>2. CASE Clear
  BY <1>2, ClearStep
<1>3. ASSUME NEW s \in Session,
             \/ AnswerFetch(s) \/ OpenStream(s) \/ Drop(s) \/ Deliver(s)
             \/ Load(s) \/ TogglePause(s) \/ Filter(s) \/ Render(s)
      PROVE  ViewInv'
  BY <1>3, StartupStep, ConnectionStep, DeliverStep, PageStep
<1>4. CASE UNCHANGED vars
  BY <1>4 DEF vars, ViewInv
<1> QED  BY <1>1, <1>2, <1>3, <1>4 DEF ViewNext

(* The invariant holds of every behaviour.                                 *)
LEMMA ViewInvHolds == ViewSpec => []ViewInv
BY ViewInvInit, ViewInvStep, PTL DEF ViewSpec

-----------------------------------------------------------------------------
(* The properties.                                                         *)

(* The state of the server and of every page stays within its types, and   *)
(* the buffer within MAX_EVENTS (server.js:66-67).                         *)
THEOREM ViewTypeCorrect == ViewSpec => []ViewTypeOK
<1>1. ViewInv => ViewTypeOK
  <2> SUFFICES ASSUME ViewInv PROVE ViewTypeOK
    OBVIOUS
  <2>1. stream \in [Session -> Seq(Frames)]
    <3>1. \A s \in Session : stream[s] \in Seq(Frames)
      BY DEF ViewInv, SessionOK
    <3> QED  BY <3>1 DEF ViewInv
  <2>2. browser \in [Session -> Page]
    <3>1. \A s \in Session : browser[s] \in Page
      BY DEF ViewInv, SessionOK
    <3> QED  BY <3>1 DEF ViewInv
  <2>3. /\ posted \in 0..MaxPosts /\ buffer \in Events /\ Len(buffer) <= ServerMax
        /\ clears \in 0..MaxClears /\ drops \in 0..MaxDrops /\ clicks \in 0..MaxClicks
        /\ spoiled \subseteq Session
    BY DEF ViewInv
  <2> QED  BY <2>1, <2>2, <2>3, Zenon DEF ViewTypeOK, Frames, Page
<1> QED  BY <1>1, ViewInvHolds, PTL

(* No handler of a page changes its events behind the revision its caches  *)
(* are keyed by; the trim of a paused page, which takes no new revision,   *)
(* never finds anything to trim (app.js:94, 116, 208, 375).                *)
THEOREM ViewCachesCurrent == ViewSpec => []CachesCurrent
<1>1. ViewInv => CachesCurrent
  <2> SUFFICES ASSUME ViewInv, NEW s \in Session
               PROVE  LET p == browser[s]
                      IN  (p.revision > 0 /\ p.cacheValid /\ p.cachedRevision = p.revision)
                            => p.cached = p.events
    BY DEF CachesCurrent
  <2>1. CacheOK(browser[s])
    BY DEF ViewInv, SessionOK, PageOK
  <2> QED  BY <2>1 DEF CacheOK
<1> QED  BY <1>1, ViewInvHolds, PTL

(* A live page holds at most its limit of events, and shows all it holds   *)
(* unless it is about to be redrawn (app.js:52-60, 81-124).                *)
THEOREM ViewDrawnOrDue == ViewSpec => []DrawnOrDue
<1>1. ViewInv => DrawnOrDue
  <2> SUFFICES ASSUME ViewInv, NEW s \in Session
               PROVE  LET p == browser[s]
                      IN  p.phase = "live" => /\ Len(p.events) <= ViewMax
                                              /\ p.shown = p.events \/ p.due
    BY DEF DrawnOrDue
  <2>1. ShownOK(browser[s])
    BY DEF ViewInv, SessionOK, PageOK
  <2> QED  BY <2>1 DEF ShownOK
<1> QED  BY <1>1, ViewInvHolds, PTL

(* What session s will hold is what its frames make of what it holds.      *)
LEMMA InTheEndIsAfter ==
  ASSUME NEW s
  PROVE  InTheEnd(s) = After(browser[s].events \o browser[s].queued, stream[s])
BY Zenon DEF InTheEnd, After, Apply, FoldLeft, MapThenFoldSet

(* Sequences that agree as far as both go have the same last elements.     *)
LEMMA AgreeingEnds ==
  ASSUME NEW v \in Events, NEW b \in Events, NEW n \in Nat, Agree(v, b),
         n <= Len(v), n <= Len(b)
  PROVE  Latest(v, n) = Latest(b, n)
<1>1. v \in Seq(1..MaxPosts) /\ b \in Seq(1..MaxPosts) /\ Len(v) \in Nat /\ Len(b) \in Nat
  BY LenProperties DEF Events
<1>2. PICK x, y : x = Latest(v, n) /\ y = Latest(b, n)
  OBVIOUS
<1>3. /\ x \in Seq(1..MaxPosts) /\ Len(x) = n
      /\ \A i \in 1..n : x[i] = v[i + Len(v) - n]
  <2>1. /\ x \in Seq(1..MaxPosts)
        /\ Len(x) = IF Len(v) > n THEN n ELSE Len(v)
        /\ \A i \in 1..Len(x) : x[i] = v[i + Len(v) - Len(x)]
    BY <1>1, <1>2, LatestFacts
  <2>2. Len(x) = n
    BY <1>1, <2>1
  <2> QED  BY <2>1, <2>2
<1>4. /\ y \in Seq(1..MaxPosts) /\ Len(y) = n
      /\ \A i \in 1..n : y[i] = b[i + Len(b) - n]
  <2>1. /\ y \in Seq(1..MaxPosts)
        /\ Len(y) = IF Len(b) > n THEN n ELSE Len(b)
        /\ \A i \in 1..Len(y) : y[i] = b[i + Len(b) - Len(y)]
    BY <1>1, <1>2, LatestFacts
  <2>2. Len(y) = n
    BY <1>1, <2>1
  <2> QED  BY <2>1, <2>2
<1>5. ASSUME NEW i \in 1..n PROVE x[i] = y[i]
  <2>1. PICK k : k = n - i
    OBVIOUS
  <2>2. /\ k \in Nat /\ k < Len(v) /\ k < Len(b)
        /\ i + Len(v) - n = Len(v) - k /\ i + Len(b) - n = Len(b) - k
    BY <1>1, <2>1
  <2>3. v[Len(v) - k] = b[Len(b) - k]
    BY <2>2 DEF Agree
  <2> QED  BY <1>3, <1>4, <2>2, <2>3
<1>6. x = y
  BY <1>3, <1>4, <1>5, SeqEqual
<1> QED  BY <1>2, <1>6

(* A session that follows the server misses nothing and repeats nothing:   *)
(* once its frames are applied and its queue released it holds, without    *)
(* an event twice, the buffer after older events or, trimmed, the end of   *)
(* it, and nothing when the buffer is empty, however posts, clears, pauses *)
(* and lost connections interleave with its fetch, its snapshot and its    *)
(* frames (server.js:33-77, app.js:52-60, 67-104).                         *)
THEOREM ViewFollowsServer == ViewSpec => []FollowsServer
<1>1. ViewInv => FollowsServer
  <2> SUFFICES ASSUME ViewInv, NEW s \in Open \ spoiled
               PROVE  LET v == InTheEnd(s)
                          n == IF Len(v) < Len(buffer) THEN Len(v) ELSE Len(buffer)
                      IN  /\ Latest(v, n) = Latest(buffer, n)
                          /\ n < Len(buffer) => n >= ViewMax
                          /\ Rises(v)
                          /\ buffer = << >> => v = << >>
    BY DEF FollowsServer
  <2>1. PICK v : v = InTheEnd(s)
    OBVIOUS
  <2>2. PICK n : n = IF Len(v) < Len(buffer) THEN Len(v) ELSE Len(buffer)
    OBVIOUS
  <2>3. /\ s \in Session /\ browser[s].phase \in {"open", "live"}
        /\ SessionOK(browser[s], stream[s], buffer, s \in spoiled)
        /\ buffer \in Events
    BY DEF ViewInv, Open
  <2>4. v = After(browser[s].events \o browser[s].queued, stream[s])
    BY <2>1, InTheEndIsAfter
  <2>5. Covers(v, buffer)
    BY <2>3, <2>4 DEF SessionOK, FollowOK
  <2>6. browser[s].events \o browser[s].queued \in Events /\ stream[s] \in Seq(Frames)
    BY <2>3, ConcatType DEF SessionOK, Page
  <2>7. v \in Events
    BY <2>4, <2>6, AfterType
  <2>8. Len(v) \in Nat /\ Len(buffer) \in Nat
    BY <2>3, <2>7, LenProperties DEF Events
  <2>9. n \in Nat /\ n <= Len(v) /\ n <= Len(buffer)
    BY <2>2, <2>8
  <2>10. Latest(v, n) = Latest(buffer, n)
    BY <2>3, <2>5, <2>7, <2>9, AgreeingEnds DEF Covers
  <2>11. n < Len(buffer) => n >= ViewMax
    BY <2>2, <2>5, <2>8 DEF Covers
  <2>12. Rises(v)
    BY <2>5 DEF Covers
  <2>13. buffer = << >> => v = << >>
    BY <2>5, <2>7, EmptySeq DEF Covers, Events
  <2> QED  BY <2>1, <2>2, <2>10, <2>11, <2>12, <2>13
<1> QED  BY <1>1, ViewInvHolds, PTL

=============================================================================
