--------------------------- MODULE NetmonNameProofs ---------------------------
(***************************************************************************)
(* Proofs about the names netmon prints: a line never names a host whose   *)
(* last answer had expired, and names every live one while all fits the    *)
(* cache.                                                                  *)
(***************************************************************************)
EXTENDS NetmonProofs

Heard == {r \in log : r.job.kind = "packet" /\ ReaderAccepts(r.job.packet)}

ToldBy(r, p) == [at |-> r.at, key |-> KeyOf(r.job.payload, p),
                 host |-> HostOf(r.job.payload, p),
                 expires |-> ExpiryOf(r.job.payload, p, r.stamp)]

(* A told fact is the last word of a message heard.                        *)
LEMMA ToldIs ==
  \A f : f \in Told <=> \E r \in Heard : \E p \in Says(r.job.payload) :
           LastIn(r.job.payload, Says(r.job.payload), p) /\ f = ToldBy(r, p)
BY DEF Told, Heard, Says, LastIn, ToldBy, KeyOf, HostOf, ExpiryOf

(* The consumer's position.                                                *)
LEMMA ConsumedIsNat == CaptureInv => Consumed \in Nat
BY DEF CaptureInv, CaptureTypeOK, RingInv, Consumed

(* Its fields.                                                             *)
LEMMA ToldType ==
  ASSUME CaptureInv, NEW f \in Told
  PROVE  f.at \in 1..produced /\ f.at \in Nat /\ f.expires \in Nat /\ f.key \in Key
<1>1. PICK r \in Heard : \E p \in Says(r.job.payload) : f = ToldBy(r, p)
  BY ToldIs
<1>2. PICK p \in Says(r.job.payload) : f = ToldBy(r, p)
  BY <1>1
<1>3. /\ r \in log /\ r.at \in 1..produced /\ r.at \in Nat /\ r.stamp \in Nat
      /\ r.job \in Job /\ r.job.kind = "packet"
  BY CaptureAssumption DEF Heard, CaptureInv, CaptureTypeOK, LogInv
<1>4. r.job.payload \in Message
  <2>1. r.job \in JobType
    BY <1>3, CaptureAssumption
  <2>2. r.job.payload \in Payload
    BY <1>3, <2>1 DEF JobType
  <2> QED  BY <2>2, NetmonAssumption
<1>5. PutTTL(r.job.payload.answer, p) \in Nat
  BY <1>4, PutArguments, CacheAssumption DEF Says
<1>6. ExpiryOf(r.job.payload, p, r.stamp) \in Nat
  BY <1>3, <1>5, CacheAssumption DEF ExpiryOf, Lifetime
<1> QED  BY <1>2, <1>3, <1>6 DEF ToldBy, Says

(* In particular it has a position.                                        *)
LEMMA ToldPositions == CaptureInv => \A g \in Told : g.at \in Nat
BY ToldType

(* New records are ahead of the consumer.                                  *)
Ahead == log \subseteq log' /\ \A r \in log' \ log : r.at > Consumed

(* Hence what has been told behind it remains what it was.                 *)
LEMMA ToldStable ==
  ASSUME CaptureInv, CaptureInv', Ahead
  PROVE  /\ Told \subseteq Told'
         /\ \A f \in Told' : f.at <= Consumed => f \in Told
<1>1. \A f : f \in Told' <=> \E r \in Heard' : \E p \in Says(r.job.payload) :
               LastIn(r.job.payload, Says(r.job.payload), p) /\ f = ToldBy(r, p)
  <2>1. (\A f : f \in Told <=> \E r \in Heard : \E p \in Says(r.job.payload) :
                  LastIn(r.job.payload, Says(r.job.payload), p) /\ f = ToldBy(r, p))'
    BY ToldIs, PTL
  <2> QED  BY <2>1
<1>2. Heard \subseteq Heard'
  BY DEF Heard, Ahead
<1>3. ASSUME NEW f \in Told', f.at <= Consumed
      PROVE  f \in Told
  <2>1. PICK r \in Heard' : \E p \in Says(r.job.payload) :
               LastIn(r.job.payload, Says(r.job.payload), p) /\ f = ToldBy(r, p)
    BY <1>1
  <2>2. r \in log' /\ r.at = f.at /\ r.at \in Nat
    BY <2>1 DEF Heard, ToldBy, CaptureInv, CaptureTypeOK
  <2>3. Consumed \in Nat
    BY DEF CaptureInv, CaptureTypeOK, RingInv, Consumed
  <2>4. r \in log
    BY <1>3, <2>2, <2>3 DEF Ahead
  <2>5. r \in Heard
    BY <2>1, <2>4 DEF Heard
  <2> QED  BY <2>1, <2>5, ToldIs
<1> QED  BY <1>1, <1>2, <1>3, ToldIs

(* So does the last word before a position the consumer has reached.       *)
LEMMA LastStable ==
  ASSUME CaptureInv, CaptureInv', Ahead, NEW n \in Nat, n <= Consumed + 1, NEW f \in Told
  PROVE  LastBefore(f, n)' <=> LastBefore(f, n)
<1>1. Consumed \in Nat
  BY DEF CaptureInv, CaptureTypeOK, RingInv, Consumed
<1>2. \A g : g \in Told' /\ g.at < n <=> g \in Told /\ g.at < n
  <2>1. \A g \in Told' : g.at \in Nat
    <3>1. CaptureInv' => (\A g \in Told : g.at \in Nat)'
      BY ToldPositions, PTL
    <3> QED  BY <3>1
  <2> QED  BY <1>1, <2>1, ToldStable
<1> QED  BY <1>2 DEF LastBefore

(* Lines and prunes from position n on change nothing before it.           *)
LinesFrom(n) ==
  /\ maintained \subseteq maintained'
  /\ \A x \in maintained' \ maintained : ~ (x[1] < n)
  /\ DOMAIN out \subseteq DOMAIN out'
  /\ \A i \in DOMAIN out : out'[i] = out[i]
  /\ \A i \in DOMAIN out' \ DOMAIN out : ~ (out'[i].at < n)

(* Hence nothing about what was pruned before n.                           *)
LEMMA PrunedStable ==
  ASSUME NEW n, LinesFrom(n), NEW f
  PROVE  PrunedBefore(f, n)' <=> PrunedBefore(f, n)
BY DEF PrunedBefore, LinesFrom

(* While a message is parsed, its position is the frontier of the past.    *)
Frontier == IF todo = {} THEN Consumed + 1 ELSE Consumed

(* x is the last word before n, and no prune has had it.                   *)
Kept(x, n) ==
  \E f \in Told : /\ x.key = f.key /\ x.host = f.host /\ x.expires = f.expires
                   /\ LastBefore(f, n) /\ ~ PrunedBefore(f, n)

(* All that the cache knows is the last word on its subject.               *)
SourceInv ==
  \A x \in Facts(entries) :
    \/ FreshIn(x, message, stamp, Done)
    \/ ~ OverruledIn(x, message, Done) /\ Kept(x, Frontier)

(* The message being parsed is the last record consumed; its Puts are made *)
(* in their order; no prune has been made since.                           *)
ParseInv ==
  /\ todo = {} => message = EmptyMessage
  /\ todo # {} => \E r \in Heard : /\ r.at = Consumed /\ r.stamp = stamp
                                  /\ r.job.payload = message
  /\ \A p \in PutPositions(message) \ todo, q \in todo : Precedes(p, q)
  /\ \A x \in maintained : x[1] < Frontier

(* A line names last words that were live and not pruned.                  *)
Supported(o) ==
  \A h \in HostsOf(o) :
    \E f \in Told : /\ f.key = o.key /\ f.host = h
                    /\ LastBefore(f, o.at) /\ f.expires > o.stamp
                    /\ ~ PrunedBefore(f, o.at)
LineInv == \A i \in DOMAIN out : Supported(out[i])

(* With --no-dns no packet is ever captured.                               *)
QuietInv ==
  NoDns => /\ \A c \in Ctx : pc[c] # "idle" => job[c].kind # "packet"
           /\ \A i \in DOMAIN ring : ring[i].job.kind # "packet"

(* No packet program runs with --no-dns.                                   *)
LEMMA QuietStep ==
  ASSUME CaptureInv, QuietInv, [NetmonNext]_netmonVars
  PROVE  QuietInv'
<1> SUFFICES ASSUME NoDns PROVE QuietInv'
  BY DEF QuietInv
<1>1. /\ \A c \in Ctx : pc[c] # "idle" => job[c].kind # "packet"
      /\ \A i \in DOMAIN ring : ring[i].job.kind # "packet"
  BY DEF QuietInv
<1>2. /\ ring \in Seq(RingRecord) /\ job \in [Ctx -> Job]
      /\ pc \in [Ctx -> {"idle", "load", "store", "reserve", "stamp", "commit"}]
  BY DEF CaptureInv, CaptureTypeOK
<1>3. ASSUME NEW c \in Ctx, NEW j \in Job, j.kind # "packet", Start(c, j)
      PROVE  QuietInv'
  <2>1. \A d \in Ctx : pc'[d] # "idle" => job'[d].kind # "packet"
    <3>1. /\ job' = [job EXCEPT ![c] = j] /\ ring' = ring
          /\ \A d \in Ctx \ {c} : pc'[d] = pc[d]
      BY <1>2, <1>3 DEF Start, Bump
    <3> QED  BY <1>1, <1>2, <1>3, <3>1
  <2>2. ring' = ring
    BY <1>3 DEF Start
  <2> QED  BY <1>1, <2>1, <2>2 DEF QuietInv
<1>4. ASSUME NEW c \in Ctx, Load(c) \/ Store(c)
      PROVE  QuietInv'
  BY <1>1, <1>2, <1>4 DEF Load, Store, QuietInv
<1>5. ASSUME NEW c \in Ctx, Reserve(c)
      PROVE  QuietInv'
  <2>1. \A d \in Ctx : pc'[d] # "idle" => job'[d].kind # "packet"
    BY <1>1, <1>2, <1>5 DEF Reserve, Bump
  <2>2. \A i \in DOMAIN ring' : ring'[i].job.kind # "packet"
    <3>1. job[c].kind # "packet"
      BY <1>1, <1>5 DEF Reserve
    <3>2. CASE ring' = ring
      BY <1>1, <3>2
    <3>3. CASE ring' = Append(ring, [state |-> "busy", stamp |-> 0, job |-> job[c]])
      <4> DEFINE e == [state |-> "busy", stamp |-> 0, job |-> job[c]]
      <4>1. \A i \in DOMAIN ring' : (i \in DOMAIN ring /\ ring'[i] = ring[i]) \/ ring'[i] = e
        BY <1>2, <3>3
      <4>2. e.job = job[c]
        OBVIOUS
      <4> QED  BY <1>1, <3>1, <4>1, <4>2
    <3> QED  BY <1>5, <3>2, <3>3 DEF Reserve
  <2> QED  BY <2>1, <2>2 DEF QuietInv
<1>6. ASSUME NEW c \in Ctx, Stamp(c) \/ Commit(c)
      PROVE  QuietInv'
  <2>1. \A d \in Ctx : pc'[d] # "idle" => job'[d].kind # "packet"
    BY <1>1, <1>2, <1>6 DEF Stamp, Commit, Bump
  <2>2. ASSUME NEW i \in DOMAIN ring'
        PROVE  ring'[i].job.kind # "packet"
    <3>1. i \in DOMAIN ring /\ ring'[i].job = ring[i].job
      <4>1. i \in DOMAIN ring /\ ring[i] \in RingRecord
        BY <1>2, <1>6 DEF Stamp, Commit
      <4>2. CASE i = slot[c] - Consumed
        <5>1. CASE Stamp(c)
          <6>1. ring'[i] = [ring[i] EXCEPT !.stamp = clock]
            BY <1>2, <4>1, <4>2, <5>1 DEF Stamp
          <6> QED  BY <4>1, <6>1 DEF RingRecord
        <5>2. CASE Commit(c)
          <6>1. PICK s : ring'[i] = [ring[i] EXCEPT !.state = s]
            BY <1>2, <4>1, <4>2, <5>2 DEF Commit
          <6> QED  BY <4>1, <6>1 DEF RingRecord
        <5> QED  BY <1>6, <5>1, <5>2
      <4>3. CASE i # slot[c] - Consumed
        <5>1. ring'[i] = ring[i]
          BY <1>2, <1>6, <4>1, <4>3 DEF Stamp, Commit
        <5> QED  BY <4>1, <5>1
      <4> QED  BY <4>2, <4>3
    <3> QED  BY <1>1, <3>1
  <2> QED  BY <2>1, <2>2 DEF QuietInv
<1>7. CASE \E c \in Ctx : Program(c)
  BY <1>3, <1>4, <1>5, <1>6, <1>7 DEF Program, Run
<1>8. CASE Released
  <2>1. ring' = Tail(ring) /\ UNCHANGED <<pc, job>> /\ ring # << >>
    BY <1>8 DEF Released, Consume, progVars
  <2>2. \A i \in DOMAIN ring' : i + 1 \in DOMAIN ring /\ ring'[i] = ring[i + 1]
    BY <1>2, <2>1
  <2> QED  BY <1>1, <2>1, <2>2 DEF QuietInv
<1>9. CASE UNCHANGED <<ring, pc, job>>
  BY <1>1, <1>9 DEF QuietInv
<1>10. \/ \E c \in Ctx : Program(c)
       \/ Released
       \/ UNCHANGED <<ring, pc, job>>
  BY DEF NetmonNext, Pass, Tick, Reader, Select, SkipDiscarded, PrintConnection,
         HandleDns, Parse, Deadline, Maintain, PrintCounters, Detach, ReadError,
         Interrupt, Vanish, netmonVars, captureVars, progVars, Released
<1> QED  BY <1>7, <1>8, <1>9, <1>10

(* What a step does to what has been told, known and printed.              *)
Aside ==
  /\ Consumed' = Consumed /\ Ahead
  /\ UNCHANGED <<responseVars, out, maintained>>

PassedBy ==
  /\ Consumed' = Consumed + 1 /\ log' = log /\ todo = {}
  /\ \A r \in Heard : r.at # Consumed + 1
  /\ UNCHANGED <<responseVars, out, maintained>>

Received ==
  /\ Consumed' = Consumed + 1 /\ log' = log
  /\ \E r \in Heard : r.at = Consumed + 1 /\ Receive(r.job.payload, r.stamp)
  /\ UNCHANGED <<out, maintained>>

PutMade ==
  /\ PutNext
  /\ UNCHANGED <<captureVars, out, maintained>>

Maintained ==
  /\ todo = {}
  /\ entries' = Prune(entries, clock)
  /\ maintained' = maintained \cup {<<Consumed, clock>>}
  /\ UNCHANGED <<captureVars, message, stamp, todo, out>>

(* Every step of netmon is one of these or a print.                        *)
LEMMA StepOfNames ==
  ASSUME BaseInv, QuietInv, [NetmonNext]_netmonVars
  PROVE  Aside \/ PassedBy \/ PrintConnection \/ Received \/ PutMade \/ Maintained
<1>0. CaptureInv /\ CaptureStep /\ (rpc # "parse" => todo = {})
  BY StepOfCapture DEF BaseInv, ReadInv
<1>1. CASE \E c \in Ctx : Program(c)
  <2>1. UNCHANGED <<responseVars, out, maintained>>
    BY <1>1 DEF Program, readerVars
  <2>2. PICK c \in Ctx : Run(c) \/ \E j \in Job : Start(c, j)
    BY <1>1 DEF Program
  <2>3. ~ Released
    BY <1>0, <2>2, ProgramKeepsRing
  <2> QED  BY <1>0, <2>1, <2>3, LogStep DEF Aside, Ahead
<1>2. CASE Pass
  BY <1>2 DEF Pass, Tick, readerVars, Aside, Ahead, Consumed
<1>3. CASE SkipDiscarded
  <2>1. Released /\ todo = {} /\ UNCHANGED <<responseVars, out, maintained>>
    BY <1>0, <1>3 DEF SkipDiscarded, Released, readerVars
  <2>2. Consumed' = Consumed + 1 /\ log' = log
    BY <1>0, <2>1, RingRelease DEF Released, Consume
  <2>3. \A r \in Heard : r.at # Consumed + 1
    BY <1>0, <1>3, HeadRecord DEF SkipDiscarded, Heard
  <2> QED  BY <2>1, <2>2, <2>3 DEF PassedBy
<1>4. CASE HandleDns
  <2> DEFINE e == Head(ring)
             rec == [at |-> Consumed + 1, stamp |-> e.stamp, job |-> e.job]
  <2>1. Released /\ todo = {} /\ UNCHANGED <<out, maintained>>
    BY <1>0, <1>4 DEF HandleDns, Released
  <2>2. Consumed' = Consumed + 1 /\ log' = log
    BY <1>0, <2>1, RingRelease DEF Released, Consume
  <2>3. rec \in log /\ e.job.kind = "packet"
    BY <1>0, <1>4, HeadRecord DEF HandleDns
  <2>4. \A r \in log : r.at = Consumed + 1 => r = rec
    BY <1>0, <2>3 DEF CaptureInv, LogInv
  <2>5. ~ NoDns
    <3>1. e = ring[1] /\ 1 \in DOMAIN ring
      BY <1>0, <1>4 DEF HandleDns, CaptureInv, CaptureTypeOK
    <3> QED  BY <2>3, <3>1 DEF QuietInv
  <2>6. CASE ~ ReaderAccepts(e.job.packet)
    <3>1. \A r \in Heard : r.at # Consumed + 1
      BY <2>4, <2>6 DEF Heard
    <3>2. UNCHANGED responseVars
      BY <1>4, <2>6 DEF HandleDns
    <3> QED  BY <2>1, <2>2, <3>1, <3>2 DEF PassedBy
  <2>7. CASE ReaderAccepts(e.job.packet)
    <3>1. rec \in Heard /\ rec.at = Consumed + 1
      BY <2>3, <2>7 DEF Heard
    <3>2. Receive(rec.job.payload, rec.stamp)
      BY <1>4, <2>5, <2>7 DEF HandleDns
    <3> QED  BY <2>1, <2>2, <3>1, <3>2 DEF Received
  <2> QED  BY <2>6, <2>7
<1>5. CASE Parse
  BY <1>5 DEF Parse, PutMade
<1>6. CASE Maintain
  <2>1. CASE clock - last < MaintainEvery
    BY <1>6, <2>1 DEF Maintain, Aside, Ahead, responseVars, captureVars, Consumed
  <2>2. CASE ~ (clock - last < MaintainEvery)
    BY <1>0, <1>6, <2>2 DEF Maintain, Maintained
  <2> QED  BY <2>1, <2>2
<1>7. CASE \/ Select \/ Deadline \/ PrintCounters \/ Detach
           \/ ReadError \/ Interrupt \/ Vanish \/ UNCHANGED netmonVars
  BY <1>7 DEF Select, Deadline, PrintCounters, Detach, ReadError, Interrupt, Vanish,
              netmonVars, readerVars, captureVars, Aside, Ahead, Consumed
<1> QED  BY <1>1, <1>2, <1>3, <1>4, <1>5, <1>6, <1>7 DEF NetmonNext, Reader

(* The fields of a line and of a prune.                                    *)
LinesTyped ==
  /\ \A i \in DOMAIN out : /\ out[i].at \in Nat /\ out[i].stamp \in Nat
                            /\ out[i].key \in Key /\ out[i].names \in Seq(Name)
  /\ \A y \in maintained : y[1] \in Nat /\ y[2] \in Nat

(* They have the types of the type invariant.                              *)
LEMMA LinesHaveTypes == ReaderTypeOK => LinesTyped
<1> SUFFICES ASSUME ReaderTypeOK PROVE LinesTyped
  OBVIOUS
<1>1. ASSUME NEW i \in DOMAIN out
      PROVE  /\ out[i].at \in Nat /\ out[i].stamp \in Nat
             /\ out[i].key \in Key /\ out[i].names \in Seq(Name)
  <2> DEFINE Line == [at : Nat, key : Key, stamp : 0..MaxClock, names : Seq(Name)]
  <2>1. out[i] \in Line
    <3>1. out \in Seq(Line)
      BY DEF ReaderTypeOK
    <3> HIDE DEF Line
    <3> QED  BY <3>1
  <2> QED  BY <2>1, CaptureAssumption
<1>2. ASSUME NEW y \in maintained
      PROVE  y[1] \in Nat /\ y[2] \in Nat
  BY CaptureAssumption DEF ReaderTypeOK
<1> QED  BY <1>1, <1>2 DEF LinesTyped

(* A fact kept up to n is kept up to k when no later word and no prune     *)
(* came between.                                                           *)
LEMMA KeptOn ==
  ASSUME CaptureInv, CaptureInv', Ahead, LinesTyped',
         NEW n \in Nat, n <= Consumed + 1, NEW k \in Nat, n <= k,
         NEW x, Kept(x, n),
         \A g \in Told' : n <= g.at /\ g.at < k => g.key # x.key \/ g.host # x.host,
         \A y \in maintained' : \/ y \in maintained /\ y[1] < n
                                \/ ~ (y[1] < k)
                                \/ y[2] < x.expires,
         \A i \in DOMAIN out' :
           \/ i \in DOMAIN out /\ out'[i] = out[i] /\ out[i].at < n
           \/ ~ (out'[i].at < k)
           \/ out'[i].stamp < x.expires
  PROVE  Kept(x, k)'
<1>1. PICK f \in Told : /\ x.key = f.key /\ x.host = f.host /\ x.expires = f.expires
                        /\ LastBefore(f, n) /\ ~ PrunedBefore(f, n)
  BY DEF Kept
<1>2. f \in Told' /\ f.at \in Nat /\ f.expires \in Nat /\ f.at < n
  BY <1>1, ToldStable, ToldType DEF LastBefore
<1>3. Consumed \in Nat
  BY DEF CaptureInv, CaptureTypeOK, RingInv, Consumed
<1>4. \A g \in Told' : g.at \in Nat
  <2>1. CaptureInv' => (\A g \in Told : g.at \in Nat)'
    BY ToldPositions, PTL
  <2> QED  BY <2>1
<1>5. LastBefore(f, k)'
  <2> SUFFICES ASSUME NEW g \in Told', f.at < g.at, g.at < k
               PROVE  g.key # f.key \/ g.host # f.host
    BY <1>2 DEF LastBefore
  <2>1. CASE g.at < n
    <3>1. g \in Told
      BY <1>3, <1>4, <2>1, ToldStable
    <3> QED  BY <1>1, <2>1, <3>1 DEF LastBefore
  <2>2. CASE n <= g.at
    BY <1>1, <2>2
  <2> QED  BY <1>4, <2>1, <2>2
<1>6. \A y \in maintained' : y[1] \in Nat /\ y[2] \in Nat
  BY DEF LinesTyped
<1>7. \A i \in DOMAIN out' : out'[i].at \in Nat /\ out'[i].stamp \in Nat
  BY DEF LinesTyped
<1>8. ~ PrunedBefore(f, k)'
  <2>1. ASSUME NEW y \in maintained', f.at <= y[1], y[1] < k, y[2] >= f.expires
        PROVE  FALSE
    <3>1. y \in maintained /\ y[1] < n
      BY <1>1, <1>2, <1>6, <2>1
    <3> QED  BY <1>1, <2>1, <3>1 DEF PrunedBefore
  <2>2. ASSUME NEW i \in DOMAIN out', f.at < out'[i].at, out'[i].at < k,
               out'[i].stamp >= f.expires
        PROVE  FALSE
    <3>1. i \in DOMAIN out /\ out'[i] = out[i] /\ out[i].at < n
      BY <1>1, <1>2, <1>7, <2>2
    <3> QED  BY <1>1, <2>2, <3>1 DEF PrunedBefore
  <2> QED  BY <2>1, <2>2 DEF PrunedBefore
<1> QED  BY <1>1, <1>2, <1>5, <1>8 DEF Kept

(* A line behind the consumer stays supported.                             *)
LEMMA LineStable ==
  ASSUME CaptureInv, CaptureInv', Ahead, NEW o, o.at \in Nat, o.at <= Consumed,
         LinesFrom(o.at), Supported(o)
  PROVE  Supported(o)'
<1>1. Consumed \in Nat
  BY DEF CaptureInv, CaptureTypeOK, RingInv, Consumed
<1>2. HostsOf(o)' = HostsOf(o)
  BY DEF HostsOf
<1> SUFFICES ASSUME NEW h \in HostsOf(o)
             PROVE  (\E f \in Told : /\ f.key = o.key /\ f.host = h
                                     /\ LastBefore(f, o.at) /\ f.expires > o.stamp
                                     /\ ~ PrunedBefore(f, o.at))'
  BY <1>2 DEF Supported
<1>3. PICK f \in Told : /\ f.key = o.key /\ f.host = h
                        /\ LastBefore(f, o.at) /\ f.expires > o.stamp
                        /\ ~ PrunedBefore(f, o.at)
  BY DEF Supported
<1>4. f \in Told'
  BY ToldStable
<1>5. LastBefore(f, o.at)'
  BY <1>1, <1>3, LastStable
<1>6. ~ PrunedBefore(f, o.at)'
  BY <1>3, PrunedStable
<1> QED  BY <1>3, <1>4, <1>5, <1>6

(* The old lines stay supported when the new ones, and the new prunes, are *)
(* not behind the consumer.                                                *)
LEMMA LinesStable ==
  ASSUME CaptureInv, CaptureInv', LinesTyped, LinesTyped', PrintInv, LineInv, Ahead,
         LinesFrom(Consumed)
  PROVE  \A i \in DOMAIN out : Supported(out[i])'
<1> SUFFICES ASSUME NEW i \in DOMAIN out PROVE Supported(out[i])'
  OBVIOUS
<1>1. Consumed \in Nat
  BY DEF CaptureInv, CaptureTypeOK, RingInv, Consumed
<1>2. PICK o : o = out[i]
  OBVIOUS
<1>3. o.at \in Nat /\ o.at <= Consumed
  BY <1>2 DEF PrintInv, LinesTyped
<1>4. /\ \A y \in maintained' : y[1] \in Nat
      /\ \A j \in DOMAIN out' : out'[j].at \in Nat
  BY DEF LinesTyped
<1>5. LinesFrom(o.at)
  BY <1>1, <1>3, <1>4 DEF LinesFrom
<1>6. Supported(o)'
  BY <1>2, <1>3, <1>5, LineStable DEF LineInv
<1>7. out'[i] = o
  BY <1>2 DEF LinesFrom
<1> QED  BY <1>6, <1>7

-----------------------------------------------------------------------------
(* The steps.                                                              *)

(* All that a line may name, and why.                                      *)
NameInv == ParseInv /\ SourceInv /\ LineInv

(* What a step may use.                                                    *)
Given == BaseInv /\ ReaderTypeOK /\ LinesTyped /\ PrintInv /\ QuietInv

(* No message is being parsed: nothing is fresh.                           *)
LEMMA NothingDone ==
  /\ PutPositions(EmptyMessage) = {} /\ Says(EmptyMessage) = {}
  /\ ParseInv /\ todo = {} => Done = {}
BY DEF PutPositions, EmptyMessage, Says, ParseInv, Done

(* Then all that is known is kept.                                         *)
LEMMA AllKept ==
  ASSUME NameInv, todo = {}, NEW x \in Facts(entries)
  PROVE  Kept(x, Consumed + 1)
BY NothingDone DEF NameInv, SourceInv, FreshIn, Frontier

(* The reader is elsewhere.                                                *)
LEMMA AsideKeepsNames ==
  ASSUME Given, Given', NameInv, Aside
  PROVE  NameInv'
<1>1. CaptureInv /\ CaptureInv' /\ Ahead /\ Consumed \in Nat
  BY ConsumedIsNat DEF Given, BaseInv, Aside
<1>2. /\ Frontier' = Frontier /\ Done' = Done /\ Frontier \in Nat
      /\ Frontier <= Consumed + 1
      /\ UNCHANGED <<entries, message, stamp, todo, out, maintained>>
  BY <1>1 DEF Frontier, Done, Aside, responseVars
<1>3. ParseInv'
  <2>1. Heard \subseteq Heard'
    BY <1>1 DEF Heard, Ahead
  <2> QED  BY <1>1, <1>2, <2>1 DEF NameInv, ParseInv, Aside
<1>4. SourceInv'
  <2> SUFFICES ASSUME NEW x \in Facts(entries)
               PROVE  \/ FreshIn(x, message, stamp, Done)
                      \/ ~ OverruledIn(x, message, Done) /\ Kept(x, Frontier)'
    BY <1>2 DEF SourceInv, FreshIn, OverruledIn
  <2>1. PICK n : n = Frontier
    OBVIOUS
  <2>2. ASSUME Kept(x, n)
        PROVE  Kept(x, n)'
    <3>1. \A y \in maintained' : y \in maintained /\ y[1] < n
      BY <1>2, <2>1 DEF NameInv, ParseInv
    <3>2. \A i \in DOMAIN out' : \/ i \in DOMAIN out /\ out'[i] = out[i] /\ out[i].at < n
                                 \/ ~ (out'[i].at < n)
      BY <1>2
    <3>3. \A g \in Told' : ~ (n <= g.at /\ g.at < n)
      <4>1. CaptureInv' => (\A g \in Told : g.at \in Nat)'
        BY ToldPositions, PTL
      <4> QED  BY <1>1, <1>2, <2>1, <4>1
    <3> QED  BY <1>1, <1>2, <2>1, <2>2, <3>1, <3>2, <3>3, KeptOn DEF Given
  <2> QED  BY <1>2, <2>1, <2>2 DEF NameInv, SourceInv
<1>5. LineInv'
  <2>1. LinesFrom(Consumed)
    BY <1>2 DEF LinesFrom
  <2>2. \A i \in DOMAIN out : Supported(out[i])'
    BY <1>1, <2>1, LinesStable DEF Given, NameInv
  <2> QED  BY <1>2, <2>2 DEF LineInv
<1> QED  BY <1>3, <1>4, <1>5 DEF NameInv

(* The consumer passes a record that tells nothing.                        *)
LEMMA PassKeepsNames ==
  ASSUME Given, Given', NameInv, Consumed' = Consumed + 1, log' = log,
         todo = {}, todo' = {}, message' = EmptyMessage,
         \A g \in Told : g.at # Consumed + 1,
         UNCHANGED <<entries, out, maintained>>
  PROVE  NameInv'
<1>1. CaptureInv /\ CaptureInv' /\ Ahead /\ Consumed \in Nat
  BY ConsumedIsNat DEF Given, BaseInv, Ahead
<1>2. /\ Frontier = Consumed + 1 /\ Frontier' = Consumed + 2 /\ Done' = {}
      /\ \A y \in maintained : y[1] < Consumed + 1
  BY <1>1, NothingDone DEF Frontier, Done, NameInv, ParseInv
<1>3. ParseInv'
  BY <1>1, <1>2, NothingDone DEF ParseInv, Given, LinesTyped
<1>4. SourceInv'
  <2> SUFFICES ASSUME NEW x \in Facts(entries)
               PROVE  ~ OverruledIn(x, message, Done)' /\ Kept(x, Frontier)'
    BY DEF SourceInv
  <2>1. PICK n : n = Consumed + 1
    OBVIOUS
  <2>2. Kept(x, n)
    BY <2>1, AllKept
  <2>3. \A y \in maintained' : y \in maintained /\ y[1] < n
    BY <1>2, <2>1
  <2>4. \A i \in DOMAIN out' : i \in DOMAIN out /\ out'[i] = out[i] /\ out[i].at < n
    BY <1>1, <2>1 DEF Given, PrintInv, LinesTyped
  <2>5. \A g \in Told' : ~ (n <= g.at /\ g.at < n + 1)
    <3>1. Told' = Told
      BY DEF Told
    <3> QED  BY <1>1, <2>1, <3>1, ToldPositions
  <2>6. Kept(x, n + 1)'
    BY <1>1, <2>1, <2>2, <2>3, <2>4, <2>5, KeptOn DEF Given
  <2>7. Frontier' = n + 1
    BY <1>1, <1>2, <2>1
  <2> QED  BY <1>2, <2>6, <2>7 DEF OverruledIn
<1>5. LineInv'
  <2>1. LinesFrom(Consumed)
    BY DEF LinesFrom
  <2>2. \A i \in DOMAIN out : Supported(out[i])'
    BY <1>1, <2>1, LinesStable DEF Given, NameInv
  <2> QED  BY <2>2 DEF LineInv
<1> QED  BY <1>3, <1>4, <1>5 DEF NameInv

(* Where nothing was heard, nothing was told.                              *)
LEMMA Unheard ==
  ASSUME NEW n, \A r \in Heard : r.at = n => Says(r.job.payload) = {}
  PROVE  \A g \in Told : g.at # n
BY ToldIs DEF ToldBy

(* A message has been taken from the ring.                                 *)
LEMMA ReceivedKeepsNames ==
  ASSUME Given, Given', NameInv, Received
  PROVE  NameInv'
<1>1. CaptureInv /\ CaptureInv' /\ Ahead /\ Consumed \in Nat
  BY ConsumedIsNat DEF Given, BaseInv, Ahead, Received
<1>2. PICK r \in Heard : r.at = Consumed + 1 /\ Receive(r.job.payload, r.stamp)
  BY DEF Received
<1>3. /\ Consumed' = Consumed + 1 /\ log' = log /\ todo = {}
      /\ todo' = PutPositions(r.job.payload)
      /\ UNCHANGED <<entries, out, maintained>>
  BY <1>2 DEF Received, Receive, Hold
<1>4. \A q \in Heard : q.at = Consumed + 1 => q = r
  BY <1>1, <1>2 DEF Heard, CaptureInv, LogInv
<1>5. CASE todo' = {}
  <2>1. Says(r.job.payload) = {}
    BY <1>3, <1>5 DEF Says
  <2>2. \A g \in Told : g.at # Consumed + 1
    BY <1>4, <2>1, Unheard
  <2>3. message' = EmptyMessage
    BY <1>2, <1>3, <1>5 DEF Receive, Hold
  <2> QED  BY <1>3, <1>5, <2>2, <2>3, PassKeepsNames
<1>6. CASE todo' # {}
  <2>1. message' = r.job.payload /\ stamp' = r.stamp /\ Heard' = Heard
    BY <1>2, <1>3, <1>6 DEF Receive, Hold, Heard
  <2>2. /\ Frontier = Consumed + 1 /\ Frontier' = Consumed + 1 /\ Done' = {}
        /\ \A y \in maintained : y[1] < Consumed + 1
    BY <1>1, <1>3, <1>6, <2>1 DEF Frontier, Done, NameInv, ParseInv, Says
  <2>3. ParseInv'
    <3>1. todo' # {} => \E q \in Heard' : /\ q.at = Consumed' /\ q.stamp = stamp'
                                          /\ q.job.payload = message'
      BY <1>2, <1>3, <2>1
    <3> QED  BY <1>3, <1>6, <2>1, <2>2, <3>1 DEF ParseInv
  <2>4. SourceInv'
    <3> SUFFICES ASSUME NEW x \in Facts(entries)
                 PROVE  ~ OverruledIn(x, message, Done)' /\ Kept(x, Frontier)'
      BY <1>3 DEF SourceInv
    <3>1. PICK n : n = Consumed + 1
      OBVIOUS
    <3>2. Kept(x, n)
      BY <1>3, <3>1, AllKept
    <3>3. \A y \in maintained' : y \in maintained /\ y[1] < n
      BY <1>3, <2>2, <3>1
    <3>4. \A i \in DOMAIN out' : i \in DOMAIN out /\ out'[i] = out[i] /\ out[i].at < n
      BY <1>1, <1>3, <3>1 DEF Given, PrintInv, LinesTyped
    <3>5. \A g \in Told' : ~ (n <= g.at /\ g.at < n)
      <4>1. Told' = Told
        BY <1>3 DEF Told
      <4> QED  BY <1>1, <3>1, <4>1, ToldPositions
    <3>6. Kept(x, n)'
      BY <1>1, <3>1, <3>2, <3>3, <3>4, <3>5, KeptOn DEF Given
    <3> QED  BY <2>2, <3>1, <3>6 DEF OverruledIn
  <2>5. LineInv'
    <3>1. LinesFrom(Consumed)
      BY <1>3 DEF LinesFrom
    <3>2. \A i \in DOMAIN out : Supported(out[i])'
      BY <1>1, <3>1, LinesStable DEF Given, NameInv
    <3> QED  BY <1>3, <3>2 DEF LineInv
  <2> QED  BY <2>3, <2>4, <2>5 DEF NameInv
<1> QED  BY <1>5, <1>6

(* The maintenance prune.                                                  *)
LEMMA MaintainedKeepsNames ==
  ASSUME Given, Given', NameInv, Maintained
  PROVE  NameInv'
<1>1. CaptureInv /\ CaptureInv' /\ Ahead /\ Consumed \in Nat /\ Consumed' = Consumed
  BY ConsumedIsNat DEF Given, BaseInv, Ahead, Maintained, captureVars, Consumed
<1>2. /\ todo = {} /\ todo' = {} /\ message' = message /\ message = EmptyMessage
      /\ out' = out /\ log' = log
      /\ entries' = Prune(entries, clock)
      /\ maintained' = maintained \cup {<<Consumed, clock>>}
  BY DEF Maintained, NameInv, ParseInv, captureVars
<1>3. /\ Frontier = Consumed + 1 /\ Frontier' = Consumed + 1 /\ Done' = {}
      /\ \A y \in maintained : y[1] < Consumed + 1
  BY <1>1, <1>2, NothingDone DEF Frontier, Done, NameInv, ParseInv
<1>4. ParseInv'
  <2>1. \A y \in maintained' : y[1] < Frontier'
    BY <1>1, <1>2, <1>3
  <2> QED  BY <1>2, <2>1, NothingDone DEF ParseInv
<1>5. clock \in Nat
  BY <1>1, CaptureAssumption DEF CaptureInv, CaptureTypeOK
<1>6. SourceInv'
  <2> SUFFICES ASSUME NEW x \in Facts(entries')
               PROVE  ~ OverruledIn(x, message, Done)' /\ Kept(x, Frontier)'
    BY DEF SourceInv
  <2>1. PICK n : n = Consumed + 1
    OBVIOUS
  <2>2. GoodCache(entries)
    BY InvIsGood DEF Given, BaseInv
  <2>3. x \in Facts(entries) /\ x.expires > clock
    BY <1>2, <2>2, PruneExpires
  <2>4. Kept(x, n)
    BY <1>2, <2>1, <2>3, AllKept
  <2>5. x.expires \in Nat
    BY <1>1, <2>4, ToldType DEF Kept
  <2>6. \A y \in maintained' : (y \in maintained /\ y[1] < n) \/ y[2] < x.expires
    BY <1>2, <1>3, <1>5, <2>1, <2>3, <2>5
  <2>7. \A i \in DOMAIN out' : i \in DOMAIN out /\ out'[i] = out[i] /\ out[i].at < n
    BY <1>1, <1>2, <2>1 DEF Given, PrintInv, LinesTyped
  <2>8. \A g \in Told' : ~ (n <= g.at /\ g.at < n)
    <3>1. Told' = Told
      BY <1>2 DEF Told
    <3> QED  BY <1>1, <2>1, <3>1, ToldPositions
  <2>9. Kept(x, n)'
    BY <1>1, <2>1, <2>4, <2>6, <2>7, <2>8, KeptOn DEF Given
  <2> QED  BY <1>3, <2>1, <2>9 DEF OverruledIn
<1>7. LineInv'
  <2>1. LinesFrom(Consumed)
    BY <1>1, <1>2 DEF LinesFrom
  <2>2. \A i \in DOMAIN out : Supported(out[i])'
    BY <1>1, <2>1, LinesStable DEF Given, NameInv
  <2> QED  BY <1>2, <2>2 DEF LineInv
<1> QED  BY <1>4, <1>6, <1>7 DEF NameInv

(* What PrintConnection prints.                                            *)
LEMMA LinePrinted ==
  ASSUME Given, NameInv, PrintConnection
  PROVE  \E o :
           /\ o.at = Consumed + 1 /\ o.stamp \in Nat
           /\ out' = Append(out, o) /\ Len(out) \in Nat
           /\ DOMAIN out' = 1..(Len(out) + 1) /\ DOMAIN out = 1..Len(out)
           /\ \A i \in DOMAIN out : out'[i] = out[i]
           /\ out'[Len(out) + 1] = o
           /\ entries' = Prune(entries, o.stamp)
           /\ \A h : h \in HostsOf(o) <=>
                    \E x \in Facts(entries') : x.key = o.key /\ x.host = h
           /\ \A g \in Told : g.at # Consumed + 1
           /\ Consumed' = Consumed + 1 /\ log' = log
           /\ todo = {} /\ UNCHANGED <<message, todo, maintained>>
<1> DEFINE e == Head(ring)
           o == [at |-> Consumed + 1, key |-> e.job.key, stamp |-> e.stamp,
                 names |-> NamesOf(entries', e.job.key)]
           rec == [at |-> Consumed + 1, stamp |-> e.stamp, job |-> e.job]
<1>1. CaptureInv /\ Consumed \in Nat /\ GoodCache(entries)
  BY ConsumedIsNat, InvIsGood DEF Given, BaseInv
<1>2. /\ entries' = Prune(entries, e.stamp) /\ out' = Append(out, o)
      /\ todo = {} /\ UNCHANGED <<message, todo, maintained>>
      /\ rec \in log /\ e.job.kind = "connect" /\ e.stamp \in Nat
  BY <1>1, HeadRecord, CaptureAssumption DEF PrintConnection, Given, BaseInv, ReadInv
<1>3. Consumed' = Consumed + 1 /\ log' = log
  <2>1. Released
    BY DEF PrintConnection, Released
  <2> QED  BY <1>1, <2>1, RingRelease DEF Released, Consume
<1>4. \A g \in Told : g.at # Consumed + 1
  <2>1. \A r \in Heard : r.at # Consumed + 1
    <3> SUFFICES ASSUME NEW r \in Heard, r.at = Consumed + 1 PROVE FALSE
      OBVIOUS
    <3>1. r = rec
      BY <1>1, <1>2 DEF Heard, CaptureInv, LogInv
    <3> QED  BY <1>2, <3>1 DEF Heard
  <2> QED  BY <2>1, Unheard
<1>5. GoodCache(entries')
  BY <1>1, <1>2, PruneKeepsGood
<1>6. /\ o.at = Consumed + 1 /\ o.key = e.job.key /\ o.stamp = e.stamp
      /\ o.names = NamesOf(entries', e.job.key)
  OBVIOUS
<1> HIDE DEF o
<1>7. \A h : h \in HostsOf(o) <=>
           \E x \in Facts(entries') : x.key = o.key /\ x.host = h
  BY <1>5, <1>6, NamesPrinted DEF HostsOf
<1>8. out \in Seq([at : Nat, key : Key, stamp : 0..MaxClock, names : Seq(Name)])
  BY DEF Given, ReaderTypeOK
<1>9. /\ Len(out) \in Nat
      /\ DOMAIN out' = 1..(Len(out) + 1) /\ DOMAIN out = 1..Len(out)
      /\ \A i \in DOMAIN out : out'[i] = out[i]
      /\ out'[Len(out) + 1] = o
  BY <1>2, <1>8
<1> QED  BY <1>2, <1>3, <1>4, <1>6, <1>7, <1>9

(* A line is printed: it names what the cache keeps, no more.              *)
LEMMA PrintKeepsNames ==
  ASSUME Given, Given', NameInv, PrintConnection
  PROVE  NameInv'
<1>1. CaptureInv /\ CaptureInv' /\ Consumed \in Nat /\ GoodCache(entries)
  BY ConsumedIsNat, InvIsGood DEF Given, BaseInv
<1>2. PICK o :
           /\ o.at = Consumed + 1 /\ o.stamp \in Nat
           /\ out' = Append(out, o) /\ Len(out) \in Nat
           /\ DOMAIN out' = 1..(Len(out) + 1) /\ DOMAIN out = 1..Len(out)
           /\ \A i \in DOMAIN out : out'[i] = out[i]
           /\ out'[Len(out) + 1] = o
           /\ entries' = Prune(entries, o.stamp)
           /\ \A h : h \in HostsOf(o) <=>
                    \E x \in Facts(entries') : x.key = o.key /\ x.host = h
           /\ \A g \in Told : g.at # Consumed + 1
           /\ Consumed' = Consumed + 1 /\ log' = log
           /\ todo = {} /\ UNCHANGED <<message, todo, maintained>>
  BY LinePrinted
<1>3. Ahead /\ message = EmptyMessage /\ Told' = Told
  BY <1>2 DEF Ahead, NameInv, ParseInv, Told
<1>4. /\ Frontier = Consumed + 1 /\ Frontier' = Consumed + 2 /\ Done' = {}
      /\ \A y \in maintained : y[1] < Consumed + 1
  BY <1>1, <1>2, <1>3, NothingDone DEF Frontier, Done, NameInv, ParseInv
<1>5. ParseInv'
  BY <1>1, <1>2, <1>3, <1>4, NothingDone DEF ParseInv, Given, LinesTyped
<1>6. \A i \in DOMAIN out : out[i].at < Consumed + 1
  BY <1>1 DEF Given, PrintInv, LinesTyped
<1>7. ASSUME NEW x \in Facts(entries')
      PROVE  /\ x.expires > o.stamp /\ x.expires \in Nat
             /\ x \in Facts(entries) /\ Kept(x, Consumed + 1)
  <2>1. x \in Facts(entries) /\ x.expires > o.stamp
    BY <1>1, <1>2, PruneExpires
  <2>2. Kept(x, Consumed + 1)
    BY <1>2, <2>1, AllKept
  <2> QED  BY <1>1, <2>1, <2>2, ToldType DEF Kept
<1>8. SourceInv'
  <2> SUFFICES ASSUME NEW x \in Facts(entries')
               PROVE  ~ OverruledIn(x, message, Done)' /\ Kept(x, Frontier)'
    BY DEF SourceInv
  <2>1. PICK n : n = Consumed + 1
    OBVIOUS
  <2>2. Kept(x, n)
    BY <1>7, <2>1
  <2>3. \A y \in maintained' : y \in maintained /\ y[1] < n
    BY <1>2, <1>4, <2>1
  <2>4. \A i \in DOMAIN out' : \/ i \in DOMAIN out /\ out'[i] = out[i] /\ out[i].at < n
                               \/ out'[i].stamp < x.expires
    BY <1>2, <1>6, <1>7, <2>1
  <2>5. \A g \in Told' : ~ (n <= g.at /\ g.at < n + 1)
    BY <1>1, <1>2, <1>3, <2>1, ToldPositions
  <2>6. Kept(x, n + 1)'
    BY <1>1, <1>3, <2>1, <2>2, <2>3, <2>4, <2>5, KeptOn DEF Given
  <2>7. Frontier' = n + 1
    BY <1>1, <1>4, <2>1
  <2> QED  BY <1>4, <2>6, <2>7 DEF OverruledIn
<1>9. LineInv'
  <2>1. LinesFrom(Consumed)
    BY <1>1, <1>2 DEF LinesFrom
  <2>2. \A i \in DOMAIN out : Supported(out[i])'
    BY <1>1, <1>3, <2>1, LinesStable DEF Given, NameInv
  <2>3. Supported(o)'
    <3>1. LinesFrom(o.at)
      BY <1>1, <1>2 DEF LinesFrom
    <3>2. \A h \in HostsOf(o) :
            \E f \in Told : /\ f.key = o.key /\ f.host = h
                            /\ LastBefore(f, o.at) /\ f.expires > o.stamp
                            /\ ~ PrunedBefore(f, o.at)
      BY <1>2, <1>7 DEF Kept
    <3>3. \A f \in Told : LastBefore(f, o.at)' <=> LastBefore(f, o.at)
      BY <1>3 DEF LastBefore
    <3>4. \A f \in Told : PrunedBefore(f, o.at)' <=> PrunedBefore(f, o.at)
      BY <3>1, PrunedStable
    <3>5. HostsOf(o)' = HostsOf(o)
      BY DEF HostsOf
    <3> QED  BY <1>3, <3>2, <3>3, <3>4, <3>5 DEF Supported
  <2> QED  BY <1>2, <2>2, <2>3 DEF LineInv
<1> QED  BY <1>5, <1>8, <1>9 DEF NameInv

(* The last word of a message is told at its position.                     *)
LEMMA FreshIsTold ==
  ASSUME NEW r \in Heard, NEW x,
         FreshIn(x, r.job.payload, r.stamp, Says(r.job.payload))
  PROVE  \E f \in Told : /\ f.at = r.at /\ x.key = f.key /\ x.host = f.host
                         /\ x.expires = f.expires
<1>1. PICK p \in Says(r.job.payload) :
        /\ LastIn(r.job.payload, Says(r.job.payload), p)
        /\ x.key = KeyOf(r.job.payload, p) /\ x.host = HostOf(r.job.payload, p)
        /\ x.expires = ExpiryOf(r.job.payload, p, r.stamp)
  BY DEF FreshIn
<1>2. ToldBy(r, p) \in Told
  BY <1>1, ToldIs
<1> QED  BY <1>1, <1>2 DEF ToldBy

(* The next Put of the message is made.                                    *)
LEMMA PutKeepsNames ==
  ASSUME Given, Given', NameInv, PutMade
  PROVE  NameInv'
<1>1. CaptureInv /\ CaptureInv' /\ Ahead /\ Consumed \in Nat /\ Consumed' = Consumed
  BY ConsumedIsNat DEF Given, BaseInv, Ahead, PutMade, captureVars, Consumed
<1>2. PICK p \in todo :
        /\ \A q \in todo \ {p} : Precedes(p, q)
        /\ entries' = Put(entries, KeyOf(message, p), PutName(message.answer, p),
                          PutTTL(message.answer, p), stamp)
        /\ Hold(message, stamp, todo \ {p})
  BY DEF PutMade, PutNext, KeyOf
<1>3. /\ out' = out /\ maintained' = maintained /\ log' = log /\ Told' = Told
      /\ Heard' = Heard
  BY DEF PutMade, captureVars, Told, Heard
<1>4. PICK m, t, td : m = message /\ t = stamp /\ td = todo
  OBVIOUS
<1>5. /\ m \in Message /\ t \in Nat /\ td \in SUBSET PutPositions(m)
      /\ GoodCache(entries)
  BY <1>2, <1>4, InvIsGood, CacheAssumption DEF Given, BaseInv, ReadInv, Parsing
<1>6. PICK r \in Heard : r.at = Consumed /\ r.stamp = t /\ r.job.payload = m
  BY <1>2, <1>4 DEF NameInv, ParseInv
<1>7. /\ \A a \in PutPositions(m) \ td, q \in td : Precedes(a, q)
      /\ \A y \in maintained : y[1] < Consumed
      /\ Frontier = Consumed
  BY <1>2, <1>4 DEF NameInv, ParseInv, Frontier
<1> DEFINE D2 == Says(m) \ (td \ {p})
<1>8. ASSUME NEW x \in Facts(entries')
      PROVE  \/ FreshIn(x, m, t, D2)
             \/ ~ OverruledIn(x, m, D2) /\ Kept(x, Consumed)
  <2>1. \/ FreshIn(x, m, t, D2)
        \/ /\ x \in Facts(entries) /\ ~ FreshIn(x, m, t, Says(m) \ td)
           /\ ~ OverruledIn(x, m, Says(m) \ td) => ~ OverruledIn(x, m, D2)
    BY <1>2, <1>4, <1>5, <1>7, PutAdds
  <2>2. x \in Facts(entries) =>
          \/ FreshIn(x, m, t, Says(m) \ td)
          \/ ~ OverruledIn(x, m, Says(m) \ td) /\ Kept(x, Consumed)
    BY <1>4, <1>7 DEF NameInv, SourceInv, Done
  <2> QED  BY <2>1, <2>2
<1>9. \A i \in DOMAIN out' : /\ i \in DOMAIN out /\ out'[i] = out[i]
                             /\ out[i].at < Consumed
  <2> SUFFICES ASSUME NEW i \in DOMAIN out PROVE out[i].at < Consumed
    BY <1>3
  <2>1. out[i].at \in Nat /\ out[i].at <= Consumed
    BY DEF Given, PrintInv, LinesTyped
  <2>2. PICK q \in log : q.job.kind = "connect" /\ q.at = out[i].at
    BY DEF Given, PrintInv
  <2>3. r \in log /\ r.job.kind = "packet"
    BY DEF Heard
  <2>4. out[i].at # Consumed
    BY <1>1, <1>6, <2>2, <2>3 DEF CaptureInv, LogInv
  <2> QED  BY <1>1, <2>1, <2>4
<1>10. LineInv'
  <2>1. LinesFrom(Consumed)
    BY <1>3 DEF LinesFrom
  <2>2. \A i \in DOMAIN out : Supported(out[i])'
    BY <1>1, <2>1, LinesStable DEF Given, NameInv
  <2> QED  BY <1>3, <2>2 DEF LineInv
<1>11. ASSUME NEW x, NEW k \in {Consumed, Consumed + 1}, Kept(x, Consumed),
              k = Consumed + 1 => ~ OverruledIn(x, m, Says(m))
       PROVE  Kept(x, k)'
  <2>1. PICK n, l : n = Consumed /\ l = k
    OBVIOUS
  <2>2. \A g \in Told' : n <= g.at /\ g.at < l => g.key # x.key \/ g.host # x.host
    <3> SUFFICES ASSUME NEW g \in Told, n <= g.at, g.at < l
                 PROVE  g.key # x.key \/ g.host # x.host
      BY <1>3
    <3>1. g.at = Consumed /\ k = Consumed + 1
      BY <1>1, <1>11, <2>1, ToldPositions
    <3>2. PICK q \in Heard : \E a \in Says(q.job.payload) : g = ToldBy(q, a)
      BY ToldIs
    <3>3. PICK a \in Says(q.job.payload) : g = ToldBy(q, a)
      BY <3>2
    <3>4. q = r
      BY <1>1, <1>6, <3>1, <3>3 DEF ToldBy, Heard, CaptureInv, LogInv
    <3>5. a \in Says(m) /\ g.key = KeyOf(m, a) /\ g.host = HostOf(m, a)
      BY <1>6, <3>3, <3>4 DEF ToldBy
    <3> QED  BY <1>11, <3>1, <3>5 DEF OverruledIn
  <2>3. \A y \in maintained' : y \in maintained /\ y[1] < n
    BY <1>3, <1>7, <2>1
  <2>4. \A i \in DOMAIN out' : i \in DOMAIN out /\ out'[i] = out[i] /\ out[i].at < n
    BY <1>9, <2>1
  <2>5. n \in Nat /\ l \in Nat /\ n <= l /\ n <= Consumed + 1 /\ Kept(x, n)
    BY <1>1, <1>11, <2>1
  <2>6. Kept(x, l)'
    BY <1>1, <2>2, <2>3, <2>4, <2>5, KeptOn DEF Given
  <2> QED  BY <2>1, <2>6
<1>12. CASE td \ {p} # {}
  <2>1. message' = m /\ stamp' = t /\ todo' = td \ {p}
    BY <1>2, <1>4, <1>12 DEF Hold
  <2>2. Frontier' = Consumed /\ Done' = D2
    BY <1>1, <1>12, <2>1 DEF Frontier, Done
  <2>3. ParseInv'
    <3>1. \E q \in Heard' : /\ q.at = Consumed' /\ q.stamp = stamp'
                            /\ q.job.payload = message'
      BY <1>1, <1>3, <1>6, <2>1
    <3>2. \A a \in PutPositions(m) \ (td \ {p}), q \in td \ {p} : Precedes(a, q)
      BY <1>2, <1>4, <1>7
    <3>3. \A y \in maintained' : y[1] < Frontier'
      BY <1>3, <1>7, <2>2
    <3> QED  BY <1>12, <2>1, <3>1, <3>2, <3>3 DEF ParseInv
  <2>4. SourceInv'
    <3> SUFFICES ASSUME NEW x \in Facts(entries')
                 PROVE  \/ FreshIn(x, m, t, D2)
                        \/ ~ OverruledIn(x, m, D2) /\ Kept(x, Frontier)'
      BY <2>1, <2>2 DEF SourceInv, FreshIn, OverruledIn
    <3>1. Kept(x, Consumed) => Kept(x, Consumed)'
      BY <1>1, <1>11
    <3>2. Kept(x, Consumed)' => Kept(x, Frontier)'
      BY <1>1, <2>2
    <3> QED  BY <1>8, <3>1, <3>2
  <2> QED  BY <1>10, <2>3, <2>4 DEF NameInv
<1>13. CASE td \ {p} = {}
  <2>1. message' = EmptyMessage /\ todo' = {}
    BY <1>2, <1>4, <1>13 DEF Hold
  <2>2. Frontier' = Consumed + 1 /\ Done' = {} /\ D2 = Says(m)
    BY <1>1, <1>13, <2>1, NothingDone DEF Frontier, Done
  <2>3. ParseInv'
    <3>1. \A y \in maintained' : y[1] < Frontier'
      BY <1>1, <1>3, <1>7, <2>2 DEF Given, LinesTyped
    <3> QED  BY <2>1, <3>1, NothingDone DEF ParseInv
  <2>4. SourceInv'
    <3> SUFFICES ASSUME NEW x \in Facts(entries')
                 PROVE  ~ OverruledIn(x, message, Done)' /\ Kept(x, Frontier)'
      BY DEF SourceInv
    <3>1. PICK n : n = Consumed + 1
      OBVIOUS
    <3>2. CASE FreshIn(x, m, t, Says(m))
      <4>1. PICK f \in Told : /\ f.at = Consumed /\ x.key = f.key /\ x.host = f.host
                              /\ x.expires = f.expires
        BY <1>6, <3>2, FreshIsTold
      <4>2. LastBefore(f, n)'
        BY <1>1, <1>3, <3>1, <4>1, ToldPositions DEF LastBefore
      <4>3. ~ PrunedBefore(f, n)'
        <5>1. \A y \in maintained' : ~ (f.at <= y[1])
          BY <1>1, <1>3, <1>7, <4>1 DEF Given, LinesTyped
        <5>2. \A i \in DOMAIN out' : ~ (f.at < out'[i].at)
          BY <1>1, <1>9, <4>1 DEF Given, LinesTyped
        <5> QED  BY <5>1, <5>2 DEF PrunedBefore
      <4> QED  BY <1>3, <2>2, <3>1, <4>1, <4>2, <4>3 DEF Kept, OverruledIn
    <3>3. CASE ~ OverruledIn(x, m, Says(m)) /\ Kept(x, Consumed)
      <4>1. Kept(x, n)'
        BY <1>1, <1>11, <3>1, <3>3
      <4> QED  BY <2>2, <3>1, <4>1 DEF OverruledIn
    <3> QED  BY <1>8, <2>2, <3>2, <3>3
  <2> QED  BY <1>10, <2>3, <2>4 DEF NameInv
<1> QED  BY <1>12, <1>13

(* Every step keeps what lines may name.                                   *)
LEMMA NameInvStep ==
  ASSUME Given, Given', NameInv, [NetmonNext]_netmonVars
  PROVE  NameInv'
<1>1. CASE PassedBy
  <2>1. \A g \in Told : g.at # Consumed + 1
    BY <1>1, Unheard DEF PassedBy
  <2>2. message' = EmptyMessage /\ todo' = {} /\ UNCHANGED <<entries, out, maintained>>
    BY <1>1 DEF PassedBy, responseVars, NameInv, ParseInv
  <2> QED  BY <1>1, <2>1, <2>2, PassKeepsNames DEF PassedBy
<1> QED  BY <1>1, StepOfNames, AsideKeepsNames, PrintKeepsNames, ReceivedKeepsNames,
            PutKeepsNames, MaintainedKeepsNames DEF Given

(* The invariants above hold together.                                     *)
LEMMA NamesHold == NetmonSpec => [](Given /\ NameInv)
<1>1. NetmonInit => PrintInv /\ QuietInv /\ NameInv
  <2> SUFFICES ASSUME NetmonInit PROVE PrintInv /\ QuietInv /\ NameInv
    OBVIOUS
  <2>1. /\ entries = << >> /\ message = EmptyMessage /\ todo = {} /\ out = << >>
        /\ maintained = {} /\ ring = << >> /\ log = {} /\ \A c \in Ctx : pc[c] = "idle"
    BY DEF NetmonInit, CaptureInit, ResponseInit, CacheInit
  <2>2. PrintInv /\ QuietInv /\ LineInv
    BY <2>1 DEF PrintInv, QuietInv, LineInv
  <2>3. ParseInv
    BY <2>1, NothingDone DEF ParseInv
  <2>4. SourceInv
    BY <2>1 DEF SourceInv, Facts
  <2> QED  BY <2>2, <2>3, <2>4 DEF NameInv
<1>2. BaseInv /\ ReaderTypeOK /\ PrintInv /\ QuietInv /\ [NetmonNext]_netmonVars
        => PrintInv' /\ QuietInv'
  BY PrintInvStep, QuietStep DEF BaseInv
<1>3. NetmonSpec => [](PrintInv /\ QuietInv)
  BY <1>1, <1>2, BaseHolds, ReaderTypeHolds, PTL DEF NetmonSpec
<1>4. NetmonSpec => []Given
  BY <1>3, BaseHolds, ReaderTypeHolds, LinesHaveTypes, PTL DEF Given
<1>5. Given /\ Given' /\ NameInv /\ [NetmonNext]_netmonVars => NameInv'
  BY NameInvStep
<1> QED  BY <1>1, <1>4, <1>5, PTL DEF NetmonSpec

(* Whatever the cache had to evict, in whatever order programs wrote and   *)
(* stamped their records, no line names a host whose latest answer had     *)
(* expired when the connection was made (main.go:256-281, cache.go:41-121).*)
THEOREM NetmonNoStaleName == NetmonSpec => []NoStaleName
<1>1. NameInv => NoStaleName
  BY DEF NameInv, LineInv, Supported, NoStaleName
<1> QED  BY <1>1, NamesHold, PTL

-----------------------------------------------------------------------------
(* While all fits, nothing is lost.                                        *)

(* What has been told is finite.                                           *)
LEMMA ToldFinite == CaptureInv => IsFiniteSet(Told)
<1> SUFFICES ASSUME CaptureInv PROVE IsFiniteSet(Told)
  OBVIOUS
<1>1. IsFiniteSet(log)
  <2> DEFINE g == [r \in log |-> r.at]
  <2>1. g \in Injection(log, 1..produced)
    BY DEF Injection, IsInjective, CaptureInv, LogInv
  <2>2. IsFiniteSet(1..produced)
    BY FS_Interval DEF CaptureInv, CaptureTypeOK
  <2> QED  BY <2>1, <2>2, FS_Injection
<1>2. IsFiniteSet(Heard)
  BY <1>1, FS_Subset DEF Heard
<1>3. \A r \in Heard : r.job.payload \in Message
  <2> SUFFICES ASSUME NEW r \in Heard PROVE r.job.payload \in Message
    OBVIOUS
  <2>1. r.job \in JobType /\ r.job.kind = "packet"
    BY CaptureAssumption DEF Heard, CaptureInv, CaptureTypeOK
  <2>2. r.job.payload \in Payload
    BY <2>1 DEF JobType
  <2> QED  BY <2>2, NetmonAssumption
<1> DEFINE said == [r \in Heard |-> Says(r.job.payload)]
           P == UNION {said[r] : r \in Heard}
           told == [q \in Heard \X P |-> ToldBy(q[1], q[2])]
           T == {told[q] : q \in Heard \X P}
<1>4. IsFiniteSet(P)
  <2>1. IsFiniteSet({said[r] : r \in Heard})
    <3> HIDE DEF said
    <3> QED  BY <1>2, ImageFinite
  <2>2. \A S \in {said[r] : r \in Heard} : IsFiniteSet(S)
    BY <1>3, PutsFinite
  <2> QED  BY <2>1, <2>2, FS_UNION
<1>5. IsFiniteSet(T)
  <2>1. IsFiniteSet(Heard \X P)
    <3> HIDE DEF P
    <3> QED  BY <1>2, <1>4, FS_Product
  <2> HIDE DEF told, P
  <2> QED  BY <2>1, ImageFinite
<1>6. Told \subseteq T
  <2> SUFFICES ASSUME NEW f \in Told PROVE f \in T
    OBVIOUS
  <2>1. PICK r \in Heard : \E p \in Says(r.job.payload) : f = ToldBy(r, p)
    BY ToldIs
  <2>2. PICK p \in Says(r.job.payload) : f = ToldBy(r, p)
    BY <2>1
  <2>3. p \in P
    <3>1. said[r] = Says(r.job.payload)
      OBVIOUS
    <3> QED  BY <2>2, <3>1
  <2> HIDE DEF P
  <2>4. <<r, p>> \in Heard \X P /\ told[<<r, p>>] = f
    BY <2>2, <2>3
  <2> HIDE DEF told
  <2> QED  BY <2>4
<1> QED  BY <1>5, <1>6, FS_Subset

(* What was told before position n, its addresses and their hosts.         *)
ToldBefore(n) == {f \in Told : f.at < n}
KeysBefore(n) == {f.key : f \in ToldBefore(n)}
HostsBefore(n, k) == {f.host : f \in {f \in ToldBefore(n) : f.key = k}}

(* It is finite, and Fits is about it.                                     *)
LEMMA FitsIs ==
  ASSUME CaptureInv, NEW n
  PROVE  /\ IsFiniteSet(KeysBefore(n)) /\ \A k : IsFiniteSet(HostsBefore(n, k))
         /\ Fits(n) <=> /\ Cardinality(KeysBefore(n)) <= Capacity
                       /\ \A k \in Key : Cardinality(HostsBefore(n, k)) <= MaxNames
<1>1. IsFiniteSet(ToldBefore(n))
  BY ToldFinite, FS_Subset DEF ToldBefore
<1>2. IsFiniteSet(KeysBefore(n))
  <2> DEFINE g == [f \in ToldBefore(n) |-> f.key]
  <2>1. IsFiniteSet({g[f] : f \in ToldBefore(n)})
    <3> HIDE DEF g
    <3> QED  BY <1>1, ImageFinite
  <2> QED  BY <2>1 DEF KeysBefore
<1>3. ASSUME NEW k
      PROVE  IsFiniteSet(HostsBefore(n, k))
  <2> DEFINE F == {f \in ToldBefore(n) : f.key = k}
             g == [f \in F |-> f.host]
  <2>1. IsFiniteSet(F)
    BY <1>1, FS_Subset
  <2>2. IsFiniteSet({g[f] : f \in F})
    <3> HIDE DEF g, F
    <3> QED  BY <2>1, ImageFinite
  <2>3. {g[f] : f \in F} = {f.host : f \in F}
    OBVIOUS
  <2> QED  BY <2>2, <2>3 DEF HostsBefore
<1> QED  BY <1>2, <1>3 DEF Fits, ToldBefore, KeysBefore, HostsBefore

(* At every position.                                                      *)
FitsMeans ==
  \A n : /\ IsFiniteSet(KeysBefore(n)) /\ \A k : IsFiniteSet(HostsBefore(n, k))
         /\ Fits(n) <=> /\ Cardinality(KeysBefore(n)) <= Capacity
                       /\ \A k \in Key : Cardinality(HostsBefore(n, k)) <= MaxNames

(* It means this in every state.                                           *)
LEMMA FitsIsSo == CaptureInv => FitsMeans
BY FitsIs DEF FitsMeans

(* What fits later fitted before.                                          *)
LEMMA FitsBefore ==
  ASSUME CaptureInv, CaptureInv', Ahead, NEW n \in Nat, NEW k \in Nat, n <= k, Fits(k)'
  PROVE  Fits(n)
<1>1. ToldBefore(n) \subseteq ToldBefore(k)'
  <2>1. \A f \in Told : f \in Told' /\ f.at \in Nat
    BY ToldStable, ToldPositions
  <2> QED  BY <2>1 DEF ToldBefore
<1>2. KeysBefore(n) \subseteq KeysBefore(k)'
  BY <1>1 DEF KeysBefore
<1>3. \A c : HostsBefore(n, c) \subseteq HostsBefore(k, c)'
  BY <1>1 DEF HostsBefore
<1>4. /\ IsFiniteSet(KeysBefore(k)') /\ \A c : IsFiniteSet(HostsBefore(k, c)')
      /\ Cardinality(KeysBefore(k)') <= Capacity
      /\ \A c \in Key : Cardinality(HostsBefore(k, c)') <= MaxNames
  <2>1. CaptureInv' => FitsMeans'
    BY FitsIsSo, PTL
  <2> QED  BY <2>1 DEF FitsMeans
<1>5. Capacity \in Nat /\ MaxNames \in Nat
  BY CacheAssumption
<1>6. Cardinality(KeysBefore(n)) <= Capacity
  <2>1. /\ Cardinality(KeysBefore(n)) <= Cardinality(KeysBefore(k)')
        /\ Cardinality(KeysBefore(n)) \in Nat /\ Cardinality(KeysBefore(k)') \in Nat
    BY <1>2, <1>4, FS_Subset, FS_CardinalityType, FitsIs
  <2> QED  BY <1>4, <1>5, <2>1
<1>7. ASSUME NEW c \in Key
      PROVE  Cardinality(HostsBefore(n, c)) <= MaxNames
  <2>1. HostsBefore(n, c) \subseteq HostsBefore(k, c)' /\ IsFiniteSet(HostsBefore(k, c)')
    BY <1>3, <1>4
  <2>2. /\ Cardinality(HostsBefore(n, c)) <= Cardinality(HostsBefore(k, c)')
        /\ Cardinality(HostsBefore(n, c)) \in Nat /\ Cardinality(HostsBefore(k, c)') \in Nat
    BY <2>1, FS_Subset, FS_CardinalityType, FitsIs
  <2> QED  BY <1>4, <1>5, <2>2
<1> QED  BY <1>6, <1>7, FitsIs

(* What the cache knows, and what the next Put says, was told before the   *)
(* position after the consumer's.                                          *)
LEMMA SubjectsTold ==
  ASSUME Given, NameInv
  PROVE  /\ \A p \in Says(message) : todo # {} =>
              \E f \in ToldBefore(Consumed + 1) :
                f.at = Consumed /\ f.key = KeyOf(message, p) /\ f.host = HostOf(message, p)
         /\ \A x \in Facts(entries) : \E f \in ToldBefore(Consumed + 1) :
              f.key = x.key /\ f.host = x.host
<1>1. CaptureInv /\ Consumed \in Nat
  BY ConsumedIsNat DEF Given, BaseInv
<1>2. ASSUME NEW p \in Says(message), todo # {}
      PROVE  \E f \in ToldBefore(Consumed + 1) :
                f.at = Consumed /\ f.key = KeyOf(message, p) /\ f.host = HostOf(message, p)
  <2>1. PICK r \in Heard : r.at = Consumed /\ r.stamp = stamp /\ r.job.payload = message
    BY <1>2 DEF NameInv, ParseInv
  <2>2. message \in Message /\ Says(message) \in SUBSET PutPositions(message)
    BY <1>2 DEF Given, BaseInv, ReadInv, Parsing, Says
  <2>3. PICK q \in Says(message) :
          /\ LastIn(message, Says(message), q)
          /\ KeyOf(message, q) = KeyOf(message, p) /\ HostOf(message, q) = HostOf(message, p)
    BY <2>2, LastExists
  <2>4. ToldBy(r, q) \in Told
    BY <2>1, <2>3, ToldIs
  <2>5. /\ ToldBy(r, q).at = Consumed /\ ToldBy(r, q).key = KeyOf(message, p)
        /\ ToldBy(r, q).host = HostOf(message, p)
    BY <2>1, <2>3 DEF ToldBy
  <2> QED  BY <1>1, <2>4, <2>5 DEF ToldBefore
<1>3. ASSUME NEW x \in Facts(entries)
      PROVE  \E f \in ToldBefore(Consumed + 1) : f.key = x.key /\ f.host = x.host
  <2>1. CASE FreshIn(x, message, stamp, Done)
    <3>1. PICK p \in Done : x.key = KeyOf(message, p) /\ x.host = HostOf(message, p)
      BY <2>1 DEF FreshIn
    <3>2. todo # {}
      BY <3>1, NothingDone DEF NameInv
    <3> QED  BY <1>2, <3>1, <3>2 DEF Done
  <2>2. CASE Kept(x, Frontier)
    <3>1. PICK f \in Told : x.key = f.key /\ x.host = f.host /\ f.at < Frontier
      BY <2>2 DEF Kept, LastBefore
    <3> QED  BY <1>1, <3>1, ToldPositions DEF Frontier, ToldBefore
  <2> QED  BY <2>1, <2>2 DEF NameInv, SourceInv
<1> QED  BY <1>2, <1>3

(* While all fits, the next Put has room.                                  *)
LEMMA PutHasRoom ==
  ASSUME Given, NameInv, Fits(Consumed + 1), todo # {}, NEW p \in Says(message)
  PROVE  /\ ~ EntriesFull(entries, KeyOf(message, p))
         /\ ~ NamesFull(entries, KeyOf(message, p), HostOf(message, p))
<1>1. CaptureInv /\ GoodCache(entries)
  BY InvIsGood DEF Given, BaseInv
<1>2. PICK n, k, h : n = Consumed + 1 /\ k = KeyOf(message, p) /\ h = HostOf(message, p)
  OBVIOUS
<1>3. k \in KeysBefore(n) /\ h \in HostsBefore(n, k) /\ k \in Key
  BY <1>2, SubjectsTold DEF KeysBefore, HostsBefore, Says
<1>4. \A x \in Facts(entries) : x.key \in KeysBefore(n) /\ x.host \in HostsBefore(n, x.key)
  BY <1>2, SubjectsTold DEF KeysBefore, HostsBefore
<1>5. /\ IsFiniteSet(KeysBefore(n)) /\ IsFiniteSet(HostsBefore(n, k))
      /\ Cardinality(KeysBefore(n)) <= Capacity /\ Cardinality(HostsBefore(n, k)) <= MaxNames
      /\ Capacity \in Nat /\ MaxNames \in Nat
      /\ Cardinality(KeysBefore(n)) \in Nat /\ Cardinality(HostsBefore(n, k)) \in Nat
  BY <1>1, <1>2, <1>3, FitsIs, FS_CardinalityType, CacheAssumption
<1> QED  BY <1>1, <1>2, <1>3, <1>4, <1>5, RoomLeft

(* The cache knows host c of address k until e.                            *)
Known(k, c, e) == \E x \in Facts(entries) : x.key = k /\ x.host = c /\ x.expires = e

(* While all fits, the cache knows every last word that no prune has had.  *)
KnownInv ==
  Fits(Consumed + 1) =>
    /\ \A f \in Told : /\ LastBefore(f, Frontier) /\ ~ PrunedBefore(f, Frontier)
                        /\ ~ OverruledIn(f, message, Done)
                       => Known(f.key, f.host, f.expires)
    /\ \A p \in Done : LastIn(message, Done, p) =>
         Known(KeyOf(message, p), HostOf(message, p), ExpiryOf(message, p, stamp))

(* While all fits, a line names all of them that are live.                 *)
Complete(o) ==
  Fits(o.at) => \A f \in Told : /\ f.key = o.key /\ LastBefore(f, o.at)
                                 /\ f.expires > o.stamp /\ ~ PrunedBefore(f, o.at)
                                => f.host \in HostsOf(o)
CompleteInv == \A i \in DOMAIN out : Complete(out[i])

(* A line behind the consumer stays complete.                              *)
LEMMA CompleteStable ==
  ASSUME CaptureInv, CaptureInv', Ahead, NEW o, o.at \in Nat, o.at <= Consumed,
         LinesFrom(o.at), Complete(o)
  PROVE  Complete(o)'
<1>1. Consumed \in Nat
  BY ConsumedIsNat
<1>2. HostsOf(o)' = HostsOf(o)
  BY DEF HostsOf
<1> SUFFICES ASSUME Fits(o.at)', NEW f \in Told', f.key = o.key, LastBefore(f, o.at)',
                    f.expires > o.stamp, ~ PrunedBefore(f, o.at)'
             PROVE  f.host \in HostsOf(o)
  BY <1>2 DEF Complete
<1>3. Fits(o.at)
  BY FitsBefore
<1>4. f \in Told
  <2>1. f.at \in Nat /\ f.at < o.at
    <3>1. CaptureInv' => (\A g \in Told : g.at \in Nat)'
      BY ToldPositions, PTL
    <3> QED  BY <3>1 DEF LastBefore
  <2> QED  BY <1>1, <2>1, ToldStable
<1>5. LastBefore(f, o.at)
  BY <1>1, <1>4, LastStable
<1>6. ~ PrunedBefore(f, o.at)
  BY PrunedStable
<1> QED  BY <1>3, <1>4, <1>5, <1>6 DEF Complete

(* The old lines stay complete.                                            *)
LEMMA LinesComplete ==
  ASSUME CaptureInv, CaptureInv', LinesTyped, LinesTyped', PrintInv, CompleteInv, Ahead,
         LinesFrom(Consumed)
  PROVE  \A i \in DOMAIN out : Complete(out[i])'
<1> SUFFICES ASSUME NEW i \in DOMAIN out PROVE Complete(out[i])'
  OBVIOUS
<1>1. Consumed \in Nat
  BY ConsumedIsNat
<1>2. PICK o : o = out[i]
  OBVIOUS
<1>3. o.at \in Nat /\ o.at <= Consumed
  BY <1>2 DEF PrintInv, LinesTyped
<1>4. /\ \A y \in maintained' : y[1] \in Nat
      /\ \A j \in DOMAIN out' : out'[j].at \in Nat
  BY DEF LinesTyped
<1>5. LinesFrom(o.at)
  BY <1>1, <1>3, <1>4 DEF LinesFrom
<1>6. Complete(o)'
  BY <1>2, <1>3, <1>5, CompleteStable DEF CompleteInv
<1>7. out'[i] = o
  BY <1>2 DEF LinesFrom
<1> QED  BY <1>6, <1>7

(* The history of lines and prunes only grows.                             *)
Grows ==
  /\ maintained \subseteq maintained'
  /\ \A i \in DOMAIN out : i \in DOMAIN out' /\ out'[i] = out[i]

(* A last word before k is one before n, if it was told by then.           *)
LEMMA KeptBack ==
  ASSUME CaptureInv, CaptureInv', Ahead, Grows, LinesTyped,
         NEW n \in Nat, n <= Consumed + 1, NEW k \in Nat, n <= k,
         NEW f \in Told', LastBefore(f, k)', ~ PrunedBefore(f, k)', f.at < n
  PROVE  f \in Told /\ LastBefore(f, n) /\ ~ PrunedBefore(f, n) /\ f.at \in Nat
<1>1. Consumed \in Nat /\ f.at \in Nat
  <2>1. CaptureInv' => (\A g \in Told : g.at \in Nat)'
    BY ToldPositions, PTL
  <2> QED  BY <2>1, ConsumedIsNat
<1>2. f \in Told
  BY <1>1, ToldStable
<1>3. LastBefore(f, n)
  <2> SUFFICES ASSUME NEW g \in Told, f.at < g.at, g.at < n
               PROVE  g.key # f.key \/ g.host # f.host
    BY DEF LastBefore
  <2>1. g \in Told' /\ g.at \in Nat
    BY ToldStable, ToldPositions
  <2> QED  BY <2>1 DEF LastBefore
<1>4. ~ PrunedBefore(f, n)
  <2>1. ASSUME NEW y \in maintained, f.at <= y[1], y[1] < n, y[2] >= f.expires
        PROVE  FALSE
    <3>1. y \in maintained' /\ y[1] < k
      BY <2>1 DEF Grows, LinesTyped
    <3> QED  BY <2>1, <3>1 DEF PrunedBefore
  <2>2. ASSUME NEW i \in DOMAIN out, f.at < out[i].at, out[i].at < n,
               out[i].stamp >= f.expires
        PROVE  FALSE
    <3>1. i \in DOMAIN out' /\ out'[i] = out[i] /\ out[i].at < k
      BY <2>2 DEF Grows, LinesTyped
    <3> QED  BY <2>2, <3>1 DEF PrunedBefore
  <2> QED  BY <2>1, <2>2 DEF PrunedBefore
<1> QED  BY <1>1, <1>2, <1>3, <1>4

(* Between messages: the frontier moves to k over positions that told      *)
(* nothing, and what the cache forgets a prune has had.                    *)
LEMMA KnownOn ==
  ASSUME Given, Given', NameInv, KnownInv, todo = {}, Ahead, Grows,
         NEW k \in Nat, Consumed + 1 <= k, Frontier' = k, Done' = {},
         Consumed <= Consumed',
         \A g \in Told' : ~ (Consumed + 1 <= g.at /\ g.at < k),
         \A x \in Facts(entries) :
           \/ x \in Facts(entries')
           \/ \E y \in maintained' : y[1] = Consumed /\ y[2] >= x.expires
           \/ \E i \in DOMAIN out' : /\ out'[i].at = Consumed + 1 /\ Consumed + 1 < k
                                     /\ out'[i].stamp >= x.expires
  PROVE  KnownInv'
<1>1. CaptureInv /\ CaptureInv' /\ Consumed \in Nat /\ Consumed' \in Nat
  <2>1. CaptureInv' => (Consumed \in Nat)'
    BY ConsumedIsNat, PTL
  <2> QED  BY <2>1, ConsumedIsNat DEF Given, BaseInv
<1> SUFFICES ASSUME Fits(Consumed + 1)',
                    NEW f \in Told', LastBefore(f, k)', ~ PrunedBefore(f, k)'
             PROVE  Known(f.key, f.host, f.expires)'
  BY DEF KnownInv
<1>2. PICK n, l : n = Consumed + 1 /\ l = Consumed' + 1
  OBVIOUS
<1>3. Fits(n)
  <2>1. Fits(l)'
    BY <1>2
  <2> QED  BY <1>1, <1>2, <2>1, FitsBefore
<1>4. f.at \in Nat /\ f.at < n
  <2>1. CaptureInv' => (\A g \in Told : g.at \in Nat)'
    BY ToldPositions, PTL
  <2> QED  BY <1>1, <1>2, <2>1 DEF LastBefore
<1>5. f \in Told /\ LastBefore(f, n) /\ ~ PrunedBefore(f, n)
  BY <1>1, <1>2, <1>4, KeptBack DEF Given
<1>6. ~ OverruledIn(f, message, Done) /\ Frontier = n
  BY <1>2, NothingDone DEF OverruledIn, NameInv, Frontier
<1>7. PICK x \in Facts(entries) : x.key = f.key /\ x.host = f.host /\ x.expires = f.expires
  BY <1>2, <1>3, <1>5, <1>6 DEF KnownInv, Known
<1>8. ~ \E y \in maintained' : y[1] = Consumed /\ y[2] >= x.expires
  BY <1>1, <1>2, <1>4, <1>7 DEF PrunedBefore
<1>9. ~ \E i \in DOMAIN out' : /\ out'[i].at = Consumed + 1 /\ Consumed + 1 < k
                               /\ out'[i].stamp >= x.expires
  BY <1>1, <1>2, <1>4, <1>7 DEF PrunedBefore
<1> QED  BY <1>7, <1>8, <1>9 DEF Known

(* A Put keeps what is known, while all fits.                              *)
LEMMA PutKnown ==
  ASSUME Given, Given', NameInv, KnownInv, PutMade
  PROVE  KnownInv'
<1>1. /\ CaptureInv /\ CaptureInv' /\ Ahead /\ Consumed \in Nat /\ Consumed' = Consumed
      /\ Grows
  BY ConsumedIsNat DEF Given, BaseInv, Ahead, PutMade, captureVars, Consumed, Grows
<1>2. PICK p \in todo :
        /\ \A q \in todo \ {p} : Precedes(p, q)
        /\ entries' = Put(entries, KeyOf(message, p), PutName(message.answer, p),
                          PutTTL(message.answer, p), stamp)
        /\ Hold(message, stamp, todo \ {p})
  BY DEF PutMade, PutNext, KeyOf
<1>3. /\ out' = out /\ maintained' = maintained /\ log' = log /\ Told' = Told
      /\ Heard' = Heard
  BY DEF PutMade, captureVars, Told, Heard
<1>4. PICK m, t, td : m = message /\ t = stamp /\ td = todo
  OBVIOUS
<1>5. /\ m \in Message /\ t \in Nat /\ td \in SUBSET PutPositions(m)
      /\ GoodCache(entries)
  BY <1>2, <1>4, InvIsGood, CacheAssumption DEF Given, BaseInv, ReadInv, Parsing
<1>6. PICK r \in Heard : r.at = Consumed /\ r.stamp = t /\ r.job.payload = m
  BY <1>2, <1>4 DEF NameInv, ParseInv
<1>7. /\ \A a \in PutPositions(m) \ td, q \in td : Precedes(a, q)
      /\ Frontier = Consumed /\ Done = Says(m) \ td
  BY <1>2, <1>4 DEF NameInv, ParseInv, Frontier, Done
<1> SUFFICES ASSUME Fits(Consumed + 1)' PROVE KnownInv'
  BY DEF KnownInv
<1>8. Fits(Consumed + 1)
  <2>1. PICK n : n = Consumed + 1
    OBVIOUS
  <2>2. Fits(n)'
    BY <1>1, <2>1
  <2> QED  BY <1>1, <2>1, <2>2, FitsBefore
<1> DEFINE D  == Says(m) \ td
           D2 == Says(m) \ (td \ {p})
<1>9. /\ \A x \in Facts(entries) :
           (p \in Says(m) => x.key # KeyOf(m, p) \/ x.host # HostOf(m, p))
           => x \in Facts(entries')
      /\ p \in Says(m) =>
           \E x \in Facts(entries') : /\ x.key = KeyOf(m, p) /\ x.host = HostOf(m, p)
                                      /\ x.expires = ExpiryOf(m, p, t)
  <2>1. p \in Says(m) => /\ ~ EntriesFull(entries, KeyOf(m, p))
                         /\ ~ NamesFull(entries, KeyOf(m, p), HostOf(m, p))
    BY <1>2, <1>4, <1>8, PutHasRoom
  <2> QED  BY <1>2, <1>4, <1>5, <2>1, PutLosesNothing
<1>10. ASSUME NEW f \in Told, LastBefore(f, Consumed), ~ PrunedBefore(f, Consumed),
              ~ OverruledIn(f, m, D2)
       PROVE  Known(f.key, f.host, f.expires)'
  <2>1. ~ OverruledIn(f, m, D) /\ (p \in Says(m) => f.key # KeyOf(m, p) \/ f.host # HostOf(m, p))
    BY <1>2, <1>4, <1>10 DEF OverruledIn
  <2>2. PICK x \in Facts(entries) : x.key = f.key /\ x.host = f.host /\ x.expires = f.expires
    BY <1>4, <1>7, <1>8, <1>10, <2>1 DEF KnownInv, Known
  <2>3. x \in Facts(entries')
    BY <1>9, <2>1, <2>2
  <2> QED  BY <2>2, <2>3 DEF Known
<1>11. ASSUME NEW q \in D2, LastIn(m, D2, q)
       PROVE  Known(KeyOf(m, q), HostOf(m, q), ExpiryOf(m, q, t))'
  <2>1. CASE q = p
    BY <1>9, <2>1 DEF Known
  <2>2. CASE q # p
    <3>1. q \in D /\ LastIn(m, D, q)
      BY <1>11, <2>2 DEF LastIn
    <3>2. p \in Says(m) => KeyOf(m, q) # KeyOf(m, p) \/ HostOf(m, q) # HostOf(m, p)
      <4> SUFFICES ASSUME p \in Says(m)
                   PROVE  KeyOf(m, q) # KeyOf(m, p) \/ HostOf(m, q) # HostOf(m, p)
        OBVIOUS
      <4>1. q \in PutPositions(m) \ td /\ p \in td /\ p \in D2
        BY <1>2, <1>4, <3>1 DEF Says
      <4>2. Precedes(q, p)
        BY <1>7, <4>1
      <4> QED  BY <1>11, <4>1, <4>2 DEF LastIn
    <3>3. PICK x \in Facts(entries) : /\ x.key = KeyOf(m, q) /\ x.host = HostOf(m, q)
                                      /\ x.expires = ExpiryOf(m, q, t)
      BY <1>4, <1>7, <1>8, <3>1 DEF KnownInv, Known
    <3>4. x \in Facts(entries')
      BY <1>9, <3>2, <3>3
    <3> QED  BY <3>3, <3>4 DEF Known
  <2> QED  BY <2>1, <2>2
<1>12. CASE td \ {p} # {}
  <2>1. message' = m /\ stamp' = t /\ todo' = td \ {p}
    BY <1>2, <1>4, <1>12 DEF Hold
  <2>2. Frontier' = Consumed /\ Done' = D2
    BY <1>1, <1>12, <2>1 DEF Frontier, Done
  <2>3. ASSUME NEW f \in Told', LastBefore(f, Frontier)', ~ PrunedBefore(f, Frontier)',
               ~ OverruledIn(f, message, Done)'
        PROVE  Known(f.key, f.host, f.expires)'
    <3>1. LastBefore(f, Consumed) /\ ~ PrunedBefore(f, Consumed)
      BY <1>3, <2>2, <2>3 DEF LastBefore, PrunedBefore
    <3>2. ~ OverruledIn(f, m, D2)
      BY <2>1, <2>2, <2>3 DEF OverruledIn
    <3> QED  BY <1>3, <1>10, <3>1, <3>2
  <2>4. ASSUME NEW q \in Done', LastIn(message, Done, q)'
        PROVE  Known(KeyOf(message, q), HostOf(message, q), ExpiryOf(message, q, stamp))'
    <3>1. q \in D2 /\ LastIn(m, D2, q)
      BY <2>1, <2>2, <2>4 DEF LastIn
    <3>2. Known(KeyOf(m, q), HostOf(m, q), ExpiryOf(m, q, t))'
      BY <1>11, <3>1
    <3> QED  BY <2>1, <3>2
  <2> QED  BY <2>3, <2>4, Zenon DEF KnownInv
<1>13. CASE td \ {p} = {}
  <2>1. message' = EmptyMessage /\ todo' = {}
    BY <1>2, <1>4, <1>13 DEF Hold
  <2>2. Frontier' = Consumed + 1 /\ Done' = {} /\ D2 = Says(m)
    BY <1>1, <1>13, <2>1, NothingDone DEF Frontier, Done
  <2>3. ASSUME NEW f \in Told', LastBefore(f, Frontier)', ~ PrunedBefore(f, Frontier)'
        PROVE  Known(f.key, f.host, f.expires)'
    <3>1. PICK n : n = Consumed + 1
      OBVIOUS
    <3>2. LastBefore(f, n)' /\ ~ PrunedBefore(f, n)'
      BY <2>2, <2>3, <3>1
    <3>3. f \in Told /\ f.at \in Nat /\ f.at < n
      BY <1>1, <1>3, <2>3, <3>2, ToldPositions DEF LastBefore
    <3>4. CASE f.at = Consumed
      <4>1. PICK q \in Heard : \E a \in Says(q.job.payload) :
              LastIn(q.job.payload, Says(q.job.payload), a) /\ f = ToldBy(q, a)
        BY <3>3, ToldIs
      <4>2. PICK a \in Says(q.job.payload) :
              LastIn(q.job.payload, Says(q.job.payload), a) /\ f = ToldBy(q, a)
        BY <4>1
      <4>3. q = r
        BY <1>1, <1>6, <3>4, <4>2 DEF ToldBy, Heard, CaptureInv, LogInv
      <4>4. /\ a \in D2 /\ LastIn(m, D2, a) /\ f.key = KeyOf(m, a)
            /\ f.host = HostOf(m, a) /\ f.expires = ExpiryOf(m, a, t)
        BY <1>6, <2>2, <4>2, <4>3 DEF ToldBy
      <4> QED  BY <1>11, <4>4
    <3>5. CASE f.at < Consumed
      <4>1. LastBefore(f, Consumed) /\ ~ PrunedBefore(f, Consumed)
        <5>1. PICK l : l = Consumed
          OBVIOUS
        <5> QED  BY <1>1, <1>3, <3>1, <3>2, <3>3, <3>5, <5>1, KeptBack DEF Given
      <4>2. ~ OverruledIn(f, m, D2)
        <5> SUFFICES ASSUME NEW q \in Says(m), f.key = KeyOf(m, q), f.host = HostOf(m, q)
                     PROVE  FALSE
          BY <2>2 DEF OverruledIn
        <5>1. PICK g \in ToldBefore(Consumed + 1) :
                g.at = Consumed /\ g.key = KeyOf(m, q) /\ g.host = HostOf(m, q)
          BY <1>2, <1>4, SubjectsTold
        <5>2. g \in Told' /\ f.at < g.at /\ g.at < n
          BY <1>1, <1>3, <3>1, <3>5, <5>1 DEF ToldBefore
        <5> QED  BY <3>2, <5>1, <5>2 DEF LastBefore
      <4> QED  BY <1>10, <3>3, <4>1, <4>2
    <3> QED  BY <1>1, <3>1, <3>3, <3>4, <3>5
  <2> QED  BY <2>2, <2>3 DEF KnownInv
<1> QED  BY <1>12, <1>13

(* Every step keeps what is known, while all fits.                         *)
LEMMA KnownInvStep ==
  ASSUME Given, Given', NameInv, NameInv', KnownInv, [NetmonNext]_netmonVars
  PROVE  KnownInv'
<1>1. /\ CaptureInv /\ CaptureInv' /\ Consumed \in Nat /\ GoodCache(entries)
      /\ \A g \in Told : g.at \in Nat
  BY ConsumedIsNat, InvIsGood, ToldPositions DEF Given, BaseInv
<1>2. todo' = {} => Done' = {}
  <2>1. (ParseInv /\ todo = {} => Done = {})'
    BY NothingDone, PTL
  <2> QED  BY <2>1 DEF NameInv
<1>3. CASE Aside
  <2>1. /\ Frontier' = Frontier /\ Done' = Done /\ Frontier \in Nat /\ Ahead
        /\ Frontier <= Consumed + 1 /\ Consumed' = Consumed /\ Grows
        /\ UNCHANGED <<entries, message, stamp, todo, out, maintained>>
    BY <1>1, <1>3 DEF Frontier, Done, Aside, responseVars, Grows
  <2>2. PICK n, l : n = Frontier /\ l = Consumed + 1
    OBVIOUS
  <2> SUFFICES ASSUME Fits(Consumed + 1)' PROVE KnownInv'
    BY DEF KnownInv
  <2>3. Fits(Consumed + 1)
    <3>1. Fits(l)'
      BY <2>1, <2>2
    <3> QED  BY <1>1, <2>1, <2>2, <3>1, FitsBefore
  <2>4. ASSUME NEW f \in Told', LastBefore(f, Frontier)', ~ PrunedBefore(f, Frontier)',
               ~ OverruledIn(f, message, Done)'
        PROVE  Known(f.key, f.host, f.expires)'
    <3>1. LastBefore(f, n)' /\ ~ PrunedBefore(f, n)' /\ f.at < n
      BY <2>1, <2>2, <2>4 DEF LastBefore
    <3>2. f \in Told /\ LastBefore(f, n) /\ ~ PrunedBefore(f, n)
      BY <1>1, <2>1, <2>2, <3>1, KeptBack DEF Given
    <3>3. ~ OverruledIn(f, message, Done)
      BY <2>1, <2>4 DEF OverruledIn
    <3>4. Known(f.key, f.host, f.expires)
      BY <2>2, <2>3, <3>2, <3>3 DEF KnownInv
    <3> QED  BY <2>1, <3>4 DEF Known
  <2>5. ASSUME NEW p \in Done', LastIn(message, Done, p)'
        PROVE  Known(KeyOf(message, p), HostOf(message, p), ExpiryOf(message, p, stamp))'
    <3>1. p \in Done /\ LastIn(message, Done, p)
      BY <2>1, <2>5 DEF LastIn
    <3>2. Known(KeyOf(message, p), HostOf(message, p), ExpiryOf(message, p, stamp))
      BY <2>3, <3>1 DEF KnownInv
    <3> QED  BY <2>1, <3>2 DEF Known, KeyOf, HostOf, ExpiryOf
  <2> QED  BY <2>4, <2>5, Zenon DEF KnownInv
<1>4. ASSUME Consumed' = Consumed + 1, log' = log, todo = {}, todo' = {}, Grows,
             \A g \in Told : g.at # Consumed + 1,
             \A x \in Facts(entries) :
               \/ x \in Facts(entries')
               \/ \E i \in DOMAIN out' : /\ out'[i].at = Consumed + 1
                                         /\ out'[i].stamp >= x.expires
      PROVE  KnownInv'
  <2>1. Ahead /\ Told' = Told /\ Done' = {}
    BY <1>2, <1>4 DEF Ahead, Told
  <2>2. PICK k : k = Consumed + 2
    OBVIOUS
  <2>3. /\ k \in Nat /\ Consumed + 1 <= k /\ Frontier' = k /\ Consumed <= Consumed'
        /\ Consumed + 1 < k
    BY <1>1, <1>4, <2>2 DEF Frontier
  <2>4. \A g \in Told' : ~ (Consumed + 1 <= g.at /\ g.at < k)
    BY <1>1, <1>4, <2>1, <2>2
  <2> QED  BY <1>4, <2>1, <2>3, <2>4, KnownOn
<1>5. CASE PassedBy
  <2>1. \A g \in Told : g.at # Consumed + 1
    BY <1>5, Unheard DEF PassedBy
  <2>2. todo' = {} /\ entries' = entries /\ Grows
    BY <1>5 DEF PassedBy, responseVars, Grows
  <2> QED  BY <1>4, <1>5, <2>1, <2>2 DEF PassedBy
<1>6. CASE PrintConnection
  <2>1. PICK o :
           /\ o.at = Consumed + 1 /\ o.stamp \in Nat
           /\ out' = Append(out, o) /\ Len(out) \in Nat
           /\ DOMAIN out' = 1..(Len(out) + 1) /\ DOMAIN out = 1..Len(out)
           /\ \A i \in DOMAIN out : out'[i] = out[i]
           /\ out'[Len(out) + 1] = o
           /\ entries' = Prune(entries, o.stamp)
           /\ \A h : h \in HostsOf(o) <=>
                    \E x \in Facts(entries') : x.key = o.key /\ x.host = h
           /\ \A g \in Told : g.at # Consumed + 1
           /\ Consumed' = Consumed + 1 /\ log' = log
           /\ todo = {} /\ UNCHANGED <<message, todo, maintained>>
    BY <1>6, LinePrinted
  <2>2. Grows
    BY <2>1 DEF Grows
  <2>3. \A x \in Facts(entries) :
               \/ x \in Facts(entries')
               \/ \E i \in DOMAIN out' : /\ out'[i].at = Consumed + 1
                                         /\ out'[i].stamp >= x.expires
    <3> SUFFICES ASSUME NEW x \in Facts(entries), ~ (o.stamp >= x.expires)
                 PROVE  x \in Facts(entries')
      BY <2>1
    <3>1. x.expires \in Nat
      BY <1>1, <2>1, AllKept, ToldType DEF Kept
    <3> QED  BY <1>1, <2>1, <3>1, PruneExpires
  <2> QED  BY <1>4, <2>1, <2>2, <2>3
<1>7. CASE Received
  <2>1. PICK r \in Heard : r.at = Consumed + 1 /\ Receive(r.job.payload, r.stamp)
    BY <1>7 DEF Received
  <2>2. /\ Consumed' = Consumed + 1 /\ log' = log /\ todo = {}
        /\ todo' = PutPositions(r.job.payload) /\ Ahead /\ Grows
        /\ UNCHANGED <<entries, out, maintained>>
    BY <1>7, <2>1 DEF Received, Receive, Hold, Ahead, Grows
  <2>3. \A q \in Heard : q.at = Consumed + 1 => q = r
    BY <1>1, <2>1 DEF Heard, CaptureInv, LogInv
  <2>4. CASE todo' = {}
    <3>1. Says(r.job.payload) = {}
      BY <2>2, <2>4 DEF Says
    <3>2. \A g \in Told : g.at # Consumed + 1
      BY <2>3, <3>1, Unheard
    <3> QED  BY <1>4, <2>2, <2>4, <3>2
  <2>5. CASE todo' # {}
    <3>1. Done' = {} /\ Told' = Told
      BY <2>1, <2>2, <2>5 DEF Receive, Hold, Done, Says, Told
    <3>2. PICK k : k = Consumed + 1
      OBVIOUS
    <3>3. k \in Nat /\ Consumed + 1 <= k /\ Frontier' = k /\ Consumed <= Consumed'
      BY <1>1, <2>2, <2>5, <3>2 DEF Frontier
    <3>4. \A g \in Told' : ~ (Consumed + 1 <= g.at /\ g.at < k)
      BY <1>1, <3>1, <3>2
    <3> QED  BY <2>2, <3>1, <3>3, <3>4, KnownOn
  <2> QED  BY <2>4, <2>5
<1>8. CASE Maintained
  <2>1. /\ todo = {} /\ todo' = {} /\ out' = out /\ log' = log
        /\ Consumed' = Consumed /\ Ahead /\ Grows /\ Done' = {} /\ Told' = Told
        /\ entries' = Prune(entries, clock)
        /\ maintained' = maintained \cup {<<Consumed, clock>>}
    BY <1>2, <1>8 DEF Maintained, captureVars, Consumed, Ahead, Grows, Told
  <2>2. PICK k : k = Consumed + 1
    OBVIOUS
  <2>3. k \in Nat /\ Consumed + 1 <= k /\ Frontier' = k /\ Consumed <= Consumed'
    BY <1>1, <2>1, <2>2 DEF Frontier
  <2>4. \A g \in Told' : ~ (Consumed + 1 <= g.at /\ g.at < k)
    BY <1>1, <2>1, <2>2
  <2>5. clock \in Nat
    BY <1>1, CaptureAssumption DEF CaptureInv, CaptureTypeOK
  <2>6. \A x \in Facts(entries) :
           \/ x \in Facts(entries')
           \/ \E y \in maintained' : y[1] = Consumed /\ y[2] >= x.expires
    <3>0. \E y \in maintained' : y[1] = Consumed /\ y[2] = clock
      <4>1. <<Consumed, clock>> \in maintained'
        BY <2>1
      <4> QED  BY <4>1
    <3> SUFFICES ASSUME NEW x \in Facts(entries), ~ (clock >= x.expires)
                 PROVE  x \in Facts(entries')
      BY <3>0
    <3>1. x.expires \in Nat
      BY <1>1, <2>1, AllKept, ToldType DEF Kept
    <3> QED  BY <1>1, <2>1, <2>5, <3>1, PruneExpires
  <2> QED  BY <2>1, <2>3, <2>4, <2>6, KnownOn
<1>9. CASE PutMade
  BY <1>9, PutKnown
<1> QED  BY <1>3, <1>5, <1>6, <1>7, <1>8, <1>9, StepOfNames DEF Given

(* Every step keeps the lines complete: a new one names what is known.     *)
LEMMA CompleteInvStep ==
  ASSUME Given, Given', NameInv, KnownInv, CompleteInv, [NetmonNext]_netmonVars
  PROVE  CompleteInv'
<1>1. CaptureInv /\ CaptureInv' /\ Consumed \in Nat /\ GoodCache(entries)
  BY ConsumedIsNat, InvIsGood DEF Given, BaseInv
<1>2. CASE PrintConnection
  <2>1. PICK o :
           /\ o.at = Consumed + 1 /\ o.stamp \in Nat
           /\ out' = Append(out, o) /\ Len(out) \in Nat
           /\ DOMAIN out' = 1..(Len(out) + 1) /\ DOMAIN out = 1..Len(out)
           /\ \A i \in DOMAIN out : out'[i] = out[i]
           /\ out'[Len(out) + 1] = o
           /\ entries' = Prune(entries, o.stamp)
           /\ \A h : h \in HostsOf(o) <=>
                    \E x \in Facts(entries') : x.key = o.key /\ x.host = h
           /\ \A g \in Told : g.at # Consumed + 1
           /\ Consumed' = Consumed + 1 /\ log' = log
           /\ todo = {} /\ UNCHANGED <<message, todo, maintained>>
    BY <1>2, LinePrinted
  <2>2. Ahead /\ LinesFrom(Consumed) /\ LinesFrom(o.at) /\ Told' = Told
    BY <1>1, <2>1 DEF Ahead, LinesFrom, Told
  <2>3. \A i \in DOMAIN out : Complete(out[i])'
    BY <1>1, <2>2, LinesComplete DEF Given
  <2>4. Complete(o)'
    <3> SUFFICES ASSUME Fits(o.at)', NEW f \in Told', f.key = o.key, LastBefore(f, o.at)',
                        f.expires > o.stamp, ~ PrunedBefore(f, o.at)'
                 PROVE  f.host \in HostsOf(o)
      BY DEF Complete, HostsOf
    <3>1. Fits(Consumed + 1)
      BY <1>1, <2>1, <2>2, FitsBefore
    <3>2. LastBefore(f, o.at) /\ ~ PrunedBefore(f, o.at) /\ f \in Told
      BY <2>2, PrunedStable DEF LastBefore
    <3>3. Frontier = o.at /\ ~ OverruledIn(f, message, Done)
      BY <2>1, NothingDone DEF Frontier, NameInv, OverruledIn
    <3>4. PICK x \in Facts(entries) : x.key = f.key /\ x.host = f.host /\ x.expires = f.expires
      BY <3>1, <3>2, <3>3 DEF KnownInv, Known
    <3>5. x \in Facts(entries')
      BY <1>1, <2>1, <3>4, PruneExpires
    <3> QED  BY <2>1, <3>4, <3>5
  <2> QED  BY <2>1, <2>3, <2>4 DEF CompleteInv
<1>3. CASE Aside \/ PassedBy \/ Received \/ PutMade \/ Maintained
  <2>1. out' = out /\ Ahead /\ LinesFrom(Consumed)
    <3>1. out' = out /\ Ahead
      BY <1>3 DEF Aside, PassedBy, Received, PutMade, Maintained, Ahead, captureVars
    <3>2. maintained' = maintained \/ maintained' = maintained \cup {<<Consumed, clock>>}
      BY <1>3 DEF Aside, PassedBy, Received, PutMade, Maintained
    <3> QED  BY <1>1, <3>1, <3>2 DEF LinesFrom
  <2>2. \A i \in DOMAIN out : Complete(out[i])'
    BY <1>1, <2>1, LinesComplete DEF Given
  <2> QED  BY <2>1, <2>2 DEF CompleteInv
<1> QED  BY <1>2, <1>3, StepOfNames DEF Given

(* While all that was told before it fits the cache, a line lists exactly  *)
(* the hosts that the DNS responses before it in the ring gave its address *)
(* and that were live at its own timestamp, save those an earlier prune,   *)
(* made at a later time, has removed: for every number of programs and     *)
(* CPUs, every size of ring and cache, every message (main.go:195-281).    *)
THEOREM NetmonExactNames == NetmonSpec => []ExactNames
<1>1. NetmonInit => KnownInv /\ CompleteInv
  <2> SUFFICES ASSUME NetmonInit PROVE KnownInv /\ CompleteInv
    OBVIOUS
  <2>1. log = {} /\ out = << >> /\ message = EmptyMessage
    BY DEF NetmonInit, CaptureInit, ResponseInit
  <2>2. Told = {} /\ Done = {}
    BY <2>1, NothingDone DEF Told, Done
  <2> QED  BY <2>1, <2>2 DEF KnownInv, CompleteInv
<1>2. /\ Given /\ Given' /\ NameInv /\ NameInv' /\ KnownInv /\ CompleteInv
      /\ [NetmonNext]_netmonVars
      => KnownInv' /\ CompleteInv'
  BY KnownInvStep, CompleteInvStep
<1>3. NetmonSpec => [](KnownInv /\ CompleteInv)
  BY <1>1, <1>2, NamesHold, PTL DEF NetmonSpec
<1>4. NameInv /\ CompleteInv => ExactNames
  BY DEF NameInv, LineInv, Supported, CompleteInv, Complete, ExactNames
<1> QED  BY <1>3, <1>4, NamesHold, PTL

=============================================================================
