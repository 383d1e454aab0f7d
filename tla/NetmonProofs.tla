---------------------------- MODULE NetmonProofs ----------------------------
(***************************************************************************)
(* netmon as a whole, for every set of contexts, CPUs, packets, messages   *)
(* and addresses, every size of the ring and of the cache, and every bound.*)
(* The kernel side is argued about alone first: a step of netmon is for it *)
(* a step of its programs, the consumption of a record that is not busy,   *)
(* or the end of its attachment.  The last part is about the checks a DNS  *)
(* packet passes through, one packet at a time.                            *)
(***************************************************************************)
EXTENDS Netmon, DnsPacket, DnsCacheProofs, SequenceTheorems

-----------------------------------------------------------------------------
(* The kernel side.                                                        *)

(* What netmon does to the state of the programs.                          *)
Released ==
  /\ ring # << >> /\ Head(ring).state # "busy"
  /\ Consume

Detached ==
  /\ attached' = FALSE
  /\ UNCHANGED <<clock, starts, progVars, produced, ring, counters, calls,
                 raced, log>>

CaptureStep ==
  \/ \E c \in Ctx : Run(c) \/ \E j \in Job : Start(c, j)
  \/ Tick
  \/ Released
  \/ Detached
  \/ UNCHANGED captureVars

(* Every step of netmon is one of these.                                   *)
LEMMA StepOfCapture == [NetmonNext]_netmonVars => CaptureStep
<1> SUFFICES ASSUME [NetmonNext]_netmonVars PROVE CaptureStep
  OBVIOUS
<1>1. CASE \E c \in Ctx : Program(c)
  BY <1>1 DEF Program, CaptureStep
<1>2. CASE Pass
  BY <1>2 DEF Pass, CaptureStep
<1>3. CASE Reader
  <2>1. CASE SkipDiscarded \/ PrintConnection \/ HandleDns
    BY <2>1 DEF SkipDiscarded, PrintConnection, HandleDns, CaptureStep, Released
  <2>2. CASE Select \/ Parse \/ Deadline \/ Maintain \/ PrintCounters
    BY <2>2 DEF Select, Parse, Deadline, Maintain, PrintCounters, CaptureStep
  <2>3. CASE Detach
    BY <2>3 DEF Detach, CaptureStep, Detached
  <2> QED  BY <1>3, <2>1, <2>2, <2>3 DEF Reader
<1>4. CASE ReadError \/ Interrupt \/ Vanish
  BY <1>4 DEF ReadError, Interrupt, Vanish, CaptureStep
<1>5. CASE UNCHANGED netmonVars
  BY <1>5 DEF netmonVars, CaptureStep
<1> QED  BY <1>1, <1>2, <1>3, <1>4, <1>5 DEF NetmonNext

(* The outcome of a program's checks is a counter, or none.                *)
LEMMA OutcomeType ==
  ASSUME NEW j \in Job
  PROVE  Outcome(j) \in Counter \cup {"ignored", "capture"}
<1>1. ASSUME NEW p \in Packet
      PROVE  CheckL3(p) \in Counter \cup {"ignored", "udp"}
  <2>1. DetectDnsTcp(p) \in Counter \cup {"ignored", "udp"}
    BY DEF DetectDnsTcp, Counter
  <2> QED  BY <2>1 DEF CheckL3, Counter
<1>2. ASSUME NEW p \in Packet
      PROVE  CheckUdp(p) \in Counter \cup {"ignored", "capture"}
  BY DEF CheckUdp, Counter
<1>3. j \in JobType
  BY CaptureAssumption
<1>4. j.kind = "packet" => j.packet \in Packet
  BY <1>3 DEF JobType
<1> QED  BY <1>1, <1>2, <1>4 DEF Outcome, Check, Counter

(* A context that has reserved a record and not committed it.              *)
Writing(c) == pc[c] \in {"stamp", "commit"}

(* Programs and ring agree: a program writes its own busy record, which is *)
(* still in the ring, and every busy record has its program.               *)
RingInv ==
  /\ Len(ring) <= produced
  /\ \A c \in Ctx : Writing(c) =>
       /\ slot[c] \in (Consumed + 1)..produced
       /\ ring[slot[c] - Consumed].state = "busy"
       /\ ring[slot[c] - Consumed].job = job[c]
  /\ \A c, d \in Ctx : Writing(c) /\ Writing(d) /\ slot[c] = slot[d] => c = d
  /\ \A i \in DOMAIN ring : ring[i].state = "busy" =>
       \E c \in Ctx : Writing(c) /\ slot[c] = Consumed + i

(* Ring and history agree: what was submitted and is still in the ring is  *)
(* there as it was submitted, and what is ready was submitted.             *)
LogInv ==
  /\ \A r \in log : r.at \in 1..produced
  /\ \A r \in log : r.at > Consumed =>
       ring[r.at - Consumed] = [state |-> "ready", stamp |-> r.stamp, job |-> r.job]
  /\ \A i \in DOMAIN ring : ring[i].state = "ready" =>
       [at |-> Consumed + i, stamp |-> ring[i].stamp, job |-> ring[i].job] \in log
  /\ \A q, r \in log : q.at = r.at => q = r

CaptureInv == CaptureTypeOK /\ RingInv /\ LogInv

(* Counting leaves the types alone.                                        *)
LEMMA BumpType ==
  ASSUME CaptureTypeOK, NEW c \in Ctx, NEW x \in Counter, Bump(c, x)
  PROVE  /\ pc' \in [Ctx -> {"idle", "load", "store", "reserve", "stamp", "commit"}]
         /\ cnt' \in [Ctx -> Counter]
         /\ calls' \in [Counter -> Nat]
         /\ raced' \subseteq Counter
BY DEF CaptureTypeOK, Bump

(* So does writing a field of a record of the ring.                        *)
LEMMA RecordUpdate ==
  ASSUME NEW r \in Seq(RingRecord), NEW i \in DOMAIN r,
         NEW t \in 0..MaxClock, NEW s \in {"busy", "ready", "discarded"}
  PROVE  /\ [r EXCEPT ![i].stamp = t] \in Seq(RingRecord)
         /\ [r EXCEPT ![i].state = s] \in Seq(RingRecord)
<1>1. r[i] \in RingRecord
  OBVIOUS
<1>2. /\ [r[i] EXCEPT !.stamp = t] \in RingRecord
      /\ [r[i] EXCEPT !.state = s] \in RingRecord
  BY <1>1 DEF RingRecord
<1> QED  BY <1>2

(* A program's record is in the ring.                                      *)
LEMMA SlotInRing ==
  ASSUME CaptureTypeOK, RingInv, NEW c \in Ctx, Writing(c)
  PROVE  slot[c] - Consumed \in DOMAIN ring
BY DEF CaptureTypeOK, RingInv, Consumed

(* The types are preserved.                                                *)
LEMMA CaptureTypeStep ==
  ASSUME CaptureTypeOK, RingInv, CaptureStep
  PROVE  CaptureTypeOK'
<1> USE CaptureAssumption
<1>1. ASSUME NEW c \in Ctx, NEW j \in Job, Start(c, j)
      PROVE  CaptureTypeOK'
  <2>1. /\ pc' \in [Ctx -> {"idle", "load", "store", "reserve", "stamp", "commit"}]
        /\ cnt' \in [Ctx -> Counter]
        /\ calls' \in [Counter -> Nat]
        /\ raced' \subseteq Counter
    <3>1. CASE Outcome(j) = "ignored"
      BY <1>1, <3>1 DEF Start, CaptureTypeOK
    <3>2. CASE Outcome(j) \notin {"ignored", "capture"}
      BY <1>1, <3>2, BumpType, OutcomeType DEF Start
    <3>3. CASE Outcome(j) = "capture" /\ CutShort(j)
      BY <1>1, <3>3, BumpType DEF Start, Counter
    <3>4. CASE Outcome(j) = "capture" /\ ~ CutShort(j)
      BY <1>1, <3>4 DEF Start, CaptureTypeOK
    <3> QED  BY <3>1, <3>2, <3>3, <3>4
  <2>2. starts' \in 0..MaxStarts /\ job' \in [Ctx -> Job]
    BY <1>1 DEF Start, CaptureTypeOK
  <2>3. attached' \in BOOLEAN
    BY <1>1, Zenon DEF Start, CaptureTypeOK
  <2> QED  BY <1>1, <2>1, <2>2, <2>3 DEF Start, CaptureTypeOK
<1>2. ASSUME NEW c \in Ctx, Load(c)
      PROVE  CaptureTypeOK'
  BY <1>2 DEF Load, CaptureTypeOK, Mine
<1>3. ASSUME NEW c \in Ctx, Store(c)
      PROVE  CaptureTypeOK'
  BY <1>3 DEF Store, CaptureTypeOK, Mine
<1>4. ASSUME NEW c \in Ctx, Reserve(c)
      PROVE  CaptureTypeOK'
  <2>1. CASE Len(ring) < RingSize
    <3>1. [state |-> "busy", stamp |-> 0, job |-> job[c]] \in RingRecord
      BY DEF CaptureTypeOK, RingRecord
    <3>2. /\ ring' = Append(ring, [state |-> "busy", stamp |-> 0, job |-> job[c]])
          /\ produced' = produced + 1
          /\ slot' = [slot EXCEPT ![c] = produced + 1]
          /\ pc' = [pc EXCEPT ![c] = "stamp"]
          /\ UNCHANGED <<cnt, calls, raced>>
      BY <1>4, <2>1 DEF Reserve
    <3>3. ring' \in Seq(RingRecord)
      BY <3>1, <3>2 DEF CaptureTypeOK
    <3> QED  BY <1>4, <3>2, <3>3 DEF Reserve, CaptureTypeOK
  <2>2. CASE ~ (Len(ring) < RingSize)
    BY <1>4, <2>2, BumpType DEF Reserve, CaptureTypeOK, Counter
  <2> QED  BY <2>1, <2>2
<1>5. ASSUME NEW c \in Ctx, Stamp(c)
      PROVE  CaptureTypeOK'
  <2>1. ring' \in Seq(RingRecord)
    BY <1>5, SlotInRing, RecordUpdate DEF Stamp, CaptureTypeOK, Writing
  <2> QED  BY <1>5, <2>1 DEF Stamp, CaptureTypeOK
<1>6. ASSUME NEW c \in Ctx, Commit(c)
      PROVE  CaptureTypeOK'
  <2> DEFINE i == slot[c] - Consumed
             good == job[c].kind = "packet" => PayloadLoads(job[c].packet)
  <2>1. i \in DOMAIN ring
    BY <1>6, SlotInRing DEF Commit, Writing
  <2>2. ring' \in Seq(RingRecord)
    BY <1>6, <2>1, RecordUpdate, CaptureAssumption DEF Commit, CaptureTypeOK
  <2>3. CASE good
    <3>1. ring[i].stamp \in 0..MaxClock
      <4>1. ring[i] \in RingRecord
        BY <2>1 DEF CaptureTypeOK
      <4> QED  BY <4>1 DEF RingRecord
    <3>2. log' \subseteq [at : Nat, stamp : 0..MaxClock, job : Job]
      BY <1>6, <2>3, <3>1 DEF Commit, CaptureTypeOK
    <3> QED  BY <1>6, <2>2, <2>3, <3>2 DEF Commit, CaptureTypeOK
  <2>4. CASE ~ good
    BY <1>6, <2>2, <2>4, BumpType DEF Commit, CaptureTypeOK, Counter
  <2> QED  BY <2>3, <2>4
<1>7. CASE Tick
  BY <1>7 DEF Tick, CaptureTypeOK, progVars
<1>8. CASE Released
  BY <1>8 DEF Released, Consume, CaptureTypeOK, progVars
<1>9. CASE Detached \/ UNCHANGED captureVars
  BY <1>9 DEF Detached, captureVars, CaptureTypeOK, progVars
<1> QED  BY <1>1, <1>2, <1>3, <1>4, <1>5, <1>6, <1>7, <1>8, <1>9
         DEF CaptureStep, Run

(* A step that neither writes the ring nor starts or ends a writer.        *)
LEMMA RingUntouched ==
  ASSUME RingInv, LogInv, UNCHANGED <<ring, produced, log, slot>>,
         \A d \in Ctx : Writing(d)' <=> Writing(d),
         \A d \in Ctx : Writing(d) => job'[d] = job[d]
  PROVE  RingInv' /\ LogInv'
BY DEF RingInv, LogInv, Consumed

(* A reservation appends a busy record that its program owns.              *)
LEMMA RingReserve ==
  ASSUME CaptureInv, NEW c \in Ctx, Reserve(c), Len(ring) < RingSize
  PROVE  RingInv' /\ LogInv'
<1> DEFINE new == [state |-> "busy", stamp |-> 0, job |-> job[c]]
<1>1. /\ ring' = Append(ring, new)
      /\ produced' = produced + 1
      /\ slot' = [slot EXCEPT ![c] = produced + 1]
      /\ pc' = [pc EXCEPT ![c] = "stamp"]
      /\ pc[c] = "reserve"
      /\ UNCHANGED <<job, log>>
  BY DEF Reserve
<1>2. /\ ring \in Seq(RingRecord) /\ produced \in Nat /\ Len(ring) <= produced
      /\ slot \in [Ctx -> Nat] /\ pc \in [Ctx -> {"idle", "load", "store", "reserve", "stamp", "commit"}]
  BY DEF CaptureInv, CaptureTypeOK, RingInv
<1>3. /\ Len(ring') = Len(ring) + 1
      /\ \A i \in 1..Len(ring) : ring'[i] = ring[i]
      /\ ring'[Len(ring) + 1] = new
      /\ DOMAIN ring' = 1..(Len(ring) + 1)
      /\ DOMAIN ring = 1..Len(ring)
  BY <1>1, <1>2
<1>4. Consumed' = Consumed /\ Consumed \in Nat /\ produced = Consumed + Len(ring)
  BY <1>1, <1>2, <1>3 DEF Consumed
<1>5. ~ Writing(c) /\ Writing(c)' /\ \A d \in Ctx \ {c} : Writing(d)' <=> Writing(d)
  BY <1>1, <1>2 DEF Writing
<1>6. \A d \in Ctx \ {c} : slot'[d] = slot[d]
  BY <1>1, <1>2
<1>7. slot'[c] = produced + 1
  BY <1>1, <1>2
<1>8. ASSUME NEW d \in Ctx, Writing(d)'
      PROVE  /\ slot'[d] \in (Consumed' + 1)..produced'
             /\ ring'[slot'[d] - Consumed'].state = "busy"
             /\ ring'[slot'[d] - Consumed'].job = job'[d]
             /\ d # c => slot'[d] <= produced
  <2>1. CASE d = c
    BY <1>1, <1>2, <1>3, <1>4, <1>7, <2>1
  <2>2. CASE d # c
    <3>1. /\ slot[d] \in (Consumed + 1)..produced
          /\ ring[slot[d] - Consumed].state = "busy"
          /\ ring[slot[d] - Consumed].job = job[d]
      BY <1>5, <1>8, <2>2 DEF CaptureInv, RingInv
    <3> QED  BY <1>1, <1>2, <1>3, <1>4, <1>6, <2>2, <3>1
  <2> QED  BY <2>1, <2>2
<1>9. ASSUME NEW i \in DOMAIN ring', ring'[i].state = "busy"
      PROVE  \E d \in Ctx : Writing(d)' /\ slot'[d] = Consumed' + i
  <2>1. CASE i = Len(ring) + 1
    BY <1>2, <1>4, <1>5, <1>7, <2>1
  <2>2. CASE i # Len(ring) + 1
    <3>1. i \in DOMAIN ring /\ ring[i].state = "busy"
      BY <1>2, <1>3, <1>9, <2>2
    <3>2. PICK d \in Ctx : Writing(d) /\ slot[d] = Consumed + i
      BY <3>1 DEF CaptureInv, RingInv
    <3> QED  BY <1>4, <1>5, <1>6, <3>2
  <2> QED  BY <2>1, <2>2
<1>10. RingInv'
  <2>1. \A d, e \in Ctx : Writing(d)' /\ Writing(e)' /\ slot'[d] = slot'[e] => d = e
    <3> SUFFICES ASSUME NEW d \in Ctx, NEW e \in Ctx, Writing(d)', Writing(e)',
                        slot'[d] = slot'[e], d # e
                 PROVE  FALSE
      OBVIOUS
    <3>1. d # c /\ e # c
      BY <1>2, <1>7, <1>8
    <3> QED  BY <1>5, <1>6, <3>1 DEF CaptureInv, RingInv
  <2>2. Len(ring') <= produced'
    BY <1>1, <1>2, <1>3
  <2> QED  BY <1>8, <1>9, <2>1, <2>2, Zenon DEF RingInv
<1>11. LogInv'
  <2>1. \A r \in log' : r.at \in 1..produced'
    BY <1>1, <1>2 DEF CaptureInv, LogInv
  <2>2. ASSUME NEW r \in log', r.at > Consumed'
        PROVE  ring'[r.at - Consumed'] = [state |-> "ready", stamp |-> r.stamp, job |-> r.job]
    <3>1. r \in log /\ r.at \in 1..produced
      BY <1>1 DEF CaptureInv, LogInv
    <3>2. r.at - Consumed \in 1..Len(ring)
      BY <1>2, <1>4, <2>2, <3>1
    <3> QED  BY <1>3, <1>4, <2>2, <3>1, <3>2 DEF CaptureInv, LogInv
  <2>3. ASSUME NEW i \in DOMAIN ring', ring'[i].state = "ready"
        PROVE  [at |-> Consumed' + i, stamp |-> ring'[i].stamp, job |-> ring'[i].job] \in log'
    <3>1. i # Len(ring) + 1
      BY <1>3, <2>3
    <3>2. i \in DOMAIN ring /\ ring'[i] = ring[i]
      BY <1>2, <1>3, <2>3, <3>1
    <3> QED  BY <1>1, <1>4, <2>3, <3>2 DEF CaptureInv, LogInv
  <2> QED  BY <1>1, <2>1, <2>2, <2>3 DEF CaptureInv, LogInv
<1> QED  BY <1>10, <1>11

(* Stamping a record changes neither its state nor its program.            *)
LEMMA RingStamp ==
  ASSUME CaptureInv, NEW c \in Ctx, Stamp(c)
  PROVE  RingInv' /\ LogInv'
<1> DEFINE i == slot[c] - Consumed
<1>1. Writing(c) /\ i \in DOMAIN ring /\ ring[i].state = "busy"
  BY SlotInRing DEF Stamp, Writing, CaptureInv, RingInv
<1>2. /\ ring' = [ring EXCEPT ![i].stamp = clock]
      /\ pc' = [pc EXCEPT ![c] = "commit"]
      /\ UNCHANGED <<job, log, slot, produced>>
  BY DEF Stamp
<1>3. /\ ring \in Seq(RingRecord) /\ produced \in Nat
      /\ pc \in [Ctx -> {"idle", "load", "store", "reserve", "stamp", "commit"}]
  BY DEF CaptureInv, CaptureTypeOK
<1> HIDE DEF i
<1>4. /\ DOMAIN ring' = DOMAIN ring /\ Len(ring') = Len(ring)
      /\ \A k \in DOMAIN ring \ {i} : ring'[k] = ring[k]
      /\ ring'[i] = [ring[i] EXCEPT !.stamp = clock]
  BY <1>1, <1>2, <1>3
<1>5. ring'[i].state = "busy" /\ ring'[i].job = ring[i].job
  <2>1. ring[i] \in RingRecord
    BY <1>1, <1>3
  <2> QED  BY <1>1, <1>4, <2>1 DEF RingRecord
<1>6. Consumed' = Consumed
  BY <1>2, <1>4 DEF Consumed
<1>7. \A d \in Ctx : Writing(d)' <=> Writing(d)
  BY <1>1, <1>2, <1>3 DEF Writing
<1>8. \A k \in DOMAIN ring : ring'[k].state = ring[k].state /\ ring'[k].job = ring[k].job
  BY <1>1, <1>4, <1>5
<1>9. RingInv'
  <2>1. \A d \in Ctx : Writing(d) => slot[d] - Consumed \in DOMAIN ring
    BY SlotInRing DEF CaptureInv
  <2> QED  BY <1>2, <1>4, <1>6, <1>7, <1>8, <2>1 DEF CaptureInv, RingInv
<1>10. LogInv'
  <2>1. \A r \in log : r.at > Consumed =>
          r.at - Consumed \in DOMAIN ring /\ ring'[r.at - Consumed] = ring[r.at - Consumed]
    <3> SUFFICES ASSUME NEW r \in log, r.at > Consumed
                 PROVE  /\ r.at - Consumed \in DOMAIN ring
                        /\ ring'[r.at - Consumed] = ring[r.at - Consumed]
      OBVIOUS
    <3>1. r.at \in 1..produced /\ ring[r.at - Consumed].state = "ready"
      <4>1. /\ r.at \in 1..produced
            /\ ring[r.at - Consumed] = [state |-> "ready", stamp |-> r.stamp, job |-> r.job]
        BY Zenon DEF CaptureInv, LogInv
      <4> QED  BY <4>1
    <3>2. r.at - Consumed \in DOMAIN ring
      BY <1>3, <3>1 DEF Consumed, CaptureInv, RingInv
    <3> QED  BY <1>1, <1>4, <3>1, <3>2
  <2>2. \A k \in DOMAIN ring' : ring'[k].state = "ready" => ring'[k] = ring[k]
    BY <1>4, <1>5
  <2>3. \A r \in log : r.at > Consumed =>
          ring'[r.at - Consumed] = [state |-> "ready", stamp |-> r.stamp, job |-> r.job]
    BY <2>1, Zenon DEF CaptureInv, LogInv
  <2>4. \A k \in DOMAIN ring' : ring'[k].state = "ready" =>
          [at |-> Consumed + k, stamp |-> ring'[k].stamp, job |-> ring'[k].job] \in log
    BY <1>4, <2>2, Zenon DEF CaptureInv, LogInv
  <2> QED  BY <1>2, <1>6, <2>3, <2>4, Zenon DEF CaptureInv, LogInv
<1> QED  BY <1>9, <1>10

(* Records of the history are within the ring when they are not consumed.  *)
LEMMA LoggedInRing ==
  ASSUME CaptureInv, NEW r \in log
  PROVE  /\ r.at \in 1..produced
         /\ r.at > Consumed =>
              /\ r.at - Consumed \in DOMAIN ring
              /\ ring[r.at - Consumed] =
                   [state |-> "ready", stamp |-> r.stamp, job |-> r.job]
              /\ ring[r.at - Consumed].state = "ready"
<1>1. /\ r.at \in 1..produced
      /\ r.at > Consumed => ring[r.at - Consumed] =
                              [state |-> "ready", stamp |-> r.stamp, job |-> r.job]
  BY Zenon DEF CaptureInv, LogInv
<1>2. r.at > Consumed => r.at - Consumed \in DOMAIN ring
  BY <1>1 DEF Consumed, CaptureInv, CaptureTypeOK, RingInv
<1> QED  BY <1>1, <1>2

(* A submission or discard gives the record up: its program writes no more.*)
LEMMA RingCommit ==
  ASSUME CaptureInv, NEW c \in Ctx, Commit(c)
  PROVE  RingInv' /\ LogInv'
<1> DEFINE i == slot[c] - Consumed
           good == job[c].kind = "packet" => PayloadLoads(job[c].packet)
           st == IF good THEN "ready" ELSE "discarded"
           rec == [at |-> slot[c], stamp |-> ring[i].stamp, job |-> job[c]]
<1>1. /\ Writing(c) /\ i \in DOMAIN ring
      /\ ring[i].state = "busy" /\ ring[i].job = job[c]
  BY SlotInRing DEF Commit, Writing, CaptureInv, RingInv
<1>2. /\ ring' = [ring EXCEPT ![i].state = st]
      /\ UNCHANGED <<job, slot, produced>>
      /\ log' = IF good THEN log \cup {rec} ELSE log
      /\ pc' = [pc EXCEPT ![c] = IF good THEN "idle" ELSE "load"]
  BY DEF Commit, Bump
<1>3. /\ ring \in Seq(RingRecord) /\ produced \in Nat /\ slot \in [Ctx -> Nat]
      /\ pc \in [Ctx -> {"idle", "load", "store", "reserve", "stamp", "commit"}]
  BY DEF CaptureInv, CaptureTypeOK
<1>4. slot[c] = Consumed + i
  BY <1>3 DEF Consumed
<1>5. st # "busy" /\ (st = "ready" <=> good)
  OBVIOUS
<1> HIDE DEF i, good, st
<1>6. /\ DOMAIN ring' = DOMAIN ring /\ Len(ring') = Len(ring)
      /\ \A k \in DOMAIN ring \ {i} : ring'[k] = ring[k]
      /\ ring'[i] = [ring[i] EXCEPT !.state = st]
  BY <1>1, <1>2, <1>3
<1>7. ring'[i] = [state |-> st, stamp |-> ring[i].stamp, job |-> job[c]]
  <2>1. ring[i] \in RingRecord
    BY <1>1, <1>3
  <2> QED  BY <1>1, <1>6, <2>1 DEF RingRecord
<1>8. Consumed' = Consumed
  BY <1>2, <1>6 DEF Consumed
<1>9. ~ Writing(c)' /\ \A d \in Ctx \ {c} : Writing(d)' <=> Writing(d)
  BY <1>2, <1>3 DEF Writing
<1>10. RingInv'
  <2>1. Len(ring') <= produced'
    BY <1>2, <1>6 DEF CaptureInv, RingInv
  <2>2. ASSUME NEW d \in Ctx, Writing(d)'
        PROVE  /\ slot'[d] \in (Consumed' + 1)..produced'
               /\ ring'[slot'[d] - Consumed'].state = "busy"
               /\ ring'[slot'[d] - Consumed'].job = job'[d]
    <3>1. d # c /\ Writing(d)
      BY <1>9, <2>2
    <3>2. slot[d] # slot[c] /\ slot[d] - Consumed \in DOMAIN ring
      BY <1>1, <3>1, SlotInRing DEF CaptureInv, RingInv
    <3>3. slot[d] - Consumed # i
      BY <1>3, <1>4, <3>2 DEF Consumed
    <3>4. ring'[slot[d] - Consumed] = ring[slot[d] - Consumed]
      BY <1>6, <3>2, <3>3
    <3> QED  BY <1>2, <1>8, <3>1, <3>4 DEF CaptureInv, RingInv
  <2>3. \A d, e \in Ctx : Writing(d)' /\ Writing(e)' /\ slot'[d] = slot'[e] => d = e
    BY <1>2, <1>9, Zenon DEF CaptureInv, RingInv
  <2>4. ASSUME NEW k \in DOMAIN ring', ring'[k].state = "busy"
        PROVE  \E d \in Ctx : Writing(d)' /\ slot'[d] = Consumed' + k
    <3>1. k # i
      BY <1>5, <1>7, <2>4
    <3>2. PICK d \in Ctx : Writing(d) /\ slot[d] = Consumed + k
      BY <1>6, <2>4, <3>1, Zenon DEF CaptureInv, RingInv
    <3>3. d # c
      BY <1>1, <1>3, <1>4, <1>6, <3>1, <3>2 DEF Consumed
    <3> QED  BY <1>2, <1>8, <1>9, <3>2, <3>3
  <2> QED  BY <2>1, <2>2, <2>3, <2>4, Zenon DEF RingInv
<1>11. LogInv'
  <2>1. slot[c] \in 1..produced /\ slot[c] > Consumed /\ slot[c] - Consumed = i
    BY <1>1, <1>3, <1>4 DEF Consumed, CaptureInv, RingInv
  <2>2. \A r \in log : r.at # slot[c]
    BY <1>1, <2>1, LoggedInRing
  <2>3. \A r \in log' : r \in log \/ (good /\ r = rec)
    BY <1>2
  <2>4. \A r \in log' : r.at \in 1..produced'
    <3>1. \A r \in log : r.at \in 1..produced
      BY LoggedInRing
    <3>2. rec.at = slot[c]
      OBVIOUS
    <3> QED  BY <1>2, <2>1, <2>3, <3>1, <3>2, Zenon
  <2>5. ASSUME NEW r \in log', r.at > Consumed'
        PROVE  ring'[r.at - Consumed'] = [state |-> "ready", stamp |-> r.stamp, job |-> r.job]
    <3>1. CASE r \in log
      <4>1. r.at - Consumed \in DOMAIN ring /\ r.at - Consumed # i
        BY <1>1, <1>8, <2>5, <3>1, LoggedInRing
      <4> QED  BY <1>6, <1>8, <2>5, <3>1, <4>1, LoggedInRing
    <3>2. CASE good /\ r = rec
      BY <1>5, <1>7, <1>8, <2>1, <3>2
    <3> QED  BY <2>3, <3>1, <3>2
  <2>6. ASSUME NEW k \in DOMAIN ring', ring'[k].state = "ready"
        PROVE  [at |-> Consumed' + k, stamp |-> ring'[k].stamp, job |-> ring'[k].job] \in log'
    <3>1. CASE k = i
      BY <1>2, <1>4, <1>5, <1>7, <1>8, <2>6, <3>1
    <3>2. CASE k # i
      <4>1. [at |-> Consumed + k, stamp |-> ring[k].stamp, job |-> ring[k].job] \in log
        BY <1>6, <2>6, <3>2, Zenon DEF CaptureInv, LogInv
      <4> QED  BY <1>2, <1>6, <1>8, <2>6, <3>2, <4>1
    <3> QED  BY <3>1, <3>2
  <2>7. \A q, r \in log' : q.at = r.at => q = r
    <3>1. \A q, r \in log : q.at = r.at => q = r
      BY DEF CaptureInv, LogInv
    <3>2. rec.at = slot[c]
      OBVIOUS
    <3> QED  BY <2>2, <2>3, <3>1, <3>2, Zenon
  <2> QED  BY <2>4, <2>5, <2>6, <2>7, Zenon DEF LogInv
<1> QED  BY <1>10, <1>11

(* The consumer passes a record that is not busy: no program loses its own.*)
LEMMA RingRelease ==
  ASSUME CaptureInv, Released
  PROVE  /\ RingInv' /\ LogInv'
         /\ Consumed' = Consumed + 1
<1>1. /\ ring # << >> /\ Head(ring).state # "busy"
      /\ ring' = Tail(ring)
      /\ UNCHANGED <<pc, job, slot, produced, log>>
  BY DEF Released, Consume, progVars
<1>2. /\ ring \in Seq(RingRecord) /\ produced \in Nat /\ slot \in [Ctx -> Nat]
      /\ Len(ring) <= produced
  BY DEF CaptureInv, CaptureTypeOK, RingInv
<1>3. /\ Len(ring) > 0 /\ Len(ring') = Len(ring) - 1
      /\ DOMAIN ring' = 1..(Len(ring) - 1) /\ DOMAIN ring = 1..Len(ring)
      /\ \A k \in 1..(Len(ring) - 1) : ring'[k] = ring[k + 1]
      /\ Head(ring) = ring[1]
  BY <1>1, <1>2
<1>4. Consumed' = Consumed + 1 /\ Consumed \in Nat /\ produced = Consumed + Len(ring)
  BY <1>1, <1>2, <1>3 DEF Consumed
<1>5. ASSUME NEW n \in Nat, n > Consumed + 1, n <= produced
      PROVE  ring'[n - Consumed'] = ring[n - Consumed]
  BY <1>2, <1>3, <1>4, <1>5
<1>6. \A d \in Ctx : Writing(d)' <=> Writing(d)
  BY <1>1 DEF Writing
<1>7. RingInv'
  <2>1. Len(ring') <= produced'
    BY <1>1, <1>2, <1>3
  <2>2. ASSUME NEW d \in Ctx, Writing(d)'
        PROVE  /\ slot'[d] \in (Consumed' + 1)..produced'
               /\ ring'[slot'[d] - Consumed'].state = "busy"
               /\ ring'[slot'[d] - Consumed'].job = job'[d]
    <3>1. /\ slot[d] \in (Consumed + 1)..produced
          /\ ring[slot[d] - Consumed].state = "busy"
          /\ ring[slot[d] - Consumed].job = job[d]
      BY <1>6, <2>2, Zenon DEF CaptureInv, RingInv
    <3>2. slot[d] # Consumed + 1
      BY <1>1, <1>3, <1>4, <3>1
    <3> QED  BY <1>1, <1>2, <1>4, <1>5, <3>1, <3>2
  <2>3. \A d, e \in Ctx : Writing(d)' /\ Writing(e)' /\ slot'[d] = slot'[e] => d = e
    BY <1>1, <1>6, Zenon DEF CaptureInv, RingInv
  <2>4. ASSUME NEW k \in DOMAIN ring', ring'[k].state = "busy"
        PROVE  \E d \in Ctx : Writing(d)' /\ slot'[d] = Consumed' + k
    <3>1. k + 1 \in DOMAIN ring /\ ring[k + 1].state = "busy"
      BY <1>2, <1>3, <2>4
    <3>2. PICK d \in Ctx : Writing(d) /\ slot[d] = Consumed + (k + 1)
      BY <3>1, Zenon DEF CaptureInv, RingInv
    <3> QED  BY <1>1, <1>3, <1>4, <1>6, <3>2
  <2> QED  BY <2>1, <2>2, <2>3, <2>4, Zenon DEF RingInv
<1>8. LogInv'
  <2>1. \A r \in log' : r.at \in 1..produced'
    BY <1>1, LoggedInRing
  <2>2. ASSUME NEW r \in log', r.at > Consumed'
        PROVE  ring'[r.at - Consumed'] = [state |-> "ready", stamp |-> r.stamp, job |-> r.job]
    <3>1. r \in log /\ r.at \in 1..produced /\ r.at > Consumed
      <4>1. r \in log /\ r.at \in 1..produced
        BY <1>1, <2>2, LoggedInRing
      <4> QED  BY <1>2, <1>4, <2>2, <4>1
    <3>2. ring'[r.at - Consumed'] = ring[r.at - Consumed]
      BY <1>4, <1>5, <2>2, <3>1
    <3> QED  BY <3>1, <3>2, LoggedInRing
  <2>3. ASSUME NEW k \in DOMAIN ring', ring'[k].state = "ready"
        PROVE  [at |-> Consumed' + k, stamp |-> ring'[k].stamp, job |-> ring'[k].job] \in log'
    <3>1. k + 1 \in DOMAIN ring /\ ring'[k] = ring[k + 1]
      BY <1>2, <1>3, <2>3
    <3>2. [at |-> Consumed + (k + 1), stamp |-> ring[k + 1].stamp,
           job |-> ring[k + 1].job] \in log
      BY <2>3, <3>1, Zenon DEF CaptureInv, LogInv
    <3>3. Consumed + (k + 1) = Consumed' + k
      BY <1>3, <1>4, <3>1
    <3> QED  BY <1>1, <3>1, <3>2, <3>3
  <2> QED  BY <1>1, <2>1, <2>2, <2>3, Zenon DEF CaptureInv, LogInv
<1> QED  BY <1>4, <1>7, <1>8

(* Hence ring, programs and history agree for ever.                        *)
LEMMA CaptureInvInit == CaptureInit => CaptureInv
<1> SUFFICES ASSUME CaptureInit PROVE CaptureInv
  OBVIOUS
<1> USE CaptureAssumption
<1>1. (CHOOSE j \in Job : TRUE) \in Job
  OBVIOUS
<1>2. CaptureTypeOK
  BY <1>1 DEF CaptureInit, CaptureTypeOK, Counter
<1>3. RingInv /\ LogInv
  BY DEF CaptureInit, RingInv, LogInv, Writing, Consumed
<1> QED  BY <1>2, <1>3 DEF CaptureInv

(* Every step of a kernel program keeps the invariant of ring and          *)
(* counters.                                                               *)
LEMMA CaptureInvStep == CaptureInv /\ CaptureStep => CaptureInv'
<1> SUFFICES ASSUME CaptureInv, CaptureStep PROVE CaptureInv'
  OBVIOUS
<1>1. CaptureTypeOK'
  BY CaptureTypeStep DEF CaptureInv
<1>2. pc \in [Ctx -> {"idle", "load", "store", "reserve", "stamp", "commit"}]
  BY DEF CaptureInv, CaptureTypeOK
<1>3. job \in [Ctx -> Job]
  BY DEF CaptureInv, CaptureTypeOK
<1>4. ASSUME NEW c \in Ctx, NEW j \in Job, Start(c, j)
      PROVE  RingInv' /\ LogInv'
  <2>1. \A d \in Ctx : Writing(d)' <=> Writing(d)
    BY <1>2, <1>4 DEF Start, Bump, Writing
  <2>2. \A d \in Ctx : Writing(d) => job'[d] = job[d]
    BY <1>2, <1>3, <1>4 DEF Start, Writing
  <2> QED  BY <1>4, <2>1, <2>2, RingUntouched DEF Start, CaptureInv
<1>5. ASSUME NEW c \in Ctx, Load(c) \/ Store(c) \/ (Reserve(c) /\ ~ (Len(ring) < RingSize))
      PROVE  RingInv' /\ LogInv'
  <2>1. \A d \in Ctx : Writing(d)' <=> Writing(d)
    BY <1>2, <1>5 DEF Load, Store, Reserve, Bump, Writing
  <2>2. UNCHANGED <<ring, produced, log, slot, job>>
    BY <1>5 DEF Load, Store, Reserve
  <2> QED  BY <2>1, <2>2, RingUntouched DEF CaptureInv
<1>6. ASSUME Tick \/ Detached \/ UNCHANGED captureVars
      PROVE  RingInv' /\ LogInv'
  <2>1. UNCHANGED <<ring, produced, log, slot, job, pc>>
    BY <1>6 DEF Tick, Detached, captureVars, progVars
  <2> QED  BY <2>1, RingUntouched DEF CaptureInv, Writing
<1>7. ASSUME Released PROVE RingInv' /\ LogInv'
  BY <1>7, RingRelease
<1>8. ASSUME NEW c \in Ctx, Run(c)
      PROVE  RingInv' /\ LogInv'
  BY <1>5, <1>8, RingReserve, RingStamp, RingCommit DEF Run
<1>9. RingInv' /\ LogInv'
  BY <1>4, <1>6, <1>7, <1>8 DEF CaptureStep
<1> QED  BY <1>1, <1>9 DEF CaptureInv

(* Every busy record of the ring belongs to exactly one program that will  *)
(* still commit it, and no program holds a record the reader has consumed, *)
(* however programs and reader interleave (netmon.bpf.c:33-59, 189-207).   *)
THEOREM NetmonBusyIsOwned == NetmonSpec => []BusyIsOwned
<1>1. NetmonInit => CaptureInv
  BY CaptureInvInit DEF NetmonInit
<1>2. CaptureInv /\ [NetmonNext]_netmonVars => CaptureInv'
  BY CaptureInvStep, StepOfCapture
<1>3. CaptureInv => BusyIsOwned
  <2> SUFFICES ASSUME CaptureInv PROVE BusyIsOwned
    OBVIOUS
  <2> DEFINE writing == {c \in Ctx : pc[c] \in {"stamp", "commit"}}
  <2>1. ASSUME NEW i \in DOMAIN ring, ring[i].state = "busy"
        PROVE  Cardinality({c \in writing : slot[c] = Consumed + i}) = 1
    <3>1. PICK c \in Ctx : Writing(c) /\ slot[c] = Consumed + i
      BY <2>1, Zenon DEF CaptureInv, RingInv
    <3>2. {d \in writing : slot[d] = Consumed + i} = {c}
      BY <3>1 DEF CaptureInv, RingInv, Writing
    <3> QED  BY <3>2, FS_Singleton
  <2>2. \A c \in writing : /\ slot[c] \in (Consumed + 1)..produced
                           /\ ring[slot[c] - Consumed].state = "busy"
                           /\ ring[slot[c] - Consumed].job = job[c]
    BY DEF CaptureInv, RingInv, Writing
  <2> QED  BY <2>1, <2>2 DEF BusyIsOwned
<1> QED  BY <1>1, <1>2, <1>3, PTL DEF NetmonSpec

-----------------------------------------------------------------------------
(* The counters.                                                           *)

(* The sum that printCounters makes is the sum over the CPUs.              *)
LEMMA TotalIsSum ==
  ASSUME CaptureTypeOK, NEW x \in Counter
  PROVE  Total(x) = SumOf([u \in Cpu |-> counters[u][x]], Cpu)
<1> DEFINE f == [u \in Cpu |-> counters[u][x]]
           F(it) == [s \in SUBSET Cpu |->
                       IF s = {} THEN 0
                       ELSE it[s \ {CHOOSE u \in s : TRUE}]
                              + counters[CHOOSE u \in s : TRUE][x]]
           iter == CHOOSE it : it = F(it)
<1>1. Total(x) = iter[Cpu]
  BY Zenon DEF Total, FoldSet, MapThenFoldSet
<1>2. f \in [Cpu -> Nat] /\ \A u \in Cpu : f[u] = counters[u][x]
  BY DEF CaptureTypeOK
<1>3. \A s \in SUBSET Cpu : s # {} => (CHOOSE u \in s : TRUE) \in s
  OBVIOUS
<1> HIDE DEF f
<1>4. ASSUME NEW g, AddsUp(g, f, Cpu)
      PROVE  g = F(g)
  <2>1. /\ g \in [SUBSET Cpu -> Nat] /\ g[{}] = 0
        /\ \A s \in SUBSET Cpu : s # {} =>
             g[s] = g[s \ {CHOOSE u \in s : TRUE}] + f[CHOOSE u \in s : TRUE]
    BY <1>4 DEF AddsUp
  <2>2. ASSUME NEW s \in SUBSET Cpu PROVE g[s] = F(g)[s]
    <3>1. CASE s = {}
      BY <2>1, <3>1
    <3>2. CASE s # {}
      <4> DEFINE v == CHOOSE u \in s : TRUE
      <4>1. v \in Cpu /\ g[s] = g[s \ {v}] + f[v]
        BY <1>3, <2>1, <3>2
      <4>2. F(g)[s] = g[s \ {v}] + counters[v][x]
        BY <3>2
      <4> HIDE DEF v, F
      <4> QED  BY <1>2, <4>1, <4>2
    <3> QED  BY <3>1, <3>2
  <2>3. g = [s \in SUBSET Cpu |-> g[s]]
    BY <2>1
  <2>4. F(g) = [s \in SUBSET Cpu |-> F(g)[s]]
    OBVIOUS
  <2> HIDE DEF F
  <2> QED  BY <2>2, <2>3, <2>4
<1>5. PICK g : Sums(g, f, Cpu)
  BY <1>2, CaptureAssumption, SumExists
<1>6. g = F(g)
  BY <1>2, <1>4, <1>5, SumsRecursion
<1>7. iter = F(iter)
  <2> HIDE DEF F
  <2> QED  BY <1>6
<1>8. \A s \in SUBSET Cpu : iter[s] = F(iter)[s] /\ g[s] = F(g)[s]
  <2> HIDE DEF F, iter
  <2> QED  BY <1>6, <1>7
<1> HIDE DEF iter
<1> DEFINE Bad == {s \in SUBSET Cpu : iter[s] # g[s]}
<1>9. Bad = {}
  <2> SUFFICES ASSUME Bad # {} PROVE FALSE
    OBVIOUS
  <2>1. PICK s \in Bad : \A t \in Bad : t \subseteq s => t = s
    <3>1. Bad \in SUBSET SUBSET Cpu
      OBVIOUS
    <3> HIDE DEF Bad
    <3> QED  BY <3>1, CaptureAssumption, MinimalSubset
  <2>2. s \in SUBSET Cpu /\ iter[s] # g[s]
    OBVIOUS
  <2>3. s # {}
    BY <1>8, <2>2
  <2> DEFINE v == CHOOSE u \in s : TRUE
  <2>4. v \in s
    BY <2>3
  <2>5. iter[s \ {v}] = g[s \ {v}]
    <3> HIDE DEF v
    <3> QED  BY <2>1, <2>2, <2>4
  <2>6. /\ F(iter)[s] = iter[s \ {v}] + counters[v][x]
        /\ F(g)[s] = g[s \ {v}] + counters[v][x]
    BY <2>2, <2>3
  <2> HIDE DEF v, F
  <2> QED  BY <1>8, <2>2, <2>5, <2>6
<1>10. iter[Cpu] = g[Cpu]
  BY <1>9, Cpu \in SUBSET Cpu
<1>11. g[Cpu] = SumOf(f, Cpu)
  BY <1>2, <1>5, CaptureAssumption, SumExists
<1> QED  BY <1>1, <1>10, <1>11 DEF f

(* The column of a counter in a table by CPU.                              *)
Column(t, x) == [u \in Cpu |-> t[u][x]]

(* done says how often each CPU has finished bumping each counter.  What   *)
(* it holds has never more than that, and something once there was any: an *)
(* overtaken store takes back updates, but never to zero.  Without a race, *)
(* it holds exactly that.                                                  *)
Tally(done) ==
  /\ done \in [Cpu -> [Counter -> Nat]]
  /\ \A x \in Counter :
       calls[x] = SumOf(Column(done, x), Cpu) + Cardinality(Counting(x))
  /\ \A u \in Cpu, x \in Counter :
       counters[u][x] <= done[u][x] /\ (done[u][x] > 0 => counters[u][x] > 0)
  /\ \A c \in Ctx : pc[c] = "store" => reg[c] <= done[CpuOf[c]][cnt[c]]
  /\ \A x \in Counter \ raced :
       /\ \A u \in Cpu : counters[u][x] = done[u][x]
       /\ \A c, d \in Counting(x) : CpuOf[c] = CpuOf[d] => c = d
       /\ \A c \in Counting(x) : pc[c] = "store" => reg[c] = done[CpuOf[c]][x]

CountInv ==
  /\ \A x \in Counter : IsFiniteSet(Counting(x))
  /\ \E done : Tally(done)

(* Nobody enters or leaves count().                                        *)
LEMMA CountUntouched ==
  ASSUME CaptureTypeOK, CountInv, UNCHANGED <<counters, calls, raced, cnt, reg>>,
         \A c \in Ctx : pc'[c] = pc[c] \/ (pc[c] \notin {"load", "store"}
                                           /\ pc'[c] \notin {"load", "store"})
  PROVE  CountInv'
<1>1. PICK done : Tally(done)
  BY DEF CountInv
<1>2. \A x \in Counter : Counting(x)' = Counting(x)
  BY DEF Counting
<1>3. \A c \in Ctx : pc'[c] = "store" <=> pc[c] = "store"
  OBVIOUS
<1>4. Tally(done)'
  <2>1. \A x \in Counter :
          calls'[x] = SumOf(Column(done, x), Cpu) + Cardinality(Counting(x)')
    BY <1>1, <1>2 DEF Tally
  <2>2. \A x \in Counter \ raced' :
          /\ \A c, d \in Counting(x)' : CpuOf[c] = CpuOf[d] => c = d
          /\ \A c \in Counting(x)' : pc'[c] = "store" => reg'[c] = done[CpuOf[c]][x]
    <3>1. \A x \in Counter : \A c \in Counting(x) : c \in Ctx
      BY DEF Counting
    <3> QED  BY <1>1, <1>2, <1>3, <3>1 DEF Tally
  <2> QED  BY <1>1, <1>3, <2>1, <2>2 DEF Tally
<1> QED  BY <1>2, <1>4 DEF CountInv

(* A call of count() is one more outstanding.                              *)
LEMMA CountBump ==
  ASSUME CaptureTypeOK, CountInv, NEW c \in Ctx, NEW x \in Counter, Bump(c, x),
         pc[c] \notin {"load", "store"}, UNCHANGED <<counters, reg>>
  PROVE  CountInv'
<1>1. PICK done : Tally(done)
  BY DEF CountInv
<1>2. /\ pc' = [pc EXCEPT ![c] = "load"]
      /\ cnt' = [cnt EXCEPT ![c] = x]
      /\ calls' = [calls EXCEPT ![x] = @ + 1]
      /\ pc \in [Ctx -> {"idle", "load", "store", "reserve", "stamp", "commit"}]
      /\ cnt \in [Ctx -> Counter]
      /\ calls \in [Counter -> Nat]
  BY DEF Bump, CaptureTypeOK
<1>3. /\ c \notin Counting(x)
      /\ Counting(x)' = Counting(x) \cup {c}
      /\ \A y \in Counter \ {x} : Counting(y)' = Counting(y)
  BY <1>2 DEF Counting
<1>4. /\ \A y \in Counter : IsFiniteSet(Counting(y)')
      /\ Cardinality(Counting(x)') = Cardinality(Counting(x)) + 1
  BY <1>3, FS_AddElement DEF CountInv
<1>5. \A y \in Counter : calls'[y] = SumOf(Column(done, y), Cpu) + Cardinality(Counting(y)')
  <2>1. \A y \in Counter : calls[y] = SumOf(Column(done, y), Cpu) + Cardinality(Counting(y))
    BY <1>1 DEF Tally
  <2>2. ASSUME NEW y \in Counter
        PROVE  SumOf(Column(done, y), Cpu) \in Nat /\ Cardinality(Counting(y)) \in Nat
    <3>1. Column(done, y) \in [Cpu -> Nat]
      BY <1>1 DEF Column, Tally
    <3> QED  BY <3>1, SumPositive, CaptureAssumption, FS_CardinalityType DEF CountInv
  <2>3. ASSUME NEW y \in Counter
        PROVE  calls'[y] = SumOf(Column(done, y), Cpu) + Cardinality(Counting(y)')
    <3>1. CASE y = x
      BY <1>2, <1>4, <2>1, <2>2, <3>1
    <3>2. CASE y # x
      BY <1>2, <1>3, <2>1, <3>2
    <3> QED  BY <3>1, <3>2
  <2> QED  BY <2>3
<1>6. \A d \in Ctx : pc'[d] = "store" =>
        d # c /\ pc[d] = "store" /\ cnt'[d] = cnt[d] /\ reg'[d] = reg[d]
  BY <1>2
<1>7. ASSUME NEW y \in Counter \ raced'
      PROVE  \A d, e \in Counting(y)' : CpuOf[d] = CpuOf[e] => d = e
  <2>1. y \notin raced
    BY <1>7 DEF Bump
  <2>2. \A d, e \in Counting(y) : CpuOf[d] = CpuOf[e] => d = e
    BY <1>1, <1>7, <2>1 DEF Tally
  <2>3. CASE y # x
    BY <1>3, <1>7, <2>2, <2>3
  <2>4. CASE y = x
    <3>1. \A d \in Counting(x) : CpuOf[d] # CpuOf[c]
      BY <1>3, <1>7, <2>4 DEF Bump, Counting
    <3> QED  BY <1>3, <2>2, <2>4, <3>1
  <2> QED  BY <2>3, <2>4
<1>8. raced \subseteq raced'
  BY DEF Bump
<1>9. \A y \in Counter \ raced' : \A d \in Counting(y)' : pc'[d] = "store" =>
        d \in Counting(y) /\ pc[d] = "store"
  <2>1. \A y \in Counter : \A d \in Counting(y)' : d = c \/ d \in Counting(y)
    BY <1>3
  <2>2. \A y \in Counter : Counting(y)' \subseteq Ctx
    BY DEF Counting
  <2> QED  BY <1>6, <2>1, <2>2
<1>10. Tally(done)'
  <2>1. \A d \in Ctx : pc'[d] = "store" => reg'[d] <= done[CpuOf[d]][cnt'[d]]
    BY <1>1, <1>6, Zenon DEF Tally
  <2>2. \A y \in Counter \ raced' : \A d \in Counting(y)' : pc'[d] = "store" =>
          reg'[d] = done[CpuOf[d]][y]
    BY <1>1, <1>8, <1>9 DEF Tally
  <2> QED  BY <1>1, <1>5, <1>7, <1>8, <2>1, <2>2 DEF Tally
<1> QED  BY <1>4, <1>10 DEF CountInv

(* The load takes what is there.                                           *)
LEMMA CountLoad ==
  ASSUME CaptureTypeOK, CountInv, NEW c \in Ctx, Load(c)
  PROVE  CountInv'
<1>1. PICK done : Tally(done)
  BY DEF CountInv
<1>2. /\ pc[c] = "load"
      /\ reg' = [reg EXCEPT ![c] = counters[CpuOf[c]][cnt[c]]]
      /\ pc' = [pc EXCEPT ![c] = "store"]
      /\ UNCHANGED <<counters, calls, raced, cnt>>
      /\ pc \in [Ctx -> {"idle", "load", "store", "reserve", "stamp", "commit"}]
      /\ reg \in [Ctx -> Nat]
      /\ CpuOf[c] \in Cpu /\ cnt[c] \in Counter
  BY CaptureAssumption DEF Load, Mine, CaptureTypeOK
<1>3. \A x \in Counter : Counting(x)' = Counting(x)
  BY <1>2 DEF Counting
<1>4. ASSUME NEW d \in Ctx, pc'[d] = "store"
      PROVE  reg'[d] <= done[CpuOf[d]][cnt'[d]]
  <2>1. CASE d = c
    <3>1. counters[CpuOf[c]][cnt[c]] <= done[CpuOf[c]][cnt[c]]
      BY <1>1, <1>2 DEF Tally
    <3> QED  BY <1>2, <2>1, <3>1
  <2>2. CASE d # c
    BY <1>1, <1>2, <1>4, <2>2 DEF Tally
  <2> QED  BY <2>1, <2>2
<1>5. ASSUME NEW x \in Counter \ raced', NEW d \in Counting(x)', pc'[d] = "store"
      PROVE  reg'[d] = done[CpuOf[d]][x]
  <2>0. x \notin raced /\ d \in Counting(x) /\ d \in Ctx /\ cnt[d] = x
    BY <1>2, <1>3, <1>5 DEF Counting
  <2>1. CASE d = c
    <3>1. counters[CpuOf[c]][x] = done[CpuOf[c]][x]
      BY <1>1, <1>2, <2>0 DEF Tally
    <3> QED  BY <1>2, <2>0, <2>1, <3>1
  <2>2. CASE d # c
    BY <1>1, <1>2, <1>5, <2>0, <2>2 DEF Tally
  <2> QED  BY <2>1, <2>2
<1>6. Tally(done)'
  <2>1. \A x \in Counter :
          calls'[x] = SumOf(Column(done, x), Cpu) + Cardinality(Counting(x)')
    BY <1>1, <1>2, <1>3 DEF Tally
  <2>2. \A x \in Counter \ raced' :
          \A d, e \in Counting(x)' : CpuOf[d] = CpuOf[e] => d = e
    BY <1>1, <1>2, <1>3 DEF Tally
  <2> QED  BY <1>1, <1>2, <1>4, <1>5, <2>1, <2>2 DEF Tally
<1> QED  BY <1>3, <1>6 DEF CountInv

(* The store finishes a call; what it writes was loaded when at most as    *)
(* many were finished.                                                     *)
LEMMA CountStore ==
  ASSUME CaptureTypeOK, CountInv, NEW c \in Ctx, Store(c)
  PROVE  CountInv'
<1>1. PICK done : Tally(done)
  BY DEF CountInv
<1>x. PICK x \in Counter : x = cnt[c]
  BY DEF CaptureTypeOK
<1>u. PICK u \in Cpu : u = CpuOf[c]
  BY CaptureAssumption
<1>2. /\ pc[c] = "store"
      /\ counters' = [counters EXCEPT ![u][x] = reg[c] + 1]
      /\ pc' = [pc EXCEPT ![c] = IF x = "DNS_TRUNCATED" THEN "reserve" ELSE "idle"]
      /\ UNCHANGED <<calls, raced, cnt, reg>>
      /\ pc \in [Ctx -> {"idle", "load", "store", "reserve", "stamp", "commit"}]
      /\ reg \in [Ctx -> Nat] /\ cnt \in [Ctx -> Counter]
      /\ counters \in [Cpu -> [Counter -> Nat]]
  BY <1>x, <1>u DEF Store, Mine, CaptureTypeOK
<1> DEFINE more == [done EXCEPT ![u] = [done[u] EXCEPT ![x] = done[u][x] + 1]]
<1>3. done \in [Cpu -> [Counter -> Nat]]
  BY <1>1 DEF Tally
<1>4. /\ more \in [Cpu -> [Counter -> Nat]]
      /\ more[u][x] = done[u][x] + 1
      /\ \A v \in Cpu, y \in Counter : v # u \/ y # x => more[v][y] = done[v][y]
      /\ \A v \in Cpu, y \in Counter : done[v][y] <= more[v][y] /\ done[v][y] \in Nat
                                       /\ more[v][y] \in Nat
  <2>1. /\ done[u] \in [Counter -> Nat] /\ done[u][x] \in Nat
        /\ more[u] = [done[u] EXCEPT ![x] = done[u][x] + 1]
        /\ \A v \in Cpu : v # u => more[v] = done[v] /\ done[v] \in [Counter -> Nat]
        /\ DOMAIN more = Cpu
    BY <1>3
  <2>2. more \in [Cpu -> [Counter -> Nat]]
    BY <1>3
  <2> HIDE DEF more
  <2> QED  BY <2>1, <2>2
<1>5. /\ counters'[u][x] = reg[c] + 1
      /\ \A v \in Cpu, y \in Counter : v # u \/ y # x => counters'[v][y] = counters[v][y]
  BY <1>2
<1>6. c \in Counting(x) /\ Counting(x)' = Counting(x) \ {c}
  BY <1>2, <1>x DEF Counting
<1>7. \A y \in Counter \ {x} : Counting(y)' = Counting(y)
  BY <1>2, <1>x DEF Counting
<1> HIDE DEF more
<1>8. /\ \A y \in Counter : IsFiniteSet(Counting(y)')
      /\ Cardinality(Counting(x)') = Cardinality(Counting(x)) - 1
      /\ Cardinality(Counting(x)) \in Nat
  <2>1. \A y \in Counter : IsFiniteSet(Counting(y))
    BY DEF CountInv
  <2>2. /\ IsFiniteSet(Counting(x) \ {c})
        /\ Cardinality(Counting(x) \ {c}) = Cardinality(Counting(x)) - 1
        /\ Cardinality(Counting(x)) \in Nat
    BY <1>6, <2>1, FS_RemoveElement, FS_CardinalityType
  <2> QED  BY <1>6, <1>7, <2>1, <2>2
<1>9. ASSUME NEW y \in Counter
      PROVE  calls'[y] = SumOf(Column(more, y), Cpu) + Cardinality(Counting(y)')
  <2>1. calls[y] = SumOf(Column(done, y), Cpu) + Cardinality(Counting(y))
    BY <1>1 DEF Tally
  <2>2. /\ Column(done, y) \in [Cpu -> Nat]
        /\ Column(more, y) \in [Cpu -> Nat]
    BY <1>4, <1>3 DEF Column
  <2>3. CASE y = x
    <3>1. Column(more, y) = [Column(done, y) EXCEPT ![u] = done[u][x] + 1]
      BY <1>2, <1>3, <1>4, <2>3 DEF Column
    <3>2. Column(done, y)[u] = done[u][x] /\ done[u][x] \in Nat
      BY <1>2, <1>4, <2>3 DEF Column
    <3>3. SumOf(Column(more, y), Cpu) + done[u][x]
            = SumOf(Column(done, y), Cpu) + (done[u][x] + 1)
      <4> DEFINE f == Column(done, y)
      <4>1. f \in [Cpu -> Nat] /\ f[u] = done[u][x] /\ done[u][x] + 1 \in Nat
        BY <2>2, <3>2
      <4> HIDE DEF f
      <4>2. SumOf([f EXCEPT ![u] = done[u][x] + 1], Cpu) + f[u]
              = SumOf(f, Cpu) + (done[u][x] + 1)
        BY <4>1, SumUpdate, CaptureAssumption
      <4> QED  BY <3>1, <4>1, <4>2 DEF f
    <3>4. SumOf(Column(more, y), Cpu) \in Nat /\ SumOf(Column(done, y), Cpu) \in Nat
      BY <2>2, SumPositive, CaptureAssumption
    <3>5. /\ Cardinality(Counting(y)') = Cardinality(Counting(y)) - 1
          /\ Cardinality(Counting(y)) \in Nat
      BY <1>8, <2>3
    <3>6. calls'[y] = calls[y]
      BY <1>2
    <3> QED  BY <2>1, <3>2, <3>3, <3>4, <3>5, <3>6
  <2>4. CASE y # x
    <3>1. Column(more, y) = Column(done, y)
      BY <1>4, <2>4 DEF Column
    <3> QED  BY <1>2, <1>7, <2>1, <2>4, <3>1
  <2> QED  BY <2>3, <2>4
<1>10. ASSUME NEW v \in Cpu, NEW y \in Counter
       PROVE  counters'[v][y] <= more[v][y] /\ (more[v][y] > 0 => counters'[v][y] > 0)
  <2>1. CASE v = u /\ y = x
    <3>1. reg[c] <= done[u][x] /\ reg[c] \in Nat
      BY <1>1, <1>2, <1>x, <1>u DEF Tally
    <3> QED  BY <1>4, <1>5, <2>1, <3>1
  <2>2. CASE v # u \/ y # x
    BY <1>1, <1>4, <1>5, <2>2 DEF Tally
  <2> QED  BY <2>1, <2>2
<1>11. ASSUME NEW d \in Ctx, pc'[d] = "store"
       PROVE  reg'[d] <= more[CpuOf[d]][cnt'[d]]
  <2>1. pc[d] = "store" /\ CpuOf[d] \in Cpu /\ cnt[d] \in Counter
    BY <1>2, <1>11, CaptureAssumption
  <2>2. reg[d] <= done[CpuOf[d]][cnt[d]] /\ reg[d] \in Nat
    BY <1>1, <1>2, <2>1 DEF Tally
  <2> QED  BY <1>2, <1>4, <2>1, <2>2
<1>12. ASSUME NEW y \in Counter \ raced'
       PROVE  /\ \A v \in Cpu : counters'[v][y] = more[v][y]
              /\ \A d, e \in Counting(y)' : CpuOf[d] = CpuOf[e] => d = e
              /\ \A d \in Counting(y)' : pc'[d] = "store" => reg'[d] = more[CpuOf[d]][y]
  <2>1. /\ \A v \in Cpu : counters[v][y] = done[v][y]
        /\ \A d, e \in Counting(y) : CpuOf[d] = CpuOf[e] => d = e
        /\ \A d \in Counting(y) : pc[d] = "store" => reg[d] = done[CpuOf[d]][y]
    BY <1>1, <1>2 DEF Tally
  <2>2. \A d \in Counting(y)' : d \in Counting(y) /\ d \in Ctx /\ (d # c)
    BY <1>2, <1>6, <1>7, <1>x DEF Counting
  <2>3. \A d \in Counting(y)' : y = x => CpuOf[d] # u
    BY <1>6, <1>u, <2>1, <2>2
  <2>4. y = x => reg[c] = done[u][x]
    BY <1>2, <1>6, <1>u, <2>1
  <2>5. \A v \in Cpu : counters'[v][y] = more[v][y]
    BY <1>4, <1>5, <2>1, <2>4
  <2>6. \A d \in Counting(y)' : pc'[d] = "store" => reg'[d] = more[CpuOf[d]][y]
    <3> SUFFICES ASSUME NEW d \in Counting(y)', pc'[d] = "store"
                 PROVE  reg'[d] = more[CpuOf[d]][y]
      OBVIOUS
    <3>1. pc[d] = "store" /\ CpuOf[d] \in Cpu
      BY <1>2, <2>2, CaptureAssumption
    <3>2. reg[d] = done[CpuOf[d]][y]
      BY <2>1, <2>2, <3>1
    <3> QED  BY <1>2, <1>4, <2>3, <3>1, <3>2
  <2> QED  BY <2>1, <2>2, <2>5, <2>6
<1>13. Tally(more)'
  <2>1. /\ \A y \in Counter : calls'[y] = SumOf(Column(more, y), Cpu) + Cardinality(Counting(y)')
        /\ \A d \in Ctx : pc'[d] = "store" => reg'[d] <= more[CpuOf[d]][cnt'[d]]
    BY <1>9, <1>11
  <2> QED  BY <1>4, <1>10, <1>12, <2>1 DEF Tally
<1> QED  BY <1>8, <1>13 DEF CountInv

(* The tally is kept by every step.                                        *)
LEMMA CountInvStep == CaptureTypeOK /\ CountInv /\ CaptureStep => CountInv'
<1> SUFFICES ASSUME CaptureTypeOK, CountInv, CaptureStep PROVE CountInv'
  OBVIOUS
<1>0. pc \in [Ctx -> {"idle", "load", "store", "reserve", "stamp", "commit"}]
  BY DEF CaptureTypeOK
<1>1. ASSUME NEW c \in Ctx, NEW j \in Job, Start(c, j)
      PROVE  CountInv'
  <2>1. pc[c] = "idle" /\ UNCHANGED <<counters, reg>>
    BY <1>1 DEF Start
  <2>2. CASE Outcome(j) = "ignored"
    BY <1>1, <2>2, CountUntouched DEF Start
  <2>3. CASE Outcome(j) \notin {"ignored", "capture"}
    BY <1>1, <2>1, <2>3, CountBump, OutcomeType DEF Start
  <2>4. CASE Outcome(j) = "capture" /\ CutShort(j)
    BY <1>1, <2>1, <2>4, CountBump DEF Start, Counter
  <2>5. CASE Outcome(j) = "capture" /\ ~ CutShort(j)
    <3>1. pc' = [pc EXCEPT ![c] = "reserve"] /\ UNCHANGED <<counters, calls, raced, cnt, reg>>
      BY <1>1, <2>5 DEF Start
    <3> QED  BY <1>0, <2>1, <3>1, CountUntouched
  <2> QED  BY <2>2, <2>3, <2>4, <2>5
<1>2. ASSUME NEW c \in Ctx, Reserve(c)
      PROVE  CountInv'
  <2>1. CASE Len(ring) < RingSize
    <3>1. /\ pc' = [pc EXCEPT ![c] = "stamp"] /\ pc[c] = "reserve"
          /\ UNCHANGED <<counters, calls, raced, cnt, reg>>
      BY <1>2, <2>1 DEF Reserve
    <3> QED  BY <1>0, <3>1, CountUntouched
  <2>2. CASE ~ (Len(ring) < RingSize)
    BY <1>2, <2>2, CountBump DEF Reserve, Counter
  <2> QED  BY <2>1, <2>2
<1>3. ASSUME NEW c \in Ctx, Stamp(c)
      PROVE  CountInv'
  BY <1>0, <1>3, CountUntouched DEF Stamp
<1>4. ASSUME NEW c \in Ctx, Commit(c)
      PROVE  CountInv'
  <2> DEFINE good == job[c].kind = "packet" => PayloadLoads(job[c].packet)
  <2>1. CASE good
    <3>1. /\ pc' = [pc EXCEPT ![c] = "idle"] /\ pc[c] = "commit"
          /\ UNCHANGED <<counters, calls, raced, cnt, reg>>
      BY <1>4, <2>1 DEF Commit
    <3> QED  BY <1>0, <3>1, CountUntouched
  <2>2. CASE ~ good
    BY <1>4, <2>2, CountBump DEF Commit, Counter
  <2> QED  BY <2>1, <2>2
<1>5. CASE Tick \/ Released \/ Detached \/ UNCHANGED captureVars
  <2>1. UNCHANGED <<counters, calls, raced, cnt, reg, pc>>
    BY <1>5 DEF Tick, Released, Consume, Detached, captureVars, progVars
  <2> QED  BY <2>1, CountUntouched
<1> QED  BY <1>1, <1>2, <1>3, <1>4, <1>5, CountLoad, CountStore DEF CaptureStep, Run

(* Nothing has been counted at first.                                      *)
LEMMA CountInvInit == CaptureInit => CountInv
<1> SUFFICES ASSUME CaptureInit PROVE CountInv
  OBVIOUS
<1> DEFINE none == [u \in Cpu |-> [x \in Counter |-> 0]]
<1>1. \A x \in Counter : Counting(x) = {}
  BY DEF CaptureInit, Counting
<1>2. IsFiniteSet({}) /\ Cardinality({}) = 0
  BY FS_EmptySet
<1>3. ASSUME NEW x \in Counter PROVE SumOf(Column(none, x), Cpu) = 0
  <2>1. Column(none, x) \in [Cpu -> Nat] /\ \A u \in Cpu : Column(none, x)[u] = 0
    BY DEF Column
  <2> QED  BY <2>1, SumPositive, CaptureAssumption
<1>4. none \in [Cpu -> [Counter -> Nat]] /\ counters = none
  BY DEF CaptureInit
<1>5. \A x \in Counter : calls[x] = SumOf(Column(none, x), Cpu) + Cardinality(Counting(x))
  <2> SUFFICES ASSUME NEW x \in Counter
               PROVE  calls[x] = SumOf(Column(none, x), Cpu) + Cardinality(Counting(x))
    OBVIOUS
  <2>1. SumOf(Column(none, x), Cpu) = 0
    BY <1>3
  <2>2. Cardinality(Counting(x)) = 0
    BY <1>1, <1>2
  <2>3. calls[x] = 0
    BY DEF CaptureInit
  <2> HIDE DEF none
  <2> QED  BY <2>1, <2>2, <2>3
<1>6. \A c \in Ctx : pc[c] # "store"
  BY DEF CaptureInit
<1>7. \A u \in Cpu, x \in Counter : none[u][x] = 0
  OBVIOUS
<1> HIDE DEF none
<1>8. Tally(none)
  BY <1>1, <1>4, <1>5, <1>6, <1>7 DEF Tally
<1> QED  BY <1>1, <1>2, <1>8 DEF CountInv

(* What the tally says of the counters.                                    *)
LEMMA TallyCounts == CaptureTypeOK /\ CountInv => CountersTrusted /\ CountsAll
<1> SUFFICES ASSUME CaptureTypeOK, CountInv PROVE CountersTrusted /\ CountsAll
  OBVIOUS
<1>1. PICK done : Tally(done)
  BY DEF CountInv
<1>2. ASSUME NEW x \in Counter
      PROVE  /\ Total(x) <= calls[x]
             /\ calls[x] > Cardinality(Counting(x)) => Total(x) > 0
             /\ x \notin raced => calls[x] = Total(x) + Cardinality(Counting(x))
  <2> DEFINE f == Column(counters, x)
             e == Column(done, x)
  <2>1. /\ f \in [Cpu -> Nat] /\ e \in [Cpu -> Nat]
        /\ \A u \in Cpu : f[u] <= e[u] /\ (e[u] > 0 => f[u] > 0)
        /\ x \notin raced => \A u \in Cpu : f[u] = e[u]
    BY <1>1 DEF Tally, CaptureTypeOK, Column
  <2>2. Total(x) = SumOf(f, Cpu)
    BY TotalIsSum DEF Column
  <2>3. calls[x] = SumOf(e, Cpu) + Cardinality(Counting(x))
    BY <1>1 DEF Tally
  <2>4. Cardinality(Counting(x)) \in Nat
    BY FS_CardinalityType DEF CountInv
  <2> HIDE DEF f, e
  <2>5. SumOf(f, Cpu) \in Nat /\ SumOf(e, Cpu) \in Nat /\ SumOf(f, Cpu) <= SumOf(e, Cpu)
    BY <2>1, SumPositive, SumMonotone, CaptureAssumption
  <2>6. SumOf(e, Cpu) > 0 => SumOf(f, Cpu) > 0
    BY <2>1, SumPositive, CaptureAssumption
  <2>7. x \notin raced => f = e
    BY <2>1
  <2> QED  BY <2>2, <2>3, <2>4, <2>5, <2>6, <2>7
<1> QED  BY <1>2 DEF CountersTrusted, CountsAll

(* Whatever programs are preempted where: a counter never claims more than *)
(* happened and is not zero once something has (netmon.bpf.c:24-29).       *)
THEOREM NetmonCountersTrusted == NetmonSpec => []CountersTrusted
<1>1. NetmonInit => CaptureInv /\ CountInv
  BY CaptureInvInit, CountInvInit DEF NetmonInit
<1>2. CaptureInv /\ CountInv /\ [NetmonNext]_netmonVars => CaptureInv' /\ CountInv'
  BY CaptureInvStep, CountInvStep, StepOfCapture DEF CaptureInv
<1>3. CaptureInv /\ CountInv => CountersTrusted
  BY TallyCounts DEF CaptureInv
<1> QED  BY <1>1, <1>2, <1>3, PTL DEF NetmonSpec

(* And unless two programs of one CPU bumped a counter at once, nothing is *)
(* lost, however many CPUs count at the same time.                         *)
THEOREM NetmonCountsAll == NetmonSpec => []CountsAll
<1>1. NetmonInit => CaptureInv /\ CountInv
  BY CaptureInvInit, CountInvInit DEF NetmonInit
<1>2. CaptureInv /\ CountInv /\ [NetmonNext]_netmonVars => CaptureInv' /\ CountInv'
  BY CaptureInvStep, CountInvStep, StepOfCapture DEF CaptureInv
<1>3. CaptureInv /\ CountInv => CountsAll
  BY TallyCounts DEF CaptureInv
<1> QED  BY <1>1, <1>2, <1>3, PTL DEF NetmonSpec

-----------------------------------------------------------------------------
(* The reader and the cache.                                               *)

(* What the first record of the ring holds.                                *)
LEMMA HeadRecord ==
  ASSUME CaptureInv, ring # << >>
  PROVE  LET e == Head(ring) IN
         /\ e.stamp \in 0..MaxClock /\ e.stamp \in Time
         /\ e.job \in Job
         /\ e.job.kind \in {"connect", "packet"}
         /\ e.job.kind = "connect" => e.job.key \in Key
         /\ e.job.kind = "packet" => e.job.payload \in Message
         /\ e.state = "ready" =>
              [at |-> Consumed + 1, stamp |-> e.stamp, job |-> e.job] \in log
         /\ e.state # "ready" => \A r \in log : r.at # Consumed + 1
<1> DEFINE e == Head(ring)
<1>1. /\ ring \in Seq(RingRecord) /\ 1 \in DOMAIN ring /\ e = ring[1]
      /\ Consumed \in Nat
  BY DEF CaptureInv, CaptureTypeOK, RingInv, Consumed
<1>2. e \in RingRecord
  BY <1>1
<1>3. e.stamp \in 0..MaxClock /\ e.job \in Job
  BY <1>2 DEF RingRecord
<1>4. e.job \in JobType
  BY <1>3, CaptureAssumption
<1>5. /\ e.job.kind \in {"connect", "packet"}
      /\ e.job.kind = "connect" => e.job.key \in Destination
      /\ e.job.kind = "packet" => e.job.payload \in Payload
  BY <1>4 DEF JobType
<1>6. ASSUME e.state = "ready"
      PROVE  [at |-> Consumed + 1, stamp |-> e.stamp, job |-> e.job] \in log
  BY <1>1, <1>6, Zenon DEF CaptureInv, LogInv
<1>7. ASSUME e.state # "ready", NEW r \in log, r.at = Consumed + 1
      PROVE  FALSE
  <2>1. r.at > Consumed /\ r.at - Consumed = 1
    BY <1>1, <1>7
  <2>2. ring[1].state = "ready"
    BY <2>1, LoggedInRing
  <2> QED  BY <1>1, <1>7, <2>2
<1> QED  BY <1>3, <1>5, <1>6, <1>7, NetmonAssumption

(* The reader is in ParseResponse exactly while Puts are outstanding.      *)
ReadInv ==
  /\ Parsing
  /\ rpc = "parse" <=> todo # {}

(* What a step of netmon does to the cache.                                *)
CacheStep ==
  \/ /\ UNCHANGED responseVars
     /\ rpc' = "parse" <=> rpc = "parse"
  \/ /\ rpc # "parse" /\ rpc' # "parse"
     /\ \E t \in Time : entries' = Prune(entries, t)
     /\ UNCHANGED <<message, stamp, todo>>
  \/ /\ \E m \in Message, t \in Time : Receive(m, t)
     /\ rpc' = "parse" <=> todo' # {}
  \/ /\ PutNext
     /\ rpc' = "parse" <=> todo' # {}

(* Every step of netmon is one of these.                                   *)
LEMMA StepOfCache ==
  ASSUME CaptureInv, [NetmonNext]_netmonVars
  PROVE  CacheStep
<1>1. CASE \E c \in Ctx : Program(c)
  BY <1>1 DEF Program, readerVars, CacheStep
<1>2. CASE Pass
  BY <1>2 DEF Pass, readerVars, CacheStep
<1>3. CASE PrintConnection
  <2>1. Head(ring).stamp \in Time
    BY <1>3, HeadRecord DEF PrintConnection
  <2> QED  BY <1>3, <2>1 DEF PrintConnection, CacheStep
<1>4. CASE HandleDns
  <2>1. Head(ring).stamp \in Time /\ Head(ring).job.payload \in Message
    BY <1>4, HeadRecord DEF HandleDns
  <2> QED  BY <1>4, <2>1 DEF HandleDns, CacheStep
<1>5. CASE Parse
  BY <1>5 DEF Parse, CacheStep
<1>6. CASE Maintain
  <2>1. clock \in Time
    BY NetmonAssumption DEF CaptureInv, CaptureTypeOK
  <2>2. CASE clock - last < MaintainEvery
    BY <1>6, <2>2 DEF Maintain, CacheStep, responseVars
  <2>3. CASE ~ (clock - last < MaintainEvery)
    BY <1>6, <2>1, <2>3 DEF Maintain, CacheStep
  <2> QED  BY <2>2, <2>3
<1>7. CASE \/ Select \/ SkipDiscarded \/ Deadline \/ PrintCounters \/ Detach
           \/ ReadError \/ Interrupt \/ Vanish
  BY <1>7 DEF Select, SkipDiscarded, Deadline, PrintCounters, Detach, ReadError,
              Interrupt, Vanish, readerVars, CacheStep
<1>8. CASE UNCHANGED netmonVars
  BY <1>8 DEF netmonVars, readerVars, CacheStep
<1> QED  BY <1>1, <1>2, <1>3, <1>4, <1>5, <1>6, <1>7, <1>8 DEF NetmonNext, Reader

(* A parse is entered with a captured message and left after its last Put. *)
LEMMA ReadInvStep ==
  ASSUME CaptureInv, ReadInv, [NetmonNext]_netmonVars
  PROVE  ReadInv'
<1>1. CacheStep
  BY StepOfCache
<1>2. CASE UNCHANGED responseVars /\ (rpc' = "parse" <=> rpc = "parse")
  BY <1>2 DEF ReadInv, Parsing, responseVars, PutPositions, Cnames
<1>3. CASE rpc # "parse" /\ rpc' # "parse" /\ UNCHANGED <<message, stamp, todo>>
  BY <1>3 DEF ReadInv, Parsing, PutPositions, Cnames
<1>4. CASE /\ \E m \in Message, t \in Time : Receive(m, t)
           /\ rpc' = "parse" <=> todo' # {}
  BY <1>4, HoldKeepsParsing DEF Receive, ReadInv
<1>5. CASE PutNext /\ (rpc' = "parse" <=> todo' # {})
  <2>1. PICK p \in todo : Hold(message, stamp, todo \ {p})
    BY <1>5 DEF PutNext
  <2> QED  BY <1>5, <2>1, HoldKeepsParsing DEF Parsing, ReadInv
<1> QED  BY <1>1, <1>2, <1>3, <1>4, <1>5 DEF CacheStep

(* The reader begins outside of ParseResponse.                             *)
LEMMA ReadInvInit == NetmonInit => ReadInv
BY DEF NetmonInit, ResponseInit, ReadInv, Parsing

(* netmon as a whole implements the parser's specification: between the    *)
(* first and the last Put of a message no other is begun and nothing is    *)
(* pruned, whatever else the programs, the clock and the reader's loop do  *)
(* (main.go:210-281, dns.go:38-50).                                        *)
THEOREM NetmonImplementsParser == NetmonSpec => ImplementsParser
<1>1. NetmonInit => CaptureInv /\ ReadInv /\ ResponseInit
  BY CaptureInvInit, ReadInvInit DEF NetmonInit
<1>2. CaptureInv /\ ReadInv /\ [NetmonNext]_netmonVars => CaptureInv' /\ ReadInv'
  BY CaptureInvStep, StepOfCapture, ReadInvStep
<1>3. CaptureInv /\ ReadInv /\ [NetmonNext]_netmonVars => [ResponseNext]_responseVars
  <2> SUFFICES ASSUME CaptureInv, ReadInv, [NetmonNext]_netmonVars
               PROVE  [ResponseNext]_responseVars
    OBVIOUS
  <2>1. CacheStep
    BY StepOfCache
  <2>2. CASE UNCHANGED responseVars
    BY <2>2
  <2>3. ASSUME rpc # "parse", NEW t \in Time, entries' = Prune(entries, t),
               UNCHANGED <<message, stamp, todo>>
        PROVE  ResponseNext
    <3>1. todo = {}
      BY <2>3 DEF ReadInv
    <3> QED  BY <2>3, <3>1 DEF ResponseNext, PruneBetween
  <2>4. CASE PutNext \/ \E m \in Message, t \in Time : Receive(m, t)
    BY <2>4 DEF ResponseNext
  <2> QED  BY <2>1, <2>2, <2>3, <2>4 DEF CacheStep
<1> QED  BY <1>1, <1>2, <1>3, PTL DEF NetmonSpec, ImplementsParser, ResponseSpec

(* Hence what was proved of the cache holds of it in the running program:  *)
(* limits, one entry per address, one name per host, no hollow entry.      *)
THEOREM NetmonCacheSafe == NetmonSpec => []CacheInv
BY NetmonImplementsParser, ResponseUsesCache, CacheSafe, PTL DEF ImplementsParser

(* And the running program implements the table of facts.                  *)
THEOREM NetmonImplementsTable == NetmonSpec => ImplementsTable
BY NetmonImplementsParser, ResponseUsesCache, CacheImplementsTable, PTL
   DEF ImplementsParser

-----------------------------------------------------------------------------
(* What is printed.                                                        *)

(* What holds of the parts, together.                                      *)
BaseInv == CaptureInv /\ CountInv /\ ReadInv /\ CacheInv

(* The invariants of the parts hold throughout a run of netmon.            *)
LEMMA BaseHolds == NetmonSpec => []BaseInv
<1>1. NetmonInit => CaptureInv /\ CountInv /\ ReadInv
  BY CaptureInvInit, CountInvInit, ReadInvInit DEF NetmonInit
<1>2. CaptureInv /\ CountInv /\ ReadInv /\ [NetmonNext]_netmonVars
        => CaptureInv' /\ CountInv' /\ ReadInv'
  BY CaptureInvStep, CountInvStep, StepOfCapture, ReadInvStep DEF CaptureInv
<1>3. NetmonSpec => [](CaptureInv /\ CountInv /\ ReadInv)
  BY <1>1, <1>2, PTL DEF NetmonSpec
<1> QED  BY <1>3, NetmonCacheSafe, PTL DEF BaseInv

(* The names printed are the entry's, in its order.                        *)
LEMMA NamesPrinted ==
  ASSUME NEW es, GoodCache(es), NEW k
  PROVE  /\ NamesOf(es, k) \in Seq(Name)
         /\ \A h : (\E j \in DOMAIN NamesOf(es, k) : Fold[NamesOf(es, k)[j]] = h) <=>
                   \E f \in Facts(es) : f.key = k /\ f.host = h
<1> DEFINE ns == es[Find(es, k)].names
<1>1. /\ es \in Seq(Entry)
      /\ \A i, j \in DOMAIN es : es[i].key = es[j].key => i = j
      /\ \A i \in DOMAIN es : es[i].names \in Seq(NameRecord)
  BY DEF GoodCache, GoodNames
<1>2. Facts(es) = UNION {NameFacts(es[i].key, es[i].names) : i \in DOMAIN es}
  BY FactsGather
<1>3. \A i \in DOMAIN es : \A x \in NameFacts(es[i].key, es[i].names) :
        x.key = es[i].key
  BY FactFields DEF NameFacts
<1>4. CASE Find(es, k) = 0
  <2>1. \A i \in DOMAIN es : es[i].key # k
    BY <1>1, <1>4, FindFinds
  <2>2. NamesOf(es, k) = << >>
    BY <1>4 DEF NamesOf
  <2>3. \A f \in Facts(es) : f.key # k
    BY <1>2, <1>3, <2>1
  <2> QED  BY <2>2, <2>3
<1>5. CASE Find(es, k) # 0
  <2>1. Find(es, k) \in DOMAIN es /\ es[Find(es, k)].key = k
    BY <1>1, <1>5, FindFinds
  <2>2. ns \in Seq(NameRecord)
    BY <1>1, <2>1
  <2>3. NamesOf(es, k) = [i \in DOMAIN ns |-> ns[i].value]
    BY <1>5 DEF NamesOf
  <2> HIDE DEF ns
  <2>4. \A i \in DOMAIN ns : ns[i].value \in Name
    <3> SUFFICES ASSUME NEW i \in DOMAIN ns PROVE ns[i].value \in Name
      OBVIOUS
    <3>1. ns[i] \in NameRecord
      BY <2>2
    <3> QED  BY <3>1 DEF NameRecord
  <2>5. NamesOf(es, k) \in Seq(Name)
    BY <2>2, <2>3, <2>4
  <2>6. ASSUME NEW f \in Facts(es), f.key = k
        PROVE  \E j \in DOMAIN ns : f.host = Fold[ns[j].value]
    <3>1. PICK i \in DOMAIN es : f \in NameFacts(es[i].key, es[i].names)
      BY <1>2
    <3>2. i = Find(es, k)
      BY <1>1, <1>3, <2>1, <2>6, <3>1
    <3> QED  BY <3>1, <3>2, FactFields DEF NameFacts, ns
  <2>7. ASSUME NEW j \in DOMAIN ns
        PROVE  \E f \in Facts(es) : f.key = k /\ f.host = Fold[ns[j].value]
    <3>1. FactOf(k, ns[j]) \in Facts(es)
      BY <1>2, <2>1 DEF NameFacts, ns
    <3> QED  BY <3>1, FactFields
  <2>8. \A j \in DOMAIN ns : NamesOf(es, k)[j] = ns[j].value
    BY <2>3
  <2>9. DOMAIN NamesOf(es, k) = DOMAIN ns
    BY <2>3
  <2> QED  BY <2>5, <2>6, <2>7, <2>8, <2>9
<1> QED  BY <1>4, <1>5

(* The types of the reader's own variables.                                *)
ReaderTypeOK ==
  /\ rpc \in {"select", "read", "parse", "maintain", "report", "detach", "exit"}
  /\ last \in 0..MaxClock
  /\ signal \in BOOLEAN
  /\ intact \in BOOLEAN
  /\ report \in [Counter -> Nat]
  /\ out \in Seq([at : Nat, key : Key, stamp : 0..MaxClock, names : Seq(Name)])
  /\ maintained \subseteq Nat \X (0..MaxClock)
  /\ late \in Nat

(* A line has its types.                                                   *)
LEMMA PrintType ==
  ASSUME BaseInv, CacheInv', ReaderTypeOK, PrintConnection
  PROVE  out' \in Seq([at : Nat, key : Key, stamp : 0..MaxClock, names : Seq(Name)])
<1> DEFINE e == Head(ring)
           o == [at |-> Consumed + 1, key |-> e.job.key, stamp |-> e.stamp,
                 names |-> NamesOf(entries', e.job.key)]
<1>1. Consumed + 1 \in Nat
  BY DEF BaseInv, CaptureInv, CaptureTypeOK, RingInv, Consumed
<1>2. e.job.key \in Key /\ e.stamp \in 0..MaxClock
  BY HeadRecord DEF PrintConnection, BaseInv
<1>3. GoodCache(entries')
  <2>1. CacheInv' => GoodCache(entries)'
    BY InvIsGood, PTL
  <2> QED  BY <2>1 DEF GoodCache, GoodNames
<1>4. NamesOf(entries', e.job.key) \in Seq(Name)
  BY <1>3, NamesPrinted
<1>5. out' = Append(out, o)
  BY DEF PrintConnection
<1> HIDE DEF e
<1>6. o \in [at : Nat, key : Key, stamp : 0..MaxClock, names : Seq(Name)]
  BY <1>1, <1>2, <1>4
<1> QED  BY <1>5, <1>6 DEF ReaderTypeOK

(* They are preserved.                                                     *)
LEMMA ReaderTypeStep ==
  ASSUME BaseInv, BaseInv', ReaderTypeOK, [NetmonNext]_netmonVars
  PROVE  ReaderTypeOK'
<1>0. clock \in 0..MaxClock /\ Consumed \in Nat
  BY DEF BaseInv, CaptureInv, CaptureTypeOK, RingInv, Consumed
<1>1. CASE (\E c \in Ctx : Program(c)) \/ Pass \/ SkipDiscarded \/ UNCHANGED netmonVars
  BY <1>1 DEF Program, Pass, SkipDiscarded, netmonVars, readerVars, ReaderTypeOK
<1>2. CASE PrintConnection
  BY <1>2, PrintType DEF PrintConnection, Handled, ReaderTypeOK, BaseInv
<1>3. CASE HandleDns \/ Parse \/ Select \/ Deadline \/ ReadError \/ Detach
  BY <1>3 DEF HandleDns, Handled, Parse, Select, Deadline, ReadError, Detach, ReaderTypeOK
<1>4. CASE Maintain
  BY <1>0, <1>4 DEF Maintain, ReaderTypeOK
<1>5. CASE PrintCounters
  <2>1. \A x \in Counter : Total(x) \in Nat
    <3> SUFFICES ASSUME NEW x \in Counter PROVE Total(x) \in Nat
      OBVIOUS
    <3>1. [u \in Cpu |-> counters[u][x]] \in [Cpu -> Nat]
      BY DEF BaseInv, CaptureInv, CaptureTypeOK
    <3>2. CaptureTypeOK
      BY DEF BaseInv, CaptureInv
    <3>3. SumOf([u \in Cpu |-> counters[u][x]], Cpu) \in Nat
      BY <3>1, SumPositive, CaptureAssumption
    <3> QED  BY <3>2, <3>3, TotalIsSum
  <2> QED  BY <1>5, <2>1 DEF PrintCounters, ReaderTypeOK
<1>6. CASE Interrupt \/ Vanish
  <2>1. signal' \in BOOLEAN /\ intact' \in BOOLEAN
    BY <1>6, Zenon DEF Interrupt, Vanish, ReaderTypeOK
  <2> QED  BY <1>6, <2>1 DEF Interrupt, Vanish, ReaderTypeOK
<1> QED  BY <1>1, <1>2, <1>3, <1>4, <1>5, <1>6 DEF NetmonNext, Reader

(* The reader's variables keep their types.                                *)
LEMMA ReaderTypeHolds == NetmonSpec => []ReaderTypeOK
<1>1. NetmonInit => ReaderTypeOK
  <2> SUFFICES ASSUME NetmonInit PROVE ReaderTypeOK
    OBVIOUS
  <2>1. signal \in BOOLEAN /\ intact \in BOOLEAN
    BY Zenon DEF NetmonInit
  <2>2. report \in [Counter -> Nat] /\ last \in 0..MaxClock
    BY CaptureAssumption DEF NetmonInit, NoReport
  <2>3. out \in Seq([at : Nat, key : Key, stamp : 0..MaxClock, names : Seq(Name)])
    BY DEF NetmonInit
  <2> QED  BY <2>1, <2>2, <2>3 DEF NetmonInit, ReaderTypeOK
<1>2. BaseInv /\ BaseInv' /\ ReaderTypeOK /\ [NetmonNext]_netmonVars => ReaderTypeOK'
  BY ReaderTypeStep
<1> QED  BY <1>1, <1>2, BaseHolds, PTL DEF NetmonSpec

(* The type invariant of the whole of netmon, including that the totals of *)
(* the report are numbers and that lines list well-formed names only.      *)
THEOREM NetmonTypeCorrect == NetmonSpec => []NetmonTypeOK
<1>1. BaseInv /\ ReaderTypeOK => NetmonTypeOK
  BY DEF BaseInv, CaptureInv, ReadInv, Parsing, CacheInv, ResponseTypeOK,
         ReaderTypeOK, NetmonTypeOK
<1> QED  BY <1>1, BaseHolds, ReaderTypeHolds, PTL

(* A signal that has seen one record handled waits outside of Read.        *)
HeardInv ==
  /\ late = 0 \/ (late = 1 /\ signal)
  /\ late = 1 => rpc # "read"

(* After a signal the reader handles at most one more record, for any ring *)
(* and any number of programs and records (main.go:201-206).               *)
THEOREM NetmonSignalHeard == NetmonSpec => []SignalHeard
<1>1. NetmonInit => HeardInv
  BY DEF NetmonInit, HeardInv
<1>2. HeardInv /\ [NetmonNext]_netmonVars => HeardInv'
  <2> SUFFICES ASSUME HeardInv, [NetmonNext]_netmonVars PROVE HeardInv'
    OBVIOUS
  <2>1. CASE (\E c \in Ctx : Program(c)) \/ Pass \/ SkipDiscarded \/ UNCHANGED netmonVars
    BY <2>1 DEF Program, Pass, SkipDiscarded, netmonVars, readerVars, HeardInv
  <2>2. CASE PrintConnection \/ HandleDns
    <3>1. late = 0 /\ UNCHANGED signal /\ rpc' # "read" /\ Handled
      BY <2>2 DEF PrintConnection, HandleDns, HeardInv
    <3>2. (late' = 1 /\ signal) \/ late' = 0
      BY <3>1 DEF Handled
    <3> QED  BY <3>1, <3>2 DEF HeardInv
  <2>3. CASE Select
    BY <2>3 DEF Select, HeardInv
  <2>4. CASE Parse \/ Deadline \/ ReadError \/ Detach \/ PrintCounters \/ Vanish
    BY <2>4 DEF Parse, Deadline, ReadError, Detach, PrintCounters, Vanish, HeardInv
  <2>5. CASE Maintain
    BY <2>5 DEF Maintain, HeardInv
  <2>6. CASE Interrupt
    BY <2>6 DEF Interrupt, HeardInv
  <2> QED  BY <2>1, <2>2, <2>3, <2>4, <2>5, <2>6 DEF NetmonNext, Reader
<1>3. HeardInv => SignalHeard
  BY DEF HeardInv, SignalHeard
<1> QED  BY <1>1, <1>2, <1>3, PTL DEF NetmonSpec

(* The history changes ahead of the consumer only.                         *)
LEMMA LogStep ==
  ASSUME CaptureInv, CaptureStep
  PROVE  \/ Consumed' = Consumed + 1 /\ log' = log /\ Released
         \/ /\ Consumed' = Consumed /\ log \subseteq log'
            /\ \A r \in log' \ log : r.at > Consumed
<1>1. CASE Released
  <2>1. log' = log
    BY <1>1 DEF Released, Consume
  <2> QED  BY <1>1, <2>1, RingRelease
<1>2. /\ ring \in Seq(RingRecord) /\ produced \in Nat /\ slot \in [Ctx -> Nat]
      /\ Len(ring) <= produced
  BY DEF CaptureInv, CaptureTypeOK, RingInv
<1>3. ASSUME NEW c \in Ctx, Commit(c)
      PROVE  /\ Consumed' = Consumed /\ log \subseteq log'
             /\ \A r \in log' \ log : r.at > Consumed
  <2> DEFINE i == slot[c] - Consumed
             rec == [at |-> slot[c], stamp |-> ring[i].stamp, job |-> job[c]]
  <2>1. slot[c] > Consumed /\ i \in DOMAIN ring
    <3>1. Writing(c) /\ slot[c] \in (Consumed + 1)..produced
      BY <1>3 DEF Commit, Writing, CaptureInv, RingInv
    <3> QED  BY <1>2, <1>3, <3>1, SlotInRing DEF CaptureInv, Consumed
  <2>2. log' = log \/ log' = log \cup {rec}
    BY <1>3 DEF Commit
  <2>3. Len(ring') = Len(ring) /\ produced' = produced
    BY <1>2, <1>3, <2>1 DEF Commit
  <2>4. rec.at = slot[c]
    OBVIOUS
  <2>5. Consumed' = Consumed
    BY <2>3 DEF Consumed
  <2> QED  BY <2>1, <2>2, <2>4, <2>5
<1>4. ASSUME NEW c \in Ctx, Stamp(c)
      PROVE  Consumed' = Consumed /\ log' = log
  BY <1>2, <1>4 DEF Stamp, Consumed
<1>5. ASSUME NEW c \in Ctx, Reserve(c)
      PROVE  Consumed' = Consumed /\ log' = log
  BY <1>2, <1>5 DEF Reserve, Consumed
<1>6. ASSUME NEW c \in Ctx, Load(c) \/ Store(c) \/ \E j \in Job : Start(c, j)
      PROVE  Consumed' = Consumed /\ log' = log
  BY <1>6 DEF Load, Store, Start, Consumed
<1>7. ASSUME Tick \/ Detached \/ UNCHANGED captureVars
      PROVE  Consumed' = Consumed /\ log' = log
  BY <1>7 DEF Tick, Detached, captureVars, Consumed
<1> QED  BY <1>1, <1>3, <1>4, <1>5, <1>6, <1>7 DEF CaptureStep, Run

(* A program consumes nothing.                                             *)
LEMMA ProgramKeepsRing ==
  ASSUME CaptureInv, NEW c \in Ctx, Run(c) \/ \E j \in Job : Start(c, j)
  PROVE  ~ Released
<1> SUFFICES ASSUME Released PROVE FALSE
  OBVIOUS
<1>1. /\ UNCHANGED <<pc, starts>>
      /\ pc \in [Ctx -> {"idle", "load", "store", "reserve", "stamp", "commit"}]
      /\ starts \in Nat
  BY DEF Released, Consume, progVars, CaptureInv, CaptureTypeOK
<1>2. ~ \E j \in Job : Start(c, j)
  BY <1>1 DEF Start
<1>3. ~ (Load(c) \/ Store(c) \/ Stamp(c))
  BY <1>1 DEF Load, Store, Stamp
<1>4. ~ (Reserve(c) \/ Commit(c))
  BY <1>1 DEF Reserve, Commit, Bump
<1> QED  BY <1>2, <1>3, <1>4 DEF Run

(* Lines and submitted connections behind the consumer match.              *)
PrintInv ==
  /\ \A i \in DOMAIN out : out[i].at <= Consumed
  /\ \A i, j \in DOMAIN out : i < j => out[i].at < out[j].at
  /\ \A i \in DOMAIN out : \E r \in log :
       /\ r.job.kind = "connect"
       /\ r.at = out[i].at /\ r.job.key = out[i].key /\ r.stamp = out[i].stamp
  /\ \A r \in log : r.job.kind = "connect" /\ r.at <= Consumed =>
       \E i \in DOMAIN out :
         r.at = out[i].at /\ r.job.key = out[i].key /\ r.stamp = out[i].stamp

(* Whatever is not a connection is passed over in silence.                 *)
LEMMA PassedOver ==
  ASSUME BaseInv, PrintInv, Consumed' = Consumed + 1, UNCHANGED <<log, out>>,
         \A r \in log : r.job.kind = "connect" => r.at # Consumed + 1
  PROVE  PrintInv'
<1>1. Consumed \in Nat /\ \A r \in log : r.at \in Nat
  BY DEF BaseInv, CaptureInv, CaptureTypeOK, RingInv, Consumed
<1>2. \A r \in log : r.job.kind = "connect" /\ r.at <= Consumed' => r.at <= Consumed
  BY <1>1
<1>3. \A i \in DOMAIN out : out[i].at \in Nat
  BY <1>1 DEF PrintInv
<1>4. \A i \in DOMAIN out : out[i].at <= Consumed'
  BY <1>1, <1>3 DEF PrintInv
<1> QED  BY <1>2, <1>4 DEF PrintInv

(* A connection at the head of the ring is printed and passed.             *)
LEMMA PrintedAndPassed ==
  ASSUME BaseInv, ReaderTypeOK, PrintInv, PrintConnection
  PROVE  PrintInv'
<1> DEFINE e == Head(ring)
           o == [at |-> Consumed + 1, key |-> e.job.key, stamp |-> e.stamp,
                 names |-> NamesOf(entries', e.job.key)]
           rec == [at |-> Consumed + 1, stamp |-> e.stamp, job |-> e.job]
<1>1. Consumed \in Nat /\ \A r \in log : r.at \in Nat
  BY DEF BaseInv, CaptureInv, CaptureTypeOK, RingInv, Consumed
<1>2. Consumed' = Consumed + 1 /\ log' = log
  <2>1. Released
    BY DEF PrintConnection, Released
  <2> QED  BY <2>1, RingRelease DEF Released, Consume, BaseInv
<1>3. out' = Append(out, o) /\ e.job.kind = "connect" /\ rec \in log
  BY HeadRecord DEF PrintConnection, BaseInv
<1>4. \A r \in log : r.at = Consumed + 1 => r = rec
  BY <1>3 DEF BaseInv, CaptureInv, LogInv
<1>5. out \in Seq([at : Nat, key : Key, stamp : 0..MaxClock, names : Seq(Name)])
  BY DEF ReaderTypeOK
<1>6. /\ o.at = Consumed + 1 /\ o.key = e.job.key /\ o.stamp = e.stamp
      /\ rec.at = Consumed + 1 /\ rec.job = e.job /\ rec.stamp = e.stamp
  OBVIOUS
<1> HIDE DEF e, o, rec
<1>7. /\ DOMAIN out = 1..Len(out) /\ Len(out) \in Nat
      /\ DOMAIN out' = 1..(Len(out) + 1)
      /\ \A i \in DOMAIN out : out'[i] = out[i] /\ i \in DOMAIN out'
      /\ out'[Len(out) + 1] = o /\ Len(out) + 1 \in DOMAIN out'
      /\ \A i \in DOMAIN out' : i \in DOMAIN out \/ i = Len(out) + 1
  BY <1>3, <1>5
<1>8. \A i \in DOMAIN out : out[i].at \in Nat /\ out[i].at <= Consumed
  BY <1>1 DEF PrintInv
<1>9. \A i \in DOMAIN out' : out'[i].at <= Consumed'
  BY <1>1, <1>2, <1>6, <1>7, <1>8
<1>10. ASSUME NEW i \in DOMAIN out', NEW j \in DOMAIN out', i < j
       PROVE  out'[i].at < out'[j].at
  <2>1. i \in DOMAIN out
    BY <1>7, <1>10
  <2>2. CASE j \in DOMAIN out
    BY <1>7, <1>10, <2>1, <2>2 DEF PrintInv
  <2>3. CASE j = Len(out) + 1
    BY <1>1, <1>6, <1>7, <1>8, <2>1, <2>3
  <2> QED  BY <1>7, <2>2, <2>3
<1>11. ASSUME NEW i \in DOMAIN out'
       PROVE  \E r \in log' :
                /\ r.job.kind = "connect"
                /\ r.at = out'[i].at /\ r.job.key = out'[i].key /\ r.stamp = out'[i].stamp
  <2>1. CASE i \in DOMAIN out
    BY <1>2, <1>7, <2>1 DEF PrintInv
  <2>2. CASE i = Len(out) + 1
    BY <1>2, <1>3, <1>6, <1>7, <2>2
  <2> QED  BY <1>7, <2>1, <2>2
<1>12. ASSUME NEW r \in log', r.job.kind = "connect", r.at <= Consumed'
       PROVE  \E i \in DOMAIN out' :
                r.at = out'[i].at /\ r.job.key = out'[i].key /\ r.stamp = out'[i].stamp
  <2>0. r \in log /\ r.at \in Nat
    BY <1>1, <1>2
  <2>1. CASE r.at <= Consumed
    <3>1. PICK i \in DOMAIN out :
            r.at = out[i].at /\ r.job.key = out[i].key /\ r.stamp = out[i].stamp
      BY <1>12, <2>0, <2>1 DEF PrintInv
    <3> QED  BY <1>7, <3>1
  <2>2. CASE r.at = Consumed + 1
    <3>1. r = rec
      BY <1>4, <2>0, <2>2
    <3> QED  BY <1>6, <1>7, <3>1
  <2> QED  BY <1>1, <1>2, <1>12, <2>0, <2>1, <2>2
<1> QED  BY <1>9, <1>10, <1>11, <1>12, Zenon DEF PrintInv

(* Every step keeps lines and connections matched.                         *)
LEMMA PrintInvStep ==
  ASSUME BaseInv, ReaderTypeOK, PrintInv, [NetmonNext]_netmonVars
  PROVE  PrintInv'
<1>0. Consumed \in Nat /\ \A r \in log : r.at \in Nat
  BY DEF BaseInv, CaptureInv, CaptureTypeOK, RingInv, Consumed
<1>1. CASE PrintConnection
  BY <1>1, PrintedAndPassed
<1>2. CASE SkipDiscarded \/ HandleDns
  <2>1. Released /\ out' = out
    BY <1>2 DEF SkipDiscarded, HandleDns, Released, readerVars
  <2>2. Consumed' = Consumed + 1 /\ log' = log
    BY <2>1, RingRelease DEF Released, Consume, BaseInv
  <2>3. ASSUME NEW r \in log, r.job.kind = "connect", r.at = Consumed + 1
        PROVE  FALSE
    <3>1. CASE SkipDiscarded
      BY <2>3, <3>1, HeadRecord DEF SkipDiscarded, BaseInv
    <3>2. CASE HandleDns
      <4> DEFINE rec == [at |-> Consumed + 1, stamp |-> Head(ring).stamp,
                         job |-> Head(ring).job]
      <4>1. rec \in log /\ rec.job.kind = "packet"
        BY <3>2, HeadRecord DEF HandleDns, BaseInv
      <4>2. r = rec
        BY <2>3, <4>1 DEF BaseInv, CaptureInv, LogInv
      <4> QED  BY <2>3, <4>1, <4>2
    <3> QED  BY <1>2, <3>1, <3>2
  <2> QED  BY <2>1, <2>2, <2>3, PassedOver
<1>3. CASE ~ (PrintConnection \/ SkipDiscarded \/ HandleDns)
  <2>1. (out' = out /\ ring' = ring) \/ (out' = out /\ \E c \in Ctx : Program(c))
    BY <1>3 DEF NetmonNext, Reader, Pass, Tick, Select, Parse, Deadline, Maintain,
       PrintCounters, Detach, ReadError, Interrupt, Vanish, netmonVars, readerVars,
       captureVars, Program
  <2>2. CaptureStep
    BY StepOfCapture
  <2>3. ~ Released
    <3>1. CASE ring' = ring
      <4>1. ring \in Seq(RingRecord)
        BY DEF BaseInv, CaptureInv, CaptureTypeOK
      <4> QED  BY <3>1, <4>1 DEF Released, Consume
    <3>2. CASE \E c \in Ctx : Program(c)
      BY <3>2, ProgramKeepsRing DEF Program, BaseInv
    <3> QED  BY <2>1, <3>1, <3>2
  <2>4. /\ Consumed' = Consumed /\ log \subseteq log'
        /\ \A r \in log' \ log : r.at > Consumed
    BY <2>2, <2>3, LogStep DEF BaseInv
  <2>5. out' = out
    BY <2>1
  <2>6. \A r \in log' : r.at <= Consumed => r \in log
    <3>1. \A r \in log' : r.at \in Nat
      <4>1. CaptureInv'
        BY <2>2, CaptureInvStep DEF BaseInv
      <4> QED  BY <4>1 DEF CaptureInv, CaptureTypeOK
    <3> QED  BY <1>0, <2>4, <3>1
  <2> QED  BY <2>4, <2>5, <2>6 DEF PrintInv
<1> QED  BY <1>1, <1>2, <1>3

(* Every submitted connection is printed once, in ring order, as soon as   *)
(* the reader has passed it, with its own address and timestamp, whatever  *)
(* is discarded or still busy around it (main.go:195-281).                 *)
THEOREM NetmonPrintedOnce == NetmonSpec => []PrintedOnce
<1>1. NetmonInit => PrintInv
  BY DEF NetmonInit, CaptureInit, PrintInv
<1>2. BaseInv /\ ReaderTypeOK /\ PrintInv /\ [NetmonNext]_netmonVars => PrintInv'
  BY PrintInvStep
<1>3. NetmonSpec => []PrintInv
  BY <1>1, <1>2, BaseHolds, ReaderTypeHolds, PTL DEF NetmonSpec
<1>4. BaseInv /\ PrintInv => PrintedOnce
  <2> SUFFICES ASSUME BaseInv, PrintInv PROVE PrintedOnce
    OBVIOUS
  <2> DEFINE printed == {<<out[i].at, out[i].key, out[i].stamp>> : i \in DOMAIN out}
             passed == {r \in log : r.job.kind = "connect" /\ r.at <= Consumed}
             made == {<<r.at, r.job.key, r.stamp>> : r \in passed}
  <2>1. ASSUME NEW i \in DOMAIN out
        PROVE  <<out[i].at, out[i].key, out[i].stamp>> \in made
    <3>1. PICK r \in log :
            /\ r.job.kind = "connect"
            /\ r.at = out[i].at /\ r.job.key = out[i].key /\ r.stamp = out[i].stamp
      BY DEF PrintInv
    <3>2. r \in passed
      BY <3>1 DEF PrintInv
    <3> QED  BY <3>1, <3>2
  <2>2. ASSUME NEW r \in passed
        PROVE  <<r.at, r.job.key, r.stamp>> \in printed
    BY DEF PrintInv
  <2>3. printed = made
    BY <2>1, <2>2
  <2> QED  BY <2>3 DEF PrintedOnce, PrintInv
<1> QED  BY <1>3, <1>4, BaseHolds, PTL

-----------------------------------------------------------------------------
(* The DNS packet filter, for packets of any size and headers of any       *)
(* content, and for any sizes of DNS header and capture.                   *)

(* What each fate says about the packet and its counters.                  *)
Fated ==
  /\ fate = "arrived" => bumped = {}
  /\ fate = "passed" => /\ Check(packet) # "capture"
                        /\ bumped = {Check(packet)} \ {"ignored"}
  /\ fate \in {"reserved", "submitted", "discarded"} => Check(packet) = "capture"
  /\ fate \in {"reserved", "submitted"} =>
       bumped = {x \in {"DNS_TRUNCATED"} : MessageLen(packet) > CaptureMax}
  /\ fate = "submitted" => PayloadLoads(packet)
  /\ fate = "discarded" => ~ PayloadLoads(packet) /\ "BAD_UDP" \in bumped

FilterInv == FilterTypeOK /\ Fated

(* The fields of a packet.                                                 *)
LEMMA Fields ==
  ASSUME NEW p \in Packet
  PROVE  /\ p.len \in Nat /\ p.ulen \in Nat /\ p.version \in 0..15 /\ p.ihl \in 0..15
         /\ p.fragment \in BOOLEAN /\ p.port53 \in BOOLEAN
         /\ p.protocol \in {"tcp", "udp", "other"}
BY FilterAssumption

(* The answers of the checks.                                              *)
LEMMA Answers ==
  ASSUME NEW p \in Packet
  PROVE  Check(p) \in Counter \cup {"ignored", "capture"}
<1>1. DetectDnsTcp(p) \in {"DNS_TCP_SEEN", "ignored"}
  BY DEF DetectDnsTcp
<1>2. CheckL3(p) \in Counter \cup {"ignored", "udp"}
  BY <1>1 DEF CheckL3, Counter
<1>3. CheckUdp(p) \in Counter \cup {"ignored", "capture"}
  BY DEF CheckUdp, Counter
<1> QED  BY <1>2, <1>3 DEF Check, Counter

(* The IP header lets UDP pass.                                            *)
LEMMA L3Passes ==
  ASSUME NEW p \in Packet
  PROVE  CheckL3(p) = "udp" <=>
           /\ p.protocol = "udp"
           /\ \/ p.version = 4 /\ p.len >= 20 /\ p.ihl >= 5 /\ ~ p.fragment
              \/ p.version = 6 /\ p.len >= 40
<1>1. DetectDnsTcp(p) # "udp"
  BY DEF DetectDnsTcp
<1>2. p.len \in Nat /\ p.version \in 0..15 /\ p.ihl \in 0..15
  BY Fields
<1> QED  BY <1>1, <1>2 DEF CheckL3, Loads

(* Which packets are captured.                                             *)
LEMMA Captures ==
  ASSUME NEW p \in Packet
  PROVE  Check(p) = "capture" <=>
           /\ CheckL3(p) = "udp" /\ Loads(p, L4(p), 8) /\ p.port53
           /\ p.ulen >= 8 /\ p.ulen - 8 >= DnsMin
<1>1. CheckL3(p) # "capture"
  BY DEF CheckL3, DetectDnsTcp
<1>2. p.ulen \in Nat /\ DnsMin \in Nat
  BY Fields, FilterAssumption
<1> QED  BY <1>1, <1>2 DEF Check, CheckUdp

(* The two length checks of kernel and reader together.                    *)
LEMMA WholeIffParsed ==
  ASSUME NEW p \in Packet
  PROVE  WholeDns(p) <=> Check(p) = "capture" /\ PayloadLoads(p) /\ ReaderAccepts(p)
<1>1. /\ p.len \in Nat /\ p.ulen \in Nat /\ p.version \in 0..15 /\ p.ihl \in 0..15
      /\ DnsMin \in Nat /\ CaptureMax \in Nat
  BY Fields, FilterAssumption
<1>2. L4(p) = (IF p.version = 4 THEN 4 * p.ihl ELSE 40) /\ L4(p) \in Nat
  BY <1>1 DEF L4
<1>3. p.ulen >= 8 => /\ ReaderAccepts(p) <=> p.ulen - 8 <= CaptureMax
                     /\ ReaderAccepts(p) => CapturedLen(p) = p.ulen - 8
  BY <1>1 DEF ReaderAccepts, CapturedLen, MessageLen
<1>4. ASSUME WholeDns(p) PROVE Check(p) = "capture" /\ PayloadLoads(p) /\ ReaderAccepts(p)
  <2>1. /\ p.version \in {4, 6} /\ (p.version = 4 => p.ihl >= 5 /\ ~ p.fragment)
        /\ p.protocol = "udp" /\ p.port53
        /\ p.ulen >= 8 + DnsMin /\ p.ulen - 8 <= CaptureMax
        /\ L4(p) + 8 + (p.ulen - 8) <= p.len
    BY <1>2, <1>4 DEF WholeDns
  <2>2. p.ulen >= 8 /\ p.ulen - 8 >= DnsMin
    BY <1>1, <2>1
  <2>3. CheckL3(p) = "udp"
    BY <1>1, <1>2, <2>1, <2>2, L3Passes
  <2>4. Loads(p, L4(p), 8) /\ PayloadLoads(p) /\ ReaderAccepts(p)
    BY <1>1, <1>2, <1>3, <2>1, <2>2 DEF Loads, PayloadLoads
  <2> QED  BY <2>1, <2>2, <2>3, <2>4, Captures
<1>5. ASSUME Check(p) = "capture", PayloadLoads(p), ReaderAccepts(p) PROVE WholeDns(p)
  <2>1. CheckL3(p) = "udp" /\ p.port53 /\ p.ulen >= 8 /\ p.ulen - 8 >= DnsMin
    BY <1>5, Captures
  <2>2. p.ulen - 8 <= CaptureMax /\ L4(p) + 8 + (p.ulen - 8) <= p.len
    BY <1>1, <1>2, <1>3, <1>5, <2>1 DEF PayloadLoads, Loads
  <2>3. /\ p.protocol = "udp" /\ p.version \in {4, 6}
        /\ p.version = 4 => p.ihl >= 5 /\ ~ p.fragment
    BY <2>1, L3Passes
  <2> QED  BY <1>1, <1>2, <2>1, <2>2, <2>3 DEF WholeDns
<1> QED  BY <1>4, <1>5

(* A packet that looks like DNS is never ignored.                          *)
LEMMA NeverIgnored ==
  ASSUME NEW p \in Packet, p.version \in {4, 6}, p.protocol \in {"udp", "tcp"},
         p.port53, p.len >= 68
  PROVE  Check(p) # "ignored"
<1>1. p.len \in Nat /\ p.ihl \in 0..15 /\ p.ulen \in Nat
  BY Fields
<1>2. L4(p) \in Nat /\ L4(p) <= 60
  BY <1>1 DEF L4
<1>3. DetectDnsTcp(p) = "DNS_TCP_SEEN"
  BY <1>1, <1>2 DEF DetectDnsTcp, Loads
<1>4. CheckL3(p) # "ignored"
  BY <1>3 DEF CheckL3
<1>5. CheckUdp(p) # "ignored"
  BY DEF CheckUdp
<1> QED  BY <1>4, <1>5 DEF Check

-----------------------------------------------------------------------------

(* What a packet's counters and fate say of it holds throughout            *)
(* (dns_packet).                                                           *)
LEMMA FilterInductive == FilterSpec => []FilterInv
<1>1. FilterInit => FilterInv
  BY DEF FilterInit, FilterInv, FilterTypeOK, Fated
<1>2. FilterInv /\ [FilterNext]_filterVars => FilterInv'
  <2> SUFFICES ASSUME FilterInv, [FilterNext]_filterVars PROVE FilterInv'
    OBVIOUS
  <2> USE DEF FilterInv, FilterTypeOK
  <2>1. CASE Inspect
    <3>1. packet' = packet /\ packet \in Packet
      BY <2>1 DEF Inspect
    <3>2. Check(packet) \in Counter \cup {"ignored", "capture"}
      BY <3>1, Answers
    <3>3. CASE Check(packet) = "capture"
      BY <2>1, <3>1, <3>3 DEF Inspect, Fated, Counter
    <3>4. CASE Check(packet) # "capture"
      BY <2>1, <3>1, <3>2, <3>4 DEF Inspect, Fated
    <3> QED  BY <3>3, <3>4
  <2>2. CASE Fill
    BY <2>2 DEF Fill, Fated, Counter
  <2>3. CASE UNCHANGED filterVars
    BY <2>3 DEF filterVars, Fated
  <2> QED  BY <2>1, <2>2, <2>3 DEF FilterNext
<1> QED  BY <1>1, <1>2, PTL DEF FilterSpec

(* The type invariant: only counters are bumped.                           *)
THEOREM FilterTypeCorrect == FilterSpec => []FilterTypeOK
<1>1. FilterInv => FilterTypeOK
  BY DEF FilterInv
<1> QED  BY <1>1, FilterInductive, PTL

(* The reader parses exactly the whole DNS messages (netmon.bpf.c:183,     *)
(* main.go:239).                                                           *)
THEOREM FilterParsesWhole == FilterSpec => []WholeMessagesParsed
<1>1. FilterInv => WholeMessagesParsed
  BY WholeIffParsed DEF FilterInv, FilterTypeOK, Fated, WholeMessagesParsed
<1> QED  BY <1>1, FilterInductive, PTL

(* What looks like DNS is parsed or counted, and not both                  *)
(* (netmon.bpf.c:109-209).                                                 *)
THEOREM FilterLosesNothing == FilterSpec => []NoSilentLoss
<1>1. FilterInv => NoSilentLoss
  <2> SUFFICES ASSUME FilterInv, fate \in {"submitted", "discarded", "passed"}
               PROVE  /\ /\ packet.version \in {4, 6} /\ packet.protocol \in {"udp", "tcp"}
                         /\ packet.port53 /\ packet.len >= 60 + 8
                         /\ ~ WholeDns(packet)
                         => bumped # {}
                      /\ WholeDns(packet) => bumped = {}
    BY DEF NoSilentLoss
  <2> USE DEF FilterInv, FilterTypeOK, Fated
  <2>1. WholeDns(packet) <=>
          Check(packet) = "capture" /\ PayloadLoads(packet) /\ ReaderAccepts(packet)
    BY WholeIffParsed
  <2>2. CASE fate = "passed"
    BY <2>1, <2>2, NeverIgnored
  <2>3. CASE fate = "discarded"
    BY <2>1, <2>3
  <2>4. CASE fate = "submitted"
    <3>1. ReaderAccepts(packet) <=> ~ (MessageLen(packet) > CaptureMax)
      <4>1. packet.ulen \in Nat /\ packet.ulen >= 8 /\ CaptureMax \in Nat
        BY <2>4, Captures, Fields, FilterAssumption
      <4> QED  BY <4>1 DEF ReaderAccepts, CapturedLen, MessageLen
    <3> QED  BY <2>1, <2>4, <3>1
  <2> QED  BY <2>2, <2>3, <2>4
<1> QED  BY <1>1, FilterInductive, PTL

(* The copy fits the payload array and the verifier's check rejects        *)
(* nothing (netmon.bpf.c:183-187).                                         *)
THEOREM FilterCaptureFits == FilterSpec => []CaptureFits
<1>1. FilterInv => CaptureFits
  <2> SUFFICES ASSUME FilterInv, fate \in {"reserved", "submitted", "discarded"}
               PROVE  CapturedLen(packet) \in DnsMin..CaptureMax
    BY DEF CaptureFits
  <2>1. packet \in Packet /\ Check(packet) = "capture"
    BY DEF FilterInv, FilterTypeOK, Fated
  <2>2. packet.ulen \in Nat /\ packet.ulen >= 8 /\ packet.ulen - 8 >= DnsMin
    BY <2>1, Captures, Fields
  <2> QED  BY <2>2, FilterAssumption DEF CapturedLen, MessageLen
<1> QED  BY <1>1, FilterInductive, PTL

=============================================================================
