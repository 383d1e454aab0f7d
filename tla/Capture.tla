------------------------------- MODULE Capture -------------------------------
(***************************************************************************)
(* The kernel side of netmon (bpf/netmon.bpf.c): the connect, sendmsg and  *)
(* packet programs running in concurrent contexts, the ring buffer they    *)
(* write and their per-CPU counters.  A program reserves a record, stamps  *)
(* it, and only then submits or discards it, so records are stamped out of *)
(* ring order; and count() is a load, an add and a store, between which    *)
(* another context of the same CPU may run.                                *)
(* The ring (a BPF ring buffer) is external: records are consumed in the   *)
(* order they were reserved, a busy one holds up those behind it.          *)
(***************************************************************************)
EXTENDS Naturals, Sequences, FiniteSets, FiniteSetsExt, PacketFilter

CONSTANTS
  Ctx,          \* execution contexts: tasks and softirqs
  Cpu,
  CpuOf,        \* where each context runs
  RingSize,     \* records the ring has room for
  Destination,  \* addresses of socket calls
  Payload,      \* contents of packets
  Job,          \* program invocations, see JobType
  MaxStarts,    \* bound: invocations in a behaviour
  MaxClock      \* bound: the last instant of the clock

(* A socket call, or a packet with its payload.                            *)
JobType ==
  [kind : {"connect"}, hook : {"connect", "sendmsg"},
   protocol : {"tcp", "udp", "other"}, key : Destination]
  \cup [kind : {"packet"}, packet : Packet, payload : Payload]

ASSUME CaptureAssumption ==
  /\ CpuOf \in [Ctx -> Cpu]
  /\ IsFiniteSet(Cpu)
  /\ RingSize \in Nat
  /\ MaxStarts \in Nat
  /\ MaxClock \in Nat
  /\ Job \subseteq JobType
  /\ Job # {}

VARIABLES
  clock,        \* CLOCK_MONOTONIC
  attached,     \* the programs are attached to the cgroup
  starts,       \* invocations so far
  pc,           \* what each context does next
  job,          \* its invocation
  slot,         \* the ring position of its record
  cnt,          \* the counter it is bumping
  reg,          \* the value it loaded for that
  produced,     \* records ever reserved
  ring,         \* the records not consumed yet
  counters,     \* the per-CPU counters
  calls,        \* history: calls of count(), by counter
  raced,        \* history: counters two programs of one CPU bumped at once
  log           \* history: the records submitted, with their positions

progVars == <<pc, job, slot, cnt, reg>>
captureVars == <<clock, attached, starts, progVars, produced, ring, counters,
                 calls, raced, log>>

Consumed == produced - Len(ring)

CaptureInit ==
  /\ clock = 0
  /\ attached = TRUE
  /\ starts = 0
  /\ pc = [c \in Ctx |-> "idle"]
  /\ job = [c \in Ctx |-> CHOOSE j \in Job : TRUE]
  /\ slot = [c \in Ctx |-> 0]
  /\ cnt = [c \in Ctx |-> "RINGBUF_FAIL"]
  /\ reg = [c \in Ctx |-> 0]
  /\ produced = 0
  /\ ring = << >>
  /\ counters = [u \in Cpu |-> [x \in Counter |-> 0]]
  /\ calls = [x \in Counter |-> 0]
  /\ raced = {}
  /\ log = {}

(* count(x) is entered.                                                    *)
Bump(c, x) ==
  /\ pc' = [pc EXCEPT ![c] = "load"]
  /\ cnt' = [cnt EXCEPT ![c] = x]
  /\ calls' = [calls EXCEPT ![x] = @ + 1]
  /\ raced' = IF \E d \in Ctx \ {c} : /\ CpuOf[d] = CpuOf[c] /\ cnt[d] = x
                                      /\ pc[d] \in {"load", "store"}
               THEN raced \cup {x} ELSE raced

(* connect4/6 look at TCP and UDP only, sendmsg4/6 are UDP by nature.      *)
Outcome(j) ==
  IF j.kind = "packet" THEN Check(j.packet)
  ELSE IF j.hook = "connect" /\ j.protocol = "other" THEN "ignored"
  ELSE "capture"

CutShort(j) == j.kind = "packet" /\ MessageLen(j.packet) > CaptureMax

(* A program runs on c, up to its first reservation or counter.            *)
Start(c, j) ==
  /\ attached
  /\ pc[c] = "idle"
  /\ starts < MaxStarts
  /\ starts' = starts + 1
  /\ job' = [job EXCEPT ![c] = j]
  /\ IF Outcome(j) = "ignored"
     THEN UNCHANGED <<pc, cnt, calls, raced>>
     ELSE IF Outcome(j) # "capture" THEN Bump(c, Outcome(j))
     ELSE IF CutShort(j) THEN Bump(c, "DNS_TRUNCATED")
     ELSE pc' = [pc EXCEPT ![c] = "reserve"] /\ UNCHANGED <<cnt, calls, raced>>
  /\ UNCHANGED <<clock, attached, slot, reg, produced, ring, counters, log>>

(* Mutant of Mine: one array for all CPUs.                                 *)
Shared(c) == CHOOSE u \in Cpu : TRUE

(* The counter array a context sees is its CPU's.                          *)
Mine(c) == CpuOf[c]

(* The increment of a counter, first half.                                 *)
Load(c) ==
  /\ pc[c] = "load"
  /\ reg' = [reg EXCEPT ![c] = counters[Mine(c)][cnt[c]]]
  /\ pc' = [pc EXCEPT ![c] = "store"]
  /\ UNCHANGED <<clock, attached, starts, job, slot, cnt, produced, ring,
                 counters, calls, raced, log>>

(* Mutant of Store: what was loaded is stored.                             *)
StoreLoaded(c) ==
  /\ pc[c] = "store"
  /\ counters' = [counters EXCEPT ![Mine(c)][cnt[c]] = reg[c]]
  /\ pc' = [pc EXCEPT ![c] =
              IF cnt[c] = "DNS_TRUNCATED" THEN "reserve" ELSE "idle"]
  /\ UNCHANGED <<clock, attached, starts, job, slot, cnt, reg, produced, ring,
                 calls, raced, log>>

(* Second half.  A message counted as truncated is captured all the same.  *)
Store(c) ==
  /\ pc[c] = "store"
  /\ counters' = [counters EXCEPT ![Mine(c)][cnt[c]] = reg[c] + 1]
  /\ pc' = [pc EXCEPT ![c] =
              IF cnt[c] = "DNS_TRUNCATED" THEN "reserve" ELSE "idle"]
  /\ UNCHANGED <<clock, attached, starts, job, slot, cnt, reg, produced, ring,
                 calls, raced, log>>

(* bpf_ringbuf_reserve: the next position, busy, or a counted failure.     *)
Reserve(c) ==
  /\ pc[c] = "reserve"
  /\ IF Len(ring) < RingSize
     THEN /\ ring' = Append(ring, [state |-> "busy", stamp |-> 0, job |-> job[c]])
          /\ produced' = produced + 1
          /\ slot' = [slot EXCEPT ![c] = produced + 1]
          /\ pc' = [pc EXCEPT ![c] = "stamp"]
          /\ UNCHANGED <<cnt, calls, raced>>
     ELSE Bump(c, "RINGBUF_FAIL") /\ UNCHANGED <<ring, produced, slot>>
  /\ UNCHANGED <<clock, attached, starts, job, reg, counters, log>>

(* bpf_ktime_get_ns is only read now.                                      *)
Stamp(c) ==
  /\ pc[c] = "stamp"
  /\ ring' = [ring EXCEPT ![slot[c] - Consumed].stamp = clock]
  /\ pc' = [pc EXCEPT ![c] = "commit"]
  /\ UNCHANGED <<clock, attached, starts, job, slot, cnt, reg, produced,
                 counters, calls, raced, log>>

(* Mutant of Commit: the record is not discarded when the copy fails.      *)
CommitLeaking(c) ==
  LET i    == slot[c] - Consumed
      good == job[c].kind = "packet" => PayloadLoads(job[c].packet)
  IN  /\ pc[c] = "commit"
      /\ ring' = [ring EXCEPT ![i].state = IF good THEN "ready" ELSE "busy"]
      /\ IF good
         THEN /\ pc' = [pc EXCEPT ![c] = "idle"]
              /\ log' = log \cup {[at |-> slot[c], stamp |-> ring[i].stamp,
                                   job |-> job[c]]}
              /\ UNCHANGED <<cnt, calls, raced>>
         ELSE Bump(c, "BAD_UDP") /\ UNCHANGED log
      /\ UNCHANGED <<clock, attached, starts, job, slot, reg, produced, counters>>

(* The record is filled and submitted, or discarded and counted.           *)
Commit(c) ==
  LET i    == slot[c] - Consumed
      good == job[c].kind = "packet" => PayloadLoads(job[c].packet)
  IN  /\ pc[c] = "commit"
      /\ ring' = [ring EXCEPT ![i].state = IF good THEN "ready" ELSE "discarded"]
      /\ IF good
         THEN /\ pc' = [pc EXCEPT ![c] = "idle"]
              /\ log' = log \cup {[at |-> slot[c], stamp |-> ring[i].stamp,
                                   job |-> job[c]]}
              /\ UNCHANGED <<cnt, calls, raced>>
         ELSE Bump(c, "BAD_UDP") /\ UNCHANGED log
      /\ UNCHANGED <<clock, attached, starts, job, slot, reg, produced, counters>>

Tick ==
  /\ clock < MaxClock
  /\ clock' = clock + 1
  /\ UNCHANGED <<attached, starts, progVars, produced, ring, counters,
                 calls, raced, log>>

(* What a running program does next.                                       *)
Run(c) == Load(c) \/ Store(c) \/ Reserve(c) \/ Stamp(c) \/ Commit(c)

CaptureNext ==
  \/ \E c \in Ctx : Run(c) \/ \E j \in Job : Start(c, j)
  \/ Tick

-----------------------------------------------------------------------------

RingRecord == [state : {"busy", "ready", "discarded"}, stamp : 0..MaxClock,
               job : Job]

CaptureTypeOK ==
  /\ clock \in 0..MaxClock
  /\ attached \in BOOLEAN
  /\ starts \in 0..MaxStarts
  /\ pc \in [Ctx -> {"idle", "load", "store", "reserve", "stamp", "commit"}]
  /\ job \in [Ctx -> Job]
  /\ slot \in [Ctx -> Nat]
  /\ cnt \in [Ctx -> Counter]
  /\ reg \in [Ctx -> Nat]
  /\ produced \in Nat
  /\ ring \in Seq(RingRecord)
  /\ counters \in [Cpu -> [Counter -> Nat]]
  /\ calls \in [Counter -> Nat]
  /\ raced \subseteq Counter
  /\ log \subseteq [at : Nat, stamp : 0..MaxClock, job : Job]

(* Every busy record belongs to exactly one program still going to commit  *)
(* it, and no program holds a record the reader has consumed: a record is  *)
(* neither overwritten after its submission nor left busy for ever, which  *)
(* would block the reader for good (netmon.bpf.c:33-59, 189-207).          *)
BusyIsOwned ==
  LET writing == {c \in Ctx : pc[c] \in {"stamp", "commit"}}
  IN  /\ \A c \in writing : /\ slot[c] \in (Consumed + 1)..produced
                            /\ ring[slot[c] - Consumed].state = "busy"
                            /\ ring[slot[c] - Consumed].job = job[c]
      /\ \A i \in DOMAIN ring : ring[i].state = "busy" =>
           Cardinality({c \in writing : slot[c] = Consumed + i}) = 1

(* The sum that printCounters prints.                                      *)
Total(x) == FoldSet(LAMBDA u, n : n + counters[u][x], 0, Cpu)

(* Calls of count(x) that have not stored yet.                             *)
Counting(x) == {c \in Ctx : pc[c] \in {"load", "store"} /\ cnt[c] = x}

(* Whatever is preempted where, a counter never claims more than happened, *)
(* and is not zero once something has: updates can be lost, but a zero in  *)
(* the report is to be trusted (netmon.bpf.c:24-29).                       *)
CountersTrusted ==
  \A x \in Counter :
    /\ Total(x) <= calls[x]
    /\ calls[x] > Cardinality(Counting(x)) => Total(x) > 0

(* The per-CPU arrays make that interruption the only way to lose one:     *)
(* unless two programs of one CPU bumped a counter at the same time, what  *)
(* has been called has been counted or is being counted, however many CPUs *)
(* count at once.                                                          *)
CountsAll ==
  \A x \in Counter \ raced : calls[x] = Total(x) + Cardinality(Counting(x))

=============================================================================
