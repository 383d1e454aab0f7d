------------------------------- MODULE Netmon -------------------------------
(***************************************************************************)
(* netmon: the programs of Capture, and the reader (cmd/netmon/main.go)    *)
(* that polls their ring, feeds DNS responses to the cache of DnsResponse  *)
(* and prints one line per connection with the names known for it.         *)
(* The reader is one goroutine.  It may be slow (its stdout is a pipe):    *)
(* the clock and the programs run on between any two of its steps.         *)
(***************************************************************************)
EXTENDS Capture, DnsResponse

CONSTANTS
  NoDns,            \* --no-dns
  MaintainEvery,    \* the maintenance period (30 s), in clock units
  CanStop,          \* bound: signals and read errors happen
  CanVanish         \* bound: the cgroup may be removed or replaced

ASSUME NetmonAssumption ==
  /\ Destination \subseteq Key
  /\ Payload \subseteq Message
  /\ 0..MaxClock \subseteq Time
  /\ NoDns \in BOOLEAN
  /\ MaintainEvery \in Nat
  /\ CanStop \in BOOLEAN
  /\ CanVanish \in BOOLEAN

VARIABLES
  rpc,          \* what poll and run do next
  last,         \* lastMaintenance
  signal,       \* a signal waits in the channel
  intact,       \* the cgroup is the one netmon was started for
  report,       \* the counters printed at the end
  out,          \* history: the lines printed
  maintained,   \* history: position and time of the maintenance prunes
  late          \* history: records handled while a signal was waiting

readerVars == <<rpc, last, signal, intact, report, out, maintained, late>>
netmonVars == <<captureVars, responseVars, readerVars>>

NoReport == [x \in Counter |-> 0]

NetmonInit ==
  /\ CaptureInit
  /\ ResponseInit
  /\ rpc = "select"
  /\ last = 0
  /\ signal = FALSE
  /\ intact = TRUE
  /\ report = NoReport
  /\ out = << >>
  /\ maintained = {}
  /\ late = 0

(* With --no-dns the packet programs are not attached.                     *)
Program(c) ==
  /\ Run(c) \/ \E j \in Job : (NoDns => j.kind # "packet") /\ Start(c, j)
  /\ UNCHANGED <<responseVars, readerVars>>

Pass == Tick /\ UNCHANGED <<responseVars, readerVars>>

-----------------------------------------------------------------------------

(* The consumer position moves past the first record.                      *)
Consume ==
  /\ ring' = Tail(ring)
  /\ UNCHANGED <<clock, attached, starts, progVars, produced, counters, calls,
                 raced, log>>

(* A record is handled.                                                    *)
Handled == late' = IF signal THEN late + 1 ELSE late

(* Mutants of Select: signals are not looked for, or only when the ring is *)
(* empty.                                                                  *)
SelectDeaf ==
  /\ rpc = "select"
  /\ rpc' = "read"
  /\ UNCHANGED <<captureVars, responseVars, last, signal, intact, report, out,
                 maintained, late>>

SelectIdle ==
  /\ rpc = "select"
  /\ rpc' = IF signal /\ ring = << >> THEN "report" ELSE "read"
  /\ UNCHANGED <<captureVars, responseVars, last, signal, intact, report, out,
                 maintained, late>>

(* A signal ends the loop before the next read.                            *)
Select ==
  /\ rpc = "select"
  /\ rpc' = IF signal THEN "report" ELSE "read"
  /\ UNCHANGED <<captureVars, responseVars, last, signal, intact, report, out,
                 maintained, late>>

(* Read passes over discarded records by itself.                           *)
SkipDiscarded ==
  /\ rpc = "read"
  /\ ring # << >> /\ Head(ring).state = "discarded"
  /\ Consume
  /\ UNCHANGED <<responseVars, readerVars>>

(* The names of k, as printed.                                             *)
NamesOf(es, k) ==
  IF Find(es, k) = 0 THEN << >>
  ELSE [i \in DOMAIN es[Find(es, k)].names |-> es[Find(es, k)].names[i].value]

(* Mutants of PrintConnection: the names are looked up before the prune;   *)
(* the record is read before it is submitted.                              *)
PrintThenPrune ==
  LET e == Head(ring) IN
  /\ rpc = "read"
  /\ ring # << >> /\ e.state = "ready" /\ e.job.kind = "connect"
  /\ Consume
  /\ entries' = Prune(entries, e.stamp)
  /\ out' = Append(out, [at |-> Consumed + 1, key |-> e.job.key,
                         stamp |-> e.stamp,
                         names |-> NamesOf(entries, e.job.key)])
  /\ rpc' = "maintain"
  /\ Handled
  /\ UNCHANGED <<message, stamp, todo, last, signal, intact, report, maintained>>

PrintEarly ==
  LET e == Head(ring) IN
  /\ rpc = "read"
  /\ ring # << >> /\ e.job.kind = "connect"
  /\ Consume
  /\ entries' = Prune(entries, e.stamp)
  /\ out' = Append(out, [at |-> Consumed + 1, key |-> e.job.key,
                         stamp |-> e.stamp,
                         names |-> NamesOf(entries', e.job.key)])
  /\ rpc' = "maintain"
  /\ Handled
  /\ UNCHANGED <<message, stamp, todo, last, signal, intact, report, maintained>>

(* printConnection prunes at the connection's own timestamp and prints.    *)
PrintConnection ==
  LET e == Head(ring) IN
  /\ rpc = "read"
  /\ ring # << >> /\ e.state = "ready" /\ e.job.kind = "connect"
  /\ Consume
  /\ entries' = Prune(entries, e.stamp)
  /\ out' = Append(out, [at |-> Consumed + 1, key |-> e.job.key,
                         stamp |-> e.stamp,
                         names |-> NamesOf(entries', e.job.key)])
  /\ rpc' = "maintain"
  /\ Handled
  /\ UNCHANGED <<message, stamp, todo, last, signal, intact, report, maintained>>

(* A DNS event is parsed if it was captured whole, else ignored.           *)
HandleDns ==
  LET e == Head(ring) IN
  /\ rpc = "read"
  /\ ring # << >> /\ e.state = "ready" /\ e.job.kind = "packet"
  /\ Consume
  /\ IF NoDns \/ ~ ReaderAccepts(e.job.packet)
     THEN rpc' = "maintain" /\ UNCHANGED responseVars
     ELSE /\ Receive(e.job.payload, e.stamp)
          /\ rpc' = IF todo' = {} THEN "maintain" ELSE "parse"
  /\ Handled
  /\ UNCHANGED <<last, signal, intact, report, out, maintained>>

(* Mutant of Parse: the loop goes on before the message is done with.      *)
ParseYielding ==
  /\ rpc = "parse"
  /\ PutNext
  /\ rpc' = "maintain"
  /\ UNCHANGED <<captureVars, last, signal, intact, report, out, maintained, late>>

(* ParseResponse goes on.                                                  *)
Parse ==
  /\ rpc = "parse"
  /\ PutNext
  /\ rpc' = IF todo' = {} THEN "maintain" ELSE "parse"
  /\ UNCHANGED <<captureVars, last, signal, intact, report, out, maintained, late>>

(* Mutant of Deadline: it passes although a record is ready.               *)
DeadlineFirst ==
  /\ rpc = "read"
  /\ rpc' = "maintain"
  /\ UNCHANGED <<captureVars, responseVars, last, signal, intact, report, out,
                 maintained, late>>

(* Nothing in the ring within 250 ms.  (The library does not look at the   *)
(* deadline while it waits for a busy record to be committed.)             *)
Deadline ==
  /\ rpc = "read"
  /\ ring = << >>
  /\ rpc' = "maintain"
  /\ UNCHANGED <<captureVars, responseVars, last, signal, intact, report, out,
                 maintained, late>>

(* Any other error of Read ends the loop.                                  *)
ReadError ==
  /\ CanStop
  /\ rpc = "read"
  /\ rpc' = "report"
  /\ UNCHANGED <<captureVars, responseVars, last, signal, intact, report, out,
                 maintained, late>>

(* Every MaintainEvery: prune at the reader's own clock, which the events  *)
(* still in the ring have yet to reach, and check the cgroup.              *)
Maintain ==
  /\ rpc = "maintain"
  /\ IF clock - last < MaintainEvery
     THEN rpc' = "select" /\ UNCHANGED <<entries, last, maintained>>
     ELSE /\ entries' = Prune(entries, clock)
          /\ last' = clock
          /\ rpc' = IF intact THEN "select" ELSE "report"
          /\ maintained' = maintained \cup {<<Consumed, clock>>}
  /\ UNCHANGED <<captureVars, message, stamp, todo, signal, intact, report, out,
                 late>>

(* printCounters sums over the CPUs, with the programs still attached.  Its*)
(* lookups are taken together: nothing relates two counters of a report.   *)
PrintCounters ==
  /\ rpc = "report"
  /\ report' = [x \in Counter |-> Total(x)]
  /\ rpc' = "detach"
  /\ UNCHANGED <<captureVars, responseVars, last, signal, intact, out, maintained,
                 late>>

(* The deferred closes; what the ring still holds is never read.           *)
Detach ==
  /\ rpc = "detach"
  /\ attached' = FALSE
  /\ rpc' = "exit"
  /\ UNCHANGED <<clock, starts, progVars, produced, ring, counters, calls,
                 raced, log,
                 responseVars, last, signal, intact, report, out, maintained, late>>

Reader ==
  \/ Select \/ SkipDiscarded \/ PrintConnection \/ HandleDns \/ Parse
  \/ Deadline \/ Maintain \/ PrintCounters \/ Detach

-----------------------------------------------------------------------------

(* SIGINT or SIGTERM.                                                      *)
Interrupt ==
  /\ CanStop
  /\ ~ signal
  /\ signal' = TRUE
  /\ UNCHANGED <<captureVars, responseVars, rpc, last, intact, report, out,
                 maintained, late>>

(* The container goes, and another may come at its path.                   *)
Vanish ==
  /\ CanVanish
  /\ intact
  /\ intact' = FALSE
  /\ UNCHANGED <<captureVars, responseVars, rpc, last, signal, report, out,
                 maintained, late>>

NetmonNext ==
  \/ \E c \in Ctx : Program(c)
  \/ Pass
  \/ Reader
  \/ ReadError
  \/ Interrupt
  \/ Vanish

NetmonSpec == NetmonInit /\ [][NetmonNext]_netmonVars

(* A BPF program that runs is finished by the kernel, and the goroutine is *)
(* scheduled.  No call of the container, no signal and no tick need come.  *)
NetmonFair ==
  /\ NetmonSpec
  /\ \A c \in Ctx : WF_netmonVars(Run(c) /\ UNCHANGED <<responseVars, readerVars>>)
  /\ WF_netmonVars(Reader)

-----------------------------------------------------------------------------

NetmonTypeOK ==
  /\ CaptureTypeOK
  /\ ResponseTypeOK
  /\ rpc \in {"select", "read", "parse", "maintain", "report", "detach", "exit"}
  /\ last \in 0..MaxClock
  /\ signal \in BOOLEAN
  /\ intact \in BOOLEAN
  /\ report \in [Counter -> Nat]
  /\ out \in Seq([at : Nat, key : Key, stamp : 0..MaxClock, names : Seq(Name)])
  /\ maintained \subseteq Nat \X (0..MaxClock)
  /\ late \in Nat

(* What the captured messages say: host h for k at ring position "at",     *)
(* believed until "expires".  The last record of a message decides.        *)
Told ==
  UNION {LET m == r.job.payload
             say == {p \in PutPositions(m) :
                       /\ m.answer[p[1]].key \in Key
                       /\ PutName(m.answer, p) \in Name}
             key(p) == m.answer[p[1]].key
             host(p) == Fold[PutName(m.answer, p)]
         IN  {[at |-> r.at, key |-> key(p), host |-> host(p),
               expires |-> r.stamp + Lifetime(PutTTL(m.answer, p))] :
                p \in {p \in say : \A q \in say :
                         Precedes(p, q) => key(q) # key(p) \/ host(q) # host(p)}}
         : r \in {r \in log : r.job.kind = "packet" /\ ReaderAccepts(r.job.packet)}}

(* f is the last word on its address and host before position n.           *)
LastBefore(f, n) ==
  /\ f.at < n
  /\ \A g \in Told : f.at < g.at /\ g.at < n => g.key # f.key \/ g.host # f.host

(* A prune between f and position n had a time f does not live to see.     *)
PrunedBefore(f, n) ==
  \/ \E x \in maintained : f.at <= x[1] /\ x[1] < n /\ x[2] >= f.expires
  \/ \E i \in DOMAIN out : /\ f.at < out[i].at /\ out[i].at < n
                           /\ out[i].stamp >= f.expires

HostsOf(o) == {Fold[o.names[j]] : j \in DOMAIN o.names}

(* What was told before position n fits the cache.                         *)
Fits(n) ==
  LET told == {f \in Told : f.at < n} IN
  /\ Cardinality({f.key : f \in told}) <= Capacity
  /\ \A k \in Key : Cardinality({f.host : f \in {f \in told : f.key = k}}) <= MaxNames

(* While all fits the cache, a line lists exactly the hosts that the DNS   *)
(* responses before it in the ring gave its address and that were still    *)
(* live at its own timestamp, save those an earlier prune, made at a later *)
(* time, has removed.  Interleaved programs, stamps out of order, expired  *)
(* and refreshed names and truncated messages included (main.go:256-281).  *)
ExactNames ==
  \A i \in DOMAIN out : Fits(out[i].at) =>
    HostsOf(out[i]) = {f.host : f \in {f \in Told :
                          /\ f.key = out[i].key
                          /\ LastBefore(f, out[i].at)
                          /\ f.expires > out[i].stamp
                          /\ ~ PrunedBefore(f, out[i].at)}}

(* Whatever the cache had to evict, no line names a host whose latest      *)
(* answer had expired when the connection was made.                        *)
NoStaleName ==
  \A i \in DOMAIN out : \A h \in HostsOf(out[i]) :
    \E f \in Told : /\ f.key = out[i].key /\ f.host = h
                    /\ LastBefore(f, out[i].at)
                    /\ f.expires > out[i].stamp

(* Every submitted connection is printed once, in ring order, as soon as   *)
(* the reader has passed it, with its own address and timestamp.           *)
PrintedOnce ==
  /\ \A i, j \in DOMAIN out : i < j => out[i].at < out[j].at
  /\ {<<out[i].at, out[i].key, out[i].stamp>> : i \in DOMAIN out} =
       {<<r.at, r.job.key, r.stamp>> :
          r \in {r \in log : r.job.kind = "connect" /\ r.at <= Consumed}}

(* The whole program parses as DnsResponse says: a message that is begun   *)
(* has all its Puts made, in order and with its own timestamp, before the  *)
(* next is begun or the cache is pruned, whatever the ring, the clock and  *)
(* the maintenance do meanwhile (main.go:210-281, dns.go:38-50).           *)
ImplementsParser == ResponseSpec

(* The comment of cache.go:87-88: the cache "correlates an observed DNS    *)
(* answer with the connection that immediately follows it".  Observed is   *)
(* captured before it in the ring; live is unexpired at the connection.    *)
ConnectionNamed ==
  \A i \in DOMAIN out : \A f \in Told :
    (/\ f.key = out[i].key /\ f.at = out[i].at - 1
     /\ f.expires > out[i].stamp)
    => f.host \in HostsOf(out[i])

(* A submitted connection is printed, unless the reader ends first.        *)
EventuallyPrinted ==
  \A n \in 1..MaxStarts :
    (\E r \in log : r.at = n /\ r.job.kind = "connect")
      ~> (rpc = "exit" \/ \E i \in DOMAIN out : out[i].at = n)

(* However fast records come in, a reader with a signal waiting handles at *)
(* most one more of them (main.go:201-206).                                *)
SignalHeard == late <= 1

(* A signal ends netmon, also while a record at the head of the ring is    *)
(* busy.  (Only an endless sequence of discarded records, which Read skips *)
(* by itself, could keep it: main.go:201-212.)                             *)
SignalStops == signal ~> rpc = "exit"

=============================================================================
