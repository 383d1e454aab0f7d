# A TLA+ model of isolated_agent's monitoring

`isolated_agent` runs coding agents in containers and watches them. This
directory models the launcher and the part that watches: `netmon` (kernel programs
and Go reader) with the scripts that start and stop it, and the dashboard (event
server and browser page).
Paths below are relative to the repository root.

## 1. Inventory

| Component | State | Operations | What makes it correct |
|---|---|---|---|
| Kernel programs `src/netmon-go/bpf` | 8 MiB BPF ring, per-CPU counters | `connect4/6`, `sendmsg4/6`, `cgroup_ingress/egress` -> `emit_connect`, `dns_packet`, `count` | every reserved record is submitted or discarded once; loss is counted; whole DNS messages get through |
| Reader `src/netmon-go/cmd/netmon/main.go` | `lastMaintenance`, signal channel, cache | `poll`, `handleEvent`, `printConnection`, maintenance, `printCounters` | each connection printed once, in order, with the names that were live; a signal is heard on a busy ring, too, and ends it |
| DNS cache `internal/dnscache/cache.go` | slice of entries (address, up to 8 names with expiry, touched) | `Find`, `Put`, `Prune` | limits, no duplicates, latest answer wins, forgets no more than it must |
| DNS parser `internal/dnscache/dns.go` | none | `ParseResponse`, `insertCNAMEs` | the cache holds what the answers said, aliases included |
| Event server `src/visualization/server.js` | `events`, `clients` | GET, POST, DELETE `/api/events`, stream, `broadcast`, `parseLine` | buffer limit; subscribers get no gap and no overlap |
| Page `src/visualization/public/app.js` | `state`, caches by revision, pending frame | start-up, stream listeners, pause, filters, `render`, selections and layout | shows what the server has; pausing freezes it |
| `src/bpf_log.sh` | cgroup and namespace looked up by name, two children | look-ups, start, `wait -n`, traps, cleanup | ending one monitor ends the other, none outlives the script; a live container is watched with its own namespace |
| `src/bpf_vis.sh` | server, pipeline of `bpf_log.sh` and posting loop | start, post line by line, `wait -n`, cleanup | events reach the server once and in order; nothing is left |
| `agents/run.sh` | a container and an image per agent name | `docker rm` (which may fail), `build`, `run` | a session that none overtakes gets its container and version |
| `src/audit.bt` | none | probes print EXEC, RO, RW lines | - |

Interaction. Container processes and packets trigger kernel programs, on any
CPU, in task or softirq context; these write records to the ring. The reader, one
goroutine, consumes the ring in reservation order, puts DNS answers in the cache,
and prints a line per connection. `bpf_log.sh` merges those lines with the audit's,
`bpf_vis.sh` posts each to the server, the server broadcasts to the pages.

Hard behaviours: programs interleaving with each other (stamps out of ring order,
lost counter updates, busy records in front of ready ones); a reader slower than
the ring; timestamps of events against the reader's clock; limits (ring, capture
size, cache entries, names, event buffers); start-up and reconnection of a page
racing with posts; pausing; signals to the shells between any two commands, monitors and
servers that end or cannot be signalled; containers replaced between two look-ups by name. `PROJECT.json` lists them as hazards, each with its line.

## 2. Modules

    Compaction      keeping some positions of a slice, in order (Prune's loops)
    NameTable       abstract: the set of facts a name cache may hold
    DnsCache        Find, Put, Prune; implements NameTable
      DnsResponse   ParseResponse as a sequence of Puts; implements DnsCache
        DnsMemory   history of what a reader of the messages would believe
    PacketFilter    the checks of dns_packet, as functions of a packet
      DnsPacket     one packet through them
      Capture       concurrent programs, ring, counters
    Netmon          Capture + DnsResponse + the reader loop
    NetmonRun       the process around the loop: start-up, attachments, the end
      AgentRun      sessions of run.sh, their containers and cgroups
        BpfLog      bpf_log.sh: look-ups, both monitors, traps, cleanup
    BpfVis          bpf_vis.sh: server, pipe, posting loop, cleanup
    LiveView        server, streams and pages
    DiverseEvents   which events a page draws
      AccessRollup  where the graph draws their files
    DnsCacheProofs      proofs about Compaction, DnsCache, DnsResponse, DnsMemory
    NetmonProofs        about Capture, Netmon, DnsPacket
      NetmonNameProofs  about the names Netmon prints
    BpfLogProofs        about NetmonRun, AgentRun, BpfLog
    BpfVisProofs, LiveViewProofs
    AccessRollupProofs  about DiverseEvents and AccessRollup
    FoldProofs          induction in first-order form, sums and folds
    MCDnsCache, MCDnsResponse, MCDnsPacket, MCNetmon, MCAccessRollup    instances for TLC

A definition called "Mutant of X" in a comment is a plausible slip in X; it is used
only to confirm that the properties notice it.

### How state and steps correspond

* **DnsCache.** `entries` is the slice. A `Key` is the triple (container, family,
  address); `Find` returns an index, 0 for nil. `Put` is `Claim` (find, append
  or reuse the victim with the oldest `TouchedNS`, lines 62-84) followed by `Remember`
  (refresh, append, or shift out the oldest, lines 91-102). Hosts are names up to letter
  case (`Fold`). `EmptyName` and `LongName` are the names `Put` refuses, `NoAddress` is an
  address of the wrong size. Expiry is the sum in nanoseconds: with a 32-bit TTL
  it cannot overflow 64 bits in any uptime, so times are naturals.
* **DnsResponse.** `todo` holds the positions of the Puts still to be made, in loop
  order; `message` and `stamp` are what the handler holds meanwhile. The decoder
  (miekg/dns) is external: a message is well-formed or not, a response or not, and a
  sequence of address, CNAME and other records. `strings.EqualFold` in the
  cache and `equalFoldClean` in the parser agree on DNS names, because the decoder
  escapes bytes outside ASCII: both are `Fold`.
* **DnsMemory.** No code of its own: beside the parser, `believed` collects the last word of
  the messages on each address and host, and `subjects` all they ever told of. What a message says is
  read off its records (`Tells`, `Lasts`), independently of `PutPositions` and `PutTTL`. A message is
  believed as a whole when its parsing begins; Puts make the cache catch up.
* **PacketFilter / DnsPacket.** A packet is its length and the header fields the
  checks read. The two length decisions, kernel (`CapturedLen`) and reader
  (`ReaderAccepts`), are separate functions.
* **Capture.** A context runs one program at a time: `Start` (all checks up to the
  first effect), `Load`/`Store` (one `count()`), `Reserve`, `Stamp`,
  `Commit`. A ring record is busy, ready or discarded; the capacity counts
  records. `log` and `calls` are history. The kernel's ring and clock are external.
* **Netmon.** `rpc` is where `poll` stands; one action per branch: `Select`
  (signals), `SkipDiscarded`, `PrintConnection`, `HandleDns`, `Parse`,
  `Deadline`, `ReadError`, `Maintain`, then `PrintCounters` and `Detach` in
  the order of `run`'s last lines and its deferred closes. `Deadline` needs an empty ring: the library's `Read`
  waits for a busy first record beyond its deadline. `out`, `maintained` and `late` (records handled
  with a signal waiting) are history.
* **NetmonRun.** `rpc` is the statement of `run` next to be executed. `tree` gives
  the inode at each path of the hierarchy; containers remove and create directories at any time,
  with inodes never used before (kernel cgroup ids are not reused). `links` records to which cgroup each
  program was attached, namely the one then at the path. `defers` counts the deferred
  calls, whose order in the code is fixed: 1 objects, 2 links, 3 reader, 4 signals; `Unwind` runs
  one. A signal before `signal.Notify` or after `signal.Stop` kills the process. `wanted` is
  `--cgroup-id`: `Start` gives it the inode that `bpf_log.sh` found.
* **AgentRun.** `spc[s]` is the docker command a session comes to; `box` is the one container
  that can have the agent's name, `image` whose version the tag names. Starting a container
  creates its cgroup (an inode of NetmonRun's `tree`) and its mount namespace, for which the
  same number stands; ending removes it. `docker rm -f ... || true` may fail and leave the container its
  name. `rival[s]` (overtaken) and `failed[s]` (that removal failed) are history.
* **BpfLog.** `lpc` is the command the script comes to. The cgroup is taken from the container's
  mount (`StatCgroup`) or, where that is no cgroup2 mount, by the path in `/proc/PID/cgroup`, read by one command and
  looked up on the host by another (`StatPath`, lines 46-52), between which the directory may go or be
  replaced; in both, `Seen` lets a container show the host's root for its own, as the comment at lines 27-30 says
  of `0::/`. A monitor is started and noted in
  `children` by two commands, and a trapped signal is taken between any two, or in `wait`.
  cleanup resets the traps first, so a second signal ends the shell. `Privileged` says whether
  the shell may signal what `sudo` runs. `interrupted` is history.
* **BpfVis.** In bash `$!` is the last process of a pipeline: `kill` reaches the loop alone,
  but `wait` and `wait -n` with that pid wait for the pipeline as a whole (confirmed
  with bash 5.2). `bpf_log.sh` with its monitors is one producer; it ends at the write
  after its reader has gone. A killed loop's curl may still deliver its line.
* **DiverseEvents, AccessRollup.** One action per iteration of each loop. `current` and
  `target` are the maps `currentByOriginal` and `targetByFile`. "/" goes up to ".", while top-level
  directories never go up to "/"; so the limit of 12 cannot always be kept and the loop gives up.
* **LiveView.** Handlers are atomic up to their await, as JavaScript runs them.
  `stream[s]` is the frames under way; `Drop` loses them. A page's two caches
  keyed by `eventsRevision` (types and process identities) behave alike and are one:
  `cached` with `cachedRevision`. Filters select for display only, so `shown` is the
  whole event list. The trim after the events handler's branches (app.js:94) is done for a
  paused page, too; it never finds anything to drop there, which `CachesCurrent` needs because no
  new revision is noted. A failing first fetch (the page then stays blank) is left out.

## 3. Runs

| Run | Checks | Bounds and why |
|---|---|---|
| `cache` | `CacheInv` (limits, duplicates, hollow entries), `ImplementsTable` | 3 addresses for 2 slots, 3 hosts (4 spellings) for 2 places, TTL 0 and 1 with grace 2, times 0..1 in any order: eviction, shifting, refreshing and expiry all combine; the state space is complete, not cut |
| `response` | `RemembersAnswers` | two messages, each any sequence of at most 3 of 11 records (chain of two CNAMEs, two spellings, unusable names, one CNAME beyond the limit), room for both addresses and two of three hosts (both fitting and overflowing runs occur), prunes at any time in between |
| `packet` | `WholeMessagesParsed`, `NoSilentLoss` | the real constants 12 and 1232; each length on both sides of each comparison |
| `names` | `ExactNames`, `NoStaleName`, `PrintedOnce`, `ImplementsParser` | two contexts, three invocations, answers for two addresses competing for one slot, clock 0..3, maintenance every 2: stamps swap, names expire, are refreshed and evicted |
| `live` | `BusyIsOwned`, `CountersTrusted`, `CountsAll`, `EventuallyPrinted`, `SignalHeard`, `SignalStops` | all ways through the programs, three contexts on two CPUs (so two share one), two invocations, ring of 1 (reservations fail), signals, read errors and a vanishing cgroup; a second record can be ready when a signal waits, which is all `SignalHeard` needs |
| `watch` | netmon's `NothingLeft`, `FullyAttached`, `CheckIsSound`; the shell's `NoneOutlives`, `MixedIsGone`, `EndTogether`, `ShellSignalEnds`, `GoneEnds`; the sessions' `Undisturbed` | two sessions, the root and one container directory, inodes for two containers: one ends, is removed or restarted and another takes its name, between any two commands, or keeps it because `docker rm` failed; both ways to the cgroup; two programs, so that one attachment can fail after another |
| `vis` | `PostsInOrder`, `NothingOutlives`, `WaitsOnlyForLog`, `LogEndsAll` | four lines of three kinds through a pipe for two: it fills, empties and is cut at every place |
| `graph` | `Diverse`, `DrawnInPlace`, `Bounded`, `DetailMaximal`, `Drawn` | every sequence of at most 5 accesses to 7 files of depth 1 to 3 and a relative one, every limit of events up to 5, 3 targets: rolling up twice, giving up, and promotions refused all occur |
| `view` | `FollowsServer`, `CachesCurrent`, `DrawnOrDue`, `UpdatesLive` | server keeps 3, page 2 events; 4 posts in batches of up to 2, a clear, 2 lost connections, 3 clicks |
| `late` | `ConnectionNamed` is **violated** | one context, two invocations |
| `log_stop` | `EndTogether` is **violated** without `Privileged` | one session |
| `view_paused` | `PausedFrozen` is **violated** | one lost connection |

Sessions do not act on each other except through the server, so one session
suffices in the LiveView runs. Deadlock is
looked for wherever the system never stops (`cache`, `response`, `names`); in the
others it may: the packet or the graph is dealt with, processes and scripts exit, or the bounded users are
done.

### What they show

* Names on a line are exactly those of the preceding answers in the ring that were
  live at the connection's timestamp, minus those an earlier prune with a later time
  removed (`ExactNames`). That exception is real, see `late`.
* Counters can lose updates when a program interrupts another's `count()` on one CPU,
  but a zero is to be trusted and no counter overstates (`CountersTrusted`); one that no two
  programs of a CPU bumped at the same time is exact (`CountsAll`).
* Programs are attached by path after the inode was checked, so a replaced container can be
  watched by mistake; but inodes do not come back, so the check 30 s later is sound
  (`CheckIsSound`) and ends such a netmon and the whole watch (`GoneEnds`). In between its lines are printed:
  `event.cgroup_id` is not compared.
* A zero-TTL answer is kept longer (5 s) than one with TTL 1 to 4; an alias is learnt
  through one CNAME only, not along a chain. `RemembersAnswers` has both as the code has them.
* With the right to signal its monitors, `bpf_log.sh` passes the end of either on to the other
  and ends (`EndTogether`), also when the container is gone or was replaced (`GoneEnds`). The two
  look-ups may meet two containers, but never a live one with the namespace of another
  (`MixedIsGone`), by the mount or by the fallback's path. Excepted is a container that shows the host's
  root for its own: the root is then watched, and as it never goes, `GoneEnds` does not apply. Without a
  signal the script leaves no monitor and no attachment; a signal between the start of a monitor and its
  noting leaves that one behind, never both, unless a second one cuts cleanup short (`NoneOutlives`).
* `bpf_vis.sh` loses at most the line in hand when its loop ends, and that ends the
  posting (`PostsInOrder`). Its cleanup may wait for `bpf_log.sh`, which it never signals, until that
  prints its next line; it waits for nothing else (`WaitsOnlyForLog`).
  Without a signal it leaves no process; with one it leaves the server or the pipeline, if it was just
  started and not noted, never both (`NothingOutlives`).
* Two sessions of one agent do disturb each other: the name can be taken or the
  tag moved between `rm` and `run`. `Undisturbed` says that this is the only way, save a `docker rm -f`
  that fails (run.sh:13), after which `docker run` finds the name taken.
* Signals are looked for between two records, so one that waits lets at most one more through, however busy the
  ring is (`SignalHeard`); `SignalStops` adds that netmon then ends. A message begun is parsed to its
  end before the cache is used otherwise (`ImplementsParser`).
* A page that follows the server holds no event twice, ends with the server's buffer or is the end of
  it, and is empty when the buffer is (`FollowsServer`).
* **Finding (`log_stop`).** Run by an ordinary user, `kill` in cleanup is not permitted on what
  `sudo` runs (bpf_log.sh:82, 115, 118), `|| true` hides it, and the script waits for a monitor that
  nobody stops, having said "stopping the other monitor" (bpf_log.sh:127, 129). The repository's own
  integration test uses `sudo kill` (src/netmon-go/tests/integration.sh:7).
* **Finding (`late`).** `poll` prunes at the reader's clock (main.go:220), the rest
  of the program by event time. A lagging reader loses a live name just before printing
  its connection; cache.go:87-88 says the cache correlates an answer "with the
  connection that immediately follows it".
* **Finding (`view_paused`).** The stream's snapshot replaces the view of a
  paused page (app.js:81-86) when it reconnects; the button says "Pause live updates".
  On resume the queue repeats what the snapshot brought; `FollowsServer` excepts
  exactly those sessions (`spoiled`).
* `loadSnapshot` changes events without a new revision (app.js:71-75): if a filter was used
  before it returned, type list and process identities are stale until the stream's
  first snapshot. `CachesCurrent` therefore speaks of pages with a revision above 0 and does not
  cover that case.

### Fairness

`NetmonFair`: weak fairness of each running program (the kernel finishes a BPF
program once started) and of the reader (a runnable goroutine is scheduled). No fairness
for invocations, the clock, signals, read errors or the cgroup. `ViewFair`: weak fairness of
answering requests, delivering frames, reconnecting and animation frames; none
for posts, clicks, clears or lost connections. `WatchFair`: weak fairness of the shell, of netmon
(its maintenance check comes due because the clock advances and every read has a
deadline), and of bpftrace once it has a SIGTERM; none for containers, sessions, failures or signals. `VisFair`: the shell, the loop with its
curl, and the server; none for the producer, so a monitor may stay silent for ever.
`GraphFair`: the function runs to its end. All are per action instance
that stays enabled until taken, so strong fairness is not needed.

## 4. Proofs

For every value of the constants, under the modules' `ASSUME`s: positive capacity, name limit
and grace period, positive buffer sizes, naturals for times, lifetimes and bounds, distinct special
names, messages made of records, paths made of names, a capture no smaller than a DNS header (12 and 1232
in the code), finitely many CPUs, and a detail target no larger than the target limit (8 and 12 in
app.js:16-17). Every invariant below was checked by TLC before it was proved.

**The cache** (`DnsCacheProofs`)

* `CacheSafe`: `CacheSpec` keeps `CacheTypeOK`, `WithinLimits`, `OneEntryPerKey`,
  `OneNamePerHost` and `NoHollowEntry`. The five together are the inductive invariant
  `CacheInv` (none is inductive alone: reusing a slot keeps keys distinct only because
  `Find` has just failed, shifting keeps hosts distinct only because no refresh matched,
  both need the types). It is restated as `GoodCache` of a slice, so that lemmas speak of
  `Put` and `Prune` as functions: `PutKeepsGood` follows `Claim` and `Remember`,
  `PruneKeepsGood` follows the compaction, whose result has the kept elements, all of them
  and in order (`CompactKeeps`, from properties of ranks).
* `CacheImplementsTable`: `CacheSpec => Table!TableSpec` under the mapping
  `known <- Facts(entries)`. `PutLearns` shows a Put is one `Learn` (or a stutter when it
  refuses its arguments), `PruneExpires` a Prune is one `Expire`.
* `ResponseUsesCache`: `ResponseSpec => CacheSpec`, the link by which the cache's results hold of
  the parser, with the invariant `Parsing`: Puts
  outstanding belong to the message held. `ResponseCacheSafe` and `ResponseTypeCorrect`
  follow from it.
* `MemoryRemembers`: `MemorySpec => []RemembersAnswers`, for any messages, times and limits. The
  property speaks of the time between messages; the inductive invariant `MemoryInv` also says what the
  cache knows half way through one. Each fact in it is the last word of the Puts already made, or else
  none of these is about its subject and it is believed or yet to be overruled (`Sourced`); if all
  subjects fit, all last words of the Puts made and all beliefs the message leaves alone are there
  (`AllKnown`); what the message says last is believed (`Honours`); and there is one belief per subject
  (`Consistent`). `TellsIsSays` shows that the parser, with its CNAME table, its limit and its
  smaller lifetime, Puts what the records tell, in their order; `NextHasRoom` that a Put evicts and shifts
  nothing out while the subjects fit, by counting them. The history variables restrict nothing
  (`MemoryParses`).

**netmon** (`NetmonProofs`, `NetmonNameProofs`), for any number of programs, CPUs, records, messages and
reader steps

* `FilterParsesWhole`, `FilterLosesNothing`, `FilterCaptureFits`, `FilterTypeCorrect`: any
  sizes, any packets. The invariant `Fated` ties the fate and
  the counters of a packet to the filter's functions; what remains is arithmetic about these
  (`WholeIffParsed`).
* `NetmonBusyIsOwned`, from `CaptureInv`: a program between reserve and submit has its record in
  the ring, busy and its own, and the history `log` and the ring tell of the same submitted records. The
  reader only ever takes a first record that is not busy.
* `NetmonCountersTrusted`, `NetmonCountsAll`, from `CountInv`: there is a tally of completed
  `count()` calls by CPU (`Tally`) that adds up with those under way to `calls`, that no
  counter exceeds, and that is positive only where the counter is; and for a counter not `raced`
  it is the counter, with at most one program of a CPU counting at a time. The tally is existentially
  quantified: no history variable by CPU is needed in the model. Sums over CPUs are handled by
  `FoldProofs`, which derives the recursion of the community modules' folds.
* `NetmonImplementsParser`: `NetmonSpec => ResponseSpec` (`ImplementsParser`), since the reader is in
  `ParseResponse` exactly while Puts are outstanding (`ReadInv`); with `ResponseUsesCache`, hence
  `NetmonCacheSafe` and `NetmonImplementsTable`, a chain of
  three refinements. `NetmonTypeCorrect` is the type invariant of all parts.
* `NetmonSignalHeard`, from `HeardInv`: once a record has been handled with a signal waiting, the reader
  does not come to another read.
* `NetmonPrintedOnce`, from `PrintInv`: the lines printed are the submitted connections behind
  the consumer position, in order.
* `NetmonNoStaleName`, from `NameInv`: every fact in the cache is the last word of the ring on
  its address and host, by a Put of the message being parsed or by an earlier record, and no prune so far
  had its expiry (`SourceInv`); Puts are made in order, and the message held is the last record
  consumed (`ParseInv`). With `--no-dns` no packet is ever in the ring (`QuietInv`).
* `NetmonExactNames` adds the converse, `KnownInv`: as long as what the ring has told fits the
  cache, each last word that no prune had is in the cache. It needs that a Put then
  never evicts or shifts out, by counting addresses and hosts.

**The scripts** (`BpfLogProofs`, `BpfVisProofs`)

* `RunLeavesNothing`, `RunFullyAttached`, `RunCheckIsSound`, `RunTypeCorrect` from the inductive
  invariant `RunInv`: what is held is what calls are deferred for (`Deferred`, except the links
  during the attach loop), how many are deferred at each statement (`Staged`), the wanted
  inode is below the next fresh one (`Unrepeated`, hence it never returns to a path), and
  programs are attached in order, once each (`Numbered`).
* `WatchRunsNetmon`: `WatchSpec => RunSpec`, so netmon under the scripts is the process above and
  `WatchNetmonSafe` follows. `WatchTypeCorrect`, `WatchNoneOutlives`, `WatchMixedIsGone` and
  `SessionsUndisturbed` come from `WatchInv`: `RunInv`; inodes are at one path each and new ones are
  larger (`Inodes`); a session not overtaken finds the name free, unless its `docker rm` failed, and its
  image (`Alone`); a live inode that was looked up is that of the container now holding the name
  (`Known`), also one found by the fallback's path (`Found`), which is why two different ones cannot both
  be alive; and what runs is noted or about to be, unless a signal came (`Noted`). Any number of sessions,
  directories and programs, with and without `Privileged`.
* `VisPostsInOrder`, `VisNothingOutlives`, `VisTypeCorrect` from `VisInv`: how far the server is behind
  the loop in each state of the curl (`Behind`), no loop before the pipeline is started
  (`Early`), line numbers going up (`Up`), and what runs noted or about to be (`Noted`). Any number of lines and any pipe.

**The dashboard** (`LiveViewProofs`, `AccessRollupProofs`)

* `ViewFollowsServer`, `ViewCachesCurrent`, `ViewDrawnOrDue`, `ViewTypeCorrect` from `ViewInv`, for any
  number of pages and any buffer sizes: each page is in order by itself (`PageOK`: its caches belong to the
  events of their revision, it shows its events or has a frame pending, it queues only while paused),
  each stream starts with the snapshot still owed (`StreamOK`), and what the page will hold
  covers the buffer (`FollowOK`): it agrees with it from the end, rises, and is empty if it is. That a post
  keeps it rising follows from the buffer alone, with whose last event a view that is not empty ends (`PostRises`). `FollowsServer` is not inductive: a spoiled page stops being
  spoiled when a frame is applied, so the invariant already speaks of spoiled pages with a frame
  on their stream that replaces everything. `FoldLeft` over the frames is dealt with through its trace of
  intermediate values (`Trace`, `After`).
* `GraphDiverse`, `GraphDiverseTypeCorrect` from `DiverseInv`: during the first scan the positions kept are
  those not yet passed and the newest examples, the second works on newest examples alone and only if
  these exceed the limit (`KeepInv`); a relationship's count is the number of its positions kept.
* `GraphDrawnInPlace`, `GraphBounded`, `GraphDetailMaximal` from `GraphInv`: where directories
  have moved up to (`DirectoryInv`), and which files have been considered and which of them show
  themselves (`TargetInv`). `DetailMaximal` rests on `PromotionGrows`: showing one more
  file does not reduce what showing another one costs, so that a promotion once refused stays so.

The type invariants of `DnsResponse`, `DnsPacket`, `BpfLog` and `BpfVis`, and `CaptureFits`, are proved
and not repeated in the runs.

Every invariant and action property of the runs is proved. Only model-checked: liveness
(`EventuallyPrinted`, `SignalStops`, `EndTogether`, `ShellSignalEnds`, `GoneEnds`, `WaitsOnlyForLog`,
`LogEndsAll`, `Drawn`, `UpdatesLive`), temporal reasoning under fairness being outside the prover.

## 5. Not modelled

* D3 layout, labels, SVG and table drawing (presentation); process identities of a page
  (an input of the graph's selections); the text processing of `parseLine`, of which only the verdict
  on a line matters here; static files; keepalives.
* `audit.bt`: stateless probes, a filter and a `printf` each.
* Dockerfiles, Nix and Makefiles. `vmlinux.h` (149,424 of the C lines) is a generated dump of kernel
  types without a statement in it, and the bindings are generated, too. The rest of the C code is
  `netmon.bpf.c` and `netmon.h`, of which all but includes, licence, section names and blank lines is
  modelled.
* In the scripts: another program that holds port 3000; reuse of process ids; how
  `sudo` relays signals (a signal reaches the monitor or does not); version look-ups, mounts and the
  initial `.claude.json` of `run.sh`. A terminal's SIGINT to a whole group is independent
  signals to its members; background processes of a script ignore it, so that `LoopEnds` at a SIGINT
  only adds behaviours (a SIGTERM or an error can end the loop as well). netmon's exit status, which only
  words a message of `bpf_log.sh`.
* pid, uid, comm, ports and wall time of a line do not influence control. An IPv4-mapped
  IPv6 connect has an address of its own and never matches an A answer: in the model it is
  another `Key`.

## 6. Plan

Done: the modules and proofs above. Next:

* `ProcessIdentity`: the page's resolution of pids to process identities, against a
  reference definition; the fields `parseLine` takes from a line.
