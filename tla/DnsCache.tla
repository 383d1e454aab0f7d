------------------------------ MODULE DnsCache ------------------------------
(***************************************************************************)
(* The address-to-hostname cache of netmon (internal/dnscache/cache.go):   *)
(* a slice of at most Capacity entries, one per address, each with at most *)
(* MaxNames names in order of first arrival.  A Key stands for the triple  *)
(* (container id, family, address).  Times are kernel timestamps of the    *)
(* events being handled, which need not grow from one call to the next.    *)
(***************************************************************************)
EXTENDS Naturals, Sequences, FiniteSets, FiniteSetsExt, Compaction

CONSTANTS
  Key,          \* addresses that Put accepts
  NoAddress,    \* an address record without address bytes
  Name,         \* host names as spelled, 1 to MaxHostname characters
  EmptyName,    \* the root name, "" once cleanName has cut its dot
  LongName,     \* a name of more than MaxHostname characters
  Fold,         \* the letter-case class of a name
  Capacity,     \* --dns-cache-max
  MaxNames,     \* names per entry
  Grace,        \* zeroTTLGracePeriod
  TTL,          \* record lifetimes, in clock units
  Time          \* timestamps

Hostname == Name \cup {EmptyName, LongName}

ASSUME CacheAssumption ==
  /\ Capacity \in Nat \ {0}
  /\ MaxNames \in Nat \ {0}
  /\ Grace \in Nat \ {0}
  /\ TTL \subseteq Nat
  /\ Time \subseteq Nat
  /\ Fold \in [Hostname -> Hostname]
  /\ NoAddress \notin Key
  /\ EmptyName \notin Name
  /\ LongName \notin Name

VARIABLE entries

(* Find scans the entries in order; 0 stands for nil.                      *)
Find(es, k) ==
  LET I == {i \in DOMAIN es : es[i].key = k}
  IN  IF I = {} THEN 0 ELSE Min(I)

(* The first entry with the oldest TouchedNS.                              *)
Victim(es) ==
  Min({i \in DOMAIN es : \A j \in DOMAIN es : es[i].touched <= es[j].touched})

(* A zero TTL is given the grace period instead.                           *)
Lifetime(ttl) == IF ttl = 0 THEN Grace ELSE ttl

(* Mutants of Claim: the entry is not looked for; the victim's names stay. *)
ClaimBlindly(es, k, now) ==
  LET fresh == [key |-> k, names |-> << >>, touched |-> now]
  IN  IF Len(es) >= Capacity THEN [es EXCEPT ![Victim(es)] = fresh]
      ELSE Append(es, fresh)

ClaimUncleared(es, k, now) ==
  LET fresh == [key |-> k, names |-> << >>, touched |-> now]
  IN  IF Find(es, k) # 0 THEN [es EXCEPT ![Find(es, k)].touched = now]
      ELSE IF Len(es) >= Capacity
           THEN [es EXCEPT ![Victim(es)] = [fresh EXCEPT !.names = es[Victim(es)].names]]
      ELSE Append(es, fresh)

(* The entry for k is found, or takes a free slot, or the victim's.        *)
Claim(es, k, now) ==
  LET fresh == [key |-> k, names |-> << >>, touched |-> now]
  IN  IF Find(es, k) # 0 THEN [es EXCEPT ![Find(es, k)].touched = now]
      ELSE IF Len(es) >= Capacity THEN [es EXCEPT ![Victim(es)] = fresh]
      ELSE Append(es, fresh)

(* A known name keeps its place and spelling and gets the new expiry; a    *)
(* new one is appended, the first one making room when the list is full.   *)
Remember(ns, n, e) ==
  LET same == {i \in DOMAIN ns : Fold[ns[i].value] = Fold[n]}
      new  == [value |-> n, expires |-> e]
  IN  IF same # {} THEN [ns EXCEPT ![Min(same)].expires = e]
      ELSE IF Len(ns) < MaxNames THEN Append(ns, new)
      ELSE Append(Tail(ns), new)

(* An unusable name or address is ignored.                                 *)
Put(es, k, n, ttl, now) ==
  LET claimed == Claim(es, k, now)
  IN  IF n \notin Name \/ k \notin Key THEN es
      ELSE [claimed EXCEPT ![Find(claimed, k)].names =
              Remember(@, n, now + Lifetime(ttl))]

(* Mutant of Live: a name is kept through its last instant.                *)
LiveThrough(ns, now) == Compact(ns, {i \in DOMAIN ns : ns[i].expires >= now})

(* Names still believed after now.                                         *)
Live(ns, now) == Compact(ns, {i \in DOMAIN ns : ns[i].expires > now})

(* Expired names go, then the entries left without a name.                 *)
Prune(es, now) ==
  LET pruned == [i \in DOMAIN es |-> [es[i] EXCEPT !.names = Live(@, now)]]
  IN  Compact(pruned, {i \in DOMAIN es : pruned[i].names # << >>})

-----------------------------------------------------------------------------

CacheInit == entries = << >>

CachePut ==
  \E k \in Key \cup {NoAddress}, n \in Hostname, ttl \in TTL, now \in Time :
    entries' = Put(entries, k, n, ttl, now)

CachePrune == \E now \in Time : entries' = Prune(entries, now)

CacheNext == CachePut \/ CachePrune

CacheSpec == CacheInit /\ [][CacheNext]_entries

-----------------------------------------------------------------------------

NameRecord == [value : Name, expires : Nat]
Entry == [key : Key, names : Seq(NameRecord), touched : Nat]

(* The cache is a slice of well-formed entries (cache.go:15-31).           *)
CacheTypeOK == entries \in Seq(Entry)

(* Neither slice outgrows its limit: Put evicts or shifts before it adds   *)
(* (cache.go:64 and 97), and Prune only compacts.                          *)
WithinLimits ==
  /\ Len(entries) <= Capacity
  /\ \A i \in DOMAIN entries : Len(entries[i].names) <= MaxNames

(* No address has two entries, whatever Put evicts and Prune moves: the    *)
(* linear scan of Find (cache.go:46) then sees all that is known of it.    *)
OneEntryPerKey ==
  \A i, j \in DOMAIN entries : entries[i].key = entries[j].key => i = j

(* No entry lists a host twice under two spellings (cache.go:92).          *)
OneNamePerHost ==
  \A e \in DOMAIN entries : LET ns == entries[e].names IN
    \A i, j \in DOMAIN ns : Fold[ns[i].value] = Fold[ns[j].value] => i = j

(* An entry always has a name: a slot claimed by Put is filled by the same *)
(* call, and Prune drops what it empties (cache.go:116), so a hit of Find  *)
(* never prints an empty hostname list.                                    *)
NoHollowEntry == \A i \in DOMAIN entries : entries[i].names # << >>

(* Whatever is put in whatever order, with timestamps that go back, the    *)
(* slices of the cache (cache.go:41-121) keep to their limits, with one    *)
(* entry per address, one name per host, and no entry without a name.      *)
(* Only together are these inductive: what Put returns is within limits    *)
(* and without duplicates because what it found was well-formed.           *)
CacheInv ==
  /\ CacheTypeOK
  /\ WithinLimits
  /\ OneEntryPerKey
  /\ OneNamePerHost
  /\ NoHollowEntry

(* The refinement mapping: the facts the slices hold.                      *)
Facts(es) ==
  UNION {{[key |-> es[i].key, host |-> Fold[es[i].names[j].value],
           expires |-> es[i].names[j].expires] : j \in DOMAIN es[i].names}
         : i \in DOMAIN es}

Table == INSTANCE NameTable WITH
  known  <- Facts(entries),
  Host   <- {Fold[n] : n \in Name},
  Expiry <- {now + Lifetime(ttl) : now \in Time, ttl \in TTL}

(* Every call of Put and Prune is a step of the abstract table: an answer  *)
(* is believed until its own expiry and no other, at most one bystander is *)
(* forgotten for it, and pruning removes exactly the expired facts.        *)
ImplementsTable == Table!TableSpec

=============================================================================
