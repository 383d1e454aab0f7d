---------------------------- MODULE DiverseEvents ----------------------------
(***************************************************************************)
(* Which events the dashboard draws when it has more than the user's       *)
(* window allows (diverseEvents in public/app.js).  An event is the key of *)
(* its relationship (process, kind and target: eventRelationshipKey).  A   *)
(* first scan drops the oldest events that a later one repeats, a second   *)
(* the oldest that are left, each only until enough are dropped.           *)
(***************************************************************************)
EXTENDS Naturals, Sequences, FiniteSets, SequencesExt

CONSTANTS
  Relation,     \* relationship keys
  MaxEvents     \* bound: events held

ASSUME DiverseAssumption == MaxEvents \in Nat

VARIABLES
  events,       \* the keys of the events, oldest first
  limit,        \* the window
  keep,         \* the positions kept
  counts,       \* how many kept events each relationship has
  removals,     \* how many are still to go
  index,        \* the position a scan is at
  phase         \* "redundant", "oldest" or "done"

diverseVars == <<events, limit, keep, counts, removals, index, phase>>

Occurrences(r) == Cardinality({i \in DOMAIN events : events[i] = r})

DiverseInit ==
  /\ events \in BoundedSeq(Relation, MaxEvents)
  /\ limit \in 1..MaxEvents
  /\ keep = DOMAIN events
  /\ counts = [r \in Relation |-> Occurrences(r)]
  /\ removals = IF Len(events) <= limit THEN 0 ELSE Len(events) - limit
  /\ index = 1
  /\ phase = IF Len(events) <= limit THEN "done" ELSE "redundant"

Scanning(p) ==
  /\ phase = p
  /\ index <= Len(events)
  /\ removals > 0

Strike ==
  /\ keep' = keep \ {index}
  /\ removals' = removals - 1

(* Mutant of DropRedundant: the counts of a relationship stay as they were.*)
DropRedundantUncounted ==
  /\ Scanning("redundant")
  /\ IF counts[events[index]] <= 1 THEN UNCHANGED <<keep, removals>> ELSE Strike
  /\ index' = index + 1
  /\ UNCHANGED <<events, limit, counts, phase>>

(* One event of the first scan.                                            *)
DropRedundant ==
  /\ Scanning("redundant")
  /\ IF counts[events[index]] <= 1 THEN UNCHANGED <<keep, counts, removals>>
     ELSE Strike /\ counts' = [counts EXCEPT ![events[index]] = @ - 1]
  /\ index' = index + 1
  /\ UNCHANGED <<events, limit, phase>>

(* Mutant of DropOldest: events dropped before are dropped again.          *)
DropOldestAgain ==
  /\ Scanning("oldest")
  /\ Strike
  /\ index' = index + 1
  /\ UNCHANGED <<events, limit, counts, phase>>

(* One event of the second.                                                *)
DropOldest ==
  /\ Scanning("oldest")
  /\ IF index \notin keep THEN UNCHANGED <<keep, removals>> ELSE Strike
  /\ index' = index + 1
  /\ UNCHANGED <<events, limit, counts, phase>>

(* The next scan starts from the oldest event again.                       *)
EndScan ==
  /\ phase # "done" /\ ~ Scanning(phase)
  /\ phase' = IF phase = "redundant" THEN "oldest" ELSE "done"
  /\ index' = 1
  /\ UNCHANGED <<events, limit, keep, counts, removals>>

DiverseNext == DropRedundant \/ DropOldest \/ EndScan

DiverseSpec == DiverseInit /\ [][DiverseNext]_diverseVars

-----------------------------------------------------------------------------

(* What is still to be dropped is always what is kept beyond the limit.    *)
DiverseTypeOK ==
  /\ keep \subseteq DOMAIN events
  /\ removals \in Nat
  /\ index \in 1..(Len(events) + 1)
  /\ phase \in {"redundant", "oldest", "done"}
  /\ Cardinality(keep) = removals + (IF Len(events) < limit THEN Len(events) ELSE limit)

(* The last event of each relationship.                                    *)
Newest == {i \in DOMAIN events : \A j \in DOMAIN events : j > i => events[j] # events[i]}

(* The comment of app.js:158-159: "Remove the oldest redundant examples    *)
(* while retaining the newest example of every relationship whenever the   *)
(* limit permits it"; and of the redundant ones none is dropped before an  *)
(* older one.  When it does not permit it (line 168), only newest examples *)
(* are left, and of them the latest.                                       *)
Diverse ==
  phase = "done" =>
    /\ Cardinality(keep) = IF Len(events) < limit THEN Len(events) ELSE limit
    /\ IF Cardinality(Newest) <= limit
       THEN /\ Newest \subseteq keep
            /\ \A i \in keep \ Newest, j \in DOMAIN events \ keep : j < i
       ELSE /\ keep \subseteq Newest
            /\ \A i \in keep, j \in Newest \ keep : j < i

=============================================================================
