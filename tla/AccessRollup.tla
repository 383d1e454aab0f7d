---------------------------- MODULE AccessRollup ----------------------------
(***************************************************************************)
(* The targets at which the graph draws the file accesses of one process   *)
(* and type (buildAccessDirectoryRollups and graphTargetFor in             *)
(* public/app.js), for the events that DiverseEvents has kept.  Each file  *)
(* stands for its directory; while there are too many directories, all of  *)
(* them move up one level; when few are left, single files are shown as    *)
(* themselves.  A relationship is here the file accessed.                  *)
(***************************************************************************)
EXTENDS DiverseEvents

CONSTANTS
  Name,             \* the components of paths
  MaxTargets,       \* MAX_ACCESS_TARGETS_PER_PROCESS, 12
  DetailTarget      \* ACCESS_FILE_DETAIL_TARGET, 8

ASSUME RollupAssumption ==
  /\ Relation \subseteq [abs : BOOLEAN, names : Seq(Name)]
  /\ MaxTargets \in Nat /\ DetailTarget \in Nat
  /\ DetailTarget <= MaxTargets

(* A path: absolute or not, and its components.                            *)
Slash == [abs |-> TRUE, names |-> <<>>]
Dot == [abs |-> FALSE, names |-> <<>>]

VARIABLES
  gphase,       \* "wait" for the events, "up", "detail", "drawn"
  current,      \* currentByOriginal
  target,       \* targetByFile
  todo          \* the files detail has still to look at

rollupVars == <<gphase, current, target, todo>>
graphVars == <<diverseVars, rollupVars>>

Files == {events[i] : i \in keep}

(* Above the root, too, there is ".".                                      *)
ParentDirectory(p) == IF p.names = <<>> THEN Dot ELSE [p EXCEPT !.names = Front(@)]

Dirs == {ParentDirectory(f) : f \in Files}

(* Mutant of Up: top-level directories move up as well.                    *)
UpPlain(d) == ParentDirectory(d)

(* A directory below the root stays where it is.                           *)
Up(d) == IF d # Slash /\ ParentDirectory(d) = Slash THEN d ELSE ParentDirectory(d)

Distinct(f) == {f[x] : x \in DOMAIN f}

RollupInit ==
  /\ gphase = "wait"
  /\ current = <<>> /\ target = <<>>
  /\ todo = {}

Group ==
  /\ gphase = "wait" /\ phase = "done"
  /\ gphase' = "up"
  /\ current' = [d \in Dirs |-> d]
  /\ UNCHANGED <<diverseVars, target, todo>>

(* One turn of the loop, which gives up once no directory can move.        *)
RollUp ==
  /\ gphase = "up"
  /\ Cardinality(Distinct(current)) > MaxTargets
  /\ \E d \in Distinct(current) : Up(d) # d
  /\ current' = [d \in Dirs |-> Up(current[d])]
  /\ UNCHANGED <<diverseVars, gphase, target, todo>>

(* Mutant of Settled: the loop does not give up.                           *)
SettledAtLimit == Cardinality(Distinct(current)) <= MaxTargets

Settled ==
  \/ Cardinality(Distinct(current)) <= MaxTargets
  \/ \A d \in Distinct(current) : Up(d) = d

RolledUp ==
  /\ gphase = "up"
  /\ Settled
  /\ gphase' = "detail"
  /\ target' = [f \in Files |-> current[ParentDirectory(f)]]
  /\ todo' = IF Cardinality(Distinct(current)) < DetailTarget THEN Files ELSE {}
  /\ UNCHANGED <<diverseVars, current>>

Promoted(f) == [target EXCEPT ![f] = f]

(* Mutant of Promote: a promotion that is one too many is kept.            *)
PromoteOneMore(f) ==
  /\ gphase = "detail" /\ f \in todo
  /\ target' = IF Cardinality(Distinct(target)) > DetailTarget THEN target ELSE Promoted(f)
  /\ todo' = todo \ {f}
  /\ UNCHANGED <<diverseVars, gphase, current>>

(* Mutant of Promote: a full group is left as it is.                       *)
PromoteUntilFull(f) ==
  /\ gphase = "detail" /\ f \in todo
  /\ target' = IF Cardinality(Distinct(target)) >= DetailTarget THEN target ELSE Promoted(f)
  /\ todo' = todo \ {f}
  /\ UNCHANGED <<diverseVars, gphase, current>>

(* A file is shown unless that makes too many.  The code takes the files   *)
(* in the order of their names; any order will do.                         *)
Promote(f) ==
  /\ gphase = "detail" /\ f \in todo
  /\ target' = IF Cardinality(Distinct(Promoted(f))) > DetailTarget THEN target ELSE Promoted(f)
  /\ todo' = todo \ {f}
  /\ UNCHANGED <<diverseVars, gphase, current>>

Draw ==
  /\ gphase = "detail" /\ todo = {}
  /\ gphase' = "drawn"
  /\ UNCHANGED <<diverseVars, current, target, todo>>

GraphInit == DiverseInit /\ RollupInit

GraphNext ==
  \/ DiverseNext /\ UNCHANGED rollupVars
  \/ Group \/ RollUp \/ RolledUp \/ Draw
  \/ \E f \in Relation : Promote(f)

GraphSpec == GraphInit /\ [][GraphNext]_graphVars

GraphFair == GraphSpec /\ WF_graphVars(GraphNext)

-----------------------------------------------------------------------------

(* f lies in d; what lies in the root itself may also have gone to ".".    *)
Above(d, f) ==
  \/ d.abs = f.abs /\ IsPrefix(d.names, f.names)
  \/ d = Dot /\ Len(f.names) <= 1

(* No file is drawn at another one's place: however often the directories  *)
(* moved, the target of a file is itself or a directory it lies in; only   *)
(* the files in "/" may come to "." (app.js:512-522, 608-615).             *)
DrawnInPlace ==
  /\ \A d \in DOMAIN current : Above(current[d], d)
  /\ \A f \in DOMAIN target : Above(target[f], f)

(* At most MaxTargets targets are drawn, or none of them can go up; while  *)
(* all directories fit, none moves; and files are only shown up to         *)
(* DetailTarget (app.js:512-522, 533-546).                                 *)
Bounded ==
  /\ gphase = "drawn" =>
       /\ \/ Cardinality(Distinct(target)) <= MaxTargets
          \/ \A d \in Distinct(target) : Up(d) = d
       /\ Cardinality(Distinct(target)) <= DetailTarget
            \/ target = [f \in Files |-> current[ParentDirectory(f)]]
  /\ Cardinality(Dirs) <= MaxTargets => \A d \in DOMAIN current : current[d] = d

(* Where no file is also the directory of another, no file is left in a    *)
(* group although there was room to show it, in whatever order the files   *)
(* were considered (app.js:533-546).                                       *)
DetailMaximal ==
  gphase = "drawn" /\ Cardinality(Distinct(current)) < DetailTarget
    /\ Files \cap (Dirs \cup Distinct(current)) = {} =>
      \A f \in Files : target[f] = f \/ Cardinality(Distinct(Promoted(f))) > DetailTarget

(* The loops end, also where the limit cannot be kept (app.js:521).        *)
Drawn == <>(gphase = "drawn")

=============================================================================
