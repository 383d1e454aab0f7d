------------------------------ MODULE NetmonRun ------------------------------
(***************************************************************************)
(* The life of a netmon process around its poll loop (run, attachPrograms, *)
(* verifyCgroupIdentity in cmd/netmon/main.go): it finds the cgroup with   *)
(* the inode it was given, verifies it, attaches its programs one by one   *)
(* BY PATH, polls, and undoes in reverse what it has deferred.  Meanwhile  *)
(* containers come and go: the directory at a path may be removed and      *)
(* another, with another inode, created there.  Netmon models what happens *)
(* inside the loop.  Inode numbers of cgroups are not used again.          *)
(***************************************************************************)
EXTENDS Naturals, FiniteSets

CONSTANTS
  Path,         \* cgroup directories
  Root,         \* the mount point, which is always there
  Programs,     \* programs to attach: 6, with --no-dns 4
  First,        \* the inodes in use at the start are 1..First
  MaxInode      \* bound: the last inode given to a new directory

ASSUME RunAssumption ==
  /\ Root \in Path
  /\ First \in Nat /\ MaxInode \in Nat
  /\ Programs \in Nat \ {0}

VARIABLES
  tree,         \* the inode of each directory, 0 if there is none
  fresh,        \* the next inode
  wanted,       \* --cgroup-id, 0 before netmon is started
  rpc,          \* what run does next
  path,         \* cgroupPath
  links,        \* the attachments: program number and cgroup
  objects,      \* the programs and maps are loaded
  reader,       \* the ring buffer reader is open
  notified,     \* signals go to the channel
  pending,      \* one is in it
  defers,       \* deferred calls: 1 objects, 2 links, 3 reader, 4 signals
  report        \* what printCounters printed

world == <<tree, fresh, wanted>>
held == <<links, objects, reader, notified, pending, defers>>
runVars == <<world, rpc, path, held, report>>

RunInit ==
  /\ tree \in [Path -> 0..First]
  /\ tree[Root] # 0
  /\ \A p, q \in Path : tree[p] = tree[q] /\ tree[p] # 0 => p = q
  /\ fresh = First + 1
  /\ wanted = 0
  /\ rpc = "none"
  /\ path = Root
  /\ links = {}
  /\ objects = FALSE /\ reader = FALSE /\ notified = FALSE /\ pending = FALSE
  /\ defers = 0
  /\ report = "none"

-----------------------------------------------------------------------------
(* The containers.                                                         *)

RemoveCgroup(p) ==
  /\ p # Root /\ tree[p] # 0
  /\ tree' = [tree EXCEPT ![p] = 0]
  /\ UNCHANGED <<fresh, wanted, rpc, path, held, report>>

CreateCgroup(p) ==
  /\ tree[p] = 0
  /\ fresh <= MaxInode
  /\ tree' = [tree EXCEPT ![p] = fresh]
  /\ fresh' = fresh + 1
  /\ UNCHANGED <<wanted, rpc, path, held, report>>

-----------------------------------------------------------------------------
(* Start-up.                                                               *)

(* netmon is started with the inode some directory has or has had.         *)
Start(id) ==
  /\ rpc = "none"
  /\ id \in 1..(fresh - 1)
  /\ wanted' = id
  /\ rpc' = "flags"
  /\ UNCHANGED <<tree, fresh, path, held, report>>

(* run returns, with an error: the deferred calls run.                     *)
Fail == rpc' = "unwind"

(* Bad flags or a missing cgroup v2 mount end it.                          *)
Flags ==
  /\ rpc = "flags"
  /\ rpc' = "find" \/ Fail
  /\ UNCHANGED <<world, path, held, report>>

(* cgroupPathFromID.                                                       *)
FindCgroup ==
  /\ rpc = "find"
  /\ IF \E p \in Path : tree[p] = wanted
     THEN /\ path' = CHOOSE p \in Path : tree[p] = wanted
          /\ rpc' = "verify"
     ELSE Fail /\ UNCHANGED path
  /\ UNCHANGED <<world, held, report>>

(* verifyCgroupIdentity succeeds.                                          *)
SameCgroup == tree[path] = wanted

Verify ==
  /\ rpc = "verify"
  /\ IF SameCgroup THEN rpc' = "open" ELSE Fail
  /\ UNCHANGED <<world, path, held, report>>

(* The directory can be opened; it is closed again, not kept.              *)
OpenDir ==
  /\ rpc = "open"
  /\ \/ tree[path] # 0 /\ rpc' = "load"
     \/ Fail
  /\ UNCHANGED <<world, path, held, report>>

LoadObjects ==
  /\ rpc = "load"
  /\ \/ objects' = TRUE /\ defers' = 1 /\ rpc' = "attach"
     \/ Fail /\ UNCHANGED <<objects, defers>>
  /\ UNCHANGED <<world, path, links, reader, notified, pending, report>>

(* AttachCgroup of the next program, the last of which ends the loop.      *)
AttachTo(cgroup, last) ==
  LET next == Cardinality(links) + 1 IN
  /\ rpc = "attach"
  /\ tree[path] # 0
  /\ links' = links \cup {[program |-> next, cgroup |-> cgroup]}
  /\ IF next = last THEN rpc' = "reader" /\ defers' = 2
     ELSE UNCHANGED <<rpc, defers>>
  /\ UNCHANGED <<world, path, objects, reader, notified, pending, report>>

(* Mutants of Attach: the programs go to the mount point; the loop stops   *)
(* one short.                                                              *)
AttachAtRoot == AttachTo(tree[Root], Programs)
AttachButLast == AttachTo(tree[path], Programs - 1)

(* A program is attached to whatever cgroup is at the path by now.         *)
Attach == AttachTo(tree[path], Programs)

(* Mutant of AttachFails: the links made so far are left to themselves.    *)
AttachFailsOpen ==
  /\ rpc = "attach"
  /\ Fail
  /\ UNCHANGED <<world, path, held, report>>

(* An attachment fails: those before it are closed at once, as no call has *)
(* been deferred for them yet.                                             *)
AttachFails ==
  /\ rpc = "attach"
  /\ links' = {}
  /\ Fail
  /\ UNCHANGED <<world, path, objects, reader, notified, pending, defers, report>>

NewReader ==
  /\ rpc = "reader"
  /\ \/ reader' = TRUE /\ defers' = 3 /\ rpc' = "notify"
     \/ Fail /\ UNCHANGED <<reader, defers>>
  /\ UNCHANGED <<world, path, links, objects, notified, pending, report>>

Notify ==
  /\ rpc = "notify"
  /\ notified' = TRUE
  /\ defers' = 4
  /\ rpc' = "poll"
  /\ UNCHANGED <<world, path, links, objects, reader, pending, report>>

-----------------------------------------------------------------------------
(* poll, and the end.                                                      *)

(* A signal ends poll without, an error of Read with an error.             *)
PollSignal ==
  /\ rpc = "poll" /\ pending
  /\ pending' = FALSE
  /\ rpc' = "report"
  /\ UNCHANGED <<world, path, links, objects, reader, notified, defers, report>>

PollError ==
  /\ rpc = "poll"
  /\ rpc' = "report"
  /\ UNCHANGED <<world, path, held, report>>

(* Mutant of Maintain: any directory at the path will do.                  *)
MaintainAny ==
  /\ rpc = "poll" /\ tree[path] = 0
  /\ rpc' = "report"
  /\ UNCHANGED <<world, path, held, report>>

(* The check of the cgroup in poll's maintenance fails.                    *)
Maintain ==
  /\ rpc = "poll" /\ ~ SameCgroup
  /\ rpc' = "report"
  /\ UNCHANGED <<world, path, held, report>>

(* Without the maps printCounters would print zeros.                       *)
PrintCounters ==
  /\ rpc = "report"
  /\ report' = IF objects THEN "counts" ELSE "zeros"
  /\ rpc' = "unwind"
  /\ UNCHANGED <<world, path, held>>

(* The deferred calls run, the latest first; then main exits.              *)
Unwind ==
  /\ rpc = "unwind"
  /\ notified' = IF defers = 4 THEN FALSE ELSE notified
  /\ pending' = IF defers = 4 THEN FALSE ELSE pending
  /\ reader' = IF defers = 3 THEN FALSE ELSE reader
  /\ links' = IF defers = 2 THEN {} ELSE links
  /\ objects' = IF defers = 1 THEN FALSE ELSE objects
  /\ IF defers = 0 THEN rpc' = "exit" /\ UNCHANGED defers
     ELSE defers' = defers - 1 /\ UNCHANGED rpc
  /\ UNCHANGED <<world, path, report>>

Ended == rpc \in {"exit", "killed"}

(* SIGINT or SIGTERM: caught if asked for, else it kills the process and   *)
(* the kernel closes what it held.                                         *)
Signal ==
  /\ rpc # "none" /\ ~ Ended
  /\ IF notified THEN pending' = TRUE /\ UNCHANGED <<rpc, links, objects, reader, defers>>
     ELSE /\ rpc' = "killed"
          /\ links' = {} /\ objects' = FALSE /\ reader' = FALSE /\ defers' = 0
          /\ UNCHANGED pending
  /\ UNCHANGED <<world, path, notified, report>>

Step ==
  \/ Flags \/ FindCgroup \/ Verify \/ OpenDir \/ LoadObjects \/ Attach
  \/ AttachFails \/ NewReader \/ Notify \/ PollSignal \/ Maintain
  \/ PrintCounters \/ Unwind

RunNext ==
  \/ \E id \in 1..(fresh - 1) : Start(id)
  \/ Step
  \/ PollError
  \/ Signal
  \/ \E p \in Path : RemoveCgroup(p) \/ CreateCgroup(p)

RunSpec == RunInit /\ [][RunNext]_runVars

-----------------------------------------------------------------------------

Flagged ==
  /\ objects \in BOOLEAN /\ reader \in BOOLEAN
  /\ notified \in BOOLEAN /\ pending \in BOOLEAN

RunTypeOK ==
  /\ Flagged
  /\ tree \in [Path -> Nat]
  /\ fresh \in Nat /\ wanted \in Nat
  /\ rpc \in {"none", "flags", "find", "verify", "open", "load", "attach", "reader",
              "notify", "poll", "report", "unwind", "exit", "killed"}
  /\ path \in Path
  /\ links \subseteq [program : 1..Programs, cgroup : Nat]
  /\ defers \in 0..4
  /\ report \in {"none", "counts", "zeros"}

(* Whichever step of the start-up failed and whatever ended the loop,      *)
(* netmon exits with nothing attached and nothing open (main.go:129-157,   *)
(* 183-187).                                                               *)
NothingLeft ==
  rpc = "exit" => links = {} /\ ~ objects /\ ~ reader /\ ~ notified

(* While netmon polls, every program is attached once, and the counters    *)
(* are reported from live maps before anything is closed.                  *)
FullyAttached ==
  /\ rpc \in {"poll", "report"} =>
       /\ \A n \in 1..Programs : \E l \in links : l.program = n
       /\ Cardinality(links) = Programs
  /\ report # "zeros"

(* Attaching by path races with the containers, but the later check is     *)
(* sound: whenever the path still has the wanted inode, every program      *)
(* attached through it is attached to the wanted cgroup (main.go:141, 222).*)
CheckIsSound == SameCgroup => \A l \in links : l.cgroup = wanted

=============================================================================
