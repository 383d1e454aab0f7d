---------------------------- MODULE BpfLogProofs ----------------------------
(***************************************************************************)
(* What a netmon process holds and watches, for any number of programs and *)
(* directories and any comings and goings of containers; then the same     *)
(* within bpf_log.sh, its monitors and the sessions of the agent, for any  *)
(* number of sessions, and whether or not the shell may signal its         *)
(* monitors: the composition is a netmon process of NetmonRun, so what is  *)
(* proved of that holds there.                                             *)
(***************************************************************************)
EXTENDS BpfLog, FiniteSetTheorems, TLAPS

(* What is held is what calls are deferred for, save the links of a loop   *)
(* of attachments still going on.                                          *)
Deferred ==
  /\ objects <=> defers >= 1
  /\ links # {} => defers >= 2 \/ rpc = "attach"
  /\ reader <=> defers >= 3
  /\ notified <=> defers = 4

(* How many calls are deferred at each place.                              *)
Staged ==
  /\ rpc \in {"none", "flags", "find", "verify", "open", "load", "exit", "killed"} => defers = 0
  /\ rpc = "attach" => defers = 1
  /\ rpc = "reader" => defers = 2
  /\ rpc = "notify" => defers = 3
  /\ rpc \in {"poll", "report"} => defers = 4

(* The wanted inode was given out before netmon was started, so no         *)
(* directory gets it again.                                                *)
Unrepeated == wanted < fresh /\ (rpc = "none" \/ wanted > 0)

(* The programs are attached in order, once each.                          *)
Numbered ==
  /\ IsFiniteSet(links)
  /\ \A n \in 1..Cardinality(links) : \E l \in links : l.program = n
  /\ \A l \in links : l.program \in 1..Cardinality(links)
  /\ rpc = "attach" => Cardinality(links) < Programs
  /\ rpc \in {"reader", "notify", "poll", "report"} => Cardinality(links) = Programs

RunInv ==
  /\ RunTypeOK
  /\ Deferred
  /\ Staged
  /\ Unrepeated
  /\ CheckIsSound
  /\ Numbered
  /\ report # "zeros"

USE DEF world, held

(* The process starts in its invariant: nothing opened, deferred or        *)
(* attached (main.go:93-97).                                               *)
LEMMA InitInv == RunInit => RunInv
<1> SUFFICES ASSUME RunInit PROVE RunInv
  OBVIOUS
<1> USE RunAssumption DEF RunInit
<1>1. RunTypeOK
  <2>1. tree \in [Path -> Nat]
    OBVIOUS
  <2>2. Flagged
    BY DEF Flagged
  <2> QED  BY <2>1, <2>2 DEF RunTypeOK
<1>2. Deferred /\ Staged /\ Unrepeated /\ CheckIsSound
  BY DEF Deferred, Staged, Unrepeated, CheckIsSound
<1>3. IsFiniteSet({}) /\ Cardinality({}) = 0
  BY FS_EmptySet
<1>4. Numbered
  BY <1>3 DEF Numbered
<1> QED  BY <1>1, <1>2, <1>4 DEF RunInv

(* The containers cannot put the wanted inode anywhere.                    *)
LEMMA WorldKeeps ==
  ASSUME RunInv, NEW p \in Path, RemoveCgroup(p) \/ CreateCgroup(p)
  PROVE  RunInv'
<1> USE RunAssumption DEF RunInv, RemoveCgroup, CreateCgroup
<1>1. RunTypeOK'
  <2>1. Flagged'
    BY DEF RunTypeOK, Flagged
  <2> QED  BY <2>1 DEF RunTypeOK
<1>2. Deferred' /\ Staged' /\ Unrepeated'
  BY DEF Deferred, Staged, Unrepeated, RunTypeOK
<1>3. CheckIsSound'
  <2>1. CASE links = {}
    BY <2>1 DEF CheckIsSound
  <2>2. CASE links # {}
    <3>1. wanted > 0
      BY <2>2 DEF Deferred, Staged, Unrepeated
    <3> QED  BY <3>1 DEF CheckIsSound, SameCgroup, Unrepeated, RunTypeOK
  <2> QED  BY <2>1, <2>2
<1>4. Numbered'
  BY DEF Numbered
<1> QED  BY <1>1, <1>2, <1>3, <1>4

(* Steps before the attachments, which hold nothing.                       *)
LEMMA StartKeeps ==
  ASSUME RunInv,
         (\E id \in 1..(fresh - 1) : Start(id)) \/ Flags \/ FindCgroup \/ Verify \/ OpenDir \/ LoadObjects
  PROVE  RunInv'
<1> USE RunAssumption DEF RunInv, Start, Flags, FindCgroup, Verify, OpenDir, LoadObjects, Fail
<1>1. RunTypeOK'
  <2>1. Flagged'
    BY DEF RunTypeOK, Flagged
  <2>2. path' \in Path
    BY DEF RunTypeOK
  <2> QED  BY <2>1, <2>2 DEF RunTypeOK
<1>2. Deferred' /\ Staged' /\ Unrepeated'
  BY DEF Deferred, Staged, Unrepeated, RunTypeOK
<1>3. links = {} /\ links' = {}
  BY DEF Deferred, Staged
<1>4. CheckIsSound'
  BY <1>3 DEF CheckIsSound
<1>5. Numbered'
  BY <1>3, FS_EmptySet, RunAssumption DEF Numbered
<1>6. (report # "zeros")'
  OBVIOUS
<1> QED  BY <1>1, <1>2, <1>4, <1>5, <1>6

(* One more program is attached, to the cgroup now at the path.            *)
LEMMA AttachKeeps ==
  ASSUME RunInv, Attach
  PROVE  RunInv'
<1> DEFINE next == Cardinality(links) + 1
           l0 == [program |-> next, cgroup |-> tree[path]]
<1> USE DEF RunInv, Attach, AttachTo
<1>1. IsFiniteSet(links) /\ Cardinality(links) \in Nat
  BY FS_CardinalityType DEF Numbered
<1>2. next \in 1..Programs
  BY <1>1, RunAssumption DEF Numbered
<1>3. l0 \notin links
  BY <1>1 DEF Numbered
<1>4. IsFiniteSet(links') /\ Cardinality(links') = next
  BY <1>1, <1>3, FS_AddElement
<1>5. RunTypeOK'
  <2>1. Flagged'
    BY DEF RunTypeOK, Flagged
  <2>2. l0 \in [program : 1..Programs, cgroup : Nat]
    BY <1>2 DEF RunTypeOK
  <2> QED  BY <2>1, <2>2 DEF RunTypeOK
<1>6. Deferred' /\ Staged' /\ Unrepeated'
  BY DEF Deferred, Staged, Unrepeated, RunTypeOK
<1>7. CheckIsSound'
  BY DEF CheckIsSound, SameCgroup
<1>8. Numbered'
  <2>1. \A n \in 1..next : \E l \in links' : l.program = n
    <3> TAKE n \in 1..next
    <3>1. CASE n = next
      <4>1. l0 \in links' /\ l0.program = next
        OBVIOUS
      <4> QED  BY <3>1, <4>1
    <3>2. CASE n # next
      <4>1. n \in 1..Cardinality(links)
        BY <1>1, <3>2
      <4> QED  BY <4>1 DEF Numbered
    <3> QED  BY <3>1, <3>2
  <2>2. \A l \in links' : l.program \in 1..next
    BY <1>1 DEF Numbered
  <2>3. /\ rpc' = "attach" => next < Programs
        /\ rpc' \in {"reader", "notify", "poll", "report"} => next = Programs
    BY <1>2, RunAssumption
  <2> QED  BY <1>4, <2>1, <2>2, <2>3 DEF Numbered
<1>9. (report # "zeros")'
  OBVIOUS
<1> QED  BY <1>5, <1>6, <1>7, <1>8, <1>9

(* Steps that close the links.                                             *)
LEMMA AttachFailsKeeps ==
  ASSUME RunInv, AttachFails
  PROVE  RunInv'
<1> USE DEF RunInv, AttachFails, Fail
<1>1. RunTypeOK'
  <2>1. Flagged'
    BY DEF RunTypeOK, Flagged
  <2> QED  BY <2>1 DEF RunTypeOK
<1>2. Deferred' /\ Staged' /\ Unrepeated' /\ CheckIsSound'
  BY DEF Deferred, Staged, Unrepeated, CheckIsSound
<1>3. Numbered'
  BY FS_EmptySet DEF Numbered
<1> QED  BY <1>1, <1>2, <1>3

(* A signal, whether it is noted or kills the process, keeps the           *)
(* invariant (main.go:155-157).                                            *)
LEMMA SignalKeeps ==
  ASSUME RunInv, Signal
  PROVE  RunInv'
<1> USE DEF RunInv, Signal
<1>1. CASE notified
  <2>1. Flagged'
    BY <1>1 DEF RunTypeOK, Flagged
  <2>2. RunTypeOK' /\ Deferred' /\ Staged' /\ Unrepeated'
    BY <1>1, <2>1 DEF RunTypeOK, Deferred, Staged, Unrepeated
  <2>3. CheckIsSound' /\ Numbered'
    BY <1>1 DEF CheckIsSound, SameCgroup, Numbered
  <2> QED  BY <2>2, <2>3
<1>2. CASE ~ notified
  <2>1. Flagged'
    BY <1>2 DEF RunTypeOK, Flagged
  <2>2. RunTypeOK'
    BY <1>2, <2>1 DEF RunTypeOK
  <2>3. Deferred' /\ Staged' /\ Unrepeated' /\ CheckIsSound'
    BY <1>2 DEF Deferred, Staged, Unrepeated, CheckIsSound
  <2>4. Numbered'
    <3>1. links' = {} /\ rpc' = "killed"
      BY <1>2
    <3> QED  BY <3>1, FS_EmptySet DEF Numbered
  <2> QED  BY <1>2, <2>2, <2>3, <2>4
<1> QED  BY <1>1, <1>2

(* The deferred calls: what the last of them is for is closed.             *)
LEMMA UnwindKeeps ==
  ASSUME RunInv, Unwind
  PROVE  RunInv'
<1> USE DEF RunInv, Unwind
<1>1. defers \in 0..4 /\ defers' \in 0..4
  BY DEF RunTypeOK
<1>2. rpc' \in {"unwind", "exit"} /\ (rpc' = "exit" => defers = 0 /\ defers' = 0)
  OBVIOUS
<1>3. RunTypeOK'
  <2>1. Flagged'
    BY DEF RunTypeOK, Flagged
  <2>2. links' \subseteq links
    OBVIOUS
  <2> QED  BY <1>1, <1>2, <2>1, <2>2 DEF RunTypeOK
<1>4. Deferred'
  <2>1. CASE defers = 0
    BY <2>1 DEF Deferred
  <2>2. CASE defers = 1
    BY <2>2 DEF Deferred
  <2>3. CASE defers = 2
    BY <2>3 DEF Deferred
  <2>4. CASE defers = 3
    BY <2>4 DEF Deferred
  <2>5. CASE defers = 4
    BY <2>5 DEF Deferred
  <2> QED  BY <1>1, <2>1, <2>2, <2>3, <2>4, <2>5
<1>5. Staged' /\ Unrepeated'
  BY <1>2 DEF Staged, Unrepeated
<1>6. CheckIsSound'
  BY DEF CheckIsSound, SameCgroup
<1>7. Numbered'
  <2>1. CASE links' = {}
    BY <1>2, <2>1, FS_EmptySet DEF Numbered
  <2>2. CASE links' = links
    BY <1>2, <2>2 DEF Numbered
  <2> QED  BY <2>1, <2>2
<1>8. (report # "zeros")'
  OBVIOUS
<1> QED  BY <1>3, <1>4, <1>5, <1>6, <1>7, <1>8

(* The other steps of a process with all its programs attached.            *)
LEMMA PollKeeps ==
  ASSUME RunInv,
         \/ NewReader \/ Notify \/ PollSignal \/ PollError \/ Maintain
         \/ PrintCounters
  PROVE  RunInv'
<1> USE DEF RunInv, NewReader, Notify, PollSignal, PollError, Maintain,
            PrintCounters, Fail
<1>1. RunTypeOK'
  <2>1. Flagged'
    BY DEF RunTypeOK, Flagged
  <2> QED  BY <2>1 DEF RunTypeOK
<1>2. Deferred' /\ Staged' /\ Unrepeated'
  BY DEF Deferred, Staged, Unrepeated, RunTypeOK
<1>3. CheckIsSound' /\ Numbered'
  BY DEF CheckIsSound, SameCgroup, Numbered
<1>4. (report # "zeros")'
  BY DEF Deferred, Staged
<1> QED  BY <1>1, <1>2, <1>3, <1>4

(* One step of the process or of the containers.                           *)
LEMMA RunKeeps ==
  ASSUME RunInv, [RunNext]_runVars
  PROVE  RunInv'
<1>1. CASE \E id \in 1..(fresh - 1) : Start(id)
  BY <1>1, StartKeeps
<1>2. CASE Step
  BY <1>2, StartKeeps, AttachKeeps, AttachFailsKeeps, PollKeeps, UnwindKeeps
     DEF Step
<1>3. CASE PollError \/ Signal
  BY <1>3, PollKeeps, SignalKeeps
<1>4. CASE \E p \in Path : RemoveCgroup(p) \/ CreateCgroup(p)
  BY <1>4, WorldKeeps
<1>5. CASE UNCHANGED runVars
  BY <1>5 DEF runVars, RunInv, RunTypeOK, Flagged, Deferred, Staged, Unrepeated,
              CheckIsSound, SameCgroup, Numbered
<1> QED  BY <1>1, <1>2, <1>3, <1>4, <1>5 DEF RunNext

(* The invariant of the process holds throughout.                          *)
LEMMA RunInductive == RunSpec => []RunInv
BY InitInv, RunKeeps, PTL DEF RunSpec

(* The type invariant of the process.                                      *)
THEOREM RunTypeCorrect == RunSpec => []RunTypeOK
BY RunInductive, PTL DEF RunInv

(* Whatever fails and however it ends, netmon exits with nothing attached  *)
(* and nothing open (main.go:129-157, 183-187).                            *)
THEOREM RunLeavesNothing == RunSpec => []NothingLeft
<1>1. RunInv => NothingLeft
  BY DEF RunInv, Deferred, Staged, NothingLeft
<1> QED  BY <1>1, RunInductive, PTL

(* While it polls every program is attached, and the report is read from   *)
(* live maps (main.go:147-161, 180-190).                                   *)
THEOREM RunFullyAttached == RunSpec => []FullyAttached
<1>1. RunInv => FullyAttached
  BY DEF RunInv, Numbered, FullyAttached
<1> QED  BY <1>1, RunInductive, PTL

(* The periodic check is sound although attaching goes by path             *)
(* (main.go:141, 222).                                                     *)
THEOREM RunCheckIsSound == RunSpec => []CheckIsSound
BY RunInductive, PTL DEF RunInv

-----------------------------------------------------------------------------
(* The watch.                                                              *)

(* No inode is at two paths, and those to come are new.                    *)
Inodes ==
  /\ \A p \in Path : tree[p] < fresh
  /\ \A p, q \in Path : tree[p] = tree[q] /\ tree[p] # 0 => p = q

(* A session that none has overtaken since its docker rm finds the image   *)
(* its own and, if the daemon did not fail that, the name free.            *)
Alone ==
  \A s \in Session : ~ rival[s] =>
    /\ spc[s] \in {"build", "run"} => box.state = "none" \/ failed[s]
    /\ spc[s] = "run" => image = s

Housed == box.state = "running" => tree[box.path] # 0

AgentInv == AgentTypeOK /\ Inodes /\ Housed /\ Alone /\ Undisturbed

(* The inode of a live container that was looked up by name is that of the *)
(* container that has the name.                                            *)
Known(i) ==
  /\ i < fresh
  /\ i # 0 /\ Alive(i) => box.state = "running" /\ tree[box.path] = i

(* Nothing is at the directory p but the container that has the name.      *)
Found(p) == tree[p] # 0 => box.state = "running" /\ box.path = p

(* What the look-ups have found, unless it is the host's root.             *)
LookedUp ==
  /\ Known(pid)
  /\ rel # Root => Known(cgroupId)
  /\ lpc = "fallback" /\ rel # Root => Found(rel)
  /\ lpc \in {"check", "inspect1", "stat1", "fallback"} => cgroupId = 0 /\ mntnsId = 0
  /\ MixedIsGone

(* A monitor is noted once it is started, at the next command of a script  *)
(* that no signal comes to; the audit always before netmon is started.     *)
Noted ==
  /\ ~ interrupted =>
       /\ ~ lsig /\ lpc # "killed"
       /\ audit # "none" => "audit" \in children \/ lpc = "note audit"
       /\ rpc # "none" => "netmon" \in children \/ lpc = "note netmon"
  /\ lpc \in {"netmon", "note netmon", "wait"} \/ rpc # "none" => "audit" \in children
  /\ lpc = "exited" => \A x \in children : Over(x)

LogInv == LogTypeOK /\ LookedUp /\ Noted

WatchInv == RunInv /\ AgentInv /\ LogInv

USE DEF runVars, agentVars, ids, monitors, signals, logVars

-----------------------------------------------------------------------------

(* Only the containers change the hierarchy, and only Start starts netmon. *)
LEMMA NetmonLeavesWorld ==
  ASSUME Step \/ PollError \/ Signal
  PROVE  UNCHANGED <<tree, fresh>> /\ rpc # "none"
BY DEF Step, PollError, Signal, Flags, FindCgroup, Verify, OpenDir, LoadObjects,
       Attach, AttachTo, AttachFails, NewReader, Notify, PollSignal, Maintain,
       PrintCounters, Unwind

(* A netmon that has ended does nothing more.                              *)
LEMMA StaysEnded ==
  ASSUME Ended, [RunNext]_runVars
  PROVE  Ended'
<1>1. CASE RunNext
  BY <1>1 DEF Ended, RunNext, Start, Step, PollError, Signal, Flags, FindCgroup,
       Verify, OpenDir, LoadObjects, Attach, AttachTo, AttachFails, NewReader,
       Notify, PollSignal, Maintain, PrintCounters, Unwind, RemoveCgroup, CreateCgroup
<1>2. CASE UNCHANGED runVars
  BY <1>2 DEF Ended
<1> QED  BY <1>1, <1>2

(* What the sessions and the daemon do to the hierarchy.                   *)
LEMMA AgentMoves ==
  ASSUME AgentTypeOK, AgentNext
  PROVE  UNCHANGED runVars \/ \E p \in Path : RemoveCgroup(p) \/ CreateCgroup(p)
<1>1. box.path \in Path
  BY DEF AgentTypeOK
<1>2. CASE \E s \in Session : Arguments(s) \/ Build(s)
  BY <1>2 DEF Arguments, Build
<1>3. CASE \E s \in Session : RemoveOld(s)
  BY <1>1, <1>3 DEF RemoveOld
<1>4. CASE \E s \in Session : RunContainer(s)
  BY <1>4 DEF RunContainer
<1>5. CASE AgentExits \/ DockerStart
  BY <1>1, <1>5 DEF AgentExits, DockerStart
<1> QED  BY <1>2, <1>3, <1>4, <1>5 DEF AgentNext

(* The shell touches netmon only by starting it and by a signal.           *)
LEMMA ShellMoves ==
  ASSUME Shell \/ ShellSignal \/ AuditEnds
  PROVE  /\ UNCHANGED agentVars
         /\ UNCHANGED runVars \/ Signal \/ \E id \in 1..(fresh - 1) : Start(id)
BY DEF Shell, Script, ShellSignal, AuditEnds, Check, Passes, Inspect, StatCgroup,
       StatPath, StatMntns, Sudo, StartAudit, NoteAudit, Note, StartNetmon, NoteNetmon,
       WaitAny, Trap, KillAudit, KillNetmon, Killed, Reap, Start

(* Every step of the watch is one of netmon's world or nothing to it.      *)
LEMMA WatchMoves ==
  ASSUME AgentTypeOK, [WatchNext]_watchVars
  PROVE  [RunNext]_runVars
<1>1. CASE Shell \/ ShellSignal \/ AuditEnds
  BY <1>1, ShellMoves DEF RunNext
<1>2. CASE NetmonStep \/ PollError \/ Signal
  BY <1>2 DEF NetmonStep, RunNext
<1>3. CASE AgentNext
  BY <1>3, AgentMoves DEF RunNext
<1>4. CASE UNCHANGED watchVars
  BY <1>4 DEF watchVars
<1> QED  BY <1>1, <1>2, <1>3, <1>4 DEF WatchNext

-----------------------------------------------------------------------------

(* The containers keep inodes apart.                                       *)
LEMMA MovesKeepInodes ==
  ASSUME RunTypeOK, Inodes, NEW p \in Path, RemoveCgroup(p) \/ CreateCgroup(p)
  PROVE  Inodes'
<1>1. CASE RemoveCgroup(p)
  BY <1>1 DEF RemoveCgroup, Inodes, RunTypeOK
<1>2. CASE CreateCgroup(p)
  BY <1>2 DEF CreateCgroup, Inodes, RunTypeOK
<1> QED  BY <1>1, <1>2

(* The type of the sessions' state.                                        *)
LEMMA AgentTypeKept ==
  ASSUME AgentTypeOK, AgentNext
  PROVE  AgentTypeOK'
<1> USE AgentAssumption, RunAssumption DEF AgentTypeOK
<1>1. ASSUME NEW s \in Session, Arguments(s) PROVE AgentTypeOK'
  BY <1>1 DEF Arguments, Goto
<1>2. ASSUME NEW s \in Session, RemoveOld(s) PROVE AgentTypeOK'
  <2>1. failed' \in [Session -> BOOLEAN] /\ rival' \in [Session -> BOOLEAN]
    BY <1>2, Zenon DEF RemoveOld
  <2>2. spc' \in [Session -> {"start", "build", "run", "attached", "conflict", "ended"}]
    BY <1>2 DEF RemoveOld, Hangup, Goto
  <2>3. box' \in {box, NoBox} /\ image' = image
    BY <1>2 DEF RemoveOld
  <2> QED  BY <2>1, <2>2, <2>3 DEF NoBox
<1>3. ASSUME NEW s \in Session, Build(s) PROVE AgentTypeOK'
  <2>1. rival' \in [Session -> BOOLEAN]
    BY <1>3, Zenon DEF Build, Overtaken
  <2> QED  BY <1>3, <2>1 DEF Build, Goto
<1>4. ASSUME NEW s \in Session, RunContainer(s) PROVE AgentTypeOK'
  <2>1. rival' \in [Session -> BOOLEAN]
    BY <1>4, Zenon DEF RunContainer, Overtaken
  <2> QED  BY <1>4, <2>1 DEF RunContainer, Goto
<1>5. CASE AgentExits
  BY <1>5 DEF AgentExits, Hangup
<1>6. CASE DockerStart
  BY <1>6 DEF DockerStart
<1> QED  BY <1>1, <1>2, <1>3, <1>4, <1>5, <1>6 DEF AgentNext

(* What Overtaken marks, it does not unmark.                               *)
LEMMA OvertakenMarks ==
  ASSUME NEW s \in Session, rival' = Overtaken(s)
  PROVE  \A t \in Session :
           /\ rival[t] => rival'[t]
           /\ t # s /\ spc[t] \in {"build", "run"} => rival'[t]
BY Zenon DEF Overtaken

(* One step of the sessions and the daemon.                                *)
LEMMA AgentKeeps ==
  ASSUME RunTypeOK, AgentInv, AgentNext
  PROVE  AgentInv'
<1> USE AgentAssumption, RunAssumption DEF AgentInv, Undisturbed, Alone, Housed
<1>1. AgentTypeOK'
  BY AgentTypeKept
<1>2. Inodes'
  <2>1. CASE UNCHANGED runVars
    BY <2>1 DEF Inodes
  <2> QED  BY <2>1, AgentMoves, MovesKeepInodes
<1>3. ASSUME NEW s \in Session, Arguments(s) PROVE Housed' /\ Alone' /\ Undisturbed'
  BY <1>3 DEF Arguments, Goto, AgentTypeOK
<1>4. ASSUME NEW s \in Session, RemoveOld(s) PROVE Housed' /\ Alone' /\ Undisturbed'
  <2>1. \A t \in Session : spc'[t] \in {"build", "run", "conflict"} /\ t # s => spc'[t] = spc[t]
    BY <1>4 DEF RemoveOld, Hangup, Goto, AgentTypeOK
  <2>2. /\ spc'[s] = "build"
        /\ image' = image
        /\ \A t \in Session : t # s => rival'[t] = rival[t] /\ failed'[t] = failed[t]
    BY <1>4 DEF RemoveOld, Hangup, Goto, AgentTypeOK
  <2>3. CASE box' = NoBox /\ spc' = [Hangup EXCEPT ![s] = "build"]
    <3>1. \A t \in Session : spc'[t] # "attached"
      BY <2>3 DEF Hangup, AgentTypeOK
    <3> QED  BY <2>1, <2>2, <2>3, <3>1 DEF NoBox
  <2>4. CASE UNCHANGED <<runVars, box>> /\ Goto(s, "build") /\ failed' = [failed EXCEPT ![s] = TRUE]
    <3>1. failed'[s]
      BY <2>4 DEF AgentTypeOK
    <3>2. \A t \in Session : spc'[t] = "attached" => spc[t] = "attached" /\ t # s
      BY <2>4 DEF Goto, AgentTypeOK
    <3> QED  BY <2>1, <2>2, <2>4, <3>1, <3>2
  <2> QED  BY <1>4, <2>3, <2>4 DEF RemoveOld
<1>5. ASSUME NEW s \in Session, Build(s) PROVE Housed' /\ Alone' /\ Undisturbed'
  <2>1. CASE image' = s /\ rival' = Overtaken(s) /\ Goto(s, "run")
    <3>1. \A t \in Session : t # s => spc'[t] = spc[t]
      BY <2>1 DEF Goto, AgentTypeOK
    <3>2. spc'[s] = "run" /\ spc[s] = "build"
      BY <1>5, <2>1 DEF Build, Goto, AgentTypeOK
    <3>3. UNCHANGED <<box, tree, failed>>
      BY <1>5 DEF Build
    <3> QED  BY <2>1, <3>1, <3>2, <3>3, OvertakenMarks
  <2>2. CASE UNCHANGED <<image, rival, failed>> /\ Goto(s, "ended")
    BY <1>5, <2>2 DEF Build, Goto, AgentTypeOK
  <2> QED  BY <1>5, <2>1, <2>2 DEF Build
<1>6. ASSUME NEW s \in Session, RunContainer(s) PROVE Housed' /\ Alone' /\ Undisturbed'
  <2>1. spc[s] = "run" /\ UNCHANGED <<image, failed>>
    BY <1>6 DEF RunContainer
  <2>2. CASE box.state # "none" /\ Goto(s, "conflict") /\ UNCHANGED <<runVars, box, rival>>
    BY <2>1, <2>2 DEF Goto, AgentTypeOK
  <2>3. ASSUME box.state = "none", rival' = Overtaken(s), NEW l, Goto(s, l),
               l \in {"attached", "ended"}, box'.image = image,
               l = "attached" => box'.state = "running",
               box'.state = "running" => tree'[box'.path] # 0
        PROVE  Housed' /\ Alone' /\ Undisturbed'
    <3>1. \A t \in Session : t # s => spc'[t] = spc[t] /\ spc[t] # "attached"
      BY <2>3 DEF Goto, AgentTypeOK
    <3>2. spc'[s] = l
      BY <2>3 DEF Goto, AgentTypeOK
    <3> QED  BY <2>1, <2>3, <3>1, <3>2, OvertakenMarks
  <2>4. ASSUME box.state = "none", rival' = Overtaken(s), NEW p \in Path, CreateCgroup(p),
               box' = [state |-> "running", path |-> p, image |-> image],
               Goto(s, "attached")
        PROVE  Housed' /\ Alone' /\ Undisturbed'
    <3>1. box'.image = image /\ box'.state = "running" /\ tree'[box'.path] # 0
      BY <2>4 DEF CreateCgroup, RunTypeOK, Inodes
    <3> QED  BY <2>3, <2>4, <3>1
  <2>5. ASSUME box.state = "none", rival' = Overtaken(s), NEW p \in Path,
               box' = [state |-> "stopped", path |-> p, image |-> image],
               Goto(s, "ended")
        PROVE  Housed' /\ Alone' /\ Undisturbed'
    BY <2>3, <2>5
  <2> QED  BY <1>6, <2>2, <2>4, <2>5 DEF RunContainer
<1>7. CASE AgentExits
  <2>1. box'.state = "stopped"
    BY <1>7 DEF AgentExits, AgentTypeOK
  <2>2. \A t \in Session : spc'[t] # "attached" /\ spc'[t] \in {spc[t], "ended"}
    BY <1>7 DEF AgentExits, Hangup, AgentTypeOK
  <2>3. box.state = "running" /\ UNCHANGED <<image, rival, failed>>
    BY <1>7 DEF AgentExits
  <2> QED  BY <1>1, <1>2, <2>1, <2>2, <2>3
<1>8. CASE DockerStart
  <2>1. box.state = "stopped" /\ UNCHANGED <<image, spc, rival, failed>>
    BY <1>8 DEF DockerStart
  <2>2. box'.state = "running" /\ box'.path = box.path /\ box.path \in Path
    BY <1>8 DEF DockerStart, AgentTypeOK
  <2>3. tree'[box'.path] # 0
    BY <1>8, <2>2 DEF DockerStart, CreateCgroup, RunTypeOK, Inodes
  <2> QED  BY <1>1, <1>2, <2>1, <2>2, <2>3
<1> QED  BY <1>1, <1>2, <1>3, <1>4, <1>5, <1>6, <1>7, <1>8 DEF AgentNext

(* The sessions' invariant is about nothing else.                          *)
LEMMA AgentFrame ==
  ASSUME AgentInv, UNCHANGED <<tree, fresh, agentVars>>
  PROVE  AgentInv'
BY DEF AgentInv, AgentTypeOK, Inodes, Housed, Alone, Undisturbed

-----------------------------------------------------------------------------

(* A removed cgroup does not come back under its inode.                    *)
LEMMA DeadStays ==
  ASSUME RunTypeOK, AgentTypeOK, AgentNext,
         NEW i \in Nat \ {0}, i < fresh, ~ Alive(i)
  PROVE  ~ Alive(i)' /\ i < fresh'
<1>1. CASE UNCHANGED runVars
  BY <1>1 DEF Alive
<1>2. ASSUME NEW p \in Path, RemoveCgroup(p) PROVE ~ Alive(i)' /\ i < fresh'
  BY <1>2 DEF Alive, RemoveCgroup, RunTypeOK
<1>3. ASSUME NEW p \in Path, CreateCgroup(p) PROVE ~ Alive(i)' /\ i < fresh'
  BY <1>3 DEF Alive, CreateCgroup, RunTypeOK
<1> QED  BY <1>1, <1>2, <1>3, AgentMoves

(* The end of the container that has the name ends all that was looked up. *)
LEMMA Evicted ==
  ASSUME RunTypeOK, AgentInv, box.state = "running", RemoveCgroup(box.path),
         NEW i \in Nat, Known(i), i # 0
  PROVE  ~ Alive(i)' /\ i < fresh'
<1>1. box.path \in Path
  BY DEF AgentInv, AgentTypeOK
<1>2. \A p \in Path : tree'[p] = i => p # box.path /\ tree[p] = i
  BY <1>1 DEF RemoveCgroup, RunTypeOK
<1>3. \A p \in Path : tree[p] = i => tree[box.path] = i
  BY DEF Known, Alive
<1>4. \A p \in Path : tree'[p] # i
  BY <1>1, <1>2, <1>3 DEF AgentInv, Inodes
<1> QED  BY <1>4 DEF Alive, Known, RemoveCgroup

(* What was looked up stays known.                                         *)
LEMMA KnownKept ==
  ASSUME RunTypeOK, AgentInv, AgentNext, NEW i \in Nat, Known(i)
  PROVE  Known(i)'
<1>1. i < fresh'
  <2>1. CASE UNCHANGED runVars
    BY <2>1 DEF Known
  <2>2. ASSUME NEW p \in Path, RemoveCgroup(p) \/ CreateCgroup(p) PROVE i < fresh'
    BY <2>2 DEF Known, RemoveCgroup, CreateCgroup, RunTypeOK
  <2> QED  BY <2>1, <2>2, AgentMoves DEF AgentInv
<1>2. CASE i = 0
  BY <1>1, <1>2 DEF Known
<1>3. CASE i # 0 /\ UNCHANGED <<runVars, box>>
  BY <1>1, <1>3 DEF Known, Alive
<1>4. CASE i # 0 /\ box.state # "running"
  <2>1. ~ Alive(i)
    BY <1>4 DEF Known
  <2>2. ~ Alive(i)'
    BY <1>4, <2>1, DeadStays DEF Known, AgentInv
  <2> QED  BY <1>1, <2>2 DEF Known
<1>5. CASE i # 0 /\ box.state = "running" /\ RemoveCgroup(box.path)
  BY <1>5, Evicted DEF Known
<1>6. \/ UNCHANGED <<runVars, box>>
      \/ box.state # "running"
      \/ RemoveCgroup(box.path)
  BY DEF AgentNext, Arguments, RemoveOld, Build, RunContainer, AgentExits, DockerStart
<1> QED  BY <1>2, <1>3, <1>4, <1>5, <1>6

(* A directory that the container with the name had is had by no other.    *)
LEMMA FoundKept ==
  ASSUME RunTypeOK, AgentInv, AgentNext, NEW p \in Path, Found(p)
  PROVE  Found(p)'
<1> USE DEF Found
<1>1. box.path \in Path
  BY DEF AgentInv, AgentTypeOK
<1>2. CASE UNCHANGED <<runVars, box>>
  BY <1>2
<1>3. CASE box.state = "running" /\ RemoveCgroup(box.path)
  BY <1>1, <1>3 DEF RemoveCgroup, RunTypeOK
<1>4. CASE box.state # "running" /\ UNCHANGED runVars
  BY <1>4
<1>5. ASSUME box.state # "running", NEW q \in Path, CreateCgroup(q),
             box'.state = "running", box'.path = q
      PROVE  Found(p)'
  BY <1>5 DEF CreateCgroup, RunTypeOK
<1>6. CASE \E s \in Session : RunContainer(s)
  <2> PICK s \in Session : RunContainer(s)
    BY <1>6
  <2>1. CASE box.state # "none" /\ UNCHANGED <<runVars, box>>
    BY <1>2, <2>1
  <2>2. ASSUME box.state = "none", NEW q \in Path, CreateCgroup(q),
               box' = [state |-> "running", path |-> q, image |-> image]
        PROVE  Found(p)'
    BY <1>5, <2>2
  <2>3. CASE box.state = "none" /\ UNCHANGED runVars
    BY <1>4, <2>3
  <2> QED  BY <2>1, <2>2, <2>3 DEF RunContainer
<1>7. CASE DockerStart
  <2>1. box'.state = "running" /\ box'.path = box.path
    BY <1>7 DEF DockerStart, AgentInv, AgentTypeOK
  <2> QED  BY <1>1, <1>5, <1>7, <2>1 DEF DockerStart
<1>8. CASE \E s \in Session : Arguments(s) \/ Build(s) \/ RemoveOld(s)
  BY <1>2, <1>3, <1>4, <1>8 DEF Arguments, Build, RemoveOld
<1>9. CASE AgentExits
  BY <1>3, <1>9 DEF AgentExits
<1> QED  BY <1>6, <1>7, <1>8, <1>9 DEF AgentNext

(* The script's invariant under a step of the sessions.                    *)
LEMMA AgentKeepsLog ==
  ASSUME RunTypeOK, AgentInv, LogInv, AgentNext, UNCHANGED logVars
  PROVE  LogInv'
<1> USE DEF LogInv, LookedUp
<1>1. LogTypeOK'
  BY DEF LogTypeOK
<1>2. pid \in Nat /\ cgroupId \in Nat /\ rel \in Path
  BY DEF LogTypeOK
<1>3. Known(pid)' /\ (rel # Root => Known(cgroupId)')
  <2>1. \A i \in Nat : Known(i) => Known(i)'
    BY KnownKept
  <2> QED  BY <1>2, <2>1 DEF Known, Alive
<1>4. lpc = "fallback" /\ rel # Root => Found(rel)'
  <2>1. \A p \in Path : Found(p) => Found(p)'
    BY FoundKept
  <2> QED  BY <1>2, <2>1 DEF Found
<1>5. MixedIsGone'
  <2>1. CASE cgroupId = 0 \/ mntnsId = 0 \/ cgroupId = mntnsId \/ rel = Root
    BY <2>1 DEF MixedIsGone
  <2>2. CASE cgroupId # 0 /\ rel # Root /\ ~ Alive(cgroupId)
    <3>1. ~ Alive(cgroupId)'
      <4>1. \A i \in Nat \ {0} : i < fresh /\ ~ Alive(i) => ~ Alive(i)'
        BY DeadStays DEF AgentInv
      <4> QED  BY <1>2, <2>2, <4>1 DEF Known, Alive
    <3> QED  BY <3>1 DEF MixedIsGone
  <2> QED  BY <2>1, <2>2 DEF MixedIsGone
<1>6. Noted'
  <2>1. rpc' = rpc
    BY AgentMoves DEF AgentInv, RemoveCgroup, CreateCgroup
  <2> QED  BY <2>1 DEF Noted, Over, Ended
<1> QED  BY <1>1, <1>3, <1>4, <1>5, <1>6

(* Under a step of netmon or a signal to it.                               *)
LEMMA NetmonKeepsLog ==
  ASSUME LogInv, UNCHANGED <<logVars, agentVars>>,
         UNCHANGED runVars \/ Step \/ PollError \/ Signal
  PROVE  LogInv'
<1> USE DEF LogInv
<1>1. UNCHANGED <<tree, fresh>> /\ (rpc' # "none" => rpc # "none")
  BY NetmonLeavesWorld
<1>2. LogTypeOK' /\ LookedUp'
  BY <1>1 DEF LogTypeOK, LookedUp, Known, Found, Alive, MixedIsGone
<1>3. Noted'
  <2>1. Ended => Ended'
    BY StaysEnded DEF RunNext
  <2> QED  BY <1>1, <2>1 DEF Noted, Over
<1> QED  BY <1>2, <1>3

(* Looking the container up.                                               *)
LEMMA InspectKeepsLog ==
  ASSUME RunTypeOK, AgentInv, LogInv,
         \/ Inspect("inspect1", "stat1") \/ StatCgroup \/ StatPath
         \/ Inspect("inspect2", "stat2") \/ StatMntns
  PROVE  LogInv'
<1> USE RunAssumption DEF LogInv, LookedUp, At, Quit
<1>1. UNCHANGED <<tree, fresh, box>> /\ box.path \in Path /\ fresh > 0
  BY DEF Inspect, StatCgroup, StatPath, StatMntns, AgentInv, AgentTypeOK, Inodes, RunTypeOK
<1>2. LogTypeOK'
  BY <1>1 DEF LogTypeOK, Inspect, StatCgroup, StatPath, StatMntns, Seen, RunTypeOK
<1>3. Known(pid)'
  <2>1. CASE pid' = pid
    BY <1>1, <2>1 DEF Known, Alive
  <2>2. CASE box.state = "running" /\ pid' = tree[box.path]
    BY <1>1, <2>2 DEF Known, Alive, AgentInv, Inodes
  <2> QED  BY <2>1, <2>2 DEF Inspect, StatCgroup, StatPath, StatMntns
<1>4. Noted'
  <2>1. UNCHANGED <<monitors, signals, rpc>>
    BY DEF Inspect, StatCgroup, StatPath, StatMntns
  <2>2. /\ lpc \in {"inspect1", "stat1", "fallback", "inspect2", "stat2"}
        /\ lpc' \in {"stat1", "fallback", "inspect2", "stat2", "sudo", "kill"}
    BY DEF Inspect, StatCgroup, StatPath, StatMntns
  <2>3. /\ lpc \notin {"note audit", "note netmon"}
        /\ lpc' \notin {"killed", "exited", "netmon", "note netmon", "wait"}
    BY <2>2
  <2> QED  BY <2>1, <2>3, Zenon DEF Noted
<1>5. CASE Inspect("inspect1", "stat1") \/ Inspect("inspect2", "stat2")
  BY <1>1, <1>2, <1>3, <1>4, <1>5 DEF Inspect, MixedIsGone, Known, Found, Alive
<1>6. CASE StatCgroup /\ rel' = Root
  BY <1>1, <1>2, <1>3, <1>4, <1>6 DEF StatCgroup, MixedIsGone, Known
<1>7. CASE StatCgroup /\ rel' # Root
  <2>1. CASE Alive(pid)
    <3>1. rel' \in Path /\ tree[rel'] = pid
      BY <1>7, <2>1 DEF StatCgroup, Seen
    <3>2. pid # 0 => box.state = "running" /\ tree[box.path] = pid
      BY <2>1 DEF Known
    <3>3. Found(rel')
      BY <1>1, <3>1, <3>2 DEF Found, AgentInv, Inodes
    <3>4. cgroupId' \in {0, pid} /\ mntnsId' = 0
      BY <1>7, <2>1, <3>1 DEF StatCgroup
    <3>5. Known(cgroupId)'
      BY <1>1, <3>4 DEF Known, Alive
    <3>6. Found(rel)'
      BY <1>1, <3>3 DEF Found
    <3> QED  BY <1>2, <1>3, <1>4, <1>7, <2>1, <3>4, <3>5, <3>6 DEF StatCgroup, MixedIsGone
  <2>2. CASE ~ Alive(pid)
    BY <1>1, <1>2, <1>3, <1>4, <1>7, <2>2 DEF StatCgroup, MixedIsGone, Known, Alive
  <2> QED  BY <2>1, <2>2
<1>8. CASE StatPath
  <2>1. rel \in Path
    BY DEF LogTypeOK
  <2>2. rel # Root => Known(cgroupId)'
    BY <1>1, <1>8, <2>1 DEF StatPath, Known, Found, Alive, AgentInv, Inodes
  <2> QED  BY <1>1, <1>2, <1>3, <1>4, <1>8, <2>2 DEF StatPath, MixedIsGone
<1>9. CASE StatMntns
  BY <1>1, <1>2, <1>3, <1>4, <1>9 DEF StatMntns, MixedIsGone, Known, Alive
<1> QED  BY <1>5, <1>6, <1>7, <1>8, <1>9

(* The other commands, the traps and cleanup.                              *)
LEMMA CommandKeepsLog ==
  ASSUME LogInv,
         \/ Check \/ Sudo \/ StartAudit \/ NoteAudit \/ StartNetmon \/ NoteNetmon
         \/ WaitAny \/ Trap \/ KillAudit \/ KillNetmon \/ Killed \/ Reap
         \/ ShellSignal \/ AuditEnds
  PROVE  LogInv'
<1> USE DEF LogInv, At, Quit, Check, Passes, Sudo, StartAudit, NoteAudit, Note,
            StartNetmon, NoteNetmon, WaitAny, Trap, KillAudit, KillNetmon, Killed,
            Reap, ShellSignal, AuditEnds
<1>1. UNCHANGED <<tree, fresh, box, ids>>
  BY NetmonLeavesWorld DEF Start
<1>2. LogTypeOK'
  <2>1. lsig' \in BOOLEAN /\ interrupted' \in BOOLEAN
    BY Zenon DEF LogTypeOK
  <2>2. lpc' \in {"check", "inspect1", "stat1", "fallback", "inspect2", "stat2", "sudo",
              "audit", "note audit", "netmon", "note netmon", "wait", "kill", "reap",
              "exited", "killed"}
    BY DEF LogTypeOK
  <2>3. /\ audit' \in {"none", "running", "term", "ended"}
        /\ children' \subseteq {"audit", "netmon"} /\ sent' \subseteq children'
    BY DEF LogTypeOK
  <2> QED  BY <1>1, <2>1, <2>2, <2>3 DEF LogTypeOK
<1>3. lpc' \in {"check", "inspect1", "stat1", "fallback"} => lpc' = lpc \/ lpc = "check"
  BY DEF Gone
<1>4. LookedUp'
  BY <1>1, <1>3 DEF LookedUp, Known, Found, Alive, MixedIsGone, Gone
<1>5. CASE Check \/ Sudo \/ WaitAny \/ Trap \/ Killed
  <2>1. UNCHANGED <<monitors, interrupted, rpc>>
    BY <1>5
  <2>2. lsig' => lsig
    BY <1>5, Zenon
  <2>3. lpc \notin {"note audit", "note netmon"} \/ Trap
    BY <1>5
  <2>4. lpc' \notin {"killed", "exited", "netmon", "note netmon", "wait"}
    BY <1>5
  <2>5. Trap => lsig
    OBVIOUS
  <2> HIDE DEF Trap
  <2>6. Noted'
    BY <2>1, <2>2, <2>3, <2>4, <2>5, Zenon DEF Noted
  <2> QED  BY <1>2, <1>4, <2>6
<1>6. CASE KillAudit \/ AuditEnds
  <2>1. UNCHANGED <<lpc, children, signals, rpc>> /\ (audit' # "none" => audit # "none")
    BY <1>6
  <2>2. lpc = "exited" => audit = "ended" \/ "audit" \notin children
    BY <1>6 DEF Noted, Over
  <2>3. Noted'
    BY <1>6, <2>1, <2>2, Zenon DEF Noted, Over, Ended
  <2> QED  BY <1>2, <1>4, <2>3
<1>7. CASE StartAudit \/ NoteAudit \/ NoteNetmon
  <2>1. UNCHANGED <<signals, rpc>> /\ lpc' \in {"note audit", "netmon", "wait"}
    BY <1>7
  <2>2. lpc' = "note audit" => StartAudit /\ UNCHANGED children
    BY <1>7
  <2>3. Noted'
    BY <1>7, <2>1 DEF Noted
  <2> QED  BY <1>2, <1>4, <2>3
<1>8. CASE StartNetmon
  BY <1>2, <1>4, <1>8 DEF Noted, Over, Ended, Start
<1>9. CASE KillNetmon
  <2>1. rpc' # "none" => rpc # "none"
    BY <1>9, NetmonLeavesWorld
  <2> QED  BY <1>2, <1>4, <1>9, <2>1 DEF Noted, Over
<1>10. CASE Reap
  BY <1>2, <1>4, <1>10 DEF Noted, Over, Ended
<1>11. CASE ShellSignal
  BY <1>2, <1>4, <1>11 DEF Noted, Over, Ended, Gone
<1> QED  BY <1>5, <1>6, <1>7, <1>8, <1>9, <1>10, <1>11

(* Shell, sessions and netmon start in the invariant of the watch.         *)
LEMMA WatchInitInv == WatchInit => WatchInv
<1> SUFFICES ASSUME WatchInit PROVE WatchInv
  OBVIOUS
<1> USE AgentAssumption, RunAssumption DEF WatchInit
<1>1. RunInv
  BY InitInv
<1>2. AgentInv
  <2>1. rival \in [Session -> BOOLEAN] /\ failed \in [Session -> BOOLEAN]
    BY Zenon DEF AgentInit
  <2>2. AgentTypeOK
    BY <2>1 DEF AgentInit, AgentTypeOK, NoBox
  <2>3. Inodes
    BY DEF RunInit, Inodes
  <2> QED  BY <2>2, <2>3 DEF AgentInit, AgentInv, Housed, Alone, Undisturbed, NoBox
<1>3. LogInv
  <2>1. lsig \in BOOLEAN /\ interrupted \in BOOLEAN
    BY DEF LogInit
  <2>2. LogTypeOK
    BY <2>1 DEF LogInit, LogTypeOK
  <2>3. LookedUp
    BY DEF RunInit, LogInit, LookedUp, Known, MixedIsGone
  <2>4. Noted
    BY DEF RunInit, LogInit, Noted
  <2> QED  BY <2>2, <2>3, <2>4 DEF LogInv
<1> QED  BY <1>1, <1>2, <1>3 DEF WatchInv

(* Every step of shell, sessions, Docker or netmon keeps the invariant of  *)
(* the watch.                                                              *)
LEMMA WatchKeeps ==
  ASSUME WatchInv, [WatchNext]_watchVars
  PROVE  WatchInv'
<1> USE DEF WatchInv
<1>1. RunTypeOK /\ AgentTypeOK
  BY DEF RunInv, AgentInv
<1>2. RunInv'
  BY <1>1, WatchMoves, RunKeeps
<1>3. CASE Shell \/ ShellSignal \/ AuditEnds
  <2>1. UNCHANGED <<tree, fresh, agentVars>>
    BY <1>3, ShellMoves, NetmonLeavesWorld DEF Start
  <2>2. LogInv'
    BY <1>1, <1>3, InspectKeepsLog, CommandKeepsLog DEF Shell, Script
  <2> QED  BY <1>2, <2>1, <2>2, AgentFrame
<1>4. CASE NetmonStep \/ ((PollError \/ Signal) /\ UNCHANGED <<agentVars, logVars>>)
  <2>1. (Step \/ PollError \/ Signal) /\ UNCHANGED <<agentVars, logVars>>
    BY <1>4 DEF NetmonStep
  <2> QED  BY <1>2, <2>1, NetmonLeavesWorld, AgentFrame, NetmonKeepsLog
<1>5. CASE AgentNext /\ UNCHANGED logVars
  BY <1>1, <1>2, <1>5, AgentKeeps, AgentKeepsLog
<1>6. CASE UNCHANGED watchVars
  BY <1>2, <1>6, AgentFrame, NetmonKeepsLog DEF watchVars
<1> QED  BY <1>3, <1>4, <1>5, <1>6 DEF WatchNext

(* The invariant of the watch holds throughout.                            *)
LEMMA WatchInductive == WatchSpec => []WatchInv
BY WatchInitInv, WatchKeeps, PTL DEF WatchSpec

-----------------------------------------------------------------------------

(* Whatever the shell, the sessions and Docker do, netmon within the watch *)
(* behaves as the process of NetmonRun (bpf_log.sh:118, main.go:93-162).   *)
THEOREM WatchRunsNetmon == WatchSpec => RunSpec
<1>1. WatchInit => RunInit
  BY DEF WatchInit
<1>2. WatchInv /\ [WatchNext]_watchVars => [RunNext]_runVars
  BY WatchMoves DEF WatchInv, AgentInv
<1> QED  BY <1>1, <1>2, WatchInductive, PTL DEF WatchSpec, RunSpec

(* Hence within the watch, too, netmon exits with nothing attached, polls  *)
(* with everything attached, and its check of the cgroup is sound.         *)
THEOREM WatchNetmonSafe == WatchSpec => [](NothingLeft /\ FullyAttached /\ CheckIsSound)
BY WatchRunsNetmon, RunLeavesNothing, RunFullyAttached, RunCheckIsSound, PTL

(* The type invariant of the watch.                                        *)
THEOREM WatchTypeCorrect == WatchSpec => []WatchTypeOK
<1>1. WatchInv => WatchTypeOK
  BY DEF WatchInv, RunInv, AgentInv, LogInv, WatchTypeOK
<1> QED  BY <1>1, WatchInductive, PTL

(* A script that no signal comes to leaves neither monitor running and no  *)
(* program attached, and one that cleans up leaves at most one monitor,    *)
(* with or without the right to signal them (bpf_log.sh:77-91, 115-119).   *)
THEOREM WatchNoneOutlives == WatchSpec => []NoneOutlives
<1>1. WatchInv => NoneOutlives
  <2> SUFFICES ASSUME WatchInv PROVE NoneOutlives
    OBVIOUS
  <2>1. rpc = "none" \/ Ended => links = {}
    <3>1. rpc = "none" \/ Ended => defers = 0 /\ rpc # "attach"
      BY DEF WatchInv, RunInv, Staged, Ended
    <3>2. links # {} => defers >= 2 \/ rpc = "attach"
      BY DEF WatchInv, RunInv, Deferred
    <3> QED  BY <3>1, <3>2
  <2>2. audit \in {"none", "running", "term", "ended"}
    BY DEF WatchInv, LogInv, LogTypeOK
  <2>3. Gone /\ ~ interrupted => audit \in {"none", "ended"} /\ (rpc = "none" \/ Ended)
    BY <2>2 DEF WatchInv, LogInv, Noted, Gone, Over
  <2>4. lpc = "exited" => audit \in {"none", "ended"} \/ rpc = "none" \/ Ended
    BY <2>2 DEF WatchInv, LogInv, Noted, Over
  <2> QED  BY <2>1, <2>3, <2>4 DEF NoneOutlives
<1> QED  BY <1>1, WatchInductive, PTL

(* The two look-ups never pair a live container with the namespace of      *)
(* another, however many sessions replace it and whether by the mount or   *)
(* by the fallback's path, unless that is the host's root                  *)
(* (bpf_log.sh:33-52, 109-110).                                            *)
THEOREM WatchMixedIsGone == WatchSpec => []MixedIsGone
<1>1. WatchInv => MixedIsGone
  BY DEF WatchInv, LogInv, LookedUp
<1> QED  BY <1>1, WatchInductive, PTL

(* A session that no other overtakes between its docker rm and docker run  *)
(* runs its own version and finds the name free unless the daemon failed   *)
(* that removal, for any number of sessions (run.sh:13-20).                *)
THEOREM SessionsUndisturbed == WatchSpec => []Undisturbed
<1>1. WatchInv => Undisturbed
  BY DEF WatchInv, AgentInv
<1> QED  BY <1>1, WatchInductive, PTL

=============================================================================
