------------------------------- MODULE BpfLog -------------------------------
(***************************************************************************)
(* src/bpf_log.sh: it asks Docker twice for the container's process, first *)
(* for its cgroup and then for its mount namespace, starts the audit and   *)
(* netmon in the background, and waits until one of them ends or a signal  *)
(* comes; the EXIT trap then terminates and awaits both.  netmon is the    *)
(* process of NetmonRun and containers are those of AgentRun.              *)
(* The monitors run under sudo: unless the shell itself is root, its kill  *)
(* does not reach them, and "|| true" passes over that.  bash takes a      *)
(* trapped signal between two commands, or in wait.                        *)
(***************************************************************************)
EXTENDS AgentRun

CONSTANT Privileged      \* the shell may signal what sudo runs

ASSUME LogAssumption == Privileged \in BOOLEAN

VARIABLES
  lpc,          \* the command bpf_log.sh comes to
  pid,          \* State.Pid, by the incarnation of the container it is in
  rel,          \* the directory whose inode is taken for the cgroup's
  cgroupId,
  mntnsId,
  audit,        \* the bpftrace process
  children,     \* the array
  sent,         \* the children cleanup has been through with kill
  lsig,         \* a trapped signal is pending
  interrupted   \* history: a signal has come

ids == <<pid, rel, cgroupId, mntnsId>>
monitors == <<audit, children, sent>>
signals == <<lsig, interrupted>>
logVars == <<lpc, ids, monitors, signals>>
watchVars == <<runVars, agentVars, logVars>>

LogInit ==
  /\ lpc = "check"
  /\ pid = 0 /\ rel = Root /\ cgroupId = 0 /\ mntnsId = 0
  /\ audit = "none"
  /\ children = {} /\ sent = {}
  /\ lsig = FALSE /\ interrupted = FALSE

(* Between two commands of the script proper.                              *)
At(l) == lpc = l /\ ~ lsig

(* exit, also by set -e: the EXIT trap runs cleanup.                       *)
Quit == lpc' = "kill"

(* A command that changes nothing here, or ends the script.                *)
Passes(l, next) ==
  /\ At(l)
  /\ lpc' = next \/ Quit
  /\ UNCHANGED <<ids, monitors, signals, runVars, agentVars>>

(* Usage, the tools needed, make.                                          *)
Check == Passes("check", "inspect1")

(* docker inspect: the container by its name, if it is running.            *)
Inspect(l, next) ==
  /\ At(l)
  /\ \/ /\ box.state = "running"
        /\ pid' = tree[box.path]
        /\ lpc' = next
     \/ Quit /\ UNCHANGED pid
  /\ UNCHANGED <<rel, cgroupId, mntnsId, monitors, signals, runVars, agentVars>>

Alive(i) == \E p \in Path : tree[p] = i

(* Where a process of incarnation i finds itself: in its own directory, or *)
(* at the host's root ("0::/" of /proc/PID/cgroup, or the mount of a       *)
(* container that shares the host's cgroup namespace).                     *)
Seen(i) == {p \in Path : tree[p] = i} \cup {Root}

(* Mutant of StatCgroup: the host's own mount is asked.                    *)
StatCgroupHost ==
  /\ At("stat1")
  /\ IF Alive(pid)
     THEN /\ rel' \in Seen(pid)
          /\ \/ cgroupId' = tree[Root] /\ lpc' = "inspect2"
             \/ lpc' = "fallback" /\ UNCHANGED cgroupId
     ELSE Quit /\ UNCHANGED <<rel, cgroupId>>
  /\ UNCHANGED <<pid, mntnsId, monitors, signals, runVars, agentVars>>

(* Below /proc/PID, so this fails when the process has gone meanwhile: the *)
(* inode of its cgroup2 mount or, where it sees none, only the path.       *)
StatCgroup ==
  /\ At("stat1")
  /\ IF Alive(pid)
     THEN /\ rel' \in Seen(pid)
          /\ \/ cgroupId' = tree[rel'] /\ lpc' = "inspect2"
             \/ lpc' = "fallback" /\ UNCHANGED cgroupId
     ELSE Quit /\ UNCHANGED <<rel, cgroupId>>
  /\ UNCHANGED <<pid, mntnsId, monitors, signals, runVars, agentVars>>

(* The fallback's path on the host, where the directory may have gone or   *)
(* be another by now.                                                      *)
StatPath ==
  /\ At("fallback")
  /\ IF tree[rel] # 0 THEN cgroupId' = tree[rel] /\ lpc' = "inspect2"
     ELSE Quit /\ UNCHANGED cgroupId
  /\ UNCHANGED <<pid, rel, mntnsId, monitors, signals, runVars, agentVars>>

StatMntns ==
  /\ At("stat2")
  /\ IF Alive(pid) THEN mntnsId' = pid /\ lpc' = "sudo"
     ELSE Quit /\ UNCHANGED mntnsId
  /\ UNCHANGED <<pid, rel, cgroupId, monitors, signals, runVars, agentVars>>

Sudo == Passes("sudo", "audit")

(* Each monitor is started and then noted, by two commands.                *)
StartAudit ==
  /\ At("audit")
  /\ audit' = "running"
  /\ lpc' = "note audit"
  /\ UNCHANGED <<ids, children, sent, signals, runVars, agentVars>>

(* Mutant of Note: children=("$!") in place of +=.                         *)
NoteOnly(l, child, next) ==
  /\ At(l)
  /\ children' = {child}
  /\ lpc' = next
  /\ UNCHANGED <<ids, audit, sent, signals, runVars, agentVars>>

Note(l, child, next) ==
  /\ At(l)
  /\ children' = children \cup {child}
  /\ lpc' = next
  /\ UNCHANGED <<ids, audit, sent, signals, runVars, agentVars>>

NoteAudit == Note("note audit", "audit", "netmon")

StartNetmon ==
  /\ At("netmon")
  /\ Start(cgroupId)
  /\ lpc' = "note netmon"
  /\ UNCHANGED <<ids, monitors, signals, agentVars>>

NoteNetmon == Note("note netmon", "netmon", "wait")

Over(child) == IF child = "audit" THEN audit = "ended" ELSE Ended

(* wait -n.                                                                *)
WaitAny ==
  /\ At("wait")
  /\ \E x \in children : Over(x)
  /\ Quit
  /\ UNCHANGED <<ids, monitors, signals, runVars, agentVars>>

Script ==
  \/ Check \/ Inspect("inspect1", "stat1") \/ StatCgroup \/ StatPath
  \/ Inspect("inspect2", "stat2") \/ StatMntns \/ Sudo
  \/ StartAudit \/ NoteAudit \/ StartNetmon \/ NoteNetmon \/ WaitAny

(* Mutant of Trap: the trap does not exit.                                 *)
TrapResume ==
  /\ lsig /\ lpc \notin {"kill", "reap", "exited", "killed"}
  /\ lsig' = FALSE
  /\ UNCHANGED <<lpc, ids, monitors, interrupted, runVars, agentVars>>

(* The INT and TERM traps exit, which runs cleanup.                        *)
Trap ==
  /\ lsig /\ lpc \notin {"kill", "reap", "exited", "killed"}
  /\ lsig' = FALSE
  /\ Quit
  /\ UNCHANGED <<ids, monitors, interrupted, runVars, agentVars>>

-----------------------------------------------------------------------------
(* cleanup.                                                                *)

(* kill -TERM to the audit, then to netmon.                                *)
KillAudit ==
  /\ lpc = "kill"
  /\ "audit" \in children \ sent
  /\ sent' = sent \cup {"audit"}
  /\ audit' = IF Privileged /\ audit = "running" THEN "term" ELSE audit
  /\ UNCHANGED <<lpc, ids, children, signals, runVars, agentVars>>

(* Mutant of KillNetmon: only the first child is signalled.                *)
KillNetmonNot ==
  /\ lpc = "kill"
  /\ "audit" \in children => "audit" \in sent
  /\ "netmon" \in children \ sent
  /\ sent' = sent \cup {"netmon"}
  /\ UNCHANGED <<lpc, ids, audit, children, signals, runVars, agentVars>>

KillNetmon ==
  /\ lpc = "kill"
  /\ "audit" \in children => "audit" \in sent
  /\ "netmon" \in children \ sent
  /\ sent' = sent \cup {"netmon"}
  /\ IF Privileged /\ ~ Ended THEN Signal ELSE UNCHANGED runVars
  /\ UNCHANGED <<lpc, ids, audit, children, signals, agentVars>>

Killed ==
  /\ lpc = "kill"
  /\ sent = children
  /\ lpc' = "reap"
  /\ UNCHANGED <<ids, monitors, signals, runVars, agentVars>>

(* wait for each child; then the script ends.                              *)
Reap ==
  /\ lpc = "reap"
  /\ \A x \in children : Over(x)
  /\ lpc' = "exited"
  /\ UNCHANGED <<ids, monitors, signals, runVars, agentVars>>

Shell == Script \/ Trap \/ KillAudit \/ KillNetmon \/ Killed \/ Reap

Gone == lpc \in {"exited", "killed"}

(* INT or TERM to the shell: trapped, or, as cleanup begins by resetting   *)
(* the traps, the end of it.                                               *)
ShellSignal ==
  /\ ~ Gone
  /\ IF lpc \in {"kill", "reap"} THEN lpc' = "killed" /\ UNCHANGED lsig
     ELSE lsig' = TRUE /\ UNCHANGED lpc
  /\ interrupted' = TRUE
  /\ UNCHANGED <<ids, monitors, runVars, agentVars>>

(* bpftrace ends when told to, and may fail at any time.                   *)
AuditEnds ==
  /\ audit \in {"running", "term"}
  /\ audit' = "ended"
  /\ UNCHANGED <<lpc, ids, children, sent, signals, runVars, agentVars>>

NetmonStep == Step /\ UNCHANGED <<agentVars, logVars>>

WatchInit == RunInit /\ AgentInit /\ LogInit

WatchNext ==
  \/ Shell
  \/ ShellSignal
  \/ AuditEnds
  \/ NetmonStep
  \/ (PollError \/ Signal) /\ UNCHANGED <<agentVars, logVars>>
  \/ AgentNext /\ UNCHANGED logVars

WatchSpec == WatchInit /\ [][WatchNext]_watchVars

(* The shell and netmon are scheduled, the commands of the script return,  *)
(* netmon's maintenance comes due, and bpftrace obeys a SIGTERM.  Nothing  *)
(* else need happen.                                                       *)
WatchFair ==
  /\ WatchSpec
  /\ WF_watchVars(Shell)
  /\ WF_watchVars(NetmonStep)
  /\ WF_watchVars(audit = "term" /\ AuditEnds)

-----------------------------------------------------------------------------

LogTypeOK ==
  /\ lpc \in {"check", "inspect1", "stat1", "fallback", "inspect2", "stat2", "sudo",
              "audit", "note audit", "netmon", "note netmon", "wait", "kill", "reap",
              "exited", "killed"}
  /\ pid \in Nat /\ rel \in Path /\ cgroupId \in Nat /\ mntnsId \in Nat
  /\ audit \in {"none", "running", "term", "ended"}
  /\ children \subseteq {"audit", "netmon"} /\ sent \subseteq children
  /\ lsig \in BOOLEAN /\ interrupted \in BOOLEAN

WatchTypeOK == RunTypeOK /\ AgentTypeOK /\ LogTypeOK

(* A script no signal comes to leaves neither monitor running and nothing  *)
(* attached, whichever command failed and whichever monitor ended first.   *)
(* After a signal that finds it between the start of a monitor and its     *)
(* noting, it may leave that monitor, but never both, unless another cuts  *)
(* cleanup short (bpf_log.sh:77-91, 115-119).                              *)
NoneOutlives ==
  /\ Gone /\ ~ interrupted =>
       audit \in {"none", "ended"} /\ (rpc = "none" \/ Ended) /\ links = {}
  /\ lpc = "exited" => audit \in {"none", "ended"} \/ rpc = "none" \/ Ended

(* The two look-ups go by name and may meet two containers, and the first, *)
(* in its fallback, goes by a path as well; but when they differ, the      *)
(* cgroup found is no more, so no live container is watched with the       *)
(* namespace of another (bpf_log.sh:109-110).  Except where the container  *)
(* shows the host's root for its own, which is then watched.               *)
MixedIsGone ==
  cgroupId # 0 /\ mntnsId # 0 /\ cgroupId # mntnsId =>
    ~ Alive(cgroupId) \/ rel = Root

(* "a monitor exited; stopping the other monitor" (bpf_log.sh:129): when   *)
(* one monitor has ended, for whatever reason, the script comes to its     *)
(* end, and so, by NoneOutlives, does the other monitor.                   *)
EndTogether == (\E x \in children : Over(x)) ~> Gone

(* A signal ends the script.                                               *)
ShellSignalEnds == lsig ~> Gone

(* A container that ends, is replaced or is started again while watched,   *)
(* or was replaced between the two look-ups, ends the whole watch: netmon  *)
(* notices, and its end is passed on (main.go:222, bpf_log.sh:122).  The   *)
(* host's root, taken for the container's cgroup, never ends.              *)
GoneEnds ==
  (lpc = "wait" /\ rel # Root /\ ~ (Alive(cgroupId) /\ cgroupId = mntnsId)) ~> Gone

=============================================================================
