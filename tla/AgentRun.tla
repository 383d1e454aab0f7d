------------------------------ MODULE AgentRun ------------------------------
(***************************************************************************)
(* agents/run.sh: sessions of one agent, each of which removes the         *)
(* container of the agent's name, builds the image of the same name with   *)
(* its own version, and runs it in the foreground.  Nothing keeps two      *)
(* sessions apart but the name.  (Sessions of different agents share       *)
(* nothing.)  The Docker daemon is external; starting a container creates  *)
(* its cgroup, with an inode of its own that here also stands for its      *)
(* mount namespace, and its end removes it (tree, of NetmonRun).           *)
(***************************************************************************)
EXTENDS NetmonRun

CONSTANTS
  Session,      \* runs of run.sh with the same agent name
  NoSession

ASSUME AgentAssumption == NoSession \notin Session

VARIABLES
  box,          \* the container that has the name
  image,        \* for whose version the image was last built
  spc,          \* where each session is
  rival,        \* history: another session built or ran since its docker rm
  failed        \* history: that docker rm -f failed

agentVars == <<box, image, spc, rival, failed>>

NoBox == [state |-> "none", path |-> Root, image |-> NoSession]

AgentInit ==
  /\ box = NoBox
  /\ image = NoSession
  /\ spc = [s \in Session |-> "start"]
  /\ rival = [s \in Session |-> FALSE]
  /\ failed = [s \in Session |-> FALSE]

Goto(s, l) == spc' = [spc EXCEPT ![s] = l]

(* docker run returns in the session attached to the container.            *)
Hangup == [s \in Session |-> IF spc[s] = "attached" THEN "ended" ELSE spc[s]]

(* The sessions between their docker rm and their docker run see s pass.   *)
Overtaken(s) ==
  [t \in Session |-> rival[t] \/ (t # s /\ spc[t] \in {"build", "run"})]

(* An unknown agent or a missing argument or version ends it.              *)
Arguments(s) ==
  /\ spc[s] = "start"
  /\ Goto(s, "ended")
  /\ UNCHANGED <<runVars, box, image, rival, failed>>

(* Mutant of RemoveOld: docker rm without -f refuses a running container.  *)
RemoveStopped(s) ==
  /\ spc[s] = "start"
  /\ box' = IF box.state = "running" THEN box ELSE NoBox
  /\ Goto(s, "build")
  /\ rival' = [rival EXCEPT ![s] = FALSE]
  /\ failed' = [failed EXCEPT ![s] = FALSE]
  /\ UNCHANGED <<runVars, image>>

(* docker rm -f ... || true: the container goes, also a running one of     *)
(* another session.  Or the daemon fails to, the container keeps the name, *)
(* and the script goes on all the same.  (One that it killed but could not *)
(* remove is AgentExits before this.)                                      *)
RemoveOld(s) ==
  /\ spc[s] = "start"
  /\ rival' = [rival EXCEPT ![s] = FALSE]
  /\ UNCHANGED image
  /\ \/ /\ IF box.state = "running" THEN RemoveCgroup(box.path) ELSE UNCHANGED runVars
        /\ box' = NoBox
        /\ spc' = [Hangup EXCEPT ![s] = "build"]
        /\ failed' = [failed EXCEPT ![s] = FALSE]
     \/ /\ box.state # "none"
        /\ UNCHANGED <<runVars, box>>
        /\ Goto(s, "build")
        /\ failed' = [failed EXCEPT ![s] = TRUE]

(* docker build; a failure ends the session (set -e).                      *)
Build(s) ==
  /\ spc[s] = "build"
  /\ \/ Goto(s, "run") /\ image' = s /\ rival' = Overtaken(s)
     \/ Goto(s, "ended") /\ UNCHANGED <<image, rival>>
  /\ UNCHANGED <<runVars, box, failed>>

(* docker run: the name must be free, the image is what the tag then is.   *)
RunContainer(s) ==
  /\ spc[s] = "run"
  /\ UNCHANGED <<image, failed>>
  /\ \/ /\ box.state # "none"
        /\ Goto(s, "conflict")
        /\ UNCHANGED <<runVars, box, rival>>
     \/ /\ box.state = "none"
        /\ rival' = Overtaken(s)
        /\ \E p \in Path \ {Root} :
             \/ /\ CreateCgroup(p)
                /\ box' = [state |-> "running", path |-> p, image |-> image]
                /\ Goto(s, "attached")
             \/ /\ tree[p] = 0
                /\ box' = [state |-> "stopped", path |-> p, image |-> image]
                /\ Goto(s, "ended")
                /\ UNCHANGED runVars

(* The agent ends; there is no --rm, so its container stays.               *)
AgentExits ==
  /\ box.state = "running"
  /\ RemoveCgroup(box.path)
  /\ box' = [box EXCEPT !.state = "stopped"]
  /\ spc' = Hangup
  /\ UNCHANGED <<image, rival, failed>>

(* The user may start the stopped container again: same path, new inode.   *)
DockerStart ==
  /\ box.state = "stopped"
  /\ CreateCgroup(box.path)
  /\ box' = [box EXCEPT !.state = "running"]
  /\ UNCHANGED <<image, spc, rival, failed>>

AgentNext ==
  \/ \E s \in Session : \/ Arguments(s) \/ RemoveOld(s)
                        \/ Build(s) \/ RunContainer(s)
  \/ AgentExits
  \/ DockerStart

-----------------------------------------------------------------------------

AgentTypeOK ==
  /\ box \in [state : {"none", "running", "stopped"}, path : Path,
              image : Session \cup {NoSession}]
  /\ image \in Session \cup {NoSession}
  /\ spc \in [Session -> {"start", "build", "run", "attached", "conflict", "ended"}]
  /\ rival \in [Session -> BOOLEAN] /\ failed \in [Session -> BOOLEAN]

(* Whatever other sessions of the agent do before and after, one that none *)
(* of them overtakes between its docker rm and its docker run builds and   *)
(* runs its own version, and it finds the name free unless the daemon      *)
(* failed that removal; and no two sessions are ever attached, as the name *)
(* allows one container (run.sh:13-20).                                    *)
Undisturbed ==
  /\ \A s \in Session :
       /\ spc[s] = "conflict" => rival[s] \/ failed[s]
       /\ spc[s] = "attached" =>
            /\ box.state = "running" /\ tree[box.path] # 0
            /\ box.image = s \/ rival[s]
  /\ \A s, t \in Session : spc[s] = "attached" /\ spc[t] = "attached" => s = t

=============================================================================
