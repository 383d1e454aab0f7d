------------------------------- MODULE BpfVis -------------------------------
(***************************************************************************)
(* src/bpf_vis.sh: it starts the event server and, as one background       *)
(* pipeline, bpf_log.sh and a loop that posts each line it prints with a   *)
(* curl of its own.  $! is the pid of the loop, the last process of the    *)
(* pipeline: kill reaches the loop alone, whereas wait and wait -n, given  *)
(* that pid, wait for the whole pipeline.                                  *)
(* bpf_log.sh with its monitors is here one producer of lines (BpfLog says *)
(* how it ends), which dies when it writes into the pipe without a reader. *)
(***************************************************************************)
EXTENDS Naturals, Sequences

CONSTANTS
  MaxLines,     \* bound: lines printed to a reader
  PipeSize      \* lines that fit in the pipe

ASSUME VisAssumption == MaxLines \in Nat /\ PipeSize \in Nat \ {0}

(* What the server makes of a line: an event; a line that parseLine        *)
(* rejects (answered with 400, no failure to curl); an empty one.          *)
Kind == {"event", "noise", "empty"}

VARIABLES
  vpc,          \* the command bpf_vis.sh comes to
  vsig,         \* a trapped signal is pending
  interrupted,  \* history: a signal has come to the shell
  noted,        \* the array children
  told,         \* the children cleanup has been through with kill
  server,       \* node server.js
  received,     \* the events it accepted, by line number
  producer,     \* bpf_log.sh and its monitors
  lines,        \* the kinds of the lines printed so far
  taken,        \* how many of them the loop has read
  loop,         \* the subshell of the while loop
  curl          \* the post of the line last read

signals == <<vsig, interrupted>>
shellVars == <<vpc, signals, noted, told>>
pipeVars == <<producer, lines, taken, loop, curl>>
serverVars == <<server, received>>
visVars == <<shellVars, pipeVars, serverVars>>

VisInit ==
  /\ vpc = "make" /\ vsig = FALSE /\ interrupted = FALSE
  /\ noted = {} /\ told = {}
  /\ server = "none" /\ received = <<>>
  /\ producer = "none" /\ loop = "none"
  /\ lines = <<>> /\ taken = 0
  /\ curl = "none"

-----------------------------------------------------------------------------
(* The shell.                                                              *)

At(l) == vpc = l /\ ~ vsig

Quit == vpc' = "kill"

(* The arguments and make; a failure exits.                                *)
Make ==
  /\ At("make")
  /\ vpc' = "server" \/ Quit
  /\ UNCHANGED <<signals, noted, told, pipeVars, serverVars>>

StartServer ==
  /\ At("server")
  /\ server' = "starting"
  /\ vpc' = "note server"
  /\ UNCHANGED <<signals, noted, told, received, pipeVars>>

(* Mutant of Note: children=("$!") in place of +=.                         *)
NoteOnly(l, child, next) ==
  /\ At(l)
  /\ noted' = {child}
  /\ vpc' = next
  /\ UNCHANGED <<signals, told, pipeVars, serverVars>>

Note(l, child, next) ==
  /\ At(l)
  /\ noted' = noted \cup {child}
  /\ vpc' = next
  /\ UNCHANGED <<signals, told, pipeVars, serverVars>>

NoteServer == Note("note server", "server", "pipeline")

StartPipeline ==
  /\ At("pipeline")
  /\ producer' = "running" /\ loop' = "read"
  /\ vpc' = "note pipeline"
  /\ UNCHANGED <<signals, noted, told, lines, taken, curl, serverVars>>

NotePipeline == Note("note pipeline", "pipeline", "wait")

(* A child is over; a pipeline only with all its processes.                *)
Over(child) ==
  IF child = "server" THEN server = "ended"
  ELSE loop = "ended" /\ producer = "ended"

(* Mutant of WaitAny: wait without -n.                                     *)
WaitAll ==
  /\ At("wait")
  /\ \A x \in noted : Over(x)
  /\ Quit
  /\ UNCHANGED <<signals, noted, told, pipeVars, serverVars>>

(* wait -n, the last command: the script ends with its status.             *)
WaitAny ==
  /\ At("wait")
  /\ \E x \in noted : Over(x)
  /\ Quit
  /\ UNCHANGED <<signals, noted, told, pipeVars, serverVars>>

Trap ==
  /\ vsig /\ vpc \notin {"kill", "reap", "exited", "killed"}
  /\ vsig' = FALSE
  /\ Quit
  /\ UNCHANGED <<interrupted, noted, told, pipeVars, serverVars>>

(* Mutant of KillServer: the first child is passed over.                   *)
KillNoServer ==
  /\ vpc = "kill"
  /\ "server" \in noted \ told
  /\ told' = told \cup {"server"}
  /\ UNCHANGED <<vpc, signals, noted, pipeVars, serverVars>>

(* kill -TERM: node and the subshell have no handler for it.               *)
KillServer ==
  /\ vpc = "kill"
  /\ "server" \in noted \ told
  /\ told' = told \cup {"server"}
  /\ server' = "ended"
  /\ UNCHANGED <<vpc, signals, noted, received, pipeVars>>

(* The curl of a killed loop is not killed with it.                        *)
KillLoop ==
  /\ vpc = "kill"
  /\ "server" \in noted => "server" \in told
  /\ "pipeline" \in noted \ told
  /\ told' = told \cup {"pipeline"}
  /\ loop' = "ended"
  /\ UNCHANGED <<vpc, signals, noted, producer, lines, taken, curl, serverVars>>

Killed ==
  /\ vpc = "kill"
  /\ told = noted
  /\ vpc' = "reap"
  /\ UNCHANGED <<signals, noted, told, pipeVars, serverVars>>

(* wait for each child, of the pipeline for every process.                 *)
Reap ==
  /\ vpc = "reap"
  /\ \A x \in noted : Over(x)
  /\ vpc' = "exited"
  /\ UNCHANGED <<signals, noted, told, pipeVars, serverVars>>

Shell ==
  \/ Make \/ StartServer \/ NoteServer \/ StartPipeline \/ NotePipeline
  \/ WaitAny \/ Trap \/ KillServer \/ KillLoop \/ Killed \/ Reap

Gone == vpc \in {"exited", "killed"}

(* INT or TERM to the shell; cleanup resets the traps.                     *)
ShellSignal ==
  /\ ~ Gone
  /\ IF vpc \in {"kill", "reap"} THEN vpc' = "killed" /\ UNCHANGED vsig
     ELSE vsig' = TRUE /\ UNCHANGED vpc
  /\ interrupted' = TRUE
  /\ UNCHANGED <<noted, told, pipeVars, serverVars>>

-----------------------------------------------------------------------------
(* The loop.                                                               *)

Event(n) == lines[n] = "event"

(* read a line; an empty one is skipped, another handed to curl.           *)
Read ==
  /\ loop = "read" /\ taken < Len(lines)
  /\ taken' = taken + 1
  /\ IF lines[taken + 1] = "empty" THEN UNCHANGED <<loop, curl>>
     ELSE loop' = "post" /\ curl' = "sent"
  /\ UNCHANGED <<shellVars, producer, lines, serverVars>>

(* read fails at the end of the producer's output.                         *)
ReadEnd ==
  /\ loop = "read" /\ taken = Len(lines) /\ producer = "ended"
  /\ loop' = "ended"
  /\ UNCHANGED <<shellVars, producer, lines, taken, curl, serverVars>>

CurlReturns ==
  /\ loop = "post" /\ curl = "answered"
  /\ loop' = "read" /\ curl' = "none"
  /\ UNCHANGED <<shellVars, producer, lines, taken, serverVars>>

(* Nothing listens, or the server ends before curl has its answer.         *)
NoAnswer == \/ curl = "sent" /\ server # "listening"
            \/ curl = "answered" /\ server = "ended"

(* Mutant of CurlFails: the loop goes on with the next line.               *)
CurlFailsIgnored ==
  /\ loop = "post" /\ NoAnswer
  /\ loop' = "read" /\ curl' = "none"
  /\ UNCHANGED <<shellVars, producer, lines, taken, serverVars>>

(* curl fails, and with it, under pipefail and set -e, the subshell.       *)
CurlFails ==
  /\ loop = "post" /\ NoAnswer
  /\ loop' = "ended" /\ curl' = "none"
  /\ UNCHANGED <<shellVars, producer, lines, taken, serverVars>>

Loop == Read \/ ReadEnd \/ CurlReturns \/ CurlFails

-----------------------------------------------------------------------------
(* The server, the producer, and what else may end a process.              *)

(* listen succeeds, or fails and the server exits.                         *)
Listen ==
  /\ server = "starting"
  /\ server' \in {"listening", "ended"}
  /\ UNCHANGED <<shellVars, pipeVars, received>>

(* POST /api/events, also from the curl of a loop that has been killed.    *)
Accept ==
  /\ server = "listening" /\ curl = "sent"
  /\ curl' = "answered"
  /\ received' = IF Event(taken) THEN Append(received, taken) ELSE received
  /\ UNCHANGED <<shellVars, server, producer, lines, taken, loop>>

Serve == Listen \/ Accept

(* A monitor prints: into the pipe, unless it is full, or into none.       *)
Write ==
  /\ producer = "running"
  /\ IF loop = "ended" THEN producer' = "ended" /\ UNCHANGED lines
     ELSE /\ Len(lines) < MaxLines
          /\ Len(lines) - taken < PipeSize
          /\ \E k \in Kind : lines' = Append(lines, k)
          /\ UNCHANGED producer
  /\ UNCHANGED <<shellVars, taken, loop, curl, serverVars>>

LogEnds ==
  /\ producer = "running"
  /\ producer' = "ended"
  /\ UNCHANGED <<shellVars, lines, taken, loop, curl, serverVars>>

ServerEnds ==
  /\ server \in {"starting", "listening"}
  /\ server' = "ended"
  /\ UNCHANGED <<shellVars, pipeVars, received>>

(* A signal of another's ends the loop (not the terminal's SIGINT, which a *)
(* background pipeline ignores).                                           *)
LoopEnds ==
  /\ loop \in {"read", "post"}
  /\ loop' = "ended"
  /\ UNCHANGED <<shellVars, producer, lines, taken, curl, serverVars>>

VisNext ==
  \/ Shell \/ ShellSignal \/ Loop \/ Serve
  \/ Write \/ LogEnds \/ ServerEnds \/ LoopEnds

VisSpec == VisInit /\ [][VisNext]_visVars

(* The processes that can run do; none need print, fail or be signalled.   *)
VisFair ==
  /\ VisSpec
  /\ WF_visVars(Shell) /\ WF_visVars(Loop) /\ WF_visVars(Serve)

-----------------------------------------------------------------------------

VisTypeOK ==
  /\ vpc \in {"make", "server", "note server", "pipeline", "note pipeline", "wait",
              "kill", "reap", "exited", "killed"}
  /\ vsig \in BOOLEAN /\ interrupted \in BOOLEAN
  /\ noted \subseteq {"server", "pipeline"} /\ told \subseteq noted
  /\ server \in {"none", "starting", "listening", "ended"}
  /\ producer \in {"none", "running", "ended"}
  /\ loop \in {"none", "read", "post", "ended"}
  /\ curl \in {"none", "sent", "answered"}
  /\ lines \in Seq(Kind) /\ taken \in 0..Len(lines)
  /\ received \in Seq(1..taken)

(* The events among the first n lines are what the server accepted.        *)
ReceivedTo(n) ==
  {received[i] : i \in DOMAIN received} = {k \in 1..n : Event(k)}

(* Every event line that was read reaches the server once and in order;    *)
(* only the one in hand when the loop ends may be lost, for a failed curl  *)
(* ends the loop before a later line can overtake it (bpf_vis.sh:43-49).   *)
PostsInOrder ==
  /\ \A i, j \in DOMAIN received : i < j => received[i] < received[j]
  /\ ReceivedTo(taken) \/ (loop # "read" /\ taken > 0 /\ ReceivedTo(taken - 1))

(* A script no signal comes to leaves no process behind: neither server    *)
(* nor loop nor bpf_log.sh, which it never signals, whatever failed or     *)
(* ended first.  After a signal that finds it between the start of one and *)
(* its noting, it may leave the server or the pipeline, but never both,    *)
(* unless another cuts cleanup short (bpf_vis.sh:16-29, 40-52).            *)
NothingOutlives ==
  LET Idle(p) == p \in {"none", "ended"} IN
  /\ Gone /\ ~ interrupted => Idle(server) /\ Idle(loop) /\ Idle(producer)
  /\ vpc = "exited" => Idle(server) \/ (Idle(loop) /\ Idle(producer))

(* After a signal, or once the server or the pipeline is over, the script  *)
(* ends, or has come to where only bpf_log.sh keeps it: that one is not    *)
(* signalled and ends by itself or at its next line.                       *)
WaitsOnlyForLog ==
  (vsig \/ \E x \in noted : Over(x)) ~> (Gone \/ (vpc = "reap" /\ producer = "running"))

(* The end of bpf_log.sh ends everything, after the loop has read what is  *)
(* left in the pipe (bpf_vis.sh:43-52).                                    *)
LogEndsAll == producer = "ended" ~> Gone

=============================================================================
