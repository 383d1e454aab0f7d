---------------------------- MODULE BpfVisProofs ----------------------------
(***************************************************************************)
(* bpf_vis.sh for any number of lines and any size of the pipe.            *)
(***************************************************************************)
EXTENDS BpfVis, SequenceTheorems, TLAPS

(* The numbers in r are those of the events among the first n lines of ls. *)
Posted(r, ls, n) == {r[i] : i \in DOMAIN r} = {k \in 1..n : ls[k] = "event"}

Up(r) == \A i, j \in DOMAIN r : i < j => r[i] < r[j]

(* How far the server is behind the loop, by the state of the curl.        *)
Behind ==
  /\ curl = "sent" => taken > 0 /\ Posted(received, lines, taken - 1)
  /\ curl = "answered" => Posted(received, lines, taken)
  /\ loop \in {"none", "read"} => curl = "none" /\ Posted(received, lines, taken)
  /\ loop = "post" => curl # "none"
  /\ Posted(received, lines, taken) \/ (taken > 0 /\ Posted(received, lines, taken - 1))

Early == vpc \in {"make", "server", "note server", "pipeline"} => loop = "none"

(* What is started is noted at the next command of a script that no signal *)
(* comes to; the server always before the pipeline is started.             *)
Started == loop # "none" \/ producer # "none"

Noted ==
  /\ ~ interrupted =>
       /\ ~ vsig /\ vpc # "killed"
       /\ server # "none" => "server" \in noted \/ vpc = "note server"
       /\ Started => "pipeline" \in noted \/ vpc = "note pipeline"
  /\ (vpc \in {"pipeline", "note pipeline", "wait"} \/ Started \/ "pipeline" \in noted)
       => "server" \in noted
  /\ vpc = "exited" => \A x \in noted : Over(x)

VisInv == VisTypeOK /\ Early /\ Behind /\ Up(received) /\ Noted

USE DEF signals, shellVars, pipeVars, serverVars

(* The types of the sequences and positions.                               *)
LEMMA VisTypes ==
  ASSUME VisTypeOK
  PROVE  /\ lines \in Seq(Kind) /\ Len(lines) \in Nat
         /\ taken \in Nat /\ taken \in 0..Len(lines)
         /\ received \in Seq(1..taken)
<1>1. lines \in Seq(Kind) /\ taken \in 0..Len(lines) /\ received \in Seq(1..taken)
  BY DEF VisTypeOK
<1>2. Len(lines) \in Nat
  BY <1>1, LenProperties
<1> QED  BY <1>1, <1>2

(* An event is accepted after all before it.                               *)
LEMMA AcceptedLast ==
  ASSUME NEW n \in Nat \ {0}, NEW r \in Seq(1..n), NEW ls, ls[n] = "event",
         Posted(r, ls, n - 1), Up(r)
  PROVE  Append(r, n) \in Seq(1..n) /\ Posted(Append(r, n), ls, n) /\ Up(Append(r, n))
<1> DEFINE m == Len(r)
           a == Append(r, n)
<1>1. m \in Nat /\ DOMAIN r = 1..m
  BY LenProperties
<1>2. a \in Seq(1..n) /\ Len(a) = m + 1 /\ a[m + 1] = n /\ \A i \in 1..m : a[i] = r[i]
  BY <1>1, AppendProperties
<1>3. DOMAIN a = 1..(m + 1)
  BY <1>2, LenProperties
<1> HIDE DEF a
<1> HIDE DEF m
<1>4. {a[i] : i \in 1..(m + 1)} = {r[i] : i \in 1..m} \cup {n}
  <2>1. \A i \in 1..(m + 1) : i \in 1..m \/ i = m + 1
    BY <1>1
  <2>2. 1..m \subseteq 1..(m + 1) /\ m + 1 \in 1..(m + 1)
    BY <1>1
  <2> QED  BY <1>2, <2>1, <2>2
<1>5. {k \in 1..n : ls[k] = "event"} = {k \in 1..(n - 1) : ls[k] = "event"} \cup {n}
  OBVIOUS
<1>6. Posted(a, ls, n)
  BY <1>1, <1>3, <1>4, <1>5 DEF Posted
<1>7. \A i \in 1..m : r[i] < n
  <2>1. \A i \in 1..m : r[i] \in {k \in 1..(n - 1) : ls[k] = "event"}
    BY <1>1 DEF Posted
  <2> QED  BY <1>1, <2>1
<1>8. Up(a)
  <2>1. ASSUME NEW i \in 1..(m + 1), NEW j \in 1..(m + 1), i < j PROVE a[i] < a[j]
    <3>1. i \in 1..m
      BY <1>1, <2>1
    <3>2. CASE j \in 1..m
      BY <1>1, <1>2, <2>1, <3>1, <3>2 DEF Up
    <3>3. CASE j = m + 1
      BY <1>2, <1>7, <3>1, <3>3
    <3> QED  BY <1>1, <3>2, <3>3
  <2> QED  BY <1>3, <2>1 DEF Up
<1> QED  BY <1>2, <1>6, <1>8 DEF a, m

(* A line more that is no event changes nothing.                           *)
LEMMA NotAnEvent ==
  ASSUME NEW n \in Nat \ {0}, NEW r, NEW ls, ls[n] # "event", Posted(r, ls, n - 1)
  PROVE  Posted(r, ls, n)
<1>1. {k \in 1..n : ls[k] = "event"} = {k \in 1..(n - 1) : ls[k] = "event"}
  OBVIOUS
<1> QED  BY <1>1 DEF Posted

(* Nor do lines printed after those that were read.                        *)
LEMMA LaterLines ==
  ASSUME NEW ls \in Seq(Kind), NEW k \in Kind, NEW n \in 0..Len(ls), NEW r
  PROVE  Posted(r, Append(ls, k), n) <=> Posted(r, ls, n)
<1>1. Len(ls) \in Nat
  BY LenProperties
<1>2. \A m \in 1..n : Append(ls, k)[m] = ls[m]
  BY <1>1, AppendProperties
<1>3. {m \in 1..n : Append(ls, k)[m] = "event"} = {m \in 1..n : ls[m] = "event"}
  BY <1>2
<1> QED  BY <1>3 DEF Posted

(* What the shell has noted, under its own steps and the ends of processes.*)
LEMMA NotedKept ==
  ASSUME VisTypeOK, Noted, Shell \/ ShellSignal \/ Listen \/ LogEnds \/ ServerEnds \/ LoopEnds
  PROVE  Noted'
<1> USE DEF Make, StartServer, NoteServer, Note, StartPipeline, NotePipeline, WaitAny,
            Trap, KillServer, KillLoop, Killed, Reap, At, Quit, Gone
<1>1. CASE Make \/ WaitAny \/ Killed
  <2>1. UNCHANGED <<signals, noted, pipeVars, serverVars>>
    BY <1>1
  <2>2. /\ vpc \notin {"note server", "note pipeline"}
        /\ vpc' \notin {"killed", "exited", "pipeline", "note pipeline", "wait"}
    BY <1>1
  <2> QED  BY <2>1, <2>2, Zenon DEF Noted, Started
<1>2. CASE Trap
  BY <1>2, Zenon DEF Noted, Started
<1>3. CASE StartServer
  BY <1>3 DEF Noted, Started
<1>4. CASE StartPipeline
  BY <1>4 DEF Noted, Started
<1>5. CASE NoteServer
  BY <1>5 DEF Noted, Started
<1>6. CASE NotePipeline
  BY <1>6 DEF Noted, Started
<1>7. CASE Reap
  BY <1>7 DEF Noted, Started, Over
<1>8. CASE KillServer
  BY <1>8 DEF Noted, Started
<1>9. CASE KillLoop
  BY <1>9 DEF Noted, Started
<1>10. CASE Listen \/ ServerEnds
  <2>1. UNCHANGED <<shellVars, pipeVars>> /\ server # "none" /\ server # "ended"
    BY <1>10 DEF Listen, ServerEnds
  <2>2. vpc = "exited" => "server" \notin noted
    BY <2>1 DEF Noted, Over
  <2> QED  BY <2>1, <2>2, Zenon DEF Noted, Started, Over
<1>11. CASE LogEnds \/ LoopEnds
  <2>1. UNCHANGED <<shellVars, server>> /\ Started
    BY <1>11 DEF LogEnds, LoopEnds, Started
  <2>2. vpc = "exited" => \A x \in noted : x = "server"
    BY <1>11 DEF Noted, Over, LogEnds, LoopEnds, VisTypeOK
  <2> QED  BY <2>1, <2>2, Zenon DEF Noted, Over
<1>12. CASE ShellSignal
  BY <1>12 DEF Noted, Started, Over, ShellSignal
<1> QED  BY <1>1, <1>2, <1>3, <1>4, <1>5, <1>6, <1>7, <1>8, <1>9, <1>10, <1>11, <1>12
  DEF Shell

(* The shell, and what ends a process: nothing is read or received.        *)
LEMMA ShellKeeps ==
  ASSUME VisInv, Shell \/ ShellSignal \/ Listen \/ LogEnds \/ ServerEnds \/ LoopEnds
  PROVE  VisInv'
<1> USE DEF VisInv, Shell, ShellSignal, Listen, LogEnds, ServerEnds, LoopEnds, Make,
            StartServer, NoteServer, Note, StartPipeline, NotePipeline, WaitAny,
            Trap, KillServer, KillLoop, Killed, Reap, At, Quit, Gone
<1>1. UNCHANGED <<lines, taken, received, curl>>
  OBVIOUS
<1>2. VisTypeOK'
  <2>1. vsig' \in BOOLEAN /\ interrupted' \in BOOLEAN
    BY Zenon DEF VisTypeOK
  <2>2. vpc' \in {"make", "server", "note server", "pipeline", "note pipeline", "wait",
                  "kill", "reap", "exited", "killed"}
    BY DEF VisTypeOK
  <2>3. noted' \subseteq {"server", "pipeline"} /\ told' \subseteq noted'
    BY DEF VisTypeOK
  <2>4. /\ server' \in {"none", "starting", "listening", "ended"}
        /\ producer' \in {"none", "running", "ended"}
        /\ loop' \in {"none", "read", "post", "ended"}
    BY DEF VisTypeOK
  <2> QED  BY <1>1, <2>1, <2>2, <2>3, <2>4 DEF VisTypeOK
<1>3. Up(received)'
  BY <1>1
<1>4. loop' \in {loop, "ended"} \/ (vpc = "pipeline" /\ loop' = "read")
  OBVIOUS
<1>5. Behind'
  BY <1>1, <1>4 DEF Behind, Early
<1>6. Noted'
  BY NotedKept
<1>7. Early'
  BY DEF Early, VisTypeOK
<1> QED  BY <1>2, <1>3, <1>5, <1>6, <1>7

(* The rest of the state under the steps that read, post, accept, print.   *)
LEMMA PipeFrame ==
  ASSUME VisTypeOK, Early, Noted, UNCHANGED <<shellVars, server>>,
         Read \/ ReadEnd \/ CurlReturns \/ CurlFails \/ Accept \/ Write
  PROVE  Early' /\ Noted'
<1>1. Early'
  BY DEF Early, Read, ReadEnd, CurlReturns, CurlFails, Accept, Write
<1>2. Noted'
  BY DEF Noted, Started, Over, Read, ReadEnd, CurlReturns, CurlFails, Accept, Write
<1> QED  BY <1>1, <1>2

(* The loop takes a line.                                                  *)
LEMMA ReadKeeps ==
  ASSUME VisInv, Read
  PROVE  VisInv'
<1> USE DEF VisInv, Read
<1>1. /\ lines \in Seq(Kind) /\ Len(lines) \in Nat /\ taken \in Nat
      /\ received \in Seq(1..taken) /\ taken' = taken + 1 /\ taken + 1 \in 1..Len(lines)
  BY VisTypes
<1>2. received \in Seq(1..(taken + 1))
  <2>1. \A n \in Nat : [1..n -> 1..taken] \subseteq [1..n -> 1..(taken + 1)]
    BY <1>1
  <2>2. received \in [1..Len(received) -> 1..taken] /\ Len(received) \in Nat
    BY <1>1, LenProperties
  <2> QED  BY <2>1, <2>2, SeqDef
<1>3. VisTypeOK'
  <2>1. UNCHANGED <<vpc, signals, noted, told, server, producer, lines, received>>
    OBVIOUS
  <2>2. loop' \in {"none", "read", "post", "ended"} /\ curl' \in {"none", "sent", "answered"}
    BY DEF VisTypeOK
  <2>3. taken' \in 0..Len(lines') /\ received' \in Seq(1..taken')
    BY <1>1, <1>2, <2>1
  <2> HIDE DEF Read
  <2> QED  BY <2>1, <2>2, <2>3 DEF VisTypeOK
<1>4. Early' /\ Noted'
  BY PipeFrame
<1>5. Posted(received, lines, taken)
  BY DEF Behind
<1>6. taken + 1 - 1 = taken
  BY <1>1
<1>7. CASE lines[taken + 1] = "empty"
  <2>1. Posted(received, lines, taken + 1)
    BY <1>1, <1>5, <1>6, <1>7, NotAnEvent
  <2>2. Behind'
    BY <1>1, <1>7, <2>1 DEF Behind
  <2> QED  BY <1>3, <1>4, <2>2
<1>8. CASE lines[taken + 1] # "empty"
  <2>1. taken' > 0 /\ taken' - 1 = taken
    BY <1>1
  <2>2. Behind'
    BY <1>5, <1>8, <2>1 DEF Behind
  <2> QED  BY <1>3, <1>4, <2>2
<1> QED  BY <1>7, <1>8

(* The loop goes on or ends; nothing is read or received.                  *)
LEMMA LoopKeeps ==
  ASSUME VisInv, ReadEnd \/ CurlReturns \/ CurlFails
  PROVE  VisInv'
<1> USE DEF VisInv, ReadEnd, CurlReturns, CurlFails
<1>1. VisTypeOK'
  BY DEF VisTypeOK
<1>2. Early' /\ Noted'
  BY PipeFrame
<1>3. Behind'
  BY DEF Behind
<1> QED  BY <1>1, <1>2, <1>3

(* The server accepts a line.                                              *)
LEMMA AcceptKeeps ==
  ASSUME VisInv, Accept
  PROVE  VisInv'
<1> USE DEF VisInv, Accept
<1>1. /\ taken \in Nat \ {0} /\ Posted(received, lines, taken - 1)
      /\ received \in Seq(1..taken)
  BY VisTypes DEF Behind
<1>2. Early' /\ Noted'
  BY PipeFrame
<1>3. received' \in Seq(1..taken) /\ Posted(received', lines, taken) /\ Up(received')
  <2>1. CASE Event(taken)
    BY <1>1, <2>1, AcceptedLast DEF Event
  <2>2. CASE ~ Event(taken)
    BY <1>1, <2>2, NotAnEvent DEF Event
  <2> QED  BY <2>1, <2>2
<1>4. VisTypeOK'
  BY <1>3 DEF VisTypeOK
<1>5. Behind'
  BY <1>3 DEF Behind
<1> QED  BY <1>2, <1>3, <1>4, <1>5

(* A line is printed, into the pipe or into none.                          *)
LEMMA WriteKeeps ==
  ASSUME VisInv, Write
  PROVE  VisInv'
<1> USE DEF VisInv, Write
<1>1. Early' /\ Noted'
  BY PipeFrame
<1>2. CASE lines' = lines
  <2>1. VisTypeOK' /\ Behind'
    BY <1>2 DEF VisTypeOK, Behind
  <2> QED  BY <1>1, <2>1
<1>3. ASSUME NEW k \in Kind, lines' = Append(lines, k), producer' = producer
      PROVE  VisInv'
  <2>1. lines \in Seq(Kind) /\ Len(lines) \in Nat /\ taken \in 0..Len(lines) /\ taken \in Nat
    BY VisTypes
  <2>2. lines' \in Seq(Kind) /\ Len(lines') = Len(lines) + 1
    BY <1>3, <2>1, AppendProperties
  <2>3. VisTypeOK'
    <3>1. UNCHANGED <<vpc, signals, noted, told, server, producer, loop, curl, taken, received>>
      BY <1>3
    <3>2. taken' \in 0..Len(lines')
      BY <2>1, <2>2, <3>1
    <3> HIDE DEF Write
    <3> QED  BY <2>2, <3>1, <3>2 DEF VisTypeOK
  <2>4. \A n \in 0..Len(lines) : Posted(received, lines', n) <=> Posted(received, lines, n)
    BY <1>3, <2>1, LaterLines
  <2>5. taken > 0 => taken - 1 \in 0..Len(lines)
    BY <2>1
  <2>6. Behind'
    BY <2>1, <2>4, <2>5 DEF Behind
  <2> QED  BY <1>1, <2>3, <2>6
<1> QED  BY <1>2, <1>3

(* The invariant of the pipeline holds throughout (bpf_vis.sh:31-52).      *)
LEMMA VisInductive == VisSpec => []VisInv
<1>1. VisInit => VisInv
  <2> SUFFICES ASSUME VisInit PROVE VisInv
    OBVIOUS
  <2> USE DEF VisInit
  <2>1. vsig \in BOOLEAN /\ interrupted \in BOOLEAN
    OBVIOUS
  <2>2. VisTypeOK
    BY <2>1 DEF VisTypeOK
  <2>3. Posted(received, lines, taken)
    BY DEF Posted
  <2> QED  BY <2>2, <2>3 DEF VisInv, Early, Behind, Up, Noted, Started
<1>2. VisInv /\ [VisNext]_visVars => VisInv'
  <2> SUFFICES ASSUME VisInv, [VisNext]_visVars PROVE VisInv'
    OBVIOUS
  <2>1. CASE Shell \/ ShellSignal \/ Listen \/ LogEnds \/ ServerEnds \/ LoopEnds
    BY <2>1, ShellKeeps
  <2>2. CASE Read \/ ReadEnd \/ CurlReturns \/ CurlFails
    BY <2>2, ReadKeeps, LoopKeeps
  <2>3. CASE Accept \/ Write
    BY <2>3, AcceptKeeps, WriteKeeps
  <2>4. CASE UNCHANGED visVars
    <3>1. VisTypeOK'
      BY <2>4 DEF visVars, VisInv, VisTypeOK
    <3>2. Early' /\ Behind' /\ Up(received)' /\ Noted'
      BY <2>4 DEF visVars, VisInv, Early, Behind, Noted, Started, Over
    <3> QED  BY <3>1, <3>2 DEF VisInv
  <2> QED  BY <2>1, <2>2, <2>3, <2>4 DEF VisNext, Loop, Serve
<1> QED  BY <1>1, <1>2, PTL DEF VisSpec

-----------------------------------------------------------------------------

(* The type invariant.                                                     *)
THEOREM VisTypeCorrect == VisSpec => []VisTypeOK
<1>1. VisInv => VisTypeOK
  BY DEF VisInv
<1> QED  BY <1>1, VisInductive, PTL

(* However server, loop, producer and shell end, the server has accepted   *)
(* the events that were read, in order and without a gap, but for at most  *)
(* the one in hand (bpf_vis.sh:43-49).                                     *)
THEOREM VisPostsInOrder == VisSpec => []PostsInOrder
<1>1. VisInv => PostsInOrder
  BY DEF VisInv, Behind, Up, Posted, PostsInOrder, ReceivedTo, Event
<1> QED  BY <1>1, VisInductive, PTL

(* A script that no signal comes to leaves no process of its own, and one  *)
(* that cleans up never both server and pipeline (bpf_vis.sh:16-29, 40-52).*)
THEOREM VisNothingOutlives == VisSpec => []NothingOutlives
<1>1. VisInv => NothingOutlives
  <2> SUFFICES ASSUME VisInv PROVE NothingOutlives
    OBVIOUS
  <2>1. Gone /\ ~ interrupted =>
          /\ server \in {"none", "ended"}
          /\ loop \in {"none", "ended"} /\ producer \in {"none", "ended"}
    BY DEF VisInv, Noted, Started, Over, Gone
  <2>2. vpc = "exited" =>
          \/ server \in {"none", "ended"}
          \/ loop \in {"none", "ended"} /\ producer \in {"none", "ended"}
    BY DEF VisInv, Noted, Started, Over
  <2> QED  BY <2>1, <2>2 DEF NothingOutlives
<1> QED  BY <1>1, VisInductive, PTL

=============================================================================
