------------------------------ MODULE LiveView ------------------------------
(***************************************************************************)
(* The dashboard: the event server (visualization/server.js) and the       *)
(* browser sessions that follow it (public/app.js).  The server keeps a    *)
(* buffer of events and writes frames to every open stream; a session      *)
(* fetches the buffer, opens a stream, applies its frames, holds events    *)
(* back while paused, and redraws from caches keyed by a revision number.  *)
(* Each handler runs to its next await without interruption.  Streams are  *)
(* external: frames arrive in order until the connection drops, which      *)
(* loses the rest; EventSource then connects again.                        *)
(* Events are numbered in the order the server accepts them.               *)
(***************************************************************************)
EXTENDS Naturals, Sequences, SequencesExt

CONSTANTS
  Session,      \* browser sessions
  ServerMax,    \* MAX_EVENTS
  ViewMax,      \* the 5000 of trimEvents
  MaxBatch,     \* bound: events in one POST
  MaxPosts,     \* bound: events ever posted
  MaxClears,    \* bound: DELETE requests
  MaxDrops,     \* bound: connections lost
  MaxClicks     \* bound: pause clicks and filter inputs

ASSUME ViewAssumption ==
  /\ ServerMax \in Nat \ {0}
  /\ ViewMax \in Nat \ {0}
  /\ MaxBatch \in Nat /\ MaxPosts \in Nat /\ MaxClears \in Nat
  /\ MaxDrops \in Nat /\ MaxClicks \in Nat

VARIABLES
  posted,       \* events accepted so far
  buffer,       \* the server's events
  stream,       \* the frames on their way to each session
  browser,      \* the state of each session's page
  clears, drops, clicks,    \* what the bounds count
  spoiled       \* history: sessions that reconnected while holding events

vars == <<posted, buffer, stream, browser, clears, drops, clicks, spoiled>>

(* Mutant of Latest: the splice is one element late.                       *)
LatestAndOne(s, n) ==
  IF Len(s) > n + 1 THEN SubSeq(s, Len(s) - n, Len(s)) ELSE s

(* The last n elements of s: splice(0, length - n).                        *)
Latest(s, n) == IF Len(s) > n THEN SubSeq(s, Len(s) - n + 1, Len(s)) ELSE s

(* Sessions the server writes to: its set of clients.                      *)
Open == {s \in Session : browser[s].phase \in {"open", "live"}}

(* A page: how far its startup is, the events it has, those it holds back, *)
(* the revision of its events, the caches and the revision they are of,    *)
(* whether a redraw is due, and what the last one drew.  "since" is        *)
(* history: the last event accepted before the pause button was clicked.   *)
NewPage ==
  [phase |-> "fetch", fetched |-> << >>, events |-> << >>, queued |-> << >>,
   paused |-> FALSE, since |-> 0, revision |-> 0, cachedRevision |-> 0,
   cached |-> << >>, cacheValid |-> FALSE, due |-> FALSE, shown |-> << >>]

ViewInit ==
  /\ posted = 0
  /\ buffer = << >>
  /\ stream = [s \in Session |-> << >>]
  /\ browser = [s \in Session |-> NewPage]
  /\ clears = 0 /\ drops = 0 /\ clicks = 0
  /\ spoiled = {}

-----------------------------------------------------------------------------
(* The server.                                                             *)

Frame(kind, data) == [kind |-> kind, data |-> data]

Broadcast(f) ==
  stream' = [s \in Session |-> IF s \in Open THEN Append(stream[s], f)
                               ELSE stream[s]]

(* A POST of n valid lines; one without any is refused and changes nothing.*)
Post(n) ==
  LET parsed == [i \in 1..n |-> posted + i] IN
  /\ posted + n <= MaxPosts
  /\ posted' = posted + n
  /\ buffer' = Latest(buffer \o parsed, ServerMax)
  /\ Broadcast(Frame("events", parsed))
  /\ UNCHANGED <<browser, clears, drops, clicks, spoiled>>

(* A DELETE, from the clear button of any session.                         *)
Clear ==
  /\ clears < MaxClears
  /\ clears' = clears + 1
  /\ buffer' = << >>
  /\ Broadcast(Frame("clear", << >>))
  /\ UNCHANGED <<posted, browser, drops, clicks, spoiled>>

(* GET /api/events is answered.                                            *)
AnswerFetch(s) ==
  /\ browser[s].phase = "fetch"
  /\ browser' = [browser EXCEPT ![s].phase = "load", ![s].fetched = buffer]
  /\ UNCHANGED <<posted, buffer, stream, clears, drops, clicks, spoiled>>

(* Mutant of OpenStream: the snapshot sent is the one fetched at startup.  *)
OpenWithoutSnapshot(s) ==
  /\ browser[s].phase = "connect"
  /\ stream' = [stream EXCEPT ![s] = <<Frame("snapshot", browser[s].events)>>]
  /\ browser' = [browser EXCEPT ![s].phase = "open"]
  /\ spoiled' = IF browser[s].queued = << >> THEN spoiled ELSE spoiled \cup {s}
  /\ UNCHANGED <<posted, buffer, clears, drops, clicks>>

(* GET /api/events/stream: the snapshot is written and the client added.   *)
OpenStream(s) ==
  /\ browser[s].phase = "connect"
  /\ stream' = [stream EXCEPT ![s] = <<Frame("snapshot", buffer)>>]
  /\ browser' = [browser EXCEPT ![s].phase = "open"]
  /\ spoiled' = IF browser[s].queued = << >> THEN spoiled ELSE spoiled \cup {s}
  /\ UNCHANGED <<posted, buffer, clears, drops, clicks>>

(* The connection is lost with the frames on it; the page connects again.  *)
Drop(s) ==
  /\ s \in Open
  /\ drops < MaxDrops
  /\ drops' = drops + 1
  /\ stream' = [stream EXCEPT ![s] = << >>]
  /\ browser' = [browser EXCEPT ![s].phase = "connect"]
  /\ UNCHANGED <<posted, buffer, clears, clicks, spoiled>>

-----------------------------------------------------------------------------
(* The page.                                                               *)

(* markEventsChanged and scheduleRender.                                   *)
Changed(p) == [p EXCEPT !.revision = @ + 1]
Due(p) == [p EXCEPT !.due = TRUE]

(* render: the caches are rebuilt if their revision is not the events'.    *)
Drawn(p) ==
  LET fresh == p.cacheValid /\ p.cachedRevision = p.revision
      cache == IF fresh THEN p.cached ELSE p.events
  IN  [p EXCEPT !.shown = p.events, !.cacheValid = TRUE,
                !.cached = cache, !.cachedRevision = p.revision]

(* Mutants of the listeners: no new revision; no redraw.                   *)
OnEventsUnmarked(p, d) ==
  IF p.paused THEN Due([p EXCEPT !.queued = @ \o d, !.events = Latest(@, ViewMax)])
  ELSE Due([p EXCEPT !.events = Latest(@ \o d, ViewMax)])

OnEventsUndrawn(p, d) ==
  IF p.paused THEN [p EXCEPT !.queued = @ \o d, !.events = Latest(@, ViewMax)]
  ELSE Changed([p EXCEPT !.events = Latest(@ \o d, ViewMax)])

(* The stream's listeners.  A paused page trims its events, too, though    *)
(* without a new revision.                                                 *)
OnSnapshot(p, d) ==
  Due(Changed([p EXCEPT !.events = Latest(d, ViewMax), !.phase = "live"]))

OnEvents(p, d) ==
  IF p.paused THEN Due([p EXCEPT !.queued = @ \o d, !.events = Latest(@, ViewMax)])
  ELSE Due(Changed([p EXCEPT !.events = Latest(@ \o d, ViewMax)]))

OnClear(p) == Due(Changed([p EXCEPT !.events = << >>, !.queued = << >>]))

Deliver(s) ==
  LET f == Head(stream[s])
      p == browser[s]
  IN  /\ s \in Open
      /\ stream[s] # << >>
      /\ stream' = [stream EXCEPT ![s] = Tail(@)]
      /\ browser' = [browser EXCEPT ![s] =
                       CASE f.kind = "snapshot" -> OnSnapshot(p, f.data)
                         [] f.kind = "events" -> OnEvents(p, f.data)
                         [] f.kind = "clear" -> OnClear(p)]
      /\ spoiled' = IF f.kind = "clear" \/ (f.kind = "snapshot" /\ p.queued = << >>)
                    THEN spoiled \ {s} ELSE spoiled
      /\ UNCHANGED <<posted, buffer, clears, drops, clicks>>

(* loadSnapshot returns: the page takes the events, without a new revision *)
(* and without trimming, starts its stream and draws.  A frame requested   *)
(* meanwhile remains requested.                                            *)
Load(s) ==
  LET p == browser[s] IN
  /\ p.phase = "load"
  /\ browser' = [browser EXCEPT ![s] =
       Drawn([p EXCEPT !.phase = "connect", !.events = p.fetched, !.fetched = << >>])]
  /\ UNCHANGED <<posted, buffer, stream, clears, drops, clicks, spoiled>>

(* The pause button; resuming appends what was held back.                  *)
TogglePause(s) ==
  LET p == browser[s]
      q == [p EXCEPT !.paused = ~ @, !.since =
              IF p.phase = "live" THEN posted ELSE MaxPosts]
  IN  /\ clicks < MaxClicks
      /\ clicks' = clicks + 1
      /\ browser' = [browser EXCEPT ![s] = Due(
           IF p.paused /\ p.queued # << >>
           THEN Changed([q EXCEPT !.events = Latest(@ \o p.queued, ViewMax),
                                  !.queued = << >>])
           ELSE q)]
      /\ UNCHANGED <<posted, buffer, stream, clears, drops, spoiled>>

(* An input of a filter asks for a redraw, possibly before the first load. *)
Filter(s) ==
  /\ clicks < MaxClicks
  /\ ~ browser[s].due
  /\ clicks' = clicks + 1
  /\ browser' = [browser EXCEPT ![s] = Due(@)]
  /\ UNCHANGED <<posted, buffer, stream, clears, drops, spoiled>>

(* Mutant of Render: the frame is requested once and for all.              *)
RenderOnce(s) ==
  /\ browser[s].due /\ browser[s].shown = << >>
  /\ browser' = [browser EXCEPT ![s] = Drawn([@ EXCEPT !.due = FALSE])]
  /\ UNCHANGED <<posted, buffer, stream, clears, drops, clicks, spoiled>>

(* The animation frame.                                                    *)
Render(s) ==
  /\ browser[s].due
  /\ browser' = [browser EXCEPT ![s] = Drawn([@ EXCEPT !.due = FALSE])]
  /\ UNCHANGED <<posted, buffer, stream, clears, drops, clicks, spoiled>>

ViewNext ==
  \/ \E n \in 1..MaxBatch : Post(n)
  \/ Clear
  \/ \E s \in Session :
       \/ AnswerFetch(s) \/ OpenStream(s) \/ Drop(s) \/ Deliver(s)
       \/ Load(s) \/ TogglePause(s) \/ Filter(s) \/ Render(s)

ViewSpec == ViewInit /\ [][ViewNext]_vars

(* Requests are answered, frames delivered and animation frames granted as *)
(* long as the page is up; nobody need post, click or lose a connection.   *)
ViewFair ==
  /\ ViewSpec
  /\ \A s \in Session : /\ WF_vars(AnswerFetch(s)) /\ WF_vars(Load(s))
                        /\ WF_vars(OpenStream(s)) /\ WF_vars(Deliver(s))
                        /\ WF_vars(Render(s))

-----------------------------------------------------------------------------

Events == Seq(1..MaxPosts)

(* The type invariant, with the server's promise that it "keeps the latest *)
(* MAX_EVENTS entries" (visualization/README.md) and no more.              *)
ViewTypeOK ==
  /\ posted \in 0..MaxPosts
  /\ buffer \in Events /\ Len(buffer) <= ServerMax
  /\ stream \in [Session -> Seq([kind : {"snapshot", "events", "clear"},
                                 data : Events])]
  /\ browser \in [Session ->
       [phase : {"fetch", "load", "connect", "open", "live"}, fetched : Events,
        events : Events, queued : Events, paused : BOOLEAN, since : 0..MaxPosts,
        revision : Nat, cachedRevision : Nat, cached : Events,
        cacheValid : BOOLEAN, due : BOOLEAN, shown : Events]]
  /\ clears \in 0..MaxClears /\ drops \in 0..MaxDrops /\ clicks \in 0..MaxClicks
  /\ spoiled \subseteq Session

(* What session s will hold once the frames on its stream are applied and  *)
(* its queue is released.                                                  *)
InTheEnd(s) ==
  LET apply(v, f) == IF f.kind = "events" THEN v \o f.data ELSE f.data
  IN  FoldLeft(apply, browser[s].events \o browser[s].queued, stream[s])

(* The events in v were accepted in this order, each once.                 *)
Rises(v) == \A i, j \in 1..Len(v) : i < j => v[i] < v[j]

(* A session that follows the server misses nothing and repeats nothing,   *)
(* through posts between its fetch, its stream and its frames, clears,     *)
(* pauses and lost connections: what it will hold ends with the server's   *)
(* buffer, or is the end of it, has no event twice, and is empty when the  *)
(* buffer is.  Excepted is a session that reconnected with events in its   *)
(* queue, until the next snapshot or clear: its queue repeats what the     *)
(* snapshot brought (app.js:81-86, 54-58).                                 *)
FollowsServer ==
  \A s \in Open \ spoiled :
    LET v == InTheEnd(s)
        n == IF Len(v) < Len(buffer) THEN Len(v) ELSE Len(buffer)
    IN  /\ Latest(v, n) = Latest(buffer, n)
        /\ n < Len(buffer) => n >= ViewMax
        /\ Rises(v)
        /\ buffer = << >> => v = << >>

(* Once a stream has delivered, the caches a page draws from belong to     *)
(* the events it draws: no handler changes events behind a revision        *)
(* (app.js:116, 208, 375).                                                 *)
CachesCurrent ==
  \A s \in Session : LET p == browser[s] IN
    (p.revision > 0 /\ p.cacheValid /\ p.cachedRevision = p.revision)
      => p.cached = p.events

(* Nor does a live page grow beyond its limit, or draw anything stale      *)
(* without a redraw being due.                                             *)
DrawnOrDue ==
  \A s \in Session : LET p == browser[s] IN
    p.phase = "live" =>
      /\ Len(p.events) <= ViewMax
      /\ p.shown = p.events \/ p.due

(* "Connected browser sessions update live" (visualization/README.md): once*)
(* the posts stop, an unpaused session that holds no repeated events comes *)
(* to show what the server has, and keeps showing it.                      *)
UpdatesLive ==
  <>[](\A s \in Session \ spoiled : ~ browser[s].paused =>
         LET n == IF ViewMax < Len(buffer) THEN ViewMax ELSE Len(buffer)
         IN  /\ Latest(browser[s].shown, n) = Latest(buffer, n)
             /\ n = 0 => browser[s].shown = << >>)

(* The pause button's title is "Pause live updates" (index.html:19): a     *)
(* page paused while live shows no event accepted after the click.         *)
PausedFrozen ==
  \A s \in Session :
    browser[s].paused =>
      \A i \in DOMAIN browser[s].shown : browser[s].shown[i] <= browser[s].since

=============================================================================
