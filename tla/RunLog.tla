------------------------------- MODULE RunLog -------------------------------
(***************************************************************************)
(* The log of one deploy run and those who watch it: emit, finish,         *)
(* Subscribe and Unsubscribe (internal/deploy/events.go), the event stream *)
(* handler (handleDeployEvents, internal/server/controlplane.go) and the   *)
(* EventSource of the deploy page (templates/deploy.html).                 *)
(*                                                                         *)
(* Emitters never wait for a watcher: one whose channel is full is closed  *)
(* and dropped, its browser reconnects, and the run is replayed from the   *)
(* start.  What this must not cost is an event: the page shows the log     *)
(* without a gap and without a repetition, up to the end of the run.       *)
(*                                                                         *)
(* A connection is one HTTP request with its handler goroutine, channel    *)
(* and response bytes in flight; a browser that reconnects may leave a     *)
(* handler behind that has not noticed yet.                                *)
(***************************************************************************)
EXTENDS Naturals, Sequences

CONSTANTS
  Watcher,    \* browsers showing the page
  Conn,       \* connections that can exist at one time
  NoConn,
  ChanCap,    \* capacity of a subscriber's channel (256)
  WireCap,    \* bytes in flight before the handler's write blocks, in events
  MaxEvents,  \* bound: events of a run
  MaxLives,   \* bound: lives of the control plane process
  MaxDrops    \* bound: connections the network loses

ASSUME BoundsAssumption ==
  /\ NoConn \notin Conn
  /\ ChanCap \in Nat \ {0} /\ WireCap \in Nat \ {0}
  /\ MaxEvents \in Nat /\ MaxLives \in Nat \ {0} /\ MaxDrops \in Nat

VARIABLES
  life,       \* which life of the process; run ids start over in each
  known,      \* whether the run id is known in this life
  log,        \* Run.events, as <<life, seq, type>>
  done,       \* Run.done
  subs,       \* Run.subs, by connection
  cancelling, \* a Cancel handler has seen the run unfinished
  conn,       \* the connections
  client,     \* the browsers
  drops

runVars == <<life, known, log, done, subs, cancelling>>
vars == <<runVars, conn, client, drops>>

Event == (1 .. MaxLives) \X (1 .. MaxEvents) \X {"log", "end"}
OnOpen == <<>>  \* the response headers, which fire EventSource.onopen
FreeConn == [pc |-> "free", alive |-> FALSE, replay |-> <<>>, chan |-> <<>>, closed |-> FALSE, wire |-> <<>>]
NewClient == [st |-> "waiting", conn |-> NoConn, pane |-> <<>>]
Ended == \E i \in DOMAIN log : log[i][3] = "end"

Init ==
  /\ life = 1 /\ known = TRUE
  /\ log = <<>> /\ done = FALSE /\ subs = {} /\ cancelling = FALSE
  /\ conn = [c \in Conn |-> FreeConn]
  /\ client = [w \in Watcher |-> NewClient]
  /\ drops = 0
-----------------------------------------------------------------------------
(* The run.                                                                *)

\* Mutant: a full channel is dropped without being closed.
Delivered_NotClosed(c, ev) ==
  IF Len(conn[c].chan) < ChanCap THEN [conn[c] EXCEPT !.chan = Append(@, ev)] ELSE conn[c]

\* The non-blocking send of emit; the default branch closes the channel.
Delivered(c, ev) ==
  IF Len(conn[c].chan) < ChanCap THEN [conn[c] EXCEPT !.chan = Append(@, ev)]
  ELSE [conn[c] EXCEPT !.closed = TRUE]

\* Mutant: the closed channel stays in the list.
LiveSubs_All(ev) == subs

\* The subscribers emit keeps.
LiveSubs(ev) == {c \in subs : Len(conn[c].chan) < ChanCap}

\* Mutant: the number of an event is taken after it is appended.
Emit_AfterAppend(type) ==
  LET ev == <<life, Len(log) + 2, type>> IN
  /\ known /\ Len(log) < MaxEvents
  /\ log' = Append(log, ev)
  /\ conn' = [c \in Conn |-> IF c \in subs THEN Delivered(c, ev) ELSE conn[c]]
  /\ subs' = LiveSubs(ev)

\* emit, under Run.mu: an event carries its index in the log, counted from one here
\* and from zero in the code.
Emit(type) ==
  LET ev == <<life, Len(log) + 1, type>> IN
  /\ known /\ Len(log) < MaxEvents
  /\ log' = Append(log, ev)
  /\ conn' = [c \in Conn |-> IF c \in subs THEN Delivered(c, ev) ELSE conn[c]]
  /\ subs' = LiveSubs(ev)

\* A step or a line of a deployer; the last event is the run's result.
EmitLog ==
  /\ ~Ended /\ Len(log) + 1 < MaxEvents
  /\ Emit("log")
  /\ UNCHANGED <<life, known, done, cancelling, client, drops>>

\* finish, first half: the result is emitted ...
EmitEnd ==
  /\ ~Ended
  /\ Emit("end")
  /\ UNCHANGED <<life, known, done, cancelling, client, drops>>

ClosedByFinish(c) == IF c \in subs THEN [conn[c] EXCEPT !.closed = TRUE] ELSE conn[c]

\* ... second half: done, and every channel closed.
MarkDone ==
  /\ known /\ Ended /\ ~done
  /\ done' = TRUE
  /\ conn' = [c \in Conn |-> ClosedByFinish(c)]
  /\ subs' = {}
  /\ UNCHANGED <<life, known, log, cancelling, client, drops>>

\* Engine.Cancel sees the run unfinished, then emits - maybe after the result.
CancelSeesRun ==
  /\ known /\ ~done /\ ~cancelling
  /\ cancelling' = TRUE
  /\ UNCHANGED <<life, known, log, done, subs, conn, client, drops>>

\* The event is one more log line; room for the result is kept.
EmitCancel ==
  /\ cancelling
  /\ cancelling' = FALSE
  /\ IF Len(log) + (IF Ended THEN 0 ELSE 1) < MaxEvents THEN Emit("log")
     ELSE UNCHANGED <<log, conn, subs>>
  /\ UNCHANGED <<life, known, done, client, drops>>
-----------------------------------------------------------------------------
(* The handler of a connection.                                            *)

\* Subscribe: the replay and the registration are one critical section.
Subscribe(c) ==
  /\ conn[c].pc = "subscribe"
  /\ conn' = [conn EXCEPT ![c] = [@ EXCEPT !.pc = "replay", !.replay = log]]
  /\ subs' = IF done THEN subs ELSE subs \cup {c}
  /\ UNCHANGED <<life, known, log, done, cancelling, client, drops>>

\* The replay is written and flushed; without a channel the handler returns.
SendReplay(c) ==
  /\ conn[c].pc = "replay"
  /\ conn' = [conn EXCEPT ![c] =
       [@ EXCEPT !.pc = IF c \in subs \/ conn[c].closed THEN "stream" ELSE "return",
                 !.wire = IF conn[c].alive THEN <<OnOpen>> \o conn[c].replay ELSE <<>>,
                 !.replay = <<>>]]
  /\ UNCHANGED <<runVars, client, drops>>

\* One event from the channel to the response.
SendEvent(c) ==
  /\ conn[c].pc = "stream" /\ conn[c].chan # <<>>
  /\ conn[c].alive => Len(conn[c].wire) < WireCap
  /\ conn' = [conn EXCEPT ![c].chan = Tail(@),
                         ![c].wire = IF conn[c].alive THEN Append(@, Head(conn[c].chan)) ELSE @]
  /\ UNCHANGED <<runVars, client, drops>>

\* The channel is closed and drained, or the request's context is done.
Leave(c) ==
  /\ conn[c].pc = "stream"
  /\ (conn[c].closed /\ conn[c].chan = <<>>) \/ ~conn[c].alive
  /\ conn' = [conn EXCEPT ![c].pc = "return"]
  /\ UNCHANGED <<runVars, client, drops>>

SubsAfterReturn(c) == subs \ {c}

\* The deferred Unsubscribe; the response ends once the browser has read it.
Return(c) ==
  /\ conn[c].pc = "return"
  /\ subs' = SubsAfterReturn(c)
  /\ conn' = [conn EXCEPT ![c] = IF @.alive THEN [FreeConn EXCEPT !.pc = "over", !.wire = conn[c].wire, !.alive = TRUE]
                                 ELSE FreeConn]
  /\ UNCHANGED <<life, known, log, done, cancelling, client, drops>>
-----------------------------------------------------------------------------
(* The browser.                                                            *)

\* A request for the events of the run: 404 ends the EventSource for good.
Connect(w) ==
  /\ client[w].st = "waiting"
  /\ IF known
       THEN \E c \in Conn :
              /\ conn[c].pc = "free"
              /\ conn' = [conn EXCEPT ![c] = [FreeConn EXCEPT !.pc = "subscribe", !.alive = TRUE]]
              /\ client' = [client EXCEPT ![w].st = "open", ![w].conn = c]
       ELSE client' = [client EXCEPT ![w].st = "failed"] /\ UNCHANGED conn
  /\ UNCHANGED <<runVars, drops>>

\* The connection c as the server sees it once the browser has gone.
Abandoned(c) ==
  IF conn[c].pc = "over" THEN FreeConn ELSE [conn[c] EXCEPT !.alive = FALSE, !.wire = <<>>]

\* Mutant: the pane is not cleared when the stream is opened again.
PaneOnOpen_Kept(w) == client[w].pane

PaneOnOpen(w) == <<>>

\* onopen clears the pane, onmessage appends, the result closes the EventSource.
Receive(w) ==
  LET c == client[w].conn
      ev == Head(conn[c].wire)
  IN
  /\ client[w].st = "open" /\ conn[c].wire # <<>>
  /\ IF ev # OnOpen /\ ev[3] = "end"
       THEN /\ client' = [client EXCEPT ![w] = [st |-> "finished", conn |-> NoConn, pane |-> Append(@.pane, ev)]]
            /\ conn' = [conn EXCEPT ![c] = Abandoned(c)]
       ELSE /\ client' = [client EXCEPT ![w].pane = IF ev = OnOpen THEN PaneOnOpen(w) ELSE Append(@, ev)]
            /\ conn' = [conn EXCEPT ![c].wire = Tail(@)]
  /\ UNCHANGED <<runVars, drops>>

\* The response has ended: the browser reconnects.
EndOfResponse(w) ==
  LET c == client[w].conn IN
  /\ client[w].st = "open" /\ conn[c].pc = "over" /\ conn[c].wire = <<>>
  /\ client' = [client EXCEPT ![w].st = "waiting", ![w].conn = NoConn]
  /\ conn' = [conn EXCEPT ![c] = FreeConn]
  /\ UNCHANGED <<runVars, drops>>

\* The network loses the connection with what is in flight.
Drop(w) ==
  /\ client[w].st = "open" /\ drops < MaxDrops
  /\ drops' = drops + 1
  /\ client' = [client EXCEPT ![w].st = "waiting", ![w].conn = NoConn]
  /\ conn' = [conn EXCEPT ![client[w].conn] = Abandoned(client[w].conn)]
  /\ UNCHANGED runVars
-----------------------------------------------------------------------------
(* The process restarts: runs are forgotten; the next one may get the same id. *)
Restart ==
  /\ life < MaxLives
  /\ life' = life + 1 /\ known' = FALSE
  /\ log' = <<>> /\ done' = FALSE /\ subs' = {} /\ cancelling' = FALSE
  /\ conn' = [c \in Conn |-> FreeConn]
  /\ client' = [w \in Watcher |->
       IF client[w].st = "open" THEN [client[w] EXCEPT !.st = "waiting", !.conn = NoConn] ELSE client[w]]
  /\ UNCHANGED drops

NewRun ==
  /\ ~known
  /\ known' = TRUE
  /\ UNCHANGED <<life, log, done, subs, cancelling, conn, client, drops>>

Server(c) == Subscribe(c) \/ SendReplay(c) \/ SendEvent(c) \/ Leave(c) \/ Return(c)
Browser(w) == Connect(w) \/ Receive(w) \/ EndOfResponse(w)
Engine == EmitLog \/ EmitEnd \/ MarkDone \/ CancelSeesRun \/ EmitCancel

Next ==
  \/ Engine \/ Restart \/ NewRun
  \/ \E c \in Conn : Server(c)
  \/ \E w \in Watcher : Browser(w) \/ Drop(w)

Spec == Init /\ [][Next]_vars

\* Runs end (module DeployEngine); goroutines and browsers are scheduled.
Fairness ==
  /\ WF_vars(EmitEnd) /\ WF_vars(MarkDone)
  /\ \A c \in Conn : WF_vars(Server(c))
  /\ \A w \in Watcher : WF_vars(Browser(w))

LiveSpec == Spec /\ Fairness
-----------------------------------------------------------------------------
ConnType ==
  [pc : {"free", "subscribe", "replay", "stream", "return", "over"}, alive : BOOLEAN,
   replay : Seq(Event), chan : Seq(Event), closed : BOOLEAN, wire : Seq(Event \cup {OnOpen})]

TypeOK ==
  /\ life \in 1 .. MaxLives /\ known \in BOOLEAN
  /\ log \in Seq(Event) /\ done \in BOOLEAN /\ cancelling \in BOOLEAN
  /\ subs \subseteq Conn
  /\ conn \in [Conn -> ConnType]
  /\ client \in [Watcher -> [st : {"waiting", "open", "finished", "failed"},
                             conn : Conn \cup {NoConn}, pane : Seq(Event)]]
  /\ drops \in 0 .. MaxDrops

\* events.go:65-69 "dropping lines from the middle of the log is worse than a gap
\* the reader can see", deploy.html:154-157: whatever was dropped, lost or
\* replayed, a page shows the events of one run from its first, each once and in
\* order, and never the events of two runs that had the same id.
PaneIsPrefix ==
  \A w \in Watcher : \A i \in DOMAIN client[w].pane :
    /\ client[w].pane[i][2] = i
    /\ client[w].pane[i][1] = client[w].pane[1][1]
    /\ client[w].pane[i][1] = life => i <= Len(log) /\ client[w].pane[i] = log[i]

\* events.go:124-125 "Closing here is safe against emit and finish": a registered
\* channel is open, so that no send and no close hits a closed one, which would
\* panic in the deploy goroutine with Run.mu held.
RegisteredChannelsAreOpen == \A c \in subs : ~conn[c].closed

\* events.go:117-123 "left a channel ... alive for the rest of the run": nobody is
\* registered but the handlers that are still there to read.
NoSubscriptionIsLeaked == \A c \in subs : conn[c].pc \in {"replay", "stream", "return"}

\* Who is registered with a run has an open channel and is there to read it.
SubscriptionsAreSound == RegisteredChannelsAreOpen /\ NoSubscriptionIsLeaked

\* events.go:18-19 "an SSE subscriber that connects late still sees the full log":
\* every page reaches the end of the run, unless a restart has made its run
\* unknown.
WatchersSeeTheEnd ==
  \A w \in Watcher : client[w].st = "waiting" ~> client[w].st \in {"finished", "failed"}
=============================================================================
