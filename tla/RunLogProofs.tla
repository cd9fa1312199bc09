---------------------------- MODULE RunLogProofs ----------------------------
(***************************************************************************)
(* Proofs about RunLog, for any number of browsers and connections, every  *)
(* channel capacity and every length of the log.                           *)
(***************************************************************************)
EXTENDS RunLog, SequenceTheorems, TLAPS

\* A subscription belongs to a handler between Subscribe and Unsubscribe and its
\* channel is open; nothing is closed before the handler has subscribed; a
\* browser that is open has a connection.
SubsInv ==
  \A c \in Conn :
    /\ c \in subs => conn[c].pc \in {"replay", "stream", "return"} /\ ~conn[c].closed
    /\ conn[c].pc \in {"free", "subscribe", "over"} => ~conn[c].closed

OpenHasConn == \A w \in Watcher : client[w].st = "open" => client[w].conn \in Conn

\* The events of s are those of the log l after position off; off is -1 for what
\* begins with the response headers.
Fits(s, off, l) ==
  /\ off + Len(s) <= Len(l)
  /\ \A i \in 1 .. Len(s) : off + i > 0 => s[i] = l[off + i]

\* Where the log continues what is on the wire of a connection k that is shown in
\* a pane p, and what is in its channel.
WireBase(p, k) == IF k.wire # <<>> /\ k.wire[1] = OnOpen THEN -1 ELSE Len(p)
ChanBase(p, k) == IF k.pc = "replay" THEN Len(k.replay) ELSE WireBase(p, k) + Len(k.wire)

\* Pane, wire, replay and channel follow each other in the log, and reach its end
\* as long as the handler is subscribed.
Flow(p, k, l, c, S) ==
  /\ k.alive /\ k.pc # "free"
  /\ k.pc = "subscribe" => k.wire = <<>> /\ k.chan = <<>> /\ k.replay = <<>>
  /\ k.pc = "replay" => k.wire = <<>> /\ Fits(k.replay, 0, l)
  /\ k.pc \in {"stream", "return", "over"} =>
       /\ Fits(k.wire, WireBase(p, k), l)
       /\ WireBase(p, k) # -1 => Fits(p, 0, l)
  /\ k.pc # "subscribe" =>
       /\ Fits(k.chan, ChanBase(p, k), l)
       /\ c \in S => ChanBase(p, k) + Len(k.chan) = Len(l)

FlowInv ==
  \A w \in Watcher : client[w].st = "open" =>
    LET c == client[w].conn IN Flow(client[w].pane, conn[c], log, c, subs)

\* Two pages never share a connection.
OwnConn ==
  \A v, w \in Watcher :
    client[v].st = "open" /\ client[w].st = "open" /\ client[v].conn = client[w].conn => v = w

LogShape == \A i \in 1 .. Len(log) : log[i][1] = life /\ log[i][2] = i

PaneShape ==
  \A w \in Watcher : \A i \in 1 .. Len(client[w].pane) :
    /\ client[w].pane[i][2] = i
    /\ client[w].pane[i][1] = client[w].pane[1][1]
    /\ client[w].pane[i][1] <= life
    /\ client[w].pane[i][1] = life => i <= Len(log) /\ client[w].pane[i] = log[i]

IInv == TypeOK /\ SubsInv /\ OpenHasConn /\ FlowInv /\ OwnConn /\ LogShape /\ PaneShape

LEMMA FreeConnType == FreeConn \in ConnType
  BY DEF FreeConn, ConnType

\* What emit and finish make of a connection is one, and keeps its handler's place.
LEMMA DeliveredType ==
  ASSUME NEW c \in Conn, conn[c] \in ConnType, NEW ev \in Event
  PROVE  /\ Delivered(c, ev) \in ConnType
         /\ Delivered(c, ev).pc = conn[c].pc
         /\ Len(conn[c].chan) < ChanCap => Delivered(c, ev).closed = conn[c].closed
<1>1. conn[c].chan \in Seq(Event)
  BY DEF ConnType
<1>2. Append(conn[c].chan, ev) \in Seq(Event)
  BY <1>1
<1>3. CASE Len(conn[c].chan) < ChanCap
  <2>1. Delivered(c, ev) = [conn[c] EXCEPT !.chan = Append(conn[c].chan, ev)]
    BY <1>3 DEF Delivered
  <2> QED BY <1>2, <1>3, <2>1 DEF ConnType
<1>4. CASE ~(Len(conn[c].chan) < ChanCap)
  <2>1. Delivered(c, ev) = [conn[c] EXCEPT !.closed = TRUE]
    BY <1>4 DEF Delivered
  <2> QED BY <1>4, <2>1 DEF ConnType
<1> QED BY <1>3, <1>4

LEMMA EmitType ==
  ASSUME TypeOK, NEW type \in {"log", "end"}, Emit(type)
  PROVE  log' \in Seq(Event) /\ conn' \in [Conn -> ConnType] /\ subs' \subseteq Conn
<1> DEFINE ev == <<life, Len(log) + 1, type>>
<1>1. Len(log) \in Nat /\ Len(log) + 1 \in 1 .. MaxEvents
  BY BoundsAssumption DEF TypeOK, Emit
<1>2. ev \in Event
  BY <1>1 DEF TypeOK, Event
<1>3. log' \in Seq(Event)
  BY <1>2 DEF TypeOK, Emit
<1>4. \A c \in Conn : conn[c] \in ConnType /\ Delivered(c, ev) \in ConnType
  BY <1>2, DeliveredType DEF TypeOK
<1>5. conn' \in [Conn -> ConnType]
  BY <1>4 DEF Emit
<1>6. subs' \subseteq Conn
  BY DEF Emit, LiveSubs, TypeOK
<1> QED BY <1>3, <1>5, <1>6

LEMMA InitIsTyped == Init => TypeOK
<1> SUFFICES ASSUME Init PROVE TypeOK
  OBVIOUS
<1>1. known \in BOOLEAN /\ done \in BOOLEAN /\ cancelling \in BOOLEAN
  BY Zenon DEF Init
<1>2. conn \in [Conn -> ConnType]
  BY FreeConnType DEF Init
<1>3. client \in [Watcher -> [st : {"waiting", "open", "finished", "failed"},
                             conn : Conn \cup {NoConn}, pane : Seq(Event)]]
  BY DEF Init, NewClient
<1>4. life \in 1 .. MaxLives /\ drops \in 0 .. MaxDrops
  BY BoundsAssumption DEF Init
<1> QED BY <1>1, <1>2, <1>3, <1>4 DEF Init, TypeOK

\* What the browser receives goes into the pane.
LEMMA ReceivedType ==
  ASSUME NEW s \in Seq(Event \cup {OnOpen}), s # <<>>, NEW pane \in Seq(Event)
  PROVE  /\ Tail(s) \in Seq(Event \cup {OnOpen})
         /\ Head(s) # OnOpen => Append(pane, Head(s)) \in Seq(Event)
  BY HeadTailProperties, AppendProperties

LEMMA AbandonedType ==
  ASSUME NEW c \in Conn, conn[c] \in ConnType
  PROVE  /\ Abandoned(c) \in ConnType
         /\ Abandoned(c).pc = IF conn[c].pc = "over" THEN "free" ELSE conn[c].pc
         /\ Abandoned(c).closed = IF conn[c].pc = "over" THEN FALSE ELSE conn[c].closed
  BY FreeConnType DEF Abandoned, ConnType, FreeConn

LEMMA EngineTypes == TypeOK /\ Engine => TypeOK'
<1> SUFFICES ASSUME TypeOK, Engine PROVE TypeOK'
  OBVIOUS
<1>1. CASE EmitLog
  BY <1>1, EmitType DEF EmitLog, TypeOK
<1>2. CASE EmitEnd
  BY <1>2, EmitType DEF EmitEnd, TypeOK
<1>3. CASE MarkDone
  <2>1. ASSUME NEW c \in Conn PROVE ClosedByFinish(c) \in ConnType
    <3>1. conn[c] \in ConnType /\ [conn[c] EXCEPT !.closed = TRUE] \in ConnType
      BY DEF ConnType, TypeOK
    <3> QED BY <3>1 DEF ClosedByFinish
  <2> QED BY <1>3, <2>1 DEF MarkDone, TypeOK
<1>4. CASE CancelSeesRun
  BY <1>4 DEF CancelSeesRun, TypeOK
<1>5. CASE EmitCancel
  BY <1>5, EmitType DEF EmitCancel, TypeOK
<1> QED BY <1>1, <1>2, <1>3, <1>4, <1>5 DEF Engine

LEMMA ServerTypes == ASSUME TypeOK, NEW c \in Conn, Server(c) PROVE TypeOK'
<1>0. conn[c] \in ConnType
  BY DEF TypeOK
<1>1. CASE Subscribe(c)
  <2>1. [conn[c] EXCEPT !.pc = "replay", !.replay = log] \in ConnType
    BY <1>0 DEF TypeOK, ConnType
  <2> QED BY <1>1, <2>1 DEF Subscribe, TypeOK
<1>2. CASE SendReplay(c)
  <2>1. conn[c].replay \in Seq(Event \cup {OnOpen}) /\ <<OnOpen>> \in Seq(Event \cup {OnOpen})
    BY <1>0, SeqMonotonic DEF ConnType
  <2>2. <<OnOpen>> \o conn[c].replay \in Seq(Event \cup {OnOpen})
    BY <2>1, ConcatProperties
  <2> DEFINE p == IF c \in subs \/ conn[c].closed THEN "stream" ELSE "return"
             wr == IF conn[c].alive THEN <<OnOpen>> \o conn[c].replay ELSE <<>>
  <2>3. conn' = [conn EXCEPT ![c] = [conn[c] EXCEPT !.pc = p, !.wire = wr, !.replay = <<>>]]
    BY <1>2 DEF SendReplay
  <2>4. p \in {"stream", "return"} /\ wr \in Seq(Event \cup {OnOpen})
    BY <2>2, EmptySeq
  <2> HIDE DEF p, wr
  <2>5. [conn[c] EXCEPT !.pc = p, !.wire = wr, !.replay = <<>>] \in ConnType
    BY <1>0, <2>4, EmptySeq DEF ConnType
  <2> QED BY <1>2, <2>3, <2>5 DEF SendReplay, runVars, TypeOK
<1>3. CASE SendEvent(c)
  <2>1. /\ Tail(conn[c].chan) \in Seq(Event)
        /\ Append(conn[c].wire, Head(conn[c].chan)) \in Seq(Event \cup {OnOpen})
    BY <1>0, <1>3, HeadTailProperties, AppendProperties DEF SendEvent, ConnType
  <2> DEFINE wr == IF conn[c].alive THEN Append(conn[c].wire, Head(conn[c].chan)) ELSE conn[c].wire
  <2>2. conn' = [conn EXCEPT ![c] = [conn[c] EXCEPT !.chan = Tail(conn[c].chan), !.wire = wr]]
    BY <1>3 DEF SendEvent
  <2>3. wr \in Seq(Event \cup {OnOpen})
    BY <1>0, <2>1 DEF ConnType
  <2> HIDE DEF wr
  <2>4. [conn[c] EXCEPT !.chan = Tail(conn[c].chan), !.wire = wr] \in ConnType
    BY <1>0, <2>1, <2>3 DEF ConnType
  <2> QED BY <1>3, <2>2, <2>4 DEF SendEvent, runVars, TypeOK
<1>4. CASE Leave(c)
  <2>1. [conn[c] EXCEPT !.pc = "return"] \in ConnType
    BY <1>0 DEF ConnType
  <2> QED BY <1>4, <2>1 DEF Leave, runVars, TypeOK
<1>5. CASE Return(c)
  <2>1. [FreeConn EXCEPT !.pc = "over", !.wire = conn[c].wire, !.alive = TRUE] \in ConnType
    BY <1>0, FreeConnType DEF ConnType
  <2> QED BY <1>5, <2>1, FreeConnType DEF Return, SubsAfterReturn, TypeOK
<1> QED BY <1>1, <1>2, <1>3, <1>4, <1>5 DEF Server

LEMMA BrowserTypes ==
  ASSUME TypeOK, OpenHasConn, NEW w \in Watcher, Browser(w) \/ Drop(w)
  PROVE  TypeOK' /\ OpenHasConn'
<1> USE DEF TypeOK, OpenHasConn
<1>1. CASE Connect(w)
  <2>1. CASE known
    <3>1. PICK c \in Conn :
            /\ conn' = [conn EXCEPT ![c] = [FreeConn EXCEPT !.pc = "subscribe", !.alive = TRUE]]
            /\ client' = [client EXCEPT ![w].st = "open", ![w].conn = c]
      BY <1>1, <2>1 DEF Connect
    <3>2. [FreeConn EXCEPT !.pc = "subscribe", !.alive = TRUE] \in ConnType
      BY FreeConnType DEF ConnType
    <3>3. UNCHANGED <<runVars, drops>>
      BY <1>1 DEF Connect
    <3>4. conn' \in [Conn -> ConnType]
      BY <3>1, <3>2
    <3>5. client' \in [Watcher -> [st : {"waiting", "open", "finished", "failed"},
                                   conn : Conn \cup {NoConn}, pane : Seq(Event)]]
      BY <3>1
    <3>6. ASSUME NEW v \in Watcher, client'[v].st = "open"
          PROVE  client'[v].conn \in Conn
      <4>1. CASE v = w
        <5>1. PICK d \in Conn : client' = [client EXCEPT ![w].st = "open", ![w].conn = d]
          BY <3>1
        <5>2. client'[w].conn = d
          BY <5>1
        <5> QED BY <4>1, <5>2
      <4>2. CASE v # w
        <5>1. client'[v] = client[v]
          BY <3>1, <4>2
        <5> QED BY <3>6, <5>1
      <4> QED BY <4>1, <4>2
    <3> QED BY <3>3, <3>4, <3>5, <3>6 DEF runVars
  <2>2. CASE ~known
    <3>1. client' = [client EXCEPT ![w].st = "failed"] /\ UNCHANGED <<runVars, drops, conn>>
      BY <1>1, <2>2 DEF Connect
    <3> QED BY <3>1 DEF runVars
  <2> QED BY <2>1, <2>2
<1>2. CASE Receive(w)
  <2> DEFINE c == client[w].conn
             ev == Head(conn[c].wire)
  <2>1. c \in Conn /\ conn[c] \in ConnType /\ conn[c].wire # <<>>
    BY <1>2 DEF Receive
  <2>2. conn[c].wire \in Seq(Event \cup {OnOpen})
    BY <2>1 DEF ConnType
  <2>3. /\ Tail(conn[c].wire) \in Seq(Event \cup {OnOpen})
        /\ ev # OnOpen => Append(client[w].pane, ev) \in Seq(Event)
    BY <2>1, <2>2, ReceivedType
  <2>4. [conn[c] EXCEPT !.wire = Tail(@)] \in ConnType
    BY <2>1, <2>3 DEF ConnType
  <2>5. Abandoned(c) \in ConnType
    BY <2>1, AbandonedType
  <2>6. CASE ev # OnOpen /\ ev[3] = "end"
    <3>1. /\ client' = [client EXCEPT ![w] = [st |-> "finished", conn |-> NoConn,
                                              pane |-> Append(client[w].pane, ev)]]
          /\ conn' = [conn EXCEPT ![c] = Abandoned(c)]
      BY <1>2, <2>6 DEF Receive
    <3> HIDE DEF c, ev
    <3> QED BY <1>2, <2>1, <2>3, <2>5, <2>6, <3>1 DEF Receive, runVars
  <2>7. CASE ~(ev # OnOpen /\ ev[3] = "end")
    <3> DEFINE p == IF ev = OnOpen THEN PaneOnOpen(w) ELSE Append(client[w].pane, ev)
    <3>1. p \in Seq(Event)
      BY <2>3, EmptySeq DEF PaneOnOpen
    <3>2. /\ client' = [client EXCEPT ![w].pane = p]
          /\ conn' = [conn EXCEPT ![c] = [conn[c] EXCEPT !.wire = Tail(conn[c].wire)]]
      BY <1>2, <2>7 DEF Receive
    <3>3. UNCHANGED <<runVars, drops>>
      BY <1>2 DEF Receive
    <3> HIDE DEF p, c, ev
    <3> QED BY <2>1, <2>4, <3>1, <3>2, <3>3 DEF runVars
  <2> QED BY <2>6, <2>7
<1>3. CASE EndOfResponse(w)
  BY <1>3, FreeConnType DEF EndOfResponse, runVars
<1>4. CASE Drop(w)
  <2>1. Abandoned(client[w].conn) \in ConnType
    BY <1>4, AbandonedType DEF Drop
  <2> QED BY <1>4, <2>1, BoundsAssumption DEF Drop, runVars
<1> QED BY <1>1, <1>2, <1>3, <1>4 DEF Browser

LEMMA StepIsTyped == TypeOK /\ OpenHasConn /\ [Next]_vars => TypeOK' /\ OpenHasConn'
<1> SUFFICES ASSUME TypeOK, OpenHasConn, [Next]_vars PROVE TypeOK' /\ OpenHasConn'
  OBVIOUS
<1>1. CASE Engine
  <2>1. UNCHANGED client
    BY <1>1 DEF Engine, EmitLog, EmitEnd, MarkDone, CancelSeesRun, EmitCancel
  <2> QED BY <1>1, <2>1, EngineTypes DEF OpenHasConn
<1>2. CASE Restart
  <2>1. conn' \in [Conn -> ConnType]
    BY <1>2, FreeConnType DEF Restart
  <2>2. life' \in 1 .. MaxLives
    <3>1. life < MaxLives /\ life' = life + 1
      BY <1>2 DEF Restart
    <3>2. life \in 1 .. MaxLives /\ MaxLives \in Nat
      BY BoundsAssumption DEF TypeOK
    <3> QED BY <3>1, <3>2
  <2>3. client' \in [Watcher -> [st : {"waiting", "open", "finished", "failed"},
                               conn : Conn \cup {NoConn}, pane : Seq(Event)]]
        /\ OpenHasConn'
    BY <1>2 DEF Restart, TypeOK, OpenHasConn
  <2>4. known' \in BOOLEAN /\ done' \in BOOLEAN /\ cancelling' \in BOOLEAN
    BY <1>2, Zenon DEF Restart
  <2> QED BY <1>2, <2>1, <2>2, <2>3, <2>4, EmptySeq DEF Restart, TypeOK
<1>3. CASE NewRun
  BY <1>3 DEF NewRun, TypeOK, OpenHasConn
<1>4. ASSUME NEW c \in Conn, Server(c) PROVE TypeOK' /\ OpenHasConn'
  <2>1. UNCHANGED client
    BY <1>4 DEF Server, Subscribe, SendReplay, SendEvent, Leave, Return
  <2> QED BY <1>4, <2>1, ServerTypes DEF OpenHasConn
<1>5. ASSUME NEW w \in Watcher, Browser(w) \/ Drop(w) PROVE TypeOK' /\ OpenHasConn'
  BY <1>5, BrowserTypes
<1>6. CASE UNCHANGED vars
  BY <1>6 DEF vars, runVars, TypeOK, OpenHasConn
<1> QED BY <1>1, <1>2, <1>3, <1>4, <1>5, <1>6 DEF Next
-----------------------------------------------------------------------------
(* Subscriptions.                                                          *)

LEMMA EmitSubs ==
  ASSUME TypeOK, SubsInv, NEW type \in {"log", "end"}, Emit(type)
  PROVE  SubsInv'
<1> DEFINE ev == <<life, Len(log) + 1, type>>
<1>1. ev \in Event
  BY BoundsAssumption DEF TypeOK, Emit, Event
<1>2. ASSUME NEW c \in Conn PROVE SubsInv!(c)'
  <2>1. conn[c] \in ConnType
    BY DEF TypeOK
  <2>2. conn'[c] = IF c \in subs THEN Delivered(c, ev) ELSE conn[c]
    BY DEF Emit
  <2>3. c \in subs' <=> c \in subs /\ Len(conn[c].chan) < ChanCap
    BY DEF Emit, LiveSubs
  <2> HIDE DEF ev
  <2> QED BY <1>1, <2>1, <2>2, <2>3, DeliveredType DEF SubsInv
<1> QED BY <1>2 DEF SubsInv

LEMMA SubsAreKept == TypeOK /\ OpenHasConn /\ SubsInv /\ [Next]_vars => SubsInv'
<1> SUFFICES ASSUME TypeOK, OpenHasConn, SubsInv, [Next]_vars PROVE SubsInv'
  OBVIOUS
<1> USE DEF SubsInv
<1>0. \A c \in Conn : conn[c] \in ConnType
  BY DEF TypeOK
<1>1. CASE EmitLog \/ EmitEnd
  BY <1>1, EmitSubs DEF EmitLog, EmitEnd
<1>2. CASE EmitCancel
  BY <1>2, EmitSubs DEF EmitCancel
<1>3. CASE MarkDone
  BY <1>3, <1>0 DEF MarkDone, ClosedByFinish, ConnType
<1>4. CASE CancelSeesRun \/ NewRun \/ UNCHANGED vars
  BY <1>4 DEF CancelSeesRun, NewRun, vars, runVars
<1>5. CASE Restart
  BY <1>5 DEF Restart, FreeConn
<1>6. ASSUME NEW c \in Conn, Server(c) PROVE SubsInv'
  <2>1. CASE Subscribe(c)
    BY <1>0, <2>1 DEF Subscribe, TypeOK, ConnType
  <2>2. CASE SendReplay(c)
    BY <1>0, <2>2 DEF SendReplay, TypeOK, ConnType, runVars
  <2>3. CASE SendEvent(c)
    BY <1>0, <2>3 DEF SendEvent, TypeOK, ConnType, runVars
  <2>4. CASE Leave(c)
    BY <1>0, <2>4 DEF Leave, TypeOK, ConnType, runVars
  <2>5. CASE Return(c)
    <3> DEFINE k == [FreeConn EXCEPT !.pc = "over", !.wire = conn[c].wire, !.alive = TRUE]
    <3>1. conn' = [conn EXCEPT ![c] = IF conn[c].alive THEN k ELSE FreeConn] /\ subs' = subs \ {c}
      BY <2>5 DEF Return, SubsAfterReturn
    <3>2. k.closed = FALSE /\ FreeConn.closed = FALSE
      BY DEF FreeConn
    <3> HIDE DEF k
    <3> QED BY <1>0, <3>1, <3>2 DEF TypeOK
  <2> QED BY <1>6, <2>1, <2>2, <2>3, <2>4, <2>5 DEF Server
<1>7. ASSUME NEW w \in Watcher, Browser(w) \/ Drop(w) PROVE SubsInv'
  <2>1. CASE Connect(w)
    <3>1. CASE known
      <4>1. PICK c \in Conn :
              /\ conn[c].pc = "free"
              /\ conn' = [conn EXCEPT ![c] = [FreeConn EXCEPT !.pc = "subscribe", !.alive = TRUE]]
        BY <2>1, <3>1 DEF Connect
      <4>2. UNCHANGED subs
        BY <2>1 DEF Connect, runVars
      <4> QED BY <1>0, <4>1, <4>2 DEF TypeOK, FreeConn
    <3>2. CASE ~known
      BY <2>1, <3>2 DEF Connect, runVars
    <3> QED BY <3>1, <3>2
  <2>2. CASE Receive(w) \/ Drop(w)
    <3> DEFINE c == client[w].conn
    <3>1. c \in Conn /\ UNCHANGED subs
      BY <2>2 DEF Receive, Drop, OpenHasConn, runVars
    <3>2. \/ conn' = [conn EXCEPT ![c] = Abandoned(c)]
          \/ conn' = [conn EXCEPT ![c].wire = Tail(@)]
      BY <2>2 DEF Receive, Drop
    <3> HIDE DEF c
    <3>3. CASE conn' = [conn EXCEPT ![c] = Abandoned(c)]
      <4>1. Abandoned(c).pc = IF conn[c].pc = "over" THEN "free" ELSE conn[c].pc
        BY <1>0, <3>1, AbandonedType
      <4>2. Abandoned(c).closed = IF conn[c].pc = "over" THEN FALSE ELSE conn[c].closed
        BY <1>0, <3>1, AbandonedType
      <4> QED BY <3>1, <3>3, <4>1, <4>2 DEF TypeOK
    <3>4. CASE conn' = [conn EXCEPT ![c].wire = Tail(@)]
      BY <1>0, <3>1, <3>4 DEF TypeOK, ConnType
    <3> QED BY <3>2, <3>3, <3>4
  <2>3. CASE EndOfResponse(w)
    BY <1>0, <2>3 DEF EndOfResponse, TypeOK, ConnType, FreeConn, runVars, OpenHasConn
  <2> QED BY <1>7, <2>1, <2>2, <2>3 DEF Browser
<1> QED BY <1>1, <1>2, <1>3, <1>4, <1>5, <1>6, <1>7 DEF Next, Engine
-----------------------------------------------------------------------------
(* The flow of the events.                                                 *)

Items == Event \cup {OnOpen}

LEMMA EventIsNotOnOpen == OnOpen \notin Event
<1>1. \A a, b, d : <<>> # <<a, b, d>>
  OBVIOUS
<1> QED BY <1>1 DEF Event, OnOpen

LEMMA EventsAreItems == \A s \in Seq(Event) : s \in Seq(Items)
  BY SeqMonotonic DEF Items

LEMMA FitsEmpty ==
  ASSUME NEW l \in Seq(Event), NEW off \in Int, off <= Len(l)
  PROVE  Fits(<<>>, off, l)
  BY DEF Fits

LEMMA FitsAppend ==
  ASSUME NEW l \in Seq(Event), NEW s \in Seq(Items), NEW off \in Int, Fits(s, off, l),
         NEW e \in Items, off + Len(s) + 1 <= Len(l),
         off + Len(s) + 1 > 0 => e = l[off + Len(s) + 1]
  PROVE  Fits(Append(s, e), off, l)
<1>1. /\ Len(Append(s, e)) = Len(s) + 1 /\ Len(s) \in Nat
      /\ \A i \in 1 .. Len(s) : Append(s, e)[i] = s[i]
      /\ Append(s, e)[Len(s) + 1] = e
  BY AppendProperties
<1> QED BY <1>1 DEF Fits

LEMMA FitsTail ==
  ASSUME NEW l \in Seq(Event), NEW s \in Seq(Items), s # <<>>, NEW off \in Int, Fits(s, off, l)
  PROVE  Fits(Tail(s), off + 1, l) /\ Len(Tail(s)) = Len(s) - 1
<1>1. /\ Len(Tail(s)) = Len(s) - 1 /\ Len(s) \in Nat /\ Len(s) # 0
      /\ \A i \in 1 .. Len(Tail(s)) : Tail(s)[i] = s[i + 1]
  OBVIOUS
<1> QED BY <1>1 DEF Fits

LEMMA FitsGrows ==
  ASSUME NEW l \in Seq(Event), NEW s \in Seq(Items), NEW off \in Int, Fits(s, off, l), NEW e \in Event
  PROVE  Fits(s, off, Append(l, e))
<1>1. /\ Len(Append(l, e)) = Len(l) + 1 /\ Len(l) \in Nat
      /\ \A i \in 1 .. Len(l) : Append(l, e)[i] = l[i]
  BY AppendProperties
<1>2. Len(s) \in Nat
  OBVIOUS
<1> QED BY <1>1, <1>2 DEF Fits

\* The parts of a connection's record, and the positions they begin at.
LEMMA FlowParts ==
  ASSUME NEW p \in Seq(Event), NEW k \in ConnType, NEW l \in Seq(Event)
  PROVE  /\ k.wire \in Seq(Items) /\ k.chan \in Seq(Items) /\ k.replay \in Seq(Items)
         /\ p \in Seq(Items)
         /\ WireBase(p, k) \in Int /\ WireBase(p, k) >= -1
         /\ ChanBase(p, k) \in Int /\ ChanBase(p, k) >= -1
         /\ Len(p) \in Nat /\ Len(l) \in Nat /\ Len(k.wire) \in Nat
         /\ Len(k.chan) \in Nat /\ Len(k.replay) \in Nat
<1>1. /\ k.wire \in Seq(Items) /\ k.chan \in Seq(Items) /\ k.replay \in Seq(Items)
      /\ p \in Seq(Items) /\ l \in Seq(Items)
  BY EventsAreItems DEF ConnType, Items
<1>2. /\ Len(p) \in Nat /\ Len(l) \in Nat /\ Len(k.wire) \in Nat
      /\ Len(k.chan) \in Nat /\ Len(k.replay) \in Nat
  BY <1>1
<1>3. WireBase(p, k) \in Int /\ WireBase(p, k) >= -1
  BY <1>2 DEF WireBase
<1>4. k.wire # <<>> => Len(k.wire) >= 1
  BY <1>1
<1>5. ChanBase(p, k) \in Int /\ ChanBase(p, k) >= -1
  <2>1. CASE k.wire # <<>>
    BY <1>2, <1>3, <1>4, <2>1 DEF ChanBase
  <2>2. CASE k.wire = <<>>
    <3>1. WireBase(p, k) = Len(p)
      BY <2>2 DEF WireBase
    <3> QED BY <1>2, <3>1 DEF ChanBase
  <2> QED BY <2>1, <2>2
<1> QED BY <1>1, <1>2, <1>3, <1>5

\* emit: the log grows, and so does the channel of a subscriber that is kept.
LEMMA FlowEmit ==
  ASSUME NEW p \in Seq(Event), NEW k \in ConnType, NEW m \in ConnType, NEW l \in Seq(Event),
         NEW e \in Event, NEW c, NEW S, NEW T, Flow(p, k, l, c, S),
         m.pc = k.pc, m.alive = k.alive, m.wire = k.wire, m.replay = k.replay,
         IF c \in T THEN c \in S /\ m.chan = Append(k.chan, e) ELSE m.chan = k.chan,
         k.pc = "subscribe" => c \notin T
  PROVE  Flow(p, m, Append(l, e), c, T)
<1>0. /\ k.chan \in Seq(Items) /\ k.wire \in Seq(Items) /\ k.replay \in Seq(Items) /\ p \in Seq(Items)
      /\ WireBase(p, k) \in Int /\ ChanBase(p, k) \in Int /\ ChanBase(p, k) >= -1
      /\ Len(k.chan) \in Nat /\ Len(l) \in Nat
  BY FlowParts
<1>1. WireBase(p, m) = WireBase(p, k) /\ ChanBase(p, m) = ChanBase(p, k)
  BY DEF WireBase, ChanBase
<1>2. Append(l, e) \in Seq(Event) /\ Len(Append(l, e)) = Len(l) + 1 /\ Append(l, e)[Len(l) + 1] = e
  BY AppendProperties
<1>3. \A s \in Seq(Items), off \in Int : Fits(s, off, l) => Fits(s, off, Append(l, e))
  BY FitsGrows
<1>4. ASSUME k.pc # "subscribe"
      PROVE  /\ Fits(m.chan, ChanBase(p, m), Append(l, e))
             /\ c \in T => ChanBase(p, m) + Len(m.chan) = Len(Append(l, e))
  <2>1. Fits(k.chan, ChanBase(p, k), Append(l, e))
    BY <1>0, <1>3, <1>4 DEF Flow
  <2>2. CASE c \in T
    <3>1. ChanBase(p, k) + Len(k.chan) = Len(l)
      BY <1>4, <2>2 DEF Flow
    <3>2. e \in Items
      BY DEF Items
    <3>3. Fits(Append(k.chan, e), ChanBase(p, k), Append(l, e))
      <4> DEFINE g == Append(l, e)
                 off == ChanBase(p, k)
                 s == k.chan
      <4>1. g \in Seq(Event) /\ s \in Seq(Items) /\ off \in Int /\ Fits(s, off, g)
        BY <1>0, <1>2, <2>1
      <4>0. off + Len(s) = Len(l) /\ Len(g) = Len(l) + 1 /\ Len(l) \in Nat /\ g[Len(l) + 1] = e
        BY <1>0, <1>2, <3>1
      <4> HIDE DEF g, off, s
      <4>2. off + Len(s) + 1 <= Len(g) /\ e = g[off + Len(s) + 1]
        BY <4>0
      <4>3. Fits(Append(s, e), off, g)
        BY <3>2, <4>1, <4>2, FitsAppend
      <4> QED BY <4>3 DEF g, off, s
    <3>4. Len(Append(k.chan, e)) = Len(k.chan) + 1
      BY <1>0, <3>2, AppendProperties
    <3>5. m.chan = Append(k.chan, e)
      BY <2>2
    <3>6. ChanBase(p, m) + Len(m.chan) = Len(Append(l, e))
      <4>1. Len(m.chan) = Len(k.chan) + 1
        BY <3>4, <3>5
      <4>2. ChanBase(p, k) + (Len(k.chan) + 1) = Len(l) + 1
        BY <1>0, <3>1
      <4> QED BY <1>1, <1>2, <4>1, <4>2
    <3> QED BY <1>1, <3>3, <3>5, <3>6
  <2>3. CASE c \notin T
    BY <1>1, <2>1, <2>3
  <2> QED BY <2>2, <2>3
<1>5. \A s \in Seq(Items) : Fits(s, 0, l) => Fits(s, 0, Append(l, e))
  BY <1>3
<1>6. Fits(k.wire, WireBase(p, k), l) => Fits(k.wire, WireBase(p, k), Append(l, e))
  BY <1>0, <1>3
<1> QED BY <1>0, <1>1, <1>4, <1>5, <1>6 DEF Flow

\* A channel that is closed, a handler that goes on to return: nothing moves.
LEMMA FlowStays ==
  ASSUME NEW p \in Seq(Event), NEW k \in ConnType, NEW m \in ConnType, NEW l \in Seq(Event),
         NEW c, NEW S, NEW T, Flow(p, k, l, c, S), c \in T => c \in S,
         m.alive = k.alive, m.wire = k.wire, m.replay = k.replay, m.chan = k.chan,
         m.pc = k.pc \/ (k.pc = "stream" /\ m.pc = "return")
  PROVE  Flow(p, m, l, c, T)
<1>1. WireBase(p, m) = WireBase(p, k) /\ ChanBase(p, m) = ChanBase(p, k)
  BY DEF WireBase, ChanBase
<1> QED BY <1>1 DEF Flow

\* Subscribe: the replay is the log.
LEMMA FlowSubscribe ==
  ASSUME NEW p \in Seq(Event), NEW k \in ConnType, NEW l \in Seq(Event),
         NEW c, NEW S, NEW T, Flow(p, k, l, c, S), k.pc = "subscribe"
  PROVE  Flow(p, [k EXCEPT !.pc = "replay", !.replay = l], l, c, T)
<1> DEFINE m == [k EXCEPT !.pc = "replay", !.replay = l]
<1>1. /\ m.pc = "replay" /\ m.replay = l /\ m.wire = <<>> /\ m.chan = <<>> /\ m.alive
      /\ m \in ConnType
  BY DEF ConnType, Flow
<1>2. ChanBase(p, m) = Len(l)
  BY <1>1 DEF ChanBase
<1>3. Fits(l, 0, l) /\ Fits(<<>>, Len(l), l)
  BY DEF Fits
<1> HIDE DEF m
<1>4. Flow(p, m, l, c, T)
  BY <1>1, <1>2, <1>3 DEF Flow
<1> QED BY <1>4 DEF m

\* The replay goes on the wire, behind the headers.
LEMMA FlowReplay ==
  ASSUME NEW p \in Seq(Event), NEW k \in ConnType, NEW m \in ConnType, NEW l \in Seq(Event),
         NEW c, NEW S, Flow(p, k, l, c, S), k.pc = "replay",
         m.pc \in {"stream", "return"}, m.alive = k.alive, m.chan = k.chan,
         m.wire = <<OnOpen>> \o k.replay
  PROVE  Flow(p, m, l, c, S)
<1>1. k.replay \in Seq(Items) /\ <<OnOpen>> \in Seq(Items) /\ Len(k.replay) \in Nat
  BY FlowParts DEF Items
<1>2. /\ Len(m.wire) = 1 + Len(k.replay) /\ m.wire[1] = OnOpen
      /\ \A i \in 2 .. Len(m.wire) : m.wire[i] = k.replay[i - 1]
  <2> DEFINE r == k.replay
             s == m.wire
  <2>1. s = <<OnOpen>> \o r
    OBVIOUS
  <2> HIDE DEF r, s
  <2>2. r \in Seq(Items) /\ <<OnOpen>> \in Seq(Items) /\ Len(<<OnOpen>>) = 1 /\ <<OnOpen>>[1] = OnOpen
    BY <1>1 DEF r
  <2>3. /\ Len(s) = 1 + Len(r) /\ s[1] = OnOpen
        /\ \A i \in 2 .. Len(s) : s[i] = r[i - 1]
    BY <2>1, <2>2
  <2> QED BY <2>3 DEF r, s
<1>3. m.wire \in Seq(Items)
  BY <1>1, ConcatProperties
<1>4. WireBase(p, m) = -1 /\ ChanBase(p, m) = Len(k.replay)
  BY <1>1, <1>2, <1>3 DEF WireBase, ChanBase
<1>5. Fits(m.wire, -1, l)
  BY <1>1, <1>2 DEF Fits, Flow
<1>6. ChanBase(p, k) = Len(k.replay)
  BY DEF ChanBase
<1> QED BY <1>4, <1>5, <1>6 DEF Flow

\* An event goes from the channel to the wire.
LEMMA FlowSend ==
  ASSUME NEW p \in Seq(Event), NEW k \in ConnType, NEW m \in ConnType, NEW l \in Seq(Event),
         NEW c, NEW S, Flow(p, k, l, c, S), k.pc = "stream", k.chan # <<>>,
         m.pc = k.pc, m.alive = k.alive, m.chan = Tail(k.chan),
         m.wire = Append(k.wire, Head(k.chan))
  PROVE  Flow(p, m, l, c, S)
<1> DEFINE wb == WireBase(p, k)
           cb == ChanBase(p, k)
           e == Head(k.chan)
<1>1. /\ k.chan \in Seq(Items) /\ k.wire \in Seq(Items) /\ Len(k.wire) \in Nat
      /\ Len(p) \in Nat /\ wb \in Int /\ cb \in Int /\ cb >= -1 /\ Len(l) \in Nat
      /\ Len(k.chan) \in Nat
  BY FlowParts
<1>2. cb = wb + Len(k.wire) /\ Fits(k.chan, cb, l) /\ Fits(k.wire, wb, l)
  BY DEF ChanBase, Flow
<1>3. e \in Items /\ e = k.chan[1] /\ Len(k.chan) >= 1
  BY <1>1
<1>4. cb + 1 <= Len(l) /\ (cb + 1 > 0 => e = l[cb + 1])
  <2> DEFINE s == k.chan
             n == Len(k.chan)
  <2>1. /\ cb + n <= Len(l) /\ \A i \in 1 .. n : cb + i > 0 => s[i] = l[cb + i]
        /\ cb \in Int /\ n \in Nat /\ n >= 1 /\ Len(l) \in Nat /\ e = s[1]
    BY <1>1, <1>2, <1>3 DEF Fits
  <2> HIDE DEF cb, e, s, n
  <2> QED BY <2>1
<1>5. Len(m.wire) = Len(k.wire) + 1 /\ m.wire # <<>>
      /\ m.wire[1] = IF k.wire = <<>> THEN e ELSE k.wire[1]
  <2> DEFINE s == k.wire
  <2>1. s \in Seq(Items) /\ m.wire = Append(s, e) /\ (s = <<>> <=> Len(s) = 0)
    BY <1>1
  <2> HIDE DEF s, e
  <2>2. /\ Append(s, e) # <<>> /\ Len(Append(s, e)) = Len(s) + 1
        /\ \A i \in 1 .. Len(s) : Append(s, e)[i] = s[i]
        /\ Append(s, e)[Len(s) + 1] = e
    BY <1>3, <2>1, AppendProperties
  <2>3. Len(s) \in Nat
    BY <2>1
  <2>4. Append(s, e)[1] = IF s = <<>> THEN e ELSE s[1]
    BY <2>1, <2>2, <2>3
  <2> QED BY <2>1, <2>2, <2>4 DEF s
<1>6. cb >= 0
  <2>1. CASE k.wire = <<>>
    <3>1. WireBase(p, k) = Len(p) /\ Len(k.wire) = 0
      BY <2>1 DEF WireBase
    <3> QED BY <1>1, <1>2, <3>1
  <2>2. CASE k.wire # <<>>
    <3>1. Len(k.wire) >= 1
      BY <1>1, <2>2
    <3>2. WireBase(p, k) >= -1
      BY FlowParts
    <3> HIDE DEF cb
    <3> QED BY <1>1, <1>2, <3>1, <3>2
  <2> QED BY <2>1, <2>2
<1>7. e \in Event
  BY <1>1, <1>3 DEF ConnType
<1>8. WireBase(p, m) = wb
  BY <1>5, <1>7, EventIsNotOnOpen DEF WireBase
<1>9. ChanBase(p, m) = cb + 1
  BY <1>1, <1>2, <1>5, <1>8 DEF ChanBase
<1> HIDE DEF wb, cb, e
<1>10. Fits(Append(k.wire, e), wb, l)
  BY <1>1, <1>2, <1>3, <1>4, <1>6, FitsAppend
<1>11. Fits(Tail(k.chan), cb + 1, l) /\ Len(Tail(k.chan)) = Len(k.chan) - 1
  BY <1>1, <1>2, FitsTail
<1>12. m.wire = Append(k.wire, e)
  BY DEF e
<1>13. c \in S => cb + Len(k.chan) = Len(l)
  BY DEF Flow, cb
<1>14. wb # -1 => Fits(p, 0, l)
  BY DEF Flow, wb
<1>15. c \in S => ChanBase(p, m) + Len(m.chan) = Len(l)
  <2>1. Len(m.chan) = Len(k.chan) - 1
    BY <1>11
  <2> DEFINE n == Len(k.chan)
  <2>2. cb \in Int /\ n \in Nat
    BY <1>1
  <2> HIDE DEF n
  <2>3. (cb + 1) + (n - 1) = cb + n
    BY <2>2
  <2> QED BY <1>9, <1>13, <2>1, <2>3 DEF n
<1>16. k.alive /\ m.pc = "stream"
  BY DEF Flow
<1> QED BY <1>8, <1>9, <1>10, <1>11, <1>12, <1>14, <1>15, <1>16 DEF Flow

\* What follows an item on the wire is an event.
LEMMA TailHasNoHeaders ==
  ASSUME NEW l \in Seq(Event), NEW s \in Seq(Items), s # <<>>, NEW off \in Int, off >= -1,
         Fits(s, off, l), Tail(s) # <<>>
  PROVE  Tail(s)[1] # OnOpen
<1>1. Len(s) \in Nat /\ Len(s) >= 2 /\ Tail(s)[1] = s[2] /\ Len(l) \in Nat
  OBVIOUS
<1>2. s[2] = l[off + 2] /\ off + 2 \in 1 .. Len(l)
  BY <1>1 DEF Fits
<1>3. s[2] \in Event
  BY <1>2, ElementOfSeq
<1> QED BY <1>1, <1>3, EventIsNotOnOpen

\* The browser takes an item off the wire: the headers clear the pane, an event is
\* appended to it.
LEMMA FlowReceive ==
  ASSUME NEW p \in Seq(Event), NEW q \in Seq(Event), NEW k \in ConnType, NEW m \in ConnType,
         NEW l \in Seq(Event), NEW c, NEW S, Flow(p, k, l, c, S), k.wire # <<>>,
         m.pc = k.pc, m.alive = k.alive, m.chan = k.chan, m.wire = Tail(k.wire),
         IF k.wire[1] = OnOpen THEN q = <<>> ELSE q = Append(p, k.wire[1])
  PROVE  Flow(q, m, l, c, S) /\ Fits(q, 0, l)
<1> DEFINE wb == WireBase(p, k)
<1>1. /\ k.wire \in Seq(Items) /\ Len(k.wire) \in Nat /\ Len(p) \in Nat /\ p \in Seq(Items)
      /\ wb \in Int /\ wb >= -1 /\ Len(l) \in Nat
  BY FlowParts
<1>2. k.pc \in {"stream", "return", "over"}
  BY DEF Flow, ConnType
<1>3. Fits(k.wire, wb, l) /\ (wb # -1 => Fits(p, 0, l))
  BY <1>2 DEF Flow
<1>4. Fits(m.wire, wb + 1, l) /\ Len(m.wire) = Len(k.wire) - 1
  BY <1>1, <1>3, FitsTail
<1>5. m.wire # <<>> => m.wire[1] # OnOpen
  BY <1>1, <1>3, TailHasNoHeaders
<1>6. WireBase(q, m) = Len(q)
  BY <1>5 DEF WireBase
<1>7. Len(q) = wb + 1 /\ Fits(q, 0, l)
  <2>1. CASE k.wire[1] = OnOpen
    <3>1. wb = -1 /\ q = <<>>
      BY <2>1 DEF WireBase
    <3> QED BY <1>1, <3>1, FitsEmpty
  <2>2. CASE k.wire[1] # OnOpen
    <3>1. wb = Len(p) /\ q = Append(p, k.wire[1])
      BY <2>2 DEF WireBase
    <3>2. k.wire[1] \in Items /\ Len(k.wire) >= 1
      BY <1>1
    <3>3. wb + 1 <= Len(l) /\ k.wire[1] = l[wb + 1]
      BY <1>1, <1>3, <3>1, <3>2 DEF Fits
    <3>4. Fits(p, 0, l) /\ 0 + Len(p) + 1 = Len(p) + 1
      BY <1>1, <1>3, <3>1
    <3>5. Fits(Append(p, k.wire[1]), 0, l)
      BY <1>1, <3>1, <3>2, <3>3, <3>4, FitsAppend
    <3>6. Len(Append(p, k.wire[1])) = Len(p) + 1
      BY <1>1, <3>2, AppendProperties
    <3> QED BY <3>1, <3>5, <3>6
  <2> QED BY <2>1, <2>2
<1>8. ChanBase(q, m) = ChanBase(p, k)
  <2>1. ChanBase(p, k) = wb + Len(k.wire)
    BY <1>2 DEF ChanBase
  <2>2. ChanBase(q, m) = (wb + 1) + (Len(k.wire) - 1)
    BY <1>2, <1>4, <1>6, <1>7 DEF ChanBase
  <2> DEFINE n == Len(k.wire)
  <2>3. wb \in Int /\ n \in Nat
    BY <1>1
  <2> HIDE DEF wb, n
  <2>4. (wb + 1) + (n - 1) = wb + n
    BY <2>3
  <2> QED BY <2>1, <2>2, <2>4 DEF n
<1> QED BY <1>2, <1>4, <1>6, <1>7, <1>8 DEF Flow

\* The handler has returned: what is on the wire is still to be read.
LEMMA FlowReturn ==
  ASSUME NEW p \in Seq(Event), NEW k \in ConnType, NEW m \in ConnType, NEW l \in Seq(Event),
         NEW c, NEW S, Flow(p, k, l, c, S), k.pc = "return",
         m.pc = "over", m.alive = TRUE, m.chan = <<>>, m.wire = k.wire, NEW T, c \notin T
  PROVE  Flow(p, m, l, c, T)
<1> DEFINE wb == WireBase(p, k)
<1>1. /\ Len(k.wire) \in Nat /\ wb \in Int /\ Len(l) \in Nat
  BY FlowParts
<1>2. WireBase(p, m) = wb /\ ChanBase(p, m) = wb + Len(k.wire)
  BY DEF WireBase, ChanBase
<1>3. Fits(k.wire, wb, l) /\ (wb # -1 => Fits(p, 0, l))
  BY DEF Flow
<1>4. wb + Len(k.wire) <= Len(l)
  BY <1>3 DEF Fits
<1> HIDE DEF wb
<1>5. wb + Len(k.wire) \in Int
  BY <1>1
<1>6. Fits(<<>>, wb + Len(k.wire), l)
  BY <1>4, <1>5, FitsEmpty
<1> QED BY <1>2, <1>3, <1>6 DEF Flow
-----------------------------------------------------------------------------
(* Every step keeps the flow.                                              *)

StreamInv == FlowInv /\ OwnConn

\* The open pages, with what they are made of.
LEMMA OpenPage ==
  ASSUME TypeOK, OpenHasConn, NEW w \in Watcher, client[w].st = "open"
  PROVE  /\ client[w].conn \in Conn /\ client[w].pane \in Seq(Event)
         /\ conn[client[w].conn] \in ConnType /\ log \in Seq(Event)
  BY DEF TypeOK, OpenHasConn

LEMMA EmitKeepsStreams ==
  ASSUME TypeOK, TypeOK', SubsInv, OpenHasConn, StreamInv,
         NEW type \in {"log", "end"}, Emit(type), UNCHANGED client
  PROVE  StreamInv'
<1> DEFINE ev == <<life, Len(log) + 1, type>>
<1>1. ev \in Event /\ log' = Append(log, ev)
  BY BoundsAssumption DEF TypeOK, Emit, Event
<1>2. ASSUME NEW w \in Watcher, client[w].st = "open"
      PROVE  LET c == client[w].conn IN Flow(client[w].pane, conn'[c], log', c, subs')
  <2> DEFINE c == client[w].conn
             k == conn[c]
             m == conn'[c]
  <2>1. c \in Conn /\ client[w].pane \in Seq(Event) /\ k \in ConnType /\ log \in Seq(Event)
    BY <1>2, OpenPage
  <2>2. m \in ConnType
    BY <2>1 DEF TypeOK
  <2>3. m = IF c \in subs THEN Delivered(c, ev) ELSE k
    BY <2>1 DEF Emit
  <2>4. c \in subs' <=> c \in subs /\ Len(k.chan) < ChanCap
    BY <2>1 DEF Emit, LiveSubs
  <2>5. Flow(client[w].pane, k, log, c, subs)
    BY <1>2 DEF StreamInv, FlowInv
  <2>6. k.pc = "subscribe" => c \notin subs
    BY <2>1 DEF SubsInv
  <2> HIDE DEF ev
  <2>7. /\ m.pc = k.pc /\ m.alive = k.alive /\ m.wire = k.wire /\ m.replay = k.replay
        /\ IF c \in subs' THEN c \in subs /\ m.chan = Append(k.chan, ev) ELSE m.chan = k.chan
    BY <2>1, <2>3, <2>4 DEF Delivered, ConnType
  <2> HIDE DEF c, k, m
  <2>8. Flow(client[w].pane, m, Append(log, ev), c, subs')
    BY <1>1, <2>1, <2>2, <2>4, <2>5, <2>6, <2>7, FlowEmit
  <2> QED BY <1>1, <2>8 DEF c, k, m
<1> QED BY <1>2 DEF StreamInv, FlowInv, OwnConn

\* A step that touches one connection, of a page or of none, and no log.
LEMMA OneConnection ==
  ASSUME TypeOK, TypeOK', OpenHasConn, StreamInv, NEW c \in Conn,
         UNCHANGED <<log, client>>,
         \A d \in Conn \ {c} : conn'[d] = conn[d] /\ (d \in subs' => d \in subs),
         \A w \in Watcher : client[w].st = "open" /\ client[w].conn = c =>
           Flow(client[w].pane, conn'[c], log, c, subs')
  PROVE  StreamInv'
<1>1. ASSUME NEW w \in Watcher, client[w].st = "open", client[w].conn # c
      PROVE  LET d == client[w].conn IN Flow(client[w].pane, conn'[d], log, d, subs')
  <2> DEFINE d == client[w].conn
  <2>1. d \in Conn \ {c} /\ client[w].pane \in Seq(Event) /\ conn[d] \in ConnType /\ log \in Seq(Event)
    BY <1>1, OpenPage
  <2>2. Flow(client[w].pane, conn[d], log, d, subs)
    BY <1>1 DEF StreamInv, FlowInv
  <2>3. conn'[d] = conn[d] /\ (d \in subs' => d \in subs)
    BY <2>1
  <2> DEFINE k == conn[d]
             p == client[w].pane
  <2>4. p \in Seq(Event) /\ k \in ConnType /\ log \in Seq(Event) /\ Flow(p, k, log, d, subs)
    BY <2>1, <2>2
  <2> HIDE DEF d, k, p
  <2>5. Flow(p, k, log, d, subs')
    BY <2>3, <2>4 DEF Flow
  <2> QED BY <2>3, <2>5 DEF d, k, p
<1> QED BY <1>1 DEF StreamInv, FlowInv, OwnConn

LEMMA ServerKeepsStreams ==
  ASSUME TypeOK, TypeOK', SubsInv, OpenHasConn, StreamInv, NEW c \in Conn, Server(c)
  PROVE  StreamInv'
<1> DEFINE k == conn[c]
           m == conn'[c]
<1>1. k \in ConnType /\ m \in ConnType /\ log \in Seq(Event)
  BY DEF TypeOK
<1>2. UNCHANGED <<log, client>>
  BY DEF Server, Subscribe, SendReplay, SendEvent, Leave, Return, runVars
<1>3. \A d \in Conn \ {c} : conn'[d] = conn[d] /\ (d \in subs' => d \in subs)
  BY DEF Server, Subscribe, SendReplay, SendEvent, Leave, Return, SubsAfterReturn, runVars, TypeOK
<1>4. ASSUME NEW w \in Watcher, client[w].st = "open", client[w].conn = c
      PROVE  Flow(client[w].pane, m, log, c, subs')
  <2> DEFINE p == client[w].pane
  <2>0. SUFFICES Flow(p, m, log, c, subs')
    OBVIOUS
  <2>1. p \in Seq(Event)
    BY <1>4, OpenPage
  <2>2. Flow(p, k, log, c, subs)
    BY <1>4 DEF StreamInv, FlowInv
  <2>3. k.alive
    BY <2>2 DEF Flow
  <2>4. CASE Subscribe(c)
    <3>1. k.pc = "subscribe" /\ m = [k EXCEPT !.pc = "replay", !.replay = log]
      BY <2>4 DEF Subscribe, TypeOK
    <3> HIDE DEF k, m, p
    <3> QED BY <1>1, <2>1, <2>2, <3>1, FlowSubscribe
  <2>5. CASE SendReplay(c)
    <3>1. /\ k.pc = "replay" /\ m.pc \in {"stream", "return"} /\ m.alive = k.alive
          /\ m.chan = k.chan /\ m.wire = <<OnOpen>> \o k.replay /\ UNCHANGED subs
      BY <1>1, <2>3, <2>5 DEF SendReplay, TypeOK, ConnType, runVars
    <3> HIDE DEF k, m, p
    <3> QED BY <1>1, <2>1, <2>2, <3>1, FlowReplay
  <2>6. CASE SendEvent(c)
    <3>1. /\ k.pc = "stream" /\ k.chan # <<>> /\ m.pc = k.pc /\ m.alive = k.alive
          /\ m.chan = Tail(k.chan) /\ m.wire = Append(k.wire, Head(k.chan)) /\ UNCHANGED subs
      BY <1>1, <2>3, <2>6 DEF SendEvent, TypeOK, ConnType, runVars
    <3> HIDE DEF k, m, p
    <3> QED BY <1>1, <2>1, <2>2, <3>1, FlowSend
  <2>7. CASE Leave(c)
    <3>1. /\ k.pc = "stream" /\ m.pc = "return" /\ m.alive = k.alive /\ m.chan = k.chan
          /\ m.wire = k.wire /\ m.replay = k.replay /\ UNCHANGED subs
      BY <1>1, <2>7 DEF Leave, TypeOK, ConnType, runVars
    <3> HIDE DEF k, m, p
    <3> QED BY <1>1, <2>1, <2>2, <3>1, FlowStays
  <2>8. CASE Return(c)
    <3>1. /\ k.pc = "return" /\ m.pc = "over" /\ m.alive = TRUE /\ m.chan = <<>>
          /\ m.wire = k.wire /\ c \notin subs'
      BY <1>1, <2>3, <2>8 DEF Return, SubsAfterReturn, FreeConn, TypeOK, ConnType
    <3> HIDE DEF k, m, p
    <3> QED BY <1>1, <2>1, <2>2, <3>1, FlowReturn
  <2> QED BY <2>4, <2>5, <2>6, <2>7, <2>8 DEF Server
<1> QED BY <1>2, <1>3, <1>4, OneConnection

\* A page that leaves its connection, whatever becomes of that.
LEMMA PageLeaves ==
  ASSUME TypeOK, TypeOK', OpenHasConn, StreamInv, NEW w \in Watcher,
         UNCHANGED <<log, subs>>,
         \A v \in Watcher \ {w} : client'[v] = client[v],
         client'[w].st # "open", client[w].st = "open",
         \A d \in Conn \ {client[w].conn} : conn'[d] = conn[d]
  PROVE  StreamInv'
<1>1. ASSUME NEW v \in Watcher, client'[v].st = "open"
      PROVE  /\ client[v].st = "open" /\ client'[v] = client[v]
             /\ conn'[client[v].conn] = conn[client[v].conn]
  <2>1. v # w /\ client'[v] = client[v] /\ client[v].st = "open"
    BY <1>1
  <2>2. client[v].conn \in Conn /\ client[v].conn # client[w].conn
    BY <2>1, OpenPage DEF StreamInv, OwnConn
  <2> QED BY <2>1, <2>2
<1> QED BY <1>1 DEF StreamInv, FlowInv, OwnConn

LEMMA ConnectKeepsStreams ==
  ASSUME TypeOK, TypeOK', SubsInv, OpenHasConn, StreamInv, NEW w \in Watcher, Connect(w)
  PROVE  StreamInv'
<1>1. CASE known
  <2>1. PICK c \in Conn :
          /\ conn[c].pc = "free"
          /\ conn' = [conn EXCEPT ![c] = [FreeConn EXCEPT !.pc = "subscribe", !.alive = TRUE]]
          /\ client' = [client EXCEPT ![w].st = "open", ![w].conn = c]
    BY <1>1 DEF Connect
  <2>2. UNCHANGED <<log, subs>>
    BY DEF Connect, runVars
  <2>3. Flow(client'[w].pane, conn'[c], log, c, subs)
    BY <2>1 DEF Flow, FreeConn, TypeOK
  <2>4. ASSUME NEW v \in Watcher, v # w, client'[v].st = "open"
        PROVE  /\ client'[v] = client[v] /\ client[v].conn # c
               /\ conn'[client[v].conn] = conn[client[v].conn]
    <3>1. client'[v] = client[v]
      BY <2>1, <2>4 DEF TypeOK
    <3>2. conn[client[v].conn].pc # "free" /\ client[v].conn \in Conn
      BY <2>4, <3>1, OpenPage DEF StreamInv, FlowInv, Flow
    <3> QED BY <2>1, <3>1, <3>2 DEF TypeOK
  <2>5. client'[w].conn = c
    BY <2>1 DEF TypeOK
  <2>6. FlowInv'
    BY <2>2, <2>3, <2>4, <2>5 DEF StreamInv, FlowInv
  <2>7. OwnConn'
    BY <2>4, <2>5 DEF StreamInv, OwnConn
  <2> QED BY <2>6, <2>7 DEF StreamInv
<1>2. CASE ~known
  <2>1. \A v \in Watcher : client'[v].st = "open" => client'[v] = client[v] /\ v # w
    BY <1>2 DEF Connect, TypeOK
  <2>2. UNCHANGED <<log, subs, conn>>
    BY <1>2 DEF Connect, runVars
  <2> QED BY <2>1, <2>2 DEF StreamInv, FlowInv, OwnConn
<1> QED BY <1>1, <1>2

\* What a page has read after Receive are the first events of the log.
LEMMA ReceiveKeepsStreams ==
  ASSUME TypeOK, TypeOK', SubsInv, OpenHasConn, StreamInv, NEW w \in Watcher, Receive(w)
  PROVE  /\ StreamInv'
         /\ Fits(client'[w].pane, 0, log)
         /\ \A v \in Watcher \ {w} : client'[v] = client[v]
<1> DEFINE c == client[w].conn
           k == conn[c]
           p == client[w].pane
           q == client'[w].pane
           ev == Head(k.wire)
           m == [k EXCEPT !.wire = Tail(k.wire)]
<1>1. /\ c \in Conn /\ p \in Seq(Event) /\ k \in ConnType /\ log \in Seq(Event)
      /\ k.wire # <<>> /\ client[w].st = "open" /\ q \in Seq(Event)
  BY OpenPage DEF Receive, TypeOK
<1>2. k.wire \in Seq(Items) /\ ev = k.wire[1] /\ Tail(k.wire) \in Seq(Items)
  BY <1>1 DEF ConnType, Items
<1>3. /\ m \in ConnType /\ m.pc = k.pc /\ m.alive = k.alive /\ m.chan = k.chan
      /\ m.wire = Tail(k.wire)
  BY <1>1, <1>2 DEF ConnType, Items
<1>4. IF k.wire[1] = OnOpen THEN q = <<>> ELSE q = Append(p, k.wire[1])
  <2>0. w \in DOMAIN client /\ DOMAIN client[w] = {"st", "conn", "pane"}
    BY DEF TypeOK
  <2>1. CASE ev # OnOpen /\ ev[3] = "end"
    <3>1. client' = [client EXCEPT ![w] = [st |-> "finished", conn |-> NoConn, pane |-> Append(@.pane, ev)]]
      BY <2>1 DEF Receive
    <3>2. q = Append(p, ev)
      BY <2>0, <3>1
    <3> QED BY <1>2, <2>1, <3>2
  <2>2. CASE ~(ev # OnOpen /\ ev[3] = "end")
    <3>1. client' = [client EXCEPT ![w].pane = IF ev = OnOpen THEN <<>> ELSE Append(@, ev)]
      BY <2>2 DEF Receive, PaneOnOpen
    <3>2. q = IF ev = OnOpen THEN <<>> ELSE Append(p, ev)
      BY <2>0, <3>1
    <3> QED BY <1>2, <3>2
  <2> QED BY <2>1, <2>2
<1>5. Flow(p, k, log, c, subs)
  BY <1>1 DEF StreamInv, FlowInv
<1>6. UNCHANGED <<log, subs>> /\ \A v \in Watcher \ {w} : client'[v] = client[v]
  BY DEF Receive, runVars, TypeOK
<1>7. Flow(q, m, log, c, subs) /\ Fits(q, 0, log)
  <2> HIDE DEF c, k, p, q, m, ev
  <2> QED BY <1>1, <1>3, <1>4, <1>5, FlowReceive
<1>8. CASE ev # OnOpen /\ ev[3] = "end"
  <2>1. client'[w].st # "open" /\ \A d \in Conn \ {c} : conn'[d] = conn[d]
    BY <1>8 DEF Receive, TypeOK
  <2> QED BY <1>1, <1>6, <1>7, <2>1, PageLeaves
<1>9. CASE ~(ev # OnOpen /\ ev[3] = "end")
  <2>1. /\ conn'[c] = m /\ \A d \in Conn \ {c} : conn'[d] = conn[d]
        /\ client'[w].conn = c /\ client'[w].st = "open"
    BY <1>1, <1>9 DEF Receive, TypeOK
  <2>2. ASSUME NEW v \in Watcher, client'[v].st = "open", v # w
        PROVE  client[v].conn \in Conn \ {c} /\ client'[v] = client[v] /\ client[v].st = "open"
    BY <1>1, <1>6, <2>2, OpenPage DEF StreamInv, OwnConn
  <2>3. FlowInv'
    <3> HIDE DEF m
    <3> QED BY <1>6, <1>7, <2>1, <2>2 DEF StreamInv, FlowInv
  <2>4. OwnConn'
    BY <2>1, <2>2 DEF StreamInv, OwnConn
  <2> QED BY <1>6, <1>7, <2>3, <2>4 DEF StreamInv
<1> QED BY <1>8, <1>9

LEMMA StreamsAreKept ==
  TypeOK /\ TypeOK' /\ SubsInv /\ OpenHasConn /\ StreamInv /\ [Next]_vars => StreamInv'
<1> SUFFICES ASSUME TypeOK, TypeOK', SubsInv, OpenHasConn, StreamInv, [Next]_vars PROVE StreamInv'
  OBVIOUS
<1>1. CASE EmitLog \/ EmitEnd
  BY <1>1, EmitKeepsStreams DEF EmitLog, EmitEnd
<1>2. CASE EmitCancel
  <2>1. CASE Emit("log")
    BY <1>2, <2>1, EmitKeepsStreams DEF EmitCancel
  <2>2. CASE UNCHANGED <<log, conn, subs>>
    BY <1>2, <2>2 DEF EmitCancel, StreamInv, FlowInv, OwnConn
  <2> QED BY <1>2, <2>1, <2>2 DEF EmitCancel
<1>3. CASE MarkDone
  <2>1. ASSUME NEW w \in Watcher, client[w].st = "open"
        PROVE  LET c == client[w].conn IN Flow(client[w].pane, conn'[c], log, c, subs')
    <3> DEFINE c == client[w].conn
               k == conn[c]
               p == client[w].pane
               m == conn'[c]
    <3>1. /\ c \in Conn /\ p \in Seq(Event) /\ k \in ConnType /\ log \in Seq(Event)
          /\ m \in ConnType /\ Flow(p, k, log, c, subs)
      BY <2>1, OpenPage DEF TypeOK, StreamInv, FlowInv
    <3>2. /\ m.pc = k.pc /\ m.alive = k.alive /\ m.wire = k.wire /\ m.replay = k.replay
          /\ m.chan = k.chan /\ c \notin subs'
      BY <1>3, <3>1 DEF MarkDone, ClosedByFinish, ConnType
    <3> SUFFICES Flow(p, m, log, c, subs')
      OBVIOUS
    <3> HIDE DEF c, k, p, m
    <3>3. WireBase(p, m) = WireBase(p, k) /\ ChanBase(p, m) = ChanBase(p, k)
      BY <3>2 DEF WireBase, ChanBase
    <3> QED BY <3>1, <3>2, <3>3 DEF Flow
  <2> QED BY <1>3, <2>1 DEF MarkDone, StreamInv, FlowInv, OwnConn
<1>4. CASE CancelSeesRun \/ NewRun \/ UNCHANGED vars
  BY <1>4 DEF CancelSeesRun, NewRun, vars, runVars, StreamInv, FlowInv, OwnConn
<1>5. CASE Restart
  <2>1. \A w \in Watcher : client'[w].st # "open"
    BY <1>5 DEF Restart, TypeOK
  <2> QED BY <2>1 DEF StreamInv, FlowInv, OwnConn
<1>6. ASSUME NEW c \in Conn, Server(c) PROVE StreamInv'
  BY <1>6, ServerKeepsStreams
<1>7. ASSUME NEW w \in Watcher, Browser(w) \/ Drop(w) PROVE StreamInv'
  <2>1. CASE EndOfResponse(w) \/ Drop(w)
    <3>1. /\ UNCHANGED <<log, subs>> /\ client[w].st = "open" /\ client'[w].st # "open"
          /\ \A v \in Watcher \ {w} : client'[v] = client[v]
          /\ \A d \in Conn \ {client[w].conn} : conn'[d] = conn[d]
      BY <2>1 DEF EndOfResponse, Drop, runVars, TypeOK
    <3> QED BY <3>1, PageLeaves
  <2> QED BY <1>7, <2>1, ConnectKeepsStreams, ReceiveKeepsStreams DEF Browser
<1> QED BY <1>1, <1>2, <1>3, <1>4, <1>5, <1>6, <1>7 DEF Next, Engine
-----------------------------------------------------------------------------
(* The panes.                                                              *)

LEMMA LogShapeIsKept == TypeOK /\ LogShape /\ [Next]_vars => LogShape'
<1> SUFFICES ASSUME TypeOK, LogShape, [Next]_vars PROVE LogShape'
  OBVIOUS
<1>1. CASE log' = Append(log, <<life, Len(log) + 1, "log">>) /\ life' = life
  BY <1>1 DEF LogShape, TypeOK
<1>2. CASE log' = Append(log, <<life, Len(log) + 1, "end">>) /\ life' = life
  BY <1>2 DEF LogShape, TypeOK
<1>3. CASE log' = <<>>
  BY <1>3 DEF LogShape
<1>4. CASE UNCHANGED <<log, life>>
  BY <1>4 DEF LogShape
<1>5. CASE Engine
  BY <1>1, <1>2, <1>4, <1>5 DEF Engine, EmitLog, EmitEnd, MarkDone, CancelSeesRun, EmitCancel, Emit
<1>6. CASE Restart \/ NewRun \/ UNCHANGED vars
  BY <1>3, <1>4, <1>6 DEF Restart, NewRun, runVars, vars
<1>7. ASSUME NEW c \in Conn, Server(c) PROVE LogShape'
  BY <1>4, <1>7 DEF Server, Subscribe, SendReplay, SendEvent, Leave, Return, runVars
<1>8. ASSUME NEW w \in Watcher, Browser(w) \/ Drop(w) PROVE LogShape'
  BY <1>4, <1>8 DEF Browser, Connect, Receive, EndOfResponse, Drop, runVars
<1> QED BY <1>5, <1>6, <1>7, <1>8 DEF Next

LEMMA PanesAreKept ==
  ASSUME TypeOK, TypeOK', SubsInv, OpenHasConn, StreamInv, LogShape, PaneShape, [Next]_vars
  PROVE  PaneShape'
<1> DEFINE Grown ==
      /\ life' = life /\ Len(log) <= Len(log')
      /\ \A i \in 1 .. Len(log) : log'[i] = log[i]
<1>0. log \in Seq(Event) /\ \A w \in Watcher : client[w].pane \in Seq(Event)
  BY DEF TypeOK
<1>1. CASE Engine
  <2>1. Grown
    <3>1. \A t : LET l == Append(log, <<life, Len(log) + 1, t>>) IN
                  Len(log) <= Len(l) /\ \A i \in 1 .. Len(log) : l[i] = log[i]
      BY <1>0
    <3> QED BY <1>0, <1>1, <3>1 DEF Engine, EmitLog, EmitEnd, EmitCancel, Emit, MarkDone, CancelSeesRun
  <2>2. UNCHANGED client
    BY <1>1 DEF Engine, EmitLog, EmitEnd, EmitCancel, MarkDone, CancelSeesRun
  <2> QED BY <1>0, <2>1, <2>2 DEF PaneShape
<1>2. CASE Restart
  <2>1. \A w \in Watcher : client'[w].pane = client[w].pane
    BY <1>2 DEF Restart, TypeOK
  <2>2. life' = life + 1
    BY <1>2 DEF Restart
  <2>4. life \in Int
    BY DEF TypeOK
  <2>3. \A w \in Watcher : \A i \in 1 .. Len(client[w].pane) : client[w].pane[i][1] \in Int
    BY <1>0, ElementOfSeq DEF Event
  <2>5. \A w \in Watcher : \A i \in 1 .. Len(client[w].pane) :
          client[w].pane[i][1] <= life' /\ client[w].pane[i][1] # life'
    BY <2>2, <2>3, <2>4 DEF PaneShape
  <2> QED BY <2>1, <2>5 DEF PaneShape
<1>3. ASSUME NEW w \in Watcher, Receive(w) PROVE PaneShape'
  <2>1. Fits(client'[w].pane, 0, log) /\ \A v \in Watcher \ {w} : client'[v] = client[v]
    BY <1>3, ReceiveKeepsStreams
  <2>2. UNCHANGED <<log, life>>
    BY <1>3 DEF Receive, runVars
  <2>3. client'[w].pane \in Seq(Event)
    BY DEF TypeOK
  <2> DEFINE q == client'[w].pane
  <2>4. \A i \in 1 .. Len(q) : i <= Len(log) /\ q[i] = log[i]
    BY <1>0, <2>1, <2>3 DEF Fits
  <2>5. \A i \in 1 .. Len(q) : q[i][1] = life /\ q[i][2] = i
    BY <2>3, <2>4, <1>0 DEF LogShape
  <2>6. life \in Int
    BY DEF TypeOK
  <2>7. \A i \in 1 .. Len(q) :
          /\ q[i][2] = i /\ q[i][1] = q[1][1] /\ q[i][1] <= life
          /\ q[i][1] = life => i <= Len(log) /\ q[i] = log[i]
    BY <2>3, <2>4, <2>5, <2>6
  <2> HIDE DEF q
  <2> QED BY <2>1, <2>2, <2>7 DEF PaneShape, q
<1>4. CASE /\ UNCHANGED <<log, life>>
           /\ \A w \in Watcher : client'[w].pane = client[w].pane
  BY <1>4 DEF PaneShape
<1>5. ASSUME NEW w \in Watcher, Connect(w) \/ EndOfResponse(w) \/ Drop(w)
      PROVE  UNCHANGED <<log, life>> /\ \A v \in Watcher : client'[v].pane = client[v].pane
  <2>1. UNCHANGED <<log, life>>
    BY <1>5 DEF Connect, EndOfResponse, Drop, runVars
  <2>2. \/ \E f \in Conn : client' = [client EXCEPT ![w].st = "open", ![w].conn = f]
        \/ client' = [client EXCEPT ![w].st = "failed"]
        \/ client' = [client EXCEPT ![w].st = "waiting", ![w].conn = NoConn]
    BY <1>5 DEF Connect, EndOfResponse, Drop
  <2>3. \A v \in Watcher : client'[v].pane = client[v].pane
    <3>1. ASSUME NEW f \in Conn, client' = [client EXCEPT ![w].st = "open", ![w].conn = f]
          PROVE  \A v \in Watcher : client'[v].pane = client[v].pane
      BY <3>1 DEF TypeOK
    <3>2. CASE client' = [client EXCEPT ![w].st = "failed"]
      BY <3>2 DEF TypeOK
    <3>3. CASE client' = [client EXCEPT ![w].st = "waiting", ![w].conn = NoConn]
      BY <3>3 DEF TypeOK
    <3> QED BY <2>2, <3>1, <3>2, <3>3
  <2> QED BY <2>1, <2>3
<1>6. ASSUME NEW c \in Conn, Server(c) PROVE UNCHANGED <<log, life, client>>
  BY <1>6 DEF Server, Subscribe, SendReplay, SendEvent, Leave, Return, runVars
<1>7. CASE NewRun \/ UNCHANGED vars
  BY <1>4, <1>7 DEF NewRun, vars, runVars
<1> QED BY <1>1, <1>2, <1>3, <1>4, <1>5, <1>6, <1>7 DEF Next, Browser
-----------------------------------------------------------------------------
LEMMA InvariantHolds == Spec => []IInv
<1>1. Init => IInv
  <2> SUFFICES ASSUME Init PROVE IInv
    OBVIOUS
  <2>1. SubsInv /\ OpenHasConn /\ FlowInv /\ OwnConn
    BY DEF Init, SubsInv, OpenHasConn, FlowInv, OwnConn, FreeConn, NewClient
  <2>2. LogShape /\ PaneShape
    BY DEF Init, LogShape, PaneShape, NewClient
  <2> QED BY InitIsTyped, <2>1, <2>2 DEF IInv
<1>2. IInv /\ [Next]_vars => IInv'
  BY StepIsTyped, SubsAreKept, StreamsAreKept, LogShapeIsKept, PanesAreKept DEF IInv, StreamInv
<1> QED BY <1>1, <1>2, PTL DEF Spec

\* Every variable of the model of a run's log stays in its type.
THEOREM TypeCorrect == Spec => []TypeOK
<1>1. IInv => TypeOK
  BY DEF IInv
<1> QED BY <1>1, InvariantHolds, PTL

\* events.go:65-69, deploy.html:154-157: for any number of browsers, any capacity and
\* any pattern of stalls, lost connections and restarts, a page shows the events of
\* one run from the first, without a gap and without a repetition.
THEOREM PaneIsPrefixHolds == Spec => []PaneIsPrefix
<1>1. IInv => PaneIsPrefix
  BY DEF IInv, TypeOK, PaneShape, PaneIsPrefix
<1> QED BY <1>1, InvariantHolds, PTL

\* events.go:124-125: however emit, finish, Subscribe and Unsubscribe interleave, a
\* registered channel is open, so that neither the send of emit nor the close of
\* finish hits a closed one.
THEOREM RegisteredChannelsAreOpenHolds == Spec => []RegisteredChannelsAreOpen
<1>1. IInv => RegisteredChannelsAreOpen
  BY DEF IInv, TypeOK, SubsInv, RegisteredChannelsAreOpen
<1> QED BY <1>1, InvariantHolds, PTL

\* events.go:117-123: nobody is registered with a run but handlers that have not
\* returned.
THEOREM NoSubscriptionIsLeakedHolds == Spec => []NoSubscriptionIsLeaked
<1>1. IInv => NoSubscriptionIsLeaked
  BY DEF IInv, TypeOK, SubsInv, NoSubscriptionIsLeaked
<1> QED BY <1>1, InvariantHolds, PTL

\* The two together, as the run checks them.
THEOREM SubscriptionsAreSoundHolds == Spec => []SubscriptionsAreSound
<1>1. RegisteredChannelsAreOpen /\ NoSubscriptionIsLeaked => SubscriptionsAreSound
  BY DEF SubscriptionsAreSound
<1> QED BY <1>1, RegisteredChannelsAreOpenHolds, NoSubscriptionIsLeakedHolds, PTL
=============================================================================
