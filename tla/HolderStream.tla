---------------------------- MODULE HolderStream ----------------------------
(***************************************************************************)
(* One session of the asmux holder and everything that moves its output to *)
(* an attached client: the child's reader thread and the ring it fills,    *)
(* the per-connection request handler (attach with takeover, detach), the  *)
(* streamer task an attach spawns, the two outbound channels of a          *)
(* connection with the writer task that drains them, and the teardown of a *)
(* connection.                                                             *)
(*                                                                         *)
(* A byte is its global cursor: the session's recorded output is 0..head-1 *)
(* and a SessionOutput frame is an interval [from, to) of it.  A stream is *)
(* one granted attach (one cancel token, one streamer task).  A await that *)
(* can block, and every lock that is released in between, is a step.       *)
(***************************************************************************)
EXTENDS Naturals, Sequences, FiniteSets

CONSTANTS
  Conns,            \* accepted connections (server.rs Conn), by conn id
  Streams,          \* attach grants, one per streamer task
  NoStream,         \* "no stream": an empty attacher or streams entry
  NoConn,           \* the connection of a stream that is not granted
  RingCap,          \* capacity of the ring, in bytes
  Chunk,            \* STREAM_CHUNK: most bytes of one SessionOutput
  CtrlCap,          \* CTRL_CHANNEL_CAP
  DataCap,          \* DATA_CHANNEL_CAP
  MaxBytes,         \* bound: bytes the child ever writes
  MaxDrops,         \* bound: pushes that fail to allocate
  MaxNotes          \* bound: heartbeats and error replies of one connection

ASSUME HolderAssumption ==
  /\ NoStream \notin Streams
  /\ NoConn \notin Conns
  /\ RingCap \in Nat \ {0}
  /\ Chunk \in Nat \ {0}
  /\ CtrlCap \in Nat \ {0}
  /\ DataCap \in Nat \ {0}
  /\ MaxBytes \in Nat
  /\ MaxDrops \in Nat
  /\ MaxNotes \in Nat

VARIABLES
  \* The session: ring, reader thread, wake-up signal, sole attacher.
  head,             \* total bytes ever written
  len,              \* bytes the ring still holds
  reader,           \* the reader thread's position
  drops,            \* dropped_events
  permit,           \* data_signal's stored permit
  waiters,          \* streamers waiting on data_signal, oldest first
  attacher,         \* the stream installed as sole attacher, or NoStream
  \* One attach grant and its streamer.
  pc,               \* the streamer's position
  conn,             \* its connection
  cursor,           \* how far it has read the ring
  hand,             \* start of the chunk it read and has not sent (= cursor if none)
  live,             \* live_attach: was the child alive when the grant finished
  cancelled,        \* its cancel token has been notified
  reported,         \* reported_drops
  \* A connection.
  link,             \* "up", "down" (client gone), "dead" (writer task ended)
  handler,          \* position of the request being handled
  target,           \* the stream the handler is granting
  evicted,          \* the attacher that grant replaced
  entry,            \* conn.streams: the stream registered for this session
  ctrl,             \* the control channel
  data,             \* the data channel
  notes,            \* heartbeats and error replies so far (bounds the model)
  \* What clients have observed (history).
  last,             \* end of the output received on a stream
  intact,           \* whether that output had no hole and no repetition
  told,             \* kinds of frames received about a stream
  \* What became of a stream (history).
  late,             \* frames it queued after its cancel
  wiped             \* streams whose installation as attacher was cleared by
                    \* the clean-up of another stream of their connection

sessionVars == <<head, len, reader, drops>>
signalVars  == <<permit, waiters>>
streamVars  == <<conn, cursor, hand, live, cancelled, reported>>
connVars    == <<link, handler, target, evicted, entry>>
chanVars    == <<ctrl, data, notes>>
seenVars    == <<last, intact, told>>
fateVars    == <<late, wiped>>
vars == <<sessionVars, signalVars, attacher, pc, streamVars, connVars,
          chanVars, seenVars, fateVars>>

-----------------------------------------------------------------------------
Min2(a, b) == IF a <= b THEN a ELSE b
Cut(q, i)  == SubSeq(q, 1, i - 1) \o SubSeq(q, i + 1, Len(q))

tail  == head - len
alive == reader # "done"

CtrlKinds == {"attached", "detached", "error", "allocFailed", "superseded",
              "backpressure", "exited", "heartbeat"}
(* The kinds of control frame whose receipt properties speak of.           *)
Recorded  == {"attached", "backpressure", "exited"}
CtrlFrame == [kind : CtrlKinds, stream : Streams \cup {NoStream}]
DataFrame == [stream : Streams, from : Nat, to : Nat]

ReaderPc  == {"read", "renotify", "done"}
HandlerPc == {"idle", "evict", "register", "respond", "reject", "detach",
              "detached", "closed"}
StreamPc  == {"unused", "granted", "start", "top", "report", "read", "gap",
              "send", "offer", "full", "caught", "listen", "wait", "exit",
              "parked", "woken", "leave", "done"}

(* A streamer that still owes its client output or an ending.              *)
Streaming == {"start", "top", "report", "read", "gap", "send", "offer", "full",
              "caught", "listen", "wait", "exit", "parked", "woken"}

ConnOf(s) == IF s = NoStream THEN NoConn ELSE conn[s]

(* A sender to a control channel waits for room; a channel whose writer    *)
(* task ended takes no frame and makes no sender wait.                     *)
CtrlReady(c) == link[c] = "dead" \/ Len(ctrl[c]) < CtrlCap
PutCtrl(c, kind, s) ==
  ctrl' = IF link[c] = "dead" THEN ctrl
          ELSE [ctrl EXCEPT ![c] = Append(@, [kind |-> kind, stream |-> s])]

(* tokio's Notify::notify_one: hand the wake-up to the oldest waiter, or   *)
(* store a single permit.  next is pc after the notifier's own step.       *)
NotifyOne(next) ==
  \/ /\ waiters = <<>>
     /\ permit' = TRUE
     /\ UNCHANGED waiters
     /\ pc' = next
  \/ /\ waiters # <<>>
     /\ waiters' = Tail(waiters)
     /\ UNCHANGED permit
     /\ pc' = [next EXCEPT ![Head(waiters)] = "woken"]

Init ==
  /\ head = 0 /\ len = 0 /\ reader = "read" /\ drops = 0
  /\ permit = FALSE /\ waiters = <<>>
  /\ attacher = NoStream
  /\ pc = [s \in Streams |-> "unused"]
  /\ conn = [s \in Streams |-> NoConn]
  /\ cursor = [s \in Streams |-> 0]
  /\ hand = [s \in Streams |-> 0]
  /\ live = [s \in Streams |-> FALSE]
  /\ cancelled = [s \in Streams |-> FALSE]
  /\ reported = [s \in Streams |-> 0]
  /\ link = [c \in Conns |-> "up"]
  /\ handler = [c \in Conns |-> "idle"]
  /\ target = [c \in Conns |-> NoStream]
  /\ evicted = [c \in Conns |-> NoStream]
  /\ entry = [c \in Conns |-> NoStream]
  /\ ctrl = [c \in Conns |-> <<>>]
  /\ data = [c \in Conns |-> <<>>]
  /\ notes = [c \in Conns |-> 0]
  /\ last = [s \in Streams |-> 0]
  /\ intact = [s \in Streams |-> TRUE]
  /\ told = [s \in Streams |-> {}]
  /\ late = [s \in Streams |-> 0]
  /\ wiped = {}

-----------------------------------------------------------------------------
(* The reader thread (session.rs reader_loop, ring.rs push).  A notify_one *)
(* follows each change of the ring or the status; as it wakes a waiter or  *)
(* leaves a permit whenever it comes, it is part of the change's step.     *)

(* Mutation of Push: no wake-up.                                           *)
PushNoSignal(n) ==
  /\ reader = "read"
  /\ head + n <= MaxBytes
  /\ head' = head + n
  /\ len' = Min2(len + n, RingCap)
  /\ UNCHANGED <<reader, drops, signalVars, pc, attacher, streamVars, connVars,
                 chanVars, seenVars, fateVars>>

(* Append n bytes, evicting from the front; only the last RingCap of them  *)
(* can be retained.                                                        *)
Push(n) ==
  /\ reader = "read"
  /\ head + n <= MaxBytes
  /\ head' = head + n
  /\ len' = Min2(len + n, RingCap)
  /\ NotifyOne(pc)
  /\ UNCHANGED <<reader, drops, attacher, streamVars, connVars, chanVars,
                 seenVars, fateVars>>

(* The reserve fails: the front is already evicted, head stays, the chunk  *)
(* is gone and counted.  note_output_dropped notifies, the loop again.     *)
PushDropped(n) ==
  /\ reader = "read"
  /\ drops < MaxDrops
  /\ drops' = drops + 1
  /\ len' = Min2(len, RingCap - Min2(n, RingCap))
  /\ reader' = "renotify"
  /\ NotifyOne(pc)
  /\ UNCHANGED <<head, attacher, streamVars, connVars, chanVars, seenVars,
                 fateVars>>

Renotify ==
  /\ reader = "renotify"
  /\ reader' = "read"
  /\ NotifyOne(pc)
  /\ UNCHANGED <<head, len, drops, attacher, streamVars, connVars, chanVars,
                 seenVars, fateVars>>

(* Mutation of Exit: no final wake-up.                                     *)
ExitNoSignal ==
  /\ reader = "read"
  /\ reader' = "done"
  /\ UNCHANGED <<head, len, drops, signalVars, pc, attacher, streamVars,
                 connVars, chanVars, seenVars, fateVars>>

(* End of output: the child is reaped, its status recorded, its handles    *)
(* released, and the streamer woken to flush the tail and say so.          *)
Exit ==
  /\ reader = "read"
  /\ reader' = "done"
  /\ NotifyOne(pc)
  /\ UNCHANGED <<head, len, drops, attacher, streamVars, connVars, chanVars,
                 seenVars, fateVars>>

-----------------------------------------------------------------------------
(* The request handler of connection c (server.rs read_loop: one request   *)
(* at a time).                                                             *)

Idle(c) == link[c] = "up" /\ handler[c] = "idle"
HandlerTo(c, where) == handler' = [handler EXCEPT ![c] = where]

(* The start cursor an attach resolves to: LiveOnly, FromEarliest, or      *)
(* FromCursor n with tail <= n <= head.                                    *)
GrantedStarts == {head, tail} \cup (tail .. head)

(* handle_attach: resolve the start cursor and install the stream as sole  *)
(* attacher.                                                               *)
Attach(c, s, start) ==
  /\ Idle(c)
  /\ pc[s] = "unused"
  /\ start \in GrantedStarts
  /\ attacher' = s
  /\ evicted' = [evicted EXCEPT ![c] = attacher]
  /\ target' = [target EXCEPT ![c] = s]
  /\ HandlerTo(c, IF attacher # NoStream /\ ConnOf(attacher) # c
                  THEN "evict" ELSE "register")
  /\ pc' = [pc EXCEPT ![s] = "granted"]
  /\ conn' = [conn EXCEPT ![s] = c]
  /\ cursor' = [cursor EXCEPT ![s] = start]
  /\ hand' = [hand EXCEPT ![s] = start]
  /\ last' = [last EXCEPT ![s] = start]
  /\ UNCHANGED <<sessionVars, signalVars, live, cancelled, reported, link,
                 entry, chanVars, intact, told, fateVars>>

(* FromCursor outside the window is refused, and nothing changes hands:    *)
(* past head (INVALID_ARGUMENT) or older than the tail (BUFFER_GAP).       *)
AttachRefuse(c) ==
  /\ Idle(c)
  /\ notes[c] < MaxNotes
  /\ \E from \in 0 .. MaxBytes + 1 : from > head \/ from < tail
  /\ HandlerTo(c, "reject")
  /\ UNCHANGED <<sessionVars, signalVars, attacher, pc, streamVars, link,
                 target, evicted, entry, chanVars, seenVars, fateVars>>

(* Cross-connection takeover: SessionDetached{Superseded} to the evicted   *)
(* connection, waiting for room on its control channel.                    *)
AttachEvict(c) ==
  LET old == evicted[c] IN
  /\ handler[c] = "evict"
  /\ CtrlReady(conn[old])
  /\ PutCtrl(conn[old], "superseded", old)
  /\ HandlerTo(c, "register")
  /\ UNCHANGED <<sessionVars, signalVars, attacher, pc, streamVars, link,
                 target, evicted, entry, data, notes, seenVars, fateVars>>

(* Cancel the replaced attacher's streamer and a prior stream of this      *)
(* connection, register the new one, and note whether the child is alive.  *)
AttachRegister(c) ==
  LET s == target[c] IN
  /\ handler[c] = "register"
  /\ cancelled' = [t \in Streams |->
                     cancelled[t] \/ t = evicted[c] \/ t = entry[c]]
  /\ entry' = [entry EXCEPT ![c] = s]
  /\ evicted' = [evicted EXCEPT ![c] = NoStream]
  /\ live' = [live EXCEPT ![s] = alive]
  /\ HandlerTo(c, "respond")
  /\ UNCHANGED <<sessionVars, signalVars, attacher, pc, conn, cursor, hand,
                 reported, link, target, chanVars, seenVars, fateVars>>

(* AttachResponse, then spawn the streamer.                                *)
AttachRespond(c) ==
  LET s == target[c] IN
  /\ handler[c] = "respond"
  /\ CtrlReady(c)
  /\ PutCtrl(c, "attached", s)
  /\ pc' = [pc EXCEPT ![s] = "start"]
  /\ target' = [target EXCEPT ![c] = NoStream]
  /\ HandlerTo(c, "idle")
  /\ UNCHANGED <<sessionVars, signalVars, attacher, streamVars, link, evicted,
                 entry, data, notes, seenVars, fateVars>>

(* An error reply (refused attach, detach while not attached).             *)
Reject(c) ==
  /\ handler[c] = "reject"
  /\ CtrlReady(c)
  /\ PutCtrl(c, "error", NoStream)
  /\ notes' = [notes EXCEPT ![c] = @ + 1]
  /\ HandlerTo(c, "idle")
  /\ UNCHANGED <<sessionVars, signalVars, attacher, pc, streamVars, link,
                 target, evicted, entry, data, seenVars, fateVars>>

(* handle_detach: check is_attached_by ...                                 *)
DetachRequest(c) ==
  /\ Idle(c)
  /\ ConnOf(attacher) # c => notes[c] < MaxNotes
  /\ HandlerTo(c, IF ConnOf(attacher) = c THEN "detach" ELSE "reject")
  /\ UNCHANGED <<sessionVars, signalVars, attacher, pc, streamVars, link,
                 target, evicted, entry, chanVars, seenVars, fateVars>>

(* ... cancel and drop the registered stream, and clear the attacher if it *)
(* is still this connection's.                                             *)
DetachApply(c) ==
  /\ handler[c] = "detach"
  /\ cancelled' = [t \in Streams |-> cancelled[t] \/ t = entry[c]]
  /\ entry' = [entry EXCEPT ![c] = NoStream]
  /\ attacher' = IF ConnOf(attacher) = c THEN NoStream ELSE attacher
  /\ HandlerTo(c, "detached")
  /\ UNCHANGED <<sessionVars, signalVars, pc, conn, cursor, hand, live,
                 reported, link, target, evicted, chanVars, seenVars,
                 fateVars>>

DetachRespond(c) ==
  /\ handler[c] = "detached"
  /\ CtrlReady(c)
  /\ PutCtrl(c, "detached", NoStream)
  /\ HandlerTo(c, "idle")
  /\ UNCHANGED <<sessionVars, signalVars, attacher, pc, streamVars, link,
                 target, evicted, entry, data, notes, seenVars, fateVars>>

-----------------------------------------------------------------------------
(* The streamer task of stream s (server.rs stream_session).               *)

StreamTo(s, where) == pc' = [pc EXCEPT ![s] = where]

StreamStart(s) ==
  /\ pc[s] = "start"
  /\ reported' = [reported EXCEPT ![s] = drops]
  /\ StreamTo(s, "top")
  /\ UNCHANGED <<sessionVars, signalVars, attacher, conn, cursor, hand, live,
                 cancelled, connVars, chanVars, seenVars, fateVars>>

(* Error{ALLOC_FAILED}, Detached{Backpressure} and SessionExited all go    *)
(* through the control channel.                                            *)
StreamNotice(s, from, kind, then) ==
  /\ pc[s] = from
  /\ CtrlReady(conn[s])
  /\ PutCtrl(conn[s], kind, s)
  /\ StreamTo(s, then)
  /\ UNCHANGED <<sessionVars, signalVars, attacher, streamVars, connVars,
                 data, notes, seenVars, fateVars>>

StreamReported(s) == StreamNotice(s, "report", "allocFailed", "read")
StreamGap(s)    == StreamNotice(s, "gap", "backpressure", "leave")
StreamExited(s) == StreamNotice(s, "exit", "exited", "leave")

(* Loop top: output dropped since the last look is reported first.         *)
StreamReport(s) ==
  /\ pc[s] = "top"
  /\ drops # reported[s]
  /\ reported' = [reported EXCEPT ![s] = drops]
  /\ StreamTo(s, "report")
  /\ UNCHANGED <<sessionVars, signalVars, attacher, conn, cursor, hand, live,
                 cancelled, connVars, chanVars, seenVars, fateVars>>

(* Mutation of StreamRead: a cursor the ring passed is clamped to the tail.*)
StreamReadClamped(s) ==
  /\ pc[s] = "read" \/ (pc[s] = "top" /\ drops = reported[s])
  /\ \/ /\ cursor[s] = head
        /\ StreamTo(s, "caught")
        /\ UNCHANGED <<cursor, hand>>
     \/ /\ cursor[s] < head
        /\ LET from == IF cursor[s] < tail THEN tail ELSE cursor[s] IN
             /\ hand' = [hand EXCEPT ![s] = from]
             /\ cursor' = [cursor EXCEPT ![s] = Min2(from + Chunk, head)]
        /\ StreamTo(s, "send")
  /\ UNCHANGED <<sessionVars, signalVars, attacher, conn, live, cancelled,
                 reported, connVars, chanVars, seenVars, fateVars>>

(* read_at(cursor): past head, evicted, up to date, or a chunk.            *)
StreamRead(s) ==
  /\ pc[s] = "read" \/ (pc[s] = "top" /\ drops = reported[s])
  /\ \/ cursor[s] > head /\ StreamTo(s, "leave") /\ UNCHANGED cursor
     \/ cursor[s] < tail /\ StreamTo(s, "gap") /\ UNCHANGED cursor
     \/ cursor[s] = head /\ StreamTo(s, "caught") /\ UNCHANGED cursor
     \/ /\ cursor[s] >= tail /\ cursor[s] < head
        /\ cursor' = [cursor EXCEPT ![s] = Min2(@ + Chunk, head)]
        /\ StreamTo(s, "send")
  /\ UNCHANGED <<sessionVars, signalVars, attacher, conn, hand, live,
                 cancelled, reported, connVars, chanVars, seenVars, fateVars>>

(* Mutation of StreamSend: the send is polled without regard to cancel.    *)
StreamSendUnbiased(s) ==
  /\ pc[s] = "send"
  /\ \/ cancelled[s] /\ StreamTo(s, "leave")
     \/ StreamTo(s, "offer")
  /\ UNCHANGED <<sessionVars, signalVars, attacher, streamVars, connVars,
                 chanVars, seenVars, fateVars>>

(* select! { biased; cancel, send }: the two are polled in this order, in  *)
(* two steps.  First poll: leave if cancelled ...                          *)
StreamSend(s) ==
  /\ pc[s] = "send"
  /\ StreamTo(s, IF cancelled[s] THEN "leave" ELSE "offer")
  /\ UNCHANGED <<sessionVars, signalVars, attacher, streamVars, connVars,
                 chanVars, seenVars, fateVars>>

(* ... second poll: hand the chunk to the data channel, even if a cancel   *)
(* came since the first; without room, wait for room or for the cancel.    *)
StreamOffer(s) ==
  LET c == conn[s] IN
  /\ pc[s] = "offer"
  /\ \/ /\ link[c] = "dead"
        /\ StreamTo(s, "leave")
        /\ UNCHANGED <<hand, data, late>>
     \/ /\ link[c] # "dead"
        /\ Len(data[c]) = DataCap
        /\ StreamTo(s, "full")
        /\ UNCHANGED <<hand, data, late>>
     \/ /\ link[c] # "dead"
        /\ Len(data[c]) < DataCap
        /\ data' = [data EXCEPT ![c] =
             Append(@, [stream |-> s, from |-> hand[s], to |-> cursor[s]])]
        /\ hand' = [hand EXCEPT ![s] = cursor[s]]
        /\ late' = IF cancelled[s] THEN [late EXCEPT ![s] = @ + 1] ELSE late
        /\ StreamTo(s, "top")
  /\ UNCHANGED <<sessionVars, signalVars, attacher, conn, cursor, live,
                 cancelled, reported, connVars, ctrl, notes, seenVars, wiped>>

(* Either wakes it, and both are polled again.                             *)
StreamRepoll(s) ==
  LET c == conn[s] IN
  /\ pc[s] = "full"
  /\ cancelled[s] \/ link[c] = "dead" \/ Len(data[c]) < DataCap
  /\ StreamTo(s, "send")
  /\ UNCHANGED <<sessionVars, signalVars, attacher, streamVars, connVars,
                 chanVars, seenVars, fateVars>>

(* Mutation of StreamCaught: the head is not looked at again.              *)
StreamCaughtNoRecheck(s) ==
  /\ pc[s] = "caught"
  /\ StreamTo(s, IF alive THEN "listen" ELSE IF live[s] THEN "exit" ELSE "leave")
  /\ UNCHANGED <<sessionVars, signalVars, attacher, streamVars, connVars,
                 chanVars, seenVars, fateVars>>

(* Caught up: a dead child with nothing more to send ends the stream, with *)
(* SessionExited only for an attach that found the child alive.            *)
StreamCaught(s) ==
  /\ pc[s] = "caught"
  /\ StreamTo(s, IF alive \/ cursor[s] < head THEN "listen"
                 ELSE IF live[s] THEN "exit" ELSE "leave")
  /\ UNCHANGED <<sessionVars, signalVars, attacher, streamVars, connVars,
                 chanVars, seenVars, fateVars>>

(* select! { biased; cancel, woken }: leave if cancelled ...               *)
StreamListen(s) ==
  /\ pc[s] = "listen"
  /\ StreamTo(s, IF cancelled[s] THEN "leave" ELSE "wait")
  /\ UNCHANGED <<sessionVars, signalVars, attacher, streamVars, connVars,
                 chanVars, seenVars, fateVars>>

(* ... take a stored permit, or wait for a wake-up or the cancel.          *)
StreamWait(s) ==
  /\ pc[s] = "wait"
  /\ \/ /\ permit
        /\ permit' = FALSE
        /\ StreamTo(s, "top")
        /\ UNCHANGED waiters
     \/ /\ ~permit
        /\ waiters' = Append(waiters, s)
        /\ StreamTo(s, "parked")
        /\ UNCHANGED permit
  /\ UNCHANGED <<sessionVars, attacher, streamVars, connVars, chanVars,
                 seenVars, fateVars>>

(* Woken by the signal.  A cancelled streamer leaves instead, and dropping *)
(* its unconsumed wake-up passes it on.                                    *)
StreamWake(s) ==
  /\ pc[s] = "woken"
  /\ \/ ~cancelled[s] /\ StreamTo(s, "top") /\ UNCHANGED signalVars
     \/ cancelled[s] /\ NotifyOne([pc EXCEPT ![s] = "leave"])
  /\ UNCHANGED <<sessionVars, attacher, streamVars, connVars, chanVars,
                 seenVars, fateVars>>

(* Cancelled while waiting.                                                *)
StreamCancelled(s) ==
  /\ pc[s] = "parked"
  /\ cancelled[s]
  /\ \E i \in DOMAIN waiters : waiters[i] = s /\ waiters' = Cut(waiters, i)
  /\ StreamTo(s, "leave")
  /\ UNCHANGED <<sessionVars, permit, attacher, streamVars, connVars,
                 chanVars, seenVars, fateVars>>

(* Mutation of StreamLeave: the attacher is cleared whoever it is.         *)
StreamLeaveClobbers(s) ==
  LET c == conn[s] IN
  /\ pc[s] = "leave"
  /\ entry' = [entry EXCEPT ![c] = IF @ = s THEN NoStream ELSE @]
  /\ attacher' = NoStream
  /\ StreamTo(s, "done")
  /\ UNCHANGED <<sessionVars, signalVars, streamVars, link, handler, target,
                 evicted, chanVars, seenVars, fateVars>>

(* Cleanup: drop the registration if it is still this stream's, then       *)
(* detach the connection, whichever of its streams is attached.            *)
StreamLeave(s) ==
  LET c == conn[s] IN
  /\ pc[s] = "leave"
  /\ entry' = [entry EXCEPT ![c] = IF @ = s THEN NoStream ELSE @]
  /\ attacher' = IF ConnOf(attacher) = c THEN NoStream ELSE attacher
  /\ wiped' = {t \in Streams :
                 t \in wiped \/ (t # s /\ t = attacher /\ conn[t] = c)}
  /\ StreamTo(s, "done")
  /\ UNCHANGED <<sessionVars, signalVars, streamVars, link, handler, target,
                 evicted, chanVars, seenVars, late>>

Stream(s) ==
  \/ StreamStart(s) \/ StreamReport(s) \/ StreamReported(s) \/ StreamRead(s)
  \/ StreamGap(s) \/ StreamSend(s) \/ StreamOffer(s) \/ StreamRepoll(s)
  \/ StreamCaught(s) \/ StreamListen(s) \/ StreamWait(s) \/ StreamExited(s)
  \/ StreamWake(s) \/ StreamCancelled(s) \/ StreamLeave(s)

-----------------------------------------------------------------------------
(* A connection's writer task, heartbeat thread, client and teardown.      *)

(* Control frames go before data frames (biased); the client reads at      *)
(* once what the writer wrote.                                             *)
WriteCtrl(c) ==
  /\ link[c] = "up"
  /\ ctrl[c] # <<>>
  /\ ctrl' = [ctrl EXCEPT ![c] = Tail(@)]
  /\ LET f == Head(ctrl[c]) IN
       told' = [s \in Streams |->
                  IF s = f.stream /\ f.kind \in Recorded
                  THEN told[s] \cup {f.kind} ELSE told[s]]
  /\ UNCHANGED <<sessionVars, signalVars, attacher, pc, streamVars, connVars,
                 data, notes, last, intact, fateVars>>

WriteData(c) ==
  /\ link[c] = "up"
  /\ ctrl[c] = <<>>
  /\ data[c] # <<>>
  /\ data' = [data EXCEPT ![c] = Tail(@)]
  /\ LET f == Head(data[c]) IN
       /\ last' = [last EXCEPT ![f.stream] = f.to]
       /\ intact' = [intact EXCEPT ![f.stream] = @ /\ f.from = last[f.stream]]
       /\ told' = [told EXCEPT ![f.stream] = @ \cup {"output"}]
  /\ UNCHANGED <<sessionVars, signalVars, attacher, pc, streamVars, connVars,
                 ctrl, notes, fateVars>>

Write(c) == WriteCtrl(c) \/ WriteData(c)

Heartbeat(c) ==
  /\ link[c] # "dead"
  /\ notes[c] < MaxNotes
  /\ CtrlReady(c)
  /\ PutCtrl(c, "heartbeat", NoStream)
  /\ notes' = [notes EXCEPT ![c] = @ + 1]
  /\ UNCHANGED <<sessionVars, signalVars, attacher, pc, streamVars, connVars,
                 data, seenVars, fateVars>>

ClientGone(c) ==
  /\ link[c] = "up"
  /\ link' = [link EXCEPT ![c] = "down"]
  /\ UNCHANGED <<sessionVars, signalVars, attacher, pc, streamVars, handler,
                 target, evicted, entry, chanVars, seenVars, fateVars>>

(* The next write to a gone client fails: the writer ends, and with it the *)
(* channels' receivers.                                                    *)
WriterFail(c) ==
  /\ link[c] = "down"
  /\ ctrl[c] # <<>> \/ data[c] # <<>>
  /\ link' = [link EXCEPT ![c] = "dead"]
  /\ ctrl' = [ctrl EXCEPT ![c] = <<>>]
  /\ data' = [data EXCEPT ![c] = <<>>]
  /\ UNCHANGED <<sessionVars, signalVars, attacher, pc, streamVars, handler,
                 target, evicted, entry, notes, seenVars, fateVars>>

(* handle_conn after read_loop: cancel and detach what it still owns.      *)
Teardown(c) ==
  /\ link[c] # "up"
  /\ handler[c] = "idle"
  /\ cancelled' = [t \in Streams |-> cancelled[t] \/ t = entry[c]]
  /\ attacher' = IF entry[c] # NoStream /\ ConnOf(attacher) = c
                 THEN NoStream ELSE attacher
  /\ entry' = [entry EXCEPT ![c] = NoStream]
  /\ HandlerTo(c, "closed")
  /\ UNCHANGED <<sessionVars, signalVars, pc, conn, cursor, hand, live,
                 reported, link, target, evicted, chanVars, seenVars,
                 fateVars>>

-----------------------------------------------------------------------------
Reader ==
  \/ \E n \in 1 .. MaxBytes : Push(n) \/ PushDropped(n)
  \/ Renotify \/ Exit

Request(c) ==
  \/ \E s \in Streams, start \in 0 .. MaxBytes : Attach(c, s, start)
  \/ AttachRefuse(c) \/ DetachRequest(c)

Handle(c) ==
  \/ AttachEvict(c) \/ AttachRegister(c) \/ AttachRespond(c) \/ Reject(c)
  \/ DetachApply(c) \/ DetachRespond(c) \/ Teardown(c)

Next ==
  \/ Reader
  \/ \E c \in Conns : \/ Request(c) \/ Handle(c) \/ Write(c) \/ WriterFail(c)
                      \/ Heartbeat(c) \/ ClientGone(c)
  \/ \E s \in Streams : Stream(s)

Spec == Init /\ [][Next]_vars

(* Threads and spawned tasks run, and a connected client keeps reading.    *)
(* Nothing makes the child write or exit, or a client ask or leave.        *)
Fairness ==
  /\ WF_vars(Renotify)
  /\ \A s \in Streams : WF_vars(Stream(s))
  /\ \A c \in Conns :
       WF_vars(Handle(c)) /\ WF_vars(WriterFail(c)) /\ WF_vars(Write(c))

FairSpec == Spec /\ Fairness

-----------------------------------------------------------------------------
(* Types; the ring never holds more than its capacity, nor more than was   *)
(* ever written.                                                           *)
TypeOK ==
  /\ head \in Nat /\ len \in 0 .. RingCap /\ len <= head
  /\ reader \in ReaderPc /\ drops \in Nat
  /\ permit \in BOOLEAN /\ waiters \in Seq(Streams)
  /\ attacher \in Streams \cup {NoStream}
  /\ pc \in [Streams -> StreamPc]
  /\ conn \in [Streams -> Conns \cup {NoConn}]
  /\ cursor \in [Streams -> Nat] /\ hand \in [Streams -> Nat]
  /\ live \in [Streams -> BOOLEAN] /\ cancelled \in [Streams -> BOOLEAN]
  /\ reported \in [Streams -> Nat]
  /\ link \in [Conns -> {"up", "down", "dead"}]
  /\ handler \in [Conns -> HandlerPc]
  /\ target \in [Conns -> Streams \cup {NoStream}]
  /\ evicted \in [Conns -> Streams \cup {NoStream}]
  /\ entry \in [Conns -> Streams \cup {NoStream}]
  /\ ctrl \in [Conns -> Seq(CtrlFrame)] /\ data \in [Conns -> Seq(DataFrame)]
  /\ notes \in [Conns -> Nat]
  /\ last \in [Streams -> Nat] /\ intact \in [Streams -> BOOLEAN]
  /\ told \in [Streams -> SUBSET (Recorded \cup {"output"})]
  /\ late \in [Streams -> Nat] /\ wiped \subseteq Streams

(* Queued for, or received by, the client of s.                            *)
Noticed(s, kind) ==
  \/ kind \in told[s]
  \/ conn[s] # NoConn /\ [kind |-> kind, stream |-> s] \in
                           {ctrl[conn[s]][i] : i \in DOMAIN ctrl[conn[s]]}

(* s streams for its connection: not cancelled, and nobody is in the       *)
(* middle of taking the session over from it.                              *)
Owning(s) ==
  /\ pc[s] \in Streaming
  /\ ~cancelled[s]
  /\ \A c \in Conns : handler[c] \in {"evict", "register"} => evicted[c] # s

(* Within one attach, whatever a client has received is a gap-free,        *)
(* repetition-free run of the session's bytes from the cursor it was       *)
(* granted, even when the ring wraps under the streamer.                   *)
OutputIntact == \A s \in Streams : intact[s] /\ last[s] <= cursor[s]

(* SessionExited is issued only when the child is dead and every byte it   *)
(* wrote has been handed to the data channel: a push that lands between    *)
(* the streamer's empty read and its look at the status is not skipped.    *)
ExitedAfterFlush ==
  \A s \in Streams : (pc[s] = "exit" \/ Noticed(s, "exited")) =>
                        ~alive /\ cursor[s] = head /\ hand[s] = head

(* Single attacher: a stream that still runs and was not told to stop is   *)
(* the session's attacher, so its input is accepted and a later takeover   *)
(* finds it.  The code has one exception: a client that attached again on  *)
(* the same connection loses the new installation to the late clean-up of  *)
(* the old stream, which detaches the connection and not the stream.       *)
AttacherOwnsStream ==
  \A s \in Streams : Owning(s) => attacher = s \/ s \in wiped

(* A cancel silences a stream: at most the one frame whose send was being  *)
(* polled when the cancel came is still queued, and none after it, however *)
(* much room the data channel has and however long the stream takes to end.*)
SilentAfterCancel == \A s \in Streams : late[s] <= 1

Released(s) == cancelled[s] \/ conn[s] = NoConn \/ link[conn[s]] # "up"

(* Output keeps flowing: no wake-up is lost between the ring and the       *)
(* streamer, so a running stream's client catches up with what had been    *)
(* written, unless it is taken over, leaves or is evicted for being slow.  *)
OutputReachesClient ==
  \A s \in Streams, n \in 1 .. MaxBytes :
    (pc[s] \in Streaming /\ head >= n)
      ~> (last[s] >= n \/ "backpressure" \in told[s] \/ Released(s))

(* The death of a child whose attach found it alive is reported.           *)
ExitIsReported ==
  \A s \in Streams :
    (pc[s] \in Streaming /\ live[s] /\ ~alive)
      ~> (told[s] \cap {"exited", "backpressure"} # {} \/ Released(s))
=============================================================================
