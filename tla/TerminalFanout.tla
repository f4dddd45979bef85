--------------------------- MODULE TerminalFanout ---------------------------
(***************************************************************************)
(* One live session's output on its way to the browsers (api/ws.rs, the    *)
(* backends' attach in backend/mod.rs, native.rs and sidecar.rs).  The     *)
(* backend feeds each chunk to the terminal emulator, to the history ring  *)
(* and to a bounded broadcast; a client that attaches gets a repaint and   *)
(* the broadcast from there.  At most one client is meant to be attached:  *)
(* a later one takes over and the earlier is told to close.                *)
(*                                                                         *)
(* Chunks are numbered; a client's view is the number of the last chunk it *)
(* shows, everything before it included.                                   *)
(***************************************************************************)
EXTENDS Naturals

CONSTANTS Conns,       \* WebSocket connections, each used once
          MaxOutput,   \* bounds what the session writes
          Cap          \* BROADCAST_CAP: chunks the broadcast retains

ASSUME BoundsAssumption == MaxOutput \in Nat /\ Cap \in Nat \ {0}

VARIABLES backend,    \* "native" or "sidecar"
          processed,  \* chunks the emulator has taken
          pushed,     \* chunks in the ring and the broadcast
          alt,        \* the application holds the alternate screen
          live,       \* the session is in the manager's live map
          attached,   \* Attachments: the connection that holds the session
          conn,       \* the connections' handlers
          client      \* what the other end of each connection does

fanVars == <<backend, processed, pushed, alt, live, attached, conn, client>>

Nobody == "nobody"
ASSUME ConnsAssumption == Nobody \notin Conns
\* prev: whom this one superseded; permit: its Notify holds a permit; rx: the
\* next chunk of its receiver; shown: the client's view; exact: no lag, and no
\* attach that may repeat a chunk, so far
NoConn == [pc |-> "idle", prev |-> Nobody, permit |-> FALSE, rx |-> 1, shown |-> 0, exact |-> TRUE]

Running(c) == conn[c].pc \in {"registered", "notified", "priming", "streaming"}
Goto(c, pc) == conn' = [conn EXCEPT ![c].pc = pc]

FanInit == /\ backend \in {"native", "sidecar"}
           /\ processed = 0 /\ pushed = 0 /\ alt \in BOOLEAN /\ live = TRUE
           /\ attached = Nobody
           /\ conn = [c \in Conns |-> NoConn]
           /\ client = [c \in Conns |-> "alive"]

(***************************************************************************)
(* The backend.                                                            *)
(***************************************************************************)

\* the in-process reader feeds the emulator, the ring and the broadcast under
\* the parser's lock
NativeChunk ==
  /\ backend = "native" /\ live /\ processed < MaxOutput
  /\ processed' = processed + 1 /\ pushed' = pushed + 1
  /\ alt' \in BOOLEAN
  /\ UNCHANGED <<backend, live, attached, conn, client>>

\* the sidecar's drain loop lets the parser's lock go in between
SidecarProcess ==
  /\ backend = "sidecar" /\ live /\ processed < MaxOutput /\ processed = pushed
  /\ processed' = processed + 1 /\ alt' \in BOOLEAN
  /\ UNCHANGED <<backend, pushed, live, attached, conn, client>>
SidecarPush ==
  /\ backend = "sidecar" /\ pushed < processed
  /\ pushed' = pushed + 1
  /\ UNCHANGED <<backend, processed, alt, live, attached, conn, client>>

\* the monitor drops the session from the live map; handlers keep their handle
SessionEnds == /\ live /\ processed = pushed /\ live' = FALSE
               /\ UNCHANGED <<backend, processed, pushed, alt, attached, conn, client>>

(***************************************************************************)
(* A connection's handler.                                                 *)
(***************************************************************************)
Register(c) ==
  /\ conn[c].pc = "idle" /\ live
  /\ attached' = c
  /\ conn' = [conn EXCEPT ![c].pc = "registered", ![c].prev = attached]
  /\ UNCHANGED <<backend, processed, pushed, alt, live, client>>

\* a session that has ended: the stored history, and nothing to hold
History(c) ==
  /\ conn[c].pc = "idle" /\ ~live
  /\ Goto(c, "closed")
  /\ UNCHANGED <<backend, processed, pushed, alt, live, attached, client>>

\* Notify::notify_one stores a permit until the other's select takes it
SupersedeWaiting(c) ==   \* mutant: notify_waiters reaches only a task that waits
  /\ conn[c].pc = "registered"
  /\ conn' = [d \in Conns |-> IF d = c THEN [conn[c] EXCEPT !.pc = "notified"]
                              ELSE IF d = conn[c].prev /\ conn[d].pc = "streaming" THEN [conn[d] EXCEPT !.permit = TRUE]
                              ELSE conn[d]]
  /\ UNCHANGED <<backend, processed, pushed, alt, live, attached, client>>
Supersede(c) ==
  /\ conn[c].pc = "registered"
  /\ conn' = [d \in Conns |-> IF d = c THEN [conn[c] EXCEPT !.pc = "notified"]
                              ELSE IF d = conn[c].prev THEN [conn[d] EXCEPT !.permit = TRUE]
                              ELSE conn[d]]
  /\ UNCHANGED <<backend, processed, pushed, alt, live, attached, client>>

\* attach_with_history: the alternate screen is rendered from the emulator, the
\* normal one replayed from the ring; the receiver starts at the broadcast's tail
Cover == IF alt THEN processed ELSE pushed
Subscribe(c) ==
  /\ conn[c].pc = "notified"
  /\ conn' = [conn EXCEPT ![c].pc = "priming", ![c].shown = Cover, ![c].rx = pushed + 1,
                          ![c].exact = backend = "native" \/ ~alt]
  /\ UNCHANGED <<backend, processed, pushed, alt, live, attached, client>>

\* Attachments::release: only if this connection is still the attached one
ReleaseAnyway(c) == attached' = Nobody   \* mutant: whoever holds it
Release(c) == attached' = IF attached = c THEN Nobody ELSE attached
Finish(c) == Goto(c, "closed") /\ Release(c)

\* a send waits for room in the client's window, and fails when it is gone
CanSend(c) == client[c] \in {"alive", "silent"}

Prime(c) ==
  /\ conn[c].pc = "priming"
  /\ \/ CanSend(c) /\ Goto(c, "streaming") /\ UNCHANGED attached
     \/ client[c] = "gone" /\ Finish(c)
  /\ UNCHANGED <<backend, processed, pushed, alt, live, client>>

\* the outbound task's select is biased: a permit first.  Once it has returned,
\* the inbound loop ends and gives the attachment back
Cancelled(c) ==
  /\ conn[c].pc = "streaming" /\ conn[c].permit /\ client[c] # "stalled"
  /\ Finish(c)
  /\ UNCHANGED <<backend, processed, pushed, alt, live, client>>

\* the ping tick finds no frame from the client for IDLE_TIMEOUT
IdleTimeout(c) ==
  /\ conn[c].pc = "streaming" /\ ~conn[c].permit /\ client[c] = "silent"
  /\ Finish(c)
  /\ UNCHANGED <<backend, processed, pushed, alt, live, client>>

Oldest == IF pushed > Cap THEN pushed - Cap + 1 ELSE 1

Forward(c) ==
  /\ conn[c].pc = "streaming" /\ ~conn[c].permit /\ CanSend(c)
  /\ conn[c].rx \in Oldest .. pushed
  /\ conn' = [conn EXCEPT ![c].rx = @ + 1, ![c].shown = IF conn[c].rx > @ THEN conn[c].rx ELSE @]
  /\ UNCHANGED <<backend, processed, pushed, alt, live, attached, client>>

\* RecvError::Lagged: the receiver moves to the oldest chunk the broadcast
\* retains, and the client gets the screen as it is now
LaggedSilently(c) ==   \* mutant: without the snapshot
  /\ conn[c].pc = "streaming" /\ ~conn[c].permit /\ CanSend(c)
  /\ conn[c].rx < Oldest
  /\ conn' = [conn EXCEPT ![c].rx = Oldest]
  /\ UNCHANGED <<backend, processed, pushed, alt, live, attached, client>>
Lagged(c) ==
  /\ conn[c].pc = "streaming" /\ ~conn[c].permit /\ CanSend(c)
  /\ conn[c].rx < Oldest
  /\ conn' = [conn EXCEPT ![c].rx = Oldest, ![c].shown = processed, ![c].exact = FALSE]
  /\ UNCHANGED <<backend, processed, pushed, alt, live, attached, client>>

\* the inbound loop: a close frame, the end of the stream or an error; the
\* outbound task is aborted wherever it is
Leave(c) ==
  /\ conn[c].pc = "streaming" /\ client[c] \in {"alive", "gone"}
  /\ Finish(c)
  /\ UNCHANGED <<backend, processed, pushed, alt, live, client>>

\* the client falls silent (asleep, or its network is gone); the window fills
\* when somebody sends to it; in the end the transport notices
Silence(c) ==
  /\ Running(c)
  /\ \/ client[c] = "alive" /\ client' = [client EXCEPT ![c] = "silent"]
     \/ client[c] = "silent" /\ client' = [client EXCEPT ![c] = "stalled"]
  /\ UNCHANGED <<backend, processed, pushed, alt, live, attached, conn>>
TransportGone(c) ==
  /\ Running(c) /\ client[c] # "gone" /\ client' = [client EXCEPT ![c] = "gone"]
  /\ UNCHANGED <<backend, processed, pushed, alt, live, attached, conn>>

Steps(c) == Supersede(c) \/ Subscribe(c) \/ Prime(c) \/ Cancelled(c) \/ IdleTimeout(c) \/ Forward(c) \/ Lagged(c)
FanNext == \/ NativeChunk \/ SidecarProcess \/ SidecarPush \/ SessionEnds
           \/ \E c \in Conns : Register(c) \/ History(c) \/ Steps(c) \/ Leave(c) \/ Silence(c) \/ TransportGone(c)
FanSpec == FanInit /\ [][FanNext]_fanVars

\* The runtime polls a task whose await is ready, the broadcast's own thread
\* goes on, a read reports a dead transport, and TCP gives up on a peer that
\* acknowledges nothing.
FanFairSpec == /\ FanSpec /\ WF_fanVars(SidecarPush)
               /\ \A c \in Conns : /\ WF_fanVars(Steps(c))
                                   /\ WF_fanVars(client[c] = "gone" /\ Leave(c))
                                   /\ WF_fanVars(client[c] = "stalled" /\ TransportGone(c))

(***************************************************************************)
(* Properties.                                                             *)
(***************************************************************************)
FanTypeOK == /\ backend \in {"native", "sidecar"} /\ alt \in BOOLEAN /\ live \in BOOLEAN
             /\ pushed \in 0 .. processed /\ processed \in 0 .. MaxOutput
             /\ attached \in Conns \cup {Nobody}
             /\ client \in [Conns -> {"alive", "silent", "stalled", "gone"}]
             /\ conn \in [Conns -> [pc : {"idle", "registered", "notified", "priming", "streaming", "closed"},
                                    prev : Conns \cup {Nobody}, permit : BOOLEAN,
                                    rx : 1 .. MaxOutput + 1, shown : 0 .. MaxOutput, exact : BOOLEAN]]

\* What the receiver will deliver next is never beyond the chunk after the
\* client's view (no gap), and exactly that chunk (no duplicate) except after a
\* lag, or an attach to a sidecar's alternate screen, which may repeat a chunk
\* ("never sees a gap or a duplicated byte range", backend/mod.rs: README, section 5).
Seamless == \A c \in Conns : conn[c].pc \in {"priming", "streaming"} =>
              /\ conn[c].rx <= conn[c].shown + 1
              /\ conn[c].exact => conn[c].rx = conn[c].shown + 1

\* The session is "in use" exactly while the handler of the connection that
\* took it last still runs, whatever the earlier ones do on their way out.
InUse == /\ attached # Nobody => Running(attached)
         /\ \A c \in Conns : Running(c) /\ (\A d \in Conns : conn[d].prev # c) => attached = c

\* A connection that was superseded, or whose client fell silent, ends: the
\* session has one client, and a sleeping one does not keep it in use.
HandlersEnd == \A c \in Conns :
  (Running(c) /\ (attached # c \/ client[c] # "alive")) ~> conn[c].pc = "closed"
=============================================================================
