--------------------------- MODULE SidecarStream ---------------------------
(***************************************************************************)
(* One session as the daemon sees it through the asmux client: the         *)
(* supervisor that reconnects and re-attaches, the command queue, the      *)
(* reader that routes frames, the drain task that copies the output into   *)
(* the history ring and the event log, the reconcile pass that looks for   *)
(* missed exits, and a restart that adopts the session from the event log. *)
(*                                                                         *)
(* The holder is what HolderStream shows of it to one client.  The child   *)
(* writes numbered chunks; a frame carries one.  A frame counts as written *)
(* to the socket when the client reads it: the socket adds delay only.     *)
(***************************************************************************)
EXTENDS Naturals, Sequences

CONSTANTS
  MaxChunks,        \* bound: chunks the child writes
  RingCap,          \* chunks the holder's ring keeps
  DataCap,          \* frames the holder's data channel holds
  MaxDrops,         \* bound: connections lost
  MaxRestarts,      \* bound: restarts of the daemon
  MaxTakeovers,     \* bound: attaches of the session by another client
  Exposed,          \* phases in which a connection may drop, the child exit
  SaveFails,        \* may a batch of the event writer fail?
  Slow              \* may the holder take more than ten seconds to answer?

(* A session whose stream another client took over is "cut": its drain     *)
(* task is over, its end is not recorded.  One that is over was seen to    *)
(* end, was refused an attach, had an attach without an answer, or a       *)
(* start-up list.                                                          *)
Ends   == {"done", "refused", "unanswered", "unlisted"}
Phases == {"create", "boot", "adopt", "adoptGap", "run", "resync", "resyncGap",
           "cut"} \cup Ends

ASSUME SidecarAssumption ==
  /\ MaxChunks \in Nat /\ RingCap \in Nat \ {0} /\ DataCap \in Nat \ {0}
  /\ MaxDrops \in Nat /\ MaxRestarts \in Nat /\ MaxTakeovers \in Nat
  /\ Exposed \subseteq Phases
  /\ SaveFails \in BOOLEAN /\ Slow \in BOOLEAN

VARIABLES
  head,             \* chunks the child wrote
  child,            \* its state, as the holder lists it
  stream,           \* the holder's streamer on this connection
  pos,              \* that streamer's cursor
  ctrl, data,       \* the connection's frames to the daemon, by channel
  reqs,             \* the connection's requests to the holder
  sup,              \* the supervisor; "dial" when there is no connection
  cmds,             \* requests queued for the supervisor's writer loop
  routed,           \* the session has a Route
  cursor,           \* Route.last_cursor
  events,           \* the route's channel to the drain task
  phase,            \* where the session's task stands
  call, answer,     \* its rpc, and the reply
  earliest,         \* the tail a BUFFER_GAP reply named
  persistFrom,      \* DrainCtx.persist_from
  shown,            \* what the history ring and viewers got; 0: a gap marker
  unsaved,          \* events queued for the event writer
  saved,            \* terminal_events: the cold history
  stored,           \* sessions.backend_cursor
  pass, verdict,    \* the reconcile pass, and what list told it
  passes,           \* Connected events it has not consumed
  drops, restarts,  \* bounds
  takeovers

holder  == <<head, child>>
socket  == <<stream, pos, ctrl, data, reqs>>
route   == <<routed, cursor, events>>
calling == <<call, answer, earliest>>
copies  == <<persistFrom, shown>>
log     == <<unsaved, saved, stored>>
passing == <<pass, verdict, passes>>
bounds  == <<drops, restarts, takeovers>>
vars == <<holder, socket, sup, cmds, route, phase, calling, copies, log,
          passing, bounds>>

Requesters == {"supervisor", "task", "pass", "nobody"}
Requests == [kind : {"cursor", "earliest", "list"}, from : Nat, to : Requesters]
Verdicts == {"alive", "dead", "evicted", "failed"}
Replies  == [kind : {"attached", "gap", "unknown"} \cup Verdicts,
             at : Nat, to : Requesters]
Notices  == {"exited", "backpressure", "superseded"}
Events   == [kind : Notices \cup {"output"}, chunk : Nat]
Waiting  == {"none", "queued", "sent", "lost", "answered"}

Failed == [kind |-> "failed", at |-> 0, to |-> "task"]

Request(kind, from, to) == [kind |-> kind, from |-> from, to |-> to]
Reply(kind, at, to)     == [kind |-> kind, at |-> at, to |-> to]
Event(kind, chunk)      == [kind |-> kind, chunk |-> chunk]

tail   == IF head > RingCap THEN head - RingCap ELSE 0
InLive == phase \in {"run", "resync", "resyncGap", "cut"}
Over   == phase \in Ends

(* client.create succeeded; route and the first attach were called.        *)
Init ==
  /\ head = 0 /\ child = "alive"
  /\ stream = "none" /\ pos = 0
  /\ ctrl = <<>> /\ data = <<>> /\ reqs = <<>>
  /\ sup = "running"
  /\ cmds = <<Request("earliest", 0, "task")>>
  /\ routed = TRUE /\ cursor = 0 /\ events = <<>>
  /\ phase = "create"
  /\ call = "queued" /\ answer = Failed /\ earliest = 0
  /\ persistFrom = 0 /\ shown = <<>>
  /\ unsaved = <<>> /\ saved = <<>> /\ stored = 0
  /\ pass = "none" /\ verdict = "failed" /\ passes = 0
  /\ drops = 0 /\ restarts = 0 /\ takeovers = 0

-----------------------------------------------------------------------------
(* The holder.                                                             *)

Push ==
  /\ child = "alive"
  /\ head < MaxChunks
  /\ head' = head + 1
  /\ UNCHANGED <<child, socket, sup, cmds, route, phase, calling, copies, log,
                 passing, bounds>>

Exit ==
  /\ child = "alive"
  /\ phase \in Exposed
  /\ child' = "dead"
  /\ UNCHANGED <<head, socket, sup, cmds, route, phase, calling, copies, log,
                 passing, bounds>>

(* Another session's create evicts the tombstone.                          *)
Evict ==
  /\ child = "dead"
  /\ child' = "evicted"
  /\ UNCHANGED <<head, socket, sup, cmds, route, phase, calling, copies, log,
                 passing, bounds>>

(* handle_attach: a granted attach replaces the streamer; one on a dead    *)
(* child only replays, and says nothing of the exit.                       *)
HandleAttach ==
  LET m == Head(reqs)
      start == IF m.kind = "earliest" THEN tail ELSE m.from IN
  /\ reqs # <<>>
  /\ m.kind # "list"
  /\ reqs' = Tail(reqs)
  /\ \/ /\ child = "evicted"
        /\ ctrl' = Append(ctrl, Reply("unknown", 0, m.to))
        /\ UNCHANGED <<stream, pos>>
     \/ /\ child # "evicted" /\ start < tail
        /\ ctrl' = Append(ctrl, Reply("gap", tail, m.to))
        /\ UNCHANGED <<stream, pos>>
     \/ /\ child # "evicted" /\ start >= tail
        /\ ctrl' = Append(ctrl, Reply("attached", head, m.to))
        /\ stream' = IF child = "alive" THEN "live" ELSE "replay"
        /\ pos' = start
  /\ UNCHANGED <<holder, data, sup, cmds, route, phase, calling, copies, log,
                 passing, bounds>>

HandleList ==
  /\ reqs # <<>>
  /\ Head(reqs).kind = "list"
  /\ reqs' = Tail(reqs)
  /\ ctrl' = Append(ctrl, Reply(child, 0, Head(reqs).to))
  /\ UNCHANGED <<holder, stream, pos, data, sup, cmds, route, phase, calling,
                 copies, log, passing, bounds>>

(* The streamer reads the ring and hands over the next frame.              *)
StreamOutput ==
  /\ stream # "none"
  /\ tail <= pos /\ pos < head
  /\ Len(data) < DataCap
  /\ pos' = pos + 1
  /\ data' = Append(data, pos + 1)
  /\ UNCHANGED <<holder, stream, ctrl, reqs, sup, cmds, route, phase, calling,
                 copies, log, passing, bounds>>

(* The ring wrapped past the streamer.                                     *)
StreamEvict ==
  /\ stream # "none"
  /\ pos < tail
  /\ stream' = "none"
  /\ ctrl' = Append(ctrl, Reply("backpressure", pos, "nobody"))
  /\ UNCHANGED <<holder, pos, data, reqs, sup, cmds, route, phase, calling,
                 copies, log, passing, bounds>>

StreamEnd ==
  /\ stream # "none"
  /\ child # "alive" /\ pos = head
  /\ stream' = "none"
  /\ ctrl' = IF stream = "live"
             THEN Append(ctrl, Reply("exited", head, "nobody")) ELSE ctrl
  /\ UNCHANGED <<holder, pos, data, reqs, sup, cmds, route, phase, calling,
                 copies, log, passing, bounds>>

(* Another client attaches: the daemon's streamer is cancelled, and its    *)
(* connection told.  What the streamer had in hand is in data, or is not.  *)
TakeOver ==
  /\ takeovers < MaxTakeovers
  /\ stream # "none" /\ child # "evicted"
  /\ takeovers' = takeovers + 1
  /\ stream' = "none"
  /\ ctrl' = Append(ctrl, Reply("superseded", head, "nobody"))
  /\ UNCHANGED <<holder, pos, data, reqs, sup, cmds, route, phase, calling,
                 copies, log, passing, drops, restarts>>

-----------------------------------------------------------------------------
(* The client: reader task, supervisor, command queue.                     *)

(* The drain task of a session that is cut or over receives nothing.       *)
Deliver(e) ==
  events' = IF routed /\ phase \notin Ends \cup {"cut"} THEN Append(events, e)
            ELSE events

(* The holder's writer prefers control frames.                             *)
ReadOutput ==
  /\ ctrl = <<>> /\ data # <<>>
  /\ data' = Tail(data)
  /\ cursor' = IF routed THEN Head(data) ELSE cursor
  /\ Deliver(Event("output", Head(data)))
  /\ UNCHANGED <<holder, stream, pos, ctrl, reqs, sup, cmds, routed, phase,
                 calling, copies, log, passing, bounds>>

ReadNotice ==
  /\ ctrl # <<>>
  /\ Head(ctrl).kind \in Notices
  /\ ctrl' = Tail(ctrl)
  /\ Deliver(Event(Head(ctrl).kind, 0))
  /\ UNCHANGED <<holder, stream, pos, data, reqs, sup, cmds, routed, cursor,
                 phase, calling, copies, log, passing, bounds>>

(* The reply to an rpc of the task or of the pass; an rpc that timed out   *)
(* is nobody's.                                                            *)
ReadReply ==
  /\ ctrl # <<>>
  /\ Head(ctrl).kind \notin Notices
  /\ ctrl' = Tail(ctrl)
  /\ \/ /\ Head(ctrl).to = "task"
        /\ call' = "answered" /\ answer' = Head(ctrl)
        /\ UNCHANGED <<pass, verdict>>
     \/ /\ Head(ctrl).to = "pass"
        /\ pass' = "answered" /\ verdict' = Head(ctrl).kind
        /\ UNCHANGED <<call, answer>>
     \/ /\ Head(ctrl).to = "nobody"
        /\ UNCHANGED <<call, answer, pass, verdict>>
  /\ UNCHANGED <<holder, stream, pos, data, reqs, sup, cmds, route, phase,
                 earliest, copies, log, passes, bounds>>

(* Mutation of Connected: no pass is asked for.                            *)
ConnectedSilent == sup' = "running" /\ UNCHANGED passes

Connected == sup' = "running" /\ passes' = passes + 1

(* reattach_all: a gap falls back to FromEarliest, any other outcome ends  *)
(* it.                                                                     *)
ReattachReply ==
  /\ ctrl # <<>>
  /\ Head(ctrl).to = "supervisor"
  /\ ctrl' = Tail(ctrl)
  /\ \/ /\ sup = "reattach" /\ Head(ctrl).kind = "gap"
        /\ sup' = "earliest"
        /\ reqs' = Append(reqs, Request("earliest", 0, "supervisor"))
        /\ UNCHANGED passes
     \/ /\ sup = "earliest" \/ Head(ctrl).kind # "gap"
        /\ Connected
        /\ UNCHANGED reqs
  /\ UNCHANGED <<holder, stream, pos, data, cmds, route, phase, calling, copies,
                 log, pass, verdict, bounds>>

(* Mutation of Reconnect: no route is re-attached.                         *)
ReconnectForgets ==
  /\ sup = "dial"
  /\ Connected
  /\ UNCHANGED <<holder, stream, pos, ctrl, data, reqs, cmds, route, phase,
                 calling, copies, log, pass, verdict, bounds>>

(* dial, hello, then re-attach the route from its last cursor.             *)
Reconnect ==
  /\ sup = "dial"
  /\ \/ /\ routed
        /\ sup' = "reattach"
        /\ reqs' = <<Request("cursor", cursor, "supervisor")>>
        /\ UNCHANGED passes
     \/ /\ ~routed
        /\ Connected
        /\ UNCHANGED reqs
  /\ UNCHANGED <<holder, stream, pos, ctrl, data, cmds, route, phase, calling,
                 copies, log, pass, verdict, bounds>>

(* run_writer registers the rpc as pending and writes it.                  *)
SendCommand ==
  /\ sup = "running"
  /\ cmds # <<>>
  /\ cmds' = Tail(cmds)
  /\ reqs' = Append(reqs, Head(cmds))
  /\ call' = IF Head(cmds).to = "task" THEN "sent" ELSE call
  /\ pass' = IF Head(cmds).to = "pass" THEN "sent" ELSE pass
  /\ UNCHANGED <<holder, stream, pos, ctrl, data, sup, route, phase, answer,
                 earliest, copies, log, verdict, passes, bounds>>

(* The connection is lost with everything in flight.  A reader that sees   *)
(* it close fails the pending rpcs; one that is aborted (a failed write,   *)
(* the idle watchdog) leaves them to their timeout.                        *)
Drop ==
  /\ sup # "dial"
  /\ drops < MaxDrops
  /\ phase \in Exposed
  /\ drops' = drops + 1
  /\ sup' = "dial"
  /\ stream' = "none"
  /\ ctrl' = <<>> /\ data' = <<>> /\ reqs' = <<>>
  /\ \/ /\ call' = IF call = "sent" THEN "answered" ELSE call
        /\ answer' = IF call = "sent" THEN Failed ELSE answer
        /\ pass' = IF pass = "sent" THEN "answered" ELSE pass
        /\ verdict' = IF pass = "sent" THEN "failed" ELSE verdict
     \/ /\ call' = IF call = "sent" THEN "lost" ELSE call
        /\ pass' = IF pass = "sent" THEN "lost" ELSE pass
        /\ UNCHANGED <<answer, verdict>>
  /\ UNCHANGED <<holder, pos, cmds, route, phase, earliest, copies, log, passes,
                 restarts, takeovers>>

(* Mutation of Stuck: only a queued rpc has a timeout.                     *)
StuckQueued(state) == state = "queued" /\ sup # "running"

(* Unless the holder is slow, only an rpc that cannot be answered runs     *)
(* into its timeout.                                                       *)
Stuck(state) ==
  \/ state = "lost"
  \/ state = "queued" /\ sup # "running"
  \/ Slow /\ state \in {"queued", "sent"}

(* What is under way for who is nobody's from now on.                      *)
Forget(frames, who) ==
  [i \in DOMAIN frames |->
     IF frames[i].to = who THEN [frames[i] EXCEPT !.to = "nobody"]
     ELSE frames[i]]

(* Ten seconds without a reply.  The command stays in the queue, or on its *)
(* way, and is carried out all the same.                                   *)
Timeout ==
  \E who \in {"task", "pass"} :
    /\ cmds' = Forget(cmds, who)
    /\ reqs' = Forget(reqs, who)
    /\ ctrl' = Forget(ctrl, who)
    /\ \/ /\ who = "task" /\ Stuck(call)
          /\ call' = "answered" /\ answer' = Failed
          /\ UNCHANGED <<pass, verdict>>
       \/ /\ who = "pass" /\ Stuck(pass)
          /\ pass' = "answered" /\ verdict' = "failed"
          /\ UNCHANGED <<call, answer>>
    /\ UNCHANGED <<holder, stream, pos, data, sup, route, phase, earliest,
                   copies, log, passes, bounds>>

-----------------------------------------------------------------------------
(* The session's task: create or adopt, then the drain loop.               *)

Attach(kind, from) ==
  /\ call' = "queued"
  /\ cmds' = Append(cmds, Request(kind, from, "task"))

Replied(p, kinds) == phase = p /\ call = "answered" /\ answer.kind \in kinds

(* The reply that refuses an attach, or the lack of one.                   *)
GivenUp == IF answer.kind = "unknown" THEN "refused" ELSE "unanswered"

(* create: an error leaves the route behind.                               *)
Created ==
  /\ phase = "create" /\ call = "answered"
  /\ call' = "none"
  /\ phase' = IF answer.kind \in {"attached", "gap"} THEN "run" ELSE GivenUp
  /\ UNCHANGED <<holder, socket, sup, cmds, route, answer, earliest, copies,
                 log, passing, bounds>>

Persist(n) == unsaved' = IF n > persistFrom THEN Append(unsaved, n) ELSE unsaved

DrainOutput ==
  /\ phase = "run" /\ events # <<>> /\ Head(events).kind = "output"
  /\ events' = Tail(events)
  /\ shown' = Append(shown, Head(events).chunk)
  /\ Persist(Head(events).chunk)
  /\ UNCHANGED <<holder, socket, sup, cmds, routed, cursor, phase, calling,
                 persistFrom, saved, stored, passing, bounds>>

(* Mutation of DrainEnd: a stream taken over is an exit.                   *)
DrainEndAny ==
  /\ phase = "run"
  /\ \/ events # <<>> /\ Head(events).kind \in {"exited", "superseded"}
     \/ events = <<>> /\ ~routed
  /\ phase' = "done"
  /\ events' = <<>>
  /\ UNCHANGED <<holder, socket, sup, cmds, routed, cursor, calling, copies,
                 log, passing, bounds>>

(* The exit, or the end of a route that was removed, ends the task; so     *)
(* does a detach for any reason but backpressure, without a status: the    *)
(* monitor stops, the session stays in the manager's table.                *)
DrainEnd ==
  /\ phase = "run"
  /\ \/ events # <<>> /\ Head(events).kind = "exited" /\ phase' = "done"
     \/ events # <<>> /\ Head(events).kind = "superseded" /\ phase' = "cut"
     \/ events = <<>> /\ ~routed /\ phase' = "done"
  /\ events' = <<>>
  /\ UNCHANGED <<holder, socket, sup, cmds, routed, cursor, calling, copies,
                 log, passing, bounds>>

(* An eviction for backpressure: resync from the route's cursor.           *)
DrainEvicted ==
  /\ phase = "run" /\ events # <<>> /\ Head(events).kind = "backpressure"
  /\ events' = Tail(events)
  /\ phase' = "resync"
  /\ Attach("cursor", IF routed THEN cursor ELSE 0)
  /\ UNCHANGED <<holder, socket, sup, routed, cursor, answer, earliest, copies,
                 log, passing, bounds>>

Resynced ==
  \/ /\ Replied("resync", {"gap"})
     /\ phase' = "resyncGap"
     /\ earliest' = answer.at
     /\ Attach("earliest", 0)
     /\ UNCHANGED cursor
  \/ /\ phase = "resync" /\ call = "answered" /\ answer.kind # "gap"
     /\ phase' = "run" /\ call' = "none"
     /\ UNCHANGED <<cursor, earliest, cmds>>
  \/ /\ phase = "resyncGap" /\ call = "answered"
     /\ phase' = "run" /\ call' = "none"
     /\ cursor' = IF routed THEN earliest ELSE cursor
     /\ UNCHANGED <<earliest, cmds>>

Resync ==
  /\ Resynced
  /\ UNCHANGED <<holder, socket, sup, routed, events, answer, copies, log,
                 passing, bounds>>

(* adopt's attach is answered: exact; or a gap, marked and resynced; or    *)
(* refused, which removes the route; or lost, which does not.              *)
Adopted ==
  /\ Replied("adopt", {"attached"})
  /\ phase' = "run" /\ call' = "none"
  /\ UNCHANGED <<holder, socket, sup, cmds, route, answer, earliest, copies,
                 log, passing, bounds>>

AdoptGap ==
  /\ Replied("adopt", {"gap"})
  /\ phase' = "adoptGap"
  /\ earliest' = answer.at
  /\ shown' = Append(shown, 0)
  /\ Attach("earliest", 0)
  /\ UNCHANGED <<holder, socket, sup, route, answer, persistFrom, log, passing,
                 bounds>>

AdoptResynced ==
  /\ Replied("adoptGap", {"attached", "gap", "unknown"})
  /\ phase' = "run" /\ call' = "none"
  /\ cursor' = earliest
  /\ UNCHANGED <<holder, socket, sup, cmds, routed, events, answer, earliest,
                 copies, log, passing, bounds>>

AdoptRefused ==
  /\ \/ Replied("adopt", {"unknown"}) /\ routed' = FALSE
     \/ phase \in {"adopt", "adoptGap"} /\ call = "answered"
        /\ answer.kind = "failed" /\ UNCHANGED routed
  /\ phase' = GivenUp /\ call' = "none"
  /\ events' = <<>>
  /\ UNCHANGED <<holder, socket, sup, cmds, cursor, answer, earliest, copies,
                 log, passing, bounds>>

Task ==
  \/ Created \/ DrainOutput \/ DrainEnd \/ DrainEvicted \/ Resync
  \/ Adopted \/ AdoptGap \/ AdoptResynced \/ AdoptRefused

-----------------------------------------------------------------------------
(* The reconcile pass, the event writer and restarts.                      *)

(* A Connected event starts a pass, unless one runs or adoption does.      *)
PassStart ==
  /\ passes > 0 /\ pass = "none" /\ InLive
  /\ passes' = passes - 1
  /\ pass' = "queued"
  /\ cmds' = Append(cmds, Request("list", 0, "pass"))
  /\ UNCHANGED <<holder, socket, sup, route, phase, calling, copies, log,
                 verdict, bounds>>

(* What it does to a live session: nothing; inject its exit; or remove its *)
(* route, which ends the drain task or finds it ended.                     *)
PassLive ==
  /\ pass = "answered" /\ phase # "boot"
  /\ pass' = "none"
  /\ \/ /\ verdict = "dead" /\ InLive
        /\ Deliver(Event("exited", 0))
        /\ UNCHANGED <<routed, phase>>
     \/ /\ verdict = "evicted" /\ InLive
        /\ routed' = FALSE
        /\ phase' = IF phase = "cut" THEN "done" ELSE phase
        /\ UNCHANGED events
     \/ /\ verdict \in {"alive", "failed"} \/ ~InLive
        /\ UNCHANGED <<routed, events, phase>>
  /\ UNCHANGED <<holder, socket, sup, cmds, cursor, calling, copies, log,
                 verdict, passes, bounds>>

(* Mutation of Adopt: the route starts at 0, whatever the attach asks for. *)
AdoptSeedsZero ==
  /\ pass = "answered" /\ phase = "boot" /\ verdict = "alive"
  /\ pass' = "none" /\ phase' = "adopt"
  /\ routed' = TRUE /\ cursor' = 0
  /\ persistFrom' = stored /\ shown' = saved
  /\ Attach("cursor", stored)
  /\ UNCHANGED <<holder, socket, sup, events, answer, earliest, log, verdict,
                 passes, bounds>>

(* What the start-up pass does: adopt a live session, from the end of its  *)
(* cold history; settle any other.                                         *)
Adopt ==
  /\ pass = "answered" /\ phase = "boot" /\ verdict = "alive"
  /\ pass' = "none" /\ phase' = "adopt"
  /\ routed' = TRUE /\ cursor' = stored
  /\ persistFrom' = stored /\ shown' = saved
  /\ Attach("cursor", stored)
  /\ UNCHANGED <<holder, socket, sup, events, answer, earliest, log, verdict,
                 passes, bounds>>

Settle ==
  /\ pass = "answered" /\ phase = "boot" /\ verdict # "alive"
  /\ pass' = "none"
  /\ phase' = IF verdict = "failed" THEN "unlisted" ELSE "done"
  /\ UNCHANGED <<holder, socket, sup, cmds, route, calling, copies, log,
                 verdict, passes, bounds>>

(* Mutation of Save: the cursor runs ahead of the events.                  *)
SaveCursorFirst ==
  /\ unsaved # <<>>
  /\ unsaved' = Tail(unsaved)
  /\ saved' = Append(saved, Head(unsaved))
  /\ stored' = unsaved[Len(unsaved)]
  /\ UNCHANGED <<holder, socket, sup, cmds, route, phase, calling, copies,
                 passing, bounds>>

(* write_batch stores events and the cursor in one transaction; a batch    *)
(* that fails is dropped.                                                  *)
Save ==
  /\ unsaved # <<>>
  /\ unsaved' = Tail(unsaved)
  /\ saved' = Append(saved, Head(unsaved))
  /\ stored' = IF stored < Head(unsaved) THEN Head(unsaved) ELSE stored
  /\ UNCHANGED <<holder, socket, sup, cmds, route, phase, calling, copies,
                 passing, bounds>>

SaveFail ==
  /\ SaveFails
  /\ unsaved # <<>>
  /\ unsaved' = Tail(unsaved)
  /\ UNCHANGED <<holder, socket, sup, cmds, route, phase, calling, copies,
                 saved, stored, passing, bounds>>

(* The daemon dies and starts again: it connects, and its start-up pass    *)
(* asks the holder for its sessions.                                       *)
Restart ==
  /\ restarts < MaxRestarts /\ ~Over
  /\ restarts' = restarts + 1
  /\ stream' = "none"
  /\ ctrl' = <<>> /\ data' = <<>> /\ reqs' = <<>>
  /\ sup' = "running" /\ cmds' = <<Request("list", 0, "pass")>>
  /\ routed' = FALSE /\ events' = <<>>
  /\ phase' = "boot" /\ call' = "none"
  /\ unsaved' = <<>>
  /\ pass' = "queued" /\ passes' = 0
  /\ shown' = <<>>
  /\ UNCHANGED <<holder, pos, cursor, answer, earliest, persistFrom, saved,
                 stored, verdict, drops, takeovers>>

Holder == HandleAttach \/ HandleList \/ StreamOutput \/ StreamEvict \/ StreamEnd
Client == ReadOutput \/ ReadNotice \/ ReadReply \/ ReattachReply \/ SendCommand
Pass   == PassStart \/ PassLive \/ Adopt \/ Settle

Next ==
  \/ Push \/ Exit \/ Evict \/ Holder \/ TakeOver
  \/ Client \/ Reconnect \/ Drop \/ Timeout
  \/ Task \/ Pass \/ Save \/ SaveFail \/ Restart

Spec == Init /\ [][Next]_vars

(* Tasks and threads run, and a reconnect is retried until it succeeds;    *)
(* nothing makes the child write or exit, or the connection drop.          *)
Fairness ==
  /\ WF_vars(HandleAttach) /\ WF_vars(HandleList)
  /\ WF_vars(StreamOutput) /\ WF_vars(StreamEvict) /\ WF_vars(StreamEnd)
  /\ WF_vars(ReadOutput \/ ReadNotice \/ ReadReply \/ ReattachReply)
  /\ WF_vars(SendCommand) /\ WF_vars(Reconnect) /\ WF_vars(Timeout)
  /\ WF_vars(Task) /\ WF_vars(Pass) /\ WF_vars(Save)

FairSpec == Spec /\ Fairness

-----------------------------------------------------------------------------
(* Types; every reply has an rpc that waits for it, or nobody does.        *)
TypeOK ==
  /\ head \in Nat /\ child \in {"alive", "dead", "evicted"}
  /\ stream \in {"none", "live", "replay"} /\ pos \in Nat /\ pos <= head
  /\ \A i \in DOMAIN ctrl : ctrl[i].to \in Requesters /\ ctrl[i].at \in Nat
  /\ data \in Seq(1 .. head) /\ reqs \in Seq(Requests) /\ cmds \in Seq(Requests)
  /\ sup \in {"running", "dial", "reattach", "earliest"}
  /\ routed \in BOOLEAN /\ cursor \in 0 .. head /\ events \in Seq(Events)
  /\ phase \in Phases
  /\ call \in Waiting /\ answer \in Replies /\ earliest \in Nat
  /\ persistFrom \in Nat /\ shown \in Seq(0 .. head)
  /\ unsaved \in Seq(1 .. head) /\ saved \in Seq(1 .. head) /\ stored \in Nat
  /\ pass \in Waiting /\ verdict \in Verdicts
  /\ passes \in Nat /\ drops \in Nat /\ restarts \in Nat

(* The cold history is exactly the output up to the stored cursor, and     *)
(* what a running session shows beyond it is on its way there, so that an  *)
(* adopting daemon resumes where the history ends.                         *)
ColdStitch ==
  /\ \A i \in DOMAIN saved : saved[i] = i
  /\ stored = Len(saved)
  /\ phase \in {"create", "run", "done"} /\ shown # <<>> =>
       shown[Len(shown)] = Len(saved) + Len(unsaved)

(* No end of a session whose child lives rests on what the holder said,    *)
(* however old that was when the daemon acted on it: on an exit it         *)
(* announced, an exit or an absence it listed, an attach it refused.  What *)
(* loses a live session is silence, an attach or a start-up list that      *)
(* failed or took too long, or another client: none of them records an     *)
(* exit.                                                                   *)
EndedOnlyIfDead == phase \in {"done", "refused"} => child # "alive"

(* While the ring covers what was not read, all this implements the feed.  *)
Feed == INSTANCE DurableFeed WITH written <- head, copy <- shown,
                                  durable <- stored
FeedSpec == Feed!Spec

(* An rpc of the session's task ends, in a reply, a failure or a timeout,  *)
(* also when its connection is lost under it.                              *)
CallEnds == call # "none" ~> call = "none"

(* Whatever the child writes is shown, while its session lasts and no      *)
(* other client takes its stream over.                                     *)
OutputShown ==
  \A n \in 1 .. MaxChunks :
    head >= n ~> (Over \/ phase = "cut" \/ \E i \in DOMAIN shown : shown[i] = n)

(* The end of the child ends its session, unless another client took the   *)
(* stream over before: nobody is left then to record it.                   *)
ExitSeen == child # "alive" ~> (Over \/ phase = "cut")
=============================================================================
