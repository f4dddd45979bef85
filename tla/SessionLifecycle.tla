-------------------------- MODULE SessionLifecycle --------------------------
(***************************************************************************)
(* The session manager's record of one session against its child: create,  *)
(* stop, archive, the monitor that finalizes, the reconcile passes after a *)
(* start and after a reconnect, crashes of the daemon and of the holder.   *)
(* Every read of the row, of the live map or of the holder's list is a     *)
(* step of its own; what is written on its strength may come later.        *)
(*                                                                         *)
(* The asmux client is seen from outside: a call is answered, or fails     *)
(* because the connection went.  A child outlives the first attach of its  *)
(* create (otherwise its exit is announced to nobody: SidecarStream).      *)
(***************************************************************************)
EXTENDS Naturals, FiniteSets

CONSTANTS
  MaxCrashes,       \* bound: crashes and restarts of the daemon
  MaxDrops,         \* bound: connections lost
  MaxStops          \* bound: stop requests

ASSUME LifecycleAssumption == MaxCrashes \in Nat /\ MaxDrops \in Nat /\ MaxStops \in Nat

VARIABLES
  durable,          \* is the backend a holder, or this process?
  row,              \* sessions.status
  child,            \* the holder's record of it; "gone": it has none
  live,             \* is there a handle in the live map?
  drain,            \* the handle's status: running, told of the exit, or closed
  heard,            \* will the holder announce the exit on this connection?
  up, ready,        \* the daemon runs; its start-up pass is over
  conn, due,        \* connected; Connected events not consumed
  creator, monitor, stopper, pass,   \* where each operation stands
  seen,             \* the row on_exit read
  list,             \* what holder_list said of the session
  kill,             \* a kill is queued in the client
  crashes, drops, stops,
  accidents,        \* history: what may have orphaned the child
  under             \* history: operations under way when the row last ended

daemon == <<up, ready, conn, due>>
ops    == <<creator, monitor, stopper, pass>>
reads  == <<seen, list>>
bounds == <<crashes, drops, stops>>
vars == <<durable, row, child, live, drain, heard, daemon, ops, reads, kill,
          bounds, accidents, under>>

Live  == {"starting", "running"}              \* SessionStatus: not terminal
Ended == {"ended", "stopped", "archived"}     \* definitive, and why
(* "ended" stands for exited and for failed by a signal.                   *)
Rows  == Live \cup Ended \cup {"none", "failed", "indeterminate"}
Accidents == {"createFailed", "adoptFailed", "listFailed", "listStale",
              "stopNotLive", "killLost", "crashed", "createdEarly", "inCreation"}

TypeOK ==
  /\ durable \in BOOLEAN /\ row \in Rows
  /\ child \in {"none", "alive", "dead", "gone"}
  /\ live \in BOOLEAN /\ drain \in {"none", "on", "told", "closed"}
  /\ heard \in BOOLEAN /\ up \in BOOLEAN /\ ready \in BOOLEAN
  /\ conn \in BOOLEAN /\ due \in BOOLEAN
  /\ creator \in {"idle", "row", "handle", "live"}
  /\ monitor \in {"none", "on", "read"} /\ stopper \in {"idle", "live", "not", "kill"}
  /\ pass \in {"idle", "start", "listed", "judge", "absent", "unsure", "adopted"}
  /\ seen \in Rows /\ list \in {"none", "alive", "dead", "gone"}
  /\ kill \in BOOLEAN /\ accidents \subseteq Accidents
  /\ under \subseteq {"create", "exit", "pass"}

Init ==
  /\ durable \in BOOLEAN
  /\ row = "none" /\ child = "none" /\ live = FALSE /\ drain = "none"
  /\ heard = FALSE /\ up = TRUE /\ ready = TRUE /\ conn = TRUE /\ due = FALSE
  /\ creator = "idle" /\ monitor = "none" /\ stopper = "idle" /\ pass = "idle"
  /\ seen = "none" /\ list = "none" /\ kill = FALSE
  /\ crashes = 0 /\ drops = 0 /\ stops = 0
  /\ accidents = {} /\ under = {}

InFlight == {o \in {"create", "exit", "pass"} :
               \/ o = "create" /\ creator # "idle"
               \/ o = "exit" /\ monitor = "read"
               \/ o = "pass" /\ pass # "idle"}

(* db.update_status is unconditional: the last writer wins.                *)
Write(s, by) ==
  /\ row' = s
  /\ under' = IF s \in Ended THEN InFlight \ {by} ELSE under

(* It matters to a child that lives, or is about to be spawned.            *)
Accident(a) ==
  accidents' = IF child' = "alive" \/ creator' = "row" THEN accidents \cup {a}
               ELSE accidents

(* spawn_monitor; live_session_ids; a Connected event asks for a pass.     *)
SpawnMonitor == monitor' = "on"
LiveSession  == row \in Live
OnConnected  == pass = "idle" /\ ready /\ up /\ due /\ due' = FALSE
-----------------------------------------------------------------------------
(* create_session.                                                         *)

Insert ==
  /\ up /\ row = "none" /\ creator = "idle"
  /\ Write("starting", "create") /\ creator' = "row"
  /\ UNCHANGED <<durable, child, live, drain, heard, daemon, monitor, stopper,
                 pass, reads, kill, bounds, accidents>>

Spawned ==
  /\ creator = "row" /\ (durable => conn)
  /\ creator' = "handle"
  /\ child' = "alive" /\ drain' = "on" /\ heard' = TRUE
  /\ UNCHANGED <<durable, row, live, daemon, monitor, stopper, pass, reads, kill,
                 bounds, accidents, under>>

(* backend.create failed: before the child was spawned or, with a holder,  *)
(* after (the connection went before create or attach was answered).       *)
SpawnFailed ==
  /\ creator = "row"
  /\ creator' = "idle" /\ Write("failed", "create")
  /\ child' \in IF durable THEN {"none", "alive"} ELSE {"none"}
  /\ Accident("createFailed")
  /\ UNCHANGED <<durable, live, drain, heard, daemon, monitor, stopper, pass,
                 reads, kill, bounds>>

GoLive ==
  /\ creator = "handle"
  /\ live' = TRUE /\ creator' = "live"
  /\ UNCHANGED <<durable, row, child, drain, heard, daemon, monitor, stopper,
                 pass, reads, kill, bounds, accidents, under>>

MarkRunning ==
  /\ creator = "live"
  /\ Write("running", "create") /\ SpawnMonitor /\ creator' = "idle"
  /\ UNCHANGED <<durable, child, live, drain, heard, daemon, stopper, pass, reads,
                 kill, bounds, accidents>>
-----------------------------------------------------------------------------
(* The monitor: on_exit reads the row, writes it, and drops the handle; a  *)
(* stream closed without a status only ends the monitor.                   *)

ExitRead ==
  /\ monitor = "on" /\ drain = "told"
  /\ monitor' = "read" /\ seen' = row
  /\ UNCHANGED <<durable, row, child, live, drain, heard, daemon, creator, stopper,
                 pass, list, kill, bounds, accidents, under>>

FinalIgnoresStop(was) == "ended"    \* mutant: the stop is not respected

FinalStatus(was) == IF was \in {"stopped", "archived"} THEN was ELSE "ended"

ExitWritten ==
  /\ monitor = "read"
  /\ Write(FinalStatus(seen), "exit")
  /\ monitor' = "none" /\ live' = FALSE
  /\ UNCHANGED <<durable, child, drain, heard, daemon, creator, stopper, pass,
                 reads, kill, bounds, accidents>>

StreamClosed ==
  /\ monitor = "on" /\ drain = "closed"
  /\ monitor' = "none"
  /\ UNCHANGED <<durable, row, child, live, drain, heard, daemon, creator, stopper,
                 pass, reads, kill, bounds, accidents, under>>
-----------------------------------------------------------------------------
(* stop_session (forced, or of a session that is not busy).                *)

StopRead ==
  /\ up /\ row # "none" /\ stopper = "idle" /\ stops < MaxStops
  /\ stopper' = IF live THEN "live" ELSE "not"
  /\ stops' = stops + 1
  /\ UNCHANGED <<durable, row, child, live, drain, heard, daemon, creator, monitor,
                 pass, reads, kill, crashes, drops, accidents, under>>

StopOnlyRecords ==    \* mutant: the handle is not stopped
  /\ stopper = "live"
  /\ Write("stopped", "user") /\ stopper' = "idle"
  /\ UNCHANGED <<durable, child, live, drain, heard, daemon, creator, monitor,
                 pass, reads, kill, bounds, accidents>>

StopLive ==
  /\ stopper = "live"
  /\ Write("stopped", "user") /\ stopper' = "kill"
  /\ UNCHANGED <<durable, child, live, drain, heard, daemon, creator, monitor,
                 pass, reads, kill, bounds, accidents>>

StopKill ==
  /\ stopper = "kill"
  /\ kill' = TRUE /\ stopper' = "idle"
  /\ UNCHANGED <<durable, row, child, live, drain, heard, daemon, creator, monitor,
                 pass, reads, bounds, accidents, under>>

(* No handle: a row that is not terminal becomes stopped, and that is all. *)
StopNotLive ==
  /\ stopper = "not" /\ stopper' = "idle"
  /\ IF row \in Live THEN Write("stopped", "user") ELSE UNCHANGED <<row, under>>
  /\ UNCHANGED <<child, creator>> /\ Accident("stopNotLive")
  /\ UNCHANGED <<durable, live, drain, heard, daemon, monitor, pass, reads,
                 kill, bounds>>

Archive ==
  /\ up /\ row \in {"ended", "failed", "stopped"} /\ ~live
  /\ Write("archived", "user")
  /\ UNCHANGED <<durable, child, live, drain, heard, daemon, ops, reads, kill,
                 bounds, accidents>>
-----------------------------------------------------------------------------
(* The reconcile passes; reconcile_pass admits one at a time.              *)

Consult(l) == list' = l /\ pass' = "listed"

(* With an in-process backend every live row fails at start-up; create is  *)
(* not held back, so that the row may be a new session's.                  *)
OrphansFail ==
  /\ pass = "start" /\ ~durable
  /\ IF LiveSession THEN Write("failed", "pass") ELSE UNCHANGED <<row, under>>
  /\ ready' = TRUE /\ pass' = "idle"
  /\ UNCHANGED <<child, creator>> /\ Accident("createdEarly")
  /\ UNCHANGED <<durable, live, drain, heard, up, conn, due, monitor, stopper, reads,
                 kill, bounds>>

HolderList ==
  /\ durable /\ conn
  /\ \/ pass = "start" /\ UNCHANGED due
     \/ OnConnected
  /\ Consult(IF child = "none" THEN "gone" ELSE child)
  /\ UNCHANGED <<durable, row, child, live, drain, heard, up, ready, conn, creator,
                 monitor, stopper, seen, kill, bounds, accidents, under>>

(* The list failed: at start-up every live row is indeterminate; after a   *)
(* reconnect nothing is concluded and the next Connected tries again.      *)
ListFailed ==
  /\ durable
  /\ \/ /\ pass = "start" /\ ready' = TRUE /\ pass' = "idle"
        /\ IF LiveSession THEN Write("indeterminate", "pass") ELSE UNCHANGED <<row, under>>
        /\ UNCHANGED <<child, creator>> /\ Accident("listFailed")
        /\ UNCHANGED due
     \/ /\ OnConnected /\ ~conn
        /\ UNCHANGED <<row, under, child, creator, accidents, ready, pass>>
  /\ UNCHANGED <<durable, live, drain, heard, up, conn, monitor, stopper,
                 reads, kill, bounds>>

PassEnds == pass' = "idle" /\ ready' = TRUE

(* live_session_ids, read after the list.                                  *)
PassReadsIds ==
  /\ pass = "listed"
  /\ IF LiveSession THEN pass' = "judge" /\ UNCHANGED ready ELSE PassEnds
  /\ UNCHANGED <<durable, row, child, live, drain, heard, up, conn, due, creator,
                 monitor, stopper, reads, kill, bounds, accidents, under>>

(* Alive and in the live map: the supervisor re-attached it.               *)
JudgeKnown ==
  /\ pass = "judge" /\ list = "alive" /\ live
  /\ PassEnds
  /\ UNCHANGED <<durable, row, child, live, drain, heard, up, conn, due, creator,
                 monitor, stopper, reads, kill, bounds, accidents, under>>

(* A pass that finds create between its steps acts on the half-made session*)
(* as on a survivor: it adopts it a second time, or drops its handle.      *)
TooEarly == IF creator # "idle" THEN {"inCreation"} ELSE {}

AdoptUnregistered ==    \* mutant: the handle is not put into the live map
  /\ pass = "judge" /\ list = "alive" /\ ~live
  /\ conn /\ child \in {"alive", "dead"}
  /\ drain' = "on" /\ heard' = (child = "alive")
  /\ pass' = "adopted" /\ accidents' = accidents \cup TooEarly
  /\ UNCHANGED <<durable, row, child, live, daemon, creator, monitor, stopper, reads,
                 kill, bounds, under>>

(* adopt attaches from the stored cursor; on a dead child it only replays. *)
Adopt ==
  /\ pass = "judge" /\ list = "alive" /\ ~live
  /\ conn /\ child \in {"alive", "dead"}
  /\ live' = TRUE /\ drain' = "on" /\ heard' = (child = "alive")
  /\ pass' = "adopted" /\ accidents' = accidents \cup TooEarly
  /\ UNCHANGED <<durable, row, child, daemon, creator, monitor, stopper, reads,
                 kill, bounds, under>>

Adopted ==
  /\ pass = "adopted"
  /\ Write("running", "pass") /\ SpawnMonitor /\ PassEnds
  /\ UNCHANGED <<durable, child, live, drain, heard, up, conn, due, creator, stopper,
                 reads, kill, bounds, accidents>>

AdoptFailed ==
  /\ pass = "judge" /\ list = "alive" /\ ~live
  /\ child \in {"none", "gone"} \/ ~conn
  /\ pass' = "unsure"
  /\ UNCHANGED <<child, creator>> /\ Accident("adoptFailed")
  /\ UNCHANGED <<durable, row, live, drain, heard, daemon, monitor, stopper,
                 reads, kill, bounds, under>>

(* An exit record: told to the drain of a live one, written otherwise.     *)
JudgeDead ==
  /\ pass = "judge" /\ list = "dead"
  /\ PassEnds
  /\ \/ /\ live /\ drain' = IF drain = "on" THEN "told" ELSE drain
        /\ UNCHANGED <<row, under>>
     \/ ~live /\ Write("ended", "pass") /\ UNCHANGED drain
  /\ UNCHANGED <<durable, child, live, heard, up, conn, due, creator, monitor,
                 stopper, reads, kill, bounds, accidents>>

JudgeAbsentAsExit ==    \* mutant: a missing record is taken for an exit
  /\ pass = "judge" /\ list = "gone"
  /\ drain' = IF live /\ drain = "on" THEN "told" ELSE drain
  /\ pass' = "absent"
  /\ accidents' = accidents \cup TooEarly
                     \cup (IF child = "alive" THEN {"listStale"} ELSE {})
  /\ UNCHANGED <<durable, row, child, live, heard, daemon, creator, monitor, stopper,
                 reads, kill, bounds, under>>

(* No record: a live one's route is closed and its handle dropped.  The    *)
(* session may be younger than the list, or still be being created.        *)
JudgeAbsent ==
  /\ pass = "judge" /\ list = "gone"
  /\ drain' = IF live /\ drain = "on" THEN "closed" ELSE drain
  /\ live' = FALSE /\ pass' = "absent"
  /\ accidents' = accidents \cup TooEarly
                     \cup (IF child = "alive" THEN {"listStale"} ELSE {})
  /\ UNCHANGED <<durable, row, child, heard, daemon, creator, monitor, stopper,
                 reads, kill, bounds, under>>

Indeterminate ==
  /\ pass \in {"absent", "unsure"}
  /\ Write("indeterminate", "pass") /\ PassEnds
  /\ UNCHANGED <<durable, child, live, drain, heard, up, conn, due, creator, monitor,
                 stopper, reads, kill, bounds, accidents>>
-----------------------------------------------------------------------------
(* The holder, the connection and the daemon's process.                    *)

Exit ==
  /\ child = "alive" /\ creator # "row"
  /\ child' = "dead"
  /\ UNCHANGED <<durable, row, live, drain, heard, daemon, ops, reads, kill, bounds,
                 accidents, under>>

ToldOfExit ==
  /\ child = "dead" /\ drain = "on" /\ heard /\ (durable => conn)
  /\ drain' = "told"
  /\ UNCHANGED <<durable, row, child, live, heard, daemon, ops, reads, kill, bounds,
                 accidents, under>>

(* Killed, if its kill is delivered.                                       *)
Killed ==
  /\ kill /\ (durable => conn)
  /\ kill' = FALSE
  /\ child' = IF child = "alive" THEN "dead" ELSE child
  /\ UNCHANGED <<durable, row, live, drain, heard, daemon, ops, reads, bounds,
                 accidents, under>>

(* The holder dies, or evicts the tombstone.                               *)
Forgotten ==
  /\ durable /\ \/ child = "dead"
                \/ child = "alive" /\ ~conn
  /\ child' = "gone"
  /\ UNCHANGED <<durable, row, live, drain, heard, daemon, ops, reads, kill, bounds,
                 accidents, under>>

(* A frame being written goes with the connection: a queued kill may be it.*)
Drop ==
  /\ durable /\ up /\ conn /\ drops < MaxDrops
  /\ conn' = FALSE /\ heard' = FALSE /\ drops' = drops + 1
  /\ \/ UNCHANGED <<kill, child, creator, accidents>>
     \/ kill /\ kill' = FALSE /\ UNCHANGED <<child, creator>> /\ Accident("killLost")
  /\ UNCHANGED <<durable, row, live, drain, up, ready, due, monitor, stopper, pass, reads, crashes,
                 stops, under>>

Reconnect ==
  /\ durable /\ up /\ ~conn
  /\ conn' = TRUE /\ due' = TRUE
  /\ heard' = (drain = "on" /\ child = "alive")
  /\ UNCHANGED <<durable, row, child, live, drain, up, ready, ops, reads, kill,
                 bounds, accidents, under>>

Process(c) ==
  /\ up' = FALSE /\ ready' = FALSE /\ conn' = FALSE /\ due' = FALSE
  /\ live' = FALSE /\ drain' = "none" /\ heard' = FALSE /\ kill' = FALSE
  /\ creator' = "idle" /\ monitor' = "none" /\ stopper' = "idle" /\ pass' = "idle"
  /\ child' = c
  /\ crashes' = crashes + 1
  /\ UNCHANGED <<durable, reads, drops, stops>>

(* A crash ends the children of an in-process backend with it; one that    *)
(* cuts a stop short leaves a row no later pass will look at.              *)
AfterDaemon == IF durable \/ child # "alive" THEN child ELSE "dead"
Unfinished == IF row \in Live THEN UNCHANGED accidents ELSE Accident("crashed")

Crash ==
  /\ up /\ crashes < MaxCrashes
  /\ Process(AfterDaemon) /\ UNCHANGED row
  /\ Unfinished /\ UNCHANGED under

(* shutdown_all_live: a holder keeps its children, else they are stopped.  *)
Shutdown ==
  /\ up /\ crashes < MaxCrashes
  /\ Process(AfterDaemon)
  /\ IF live /\ ~durable THEN Write("stopped", "user") ELSE UNCHANGED <<row, under>>
  /\ Unfinished

Restart ==
  /\ ~up
  /\ up' = TRUE /\ conn' = TRUE /\ pass' = "start"
  /\ UNCHANGED <<durable, row, child, live, drain, heard, ready, due, creator,
                 monitor, stopper, reads, kill, bounds, accidents, under>>

Next ==
  \/ Insert \/ Spawned \/ SpawnFailed \/ GoLive \/ MarkRunning
  \/ ExitRead \/ ExitWritten \/ StreamClosed
  \/ StopRead \/ StopLive \/ StopKill \/ StopNotLive \/ Archive
  \/ OrphansFail \/ HolderList \/ ListFailed \/ PassReadsIds \/ JudgeKnown
  \/ Adopt \/ Adopted \/ AdoptFailed \/ JudgeDead \/ JudgeAbsent \/ Indeterminate
  \/ Exit \/ ToldOfExit \/ Killed \/ Forgotten \/ Drop \/ Reconnect
  \/ Crash \/ Shutdown \/ Restart

Spec == Init /\ [][Next]_vars
-----------------------------------------------------------------------------
(* A row that says how the session ended is changed only at the user's     *)
(* request, or by an operation that was under way when it was written:     *)
(* neither the monitor nor a later pass overwrites a stop or an archive,   *)
(* or brings an ended session back.                                        *)
EndStays ==
  [][under = {} /\ row \in Ended /\ row' # row
       => row' \in {"stopped", "archived"}]_vars

(* A session is said to have exited only if its child has: a connection    *)
(* lost or a record missing is never taken for an exit.                    *)
EndedIsTrue == row \in {"ended"} => child # "alive"

(* Once create and the passes are through, a row that is live has a handle *)
(* in the live map, so that it can be viewed, stopped and finalized;       *)
(* unless a pass judged it while it was made, or by a list older than it.  *)
NobodyAlone ==
  up /\ ready /\ creator = "idle" /\ pass = "idle" /\ row \in Live
    => live \/ accidents \cap {"listStale", "inCreation"} # {}

(* A child runs on behind a row that says it is over only while its stop   *)
(* is being carried out, or after one of the named accidents.              *)
NoOrphan ==
  child = "alive" /\ row \notin Live /\ up /\ pass # "start"
    => \/ stopper = "kill" \/ kill
       \/ accidents # {}
=============================================================================
