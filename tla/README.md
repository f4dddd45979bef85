# Verification of the agent workspace

The repository runs interactive agents in terminal sessions that outlive the
daemon serving them. A small process, the **asmux holder**, owns the children
and their pseudo-terminals, records their output in rings and streams it over a
Unix socket. The **daemon** drives the holder (or an in-process backend), keeps
the sessions' database, watches output for signs that an agent wants attention,
manages the git worktrees sessions run in, and serves web clients over HTTP and
WebSockets, directly or through a **relay**.

This directory holds TLA+ modules translated from that code, TLC runs that
check them on small instances, and theorems proved with TLAPS for all
instances. `PROJECT.json` maps each definition to the lines it models and lists
the runs, the hazards they are aimed at, the seeded mutations that show a
property can fail, and the theorems.

## 1. Inventory

| Component | State | Operations | What makes it hard |
|---|---|---|---|
| Holder session output: `asmux/ring.rs`, `asmux/session.rs` | byte ring with global cursors, `data_signal`, `dropped_events`, status, sole attacher | push with eviction, failed reserve, exit | the reader is a thread, streamers are tasks; one `Notify` carries every wake-up; the ring wraps under a streamer |
| Holder session input: `asmux/session.rs` | bounded queue with a byte counter beside it, writer thread | send input, write, release at exit | racing admissions, a child that does not read |
| Holder server: `asmux/server.rs` | per connection: streams map, two channels, writer task, heartbeat | attach with takeover, detach, stream, teardown | requests of different connections interleave with streamers; cancellation |
| Holder registry: `asmux/registry.rs` | sessions in LRU order, memory cap | admit, create, get, purge, evict | idempotent create, accounting while children die |
| Holder socket: `asmux/socket.rs`, `main.rs` | socket file and inode, watchdog | probe, bind, displace, rebind, clean up | processes racing for one path |
| Wire: `asmux/frame.rs`, `asmux-wire` | one frame buffer | encode, decode | two versions of one schema; cut streams |
| Daemon asmux client: `backend/asmux_client.rs` | connection, command queue, pending calls, routes with cursors | rpc, route, re-attach all, reconnect | reconnect against calls and cursors; timeouts |
| Sidecar backend: `backend/sidecar.rs` | ring, broadcast, drain task | create, adopt, drain, resync, end | resync; the exit against the tail of output |
| In-process backend, ring: `backend/native.rs`, `backend/mod.rs` | emulator, history ring, broadcast | push, attach with history | repaint against concurrent output |
| Session manager: `session_manager/mod.rs` | live map, status rows | create, stop, archive, reconcile, start-up, shutdown | asynchronous exits against stop, create and reconcile |
| Monitor, badge: `session_manager/monitor.rs` | the agent's state beside the row's | classify, view, answer, exit | a debounce; screens that lag behind the answer |
| Workspaces and forks: `session_manager/workspaces.rs`, `fork.rs`, `workspace.rs` | worktrees, branches, instances | make, share, borrow, roll back, detach, clean up, archive, sweep | shared ownership; one step of several failing |
| Source control: `source_control.rs`, `conflict_resolve.rs`, `api/scm.rs` | branches, worktrees, paused operations | merge, rebase, resolve by an agent | nothing locks a branch |
| Event store: `db.rs` | rows, event log, backend cursor | append, update | ordering of writers, restart |
| Terminal WebSocket: `api/ws.rs` | the attachment of each session | attach, supersede, stream, release | lagging receivers; clients that sleep |
| Agent plugins: `plugins/*` | none shared | read screens and files | what is a prompt and what is prose |
| Relay: `asm-relay` | registry of nodes, pending ids, control links | register, advertise, route, open, pair | links that break on either side first |
| REST API, configuration, launcher, client, scripts | none shared | parse and call, start-up, user interface | - |

Interactions: the daemon's client holds one connection to the holder
(requests, responses by rpc id, notifications); the sidecar backend keeps a
copy of each session's output and serves it over broadcast channels to the
monitor and to WebSockets; exits travel holder, client, sidecar, monitor,
manager, database. A restarted daemon adopts the sessions the holder still has.
A relay carries a client's requests to the daemon of another machine.

What makes each part correct, in one line each:

* *holder streaming*: each attach delivers a gap-free run of the output; the
  exit follows the output; no wake-up is lost;
* *holder input*: the counter is exact, a connection never stalls on a child;
* *registry*: no live session is evicted, the cap is respected, a repeated
  create does not spawn a second child;
* *socket*: one holder serves the path, and knows whether it does;
* *wire*: what one process writes is what the other reads, across versions;
* *client, sidecar*: the daemon's copy of the output is a gap-free copy, and an
  exit is seen once, after the output;
* *manager, monitor*: an ended session stays ended; a live child is not given up;
* *badge*: it is the monitor's verdict and is released once answered;
* *workspaces, source control*: work is not lost, a worktree in use is not
  removed, what is reported as done is done;
* *WebSocket*: one active client, and its view has no hole;
* *relay*: a node's entry follows its newest link, requests end, and what a gateway
  advertises arrives.

## 2. Modules

| Module | Role |
|---|---|
| `HolderStream` | a session's output in the holder: ring, reader thread, attach with takeover, streamers, the channels and writer of each connection |
| `HolderInput` | a session's bounded input queue between connection handlers and the writer thread |
| `HolderRegistry` | the holder's table of sessions: admission under the memory cap, eviction, idempotent create, purge |
| `HolderSocket` | who owns the socket path |
| `Wire`, `Framing` | message tables of both peers, catalog, metadata patch; frames of a byte stream |
| `SidecarStream` | the daemon's side of a session: supervisor, command queue, routes, drain loop, reconcile pass, event log, restart |
| `DurableFeed` | abstract specification: what the daemon promises of a session's output |
| `SessionLifecycle` | the manager's record of a session against its child |
| `TerminalFanout`, `Ansi` | output on its way to browsers; the byte filters of what is replayed |
| `Attention`, `ScreenReaders` | the badge and who writes it; how screens are read |
| `Worktrees` | the worktrees and branches sessions run in |
| `SourceControl` | merge and rebase requests and the agent that resolves their conflicts |
| `Relay` | control links, routing, data streams |
| `MC*` | instances for TLC: small sets, symmetry. `MCHolder` takes `HolderRegistry` and `HolderSocket` together |
| `Totals` | the sum of a function's values, as a count that can be reasoned about |
| `HolderProofs` | theorems about `HolderRegistry`, `HolderInput`, `HolderSocket` and `Wire` |
| `DaemonOutputProofs` | theorems about `TerminalFanout` and `SidecarStream` |
| other `*Proofs` | theorems about the module of that name |

`SidecarStream` composes what `HolderStream` shows of the holder to one client
(a streamer, two prioritised channels, gaps, exits, eviction) with the daemon,
and implements `DurableFeed` while the ring covers what the daemon has not
read (`FeedSpec`, with the mapping `written <- head`, `copy <- shown`,
`durable <- stored`).

Operators marked as mutations ("Mutation of X", `\* mutant`) are plausible slips
in X's code. No specification uses them; each serves to show that some property
fails when X is replaced by it.

Variables marked *history* are not in the code. They name what happened, so that
a property can except exactly the cases in which the code does not keep it; each
such case is described in section 5.

### HolderStream

A byte is its cursor, so the ring is two numbers (`head`, `len`) and a frame is
an interval. A stream is one granted attach, with its cancel token and its
streamer task. Each place where a task can block or lets go of a lock is a
program position: a request handler's `handler[c]` (attach: evict, register,
respond; detach; reject), a streamer's `pc[s]` (look at the drop counter, read,
send, check the exit, wait, leave), the reader thread's `reader`. `data_signal`
is tokio's `Notify`: a permit, and a queue of waiters. `last`, `intact` and
`told` record what a client has received. Merged steps: adjacent short lock
sections with no other access in between (`StreamLeave`, `DetachApply`), and the
reads of head and tail at the beginning of an attach with the installation of
the attacher.

### HolderRegistry, HolderSocket, HolderInput

`create` holds the registry's mutex throughout, so it is a sequence of steps
(`stage`) during which no other request runs; but children exit between its
steps. A spawn may fail before or after the child was started (`ThreadsFail`).

`HolderSocket` names the file at the path by the process that bound it. Probe,
unlink, bind and stat are steps of their own, for a start and for the
watchdog's rebind; a dead process' listener may live on in a child forked and
not yet exec'd (`ghosts`). The registry and the socket share no state:
`MCHolder` checks both, one or the other in each behaviour.

In `HolderInput`, handlers read the counter, compare, raise it and send in
separate steps (`Admit`, `ReserveRoom`, `Send`, `Undo`), while the writer thread
takes and writes. `Admit` takes the liveness check and the counter's read
together, `Write` the PTY write and the counter's release: in between, each
looks only at state that nobody else reads.

### Wire, Framing, Ansi, ScreenReaders

Pure algorithms. `Wire` gives, for every table of the generated code, what
`create` writes and what the getters read, each with the slots that code hard
codes; `Serialize` and `Access` are FlatBuffers' vtable. `Framing` reads a byte
stream with a frame limit of 12 bytes instead of 16 MiB. `Ansi` works on
symbols (ESC, `[`, a digit, `n`, BEL, text ...) instead of bytes: what the
filters tell apart. `ScreenReaders` reads screens as sequences of line kinds.
Their statements are ASSUMEs over bounded inputs, which TLC evaluates in the
runs whose modules extend them: `InputQueue` (`Wire`, `Framing`), `Fanout`
(`Ansi`) and `Badge` (`ScreenReaders`). `Ansi` shows that a repaint asks the
terminal nothing that was not asked live, that the ring keeps the newest bytes
within its bound, which bells are heard, and where a tail is cut;
`ScreenReaders` that a prompt is read as one, prose is not, a menu has a button
for each option, and an error after the agent went idle is the verdict.

### SidecarStream

The child writes numbered chunks and a frame carries one chunk. The holder's
part is what its streamer shows to one client: `HandleAttach`, `StreamOutput`,
`StreamEvict`, `StreamEnd`, with its two channels `ctrl` and `data`. A frame
counts as written to the socket when the client reads it, since a socket adds
only delay. The daemon's part:

* `sup`: the supervisor, with the rpcs of `reattach_all`; `cmds`: the command
  queue, which survives the connection; `call`, `answer`: the rpc the session's
  task waits for, which may be queued, sent, lost with its connection or
  answered; a timeout leaves the command in the queue, its reply is nobody's;
* `cursor`, `routed`, `events`: the session's route;
* `phase`: the session's task, from `create`'s first attach (or `adopt`'s) to
  the drain loop with its resync, to the end: seen (`done`), refused an attach,
  an attach or a start-up list without an answer; a task that another client's
  attach ended (`cut`) has recorded no end;
* `shown`: what the history ring and the viewers got (0 is a gap marker);
  `unsaved`, `saved`, `stored`: the event writer's queue, the event log and
  `sessions.backend_cursor`;
* `pass`, `verdict`: the reconcile pass, its `list` rpc and what it does.

`TakeOver` is another client's attach to the session. `Restart` kills the daemon and starts the next one: connection, routes, queued
events and memory are gone; the event log stays. `Drop` loses a connection with
all frames in flight, both when the reader sees it close (pending rpcs fail) and
when the reader is aborted (they run into their timeout). `Slow` says whether a
holder may take longer than the ten seconds an rpc waits; what it then answers
is nobody's (`Forget`), while the attach it carried out stays in effect.

### SessionLifecycle

One session. `row` is its status in the database, `child` the holder's record,
`live` and `drain` its handle, `list` and `seen` what an operation read and has
not acted on. `creator`, `monitor`, `stopper` and `pass` are the operations'
program positions: each database call and each call of the client is a step.
`Crash` loses the daemon with everything but row and child; with the in-process
backend the child dies too. `shutdown` and the start-up pass follow `main.rs`.

### TerminalFanout

`processed` and `pushed` are how many chunks the emulator and the ring with the
broadcast have taken: the in-process backend moves both under one lock, the
sidecar's drain loop one after the other. A connection's `rx` is the position of
its broadcast receiver, `shown` the last chunk its screen includes. `prev` and
`permit` are the `Notify` through which a successor reaches its predecessor.

### Attention

`screen` is what the agent's terminal shows, `queue` the chunks the monitor has
not read, `last` its state and `db` the row's. `reset`, `echo` and `submitted`
are the flags of `Interaction`. `View`, `Type` and the deck's steps are taken
apart where they touch the row, the flags and the terminal. `asked` and `moved`
are history: whether anything was asked since the user answered, and whether
the agent wrote since. `Adopt` is a restart of the daemon over the running
session: the new monitor has no verdict, the row keeps its badge, what was
answered is forgotten; `adopted` remembers it until the monitor's first chunk.
`unseen` says that the screen changed since a view last cleared the row.

### Worktrees, SourceControl

In both, a git command is a step. `Worktrees` tells sessions' own trees and
branches, a worktree the user made and a branch of a daemon that is gone. The
counting of sharers (`Ask`), the checks (`Pass`), the removal of the worktree and
the deletion of the branch (`Finish`) are separate steps, as are the rows read
by the sweep and what it does with them; a branch that a deletion or the sweep
found merged is `condemned` until `branch -D` comes (`Execute`). In between the
user and the agents edit, commit, merge and switch branches in any worktree.
`late`, `switched` and `takers` are history: branches committed to after
they were found merged, worktrees put on another branch, and who but the user's
request deleted the user's branch. `SourceControl` works on one
branch: `tree[d]` is a worktree with a possibly paused operation and what its
files hold; `op[o]` a request; the user and a session may do anything a person
would in the branch's own worktree in between. The agent runs there with its
guardrails off and may run any command: modelled are edits of the conflicted
files, a commit (or a rebase's `--continue`) and an abort, in any order and
number. Aborts and removals may fail; `ran` and `broke` record, as history, what
the agent ran and what of the daemon's own git commands failed.

### Relay

A link has the relay's end (`loop`), the agent's end (`open`) and frames in both
directions; either end may go first: `LoopEnds` at the relay, whether the agent
still holds its end or not, `Breaks` at the agent. `req[r]` is a client's request
from routing to answer, `stream[r]` the data stream the node dials for it, which
the relay pairs before the node has dialled its local target (`Splice`,
`DialFails`); forwarding ends with the target's answer (`Served`) or with the
stream (`ForwardFails`), and nothing times it out. A gateway answers for one
downstream, which may also have registered itself.

Fairness: timers, ready tasks and frames on an open link, and that an end whose
peer is gone learns it, from the close or when TCP gives up (`SeesClose`,
`HangsUp`) - the agent does not act on missing pongs. Nothing is assumed of
clients, of data streams or of local targets.

## 3. Runs

All runs stop at bounds named in the modules' CONSTANTS.

| Run | Shows | Bounds |
|---|---|---|
| `HolderTakeover` | single attacher | 2 connections, 2 attaches, on one connection or on two, 1 byte: every pair of grant, cleanup and teardown overlaps; states that differ only in histories that no guard and no property reads are one (`VIEW Unobserved`) |
| `HolderDelivery` | gap-free output, silence after a cancel but for one frame, flushed exit, no lost wake-up, the exit is reported | 1 connection, 1 attach, 2 bytes through a ring of 1, a failed push, one note on the control channel |
| `HolderAdmission` | exact accounting, live children reachable, one child per id; one holder per path, which is not fooled about it | 3 ids, 3 children, rings of two sizes, cap 3, 4 accesses; 3 processes, 1 crash, exit or removal |
| `InputQueue` | exact counter, no stall, the queue drains at exit | 2 connections, 3 inputs of two sizes, a cap of 2 |
| `SidecarSteady` | exact cold history, refinement of `DurableFeed`; output shown, exit found | 2 chunks, a ring of 2, 2 lost connections, 1 restart while the session runs |
| `SidecarAnytime` | no end, absence or refusal acted on is of a live child, every rpc ends | 2 chunks, a ring of 1, 1 lost connection, 1 takeover and 1 restart anywhere, failing batches, a holder that answers late |
| `Lifecycle` | a recorded end is true, ended stays ended, no child lives without a live row or a record of why | 1 crash, 1 lost connection, 2 stops, both backends |
| `Fanout` | no gap in any view, `in use` is right, handlers end | 2 connections, 2 chunks, a broadcast that retains 1, both backends |
| `Badge` | the badge is the verdict, an answered block is released, a prompt nobody viewed is on the badge | 2 prompts, 3 chunks, 3 touches or restarts, a receiver that retains 1, three kinds of plugin |
| `Homes` | the user's worktree and work are kept, a worktree in use stays, what nobody uses goes | 2 sessions, 2 moves: edits, switches, detachments, sweeps, deletions |
| `BranchOps` | what is reported as done is done, every request cleans up, the user's work survives, each but for the failures it names | 2 requests, 2 sources, 2 edits, 2 rebase steps; any number of agent commands |
| `Relaying` | entries follow their newest loop, requests end unless a paired stream stays silent, advertisements arrive | 2 nodes, 2 links, 1 request, 2 changes of the probe |

Why these bounds are of interest: every hazard in the list needs at most two
overlapping actors of a kind (attaches, connections, sharers, requests, links),
one wrap of the ring or one lag, and one crash or lost connection plus the one
that replaces it; the runs allow that many. A ring or a broadcast of one chunk
overflows at every step; a channel of one frame is full at every step; a cap of
2 is reached by any two inputs; three children contend for a cap that holds
less than two of them. The safety properties do not rest on these bounds: section
4 has them for all values, and with them cases too deep for a run, such as the
three dead holders that it takes to fool a start of a fourth (`NotFooled`).

`Exposed` names the phases of a session's task in which a connection may drop
or the child exit. `SidecarSteady` leaves out creation, adoption and resync
(`Settled`), and rings that wrap, because there the code does not keep these
promises: see section 5. `SidecarAnytime` leaves nothing out, and its holder may
be slow; in `SidecarSteady` an rpc runs into its timeout only for want of a
connection.

Symmetry is used where only invariants and action properties are checked.

Systems here may stop legitimately: clients have nothing more to ask, the child
is silent or dead, and the bounds are used up; `CHECK_DEADLOCK FALSE` says so,
and the liveness properties say what must have happened by then.

Fairness is weak and only for what runs by itself: threads, spawned tasks,
request handlers that have begun, a writer towards a client that reads, a
reconnect that is retried with back-off for ever, timeouts, the event writer, a
read on a dead transport, the agent's advertisement of a changed probe. Nothing
makes a child write, read its input or exit, a client ask or leave, a connection
or a link drop, an agent dial again, or the daemon restart. `HolderInput` lets
even a write to the PTY block for ever while the child is alive. In
`HolderStream` a connected client keeps reading; a client that stops without
closing is treated in section 5. `TerminalFanout` has such clients: TCP gives up
on them in the end, which is fairness of the transport.

## 4. Proofs

Every safety property and action property the runs check, and the refinement of
`DurableFeed`, is also proved, for every value of the constants under the
assumptions its module states (capacities are positive, sets of processes are
finite where something counts them, the "no ..." values are not members of
their sets). `ColdExact`, `ImplementsFeed` and `MessagesSurvive` need more than
that; their hypotheses are named below.

An invariant is proved from an inductive strengthening: it holds initially, each
action keeps it - one lemma for each action or group of actions - and temporal
reasoning does the rest. Each module with a component's theorems first proves
its type invariant, from which the other proofs take what they need to know of
the data.

### The holder

`HolderStreamProofs`, for every number of connections and attaches and every
capacity:

* `TypeCorrect`: the types, with `len <= RingCap` and `len <= head`.
* `LocatedCorrect`: waiters are parked streams and occur once, a grant in
  progress names a stream of its own connection, a data channel carries its own
  connection's frames.
* `DeliveryIntact`: `OutputIntact`. It is not inductive: what a client received
  says nothing of what is under way. The strengthening `Delivery` chains, for
  each stream, what the client has received, the stream's frames in the data
  channel and the chunk in the streamer's hand into one run of bytes that ends
  at the streamer's cursor. Appending to and taking from such a chain are the
  lemmas `ChainAppend` and `ChainTail`.
* `CancelSilences`: `SilentAfterCancel`, that a cancelled stream queues at most
  one more frame, from `Silenced`: that frame is the one whose send was being
  polled when the cancel came, and the look at the cancel ends the stream before
  it offers another.
* `ExitFlushed`: `ExitedAfterFlush`, from `Announced`: once an exit has been
  announced the child stays dead, the head stays put and the stream is over.
* `AttacherOwns`: `AttacherOwnsStream`, from `Ownership`: a grant in progress is
  the attacher it installed or has been displaced, and so is every stream that
  runs and was not cancelled, unless it is in `wiped`. A client may attach again
  on a connection that already streams; `wiped` records the streams whose
  installation the clean-up of a superseded stream of the same connection took
  away (section 5, `server.rs:856`), and nothing else enters it.

`HolderProofs`, for every set of ids, children, launches, ring sizes,
connections, holders and input sizes, and every cap:

* `RegistryTypes` from `Sound`, which adds to the types that a child without a
  name is unborn and what the create in progress may refer to.
* `LiveStaysReachable` from `Reach`, `SingleChild` from `Reach` and `Strays`. An
  id may have a second live child only after a create of it was refused with the
  child running (`refused`), which `Strays` says of every running stray. By
  `Reach` every other live child is registered under its name, and what
  admission collected as victims is dead, since a dead child does not come back
  while the mutex is held.
* `EvictionOrderTotal` from `Recency`: distinct access ticks, all at most the
  clock.
* `AccountsBalance`: `Accounted`, and `CapHolds` its bound. The registry's sum
  over its sessions is stated in `Totals` as a count of units, `<<x, n>>` for
  the n-th unit of x; adding or removing one summand is then a fact about
  cardinalities (`TotalAdd`), where a sum by recursion would need induction.
  `Books` says that the count is the rings kept plus the reservation.
* `QueueTypes`, `QueueBalances`: the input counter is exact
  (`QueueCounted`), from `Counted`, which adds that what it counts is finite.
  That the unsigned counter never goes below zero is part of it.
* `SocketTypes`, `OneListens`, `NobodyFooled`, `PathComesHome`: `Alone`,
  `NotFooled` and `AtHome`, for any number of holders, crashes, exits and
  removals, from `SockInv`: who listens is alive (`Listening`); without a race a
  holder remembers its own inode (`OwnInode`); for each probe that a start found
  answered, and not by a live holder, there is another dead one whose forked
  child kept its listener (`Answered`) - dead ones do not answer twice, so the
  three confirmations of `socket.rs` need three; until something happens that
  may part a holder from its path, the one that has bound has the path, and who
  is about to bind meets nobody alive (`Sole`).
* `MessagesSurvive`, `AppendOnly`: if the tables of writer and reader agree and a
  table's slots are distinct, every message is read as it was written, and a
  field added at the end disturbs no older peer in either direction. That the
  tables do agree is evaluated by TLC (`TablesAgree`, in `InputQueue`).

### Output in the daemon

`DaemonOutputProofs`, first for `TerminalFanout`, with any number of connections
and chunks and every capacity: `InUseAlways` and `SeamlessAlways`, from `FanInv`,
which adds that the ring never holds more than the emulator has taken - and
exactly that much in the in-process backend, so that a repaint and a
subscription taken together agree - and that a connection never opened
superseded nobody. `FanTypes` adds the bounds of receivers and views.

Then for `SidecarStream`:

* `StreamTypes` and `OnlyDeadEnd` (`EndedOnlyIfDead`), without any hypothesis:
  batches may fail, the holder be slow, other clients take the stream over,
  connections and daemons be lost in any phase. From `StreamInv`: each place that
  speaks of an end - the exit in the client's events, a notice, a reply of `list`
  or of an attach, the verdict of a pass, a route removed - speaks of a child that
  is not alive, and children do not come back. It does not say that a session with
  a live child is never lost: an attach or a start-up list without an answer, and
  a takeover, do that (section 5).
* `ColdExact` (`ColdStitch`) and `ImplementsFeed` (`FeedSpec`: every step maps to
  a step of `DurableFeed` or a stutter), from `FlowInv`. That the copy is a
  gap-free run of the output says nothing of what is under way, so `FlowInv`
  follows the output back to its source: the event log and its queue run on from
  each other (`Cold`) up to the copy (`Copied`); the copy, the events waiting for
  the drain task, the frames in the data channel and the streamer's position
  form one run through the route's cursor (`Chained`); at most one attach is
  under way, in the command queue or on the connection (`Once`); it asks for what
  follows the cursor, and nothing else is in flight then (`Exact`). The step that
  shows a chunk is then `DurableFeed`'s next one, and the step that stores one
  stores what was shown.

  Two hypotheses. `Steady`: no batch of the event writer fails, and no connection
  drops in creation, in the start-up pass or in adoption. `Covered`, as
  `Spec /\ []Covered => ...`: the ring still has what the next attach will ask
  for. Neither can be dropped; section 5 has what happens without them
  (`db.rs:974`, `sidecar.rs:76`, `sidecar.rs:418`, `asmux_client.rs:458`). The
  rest is as general as the module: connections lost at any time while a session
  runs, with whatever is in flight, restarts, reconcile passes, and rpcs that
  time out under a slow holder, and streams taken over. `AlwaysCovered` shows that `Covered` holds
  whenever the ring is not smaller than the output, as in `SidecarSteady`;
  checking `FlowInv` itself with TLC, on rings that wrap and a slow holder,
  preceded the proof.

### The daemon's other parts

`SessionLifecycleProofs`, for any number of crashes, lost connections and stops:
`LifecycleTypes`; `EndedMeansExited` (`EndedIsTrue`) from `ExitKnown`: whoever
believes that the child exited is right; `OrphansExplained` (`NoOrphan`) from
`Noted`: whoever finishes the row of a child that lives, or is about to, is
stopping it or has left a note in the history; `LiveRowsAttended` (`NobodyAlone`)
from `Attended`: a handle is dropped only by the monitor that finished the row
or by a pass that is going to; `EndingsStay` (`EndStays`, an action property)
from `Settled`: nobody who began before a row ended alone is still at work.

`AttentionProofs`, for all prompts and bounds: `AttentionTypes`;
`BadgeAlwaysTrue`, with the fact that a plain shell's monitor has no verdict;
and that a monitor put over a running session has none before its first chunk;
`PromptsReachTheBadge` (`PromptOnBadge`) from `Told`: a prompt nobody has viewed
is still queued, and then the queue's last chunk shows it, or is the verdict of
both the monitor and the row;
`AnswerReleases` (`Released`) from `Showing` and `Answered`: since the last
answer, if the agent has asked nothing new, what is queued for the monitor is
the old menu repeated and then no menu, so the answer's signal stands for as
long as the old menu may still be read, and is spent afterwards.

`WorktreesProofs`, for any finite set of sessions and any number of moves:
`WorktreeTypes`, and `UserIsKept`, `NothingLost`, `HomesKept`, `AllReclaimed`
(`UserKept`, `NoLoss`, `HomeKept`, `Reclaimed`) from one invariant: a worktree
and a branch are their maker's until it starts (`Made`), a branch is checked
out once (`Once`), the user's tree has no owner (`UserTree`), an unswitched
worktree is on the branch its instances record (`OneBranch`), so that a claim to
the user's branch comes only with a switch (`Claims`, `Swept`, `Taken`), what a
request found merged is merged still or was committed to (`StillMerged`), who joins a
worktree that is being left is recorded (`JoinedLate`) and otherwise inherits
its ownership (`Owned`), who left it to another sharer has one (`Waiting`),
and a worktree of the daemon's has somebody who will remove it (`Claimed`,
`Emptied`). The exceptions are those the properties name (section 5).

`SourceControlProofs`, for any finite set of requests and sources, any number
of edits, of rounds with the agent and of its commands: `RequestTypes`;
`NothingLeft` (`NothingLeftBehind`) from `Traces`: an operation is paused only in
its request's directory, while that is at work or where its abort failed;
`DoneIsDone` (`OkMeansDone`) from `Undisturbed`, which says stage by stage what a
request that no other disturbed finds in its directory: its own operation, or
none where the agent concluded or aborted it (`Over`); `UserWorkIsKept`
(`UserWorkKept`, an action property).

`RelayProofs`, for every number of nodes, links and requests:

* `RelayTypes`.
* `EntryAlwaysFollowsLoop` from `OfItsNode`: the generation in an entry is a
  link of that node whose loop has registered, and a link in use has a node.
* `PendingAlwaysWaiting` from `Flight`, which says that an Open under way and a
  stream being dialled are of a request that has been sent, and `Minted`: an id
  is in the map before its Open is sent.

### Only model-checked

Everything that needs fairness: `OutputReachesClient`, `ExitIsReported`,
`NeverStalls`, `ExitDrains`, `OutputShown`, `ExitSeen`, `CallEnds`,
`HandlersEnd` and `Settles` - liveness is out of the prover's reach. And what
folds and recursive functions compute from their input, which would need
induction over data: the readers of `Ansi`, `ScreenReaders` and `Framing`, whose
statements TLC evaluates over bounded inputs. `TablesAgree` is a finite fact
about the generated code, which TLC evaluates in full.

## 5. Where the code keeps less than it says

Met while modelling. The definitions contain the code that causes these cases;
the properties except them by name (history variables, `Settled`, `Alone`), and
dropping the exception from a property or a configuration
shows each one.

### Holder streaming and input

* `server.rs:835`, `:893`: `SessionExited` goes out on the preferred control
  channel and may be written before the last `SessionOutput`, against
  `session.rs:570`; the daemon's drain loop ends at the exit.
* `server.rs:856`: a stream superseded by an attach on its own connection clears
  the attacher its successor installed, and a second connection may then stream
  as well, against `docs/asmux-protocol.md:307`, `:316`. `AttacherOwnsStream`
  excepts the streams this happened to (`wiped`).
* `server.rs:813`: the select polls the cancel and then the send. A takeover or
  detach on another thread may come between the two polls, and one more frame is
  then queued after it; `SilentAfterCancel` allows that frame and no second.
* `server.rs:683` reads `is_alive` after the attacher was installed. A child
  that dies in between is never reported to that attacher, against
  `docs/asmux-protocol.md:329`.
* `server.rs:675`: a takeover waits for room on the control channel of the
  connection it evicts. If that client stopped reading, heartbeats fill the
  channel and the attach waits until the old socket dies, against
  `docs/asmux-protocol.md:321`.
* `server.rs:779`: drops of output are compared at the top of the streamer's
  loop only; one that happens between that look and the child's exit is never
  reported, against `server.rs:771`.
* `server.rs:743`: an input whose attachment was checked is queued after
  another connection took over, against `docs/asmux-protocol.md:323`.

### Holder registry, socket, framing

* `session.rs:268`: a writer thread that does not start makes `create` fail
  with the child running and unregistered (`"stray"`); a retry spawns a second
  one, against `docs/asmux-protocol.md:390`. `OneChildPerId` excepts exactly the
  ids this happened to (`refused`), and the stray's ring is outside the cap.
* `registry.rs:181`: an evicted or purged tombstone that is being replayed
  keeps its ring, which the cap no longer counts; nothing stops the replay of a
  purged session (`docs/asmux-protocol.md:19`, `:350`).
* `socket.rs`: `bound_ino` is stat'ed by path after the bind, so a racing
  binder's inode may be taken for one's own: the holder is unreachable and does
  not know. Probe, unlink and bind are not atomic. The clean-up at exit
  (`main.rs:76`) removes whatever is at the path, after a takeover the
  successor's socket, which a third start can then displace.
* `frame.rs:86`: a stream cut inside the four bytes of the length counts as a
  clean end. An unknown ordinal is answered with rpc id 0, so that its caller
  waits for its timeout; an unknown enum byte is a read error.

### Daemon client, sidecar, event store

* `sidecar.rs:76`: an attach queued while the connection is lost runs after the
  supervisor's re-attach and replays what was delivered, against the comments at
  `sidecar.rs:131` and `:405`. So does the start-up pass's attach, if the
  connection drops after the pass read its list and before it adopts.
* `sidecar.rs:84`, `mod.rs:661`: an attach that is not answered in time, or a
  start-up list that fails, gives up a session whose child lives: the row says
  failed or indeterminate, the child runs on in the holder.
* `sidecar.rs:426`: after another client's attach the drain task ends without a
  status. The session stays in the manager's table with nobody reading its
  output; an exit a pass injects is not received, so that `ExitSeen` and
  `OutputShown` except it. If the daemon's own next attach (a reconnect, a
  resync) had the stream back before the notice was read, the task ends all the
  same. `SidecarSteady` has no takeover, `SidecarAnytime` and the theorems have.
* `sidecar.rs:71`: `create` drops the record's `alive` flag; a child dead before
  its first attach leaves a session that runs for ever, against
  `docs/asmux-protocol.md:395`.
* `sidecar.rs:418`: after a resync that met a gap the resume point is set back
  to the tail named two replies earlier; a connection lost then shows output
  twice, against `asmux_client.rs:220`.
* `asmux_client.rs:458`: a gap met by a re-attach leaves no marker, against
  `docs/architecture.md:334`. `asmux_client.rs:445`: routes of ended sessions
  are never removed, so every reconnect re-attaches them.
* `mod.rs:830`: the pass after a reconnect injects the exit of a tombstone
  whose replay is still arriving, and the drain loop ends there, against
  `docs/asmux-protocol.md:336`.
* `db.rs:974`: a batch that fails is dropped and the next one moves the stored
  cursor past the hole, against `sidecar.rs:117`.

### Session lifecycle

* A session created while the start-up pass of an in-process daemon is under
  way is failed by it although it runs; a `list` that fails at start-up marks
  every session indeterminate.
* A stop of a session that has no handle records `stopped` without a kill.
  `create` writes `running` without looking (`mod.rs:430`), also over a stop.
* A pass that read its list before a create, an exit or an archive acts on it
  afterwards: a child that lives is recorded indeterminate, a finalized session
  is adopted again. An adoption or a create that fails for want of a connection
  gives up a live child.
* A crash between the `stopped` row and the kill, or a queued kill lost with its
  connection, leaves the child running under a terminal row. `on_exit` reads the
  row and writes it in separate steps and may overwrite a stop.

### Output to browsers

* `ws.rs`: a handler blocked in a send polls neither its idle timer nor its
  takeover (against `ws.rs:31`): it ends only when TCP gives up. While a client
  is attached the broadcast is never closed, so the end of a session does not
  end the socket.
* A sidecar session's attach in the alternate screen may repeat a chunk, and
  after a lag the retained chunks are delivered again over the repaint, against
  "never sees a gap or a duplicated byte range" in `backend/mod.rs`.
* `strip_terminal_queries` leaves `ESC ESC [ 6 n` and queries inside an aborted
  OSC, and drops a query-like run inside a DCS body whose start the ring lost.
  `scan_bell` misses an `ESC` and its `]` or `\` in different chunks, against
  `monitor.rs:26`.

### Badge and deck

* An answer that overtakes chunks the monitor has not read leaves the block in
  place; an armed reset that nothing consumed releases a later block that a bell
  raised. A view clears the row before it raises the flag.
* The deck checks the screen and then sends: a screen that changes in between is
  answered (`deck.rs:26`). Two prompts with the same text have one revision.
* The deck clears the row after the keys were sent (`mod.rs:968`), and a view
  clears it whatever it holds: a prompt drawn and recorded in between is cleared
  as seen, though nobody saw it. `PromptOnBadge` speaks of what was drawn later.
* A restarted daemon's monitor starts without a verdict over the row it finds
  (`monitor.rs:25`, `mod.rs:805`): an adopted session keeps its old badge, say
  "approval needed", until it writes again, however long that takes, since
  silence settles only a working session (`on_idle`). An answer the old monitor
  had not yet acted on is forgotten, and the old menu, repeated, blocks again.
* `ScreenReaders`: a transcript line that quotes `> 1. ...` counts as the
  selected option; a numbered list that continues the menu's numbers joins it;
  queued questions and one agent's trust list have no buttons.

### Worktrees and source control

* The clean-up of a session that shares a worktree the user made removes it,
  against the comment at `workspaces.rs:134`.
* Commits on a detached HEAD are lost by an unforced archive or clean-up. So is
  a commit made between an archive's check (`workspaces.rs:709`) and its
  `branch -D` (`:736`), by the user or by a session that joined after the count
  (`:687`): no lock and no second check is in the way. Deletion (`:408`) and
  the sweep (`mod.rs:1042`) have the same window. `NoLoss` excepts a branch
  committed to after it was found merged ("raced"), and nothing else there.
* A session that is given a branch found in a worktree of the daemon's, because
  an agent ran `git switch` there, inherits the claim to the branch that was made
  with the worktree, and its archive deletes the one it was given, the user's own
  if it is merged or the archive forced (`workspaces.rs:128`), against "Only what
  we created is ours to delete" (`:656`). The sweep likewise removes the user's own
  worktree, when clean, if it is on an `asm-session/*` branch of no known session.
  `UserKept` excepts switched worktrees.
* Two sharers archived at once both only release, and the worktree stays; one
  that joins before the owner's row is inserted owns nothing. A rollback removes
  a tree that was shared meanwhile, uncommitted work included, against the
  comment at `session_manager/mod.rs:453`.
* The orphan sweep removes the worktree of a live session that borrowed an
  `asm-session/*` branch it does not know, or one being created. After a removal
  that failed, or a branch that could not be deleted, archive does not recover.
* `source_control.rs:246`, `:258`: an agent that aborts the operation by itself
  leaves no `MERGE_HEAD` and no rebase, and the request reports success with the
  source not merged, against "`Ok` means a clean resolution is committed"
  (`source_control.rs:233`). What an agent commits by itself is checked for
  markers by nothing. `OkMeansDone` excepts both (`ran`).
* `source_control.rs:817`, `:1309`, `:1332`: a temporary worktree that is not
  removed is a warning, or ignored, and so is an abort that fails: the branch
  stays checked out there, or the operation paused (`broke`).
* `source_control.rs:233` also holds only of
  requests nobody interferes with; there is no lock on a branch. A session's
  rebase takes a rebase the user paused for its own and aborts it, which resets
  uncommitted edits as well.

### Relay

* The Hello of a link the agent left may be read after its newer one and then
  owns the entry. The agent does not act on missing pongs, although
  `OFFLINE_AFTER` says both sides do. A second node with the same id supersedes
  the first, where Hello's documentation says it is refused.
* A client that leaves while its request waits leaves its id in the map.
* Only the wait for the node's stream is bounded (`server.rs:436`). Once paired, a
  request waits for the local target's answer with no timeout (`server.rs:475`):
  a target that accepts and says nothing, or a node that vanishes without
  closing the stream, holds the request until its client leaves. `Settles` names
  it (`Hung`).
* A downstream's own registration, once made, hides a gateway's advertisement of
  it even while it is off line; among gateways, one that is off line may be
  picked.

## 6. Not modelled

* The terminal emulator (a library) and so what a repaint contains; resizing;
  `read_buffer`, `list` and metadata of the holder: reads, or one assignment.
* The other REST handlers: they parse a request and call one operation of the
  manager, which is where the state changes. Uploads and file browsing touch
  only files.
* Titles, usage, conversations, forks of a conversation and launch arguments of
  the agents: parsing of the agents' own files. Status, diff, log, stage and
  commit of source control: one git command each.
* Configuration, tokens, the launcher and the scripts: start-up of one process.
* The browser client: the daemon's side of its protocol is `TerminalFanout` and
  `Attention`.
* Several sessions at once in `SidecarStream` and `SessionLifecycle`: sessions
  share only the connection and the event writer's queue, which are there.
