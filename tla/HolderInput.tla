---------------------------- MODULE HolderInput ----------------------------
(***************************************************************************)
(* The way of a client's input to the child of a holder session: the       *)
(* connection handlers that check for attachment, the bounded queue whose  *)
(* size is a counter beside an unbounded channel, the writer thread that   *)
(* feeds the PTY with blocking writes, and the release of the child's      *)
(* handles when it exits.                                                  *)
(***************************************************************************)
EXTENDS Naturals, Sequences, Totals

CONSTANTS
  Conns,            \* connections; one may take the session over
  NoConn,           \* nobody is attached
  NoInput,          \* the writer thread holds nothing
  QueueCap,         \* INPUT_QUEUE_BYTES
  Sizes,            \* sizes of the inputs clients send
  MaxInputs         \* bound: inputs of one connection

Input == [from : Conns, size : Nat]

ASSUME InputAssumption ==
  /\ NoConn \notin Conns /\ NoInput \notin Input
  /\ QueueCap \in Nat
  /\ Sizes \subseteq Nat \ {0}
  /\ MaxInputs \in Nat

VARIABLES
  attached,         \* the attacher's connection
  alive,            \* Status
  open,             \* the session still holds input_tx
  queued,           \* input_queued
  channel,          \* inputs sent to the writer thread
  writing,          \* the input it is writing
  writer,           \* whether its loop still runs
  handler,          \* where a connection's handle_input stands
  input,            \* the input it handles
  sent              \* inputs handled so far (bounds the model)

statusVars == <<attached, alive, open>>
writerVars  == <<writing, writer>>
queueVars == <<statusVars, queued, channel, writerVars, handler, input, sent>>

Handlers == {"idle", "attached", "admitted", "reserved", "undo"}

HandlerTo(c, where) == handler' = [handler EXCEPT ![c] = where]

QueueInit ==
  /\ attached \in Conns
  /\ alive = TRUE /\ open = TRUE
  /\ queued = 0 /\ channel = <<>>
  /\ writing = NoInput /\ writer = "running"
  /\ handler = [c \in Conns |-> "idle"]
  /\ input = [c \in Conns |-> 0]
  /\ sent = [c \in Conns |-> 0]

-----------------------------------------------------------------------------
(* handle_input: an input of a connection that is not attached is refused. *)
Receive(c, size) ==
  /\ handler[c] = "idle"
  /\ sent[c] < MaxInputs
  /\ attached = c
  /\ sent' = [sent EXCEPT ![c] = @ + 1]
  /\ input' = [input EXCEPT ![c] = size]
  /\ HandlerTo(c, "attached")
  /\ UNCHANGED <<statusVars, queued, channel, writerVars>>

(* Mutation of Admit: wait for room instead of dropping.                   *)
AdmitWaits(c) ==
  /\ handler[c] = "attached"
  /\ alive => queued + input[c] <= QueueCap
  /\ HandlerTo(c, IF alive THEN "admitted" ELSE "idle")
  /\ UNCHANGED <<statusVars, queued, channel, writerVars, input, sent>>

(* send_input looks at the status and at the counter: SESSION_NOT_ALIVE,   *)
(* INPUT_OVERFLOW, or room.                                                *)
Admit(c) ==
  /\ handler[c] = "attached"
  /\ HandlerTo(c, IF alive /\ queued + input[c] <= QueueCap THEN "admitted"
                  ELSE "idle")
  /\ UNCHANGED <<statusVars, queued, channel, writerVars, input, sent>>

ReserveRoom(c) ==
  /\ handler[c] = "admitted"
  /\ queued' = queued + input[c]
  /\ HandlerTo(c, "reserved")
  /\ UNCHANGED <<statusVars, channel, writerVars, input, sent>>

(* Send, unless the handles were released: then the reservation is undone. *)
Send(c) ==
  /\ handler[c] = "reserved"
  /\ \/ /\ open
        /\ channel' = Append(channel, [from |-> c, size |-> input[c]])
        /\ HandlerTo(c, "idle")
     \/ /\ ~open
        /\ HandlerTo(c, "undo")
        /\ UNCHANGED channel
  /\ UNCHANGED <<statusVars, queued, writerVars, input, sent>>

(* Mutation of Undo: the reservation stays.                                *)
UndoForgets(c) ==
  /\ handler[c] = "undo"
  /\ HandlerTo(c, "idle")
  /\ UNCHANGED <<statusVars, queued, channel, writerVars, input, sent>>

Undo(c) ==
  /\ handler[c] = "undo"
  /\ queued' = queued - input[c]
  /\ HandlerTo(c, "idle")
  /\ UNCHANGED <<statusVars, channel, writerVars, input, sent>>

(* Another connection takes the session over (handle_attach), or the       *)
(* attacher detaches.                                                      *)
Takeover(c) ==
  /\ attached # c
  /\ handler[c] = "idle"
  /\ attached' = c
  /\ UNCHANGED <<alive, open, queued, channel, writerVars, handler, input, sent>>

Detach(c) ==
  /\ attached = c
  /\ handler[c] = "idle"
  /\ attached' = NoConn
  /\ UNCHANGED <<alive, open, queued, channel, writerVars, handler, input, sent>>

-----------------------------------------------------------------------------
(* The writer thread: take the next input, write it, count it off.  It     *)
(* ends when the channel is closed and empty.                              *)
Take ==
  /\ writer = "running"
  /\ writing = NoInput
  /\ channel # <<>>
  /\ writing' = Head(channel)
  /\ channel' = Tail(channel)
  /\ UNCHANGED <<statusVars, queued, writer, handler, input, sent>>

(* write_all, which blocks while a live child does not read (fairness asks *)
(* for this step only of a dead child), then the counter.                  *)
Write ==
  /\ writer = "running"
  /\ writing # NoInput
  /\ queued' = queued - writing.size
  /\ writing' = NoInput
  /\ UNCHANGED <<statusVars, channel, writer, handler, input, sent>>

(* Mutation of WriterEnd: the thread ends at once when the channel closes. *)
WriterEndEarly ==
  /\ writer = "running"
  /\ writing = NoInput
  /\ ~open
  /\ writer' = "done"
  /\ UNCHANGED <<statusVars, queued, channel, writing, handler, input, sent>>

WriterEnd ==
  /\ writer = "running"
  /\ writing = NoInput
  /\ ~open /\ channel = <<>>
  /\ writer' = "done"
  /\ UNCHANGED <<statusVars, queued, channel, writing, handler, input, sent>>

(* The reader thread at the child's end: record the status ...             *)
ChildExits ==
  /\ alive
  /\ alive' = FALSE
  /\ UNCHANGED <<attached, open, queued, channel, writerVars, handler, input,
                 sent>>

(* ... then release the handles, input_tx among them.                      *)
Release ==
  /\ ~alive /\ open
  /\ open' = FALSE
  /\ UNCHANGED <<attached, alive, queued, channel, writerVars, handler, input,
                 sent>>

Handle(c) == Admit(c) \/ ReserveRoom(c) \/ Send(c) \/ Undo(c)

QueueNext ==
  \/ \E c \in Conns :
       \/ \E size \in Sizes : Receive(c, size)
       \/ Handle(c) \/ Takeover(c) \/ Detach(c)
  \/ Take \/ Write \/ WriterEnd \/ ChildExits \/ Release

QueueSpec == QueueInit /\ [][QueueNext]_queueVars

(* Handlers and the session's threads run.  A live child need not read:    *)
(* its input is sure to be taken, or refused, only once it is dead.        *)
QueueFairness ==
  /\ \A c \in Conns : WF_queueVars(Handle(c))
  /\ WF_queueVars(Take) /\ WF_queueVars(WriterEnd) /\ WF_queueVars(Release)
  /\ WF_queueVars(~alive /\ Write)

QueueFairSpec == QueueSpec /\ QueueFairness

-----------------------------------------------------------------------------
(* Types; no release takes the counter below zero, where the code's        *)
(* unsigned counter would wrap and refuse all input from then on.          *)
QueueTypeOK ==
  /\ attached \in Conns \cup {NoConn}
  /\ alive \in BOOLEAN /\ open \in BOOLEAN
  /\ queued \in Nat /\ channel \in Seq(Input)
  /\ writing \in Input \cup {NoInput} /\ writer \in {"running", "done"}
  /\ handler \in [Conns -> Handlers] /\ input \in [Conns -> Nat]
  /\ sent \in [Conns -> Nat]

(* What the counter counts, by its place: in the channel, in handlers that *)
(* have reserved, in the writer thread's hands.                            *)
Waiting == [i \in DOMAIN channel |-> channel[i].size]
Held    == [c \in {h \in Conns : handler[h] \in {"reserved", "undo"}} |-> input[c]]
Written == IF writing = NoInput THEN 0 ELSE writing.size

(* The counter is exactly the input on its way to the child, so a          *)
(* reservation is returned once, also when the child exits between the     *)
(* check and the send.                                                     *)
QueueCounted == queued = Total(Waiting) + Written + Total(Held)

(* A connection's handler never waits for a child that does not read.      *)
NeverStalls == \A c \in Conns : handler[c] # "idle" ~> handler[c] = "idle"

(* A tombstone keeps no writer thread and no reservation, whatever input   *)
(* was on its way when the child exited.                                   *)
ExitDrains == ~alive ~> [](writer = "done" /\ queued = 0)
=============================================================================
