------------------------- MODULE DaemonOutputProofs -------------------------
(***************************************************************************)
(* Theorems about a session's output in the daemon.  TerminalFanout: the   *)
(* attachment is held by the newest handler alone, and no client's view    *)
(* has a gap.  SidecarStream: only a session whose child is dead is ended; *)
(* while the holder's ring covers what the daemon has not read, the cold   *)
(* history is exact and the daemon implements DurableFeed.                 *)
(***************************************************************************)
EXTENDS TerminalFanout, SidecarStream, SequenceTheorems, TLAPS

(***************************************************************************)
(* TerminalFanout.                                                         *)
(***************************************************************************)

Conn == [pc : {"idle", "registered", "notified", "priming", "streaming", "closed"},
         prev : Conns \cup {Nobody}, permit : BOOLEAN, rx : Nat, shown : Nat, exact : BOOLEAN]

(***************************************************************************)
(* The inductive invariant.  The in-process backend moves both counters    *)
(* at once; a connection that was never opened superseded nobody.          *)
(***************************************************************************)
Shape == /\ backend \in {"native", "sidecar"}
         /\ processed \in Nat /\ pushed \in Nat
         /\ attached \in Conns \cup {Nobody}
         /\ conn \in [Conns -> Conn]
Backend == /\ pushed <= processed
           /\ backend = "native" => pushed = processed
Unopened == \A c \in Conns : conn[c].pc = "idle" => conn[c].prev = Nobody
FanInv == Shape /\ Backend /\ Unopened /\ InUse /\ Seamless

(* It holds initially.                                                     *)
LEMMA FanInvInit == FanInit => FanInv
BY ConnsAssumption DEF FanInit, FanInv, Shape, Backend, Unopened, InUse, Seamless, Conn, NoConn, Running

(* A step of the backend: the counters grow, and nothing else that the     *)
(* invariant speaks of.                                                    *)
LEMMA BackendStep == FanInv /\ (NativeChunk \/ SidecarProcess \/ SidecarPush \/ SessionEnds) => FanInv'
<1> SUFFICES ASSUME FanInv, NativeChunk \/ SidecarProcess \/ SidecarPush \/ SessionEnds PROVE FanInv'
  OBVIOUS
<1> USE BoundsAssumption DEF FanInv
<1>1. UNCHANGED <<backend, attached, conn>>
  BY DEF NativeChunk, SidecarProcess, SidecarPush, SessionEnds
<1>2. /\ processed' \in Nat /\ pushed' \in Nat /\ Backend'
  BY DEF NativeChunk, SidecarProcess, SidecarPush, SessionEnds, Shape, Backend
<1>3. Shape'
  BY <1>1, <1>2 DEF Shape
<1>4. Unopened' /\ InUse' /\ Seamless'
  BY <1>1 DEF Unopened, InUse, Seamless, Running
<1> QED BY <1>2, <1>3, <1>4

(* A handler ends, whatever made it end.                                   *)
LEMMA FinishStep ==
  ASSUME FanInv, NEW c \in Conns, Running(c), Finish(c), UNCHANGED <<backend, processed, pushed>>
  PROVE  FanInv'
<1> USE DEF FanInv
<1>1. conn' = [conn EXCEPT ![c].pc = "closed"]
  BY DEF Finish, Goto
<1>2. attached' = IF attached = c THEN Nobody ELSE attached
  BY DEF Finish, Release
<1>3. Shape' /\ Backend'
  BY <1>1, <1>2 DEF Shape, Backend, Conn
<1>4. Unopened' /\ Seamless'
  BY <1>1 DEF Shape, Conn, Unopened, Seamless
<1>5. InUse'
  <2>1. \A d \in Conns : d # c => conn'[d] = conn[d]
    BY <1>1 DEF Shape
  <2>2. conn'[c].pc = "closed" /\ \A d \in Conns : conn'[d].prev = conn[d].prev
    BY <1>1 DEF Shape, Conn
  <2>3. ASSUME attached' # Nobody PROVE Running(attached)'
    BY <1>2, <2>1, <2>3 DEF Shape, InUse, Running
  <2>4. ASSUME NEW d \in Conns, Running(d)', \A e \in Conns : conn'[e].prev # d
        PROVE  attached' = d
    <3>1. d # c
      BY <2>2, <2>4 DEF Running
    <3>2. attached = d
      BY <2>1, <2>2, <2>4, <3>1 DEF InUse, Running
    <3> QED BY <1>2, <3>1, <3>2
  <2> QED BY <2>3, <2>4 DEF InUse
<1> QED BY <1>3, <1>4, <1>5

(* A handler goes on with the attachment and every `prev` as they were.    *)
LEMMA KeepsInUse ==
  ASSUME FanInv, conn' \in [Conns -> Conn], UNCHANGED attached,
         \A d \in Conns : conn'[d].prev = conn[d].prev /\ (Running(d)' <=> Running(d))
  PROVE  InUse'
BY DEF FanInv, Shape, InUse, Running

(* Opening a connection: it takes the attachment, and remembers from whom. *)
LEMMA RegisterStep == ASSUME FanInv, NEW c \in Conns, Register(c) PROVE FanInv'
<1> USE DEF FanInv
<1>1. /\ attached' = c /\ UNCHANGED <<backend, processed, pushed>>
      /\ conn[c].pc = "idle" /\ conn[c].prev = Nobody
  BY DEF Register, Unopened
<1>2. conn' = [d \in Conns |-> IF d = c THEN [conn[c] EXCEPT !.pc = "registered", !.prev = attached] ELSE conn[d]]
  BY DEF Register, Shape, Conn
<1>3. Shape' /\ Backend'
  BY ZenonT(60), <1>1, <1>2 DEF Shape, Backend, Conn
<1>4. Unopened' /\ Seamless'
  BY <1>1, <1>2 DEF Shape, Conn, Unopened, Seamless
<1>5. InUse'
  <2>1. Running(attached)'
    BY <1>1, <1>2 DEF Shape, Conn, Running
  <2>2. ASSUME NEW d \in Conns, Running(d)', \A e \in Conns : conn'[e].prev # d, d # c
        PROVE  FALSE
    <3>1. conn'[c].prev = attached /\ \A e \in Conns : e # c => conn'[e] = conn[e]
      BY <1>2 DEF Shape, Conn
    <3>2. Running(d) /\ \A e \in Conns : conn[e].prev # d
      BY <1>1, <2>2, <3>1, ConnsAssumption DEF Running
    <3>3. attached = d
      BY <3>2 DEF InUse
    <3> QED BY <2>2, <3>1, <3>3
  <2> QED BY <1>1, <2>1, <2>2 DEF InUse
<1> QED BY <1>3, <1>4, <1>5

(* Telling the superseded handler: a permit, and nothing else.             *)
LEMMA SupersedeStep == ASSUME FanInv, NEW c \in Conns, Supersede(c) PROVE FanInv'
<1> USE DEF FanInv
<1>1. UNCHANGED <<backend, processed, pushed, attached>>
  BY DEF Supersede
<1>2. /\ conn' \in [Conns -> Conn]
      /\ \A d \in Conns : /\ conn'[d].prev = conn[d].prev
                          /\ conn'[d].rx = conn[d].rx /\ conn'[d].shown = conn[d].shown /\ conn'[d].exact = conn[d].exact
                          /\ conn'[d].pc = IF d = c THEN "notified" ELSE conn[d].pc
  BY ZenonT(60) DEF Supersede, Shape, Conn
<1>3. conn[c].pc = "registered"
  BY DEF Supersede
<1>4. Shape' /\ Backend' /\ Unopened' /\ Seamless'
  BY <1>1, <1>2, <1>3 DEF Shape, Backend, Unopened, Seamless
<1>5. InUse'
  BY <1>1, <1>2, <1>3, KeepsInUse DEF Running
<1> QED BY <1>4, <1>5

(* The repaint and the subscription name the same point of the stream.     *)
LEMMA SubscribeStep == ASSUME FanInv, NEW c \in Conns, Subscribe(c) PROVE FanInv'
<1> USE DEF FanInv
<1>1. UNCHANGED <<backend, processed, pushed, attached>> /\ conn[c].pc = "notified"
  BY DEF Subscribe
<1>2. Cover \in Nat /\ Cover >= pushed /\ (backend = "native" \/ ~alt => Cover = pushed)
  BY DEF Cover, Shape, Backend
<1>3. PICK exact \in BOOLEAN :
        /\ conn' = [d \in Conns |-> IF d = c THEN [conn[c] EXCEPT !.pc = "priming", !.shown = Cover, !.rx = pushed + 1, !.exact = exact]
                                    ELSE conn[d]]
        /\ exact => Cover = pushed
  <2>1. conn' = [d \in Conns |-> IF d = c THEN [conn[c] EXCEPT !.pc = "priming", !.shown = Cover, !.rx = pushed + 1,
                                                              !.exact = (backend = "native" \/ ~alt)]
                                  ELSE conn[d]]
    BY DEF Subscribe, Shape, Conn
  <2>2. (backend = "native" \/ ~alt) \in BOOLEAN
    OBVIOUS
  <2> QED BY <1>2, <2>1, <2>2
<1>4. Shape' /\ Backend'
  <2>1. pushed + 1 \in Nat
    BY DEF Shape
  <2>2. [conn[c] EXCEPT !.pc = "priming", !.shown = Cover, !.rx = pushed + 1, !.exact = exact] \in Conn
    BY <1>2, <2>1 DEF Shape, Conn
  <2>3. conn' \in [Conns -> Conn]
    BY <1>3, <2>2 DEF Shape
  <2> QED BY <1>1, <2>3 DEF Shape, Backend
<1>5. Unopened' /\ Seamless'
  BY <1>1, <1>2, <1>3 DEF Shape, Conn, Unopened, Seamless
<1>6. \A d \in Conns : conn'[d].prev = conn[d].prev /\ conn'[d].pc = IF d = c THEN "priming" ELSE conn[d].pc
  BY <1>3 DEF Shape, Conn
<1>7. InUse'
  BY <1>1, <1>4, <1>6, KeepsInUse DEF Shape, Running
<1> QED BY <1>4, <1>5, <1>7

(* Passing a chunk on, and falling behind the broadcast.                   *)
LEMMA DeliverStep == ASSUME FanInv, NEW c \in Conns, Forward(c) \/ Lagged(c) PROVE FanInv'
<1> USE DEF FanInv
<1>1. UNCHANGED <<backend, processed, pushed, attached>> /\ conn[c].pc = "streaming"
  BY DEF Forward, Lagged
<1>2. PICK rx \in Nat, view \in Nat, exact \in BOOLEAN :
        /\ conn' = [d \in Conns |-> IF d = c THEN [conn[c] EXCEPT !.rx = rx, !.shown = view, !.exact = exact] ELSE conn[d]]
        /\ rx <= view + 1 /\ (exact => rx = view + 1)
  <2>1. CASE Forward(c)
    <3> DEFINE view == IF conn[c].rx > conn[c].shown THEN conn[c].rx ELSE conn[c].shown
    <3>1. conn' = [d \in Conns |-> IF d = c THEN [conn[c] EXCEPT !.rx = conn[c].rx + 1, !.shown = view, !.exact = conn[c].exact] ELSE conn[d]]
      BY <2>1 DEF Forward, Shape, Conn
    <3>2. /\ conn[c].rx + 1 <= view + 1 /\ (conn[c].exact => conn[c].rx + 1 = view + 1)
          /\ conn[c].rx + 1 \in Nat /\ view \in Nat /\ conn[c].exact \in BOOLEAN
      BY <1>1 DEF Shape, Conn, Seamless
    <3> QED BY <3>1, <3>2
  <2>2. CASE Lagged(c)
    <3>1. conn' = [d \in Conns |-> IF d = c THEN [conn[c] EXCEPT !.rx = Oldest, !.shown = processed, !.exact = FALSE] ELSE conn[d]]
      BY <2>2 DEF Lagged, Shape, Conn
    <3>2. Oldest \in Nat /\ processed \in Nat /\ Oldest <= processed + 1
      BY BoundsAssumption DEF Oldest, Shape, Backend
    <3> QED BY <3>1, <3>2
  <2> QED BY <2>1, <2>2
<1>3. Shape' /\ Backend'
  BY <1>1, <1>2 DEF Shape, Backend, Conn
<1>4. Unopened' /\ Seamless'
  BY <1>1, <1>2 DEF Shape, Conn, Unopened, Seamless
<1>5. \A d \in Conns : conn'[d].prev = conn[d].prev /\ conn'[d].pc = conn[d].pc
  BY <1>2 DEF Shape, Conn
<1>6. InUse'
  BY <1>1, <1>3, <1>5, KeepsInUse DEF Shape, Running
<1> QED BY <1>3, <1>4, <1>6

(* The steps that change nothing but one handler's place outside the       *)
(* attachment: a client of an ended session, and the first send.           *)
LEMMA PlaceStep ==
  ASSUME FanInv, NEW c \in Conns, NEW to,
         \/ conn[c].pc = "idle" /\ to = "closed"
         \/ conn[c].pc = "priming" /\ to = "streaming",
         Goto(c, to), UNCHANGED <<backend, processed, pushed, attached>>
  PROVE  FanInv'
<1> USE DEF FanInv
<1>1. /\ conn' = [d \in Conns |-> IF d = c THEN [conn[c] EXCEPT !.pc = to] ELSE conn[d]]
      /\ to \in {"closed", "streaming"}
  BY DEF Goto, Shape, Conn
<1>2. Shape' /\ Backend'
  BY <1>1 DEF Shape, Backend, Conn
<1>3. Unopened' /\ Seamless'
  BY <1>1 DEF Shape, Conn, Unopened, Seamless
<1>4. \A d \in Conns : conn'[d].prev = conn[d].prev /\ (Running(d)' <=> Running(d))
  BY <1>1 DEF Shape, Conn, Running
<1>5. InUse'
  BY <1>2, <1>4, KeepsInUse DEF Shape
<1> QED BY <1>2, <1>3, <1>5

(* Every step keeps it.                                                    *)
LEMMA FanInvStep == FanInv /\ [FanNext]_fanVars => FanInv'
<1> SUFFICES ASSUME FanInv, [FanNext]_fanVars PROVE FanInv'
  OBVIOUS
<1>1. CASE NativeChunk \/ SidecarProcess \/ SidecarPush \/ SessionEnds
  BY <1>1, BackendStep
<1>2. CASE \E c \in Conns : Register(c)
  BY <1>2, RegisterStep
<1>3. CASE \E c \in Conns : Supersede(c)
  BY <1>3, SupersedeStep
<1>4. CASE \E c \in Conns : Subscribe(c)
  BY <1>4, SubscribeStep
<1>5. CASE \E c \in Conns : Forward(c) \/ Lagged(c)
  BY <1>5, DeliverStep
<1>6. ASSUME NEW c \in Conns, Cancelled(c) \/ IdleTimeout(c) \/ Leave(c) PROVE FanInv'
  BY <1>6, FinishStep DEF Cancelled, IdleTimeout, Leave, Running
<1>7. ASSUME NEW c \in Conns, Prime(c) PROVE FanInv'
  <2>1. CASE Goto(c, "streaming") /\ UNCHANGED attached
    BY <1>7, <2>1, PlaceStep DEF Prime
  <2>2. CASE Finish(c)
    BY <1>7, <2>2, FinishStep DEF Prime, Running
  <2> QED BY <1>7, <2>1, <2>2 DEF Prime
<1>8. ASSUME NEW c \in Conns, History(c) PROVE FanInv'
  BY <1>8, PlaceStep DEF History
<1>9. CASE UNCHANGED <<backend, processed, pushed, attached, conn>>
  BY <1>9 DEF FanInv, Shape, Backend, Unopened, InUse, Seamless, Running
<1>10. ASSUME NEW c \in Conns, Silence(c) \/ TransportGone(c) PROVE FanInv'
  BY <1>9, <1>10 DEF Silence, TransportGone
<1> QED BY <1>1, <1>2, <1>3, <1>4, <1>5, <1>6, <1>7, <1>8, <1>9, <1>10 DEF FanNext, Steps, fanVars

(* It always holds.                                                        *)
LEMMA FanInvAlways == FanSpec => []FanInv
BY FanInvInit, FanInvStep, PTL DEF FanSpec

(* The session is in use exactly while the handler that took it last runs  *)
(* (api/ws.rs, Attachments): a superseded one, however late it ends, does  *)
(* not give away what is no longer its own.                                *)
THEOREM InUseAlways == FanSpec => []InUse
BY FanInvAlways, PTL DEF FanInv

(* No client's view has a gap, whatever the backend writes between its     *)
(* repaint, its subscription and its reads, and none repeats a chunk but   *)
(* after a lag or on a sidecar's alternate screen.                         *)
THEOREM SeamlessAlways == FanSpec => []Seamless
BY FanInvAlways, PTL DEF FanInv

(* The rest of the types: no receiver is beyond the broadcast, no client's *)
(* view beyond the emulator.                                               *)
Ranges == /\ alt \in BOOLEAN /\ live \in BOOLEAN /\ processed <= MaxOutput
          /\ client \in [Conns -> {"alive", "silent", "stalled", "gone"}]
          /\ \A c \in Conns : conn[c].rx \in 1 .. pushed + 1 /\ conn[c].shown \in 0 .. processed

(* Every step stays in range.                                              *)
LEMMA RangesStep == FanInv /\ Ranges /\ [FanNext]_fanVars => Ranges'
<1> SUFFICES ASSUME FanInv, Ranges, [FanNext]_fanVars PROVE Ranges'
  OBVIOUS
<1> USE BoundsAssumption DEF Ranges
<1>1. Shape /\ Backend /\ Seamless
  BY DEF FanInv
<1>2. alt' \in BOOLEAN
  BY DEF FanNext, fanVars, NativeChunk, SidecarProcess, SidecarPush, SessionEnds, Register, History, Steps,
         Supersede, Subscribe, Prime, Cancelled, IdleTimeout, Forward, Lagged, Leave, Silence, TransportGone
<1>3. live' \in BOOLEAN
  BY DEF FanNext, fanVars, NativeChunk, SidecarProcess, SidecarPush, SessionEnds, Register, History, Steps,
         Supersede, Subscribe, Prime, Cancelled, IdleTimeout, Forward, Lagged, Leave, Silence, TransportGone
<1>4. client' \in [Conns -> {"alive", "silent", "stalled", "gone"}]
  BY DEF FanNext, fanVars, NativeChunk, SidecarProcess, SidecarPush, SessionEnds, Register, History, Steps,
         Supersede, Subscribe, Prime, Cancelled, IdleTimeout, Forward, Lagged, Leave, Silence, TransportGone
<1>5. CASE NativeChunk \/ SidecarProcess \/ SidecarPush \/ SessionEnds \/ UNCHANGED fanVars
  <2>1. /\ conn' = conn /\ processed' \in Nat /\ pushed' \in Nat
        /\ processed <= processed' /\ pushed <= pushed' /\ processed' <= MaxOutput
    BY <1>1, <1>5 DEF NativeChunk, SidecarProcess, SidecarPush, SessionEnds, fanVars, Shape
  <2>2. \A c \in Conns : conn'[c].rx \in 1 .. pushed' + 1 /\ conn'[c].shown \in 0 .. processed'
    BY <1>1, <2>1 DEF Shape
  <2> QED BY <1>2, <1>3, <1>4, <2>1, <2>2
<1>6. CASE \E c \in Conns : Register(c) \/ History(c) \/ Supersede(c) \/ Prime(c) \/ Cancelled(c) \/ IdleTimeout(c)
                              \/ Leave(c) \/ Silence(c) \/ TransportGone(c)
  <2>1. PICK c \in Conns : Register(c) \/ History(c) \/ Supersede(c) \/ Prime(c) \/ Cancelled(c) \/ IdleTimeout(c)
                              \/ Leave(c) \/ Silence(c) \/ TransportGone(c)
    BY <1>6
  <2>2. UNCHANGED <<processed, pushed>>
    BY <2>1 DEF Register, History, Supersede, Prime, Cancelled, IdleTimeout, Leave, Silence, TransportGone
  <2>3. \A d \in Conns : conn'[d].rx = conn[d].rx /\ conn'[d].shown = conn[d].shown
    <3>1. CASE Register(c) \/ Supersede(c)
      BY <1>1, <3>1 DEF Register, Supersede, Shape, Conn
    <3>2. CASE \E to : Goto(c, to)
      BY <1>1, <3>2 DEF Goto, Shape, Conn
    <3>3. CASE Silence(c) \/ TransportGone(c)
      BY <3>3 DEF Silence, TransportGone
    <3> QED BY <2>1, <3>1, <3>2, <3>3 DEF History, Prime, Cancelled, IdleTimeout, Leave, Finish
  <2> QED BY <1>2, <1>3, <1>4, <2>2, <2>3
<1>7. CASE \E c \in Conns : Subscribe(c) \/ Forward(c) \/ Lagged(c)
  <2>1. PICK c \in Conns : Subscribe(c) \/ Forward(c) \/ Lagged(c)
    BY <1>7
  <2>2. UNCHANGED <<processed, pushed>>
    BY <2>1 DEF Subscribe, Forward, Lagged
  <2>3. \A d \in Conns : d # c => conn'[d] = conn[d]
    BY <1>1, <2>1 DEF Subscribe, Forward, Lagged, Shape
  <2>4. conn'[c].rx \in 1 .. pushed + 1 /\ conn'[c].shown \in 0 .. processed
    <3>1. CASE Subscribe(c)
      <4>1. conn'[c].rx = pushed + 1 /\ conn'[c].shown = Cover
        BY <1>1, <3>1 DEF Subscribe, Shape, Conn
      <4> QED BY <1>1, <4>1 DEF Cover, Shape, Backend
    <3>2. CASE Forward(c)
      <4>1. /\ conn'[c].rx = conn[c].rx + 1
            /\ conn'[c].shown = conn[c].shown \/ conn'[c].shown = conn[c].rx
            /\ conn[c].rx <= pushed
        BY <1>1, <3>2 DEF Forward, Shape, Conn, Oldest
      <4> QED BY <1>1, <4>1 DEF Shape, Conn, Backend
    <3>3. CASE Lagged(c)
      <4>1. conn'[c].rx = Oldest /\ conn'[c].shown = processed
        BY <1>1, <3>3 DEF Lagged, Shape, Conn
      <4> QED BY <1>1, <4>1 DEF Oldest, Shape
    <3> QED BY <2>1, <3>1, <3>2, <3>3
  <2> QED BY <1>2, <1>3, <1>4, <2>2, <2>3, <2>4
<1> QED BY <1>5, <1>6, <1>7 DEF FanNext, Steps

(* Type correctness.  A receiver's position stays within the broadcast,    *)
(* and a repaint never shows what the emulator has not taken.              *)
THEOREM FanTypes == FanSpec => []FanTypeOK
<1>1. FanInit => Ranges
  BY BoundsAssumption DEF FanInit, Ranges, NoConn
<1>2. FanInv /\ Ranges => FanTypeOK
  <2> SUFFICES ASSUME FanInv, Ranges PROVE FanTypeOK
    OBVIOUS
  <2> DEFINE Small == [pc : {"idle", "registered", "notified", "priming", "streaming", "closed"},
                       prev : Conns \cup {Nobody}, permit : BOOLEAN,
                       rx : 1 .. MaxOutput + 1, shown : 0 .. MaxOutput, exact : BOOLEAN]
  <2>1. pushed <= MaxOutput /\ pushed \in Nat /\ processed \in 0 .. MaxOutput /\ pushed \in 0 .. processed
    BY BoundsAssumption DEF FanInv, Shape, Backend, Ranges
  <2>2. ASSUME NEW c \in Conns PROVE conn[c] \in Small
    <3>1. conn[c].rx \in 1 .. MaxOutput + 1 /\ conn[c].shown \in 0 .. MaxOutput
      BY BoundsAssumption, <2>1 DEF Ranges
    <3>2. conn[c] \in Conn
      BY DEF FanInv, Shape
    <3> QED BY <3>1, <3>2 DEF Conn
  <2>3. conn \in [Conns -> Small]
    BY <2>2 DEF FanInv, Shape
  <2> QED BY <2>1, <2>3 DEF FanTypeOK, FanInv, Shape, Ranges
<1> QED BY <1>1, <1>2, RangesStep, FanInvAlways, PTL DEF FanSpec

(***************************************************************************)
(* SidecarStream: types, and the end of a session.                         *)
(***************************************************************************)

(* What may be on the wire: a frame of one kind is for one kind of         *)
(* requester, and one that speaks of the end of the child is true.         *)
Kinds == {"attached", "gap", "unknown"}
States == {"alive", "dead", "evicted"}
Frames ==
  {f \in [kind : Notices \cup Kinds \cup States, at : Nat, to : Requesters] :
     /\ f.at <= head
     /\ f.kind \in Notices => f.to = "nobody"
     /\ f.to \in {"task", "supervisor"} => f.kind \in Kinds
     /\ f.to = "pass" => f.kind \in States
     /\ f.kind \in {"exited", "dead", "evicted", "unknown"} => child # "alive"}
Asked ==
  {r \in Requests :
     /\ r.from <= head
     /\ r.to = "pass" => r.kind = "list"
     /\ r.kind = "list" => r.to \in {"pass", "nobody"}}
News ==
  {e \in Events : /\ e.kind = "output" => e.chunk \in 1 .. head
                  /\ e.kind = "exited" => child # "alive"}

(* The types, component by component.                                      *)
HolderTypes ==
  /\ head \in Nat /\ child \in States
  /\ stream \in {"none", "live", "replay"} /\ pos \in 0 .. head
WireTypes ==
  /\ ctrl \in Seq(Frames) /\ data \in Seq(1 .. head)
  /\ reqs \in Seq(Asked) /\ cmds \in Seq(Asked)
RouteTypes ==
  /\ sup \in {"running", "dial", "reattach", "earliest"}
  /\ routed \in BOOLEAN /\ cursor \in 0 .. head /\ events \in Seq(News)
TaskTypes ==
  /\ phase \in Phases /\ call \in Waiting
  /\ answer \in Replies /\ answer.at <= head /\ earliest \in 0 .. head
  /\ persistFrom \in Nat /\ shown \in Seq(0 .. head)
LogTypes ==
  /\ unsaved \in Seq(1 .. head) /\ saved \in Seq(1 .. head) /\ stored \in 0 .. head
PassTypes ==
  /\ pass \in Waiting /\ verdict \in Verdicts
  /\ passes \in Nat /\ drops \in Nat /\ restarts \in Nat /\ takeovers \in Nat
Types == HolderTypes /\ WireTypes /\ RouteTypes /\ TaskTypes /\ LogTypes /\ PassTypes

(* What the daemon believes of the end of the child is so; a running       *)
(* session lost its route only because the pass found the child gone.      *)
Ended ==
  /\ verdict \in {"dead", "evicted"} => child # "alive"
  /\ answer.kind = "unknown" => child # "alive"
  /\ ~routed => phase \in {"boot", "unlisted"} \/ child # "alive"
  /\ phase \in {"done", "refused"} => child # "alive"

(* The inductive invariant of the types.                                   *)
StreamInv == Types /\ Ended

(* A sequence over a set is one over any larger set.                       *)
LEMMA SeqWider == ASSUME NEW S, NEW T, S \subseteq T, NEW s \in Seq(S) PROVE s \in Seq(T)
<1>1. s \in [1 .. Len(s) -> S] /\ Len(s) \in Nat
  OBVIOUS
<1>2. s \in [1 .. Len(s) -> T]
  BY <1>1
<1> QED BY <1>1, <1>2

(* What is made nobody's is as well typed as before.                       *)
LEMMA ForgetTypes ==
  ASSUME NEW S, NEW frames \in Seq(S), NEW who,
         \A f \in S : [f EXCEPT !.to = "nobody"] \in S
  PROVE  Forget(frames, who) \in Seq(S)
<1>1. /\ Len(frames) \in Nat /\ DOMAIN frames = 1 .. Len(frames)
      /\ \A i \in 1 .. Len(frames) : frames[i] \in S
  OBVIOUS
<1>2. Forget(frames, who) \in [1 .. Len(frames) -> S]
  BY <1>1 DEF Forget
<1> QED BY <1>1, <1>2

(* The child writes, exits and is evicted, and never the other way:        *)
(* whatever could be said of it stays true.                                *)
LEMMA SetsGrow ==
  ASSUME Types, head' \in Nat, head <= head', child' = child \/ child' # "alive"
  PROVE  Frames \subseteq Frames' /\ Asked \subseteq Asked' /\ News \subseteq News'
         /\ 0 .. head \subseteq 0 .. head' /\ 1 .. head \subseteq 1 .. head'
<1> USE DEF Types, HolderTypes
<1>1. Frames \subseteq Frames'
  BY DEF Frames, Kinds, States, Notices
<1>2. Asked \subseteq Asked'
  BY DEF Asked, Requests
<1>3. News \subseteq News'
  BY DEF News, Events, Notices
<1> QED BY <1>1, <1>2, <1>3

(* The child writes, exits, or its tombstone is evicted.                   *)
LEMMA WorldStep ==
  ASSUME StreamInv, Push \/ Exit \/ Evict
  PROVE  StreamInv'
<1> USE DEF StreamInv
<1>1. /\ HolderTypes' /\ head <= head' /\ (child' = child \/ child' # "alive")
      /\ UNCHANGED <<socket, sup, cmds, route, phase, calling, copies, log, passing, bounds>>
  BY DEF Push, Exit, Evict, Types, HolderTypes, States, socket
<1>2. /\ Frames \subseteq Frames' /\ Asked \subseteq Asked' /\ News \subseteq News'
      /\ 0 .. head \subseteq 0 .. head' /\ 1 .. head \subseteq 1 .. head'
  BY <1>1, SetsGrow DEF HolderTypes
<1>3. WireTypes'
  BY <1>1, <1>2, SeqWider DEF Types, WireTypes, socket
<1>4. RouteTypes'
  BY <1>1, <1>2, SeqWider DEF Types, RouteTypes, route
<1>5. TaskTypes'
  <2>1. answer'.at <= head'
    BY <1>1 DEF Types, TaskTypes, HolderTypes, calling, Replies
  <2> QED BY <1>1, <1>2, <2>1, SeqWider DEF Types, TaskTypes, calling, copies
<1>6. LogTypes'
  BY <1>1, <1>2, SeqWider DEF Types, LogTypes, log
<1>7. PassTypes'
  BY <1>1 DEF Types, PassTypes, passing, bounds
<1>8. Ended'
  BY <1>1 DEF Ended, passing, route, calling
<1> QED BY <1>1, <1>3, <1>4, <1>5, <1>6, <1>7, <1>8 DEF Types

(* The holder answers an attach.                                           *)
LEMMA HandleAttachStep == ASSUME StreamInv, HandleAttach PROVE StreamInv'
<1> USE SidecarAssumption DEF StreamInv
<1> DEFINE m == Head(reqs)
           start == IF m.kind = "earliest" THEN tail ELSE m.from
<1>1. UNCHANGED <<head, child, data, cmds, sup, route, phase, calling, copies, log, passing, bounds>>
  BY DEF HandleAttach, holder
<1>2. m \in Asked /\ reqs' \in Seq(Asked) /\ m.kind # "list"
  BY DEF HandleAttach, Types, WireTypes
<1>3. tail \in 0 .. head /\ head \in Nat
  BY DEF tail, Types, HolderTypes
<1>4. m.to \in Requesters /\ m.to # "pass" /\ start \in 0 .. head
  BY <1>2, <1>3 DEF Asked, Requests
<1>5. ASSUME NEW kind \in Kinds, NEW at \in 0 .. head, kind = "unknown" => child # "alive"
      PROVE  Reply(kind, at, m.to) \in Frames
  BY <1>3, <1>4, <1>5 DEF Reply, Frames, Kinds, Notices
<1>6. Frames' = Frames /\ Asked' = Asked /\ News' = News
  BY <1>1 DEF Frames, Asked, News
<1>7. ctrl' \in Seq(Frames)
  <2>1. \E kind \in Kinds, at \in 0 .. head :
          /\ kind = "unknown" => child # "alive"
          /\ ctrl' = Append(ctrl, Reply(kind, at, m.to))
    BY <1>3 DEF HandleAttach, Kinds
  <2> QED BY <1>5, <2>1 DEF Types, WireTypes
<1>8. HolderTypes'
  BY <1>1, <1>4 DEF HandleAttach, Types, HolderTypes
<1>9. WireTypes'
  BY <1>1, <1>2, <1>6, <1>7 DEF Types, WireTypes
<1>10. RouteTypes' /\ TaskTypes' /\ LogTypes' /\ PassTypes' /\ Ended'
  BY <1>1, <1>6 DEF Types, RouteTypes, TaskTypes, LogTypes, PassTypes, Ended, route, calling, copies, log, passing, bounds
<1> QED BY <1>8, <1>9, <1>10 DEF Types

(* The holder answers a list, with the child's state as it is.             *)
LEMMA HandleListStep == ASSUME StreamInv, HandleList PROVE StreamInv'
<1> USE DEF StreamInv
<1> DEFINE m == Head(reqs)
<1>1. UNCHANGED <<head, child, stream, pos, data, cmds, sup, route, phase, calling, copies, log, passing, bounds>>
  BY DEF HandleList, holder
<1>2. m \in Asked /\ reqs' \in Seq(Asked) /\ m.kind = "list"
  BY DEF HandleList, Types, WireTypes
<1>3. Reply(child, 0, m.to) \in Frames
  BY <1>2 DEF Types, HolderTypes, Reply, Frames, Asked, Requests, Notices, States, Requesters
<1>4. Frames' = Frames /\ Asked' = Asked /\ News' = News
  BY <1>1 DEF Frames, Asked, News
<1>5. WireTypes'
  BY <1>1, <1>2, <1>3, <1>4 DEF HandleList, Types, WireTypes
<1> QED
  BY <1>1, <1>4, <1>5 DEF Types, HolderTypes, RouteTypes, TaskTypes, LogTypes, PassTypes, Ended, route, calling, copies, log, passing, bounds

(* The holder's streamer reads, is evicted, or ends; it announces an exit  *)
(* of a dead child only.                                                   *)
LEMMA StreamerStep == ASSUME StreamInv, StreamOutput \/ StreamEvict \/ StreamEnd PROVE StreamInv'
<1> USE SidecarAssumption DEF StreamInv
<1>1. UNCHANGED <<head, child, reqs, cmds, sup, route, phase, calling, copies, log, passing, bounds>>
  BY DEF StreamOutput, StreamEvict, StreamEnd, holder
<1>2. Frames' = Frames /\ Asked' = Asked /\ News' = News
  BY <1>1 DEF Frames, Asked, News
<1>3. HolderTypes' /\ data' \in Seq(1 .. head)
  <2>1. CASE StreamOutput
    <3>1. pos + 1 \in 1 .. head /\ data \in Seq(1 .. head)
      BY <2>1 DEF StreamOutput, Types, HolderTypes, WireTypes
    <3>2. data' \in Seq(1 .. head)
      BY <2>1, <3>1 DEF StreamOutput
    <3>3. HolderTypes'
      BY <1>1, <2>1, <3>1 DEF StreamOutput, Types, HolderTypes
    <3> QED BY <3>2, <3>3
  <2>2. CASE StreamEvict \/ StreamEnd
    <3>1. data' = data /\ pos' = pos /\ stream' = "none"
      BY <2>2 DEF StreamEvict, StreamEnd
    <3> QED BY <1>1, <3>1 DEF Types, HolderTypes, WireTypes
  <2> QED BY <2>1, <2>2
<1>4. ctrl' \in Seq(Frames)
  <2>1. CASE ctrl' = ctrl
    BY <2>1 DEF Types, WireTypes
  <2>2. CASE StreamEvict
    <3>1. Reply("backpressure", pos, "nobody") \in Frames
      BY DEF Types, HolderTypes, Reply, Frames, Notices, Requesters
    <3> QED BY <2>2, <3>1 DEF StreamEvict, Types, WireTypes
  <2>3. CASE StreamEnd /\ ctrl' # ctrl
    <3>1. Reply("exited", head, "nobody") \in Frames
      BY <2>3 DEF StreamEnd, Types, HolderTypes, Reply, Frames, Notices, Requesters
    <3> QED BY <2>3, <3>1 DEF StreamEnd, Types, WireTypes
  <2> QED BY <2>1, <2>2, <2>3 DEF StreamOutput
<1>5. WireTypes'
  BY <1>1, <1>2, <1>3, <1>4 DEF Types, WireTypes
<1> QED
  BY <1>1, <1>2, <1>3, <1>5 DEF Types, RouteTypes, TaskTypes, LogTypes, PassTypes, Ended, route, calling, copies, log, passing, bounds

(* Another client takes the stream over.                                   *)
LEMMA TakeOverStep == ASSUME StreamInv, TakeOver PROVE StreamInv'
<1> USE DEF StreamInv
<1>1. /\ UNCHANGED <<head, child, pos, data, reqs, cmds, sup, route, phase, calling, copies, log>>
      /\ UNCHANGED <<passing, drops, restarts>>
      /\ stream' = "none" /\ takeovers' = takeovers + 1
  BY DEF TakeOver, holder
<1>2. Frames' = Frames /\ Asked' = Asked /\ News' = News
  BY <1>1 DEF Frames, Asked, News
<1>3. ctrl' \in Seq(Frames)
  <2>1. Reply("superseded", head, "nobody") \in Frames
    BY DEF Types, HolderTypes, Reply, Frames, Notices, Requesters
  <2> QED BY <2>1 DEF TakeOver, Types, WireTypes
<1>4. HolderTypes' /\ WireTypes' /\ PassTypes'
  BY <1>1, <1>2, <1>3 DEF Types, HolderTypes, WireTypes, PassTypes, passing
<1> QED
  BY <1>1, <1>2, <1>4 DEF Types, RouteTypes, TaskTypes, LogTypes, Ended, route, calling, copies, log, passing

(* What a step leaves alone stays well typed.                              *)
LEMMA QuietTypes ==
  ASSUME StreamInv, UNCHANGED <<head, child>>
  PROVE  /\ Frames' = Frames /\ Asked' = Asked /\ News' = News
         /\ UNCHANGED <<stream, pos>> => HolderTypes'
         /\ UNCHANGED <<ctrl, data, reqs, cmds>> => WireTypes'
         /\ UNCHANGED <<sup, routed, cursor, events>> => RouteTypes'
         /\ UNCHANGED <<phase, call, answer, earliest, persistFrom, shown>> => TaskTypes'
         /\ UNCHANGED <<unsaved, saved, stored>> => LogTypes'
         /\ UNCHANGED <<pass, verdict, passes, drops, restarts, takeovers>> => PassTypes'
         /\ UNCHANGED <<verdict, answer, routed, phase>> => Ended'
<1>1. Frames' = Frames /\ Asked' = Asked /\ News' = News
  BY DEF Frames, Asked, News
<1> QED
  BY <1>1 DEF StreamInv, Types, HolderTypes, WireTypes, RouteTypes, TaskTypes, LogTypes, PassTypes, Ended

(* An event that is true of the child may go to the drain task.            *)
LEMMA DeliverTypes ==
  ASSUME StreamInv, NEW e \in News, Deliver(e) PROVE events' \in Seq(News)
BY DEF StreamInv, Types, RouteTypes, Deliver

(* The reader routes output.                                               *)
LEMMA ReadOutputStep == ASSUME StreamInv, ReadOutput PROVE StreamInv'
<1>1. /\ UNCHANGED <<head, child, stream, pos, ctrl, reqs, cmds, sup, routed>>
      /\ UNCHANGED <<phase, call, answer, earliest, persistFrom, shown>>
      /\ UNCHANGED <<unsaved, saved, stored, pass, verdict, passes, drops, restarts, takeovers>>
  BY DEF ReadOutput, holder, calling, copies, log, passing, bounds
<1>2. Head(data) \in 1 .. head /\ data' \in Seq(1 .. head)
  <2> DEFINE chunks == 1 .. head
  <2>1. data \in Seq(chunks) /\ data # <<>> /\ data' = Tail(data)
    BY DEF ReadOutput, StreamInv, Types, WireTypes
  <2> HIDE DEF chunks
  <2>2. Head(data) \in chunks /\ data' \in Seq(chunks)
    BY <2>1
  <2> QED BY <2>2 DEF chunks
<1>3. Event("output", Head(data)) \in News
  BY <1>2 DEF Event, News, Events, StreamInv, Types, HolderTypes
<1>4. events' \in Seq(News)
  BY <1>3, DeliverTypes DEF ReadOutput
<1>5. cursor' \in 0 .. head
  BY <1>2 DEF ReadOutput, StreamInv, Types, RouteTypes, HolderTypes
<1>6. WireTypes' /\ RouteTypes'
  BY <1>1, <1>2, <1>4, <1>5, QuietTypes DEF StreamInv, Types, WireTypes, RouteTypes
<1> QED BY <1>1, <1>6, QuietTypes DEF StreamInv, Types

(* The reader routes a notice.                                             *)
LEMMA ReadNoticeStep == ASSUME StreamInv, ReadNotice PROVE StreamInv'
<1>1. /\ UNCHANGED <<head, child, stream, pos, data, reqs, cmds, sup, routed, cursor>>
      /\ UNCHANGED <<phase, call, answer, earliest, persistFrom, shown>>
      /\ UNCHANGED <<unsaved, saved, stored, pass, verdict, passes, drops, restarts, takeovers>>
  BY DEF ReadNotice, holder, calling, copies, log, passing, bounds
<1>2. Head(ctrl) \in Frames /\ ctrl' \in Seq(Frames) /\ Head(ctrl).kind \in Notices
  BY DEF ReadNotice, StreamInv, Types, WireTypes
<1>3. Event(Head(ctrl).kind, 0) \in News
  BY <1>2 DEF Event, News, Events, Frames, Notices
<1>4. events' \in Seq(News)
  BY <1>3, DeliverTypes DEF ReadNotice
<1>6. WireTypes' /\ RouteTypes'
  BY <1>1, <1>2, <1>4, QuietTypes DEF StreamInv, Types, WireTypes, RouteTypes
<1> QED BY <1>1, <1>6, QuietTypes DEF StreamInv, Types

(* A reply reaches the task, or the pass; the verdict the pass gets is     *)
(* true from then on, since a child does not come back.                    *)
LEMMA ReadReplyStep == ASSUME StreamInv, ReadReply PROVE StreamInv'
<1>1. /\ UNCHANGED <<head, child, stream, pos, data, reqs, cmds, sup, routed, cursor, events>>
      /\ UNCHANGED <<phase, earliest, persistFrom, shown>>
      /\ UNCHANGED <<unsaved, saved, stored, passes, drops, restarts, takeovers>>
  BY DEF ReadReply, holder, route, copies, log, bounds
<1>2. Head(ctrl) \in Frames /\ ctrl' \in Seq(Frames)
  BY DEF ReadReply, StreamInv, Types, WireTypes
<1>3. WireTypes'
  BY <1>1, <1>2, QuietTypes DEF StreamInv, Types, WireTypes
<1>4. TaskTypes'
  <2>1. CASE UNCHANGED <<call, answer>>
    BY <1>1, <2>1, QuietTypes
  <2>2. CASE Head(ctrl).to = "task" /\ call' = "answered" /\ answer' = Head(ctrl)
    <3>1. Head(ctrl) \in Replies /\ Head(ctrl).at <= head
      BY <1>2, <2>2 DEF Frames, Kinds, Replies, Requesters
    <3> QED BY <1>1, <2>2, <3>1 DEF StreamInv, Types, TaskTypes, Waiting
  <2> QED BY <2>1, <2>2 DEF ReadReply
<1>5. PassTypes' /\ Ended'
  <2>1. CASE UNCHANGED <<pass, verdict>>
    <3>1. answer' = answer \/ answer' = Head(ctrl)
      BY DEF ReadReply
    <3>2. answer'.kind = "unknown" => child # "alive"
      BY <1>2, <3>1 DEF Frames, StreamInv, Ended
    <3> QED BY <1>1, <2>1, <3>2 DEF StreamInv, Types, PassTypes, Ended
  <2>2. CASE Head(ctrl).to = "pass" /\ pass' = "answered" /\ verdict' = Head(ctrl).kind
    <3>1. /\ verdict' \in States /\ (verdict' \in {"dead", "evicted"} => child # "alive")
          /\ answer' = answer
      BY <1>2, <2>2 DEF Frames, ReadReply
    <3> QED BY <1>1, <2>2, <3>1 DEF StreamInv, Types, PassTypes, Ended, Waiting, Verdicts, States
  <2> QED BY <2>1, <2>2 DEF ReadReply
<1> QED BY <1>1, <1>3, <1>4, <1>5, QuietTypes DEF StreamInv, Types

(* The supervisor's own attach is answered.                                *)
LEMMA ReattachReplyStep == ASSUME StreamInv, ReattachReply PROVE StreamInv'
<1>1. /\ UNCHANGED <<head, child, stream, pos, data, cmds, routed, cursor, events>>
      /\ UNCHANGED <<phase, call, answer, earliest, persistFrom, shown>>
      /\ UNCHANGED <<unsaved, saved, stored, pass, verdict, drops, restarts, takeovers>>
  BY DEF ReattachReply, holder, route, calling, copies, log, bounds
<1>2. ctrl' \in Seq(Frames)
  BY DEF ReattachReply, StreamInv, Types, WireTypes
<1>3. Request("earliest", 0, "supervisor") \in Asked
  BY DEF Request, Asked, Requests, Requesters, StreamInv, Types, HolderTypes
<1>4. reqs' \in Seq(Asked)
  <2> DEFINE ask == Request("earliest", 0, "supervisor")
  <2>1. reqs \in Seq(Asked) /\ (reqs' = reqs \/ reqs' = Append(reqs, ask))
    BY DEF ReattachReply, StreamInv, Types, WireTypes
  <2>2. ask \in Asked
    BY <1>3
  <2> HIDE DEF ask
  <2> QED BY <2>1, <2>2
<1>5. sup' \in {"running", "earliest"} /\ passes' \in Nat
  BY DEF ReattachReply, Connected, StreamInv, Types, PassTypes
<1>6. WireTypes' /\ RouteTypes' /\ PassTypes'
  BY <1>1, <1>2, <1>4, <1>5, QuietTypes DEF StreamInv, Types, WireTypes, RouteTypes, PassTypes
<1> QED BY <1>1, <1>6, QuietTypes DEF StreamInv, Types

(* A new connection re-attaches the route.                                 *)
LEMMA ReconnectStep == ASSUME StreamInv, Reconnect PROVE StreamInv'
<1>1. /\ UNCHANGED <<head, child, stream, pos, ctrl, data, cmds, routed, cursor, events>>
      /\ UNCHANGED <<phase, call, answer, earliest, persistFrom, shown>>
      /\ UNCHANGED <<unsaved, saved, stored, pass, verdict, drops, restarts, takeovers>>
  BY DEF Reconnect, holder, route, calling, copies, log, bounds
<1>3. Request("cursor", cursor, "supervisor") \in Asked
  BY DEF Request, Asked, Requests, Requesters, StreamInv, Types, RouteTypes, HolderTypes
<1>4. reqs' \in Seq(Asked)
  <2> DEFINE ask == Request("cursor", cursor, "supervisor")
  <2>1. reqs \in Seq(Asked) /\ (reqs' = reqs \/ reqs' = <<ask>>)
    BY DEF Reconnect, StreamInv, Types, WireTypes
  <2>2. ask \in Asked
    BY <1>3
  <2> HIDE DEF ask
  <2> QED BY <2>1, <2>2
<1>5. sup' \in {"running", "reattach"} /\ passes' \in Nat
  BY DEF Reconnect, Connected, StreamInv, Types, PassTypes
<1>6. WireTypes' /\ RouteTypes' /\ PassTypes'
  BY <1>1, <1>4, <1>5, QuietTypes DEF StreamInv, Types, WireTypes, RouteTypes, PassTypes
<1> QED BY <1>1, <1>6, QuietTypes DEF StreamInv, Types

(* The writer sends a queued request.                                      *)
LEMMA SendCommandStep == ASSUME StreamInv, SendCommand PROVE StreamInv'
<1>1. /\ UNCHANGED <<head, child, stream, pos, ctrl, data, sup, routed, cursor, events>>
      /\ UNCHANGED <<phase, answer, earliest, persistFrom, shown>>
      /\ UNCHANGED <<unsaved, saved, stored, verdict, passes, drops, restarts, takeovers>>
  BY DEF SendCommand, holder, route, copies, log, bounds
<1>2. cmds' \in Seq(Asked) /\ reqs' \in Seq(Asked)
  BY DEF SendCommand, StreamInv, Types, WireTypes
<1>3. call' \in Waiting /\ pass' \in Waiting
  BY DEF SendCommand, StreamInv, Types, TaskTypes, PassTypes, Waiting
<1>4. WireTypes' /\ TaskTypes' /\ PassTypes'
  BY <1>1, <1>2, <1>3, QuietTypes DEF StreamInv, Types, WireTypes, TaskTypes, PassTypes
<1> QED BY <1>1, <1>4, QuietTypes DEF StreamInv, Types

(* A failure is a reply.                                                   *)
LEMMA FailedTypes == Failed \in Replies /\ Failed.at = 0
BY DEF Failed, Replies, Requesters, Verdicts

(* The connection is lost.                                                 *)
LEMMA DropStep == ASSUME StreamInv, Drop PROVE StreamInv'
<1>1. /\ UNCHANGED <<head, child, pos, cmds, routed, cursor, events>>
      /\ UNCHANGED <<phase, earliest, persistFrom, shown>>
      /\ UNCHANGED <<unsaved, saved, stored, passes, restarts, takeovers>>
      /\ sup' = "dial" /\ stream' = "none" /\ ctrl' = <<>> /\ data' = <<>> /\ reqs' = <<>>
  BY DEF Drop, holder, route, copies, log
<1>2. call' \in Waiting /\ answer' \in {answer, Failed}
  BY DEF Drop, StreamInv, Types, TaskTypes, Waiting
<1>3. pass' \in Waiting /\ verdict' \in {verdict, "failed"} /\ drops' \in Nat
  BY DEF Drop, StreamInv, Types, PassTypes, Waiting
<1>4. HolderTypes' /\ WireTypes' /\ RouteTypes'
  BY <1>1, QuietTypes DEF StreamInv, Types, HolderTypes, WireTypes, RouteTypes
<1>5. answer' \in Replies /\ answer'.at <= head
  BY <1>2, FailedTypes DEF StreamInv, Types, TaskTypes, HolderTypes
<1>6. TaskTypes' /\ PassTypes'
  BY <1>1, <1>2, <1>3, <1>5 DEF StreamInv, Types, TaskTypes, PassTypes, Verdicts
<1>7. Ended'
  BY <1>1, <1>2, <1>3 DEF StreamInv, Ended, Failed
<1> QED BY <1>1, <1>4, <1>6, <1>7, QuietTypes DEF StreamInv, Types

(* An rpc runs into its timeout.                                           *)
LEMMA TimeoutStep == ASSUME StreamInv, Timeout PROVE StreamInv'
<1>1. /\ UNCHANGED <<head, child, stream, pos, data, sup, routed, cursor, events>>
      /\ UNCHANGED <<phase, earliest, persistFrom, shown>>
      /\ UNCHANGED <<unsaved, saved, stored, passes, drops, restarts, takeovers>>
  BY DEF Timeout, holder, route, copies, log, bounds
<1>2. /\ \A f \in Frames : [f EXCEPT !.to = "nobody"] \in Frames
      /\ \A r \in Asked : [r EXCEPT !.to = "nobody"] \in Asked
  BY DEF Frames, Asked, Requests, Requesters
<1>3. cmds' \in Seq(Asked) /\ reqs' \in Seq(Asked) /\ ctrl' \in Seq(Frames)
  <2>1. PICK who : cmds' = Forget(cmds, who) /\ reqs' = Forget(reqs, who)
                   /\ ctrl' = Forget(ctrl, who)
    BY DEF Timeout
  <2> QED BY <1>2, <2>1, ForgetTypes DEF StreamInv, Types, WireTypes
<1>4. call' \in Waiting /\ answer' \in {answer, Failed}
  BY DEF Timeout, StreamInv, Types, TaskTypes, Waiting
<1>5. pass' \in Waiting /\ verdict' \in {verdict, "failed"}
  BY DEF Timeout, StreamInv, Types, PassTypes, Waiting
<1>6. answer' \in Replies /\ answer'.at <= head
  BY <1>4, FailedTypes DEF StreamInv, Types, TaskTypes, HolderTypes
<1>7. WireTypes'
  BY <1>1, <1>3, QuietTypes DEF StreamInv, Types, WireTypes
<1>8. TaskTypes' /\ PassTypes'
  BY <1>1, <1>4, <1>5, <1>6 DEF StreamInv, Types, TaskTypes, PassTypes, Verdicts
<1>9. Ended'
  BY <1>1, <1>4, <1>5 DEF StreamInv, Ended, Failed
<1> QED BY <1>1, <1>7, <1>8, <1>9, QuietTypes DEF StreamInv, Types

(* The task queues an attach.                                              *)
LEMMA AttachTypes ==
  ASSUME StreamInv, NEW kind \in {"cursor", "earliest"}, NEW from \in 0 .. head,
         Attach(kind, from)
  PROVE  cmds' \in Seq(Asked) /\ call' = "queued"
<1> DEFINE ask == Request(kind, from, "task")
<1>1. cmds \in Seq(Asked) /\ cmds' = Append(cmds, ask) /\ call' = "queued"
  BY DEF Attach, StreamInv, Types, WireTypes
<1>2. ask \in Asked
  BY DEF Request, Asked, Requests, Requesters, StreamInv, Types, HolderTypes
<1> HIDE DEF ask
<1> QED BY <1>1, <1>2

(* The drain task takes an event.                                          *)
LEMMA TakeEvent ==
  ASSUME StreamInv, events # <<>>
  PROVE  Head(events) \in News /\ Tail(events) \in Seq(News)
BY DEF StreamInv, Types, RouteTypes

(* What a reply names is within what was written.                          *)
LEMMA AnswerAt == ASSUME StreamInv PROVE answer.at \in 0 .. head /\ 0 \in 0 .. head
BY DEF StreamInv, Types, HolderTypes, TaskTypes, Replies

(* Creation or adoption is answered.                                       *)
LEMMA CreatedStep == ASSUME StreamInv, Created \/ Adopted PROVE StreamInv'
<1>1. /\ UNCHANGED <<head, child, stream, pos, ctrl, data, reqs, cmds, sup, routed, cursor, events>>
      /\ UNCHANGED <<answer, earliest, persistFrom, shown>>
      /\ UNCHANGED <<unsaved, saved, stored, pass, verdict, passes, drops, restarts, takeovers>>
  BY DEF Created, Adopted, holder, socket, route, copies, log, passing, bounds
<1>2. call' = "none" /\ phase' \in {"run", GivenUp} /\ phase \in {"create", "adopt"}
  BY DEF Created, Adopted, Replied
<1>3. TaskTypes' /\ Ended'
  BY <1>1, <1>2 DEF GivenUp, StreamInv, Types, TaskTypes, Ended, Waiting, Phases, Ends
<1> QED BY <1>1, <1>3, QuietTypes DEF StreamInv, Types

(* The drain task copies output.                                           *)
LEMMA DrainOutputStep == ASSUME StreamInv, DrainOutput PROVE StreamInv'
<1>1. /\ UNCHANGED <<head, child, stream, pos, ctrl, data, reqs, cmds, sup, routed, cursor>>
      /\ UNCHANGED <<phase, call, answer, earliest, persistFrom>>
      /\ UNCHANGED <<saved, stored, pass, verdict, passes, drops, restarts, takeovers>>
  BY DEF DrainOutput, holder, socket, calling, passing, bounds
<1> DEFINE n == Head(events).chunk
           chunks == 1 .. head
           marks == 0 .. head
<1>2. n \in chunks /\ n \in marks /\ events' \in Seq(News)
  BY TakeEvent DEF DrainOutput, News, StreamInv, Types, HolderTypes
<1>3. /\ shown \in Seq(marks) /\ shown' = Append(shown, n)
      /\ unsaved \in Seq(chunks) /\ unsaved' \in {unsaved, Append(unsaved, n)}
  BY DEF DrainOutput, Persist, StreamInv, Types, TaskTypes, LogTypes
<1>4. shown' \in Seq(marks) /\ unsaved' \in Seq(chunks)
  <2> HIDE DEF n, chunks, marks
  <2>1. shown' \in Seq(marks)
    BY <1>2, <1>3
  <2>2. Append(unsaved, n) \in Seq(chunks)
    BY <1>2, <1>3
  <2> QED BY <1>3, <2>1, <2>2
<1>5. RouteTypes' /\ TaskTypes' /\ LogTypes'
  BY <1>1, <1>2, <1>4, QuietTypes DEF StreamInv, Types, RouteTypes, TaskTypes, LogTypes
<1> QED BY <1>1, <1>5, QuietTypes DEF StreamInv, Types

(* The drain task ends: on an exit, or because its route was removed,      *)
(* which both say that the child is dead; or because it was superseded.    *)
LEMMA DrainEndStep == ASSUME StreamInv, DrainEnd PROVE StreamInv'
<1>1. /\ UNCHANGED <<head, child, stream, pos, ctrl, data, reqs, cmds, sup, routed, cursor>>
      /\ UNCHANGED <<call, answer, earliest, persistFrom, shown>>
      /\ UNCHANGED <<unsaved, saved, stored, pass, verdict, passes, drops, restarts, takeovers>>
      /\ phase = "run" /\ events' = <<>>
  BY DEF DrainEnd, holder, socket, calling, copies, log, passing, bounds
<1>2. phase' = "cut" \/ (phase' = "done" /\ child # "alive")
  <2>1. CASE events # <<>> /\ Head(events).kind = "exited" /\ phase' = "done"
    <3>1. Head(events) \in News
      BY <2>1, TakeEvent
    <3> QED BY <2>1, <3>1 DEF News
  <2>2. CASE ~routed /\ phase' = "done"
    BY <1>1, <2>2 DEF StreamInv, Ended
  <2> QED BY <2>1, <2>2 DEF DrainEnd
<1>3. RouteTypes' /\ TaskTypes' /\ Ended'
  BY <1>1, <1>2 DEF StreamInv, Types, RouteTypes, TaskTypes, Ended, Phases, Ends
<1> QED BY <1>1, <1>3, QuietTypes DEF StreamInv, Types

(* The drain task resyncs.                                                 *)
LEMMA DrainEvictedStep == ASSUME StreamInv, DrainEvicted PROVE StreamInv'
<1>1. /\ UNCHANGED <<head, child, stream, pos, ctrl, data, reqs, sup, routed, cursor>>
      /\ UNCHANGED <<answer, earliest, persistFrom, shown>>
      /\ UNCHANGED <<unsaved, saved, stored, pass, verdict, passes, drops, restarts, takeovers>>
      /\ phase' = "resync" /\ phase = "run"
  BY DEF DrainEvicted, holder, socket, copies, log, passing, bounds
<1>2. events' \in Seq(News)
  BY TakeEvent DEF DrainEvicted
<1>3. cmds' \in Seq(Asked) /\ call' = "queued"
  <2> DEFINE from == IF routed THEN cursor ELSE 0
  <2>1. from \in 0 .. head /\ Attach("cursor", from)
    BY DEF DrainEvicted, StreamInv, Types, RouteTypes, HolderTypes
  <2> HIDE DEF from
  <2> QED BY <2>1, AttachTypes
<1>4. WireTypes' /\ RouteTypes' /\ TaskTypes' /\ Ended'
  BY <1>1, <1>2, <1>3, QuietTypes
     DEF StreamInv, Types, WireTypes, RouteTypes, TaskTypes, Ended, Phases, Waiting
<1> QED BY <1>1, <1>4, QuietTypes DEF StreamInv, Types

(* The resync is answered.                                                 *)
LEMMA ResyncStep == ASSUME StreamInv, Resync PROVE StreamInv'
<1>1. /\ UNCHANGED <<head, child, stream, pos, ctrl, data, reqs, sup, routed, events>>
      /\ UNCHANGED <<answer, persistFrom, shown>>
      /\ UNCHANGED <<unsaved, saved, stored, pass, verdict, passes, drops, restarts, takeovers>>
  BY DEF Resync, holder, socket, copies, log, passing, bounds
<1>2. phase \in {"resync", "resyncGap"} /\ phase' \in {"run", "resyncGap"}
  BY DEF Resync, Resynced, Replied
<1>3. cmds' \in Seq(Asked) /\ call' \in Waiting
  <2>1. CASE Attach("earliest", 0)
    BY <2>1, AttachTypes, AnswerAt DEF Waiting
  <2>2. CASE cmds' = cmds /\ call' = "none"
    BY <2>2 DEF StreamInv, Types, WireTypes, Waiting
  <2> QED BY <2>1, <2>2 DEF Resync, Resynced
<1>4. cursor' \in 0 .. head /\ earliest' \in 0 .. head
  BY AnswerAt DEF Resync, Resynced, StreamInv, Types, RouteTypes, TaskTypes
<1>5. WireTypes' /\ RouteTypes' /\ TaskTypes' /\ Ended'
  BY <1>1, <1>2, <1>3, <1>4, QuietTypes
     DEF StreamInv, Types, WireTypes, RouteTypes, TaskTypes, Ended, Phases
<1> QED BY <1>1, <1>5, QuietTypes DEF StreamInv, Types

(* Adoption meets a gap.                                                   *)
LEMMA AdoptGapStep == ASSUME StreamInv, AdoptGap PROVE StreamInv'
<1>1. /\ UNCHANGED <<head, child, stream, pos, ctrl, data, reqs, sup, routed, cursor, events>>
      /\ UNCHANGED <<answer, persistFrom>>
      /\ UNCHANGED <<unsaved, saved, stored, pass, verdict, passes, drops, restarts, takeovers>>
      /\ phase = "adopt" /\ phase' = "adoptGap" /\ earliest' = answer.at
  BY DEF AdoptGap, Replied, holder, socket, route, log, passing, bounds
<1>2. cmds' \in Seq(Asked) /\ call' = "queued"
  BY AttachTypes, AnswerAt DEF AdoptGap
<1>3. shown' \in Seq(0 .. head)
  <2> DEFINE marks == 0 .. head
  <2>1. shown \in Seq(marks) /\ 0 \in marks /\ shown' = Append(shown, 0)
    BY AnswerAt DEF AdoptGap, StreamInv, Types, TaskTypes
  <2> HIDE DEF marks
  <2>2. shown' \in Seq(marks)
    BY <2>1
  <2> QED BY <2>2 DEF marks
<1>4. WireTypes' /\ TaskTypes' /\ Ended'
  BY <1>1, <1>2, <1>3, QuietTypes, AnswerAt
     DEF StreamInv, Types, WireTypes, TaskTypes, Ended, Phases, Waiting
<1> QED BY <1>1, <1>4, QuietTypes DEF StreamInv, Types

(* Adoption goes on after the gap.                                         *)
LEMMA AdoptResyncedStep == ASSUME StreamInv, AdoptResynced PROVE StreamInv'
<1>1. /\ UNCHANGED <<head, child, stream, pos, ctrl, data, reqs, cmds, sup, routed, events>>
      /\ UNCHANGED <<answer, earliest, persistFrom, shown>>
      /\ UNCHANGED <<unsaved, saved, stored, pass, verdict, passes, drops, restarts, takeovers>>
      /\ phase = "adoptGap" /\ phase' = "run" /\ call' = "none" /\ cursor' = earliest
  BY DEF AdoptResynced, Replied, holder, socket, copies, log, passing, bounds
<1>2. RouteTypes' /\ TaskTypes' /\ Ended'
  BY <1>1, QuietTypes DEF StreamInv, Types, RouteTypes, TaskTypes, Ended, Phases, Waiting
<1> QED BY <1>1, <1>2, QuietTypes DEF StreamInv, Types

(* Adoption fails.                                                         *)
LEMMA AdoptRefusedStep == ASSUME StreamInv, AdoptRefused PROVE StreamInv'
<1>1. /\ UNCHANGED <<head, child, stream, pos, ctrl, data, reqs, cmds, sup, cursor>>
      /\ UNCHANGED <<answer, earliest, persistFrom, shown>>
      /\ UNCHANGED <<unsaved, saved, stored, pass, verdict, passes, drops, restarts, takeovers>>
      /\ phase' = GivenUp /\ call' = "none" /\ events' = <<>>
      /\ phase \in {"adopt", "adoptGap"}
      /\ routed' = routed \/ (routed' = FALSE /\ answer.kind = "unknown")
  BY DEF AdoptRefused, Replied, holder, socket, copies, log, passing, bounds
<1>2. routed' \in BOOLEAN
  BY <1>1 DEF StreamInv, Types, RouteTypes
<1>3. RouteTypes'
  BY <1>1, <1>2, QuietTypes DEF StreamInv, Types, RouteTypes
<1>4. TaskTypes' /\ Ended'
  BY <1>1 DEF GivenUp, StreamInv, Types, TaskTypes, Ended, Phases, Ends, Waiting
<1> QED BY <1>1, <1>3, <1>4, QuietTypes DEF StreamInv, Types

(* A reconcile pass begins.                                                *)
LEMMA PassStartStep == ASSUME StreamInv, PassStart PROVE StreamInv'
<1>1. /\ UNCHANGED <<head, child, stream, pos, ctrl, data, reqs, sup, routed, cursor, events>>
      /\ UNCHANGED <<phase, call, answer, earliest, persistFrom, shown>>
      /\ UNCHANGED <<unsaved, saved, stored, verdict, drops, restarts, takeovers>>
      /\ pass' = "queued" /\ passes > 0 /\ passes' = passes - 1
  BY DEF PassStart, holder, socket, route, calling, copies, log, bounds
<1>2. cmds' \in Seq(Asked)
  <2> DEFINE ask == Request("list", 0, "pass")
  <2>1. cmds \in Seq(Asked) /\ cmds' = Append(cmds, ask)
    BY DEF PassStart, StreamInv, Types, WireTypes
  <2>2. ask \in Asked
    BY DEF Request, Asked, Requests, Requesters, StreamInv, Types, HolderTypes
  <2> HIDE DEF ask
  <2> QED BY <2>1, <2>2
<1>3. passes' \in Nat
  BY <1>1 DEF StreamInv, Types, PassTypes
<1>4. WireTypes' /\ PassTypes'
  BY <1>1, <1>2, <1>3, QuietTypes DEF StreamInv, Types, WireTypes, PassTypes, Waiting
<1> QED BY <1>1, <1>4, QuietTypes DEF StreamInv, Types

(* A pass acts on its verdict for a live session.                          *)
LEMMA PassLiveStep == ASSUME StreamInv, PassLive PROVE StreamInv'
<1>1. /\ UNCHANGED <<head, child, stream, pos, ctrl, data, reqs, cmds, sup, cursor>>
      /\ UNCHANGED <<call, answer, earliest, persistFrom, shown>>
      /\ UNCHANGED <<unsaved, saved, stored, verdict, passes, drops, restarts, takeovers>>
      /\ pass' = "none" /\ phase # "boot"
      /\ phase' = phase \/ (phase' = "done" /\ phase = "cut" /\ verdict = "evicted")
  BY DEF PassLive, holder, socket, calling, copies, log, bounds
<1>2. events' \in Seq(News)
  <2>1. CASE verdict = "dead" /\ Deliver(Event("exited", 0))
    <3>1. Event("exited", 0) \in News
      BY <2>1 DEF StreamInv, Ended, Event, News, Events, Notices
    <3> QED BY <2>1, <3>1, DeliverTypes
  <2>2. CASE UNCHANGED events
    BY <2>2 DEF StreamInv, Types, RouteTypes
  <2> QED BY <2>1, <2>2 DEF PassLive
<1>3. routed' \in BOOLEAN /\ (routed' = routed \/ verdict = "evicted")
  BY DEF PassLive, StreamInv, Types, RouteTypes
<1>4. RouteTypes' /\ PassTypes' /\ Ended'
  BY <1>1, <1>2, <1>3, QuietTypes DEF StreamInv, Types, RouteTypes, PassTypes, Waiting, Ended
<1>5. TaskTypes'
  BY <1>1 DEF StreamInv, Types, TaskTypes, Phases, Ends
<1> QED BY <1>1, <1>4, <1>5, QuietTypes DEF StreamInv, Types

(* The start-up pass adopts.                                               *)
LEMMA AdoptStep == ASSUME StreamInv, Adopt PROVE StreamInv'
<1>1. /\ UNCHANGED <<head, child, stream, pos, ctrl, data, reqs, sup, events>>
      /\ UNCHANGED <<answer, earliest, unsaved, saved, stored, verdict, passes, drops, restarts, takeovers>>
      /\ pass' = "none" /\ phase' = "adopt" /\ routed' = TRUE /\ cursor' = stored
      /\ persistFrom' = stored /\ shown' = saved
  BY DEF Adopt, holder, socket, log, bounds
<1>2. cmds' \in Seq(Asked) /\ call' = "queued"
  BY AttachTypes DEF Adopt, StreamInv, Types, LogTypes
<1>3. shown' \in Seq(0 .. head)
  <2>1. 1 .. head \subseteq 0 .. head
    BY DEF StreamInv, Types, HolderTypes
  <2> QED BY <1>1, <2>1, SeqWider DEF StreamInv, Types, LogTypes
<1>4. RouteTypes' /\ PassTypes' /\ Ended'
  BY <1>1, QuietTypes DEF StreamInv, Types, RouteTypes, PassTypes, LogTypes, Waiting, Ended
<1>5. WireTypes'
  BY <1>1, <1>2, QuietTypes DEF StreamInv, Types, WireTypes
<1>6. stored \in Nat
  BY DEF StreamInv, Types, LogTypes, HolderTypes
<1>7. TaskTypes'
  BY <1>1, <1>2, <1>3, <1>6 DEF StreamInv, Types, TaskTypes, Waiting, Phases
<1> QED BY <1>1, <1>4, <1>5, <1>7, QuietTypes DEF StreamInv, Types

(* The start-up pass settles a session that is not alive.                  *)
LEMMA SettleStep == ASSUME StreamInv, Settle PROVE StreamInv'
<1>1. /\ UNCHANGED <<head, child, stream, pos, ctrl, data, reqs, cmds, sup, routed, cursor, events>>
      /\ UNCHANGED <<call, answer, earliest, persistFrom, shown>>
      /\ UNCHANGED <<unsaved, saved, stored, verdict, passes, drops, restarts, takeovers>>
      /\ pass' = "none" /\ phase' \in {"done", "unlisted"}
      /\ phase' = "done" => verdict \notin {"alive", "failed"}
  BY DEF Settle, holder, socket, route, calling, copies, log, bounds
<1>2. TaskTypes' /\ PassTypes' /\ Ended'
  BY <1>1, QuietTypes
     DEF StreamInv, Types, TaskTypes, PassTypes, Waiting, Phases, Ends, Ended, Verdicts
<1> QED BY <1>1, <1>2, QuietTypes DEF StreamInv, Types

(* The event writer writes, or fails to.                                   *)
LEMMA SaveStep == ASSUME StreamInv, Save \/ SaveFail PROVE StreamInv'
<1>1. /\ UNCHANGED <<head, child, stream, pos, ctrl, data, reqs, cmds, sup, routed, cursor, events>>
      /\ UNCHANGED <<phase, call, answer, earliest, persistFrom, shown>>
      /\ UNCHANGED <<pass, verdict, passes, drops, restarts, takeovers>>
  BY DEF Save, SaveFail, holder, socket, route, calling, copies, passing, bounds
<1> DEFINE chunks == 1 .. head
<1>2. /\ unsaved \in Seq(chunks) /\ unsaved # <<>> /\ unsaved' = Tail(unsaved)
      /\ saved \in Seq(chunks) /\ saved' \in {saved, Append(saved, Head(unsaved))}
  BY DEF Save, SaveFail, StreamInv, Types, LogTypes
<1>3. unsaved' \in Seq(chunks) /\ saved' \in Seq(chunks) /\ Head(unsaved) \in chunks
  <2> HIDE DEF chunks
  <2> QED BY <1>2
<1>4. stored' \in 0 .. head
  BY <1>3 DEF Save, SaveFail, StreamInv, Types, LogTypes, HolderTypes
<1>5. LogTypes'
  BY <1>1, <1>3, <1>4 DEF LogTypes
<1> QED BY <1>1, <1>5, QuietTypes DEF StreamInv, Types

(* The daemon dies and starts again.                                       *)
LEMMA RestartStep == ASSUME StreamInv, Restart PROVE StreamInv'
<1>1. /\ UNCHANGED <<head, child, pos, cursor, answer, earliest, persistFrom, saved, stored>>
      /\ UNCHANGED <<verdict, drops, takeovers>>
      /\ restarts' = restarts + 1
      /\ stream' = "none" /\ ctrl' = <<>> /\ data' = <<>> /\ reqs' = <<>>
      /\ sup' = "running" /\ cmds' = <<Request("list", 0, "pass")>>
      /\ routed' = FALSE /\ events' = <<>>
      /\ phase' = "boot" /\ call' = "none" /\ unsaved' = <<>>
      /\ pass' = "queued" /\ passes' = 0 /\ shown' = <<>>
  BY DEF Restart, holder
<1>2. Request("list", 0, "pass") \in Asked
  BY DEF Request, Asked, Requests, Requesters, StreamInv, Types, HolderTypes
<1>3. cmds' \in Seq(Asked)
  BY <1>1, <1>2
<1>4. HolderTypes' /\ WireTypes'
  BY <1>1, <1>3, QuietTypes DEF StreamInv, Types, HolderTypes, WireTypes
<1>5. RouteTypes' /\ LogTypes'
  <2>1. RouteTypes'
    <3>1. routed' \in BOOLEAN
      BY <1>1
    <3>2. sup' \in {"running", "dial", "reattach", "earliest"} /\ cursor' \in 0 .. head'
      BY <1>1 DEF StreamInv, Types, RouteTypes
    <3> QED BY <1>1, <3>1, <3>2 DEF RouteTypes
  <2>2. LogTypes'
    BY <1>1 DEF StreamInv, Types, LogTypes
  <2> QED BY <2>1, <2>2
<1>7. TaskTypes'
  BY <1>1 DEF StreamInv, Types, TaskTypes, Waiting, Phases
<1>6. PassTypes' /\ Ended'
  BY <1>1 DEF StreamInv, Types, PassTypes, Waiting, Ended
<1> QED BY <1>4, <1>5, <1>6, <1>7 DEF StreamInv, Types

(* It holds initially.                                                     *)
LEMMA StreamInvInit == Init => StreamInv
<1> SUFFICES ASSUME Init PROVE StreamInv
  OBVIOUS
<1>1. Request("earliest", 0, "task") \in Asked
  BY DEF Init, Request, Asked, Requests, Requesters
<1>2. cmds \in Seq(Asked)
  BY <1>1 DEF Init
<1>3. HolderTypes /\ WireTypes
  BY <1>2 DEF Init, HolderTypes, WireTypes, States
<1>4. RouteTypes /\ LogTypes /\ PassTypes /\ Ended
  BY DEF Init, RouteTypes, LogTypes, PassTypes, Ended, Waiting, Verdicts, Failed
<1>5. TaskTypes
  BY FailedTypes DEF Init, TaskTypes, Phases, Waiting
<1> QED BY <1>3, <1>4, <1>5 DEF StreamInv, Types

(* Every step keeps it.                                                    *)
LEMMA StreamInvStep == StreamInv /\ [Next]_vars => StreamInv'
<1> SUFFICES ASSUME StreamInv, [Next]_vars PROVE StreamInv'
  OBVIOUS
<1>1. CASE Push \/ Exit \/ Evict \/ TakeOver
  BY <1>1, WorldStep, TakeOverStep
<1>2. CASE Holder
  BY <1>2, HandleAttachStep, HandleListStep, StreamerStep DEF Holder
<1>3. CASE Client \/ Reconnect \/ Drop \/ Timeout
  BY <1>3, ReadOutputStep, ReadNoticeStep, ReadReplyStep, ReattachReplyStep,
     SendCommandStep, ReconnectStep, DropStep, TimeoutStep DEF Client
<1>4. CASE Task
  BY <1>4, CreatedStep, DrainOutputStep, DrainEndStep, DrainEvictedStep, ResyncStep,
     AdoptGapStep, AdoptResyncedStep, AdoptRefusedStep DEF Task
<1>5. CASE Pass \/ Save \/ SaveFail \/ Restart
  BY <1>5, PassStartStep, PassLiveStep, AdoptStep, SettleStep, SaveStep, RestartStep DEF Pass
<1>6. CASE UNCHANGED vars
  BY <1>6, QuietTypes DEF vars, holder, socket, route, calling, copies, log, passing, bounds, StreamInv, Types
<1> QED
  BY <1>1, <1>2, <1>3, <1>4, <1>5, <1>6 DEF Next

(* It always holds.                                                        *)
LEMMA StreamInvAlways == Spec => []StreamInv
BY StreamInvInit, StreamInvStep, PTL DEF Spec

(* Every state of the daemon's side of a session is well typed, for any    *)
(* sizes, any number of lost connections, restarts and failed batches, at  *)
(* any time.                                                               *)
THEOREM StreamTypes == Spec => []TypeOK
<1>1. StreamInv => TypeOK
  <2> SUFFICES ASSUME StreamInv PROVE TypeOK
    OBVIOUS
  <2>1. \A i \in DOMAIN ctrl : ctrl[i].to \in Requesters /\ ctrl[i].at \in Nat
    <3>1. DOMAIN ctrl = 1 .. Len(ctrl) /\ \A i \in 1 .. Len(ctrl) : ctrl[i] \in Frames
      BY DEF StreamInv, Types, WireTypes
    <3> QED BY <3>1 DEF Frames
  <2>2. reqs \in Seq(Requests) /\ cmds \in Seq(Requests) /\ events \in Seq(Events)
    <3>1. Asked \subseteq Requests /\ News \subseteq Events
      BY DEF Asked, News
    <3> QED BY <3>1, SeqWider DEF StreamInv, Types, WireTypes, RouteTypes
  <2> QED BY <2>1, <2>2
          DEF StreamInv, Types, HolderTypes, WireTypes, RouteTypes, TaskTypes, LogTypes, PassTypes, States, TypeOK
<1> QED BY <1>1, StreamInvAlways, PTL

(* A session is ended for good only if its child is dead, whatever         *)
(* replies, timeouts and notices the passes and the drain task see, in     *)
(* whatever order (sidecar.rs, drain_loop; session_manager,                *)
(* reconcile_live_ids): what they act on may be old, but a child does not  *)
(* come back.                                                              *)
THEOREM OnlyDeadEnd == Spec => []EndedOnlyIfDead
<1>1. StreamInv => EndedOnlyIfDead
  BY DEF StreamInv, Ended, EndedOnlyIfDead
<1> QED BY <1>1, StreamInvAlways, PTL

(***************************************************************************)
(* SidecarStream: the flow of output.  The daemon's copy, the events that  *)
(* wait for the drain task, the frames on the connection and the holder's  *)
(* streamer form one run of chunks, and an attach continues it.            *)
(***************************************************************************)

(* No batch of the event writer fails, and connections are lost only while *)
(* the session runs or is over.                                            *)
Steady == ~SaveFails /\ Exposed \cap {"create", "boot", "adopt"} = {}

(* A session that may still show output; one whose route is served.        *)
Live == phase \in {"create", "adopt", "run"}
Fed  == Live /\ routed

(* The ring has what the next attach will ask for.                         *)
Covered ==
  /\ Fed => tail <= cursor
  /\ phase = "boot" => tail <= stored

(* Attaches under way in a queue of requests, and what they ask for.       *)
From(m) == IF m.kind = "earliest" THEN 0 ELSE m.from
Asks(q) == \E i \in DOMAIN q : q[i].kind # "list"
Single(q) == \A i, j \in DOMAIN q : q[i].kind # "list" /\ q[j].kind # "list" => i = j
Seeks(q, n) == \A i \in DOMAIN q : q[i].kind # "list" => From(q[i]) = n

(* No loss of output is announced; a reply is due to the session's task.   *)
Clean(q) == \A i \in DOMAIN q : q[i].kind \notin {"gap", "backpressure"}
Owed(q) == \E i \in DOMAIN q : q[i].to = "task"

(* Chunks n + 1, n + 2, ... in order; events that are output, likewise.    *)
Runs(s, n) == \A i \in DOMAIN s : s[i] = n + i
Plain(q, n) == \A j \in 1 .. n : q[j].kind = "output"
Follows(q, n) == \A i \in DOMAIN q : Plain(q, i) => q[i].chunk = n + i

(* Nothing is cut off from the output of a session that is fed.            *)
Uncut ==
  /\ phase \notin {"resync", "resyncGap", "adoptGap"}
  /\ phase \in {"create", "adopt"} => routed /\ (call = "answered" => answer.kind # "gap")
  /\ Fed => Clean(ctrl)
  /\ Live => Clean(events)

(* What a connection that is gone leaves.                                  *)
Linked ==
  /\ phase \in {"create", "boot", "adopt"} => sup = "running"
  /\ sup = "dial" => stream = "none" /\ ctrl = <<>> /\ data = <<>> /\ reqs = <<>>

(* A daemon that has just started has asked for nothing yet.               *)
Booting ==
  phase = "boot" =>
    /\ ~routed /\ events = <<>> /\ stream = "none" /\ data = <<>>
    /\ ~Asks(cmds) /\ ~Asks(reqs) /\ ~Owed(ctrl) /\ Clean(ctrl)
    /\ unsaved = <<>> /\ shown = <<>>

(* The event log, and what is queued for it, run on from each other.       *)
Cold == stored = Len(saved) /\ Runs(saved, 0) /\ Runs(unsaved, stored)

(* The copy runs up to what is queued for the event log.                   *)
Copied ==
  /\ Runs(shown, 0)
  /\ \/ Len(shown) = stored + Len(unsaved)
     \/ shown = <<>> /\ unsaved = <<>> /\ ~Live
  /\ Live => persistFrom <= Len(shown)

(* From the copy through the events to the route's cursor, and from there  *)
(* through the frames to the streamer, no chunk is missing and none comes  *)
(* twice.                                                                  *)
Chained ==
  Live =>
    /\ Follows(events, Len(shown))
    /\ routed =>
         /\ Plain(events, Len(events)) => cursor = Len(shown) + Len(events)
         /\ Runs(data, cursor)
         /\ stream # "none" => pos = cursor + Len(data)

(* At most one attach is under way; none is once it is answered.           *)
Once ==
  Fed =>
    /\ Single(cmds) /\ Single(reqs) /\ ~(Asks(cmds) /\ Asks(reqs))
    /\ Owed(ctrl) => ~Asks(cmds) /\ ~Asks(reqs)

(* It asks for what follows the cursor, and nothing else is in flight.     *)
Exact ==
  Fed =>
    /\ Seeks(cmds, cursor) /\ Seeks(reqs, cursor)
    /\ Asks(cmds) \/ Asks(reqs) => stream = "none" /\ data = <<>>

(* Success means that the attach was carried out.                          *)
Got ==
  /\ phase \in {"create", "adopt"} /\ call = "answered" /\ answer.kind # "failed" =>
       ~Asks(cmds) /\ ~Asks(reqs)
  /\ phase = "run" => ~Asks(cmds)

(* The inductive invariant of the flow.                                    *)
FlowInv == Uncut /\ Linked /\ Booting /\ Cold /\ Copied /\ Chained /\ Once /\ Exact /\ Got

(* What an appended element does to a sequence.                            *)
LEMMA Added ==
  ASSUME NEW S, NEW q \in Seq(S), NEW m \in S
  PROVE  /\ DOMAIN q = 1 .. Len(q) /\ Len(q) \in Nat
         /\ Append(q, m) \in Seq(S) /\ Len(Append(q, m)) = Len(q) + 1
         /\ DOMAIN Append(q, m) = 1 .. Len(q) + 1
         /\ \A i \in 1 .. Len(q) : Append(q, m)[i] = q[i]
         /\ Append(q, m)[Len(q) + 1] = m
OBVIOUS

(* What is left of a sequence without its head.                            *)
LEMMA Taken ==
  ASSUME NEW S, NEW q \in Seq(S), q # <<>>
  PROVE  /\ DOMAIN q = 1 .. Len(q) /\ Len(q) \in Nat \ {0} /\ Head(q) = q[1]
         /\ Tail(q) \in Seq(S) /\ Len(Tail(q)) = Len(q) - 1
         /\ DOMAIN Tail(q) = 1 .. Len(q) - 1
         /\ \A i \in 1 .. Len(q) - 1 : Tail(q)[i] = q[i + 1]
OBVIOUS

(* A request is queued.                                                    *)
LEMMA AskAdded ==
  ASSUME NEW S, NEW q \in Seq(S), NEW m \in S
  PROVE  /\ Asks(Append(q, m)) <=> Asks(q) \/ m.kind # "list"
         /\ Single(q) /\ (m.kind = "list" \/ ~Asks(q)) => Single(Append(q, m))
         /\ \A n : Seeks(q, n) /\ (m.kind # "list" => From(m) = n) => Seeks(Append(q, m), n)
<1> DEFINE r == Append(q, m)
<1>1. /\ DOMAIN q = 1 .. Len(q) /\ Len(q) \in Nat /\ DOMAIN r = 1 .. Len(q) + 1
      /\ \A i \in 1 .. Len(q) : r[i] = q[i]
      /\ r[Len(q) + 1] = m
  BY Added
<1> HIDE DEF r
<1>2. Asks(r) <=> Asks(q) \/ m.kind # "list"
  <2>1. Asks(q) => Asks(r)
    BY <1>1 DEF Asks
  <2>2. m.kind # "list" => Asks(r)
    BY <1>1 DEF Asks
  <2>3. Asks(r) => Asks(q) \/ m.kind # "list"
    BY <1>1 DEF Asks
  <2> QED BY <2>1, <2>2, <2>3
<1>3. Single(q) /\ (m.kind = "list" \/ ~Asks(q)) => Single(r)
  BY <1>1 DEF Single, Asks
<1>4. \A n : Seeks(q, n) /\ (m.kind # "list" => From(m) = n) => Seeks(r, n)
  BY <1>1 DEF Seeks
<1> QED BY <1>2, <1>3, <1>4 DEF r

(* A request is taken.                                                     *)
LEMMA AskTaken ==
  ASSUME NEW S, NEW q \in Seq(S), q # <<>>
  PROVE  /\ Asks(Tail(q)) => Asks(q)
         /\ Head(q).kind # "list" => Asks(q)
         /\ Head(q).kind # "list" /\ Single(q) => ~Asks(Tail(q))
         /\ Single(q) => Single(Tail(q))
         /\ \A n : Seeks(q, n) => Seeks(Tail(q), n) /\ (Head(q).kind # "list" => From(Head(q)) = n)
<1> DEFINE r == Tail(q)
<1>1. /\ DOMAIN q = 1 .. Len(q) /\ Len(q) \in Nat \ {0} /\ Head(q) = q[1]
      /\ DOMAIN r = 1 .. Len(q) - 1
      /\ \A i \in 1 .. Len(q) - 1 : r[i] = q[i + 1]
  BY Taken
<1> HIDE DEF r
<1>2. \A i \in DOMAIN r : i + 1 \in DOMAIN q /\ i + 1 # 1 /\ r[i] = q[i + 1]
  BY <1>1
<1>3. 1 \in DOMAIN q
  BY <1>1
<1>4. Asks(r) => Asks(q)
  BY <1>2 DEF Asks
<1>5. Head(q).kind # "list" => Asks(q)
  BY <1>1, <1>3 DEF Asks
<1>6. Head(q).kind # "list" /\ Single(q) => ~Asks(r)
  BY <1>1, <1>2, <1>3 DEF Asks, Single
<1>7. Single(q) => Single(r)
  BY <1>1, <1>2 DEF Single
<1>8. \A n : Seeks(q, n) => Seeks(r, n) /\ (Head(q).kind # "list" => From(Head(q)) = n)
  BY <1>1, <1>2, <1>3 DEF Seeks
<1> QED BY <1>4, <1>5, <1>6, <1>7, <1>8 DEF r

(* Queues of none and of one.                                              *)
LEMMA AskFew ==
  /\ ~Asks(<<>>) /\ Single(<<>>) /\ ~Owed(<<>>) /\ Clean(<<>>)
  /\ \A n : Seeks(<<>>, n) /\ Runs(<<>>, n) /\ Follows(<<>>, n)
  /\ \A m : /\ Asks(<<m>>) <=> m.kind # "list"
            /\ Single(<<m>>)
            /\ \A n : Seeks(<<m>>, n) <=> (m.kind # "list" => From(m) = n)
BY DEF Asks, Single, Seeks, Runs, Follows, Owed, Clean

(* A timeout takes no request back.                                        *)
LEMMA AskForgotten ==
  ASSUME NEW q \in Seq(Asked), NEW who
  PROVE  /\ Asks(Forget(q, who)) <=> Asks(q)
         /\ Single(q) => Single(Forget(q, who))
         /\ \A n : Seeks(q, n) => Seeks(Forget(q, who), n)
<1> DEFINE r == Forget(q, who)
<1>1. DOMAIN r = DOMAIN q
  BY DEF Forget
<1>2. \A i \in DOMAIN q : r[i].kind = q[i].kind /\ r[i].from = q[i].from
  BY DEF Forget, Asked, Requests
<1> HIDE DEF r
<1>3. Asks(r) <=> Asks(q)
  BY <1>1, <1>2 DEF Asks
<1>4. Single(q) => Single(r)
  BY <1>1, <1>2 DEF Single
<1>5. \A n : Seeks(q, n) => Seeks(r, n)
  BY <1>1, <1>2 DEF Seeks, From
<1> QED BY <1>3, <1>4, <1>5 DEF r

(* Nor a frame.                                                            *)
LEMMA FrameForgotten ==
  ASSUME NEW q \in Seq(Frames), NEW who
  PROVE  /\ Clean(q) => Clean(Forget(q, who))
         /\ Owed(Forget(q, who)) => Owed(q)
<1> DEFINE r == Forget(q, who)
<1>1. DOMAIN r = DOMAIN q
  BY DEF Forget
<1>2. \A i \in DOMAIN q : r[i].kind = q[i].kind /\ (r[i].to = "task" => q[i].to = "task")
  BY DEF Forget, Frames
<1> HIDE DEF r
<1> QED BY <1>1, <1>2 DEF Clean, Owed, r

(* A frame, or an event, is added.                                         *)
LEMMA FrameAdded ==
  ASSUME NEW S, NEW q \in Seq(S), NEW m \in S
  PROVE  /\ Clean(q) /\ m.kind \notin {"gap", "backpressure"} => Clean(Append(q, m))
         /\ Owed(Append(q, m)) => Owed(q) \/ m.to = "task"
<1> DEFINE r == Append(q, m)
<1>1. /\ DOMAIN q = 1 .. Len(q) /\ Len(q) \in Nat /\ DOMAIN r = 1 .. Len(q) + 1
      /\ \A i \in 1 .. Len(q) : r[i] = q[i]
      /\ r[Len(q) + 1] = m
  BY Added
<1> HIDE DEF r
<1>2. Clean(q) /\ m.kind \notin {"gap", "backpressure"} => Clean(r)
  BY <1>1 DEF Clean
<1>3. Owed(r) => Owed(q) \/ m.to = "task"
  BY <1>1 DEF Owed
<1> QED BY <1>2, <1>3 DEF r

(* A frame, or an event, is taken.                                         *)
LEMMA FrameTaken ==
  ASSUME NEW S, NEW q \in Seq(S), q # <<>>
  PROVE  /\ Clean(q) => Clean(Tail(q)) /\ Head(q).kind \notin {"gap", "backpressure"}
         /\ Owed(Tail(q)) => Owed(q)
         /\ Head(q).to = "task" => Owed(q)
<1> DEFINE r == Tail(q)
<1>1. /\ DOMAIN q = 1 .. Len(q) /\ Len(q) \in Nat \ {0} /\ Head(q) = q[1]
      /\ DOMAIN r = 1 .. Len(q) - 1
      /\ \A i \in 1 .. Len(q) - 1 : r[i] = q[i + 1]
  BY Taken
<1> HIDE DEF r
<1>2. 1 \in DOMAIN q /\ \A i \in DOMAIN r : i + 1 \in DOMAIN q /\ r[i] = q[i + 1]
  BY <1>1
<1>3. Clean(q) => Clean(r) /\ Head(q).kind \notin {"gap", "backpressure"}
  BY <1>1, <1>2 DEF Clean
<1>4. (Owed(r) => Owed(q)) /\ (Head(q).to = "task" => Owed(q))
  BY <1>1, <1>2 DEF Owed
<1> QED BY <1>3, <1>4 DEF r

(* A run of chunks grows at its end.                                       *)
LEMMA RunAdded ==
  ASSUME NEW s \in Seq(Nat), NEW n \in Nat, NEW m \in Nat,
         Runs(s, n), m = n + Len(s) + 1
  PROVE  Runs(Append(s, m), n)
<1> DEFINE r == Append(s, m)
<1>1. /\ DOMAIN s = 1 .. Len(s) /\ Len(s) \in Nat /\ DOMAIN r = 1 .. Len(s) + 1
      /\ \A i \in 1 .. Len(s) : r[i] = s[i]
      /\ r[Len(s) + 1] = m
  BY Added
<1> HIDE DEF r
<1>2. Runs(r, n)
  BY SMTT(30), <1>1 DEF Runs
<1> QED BY <1>2 DEF r

(* A run of chunks loses its first.                                        *)
LEMMA RunTaken ==
  ASSUME NEW s \in Seq(Nat), NEW n \in Nat, Runs(s, n), s # <<>>
  PROVE  Head(s) = n + 1 /\ Runs(Tail(s), n + 1)
<1> DEFINE r == Tail(s)
<1>1. /\ DOMAIN s = 1 .. Len(s) /\ Len(s) \in Nat \ {0} /\ Head(s) = s[1]
      /\ DOMAIN r = 1 .. Len(s) - 1
      /\ \A i \in 1 .. Len(s) - 1 : r[i] = s[i + 1]
  BY Taken
<1> HIDE DEF r
<1>2. \A i \in DOMAIN r : i + 1 \in DOMAIN s /\ i \in Nat /\ r[i] = s[i + 1]
  BY <1>1
<1>3. Head(s) = n + 1 /\ Runs(r, n + 1)
  BY <1>1, <1>2 DEF Runs
<1> QED BY <1>3 DEF r

(* An event joins those that wait for the drain task.                      *)
LEMMA NewsAdded ==
  ASSUME NEW q \in Seq(News), NEW e \in News, NEW n \in Nat, Follows(q, n)
  PROVE  /\ (Plain(q, Len(q)) /\ e.kind = "output" => e.chunk = n + Len(q) + 1)
            => Follows(Append(q, e), n)
         /\ Plain(Append(q, e), Len(q) + 1) => Plain(q, Len(q)) /\ e.kind = "output"
<1> DEFINE r == Append(q, e)
<1>1. /\ DOMAIN q = 1 .. Len(q) /\ Len(q) \in Nat /\ DOMAIN r = 1 .. Len(q) + 1
      /\ \A i \in 1 .. Len(q) : r[i] = q[i]
      /\ r[Len(q) + 1] = e
  BY Added
<1> HIDE DEF r
<1>2. Plain(r, Len(q) + 1) => Plain(q, Len(q)) /\ e.kind = "output"
  <2> SUFFICES ASSUME Plain(r, Len(q) + 1) PROVE Plain(q, Len(q)) /\ e.kind = "output"
    OBVIOUS
  <2>1. \A j \in 1 .. Len(q) : j \in 1 .. Len(q) + 1 /\ r[j] = q[j]
    BY <1>1
  <2>2. Len(q) + 1 \in 1 .. Len(q) + 1
    BY <1>1
  <2> QED BY <1>1, <2>1, <2>2 DEF Plain
<1>3. ASSUME Plain(q, Len(q)) /\ e.kind = "output" => e.chunk = n + Len(q) + 1,
             NEW i \in DOMAIN r, Plain(r, i)
      PROVE  r[i].chunk = n + i
  <2>1. CASE i = Len(q) + 1
    BY <1>1, <1>2, <1>3, <2>1
  <2>2. CASE i # Len(q) + 1
    <3>1. i \in DOMAIN q /\ r[i] = q[i] /\ \A j \in 1 .. i : j \in 1 .. Len(q) /\ r[j] = q[j]
      BY <1>1, <2>2
    <3>2. Plain(q, i)
      BY <1>3, <3>1 DEF Plain
    <3> QED BY <3>1, <3>2 DEF Follows
  <2> QED BY <2>1, <2>2
<1> QED BY <1>2, <1>3 DEF r, Follows

(* The drain task takes the output that comes next.                        *)
LEMMA NewsTaken ==
  ASSUME NEW q \in Seq(News), q # <<>>, Head(q).kind = "output", NEW n \in Nat, Follows(q, n)
  PROVE  /\ Head(q).chunk = n + 1
         /\ Follows(Tail(q), n + 1)
         /\ Plain(Tail(q), Len(Tail(q))) => Plain(q, Len(q))
<1> DEFINE r == Tail(q)
<1>1. /\ DOMAIN q = 1 .. Len(q) /\ Len(q) \in Nat \ {0} /\ Head(q) = q[1]
      /\ DOMAIN r = 1 .. Len(q) - 1 /\ Len(r) = Len(q) - 1
      /\ \A i \in 1 .. Len(q) - 1 : r[i] = q[i + 1]
  BY Taken
<1> HIDE DEF r
<1>2. ASSUME NEW i \in 0 .. Len(q) - 1, Plain(r, i) PROVE Plain(q, i + 1)
  <2> SUFFICES ASSUME NEW j \in 1 .. i + 1 PROVE q[j].kind = "output"
    BY DEF Plain
  <2>1. CASE j = 1
    BY <1>1, <2>1
  <2>2. CASE j # 1
    <3>1. j - 1 \in 1 .. i /\ j - 1 \in 1 .. Len(q) - 1 /\ (j - 1) + 1 = j
      BY <1>1, <2>2
    <3> QED BY <1>1, <1>2, <3>1 DEF Plain
  <2> QED BY <2>1, <2>2
<1>3. Head(q).chunk = n + 1
  <2>1. Plain(q, 1) /\ 1 \in DOMAIN q
    BY <1>1 DEF Plain
  <2> QED BY <1>1, <2>1 DEF Follows
<1>4. Follows(r, n + 1)
  <2> SUFFICES ASSUME NEW i \in DOMAIN r, Plain(r, i) PROVE r[i].chunk = n + 1 + i
    BY DEF Follows
  <2>1. i \in 0 .. Len(q) - 1 /\ i + 1 \in DOMAIN q /\ r[i] = q[i + 1]
    BY <1>1
  <2>2. q[i + 1].chunk = n + (i + 1)
    BY <1>2, <2>1 DEF Follows
  <2> QED BY <2>1, <2>2
<1>5. Plain(r, Len(r)) => Plain(q, Len(q))
  <2>1. Len(r) \in 0 .. Len(q) - 1 /\ Len(r) + 1 = Len(q)
    BY <1>1
  <2> QED BY <1>2, <2>1
<1> QED BY <1>3, <1>4, <1>5 DEF r

(* Each part holds on while what it speaks of stays.                       *)
LEMMA FlowQuiet ==
  ASSUME FlowInv
  PROVE  /\ UNCHANGED <<phase, routed, call, answer, ctrl, events>> => Uncut'
         /\ UNCHANGED <<phase, sup, stream, ctrl, data, reqs>> => Linked'
         /\ UNCHANGED <<phase, routed, events, stream, data, cmds, reqs, ctrl, unsaved, shown>> => Booting'
         /\ UNCHANGED <<stored, saved, unsaved>> => Cold'
         /\ UNCHANGED <<shown, stored, unsaved, phase, persistFrom>> => Copied'
         /\ UNCHANGED <<phase, events, shown, routed, cursor, data, stream, pos>> => Chained'
         /\ UNCHANGED <<phase, routed, cmds, reqs, ctrl>> => Once'
         /\ UNCHANGED <<phase, routed, cmds, reqs, cursor, stream, data>> => Exact'
         /\ UNCHANGED <<phase, call, answer, cmds, reqs>> => Got'
BY DEF FlowInv, Uncut, Linked, Booting, Cold, Copied, Chained, Once, Exact, Got, Live, Fed

(* Where everybody is in the stream.                                       *)
LEMMA Places ==
  ASSUME StreamInv
  PROVE  head \in Nat /\ tail \in 0 .. head /\ pos \in 0 .. head /\ cursor \in 0 .. head
BY SidecarAssumption DEF StreamInv, Types, HolderTypes, RouteTypes, tail

(* The child.                                                              *)
LEMMA WorldFlows == ASSUME Steady, StreamInv, FlowInv, Push \/ Exit \/ Evict PROVE FlowInv'
<1>1. /\ UNCHANGED <<phase, answer, ctrl, events, sup, stream, data, reqs, routed, cmds, unsaved, shown>>
      /\ UNCHANGED <<stored, saved, persistFrom, cursor, pos, call>>
  BY DEF Push, Exit, Evict, socket, route, calling, copies, log
<1> QED BY <1>1, FlowQuiet DEF FlowInv

(* The attach under way is the only one and asks for what follows the      *)
(* route's cursor; the ring still has it, and nothing else is in flight:   *)
(* the new streamer goes on exactly there.                                 *)
LEMMA HandleAttachFlows == ASSUME Steady, StreamInv, FlowInv, Covered, HandleAttach PROVE FlowInv'
<1> DEFINE m == Head(reqs)
           start == IF m.kind = "earliest" THEN tail ELSE m.from
<1>1. /\ UNCHANGED <<head, phase, answer, events, sup, data, routed, cmds, unsaved, shown>>
      /\ UNCHANGED <<stored, saved, persistFrom, cursor, call>>
      /\ reqs # <<>> /\ reqs' = Tail(reqs) /\ m.kind # "list"
  BY DEF HandleAttach, holder, route, calling, copies, log
<1>2. m \in Asked /\ m.to \in Requesters /\ m.from \in Nat
  BY <1>1 DEF StreamInv, Types, WireTypes, Asked, Requests
<1>3. Asks(reqs) /\ (Single(reqs) => ~Asks(reqs')) /\ (Seeks(reqs, cursor) => From(m) = cursor)
  BY <1>1, AskTaken DEF StreamInv, Types, WireTypes
<1>4. phase # "boot" /\ sup # "dial"
  BY <1>1, <1>3 DEF FlowInv, Booting, Linked
<1>5. Fed => start = cursor /\ data = <<>> /\ ~(start < tail)
  <2>1. SUFFICES ASSUME Fed PROVE start = cursor /\ data = <<>> /\ ~(start < tail)
    OBVIOUS
  <2>2. From(m) = cursor /\ tail <= cursor /\ data = <<>>
    BY <1>3, <2>1 DEF FlowInv, Exact, Covered
  <2> QED BY <1>2, <2>2, Places DEF From
<1>6. Fed => Clean(ctrl')
  <2> SUFFICES ASSUME Fed PROVE Clean(ctrl')
    OBVIOUS
  <2>1. PICK kind \in {"attached", "unknown"}, at \in 0 .. head :
               /\ kind = "unknown" => child # "alive"
               /\ ctrl' = Append(ctrl, Reply(kind, at, m.to))
    <3>1. 0 \in 0 .. head /\ head \in 0 .. head
      BY Places
    <3>2. \/ child # "alive" /\ ctrl' = Append(ctrl, Reply("unknown", 0, m.to))
          \/ ctrl' = Append(ctrl, Reply("attached", head, m.to))
      BY <1>5 DEF HandleAttach
    <3> QED BY <3>1, <3>2
  <2> DEFINE r == Reply(kind, at, m.to)
  <2>2. r \in Frames /\ r.kind \notin {"gap", "backpressure"} /\ ctrl' = Append(ctrl, r)
    <3>1. m.to # "pass"
      BY <1>1, <1>2 DEF Asked, Requests
    <3> QED BY <1>2, <2>1, <3>1, Places DEF Reply, Frames, Kinds, Notices
  <2> HIDE DEF r
  <2> QED BY <2>2, FrameAdded DEF StreamInv, Types, WireTypes, FlowInv, Uncut
<1>7. Fed' = Fed /\ Live' = Live
  BY <1>1 DEF Live, Fed
<1>8. Uncut' /\ Linked' /\ Booting'
  BY <1>1, <1>4, <1>6, <1>7 DEF FlowInv, Uncut, Linked, Booting
<1>9. Cold' /\ Copied'
  BY <1>1, FlowQuiet
<1>10. Once' /\ Exact'
  <2>1. Fed => ~Asks(reqs') /\ ~Asks(cmds) /\ Single(cmds) /\ Single(reqs')
    BY <1>1, <1>3, AskTaken DEF FlowInv, Once, StreamInv, Types, WireTypes
  <2>2. Fed => Seeks(cmds, cursor) /\ Seeks(reqs', cursor)
    BY <1>1, AskTaken DEF FlowInv, Exact, StreamInv, Types, WireTypes
  <2> QED BY <1>1, <1>7, <2>1, <2>2 DEF Once, Exact
<1>11. Got'
  <2>1. Asks(reqs') => Asks(reqs)
    BY <1>1, AskTaken DEF StreamInv, Types, WireTypes
  <2> QED BY <1>1, <2>1 DEF FlowInv, Got
<1>12. Chained'
  <2>1. CASE UNCHANGED <<stream, pos>>
    BY <1>1, <2>1, FlowQuiet
  <2>2. CASE pos' = start
    <3>1. Fed => pos' = cursor' + Len(data')
      BY <1>1, <1>5, <2>2, Places
    <3> QED BY <1>1, <1>7, <3>1 DEF FlowInv, Chained, Fed
  <2> QED BY <2>1, <2>2 DEF HandleAttach
<1> QED BY <1>8, <1>9, <1>10, <1>11, <1>12 DEF FlowInv

(* A list.                                                                 *)
LEMMA HandleListFlows == ASSUME Steady, StreamInv, FlowInv, HandleList PROVE FlowInv'
<1> DEFINE m == Head(reqs)
           r == Reply(child, 0, m.to)
<1>1. /\ UNCHANGED <<head, phase, answer, events, sup, stream, pos, data, routed, cmds, unsaved, shown>>
      /\ UNCHANGED <<stored, saved, persistFrom, cursor, call>>
      /\ reqs # <<>> /\ reqs' = Tail(reqs) /\ m.kind = "list" /\ ctrl' = Append(ctrl, r)
  BY DEF HandleList, holder, route, calling, copies, log
<1>2. m \in Asked
  BY <1>1 DEF StreamInv, Types, WireTypes
<1>3. r \in Frames /\ r.kind \notin {"gap", "backpressure"} /\ r.to # "task"
  BY <1>1, <1>2 DEF StreamInv, Types, HolderTypes, Reply, Frames, Asked, Requests, Notices, States, Requesters
<1>4. sup # "dial"
  BY <1>1 DEF FlowInv, Linked
<1> HIDE DEF r
<1>5. (Clean(ctrl) => Clean(ctrl')) /\ (Owed(ctrl') => Owed(ctrl))
  BY <1>1, <1>3, FrameAdded DEF StreamInv, Types, WireTypes
<1>6. (Asks(reqs') => Asks(reqs)) /\ (Single(reqs) => Single(reqs')) /\ (Seeks(reqs, cursor) => Seeks(reqs', cursor))
  BY <1>1, AskTaken DEF StreamInv, Types, WireTypes
<1>7. Uncut' /\ Linked'
  BY <1>1, <1>4, <1>5 DEF FlowInv, Uncut, Linked, Live, Fed
<1>8. Cold' /\ Copied' /\ Chained'
  BY <1>1, FlowQuiet
<1>9. Booting' /\ Got'
  BY <1>1, <1>5, <1>6 DEF FlowInv, Booting, Got
<1>10. Once' /\ Exact'
  BY <1>1, <1>5, <1>6 DEF FlowInv, Once, Exact, Live, Fed
<1> QED BY <1>7, <1>8, <1>9, <1>10 DEF FlowInv

(* The streamer extends the run of frames; a ring that covers the cursor   *)
(* never evicts it.                                                        *)
LEMMA StreamerFlows == ASSUME Steady, StreamInv, FlowInv, Covered, StreamOutput \/ StreamEvict \/ StreamEnd PROVE FlowInv'
<1>1. /\ UNCHANGED <<head, phase, answer, events, sup, reqs, routed, cmds, unsaved, shown>>
      /\ UNCHANGED <<stored, saved, persistFrom, cursor, call>>
      /\ stream # "none"
  BY DEF StreamOutput, StreamEvict, StreamEnd, holder, route, calling, copies, log
<1>2. phase # "boot" /\ sup # "dial"
  BY <1>1 DEF FlowInv, Booting, Linked
<1>3. Fed' = Fed /\ Live' = Live
  BY <1>1 DEF Fed, Live
<1>4. Fed => ~Asks(cmds) /\ ~Asks(reqs) /\ Runs(data, cursor) /\ pos = cursor + Len(data)
  BY <1>1 DEF FlowInv, Exact, Chained, Fed
<1>5. data \in Seq(Nat) /\ cursor \in Nat /\ pos \in Nat
  <2>1. 1 .. head \subseteq Nat
    OBVIOUS
  <2> QED BY <2>1, SeqWider, Places DEF StreamInv, Types, WireTypes
<1>6. Uncut' /\ Linked' /\ Booting' /\ (Owed(ctrl') => Owed(ctrl))
  <2>1. StreamEvict => ~Fed
    <3>1. Fed => tail <= pos
      BY <1>4, <1>5, Places DEF Covered
    <3> QED BY <3>1, <1>5, Places DEF StreamEvict
  <2>2. (Fed => Clean(ctrl')) /\ (Owed(ctrl') => Owed(ctrl))
    <3>1. CASE ctrl' = ctrl
      BY <3>1 DEF FlowInv, Uncut
    <3>2. CASE StreamEvict
      <4> DEFINE r == Reply("backpressure", pos, "nobody")
      <4>1. ctrl' = Append(ctrl, r) /\ r \in Frames /\ r.to # "task"
        BY <3>2, Places DEF StreamEvict, Reply, Frames, Notices, Requesters
      <4> HIDE DEF r
      <4> QED BY <2>1, <3>2, <4>1, FrameAdded DEF StreamInv, Types, WireTypes
    <3>3. CASE StreamEnd /\ ctrl' # ctrl
      <4> DEFINE r == Reply("exited", head, "nobody")
      <4>1. /\ ctrl' = Append(ctrl, r)
            /\ r \in Frames /\ r.kind \notin {"gap", "backpressure"} /\ r.to # "task"
        BY <3>3 DEF StreamEnd, StreamInv, Types, HolderTypes, Reply, Frames, Notices, Requesters
      <4> HIDE DEF r
      <4> QED BY <4>1, FrameAdded DEF StreamInv, Types, WireTypes, FlowInv, Uncut
    <3> QED BY <3>1, <3>2, <3>3 DEF StreamOutput
  <2> QED BY <1>1, <1>2, <1>3, <2>2 DEF FlowInv, Uncut, Linked, Booting
<1>7. Cold' /\ Copied' /\ Got'
  BY <1>1, FlowQuiet
<1>8. Once' /\ Exact'
  BY <1>1, <1>3, <1>4, <1>6 DEF FlowInv, Once, Exact
<1>9. Chained'
  <2>1. CASE StreamOutput
    <3>1. pos' = pos + 1 /\ data' = Append(data, pos + 1)
      BY <2>1 DEF StreamOutput
    <3>2. Fed => Runs(data', cursor) /\ pos' = cursor + Len(data')
      <4>1. SUFFICES ASSUME Fed PROVE Runs(data', cursor) /\ pos' = cursor + Len(data')
        OBVIOUS
      <4>2. Runs(data, cursor) /\ pos + 1 = cursor + Len(data) + 1 /\ pos + 1 \in Nat
        BY <1>4, <1>5, <4>1
      <4>3. Runs(data', cursor)
        BY <1>5, <3>1, <4>2, RunAdded
      <4>4. Len(data') = Len(data) + 1 /\ Len(data) \in Nat
        BY <1>5, <3>1
      <4> QED BY <1>5, <3>1, <4>2, <4>3, <4>4
    <3> QED BY <1>1, <1>3, <3>2 DEF FlowInv, Chained, Fed
  <2>2. CASE StreamEvict \/ StreamEnd
    BY <1>1, <1>3, <2>2 DEF StreamEvict, StreamEnd, FlowInv, Chained
  <2> QED BY <2>1, <2>2
<1> QED BY <1>6, <1>7, <1>8, <1>9 DEF FlowInv

(* A streamer that another client replaced has nothing more to say.        *)
LEMMA TakeOverFlows == ASSUME Steady, StreamInv, FlowInv, TakeOver PROVE FlowInv'
<1> DEFINE r == Reply("superseded", head, "nobody")
<1>1. /\ UNCHANGED <<head, phase, answer, events, sup, reqs, routed, cmds, unsaved, shown>>
      /\ UNCHANGED <<stored, saved, persistFrom, cursor, call, pos, data>>
      /\ stream # "none" /\ stream' = "none" /\ ctrl' = Append(ctrl, r)
  BY DEF TakeOver, holder, route, calling, copies, log
<1>2. r \in Frames /\ r.kind \notin {"gap", "backpressure"} /\ r.to # "task"
  BY Places DEF Reply, Frames, Notices, Requesters
<1> HIDE DEF r
<1>3. (Fed => Clean(ctrl')) /\ (Owed(ctrl') => Owed(ctrl))
  BY <1>1, <1>2, FrameAdded DEF StreamInv, Types, WireTypes, FlowInv, Uncut
<1>4. Fed' = Fed /\ Live' = Live
  BY <1>1 DEF Fed, Live
<1>5. Uncut' /\ Linked' /\ Booting'
  BY <1>1, <1>3, <1>4 DEF FlowInv, Uncut, Linked, Booting
<1>6. Cold' /\ Copied' /\ Got'
  BY <1>1, FlowQuiet
<1>7. Once' /\ Exact' /\ Chained'
  BY <1>1, <1>3, <1>4 DEF FlowInv, Once, Exact, Chained
<1> QED BY <1>5, <1>6, <1>7 DEF FlowInv

(* An end among the events ends the run of output: what comes after it is  *)
(* not read.                                                               *)
LEMMA ExitDelivered ==
  ASSUME StreamInv, FlowInv, NEW e \in News, e.kind \in {"exited", "superseded"}, Deliver(e)
  PROVE  /\ phase = "boot" => events' = events
         /\ Live => Clean(events')
         /\ Live => Follows(events', Len(shown)) /\ (Plain(events', Len(events')) => Plain(events, Len(events)) /\ events' = events)
<1>1. events \in Seq(News) /\ (Live => Clean(events)) /\ (phase = "boot" => ~routed)
  BY DEF StreamInv, Types, RouteTypes, FlowInv, Uncut, Booting
<1>2. Len(shown) \in Nat
  BY DEF StreamInv, Types, TaskTypes
<1>3. Live => Follows(events, Len(shown))
  BY DEF FlowInv, Chained
<1>4. CASE events' = events
  BY <1>1, <1>3, <1>4
<1>5. CASE routed /\ events' = Append(events, e)
  <2>1. Live => Clean(events')
    BY <1>1, <1>5, FrameAdded
  <2>2. Len(events') = Len(events) + 1
    BY <1>1, <1>5
  <2>3. Live => Follows(events', Len(shown)) /\ ~Plain(events', Len(events'))
    BY <1>1, <1>2, <1>3, <1>5, <2>2, NewsAdded
  <2> QED BY <1>1, <1>5, <2>1, <2>3
<1> QED BY <1>4, <1>5 DEF Deliver

(* The route's cursor moves with the frame that becomes an event.          *)
LEMMA ReadOutputFlows == ASSUME Steady, StreamInv, FlowInv, ReadOutput PROVE FlowInv'
<1>1. /\ UNCHANGED <<head, phase, answer, sup, stream, pos, ctrl, reqs, routed, cmds, unsaved, shown>>
      /\ UNCHANGED <<stored, saved, persistFrom, call>>
      /\ data # <<>> /\ data' = Tail(data)
      /\ cursor' = IF routed THEN Head(data) ELSE cursor
      /\ Deliver(Event("output", Head(data)))
  BY DEF ReadOutput, holder, calling, copies, log
<1>2. /\ phase # "boot" /\ sup # "dial"
      /\ Live /\ routed => ~Asks(cmds) /\ ~Asks(reqs)
  BY <1>1 DEF FlowInv, Booting, Linked, Exact, Fed
<1> DEFINE e == Event("output", Head(data))
<1>3. e \in News /\ e.kind = "output" /\ e.chunk = Head(data) /\ events \in Seq(News)
  <2>1. Head(data) \in 1 .. head
    <3> DEFINE chunks == 1 .. head
    <3>1. data \in Seq(chunks) /\ data # <<>>
      BY <1>1 DEF StreamInv, Types, WireTypes
    <3> HIDE DEF chunks
    <3>2. Head(data) \in chunks
      BY <3>1
    <3> QED BY <3>2 DEF chunks
  <2> QED BY <2>1, Places DEF Event, News, Events, StreamInv, Types, RouteTypes
<1>4. Deliver(e)
  BY <1>1
<1> HIDE DEF e
<1>5. Live => Clean(events')
  BY <1>3, <1>4, FrameAdded DEF Deliver, FlowInv, Uncut
<1>6. Uncut' /\ Linked' /\ Booting'
  BY <1>1, <1>2, <1>5 DEF FlowInv, Uncut, Linked, Booting, Live, Fed
<1>7. Cold' /\ Copied' /\ Once' /\ Got'
  BY <1>1, FlowQuiet
<1>8. Live' = Live /\ Fed' = Fed
  BY <1>1 DEF Live, Fed
<1>9. Exact'
  BY <1>1, <1>2, <1>8 DEF Exact, Seeks, Asks, Fed
<1>10. Chained'
  <2>1. CASE ~(Live /\ routed)
    BY <1>1, <1>4, <1>8, <2>1 DEF FlowInv, Chained, Deliver, Live
  <2>2. CASE Live /\ routed
    <3>1. /\ events' = Append(events, e)
          /\ cursor' = Head(data)
      BY <1>1, <1>4, <2>2 DEF Deliver, Ends, Live
    <3>2. data \in Seq(Nat) /\ cursor \in Nat /\ Len(shown) \in Nat
      <4>1. 1 .. head \subseteq Nat
        OBVIOUS
      <4> QED BY <4>1, SeqWider, Places DEF StreamInv, Types, WireTypes, RouteTypes, TaskTypes
    <3>3. cursor' = cursor + 1 /\ Runs(data', cursor')
      BY <1>1, <2>2, <3>1, <3>2, RunTaken DEF FlowInv, Chained
    <3>4. stream # "none" => pos = cursor' + Len(data')
      <4>1. Len(data) \in Nat \ {0} /\ Len(data') = Len(data) - 1
        BY <1>1, <3>2, Taken
      <4> QED BY <2>2, <3>2, <3>3, <4>1 DEF FlowInv, Chained
    <3>5. Follows(events', Len(shown))
      <4>1. Plain(events, Len(events)) => e.chunk = Len(shown) + Len(events) + 1
        BY <1>3, <2>2, <3>1, <3>3 DEF FlowInv, Chained
      <4> QED BY <1>3, <2>2, <3>1, <3>2, <4>1, NewsAdded DEF FlowInv, Chained
    <3>6. Plain(events', Len(events')) => cursor' = Len(shown) + Len(events')
      <4>1. Len(events') = Len(events) + 1 /\ Len(events) \in Nat
        BY <1>3, <3>1
      <4>2. Plain(events', Len(events')) => Plain(events, Len(events))
        BY <1>3, <2>2, <3>1, <3>2, <4>1, NewsAdded DEF FlowInv, Chained
      <4> QED BY <2>2, <3>2, <3>3, <4>1, <4>2 DEF FlowInv, Chained
    <3> QED BY <1>1, <3>3, <3>4, <3>5, <3>6 DEF Chained
  <2> QED BY <2>1, <2>2
<1> QED BY <1>6, <1>7, <1>9, <1>10 DEF FlowInv

(* A notice: while the route is fed, of an end.                            *)
LEMMA ReadNoticeFlows == ASSUME Steady, StreamInv, FlowInv, ReadNotice PROVE FlowInv'
<1>1. /\ UNCHANGED <<head, phase, answer, sup, stream, pos, data, reqs, routed, cmds, unsaved, shown>>
      /\ UNCHANGED <<stored, saved, persistFrom, call, cursor>>
      /\ ctrl # <<>> /\ ctrl' = Tail(ctrl) /\ Head(ctrl).kind \in Notices
      /\ Deliver(Event(Head(ctrl).kind, 0))
  BY DEF ReadNotice, holder, calling, copies, log
<1>2. (Clean(ctrl) => Clean(ctrl') /\ Head(ctrl).kind \notin {"gap", "backpressure"}) /\ (Owed(ctrl') => Owed(ctrl))
  BY <1>1, FrameTaken DEF StreamInv, Types, WireTypes
<1>3. sup # "dial" /\ Live' = Live /\ Fed' = Fed
  BY <1>1 DEF FlowInv, Linked, Live, Fed
<1>4. /\ phase = "boot" => events' = events
      /\ Live => Clean(events')
      /\ Live => Follows(events', Len(shown)) /\ (Plain(events', Len(events')) => Plain(events, Len(events)) /\ events' = events)
  <2>1. CASE Fed
    <3>1. Head(ctrl).kind \in {"exited", "superseded"}
      BY <1>1, <1>2, <2>1 DEF Notices, FlowInv, Uncut
    <3> DEFINE e == Event(Head(ctrl).kind, 0)
    <3>2. e \in News /\ e.kind \in {"exited", "superseded"} /\ Deliver(e)
      <4>1. Head(ctrl) \in Frames
        BY <1>1 DEF StreamInv, Types, WireTypes
      <4> QED BY <1>1, <3>1, <4>1 DEF Event, News, Events, Notices, Frames
    <3> HIDE DEF e
    <3> QED BY <3>2, ExitDelivered
  <2>2. CASE ~Fed
    <3>1. Live \/ phase = "boot" => ~routed
      BY <2>2 DEF Fed, FlowInv, Booting
    <3> QED BY <1>1, <3>1 DEF Deliver, FlowInv, Uncut, Chained
  <2> QED BY <2>1, <2>2
<1>5. Uncut' /\ Linked' /\ Booting'
  BY <1>1, <1>2, <1>3, <1>4 DEF FlowInv, Uncut, Linked, Booting
<1>6. Cold' /\ Copied' /\ Got' /\ Exact'
  BY <1>1, FlowQuiet
<1>7. Once'
  BY <1>1, <1>2, <1>3 DEF FlowInv, Once
<1>8. Chained'
  BY <1>1, <1>3, <1>4 DEF FlowInv, Chained
<1> QED BY <1>5, <1>6, <1>7, <1>8 DEF FlowInv

(* A reply to the task: its attach is no longer under way.                 *)
LEMMA ReadReplyFlows == ASSUME Steady, StreamInv, FlowInv, ReadReply PROVE FlowInv'
<1>1. /\ UNCHANGED <<head, phase, events, sup, stream, pos, data, reqs, routed, cmds, unsaved, shown>>
      /\ UNCHANGED <<stored, saved, persistFrom, cursor>>
      /\ ctrl # <<>> /\ ctrl' = Tail(ctrl)
      /\ \/ Head(ctrl).to = "task" /\ answer' = Head(ctrl)
         \/ UNCHANGED <<call, answer>>
  BY DEF ReadReply, holder, route, copies, log
<1>2. /\ Clean(ctrl) => Clean(ctrl') /\ Head(ctrl).kind \notin {"gap", "backpressure"}
      /\ Owed(ctrl') => Owed(ctrl)
      /\ Head(ctrl).to = "task" => Owed(ctrl)
  BY <1>1, FrameTaken DEF StreamInv, Types, WireTypes
<1>3. sup # "dial" /\ Live' = Live /\ Fed' = Fed
  BY <1>1 DEF FlowInv, Linked, Live, Fed
<1>4. phase \in {"create", "adopt"} => Fed
  BY DEF Fed, Live, FlowInv, Uncut
<1>5. Uncut' /\ Linked' /\ Booting'
  <2>1. phase \in {"create", "adopt"} /\ call' = "answered" => answer'.kind # "gap"
    BY <1>1, <1>2, <1>4 DEF FlowInv, Uncut
  <2> QED BY <1>1, <1>2, <1>3, <2>1 DEF FlowInv, Uncut, Linked, Booting
<1>6. Cold' /\ Copied' /\ Chained' /\ Exact'
  BY <1>1, FlowQuiet
<1>7. Once'
  BY <1>1, <1>2, <1>3 DEF FlowInv, Once
<1>8. Got'
  <2>1. CASE Head(ctrl).to = "task"
    BY <1>1, <1>2, <1>4, <2>1 DEF FlowInv, Once, Got
  <2>2. CASE UNCHANGED <<call, answer>>
    BY <1>1, <2>2, FlowQuiet
  <2> QED BY <1>1, <2>1, <2>2
<1> QED BY <1>5, <1>6, <1>7, <1>8 DEF FlowInv

(* The supervisor's attach is answered, without a gap.                     *)
LEMMA ReattachReplyFlows == ASSUME Steady, StreamInv, FlowInv, ReattachReply PROVE FlowInv'
<1>1. /\ UNCHANGED <<head, phase, answer, call, events, stream, pos, data, routed, cmds, unsaved, shown>>
      /\ UNCHANGED <<stored, saved, persistFrom, cursor>>
      /\ ctrl # <<>> /\ ctrl' = Tail(ctrl) /\ sup' # "dial"
  BY DEF ReattachReply, Connected, holder, route, calling, copies, log
<1>2. /\ Clean(ctrl) => Clean(ctrl') /\ Head(ctrl).kind # "gap"
      /\ Owed(ctrl') => Owed(ctrl)
  BY <1>1, FrameTaken DEF StreamInv, Types, WireTypes
<1>3. Live' = Live /\ Fed' = Fed
  BY <1>1 DEF Live, Fed
<1>4. Fed \/ phase \in {"create", "boot", "adopt"} => sup' = "running" /\ reqs' = reqs
  BY <1>2 DEF ReattachReply, Connected, FlowInv, Uncut, Linked
<1>5. Uncut' /\ Linked' /\ Booting'
  BY <1>1, <1>2, <1>3, <1>4 DEF FlowInv, Uncut, Linked, Booting
<1>6. Cold' /\ Copied' /\ Chained'
  BY <1>1, FlowQuiet
<1>7. Once' /\ Exact'
  BY <1>1, <1>2, <1>3, <1>4 DEF FlowInv, Once, Exact
<1>8. Got'
  BY <1>1, <1>4 DEF FlowInv, Got
<1> QED BY <1>5, <1>6, <1>7, <1>8 DEF FlowInv

(* A new connection: nothing was left of the old one, and the supervisor's *)
(* attach is the only one.                                                 *)
LEMMA ReconnectFlows == ASSUME Steady, StreamInv, FlowInv, Reconnect PROVE FlowInv'
<1>1. /\ UNCHANGED <<head, phase, answer, call, events, stream, pos, ctrl, data, routed, cmds, unsaved, shown>>
      /\ UNCHANGED <<stored, saved, persistFrom, cursor>>
      /\ sup = "dial" /\ sup' # "dial"
  BY DEF Reconnect, Connected, holder, route, calling, copies, log
<1>2. /\ stream = "none" /\ ctrl = <<>> /\ data = <<>> /\ reqs = <<>>
      /\ phase \notin {"create", "boot", "adopt"}
  BY <1>1 DEF FlowInv, Linked
<1>3. Fed => ~Asks(cmds) /\ Single(cmds) /\ Seeks(cmds, cursor)
  BY <1>2 DEF FlowInv, Got, Once, Exact, Live, Fed
<1>4. Single(reqs') /\ Seeks(reqs', cursor)
  <2> DEFINE ask == Request("cursor", cursor, "supervisor")
  <2>1. ask.kind = "cursor" /\ From(ask) = cursor
    BY DEF Request, From
  <2>2. reqs' = <<ask>> \/ reqs' = <<>>
    BY <1>2 DEF Reconnect
  <2> HIDE DEF ask
  <2> QED BY <2>1, <2>2, AskFew
<1>5. Uncut' /\ Cold' /\ Copied' /\ Chained'
  BY <1>1, FlowQuiet
<1>6. Linked' /\ Booting' /\ Got'
  BY <1>1, <1>2 DEF FlowInv, Linked, Booting, Got
<1>7. Once' /\ Exact'
  BY <1>1, <1>2, <1>3, <1>4, AskFew DEF Once, Exact, Live, Fed
<1> QED BY <1>5, <1>6, <1>7 DEF FlowInv

(* The attach moves from the queue to the connection.                      *)
LEMMA SendCommandFlows == ASSUME Steady, StreamInv, FlowInv, SendCommand PROVE FlowInv'
<1> DEFINE m == Head(cmds)
<1>1. /\ UNCHANGED <<head, phase, answer, events, sup, stream, pos, ctrl, data, routed, unsaved, shown>>
      /\ UNCHANGED <<stored, saved, persistFrom, cursor>>
      /\ sup = "running" /\ cmds # <<>> /\ cmds' = Tail(cmds) /\ reqs' = Append(reqs, m)
      /\ call' \in {"sent", call}
  BY DEF SendCommand, holder, route, copies, log
<1>2. cmds \in Seq(Asked) /\ reqs \in Seq(Asked) /\ m \in Asked
  BY <1>1 DEF StreamInv, Types, WireTypes
<1>3. /\ Asks(cmds') => Asks(cmds)
      /\ m.kind # "list" => Asks(cmds)
      /\ m.kind # "list" /\ Single(cmds) => ~Asks(cmds')
      /\ Single(cmds) => Single(cmds')
      /\ Seeks(cmds, cursor) => Seeks(cmds', cursor) /\ (m.kind # "list" => From(m) = cursor)
  BY <1>1, <1>2, AskTaken
<1>4. /\ Asks(reqs') <=> Asks(reqs) \/ m.kind # "list"
      /\ Single(reqs) /\ (m.kind = "list" \/ ~Asks(reqs)) => Single(reqs')
      /\ Seeks(reqs, cursor) /\ (m.kind # "list" => From(m) = cursor) => Seeks(reqs', cursor)
  BY <1>1, <1>2, AskAdded
<1>5. Cold' /\ Copied' /\ Chained'
  BY <1>1, FlowQuiet
<1>6. Uncut' /\ Linked' /\ Booting'
  BY <1>1, <1>3, <1>4 DEF FlowInv, Uncut, Linked, Booting, Live, Fed
<1>7. Got'
  BY <1>1, <1>3, <1>4 DEF FlowInv, Got
<1>8. Once'
  BY <1>1, <1>3, <1>4 DEF FlowInv, Once, Live, Fed
<1>9. Exact'
  BY <1>1, <1>3, <1>4 DEF FlowInv, Exact, Live, Fed
<1> QED BY <1>5, <1>6, <1>7, <1>8, <1>9 DEF FlowInv

(* The connection goes with all that was on it; the session runs, so no    *)
(* attach of its task is in the queue.                                     *)
LEMMA DropFlows == ASSUME Steady, StreamInv, FlowInv, Drop PROVE FlowInv'
<1>1. /\ UNCHANGED <<head, phase, events, pos, routed, cmds, unsaved, shown>>
      /\ UNCHANGED <<stored, saved, persistFrom, cursor>>
      /\ phase \in Exposed /\ answer' \in {answer, Failed}
      /\ sup' = "dial" /\ stream' = "none" /\ ctrl' = <<>> /\ data' = <<>> /\ reqs' = <<>>
  BY DEF Drop, holder, route, copies, log
<1>2. phase \notin {"create", "boot", "adopt"}
  BY <1>1 DEF Steady
<1>3. Uncut' /\ Linked' /\ Booting'
  BY <1>1, <1>2, AskFew DEF FlowInv, Uncut, Linked, Booting, Failed, Live, Fed
<1>4. Cold' /\ Copied'
  BY <1>1, FlowQuiet
<1>5. Chained' /\ Got'
  BY <1>1, <1>2, AskFew DEF FlowInv, Chained, Got, Live
<1>6. Once' /\ Exact'
  BY <1>1, <1>2, AskFew DEF FlowInv, Once, Exact, Live, Fed, Got
<1> QED BY <1>3, <1>4, <1>5, <1>6 DEF FlowInv

(* A timeout: the attach stays under way, but its session fails.           *)
LEMMA TimeoutFlows == ASSUME Steady, StreamInv, FlowInv, Timeout PROVE FlowInv'
<1>1. PICK who \in {"task", "pass"} :
        /\ cmds' = Forget(cmds, who) /\ reqs' = Forget(reqs, who) /\ ctrl' = Forget(ctrl, who)
        /\ answer' = Failed \/ UNCHANGED <<call, answer>>
  BY DEF Timeout
<1>2. /\ UNCHANGED <<head, phase, events, sup, stream, pos, data, routed, unsaved, shown>>
      /\ UNCHANGED <<stored, saved, persistFrom, cursor>>
  BY DEF Timeout, holder, route, copies, log
<1>3. /\ Asks(cmds') <=> Asks(cmds)
      /\ Single(cmds) => Single(cmds')
      /\ Seeks(cmds, cursor) => Seeks(cmds', cursor)
      /\ Asks(reqs') <=> Asks(reqs)
      /\ Single(reqs) => Single(reqs')
      /\ Seeks(reqs, cursor) => Seeks(reqs', cursor)
  BY <1>1, AskForgotten DEF StreamInv, Types, WireTypes
<1>4. (Clean(ctrl) => Clean(ctrl')) /\ (Owed(ctrl') => Owed(ctrl))
  BY <1>1, FrameForgotten DEF StreamInv, Types, WireTypes
<1>5. sup = "dial" => ctrl' = <<>> /\ reqs' = <<>>
  BY <1>1 DEF FlowInv, Linked, Forget
<1>6. Uncut' /\ Linked' /\ Booting'
  BY <1>1, <1>2, <1>3, <1>4, <1>5 DEF FlowInv, Uncut, Linked, Booting, Failed, Live, Fed
<1>7. Cold' /\ Copied' /\ Chained'
  BY <1>2, FlowQuiet
<1>8. Once' /\ Exact'
  BY <1>2, <1>3, <1>4 DEF FlowInv, Once, Exact, Live, Fed
<1>9. Got'
  BY <1>1, <1>2, <1>3 DEF FlowInv, Got, Failed
<1> QED BY <1>6, <1>7, <1>8, <1>9 DEF FlowInv

(* Creation and adoption succeed only on a reply, and then their attach is *)
(* done.                                                                   *)
LEMMA AnsweredFlows == ASSUME Steady, StreamInv, FlowInv, Created \/ Adopted PROVE FlowInv'
<1>1. /\ UNCHANGED <<head, answer, ctrl, events, sup, stream, pos, data, reqs, routed, cmds, unsaved, shown>>
      /\ UNCHANGED <<stored, saved, persistFrom, cursor>>
      /\ phase \in {"create", "adopt"} /\ call = "answered"
      /\ \/ phase' = "run" /\ answer.kind \in {"attached", "gap"}
         \/ phase' \in {"refused", "unanswered"}
  BY DEF Created, Adopted, GivenUp, Replied, holder, socket, route, copies, log
<1>2. phase' = "run" => ~Asks(cmds)
  BY <1>1 DEF FlowInv, Uncut, Got
<1>3. Uncut' /\ Linked' /\ Booting' /\ Got'
  BY <1>1, <1>2 DEF FlowInv, Uncut, Linked, Booting, Got, Live, Fed
<1>4. Cold'
  BY <1>1, FlowQuiet
<1>5. Live /\ (Live' => phase' = "run")
  BY <1>1 DEF Live
<1>6. Copied' /\ Chained'
  BY <1>1, <1>5 DEF FlowInv, Copied, Chained
<1>7. Once' /\ Exact'
  BY <1>1, <1>5 DEF FlowInv, Once, Exact, Fed
<1> QED BY <1>3, <1>4, <1>6, <1>7 DEF FlowInv

(* The types in numbers.                                                   *)
LEMMA Widths ==
  ASSUME StreamInv
  PROVE  /\ data \in Seq(Nat) /\ saved \in Seq(Nat) /\ unsaved \in Seq(Nat) /\ shown \in Seq(Nat)
         /\ cursor \in Nat /\ stored \in Nat /\ persistFrom \in Nat
         /\ Len(saved) \in Nat /\ Len(unsaved) \in Nat /\ Len(shown) \in Nat /\ Len(data) \in Nat
<1>1. 1 .. head \subseteq Nat /\ 0 .. head \subseteq Nat
  OBVIOUS
<1>2. data \in Seq(Nat) /\ saved \in Seq(Nat) /\ unsaved \in Seq(Nat) /\ shown \in Seq(Nat)
  BY <1>1, SeqWider DEF StreamInv, Types, WireTypes, TaskTypes, LogTypes
<1> QED BY <1>2 DEF StreamInv, Types, HolderTypes, RouteTypes, TaskTypes, LogTypes

(* What the drain task copies is the chunk after the last it showed, and   *)
(* it goes to the event log.                                               *)
LEMMA DrainOutputNext ==
  ASSUME StreamInv, FlowInv, DrainOutput
  PROVE  /\ Head(events).chunk = Len(shown) + 1 /\ Head(events).chunk \in 1 .. head
         /\ shown' = Append(shown, Len(shown) + 1)
         /\ unsaved' = Append(unsaved, Len(shown) + 1)
<1>1. /\ phase = "run" /\ events # <<>> /\ Head(events).kind = "output" /\ events \in Seq(News)
      /\ Head(events) \in News
  BY TakeEvent DEF DrainOutput, StreamInv, Types, RouteTypes
<1>2. Follows(events, Len(shown)) /\ persistFrom <= Len(shown)
  BY <1>1 DEF FlowInv, Chained, Copied, Live
<1>3. Head(events).chunk = Len(shown) + 1
  BY <1>1, <1>2, NewsTaken, Widths
<1>4. Head(events).chunk > persistFrom
  BY <1>2, <1>3, Widths
<1> QED BY <1>1, <1>3, <1>4 DEF DrainOutput, Persist, News

(* The copy grows by the next chunk.                                       *)
LEMMA DrainOutputFlows == ASSUME Steady, StreamInv, FlowInv, DrainOutput PROVE FlowInv'
<1>1. /\ UNCHANGED <<head, phase, answer, call, ctrl, sup, stream, pos, data, reqs, routed, cmds>>
      /\ UNCHANGED <<stored, saved, persistFrom, cursor>>
      /\ phase = "run" /\ events # <<>> /\ Head(events).kind = "output" /\ events' = Tail(events)
      /\ events \in Seq(News)
  BY DEF DrainOutput, holder, socket, calling, StreamInv, Types, RouteTypes
<1>2. shown' = Append(shown, Len(shown) + 1) /\ unsaved' = Append(unsaved, Len(shown) + 1)
  BY DrainOutputNext
<1>3. Live /\ Live'
  BY <1>1 DEF Live
<1>4. Len(shown) = stored + Len(unsaved) /\ persistFrom <= Len(shown) /\ Runs(shown, 0)
  BY <1>3 DEF FlowInv, Copied
<1>5. Len(shown') = Len(shown) + 1 /\ Len(unsaved') = Len(unsaved) + 1
  BY <1>2, Widths
<1>6. Runs(shown', 0)
  <2>1. Len(shown) + 1 \in Nat /\ Len(shown) + 1 = 0 + Len(shown) + 1
    BY Widths
  <2> QED BY <1>2, <1>4, <2>1, Widths, RunAdded
<1>7. Runs(unsaved', stored)
  <2>1. Len(shown) + 1 \in Nat /\ Len(shown) + 1 = stored + Len(unsaved) + 1
    BY <1>4, Widths
  <2> QED BY <1>2, <2>1, Widths, RunAdded DEF FlowInv, Cold
<1>8. Cold' /\ Copied'
  <2>1. Len(shown') = stored' + Len(unsaved') /\ persistFrom' <= Len(shown')
    BY <1>1, <1>4, <1>5, Widths
  <2> QED BY <1>1, <1>6, <1>7, <2>1 DEF FlowInv, Cold, Copied
<1>9. Clean(events')
  BY <1>1, <1>3, FrameTaken DEF FlowInv, Uncut
<1>10. Uncut' /\ Linked' /\ Booting'
  BY <1>1, <1>9 DEF FlowInv, Uncut, Linked, Booting, Live, Fed
<1>11. Once' /\ Exact' /\ Got'
  BY <1>1, FlowQuiet
<1>12. Chained'
  <2>1. Follows(events, Len(shown))
    BY <1>3 DEF FlowInv, Chained
  <2>2. /\ Follows(events', Len(shown) + 1)
        /\ Plain(events', Len(events')) => Plain(events, Len(events))
    BY <1>1, <2>1, Widths, NewsTaken
  <2>3. Len(events) \in Nat \ {0} /\ Len(events') = Len(events) - 1
    BY <1>1, Taken
  <2>4. routed /\ Plain(events', Len(events')) => cursor = Len(shown') + Len(events')
    BY <1>3, <1>5, <2>2, <2>3, Widths DEF FlowInv, Chained
  <2> QED BY <1>1, <1>3, <1>5, <2>2, <2>4 DEF FlowInv, Chained
<1> QED BY <1>8, <1>10, <1>11, <1>12 DEF FlowInv

(* A session that is over is fed no more.                                  *)
LEMMA EndedFlows ==
  ASSUME Steady, StreamInv, FlowInv,
         UNCHANGED <<answer, ctrl, sup, stream, data, reqs, cmds, unsaved, shown>>,
         UNCHANGED <<stored, saved>>,
         phase' \in Ends \cup {"cut"}
  PROVE  FlowInv'
<1>1. ~Live' /\ ~Fed' /\ phase' \notin {"boot", "resync", "resyncGap", "adoptGap"}
  BY DEF Live, Fed, Ends
<1>2. Uncut' /\ Linked' /\ Booting' /\ Got'
  BY <1>1 DEF FlowInv, Uncut, Linked, Booting, Got, Live
<1>3. Cold' /\ Copied'
  BY <1>1 DEF FlowInv, Cold, Copied
<1>4. Chained' /\ Once' /\ Exact'
  BY <1>1 DEF Chained, Once, Exact
<1> QED BY <1>2, <1>3, <1>4 DEF FlowInv

(* The session's task; there is nothing to resync.                         *)
LEMMA TaskFlows == ASSUME Steady, StreamInv, FlowInv, Task PROVE FlowInv'
<1>1. ~DrainEvicted /\ ~Resync /\ ~AdoptGap /\ ~AdoptResynced
  <2>1. ~DrainEvicted
    BY FrameTaken DEF DrainEvicted, FlowInv, Uncut, StreamInv, Types, RouteTypes, Live
  <2>2. ~Resync /\ ~AdoptGap /\ ~AdoptResynced
    BY DEF Resync, Resynced, AdoptGap, AdoptResynced, Replied, FlowInv, Uncut
  <2> QED BY <2>1, <2>2
<1>2. CASE DrainEnd
  BY <1>2, EndedFlows DEF DrainEnd, Ends, holder, socket, calling, copies, log
<1>3. CASE AdoptRefused
  BY <1>3, EndedFlows DEF AdoptRefused, GivenUp, Ends, holder, socket, calling, copies, log
<1> QED BY <1>1, <1>2, <1>3, AnsweredFlows, DrainOutputFlows DEF Task

(* A pass begins.                                                          *)
LEMMA PassStartFlows == ASSUME Steady, StreamInv, FlowInv, PassStart PROVE FlowInv'
<1> DEFINE m == Request("list", 0, "pass")
<1>1. /\ UNCHANGED <<head, phase, answer, call, ctrl, events, sup, stream, pos, data, reqs, routed, unsaved, shown>>
      /\ UNCHANGED <<stored, saved, persistFrom, cursor>>
      /\ InLive /\ cmds' = Append(cmds, m)
  BY DEF PassStart, holder, socket, route, calling, copies, log
<1>2. m.kind = "list" /\ m \in Asked /\ cmds \in Seq(Asked)
  BY DEF Request, Asked, Requests, Requesters, StreamInv, Types, HolderTypes, WireTypes
<1> HIDE DEF m
<1>3. /\ Asks(cmds') <=> Asks(cmds)
      /\ Single(cmds) => Single(cmds')
      /\ Seeks(cmds, cursor) => Seeks(cmds', cursor)
  BY <1>1, <1>2, AskAdded
<1>4. Uncut' /\ Linked' /\ Cold' /\ Copied' /\ Chained'
  BY <1>1, FlowQuiet
<1>5. Booting' /\ Got'
  BY <1>1, <1>3 DEF FlowInv, Booting, Got
<1>6. Once' /\ Exact'
  BY <1>1, <1>3 DEF FlowInv, Once, Exact, Live, Fed
<1> QED BY <1>4, <1>5, <1>6 DEF FlowInv

(* A pass injects an exit, or removes the route.                           *)
LEMMA PassLiveFlows == ASSUME Steady, StreamInv, FlowInv, PassLive PROVE FlowInv'
<1>1. /\ UNCHANGED <<head, answer, call, ctrl, sup, stream, pos, data, reqs, cmds, unsaved, shown>>
      /\ UNCHANGED <<stored, saved, persistFrom, cursor>>
      /\ phase # "boot" /\ (phase' = phase \/ (phase = "cut" /\ phase' = "done"))
  BY DEF PassLive, holder, socket, calling, copies, log
<1>3. Uncut' /\ Chained' /\ Exact' /\ Once'
  <2>1. CASE Deliver(Event("exited", 0)) /\ UNCHANGED <<routed, phase>> /\ verdict = "dead"
    <3> DEFINE e == Event("exited", 0)
    <3>1. e \in News /\ e.kind = "exited" /\ Deliver(e)
      BY <2>1 DEF Event, News, Events, Notices, StreamInv, Ended
    <3> HIDE DEF e
    <3>2. /\ Live => Clean(events')
          /\ Live => Follows(events', Len(shown)) /\ (Plain(events', Len(events')) => Plain(events, Len(events)) /\ events' = events)
      BY <3>1, ExitDelivered
    <3>3. Live' = Live /\ Fed' = Fed
      BY <1>1, <2>1 DEF Live, Fed
    <3> QED BY <1>1, <2>1, <3>2, <3>3, FlowQuiet DEF FlowInv, Uncut, Chained
  <2>2. CASE UNCHANGED <<routed, events, phase>>
    BY <1>1, <2>2, FlowQuiet
  <2>3. CASE UNCHANGED events /\ ~routed' /\ InLive
    <3>1. Live' = Live /\ ~Fed' /\ phase \notin {"create", "adopt"}
      BY <1>1, <2>3 DEF Live, Fed, InLive
    <3> QED BY <1>1, <2>3, <3>1 DEF FlowInv, Uncut, Chained, Exact, Once
  <2> QED BY <2>1, <2>2, <2>3 DEF PassLive
<1>4. Linked' /\ Cold' /\ Copied' /\ Got'
  BY <1>1, FlowQuiet DEF FlowInv, Linked, Copied, Got, Live
<1>5. Booting'
  BY <1>1 DEF Booting
<1> QED BY <1>3, <1>4, <1>5 DEF FlowInv

(* Adoption starts from the end of the cold history, with nothing in       *)
(* flight.                                                                 *)
LEMMA AdoptFlows == ASSUME Steady, StreamInv, FlowInv, Adopt PROVE FlowInv'
<1> DEFINE m == Request("cursor", stored, "task")
<1>1. /\ UNCHANGED <<head, answer, ctrl, events, sup, stream, pos, data, reqs, unsaved>>
      /\ UNCHANGED <<stored, saved>>
      /\ phase = "boot" /\ phase' = "adopt" /\ routed' = TRUE /\ cursor' = stored
      /\ persistFrom' = stored /\ shown' = saved
      /\ call' = "queued" /\ cmds' = Append(cmds, m)
  BY DEF Adopt, Attach, holder, socket, log
<1>2. /\ events = <<>> /\ stream = "none" /\ data = <<>> /\ unsaved = <<>>
      /\ ~Asks(cmds) /\ ~Asks(reqs) /\ ~Owed(ctrl) /\ Clean(ctrl) /\ sup = "running"
  BY <1>1 DEF FlowInv, Booting, Linked
<1>3. m.kind # "list" /\ From(m) = stored /\ m \in Asked /\ cmds \in Seq(Asked)
  BY DEF Request, From, Asked, Requests, Requesters, StreamInv, Types, HolderTypes, WireTypes, LogTypes
<1> HIDE DEF m
<1>4. Single(cmds') /\ Seeks(cmds', stored) /\ Single(reqs) /\ Seeks(reqs, stored)
  <2>1. Single(cmds) /\ Seeks(cmds, stored) /\ Single(reqs) /\ Seeks(reqs, stored)
    BY <1>2 DEF Asks, Single, Seeks
  <2> QED BY <1>1, <1>2, <1>3, <2>1, AskAdded
<1>5. Uncut' /\ Linked' /\ Booting' /\ Got'
  BY <1>1, <1>2, AskFew DEF FlowInv, Uncut, Linked, Booting, Got
<1>6. Cold'
  BY <1>1, FlowQuiet
<1>7. stored = Len(saved) /\ Runs(saved, 0) /\ stored \in Nat
  BY Widths DEF FlowInv, Cold
<1>8. Copied'
  <2>1. Len(shown') = stored' + Len(unsaved') /\ persistFrom' <= Len(shown')
    BY <1>1, <1>2, <1>7
  <2> QED BY <1>1, <1>7, <2>1 DEF Copied
<1>9. Chained'
  <2>1. cursor' = Len(shown') + Len(events')
    BY <1>1, <1>2, <1>7
  <2> QED BY <1>1, <1>2, <2>1, AskFew DEF Chained
<1>10. Once' /\ Exact'
  BY <1>1, <1>2, <1>4 DEF Once, Exact
<1> QED BY <1>5, <1>6, <1>8, <1>9, <1>10 DEF FlowInv

(* A session settled by the start-up pass.                                 *)
LEMMA SettleFlows == ASSUME Steady, StreamInv, FlowInv, Settle PROVE FlowInv'
<1>1. /\ UNCHANGED <<answer, ctrl, sup, stream, data, reqs, cmds, unsaved, shown>>
      /\ UNCHANGED <<stored, saved>>
      /\ phase' \in Ends
  BY DEF Settle, Ends, holder, socket, route, calling, copies, log
<1> QED BY <1>1, EndedFlows

(* What the event writer stores is the chunk after the stored cursor.      *)
LEMMA SaveNext ==
  ASSUME StreamInv, FlowInv, Save
  PROVE  /\ Head(unsaved) = stored + 1 /\ stored' = stored + 1 /\ saved' = Append(saved, stored + 1)
         /\ Len(shown) = stored + Len(unsaved) /\ Len(unsaved) > 0
<1>1. unsaved # <<>> /\ saved' = Append(saved, Head(unsaved))
      /\ stored' = IF stored < Head(unsaved) THEN Head(unsaved) ELSE stored
  BY DEF Save
<1>2. Head(unsaved) = stored + 1
  BY <1>1, Widths, RunTaken DEF FlowInv, Cold
<1>3. Len(unsaved) > 0
  BY <1>1, Widths, Taken
<1> QED BY SMTT(30), <1>1, <1>2, <1>3, Widths DEF FlowInv, Copied

(* The cold history grows by the next chunk.                               *)
LEMMA SaveFlows == ASSUME Steady, StreamInv, FlowInv, Save PROVE FlowInv'
<1>1. /\ UNCHANGED <<head, phase, answer, call, ctrl, events, sup, stream, pos, data, reqs, routed, cmds, shown>>
      /\ UNCHANGED <<persistFrom, cursor>>
      /\ unsaved # <<>> /\ unsaved' = Tail(unsaved)
  BY DEF Save, holder, socket, route, calling, copies
<1>2. /\ stored' = stored + 1 /\ saved' = Append(saved, stored + 1)
      /\ Len(shown) = stored + Len(unsaved) /\ stored = Len(saved) /\ Runs(saved, 0)
  BY SaveNext DEF FlowInv, Cold
<1>3. Runs(unsaved', stored')
  BY <1>1, <1>2, Widths, RunTaken DEF FlowInv, Cold
<1>4. Runs(saved', 0) /\ Len(saved') = Len(saved) + 1
  <2>1. stored + 1 \in Nat /\ stored + 1 = 0 + Len(saved) + 1
    BY <1>2, Widths
  <2> QED BY <1>2, <2>1, Widths, RunAdded
<1>5. Cold'
  BY <1>2, <1>3, <1>4, Widths DEF Cold
<1>6. Copied'
  <2>1. Len(unsaved') = Len(unsaved) - 1
    BY <1>1, Widths, Taken
  <2>2. Len(shown') = stored' + Len(unsaved')
    BY <1>1, <1>2, <2>1, Widths
  <2> QED BY <1>1, <2>2 DEF FlowInv, Copied, Live
<1>7. Booting'
  BY <1>1 DEF FlowInv, Booting
<1>8. Uncut' /\ Linked' /\ Chained' /\ Once' /\ Exact' /\ Got'
  BY <1>1, FlowQuiet
<1> QED BY <1>5, <1>6, <1>7, <1>8 DEF FlowInv

(* The daemon dies: the cold history is what is left.                      *)
LEMMA RestartFlows == ASSUME Steady, StreamInv, FlowInv, Restart PROVE FlowInv'
<1>1. /\ UNCHANGED <<head, answer, saved, stored>>
      /\ stream' = "none" /\ ctrl' = <<>> /\ data' = <<>> /\ reqs' = <<>>
      /\ sup' = "running" /\ cmds' = <<Request("list", 0, "pass")>>
      /\ routed' = FALSE /\ events' = <<>> /\ phase' = "boot"
      /\ unsaved' = <<>> /\ shown' = <<>>
  BY DEF Restart, holder
<1>2. ~Live' /\ ~Fed' /\ Len(shown') = 0
  BY <1>1 DEF Live, Fed
<1>3. ~Asks(cmds') /\ ~Asks(reqs')
  <2> DEFINE m == Request("list", 0, "pass")
  <2>1. m.kind = "list"
    BY DEF Request
  <2>2. cmds' = <<m>>
    BY <1>1
  <2> HIDE DEF m
  <2> QED BY <1>1, <2>1, <2>2, AskFew
<1>4. Uncut' /\ Linked' /\ Booting' /\ Got'
  BY <1>1, <1>2, <1>3, AskFew DEF FlowInv, Uncut, Linked, Booting, Got
<1>5. Cold' /\ Copied'
  BY <1>1, <1>2, AskFew DEF FlowInv, Cold, Copied
<1>6. Chained' /\ Once' /\ Exact'
  BY <1>2 DEF Chained, Once, Exact
<1> QED BY <1>4, <1>5, <1>6 DEF FlowInv

(* It holds initially.                                                     *)
LEMMA FlowInvInit == Steady /\ Init => FlowInv
<1> SUFFICES ASSUME Steady, Init PROVE FlowInv
  OBVIOUS
<1> DEFINE m == Request("earliest", 0, "task")
<1>1. From(m) = 0 /\ m.kind # "list"
  BY DEF Request, From
<1>2. cmds = <<m>> /\ ctrl = <<>> /\ reqs = <<>> /\ data = <<>> /\ events = <<>> /\ cursor = 0
  BY DEF Init
<1> HIDE DEF m
<1>3. Single(cmds) /\ Seeks(cmds, cursor) /\ ~Asks(reqs) /\ Single(reqs) /\ Seeks(reqs, cursor) /\ ~Owed(ctrl)
  BY <1>1, <1>2, AskFew
<1>4. Uncut /\ Linked /\ Booting /\ Cold /\ Got
  BY AskFew DEF Init, Uncut, Linked, Booting, Cold, Got, Failed
<1>5. Copied /\ Chained
  BY AskFew DEF Init, Copied, Chained
<1>6. Once /\ Exact
  BY <1>3 DEF Init, Once, Exact
<1> QED BY <1>4, <1>5, <1>6 DEF FlowInv

(* Every step from a state in which the ring covers the session keeps it.  *)
LEMMA FlowInvStep == Steady /\ Covered /\ StreamInv /\ FlowInv /\ [Next]_vars => FlowInv'
<1> SUFFICES ASSUME Steady, Covered, StreamInv, FlowInv, [Next]_vars PROVE FlowInv'
  OBVIOUS
<1>1. CASE Push \/ Exit \/ Evict \/ TakeOver
  BY <1>1, WorldFlows, TakeOverFlows
<1>2. CASE Holder
  BY <1>2, HandleAttachFlows, HandleListFlows, StreamerFlows DEF Holder
<1>3. CASE Client \/ Reconnect \/ Drop \/ Timeout
  BY <1>3, ReadOutputFlows, ReadNoticeFlows, ReadReplyFlows, ReattachReplyFlows,
     SendCommandFlows, ReconnectFlows, DropFlows, TimeoutFlows DEF Client
<1>4. CASE Task
  BY <1>4, TaskFlows
<1>5. CASE Pass
  BY <1>5, PassStartFlows, PassLiveFlows, AdoptFlows, SettleFlows DEF Pass
<1>6. CASE Save \/ SaveFail \/ Restart
  BY <1>6, SaveFlows, RestartFlows DEF SaveFail, Steady
<1>7. CASE UNCHANGED vars
  BY <1>7, FlowQuiet DEF vars, holder, socket, route, calling, copies, log, FlowInv
<1> QED BY <1>1, <1>2, <1>3, <1>4, <1>5, <1>6, <1>7 DEF Next

(* It holds as long as the ring covers the session.                        *)
LEMMA FlowInvAlways == ASSUME Steady PROVE Spec /\ []Covered => [](StreamInv /\ FlowInv)
<1>1. Init => StreamInv /\ FlowInv
  BY StreamInvInit, FlowInvInit
<1>2. Covered /\ StreamInv /\ FlowInv /\ [Next]_vars => (StreamInv /\ FlowInv)'
  BY StreamInvStep, FlowInvStep
<1> QED BY <1>1, <1>2, PTL DEF Spec

(* The cold history is exactly the output up to the stored cursor (db.rs,  *)
(* write_batch; sidecar.rs, adopt), across lost connections, late answers  *)
(* and restarts, while the ring covers what the daemon has not read.       *)
(* Steady is what the code needs for it: it does not keep this when        *)
(* connections drop during creation or adoption, or when a batch fails.    *)
THEOREM ColdExact == ASSUME Steady PROVE Spec /\ []Covered => []ColdStitch
<1>1. StreamInv /\ FlowInv => ColdStitch
  <2> SUFFICES ASSUME StreamInv, FlowInv PROVE ColdStitch
    OBVIOUS
  <2>1. \A i \in DOMAIN saved : saved[i] = i
    BY Widths DEF FlowInv, Cold, Runs
  <2>2. ASSUME shown # <<>> PROVE shown[Len(shown)] = Len(saved) + Len(unsaved)
    <3>1. Len(shown) \in DOMAIN shown /\ Len(shown) \in Nat
      BY <2>2, Widths, Taken
    <3>2. shown[Len(shown)] = Len(shown)
      BY <3>1 DEF FlowInv, Copied, Runs
    <3> QED BY <2>2, <3>2 DEF FlowInv, Cold, Copied
  <2> QED BY <2>1, <2>2 DEF FlowInv, Cold, ColdStitch
<1> QED BY <1>1, FlowInvAlways, PTL

(* Every step is a step of the feed, or leaves it alone.                   *)
LEMMA FeedStep ==
  ASSUME Steady, StreamInv, FlowInv, [Next]_vars
  PROVE  [Feed!Next]_Feed!vars
<1>1. CASE Push
  BY <1>1 DEF Push, copies, log, Feed!Next, Feed!Write
<1>2. CASE DrainOutput
  <2>1. Len(shown) < head /\ shown' = Append(shown, Len(shown) + 1)
    BY <1>2, DrainOutputNext, Places, Widths
  <2> QED BY <1>2, <2>1 DEF DrainOutput, holder, Feed!Next, Feed!Show
<1>3. CASE Save
  <2>1. stored < Len(shown) /\ stored' = stored + 1
    BY <1>3, SaveNext, Widths
  <2> QED BY <1>3, <2>1 DEF Save, holder, copies, Feed!Next, Feed!Persist
<1>4. CASE Adopt
  <2>1. shown = <<>> /\ shown' = saved /\ UNCHANGED <<head, stored>>
    BY <1>4 DEF Adopt, FlowInv, Booting, holder, log
  <2>2. saved = Feed!UpTo(stored)
    <3>1. saved = [i \in 1 .. Len(saved) |-> saved[i]] /\ DOMAIN saved = 1 .. Len(saved)
      BY Widths
    <3>2. \A i \in 1 .. Len(saved) : saved[i] = i
      BY <3>1, Widths DEF FlowInv, Cold, Runs
    <3> QED BY <3>1, <3>2 DEF FlowInv, Cold, Feed!UpTo
  <2> QED BY <2>1, <2>2 DEF Feed!Next, Feed!Recover
<1>5. CASE Restart
  BY <1>5 DEF Restart, holder, Feed!Next, Feed!Crash
<1>6. CASE UNCHANGED <<head, shown, stored>>
  BY <1>6 DEF Feed!vars
<1>7. CASE Task /\ ~DrainOutput
  <2>1. ~AdoptGap
    BY DEF AdoptGap, Replied, FlowInv, Uncut
  <2>2. UNCHANGED <<head, shown, stored>>
    BY <1>7, <2>1 DEF Task, Created, DrainEnd, DrainEvicted, Resync, Adopted, AdoptResynced, AdoptRefused,
       holder, copies, log
  <2> QED BY <1>6, <2>2
<1>8. CASE Exit \/ Evict \/ TakeOver \/ Holder \/ Client \/ Reconnect \/ Drop \/ Timeout
  <2>1. UNCHANGED <<head, shown, stored>>
    BY <1>8 DEF Exit, Evict, TakeOver, Holder, HandleAttach, HandleList, StreamOutput, StreamEvict, StreamEnd,
       Client, ReadOutput, ReadNotice, ReadReply, ReattachReply, SendCommand, Reconnect, Drop, Timeout,
       holder, copies, log
  <2> QED BY <1>6, <2>1
<1>9. CASE PassStart \/ PassLive \/ Settle \/ SaveFail \/ UNCHANGED vars
  <2>1. UNCHANGED <<head, shown, stored>>
    BY <1>9 DEF PassStart, PassLive, Settle, SaveFail, vars, holder, copies, log
  <2> QED BY <1>6, <2>1
<1> QED BY <1>1, <1>2, <1>3, <1>4, <1>5, <1>7, <1>8, <1>9 DEF Next, Pass

(* Under the same conditions the daemon's side of a session implements the *)
(* feed: its copy grows chunk by chunk, in order, and a new daemon comes   *)
(* back with exactly what was durable.                                     *)
THEOREM ImplementsFeed == ASSUME Steady PROVE Spec /\ []Covered => FeedSpec
<1>1. Init => Feed!Init
  BY DEF Init, Feed!Init
<1>2. StreamInv /\ FlowInv /\ [Next]_vars => [Feed!Next]_Feed!vars
  BY FeedStep
<1> QED BY <1>1, <1>2, FlowInvAlways, PTL DEF Spec, FeedSpec, Feed!Spec

(* A ring that holds all the child ever writes covers it.                  *)
LEMMA AlwaysCovered == ASSUME MaxChunks <= RingCap PROVE Spec => []Covered
<1> DEFINE Small == head <= MaxChunks
<1>1. Init => StreamInv /\ Small
  BY StreamInvInit, SidecarAssumption DEF Init
<1>2. StreamInv /\ Small /\ [Next]_vars => (StreamInv /\ Small)'
  <2> SUFFICES ASSUME StreamInv, Small, [Next]_vars PROVE Small'
    BY StreamInvStep
  <2>1. CASE Push
    BY <2>1, SidecarAssumption, Places DEF Push
  <2>2. CASE ~Push
    <3>1. head' = head
      BY <2>2 DEF Next, Exit, Evict, TakeOver, Holder, HandleAttach, HandleList, StreamOutput, StreamEvict, StreamEnd,
         Client, ReadOutput, ReadNotice, ReadReply, ReattachReply, SendCommand, Reconnect, Drop, Timeout,
         Task, Created, DrainOutput, DrainEnd, DrainEvicted, Resync, Adopted, AdoptGap, AdoptResynced, AdoptRefused,
         Pass, PassStart, PassLive, Adopt, Settle, Save, SaveFail, Restart, vars, holder
    <3> QED BY <3>1
  <2> QED BY <2>1, <2>2
<1>3. StreamInv /\ Small => Covered
  BY SidecarAssumption, Places DEF Covered, tail, StreamInv, Types, LogTypes
<1> QED BY <1>1, <1>2, <1>3, PTL DEF Spec
=============================================================================
