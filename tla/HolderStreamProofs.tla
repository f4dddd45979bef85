------------------------- MODULE HolderStreamProofs -------------------------
(***************************************************************************)
(* Theorems of HolderStream, for every set of connections and streams and  *)
(* every capacity and bound.                                               *)
(***************************************************************************)
EXTENDS HolderStream, SequenceTheorems, TLAPS

(***************************************************************************)
(* What a notify_one leaves behind is well typed.                          *)
(***************************************************************************)
LEMMA NotifyType ==
  ASSUME NEW next \in [Streams -> StreamPc], waiters \in Seq(Streams),
         permit \in BOOLEAN, NotifyOne(next)
  PROVE  /\ permit' \in BOOLEAN
         /\ waiters' \in Seq(Streams)
         /\ pc' \in [Streams -> StreamPc]
<1>1. CASE waiters = <<>>
  BY <1>1 DEF NotifyOne
<1>2. CASE waiters # <<>>
  <2>1. Head(waiters) \in Streams /\ Tail(waiters) \in Seq(Streams)
    BY <1>2
  <2>2. "woken" \in StreamPc
    BY DEF StreamPc
  <2> QED
    BY <1>2, <2>1, <2>2 DEF NotifyOne
<1> QED
  BY <1>1, <1>2

(***************************************************************************)
(* A frame put on a control channel is well typed.                         *)
(***************************************************************************)
LEMMA PutType ==
  ASSUME NEW c, NEW kind \in CtrlKinds, NEW s \in Streams \cup {NoStream},
         ctrl \in [Conns -> Seq(CtrlFrame)], PutCtrl(c, kind, s)
  PROVE  ctrl' \in [Conns -> Seq(CtrlFrame)]
<1>1. [kind |-> kind, stream |-> s] \in CtrlFrame
  BY DEF CtrlFrame
<1>2. CASE link[c] = "dead"
  BY <1>2 DEF PutCtrl
<1>3. CASE link[c] # "dead" /\ c \in Conns
  <2>1. Append(ctrl[c], [kind |-> kind, stream |-> s]) \in Seq(CtrlFrame)
    BY <1>1, <1>3
  <2> QED
    BY <1>3, <2>1 DEF PutCtrl
<1>4. CASE link[c] # "dead" /\ c \notin Conns
  BY <1>4 DEF PutCtrl
<1> QED
  BY <1>2, <1>3, <1>4

(***************************************************************************)
(* Cutting the i-th element out of a sequence.                             *)
(***************************************************************************)
LEMMA CutOne ==
  ASSUME NEW S, NEW q \in Seq(S), NEW i \in 1 .. Len(q)
  PROVE  /\ Cut(q, i) \in Seq(S)
         /\ DOMAIN Cut(q, i) = 1 .. Len(q) - 1
         /\ \A k \in 1 .. Len(q) - 1 :
              Cut(q, i)[k] = q[IF k < i THEN k ELSE k + 1]
<1> DEFINE r == Cut(q, i)
           a == SubSeq(q, 1, i - 1)
           b == SubSeq(q, i + 1, Len(q))
<1>1. \A k \in 1 .. Len(q) : q[k] \in S
  OBVIOUS
<1>2. /\ a \in Seq(S) /\ Len(a) = i - 1
      /\ \A k \in 1 .. i - 1 : a[k] = q[k]
  <2>1. \A k \in 1 .. i - 1 : q[k] \in S
    BY <1>1
  <2>2. /\ a \in Seq(S)
        /\ Len(a) = IF 1 <= i - 1 THEN i - 1 - 1 + 1 ELSE 0
        /\ \A k \in 1 .. i - 1 - 1 + 1 : a[k] = q[1 + k - 1]
    BY <2>1, SubSeqProperties
  <2> HIDE DEF a
  <2> QED
    BY <2>2
<1>3. /\ b \in Seq(S) /\ Len(b) = Len(q) - i
      /\ \A k \in 1 .. Len(q) - i : b[k] = q[i + k]
  <2>1. \A k \in i + 1 .. Len(q) : q[k] \in S
    BY <1>1
  <2>2. /\ b \in Seq(S)
        /\ Len(b) = IF i + 1 <= Len(q) THEN Len(q) - (i + 1) + 1 ELSE 0
        /\ \A k \in 1 .. Len(q) - (i + 1) + 1 : b[k] = q[i + 1 + k - 1]
    BY <2>1, SubSeqProperties
  <2> HIDE DEF b
  <2> QED
    BY <2>2
<1>4. /\ r \in Seq(S) /\ Len(r) = Len(a) + Len(b)
      /\ \A k \in 1 .. Len(a) + Len(b) :
           r[k] = IF k <= Len(a) THEN a[k] ELSE b[k - Len(a)]
  BY <1>2, <1>3, ConcatProperties DEF Cut
<1> HIDE DEF a, b, r
<1>0. Len(q) \in Nat /\ i \in Nat /\ 1 <= i /\ i <= Len(q)
  OBVIOUS
<1>5. Len(r) = Len(q) - 1 /\ DOMAIN r = 1 .. Len(r)
  <2>1. Len(a) + Len(b) = Len(q) - 1
    BY <1>0, <1>2, <1>3
  <2>2. r \in Seq(S) /\ Len(r) = Len(q) - 1
    BY <1>4, <2>1
  <2> QED
    BY <2>2, LenProperties
<1>6. ASSUME NEW k \in 1 .. Len(q) - 1
      PROVE  r[k] = q[IF k < i THEN k ELSE k + 1]
  <2>0. k \in Nat /\ 1 <= k /\ k <= Len(q) - 1
    BY <1>0
  <2>1. r[k] = IF k <= i - 1 THEN a[k] ELSE b[k - (i - 1)]
    <3>1. k \in 1 .. Len(a) + Len(b)
      BY <1>0, <1>2, <1>3, <2>0
    <3> QED
      BY <1>2, <1>4, <3>1
  <2>2. CASE k < i
    <3>1. k \in 1 .. i - 1
      BY <1>0, <2>0, <2>2
    <3>2. k <= i - 1
      BY <1>0, <2>0, <2>2
    <3> QED
      BY <1>2, <2>1, <2>2, <3>1, <3>2
  <2>3. CASE ~(k < i)
    <3>1. k - (i - 1) \in 1 .. Len(q) - i /\ i + (k - (i - 1)) = k + 1
      BY <1>0, <2>0, <2>3
    <3>2. ~(k <= i - 1)
      BY <1>0, <2>0, <2>3
    <3> QED
      BY <1>3, <2>1, <2>3, <3>1, <3>2
  <2> QED
    BY <2>2, <2>3
<1> QED
  BY <1>4, <1>5, <1>6 DEF r

(***************************************************************************)
(* Every state has the declared types; in particular the ring never holds  *)
(* more bytes than its capacity, nor more than were written.               *)
(***************************************************************************)
THEOREM TypeCorrect == Spec => []TypeOK
<1>1. Init => TypeOK
  <2>0. Init => late \in [Streams -> Nat] /\ wiped \subseteq Streams
    BY DEF Init
  <2>1. Init => /\ waiters \in Seq(Streams)
                /\ ctrl \in [Conns -> Seq(CtrlFrame)]
                /\ data \in [Conns -> Seq(DataFrame)]
    BY DEF Init
  <2>2. Init => /\ told \in [Streams -> SUBSET (Recorded \cup {"output"})]
                /\ pc \in [Streams -> StreamPc]
                /\ handler \in [Conns -> HandlerPc]
                /\ reader \in ReaderPc
    BY DEF Init, ReaderPc, StreamPc, HandlerPc
  <2> QED
    <3>1. Init => /\ head \in Nat /\ len \in 0 .. RingCap /\ len <= head
                  /\ drops \in Nat
                  /\ cursor \in [Streams -> Nat] /\ hand \in [Streams -> Nat]
                  /\ reported \in [Streams -> Nat]
                  /\ last \in [Streams -> Nat] /\ notes \in [Conns -> Nat]
      BY HolderAssumption DEF Init
    <3> QED
      <4>1. Init => /\ permit \in BOOLEAN
                    /\ live \in [Streams -> BOOLEAN]
                    /\ cancelled \in [Streams -> BOOLEAN]
                    /\ intact \in [Streams -> BOOLEAN]
        <5>1. /\ [s \in Streams |-> FALSE] \in [Streams -> BOOLEAN]
              /\ [s \in Streams |-> TRUE] \in [Streams -> BOOLEAN]
          OBVIOUS
        <5> QED
          BY <5>1 DEF Init
      <4>2. Init => /\ attacher \in Streams \cup {NoStream}
                    /\ conn \in [Streams -> Conns \cup {NoConn}]
                    /\ link \in [Conns -> {"up", "down", "dead"}]
                    /\ target \in [Conns -> Streams \cup {NoStream}]
                    /\ evicted \in [Conns -> Streams \cup {NoStream}]
                    /\ entry \in [Conns -> Streams \cup {NoStream}]
        BY DEF Init
      <4> QED
        BY <2>0, <2>1, <2>2, <3>1, <4>1, <4>2 DEF TypeOK
<1>2. TypeOK /\ [Next]_vars => TypeOK'
  <2> SUFFICES ASSUME TypeOK, [Next]_vars PROVE TypeOK'
    OBVIOUS
  <2> USE HolderAssumption
  <2>1. CASE Reader
    <3>1. ASSUME NEW n \in 1 .. MaxBytes, Push(n) PROVE TypeOK'
      BY <3>1, NotifyType DEF Push, TypeOK, streamVars, connVars, chanVars,
         seenVars, fateVars, Min2
    <3>2. ASSUME NEW n \in 1 .. MaxBytes, PushDropped(n) PROVE TypeOK'
      BY SMTT(30), <3>2, NotifyType DEF PushDropped, TypeOK, streamVars, connVars,
         chanVars, seenVars, fateVars, Min2, ReaderPc
    <3>3. CASE Renotify
      BY <3>3, NotifyType DEF Renotify, TypeOK, streamVars, connVars,
         chanVars, seenVars, fateVars, ReaderPc
    <3>4. CASE Exit
      BY <3>4, NotifyType DEF Exit, TypeOK, streamVars, connVars,
         chanVars, seenVars, fateVars, ReaderPc
    <3> QED
      BY <2>1, <3>1, <3>2, <3>3, <3>4 DEF Reader
  <2>2. ASSUME NEW c \in Conns, Request(c) PROVE TypeOK'
    <3> USE DEF HandlerTo, HandlerPc
    <3>1. ASSUME NEW s \in Streams, NEW start \in 0 .. MaxBytes,
                 Attach(c, s, start)
          PROVE  TypeOK'
      BY <3>1 DEF Attach, TypeOK, sessionVars, signalVars, chanVars, StreamPc, fateVars,
         alive
    <3>2. CASE AttachRefuse(c)
      BY <3>2 DEF AttachRefuse, TypeOK, sessionVars, signalVars, streamVars,
         chanVars, seenVars, fateVars
    <3>3. CASE DetachRequest(c)
      BY <3>3 DEF DetachRequest, TypeOK, sessionVars, signalVars, streamVars,
         chanVars, seenVars, fateVars
    <3> QED
      BY <2>2, <3>1, <3>2, <3>3 DEF Request
  <2>3. ASSUME NEW c \in Conns, Handle(c) PROVE TypeOK'
    <3> USE DEF HandlerTo, HandlerPc, sessionVars, signalVars, seenVars, fateVars
    <3>1. CASE AttachEvict(c)
      BY <3>1, PutType DEF AttachEvict, TypeOK, streamVars, CtrlKinds
    <3>2. CASE AttachRegister(c)
      BY <3>2 DEF AttachRegister, TypeOK, chanVars, alive
    <3>3. CASE AttachRespond(c)
      BY <3>3, PutType DEF AttachRespond, TypeOK, streamVars, CtrlKinds,
         StreamPc
    <3>4. CASE Reject(c)
      <4>1. ctrl' \in [Conns -> Seq(CtrlFrame)]
        BY <3>4, PutType DEF Reject, TypeOK, CtrlKinds
      <4> QED
        <5>1. notes' \in [Conns -> Nat]
          BY <3>4 DEF Reject, TypeOK
        <5>2. handler' \in [Conns -> HandlerPc]
          BY <3>4 DEF Reject, TypeOK
        <5> QED
          BY <3>4, <4>1, <5>1, <5>2 DEF Reject, TypeOK, streamVars
    <3>5. CASE DetachApply(c)
      BY <3>5 DEF DetachApply, TypeOK, chanVars
    <3>6. CASE DetachRespond(c)
      BY <3>6, PutType DEF DetachRespond, TypeOK, streamVars, CtrlKinds
    <3>7. CASE Teardown(c)
      BY <3>7 DEF Teardown, TypeOK, chanVars
    <3> QED
      BY <2>3, <3>1, <3>2, <3>3, <3>4, <3>5, <3>6, <3>7 DEF Handle
  <2>4. ASSUME NEW c \in Conns, Write(c) PROVE TypeOK'
    <3> USE DEF sessionVars, signalVars, streamVars, connVars
    <3>1. CASE WriteCtrl(c)
      <4>1. Tail(ctrl[c]) \in Seq(CtrlFrame) /\ Head(ctrl[c]) \in CtrlFrame
        BY <3>1 DEF WriteCtrl, TypeOK
      <4>2. told' \in [Streams -> SUBSET (Recorded \cup {"output"})]
        BY SMTT(30), <3>1, <4>1 DEF WriteCtrl, TypeOK, CtrlFrame
      <4> QED
        BY <3>1, <4>1, <4>2 DEF WriteCtrl, TypeOK, fateVars
    <3>2. CASE WriteData(c)
      <4>1. Tail(data[c]) \in Seq(DataFrame) /\ Head(data[c]) \in DataFrame
        BY <3>2 DEF WriteData, TypeOK
      <4>2. /\ last' \in [Streams -> Nat] /\ intact' \in [Streams -> BOOLEAN]
            /\ told' \in [Streams -> SUBSET (Recorded \cup {"output"})]
        BY <3>2, <4>1 DEF WriteData, TypeOK, DataFrame
      <4> QED
        BY <3>2, <4>1, <4>2 DEF WriteData, TypeOK, fateVars
    <3> QED
      BY <2>4, <3>1, <3>2 DEF Write
  <2>5. ASSUME NEW c \in Conns, WriterFail(c) \/ Heartbeat(c) \/ ClientGone(c)
        PROVE  TypeOK'
    <3> USE DEF sessionVars, signalVars, streamVars, seenVars, fateVars
    <3>1. CASE WriterFail(c)
      BY <3>1 DEF WriterFail, TypeOK
    <3>2. CASE Heartbeat(c)
      <4>1. ctrl' \in [Conns -> Seq(CtrlFrame)]
        BY <3>2, PutType DEF Heartbeat, TypeOK, CtrlKinds
      <4> QED
        <5>1. notes' \in [Conns -> Nat]
          BY <3>2 DEF Heartbeat, TypeOK
        <5> QED
          BY <3>2, <4>1, <5>1 DEF Heartbeat, TypeOK, connVars
    <3>3. CASE ClientGone(c)
      BY <3>3 DEF ClientGone, TypeOK, chanVars
    <3> QED
      BY <2>5, <3>1, <3>2, <3>3
  <2>6. ASSUME NEW s \in Streams, Stream(s) PROVE TypeOK'
    <3> USE DEF sessionVars, signalVars, seenVars, fateVars, StreamTo, StreamPc
    <3>1. CASE StreamStart(s)
      BY <3>1 DEF StreamStart, TypeOK, connVars, chanVars
    <3>2. CASE StreamReport(s)
      BY <3>2 DEF StreamReport, TypeOK, connVars, chanVars
    <3>3. ASSUME NEW from, NEW kind \in CtrlKinds, NEW then \in StreamPc,
                 StreamNotice(s, from, kind, then)
          PROVE  TypeOK'
      BY <3>3, PutType DEF StreamNotice, TypeOK, streamVars, connVars
    <3>4. CASE StreamReported(s) \/ StreamGap(s) \/ StreamExited(s)
      BY <3>3, <3>4 DEF StreamReported, StreamGap, StreamExited, CtrlKinds
    <3>5. CASE StreamRead(s)
      <4>1. Min2(cursor[s] + Chunk, head) \in Nat
        BY DEF TypeOK, Min2
      <4>2. cursor' \in [Streams -> Nat]
        <5>1. \/ cursor' = cursor
              \/ cursor' = [cursor EXCEPT ![s] = Min2(cursor[s] + Chunk, head)]
          BY <3>5 DEF StreamRead
        <5> QED
          BY <4>1, <5>1 DEF TypeOK
      <4>3. pc' \in [Streams -> StreamPc]
        BY <3>5 DEF StreamRead, TypeOK
      <4> QED
        BY <3>5, <4>2, <4>3 DEF StreamRead, TypeOK, connVars, chanVars
    <3>6. CASE StreamOffer(s)
      <4>1. [stream |-> s, from |-> hand[s], to |-> cursor[s]] \in DataFrame
        BY DEF TypeOK, DataFrame
      <4>2. data' \in [Conns -> Seq(DataFrame)]
        <5>1. CASE conn[s] \in Conns
          <6>1. data[conn[s]] \in Seq(DataFrame)
            BY <5>1 DEF TypeOK
          <6>2. Append(data[conn[s]], [stream |-> s, from |-> hand[s],
                                       to |-> cursor[s]]) \in Seq(DataFrame)
            BY <4>1, <6>1
          <6>3. \/ data' = data
                \/ data' = [data EXCEPT ![conn[s]] =
                      Append(@, [stream |-> s, from |-> hand[s],
                                 to |-> cursor[s]])]
            BY <3>6, Zenon DEF StreamOffer
          <6> QED
            BY <6>2, <6>3 DEF TypeOK
        <5>2. CASE conn[s] \notin Conns
          BY <3>6, <5>2 DEF StreamOffer, TypeOK
        <5> QED
          BY <5>1, <5>2
      <4>3. late' \in [Streams -> Nat]
        <5>1. late' = late \/ late' = [late EXCEPT ![s] = late[s] + 1]
          BY <3>6, Zenon DEF StreamOffer
        <5>2. late[s] + 1 \in Nat
          BY DEF TypeOK
        <5> QED
          BY <5>1, <5>2 DEF TypeOK
      <4> QED
        <5>1. hand' \in [Streams -> Nat] /\ pc' \in [Streams -> StreamPc]
          <6>1. hand' = hand \/ hand' = [hand EXCEPT ![s] = cursor[s]]
            BY <3>6, Zenon DEF StreamOffer
          <6>2. \E where \in {"leave", "full", "top"} : pc' = [pc EXCEPT ![s] = where]
            BY <3>6, Zenon DEF StreamOffer
          <6>3. hand' \in [Streams -> Nat]
            BY ZenonT(60), <6>1 DEF TypeOK
          <6>4. pc' \in [Streams -> StreamPc]
            BY <6>2 DEF TypeOK
          <6> QED
            BY <6>3, <6>4
        <5> QED
          BY <3>6, <4>2, <4>3, <5>1 DEF StreamOffer, TypeOK, connVars
    <3>7. CASE StreamWait(s)
      <4>1. Append(waiters, s) \in Seq(Streams)
        BY DEF TypeOK
      <4>2. waiters' \in Seq(Streams) /\ permit' \in BOOLEAN
        BY <3>7, <4>1 DEF StreamWait, TypeOK
      <4>3. pc' \in [Streams -> StreamPc]
        <5>1. \E where \in {"top", "parked"} : pc' = [pc EXCEPT ![s] = where]
          BY <3>7, Zenon DEF StreamWait
        <5> QED
          BY <5>1 DEF TypeOK
      <4> QED
        BY <3>7, <4>2, <4>3 DEF StreamWait, TypeOK, streamVars, connVars,
           chanVars
    <3>11. CASE \/ StreamSend(s) \/ StreamRepoll(s)
                \/ StreamCaught(s) \/ StreamListen(s)
      <4>1. \E where \in StreamPc : pc' = [pc EXCEPT ![s] = where]
        BY <3>11 DEF StreamSend, StreamRepoll, StreamCaught, StreamListen
      <4>2. UNCHANGED <<sessionVars, signalVars, attacher, streamVars, connVars,
                        chanVars, seenVars, fateVars>>
        BY <3>11 DEF StreamSend, StreamRepoll, StreamCaught, StreamListen
      <4> QED
        BY <4>1, <4>2 DEF TypeOK, streamVars, connVars, chanVars
    <3>8. CASE StreamWake(s)
      BY <3>8, NotifyType DEF StreamWake, TypeOK, streamVars, connVars, chanVars
    <3>9. CASE StreamCancelled(s)
      <4>1. waiters' \in Seq(Streams)
        <5>1. PICK i \in DOMAIN waiters : waiters' = Cut(waiters, i)
          BY <3>9 DEF StreamCancelled
        <5>2. waiters \in Seq(Streams) /\ i \in 1 .. Len(waiters)
          <6>1. waiters \in Seq(Streams)
            BY DEF TypeOK
          <6> QED
            BY <6>1
        <5> QED
          BY <5>1, <5>2, CutOne
      <4> QED
        BY <3>9, <4>1 DEF StreamCancelled, TypeOK, streamVars, connVars, chanVars
    <3>10. CASE StreamLeave(s)
      <4>1. wiped' \subseteq Streams
        BY <3>10 DEF StreamLeave
      <4> QED
        BY <3>10, <4>1 DEF StreamLeave, TypeOK, streamVars, chanVars
    <3> QED
      BY <2>6, <3>1, <3>2, <3>4, <3>5, <3>6, <3>7, <3>8, <3>9, <3>10,
         <3>11 DEF Stream
  <2>7. CASE UNCHANGED vars
    BY <2>7 DEF TypeOK, vars, sessionVars, signalVars, streamVars, connVars,
       chanVars, seenVars, fateVars
  <2> QED
    BY <2>1, <2>2, <2>3, <2>4, <2>5, <2>6, <2>7 DEF Next
<1> QED
  BY <1>1, <1>2, PTL DEF Spec

-----------------------------------------------------------------------------
(***************************************************************************)
(* Who is where.  The streams a signal can wake are parked, each once; a   *)
(* grant in progress names a stream of its own connection; a data channel  *)
(* holds frames of its own connection's streams only.                      *)
(***************************************************************************)
Parked ==
  /\ \A i \in DOMAIN waiters : pc[waiters[i]] = "parked"
  /\ \A i, j \in DOMAIN waiters : i # j => waiters[i] # waiters[j]

Connected == \A s \in Streams : pc[s] = "unused" <=> conn[s] = NoConn

Granting ==
  \A c \in Conns : handler[c] \in {"evict", "register", "respond"} =>
    /\ target[c] \in Streams
    /\ conn[target[c]] = c
    /\ pc[target[c]] = "granted"

FrameOwner ==
  \A c \in Conns : \A i \in DOMAIN data[c] : conn[data[c][i].stream] = c

Located == Parked /\ Connected /\ Granting /\ FrameOwner

(***************************************************************************)
(* A notify_one moves at most one parked streamer, to "woken", and keeps   *)
(* the wait list right.                                                    *)
(***************************************************************************)
LEMMA NotifyWakes ==
  ASSUME NEW next \in [Streams -> StreamPc], waiters \in Seq(Streams),
         \A i \in DOMAIN waiters : next[waiters[i]] = "parked",
         \A i, j \in DOMAIN waiters : i # j => waiters[i] # waiters[j],
         NotifyOne(next)
  PROVE  /\ Parked'
         /\ \A s \in Streams :
              \/ pc'[s] = next[s]
              \/ next[s] = "parked" /\ pc'[s] = "woken"
<1>1. CASE waiters = <<>>
  BY <1>1 DEF NotifyOne, Parked
<1>2. CASE waiters # <<>>
  <2>1. /\ waiters' = Tail(waiters)
        /\ pc' = [next EXCEPT ![Head(waiters)] = "woken"]
    BY <1>2 DEF NotifyOne
  <2>2. /\ Head(waiters) = waiters[1] /\ Head(waiters) \in Streams
        /\ 1 \in DOMAIN waiters
    BY <1>2
  <2>3. /\ DOMAIN waiters' = 1 .. Len(waiters) - 1
        /\ \A i \in 1 .. Len(waiters) - 1 :
             /\ waiters'[i] = waiters[i + 1] /\ i + 1 \in DOMAIN waiters
             /\ waiters[i + 1] \in Streams
    BY <1>2, <2>1
  <2>4. \A i \in DOMAIN waiters' : pc'[waiters'[i]] = "parked"
    <3> SUFFICES ASSUME NEW i \in 1 .. Len(waiters) - 1
                 PROVE  pc'[waiters[i + 1]] = "parked"
      BY <2>3
    <3>1. i + 1 # 1 /\ waiters[i + 1] # waiters[1]
      BY <2>2, <2>3
    <3> QED
      BY <2>1, <2>2, <2>3, <3>1
  <2>5. \A i, j \in DOMAIN waiters' : i # j => waiters'[i] # waiters'[j]
    <3> SUFFICES ASSUME NEW i \in 1 .. Len(waiters) - 1,
                        NEW j \in 1 .. Len(waiters) - 1, i # j
                 PROVE  waiters[i + 1] # waiters[j + 1]
      BY <2>3
    <3>1. i + 1 # j + 1
      OBVIOUS
    <3> QED
      BY <2>3, <3>1
  <2>6. next[Head(waiters)] = "parked"
    BY <2>2
  <2> QED
    BY <2>1, <2>2, <2>4, <2>5, <2>6 DEF Parked
<1> QED
  BY <1>1, <1>2

(***************************************************************************)
(* A streamer moves itself between the positions of a running stream, and  *)
(* others at most from parked to woken.                                    *)
(***************************************************************************)
LEMMA StreamMoves ==
  ASSUME TypeOK, Parked, NEW s \in Streams, Stream(s)
  PROVE  /\ UNCHANGED <<conn, target, handler>>
         /\ Parked'
         /\ pc[s] \notin {"unused", "granted"}
         /\ pc'[s] \notin {"unused", "granted"}
         /\ \A t \in Streams \ {s} :
              \/ pc'[t] = pc[t]
              \/ pc[t] = "parked" /\ pc'[t] = "woken"
<1> DEFINE Moves(from, to) ==
      /\ UNCHANGED <<conn, target, handler>>
      /\ pc[s] = from
      /\ pc' = [pc EXCEPT ![s] = to]
<1>1. ASSUME NEW from, NEW to, Moves(from, to), waiters' = waiters,
             from \notin {"parked", "unused", "granted"},
             to \notin {"unused", "granted"}
      PROVE  /\ UNCHANGED <<conn, target, handler>>
             /\ Parked'
             /\ pc[s] \notin {"unused", "granted"}
             /\ pc'[s] \notin {"unused", "granted"}
             /\ \A t \in Streams \ {s} : pc'[t] = pc[t]
  <2>1. \A i \in DOMAIN waiters : waiters[i] # s /\ waiters[i] \in Streams
    BY <1>1 DEF Parked, TypeOK
  <2>2. Parked'
    BY <1>1, <2>1 DEF Parked, TypeOK
  <2> QED
    BY <1>1, <2>2 DEF TypeOK
<1> USE DEF sessionVars, signalVars, streamVars, connVars, StreamTo
<1>2. CASE StreamStart(s)
  BY <1>1, <1>2, Moves("start", "top") DEF StreamStart
<1>3. CASE StreamReport(s)
  BY <1>1, <1>3, Moves("top", "report") DEF StreamReport
<1>4. CASE StreamReported(s)
  BY <1>1, <1>4, Moves("report", "read") DEF StreamReported, StreamNotice
<1>5. CASE StreamGap(s)
  BY <1>1, <1>5, Moves("gap", "leave") DEF StreamGap, StreamNotice
<1>6. CASE StreamExited(s)
  BY <1>1, <1>6, Moves("exit", "leave") DEF StreamExited, StreamNotice
<1>7. CASE StreamRead(s)
  <2>1. PICK from \in {"read", "top"}, to \in {"leave", "gap", "caught", "send"} :
          Moves(from, to) /\ waiters' = waiters
    BY <1>7 DEF StreamRead
  <2> QED
    BY <1>1, <2>1
<1>8. CASE StreamOffer(s)
  <2>1. PICK to \in {"leave", "full", "top"} :
          Moves("offer", to) /\ waiters' = waiters
    BY <1>8 DEF StreamOffer
  <2> QED
    BY <1>1, <2>1
<1>13. CASE \/ StreamSend(s) \/ StreamRepoll(s)
            \/ StreamCaught(s) \/ StreamListen(s)
  <2>1. PICK from \in {"send", "full", "caught", "listen"},
             to \in {"leave", "offer", "send", "listen", "exit", "wait"} :
          Moves(from, to) /\ waiters' = waiters
    BY <1>13 DEF StreamSend, StreamRepoll, StreamCaught, StreamListen
  <2> QED
    BY <1>1, <2>1
<1>9. CASE StreamLeave(s)
  BY <1>1, <1>9, Moves("leave", "done") DEF StreamLeave
<1>10. CASE StreamWait(s)
  <2>1. CASE waiters' = waiters
    <3>1. PICK to \in {"top", "parked"} : Moves("wait", to)
      BY <1>10 DEF StreamWait
    <3> QED
      BY <1>1, <2>1, <3>1
  <2>2. CASE waiters' = Append(waiters, s) /\ Moves("wait", "parked")
    <3>1. \A i \in DOMAIN waiters : waiters[i] # s /\ waiters[i] \in Streams
      BY <2>2 DEF Parked, TypeOK
    <3>2. /\ DOMAIN waiters' = 1 .. Len(waiters) + 1
          /\ \A i \in DOMAIN waiters : waiters'[i] = waiters[i]
          /\ DOMAIN waiters = 1 .. Len(waiters)
          /\ waiters'[Len(waiters) + 1] = s
          /\ Len(waiters) \in Nat
      <4>1. waiters \in Seq(Streams) /\ s \in Streams
        BY DEF TypeOK
      <4>2. waiters' = Append(waiters, s)
        BY <2>2
      <4> QED
        BY <4>1, <4>2, AppendProperties, LenProperties, ElementOfSeq
    <3>3. /\ pc'[s] = "parked"
          /\ \A t \in Streams \ {s} : pc'[t] = pc[t]
      BY <2>2 DEF TypeOK
    <3>4. \A i \in DOMAIN waiters' : pc'[waiters'[i]] = "parked"
      BY <3>1, <3>2, <3>3 DEF Parked
    <3>5. \A i, j \in DOMAIN waiters' : i # j => waiters'[i] # waiters'[j]
      BY <3>1, <3>2 DEF Parked
    <3> QED
      BY <2>2, <3>3, <3>4, <3>5 DEF Parked, TypeOK
  <2> QED
    BY <1>10, <2>1, <2>2 DEF StreamWait
<1>11. CASE StreamWake(s)
  <2>1. CASE Moves("woken", "top") /\ waiters' = waiters
    BY <1>1, <2>1, Moves("woken", "top")
  <2>2. CASE /\ UNCHANGED <<conn, target, handler>>
             /\ pc[s] = "woken"
             /\ NotifyOne([pc EXCEPT ![s] = "leave"])
    <3> DEFINE next == [pc EXCEPT ![s] = "leave"]
    <3>1. next \in [Streams -> StreamPc]
      BY DEF TypeOK, StreamPc
    <3>2. \A i \in DOMAIN waiters : next[waiters[i]] = "parked"
      BY <2>2 DEF Parked, TypeOK
    <3>3. /\ waiters \in Seq(Streams)
          /\ \A i, j \in DOMAIN waiters : i # j => waiters[i] # waiters[j]
      BY DEF Parked, TypeOK
    <3>4. NotifyOne(next)
      BY <2>2
    <3>5. /\ Parked'
          /\ \A t \in Streams : \/ pc'[t] = next[t]
                                \/ next[t] = "parked" /\ pc'[t] = "woken"
      BY <3>1, <3>2, <3>3, <3>4, NotifyWakes
    <3>6. next[s] = "leave" /\ \A t \in Streams \ {s} : next[t] = pc[t]
      BY DEF TypeOK
    <3> HIDE DEF next
    <3> QED
      BY <2>2, <3>5, <3>6
  <2> QED
    BY <1>11, <2>1, <2>2 DEF StreamWake
<1>12. CASE StreamCancelled(s)
  <2>1. PICK i \in DOMAIN waiters : waiters[i] = s /\ waiters' = Cut(waiters, i)
    BY <1>12 DEF StreamCancelled
  <2>2. Moves("parked", "leave")
    BY <1>12 DEF StreamCancelled
  <2>3. waiters \in Seq(Streams)
    BY DEF TypeOK
  <2>4. /\ DOMAIN waiters = 1 .. Len(waiters) /\ Len(waiters) \in Nat
        /\ i \in 1 .. Len(waiters)
    BY <2>1, <2>3
  <2>5. /\ DOMAIN waiters' = 1 .. Len(waiters) - 1
        /\ \A k \in 1 .. Len(waiters) - 1 :
             waiters'[k] = waiters[IF k < i THEN k ELSE k + 1]
    <3>1. /\ DOMAIN Cut(waiters, i) = 1 .. Len(waiters) - 1
          /\ \A k \in 1 .. Len(waiters) - 1 :
               Cut(waiters, i)[k] = waiters[IF k < i THEN k ELSE k + 1]
      BY <2>3, <2>4, CutOne
    <3> QED
      BY <2>1, <3>1
  <2>6. \A k \in DOMAIN waiters' :
          waiters'[k] \in Streams \ {s} /\ pc[waiters'[k]] = "parked"
    <3> SUFFICES ASSUME NEW k \in 1 .. Len(waiters) - 1
                 PROVE  waiters'[k] \in Streams \ {s} /\ pc[waiters'[k]] = "parked"
      BY <2>5
    <3> DEFINE old == IF k < i THEN k ELSE k + 1
    <3>1. old \in DOMAIN waiters /\ old # i /\ waiters'[k] = waiters[old]
      BY <2>4, <2>5
    <3> HIDE DEF old
    <3> QED
      <4>1. waiters[old] \in Streams
        BY <2>3, <2>4, <3>1
      <4>2. waiters[old] # waiters[i] /\ pc[waiters[old]] = "parked"
        BY <3>1, <2>1 DEF Parked
      <4> QED
        BY <2>1, <3>1, <4>1, <4>2
  <2>7. \A k, m \in DOMAIN waiters' : k # m => waiters'[k] # waiters'[m]
    <3> SUFFICES ASSUME NEW k \in 1 .. Len(waiters) - 1,
                        NEW m \in 1 .. Len(waiters) - 1, k # m
                 PROVE  waiters'[k] # waiters'[m]
      BY <2>5
    <3> DEFINE oldk == IF k < i THEN k ELSE k + 1
               oldm == IF m < i THEN m ELSE m + 1
    <3>1. /\ oldk \in DOMAIN waiters /\ oldm \in DOMAIN waiters /\ oldk # oldm
          /\ waiters'[k] = waiters[oldk] /\ waiters'[m] = waiters[oldm]
      BY <2>4, <2>5
    <3> HIDE DEF oldk, oldm
    <3> QED
      BY <3>1 DEF Parked
  <2>8. Parked'
    BY <2>2, <2>6, <2>7 DEF Parked, TypeOK
  <2> QED
    BY <2>2, <2>8 DEF TypeOK
<1> QED
  BY <1>2, <1>3, <1>4, <1>5, <1>6, <1>7, <1>8, <1>9, <1>10, <1>11, <1>12,
     <1>13 DEF Stream

(***************************************************************************)
(* What a step of the reader thread does to the wait list, Located bears:  *)
(* the notified streamer leaves it as it wakes.                            *)
(***************************************************************************)
LEMMA ReaderNotifies ==
  ASSUME TypeOK, Parked, NotifyOne(pc)
  PROVE  /\ Parked'
         /\ \A s \in Streams : \/ pc'[s] = pc[s]
                               \/ pc[s] = "parked" /\ pc'[s] = "woken"
<1>1. /\ pc \in [Streams -> StreamPc] /\ waiters \in Seq(Streams)
      /\ \A i \in DOMAIN waiters : pc[waiters[i]] = "parked"
      /\ \A i, j \in DOMAIN waiters : i # j => waiters[i] # waiters[j]
  BY DEF TypeOK, Parked
<1> QED
  BY <1>1, NotifyWakes

(* Located holds of the initial states: nothing is parked, granted or
   queued. *)
LEMMA LocatedInit == Init => Located
<1> SUFFICES ASSUME Init PROVE Located
  OBVIOUS
<1>1. Parked
  BY DEF Init, Parked
<1>2. Connected /\ Granting /\ FrameOwner
  BY DEF Init, Connected, Granting, FrameOwner
<1> QED
  BY <1>1, <1>2 DEF Located

(* Every step of the reader, a handler, a streamer or a writer keeps
   Located. *)
LEMMA LocatedStep ==
  ASSUME TypeOK, Located, [Next]_vars
  PROVE  Located'
<1> USE HolderAssumption
<1>1. ASSUME UNCHANGED <<conn, target, handler, data>>, Parked',
             \A s \in Streams : \/ pc'[s] = pc[s]
                                \/ pc[s] = "parked" /\ pc'[s] = "woken"
      PROVE  Located'
  <2>1. Connected'
    BY <1>1 DEF Located, Connected
  <2>2. Granting' /\ FrameOwner'
    BY <1>1 DEF Located, Granting, FrameOwner
  <2> QED
    BY <1>1, <2>1, <2>2 DEF Located
<1>2. CASE Reader
  <2>1. NotifyOne(pc) /\ UNCHANGED <<conn, target, handler, data>>
    BY <1>2 DEF Reader, Push, PushDropped, Renotify, Exit, streamVars, connVars,
       chanVars
  <2> QED
    BY <1>1, <2>1, ReaderNotifies DEF Located
<1>3. ASSUME UNCHANGED <<signalVars, pc, conn, data>>, NEW c \in Conns,
             \E where \in HandlerPc \ {"evict", "register", "respond"} :
               handler' = [handler EXCEPT ![c] = where],
             \A d \in Conns \ {c} : target'[d] = target[d]
      PROVE  Located'
  <2>1. Parked' /\ Connected' /\ FrameOwner'
    BY <1>3 DEF Located, Parked, Connected, FrameOwner, signalVars
  <2>2. handler'[c] \notin {"evict", "register", "respond"}
    BY <1>3 DEF TypeOK
  <2>3. \A d \in Conns \ {c} : handler'[d] = handler[d]
    BY <1>3 DEF TypeOK
  <2>4. Granting'
    BY <1>3, <2>2, <2>3 DEF Located, Granting
  <2> QED
    BY <2>1, <2>4 DEF Located
<1>4. ASSUME NEW c \in Conns, NEW s \in Streams, NEW start,
             Attach(c, s, start)
      PROVE  Located'
  <2> USE <1>4
  <2>1. /\ pc[s] = "unused" /\ conn[s] = NoConn
        /\ pc' = [pc EXCEPT ![s] = "granted"] /\ conn' = [conn EXCEPT ![s] = c]
        /\ target' = [target EXCEPT ![c] = s]
        /\ UNCHANGED <<permit, waiters, data>>
    BY DEF Attach, Located, Connected, signalVars, chanVars
  <2>2. Parked'
    <3>1. \A i \in DOMAIN waiters : waiters[i] \in Streams /\ waiters[i] # s
      BY <2>1 DEF Located, Parked, TypeOK
    <3> QED
      BY <2>1, <3>1 DEF Located, Parked, TypeOK
  <2>3. Connected'
    BY <2>1 DEF Located, Connected, TypeOK
  <2>4. \A d \in Conns \ {c} : handler'[d] = handler[d] /\ target'[d] = target[d]
    BY DEF Attach, HandlerTo, TypeOK
  <2>5. Granting'
    BY SMTT(30), <2>1, <2>4 DEF Located, Granting, TypeOK
  <2>6. FrameOwner'
    <3> SUFFICES ASSUME NEW d \in Conns, NEW i \in DOMAIN data[d]
                 PROVE  conn'[data[d][i].stream] = d
      BY <2>1 DEF FrameOwner
    <3>1. data[d][i].stream \in Streams /\ conn[data[d][i].stream] = d
      <4>1. data[d] \in Seq(DataFrame)
        BY DEF TypeOK
      <4>2. data[d][i] \in DataFrame
        BY <4>1
      <4> QED
        BY <4>2 DEF DataFrame, Located, FrameOwner
    <3>2. data[d][i].stream # s
      BY <2>1, <3>1
    <3> QED
      BY <2>1, <3>1, <3>2 DEF TypeOK
  <2> QED
    BY <2>2, <2>3, <2>5, <2>6 DEF Located
<1>5. ASSUME NEW c \in Conns, Request(c) PROVE Located'
  <2>1. CASE AttachRefuse(c)
    BY <1>3, <2>1 DEF AttachRefuse, HandlerTo, HandlerPc, streamVars, chanVars
  <2>2. CASE DetachRequest(c)
    <3>1. \E where \in {"detach", "reject"} :
            handler' = [handler EXCEPT ![c] = where]
      BY <2>2 DEF DetachRequest, HandlerTo
    <3> QED
      BY <1>3, <2>2, <3>1 DEF DetachRequest, HandlerPc, streamVars, chanVars
  <2> QED
    BY <1>4, <1>5, <2>1, <2>2 DEF Request
<1>6. ASSUME NEW c \in Conns, Handle(c) PROVE Located'
  <2>1. ASSUME UNCHANGED <<signalVars, pc, conn, target, data>>,
               handler[c] \in {"evict", "register"},
               \E where \in {"register", "respond"} :
                 handler' = [handler EXCEPT ![c] = where]
        PROVE  Located'
    <3>1. Parked' /\ Connected' /\ FrameOwner'
      BY <2>1 DEF Located, Parked, Connected, FrameOwner, signalVars
    <3>2. Granting'
      BY <2>1 DEF Located, Granting, TypeOK
    <3> QED
      BY <3>1, <3>2 DEF Located
  <2>2. CASE AttachEvict(c)
    BY <2>1, <2>2 DEF AttachEvict, HandlerTo, streamVars
  <2>3. CASE AttachRegister(c)
    BY <2>1, <2>3 DEF AttachRegister, HandlerTo, chanVars
  <2>4. CASE AttachRespond(c)
    <3> DEFINE s == target[c]
    <3>1. s \in Streams /\ conn[s] = c /\ pc[s] = "granted"
      BY <2>4 DEF AttachRespond, Located, Granting
    <3>2. /\ pc' = [pc EXCEPT ![s] = "start"]
          /\ handler' = [handler EXCEPT ![c] = "idle"]
          /\ target' = [target EXCEPT ![c] = NoStream]
          /\ UNCHANGED <<permit, waiters, conn, data>>
      BY <2>4 DEF AttachRespond, HandlerTo, signalVars, streamVars
    <3> HIDE DEF s
    <3>3. Parked'
      <4>1. \A i \in DOMAIN waiters : waiters[i] \in Streams /\ waiters[i] # s
        BY <3>1 DEF Located, Parked, TypeOK
      <4> QED
        BY <3>2, <4>1 DEF Located, Parked, TypeOK
    <3>4. Connected' /\ FrameOwner'
      BY <3>1, <3>2 DEF Located, Connected, FrameOwner, TypeOK
    <3>5. Granting'
      <4> SUFFICES ASSUME NEW d \in Conns,
                          handler'[d] \in {"evict", "register", "respond"}
                   PROVE  /\ target'[d] \in Streams
                          /\ conn'[target'[d]] = d
                          /\ pc'[target'[d]] = "granted"
        BY DEF Granting
      <4>1. d # c /\ handler'[d] = handler[d] /\ target'[d] = target[d]
        BY <3>2 DEF TypeOK
      <4>2. /\ target[d] \in Streams /\ conn[target[d]] = d
            /\ pc[target[d]] = "granted"
        BY <4>1 DEF Located, Granting
      <4>3. target[d] # s
        BY <3>1, <4>1, <4>2
      <4> QED
        BY <3>2, <4>1, <4>2, <4>3 DEF TypeOK
    <3> QED
      BY <3>3, <3>4, <3>5 DEF Located
  <2>5. CASE Reject(c)
    BY <1>3, <2>5 DEF Reject, HandlerTo, HandlerPc, streamVars
  <2>6. CASE DetachApply(c)
    BY <1>3, <2>6 DEF DetachApply, HandlerTo, HandlerPc, chanVars
  <2>7. CASE DetachRespond(c)
    BY <1>3, <2>7 DEF DetachRespond, HandlerTo, HandlerPc, streamVars
  <2>8. CASE Teardown(c)
    BY <1>3, <2>8 DEF Teardown, HandlerTo, HandlerPc, chanVars
  <2> QED
    BY <1>6, <2>2, <2>3, <2>4, <2>5, <2>6, <2>7, <2>8 DEF Handle
<1>7. ASSUME NEW c \in Conns, UNCHANGED <<signalVars, pc, conn, target, handler>>,
             \/ data' = data
             \/ data[c] # <<>> /\ data' = [data EXCEPT ![c] = Tail(@)]
             \/ data' = [data EXCEPT ![c] = <<>>]
      PROVE  Located'
  <2>1. Parked' /\ Connected' /\ Granting'
    BY <1>7 DEF Located, Parked, Connected, Granting, signalVars
  <2>2. FrameOwner'
    <3>1. CASE data' = data
      BY <1>7, <3>1 DEF Located, FrameOwner
    <3>2. CASE data[c] # <<>> /\ data' = [data EXCEPT ![c] = Tail(@)]
      <4>1. data[c] \in Seq(DataFrame)
        BY DEF TypeOK
      <4>2. \A i \in DOMAIN Tail(data[c]) :
              i + 1 \in DOMAIN data[c] /\ Tail(data[c])[i] = data[c][i + 1]
        BY <3>2, <4>1
      <4>3. data'[c] = Tail(data[c]) /\ \A d \in Conns \ {c} : data'[d] = data[d]
        BY <3>2 DEF TypeOK
      <4>4. conn' = conn
        BY <1>7
      <4> SUFFICES ASSUME NEW d \in Conns, NEW i \in DOMAIN data'[d]
                   PROVE  conn[data'[d][i].stream] = d
        BY <4>4 DEF FrameOwner
      <4>5. \E k \in DOMAIN data[d] : data'[d][i] = data[d][k]
        BY <4>2, <4>3
      <4> QED
        BY <4>5 DEF Located, FrameOwner
    <3>3. CASE data' = [data EXCEPT ![c] = <<>>]
      BY <1>7, <3>3 DEF Located, FrameOwner, TypeOK
    <3> QED
      BY <1>7, <3>1, <3>2, <3>3
  <2> QED
    BY <2>1, <2>2 DEF Located
<1>8. ASSUME NEW c \in Conns,
             Write(c) \/ WriterFail(c) \/ Heartbeat(c) \/ ClientGone(c)
      PROVE  Located'
  <2> USE <1>7, <1>8 DEF streamVars, connVars, chanVars
  <2>1. CASE WriteCtrl(c)
    BY <2>1 DEF WriteCtrl
  <2>2. CASE WriteData(c)
    BY <2>2 DEF WriteData
  <2>3. CASE WriterFail(c)
    BY <2>3 DEF WriterFail
  <2>4. CASE Heartbeat(c)
    BY <2>4 DEF Heartbeat
  <2>5. CASE ClientGone(c)
    BY <2>5 DEF ClientGone
  <2> QED
    BY <2>1, <2>2, <2>3, <2>4, <2>5 DEF Write
<1>9. ASSUME NEW s \in Streams, Stream(s) PROVE Located'
  <2>1. /\ UNCHANGED <<conn, target, handler>>
        /\ Parked'
        /\ pc[s] \notin {"unused", "granted"}
        /\ pc'[s] \notin {"unused", "granted"}
        /\ \A t \in Streams \ {s} :
             \/ pc'[t] = pc[t]
             \/ pc[t] = "parked" /\ pc'[t] = "woken"
    BY <1>9, StreamMoves DEF Located
  <2>2. Connected'
    BY <2>1 DEF Located, Connected
  <2>3. Granting'
    BY <2>1 DEF Located, Granting
  <2>4. FrameOwner'
    <3>1. CASE data' = data
      BY <2>1, <3>1 DEF Located, FrameOwner
    <3>2. CASE data' # data
      <4>1. StreamOffer(s)
        BY <1>9, <3>2 DEF Stream, StreamSend, StreamRepoll, StreamListen,
           StreamWait, StreamStart, StreamReport, StreamReported,
           StreamGap, StreamExited, StreamNotice, StreamRead, StreamCaught,
           StreamWake, StreamCancelled, StreamLeave, chanVars
      <4>2. data' = [data EXCEPT ![conn[s]] =
               Append(@, [stream |-> s, from |-> hand[s], to |-> cursor[s]])]
        BY <3>2, <4>1 DEF StreamOffer
      <4>3. conn[s] \in Conns /\ data[conn[s]] \in Seq(DataFrame)
        BY <2>1 DEF Located, Connected, TypeOK
      <4> DEFINE f == [stream |-> s, from |-> hand[s], to |-> cursor[s]]
      <4>4. /\ f.stream = s
            /\ \A i \in DOMAIN Append(data[conn[s]], f) :
                 \/ i \in DOMAIN data[conn[s]] /\ Append(data[conn[s]], f)[i]
                                                    = data[conn[s]][i]
                 \/ Append(data[conn[s]], f)[i] = f
        BY <4>3
      <4> HIDE DEF f
      <4>5. /\ data'[conn[s]] = Append(data[conn[s]], f)
            /\ \A d \in Conns \ {conn[s]} : data'[d] = data[d]
        BY <4>2, <4>3 DEF TypeOK, f
      <4> SUFFICES ASSUME NEW d \in Conns, NEW i \in DOMAIN data'[d]
                   PROVE  conn[data'[d][i].stream] = d
        BY <2>1 DEF FrameOwner
      <4>6. \/ \E k \in DOMAIN data[d] : data'[d][i] = data[d][k]
            \/ d = conn[s] /\ data'[d][i] = f
        BY <4>3, <4>4, <4>5
      <4> QED
        BY <4>4, <4>6 DEF Located, FrameOwner
    <3> QED
      BY <3>1, <3>2
  <2> QED
    BY <2>1, <2>2, <2>3, <2>4 DEF Located
<1>10. CASE UNCHANGED vars
  BY <1>10 DEF vars, Located, Parked, Connected, Granting, FrameOwner,
     signalVars, streamVars, connVars, chanVars
<1> QED
  BY <1>2, <1>5, <1>6, <1>8, <1>9, <1>10 DEF Next

(* The wait list of the ring's signal names exactly the parked streamers,
   each once; a handler's grant is a granted stream of its own connection;
   a data channel carries only frames of its connection's streams. *)
THEOREM LocatedCorrect == Spec => []Located
<1>1. TypeOK /\ Located /\ [Next]_vars => Located'
  BY LocatedStep
<1> QED
  BY <1>1, LocatedInit, TypeCorrect, PTL DEF Spec

-----------------------------------------------------------------------------
(***************************************************************************)
(* The frames of stream s queued in q lead, end to start, from byte a to   *)
(* byte b.                                                                 *)
(***************************************************************************)
Absent(q, s, from, to) == \A k \in from .. to : q[k].stream # s

Chained(q, s, a, b) ==
  /\ Absent(q, s, 1, Len(q)) => a = b
  /\ \A i \in 1 .. Len(q) : q[i].stream = s =>
       /\ Absent(q, s, 1, i - 1) => q[i].from = a
       /\ Absent(q, s, i + 1, Len(q)) => q[i].to = b
       /\ \A j \in i + 1 .. Len(q) :
            q[j].stream = s /\ Absent(q, s, i + 1, j - 1) => q[j].from = q[i].to

(* No frames of s: the chain is empty. *)
LEMMA ChainEmpty == \A s, a : Chained(<<>>, s, a, a)
BY DEF Chained

(***************************************************************************)
(* Appending a frame that starts where the chain ends lengthens it; a      *)
(* frame of another stream leaves it alone.                                *)
(***************************************************************************)
LEMMA ChainAppend ==
  ASSUME NEW q \in Seq(DataFrame), NEW f \in DataFrame, NEW s, NEW a, NEW b,
         Chained(q, s, a, b)
  PROVE  /\ f.stream = s /\ f.from = b => Chained(Append(q, f), s, a, f.to)
         /\ f.stream # s => Chained(Append(q, f), s, a, b)
<1> DEFINE r == Append(q, f)
           n == Len(q)
<1>1. /\ Len(r) = n + 1 /\ r[n + 1] = f /\ n \in Nat
      /\ \A i \in 1 .. n : r[i] = q[i]
  BY AppendProperties
<1> HIDE DEF r, n
<1>2. \A i \in 1 .. n + 1 : i \in 1 .. n \/ i = n + 1
  BY <1>1
<1>3. ASSUME NEW x \in Int, NEW y \in Int, 1 <= x, y <= n
      PROVE  Absent(r, s, x, y) <=> Absent(q, s, x, y)
  <2>1. \A k \in x .. y : r[k] = q[k]
    BY <1>1, <1>3
  <2> QED
    BY <2>1 DEF Absent
<1>4. CASE f.stream = s /\ f.from = b
  <2>1. ~Absent(r, s, 1, n + 1)
    BY <1>1, <1>4 DEF Absent
  <2>2. ASSUME NEW i \in 1 .. n + 1, r[i].stream = s
        PROVE  /\ Absent(r, s, 1, i - 1) => r[i].from = a
               /\ Absent(r, s, i + 1, n + 1) => r[i].to = f.to
               /\ \A j \in i + 1 .. n + 1 :
                    r[j].stream = s /\ Absent(r, s, i + 1, j - 1)
                      => r[j].from = r[i].to
    <3>1. CASE i = n + 1
      <4>1. Absent(r, s, 1, i - 1) => r[i].from = a
        BY <1>1, <1>3, <1>4, <3>1 DEF Chained, n
      <4> QED
        BY <1>1, <3>1, <4>1
    <3>2. CASE i \in 1 .. n
      <4>1. Absent(r, s, 1, i - 1) => r[i].from = a
        BY <1>1, <1>3, <2>2, <3>2 DEF Chained, n
      <4>2. ~Absent(r, s, i + 1, n + 1)
        BY <1>1, <1>4, <3>2 DEF Absent
      <4>3. ASSUME NEW j \in i + 1 .. n + 1, r[j].stream = s,
                   Absent(r, s, i + 1, j - 1)
            PROVE  r[j].from = r[i].to
        <5>1. Absent(q, s, i + 1, j - 1) /\ r[i] = q[i]
          BY <1>1, <1>3, <3>2, <4>3
        <5>2. CASE j = n + 1
          BY <1>1, <1>4, <2>2, <3>2, <5>1, <5>2 DEF Chained, n
        <5>3. CASE j \in i + 1 .. n
          BY <1>1, <2>2, <3>2, <4>3, <5>1, <5>3 DEF Chained, n
        <5> QED
          BY <1>1, <3>2, <5>2, <5>3
      <4> QED
        BY <4>1, <4>2, <4>3
    <3> QED
      BY <1>2, <3>1, <3>2
  <2> QED
    BY <1>1, <1>4, <2>1, <2>2 DEF Chained, r
<1>5. CASE f.stream # s
  <2>1. Absent(r, s, 1, n + 1) => a = b
    <3>1. Absent(r, s, 1, n + 1) => Absent(q, s, 1, n)
      BY <1>1 DEF Absent
    <3> QED
      BY <3>1 DEF Chained, n
  <2>2. ASSUME NEW i \in 1 .. n + 1, r[i].stream = s
        PROVE  /\ i \in 1 .. n /\ r[i] = q[i]
               /\ Absent(r, s, 1, i - 1) => r[i].from = a
               /\ Absent(r, s, i + 1, n + 1) => r[i].to = b
               /\ \A j \in i + 1 .. n + 1 :
                    r[j].stream = s /\ Absent(r, s, i + 1, j - 1)
                      => r[j].from = r[i].to
    <3>1. i \in 1 .. n /\ r[i] = q[i]
      BY <1>1, <1>2, <1>5, <2>2
    <3>2. Absent(r, s, 1, i - 1) => r[i].from = a
      BY <1>1, <1>3, <2>2, <3>1 DEF Chained, n
    <3>3. Absent(r, s, i + 1, n + 1) => r[i].to = b
      <4>1. Absent(r, s, i + 1, n + 1) => Absent(q, s, i + 1, n)
        BY <1>1, <3>1 DEF Absent
      <4> QED
        BY <2>2, <3>1, <4>1 DEF Chained, n
    <3>4. ASSUME NEW j \in i + 1 .. n + 1, r[j].stream = s,
                 Absent(r, s, i + 1, j - 1)
          PROVE  r[j].from = r[i].to
      <4>1. j \in i + 1 .. n /\ r[j] = q[j]
        BY <1>1, <1>5, <3>1, <3>4
      <4>2. Absent(q, s, i + 1, j - 1)
        BY <1>1, <1>3, <3>1, <3>4, <4>1
      <4> QED
        BY <2>2, <3>1, <3>4, <4>1, <4>2 DEF Chained, n
    <3> QED
      BY <3>1, <3>2, <3>3, <3>4
  <2> QED
    BY <1>1, <2>1, <2>2 DEF Chained, r
<1> QED
  BY <1>4, <1>5 DEF r

(***************************************************************************)
(* The first queued frame of s starts where the chain does, and without it *)
(* the chain starts where that frame ends.                                 *)
(***************************************************************************)
LEMMA ChainTail ==
  ASSUME NEW q \in Seq(DataFrame), q # <<>>, NEW s, NEW a, NEW b,
         Chained(q, s, a, b)
  PROVE  /\ Head(q).stream = s => /\ Head(q).from = a
                                  /\ Chained(Tail(q), s, Head(q).to, b)
         /\ Head(q).stream # s => Chained(Tail(q), s, a, b)
<1> DEFINE r == Tail(q)
           n == Len(q)
<1>1. /\ Len(r) = n - 1 /\ n \in Nat /\ 1 <= n /\ Head(q) = q[1]
      /\ \A i \in 1 .. n - 1 : r[i] = q[i + 1]
  BY HeadTailProperties
<1> HIDE DEF r, n
<1>2. ASSUME NEW x \in Int, NEW y \in Int, 1 <= x, y <= n - 1
      PROVE  Absent(r, s, x, y) <=> Absent(q, s, x + 1, y + 1)
  <2>1. \A k \in x .. y : r[k] = q[k + 1] /\ k + 1 \in x + 1 .. y + 1
    BY <1>1, <1>2
  <2>2. \A k \in x + 1 .. y + 1 : k - 1 \in x .. y /\ r[k - 1] = q[k]
    BY <1>1, <1>2
  <2> QED
    BY <2>1, <2>2 DEF Absent
<1>3. ASSUME NEW i \in 1 .. n - 1, r[i].stream = s
      PROVE  /\ i + 1 \in 1 .. n /\ r[i] = q[i + 1]
             /\ Absent(r, s, i + 1, n - 1) => r[i].to = b
             /\ \A j \in i + 1 .. n - 1 :
                  r[j].stream = s /\ Absent(r, s, i + 1, j - 1)
                    => r[j].from = r[i].to
  <2>1. i + 1 \in 1 .. n /\ r[i] = q[i + 1]
    BY <1>1, <1>3
  <2>2. Absent(r, s, i + 1, n - 1) => r[i].to = b
    <3>1. Absent(r, s, i + 1, n - 1) <=> Absent(q, s, i + 2, n)
      <4>1. i + 1 + 1 = i + 2 /\ n - 1 + 1 = n
        BY <1>1
      <4> QED
        BY <1>1, <1>2, <4>1
    <3>2. i + 1 + 1 = i + 2
      OBVIOUS
    <3> QED
      BY <1>3, <2>1, <3>1, <3>2 DEF Chained, n
  <2>3. ASSUME NEW j \in i + 1 .. n - 1, r[j].stream = s,
               Absent(r, s, i + 1, j - 1)
        PROVE  r[j].from = r[i].to
    <3>1. j + 1 \in i + 1 + 1 .. n /\ r[j] = q[j + 1]
      BY <1>1, <2>3
    <3>2. Absent(q, s, i + 1 + 1, j + 1 - 1)
      <4>1. Absent(q, s, i + 1 + 1, j - 1 + 1)
        BY <1>1, <1>2, <2>3
      <4>2. j - 1 + 1 = j + 1 - 1
        BY <2>3
      <4> QED
        BY <4>1, <4>2
    <3> QED
      BY <1>3, <2>1, <2>3, <3>1, <3>2 DEF Chained, n
  <2> QED
    BY <2>1, <2>2, <2>3
<1>4. CASE Head(q).stream = s
  <2>1. Head(q).from = a
    <3>1. Absent(q, s, 1, 1 - 1)
      BY DEF Absent
    <3> QED
      BY <1>1, <1>4, <3>1 DEF Chained, n
  <2>2. Absent(r, s, 1, n - 1) => Head(q).to = b
    <3>1. Absent(r, s, 1, n - 1) => Absent(q, s, 1 + 1, n)
      BY <1>1, <1>2
    <3> QED
      BY <1>1, <1>4, <3>1 DEF Chained, n
  <2>3. ASSUME NEW i \in 1 .. n - 1, r[i].stream = s, Absent(r, s, 1, i - 1)
        PROVE  r[i].from = Head(q).to
    <3>1. i + 1 \in 1 + 1 .. n /\ r[i] = q[i + 1]
      BY <1>1, <2>3
    <3>2. Absent(q, s, 1 + 1, i + 1 - 1)
      <4>1. Absent(q, s, 1 + 1, i - 1 + 1)
        BY <1>1, <1>2, <2>3
      <4>2. i - 1 + 1 = i + 1 - 1
        BY <2>3
      <4> QED
        BY <4>1, <4>2
    <3> QED
      BY <1>1, <1>4, <2>3, <3>1, <3>2 DEF Chained, n
  <2> QED
    BY <1>1, <1>3, <1>4, <2>1, <2>2, <2>3 DEF Chained, r
<1>5. CASE Head(q).stream # s
  <2>1. ASSUME NEW y \in Int, y <= n - 1
        PROVE  Absent(r, s, 1, y) => Absent(q, s, 1, y + 1)
    <3>1. Absent(r, s, 1, y) => Absent(q, s, 2, y + 1)
      BY <1>1, <1>2, <2>1
    <3> QED
      BY <1>1, <1>5, <3>1 DEF Absent
  <2>2. Absent(r, s, 1, n - 1) => a = b
    BY <1>1, <2>1 DEF Chained, n
  <2>3. ASSUME NEW i \in 1 .. n - 1, r[i].stream = s, Absent(r, s, 1, i - 1)
        PROVE  r[i].from = a
    <3>1. Absent(q, s, 1, i + 1 - 1)
      <4>1. Absent(q, s, 1, i - 1 + 1)
        BY <1>1, <2>1, <2>3
      <4>2. i - 1 + 1 = i + 1 - 1
        BY <2>3
      <4> QED
        BY <4>1, <4>2
    <3> QED
      BY <1>3, <2>3, <3>1 DEF Chained, n
  <2> QED
    BY <1>1, <1>3, <1>5, <2>2, <2>3 DEF Chained, r
<1> QED
  BY <1>4, <1>5 DEF r

-----------------------------------------------------------------------------
(***************************************************************************)
(* The state of a delivery: what a client has received, what is queued for *)
(* it and what the streamer has read follow each other without a hole,     *)
(* below the head of the ring.                                             *)
(***************************************************************************)
Ordered ==
  \A s \in Streams :
    last[s] <= hand[s] /\ hand[s] <= cursor[s] /\ cursor[s] <= head

Queued ==
  \A c \in Conns : \A i \in DOMAIN data[c] :
    data[c][i].to <= hand[data[c][i].stream]

Linked ==
  \A s \in Streams : conn[s] \in Conns /\ link[conn[s]] # "dead" =>
    Chained(data[conn[s]], s, last[s], hand[s])

Delivery == Ordered /\ Queued /\ Linked /\ \A s \in Streams : intact[s]

deliveryVars == <<conn, cursor, hand, last, intact, data>>

(***************************************************************************)
(* The steps that touch the delivery; no other ends a writer.              *)
(***************************************************************************)
LEMMA DeliverySteps ==
  ASSUME [Next]_vars, TypeOK
  PROVE  \/ \E n \in 1 .. MaxBytes : Push(n)
         \/ \E c \in Conns, s \in Streams, start \in 0 .. MaxBytes :
              Attach(c, s, start)
         \/ \E s \in Streams : StreamRead(s) \/ StreamOffer(s)
         \/ \E c \in Conns : WriteData(c) \/ WriterFail(c)
         \/ /\ UNCHANGED <<head, deliveryVars>>
            /\ \A c \in Conns : link'[c] = "dead" <=> link[c] = "dead"
<1> USE DEF deliveryVars, sessionVars, signalVars, streamVars, connVars,
            chanVars, seenVars, fateVars
<1>1. CASE Reader
  BY <1>1 DEF Reader, PushDropped, Renotify, Exit
<1>2. ASSUME NEW c \in Conns, Request(c) \/ Handle(c)
      PROVE  \/ \E s \in Streams, start \in 0 .. MaxBytes : Attach(c, s, start)
             \/ UNCHANGED <<head, deliveryVars, link>>
  <2>1. CASE Request(c)
    BY <2>1 DEF Request, AttachRefuse, DetachRequest
  <2>2. CASE AttachEvict(c) \/ AttachRegister(c) \/ AttachRespond(c) \/ Reject(c)
    BY <2>2 DEF AttachEvict, AttachRegister, AttachRespond, Reject
  <2>3. CASE DetachApply(c) \/ DetachRespond(c) \/ Teardown(c)
    BY <2>3 DEF DetachApply, DetachRespond, Teardown
  <2> QED
    BY <1>2, <2>1, <2>2, <2>3 DEF Handle
<1>3. ASSUME NEW c \in Conns, WriteCtrl(c) \/ Heartbeat(c)
      PROVE  UNCHANGED <<head, deliveryVars, link>>
  BY <1>3 DEF WriteCtrl, Heartbeat
<1>4. ASSUME NEW c \in Conns, ClientGone(c)
      PROVE  /\ UNCHANGED <<head, deliveryVars>>
             /\ \A d \in Conns : link'[d] = "dead" <=> link[d] = "dead"
  BY <1>4 DEF ClientGone, TypeOK
<1>5. ASSUME NEW s \in Streams, Stream(s)
      PROVE  \/ StreamRead(s) \/ StreamOffer(s)
             \/ UNCHANGED <<head, deliveryVars, link>>
  <2>1. CASE StreamStart(s) \/ StreamReport(s) \/ StreamReported(s) \/ StreamGap(s)
               \/ StreamExited(s)
    BY <2>1 DEF StreamStart, StreamReport, StreamReported, StreamGap,
       StreamExited, StreamNotice
  <2>3. CASE \/ StreamSend(s) \/ StreamRepoll(s) \/ StreamListen(s)
            \/ StreamWait(s)
    BY <2>3 DEF StreamSend, StreamRepoll, StreamListen, StreamWait
  <2>2. CASE StreamCaught(s) \/ StreamWake(s) \/ StreamCancelled(s)
               \/ StreamLeave(s)
    BY <2>2 DEF StreamCaught, StreamWake, StreamCancelled, StreamLeave
  <2> QED
    BY <1>5, <2>1, <2>2, <2>3 DEF Stream
<1>6. CASE UNCHANGED vars
  BY <1>6 DEF vars
<1> QED
  BY <1>1, <1>2, <1>3, <1>4, <1>5, <1>6 DEF Next, Write

(* Nothing is read, queued or received at first. *)
LEMMA DeliveryInit == Init => Delivery
<1> SUFFICES ASSUME Init PROVE Delivery
  OBVIOUS
<1>1. Ordered /\ Queued /\ \A s \in Streams : intact[s]
  BY DEF Init, Ordered, Queued
<1>2. Linked
  BY ChainEmpty DEF Init, Linked
<1> QED
  BY <1>1, <1>2 DEF Delivery

(* Every step keeps the chain from what a client received, over what is
   queued for it, to what its streamer holds. *)
LEMMA DeliveryStep ==
  ASSUME TypeOK, Located, Delivery, [Next]_vars
  PROVE  Delivery'
<1> USE HolderAssumption
<1>1. ASSUME NEW n \in 1 .. MaxBytes, Push(n) PROVE Delivery'
  <2>1. /\ UNCHANGED <<conn, cursor, hand, last, intact, data, link>>
        /\ head' = head + n
    BY <1>1 DEF Push, streamVars, connVars, chanVars, seenVars, fateVars
  <2>2. Ordered'
    BY <2>1 DEF Delivery, Ordered, TypeOK
  <2>3. Queued' /\ Linked' /\ \A s \in Streams : intact'[s]
    BY <2>1 DEF Delivery, Queued, Linked
  <2> QED
    BY <2>2, <2>3 DEF Delivery
<1>2. ASSUME NEW c \in Conns, NEW s \in Streams, NEW start \in 0 .. MaxBytes,
             Attach(c, s, start)
      PROVE  Delivery'
  <2>1. /\ conn' = [conn EXCEPT ![s] = c]
        /\ cursor' = [cursor EXCEPT ![s] = start]
        /\ hand' = [hand EXCEPT ![s] = start]
        /\ last' = [last EXCEPT ![s] = start]
        /\ UNCHANGED <<head, data, link, intact>>
    BY <1>2 DEF Attach, sessionVars, chanVars
  <2>2. conn[s] = NoConn
    BY <1>2 DEF Attach, Located, Connected
  <2>3. start <= head
    BY <1>2 DEF Attach, GrantedStarts, tail, TypeOK
  <2>4. \A d \in Conns : \A i \in DOMAIN data[d] :
          /\ data[d][i].stream \in Streams \ {s}
          /\ hand'[data[d][i].stream] = hand[data[d][i].stream]
    <3> SUFFICES ASSUME NEW d \in Conns, NEW i \in DOMAIN data[d]
                 PROVE  /\ data[d][i].stream \in Streams \ {s}
                        /\ hand'[data[d][i].stream] = hand[data[d][i].stream]
      OBVIOUS
    <3>1. data[d] \in Seq(DataFrame)
      BY DEF TypeOK
    <3>2. data[d][i] \in DataFrame /\ conn[data[d][i].stream] = d
      BY <3>1 DEF Located, FrameOwner
    <3> QED
      BY <2>1, <2>2, <3>2 DEF TypeOK, DataFrame
  <2>5. Ordered'
    BY <2>1, <2>3 DEF Delivery, Ordered, TypeOK
  <2>6. Queued'
    BY <2>1, <2>4 DEF Delivery, Queued
  <2>7. Linked'
    <3> SUFFICES ASSUME NEW t \in Streams, conn'[t] \in Conns,
                        link[conn'[t]] # "dead"
                 PROVE  Chained(data[conn'[t]], t, last'[t], hand'[t])
      BY <2>1 DEF Linked
    <3>1. CASE t = s
      <4>1. conn'[t] = c /\ last'[t] = start /\ hand'[t] = start
        BY <2>1, <3>1 DEF TypeOK
      <4>2. data[c] \in Seq(DataFrame) /\ DOMAIN data[c] = 1 .. Len(data[c])
        BY DEF TypeOK
      <4>3. \A i \in 1 .. Len(data[c]) : data[c][i].stream # t
        BY <2>4, <3>1, <4>2
      <4> QED
        BY <4>1, <4>3 DEF Chained
    <3>2. CASE t # s
      BY <2>1, <3>2 DEF Delivery, Linked, TypeOK
    <3> QED
      BY <3>1, <3>2
  <2> QED
    BY <2>1, <2>5, <2>6, <2>7 DEF Delivery
<1>3. ASSUME NEW s \in Streams, StreamRead(s) PROVE Delivery'
  <2>1. /\ UNCHANGED <<head, conn, hand, last, intact, data, link>>
        /\ \/ cursor' = cursor
           \/ cursor[s] < head /\ cursor' = [cursor EXCEPT ![s] =
                                               Min2(@ + Chunk, head)]
    BY <1>3 DEF StreamRead, sessionVars, connVars, chanVars, seenVars, fateVars
  <2>2. Ordered'
    <3> SUFFICES ASSUME NEW t \in Streams
                 PROVE  /\ last[t] <= hand[t] /\ hand[t] <= cursor'[t]
                        /\ cursor'[t] <= head
      BY <2>1 DEF Ordered
    <3>1. /\ last[t] <= hand[t] /\ hand[t] <= cursor[t] /\ cursor[t] <= head
          /\ hand[t] \in Nat /\ cursor[t] \in Nat /\ head \in Nat
      BY DEF Delivery, Ordered, TypeOK
    <3>2. \/ cursor'[t] = cursor[t]
          \/ cursor[t] < head /\ cursor'[t] = Min2(cursor[t] + Chunk, head)
      BY <2>1 DEF TypeOK
    <3> QED
      BY <3>1, <3>2 DEF Min2
  <2>3. Queued' /\ Linked' /\ \A t \in Streams : intact'[t]
    BY <2>1 DEF Delivery, Queued, Linked
  <2> QED
    BY <2>2, <2>3 DEF Delivery
<1>4. ASSUME NEW s \in Streams, StreamOffer(s) PROVE Delivery'
  <2> DEFINE c == conn[s]
             f == [stream |-> s, from |-> hand[s], to |-> cursor[s]]
  <2>1. UNCHANGED <<head, conn, cursor, last, intact, link>>
    BY <1>4 DEF StreamOffer, sessionVars, connVars, seenVars, fateVars
  <2>2. CASE UNCHANGED <<hand, data>>
    BY <2>1, <2>2 DEF Delivery, Ordered, Queued, Linked
  <2>3. CASE /\ hand' = [hand EXCEPT ![s] = cursor[s]]
             /\ data' = [data EXCEPT ![c] = Append(@, f)]
    <3>1. /\ f \in DataFrame /\ f.stream = s /\ f.from = hand[s]
          /\ f.to = cursor[s]
      BY DEF DataFrame, TypeOK
    <3>2. c \in Conns /\ data[c] \in Seq(DataFrame)
      <4>1. pc[s] # "unused"
        BY <1>4 DEF StreamOffer
      <4> QED
        BY <4>1 DEF Located, Connected, TypeOK
    <3> HIDE DEF f, c
    <3>3. /\ data'[c] = Append(data[c], f)
          /\ \A d \in Conns \ {c} : data'[d] = data[d]
          /\ hand'[s] = cursor[s] /\ \A t \in Streams \ {s} : hand'[t] = hand[t]
      BY <2>3, <3>2 DEF TypeOK
    <3>4. Ordered'
      <4> SUFFICES ASSUME NEW t \in Streams
                   PROVE  /\ last[t] <= hand'[t] /\ hand'[t] <= cursor[t]
                          /\ cursor[t] <= head
        BY <2>1 DEF Ordered
      <4>1. /\ last[t] <= hand[t] /\ hand[t] <= cursor[t] /\ cursor[t] <= head
            /\ hand[t] \in Nat /\ cursor[t] \in Nat /\ last[t] \in Nat
        BY DEF Delivery, Ordered, TypeOK
      <4>2. hand'[t] = hand[t] \/ hand'[t] = cursor[t]
        BY <3>3
      <4> QED
        BY <4>1, <4>2
    <3>5. Queued'
      <4> SUFFICES ASSUME NEW d \in Conns, NEW i \in DOMAIN data'[d]
                   PROVE  data'[d][i].to <= hand'[data'[d][i].stream]
        BY DEF Queued
      <4>1. CASE d = c /\ data'[d][i] = f
        BY <3>1, <3>3, <4>1 DEF TypeOK
      <4>2. CASE \E k \in DOMAIN data[d] : data'[d][i] = data[d][k]
        <5>1. PICK k \in DOMAIN data[d] : data'[d][i] = data[d][k]
          BY <4>2
        <5>2. data[d] \in Seq(DataFrame)
          BY DEF TypeOK
        <5>3. data[d][k] \in DataFrame
          BY <5>2
        <5>4. /\ data[d][k].to <= hand[data[d][k].stream]
              /\ data[d][k].stream \in Streams /\ data[d][k].to \in Nat
          BY <5>3 DEF Delivery, Queued, DataFrame
        <5>5. /\ hand[data[d][k].stream] <= hand'[data[d][k].stream]
              /\ hand[data[d][k].stream] \in Nat
              /\ hand'[data[d][k].stream] \in Nat
          <6> DEFINE u == data[d][k].stream
          <6>1. /\ u \in Streams /\ hand[u] \in Nat /\ cursor[u] \in Nat
                /\ hand[u] <= cursor[u]
            BY <5>4 DEF Delivery, Ordered, TypeOK
          <6> HIDE DEF u
          <6>2. hand'[u] = hand[u] \/ hand'[u] = cursor[u]
            BY <3>3, <6>1
          <6>3. hand[u] <= hand'[u] /\ hand'[u] \in Nat
            BY <6>1, <6>2
          <6> QED
            BY <6>1, <6>3 DEF u
        <5> QED
          BY <5>1, <5>4, <5>5
      <4>3. \/ d = c /\ data'[d][i] = f
            \/ \E k \in DOMAIN data[d] : data'[d][i] = data[d][k]
        <5>1. CASE d = c
          <6>1. i \in 1 .. Len(data[c]) + 1 /\ Len(data[c]) \in Nat
            BY <3>1, <3>2, <3>3, <5>1, AppendProperties
          <6>2. CASE i = Len(data[c]) + 1
            BY <3>1, <3>2, <3>3, <5>1, <6>2, AppendProperties
          <6>3. CASE i \in 1 .. Len(data[c])
            <7>1. data'[d][i] = data[d][i] /\ i \in DOMAIN data[d]
              BY <3>1, <3>2, <3>3, <5>1, <6>3, AppendProperties
            <7> QED
              BY <7>1
          <6> QED
            BY <6>1, <6>2, <6>3
        <5>2. CASE d # c
          BY <3>3, <5>2
        <5> QED
          BY <5>1, <5>2
      <4> QED
        BY <4>1, <4>2, <4>3
    <3>6. Linked'
      <4> SUFFICES ASSUME NEW t \in Streams, conn[t] \in Conns,
                          link[conn[t]] # "dead"
                   PROVE  Chained(data'[conn[t]], t, last[t], hand'[t])
        BY <2>1 DEF Linked
      <4>1. Chained(data[conn[t]], t, last[t], hand[t])
        BY DEF Delivery, Linked
      <4>2. CASE t = s
        <5>1. conn[t] = c
          BY <4>2 DEF c
        <5> QED
          <6>1. Chained(data[c], s, last[s], hand[s])
            BY <4>1, <4>2, <5>1
          <6>2. Chained(Append(data[c], f), s, last[s], f.to)
            BY <3>1, <3>2, <6>1, ChainAppend
          <6> QED
            BY <3>1, <3>3, <4>2, <5>1, <6>2
      <4>3. CASE t # s /\ conn[t] = c
        <5>1. Chained(data[c], t, last[t], hand[t])
          BY <4>1, <4>3
        <5>2. Chained(Append(data[c], f), t, last[t], hand[t])
          BY <3>1, <3>2, <4>3, <5>1, ChainAppend
        <5> QED
          BY <3>3, <4>3, <5>2
      <4>4. CASE t # s /\ conn[t] # c
        BY <3>3, <4>1, <4>4
      <4> QED
        BY <4>2, <4>3, <4>4
    <3> QED
      BY <2>1, <3>4, <3>5, <3>6 DEF Delivery
  <2> QED
    BY <1>4, <2>2, <2>3 DEF StreamOffer
<1>5. ASSUME NEW c \in Conns, WriteData(c) PROVE Delivery'
  <2> DEFINE f == Head(data[c])
  <2>1. /\ data[c] # <<>> /\ data[c] \in Seq(DataFrame)
        /\ data' = [data EXCEPT ![c] = Tail(@)]
        /\ link[c] # "dead"
        /\ UNCHANGED <<head, conn, cursor, hand, link>>
    BY <1>5 DEF WriteData, TypeOK, sessionVars, streamVars, connVars
  <2>2. /\ f \in DataFrame /\ f = data[c][1] /\ 1 \in DOMAIN data[c]
    BY <2>1
  <2>3. /\ f.stream \in Streams /\ f.to \in Nat /\ conn[f.stream] = c
        /\ f.to <= hand[f.stream]
    BY <2>2 DEF DataFrame, Located, FrameOwner, Delivery, Queued
  <2>4. /\ last' = [last EXCEPT ![f.stream] = f.to]
        /\ intact' = [intact EXCEPT ![f.stream] = @ /\ f.from = last[f.stream]]
    BY <1>5 DEF WriteData
  <2>5. Chained(data[c], f.stream, last[f.stream], hand[f.stream])
    BY <2>1, <2>3 DEF Delivery, Linked
  <2>6. /\ f.from = last[f.stream]
        /\ Chained(Tail(data[c]), f.stream, f.to, hand[f.stream])
    BY <2>1, <2>5, ChainTail
  <2> HIDE DEF f
  <2>7. \A t \in Streams : intact'[t]
    BY <2>4, <2>6 DEF Delivery, TypeOK
  <2>8. Ordered'
    BY <2>1, <2>3, <2>4 DEF Delivery, Ordered, TypeOK
  <2>9. Queued'
    <3> SUFFICES ASSUME NEW d \in Conns, NEW i \in DOMAIN data'[d]
                 PROVE  data'[d][i].to <= hand[data'[d][i].stream]
      BY <2>1 DEF Queued
    <3>1. \E k \in DOMAIN data[d] : data'[d][i] = data[d][k]
      <4>1. CASE d = c
        <5>1. data'[d] = Tail(data[c])
          BY <2>1, <4>1 DEF TypeOK
        <5>2. i + 1 \in DOMAIN data[c] /\ Tail(data[c])[i] = data[c][i + 1]
          <6>1. i \in 1 .. Len(Tail(data[c]))
            <7>1. Tail(data[c]) \in Seq(DataFrame)
              BY <2>1, HeadTailProperties
            <7>2. DOMAIN Tail(data[c]) = 1 .. Len(Tail(data[c]))
              BY <7>1, LenProperties
            <7> QED
              BY <5>1, <7>2
          <6>2. /\ Len(Tail(data[c])) = Len(data[c]) - 1
                /\ Tail(data[c])[i] = data[c][i + 1]
            BY <2>1, <6>1, HeadTailProperties
          <6>3. Len(data[c]) \in Nat /\ DOMAIN data[c] = 1 .. Len(data[c])
            BY <2>1
          <6> QED
            BY <6>1, <6>2, <6>3
        <5> QED
          BY <4>1, <5>1, <5>2
      <4>2. CASE d # c
        <5>1. data'[d] = data[d]
          BY <2>1, <4>2 DEF TypeOK
        <5> QED
          BY <5>1
      <4> QED
        BY <4>1, <4>2
    <3> QED
      BY <3>1 DEF Delivery, Queued
  <2>10. Linked'
    <3> SUFFICES ASSUME NEW t \in Streams, conn[t] \in Conns,
                        link[conn[t]] # "dead"
                 PROVE  Chained(data'[conn[t]], t, last'[t], hand[t])
      BY <2>1 DEF Linked
    <3>1. Chained(data[conn[t]], t, last[t], hand[t])
      BY DEF Delivery, Linked
    <3>2. CASE t = f.stream
      <4>1. conn[t] = c /\ data'[c] = Tail(data[c]) /\ last'[t] = f.to
        BY <2>1, <2>3, <2>4, <3>2 DEF TypeOK
      <4> QED
        BY <2>6, <3>2, <4>1
    <3>3. CASE t # f.stream /\ conn[t] = c
      <4>1. data'[c] = Tail(data[c]) /\ last'[t] = last[t]
        BY <2>1, <2>4, <3>3 DEF TypeOK
      <4>2. Chained(Tail(data[c]), t, last[t], hand[t])
        BY <2>1, <3>1, <3>3, ChainTail DEF f
      <4> QED
        BY <3>3, <4>1, <4>2
    <3>4. CASE t # f.stream /\ conn[t] # c
      <4>1. data'[conn[t]] = data[conn[t]] /\ last'[t] = last[t]
        BY <2>1, <2>4, <3>4 DEF TypeOK
      <4> QED
        BY <3>1, <4>1
    <3> QED
      BY <3>2, <3>3, <3>4
  <2> QED
    BY <2>7, <2>8, <2>9, <2>10 DEF Delivery
<1>6. ASSUME NEW c \in Conns, WriterFail(c) PROVE Delivery'
  <2>1. /\ UNCHANGED <<head, conn, cursor, hand, last, intact>>
        /\ data' = [data EXCEPT ![c] = <<>>]
        /\ link' = [link EXCEPT ![c] = "dead"]
    BY <1>6 DEF WriterFail, sessionVars, streamVars, seenVars, fateVars
  <2>2. data'[c] = <<>> /\ \A d \in Conns \ {c} : data'[d] = data[d]
    BY <2>1 DEF TypeOK
  <2>3. link'[c] = "dead" /\ \A d \in Conns \ {c} : link'[d] = link[d]
    BY <2>1 DEF TypeOK
  <2>4. Ordered' /\ \A s \in Streams : intact'[s]
    BY <2>1 DEF Delivery, Ordered
  <2>5. Queued'
    BY <2>1, <2>2 DEF Delivery, Queued
  <2>6. Linked'
    BY <2>1, <2>2, <2>3 DEF Delivery, Linked
  <2> QED
    BY <2>4, <2>5, <2>6 DEF Delivery
<1>7. ASSUME UNCHANGED <<head, deliveryVars>>,
             \A c \in Conns : link'[c] = "dead" <=> link[c] = "dead"
      PROVE  Delivery'
  BY <1>7 DEF deliveryVars, Delivery, Ordered, Queued, Linked
<1> QED
  BY <1>1, <1>2, <1>3, <1>4, <1>5, <1>6, <1>7, DeliverySteps

(***************************************************************************)
(* Within one attach the client receives a gap-free, repetition-free run   *)
(* of the session's bytes, whatever the ring's capacity, the channels' and *)
(* the pace of writers and readers.                                        *)
(***************************************************************************)
THEOREM DeliveryIntact == Spec => []OutputIntact
<1>1. TypeOK /\ Located /\ Delivery /\ [Next]_vars => Delivery'
  BY DeliveryStep
<1>2. TypeOK /\ Delivery => OutputIntact
  BY DEF TypeOK, Delivery, Ordered, OutputIntact
<1> QED
  BY <1>1, <1>2, DeliveryInit, TypeCorrect, LocatedCorrect, PTL DEF Spec

-----------------------------------------------------------------------------
(***************************************************************************)
(* How a stream's position moves in one step.                              *)
(***************************************************************************)
LEMMA PositionStep ==
  ASSUME TypeOK, Located, [Next]_vars, NEW s \in Streams
  PROVE  \/ pc'[s] = pc[s]
         \/ pc[s] = "parked" /\ pc'[s] = "woken"
         \/ pc[s] = "unused" /\ pc'[s] = "granted"
         \/ \E c \in Conns : /\ AttachRespond(c) /\ target[c] = s
                             /\ pc[s] = "granted" /\ pc'[s] = "start"
         \/ Stream(s)
<1>1. CASE Reader
  <2>1. NotifyOne(pc)
    BY <1>1 DEF Reader, Push, PushDropped, Renotify, Exit
  <2> QED
    BY <2>1, ReaderNotifies DEF Located
<1>2. ASSUME NEW c \in Conns, NEW t \in Streams, NEW start, Attach(c, t, start)
      PROVE  pc'[s] = pc[s] \/ (pc[s] = "unused" /\ pc'[s] = "granted")
  BY <1>2 DEF Attach, TypeOK
<1>3. ASSUME NEW c \in Conns, AttachRespond(c)
      PROVE  \/ pc'[s] = pc[s]
             \/ target[c] = s /\ pc[s] = "granted" /\ pc'[s] = "start"
  <2>1. target[c] \in Streams /\ pc[target[c]] = "granted"
    BY <1>3 DEF AttachRespond, Located, Granting
  <2>2. pc' = [pc EXCEPT ![target[c]] = "start"]
    BY <1>3 DEF AttachRespond
  <2> QED
    BY <2>1, <2>2 DEF TypeOK
<1>4. ASSUME NEW c \in Conns, Request(c) \/ Handle(c)
      PROVE  \/ \E t \in Streams, start \in 0 .. MaxBytes : Attach(c, t, start)
             \/ AttachRespond(c)
             \/ pc' = pc
  BY <1>4 DEF Request, Handle, AttachRefuse, DetachRequest, AttachEvict,
     AttachRegister, Reject, DetachApply, DetachRespond, Teardown
<1>5. ASSUME NEW c \in Conns,
             Write(c) \/ WriterFail(c) \/ Heartbeat(c) \/ ClientGone(c)
      PROVE  pc' = pc
  BY <1>5 DEF Write, WriteCtrl, WriteData, WriterFail, Heartbeat, ClientGone
<1>6. ASSUME NEW t \in Streams, Stream(t)
      PROVE  \/ t = s
             \/ pc'[s] = pc[s]
             \/ pc[s] = "parked" /\ pc'[s] = "woken"
  BY <1>6, StreamMoves DEF Located
<1>7. CASE UNCHANGED vars
  BY <1>7 DEF vars
<1> QED
  BY <1>1, <1>2, <1>3, <1>4, <1>5, <1>6, <1>7 DEF Next

(***************************************************************************)
(* A cancel is for good, and frames queued after it are counted.           *)
(***************************************************************************)
Silenced ==
  \A s \in Streams :
    /\ late[s] <= 1
    /\ late[s] = 1 => cancelled[s] /\ pc[s] # "offer"

(***************************************************************************)
(* A stream that was cancelled stays so, and starts no send.               *)
(***************************************************************************)
LEMMA CancelStays ==
  ASSUME TypeOK, Located, [Next]_vars, NEW s \in Streams, cancelled[s]
  PROVE  /\ cancelled'[s]
         /\ pc'[s] = "offer" => pc[s] = "offer"
<1>1. cancelled'[s]
  <2>1. CASE Reader \/ UNCHANGED vars
    BY <2>1 DEF Reader, Push, PushDropped, Renotify, Exit, vars, streamVars
  <2>2. ASSUME NEW c \in Conns, Request(c) \/ Handle(c) PROVE cancelled'[s]
    BY <2>2 DEF Request, Handle, Attach, AttachRefuse, DetachRequest,
       AttachEvict, AttachRegister, AttachRespond, Reject, DetachApply,
       DetachRespond, Teardown, streamVars, TypeOK
  <2>3. ASSUME NEW c \in Conns,
               Write(c) \/ WriterFail(c) \/ Heartbeat(c) \/ ClientGone(c)
        PROVE  cancelled'[s]
    BY <2>3 DEF Write, WriteCtrl, WriteData, WriterFail, Heartbeat, ClientGone,
       streamVars
  <2>4. ASSUME NEW t \in Streams, Stream(t) PROVE cancelled'[s]
    BY <2>4 DEF Stream, StreamStart, StreamReport, StreamReported, StreamRead,
       StreamGap, StreamSend, StreamOffer, StreamRepoll, StreamCaught,
       StreamListen, StreamWait, StreamExited, StreamNotice, StreamWake,
       StreamCancelled, StreamLeave, streamVars
  <2> QED
    BY <2>1, <2>2, <2>3, <2>4 DEF Next
<1>2. ASSUME pc'[s] = "offer", pc[s] # "offer" PROVE FALSE
  <2>1. Stream(s)
    BY <1>2, PositionStep
  <2>2. CASE StreamSend(s)
    BY <1>2, <2>2 DEF StreamSend, StreamTo, TypeOK
  <2>3. CASE StreamWake(s)
    BY <1>2, <2>3 DEF StreamWake, StreamTo, NotifyOne, TypeOK
  <2>4. CASE ~StreamSend(s) /\ ~StreamWake(s)
    BY <1>2, <2>1, <2>4 DEF Stream, StreamStart, StreamReport, StreamReported,
       StreamRead, StreamGap, StreamOffer, StreamRepoll, StreamCaught,
       StreamListen, StreamWait, StreamExited, StreamNotice, StreamCancelled,
       StreamLeave, StreamTo, TypeOK
  <2> QED
    BY <2>2, <2>3, <2>4
<1> QED
  BY <1>1, <1>2

(***************************************************************************)
(* Every step keeps Silenced: the one late frame was offered before the    *)
(* streamer looked at its cancel again.                                    *)
(***************************************************************************)
LEMMA SilencedStep ==
  ASSUME TypeOK, Located, Silenced, [Next]_vars
  PROVE  Silenced'
<1>1. \/ late' = late
      \/ \E s \in Streams : StreamOffer(s) /\ cancelled[s]
  <2>1. CASE Reader \/ UNCHANGED vars
    BY <2>1 DEF Reader, Push, PushDropped, Renotify, Exit, vars, fateVars
  <2>2. ASSUME NEW c \in Conns, Request(c) \/ Handle(c) PROVE late' = late
    BY <2>2 DEF Request, Handle, Attach, AttachRefuse, DetachRequest,
       AttachEvict, AttachRegister, AttachRespond, Reject, DetachApply,
       DetachRespond, Teardown, fateVars
  <2>3. ASSUME NEW c \in Conns,
               Write(c) \/ WriterFail(c) \/ Heartbeat(c) \/ ClientGone(c)
        PROVE  late' = late
    BY <2>3 DEF Write, WriteCtrl, WriteData, WriterFail, Heartbeat, ClientGone,
       fateVars
  <2>4. ASSUME NEW t \in Streams, Stream(t)
        PROVE  late' = late \/ (StreamOffer(t) /\ cancelled[t])
    <3>1. CASE StreamOffer(t)
      BY <3>1 DEF StreamOffer
    <3>2. CASE ~StreamOffer(t)
      BY <2>4, <3>2 DEF Stream, StreamStart, StreamReport, StreamReported,
         StreamRead, StreamGap, StreamSend, StreamRepoll, StreamCaught,
         StreamListen, StreamWait, StreamExited, StreamNotice, StreamWake,
         StreamCancelled, StreamLeave, fateVars
    <3> QED
      BY <3>1, <3>2
  <2> QED
    BY <2>1, <2>2, <2>3, <2>4 DEF Next
<1>2. CASE late' = late
  BY <1>2, CancelStays DEF Silenced
<1>3. ASSUME NEW s \in Streams, StreamOffer(s), cancelled[s] PROVE Silenced'
  <2>1. pc[s] = "offer" /\ pc'[s] # "offer"
    BY <1>3 DEF StreamOffer, StreamTo, TypeOK
  <2>2. late[s] = 0
    BY <2>1 DEF Silenced, TypeOK
  <2>3. /\ late'[s] \in {0, 1}
        /\ \A t \in Streams \ {s} : late'[t] = late[t]
    BY <1>3, <2>2 DEF StreamOffer, TypeOK
  <2>4. cancelled'[s]
    BY <1>3, CancelStays
  <2> QED
    BY <2>1, <2>3, <2>4, CancelStays DEF Silenced
<1> QED
  BY <1>1, <1>2, <1>3

(***************************************************************************)
(* A cancelled stream queues at most one more frame: the one it was        *)
(* offering when the cancel came.                                          *)
(***************************************************************************)
THEOREM CancelSilences == Spec => []SilentAfterCancel
<1>1. Init => Silenced
  BY DEF Init, Silenced
<1>2. TypeOK /\ Located /\ Silenced /\ [Next]_vars => Silenced'
  BY SilencedStep
<1>3. Silenced => SilentAfterCancel
  BY DEF Silenced, SilentAfterCancel
<1> QED
  BY <1>1, <1>2, <1>3, TypeCorrect, LocatedCorrect, PTL DEF Spec

(***************************************************************************)
(* A stream that is about to announce the exit, or has, handed over every  *)
(* byte of a child that writes no more.                                    *)
(***************************************************************************)
Over == {"leave", "done"}

Flushed(s) == ~alive /\ cursor[s] = head /\ hand[s] = head

Announced ==
  /\ \A s \in Streams : pc[s] \notin Over \cup {"send", "offer", "full"} => hand[s] = cursor[s]
  /\ \A s \in Streams : pc[s] = "exit" => Flushed(s)
  /\ \A s \in Streams : "exited" \in told[s] => pc[s] \in Over /\ Flushed(s)
  /\ \A s \in Streams, c \in Conns : \A i \in DOMAIN ctrl[c] :
       ctrl[c][i].kind = "exited" /\ ctrl[c][i].stream = s =>
         pc[s] \in Over /\ Flushed(s)

(* No exit is announced at first. *)
LEMMA AnnouncedInit == Init => Announced
BY DEF Init, Announced

(***************************************************************************)
(* Once over, a stream stays over; once flushed and at its end, it stays   *)
(* flushed.                                                                *)
(***************************************************************************)
LEMMA OverStays ==
  ASSUME TypeOK, Located, [Next]_vars, NEW s \in Streams
  PROVE  /\ pc[s] \in Over => pc'[s] \in Over
         /\ pc[s] = "exit" => pc'[s] \in Over \cup {"exit"}
         /\ pc[s] \in Over \cup {"exit"} /\ Flushed(s) => Flushed(s)'
<1>1. CASE Stream(s)
  <2>1. /\ pc[s] \in Over => pc'[s] \in Over
        /\ pc[s] = "exit" => pc'[s] \in Over \cup {"exit"}
    BY <1>1 DEF Stream, StreamStart, StreamReport, StreamReported, StreamRead,
       StreamGap, StreamSend, StreamOffer, StreamRepoll, StreamCaught,
       StreamListen, StreamWait, StreamExited, StreamNotice,
       StreamWake, StreamCancelled, StreamLeave, StreamTo, Over, TypeOK
  <2>2. pc[s] \in Over \cup {"exit"} => StreamLeave(s) \/ StreamExited(s)
    BY <1>1 DEF Stream, StreamStart, StreamReport, StreamReported, StreamRead,
       StreamGap, StreamSend, StreamOffer, StreamRepoll, StreamCaught,
       StreamListen, StreamWait, StreamNotice, StreamWake,
       StreamCancelled, Over
  <2>3. pc[s] \in Over \cup {"exit"} => UNCHANGED <<head, reader, cursor, hand>>
    BY <2>2 DEF StreamLeave, StreamExited, StreamNotice, sessionVars, streamVars
  <2> QED
    BY <2>1, <2>3 DEF Flushed, alive
<1>2. CASE ~Stream(s)
  <2>1. \/ pc'[s] = pc[s]
        \/ pc[s] \notin Over \cup {"exit"}
    BY <1>2, PositionStep DEF Over
  <2>2. ASSUME reader = "done" PROVE reader' = "done" /\ head' = head
    <3>1. CASE Reader
      BY <2>2, <3>1 DEF Reader, Push, PushDropped, Renotify, Exit
    <3>2. ASSUME NEW c \in Conns, Request(c) \/ Handle(c)
          PROVE  UNCHANGED sessionVars
      BY <3>2 DEF Request, Handle, Attach, AttachRefuse, DetachRequest,
         AttachEvict, AttachRegister, AttachRespond, Reject, DetachApply,
         DetachRespond, Teardown
    <3>3. ASSUME NEW c \in Conns,
                 Write(c) \/ WriterFail(c) \/ Heartbeat(c) \/ ClientGone(c)
          PROVE  UNCHANGED sessionVars
      BY <3>3 DEF Write, WriteCtrl, WriteData, WriterFail, Heartbeat, ClientGone
    <3>4. ASSUME NEW t \in Streams, Stream(t) PROVE UNCHANGED sessionVars
      BY <3>4 DEF Stream, StreamStart, StreamReport, StreamReported,
         StreamRead, StreamGap, StreamSend, StreamOffer, StreamRepoll, StreamCaught,
       StreamListen, StreamWait, StreamExited,
         StreamNotice, StreamWake, StreamCancelled, StreamLeave
    <3>5. CASE UNCHANGED vars
      BY <2>2, <3>5 DEF vars, sessionVars
    <3> QED
      BY <2>2, <3>1, <3>2, <3>3, <3>4, <3>5 DEF Next, sessionVars
  <2>3. ASSUME pc[s] \in Over \cup {"exit"}
        PROVE  cursor'[s] = cursor[s] /\ hand'[s] = hand[s]
    <3>1. ASSUME NEW c \in Conns, NEW t \in Streams, NEW start,
                 Attach(c, t, start)
          PROVE  cursor'[s] = cursor[s] /\ hand'[s] = hand[s]
      <4>1. t # s
        BY <2>3, <3>1 DEF Attach, Over
      <4> QED
        BY <3>1, <4>1 DEF Attach, TypeOK
    <3>2. ASSUME NEW t \in Streams, StreamRead(t) \/ StreamOffer(t)
          PROVE  cursor'[s] = cursor[s] /\ hand'[s] = hand[s]
      <4>1. t # s
        BY <1>2, <3>2 DEF Stream
      <4> QED
        BY <3>2, <4>1 DEF StreamRead, StreamOffer, TypeOK
    <3>3. ASSUME NEW c \in Conns, WriteData(c) \/ WriterFail(c)
          PROVE  UNCHANGED <<cursor, hand>>
      BY <3>3 DEF WriteData, WriterFail, streamVars
    <3>4. ASSUME NEW n, Push(n) PROVE UNCHANGED <<cursor, hand>>
      BY <3>4 DEF Push, streamVars
    <3> QED
      BY <3>1, <3>2, <3>3, <3>4, DeliverySteps DEF deliveryVars
  <2> QED
    BY <2>1, <2>2, <2>3 DEF Flushed, alive
<1> QED
  BY <1>1, <1>2

(***************************************************************************)
(* The steps that put a frame on a control channel or take one off it.     *)
(***************************************************************************)
LEMMA CtrlStep ==
  ASSUME TypeOK, [Next]_vars, NEW c \in Conns, NEW i \in DOMAIN ctrl'[c],
         ctrl'[c][i].kind = "exited"
  PROVE  \/ \E j \in DOMAIN ctrl[c] : ctrl'[c][i] = ctrl[c][j]
         \/ StreamExited(ctrl'[c][i].stream) /\ ctrl'[c][i].stream \in Streams
<1> DEFINE Old == \E j \in DOMAIN ctrl[c] : ctrl'[c][i] = ctrl[c][j]
<1>1. ASSUME NEW d, NEW kind \in CtrlKinds, NEW s \in Streams \cup {NoStream},
             PutCtrl(d, kind, s)
      PROVE  Old \/ (ctrl'[c][i].stream = s /\ kind = "exited")
  <2>1. CASE ctrl'[c] = ctrl[c]
    BY <2>1
  <2>2. CASE ctrl'[c] # ctrl[c]
    <3> DEFINE f == [kind |-> kind, stream |-> s]
    <3>1. ctrl'[c] = Append(ctrl[c], f)
      BY <1>1, <2>2 DEF PutCtrl, TypeOK
    <3>2. ctrl[c] \in Seq(CtrlFrame) /\ f \in CtrlFrame
      BY DEF TypeOK, CtrlFrame
    <3> HIDE DEF f
    <3>3. i \in 1 .. Len(ctrl[c]) + 1 /\ Len(ctrl[c]) \in Nat
      BY <3>1, <3>2, AppendProperties
    <3>4. CASE i = Len(ctrl[c]) + 1
      <4>1. ctrl'[c][i] = f
        BY <3>1, <3>2, <3>4, AppendProperties
      <4> QED
        BY <4>1 DEF f
    <3>5. CASE i \in 1 .. Len(ctrl[c])
      <4>1. ctrl'[c][i] = ctrl[c][i] /\ i \in DOMAIN ctrl[c]
        BY <3>1, <3>2, <3>5, AppendProperties
      <4> QED
        BY <4>1
    <3> QED
      BY <3>3, <3>4, <3>5
  <2> QED
    BY <2>1, <2>2
<1>2. ASSUME ctrl' = ctrl PROVE Old
  BY <1>2
<1>3. ASSUME NEW d \in Conns, Request(d) \/ Handle(d) PROVE Old
  <2>1. CASE \/ \E s \in Streams, start \in 0 .. MaxBytes : Attach(d, s, start)
             \/ AttachRefuse(d) \/ DetachRequest(d)
             \/ AttachRegister(d) \/ DetachApply(d) \/ Teardown(d)
    BY <1>2, <2>1 DEF Attach, AttachRefuse, DetachRequest, AttachRegister,
       DetachApply, Teardown, chanVars
  <2>2. CASE AttachEvict(d)
    <3>1. /\ evicted[d] \in Streams \cup {NoStream} /\ "superseded" \in CtrlKinds
          /\ PutCtrl(conn[evicted[d]], "superseded", evicted[d])
      BY <2>2 DEF AttachEvict, TypeOK, CtrlKinds
    <3> QED
      BY <1>1, <3>1
  <2>3. CASE AttachRespond(d)
    <3>1. /\ target[d] \in Streams \cup {NoStream} /\ "attached" \in CtrlKinds
          /\ PutCtrl(d, "attached", target[d])
      BY <2>3 DEF AttachRespond, TypeOK, CtrlKinds
    <3> QED
      BY <1>1, <3>1
  <2>4. CASE Reject(d) \/ DetachRespond(d)
    <3>1. PICK kind \in {"error", "detached"} : PutCtrl(d, kind, NoStream)
      BY <2>4 DEF Reject, DetachRespond
    <3>2. kind \in CtrlKinds /\ kind # "exited"
      BY DEF CtrlKinds
    <3> QED
      BY <1>1, <3>1, <3>2
  <2> QED
    BY <1>3, <2>1, <2>2, <2>3, <2>4 DEF Request, Handle
<1>4. ASSUME NEW d \in Conns, WriteCtrl(d) PROVE Old
  <2>1. ctrl[d] # <<>> /\ ctrl' = [ctrl EXCEPT ![d] = Tail(@)]
    BY <1>4 DEF WriteCtrl
  <2>2. CASE c = d
    <3>1. ctrl'[c] = Tail(ctrl[c]) /\ ctrl[c] \in Seq(CtrlFrame) /\ ctrl[c] # <<>>
      BY <2>1, <2>2 DEF TypeOK
    <3>2. /\ Tail(ctrl[c]) \in Seq(CtrlFrame)
          /\ Len(Tail(ctrl[c])) = Len(ctrl[c]) - 1
          /\ \A k \in 1 .. Len(Tail(ctrl[c])) : Tail(ctrl[c])[k] = ctrl[c][k + 1]
      BY <3>1, HeadTailProperties
    <3>3. i \in 1 .. Len(Tail(ctrl[c])) /\ Len(ctrl[c]) \in Nat
      BY <3>1, <3>2, LenProperties
    <3>4. i + 1 \in DOMAIN ctrl[c] /\ ctrl'[c][i] = ctrl[c][i + 1]
      BY <3>1, <3>2, <3>3, LenProperties
    <3> QED
      BY <3>4
  <2>3. CASE c # d
    BY <2>1, <2>3 DEF TypeOK
  <2> QED
    BY <2>2, <2>3
<1>5. ASSUME NEW d \in Conns, WriteData(d) \/ ClientGone(d) PROVE Old
  BY <1>2, <1>5 DEF WriteData, ClientGone, chanVars
<1>6. ASSUME NEW d \in Conns, WriterFail(d) PROVE Old
  BY <1>6 DEF WriterFail, TypeOK
<1>7. ASSUME NEW d \in Conns, Heartbeat(d) PROVE Old
  <2>1. "heartbeat" \in CtrlKinds /\ PutCtrl(d, "heartbeat", NoStream)
    BY <1>7 DEF Heartbeat, CtrlKinds
  <2> QED
    BY <1>1, <2>1
<1>8. ASSUME NEW s \in Streams, Stream(s)
      PROVE  \/ Old
             \/ StreamExited(ctrl'[c][i].stream) /\ ctrl'[c][i].stream \in Streams
  <2>1. CASE StreamExited(s)
    <3>1. "exited" \in CtrlKinds /\ PutCtrl(conn[s], "exited", s)
      BY <2>1 DEF StreamExited, StreamNotice, CtrlKinds
    <3>2. Old \/ ctrl'[c][i].stream = s
      BY <1>1, <3>1
    <3> QED
      BY <2>1, <3>2
  <2>2. CASE StreamReported(s) \/ StreamGap(s)
    <3>1. PICK kind \in {"allocFailed", "backpressure"} : PutCtrl(conn[s], kind, s)
      BY <2>2 DEF StreamReported, StreamGap, StreamNotice
    <3>2. kind \in CtrlKinds /\ kind # "exited"
      BY DEF CtrlKinds
    <3> QED
      BY <1>1, <3>1, <3>2
  <2>3. CASE ctrl' = ctrl
    BY <1>2, <2>3
  <2>4. \/ StreamExited(s) \/ StreamReported(s) \/ StreamGap(s) \/ ctrl' = ctrl
    BY <1>8 DEF Stream, StreamStart, StreamReport, StreamRead, StreamSend,
       StreamOffer, StreamRepoll, StreamListen, StreamWait, StreamCaught, StreamWake, StreamCancelled, StreamLeave, chanVars
  <2> QED
    BY <2>1, <2>2, <2>3, <2>4
<1>9. CASE Reader \/ UNCHANGED vars
  BY <1>2, <1>9 DEF Reader, Push, PushDropped, Renotify, Exit, chanVars, vars
<1> QED
  BY <1>3, <1>4, <1>5, <1>6, <1>7, <1>8, <1>9 DEF Next, Write

(* Every step keeps Announced: an exit on a control channel, or told, is
   of a stream that is over and flushed. *)
LEMMA AnnouncedStep ==
  ASSUME TypeOK, Located, Delivery, Announced, [Next]_vars
  PROVE  Announced'
<1>1. ASSUME NEW s \in Streams, pc'[s] \notin Over \cup {"send", "offer", "full"}
      PROVE  hand'[s] = cursor'[s]
  <2>1. CASE StreamOffer(s)
    BY <1>1, <2>1 DEF StreamOffer, StreamTo, Over, TypeOK
  <2>2. CASE StreamRead(s)
    <3>1. hand[s] = cursor[s]
      BY <2>2 DEF StreamRead, Announced, Over
    <3> QED
      BY <1>1, <2>2, <3>1 DEF StreamRead, StreamTo, TypeOK
  <2>3. ASSUME NEW c \in Conns, NEW t \in Streams, NEW start,
               Attach(c, t, start), t = s
        PROVE  hand'[s] = cursor'[s]
    BY <2>3 DEF Attach, TypeOK
  <2>4. CASE /\ ~StreamOffer(s) /\ ~StreamRead(s)
             /\ cursor'[s] = cursor[s] /\ hand'[s] = hand[s]
    <3>1. pc[s] \notin Over
      BY <1>1, OverStays
    <3>2. pc[s] \notin {"send", "offer", "full"}
      <4>1. CASE Stream(s)
        BY <1>1, <2>4, <4>1 DEF Stream, StreamStart, StreamReport, StreamReported,
           StreamGap, StreamSend, StreamRepoll, StreamListen, StreamWait, StreamTo,
           Over, TypeOK, StreamCaught, StreamExited, StreamNotice, StreamWake,
           StreamCancelled, StreamLeave
      <4>2. CASE ~Stream(s)
        BY <1>1, <4>2, PositionStep
      <4> QED
        BY <4>1, <4>2
    <3> QED
      BY <2>4, <3>1, <3>2 DEF Announced
  <2>5. \/ StreamOffer(s) \/ StreamRead(s)
        \/ \E c \in Conns, start \in 0 .. MaxBytes : Attach(c, s, start)
        \/ cursor'[s] = cursor[s] /\ hand'[s] = hand[s]
    <3>1. ASSUME NEW n, Push(n) PROVE UNCHANGED <<cursor, hand>>
      BY <3>1 DEF Push, streamVars
    <3>2. ASSUME NEW c \in Conns, WriteData(c) \/ WriterFail(c)
          PROVE  UNCHANGED <<cursor, hand>>
      BY <3>2 DEF WriteData, WriterFail, streamVars
    <3>3. ASSUME NEW t \in Streams, t # s, StreamRead(t) \/ StreamOffer(t)
          PROVE  cursor'[s] = cursor[s] /\ hand'[s] = hand[s]
      BY <3>3 DEF StreamRead, StreamOffer, TypeOK
    <3>4. ASSUME NEW c \in Conns, NEW t \in Streams, NEW start, t # s,
                 Attach(c, t, start)
          PROVE  cursor'[s] = cursor[s] /\ hand'[s] = hand[s]
      BY <3>4 DEF Attach, TypeOK
    <3> QED
      BY <3>1, <3>2, <3>3, <3>4, DeliverySteps DEF deliveryVars
  <2> QED
    BY <2>1, <2>2, <2>3, <2>4, <2>5
<1>2. ASSUME NEW s \in Streams, pc'[s] = "exit" PROVE Flushed(s)'
  <2>1. CASE pc[s] = "exit"
    BY <2>1, OverStays DEF Announced
  <2>2. CASE pc[s] # "exit"
    <3>1. Stream(s)
      BY <1>2, <2>2, PositionStep
    <3>2. StreamCaught(s)
      BY <1>2, <3>1 DEF Stream, StreamStart, StreamReport, StreamReported,
         StreamRead, StreamGap, StreamSend, StreamOffer, StreamRepoll,
         StreamListen, StreamWait, StreamExited, StreamNotice,
         StreamWake, StreamCancelled, StreamLeave, StreamTo, NotifyOne, TypeOK
    <3>3. ~alive /\ cursor[s] >= head /\ UNCHANGED <<sessionVars, streamVars>>
      BY <1>2, <3>2 DEF StreamCaught, StreamTo, TypeOK
    <3>4. hand[s] = cursor[s]
      BY <3>2 DEF StreamCaught, Announced, Over
    <3>5. cursor[s] = head
      BY <3>3 DEF Delivery, Ordered, TypeOK
    <3> QED
      BY <3>3, <3>4, <3>5 DEF Flushed, alive, sessionVars, streamVars
  <2> QED
    BY <2>1, <2>2
<1>3. ASSUME NEW s \in Streams, "exited" \in told'[s]
      PROVE  pc'[s] \in Over /\ Flushed(s)'
  <2>1. CASE "exited" \in told[s]
    BY <2>1, OverStays DEF Announced
  <2>2. CASE "exited" \notin told[s]
    <3>1. told'[s] # told[s]
      BY <1>3, <2>2
    <3>2. \E c \in Conns : WriteCtrl(c) \/ WriteData(c)
      <4>1. CASE Reader \/ UNCHANGED vars
        BY <3>1, <4>1 DEF Reader, Push, PushDropped, Renotify, Exit, vars,
           seenVars, fateVars
      <4>2. ASSUME NEW c \in Conns, Request(c) \/ Handle(c) PROVE told' = told
        BY <4>2 DEF Request, Handle, Attach, AttachRefuse, DetachRequest,
           AttachEvict, AttachRegister, AttachRespond, Reject, DetachApply,
           DetachRespond, Teardown, seenVars, fateVars
      <4>3. ASSUME NEW c \in Conns, WriterFail(c) \/ Heartbeat(c) \/ ClientGone(c)
            PROVE  told' = told
        BY <4>3 DEF WriterFail, Heartbeat, ClientGone, seenVars, fateVars
      <4>4. ASSUME NEW t \in Streams, Stream(t) PROVE told' = told
        BY <4>4 DEF Stream, StreamStart, StreamReport, StreamReported,
           StreamRead, StreamGap, StreamSend, StreamOffer, StreamRepoll, StreamCaught,
       StreamListen, StreamWait, StreamExited,
           StreamNotice, StreamWake, StreamCancelled, StreamLeave, seenVars, fateVars
      <4> QED
        BY <3>1, <4>1, <4>2, <4>3, <4>4 DEF Next, Write
    <3>3. PICK c \in Conns : WriteCtrl(c) \/ WriteData(c)
      BY <3>2
    <3>4. CASE WriteData(c)
      BY <1>3, <2>2, <3>4 DEF WriteData, TypeOK
    <3>5. CASE WriteCtrl(c)
      <4> DEFINE f == Head(ctrl[c])
      <4>1. f.stream = s /\ f.kind = "exited" /\ ctrl[c] # <<>>
        BY <1>3, <2>2, <3>5 DEF WriteCtrl
      <4>2. 1 \in DOMAIN ctrl[c] /\ f = ctrl[c][1]
        BY <4>1 DEF TypeOK
      <4>3. pc[s] \in Over /\ Flushed(s)
        BY <4>1, <4>2 DEF Announced
      <4> QED
        BY <4>3, OverStays
    <3> QED
      BY <3>3, <3>4, <3>5
  <2> QED
    BY <2>1, <2>2
<1>4. ASSUME NEW s \in Streams, NEW c \in Conns, NEW i \in DOMAIN ctrl'[c],
             ctrl'[c][i].kind = "exited", ctrl'[c][i].stream = s
      PROVE  pc'[s] \in Over /\ Flushed(s)'
  <2>1. CASE \E j \in DOMAIN ctrl[c] : ctrl'[c][i] = ctrl[c][j]
    <3>1. pc[s] \in Over /\ Flushed(s)
      BY <1>4, <2>1 DEF Announced
    <3> QED
      BY <3>1, OverStays
  <2>2. CASE StreamExited(s)
    <3>1. pc[s] = "exit" /\ pc'[s] = "leave"
      BY <2>2 DEF StreamExited, StreamNotice, StreamTo, TypeOK
    <3>2. Flushed(s)
      BY <3>1 DEF Announced
    <3>3. Flushed(s)'
      BY <3>1, <3>2, OverStays
    <3> QED
      BY <3>1, <3>3 DEF Over
  <2> QED
    BY <1>4, <2>1, <2>2, CtrlStep
<1> QED
  BY <1>1, <1>2, <1>3, <1>4 DEF Announced

(***************************************************************************)
(* SessionExited is issued only for a dead child all of whose output was   *)
(* handed to the data channel, however the child's last bytes, its exit    *)
(* and the streamer's looks at the ring and the status interleave.         *)
(***************************************************************************)
THEOREM ExitFlushed == Spec => []ExitedAfterFlush
<1>1. TypeOK /\ Located /\ Delivery /\ Announced /\ [Next]_vars => Announced'
  BY AnnouncedStep
<1>2. TypeOK /\ Announced => ExitedAfterFlush
  <2> SUFFICES ASSUME TypeOK, Announced, NEW s \in Streams,
                      pc[s] = "exit" \/ Noticed(s, "exited")
               PROVE  Flushed(s)
    BY DEF ExitedAfterFlush, Flushed
  <2>1. CASE pc[s] = "exit" \/ "exited" \in told[s]
    BY <2>1 DEF Announced
  <2>2. CASE /\ conn[s] # NoConn /\ conn[s] \in Conns
             /\ [kind |-> "exited", stream |-> s] \in
                  {ctrl[conn[s]][i] : i \in DOMAIN ctrl[conn[s]]}
    BY <2>2 DEF Announced
  <2> QED
    BY <2>1, <2>2 DEF Noticed, TypeOK
<1>3. Spec => []Delivery
  <2>1. TypeOK /\ Located /\ Delivery /\ [Next]_vars => Delivery'
    BY DeliveryStep
  <2> QED
    BY <2>1, DeliveryInit, TypeCorrect, LocatedCorrect, PTL DEF Spec
<1> QED
  BY <1>1, <1>2, <1>3, AnnouncedInit, TypeCorrect, LocatedCorrect, PTL DEF Spec
-----------------------------------------------------------------------------
(***************************************************************************)
(* Sole ownership.  From its grant on, until it is cancelled or somebody   *)
(* who took the session over is about to cancel it, a stream is the        *)
(* attacher, unless another stream of its connection cleared it; and once  *)
(* it streams it is also the one its connection has registered, so that a  *)
(* detach or a teardown cancels the stream whose attachment it clears.     *)
(***************************************************************************)
Granted ==
  \A s \in Streams : pc[s] = "granted" =>
    /\ handler[conn[s]] \in {"evict", "register", "respond"}
    /\ target[conn[s]] = s

Registered ==
  \A s \in Streams :
    /\ ~cancelled[s]
    /\ \/ pc[s] \in Streaming
       \/ pc[s] = "granted" /\ handler[conn[s]] = "respond"
    => entry[conn[s]] = s

Displaced(s) ==
  \E c \in Conns : handler[c] \in {"evict", "register"} /\ evicted[c] = s

Holding ==
  \A s \in Streams :
    /\ pc[s] \in Streaming \cup {"granted"}
    /\ ~cancelled[s] /\ ~Displaced(s)
    => attacher = s \/ s \in wiped

Ownership == Granted /\ Registered /\ Holding

(* No stream is granted at first. *)
LEMMA OwnershipInit == Init => Ownership
<1> SUFFICES ASSUME Init PROVE Ownership
  OBVIOUS
<1>1. \A s \in Streams : pc[s] = "unused" /\ conn[s] = NoConn
  BY DEF Init
<1> QED
  BY <1>1 DEF Ownership, Granted, Registered, Holding, Streaming

(* A step that grants nothing, moves no attachment, and at most ends a
   stream. *)
LEMMA OwnershipQuiet ==
  ASSUME TypeOK, Ownership,
         UNCHANGED <<attacher, conn, cancelled, handler, target, evicted, entry, wiped>>,
         \A t \in Streams : /\ pc'[t] \in Streaming => pc[t] \in Streaming
                            /\ pc'[t] = "granted" => pc[t] = "granted"
  PROVE  Ownership'
<1>1. Granted' /\ Registered'
  BY DEF Ownership, Granted, Registered
<1>2. \A s \in Streams : Displaced(s)' <=> Displaced(s)
  BY DEF Displaced
<1>3. Holding'
  BY <1>2 DEF Ownership, Holding
<1> QED
  BY <1>1, <1>3 DEF Ownership

(* A handler that is not granting a stream, and does not start to. *)
LEMMA OwnershipHandler ==
  ASSUME TypeOK, Located, Ownership,
         UNCHANGED <<attacher, pc, conn, cancelled, target, evicted, entry, wiped>>,
         NEW c \in Conns, NEW where,
         handler' = [handler EXCEPT ![c] = where],
         handler[c] \notin {"evict", "register", "respond"},
         where \notin {"evict", "register", "respond"}
  PROVE  Ownership'
<1>1. /\ handler'[c] = where
      /\ \A d \in Conns \ {c} : handler'[d] = handler[d]
  BY DEF TypeOK
<1>2. \A s \in Streams : pc[s] = "granted" => conn[s] \in Conns \ {c}
  <2>1. \A s \in Streams : pc[s] = "granted" => conn[s] \in Conns
    BY DEF TypeOK, Located, Connected
  <2> QED
    BY <2>1 DEF Ownership, Granted
<1>3. Granted' /\ Registered'
  BY <1>1, <1>2 DEF Ownership, Granted, Registered
<1>4. \A s \in Streams : Displaced(s) => Displaced(s)'
  BY <1>1 DEF Displaced
<1>5. Holding'
  BY <1>4 DEF Ownership, Holding
<1> QED
  BY <1>3, <1>5 DEF Ownership

(* Every step keeps sole ownership. *)
LEMMA OwnershipStep ==
  ASSUME TypeOK, Located, Ownership, [Next]_vars
  PROVE  Ownership'
<1> USE DEF HandlerTo
<1>1. CASE Reader
  <2>1. /\ NotifyOne(pc)
        /\ UNCHANGED <<attacher, conn, cancelled, handler, target, evicted, entry,
                      wiped>>
    BY <1>1 DEF Reader, Push, PushDropped, Renotify, Exit, streamVars, connVars,
       fateVars
  <2>2. \A s \in Streams : \/ pc'[s] = pc[s]
                           \/ pc[s] = "parked" /\ pc'[s] = "woken"
    BY <2>1, ReaderNotifies DEF Located
  <2> QED
    BY <2>1, <2>2, OwnershipQuiet DEF Streaming
<1>2. ASSUME NEW c \in Conns, NEW s \in Streams, NEW start, Attach(c, s, start)
      PROVE  Ownership'
  <2> DEFINE to == IF attacher # NoStream /\ ConnOf(attacher) # c THEN "evict"
                   ELSE "register"
  <2>1. /\ pc[s] = "unused" /\ handler[c] = "idle" /\ conn[s] = NoConn
        /\ attacher' = s /\ UNCHANGED <<cancelled, entry, wiped>>
    BY <1>2 DEF Attach, Idle, Located, Connected, streamVars, fateVars
  <2>2. /\ evicted' = [evicted EXCEPT ![c] = attacher]
        /\ target' = [target EXCEPT ![c] = s]
        /\ handler' = [handler EXCEPT ![c] = to]
        /\ pc' = [pc EXCEPT ![s] = "granted"]
        /\ conn' = [conn EXCEPT ![s] = c]
    BY <1>2 DEF Attach
  <2>3. to \in {"evict", "register"}
    OBVIOUS
  <2> HIDE DEF to
  <2>4. /\ evicted'[c] = attacher /\ target'[c] = s /\ handler'[c] = to
        /\ pc'[s] = "granted" /\ conn'[s] = c
        /\ \A t \in Streams \ {s} : pc'[t] = pc[t] /\ conn'[t] = conn[t]
        /\ \A d \in Conns \ {c} : /\ handler'[d] = handler[d]
                                  /\ target'[d] = target[d]
                                  /\ evicted'[d] = evicted[d]
    BY <2>2 DEF TypeOK
  <2>8. \A t \in Streams \ {s} : pc[t] = "granted" => conn[t] \in Conns \ {c}
    <3>1. \A t \in Streams : pc[t] = "granted" => conn[t] \in Conns
      BY DEF TypeOK, Located, Connected
    <3> QED
      BY <2>1, <3>1 DEF Ownership, Granted
  <2>9. Granted'
    BY <2>3, <2>4, <2>8 DEF Ownership, Granted
  <2>10. Registered'
    <3>1. pc'[s] \notin Streaming /\ handler'[c] # "respond"
      BY <2>3, <2>4 DEF Streaming
    <3> QED
      BY <2>1, <2>4, <2>8, <3>1 DEF Ownership, Registered
  <2>11. Holding'
    <3> SUFFICES ASSUME NEW t \in Streams, t # s,
                        pc[t] \in Streaming \cup {"granted"},
                        ~cancelled[t], ~Displaced(t)', t \notin wiped
                 PROVE  FALSE
      BY <2>1, <2>4 DEF Holding
    <3>1. \A d \in Conns : ~(handler[d] \in {"evict", "register"} /\ evicted[d] = t)
      BY <2>1, <2>4 DEF Displaced
    <3>2. attacher = t
      BY <2>1, <3>1 DEF Ownership, Holding, Displaced
    <3> QED
      BY <2>3, <2>4, <3>2 DEF Displaced
  <2> QED
    BY <2>9, <2>10, <2>11 DEF Ownership
<1>3. ASSUME NEW c \in Conns, AttachRefuse(c) \/ DetachRequest(c) \/ Reject(c)
                              \/ DetachRespond(c)
      PROVE  Ownership'
  <2>1. /\ handler[c] \in {"idle", "reject", "detached"}
        /\ UNCHANGED <<attacher, pc, conn, cancelled, target, evicted, entry,
                      wiped>>
    BY <1>3 DEF AttachRefuse, DetachRequest, Reject, DetachRespond, Idle, streamVars,
       fateVars
  <2>2. \E where \in {"reject", "detach", "idle"} :
          handler' = [handler EXCEPT ![c] = where]
    BY <1>3, Zenon DEF AttachRefuse, DetachRequest, Reject, DetachRespond
  <2> QED
    BY <2>1, <2>2, OwnershipHandler
<1>4. ASSUME NEW c \in Conns, AttachEvict(c) PROVE Ownership'
  <2>1. /\ UNCHANGED <<attacher, pc, conn, cancelled, target, evicted, entry,
                      wiped>>
        /\ handler[c] = "evict" /\ handler' = [handler EXCEPT ![c] = "register"]
    BY <1>4 DEF AttachEvict, streamVars, fateVars
  <2>2. /\ handler'[c] = "register"
        /\ \A d \in Conns \ {c} : handler'[d] = handler[d]
    BY <2>1 DEF TypeOK
  <2>3. Granted' /\ Registered'
    BY <2>1, <2>2 DEF Ownership, Granted, Registered
  <2>4. \A s \in Streams : Displaced(s) => Displaced(s)'
    BY <2>1, <2>2 DEF Displaced
  <2>5. Holding'
    BY <2>1, <2>4 DEF Ownership, Holding
  <2> QED
    BY <2>3, <2>5 DEF Ownership
<1>5. ASSUME NEW c \in Conns, AttachRegister(c) PROVE Ownership'
  <2>1. /\ handler[c] = "register" /\ UNCHANGED <<attacher, pc, conn, target, wiped>>
        /\ cancelled' = [t \in Streams |->
                           cancelled[t] \/ t = evicted[c] \/ t = entry[c]]
        /\ entry' = [entry EXCEPT ![c] = target[c]]
        /\ evicted' = [evicted EXCEPT ![c] = NoStream]
        /\ handler' = [handler EXCEPT ![c] = "respond"]
    BY <1>5 DEF AttachRegister, fateVars
  <2>2. /\ \A t \in Streams : ~cancelled'[t] => ~cancelled[t] /\ t # evicted[c] /\ t # entry[c]
        /\ entry'[c] = target[c] /\ handler'[c] = "respond"
        /\ \A d \in Conns \ {c} : /\ handler'[d] = handler[d]
                                  /\ entry'[d] = entry[d]
                                  /\ evicted'[d] = evicted[d]
    BY <2>1 DEF TypeOK
  <2>3. target[c] \in Streams /\ conn[target[c]] = c
    BY <2>1 DEF Located, Granting
  <2>4. Granted'
    BY <2>1, <2>2 DEF Ownership, Granted
  <2>5. Registered'
    <3>1. ASSUME NEW t \in Streams, ~cancelled'[t], conn[t] = c,
                 pc[t] \in Streaming \cup {"granted"}
          PROVE  t = target[c]
      BY <2>2, <3>1 DEF Ownership, Granted, Registered
    <3> SUFFICES ASSUME NEW t \in Streams, ~cancelled'[t], conn[t] # c,
                        \/ pc[t] \in Streaming
                        \/ pc[t] = "granted" /\ handler'[conn[t]] = "respond"
                 PROVE  entry'[conn[t]] = t
      BY <2>1, <2>2, <3>1 DEF Registered
    <3>2. conn[t] \in Conns \ {c}
      BY DEF Located, Connected, TypeOK, Streaming
    <3> QED
      BY <2>2, <3>2 DEF Ownership, Registered
  <2>6. \A t \in Streams : ~cancelled'[t] /\ Displaced(t) => Displaced(t)'
    BY <2>2 DEF Displaced
  <2>7. Holding'
    BY <2>1, <2>2, <2>6 DEF Ownership, Holding
  <2> QED
    BY <2>4, <2>5, <2>7 DEF Ownership
<1>6. ASSUME NEW c \in Conns, AttachRespond(c) PROVE Ownership'
  <2> DEFINE s == target[c]
  <2>1. /\ handler[c] = "respond"
        /\ s \in Streams /\ conn[s] = c /\ pc[s] = "granted"
    BY <1>6 DEF AttachRespond, Located, Granting
  <2>2. /\ UNCHANGED <<attacher, conn, cancelled, evicted, entry, wiped>>
        /\ pc' = [pc EXCEPT ![s] = "start"]
        /\ target' = [target EXCEPT ![c] = NoStream]
        /\ handler' = [handler EXCEPT ![c] = "idle"]
    BY <1>6 DEF AttachRespond, streamVars, fateVars
  <2> HIDE DEF s
  <2>3. /\ pc'[s] = "start" /\ handler'[c] = "idle"
        /\ \A t \in Streams \ {s} : pc'[t] = pc[t]
        /\ \A d \in Conns \ {c} : handler'[d] = handler[d] /\ target'[d] = target[d]
    BY <2>1, <2>2 DEF TypeOK
  <2>4. \A t \in Streams \ {s} : pc[t] = "granted" => conn[t] # c
    BY <2>1 DEF Ownership, Granted, s
  <2>5. \A t \in Streams \ {s} : pc[t] = "granted" => conn[t] \in Conns \ {c}
    BY <2>4 DEF Located, Connected, TypeOK
  <2>6. Granted'
    BY <2>2, <2>3, <2>5 DEF Ownership, Granted
  <2>7. Registered'
    BY <2>1, <2>2, <2>3, <2>5 DEF Ownership, Registered
  <2>8. \A t \in Streams : Displaced(t) => Displaced(t)'
    BY <2>1, <2>2, <2>3 DEF Displaced
  <2>9. Holding'
    BY <2>1, <2>2, <2>3, <2>8 DEF Ownership, Holding
  <2> QED
    BY <2>6, <2>7, <2>9 DEF Ownership
<1>7. ASSUME NEW c \in Conns, DetachApply(c) \/ Teardown(c) PROVE Ownership'
  <2>1. /\ handler[c] \in {"detach", "idle"}
        /\ UNCHANGED <<pc, conn, target, evicted, wiped>>
        /\ cancelled' = [t \in Streams |-> cancelled[t] \/ t = entry[c]]
        /\ entry' = [entry EXCEPT ![c] = NoStream]
        /\ attacher' = attacher \/ (attacher' = NoStream /\ ConnOf(attacher) = c)
        /\ \E where \in {"detached", "closed"} :
             handler' = [handler EXCEPT ![c] = where]
    BY <1>7 DEF DetachApply, Teardown, fateVars
  <2>2. /\ \A t \in Streams : ~cancelled'[t] => ~cancelled[t] /\ t # entry[c]
        /\ handler'[c] \in {"detached", "closed"}
        /\ \A d \in Conns \ {c} : handler'[d] = handler[d] /\ entry'[d] = entry[d]
    BY <2>1 DEF TypeOK
  <2>3. \A t \in Streams : pc[t] \in Streaming \cup {"granted"} => conn[t] \in Conns
    BY DEF Located, Connected, TypeOK, Streaming
  <2>4. \A t \in Streams : pc[t] = "granted" => conn[t] # c
    BY <2>1 DEF Ownership, Granted
  <2>5. Granted'
    BY <2>1, <2>2, <2>3, <2>4 DEF Ownership, Granted
  <2>6. \A t \in Streams : pc[t] \in Streaming /\ conn[t] = c => cancelled'[t]
    BY <2>1, <2>2 DEF Ownership, Registered
  <2>7. Registered'
    BY <2>1, <2>2, <2>3, <2>4, <2>6 DEF Ownership, Registered
  <2>8. \A t \in Streams : Displaced(t) => Displaced(t)'
    BY <2>1, <2>2 DEF Displaced
  <2>9. Holding'
    <3> SUFFICES ASSUME NEW t \in Streams, pc[t] \in Streaming \cup {"granted"},
                        ~cancelled'[t], ~Displaced(t)', t \notin wiped
                 PROVE  attacher' = t
      BY <2>1 DEF Holding
    <3>1. attacher = t
      BY <2>2, <2>8 DEF Ownership, Holding
    <3>2. conn[t] # c
      BY <2>4, <2>6
    <3>3. ConnOf(attacher) # c
      BY <3>1, <3>2, HolderAssumption DEF ConnOf
    <3> QED
      BY <2>1, <3>1, <3>3
  <2> QED
    BY <2>5, <2>7, <2>9 DEF Ownership
<1>8. ASSUME NEW s \in Streams, StreamLeave(s) PROVE Ownership'
  <2>1. /\ pc[s] = "leave" /\ UNCHANGED <<conn, cancelled, handler, target, evicted>>
        /\ entry' = [entry EXCEPT ![conn[s]] = IF @ = s THEN NoStream ELSE @]
        /\ attacher' = IF ConnOf(attacher) = conn[s] THEN NoStream ELSE attacher
        /\ pc' = [pc EXCEPT ![s] = "done"]
    BY <1>8 DEF StreamLeave, StreamTo, streamVars
  <2>2. /\ pc'[s] = "done"
        /\ \A t \in Streams \ {s} : pc'[t] = pc[t]
        /\ \A d \in Conns : entry[d] # s => entry'[d] = entry[d]
    BY <2>1 DEF TypeOK
  <2>3. Granted'
    BY <2>1, <2>2 DEF Ownership, Granted
  <2>4. \A t \in Streams : pc[t] \in Streaming \cup {"granted"} => conn[t] \in Conns
    BY DEF Located, Connected, TypeOK, Streaming
  <2>5. Registered'
    BY <2>1, <2>2, <2>4 DEF Ownership, Registered, Streaming
  <2>6. \A t \in Streams : Displaced(t)' <=> Displaced(t)
    BY <2>1 DEF Displaced
  <2>7. Holding'
    <3> SUFFICES ASSUME NEW t \in Streams \ {s},
                        pc[t] \in Streaming \cup {"granted"},
                        ~cancelled[t], ~Displaced(t), t \notin wiped'
                 PROVE  attacher' = t
      BY <2>1, <2>2, <2>6 DEF Holding, Streaming
    <3>1. wiped \subseteq wiped'
      BY <1>8 DEF StreamLeave, TypeOK
    <3>2. attacher = t
      BY <3>1 DEF Ownership, Holding
    <3>3. ConnOf(attacher) # conn[s]
      BY <1>8, <3>2, HolderAssumption DEF StreamLeave, ConnOf
    <3> QED
      BY <2>1, <3>2, <3>3
  <2> QED
    BY <2>3, <2>5, <2>7 DEF Ownership
<1>9. ASSUME NEW s \in Streams, Stream(s), ~StreamLeave(s) PROVE Ownership'
  <2>1. /\ pc[s] \in Streaming
        /\ UNCHANGED <<attacher, conn, cancelled, handler, target, evicted, entry,
                      wiped>>
    BY <1>9 DEF Stream, StreamStart, StreamReport, StreamReported, StreamRead,
       StreamGap, StreamSend, StreamOffer, StreamRepoll, StreamCaught,
       StreamListen, StreamWait, StreamExited, StreamWake,
       StreamCancelled, StreamNotice, streamVars, connVars, fateVars, Streaming
  <2>2. /\ pc'[s] # "granted"
        /\ \A t \in Streams \ {s} : \/ pc'[t] = pc[t]
                                    \/ pc[t] = "parked" /\ pc'[t] = "woken"
    BY <1>9, StreamMoves DEF Located
  <2> QED
    BY <2>1, <2>2, OwnershipQuiet DEF Streaming
<1>10. ASSUME NEW c \in Conns,
              Write(c) \/ WriterFail(c) \/ Heartbeat(c) \/ ClientGone(c)
       PROVE  Ownership'
  <2>1. UNCHANGED <<attacher, pc, conn, cancelled, handler, target, evicted, entry,
                      wiped>>
    BY <1>10 DEF Write, WriteCtrl, WriteData, WriterFail, Heartbeat, ClientGone,
       streamVars, connVars, fateVars
  <2> QED
    BY <2>1, OwnershipQuiet
<1>11. CASE UNCHANGED vars
  <2>1. UNCHANGED <<attacher, pc, conn, cancelled, handler, target, evicted, entry,
                      wiped>>
    BY <1>11 DEF vars, streamVars, connVars, fateVars
  <2> QED
    BY <2>1, OwnershipQuiet
<1> QED
  BY <1>1, <1>2, <1>3, <1>4, <1>5, <1>6, <1>7, <1>8, <1>9, <1>10, <1>11
     DEF Next, Request, Handle

(***************************************************************************)
(* Single attacher, for any number of connections that attach, on one      *)
(* connection or on several, as often as they like: a stream that runs and *)
(* was not told to stop is the session's attacher, whatever takeovers,     *)
(* detaches, endings and teardowns come between, unless another stream of  *)
(* its own connection cleared it on its way out.                           *)
(***************************************************************************)
THEOREM AttacherOwns == Spec => []AttacherOwnsStream
<1>1. TypeOK /\ Located /\ Ownership /\ [Next]_vars => Ownership'
  BY OwnershipStep
<1>2. Ownership => AttacherOwnsStream
  BY DEF Ownership, Holding, Displaced, AttacherOwnsStream, Owning
<1> QED
  BY <1>1, <1>2, OwnershipInit, TypeCorrect, LocatedCorrect, PTL DEF Spec
=============================================================================
