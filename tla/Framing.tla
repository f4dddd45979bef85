------------------------------- MODULE Framing -------------------------------
(***************************************************************************)
(* The frames of the holder's socket and what a reader makes of a stream   *)
(* that is cut, oversized or foreign.                                      *)
(*    u32 length (BE) | u8 tag | u16 ordinal (BE) | body                   *)
(***************************************************************************)
EXTENDS Naturals, Integers, Sequences, FiniteSets, SequencesExt

MaxFrame == 12          \* bound: MAX_FRAME_BYTES, 16 MiB in the code
Byte == 0..255

BE2(n) == <<(n \div 256) % 256, n % 256>>
BE4(n) == BE2(n \div 65536) \o BE2(n % 65536)
Be(s)  == FoldLeft(LAMBDA n, b : 256 * n + b, 0, s)

FrameBody(ordinal, body) == BE4(Len(body) + 3) \o <<0>> \o BE2(ordinal) \o body

(* read_frame: what the bytes left on the stream give, and the rest.  A    *)
(* stream that ends inside the length counts as a clean end.               *)
ReadFrame(s) ==
  LET len == Be(SubSeq(s, 1, 4))
      Err(e) == [got |-> e, rest |-> <<>>] IN
  IF Len(s) < 4 THEN Err("eof")
  ELSE IF len > MaxFrame THEN Err("too large")
  ELSE IF len < 3 THEN Err("malformed")
  ELSE IF Len(s) < 7 THEN Err("io")
  ELSE IF s[5] # 0 THEN Err("malformed")
  ELSE IF Len(s) < 4 + len THEN Err("io")
  ELSE [got |-> "frame", ordinal |-> Be(SubSeq(s, 6, 7)),
        body |-> SubSeq(s, 8, 4 + len), rest |-> SubSeq(s, 5 + len, Len(s))]

(* The read loops stop at the first thing that is not a frame.             *)
Frames[s \in Seq(Byte)] ==
  LET r == ReadFrame(s) IN
  IF r.got # "frame" THEN <<r.got>> ELSE <<<<r.ordinal, r.body>>>> \o Frames[r.rest]
-----------------------------------------------------------------------------
SomeFrames == {0, 300, 65535} \X {<<>>, <<0>>, <<0, 0, 0, 7>>, [i \in 1..9 |-> 1]}

(* Two frames are read back as they were written, and a stream cut at any  *)
(* byte gives the frames before the cut and then an end, never a frame     *)
(* that was not sent.  Only a cut inside a length looks like a clean end.  *)
ASSUME FramesSurvive ==
  \A f, g \in SomeFrames :
    LET a == FrameBody(f[1], f[2])
        s == a \o FrameBody(g[1], g[2]) IN
    \A cut \in 0..Len(s) :
      LET at == cut - (IF cut < Len(a) THEN 0 ELSE Len(a))
          whole == IF cut = Len(s) THEN <<f, g>> ELSE IF cut >= Len(a) THEN <<f>> ELSE <<>> IN
      Frames[SubSeq(s, 1, cut)] =
        Append(whole, IF cut = Len(s) \/ at < 4 THEN "eof" ELSE "io")

(* A length over the cap is refused before the body is waited for, and a   *)
(* length that cannot hold the tag and the ordinal, or another tag, is a   *)
(* foreign stream.                                                         *)
ASSUME ForeignRefused ==
  /\ \A n \in {MaxFrame + 1, 16777217, 2147483647} : Frames[BE4(n)] = <<"too large">>
  /\ \A n \in 0..2, rest \in {<<>>, <<0, 0, 0>>} : Frames[BE4(n) \o rest] = <<"malformed">>
  /\ \A tag \in {1, 255} : Frames[BE4(3) \o <<tag, 0, 0>>] = <<"malformed">>
=============================================================================
