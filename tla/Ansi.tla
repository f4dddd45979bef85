-------------------------------- MODULE Ansi --------------------------------
(***************************************************************************)
(* The daemon's scanners over a session's raw output: the history ring of  *)
(* whole chunks and the filter that takes terminal queries out of what is  *)
(* replayed to a client (backend/mod.rs), the bell scanner and the bounded *)
(* tail of the monitor (session_manager/mod.rs).                           *)
(*                                                                         *)
(* A byte is one of a few symbols, each for the class of bytes the code    *)
(* tells apart: "e" ESC, "b" BEL, "k" the digits of a colour's OSC code,   *)
(* "0" other digits, "n" the final byte of a request, "x" other text.      *)
(***************************************************************************)
EXTENDS Naturals, Sequences, SequencesExt

Final == {"[", "]", "P", "\\", "n", "x"}   \* a CSI's final byte, 0x40 to 0x7e
From(s, i) == SubSeq(s, i, Len(s))

(***************************************************************************)
(* The history ring: whole chunks, the oldest evicted beyond `cap` bytes,  *)
(* the newest never.                                                       *)
(***************************************************************************)
Bytes(chunks) == FoldLeft(LAMBDA n, c : n + Len(c), 0, chunks)
Evict(chunks, cap) ==
  From(chunks, CHOOSE i \in 1 .. Len(chunks) :
                 /\ i = Len(chunks) \/ Bytes(From(chunks, i)) <= cap
                 /\ \A j \in 1 .. i - 1 : Bytes(From(chunks, j)) > cap)
PushChunk(chunks, chunk, cap) == Evict(Append(chunks, chunk), cap)

(***************************************************************************)
(* scan_string_seq: where the body that starts at `from` ends, and where   *)
(* its terminator does; 0 when the input ends first.                       *)
(***************************************************************************)
Terminator(s, j) == \/ s[j] = "b"
                    \/ s[j] = "e" /\ j < Len(s) /\ s[j + 1] = "\\"
BodyEnd(s, from) == LET ends == {j \in from .. Len(s) : Terminator(s, j)}
                    IN  IF ends = {} THEN 0 ELSE CHOOSE j \in ends : \A k \in ends : j <= k
SeqEnd(s, from) == LET j == BodyEnd(s, from) IN IF s[j] = "b" THEN j ELSE j + 1

\* is_osc_color_query: a colour's code, and a bare `?` as the last parameter
IsColorQuery(body) == /\ Len(body) >= 3 /\ body[1] = "k" /\ body[2] = ";"
                      /\ body[Len(body)] = "?" /\ body[Len(body) - 1] = ";"

\* strip_terminal_queries: out[i] is what it emits from position i on
CsiEnd(s, i) == LET ends == {j \in i + 2 .. Len(s) : s[j] \in Final \cup {"e"}}
                IN  IF ends = {} THEN 0 ELSE CHOOSE j \in ends : \A k \in ends : j <= k
Strip(s) ==
  LET n == Len(s)
      out[i \in 1 .. n + 1] ==
        IF i > n THEN <<>>
        ELSE IF s[i] # "e" \/ i = n THEN <<s[i]>> \o out[i + 1]
        ELSE CASE s[i + 1] = "[" ->
                    LET j == CsiEnd(s, i)
                    IN  IF j = 0 THEN From(s, i)
                        ELSE IF s[j] = "e" THEN SubSeq(s, i, j - 1) \o out[j]
                        ELSE IF s[j] = "n" THEN out[j + 1]
                        ELSE SubSeq(s, i, j) \o out[j + 1]
               [] s[i + 1] \in {"]", "P"} ->
                    LET j == BodyEnd(s, i + 2)
                        end == SeqEnd(s, i + 2)
                    IN  IF j = 0 THEN From(s, i)
                        ELSE IF s[i + 1] = "]" /\ IsColorQuery(SubSeq(s, i + 2, j - 1)) THEN out[end + 1]
                        ELSE SubSeq(s, i, end) \o out[end + 1]
               [] OTHER -> SubSeq(s, i, i + 1) \o out[i + 2]
  IN  out[1]
Repaint(chunks) == Strip(FlattenSeq(chunks))

(***************************************************************************)
(* scan_bell: a BEL outside an OSC string; the state it keeps between      *)
(* chunks is whether it is inside one.  trim_tail: the newest characters   *)
(* of a text, each `width` bytes, that fit.                                *)
(***************************************************************************)
ScanBell(bytes, inOsc) ==
  LET Pair(i, c) == bytes[i] = "e" /\ i < Len(bytes) /\ bytes[i + 1] = c
      Step(st, i) ==
        IF st.skip THEN [st EXCEPT !.skip = FALSE]
        ELSE IF st.osc THEN [st EXCEPT !.osc = ~(bytes[i] = "b" \/ Pair(i, "\\")), !.skip = Pair(i, "\\")]
        ELSE [osc |-> Pair(i, "]"), skip |-> Pair(i, "]"), bell |-> st.bell \/ bytes[i] = "b"]
  IN  FoldLeftDomain(Step, [osc |-> inOsc, skip |-> FALSE, bell |-> FALSE], bytes)

Width(text) == FoldLeft(LAMBDA n, c : n + c, 0, text)
TrimTail(text, max) ==
  IF Width(text) <= max THEN text
  ELSE From(text, CHOOSE i \in 1 .. Len(text) + 1 :
                    /\ Width(SubSeq(text, 1, i - 1)) >= Width(text) - max
                    /\ i = 1 \/ Width(SubSeq(text, 1, i - 2)) < Width(text) - max)

(***************************************************************************)
(* What the scanners are for, over streams of whole sequences.             *)
(***************************************************************************)
Texts == {<<"x">>, <<"n">>, <<"e", "x">>, <<"e", "[", "0", "x">>, <<"e", "]", "0", ";", "?", "b">>,
          <<"e", "]", "k", ";", "x", "?", "b">>, <<"e", "P", "e", "[", "n", "e", "\\">>}
Queries == {<<"e", "[", "0", "n">>, <<"e", "[", "n">>, <<"e", "]", "k", ";", "?", "b">>,
            <<"e", "]", "k", ";", "0", ";", "?", "e", "\\">>}
Streams(tokens) == BoundedSeq(tokens, 2)
Starts == {<<>>} \cup {s \in {From(t, i) : t \in Texts \cup Queries, i \in 2 .. 9} :
                        \A i \in 1 .. Len(s) - 1 : s[i] = "e" => s[i + 1] = "\\"}
Stops == UNION {{SubSeq(t, 1, i) : i \in 0 .. Len(t) - 1} : t \in Texts \cup Queries}

\* A repaint asks the client's terminal nothing and drops nothing it would have
\* drawn, wherever the ring's eviction cut the stream at its beginning and the
\* session's latest write at its end (backend/mod.rs:236).
RepaintAsksNothing ==
  \A start \in Starts, stream \in Streams(Texts \cup Queries), stop \in Stops :
    Repaint(<<start, FlattenSeq(stream), stop>>) =
      start \o FlattenSeq(SelectSeq(stream, LAMBDA t : t \in Texts)) \o stop
ASSUME RepaintAssumption == RepaintAsksNothing

\* The ring holds the newest chunks, never more bytes than its cap unless one
\* chunk is larger, and evicts none that would still fit.
RingBounded ==
  \A sizes \in BoundedSeq(0 .. 3, 4), cap \in 1 .. 4 : sizes # <<>> =>
    LET chunks == [i \in DOMAIN sizes |-> [j \in 1 .. sizes[i] |-> i]]
        ring == FoldLeft(LAMBDA r, c : PushChunk(r, c, cap), <<>>, chunks)
    IN  /\ IsSuffix(ring, chunks) /\ ring # <<>>
        /\ Bytes(ring) <= cap \/ Len(ring) = 1
ASSUME RingAssumption == RingBounded

\* A title's BEL is no bell and a bell is one, however the output is cut into two
\* reads, except between an ESC and the `]` or `\` after it (README, section 5).
BellsHeard ==
  \A stream \in Streams({<<"b">>} \cup Texts \cup Queries) :
    LET all == FlattenSeq(stream)
    IN  \A cut \in {c \in 0 .. Len(all) : c = 0 \/ all[c] # "e"} :
          LET first == ScanBell(SubSeq(all, 1, cut), FALSE)
              second == ScanBell(From(all, cut + 1), first.osc)
          IN  /\ (first.bell \/ second.bell) = (\E i \in DOMAIN stream : stream[i] = <<"b">>)
              /\ ~second.osc
ASSUME BellAssumption == BellsHeard

\* The tail keeps whole characters, as many of the newest as fit.
TailBounded ==
  \A text \in BoundedSeq(1 .. 4, 4), max \in 0 .. 8 :
    LET tail == TrimTail(text, max)
    IN  /\ IsSuffix(tail, text) /\ Width(tail) <= max
        /\ Len(tail) < Len(text) => Width(tail) + text[Len(text) - Len(tail)] > max
ASSUME TailAssumption == TailBounded
=============================================================================
