--------------------------- MODULE AttentionProofs ---------------------------
(***************************************************************************)
(* Theorems about Attention, for any prompts and any capacity: what the    *)
(* row says of a live session, and that it says what it should.            *)
(***************************************************************************)
EXTENDS Attention, SequenceTheorems, TLAPS

\* A plain shell's monitor has no verdict of its own, and a monitor put over a
\* running session has none yet.
ShellHasNone == plugin = "shell" => last = "none" /\ (~ended => db = "none")
FirstVerdict == adopted => last = "none" /\ ~fresh
Inv == BadgeTrue /\ ShellHasNone /\ FirstVerdict

(* At first there is no verdict, and the badge says so.                    *)
LEMMA InitInv == Init => Inv
BY DEF Init, Inv, BadgeTrue, ShellHasNone, FirstVerdict

(* The monitor reads a chunk.  What it does not write is activity after    *)
(* activity, which the row already says, or has been cleared of.           *)
LEMMA ChunkStep == ASSUME Inv, OnChunk PROVE Inv'
<1> USE DEF Inv
<1> DEFINE previous == IF reset /\ NeedsUser(last) THEN "none" ELSE last
           raw == Classify(Head(queue))
           state == Sticky(raw, previous)
<1>1. /\ OnOutput(Head(queue), previous) /\ adopted' = FALSE
      /\ UNCHANGED <<plugin, ended>> /\ ~ended /\ plugin # "shell"
  BY DEF OnChunk
<1>2. CASE IsEcho(raw, previous)
  <2>1. last' = previous /\ UNCHANGED <<db, acked>>
    BY <1>1, <1>2 DEF OnOutput
  <2>2. previous = last /\ last = "idle"
    BY <1>2 DEF IsEcho
  <2> QED BY <1>1, <2>1, <2>2 DEF BadgeTrue, ShellHasNone, FirstVerdict
<1>3. CASE ~IsEcho(raw, previous) /\ MustWrite(state, previous)
  <2>1. last' = state /\ db' = state
    BY <1>1, <1>3 DEF OnOutput, SetAttention
  <2> QED BY <1>1, <2>1 DEF BadgeTrue, ShellHasNone, FirstVerdict
<1>4. CASE ~IsEcho(raw, previous) /\ ~MustWrite(state, previous)
  <2>1. last' = state /\ UNCHANGED <<db, acked>>
    BY <1>1, <1>4 DEF OnOutput
  <2>2. state = previous /\ previous = "activity"
    BY <1>4 DEF MustWrite
  <2>3. previous = last
    BY <2>2
  <2>4. last' = last /\ last = "activity" /\ UNCHANGED <<db, acked>>
    BY <2>1, <2>2, <2>3
  <2> HIDE DEF previous, raw, state
  <2> QED BY <1>1, <2>4 DEF BadgeTrue, ShellHasNone, FirstVerdict
<1> QED BY <1>2, <1>3, <1>4

(* The other steps that move the monitor's verdict or the row.             *)
LEMMA MonitorStep == ASSUME Inv, OnShellChunk \/ OnIdle \/ OnExit \/ Adopt PROVE Inv'
<1> USE DEF Inv
<1>1. CASE OnShellChunk
  BY <1>1 DEF OnShellChunk, SetAttention, BadgeTrue, ShellHasNone, FirstVerdict
<1>2. CASE OnIdle
  BY <1>2 DEF OnIdle, SetAttention, BadgeTrue, ShellHasNone, FirstVerdict, seen
<1>3. CASE OnExit
  BY <1>3 DEF OnExit, BadgeTrue, ShellHasNone, FirstVerdict, seen
<1>4. CASE Adopt
  BY <1>4 DEF Adopt, BadgeTrue, ShellHasNone, FirstVerdict
<1> QED BY <1>1, <1>2, <1>3, <1>4

(* Every step of the monitor, the viewer, the deck and the agent keeps it. *)
LEMMA StepInv == Inv /\ [Next]_vars => Inv'
<1> SUFFICES ASSUME Inv, [Next]_vars PROVE Inv'
  OBVIOUS
<1>1. CASE OnChunk
  BY <1>1, ChunkStep
<1>2. CASE OnShellChunk \/ OnIdle \/ OnExit \/ Adopt
  BY <1>2, MonitorStep
<1>3. CASE UNCHANGED <<plugin, last, ended, db, acked, fresh, adopted>>
  BY <1>3 DEF Inv, BadgeTrue, ShellHasNone, FirstVerdict
<1>4. ASSUME NEW who \in {"viewer", "deck"}, Clear(who) PROVE Inv'
  BY <1>4 DEF Clear, ClearForView, monitor, Inv, BadgeTrue, ShellHasNone, FirstVerdict
<1>5. CASE \E who \in {"viewer", "deck"} : Raise(who) \/ Note(who)
  BY <1>3, <1>5 DEF Raise, Note, monitor, seen
<1>6. CASE \/ \E shows \in Screens, bell \in BOOLEAN : Emit(shows, bell)
           \/ OnLagged \/ Type \/ ShowDeck \/ Respond \/ SendKeys
  BY <1>3, <1>6 DEF Emit, OnLagged, Type, ShowDeck, Respond, SendKeys, monitor, seen
<1>7. CASE Pass
  BY <1>7 DEF Pass, Inv, BadgeTrue, ShellHasNone, FirstVerdict, seen
<1> QED BY <1>1, <1>2, <1>3, <1>4, <1>5, <1>6, <1>7 DEF Next, vars

(* The row of a live session says what its monitor found last, or nothing  *)
(* since a view cleared it (monitor.rs, must_write): no debounce, echo or  *)
(* answer leaves a state on it that the monitor has left.  Over a session  *)
(* that a restarted daemon adopted the old badge stands until the monitor  *)
(* has read a chunk, and with the first one it is the verdict again.       *)
THEOREM BadgeAlwaysTrue == Spec => []BadgeTrue
BY InitInv, StepInv, PTL DEF Spec, Inv

-----------------------------------------------------------------------------
(***************************************************************************)
(* Released.  Since the last answer, if the agent has asked nothing new,   *)
(* what it wrote is the old menu, repeated, and then no menu at all; the   *)
(* last chunk on its way is what the terminal shows; and as long as the    *)
(* monitor may still meet the old menu the answer's signal stands.         *)
(***************************************************************************)
Showing == queue # <<>> => queue[Len(queue)].shows = screen

MenuFirst ==
  \A i, j \in DOMAIN queue :
    /\ ~queue[i].bell
    /\ i < j /\ queue[j].shows \in Prompts => queue[i].shows \in Prompts

Spent ==
  /\ ~NeedsUser(last) /\ screen \notin Prompts
  /\ plugin = "tail" => \A i \in DOMAIN queue : queue[i].shows \notin Prompts

Caught == moved /\ queue = <<>> /\ screen \notin Prompts => ~NeedsUser(last)

Answered ==
  ~ended /\ ~asked /\ plugin # "shell" => MenuFirst /\ Caught /\ (reset \/ Spent)

Chunk == [shows : Screens, bell : BOOLEAN]

(* What is left of the queue when chunks are read or lost is its end.      *)
LEMMA Suffix ==
  ASSUME NEW q \in Seq(Chunk), q # <<>>, NEW r,
         \/ r = Tail(q)
         \/ Len(q) > Cap /\ r = SubSeq(q, Len(q) - Cap + 1, Len(q))
  PROVE  /\ r \in Seq(Chunk)
         /\ \E k \in Nat : /\ Len(r) = Len(q) - k
                           /\ \A i \in 1 .. Len(r) : i + k \in 1 .. Len(q) /\ r[i] = q[i + k]
<1>1. CASE r = Tail(q)
  <2>1. r \in Seq(Chunk) /\ Len(r) = Len(q) - 1 /\ \A i \in 1 .. Len(r) : r[i] = q[i + 1]
    BY <1>1, HeadTailProperties
  <2> QED BY <2>1
<1>2. CASE Len(q) > Cap /\ r = SubSeq(q, Len(q) - Cap + 1, Len(q))
  <2> DEFINE k == Len(q) - Cap
  <2>1. k \in Nat /\ k < Len(q) /\ Len(q) \in Nat
    BY <1>2, BoundsAssumption
  <2>2. \A i \in k + 1 .. Len(q) : q[i] \in Chunk
    BY <2>1
  <2>3. /\ r \in Seq(Chunk) /\ Len(r) = IF k + 1 <= Len(q) THEN Len(q) - (k + 1) + 1 ELSE 0
        /\ \A i \in 1 .. Len(q) - (k + 1) + 1 : r[i] = q[k + 1 + i - 1]
    BY <1>2, <2>1, <2>2, SubSeqProperties
  <2> HIDE DEF k
  <2>4. r \in Seq(Chunk) /\ Len(r) = Len(q) - k /\ \A i \in 1 .. Len(r) : r[i] = q[i + k]
    BY <2>1, <2>3
  <2>5. /\ Len(r) = Len(q) - k
        /\ \A i \in 1 .. Len(r) : i + k \in 1 .. Len(q) /\ r[i] = q[i + k]
    <3>1. Len(r) \in Nat
      BY <2>4
    <3> QED BY <2>1, <2>4, <3>1
  <2> QED BY <2>1, <2>4, <2>5
<1> QED BY <1>1, <1>2

(* Reading or losing chunks keeps what holds of all that is queued.        *)
LEMMA Dropped ==
  ASSUME queue \in Seq(Chunk), queue # <<>>, UNCHANGED screen,
         \/ queue' = Tail(queue)
         \/ Len(queue) > Cap /\ queue' = SubSeq(queue, Len(queue) - Cap + 1, Len(queue))
  PROVE  /\ queue' \in Seq(Chunk)
         /\ Showing => Showing'
         /\ MenuFirst => MenuFirst'
         /\ (\A i \in DOMAIN queue : queue[i].shows \notin Prompts)
              => \A i \in DOMAIN queue' : queue'[i].shows \notin Prompts
<1>1. /\ queue' \in Seq(Chunk)
      /\ \E k \in Nat : /\ Len(queue') = Len(queue) - k
                        /\ \A i \in 1 .. Len(queue') : /\ i + k \in 1 .. Len(queue)
                                                       /\ queue'[i] = queue[i + k]
  BY Suffix
<1>2. PICK k \in Nat : /\ Len(queue') = Len(queue) - k
                       /\ \A i \in 1 .. Len(queue') : /\ i + k \in 1 .. Len(queue)
                                                      /\ queue'[i] = queue[i + k]
  BY <1>1
<1>3. /\ DOMAIN queue = 1 .. Len(queue) /\ DOMAIN queue' = 1 .. Len(queue')
      /\ Len(queue) \in Nat /\ Len(queue') \in Nat
  BY <1>1
<1>4. ASSUME Showing PROVE Showing'
  <2> SUFFICES ASSUME queue' # <<>> PROVE queue'[Len(queue')].shows = screen
    BY DEF Showing
  <2>1. Len(queue') \in 1 .. Len(queue')
    BY <1>1, <1>3
  <2> QED BY <1>2, <1>3, <1>4, <2>1 DEF Showing
<1>5. ASSUME MenuFirst PROVE MenuFirst'
  <2> SUFFICES ASSUME NEW i \in 1 .. Len(queue'), NEW j \in 1 .. Len(queue')
               PROVE  /\ ~queue'[i].bell
                      /\ i < j /\ queue'[j].shows \in Prompts => queue'[i].shows \in Prompts
    BY <1>3 DEF MenuFirst
  <2>1. /\ i + k \in DOMAIN queue /\ queue'[i] = queue[i + k]
        /\ j + k \in DOMAIN queue /\ queue'[j] = queue[j + k]
        /\ i < j => i + k < j + k
    BY <1>2, <1>3
  <2> QED BY <1>5, <2>1 DEF MenuFirst
<1>6. ASSUME \A i \in DOMAIN queue : queue[i].shows \notin Prompts
      PROVE  \A i \in DOMAIN queue' : queue'[i].shows \notin Prompts
  BY <1>2, <1>3, <1>6
<1> QED BY <1>1, <1>4, <1>5, <1>6

(* The declared types.                                                     *)
LEMMA TypesStep == ASSUME TypeOK, [Next]_vars PROVE TypeOK'
<1> USE BoundsAssumption
<1>0. /\ fresh \in BOOLEAN /\ reset \in BOOLEAN /\ echo \in BOOLEAN
      /\ submitted \in BOOLEAN /\ ended \in BOOLEAN
      /\ queue \in Seq(Chunk)
  BY DEF TypeOK, Chunk
<1>1. ASSUME NEW shows \in Screens, NEW bell \in BOOLEAN, Emit(shows, bell) PROVE TypeOK'
  <2>1. [shows |-> shows, bell |-> bell] \in Chunk
    BY DEF Chunk
  <2>2. queue' \in Seq(Chunk)
    BY <1>0, <1>1, <2>1 DEF Emit
  <2>3. chunks' \in 0 .. MaxChunks
    BY <1>1 DEF Emit, TypeOK
  <2> QED BY <1>1, <2>2, <2>3 DEF Emit, TypeOK, monitor, signals, users, Chunk
<1>2. CASE OnChunk
  <2> DEFINE previous == IF reset /\ NeedsUser(last) THEN "none" ELSE last
             raw == Classify(Head(queue))
             state == Sticky(raw, previous)
  <2>1. previous \in States /\ raw \in States
    BY DEF TypeOK, States, Blocking, Classify
  <2>2. state \in States
    BY <2>1 DEF Sticky
  <2>3. /\ OnOutput(Head(queue), previous) /\ reset' = Spend(reset, last')
        /\ queue' = Tail(queue) /\ queue # <<>>
        /\ UNCHANGED <<plugin, screen, echo, submitted, ended, pc, rev, touches, chunks>>
    BY <1>2 DEF OnChunk, users
  <2>4. /\ last' \in {previous, state} /\ db' \in {db, state}
        /\ fresh' = fresh \/ fresh' = TRUE
    <3> HIDE DEF previous
    <3> QED BY <2>3 DEF OnOutput, SetAttention
  <2>5. queue' \in Seq(Chunk)
    BY <1>0, <2>3
  <2>6. reset' \in BOOLEAN
    BY <2>3 DEF Spend
  <2>7. fresh' \in BOOLEAN
    BY <1>0, <2>4, Zenon
  <2> HIDE DEF previous, raw, state
  <2> QED BY <1>0, <2>1, <2>2, <2>3, <2>4, <2>5, <2>6, <2>7 DEF TypeOK, Chunk
<1>3. CASE OnShellChunk
  <2>1. queue' \in Seq(Chunk)
    BY <1>0, <1>3 DEF OnShellChunk
  <2>2. fresh' = fresh \/ fresh' = TRUE
    BY <1>3 DEF OnShellChunk
  <2>3. fresh' \in BOOLEAN
    BY <1>0, <2>2, Zenon
  <2> QED BY <1>0, <1>3, <2>1, <2>3 DEF OnShellChunk, TypeOK, users, SetAttention, Chunk, States
<1>4. CASE OnLagged
  <2>1. queue # <<>>
    <3>1. Len(<<>>) = 0 /\ Cap \in Nat
      BY BoundsAssumption
    <3> QED BY <1>4, <3>1 DEF OnLagged
  <2>2. queue' \in Seq(Chunk)
    BY <1>0, <1>4, <2>1, Suffix DEF OnLagged
  <2> QED BY <1>4, <2>2 DEF OnLagged, TypeOK, monitor, signals, users, Chunk
<1>5. CASE OnIdle
  BY <1>5 DEF OnIdle, SetAttention, TypeOK, users, States, Blocking
<1>6. CASE OnExit
  <2>1. db' \in {"failed", "none"} /\ ended' = TRUE
    BY <1>6 DEF OnExit, SetAttention
  <2> QED BY <1>6, <2>1 DEF OnExit, TypeOK, users, signals, States
<1>7. CASE Pass
  BY <1>7 DEF Pass, TypeOK, users
<1>8. ASSUME NEW who \in {"viewer", "deck"}, Clear(who) PROVE TypeOK'
  BY <1>8 DEF Clear, ClearForView, TypeOK, monitor, signals, States
<1>9. ASSUME NEW who \in {"viewer", "deck"}, Raise(who) PROVE TypeOK'
  <2>1. reset' \in BOOLEAN
    BY <1>9 DEF Raise
  <2> QED BY <1>9, <2>1 DEF Raise, TypeOK, monitor
<1>10. ASSUME NEW who \in {"viewer", "deck"}, Note(who) PROVE TypeOK'
  <2>1. submitted' = submitted \/ submitted' = TRUE
    BY <1>10 DEF Note
  <2>2. submitted' \in BOOLEAN
    BY <1>0, <2>1, Zenon
  <2> QED BY <1>10, <2>2 DEF Note, TypeOK, monitor
<1>11. CASE Type \/ ShowDeck \/ Respond \/ SendKeys
  BY <1>11 DEF Type, ShowDeck, Respond, SendKeys, TypeOK, monitor, signals
<1>12. CASE UNCHANGED vars
  BY <1>12 DEF vars, TypeOK
<1>13. CASE Adopt
  <2>1. queue' \in Seq(Chunk) /\ touches' \in 0 .. MaxTouches
    <3>1. <<>> \in Seq(Chunk)
      OBVIOUS
    <3>2. queue' = queue \/ queue' = <<>>
      BY <1>13 DEF Adopt
    <3>3. touches \in Nat /\ touches <= MaxTouches /\ touches' = touches + 1 /\ touches < MaxTouches
      BY <1>13, BoundsAssumption DEF Adopt, TypeOK
    <3>4. queue' \in Seq(Chunk)
      BY <1>0, <3>1, <3>2
    <3>5. touches' \in 0 .. MaxTouches
      BY <3>3, BoundsAssumption
    <3> QED BY <3>4, <3>5
  <2>2. /\ fresh' = FALSE /\ reset' = FALSE /\ echo' = FALSE /\ submitted' = FALSE
        /\ last' = "none" /\ UNCHANGED <<plugin, screen, db, ended, rev, chunks>>
    BY <1>13 DEF Adopt
  <2> QED BY <1>0, <2>1, <2>2 DEF TypeOK, Chunk, States
<1> QED BY <1>1, <1>2, <1>3, <1>4, <1>5, <1>6, <1>7, <1>8, <1>9, <1>10, <1>11, <1>12, <1>13 DEF Next

(* A chunk on its way is the screen's last: the agent's writes keep it, an *)
(* answer does not touch it, the monitor only shortens the queue.          *)
LEMMA ShowingStep == ASSUME TypeOK, Showing, [Next]_vars PROVE Showing'
<1>0. queue \in Seq(Chunk)
  BY DEF TypeOK, Chunk
<1>1. ASSUME NEW shows \in Screens, NEW bell \in BOOLEAN, Emit(shows, bell) PROVE Showing'
  <2>1. [shows |-> shows, bell |-> bell] \in Chunk
    BY DEF Chunk
  <2>2. Len(queue') = Len(queue) + 1 /\ queue'[Len(queue) + 1] = [shows |-> shows, bell |-> bell]
    BY <1>0, <1>1, <2>1 DEF Emit
  <2> QED BY <1>1, <2>2 DEF Emit, Showing
<1>2. CASE OnChunk \/ OnShellChunk \/ OnLagged
  <2>1. queue # <<>>
    <3>1. Len(<<>>) = 0 /\ Cap \in Nat
      BY BoundsAssumption
    <3> QED BY <1>2, <3>1 DEF OnChunk, OnShellChunk, OnLagged
  <2> QED BY <1>0, <1>2, <2>1, Dropped DEF OnChunk, OnShellChunk, OnLagged
<1>3. CASE UNCHANGED <<screen, queue>>
  BY <1>3 DEF Showing
<1>4. CASE Adopt
  BY <1>4 DEF Adopt, Showing
<1> QED BY <1>1, <1>2, <1>3, <1>4 DEF Next, vars, OnIdle, OnExit, Pass, Clear, Raise, Note, Type, ShowDeck,
           Respond, SendKeys

(* The monitor reads a chunk: an old menu leaves the signal up; the first  *)
(* chunk without one takes the verdict away and spends it.                 *)
LEMMA AnsweredChunk ==
  ASSUME TypeOK, Showing, Answered, OnChunk
  PROVE  Answered'
<1> DEFINE chunk == Head(queue)
           previous == IF reset /\ NeedsUser(last) THEN "none" ELSE last
           raw == Classify(chunk)
           state == Sticky(raw, previous)
<1> SUFFICES ASSUME ~ended, ~asked, plugin # "shell"
             PROVE  MenuFirst' /\ Caught' /\ (reset' \/ Spent')
  BY DEF OnChunk, Answered
<1>1. /\ OnOutput(chunk, previous) /\ reset' = Spend(reset, last')
      /\ queue' = Tail(queue) /\ queue # <<>> /\ UNCHANGED <<plugin, screen, moved>>
  BY DEF OnChunk
<1>2. MenuFirst /\ Caught /\ (reset \/ Spent) /\ queue \in Seq(Chunk)
  BY DEF Answered, TypeOK, Chunk
<1>3. 1 \in DOMAIN queue /\ chunk = queue[1] /\ ~chunk.bell
  BY <1>1, <1>2 DEF MenuFirst
<1>4. MenuFirst' /\ Showing'
  BY <1>1, <1>2, Dropped
<1>5. reset => previous \notin Blocking
  BY DEF NeedsUser, Blocking
<1>6. ~reset => previous = last /\ last \notin Blocking
  BY <1>2 DEF Spent, NeedsUser
<1>7. previous \notin Blocking
  BY <1>5, <1>6
<1>8. raw \in {"approval_needed", "activity"}
  BY <1>3 DEF Classify
<1> HIDE DEF chunk, previous
<1>9. last' \in {previous, state}
  BY <1>1 DEF OnOutput
<1>10. IsEcho(raw, previous) => raw = "activity"
  BY DEF IsEcho
<1>11. raw = "activity" => ~NeedsUser(last')
  BY <1>7, <1>9 DEF Sticky, NeedsUser, Blocking
<1>12. raw # "activity" => last' = "approval_needed"
  BY <1>1, <1>8, <1>10 DEF OnOutput, Sticky
<1>13. raw = "activity" <=>
         (IF plugin = "screen" THEN screen ELSE chunk.shows) \notin Prompts
  BY <1>3 DEF Classify
<1>14. Caught'
  <2> SUFFICES ASSUME queue' = <<>>, screen \notin Prompts PROVE raw = "activity"
    BY <1>1, <1>11 DEF Caught
  <2>1. Len(queue) = 1
    <3>1. Len(queue) \in Nat
      BY <1>2
    <3>2. Len(Tail(queue)) = Len(queue) - 1
      BY <1>1, <1>2, HeadTailProperties
    <3>3. Len(queue') = 0
      OBVIOUS
    <3> QED BY <1>1, <3>1, <3>2, <3>3
  <2>2. chunk.shows = screen
    BY <1>1, <1>3, <2>1 DEF Showing
  <2> QED BY <1>13, <2>2
<1>15. ASSUME raw = "activity" PROVE Spent'
  <2>1. CASE plugin = "screen"
    BY <1>1, <1>11, <1>13, <1>15, <2>1 DEF Spent
  <2>2. CASE plugin # "screen"
    <3>1. chunk.shows \notin Prompts
      BY <1>13, <1>15, <2>2
    <3>2. \A j \in DOMAIN queue : queue[j].shows \notin Prompts
      <4> SUFFICES ASSUME NEW j \in 1 .. Len(queue), queue[j].shows \in Prompts PROVE FALSE
        BY <1>2
      <4>1. j = 1 \/ 1 < j
        BY <1>2
      <4> QED BY <1>2, <1>3, <3>1, <4>1 DEF MenuFirst
    <3>3. \A j \in DOMAIN queue' : queue'[j].shows \notin Prompts
      BY <1>1, <1>2, <3>2, Dropped
    <3>4. Len(queue) \in DOMAIN queue
      BY <1>1, <1>2
    <3>5. screen \notin Prompts
      BY <1>1, <3>2, <3>4 DEF Showing
    <3> QED BY <1>1, <1>11, <1>15, <3>3, <3>5 DEF Spent
  <2> QED BY <2>1, <2>2
<1>16. ASSUME raw # "activity" PROVE reset'
  <2>1. reset
    <3> SUFFICES ASSUME Spent PROVE FALSE
      BY <1>2
    <3>1. chunk.shows \notin Prompts \/ plugin = "screen"
      BY <1>3 DEF Spent, TypeOK
    <3> QED BY <1>13, <1>16, <3>1 DEF Spent
  <2> QED BY <1>1, <1>12, <1>16, <2>1 DEF Spend, NeedsUser, Blocking
<1> QED BY <1>4, <1>14, <1>15, <1>16

(* Every step keeps it: what the user answered stays answered until the    *)
(* agent asks again.                                                       *)
LEMMA AnsweredStep ==
  ASSUME TypeOK, Showing, ShellHasNone, Answered, [Next]_vars
  PROVE  Answered'
<1>0. queue \in Seq(Chunk)
  BY DEF TypeOK, Chunk
<1>1. CASE OnChunk
  BY <1>1, AnsweredChunk
<1>2. ASSUME NEW shows \in Screens, NEW bell \in BOOLEAN, Emit(shows, bell) PROVE Answered'
  <2> SUFFICES ASSUME ~ended, ~asked, ~bell, shows \in Prompts => shows = screen, plugin # "shell"
               PROVE  MenuFirst' /\ Caught' /\ (reset \/ Spent')
    BY <1>2 DEF Emit, Answered, monitor, signals
  <2>0. MenuFirst /\ (reset \/ Spent)
    BY DEF Answered
  <2> DEFINE n == Len(queue)
  <2>1. [shows |-> shows, bell |-> bell] \in Chunk
    BY DEF Chunk
  <2>2. /\ n \in Nat /\ DOMAIN queue = 1 .. n /\ DOMAIN queue' = 1 .. n + 1
        /\ \A i \in 1 .. n : queue'[i] = queue[i]
        /\ queue'[n + 1] = [shows |-> shows, bell |-> bell]
        /\ queue' # <<>>
    BY <1>0, <1>2, <2>1, AppendProperties, LenProperties DEF Emit
  <2>3. /\ queue'[n + 1].shows = shows /\ queue'[n + 1].bell = bell
        /\ screen' = shows /\ UNCHANGED <<last, plugin>>
    BY <1>2, <2>2 DEF Emit, monitor
  <2> HIDE DEF n
  <2>4. Caught'
    BY <2>2 DEF Caught
  <2>5. ASSUME shows \in Prompts, NEW i \in 1 .. n PROVE queue[i].shows \in Prompts
    <3>1. queue[n].shows = screen /\ screen \in Prompts
      BY <2>2, <2>5 DEF Showing, n
    <3> QED BY <2>0, <2>2, <2>5, <3>1 DEF MenuFirst
  <2>6. MenuFirst'
    <3> SUFFICES ASSUME NEW i \in 1 .. n + 1, NEW j \in 1 .. n + 1
                 PROVE  /\ ~queue'[i].bell
                        /\ i < j /\ queue'[j].shows \in Prompts => queue'[i].shows \in Prompts
      BY <2>2 DEF MenuFirst
    <3>1. ~queue'[i].bell
      BY <2>0, <2>2, <2>3 DEF MenuFirst
    <3>2. ASSUME i < j, queue'[j].shows \in Prompts PROVE queue'[i].shows \in Prompts
      <4>1. i \in 1 .. n
        BY <2>2, <3>2
      <4>2. CASE j = n + 1
        BY <2>2, <2>3, <2>5, <3>2, <4>1, <4>2
      <4>3. CASE j \in 1 .. n
        BY <2>0, <2>2, <3>2, <4>1, <4>3 DEF MenuFirst
      <4> QED BY <2>2, <4>2, <4>3
    <3> QED BY <3>1, <3>2
  <2>7. Spent => Spent'
    <3> SUFFICES ASSUME Spent PROVE Spent'
      OBVIOUS
    <3>1. shows \notin Prompts
      BY DEF Spent
    <3>2. plugin = "tail" => \A i \in 1 .. n + 1 : queue'[i].shows \notin Prompts
      BY <2>2, <2>3, <3>1 DEF Spent
    <3> QED BY <2>2, <2>3, <3>1, <3>2 DEF Spent
  <2> QED BY <2>0, <2>4, <2>6, <2>7
<1>3. CASE OnLagged
  <2>1. queue # <<>> /\ queue' # <<>>
    <3>1. queue # <<>>
      <4>1. Len(<<>>) = 0 /\ Cap \in Nat
        BY BoundsAssumption
      <4> QED BY <1>3, <4>1 DEF OnLagged
    <3>2. Len(queue) \in Nat /\ Len(queue) > Cap /\ Cap \in Nat \ {0}
      BY <1>0, <1>3, BoundsAssumption DEF OnLagged
    <3>3. \A i \in Len(queue) - Cap + 1 .. Len(queue) : queue[i] \in Chunk
      BY <1>0, <3>2
    <3>4. Len(queue') = Cap
      BY <1>3, <3>2, <3>3, SubSeqProperties DEF OnLagged
    <3> QED BY <3>1, <3>2, <3>4
  <2>2. /\ MenuFirst => MenuFirst'
        /\ (\A i \in DOMAIN queue : queue[i].shows \notin Prompts)
             => \A i \in DOMAIN queue' : queue'[i].shows \notin Prompts
    BY <1>0, <1>3, <2>1, Dropped DEF OnLagged
  <2> QED BY <1>3, <2>1, <2>2 DEF OnLagged, Answered, Caught, Spent, monitor, signals
<1>4. CASE OnIdle
  <2>1. asked' \/ last' = "idle"
    BY <1>4 DEF OnIdle
  <2> QED BY <1>4, <2>1 DEF OnIdle, Answered, MenuFirst, Caught, Spent, NeedsUser, Blocking
<1>5. ASSUME NEW who \in {"viewer", "deck"}, Raise(who) \/ Note(who) PROVE Answered'
  <2>1. /\ asked' = Unread /\ moved' = FALSE /\ UNCHANGED <<queue, ended, plugin>>
        /\ ~ended => reset'
    BY <1>5 DEF Raise, Note, monitor
  <2>2. ~Unread => MenuFirst
    BY DEF Unread, MenuFirst
  <2> QED BY <2>1, <2>2 DEF Answered, MenuFirst, Caught
<1>6. CASE UNCHANGED <<plugin, screen, queue, last, ended, reset, moved, asked>>
  BY <1>6 DEF Answered, MenuFirst, Caught, Spent
<1>7. CASE OnShellChunk \/ OnExit \/ Adopt
  BY <1>7 DEF OnShellChunk, OnExit, Adopt, Answered
<1>8. ASSUME NEW who \in {"viewer", "deck"}, Clear(who) PROVE Answered'
  BY <1>6, <1>8 DEF Clear, monitor, signals
<1>9. CASE Pass \/ Type \/ ShowDeck \/ Respond \/ SendKeys
  BY <1>6, <1>9 DEF Pass, Type, ShowDeck, Respond, SendKeys, monitor, signals
<1> QED BY <1>1, <1>2, <1>3, <1>4, <1>5, <1>6, <1>7, <1>8, <1>9 DEF Next, vars

(* Every state has the declared types.                                     *)
THEOREM AttentionTypes == Spec => []TypeOK
<1>1. Init => TypeOK
  <2> SUFFICES ASSUME Init PROVE TypeOK
    OBVIOUS
  <2>1. queue \in Seq([shows : Screens, bell : BOOLEAN])
    BY DEF Init
  <2>2. /\ fresh \in BOOLEAN /\ reset \in BOOLEAN /\ echo \in BOOLEAN
        /\ submitted \in BOOLEAN /\ ended \in BOOLEAN
    BY DEF Init
  <2>3. chunks \in 0 .. MaxChunks /\ touches \in 0 .. MaxTouches
    BY BoundsAssumption DEF Init
  <2> QED BY <2>1, <2>2, <2>3 DEF Init, TypeOK, Screens, States
<1> QED BY <1>1, TypesStep, PTL DEF Spec

(* Once the user has viewed or answered, and the agent has since written   *)
(* something, asked nothing new and left the menu, the badge no longer     *)
(* needs the user: however many chunks repeat the old menu, whichever the  *)
(* receiver loses, and however the agent is read (monitor.rs, on_chunk).   *)
THEOREM AnswerReleases == Spec => []Released
<1>1. Init => Showing /\ Answered
  BY DEF Init, Showing, Answered
<1>2. Inv => ShellHasNone
  BY DEF Inv
<1>3. TypeOK /\ ShellHasNone /\ Answered => Released
  <2> SUFFICES ASSUME TypeOK, ShellHasNone, Answered, ~ended, ~asked, moved, queue = <<>>,
                      screen = "work"
               PROVE  ~NeedsUser(last)
    BY DEF Released
  <2>1. screen \notin Prompts
    BY BoundsAssumption
  <2> QED BY <2>1 DEF Answered, Caught, ShellHasNone, NeedsUser, Blocking
<1> QED BY <1>1, <1>2, <1>3, AttentionTypes, ShowingStep, AnsweredStep, InitInv, StepInv, PTL DEF Spec
-----------------------------------------------------------------------------
(***************************************************************************)
(* PromptOnBadge.  A prompt that nobody has viewed is in the queue, where  *)
(* the last chunk is what the screen shows, or the monitor and the row     *)
(* both say so.                                                            *)
(***************************************************************************)
Waiting == ~ended /\ plugin # "shell" /\ screen \in Prompts /\ unseen /\ ~adopted
Told == Waiting /\ queue = <<>> => last = "approval_needed" /\ db = "approval_needed"

(* The monitor reads the last chunk, which shows the prompt: no echo and   *)
(* no earlier verdict keeps it off the row.                                *)
LEMMA ToldChunk == ASSUME TypeOK, Showing, OnChunk PROVE Told'
<1> DEFINE previous == IF reset /\ NeedsUser(last) THEN "none" ELSE last
<1> SUFFICES ASSUME screen \in Prompts, queue' = <<>>
             PROVE  last' = "approval_needed" /\ db' = "approval_needed"
  BY DEF Told, Waiting, OnChunk
<1>1. queue \in Seq(Chunk) /\ queue # <<>> /\ queue' = Tail(queue)
  BY DEF TypeOK, OnChunk, Chunk
<1>2. Len(queue) = 1
  <2>1. Len(queue) \in Nat
    BY <1>1
  <2>2. Len(Tail(queue)) = Len(queue) - 1
    BY <1>1, HeadTailProperties
  <2>3. Tail(queue) = <<>>
    BY <1>1
  <2>4. Len(Tail(queue)) = 0
    <3>1. Len(<<>>) = 0
      OBVIOUS
    <3> QED BY <2>3, <3>1, Zenon
  <2> QED BY <2>1, <2>2, <2>4
<1>3. Head(queue).shows = screen
  BY <1>1, <1>2 DEF Showing
<1>4. Classify(Head(queue)) = "approval_needed"
  BY <1>3 DEF Classify
<1>5. OnOutput(Head(queue), previous)
  BY DEF OnChunk
<1> HIDE DEF previous
<1> QED BY <1>4, <1>5 DEF OnOutput, IsEcho, Sticky, MustWrite, SetAttention

(* Nothing else takes it off: silence is no verdict on a blocked session,  *)
(* what the receiver loses is never the last chunk, and a view is history. *)
LEMMA ToldStep == ASSUME TypeOK, Showing, Told, [Next]_vars PROVE Told'
<1>0. queue \in Seq(Chunk)
  BY DEF TypeOK, Chunk
<1>1. CASE OnChunk
  BY <1>1, ToldChunk
<1>2. ASSUME NEW shows \in Screens, NEW bell \in BOOLEAN, Emit(shows, bell) PROVE Told'
  <2>1. [shows |-> shows, bell |-> bell] \in Chunk
    BY DEF Chunk
  <2>2. queue' # <<>>
    BY <1>0, <1>2, <2>1, AppendProperties DEF Emit
  <2> QED BY <2>2 DEF Told
<1>3. CASE OnLagged
  <2>1. Len(queue) \in Nat /\ Len(queue) > Cap /\ Cap \in Nat \ {0}
    BY <1>0, <1>3, BoundsAssumption DEF OnLagged
  <2>2. \A i \in Len(queue) - Cap + 1 .. Len(queue) : queue[i] \in Chunk
    BY <1>0, <2>1
  <2>3. Len(queue') = Cap
    BY <1>3, <2>1, <2>2, SubSeqProperties DEF OnLagged
  <2>4. queue' # <<>>
    BY <2>1, <2>3
  <2> QED BY <2>4 DEF Told
<1>4. CASE OnIdle
  BY <1>4 DEF OnIdle, Told, Waiting, seen
<1>5. CASE OnShellChunk \/ OnExit \/ Adopt
  BY <1>5 DEF OnShellChunk, OnExit, Adopt, Told, Waiting
<1>6. ASSUME NEW who \in {"viewer", "deck"}, Clear(who) PROVE Told'
  BY <1>6 DEF Clear, ClearForView, Told, Waiting
<1>7. CASE UNCHANGED <<plugin, screen, queue, last, db, ended, unseen, adopted>>
  BY <1>7 DEF Told, Waiting
<1>8. ASSUME NEW who \in {"viewer", "deck"}, Raise(who) \/ Note(who) PROVE Told'
  BY <1>7, <1>8 DEF Raise, Note, monitor, seen
<1>9. CASE Pass \/ Type \/ ShowDeck \/ Respond \/ SendKeys
  BY <1>7, <1>9 DEF Pass, Type, ShowDeck, Respond, SendKeys, monitor, seen
<1> QED BY <1>1, <1>2, <1>3, <1>4, <1>5, <1>6, <1>7, <1>8, <1>9 DEF Next, vars

(* A prompt drawn since the last view is on the badge once the monitor has *)
(* read what was written: whatever the user types, whatever state it comes *)
(* upon, however much the receiver loses (monitor.rs, on_output).          *)
THEOREM PromptsReachTheBadge == Spec => []PromptOnBadge
<1>1. Init => Showing /\ Told
  BY DEF Init, Showing, Told, Waiting
<1>2. Told => PromptOnBadge
  BY DEF Told, Waiting, PromptOnBadge
<1> QED BY <1>1, <1>2, AttentionTypes, ShowingStep, ToldStep, PTL DEF Spec
=============================================================================
