------------------------------ MODULE Attention ------------------------------
(***************************************************************************)
(* What a session's badge says: the monitor task that reads the session's  *)
(* output (session_manager/monitor.rs), the viewer and the button deck     *)
(* that answer it (session_manager/mod.rs), and the row they all write.    *)
(*                                                                         *)
(* The monitor keeps its own state, `last`, beside the row's, `db`.  A     *)
(* state in which the agent needs the user is sticky: only a view or an    *)
(* answer, raised to the monitor through the flag `reset`, lets output     *)
(* reclassify it.  A monitor starts with the session, or over a session    *)
(* that an earlier daemon left running; then it knows nothing of the row.  *)
(***************************************************************************)
EXTENDS Naturals, Sequences

CONSTANTS Prompts,     \* what a menu asks, as the deck's revision tells them apart
          MaxChunks,   \* bounds what the agent writes
          MaxTouches,  \* bounds what the users do, and the daemon's restarts
          Cap          \* chunks the monitor's receiver retains

NoPrompt == "no prompt"

ASSUME BoundsAssumption ==
  /\ MaxChunks \in Nat /\ MaxTouches \in Nat /\ Cap \in Nat \ {0}
  /\ Prompts \cap {"work", "busy", "error", NoPrompt} = {}

Screens == {"work", "busy", "error"} \cup Prompts
Blocking == {"likely_blocked", "approval_needed", "error"}
States == {"none", "activity", "idle", "failed"} \cup Blocking
NeedsUser(a) == a \in Blocking

VARIABLES plugin,    \* "screen", "tail" or "shell": how the agent is read
          screen,    \* what the agent's terminal shows
          queue,     \* chunks on their way to the monitor
          last, db,  \* the monitor's state, the row's
          fresh,     \* the last write was within ACTIVITY_DEBOUNCE_MS
          reset, echo, submitted,   \* Interaction; echo: input within ECHO_WINDOW
          ended,     \* the session is over and the monitor with it
          pc, rev,   \* the viewer and the deck; the prompt the deck shows
          chunks, touches,          \* bounds
          acked, asked, moved, \* history: a view was the row's last writer; the
                               \* agent asked something, wrote something since
                               \* the last view or answer
          unseen,    \* history: the screen changed, and no view cleared the row since
          adopted    \* history: this monitor was started over a running session
                     \* and has read nothing yet

monitor == <<last, fresh, ended>>
signals == <<reset, echo, submitted>>
users == <<pc, rev, touches>>
seen == <<unseen, adopted>>
vars == <<plugin, screen, queue, last, db, fresh, reset, echo, submitted, ended, pc, rev,
          chunks, touches, acked, asked, moved, unseen, adopted>>

Init == /\ plugin \in {"screen", "tail", "shell"}
        /\ screen = "work" /\ queue = <<>> /\ last = "none" /\ db = "none"
        /\ fresh = FALSE /\ reset = FALSE /\ echo = FALSE /\ submitted = FALSE /\ ended = FALSE
        /\ pc = [who \in {"viewer", "deck"} |-> "idle"] /\ rev = NoPrompt
        /\ chunks = 0 /\ touches = 0
        /\ acked = FALSE /\ asked = TRUE /\ moved = FALSE /\ unseen = FALSE /\ adopted = FALSE

\* the two writers of the row's attention
SetAttention(state) == db' = state /\ acked' = FALSE
ClearForView == db' = "none" /\ acked' = TRUE /\ unseen' = FALSE

(***************************************************************************)
(* The agent: a chunk changes the screen, repeats it, or rings the bell.   *)
(***************************************************************************)
Emit(shows, bell) ==
  /\ ~ended /\ chunks < MaxChunks
  /\ chunks' = chunks + 1
  /\ screen' = shows
  /\ queue' = Append(queue, [shows |-> shows, bell |-> bell])
  /\ asked' = (asked \/ bell \/ (shows \in Prompts /\ shows # screen))
  /\ moved' = TRUE
  /\ unseen' = (unseen \/ shows # screen)
  /\ UNCHANGED <<plugin, db, monitor, signals, users, acked, adopted>>

(***************************************************************************)
(* The monitor.                                                            *)
(***************************************************************************)

\* an agent is classified by its rendered screen, as it is by now, or by the
\* tail of its output; a bell counts for what shows no prompt
Classify(chunk) ==
  LET shows == IF plugin = "screen" THEN screen ELSE chunk.shows
  IN  IF shows \in Prompts THEN "approval_needed"
      ELSE IF chunk.bell THEN "likely_blocked" ELSE "activity"

MustWriteLate(state, previous) == state # "activity" \/ ~fresh   \* mutant: a plain time debounce
MustWrite(state, previous) == state # "activity" \/ state # previous \/ ~fresh

\* on_output: keystroke echo at an idle prompt changes nothing; a blocked state
\* is not demoted by mere activity
IsEchoOfAny(raw, previous) == previous = "idle" /\ ~submitted /\ echo   \* mutant: whatever it shows
IsEcho(raw, previous) == raw = "activity" /\ previous = "idle" /\ ~submitted /\ echo
Sticky(raw, previous) == IF raw = "activity" /\ NeedsUser(previous) THEN previous ELSE raw
OnOutput(chunk, previous) ==
  LET raw == Classify(chunk)
      state == Sticky(raw, previous)
  IN  IF IsEcho(raw, previous) THEN /\ last' = previous /\ UNCHANGED <<db, fresh, acked>>
      ELSE /\ last' = state
           /\ IF MustWrite(state, previous)
              THEN SetAttention(state) /\ fresh' = TRUE
              ELSE UNCHANGED <<db, fresh, acked>>

\* on_chunk: the signal is spent only once the session has left the blocked state
SpendAtOnce(armed, state) == reset /\ ~armed   \* mutant: on the first chunk
Spend(armed, state) == reset /\ ~(armed /\ ~NeedsUser(state))
OnChunk ==
  /\ ~ended /\ queue # <<>> /\ plugin # "shell"
  /\ queue' = Tail(queue)
  /\ OnOutput(Head(queue), IF reset /\ NeedsUser(last) THEN "none" ELSE last)
  /\ reset' = Spend(reset, last')
  /\ adopted' = FALSE
  /\ UNCHANGED <<plugin, screen, echo, submitted, ended, users, chunks, asked, moved, unseen>>

\* a plain shell carries no badge
OnShellChunk ==
  /\ ~ended /\ queue # <<>> /\ plugin = "shell"
  /\ queue' = Tail(queue)
  /\ IF fresh THEN UNCHANGED <<db, fresh, acked>> ELSE SetAttention("none") /\ fresh' = TRUE
  /\ reset' = FALSE
  /\ adopted' = FALSE
  /\ UNCHANGED <<plugin, screen, last, echo, submitted, ended, users, chunks, asked, moved, unseen>>

\* RecvError::Lagged: the oldest chunks are gone, and nothing is made of it
OnLagged ==
  /\ ~ended /\ Len(queue) > Cap
  /\ queue' = SubSeq(queue, Len(queue) - Cap + 1, Len(queue))
  /\ UNCHANGED <<plugin, screen, db, monitor, signals, users, chunks, acked, asked, moved, seen>>

\* IDLE_AFTER without output, while working: the screen may say that the agent
\* is still busy, or that it stopped on an error
OnIdle ==
  /\ ~ended /\ last = "activity"
  /\ ~(plugin = "screen" /\ screen = "busy")
  /\ submitted' = FALSE
  /\ last' = IF plugin = "screen" /\ screen = "error" THEN "error" ELSE "idle"
  /\ SetAttention(last')
  /\ asked' = (asked \/ last' = "error")
  /\ UNCHANGED <<plugin, screen, queue, fresh, reset, echo, ended, users, chunks, moved, seen>>

OnExit ==
  /\ ~ended /\ ended' = TRUE
  /\ \E failed \in BOOLEAN : SetAttention(IF failed /\ plugin # "shell" THEN "failed" ELSE "none")
  /\ UNCHANGED <<plugin, screen, queue, last, fresh, signals, users, chunks, asked, moved, seen>>

\* time passes: the debounce and the echo window
Pass ==
  /\ fresh \/ echo
  /\ \/ fresh' = FALSE /\ UNCHANGED echo
     \/ echo' = FALSE /\ UNCHANGED fresh
  /\ UNCHANGED <<plugin, screen, queue, last, db, reset, submitted, ended, users, chunks, acked, asked, moved, seen>>

\* the daemon is restarted and adopts the running session: a new monitor with no
\* verdict over the row as it was; the requests are gone, and so are the chunks
\* that the new sidecar drains before the monitor listens
Adopt ==
  /\ ~ended /\ touches < MaxTouches /\ touches' = touches + 1
  /\ last' = "none" /\ fresh' = FALSE
  /\ reset' = FALSE /\ echo' = FALSE /\ submitted' = FALSE
  /\ pc' = [who \in {"viewer", "deck"} |-> "idle"]
  /\ queue' \in {queue, <<>>}
  /\ adopted' = TRUE /\ asked' = TRUE
  /\ UNCHANGED <<plugin, screen, db, ended, rev, chunks, acked, moved, unseen>>

(***************************************************************************)
(* The users.                                                              *)
(***************************************************************************)
\* what the user answered before the monitor read it
Unread == \E i \in DOMAIN queue : queue[i].bell \/ queue[i].shows \in Prompts

Goto(who, step) == pc' = [pc EXCEPT ![who] = step]

\* acknowledge_attention clears the row first and raises the signal then
Clear(who) ==
  /\ \/ who = "viewer" /\ pc[who] = "idle" /\ touches < MaxTouches /\ touches' = touches + 1
     \/ who = "deck" /\ pc[who] = "noted" /\ UNCHANGED touches
  /\ ClearForView
  /\ Goto(who, "cleared")
  /\ UNCHANGED <<plugin, screen, queue, monitor, signals, rev, chunks, asked, moved, adopted>>
Raise(who) ==
  /\ pc[who] = "cleared" /\ Goto(who, "idle")
  /\ reset' = (reset \/ ~ended) /\ asked' = Unread /\ moved' = FALSE
  /\ UNCHANGED <<plugin, screen, queue, db, monitor, echo, submitted, rev, touches, chunks, acked, seen>>

\* typing into the terminal: the agent gets it before note_interaction
Type == /\ pc.viewer = "idle" /\ ~ended /\ touches < MaxTouches /\ touches' = touches + 1
        /\ Goto("viewer", "typed")
        /\ UNCHANGED <<plugin, screen, queue, db, monitor, signals, rev, chunks, acked, asked, moved, seen>>
Note(who) ==
  /\ \/ who = "viewer" /\ pc[who] = "typed" /\ Goto(who, "idle") /\ submitted' \in {submitted, TRUE}
     \/ who = "deck" /\ pc[who] = "sent" /\ Goto(who, "noted") /\ submitted' = TRUE
  /\ reset' = TRUE /\ echo' = TRUE /\ asked' = Unread /\ moved' = FALSE
  /\ UNCHANGED <<plugin, screen, queue, db, monitor, rev, touches, chunks, acked, seen>>

\* the deck shows a prompt, and later answers it: the prompt is parsed again
\* from the screen and compared, then the keys are sent
ShowDeck == /\ pc.deck = "idle" /\ ~ended /\ NeedsUser(db) /\ screen \in Prompts /\ rev # screen
            /\ rev' = screen
            /\ UNCHANGED <<plugin, screen, queue, db, monitor, signals, pc, touches, chunks, acked, asked, moved, seen>>
SamePrompt(shown) == screen = shown
Respond == /\ pc.deck = "idle" /\ ~ended /\ rev # NoPrompt /\ touches < MaxTouches /\ touches' = touches + 1
           /\ NeedsUser(db) /\ SamePrompt(rev)
           /\ Goto("deck", "checked")
           /\ UNCHANGED <<plugin, screen, queue, db, monitor, signals, rev, chunks, acked, asked, moved, seen>>
SendKeys == /\ pc.deck = "checked" /\ Goto("deck", "sent")
            /\ UNCHANGED <<plugin, screen, queue, db, monitor, signals, rev, touches, chunks, acked, asked, moved, seen>>

Next == \/ \E shows \in Screens, bell \in BOOLEAN : Emit(shows, bell)
        \/ OnChunk \/ OnShellChunk \/ OnLagged \/ OnIdle \/ OnExit \/ Pass \/ Adopt
        \/ \E who \in {"viewer", "deck"} : Clear(who) \/ Raise(who) \/ Note(who)
        \/ Type \/ ShowDeck \/ Respond \/ SendKeys
Spec == Init /\ [][Next]_vars

(***************************************************************************)
(* Properties.                                                             *)
(***************************************************************************)
TypeOK == /\ plugin \in {"screen", "tail", "shell"} /\ screen \in Screens
          /\ queue \in Seq([shows : Screens, bell : BOOLEAN])
          /\ last \in States /\ db \in States /\ rev \in Prompts \cup {NoPrompt}
          /\ <<fresh, reset, echo, submitted, ended>> \in BOOLEAN \X BOOLEAN \X BOOLEAN \X BOOLEAN \X BOOLEAN
          /\ chunks \in 0 .. MaxChunks /\ touches \in 0 .. MaxTouches

\* While the session lives, the badge is the monitor's verdict, or nothing since
\* a view cleared it: the debounce never withholds a change (monitor.rs:461).  A
\* monitor that a restarted daemon put over a running session has no verdict, and
\* the row keeps its old badge, until the first output that it reads
\* (monitor.rs:25), and no longer.
BadgeTrue == ~ended => db = last \/ (db = "none" /\ acked) \/ (adopted /\ last = "none")

\* Once the user has viewed or answered, and the agent has written since, asked
\* nothing new, and shows no prompt, the badge no longer says that it needs the
\* user, however many chunks carried the old menu (monitor.rs:216).  A restart
\* forgets what was answered.
Released == (~ended /\ ~asked /\ moved /\ queue = <<>> /\ screen = "work") => ~NeedsUser(last)

\* A prompt that came on the screen after the last view or answer cleared the row
\* is on the badge once the monitor has caught up, whatever the user types into the
\* session meanwhile, whatever an echo or an earlier state hides, and whichever
\* chunks the receiver loses (monitor.rs:314-353); not of a monitor that was put
\* over the session and has read nothing.
PromptOnBadge ==
  (~ended /\ plugin # "shell" /\ queue = <<>> /\ screen \in Prompts /\ unseen /\ ~adopted)
    => db = "approval_needed"
=============================================================================
