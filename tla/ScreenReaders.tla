---------------------------- MODULE ScreenReaders ----------------------------
(***************************************************************************)
(* How the daemon reads an agent's terminal: the classifiers that find a   *)
(* prompt (plugins/attention) and the parser that turns its menu into      *)
(* buttons (plugins/deck.rs).  They are written separately, and meet in a  *)
(* deck: a session reported as blocked on a menu should show its buttons.  *)
(*                                                                         *)
(* A line is its leading pointer, the number it carries (0: none) and the  *)
(* kind of the text that follows.                                          *)
(***************************************************************************)
EXTENDS Naturals, Sequences, SequencesExt

\* the phrases that the matchers look for, each in its own list
DefaultPhrases == {"do you want to proceed?", "do you want to edit?"}
ClaudePhrases == DefaultPhrases \cup {"would you like to?", "requires approval"}
CodexPhrases == {"would you like to?", "press enter to confirm", "tell codex what to do"}
IsPrimaryQuestion(text) == text \in {"would you like to?", "do you want to proceed?"}
EndsInQuestion == {"do you want to proceed?", "do you want to edit?", "would you like to?", "other?"}

NoText == "none"
Line(ptr, id, text) == [ptr |-> ptr, id |-> id, text |-> text]
Blank == Line("", 0, NoText)
IsBlank(l) == l = Blank
Nonblank(screen) == SelectSeq(screen, LAMBDA l : ~IsBlank(l))
Some(screen, P(_)) == \E i \in DOMAIN screen : P(screen[i])
Shows(screen, kinds) == \E i \in DOMAIN screen : screen[i].text \in kinds

(***************************************************************************)
(* The classifiers: "approval_needed", "likely_blocked" or "activity".     *)
(***************************************************************************)
BellOr(bell) == IF bell THEN "likely_blocked" ELSE "activity"

\* default_attention, over the tail: the question, or menu lines up to it, at
\* most MaxScan lines from the end
IsMenuChrome(l) == l.text = "border" \/ (l.id > 0 /\ l.ptr \in {"", ">", "pointer", "arrow"})
DefaultAttention(tail, bell, MaxScan) ==
  LET lines == Reverse(Nonblank(tail))
      asks(i) == /\ i <= MaxScan /\ lines[i].text \in DefaultPhrases
                 /\ \A j \in 1 .. i - 1 : IsMenuChrome(lines[j])
  IN  IF \E i \in DOMAIN lines : asks(i) THEN "approval_needed" ELSE BellOr(bell)

\* Claude Code: a selected option, and a question or the widget's own hints
IsSelectedOption(l) == l.id > 0 /\ l.ptr \in {"pointer", ">"}
ClaudeAttention(screen, bell) ==
  IF Some(screen, IsSelectedOption) /\ Shows(screen, ClaudePhrases \cup {"add notes"})
  THEN "approval_needed" ELSE BellOr(bell)

\* Codex: the bell says nothing; queued questions block without a menu
IsCodexSelectedOption(l) == l.id > 0 /\ l.ptr \in {"angle", "pointer", ">"}
HasQueuedQuestions(screen) ==
  LET lines == Nonblank(screen)
  IN  \E i \in 1 .. Len(lines) - 2 :
        <<lines[i].text, lines[i + 1].text, lines[i + 2].text>> = <<"queued inputs", "count", "answer hint">>
CodexAttention(screen) ==
  IF \/ Some(screen, IsCodexSelectedOption) /\ Shows(screen, CodexPhrases)
     \/ HasQueuedQuestions(screen)
  THEN "approval_needed" ELSE "activity"
CodexStillWorking(screen) == Shows(screen, {"interrupt hint", "background terminal"})

\* pi: the project-trust question, with an unnumbered list
IsPiSelectedOption(l) == l.ptr = "arrow" /\ (l.id > 0 \/ l.text # NoText)
PiAttention(screen) ==
  IF Some(screen, IsPiSelectedOption) /\ Shows(screen, {"trust question"})
  THEN "approval_needed" ELSE "activity"

\* claude_idle_error: climbing from the input area's bottom border, the first
\* turn bullet decides; an error under a tool's elbow counts on the way
ClaudeIdleError(screen, MaxScan) ==
  LET borders == {i \in DOMAIN screen : screen[i].text = "border"}
      anchor == CHOOSE i \in borders : \A j \in borders : j <= i
      lines == Reverse(Nonblank(SubSeq(screen, 1, anchor - 1)))
  IN  /\ borders # {}
      /\ \E i \in DOMAIN lines :
           /\ i <= MaxScan /\ lines[i].ptr \in {"bullet", "elbow"} /\ lines[i].text = "API error"
           /\ \A j \in 1 .. i - 1 : lines[j].ptr # "bullet"

(***************************************************************************)
(* deck.rs: the run of consecutive options around the first selected one,  *)
(* each at most four lines below the one before it.                        *)
(***************************************************************************)
ParseMenuLine(l) == l.id > 0 /\ l.text # NoText /\ l.ptr \in {"", "angle", "pointer", ">"}
Numbered(screen) == SelectSeq([i \in DOMAIN screen |-> i], LAMBDA i : ParseMenuLine(screen[i]))
HasPointer(l) == l.ptr # ""
ParsePrompt(screen) ==   \* the lines of the options, in order; empty without a prompt
  LET rows == Numbered(screen)
      picked == {k \in DOMAIN rows : HasPointer(screen[rows[k]])}
      selected == CHOOSE k \in picked : \A j \in picked : k <= j
      joined(k) == /\ screen[rows[k]].id + 1 = screen[rows[k + 1]].id
                   /\ rows[k + 1] - rows[k] <= 4
      run == {k \in DOMAIN rows : \A j \in DOMAIN rows :
                (k <= j /\ j < selected) \/ (selected <= j /\ j < k) => joined(j)}
  IN  IF picked = {} THEN <<>> ELSE SelectSeq(rows, LAMBDA i : \E k \in run : rows[k] = i)

\* what the deck shows as the question: a primary one first, then the last line
\* that ends in a question mark, then a heading, then the nearest line
ContextLines == 12
QuestionOf(screen, first) ==
  LET from == IF first > ContextLines THEN first - ContextLines ELSE 1
      context == SelectSeq([i \in 1 .. first - from |-> from + i - 1],
                           LAMBDA i : ~IsBlank(screen[i]) /\ screen[i].text \notin {"border", "press enter to confirm"})
      At(kinds) == {i \in DOMAIN context : screen[context[i]].text \in kinds}
      primary == {i \in DOMAIN context : IsPrimaryQuestion(screen[context[i]].text)}
      least(S) == CHOOSE i \in S : \A j \in S : i <= j
      most(S) == CHOOSE i \in S : \A j \in S : j <= i
  IN  IF context = <<>> THEN 0
      ELSE context[IF primary # {} THEN least(primary)
                   ELSE IF At(EndsInQuestion) # {} THEN most(At(EndsInQuestion))
                   ELSE IF At({"requires approval"}) # {} THEN least(At({"requires approval"}))
                   ELSE Len(context)]

(***************************************************************************)
(* What they are for, over screens drawn the way the agents draw them.     *)
(***************************************************************************)
Text(kind) == Line("", 0, kind)
Transcripts == BoundedSeq({Text("plain"), Text("other?"), Line("", 1, "plain"), Line("", 2, "plain"), Blank}, 2)
Questions == {"do you want to proceed?", "do you want to edit?", "would you like to?", "other?"}
\* options 1 to n, one of them selected, each with `wrapped` more lines
Option(ptr, i, pick) == Line(IF i = pick THEN ptr ELSE "", i, "plain")
Menu(ptr, n, pick, wrapped) ==
  FlattenSeq([i \in 1 .. n |-> <<Option(ptr, i, pick)>> \o [j \in 1 .. wrapped |-> Text("plain")]])
Footers == {<<>>, <<Blank, Text("press enter to confirm")>>, <<Text("add notes")>>}

\* A menu under its question gives one button per option, in order, whatever the
\* transcript above it, under that question; and the agent's own classifier
\* calls it a prompt when the question is one of its phrases (deck.rs:43).
PromptIsRead ==
  \A above \in Transcripts, question \in Questions, ptr \in {"pointer", "angle", ">"},
     n \in 1 .. 3, pick \in 1 .. 3, wrapped \in 0 .. 3, footer \in Footers : pick <= n =>
    LET at == Len(above) + 1
        menu == Menu(ptr, n, pick, wrapped)
        screen == above \o <<Text(question)>> \o menu \o footer
    IN  /\ ParsePrompt(screen) = [i \in 1 .. n |-> at + 1 + (i - 1) * (wrapped + 1)]
        /\ QuestionOf(screen, at + 1) = at
        /\ ptr # "angle" /\ question \in ClaudePhrases => ClaudeAttention(screen, FALSE) = "approval_needed"
        /\ question \in CodexPhrases => CodexAttention(screen) = "approval_needed"
ASSUME PromptAssumption == PromptIsRead

\* Numbered prose is nobody's menu: no button, and no prompt but a rung bell.
ProseIsNoPrompt ==
  \A screen \in BoundedSeq({Text(k) : k \in {"plain", "do you want to proceed?", "would you like to?", "add notes"}}
                             \cup {Line("", i, "plain") : i \in 1 .. 2} \cup {Line("arrow", 0, "plain")}, 4) :
    /\ ParsePrompt(screen) = <<>>
    /\ ClaudeAttention(screen, FALSE) = "activity" /\ CodexAttention(screen) = "activity"
    /\ PiAttention(screen) = "activity"
    /\ DefaultAttention(screen \o <<Text("plain")>>, FALSE, 12) = "activity"
ASSUME ProseAssumption == ProseIsNoPrompt

\* Every prompt that a classifier takes from a menu with labels has buttons.
MenusHaveButtons ==
  \A screen \in BoundedSeq({Line(ptr, id, "plain") : ptr \in {"", "pointer", "angle", ">", "arrow"}, id \in 0 .. 2}
                             \cup {Text("would you like to?"), Text("trust question")}, 3) :
    (ClaudeAttention(screen, FALSE) = "approval_needed" \/ CodexAttention(screen) = "approval_needed")
      => ParsePrompt(screen) # <<>>
ASSUME ButtonsAssumption == MenusHaveButtons

\* An agent that fell silent stopped on an error exactly if its last turn did,
\* whatever earlier turns left on the screen (claude.rs:83).
Turns == {<<Line("bullet", 0, "API error"), Text("plain")>>, <<Line("bullet", 0, "plain"), Line("elbow", 0, "API error")>>,
          <<Line("bullet", 0, "plain"), Line("elbow", 0, "plain"), Text("plain")>>, <<Line("bullet", 0, "plain"), Blank>>}
InputArea == <<Line("", 0, "status"), Text("border"), Line("pointer", 0, "plain"), Text("border"), Text("plain")>>
IdleErrorIsLast ==
  \A turns \in BoundedSeq(Turns, 3) :
    ClaudeIdleError(FlattenSeq(turns) \o InputArea, 15)
      = (turns # <<>> /\ \E i \in DOMAIN turns[Len(turns)] : turns[Len(turns)][i].text = "API error")
ASSUME IdleErrorAssumption == IdleErrorIsLast
=============================================================================
