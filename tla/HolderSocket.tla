---------------------------- MODULE HolderSocket ----------------------------
(***************************************************************************)
(* Who owns the holder's socket path: the probe before the bind, the       *)
(* unlink, the bind and the stat after it, the watchdog that rebinds a     *)
(* path that was taken away, a takeover asked for, the clean-up of a       *)
(* holder that exits, and what else may happen to the file: a crash leaves *)
(* it behind, a stray rm removes it.                                       *)
(*                                                                         *)
(* A holder is a process: it starts once.  The file at the path is named   *)
(* by the holder that bound it (its inode).  The dead holder's listener    *)
(* lives on for a moment in a child forked before and not yet exec'd       *)
(* (ghosts): a connect still succeeds.                                     *)
(***************************************************************************)
EXTENDS Naturals, FiniteSets

CONSTANTS
  Holders,
  MaxMoves          \* bound: crashes, exits and removals

ASSUME SocketAssumption == IsFiniteSet(Holders) /\ "none" \notin Holders

VARIABLES
  path,             \* the holder whose socket is at the path, or "none"
  live,             \* the holders with a listening socket
  ghosts,           \* the dead ones whose listener a forked child still holds
  proc,             \* the holders: what each is doing
  moves,
  events            \* history: what happened that may part a holder from its path

sockVars == <<path, live, ghosts, proc, moves, events>>

CONFIRMATIONS == 3

(* pc; takeover asked for; a watchdog's turn, not a start; probes answered *)
(* so far; the ghosts there were at the last one; bound_ino; whether a     *)
(* live holder answered one of the probes; the dead ones whose listeners   *)
(* did; why the watchdog gave up, if it did                                *)
New == [pc |-> "off", takeover |-> FALSE, watch |-> FALSE, probes |-> 0,
        before |-> {}, ino |-> "none", met |-> FALSE, dead |-> {}, told |-> "no"]

SockInit ==
  /\ path = "none" /\ live = {} /\ ghosts = {} /\ moves = 0 /\ events = {}
  /\ proc = [h \in Holders |-> New]

SockMove == moves < MaxMoves /\ moves' = moves + 1
Set(h, r) == proc' = [proc EXCEPT ![h] = r]
Note(e, cond) == events' = IF cond THEN events \cup {e} ELSE events
Binding == {h \in Holders : proc[h].pc \in {"cleared", "unlinked", "bound"}}

(* main: a new process.  Only the first bind of a process may take over.   *)
Start(h, takeover) ==
  /\ proc[h].pc = "off"
  /\ Set(h, [proc[h] EXCEPT !.pc = "probe", !.takeover = takeover])
  /\ UNCHANGED <<path, live, ghosts, moves, events>>

(* probe: a connect to the path.                                           *)
SocketState ==
  IF path = "none" THEN "Free" ELSE IF path \in live \cup ghosts THEN "Live" ELSE "Stale"

Unconfirmed(h) == SocketState = "Live"     \* mutant: the first answer is believed

(* probe_confirmed believes "Live" only from the third probe; a gap        *)
(* outlasts every fork window there was before it.                         *)
Confirmed(h) == SocketState = "Live" /\ proc[h].probes + 1 = CONFIRMATIONS

Met(h) == [proc[h] EXCEPT !.met = @ \/ path \in live, !.probes = 0]
Heard(h) == proc[h].dead \cup ({path} \cap ghosts)

ProbeAgain(h) ==
  /\ proc[h].pc \in {"probe", "look"} /\ ghosts \cap proc[h].before = {}
  /\ SocketState = "Live" /\ ~Confirmed(h)
  /\ Set(h, [Met(h) EXCEPT !.probes = proc[h].probes + 1, !.before = ghosts,
                        !.dead = Heard(h)])
  /\ UNCHANGED <<path, live, ghosts, moves, events>>

Displaces(h) ==     \* mutant: a live holder does not stop a bind
  /\ proc[h].pc = "probe" /\ ghosts \cap proc[h].before = {}
  /\ SocketState = "Live" => Confirmed(h)
  /\ Set(h, [Met(h) EXCEPT !.pc = "cleared", !.before = {}, !.dead = {}])
  /\ Note("takeover", SocketState = "Live" /\ proc[h].takeover)
  /\ UNCHANGED <<path, live, ghosts, moves>>

(* ensure_bindable: nobody answers, or a takeover was asked for.           *)
Bindable(h) ==
  /\ proc[h].pc = "probe" /\ ghosts \cap proc[h].before = {}
  /\ \/ SocketState # "Live"
     \/ Confirmed(h) /\ proc[h].takeover
  /\ Set(h, [Met(h) EXCEPT !.pc = "cleared", !.before = {}, !.dead = {}])
  /\ Note("takeover", SocketState = "Live")
  /\ UNCHANGED <<path, live, ghosts, moves>>

(* It refuses: a start fails, a watchdog waits for its next tick.          *)
Refused(h) ==
  /\ proc[h].pc = "probe" /\ ghosts \cap proc[h].before = {}
  /\ Confirmed(h) /\ ~proc[h].takeover
  /\ Set(h, [Met(h) EXCEPT !.pc = IF proc[h].watch THEN "serving" ELSE "refused", !.before = {},
                        !.dead = IF proc[h].watch THEN {} ELSE Heard(h)])
  /\ UNCHANGED <<path, live, ghosts, moves, events>>

(* bind: remove_file, UnixListener::bind, metadata().ino().  Between its   *)
(* probe and its stat another process may do the same.                     *)
Unlink(h) ==
  /\ proc[h].pc = "cleared"
  /\ path' = "none" /\ Set(h, [proc[h] EXCEPT !.pc = "unlinked"])
  /\ Note("race", Cardinality(Binding) > 1)
  /\ UNCHANGED <<live, ghosts, moves>>

(* A bind that fails ends a start, and leaves a watchdog its old listener. *)
Failed(h) == [proc[h] EXCEPT !.pc = IF proc[h].watch THEN "serving" ELSE "refused", !.met = TRUE]

Bind(h) ==
  /\ proc[h].pc = "unlinked"
  /\ IF path # "none"
     THEN Set(h, Failed(h)) /\ UNCHANGED <<path, live>>
     ELSE path' = h /\ live' = live \cup {h} /\ Set(h, [proc[h] EXCEPT !.pc = "bound"])
  /\ Note("race", Cardinality(Binding) > 1 \/ path # "none")
  /\ UNCHANGED <<ghosts, moves>>

Stat(h) ==
  /\ proc[h].pc = "bound"
  /\ IF path = "none"
     THEN Set(h, Failed(h)) /\ live' = IF proc[h].watch THEN live ELSE live \ {h}
     ELSE Set(h, [proc[h] EXCEPT !.pc = "serving", !.ino = path, !.takeover = FALSE,
                                 !.told = "no"]) /\ UNCHANGED live
  /\ Note("race", path # h)
  /\ UNCHANGED <<path, ghosts, moves>>

(* The watchdog's tick: was_displaced, then who has the path.              *)
Displaced(h) == path # proc[h].ino

Tick(h) ==
  /\ proc[h].pc = "serving" /\ Displaced(h)
  /\ Set(h, [proc[h] EXCEPT !.pc = "look", !.watch = TRUE])
  /\ UNCHANGED <<path, live, ghosts, moves, events>>

OnlyFree(h) ==     \* mutant: a dead file at the path is not cleared
  /\ proc[h].pc = "look" /\ ghosts \cap proc[h].before = {}
  /\ SocketState = "Live" => Confirmed(h)
  /\ Set(h, IF SocketState # "Free"
            THEN [Met(h) EXCEPT !.pc = "serving", !.told = SocketState, !.before = {}, !.dead = {}]
            ELSE [Met(h) EXCEPT !.pc = "probe", !.before = {}, !.dead = {}])
  /\ UNCHANGED <<path, live, ghosts, moves, events>>

Look(h) ==
  /\ proc[h].pc = "look" /\ ghosts \cap proc[h].before = {}
  /\ SocketState = "Live" => Confirmed(h)
  /\ Set(h, IF SocketState = "Live"
            THEN [Met(h) EXCEPT !.pc = "serving", !.told = SocketState, !.before = {}, !.dead = {}]
            ELSE [Met(h) EXCEPT !.pc = "probe", !.before = {}, !.dead = {}])
  /\ UNCHANGED <<path, live, ghosts, moves, events>>

(* A clean exit, on a signal that is looked at wherever the watchdog       *)
(* awaits: the listener goes, then whatever is at the path.                *)
Leave(h) ==
  /\ SockMove
  /\ \/ proc[h].pc = "serving"
     \/ proc[h].watch /\ proc[h].pc \in {"look", "probe"}
  /\ Set(h, [proc[h] EXCEPT !.pc = "leaving"])
  /\ live' = live \ {h} /\ ghosts' \in {ghosts, ghosts \cup {h}}
  /\ UNCHANGED <<path, events>>

CleanUp(h) ==
  /\ proc[h].pc = "leaving" /\ Set(h, [proc[h] EXCEPT !.pc = "gone"])
  /\ path' = "none" /\ Note("swept", path \in live)
  /\ UNCHANGED <<live, ghosts, moves>>

Crash(h) ==
  /\ SockMove
  /\ proc[h].pc \notin {"off", "refused", "gone"} /\ Set(h, [proc[h] EXCEPT !.pc = "gone"])
  /\ live' = live \ {h}
  /\ ghosts' \in {ghosts, ghosts \cup ({h} \cap live)}
  /\ UNCHANGED <<path, events>>

Execs(h) ==
  /\ h \in ghosts /\ ghosts' = ghosts \ {h}
  /\ UNCHANGED <<path, live, proc, moves, events>>

(* A stray rm, a sweep of /run.                                            *)
Rm ==
  /\ SockMove
  /\ path # "none" /\ path' = "none" /\ Note("rm", TRUE)
  /\ UNCHANGED <<live, ghosts, proc>>

SockNext ==
  \/ Rm
  \/ \E h \in Holders :
       \/ (\E takeover \in BOOLEAN : Start(h, takeover))
       \/ ProbeAgain(h) \/ Bindable(h) \/ Refused(h) \/ Unlink(h) \/ Bind(h) \/ Stat(h)
       \/ Tick(h) \/ Look(h) \/ Leave(h) \/ CleanUp(h) \/ Crash(h) \/ Execs(h)

SockSpec == SockInit /\ [][SockNext]_sockVars
-----------------------------------------------------------------------------
SockTypeOK ==
  /\ path \in Holders \cup {"none"} /\ live \subseteq Holders /\ ghosts \subseteq Holders
  /\ \A h \in Holders : /\ proc[h].probes < CONFIRMATIONS
                        /\ proc[h].before \cup proc[h].dead \subseteq Holders

(* Two holders listen at once only if one displaced the other on demand,   *)
(* or two processes bound at the same time, or the path was removed under  *)
(* the first, by a stray rm or by the exit of a holder it did not belong   *)
(* to any more.                                                            *)
Alone == Cardinality(live) > 1 => events # {}

(* A holder is told that it is refused, or fails to bind, only when a live *)
(* holder answered or another bound: a dead one's listener, kept for a     *)
(* moment by a forked child, keeps nobody from taking the path.  To fool   *)
(* it, a different holder must have died just before each of its probes.   *)
NotFooled ==
  \A h \in Holders :
    proc[h].pc = "refused" => proc[h].met \/ Cardinality(proc[h].dead) = CONFIRMATIONS

(* At rest, when every displaced holder has given up and would again for   *)
(* the same reason, the path is not dead while a holder lives.  Except     *)
(* after a race, in which the stat after the bind may take another's inode *)
(* for one's own.                                                          *)
AtRest ==
  /\ ghosts = {}
  /\ \A h \in Holders :
       /\ proc[h].pc \in {"off", "serving", "refused", "gone"}
       /\ proc[h].pc = "serving" /\ Displaced(h) => proc[h].told = SocketState
AtHome == AtRest /\ live # {} /\ "race" \notin events => path \in live
=============================================================================
