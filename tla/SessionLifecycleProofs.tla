----------------------- MODULE SessionLifecycleProofs -----------------------
(***************************************************************************)
(* Theorems about SessionLifecycle, for any number of crashes, connections *)
(* lost and stop requests: a session said to have exited has, a live row   *)
(* has a handle, a child that runs on behind a finished row is explained,  *)
(* and an ending that was recorded stays.                                  *)
(***************************************************************************)
EXTENDS SessionLifecycle, TLAPS

Over == {"dead", "gone"}
Judging == {"judge", "absent", "unsure", "adopted"}
Half == accidents \cap {"listStale", "inCreation"} # {}

(* Nothing has happened before the row is there; the child comes after it. *)
Unborn ==
  /\ row = "none" => /\ child = "none" /\ creator = "idle" /\ ~live /\ ~kill
                     /\ monitor = "none" /\ stopper = "idle" /\ pass \notin Judging
  /\ ~up => creator = "idle" /\ ~live /\ monitor = "none" /\ stopper = "idle" /\ pass = "idle"
  /\ creator = "row" => child = "none" /\ ~live /\ stopper \notin {"live", "kill"} /\ ~kill

(* Whoever believes that the child exited is right, and stays right.       *)
ExitKnown ==
  list = "dead" \/ drain = "told" \/ monitor = "read" \/ row = "ended" => child \in Over

(* A child behind a finished row, or about to be spawned behind one, is    *)
(* being stopped or was noted; so it is when a pass is about to give up.   *)
Noted ==
  /\ child = "alive" /\ row \notin Live => stopper = "kill" \/ kill \/ accidents # {}
  /\ creator = "row" /\ row \notin Live => accidents # {}
  /\ pass \in {"absent", "unsure"} /\ (child = "alive" \/ creator = "row") => accidents # {}

(* A monitor without a handle is one whose handle a pass has dropped.      *)
Attended ==
  \/ Half
  \/ /\ creator # "idle" => monitor = "none" /\ pass # "absent" /\ pass # "adopted"
     /\ creator = "live" => live
     /\ pass = "adopted" => live /\ monitor = "none"
     /\ monitor # "none" /\ ~live => \/ pass = "absent"
                                     \/ row \notin Live /\ pass \notin Judging
     /\ up /\ ready /\ creator = "idle" /\ pass = "idle" /\ row \in Live => live

(* Nobody who began before a row ended alone is still at work.             *)
Settled ==
  row \in Ended /\ under = {} =>
    /\ creator = "idle"
    /\ pass \notin Judging
    /\ monitor = "read" => seen = row

IInv == TypeOK /\ Unborn /\ ExitKnown /\ Noted /\ Attended /\ Settled

(* A write to the row keeps its type, a note of an accident the notes'.    *)
LEMMA WriteTypes ==
  ASSUME row \in Rows, under \subseteq {"create", "exit", "pass"},
         NEW s \in Rows, NEW by, Write(s, by) \/ UNCHANGED <<row, under>>
  PROVE  row' \in Rows /\ under' \subseteq {"create", "exit", "pass"}
BY DEF Write, InFlight

(* An accident that is noted is a named one.                               *)
LEMMA AccidentTypes ==
  ASSUME accidents \subseteq Accidents, NEW a \in Accidents, Accident(a)
  PROVE  accidents' \subseteq Accidents
BY DEF Accident

(* Every step keeps the types.                                             *)
LEMMA TypesStep ==
  ASSUME TypeOK, [Next]_vars
  PROVE  TypeOK'
<1> USE DEF vars, daemon, ops, reads, bounds, TypeOK, Live, Ended, Rows,
  Accidents, InFlight
<1>1. CASE ExitWritten
  <2>1. FinalStatus(seen) \in Rows /\ row' \in Rows /\ under' \subseteq {"create", "exit", "pass"}
    BY <1>1, WriteTypes DEF ExitWritten, FinalStatus, Rows, Ended
  <2>2. live' \in BOOLEAN /\ monitor' \in {"none", "on", "read"}
    BY <1>1 DEF ExitWritten
  <2> QED BY <1>1, <2>1, <2>2 DEF ExitWritten
<1>2. CASE StopLive \/ StopNotLive \/ Archive
  <2>1. row' \in Rows /\ under' \subseteq {"create", "exit", "pass"}
    BY <1>2, WriteTypes DEF StopLive, StopNotLive, Archive, Rows, Ended, Live
  <2>2. accidents' \subseteq Accidents
    BY <1>2, AccidentTypes DEF StopLive, StopNotLive, Archive, Accidents
  <2> QED BY <1>2, <2>1, <2>2 DEF StopLive, StopNotLive, Archive
<1>3. CASE OrphansFail
  <2>1. row' \in Rows /\ under' \subseteq {"create", "exit", "pass"}
    BY <1>3, WriteTypes DEF OrphansFail, Rows, Ended, Live
  <2>2. accidents' \subseteq Accidents
    BY <1>3, AccidentTypes DEF OrphansFail, Accidents
  <2> QED BY <1>3, <2>1, <2>2 DEF OrphansFail
<1>4. CASE ListFailed
  <2>1. row' \in Rows /\ under' \subseteq {"create", "exit", "pass"}
    BY <1>4, WriteTypes DEF ListFailed, Rows, Ended, Live
  <2>2. accidents' \subseteq Accidents
    BY <1>4, AccidentTypes DEF ListFailed, Accidents
  <2>3. ready' \in BOOLEAN /\ due' \in BOOLEAN /\ pass' \in {"start", "idle", pass}
    BY <1>4 DEF ListFailed, OnConnected
  <2> QED BY <1>4, <2>1, <2>2, <2>3 DEF ListFailed
<1>5. CASE HolderList
  <2>1. due' \in BOOLEAN /\ list' \in {"none", "alive", "dead", "gone"} /\ pass' = "listed"
    BY <1>5 DEF HolderList, OnConnected, Consult
  <2> QED BY <1>5, <2>1 DEF HolderList, Consult
<1>6. CASE PassReadsIds
  <2>1. ready' \in BOOLEAN /\ pass' \in {"idle", "judge"}
    BY <1>6 DEF PassReadsIds, PassEnds
  <2> QED BY <1>6, <2>1 DEF PassReadsIds
<1>7. CASE JudgeDead
  <2>1. row' \in Rows /\ under' \subseteq {"create", "exit", "pass"}
    BY <1>7, WriteTypes DEF JudgeDead, Rows, Ended, Live
  <2>2. drain' \in {"none", "on", "told", "closed"}
    BY <1>7 DEF JudgeDead
  <2>3. ready' \in BOOLEAN /\ pass' = "idle"
    BY <1>7 DEF JudgeDead, PassEnds
  <2> QED BY <1>7, <2>1, <2>2, <2>3 DEF JudgeDead
<1>8. CASE JudgeAbsent
  <2>1. drain' \in {"none", "on", "told", "closed"} /\ live' \in BOOLEAN /\ accidents' \subseteq Accidents
    BY <1>8 DEF JudgeAbsent, Accidents, TooEarly
  <2> QED BY <1>8, <2>1 DEF JudgeAbsent
<1>9. CASE Killed
  <2>1. child' \in {"none", "alive", "dead", "gone"} /\ kill' \in BOOLEAN
    BY <1>9 DEF Killed
  <2> QED BY <1>9, <2>1 DEF Killed
<1>10. CASE Drop
  <2>1. /\ conn' \in BOOLEAN /\ heard' \in BOOLEAN /\ kill' \in BOOLEAN
        /\ accidents' \subseteq Accidents /\ UNCHANGED <<child, creator>>
    BY <1>10, AccidentTypes DEF Drop, Accidents
  <2> QED BY <1>10, <2>1 DEF Drop
<1>11. CASE Crash \/ Shutdown
  <2>1. row' \in Rows /\ under' \subseteq {"create", "exit", "pass"}
    BY <1>11, WriteTypes DEF Crash, Shutdown, Rows, Ended, Live
  <2>2. accidents' \subseteq Accidents
    BY <1>11, AccidentTypes DEF Crash, Shutdown, Unfinished, Accidents
  <2>3. child' \in {"none", "alive", "dead", "gone"}
    BY <1>11 DEF Crash, Shutdown, Process, AfterDaemon
  <2> QED BY <1>11, <2>1, <2>2, <2>3 DEF Crash, Shutdown, Process
<1>12. CASE SpawnFailed
  <2>1. row' \in Rows /\ under' \subseteq {"create", "exit", "pass"}
    BY <1>12, WriteTypes DEF SpawnFailed, Rows, Ended, Live
  <2>2. accidents' \subseteq Accidents
    BY <1>12, AccidentTypes DEF SpawnFailed, Accidents
  <2>3. child' \in {"none", "alive", "dead", "gone"}
    BY <1>12 DEF SpawnFailed
  <2> QED BY <1>12, <2>1, <2>2, <2>3 DEF SpawnFailed
<1>13. CASE Insert
  BY <1>13 DEF Insert, Write
<1>14. CASE Spawned
  BY <1>14 DEF Spawned
<1>15. CASE GoLive
  BY <1>15 DEF GoLive
<1>16. CASE MarkRunning
  BY <1>16 DEF MarkRunning, Write, SpawnMonitor
<1>17. CASE ExitRead
  BY <1>17 DEF ExitRead
<1>18. CASE StreamClosed
  BY <1>18 DEF StreamClosed
<1>19. CASE StopRead
  BY <1>19 DEF StopRead
<1>20. CASE StopKill
  BY <1>20 DEF StopKill
<1>21. CASE JudgeKnown
  BY <1>21 DEF JudgeKnown, PassEnds
<1>22. CASE Adopt
  BY <1>22 DEF Adopt, TooEarly
<1>23. CASE Adopted
  BY <1>23 DEF Adopted, Write, SpawnMonitor, PassEnds
<1>24. CASE AdoptFailed
  BY <1>24 DEF AdoptFailed, Accident
<1>25. CASE Indeterminate
  BY <1>25 DEF Indeterminate, Write, PassEnds
<1>26. CASE Exit
  BY <1>26 DEF Exit
<1>27. CASE ToldOfExit
  BY <1>27 DEF ToldOfExit
<1>28. CASE Forgotten
  BY <1>28 DEF Forgotten
<1>29. CASE Reconnect
  BY <1>29 DEF Reconnect
<1>30. CASE Restart
  BY <1>30 DEF Restart
<1>31. CASE UNCHANGED vars
  BY <1>31
<1> QED BY <1>1, <1>2, <1>3, <1>4, <1>5, <1>6, <1>7, <1>8, <1>9, <1>10,
  <1>11, <1>12, <1>13, <1>14, <1>15, <1>16, <1>17, <1>18, <1>19, <1>20,
  <1>21, <1>22, <1>23, <1>24, <1>25, <1>26, <1>27, <1>28, <1>29, <1>30, <1>31
  DEF Next

(* Every step keeps what is said of a session not yet there and of a daemon*)
(* that is down: whatever would act on it finds nothing to act on.         *)
LEMMA UnbornStep ==
  ASSUME TypeOK, Unborn, [Next]_vars
  PROVE  Unborn'
<1> USE DEF vars, daemon, ops, reads, bounds, Live, Ended, TypeOK, Unborn,
  Judging
<1>1. CASE Insert
  BY <1>1 DEF Insert, Write
<1>2. CASE Spawned
  BY <1>2 DEF Spawned
<1>3. CASE SpawnFailed
  BY <1>3 DEF SpawnFailed, Write, Accident
<1>4. CASE HolderList
  BY <1>4 DEF HolderList, OnConnected, Consult
<1>5. CASE PassReadsIds
  BY <1>5 DEF PassReadsIds, LiveSession, PassEnds
<1>6. CASE StopRead
  BY <1>6 DEF StopRead
<1>7. CASE StopKill
  BY <1>7 DEF StopKill
<1>8. CASE Crash \/ Shutdown \/ Restart
  BY <1>8 DEF Crash, Shutdown, Restart, Accident, Process, AfterDaemon,
    Unfinished, Write
<1>9. CASE GoLive \/ MarkRunning \/ ExitRead \/ ExitWritten \/ StreamClosed
  \/ StopLive \/ StopNotLive \/ Archive \/ OrphansFail
  BY <1>9 DEF GoLive, MarkRunning, ExitRead, ExitWritten, StreamClosed,
    StopLive, StopNotLive, Archive, OrphansFail, Write, SpawnMonitor,
    FinalStatus, Accident, LiveSession
<1>10. CASE ListFailed \/ JudgeKnown \/ Adopt \/ Adopted \/ AdoptFailed \/
  JudgeDead \/ JudgeAbsent \/ Indeterminate \/ Exit
  BY <1>10 DEF ListFailed, JudgeKnown, Adopt, Adopted, AdoptFailed,
    JudgeDead, JudgeAbsent, Indeterminate, Exit, Write, Accident,
    OnConnected, LiveSession, PassEnds, TooEarly, SpawnMonitor
<1>11. CASE ToldOfExit \/ Killed \/ Forgotten \/ Drop \/ Reconnect
  BY <1>11 DEF ToldOfExit, Killed, Forgotten, Drop, Reconnect, Accident
<1>12. CASE UNCHANGED vars
  BY <1>12
<1> QED BY <1>1, <1>2, <1>3, <1>4, <1>5, <1>6, <1>7, <1>8, <1>9, <1>10,
  <1>11, <1>12 DEF Next

(* A child that is dead or forgotten never comes back, as no create is     *)
(* under way; so it is enough that news of an exit begins with one.        *)
LEMMA ExitKnownStep ==
  ASSUME TypeOK, Unborn, ExitKnown, [Next]_vars
  PROVE  ExitKnown'
<1> USE DEF vars, daemon, ops, reads, bounds, Live, Ended, TypeOK, Unborn,
  ExitKnown, Over
<1>1. CASE Spawned
  BY <1>1 DEF Spawned
<1>2. CASE SpawnFailed
  BY <1>2 DEF SpawnFailed, Write, Accident
<1>3. CASE ExitRead
  BY <1>3 DEF ExitRead
<1>4. CASE ExitWritten
  BY <1>4 DEF ExitWritten, Write, FinalStatus
<1>5. CASE HolderList
  BY <1>5 DEF HolderList, OnConnected, Consult
<1>6. CASE Adopt
  BY <1>6 DEF Adopt, TooEarly
<1>7. CASE JudgeDead
  BY <1>7 DEF JudgeDead, Write, PassEnds
<1>8. CASE JudgeAbsent
  BY <1>8 DEF JudgeAbsent, TooEarly
<1>9. CASE ToldOfExit
  BY <1>9 DEF ToldOfExit
<1>10. CASE Exit \/ Killed \/ Forgotten
  BY <1>10 DEF Exit, Killed, Forgotten
<1>11. CASE Crash \/ Shutdown
  BY <1>11 DEF Crash, Shutdown, Accident, Process, AfterDaemon, Unfinished,
    Write
<1>12. CASE Insert \/ GoLive \/ MarkRunning \/ StreamClosed \/ StopRead \/
  StopLive \/ StopKill \/ StopNotLive \/ Archive
  BY <1>12 DEF Insert, GoLive, MarkRunning, StreamClosed, StopRead, StopLive,
    StopKill, StopNotLive, Archive, Write, SpawnMonitor, Accident
<1>13. CASE OrphansFail \/ ListFailed \/ PassReadsIds \/ JudgeKnown \/
  Adopted \/ AdoptFailed \/ Indeterminate \/ Drop \/ Reconnect
  BY <1>13 DEF OrphansFail, ListFailed, PassReadsIds, JudgeKnown, Adopted,
    AdoptFailed, Indeterminate, Drop, Reconnect, Write, Accident,
    LiveSession, OnConnected, PassEnds, SpawnMonitor
<1>14. CASE Restart
  BY <1>14 DEF Restart
<1>15. CASE UNCHANGED vars
  BY <1>15
<1> QED BY <1>1, <1>2, <1>3, <1>4, <1>5, <1>6, <1>7, <1>8, <1>9, <1>10,
  <1>11, <1>12, <1>13, <1>14, <1>15 DEF Next

(* Whoever finishes the row of a child that lives, or is about to, is      *)
(* stopping it or has left a note, and notes are kept.                     *)
LEMMA NotedStep ==
  ASSUME TypeOK, Unborn, ExitKnown, Noted, [Next]_vars
  PROVE  Noted'
<1> USE DEF vars, daemon, ops, reads, bounds, Live, Ended, TypeOK, Unborn,
  ExitKnown, Over, Judging, Noted
<1>1. CASE HolderList
  BY <1>1 DEF HolderList, OnConnected, Consult
<1>2. CASE Adopt
  BY <1>2 DEF Adopt, TooEarly
<1>3. CASE Adopted
  BY <1>3 DEF Adopted, Write, SpawnMonitor, PassEnds
<1>4. CASE Spawned
  BY <1>4 DEF Spawned
<1>5. CASE SpawnFailed
  BY <1>5 DEF SpawnFailed, Write, Accident
<1>6. CASE ExitWritten
  BY <1>6 DEF ExitWritten, Write, FinalStatus
<1>7. CASE StopLive
  BY <1>7 DEF StopLive, Write
<1>8. CASE StopKill
  BY <1>8 DEF StopKill
<1>9. CASE StopNotLive
  BY <1>9 DEF StopNotLive, Write, Accident
<1>10. CASE Archive
  BY <1>10 DEF Archive, Write
<1>11. CASE OrphansFail
  BY <1>11 DEF OrphansFail, Write, Accident, LiveSession
<1>12. CASE ListFailed
  BY <1>12 DEF ListFailed, Write, Accident, OnConnected, LiveSession
<1>13. CASE PassReadsIds
  BY <1>13 DEF PassReadsIds, LiveSession, PassEnds
<1>14. CASE AdoptFailed
  BY <1>14 DEF AdoptFailed, Accident
<1>15. CASE JudgeDead
  BY <1>15 DEF JudgeDead, Write, PassEnds
<1>16. CASE JudgeAbsent
  BY <1>16 DEF JudgeAbsent, TooEarly
<1>17. CASE Indeterminate
  BY <1>17 DEF Indeterminate, Write, PassEnds
<1>18. CASE Killed
  BY <1>18 DEF Killed
<1>19. CASE Drop
  BY <1>19 DEF Drop, Accident
<1>20. CASE Crash \/ Shutdown
  BY <1>20 DEF Crash, Shutdown, Accident, Process, AfterDaemon, Unfinished,
    Write
<1>21. CASE Insert \/ GoLive \/ MarkRunning \/ ExitRead \/ StreamClosed \/
  StopRead \/ JudgeKnown \/ Exit \/ ToldOfExit
  BY <1>21 DEF Insert, GoLive, MarkRunning, ExitRead, StreamClosed, StopRead,
    JudgeKnown, Exit, ToldOfExit, Write, SpawnMonitor, PassEnds
<1>22. CASE Forgotten \/ Reconnect \/ Restart
  BY <1>22 DEF Forgotten, Reconnect, Restart
<1>23. CASE UNCHANGED vars
  BY <1>23
<1> QED BY <1>1, <1>2, <1>3, <1>4, <1>5, <1>6, <1>7, <1>8, <1>9, <1>10,
  <1>11, <1>12, <1>13, <1>14, <1>15, <1>16, <1>17, <1>18, <1>19, <1>20,
  <1>21, <1>22, <1>23 DEF Next

(* A handle is dropped only by the monitor, which has finished the row, or *)
(* by a pass that is going to, unless the pass met a create.               *)
LEMMA AttendedStep ==
  ASSUME TypeOK, Unborn, Attended, [Next]_vars
  PROVE  Attended'
<1> USE DEF vars, daemon, ops, reads, bounds, Live, Ended, TypeOK, Unborn,
  Attended, Half, Judging
<1>1. CASE Insert
  BY <1>1 DEF Insert, Write
<1>2. CASE SpawnFailed
  BY <1>2 DEF SpawnFailed, Write, Accident
<1>3. CASE GoLive
  BY <1>3 DEF GoLive
<1>4. CASE MarkRunning
  BY <1>4 DEF MarkRunning, Write, SpawnMonitor
<1>5. CASE ExitWritten
  BY <1>5 DEF ExitWritten, Write, FinalStatus
<1>6. CASE StreamClosed
  BY <1>6 DEF StreamClosed
<1>7. CASE OrphansFail
  BY <1>7 DEF OrphansFail, Write, Accident, LiveSession
<1>8. CASE ListFailed
  BY <1>8 DEF ListFailed, Write, Accident, OnConnected, LiveSession
<1>9. CASE PassReadsIds
  BY <1>9 DEF PassReadsIds, LiveSession, PassEnds
<1>10. CASE JudgeKnown
  BY <1>10 DEF JudgeKnown, PassEnds
<1>11. CASE Adopt
  BY <1>11 DEF Adopt, TooEarly
<1>12. CASE Adopted
  BY <1>12 DEF Adopted, Write, SpawnMonitor, PassEnds
<1>13. CASE AdoptFailed
  BY <1>13 DEF AdoptFailed, Accident
<1>14. CASE JudgeDead
  BY <1>14 DEF JudgeDead, Write, PassEnds
<1>15. CASE JudgeAbsent
  BY <1>15 DEF JudgeAbsent, TooEarly
<1>16. CASE Indeterminate
  BY <1>16 DEF Indeterminate, Write, PassEnds
<1>17. CASE Crash \/ Shutdown \/ Restart
  BY <1>17 DEF Crash, Shutdown, Restart, Accident, Process, AfterDaemon,
    Unfinished, Write
<1>18. CASE Spawned \/ ExitRead \/ StopRead
  BY <1>18 DEF Spawned, ExitRead, StopRead
<1>19. CASE StopLive \/ StopKill \/ StopNotLive
  BY <1>19 DEF StopLive, StopKill, StopNotLive, Write, Accident
<1>20. CASE Archive \/ HolderList \/ Exit
  BY <1>20 DEF Archive, HolderList, Exit, Write, OnConnected, Consult
<1>21. CASE ToldOfExit \/ Killed \/ Forgotten
  BY <1>21 DEF ToldOfExit, Killed, Forgotten
<1>22. CASE Drop \/ Reconnect
  BY <1>22 DEF Drop, Reconnect, Accident
<1>23. CASE UNCHANGED vars
  BY <1>23
<1> QED BY <1>1, <1>2, <1>3, <1>4, <1>5, <1>6, <1>7, <1>8, <1>9, <1>10,
  <1>11, <1>12, <1>13, <1>14, <1>15, <1>16, <1>17, <1>18, <1>19, <1>20,
  <1>21, <1>22, <1>23 DEF Next

(* An operation that could overwrite an ending was under way when the row  *)
(* ended, and is remembered, or has read the ending.                       *)
LEMMA SettledStep ==
  ASSUME TypeOK, Unborn, Settled, [Next]_vars
  PROVE  Settled'
<1> USE DEF vars, daemon, ops, reads, bounds, Live, Ended, TypeOK, Unborn,
  Settled, Judging, InFlight
<1>1. CASE Insert
  BY <1>1 DEF Insert, Write
<1>2. CASE SpawnFailed
  BY <1>2 DEF SpawnFailed, Write, Accident
<1>3. CASE MarkRunning
  BY <1>3 DEF MarkRunning, Write, SpawnMonitor
<1>4. CASE ExitRead
  BY <1>4 DEF ExitRead
<1>5. CASE ExitWritten
  BY <1>5 DEF ExitWritten, Write, FinalStatus
<1>6. CASE StopLive
  BY <1>6 DEF StopLive, Write
<1>7. CASE StopNotLive
  BY <1>7 DEF StopNotLive, Write, Accident
<1>8. CASE Archive
  BY <1>8 DEF Archive, Write
<1>9. CASE PassReadsIds
  BY <1>9 DEF PassReadsIds, LiveSession, PassEnds
<1>10. CASE JudgeDead
  BY <1>10 DEF JudgeDead, Write, PassEnds
<1>11. CASE Crash \/ Shutdown
  BY <1>11 DEF Crash, Shutdown, Accident, Process, AfterDaemon, Unfinished,
    Write
<1>12. CASE Spawned \/ GoLive \/ StreamClosed \/ StopRead \/ StopKill \/
  OrphansFail \/ HolderList \/ ListFailed \/ JudgeKnown
  BY <1>12 DEF Spawned, GoLive, StreamClosed, StopRead, StopKill,
    OrphansFail, HolderList, ListFailed, JudgeKnown, Write, Accident,
    LiveSession, OnConnected, Consult, PassEnds
<1>13. CASE Adopt \/ Adopted \/ AdoptFailed \/ JudgeAbsent \/ Indeterminate
  \/ Exit \/ ToldOfExit \/ Killed \/ Forgotten
  BY <1>13 DEF Adopt, Adopted, AdoptFailed, JudgeAbsent, Indeterminate, Exit,
    ToldOfExit, Killed, Forgotten, TooEarly, Write, SpawnMonitor, PassEnds,
    Accident
<1>14. CASE Drop \/ Reconnect \/ Restart
  BY <1>14 DEF Drop, Reconnect, Restart, Accident
<1>15. CASE UNCHANGED vars
  BY <1>15
<1> QED BY <1>1, <1>2, <1>3, <1>4, <1>5, <1>6, <1>7, <1>8, <1>9, <1>10,
  <1>11, <1>12, <1>13, <1>14, <1>15 DEF Next

(* Every step keeps the whole invariant.                                   *)
LEMMA InvariantStep == IInv /\ [Next]_vars => IInv'
BY TypesStep, UnbornStep, ExitKnownStep, NotedStep, AttendedStep, SettledStep DEF IInv

(* At first nothing has happened.                                          *)
LEMMA InitIInv == Init => IInv
BY DEF Init, IInv, TypeOK, Unborn, ExitKnown, Noted, Attended, Half, Settled, Judging,
   Over, Rows, Live, Ended, Accidents

(* The invariant holds always.                                             *)
LEMMA Inductive == Spec => []IInv
BY InitIInv, InvariantStep, PTL DEF Spec
-----------------------------------------------------------------------------
(* The types of the manager's state are kept for ever.                     *)
THEOREM LifecycleTypes == Spec => []TypeOK
<1>1. IInv => TypeOK
  BY DEF IInv
<1> QED BY <1>1, Inductive, PTL

(* A session said to have exited has: neither a connection lost nor a      *)
(* record missing is ever taken for an exit.                               *)
THEOREM EndedMeansExited == Spec => []EndedIsTrue
<1>1. IInv => EndedIsTrue
  BY DEF IInv, ExitKnown, Over, EndedIsTrue
<1> QED BY <1>1, Inductive, PTL

(* Once create and the passes are through, a row that is live has a        *)
(* handle, unless a pass judged the session while it was made.             *)
THEOREM LiveRowsAttended == Spec => []NobodyAlone
<1>1. IInv => NobodyAlone
  BY DEF IInv, Attended, Half, NobodyAlone
<1> QED BY <1>1, Inductive, PTL

(* No child runs on unexplained behind a row that says it is over.         *)
THEOREM OrphansExplained == Spec => []NoOrphan
<1>1. IInv => NoOrphan
  BY DEF IInv, Noted, NoOrphan
<1> QED BY <1>1, Inductive, PTL

(* An ending that was recorded while nothing else was under way is changed *)
(* only to a stop or an archive, at the user's request.                    *)
THEOREM EndingsStay == Spec => EndStays
<1> DEFINE Kept == under = {} /\ row \in Ended /\ row' # row
                     => row' \in {"stopped", "archived"}
<1>1. ASSUME IInv, [Next]_vars PROVE Kept
  <2> SUFFICES ASSUME under = {}, row \in Ended, row' # row
               PROVE  row' \in {"stopped", "archived"}
    OBVIOUS
  <2> USE DEF Live, Ended, IInv, Settled, Judging, TypeOK, Unborn, Write
  <2>1. CASE Insert \/ SpawnFailed \/ MarkRunning
    BY <1>1, <2>1 DEF Insert, SpawnFailed, MarkRunning
  <2>2. CASE ExitWritten
    BY <1>1, <2>2 DEF ExitWritten, FinalStatus
  <2>3. CASE StopLive \/ StopNotLive \/ Archive \/ Shutdown
    BY <1>1, <2>3 DEF StopLive, StopNotLive, Archive, Shutdown, Process
  <2>4. CASE OrphansFail \/ ListFailed
    BY <1>1, <2>4 DEF OrphansFail, ListFailed, LiveSession, OnConnected
  <2>5. CASE Adopted \/ Indeterminate
    BY <1>1, <2>5 DEF Adopted, Indeterminate
  <2>6. CASE JudgeDead
    BY <1>1, <2>6 DEF JudgeDead
  <2>7. CASE Spawned \/ GoLive \/ ExitRead \/ StreamClosed \/ StopRead \/
    StopKill \/ HolderList \/ PassReadsIds
    BY <1>1, <2>7 DEF Spawned, GoLive, ExitRead, StreamClosed, StopRead,
      StopKill, HolderList, PassReadsIds
  <2>8. CASE JudgeKnown \/ Adopt \/ AdoptFailed \/ JudgeAbsent \/ Exit \/
    ToldOfExit \/ Killed \/ Forgotten
    BY <1>1, <2>8 DEF JudgeKnown, Adopt, AdoptFailed, JudgeAbsent, Exit,
      ToldOfExit, Killed, Forgotten
  <2>9. CASE Drop \/ Reconnect \/ Crash \/ Restart
    BY <1>1, <2>9 DEF Drop, Reconnect, Crash, Restart, Process
  <2>10. CASE UNCHANGED vars
    BY <2>10 DEF vars
  <2> QED BY <1>1, <2>1, <2>2, <2>3, <2>4, <2>5, <2>6, <2>7, <2>8, <2>9,
    <2>10 DEF Next
<1>2. Spec => [][Kept]_vars
  BY <1>1, Inductive, PTL DEF Spec
<1> QED BY <1>2 DEF EndStays, Kept
=============================================================================
