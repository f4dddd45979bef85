------------------------ MODULE SourceControlProofs -------------------------
(***************************************************************************)
(* Proofs about SourceControl, for any finite set of requests and sources, *)
(* any number of rounds with the agent and of edits by the user: what a    *)
(* request that ends may leave behind, what it must have done, and what of *)
(* the user's it must not touch, whatever the agent does with the files    *)
(* and git, and however the requests interleave.                           *)
(***************************************************************************)
EXTENDS SourceControl, TLAPS

(* Where a request stands.                                                 *)
Pcs == {"idle", "locate", "check", "git", "failing", "resolve", "agent", "verify", "finish",
        "abort", "ok", "failed"}

(* What a request's record may be.                                         *)
Requests == [pc : Pcs, how : {"merge", "rebase"}, level : {"session", "workspace"},
             src : Sources \cup {"none"}, dir : Dirs, had : BOOLEAN, paths : BOOLEAN,
             steps : 0 .. MaxSteps, ran : SUBSET {"commit", "abort"},
             broke : SUBSET {"abort", "remove"}]

(* The declared types, with the requests'.                                 *)
Types ==
  /\ tip \subseteq Commits /\ tree \in [Dirs -> TreeType] /\ op \in [Ops -> Requests]
  /\ live \in BOOLEAN /\ edits \in 0 .. MaxEdits /\ overlapped \subseteq Ops

(* A request that began has a source; a merge is resolved once; only a     *)
(* workspace's request is resolved.                                        *)
Stages ==
  \A o \in Ops :
    /\ op[o].pc # "idle" => op[o].src \in Sources
    /\ op[o].pc = "idle" => op[o].ran = {}
    /\ op[o].how = "merge" /\ op[o].pc \in {"locate", "check", "git", "failing", "resolve"}
         => op[o].steps = 0
    /\ op[o].level = "session" => op[o].pc \notin {"resolve", "agent", "verify", "finish"}

(* A paused operation has met a conflict, and only files in conflict are   *)
(* staged.                                                                 *)
Sane(t) ==
  (t.mid # Nobody => t.exists /\ t.conf # "none") /\ (t.conf = "none" => ~t.staged)

(* The stages at which an operation may be paused.                         *)
Working == {"failing", "resolve", "agent", "verify", "finish", "abort"}

(* A request's operation is paused only in its directory, while it is at   *)
(* work, or where its abort failed; its temporary worktree is there no     *)
(* longer than it is, unless the removal failed.                           *)
Traces ==
  /\ \A d \in Dirs : Sane(tree[d])
  /\ \A o \in Ops, d \in Dirs : tree[d].mid = o =>
       /\ op[o].dir = d /\ op[o].how = tree[d].how
       /\ op[o].pc \in Working \/ (op[o].pc = "failed" /\ "abort" \in op[o].broke)
  /\ \A o \in Ops : /\ tree[o].mid # "user"
                    /\ tree[o].exists => /\ op[o].dir = o /\ op[o].pc \notin {"idle", "locate"}
                                         /\ Active(o) \/ "remove" \in op[o].broke

(* Two requests at work have each disturbed the other.                     *)
Crowded ==
  \A o, p \in Ops : o # p /\ Active(o) /\ Active(p) => o \in overlapped /\ p \in overlapped

(* What is paused in a request's directory is its own.                     *)
Own(o) == T(o).mid = o /\ T(o).from = {op[o].src}

(* A session's rebase runs in the session's worktree and checks nothing    *)
(* first.                                                                  *)
OwnDir(o) == op[o].level = "session" /\ op[o].how = "rebase"

(* The agent has concluded or aborted the operation, or git the rebase.    *)
Over(o) == T(o).mid = Nobody /\ (op[o].src \in tip \/ "abort" \in op[o].ran)

(* What a request finds in its directory is what it left there.            *)
Sound(o) ==
  /\ op[o].pc \in Working /\ T(o).mid = o => ~T(o).dirty
  /\ At(o, "git") /\ ~OwnDir(o) => T(o).exists /\ T(o).mid = Nobody /\ IsClean(T(o))
  /\ op[o].pc \in Working /\ ~OwnDir(o) => T(o).mid \in {o, Nobody}
  /\ op[o].level = "workspace" =>
       /\ At(o, "failing") => Own(o) /\ T(o).conf = "conflict" /\ ~T(o).staged
       /\ At(o, "resolve") => Over(o) \/ (Own(o) /\ T(o).conf = "conflict" /\ ~T(o).staged)
       /\ op[o].pc \in {"agent", "verify"} =>
            Over(o) \/ (Own(o) /\ op[o].paths /\ Unmerged(T(o)))
       /\ At(o, "finish") => Over(o) \/ (Own(o) /\ T(o).conf = "fixed")
  /\ At(o, "ok") => op[o].src \in tip \/ "abort" \in op[o].ran

(* It does where nobody disturbed it.                                      *)
Undisturbed == \A o \in Ops \ overlapped : Sound(o)

(* Conflict markers are committed only by an agent, or where requests      *)
(* disturbed each other.                                                   *)
Unmarked == "markers" \in tip => overlapped # {} \/ \E p \in Ops : "commit" \in op[p].ran

-----------------------------------------------------------------------------
(* What a step of a request leaves of the others, and of its own record.   *)
Keeps(o) ==
  /\ op' \in [Ops -> Requests] /\ \A p \in Ops \ {o} : op'[p] = op[p]
  /\ op'[o].how = op[o].how /\ op'[o].level = op[o].level /\ op'[o].src = op[o].src
  /\ op[o].ran \subseteq op'[o].ran
  /\ overlapped' = overlapped /\ live' = live /\ edits' = edits

(* The request stays in its directory and its round with the agent.        *)
Stays(o) ==
  /\ Keeps(o)
  /\ op'[o].dir = op[o].dir
  /\ op'[o].paths = op[o].paths
  /\ op'[o].steps = op[o].steps

-----------------------------------------------------------------------------
(* A worktree that is not there, and a clean one.                          *)
LEMMA TreeTypes ==
  /\ NoTree \in TreeType /\ ~NoTree.exists /\ NoTree.mid = Nobody /\ NoTree.conf = "none"
  /\ ~NoTree.dirty /\ ~NoTree.staged
  /\ Clean \in TreeType /\ Clean.exists /\ Clean.mid = Nobody /\ Clean.conf = "none"
  /\ ~Clean.dirty /\ ~Clean.staged
BY DEF NoTree, Clean, TreeType

(* An abort ends the operation of its own kind, and a rebase's takes the   *)
(* edits along.                                                            *)
LEMMA AbortedTypes ==
  ASSUME NEW t \in TreeType, NEW how \in {"merge", "rebase"}
  PROVE  /\ Aborted(t, how) \in TreeType
         /\ Aborted(t, how) = t \/ (/\ t.mid # Nobody /\ t.how = how
                                    /\ Aborted(t, how).mid = Nobody
                                    /\ Aborted(t, how).exists
                                    /\ Aborted(t, how).dirty => t.dirty
                                    /\ how = "merge" => Aborted(t, how).dirty = t.dirty)
         /\ t.mid # Nobody /\ t.how = how => Aborted(t, how).mid = Nobody
         /\ Aborted(t, how) = t \/ Sane(Aborted(t, how))
<1> DEFINE x == t.dirty /\ how = "merge"
<1>1. x \in BOOLEAN
  OBVIOUS
<1> HIDE DEF x
<1>2. [Clean EXCEPT !.dirty = x] \in TreeType
  BY <1>1, TreeTypes DEF TreeType
<1>3. /\ [Clean EXCEPT !.dirty = x].mid = Nobody /\ [Clean EXCEPT !.dirty = x].exists
      /\ [Clean EXCEPT !.dirty = x].dirty = x /\ Sane([Clean EXCEPT !.dirty = x])
  BY TreeTypes DEF Sane
<1>4. CASE t.mid # Nobody /\ t.how = how
  <2>1. Aborted(t, how) = [Clean EXCEPT !.dirty = x]
    BY <1>4 DEF Aborted, x
  <2> QED BY <1>2, <1>3, <1>4, <2>1 DEF x, TreeType
<1>5. CASE ~(t.mid # Nobody /\ t.how = how)
  BY <1>5 DEF Aborted
<1> QED BY <1>4, <1>5

(* A commit ends the operation and keeps the edits.                        *)
LEMMA ConcludedTypes ==
  ASSUME NEW t \in TreeType
  PROVE  /\ Concluded(t) \in TreeType /\ Concluded(t).mid = Nobody
         /\ t.mid = Nobody => Concluded(t) = t
         /\ t.mid # Nobody => Concluded(t).exists
         /\ Concluded(t).dirty = t.dirty
         /\ Concluded(t) = t \/ Sane(Concluded(t))
<1> DEFINE c == [Clean EXCEPT !.dirty = t.dirty]
<1>1. c \in TreeType /\ c.mid = Nobody /\ c.exists /\ c.dirty = t.dirty /\ Sane(c)
  BY TreeTypes DEF TreeType, Sane
<1> QED BY <1>1 DEF Concluded

(* It brings what the operation brings, and markers only where there are   *)
(* some.                                                                   *)
LEMMA BroughtTypes ==
  ASSUME NEW t \in TreeType
  PROVE  /\ Brought(t) \subseteq Commits
         /\ t.mid # Nobody => t.from \subseteq Brought(t)
         /\ ~Marked(t) /\ "markers" \notin t.from => "markers" \notin Brought(t)
BY DEF Brought, TreeType, Commits

(* A step that gives a request a record of the same operation is its own.  *)
LEMMA Updated ==
  ASSUME Types, NEW o \in Ops, NEW r \in Requests, op' = [op EXCEPT ![o] = r],
         r.how = op[o].how, r.level = op[o].level, r.src = op[o].src, op[o].ran \subseteq r.ran,
         UNCHANGED <<live, edits, overlapped>>
  PROVE  /\ Keeps(o) /\ op'[o] = r
         /\ r.dir = op[o].dir /\ r.paths = op[o].paths /\ r.steps = op[o].steps => Stays(o)
<1>1. op'[o] = r /\ op' \in [Ops -> Requests] /\ \A p \in Ops \ {o} : op'[p] = op[p]
  BY DEF Types
<1> QED BY <1>1 DEF Keeps, Stays

(* A request goes on and changes no worktree.                              *)
LEMMA GoLeaves ==
  ASSUME Types, NEW o \in Ops, NEW pc \in Pcs, Go(o, pc), UNCHANGED <<live, edits, overlapped>>
  PROVE  Stays(o) /\ op'[o].pc = pc
BY DEF Types, Go, Stays, Keeps, Requests

(* What is left of the worktrees when a request ends: its temporary one is *)
(* removed, or the removal is on record as failed.                         *)
Cleaned(o, trees) ==
  \A d \in Dirs :
    \/ tree'[d] = trees[d] /\ (d = o /\ op[o].dir = o => "remove" \in op'[o].broke)
    \/ d = o /\ op[o].dir = o /\ tree'[d] = NoTree

(* A request ends, and removes its temporary worktree or fails to.         *)
LEMMA LeaveLeaves ==
  ASSUME Types, NEW o \in Ops, NEW pc \in Pcs, NEW trees \in [Dirs -> TreeType],
         NEW broke \in SUBSET {"abort", "remove"},
         Leave(o, pc, trees, broke), UNCHANGED <<live, edits, overlapped>>
  PROVE  /\ Stays(o) /\ op'[o].pc = pc /\ tree' \in [Dirs -> TreeType]
         /\ broke \subseteq op'[o].broke
         /\ Cleaned(o, trees)
<1>1. ASSUME NEW b \in SUBSET {"abort", "remove"},
             op' = [op EXCEPT ![o].pc = pc, ![o].broke = b]
      PROVE  Stays(o) /\ op'[o].pc = pc /\ op'[o].broke = b
  <2> DEFINE r == [op[o] EXCEPT !.pc = pc, !.broke = b]
  <2>1. r \in Requests /\ r.pc = pc /\ r.broke = b
    <3>1. op[o] \in Requests
      BY DEF Types
    <3> QED BY <3>1 DEF Requests
  <2>2. /\ r.how = op[o].how /\ r.level = op[o].level /\ r.src = op[o].src /\ r.ran = op[o].ran
        /\ r.dir = op[o].dir /\ r.paths = op[o].paths /\ r.steps = op[o].steps
    BY DEF Types, Requests
  <2>3. op' = [op EXCEPT ![o] = r]
    BY <1>1
  <2> HIDE DEF r
  <2> QED BY <2>1, <2>2, <2>3, Updated
<1>2. CASE tree' = Cleanup(o, trees) /\ op' = [op EXCEPT ![o].pc = pc, ![o].broke = broke]
  <2>1. tree' \in [Dirs -> TreeType] /\ Cleaned(o, trees)
    BY <1>2, TreeTypes DEF Cleanup, Cleaned, Dirs
  <2> QED BY <1>1, <1>2, <2>1
<1>3. CASE /\ op[o].dir = o /\ tree' = trees
           /\ op' = [op EXCEPT ![o].pc = pc, ![o].broke = broke \cup {"remove"}]
  <2>1. broke \cup {"remove"} \in SUBSET {"abort", "remove"}
    OBVIOUS
  <2>2. Stays(o) /\ op'[o].pc = pc /\ op'[o].broke = broke \cup {"remove"}
    BY <1>1, <1>3, <2>1
  <2> QED BY <1>3, <2>2 DEF Cleaned
<1> QED BY <1>2, <1>3 DEF Leave

(* So does a request that ends without anything else failing.              *)
LEMMA EndLeaves ==
  ASSUME Types, NEW o \in Ops, NEW pc \in Pcs, NEW trees \in [Dirs -> TreeType],
         End(o, pc, trees), UNCHANGED <<live, edits, overlapped>>
  PROVE  /\ Stays(o) /\ op'[o].pc = pc /\ tree' \in [Dirs -> TreeType]
         /\ Cleaned(o, trees)
<1>1. op[o].broke \in SUBSET {"abort", "remove"}
  BY DEF Types, Requests
<1> QED BY <1>1, LeaveLeaves DEF End

(* A worktree the user edits is a worktree.                                *)
LEMMA DirtyTypes ==
  ASSUME NEW t \in [Dirs -> TreeType], NEW d \in Dirs, NEW x \in BOOLEAN
  PROVE  [t EXCEPT ![d].dirty = x] \in [Dirs -> TreeType]
<1> DEFINE r == [t[d] EXCEPT !.dirty = x]
<1>1. r \in TreeType
  BY DEF TreeType
<1> HIDE DEF r
<1>2. [t EXCEPT ![d] = r] \in [Dirs -> TreeType]
  BY <1>1
<1> QED BY <1>2 DEF r

-----------------------------------------------------------------------------
(* What each step of a request leaves: it begins, and disturbs those at    *)
(* work.                                                                   *)
LEMMA BeginLeaves ==
  ASSUME Types, NEW o \in Ops, NEW how \in {"merge", "rebase"},
         NEW level \in {"session", "workspace"},
         NEW src \in Sources, Begin(o, how, level, src)
  PROVE  /\ op' \in [Ops -> Requests] /\ \A p \in Ops \ {o} : op'[p] = op[p]
         /\ op[o].pc = "idle" /\ op'[o].steps = 0 /\ op'[o].ran = {} /\ op'[o].how = how
         /\ op'[o].level = level
         /\ op'[o].src = src
         /\ op'[o].pc = IF level = "session" /\ how = "rebase" THEN "git" ELSE "locate"
         /\ UNCHANGED <<tip, tree, live, edits>>
         /\ overlapped' \subseteq Ops /\ overlapped \subseteq overlapped'
         /\ \A p \in Ops \ {o} : Active(p) => p \in overlapped' /\ o \in overlapped'
<1> DEFINE pc == IF level = "session" /\ how = "rebase" THEN "git" ELSE "locate"
           r == [NoOp EXCEPT !.how = how, !.level = level, !.src = src, !.pc = pc]
<1>1. pc \in Pcs
  BY DEF Pcs
<1> HIDE DEF pc
<1>2. NoOp \in Requests /\ NoOp.steps = 0 /\ NoOp.ran = {}
  BY BoundsAssumption DEF NoOp, Requests, Dirs, Pcs
<1>3. /\ r \in Requests /\ r.steps = 0 /\ r.ran = {} /\ r.how = how /\ r.level = level /\ r.pc = pc
      /\ r.src = src
  BY <1>1, <1>2 DEF Requests
<1> HIDE DEF r
<1>4. /\ op' = [op EXCEPT ![o] = r]
      /\ op[o].pc = "idle"
      /\ UNCHANGED <<tip, tree, live, edits>>
  BY DEF Begin, At, r, pc
<1>5. /\ overlapped' \subseteq Ops /\ overlapped \subseteq overlapped'
      /\ \A p \in Ops \ {o} : Active(p) => p \in overlapped' /\ o \in overlapped'
  BY DEF Begin, Types
<1> QED BY <1>3, <1>4, <1>5 DEF Types, pc

(* It finds its directory, makes a temporary worktree, or fails.           *)
LEMMA LocateLeaves ==
  ASSUME Types, NEW o \in Ops, Locate(o)
  PROVE  /\ Keeps(o) /\ At(o, "locate") /\ op'[o].steps = op[o].steps /\ tip' = tip
         /\ \/ /\ op'[o].pc = "check" /\ op'[o].dir \in Dirs /\ tree' = tree
               /\ tree[op'[o].dir].exists
            \/ /\ op'[o].pc = "check" /\ op'[o].dir = o /\ ~tree[o].exists
               /\ tree' \in [Dirs -> TreeType] /\ tree'[o] = Clean
               /\ \A d \in Dirs \ {o} : tree'[d] = tree[d]
            \/ op'[o].pc = "failed" /\ op'[o].dir = op[o].dir /\ tree' = tree
<1>1. At(o, "locate") /\ UNCHANGED <<tip, live, edits, overlapped>> /\ o \in Dirs
  BY DEF Locate, Dirs
<1>2. CASE /\ tree' = tree
           /\ \E d \in Dirs : Holder(d) /\ op' = [op EXCEPT ![o].dir = d, ![o].pc = "check"]
  <2>1. PICK d \in Dirs : Holder(d) /\ op' = [op EXCEPT ![o].dir = d, ![o].pc = "check"]
    BY <1>2
  <2>2. Keeps(o) /\ op'[o].steps = op[o].steps /\ op'[o].pc = "check" /\ op'[o].dir = d
    <3> DEFINE r == [op[o] EXCEPT !.dir = d, !.pc = "check"]
    <3>1. /\ r \in Requests /\ r.pc = "check" /\ r.dir = d /\ r.steps = op[o].steps
          /\ r.how = op[o].how /\ r.level = op[o].level /\ r.src = op[o].src /\ r.ran = op[o].ran
      <4>1. op[o] \in Requests
        BY DEF Types
      <4> QED BY <1>1, <4>1 DEF Requests, Pcs
    <3>2. op' = [op EXCEPT ![o] = r]
      BY <2>1
    <3> HIDE DEF r
    <3> QED BY <1>1, <3>1, <3>2, Updated
  <2> QED BY <1>1, <1>2, <2>1, <2>2 DEF Holder
<1>3. CASE /\ \A d \in Dirs : ~tree[d].exists
           /\ tree' = [tree EXCEPT ![o] = Clean]
           /\ op' = [op EXCEPT ![o].dir = o, ![o].pc = "check"]
  <2>1. Keeps(o) /\ op'[o].steps = op[o].steps /\ op'[o].pc = "check" /\ op'[o].dir = o
    <3> DEFINE r == [op[o] EXCEPT !.dir = o, !.pc = "check"]
    <3>1. /\ r \in Requests /\ r.pc = "check" /\ r.dir = o /\ r.steps = op[o].steps
          /\ r.how = op[o].how /\ r.level = op[o].level /\ r.src = op[o].src /\ r.ran = op[o].ran
      <4>1. op[o] \in Requests
        BY DEF Types
      <4> QED BY <1>1, <4>1 DEF Requests, Pcs
    <3>2. op' = [op EXCEPT ![o] = r]
      BY <1>3
    <3> HIDE DEF r
    <3> QED BY <1>1, <3>1, <3>2, Updated
  <2> QED BY <1>1, <1>3, <2>1, TreeTypes DEF Types
<1>4. CASE Go(o, "failed") /\ tree' = tree
  BY <1>1, <1>4, GoLeaves DEF Pcs, Stays
<1> QED BY <1>2, <1>3, <1>4 DEF Locate

(* It goes on only with a worktree it found clean.                         *)
LEMMA CheckCleanLeaves ==
  ASSUME Types, NEW o \in Ops, CheckClean(o)
  PROVE  /\ Stays(o) /\ At(o, "check") /\ tip' = tip
         /\ \/ op'[o].pc = "git" /\ tree' = tree /\ T(o).exists /\ IsClean(T(o))
            \/ op'[o].pc = "failed" /\ tree' \in [Dirs -> TreeType] /\ Cleaned(o, tree)
<1>1. /\ At(o, "check")
      /\ UNCHANGED <<tip, live, edits, overlapped>>
      /\ {"git", "failed"} \subseteq Pcs
  BY DEF CheckClean, Pcs
<1>2. tree \in [Dirs -> TreeType]
  BY DEF Types
<1>3. CASE T(o).exists /\ IsClean(T(o))
  BY <1>1, <1>3, GoLeaves DEF CheckClean
<1>4. CASE ~(T(o).exists /\ IsClean(T(o)))
  BY <1>1, <1>2, <1>4, EndLeaves DEF CheckClean
<1> QED BY <1>3, <1>4

(* Git refuses only where there is no worktree, or one that is not clean.  *)
LEMMA GitRefusesLeaves ==
  ASSUME Types, NEW o \in Ops, GitRefuses(o)
  PROVE  /\ Stays(o) /\ At(o, "git") /\ op'[o].pc = "failing" /\ tip' = tip /\ tree' = tree
         /\ ~T(o).exists \/ T(o).mid # Nobody \/ T(o).dirty
<1> DEFINE had == Unmerged(T(o))
<1>1. had \in BOOLEAN
  BY DEF Unmerged
<1>2. op' = [op EXCEPT ![o].had = had, ![o].pc = "failing"]
  BY DEF GitRefuses
<1> HIDE DEF had
<1>3. UNCHANGED <<live, edits, overlapped>>
  BY DEF GitRefuses
<1>4. Stays(o) /\ op'[o].pc = "failing"
  <2> DEFINE r == [op[o] EXCEPT !.had = had, !.pc = "failing"]
  <2>1. /\ r \in Requests /\ r.pc = "failing" /\ r.ran = op[o].ran
        /\ r.how = op[o].how /\ r.level = op[o].level /\ r.src = op[o].src
        /\ r.dir = op[o].dir /\ r.paths = op[o].paths /\ r.steps = op[o].steps
    <3>1. op[o] \in Requests
      BY DEF Types
    <3> QED BY <1>1, <3>1 DEF Requests, Pcs
  <2>2. op' = [op EXCEPT ![o] = r]
    BY <1>2
  <2> HIDE DEF r
  <2> QED BY <1>3, <2>1, <2>2, Updated
<1> QED BY <1>4 DEF GitRefuses

(* Git brings the source in, or pauses the request's operation in its      *)
(* directory.                                                              *)
LEMMA GitRunsLeaves ==
  ASSUME Types, Stages, NEW o \in Ops, GitRuns(o)
  PROVE  /\ Stays(o) /\ At(o, "git") /\ T(o).exists /\ T(o).mid = Nobody
         /\ op[o].how = "rebase" => ~T(o).dirty
         /\ tree' \in [Dirs -> TreeType]
         /\ \/ op'[o].pc = "ok" /\ tip' = tip \cup {op[o].src} /\ Cleaned(o, tree)
            \/ /\ op'[o].pc = "failing" /\ tip' = tip
               /\ \A d \in Dirs \ {op[o].dir} : tree'[d] = tree[d]
               /\ T(o)'.mid = o /\ T(o)'.how = op[o].how /\ T(o)'.from = {op[o].src}
               /\ T(o)'.conf = "conflict" /\ T(o)'.staged = T(o).staged
               /\ T(o)'.dirty = T(o).dirty /\ T(o)'.exists
<1>1. /\ At(o, "git") /\ T(o).exists /\ T(o).mid = Nobody
      /\ (op[o].how = "rebase" => ~T(o).dirty)
      /\ UNCHANGED <<live, edits, overlapped>> /\ {"ok", "failing"} \subseteq Pcs
  BY DEF GitRuns, Pcs
<1>2. tree \in [Dirs -> TreeType] /\ op[o].dir \in Dirs
  BY DEF Types, Requests
<1>3. CASE tip' = tip \cup {op[o].src} /\ End(o, "ok", tree)
  BY <1>1, <1>2, <1>3, EndLeaves
<1>4. CASE /\ tree' = [tree EXCEPT ![op[o].dir].mid = o, ![op[o].dir].how = op[o].how,
                                   ![op[o].dir].from = {op[o].src}, ![op[o].dir].conf = "conflict"]
           /\ op' = [op EXCEPT ![o].had = TRUE, ![o].pc = "failing"] /\ tip' = tip
           /\ op[o].src \notin tip
  <2>1. Stays(o) /\ op'[o].pc = "failing"
    <3> DEFINE r == [op[o] EXCEPT !.had = TRUE, !.pc = "failing"]
    <3>1. /\ r \in Requests /\ r.pc = "failing" /\ r.ran = op[o].ran
          /\ r.how = op[o].how /\ r.level = op[o].level /\ r.src = op[o].src
          /\ r.dir = op[o].dir /\ r.paths = op[o].paths /\ r.steps = op[o].steps
      <4>1. op[o] \in Requests
        BY DEF Types
      <4> QED BY <1>1, <4>1 DEF Requests
    <3>2. op' = [op EXCEPT ![o] = r]
      BY <1>4
    <3> HIDE DEF r
    <3> QED BY <1>1, <3>1, <3>2, Updated
  <2>2. {op[o].src} \subseteq Commits /\ op[o].how \in {"merge", "rebase"}
    BY <1>1 DEF Types, Requests, Stages, At, Commits
  <2> DEFINE r == [tree[op[o].dir] EXCEPT !.mid = o, !.how = op[o].how, !.from = {op[o].src},
                                          !.conf = "conflict"]
  <2>3. tree[op[o].dir] \in TreeType
    BY <1>2
  <2>4. /\ r \in TreeType /\ r.mid = o /\ r.how = op[o].how /\ r.from = {op[o].src}
        /\ r.conf = "conflict" /\ r.staged = T(o).staged /\ r.dirty = T(o).dirty
        /\ r.exists = T(o).exists
    BY <2>2, <2>3 DEF TreeType, T
  <2>5. tree' = [tree EXCEPT ![op[o].dir] = r]
    BY <1>2, <1>4
  <2> HIDE DEF r
  <2>6. /\ tree' \in [Dirs -> TreeType] /\ \A d \in Dirs \ {op[o].dir} : tree'[d] = tree[d]
        /\ tree'[op[o].dir] = r
    BY <1>2, <2>4, <2>5
  <2>7. op'[o].dir = op[o].dir /\ tip' = tip
    BY <1>4, <2>1 DEF Stays
  <2>8. T(o)' = r
    BY <2>6, <2>7 DEF T
  <2>9. /\ T(o)'.mid = o /\ T(o)'.how = op[o].how /\ T(o)'.from = {op[o].src}
        /\ T(o)'.conf = "conflict"
    BY <2>4, <2>8
  <2>10. T(o)'.staged = T(o).staged /\ T(o)'.dirty = T(o).dirty /\ T(o)'.exists
    BY <1>1, <2>4, <2>8
  <2> QED BY <1>1, <2>1, <2>6, <2>7, <2>9, <2>10
<1> QED BY <1>3, <1>4 DEF GitRuns

(* A request whose git command failed resolves or aborts.                  *)
LEMMA FailingLeaves ==
  ASSUME Types, NEW o \in Ops, Failing(o)
  PROVE  /\ Stays(o) /\ At(o, "failing") /\ UNCHANGED <<tip, tree>>
         /\ op'[o].pc \in {"resolve", "abort"}
         /\ op'[o].pc = "resolve" => op[o].level = "workspace"
<1> DEFINE tried == /\ op[o].level = "workspace"
                    /\ IF op[o].how = "merge" THEN op[o].had ELSE InRebase(T(o))
           pc == IF tried THEN "resolve" ELSE "abort"
<1>1. /\ pc \in Pcs
      /\ pc \in {"resolve", "abort"}
      /\ (pc = "resolve" => op[o].level = "workspace")
  BY DEF Pcs
<1>2. Go(o, pc) /\ At(o, "failing") /\ UNCHANGED <<tip, tree, live, edits, overlapped>>
  BY DEF Failing
<1> HIDE DEF pc
<1> QED BY <1>1, <1>2, GoLeaves

(* A request to resolve calls the agent, or gives up.                      *)
LEMMA ResolveLeaves ==
  ASSUME Types, Stages, NEW o \in Ops, Resolve(o)
  PROVE  /\ Keeps(o) /\ At(o, "resolve") /\ UNCHANGED <<tip, tree>>
         /\ op[o].how = "rebase" => InRebase(T(o))
         /\ op'[o].dir = op[o].dir
         /\ \/ op'[o].pc = "abort"
            \/ op'[o].pc = "agent" /\ op'[o].paths = Unmerged(T(o))
<1>1. /\ At(o, "resolve") /\ UNCHANGED <<tip, tree, live, edits, overlapped>>
      /\ op[o].how = "rebase" => InRebase(T(o)) /\ op[o].steps < MaxSteps
  BY DEF Resolve
<1>2. CASE Go(o, "abort")
  BY <1>1, <1>2, GoLeaves DEF Stays, Pcs
<1>3. CASE ~Go(o, "abort")
  <2> DEFINE paths == Unmerged(T(o))
  <2>1. paths \in BOOLEAN
    BY DEF Unmerged
  <2>2. op' = [op EXCEPT ![o].paths = paths, ![o].pc = "agent", ![o].steps = @ + 1]
    BY <1>3 DEF Resolve
  <2>3. op[o].steps < MaxSteps
    BY <1>1, BoundsAssumption DEF Stages, At, Types, Requests
  <2> HIDE DEF paths
  <2>4. op[o].steps + 1 \in 0 .. MaxSteps
    BY <2>3, BoundsAssumption DEF Types, Requests
  <2>5. /\ Keeps(o) /\ op'[o].pc = "agent" /\ op'[o].paths = paths
        /\ op'[o].dir = op[o].dir
    BY <1>1, <2>1, <2>2, <2>4 DEF Types, Requests
  <2> QED BY <1>1, <2>5 DEF paths
<1> QED BY <1>2, <1>3

(* The agent changes the files, and neither the operation nor the edits.   *)
LEMMA AgentLeaves ==
  ASSUME Types, NEW o \in Ops, Agent(o)
  PROVE  /\ Stays(o) /\ At(o, "agent") /\ op'[o].pc \in {"agent", "verify"} /\ tip' = tip
         /\ tree' \in [Dirs -> TreeType] /\ \A d \in Dirs \ {op[o].dir} : tree'[d] = tree[d]
         /\ T(o)'.mid = T(o).mid /\ T(o)'.how = T(o).how /\ T(o)'.from = T(o).from
         /\ T(o)'.staged = T(o).staged /\ T(o)'.dirty = T(o).dirty
         /\ T(o)'.exists = T(o).exists
         /\ T(o).conf # "none" => T(o)'.conf # "none"
         /\ T(o).conf = "none" => T(o)'.conf = "none"
<1>1. /\ At(o, "agent") /\ UNCHANGED <<tip, live, edits, overlapped>>
      /\ \E pc \in {"agent", "verify"} : Go(o, pc)
      /\ \E c \in {"conflict", "marked", "fixed"} :
           tree' = IF Unmerged(T(o)) THEN [tree EXCEPT ![op[o].dir].conf = c] ELSE tree
  BY DEF Agent
<1>2. Stays(o) /\ op'[o].pc \in {"agent", "verify"}
  BY <1>1, GoLeaves DEF Pcs
<1>3. op[o].dir \in Dirs /\ tree \in [Dirs -> TreeType]
  BY DEF Types, Requests
<1>4. CASE Unmerged(T(o))
  <2>1. PICK c \in {"conflict", "marked", "fixed"} : tree' = [tree EXCEPT ![op[o].dir].conf = c]
    BY <1>1, <1>4
  <2> QED BY <1>1, <1>2, <1>3, <1>4, <2>1 DEF Stays, T, TreeType, Unmerged
<1>5. CASE ~Unmerged(T(o))
  BY <1>1, <1>2, <1>3, <1>5 DEF Stays, T
<1> QED BY <1>4, <1>5

(* The agent runs a git command, which is put on record.                   *)
LEMMA AgentGitLeaves ==
  ASSUME Types, NEW o \in Ops, NEW command \in {"commit", "abort"}, AgentGit(o, command),
         UNCHANGED <<live, edits, overlapped>>
  PROVE  Stays(o) /\ op'[o].pc = op[o].pc /\ command \in op'[o].ran
<1> DEFINE more == op[o].ran \cup {command}
<1>1. more \in SUBSET {"commit", "abort"} /\ command \in more /\ op[o].ran \subseteq more
  BY DEF Types, Requests
<1>2. op' = [op EXCEPT ![o].ran = more]
  BY DEF AgentGit
<1> HIDE DEF more
<1>3. Stays(o) /\ op'[o].pc = op[o].pc /\ op'[o].ran = more
  <2> DEFINE r == [op[o] EXCEPT !.ran = more]
  <2>1. /\ r \in Requests /\ r.pc = op[o].pc /\ r.ran = more
        /\ r.how = op[o].how /\ r.level = op[o].level /\ r.src = op[o].src
        /\ r.dir = op[o].dir /\ r.paths = op[o].paths /\ r.steps = op[o].steps
    <3>1. op[o] \in Requests
      BY DEF Types
    <3> QED BY <1>1, <3>1 DEF Requests
  <2>2. op' = [op EXCEPT ![o] = r]
    BY <1>2
  <2> HIDE DEF r
  <2> QED BY <1>1, <2>1, <2>2, Updated
<1> QED BY <1>1, <1>3

(* It commits the operation, or a rebase's next commit conflicts.          *)
LEMMA AgentCommitsLeaves ==
  ASSUME Types, NEW o \in Ops, AgentCommits(o)
  PROVE  /\ Stays(o) /\ At(o, "agent") /\ op'[o].pc = "agent" /\ "commit" \in op'[o].ran
         /\ T(o).mid # Nobody
         /\ tree' \in [Dirs -> TreeType] /\ \A d \in Dirs \ {op[o].dir} : tree'[d] = tree[d]
         /\ \/ tip' = tip \cup Brought(T(o)) /\ T(o)' = Concluded(T(o))
            \/ /\ tip' = tip /\ T(o)'.conf = "conflict" /\ ~T(o)'.staged
               /\ T(o)'.mid = T(o).mid /\ T(o)'.how = T(o).how /\ T(o)'.from = T(o).from
               /\ T(o)'.dirty = T(o).dirty /\ T(o)'.exists = T(o).exists
<1>1. /\ At(o, "agent") /\ T(o).mid # Nobody /\ AgentGit(o, "commit")
      /\ UNCHANGED <<live, edits, overlapped>>
  BY DEF AgentCommits
<1>2. op[o].dir \in Dirs /\ T(o) \in TreeType /\ tree \in [Dirs -> TreeType]
  BY DEF Types, Requests, T
<1>3. Stays(o) /\ op'[o].pc = "agent" /\ "commit" \in op'[o].ran
  BY <1>1, AgentGitLeaves DEF At
<1>4. CASE /\ tip' = tip \cup Brought(T(o))
           /\ tree' = [tree EXCEPT ![op[o].dir] = Concluded(@)]
  BY <1>1, <1>2, <1>3, <1>4, ConcludedTypes DEF Stays, T
<1>5. CASE /\ tip' = tip
           /\ tree' = [tree EXCEPT ![op[o].dir].conf = "conflict", ![op[o].dir].staged = FALSE]
  BY <1>1, <1>2, <1>3, <1>5 DEF Stays, T, TreeType
<1> QED BY <1>4, <1>5 DEF AgentCommits

(* It aborts the operation, whoever's it is.                               *)
LEMMA AgentAbortsLeaves ==
  ASSUME Types, NEW o \in Ops, AgentAborts(o)
  PROVE  /\ Stays(o) /\ At(o, "agent") /\ op'[o].pc = "agent" /\ "abort" \in op'[o].ran
         /\ tip' = tip /\ T(o).mid # Nobody
         /\ tree' \in [Dirs -> TreeType] /\ \A d \in Dirs \ {op[o].dir} : tree'[d] = tree[d]
         /\ T(o)'.mid = Nobody /\ T(o)'.exists /\ Sane(T(o)')
         /\ T(o)'.dirty => T(o).dirty
<1>1. /\ At(o, "agent") /\ T(o).mid # Nobody /\ AgentGit(o, "abort")
      /\ tree' = [tree EXCEPT ![op[o].dir] = Aborted(@, T(o).how)]
      /\ UNCHANGED <<tip, live, edits, overlapped>>
  BY DEF AgentAborts
<1>2. /\ op[o].dir \in Dirs /\ T(o) \in TreeType /\ tree \in [Dirs -> TreeType]
      /\ T(o).how \in {"merge", "rebase"}
  BY DEF Types, Requests, T, TreeType
<1>3. Stays(o) /\ op'[o].pc = "agent" /\ "abort" \in op'[o].ran
  BY <1>1, AgentGitLeaves DEF At
<1>4. /\ Aborted(T(o), T(o).how) \in TreeType /\ Aborted(T(o), T(o).how).mid = Nobody
      /\ Aborted(T(o), T(o).how).exists /\ Sane(Aborted(T(o), T(o).how))
      /\ Aborted(T(o), T(o).how).dirty => T(o).dirty
  BY <1>1, <1>2, AbortedTypes
<1>5. /\ tree' \in [Dirs -> TreeType] /\ \A d \in Dirs \ {op[o].dir} : tree'[d] = tree[d]
      /\ T(o)' = Aborted(T(o), T(o).how)
  BY <1>1, <1>2, <1>3, <1>4 DEF Stays, T
<1> QED BY <1>1, <1>3, <1>4, <1>5

(* What was not resolved goes no further; the rest is staged.              *)
LEMMA VerifyLeaves ==
  ASSUME Types, NEW o \in Ops, Verify(o)
  PROVE  /\ Stays(o) /\ At(o, "verify") /\ tip' = tip
         /\ op'[o].pc \in {"abort", "finish"}
         /\ op'[o].pc = "finish" => ~(op[o].paths /\ Marked(T(o)))
         /\ tree' \in [Dirs -> TreeType] /\ \A d \in Dirs \ {op[o].dir} : tree'[d] = tree[d]
         /\ T(o)'.mid = T(o).mid /\ T(o)'.how = T(o).how /\ T(o)'.from = T(o).from
         /\ T(o)'.conf = T(o).conf /\ T(o)'.dirty = T(o).dirty /\ T(o)'.exists = T(o).exists
         /\ T(o).conf = "none" => T(o)'.staged = T(o).staged
<1> DEFINE s == T(o).staged \/ (op[o].paths /\ T(o).conf # "none")
<1>1. s \in BOOLEAN /\ {"abort", "finish"} \subseteq Pcs
  BY DEF Pcs
<1>2. op[o].dir \in Dirs /\ tree \in [Dirs -> TreeType]
  BY DEF Types, Requests
<1>3. /\ At(o, "verify") /\ UNCHANGED <<tip, live, edits, overlapped>>
      /\ tree' = [tree EXCEPT ![op[o].dir].staged = s]
      /\ Go(o, "abort") \/ (Go(o, "finish") /\ ~(op[o].paths /\ Marked(T(o))))
  BY <1>2 DEF Verify, T
<1> HIDE DEF s
<1>4. /\ Stays(o) /\ op'[o].pc \in {"abort", "finish"}
      /\ op'[o].pc = "finish" => ~(op[o].paths /\ Marked(T(o)))
  BY <1>1, <1>3, GoLeaves
<1>5. /\ tree' \in [Dirs -> TreeType] /\ \A d \in Dirs \ {op[o].dir} : tree'[d] = tree[d]
      /\ T(o)'.mid = T(o).mid /\ T(o)'.how = T(o).how /\ T(o)'.from = T(o).from
      /\ T(o)'.conf = T(o).conf /\ T(o)'.dirty = T(o).dirty /\ T(o)'.exists = T(o).exists
      /\ T(o)'.staged = s
  BY <1>1, <1>2, <1>3, <1>4 DEF T, Stays, TreeType
<1>6. T(o).conf = "none" => s = T(o).staged
  BY <1>2 DEF s, T, TreeType
<1> QED BY <1>3, <1>4, <1>5, <1>6

(* An abort removes what it left, or is on record as failed, and ends the  *)
(* request.                                                                *)
LEMMA AbortLeaves ==
  ASSUME Types, NEW o \in Ops, Abort(o)
  PROVE  /\ Stays(o) /\ At(o, "abort") /\ op'[o].pc = "failed" /\ tip' = tip
         /\ tree' \in [Dirs -> TreeType]
         /\ \/ Cleaned(o, [tree EXCEPT ![op[o].dir] = Aborted(T(o), op[o].how)])
            \/ Cleaned(o, tree) /\ "abort" \in op'[o].broke
<1>1. op[o].dir \in Dirs /\ T(o) \in TreeType /\ op[o].how \in {"merge", "rebase"}
  BY DEF Types, Requests, T
<1> DEFINE trees == [tree EXCEPT ![op[o].dir] = Aborted(T(o), op[o].how)]
<1>2. trees \in [Dirs -> TreeType]
  BY <1>1, AbortedTypes DEF Types
<1>3. /\ At(o, "abort") /\ UNCHANGED <<tip, live, edits, overlapped>> /\ "failed" \in Pcs
      /\ \/ End(o, "failed", trees)
         \/ Leave(o, "failed", tree, op[o].broke \cup {"abort"})
  BY DEF Abort, Pcs, T
<1>4. CASE End(o, "failed", trees)
  <2> HIDE DEF trees
  <2>1. /\ Stays(o) /\ op'[o].pc = "failed" /\ tree' \in [Dirs -> TreeType]
        /\ Cleaned(o, trees)
    BY <1>2, <1>3, <1>4, EndLeaves
  <2> QED BY <1>3, <2>1 DEF trees
<1>5. CASE Leave(o, "failed", tree, op[o].broke \cup {"abort"})
  <2>1. op[o].broke \cup {"abort"} \in SUBSET {"abort", "remove"} /\ tree \in [Dirs -> TreeType]
    BY DEF Types, Requests
  <2>2. /\ Stays(o) /\ op'[o].pc = "failed" /\ tree' \in [Dirs -> TreeType]
        /\ Cleaned(o, tree) /\ op[o].broke \cup {"abort"} \subseteq op'[o].broke
    BY <1>3, <1>5, <2>1, LeaveLeaves
  <2> QED BY <1>3, <2>2
<1> QED BY <1>3, <1>4, <1>5

(* A merge is committed and done, or is not committed.                     *)
LEMMA FinishMergeLeaves ==
  ASSUME Types, NEW o \in Ops, FinishMerge(o)
  PROVE  /\ Stays(o) /\ At(o, "finish") /\ op[o].how = "merge" /\ tree' \in [Dirs -> TreeType]
         /\ \/ /\ op'[o].pc = "ok" /\ tip' = tip \cup Brought(T(o))
               /\ Cleaned(o, [tree EXCEPT ![op[o].dir] = Concluded(T(o))])
            \/ op'[o].pc = "abort" /\ UNCHANGED <<tip, tree>>
<1>1. op[o].dir \in Dirs /\ T(o) \in TreeType
  BY DEF Types, Requests, T
<1> DEFINE trees == [tree EXCEPT ![op[o].dir] = Concluded(T(o))]
<1>2. trees \in [Dirs -> TreeType]
  BY <1>1, ConcludedTypes DEF Types
<1>3. /\ At(o, "finish") /\ op[o].how = "merge" /\ {"ok", "abort"} \subseteq Pcs
      /\ UNCHANGED <<live, edits, overlapped>>
      /\ (tip' = tip \cup Brought(T(o)) /\ End(o, "ok", trees)) \/ CommitFails(o)
  BY DEF FinishMerge, Pcs, T
<1> HIDE DEF trees
<1>4. CASE tip' = tip \cup Brought(T(o)) /\ End(o, "ok", trees)
  <2>1. /\ Stays(o) /\ op'[o].pc = "ok" /\ tree' \in [Dirs -> TreeType]
        /\ Cleaned(o, trees)
    BY <1>2, <1>3, <1>4, EndLeaves
  <2> QED BY <1>3, <1>4, <2>1 DEF trees
<1>5. CASE CommitFails(o)
  BY <1>3, <1>5, GoLeaves DEF CommitFails, Types
<1> QED BY <1>3, <1>4, <1>5

(* A rebase goes on: it commits, or meets its next conflict, or cannot.    *)
LEMMA FinishRebaseLeaves ==
  ASSUME Types, NEW o \in Ops, FinishRebase(o)
  PROVE  /\ Stays(o) /\ At(o, "finish") /\ op[o].how = "rebase"
         /\ tree' \in [Dirs -> TreeType] /\ \A d \in Dirs \ {op[o].dir} : tree'[d] = tree[d]
         /\ \/ /\ op'[o].pc = "resolve"
               /\ tip' = tip \cup Brought(T(o)) /\ T(o)' = Concluded(T(o))
            \/ /\ op'[o].pc = "resolve"
               /\ tip' = tip /\ InRebase(T(o)) /\ T(o)'.conf = "conflict" /\ ~T(o)'.staged
               /\ T(o)'.mid = T(o).mid /\ T(o)'.how = T(o).how /\ T(o)'.from = T(o).from
               /\ T(o)'.dirty = T(o).dirty /\ T(o)'.exists = T(o).exists
            \/ op'[o].pc = "abort" /\ UNCHANGED <<tip, tree>>
<1>1. /\ At(o, "finish") /\ op[o].how = "rebase" /\ {"resolve", "abort"} \subseteq Pcs
      /\ UNCHANGED <<live, edits, overlapped>>
  BY DEF FinishRebase, Pcs
<1>2. op[o].dir \in Dirs /\ T(o) \in TreeType /\ tree \in [Dirs -> TreeType]
  BY DEF Types, Requests, T
<1>3. Go(o, "resolve") => Stays(o) /\ op'[o].pc = "resolve"
  BY <1>1, GoLeaves
<1>4. CASE /\ tip' = tip \cup Brought(T(o)) /\ Go(o, "resolve")
           /\ tree' = [tree EXCEPT ![op[o].dir] = Concluded(T(o))]
  BY <1>1, <1>2, <1>3, <1>4, ConcludedTypes DEF Stays, T
<1>5. CASE /\ InRebase(T(o)) /\ tip' = tip /\ Go(o, "resolve")
           /\ tree' = [tree EXCEPT ![op[o].dir].conf = "conflict", ![op[o].dir].staged = FALSE]
  BY <1>1, <1>2, <1>3, <1>5 DEF Stays, T, TreeType
<1>6. CASE CommitFails(o)
  BY <1>1, <1>2, <1>6, GoLeaves DEF CommitFails
<1> QED BY <1>4, <1>5, <1>6 DEF FinishRebase, T

(* A rebase that is no longer under way is done, or too long and aborted.  *)
LEMMA RebaseOverLeaves ==
  ASSUME Types, NEW o \in Ops, RebaseOver(o)
  PROVE  /\ Stays(o) /\ At(o, "resolve") /\ op[o].how = "rebase" /\ tip' = tip
         /\ \/ /\ op'[o].pc = "ok" /\ ~InRebase(T(o))
               /\ tree' \in [Dirs -> TreeType] /\ Cleaned(o, tree)
            \/ op'[o].pc = "abort" /\ tree' = tree
<1>1. /\ At(o, "resolve") /\ op[o].how = "rebase"
      /\ UNCHANGED <<tip, live, edits, overlapped>>
      /\ {"ok", "abort"} \subseteq Pcs /\ tree \in [Dirs -> TreeType]
  BY DEF RebaseOver, Pcs, Types
<1>2. CASE ~InRebase(T(o)) /\ End(o, "ok", tree)
  BY <1>1, <1>2, EndLeaves
<1>3. CASE Go(o, "abort") /\ tree' = tree
  BY <1>1, <1>3, GoLeaves
<1> QED BY <1>2, <1>3 DEF RebaseOver

-----------------------------------------------------------------------------
(* Every step keeps the types.                                             *)
LEMMA TypesStep ==
  ASSUME Types, Stages, [Next]_vars
  PROVE  Types'
<1> USE BoundsAssumption
<1>1. ASSUME NEW o \in Ops, NEW how \in {"merge", "rebase"},
             NEW level \in {"session", "workspace"},
             NEW src \in Sources, Begin(o, how, level, src)
       PROVE Types'
  BY <1>1, BeginLeaves DEF Types
<1>2. ASSUME NEW o \in Ops, Locate(o) PROVE Types'
  BY <1>2, LocateLeaves DEF Keeps, Types
<1>3. ASSUME NEW o \in Ops, CheckClean(o) PROVE Types'
  BY <1>3, CheckCleanLeaves DEF Stays, Keeps, Types
<1>4. ASSUME NEW o \in Ops, GitRefuses(o) PROVE Types'
  BY <1>4, GitRefusesLeaves DEF Stays, Keeps, Types
<1>5. ASSUME NEW o \in Ops, GitRuns(o) PROVE Types'
  <2>1. op[o].src \in Commits
    BY <1>5 DEF GitRuns, At, Stages, Commits
  <2> QED BY <1>5, <2>1, GitRunsLeaves DEF Stays, Keeps, Types
<1>6. ASSUME NEW o \in Ops, Failing(o) PROVE Types'
  BY <1>6, FailingLeaves DEF Stays, Keeps, Types
<1>7. ASSUME NEW o \in Ops, Resolve(o) PROVE Types'
  BY <1>7, ResolveLeaves DEF Keeps, Types
<1>8. ASSUME NEW o \in Ops, Agent(o) PROVE Types'
  BY <1>8, AgentLeaves DEF Stays, Keeps, Types
<1>9. ASSUME NEW o \in Ops, Verify(o) PROVE Types'
  BY <1>9, VerifyLeaves DEF Stays, Keeps, Types
<1>10. ASSUME NEW o \in Ops, Abort(o) PROVE Types'
  BY <1>10, AbortLeaves DEF Stays, Keeps, Types
<1>11. ASSUME NEW o \in Ops, FinishMerge(o) PROVE Types'
  <2>1. T(o) \in TreeType
    BY DEF T, Types, Requests
  <2> QED BY <1>11, <2>1, FinishMergeLeaves, BroughtTypes DEF Stays, Keeps, Types
<1>12. ASSUME NEW o \in Ops, FinishRebase(o) PROVE Types'
  <2>1. T(o) \in TreeType
    BY DEF T, Types, Requests
  <2> QED BY <1>12, <2>1, FinishRebaseLeaves, BroughtTypes DEF Stays, Keeps, Types
<1>13. ASSUME NEW o \in Ops, RebaseOver(o) PROVE Types'
  BY <1>13, RebaseOverLeaves DEF Stays, Keeps, Types
<1>14. ASSUME Edit PROVE Types'
  <2>1. Home \in Dirs /\ overlapped' \subseteq Ops
    BY <1>14 DEF Edit, Touch, Types, Dirs
  <2>2. tree' = [tree EXCEPT ![Home].dirty = TRUE] /\ edits' = edits + 1 /\ edits < MaxEdits
    BY <1>14 DEF Edit
  <2>3. tree' \in [Dirs -> TreeType]
    BY <2>1, <2>2, DirtyTypes DEF Types
  <2>4. edits' \in 0 .. MaxEdits
    BY <2>2 DEF Types
  <2> QED BY <1>14, <2>1, <2>3, <2>4 DEF Edit, Types
<1>15. ASSUME Commit PROVE Types'
  <2>1. Home \in Dirs /\ overlapped' \subseteq Ops
    BY <1>15 DEF Commit, Touch, Types, Dirs
  <2>2. tree' = [tree EXCEPT ![Home].dirty = FALSE] /\ tip' = tip \cup {"user"}
    BY <1>15 DEF Commit
  <2>3. tree' \in [Dirs -> TreeType]
    BY <2>1, <2>2, DirtyTypes DEF Types
  <2>4. tip' \subseteq Commits
    BY <2>2 DEF Types, Commits
  <2> QED BY <1>15, <2>1, <2>3, <2>4 DEF Commit, Types
<1>16. ASSUME StartOwn PROVE Types'
  <2>1. PICK how \in {"merge", "rebase"} :
          tree' = [tree EXCEPT ![Home] = [Clean EXCEPT !.mid = "user", !.how = how,
                                                       !.from = {"user"}, !.conf = "conflict"]]
    BY <1>16 DEF StartOwn
  <2>2. [Clean EXCEPT !.mid = "user", !.how = how, !.from = {"user"}, !.conf = "conflict"] \in TreeType
    BY TreeTypes DEF TreeType, Commits
  <2>3. /\ tip' = tip /\ op' = op /\ live' = live /\ edits' = edits + 1 /\ edits < MaxEdits
        /\ overlapped' \subseteq Ops
    BY <1>16 DEF StartOwn, Touch, Types
  <2>4. Home \in Dirs
    BY DEF Dirs
  <2>5. tree' \in [Dirs -> TreeType]
    BY <2>1, <2>2, <2>4 DEF Types
  <2>6. edits' \in 0 .. MaxEdits
    BY <2>3 DEF Types
  <2> QED BY <2>3, <2>5, <2>6 DEF Types
<1>17. ASSUME FinishOwn PROVE Types'
  <2>1. Home \in Dirs /\ Concluded(tree[Home]) \in TreeType
    BY ConcludedTypes DEF Dirs, Types
  <2> QED BY <1>17, <2>1 DEF FinishOwn, Touch, Types, Commits
<1>18. ASSUME Session PROVE Types'
  BY <1>18 DEF Session, Types
<1>19. CASE UNCHANGED vars
  BY <1>19 DEF vars, Types
<1>20. ASSUME NEW o \in Ops, AgentCommits(o) PROVE Types'
  <2>1. T(o) \in TreeType
    BY DEF T, Types, Requests
  <2> QED BY <1>20, <2>1, AgentCommitsLeaves, BroughtTypes DEF Stays, Keeps, Types
<1>21. ASSUME NEW o \in Ops, AgentAborts(o) PROVE Types'
  BY <1>21, AgentAbortsLeaves DEF Stays, Keeps, Types
<1> QED BY <1>1, <1>2, <1>3, <1>4, <1>5, <1>6, <1>7, <1>8, <1>9, <1>10, <1>11, <1>12, <1>13,
           <1>14, <1>15, <1>16, <1>17, <1>18, <1>19, <1>20, <1>21
        DEF Next, Merge, Rebase, Common

(* No step resolves a merge twice, or calls the agent for a session.       *)
LEMMA StagesStep ==
  ASSUME Types, Stages, [Next]_vars
  PROVE  Stages'
<1> USE BoundsAssumption
<1>1. ASSUME NEW o \in Ops, NEW how \in {"merge", "rebase"},
             NEW level \in {"session", "workspace"},
             NEW src \in Sources, Begin(o, how, level, src)
       PROVE Stages'
  BY <1>1, BeginLeaves DEF At, Stages
<1>2. ASSUME NEW o \in Ops, Locate(o) PROVE Stages'
  BY <1>2, LocateLeaves DEF Keeps, At, Stages
<1>3. ASSUME NEW o \in Ops, CheckClean(o) PROVE Stages'
  BY <1>3, CheckCleanLeaves DEF Stays, Keeps, At, Stages
<1>4. ASSUME NEW o \in Ops, GitRefuses(o) PROVE Stages'
  BY <1>4, GitRefusesLeaves DEF Stays, Keeps, At, Stages
<1>5. ASSUME NEW o \in Ops, GitRuns(o) PROVE Stages'
  BY <1>5, GitRunsLeaves DEF Stays, Keeps, At, Stages
<1>6. ASSUME NEW o \in Ops, Failing(o) PROVE Stages'
  BY <1>6, FailingLeaves DEF Stays, Keeps, At, Stages
<1>7. ASSUME NEW o \in Ops, Resolve(o) PROVE Stages'
  BY <1>7, ResolveLeaves DEF Keeps, At, Stages
<1>8. ASSUME NEW o \in Ops, Agent(o) PROVE Stages'
  BY <1>8, AgentLeaves DEF Stays, Keeps, At, Stages
<1>9. ASSUME NEW o \in Ops, Verify(o) PROVE Stages'
  BY <1>9, VerifyLeaves DEF Stays, Keeps, At, Stages
<1>10. ASSUME NEW o \in Ops, Abort(o) PROVE Stages'
  <2>1. Keeps(o) /\ op'[o].pc = "failed" /\ At(o, "abort")
    BY <1>10, AbortLeaves DEF Stays
  <2> QED BY <2>1 DEF Keeps, At, Stages
<1>11. ASSUME NEW o \in Ops, FinishMerge(o) PROVE Stages'
  <2>1. Keeps(o) /\ op'[o].pc \in {"ok", "abort"} /\ At(o, "finish")
    BY <1>11, FinishMergeLeaves DEF Stays
  <2> QED BY <2>1 DEF Keeps, At, Stages
<1>12. ASSUME NEW o \in Ops, FinishRebase(o) PROVE Stages'
  BY <1>12, FinishRebaseLeaves DEF Stays, Keeps, At, Stages
<1>13. ASSUME NEW o \in Ops, RebaseOver(o) PROVE Stages'
  BY <1>13, RebaseOverLeaves DEF Stays, Keeps, At, Stages
<1>14. ASSUME Edit PROVE Stages'
  BY <1>14 DEF Edit, Stages
<1>15. ASSUME Commit PROVE Stages'
  BY <1>15 DEF Commit, Stages
<1>16. ASSUME StartOwn PROVE Stages'
  BY <1>16 DEF StartOwn, Stages
<1>17. ASSUME FinishOwn PROVE Stages'
  BY <1>17 DEF FinishOwn, Stages
<1>18. ASSUME Session PROVE Stages'
  BY <1>18 DEF Session, Stages
<1>19. CASE UNCHANGED vars
  BY <1>19 DEF vars, Stages
<1>20. ASSUME NEW o \in Ops, AgentCommits(o) PROVE Stages'
  BY <1>20, AgentCommitsLeaves DEF Stays, Keeps, At, Stages
<1>21. ASSUME NEW o \in Ops, AgentAborts(o) PROVE Stages'
  BY <1>21, AgentAbortsLeaves DEF Stays, Keeps, At, Stages
<1> QED BY <1>1, <1>2, <1>3, <1>4, <1>5, <1>6, <1>7, <1>8, <1>9, <1>10, <1>11, <1>12, <1>13,
           <1>14, <1>15, <1>16, <1>17, <1>18, <1>19, <1>20, <1>21
        DEF Next, Merge, Rebase, Common

(* Every step records who disturbs whom.                                   *)
LEMMA CrowdedStep ==
  ASSUME Types, Stages, Crowded, [Next]_vars
  PROVE  Crowded'
<1> USE BoundsAssumption
<1>1. ASSUME NEW o \in Ops, NEW how \in {"merge", "rebase"},
             NEW level \in {"session", "workspace"},
             NEW src \in Sources, Begin(o, how, level, src)
       PROVE Crowded'
  BY <1>1, BeginLeaves DEF At, Active, Crowded
<1>2. ASSUME NEW o \in Ops, Locate(o) PROVE Crowded'
  BY <1>2, LocateLeaves DEF Keeps, At, Active, Crowded
<1>3. ASSUME NEW o \in Ops, CheckClean(o) PROVE Crowded'
  BY <1>3, CheckCleanLeaves DEF Stays, Keeps, At, Active, Crowded
<1>4. ASSUME NEW o \in Ops, GitRefuses(o) PROVE Crowded'
  BY <1>4, GitRefusesLeaves DEF Stays, Keeps, At, Active, Crowded
<1>5. ASSUME NEW o \in Ops, GitRuns(o) PROVE Crowded'
  <2>1. /\ \A p \in Ops \ {o} : op'[p] = op[p]
        /\ Active(o) /\ overlapped' = overlapped
    BY <1>5, GitRunsLeaves DEF Stays, Keeps, At, Active
  <2> QED BY <2>1 DEF Active, Crowded
<1>6. ASSUME NEW o \in Ops, Failing(o) PROVE Crowded'
  BY <1>6, FailingLeaves DEF Stays, Keeps, At, Active, Crowded
<1>7. ASSUME NEW o \in Ops, Resolve(o) PROVE Crowded'
  <2>1. /\ \A p \in Ops \ {o} : op'[p] = op[p]
        /\ Active(o) /\ overlapped' = overlapped
    BY <1>7, ResolveLeaves DEF Stays, Keeps, At, Active
  <2> QED BY <2>1 DEF Active, Crowded
<1>8. ASSUME NEW o \in Ops, Agent(o) PROVE Crowded'
  BY <1>8, AgentLeaves DEF Stays, Keeps, At, Active, Crowded
<1>9. ASSUME NEW o \in Ops, Verify(o) PROVE Crowded'
  BY <1>9, VerifyLeaves DEF Stays, Keeps, At, Active, Crowded
<1>10. ASSUME NEW o \in Ops, Abort(o) PROVE Crowded'
  BY <1>10, AbortLeaves DEF Stays, Keeps, Active, Crowded
<1>11. ASSUME NEW o \in Ops, FinishMerge(o) PROVE Crowded'
  <2>1. Keeps(o) /\ Active(o)
    BY <1>11, FinishMergeLeaves DEF Stays, At, Active
  <2> QED BY <2>1 DEF Keeps, Active, Crowded
<1>12. ASSUME NEW o \in Ops, FinishRebase(o) PROVE Crowded'
  BY <1>12, FinishRebaseLeaves DEF Stays, Keeps, At, Active, Crowded
<1>13. ASSUME NEW o \in Ops, RebaseOver(o) PROVE Crowded'
  BY <1>13, RebaseOverLeaves DEF Stays, Keeps, At, Active, Crowded
<1>14. ASSUME Edit PROVE Crowded'
  BY <1>14 DEF Edit, Active, Crowded, Touch
<1>15. ASSUME Commit PROVE Crowded'
  BY <1>15 DEF Commit, Active, Crowded, Touch
<1>16. ASSUME StartOwn PROVE Crowded'
  BY <1>16 DEF StartOwn, Active, Crowded, Touch
<1>17. ASSUME FinishOwn PROVE Crowded'
  BY <1>17 DEF FinishOwn, Active, Crowded, Touch
<1>18. ASSUME Session PROVE Crowded'
  BY <1>18 DEF Session, Active, Crowded
<1>19. CASE UNCHANGED vars
  BY <1>19 DEF vars, Crowded, Active
<1>20. ASSUME NEW o \in Ops, AgentCommits(o) PROVE Crowded'
  BY <1>20, AgentCommitsLeaves DEF Stays, Keeps, At, Active, Crowded
<1>21. ASSUME NEW o \in Ops, AgentAborts(o) PROVE Crowded'
  BY <1>21, AgentAbortsLeaves DEF Stays, Keeps, At, Active, Crowded
<1> QED BY <1>1, <1>2, <1>3, <1>4, <1>5, <1>6, <1>7, <1>8, <1>9, <1>10, <1>11, <1>12, <1>13,
           <1>14, <1>15, <1>16, <1>17, <1>18, <1>19, <1>20, <1>21
        DEF Next, Merge, Rebase, Common

(* A step changes a worktree by ending what is paused there, or by pausing *)
(* the request's own operation.                                            *)
Alters(o, d) ==
  /\ Sane(tree'[d]) /\ (tree'[d].exists => tree[d].exists)
  /\ \/ tree'[d].mid = tree[d].mid /\ tree'[d].how = tree[d].how
     \/ tree'[d].mid = Nobody
     \/ d = op[o].dir /\ tree'[d].mid = o /\ tree'[d].how = op[o].how

(* The request has ended although its operation could not be aborted.      *)
Quits(o) == op'[o].pc = "failed" /\ "abort" \in op'[o].broke

(* Its temporary worktree is gone, or could not be removed.                *)
Removed(o) == ~tree'[o].exists \/ "remove" \in op'[o].broke

(* Such a step keeps the traces, if it leaves none when it ends the        *)
(* request.                                                                *)
LEMMA TracesKept ==
  ASSUME Types, Traces, NEW o \in Ops, Stays(o) \/ (Keeps(o) /\ op'[o].dir = op[o].dir),
         Active(o), op[o].pc # "locate", op'[o].pc \in Pcs \ {"idle", "locate"},
         \A d \in Dirs : Alters(o, d),
         op'[o].pc \in Working \/ Quits(o) \/ \A d \in Dirs : tree'[d].mid # o,
         Active(o)' \/ Removed(o)
  PROVE  Traces'
<1> USE BoundsAssumption
<1>1. \A p \in Ops : /\ p \in Dirs /\ p # Nobody /\ p # "user"
  BY DEF Dirs, Nobody
<1>2. /\ op' \in [Ops -> Requests] /\ \A p \in Ops \ {o} : op'[p] = op[p]
      /\ op'[o].how = op[o].how /\ op'[o].dir = op[o].dir
  BY DEF Stays, Keeps
<1>3. \A d \in Dirs : Sane(tree'[d])
  BY DEF Alters
<1>4. ASSUME NEW p \in Ops, NEW d \in Dirs, tree'[d].mid = p
      PROVE  /\ op'[p].dir = d /\ op'[p].how = tree'[d].how
             /\ op'[p].pc \in Working \/ (op'[p].pc = "failed" /\ "abort" \in op'[p].broke)
  <2>1. CASE p = o
    BY <1>1, <1>2, <1>4, <2>1 DEF Alters, Traces, Quits
  <2>2. CASE p # o
    BY <1>1, <1>2, <1>4, <2>2 DEF Alters, Traces, Working
  <2> QED BY <2>1, <2>2
<1>5. ASSUME NEW p \in Ops
      PROVE  /\ tree'[p].mid # "user"
             /\ tree'[p].exists => /\ op'[p].dir = p /\ op'[p].pc \notin {"idle", "locate"}
                                   /\ Active(p)' \/ "remove" \in op'[p].broke
  <2>1. /\ tree'[p].mid # "user" /\ (tree'[p].exists => tree[p].exists)
    BY <1>1, <1>5 DEF Alters, Traces, Nobody
  <2>2. CASE p = o
    BY <1>2, <2>1, <2>2 DEF Traces, Removed
  <2>3. CASE p # o
    BY <1>2, <2>1, <2>3 DEF Traces, Active
  <2> QED BY <2>1, <2>2, <2>3
<1>6. (\A p \in Ops, d \in Dirs : tree[d].mid = p =>
          /\ op[p].dir = d /\ op[p].how = tree[d].how
          /\ op[p].pc \in Working \/ (op[p].pc = "failed" /\ "abort" \in op[p].broke))'
  BY <1>4
<1>7. (\A p \in Ops :
          /\ tree[p].mid # "user"
          /\ tree[p].exists => /\ op[p].dir = p /\ op[p].pc \notin {"idle", "locate"}
                               /\ Active(p) \/ "remove" \in op[p].broke)'
  BY <1>5
<1> QED BY <1>3, <1>6, <1>7 DEF Traces

(* Every step does.                                                        *)
LEMMA TracesStep ==
  ASSUME Types, Stages, Traces, [Next]_vars
  PROVE  Traces'
<1> USE BoundsAssumption
<1>1. ASSUME NEW o \in Ops, NEW how \in {"merge", "rebase"},
             NEW level \in {"session", "workspace"},
             NEW src \in Sources, Begin(o, how, level, src)
       PROVE Traces'
  BY <1>1, BeginLeaves DEF Working, Traces, Active
<1>2. ASSUME NEW o \in Ops, Locate(o) PROVE Traces'
  <2>1. /\ Keeps(o) /\ At(o, "locate") /\ \A d \in Dirs : tree[d].mid # o
        /\ ~tree[o].exists
    BY <1>2, LocateLeaves DEF Working, Traces, At
  <2>2. CASE tree' = tree
    BY <1>2, <2>1, <2>2 DEF Keeps, Traces, Active
  <2>3. CASE tree' # tree
    <3>1. /\ op'[o].pc = "check" /\ op'[o].dir = o /\ tree'[o] = Clean
          /\ \A d \in Dirs \ {o} : tree'[d] = tree[d]
      BY <1>2, <2>3, LocateLeaves
    <3> QED BY <2>1, <3>1, TreeTypes DEF Keeps, Dirs, Sane, Traces, Active
  <2> QED BY <2>2, <2>3
<1>3. ASSUME NEW o \in Ops, CheckClean(o) PROVE Traces'
  <2>1. /\ Stays(o) /\ At(o, "check")
        /\ \/ op'[o].pc = "git" /\ tree' = tree
           \/ op'[o].pc = "failed" /\ Cleaned(o, tree)
    BY <1>3, CheckCleanLeaves DEF Stays
  <2>2. \A d \in Dirs : Alters(o, d)
    BY <2>1, TreeTypes DEF Alters, Sane, Traces, Cleaned
  <2>3. Active(o) /\ op[o].pc # "locate" /\ op'[o].pc \in Pcs \ {"idle", "locate"}
    BY <2>1 DEF Active, Pcs, At
  <2>4. op'[o].pc \in Working \/ Quits(o) \/ \A d \in Dirs : tree'[d].mid # o
    BY <2>1, TreeTypes DEF Working, Traces, At, Nobody, Cleaned
  <2>5. Active(o)' \/ Removed(o)
    BY <2>1, TreeTypes DEF Removed, Active, Traces, Dirs, Cleaned
  <2> QED BY <2>1, <2>2, <2>3, <2>4, <2>5, TracesKept
<1>4. ASSUME NEW o \in Ops, GitRefuses(o) PROVE Traces'
  <2>1. Stays(o) /\ At(o, "git") /\ op'[o].pc = "failing" /\ tree' = tree
    BY <1>4, GitRefusesLeaves DEF Stays
  <2>2. \A d \in Dirs : Alters(o, d)
    BY <2>1, TreeTypes DEF Alters, Traces
  <2>3. Active(o) /\ op[o].pc # "locate" /\ op'[o].pc \in Pcs \ {"idle", "locate"}
    BY <2>1 DEF Active, Pcs, At
  <2>4. op'[o].pc \in Working \/ Quits(o) \/ \A d \in Dirs : tree'[d].mid # o
    BY <2>1, TreeTypes DEF Working, Traces, At
  <2>5. Active(o)' \/ Removed(o)
    BY <2>1, TreeTypes DEF Active
  <2> QED BY <2>1, <2>2, <2>3, <2>4, <2>5, TracesKept
<1>5. ASSUME NEW o \in Ops, GitRuns(o) PROVE Traces'
  <2>1. /\ Stays(o) /\ At(o, "git") /\ T(o).exists /\ op'[o].dir = op[o].dir
        /\ \/ op'[o].pc = "ok" /\ Cleaned(o, tree)
           \/ /\ op'[o].pc = "failing"
              /\ \A d \in Dirs \ {op[o].dir} : tree'[d] = tree[d]
              /\ T(o)'.mid = o /\ T(o)'.how = op[o].how /\ T(o)'.exists
              /\ T(o)'.conf = "conflict" 
    BY <1>5, GitRunsLeaves DEF Stays
  <2>2. \A d \in Dirs : Alters(o, d)
    BY <2>1, TreeTypes DEF Alters, Sane, Traces, Cleaned, T
  <2>3. Active(o) /\ op[o].pc # "locate" /\ op'[o].pc \in Pcs \ {"idle", "locate"}
    BY <2>1 DEF Active, Pcs, At
  <2>4. op'[o].pc \in Working \/ Quits(o) \/ \A d \in Dirs : tree'[d].mid # o
    BY <2>1, TreeTypes DEF Working, Traces, At, Nobody, Cleaned
  <2>5. Active(o)' \/ Removed(o)
    BY <2>1, TreeTypes DEF Removed, Active, Traces, Dirs, Cleaned
  <2> QED BY <2>1, <2>2, <2>3, <2>4, <2>5, TracesKept
<1>6. ASSUME NEW o \in Ops, Failing(o) PROVE Traces'
  <2>1. Stays(o) /\ At(o, "failing") /\ op'[o].pc \in {"resolve", "abort"} /\ tree' = tree
    BY <1>6, FailingLeaves DEF Stays
  <2>2. \A d \in Dirs : Alters(o, d)
    BY <2>1, TreeTypes DEF Alters, Traces
  <2>3. Active(o) /\ op[o].pc # "locate" /\ op'[o].pc \in Pcs \ {"idle", "locate"}
    BY <2>1 DEF Active, Pcs, At
  <2>4. op'[o].pc \in Working \/ Quits(o) \/ \A d \in Dirs : tree'[d].mid # o
    BY <2>1, TreeTypes DEF Working
  <2>5. Active(o)' \/ Removed(o)
    BY <2>1, TreeTypes DEF Active
  <2> QED BY <2>1, <2>2, <2>3, <2>4, <2>5, TracesKept
<1>7. ASSUME NEW o \in Ops, Resolve(o) PROVE Traces'
  <2>1. /\ Keeps(o) /\ op'[o].dir = op[o].dir
        /\ At(o, "resolve") /\ op'[o].pc \in {"agent", "abort"} /\ tree' = tree
    BY <1>7, ResolveLeaves DEF Stays
  <2>2. \A d \in Dirs : Alters(o, d)
    BY <2>1, TreeTypes DEF Alters, Traces
  <2>3. Active(o) /\ op[o].pc # "locate" /\ op'[o].pc \in Pcs \ {"idle", "locate"}
    BY <2>1 DEF Active, Pcs, At
  <2>4. op'[o].pc \in Working \/ Quits(o) \/ \A d \in Dirs : tree'[d].mid # o
    BY <2>1, TreeTypes DEF Working
  <2>5. Active(o)' \/ Removed(o)
    BY <2>1, TreeTypes DEF Active
  <2> QED BY <2>1, <2>2, <2>3, <2>4, <2>5, TracesKept
<1>8. ASSUME NEW o \in Ops, Agent(o) PROVE Traces'
  <2>1. /\ Stays(o) /\ At(o, "agent") /\ op'[o].pc \in {"agent", "verify"} /\ op'[o].dir = op[o].dir
        /\ \A d \in Dirs \ {op[o].dir} : tree'[d] = tree[d]
        /\ T(o)'.mid = T(o).mid /\ T(o)'.how = T(o).how /\ T(o)'.exists = T(o).exists
        /\ (T(o).conf = "none" => T(o)'.conf = "none" /\ T(o)'.staged = T(o).staged)
        /\ (T(o).conf # "none" => T(o)'.conf # "none")
    BY <1>8, AgentLeaves DEF Stays
  <2>2. \A d \in Dirs : Alters(o, d)
    BY <2>1, TreeTypes DEF Alters, Sane, Traces, T
  <2>3. Active(o) /\ op[o].pc # "locate" /\ op'[o].pc \in Pcs \ {"idle", "locate"}
    BY <2>1 DEF Active, Pcs, At
  <2>4. op'[o].pc \in Working \/ Quits(o) \/ \A d \in Dirs : tree'[d].mid # o
    BY <2>1, TreeTypes DEF Working
  <2>5. Active(o)' \/ Removed(o)
    BY <2>1, TreeTypes DEF Active
  <2> QED BY <2>1, <2>2, <2>3, <2>4, <2>5, TracesKept
<1>9. ASSUME NEW o \in Ops, Verify(o) PROVE Traces'
  <2>1. /\ Stays(o) /\ At(o, "verify") /\ op'[o].pc \in {"abort", "finish"}
        /\ op'[o].dir = op[o].dir
        /\ \A d \in Dirs \ {op[o].dir} : tree'[d] = tree[d]
        /\ T(o)'.mid = T(o).mid /\ T(o)'.how = T(o).how /\ T(o)'.exists = T(o).exists
        /\ (T(o).conf = "none" => T(o)'.conf = "none" /\ T(o)'.staged = T(o).staged)
        /\ (T(o).conf # "none" => T(o)'.conf # "none")
    BY <1>9, VerifyLeaves DEF Stays
  <2>2. \A d \in Dirs : Alters(o, d)
    BY <2>1, TreeTypes DEF Alters, Sane, Traces, T
  <2>3. Active(o) /\ op[o].pc # "locate" /\ op'[o].pc \in Pcs \ {"idle", "locate"}
    BY <2>1 DEF Active, Pcs, At
  <2>4. op'[o].pc \in Working \/ Quits(o) \/ \A d \in Dirs : tree'[d].mid # o
    BY <2>1, TreeTypes DEF Working
  <2>5. Active(o)' \/ Removed(o)
    BY <2>1, TreeTypes DEF Active
  <2> QED BY <2>1, <2>2, <2>3, <2>4, <2>5, TracesKept
<1>10. ASSUME NEW o \in Ops, Abort(o) PROVE Traces'
  <2>1. /\ Stays(o) /\ At(o, "abort") /\ op'[o].pc = "failed"
        /\ \/ Cleaned(o, [tree EXCEPT ![op[o].dir] = Aborted(T(o), op[o].how)])
           \/ Cleaned(o, tree) /\ "abort" \in op'[o].broke
    BY <1>10, AbortLeaves DEF Stays
  <2>2. /\ T(o) \in TreeType
        /\ op[o].dir \in Dirs
        /\ op[o].how \in {"merge", "rebase"}
        /\ tree \in [Dirs -> TreeType]
    BY DEF T, Types, Requests
  <2>3. \/ Aborted(T(o), op[o].how) = T(o) /\ (T(o).mid = Nobody \/ T(o).how # op[o].how)
        \/ T(o).mid # Nobody /\ Aborted(T(o), op[o].how).mid = Nobody /\ Aborted(T(o), op[o].how).exists
           /\ Sane(Aborted(T(o), op[o].how))
    BY <2>2, AbortedTypes
  <2>4. ASSUME Cleaned(o, [tree EXCEPT ![op[o].dir] = Aborted(T(o), op[o].how)])
        PROVE  \A d \in Dirs : Alters(o, d) /\ tree'[d].mid # o
    <3>1. \A d \in Dirs : Alters(o, d)
      BY <2>2, <2>3, <2>4, TreeTypes DEF Alters, Sane, Traces, Cleaned, T
    <3>2. \A d \in Dirs : tree'[d].mid # o
      BY <2>2, <2>3, <2>4, TreeTypes DEF Traces, Nobody, Cleaned, T
    <3> QED BY <3>1, <3>2
  <2>5. ASSUME Cleaned(o, tree)
        PROVE  \A d \in Dirs : Alters(o, d)
    BY <2>5, TreeTypes DEF Alters, Sane, Traces, Cleaned
  <2>6. /\ \A d \in Dirs : Alters(o, d)
        /\ Quits(o) \/ \A d \in Dirs : tree'[d].mid # o
    BY <2>1, <2>4, <2>5 DEF Quits
  <2>7. Active(o) /\ op[o].pc # "locate" /\ op'[o].pc \in Pcs \ {"idle", "locate"}
    BY <2>1 DEF Active, Pcs, At
  <2>8. Removed(o)
    BY <2>1, <2>2, TreeTypes DEF Removed, Traces, Dirs, Cleaned
  <2> QED BY <2>1, <2>6, <2>7, <2>8, TracesKept
<1>11. ASSUME NEW o \in Ops, FinishMerge(o) PROVE Traces'
  <2>1. /\ Stays(o) /\ At(o, "finish")
        /\ \/ op'[o].pc = "ok" /\ Cleaned(o, [tree EXCEPT ![op[o].dir] = Concluded(T(o))])
           \/ op'[o].pc = "abort" /\ tree' = tree
    BY <1>11, FinishMergeLeaves DEF Stays
  <2>2. /\ T(o) \in TreeType
        /\ op[o].dir \in Dirs
        /\ op[o].how \in {"merge", "rebase"}
        /\ tree \in [Dirs -> TreeType]
    BY DEF T, Types, Requests
  <2>3. /\ Concluded(T(o)).mid = Nobody /\ (T(o).mid = Nobody => Concluded(T(o)) = T(o))
        /\ T(o).mid # Nobody => T(o).exists /\ Concluded(T(o)).exists
        /\ Sane(Concluded(T(o)))
    BY <2>2, ConcludedTypes DEF Traces, T, Sane
  <2>4. \A d \in Dirs : Alters(o, d)
    BY <2>1, <2>2, <2>3, TreeTypes DEF Alters, Sane, Traces, Cleaned, T
  <2>5. Active(o) /\ op[o].pc # "locate" /\ op'[o].pc \in Pcs \ {"idle", "locate"}
    BY <2>1 DEF Active, Pcs, At
  <2>6. op'[o].pc \in Working \/ Quits(o) \/ \A d \in Dirs : tree'[d].mid # o
    BY <2>1, <2>2, <2>3, TreeTypes DEF Working, Traces, Nobody, Cleaned
  <2>7. Active(o)' \/ Removed(o)
    BY <2>1, <2>2, <2>3, TreeTypes DEF Removed, Active, Traces, Dirs, Cleaned
  <2> QED BY <2>1, <2>4, <2>5, <2>6, <2>7, TracesKept
<1>12. ASSUME NEW o \in Ops, FinishRebase(o) PROVE Traces'
  <2>1. /\ Stays(o) /\ At(o, "finish") /\ op'[o].pc \in {"resolve", "abort"}
        /\ op'[o].dir = op[o].dir
        /\ \A d \in Dirs \ {op[o].dir} : tree'[d] = tree[d]
        /\ \/ T(o)' = Concluded(T(o))
           \/ T(o)' = T(o)
           \/ /\ T(o)'.mid = T(o).mid /\ T(o)'.how = T(o).how /\ T(o)'.exists = T(o).exists
              /\ T(o)'.conf = "conflict" 
    BY <1>12, FinishRebaseLeaves DEF Stays, T
  <2>2. /\ T(o) \in TreeType
        /\ op[o].dir \in Dirs
        /\ op[o].how \in {"merge", "rebase"}
        /\ tree \in [Dirs -> TreeType]
    BY DEF T, Types, Requests
  <2>3. /\ Concluded(T(o)).mid = Nobody /\ (T(o).mid = Nobody => Concluded(T(o)) = T(o))
        /\ T(o).mid # Nobody => T(o).exists /\ Concluded(T(o)).exists
        /\ Sane(Concluded(T(o)))
    BY <2>2, ConcludedTypes DEF Traces, T, Sane
  <2>4. \A d \in Dirs : Alters(o, d)
    BY <2>1, <2>2, <2>3, TreeTypes DEF Alters, Sane, Traces, T
  <2>5. Active(o) /\ op[o].pc # "locate" /\ op'[o].pc \in Pcs \ {"idle", "locate"}
    BY <2>1 DEF Active, Pcs, At
  <2>6. op'[o].pc \in Working \/ Quits(o) \/ \A d \in Dirs : tree'[d].mid # o
    BY <2>1, <2>2, <2>3, TreeTypes DEF Working
  <2>7. Active(o)' \/ Removed(o)
    BY <2>1, <2>2, <2>3, TreeTypes DEF Active
  <2> QED BY <2>1, <2>4, <2>5, <2>6, <2>7, TracesKept
<1>13. ASSUME NEW o \in Ops, RebaseOver(o) PROVE Traces'
  <2>1. /\ Stays(o) /\ At(o, "resolve") /\ op[o].how = "rebase"
        /\ \/ op'[o].pc = "ok" /\ ~InRebase(T(o)) /\ Cleaned(o, tree)
           \/ op'[o].pc = "abort" /\ tree' = tree
    BY <1>13, RebaseOverLeaves DEF Stays
  <2>2. \A d \in Dirs : Alters(o, d)
    BY <2>1, TreeTypes DEF Alters, Sane, Traces, Cleaned
  <2>3. Active(o) /\ op[o].pc # "locate" /\ op'[o].pc \in Pcs \ {"idle", "locate"}
    BY <2>1 DEF Active, Pcs, At
  <2>4. op'[o].pc \in Working \/ Quits(o) \/ \A d \in Dirs : tree'[d].mid # o
    BY <2>1, TreeTypes DEF Working, Traces, Nobody, Cleaned, T, InRebase
  <2>5. Active(o)' \/ Removed(o)
    BY <2>1, TreeTypes DEF Removed, Active, Traces, Dirs, Cleaned
  <2> QED BY <2>1, <2>2, <2>3, <2>4, <2>5, TracesKept
<1>14. ASSUME Edit PROVE Traces'
  BY <1>14 DEF Edit, Sane, Traces, Active
<1>15. ASSUME Commit PROVE Traces'
  BY <1>15 DEF Commit, Sane, Traces, Active
<1>16. ASSUME StartOwn PROVE Traces'
  BY <1>16, TreeTypes, ConcludedTypes DEF StartOwn, Home, Sane, Traces, Active
<1>17. ASSUME FinishOwn PROVE Traces'
  BY <1>17, TreeTypes, ConcludedTypes DEF FinishOwn, Types, Nobody, Traces, Active
<1>18. ASSUME Session PROVE Traces'
  BY <1>18 DEF Session, Traces, Active
<1>19. CASE UNCHANGED vars
  BY <1>19 DEF vars, Traces, Active
<1>20. ASSUME NEW o \in Ops, AgentCommits(o) PROVE Traces'
  <2>1. /\ Stays(o) /\ At(o, "agent") /\ op'[o].pc = "agent" /\ op'[o].dir = op[o].dir
        /\ \A d \in Dirs \ {op[o].dir} : tree'[d] = tree[d]
        /\ T(o).mid # Nobody
        /\ \/ T(o)' = Concluded(T(o))
           \/ /\ T(o)'.mid = T(o).mid /\ T(o)'.how = T(o).how /\ T(o)'.exists = T(o).exists
              /\ T(o)'.conf = "conflict"
    BY <1>20, AgentCommitsLeaves DEF Stays
  <2>2. T(o) \in TreeType /\ op[o].dir \in Dirs
    BY DEF T, Types, Requests
  <2>3. Concluded(T(o)).mid = Nobody /\ T(o).exists /\ Sane(Concluded(T(o)))
    BY <2>1, <2>2, ConcludedTypes DEF Traces, T, Sane
  <2>4. Alters(o, op[o].dir)
    BY <2>1, <2>2, <2>3 DEF Alters, Sane, T
  <2>5. \A d \in Dirs \ {op[o].dir} : Alters(o, d)
    BY <2>1 DEF Alters, Traces
  <2>6. Active(o) /\ op[o].pc # "locate" /\ op'[o].pc \in (Pcs \ {"idle", "locate"}) \cap Working
    BY <2>1 DEF Active, Pcs, At, Working
  <2>7. Active(o)'
    BY <2>1 DEF Active
  <2> QED BY <2>1, <2>4, <2>5, <2>6, <2>7, TracesKept
<1>21. ASSUME NEW o \in Ops, AgentAborts(o) PROVE Traces'
  <2>1. /\ Stays(o) /\ At(o, "agent") /\ op'[o].pc = "agent" /\ op'[o].dir = op[o].dir
        /\ \A d \in Dirs \ {op[o].dir} : tree'[d] = tree[d]
        /\ T(o).mid # Nobody /\ T(o)'.mid = Nobody /\ Sane(T(o)')
    BY <1>21, AgentAbortsLeaves DEF Stays
  <2>2. op[o].dir \in Dirs /\ T(o).exists
    BY <2>1 DEF T, Types, Requests, Traces, Sane
  <2>3. \A d \in Dirs : Alters(o, d)
    BY <2>1, <2>2 DEF Alters, Traces, T
  <2> QED BY <2>1, <2>3, TracesKept DEF Active, Pcs, At, Working
<1> QED BY <1>1, <1>2, <1>3, <1>4, <1>5, <1>6, <1>7, <1>8, <1>9, <1>10, <1>11, <1>12, <1>13,
           <1>14, <1>15, <1>16, <1>17, <1>18, <1>19, <1>20, <1>21
        DEF Next, Merge, Rebase, Common

-----------------------------------------------------------------------------
(* A request that is not at work finds what it left, whatever another      *)
(* does.                                                                   *)
LEMMA Bystander ==
  ASSUME Types', Traces', NEW p \in Ops, op'[p] = op[p], ~Active(p), Sound(p), tip \subseteq tip'
  PROVE  Sound(p)'
<1>1. op[p].pc \in {"idle", "ok", "failed"}
  BY DEF Active
<1> QED BY <1>1 DEF Sound, At, Working

(* So a step of one request keeps what the others, if any was disturbed by *)
(* none, find.                                                             *)
LEMMA OthersSound ==
  ASSUME Types', Traces', Crowded, Undisturbed, NEW o \in Ops, Keeps(o), Active(o),
         tip \subseteq tip', o \notin overlapped => Sound(o)'
  PROVE  Undisturbed'
<1>1. overlapped' = overlapped /\ \A p \in Ops \ {o} : op'[p] = op[p]
  BY DEF Keeps
<1>2. ASSUME NEW p \in Ops \ overlapped, p # o PROVE Sound(p)'
  <2>1. ~Active(p)
    BY <1>2 DEF Crowded
  <2>2. Sound(p)
    BY DEF Undisturbed
  <2> QED BY <1>1, <1>2, <2>1, <2>2, Bystander
<1> QED BY <1>1, <1>2 DEF Undisturbed

(* Every step keeps what a request that nobody disturbed finds.            *)
LEMMA UndisturbedStep ==
  ASSUME Types, Stages, Traces, Crowded, Undisturbed, Types', Traces', [Next]_vars
  PROVE  Undisturbed'
<1> USE BoundsAssumption
<1>1. ASSUME NEW o \in Ops, NEW how \in {"merge", "rebase"},
             NEW level \in {"session", "workspace"},
             NEW src \in Sources, Begin(o, how, level, src)
       PROVE Undisturbed'
  <2>1. /\ op' \in [Ops -> Requests] /\ \A p \in Ops \ {o} : op'[p] = op[p]
        /\ op[o].pc = "idle" /\ UNCHANGED <<tip, tree>> /\ overlapped \subseteq overlapped'
        /\ \A p \in Ops \ {o} : Active(p) => p \in overlapped'
        /\ op'[o].pc = IF level = "session" /\ how = "rebase" THEN "git" ELSE "locate"
        /\ op'[o].how = how /\ op'[o].level = level
    BY <1>1, BeginLeaves
  <2>2. Sound(o)'
    BY <2>1 DEF Sound, OwnDir, At, Working
  <2>3. ASSUME NEW p \in Ops \ overlapped', p # o PROVE Sound(p)'
    BY <2>1, <2>3, Bystander DEF Undisturbed
  <2> QED BY <2>2, <2>3 DEF Undisturbed
<1>2. ASSUME NEW o \in Ops, Locate(o) PROVE Undisturbed'
  <2>1. op'[o].pc \in {"check", "failed"}
    BY <1>2, LocateLeaves DEF Stays
  <2>2. ASSUME o \notin overlapped PROVE Sound(o)'
    <3>1. Sound(o)
      BY <2>2 DEF Undisturbed
    <3> QED BY <2>1, <3>1 DEF Sound, At, Working
  <2>3. Keeps(o) /\ Active(o) /\ tip \subseteq tip'
    BY <1>2, LocateLeaves DEF Stays, At, Active
  <2> QED BY <2>2, <2>3, OthersSound
<1>3. ASSUME NEW o \in Ops, CheckClean(o) PROVE Undisturbed'
  <2>1. /\ Stays(o) /\ At(o, "check")
        /\ \/ op'[o].pc = "git" /\ tree' = tree /\ T(o).exists /\ IsClean(T(o))
           \/ op'[o].pc = "failed" 
    BY <1>3, CheckCleanLeaves DEF Stays
  <2>2. ASSUME o \notin overlapped PROVE Sound(o)'
    <3>1. Sound(o)
      BY <2>2 DEF Undisturbed
    <3> QED BY <2>1, <3>1 DEF Sound, At, T, Working, Stays, IsClean, Traces, Sane, Types,
               Requests
  <2>3. Keeps(o) /\ Active(o) /\ tip \subseteq tip'
    BY <1>3, CheckCleanLeaves DEF Stays, At, Active
  <2> QED BY <2>2, <2>3, OthersSound
<1>4. ASSUME NEW o \in Ops, GitRefuses(o) PROVE Undisturbed'
  <2>1. /\ Stays(o) /\ At(o, "git") /\ op'[o].pc = "failing" /\ tree' = tree
        /\ ~T(o).exists \/ T(o).mid # Nobody \/ T(o).dirty
        /\ \A d \in Dirs : tree[d].mid # o
    BY <1>4, GitRefusesLeaves DEF Traces, At, Working
  <2>2. ASSUME o \notin overlapped PROVE Sound(o)'
    <3>1. Sound(o)
      BY <2>2 DEF Undisturbed
    <3>2. T(o).mid # o
      BY <2>1 DEF T, Types, Requests
    <3> QED BY <2>1, <3>1, <3>2 DEF Sound, OwnDir, At, Working, T, Stays, Keeps, IsClean
  <2>3. Keeps(o) /\ Active(o) /\ tip \subseteq tip'
    BY <1>4, GitRefusesLeaves DEF Stays, At, Active
  <2> QED BY <2>2, <2>3, OthersSound
<1>5. ASSUME NEW o \in Ops, GitRuns(o) PROVE Undisturbed'
  <2>1. /\ Stays(o) /\ At(o, "git") /\ T(o).mid = Nobody
        /\ (op[o].how = "rebase" => ~T(o).dirty)
        /\ \/ op'[o].pc = "ok" /\ tip' = tip \cup {op[o].src}
           \/ /\ op'[o].pc = "failing" /\ T(o)'.mid = o /\ T(o)'.from = {op[o].src}
              /\ T(o)'.conf = "conflict" /\ T(o)'.staged = T(o).staged
              /\ T(o)'.dirty = T(o).dirty
    BY <1>5, GitRunsLeaves DEF Stays
  <2>2. T(o).conf = "none" => ~T(o).staged
    BY DEF T, Types, Requests, Traces, Sane
  <2>3. ASSUME o \notin overlapped PROVE Sound(o)'
    <3>1. Sound(o)
      BY <2>3 DEF Undisturbed
    <3> QED BY <2>1, <2>2, <3>1 DEF Sound, OwnDir, Over, Own, At, Working, Stays, Keeps,
               IsClean
  <2>4. Keeps(o) /\ Active(o) /\ tip \subseteq tip'
    BY <1>5, GitRunsLeaves DEF Stays, At, Active
  <2> QED BY <2>3, <2>4, OthersSound
<1>6. ASSUME NEW o \in Ops, Failing(o) PROVE Undisturbed'
  <2>1. /\ Stays(o) /\ At(o, "failing") /\ tree' = tree
        /\ op'[o].pc \in {"resolve", "abort"}
        /\ op'[o].pc = "resolve" => op[o].level = "workspace" 
    BY <1>6, FailingLeaves DEF Stays
  <2>2. ASSUME o \notin overlapped PROVE Sound(o)'
    <3>1. Sound(o)
      BY <2>2 DEF Undisturbed
    <3> QED BY <2>1, <3>1 DEF Sound, OwnDir, Over, Own, At, Working, T, Stays, Keeps
  <2>3. Keeps(o) /\ Active(o) /\ tip \subseteq tip'
    BY <1>6, FailingLeaves DEF Stays, At, Active
  <2> QED BY <2>2, <2>3, OthersSound
<1>7. ASSUME NEW o \in Ops, Resolve(o) PROVE Undisturbed'
  <2>1. /\ Keeps(o) /\ At(o, "resolve") /\ tree' = tree /\ tip' = tip
        /\ op'[o].dir = op[o].dir
        /\ op[o].how = "rebase" => InRebase(T(o))
        /\ \/ op'[o].pc = "abort"
           \/ op'[o].pc = "agent" /\ op'[o].paths = Unmerged(T(o))
    BY <1>7, ResolveLeaves DEF Stays
  <2>2. ASSUME o \notin overlapped PROVE Sound(o)'
    <3>1. Sound(o)
      BY <2>2 DEF Undisturbed
    <3> QED BY <2>1, <3>1 DEF Sound, OwnDir, Over, Own, At, Working, T, Keeps, InRebase,
               Unmerged, Stages
  <2>3. Keeps(o) /\ Active(o) /\ tip \subseteq tip'
    BY <1>7, ResolveLeaves DEF Stays, At, Active
  <2> QED BY <2>2, <2>3, OthersSound
<1>8. ASSUME NEW o \in Ops, Agent(o) PROVE Undisturbed'
  <2>1. /\ Stays(o) /\ At(o, "agent") /\ op'[o].pc \in {"agent", "verify"} /\ tip' = tip
        /\ T(o)'.mid = T(o).mid /\ T(o)'.how = T(o).how /\ T(o)'.from = T(o).from
        /\ T(o)'.staged = T(o).staged /\ T(o)'.dirty = T(o).dirty
        /\ T(o).conf # "none" => T(o)'.conf # "none" 
    BY <1>8, AgentLeaves DEF Stays
  <2>2. ASSUME o \notin overlapped PROVE Sound(o)'
    <3>1. Sound(o)
      BY <2>2 DEF Undisturbed
    <3> QED BY <2>1, <3>1 DEF Sound, OwnDir, Over, Own, At, Working, Stays, Keeps, Unmerged
  <2>3. Keeps(o) /\ Active(o) /\ tip \subseteq tip'
    BY <1>8, AgentLeaves DEF Stays, At, Active
  <2> QED BY <2>2, <2>3, OthersSound
<1>9. ASSUME NEW o \in Ops, Verify(o) PROVE Undisturbed'
  <2>1. /\ Stays(o) /\ At(o, "verify") /\ tip' = tip
        /\ op'[o].pc \in {"abort", "finish"}
        /\ op'[o].pc = "finish" => ~(op[o].paths /\ Marked(T(o)))
        /\ T(o)'.mid = T(o).mid /\ T(o)'.how = T(o).how /\ T(o)'.from = T(o).from
        /\ T(o)'.conf = T(o).conf /\ T(o)'.dirty = T(o).dirty
    BY <1>9, VerifyLeaves DEF Stays
  <2>2. T(o).conf \in {"none", "conflict", "marked", "fixed"}
    BY DEF T, Types, Requests, TreeType
  <2>3. ASSUME o \notin overlapped PROVE Sound(o)'
    <3>1. Sound(o)
      BY <2>3 DEF Undisturbed
    <3> QED BY <2>1, <2>2, <3>1 DEF Sound, OwnDir, Over, Own, At, Working, Stays, Keeps, Unmerged,
               Marked
  <2>4. Keeps(o) /\ Active(o) /\ tip \subseteq tip'
    BY <1>9, VerifyLeaves DEF Stays, At, Active
  <2> QED BY <2>3, <2>4, OthersSound
<1>10. ASSUME NEW o \in Ops, Abort(o) PROVE Undisturbed'
  <2>1. op'[o].pc = "failed" 
    BY <1>10, AbortLeaves DEF Stays, Keeps
  <2>2. ASSUME o \notin overlapped PROVE Sound(o)'
    <3>1. Sound(o)
      BY <2>2 DEF Undisturbed
    <3> QED BY <2>1, <3>1 DEF Sound, At, Working
  <2>3. Keeps(o) /\ Active(o) /\ tip \subseteq tip'
    BY <1>10, AbortLeaves DEF Stays, At, Active
  <2> QED BY <2>2, <2>3, OthersSound
<1>11. ASSUME NEW o \in Ops, FinishMerge(o) PROVE Undisturbed'
  <2>1. /\ Stays(o) /\ At(o, "finish") /\ tip \subseteq tip'
        /\ \/ op'[o].pc = "ok" /\ tip' = tip \cup Brought(T(o))
           \/ op'[o].pc = "abort" /\ tree' = tree
    BY <1>11, FinishMergeLeaves DEF Stays, Keeps
  <2>2. Own(o) => op[o].src \in Brought(T(o))
    <3>1. T(o) \in TreeType /\ o # Nobody
      BY DEF T, Types, Requests, Nobody
    <3> QED BY <3>1, BroughtTypes DEF Own
  <2>3. op[o].level = "workspace"
    BY <2>1 DEF Stages, At, Types, Requests
  <2>4. ASSUME o \notin overlapped PROVE Sound(o)'
    <3>1. Sound(o)
      BY <2>4 DEF Undisturbed
    <3> QED BY <2>1, <2>2, <2>3, <3>1 DEF Sound, OwnDir, Over, Own, At, Working, T, Stays, Keeps
  <2>5. Keeps(o) /\ Active(o) /\ tip \subseteq tip'
    BY <1>11, FinishMergeLeaves DEF Stays, At, Active
  <2> QED BY <2>4, <2>5, OthersSound
<1>12. ASSUME NEW o \in Ops, FinishRebase(o) PROVE Undisturbed'
  <2>1. /\ Stays(o) /\ At(o, "finish") /\ op'[o].pc \in {"resolve", "abort"}
        /\ op[o].how = "rebase"
        /\ \/ tip' = tip \cup Brought(T(o)) /\ T(o)' = Concluded(T(o)) /\ op'[o].pc = "resolve"
           \/ op'[o].pc = "abort" /\ UNCHANGED <<tip, tree>>
           \/ /\ tip' = tip /\ T(o)'.conf = "conflict" /\ ~T(o)'.staged
              /\ T(o)'.mid = T(o).mid /\ T(o)'.from = T(o).from /\ T(o)'.dirty = T(o).dirty
    BY <1>12, FinishRebaseLeaves DEF Stays
  <2>2. Own(o) => op[o].src \in Brought(T(o))
    <3>1. T(o) \in TreeType /\ o # Nobody
      BY DEF T, Types, Requests, Nobody
    <3> QED BY <3>1, BroughtTypes DEF Own
  <2>3. op[o].level = "workspace"
    BY <2>1 DEF Stages, At, Types, Requests
  <2>4. Concluded(T(o)).mid = Nobody /\ o # Nobody
    BY ConcludedTypes DEF T, Types, Requests, Nobody
  <2>5. ASSUME o \notin overlapped PROVE Sound(o)'
    <3>1. Sound(o)
      BY <2>5 DEF Undisturbed
    <3> QED BY <2>1, <2>2, <2>3, <2>4, <3>1
               DEF Sound, OwnDir, Over, Own, At, T, Working, Stays, Keeps
  <2>6. Keeps(o) /\ Active(o) /\ tip \subseteq tip'
    BY <1>12, FinishRebaseLeaves DEF Stays, At, Active
  <2> QED BY <2>5, <2>6, OthersSound
<1>13. ASSUME NEW o \in Ops, RebaseOver(o) PROVE Undisturbed'
  <2>1. /\ Stays(o) /\ At(o, "resolve") /\ op[o].how = "rebase" /\ tip' = tip
        /\ \/ op'[o].pc = "ok" /\ ~InRebase(T(o))
           \/ op'[o].pc = "abort" /\ tree' = tree
    BY <1>13, RebaseOverLeaves DEF Stays
  <2>2. T(o).mid = o => InRebase(T(o))
    BY <2>1 DEF InRebase, T, Types, Requests, Traces, Nobody
  <2>3. op[o].level = "workspace"
    BY <2>1 DEF Stages, At, Types, Requests
  <2>4. ASSUME o \notin overlapped PROVE Sound(o)'
    <3>1. Sound(o)
      BY <2>4 DEF Undisturbed
    <3> QED BY <2>1, <2>2, <2>3, <3>1 DEF Sound, Over, Own, At, Working, T, Stays, Keeps
  <2>5. Keeps(o) /\ Active(o) /\ tip \subseteq tip'
    BY <1>13, RebaseOverLeaves DEF Stays, At, Active
  <2> QED BY <2>4, <2>5, OthersSound
<1>14. ASSUME Edit PROVE Undisturbed'
  <2>1. /\ op' = op
        /\ tip \subseteq tip'
        /\ overlapped' = overlapped \cup {p \in Ops : Active(p)}
    BY <1>14 DEF Edit, Touch
  <2>2. ASSUME NEW p \in Ops \ overlapped' PROVE Sound(p)'
    BY <2>1, <2>2, Bystander DEF Undisturbed
  <2> QED BY <2>2 DEF Undisturbed
<1>15. ASSUME Commit PROVE Undisturbed'
  <2>1. /\ op' = op
        /\ tip \subseteq tip'
        /\ overlapped' = overlapped \cup {p \in Ops : Active(p)}
    BY <1>15 DEF Commit, Touch
  <2>2. ASSUME NEW p \in Ops \ overlapped' PROVE Sound(p)'
    BY <2>1, <2>2, Bystander DEF Undisturbed
  <2> QED BY <2>2 DEF Undisturbed
<1>16. ASSUME StartOwn PROVE Undisturbed'
  <2>1. /\ op' = op
        /\ tip \subseteq tip'
        /\ overlapped' = overlapped \cup {p \in Ops : Active(p)}
    BY <1>16 DEF StartOwn, Touch
  <2>2. ASSUME NEW p \in Ops \ overlapped' PROVE Sound(p)'
    BY <2>1, <2>2, Bystander DEF Undisturbed
  <2> QED BY <2>2 DEF Undisturbed
<1>17. ASSUME FinishOwn PROVE Undisturbed'
  <2>1. /\ op' = op
        /\ tip \subseteq tip'
        /\ overlapped' = overlapped \cup {p \in Ops : Active(p)}
    BY <1>17 DEF FinishOwn, Touch
  <2>2. ASSUME NEW p \in Ops \ overlapped' PROVE Sound(p)'
    BY <2>1, <2>2, Bystander DEF Undisturbed
  <2> QED BY <2>2 DEF Undisturbed
<1>18. ASSUME Session PROVE Undisturbed'
  BY <1>18 DEF Session, Undisturbed, Sound, Over, T, At, OwnDir, Own
<1>19. CASE UNCHANGED vars
  BY <1>19 DEF vars, Undisturbed, Sound, Over, T, At, OwnDir, Own
<1>20. ASSUME NEW o \in Ops, AgentCommits(o) PROVE Undisturbed'
  <2>1. /\ Stays(o) /\ At(o, "agent") /\ op'[o].pc = "agent"
        /\ \/ tip' = tip \cup Brought(T(o)) /\ T(o)' = Concluded(T(o))
           \/ /\ tip' = tip /\ T(o)'.conf = "conflict" /\ ~T(o)'.staged
              /\ T(o)'.mid = T(o).mid /\ T(o)'.from = T(o).from /\ T(o)'.dirty = T(o).dirty
        /\ T(o).mid # Nobody
    BY <1>20, AgentCommitsLeaves DEF Stays
  <2>2. /\ Own(o) => op[o].src \in Brought(T(o))
        /\ Concluded(T(o)).mid = Nobody /\ o # Nobody
    <3>1. T(o) \in TreeType /\ o # Nobody
      BY DEF T, Types, Requests, Nobody
    <3> QED BY <3>1, BroughtTypes, ConcludedTypes DEF Own
  <2>3. op[o].level = "workspace"
    BY <2>1 DEF Stages, At, Types, Requests
  <2>4. ASSUME o \notin overlapped PROVE Sound(o)'
    <3>1. Sound(o)
      BY <2>4 DEF Undisturbed
    <3>2. Own(o) /\ op[o].paths /\ ~T(o).dirty
      BY <2>1, <2>3, <3>1 DEF Sound, Over, Own, At, Working
    <3> QED BY <2>1, <2>2, <2>3, <3>2
               DEF Sound, OwnDir, Over, Own, At, Working, Stays, Keeps, Unmerged
  <2>5. Keeps(o) /\ Active(o) /\ tip \subseteq tip'
    BY <1>20, AgentCommitsLeaves DEF Stays, At, Active
  <2> QED BY <2>4, <2>5, OthersSound
<1>21. ASSUME NEW o \in Ops, AgentAborts(o) PROVE Undisturbed'
  <2>1. /\ Stays(o) /\ At(o, "agent") /\ op'[o].pc = "agent" /\ "abort" \in op'[o].ran
        /\ T(o)'.mid = Nobody /\ o # Nobody
    BY <1>21, AgentAbortsLeaves DEF Nobody
  <2>2. op[o].level = "workspace"
    BY <2>1 DEF Stages, At, Types, Requests
  <2>3. Sound(o)'
    BY <2>1, <2>2 DEF Sound, OwnDir, Over, At, Working, Stays, Keeps
  <2>4. Keeps(o) /\ Active(o) /\ tip \subseteq tip'
    BY <1>21, AgentAbortsLeaves DEF Stays, At, Active
  <2> QED BY <2>3, <2>4, OthersSound
<1> QED BY <1>1, <1>2, <1>3, <1>4, <1>5, <1>6, <1>7, <1>8, <1>9, <1>10, <1>11, <1>12, <1>13,
           <1>14, <1>15, <1>16, <1>17, <1>18, <1>19, <1>20, <1>21
        DEF Next, Merge, Rebase, Common

(* No step commits markers, but one of a request that was disturbed.       *)
LEMMA UnmarkedStep ==
  ASSUME Types, Stages, Undisturbed, Unmarked, [Next]_vars
  PROVE  Unmarked'
<1> USE BoundsAssumption
<1>0. ASSUME NEW o \in Ops, Keeps(o), "markers" \in tip' => "markers" \in tip
      PROVE  Unmarked'
  <2>1. \A p \in Ops : op[p].ran \subseteq op'[p].ran
    BY <1>0 DEF Keeps
  <2> QED BY <1>0, <2>1 DEF Keeps, Unmarked
<1>1. ASSUME NEW o \in Ops, NEW how \in {"merge", "rebase"},
             NEW level \in {"session", "workspace"},
             NEW src \in Sources, Begin(o, how, level, src)
       PROVE Unmarked'
  <2>1. /\ \A p \in Ops \ {o} : op'[p] = op[p]
        /\ op[o].pc = "idle" /\ tip' = tip /\ overlapped \subseteq overlapped'
    BY <1>1, BeginLeaves
  <2>2. op[o].ran = {}
    BY <2>1 DEF Stages
  <2> QED BY <2>1, <2>2 DEF Unmarked
<1>2. ASSUME NEW o \in Ops, Locate(o) PROVE Unmarked'
  BY <1>2, <1>0, LocateLeaves
<1>3. ASSUME NEW o \in Ops, CheckClean(o) PROVE Unmarked'
  BY <1>3, <1>0, CheckCleanLeaves DEF Stays
<1>4. ASSUME NEW o \in Ops, GitRefuses(o) PROVE Unmarked'
  BY <1>4, <1>0, GitRefusesLeaves DEF Stays
<1>5. ASSUME NEW o \in Ops, GitRuns(o) PROVE Unmarked'
  <2>1. op[o].src # "markers"
    BY <1>5 DEF GitRuns, At, Stages
  <2> QED BY <1>5, <1>0, <2>1, GitRunsLeaves DEF Stays
<1>6. ASSUME NEW o \in Ops, Failing(o) PROVE Unmarked'
  BY <1>6, <1>0, FailingLeaves DEF Stays
<1>7. ASSUME NEW o \in Ops, Resolve(o) PROVE Unmarked'
  BY <1>7, <1>0, ResolveLeaves
<1>8. ASSUME NEW o \in Ops, Agent(o) PROVE Unmarked'
  BY <1>8, <1>0, AgentLeaves DEF Stays
<1>9. ASSUME NEW o \in Ops, Verify(o) PROVE Unmarked'
  BY <1>9, <1>0, VerifyLeaves DEF Stays
<1>10. ASSUME NEW o \in Ops, Abort(o) PROVE Unmarked'
  BY <1>10, <1>0, AbortLeaves DEF Stays
<1>11. ASSUME NEW o \in Ops, FinishMerge(o) PROVE Unmarked'
  <2>1. /\ Keeps(o) /\ overlapped' = overlapped
        /\ (tip' = tip \/ tip' = tip \cup Brought(T(o)))
        /\ At(o, "finish")
    BY <1>11, FinishMergeLeaves DEF Stays, Keeps
  <2>2. CASE overlapped = {}
    <3>1. Sound(o) /\ op[o].level = "workspace"
      BY <2>1, <2>2 DEF Undisturbed, Stages, At, Types, Requests
    <3>2. T(o) \in TreeType
      BY DEF T, Types, Requests
    <3>3. CASE Over(o)
      BY <1>0, <2>1, <3>3 DEF Over, Brought
    <3>4. CASE Own(o) /\ T(o).conf = "fixed"
      <4>1. T(o).from = {op[o].src} /\ op[o].src # "markers"
        BY <2>1, <3>4 DEF Own, Stages, At
      <4>2. "markers" \notin Brought(T(o))
        BY <3>2, <3>4, <4>1, BroughtTypes DEF Marked
      <4> QED BY <1>0, <2>1, <4>2
    <3> QED BY <2>1, <3>1, <3>3, <3>4 DEF Sound
  <2>3. CASE overlapped # {}
    BY <2>1, <2>3 DEF Unmarked
  <2> QED BY <2>2, <2>3
<1>12. ASSUME NEW o \in Ops, FinishRebase(o) PROVE Unmarked'
  <2>1. /\ Keeps(o) /\ overlapped' = overlapped
        /\ (tip' = tip \/ tip' = tip \cup Brought(T(o)))
        /\ At(o, "finish")
    BY <1>12, FinishRebaseLeaves DEF Stays, Keeps
  <2>2. CASE overlapped = {}
    <3>1. Sound(o) /\ op[o].level = "workspace"
      BY <2>1, <2>2 DEF Undisturbed, Stages, At, Types, Requests
    <3>2. T(o) \in TreeType
      BY DEF T, Types, Requests
    <3>3. CASE Over(o)
      BY <1>0, <2>1, <3>3 DEF Over, Brought
    <3>4. CASE Own(o) /\ T(o).conf = "fixed"
      <4>1. T(o).from = {op[o].src} /\ op[o].src # "markers"
        BY <2>1, <3>4 DEF Own, Stages, At
      <4>2. "markers" \notin Brought(T(o))
        BY <3>2, <3>4, <4>1, BroughtTypes DEF Marked
      <4> QED BY <1>0, <2>1, <4>2
    <3> QED BY <2>1, <3>1, <3>3, <3>4 DEF Sound
  <2>3. CASE overlapped # {}
    BY <2>1, <2>3 DEF Unmarked
  <2> QED BY <2>2, <2>3
<1>13. ASSUME NEW o \in Ops, RebaseOver(o) PROVE Unmarked'
  BY <1>13, <1>0, RebaseOverLeaves DEF Stays
<1>14. ASSUME Edit PROVE Unmarked'
  BY <1>14 DEF Edit, Unmarked, Touch
<1>15. ASSUME Commit PROVE Unmarked'
  BY <1>15 DEF Commit, Unmarked, Touch
<1>16. ASSUME StartOwn PROVE Unmarked'
  BY <1>16 DEF StartOwn, Unmarked, Touch
<1>17. ASSUME FinishOwn PROVE Unmarked'
  BY <1>17 DEF FinishOwn, Unmarked, Touch
<1>18. ASSUME Session PROVE Unmarked'
  BY <1>18 DEF Session, Unmarked
<1>19. CASE UNCHANGED vars
  BY <1>19 DEF vars, Unmarked
<1>20. ASSUME NEW o \in Ops, AgentCommits(o) PROVE Unmarked'
  BY <1>20, AgentCommitsLeaves DEF Unmarked
<1>21. ASSUME NEW o \in Ops, AgentAborts(o) PROVE Unmarked'
  BY <1>21, <1>0, AgentAbortsLeaves DEF Stays
<1> QED BY <1>1, <1>2, <1>3, <1>4, <1>5, <1>6, <1>7, <1>8, <1>9, <1>10, <1>11, <1>12, <1>13,
           <1>14, <1>15, <1>16, <1>17, <1>18, <1>19, <1>20, <1>21
        DEF Next, Merge, Rebase, Common

-----------------------------------------------------------------------------
(* The inductive invariant.                                                *)
IInv == Types /\ Stages /\ Traces /\ Crowded /\ Undisturbed /\ Unmarked

(* It holds at first.                                                      *)
LEMMA Initially == Init => IInv
<1> SUFFICES ASSUME Init PROVE IInv
  OBVIOUS
<1> USE BoundsAssumption
<1>1. /\ tip = {} /\ live = FALSE /\ edits = 0 /\ overlapped = {}
      /\ op = [o \in Ops |-> NoOp]
      /\ \A d \in Dirs : (tree[d] = Clean /\ d = Home) \/ tree[d] = NoTree
      /\ tree \in [Dirs -> TreeType]
  BY TreeTypes DEF Init
<1>2. NoOp \in Requests /\ NoOp.pc = "idle" /\ NoOp.dir \in Dirs /\ NoOp.ran = {}
  BY DEF NoOp, Requests, Pcs, Dirs
<1>3. \A o \in Ops : op[o] = NoOp /\ o # Home /\ o \in Dirs /\ o # Nobody
  BY <1>1 DEF Home, Dirs, Nobody
<1>4. \A d \in Dirs : tree[d].mid = Nobody /\ tree[d].conf = "none" /\ ~tree[d].staged
  BY <1>1, TreeTypes
<1>5. Types
  <2>1. live \in BOOLEAN
    BY <1>1
  <2>2. op \in [Ops -> Requests]
    BY <1>1, <1>2
  <2>3. edits \in 0 .. MaxEdits
    BY <1>1
  <2> QED BY <1>1, <2>1, <2>2, <2>3 DEF Types
<1>6. Stages /\ Crowded /\ Unmarked
  BY <1>1, <1>2, <1>3 DEF Stages, Crowded, Unmarked, Active
<1>7. Traces
  BY <1>1, <1>2, <1>3, <1>4, TreeTypes DEF Traces, Sane, Nobody
<1>8. Undisturbed
  BY <1>2, <1>3, <1>4 DEF Undisturbed, Sound, At, T
<1> QED BY <1>5, <1>6, <1>7, <1>8 DEF IInv

(* It holds of every reachable state.                                      *)
LEMMA Inductive == Spec => []IInv
<1>1. IInv /\ [Next]_vars => IInv'
  <2> SUFFICES ASSUME IInv, [Next]_vars PROVE IInv'
    OBVIOUS
  <2>1. Types' /\ Stages' /\ Traces' /\ Crowded'
    BY TypesStep, StagesStep, TracesStep, CrowdedStep DEF IInv
  <2>2. Undisturbed' /\ Unmarked'
    BY <2>1, UndisturbedStep, UnmarkedStep DEF IInv
  <2> QED BY <2>1, <2>2 DEF IInv
<1> QED BY <1>1, Initially, PTL DEF Spec

(* Every state has the declared types.                                     *)
THEOREM RequestTypes == Spec => []TypeOK
<1>1. IInv => TypeOK
  BY DEF IInv, Types, TypeOK, Requests
<1> QED BY <1>1, Inductive, PTL

(* A request that nobody disturbed and that reports success has brought    *)
(* the source's commits into the branch, whatever the agent did to the     *)
(* files, whether or not it committed by itself, and however many          *)
(* conflicts a rebase met - unless the agent aborted the operation, which  *)
(* the code takes for done; and conflict markers were committed only by an *)
(* agent itself, or where requests were disturbed (source_control.rs:233). *)
THEOREM DoneIsDone == Spec => []OkMeansDone
<1>1. IInv => OkMeansDone
  BY DEF IInv, Undisturbed, Sound, Unmarked, OkMeansDone, Alone
<1> QED BY <1>1, Inductive, PTL

(* A request that has ended, well or not, leaves a temporary worktree only *)
(* where git failed to remove it, and an operation of its own paused only  *)
(* in its directory, where git failed to abort it: every path out of the   *)
(* resolution tries a commit or an abort, whatever the agent did before.   *)
THEOREM NothingLeft == Spec => []NothingLeftBehind
<1>1. IInv => NothingLeftBehind
  BY DEF IInv, Traces, Working, NothingLeftBehind, At, Active
<1> QED BY <1>1, Inductive, PTL

-----------------------------------------------------------------------------
(* What a step of a request that nobody disturbed does to the user's       *)
(* worktree, unless it takes the user's paused rebase for its own.         *)
Kept(o) ==
  op'[o] # op[o] /\ Alone(o) /\ ~TakesForItsOwn(o) =>
    /\ tree[Home].dirty => tree'[Home].dirty
    /\ tree[Home].mid = "user" => tree'[Home].mid = "user"

(* A step of one request is no step of the others.                         *)
LEMMA KeptElsewhere ==
  ASSUME NEW o \in Ops, Keeps(o), Kept(o)
  PROVE  \A p \in Ops : Kept(p)
BY DEF Keeps, Kept

(* Every step keeps the user's edits and paused operation.                 *)
LEMMA KeptStep ==
  ASSUME IInv, [Next]_vars
  PROVE  \A o \in Ops : Kept(o)
<1> USE BoundsAssumption
<1> USE DEF IInv
<1>1. Home \in Dirs /\ \A o \in Ops : Home # o /\ "user" # o /\ "user" # Nobody
  BY DEF Home, Dirs, Nobody
<1>2. ASSUME NEW o \in Ops, Locate(o) \/ GitRefuses(o) \/ Failing(o) \/ Resolve(o)
      PROVE  \A p \in Ops : Kept(p)
  <2>1. Keeps(o) /\ tree'[Home] = tree[Home]
    <3>1. CASE Locate(o)
      BY <1>1, <3>1, LocateLeaves
    <3>2. CASE GitRefuses(o)
      BY <3>2, GitRefusesLeaves DEF Stays
    <3>3. CASE Failing(o)
      BY <3>3, FailingLeaves DEF Stays
    <3>4. CASE Resolve(o)
      BY <3>4, ResolveLeaves
    <3> QED BY <1>2, <3>1, <3>2, <3>3, <3>4
  <2> QED BY <2>1, KeptElsewhere DEF Kept
<1>3. ASSUME NEW o \in Ops, CheckClean(o) \/ RebaseOver(o) PROVE \A p \in Ops : Kept(p)
  <2>1. Keeps(o) /\ tree'[Home] = tree[Home]
    <3>1. CASE CheckClean(o)
      BY <1>1, <3>1, CheckCleanLeaves DEF Stays, Cleaned
    <3>2. CASE RebaseOver(o)
      BY <1>1, <3>2, RebaseOverLeaves DEF Stays, Cleaned
    <3> QED BY <1>3, <3>1, <3>2
  <2> QED BY <2>1, KeptElsewhere DEF Kept
<1>4. ASSUME NEW o \in Ops, GitRuns(o) PROVE \A p \in Ops : Kept(p)
  <2>1. /\ Stays(o) /\ T(o).mid = Nobody
        /\ \/ Cleaned(o, tree)
           \/ /\ \A d \in Dirs \ {op[o].dir} : tree'[d] = tree[d]
              /\ T(o)'.dirty = T(o).dirty
    BY <1>4, GitRunsLeaves
  <2>2. Kept(o)
    BY <1>1, <2>1 DEF Stays, Cleaned, T, Kept
  <2> QED BY <2>1, <2>2, KeptElsewhere DEF Stays
<1>5. ASSUME NEW o \in Ops, Agent(o) \/ Verify(o) PROVE \A p \in Ops : Kept(p)
  <2>1. /\ Stays(o) /\ \A d \in Dirs \ {op[o].dir} : tree'[d] = tree[d]
        /\ T(o)'.dirty = T(o).dirty /\ T(o)'.mid = T(o).mid
    BY <1>5, AgentLeaves, VerifyLeaves
  <2>2. Kept(o)
    BY <1>1, <2>1 DEF Stays, T, Kept
  <2> QED BY <2>1, <2>2, KeptElsewhere DEF Stays
<1>6. ASSUME NEW o \in Ops, Abort(o) PROVE \A p \in Ops : Kept(p)
  <2>1. /\ Stays(o) /\ At(o, "abort")
        /\ \/ Cleaned(o, [tree EXCEPT ![op[o].dir] = Aborted(T(o), op[o].how)])
           \/ Cleaned(o, tree)
    BY <1>6, AbortLeaves
  <2>2. /\ T(o) \in TreeType
        /\ op[o].how \in {"merge", "rebase"}
        /\ tree \in [Dirs -> TreeType]
    BY DEF T, Types, Requests
  <2>3. CASE op[o].dir # Home
    <3>1. tree'[Home] = tree[Home]
      BY <1>1, <2>1, <2>2, <2>3 DEF Cleaned
    <3> QED BY <2>1, <3>1, KeptElsewhere DEF Kept
  <2>4. CASE Cleaned(o, tree)
    BY <1>1, <2>1, <2>4, KeptElsewhere DEF Cleaned, Stays, Kept
  <2>5. CASE /\ op[o].dir = Home
             /\ Cleaned(o, [tree EXCEPT ![op[o].dir] = Aborted(T(o), op[o].how)])
    <3>1. tree'[Home] = Aborted(tree[Home], op[o].how) /\ T(o) = tree[Home]
      BY <1>1, <2>1, <2>2, <2>5 DEF Cleaned, T
    <3>2. Kept(o)
      <4> SUFFICES ASSUME Alone(o), ~TakesForItsOwn(o), tree[Home].mid # Nobody,
                          tree[Home].how = op[o].how
                   PROVE  /\ tree[Home].dirty => tree'[Home].dirty
                          /\ tree[Home].mid # "user"
        BY <2>2, <3>1, AbortedTypes DEF Kept
      <4>1. ~OwnDir(o)
        BY DEF OwnDir, TakesForItsOwn, InRebase
      <4>2. tree[Home].mid = o /\ ~tree[Home].dirty
        BY <2>1, <3>1, <4>1 DEF Undisturbed, Sound, At, Alone, Working
      <4> QED BY <1>1, <4>2
    <3> QED BY <2>1, <3>2, KeptElsewhere DEF Stays
  <2> QED BY <2>1, <2>3, <2>4, <2>5
<1>7. ASSUME NEW o \in Ops, FinishMerge(o) \/ FinishRebase(o) PROVE \A p \in Ops : Kept(p)
  <2>1. Stays(o) /\ At(o, "finish")
    BY <1>7, FinishMergeLeaves, FinishRebaseLeaves
  <2>2. T(o) \in TreeType /\ tree \in [Dirs -> TreeType] /\ op[o].level = "workspace"
    BY <2>1 DEF T, Types, Requests, Stages, At
  <2>3. /\ op[o].dir # Home => tree'[Home] = tree[Home]
        /\ op[o].dir = Home => tree'[Home].dirty = tree[Home].dirty
    <3>1. CASE FinishMerge(o)
      BY <1>1, <2>2, <3>1, FinishMergeLeaves, ConcludedTypes DEF Cleaned, T
    <3>2. CASE FinishRebase(o)
      BY <1>1, <2>1, <2>2, <3>2, FinishRebaseLeaves, ConcludedTypes DEF T, Stays
    <3> QED BY <1>7, <3>1, <3>2
  <2>4. Alone(o) => T(o).mid # "user"
    BY <1>1, <2>1, <2>2 DEF Undisturbed, Sound, Over, Own, Alone, At
  <2>5. Kept(o)
    BY <2>3, <2>4 DEF Kept, T
  <2> QED BY <2>1, <2>5, KeptElsewhere DEF Stays
<1>8. ASSUME NEW o \in Ops, NEW how \in {"merge", "rebase"},
             NEW level \in {"session", "workspace"},
             NEW src \in Sources, Begin(o, how, level, src)
      PROVE  \A p \in Ops : Kept(p)
  BY <1>8, BeginLeaves DEF Kept
<1>11. ASSUME NEW o \in Ops, AgentCommits(o) \/ AgentAborts(o) PROVE \A p \in Ops : Kept(p)
  <2>1. Stays(o) /\ At(o, "agent") /\ T(o).mid # Nobody
    BY <1>11, AgentCommitsLeaves, AgentAbortsLeaves
  <2>2. T(o) \in TreeType /\ op[o].level = "workspace"
    BY <2>1 DEF T, Types, Requests, Stages, At
  <2>3. op[o].dir # Home => tree'[Home] = tree[Home]
    BY <1>1, <1>11, AgentCommitsLeaves, AgentAbortsLeaves
  <2>4. Alone(o) => T(o).mid = o /\ ~T(o).dirty
    BY <2>1, <2>2 DEF Undisturbed, Sound, Over, Own, Alone, At, Working
  <2>5. Kept(o)
    BY <1>1, <2>3, <2>4 DEF Kept, T
  <2> QED BY <2>1, <2>5, KeptElsewhere DEF Stays
<1>9. CASE op' = op
  BY <1>9 DEF Kept
<1>10. (Edit \/ Commit \/ StartOwn \/ FinishOwn \/ Session \/ UNCHANGED vars) => op' = op
  BY DEF Edit, Commit, StartOwn, FinishOwn, Session, vars
<1> QED BY <1>2, <1>3, <1>4, <1>5, <1>6, <1>7, <1>8, <1>9, <1>10, <1>11 DEF Next, Merge, Rebase,
           Common

(* A request that nobody disturbed keeps the user's uncommitted edits and  *)
(* the merge or rebase the user has paused, though it resets and aborts in *)
(* that very directory - unless it is a session's rebase, which takes a    *)
(* paused rebase for its own.                                              *)
THEOREM UserWorkIsKept == Spec => UserWorkKept
<1>1. IInv /\ [Next]_vars => [\A o \in Ops : Kept(o)]_vars
  BY KeptStep
<1>2. UserWorkKept <=> [][\A o \in Ops : Kept(o)]_vars
  BY DEF UserWorkKept, Kept
<1>3. Spec => [][\A o \in Ops : Kept(o)]_vars
  BY <1>1, Inductive, PTL DEF Spec
<1> QED BY <1>2, <1>3
=============================================================================
