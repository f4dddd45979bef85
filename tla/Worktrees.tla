----------------------------- MODULE Worktrees -----------------------------
(***************************************************************************)
(* The worktrees and branches of one repository and the sessions that run  *)
(* in them: create (a new worktree, a shared one, a borrowed branch), its  *)
(* rollback, detach and attach, clean-up, archive, the sweep of orphans    *)
(* and the deletion of a branch, against what the user moves, commits and  *)
(* merges.  A git command is one step; what the database or git is asked,  *)
(* and what is done on the answer, are steps of their own, save where the  *)
(* command asks again itself (worktree remove: are there changes?).        *)
(*                                                                         *)
(* A session's worktree and asm-session branch are named by the session.   *)
(* "user" is a worktree the user made, on the branch "topic"; the branch   *)
(* "old" was left by a daemon that is gone.  Sessions without a worktree   *)
(* own nothing and are left out.                                           *)
(***************************************************************************)
EXTENDS Naturals, FiniteSets

CONSTANTS
  Sessions,
  MaxMoves          \* bound: edits, switches, detachments, attachments, sweeps, deletions

ASSUME WorktreeAssumption ==
  /\ MaxMoves \in Nat /\ IsFiniteSet(Sessions)
  /\ Sessions \cap {"user", "old", "topic", "detached", "none", "idle"} = {}

Paths    == Sessions \cup {"user"}
Branches == Sessions \cup {"topic", "old"}
Managed  == Branches \ {"topic"}        \* asm-session/*

VARIABLES
  tree,             \* worktree -> branch checked out, "detached" or "none"
  branches,         \* the branches there are
  dirty,            \* worktrees with uncommitted changes
  unmerged,         \* branches with commits merged nowhere
  loose,            \* worktrees whose detached HEAD has commits of its own
  inst,             \* the workspace_instances, by session
  sess,             \* the sessions
  op,               \* the archive or clean-up of a session, where it stands
  sweep,            \* the sweep of orphans: "idle", at the "trees" or at the "branches"
  known,            \* the sessions it read
  condemned,        \* branches found merged and free, and for whom: "user", "sweep"
  moves,
  lost,             \* history: why work was lost
  gone,             \* history: worktrees removed by a sweep, a rollback, and the user's
  overlap,          \* history: worktrees whose sharers' requests overlapped
  late,             \* history: branches committed to after they were found merged
  switched,         \* history: worktrees that an agent or the user put on another branch
  takers            \* history: who deleted "topic", but for delete_workspace_branch

git  == <<tree, branches, dirty, unmerged, loose>>
upkeep == <<sweep, known, condemned>>
past == <<late, switched, takers>>
seen == <<lost, gone, overlap, past>>
vars == <<git, inst, sess, op, upkeep, moves, seen>>

None == [path |-> "none", branch |-> "none", ownsTree |-> FALSE,
         ownsBranch |-> FALSE, rollback |-> FALSE, status |-> "none", born |-> 0]
Idle == [pc |-> "idle", what |-> "archive", force |-> FALSE]

TypeOK ==
  /\ tree \in [Paths -> Branches \cup {"detached", "none"}]
  /\ branches \subseteq Branches /\ unmerged \subseteq branches
  /\ dirty \subseteq Paths /\ loose \subseteq Paths
  /\ \A s \in Sessions : inst[s].status \in {"none", "resolved", "active", "released"}
  /\ sess \in [Sessions -> {"none", "creating", "live", "ended", "archived", "void"}]
  /\ sweep \in {"idle", "trees", "branches"} /\ known \subseteq Sessions
  /\ condemned \subseteq Branches \X {"user", "sweep"}
  /\ lost \subseteq {"forced", "detached", "checked", "rollback", "raced"}

Init ==
  /\ tree = [p \in Paths |-> IF p = "user" THEN "topic" ELSE "none"]
  /\ branches = {"topic", "old"}
  /\ dirty = {} /\ unmerged = {} /\ loose = {}
  /\ inst = [s \in Sessions |-> None] /\ sess = [s \in Sessions |-> "none"]
  /\ op = [s \in Sessions |-> Idle] /\ moves = 0
  /\ sweep = "idle" /\ known = {}
  /\ lost = {} /\ gone = {} /\ overlap = {}
  /\ condemned = {} /\ late = {} /\ switched = {} /\ takers = {}

Rows == {s \in Sessions : inst[s].status \in {"active", "released"}}
Sharers(s) == {t \in Rows \ {s} : inst[t].path = inst[s].path /\ inst[t].status = "active"}
CheckedOut(b) == {p \in Paths : tree[p] = b}
Move == moves < MaxMoves /\ moves' = moves + 1
Born == 1 + Cardinality({s \in Sessions : inst[s] # None})
Joining(p) == \E s \in Sessions : inst[s].status = "resolved" /\ inst[s].path = p

(* What is lost with worktree p and branch b ("none": keeps its branches). *)
Loses(p, b, why) ==
  lost \cup (IF p \in dirty \/ b \in unmerged THEN {why} ELSE {})
       \cup (IF p \in loose THEN {"detached"} ELSE {})
Why(b, force) == IF force THEN "forced" ELSE IF b \in late THEN "raced" ELSE "checked"

(* git worktree add, switch --detach, status (which fails where there is   *)
(* no worktree), merge-base --is-ancestor.                                 *)
CreateWorktree(s, b) == tree' = [tree EXCEPT ![s] = b]
DetachBranch(p) == tree' = [tree EXCEPT ![p] = "detached"]
IsDirty(p)  == p \in dirty \/ tree[p] = "none"
IsMerged(b) == b \notin unmerged

(* git worktree remove; git branch -D refuses a branch checked out.        *)
RemoveTree(p, by) ==
  /\ tree' = [tree EXCEPT ![p] = "none"]
  /\ dirty' = dirty \ {p} /\ loose' = loose \ {p}
  /\ gone' = IF by \in {"sweep", "rollback"} \/ p = "user" THEN gone \cup {<<p, by>>} ELSE gone
DropBranch(b) ==
  /\ branches' = branches \ {b} /\ unmerged' = unmerged \ {b}
Takers(b, by) == IF b = "topic" THEN takers \cup {by} ELSE takers
-----------------------------------------------------------------------------
(* create_session: resolve_workspace, the rows, the backend.               *)

(* The instance, in memory; rollback: its isolation is "worktree".         *)
Instance(p, b, ownsTree, ownsBranch, rollback) ==
  [path |-> p, branch |-> b, ownsTree |-> ownsTree, ownsBranch |-> ownsBranch,
   rollback |-> rollback, status |-> "resolved", born |-> Born]

Resolve(s, i) ==
  /\ inst' = [inst EXCEPT ![s] = i]
  /\ sess' = [sess EXCEPT ![s] = "creating"]
  /\ UNCHANGED <<dirty, unmerged, loose, op, upkeep, moves, lost, gone, past>>

NewBranch(s) ==
  /\ sess[s] = "none"
  /\ CreateWorktree(s, s) /\ branches' = branches \cup {s}
  /\ Resolve(s, Instance(s, s, TRUE, TRUE, TRUE))
  /\ UNCHANGED overlap

(* The branch exists and nothing holds it: a worktree for it is made.      *)
Borrow(s, b) ==
  /\ sess[s] = "none" /\ b \in branches /\ CheckedOut(b) = {}
  /\ CreateWorktree(s, b) /\ UNCHANGED branches
  /\ Resolve(s, Instance(s, b, TRUE, FALSE, TRUE))
  /\ UNCHANGED overlap

OwnsWhatItShares(p) ==    \* mutant: a sharer owns the worktree
  {[None EXCEPT !.ownsTree = TRUE, !.ownsBranch = TRUE]}

(* It is checked out: the session shares that worktree, and inherits what  *)
(* the newest instance recorded there owns, or one of the newest.          *)
Inherited(p) ==
  LET at == {t \in Rows : inst[t].path = p} IN
  IF at = {} THEN {None}
  ELSE {inst[t] : t \in {t \in at : \A u \in at : inst[u].born <= inst[t].born}}

ShareOwnsNothing(s, p) ==    \* mutant: ownership is not inherited
  /\ sess[s] = "none" /\ tree[p] \in branches
  /\ Resolve(s, Instance(p, tree[p], FALSE, FALSE, FALSE))
  /\ overlap' = IF Joining(p) \/ \E t \in Rows : inst[t].path = p /\ op[t].pc # "idle"
                THEN overlap \cup {p} ELSE overlap
  /\ UNCHANGED <<tree, branches>>

Share(s, p) ==
  /\ sess[s] = "none" /\ tree[p] \in branches
  /\ \E i \in Inherited(p) :
       Resolve(s, Instance(p, tree[p], i.ownsTree, i.ownsBranch, FALSE))
  /\ overlap' = IF Joining(p) \/ \E t \in Rows : inst[t].path = p /\ op[t].pc # "idle"
                THEN overlap \cup {p} ELSE overlap
  /\ UNCHANGED <<tree, branches>>

(* The rows, and the backend starts its child.                             *)
Insert(s) ==
  /\ sess[s] = "creating"
  /\ inst' = [inst EXCEPT ![s].status = "active"] /\ sess' = [sess EXCEPT ![s] = "live"]
  /\ UNCHANGED <<git, op, upkeep, moves, seen>>

(* create failed before or after its rows: rollback_new_instance.  A       *)
(* shared worktree is left alone, and an inserted instance then stays; one *)
(* that this create made goes unasked, whoever has joined it since.        *)
Rollback(s, inserted) ==
  LET i == inst[s]
      Row(status) == IF inserted THEN [i EXCEPT !.status = status] ELSE None IN
  /\ sess[s] = "creating"
  /\ sess' = [sess EXCEPT ![s] = IF inserted THEN "ended" ELSE "void"]
  /\ IF i.rollback
     THEN /\ inst' = [inst EXCEPT ![s] = Row("released")]
          /\ RemoveTree(i.path, "rollback")
          /\ IF i.ownsBranch /\ CheckedOut(i.branch) \subseteq {i.path}
             THEN /\ DropBranch(i.branch) /\ lost' = Loses(i.path, i.branch, "rollback")
                  /\ takers' = Takers(i.branch, s)
             ELSE /\ UNCHANGED <<branches, unmerged, takers>>
                  /\ lost' = Loses(i.path, "none", "rollback")
          /\ overlap' = IF Joining(i.path) \/ Sharers(s) # {} THEN overlap \cup {i.path} ELSE overlap
     ELSE /\ inst' = [inst EXCEPT ![s] = Row("active")]
          /\ UNCHANGED <<git, gone, overlap, lost, takers>>
  /\ UNCHANGED <<op, upkeep, moves, late, switched>>

End(s) ==
  /\ sess[s] = "live" /\ sess' = [sess EXCEPT ![s] = "ended"]
  /\ UNCHANGED <<git, inst, op, upkeep, moves, seen>>

Detach(s) ==
  /\ Move
  /\ inst[s].status = "active" /\ tree[inst[s].path] = inst[s].branch
  /\ DetachBranch(inst[s].path)
  /\ UNCHANGED <<branches, dirty, unmerged, loose, inst, sess, op, upkeep, seen>>

Attach(s) ==
  LET p == inst[s].path
      b == inst[s].branch IN
  /\ Move
  /\ inst[s].status = "active" /\ tree[p] = "detached"
  /\ b \in branches /\ CheckedOut(b) = {} /\ p \notin loose
  /\ tree' = [tree EXCEPT ![p] = b]
  /\ UNCHANGED <<branches, dirty, unmerged, loose, inst, sess, op, upkeep, seen>>
-----------------------------------------------------------------------------
AskEvicts(s, what, force) ==    \* mutant: the other sharers are not counted
  /\ sess[s] = "ended" /\ op[s] = Idle
  /\ what = "cleanup" => inst[s].status = "active"
  /\ op' = [op EXCEPT ![s] = [pc |-> "last", what |-> what, force |-> force]]
  /\ UNCHANGED <<git, inst, sess, upkeep, moves, seen>>

(* archive_session and cleanup_instance: the sharers are counted first.    *)
(* A request is forced, as the client does it, when there is work to lose. *)

Ask(s, what, force) ==
  /\ sess[s] = "ended" /\ op[s] = Idle
  /\ what = "cleanup" => inst[s].status = "active"
  /\ op' = [op EXCEPT ![s] = [pc |-> IF Sharers(s) = {} THEN "last" ELSE "share",
                              what |-> what, force |-> force]]
  /\ force => Sharers(s) = {} /\ (inst[s].path \in dirty \/ inst[s].branch \in unmerged)
  /\ overlap' = IF Joining(inst[s].path)
                   \/ \E t \in Sessions \ {s} : op[t].pc # "idle" /\ inst[t].path = inst[s].path
                THEN overlap \cup {inst[s].path} ELSE overlap
  /\ UNCHANGED <<git, inst, sess, upkeep, moves, lost, gone, past>>

Released(s) == [inst EXCEPT ![s].status = "released"]
Done(s) == /\ op' = [op EXCEPT ![s] = Idle]
           /\ sess' = IF op[s].what = "archive" THEN [sess EXCEPT ![s] = "archived"] ELSE sess

(* Another session works there: the claim is given up, no more.            *)
Relinquish(s) ==
  /\ op[s].pc = "share"
  /\ inst' = Released(s) /\ Done(s)
  /\ UNCHANGED <<git, upkeep, moves, seen>>

Active(s)  == inst[s].status = "active"
Takes(s)   == Active(s) /\ (op[s].what = "archive" => inst[s].ownsTree)
Branch(s)  == IF op[s].what = "archive" /\ inst[s].ownsBranch /\ inst[s].branch \in branches
              THEN inst[s].branch ELSE "none"

SafeTree(s) == Takes(s) => ~IsDirty(inst[s].path)    \* mutant: the branch is not checked

(* Unless forced: no uncommitted changes in a worktree that would go, no   *)
(* unmerged commits in a branch that would.                                *)
Safe(s) == (Takes(s) => ~IsDirty(inst[s].path)) /\ IsMerged(Branch(s))

Refuse(s) ==
  /\ \/ op[s].pc = "last" /\ ~op[s].force /\ ~Safe(s)
     \/ /\ op[s].pc = "checked" /\ Takes(s)
        /\ tree[inst[s].path] = "none" \/ (~op[s].force /\ IsDirty(inst[s].path))
  /\ op' = [op EXCEPT ![s] = Idle]
  /\ UNCHANGED <<git, inst, sess, upkeep, moves, seen>>

Pass(s) ==
  /\ op[s].pc = "last" /\ (op[s].force \/ Safe(s))
  /\ op' = [op EXCEPT ![s].pc = "checked"]
  /\ late' = IF op[s].force THEN late ELSE late \ {Branch(s)}
  /\ UNCHANGED <<git, inst, sess, upkeep, moves, lost, gone, overlap, switched, takers>>

(* The worktree goes first: git asks again whether it has changes.         *)
Remove(s) ==
  LET p == inst[s].path IN
  /\ op[s].pc = "checked"
  /\ IF Takes(s)
     THEN /\ tree[p] # "none" /\ (op[s].force \/ ~IsDirty(p))
          /\ RemoveTree(p, op[s].what)
          /\ lost' = Loses(p, "none", Why("none", op[s].force))
     ELSE UNCHANGED <<tree, dirty, loose, gone, lost>>
  /\ op' = [op EXCEPT ![s].pc = "removed"]
  /\ UNCHANGED <<branches, unmerged, inst, sess, upkeep, moves, overlap, past>>

(* The branch goes last, and nobody asks again whether it is merged (-D);  *)
(* git refuses one that is checked out, and with it the archive fails, its *)
(* worktree gone and its instance released.                                *)
Finish(s) ==
  LET b == Branch(s) IN
  /\ op[s].pc = "removed"
  /\ inst' = Released(s)
  /\ IF b # "none" /\ CheckedOut(b) # {}
     THEN op' = [op EXCEPT ![s] = Idle] /\ UNCHANGED <<sess, branches, unmerged, lost, takers>>
     ELSE /\ Done(s) /\ DropBranch(b)
          /\ lost' = Loses("none", b, Why(b, op[s].force))
          /\ takers' = Takers(b, s)
  /\ UNCHANGED <<tree, dirty, loose, upkeep, moves, gone, overlap, late, switched>>
-----------------------------------------------------------------------------
(* cleanup_orphan_worktrees: the sessions first, then the worktrees.  Of   *)
(* it and of delete_workspace_branch the forced form is left out.          *)

SweepBegins ==
  /\ Move
  /\ sweep = "idle" /\ sweep' = "trees"
  /\ known' = {s \in Sessions : sess[s] \in {"live", "ended", "archived"}}
  /\ UNCHANGED <<git, inst, sess, op, condemned, seen>>

Orphan(b) == b \in Managed \ known

(* Found merged (and, by the user's request, free): branch -D is next.     *)
Condemn(b, by) ==
  /\ condemned' = condemned \cup {<<b, by>>}
  /\ late' = late \ {b}

BetweenTwo == \A b \in Branches : <<b, "sweep">> \notin condemned

SweepTree(p) ==
  LET b == tree[p] IN
  /\ sweep = "trees" /\ BetweenTwo /\ Orphan(b) /\ ~IsDirty(p)
  /\ RemoveTree(p, "sweep")
  /\ lost' = Loses(p, "none", "checked")
  /\ IF IsMerged(b) THEN Condemn(b, "sweep") ELSE UNCHANGED <<condemned, late>>
  /\ UNCHANGED <<branches, unmerged, inst, sess, op, sweep, known, moves, overlap, switched, takers>>

SweepBranch(b) ==
  /\ sweep # "idle" /\ sweep' = "branches" /\ BetweenTwo
  /\ Orphan(b) /\ b \in branches /\ IsMerged(b)
  /\ Condemn(b, "sweep")
  /\ UNCHANGED <<git, inst, sess, op, known, moves, lost, gone, overlap, switched, takers>>

SweepEnds ==
  /\ sweep # "idle" /\ BetweenTwo
  /\ sweep' = "idle" /\ known' = {}
  /\ UNCHANGED <<git, inst, sess, op, condemned, moves, seen>>

(* delete_workspace_branch.                                                *)
DeleteBranch(b) ==
  /\ Move
  /\ b \in branches /\ IsMerged(b) /\ CheckedOut(b) = {}
  /\ Condemn(b, "user")
  /\ UNCHANGED <<git, inst, sess, op, sweep, known, lost, gone, overlap, switched, takers>>

(* branch -D for either of them; git refuses a branch that is checked out. *)
Execute(b, by) ==
  /\ <<b, by>> \in condemned /\ condemned' = condemned \ {<<b, by>>}
  /\ IF b \in branches /\ CheckedOut(b) = {}
     THEN /\ DropBranch(b)
          /\ lost' = Loses("none", b, Why(b, FALSE))
          /\ takers' = IF by = "sweep" THEN Takers(b, by) ELSE takers
     ELSE UNCHANGED <<branches, unmerged, lost, takers>>
  /\ UNCHANGED <<tree, dirty, loose, inst, sess, op, sweep, known, moves,
                 gone, overlap, late, switched>>
-----------------------------------------------------------------------------
(* The user and the agents, at any time and in any worktree.               *)

Edit(p) ==
  /\ tree[p] # "none" /\ p \notin dirty /\ Move
  /\ dirty' = dirty \cup {p}
  /\ UNCHANGED <<tree, branches, unmerged, loose, inst, sess, op, upkeep, seen>>

(* Some request found b merged and has not deleted it yet.                 *)
Pending(b) ==
  \/ \E by \in {"user", "sweep"} : <<b, by>> \in condemned
  \/ \E s \in Sessions : op[s].pc \in {"checked", "removed"} /\ ~op[s].force /\ Branch(s) = b

Commit(p) ==
  /\ p \in dirty /\ dirty' = dirty \ {p}
  /\ IF tree[p] = "detached"
     THEN loose' = loose \cup {p} /\ UNCHANGED <<unmerged, late>>
     ELSE /\ unmerged' = unmerged \cup {tree[p]} /\ UNCHANGED loose
          /\ late' = IF Pending(tree[p]) THEN late \cup {tree[p]} ELSE late
  /\ UNCHANGED <<tree, branches, inst, sess, op, upkeep, moves,
                 lost, gone, overlap, switched, takers>>

(* git switch, in a worktree with nothing of its own.                      *)
Switch(p, b) ==
  /\ tree[p] \notin {"none", b} /\ p \notin dirty \cup loose /\ Move
  /\ b \in branches /\ CheckedOut(b) = {}
  /\ tree' = [tree EXCEPT ![p] = b] /\ switched' = switched \cup {p}
  /\ UNCHANGED <<branches, dirty, unmerged, loose, inst, sess, op, sweep, known, condemned,
                 lost, gone, overlap, late, takers>>

Merge(b) ==
  /\ b \in unmerged /\ unmerged' = unmerged \ {b}
  /\ UNCHANGED <<tree, branches, dirty, loose, inst, sess, op, upkeep, moves, seen>>

Next ==
  \/ \E s \in Sessions :
       \/ NewBranch(s) \/ \E b \in Branches : Borrow(s, b)
       \/ \E p \in Paths : Share(s, p)
       \/ Insert(s) \/ (\E inserted \in BOOLEAN : Rollback(s, inserted)) \/ End(s)
       \/ Detach(s) \/ Attach(s)
       \/ \E what \in {"archive", "cleanup"}, force \in BOOLEAN : Ask(s, what, force)
       \/ Relinquish(s) \/ Refuse(s) \/ Pass(s) \/ Remove(s) \/ Finish(s)
  \/ SweepBegins \/ SweepEnds
  \/ \E p \in Paths : SweepTree(p) \/ Edit(p) \/ Commit(p)
  \/ \E b \in Branches :
       \/ SweepBranch(b) \/ DeleteBranch(b) \/ \E by \in {"user", "sweep"} : Execute(b, by)
       \/ Merge(b) \/ \E p \in Paths : Switch(p, b)

Spec == Init /\ [][Next]_vars
-----------------------------------------------------------------------------
(* A worktree the user made is never removed, save by the clean-up of a    *)
(* session that shared it, which does not ask who owns it, or by a sweep   *)
(* when it was switched to a branch that looks like an orphan's; and       *)
(* nothing but delete_workspace_branch ever deletes the user's branch, but *)
(* for a session that was given it in a worktree of the daemon's that an   *)
(* agent had switched to it, and inherited what the worktree's maker owns. *)
UserKept ==
  /\ \/ tree["user"] # "none" \/ <<"user", "cleanup">> \in gone
     \/ "user" \in switched /\ <<"user", "sweep">> \in gone
  /\ takers \subseteq {s \in Sessions : inst[s].path \in switched \cap Sessions}

(* No request loses uncommitted changes or unmerged commits unless it was  *)
(* forced, except the commits of a detached HEAD, which nothing checks,    *)
(* what was done in a worktree whose maker then failed to start, and what  *)
(* was committed to a branch after a request that deletes it had found it  *)
(* merged.                                                                 *)
NoLoss == lost \subseteq {"forced", "detached", "rollback", "raced"}

(* The worktree a session runs in is not removed under it, unless it was   *)
(* joined while that was asked, or its branch was taken for an orphan's,   *)
(* or the session that made it failed to start.                            *)
HomeKept ==
  \A s \in Sessions : sess[s] = "live" =>
    \/ tree[inst[s].path] # "none" \/ inst[s].path \in overlap
    \/ \E by \in {"sweep", "rollback"} : <<inst[s].path, by>> \in gone

(* When all who used a worktree the daemon made are archived it is gone,   *)
(* unless their requests overlapped.                                       *)
Reclaimed ==
  \A p \in Sessions :
    LET users == {s \in Sessions : inst[s].path = p} IN
    users # {} /\ (\A s \in users : sess[s] = "archived")
      => tree[p] = "none" \/ p \in overlap
=============================================================================
