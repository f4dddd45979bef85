-------------------------- MODULE WorktreesProofs ---------------------------
(***************************************************************************)
(* Proofs about Worktrees, for any finite set of sessions and any number   *)
(* of edits, detachments, sweeps and deletions: which worktrees, branches  *)
(* and changes creates, failures, clean-ups, archives and sweeps remove,   *)
(* however they interleave, and that they leave none of the daemon's.      *)
(***************************************************************************)
EXTENDS Worktrees, FiniteSetTheorems, TLAPS

(* Where an instance stands.                                               *)
Statuses == {"none", "resolved", "active", "released"}

(* The instances a session may have.                                       *)
Instances == [path : Paths \cup {"none"}, branch : Branches \cup {"none"}, ownsTree : BOOLEAN,
              ownsBranch : BOOLEAN, rollback : BOOLEAN, status : Statuses, born : Nat]

(* The requests it may have under way.                                     *)
Requests == [pc : {"idle", "last", "share", "checked", "removed"}, what : {"archive", "cleanup"},
             force : BOOLEAN]

(* Why work may be lost, whether it should be or not.                      *)
Reasons == {"forced", "detached", "checked", "rollback", "raced"}

(* The declared types, with those of the records.                          *)
Types ==
  /\ tree \in [Paths -> Branches \cup {"detached", "none"}]
  /\ branches \subseteq Branches /\ unmerged \subseteq branches
  /\ dirty \subseteq Paths /\ loose \subseteq Paths
  /\ inst \in [Sessions -> Instances] /\ op \in [Sessions -> Requests]
  /\ sess \in [Sessions -> {"none", "creating", "live", "ended", "archived", "void"}]
  /\ sweep \in {"idle", "trees", "branches"} /\ known \subseteq Sessions
  /\ condemned \subseteq Branches \X {"user", "sweep"}
  /\ lost \subseteq Reasons

(* A session's state and its instance's go together, and only one that     *)
(* ended has a request under way.                                          *)
Staged ==
  \A s \in Sessions :
    /\ sess[s] \in {"none", "void"} => inst[s] = None
    /\ sess[s] = "creating" => inst[s].status = "resolved"
    /\ sess[s] = "live" => inst[s].status = "active"
    /\ sess[s] = "ended" => inst[s].status \in {"active", "released"}
    /\ sess[s] = "archived" => inst[s].status = "released"
    /\ op[s].pc # "idle" => sess[s] = "ended"
    /\ inst[s].status # "none" => inst[s].path \in Paths /\ inst[s].branch \in Branches

(* A worktree and a branch named by a session are that session's making:   *)
(* until it starts there is neither, and nobody knows of them.             *)
Made ==
  /\ \A s \in Sessions : sess[s] = "none" =>
       tree[s] = "none" /\ s \notin branches /\ \A t \in Sessions : inst[t].path # s
  /\ \A p \in Sessions : tree[p] # "none" => inst[p].path = p
  /\ \A s \in Sessions : /\ inst[s].path = s => inst[s].ownsTree
                         /\ inst[s].rollback <=> inst[s].path = s

(* A branch that is checked out exists, and is checked out once; and       *)
(* changes are in a worktree.                                              *)
Once ==
  /\ \A p \in dirty : tree[p] # "none"
  /\ \A p \in Paths : tree[p] \in branches \cup {"detached", "none"}
  /\ \A p, q \in Paths : tree[p] \in Branches /\ tree[q] = tree[p] => p = q

(* Nobody owns the worktree that the user made, or the branch in it.       *)
UserTree ==
  /\ tree["user"] \in {"topic", "detached", "none"} \/ "user" \in switched
  /\ tree["user"] = "none" => \/ <<"user", "cleanup">> \in gone
                              \/ "user" \in switched /\ <<"user", "sweep">> \in gone
  /\ \A s \in Sessions :
       inst[s].path = "user" => /\ ~inst[s].ownsTree /\ ~inst[s].ownsBranch
                                /\ inst[s].branch = "topic" \/ "user" \in switched

(* Until somebody switches it, a worktree is on the branch that all its    *)
(* instances record, so that who inherits a claim to a branch inherits it  *)
(* to the branch that was made with the worktree.                          *)
OneBranch ==
  \A s, t \in Sessions :
    inst[s].path \in Paths \ switched /\ inst[t].path = inst[s].path
      => /\ inst[t].branch = inst[s].branch
         /\ tree[inst[s].path] \in {inst[s].branch, "detached", "none"}

(* A session that made its worktree owns no branch but its own; a claim to *)
(* the user's is inherited in a worktree that was switched to it.          *)
Claims ==
  \A s \in Sessions :
    /\ inst[s].rollback /\ inst[s].ownsBranch => inst[s].branch = s
    /\ inst[s].ownsBranch /\ inst[s].branch = "topic" => inst[s].path \in switched \cap Sessions

(* The sweep is to delete none but the daemon's own branches.              *)
Swept == \A b \in Branches : <<b, "sweep">> \in condemned => b \in Managed

(* Who deleted the user's branch had such a claim.                         *)
Taken ==
  takers \subseteq {s \in Sessions : /\ inst[s].path \in switched \cap Sessions
                                    /\ sess[s] \in {"ended", "archived"}}

(* What was found merged by a request that deletes it without asking again *)
(* is merged still, or somebody has committed to it since.                 *)
StillMerged ==
  /\ \A b \in unmerged, by \in {"user", "sweep"} : <<b, by>> \in condemned => b \in late
  /\ \A s \in Sessions :
       /\ op[s].pc \in {"checked", "removed"} /\ ~op[s].force
       /\ op[s].what = "archive" /\ inst[s].ownsBranch /\ inst[s].branch \in unmerged
       => inst[s].branch \in late

(* Who comes to a worktree whose last sharer is leaving overlaps with it.  *)
JoinedLate ==
  \A s, t \in Sessions :
    /\ s # t /\ inst[s].path = inst[t].path /\ inst[s].status \in {"resolved", "active"}
    /\ op[t].pc \in {"last", "checked", "removed"}
    => inst[s].path \in overlap

(* Who runs in a worktree has one, unless somebody came late to it or it   *)
(* was swept or rolled back under a sharer.                                *)
Homes ==
  \A s \in Sessions : sess[s] \in {"creating", "live"} =>
    \/ tree[inst[s].path] # "none" \/ inst[s].path \in overlap
    \/ \E by \in {"sweep", "rollback"} : <<inst[s].path, by>> \in gone

(* Who works in a worktree the daemon made owns it.                        *)
Owned ==
  \A s \in Sessions :
    inst[s].path \in Sessions => inst[s].ownsTree \/ inst[s].path \in overlap

(* Whose request found another sharer leaves one behind; and a worktree    *)
(* the daemon made has somebody who is to remove it.                       *)
Waiting ==
  \A s \in Sessions :
    op[s].pc = "share" /\ inst[s].path \notin overlap
      => \E t \in Sessions \ {s} : /\ inst[t].path = inst[s].path
                                   /\ inst[t].status = "active" /\ op[t].pc = "idle"

(* A request that is through with a worktree the daemon made leaves none.  *)
Emptied ==
  \A s \in Sessions :
    op[s].pc = "removed" /\ inst[s].path \in Sessions
      => \/ tree[inst[s].path] = "none" \/ inst[s].path \in overlap
         \/ inst[s].status = "released"

(* A worktree the daemon made, that nobody came late to, has somebody who  *)
(* will remove it: an instance that still holds it, or the create that     *)
(* made it.                                                                *)
Claimed ==
  \A p \in Sessions :
    tree[p] # "none" /\ p \notin overlap
      => \E s \in Sessions : /\ inst[s].path = p
                             /\ \/ inst[s].status = "active"
                                \/ s = p /\ inst[s].status = "resolved"

-----------------------------------------------------------------------------
(* What a create does for its session.                                     *)
Creates(s, p, b) ==
  /\ sess[s] = "none" /\ sess' = [sess EXCEPT ![s] = "creating"]
  /\ inst' \in [Sessions -> Instances] /\ \A t \in Sessions \ {s} : inst'[t] = inst[t]
  /\ inst'[s].status = "resolved" /\ inst'[s].path = p /\ inst'[s].branch = b
  /\ UNCHANGED <<dirty, unmerged, loose, op, upkeep, moves, lost, gone, past>>

(* What its failure does for its session.                                  *)
CreateFails(s, inserted) ==
  /\ sess[s] = "creating" /\ inst' \in [Sessions -> Instances]
  /\ \A t \in Sessions \ {s} : inst'[t] = inst[t] /\ sess'[t] = sess[t]
  /\ ~inserted => sess'[s] = "void" /\ inst'[s] = None
  /\ inserted => /\ sess'[s] = "ended"
                 /\ inst'[s].status \in {"active", "released"}
                 /\ inst[s].rollback => inst'[s].status = "released"
                 /\ inst'[s].path = inst[s].path /\ inst'[s].branch = inst[s].branch
                 /\ inst'[s].ownsTree = inst[s].ownsTree
                 /\ inst'[s].ownsBranch = inst[s].ownsBranch
                 /\ inst'[s].rollback = inst[s].rollback

(* What its failure does to git.                                           *)
Undoes(s) ==
  LET p == inst[s].path
      b == inst[s].branch IN
  /\ op' = op /\ UNCHANGED upkeep /\ late' = late /\ switched' = switched
  /\ takers' = takers \/ (takers' = Takers(b, s) /\ inst[s].rollback /\ inst[s].ownsBranch)
  /\ ~inst[s].rollback => UNCHANGED <<git, gone, overlap>>
  /\ inst[s].rollback =>
       /\ tree' = [tree EXCEPT ![p] = "none"] /\ dirty' = dirty \ {p} /\ loose' = loose \ {p}
       /\ gone' = gone \cup {<<p, "rollback">>} /\ overlap \subseteq overlap'
       /\ Joining(p) \/ Sharers(s) # {} => p \in overlap'
       /\ \/ branches' = branches /\ unmerged' = unmerged
          \/ /\ branches' = branches \ {b} /\ unmerged' = unmerged \ {b}
             /\ CheckedOut(b) \subseteq {p}

-----------------------------------------------------------------------------
(* An instance with another status or date is an instance.                 *)
LEMMA InstanceWith ==
  ASSUME NEW x \in Instances, NEW st \in Statuses
  PROVE  /\ [x EXCEPT !.status = st] \in Instances
         /\ \A n \in Nat : [x EXCEPT !.status = st, !.born = n] \in Instances
BY DEF Instances

(* Instances are dated by a count, so there must be finitely many          *)
(* sessions.                                                               *)
LEMMA BornType == Born \in Nat
<1>1. IsFiniteSet({s \in Sessions : inst[s] # None})
  BY WorktreeAssumption, FS_Subset
<1> QED BY <1>1, FS_CardinalityType DEF Born

(* What changes, and what does not, when one instance gets a status.       *)
LEMMA StatusGiven ==
  ASSUME Types, NEW s \in Sessions, NEW st \in Statuses,
         inst' = [inst EXCEPT ![s].status = st]
  PROVE  /\ inst' \in [Sessions -> Instances]
         /\ \A t \in Sessions \ {s} : inst'[t] = inst[t]
         /\ inst'[s].status = st /\ inst'[s].path = inst[s].path /\ inst'[s].branch = inst[s].branch
         /\ inst'[s].ownsTree = inst[s].ownsTree /\ inst'[s].ownsBranch = inst[s].ownsBranch
         /\ inst'[s].rollback = inst[s].rollback
<1>1. inst[s] \in Instances /\ inst' = [inst EXCEPT ![s] = [inst[s] EXCEPT !.status = st]]
  BY DEF Types
<1>2. [inst[s] EXCEPT !.status = st] \in Instances
  BY <1>1, InstanceWith
<1> QED BY <1>1, <1>2 DEF Types

(* What a create that resolved its workspace has done.                     *)
LEMMA Resolved ==
  ASSUME Types, NEW s \in Sessions, NEW p \in Paths, NEW b \in Branches, NEW o \in BOOLEAN,
         NEW w \in BOOLEAN, NEW r \in BOOLEAN, sess[s] = "none",
         Resolve(s, Instance(p, b, o, w, r))
  PROVE  /\ Creates(s, p, b) /\ inst'[s].ownsTree = o
         /\ inst'[s].ownsBranch = w /\ inst'[s].rollback = r
<1> DEFINE i == Instance(p, b, o, w, r)
           n == Born
<1>1. n \in Nat
  BY BornType
<1> HIDE DEF n
<1>2. i \in Instances
  BY <1>1 DEF Instance, Instances, Statuses, n
<1>3. /\ i.status = "resolved" /\ i.path = p /\ i.branch = b /\ i.ownsTree = o
      /\ i.ownsBranch = w /\ i.rollback = r
  BY DEF Instance
<1> HIDE DEF i
<1>4. inst' = [inst EXCEPT ![s] = i]
  BY DEF Resolve, i
<1>5. /\ sess' = [sess EXCEPT ![s] = "creating"]
      /\ UNCHANGED <<dirty, unmerged, loose, op, upkeep, moves, lost, gone, past>>
  BY DEF Resolve, upkeep, past
<1> QED BY <1>2, <1>3, <1>4, <1>5 DEF Types, Creates

(* What a create that failed has done.                                     *)
LEMMA RolledBack ==
  ASSUME Types, Staged, NEW s \in Sessions, NEW inserted \in BOOLEAN, Rollback(s, inserted)
  PROVE  /\ CreateFails(s, inserted)
         /\ Undoes(s)
<1> DEFINE st == IF inst[s].rollback THEN "released" ELSE "active"
           row == IF inserted THEN [inst[s] EXCEPT !.status = st] ELSE None
<1>1. inst[s] \in Instances /\ st \in Statuses
  BY DEF Types, Statuses
<1>2. inst' = [inst EXCEPT ![s] = row]
  BY DEF Rollback
<1>3. sess' = [sess EXCEPT ![s] = IF inserted THEN "ended" ELSE "void"] /\ sess[s] = "creating"
  BY DEF Rollback
<1>4. Undoes(s)
  <2>1. inst[s].path \in Paths
    BY <1>3 DEF Staged
  <2>2. CASE inst[s].rollback
    <3>1. /\ RemoveTree(inst[s].path, "rollback") /\ op' = op /\ UNCHANGED upkeep
          /\ late' = late /\ switched' = switched
          /\ takers' = takers \/ (takers' = Takers(inst[s].branch, s) /\ inst[s].ownsBranch)
      BY <2>2 DEF Rollback, upkeep
    <3>2. \/ branches' = branches /\ unmerged' = unmerged
          \/ /\ branches' = branches \ {inst[s].branch} /\ unmerged' = unmerged \ {inst[s].branch}
             /\ CheckedOut(inst[s].branch) \subseteq {inst[s].path}
      BY <2>2 DEF Rollback, DropBranch
    <3>3. Joining(inst[s].path) \/ Sharers(s) # {} => inst[s].path \in overlap'
      BY <2>2 DEF Rollback
    <3>4. overlap \subseteq overlap'
      BY <2>2 DEF Rollback
    <3> QED BY <2>1, <2>2, <3>1, <3>2, <3>3, <3>4 DEF Undoes, RemoveTree
  <2>3. CASE ~inst[s].rollback
    BY <2>3 DEF Rollback, Undoes, upkeep
  <2> QED BY <2>2, <2>3
<1> HIDE DEF st
<1>5. [inst[s] EXCEPT !.status = st] \in Instances
  BY <1>1, InstanceWith
<1>6. None \in Instances
  BY DEF None, Instances, Statuses
<1>7. row \in Instances
  BY <1>5, <1>6
<1>8. inserted => /\ row.status = st /\ row.path = inst[s].path /\ row.branch = inst[s].branch
                  /\ row.ownsTree = inst[s].ownsTree /\ row.ownsBranch = inst[s].ownsBranch
                  /\ row.rollback = inst[s].rollback
  BY <1>1
<1>9. ~inserted => row = None
  OBVIOUS
<1> HIDE DEF row
<1>10. inst'[s] = row /\ \A t \in Sessions \ {s} : inst'[t] = inst[t] /\ sess'[t] = sess[t]
  BY <1>2, <1>3 DEF Types
<1>11. inserted => sess'[s] = "ended"
  BY <1>3 DEF Types
<1>12. ~inserted => sess'[s] = "void"
  BY <1>3 DEF Types
<1>13. inst' \in [Sessions -> Instances]
  BY <1>2, <1>7 DEF Types
<1>14. inserted => /\ inst'[s].status \in {"active", "released"}
                   /\ inst[s].rollback => inst'[s].status = "released"
  BY <1>8, <1>10 DEF st
<1> QED BY <1>3, <1>8, <1>9, <1>10, <1>11, <1>12, <1>13, <1>14, <1>4 DEF CreateFails

(* What a sharer inherits is an instance recorded at its path, or nothing  *)
(* when there is none.                                                     *)
LEMMA InheritedTypes ==
  ASSUME Types, NEW p \in Paths, NEW i \in Inherited(p)
  PROVE  /\ i \in Instances
         /\ \/ i = None /\ ~\E t \in Rows : inst[t].path = p
            \/ \E t \in Sessions : inst[t].path = p /\ i = inst[t]
<1>1. None \in Instances
  BY DEF None, Instances, Statuses
<1> QED BY <1>1 DEF Inherited, Rows, Types

(* A create on a new branch.                                               *)
LEMMA NewBranchLeaves ==
  ASSUME Types, NEW s \in Sessions, NewBranch(s)
  PROVE  /\ Creates(s, s, s) /\ inst'[s].rollback /\ inst'[s].ownsTree /\ inst'[s].ownsBranch
         /\ tree' = [tree EXCEPT ![s] = s] /\ branches' = branches \cup {s} /\ overlap' = overlap
<1>1. Resolve(s, Instance(s, s, TRUE, TRUE, TRUE)) /\ s \in Paths /\ s \in Branches
  BY DEF NewBranch, Paths, Branches
<1>2. /\ tree' = [tree EXCEPT ![s] = s] /\ branches' = branches \cup {s}
      /\ overlap' = overlap /\ sess[s] = "none"
  BY DEF NewBranch, CreateWorktree
<1> QED BY ZenonT(60), <1>1, <1>2, Resolved DEF Creates

(* A create on a branch that exists and is checked out nowhere.            *)
LEMMA BorrowLeaves ==
  ASSUME Types, NEW s \in Sessions, NEW b \in Branches, Borrow(s, b)
  PROVE  /\ Creates(s, s, b) /\ inst'[s].rollback /\ inst'[s].ownsTree /\ ~inst'[s].ownsBranch
         /\ tree' = [tree EXCEPT ![s] = b] /\ branches' = branches /\ overlap' = overlap
         /\ b \in branches /\ CheckedOut(b) = {}
<1>1. Resolve(s, Instance(s, b, TRUE, FALSE, TRUE)) /\ s \in Paths
  BY DEF Borrow, Paths
<1>2. /\ tree' = [tree EXCEPT ![s] = b] /\ branches' = branches /\ overlap' = overlap
      /\ sess[s] = "none" /\ b \in branches /\ CheckedOut(b) = {}
  BY DEF Borrow, CreateWorktree
<1> QED BY ZenonT(60), <1>1, <1>2, Resolved DEF Creates

(* A create in a worktree that exists, whose ownership it inherits.        *)
LEMMA ShareLeaves ==
  ASSUME Types, NEW s \in Sessions, NEW p \in Paths, Share(s, p)
  PROVE  /\ Creates(s, p, tree[p]) /\ ~inst'[s].rollback
         /\ tree' = tree /\ branches' = branches /\ tree[p] \in branches
         /\ \/ /\ ~inst'[s].ownsTree /\ ~inst'[s].ownsBranch
               /\ ~\E t \in Rows : inst[t].path = p
            \/ \E t \in Sessions : /\ inst[t].path = p /\ inst'[s].ownsTree = inst[t].ownsTree
                                   /\ inst'[s].ownsBranch = inst[t].ownsBranch
         /\ overlap \subseteq overlap'
         /\ Joining(p) \/ (\E t \in Rows : inst[t].path = p /\ op[t].pc # "idle") => p \in overlap'
<1>1. PICK i \in Inherited(p) :
        Resolve(s, Instance(p, tree[p], i.ownsTree, i.ownsBranch, FALSE))
  BY DEF Share
<1>2. i.ownsTree \in BOOLEAN /\ i.ownsBranch \in BOOLEAN /\ FALSE \in BOOLEAN
  BY InheritedTypes DEF Instances
<1>3. tree' = tree /\ branches' = branches /\ tree[p] \in branches /\ sess[s] = "none"
  BY DEF Share
<1>4. /\ overlap \subseteq overlap'
      /\ Joining(p) \/ (\E t \in Rows : inst[t].path = p /\ op[t].pc # "idle") => p \in overlap'
  BY DEF Share
<1>5. tree[p] \in Branches
  BY <1>3 DEF Types
<1>6. /\ Creates(s, p, tree[p]) /\ ~inst'[s].rollback
      /\ inst'[s].ownsTree = i.ownsTree /\ inst'[s].ownsBranch = i.ownsBranch
  BY <1>1, <1>2, <1>3, <1>5, Resolved
<1>7. \/ ~i.ownsTree /\ ~i.ownsBranch /\ ~\E t \in Rows : inst[t].path = p
      \/ \E t \in Sessions : inst[t].path = p /\ i = inst[t]
  BY InheritedTypes DEF None
<1> QED BY <1>3, <1>4, <1>6, <1>7

(* One session's request is replaced.                                      *)
LEMMA RequestWith ==
  ASSUME Types, NEW s \in Sessions, NEW x \in Requests, op' = [op EXCEPT ![s] = x]
  PROVE  op' \in [Sessions -> Requests] /\ op'[s] = x /\ \A t \in Sessions \ {s} : op'[t] = op[t]
BY DEF Types

(* One session's request goes on.                                          *)
LEMMA RequestMoves ==
  ASSUME Types, NEW s \in Sessions, NEW pc \in {"idle", "last", "share", "checked", "removed"},
         op' = [op EXCEPT ![s].pc = pc]
  PROVE  /\ op' \in [Sessions -> Requests] /\ \A t \in Sessions \ {s} : op'[t] = op[t]
         /\ op'[s].pc = pc /\ op'[s].what = op[s].what /\ op'[s].force = op[s].force
BY DEF Types, Requests

(* A session without a request.                                            *)
LEMMA IdleTypes == Idle \in Requests /\ Idle.pc = "idle"
BY DEF Idle, Requests

(* A request that is through.                                              *)
LEMMA DoneLeaves ==
  ASSUME Types, NEW s \in Sessions, Done(s)
  PROVE  /\ op' \in [Sessions -> Requests] /\ op'[s].pc = "idle"
         /\ \A t \in Sessions \ {s} : op'[t] = op[t] /\ sess'[t] = sess[t]
         /\ sess'[s] \in {sess[s], "archived"}
         /\ sess' \in [Sessions -> {"none", "creating", "live", "ended", "archived", "void"}]
<1>1. op' = [op EXCEPT ![s] = Idle] /\ (sess' = sess \/ sess' = [sess EXCEPT ![s] = "archived"])
  BY DEF Done
<1> QED BY <1>1, RequestWith, IdleTypes DEF Types

(* What git's commands leave is well typed, and so is what is lost.        *)
LEMMA GitTypes ==
  ASSUME Types
  PROVE  /\ \A p \in Paths : \A by :
              RemoveTree(p, by) => /\ tree' \in [Paths -> Branches \cup {"detached", "none"}]
                                   /\ dirty' \subseteq Paths /\ loose' \subseteq Paths
         /\ \A b : DropBranch(b) => branches' \subseteq Branches /\ unmerged' \subseteq branches'
         /\ \A p, b, why : why \in {"forced", "checked", "rollback", "raced"} =>
              Loses(p, b, why) \subseteq Reasons
BY DEF Types, RemoveTree, DropBranch, Loses, Reasons, Paths

-----------------------------------------------------------------------------
(* Every step keeps the types.                                             *)
LEMMA TypesStep ==
  ASSUME Types, Staged, Once, UserTree, [Next]_vars
  PROVE  Types'
<1> USE WorktreeAssumption
<1>1. ASSUME NEW s \in Sessions, NewBranch(s) PROVE Types'
  <2>1. Creates(s, s, s) /\ tree' = [tree EXCEPT ![s] = s] /\ branches' = branches \cup {s}
    BY <1>1, NewBranchLeaves
  <2> QED BY <2>1 DEF Creates, Types, upkeep, Paths, Branches
<1>2. ASSUME NEW s \in Sessions, NEW b \in Branches, Borrow(s, b) PROVE Types'
  <2>1. Creates(s, s, b) /\ tree' = [tree EXCEPT ![s] = b] /\ branches' = branches
    BY <1>2, BorrowLeaves
  <2> QED BY <2>1 DEF Creates, Types, upkeep, Paths
<1>3. ASSUME NEW s \in Sessions, NEW p \in Paths, Share(s, p) PROVE Types'
  <2>1. Creates(s, p, tree[p]) /\ tree' = tree /\ branches' = branches
    BY <1>3, ShareLeaves
  <2> QED BY <2>1 DEF Creates, Types, upkeep
<1>4. ASSUME NEW s \in Sessions, Insert(s) PROVE Types'
  BY <1>4, StatusGiven DEF Insert, Statuses, Types, upkeep, git, seen
<1>5. ASSUME NEW s \in Sessions, NEW inserted \in BOOLEAN, Rollback(s, inserted)
      PROVE  Types'
  <2>1. CreateFails(s, inserted) /\ Undoes(s)
    BY <1>5, RolledBack
  <2>2. sess' \in [Sessions -> {"none", "creating", "live", "ended", "archived", "void"}]
    BY <1>5 DEF Rollback, Types, upkeep
  <2>3. lost' \subseteq Reasons
    BY <1>5 DEF Rollback, Loses, Types, Reasons
  <2>4. branches' \subseteq Branches /\ unmerged' \subseteq branches'
    BY <2>1 DEF Undoes, Types, upkeep, git
  <2>5. /\ tree' \in [Paths -> Branches \cup {"detached", "none"}]
        /\ dirty' \subseteq Paths /\ loose' \subseteq Paths
    BY <2>1 DEF Undoes, Types, upkeep, git
  <2> QED BY <2>1, <2>2, <2>3, <2>4, <2>5 DEF CreateFails, Undoes, Types, upkeep
<1>6. ASSUME NEW s \in Sessions, End(s) PROVE Types'
  BY <1>6 DEF End, Types, upkeep, git, seen
<1>7. ASSUME NEW s \in Sessions, Detach(s) PROVE Types'
  BY <1>7 DEF Detach, DetachBranch, Types, upkeep, Move, seen
<1>8. ASSUME NEW s \in Sessions, Attach(s) PROVE Types'
  BY <1>8 DEF Attach, Types, upkeep, Move, seen
<1>9. ASSUME NEW s \in Sessions, NEW what \in {"archive", "cleanup"},
             NEW force \in BOOLEAN, Ask(s, what, force)
      PROVE  Types'
  <2>1. [pc |-> IF Sharers(s) = {} THEN "last" ELSE "share",
         what |-> what, force |-> force] \in Requests
    BY DEF Requests
  <2> QED BY <1>9, <2>1, RequestWith DEF Ask, Types, upkeep, git
<1>10. ASSUME NEW s \in Sessions, Relinquish(s) PROVE Types'
  BY <1>10, StatusGiven, DoneLeaves DEF Relinquish, Released, Statuses, Types, upkeep, git, seen
<1>11. ASSUME NEW s \in Sessions, Refuse(s) PROVE Types'
  BY <1>11, RequestWith, IdleTypes DEF Refuse, Types, upkeep, git, seen
<1>12. ASSUME NEW s \in Sessions, Remove(s) PROVE Types'
  <2>1. /\ op' \in [Sessions -> Requests]
        /\ Why("none", op[s].force) \in {"forced", "checked", "rollback", "raced"}
    BY <1>12, RequestMoves DEF Remove, Why
  <2>2. inst[s].path \in Paths
    BY <1>12 DEF Remove, Staged
  <2>3. CASE Takes(s)
    BY <1>12, <2>1, <2>2, <2>3, GitTypes DEF Remove, Types, upkeep
  <2>4. CASE ~Takes(s)
    BY <1>12, <2>1, <2>4 DEF Remove, Types, upkeep
  <2> QED BY <2>3, <2>4
<1>13. ASSUME NEW s \in Sessions, Finish(s) PROVE Types'
  <2>1. inst' \in [Sessions -> Instances]
    BY <1>13, StatusGiven DEF Finish, Released, Statuses
  <2>2. CASE Done(s) /\ DropBranch(Branch(s))
    <3>1. \/ lost' = lost
          \/ \E why \in {"forced", "checked", "rollback", "raced"} :
              lost' = Loses("none", Branch(s), why)
      BY <1>13 DEF Finish, Why
    <3>2. lost' \subseteq Reasons
      BY <3>1 DEF Types, Loses, Reasons
    <3>3. branches' \subseteq Branches /\ unmerged' \subseteq branches'
      BY <2>2, GitTypes
    <3> QED BY <1>13, <2>1, <2>2, <3>2, <3>3, DoneLeaves DEF Finish, Types, upkeep
  <2>3. CASE ~(Done(s) /\ DropBranch(Branch(s)))
    BY <1>13, <2>1, <2>3, RequestWith, IdleTypes DEF Finish, Types, upkeep
  <2> QED BY <2>2, <2>3
<1>14. ASSUME SweepBegins PROVE Types'
  BY <1>14 DEF SweepBegins, Types, upkeep, git, seen
<1>15. ASSUME SweepEnds PROVE Types'
  BY <1>15 DEF SweepEnds, Types, git, seen
<1>16. ASSUME NEW p \in Paths, SweepTree(p) PROVE Types'
  <2>1. tree[p] \in Branches
    BY <1>16 DEF SweepTree, Orphan, Managed
  <2>2. condemned' \subseteq Branches \X {"user", "sweep"}
    BY <1>16, <2>1 DEF SweepTree, Condemn, Types
  <2>3. lost' \subseteq Reasons
    BY <1>16, GitTypes DEF SweepTree
  <2> QED BY <1>16, <2>2, <2>3, GitTypes DEF SweepTree, Types
<1>17. ASSUME NEW p \in Paths, Edit(p) PROVE Types'
  BY <1>17 DEF Edit, Types, upkeep, seen
<1>18. ASSUME NEW p \in Paths, Commit(p) PROVE Types'
  <2>1. unmerged' \subseteq branches
    BY <1>18 DEF Commit, Types, upkeep, Once
  <2> QED BY <1>18, <2>1 DEF Commit, Types, upkeep, seen
<1>19. ASSUME NEW b \in Branches, SweepBranch(b) PROVE Types'
  BY <1>19, GitTypes DEF SweepBranch, Condemn, Types, upkeep, git
<1>20. ASSUME NEW b \in Branches, DeleteBranch(b) PROVE Types'
  BY <1>20, GitTypes DEF DeleteBranch, Condemn, Types, upkeep, git
<1>21. ASSUME NEW b \in Branches, Merge(b) PROVE Types'
  BY <1>21 DEF Merge, Types, upkeep, seen
<1>22. CASE UNCHANGED vars
  BY <1>22 DEF vars, Types, upkeep, git, seen
<1>23. ASSUME NEW s \in Sessions, Pass(s) PROVE Types'
  BY <1>23, RequestMoves DEF Pass, Types, upkeep, git
<1>24. ASSUME NEW b \in Branches, NEW by \in {"user", "sweep"}, Execute(b, by) PROVE Types'
  <2>1. lost' \subseteq Reasons
    <3>1. lost' = lost \/ lost' = Loses("none", b, Why(b, FALSE))
      BY <1>24 DEF Execute
    <3>2. Why(b, FALSE) \in {"forced", "checked", "rollback", "raced"}
      BY DEF Why
    <3> QED BY <3>1, <3>2 DEF Loses, Reasons, Types
  <2>2. branches' \subseteq Branches /\ unmerged' \subseteq branches'
    BY <1>24, GitTypes DEF Execute, Types
  <2> QED BY <1>24, <2>1, <2>2 DEF Execute, Types
<1>25. ASSUME NEW p \in Paths, NEW b \in Branches, Switch(p, b) PROVE Types'
  BY <1>25 DEF Switch, Types, upkeep
<1> QED BY <1>1, <1>2, <1>3, <1>4, <1>5, <1>6, <1>7, <1>8, <1>9, <1>10, <1>11, <1>12, <1>13,
           <1>14, <1>15, <1>16, <1>17, <1>18, <1>19, <1>20, <1>21, <1>22, <1>23, <1>24,
           <1>25 DEF Next

(* Every step keeps a session, its instance and its request together.      *)
LEMMA StagedStep ==
  ASSUME Types, Staged, [Next]_vars
  PROVE  Staged'
<1> USE WorktreeAssumption
<1>1. ASSUME NEW s \in Sessions, NewBranch(s) PROVE Staged'
  BY <1>1, NewBranchLeaves DEF Creates, Types, Staged, Paths, Branches
<1>2. ASSUME NEW s \in Sessions, NEW b \in Branches, Borrow(s, b) PROVE Staged'
  BY <1>2, BorrowLeaves DEF Creates, Types, Staged, Paths
<1>3. ASSUME NEW s \in Sessions, NEW p \in Paths, Share(s, p) PROVE Staged'
  <2>1. /\ Creates(s, p, tree[p]) /\ ~inst'[s].rollback /\ tree' = tree
        /\ branches' = branches /\ tree[p] \in branches /\ overlap \subseteq overlap'
    BY <1>3, ShareLeaves
  <2> QED BY <2>1 DEF Creates, Types, Staged
<1>4. ASSUME NEW s \in Sessions, Insert(s) PROVE Staged'
  BY <1>4, StatusGiven DEF Insert, Types, Staged
<1>5. ASSUME NEW s \in Sessions, NEW inserted \in BOOLEAN, Rollback(s, inserted)
      PROVE  Staged'
  <2>1. CreateFails(s, inserted) /\ Undoes(s)
    BY <1>5, RolledBack
  <2>2. None.path = "none" /\ ~None.rollback /\ None.path \notin Paths /\ None.status = "none"
    BY DEF None, Paths
  <2>3. CASE inserted
    BY <2>1, <2>3 DEF CreateFails, Undoes, Staged
  <2>4. CASE ~inserted
    BY <2>1, <2>2, <2>4 DEF CreateFails, Undoes, Staged
  <2> QED BY <2>3, <2>4
<1>6. ASSUME NEW s \in Sessions, End(s) PROVE Staged'
  BY <1>6 DEF End, Staged
<1>7. ASSUME NEW s \in Sessions, Detach(s) PROVE Staged'
  BY <1>7 DEF Detach, Staged
<1>8. ASSUME NEW s \in Sessions, Attach(s) PROVE Staged'
  BY <1>8 DEF Attach, Staged
<1>9. ASSUME NEW s \in Sessions, NEW what \in {"archive", "cleanup"},
             NEW force \in BOOLEAN, Ask(s, what, force)
      PROVE  Staged'
  BY <1>9 DEF Ask, Staged
<1>10. ASSUME NEW s \in Sessions, Relinquish(s) PROVE Staged'
  BY <1>10, StatusGiven, DoneLeaves DEF Relinquish, Released, Types, Staged
<1>11. ASSUME NEW s \in Sessions, Refuse(s) PROVE Staged'
  BY <1>11 DEF Refuse, Staged
<1>12. ASSUME NEW s \in Sessions, Remove(s) PROVE Staged'
  BY <1>12 DEF Remove, Staged
<1>13. ASSUME NEW s \in Sessions, Finish(s) PROVE Staged'
  BY <1>13, StatusGiven, DoneLeaves, RequestWith, IdleTypes DEF Finish, Released, Types,
     Staged
<1>14. ASSUME SweepBegins PROVE Staged'
  BY <1>14 DEF SweepBegins, Staged
<1>15. ASSUME SweepEnds PROVE Staged'
  BY <1>15 DEF SweepEnds, Staged
<1>16. ASSUME NEW p \in Paths, SweepTree(p) PROVE Staged'
  BY <1>16 DEF SweepTree, Staged
<1>17. ASSUME NEW p \in Paths, Edit(p) PROVE Staged'
  BY <1>17 DEF Edit, Staged
<1>18. ASSUME NEW p \in Paths, Commit(p) PROVE Staged'
  BY <1>18 DEF Commit, Staged
<1>19. ASSUME NEW b \in Branches, SweepBranch(b) PROVE Staged'
  BY <1>19 DEF SweepBranch, Staged
<1>20. ASSUME NEW b \in Branches, DeleteBranch(b) PROVE Staged'
  BY <1>20 DEF DeleteBranch, Staged
<1>21. ASSUME NEW b \in Branches, Merge(b) PROVE Staged'
  BY <1>21 DEF Merge, Staged
<1>22. CASE UNCHANGED vars
  BY <1>22 DEF vars, Staged
<1>23. ASSUME NEW s \in Sessions, Pass(s) PROVE Staged'
  BY <1>23 DEF Pass, Staged, git
<1>24. ASSUME NEW b \in Branches, NEW by \in {"user", "sweep"}, Execute(b, by) PROVE Staged'
  BY <1>24 DEF Execute, DropBranch, Staged
<1>25. ASSUME NEW p \in Paths, NEW b \in Branches, Switch(p, b) PROVE Staged'
  BY <1>25 DEF Switch, Staged
<1> QED BY <1>1, <1>2, <1>3, <1>4, <1>5, <1>6, <1>7, <1>8, <1>9, <1>10, <1>11, <1>12, <1>13,
           <1>14, <1>15, <1>16, <1>17, <1>18, <1>19, <1>20, <1>21, <1>22, <1>23, <1>24,
           <1>25 DEF Next

(* No step makes a session's worktree or branch, or names them, before it  *)
(* starts.                                                                 *)
LEMMA MadeStep ==
  ASSUME Types, Staged, Made, Once, [Next]_vars
  PROVE  Made'
<1> USE WorktreeAssumption
<1>1. ASSUME NEW s \in Sessions, NewBranch(s) PROVE Made'
  BY <1>1, NewBranchLeaves DEF Creates, Types, Made, Paths
<1>2. ASSUME NEW s \in Sessions, NEW b \in Branches, Borrow(s, b) PROVE Made'
  BY <1>2, BorrowLeaves DEF Creates, Types, Made, Paths
<1>3. ASSUME NEW s \in Sessions, NEW p \in Paths, Share(s, p) PROVE Made'
  <2>1. /\ Creates(s, p, tree[p]) /\ ~inst'[s].rollback /\ tree' = tree
        /\ branches' = branches /\ tree[p] \in branches /\ overlap \subseteq overlap'
    BY <1>3, ShareLeaves
  <2> QED BY <2>1 DEF Creates, Types, Made, Branches
<1>4. ASSUME NEW s \in Sessions, Insert(s) PROVE Made'
  BY <1>4, StatusGiven DEF Insert, Made, git
<1>5. ASSUME NEW s \in Sessions, NEW inserted \in BOOLEAN, Rollback(s, inserted) PROVE Made'
  <2>1. CreateFails(s, inserted) /\ Undoes(s)
    BY <1>5, RolledBack
  <2>2. None.path = "none" /\ ~None.rollback /\ None.path \notin Paths /\ None.status = "none"
    BY DEF None, Paths
  <2>3. CASE inserted
    BY <2>1, <2>3 DEF CreateFails, Undoes, Types, Made, Paths, git
  <2>4. CASE ~inserted
    BY <2>1, <2>2, <2>4 DEF CreateFails, Undoes, Types, Made, Paths, git
  <2> QED BY <2>3, <2>4
<1>6. ASSUME NEW s \in Sessions, End(s) PROVE Made'
  BY <1>6 DEF End, Made, git
<1>7. ASSUME NEW s \in Sessions, Detach(s) PROVE Made'
  <2>1. \A p \in Paths : /\ tree'[p] \in {tree[p], "detached"}
                         /\ tree[p] = "none" => tree'[p] = "none"
    BY <1>7 DEF Detach, DetachBranch, Staged, Branches
  <2> QED BY <1>7, <2>1 DEF Detach, Made, Paths
<1>8. ASSUME NEW s \in Sessions, Attach(s) PROVE Made'
  BY <1>8 DEF Attach, Made
<1>9. ASSUME NEW s \in Sessions, NEW what \in {"archive", "cleanup"},
             NEW force \in BOOLEAN, Ask(s, what, force)
      PROVE  Made'
  BY <1>9 DEF Ask, Made, git
<1>10. ASSUME NEW s \in Sessions, Relinquish(s) PROVE Made'
  BY <1>10, StatusGiven, DoneLeaves DEF Relinquish, Released, Made, git
<1>11. ASSUME NEW s \in Sessions, Refuse(s) PROVE Made'
  BY <1>11 DEF Refuse, Made, git
<1>12. ASSUME NEW s \in Sessions, Remove(s) PROVE Made'
  BY <1>12 DEF Remove, RemoveTree, Types, Made, Paths
<1>13. ASSUME NEW s \in Sessions, Finish(s) PROVE Made'
  BY <1>13, StatusGiven, DoneLeaves, RequestWith, IdleTypes DEF Finish, Released,
     DropBranch, Made
<1>14. ASSUME SweepBegins PROVE Made'
  BY <1>14 DEF SweepBegins, Made, git
<1>15. ASSUME SweepEnds PROVE Made'
  BY <1>15 DEF SweepEnds, Made, git
<1>16. ASSUME NEW p \in Paths, SweepTree(p) PROVE Made'
  BY <1>16 DEF SweepTree, RemoveTree, Made
<1>17. ASSUME NEW p \in Paths, Edit(p) PROVE Made'
  BY <1>17 DEF Edit, Made
<1>18. ASSUME NEW p \in Paths, Commit(p) PROVE Made'
  BY <1>18 DEF Commit, Made
<1>19. ASSUME NEW b \in Branches, SweepBranch(b) PROVE Made'
  BY <1>19 DEF SweepBranch, Made, git
<1>20. ASSUME NEW b \in Branches, DeleteBranch(b) PROVE Made'
  BY <1>20 DEF DeleteBranch, Made, git
<1>21. ASSUME NEW b \in Branches, Merge(b) PROVE Made'
  BY <1>21 DEF Merge, Made
<1>22. CASE UNCHANGED vars
  BY <1>22 DEF vars, Made, git
<1>23. ASSUME NEW s \in Sessions, Pass(s) PROVE Made'
  BY <1>23 DEF Pass, Made, git
<1>24. ASSUME NEW b \in Branches, NEW by \in {"user", "sweep"}, Execute(b, by) PROVE Made'
  BY <1>24 DEF Execute, DropBranch, Made
<1>25. ASSUME NEW p \in Paths, NEW b \in Branches, Switch(p, b) PROVE Made'
  BY <1>25 DEF Switch, Types, Made, Paths
<1> QED BY <1>1, <1>2, <1>3, <1>4, <1>5, <1>6, <1>7, <1>8, <1>9, <1>10, <1>11, <1>12, <1>13,
           <1>14, <1>15, <1>16, <1>17, <1>18, <1>19, <1>20, <1>21, <1>22, <1>23, <1>24,
           <1>25 DEF Next

(* No step checks a branch out twice, or removes one that is checked out.  *)
LEMMA OnceStep ==
  ASSUME Types, Staged, Made, Once, [Next]_vars
  PROVE  Once'
<1> USE WorktreeAssumption
<1>1. ASSUME NEW s \in Sessions, NewBranch(s) PROVE Once'
  BY <1>1, NewBranchLeaves DEF Creates, Types, Made, Once
<1>2. ASSUME NEW s \in Sessions, NEW b \in Branches, Borrow(s, b) PROVE Once'
  BY <1>2, BorrowLeaves DEF Creates, Types, Once, Branches, CheckedOut
<1>3. ASSUME NEW s \in Sessions, NEW p \in Paths, Share(s, p) PROVE Once'
  <2>1. /\ Creates(s, p, tree[p]) /\ ~inst'[s].rollback /\ tree' = tree
        /\ branches' = branches /\ tree[p] \in branches /\ overlap \subseteq overlap'
    BY <1>3, ShareLeaves
  <2> QED BY <2>1 DEF Creates, Once
<1>4. ASSUME NEW s \in Sessions, Insert(s) PROVE Once'
  BY <1>4, StatusGiven DEF Insert, Once, git
<1>5. ASSUME NEW s \in Sessions, NEW inserted \in BOOLEAN, Rollback(s, inserted) PROVE Once'
  <2>1. CreateFails(s, inserted) /\ Undoes(s)
    BY <1>5, RolledBack
  <2>2. None.path = "none" /\ ~None.rollback /\ None.path \notin Paths /\ None.status = "none"
    BY DEF None, Paths
  <2>3. CASE inserted
    BY <2>1, <2>3 DEF Undoes, CheckedOut, Types, Once, Branches, git
  <2>4. CASE ~inserted
    BY <2>1, <2>2, <2>4 DEF Undoes, CheckedOut, Types, Once, Branches, git
  <2> QED BY <2>3, <2>4
<1>6. ASSUME NEW s \in Sessions, End(s) PROVE Once'
  BY <1>6 DEF End, Once, git
<1>7. ASSUME NEW s \in Sessions, Detach(s) PROVE Once'
  BY <1>7 DEF Detach, DetachBranch, Once, Branches
<1>8. ASSUME NEW s \in Sessions, Attach(s) PROVE Once'
  BY <1>8 DEF Attach, CheckedOut, Staged, Once, Branches
<1>9. ASSUME NEW s \in Sessions, NEW what \in {"archive", "cleanup"},
             NEW force \in BOOLEAN, Ask(s, what, force)
      PROVE  Once'
  BY <1>9 DEF Ask, Once, git
<1>10. ASSUME NEW s \in Sessions, Relinquish(s) PROVE Once'
  BY <1>10, StatusGiven, DoneLeaves DEF Relinquish, Once, git
<1>11. ASSUME NEW s \in Sessions, Refuse(s) PROVE Once'
  BY <1>11 DEF Refuse, Once, git
<1>12. ASSUME NEW s \in Sessions, Remove(s) PROVE Once'
  BY <1>12 DEF Remove, RemoveTree, Types, Once, Branches
<1>13. ASSUME NEW s \in Sessions, Finish(s) PROVE Once'
  BY <1>13, StatusGiven, DoneLeaves, RequestWith, IdleTypes DEF Finish, DropBranch,
     CheckedOut, Once
<1>14. ASSUME SweepBegins PROVE Once'
  BY <1>14 DEF SweepBegins, Once, git
<1>15. ASSUME SweepEnds PROVE Once'
  BY <1>15 DEF SweepEnds, Once, git
<1>16. ASSUME NEW p \in Paths, SweepTree(p) PROVE Once'
  BY <1>16 DEF SweepTree, RemoveTree, Types, Once, Branches
<1>17. ASSUME NEW p \in Paths, Edit(p) PROVE Once'
  BY <1>17 DEF Edit, Once
<1>18. ASSUME NEW p \in Paths, Commit(p) PROVE Once'
  BY <1>18 DEF Commit, Once
<1>19. ASSUME NEW b \in Branches, SweepBranch(b) PROVE Once'
  BY <1>19 DEF SweepBranch, Once, git
<1>20. ASSUME NEW b \in Branches, DeleteBranch(b) PROVE Once'
  BY <1>20 DEF DeleteBranch, Once, git
<1>21. ASSUME NEW b \in Branches, Merge(b) PROVE Once'
  BY <1>21 DEF Merge, Once
<1>22. CASE UNCHANGED vars
  BY <1>22 DEF vars, Once, git
<1>23. ASSUME NEW s \in Sessions, Pass(s) PROVE Once'
  BY <1>23 DEF Pass, Once, git
<1>24. ASSUME NEW b \in Branches, NEW by \in {"user", "sweep"}, Execute(b, by) PROVE Once'
  BY <1>24 DEF Execute, CheckedOut, DropBranch, Once
<1>25. ASSUME NEW p \in Paths, NEW b \in Branches, Switch(p, b) PROVE Once'
  BY <1>25 DEF Switch, CheckedOut, Types, Once, Branches
<1> QED BY <1>1, <1>2, <1>3, <1>4, <1>5, <1>6, <1>7, <1>8, <1>9, <1>10, <1>11, <1>12, <1>13,
           <1>14, <1>15, <1>16, <1>17, <1>18, <1>19, <1>20, <1>21, <1>22, <1>23, <1>24,
           <1>25 DEF Next

(* No step gives the user's worktree an owner, and only a clean-up that    *)
(* was asked for it removes it.                                            *)
LEMMA UserTreeStep ==
  ASSUME Types, Staged, Made, Once, OneBranch, UserTree, [Next]_vars
  PROVE  UserTree'
<1> USE WorktreeAssumption
<1>1. ASSUME NEW s \in Sessions, NewBranch(s) PROVE UserTree'
  BY <1>1, NewBranchLeaves DEF Creates, Types, UserTree, past, Paths
<1>2. ASSUME NEW s \in Sessions, NEW b \in Branches, Borrow(s, b) PROVE UserTree'
  <2>1. Creates(s, s, b) /\ tree' = [tree EXCEPT ![s] = b]
    BY <1>2, BorrowLeaves
  <2> QED BY <2>1 DEF Creates, UserTree, past
<1>3. ASSUME NEW s \in Sessions, NEW p \in Paths, Share(s, p) PROVE UserTree'
  <2>1. /\ Creates(s, p, tree[p]) /\ ~inst'[s].rollback /\ tree' = tree
        /\ branches' = branches /\ tree[p] \in branches /\ overlap \subseteq overlap'
    BY <1>3, ShareLeaves
  <2>2. \/ ~inst'[s].ownsTree /\ ~inst'[s].ownsBranch
        \/ \E t \in Sessions : /\ inst[t].path = p /\ inst'[s].ownsTree = inst[t].ownsTree
                               /\ inst'[s].ownsBranch = inst[t].ownsBranch
    BY <1>3, ShareLeaves
  <2>3. /\ tree' = tree /\ gone' = gone /\ switched' = switched /\ inst'[s].path = p
        /\ inst'[s].branch = tree[p] /\ \A t \in Sessions \ {s} : inst'[t] = inst[t]
    BY <2>1 DEF Creates, past
  <2>4. p = "user" => tree[p] = "topic" \/ "user" \in switched
    BY <2>1 DEF UserTree, Types, Branches
  <2>5. p = "user" => ~inst'[s].ownsTree /\ ~inst'[s].ownsBranch
    BY ZenonT(60), <2>2 DEF UserTree
  <2> QED BY <2>3, <2>4, <2>5 DEF UserTree
<1>4. ASSUME NEW s \in Sessions, Insert(s) PROVE UserTree'
  BY <1>4, StatusGiven DEF Insert, UserTree, past, git, seen
<1>5. ASSUME NEW s \in Sessions, NEW inserted \in BOOLEAN, Rollback(s, inserted)
      PROVE  UserTree'
  <2>1. CreateFails(s, inserted) /\ Undoes(s)
    BY <1>5, RolledBack
  <2>2. tree'["user"] = tree["user"] /\ gone \subseteq gone' /\ switched' = switched
    BY <2>1 DEF Undoes, Made, Types, Paths, git
  <2>3. None.path # "user"
    BY DEF None
  <2> QED BY <2>1, <2>2, <2>3 DEF CreateFails, UserTree, past
<1>6. ASSUME NEW s \in Sessions, End(s) PROVE UserTree'
  BY <1>6 DEF End, UserTree, past, git, seen
<1>7. ASSUME NEW s \in Sessions, Detach(s) PROVE UserTree'
  BY <1>7 DEF Detach, DetachBranch, UserTree, past, seen
<1>8. ASSUME NEW s \in Sessions, Attach(s) PROVE UserTree'
  <2>1. /\ tree' = [tree EXCEPT ![inst[s].path] = inst[s].branch] /\ inst' = inst
        /\ gone' = gone /\ switched' = switched /\ inst[s].branch \in branches
    BY <1>8 DEF Attach, seen, past
  <2>2. inst[s].branch # "none"
    BY <2>1 DEF Types, Branches
  <2>3. "user" \in Paths /\ tree \in [Paths -> Branches \cup {"detached", "none"}]
    BY DEF Types, Paths
  <2> QED BY <2>1, <2>2, <2>3 DEF UserTree
<1>9. ASSUME NEW s \in Sessions, NEW what \in {"archive", "cleanup"},
             NEW force \in BOOLEAN, Ask(s, what, force)
      PROVE  UserTree'
  BY <1>9 DEF Ask, UserTree, past, git
<1>10. ASSUME NEW s \in Sessions, Relinquish(s) PROVE UserTree'
  BY <1>10, StatusGiven, DoneLeaves DEF Relinquish, Released, UserTree, past, git, seen
<1>11. ASSUME NEW s \in Sessions, Refuse(s) PROVE UserTree'
  BY <1>11 DEF Refuse, UserTree, past, git, seen
<1>12. ASSUME NEW s \in Sessions, Remove(s) PROVE UserTree'
  <2>1. op' = [op EXCEPT ![s].pc = "removed"] /\ inst' = inst /\ switched' = switched
    BY <1>12 DEF Remove, past
  <2>2. CASE Takes(s) /\ inst[s].path = "user"
    <3>1. op[s].what = "cleanup"
      BY <2>2 DEF Takes, UserTree, past, Types, Requests
    <3>2. tree' = [tree EXCEPT !["user"] = "none"] /\ gone' = gone \cup {<<"user", "cleanup">>}
      BY <1>12, <2>2, <3>1 DEF Remove, RemoveTree
    <3> QED BY <2>1, <3>2 DEF UserTree, past
  <2>3. CASE Takes(s) /\ inst[s].path # "user"
    <3>1. tree' = [tree EXCEPT ![inst[s].path] = "none"] /\ gone \subseteq gone'
      BY <1>12, <2>3 DEF Remove, RemoveTree
    <3> QED BY <2>1, <2>3, <3>1 DEF UserTree, past
  <2>4. CASE ~Takes(s)
    BY <1>12, <2>1, <2>4 DEF Remove, UserTree, past
  <2> QED BY <2>2, <2>3, <2>4
<1>13. ASSUME NEW s \in Sessions, Finish(s) PROVE UserTree'
  BY <1>13, StatusGiven, DoneLeaves, RequestWith, IdleTypes DEF Finish, Released, UserTree, past
<1>14. ASSUME SweepBegins PROVE UserTree'
  BY <1>14 DEF SweepBegins, UserTree, past, git, seen
<1>15. ASSUME SweepEnds PROVE UserTree'
  BY <1>15 DEF SweepEnds, UserTree, past, git, seen
<1>16. ASSUME NEW p \in Paths, SweepTree(p) PROVE UserTree'
  BY <1>16 DEF SweepTree, Orphan, Managed, RemoveTree, UserTree, past, Branches
<1>17. ASSUME NEW p \in Paths, Edit(p) PROVE UserTree'
  BY <1>17 DEF Edit, UserTree, past, seen
<1>18. ASSUME NEW p \in Paths, Commit(p) PROVE UserTree'
  BY <1>18 DEF Commit, UserTree, past, seen
<1>19. ASSUME NEW b \in Branches, SweepBranch(b) PROVE UserTree'
  BY <1>19 DEF SweepBranch, UserTree, past, git
<1>20. ASSUME NEW b \in Branches, DeleteBranch(b) PROVE UserTree'
  BY <1>20 DEF DeleteBranch, UserTree, past, git
<1>21. ASSUME NEW b \in Branches, Merge(b) PROVE UserTree'
  BY <1>21 DEF Merge, UserTree, past, seen
<1>22. CASE UNCHANGED vars
  BY <1>22 DEF vars, UserTree, past, git, seen
<1>23. ASSUME NEW s \in Sessions, Pass(s) PROVE UserTree'
  BY <1>23 DEF Pass, UserTree, past, git
<1>24. ASSUME NEW b \in Branches, NEW by \in {"user", "sweep"}, Execute(b, by) PROVE UserTree'
  BY <1>24 DEF Execute, DropBranch, UserTree, past
<1>25. ASSUME NEW p \in Paths, NEW b \in Branches, Switch(p, b) PROVE UserTree'
  <2>1. /\ tree' = [tree EXCEPT ![p] = b] /\ switched' = switched \cup {p}
        /\ inst' = inst /\ gone' = gone /\ b # "none" /\ tree[p] # "none"
    BY <1>25 DEF Switch, Branches
  <2>2. "user" \in Paths /\ tree \in [Paths -> Branches \cup {"detached", "none"}]
    BY DEF Types, Paths
  <2> QED BY <2>1, <2>2 DEF UserTree
<1> QED BY <1>1, <1>2, <1>3, <1>4, <1>5, <1>6, <1>7, <1>8, <1>9, <1>10, <1>11, <1>12, <1>13,
           <1>14, <1>15, <1>16, <1>17, <1>18, <1>19, <1>20, <1>21, <1>22, <1>23, <1>24,
           <1>25 DEF Next

(* No step but a switch puts a worktree on a branch that its instances do  *)
(* not record.                                                             *)
LEMMA OneBranchStep ==
  ASSUME Types, Staged, Made, Once, OneBranch, [Next]_vars
  PROVE  OneBranch'
<1> USE WorktreeAssumption
<1>1. ASSUME NEW s \in Sessions, NewBranch(s) PROVE OneBranch'
  BY <1>1, NewBranchLeaves DEF Creates, Types, Made, past, Paths, OneBranch
<1>2. ASSUME NEW s \in Sessions, NEW b \in Branches, Borrow(s, b) PROVE OneBranch'
  BY <1>2, BorrowLeaves DEF Creates, Types, Made, past, Paths, OneBranch
<1>3. ASSUME NEW s \in Sessions, NEW p \in Paths, Share(s, p) PROVE OneBranch'
  <2>1. /\ Creates(s, p, tree[p]) /\ tree' = tree /\ branches' = branches
        /\ tree[p] \in branches
    BY <1>3, ShareLeaves
  <2>2. tree[p] \notin {"detached", "none"} /\ switched' = switched
    BY <2>1 DEF Creates, past, Types, Branches
  <2> QED BY <2>1, <2>2 DEF Creates, OneBranch
<1>4. ASSUME NEW s \in Sessions, Insert(s) PROVE OneBranch'
  BY <1>4, StatusGiven DEF Insert, OneBranch, git, seen, past
<1>5. ASSUME NEW s \in Sessions, NEW inserted \in BOOLEAN, Rollback(s, inserted) PROVE OneBranch'
  <2>1. CreateFails(s, inserted) /\ Undoes(s)
    BY <1>5, RolledBack
  <2>2. None.path = "none" /\ ~None.rollback /\ ~None.ownsBranch /\ None.path \notin Paths
    BY DEF None, Paths
  <2>3. CASE inserted
    BY <2>1, <2>3 DEF CreateFails, Undoes, Types, OneBranch, Paths, git
  <2>4. CASE ~inserted
    BY <2>1, <2>2, <2>4 DEF CreateFails, Undoes, Types, OneBranch, Paths, git
  <2> QED BY <2>3, <2>4
<1>6. ASSUME NEW s \in Sessions, Detach(s) PROVE OneBranch'
  BY <1>6 DEF Detach, DetachBranch, Types, OneBranch, seen, past
<1>7. ASSUME NEW s \in Sessions, Attach(s) PROVE OneBranch'
  BY <1>7 DEF Attach, Types, OneBranch, seen, past
<1>8. ASSUME NEW s \in Sessions, Relinquish(s) PROVE OneBranch'
  BY <1>8, StatusGiven DEF Relinquish, Released, OneBranch, git, seen, past
<1>9. ASSUME NEW s \in Sessions, Remove(s) PROVE OneBranch'
  BY <1>9 DEF Remove, RemoveTree, Types, OneBranch, past
<1>10. ASSUME NEW s \in Sessions, Finish(s) PROVE OneBranch'
  BY <1>10, StatusGiven DEF Finish, Released, OneBranch
<1>11. ASSUME NEW p \in Paths, SweepTree(p) PROVE OneBranch'
  BY <1>11 DEF SweepTree, RemoveTree, Types, OneBranch
<1>12. ASSUME NEW p \in Paths, NEW b \in Branches, Switch(p, b) PROVE OneBranch'
  BY <1>12 DEF Switch, Types, OneBranch
<1>13. ASSUME UNCHANGED <<inst, tree, switched>> PROVE OneBranch'
  BY <1>13 DEF OneBranch
<1> QED BY <1>1, <1>2, <1>3, <1>4, <1>5, <1>6, <1>7, <1>8, <1>9, <1>10, <1>11, <1>12, <1>13
           DEF Next, vars, git, seen, past, End, Ask, Refuse, Pass, SweepBegins, SweepEnds,
               SweepBranch, DeleteBranch, Execute, Edit, Commit, Merge

(* No step gives a session a claim to a branch that it did not make, but   *)
(* for a share of a worktree that was switched.                            *)
LEMMA ClaimsStep ==
  ASSUME Types, Staged, Made, UserTree, OneBranch, Claims, [Next]_vars
  PROVE  Claims'
<1> USE WorktreeAssumption
<1>1. ASSUME NEW s \in Sessions, NewBranch(s) PROVE Claims'
  BY <1>1, NewBranchLeaves DEF Creates, Types, past, Claims
<1>2. ASSUME NEW s \in Sessions, NEW b \in Branches, Borrow(s, b) PROVE Claims'
  BY <1>2, BorrowLeaves DEF Creates, Types, past, Claims
<1>3. ASSUME NEW s \in Sessions, NEW p \in Paths, Share(s, p) PROVE Claims'
  <2>1. /\ Creates(s, p, tree[p]) /\ ~inst'[s].rollback /\ tree' = tree
        /\ branches' = branches /\ tree[p] \in branches
    BY <1>3, ShareLeaves
  <2>2. \/ ~inst'[s].ownsBranch
        \/ \E t \in Sessions : inst[t].path = p /\ inst'[s].ownsBranch = inst[t].ownsBranch
    BY <1>3, ShareLeaves
  <2>3. switched' = switched /\ tree[p] \notin {"detached", "none"}
    BY <2>1 DEF Creates, past, Types, Branches
  <2>4. inst'[s].ownsBranch /\ inst'[s].branch = "topic" => p \in switched \cap Sessions
    <3> SUFFICES ASSUME inst'[s].ownsBranch, tree[p] = "topic" PROVE p \in switched \cap Sessions
      BY <2>1 DEF Creates
    <3>1. PICK t \in Sessions : inst[t].path = p /\ inst[t].ownsBranch
      BY <2>2
    <3>2. p \in Sessions
      BY <3>1 DEF UserTree, Paths
    <3>3. p \notin switched => inst[t].branch = "topic"
      BY <2>3, <3>1 DEF OneBranch
    <3> QED BY <3>1, <3>2, <3>3 DEF Claims
  <2> QED BY <2>1, <2>3, <2>4 DEF Creates, Claims
<1>4. ASSUME NEW s \in Sessions, Insert(s) PROVE Claims'
  BY <1>4, StatusGiven DEF Insert, Claims, seen, past
<1>5. ASSUME NEW s \in Sessions, NEW inserted \in BOOLEAN, Rollback(s, inserted) PROVE Claims'
  <2>1. CreateFails(s, inserted) /\ Undoes(s)
    BY <1>5, RolledBack
  <2>2. None.path = "none" /\ ~None.rollback /\ ~None.ownsBranch /\ None.path \notin Paths
    BY DEF None, Paths
  <2>3. CASE inserted
    BY <2>1, <2>3 DEF CreateFails, Undoes, Claims
  <2>4. CASE ~inserted
    BY <2>1, <2>2, <2>4 DEF CreateFails, Undoes, Claims
  <2> QED BY <2>3, <2>4
<1>6. ASSUME NEW s \in Sessions, Relinquish(s) PROVE Claims'
  BY <1>6, StatusGiven DEF Relinquish, Released, Claims, seen, past
<1>7. ASSUME NEW s \in Sessions, Finish(s) PROVE Claims'
  BY <1>7, StatusGiven DEF Finish, Released, Claims
<1>8. ASSUME NEW p \in Paths, NEW b \in Branches, Switch(p, b) PROVE Claims'
  BY <1>8 DEF Switch, Claims
<1>9. ASSUME UNCHANGED <<inst, switched>> PROVE Claims'
  BY <1>9 DEF Claims
<1> QED BY <1>1, <1>2, <1>3, <1>4, <1>5, <1>6, <1>7, <1>8, <1>9 DEF Next, vars, git, seen, past,
     End, Detach, Attach, Ask, Refuse, Pass, Remove, SweepBegins, SweepTree, SweepEnds,
     SweepBranch, DeleteBranch, Execute, Edit, Commit, Merge

(* The sweep condemns no other branches.                                   *)
LEMMA SweptStep ==
  ASSUME Types, Swept, [Next]_vars
  PROVE  Swept'
<1> USE WorktreeAssumption
<1>1. ASSUME NEW p \in Paths, SweepTree(p) PROVE Swept'
  BY <1>1 DEF SweepTree, Condemn, Orphan, Swept
<1>2. ASSUME NEW b \in Branches, SweepBranch(b) PROVE Swept'
  BY <1>2 DEF SweepBranch, Condemn, Orphan, Swept
<1>3. ASSUME NEW b \in Branches, DeleteBranch(b) PROVE Swept'
  BY <1>3 DEF DeleteBranch, Condemn, Swept
<1>4. ASSUME NEW b \in Branches, NEW by \in {"user", "sweep"}, Execute(b, by) PROVE Swept'
  BY <1>4 DEF Execute, Swept
<1>5. ASSUME UNCHANGED upkeep PROVE Swept'
  BY <1>5 DEF upkeep, Swept
<1>6. ASSUME UNCHANGED <<condemned>> PROVE Swept'
  BY <1>6 DEF Swept
<1>7. ASSUME NEW s \in Sessions, NewBranch(s) PROVE UNCHANGED condemned
  BY <1>7 DEF NewBranch, Resolve, upkeep
<1>8. ASSUME NEW s \in Sessions, NEW b \in Branches, Borrow(s, b) PROVE UNCHANGED condemned
  BY <1>8 DEF Borrow, Resolve, upkeep
<1>9. ASSUME NEW s \in Sessions, NEW p \in Paths, Share(s, p) PROVE UNCHANGED condemned
  BY <1>9 DEF Share, Resolve, upkeep
<1>10. ASSUME NEW s \in Sessions, NEW inserted \in BOOLEAN, Rollback(s, inserted)
       PROVE  UNCHANGED condemned
  BY <1>10 DEF Rollback, upkeep
<1>11. ASSUME NEW s \in Sessions, Remove(s) \/ Finish(s) PROVE UNCHANGED condemned
  BY <1>11 DEF Remove, Finish, upkeep
<1> QED BY <1>1, <1>2, <1>3, <1>4, <1>5, <1>6, <1>7, <1>8, <1>9, <1>10, <1>11
           DEF Next, vars, upkeep, Insert, End, Detach, Attach, Ask, Relinquish, Refuse, Pass,
               SweepBegins, SweepEnds, Edit, Commit, Switch, Merge

(* No step deletes the user's branch for a session that has no such claim. *)
LEMMA TakenStep ==
  ASSUME Types, Staged, Made, Claims, Swept, Taken, [Next]_vars
  PROVE  Taken'
<1> USE WorktreeAssumption
<1>1. ASSUME NEW s \in Sessions, NewBranch(s) PROVE Taken'
  BY <1>1, NewBranchLeaves DEF Creates, Types, past, Taken
<1>2. ASSUME NEW s \in Sessions, NEW b \in Branches, Borrow(s, b) PROVE Taken'
  BY <1>2, BorrowLeaves DEF Creates, Types, past, Taken
<1>3. ASSUME NEW s \in Sessions, NEW p \in Paths, Share(s, p) PROVE Taken'
  <2>1. Creates(s, p, tree[p])
    BY <1>3, ShareLeaves
  <2> QED BY <2>1 DEF Creates, Types, past, Taken
<1>4. ASSUME NEW s \in Sessions, Insert(s) PROVE Taken'
  BY <1>4, StatusGiven DEF Insert, Types, Taken, seen, past
<1>5. ASSUME NEW s \in Sessions, NEW inserted \in BOOLEAN, Rollback(s, inserted) PROVE Taken'
  <2>1. CreateFails(s, inserted) /\ Undoes(s)
    BY <1>5, RolledBack
  <2>2. takers' = takers
    BY <2>1 DEF Undoes, Takers, Claims
  <2> QED BY <2>1, <2>2 DEF CreateFails, Undoes, Taken
<1>6. ASSUME NEW s \in Sessions, End(s) PROVE Taken'
  BY <1>6 DEF End, Types, Taken, seen, past
<1>7. ASSUME NEW s \in Sessions, Relinquish(s) PROVE Taken'
  BY <1>7, StatusGiven, DoneLeaves DEF Relinquish, Released, Taken, seen, past
<1>8. ASSUME NEW s \in Sessions, Finish(s) PROVE Taken'
  <2>1. /\ sess[s] = "ended" /\ switched' = switched
        /\ \A t \in Sessions : inst'[t].path = inst[t].path
    BY <1>8, StatusGiven DEF Finish, Released, Staged
  <2>2. \A t \in Sessions : sess'[t] \in {sess[t], "archived"} /\ (t # s => sess'[t] = sess[t])
    BY <1>8, DoneLeaves DEF Finish
  <2>3. takers' \subseteq takers \/ (takers' = takers \cup {s} /\ Branch(s) = "topic")
    BY <1>8 DEF Finish, Takers
  <2>4. Branch(s) = "topic" => inst[s].path \in switched \cap Sessions
    BY DEF Branch, Claims
  <2> QED BY <2>1, <2>2, <2>3, <2>4 DEF Taken
<1>9. ASSUME NEW b \in Branches, NEW by \in {"user", "sweep"}, Execute(b, by) PROVE Taken'
  <2>1. by = "sweep" => b \in Managed
    BY <1>9 DEF Execute, Swept
  <2> QED BY <1>9, <2>1 DEF Execute, Takers, Managed, Taken
<1>10. ASSUME NEW p \in Paths, NEW b \in Branches, Switch(p, b) PROVE Taken'
  BY <1>10 DEF Switch, Taken
<1>11. ASSUME UNCHANGED <<inst, sess, switched, takers>> PROVE Taken'
  BY <1>11 DEF Taken
<1> QED BY <1>1, <1>2, <1>3, <1>4, <1>5, <1>6, <1>7, <1>8, <1>9, <1>10, <1>11
           DEF Next, vars, git, seen, past, Detach, Attach, Ask, Refuse, Pass, Remove,
               SweepBegins, SweepTree, SweepEnds, SweepBranch, DeleteBranch, Edit, Commit, Merge

(* Every step that makes a branch unmerged, which a request has found      *)
(* merged, is recorded.                                                    *)
LEMMA StillMergedStep ==
  ASSUME Types, Staged, Made, Once, StillMerged, [Next]_vars
  PROVE  StillMerged'
<1> USE WorktreeAssumption
<1>1. ASSUME NEW s \in Sessions, NewBranch(s) PROVE StillMerged'
  BY <1>1, NewBranchLeaves DEF Creates, Staged, StillMerged, upkeep, seen, past
<1>2. ASSUME NEW s \in Sessions, NEW b \in Branches, Borrow(s, b) PROVE StillMerged'
  BY <1>2, BorrowLeaves DEF Creates, Staged, StillMerged, upkeep, seen, past
<1>3. ASSUME NEW s \in Sessions, NEW p \in Paths, Share(s, p) PROVE StillMerged'
  <2>1. /\ Creates(s, p, tree[p]) /\ ~inst'[s].rollback /\ tree' = tree
        /\ branches' = branches /\ tree[p] \in branches /\ overlap \subseteq overlap'
    BY <1>3, ShareLeaves
  <2> QED BY <2>1 DEF Creates, Staged, StillMerged, upkeep, seen, past
<1>4. ASSUME NEW s \in Sessions, Insert(s) PROVE StillMerged'
  BY <1>4, StatusGiven DEF Insert, StillMerged, upkeep,
     seen, past, git
<1>5. ASSUME NEW s \in Sessions, NEW inserted \in BOOLEAN, Rollback(s, inserted)
      PROVE  StillMerged'
  <2>1. CreateFails(s, inserted) /\ Undoes(s)
    BY <1>5, RolledBack
  <2>2. None.path = "none" /\ ~None.rollback /\ None.path \notin Paths /\ None.status = "none"
    BY DEF None, Paths
  <2>3. CASE inserted
    BY <2>1, <2>3 DEF CreateFails, Undoes, StillMerged, upkeep,
     seen, past, git
  <2>4. CASE ~inserted
    BY <2>1, <2>2, <2>4 DEF CreateFails, Undoes, Staged, StillMerged, upkeep,
     seen, past, git
  <2> QED BY <2>3, <2>4
<1>6. ASSUME NEW s \in Sessions, End(s) PROVE StillMerged'
  BY <1>6 DEF End, StillMerged, upkeep,
     seen, past, git
<1>7. ASSUME NEW s \in Sessions, Detach(s) PROVE StillMerged'
  BY <1>7 DEF Detach, StillMerged, upkeep, seen, past
<1>8. ASSUME NEW s \in Sessions, Attach(s) PROVE StillMerged'
  BY <1>8 DEF Attach, StillMerged, upkeep, seen, past
<1>9. ASSUME NEW s \in Sessions, NEW what \in {"archive", "cleanup"},
             NEW force \in BOOLEAN, Ask(s, what, force)
      PROVE  StillMerged'
  BY <1>9 DEF Ask, StillMerged, upkeep,
     seen, past, git
<1>10. ASSUME NEW s \in Sessions, Relinquish(s) PROVE StillMerged'
  BY <1>10, StatusGiven, DoneLeaves DEF Relinquish, Released, StillMerged, upkeep,
     seen, past, git
<1>11. ASSUME NEW s \in Sessions, Refuse(s) PROVE StillMerged'
  BY <1>11 DEF Refuse, Idle, StillMerged, upkeep,
     seen, past, git
<1>12. ASSUME NEW s \in Sessions, Remove(s) PROVE StillMerged'
  BY <1>12, RequestMoves DEF Remove, StillMerged, upkeep, seen, past
<1>13. ASSUME NEW s \in Sessions, Finish(s) PROVE StillMerged'
  BY <1>13, StatusGiven, DoneLeaves, RequestWith, IdleTypes DEF Finish, Released,
     DropBranch, StillMerged, upkeep, past
<1>14. ASSUME SweepBegins PROVE StillMerged'
  BY <1>14 DEF SweepBegins, StillMerged, upkeep,
     seen, past, git
<1>15. ASSUME SweepEnds PROVE StillMerged'
  BY <1>15 DEF SweepEnds, StillMerged, upkeep,
     seen, past, git
<1>16. ASSUME NEW p \in Paths, SweepTree(p) PROVE StillMerged'
  BY <1>16 DEF SweepTree, Condemn, IsMerged, StillMerged, upkeep, seen, past
<1>17. ASSUME NEW p \in Paths, Edit(p) PROVE StillMerged'
  BY <1>17 DEF Edit, StillMerged, upkeep, seen, past
<1>18. ASSUME NEW p \in Paths, Commit(p) PROVE StillMerged'
  <2>1. CASE tree[p] = "detached"
    BY <1>18, <2>1 DEF Commit, StillMerged, upkeep
  <2>2. CASE tree[p] # "detached"
    <3>1. /\ unmerged' = unmerged \cup {tree[p]} /\ late \subseteq late'
          /\ Pending(tree[p]) => tree[p] \in late'
          /\ UNCHANGED <<op, inst, branches, condemned>>
      BY <1>18, <2>2 DEF Commit, upkeep
    <3>2. tree[p] \in branches
      BY <1>18, <2>2 DEF Commit, Once
    <3>3. \A by \in {"user", "sweep"} : <<tree[p], by>> \in condemned => Pending(tree[p])
      BY DEF Pending
    <3>4. \A s \in Sessions :
            /\ op[s].pc \in {"checked", "removed"} /\ ~op[s].force
            /\ op[s].what = "archive" /\ inst[s].ownsBranch /\ inst[s].branch = tree[p]
            => Pending(tree[p])
      BY <3>2 DEF Pending, Branch
    <3> HIDE DEF Pending
    <3> QED BY <3>1, <3>3, <3>4 DEF StillMerged
  <2> QED BY <2>1, <2>2
<1>19. ASSUME NEW b \in Branches, SweepBranch(b) PROVE StillMerged'
  BY <1>19 DEF SweepBranch, Condemn, IsMerged, StillMerged, upkeep,
     seen, past, git
<1>20. ASSUME NEW b \in Branches, DeleteBranch(b) PROVE StillMerged'
  BY <1>20 DEF DeleteBranch, Condemn, IsMerged, StillMerged, upkeep,
     seen, past, git
<1>21. ASSUME NEW b \in Branches, Merge(b) PROVE StillMerged'
  BY <1>21 DEF Merge, StillMerged, upkeep, seen, past
<1>22. CASE UNCHANGED vars
  BY <1>22 DEF vars, StillMerged, upkeep,
     seen, past, git
<1>23. ASSUME NEW s \in Sessions, Pass(s) PROVE StillMerged'
  BY <1>23, RequestMoves DEF Pass, Safe, IsMerged, Branch, Types, StillMerged, upkeep,
     seen, past, git
<1>24. ASSUME NEW b \in Branches, NEW by \in {"user", "sweep"}, Execute(b, by) PROVE StillMerged'
  BY <1>24 DEF Execute, DropBranch, StillMerged, upkeep, seen, past
<1>25. ASSUME NEW p \in Paths, NEW b \in Branches, Switch(p, b) PROVE StillMerged'
  BY <1>25 DEF Switch, StillMerged, upkeep, seen, past
<1> QED BY <1>1, <1>2, <1>3, <1>4, <1>5, <1>6, <1>7, <1>8, <1>9, <1>10, <1>11, <1>12, <1>13,
           <1>14, <1>15, <1>16, <1>17, <1>18, <1>19, <1>20, <1>21, <1>22, <1>23, <1>24,
           <1>25 DEF Next

(* Every step records who comes to a worktree that is being left.          *)
LEMMA JoinedLateStep ==
  ASSUME Types, Staged, Made, Once, JoinedLate, [Next]_vars
  PROVE  JoinedLate'
<1> USE WorktreeAssumption
<1>1. ASSUME NEW s \in Sessions, NewBranch(s) PROVE JoinedLate'
  BY <1>1, NewBranchLeaves DEF Creates, Made, JoinedLate
<1>2. ASSUME NEW s \in Sessions, NEW b \in Branches, Borrow(s, b) PROVE JoinedLate'
  BY <1>2, BorrowLeaves DEF Creates, Made, JoinedLate
<1>3. ASSUME NEW s \in Sessions, NEW p \in Paths, Share(s, p) PROVE JoinedLate'
  <2>1. /\ Creates(s, p, tree[p]) /\ ~inst'[s].rollback /\ tree' = tree
        /\ branches' = branches /\ tree[p] \in branches /\ overlap \subseteq overlap'
    BY <1>3, ShareLeaves
  <2>2. Joining(p) \/ (\E t \in Rows : inst[t].path = p /\ op[t].pc # "idle") => p \in overlap'
    BY <1>3, ShareLeaves
  <2> QED BY <2>1, <2>2 DEF Creates, Staged, JoinedLate, Rows
<1>4. ASSUME NEW s \in Sessions, Insert(s) PROVE JoinedLate'
  BY <1>4, StatusGiven DEF Insert, Staged, JoinedLate, seen
<1>5. ASSUME NEW s \in Sessions, NEW inserted \in BOOLEAN, Rollback(s, inserted)
      PROVE  JoinedLate'
  <2>1. CreateFails(s, inserted) /\ Undoes(s)
    BY <1>5, RolledBack
  <2>2. None.path = "none" /\ ~None.rollback /\ None.path \notin Paths /\ None.status = "none"
    BY DEF None, Paths
  <2>3. CASE inserted
    BY <2>1, <2>3 DEF CreateFails, Undoes, Staged, JoinedLate
  <2>4. CASE ~inserted
    BY <2>1, <2>2, <2>4 DEF CreateFails, Undoes, Staged, JoinedLate
  <2> QED BY <2>3, <2>4
<1>6. ASSUME NEW s \in Sessions, End(s) PROVE JoinedLate'
  BY <1>6 DEF End, JoinedLate, seen
<1>7. ASSUME NEW s \in Sessions, Detach(s) PROVE JoinedLate'
  BY <1>7 DEF Detach, JoinedLate, seen
<1>8. ASSUME NEW s \in Sessions, Attach(s) PROVE JoinedLate'
  BY <1>8 DEF Attach, JoinedLate, seen
<1>9. ASSUME NEW s \in Sessions, NEW what \in {"archive", "cleanup"},
             NEW force \in BOOLEAN, Ask(s, what, force)
      PROVE  JoinedLate'
  BY <1>9 DEF Ask, Sharers, Rows, Joining, JoinedLate
<1>10. ASSUME NEW s \in Sessions, Relinquish(s) PROVE JoinedLate'
  BY <1>10, StatusGiven, DoneLeaves DEF Relinquish, Released, JoinedLate, seen
<1>11. ASSUME NEW s \in Sessions, Refuse(s) PROVE JoinedLate'
  BY <1>11 DEF Refuse, JoinedLate, seen
<1>12. ASSUME NEW s \in Sessions, Remove(s) PROVE JoinedLate'
  BY <1>12 DEF Remove, JoinedLate
<1>13. ASSUME NEW s \in Sessions, Finish(s) PROVE JoinedLate'
  BY <1>13, StatusGiven, DoneLeaves, RequestWith, IdleTypes DEF Finish, Released, JoinedLate
<1>14. ASSUME SweepBegins PROVE JoinedLate'
  BY <1>14 DEF SweepBegins, JoinedLate, seen
<1>15. ASSUME SweepEnds PROVE JoinedLate'
  BY <1>15 DEF SweepEnds, JoinedLate, seen
<1>16. ASSUME NEW p \in Paths, SweepTree(p) PROVE JoinedLate'
  BY <1>16 DEF SweepTree, JoinedLate
<1>17. ASSUME NEW p \in Paths, Edit(p) PROVE JoinedLate'
  BY <1>17 DEF Edit, JoinedLate, seen
<1>18. ASSUME NEW p \in Paths, Commit(p) PROVE JoinedLate'
  BY <1>18 DEF Commit, JoinedLate, seen
<1>19. ASSUME NEW b \in Branches, SweepBranch(b) PROVE JoinedLate'
  BY <1>19 DEF SweepBranch, JoinedLate, git
<1>20. ASSUME NEW b \in Branches, DeleteBranch(b) PROVE JoinedLate'
  BY <1>20 DEF DeleteBranch, JoinedLate, git
<1>21. ASSUME NEW b \in Branches, Merge(b) PROVE JoinedLate'
  BY <1>21 DEF Merge, JoinedLate, seen
<1>22. CASE UNCHANGED vars
  BY <1>22 DEF vars, JoinedLate, seen
<1>23. ASSUME NEW s \in Sessions, Pass(s) PROVE JoinedLate'
  BY <1>23 DEF Pass, JoinedLate, git
<1>24. ASSUME NEW b \in Branches, NEW by \in {"user", "sweep"}, Execute(b, by) PROVE JoinedLate'
  BY <1>24 DEF Execute, DropBranch, JoinedLate
<1>25. ASSUME NEW p \in Paths, NEW b \in Branches, Switch(p, b) PROVE JoinedLate'
  BY <1>25 DEF Switch, JoinedLate
<1> QED BY <1>1, <1>2, <1>3, <1>4, <1>5, <1>6, <1>7, <1>8, <1>9, <1>10, <1>11, <1>12, <1>13,
           <1>14, <1>15, <1>16, <1>17, <1>18, <1>19, <1>20, <1>21, <1>22, <1>23, <1>24,
           <1>25 DEF Next

(* No step removes a worktree that somebody works in without a trace in    *)
(* the history.                                                            *)
LEMMA HomesStep ==
  ASSUME Types, Staged, Made, Once, UserTree, JoinedLate, Homes, [Next]_vars
  PROVE  Homes'
<1> USE WorktreeAssumption
<1>1. ASSUME NEW s \in Sessions, NewBranch(s) PROVE Homes'
  BY <1>1, NewBranchLeaves DEF Creates, Types, Staged, Homes, Paths
<1>2. ASSUME NEW s \in Sessions, NEW b \in Branches, Borrow(s, b) PROVE Homes'
  BY <1>2, BorrowLeaves DEF Creates, Types, Staged, Made, Homes, Paths, CheckedOut
<1>3. ASSUME NEW s \in Sessions, NEW p \in Paths, Share(s, p) PROVE Homes'
  <2>1. /\ Creates(s, p, tree[p]) /\ ~inst'[s].rollback /\ tree' = tree
        /\ branches' = branches /\ tree[p] \in branches /\ overlap \subseteq overlap'
    BY <1>3, ShareLeaves
  <2> QED BY <2>1 DEF Creates, Types, Homes, Branches
<1>4. ASSUME NEW s \in Sessions, Insert(s) PROVE Homes'
  BY <1>4, StatusGiven DEF Insert, Types, Homes, git, seen
<1>5. ASSUME NEW s \in Sessions, NEW inserted \in BOOLEAN, Rollback(s, inserted)
      PROVE  Homes'
  <2>1. CreateFails(s, inserted) /\ Undoes(s)
    BY <1>5, RolledBack
  <2>2. None.path = "none" /\ ~None.rollback /\ None.path \notin Paths /\ None.status = "none"
    BY DEF None, Paths
  <2>3. CASE inserted
    BY <2>1, <2>3 DEF CreateFails, Undoes, Types, Staged, Homes, git
  <2>4. CASE ~inserted
    BY <2>1, <2>2, <2>4 DEF CreateFails, Undoes, Types, Staged, Homes, git
  <2> QED BY <2>3, <2>4
<1>6. ASSUME NEW s \in Sessions, End(s) PROVE Homes'
  BY <1>6 DEF End, Homes, git, seen
<1>7. ASSUME NEW s \in Sessions, Detach(s) PROVE Homes'
  BY <1>7 DEF Detach, DetachBranch, Homes, seen
<1>8. ASSUME NEW s \in Sessions, Attach(s) PROVE Homes'
  BY <1>8 DEF Attach, Staged, Homes, Branches, seen
<1>9. ASSUME NEW s \in Sessions, NEW what \in {"archive", "cleanup"},
             NEW force \in BOOLEAN, Ask(s, what, force)
      PROVE  Homes'
  BY <1>9 DEF Ask, Homes, git
<1>10. ASSUME NEW s \in Sessions, Relinquish(s) PROVE Homes'
  BY <1>10, StatusGiven, DoneLeaves DEF Relinquish, Released, Types, Homes, git, seen
<1>11. ASSUME NEW s \in Sessions, Refuse(s) PROVE Homes'
  BY <1>11 DEF Refuse, Homes, git, seen
<1>12. ASSUME NEW s \in Sessions, Remove(s) PROVE Homes'
  BY <1>12 DEF Remove, RemoveTree, Types, Staged, JoinedLate, Homes
<1>13. ASSUME NEW s \in Sessions, Finish(s) PROVE Homes'
  BY <1>13, StatusGiven, DoneLeaves, RequestWith, IdleTypes DEF Finish, Released, Types,
     Homes
<1>14. ASSUME SweepBegins PROVE Homes'
  BY <1>14 DEF SweepBegins, Homes, git, seen
<1>15. ASSUME SweepEnds PROVE Homes'
  BY <1>15 DEF SweepEnds, Homes, git, seen
<1>16. ASSUME NEW p \in Paths, SweepTree(p) PROVE Homes'
  BY <1>16 DEF SweepTree, RemoveTree, Homes
<1>17. ASSUME NEW p \in Paths, Edit(p) PROVE Homes'
  BY <1>17 DEF Edit, Homes, seen
<1>18. ASSUME NEW p \in Paths, Commit(p) PROVE Homes'
  BY <1>18 DEF Commit, Homes, seen
<1>19. ASSUME NEW b \in Branches, SweepBranch(b) PROVE Homes'
  BY <1>19 DEF SweepBranch, Homes, git
<1>20. ASSUME NEW b \in Branches, DeleteBranch(b) PROVE Homes'
  BY <1>20 DEF DeleteBranch, Homes, git
<1>21. ASSUME NEW b \in Branches, Merge(b) PROVE Homes'
  BY <1>21 DEF Merge, Homes, seen
<1>22. CASE UNCHANGED vars
  BY <1>22 DEF vars, Homes, git, seen
<1>23. ASSUME NEW s \in Sessions, Pass(s) PROVE Homes'
  BY <1>23 DEF Pass, Homes, git
<1>24. ASSUME NEW b \in Branches, NEW by \in {"user", "sweep"}, Execute(b, by) PROVE Homes'
  BY <1>24 DEF Execute, DropBranch, Homes
<1>25. ASSUME NEW p \in Paths, NEW b \in Branches, Switch(p, b) PROVE Homes'
  BY <1>25 DEF Switch, Types, Staged, Homes, Branches
<1> QED BY <1>1, <1>2, <1>3, <1>4, <1>5, <1>6, <1>7, <1>8, <1>9, <1>10, <1>11, <1>12, <1>13,
           <1>14, <1>15, <1>16, <1>17, <1>18, <1>19, <1>20, <1>21, <1>22, <1>23, <1>24,
           <1>25 DEF Next

(* Every step passes the ownership of a worktree on to who joins it.       *)
LEMMA OwnedStep ==
  ASSUME Types, Staged, Made, Once, Owned, [Next]_vars
  PROVE  Owned'
<1> USE WorktreeAssumption
<1>1. ASSUME NEW s \in Sessions, NewBranch(s) PROVE Owned'
  BY <1>1, NewBranchLeaves DEF Creates, Owned
<1>2. ASSUME NEW s \in Sessions, NEW b \in Branches, Borrow(s, b) PROVE Owned'
  BY <1>2, BorrowLeaves DEF Creates, Owned
<1>3. ASSUME NEW s \in Sessions, NEW p \in Paths, Share(s, p) PROVE Owned'
  <2>1. /\ Creates(s, p, tree[p]) /\ ~inst'[s].rollback /\ tree' = tree
        /\ branches' = branches /\ tree[p] \in branches /\ overlap \subseteq overlap'
    BY <1>3, ShareLeaves
  <2>2. \/ ~inst'[s].ownsTree /\ ~\E t \in Rows : inst[t].path = p
        \/ \E t \in Sessions : inst[t].path = p /\ inst'[s].ownsTree = inst[t].ownsTree
    BY <1>3, ShareLeaves
  <2>3. Joining(p) \/ (\E t \in Rows : inst[t].path = p /\ op[t].pc # "idle") => p \in overlap'
    BY <1>3, ShareLeaves
  <2>4. CASE p \in Sessions /\ ~\E t \in Rows : inst[t].path = p
    <3>1. inst[p].path = p
      BY <2>1, <2>4 DEF Made, Types, Branches
    <3>2. inst[p].status = "resolved"
      BY <2>4, <3>1 DEF Staged, Rows, Types, None
    <3> QED BY <2>1, <2>3, <2>4, <3>1, <3>2 DEF Creates, Owned, Joining
  <2>5. CASE ~(p \in Sessions /\ ~\E t \in Rows : inst[t].path = p)
    BY <2>1, <2>2, <2>5 DEF Creates, Owned
  <2> QED BY <2>4, <2>5
<1>4. ASSUME NEW s \in Sessions, Insert(s) PROVE Owned'
  BY <1>4, StatusGiven DEF Insert, Owned, seen
<1>5. ASSUME NEW s \in Sessions, NEW inserted \in BOOLEAN, Rollback(s, inserted)
      PROVE  Owned'
  <2>1. CreateFails(s, inserted) /\ Undoes(s)
    BY <1>5, RolledBack
  <2>2. None.path = "none" /\ ~None.rollback /\ None.path \notin Paths /\ None.status = "none"
    BY DEF None, Paths
  <2>3. CASE inserted
    BY <2>1, <2>3 DEF CreateFails, Undoes, Owned
  <2>4. CASE ~inserted
    BY <2>1, <2>2, <2>4 DEF CreateFails, Undoes, Owned
  <2> QED BY <2>3, <2>4
<1>6. ASSUME NEW s \in Sessions, End(s) PROVE Owned'
  BY <1>6 DEF End, Owned, seen
<1>7. ASSUME NEW s \in Sessions, Detach(s) PROVE Owned'
  BY <1>7 DEF Detach, Owned, seen
<1>8. ASSUME NEW s \in Sessions, Attach(s) PROVE Owned'
  BY <1>8 DEF Attach, Owned, seen
<1>9. ASSUME NEW s \in Sessions, NEW what \in {"archive", "cleanup"},
             NEW force \in BOOLEAN, Ask(s, what, force)
      PROVE  Owned'
  BY <1>9 DEF Ask, Owned
<1>10. ASSUME NEW s \in Sessions, Relinquish(s) PROVE Owned'
  BY <1>10, StatusGiven, DoneLeaves DEF Relinquish, Released, Owned, seen
<1>11. ASSUME NEW s \in Sessions, Refuse(s) PROVE Owned'
  BY <1>11 DEF Refuse, Owned, seen
<1>12. ASSUME NEW s \in Sessions, Remove(s) PROVE Owned'
  BY <1>12 DEF Remove, Owned
<1>13. ASSUME NEW s \in Sessions, Finish(s) PROVE Owned'
  BY <1>13, StatusGiven, DoneLeaves, RequestWith, IdleTypes DEF Finish, Released, Owned
<1>14. ASSUME SweepBegins PROVE Owned'
  BY <1>14 DEF SweepBegins, Owned, seen
<1>15. ASSUME SweepEnds PROVE Owned'
  BY <1>15 DEF SweepEnds, Owned, seen
<1>16. ASSUME NEW p \in Paths, SweepTree(p) PROVE Owned'
  BY <1>16 DEF SweepTree, Owned
<1>17. ASSUME NEW p \in Paths, Edit(p) PROVE Owned'
  BY <1>17 DEF Edit, Owned, seen
<1>18. ASSUME NEW p \in Paths, Commit(p) PROVE Owned'
  BY <1>18 DEF Commit, Owned, seen
<1>19. ASSUME NEW b \in Branches, SweepBranch(b) PROVE Owned'
  BY <1>19 DEF SweepBranch, Owned, git
<1>20. ASSUME NEW b \in Branches, DeleteBranch(b) PROVE Owned'
  BY <1>20 DEF DeleteBranch, Owned, git
<1>21. ASSUME NEW b \in Branches, Merge(b) PROVE Owned'
  BY <1>21 DEF Merge, Owned, seen
<1>22. CASE UNCHANGED vars
  BY <1>22 DEF vars, Owned, seen
<1>23. ASSUME NEW s \in Sessions, Pass(s) PROVE Owned'
  BY <1>23 DEF Pass, Owned, git
<1>24. ASSUME NEW b \in Branches, NEW by \in {"user", "sweep"}, Execute(b, by) PROVE Owned'
  BY <1>24 DEF Execute, DropBranch, Owned
<1>25. ASSUME NEW p \in Paths, NEW b \in Branches, Switch(p, b) PROVE Owned'
  BY <1>25 DEF Switch, Owned
<1> QED BY <1>1, <1>2, <1>3, <1>4, <1>5, <1>6, <1>7, <1>8, <1>9, <1>10, <1>11, <1>12, <1>13,
           <1>14, <1>15, <1>16, <1>17, <1>18, <1>19, <1>20, <1>21, <1>22, <1>23, <1>24,
           <1>25 DEF Next

(* No step takes the other sharer away from one who left the worktree to   *)
(* it.                                                                     *)
LEMMA WaitingStep ==
  ASSUME Types, Staged, Made, Once, Waiting, [Next]_vars
  PROVE  Waiting'
<1> USE WorktreeAssumption
<1>1. ASSUME NEW s \in Sessions, NewBranch(s) PROVE Waiting'
  <2>1. Creates(s, s, s) /\ overlap \subseteq overlap'
    BY <1>1, NewBranchLeaves
  <2>2. SUFFICES ASSUME NEW u \in Sessions, op'[u].pc = "share", inst'[u].path \notin overlap'
                 PROVE  \E t \in Sessions \ {u} : /\ inst'[t].path = inst'[u].path
                                                  /\ inst'[t].status = "active" /\ op'[t].pc = "idle"
    BY DEF Waiting
  <2>3. /\ op' = op /\ sess[s] = "none" /\ overlap \subseteq overlap'
        /\ \A t \in Sessions \ {s} : inst'[t] = inst[t]
    BY <2>1 DEF Creates
  <2>4. inst[s].status = "none" /\ op[s].pc = "idle"
    BY <2>3 DEF Staged, None
  <2>5. PICK t \in Sessions \ {u} : /\ inst[t].path = inst[u].path
                                    /\ inst[t].status = "active" /\ op[t].pc = "idle"
    BY <2>2, <2>3, <2>4 DEF Waiting
  <2> QED BY <2>2, <2>3, <2>4, <2>5
<1>2. ASSUME NEW s \in Sessions, NEW b \in Branches, Borrow(s, b) PROVE Waiting'
  <2>1. Creates(s, s, b) /\ overlap \subseteq overlap'
    BY <1>2, BorrowLeaves
  <2>2. SUFFICES ASSUME NEW u \in Sessions, op'[u].pc = "share", inst'[u].path \notin overlap'
                 PROVE  \E t \in Sessions \ {u} : /\ inst'[t].path = inst'[u].path
                                                  /\ inst'[t].status = "active" /\ op'[t].pc = "idle"
    BY DEF Waiting
  <2>3. /\ op' = op /\ sess[s] = "none" /\ overlap \subseteq overlap'
        /\ \A t \in Sessions \ {s} : inst'[t] = inst[t]
    BY <2>1 DEF Creates
  <2>4. inst[s].status = "none" /\ op[s].pc = "idle"
    BY <2>3 DEF Staged, None
  <2>5. PICK t \in Sessions \ {u} : /\ inst[t].path = inst[u].path
                                    /\ inst[t].status = "active" /\ op[t].pc = "idle"
    BY <2>2, <2>3, <2>4 DEF Waiting
  <2> QED BY <2>2, <2>3, <2>4, <2>5
<1>3. ASSUME NEW s \in Sessions, NEW p \in Paths, Share(s, p) PROVE Waiting'
  <2>1. Creates(s, p, tree[p]) /\ overlap \subseteq overlap'
    BY <1>3, ShareLeaves
  <2>2. SUFFICES ASSUME NEW u \in Sessions, op'[u].pc = "share", inst'[u].path \notin overlap'
                 PROVE  \E t \in Sessions \ {u} : /\ inst'[t].path = inst'[u].path
                                                  /\ inst'[t].status = "active" /\ op'[t].pc = "idle"
    BY DEF Waiting
  <2>3. /\ op' = op /\ sess[s] = "none" /\ overlap \subseteq overlap'
        /\ \A t \in Sessions \ {s} : inst'[t] = inst[t]
    BY <2>1 DEF Creates
  <2>4. inst[s].status = "none" /\ op[s].pc = "idle"
    BY <2>3 DEF Staged, None
  <2>5. PICK t \in Sessions \ {u} : /\ inst[t].path = inst[u].path
                                    /\ inst[t].status = "active" /\ op[t].pc = "idle"
    BY <2>2, <2>3, <2>4 DEF Waiting
  <2> QED BY <2>2, <2>3, <2>4, <2>5
<1>4. ASSUME NEW s \in Sessions, Insert(s) PROVE Waiting'
  BY <1>4, StatusGiven DEF Insert, Waiting, seen
<1>5. ASSUME NEW s \in Sessions, NEW inserted \in BOOLEAN, Rollback(s, inserted)
      PROVE  Waiting'
  <2>1. CreateFails(s, inserted) /\ Undoes(s)
    BY <1>5, RolledBack
  <2>2. None.path = "none" /\ ~None.rollback /\ None.path \notin Paths /\ None.status = "none"
    BY DEF None, Paths
  <2>3. CASE inserted
    BY <2>1, <2>3 DEF CreateFails, Undoes, Staged, Waiting
  <2>4. CASE ~inserted
    BY <2>1, <2>2, <2>4 DEF CreateFails, Undoes, Staged, Waiting
  <2> QED BY <2>3, <2>4
<1>6. ASSUME NEW s \in Sessions, End(s) PROVE Waiting'
  BY <1>6 DEF End, Waiting, seen
<1>7. ASSUME NEW s \in Sessions, Detach(s) PROVE Waiting'
  BY <1>7 DEF Detach, Waiting, seen
<1>8. ASSUME NEW s \in Sessions, Attach(s) PROVE Waiting'
  BY <1>8 DEF Attach, Waiting, seen
<1>9. ASSUME NEW s \in Sessions, NEW what \in {"archive", "cleanup"},
             NEW force \in BOOLEAN, Ask(s, what, force)
      PROVE  Waiting'
  BY <1>9 DEF Ask, Sharers, Rows, Waiting
<1>10. ASSUME NEW s \in Sessions, Relinquish(s) PROVE Waiting'
  BY <1>10, StatusGiven, DoneLeaves DEF Relinquish, Released, Waiting, seen
<1>11. ASSUME NEW s \in Sessions, Refuse(s) PROVE Waiting'
  BY <1>11 DEF Refuse, Idle, Waiting, seen
<1>12. ASSUME NEW s \in Sessions, Remove(s) PROVE Waiting'
  BY <1>12 DEF Remove, Waiting
<1>13. ASSUME NEW s \in Sessions, Finish(s) PROVE Waiting'
  BY <1>13, StatusGiven, DoneLeaves, RequestWith, IdleTypes DEF Finish, Released, Waiting
<1>14. ASSUME SweepBegins PROVE Waiting'
  BY <1>14 DEF SweepBegins, Waiting, seen
<1>15. ASSUME SweepEnds PROVE Waiting'
  BY <1>15 DEF SweepEnds, Waiting, seen
<1>16. ASSUME NEW p \in Paths, SweepTree(p) PROVE Waiting'
  BY <1>16 DEF SweepTree, Waiting
<1>17. ASSUME NEW p \in Paths, Edit(p) PROVE Waiting'
  BY <1>17 DEF Edit, Waiting, seen
<1>18. ASSUME NEW p \in Paths, Commit(p) PROVE Waiting'
  BY <1>18 DEF Commit, Waiting, seen
<1>19. ASSUME NEW b \in Branches, SweepBranch(b) PROVE Waiting'
  BY <1>19 DEF SweepBranch, Waiting, git
<1>20. ASSUME NEW b \in Branches, DeleteBranch(b) PROVE Waiting'
  BY <1>20 DEF DeleteBranch, Waiting, git
<1>21. ASSUME NEW b \in Branches, Merge(b) PROVE Waiting'
  BY <1>21 DEF Merge, Waiting, seen
<1>22. CASE UNCHANGED vars
  BY <1>22 DEF vars, Waiting, seen
<1>23. ASSUME NEW s \in Sessions, Pass(s) PROVE Waiting'
  BY <1>23 DEF Pass, Waiting, git
<1>24. ASSUME NEW b \in Branches, NEW by \in {"user", "sweep"}, Execute(b, by) PROVE Waiting'
  BY <1>24 DEF Execute, DropBranch, Waiting
<1>25. ASSUME NEW p \in Paths, NEW b \in Branches, Switch(p, b) PROVE Waiting'
  BY <1>25 DEF Switch, Waiting
<1> QED BY <1>1, <1>2, <1>3, <1>4, <1>5, <1>6, <1>7, <1>8, <1>9, <1>10, <1>11, <1>12, <1>13,
           <1>14, <1>15, <1>16, <1>17, <1>18, <1>19, <1>20, <1>21, <1>22, <1>23, <1>24,
           <1>25 DEF Next

(* Every step removes the worktree before the request that removes it is   *)
(* through.                                                                *)
LEMMA EmptiedStep ==
  ASSUME Types, Staged, Made, Once, Owned, Emptied, [Next]_vars
  PROVE  Emptied'
<1> USE WorktreeAssumption
<1>1. ASSUME NEW s \in Sessions, NewBranch(s) PROVE Emptied'
  BY <1>1, NewBranchLeaves DEF Creates, Types, Staged, Made, Emptied
<1>2. ASSUME NEW s \in Sessions, NEW b \in Branches, Borrow(s, b) PROVE Emptied'
  BY <1>2, BorrowLeaves DEF Creates, Types, Staged, Made, Emptied
<1>3. ASSUME NEW s \in Sessions, NEW p \in Paths, Share(s, p) PROVE Emptied'
  <2>1. /\ Creates(s, p, tree[p]) /\ ~inst'[s].rollback /\ tree' = tree
        /\ branches' = branches /\ tree[p] \in branches /\ overlap \subseteq overlap'
    BY <1>3, ShareLeaves
  <2> QED BY <2>1 DEF Creates, Staged, Emptied
<1>4. ASSUME NEW s \in Sessions, Insert(s) PROVE Emptied'
  BY <1>4, StatusGiven DEF Insert, Staged, Emptied, git, seen
<1>5. ASSUME NEW s \in Sessions, NEW inserted \in BOOLEAN, Rollback(s, inserted)
      PROVE  Emptied'
  <2>1. CreateFails(s, inserted) /\ Undoes(s)
    BY <1>5, RolledBack
  <2>2. None.path = "none" /\ ~None.rollback /\ None.path \notin Paths /\ None.status = "none"
    BY DEF None, Paths
  <2>3. CASE inserted
    BY <2>1, <2>3 DEF CreateFails, Undoes, Types, Staged, Emptied, git
  <2>4. CASE ~inserted
    BY <2>1, <2>2, <2>4 DEF CreateFails, Undoes, Types, Emptied, Paths, git
  <2> QED BY <2>3, <2>4
<1>6. ASSUME NEW s \in Sessions, End(s) PROVE Emptied'
  BY <1>6 DEF End, Emptied, git, seen
<1>7. ASSUME NEW s \in Sessions, Detach(s) PROVE Emptied'
  BY <1>7 DEF Detach, DetachBranch, Staged, Emptied, Branches, seen
<1>8. ASSUME NEW s \in Sessions, Attach(s) PROVE Emptied'
  BY <1>8 DEF Attach, Emptied, seen
<1>9. ASSUME NEW s \in Sessions, NEW what \in {"archive", "cleanup"},
             NEW force \in BOOLEAN, Ask(s, what, force)
      PROVE  Emptied'
  BY <1>9 DEF Ask, Emptied, git
<1>10. ASSUME NEW s \in Sessions, Relinquish(s) PROVE Emptied'
  BY <1>10, StatusGiven, DoneLeaves DEF Relinquish, Released, Emptied, git, seen
<1>11. ASSUME NEW s \in Sessions, Refuse(s) PROVE Emptied'
  BY <1>11 DEF Refuse, Idle, Emptied, git, seen
<1>12. ASSUME NEW s \in Sessions, Remove(s) PROVE Emptied'
  BY <1>12 DEF Remove, Takes, Active, RemoveTree, Types, Staged, Owned, Emptied
<1>13. ASSUME NEW s \in Sessions, Finish(s) PROVE Emptied'
  BY <1>13, StatusGiven, DoneLeaves, RequestWith, IdleTypes DEF Finish, Released, Emptied
<1>14. ASSUME SweepBegins PROVE Emptied'
  BY <1>14 DEF SweepBegins, Emptied, git, seen
<1>15. ASSUME SweepEnds PROVE Emptied'
  BY <1>15 DEF SweepEnds, Emptied, git, seen
<1>16. ASSUME NEW p \in Paths, SweepTree(p) PROVE Emptied'
  BY <1>16 DEF SweepTree, RemoveTree, Emptied
<1>17. ASSUME NEW p \in Paths, Edit(p) PROVE Emptied'
  BY <1>17 DEF Edit, Emptied, seen
<1>18. ASSUME NEW p \in Paths, Commit(p) PROVE Emptied'
  BY <1>18 DEF Commit, Emptied, seen
<1>19. ASSUME NEW b \in Branches, SweepBranch(b) PROVE Emptied'
  BY <1>19 DEF SweepBranch, Emptied, git
<1>20. ASSUME NEW b \in Branches, DeleteBranch(b) PROVE Emptied'
  BY <1>20 DEF DeleteBranch, Emptied, git
<1>21. ASSUME NEW b \in Branches, Merge(b) PROVE Emptied'
  BY <1>21 DEF Merge, Emptied, seen
<1>22. CASE UNCHANGED vars
  BY <1>22 DEF vars, Emptied, git, seen
<1>23. ASSUME NEW s \in Sessions, Pass(s) PROVE Emptied'
  BY <1>23 DEF Pass, Emptied, git
<1>24. ASSUME NEW b \in Branches, NEW by \in {"user", "sweep"}, Execute(b, by) PROVE Emptied'
  BY <1>24 DEF Execute, DropBranch, Emptied
<1>25. ASSUME NEW p \in Paths, NEW b \in Branches, Switch(p, b) PROVE Emptied'
  BY <1>25 DEF Switch, Emptied
<1> QED BY <1>1, <1>2, <1>3, <1>4, <1>5, <1>6, <1>7, <1>8, <1>9, <1>10, <1>11, <1>12, <1>13,
           <1>14, <1>15, <1>16, <1>17, <1>18, <1>19, <1>20, <1>21, <1>22, <1>23, <1>24,
           <1>25 DEF Next

(* No step leaves a worktree behind with nobody to remove it.              *)
LEMMA ClaimedStep ==
  ASSUME Types, Staged, Made, Once, Owned, Waiting, Emptied, Claimed, [Next]_vars
  PROVE  Claimed'
<1> USE WorktreeAssumption
<1>1. ASSUME NEW s \in Sessions, NewBranch(s) PROVE Claimed'
  BY <1>1, NewBranchLeaves DEF Creates, Types, Staged, Claimed, None, Paths
<1>2. ASSUME NEW s \in Sessions, NEW b \in Branches, Borrow(s, b) PROVE Claimed'
  BY <1>2, BorrowLeaves DEF Creates, Types, Staged, Waiting, Claimed, None, Paths
<1>3. ASSUME NEW s \in Sessions, NEW p \in Paths, Share(s, p) PROVE Claimed'
  <2>1. /\ Creates(s, p, tree[p]) /\ ~inst'[s].rollback /\ tree' = tree
        /\ branches' = branches /\ tree[p] \in branches /\ overlap \subseteq overlap'
    BY <1>3, ShareLeaves
  <2> QED BY <2>1 DEF Creates, Staged, Claimed, None
<1>4. ASSUME NEW s \in Sessions, Insert(s) PROVE Claimed'
  BY <1>4, StatusGiven DEF Insert, Claimed, git, seen
<1>5. ASSUME NEW s \in Sessions, NEW inserted \in BOOLEAN, Rollback(s, inserted)
      PROVE  Claimed'
  <2>1. CreateFails(s, inserted) /\ Undoes(s)
    BY <1>5, RolledBack
  <2>2. None.path = "none" /\ ~None.rollback /\ None.path \notin Paths /\ None.status = "none"
    BY DEF None, Paths
  <2>3. CASE inserted
    BY <2>1, <2>3 DEF CreateFails, Undoes, Types, Staged, Made, Claimed, Paths, git
  <2>4. CASE ~inserted
    BY <2>1, <2>2, <2>4 DEF CreateFails, Undoes, Types, Staged, Made, Claimed, Paths, git
  <2> QED BY <2>3, <2>4
<1>6. ASSUME NEW s \in Sessions, End(s) PROVE Claimed'
  BY <1>6 DEF End, Claimed, git, seen
<1>7. ASSUME NEW s \in Sessions, Detach(s) PROVE Claimed'
  BY <1>7 DEF Detach, DetachBranch, Claimed, seen
<1>8. ASSUME NEW s \in Sessions, Attach(s) PROVE Claimed'
  BY <1>8 DEF Attach, Claimed, seen
<1>9. ASSUME NEW s \in Sessions, NEW what \in {"archive", "cleanup"},
             NEW force \in BOOLEAN, Ask(s, what, force)
      PROVE  Claimed'
  BY <1>9 DEF Ask, Claimed, git
<1>10. ASSUME NEW s \in Sessions, Relinquish(s) PROVE Claimed'
  BY <1>10, StatusGiven, DoneLeaves DEF Relinquish, Released, Waiting, Claimed, git, seen
<1>11. ASSUME NEW s \in Sessions, Refuse(s) PROVE Claimed'
  BY <1>11 DEF Refuse, Claimed, git, seen
<1>12. ASSUME NEW s \in Sessions, Remove(s) PROVE Claimed'
  BY <1>12 DEF Remove, RemoveTree, Types, Claimed, Paths
<1>13. ASSUME NEW s \in Sessions, Finish(s) PROVE Claimed'
  BY <1>13, StatusGiven, DoneLeaves, RequestWith, IdleTypes DEF Finish, Released, Emptied,
     Claimed
<1>14. ASSUME SweepBegins PROVE Claimed'
  BY <1>14 DEF SweepBegins, Claimed, git, seen
<1>15. ASSUME SweepEnds PROVE Claimed'
  BY <1>15 DEF SweepEnds, Claimed, git, seen
<1>16. ASSUME NEW p \in Paths, SweepTree(p) PROVE Claimed'
  BY <1>16 DEF SweepTree, RemoveTree, Claimed
<1>17. ASSUME NEW p \in Paths, Edit(p) PROVE Claimed'
  BY <1>17 DEF Edit, Claimed, seen
<1>18. ASSUME NEW p \in Paths, Commit(p) PROVE Claimed'
  BY <1>18 DEF Commit, Claimed, seen
<1>19. ASSUME NEW b \in Branches, SweepBranch(b) PROVE Claimed'
  BY <1>19 DEF SweepBranch, Claimed, git
<1>20. ASSUME NEW b \in Branches, DeleteBranch(b) PROVE Claimed'
  BY <1>20 DEF DeleteBranch, Claimed, git
<1>21. ASSUME NEW b \in Branches, Merge(b) PROVE Claimed'
  BY <1>21 DEF Merge, Claimed, seen
<1>22. CASE UNCHANGED vars
  BY <1>22 DEF vars, Claimed, git, seen
<1>23. ASSUME NEW s \in Sessions, Pass(s) PROVE Claimed'
  BY <1>23 DEF Pass, Claimed, git
<1>24. ASSUME NEW b \in Branches, NEW by \in {"user", "sweep"}, Execute(b, by) PROVE Claimed'
  BY <1>24 DEF Execute, DropBranch, Claimed
<1>25. ASSUME NEW p \in Paths, NEW b \in Branches, Switch(p, b) PROVE Claimed'
  BY <1>25 DEF Switch, Claimed
<1> QED BY <1>1, <1>2, <1>3, <1>4, <1>5, <1>6, <1>7, <1>8, <1>9, <1>10, <1>11, <1>12, <1>13,
           <1>14, <1>15, <1>16, <1>17, <1>18, <1>19, <1>20, <1>21, <1>22, <1>23, <1>24,
           <1>25 DEF Next

(* No step loses work but by force, by a detached head or by a rollback.   *)
LEMMA NoLossStep ==
  ASSUME Types, Staged, Made, Once, StillMerged, NoLoss, [Next]_vars
  PROVE  NoLoss'
<1> USE WorktreeAssumption
<1>1. ASSUME NEW s \in Sessions, NewBranch(s) PROVE NoLoss'
  <2>1. Creates(s, s, s)
    BY <1>1, NewBranchLeaves
  <2> QED BY <2>1 DEF Creates, NoLoss
<1>2. ASSUME NEW s \in Sessions, NEW b \in Branches, Borrow(s, b) PROVE NoLoss'
  <2>1. Creates(s, s, b)
    BY <1>2, BorrowLeaves
  <2> QED BY <2>1 DEF Creates, NoLoss
<1>3. ASSUME NEW s \in Sessions, NEW p \in Paths, Share(s, p) PROVE NoLoss'
  <2>1. Creates(s, p, tree[p])
    BY <1>3, ShareLeaves
  <2> QED BY <2>1 DEF Creates, NoLoss
<1>4. ASSUME NEW s \in Sessions, Insert(s) PROVE NoLoss'
  BY <1>4 DEF Insert, NoLoss, seen
<1>5. ASSUME NEW s \in Sessions, NEW inserted \in BOOLEAN, Rollback(s, inserted)
      PROVE  NoLoss'
  BY <1>5 DEF Rollback, Loses, NoLoss
<1>6. ASSUME NEW s \in Sessions, End(s) PROVE NoLoss'
  BY <1>6 DEF End, NoLoss, seen
<1>7. ASSUME NEW s \in Sessions, Detach(s) PROVE NoLoss'
  BY <1>7 DEF Detach, NoLoss, seen
<1>8. ASSUME NEW s \in Sessions, Attach(s) PROVE NoLoss'
  BY <1>8 DEF Attach, NoLoss, seen
<1>9. ASSUME NEW s \in Sessions, NEW what \in {"archive", "cleanup"},
             NEW force \in BOOLEAN, Ask(s, what, force)
      PROVE  NoLoss'
  BY <1>9 DEF Ask, NoLoss
<1>10. ASSUME NEW s \in Sessions, Relinquish(s) PROVE NoLoss'
  BY <1>10 DEF Relinquish, NoLoss, seen
<1>11. ASSUME NEW s \in Sessions, Refuse(s) PROVE NoLoss'
  BY <1>11 DEF Refuse, NoLoss, seen
<1>12. ASSUME NEW s \in Sessions, Remove(s) PROVE NoLoss'
  <2>1. "none" \notin unmerged
    BY DEF Types, Branches
  <2>2. CASE Takes(s) /\ op[s].force
    BY <1>12, <2>1, <2>2 DEF Remove, Loses, Why, NoLoss
  <2>3. CASE Takes(s) /\ ~op[s].force
    BY <1>12, <2>1, <2>3 DEF Remove, Loses, NoLoss, IsDirty
  <2>4. CASE ~Takes(s)
    BY <1>12, <2>4 DEF Remove, NoLoss
  <2> QED BY <2>2, <2>3, <2>4
<1>13. ASSUME NEW s \in Sessions, Finish(s) PROVE NoLoss'
  <2>1. "none" \notin unmerged /\ "none" \notin dirty /\ "none" \notin loose
    BY DEF Types, Branches, Paths
  <2>2. ~op[s].force /\ Branch(s) \in unmerged => Branch(s) \in late
    BY <1>13, <2>1 DEF Finish, Branch, StillMerged
  <2>3. CASE lost' = lost
    BY <2>3 DEF NoLoss
  <2>4. CASE lost' = Loses("none", Branch(s), Why(Branch(s), op[s].force))
    BY <2>1, <2>2, <2>4 DEF Loses, Why, NoLoss
  <2> QED BY <1>13, <2>3, <2>4 DEF Finish
<1>14. ASSUME SweepBegins PROVE NoLoss'
  BY <1>14 DEF SweepBegins, NoLoss, seen
<1>15. ASSUME SweepEnds PROVE NoLoss'
  BY <1>15 DEF SweepEnds, NoLoss, seen
<1>16. ASSUME NEW p \in Paths, SweepTree(p) PROVE NoLoss'
  BY <1>16 DEF SweepTree, IsDirty, Loses, Types, Branches, NoLoss
<1>17. ASSUME NEW p \in Paths, Edit(p) PROVE NoLoss'
  BY <1>17 DEF Edit, NoLoss, seen
<1>18. ASSUME NEW p \in Paths, Commit(p) PROVE NoLoss'
  BY <1>18 DEF Commit, NoLoss, seen
<1>19. ASSUME NEW b \in Branches, SweepBranch(b) PROVE NoLoss'
  BY <1>19 DEF SweepBranch, NoLoss, git
<1>20. ASSUME NEW b \in Branches, DeleteBranch(b) PROVE NoLoss'
  BY <1>20 DEF DeleteBranch, NoLoss, git
<1>21. ASSUME NEW b \in Branches, Merge(b) PROVE NoLoss'
  BY <1>21 DEF Merge, NoLoss, seen
<1>22. CASE UNCHANGED vars
  BY <1>22 DEF vars, NoLoss, seen
<1>23. ASSUME NEW s \in Sessions, Pass(s) PROVE NoLoss'
  BY <1>23 DEF Pass, NoLoss, git
<1>24. ASSUME NEW b \in Branches, NEW by \in {"user", "sweep"}, Execute(b, by) PROVE NoLoss'
  BY <1>24 DEF Execute, Loses, Why, StillMerged, Types, Paths, NoLoss
<1>25. ASSUME NEW p \in Paths, NEW b \in Branches, Switch(p, b) PROVE NoLoss'
  BY <1>25 DEF Switch, NoLoss
<1> QED BY <1>1, <1>2, <1>3, <1>4, <1>5, <1>6, <1>7, <1>8, <1>9, <1>10, <1>11, <1>12, <1>13,
           <1>14, <1>15, <1>16, <1>17, <1>18, <1>19, <1>20, <1>21, <1>22, <1>23, <1>24,
           <1>25 DEF Next

-----------------------------------------------------------------------------
(* The inductive invariant.                                                *)
IInv ==
  /\ Types /\ Staged /\ Made /\ Once /\ UserTree /\ OneBranch /\ Claims /\ Swept
  /\ Taken /\ StillMerged /\ JoinedLate
  /\ Homes /\ Owned /\ Waiting /\ Emptied /\ Claimed /\ NoLoss

(* It holds when the daemon starts on a repository of the user's.          *)
LEMMA Initially == Init => IInv
<1> SUFFICES ASSUME Init PROVE IInv
  OBVIOUS
<1> USE WorktreeAssumption
<1>1. /\ None \in Instances /\ Idle \in Requests /\ Idle.pc = "idle"
      /\ None.path = "none" /\ None.status = "none" /\ ~None.rollback
  BY DEF None, Idle, Instances, Requests, Statuses
<1>2. /\ tree = [p \in Paths |-> IF p = "user" THEN "topic" ELSE "none"]
      /\ branches = {"topic", "old"} /\ dirty = {} /\ unmerged = {} /\ loose = {} /\ lost = {}
      /\ \A s \in Sessions : inst[s] = None /\ sess[s] = "none" /\ op[s] = Idle
      /\ condemned = {} /\ takers = {}
  BY DEF Init
<1>3. Types
  BY <1>1 DEF Init, Types, Branches
<1>4. Staged /\ Made /\ Once
  BY <1>1, <1>2 DEF Staged, Made, Once, Paths, Branches
<1>5. UserTree /\ StillMerged /\ JoinedLate /\ Homes /\ Owned
  BY <1>1, <1>2 DEF UserTree, StillMerged, JoinedLate, Homes, Owned, Paths
<1>7. OneBranch /\ Claims /\ Swept /\ Taken
  <2>1. ~None.ownsBranch /\ None.path \notin Paths
    BY DEF None, Paths
  <2> QED BY <1>1, <1>2, <2>1 DEF OneBranch, Claims, Swept, Taken
<1>6. Waiting /\ Emptied /\ Claimed /\ NoLoss
  BY <1>1, <1>2 DEF Waiting, Emptied, Claimed, NoLoss, Paths
<1> QED BY <1>3, <1>4, <1>5, <1>6, <1>7 DEF IInv

(* It holds of every reachable state.                                      *)
LEMMA Inductive == Spec => []IInv
<1>1. IInv /\ [Next]_vars => IInv'
  <2> SUFFICES ASSUME IInv, [Next]_vars PROVE IInv'
    OBVIOUS
  <2>1. Types' /\ Staged' /\ Made' /\ Once'
    BY TypesStep, StagedStep, MadeStep, OnceStep DEF IInv
  <2>2. UserTree' /\ OneBranch' /\ Claims' /\ Swept' /\ Taken'
    BY UserTreeStep, OneBranchStep, ClaimsStep, SweptStep, TakenStep DEF IInv
  <2>3. StillMerged' /\ JoinedLate' /\ Homes'
    BY StillMergedStep, JoinedLateStep, HomesStep DEF IInv
  <2>4. Owned' /\ Waiting' /\ Emptied' /\ Claimed' /\ NoLoss'
    BY OwnedStep, WaitingStep, EmptiedStep, ClaimedStep, NoLossStep DEF IInv
  <2> QED BY <2>1, <2>2, <2>3, <2>4 DEF IInv
<1> QED BY <1>1, Initially, PTL DEF Spec

(* Every state has the declared types.                                     *)
THEOREM WorktreeTypes == Spec => []TypeOK
<1>1. IInv => TypeOK
  BY DEF IInv, Types, TypeOK, Reasons, Instances, Statuses
<1> QED BY <1>1, Inductive, PTL

(* The worktree that the user made goes only by the clean-up of a session  *)
(* that shared it, or to a sweep once it was switched to an orphan's       *)
(* branch.  Besides delete_workspace_branch, nothing deletes the user's    *)
(* branch but the archive of a session that was given it in a worktree     *)
(* that somebody had switched to it: who shares a worktree inherits the    *)
(* claims of its maker, who has one to the branch made with it, and the    *)
(* instance records the branch found there (workspaces.rs,                 *)
(* resolve_workspace).                                                     *)
THEOREM UserIsKept == Spec => []UserKept
<1>1. IInv => UserKept
  BY DEF IInv, UserTree, Taken, UserKept
<1> QED BY <1>1, Inductive, PTL

(* Uncommitted changes and unmerged commits are lost only to a discard     *)
(* that was forced, on a detached head, in the rollback of a create        *)
(* (mod.rs, rollback_new_instance), or by a commit that came after a       *)
(* request had found its branch merged and before it deletes it: whoever   *)
(* edits, commits, switches and merges meanwhile, no unforced archive,     *)
(* sweep or deletion loses what was there when it asked.                   *)
THEOREM NothingLost == Spec => []NoLoss
<1>1. IInv => NoLoss
  BY DEF IInv
<1> QED BY <1>1, Inductive, PTL

(* A live session keeps its worktree: the sharers of a worktree leave in   *)
(* any order, by clean-up or archive, and none but the last removes it.    *)
(* The history names the exceptions: somebody joined while it was being    *)
(* left, the sweep took its branch for an orphan's, or the session that    *)
(* made it failed to start (workspaces.rs, discard_instance).              *)
THEOREM HomesKept == Spec => []HomeKept
<1>1. IInv => HomeKept
  BY DEF IInv, Homes, HomeKept
<1> QED BY <1>1, Inductive, PTL

(* When every session that was in a worktree the daemon made is archived,  *)
(* the worktree is gone, unless the departures overlapped with an arrival  *)
(* or with each other, which is in the history.                            *)
THEOREM AllReclaimed == Spec => []Reclaimed
<1>1. IInv => Reclaimed
  <2> SUFFICES ASSUME IInv, NEW p \in Sessions,
                      \A s \in Sessions : inst[s].path = p => sess[s] = "archived",
                      tree[p] # "none", p \notin overlap
               PROVE  FALSE
    BY DEF Reclaimed
  <2>1. PICK s \in Sessions : inst[s].path = p /\ inst[s].status \in {"active", "resolved"}
    BY DEF IInv, Claimed
  <2> QED BY <2>1 DEF IInv, Staged
<1> QED BY <1>1, Inductive, PTL
=============================================================================
