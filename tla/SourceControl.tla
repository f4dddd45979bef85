---------------------------- MODULE SourceControl ----------------------------
(***************************************************************************)
(* Merge and rebase, as the daemon runs them with the git command line     *)
(* (source_control.rs, conflict_resolve.rs, the two callers api/scm.rs and *)
(* workspaces.rs).  Every operation works on one branch, Target: it merges *)
(* another branch into it or rebases it.  It runs in the worktree that has *)
(* Target checked out (Home), or in a temporary one of its own.            *)
(*                                                                         *)
(* A session's operation aborts on a conflict; a workspace's operation     *)
(* hands the conflict to an agent for up to five minutes.  Meanwhile the   *)
(* user, or a session that was started on the branch, works in Home, and   *)
(* other requests may start: there is no lock around an operation.         *)
(***************************************************************************)
EXTENDS Naturals, FiniteSets

CONSTANTS Ops,        \* the requests
          Sources,    \* the branches that are merged in, or rebased onto
          MaxEdits,   \* bounds what the user does in Home
          MaxSteps    \* MAX_REBASE_STEPS

ASSUME BoundsAssumption ==
  /\ MaxEdits \in Nat /\ MaxSteps \in Nat \ {0}
  /\ Ops \cap {"home", "nobody", "user"} = {} /\ Sources \cap {"user", "markers"} = {}

Home == "home"
Dirs == {Home} \cup Ops
Commits == Sources \cup {"user", "markers"}   \* what a branch can hold beyond the common base

VARIABLES tip,        \* commits of Target
          tree,       \* the worktrees that have Target checked out
          op,         \* the requests' progress
          live,       \* a session is live on Target
          edits,      \* what the user did so far
          overlapped  \* history: requests during which somebody else touched Target

vars == <<tip, tree, op, live, edits, overlapped>>

Nobody == "nobody"
\* exists: the directory is a worktree of Target; mid: whose git operation is
\* paused in it; conf: what the files that operation conflicts in hold;
\* staged: git was told they are merged; dirty: somebody's uncommitted edits,
\* which are no part of the operation
NoTree == [exists |-> FALSE, mid |-> Nobody, how |-> "merge", from |-> {},
           conf |-> "none", staged |-> FALSE, dirty |-> FALSE]
Clean  == [NoTree EXCEPT !.exists = TRUE]

NoOp == [pc |-> "idle", how |-> "merge", level |-> "session", src |-> "none",
         dir |-> Home, had |-> FALSE, paths |-> FALSE, steps |-> 0,
         ran |-> {}, broke |-> {}]   \* history: git commands its agent ran, its own that failed

Active(o) == op[o].pc \notin {"idle", "ok", "failed"}
T(o) == tree[op[o].dir]
Unmerged(t) == t.conf # "none" /\ ~t.staged
Marked(t) == t.conf \in {"conflict", "marked"}
InRebase(t) == t.mid # Nobody /\ t.how = "rebase"
\* ensure_clean_worktree: `git status --porcelain` prints nothing
IsClean(t) == ~t.dirty /\ t.conf = "none"
\* worktree_for_branch: a paused rebase leaves HEAD detached
Holder(d) == tree[d].exists /\ ~InRebase(tree[d])
At(o, pc) == op[o].pc = pc
Go(o, pc) == op' = [op EXCEPT ![o].pc = pc]
Touch == overlapped' = overlapped \cup {o \in Ops : Active(o)}

AbortedHard(t, how) == IF t.exists THEN Clean ELSE t   \* mutant: `git reset --hard`
\* the worktree after `git merge --abort` or `git rebase --abort`: whoever's
\* operation is paused there ends; aborting a rebase resets the files as well
Aborted(t, how) == IF t.mid # Nobody /\ t.how = how
                   THEN [Clean EXCEPT !.dirty = t.dirty /\ how = "merge"]
                   ELSE t

\* what a commit of the paused operation brings: conflict markers too, if it has them
Brought(t) == IF t.mid = Nobody THEN {} ELSE t.from \cup (IF Marked(t) THEN {"markers"} ELSE {})
Concluded(t) == IF t.mid = Nobody THEN t ELSE [Clean EXCEPT !.dirty = t.dirty]

Init == /\ tip = {}
        /\ \E checkedOut \in BOOLEAN :
             tree = [d \in Dirs |-> IF d = Home /\ checkedOut THEN Clean ELSE NoTree]
        /\ op = [o \in Ops |-> NoOp]
        /\ live = FALSE /\ edits = 0 /\ overlapped = {}

(***************************************************************************)
(* One request.                                                            *)
(***************************************************************************)

\* a workspace's operation refuses a branch with a live session, once, here;
\* a session's rebase runs in its own directory
Begin(o, how, level, src) ==
  /\ At(o, "idle")
  /\ level = "workspace" => ~live
  /\ level = "session" /\ how = "rebase" => tree[Home].exists
  /\ op' = [op EXCEPT ![o] = [NoOp EXCEPT !.how = how, !.level = level, !.src = src,
              !.pc = IF level = "session" /\ how = "rebase" THEN "git" ELSE "locate"]]
  /\ overlapped' = overlapped \cup {p \in Ops \ {o} : Active(p)}
                     \cup (IF \E p \in Ops \ {o} : Active(p) THEN {o} ELSE {})
  /\ UNCHANGED <<tip, tree, live, edits>>

\* the worktree of the branch, or a temporary one, which git may not create, and
\* refuses while the branch is checked out or being rebased anywhere
Locate(o) ==
  /\ At(o, "locate")
  /\ \/ \E d \in Dirs : /\ Holder(d)
                        /\ op' = [op EXCEPT ![o].dir = d, ![o].pc = "check"]
                        /\ UNCHANGED tree
     \/ /\ \A d \in Dirs : ~tree[d].exists
        /\ tree' = [tree EXCEPT ![o] = Clean]
        /\ op' = [op EXCEPT ![o].dir = o, ![o].pc = "check"]
     \/ /\ \A d \in Dirs : ~Holder(d)
        /\ Go(o, "failed") /\ UNCHANGED tree
  /\ UNCHANGED <<tip, live, edits, overlapped>>

\* cleanup_temp_worktree: `git worktree remove --force`
CleanupOnlyIdle(o, trees) ==   \* mutant: without --force
  IF op[o].dir = o /\ IsClean(tree[o]) THEN [trees EXCEPT ![o] = NoTree] ELSE trees
Cleanup(o, trees) == IF op[o].dir = o THEN [trees EXCEPT ![o] = NoTree] ELSE trees
\* a removal that fails is a warning, or ignored: the request ends all the same
Leave(o, pc, trees, broke) ==
  \/ /\ tree' = Cleanup(o, trees)
     /\ op' = [op EXCEPT ![o].pc = pc, ![o].broke = broke]
  \/ /\ op[o].dir = o /\ tree' = trees
     /\ op' = [op EXCEPT ![o].pc = pc, ![o].broke = broke \cup {"remove"}]
End(o, pc, trees) == Leave(o, pc, trees, op[o].broke)

CheckClean(o) ==
  /\ At(o, "check")
  /\ IF T(o).exists /\ IsClean(T(o)) THEN Go(o, "git") /\ UNCHANGED tree ELSE End(o, "failed", tree)
  /\ UNCHANGED <<tip, live, edits, overlapped>>

\* `git merge` / `git rebase`: refused while an operation is paused in the
\* worktree (a rebase, also when it is dirty), done, or stopped on a conflict
GitRefuses(o) ==
  /\ At(o, "git")
  /\ \/ ~T(o).exists \/ T(o).mid # Nobody
     \/ T(o).dirty
  /\ op' = [op EXCEPT ![o].had = Unmerged(T(o)), ![o].pc = "failing"]
  /\ UNCHANGED <<tip, tree, live, edits, overlapped>>

GitRuns(o) ==
  /\ At(o, "git") /\ T(o).exists /\ T(o).mid = Nobody
  /\ op[o].how = "rebase" => ~T(o).dirty
  /\ \/ /\ tip' = tip \cup {op[o].src}
        /\ End(o, "ok", tree)
     \/ /\ op[o].src \notin tip
        /\ tree' = [tree EXCEPT ![op[o].dir].mid = o, ![op[o].dir].how = op[o].how,
                                ![op[o].dir].from = {op[o].src}, ![op[o].dir].conf = "conflict"]
        /\ op' = [op EXCEPT ![o].had = TRUE, ![o].pc = "failing"]
        /\ UNCHANGED tip
  /\ UNCHANGED <<live, edits, overlapped>>

\* had_conflicts, or rebase_in_progress, decides whether a resolver is tried:
\* only a workspace's operation has one
Failing(o) ==
  /\ At(o, "failing")
  /\ Go(o, IF /\ op[o].level = "workspace"
              /\ IF op[o].how = "merge" THEN op[o].had ELSE InRebase(T(o))
           THEN "resolve" ELSE "abort")
  /\ UNCHANGED <<tip, tree, live, edits, overlapped>>

\* an abort that fails is ignored too
Abort(o) ==
  /\ At(o, "abort")
  /\ \/ End(o, "failed", [tree EXCEPT ![op[o].dir] = Aborted(@, op[o].how)])
     \/ T(o).mid # Nobody /\ Leave(o, "failed", tree, op[o].broke \cup {"abort"})
  /\ UNCHANGED <<tip, live, edits, overlapped>>

\* resolve_merge / resolve_rebase read the unmerged paths and start an agent
\* on them; it may not start.  A rebase that is paused without any is left to git
Resolve(o) ==
  /\ At(o, "resolve")
  /\ op[o].how = "rebase" => InRebase(T(o)) /\ op[o].steps < MaxSteps
  /\ \/ Go(o, "abort")
     \/ /\ op[o].how = "merge" \/ Unmerged(T(o))
        /\ op' = [op EXCEPT ![o].paths = Unmerged(T(o)), ![o].pc = "agent", ![o].steps = @ + 1]
  /\ UNCHANGED <<tip, tree, live, edits, overlapped>>

\* the agent edits the files, and goes on or ends; it may be killed at the deadline,
\* half way through
Agent(o) ==
  /\ At(o, "agent")
  /\ \E c \in {"conflict", "marked", "fixed"} :
       tree' = IF Unmerged(T(o)) THEN [tree EXCEPT ![op[o].dir].conf = c] ELSE tree
  /\ \E pc \in {"agent", "verify"} : Go(o, pc)
  /\ UNCHANGED <<tip, live, edits, overlapped>>

\* nothing but its prompt keeps it from git: it commits the operation as the files
\* are, or aborts it
AgentGit(o, command) == op' = [op EXCEPT ![o].ran = @ \cup {command}]
AgentCommits(o) ==
  /\ At(o, "agent") /\ T(o).mid # Nobody
  /\ AgentGit(o, "commit")
  /\ \/ /\ tip' = tip \cup Brought(T(o))
        /\ tree' = [tree EXCEPT ![op[o].dir] = Concluded(@)]
     \/ /\ InRebase(T(o)) /\ UNCHANGED tip
        /\ tree' = [tree EXCEPT ![op[o].dir].conf = "conflict", ![op[o].dir].staged = FALSE]
  /\ UNCHANGED <<live, edits, overlapped>>
AgentAborts(o) ==
  /\ At(o, "agent") /\ T(o).mid # Nobody
  /\ AgentGit(o, "abort")
  /\ tree' = [tree EXCEPT ![op[o].dir] = Aborted(@, T(o).how)]
  /\ UNCHANGED <<tip, live, edits, overlapped>>

\* stage_and_verify: `git add` marks the files as merged whatever they hold,
\* then `git diff --check` looks for markers; without unmerged paths it checks
\* nothing.  After an agent that ran git, the paths may not be there to add.
VerifyTrusts(o) ==   \* mutant: without the check for markers
  /\ At(o, "verify")
  /\ Go(o, "finish") \/ (op[o].ran # {} /\ Go(o, "abort"))
  /\ tree' = [tree EXCEPT ![op[o].dir].staged = @ \/ (op[o].paths /\ T(o).conf # "none")]
  /\ UNCHANGED <<tip, live, edits, overlapped>>
Verify(o) ==
  /\ At(o, "verify")
  /\ \/ Go(o, IF op[o].paths /\ Marked(T(o)) THEN "abort" ELSE "finish")
     \/ op[o].ran # {} /\ Go(o, "abort")
  /\ tree' = [tree EXCEPT ![op[o].dir].staged = @ \/ (op[o].paths /\ T(o).conf # "none")]
  /\ UNCHANGED <<tip, live, edits, overlapped>>

\* git does not commit the operation, or does not go on with it
CommitFails(o) == T(o).mid # Nobody /\ Go(o, "abort") /\ UNCHANGED <<tip, tree>>

\* the merge is committed if MERGE_HEAD is still there, and reported in any case
FinishMerge(o) ==
  /\ At(o, "finish") /\ op[o].how = "merge"
  /\ \/ /\ tip' = tip \cup Brought(T(o))
        /\ End(o, "ok", [tree EXCEPT ![op[o].dir] = Concluded(@)])
     \/ CommitFails(o)
  /\ UNCHANGED <<live, edits, overlapped>>

\* `git rebase --continue` or --skip: the rebase ends, or its next commit conflicts
FinishRebase(o) ==
  /\ At(o, "finish") /\ op[o].how = "rebase"
  /\ \/ /\ tip' = tip \cup Brought(T(o))
        /\ tree' = [tree EXCEPT ![op[o].dir] = Concluded(@)]
        /\ Go(o, "resolve")
     \/ /\ InRebase(T(o)) /\ UNCHANGED tip
        /\ tree' = [tree EXCEPT ![op[o].dir].conf = "conflict", ![op[o].dir].staged = FALSE]
        /\ Go(o, "resolve")
     \/ InRebase(T(o)) /\ CommitFails(o)
  /\ UNCHANGED <<live, edits, overlapped>>

\* the loop of resolve_rebase finds the rebase over, or gives up after MAX_REBASE_STEPS
RebaseOver(o) ==
  /\ At(o, "resolve") /\ op[o].how = "rebase"
  /\ \/ ~InRebase(T(o)) /\ op[o].steps < MaxSteps /\ End(o, "ok", tree)
     \/ op[o].steps >= MaxSteps /\ Go(o, "abort") /\ UNCHANGED tree
  /\ UNCHANGED <<tip, live, edits, overlapped>>

Common(o) == \/ Locate(o) \/ CheckClean(o) \/ GitRefuses(o) \/ GitRuns(o) \/ Failing(o)
             \/ Resolve(o) \/ Agent(o) \/ AgentCommits(o) \/ AgentAborts(o)
             \/ Verify(o) \/ Abort(o)
Merge(o)  == op[o].how = "merge" /\ (Common(o) \/ FinishMerge(o))
Rebase(o) == op[o].how = "rebase" /\ (Common(o) \/ FinishRebase(o) \/ RebaseOver(o))

(***************************************************************************)
(* Everybody else who works in Home: the user, or the session's agent.     *)
(***************************************************************************)
Edit ==
  /\ tree[Home].exists /\ ~tree[Home].dirty /\ edits < MaxEdits
  /\ tree' = [tree EXCEPT ![Home].dirty = TRUE] /\ edits' = edits + 1
  /\ Touch /\ UNCHANGED <<tip, op, live>>

Commit ==
  /\ tree[Home].dirty /\ tree[Home].mid = Nobody
  /\ tree' = [tree EXCEPT ![Home].dirty = FALSE] /\ tip' = tip \cup {"user"}
  /\ Touch /\ UNCHANGED <<op, live, edits>>

\* a merge or rebase of the user's own, stopped on a conflict, then concluded
StartOwn ==
  /\ tree[Home].exists /\ tree[Home].mid = Nobody /\ ~tree[Home].dirty /\ edits < MaxEdits
  /\ \E how \in {"merge", "rebase"} :
       tree' = [tree EXCEPT ![Home] = [Clean EXCEPT !.mid = "user", !.how = how, !.from = {"user"}, !.conf = "conflict"]]
  /\ edits' = edits + 1
  /\ Touch /\ UNCHANGED <<tip, op, live>>

FinishOwn ==
  /\ tree[Home].mid = "user"
  /\ tree' = [tree EXCEPT ![Home] = Concluded(@)] /\ tip' = tip \cup {"user"}
  /\ Touch /\ UNCHANGED <<op, live, edits>>

\* a session is started on the branch, or ends
Session ==
  /\ tree[Home].exists /\ live' = ~live
  /\ UNCHANGED <<tip, tree, op, edits, overlapped>>

Next == \/ \E o \in Ops : \/ Merge(o) \/ Rebase(o)
                         \/ \E how \in {"merge", "rebase"}, level \in {"session", "workspace"}, src \in Sources :
                              Begin(o, how, level, src)
        \/ Edit \/ Commit \/ StartOwn \/ FinishOwn \/ Session
Spec == Init /\ [][Next]_vars

(***************************************************************************)
(* Properties.                                                             *)
(***************************************************************************)
TreeType == [exists : BOOLEAN, mid : Ops \cup {Nobody, "user"}, how : {"merge", "rebase"},
             from : SUBSET Commits, conf : {"none", "conflict", "marked", "fixed"},
             staged : BOOLEAN, dirty : BOOLEAN]
TypeOK ==
  /\ tip \subseteq Commits
  /\ tree \in [Dirs -> TreeType]
  /\ live \in BOOLEAN /\ edits \in 0 .. MaxEdits /\ overlapped \subseteq Ops
  /\ \A o \in Ops : op[o].steps \in 0 .. MaxSteps /\ op[o].dir \in Dirs
  /\ \A o \in Ops : op[o].ran \subseteq {"commit", "abort"} /\ op[o].broke \subseteq {"abort", "remove"}

\* a request nobody interfered with
Alone(o) == o \notin overlapped

\* A request that is reported as done has brought the source's commits into the
\* branch ("`Ok` means a clean resolution is committed", source_control.rs:233),
\* unless its agent aborted the operation, which is reported as done all the same
\* (README, section 5).  Conflict markers get into the branch only where an agent
\* committed them by itself, or somebody interfered with a request, this one or an
\* earlier one: not by what an agent leaves in the files.
OkMeansDone ==
  \A o \in Ops : At(o, "ok") /\ Alone(o) =>
    /\ op[o].src \in tip \/ "abort" \in op[o].ran
    /\ "markers" \in tip => overlapped # {} \/ \E p \in Ops : "commit" \in op[p].ran

\* However it ends, and whatever its agent did, a request leaves a temporary
\* worktree only when git did not remove it, and an operation of its own paused,
\* in its directory, only when git did not abort it; the request ends all the
\* same (README, section 5).
NothingLeftBehind ==
  \A o \in Ops : At(o, "ok") \/ At(o, "failed") =>
    /\ tree[o].exists => "remove" \in op[o].broke
    /\ \A d \in Dirs : tree[d].mid = o =>
         At(o, "failed") /\ d = op[o].dir /\ "abort" \in op[o].broke

\* What the user had under way in Home before a request began survives it,
\* although it resets and aborts in that directory: uncommitted edits, and a
\* merge or rebase paused there - unless a session's rebase meets a paused rebase,
\* which it takes for its own and aborts, edits and all (README, section 5).
TakesForItsOwn(o) == op[o].level = "session" /\ op[o].how = "rebase" /\ InRebase(tree[Home])
UserWorkKept ==
  [][\A o \in Ops : op'[o] # op[o] /\ Alone(o) /\ ~TakesForItsOwn(o) =>
       /\ tree[Home].dirty => tree'[Home].dirty
       /\ tree[Home].mid = "user" => tree'[Home].mid = "user"]_vars
==============================================================================
