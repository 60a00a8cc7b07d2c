---------------------------- MODULE PipelineStep ----------------------------
(***************************************************************************)
(* The pure part of agend-core's pipeline: the state of one task and what  *)
(* each event does to it (pipeline/state.rs), with the merge gate of       *)
(* policy/merge_gate.rs.                                                   *)
(*                                                                         *)
(* step(state, event) works on a copy; the helpers here take the workflow  *)
(* and the copy and return the changed copy.  An error met in a helper is  *)
(* the status "refused" of the copy: the caller drops it and nothing has   *)
(* changed.  The field `actions' is the out-parameter of the helpers.      *)
(***************************************************************************)
EXTENDS Workflow

CONSTANTS
  Heads,       \* commit hashes of the task's branch
  Patches,     \* patch-ids
  Reviewers,   \* who may approve
  Children,    \* task ids a fanout may create
  None         \* Option::None

ASSUME NoneAssumption ==
  None \notin Heads /\ None \notin Patches /\ None \notin Children
ASSUME ReviewersAssumption == IsFiniteSet(Reviewers)

-----------------------------------------------------------------------------
(* Types                                                                   *)

Status == {"pending", "running", "done", "failed", "cancelled"}
Terminal == {"done", "failed", "cancelled"}

Option(S) == S \cup {None}

\* ApprovalRecord and PassedCheck; a stage is named by its number.
Approval == [stage : Nat, head : Option(Heads), patch : Option(Patches),
             reviewers : SUBSET Reviewers]
PassedCheck == [stage : Nat, head : Option(Heads)]

\* PendingHeadChange: CommitCreated or MainAdvanced.
HeadChange == [kind : {"commit", "main"}, head : Heads, patch : Patches,
               conflict : BOOLEAN]

\* The kinds of action that ask for a result.
RequestKind == {"AssignWork", "ReturnToWork", "Submit", "RunCommand",
                "RequestApproval", "Merge", "Fanout"}
ActionKind == RequestKind \cup
  {"ScheduleTimeout", "NotifyTimeout", "ReassignStage", "CancelFanoutSiblings",
   "TaskCancelled", "TaskFailed", "TaskDone"}

\* PipelineAction.  `children' is the choices of a RequestApproval and the
\* siblings of a CancelFanoutSiblings.
Action == [kind : ActionKind, stage : Nat, attempt : Nat,
           head : Option(Heads), children : SUBSET Children]

Act(kind, stage, attempt) ==
  [kind |-> kind, stage |-> stage, attempt |-> attempt,
   head |-> None, children |-> {}]

\* Working copies of PipelineState.  branch and change_id matter only as set
\* or not set; of the work product only its kind matters.  `actions' is the
\* out-parameter of the helpers: what the current step returns.
Copies(w) ==
  [stage_index : 1 .. Len_(w) + 1,
   status : Status \cup {"refused"},
   branch : BOOLEAN,
   current_head : Option(Heads),
   patch_id : Option(Patches),
   change_id : BOOLEAN,
   work_product : WorkOutput \cup {None},
   approval_reviewers : SUBSET Reviewers,
   pending_pick : Option(Children),
   attempts : [Index(w) -> Nat],
   approvals : SUBSET Approval,
   passed_checks : SUBSET PassedCheck,
   fanout_children : SUBSET Children,
   selected_child : Option(Children),
   merge_commit : BOOLEAN,
   pending_head_changes : Seq(HeadChange),
   notified_timeout : Nat \X Nat,
   pending_work_reason : BOOLEAN,
   actions : SUBSET Action]

\* PipelineState between steps.
PipelineState(w) == {s \in Copies(w) : s.status # "refused" /\ s.actions = {}}

\* PipelineState::new
NewState(w) ==
  [stage_index |-> 1, status |-> "pending", branch |-> FALSE,
   current_head |-> None, patch_id |-> None, change_id |-> FALSE,
   work_product |-> None, approval_reviewers |-> {}, pending_pick |-> None,
   attempts |-> [i \in Index(w) |-> 0], approvals |-> {}, passed_checks |-> {},
   fanout_children |-> {}, selected_child |-> None, merge_commit |-> FALSE,
   pending_head_changes |-> <<>>, notified_timeout |-> <<0, 0>>,
   pending_work_reason |-> FALSE, actions |-> {}]

-----------------------------------------------------------------------------
(* Read access and the merge gate                                          *)

InStage(w, s, kind) == s.status = "running" /\ IsKind(w, s.stage_index, kind)
Attempt(w, s) == IF s.stage_index \in Index(w) THEN s.attempts[s.stage_index] ELSE 0

MergeInFlight(w, s) == InStage(w, s, "merge")

\* approval_satisfied for the records of stage i.
ApprovalForStage(w, s, i) ==
  /\ IsKind(w, i, "approval")
  /\ \E a \in s.approvals :
       /\ a.stage = i
       /\ w.stages[i].bind_head => s.current_head # None /\ a.head = s.current_head

CheckPassed(s, i) == [stage |-> i, head |-> s.current_head] \in s.passed_checks

\* merge_gate(i).allowed: evaluate() over the facts of the stages before i.
MergeGate(w, s, i) ==
  /\ s.current_head # None
  /\ \E j \in Index(w) : j < i /\ IsKind(w, j, "command")
  /\ \/ w.allow_unreviewed
     \/ \E j \in Index(w) : j < i /\ IsKind(w, j, "approval") /\ w.stages[j].bind_head
  /\ \A j \in Index(w) : j < i =>
       /\ IsKind(w, j, "command") => CheckPassed(s, j)
       /\ IsKind(w, j, "approval") => ApprovalForStage(w, s, j)

-----------------------------------------------------------------------------
(* Helpers on the working copy, under the names of the source.             *)

Refused(s) == [s EXCEPT !.status = "refused"]

\* attempts[j] += 1
OneMore(attempts, j) == [attempts EXCEPT ![j] = @ + 1]

Emit(s, acts) == [s EXCEPT !.actions = @ \cup acts]

\* Mutant: the winner named so far outlives the reviewers who named it.
ClearPartialKeepsPick(s) == [s EXCEPT !.approval_reviewers = {}]

ClearPartial(s) == [s EXCEPT !.approval_reviewers = {}, !.pending_pick = None]

ClearFanout(s) == [s EXCEPT !.fanout_children = {}, !.selected_child = None]

\* Keep only the approvals in K; a dropped pick takes its winner with it.
DropApprovals(w, s, K) ==
  LET dropped == {a \in s.approvals : a \notin K}
  IN  ClearPartial(
        [s EXCEPT !.approvals = @ \cap K,
                  !.selected_child =
                     IF \E a \in dropped : PicksAt(w, a.stage) THEN None ELSE @])

\* Mutant: a new head voids the approvals but not the checks.
InvalidateApprovalsOnly(w, s) ==
  DropApprovals(w, s, {a \in s.approvals : a.head = None \/ a.head = s.current_head})

InvalidateHeadBound(w, s) ==
  LET kept == {a \in s.approvals : a.head = None \/ a.head = s.current_head}
  IN  [DropApprovals(w, s, kept) EXCEPT
         !.passed_checks = {c \in @ : c.head = s.current_head}]

ForgetFrom(w, s, target) ==
  DropApprovals(w,
    [s EXCEPT !.passed_checks = {c \in @ : c.stage < target}],
    {a \in s.approvals : a.stage < target})

FailTask(s, stage) ==
  Emit(ClearPartial([s EXCEPT !.status = "failed"]), {Act("TaskFailed", stage, 0)})

Cancelled(s, stage) ==
  Emit(ClearPartial([s EXCEPT !.status = "cancelled"]), {Act("TaskCancelled", stage, 0)})

\* The request enter_stage makes for stage j at the attempt it starts.
RequestFor(w, s, j) ==
  LET kind == CASE KindAt(w, j) = "work"     -> "AssignWork"
                [] KindAt(w, j) = "submit"   -> "Submit"
                [] KindAt(w, j) = "command"  -> "RunCommand"
                [] KindAt(w, j) = "approval" -> "RequestApproval"
                [] KindAt(w, j) = "merge"    -> "Merge"
                [] KindAt(w, j) = "fanout"   -> "Fanout"
  IN  [kind |-> kind, stage |-> j, attempt |-> s.attempts[j],
       head |-> IF NeedsHead(w, j) \/ KindAt(w, j) = "fanout"
                THEN s.current_head ELSE None,
       children |-> IF PicksAt(w, j) THEN s.fanout_children ELSE {}]

\* expand_command_placeholders fails: a value the command uses is not set.
MissingValue(w, s, j) ==
  \/ "pr" \in w.stages[j].uses /\ ~s.change_id
  \/ "head" \in w.stages[j].uses /\ s.current_head = None
  \/ "branch" \in w.stages[j].uses /\ ~s.branch

\* Where the loop of enter_stage stops: the first stage from i on that is not
\* an approval already satisfied, or just past the end.
EntryStage(w, s, i) ==
  FirstOf({j \in i .. Len_(w) + 1 : ~ApprovalForStage(w, s, j)})

\* A fanout that runs again makes new children: the old ones, the pick among
\* them and every later approval no longer count.
ResetFanoutAt(w, s, j) ==
  IF IsKind(w, j, "fanout")
  THEN [ClearFanout(s) EXCEPT !.approvals = {a \in @ : a.stage < j}]
  ELSE s

\* Start a new attempt of stage j and ask for its result.
BeginAttempt(w, s, j) ==
  LET n == [ClearPartial(s) EXCEPT !.stage_index = j,
                                   !.pending_work_reason = FALSE,
                                   !.attempts = OneMore(@, j)]
  IN  IF IsKind(w, j, "command") /\ MissingValue(w, n, j) THEN FailTask(n, j)
      ELSE IF IsKind(w, j, "merge") /\ ~MergeGate(w, n, j) THEN Refused(n)
      ELSE Emit(n, {Act("ScheduleTimeout", j, n.attempts[j]), RequestFor(w, n, j)})

\* Mutant: the index of a finished task is one too far.
FinishTaskPastEnd(w, s, passedOver) ==
  Emit([s EXCEPT !.stage_index = Len_(w) + 2, !.status = "done"], {Act("TaskDone", 0, 0)})

\* Past the last stage: the task is done.  The loop has cleared the partial
\* approvals and the rework reason only if it passed over a stage.
FinishTask(w, s, passedOver) ==
  LET n == IF passedOver
           THEN [ClearPartial(s) EXCEPT !.pending_work_reason = FALSE] ELSE s
  IN  Emit([n EXCEPT !.stage_index = Len_(w) + 1, !.status = "done"],
           {Act("TaskDone", 0, 0)})

EnterStage(w, s, i) ==
  LET j == EntryStage(w, s, i)
  IN  IF j > Len_(w) THEN FinishTask(w, s, i <= Len_(w))
      ELSE BeginAttempt(w, ResetFanoutAt(w, s, j), j)

\* Hand the work stage at `target' back to the task holder.
ReturnToWork(w, s, target) ==
  LET f == ForgetFrom(w, s, target)
      g == IF FanoutAtOrAfter(w, target) THEN ClearFanout(f) ELSE f
      n == [g EXCEPT !.work_product = None, !.pending_work_reason = TRUE,
                     !.stage_index = target, !.attempts = OneMore(@, target)]
  IN  Emit(n, {Act("ScheduleTimeout", target, n.attempts[target]),
               Act("ReturnToWork", target, n.attempts[target])})

\* on_fail, else for a command or approval the most recent work, else none.
FailureTarget(w, i) ==
  IF w.stages[i].on_fail # 0 THEN w.stages[i].on_fail
  ELSE IF KindAt(w, i) \in {"command", "approval"} THEN PreviousWork(w, i) ELSE 0

FailStage(w, s, i) ==
  IF FailureTarget(w, i) # 0 THEN ReturnToWork(w, s, FailureTarget(w, i))
  ELSE FailTask(s, i)

KeepOnlyWinner(s, winner) ==
  LET siblings == s.fanout_children \ {winner}
      n == [s EXCEPT !.fanout_children = {winner}, !.selected_child = winner]
  IN  IF siblings = {} THEN n
      ELSE Emit(n, {[Act("CancelFanoutSiblings", 0, 0) EXCEPT !.children = siblings]})

-----------------------------------------------------------------------------
(* Head changes (D14)                                                      *)

\* The first command or head-bound approval after the most recent branch work
\* before `current', up to `current' itself; 0 if none or in a work stage.
RecheckTarget(w, current) ==
  LET bound == {j \in Index(w) : /\ PreviousBranchWork(w, current) < j
                                 /\ j <= current
                                 /\ IsHeadBound(w, j)}
  IN  IF IsKind(w, current, "work") \/ bound = {} THEN 0 ELSE FirstOf(bound)

RecordNewHead(w, s, head, patch) ==
  InvalidateHeadBound(w, [s EXCEPT !.current_head = head, !.patch_id = patch])

\* Approvals and fanouts that collected something for the old head start over.
RestartIfCollected(w, s) ==
  IF InStage(w, s, "approval") \/ InStage(w, s, "fanout")
  THEN EnterStage(w, s, s.stage_index) ELSE s

RecheckForNewHead(w, s) ==
  LET target == RecheckTarget(w, s.stage_index)
  IN  IF target # 0 THEN EnterStage(w, s, target) ELSE RestartIfCollected(w, s)

\* The patch that was reviewed: that of an approval of the current head, if
\* there is one, else the patch of the head.
ApprovedPatch(s) ==
  LET own == {a \in s.approvals : a.head = s.current_head}
  IN  IF own # {} THEN (CHOOSE a \in own : TRUE).patch ELSE s.patch_id

\* A clean rebase that kept the patch: approvals move along, checks do not.
KeepApprovals(w, s, head, patch) ==
  LET move(a) == IF a.head = s.current_head /\ a.patch = ApprovedPatch(s)
                 THEN [a EXCEPT !.head = head] ELSE a
      n == [ClearPartial(s) EXCEPT !.passed_checks = {},
                                   !.approvals = {move(a) : a \in @}]
  IN  RecheckForNewHead(w, RecordNewHead(w, n, head, patch))

\* Mutant: a clean rebase keeps the approvals whatever became of the patch.
MainAdvancedAnyPatch(w, s, head, patch, conflict) ==
  IF ~s.branch \/ conflict \/ s.current_head = head THEN s
  ELSE IF KindAt(w, s.stage_index) \in {"work", "submit"}
  THEN RecheckForNewHead(w, RecordNewHead(w, s, head, patch))
  ELSE KeepApprovals(w, s, head, patch)

MainAdvanced(w, s, head, patch, conflict) ==
  IF ~s.branch \/ (~conflict /\ s.current_head = head) THEN s
  ELSE IF KindAt(w, s.stage_index) \in {"work", "submit"} THEN
    IF conflict THEN s ELSE RecheckForNewHead(w, RecordNewHead(w, s, head, patch))
  ELSE IF s.current_head = None THEN Refused(s)
  ELSE IF ~conflict /\ patch = ApprovedPatch(s) THEN KeepApprovals(w, s, head, patch)
  ELSE LET n == IF conflict THEN InvalidateHeadBound(w, s)
                ELSE RecordNewHead(w, s, head, patch)
           work == PreviousWork(w, s.stage_index)
       IN  IF work # 0 THEN ReturnToWork(w, n, work) ELSE FailTask(n, s.stage_index)

ApplyHeadChange(w, s, c) ==
  IF s.status # "running" THEN s
  ELSE IF c.kind = "main" THEN MainAdvanced(w, s, c.head, c.patch, c.conflict)
  ELSE IF s.current_head = c.head THEN s
  ELSE RecheckForNewHead(w, RecordNewHead(w, s, c.head, c.patch))

\* One turn of the loop of merge_failed: only the last change that asks for
\* something speaks.
ApplyPending(w, s, c) ==
  LET n == ApplyHeadChange(w, [s EXCEPT !.actions = {}], c)
  IN  IF n.actions = {} THEN [n EXCEPT !.actions = s.actions] ELSE n

\* The state after the first k pending changes.
Drained(w, s) ==
  LET f[k \in Nat] ==
        IF k = 0 THEN [s EXCEPT !.pending_head_changes = <<>>]
        ELSE ApplyPending(w, f[k - 1], s.pending_head_changes[k])
  IN  f

MergeFailedState(w, s) ==
  LET n == Drained(w, s)[Len(s.pending_head_changes)]
  IN  IF ~MergeInFlight(w, n) THEN n
      ELSE IF RecheckTarget(w, n.stage_index) = 0 THEN Refused(n)
      ELSE EnterStage(w, n, RecheckTarget(w, n.stage_index))

-----------------------------------------------------------------------------
(* What an accepted result does to the state.                              *)

\* WorkCompleted with a branch: sets branch, head and patch; a new head voids
\* what was bound to the old one.
BranchProduct(w, s, head, patch) ==
  LET moved == [s EXCEPT !.current_head = head]
      n == IF s.current_head # head THEN InvalidateHeadBound(w, moved) ELSE s
  IN  EnterStage(w,
        [n EXCEPT !.branch = TRUE, !.current_head = head, !.patch_id = patch,
                  !.work_product = "branch"],
        s.stage_index + 1)

\* WorkCompleted with a result or a plan; a new plan forgets the children of
\* the old one.
OtherProduct(w, s) ==
  LET output == w.stages[s.stage_index].output
      n == IF output = "plan" /\ FanoutAtOrAfter(w, s.stage_index)
           THEN ClearFanout(s) ELSE s
  IN  EnterStage(w, [n EXCEPT !.work_product = output], s.stage_index + 1)

\* Submitted: only some forges return a change id.
ChangeSubmitted(w, s) ==
  EnterStage(w, [s EXCEPT !.change_id = w.stages[s.stage_index].returns_change],
             s.stage_index + 1)

\* CommandFinished with exit code 0.
CheckSucceeded(w, s, head) ==
  EnterStage(w,
    [s EXCEPT !.passed_checks = @ \cup {[stage |-> s.stage_index, head |-> head]}],
    s.stage_index + 1)

\* The child a pick approval stands for: the one named, else the one chosen
\* by the reviewers before; it must be a current child and agree with them.
PickedWinner(s, choice) == IF choice # None THEN choice ELSE s.pending_pick

PickAccepted(w, s, choice) ==
  IF PicksAt(w, s.stage_index)
  THEN /\ PickedWinner(s, choice) \in s.fanout_children
       /\ s.pending_pick \in {None, PickedWinner(s, choice)}
  ELSE choice = None

\* approval_reviewers.push(reviewer)
Votes(s, reviewer) == s.approval_reviewers \cup {reviewer}

\* ApprovalGranted: one more reviewer; when the count is met the approval is
\* recorded for the head and the stage is left.
Granted(w, s, reviewer, head, choice) ==
  LET stage == s.stage_index
      picks == PicksAt(w, stage)
      bound == w.stages[stage].bind_head
      reviewers == Votes(s, reviewer)
      record == [stage |-> stage, head |-> IF bound THEN head ELSE None,
                 patch |-> IF bound THEN s.patch_id ELSE None,
                 reviewers |-> reviewers]
      recorded == [s EXCEPT
                     !.approvals = {a \in @ : a.stage # stage} \cup {record},
                     !.approval_reviewers = {}, !.pending_pick = None]
  IN  IF reviewer \in s.approval_reviewers \/ ~PickAccepted(w, s, choice) THEN Refused(s)
      ELSE IF Cardinality(reviewers) < w.stages[stage].count
      THEN [s EXCEPT !.approval_reviewers = reviewers,
                     !.pending_pick = IF picks THEN PickedWinner(s, choice) ELSE @]
      ELSE EnterStage(w,
             IF picks THEN KeepOnlyWinner(recorded, PickedWinner(s, choice)) ELSE recorded,
             stage + 1)

\* FanoutCompleted: selected is the child that finished first for join
\* "first", None otherwise.
ChildrenJoined(w, s, children, selected) ==
  LET n == [s EXCEPT !.fanout_children = children, !.selected_child = None]
      fits == IF w.stages[s.stage_index].join = "first"
              THEN selected \in children ELSE selected = None
  IN  IF children = {} \/ ~fits THEN Refused(s)
      ELSE EnterStage(w, IF selected # None THEN KeepOnlyWinner(n, selected) ELSE n,
                      s.stage_index + 1)

\* MergeCompleted.
Merged(w, s) ==
  IF ~MergeGate(w, s, s.stage_index) THEN Refused(s)
  ELSE Emit([s EXCEPT !.merge_commit = TRUE, !.pending_head_changes = <<>>,
                      !.status = "done"], {Act("TaskDone", 0, 0)})

\* Mutant: a commit during an in-flight merge replaces the head at once.
HeadChangedAtOnce(w, s, c) ==
  IF ~MergeInFlight(w, s) THEN ApplyHeadChange(w, s, c)
  ELSE IF c.kind = "commit" /\ s.current_head = c.head
  THEN [s EXCEPT !.pending_head_changes = <<>>]
  ELSE [s EXCEPT !.pending_head_changes = Append(@, c), !.current_head = c.head]

\* CommitCreated and MainAdvanced: recorded while the merge is in flight, else
\* applied; the branch back at the head that was sent means that the pending
\* changes are gone.
HeadChanged(w, s, c) ==
  IF ~MergeInFlight(w, s) THEN ApplyHeadChange(w, s, c)
  ELSE IF c.kind = "commit" /\ s.current_head = c.head
  THEN [s EXCEPT !.pending_head_changes = <<>>]
  ELSE [s EXCEPT !.pending_head_changes = Append(@, c)]

-----------------------------------------------------------------------------
(* Crash recovery: what a restarted daemon rebuilds from the stored state. *)

\* Mutant: a rework is handed out as new work after a restart.
OutstandingForgetsRework(w, s) ==
  IF s.status # "running" \/ s.stage_index \notin Index(w) THEN {}
  ELSE LET i == s.stage_index
           again == EnterStage(w, [s EXCEPT !.attempts[i] = @ - 1,
                                            !.approvals = {a \in @ : a.stage # i}], i)
       IN  {a \in again.actions :
              s.notified_timeout = <<i, s.attempts[i]>> => a.kind # "ScheduleTimeout"}

\* outstanding_actions: the unanswered requests, without a new attempt.
OutstandingActions(w, s) ==
  IF s.status # "running" \/ s.stage_index \notin Index(w) THEN {}
  ELSE
    LET i == s.stage_index
        copy == [s EXCEPT !.attempts[i] = @ - 1,
                          !.approvals = {a \in @ : a.stage # i}]
        again == EnterStage(w, copy, i)
        timed == IF s.notified_timeout = <<i, s.attempts[i]>>
                 THEN {a \in again.actions : a.kind # "ScheduleTimeout"}
                 ELSE again.actions
        rework(a) == IF s.pending_work_reason /\ a.kind = "AssignWork"
                     THEN [a EXCEPT !.kind = "ReturnToWork"] ELSE a
    IN  IF again.status = "refused" THEN {} ELSE {rework(a) : a \in timed}

\* done_invariants: what a finished task's records must show.
DoneInvariants(w, s) ==
  LET lastFanout == LastOf({i \in Index(w) : IsKind(w, i, "fanout")})
  IN  /\ \A i \in Index(w) :
           /\ IsKind(w, i, "command") => CheckPassed(s, i)
           /\ IsKind(w, i, "approval") /\ w.stages[i].bind_head =>
                \E a \in s.approvals : a.stage = i /\ a.head = s.current_head
      /\ lastFanout # 0 /\ w.stages[lastFanout].join = "pick" =>
           s.selected_child # None /\ s.selected_child \in s.fanout_children

\* PipelineState::restore accepts the snapshot of s.
RestoreAccepts(w, s) ==
  LET i == s.stage_index
  IN  /\ i \in 1 .. Len_(w) + 1
      /\ i = Len_(w) + 1 => s.status = "done"
      /\ s.status = "running" => Attempt(w, s) > 0
      /\ s.status = "pending" => s = NewState(w)
      /\ \A c \in s.passed_checks :
           /\ IsKind(w, c.stage, "command")
           /\ \A d \in s.passed_checks : c.stage = d.stage => c = d
      /\ \A a \in s.approvals :
           /\ \A b \in s.approvals : a.stage = b.stage => a = b
           /\ IsKind(w, a.stage, "approval")
           /\ Cardinality(a.reviewers) = w.stages[a.stage].count
           /\ IF w.stages[a.stage].bind_head THEN a.head # None /\ a.patch # None
              ELSE a.head = None /\ a.patch = None
      /\ s.current_head = None <=> s.patch_id = None
      /\ s.pending_head_changes # <<>> => MergeInFlight(w, s)
      /\ s.status = "running" /\ s.approval_reviewers # {} =>
           /\ IsKind(w, i, "approval")
           /\ Cardinality(s.approval_reviewers) < w.stages[i].count
      /\ s.pending_work_reason => IsKind(w, i, "work")
      /\ s.notified_timeout # <<0, 0>> =>
           /\ s.notified_timeout[1] \in Index(w)
           /\ s.notified_timeout[2] \in 1 .. s.attempts[s.notified_timeout[1]]
      /\ MergeInFlight(w, s) => MergeGate(w, s, i)
      /\ s.status = "done" =>
           /\ DoneInvariants(w, s)
           /\ (\E j \in Index(w) : IsKind(w, j, "merge")) => s.merge_commit
=============================================================================
