------------------------------ MODULE Pipeline ------------------------------
(***************************************************************************)
(* One task running its workflow: PipelineStep driven by events.           *)
(*                                                                         *)
(* `st' is the PipelineState and `issued' is every action handed out so    *)
(* far.  The world answers any request it was ever handed, at any time,    *)
(* any number of times or never: results are late, duplicated and          *)
(* reordered, and the identity check decides which of them count.  Head    *)
(* changes, timeouts and cancellation come at any moment.  An event that   *)
(* step refuses changes nothing, so it is an action that is not enabled.   *)
(***************************************************************************)
EXTENDS PipelineStep

CONSTANTS
  Workflows,        \* the workflows a task may be created with
  MaxDisturbances   \* bound on failures, head changes, timeouts and cancellations;
                    \* None for no bound

ASSUME WorkflowsAssumption ==
  \A w \in Workflows : IsWorkflow(w) /\ Len_(w) > 0 /\ StaticRules(w)
ASSUME BoundAssumption == MaxDisturbances = None \/ MaxDisturbances \in Nat

VARIABLES
  wf,             \* the workflow of the task, fixed at creation
  st,             \* PipelineState (workflow and task id left out)
  issued,         \* every PipelineAction returned so far
  disturbances    \* how many disturbances have happened (bound of the model)

vars == <<wf, st, issued, disturbances>>

-----------------------------------------------------------------------------
(* Events: one action per PipelineEvent that step accepts.                 *)

\* step returned Ok: the copy becomes the state, its actions are handed out.
Commit(n) ==
  /\ n.status # "refused"
  /\ st' = [n EXCEPT !.actions = {}]
  /\ issued' = issued \cup n.actions
  /\ UNCHANGED wf

Undisturbed == UNCHANGED disturbances
Disturb ==
  /\ MaxDisturbances = None \/ disturbances < MaxDisturbances
  /\ disturbances' = disturbances + 1

\* check_identity: the result answers the current attempt of the current
\* stage and, when the stage is head-bound and the event names a head, is
\* about the current head.
CheckIdentity(r, namesHead) ==
  /\ st.status = "running"
  /\ st.stage_index \in Index(wf)
  /\ r.stage = st.stage_index
  /\ r.attempt = Attempt(wf, st)
  /\ namesHead /\ NeedsHead(wf, st.stage_index) => r.head = st.current_head

\* Requests of the given kinds handed out so far.
Asked(kinds) == {r \in issued : r.kind \in kinds}

Init ==
  /\ wf \in Workflows
  /\ st = NewState(wf)
  /\ issued = {}
  /\ disturbances = 0

Start ==
  /\ st.status = "pending"
  /\ Commit(EnterStage(wf, [st EXCEPT !.status = "running"], 1))
  /\ Undisturbed

BranchCompleted(r, head, patch) ==
  /\ CheckIdentity(r, FALSE)
  /\ IsBranchWork(wf, st.stage_index)
  /\ Commit(BranchProduct(wf, st, head, patch))
  /\ Undisturbed

ProductCompleted(r) ==
  /\ CheckIdentity(r, FALSE)
  /\ InStage(wf, st, "work") /\ ~IsBranchWork(wf, st.stage_index)
  /\ Commit(OtherProduct(wf, st))
  /\ Undisturbed

Submitted(r) ==
  /\ CheckIdentity(r, FALSE)
  /\ InStage(wf, st, "submit")
  /\ Commit(ChangeSubmitted(wf, st))
  /\ Undisturbed

CommandPassed(r) ==
  /\ CheckIdentity(r, TRUE)
  /\ InStage(wf, st, "command")
  /\ Commit(CheckSucceeded(wf, st, r.head))
  /\ Undisturbed

CommandFailed(r) ==
  /\ CheckIdentity(r, TRUE)
  /\ InStage(wf, st, "command")
  /\ Commit(FailStage(wf, st, st.stage_index))
  /\ Disturb

\* current_approval: the stage is an approval and, if head-bound, has a head.
CurrentApproval ==
  /\ InStage(wf, st, "approval")
  /\ wf.stages[st.stage_index].bind_head => st.current_head # None

\* Mutant: each vote replaces the ones before it.
ApprovalGrantedLatest(r, reviewer, choice) ==
  /\ CheckIdentity(r, TRUE)
  /\ CurrentApproval
  /\ Commit(Granted(wf, [st EXCEPT !.approval_reviewers = {}], reviewer, r.head, choice))
  /\ Undisturbed

ApprovalGranted(r, reviewer, choice) ==
  /\ CheckIdentity(r, TRUE)
  /\ CurrentApproval
  /\ Commit(Granted(wf, st, reviewer, r.head, choice))
  /\ Undisturbed

ChangesRequested(r) ==
  /\ CheckIdentity(r, TRUE)
  /\ CurrentApproval
  /\ Commit(FailStage(wf, st, st.stage_index))
  /\ Disturb

\* Mutants: a commit counts as the work's product; a commit only replaces the
\* head.
CommitCreatedCompletes(head, patch) ==
  /\ InStage(wf, st, "work")
  /\ IsBranchWork(wf, st.stage_index)
  /\ Commit(BranchProduct(wf, st, head, patch))
  /\ Disturb
CommitCreatedQuietly(head, patch) ==
  /\ st.status = "running" /\ ~MergeInFlight(wf, st)
  /\ \E i \in Index(wf) : IsBranchWork(wf, i)
  /\ Commit(RecordNewHead(wf, st, head, patch))
  /\ Disturb

CommitCreated(head, patch) ==
  /\ st.status = "running"
  /\ \E i \in Index(wf) : IsBranchWork(wf, i)
  /\ Commit(HeadChanged(wf, st,
       [kind |-> "commit", head |-> head, patch |-> patch, conflict |-> FALSE]))
  /\ Disturb

MainMoved(head, patch, conflict) ==
  /\ st.status = "running"
  /\ \E i \in Index(wf) : IsKind(wf, i, "merge")
  /\ Commit(HeadChanged(wf, st,
       [kind |-> "main", head |-> head, patch |-> patch, conflict |-> conflict]))
  /\ Disturb

\* Mutant: a fanout without children is taken for a finished one.
FanoutCompletedEmpty(r, children, selected) ==
  /\ CheckIdentity(r, FALSE)
  /\ InStage(wf, st, "fanout")
  /\ Commit(IF children = {} THEN EnterStage(wf, ClearFanout(st), st.stage_index + 1)
            ELSE ChildrenJoined(wf, st, children, selected))
  /\ Undisturbed

FanoutCompleted(r, children, selected) ==
  /\ CheckIdentity(r, FALSE)
  /\ InStage(wf, st, "fanout")
  /\ Commit(ChildrenJoined(wf, st, children, selected))
  /\ Undisturbed

StageFailed(r) ==
  /\ CheckIdentity(r, FALSE)
  /\ ~MergeInFlight(wf, st)
  /\ Commit(FailStage(wf, st, st.stage_index))
  /\ Disturb

TimeoutNotified(r) ==
  /\ CheckIdentity(r, FALSE)
  /\ ~MergeInFlight(wf, st)
  /\ wf.stages[st.stage_index].on_timeout = "notify"
  /\ st.notified_timeout # <<r.stage, r.attempt>>
  /\ Commit(Emit([st EXCEPT !.notified_timeout = <<r.stage, r.attempt>>],
                 {Act("NotifyTimeout", r.stage, 0)}))
  /\ Disturb

TimeoutReassigned(r) ==
  /\ CheckIdentity(r, FALSE)
  /\ ~MergeInFlight(wf, st)
  /\ wf.stages[st.stage_index].on_timeout = "reassign"
  /\ Commit(EnterStage(wf, Emit(st, {Act("ReassignStage", r.stage, 0)}), st.stage_index))
  /\ Disturb

TimeoutCancelled(r) ==
  /\ CheckIdentity(r, FALSE)
  /\ ~MergeInFlight(wf, st)
  /\ wf.stages[st.stage_index].on_timeout = "cancel"
  /\ Commit(Cancelled(st, r.stage))
  /\ Disturb

\* Operator cancellation, of a task that has not ended and is not merging.
Cancel ==
  /\ st.status \in {"pending", "running"}
  /\ ~MergeInFlight(wf, st)
  /\ Commit(Cancelled(st, IF st.status = "pending" THEN 0 ELSE st.stage_index))
  /\ Disturb

MergeFailed(r) ==
  /\ CheckIdentity(r, TRUE)
  /\ MergeInFlight(wf, st)
  /\ Commit(MergeFailedState(wf, st))
  /\ Disturb

MergeCompleted(r) ==
  /\ CheckIdentity(r, TRUE)
  /\ MergeInFlight(wf, st)
  /\ Commit(Merged(wf, st))
  /\ Undisturbed

\* Not an event: an ended task stays as it is.
Ended == st.status \in Terminal /\ UNCHANGED vars

WorkAnswered ==
  \E r \in Asked({"AssignWork", "ReturnToWork"}) :
    \/ \E head \in Heads, patch \in Patches : BranchCompleted(r, head, patch)
    \/ ProductCompleted(r)

ApprovalAnswered ==
  \E r \in Asked({"RequestApproval"}), reviewer \in Reviewers, choice \in Option(Children) :
    ApprovalGranted(r, reviewer, choice)

FanoutAnswered ==
  \E r \in Asked({"Fanout"}), children \in SUBSET Children, selected \in Option(Children) :
    FanoutCompleted(r, children, selected)

\* The answers that complete a stage, and the start of the task.
Progress ==
  \/ Start
  \/ WorkAnswered
  \/ \E r \in Asked({"Submit"}) : Submitted(r)
  \/ \E r \in Asked({"RunCommand"}) : CommandPassed(r)
  \/ ApprovalAnswered
  \/ FanoutAnswered
  \/ \E r \in Asked({"Merge"}) : MergeCompleted(r)

HeadMoved ==
  \E head \in Heads, patch \in Patches :
    \/ CommitCreated(head, patch)
    \/ \E conflict \in BOOLEAN : MainMoved(head, patch, conflict)

Setback ==
  \/ \E r \in Asked({"RunCommand"}) : CommandFailed(r)
  \/ \E r \in Asked({"RequestApproval"}) : ChangesRequested(r)
  \/ \E r \in Asked(RequestKind) : StageFailed(r)
  \/ \E r \in Asked({"Merge"}) : MergeFailed(r)

TimedOut ==
  \E r \in Asked({"ScheduleTimeout"}) :
    TimeoutNotified(r) \/ TimeoutReassigned(r) \/ TimeoutCancelled(r)

Next == Progress \/ HeadMoved \/ Setback \/ TimedOut \/ Cancel \/ Ended

Spec == Init /\ [][Next]_vars

\* Every stage is eventually answered: agents, reviewers, the forge and the
\* check runner are assumed to answer the request that is open.
FairSpec == Spec /\ WF_vars(Progress)

-----------------------------------------------------------------------------
(* Properties                                                              *)

\* Types of the four variables.
TypeOK ==
  /\ wf \in Workflows
  /\ st \in PipelineState(wf)
  /\ issued \in SUBSET Action
  /\ disturbances \in Nat
  /\ MaxDisturbances # None => disturbances <= MaxDisturbances

\* Whatever sequence of events a task went through, the snapshot the daemon
\* stores after it is one that PipelineState::restore accepts at the next
\* boot: no reachable state is lost to a restart.
Restorable == RestoreAccepts(wf, st)

\* After a restart outstanding_actions asks again for exactly what is open:
\* the request and the timer last handed out for the current attempt, with
\* the same head and choices, and nothing else.  A timer whose expiry was
\* already reported is not armed again.
RecoveryAsksAgain ==
  st.status = "running" =>
    OutstandingActions(wf, st) =
      {a \in Asked(RequestKind \cup {"ScheduleTimeout"}) :
         /\ a.stage = st.stage_index
         /\ a.attempt = Attempt(wf, st)
         /\ a.kind = "ScheduleTimeout" =>
              st.notified_timeout # <<st.stage_index, Attempt(wf, st)>>}

\* The merge gate as the code's users read it: when a merge has been asked
\* for, or the task is done, every command passed on the current head and
\* every head-bound approval covers it, with the full number of reviewers
\* and the patch of that head.
MergeGateHolds ==
  MergeInFlight(wf, st) \/ st.status = "done" =>
    \A i \in Index(wf) :
      /\ IsKind(wf, i, "command") => CheckPassed(st, i)
      /\ IsKind(wf, i, "approval") /\ wf.stages[i].bind_head =>
           \E a \in st.approvals :
             /\ a.stage = i
             /\ a.head = st.current_head /\ a.patch = st.patch_id
             /\ Cardinality(a.reviewers) >= wf.stages[i].count

\* Either answer of the forge to a merge in flight is accepted, whatever head
\* changes were recorded meanwhile: a merge that happened is never disowned
\* and one that did not is never left open.
MergeAnswerAccepted ==
  MergeInFlight(wf, st) =>
    /\ MergeGate(wf, st, st.stage_index)
    /\ MergeFailedState(wf, st).status # "refused"

\* A task that has not ended can always be moved on by the success of what it
\* waits for: no sequence of failures, head changes and timeouts leads to a
\* stage whose result step() refuses (MergeGateClosed, MissingHead, ...).
NoDeadEnd == st.status \notin Terminal => ENABLED Progress

\* Past its last fanout a task always has the children of the current run,
\* and past the approval that picks, the winner is one of them; a rework or a
\* head change that voids the pick takes the task back to where it is redone.
PickStands ==
  LET f == LastOf({i \in Index(wf) : IsKind(wf, i, "fanout")})
  IN  st.status \in {"running", "done"} /\ f # 0 /\ f < st.stage_index =>
        /\ st.fanout_children # {}
        /\ wf.stages[f].join = "pick" /\ f + 1 < st.stage_index =>
             st.selected_child \in st.fanout_children

\* Head changes never move a task forward (header of state.rs).
HeadChangeNeverAdvances ==
  [][HeadMoved => st'.stage_index <= st.stage_index /\ st'.status # "done"]_vars

\* When the head changes under a stage that collects results for it (a check,
\* an approval, a fanout) or the approvals collected so far are voided, and
\* the task stays in that stage, a new attempt starts: results for the old
\* head are stale.
InvalidationRestarts ==
  [][/\ st.status = "running" /\ st'.status = "running"
     /\ st'.stage_index = st.stage_index
     /\ KindAt(wf, st.stage_index) \in {"command", "approval", "fanout"}
     /\ \/ st'.current_head # st.current_head
        \/ ~(st.approval_reviewers \subseteq st'.approval_reviewers)
     => st'.attempts[st.stage_index] > st.attempts[st.stage_index]]_vars

\* Once the disturbances stop and every open request is answered, the task
\* ends: no rework loop, skipped stage or refused result keeps it running.
EventuallyEnds == <>(st.status \in Terminal)
=============================================================================
