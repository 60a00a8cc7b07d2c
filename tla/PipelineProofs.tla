--------------------------- MODULE PipelineProofs ---------------------------
(***************************************************************************)
(* The theorems about a running task, for every set of valid workflows and *)
(* every set of heads, patches, reviewers and children, with results that  *)
(* arrive late, twice, out of order or not at all.                         *)
(*                                                                         *)
(* Three invariants, each on top of the one before it:                     *)
(*                                                                         *)
(*   Inv      the records of all stages behind the task (StepInv);         *)
(*   Orderly  the open stage, its attempts and the fanout;                 *)
(*   Asking   what was handed out for the open attempt.                    *)
(*                                                                         *)
(* MergeGateHolds says what is true when the task merges, StepInv what has *)
(* to be true at every stage before that.  That the operators of           *)
(* PipelineStep keep the three is proved in the modules this one extends;  *)
(* here is one step per event of the task.                                 *)
(***************************************************************************)
EXTENDS Pipeline, PipelineRecoveryProofs

Inv == TypeOK /\ StepInv(wf, st)

\* Every workflow a task may have is valid.
LEMMA WorkflowValid ==
  ASSUME TypeOK
  PROVE  Valid(wf)
  BY WorkflowsAssumption DEF TypeOK, Valid

\* What step() returned becomes the state.
LEMMA CommitInv ==
  ASSUME Inv, NEW n, n.status # "refused" => StepInv(wf, n), Commit(n),
         Undisturbed \/ Disturb
  PROVE  Inv'
<1> DEFINE m == [n EXCEPT !.actions = {}]
<1>1. /\ StepInv(wf, n) /\ st' = m /\ issued' = issued \cup n.actions /\ wf' = wf
  BY DEF Commit
<1>2. n \in Copies(wf) /\ n.actions \in SUBSET Action
  BY <1>1 DEF StepInv, Copies
<1>3. {} \in SUBSET Action
  OBVIOUS
<1>4. StepInv(wf, m)
  BY <1>1, <1>3, SetActionsStepInv
<1>5. m.actions = {}
  BY <1>2 DEF Copies
<1>6. m \in PipelineState(wf)
  BY <1>4, <1>5 DEF PipelineState, StepInv
<1>7. disturbances' \in Nat /\ (MaxDisturbances # None => disturbances' <= MaxDisturbances)
  BY BoundAssumption DEF Undisturbed, Disturb, Inv, TypeOK
<1> HIDE DEF m
<1>8. issued' \in SUBSET Action
  BY <1>1, <1>2 DEF Inv, TypeOK
<1> QED  BY <1>1, <1>4, <1>6, <1>7, <1>8 DEF Inv, TypeOK

\* Stage and attempt of a result that counts.
LEMMA IdentityTypes ==
  ASSUME Inv, NEW r \in issued, NEW b, CheckIdentity(r, b)
  PROVE  /\ r.stage \in Nat /\ r.attempt \in Nat
         /\ st.status = "running" /\ st.stage_index \in Index(wf)
         /\ st \in Copies(wf) /\ Records(wf, st)
         /\ Covered(wf, st, st.stage_index)
         /\ b /\ NeedsHead(wf, st.stage_index) => r.head = st.current_head
<1>1. r \in Action
  BY DEF Inv, TypeOK
<1> QED  BY <1>1 DEF Action, CheckIdentity, Inv, StepInv, Position

\* The answers that complete a stage keep the invariant.
LEMMA ProgressInv ==
  ASSUME Inv, Progress
  PROVE  Inv'
<1>1. Valid(wf) /\ StepInv(wf, st)
  BY WorkflowValid DEF Inv
<1>2. CASE Start
  <2>1. StepInv(wf, EnterStage(wf, [st EXCEPT !.status = "running"], 1))
    BY <1>1, <1>2, StartedStepInv DEF Start
  <2> QED  BY <1>2, <2>1, CommitInv DEF Start
<1>3. CASE WorkAnswered
  <2>1. PICK r \in Asked({"AssignWork", "ReturnToWork"}) :
          \/ \E head \in Heads, patch \in Patches : BranchCompleted(r, head, patch)
          \/ ProductCompleted(r)
    BY <1>3 DEF WorkAnswered
  <2>2. CASE ProductCompleted(r)
    <3>1. StepInv(wf, OtherProduct(wf, st))
      BY <1>1, <2>2, OtherProductStepInv DEF ProductCompleted
    <3> QED  BY <2>2, <3>1, CommitInv DEF ProductCompleted
  <2>3. CASE \E head \in Heads, patch \in Patches : BranchCompleted(r, head, patch)
    <3>1. PICK head \in Heads, patch \in Patches : BranchCompleted(r, head, patch)
      BY <2>3
    <3>2. st.status = "running"
      BY <3>1 DEF BranchCompleted, CheckIdentity
    <3>3. StepInv(wf, BranchProduct(wf, st, head, patch))
      BY <1>1, <3>1, <3>2, BranchProductStepInv DEF BranchCompleted
    <3> QED  BY <3>1, <3>3, CommitInv DEF BranchCompleted
  <2> QED  BY <2>1, <2>2, <2>3
<1>4. CASE \E r \in Asked({"Submit"}) : Submitted(r)
  <2>1. PICK r \in Asked({"Submit"}) : Submitted(r)
    BY <1>4
  <2>2. StepInv(wf, ChangeSubmitted(wf, st))
    BY <1>1, <2>1, ChangeSubmittedStepInv DEF Submitted
  <2> QED  BY <2>1, <2>2, CommitInv DEF Submitted
<1>5. CASE \E r \in Asked({"RunCommand"}) : CommandPassed(r)
  <2>1. PICK r \in issued : CommandPassed(r)
    BY <1>5 DEF Asked
  <2>2. InStage(wf, st, "command") /\ NeedsHead(wf, st.stage_index)
    BY <2>1 DEF CommandPassed, InStage, NeedsHead, IsHeadBound
  <2>3. r.head = st.current_head
    BY <2>1, <2>2, IdentityTypes DEF CommandPassed
  <2>4. StepInv(wf, CheckSucceeded(wf, st, r.head))
    BY <1>1, <2>2, <2>3, CheckSucceededStepInv
  <2> QED  BY <2>1, <2>4, CommitInv DEF CommandPassed
<1>6. CASE ApprovalAnswered
  <2>1. PICK r \in issued, reviewer \in Reviewers, choice \in Option(Children) :
          ApprovalGranted(r, reviewer, choice)
    BY <1>6 DEF ApprovalAnswered, Asked
  <2> DEFINE n == Granted(wf, st, reviewer, r.head, choice)
  <2>2. InStage(wf, st, "approval")
    BY <2>1 DEF ApprovalGranted, CurrentApproval
  <2>3. wf.stages[st.stage_index].bind_head =>
          st.current_head # None /\ r.head = st.current_head
    <3> SUFFICES ASSUME wf.stages[st.stage_index].bind_head
                 PROVE  st.current_head # None /\ r.head = st.current_head
      OBVIOUS
    <3>1. NeedsHead(wf, st.stage_index)
      BY <2>2 DEF InStage, NeedsHead, IsHeadBound
    <3> QED  BY <2>1, <3>1, IdentityTypes DEF ApprovalGranted, CurrentApproval
  <2>4. n.status # "refused" => StepInv(wf, n)
    BY <1>1, <2>2, <2>3, GrantedStepInv
  <2> HIDE DEF n
  <2>5. Commit(n) /\ Undisturbed
    BY <2>1 DEF ApprovalGranted, n
  <2> QED  BY <2>4, <2>5, CommitInv
<1>7. CASE FanoutAnswered
  <2>1. PICK r \in issued, children \in SUBSET Children, selected \in Option(Children) :
          FanoutCompleted(r, children, selected)
    BY <1>7 DEF FanoutAnswered, Asked
  <2> DEFINE n == ChildrenJoined(wf, st, children, selected)
  <2>2. n.status # "refused" => StepInv(wf, n)
    BY <1>1, <2>1, ChildrenJoinedStepInv DEF FanoutCompleted
  <2> HIDE DEF n
  <2>3. Commit(n) /\ Undisturbed
    BY <2>1 DEF FanoutCompleted, n
  <2> QED  BY <2>2, <2>3, CommitInv
<1>8. CASE \E r \in Asked({"Merge"}) : MergeCompleted(r)
  <2>1. PICK r \in Asked({"Merge"}) : MergeCompleted(r)
    BY <1>8
  <2>2. StepInv(wf, Merged(wf, st))
    BY <1>1, <2>1, MergedStepInv DEF MergeCompleted
  <2> QED  BY <2>1, <2>2, CommitInv DEF MergeCompleted
<1> QED  BY <1>2, <1>3, <1>4, <1>5, <1>6, <1>7, <1>8 DEF Progress

\* CommitCreated and MainAdvanced keep the invariant.
LEMMA HeadMovedInv ==
  ASSUME Inv, HeadMoved
  PROVE  Inv'
<1>1. Valid(wf) /\ StepInv(wf, st)
  BY WorkflowValid DEF Inv
<1>2. PICK c \in HeadChange : Commit(HeadChanged(wf, st, c)) /\ Disturb
  <2>1. PICK head \in Heads, patch \in Patches :
          \/ CommitCreated(head, patch)
          \/ \E conflict \in BOOLEAN : MainMoved(head, patch, conflict)
    BY DEF HeadMoved
  <2>2. ASSUME NEW kind \in {"commit", "main"}, NEW conflict \in BOOLEAN
        PROVE  [kind |-> kind, head |-> head, patch |-> patch, conflict |-> conflict]
                 \in HeadChange
    BY DEF HeadChange
  <2>3. CASE CommitCreated(head, patch)
    BY <2>2, <2>3 DEF CommitCreated
  <2>4. CASE \E conflict \in BOOLEAN : MainMoved(head, patch, conflict)
    BY <2>2, <2>4 DEF MainMoved
  <2> QED  BY <2>1, <2>3, <2>4
<1>3. StepInv(wf, HeadChanged(wf, st, c))
  BY <1>1, HeadChangedStepInv
<1> QED  BY <1>2, <1>3, CommitInv

\* Failures, rejections and failed merges keep the invariant.
LEMMA SetbackInv ==
  ASSUME Inv, Setback
  PROVE  Inv'
<1>1. Valid(wf) /\ StepInv(wf, st)
  BY WorkflowValid DEF Inv
<1>2. ASSUME NEW r \in issued, NEW b, CheckIdentity(r, b),
             Commit(FailStage(wf, st, st.stage_index)), Disturb
      PROVE  Inv'
  <2>1. StepInv(wf, FailStage(wf, st, st.stage_index))
    BY <1>1, <1>2, IdentityTypes, FailStageStepInv
  <2> QED  BY <1>2, <2>1, CommitInv
<1>3. CASE \E r \in Asked({"RunCommand"}) : CommandFailed(r)
  BY <1>2, <1>3 DEF Asked, CommandFailed
<1>4. CASE \E r \in Asked({"RequestApproval"}) : ChangesRequested(r)
  BY <1>2, <1>4 DEF Asked, ChangesRequested
<1>5. CASE \E r \in Asked(RequestKind) : StageFailed(r)
  BY <1>2, <1>5 DEF Asked, StageFailed
<1>6. CASE \E r \in Asked({"Merge"}) : MergeFailed(r)
  <2>1. Commit(MergeFailedState(wf, st)) /\ Disturb
    BY <1>6 DEF MergeFailed
  <2>2. StepInv(wf, MergeFailedState(wf, st))
    BY <1>1, MergeFailedStepInv
  <2> QED  BY <2>1, <2>2, CommitInv
<1> QED  BY <1>3, <1>4, <1>5, <1>6 DEF Setback

\* An expired timer keeps the invariant, whatever its action.
LEMMA TimedOutInv ==
  ASSUME Inv, TimedOut
  PROVE  Inv'
<1>1. Valid(wf) /\ StepInv(wf, st)
  BY WorkflowValid DEF Inv
<1>2. PICK r \in issued : TimeoutNotified(r) \/ TimeoutReassigned(r) \/ TimeoutCancelled(r)
  BY DEF TimedOut, Asked
<1>3. /\ r.stage \in Nat /\ r.attempt \in Nat
      /\ st.status = "running" /\ st \in Copies(wf) /\ Records(wf, st)
  BY <1>2, IdentityTypes DEF TimeoutNotified, TimeoutReassigned, TimeoutCancelled
<1>4. CASE TimeoutNotified(r)
  <2>1. StepInv(wf, Emit([st EXCEPT !.notified_timeout = <<r.stage, r.attempt>>],
                         {Act("NotifyTimeout", r.stage, 0)}))
    BY <1>1, <1>3, NotifiedStepInv
  <2> QED  BY <1>4, <2>1, CommitInv DEF TimeoutNotified
<1>5. CASE TimeoutReassigned(r)
  <2>1. StepInv(wf, EnterStage(wf, Emit(st, {Act("ReassignStage", r.stage, 0)}), st.stage_index))
    BY <1>1, <1>3, ReassignedStepInv
  <2> QED  BY <1>5, <2>1, CommitInv DEF TimeoutReassigned
<1>6. CASE TimeoutCancelled(r)
  <2>1. StepInv(wf, Cancelled(st, r.stage))
    BY <1>3, CancelledStepInv
  <2> QED  BY <1>6, <2>1, CommitInv DEF TimeoutCancelled
<1> QED  BY <1>2, <1>4, <1>5, <1>6

\* Cancellation keeps the invariant.
LEMMA CancelInv ==
  ASSUME Inv, Cancel
  PROVE  Inv'
<1> DEFINE stage == IF st.status = "pending" THEN 0 ELSE st.stage_index
<1>1. Valid(wf) /\ st \in Copies(wf) /\ Records(wf, st)
  BY WorkflowValid DEF Inv, StepInv
<1>2. stage \in Nat
  BY <1>1, LengthIsNat DEF Copies, Valid
<1>3. Commit(Cancelled(st, stage)) /\ Disturb
  BY DEF Cancel
<1> HIDE DEF stage
<1>4. StepInv(wf, Cancelled(st, stage))
  BY <1>1, <1>2, CancelledStepInv
<1> QED  BY <1>3, <1>4, CommitInv

\* The invariant is inductive.
THEOREM Invariance == Spec => []Inv
<1>1. Init => Inv
  <2> SUFFICES ASSUME Init PROVE Inv
    OBVIOUS
  <2>1. Valid(wf)
    BY WorkflowsAssumption DEF Init, Valid
  <2>2. StepInv(wf, st)
    BY <2>1, NewStateStepInv DEF Init
  <2>3. st.actions = {}
    BY DEF Init, NewState
  <2>4. st \in PipelineState(wf)
    BY <2>2, <2>3 DEF PipelineState, StepInv
  <2> QED  BY <2>2, <2>4, BoundAssumption DEF Init, Inv, TypeOK
<1>2. Inv /\ [Next]_vars => Inv'
  <2> SUFFICES ASSUME Inv, [Next]_vars PROVE Inv'
    OBVIOUS
  <2>1. CASE Progress  BY <2>1, ProgressInv
  <2>2. CASE HeadMoved  BY <2>2, HeadMovedInv
  <2>3. CASE Setback  BY <2>3, SetbackInv
  <2>4. CASE TimedOut  BY <2>4, TimedOutInv
  <2>5. CASE Cancel  BY <2>5, CancelInv
  <2>6. CASE UNCHANGED vars
    BY <2>6 DEF vars, Inv, TypeOK
  <2> QED  BY <2>1, <2>2, <2>3, <2>4, <2>5, <2>6 DEF Next, Ended
<1> QED  BY <1>1, <1>2, PTL DEF Spec

\* Type correctness: step() returns a well-formed PipelineState for every event
\* it accepts.
THEOREM TypeCorrect == Spec => []TypeOK
<1>1. Inv => TypeOK
  BY DEF Inv
<1> QED  BY <1>1, Invariance, PTL

\* The merge gate (merge_gate.rs and enter_stage of state.rs): a task is asked to
\* merge, or is done, only with every command passed on the current head and
\* every head-bound approval given, by enough reviewers, to the patch of that
\* head, for every workflow that Workflow::validate accepts.
THEOREM MergeGateTheorem == Spec => []MergeGateHolds
<1>1. ASSUME Inv PROVE MergeGateHolds
  <2> SUFFICES ASSUME MergeInFlight(wf, st) \/ st.status = "done", NEW i \in Index(wf)
               PROVE  /\ IsKind(wf, i, "command") => CheckPassed(st, i)
                      /\ IsKind(wf, i, "approval") /\ wf.stages[i].bind_head =>
                           \E a \in st.approvals :
                             /\ a.stage = i
                             /\ a.head = st.current_head /\ a.patch = st.patch_id
                             /\ Cardinality(a.reviewers) >= wf.stages[i].count
    BY DEF MergeGateHolds
  <2>1. Valid(wf) /\ Len_(wf) \in Nat /\ Index(wf) = 1 .. Len_(wf)
    BY <1>1, WorkflowValid, LengthIsNat DEF Inv, Valid
  <2>2. /\ Records(wf, st) /\ Covered(wf, st, st.stage_index)
        /\ st.stage_index = Len_(wf) + 1 \/ IsKind(wf, st.stage_index, "merge")
    BY <1>1 DEF Inv, StepInv, Position, MergeInFlight, InStage
  <2>3. CASE i < st.stage_index
    <3>1. IsKind(wf, i, "command") => CheckPassed(st, i)
      BY <2>2, <2>3 DEF Covered
    <3>2. IsKind(wf, i, "approval") => \E a \in st.approvals : a.stage = i
      BY <2>2, <2>3 DEF Covered, ApprovalForStage
    <3> QED  BY <2>2, <3>1, <3>2 DEF Records
  <2>4. CASE ~(i < st.stage_index)
    <3>1. IsKind(wf, st.stage_index, "merge") /\ st.stage_index = Len_(wf)
      BY <2>1, <2>2, <2>4 DEF Valid, StaticRules, MergeRules, IsKind
    <3>2. i = st.stage_index
      BY <2>1, <2>4, <3>1
    <3> QED  BY <3>1, <3>2 DEF IsKind
  <2> QED  BY <2>3, <2>4
<1> QED  BY <1>1, Invariance, PTL

\* Both answers to a merge in flight are accepted (merge_completed and
\* merge_failed of state.rs), whatever head changes were recorded meanwhile.
THEOREM MergeAnswerTheorem == Spec => []MergeAnswerAccepted
<1>1. ASSUME Inv PROVE MergeAnswerAccepted
  <2> SUFFICES ASSUME MergeInFlight(wf, st)
               PROVE  /\ MergeGate(wf, st, st.stage_index)
                      /\ MergeFailedState(wf, st).status # "refused"
    BY DEF MergeAnswerAccepted
  <2>1. Valid(wf) /\ StepInv(wf, st)
    BY <1>1, WorkflowValid DEF Inv
  <2>2. /\ st.stage_index \in Index(wf) /\ IsKind(wf, st.stage_index, "merge")
        /\ Covered(wf, st, st.stage_index)
    BY <2>1 DEF StepInv, Position, MergeInFlight, InStage
  <2>3. MergeGate(wf, st, st.stage_index)
    BY <2>1, <2>2, GateOpen
  <2>4. StepInv(wf, MergeFailedState(wf, st))
    BY <2>1, MergeFailedStepInv
  <2> QED  BY <2>3, <2>4 DEF StepInv
<1> QED  BY <1>1, Invariance, PTL

-----------------------------------------------------------------------------
(* Every step keeps the records in order.                                  *)

\* InvalidationRestarts, of two copies: results collected for one head do not
\* count for another unless the stage is started again.
Steady(w, s, n) ==
  (/\ s.status = "running" /\ n.status = "running"
   /\ n.stage_index = s.stage_index
   /\ KindAt(w, s.stage_index) \in {"command", "approval", "fanout"}
   /\ \/ n.current_head # s.current_head
      \/ ~(s.approval_reviewers \subseteq n.approval_reviewers))
  => n.attempts[s.stage_index] > s.attempts[s.stage_index]

\* What is shown of a result of step().
Sound(n) ==
  n.status # "refused" =>
    StepInv(wf, n) /\ Orderly(wf, n) /\ Steady(wf, st, n)

\* The result becomes the state.
LEMMA CommitOrderly ==
  ASSUME NEW n, Sound(n), Commit(n)
  PROVE  /\ Orderly(wf, st)' /\ Steady(wf, st, st')
         /\ st'.status = n.status /\ st'.stage_index = n.stage_index
<1> DEFINE none == {}
           m == [n EXCEPT !.actions = none]
<1>1. StepInv(wf, n) /\ Orderly(wf, n) /\ Steady(wf, st, n) /\ st' = m /\ wf' = wf
  BY DEF Commit, Sound
<1>2. n \in Copies(wf) /\ none \in SUBSET Action /\ none = {}
  BY <1>1 DEF StepInv
<1> HIDE DEF none
<1>3. /\ Orderly(wf, m)
      /\ m.status = n.status /\ m.stage_index = n.stage_index
      /\ m.attempts = n.attempts /\ m.current_head = n.current_head
      /\ m.approval_reviewers = n.approval_reviewers
  BY <1>1, <1>2, SetActionsOrderly
<1> HIDE DEF m
<1>4. Steady(wf, st, m)
  BY <1>1, <1>3 DEF Steady
<1> QED  BY <1>1, <1>3, <1>4

\* The answers that complete a stage.
LEMMA ProgressOrderly ==
  ASSUME Inv, Orderly(wf, st), Progress
  PROVE  Orderly(wf, st)' /\ Steady(wf, st, st')
<1>1. Valid(wf) /\ StepInv(wf, st)
  BY WorkflowValid DEF Inv
<1>2. CASE Start
  <2> DEFINE n == EnterStage(wf, [st EXCEPT !.status = "running"], 1)
  <2>1. StepInv(wf, n) /\ Orderly(wf, n)
    BY <1>1, <1>2, StartedStepInv, StartedOrderly DEF Start
  <2>2. Commit(n) /\ st.status = "pending"
    BY <1>2 DEF Start
  <2> HIDE DEF n
  <2>3. Sound(n)
    BY <2>1, <2>2 DEF Sound, Steady
  <2> QED  BY <2>2, <2>3, CommitOrderly
<1>3. CASE WorkAnswered
  <2>1. PICK r \in Asked({"AssignWork", "ReturnToWork"}) :
          \/ \E head \in Heads, patch \in Patches : BranchCompleted(r, head, patch)
          \/ ProductCompleted(r)
    BY <1>3 DEF WorkAnswered
  <2>2. IsKind(wf, st.stage_index, "work") /\ st.status = "running"
    BY <2>1 DEF ProductCompleted, BranchCompleted, CheckIdentity, InStage, IsBranchWork
  <2>3. ASSUME NEW n PROVE Steady(wf, st, n)
    BY <2>2 DEF Steady, IsKind
  <2>4. CASE ProductCompleted(r)
    <3> DEFINE n == OtherProduct(wf, st)
    <3>1. StepInv(wf, n) /\ Orderly(wf, n)
      BY <1>1, <2>4, OtherProductStepInv, OtherProductOrderly DEF ProductCompleted
    <3>2. Commit(n)
      BY <2>4 DEF ProductCompleted
    <3> HIDE DEF n
    <3> QED  BY <2>3, <3>1, <3>2, CommitOrderly DEF Sound
  <2>5. CASE \E head \in Heads, patch \in Patches : BranchCompleted(r, head, patch)
    <3>1. PICK head \in Heads, patch \in Patches : BranchCompleted(r, head, patch)
      BY <2>5
    <3> DEFINE n == BranchProduct(wf, st, head, patch)
    <3>2. StepInv(wf, n) /\ Orderly(wf, n)
      BY <1>1, <2>2, <3>1, BranchProductStepInv, BranchProductOrderly DEF BranchCompleted
    <3>3. Commit(n)
      BY <3>1 DEF BranchCompleted
    <3> HIDE DEF n
    <3> QED  BY <2>3, <3>2, <3>3, CommitOrderly DEF Sound
  <2> QED  BY <2>1, <2>4, <2>5
<1>4. CASE \E r \in Asked({"Submit"}) : Submitted(r)
  <2> DEFINE n == ChangeSubmitted(wf, st)
  <2>1. Commit(n) /\ InStage(wf, st, "submit")
    BY <1>4 DEF Submitted
  <2>2. StepInv(wf, n) /\ Orderly(wf, n)
    BY <1>1, <2>1, ChangeSubmittedStepInv, ChangeSubmittedOrderly
  <2> HIDE DEF n
  <2>3. Sound(n)
    BY <2>1, <2>2 DEF Sound, Steady, InStage, IsKind
  <2> QED  BY <2>1, <2>3, CommitOrderly
<1>5. CASE \E r \in Asked({"RunCommand"}) : CommandPassed(r)
  <2>1. PICK r \in issued : CommandPassed(r)
    BY <1>5 DEF Asked
  <2> DEFINE n == CheckSucceeded(wf, st, r.head)
  <2>2. InStage(wf, st, "command") /\ NeedsHead(wf, st.stage_index)
    BY <2>1 DEF CommandPassed, InStage, NeedsHead, IsHeadBound
  <2>3. r.head = st.current_head
    BY <2>1, <2>2, IdentityTypes DEF CommandPassed
  <2>4. StepInv(wf, n) /\ Orderly(wf, n) /\ n.stage_index # st.stage_index
    BY <1>1, <2>2, <2>3, CheckSucceededStepInv, CheckSucceededOrderly
  <2>5. Commit(n)
    BY <2>1 DEF CommandPassed
  <2> HIDE DEF n
  <2> QED  BY <2>4, <2>5, CommitOrderly DEF Sound, Steady
<1>6. CASE ApprovalAnswered
  <2>1. PICK r \in issued, reviewer \in Reviewers, choice \in Option(Children) :
          ApprovalGranted(r, reviewer, choice)
    BY <1>6 DEF ApprovalAnswered, Asked
  <2> DEFINE n == Granted(wf, st, reviewer, r.head, choice)
  <2>2. InStage(wf, st, "approval")
    BY <2>1 DEF ApprovalGranted, CurrentApproval
  <2>3. wf.stages[st.stage_index].bind_head =>
          st.current_head # None /\ r.head = st.current_head
    <3> SUFFICES ASSUME wf.stages[st.stage_index].bind_head
                 PROVE  st.current_head # None /\ r.head = st.current_head
      OBVIOUS
    <3>1. NeedsHead(wf, st.stage_index)
      BY <2>2 DEF InStage, NeedsHead, IsHeadBound
    <3> QED  BY <2>1, <3>1, IdentityTypes DEF ApprovalGranted, CurrentApproval
  <2>4. n.status # "refused" => StepInv(wf, n)
    BY <1>1, <2>2, <2>3, GrantedStepInv
  <2>5. n.status # "refused" =>
          /\ Orderly(wf, n)
          /\ n.stage_index = st.stage_index =>
               /\ n.current_head = st.current_head
               /\ st.approval_reviewers \subseteq n.approval_reviewers
    BY <1>1, <2>2, <2>3, GrantedOrderly
  <2>6. Commit(n)
    BY <2>1 DEF ApprovalGranted
  <2> HIDE DEF n
  <2>7. Sound(n)
    BY <2>4, <2>5 DEF Sound, Steady
  <2> QED  BY <2>6, <2>7, CommitOrderly
<1>7. CASE FanoutAnswered
  <2>1. PICK r \in issued, children \in SUBSET Children, selected \in Option(Children) :
          FanoutCompleted(r, children, selected)
    BY <1>7 DEF FanoutAnswered, Asked
  <2> DEFINE n == ChildrenJoined(wf, st, children, selected)
  <2>2. Commit(n) /\ InStage(wf, st, "fanout")
    BY <2>1 DEF FanoutCompleted
  <2>3. n.status # "refused" =>
          StepInv(wf, n) /\ Orderly(wf, n) /\ n.stage_index # st.stage_index
    BY <1>1, <2>2, ChildrenJoinedStepInv, ChildrenJoinedOrderly
  <2> HIDE DEF n
  <2>4. Sound(n)
    BY <2>3 DEF Sound, Steady
  <2> QED  BY <2>2, <2>4, CommitOrderly
<1>8. CASE \E r \in Asked({"Merge"}) : MergeCompleted(r)
  <2> DEFINE n == Merged(wf, st)
  <2>1. Commit(n) /\ MergeInFlight(wf, st)
    BY <1>8 DEF MergeCompleted
  <2>2. StepInv(wf, n) /\ Orderly(wf, n)
    BY <1>1, <2>1, MergedStepInv, MergedOrderly
  <2> HIDE DEF n
  <2>3. Sound(n)
    BY <2>1, <2>2 DEF Sound, Steady, MergeInFlight, InStage, IsKind
  <2> QED  BY <2>1, <2>3, CommitOrderly
<1> QED  BY <1>2, <1>3, <1>4, <1>5, <1>6, <1>7, <1>8 DEF Progress

\* Head changes, which moreover never take a task forward.
LEMMA HeadMovedOrderly ==
  ASSUME Inv, Orderly(wf, st), HeadMoved
  PROVE  /\ Orderly(wf, st)' /\ Steady(wf, st, st')
         /\ st'.stage_index <= st.stage_index /\ st'.status # "done"
<1>1. Valid(wf) /\ StepInv(wf, st)
  BY WorkflowValid DEF Inv
<1>2. PICK c \in HeadChange : Commit(HeadChanged(wf, st, c)) /\ st.status = "running"
  <2>1. PICK head \in Heads, patch \in Patches :
          \/ CommitCreated(head, patch)
          \/ \E conflict \in BOOLEAN : MainMoved(head, patch, conflict)
    BY DEF HeadMoved
  <2>2. ASSUME NEW kind \in {"commit", "main"}, NEW conflict \in BOOLEAN
        PROVE  [kind |-> kind, head |-> head, patch |-> patch, conflict |-> conflict]
                 \in HeadChange
    BY DEF HeadChange
  <2>3. CASE CommitCreated(head, patch)
    BY <2>2, <2>3 DEF CommitCreated
  <2>4. CASE \E conflict \in BOOLEAN : MainMoved(head, patch, conflict)
    BY <2>2, <2>4 DEF MainMoved
  <2> QED  BY <2>1, <2>3, <2>4
<1> DEFINE n == HeadChanged(wf, st, c)
<1>3. StepInv(wf, n)
  BY <1>1, HeadChangedStepInv
<1>4. /\ Orderly(wf, n)
      /\ n.stage_index <= st.stage_index /\ n.status # "done"
      /\ n = st \/ MergeInFlight(wf, st) \/ Held(wf, st, n)
  BY <1>1, <1>2, HeadChangedOrderly
<1> HIDE DEF n
<1>5. Steady(wf, st, n)
  <2>1. CASE n = st
    BY <2>1 DEF Steady
  <2>2. CASE MergeInFlight(wf, st)
    BY <2>2 DEF Steady, MergeInFlight, InStage, IsKind
  <2>3. CASE Held(wf, st, n)
    BY <2>3 DEF Steady, Held
  <2> QED  BY <1>4, <2>1, <2>2, <2>3
<1>6. Sound(n) /\ Commit(n)
  BY <1>2, <1>3, <1>4, <1>5 DEF Sound, n
<1> QED  BY <1>4, <1>6, CommitOrderly

\* Failures, rejections and failed merges.
LEMMA SetbackOrderly ==
  ASSUME Inv, Orderly(wf, st), Setback
  PROVE  Orderly(wf, st)' /\ Steady(wf, st, st')
<1>1. Valid(wf) /\ StepInv(wf, st)
  BY WorkflowValid DEF Inv
<1>2. ASSUME NEW r \in issued, NEW b, CheckIdentity(r, b), ~MergeInFlight(wf, st),
             Commit(FailStage(wf, st, st.stage_index))
      PROVE  Orderly(wf, st)' /\ Steady(wf, st, st')
  <2> DEFINE n == FailStage(wf, st, st.stage_index)
  <2>1. StepInv(wf, n)
    BY <1>1, <1>2, IdentityTypes, FailStageStepInv
  <2>2. st.status = "running"
    BY <1>2 DEF CheckIdentity
  <2>3. Orderly(wf, n) /\ (n.status = "running" => n.stage_index # st.stage_index)
    BY <1>1, <1>2, <2>2, FailStageOrderly
  <2>4. Commit(n)
    BY <1>2
  <2> HIDE DEF n
  <2>5. Sound(n)
    BY <2>1, <2>3 DEF Sound, Steady
  <2> QED  BY <2>4, <2>5, CommitOrderly
<1>3. CASE \E r \in Asked({"RunCommand"}) : CommandFailed(r)
  BY <1>2, <1>3 DEF Asked, CommandFailed, MergeInFlight, InStage, IsKind
<1>4. CASE \E r \in Asked({"RequestApproval"}) : ChangesRequested(r)
  BY <1>2, <1>4 DEF Asked, ChangesRequested, CurrentApproval, MergeInFlight, InStage, IsKind
<1>5. CASE \E r \in Asked(RequestKind) : StageFailed(r)
  BY <1>2, <1>5 DEF Asked, StageFailed
<1>6. CASE \E r \in Asked({"Merge"}) : MergeFailed(r)
  <2> DEFINE n == MergeFailedState(wf, st)
  <2>1. Commit(n) /\ MergeInFlight(wf, st)
    BY <1>6 DEF MergeFailed
  <2>2. StepInv(wf, n) /\ Orderly(wf, n)
    BY <1>1, <2>1, MergeFailedStepInv, MergeFailedOrderly
  <2> HIDE DEF n
  <2>3. Sound(n)
    BY <2>1, <2>2 DEF Sound, Steady, MergeInFlight, InStage, IsKind
  <2> QED  BY <2>1, <2>3, CommitOrderly
<1> QED  BY <1>3, <1>4, <1>5, <1>6 DEF Setback

\* An expired timer, whatever its action.
LEMMA TimedOutOrderly ==
  ASSUME Inv, Orderly(wf, st), TimedOut
  PROVE  Orderly(wf, st)' /\ Steady(wf, st, st')
<1>1. Valid(wf) /\ StepInv(wf, st)
  BY WorkflowValid DEF Inv
<1>2. PICK r \in issued : TimeoutNotified(r) \/ TimeoutReassigned(r) \/ TimeoutCancelled(r)
  BY DEF TimedOut, Asked
<1>3. /\ r.stage \in Nat /\ r.attempt \in Nat
      /\ st.status = "running" /\ st \in Copies(wf) /\ Records(wf, st)
      /\ ~MergeInFlight(wf, st)
      /\ r.stage = st.stage_index /\ r.attempt = Attempt(wf, st)
      /\ st.stage_index \in Index(wf)
  BY <1>2, IdentityTypes
     DEF TimeoutNotified, TimeoutReassigned, TimeoutCancelled, CheckIdentity
<1>4. CASE TimeoutNotified(r)
  <2> DEFINE n == Emit([st EXCEPT !.notified_timeout = <<r.stage, r.attempt>>],
                       {Act("NotifyTimeout", r.stage, 0)})
  <2>1. StepInv(wf, n)
    BY <1>1, <1>3, NotifiedStepInv
  <2>2. /\ Orderly(wf, n) /\ n.current_head = st.current_head
        /\ n.approval_reviewers = st.approval_reviewers
    BY <1>1, <1>3, NotifiedOrderly
  <2>3. Commit(n)
    BY <1>4 DEF TimeoutNotified
  <2> HIDE DEF n
  <2>4. Sound(n)
    BY <2>1, <2>2 DEF Sound, Steady
  <2> QED  BY <2>3, <2>4, CommitOrderly
<1>5. CASE TimeoutReassigned(r)
  <2> DEFINE n == EnterStage(wf, Emit(st, {Act("ReassignStage", r.stage, 0)}), st.stage_index)
  <2>1. StepInv(wf, n)
    BY <1>1, <1>3, ReassignedStepInv
  <2>2. /\ Orderly(wf, n)
        /\ n.status = "running" /\ n.stage_index = st.stage_index =>
             n.attempts[st.stage_index] > st.attempts[st.stage_index]
    BY <1>1, <1>3, ReassignedOrderly
  <2>3. Commit(n)
    BY <1>5 DEF TimeoutReassigned
  <2> HIDE DEF n
  <2>4. Sound(n)
    BY <2>1, <2>2 DEF Sound, Steady
  <2> QED  BY <2>3, <2>4, CommitOrderly
<1>6. CASE TimeoutCancelled(r)
  <2> DEFINE n == Cancelled(st, r.stage)
  <2>1. StepInv(wf, n) /\ Orderly(wf, n) /\ n.status # "running"
    BY <1>1, <1>3, CancelledStepInv, CancelledOrderly, CancelledFields
  <2>2. Commit(n)
    BY <1>6 DEF TimeoutCancelled
  <2> HIDE DEF n
  <2>3. Sound(n)
    BY <2>1 DEF Sound, Steady
  <2> QED  BY <2>2, <2>3, CommitOrderly
<1> QED  BY <1>2, <1>4, <1>5, <1>6

\* Cancellation.
LEMMA CancelOrderly ==
  ASSUME Inv, Orderly(wf, st), Cancel
  PROVE  Orderly(wf, st)' /\ Steady(wf, st, st')
<1> DEFINE stage == IF st.status = "pending" THEN 0 ELSE st.stage_index
           n == Cancelled(st, stage)
<1>1. Valid(wf) /\ StepInv(wf, st) /\ st \in Copies(wf) /\ Records(wf, st)
  BY WorkflowValid DEF Inv, StepInv
<1>2. stage \in Nat
  BY <1>1, LengthIsNat DEF Copies, Valid
<1>3. /\ Commit(n) /\ ~MergeInFlight(wf, st)
      /\ st.status = "pending" \/ st.status = "running"
  BY DEF Cancel
<1> HIDE DEF stage
<1>4. StepInv(wf, n) /\ Orderly(wf, n) /\ n.status # "running"
  BY <1>1, <1>2, <1>3, CancelledStepInv, CancelledOrderly, CancelledFields
<1> HIDE DEF n
<1>5. Sound(n)
  BY <1>4 DEF Sound, Steady
<1> QED  BY <1>3, <1>5, CommitOrderly

\* Every step, and every stutter.
LEMMA NextOrderly ==
  ASSUME Inv, Orderly(wf, st), [Next]_vars
  PROVE  Orderly(wf, st)' /\ Steady(wf, st, st')
<1>1. CASE Progress  BY <1>1, ProgressOrderly
<1>2. CASE HeadMoved  BY <1>2, HeadMovedOrderly
<1>3. CASE Setback  BY <1>3, SetbackOrderly
<1>4. CASE TimedOut  BY <1>4, TimedOutOrderly
<1>5. CASE Cancel  BY <1>5, CancelOrderly
<1>6. CASE UNCHANGED vars
  BY <1>6 DEF vars, Steady
<1> QED  BY <1>1, <1>2, <1>3, <1>4, <1>5, <1>6 DEF Next, Ended

\* Between steps the records of a task are in order (the checks of
\* PipelineState::restore, and what enter_stage needs behind it), for every
\* workflow that Workflow::validate accepts.
THEOREM OrderlyInvariance == Spec => [](Inv /\ Orderly(wf, st))
<1>1. Init => Orderly(wf, st)
  <2> SUFFICES ASSUME Init PROVE Orderly(wf, st)
    OBVIOUS
  <2>1. Valid(wf) /\ st = NewState(wf)
    BY WorkflowsAssumption DEF Init, Valid
  <2> QED  BY <2>1, NewStateOrderly
<1>2. Inv /\ Orderly(wf, st) /\ [Next]_vars => Orderly(wf, st)'
  BY NextOrderly
<1> QED  BY <1>1, <1>2, Invariance, PTL DEF Spec

\* CommitCreated and MainAdvanced (D14, header of state.rs) never take a task
\* to a later stage and never finish it: the loop of enter_stage stops at the
\* stage the task is at, because that stage has no record yet.
THEOREM HeadChangeTheorem == Spec => HeadChangeNeverAdvances
<1>1. Inv /\ Orderly(wf, st) /\ [Next]_vars =>
        [HeadMoved => st'.stage_index <= st.stage_index /\ st'.status # "done"]_vars
  BY HeadMovedOrderly
<1> QED  BY <1>1, OrderlyInvariance, PTL DEF Spec, HeadChangeNeverAdvances

\* recheck_for_new_head: a check, an approval or a fanout that goes on under
\* another head, or has lost reviewers, is a new attempt, so that results of
\* the old one no longer count.
THEOREM InvalidationTheorem == Spec => InvalidationRestarts
<1>1. Inv /\ Orderly(wf, st) /\ [Next]_vars =>
        [/\ st.status = "running" /\ st'.status = "running"
         /\ st'.stage_index = st.stage_index
         /\ KindAt(wf, st.stage_index) \in {"command", "approval", "fanout"}
         /\ \/ st'.current_head # st.current_head
            \/ ~(st.approval_reviewers \subseteq st'.approval_reviewers)
         => st'.attempts[st.stage_index] > st.attempts[st.stage_index]]_vars
  BY NextOrderly DEF Steady
<1> QED  BY <1>1, OrderlyInvariance, PTL DEF Spec, InvalidationRestarts

\* Every workflow of the task has its head-bound picks in reach, as the
\* completability witness of Workflow::validate demands.
PicksInReach == \A w \in Workflows : ~PickOutOfReach(w)

\* Past its last fanout a task has the children of the current run, and past
\* the pick its winner: reworks and head changes that void the pick go back to
\* where it is made again.
THEOREM PickTheorem ==
  ASSUME PicksInReach
  PROVE  Spec => []PickStands
<1>1. Inv /\ Orderly(wf, st) => PickStands
  BY DEF PicksInReach, Inv, TypeOK, Orderly, FanoutBehind, Fanned, PickStands, LastFanout
<1> QED  BY <1>1, OrderlyInvariance, PTL

\* The snapshot the daemon stores after any accepted event is one that
\* PipelineState::restore accepts at the next boot.
THEOREM RestorableTheorem ==
  ASSUME PicksInReach
  PROVE  Spec => []Restorable
<1>1. Inv /\ Orderly(wf, st) => Restorable
  <2> SUFFICES ASSUME Inv, Orderly(wf, st) PROVE Restorable
    OBVIOUS
  <2>1. Valid(wf) /\ StepInv(wf, st) /\ ~PickOutOfReach(wf)
    BY WorkflowValid DEF Inv, TypeOK, PicksInReach
  <2> QED  BY <2>1, RestoreAcceptsOrderly DEF Restorable
<1> QED  BY <1>1, OrderlyInvariance, PTL

-----------------------------------------------------------------------------
(* Every step keeps what is asked for in step with the state.              *)

\* The result of a step becomes the state and its actions are handed out.
LEMMA CommitAsking ==
  ASSUME Inv, Asking(wf, issued, st), NEW n, StepInv(wf, n), Told(wf, st, n), Commit(n)
  PROVE  Asking(wf, issued, st)'
<1> DEFINE none == {}
           m == [n EXCEPT !.actions = none]
<1>1. st' = m /\ wf' = wf /\ issued' = issued \cup n.actions
  BY DEF Commit
<1>2. /\ Valid(wf) /\ st \in Copies(wf) /\ st.actions = {}
      /\ n \in Copies(wf) /\ (n.status = "running" => n.stage_index \in Index(wf))
  BY WorkflowValid DEF Inv, TypeOK, PipelineState, StepInv, Position
<1> HIDE DEF none
<1>3. Alike(wf, n, m)
  BY <1>2, AlikeActions
<1> HIDE DEF m
<1>4. Heard(wf, issued \cup n.actions, m.attempts) /\ Waits(wf, issued \cup n.actions, m)
  BY <1>2, <1>3, HandedOut DEF Asking
<1> QED  BY <1>1, <1>4 DEF Asking

\* The good answers keep what is asked in step with the state.
LEMMA ProgressAsking ==
  ASSUME Inv, Asking(wf, issued, st), Progress
  PROVE  Asking(wf, issued, st)'
<1>1. Valid(wf) /\ StepInv(wf, st) /\ st \in Copies(wf) /\ st.actions = {}
  BY WorkflowValid DEF Inv, TypeOK, PipelineState
<1>2. CASE Start
  <2> DEFINE m == [st EXCEPT !.status = "running"]
             n == EnterStage(wf, m, 1)
  <2>1. Commit(n) /\ n.status # "refused" /\ st.status = "pending"
    BY <1>2 DEF Start, Commit
  <2>2. StepInv(wf, n)
    BY <1>1, <2>1, StartedStepInv
  <2>3. /\ m \in Copies(wf) /\ m.status = "running" /\ m.attempts = st.attempts
        /\ m.actions = st.actions
    BY <1>1 DEF Copies, Status
  <2>4. 1 \in 1 .. Len_(wf) + 1
    BY <1>1, LengthIsNat DEF Valid
  <2> HIDE DEF m
  <2>5. Told(wf, st, n)
    BY <1>1, <2>1, <2>3, <2>4, EnterTold
  <2> HIDE DEF n
  <2> QED  BY <2>1, <2>2, <2>5, CommitAsking
<1>3. CASE WorkAnswered
  <2>1. PICK r \in Asked({"AssignWork", "ReturnToWork"}) :
          \/ \E head \in Heads, patch \in Patches : BranchCompleted(r, head, patch)
          \/ ProductCompleted(r)
    BY <1>3 DEF WorkAnswered
  <2>2. CASE ProductCompleted(r)
    <3> DEFINE n == OtherProduct(wf, st)
    <3>1. /\ Commit(n) /\ n.status # "refused"
          /\ InStage(wf, st, "work") /\ ~IsBranchWork(wf, st.stage_index)
      BY <2>2 DEF ProductCompleted, Commit
    <3>2. StepInv(wf, n) /\ Told(wf, st, n)
      BY <1>1, <3>1, OtherProductStepInv, OtherProductTold
    <3> HIDE DEF n
    <3> QED  BY <3>1, <3>2, CommitAsking
  <2>3. CASE \E head \in Heads, patch \in Patches : BranchCompleted(r, head, patch)
    <3>1. PICK head \in Heads, patch \in Patches : BranchCompleted(r, head, patch)
      BY <2>3
    <3> DEFINE n == BranchProduct(wf, st, head, patch)
    <3>2. /\ Commit(n) /\ n.status # "refused"
          /\ st.status = "running" /\ IsBranchWork(wf, st.stage_index)
      BY <3>1 DEF BranchCompleted, CheckIdentity, Commit
    <3>3. StepInv(wf, n) /\ Told(wf, st, n)
      BY <1>1, <3>2, BranchProductStepInv, BranchProductTold
    <3> HIDE DEF n
    <3> QED  BY <3>2, <3>3, CommitAsking
  <2> QED  BY <2>1, <2>2, <2>3
<1>4. CASE \E r \in Asked({"Submit"}) : Submitted(r)
  <2> DEFINE n == ChangeSubmitted(wf, st)
  <2>1. Commit(n) /\ n.status # "refused" /\ InStage(wf, st, "submit")
    BY <1>4 DEF Submitted, Commit
  <2>2. StepInv(wf, n) /\ Told(wf, st, n)
    BY <1>1, <2>1, ChangeSubmittedStepInv, ChangeSubmittedTold
  <2> HIDE DEF n
  <2> QED  BY <2>1, <2>2, CommitAsking
<1>5. CASE \E r \in Asked({"RunCommand"}) : CommandPassed(r)
  <2>1. PICK r \in issued : CommandPassed(r)
    BY <1>5 DEF Asked
  <2> DEFINE n == CheckSucceeded(wf, st, r.head)
  <2>2. InStage(wf, st, "command") /\ NeedsHead(wf, st.stage_index)
    BY <2>1 DEF CommandPassed, InStage, NeedsHead, IsHeadBound
  <2>3. r.head = st.current_head /\ Commit(n) /\ n.status # "refused"
    BY <2>1, <2>2, IdentityTypes DEF CommandPassed, Commit
  <2>4. StepInv(wf, n) /\ Told(wf, st, n)
    BY <1>1, <2>2, <2>3, CheckSucceededStepInv, CheckSucceededTold
  <2> HIDE DEF n
  <2> QED  BY <2>3, <2>4, CommitAsking
<1>6. CASE ApprovalAnswered
  <2>1. PICK r \in issued, reviewer \in Reviewers, choice \in Option(Children) :
          ApprovalGranted(r, reviewer, choice)
    BY <1>6 DEF ApprovalAnswered, Asked
  <2> DEFINE n == Granted(wf, st, reviewer, r.head, choice)
  <2>2. InStage(wf, st, "approval") /\ Commit(n) /\ n.status # "refused"
    BY <2>1 DEF ApprovalGranted, CurrentApproval, Commit
  <2>3. wf.stages[st.stage_index].bind_head =>
          st.current_head # None /\ r.head = st.current_head
    <3> SUFFICES ASSUME wf.stages[st.stage_index].bind_head
                 PROVE  st.current_head # None /\ r.head = st.current_head
      OBVIOUS
    <3>1. NeedsHead(wf, st.stage_index)
      BY <2>2 DEF InStage, NeedsHead, IsHeadBound
    <3> QED  BY <2>1, <3>1, IdentityTypes DEF ApprovalGranted, CurrentApproval
  <2>4. StepInv(wf, n) /\ Told(wf, st, n)
    BY <1>1, <2>2, <2>3, GrantedStepInv, GrantedTold
  <2> HIDE DEF n
  <2> QED  BY <2>2, <2>4, CommitAsking
<1>7. CASE FanoutAnswered
  <2>1. PICK r \in issued, children \in SUBSET Children, selected \in Option(Children) :
          FanoutCompleted(r, children, selected)
    BY <1>7 DEF FanoutAnswered, Asked
  <2> DEFINE n == ChildrenJoined(wf, st, children, selected)
  <2>2. Commit(n) /\ n.status # "refused" /\ InStage(wf, st, "fanout")
    BY <2>1 DEF FanoutCompleted, Commit
  <2>3. StepInv(wf, n) /\ Told(wf, st, n)
    BY <1>1, <2>2, ChildrenJoinedStepInv, ChildrenJoinedTold
  <2> HIDE DEF n
  <2> QED  BY <2>2, <2>3, CommitAsking
<1>8. CASE \E r \in Asked({"Merge"}) : MergeCompleted(r)
  <2> DEFINE n == Merged(wf, st)
  <2>1. Commit(n) /\ n.status # "refused" /\ MergeInFlight(wf, st)
    BY <1>8 DEF MergeCompleted, Commit
  <2>2. StepInv(wf, n) /\ Told(wf, st, n)
    BY <1>1, <2>1, MergedStepInv, MergedTold
  <2> HIDE DEF n
  <2> QED  BY <2>1, <2>2, CommitAsking
<1> QED  BY <1>2, <1>3, <1>4, <1>5, <1>6, <1>7, <1>8 DEF Progress

\* A commit or a move of main does.
LEMMA HeadMovedAsking ==
  ASSUME Inv, Asking(wf, issued, st), HeadMoved
  PROVE  Asking(wf, issued, st)'
<1>1. Valid(wf) /\ StepInv(wf, st) /\ st.actions = {}
  BY WorkflowValid DEF Inv, TypeOK, PipelineState
<1>2. PICK c \in HeadChange : Commit(HeadChanged(wf, st, c))
  <2>1. PICK head \in Heads, patch \in Patches :
          \/ CommitCreated(head, patch)
          \/ \E conflict \in BOOLEAN : MainMoved(head, patch, conflict)
    BY DEF HeadMoved
  <2>2. ASSUME NEW kind \in {"commit", "main"}, NEW conflict \in BOOLEAN
        PROVE  [kind |-> kind, head |-> head, patch |-> patch, conflict |-> conflict]
                 \in HeadChange
    BY DEF HeadChange
  <2>3. CASE CommitCreated(head, patch)
    BY <2>2, <2>3 DEF CommitCreated
  <2>4. CASE \E conflict \in BOOLEAN : MainMoved(head, patch, conflict)
    BY <2>2, <2>4 DEF MainMoved
  <2> QED  BY <2>1, <2>3, <2>4
<1> DEFINE n == HeadChanged(wf, st, c)
<1>3. StepInv(wf, n) /\ Told(wf, st, n)
  BY <1>1, HeadChangedStepInv, HeadChangedTold
<1>4. Commit(n)
  BY <1>2
<1> HIDE DEF n
<1> QED  BY <1>3, <1>4, CommitAsking

\* Failures, change requests, lost children and failed merges do.
LEMMA SetbackAsking ==
  ASSUME Inv, Asking(wf, issued, st), Setback
  PROVE  Asking(wf, issued, st)'
<1>1. Valid(wf) /\ StepInv(wf, st) /\ st.actions = {} /\ Heard(wf, st.actions, st.attempts)
  BY WorkflowValid DEF Inv, TypeOK, PipelineState, Heard, Asks
<1>2. ASSUME NEW r \in issued, NEW b, CheckIdentity(r, b),
             Commit(FailStage(wf, st, st.stage_index))
      PROVE  Asking(wf, issued, st)'
  <2> DEFINE n == FailStage(wf, st, st.stage_index)
  <2>1. st.status = "running" /\ Commit(n)
    BY <1>2 DEF CheckIdentity
  <2>2. StepInv(wf, n)
    BY <1>1, <1>2, IdentityTypes, FailStageStepInv
  <2>3. Told(wf, st, n)
    BY <1>1, <2>1, FailStageTold
  <2> HIDE DEF n
  <2> QED  BY <2>1, <2>2, <2>3, CommitAsking
<1>3. CASE \E r \in Asked({"RunCommand"}) : CommandFailed(r)
  BY <1>2, <1>3 DEF Asked, CommandFailed
<1>4. CASE \E r \in Asked({"RequestApproval"}) : ChangesRequested(r)
  BY <1>2, <1>4 DEF Asked, ChangesRequested
<1>5. CASE \E r \in Asked(RequestKind) : StageFailed(r)
  BY <1>2, <1>5 DEF Asked, StageFailed
<1>6. CASE \E r \in Asked({"Merge"}) : MergeFailed(r)
  <2> DEFINE n == MergeFailedState(wf, st)
  <2>1. Commit(n)
    BY <1>6 DEF MergeFailed
  <2>2. StepInv(wf, n) /\ Told(wf, st, n)
    BY <1>1, MergeFailedStepInv, MergeFailedTold
  <2> HIDE DEF n
  <2> QED  BY <2>1, <2>2, CommitAsking
<1> QED  BY <1>3, <1>4, <1>5, <1>6 DEF Setback

\* Timeouts do, whatever the stage does about them.
LEMMA TimedOutAsking ==
  ASSUME Inv, Asking(wf, issued, st), TimedOut
  PROVE  Asking(wf, issued, st)'
<1>1. Valid(wf) /\ StepInv(wf, st) /\ st.actions = {}
  BY WorkflowValid DEF Inv, TypeOK, PipelineState
<1>2. PICK r \in issued : TimeoutNotified(r) \/ TimeoutReassigned(r) \/ TimeoutCancelled(r)
  BY DEF TimedOut, Asked
<1>3. /\ r.stage \in Nat /\ r.attempt \in Nat
      /\ st.status = "running" /\ st \in Copies(wf) /\ Records(wf, st)
      /\ ~MergeInFlight(wf, st)
      /\ r.stage = st.stage_index /\ r.attempt = Attempt(wf, st)
      /\ st.stage_index \in Index(wf)
  BY <1>2, IdentityTypes
     DEF TimeoutNotified, TimeoutReassigned, TimeoutCancelled, CheckIdentity
<1>4. CASE TimeoutNotified(r)
  <2> DEFINE pair == <<r.stage, r.attempt>>
             n == Emit([st EXCEPT !.notified_timeout = pair],
                       {Act("NotifyTimeout", r.stage, 0)})
  <2>1. StepInv(wf, n) /\ Commit(n)
    BY <1>1, <1>3, <1>4, NotifiedStepInv DEF TimeoutNotified
  <2> HIDE DEF pair
  <2>2. Told(wf, st, n)
    BY <1>3, NotifiedTold
  <2> HIDE DEF n
  <2> QED  BY <2>1, <2>2, CommitAsking
<1>5. CASE TimeoutReassigned(r)
  <2> DEFINE n == EnterStage(wf, Emit(st, {Act("ReassignStage", r.stage, 0)}), st.stage_index)
  <2>1. Commit(n) /\ n.status # "refused"
    BY <1>5 DEF TimeoutReassigned, Commit
  <2>2. StepInv(wf, n)
    BY <1>1, <1>3, ReassignedStepInv
  <2>3. Told(wf, st, n)
    BY <1>1, <1>3, <2>1, ReassignedTold
  <2> HIDE DEF n
  <2> QED  BY <2>1, <2>2, <2>3, CommitAsking
<1>6. CASE TimeoutCancelled(r)
  <2> DEFINE n == Cancelled(st, r.stage)
  <2>1. StepInv(wf, n) /\ Told(wf, st, n)
    BY <1>1, <1>3, CancelledStepInv, CancelledTold
  <2>2. Commit(n)
    BY <1>6 DEF TimeoutCancelled
  <2> HIDE DEF n
  <2> QED  BY <2>1, <2>2, CommitAsking
<1> QED  BY <1>2, <1>4, <1>5, <1>6

\* A cancellation does.
LEMMA CancelAsking ==
  ASSUME Inv, Asking(wf, issued, st), Cancel
  PROVE  Asking(wf, issued, st)'
<1> DEFINE stage == IF st.status = "pending" THEN 0 ELSE st.stage_index
           n == Cancelled(st, stage)
<1>1. Valid(wf) /\ st \in Copies(wf) /\ Records(wf, st) /\ st.actions = {}
  BY WorkflowValid DEF Inv, StepInv, TypeOK, PipelineState
<1>2. stage \in Nat
  BY <1>1, LengthIsNat DEF Copies, Valid
<1>3. Commit(n)
  BY DEF Cancel
<1> HIDE DEF stage
<1>4. StepInv(wf, n) /\ Told(wf, st, n)
  BY <1>1, <1>2, CancelledStepInv, CancelledTold
<1> HIDE DEF n
<1> QED  BY <1>3, <1>4, CommitAsking

\* Every step of the specification does.
LEMMA NextAsking ==
  ASSUME Inv, Asking(wf, issued, st), [Next]_vars
  PROVE  Asking(wf, issued, st)'
<1>1. CASE Progress  BY <1>1, ProgressAsking
<1>2. CASE HeadMoved  BY <1>2, HeadMovedAsking
<1>3. CASE Setback  BY <1>3, SetbackAsking
<1>4. CASE TimedOut  BY <1>4, TimedOutAsking
<1>5. CASE Cancel  BY <1>5, CancelAsking
<1>6. CASE UNCHANGED vars
  BY <1>6 DEF vars
<1> QED  BY <1>1, <1>2, <1>3, <1>4, <1>5, <1>6 DEF Next, Ended

\* At every moment the requests and timers handed out so far are, for the
\* attempt that is open, exactly the one request and the one timer that its
\* stage calls for, and none of them is of an attempt yet to come.
THEOREM AskingInvariance == Spec => []Asking(wf, issued, st)
<1>1. Init => Asking(wf, issued, st)
  <2> SUFFICES ASSUME Init PROVE Asking(wf, issued, st)
    OBVIOUS
  <2>1. issued = {} /\ st.status = "pending"
    BY DEF Init, NewState
  <2> QED  BY <2>1 DEF Asking, Heard, Waits, Asks
<1>2. Inv /\ Asking(wf, issued, st) /\ [Next]_vars => Asking(wf, issued, st)'
  BY NextAsking
<1> QED  BY <1>1, <1>2, Invariance, PTL DEF Spec

\* A daemon that restarts and calls outstanding_actions asks again for what is
\* open: the request and the timer last handed out for the current attempt,
\* with the same head and choices, and nothing else.
THEOREM RecoveryTheorem == Spec => []RecoveryAsksAgain
<1>1. Inv /\ Orderly(wf, st) /\ Asking(wf, issued, st) => RecoveryAsksAgain
  <2> SUFFICES ASSUME Inv, Orderly(wf, st), Asking(wf, issued, st), st.status = "running"
               PROVE  OutstandingActions(wf, st) =
                        {a \in Asked(RequestKind \cup {"ScheduleTimeout"}) :
                           /\ a.stage = st.stage_index
                           /\ a.attempt = Attempt(wf, st)
                           /\ a.kind = "ScheduleTimeout" =>
                                st.notified_timeout # <<st.stage_index, Attempt(wf, st)>>}
    BY DEF RecoveryAsksAgain
  <2> DEFINE i == st.stage_index
             k == st.attempts[i]
  <2>1. /\ Valid(wf) /\ StepInv(wf, st) /\ st.actions = {}
        /\ i \in Index(wf) /\ Attempt(wf, st) = k
    BY WorkflowValid DEF Inv, TypeOK, PipelineState, StepInv, Position, Attempt
  <2>2. Filled(wf, st) /\ Concerning(issued, i, k) = Expected(wf, st)
    BY DEF Asking, Waits
  <2>3. OutstandingActions(wf, st) =
          {a \in Expected(wf, st) :
             a.kind = "ScheduleTimeout" => st.notified_timeout # <<i, k>>}
    BY <2>1, <2>2, OutstandingExpected
  <2>4. Asked(RequestKind \cup {"ScheduleTimeout"}) = Asks(issued)
    BY DEF Asked, Asks
  <2> QED  BY <2>1, <2>2, <2>3, <2>4 DEF Concerning
<1> QED  BY <1>1, OrderlyInvariance, AskingInvariance, PTL
=============================================================================
