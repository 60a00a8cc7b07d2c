------------------------- MODULE PipelineStepProofs -------------------------
(***************************************************************************)
(* Every helper of the pipeline step keeps the records of a task in order, *)
(* for every valid workflow and every set of heads, patches, reviewers and *)
(* children.                                                               *)
(***************************************************************************)
EXTENDS PipelineStep, FiniteSetTheorems, WellFoundedInduction, TLAPS

-----------------------------------------------------------------------------
(* What the static rules of Workflow::validate give the pipeline: every    *)
(* work stage comes before every stage that is bound to the head.          *)

\* A non-empty set of naturals has a least element.
LEMMA LeastElement ==
  ASSUME NEW S \in SUBSET Nat, S # {}
  PROVE  \E m \in S : \A n \in S : m <= n
<1> DEFINE R == OpToRel(<, Nat)
<1>1. \E m \in S : \A n \in S : ~(<<n, m>> \in R)
  BY WFMin, NatLessThanWellFounded, Zenon
<1>2. \A m, n \in Nat : n < m => <<n, m>> \in R
  BY Zenon DEF OpToRel
<1>3. PICK m \in S : \A n \in S : ~(<<n, m>> \in R)
  BY <1>1
<1>4. \A n \in S : ~(n < m)
  BY <1>2, <1>3, Zenon
<1> HIDE DEF R
<1> QED  BY <1>4

\* A non-empty set of naturals up to n has a greatest element.
LEMMA GreatestElement ==
  ASSUME NEW n \in Nat, NEW S \in SUBSET (0 .. n), S # {}
  PROVE  \E m \in S : \A k \in S : k <= m
<1> DEFINE T == {n - k : k \in S}
<1>0. \A k \in S : k \in Nat /\ k <= n /\ n - k \in Nat
  OBVIOUS
<1>1. T \in SUBSET Nat /\ T # {}
  BY <1>0, Zenon
<1>2. PICK t \in T : \A u \in T : t <= u
  BY <1>1, LeastElement
<1>3. PICK m \in S : t = n - m
  OBVIOUS
<1>4. \A k \in S : k <= m
  BY <1>2, <1>3
<1> QED  BY <1>4

\* FirstOf of a non-empty set of stage numbers is its least element.
LEMMA FirstOfProperties ==
  ASSUME NEW S \in SUBSET Nat, S # {}
  PROVE  FirstOf(S) \in S /\ \A k \in S : FirstOf(S) <= k
  BY LeastElement DEF FirstOf

\* LastOf of a set of stage numbers is 0 for the empty set, else its greatest
\* element.
LEMMA LastOfProperties ==
  ASSUME NEW n \in Nat, NEW S \in SUBSET (1 .. n)
  PROVE  /\ LastOf(S) = 0 <=> S = {}
         /\ S # {} => LastOf(S) \in S /\ \A k \in S : k <= LastOf(S)
<1>1. S \in SUBSET (0 .. n) /\ 0 \notin S
  OBVIOUS
<1>2. S # {} => \E m \in S : \A k \in S : k <= m
  BY <1>1, GreatestElement
<1>3. S # {} => LastOf(S) \in S /\ \A k \in S : k <= LastOf(S)
  BY <1>2 DEF LastOf
<1> QED  BY <1>1, <1>3 DEF LastOf

\* The number of stages is a natural.
LEMMA LengthIsNat ==
  ASSUME NEW w, IsWorkflow(w)
  PROVE  Len_(w) \in Nat /\ Index(w) = 1 .. Len_(w)
  BY DEF IsWorkflow, Len_, Index

\* Every work stage comes before every command and head-bound approval.
LEMMA WorkBeforeHeadBound ==
  ASSUME NEW w, IsWorkflow(w), HeadRules(w),
         NEW i \in Index(w), IsHeadBound(w, i),
         NEW j \in Index(w), IsKind(w, j, "work")
  PROVE  j < i
<1> DEFINE B == {b \in Index(w) : IsBranchWork(w, b)}
<1>1. Len_(w) \in Nat /\ Index(w) = 1 .. Len_(w)
  BY LengthIsNat
<1>2. PICK b0 \in Index(w) : b0 < i /\ IsBranchWork(w, b0)
  BY DEF HeadRules, NeedsHead
<1>3. B \in SUBSET (0 .. Len_(w)) /\ B # {}
  BY <1>1, <1>2
<1>4. PICK b \in B : \A c \in B : c <= b
  BY <1>1, <1>3, GreatestElement
<1>5. b <= i
  BY <1>1, <1>4 DEF HeadRules
<1>6. ~(b < j)
  <2>1. \A c \in Index(w) : IsBranchWork(w, c) => ~(c > b)
    BY <1>1, <1>4
  <2>2. \E c \in Index(w) : NeedsHead(w, c)
    BY DEF NeedsHead
  <2>3. KindAt(w, j) = "work"
    BY DEF IsKind
  <2> QED  BY <2>1, <2>2, <2>3, <1>4 DEF HeadRules
<1>7. i # j
  BY DEF IsHeadBound, IsKind
<1> QED  BY <1>1, <1>5, <1>6, <1>7

-----------------------------------------------------------------------------
(* The invariant.                                                          *)

Valid(w) == IsWorkflow(w) /\ Len_(w) > 0 /\ StaticRules(w)

IsBoundApproval(w, i) == IsKind(w, i, "approval") /\ w.stages[i].bind_head

\* A branch has a head.  Every approval record is of an approval stage, has
\* the reviewers it needs and, when head-bound, is for the current head and
\* its patch.
Records(w, s) ==
  /\ s.branch => s.current_head # None
  /\ \A a \in s.approvals :
       /\ IsKind(w, a.stage, "approval")
       /\ Cardinality(a.reviewers) >= w.stages[a.stage].count
       /\ IF w.stages[a.stage].bind_head
          THEN s.current_head # None /\ a.head = s.current_head /\ a.patch = s.patch_id
          ELSE a.head = None

\* Everything a task must have behind it to be at stage i.
Covered(w, s, i) ==
  \A j \in Index(w) : j < i =>
    /\ IsKind(w, j, "command") => CheckPassed(s, j)
    /\ IsKind(w, j, "approval") => ApprovalForStage(w, s, j)
    /\ IsBranchWork(w, j) => s.current_head # None

\* Head-bound approvals exist only once all work is behind the task.
Settled(w, s, i) ==
  (\E a \in s.approvals : IsBoundApproval(w, a.stage)) =>
    \A j \in Index(w) : IsKind(w, j, "work") => j < i

\* Where the task may stand.
Position(w, s) ==
  /\ s.status = "pending" => s.stage_index = 1
  /\ s.status = "running" => s.stage_index \in Index(w)
  /\ s.status = "done" => s.stage_index = Len_(w) + 1 \/ IsKind(w, s.stage_index, "merge")
  /\ s.status \in {"pending", "running", "done"} =>
       Covered(w, s, s.stage_index) /\ Settled(w, s, s.stage_index)

StepInv(w, s) ==
  /\ s \in Copies(w)
  /\ s.status # "refused"
  /\ Records(w, s)
  /\ Position(w, s)

\* What is needed of a copy to enter stage i.
MayEnter(w, s, i) ==
  /\ s \in Copies(w)
  /\ s.status = "running"
  /\ Records(w, s)
  /\ Covered(w, s, i)
  /\ Settled(w, s, i)

-----------------------------------------------------------------------------

\* The loop of enter_stage stops at a stage j not before i, passes only over
\* satisfied approvals, and does not stop at one.
LEMMA EntryStageProperties ==
  ASSUME NEW w, Valid(w), NEW s \in Copies(w), NEW i \in 1 .. Len_(w) + 1
  PROVE  /\ EntryStage(w, s, i) \in i .. Len_(w) + 1
         /\ \A k \in i .. Len_(w) + 1 :
              k < EntryStage(w, s, i) => ApprovalForStage(w, s, k)
<1> DEFINE S == {j \in i .. Len_(w) + 1 : ~ApprovalForStage(w, s, j)}
<1>1. Len_(w) \in Nat /\ Index(w) = 1 .. Len_(w)
  BY LengthIsNat DEF Valid
<1>2. ~ApprovalForStage(w, s, Len_(w) + 1)
  BY <1>1 DEF ApprovalForStage, IsKind
<1>3. S \in SUBSET Nat /\ S # {}
  BY <1>1, <1>2
<1>4. FirstOf(S) \in S /\ \A k \in S : FirstOf(S) <= k
  BY <1>3, FirstOfProperties
<1> DEFINE e == FirstOf(S)
<1>5. EntryStage(w, s, i) = e
  BY DEF EntryStage
<1>6. e \in i .. Len_(w) + 1
  BY <1>4
<1>7. ASSUME NEW k \in i .. Len_(w) + 1, k < e
      PROVE  ApprovalForStage(w, s, k)
  <2>1. k \notin S
    BY <1>1, <1>4, <1>6, <1>7
  <2> QED  BY <2>1
<1> HIDE DEF e
<1> QED  BY <1>5, <1>6, <1>7

\* A task that may enter stage i may enter the stage where the loop stops.
LEMMA EntryStageMayEnter ==
  ASSUME NEW w, Valid(w), NEW s, NEW i \in 1 .. Len_(w) + 1, MayEnter(w, s, i)
  PROVE  MayEnter(w, s, EntryStage(w, s, i))
<1> DEFINE e == EntryStage(w, s, i)
<1>1. Len_(w) \in Nat /\ Index(w) = 1 .. Len_(w)
  BY LengthIsNat DEF Valid
<1>2. /\ e \in i .. Len_(w) + 1
      /\ \A k \in i .. Len_(w) + 1 : k < e => ApprovalForStage(w, s, k)
  BY EntryStageProperties DEF MayEnter
<1> HIDE DEF e
<1>3. Covered(w, s, e)
  <2> SUFFICES ASSUME NEW j \in Index(w), j < e
               PROVE  /\ IsKind(w, j, "command") => CheckPassed(s, j)
                      /\ IsKind(w, j, "approval") => ApprovalForStage(w, s, j)
                      /\ IsBranchWork(w, j) => s.current_head # None
    BY DEF Covered
  <2>1. CASE j < i
    BY <2>1 DEF MayEnter, Covered
  <2>2. CASE ~(j < i)
    <3>1. ApprovalForStage(w, s, j)
      BY <1>1, <1>2, <2>2
    <3> QED  BY <3>1 DEF ApprovalForStage, IsKind, IsBranchWork
  <2> QED  BY <2>1, <2>2
<1>4. Settled(w, s, e)
  BY <1>1, <1>2 DEF MayEnter, Settled
<1> QED  BY <1>3, <1>4 DEF MayEnter, e

\* A fanout that runs again forgets only later approvals.
LEMMA ResetFanoutMayEnter ==
  ASSUME NEW w, Valid(w), NEW s, NEW j \in Index(w), MayEnter(w, s, j)
  PROVE  MayEnter(w, ResetFanoutAt(w, s, j), j)
<1> DEFINE n == ResetFanoutAt(w, s, j)
<1>1. /\ n \in Copies(w)
      /\ n.status = s.status /\ n.current_head = s.current_head
      /\ n.patch_id = s.patch_id /\ n.passed_checks = s.passed_checks
      /\ n.branch = s.branch
      /\ n.approvals \subseteq s.approvals
      /\ \A a \in s.approvals : a.stage < j => a \in n.approvals
  <2>1. CASE ~IsKind(w, j, "fanout")
    BY <2>1 DEF MayEnter, ResetFanoutAt
  <2>2. CASE IsKind(w, j, "fanout")
    <3> DEFINE c == ClearFanout(s)
    <3>1. s \in Copies(w)
      BY DEF MayEnter
    <3>2. /\ c \in Copies(w)
          /\ c.status = s.status /\ c.current_head = s.current_head
          /\ c.patch_id = s.patch_id /\ c.passed_checks = s.passed_checks
          /\ c.branch = s.branch /\ c.approvals = s.approvals
      BY ZenonT(60), <3>1 DEF ClearFanout, Copies, Option
    <3>3. n = [c EXCEPT !.approvals = {a \in @ : a.stage < j}]
      BY <2>2 DEF ResetFanoutAt
    <3> HIDE DEF c, n
    <3> QED  BY ZenonT(60), <3>2, <3>3 DEF Copies
  <2> QED  BY <2>1, <2>2
<1> HIDE DEF n
<1>2. Records(w, n)
  BY <1>1 DEF MayEnter, Records
<1>3. Covered(w, n, j)
  BY <1>1 DEF MayEnter, Covered, ApprovalForStage, CheckPassed
<1>4. Settled(w, n, j)
  BY <1>1 DEF MayEnter, Settled
<1> QED  BY <1>1, <1>2, <1>3, <1>4 DEF MayEnter, n

\* Two copies that agree on branch, head, approvals and checks.
Same(s, n) ==
  /\ n.branch = s.branch
  /\ n.approvals = s.approvals
  /\ n.passed_checks = s.passed_checks
  /\ n.current_head = s.current_head
  /\ n.patch_id = s.patch_id

\* The three conditions depend only on the fields in Same.
LEMMA Transfer ==
  ASSUME NEW w, NEW s, NEW n, Same(s, n)
  PROVE  /\ Records(w, s) => Records(w, n)
         /\ \A i : Covered(w, s, i) => Covered(w, n, i)
         /\ \A i : Settled(w, s, i) => Settled(w, n, i)
<1>1. \A j : CheckPassed(s, j) <=> CheckPassed(n, j)
  BY DEF Same, CheckPassed
<1>2. \A j : ApprovalForStage(w, s, j) <=> ApprovalForStage(w, n, j)
  BY DEF Same, ApprovalForStage
<1>3. \A i : Covered(w, s, i) => Covered(w, n, i)
  BY <1>1, <1>2 DEF Same, Covered
<1>4. \A i : Settled(w, s, i) => Settled(w, n, i)
  BY DEF Same, Settled
<1>5. Records(w, s) => Records(w, n)
  BY DEF Same, Records
<1> QED  BY <1>3, <1>4, <1>5

\* Actions without head and children are actions.
LEMMA ActType ==
  ASSUME NEW kind \in ActionKind, NEW stage \in Nat, NEW attempt \in Nat
  PROVE  Act(kind, stage, attempt) \in Action
  BY DEF Act, Action, Option

\* A stage of a valid workflow is one of Stages.
LEMMA StageType ==
  ASSUME NEW w, Valid(w), NEW i \in Index(w)
  PROVE  w.stages[i] \in Stages
<1>1. Len_(w) \in Nat /\ Index(w) = 1 .. Len_(w)
  BY LengthIsNat DEF Valid
<1> QED  BY <1>1 DEF Valid, IsWorkflow, Len_

\* The request for a stage is an action.
LEMMA RequestForType ==
  ASSUME NEW w, Valid(w), NEW s \in Copies(w), NEW j \in Index(w)
  PROVE  RequestFor(w, s, j) \in Action
<1>1. Len_(w) \in Nat /\ Index(w) = 1 .. Len_(w)
  BY LengthIsNat DEF Valid
<1>2. w.stages[j] \in Stages
  BY StageType
<1>3. KindAt(w, j) \in StageKind
  BY <1>2 DEF Stages, KindAt
<1>4. s.attempts[j] \in Nat /\ s.current_head \in Option(Heads) /\ s.fanout_children \in SUBSET Children
  BY DEF Copies
<1>5. ASSUME NEW kind \in RequestKind, NEW h \in Option(Heads), NEW c \in SUBSET Children
      PROVE  [kind |-> kind, stage |-> j, attempt |-> s.attempts[j],
              head |-> h, children |-> c] \in Action
  BY <1>1, <1>4 DEF Action, ActionKind
<1>6. None \in Option(Heads) /\ {} \in SUBSET Children
  BY DEF Option
<1>7. (CASE KindAt(w, j) = "work"     -> "AssignWork"
         [] KindAt(w, j) = "submit"   -> "Submit"
         [] KindAt(w, j) = "command"  -> "RunCommand"
         [] KindAt(w, j) = "approval" -> "RequestApproval"
         [] KindAt(w, j) = "merge"    -> "Merge"
         [] KindAt(w, j) = "fanout"   -> "Fanout") \in RequestKind
  BY <1>3 DEF StageKind, RequestKind
<1> QED  BY <1>4, <1>5, <1>6, <1>7 DEF RequestFor

\* Handing out actions changes nothing else.
LEMMA EmitProperties ==
  ASSUME NEW w, NEW s \in Copies(w), NEW acts \in SUBSET Action
  PROVE  /\ Emit(s, acts) \in Copies(w)
         /\ Same(s, Emit(s, acts))
         /\ Emit(s, acts).status = s.status
         /\ Emit(s, acts).stage_index = s.stage_index
  BY DEF Emit, Copies, Same

\* StepInv does not depend on the actions handed out.
LEMMA EmitStepInv ==
  ASSUME NEW w, NEW s, StepInv(w, s), NEW acts \in SUBSET Action
  PROVE  StepInv(w, Emit(s, acts))
<1>1. s \in Copies(w)
  BY DEF StepInv
<1>2. /\ Emit(s, acts) \in Copies(w)
      /\ Same(s, Emit(s, acts))
      /\ Emit(s, acts).status = s.status
      /\ Emit(s, acts).stage_index = s.stage_index
  BY <1>1, EmitProperties
<1>3. /\ Records(w, s) => Records(w, Emit(s, acts))
      /\ \A i : Covered(w, s, i) => Covered(w, Emit(s, acts), i)
      /\ \A i : Settled(w, s, i) => Settled(w, Emit(s, acts), i)
  BY <1>2, Transfer
<1> QED  BY <1>2, <1>3 DEF StepInv, Position

\* clear_partial touches only the partial approvals.
LEMMA ClearPartialProperties ==
  ASSUME NEW w, NEW s \in Copies(w)
  PROVE  /\ ClearPartial(s) \in Copies(w)
         /\ Same(s, ClearPartial(s))
         /\ ClearPartial(s).status = s.status
         /\ ClearPartial(s).stage_index = s.stage_index
         /\ ClearPartial(s).attempts = s.attempts
         /\ ClearPartial(s).branch = s.branch
         /\ ClearPartial(s).actions = s.actions
  BY ZenonT(60) DEF ClearPartial, Copies, Same, Option

\* The fields that no record keeping touches.
Carried(s, n) ==
  /\ n.merge_commit = s.merge_commit
  /\ n.pending_head_changes = s.pending_head_changes
  /\ n.notified_timeout = s.notified_timeout

SameFanout(s, n) ==
  n.fanout_children = s.fanout_children /\ n.selected_child = s.selected_child

\* clear_partial leaves everything but the partial approvals.
LEMMA ClearPartialFields ==
  ASSUME NEW w, NEW s \in Copies(w)
  PROVE  LET n == ClearPartial(s)
         IN  /\ Carried(s, n) /\ SameFanout(s, n)
             /\ n.attempts = s.attempts /\ n.pending_work_reason = s.pending_work_reason
             /\ n.approval_reviewers = {}
  BY DEF ClearPartial, Copies, Carried, SameFanout

\* A failed task keeps its records.
LEMMA FailTaskStepInv ==
  ASSUME NEW w, NEW s \in Copies(w), Records(w, s), NEW stage \in Nat
  PROVE  StepInv(w, FailTask(s, stage))
<1> DEFINE f == [s EXCEPT !.status = "failed"]
           c == ClearPartial(f)
<1>1. f \in Copies(w) /\ Same(s, f) /\ f.status = "failed"
  BY ZenonT(60) DEF Copies, Same, Status
<1> HIDE DEF f
<1>2. c \in Copies(w) /\ Same(f, c) /\ c.status = "failed"
  BY <1>1, ClearPartialProperties
<1> HIDE DEF c
<1>3. Records(w, c)
  BY <1>1, <1>2, Transfer
<1>4. StepInv(w, c)
  BY <1>2, <1>3 DEF StepInv, Position
<1>5. {Act("TaskFailed", stage, 0)} \in SUBSET Action
  BY ActType DEF ActionKind
<1>6. FailTask(s, stage) = Emit(c, {Act("TaskFailed", stage, 0)})
  BY DEF FailTask, c, f
<1> QED  BY <1>4, <1>5, <1>6, EmitStepInv

\* A cancelled task keeps its records in order.
LEMMA CancelledStepInv ==
  ASSUME NEW w, NEW s \in Copies(w), Records(w, s), NEW stage \in Nat
  PROVE  StepInv(w, Cancelled(s, stage))
<1> DEFINE f == [s EXCEPT !.status = "cancelled"]
           c == ClearPartial(f)
<1>1. f \in Copies(w) /\ Same(s, f) /\ f.status = "cancelled"
  BY ZenonT(60) DEF Copies, Same, Status
<1> HIDE DEF f
<1>2. c \in Copies(w) /\ Same(f, c) /\ c.status = "cancelled"
  BY <1>1, ClearPartialProperties
<1> HIDE DEF c
<1>3. Records(w, c)
  BY <1>1, <1>2, Transfer
<1>4. StepInv(w, c)
  BY <1>2, <1>3 DEF StepInv, Position
<1>5. {Act("TaskCancelled", stage, 0)} \in SUBSET Action
  BY ActType DEF ActionKind
<1>6. Cancelled(s, stage) = Emit(c, {Act("TaskCancelled", stage, 0)})
  BY DEF Cancelled, c, f
<1> QED  BY <1>4, <1>5, <1>6, EmitStepInv

\* Whoever may enter the merge stage finds the merge gate open.
LEMMA GateOpen ==
  ASSUME NEW w, Valid(w), NEW s, NEW j \in Index(w), IsKind(w, j, "merge"),
         Covered(w, s, j)
  PROVE  MergeGate(w, s, j)
<1>1. Len_(w) \in Nat /\ Index(w) = 1 .. Len_(w)
  BY LengthIsNat DEF Valid
<1>2. PICK c \in Index(w) : c < j /\ IsKind(w, c, "command")
  BY DEF Valid, StaticRules, MergeRules
<1>3. PICK b \in Index(w) : b < c /\ IsBranchWork(w, b)
  BY <1>2 DEF Valid, StaticRules, HeadRules, NeedsHead, IsHeadBound
<1>4. s.current_head # None
  BY <1>1, <1>2, <1>3 DEF Covered
<1>5. \/ w.allow_unreviewed
      \/ \E i \in Index(w) : i < j /\ IsKind(w, i, "approval") /\ w.stages[i].bind_head
  BY DEF Valid, StaticRules, MergeRules
<1> QED  BY <1>2, <1>4, <1>5 DEF MergeGate, Covered

\* Starting the attempt of a stage that may be entered is never refused.
LEMMA BeginAttemptStepInv ==
  ASSUME NEW w, Valid(w), NEW s, NEW j \in Index(w), MayEnter(w, s, j)
  PROVE  StepInv(w, BeginAttempt(w, s, j))
<1> DEFINE c == ClearPartial(s)
           n == [c EXCEPT !.stage_index = j,
                          !.pending_work_reason = FALSE,
                          !.attempts = OneMore(@, j)]
<1>1. Len_(w) \in Nat /\ Index(w) = 1 .. Len_(w)
  BY LengthIsNat DEF Valid
<1>2. s \in Copies(w) /\ s.status = "running"
  BY DEF MayEnter
<1>3. c \in Copies(w) /\ Same(s, c) /\ c.status = "running"
  BY <1>2, ClearPartialProperties
<1> HIDE DEF c
<1>4. OneMore(c.attempts, j) \in [Index(w) -> Nat]
  <2>1. c.attempts \in [Index(w) -> Nat]
    BY <1>3 DEF Copies
  <2> QED  BY <2>1 DEF OneMore
<1>5. /\ n \in Copies(w) /\ Same(c, n) /\ n.status = "running"
      /\ n.stage_index = j /\ n.attempts \in [Index(w) -> Nat]
  <2>1. n = [c EXCEPT !.stage_index = j, !.pending_work_reason = FALSE,
                      !.attempts = OneMore(c.attempts, j)]
    OBVIOUS
  <2>2. j \in 1 .. Len_(w) + 1
    BY <1>1
  <2> DEFINE at == OneMore(c.attempts, j)
  <2>3. at \in [Index(w) -> Nat]
    BY <1>4
  <2> HIDE DEF at
  <2>4. n = [c EXCEPT !.stage_index = j, !.pending_work_reason = FALSE, !.attempts = at]
    BY <2>1 DEF at
  <2> QED  BY ZenonT(60), <1>3, <2>2, <2>3, <2>4 DEF Copies, Same
<1> HIDE DEF n
<1>6. Same(s, n)
  BY <1>3, <1>5 DEF Same
<1>7. Records(w, n) /\ Covered(w, n, j) /\ Settled(w, n, j)
  BY <1>6, Transfer DEF MayEnter
<1>8. StepInv(w, n)
  BY <1>1, <1>5, <1>7 DEF StepInv, Position
<1>9. BeginAttempt(w, s, j) =
        IF IsKind(w, j, "command") /\ MissingValue(w, n, j) THEN FailTask(n, j)
        ELSE IF IsKind(w, j, "merge") /\ ~MergeGate(w, n, j) THEN Refused(n)
        ELSE Emit(n, {Act("ScheduleTimeout", j, n.attempts[j]), RequestFor(w, n, j)})
  BY DEF BeginAttempt, n, c
<1>10. ~(IsKind(w, j, "merge") /\ ~MergeGate(w, n, j))
  BY <1>7, GateOpen
<1>11. StepInv(w, FailTask(n, j))
  BY <1>1, <1>5, <1>7, FailTaskStepInv
<1>12. StepInv(w, Emit(n, {Act("ScheduleTimeout", j, n.attempts[j]), RequestFor(w, n, j)}))
  <2>1. Act("ScheduleTimeout", j, n.attempts[j]) \in Action
    <3>1. "ScheduleTimeout" \in ActionKind /\ j \in Nat /\ n.attempts[j] \in Nat
      BY <1>1, <1>5 DEF ActionKind
    <3> QED  BY <3>1, ActType
  <2>2. RequestFor(w, n, j) \in Action
    BY <1>5, RequestForType
  <2>3. {Act("ScheduleTimeout", j, n.attempts[j]), RequestFor(w, n, j)} \in SUBSET Action
    BY <2>1, <2>2
  <2> QED  BY <1>8, <2>3, EmitStepInv
<1> QED  BY <1>9, <1>10, <1>11, <1>12

\* Past the last stage the task is done, with everything covered.
LEMMA FinishTaskStepInv ==
  ASSUME NEW w, Valid(w), NEW s, MayEnter(w, s, Len_(w) + 1), NEW b \in BOOLEAN
  PROVE  StepInv(w, FinishTask(w, s, b))
<1> DEFINE c == ClearPartial(s)
           d == [c EXCEPT !.pending_work_reason = FALSE]
           n == IF b THEN d ELSE s
           t == [n EXCEPT !.stage_index = Len_(w) + 1, !.status = "done"]
<1>1. Len_(w) \in Nat
  BY LengthIsNat DEF Valid
<1>2. s \in Copies(w)
  BY DEF MayEnter
<1>3. c \in Copies(w) /\ Same(s, c)
  BY <1>2, ClearPartialProperties
<1> HIDE DEF c
<1>4. d \in Copies(w) /\ Same(s, d)
  BY ZenonT(60), <1>3 DEF Copies, Same
<1> HIDE DEF d
<1>5. n \in Copies(w) /\ Same(s, n)
  BY <1>2, <1>4 DEF Same
<1> HIDE DEF n
<1>6. t \in Copies(w) /\ Same(n, t) /\ t.stage_index = Len_(w) + 1 /\ t.status = "done"
  <2> DEFINE last == Len_(w) + 1
  <2>1. last \in 1 .. Len_(w) + 1
    BY <1>1
  <2> HIDE DEF last
  <2>2. t = [n EXCEPT !.stage_index = last, !.status = "done"]
    BY DEF last
  <2>3. t \in Copies(w) /\ Same(n, t) /\ t.stage_index = last /\ t.status = "done"
    BY ZenonT(60), <1>5, <2>1, <2>2 DEF Copies, Same, Status
  <2> QED  BY <2>3 DEF last
<1> HIDE DEF t
<1>7. Same(s, t)
  BY <1>5, <1>6 DEF Same
<1>8. Records(w, t) /\ Covered(w, t, Len_(w) + 1) /\ Settled(w, t, Len_(w) + 1)
  BY <1>7, Transfer DEF MayEnter
<1>9. StepInv(w, t)
  BY <1>6, <1>8 DEF StepInv, Position
<1>10. {Act("TaskDone", 0, 0)} \in SUBSET Action
  BY ActType DEF ActionKind
<1>11. FinishTask(w, s, b) = Emit(t, {Act("TaskDone", 0, 0)})
  BY DEF FinishTask, t, n, d, c
<1> QED  BY <1>9, <1>10, <1>11, EmitStepInv

\* A stage that may be entered is entered, or passed over to one that may be.
LEMMA EnterStageStepInv ==
  ASSUME NEW w, Valid(w), NEW s, NEW i \in 1 .. Len_(w) + 1, MayEnter(w, s, i)
  PROVE  StepInv(w, EnterStage(w, s, i))
<1> DEFINE j == EntryStage(w, s, i)
<1>1. Len_(w) \in Nat /\ Index(w) = 1 .. Len_(w)
  BY LengthIsNat DEF Valid
<1>2. j \in i .. Len_(w) + 1
  BY EntryStageProperties DEF MayEnter
<1>3. MayEnter(w, s, j)
  BY EntryStageMayEnter
<1>4. EnterStage(w, s, i) =
        IF j > Len_(w) THEN FinishTask(w, s, i <= Len_(w))
        ELSE BeginAttempt(w, ResetFanoutAt(w, s, j), j)
  BY DEF EnterStage
<1> HIDE DEF j
<1>5. CASE j > Len_(w)
  <2>1. j = Len_(w) + 1
    BY <1>1, <1>2, <1>5
  <2>2. (i <= Len_(w)) \in BOOLEAN
    BY <1>1
  <2> QED  BY <1>3, <1>4, <1>5, <2>1, <2>2, FinishTaskStepInv
<1>6. CASE ~(j > Len_(w))
  <2>1. j \in Index(w)
    BY <1>1, <1>2, <1>6
  <2>2. MayEnter(w, ResetFanoutAt(w, s, j), j)
    BY <1>3, <2>1, ResetFanoutMayEnter
  <2> QED  BY <1>4, <1>6, <2>1, <2>2, BeginAttemptStepInv
<1> QED  BY <1>5, <1>6

\* What the helpers that void records leave alone.
Frame(s, n) ==
  /\ n.status = s.status
  /\ n.stage_index = s.stage_index
  /\ n.branch = s.branch
  /\ n.current_head = s.current_head
  /\ n.patch_id = s.patch_id
  /\ n.attempts = s.attempts
  /\ n.actions = s.actions

\* The part of Covered that does not depend on which head is current.
LooselyCovered(w, s, i) ==
  \A j \in Index(w) : j < i =>
    /\ IsKind(w, j, "approval") /\ ~w.stages[j].bind_head =>
         \E a \in s.approvals : a.stage = j
    /\ IsBranchWork(w, j) => s.current_head # None

\* What is covered is covered loosely, here and at every stage before.
LEMMA CoveredLoosely ==
  ASSUME NEW w, Valid(w), NEW s, NEW i \in Nat, NEW k \in Nat, k <= i, Covered(w, s, i)
  PROVE  LooselyCovered(w, s, k)
<1>1. Index(w) \subseteq Nat
  BY LengthIsNat DEF Valid
<1> QED  BY <1>1 DEF Covered, LooselyCovered, ApprovalForStage

\* With nothing head-bound before stage i the two agree.
LEMMA LooselyIsCovered ==
  ASSUME NEW w, NEW s, NEW i, LooselyCovered(w, s, i),
         \A j \in Index(w) : j < i => ~IsHeadBound(w, j)
  PROVE  Covered(w, s, i)
  BY DEF LooselyCovered, Covered, IsHeadBound, ApprovalForStage, IsKind

\* drop_approvals keeps exactly the approvals it is told to.
LEMMA DropApprovalsProperties ==
  ASSUME NEW w, NEW s \in Copies(w), NEW K
  PROVE  /\ DropApprovals(w, s, K) \in Copies(w)
         /\ Frame(s, DropApprovals(w, s, K))
         /\ DropApprovals(w, s, K).approvals = s.approvals \cap K
         /\ DropApprovals(w, s, K).passed_checks = s.passed_checks
<1> DEFINE winner == IF \E a \in {a \in s.approvals : a \notin K} : PicksAt(w, a.stage)
                     THEN None ELSE s.selected_child
           kept == s.approvals \cap K
           n == [s EXCEPT !.approvals = kept, !.selected_child = winner]
<1>1. winner \in Option(Children) /\ kept \in SUBSET Approval
  BY DEF Copies, Option
<1>2. DropApprovals(w, s, K) = ClearPartial(n)
  BY DEF DropApprovals
<1> HIDE DEF winner, kept
<1>3. n \in Copies(w) /\ Frame(s, n) /\ n.approvals = kept
      /\ n.passed_checks = s.passed_checks
  BY <1>1 DEF Copies, Frame
<1> HIDE DEF n
<1>4. ClearPartial(n) \in Copies(w) /\ Frame(n, ClearPartial(n))
      /\ ClearPartial(n).approvals = n.approvals
      /\ ClearPartial(n).passed_checks = n.passed_checks
  BY <1>3, ClearPartialProperties DEF Same, Frame
<1> QED  BY <1>2, <1>3, <1>4 DEF Frame, kept

\* forget_from leaves the records of the stages before the target.
LEMMA ForgetFromProperties ==
  ASSUME NEW w, NEW s \in Copies(w), NEW target
  PROVE  /\ ForgetFrom(w, s, target) \in Copies(w)
         /\ Frame(s, ForgetFrom(w, s, target))
         /\ ForgetFrom(w, s, target).approvals = {a \in s.approvals : a.stage < target}
<1> DEFINE n == [s EXCEPT !.passed_checks = {c \in @ : c.stage < target}]
           K == {a \in s.approvals : a.stage < target}
<1>1. n \in Copies(w) /\ Frame(s, n) /\ n.approvals = s.approvals
  BY DEF Copies, Frame
<1>2. ForgetFrom(w, s, target) = DropApprovals(w, n, K)
  BY DEF ForgetFrom
<1> HIDE DEF n
<1>3. /\ DropApprovals(w, n, K) \in Copies(w)
      /\ Frame(n, DropApprovals(w, n, K))
      /\ DropApprovals(w, n, K).approvals = n.approvals \cap K
  BY <1>1, DropApprovalsProperties
<1> QED  BY <1>1, <1>2, <1>3 DEF Frame

\* Going back to a work stage leaves only approvals that no head voids.
LEMMA ReturnToWorkStepInv ==
  ASSUME NEW w, Valid(w), NEW s \in Copies(w), s.status = "running", Records(w, s),
         NEW target \in Index(w), IsKind(w, target, "work"),
         LooselyCovered(w, s, target)
  PROVE  StepInv(w, ReturnToWork(w, s, target))
<1> DEFINE f == ForgetFrom(w, s, target)
           g == IF FanoutAtOrAfter(w, target) THEN ClearFanout(f) ELSE f
           at == OneMore(g.attempts, target)
           n == [g EXCEPT !.work_product = None, !.pending_work_reason = TRUE,
                          !.stage_index = target, !.attempts = at]
<1>1. Len_(w) \in Nat /\ Index(w) = 1 .. Len_(w)
  BY LengthIsNat DEF Valid
<1>2. f \in Copies(w) /\ Frame(s, f)
      /\ f.approvals = {a \in s.approvals : a.stage < target}
  BY ForgetFromProperties
<1> HIDE DEF f
<1>3. ClearFanout(f) \in Copies(w) /\ Frame(f, ClearFanout(f))
      /\ ClearFanout(f).approvals = f.approvals
  BY ZenonT(60), <1>2 DEF ClearFanout, Copies, Option, Frame
<1>4. g \in Copies(w) /\ Frame(s, g) /\ g.approvals = {a \in s.approvals : a.stage < target}
  BY <1>2, <1>3 DEF Frame
<1> HIDE DEF g
<1>5. at \in [Index(w) -> Nat]
  <2>1. g.attempts \in [Index(w) -> Nat]
    BY <1>4 DEF Copies
  <2> QED  BY <2>1 DEF OneMore
<1> HIDE DEF at
<1>6. /\ n \in Copies(w) /\ n.status = g.status /\ n.stage_index = target
      /\ n.attempts = at /\ Same(g, n)
  <2>1. target \in 1 .. Len_(w) + 1
    BY <1>1
  <2> QED  BY ZenonT(60), <1>4, <1>5, <2>1 DEF Copies, Same
<1>7. ReturnToWork(w, s, target) =
        Emit(n, {Act("ScheduleTimeout", target, n.attempts[target]),
                 Act("ReturnToWork", target, n.attempts[target])})
  BY DEF ReturnToWork, n, at, g, f
<1> HIDE DEF n
<1>8. /\ n.status = "running" /\ n.current_head = s.current_head
      /\ n.patch_id = s.patch_id /\ n.branch = s.branch
      /\ n.approvals = {a \in s.approvals : a.stage < target}
  BY <1>4, <1>6 DEF Frame, Same
<1>9. \A j \in Index(w) : j < target => ~IsHeadBound(w, j)
  <2> SUFFICES ASSUME NEW j \in Index(w), IsHeadBound(w, j) PROVE ~(j < target)
    OBVIOUS
  <2>1. target < j
    BY WorkBeforeHeadBound DEF Valid, StaticRules
  <2> QED  BY <1>1, <2>1
<1>10. Records(w, n)
  BY <1>8 DEF Records
<1>11. LooselyCovered(w, n, target)
  BY <1>8 DEF LooselyCovered
<1>12. Covered(w, n, target)
  BY <1>9, <1>11, LooselyIsCovered
<1>13. Settled(w, n, target)
  <2>1. \A a \in n.approvals : ~IsBoundApproval(w, a.stage)
    BY <1>8, <1>9 DEF IsBoundApproval, IsHeadBound, IsKind
  <2> QED  BY <2>1 DEF Settled
<1>14. StepInv(w, n)
  BY <1>6, <1>8, <1>10, <1>12, <1>13 DEF StepInv, Position
<1>15. {Act("ScheduleTimeout", target, n.attempts[target]),
        Act("ReturnToWork", target, n.attempts[target])} \in SUBSET Action
  <2>1. /\ "ScheduleTimeout" \in ActionKind /\ "ReturnToWork" \in ActionKind
        /\ target \in Nat /\ n.attempts[target] \in Nat
    BY <1>1, <1>5, <1>6 DEF ActionKind, RequestKind
  <2>2. Act("ScheduleTimeout", target, n.attempts[target]) \in Action
    BY <2>1, ActType
  <2>3. Act("ReturnToWork", target, n.attempts[target]) \in Action
    BY <2>1, ActType
  <2> QED  BY <2>2, <2>3
<1> QED  BY <1>7, <1>14, <1>15, EmitStepInv

\* PreviousWork is 0 or an earlier work stage.
LEMMA PreviousWorkProperties ==
  ASSUME NEW w, Valid(w), NEW i \in Index(w), PreviousWork(w, i) # 0
  PROVE  /\ PreviousWork(w, i) \in Index(w)
         /\ PreviousWork(w, i) < i
         /\ IsKind(w, PreviousWork(w, i), "work")
<1> DEFINE S == {j \in Index(w) : j < i /\ IsKind(w, j, "work")}
<1>1. Len_(w) \in Nat /\ Index(w) = 1 .. Len_(w)
  BY LengthIsNat DEF Valid
<1>2. PreviousWork(w, i) = LastOf(S) /\ S \in SUBSET (1 .. Len_(w))
  BY <1>1 DEF PreviousWork
<1> HIDE DEF S
<1>3. LastOf(S) \in S
  BY <1>1, <1>2, LastOfProperties
<1> QED  BY <1>2, <1>3 DEF S

\* A failed stage goes back to work or ends the task.
LEMMA FailStageStepInv ==
  ASSUME NEW w, Valid(w), NEW s \in Copies(w), s.status = "running", Records(w, s),
         NEW i \in Index(w), Covered(w, s, i)
  PROVE  StepInv(w, FailStage(w, s, i))
<1> DEFINE t == FailureTarget(w, i)
<1>1. Len_(w) \in Nat /\ Index(w) = 1 .. Len_(w)
  BY LengthIsNat DEF Valid
<1>2. t # 0 => t \in Index(w) /\ t < i /\ IsKind(w, t, "work")
  <2>1. w.stages[i].on_fail # 0 =>
          w.stages[i].on_fail < i /\ IsKind(w, w.stages[i].on_fail, "work")
    BY DEF Valid, StaticRules, StageRules
  <2> QED  BY <2>1, PreviousWorkProperties DEF FailureTarget, IsKind
<1>3. CASE t # 0
  <2>1. LooselyCovered(w, s, t)
    BY <1>1, <1>2, <1>3, CoveredLoosely
  <2>2. FailStage(w, s, i) = ReturnToWork(w, s, t)
    BY <1>3 DEF FailStage
  <2> HIDE DEF t
  <2> QED  BY <1>2, <1>3, <2>1, <2>2, ReturnToWorkStepInv
<1>4. CASE t = 0
  BY <1>1, <1>4, FailTaskStepInv DEF FailStage
<1> QED  BY <1>3, <1>4

\* invalidate_head_bound leaves only records for the current head.
LEMMA InvalidateHeadBoundProperties ==
  ASSUME NEW w, NEW s \in Copies(w)
  PROVE  /\ InvalidateHeadBound(w, s) \in Copies(w)
         /\ Frame(s, InvalidateHeadBound(w, s))
         /\ InvalidateHeadBound(w, s).approvals =
              {a \in s.approvals : a.head = None \/ a.head = s.current_head}
<1> DEFINE kept == {a \in s.approvals : a.head = None \/ a.head = s.current_head}
           d == DropApprovals(w, s, kept)
<1>1. d \in Copies(w) /\ Frame(s, d) /\ d.approvals = s.approvals \cap kept
  BY DropApprovalsProperties
<1>2. InvalidateHeadBound(w, s) =
        [d EXCEPT !.passed_checks = {c \in @ : c.head = s.current_head}]
  BY DEF InvalidateHeadBound
<1> HIDE DEF d
<1>3. /\ InvalidateHeadBound(w, s) \in Copies(w)
      /\ Frame(d, InvalidateHeadBound(w, s))
      /\ InvalidateHeadBound(w, s).approvals = d.approvals
  <2> DEFINE checks == {c \in d.passed_checks : c.head = s.current_head}
  <2>1. checks \in SUBSET PassedCheck
    BY <1>1 DEF Copies
  <2>2. InvalidateHeadBound(w, s) = [d EXCEPT !.passed_checks = checks]
    BY <1>2
  <2> HIDE DEF checks
  <2> QED  BY ZenonT(60), <1>1, <2>1, <2>2 DEF Copies, Frame
<1> QED  BY <1>1, <1>3 DEF Frame

\* drop_approvals takes the winner only with a pick.
LEMMA DropApprovalsFields ==
  ASSUME NEW w, NEW s \in Copies(w), NEW K
  PROVE  LET n == DropApprovals(w, s, K)
         IN  /\ Carried(s, n) /\ n.fanout_children = s.fanout_children
             /\ n.pending_work_reason = s.pending_work_reason
             /\ n.approval_reviewers = {}
             /\ (\A a \in s.approvals : a \in K \/ ~PicksAt(w, a.stage)) =>
                  n.selected_child = s.selected_child
<1> DEFINE winner == IF \E a \in {a \in s.approvals : a \notin K} : PicksAt(w, a.stage)
                     THEN None ELSE s.selected_child
           kept == s.approvals \cap K
           n == [s EXCEPT !.approvals = kept, !.selected_child = winner]
<1>1. winner \in Option(Children) /\ kept \in SUBSET Approval
  BY DEF Copies, Option
<1>2. DropApprovals(w, s, K) = ClearPartial(n)
  BY DEF DropApprovals
<1>3. (\A a \in s.approvals : a \in K \/ ~PicksAt(w, a.stage)) => winner = s.selected_child
  OBVIOUS
<1> HIDE DEF winner, kept
<1>4. /\ n \in Copies(w) /\ Carried(s, n) /\ n.fanout_children = s.fanout_children
      /\ n.pending_work_reason = s.pending_work_reason /\ n.selected_child = winner
  BY <1>1 DEF Copies, Carried
<1> HIDE DEF n
<1> QED  BY <1>2, <1>3, <1>4, ClearPartialFields DEF Carried, SameFanout

\* invalidate_head_bound, on the fields of Orderly.
LEMMA InvalidateHeadBoundFields ==
  ASSUME NEW w, NEW s \in Copies(w)
  PROVE  LET n == InvalidateHeadBound(w, s)
         IN  /\ Carried(s, n) /\ n.fanout_children = s.fanout_children
             /\ n.pending_work_reason = s.pending_work_reason
             /\ n.approval_reviewers = {}
             /\ n.passed_checks = {c \in s.passed_checks : c.head = s.current_head}
             /\ (\A a \in s.approvals :
                   a.head = None \/ a.head = s.current_head \/ ~PicksAt(w, a.stage)) =>
                  n.selected_child = s.selected_child
<1> DEFINE kept == {a \in s.approvals : a.head = None \/ a.head = s.current_head}
           d == DropApprovals(w, s, kept)
           n == InvalidateHeadBound(w, s)
           checks == {c \in d.passed_checks : c.head = s.current_head}
<1>1. d \in Copies(w) /\ d.passed_checks = s.passed_checks
  BY DropApprovalsProperties
<1>2. /\ Carried(s, d) /\ d.fanout_children = s.fanout_children
      /\ d.pending_work_reason = s.pending_work_reason
      /\ d.approval_reviewers = {}
      /\ (\A a \in s.approvals :
            a.head = None \/ a.head = s.current_head \/ ~PicksAt(w, a.stage)) =>
           d.selected_child = s.selected_child
  <2>1. (\A a \in s.approvals :
            a.head = None \/ a.head = s.current_head \/ ~PicksAt(w, a.stage)) =>
          \A a \in s.approvals : a \in kept \/ ~PicksAt(w, a.stage)
    OBVIOUS
  <2> HIDE DEF kept
  <2> QED  BY <2>1, DropApprovalsFields
<1>3. n = [d EXCEPT !.passed_checks = checks]
  BY <1>1 DEF InvalidateHeadBound
<1>4. checks \in SUBSET PassedCheck
  BY <1>1 DEF Copies
<1> HIDE DEF d, checks, n
<1>5. /\ Carried(d, n) /\ SameFanout(d, n)
      /\ n.pending_work_reason = d.pending_work_reason
      /\ n.approval_reviewers = d.approval_reviewers
      /\ n.passed_checks = checks
  BY ZenonT(60), <1>1, <1>3 DEF Copies, Carried, SameFanout
<1> QED  BY <1>1, <1>2, <1>5 DEF Carried, SameFanout, n, checks

\* A recorded head is the current one and nothing older is bound to it.
LEMMA RecordNewHeadProperties ==
  ASSUME NEW w, NEW s \in Copies(w), NEW head \in Heads, NEW patch \in Patches
  PROVE  LET n == RecordNewHead(w, s, head, patch)
         IN  /\ n \in Copies(w)
             /\ n.status = s.status /\ n.stage_index = s.stage_index
             /\ n.branch = s.branch
             /\ n.current_head = head /\ n.patch_id = patch
             /\ n.approvals = {a \in s.approvals : a.head = None \/ a.head = head}
<1> DEFINE m == [s EXCEPT !.current_head = head, !.patch_id = patch]
<1>1. /\ m \in Copies(w) /\ m.status = s.status /\ m.stage_index = s.stage_index
      /\ m.branch = s.branch /\ m.current_head = head /\ m.patch_id = patch
      /\ m.approvals = s.approvals
  BY ZenonT(60) DEF Copies, Option
<1>2. RecordNewHead(w, s, head, patch) = InvalidateHeadBound(w, m)
  BY DEF RecordNewHead
<1> HIDE DEF m
<1>3. /\ InvalidateHeadBound(w, m) \in Copies(w)
      /\ Frame(m, InvalidateHeadBound(w, m))
      /\ InvalidateHeadBound(w, m).approvals =
           {a \in m.approvals : a.head = None \/ a.head = m.current_head}
  BY <1>1, InvalidateHeadBoundProperties
<1> QED  BY <1>1, <1>2, <1>3 DEF Frame

\* A new head, on the fields of Orderly.
LEMMA RecordNewHeadFields ==
  ASSUME NEW w, NEW s \in Copies(w), NEW head \in Heads, NEW patch \in Patches
  PROVE  LET n == RecordNewHead(w, s, head, patch)
         IN  /\ Carried(s, n) /\ n.fanout_children = s.fanout_children
             /\ n.attempts = s.attempts /\ n.actions = s.actions
             /\ n.pending_work_reason = s.pending_work_reason
             /\ n.approval_reviewers = {}
             /\ n.passed_checks = {c \in s.passed_checks : c.head = head}
             /\ (\A a \in s.approvals :
                   a.head = None \/ a.head = head \/ ~PicksAt(w, a.stage)) =>
                  n.selected_child = s.selected_child
<1> DEFINE m == [s EXCEPT !.current_head = head, !.patch_id = patch]
<1>1. /\ m \in Copies(w) /\ Carried(s, m) /\ SameFanout(s, m)
      /\ m.attempts = s.attempts /\ m.actions = s.actions
      /\ m.pending_work_reason = s.pending_work_reason
      /\ m.current_head = head /\ m.approvals = s.approvals
      /\ m.passed_checks = s.passed_checks
  BY ZenonT(60) DEF Copies, Option, Carried, SameFanout
<1>2. RecordNewHead(w, s, head, patch) = InvalidateHeadBound(w, m)
  BY DEF RecordNewHead
<1> HIDE DEF m
<1>3. /\ InvalidateHeadBound(w, m).attempts = m.attempts
      /\ InvalidateHeadBound(w, m).actions = m.actions
  BY <1>1, InvalidateHeadBoundProperties DEF Frame
<1> QED  BY <1>1, <1>2, <1>3, InvalidateHeadBoundFields DEF Carried, SameFanout

\* A new head leaves exactly the approvals that are not bound to a head.
LEMMA FreshHead ==
  ASSUME NEW w, Valid(w), NEW s \in Copies(w), Records(w, s),
         NEW head \in Heads, NEW patch \in Patches, s.current_head # head
  PROVE  LET n == RecordNewHead(w, s, head, patch)
         IN  /\ Records(w, n)
             /\ \A i : Settled(w, n, i)
             /\ \A i : LooselyCovered(w, s, i) => LooselyCovered(w, n, i)
<1> DEFINE n == RecordNewHead(w, s, head, patch)
<1>1. /\ n \in Copies(w) /\ n.branch = s.branch
      /\ n.current_head = head /\ n.patch_id = patch
      /\ n.approvals = {a \in s.approvals : a.head = None \/ a.head = head}
  BY RecordNewHeadProperties
<1> HIDE DEF n
<1>2. head # None
  BY NoneAssumption
<1>3. ASSUME NEW a \in s.approvals
      PROVE  a \in n.approvals <=> ~w.stages[a.stage].bind_head
  BY <1>1, <1>2 DEF Records
<1>4. Records(w, n)
  BY <1>1, <1>2, <1>3 DEF Records
<1>5. \A i : Settled(w, n, i)
  BY <1>1, <1>3 DEF Settled, IsBoundApproval
<1>6. ASSUME NEW i, LooselyCovered(w, s, i)
      PROVE  LooselyCovered(w, n, i)
  BY <1>1, <1>2, <1>3, <1>6 DEF LooselyCovered
<1> QED  BY <1>4, <1>5, <1>6 DEF n

\* Nothing head-bound comes before the recheck target or, when there is none,
\* up to the current stage.
LEMMA RecheckTargetProperties ==
  ASSUME NEW w, Valid(w), NEW i \in Index(w)
  PROVE  LET t == RecheckTarget(w, i)
         IN  /\ t # 0 =>
                  /\ t \in Index(w) /\ t <= i /\ IsHeadBound(w, t)
                  /\ \A j \in Index(w) : j < t => ~IsHeadBound(w, j)
             /\ t = 0 => \A j \in Index(w) : j < i => ~IsHeadBound(w, j)
<1> DEFINE p == PreviousBranchWork(w, i)
           bound == {j \in Index(w) : p < j /\ j <= i /\ IsHeadBound(w, j)}
           t == RecheckTarget(w, i)
<1>1. Len_(w) \in Nat /\ Index(w) = 1 .. Len_(w)
  BY LengthIsNat DEF Valid
<1>2. t = IF IsKind(w, i, "work") \/ bound = {} THEN 0 ELSE FirstOf(bound)
  BY DEF RecheckTarget
<1>3. p = 0 \/ (p \in Index(w) /\ IsKind(w, p, "work"))
  <2> DEFINE S == {j \in Index(w) : j < i /\ IsBranchWork(w, j)}
  <2>1. p = LastOf(S) /\ S \in SUBSET (1 .. Len_(w))
    BY <1>1 DEF PreviousBranchWork
  <2>2. \A j \in S : j \in Index(w) /\ IsKind(w, j, "work")
    BY DEF IsBranchWork
  <2> HIDE DEF S
  <2>3. LastOf(S) = 0 \/ LastOf(S) \in S
    BY <1>1, <2>1, LastOfProperties
  <2> QED  BY <2>1, <2>2, <2>3
<1> HIDE DEF p
<1>4. ASSUME NEW j \in Index(w), IsHeadBound(w, j), j <= i
      PROVE  j \in bound
  <2>1. CASE p = 0
    BY <1>1, <1>4, <2>1
  <2>2. CASE p \in Index(w) /\ IsKind(w, p, "work")
    <3>1. p < j
      BY <1>4, <2>2, WorkBeforeHeadBound DEF Valid, StaticRules
    <3> QED  BY <1>4, <3>1
  <2> QED  BY <1>3, <2>1, <2>2
<1>5. bound \in SUBSET Nat /\ \A j \in bound : j \in Index(w) /\ j <= i /\ IsHeadBound(w, j)
  BY <1>1
<1> HIDE DEF bound
<1>6. CASE IsKind(w, i, "work")
  <2>1. t = 0
    BY <1>2, <1>6
  <2>2. ASSUME NEW j \in Index(w), IsHeadBound(w, j) PROVE ~(j < i)
    <3>1. i < j
      BY <1>6, <2>2, WorkBeforeHeadBound DEF Valid, StaticRules
    <3> QED  BY <1>1, <3>1
  <2> QED  BY <2>1, <2>2
<1>7. CASE bound = {}
  <2>1. t = 0
    BY <1>2, <1>7
  <2> QED  BY <1>1, <1>4, <1>7, <2>1
<1>8. CASE ~IsKind(w, i, "work") /\ bound # {}
  <2>1. t = FirstOf(bound)
    BY <1>2, <1>8
  <2>2. t \in bound /\ \A k \in bound : t <= k
    BY <1>5, <1>8, <2>1, FirstOfProperties
  <2> HIDE DEF t
  <2>3. t \in Index(w) /\ t <= i /\ IsHeadBound(w, t) /\ t # 0
    BY <1>1, <1>5, <2>2
  <2>4. ASSUME NEW j \in Index(w), j < t PROVE ~IsHeadBound(w, j)
    <3>1. j <= i
      BY <1>1, <2>3, <2>4
    <3>2. j \notin bound
      BY <1>1, <2>2, <2>3, <2>4
    <3> QED  BY <1>4, <3>1, <3>2
  <2> QED  BY <2>3, <2>4 DEF t
<1> QED  BY <1>6, <1>7, <1>8

\* After a head change the task is where everything behind it still counts.
LEMMA RecheckForNewHeadStepInv ==
  ASSUME NEW w, Valid(w), NEW s \in Copies(w), s.status = "running",
         s.stage_index \in Index(w), Records(w, s),
         LooselyCovered(w, s, s.stage_index), Settled(w, s, s.stage_index)
  PROVE  StepInv(w, RecheckForNewHead(w, s))
<1> DEFINE i == s.stage_index
           t == RecheckTarget(w, i)
<1>1. Len_(w) \in Nat /\ Index(w) = 1 .. Len_(w)
  BY LengthIsNat DEF Valid
<1>2. /\ t # 0 => /\ t \in Index(w) /\ t <= i /\ IsHeadBound(w, t)
                  /\ \A j \in Index(w) : j < t => ~IsHeadBound(w, j)
      /\ t = 0 => \A j \in Index(w) : j < i => ~IsHeadBound(w, j)
  BY RecheckTargetProperties
<1>3. RecheckForNewHead(w, s) = IF t # 0 THEN EnterStage(w, s, t) ELSE RestartIfCollected(w, s)
  BY DEF RecheckForNewHead
<1> HIDE DEF t
<1>4. CASE t # 0
  <2>1. LooselyCovered(w, s, t)
    BY <1>1, <1>2, <1>4 DEF LooselyCovered
  <2>2. Covered(w, s, t)
    BY <1>2, <1>4, <2>1, LooselyIsCovered
  <2>3. \A j \in Index(w) : IsKind(w, j, "work") => j < t
    BY <1>2, <1>4, WorkBeforeHeadBound DEF Valid, StaticRules
  <2>4. MayEnter(w, s, t)
    BY <2>2, <2>3 DEF MayEnter, Settled
  <2>5. t \in 1 .. Len_(w) + 1
    BY <1>1, <1>2, <1>4
  <2> QED  BY <1>3, <1>4, <2>4, <2>5, EnterStageStepInv
<1>5. CASE t = 0
  <2>1. Covered(w, s, i)
    BY <1>2, <1>5, LooselyIsCovered
  <2>2. MayEnter(w, s, i)
    BY <2>1 DEF MayEnter
  <2>3. StepInv(w, s)
    BY <2>1 DEF StepInv, Position
  <2>4. i \in 1 .. Len_(w) + 1
    BY <1>1
  <2>5. StepInv(w, EnterStage(w, s, i))
    BY <2>2, <2>4, EnterStageStepInv
  <2> QED  BY <1>3, <1>5, <2>3, <2>5 DEF RestartIfCollected
<1> QED  BY <1>4, <1>5

\* The reviewed patch is the patch of the current head.
LEMMA ApprovedPatchIsCurrent ==
  ASSUME NEW w, NEW s, Records(w, s), s.current_head # None
  PROVE  ApprovedPatch(s) = s.patch_id
<1> DEFINE own == {a \in s.approvals : a.head = s.current_head}
<1>1. \A a \in own : a.patch = s.patch_id
  BY DEF Records
<1>2. own # {} => (CHOOSE a \in own : TRUE) \in own
  OBVIOUS
<1> HIDE DEF own
<1>3. own # {} => (CHOOSE a \in own : TRUE).patch = s.patch_id
  BY <1>1, <1>2
<1> QED  BY <1>3 DEF ApprovedPatch, own

\* Copy m is copy s on a rebased head: no checks are left, and its approvals
\* are those of s, the head-bound ones for the new head and patch.
Rebased(w, s, m, head, patch) ==
  /\ m.status = "running" /\ m.stage_index = s.stage_index
  /\ m.current_head = head /\ m.patch_id = patch
  /\ Records(w, m) /\ Settled(w, m, s.stage_index)
  /\ LooselyCovered(w, m, s.stage_index)
  /\ m.passed_checks = {} /\ m.approval_reviewers = {}
  /\ \A b \in m.approvals :
       \E a \in s.approvals :
         /\ b.stage = a.stage /\ b.reviewers = a.reviewers
         /\ ~w.stages[a.stage].bind_head => b = a
         /\ w.stages[a.stage].bind_head => b.head = head /\ b.patch = patch
  /\ Carried(s, m) /\ SameFanout(s, m)
  /\ m.attempts = s.attempts /\ m.actions = s.actions
  /\ m.pending_work_reason = s.pending_work_reason

\* Approvals that move along with a clean rebase are for the new head and its
\* patch: m is the copy with the moved approvals, from which the task rechecks.
LEMMA KeepApprovalsProperties ==
  ASSUME NEW w, Valid(w), NEW s \in Copies(w), s.status = "running",
         s.stage_index \in Index(w), Records(w, s),
         Covered(w, s, s.stage_index), Settled(w, s, s.stage_index),
         NEW head \in Heads, NEW patch \in Patches,
         s.current_head # None, s.current_head # head, patch = ApprovedPatch(s)
  PROVE  \E m \in Copies(w) :
           /\ KeepApprovals(w, s, head, patch) = RecheckForNewHead(w, m)
           /\ Rebased(w, s, m, head, patch)
<1> DEFINE move(a) == IF a.head = s.current_head /\ a.patch = ApprovedPatch(s)
                      THEN [a EXCEPT !.head = head] ELSE a
           c == ClearPartial(s)
           none == {}
           moved == {move(a) : a \in c.approvals}
           n == [c EXCEPT !.passed_checks = none, !.approvals = moved]
           m == RecordNewHead(w, n, head, patch)
<1>1. c \in Copies(w) /\ Same(s, c) /\ c.status = s.status /\ c.stage_index = s.stage_index
      /\ Carried(s, c) /\ SameFanout(s, c)
      /\ c.attempts = s.attempts /\ c.actions = s.actions
      /\ c.pending_work_reason = s.pending_work_reason
  BY ClearPartialProperties, ClearPartialFields
<1>2. head # None
  BY NoneAssumption
<1>3. patch = s.patch_id
  BY ApprovedPatchIsCurrent
<1>4. s.approvals \subseteq Approval
  BY DEF Copies
<1>5. ASSUME NEW a \in s.approvals
      PROVE  /\ move(a) \in Approval
             /\ move(a).stage = a.stage
             /\ move(a).reviewers = a.reviewers
             /\ IF w.stages[a.stage].bind_head
                THEN move(a).head = head /\ move(a).patch = patch
                ELSE move(a).head = None /\ move(a) = a
  <2>1. a \in Approval
    BY <1>4
  <2>2. CASE w.stages[a.stage].bind_head
    <3>1. a.head = s.current_head /\ a.patch = s.patch_id
      BY <2>2 DEF Records
    <3>2. move(a) = [a EXCEPT !.head = head]
      BY <1>3, <3>1
    <3> HIDE DEF move
    <3> QED  BY <1>3, <2>1, <2>2, <3>1, <3>2 DEF Approval, Option
  <2>3. CASE ~w.stages[a.stage].bind_head
    <3>1. a.head = None
      BY <2>3 DEF Records
    <3>2. move(a) = a
      BY <3>1
    <3> HIDE DEF move
    <3> QED  BY <2>1, <2>3, <3>1, <3>2
  <2> QED  BY <2>2, <2>3
<1> HIDE DEF move
<1>6. moved = {move(a) : a \in s.approvals} /\ moved \in SUBSET Approval
  BY <1>1, <1>5 DEF Same
<1>7. none \in SUBSET PassedCheck /\ none = {}
  OBVIOUS
<1>8. KeepApprovals(w, s, head, patch) = RecheckForNewHead(w, m)
  BY DEF KeepApprovals, move
<1> HIDE DEF moved, c, none
<1>9. /\ n \in Copies(w) /\ n.status = "running" /\ n.stage_index = s.stage_index
      /\ n.branch = s.branch /\ n.approvals = moved /\ n.passed_checks = none
  BY ZenonT(60), <1>1, <1>6, <1>7 DEF Copies, Same
<1>10. /\ Carried(c, n) /\ SameFanout(c, n)
       /\ n.attempts = c.attempts /\ n.actions = c.actions
       /\ n.pending_work_reason = c.pending_work_reason
  BY <1>1, <1>6, <1>7 DEF Copies, Carried, SameFanout
<1> HIDE DEF n
<1>11. /\ m \in Copies(w) /\ m.status = "running" /\ m.stage_index = s.stage_index
       /\ m.branch = s.branch /\ m.current_head = head /\ m.patch_id = patch
       /\ m.approvals = {b \in moved : b.head = None \/ b.head = head}
  BY <1>9, RecordNewHeadProperties
<1>12. /\ Carried(n, m) /\ n.fanout_children = m.fanout_children
       /\ m.attempts = n.attempts /\ m.actions = n.actions
       /\ m.pending_work_reason = n.pending_work_reason
       /\ m.approval_reviewers = {}
       /\ m.passed_checks = {d \in n.passed_checks : d.head = head}
       /\ (\A a \in n.approvals :
             a.head = None \/ a.head = head \/ ~PicksAt(w, a.stage)) =>
            m.selected_child = n.selected_child
  BY <1>9, RecordNewHeadFields
<1> HIDE DEF m
<1>13. \A a \in s.approvals : move(a) \in m.approvals
  BY <1>5, <1>6, <1>11
<1>14. \A b \in m.approvals : \E a \in s.approvals : b = move(a)
  BY <1>6, <1>11
<1>15. Records(w, m)
  BY <1>2, <1>5, <1>11, <1>14 DEF Records
<1>16. Settled(w, m, s.stage_index)
  BY <1>5, <1>14 DEF Settled
<1>17. LooselyCovered(w, s, s.stage_index)
  BY LengthIsNat, CoveredLoosely DEF Valid
<1>18. LooselyCovered(w, m, s.stage_index)
  <2> SUFFICES ASSUME NEW j \in Index(w), j < s.stage_index,
                      IsKind(w, j, "approval"), ~w.stages[j].bind_head
               PROVE  \E b \in m.approvals : b.stage = j
    BY <1>2, <1>11 DEF LooselyCovered
  <2>1. PICK a \in s.approvals : a.stage = j
    BY <1>17 DEF LooselyCovered
  <2> QED  BY <1>5, <1>13, <2>1
<1>19. \A a \in n.approvals : a.head = None \/ a.head = head
  BY <1>5, <1>6, <1>9
<1>20. /\ Carried(s, m) /\ SameFanout(s, m)
       /\ m.attempts = s.attempts /\ m.actions = s.actions
       /\ m.pending_work_reason = s.pending_work_reason
  BY <1>1, <1>10, <1>12, <1>19 DEF Carried, SameFanout
<1>21. m.passed_checks = {}
  BY <1>7, <1>9, <1>12
<1>22. ASSUME NEW b \in m.approvals
       PROVE  \E a \in s.approvals :
                /\ b.stage = a.stage /\ b.reviewers = a.reviewers
                /\ ~w.stages[a.stage].bind_head => b = a
                /\ w.stages[a.stage].bind_head => b.head = head /\ b.patch = patch
  BY <1>5, <1>14
<1>23. Rebased(w, s, m, head, patch)
  BY <1>11, <1>12, <1>15, <1>16, <1>18, <1>20, <1>21, <1>22 DEF Rebased
<1>24. KeepApprovals(w, s, head, patch) = RecheckForNewHead(w, m)
  BY <1>8 DEF m, n, moved, c, none
<1> QED  BY <1>11, <1>23, <1>24

\* A task whose approvals move along keeps the invariant.
LEMMA KeepApprovalsStepInv ==
  ASSUME NEW w, Valid(w), NEW s \in Copies(w), s.status = "running",
         s.stage_index \in Index(w), Records(w, s),
         Covered(w, s, s.stage_index), Settled(w, s, s.stage_index),
         NEW head \in Heads, NEW patch \in Patches,
         s.current_head # None, s.current_head # head, patch = ApprovedPatch(s)
  PROVE  StepInv(w, KeepApprovals(w, s, head, patch))
<1>1. PICK m \in Copies(w) :
        /\ KeepApprovals(w, s, head, patch) = RecheckForNewHead(w, m)
        /\ Rebased(w, s, m, head, patch)
  BY KeepApprovalsProperties
<1> QED  BY <1>1, RecheckForNewHeadStepInv DEF Rebased

\* A commit of the task holder: everything bound to the old head is void.
LEMMA NewHeadStepInv ==
  ASSUME NEW w, Valid(w), NEW s \in Copies(w), s.status = "running",
         s.stage_index \in Index(w), Records(w, s), Covered(w, s, s.stage_index),
         NEW head \in Heads, NEW patch \in Patches, s.current_head # head
  PROVE  StepInv(w, RecheckForNewHead(w, RecordNewHead(w, s, head, patch)))
<1> DEFINE n == RecordNewHead(w, s, head, patch)
<1>1. /\ n \in Copies(w) /\ n.status = "running" /\ n.stage_index = s.stage_index
  BY RecordNewHeadProperties
<1>2. LooselyCovered(w, s, s.stage_index)
  BY LengthIsNat, CoveredLoosely DEF Valid
<1>3. Records(w, n) /\ Settled(w, n, s.stage_index) /\ LooselyCovered(w, n, s.stage_index)
  BY <1>2, FreshHead
<1> HIDE DEF n
<1>4. StepInv(w, RecheckForNewHead(w, n))
  BY <1>1, <1>3, RecheckForNewHeadStepInv
<1> QED  BY <1>4 DEF n

\* A rebase of the branch, clean or not.
LEMMA MainAdvancedStepInv ==
  ASSUME NEW w, Valid(w), NEW s, StepInv(w, s), s.status = "running",
         NEW head \in Heads, NEW patch \in Patches, NEW conflict \in BOOLEAN
  PROVE  StepInv(w, MainAdvanced(w, s, head, patch, conflict))
<1> DEFINE i == s.stage_index
           n == IF conflict THEN InvalidateHeadBound(w, s)
                ELSE RecordNewHead(w, s, head, patch)
           work == PreviousWork(w, i)
<1>1. Len_(w) \in Nat /\ Index(w) = 1 .. Len_(w)
  BY LengthIsNat DEF Valid
<1>2. /\ s \in Copies(w) /\ i \in Index(w) /\ Records(w, s)
      /\ Covered(w, s, i) /\ Settled(w, s, i)
  BY DEF StepInv, Position
<1>3. CASE ~s.branch \/ (~conflict /\ s.current_head = head)
  BY <1>3 DEF MainAdvanced
<1>4. CASE ~(~s.branch \/ (~conflict /\ s.current_head = head))
  <2>1. s.current_head # None
    BY <1>2, <1>4 DEF Records
  <2>2. ~conflict => StepInv(w, RecheckForNewHead(w, RecordNewHead(w, s, head, patch)))
    BY <1>2, <1>4, NewHeadStepInv
  <2>3. ~conflict /\ patch = ApprovedPatch(s) => StepInv(w, KeepApprovals(w, s, head, patch))
    BY <1>2, <1>4, <2>1, KeepApprovalsStepInv
  <2>4. n \in Copies(w) /\ n.status = "running" /\ Records(w, n)
        /\ \A k : LooselyCovered(w, s, k) => LooselyCovered(w, n, k)
    <3>1. CASE conflict
      <4>1. n \in Copies(w) /\ Frame(s, n)
            /\ n.approvals = {a \in s.approvals : a.head = None \/ a.head = s.current_head}
        BY <1>2, <3>1, InvalidateHeadBoundProperties
      <4> HIDE DEF n
      <4>2. n.approvals = s.approvals
        BY <1>2, <4>1 DEF Records
      <4>3. Records(w, n)
        BY <1>2, <4>1, <4>2 DEF Records, Frame
      <4>4. \A k : LooselyCovered(w, s, k) => LooselyCovered(w, n, k)
        BY <4>1, <4>2 DEF LooselyCovered, Frame
      <4> QED  BY <4>1, <4>3, <4>4 DEF Frame
    <3>2. CASE ~conflict
      <4>1. n = RecordNewHead(w, s, head, patch) /\ s.current_head # head
        BY <1>4, <3>2
      <4> HIDE DEF n
      <4>2. n \in Copies(w) /\ n.status = "running"
        BY <1>2, <4>1, RecordNewHeadProperties
      <4>3. Records(w, n) /\ \A k : LooselyCovered(w, s, k) => LooselyCovered(w, n, k)
        BY <1>2, <4>1, FreshHead
      <4> QED  BY <4>2, <4>3
    <3> QED  BY <3>1, <3>2
  <2>5. MainAdvanced(w, s, head, patch, conflict) =
          IF KindAt(w, i) \in {"work", "submit"} THEN
            IF conflict THEN s ELSE RecheckForNewHead(w, RecordNewHead(w, s, head, patch))
          ELSE IF ~conflict /\ patch = ApprovedPatch(s) THEN KeepApprovals(w, s, head, patch)
          ELSE IF work # 0 THEN ReturnToWork(w, n, work) ELSE FailTask(n, i)
    BY <1>4, <2>1 DEF MainAdvanced
  <2> HIDE DEF n
  <2>6. StepInv(w, FailTask(n, i))
    BY <1>1, <1>2, <2>4, FailTaskStepInv
  <2>7. work # 0 => StepInv(w, ReturnToWork(w, n, work))
    <3> SUFFICES ASSUME work # 0 PROVE StepInv(w, ReturnToWork(w, n, work))
      OBVIOUS
    <3>1. work \in Index(w) /\ work < i /\ IsKind(w, work, "work")
      BY <1>2, PreviousWorkProperties
    <3> HIDE DEF work
    <3>2. LooselyCovered(w, s, work)
      BY <1>1, <1>2, <3>1, CoveredLoosely
    <3> QED  BY <2>4, <3>1, <3>2, ReturnToWorkStepInv
  <2> HIDE DEF work
  <2> QED  BY <2>2, <2>3, <2>5, <2>6, <2>7
<1> QED  BY <1>3, <1>4

\* A head change that is applied keeps the invariant.
LEMMA ApplyHeadChangeStepInv ==
  ASSUME NEW w, Valid(w), NEW s, StepInv(w, s), NEW c \in HeadChange
  PROVE  StepInv(w, ApplyHeadChange(w, s, c))
<1>1. c.head \in Heads /\ c.patch \in Patches /\ c.conflict \in BOOLEAN
  BY DEF HeadChange
<1>2. CASE s.status # "running" \/ (c.kind # "main" /\ s.current_head = c.head)
  BY <1>2 DEF ApplyHeadChange
<1>3. CASE s.status = "running" /\ c.kind = "main"
  <2>1. StepInv(w, MainAdvanced(w, s, c.head, c.patch, c.conflict))
    BY <1>1, <1>3, MainAdvancedStepInv
  <2> QED  BY <1>3, <2>1 DEF ApplyHeadChange
<1>4. CASE s.status = "running" /\ c.kind # "main" /\ s.current_head # c.head
  <2>1. /\ s \in Copies(w) /\ s.stage_index \in Index(w) /\ Records(w, s)
        /\ Covered(w, s, s.stage_index)
    BY <1>4 DEF StepInv, Position
  <2>2. StepInv(w, RecheckForNewHead(w, RecordNewHead(w, s, c.head, c.patch)))
    BY <1>1, <1>4, <2>1, NewHeadStepInv
  <2> QED  BY <1>4, <2>2 DEF ApplyHeadChange
<1> QED  BY <1>2, <1>3, <1>4

\* StepInv depends neither on the actions nor on the pending head changes.
LEMMA OutputsStepInv ==
  ASSUME NEW w, NEW s, StepInv(w, s), NEW n \in Copies(w), Same(s, n),
         n.status = s.status, n.stage_index = s.stage_index
  PROVE  StepInv(w, n)
<1>1. /\ Records(w, s) => Records(w, n)
      /\ \A i : Covered(w, s, i) => Covered(w, n, i)
      /\ \A i : Settled(w, s, i) => Settled(w, n, i)
  BY Transfer
<1> QED  BY <1>1 DEF StepInv, Position

\* The actions of a step are no part of the invariant.
LEMMA SetActionsStepInv ==
  ASSUME NEW w, NEW s, StepInv(w, s), NEW A \in SUBSET Action
  PROVE  StepInv(w, [s EXCEPT !.actions = A])
<1> DEFINE n == [s EXCEPT !.actions = A]
<1>1. n \in Copies(w) /\ Same(s, n) /\ n.status = s.status /\ n.stage_index = s.stage_index
  BY DEF StepInv, Copies, Same
<1> HIDE DEF n
<1>2. StepInv(w, n)
  BY <1>1, OutputsStepInv
<1> QED  BY <1>2 DEF n

\* Nor are the pending head changes.
LEMMA SetPendingStepInv ==
  ASSUME NEW w, NEW s, StepInv(w, s), NEW q \in Seq(HeadChange)
  PROVE  StepInv(w, [s EXCEPT !.pending_head_changes = q])
<1> DEFINE n == [s EXCEPT !.pending_head_changes = q]
<1>1. n \in Copies(w) /\ Same(s, n) /\ n.status = s.status /\ n.stage_index = s.stage_index
  BY DEF StepInv, Copies, Same
<1> HIDE DEF n
<1>2. StepInv(w, n)
  BY <1>1, OutputsStepInv
<1> QED  BY <1>2 DEF n

\* One turn of the loop of merge_failed keeps the invariant.
LEMMA ApplyPendingStepInv ==
  ASSUME NEW w, Valid(w), NEW s, StepInv(w, s), NEW c \in HeadChange
  PROVE  StepInv(w, ApplyPending(w, s, c))
<1> DEFINE q == [s EXCEPT !.actions = {}]
           n == ApplyHeadChange(w, q, c)
<1>1. StepInv(w, q)
  BY SetActionsStepInv
<1> HIDE DEF q
<1>2. StepInv(w, n)
  BY <1>1, ApplyHeadChangeStepInv
<1>3. ApplyPending(w, s, c) = IF n.actions = {} THEN [n EXCEPT !.actions = s.actions] ELSE n
  BY DEF ApplyPending, n, q
<1> HIDE DEF n
<1>4. s.actions \in SUBSET Action
  BY DEF StepInv, Copies
<1>5. StepInv(w, [n EXCEPT !.actions = s.actions])
  BY <1>2, <1>4, SetActionsStepInv
<1> QED  BY <1>2, <1>3, <1>5

\* The recursion that defines Drained has a solution, so Drained satisfies it.
LEMMA DrainedRecursion ==
  ASSUME NEW w, NEW s
  PROVE  /\ Drained(w, s)[0] = [s EXCEPT !.pending_head_changes = <<>>]
         /\ \A k \in Nat :
              Drained(w, s)[k + 1] =
                ApplyPending(w, Drained(w, s)[k], s.pending_head_changes[k + 1])
<1> DEFINE base == [s EXCEPT !.pending_head_changes = <<>>]
           next(v, k) == ApplyPending(w, v, s.pending_head_changes[k])
           Body(h, k) == IF k = 0 THEN base ELSE next(h[k - 1], k)
           Part(h, n) == h = [k \in 0 .. n |-> Body(h, k)]
<1>0. Drained(w, s) = CHOOSE f : f = [k \in Nat |-> Body(f, k)]
  BY DEF Drained
<1> HIDE DEF base, next
<1>1. ASSUME NEW n \in Nat, NEW m \in Nat, NEW h, NEW g, Part(h, n), Part(g, m),
             NEW k \in Nat, k <= n, k <= m
      PROVE  h[k] = g[k]
  <2> DEFINE D == {j \in Nat : j <= n /\ j <= m /\ h[j] # g[j]}
  <2> SUFFICES ASSUME D # {} PROVE FALSE
    BY <1>1
  <2>1. PICK j \in D : \A i \in D : j <= i
    <3>1. D \in SUBSET Nat
      OBVIOUS
    <3> HIDE DEF D
    <3> QED  BY <3>1, LeastElement
  <2>2. h[j] = Body(h, j) /\ g[j] = Body(g, j)
    <3>1. j \in 0 .. n /\ j \in 0 .. m
      BY <2>1
    <3> QED  BY <1>1, <3>1
  <2>3. j # 0
    BY <2>1, <2>2
  <2>4. j - 1 \in Nat /\ j - 1 <= n /\ j - 1 <= m /\ ~(j <= j - 1)
    BY <2>1, <2>3
  <2>5. h[j - 1] = g[j - 1]
    BY <2>1, <2>4
  <2> QED  BY <2>1, <2>2, <2>3, <2>5
<1>2. ASSUME NEW n \in Nat
      PROVE  \E h : Part(h, n)
  <2> DEFINE D == {j \in Nat : ~ \E h : Part(h, j)}
  <2> SUFFICES ASSUME D # {} PROVE FALSE
    OBVIOUS
  <2>1. PICK j \in D : \A i \in D : j <= i
    <3>1. D \in SUBSET Nat
      OBVIOUS
    <3> HIDE DEF D
    <3> QED  BY <3>1, LeastElement
  <2>2. CASE j = 0
    <3> DEFINE g == [k \in 0 .. 0 |-> base]
    <3>1. \A k \in 0 .. 0 : Body(g, k) = base
      OBVIOUS
    <3>2. Part(g, 0)
      BY <3>1
    <3> QED  BY <2>1, <2>2, <3>2
  <2>3. CASE j # 0
    <3>1. j - 1 \in Nat /\ ~(j <= j - 1)
      BY <2>1, <2>3
    <3>2. PICK h : Part(h, j - 1)
      BY <2>1, <3>1
    <3> DEFINE g == [k \in 0 .. j |-> IF k = j THEN next(h[j - 1], j) ELSE h[k]]
    <3>3. ASSUME NEW k \in 0 .. j
          PROVE  g[k] = Body(g, k)
      <4>1. CASE k = j
        BY <2>3, <3>1, <4>1
      <4>2. CASE k # j
        <5>1. k \in 0 .. (j - 1) /\ g[k] = h[k]
          BY <2>1, <4>2
        <5>2. h[k] = Body(h, k)
          BY <3>2, <5>1
        <5>3. k # 0 => k - 1 \in 0 .. j /\ k - 1 # j
          BY <2>1, <5>1
        <5>4. k # 0 => g[k - 1] = h[k - 1]
          BY <5>3
        <5> HIDE DEF g
        <5> QED  BY <5>1, <5>2, <5>4
      <4> QED  BY <4>1, <4>2
    <3>4. Part(g, j)
      <4>1. g = [k \in 0 .. j |-> g[k]]
        OBVIOUS
      <4> HIDE DEF g
      <4> QED  BY <3>3, <4>1
    <3> QED  BY <2>1, <3>4
  <2> QED  BY <2>2, <2>3
<1> DEFINE part(n) == CHOOSE h : Part(h, n)
           F == [k \in Nat |-> part(k)[k]]
<1>3. \A n \in Nat : Part(part(n), n)
  BY <1>2
<1> HIDE DEF part
<1>4. ASSUME NEW k \in Nat
      PROVE  F[k] = Body(F, k)
  <2>1. F[k] = Body(part(k), k)
    <3>1. part(k)[k] = Body(part(k), k)
      <4>1. k \in 0 .. k
        OBVIOUS
      <4> QED  BY <1>3, <4>1
    <3> QED  BY <3>1
  <2>2. k # 0 => F[k - 1] = part(k)[k - 1]
    <3> SUFFICES ASSUME k # 0 PROVE F[k - 1] = part(k)[k - 1]
      OBVIOUS
    <3>1. k - 1 \in Nat /\ k - 1 <= k /\ k - 1 <= k - 1
      OBVIOUS
    <3>2. F[k - 1] = part(k - 1)[k - 1]
      BY <3>1
    <3>3. Part(part(k - 1), k - 1) /\ Part(part(k), k)
      BY <1>3, <3>1
    <3> HIDE DEF F, Part
    <3>4. part(k - 1)[k - 1] = part(k)[k - 1]
      BY <1>1, <3>1, <3>3
    <3> QED  BY <3>2, <3>4
  <2> HIDE DEF F
  <2> QED  BY <2>1, <2>2
<1>5. F = [k \in Nat |-> Body(F, k)]
  <2>1. F = [k \in Nat |-> F[k]]
    OBVIOUS
  <2> HIDE DEF F
  <2> QED  BY <1>4, <2>1
<1> HIDE DEF F
<1> DEFINE d == Drained(w, s)
<1>6. d = [k \in Nat |-> Body(d, k)]
  BY <1>0, <1>5
<1> HIDE DEF d
<1>7. d[0] = base
  BY <1>6
<1>8. ASSUME NEW k \in Nat PROVE d[k + 1] = next(d[k], k + 1)
  <2>1. k + 1 \in Nat /\ k + 1 # 0 /\ (k + 1) - 1 = k
    OBVIOUS
  <2>2. d[k + 1] = Body(d, k + 1)
    BY <1>6, <2>1
  <2> QED  BY <2>1, <2>2
<1> QED  BY <1>7, <1>8 DEF d, base, next

\* However many head changes were recorded, applying them all is never refused.
LEMMA DrainedStepInv ==
  ASSUME NEW w, Valid(w), NEW s, StepInv(w, s)
  PROVE  StepInv(w, Drained(w, s)[Len(s.pending_head_changes)])
<1> DEFINE q == s.pending_head_changes
           d == Drained(w, s)
           D == {k \in Nat : k <= Len(q) /\ ~StepInv(w, d[k])}
<1>1. q \in Seq(HeadChange) /\ Len(q) \in Nat
  BY DEF StepInv, Copies
<1>2. /\ d[0] = [s EXCEPT !.pending_head_changes = <<>>]
      /\ \A k \in Nat : d[k + 1] = ApplyPending(w, d[k], q[k + 1])
  BY DrainedRecursion
<1> HIDE DEF d
<1>3. StepInv(w, d[0])
  <2> DEFINE empty == <<>>
  <2>1. empty \in Seq(HeadChange) /\ d[0] = [s EXCEPT !.pending_head_changes = empty]
    BY <1>2
  <2> HIDE DEF empty
  <2>2. StepInv(w, [s EXCEPT !.pending_head_changes = empty])
    BY <2>1, SetPendingStepInv
  <2> QED  BY <2>1, <2>2
<1>4. D = {}
  <2> SUFFICES ASSUME D # {} PROVE FALSE
    OBVIOUS
  <2>1. PICK k \in D : \A j \in D : k <= j
    <3>1. D \in SUBSET Nat
      OBVIOUS
    <3> HIDE DEF D
    <3> QED  BY <3>1, LeastElement
  <2>2. k # 0
    BY <1>3, <2>1
  <2>3. k - 1 \in Nat /\ k - 1 <= Len(q) /\ ~(k <= k - 1) /\ (k - 1) + 1 = k
    BY <1>1, <2>1, <2>2
  <2>4. StepInv(w, d[k - 1])
    BY <2>1, <2>3
  <2>5. q[k] \in HeadChange
    BY <1>1, <2>1, <2>2
  <2>6. d[k] = ApplyPending(w, d[k - 1], q[k])
    BY <1>2, <2>3
  <2>7. StepInv(w, d[k])
    BY <2>4, <2>5, <2>6, ApplyPendingStepInv
  <2> QED  BY <2>1, <2>7
<1>5. Len(q) \notin D
  BY <1>4
<1>6. StepInv(w, d[Len(q)])
  BY <1>1, <1>5
<1> QED  BY <1>6 DEF d

\* A merge stage always has something to check again.
LEMMA MergeRecheckTarget ==
  ASSUME NEW w, Valid(w), NEW i \in Index(w), IsKind(w, i, "merge")
  PROVE  RecheckTarget(w, i) # 0
<1>1. PICK j \in Index(w) : j < i /\ IsKind(w, j, "command")
  BY DEF Valid, StaticRules, MergeRules
<1>2. IsHeadBound(w, j)
  BY <1>1 DEF IsHeadBound
<1> QED  BY <1>1, <1>2, RecheckTargetProperties

\* A merge that failed is always followed by a stage the task can be in.
LEMMA MergeFailedStepInv ==
  ASSUME NEW w, Valid(w), NEW s, StepInv(w, s)
  PROVE  StepInv(w, MergeFailedState(w, s))
<1> DEFINE n == Drained(w, s)[Len(s.pending_head_changes)]
           t == RecheckTarget(w, n.stage_index)
<1>1. Len_(w) \in Nat /\ Index(w) = 1 .. Len_(w)
  BY LengthIsNat DEF Valid
<1>2. StepInv(w, n)
  BY DrainedStepInv
<1>3. MergeFailedState(w, s) =
        IF ~MergeInFlight(w, n) THEN n ELSE IF t = 0 THEN Refused(n) ELSE EnterStage(w, n, t)
  BY DEF MergeFailedState
<1> HIDE DEF n
<1>4. CASE MergeInFlight(w, n)
  <2>1. /\ n.status = "running" /\ n.stage_index \in Index(w) /\ n \in Copies(w)
        /\ Records(w, n) /\ Covered(w, n, n.stage_index)
        /\ IsKind(w, n.stage_index, "merge")
    BY <1>2, <1>4 DEF MergeInFlight, InStage, StepInv, Position
  <2>2. t # 0
    BY <2>1, MergeRecheckTarget
  <2>3. /\ t \in Index(w) /\ t <= n.stage_index /\ IsHeadBound(w, t)
        /\ \A j \in Index(w) : j < t => ~IsHeadBound(w, j)
    BY <2>1, <2>2, RecheckTargetProperties
  <2> HIDE DEF t
  <2>4. LooselyCovered(w, n, t)
    BY <1>1, <2>1, <2>3, CoveredLoosely
  <2>5. Covered(w, n, t)
    BY <2>3, <2>4, LooselyIsCovered
  <2>6. \A j \in Index(w) : IsKind(w, j, "work") => j < t
    BY <2>3, WorkBeforeHeadBound DEF Valid, StaticRules
  <2>7. MayEnter(w, n, t)
    BY <2>1, <2>5, <2>6 DEF MayEnter, Settled
  <2>8. t \in 1 .. Len_(w) + 1
    BY <1>1, <2>3
  <2> QED  BY <1>3, <1>4, <2>2, <2>7, <2>8, EnterStageStepInv
<1>5. CASE ~MergeInFlight(w, n)
  BY <1>2, <1>3, <1>5
<1> QED  BY <1>4, <1>5

\* A stage whose result is recorded may be left for the next one.
LEMMA AdvanceMayEnter ==
  ASSUME NEW w, Valid(w), NEW n \in Copies(w), n.status = "running", Records(w, n),
         NEW i \in Index(w), Covered(w, n, i), Settled(w, n, i),
         IsKind(w, i, "command") => CheckPassed(n, i),
         IsKind(w, i, "approval") => ApprovalForStage(w, n, i),
         IsBranchWork(w, i) => n.current_head # None
  PROVE  MayEnter(w, n, i + 1)
<1>1. Index(w) \subseteq Nat
  BY LengthIsNat DEF Valid
<1>2. \A j \in Index(w) : j < i + 1 => j < i \/ j = i
  BY <1>1
<1>3. Covered(w, n, i + 1)
  BY <1>2 DEF Covered
<1>4. Settled(w, n, i + 1)
  BY <1>1 DEF Settled
<1> QED  BY <1>3, <1>4 DEF MayEnter

\* A copy that agrees with s and whose stage is neither check, approval nor
\* branch work may go on.
LEMMA AdvanceStepInv ==
  ASSUME NEW w, Valid(w), NEW s, StepInv(w, s), s.status = "running",
         ~IsKind(w, s.stage_index, "command"), ~IsKind(w, s.stage_index, "approval"),
         ~IsBranchWork(w, s.stage_index),
         NEW n \in Copies(w), Same(s, n), n.status = "running"
  PROVE  StepInv(w, EnterStage(w, n, s.stage_index + 1))
<1> DEFINE i == s.stage_index
<1>1. Len_(w) \in Nat /\ Index(w) = 1 .. Len_(w)
  BY LengthIsNat DEF Valid
<1>2. i \in Index(w) /\ Records(w, s) /\ Covered(w, s, i) /\ Settled(w, s, i)
  BY DEF StepInv, Position
<1>3. Records(w, n) /\ Covered(w, n, i) /\ Settled(w, n, i)
  BY <1>2, Transfer
<1>4. MayEnter(w, n, i + 1)
  BY <1>2, <1>3, AdvanceMayEnter
<1>5. i + 1 \in 1 .. Len_(w) + 1
  BY <1>1, <1>2
<1> QED  BY <1>4, <1>5, EnterStageStepInv

\* A result or a plan moves the task to a stage it may enter.
LEMMA OtherProductStepInv ==
  ASSUME NEW w, Valid(w), NEW s, StepInv(w, s), InStage(w, s, "work"),
         ~IsBranchWork(w, s.stage_index)
  PROVE  StepInv(w, OtherProduct(w, s))
<1> DEFINE output == w.stages[s.stage_index].output
           c == IF output = "plan" /\ FanoutAtOrAfter(w, s.stage_index)
                THEN ClearFanout(s) ELSE s
           n == [c EXCEPT !.work_product = output]
<1>1. s \in Copies(w) /\ s.status = "running" /\ IsKind(w, s.stage_index, "work")
  BY DEF StepInv, InStage
<1>2. output \in WorkOutput
  BY <1>1, StageType DEF IsKind, Stages
<1>3. ClearFanout(s) \in Copies(w) /\ Same(s, ClearFanout(s)) /\ ClearFanout(s).status = s.status
  BY ZenonT(60), <1>1 DEF ClearFanout, Copies, Option, Same
<1>4. c \in Copies(w) /\ Same(s, c) /\ c.status = "running"
  BY <1>1, <1>3 DEF Same
<1>5. OtherProduct(w, s) = EnterStage(w, n, s.stage_index + 1)
  BY DEF OtherProduct
<1> HIDE DEF output, c
<1>6. n \in Copies(w) /\ Same(c, n) /\ n.status = "running"
  BY <1>2, <1>4 DEF Copies, Same
<1> HIDE DEF n
<1>7. Same(s, n)
  BY <1>4, <1>6 DEF Same
<1> QED  BY <1>1, <1>5, <1>6, <1>7, AdvanceStepInv DEF IsKind

\* So does a submission.
LEMMA ChangeSubmittedStepInv ==
  ASSUME NEW w, Valid(w), NEW s, StepInv(w, s), InStage(w, s, "submit")
  PROVE  StepInv(w, ChangeSubmitted(w, s))
<1> DEFINE given == w.stages[s.stage_index].returns_change
           n == [s EXCEPT !.change_id = given]
<1>1. s \in Copies(w) /\ s.status = "running" /\ IsKind(w, s.stage_index, "submit")
  BY DEF StepInv, InStage
<1>2. given \in BOOLEAN
  BY <1>1, StageType DEF IsKind, Stages
<1>3. ChangeSubmitted(w, s) = EnterStage(w, n, s.stage_index + 1)
  BY DEF ChangeSubmitted
<1> HIDE DEF given
<1>4. n \in Copies(w) /\ Same(s, n) /\ n.status = "running"
  BY ZenonT(60), <1>1, <1>2 DEF Copies, Same
<1> HIDE DEF n
<1> QED  BY <1>1, <1>3, <1>4, AdvanceStepInv DEF IsKind, IsBranchWork

\* A check that passed is recorded for the head it ran on, and the next stage
\* may be entered.
LEMMA CheckSucceededMayEnter ==
  ASSUME NEW w, Valid(w), NEW s, StepInv(w, s), InStage(w, s, "command"),
         NEW head, head = s.current_head
  PROVE  LET n == [s EXCEPT !.passed_checks =
                     @ \cup {[stage |-> s.stage_index, head |-> head]}]
         IN  /\ MayEnter(w, n, s.stage_index + 1)
             /\ s.stage_index + 1 \in 1 .. Len_(w) + 1
             /\ CheckSucceeded(w, s, head) = EnterStage(w, n, s.stage_index + 1)
<1> DEFINE i == s.stage_index
           rec == [stage |-> i, head |-> head]
           checks == s.passed_checks \cup {rec}
           n == [s EXCEPT !.passed_checks = checks]
<1>1. Len_(w) \in Nat /\ Index(w) = 1 .. Len_(w)
  BY LengthIsNat DEF Valid
<1>2. /\ s \in Copies(w) /\ s.status = "running" /\ IsKind(w, i, "command")
      /\ i \in Index(w) /\ Records(w, s) /\ Covered(w, s, i) /\ Settled(w, s, i)
  BY DEF StepInv, InStage, Position
<1>3. checks \in SUBSET PassedCheck
  <2>1. s.passed_checks \in SUBSET PassedCheck /\ head \in Option(Heads) /\ i \in Nat
    BY <1>1, <1>2 DEF Copies
  <2> QED  BY <2>1 DEF PassedCheck
<1>4. CheckSucceeded(w, s, head) = EnterStage(w, n, i + 1)
  BY DEF CheckSucceeded
<1>5. s.passed_checks \subseteq checks /\ [stage |-> i, head |-> s.current_head] \in checks
  OBVIOUS
<1> HIDE DEF checks
<1>6. /\ n \in Copies(w) /\ n.status = "running" /\ n.passed_checks = checks
      /\ n.approvals = s.approvals /\ n.current_head = s.current_head
      /\ n.patch_id = s.patch_id /\ n.branch = s.branch
  BY <1>2, <1>3 DEF Copies
<1> HIDE DEF n
<1>7. Records(w, n) /\ Settled(w, n, i)
  BY <1>2, <1>6 DEF Records, Settled
<1>8. Covered(w, n, i)
  BY <1>2, <1>5, <1>6 DEF Covered, CheckPassed, ApprovalForStage
<1>9. CheckPassed(n, i)
  BY <1>5, <1>6 DEF CheckPassed
<1>10. MayEnter(w, n, i + 1)
  BY <1>2, <1>6, <1>7, <1>8, <1>9, AdvanceMayEnter DEF IsKind, IsBranchWork
<1>11. i + 1 \in 1 .. Len_(w) + 1
  BY <1>1, <1>2
<1> QED  BY <1>4, <1>10, <1>11 DEF n, checks

\* After a check that passed the task goes on.
LEMMA CheckSucceededStepInv ==
  ASSUME NEW w, Valid(w), NEW s, StepInv(w, s), InStage(w, s, "command"),
         NEW head, head = s.current_head
  PROVE  StepInv(w, CheckSucceeded(w, s, head))
<1> DEFINE i == s.stage_index + 1
           n == [s EXCEPT !.passed_checks =
                   @ \cup {[stage |-> s.stage_index, head |-> head]}]
<1>1. /\ MayEnter(w, n, i) /\ i \in 1 .. Len_(w) + 1
      /\ CheckSucceeded(w, s, head) = EnterStage(w, n, i)
  BY CheckSucceededMayEnter
<1> HIDE DEF n, i
<1> QED  BY <1>1, EnterStageStepInv

\* A new branch product: at a work stage nothing is bound to a head yet.
LEMMA BranchProductMayEnter ==
  ASSUME NEW w, Valid(w), NEW s, StepInv(w, s), s.status = "running",
         IsBranchWork(w, s.stage_index), NEW head \in Heads, NEW patch \in Patches
  PROVE  \E n \in Copies(w) :
           /\ BranchProduct(w, s, head, patch) = EnterStage(w, n, s.stage_index + 1)
           /\ MayEnter(w, n, s.stage_index + 1)
           /\ s.stage_index + 1 \in 1 .. Len_(w) + 1
           /\ \A a \in s.approvals : ~w.stages[a.stage].bind_head
           /\ n.approvals = s.approvals
           /\ n.current_head = head /\ n.patch_id = patch
           /\ n.passed_checks \subseteq s.passed_checks
           /\ \A c \in n.passed_checks : s.current_head # head => c.head = head
           /\ Carried(s, n) /\ SameFanout(s, n)
           /\ n.attempts = s.attempts /\ n.actions = s.actions
           /\ n.pending_work_reason = s.pending_work_reason
<1> DEFINE i == s.stage_index
           moved == [s EXCEPT !.current_head = head]
           d == InvalidateHeadBound(w, moved)
           c == IF s.current_head # head THEN d ELSE s
           n == [c EXCEPT !.branch = TRUE, !.current_head = head, !.patch_id = patch,
                          !.work_product = "branch"]
           checks == IF s.current_head = head THEN s.passed_checks
                     ELSE {k \in s.passed_checks : k.head = head}
<1>1. Len_(w) \in Nat /\ Index(w) = 1 .. Len_(w)
  BY LengthIsNat DEF Valid
<1>2. /\ s \in Copies(w) /\ i \in Index(w) /\ IsKind(w, i, "work") /\ Records(w, s)
      /\ Covered(w, s, i) /\ Settled(w, s, i)
  BY DEF StepInv, Position, IsBranchWork
<1>3. head # None
  BY NoneAssumption
<1>4. \A a \in s.approvals : ~w.stages[a.stage].bind_head /\ a.head = None
  <2>1. \A a \in s.approvals : ~IsBoundApproval(w, a.stage)
    BY <1>1, <1>2 DEF Settled
  <2> QED  BY <1>2, <2>1 DEF Records, IsBoundApproval
<1>5. BranchProduct(w, s, head, patch) = EnterStage(w, n, i + 1)
  BY DEF BranchProduct
<1>6. /\ moved \in Copies(w) /\ moved.status = "running"
      /\ moved.approvals = s.approvals /\ moved.current_head = head
      /\ moved.passed_checks = s.passed_checks /\ moved.attempts = s.attempts
      /\ moved.pending_work_reason = s.pending_work_reason
      /\ moved.actions = s.actions /\ Carried(s, moved) /\ SameFanout(s, moved)
  BY ZenonT(60), <1>2 DEF Copies, Option, Carried, SameFanout
<1> HIDE DEF moved
<1>7. /\ d \in Copies(w) /\ Frame(moved, d)
      /\ d.approvals = {a \in moved.approvals : a.head = None \/ a.head = moved.current_head}
  BY <1>6, InvalidateHeadBoundProperties
<1>8. /\ Carried(moved, d) /\ d.fanout_children = moved.fanout_children
      /\ d.pending_work_reason = moved.pending_work_reason
      /\ d.passed_checks = {k \in moved.passed_checks : k.head = moved.current_head}
      /\ d.selected_child = moved.selected_child
  BY <1>4, <1>6, InvalidateHeadBoundFields
<1> HIDE DEF d
<1>9. d.approvals = s.approvals
  BY <1>4, <1>6, <1>7
<1>10. /\ c \in Copies(w) /\ c.status = "running" /\ c.approvals = s.approvals
       /\ c.passed_checks = checks /\ Carried(s, c) /\ SameFanout(s, c)
       /\ c.attempts = s.attempts /\ c.actions = s.actions
       /\ c.pending_work_reason = s.pending_work_reason
  <2>1. CASE s.current_head = head
    BY <1>2, <2>1 DEF Carried, SameFanout
  <2>2. CASE s.current_head # head
    <3>1. d.passed_checks = checks
      BY <1>6, <1>8, <2>2
    <3> HIDE DEF checks
    <3> QED  BY <1>6, <1>7, <1>8, <1>9, <2>2, <3>1 DEF Carried, SameFanout, Frame
  <2> QED  BY <2>1, <2>2
<1> HIDE DEF c, checks
<1>11. /\ n \in Copies(w) /\ n.status = "running" /\ n.approvals = c.approvals
       /\ n.current_head = head /\ n.patch_id = patch
       /\ n.passed_checks = c.passed_checks /\ Carried(c, n) /\ SameFanout(c, n)
       /\ n.attempts = c.attempts /\ n.actions = c.actions
       /\ n.pending_work_reason = c.pending_work_reason
  BY ZenonT(60), <1>10 DEF Copies, Option, WorkOutput, Carried, SameFanout
<1> HIDE DEF n
<1>12. Records(w, n) /\ Settled(w, n, i)
  BY <1>2, <1>3, <1>4, <1>10, <1>11 DEF Records, Settled, IsBoundApproval
<1>13. Covered(w, n, i)
  <2>1. LooselyCovered(w, s, i)
    BY <1>1, <1>2, CoveredLoosely
  <2>2. LooselyCovered(w, n, i)
    BY <1>3, <1>10, <1>11, <2>1 DEF LooselyCovered
  <2>3. ASSUME NEW j \in Index(w), IsHeadBound(w, j) PROVE ~(j < i)
    <3>1. i < j
      BY <1>2, <2>3, WorkBeforeHeadBound DEF Valid, StaticRules
    <3> QED  BY <1>1, <1>2, <3>1
  <2> QED  BY <2>2, <2>3, LooselyIsCovered
<1>14. MayEnter(w, n, i + 1)
  BY <1>2, <1>3, <1>11, <1>12, <1>13, AdvanceMayEnter DEF IsKind
<1>15. i + 1 \in 1 .. Len_(w) + 1
  BY <1>1, <1>2
<1>16. /\ n.approvals = s.approvals /\ n.passed_checks = checks
       /\ Carried(s, n) /\ SameFanout(s, n)
       /\ n.attempts = s.attempts /\ n.actions = s.actions
       /\ n.pending_work_reason = s.pending_work_reason
  BY <1>10, <1>11 DEF Carried, SameFanout
<1>17. BranchProduct(w, s, head, patch) = EnterStage(w, n, i + 1)
  BY <1>5 DEF n, c, d, moved
<1>18. /\ checks \subseteq s.passed_checks
       /\ \A k \in checks : s.current_head # head => k.head = head
  BY DEF checks
<1> HIDE DEF checks
<1> QED  BY <1>4, <1>11, <1>14, <1>15, <1>16, <1>17, <1>18

\* After a branch product the task goes on.
LEMMA BranchProductStepInv ==
  ASSUME NEW w, Valid(w), NEW s, StepInv(w, s), s.status = "running",
         IsBranchWork(w, s.stage_index), NEW head \in Heads, NEW patch \in Patches
  PROVE  StepInv(w, BranchProduct(w, s, head, patch))
<1>1. PICK n \in Copies(w) :
        /\ BranchProduct(w, s, head, patch) = EnterStage(w, n, s.stage_index + 1)
        /\ MayEnter(w, n, s.stage_index + 1)
        /\ s.stage_index + 1 \in 1 .. Len_(w) + 1
        /\ \A a \in s.approvals : ~w.stages[a.stage].bind_head
        /\ n.approvals = s.approvals
        /\ n.current_head = head /\ n.patch_id = patch
        /\ n.passed_checks \subseteq s.passed_checks
        /\ \A c \in n.passed_checks : s.current_head # head => c.head = head
        /\ Carried(s, n) /\ SameFanout(s, n) /\ n.attempts = s.attempts
        /\ n.pending_work_reason = s.pending_work_reason
  BY BranchProductMayEnter
<1>2. StepInv(w, EnterStage(w, n, s.stage_index + 1))
  BY <1>1, EnterStageStepInv
<1> QED  BY <1>1, <1>2

\* Requests and timers: the actions that outstanding_actions rebuilds.
Asks(S) == {a \in S : a.kind \in RequestKind \cup {"ScheduleTimeout"}}

\* keep_only_winner touches only the children, and asks for nothing.
LEMMA KeepOnlyWinnerProperties ==
  ASSUME NEW w, NEW s \in Copies(w), NEW winner \in Children
  PROVE  LET n == KeepOnlyWinner(s, winner)
         IN  /\ n \in Copies(w) /\ Same(s, n) /\ n.status = s.status
             /\ Carried(s, n) /\ n.attempts = s.attempts
             /\ n.pending_work_reason = s.pending_work_reason
             /\ Asks(n.actions) = Asks(s.actions)
             /\ n.fanout_children = {winner} /\ n.selected_child = winner
<1> DEFINE siblings == s.fanout_children \ {winner}
           only == {winner}
           n == [s EXCEPT !.fanout_children = only, !.selected_child = winner]
           act == [Act("CancelFanoutSiblings", 0, 0) EXCEPT !.children = siblings]
<1>1. only \in SUBSET Children /\ winner \in Option(Children)
  BY DEF Option
<1>2. siblings \in SUBSET Children
  BY DEF Copies
<1>3. KeepOnlyWinner(s, winner) = IF siblings = {} THEN n ELSE Emit(n, {act})
  BY DEF KeepOnlyWinner
<1> HIDE DEF only, siblings
<1>4. /\ n \in Copies(w) /\ Same(s, n) /\ n.status = s.status
      /\ Carried(s, n) /\ n.attempts = s.attempts /\ n.actions = s.actions
      /\ n.pending_work_reason = s.pending_work_reason
      /\ n.fanout_children = only /\ n.selected_child = winner
  BY ZenonT(60), <1>1 DEF Copies, Same, Carried
<1> HIDE DEF n
<1>5. act \in Action /\ act.kind = "CancelFanoutSiblings"
  <2>1. Act("CancelFanoutSiblings", 0, 0) \in Action
    BY ActType DEF ActionKind
  <2> QED  BY <1>2, <2>1 DEF Action, Act
<1> HIDE DEF act
<1> DEFINE e == Emit(n, {act})
<1>6. e \in Copies(w) /\ Same(n, e) /\ e.status = n.status
  BY <1>4, <1>5, EmitProperties
<1>7. /\ Carried(n, e) /\ e.attempts = n.attempts
      /\ e.pending_work_reason = n.pending_work_reason
      /\ e.fanout_children = n.fanout_children /\ e.selected_child = n.selected_child
      /\ e.actions = n.actions \cup {act}
  BY <1>4 DEF Emit, Copies, Carried
<1> HIDE DEF e
<1>8. Asks(e.actions) = Asks(n.actions)
  BY <1>5, <1>7 DEF Asks, RequestKind
<1> QED  BY <1>3, <1>4, <1>6, <1>7, <1>8 DEF Same, Carried, e, only

\* One reviewer more, but not enough of them: the vote is noted.
LEMMA GrantedPartly ==
  ASSUME NEW w, Valid(w), NEW s, StepInv(w, s), InStage(w, s, "approval"),
         NEW reviewer \in Reviewers, NEW choice \in Option(Children), NEW head,
         w.stages[s.stage_index].bind_head => s.current_head # None /\ head = s.current_head,
         Granted(w, s, reviewer, head, choice).status # "refused",
         Cardinality(Votes(s, reviewer)) < w.stages[s.stage_index].count
  PROVE  LET n == Granted(w, s, reviewer, head, choice)
         IN  /\ n \in Copies(w) /\ Same(s, n) /\ Carried(s, n) /\ SameFanout(s, n)
             /\ n.status = s.status /\ n.stage_index = s.stage_index
             /\ n.attempts = s.attempts /\ n.actions = s.actions
             /\ n.pending_work_reason = s.pending_work_reason
             /\ n.approval_reviewers = Votes(s, reviewer)
<1> DEFINE i == s.stage_index
           picks == PicksAt(w, i)
           winner == PickedWinner(s, choice)
           reviewers == Votes(s, reviewer)
           pick == IF picks THEN winner ELSE s.pending_pick
           partial == [s EXCEPT !.approval_reviewers = reviewers, !.pending_pick = pick]
<1>1. s \in Copies(w)
  BY DEF StepInv
<1>2. reviewers \in SUBSET Reviewers
  BY <1>1 DEF Copies, Votes
<1>3. Granted(w, s, reviewer, head, choice) =
        IF reviewer \in s.approval_reviewers \/ ~PickAccepted(w, s, choice) THEN Refused(s)
        ELSE partial
  BY DEF Granted
<1>4. Refused(s).status = "refused"
  BY <1>1 DEF Refused, Copies
<1>5. ~(reviewer \in s.approval_reviewers \/ ~PickAccepted(w, s, choice))
  <2>1. (reviewer \in s.approval_reviewers \/ ~PickAccepted(w, s, choice)) =>
          Granted(w, s, reviewer, head, choice) = Refused(s)
    BY <1>3
  <2> QED  BY <1>4, <2>1
<1>6. picks => winner \in Children
  BY <1>1, <1>5 DEF PickAccepted, Copies
<1>7. pick \in Option(Children)
  BY <1>1, <1>6 DEF Copies, Option
<1> HIDE DEF winner, pick, picks
<1>8. Granted(w, s, reviewer, head, choice) = partial
  BY <1>3, <1>5
<1> HIDE DEF reviewers
<1>9. /\ partial \in Copies(w) /\ Same(s, partial) /\ Carried(s, partial)
      /\ SameFanout(s, partial)
      /\ partial.status = s.status /\ partial.stage_index = s.stage_index
      /\ partial.attempts = s.attempts /\ partial.actions = s.actions
      /\ partial.pending_work_reason = s.pending_work_reason
      /\ partial.approval_reviewers = reviewers
  BY ZenonT(60), <1>1, <1>2, <1>7 DEF Copies, Same, Carried, SameFanout
<1> HIDE DEF partial
<1> QED  BY <1>8, <1>9 DEF reviewers

\* The approval that completes a stage: m is the copy with its record, from
\* which the next stage may be entered.
LEMMA GrantedMayEnter ==
  ASSUME NEW w, Valid(w), NEW s, StepInv(w, s), InStage(w, s, "approval"),
         NEW reviewer \in Reviewers, NEW choice \in Option(Children), NEW head,
         w.stages[s.stage_index].bind_head => s.current_head # None /\ head = s.current_head,
         Granted(w, s, reviewer, head, choice).status # "refused",
         ~(Cardinality(Votes(s, reviewer)) < w.stages[s.stage_index].count)
  PROVE  \E m \in Copies(w), record \in Approval :
           /\ Granted(w, s, reviewer, head, choice) = EnterStage(w, m, s.stage_index + 1)
           /\ MayEnter(w, m, s.stage_index + 1)
           /\ s.stage_index + 1 \in 1 .. Len_(w) + 1
           /\ reviewer \notin s.approval_reviewers
           /\ record.stage = s.stage_index /\ record.reviewers = Votes(s, reviewer)
           /\ ~w.stages[s.stage_index].bind_head => record.patch = None
           /\ \A a \in m.approvals :
                a # record => a \in s.approvals /\ a.stage # s.stage_index
           /\ m.current_head = s.current_head /\ m.patch_id = s.patch_id
           /\ m.passed_checks = s.passed_checks /\ Carried(s, m)
           /\ m.attempts = s.attempts /\ m.pending_work_reason = s.pending_work_reason
           /\ Asks(m.actions) = Asks(s.actions)
           /\ PicksAt(w, s.stage_index) => m.selected_child \in m.fanout_children
           /\ ~PicksAt(w, s.stage_index) => SameFanout(s, m) /\ m.actions = s.actions
<1> DEFINE i == s.stage_index
           picks == PicksAt(w, i)
           bound == w.stages[i].bind_head
           winner == PickedWinner(s, choice)
           reviewers == Votes(s, reviewer)
           record == [stage |-> i, head |-> IF bound THEN head ELSE None,
                      patch |-> IF bound THEN s.patch_id ELSE None,
                      reviewers |-> reviewers]
           appr == {a \in s.approvals : a.stage # i} \cup {record}
           noone == {}
           recorded == [s EXCEPT !.approvals = appr,
                                 !.approval_reviewers = noone, !.pending_pick = None]
           m == IF picks THEN KeepOnlyWinner(recorded, winner) ELSE recorded
<1>1. Len_(w) \in Nat /\ Index(w) = 1 .. Len_(w)
  BY LengthIsNat DEF Valid
<1>2. /\ s \in Copies(w) /\ s.status = "running" /\ IsKind(w, i, "approval")
      /\ i \in Index(w) /\ Records(w, s) /\ Covered(w, s, i) /\ Settled(w, s, i)
  BY DEF StepInv, InStage, Position
<1>3. w.stages[i].count \in Nat /\ bound \in BOOLEAN
  BY <1>2, StageType DEF Stages
<1>4. reviewers \in SUBSET Reviewers /\ Cardinality(reviewers) \in Nat
  <2>1. reviewers \in SUBSET Reviewers
    BY <1>2 DEF Copies, Votes
  <2>2. IsFiniteSet(reviewers)
    BY <2>1, ReviewersAssumption, FS_Subset
  <2> QED  BY <2>1, <2>2, FS_CardinalityType
<1>5. Granted(w, s, reviewer, head, choice) =
        IF reviewer \in s.approval_reviewers \/ ~PickAccepted(w, s, choice) THEN Refused(s)
        ELSE EnterStage(w, m, i + 1)
  BY DEF Granted
<1>6. Refused(s).status = "refused"
  BY <1>2 DEF Refused, Copies
<1>7. ~(reviewer \in s.approval_reviewers \/ ~PickAccepted(w, s, choice))
  <2>1. (reviewer \in s.approval_reviewers \/ ~PickAccepted(w, s, choice)) =>
          Granted(w, s, reviewer, head, choice) = Refused(s)
    BY <1>5
  <2> QED  BY <1>6, <2>1
<1>8. picks => winner \in Children
  BY <1>2, <1>7 DEF PickAccepted, Copies
<1> HIDE DEF winner, picks
<1>9. Cardinality(reviewers) >= w.stages[i].count
  BY <1>3, <1>4 DEF reviewers
<1> HIDE DEF reviewers
<1>10. /\ record.stage = i /\ record.reviewers = reviewers
       /\ bound => record.head = s.current_head /\ record.patch = s.patch_id
       /\ ~bound => record.head = None /\ record.patch = None
       /\ record \in Approval
  <2>1. s.current_head \in Option(Heads) /\ s.patch_id \in Option(Patches) /\ i \in Nat
    BY <1>1, <1>2 DEF Copies
  <2>2. (IF bound THEN head ELSE None) \in Option(Heads)
    BY <2>1 DEF Option
  <2>3. (IF bound THEN s.patch_id ELSE None) \in Option(Patches)
    BY <2>1 DEF Option
  <2> QED  BY <1>4, <2>1, <2>2, <2>3 DEF Approval
<1> HIDE DEF record
<1>11. /\ appr \in SUBSET Approval /\ record \in appr
       /\ \A a \in appr : a \in s.approvals \/ a = record
       /\ \A a \in s.approvals : a.stage # i => a \in appr
  BY <1>2, <1>10 DEF Copies
<1> HIDE DEF appr
<1>12. noone \in SUBSET Reviewers /\ None \in Option(Children)
  BY DEF Option
<1> HIDE DEF noone
<1>13. /\ recorded \in Copies(w) /\ recorded.status = "running"
       /\ recorded.approvals = appr /\ recorded.passed_checks = s.passed_checks
       /\ recorded.current_head = s.current_head
       /\ recorded.patch_id = s.patch_id /\ recorded.branch = s.branch
       /\ Carried(s, recorded) /\ SameFanout(s, recorded)
       /\ recorded.attempts = s.attempts /\ recorded.actions = s.actions
       /\ recorded.pending_work_reason = s.pending_work_reason
  BY ZenonT(60), <1>2, <1>11, <1>12 DEF Copies, Carried, SameFanout
<1> HIDE DEF recorded
<1>14. Records(w, recorded)
  <2>1. recorded.branch => recorded.current_head # None
    BY <1>2, <1>13 DEF Records
  <2>2. ASSUME NEW a \in recorded.approvals
        PROVE  /\ IsKind(w, a.stage, "approval")
               /\ Cardinality(a.reviewers) >= w.stages[a.stage].count
               /\ IF w.stages[a.stage].bind_head
                  THEN /\ recorded.current_head # None /\ a.head = recorded.current_head
                       /\ a.patch = recorded.patch_id
                  ELSE a.head = None
    <3>1. CASE a \in s.approvals
      BY <1>2, <1>13, <3>1 DEF Records
    <3>2. CASE a = record
      BY <1>2, <1>9, <1>10, <1>13, <3>2
    <3> QED  BY <1>11, <1>13, <3>1, <3>2
  <2> QED  BY <2>1, <2>2 DEF Records
<1>15. Covered(w, recorded, i)
  <2>1. \A j \in Index(w) : j < i => j # i
    BY <1>1, <1>2
  <2>2. \A j \in Index(w) : j < i /\ ApprovalForStage(w, s, j) => ApprovalForStage(w, recorded, j)
    BY <1>11, <1>13, <2>1 DEF ApprovalForStage
  <2>3. \A j \in Index(w) : CheckPassed(s, j) => CheckPassed(recorded, j)
    BY <1>13 DEF CheckPassed
  <2> QED  BY <1>2, <1>13, <2>2, <2>3 DEF Covered
<1>16. Settled(w, recorded, i)
  <2> SUFFICES ASSUME NEW a \in recorded.approvals, IsBoundApproval(w, a.stage),
                      NEW j \in Index(w), IsKind(w, j, "work")
               PROVE  j < i
    BY DEF Settled
  <2>1. CASE a \in s.approvals
    BY <1>2, <2>1 DEF Settled
  <2>2. CASE a = record
    <3>1. IsHeadBound(w, i)
      BY <1>10, <2>2 DEF IsBoundApproval, IsHeadBound
    <3> QED  BY <1>2, <3>1, WorkBeforeHeadBound DEF Valid, StaticRules
  <2> QED  BY <1>11, <1>13, <2>1, <2>2
<1>17. ApprovalForStage(w, recorded, i)
  BY <1>2, <1>10, <1>11, <1>13 DEF ApprovalForStage
<1>18. MayEnter(w, recorded, i + 1)
  BY <1>2, <1>13, <1>14, <1>15, <1>16, <1>17, AdvanceMayEnter DEF IsKind, IsBranchWork
<1>19. /\ m \in Copies(w) /\ Same(recorded, m) /\ m.status = "running"
       /\ Carried(recorded, m) /\ m.attempts = recorded.attempts
       /\ m.pending_work_reason = recorded.pending_work_reason
       /\ Asks(m.actions) = Asks(recorded.actions)
       /\ IF picks THEN m.fanout_children = {winner} /\ m.selected_child = winner
          ELSE SameFanout(recorded, m) /\ m.actions = recorded.actions
  <2>1. CASE picks
    <3>1. winner \in Children
      BY <1>8, <2>1
    <3>2. m = KeepOnlyWinner(recorded, winner)
      BY <2>1
    <3> HIDE DEF m
    <3> QED  BY <1>13, <2>1, <3>1, <3>2, KeepOnlyWinnerProperties
  <2>2. CASE ~picks
    BY <1>13, <2>2 DEF Same, Carried, SameFanout
  <2> QED  BY <2>1, <2>2
<1> HIDE DEF m
<1>20. MayEnter(w, m, i + 1)
  BY ZenonT(60), <1>18, <1>19, Transfer DEF MayEnter
<1>21. i + 1 \in 1 .. Len_(w) + 1
  BY <1>1, <1>2
<1>22. Granted(w, s, reviewer, head, choice) = EnterStage(w, m, i + 1)
  BY <1>5, <1>7 DEF m, recorded, record, appr, noone, reviewers, winner, picks
<1>23. /\ m.current_head = s.current_head /\ m.patch_id = s.patch_id
       /\ m.passed_checks = s.passed_checks /\ m.approvals = appr
       /\ Carried(s, m) /\ m.attempts = s.attempts
       /\ m.pending_work_reason = s.pending_work_reason
       /\ Asks(m.actions) = Asks(s.actions)
  BY <1>13, <1>19 DEF Same, Carried
<1>24. /\ picks => m.selected_child \in m.fanout_children
       /\ ~picks => SameFanout(s, m) /\ m.actions = s.actions
  BY <1>13, <1>19 DEF SameFanout
<1>25. \A a \in m.approvals : a # record => a \in s.approvals /\ a.stage # i
  BY <1>23 DEF appr
<1> HIDE DEF appr
<1> QED  BY <1>7, <1>10, <1>19, <1>20, <1>21, <1>22, <1>23, <1>24, <1>25 DEF reviewers, picks

\* An approval that is not refused: the reviewer is noted, or the record is
\* complete and the stage is left.
LEMMA GrantedStepInv ==
  ASSUME NEW w, Valid(w), NEW s, StepInv(w, s), InStage(w, s, "approval"),
         NEW reviewer \in Reviewers, NEW choice \in Option(Children), NEW head,
         w.stages[s.stage_index].bind_head => s.current_head # None /\ head = s.current_head,
         Granted(w, s, reviewer, head, choice).status # "refused"
  PROVE  StepInv(w, Granted(w, s, reviewer, head, choice))
<1> DEFINE i == s.stage_index
           n == Granted(w, s, reviewer, head, choice)
<1>1. /\ s \in Copies(w) /\ s.status = "running" /\ IsKind(w, i, "approval")
      /\ i \in Index(w) /\ Records(w, s) /\ Covered(w, s, i) /\ Settled(w, s, i)
  BY DEF StepInv, InStage, Position
<1>2. CASE Cardinality(Votes(s, reviewer)) < w.stages[i].count
  <2>1. /\ n \in Copies(w) /\ Same(s, n) /\ n.status = s.status
        /\ n.stage_index = s.stage_index
    BY <1>2, GrantedPartly
  <2> HIDE DEF n
  <2> QED  BY <2>1, OutputsStepInv DEF n
<1>3. CASE ~(Cardinality(Votes(s, reviewer)) < w.stages[i].count)
  <2>1. PICK m : n = EnterStage(w, m, i + 1) /\ MayEnter(w, m, i + 1) /\ i + 1 \in 1 .. Len_(w) + 1
    BY <1>3, GrantedMayEnter
  <2> HIDE DEF i
  <2> QED  BY <2>1, EnterStageStepInv
<1> QED  BY <1>2, <1>3

\* A joined fanout that is not refused is left for the next stage.
LEMMA ChildrenJoinedStepInv ==
  ASSUME NEW w, Valid(w), NEW s, StepInv(w, s), InStage(w, s, "fanout"),
         NEW children \in SUBSET Children, NEW selected \in Option(Children),
         ChildrenJoined(w, s, children, selected).status # "refused"
  PROVE  StepInv(w, ChildrenJoined(w, s, children, selected))
<1> DEFINE n == [s EXCEPT !.fanout_children = children, !.selected_child = None]
           fits == IF w.stages[s.stage_index].join = "first"
                   THEN selected \in children ELSE selected = None
           m == IF selected # None THEN KeepOnlyWinner(n, selected) ELSE n
<1>1. s \in Copies(w) /\ s.status = "running" /\ IsKind(w, s.stage_index, "fanout")
  BY DEF StepInv, InStage
<1>2. ChildrenJoined(w, s, children, selected) =
        IF children = {} \/ ~fits THEN Refused(s) ELSE EnterStage(w, m, s.stage_index + 1)
  BY DEF ChildrenJoined
<1>3. Refused(s).status = "refused"
  BY <1>1 DEF Refused, Copies
<1> HIDE DEF fits, m
<1>4. ChildrenJoined(w, s, children, selected) = EnterStage(w, m, s.stage_index + 1)
  BY <1>2, <1>3
<1>5. n \in Copies(w) /\ Same(s, n) /\ n.status = "running"
  BY ZenonT(60), <1>1 DEF Copies, Same, Option
<1> HIDE DEF n
<1>6. m \in Copies(w) /\ Same(n, m) /\ m.status = "running"
  <2>1. CASE selected # None
    <3>1. selected \in Children
      BY <2>1 DEF Option
    <3> QED  BY <1>5, <2>1, <3>1, KeepOnlyWinnerProperties DEF m
  <2>2. CASE selected = None
    BY <1>5, <2>2 DEF Same, m
  <2> QED  BY <2>1, <2>2
<1>7. Same(s, m)
  BY <1>5, <1>6 DEF Same
<1> QED  BY <1>1, <1>4, <1>6, <1>7, AdvanceStepInv DEF IsKind, IsBranchWork

\* The merge gate is still open when the merge completes: it is recorded.
LEMMA MergedStepInv ==
  ASSUME NEW w, Valid(w), NEW s, StepInv(w, s), MergeInFlight(w, s)
  PROVE  StepInv(w, Merged(w, s))
<1> DEFINE i == s.stage_index
           empty == <<>>
           n == [s EXCEPT !.merge_commit = TRUE, !.pending_head_changes = empty,
                          !.status = "done"]
<1>1. /\ s \in Copies(w) /\ IsKind(w, i, "merge") /\ i \in Index(w)
      /\ Records(w, s) /\ Covered(w, s, i) /\ Settled(w, s, i)
  BY DEF StepInv, MergeInFlight, InStage, Position
<1>2. Merged(w, s) = Emit(n, {Act("TaskDone", 0, 0)})
  BY <1>1, GateOpen DEF Merged
<1>3. empty \in Seq(HeadChange)
  OBVIOUS
<1> HIDE DEF empty
<1>4. n \in Copies(w) /\ Same(s, n) /\ n.status = "done" /\ n.stage_index = i
  BY ZenonT(60), <1>1, <1>3 DEF Copies, Same, Status
<1> HIDE DEF n
<1>5. Records(w, n) /\ Covered(w, n, i) /\ Settled(w, n, i)
  BY <1>1, <1>4, Transfer
<1>6. StepInv(w, n)
  BY <1>1, <1>4, <1>5 DEF StepInv, Position
<1>7. {Act("TaskDone", 0, 0)} \in SUBSET Action
  BY ActType DEF ActionKind
<1> QED  BY <1>2, <1>6, <1>7, EmitStepInv

\* A head change is applied, or recorded while the merge is in flight.
LEMMA HeadChangedStepInv ==
  ASSUME NEW w, Valid(w), NEW s, StepInv(w, s), NEW c \in HeadChange
  PROVE  StepInv(w, HeadChanged(w, s, c))
<1> DEFINE empty == <<>>
           longer == Append(s.pending_head_changes, c)
<1>1. s.pending_head_changes \in Seq(HeadChange)
  BY DEF StepInv, Copies
<1>2. empty \in Seq(HeadChange) /\ longer \in Seq(HeadChange)
  BY <1>1
<1>3. StepInv(w, ApplyHeadChange(w, s, c))
  BY ApplyHeadChangeStepInv
<1>4. HeadChanged(w, s, c) =
        IF ~MergeInFlight(w, s) THEN ApplyHeadChange(w, s, c)
        ELSE IF c.kind = "commit" /\ s.current_head = c.head
        THEN [s EXCEPT !.pending_head_changes = empty]
        ELSE [s EXCEPT !.pending_head_changes = longer]
  BY DEF HeadChanged
<1> HIDE DEF empty, longer
<1>5. /\ StepInv(w, [s EXCEPT !.pending_head_changes = empty])
      /\ StepInv(w, [s EXCEPT !.pending_head_changes = longer])
  BY <1>2, SetPendingStepInv
<1> QED  BY <1>3, <1>4, <1>5

\* Noting that a timeout was reported changes no record.
LEMMA NotifiedStepInv ==
  ASSUME NEW w, NEW s, StepInv(w, s), NEW stage \in Nat, NEW attempt \in Nat
  PROVE  StepInv(w, Emit([s EXCEPT !.notified_timeout = <<stage, attempt>>],
                         {Act("NotifyTimeout", stage, 0)}))
<1> DEFINE t == <<stage, attempt>>
           n == [s EXCEPT !.notified_timeout = t]
<1>1. t \in Nat \X Nat
  OBVIOUS
<1> HIDE DEF t
<1>2. n \in Copies(w) /\ Same(s, n) /\ n.status = s.status /\ n.stage_index = s.stage_index
  BY <1>1 DEF StepInv, Copies, Same
<1> HIDE DEF n
<1>3. StepInv(w, n)
  BY <1>2, OutputsStepInv
<1>4. {Act("NotifyTimeout", stage, 0)} \in SUBSET Action
  BY ActType DEF ActionKind
<1>5. StepInv(w, Emit(n, {Act("NotifyTimeout", stage, 0)}))
  BY <1>3, <1>4, EmitStepInv
<1> QED  BY <1>5 DEF n, t

\* The current stage may be entered again.
LEMMA ReassignedStepInv ==
  ASSUME NEW w, Valid(w), NEW s, StepInv(w, s), s.status = "running", NEW stage \in Nat
  PROVE  StepInv(w, EnterStage(w, Emit(s, {Act("ReassignStage", stage, 0)}), s.stage_index))
<1> DEFINE n == Emit(s, {Act("ReassignStage", stage, 0)})
<1>1. {Act("ReassignStage", stage, 0)} \in SUBSET Action
  BY ActType DEF ActionKind
<1>2. StepInv(w, n) /\ n.status = "running" /\ n.stage_index = s.stage_index
  BY <1>1, EmitStepInv, EmitProperties DEF StepInv
<1> HIDE DEF n
<1>3. MayEnter(w, n, s.stage_index) /\ s.stage_index \in Index(w)
  BY <1>2 DEF StepInv, Position, MayEnter
<1>4. s.stage_index \in 1 .. Len_(w) + 1
  BY <1>3, LengthIsNat DEF Valid
<1>5. StepInv(w, EnterStage(w, n, s.stage_index))
  BY <1>3, <1>4, EnterStageStepInv
<1> QED  BY <1>5 DEF n

\* A new task: nothing recorded, nothing behind it.
LEMMA NewStateStepInv ==
  ASSUME NEW w, Valid(w)
  PROVE  StepInv(w, NewState(w))
<1> DEFINE s == NewState(w)
           zero == [i \in Index(w) |-> 0]
           empty == <<>>
           pair == <<0, 0>>
<1>1. Len_(w) \in Nat /\ Index(w) = 1 .. Len_(w) /\ 1 \in 1 .. Len_(w) + 1
  BY LengthIsNat DEF Valid
<1>2. zero \in [Index(w) -> Nat] /\ empty \in Seq(HeadChange) /\ pair \in Nat \X Nat
  OBVIOUS
<1>3. s = [stage_index |-> 1, status |-> "pending", branch |-> FALSE,
           current_head |-> None, patch_id |-> None, change_id |-> FALSE,
           work_product |-> None, approval_reviewers |-> {}, pending_pick |-> None,
           attempts |-> zero, approvals |-> {}, passed_checks |-> {},
           fanout_children |-> {}, selected_child |-> None, merge_commit |-> FALSE,
           pending_head_changes |-> empty, notified_timeout |-> pair,
           pending_work_reason |-> FALSE, actions |-> {}]
  BY DEF NewState
<1> HIDE DEF s, zero, empty, pair
<1>4. s \in Copies(w)
  BY <1>1, <1>2, <1>3 DEF Copies, Option, Status
<1>5. /\ s.status = "pending" /\ s.stage_index = 1 /\ ~s.branch
      /\ s.approvals = {}
  BY <1>3
<1>6. Records(w, s)
  BY <1>5 DEF Records
<1>7. Covered(w, s, 1) /\ Settled(w, s, 1)
  BY <1>1, <1>5 DEF Covered, Settled
<1> QED  BY <1>4, <1>5, <1>6, <1>7 DEF StepInv, Position, s

\* A task that starts may enter its first stage.
LEMMA StartedStepInv ==
  ASSUME NEW w, Valid(w), NEW s, StepInv(w, s), s.status = "pending"
  PROVE  StepInv(w, EnterStage(w, [s EXCEPT !.status = "running"], 1))
<1> DEFINE n == [s EXCEPT !.status = "running"]
<1>1. /\ s \in Copies(w) /\ s.stage_index = 1
      /\ Records(w, s) /\ Covered(w, s, 1) /\ Settled(w, s, 1)
  BY DEF StepInv, Position
<1>2. n \in Copies(w) /\ Same(s, n) /\ n.status = "running"
  BY ZenonT(60), <1>1 DEF Copies, Same, Status
<1> HIDE DEF n
<1>3. MayEnter(w, n, 1)
  BY <1>1, <1>2, Transfer DEF MayEnter
<1>4. 1 \in 1 .. Len_(w) + 1
  BY LengthIsNat DEF Valid
<1>5. StepInv(w, EnterStage(w, n, 1))
  BY <1>3, <1>4, EnterStageStepInv
<1> QED  BY <1>5 DEF n
=============================================================================
