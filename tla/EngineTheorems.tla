---------------------------- MODULE EngineTheorems ----------------------------
(***************************************************************************)
(* What the invariant of EngineProofs says of the state machine and of the *)
(* merge, whatever crashes come between two steps and whatever others do   *)
(* to the repository:                                                      *)
(*                                                                         *)
(*   the engine drives the state machine only as Pipeline allows;          *)
(*   the daemon merges a task at most once;                                *)
(*   the recorded outcome is what main shows;                              *)
(*   what the daemon puts on main was tested there and approved (D14).     *)
(***************************************************************************)
EXTENDS EngineProofs

-----------------------------------------------------------------------------
(* The state machine.  Pipeline's instance has its own copy of each        *)
(* operator of PipelineStep.                                               *)

\* The copies are the operators.
LEMMA SameOperators ==
  /\ \A w : P!Index(w) = Index(w)
  /\ \A w, i, k : P!IsKind(w, i, k) = IsKind(w, i, k)
  /\ \A w, i : P!IsBranchWork(w, i) = IsBranchWork(w, i)
  /\ \A w, i : P!NeedsHead(w, i) = NeedsHead(w, i)
  /\ \A w, s, kind : P!InStage(w, s, kind) = InStage(w, s, kind)
  /\ \A w, s : P!Attempt(w, s) = Attempt(w, s)
  /\ \A w, s : P!MergeInFlight(w, s) = MergeInFlight(w, s)
  /\ \A w : P!NewState(w) = NewState(w)
  /\ \A kind, stage, attempt : P!Act(kind, stage, attempt) = Act(kind, stage, attempt)
  /\ \A s, acts : P!Emit(s, acts) = Emit(s, acts)
  /\ \A w, s, i : P!EnterStage(w, s, i) = EnterStage(w, s, i)
  /\ \A s, stage : P!Cancelled(s, stage) = Cancelled(s, stage)
  /\ \A w, s, i : P!FailStage(w, s, i) = FailStage(w, s, i)
  /\ \A w, s, c : P!HeadChanged(w, s, c) = HeadChanged(w, s, c)
  /\ \A w, s : P!MergeFailedState(w, s) = MergeFailedState(w, s)
  /\ \A w, s, head, patch : P!BranchProduct(w, s, head, patch) = BranchProduct(w, s, head, patch)
  /\ \A w, s : P!ChangeSubmitted(w, s) = ChangeSubmitted(w, s)
  /\ \A w, s, head : P!CheckSucceeded(w, s, head) = CheckSucceeded(w, s, head)
  /\ \A w, s, reviewer, head, choice :
       P!Granted(w, s, reviewer, head, choice) = Granted(w, s, reviewer, head, choice)
  /\ \A w, s : P!Merged(w, s) = Merged(w, s)
<1>Len_. \A w : P!Len_(w) = Len_(w)
  BY DEF P!Len_, Len_
<1>Index. \A w : P!Index(w) = Index(w)
  BY <1>Len_ DEF P!Index, Index
<1>KindAt. \A w, i : P!KindAt(w, i) = KindAt(w, i)
  BY DEF P!KindAt, KindAt
<1>IsKind. \A w, i, k : P!IsKind(w, i, k) = IsKind(w, i, k)
  BY <1>Index, <1>KindAt DEF P!IsKind, IsKind
<1>IsBranchWork. \A w, i : P!IsBranchWork(w, i) = IsBranchWork(w, i)
  BY <1>IsKind DEF P!IsBranchWork, IsBranchWork
<1>IsHeadBound. \A w, i : P!IsHeadBound(w, i) = IsHeadBound(w, i)
  BY <1>IsKind DEF P!IsHeadBound, IsHeadBound
<1>NeedsHead. \A w, i : P!NeedsHead(w, i) = NeedsHead(w, i)
  BY <1>IsKind, <1>IsHeadBound DEF P!NeedsHead, NeedsHead
<1>LastOf. \A S : P!LastOf(S) = LastOf(S)
  BY DEF P!LastOf, LastOf
<1>FirstOf. \A S : P!FirstOf(S) = FirstOf(S)
  BY DEF P!FirstOf, FirstOf
<1>PreviousWork. \A w, i : P!PreviousWork(w, i) = PreviousWork(w, i)
  BY <1>Index, <1>IsKind, <1>LastOf DEF P!PreviousWork, PreviousWork
<1>PreviousBranchWork. \A w, i : P!PreviousBranchWork(w, i) = PreviousBranchWork(w, i)
  BY <1>Index, <1>IsBranchWork, <1>LastOf DEF P!PreviousBranchWork, PreviousBranchWork
<1>FanoutAtOrAfter. \A w, i : P!FanoutAtOrAfter(w, i) = FanoutAtOrAfter(w, i)
  BY <1>Index, <1>IsKind DEF P!FanoutAtOrAfter, FanoutAtOrAfter
<1>PicksAt. \A w, i : P!PicksAt(w, i) = PicksAt(w, i)
  BY <1>Index, <1>KindAt, <1>IsKind DEF P!PicksAt, PicksAt
<1>Act. \A kind, stage, attempt : P!Act(kind, stage, attempt) = Act(kind, stage, attempt)
  BY DEF P!Act, Act
<1>NewState. \A w : P!NewState(w) = NewState(w)
  BY <1>Index DEF P!NewState, NewState
<1>InStage. \A w, s, kind : P!InStage(w, s, kind) = InStage(w, s, kind)
  BY <1>IsKind DEF P!InStage, InStage
<1>Attempt. \A w, s : P!Attempt(w, s) = Attempt(w, s)
  BY <1>Index DEF P!Attempt, Attempt
<1>MergeInFlight. \A w, s : P!MergeInFlight(w, s) = MergeInFlight(w, s)
  BY <1>InStage DEF P!MergeInFlight, MergeInFlight
<1>ApprovalForStage. \A w, s, i : P!ApprovalForStage(w, s, i) = ApprovalForStage(w, s, i)
  BY <1>IsKind DEF P!ApprovalForStage, ApprovalForStage
<1>CheckPassed. \A s, i : P!CheckPassed(s, i) = CheckPassed(s, i)
  BY DEF P!CheckPassed, CheckPassed
<1>MergeGate. \A w, s, i : P!MergeGate(w, s, i) = MergeGate(w, s, i)
  BY <1>Index, <1>IsKind, <1>ApprovalForStage, <1>CheckPassed DEF P!MergeGate, MergeGate
<1>Refused. \A s : P!Refused(s) = Refused(s)
  BY DEF P!Refused, Refused
<1>OneMore. \A attempts, j : P!OneMore(attempts, j) = OneMore(attempts, j)
  BY DEF P!OneMore, OneMore
<1>Emit. \A s, acts : P!Emit(s, acts) = Emit(s, acts)
  BY DEF P!Emit, Emit
<1>ClearPartial. \A s : P!ClearPartial(s) = ClearPartial(s)
  BY DEF P!ClearPartial, ClearPartial
<1>ClearFanout. \A s : P!ClearFanout(s) = ClearFanout(s)
  BY DEF P!ClearFanout, ClearFanout
<1>DropApprovals. \A w, s, K : P!DropApprovals(w, s, K) = DropApprovals(w, s, K)
  BY <1>PicksAt, <1>ClearPartial DEF P!DropApprovals, DropApprovals
<1>InvalidateHeadBound. \A w, s : P!InvalidateHeadBound(w, s) = InvalidateHeadBound(w, s)
  BY <1>DropApprovals DEF P!InvalidateHeadBound, InvalidateHeadBound
<1>ForgetFrom. \A w, s, target : P!ForgetFrom(w, s, target) = ForgetFrom(w, s, target)
  BY <1>DropApprovals DEF P!ForgetFrom, ForgetFrom
<1>FailTask. \A s, stage : P!FailTask(s, stage) = FailTask(s, stage)
  BY <1>Act, <1>Emit, <1>ClearPartial DEF P!FailTask, FailTask
<1>Cancelled. \A s, stage : P!Cancelled(s, stage) = Cancelled(s, stage)
  BY <1>Act, <1>Emit, <1>ClearPartial DEF P!Cancelled, Cancelled
<1>RequestFor. \A w, s, j : P!RequestFor(w, s, j) = RequestFor(w, s, j)
  <2> SUFFICES ASSUME NEW w, NEW s, NEW j PROVE P!RequestFor(w, s, j) = RequestFor(w, s, j)
    OBVIOUS
  <2>1. P!KindAt(w, j) = KindAt(w, j)
    BY DEF P!KindAt, KindAt
  <2>2. P!NeedsHead(w, j) = NeedsHead(w, j) /\ P!PicksAt(w, j) = PicksAt(w, j)
    BY <1>NeedsHead, <1>PicksAt
  <2> QED
    BY <2>1, <2>2, Zenon DEF P!RequestFor, RequestFor
<1>MissingValue. \A w, s, j : P!MissingValue(w, s, j) = MissingValue(w, s, j)
  BY DEF P!MissingValue, MissingValue
<1>EntryStage. \A w, s, i : P!EntryStage(w, s, i) = EntryStage(w, s, i)
  BY <1>Len_, <1>FirstOf, <1>ApprovalForStage DEF P!EntryStage, EntryStage
<1>ResetFanoutAt. \A w, s, j : P!ResetFanoutAt(w, s, j) = ResetFanoutAt(w, s, j)
  BY <1>IsKind, <1>ClearFanout DEF P!ResetFanoutAt, ResetFanoutAt
<1>BeginAttempt. \A w, s, j : P!BeginAttempt(w, s, j) = BeginAttempt(w, s, j)
  <2> SUFFICES ASSUME NEW w, NEW s, NEW j PROVE P!BeginAttempt(w, s, j) = BeginAttempt(w, s, j)
    OBVIOUS
  <2> DEFINE l == [P!ClearPartial(s) EXCEPT !.stage_index = j,
                                     !.pending_work_reason = FALSE,
                                     !.attempts = P!OneMore(@, j)]
             m == [ClearPartial(s) EXCEPT !.stage_index = j,
                                     !.pending_work_reason = FALSE,
                                     !.attempts = OneMore(@, j)]
             B(n) == IF P!IsKind(w, j, "command") /\ P!MissingValue(w, n, j) THEN P!FailTask(n, j)
        ELSE IF P!IsKind(w, j, "merge") /\ ~P!MergeGate(w, n, j) THEN P!Refused(n)
        ELSE P!Emit(n, {P!Act("ScheduleTimeout", j, n.attempts[j]), P!RequestFor(w, n, j)})
             C(n) == IF IsKind(w, j, "command") /\ MissingValue(w, n, j) THEN FailTask(n, j)
        ELSE IF IsKind(w, j, "merge") /\ ~MergeGate(w, n, j) THEN Refused(n)
        ELSE Emit(n, {Act("ScheduleTimeout", j, n.attempts[j]), RequestFor(w, n, j)})
  <2>1. l = m
    BY <1>ClearPartial, <1>OneMore
  <2>2. P!BeginAttempt(w, s, j) = B(l)
    BY DEF P!BeginAttempt
  <2>3. BeginAttempt(w, s, j) = C(m)
    BY DEF BeginAttempt
  <2>4. ASSUME NEW n PROVE B(n) = C(n)
    <3>1. /\ P!IsKind(w, j, "command") <=> IsKind(w, j, "command")
          /\ P!IsKind(w, j, "merge") <=> IsKind(w, j, "merge")
      BY <1>IsKind
    <3>2. /\ P!MissingValue(w, n, j) <=> MissingValue(w, n, j)
          /\ P!MergeGate(w, n, j) <=> MergeGate(w, n, j)
      BY <1>MissingValue, <1>MergeGate
    <3>3. {P!Act("ScheduleTimeout", j, n.attempts[j]), P!RequestFor(w, n, j)}
            = {Act("ScheduleTimeout", j, n.attempts[j]), RequestFor(w, n, j)}
      BY <1>Act, <1>RequestFor
    <3>4. /\ P!FailTask(n, j) = FailTask(n, j) /\ P!Refused(n) = Refused(n)
          /\ \A x : P!Emit(n, x) = Emit(n, x)
      BY <1>FailTask, <1>Refused, <1>Emit
    <3> QED
      BY <3>1, <3>2, <3>3, <3>4
  <2> HIDE DEF l, m, B, C
  <2> QED
    BY <2>1, <2>2, <2>3, <2>4, Zenon
<1>FinishTask. \A w, s, passedOver : P!FinishTask(w, s, passedOver) = FinishTask(w, s, passedOver)
  BY <1>Len_, <1>Act, <1>Emit, <1>ClearPartial DEF P!FinishTask, FinishTask
<1>EnterStage. \A w, s, i : P!EnterStage(w, s, i) = EnterStage(w, s, i)
  BY <1>Len_, <1>EntryStage, <1>ResetFanoutAt, <1>BeginAttempt, <1>FinishTask DEF P!EnterStage,
     EnterStage
<1>ReturnToWork. \A w, s, target : P!ReturnToWork(w, s, target) = ReturnToWork(w, s, target)
  <2> SUFFICES ASSUME NEW w, NEW s, NEW target
               PROVE  P!ReturnToWork(w, s, target) = ReturnToWork(w, s, target)
    OBVIOUS
  <2>1. P!ForgetFrom(w, s, target) = ForgetFrom(w, s, target)
    BY <1>ForgetFrom
  <2>2. P!FanoutAtOrAfter(w, target) <=> FanoutAtOrAfter(w, target)
    BY <1>FanoutAtOrAfter
  <2>3. P!ClearFanout(ForgetFrom(w, s, target)) = ClearFanout(ForgetFrom(w, s, target))
    BY <1>ClearFanout
  <2> DEFINE g == IF FanoutAtOrAfter(w, target) THEN ClearFanout(ForgetFrom(w, s, target))
                  ELSE ForgetFrom(w, s, target)
        n == [g EXCEPT !.work_product = None, !.pending_work_reason = TRUE,
                       !.stage_index = target, !.attempts = OneMore(@, target)]
        acts == {Act("ScheduleTimeout", target, n.attempts[target]),
                 Act("ReturnToWork", target, n.attempts[target])}
  <2>4. g = IF P!FanoutAtOrAfter(w, target) THEN P!ClearFanout(P!ForgetFrom(w, s, target))
            ELSE P!ForgetFrom(w, s, target)
    BY <2>1, <2>2, <2>3, Zenon
  <2> HIDE DEF g
  <2>5. [g EXCEPT !.work_product = None, !.pending_work_reason = TRUE,
                       !.stage_index = target, !.attempts = P!OneMore(@, target)] = n
    BY <1>OneMore
  <2>6. {P!Act("ScheduleTimeout", target, n.attempts[target]),
                 P!Act("ReturnToWork", target, n.attempts[target])} = acts
    BY <1>Act
  <2>7. P!Emit(n, acts) = Emit(n, acts)
    BY <1>Emit
  <2>8. P!ReturnToWork(w, s, target) = P!Emit(n, acts)
    BY <2>4, <2>5, <2>6 DEF P!ReturnToWork
  <2>9. ReturnToWork(w, s, target) = Emit(n, acts)
    BY DEF ReturnToWork, g
  <2> QED
    BY <2>7, <2>8, <2>9
<1>FailureTarget. \A w, i : P!FailureTarget(w, i) = FailureTarget(w, i)
  BY <1>KindAt, <1>PreviousWork DEF P!FailureTarget, FailureTarget
<1>FailStage. \A w, s, i : P!FailStage(w, s, i) = FailStage(w, s, i)
  BY <1>FailTask, <1>ReturnToWork, <1>FailureTarget DEF P!FailStage, FailStage
<1>KeepOnlyWinner. \A s, winner : P!KeepOnlyWinner(s, winner) = KeepOnlyWinner(s, winner)
  BY <1>Act, <1>Emit DEF P!KeepOnlyWinner, KeepOnlyWinner
<1>RecheckTarget. \A w, current : P!RecheckTarget(w, current) = RecheckTarget(w, current)
  BY <1>Index, <1>IsKind, <1>IsHeadBound, <1>FirstOf, <1>PreviousBranchWork DEF P!RecheckTarget,
     RecheckTarget
<1>RecordNewHead.
  \A w, s, head, patch : P!RecordNewHead(w, s, head, patch) = RecordNewHead(w, s, head, patch)
  BY <1>InvalidateHeadBound DEF P!RecordNewHead, RecordNewHead
<1>RestartIfCollected. \A w, s : P!RestartIfCollected(w, s) = RestartIfCollected(w, s)
  BY <1>InStage, <1>EnterStage DEF P!RestartIfCollected, RestartIfCollected
<1>RecheckForNewHead. \A w, s : P!RecheckForNewHead(w, s) = RecheckForNewHead(w, s)
  BY <1>EnterStage, <1>RecheckTarget, <1>RestartIfCollected DEF P!RecheckForNewHead,
     RecheckForNewHead
<1>ApprovedPatch. \A s : P!ApprovedPatch(s) = ApprovedPatch(s)
  BY DEF P!ApprovedPatch, ApprovedPatch
<1>KeepApprovals.
  \A w, s, head, patch : P!KeepApprovals(w, s, head, patch) = KeepApprovals(w, s, head, patch)
  <2> SUFFICES ASSUME NEW w, NEW s, NEW head, NEW patch
               PROVE  P!KeepApprovals(w, s, head, patch) = KeepApprovals(w, s, head, patch)
    OBVIOUS
  <2> DEFINE N(q, c) ==
        LET move(a) ==
              IF a.head = s.current_head /\ a.patch = q THEN [a EXCEPT !.head = head] ELSE a
        IN  [c EXCEPT !.passed_checks = {}, !.approvals = {move(a) : a \in @}]
  <2>1. P!ApprovedPatch(s) = ApprovedPatch(s) /\ P!ClearPartial(s) = ClearPartial(s)
    BY <1>ApprovedPatch, <1>ClearPartial
  <2>2. P!KeepApprovals(w, s, head, patch)
          = P!RecheckForNewHead(w, P!RecordNewHead(w, N(P!ApprovedPatch(s), P!ClearPartial(s)), head, patch))
    BY DEF P!KeepApprovals
  <2>3. KeepApprovals(w, s, head, patch)
          = RecheckForNewHead(w, RecordNewHead(w, N(ApprovedPatch(s), ClearPartial(s)), head, patch))
    BY DEF KeepApprovals
  <2> HIDE DEF N
  <2> QED
    BY <2>1, <2>2, <2>3, <1>RecordNewHead, <1>RecheckForNewHead
<1>MainAdvanced.
  \A w, s, head, patch, conflict :
    P!MainAdvanced(w, s, head, patch, conflict) = MainAdvanced(w, s, head, patch, conflict)
  BY <1>KindAt, <1>PreviousWork, <1>Refused, <1>InvalidateHeadBound, <1>FailTask,
     <1>ReturnToWork, <1>RecordNewHead, <1>RecheckForNewHead, <1>ApprovedPatch, <1>KeepApprovals
     DEF P!MainAdvanced, MainAdvanced
<1>ApplyHeadChange. \A w, s, c : P!ApplyHeadChange(w, s, c) = ApplyHeadChange(w, s, c)
  BY <1>RecordNewHead, <1>RecheckForNewHead, <1>MainAdvanced DEF P!ApplyHeadChange, ApplyHeadChange
<1>ApplyPending. \A w, s, c : P!ApplyPending(w, s, c) = ApplyPending(w, s, c)
  BY <1>ApplyHeadChange DEF P!ApplyPending, ApplyPending
<1>Drained. \A w, s : P!Drained(w, s) = Drained(w, s)
  BY <1>ApplyPending DEF P!Drained, Drained
<1>MergeFailedState. \A w, s : P!MergeFailedState(w, s) = MergeFailedState(w, s)
  BY <1>MergeInFlight, <1>Refused, <1>EnterStage, <1>RecheckTarget, <1>Drained DEF
     P!MergeFailedState, MergeFailedState
<1>BranchProduct.
  \A w, s, head, patch : P!BranchProduct(w, s, head, patch) = BranchProduct(w, s, head, patch)
  <2> SUFFICES ASSUME NEW w, NEW s, NEW head, NEW patch
               PROVE P!BranchProduct(w, s, head, patch) = BranchProduct(w, s, head, patch)
    OBVIOUS
  <2> DEFINE moved == [s EXCEPT !.current_head = head]
             l == IF s.current_head # head THEN P!InvalidateHeadBound(w, moved) ELSE s
             m == IF s.current_head # head THEN InvalidateHeadBound(w, moved) ELSE s
             F(n) == [n EXCEPT !.branch = TRUE, !.current_head = head, !.patch_id = patch,
                    !.work_product = "branch"]
  <2>1. P!InvalidateHeadBound(w, moved) = InvalidateHeadBound(w, moved)
    BY <1>InvalidateHeadBound
  <2>2. l = m
    BY <2>1, Zenon
  <2>3. P!BranchProduct(w, s, head, patch) = P!EnterStage(w, F(l), s.stage_index + 1)
    BY DEF P!BranchProduct
  <2>4. BranchProduct(w, s, head, patch) = EnterStage(w, F(m), s.stage_index + 1)
    BY DEF BranchProduct
  <2>5. P!EnterStage(w, F(m), s.stage_index + 1) = EnterStage(w, F(m), s.stage_index + 1)
    BY <1>EnterStage
  <2> HIDE DEF l, m, F
  <2> QED
    BY <2>2, <2>3, <2>4, <2>5, Zenon
<1>ChangeSubmitted. \A w, s : P!ChangeSubmitted(w, s) = ChangeSubmitted(w, s)
  BY <1>EnterStage DEF P!ChangeSubmitted, ChangeSubmitted
<1>CheckSucceeded. \A w, s, head : P!CheckSucceeded(w, s, head) = CheckSucceeded(w, s, head)
  BY <1>EnterStage DEF P!CheckSucceeded, CheckSucceeded
<1>PickedWinner. \A s, choice : P!PickedWinner(s, choice) = PickedWinner(s, choice)
  BY DEF P!PickedWinner, PickedWinner
<1>PickAccepted. \A w, s, choice : P!PickAccepted(w, s, choice) = PickAccepted(w, s, choice)
  BY <1>PicksAt, <1>PickedWinner DEF P!PickAccepted, PickAccepted
<1>Votes. \A s, reviewer : P!Votes(s, reviewer) = Votes(s, reviewer)
  BY DEF P!Votes, Votes
<1>Cardinality. \A S : P!Cardinality(S) = Cardinality(S)
  BY Zenon DEF P!Cardinality, Cardinality
<1>Granted. \A w, s, reviewer, head, choice :
              P!Granted(w, s, reviewer, head, choice) = Granted(w, s, reviewer, head, choice)
  <2> SUFFICES ASSUME NEW w, NEW s, NEW reviewer, NEW head, NEW choice
               PROVE P!Granted(w, s, reviewer, head, choice) = Granted(w, s, reviewer, head, choice)
    OBVIOUS
  <2> DEFINE stage == s.stage_index
             bound == w.stages[stage].bind_head
             R(v) == [s EXCEPT
                       !.approvals = {a \in @ : a.stage # stage} \cup {[stage |-> stage, head |-> IF bound THEN head ELSE None,
                   patch |-> IF bound THEN s.patch_id ELSE None,
                   reviewers |-> v]},
                       !.approval_reviewers = {}, !.pending_pick = None]
             B(v) == 
        IF reviewer \in s.approval_reviewers \/ ~P!PickAccepted(w, s, choice) THEN P!Refused(s)
        ELSE IF Cardinality(v) < w.stages[stage].count
        THEN [s EXCEPT !.approval_reviewers = v,
                       !.pending_pick = IF P!PicksAt(w, stage) THEN P!PickedWinner(s, choice) ELSE @]
        ELSE P!EnterStage(w,
               IF P!PicksAt(w, stage) THEN P!KeepOnlyWinner(R(v), P!PickedWinner(s, choice)) ELSE R(v),
               stage + 1)
             C(v) == 
        IF reviewer \in s.approval_reviewers \/ ~PickAccepted(w, s, choice) THEN Refused(s)
        ELSE IF Cardinality(v) < w.stages[stage].count
        THEN [s EXCEPT !.approval_reviewers = v,
                       !.pending_pick = IF PicksAt(w, stage) THEN PickedWinner(s, choice) ELSE @]
        ELSE EnterStage(w,
               IF PicksAt(w, stage) THEN KeepOnlyWinner(R(v), PickedWinner(s, choice)) ELSE R(v),
               stage + 1)
  <2>1. P!Granted(w, s, reviewer, head, choice) = B(P!Votes(s, reviewer))
    BY <1>Cardinality, ZenonT(60) DEF P!Granted
  <2>2. Granted(w, s, reviewer, head, choice) = C(Votes(s, reviewer))
    BY DEF Granted
  <2>3. P!Votes(s, reviewer) = Votes(s, reviewer)
    BY <1>Votes
  <2>4. ASSUME NEW v PROVE B(v) = C(v)
    <3> HIDE DEF R
    <3>1. P!PicksAt(w, stage) <=> PicksAt(w, stage)
      BY <1>PicksAt
    <3>2. P!PickedWinner(s, choice) = PickedWinner(s, choice) /\ P!Refused(s) = Refused(s)
      BY <1>PickedWinner, <1>Refused
    <3>3. P!PickAccepted(w, s, choice) <=> PickAccepted(w, s, choice)
      BY <1>PickAccepted
    <3>4. P!KeepOnlyWinner(R(v), PickedWinner(s, choice)) = KeepOnlyWinner(R(v), PickedWinner(s, choice))
      BY <1>KeepOnlyWinner
    <3>5. \A x : P!EnterStage(w, x, stage + 1) = EnterStage(w, x, stage + 1)
      BY <1>EnterStage
    <3> DEFINE o == IF PicksAt(w, stage) THEN KeepOnlyWinner(R(v), PickedWinner(s, choice)) ELSE R(v)
               p == IF P!PicksAt(w, stage) THEN P!KeepOnlyWinner(R(v), P!PickedWinner(s, choice)) ELSE R(v)
               k == IF P!PicksAt(w, stage) THEN P!PickedWinner(s, choice) ELSE s.pending_pick
               q == IF PicksAt(w, stage) THEN PickedWinner(s, choice) ELSE s.pending_pick
    <3>6. o = p /\ k = q
      BY <3>1, <3>2, <3>4, Zenon
    <3>7. B(v) =
        IF reviewer \in s.approval_reviewers \/ ~P!PickAccepted(w, s, choice) THEN P!Refused(s)
        ELSE IF Cardinality(v) < w.stages[stage].count
        THEN [s EXCEPT !.approval_reviewers = v, !.pending_pick = k]
        ELSE P!EnterStage(w, p, stage + 1)
      OBVIOUS
    <3>8. C(v) =
        IF reviewer \in s.approval_reviewers \/ ~PickAccepted(w, s, choice) THEN Refused(s)
        ELSE IF Cardinality(v) < w.stages[stage].count
        THEN [s EXCEPT !.approval_reviewers = v, !.pending_pick = q]
        ELSE EnterStage(w, o, stage + 1)
      OBVIOUS
    <3> HIDE DEF o, p, k, q
    <3>9. P!EnterStage(w, p, stage + 1) = EnterStage(w, o, stage + 1)
      BY <3>5, <3>6
    <3> HIDE DEF B, C
    <3> QED
      BY <3>2, <3>3, <3>6, <3>7, <3>8, <3>9
  <2> HIDE DEF B, C
  <2> QED
    BY <2>1, <2>2, <2>3, <2>4, Zenon
<1>Merged. \A w, s : P!Merged(w, s) = Merged(w, s)
  BY <1>Act, <1>MergeGate, <1>Refused, <1>Emit DEF P!Merged, Merged
<1>HeadChanged. \A w, s, c : P!HeadChanged(w, s, c) = HeadChanged(w, s, c)
  BY <1>MergeInFlight, <1>ApplyHeadChange DEF P!HeadChanged, HeadChanged
<1> QED
  BY <1>Index, <1>IsKind, <1>IsBranchWork, <1>NeedsHead, <1>InStage, <1>Attempt,
     <1>MergeInFlight, <1>NewState, <1>Act, <1>Emit, <1>EnterStage, <1>Cancelled, <1>FailStage,
     <1>HeadChanged, <1>MergeFailedState, <1>BranchProduct, <1>ChangeSubmitted,
     <1>CheckSucceeded, <1>Granted, <1>Merged

\* The state machine is left alone.
Untold == row'.st = row.st /\ issued' = issued /\ disturbances' = disturbances

\* Only event_detail gives the state machine an event.
LEMMA OnlyEventsTell ==
  ASSUME Core, [Next]_vars, ~HandleEvent
  PROVE  Untold
<1>1. CASE CreateTask
  BY <1>1, CreateTaskTakes DEF Takes, Untold
<1>2. CASE QueuedEvent
  BY <1>2, QueuedEventTakes DEF Takes, Untold
<1>3. CASE PerformActions
  BY <1>3, PerformActionsPerforms DEF Performs, Untold
<1>4. CASE MergeStep
  <2>1. (\E kind : Ends(kind)) \/ GoesOn => Untold
    BY DEF Ends, Posts, GoesOn, Untold
  <2> QED
    BY <1>4, <2>1, PrepareMergeGoesOn, RebaseEnds, ForgeLooksEnds, RecordIntentGoesOn,
       RecheckRefsEnds, MoveMainEnds, ReportMergeEnds DEF MergeStep
<1>5. CASE Cleanup \/ Crash
  BY <1>5, CleanupEnds, CrashEnds DEF Ended, Untold
<1>6. CASE Boot
  BY <1>6, BootTakesUp DEF Untold
<1>7. CASE Done
  BY <1>7, DoneTakes DEF Takes, Untold
<1>8. CASE Review(TRUE) \/ Review(FALSE)
  <2>1. PICK granted \in BOOLEAN : Review(granted)
    BY <1>8
  <2> QED
    BY <2>1, ReviewTakes DEF Takes, Untold
<1>9. CASE \E c \in proc.checking, r \in {"pass", "fail", "blocked"} : CheckResult(c, r)
  BY <1>9, CheckResultTakes DEF Drops, Takes, Untold
<1>10. CASE Unblock \/ Retry
  BY <1>10, UnblockAsks, RetryAsks DEF AsksAgain, Untold
<1>11. CASE (\E t \in proc.sleeping : TimerFires(t)) \/ CancelTask
  BY <1>11, TimerFiresTakes, CancelTaskTakes DEF Takes, Untold
<1>12. CASE Block
  BY <1>12, BlockDrops DEF Untold
<1>13. CASE \/ CheckoutCleaned \/ CheckoutDirtied \/ Commits
            \/ \E h \in Heads : AgentResets(h)
            \/ \E h \in Heads \cup {None} : MainMoves(h)
  BY <1>13, CheckoutElsewhere, AgentCommitsElsewhere, AgentResetsElsewhere,
     MainMovesElsewhere DEF Commits, Elsewhere, Untold
<1>14. CASE Over \/ UNCHANGED vars
  BY <1>14 DEF Over, vars, Untold
<1> QED
  BY <1>1, <1>2, <1>3, <1>4, <1>5, <1>6, <1>7, <1>8, <1>9, <1>10, <1>11, <1>12, <1>13, <1>14
  DEF Next, Loop, Answers, Troubles, MergeStep

\* What a stage is answered to: kind of stage, kinds of request.
AskedFor(kind) ==
  CASE kind = "work"     -> {"AssignWork", "ReturnToWork"}
    [] kind = "submit"   -> {"Submit"}
    [] kind = "command"  -> {"RunCommand"}
    [] kind = "approval" -> {"RequestApproval"}
    [] kind = "merge"    -> {"Merge"}

\* The request a running task waits for was handed out, and its timer.
LEMMA OpenAsked ==
  ASSUME Core, row.st.status = "running"
  PROVE  LET s == row.st
             i == s.stage_index
             r == OpenRequest(Flow, s)
         IN  /\ i \in Index(Flow) /\ Attempt(Flow, s) = s.attempts[i]
             /\ r \in issued /\ r.stage = i /\ r.attempt = s.attempts[i]
             /\ NeedsHead(Flow, i) => r.head = s.current_head
             /\ \A kind \in {"work", "submit", "command", "approval", "merge"} :
                  IsKind(Flow, i, kind) => r.kind \in AskedFor(kind)
             /\ Act("ScheduleTimeout", i, s.attempts[i]) \in issued
<1> DEFINE s == row.st
           i == s.stage_index
           q == RequestFor(Flow, s, i)
           r == OpenRequest(Flow, s)
<1>1. i \in Index(Flow) /\ (s.pending_work_reason => IsKind(Flow, i, "work"))
  BY DEF Core, Machine, StepInv, Position, Orderly, Phase
<1>2. Concerning(issued, i, s.attempts[i]) = Expected(Flow, s)
  BY DEF Core, Machine, Asking, Waits
<1>3. {Act("ScheduleTimeout", i, s.attempts[i]), r} \subseteq issued
  BY <1>2 DEF Expected, Concerning, Asks
<1>4. /\ q.stage = i /\ q.attempt = s.attempts[i]
      /\ q.head = (IF NeedsHead(Flow, i) \/ KindAt(Flow, i) = "fanout"
                   THEN s.current_head ELSE None)
  BY DEF RequestFor
<1>5. \A kind \in {"work", "submit", "command", "approval", "merge"} :
        KindAt(Flow, i) = kind => q.kind \in AskedFor(kind)
  BY DEF RequestFor, AskedFor
<1>6. CASE s.pending_work_reason
  <2>1. r = [q EXCEPT !.kind = "ReturnToWork"]
    BY <1>6 DEF OpenRequest
  <2>2. /\ r.stage = q.stage /\ r.attempt = q.attempt /\ r.head = q.head
        /\ r.kind = "ReturnToWork"
    BY <2>1 DEF RequestFor
  <2>3. IsKind(Flow, i, "work") /\ r.kind \in AskedFor("work")
    BY <1>1, <1>6, <2>2 DEF AskedFor
  <2> HIDE DEF q, r
  <2> QED
    BY <1>1, <1>3, <1>4, <2>2, <2>3 DEF IsKind, Attempt, r
<1>7. CASE ~s.pending_work_reason
  <2>1. r = q
    BY <1>7 DEF OpenRequest
  <2> HIDE DEF q
  <2> QED
    BY <1>1, <1>3, <1>4, <1>5, <2>1 DEF IsKind, Attempt
<1> QED
  BY <1>6, <1>7

\* What step makes of an event is what Pipeline commits.
LEMMA GivenCommits ==
  ASSUME NEW u, NEW f, NEW n, Given(u, f, n)
  PROVE  /\ P!Commit(n)
         /\ u.kind \in Disturbing => P!Disturb
         /\ u.kind \notin Disturbing /\ disturbances \in Nat => P!Undisturbed
<1>1. P!Commit(n)
  BY DEF Given, P!Commit
<1>2. u.kind \in Disturbing => P!Disturb
  BY DEF Given, P!Disturb
<1>3. u.kind \notin Disturbing /\ disturbances \in Nat => P!Undisturbed
  BY DEF Given, P!Undisturbed
<1> QED
  BY <1>1, <1>2, <1>3

\* The open request and its timer are about the attempt that is open.
LEMMA Identified ==
  ASSUME Core, row.st.status = "running"
  PROVE  LET s == row.st
             i == s.stage_index
         IN  /\ P!CheckIdentity(OpenRequest(Flow, s), TRUE)
             /\ P!CheckIdentity(OpenRequest(Flow, s), FALSE)
             /\ P!CheckIdentity(Act("ScheduleTimeout", i, s.attempts[i]), FALSE)
<1> DEFINE s == row.st
           i == s.stage_index
           t == Act("ScheduleTimeout", i, s.attempts[i])
<1>1. P!Index(Flow) = Index(Flow) /\ P!Attempt(Flow, s) = Attempt(Flow, s)
  BY SameOperators
<1>2. P!NeedsHead(Flow, i) <=> NeedsHead(Flow, i)
  BY SameOperators
<1>3. t.stage = i /\ t.attempt = s.attempts[i]
  BY DEF Act
<1> HIDE DEF t
<1> QED
  BY <1>1, <1>2, <1>3, OpenAsked DEF P!CheckIdentity, t

\* A head that is not recorded makes no difference to an approval.
LEMMA GrantedUnbound ==
  ASSUME NEW w, NEW s, ~w.stages[s.stage_index].bind_head, NEW reviewer, NEW g, NEW h, NEW choice
  PROVE  Granted(w, s, reviewer, g, choice) = Granted(w, s, reviewer, h, choice)
BY DEF Granted

LEMMA AnsweredObeys ==
  ASSUME Core, NEW u \in EventRecord, NEW f, NEW n, Given(u, f, n), Answered(row.st, u, n)
  PROVE  P!Progress
<1> DEFINE s == row.st
           i == s.stage_index
           r == OpenRequest(Flow, s)
<1>1. P!Commit(n) /\ EventSound(u)
  BY GivenCommits DEF Given
<1>2. u.kind \notin Disturbing => P!Undisturbed
  BY GivenCommits DEF Core, Types
<1>3. ASSUME NEW kind \in {"work", "submit", "command", "approval", "merge"},
             Replies(s, u, kind)
      PROVE  /\ s.status = "running" /\ IsKind(Flow, i, kind) /\ P!InStage(Flow, s, kind)
             /\ r \in issued /\ r.kind \in AskedFor(kind)
             /\ P!CheckIdentity(r, TRUE) /\ P!CheckIdentity(r, FALSE)
             /\ NeedsHead(Flow, i) => r.head = s.current_head
  <2>1. InStage(Flow, s, kind) /\ s.status = "running" /\ IsKind(Flow, i, kind)
    BY <1>3 DEF Replies, InStage
  <2>2. P!InStage(Flow, s, kind)
    BY <2>1, SameOperators
  <2> QED
    BY <2>1, <2>2, OpenAsked, Identified
<1>4. CASE /\ u.kind = "Start" /\ s.status = "pending"
           /\ n = EnterStage(Flow, [s EXCEPT !.status = "running"], 1)
  <2>1. n = P!EnterStage(Flow, [s EXCEPT !.status = "running"], 1)
    BY <1>4, SameOperators
  <2>2. P!Undisturbed
    BY <1>2, <1>4 DEF Disturbing
  <2> QED
    BY <1>1, <1>4, <2>1, <2>2 DEF P!Progress, P!Start
<1>5. CASE /\ u.kind = "WorkCompleted" /\ Replies(s, u, "work")
           /\ n = BranchProduct(Flow, s, u.head, u.patch)
  <2>1. n = P!BranchProduct(Flow, s, u.head, u.patch)
    BY <1>5, SameOperators
  <2>2. P!Undisturbed /\ u.head \in Heads /\ u.patch \in Patches
    BY <1>1, <1>2, <1>5 DEF Disturbing, EventSound
  <2>3. P!IsBranchWork(Flow, i)
    BY <1>3, <1>5, FlowFacts, SameOperators
  <2>4. r \in P!Asked({"AssignWork", "ReturnToWork"})
    BY <1>3, <1>5 DEF P!Asked, AskedFor
  <2>5. P!BranchCompleted(r, u.head, u.patch)
    BY <1>1, <1>3, <1>5, <2>1, <2>2, <2>3 DEF P!BranchCompleted
  <2> QED
    BY <2>2, <2>4, <2>5 DEF P!Progress, P!WorkAnswered
<1>6. CASE u.kind = "Submitted" /\ Replies(s, u, "submit") /\ n = ChangeSubmitted(Flow, s)
  <2>1. n = P!ChangeSubmitted(Flow, s)
    BY <1>6, SameOperators
  <2>2. P!Undisturbed /\ r \in P!Asked({"Submit"})
    BY <1>2, <1>3, <1>6 DEF Disturbing, P!Asked, AskedFor
  <2>3. P!Submitted(r)
    BY <1>1, <1>3, <1>6, <2>1, <2>2 DEF P!Submitted
  <2> QED
    BY <2>2, <2>3 DEF P!Progress
<1>7. CASE /\ u.kind = "CommandPassed" /\ Replies(s, u, "command") /\ SameHead(s, u)
           /\ n = CheckSucceeded(Flow, s, u.head)
  <2>1. NeedsHead(Flow, i)
    BY <1>3, <1>7 DEF NeedsHead, IsHeadBound
  <2>2. r.head = u.head
    BY <1>3, <1>7, <2>1 DEF SameHead
  <2>3. n = P!CheckSucceeded(Flow, s, r.head)
    BY <1>7, <2>2, SameOperators
  <2>4. P!Undisturbed /\ r \in P!Asked({"RunCommand"})
    BY <1>2, <1>3, <1>7 DEF Disturbing, P!Asked, AskedFor
  <2>5. P!CommandPassed(r)
    BY <1>1, <1>3, <1>7, <2>3, <2>4 DEF P!CommandPassed
  <2> QED
    BY <2>4, <2>5 DEF P!Progress
<1>8. CASE /\ u.kind = "ApprovalGranted" /\ Replies(s, u, "approval") /\ SameHead(s, u)
           /\ n = Granted(Flow, s, u.reviewer, u.head, None)
  <2>1. Flow.stages[i].bind_head => NeedsHead(Flow, i)
    BY <1>3, <1>8 DEF NeedsHead, IsHeadBound
  <2>2. Flow.stages[i].bind_head => r.head = u.head /\ s.current_head # None
    BY <1>3, <1>8, <2>1, HeadPresent DEF SameHead, Core, Machine
  <2>3. n = Granted(Flow, s, u.reviewer, r.head, None)
    BY <1>8, <2>2, GrantedUnbound
  <2>4. n = P!Granted(Flow, s, u.reviewer, r.head, None)
    BY <2>3, SameOperators
  <2>5. P!Undisturbed /\ r \in P!Asked({"RequestApproval"})
    BY <1>2, <1>3, <1>8 DEF Disturbing, P!Asked, AskedFor
  <2>6. u.reviewer \in Reviewers /\ None \in P!Option(Children)
    BY <1>1, <1>8 DEF EventSound, P!Option
  <2>7. P!CurrentApproval
    BY <1>3, <1>8, <2>2 DEF P!CurrentApproval
  <2>8. P!ApprovalGranted(r, u.reviewer, None)
    BY <1>1, <1>3, <1>8, <2>4, <2>5, <2>7 DEF P!ApprovalGranted
  <2> QED
    BY <2>5, <2>6, <2>8 DEF P!Progress, P!ApprovalAnswered
<1> QED
  BY <1>4, <1>5, <1>6, <1>7, <1>8 DEF Answered

LEMMA MergesObeys ==
  ASSUME Core, NEW u, NEW f, NEW n, Given(u, f, n), Merges(row.st, u, n)
  PROVE  P!Next
<1> DEFINE s == row.st
           i == s.stage_index
           r == OpenRequest(Flow, s)
<1>1. Replies(s, u, "merge")
  BY DEF Merges
<1>2. s.status = "running" /\ IsKind(Flow, i, "merge") /\ P!MergeInFlight(Flow, s)
  BY <1>1, SameOperators DEF Replies, MergeInFlight, InStage
<1>3. r \in P!Asked({"Merge"}) /\ P!CheckIdentity(r, TRUE)
  BY <1>2, OpenAsked, Identified DEF P!Asked, AskedFor
<1>4. CASE u.kind = "MergeCompleted" /\ n = Merged(Flow, s)
  <2>1. n = P!Merged(Flow, s)
    BY <1>4, SameOperators
  <2>2. P!Commit(n) /\ P!Undisturbed
    BY <1>4, GivenCommits DEF Core, Types, Disturbing
  <2>3. P!MergeCompleted(r)
    BY <1>2, <1>3, <2>1, <2>2 DEF P!MergeCompleted
  <2> QED
    BY <1>3, <2>3 DEF P!Next, P!Progress
<1>5. CASE u.kind = "MergeFailed" /\ n = MergeFailedState(Flow, s)
  <2>1. n = P!MergeFailedState(Flow, s)
    BY <1>5, SameOperators
  <2>2. P!Commit(n) /\ P!Disturb
    BY <1>5, GivenCommits DEF Disturbing
  <2>3. P!MergeFailed(r)
    BY <1>2, <1>3, <2>1, <2>2 DEF P!MergeFailed
  <2> QED
    BY <1>3, <2>3 DEF P!Next, P!Setback
<1> QED
  BY <1>4, <1>5 DEF Merges

LEMMA MovesObeys ==
  ASSUME Core, NEW u \in EventRecord, NEW f, NEW n, Given(u, f, n), Moves(row.st, u, n)
  PROVE  P!HeadMoved
<1> DEFINE s == row.st
<1>1. P!Commit(n) /\ P!Disturb
  BY GivenCommits DEF Moves, Disturbing
<1>2. u.head \in Heads /\ u.patch \in Patches /\ s.status = "running"
  BY DEF Given, EventSound, Moves
<1>3. CASE u.kind = "CommitCreated" /\ n = HeadChanged(Flow, s, Change(u, "commit"))
  <2>1. u.conflict = FALSE
    BY <1>3 DEF Given, EventSound, EventRecord
  <2>2. Change(u, "commit")
          = [kind |-> "commit", head |-> u.head, patch |-> u.patch, conflict |-> FALSE]
    BY <2>1 DEF Change
  <2>3. n = P!HeadChanged(Flow, s,
              [kind |-> "commit", head |-> u.head, patch |-> u.patch, conflict |-> FALSE])
    BY <1>3, <2>2, SameOperators
  <2>4. \E i \in P!Index(Flow) : P!IsBranchWork(Flow, i)
    BY FlowFacts, SameOperators
  <2>5. P!CommitCreated(u.head, u.patch)
    BY <1>1, <1>2, <2>3, <2>4 DEF P!CommitCreated
  <2> QED
    BY <1>2, <2>5 DEF P!HeadMoved
<1>4. CASE u.kind = "MainAdvanced" /\ n = HeadChanged(Flow, s, Change(u, "main"))
  <2>1. u.conflict \in BOOLEAN /\ HasMerge(Flow)
    BY <1>4 DEF Given, EventSound, EventRecord
  <2>2. n = P!HeadChanged(Flow, s,
              [kind |-> "main", head |-> u.head, patch |-> u.patch, conflict |-> u.conflict])
    BY <1>4, SameOperators DEF Change
  <2>3. \E i \in P!Index(Flow) : P!IsKind(Flow, i, "merge")
    BY <2>1, SameOperators DEF HasMerge
  <2>4. P!MainMoved(u.head, u.patch, u.conflict)
    BY <1>1, <1>2, <2>2, <2>3 DEF P!MainMoved
  <2> QED
    BY <1>2, <2>1, <2>4 DEF P!HeadMoved
<1> QED
  BY <1>3, <1>4 DEF Moves

LEMMA FailsObeys ==
  ASSUME Core, NEW u, NEW f, NEW n, Given(u, f, n), Fails(row.st, u, n)
  PROVE  P!Setback
<1> DEFINE s == row.st
           i == s.stage_index
           r == OpenRequest(Flow, s)
<1>1. n = P!FailStage(Flow, s, i)
  BY SameOperators DEF Fails
<1>2. P!Commit(n) /\ P!Disturb
  BY GivenCommits DEF Fails, Disturbing
<1>3. CASE u.kind = "CommandFailed" /\ Replies(s, u, "command")
  <2>1. s.status = "running" /\ IsKind(Flow, i, "command") /\ P!InStage(Flow, s, "command")
    BY <1>3, SameOperators DEF Replies, InStage
  <2>2. r \in P!Asked({"RunCommand"}) /\ P!CheckIdentity(r, TRUE)
    BY <2>1, OpenAsked, Identified DEF P!Asked, AskedFor
  <2>3. P!CommandFailed(r)
    BY <1>1, <1>2, <2>1, <2>2 DEF P!CommandFailed
  <2> QED
    BY <2>2, <2>3 DEF P!Setback
<1>4. CASE u.kind = "ChangesRequested" /\ Replies(s, u, "approval")
  <2>1. s.status = "running" /\ IsKind(Flow, i, "approval") /\ P!InStage(Flow, s, "approval")
    BY <1>4, SameOperators DEF Replies, InStage
  <2>2. r \in P!Asked({"RequestApproval"}) /\ P!CheckIdentity(r, TRUE)
    BY <2>1, OpenAsked, Identified DEF P!Asked, AskedFor
  <2>3. Flow.stages[i].bind_head => s.current_head # None
    BY <2>1, HeadPresent DEF NeedsHead, IsHeadBound, Core, Machine
  <2>4. P!CurrentApproval
    BY <2>1, <2>3 DEF P!CurrentApproval
  <2>5. P!ChangesRequested(r)
    BY <1>1, <1>2, <2>2, <2>4 DEF P!ChangesRequested
  <2> QED
    BY <2>2, <2>5 DEF P!Setback
<1> QED
  BY <1>3, <1>4 DEF Fails

LEMMA GivesUpObeys ==
  ASSUME Core, NEW u, NEW f, NEW n, Given(u, f, n), GivesUp(row.st, u, n)
  PROVE  P!Next
<1> DEFINE s == row.st
           i == s.stage_index
           t == Act("ScheduleTimeout", i, s.attempts[i])
<1>1. P!Commit(n) /\ P!Disturb
  BY GivenCommits DEF GivesUp, TimesOut, Disturbing
<1>2. ~MergeInFlight(Flow, s) => ~P!MergeInFlight(Flow, s)
  BY SameOperators
<1>3. t.kind = "ScheduleTimeout" /\ t.stage = i /\ t.attempt = s.attempts[i]
  BY DEF Act
<1> HIDE DEF t
<1>4. s.status = "running" =>
        /\ t \in P!Asked({"ScheduleTimeout"}) /\ P!CheckIdentity(t, FALSE)
        /\ Ticket(s) = <<t.stage, t.attempt>>
  BY <1>3, OpenAsked, Identified DEF P!Asked, Ticket, t
<1>5. CASE TimesOut(s, u, "cancel") /\ n = Cancelled(s, i)
  <2>1. n = P!Cancelled(s, t.stage)
    BY <1>3, <1>5, SameOperators
  <2>2. P!TimeoutCancelled(t)
    BY <1>1, <1>2, <1>4, <1>5, <2>1 DEF TimesOut, P!TimeoutCancelled
  <2> QED
    BY <1>4, <1>5, <2>2 DEF TimesOut, P!Next, P!TimedOut
<1>6. CASE /\ TimesOut(s, u, "notify") /\ s.notified_timeout # u.ticket
           /\ n = Emit([s EXCEPT !.notified_timeout = u.ticket], {Act("NotifyTimeout", i, 0)})
  <2>1. u.ticket = <<t.stage, t.attempt>>
    BY <1>4, <1>6 DEF TimesOut
  <2>2. P!Act("NotifyTimeout", t.stage, 0) = Act("NotifyTimeout", i, 0)
    BY <1>3, SameOperators
  <2>3. n = P!Emit([s EXCEPT !.notified_timeout = <<t.stage, t.attempt>>],
                   {P!Act("NotifyTimeout", t.stage, 0)})
    BY <1>6, <2>1, <2>2, SameOperators
  <2>4. P!TimeoutNotified(t)
    BY <1>1, <1>2, <1>4, <1>6, <2>1, <2>3 DEF TimesOut, P!TimeoutNotified
  <2> QED
    BY <1>4, <1>6, <2>4 DEF TimesOut, P!Next, P!TimedOut
<1>7. CASE /\ u.kind = "Cancel" /\ s.status \in {"pending", "running"}
           /\ ~MergeInFlight(Flow, s)
           /\ n = Cancelled(s, IF s.status = "pending" THEN 0 ELSE i)
  <2>1. n = P!Cancelled(s, IF s.status = "pending" THEN 0 ELSE i)
    BY <1>7, SameOperators
  <2>2. P!Cancel
    BY <1>1, <1>2, <1>7, <2>1 DEF P!Cancel
  <2> QED
    BY <2>2 DEF P!Next
<1> QED
  BY <1>5, <1>6, <1>7 DEF GivesUp

\* Every event the engine gives to the state machine is one that Pipeline
\* allows, of a request that was handed out and is still open.
LEMMA HandleEventObeys ==
  ASSUME Core, HandleEvent
  PROVE  [P!Next]_(P!vars)
<1>1. CASE Skips
  BY <1>1 DEF Skips, P!vars
<1>2. CASE \E u \in EventRecord : \E f, n : Given(u, f, n)
  <2>0. PICK u \in EventRecord : \E f, n : Given(u, f, n)
    BY <1>2
  <2>1. PICK f, n : Given(u, f, n)
    BY <2>0
  <2>2. row.st \in Copies(Flow) /\ n = Step(row.st, u) /\ n.status # "refused"
    BY <2>1, TicketType DEF Given
  <2>3. \/ Answered(row.st, u, n) \/ Merges(row.st, u, n) \/ Moves(row.st, u, n)
        \/ Fails(row.st, u, n) \/ GivesUp(row.st, u, n)
    BY <2>2, StepCases
  <2>4. P!Next
    BY <2>1, <2>3, AnsweredObeys, MergesObeys, MovesObeys, FailsObeys, GivesUpObeys DEF P!Next
  <2> QED
    BY <2>4
<1> QED
  BY <1>1, <1>2, HandleEventCases

\* The engine drives the state machine only as Pipeline allows: to Pipeline,
\* every step of the engine is an event of the task or nothing.  Crashes,
\* reboots, retries and refused events are nothing.
THEOREM RefinementTheorem == Spec => StateMachineObeyed
<1>1. Init => P!Init
  <2>1. P!NewState(Flow) = NewState(Flow)
    BY SameOperators
  <2> QED
    BY <2>1 DEF Init, P!Init
<1>2. Core /\ [Next]_vars => [P!Next]_(P!vars)
  <2> SUFFICES ASSUME Core, [Next]_vars PROVE [P!Next]_(P!vars)
    OBVIOUS
  <2>1. Untold => UNCHANGED P!vars
    BY DEF Untold, P!vars
  <2> QED
    BY <2>1, OnlyEventsTell, HandleEventObeys
<1> QED
  BY <1>1, <1>2, EngineInvariance, PTL DEF Spec, StateMachineObeyed, P!Spec


-----------------------------------------------------------------------------
(* The merge.                                                              *)

AnswerAt(k) == proc.queue[k].kind \in AnswerKinds
AnswerQueued == \E k \in DOMAIN proc.queue : AnswerAt(k)
AnswerInHand == InHand /\ proc.doing.event.kind \in AnswerKinds

ByDaemon(k) == repo.main[k].by = "daemon"
DaemonMerged == \E k \in DOMAIN repo.main : ByDaemon(k)

\* A merge is answered once, and while it is in flight; when boot is served,
\* nobody is shown a retry of a merge whose answer is on its way.
QueueSound ==
  /\ \A j, k \in DOMAIN proc.queue : AnswerAt(j) /\ AnswerAt(k) => j = k
  /\ AnswerQueued => MergeInFlight(Flow, row.st)
  /\ row.note /\ proc.served => ~AnswerQueued

\* Nothing merges while an answer is on its way, or could be asked again.
HandSound ==
  /\ AnswerInHand => MergeInFlight(Flow, row.st) /\ ~AnswerQueued
  /\ proc.doing.at \in MergeSteps \/ MergeAsked =>
       ~AnswerQueued /\ ~(row.note /\ proc.served)

\* The forge moves main only to a head that is not there yet.
ForgeSound ==
  proc.doing.at \in {"intent", "recheck", "move"} =>
    /\ ~DaemonMerged
    /\ proc.doing.main <= Len(repo.main)
    /\ Len(repo.main) = proc.doing.main => ~OnMain(proc.doing.head)

\* A failure of the merge is reported, or is about to be taken as one.
FailureReported ==
  \/ \E k \in DOMAIN proc.queue : proc.queue[k].kind = "MergeFailed"
  \/ InHand /\ proc.doing.event.kind = "MergeFailed"

\* Once the daemon has merged, the merge is in flight until it is reported, and
\* no failure is.
MergedSound ==
  /\ MergedOnce
  /\ DaemonMerged =>
       /\ row.st.current_head # None /\ OnMain(row.st.current_head)
       /\ MergeInFlight(Flow, row.st) \/ row.st.status = "done"
       /\ ~FailureReported
  /\ row.st.status = "done" /\ HasMerge(Flow) =>
       row.st.current_head # None /\ OnMain(row.st.current_head)

Once == QueueSound /\ HandSound /\ ForgeSound /\ MergedSound

-----------------------------------------------------------------------------
(* What is on main.                                                        *)

LEMMA MainEntries ==
  ASSUME Types, NEW k \in DOMAIN repo.main
  PROVE  /\ k \in Nat /\ k <= Len(repo.main)
         /\ repo.main[k].head # None => repo.main[k].head \in Heads /\ Used(repo.main[k].head)
<1>1. repo \in Repos
  BY DEF Types
<1> QED  BY <1>1, MainTypes DEF Types, RepoSound, Option

\* Only the daemon merges as the daemon.
LEMMA SameMerges ==
  ASSUME Core, Grows, repo' \in Repos,
         \A k \in DOMAIN repo'.main : k \in DOMAIN repo.main \/ repo'.main[k].by = "outside"
  PROVE  /\ DaemonMerged' <=> DaemonMerged
         /\ MergedOnce => MergedOnce'
         /\ Len(repo'.main) = Len(repo.main) =>
              \A h : OnMain(h)' <=> OnMain(h)
<1>1. Types /\ repo \in Repos
  BY DEF Core, Types
<1>2. /\ Len(repo.main) \in Nat /\ DOMAIN repo.main = 1 .. Len(repo.main)
      /\ Len(repo'.main) \in Nat /\ DOMAIN repo'.main = 1 .. Len(repo'.main)
  <2>1. /\ repo.main \in Seq(MainEntry) /\ repo'.main \in Seq(MainEntry)
    BY <1>1 DEF Repos
  <2> QED  BY <2>1
<1>3. /\ Len(repo.main) <= Len(repo'.main)
      /\ \A k \in DOMAIN repo.main : k \in DOMAIN repo'.main /\ repo'.main[k] = repo.main[k]
  BY <1>2 DEF Grows
<1>4. \A k \in DOMAIN repo.main : repo.main[k].head # None =>
        repo'.commit[repo.main[k].head] = repo.commit[repo.main[k].head]
  BY <1>1, MainEntries DEF Grows
<1>5. DaemonMerged' <=> DaemonMerged
  BY <1>3 DEF DaemonMerged, ByDaemon
<1>6. ASSUME MergedOnce PROVE MergedOnce'
  <2> SUFFICES ASSUME NEW k \in DOMAIN repo'.main, repo'.main[k].by = "daemon",
                      NEW j \in DOMAIN repo'.main, j # k, repo'.main[j].head # None
               PROVE  /\ repo'.main[j].by # "daemon"
                      /\ j < k =>
                           repo'.main[k].head \notin repo'.commit[repo'.main[j].head].contains
    BY DEF MergedOnce
  <2>1. k \in DOMAIN repo.main /\ repo'.main[k] = repo.main[k] /\ repo.main[k].by = "daemon"
    BY <1>3
  <2>2. CASE j \in DOMAIN repo.main
    <3>1. repo'.main[j] = repo.main[j] /\ repo.main[j].head # None
      BY <1>3, <2>2
    <3>2. repo'.commit[repo.main[j].head] = repo.commit[repo.main[j].head]
      BY <1>4, <2>2, <3>1
    <3>3. /\ repo.main[j].by # "daemon"
          /\ j < k => repo.main[k].head \notin repo.commit[repo.main[j].head].contains
      BY <1>6, <2>1, <2>2, <3>1 DEF MergedOnce
    <3> QED  BY <2>1, <3>1, <3>2, <3>3
  <2>3. CASE j \notin DOMAIN repo.main
    BY <1>2, <2>1, <2>3
  <2> QED  BY <2>2, <2>3
<1>7. ASSUME Len(repo'.main) = Len(repo.main), NEW h
      PROVE  OnMain(h)' <=> OnMain(h)
  <2>1. DOMAIN repo'.main = DOMAIN repo.main
    BY <1>2, <1>7
  <2> QED  BY <1>3, <1>4, <2>1 DEF OnMain
<1> QED  BY <1>5, <1>6, <1>7

\* The daemon puts a head on main that is not there, for the first time.
LEMMA MergedFirst ==
  ASSUME Core, ~DaemonMerged, NEW h \in Heads, Used(h), ~OnMain(h),
         repo' = Push("daemon", h)
  PROVE  MergedOnce'
<1>1. Types /\ repo \in Repos /\ RepoSound
  BY DEF Core, Types
<1> DEFINE n == Len(repo.main)
           d == "daemon"
<1>2. n \in Nat /\ DOMAIN repo.main = 1 .. n
  BY <1>1, MainTypes
<1>3. /\ repo' \in Repos /\ Len(repo'.main) = n + 1 /\ repo'.commit = repo.commit
      /\ repo'.main[n + 1].head = h
      /\ \A k \in DOMAIN repo.main : repo'.main[k] = repo.main[k]
  <2>1. h \in Option(Heads)
    BY DEF Option
  <2>2. PICK by \in {"daemon", "outside"} : by = d
    OBVIOUS
  <2>3. repo' = Push(by, h)
    BY <2>2
  <2>4. /\ repo' \in Repos /\ Grows /\ Len(repo'.main) = Len(repo.main) + 1
        /\ repo'.main[Len(repo'.main)] = [by |-> by, head |-> h]
        /\ repo'.commit = repo.commit
    BY <1>1, <2>1, <2>3, Pushed
  <2> QED  BY <2>4 DEF Grows
<1>4. DOMAIN repo'.main = 1 .. n + 1
  <2>1. repo'.main \in Seq(MainEntry)
    BY <1>3 DEF Repos
  <2> QED  BY <1>3, <2>1
<1>5. \A k \in DOMAIN repo.main : repo'.main[k].by # "daemon"
  BY <1>3 DEF DaemonMerged, ByDaemon
<1> SUFFICES ASSUME NEW k \in DOMAIN repo'.main, repo'.main[k].by = "daemon",
                    NEW j \in DOMAIN repo'.main, j # k, repo'.main[j].head # None
             PROVE  /\ repo'.main[j].by # "daemon"
                    /\ j < k =>
                         repo'.main[k].head \notin repo'.commit[repo'.main[j].head].contains
  BY DEF MergedOnce
<1>6. k = n + 1 /\ j \in DOMAIN repo.main
  BY <1>2, <1>4, <1>5
<1>7. repo'.main[j] = repo.main[j] /\ repo'.main[k].head = h
  BY <1>3, <1>6
<1>8. h \notin repo.commit[repo.main[j].head].contains
  BY <1>6, <1>7 DEF OnMain
<1> QED  BY <1>3, <1>5, <1>6, <1>7, <1>8

\* What keeps the merge sound when nobody but the outside touches main.
LEMMA MergedKept ==
  ASSUME Core, MergedSound, Grows, RepoSound', repo' \in Repos,
         \A k \in DOMAIN repo'.main : k \in DOMAIN repo.main \/ repo'.main[k].by = "outside",
         row'.st = row.st, DaemonMerged => ~FailureReported'
  PROVE  MergedSound' /\ (DaemonMerged' <=> DaemonMerged)
<1>1. repo \in Repos /\ RepoSound
  BY DEF Core, Types
<1>2. PICK h : h = row.st.current_head
  OBVIOUS
<1>3. row'.st.current_head = h
  BY <1>2
<1>4. OnMain(h) => OnMain(h)'
  BY <1>1, StillThere
<1>5. (DaemonMerged' <=> DaemonMerged) /\ MergedOnce'
  BY SameMerges DEF MergedSound
<1>6. OnMain(h) => OnMain(row.st.current_head)'
  BY <1>3, <1>4
<1> QED  BY <1>2, <1>5, <1>6 DEF MergedSound

\* The queue stays as it is.
LEMMA SameQueue ==
  ASSUME QueueSound, proc'.queue = proc.queue, row'.st = row.st \/ ~AnswerQueued,
         row'.note /\ proc'.served => ~AnswerQueued
  PROVE  QueueSound' /\ (AnswerQueued' <=> AnswerQueued)
<1>1. AnswerQueued' <=> AnswerQueued
  BY DEF AnswerQueued, AnswerAt
<1>2. AnswerQueued' => MergeInFlight(Flow, row.st)'
  BY <1>1 DEF QueueSound
<1>3. (\A j, k \in DOMAIN proc.queue : AnswerAt(j) /\ AnswerAt(k) => j = k)'
  BY DEF QueueSound, AnswerAt
<1> QED  BY <1>1, <1>2, <1>3 DEF QueueSound

LEMMA QueueWithout ==
  ASSUME ~AnswerQueued'
  PROVE  QueueSound'
BY DEF QueueSound, AnswerQueued

LEMMA EmptyQueue ==
  ASSUME proc.queue = <<>>
  PROVE  ~AnswerQueued
BY DEF AnswerQueued

\* A turn of the loop that does not touch main.
Turned ==
  /\ Core' /\ row'.st = row.st /\ repo'.main = repo.main
  /\ Grows /\ RepoSound' /\ repo' \in Repos

LEMMA TurnedMerged ==
  ASSUME Core, MergedSound, Turned, DaemonMerged => ~FailureReported'
  PROVE  MergedSound'
BY MergedKept DEF Turned

LEMMA Unforged ==
  ASSUME proc'.doing.at \notin MergeSteps
  PROVE  ForgeSound'
BY DEF ForgeSound, MergeSteps, ForgeSteps

LEMMA TakesOnce ==
  ASSUME Core, Once, NEW e, Takes(e), Core'
  PROVE  Once'
<1>1. proc \in Procs(issued) /\ Types
  BY DEF Core, Types
<1>2. Turned
  <2>1. repo' = repo /\ row' = row
    BY DEF Takes
  <2> QED  BY <1>1, <2>1, SameRepo DEF Turned
<1>3. /\ ~InHand /\ proc'.doing.at = "receive" /\ proc'.doing.event = e
      /\ row' = row /\ (proc'.served => proc.served \/ proc'.queue = <<>>)
  BY DEF Takes, InHand, Idle
<1>4. ForgeSound'
  BY <1>3, Unforged DEF MergeSteps, ForgeSteps
<1>5. CASE proc'.queue = proc.queue /\ e.kind \notin AnswerKinds
  <2>1. proc'.served => proc.served \/ ~AnswerQueued
    BY <1>3, <1>5, EmptyQueue
  <2>2. QueueSound' /\ (AnswerQueued' <=> AnswerQueued)
    BY <1>3, <1>5, <2>1, SameQueue DEF Once, QueueSound
  <2>3. HandSound'
    BY <1>3, <1>5 DEF HandSound, AnswerInHand, MergeAsked, MergeSteps, ForgeSteps
  <2>4. FailureReported' => FailureReported
    BY <1>3, <1>5 DEF FailureReported, AnswerKinds
  <2>5. MergedSound'
    BY <1>2, <2>4, TurnedMerged DEF Once, MergedSound
  <2> QED  BY <1>4, <2>2, <2>3, <2>5 DEF Once
<1>6. CASE proc.queue # <<>> /\ proc'.queue = Tail(proc.queue) /\ e = Head(proc.queue)
  <2>1. 1 \in DOMAIN proc.queue /\ e = proc.queue[1]
    BY <1>1, <1>6, QueueTypes
  <2>2. \A k \in DOMAIN proc'.queue :
          k \in Nat \ {0} /\ k + 1 \in DOMAIN proc.queue /\ proc'.queue[k] = proc.queue[k + 1]
    BY <1>1, <1>6, QueueTypes
  <2>3. \A k \in DOMAIN proc'.queue : AnswerAt(k)' => AnswerAt(k + 1)
    BY <2>2 DEF AnswerAt
  <2>4. AnswerQueued' => AnswerQueued
    BY <2>2, <2>3 DEF AnswerQueued
  <2>5. (\A j, k \in DOMAIN proc.queue : AnswerAt(j) /\ AnswerAt(k) => j = k)'
    <3> SUFFICES ASSUME NEW j \in DOMAIN proc'.queue, NEW k \in DOMAIN proc'.queue,
                        AnswerAt(j)', AnswerAt(k)'
                 PROVE  j = k
      OBVIOUS
    <3>1. j + 1 = k + 1
      BY <2>2, <2>3 DEF Once, QueueSound
    <3> QED  BY <2>2, <3>1
  <2>6. row'.note /\ proc'.served => ~AnswerQueued'
    <3>1. proc'.queue = <<>> => ~AnswerQueued'
      BY DEF AnswerQueued
    <3> QED  BY <1>3, <2>4, <3>1 DEF Once, QueueSound
  <2>7. QueueSound'
    BY <1>3, <2>4, <2>5, <2>6 DEF Once, QueueSound
  <2>8. e.kind \in AnswerKinds => AnswerQueued /\ ~AnswerQueued'
    <3> SUFFICES ASSUME AnswerAt(1) PROVE AnswerQueued /\ ~AnswerQueued'
      BY <2>1 DEF AnswerAt
    <3>1. ASSUME NEW k \in DOMAIN proc'.queue, AnswerAt(k)'
          PROVE  FALSE
      <4>1. k + 1 = 1
        BY <2>1, <2>2, <2>3, <3>1 DEF Once, QueueSound
      <4> QED  BY <2>2, <3>1, <4>1
    <3> QED  BY <2>1, <3>1 DEF AnswerQueued
  <2>9. HandSound'
    <3>1. AnswerInHand' => e.kind \in AnswerKinds
      BY <1>3 DEF AnswerInHand
    <3>2. AnswerInHand' => MergeInFlight(Flow, row.st)' /\ ~AnswerQueued'
      BY <1>3, <2>8, <3>1 DEF Once, QueueSound
    <3> QED  BY <1>3, <3>2 DEF HandSound, MergeAsked, MergeSteps, ForgeSteps
  <2>10. FailureReported' => FailureReported
    BY <1>3, <2>1, <2>2 DEF FailureReported
  <2>11. MergedSound'
    BY <1>2, <2>10, TurnedMerged DEF Once, MergedSound
  <2> QED  BY <1>4, <2>7, <2>9, <2>11 DEF Once
<1> QED  BY <1>5, <1>6 DEF Takes

\* A step of the merge that goes on: what the forge knows is shown for each.
LEMMA GoesOnOnce ==
  ASSUME Core, Once, GoesOn, ForgeSound', MergedSound'
  PROVE  Once'
<1>1. ~AnswerQueued /\ ~(row.note /\ proc.served)
  BY DEF Once, HandSound, GoesOn
<1>2. QueueSound' /\ ~AnswerQueued'
  BY <1>1, SameQueue DEF Once, GoesOn
<1>3. HandSound'
  BY <1>1, <1>2 DEF HandSound, AnswerInHand, InHand, ForgeSteps, GoesOn, MergeAsked
<1> QED  BY <1>2, <1>3 DEF Once

\* A merge step that reports: there was no answer, and now there may be one.
LEMMA EndsOnce ==
  ASSUME Core, Once, NEW kind, Ends(kind), Core', kind = "MergeFailed" => ~DaemonMerged
  PROVE  Once'
<1>1. proc \in Procs(issued) /\ Types
  BY DEF Core, Types
<1>2. PICK r \in Seq(EventRecord) :
        Posts(r) /\ Reports(r, kind) /\ (row'.note => row.note \/ r = <<>>)
  BY DEF Ends
<1>3. /\ proc.doing.at \in MergeSteps /\ proc'.doing = Idle
      /\ row'.st = row.st /\ proc'.queue = proc.queue \o r /\ proc'.served = proc.served
  BY <1>2 DEF Posts
<1>4. MergeInFlight(Flow, row.st)
  BY <1>3 DEF Core, DoingSound
<1>5. ~AnswerQueued /\ ~(row.note /\ proc.served)
  BY <1>3 DEF Once, HandSound
<1>6. /\ Len(r) \in Nat
      /\ \A k \in DOMAIN proc'.queue :
           \/ k \in DOMAIN proc.queue /\ proc'.queue[k] = proc.queue[k]
           \/ /\ k \in Nat /\ Len(proc.queue) \in Nat /\ k - Len(proc.queue) \in DOMAIN r
              /\ proc'.queue[k] = r[k - Len(proc.queue)]
  BY <1>1, <1>2, <1>3, Appended
<1>7. \A k \in DOMAIN proc'.queue : AnswerAt(k)' =>
        /\ k \in Nat /\ Len(proc.queue) \in Nat
        /\ k - Len(proc.queue) = Len(r) /\ proc'.queue[k].kind = kind /\ r # <<>>
  <2> SUFFICES ASSUME NEW k \in DOMAIN proc'.queue, AnswerAt(k)'
               PROVE  /\ k \in Nat /\ Len(proc.queue) \in Nat
                      /\ k - Len(proc.queue) = Len(r) /\ proc'.queue[k].kind = kind
                      /\ r # <<>>
    OBVIOUS
  <2>1. ~(k \in DOMAIN proc.queue /\ proc'.queue[k] = proc.queue[k])
    BY <1>5 DEF AnswerQueued, AnswerAt
  <2> QED  BY <1>2, <1>6, <2>1 DEF AnswerAt, Reports
<1>8. QueueSound'
  <2>1. (\A j, k \in DOMAIN proc.queue : AnswerAt(j) /\ AnswerAt(k) => j = k)'
    BY <1>6, <1>7
  <2>2. row'.note /\ proc'.served => ~AnswerQueued'
    BY <1>2, <1>3, <1>5, <1>7 DEF AnswerQueued
  <2> QED  BY <1>3, <1>4, <2>1, <2>2 DEF QueueSound
<1>9. ~InHand' /\ HandSound' /\ ForgeSound'
  BY <1>3, Unforged DEF InHand, Idle, HandSound, AnswerInHand, MergeAsked, MergeSteps,
                       ForgeSteps
<1>10. FailureReported' => FailureReported \/ kind = "MergeFailed"
  BY <1>6, <1>7, <1>9 DEF FailureReported, AnswerAt, AnswerKinds
<1>11. Turned
  BY <1>3 DEF Ends, Turned
<1>12. MergedSound'
  BY <1>10, <1>11, TurnedMerged DEF Once, MergedSound
<1> QED  BY <1>8, <1>9, <1>12 DEF Once

\* A head that is not on main was not put there by the daemon.
LEMMA NotMerged ==
  ASSUME Core, MergedSound, proc.doing.at \in MergeSteps, ~OnMain(proc.doing.head)
  PROVE  ~DaemonMerged
BY DEF MergedSound, Core, DoingSound

LEMMA PrepareMergeOnce ==
  ASSUME Core, Once, PrepareMerge, Core'
  PROVE  Once'
<1>1. GoesOn /\ row' = row /\ repo' = repo /\ proc'.doing.at = "forge"
  BY PrepareMergeGoesOn
<1>2. Turned
  BY <1>1, SameRepo DEF Turned, Core
<1>3. ~FailureReported' \/ FailureReported
  BY <1>1 DEF FailureReported, GoesOn, InHand
<1>4. ForgeSound' /\ MergedSound'
  BY <1>1, <1>2, <1>3, TurnedMerged DEF ForgeSound, Once, MergedSound
<1> QED  BY <1>1, <1>4, GoesOnOnce

\* The forge goes on: main is what it was.
LEMMA ForgeOnOnce ==
  ASSUME Core, Once, Core', GoesOn, repo' = repo,
         proc'.doing.at \in {"intent", "recheck", "move"} =>
           \/ /\ ~DaemonMerged /\ ~OnMain(proc.doing.head)
              /\ proc'.doing.main = Len(repo.main)
           \/ /\ proc.doing.at \in {"intent", "recheck", "move"}
              /\ proc'.doing.main = proc.doing.main
  PROVE  Once'
<1>1. Types /\ Len(repo.main) \in Nat
  BY MainTypes DEF Core, Types
<1>2. Turned
  BY <1>1, SameRepo DEF Turned, GoesOn
<1>3. FailureReported' => FailureReported
  BY DEF FailureReported, GoesOn, InHand, ForgeSteps
<1>4. MergedSound' /\ (DaemonMerged' <=> DaemonMerged)
  BY <1>2, <1>3, MergedKept, TurnedMerged DEF Once, MergedSound, DaemonMerged, ByDaemon
<1>5. PICK h : h = proc.doing.head
  OBVIOUS
<1>6. proc'.doing.head = h /\ (OnMain(h)' <=> OnMain(h))
  BY <1>5 DEF GoesOn, OnMain
<1>7. OnMain(proc.doing.head)' <=> OnMain(h)
  BY <1>6
<1>8. ForgeSound'
  <2> SUFFICES ASSUME proc'.doing.at \in {"intent", "recheck", "move"}
               PROVE  /\ ~DaemonMerged' /\ proc'.doing.main <= Len(repo'.main)
                      /\ Len(repo'.main) = proc'.doing.main => ~OnMain(proc.doing.head)'
    BY DEF ForgeSound
  <2>1. CASE /\ ~DaemonMerged /\ ~OnMain(proc.doing.head)
             /\ proc'.doing.main = Len(repo.main)
    BY <1>1, <1>4, <1>5, <1>7, <2>1 DEF Once, ForgeSound
  <2>2. CASE /\ proc.doing.at \in {"intent", "recheck", "move"}
             /\ proc'.doing.main = proc.doing.main
    BY <1>1, <1>4, <1>5, <1>7, <2>2 DEF Once, ForgeSound
  <2> QED  BY <2>1, <2>2
<1> QED  BY <1>4, <1>8, GoesOnOnce

LEMMA MovedOnce ==
  ASSUME Core, Once, Core', GoesOn, proc.doing.at = "move", proc'.doing.at = "moved",
         row' = row, Len(repo.main) = proc.doing.main,
         repo' = Push("daemon", proc.doing.head)
  PROVE  Once'
<1>1. ~DaemonMerged /\ ~OnMain(proc.doing.head) /\ proc.doing.at \in LateSteps
  BY DEF Once, ForgeSound, LateSteps
<1>2. /\ MergeInFlight(Flow, row.st) /\ proc.doing.head = row.st.current_head
      /\ Used(proc.doing.head)
  BY <1>1 DEF Core, DoingSound, LateSteps, MergeSteps, ForgeSteps
<1>3. proc.doing.head \in Heads
  BY DoingTypes DEF Core, Types, MergeSteps, ForgeSteps
<1>4. MergedOnce'
  BY <1>1, <1>2, <1>3, MergedFirst
<1>5. FailureReported' => AnswerQueued
  BY DEF FailureReported, AnswerQueued, AnswerAt, AnswerKinds, GoesOn, InHand
<1>6. ~AnswerQueued
  BY DEF Once, HandSound, MergeSteps, ForgeSteps
<1>7. row.st.status = "running"
  BY <1>2 DEF MergeInFlight, InStage
<1>8. OnMain(row.st.current_head)'
  BY <1>2 DEF Core, DoingSound, GoesOn
<1>9. row.st.current_head # None
  BY <1>2, <1>7, HeadPresent DEF Core, Machine, MergeInFlight, InStage, NeedsHead, IsKind
<1>10. MergedSound'
  BY <1>2, <1>4, <1>5, <1>6, <1>7, <1>8, <1>9 DEF MergedSound
<1>11. ForgeSound'
  BY DEF ForgeSound
<1> QED  BY <1>10, <1>11, GoesOnOnce

LEMMA MergeStepOnce ==
  ASSUME Core, Once, MergeStep, Core'
  PROVE  Once'
<1>1. CASE PrepareMerge
  BY <1>1, PrepareMergeOnce
<1>2. CASE \E c \in BOOLEAN, h \in Heads, p \in Patches : Rebase(c, h, p)
  BY <1>2, RebaseEnds, NotMerged, EndsOnce DEF Once, Ends, Posts
<1>3. CASE ForgeLooks
  <2>1. CASE Ends("MergeCompleted")
    BY <2>1, EndsOnce
  <2>2. CASE Ends("MergeFailed") /\ ~OnMain(proc.doing.head)
    BY <2>2, NotMerged, EndsOnce DEF Once, Ends, Posts
  <2>3. CASE /\ GoesOn /\ proc'.doing.at = "intent" /\ repo' = repo
             /\ proc'.doing.main = Len(repo.main) /\ ~OnMain(proc.doing.head)
    BY <2>3, NotMerged, ForgeOnOnce DEF Once, GoesOn
  <2> QED  BY <1>3, <2>1, <2>2, <2>3, ForgeLooksEnds
<1>4. CASE RecordIntent
  <2>1. proc.doing.at = "intent"
    BY <1>4 DEF RecordIntent, Doing
  <2> QED  BY <1>4, <2>1, RecordIntentGoesOn, ForgeOnOnce
<1>5. CASE RecheckRefs
  <2>1. CASE Ends("MergeFailed")
    BY <1>5, <2>1, RecheckRefsEnds, EndsOnce DEF Once, ForgeSound
  <2>2. CASE GoesOn /\ proc'.doing.at = "move" /\ proc'.doing.main = proc.doing.main
    BY <1>5, <2>2, RecheckRefsEnds, ForgeOnOnce
  <2> QED  BY <1>5, <2>1, <2>2, RecheckRefsEnds
<1>6. CASE MoveMain
  <2>1. CASE Ends("MergeFailed")
    BY <1>6, <2>1, MoveMainEnds, EndsOnce DEF Once, ForgeSound
  <2>2. CASE /\ GoesOn /\ proc'.doing.at = "moved" /\ row' = row
             /\ Len(repo.main) = proc.doing.main /\ repo' = Push("daemon", proc.doing.head)
    BY <1>6, <2>2, MoveMainEnds, MovedOnce
  <2> QED  BY <1>6, <2>1, <2>2, MoveMainEnds
<1>7. CASE ReportMerge
  BY <1>7, ReportMergeEnds, EndsOnce
<1> QED  BY <1>1, <1>2, <1>3, <1>4, <1>5, <1>6, <1>7 DEF MergeStep

\* A handler after which nothing is in hand and nothing merges: only the queue
\* can still say something of a merge.
LEMMA QuietOnce ==
  ASSUME Core, Once, Core', QueueSound', repo' = repo, row'.st = row.st,
         ~InHand', proc'.doing.at \notin MergeSteps,
         MergeAsked' => ~AnswerQueued' /\ ~(row'.note /\ proc'.served),
         \A k \in DOMAIN proc'.queue : proc'.queue[k].kind = "MergeFailed" =>
           \E j \in DOMAIN proc.queue : proc.queue[j].kind = "MergeFailed"
  PROVE  Once'
<1>1. Turned
  BY SameRepo DEF Turned, Core
<1>2. FailureReported' => FailureReported
  BY DEF FailureReported
<1>3. MergedSound'
  BY <1>1, <1>2, TurnedMerged DEF Once, MergedSound
<1>4. HandSound' /\ ForgeSound'
  BY Unforged DEF HandSound, AnswerInHand
<1> QED  BY <1>3, <1>4 DEF Once

\* What is asked again of a merge in flight, with no answer on its way.
LEMMA AsksAgainOnce ==
  ASSUME Core, Once, Core', AsksAgain,
         proc'.queue = proc.queue \/ proc'.queue = <<>>,
         MergeInFlight(Flow, row.st) =>
           proc'.queue = <<>> \/ ~AnswerQueued,
         MergeInFlight(Flow, row.st) => ~(row'.note /\ proc'.served),
         ~MergeInFlight(Flow, row.st) => ~AnswerQueued
  PROVE  Once'
<1>1. ~AnswerQueued'
  BY EmptyQueue DEF AnswerQueued, AnswerAt
<1>2. MergeAsked' => MergeInFlight(Flow, row.st)
  BY Outstanding DEF AsksAgain, MergeAsked
<1>3. ~InHand' /\ proc'.doing.at \notin MergeSteps
  BY DEF AsksAgain, InHand, MergeSteps, ForgeSteps
<1>4. QueueSound'
  BY <1>1, QueueWithout
<1>5. \A k \in DOMAIN proc'.queue : proc'.queue[k].kind # "MergeFailed"
  BY <1>1 DEF AnswerQueued, AnswerAt, AnswerKinds
<1> QED  BY <1>1, <1>2, <1>3, <1>4, <1>5, QuietOnce DEF AsksAgain

LEMMA UnblockOnce ==
  ASSUME Core, Once, Unblock, Core'
  PROVE  Once'
<1>1. AsksAgain /\ proc'.queue = proc.queue /\ row.status = "blocked"
  BY UnblockAsks
<1>2. ~MergeInFlight(Flow, row.st) /\ ~AnswerQueued
  BY <1>1 DEF Core, StatusSound, Once, QueueSound
<1> QED  BY <1>1, <1>2, AsksAgainOnce

LEMMA RetryOnce ==
  ASSUME Core, Once, Retry, Core'
  PROVE  Once'
<1>1. AsksAgain /\ proc'.queue = proc.queue /\ row.note /\ ~row'.note /\ Serving
  BY RetryAsks
<1>2. ~AnswerQueued
  BY <1>1, EmptyQueue DEF Serving, Once, QueueSound
<1> QED  BY <1>1, <1>2, AsksAgainOnce

LEMMA BootOnce ==
  ASSUME Core, Once, Boot, Core'
  PROVE  Once'
<1>1. /\ row'.st = row.st /\ repo' = repo /\ proc'.queue = <<>> /\ ~proc'.served
      /\ \/ proc'.doing = [at |-> "cleanup"] \/ proc'.doing = Idle \/ AsksAgain
         \/ proc'.doing.at = "receive" /\ proc'.doing.event.kind = "Start"
  BY BootTakesUp
<1>2. ~AnswerQueued' /\ QueueSound' /\ DOMAIN proc'.queue = {}
  BY <1>1, QueueWithout DEF AnswerQueued
<1>3. CASE proc'.doing.at \in {"cleanup", "idle"}
  BY <1>1, <1>2, <1>3, QuietOnce DEF InHand, MergeAsked, MergeSteps, ForgeSteps
<1>4. CASE AsksAgain
  <2>1. ~InHand' /\ proc'.doing.at \notin MergeSteps
    BY <1>4 DEF AsksAgain, InHand, MergeSteps, ForgeSteps
  <2> QED  BY <1>1, <1>2, <2>1, QuietOnce
<1>5. CASE proc'.doing.at = "receive" /\ proc'.doing.event.kind = "Start"
  <2>1. Turned
    BY <1>1, SameRepo DEF Turned, Core
  <2>2. ~FailureReported' /\ ~AnswerInHand'
    BY <1>2, <1>5 DEF FailureReported, AnswerInHand, AnswerKinds
  <2>3. MergedSound'
    BY <2>1, <2>2, TurnedMerged DEF Once
  <2>4. HandSound' /\ ForgeSound'
    BY <1>5, <2>2, Unforged DEF HandSound, MergeAsked, MergeSteps, ForgeSteps
  <2> QED  BY <1>2, <2>3, <2>4 DEF Once
<1> QED  BY <1>1, <1>3, <1>4, <1>5 DEF Idle

\* A check is running only for a stage that asked for one: a merge stage did
\* not.
LEMMA CheckedNotMerging ==
  ASSUME Core, row.st.status = "running",
         NEW c \in proc.checking, c.ticket = Ticket(row.st)
  PROVE  ~MergeInFlight(Flow, row.st)
<1> DEFINE s == row.st
           i == s.stage_index
           k == s.attempts[i]
<1>1. PICK a \in issued : a.kind = "RunCommand" /\ c.ticket = <<a.stage, a.attempt>>
  BY DEF Core, ChecksSound
<1>2. i \in Index(Flow)
  BY DEF Core, Machine, StepInv, Position
<1>3. a.stage = i /\ a.attempt = k
  BY <1>1, <1>2 DEF Ticket, Attempt
<1>4. Concerning(issued, i, k) = Expected(Flow, s)
  BY DEF Core, Machine, Asking, Waits
<1>5. a \in Asks(issued)
  BY <1>1 DEF Asks, RequestKind
<1>6. a \in Expected(Flow, s)
  BY <1>3, <1>4, <1>5 DEF Concerning
<1>7. a = OpenRequest(Flow, s)
  BY <1>1, <1>6 DEF Expected, Act
<1> QED  BY <1>1, <1>7 DEF OpenRequest, RequestFor, MergeInFlight, InStage, IsKind, Act

LEMMA DropsOnce ==
  ASSUME Core, Once, Drops, Core'
  PROVE  Once'
<1>1. /\ proc'.queue = proc.queue /\ row'.st = row.st /\ repo' = repo
      /\ (proc'.served => proc.served \/ proc.queue = <<>>) /\ proc'.doing = Idle
      /\ row'.note => \/ row.note
                      \/ /\ row.status = "running"
                         /\ \E c \in proc.checking : c.ticket = Ticket(row.st)
  BY DEF Drops
<1>2. row'.note /\ proc'.served => ~AnswerQueued
  <2>1. CASE row.note
    BY <1>1, <2>1, EmptyQueue DEF Once, QueueSound
  <2>2. CASE row.status = "running" /\ \E c \in proc.checking : c.ticket = Ticket(row.st)
    <3>1. row.st.status = "running"
      BY <2>2 DEF Core, StatusSound, TaskStatus
    <3> QED  BY <2>2, <3>1, CheckedNotMerging DEF Once, QueueSound
  <2> QED  BY <1>1, <2>1, <2>2
<1>3. QueueSound'
  BY <1>1, <1>2, SameQueue DEF Once
<1>4. ~InHand' /\ proc'.doing.at \notin MergeSteps /\ ~MergeAsked'
  BY <1>1 DEF InHand, Idle, MergeAsked, MergeSteps, ForgeSteps
<1> QED  BY <1>1, <1>3, <1>4, QuietOnce

LEMMA BlockOnce ==
  ASSUME Core, Once, Block, Core'
  PROVE  Once'
<1>1. /\ proc'.queue = proc.queue /\ row'.st = row.st /\ repo' = repo
      /\ ~MergeInFlight(Flow, row.st) /\ proc'.doing = Idle
  BY BlockDrops
<1>2. ~AnswerQueued
  BY <1>1 DEF Once, QueueSound
<1>3. QueueSound'
  BY <1>1, <1>2, SameQueue DEF Once
<1>4. ~InHand' /\ proc'.doing.at \notin MergeSteps /\ ~MergeAsked'
  BY <1>1 DEF InHand, Idle, MergeAsked, MergeSteps, ForgeSteps
<1> QED  BY <1>1, <1>3, <1>4, QuietOnce

\* What the actions of a step come to: a merge begins only where no answer to
\* one is on its way.
LEMMA PerformsOnce ==
  ASSUME Core, Once, Performs, Core'
  PROVE  Once'
<1>1. /\ proc \in Procs(issued) /\ repo' = repo /\ row'.st = row.st /\ row'.note = row.note
      /\ proc'.served = proc.served /\ proc.doing.at = "act"
  BY DEF Core, Types, Performs
<1>2. \A k \in DOMAIN proc'.queue :
        \/ k \in DOMAIN proc.queue /\ proc'.queue[k] = proc.queue[k]
        \/ proc'.queue[k].kind = "Submitted"
  <2>1. CASE proc'.queue = proc.queue
    BY <2>1
  <2>2. CASE \E f \in EventRecord : f.kind = "Submitted" /\ proc'.queue = proc.queue \o <<f>>
    <3>1. PICK f \in EventRecord : f.kind = "Submitted" /\ proc'.queue = proc.queue \o <<f>>
      BY <2>2
    <3>2. PICK r : r = <<f>>
      OBVIOUS
    <3>3. r \in Seq(EventRecord) /\ DOMAIN r = {1} /\ r[1] = f
      BY <3>2, OneEvent
    <3>4. proc'.queue = proc.queue \o r
      BY <3>1, <3>2
    <3> QED  BY <1>1, <3>1, <3>3, <3>4, Appended
  <2> QED  BY <2>1, <2>2 DEF Performs
<1>3. \A k \in DOMAIN proc'.queue : AnswerAt(k)' => k \in DOMAIN proc.queue /\ AnswerAt(k)
  BY <1>2 DEF AnswerAt, AnswerKinds
<1>4. AnswerQueued' => AnswerQueued
  BY <1>3 DEF AnswerQueued
<1>5. QueueSound'
  BY <1>1, <1>3, <1>4 DEF Once, QueueSound
<1>6. InHand' => InHand /\ proc'.doing.event = proc.doing.event
  BY <1>1 DEF Performs, InHand, Idle
<1>7. proc'.doing.at \in MergeSteps => MergeAsked /\ proc'.doing.at = "prepare"
  BY <1>1 DEF Performs, MergeSteps, ForgeSteps, Idle
<1>8. HandSound'
  <2>1. AnswerInHand' => AnswerInHand
    BY <1>6 DEF AnswerInHand
  <2>2. ~MergeAsked'
    BY DEF Performs, MergeAsked, Idle
  <2> QED  BY <1>1, <1>4, <1>7, <2>1, <2>2 DEF Once, HandSound
<1>9. ForgeSound'
  BY <1>7 DEF ForgeSound, MergeSteps, ForgeSteps
<1>10. FailureReported' => FailureReported
  BY <1>2, <1>6 DEF FailureReported
<1>11. Turned
  BY <1>1, SameRepo DEF Turned, Core
<1>12. MergedSound'
  BY <1>10, <1>11, TurnedMerged DEF Once, MergedSound
<1> QED  BY <1>5, <1>8, <1>9, <1>12 DEF Once

LEMMA CleanupOnce ==
  ASSUME Core, Once, Cleanup, Core'
  PROVE  Once'
<1>1. /\ row'.st = row.st /\ row'.note = row.note /\ repo' = Release
      /\ proc'.doing = Idle /\ proc'.queue = proc.queue /\ proc'.served = proc.served
  BY CleanupEnds DEF Ended
<1>2. Turned
  BY <1>1, Released DEF Turned, Core, Types
<1>3. QueueSound'
  BY <1>1, SameQueue DEF Once, QueueSound
<1>4. ~InHand' /\ ~MergeAsked' /\ proc'.doing.at \notin MergeSteps
  BY <1>1 DEF InHand, Idle, MergeAsked, MergeSteps, ForgeSteps
<1>5. FailureReported' => FailureReported
  BY <1>1, <1>4 DEF FailureReported
<1>6. MergedSound'
  BY <1>2, <1>5, TurnedMerged DEF Once, MergedSound
<1> QED  BY <1>3, <1>4, <1>6, Unforged DEF Once, HandSound, AnswerInHand

LEMMA CrashOnce ==
  ASSUME Core, Once, Crash, Core'
  PROVE  Once'
<1>1. /\ row'.st = row.st /\ repo' = repo /\ proc'.doing = Idle /\ proc'.queue = <<>>
  BY CrashEnds DEF Ended
<1>2. ~AnswerQueued' /\ QueueSound' /\ DOMAIN proc'.queue = {}
  BY <1>1, QueueWithout DEF AnswerQueued
<1>3. ~InHand' /\ ~MergeAsked' /\ proc'.doing.at \notin MergeSteps
  BY <1>1 DEF InHand, Idle, MergeAsked, MergeSteps, ForgeSteps
<1> QED  BY <1>1, <1>2, <1>3, QuietOnce

\* An answer that is refused came to nothing: none is on its way any more.
LEMMA SkipsOnce ==
  ASSUME Core, Once, Skips, Core'
  PROVE  Once'
<1>1. /\ row' = row /\ repo' = repo /\ proc'.doing = Idle /\ proc'.queue = proc.queue
      /\ proc'.served = proc.served
  BY DEF Skips
<1>2. QueueSound'
  BY <1>1, SameQueue DEF Once, QueueSound
<1>3. ~InHand' /\ ~MergeAsked' /\ proc'.doing.at \notin MergeSteps
  BY <1>1 DEF InHand, Idle, MergeAsked, MergeSteps, ForgeSteps
<1> QED  BY <1>1, <1>2, <1>3, QuietOnce

\* What is known of the event f that waits, and of what the queue says.
LEMMA GivenHands ==
  ASSUME Core, Once, NEW u, NEW f, NEW n, Given(u, f, n)
  PROVE  /\ proc.doing.at \in {"receive", "apply"} /\ InHand
         /\ InHand' => f = proc.doing.event /\ u.kind = "CommitCreated"
         /\ AnswerInHand' => AnswerInHand
         /\ FailureReported' => FailureReported
         /\ AnswerQueued' <=> AnswerQueued
         /\ MergeAsked' => n.actions # {}
         /\ proc'.doing.at \notin MergeSteps
<1>1. InHand /\ proc'.doing = [at |-> "act", acts |-> n.actions, event |-> f]
  BY DEF Given, InHand
<1>2. InHand' => f = proc.doing.event /\ u.kind = "CommitCreated"
  BY <1>1 DEF InHand, Given
<1>3. InHand' => proc'.doing.event = proc.doing.event
  BY <1>1, <1>2
<1>4. proc'.queue = proc.queue
  BY DEF Given
<1>5. FailureReported' => FailureReported
  BY <1>1, <1>3, <1>4 DEF FailureReported
<1>6. AnswerQueued' <=> AnswerQueued
  BY <1>4 DEF AnswerQueued, AnswerAt
<1>7. MergeAsked' => n.actions # {}
  BY <1>1 DEF MergeAsked
<1>8. AnswerInHand' => AnswerInHand
  BY <1>1, <1>3 DEF AnswerInHand
<1>9. proc'.doing.at \notin MergeSteps
  BY <1>1 DEF MergeSteps, ForgeSteps
<1>10. proc.doing.at \in {"receive", "apply"}
  BY DEF Given
<1> QED  BY <1>1, <1>2, <1>5, <1>6, <1>7, <1>8, <1>9, <1>10

\* A task that the state machine gives an event has not ended.
LEMMA GivenOpen ==
  ASSUME Core, NEW u, NEW f, NEW n, Given(u, f, n)
  PROVE  row.st.status # "done"
<1>1. ~Closed(row.status)
  BY DEF Given, Refuses
<1> QED  BY <1>1 DEF Core, StatusSound, TaskStatus, Closed

\* A workflow with a merge is done by a merge that is on main.
LEMMA DoneByMerge ==
  ASSUME Core, NEW u, NEW f, NEW n, Given(u, f, n), n.status = "done", HasMerge(Flow)
  PROVE  /\ u.kind = "MergeCompleted" /\ MergeInFlight(Flow, row.st)
         /\ n.current_head = row.st.current_head /\ OnMain(row.st.current_head)
<1>1. u.kind = "MergeCompleted"
  BY DEF Given, Rightly, Apt
<1>2. /\ MergeInFlight(Flow, row.st) /\ n.current_head = row.st.current_head
      /\ u.head = row.st.current_head
  BY <1>1, TicketType, ReportedMerge DEF Given
<1>3. OnMain(u.head)
  BY <1>1 DEF Given, EventSound
<1> QED  BY <1>1, <1>2, <1>3

\* The head of a merge in flight is one.
LEMMA MergingHead ==
  ASSUME Core, MergeInFlight(Flow, row.st)
  PROVE  row.st.current_head # None
BY HeadPresent DEF Core, Machine, MergeInFlight, InStage, NeedsHead, IsKind

\* What is said of main holds on, when the step keeps the head the daemon has
\* merged.
LEMMA GivenMerged ==
  ASSUME Core, MergedSound, NEW u, NEW f, NEW n, Given(u, f, n),
         DaemonMerged =>
           /\ n.current_head = row.st.current_head /\ ~FailureReported'
           /\ MergeInFlight(Flow, n) \/ n.status = "done"
  PROVE  MergedSound'
<1>1. repo' = repo
  BY DEF Given
<1>2. /\ row'.st.status = n.status /\ row'.st.stage_index = n.stage_index
      /\ row'.st.current_head = n.current_head
  BY GivenMachine
<1>3. PICK h : h = n.current_head
  OBVIOUS
<1>4. (DaemonMerged' <=> DaemonMerged) /\ MergedOnce' /\ (OnMain(h)' <=> OnMain(h))
  BY <1>1 DEF DaemonMerged, ByDaemon, MergedOnce, MergedSound, OnMain
<1>5. OnMain(row.st.current_head)' <=> OnMain(h)
  BY <1>2, <1>3, <1>4
<1>6. MergeInFlight(Flow, row.st)' <=> MergeInFlight(Flow, n)
  BY <1>2 DEF MergeInFlight, InStage, IsKind
<1>7. n.status = "done" /\ HasMerge(Flow) => OnMain(h) /\ h # None
  BY <1>3, DoneByMerge, MergingHead
<1>8. DaemonMerged => OnMain(h) /\ h # None
  BY <1>3 DEF MergedSound
<1> QED  BY <1>2, <1>3, <1>4, <1>5, <1>6, <1>7, <1>8 DEF MergedSound

LEMMA GivenOnce ==
  ASSUME Core, Once, NEW u \in EventRecord, NEW f, NEW n, Given(u, f, n), Core'
  PROVE  Once'
<1>1. Stored(row.st) /\ Meant(u) /\ n = Step(row.st, u) /\ n.status # "refused"
  <2>1. Stored(row.st)
    BY TicketType DEF Stored, Core, Machine
  <2> QED  BY <2>1 DEF Given, Meant, EventSound, EventRecord
<1>2. /\ row'.st.status = n.status /\ row'.st.stage_index = n.stage_index /\ ~row'.note
      /\ proc'.queue = proc.queue
  BY GivenMachine DEF Given
<1>3. ForgeSound'
  BY GivenHands, Unforged
<1>4. CASE /\ MergeInFlight(Flow, row.st) /\ u.kind \in {"CommitCreated", "MainAdvanced"}
           /\ MergeInFlight(Flow, n) /\ n.current_head = row.st.current_head
           /\ n.actions = {}
  <2>1. MergeInFlight(Flow, row.st)'
    BY <1>2, <1>4 DEF MergeInFlight, InStage, IsKind
  <2>2. (\A j, k \in DOMAIN proc.queue : AnswerAt(j) /\ AnswerAt(k) => j = k)'
    BY <1>2 DEF Once, QueueSound, AnswerAt
  <2>3. QueueSound'
    BY <1>2, <2>1, <2>2 DEF QueueSound
  <2>4. HandSound'
    BY <1>4, <2>1, GivenHands DEF Once, HandSound
  <2>5. MergedSound'
    BY <1>4, GivenHands, GivenMerged DEF Once, MergedSound
  <2> QED  BY <1>3, <2>3, <2>4, <2>5 DEF Once
<1>5. CASE /\ MergeInFlight(Flow, row.st) /\ u.kind \in AnswerKinds
  <2>1. u = proc.doing.event /\ f = None
    BY <1>5 DEF Given, AnswerKinds
  <2>2. AnswerInHand /\ ~AnswerQueued /\ ~AnswerQueued' /\ ~InHand'
    BY <1>5, <2>1, GivenHands DEF AnswerInHand, Once, HandSound, AnswerKinds
  <2>3. QueueSound' /\ HandSound'
    BY <1>2, <2>2, GivenHands, QueueWithout DEF HandSound, AnswerInHand
  <2>4. ~FailureReported'
    BY <2>2 DEF FailureReported, AnswerQueued, AnswerAt, AnswerKinds
  <2>5. DaemonMerged => u.kind = "MergeCompleted"
    BY <1>5, <2>1, GivenHands DEF Once, MergedSound, FailureReported, AnswerKinds
  <2>6. DaemonMerged => n.status = "done" /\ n.current_head = row.st.current_head
    BY <1>1, <2>5, TicketType, ReportedMerge
  <2>7. MergedSound'
    BY <2>4, <2>6, GivenMerged DEF Once
  <2> QED  BY <1>3, <2>3, <2>7 DEF Once
<1>6. CASE ~MergeInFlight(Flow, row.st)
  <2>1. ~AnswerQueued /\ ~AnswerInHand
    BY <1>6 DEF Once, QueueSound, HandSound
  <2>2. QueueSound' /\ HandSound'
    BY <1>2, <2>1, GivenHands, QueueWithout DEF HandSound
  <2>3. ~DaemonMerged
    BY <1>6, GivenOpen DEF Once, MergedSound
  <2>4. MergedSound'
    BY <2>3, GivenMerged DEF Once
  <2> QED  BY <1>3, <2>2, <2>4 DEF Once
<1> QED  BY <1>1, <1>4, <1>5, <1>6, InFlight

\* Nobody but the daemon merges as the daemon, and what the forge compared with
\* main when it began is still what it has to compare.
LEMMA ElsewhereOnce ==
  ASSUME Core, Once, Elsewhere, Core'
  PROVE  Once'
<1>1. /\ row' = row /\ proc' = proc /\ repo' \in Repos /\ RepoSound' /\ Grows
      /\ \A k \in DOMAIN repo'.main : k \in DOMAIN repo.main \/ repo'.main[k].by = "outside"
  BY DEF Elsewhere
<1>2. repo \in Repos /\ proc \in Procs(issued)
  BY DEF Core, Types
<1>3. QueueSound'
  BY <1>1, SameQueue DEF Once, QueueSound
<1>4. HandSound'
  BY <1>1 DEF Once, HandSound, AnswerInHand, InHand, AnswerQueued, AnswerAt, MergeAsked
<1>5. FailureReported' => FailureReported
  BY <1>1 DEF FailureReported, InHand
<1>6. MergedSound' /\ (DaemonMerged' <=> DaemonMerged)
  BY <1>1, <1>5, MergedKept DEF Once, MergedSound
<1>7. ForgeSound'
  <2> SUFFICES ASSUME proc.doing.at \in {"intent", "recheck", "move"}
               PROVE  /\ ~DaemonMerged' /\ proc.doing.main <= Len(repo'.main)
                      /\ Len(repo'.main) = proc.doing.main => ~OnMain(proc.doing.head)'
    BY <1>1 DEF ForgeSound
  <2>1. /\ ~DaemonMerged /\ proc.doing.main <= Len(repo.main)
        /\ Len(repo.main) = proc.doing.main => ~OnMain(proc.doing.head)
    BY DEF Once, ForgeSound
  <2>2. /\ Len(repo.main) \in Nat /\ Len(repo'.main) \in Nat
        /\ Len(repo.main) <= Len(repo'.main)
    <3>1. repo.main \in Seq(MainEntry) /\ repo'.main \in Seq(MainEntry)
      BY <1>1, <1>2 DEF Repos
    <3> QED  BY <1>1, <3>1 DEF Grows
  <2>3. proc.doing.main \in Nat
    BY <1>2, DoingTypes DEF ForgeSteps
  <2>4. PICK h : h = proc.doing.head
    OBVIOUS
  <2>5. Len(repo'.main) = Len(repo.main) => (OnMain(h)' <=> OnMain(h))
    BY <1>1, SameMerges
  <2>6. OnMain(proc.doing.head)' <=> OnMain(h)'
    BY <1>1, <2>4
  <2> QED  BY <1>6, <2>1, <2>2, <2>3, <2>4, <2>5, <2>6
<1> QED  BY <1>3, <1>4, <1>6, <1>7 DEF Once

LEMMA InitOnce ==
  Init => Once
<1> SUFFICES ASSUME Init PROVE Once
  OBVIOUS
<1>1. /\ proc.queue = <<>> /\ proc.doing = Idle /\ repo.main = <<>>
      /\ row.st.status = "pending"
  BY DEF Init, Booted, NewState
<1>2. DOMAIN proc.queue = {} /\ DOMAIN repo.main = {}
  BY <1>1
<1>3. ~AnswerQueued /\ ~InHand /\ ~MergeAsked /\ ~DaemonMerged
      /\ proc.doing.at \notin MergeSteps
  BY <1>1, <1>2 DEF AnswerQueued, InHand, Idle, MergeAsked, DaemonMerged, MergeSteps,
                    ForgeSteps
<1> QED  BY <1>1, <1>2, <1>3 DEF Once, QueueSound, HandSound, AnswerInHand, ForgeSound,
                                MergeSteps, ForgeSteps, MergedSound, MergedOnce, AnswerQueued

LEMMA StutterOnce ==
  ASSUME Core, Once, UNCHANGED vars, Core'
  PROVE  Once'
<1>1. Elsewhere
  <2>1. repo' = repo
    BY DEF vars
  <2> QED  BY <2>1, SameRepo DEF Elsewhere, vars, Core
<1> QED  BY <1>1, ElsewhereOnce

LEMMA LoopOnce ==
  ASSUME Core, Once, Loop, Core'
  PROVE  Once'
<1>1. CASE CreateTask
  BY <1>1, CreateTaskTakes, TakesOnce
<1>2. CASE QueuedEvent
  BY <1>2, QueuedEventTakes, TakesOnce
<1>3. CASE HandleEvent
  BY <1>3, HandleEventCases, SkipsOnce, GivenOnce
<1>4. CASE PerformActions
  BY <1>4, PerformActionsPerforms, PerformsOnce
<1>5. CASE MergeStep
  BY <1>5, MergeStepOnce
<1>6. CASE Cleanup
  BY <1>6, CleanupOnce
<1>7. CASE Boot
  BY <1>7, BootOnce
<1> QED  BY <1>1, <1>2, <1>3, <1>4, <1>5, <1>6, <1>7 DEF Loop, MergeStep

LEMMA AnswersOnce ==
  ASSUME Core, Once, Answers, Core'
  PROVE  Once'
<1>1. CASE Done
  BY <1>1, DoneTakes, TakesOnce
<1>2. CASE Review(TRUE)
  <2>1. PICK granted \in BOOLEAN : Review(granted)
    BY <1>2
  <2> QED  BY <2>1, ReviewTakes, TakesOnce
<1>3. CASE \E c \in proc.checking : CheckResult(c, "pass")
  <2>1. PICK c \in proc.checking, r \in {"pass", "fail", "blocked"} : CheckResult(c, r)
    BY <1>3
  <2> QED  BY <2>1, CheckResultTakes, DropsOnce, TakesOnce
<1>4. CASE Unblock \/ Retry
  BY <1>4, UnblockOnce, RetryOnce
<1>5. CASE CheckoutCleaned
  BY <1>5, CheckoutElsewhere, ElsewhereOnce
<1> QED  BY <1>1, <1>2, <1>3, <1>4, <1>5 DEF Answers

LEMMA TroublesOnce ==
  ASSUME Core, Once, Troubles, Core'
  PROVE  Once'
<1>1. CASE Review(FALSE)
  <2>1. PICK granted \in BOOLEAN : Review(granted)
    BY <1>1
  <2> QED  BY <2>1, ReviewTakes, TakesOnce
<1>2. CASE \E c \in proc.checking, r \in {"fail", "blocked"} : CheckResult(c, r)
  <2>1. PICK c \in proc.checking, r \in {"pass", "fail", "blocked"} : CheckResult(c, r)
    BY <1>2
  <2> QED  BY <2>1, CheckResultTakes, DropsOnce, TakesOnce
<1>3. CASE \E t \in proc.sleeping : TimerFires(t)
  BY <1>3, TimerFiresTakes, TakesOnce
<1>4. CASE CancelTask
  BY <1>4, CancelTaskTakes, TakesOnce
<1>5. CASE Block
  BY <1>5, BlockOnce
<1>6. CASE Crash
  BY <1>6, CrashOnce
<1>7. CASE \/ \E h \in Heads : AgentResets(h)
           \/ \E h \in Heads \cup {None} : MainMoves(h)
           \/ CheckoutDirtied
  BY <1>7, AgentResetsElsewhere, MainMovesElsewhere, CheckoutElsewhere, ElsewhereOnce
<1> QED  BY <1>1, <1>2, <1>3, <1>4, <1>5, <1>6, <1>7 DEF Troubles

LEMMA NextOnce ==
  Core /\ Once /\ [Next]_vars => (Core /\ Once)'
<1> SUFFICES ASSUME Core, Once, [Next]_vars PROVE Core' /\ Once'
  OBVIOUS
<1>1. Core'
  BY NextCore
<1>2. CASE Commits
  BY <1>1, <1>2, AgentCommitsElsewhere, ElsewhereOnce DEF Commits
<1>3. CASE Over \/ UNCHANGED vars
  BY <1>1, <1>3, StutterOnce DEF Over
<1> QED  BY <1>1, <1>2, <1>3, LoopOnce, AnswersOnce, TroublesOnce DEF Next

\* Whatever crashes and whoever moves main between the steps of a merge: at
\* most one answer to it is on its way, nothing merges while there is one, the
\* forge moves main only to a head that is not on it, and once the daemon has
\* merged no failure of that merge is reported.
THEOREM OnceInvariance == Spec => [](Core /\ Once)
<1>1. Init => Core /\ Once
  BY InitCore, InitOnce
<1>2. Core /\ Once /\ [Next]_vars => (Core /\ Once)'
  BY NextOnce
<1> QED  BY <1>1, <1>2, PTL DEF Spec

\* The daemon merges a task at most once, and never a head that was already
\* merged, whatever crashes happened between the intent and the report.
THEOREM MergedOnceTheorem == Spec => []MergedOnce
<1>1. Core /\ Once => MergedOnce
  BY DEF Once, MergedSound
<1> QED  BY <1>1, OnceInvariance, PTL

\* The recorded outcome is what happened: the head of a done task whose
\* workflow merges is on main, and a cancelled or failed task was not merged by
\* the daemon.
THEOREM OutcomeTheorem == Spec => []OutcomeMatchesMain
<1>1. Core /\ Once => OutcomeMatchesMain
  <2> SUFFICES ASSUME Core, Once PROVE OutcomeMatchesMain
    OBVIOUS
  <2>1. row.st.status \in Status
    BY DEF Core, Machine, StepInv, Copies
  <2>2. row.status = "done" => row.st.status = "done"
    BY <2>1 DEF Core, StatusSound, TaskStatus, Status
  <2>3. row.status \in {"cancelled", "failed"} =>
          row.st.status # "done" /\ ~MergeInFlight(Flow, row.st)
    BY <2>1 DEF Core, StatusSound, TaskStatus, Status, MergeInFlight, InStage
  <2>4. row.status \in {"cancelled", "failed"} => ~DaemonMerged
    BY <2>3 DEF Once, MergedSound
  <2>5. row.status = "done" /\ (\E i \in Index(Flow) : IsKind(Flow, i, "merge")) =>
          OnMain(row.st.current_head)
    BY <2>2 DEF Once, MergedSound, HasMerge
  <2> QED  BY <2>4, <2>5 DEF OutcomeMatchesMain, DaemonMerged, ByDaemon
<1> QED  BY <1>1, OnceInvariance, PTL

-----------------------------------------------------------------------------
(* D14: what the snapshot says of a head was reported of it.  K is a set of*)
(* heads with their patches, T of heads that were tested, V of patches that*)
(* were approved.                                                          *)

\* The head and the pending heads have their patch, every check that is recorded
\* was passed by the head it names, and a head-bound approval is recorded only
\* for an approved patch.
Vouched(w, s, K, T, V) ==
  /\ s.current_head # None => <<s.current_head, s.patch_id>> \in K
  /\ \A k \in DOMAIN s.pending_head_changes :
       <<s.pending_head_changes[k].head, s.pending_head_changes[k].patch>> \in K
  /\ \A c \in s.passed_checks : c.head # None => c.head \in T
  /\ (\E a \in s.approvals : w.stages[a.stage].bind_head) => s.patch_id \in V

\* The state n knows no more than s about the same head.
Narrower(s, n) ==
  /\ n.current_head = s.current_head /\ n.patch_id = s.patch_id
  /\ n.pending_head_changes = s.pending_head_changes \/ n.pending_head_changes = <<>>
  /\ n.passed_checks \subseteq s.passed_checks /\ n.approvals \subseteq s.approvals

LEMMA NarrowerVouched ==
  ASSUME NEW w, NEW s, NEW n, NEW K, NEW T, NEW V, Vouched(w, s, K, T, V), Narrower(s, n)
  PROVE  Vouched(w, n, K, T, V)
<1>1. /\ n.current_head # None => <<n.current_head, n.patch_id>> \in K
      /\ \A c \in n.passed_checks : c.head # None => c.head \in T
      /\ (\E a \in n.approvals : w.stages[a.stage].bind_head) => n.patch_id \in V
  BY DEF Vouched, Narrower
<1>2. \A k \in DOMAIN n.pending_head_changes :
        <<n.pending_head_changes[k].head, n.pending_head_changes[k].patch>> \in K
  BY DEF Vouched, Narrower
<1> QED  BY <1>1, <1>2 DEF Vouched

\* More that is known keeps what is vouched for.
LEMMA VouchedMore ==
  ASSUME NEW w, NEW s, NEW K, NEW T, NEW V, Vouched(w, s, K, T, V),
         NEW L, K \subseteq L, NEW U, T \subseteq U, NEW W, V \subseteq W
  PROVE  Vouched(w, s, L, U, W)
BY DEF Vouched

\* Entering a stage records nothing.
LEMMA EnterStageVouched ==
  ASSUME NEW w, Valid(w), NEW s \in Copies(w), s.status = "running",
         NEW i \in 1 .. Len_(w) + 1,
         NEW K, NEW T, NEW V, Vouched(w, s, K, T, V)
  PROVE  Vouched(w, EnterStage(w, s, i), K, T, V)
<1> DEFINE n == EnterStage(w, s, i)
           j == EntryStage(w, s, i)
<1>1. Entered(w, s, i, n)
  BY EnterStageFields
<1>2. j > Len_(w) \/ j <= Len_(w)
  <2>1. j \in i .. Len_(w) + 1 /\ Len_(w) \in Nat
    BY EntryStageProperties, LengthIsNat DEF Valid
  <2> QED  BY <2>1
<1> HIDE DEF n
<1>3. n.approvals \subseteq s.approvals
  BY <1>1, <1>2 DEF Entered
<1>4. Narrower(s, n)
  BY <1>1, <1>3 DEF Entered, Narrower, Carried
<1> QED  BY <1>4, NarrowerVouched DEF n

\* Neither does giving up or going back to work.
LEMMA FailTaskVouched ==
  ASSUME NEW w, NEW s \in Copies(w), NEW stage,
         NEW K, NEW T, NEW V, Vouched(w, s, K, T, V)
  PROVE  /\ Vouched(w, FailTask(s, stage), K, T, V)
         /\ Vouched(w, Cancelled(s, stage), K, T, V)
<1>1. Narrower(s, FailTask(s, stage))
  <2> DEFINE n == FailTask(s, stage)
  <2>1. Carried(s, n) /\ Same(s, n)
    BY FailTaskFields
  <2> HIDE DEF n
  <2> QED  BY <2>1 DEF Narrower, Carried, Same, n
<1>2. Narrower(s, Cancelled(s, stage))
  <2> DEFINE n == Cancelled(s, stage)
  <2>1. Carried(s, n) /\ Same(s, n)
    BY CancelledFields
  <2> HIDE DEF n
  <2> QED  BY <2>1 DEF Narrower, Carried, Same, n
<1> QED  BY <1>1, <1>2, NarrowerVouched

LEMMA ReturnToWorkVouched ==
  ASSUME NEW w, Valid(w), NEW s \in Copies(w), NEW target \in Index(w),
         NEW K, NEW T, NEW V, Vouched(w, s, K, T, V)
  PROVE  Vouched(w, ReturnToWork(w, s, target), K, T, V)
<1> DEFINE n == ReturnToWork(w, s, target)
<1>1. /\ Carried(s, n) /\ n.current_head = s.current_head /\ n.patch_id = s.patch_id
      /\ n.approvals = {a \in s.approvals : a.stage < target}
      /\ n.passed_checks = {c \in s.passed_checks : c.stage < target}
  BY ReturnToWorkFields
<1> HIDE DEF n
<1>2. Narrower(s, n)
  BY <1>1 DEF Narrower, Carried
<1> QED  BY <1>2, NarrowerVouched DEF n

LEMMA FailStageVouched ==
  ASSUME NEW w, Valid(w), NEW s \in Copies(w), NEW i \in Index(w),
         NEW K, NEW T, NEW V, Vouched(w, s, K, T, V)
  PROVE  Vouched(w, FailStage(w, s, i), K, T, V)
<1> DEFINE t == FailureTarget(w, i)
<1>1. t # 0 => t \in Index(w)
  <2>1. w.stages[i].on_fail # 0 => IsKind(w, w.stages[i].on_fail, "work")
    BY DEF Valid, StaticRules, StageRules
  <2> QED  BY <2>1, PreviousWorkProperties DEF FailureTarget, IsKind
<1> HIDE DEF t
<1>2. t # 0 => Vouched(w, ReturnToWork(w, s, t), K, T, V)
  BY <1>1, ReturnToWorkVouched
<1>3. Vouched(w, FailTask(s, i), K, T, V)
  BY FailTaskVouched
<1>4. FailStage(w, s, i) = IF t # 0 THEN ReturnToWork(w, s, t) ELSE FailTask(s, i)
  BY DEF FailStage, t
<1> QED  BY <1>2, <1>3, <1>4

\* A new head, with its patch: the head-bound approvals of the old one are gone.
LEMMA NewHeadVouched ==
  ASSUME NEW w, NEW s \in Copies(w), Records(w, s),
         NEW head \in Heads, NEW patch \in Patches, s.current_head # head,
         NEW K, NEW T, NEW V, Vouched(w, s, K, T, V), <<head, patch>> \in K
  PROVE  Vouched(w, RecordNewHead(w, s, head, patch), K, T, V)
<1> DEFINE n == RecordNewHead(w, s, head, patch)
<1>1. /\ n.current_head = head /\ n.patch_id = patch
      /\ n.approvals = {a \in s.approvals : a.head = None \/ a.head = head}
      /\ Carried(s, n) /\ n.passed_checks = {c \in s.passed_checks : c.head = head}
  BY RecordNewHeadProperties, RecordNewHeadFields
<1> HIDE DEF n
<1>2. \A a \in n.approvals : ~w.stages[a.stage].bind_head
  BY <1>1, NoneAssumption DEF Records
<1> QED  BY <1>1, <1>2 DEF Vouched, Carried, n

\* What is checked again.
LEMMA RecheckVouched ==
  ASSUME NEW w, Valid(w), NEW s \in Copies(w), s.status = "running",
         s.stage_index \in Index(w),
         NEW K, NEW T, NEW V, Vouched(w, s, K, T, V)
  PROVE  Vouched(w, RecheckForNewHead(w, s), K, T, V)
<1> DEFINE t == RecheckTarget(w, s.stage_index)
<1>1. Len_(w) \in Nat /\ Index(w) = 1 .. Len_(w)
  BY LengthIsNat DEF Valid
<1>2. t # 0 => t \in Index(w)
  BY RecheckTargetProperties
<1>3. RecheckForNewHead(w, s) =
        IF t # 0 THEN EnterStage(w, s, t)
        ELSE IF InStage(w, s, "approval") \/ InStage(w, s, "fanout")
        THEN EnterStage(w, s, s.stage_index) ELSE s
  BY DEF RecheckForNewHead, RestartIfCollected
<1> HIDE DEF t
<1>4. t # 0 => Vouched(w, EnterStage(w, s, t), K, T, V)
  <2>1. t # 0 => t \in 1 .. Len_(w) + 1
    BY <1>1, <1>2
  <2> QED  BY <2>1, EnterStageVouched
<1>5. Vouched(w, EnterStage(w, s, s.stage_index), K, T, V)
  <2>1. s.stage_index \in 1 .. Len_(w) + 1
    BY <1>1
  <2> QED  BY <2>1, EnterStageVouched
<1> QED  BY <1>3, <1>4, <1>5

\* A rebase that kept the patch: the approvals move along with it.
LEMMA KeepApprovalsVouched ==
  ASSUME NEW w, Valid(w), NEW s, StepInv(w, s), s.status = "running",
         NEW head \in Heads, NEW patch \in Patches,
         s.current_head # None, s.current_head # head, patch = ApprovedPatch(s),
         NEW K, NEW T, NEW V, Vouched(w, s, K, T, V), <<head, patch>> \in K
  PROVE  Vouched(w, KeepApprovals(w, s, head, patch), K, T, V)
<1>1. /\ s \in Copies(w) /\ s.stage_index \in Index(w) /\ Records(w, s)
      /\ Covered(w, s, s.stage_index) /\ Settled(w, s, s.stage_index)
  BY DEF StepInv, Position
<1>2. PICK m \in Copies(w) :
        /\ KeepApprovals(w, s, head, patch) = RecheckForNewHead(w, m)
        /\ Rebased(w, s, m, head, patch)
  BY <1>1, KeepApprovalsProperties
<1>3. patch = s.patch_id
  BY <1>1, ApprovedPatchIsCurrent
<1>4. /\ m.status = "running" /\ m.stage_index = s.stage_index
      /\ m.current_head = head /\ m.patch_id = patch /\ m.passed_checks = {}
      /\ m.pending_head_changes = s.pending_head_changes
  BY <1>2 DEF Rebased, Carried
<1>5. (\E b \in m.approvals : w.stages[b.stage].bind_head) => m.patch_id \in V
  <2> SUFFICES ASSUME NEW b \in m.approvals, w.stages[b.stage].bind_head
               PROVE  m.patch_id \in V
    OBVIOUS
  <2>1. PICK a \in s.approvals : b.stage = a.stage
    BY <1>2 DEF Rebased
  <2> QED  BY <1>3, <1>4, <2>1 DEF Vouched
<1>6. Vouched(w, m, K, T, V)
  BY <1>4, <1>5 DEF Vouched
<1> QED  BY <1>1, <1>2, <1>4, <1>6, RecheckVouched

\* main has advanced.
LEMMA MainAdvancedVouched ==
  ASSUME NEW w, Valid(w), NEW s, StepInv(w, s), s.status = "running",
         NEW head \in Heads, NEW patch \in Patches, NEW conflict \in BOOLEAN,
         NEW K, NEW T, NEW V, Vouched(w, s, K, T, V), <<head, patch>> \in K
  PROVE  Vouched(w, MainAdvanced(w, s, head, patch, conflict), K, T, V)
<1> DEFINE i == s.stage_index
           v == InvalidateHeadBound(w, s)
           h == RecordNewHead(w, s, head, patch)
           n == IF conflict THEN v ELSE h
           work == PreviousWork(w, i)
<1>1. s \in Copies(w) /\ i \in Index(w) /\ Records(w, s)
  BY DEF StepInv, Position
<1>2. CASE ~s.branch \/ (~conflict /\ s.current_head = head)
  BY <1>2 DEF MainAdvanced
<1>3. CASE ~(~s.branch \/ (~conflict /\ s.current_head = head))
  <2>1. s.current_head # None
    BY <1>1, <1>3 DEF Records
  <2>2. MainAdvanced(w, s, head, patch, conflict) =
          IF KindAt(w, i) \in {"work", "submit"} THEN
            IF conflict THEN s ELSE RecheckForNewHead(w, h)
          ELSE IF ~conflict /\ patch = ApprovedPatch(s) THEN KeepApprovals(w, s, head, patch)
          ELSE IF work # 0 THEN ReturnToWork(w, n, work) ELSE FailTask(n, i)
    BY <1>3, <2>1 DEF MainAdvanced
  <2>3. v \in Copies(w) /\ Vouched(w, v, K, T, V)
    <3>1. /\ v \in Copies(w) /\ Frame(s, v) /\ Carried(s, v)
          /\ v.approvals = {a \in s.approvals : a.head = None \/ a.head = s.current_head}
          /\ v.passed_checks = {c \in s.passed_checks : c.head = s.current_head}
      BY <1>1, InvalidateHeadBoundProperties, InvalidateHeadBoundFields
    <3> HIDE DEF v
    <3>2. Narrower(s, v)
      BY <3>1 DEF Narrower, Frame, Carried
    <3> QED  BY <3>1, <3>2, NarrowerVouched
  <2>4. ~conflict => /\ h \in Copies(w) /\ Vouched(w, h, K, T, V)
                     /\ h.status = "running" /\ h.stage_index = i
    BY <1>1, <1>3, NewHeadVouched, RecordNewHeadProperties
  <2> HIDE DEF v, h
  <2>5. n \in Copies(w) /\ Vouched(w, n, K, T, V)
    BY <2>3, <2>4
  <2> HIDE DEF n
  <2>6. ~conflict => Vouched(w, RecheckForNewHead(w, h), K, T, V)
    BY <1>1, <2>4, RecheckVouched
  <2>7. ~conflict /\ patch = ApprovedPatch(s) =>
          Vouched(w, KeepApprovals(w, s, head, patch), K, T, V)
    BY <1>3, <2>1, KeepApprovalsVouched
  <2>8. work # 0 => Vouched(w, ReturnToWork(w, n, work), K, T, V)
    BY <1>1, <2>5, PreviousWorkProperties, ReturnToWorkVouched
  <2>9. Vouched(w, FailTask(n, i), K, T, V)
    BY <2>5, FailTaskVouched
  <2> HIDE DEF work
  <2> QED  BY <2>2, <2>6, <2>7, <2>8, <2>9
<1> QED  BY <1>2, <1>3

LEMMA ApplyHeadChangeVouched ==
  ASSUME NEW w, Valid(w), NEW s, StepInv(w, s), NEW c \in HeadChange,
         NEW K, NEW T, NEW V, Vouched(w, s, K, T, V), <<c.head, c.patch>> \in K
  PROVE  Vouched(w, ApplyHeadChange(w, s, c), K, T, V)
<1>1. c.head \in Heads /\ c.patch \in Patches /\ c.conflict \in BOOLEAN
  BY DEF HeadChange
<1>2. CASE s.status # "running" \/ (c.kind # "main" /\ s.current_head = c.head)
  BY <1>2 DEF ApplyHeadChange
<1>3. CASE s.status = "running" /\ c.kind = "main"
  <2>1. Vouched(w, MainAdvanced(w, s, c.head, c.patch, c.conflict), K, T, V)
    BY <1>1, <1>3, MainAdvancedVouched
  <2> QED  BY <1>3, <2>1 DEF ApplyHeadChange
<1>4. CASE s.status = "running" /\ c.kind # "main" /\ s.current_head # c.head
  <2> DEFINE h == RecordNewHead(w, s, c.head, c.patch)
  <2>1. s \in Copies(w) /\ s.stage_index \in Index(w) /\ Records(w, s)
    BY <1>4 DEF StepInv, Position
  <2>2. /\ h \in Copies(w) /\ Vouched(w, h, K, T, V)
        /\ h.status = "running" /\ h.stage_index = s.stage_index
    BY <1>1, <1>4, <2>1, NewHeadVouched, RecordNewHeadProperties
  <2>3. ApplyHeadChange(w, s, c) = RecheckForNewHead(w, h)
    BY <1>4 DEF ApplyHeadChange
  <2> HIDE DEF h
  <2> QED  BY <2>1, <2>2, <2>3, RecheckVouched
<1> QED  BY <1>2, <1>3, <1>4

\* The actions and the list of pending changes may be set aside.
LEMMA OutputsVouched ==
  ASSUME NEW w, NEW s \in Copies(w), NEW K, NEW T, NEW V, Vouched(w, s, K, T, V)
  PROVE  /\ \A A : Vouched(w, [s EXCEPT !.actions = A], K, T, V)
         /\ Vouched(w, [s EXCEPT !.pending_head_changes = <<>>], K, T, V)
<1>1. ASSUME NEW A PROVE Narrower(s, [s EXCEPT !.actions = A])
  BY DEF Narrower, Copies
<1>2. Narrower(s, [s EXCEPT !.pending_head_changes = <<>>])
  BY DEF Narrower, Copies
<1> QED  BY <1>1, <1>2, NarrowerVouched

LEMMA ApplyPendingVouched ==
  ASSUME NEW w, Valid(w), NEW s, StepInv(w, s), NEW c \in HeadChange,
         NEW K, NEW T, NEW V, Vouched(w, s, K, T, V), <<c.head, c.patch>> \in K
  PROVE  Vouched(w, ApplyPending(w, s, c), K, T, V)
<1> DEFINE none == {}
           q == [s EXCEPT !.actions = none]
           n == ApplyHeadChange(w, q, c)
<1>1. s \in Copies(w) /\ none \in SUBSET Action
  BY DEF StepInv
<1>2. StepInv(w, q) /\ Vouched(w, q, K, T, V)
  BY <1>1, SetActionsStepInv, OutputsVouched
<1> HIDE DEF q
<1>3. n \in Copies(w) /\ Vouched(w, n, K, T, V)
  BY <1>2, ApplyHeadChangeStepInv, ApplyHeadChangeVouched DEF StepInv
<1>4. ApplyPending(w, s, c) = IF n.actions = {} THEN [n EXCEPT !.actions = s.actions] ELSE n
  BY DEF ApplyPending, n, q
<1> HIDE DEF n
<1>5. Vouched(w, [n EXCEPT !.actions = s.actions], K, T, V)
  BY <1>3, OutputsVouched
<1> QED  BY <1>3, <1>4, <1>5

\* All the changes that were recorded, one after the other.
LEMMA DrainedVouched ==
  ASSUME NEW w, Valid(w), NEW s, StepInv(w, s),
         NEW K, NEW T, NEW V, Vouched(w, s, K, T, V)
  PROVE  LET n == Drained(w, s)[Len(s.pending_head_changes)]
         IN  StepInv(w, n) /\ Vouched(w, n, K, T, V)
<1> DEFINE q == s.pending_head_changes
           d == Drained(w, s)
           Sound(k) == StepInv(w, d[k]) /\ Vouched(w, d[k], K, T, V)
           D == {k \in Nat : k <= Len(q) /\ ~Sound(k)}
<1>1. q \in Seq(HeadChange) /\ Len(q) \in Nat /\ DOMAIN q = 1 .. Len(q) /\ s \in Copies(w)
  BY DEF StepInv, Copies
<1>2. /\ d[0] = [s EXCEPT !.pending_head_changes = <<>>]
      /\ \A k \in Nat : d[k + 1] = ApplyPending(w, d[k], q[k + 1])
  BY DrainedRecursion
<1>3. \A k \in DOMAIN q : <<q[k].head, q[k].patch>> \in K
  BY DEF Vouched
<1> HIDE DEF d
<1>4. Sound(0)
  <2> DEFINE empty == <<>>
  <2>1. empty \in Seq(HeadChange) /\ d[0] = [s EXCEPT !.pending_head_changes = empty]
    BY <1>2
  <2>2. Vouched(w, d[0], K, T, V)
    BY <1>1, <2>1, OutputsVouched
  <2> HIDE DEF empty
  <2>3. StepInv(w, [s EXCEPT !.pending_head_changes = empty])
    BY <2>1, SetPendingStepInv
  <2> QED  BY <2>1, <2>2, <2>3
<1>5. D = {}
  <2> SUFFICES ASSUME D # {} PROVE FALSE
    OBVIOUS
  <2>1. PICK k \in D : \A j \in D : k <= j
    <3>1. D \in SUBSET Nat
      OBVIOUS
    <3> HIDE DEF D
    <3> QED  BY <3>1, LeastElement
  <2>2. k # 0
    BY <1>4, <2>1
  <2>3. k - 1 \in Nat /\ k - 1 <= Len(q) /\ ~(k <= k - 1) /\ (k - 1) + 1 = k
    BY <1>1, <2>1, <2>2
  <2>4. Sound(k - 1)
    BY <2>1, <2>3
  <2>5. k \in DOMAIN q /\ q[k] \in HeadChange
    BY <1>1, <2>1, <2>2
  <2>6. d[k] = ApplyPending(w, d[k - 1], q[k])
    BY <1>2, <2>3
  <2>7. Sound(k)
    BY <1>3, <2>4, <2>5, <2>6, ApplyPendingStepInv, ApplyPendingVouched
  <2> QED  BY <2>1, <2>7
<1>6. Len(q) \notin D
  BY <1>5
<1>7. Sound(Len(q))
  BY <1>1, <1>6
<1> QED  BY <1>7 DEF d

LEMMA MergeFailedVouched ==
  ASSUME NEW w, Valid(w), NEW s, StepInv(w, s),
         NEW K, NEW T, NEW V, Vouched(w, s, K, T, V),
         MergeFailedState(w, s).status # "refused"
  PROVE  Vouched(w, MergeFailedState(w, s), K, T, V)
<1> DEFINE n == Drained(w, s)[Len(s.pending_head_changes)]
           t == RecheckTarget(w, n.stage_index)
<1>1. Len_(w) \in Nat /\ Index(w) = 1 .. Len_(w)
  BY LengthIsNat DEF Valid
<1>2. StepInv(w, n) /\ Vouched(w, n, K, T, V)
  BY DrainedVouched
<1>3. MergeFailedState(w, s) =
        IF ~MergeInFlight(w, n) THEN n ELSE IF t = 0 THEN Refused(n) ELSE EnterStage(w, n, t)
  BY DEF MergeFailedState
<1> HIDE DEF n
<1>4. n \in Copies(w)
  BY <1>2 DEF StepInv
<1>5. Refused(n).status = "refused"
  BY <1>4 DEF Refused, Copies
<1>6. CASE MergeInFlight(w, n) /\ t # 0
  <2>1. n.status = "running" /\ n.stage_index \in Index(w)
    BY <1>2, <1>6 DEF MergeInFlight, InStage, StepInv, Position
  <2>2. t \in 1 .. Len_(w) + 1
    BY <1>1, <1>6, <2>1, RecheckTargetProperties
  <2> HIDE DEF t
  <2> QED  BY <1>2, <1>3, <1>4, <1>6, <2>1, <2>2, EnterStageVouched
<1>7. CASE ~MergeInFlight(w, n)
  BY <1>2, <1>3, <1>7
<1> QED  BY <1>3, <1>5, <1>6, <1>7

\* A head change, recorded while the merge is in flight and applied otherwise.
LEMMA HeadChangedVouched ==
  ASSUME NEW w, Valid(w), NEW s, StepInv(w, s), NEW c \in HeadChange,
         NEW K, NEW T, NEW V, Vouched(w, s, K, T, V), <<c.head, c.patch>> \in K
  PROVE  Vouched(w, HeadChanged(w, s, c), K, T, V)
<1> DEFINE q == s.pending_head_changes
           longer == Append(q, c)
           n == [s EXCEPT !.pending_head_changes = longer]
           m == [s EXCEPT !.pending_head_changes = <<>>]
<1>1. s \in Copies(w) /\ q \in Seq(HeadChange)
  BY DEF StepInv, Copies
<1>2. HeadChanged(w, s, c) =
        IF ~MergeInFlight(w, s) THEN ApplyHeadChange(w, s, c)
        ELSE IF c.kind = "commit" /\ s.current_head = c.head THEN m ELSE n
  BY DEF HeadChanged
<1>3. Vouched(w, ApplyHeadChange(w, s, c), K, T, V)
  BY ApplyHeadChangeVouched
<1>4. Vouched(w, m, K, T, V)
  BY <1>1, OutputsVouched
<1>5. Vouched(w, n, K, T, V)
  <2>1. \A k \in DOMAIN longer : longer[k] = c \/ (k \in DOMAIN q /\ longer[k] = q[k])
    BY <1>1
  <2> HIDE DEF longer
  <2>2. /\ n.pending_head_changes = longer
        /\ n.current_head = s.current_head /\ n.patch_id = s.patch_id
        /\ n.passed_checks = s.passed_checks /\ n.approvals = s.approvals
    BY <1>1 DEF Copies
  <2> HIDE DEF n
  <2>3. \A k \in DOMAIN longer : <<longer[k].head, longer[k].patch>> \in K
    BY <2>1 DEF Vouched
  <2> HIDE DEF q
  <2> QED  BY <2>2, <2>3 DEF Vouched
<1> HIDE DEF m, n
<1> QED  BY <1>2, <1>3, <1>4, <1>5

\* The results of the work, of the submission and of a check.
LEMMA BranchProductVouched ==
  ASSUME NEW w, Valid(w), NEW s, StepInv(w, s), s.status = "running",
         IsBranchWork(w, s.stage_index), NEW head \in Heads, NEW patch \in Patches,
         NEW K, NEW T, NEW V, Vouched(w, s, K, T, V), <<head, patch>> \in K
  PROVE  Vouched(w, BranchProduct(w, s, head, patch), K, T, V)
<1>1. PICK n \in Copies(w) :
        /\ BranchProduct(w, s, head, patch) = EnterStage(w, n, s.stage_index + 1)
        /\ MayEnter(w, n, s.stage_index + 1)
        /\ s.stage_index + 1 \in 1 .. Len_(w) + 1
        /\ \A a \in s.approvals : ~w.stages[a.stage].bind_head
        /\ n.approvals = s.approvals
        /\ n.current_head = head /\ n.patch_id = patch
        /\ n.passed_checks \subseteq s.passed_checks
        /\ Carried(s, n)
  BY BranchProductMayEnter
<1>2. Vouched(w, n, K, T, V)
  BY <1>1 DEF Vouched, Carried
<1> QED  BY <1>1, <1>2, EnterStageVouched DEF MayEnter

LEMMA AdvanceVouched ==
  ASSUME NEW w, Valid(w), NEW i \in Index(w), NEW n \in Copies(w), n.status = "running",
         NEW K, NEW T, NEW V, Vouched(w, n, K, T, V)
  PROVE  Vouched(w, EnterStage(w, n, i + 1), K, T, V)
<1>1. i + 1 \in 1 .. Len_(w) + 1
  BY LengthIsNat DEF Valid
<1> QED  BY <1>1, EnterStageVouched

LEMMA ChangeSubmittedVouched ==
  ASSUME NEW w, Valid(w), NEW s, StepInv(w, s), InStage(w, s, "submit"),
         NEW K, NEW T, NEW V, Vouched(w, s, K, T, V)
  PROVE  Vouched(w, ChangeSubmitted(w, s), K, T, V)
<1> DEFINE i == s.stage_index
           returns == w.stages[i].returns_change
           n == [s EXCEPT !.change_id = returns]
<1>1. s \in Copies(w) /\ s.status = "running" /\ i \in Index(w)
  BY DEF StepInv, Position, InStage
<1>2. returns \in BOOLEAN
  BY <1>1, StageType DEF Stages
<1> HIDE DEF returns
<1>3. n \in Copies(w) /\ n.status = "running"
  BY <1>1, <1>2 DEF Copies
<1>4. Narrower(s, n)
  BY <1>1 DEF Narrower, Copies
<1>5. ChangeSubmitted(w, s) = EnterStage(w, n, i + 1)
  BY DEF ChangeSubmitted, returns
<1> HIDE DEF n
<1> QED  BY <1>1, <1>3, <1>4, <1>5, NarrowerVouched, AdvanceVouched

LEMMA CheckSucceededVouched ==
  ASSUME NEW w, Valid(w), NEW s, StepInv(w, s), InStage(w, s, "command"),
         NEW head, head = s.current_head,
         NEW K, NEW T, NEW V, Vouched(w, s, K, T, V), head # None => head \in T
  PROVE  Vouched(w, CheckSucceeded(w, s, head), K, T, V)
<1> DEFINE check == [stage |-> s.stage_index, head |-> head]
           n == [s EXCEPT !.passed_checks = @ \cup {check}]
<1>1. /\ MayEnter(w, n, s.stage_index + 1)
      /\ s.stage_index + 1 \in 1 .. Len_(w) + 1
      /\ CheckSucceeded(w, s, head) = EnterStage(w, n, s.stage_index + 1)
  BY CheckSucceededMayEnter
<1>2. s \in Copies(w)
  BY DEF StepInv
<1>3. /\ n.passed_checks = s.passed_checks \cup {check}
      /\ n.current_head = s.current_head /\ n.patch_id = s.patch_id
      /\ n.pending_head_changes = s.pending_head_changes /\ n.approvals = s.approvals
  BY <1>2 DEF Copies
<1>4. check.head = head
  OBVIOUS
<1> HIDE DEF n, check
<1>5. Vouched(w, n, K, T, V)
  BY <1>3, <1>4 DEF Vouched
<1> QED  BY <1>1, <1>5, EnterStageVouched DEF MayEnter

\* An approval is recorded for the patch of the head that was looked at.
LEMMA GrantedVouched ==
  ASSUME NEW w, Valid(w), NEW s, StepInv(w, s), InStage(w, s, "approval"),
         NEW reviewer \in Reviewers, NEW choice \in Option(Children), NEW head,
         w.stages[s.stage_index].bind_head => s.current_head # None /\ head = s.current_head,
         Granted(w, s, reviewer, head, choice).status # "refused",
         NEW K, NEW T, NEW V, Vouched(w, s, K, T, V),
         \A p : <<head, p>> \in K => p \in V
  PROVE  Vouched(w, Granted(w, s, reviewer, head, choice), K, T, V)
<1> DEFINE n == Granted(w, s, reviewer, head, choice)
<1>1. CASE Cardinality(Votes(s, reviewer)) < w.stages[s.stage_index].count
  <2>1. Same(s, n) /\ Carried(s, n)
    BY <1>1, GrantedPartly
  <2> HIDE DEF n
  <2>2. Narrower(s, n)
    BY <2>1 DEF Narrower, Same, Carried
  <2> QED  BY <2>2, NarrowerVouched DEF n
<1>2. CASE ~(Cardinality(Votes(s, reviewer)) < w.stages[s.stage_index].count)
  <2>1. PICK m \in Copies(w), record \in Approval :
          /\ Granted(w, s, reviewer, head, choice) = EnterStage(w, m, s.stage_index + 1)
          /\ MayEnter(w, m, s.stage_index + 1)
          /\ s.stage_index + 1 \in 1 .. Len_(w) + 1
          /\ record.stage = s.stage_index
          /\ \A a \in m.approvals :
               a # record => a \in s.approvals /\ a.stage # s.stage_index
          /\ m.current_head = s.current_head /\ m.patch_id = s.patch_id
          /\ m.passed_checks = s.passed_checks /\ Carried(s, m)
    BY <1>2, GrantedMayEnter
  <2>2. w.stages[s.stage_index].bind_head => s.patch_id \in V
    BY DEF Vouched
  <2>3. (\E a \in m.approvals : w.stages[a.stage].bind_head) => m.patch_id \in V
    BY <2>1, <2>2 DEF Vouched
  <2>4. Vouched(w, m, K, T, V)
    BY <2>1, <2>3 DEF Vouched, Carried
  <2> QED  BY <2>1, <2>4, EnterStageVouched DEF MayEnter
<1> QED  BY <1>1, <1>2

\* What an event reports of a head is known.
Attested(e, K, T, V) ==
  /\ e.kind \in {"WorkCompleted", "CommitCreated", "MainAdvanced"} =>
       <<e.head, e.patch>> \in K
  /\ e.kind = "CommandPassed" => (e.head # None => e.head \in T)
  /\ e.kind = "ApprovalGranted" => \A p : <<e.head, p>> \in K => p \in V

\* Every event that is accepted.
LEMMA AnsweredVouched ==
  ASSUME NEW s, Stored(s), NEW e, Meant(e), NEW n, n.status # "refused", Answered(s, e, n),
         NEW K, NEW T, NEW V, Vouched(Flow, s, K, T, V), Attested(e, K, T, V)
  PROVE  Vouched(Flow, n, K, T, V)
<1>1. Valid(Flow) /\ s \in Copies(Flow) /\ StepInv(Flow, s)
  BY FlowFacts DEF Stored, StepInv
<1>2. CASE /\ e.kind = "Start" /\ s.status = "pending"
           /\ n = EnterStage(Flow, [s EXCEPT !.status = "running"], 1)
  <2> DEFINE r == [s EXCEPT !.status = "running"]
  <2>1. r \in Copies(Flow) /\ r.status = "running"
    BY <1>1 DEF Copies, Status
  <2>2. Narrower(s, r)
    BY <1>1 DEF Narrower, Copies
  <2>3. 1 \in 1 .. Len_(Flow) + 1
    BY FlowFacts
  <2>4. n = EnterStage(Flow, r, 1)
    BY <1>2
  <2> HIDE DEF r
  <2> QED  BY <1>1, <2>1, <2>2, <2>3, <2>4, NarrowerVouched, EnterStageVouched
<1>3. CASE /\ e.kind = "WorkCompleted" /\ Replies(s, e, "work")
           /\ n = BranchProduct(Flow, s, e.head, e.patch)
  <2>1. s.status = "running" /\ IsBranchWork(Flow, s.stage_index)
    BY <1>3, FlowFacts DEF Replies, InStage
  <2>2. e.head \in Heads /\ e.patch \in Patches /\ <<e.head, e.patch>> \in K
    BY <1>3 DEF Meant, Attested
  <2> QED  BY <1>1, <1>3, <2>1, <2>2, BranchProductVouched
<1>4. CASE e.kind = "Submitted" /\ Replies(s, e, "submit") /\ n = ChangeSubmitted(Flow, s)
  BY <1>1, <1>4, ChangeSubmittedVouched DEF Replies
<1>5. CASE /\ e.kind = "CommandPassed" /\ Replies(s, e, "command") /\ SameHead(s, e)
           /\ n = CheckSucceeded(Flow, s, e.head)
  <2>1. InStage(Flow, s, "command") /\ e.head = s.current_head
    BY <1>5 DEF Replies, SameHead, InStage, NeedsHead, IsHeadBound, IsKind
  <2>2. e.head # None => e.head \in T
    BY <1>5 DEF Attested
  <2> QED  BY <1>1, <1>5, <2>1, <2>2, CheckSucceededVouched
<1>6. CASE /\ e.kind = "ApprovalGranted" /\ Replies(s, e, "approval") /\ SameHead(s, e)
           /\ n = Granted(Flow, s, e.reviewer, e.head, None)
  <2>1. InStage(Flow, s, "approval") /\ s.status = "running"
    BY <1>6 DEF Replies, InStage
  <2>2. Flow.stages[s.stage_index].bind_head => NeedsHead(Flow, s.stage_index)
    BY <2>1 DEF InStage, NeedsHead, IsHeadBound, IsKind
  <2>3. Flow.stages[s.stage_index].bind_head =>
          s.current_head # None /\ e.head = s.current_head
    BY <1>1, <1>6, <2>1, <2>2, HeadPresent DEF SameHead
  <2>4. e.reviewer \in Reviewers /\ None \in Option(Children)
    BY <1>6 DEF Meant, Option
  <2>5. \A p : <<e.head, p>> \in K => p \in V
    BY <1>6 DEF Attested
  <2> QED  BY <1>1, <1>6, <2>1, <2>3, <2>4, <2>5, GrantedVouched
<1> QED  BY <1>2, <1>3, <1>4, <1>5, <1>6 DEF Answered

LEMMA StepVouched ==
  ASSUME NEW s, Stored(s), NEW e, Meant(e), Step(s, e).status # "refused",
         NEW K, NEW T, NEW V, Vouched(Flow, s, K, T, V), Attested(e, K, T, V)
  PROVE  Vouched(Flow, Step(s, e), K, T, V)
<1> DEFINE n == Step(s, e)
<1>1. Valid(Flow) /\ s \in Copies(Flow) /\ StepInv(Flow, s)
  BY FlowFacts DEF Stored, StepInv
<1>2. Answered(s, e, n) \/ Merges(s, e, n) \/ Moves(s, e, n) \/ Fails(s, e, n) \/ GivesUp(s, e, n)
  BY <1>1, StepCases
<1>3. n.status # "refused"
  OBVIOUS
<1> HIDE DEF n
<1>4. CASE Answered(s, e, n)
  BY <1>3, <1>4, AnsweredVouched DEF n
<1>5. CASE Merges(s, e, n)
  <2>1. CASE n = MergeFailedState(Flow, s)
    BY <1>1, <1>3, <2>1, MergeFailedVouched DEF n
  <2>2. CASE n = Merged(Flow, s)
    <3> DEFINE m == [s EXCEPT !.merge_commit = TRUE, !.pending_head_changes = <<>>,
                              !.status = "done"]
               act == Act("TaskDone", 0, 0)
    <3>1. n = IF MergeGate(Flow, s, s.stage_index) THEN [m EXCEPT !.actions = @ \cup {act}]
              ELSE Refused(s)
      BY <2>2 DEF Merged, Emit
    <3>2. Refused(s).status = "refused"
      BY <1>1 DEF Refused, Copies
    <3>3. Narrower(s, [m EXCEPT !.actions = @ \cup {act}])
      BY <1>1 DEF Narrower, Copies
    <3> QED  BY <1>3, <3>1, <3>2, <3>3, NarrowerVouched DEF n
  <2> QED  BY <1>5, <2>1, <2>2 DEF Merges
<1>6. CASE Moves(s, e, n)
  <2>1. PICK c : c \in {Change(e, "commit"), Change(e, "main")} /\ n = HeadChanged(Flow, s, c)
                 /\ e.kind \in {"CommitCreated", "MainAdvanced"}
    BY <1>6 DEF Moves
  <2>2. /\ e.head \in Heads /\ e.patch \in Patches /\ e.conflict \in BOOLEAN
        /\ <<e.head, e.patch>> \in K
    BY <2>1 DEF Meant, Attested
  <2>3. c \in HeadChange /\ c.head = e.head /\ c.patch = e.patch
    BY <2>1, <2>2 DEF Change, HeadChange
  <2> QED  BY <1>1, <2>1, <2>2, <2>3, HeadChangedVouched DEF n
<1>7. CASE Fails(s, e, n)
  <2>1. n = FailStage(Flow, s, s.stage_index) /\ s.status = "running"
    BY <1>7 DEF Fails, Replies, InStage
  <2>2. s.stage_index \in Index(Flow)
    BY <1>1, <2>1 DEF StepInv, Position
  <2> QED  BY <1>1, <2>1, <2>2, FailStageVouched DEF n
<1>8. CASE GivesUp(s, e, n)
  <2> DEFINE m == [s EXCEPT !.notified_timeout = e.ticket]
             act == Act("NotifyTimeout", s.stage_index, 0)
  <2>1. Narrower(s, Emit(m, {act}))
    BY <1>1 DEF Narrower, Copies, Emit
  <2>2. Vouched(Flow, Emit(m, {act}), K, T, V)
    BY <2>1, NarrowerVouched
  <2>3. \A k : Vouched(Flow, Cancelled(s, k), K, T, V)
    BY <1>1, FailTaskVouched
  <2> QED  BY <1>8, <2>2, <2>3 DEF GivesUp, n
<1> QED  BY <1>2, <1>4, <1>5, <1>6, <1>7, <1>8 DEF n

-----------------------------------------------------------------------------
(* D14 in the engine: the invariant.                                       *)

\* The heads there are, with the patches they go by.
Known == {hp \in Heads \X Patches : Used(hp[1]) /\ NamedAs(hp[1], hp[2])}

\* The patches of the heads that were approved, and the one that changes nothing.
ApprovedPatches ==
  {EmptyPatch} \cup {repo.commit[g].patch : g \in {a \in proof.approved : Used(a)}}

\* A verdict that is reported was given.
Certified(e) ==
  /\ e.kind = "CommandPassed" /\ e.head # None => e.head \in proof.passed
  /\ e.kind = "ApprovalGranted" /\ e.head # None => e.head \in proof.approved

ProofTypes == proof \in [passed : SUBSET Option(Heads), approved : SUBSET Heads]

PatchesReal == \A h \in Heads : Used(h) => repo.commit[h].patch # EmptyPatch

SnapshotVouched == Vouched(Flow, row.st, Known, proof.passed, ApprovedPatches)

VerdictsSound ==
  /\ \A k \in DOMAIN proc.queue : proc.queue[k].kind \notin Verdicts
  /\ InHand => Certified(proc.doing.event)

\* A merge is made on the main its head was made on.
BaseSound ==
  /\ proc.doing.at = "forge" =>
       OnMain(proc.doing.head) \/ repo.commit[proc.doing.head].base = proc.doing.main
  /\ proc.doing.at \in {"intent", "recheck", "move"} =>
       repo.commit[proc.doing.head].base = proc.doing.main

\* The head h was tested, and a head with its patch was approved.
VettedHead(h) ==
  /\ h \in Heads /\ Used(h) /\ h \in proof.passed
  /\ ~Flow.allow_unreviewed =>
       \E a \in proof.approved : Used(a) /\ repo.commit[a].patch = repo.commit[h].patch

VettedAt(k) == VettedHead(repo.main[k].head) /\ repo.commit[repo.main[k].head].base = k - 1

MainVetted == \A k \in DOMAIN repo.main : repo.main[k].by = "daemon" => VettedAt(k)

Vet ==
  /\ ProofTypes /\ PatchesReal /\ SnapshotVouched /\ VerdictsSound /\ BaseSound /\ MainVetted

\* What the step adds to what was tested and approved.
Learned ==
  /\ ProofTypes'
  /\ proof.passed \subseteq proof'.passed /\ proof.approved \subseteq proof'.approved

\* What is known stays known.
LEMMA MoreKnown ==
  ASSUME Types, Types', Grows, ProofTypes, Learned
  PROVE  /\ Known \subseteq Known' /\ ApprovedPatches \subseteq ApprovedPatches'
         /\ \A e : Certified(e) => Certified(e)'
         /\ \A h : VettedHead(h) => VettedHead(h)'
<1>1. /\ \A h \in Heads : Used(h) => Used(h)' /\ repo'.commit[h] = repo.commit[h]
      /\ \A h \in Heads : \A p : Used(h) /\ NamedAs(h, p) => NamedAs(h, p)'
  BY StillThere DEF Types, Grows
<1>2. Known \subseteq Known'
  <2> SUFFICES ASSUME NEW h \in Heads, NEW p \in Patches, Used(h), NamedAs(h, p)
               PROVE  Used(h)' /\ NamedAs(h, p)'
    BY DEF Known
  <2> QED  BY <1>1
<1>3. ApprovedPatches \subseteq ApprovedPatches'
  <2> SUFFICES ASSUME NEW g \in proof.approved, Used(g)
               PROVE  g \in proof'.approved /\ Used(g)' /\ repo'.commit[g] = repo.commit[g]
    BY DEF ApprovedPatches
  <2>1. g \in Heads
    BY DEF ProofTypes
  <2> QED  BY <1>1, <2>1 DEF Learned
<1>4. \A e : Certified(e) => Certified(e)'
  BY DEF Certified, Learned
<1>5. \A h : VettedHead(h) => VettedHead(h)'
  <2> SUFFICES ASSUME NEW h, VettedHead(h) PROVE VettedHead(h)'
    OBVIOUS
  <2>1. h \in Heads /\ Used(h) /\ h \in proof.passed
    BY DEF VettedHead
  <2>2. CASE ~Flow.allow_unreviewed
    <3>1. PICK a \in proof.approved : Used(a) /\ repo.commit[a].patch = repo.commit[h].patch
      BY <2>2 DEF VettedHead
    <3>2. a \in Heads
      BY DEF ProofTypes
    <3> QED  BY <1>1, <2>1, <3>1, <3>2 DEF VettedHead, Learned
  <2>3. CASE Flow.allow_unreviewed
    BY <1>1, <2>1, <2>3 DEF VettedHead, Learned
  <2> QED  BY <2>2, <2>3
<1> QED  BY <1>2, <1>3, <1>4, <1>5

\* What a step does not touch.
LEMMA KeepsVet ==
  ASSUME Core, Core', Vet, Grows, Learned, SnapshotVouched' \/ row'.st = row.st,
         \A k \in DOMAIN proc'.queue :
           \/ \E j \in DOMAIN proc.queue : proc'.queue[k] = proc.queue[j]
           \/ proc'.queue[k].kind \notin Verdicts,
         InHand' => Certified(proc.doing.event)', BaseSound',
         repo'.commit = repo.commit \/ PatchesReal',
         \A k \in DOMAIN repo'.main :
           \/ k \in DOMAIN repo.main \/ repo'.main[k].by = "outside"
           \/ VettedAt(k)'
  PROVE  Vet'
<1>1. Types /\ Types' /\ ProofTypes /\ PatchesReal /\ SnapshotVouched /\ VerdictsSound /\ MainVetted
  BY DEF Core, Vet
<1>2. /\ Known \subseteq Known' /\ ApprovedPatches \subseteq ApprovedPatches'
      /\ \A h : VettedHead(h) => VettedHead(h)'
  BY <1>1, MoreKnown
<1>3. SnapshotVouched'
  <2> SUFFICES ASSUME row'.st = row.st PROVE SnapshotVouched'
    OBVIOUS
  <2>1. PICK K, T, V, L, U, W :
          /\ K = Known /\ T = proof.passed /\ V = ApprovedPatches
          /\ L = Known' /\ U = proof'.passed /\ W = ApprovedPatches'
    OBVIOUS
  <2>2. K \subseteq L /\ T \subseteq U /\ V \subseteq W
    BY <1>2, <2>1 DEF Learned
  <2>3. PICK s : s = row.st
    OBVIOUS
  <2>4. Vouched(Flow, s, K, T, V)
    BY <1>1, <2>1, <2>3 DEF SnapshotVouched
  <2>5. Vouched(Flow, s, L, U, W)
    BY <2>2, <2>4, VouchedMore
  <2> QED  BY <2>1, <2>3, <2>5 DEF SnapshotVouched
<1>4. VerdictsSound'
  BY <1>1 DEF VerdictsSound
<1>5. PatchesReal'
  BY <1>1 DEF PatchesReal, Used
<1>6. MainVetted'
  <2> SUFFICES ASSUME NEW k \in DOMAIN repo'.main, repo'.main[k].by = "daemon"
               PROVE  VettedAt(k)'
    BY DEF MainVetted
  <2>1. CASE k \in DOMAIN repo.main
    <3>1. repo'.main[k] = repo.main[k]
      BY <2>1 DEF Grows
    <3>2. PICK h : h = repo.main[k].head
      OBVIOUS
    <3>3. VettedHead(h) /\ repo.commit[h].base = k - 1
      BY <1>1, <2>1, <3>1, <3>2 DEF MainVetted, VettedAt
    <3>4. VettedHead(h)' /\ repo'.commit[h] = repo.commit[h]
      BY <1>2, <3>3 DEF VettedHead, Grows
    <3> QED  BY <3>1, <3>2, <3>3, <3>4 DEF VettedAt
  <2>2. CASE k \notin DOMAIN repo.main
    <3>1. repo'.main[k].by # "outside"
      OBVIOUS
    <3> QED  BY <2>2, <3>1
  <2> QED  BY <2>1, <2>2
<1> QED  BY <1>3, <1>4, <1>5, <1>6 DEF Vet, Learned

\* Nothing more is known of the heads.
LEMMA SameProof ==
  ASSUME Vet, proof' = proof
  PROVE  Learned
BY DEF Vet, ProofTypes, Learned

\* A step that neither merges nor has an event in hand.
LEMMA QuietVet ==
  ASSUME Core, Core', Vet, Grows, Learned, row'.st = row.st, repo'.commit = repo.commit,
         \A k \in DOMAIN repo'.main : k \in DOMAIN repo.main,
         \A k \in DOMAIN proc'.queue :
           \/ \E j \in DOMAIN proc.queue : proc'.queue[k] = proc.queue[j]
           \/ proc'.queue[k].kind \notin Verdicts,
         ~InHand', proc'.doing.at \notin MergeSteps
  PROVE  Vet'
<1>1. BaseSound'
  BY DEF BaseSound, MergeSteps, ForgeSteps
<1> QED  BY <1>1, KeepsVet

-----------------------------------------------------------------------------
(* D14: the steps.                                                         *)

\* An input is taken; a verdict that comes in was given.
LEMMA TakesVet ==
  ASSUME Core, Core', Vet, NEW e \in EventRecord, Takes(e), Learned,
         e.kind \in Verdicts => Certified(e)'
  PROVE  Vet'
<1>1. Types /\ repo' = repo /\ row' = row /\ proc'.doing = [at |-> "receive", event |-> e]
  BY DEF Core, Takes
<1>2. Grows
  BY <1>1, SameRepo
<1>3. BaseSound'
  BY <1>1 DEF BaseSound
<1>4. InHand' => Certified(proc.doing.event)'
  BY <1>1 DEF Certified, Verdicts
<1>5. \A k \in DOMAIN proc'.queue : \E j \in DOMAIN proc.queue : proc'.queue[k] = proc.queue[j]
  BY QueueTypes DEF Takes, Core, Types
<1> QED  BY <1>1, <1>2, <1>3, <1>4, <1>5, KeepsVet

LEMMA PlainTakesVet ==
  ASSUME Core, Core', Vet, proof' = proof,
         \E e \in EventRecord : EventSound(e) /\ Takes(e) /\ e.kind \notin Verdicts
  PROVE  Vet'
BY SameProof, TakesVet

LEMMA QueuedEventVet ==
  ASSUME Core, Core', Vet, QueuedEvent
  PROVE  Vet'
<1>1. PICK e \in EventRecord : EventSound(e) /\ Takes(e) /\ e = Head(proc.queue)
  BY QueuedEventTakes
<1>2. proc.queue # <<>> /\ proof' = proof
  BY DEF QueuedEvent
<1>3. 1 \in DOMAIN proc.queue /\ e = proc.queue[1]
  BY <1>1, <1>2, QueueTypes DEF Core, Types
<1>4. e.kind \notin Verdicts
  BY <1>3 DEF Vet, VerdictsSound
<1> QED  BY <1>1, <1>2, <1>4, SameProof, TakesVet

\* A review: the head of the binding was looked at.
LEMMA ReviewVet ==
  ASSUME Core, Core', Vet, NEW granted \in BOOLEAN, Review(granted)
  PROVE  Vet'
<1>1. PICK e \in EventRecord :
        /\ EventSound(e) /\ Takes(e)
        /\ e.kind \in Verdicts =>
             granted /\ e.kind = "ApprovalGranted" /\ e.head = row.review.head
  BY ReviewTakes
<1>2. row.review.head \in Option(Heads)
  BY DEF Review, Core, Types, Rows, Option, ReviewRecord
<1>3. proof' = IF granted /\ row.review.head # None
               THEN [proof EXCEPT !.approved = @ \cup {row.review.head}] ELSE proof
  BY DEF Review
<1>4. PICK h \in Option(Heads) : h = row.review.head
  BY <1>2
<1>5. proof \in [passed : SUBSET Option(Heads), approved : SUBSET Heads]
  BY DEF Vet, ProofTypes
<1>6. Learned
  BY <1>3, <1>4, <1>5 DEF Learned, ProofTypes, Option
<1>7. granted /\ h # None => h \in proof'.approved
  BY <1>3, <1>4, <1>5
<1>8. e.kind \in Verdicts => Certified(e)'
  BY <1>1, <1>4, <1>7 DEF Certified, Verdicts
<1> QED  BY <1>1, <1>6, <1>8, TakesVet

\* A check: it ran on the head it was asked for.
LEMMA CheckResultVet ==
  ASSUME Core, Core', Vet, NEW c \in proc.checking, NEW result \in {"pass", "fail", "blocked"},
         CheckResult(c, result)
  PROVE  Vet'
<1>1. \/ Drops
      \/ \E e \in EventRecord :
           /\ EventSound(e) /\ Takes(e)
           /\ e.kind \in Verdicts =>
                result = "pass" /\ e.kind = "CommandPassed" /\ e.head = c.head
  BY CheckResultTakes
<1>2. c.head \in Option(Heads)
  BY DEF Core, Types, Procs, Checks
<1>3. proof' = IF result = "pass" THEN [proof EXCEPT !.passed = @ \cup {c.head}] ELSE proof
  BY DEF CheckResult
<1>4. proof \in [passed : SUBSET Option(Heads), approved : SUBSET Heads]
  BY DEF Vet, ProofTypes
<1>5. Learned /\ (result = "pass" => c.head \in proof'.passed)
  BY <1>2, <1>3, <1>4 DEF Learned, ProofTypes
<1>6. CASE Drops
  <2>1. /\ Types /\ repo' = repo /\ row'.st = row.st /\ proc'.queue = proc.queue
        /\ proc'.doing = Idle
    BY <1>6 DEF Core, Drops
  <2>2. ~InHand' /\ proc'.doing.at \notin MergeSteps
    BY <2>1 DEF InHand, Idle, MergeSteps, ForgeSteps
  <2> QED  BY <1>5, <2>1, <2>2, SameRepo, QuietVet
<1>7. CASE \E e \in EventRecord :
             /\ EventSound(e) /\ Takes(e)
             /\ e.kind \in Verdicts =>
                  result = "pass" /\ e.kind = "CommandPassed" /\ e.head = c.head
  <2>1. PICK e \in EventRecord :
          /\ Takes(e)
          /\ e.kind \in Verdicts =>
               result = "pass" /\ e.kind = "CommandPassed" /\ e.head = c.head
    BY <1>7
  <2>2. e.kind \in Verdicts => Certified(e)'
    BY <1>5, <2>1 DEF Certified
  <2> QED  BY <1>5, <2>1, <2>2, TakesVet
<1> QED  BY <1>1, <1>6, <1>7

\* What the engine does for itself, with nothing in hand.
LEMMA IdleVet ==
  ASSUME Core, Core', Vet, proof' = proof,
         Drops \/ Skips \/ Block \/ Unblock \/ Retry \/ Boot \/ Cleanup \/ Crash
  PROVE  Vet'
<1>1. Types /\ Learned
  BY SameProof DEF Core
<1>2. /\ row'.st = row.st /\ Grows /\ repo'.commit = repo.commit /\ repo'.main = repo.main
      /\ proc'.queue = proc.queue \/ proc'.queue = <<>>
  <2>1. CASE Drops \/ Skips
    BY <1>1, <2>1, SameRepo DEF Drops, Skips
  <2>2. CASE Block
    BY <1>1, <2>2, SameRepo, BlockDrops
  <2>3. CASE Unblock \/ Retry
    BY <1>1, <2>3, SameRepo, UnblockAsks, RetryAsks DEF AsksAgain
  <2>4. CASE Boot
    BY <1>1, <2>4, SameRepo, BootTakesUp
  <2>5. CASE Crash
    BY <1>1, <2>5, SameRepo, CrashEnds DEF Ended
  <2>6. CASE Cleanup
    BY <1>1, <2>6, Released, CleanupEnds DEF Ended, Types
  <2> QED  BY <2>1, <2>2, <2>3, <2>4, <2>5, <2>6
<1>3. /\ proc'.doing.at \notin MergeSteps
      /\ ~InHand' \/ (proc'.doing.at = "receive" /\ proc'.doing.event.kind = "Start")
  <2>1. CASE Drops \/ Skips
    BY <2>1 DEF Drops, Skips, Idle, InHand, MergeSteps, ForgeSteps
  <2>2. CASE Block
    BY <2>2, BlockDrops DEF Idle, InHand, MergeSteps, ForgeSteps
  <2>3. CASE Unblock \/ Retry
    BY <2>3, UnblockAsks, RetryAsks DEF AsksAgain, InHand, MergeSteps, ForgeSteps
  <2>4. CASE Boot
    BY <2>4, BootTakesUp DEF AsksAgain, Idle, InHand, MergeSteps, ForgeSteps
  <2>5. CASE Cleanup \/ Crash
    BY <2>5, CleanupEnds, CrashEnds DEF Idle, InHand, MergeSteps, ForgeSteps
  <2> QED  BY <2>1, <2>2, <2>3, <2>4, <2>5
<1>4. BaseSound'
  BY <1>3 DEF BaseSound, MergeSteps, ForgeSteps
<1>5. InHand' => Certified(proc.doing.event)'
  BY <1>3 DEF Certified
<1>6. \A k \in DOMAIN proc'.queue : \E j \in DOMAIN proc.queue : proc'.queue[k] = proc.queue[j]
  BY <1>2
<1> QED  BY <1>1, <1>2, <1>4, <1>5, <1>6, KeepsVet

\* The actions of a step are carried out.
LEMMA PerformsVet ==
  ASSUME Core, Core', Vet, proof' = proof, Performs
  PROVE  Vet'
<1>1. Types /\ Learned /\ repo' = repo /\ row'.st = row.st
  BY SameProof DEF Core, Performs
<1>2. Grows
  BY <1>1, SameRepo
<1>3. BaseSound'
  BY DEF Performs, BaseSound, Idle
<1>4. InHand' => Certified(proc.doing.event)'
  <2> SUFFICES ASSUME InHand' PROVE Certified(proc.doing.event)'
    OBVIOUS
  <2>1. proc'.doing.event = proc.doing.event /\ InHand
    BY DEF Performs, InHand, Idle
  <2>2. Certified(proc.doing.event)
    BY <2>1 DEF Vet, VerdictsSound
  <2> QED  BY <2>1, <2>2 DEF Certified, Learned
<1>5. \A k \in DOMAIN proc'.queue :
        \/ \E j \in DOMAIN proc.queue : proc'.queue[k] = proc.queue[j]
        \/ proc'.queue[k].kind \notin Verdicts
  <2>1. CASE proc'.queue = proc.queue
    BY <2>1
  <2>2. CASE \E f \in EventRecord : f.kind = "Submitted" /\ proc'.queue = proc.queue \o <<f>>
    <3>1. PICK f \in EventRecord : f.kind = "Submitted" /\ proc'.queue = proc.queue \o <<f>>
      BY <2>2
    <3>2. PICK r : r = <<f>>
      OBVIOUS
    <3>3. r \in Seq(EventRecord) /\ \A j \in DOMAIN r : r[j] = f
      BY <3>2, OneEvent
    <3>4. \A k \in DOMAIN proc'.queue :
            \/ k \in DOMAIN proc.queue /\ proc'.queue[k] = proc.queue[k]
            \/ proc'.queue[k] = f
      BY <1>1, <3>1, <3>2, <3>3, Appended DEF Types
    <3> QED  BY <3>1, <3>4 DEF Verdicts
  <2> QED  BY <2>1, <2>2 DEF Performs
<1> QED  BY <1>1, <1>2, <1>3, <1>4, <1>5, KeepsVet

-----------------------------------------------------------------------------
(* D14: the state machine and the merge.                                   *)

\* What an event says is attested.
LEMMA GivenAttested ==
  ASSUME Core, Vet, NEW u \in EventRecord, NEW f, NEW n, Given(u, f, n)
  PROVE  Attested(u, Known, proof.passed, ApprovedPatches)
<1>1. EventSound(u) /\ InHand
  BY DEF Given, InHand
<1>2. u = proc.doing.event \/ u.kind = "CommitCreated"
  BY DEF Given
<1>3. Certified(u)
  BY <1>1, <1>2 DEF Vet, VerdictsSound, Certified
<1>4. u.kind \in {"WorkCompleted", "CommitCreated", "MainAdvanced"} =>
        <<u.head, u.patch>> \in Known
  BY <1>1 DEF EventSound, Known
<1>5. u.kind = "ApprovalGranted" => \A p : <<u.head, p>> \in Known => p \in ApprovedPatches
  <2> SUFFICES ASSUME u.kind = "ApprovalGranted", NEW p, <<u.head, p>> \in Known
               PROVE  p \in ApprovedPatches
    OBVIOUS
  <2>1. u.head \in Heads /\ Used(u.head) /\ NamedAs(u.head, p)
    BY DEF Known
  <2>2. u.head \in proof.approved
    BY <1>3, <2>1, NoneAssumption DEF Certified
  <2> QED  BY <2>1, <2>2 DEF ApprovedPatches, NamedAs
<1> QED  BY <1>3, <1>4, <1>5 DEF Attested, Certified

LEMMA GivenVet ==
  ASSUME Core, Core', Vet, proof' = proof, NEW u \in EventRecord, NEW f, NEW n, Given(u, f, n)
  PROVE  Vet'
<1>1. /\ Types /\ Learned /\ repo' = repo /\ row'.st = [n EXCEPT !.actions = {}]
      /\ proc'.doing = [at |-> "act", acts |-> n.actions, event |-> f]
      /\ proc'.queue = proc.queue /\ StepInv(Flow, n)
  BY SameProof DEF Core, Given, Rightly
<1>2. Grows
  BY <1>1, SameRepo
<1>3. BaseSound'
  BY <1>1 DEF BaseSound
<1>4. InHand' => Certified(proc.doing.event)'
  <2> SUFFICES ASSUME InHand' PROVE Certified(proc.doing.event)'
    OBVIOUS
  <2>1. proc'.doing.event = f /\ f # None
    BY <1>1 DEF InHand
  <2>2. f = proc.doing.event /\ InHand
    BY <2>1 DEF Given, InHand
  <2>3. Certified(proc.doing.event)
    BY <2>2 DEF Vet, VerdictsSound
  <2> QED  BY <2>1, <2>2, <2>3 DEF Certified, Learned
<1>5. SnapshotVouched'
  <2>1. PICK s, K, T, V :
          s = row.st /\ K = Known /\ T = proof.passed /\ V = ApprovedPatches
    OBVIOUS
  <2>2. Stored(s)
    BY <2>1, TicketType DEF Stored, Core, Machine
  <2>3. Meant(u)
    BY DEF Meant, EventSound, EventRecord, Given
  <2>4. n = Step(s, u) /\ n.status # "refused"
    BY <2>1 DEF Given
  <2>5. Vouched(Flow, s, K, T, V)
    BY <2>1 DEF Vet, SnapshotVouched
  <2>6. Attested(u, K, T, V)
    BY <2>1, GivenAttested
  <2>7. Vouched(Flow, n, K, T, V)
    BY <2>2, <2>3, <2>4, <2>5, <2>6, StepVouched
  <2>8. n \in Copies(Flow)
    BY <1>1 DEF StepInv
  <2>9. Vouched(Flow, row'.st, K, T, V)
    <3>1. PICK x : x = row'.st
      OBVIOUS
    <3>2. /\ x.current_head = n.current_head /\ x.patch_id = n.patch_id
          /\ x.pending_head_changes = n.pending_head_changes
          /\ x.passed_checks = n.passed_checks /\ x.approvals = n.approvals
      BY <1>1, <2>8, <3>1 DEF Copies
    <3>3. Narrower(n, x)
      BY <3>2 DEF Narrower
    <3>4. Vouched(Flow, x, K, T, V)
      BY <2>7, <3>3, NarrowerVouched
    <3> QED  BY <3>1, <3>4
  <2>10. K = Known' /\ T = proof'.passed /\ V = ApprovedPatches'
    BY <1>1, <2>1 DEF Known, ApprovedPatches, Used, NamedAs, OnMain
  <2> QED  BY <2>9, <2>10 DEF SnapshotVouched
<1>6. \A k \in DOMAIN proc'.queue : \E j \in DOMAIN proc.queue : proc'.queue[k] = proc.queue[j]
  BY <1>1
<1> QED  BY <1>1, <1>2, <1>3, <1>4, <1>5, <1>6, KeepsVet

\* The gate of the merge stage: its head was tested and approved, unless main
\* contains it already.
LEMMA MergingVetted ==
  ASSUME Core, Vet, MergeInFlight(Flow, row.st)
  PROVE  LET h == row.st.current_head
         IN  h \in Heads /\ Used(h) /\ (OnMain(h) \/ VettedHead(h))
<1> DEFINE s == row.st
           i == s.stage_index
           h == s.current_head
<1>1. i \in Index(Flow) /\ IsKind(Flow, i, "merge") /\ Covered(Flow, s, i)
  BY DEF Core, Machine, StepInv, Position, MergeInFlight, InStage
<1>2. MergeGate(Flow, s, i)
  BY <1>1, FlowFacts, GateOpen
<1>3. h # None
  BY <1>2 DEF MergeGate
<1>4. <<h, s.patch_id>> \in Known
  BY <1>3 DEF Vet, SnapshotVouched, Vouched
<1>5. h \in Heads /\ Used(h) /\ NamedAs(h, s.patch_id)
  BY <1>4 DEF Known
<1>6. h \in proof.passed
  <2>1. PICK j \in Index(Flow) : j < i /\ IsKind(Flow, j, "command")
    BY <1>2 DEF MergeGate
  <2>2. CheckPassed(s, j)
    BY <1>2, <2>1 DEF MergeGate
  <2>3. PICK c : c \in s.passed_checks /\ c.head = h
    BY <2>2 DEF CheckPassed
  <2> QED  BY <1>3, <2>3 DEF Vet, SnapshotVouched, Vouched
<1>7. ~Flow.allow_unreviewed => s.patch_id \in ApprovedPatches
  <2> SUFFICES ASSUME ~Flow.allow_unreviewed PROVE s.patch_id \in ApprovedPatches
    OBVIOUS
  <2>1. PICK j \in Index(Flow) :
          j < i /\ IsKind(Flow, j, "approval") /\ Flow.stages[j].bind_head
    BY <1>2 DEF MergeGate
  <2>2. ApprovalForStage(Flow, s, j)
    BY <1>2, <2>1 DEF MergeGate
  <2>3. \E a \in s.approvals : Flow.stages[a.stage].bind_head
    BY <2>1, <2>2 DEF ApprovalForStage
  <2> QED  BY <2>3 DEF Vet, SnapshotVouched, Vouched
<1>8. ASSUME ~OnMain(h) PROVE VettedHead(h)
  <2>1. s.patch_id = repo.commit[h].patch /\ s.patch_id # EmptyPatch
    BY <1>5, <1>8 DEF NamedAs, Vet, PatchesReal
  <2>2. ~Flow.allow_unreviewed =>
          \E a \in proof.approved : Used(a) /\ repo.commit[a].patch = repo.commit[h].patch
    BY <1>7, <2>1 DEF ApprovedPatches
  <2> QED  BY <1>5, <1>6, <2>2 DEF VettedHead
<1> QED  BY <1>5, <1>8

\* A merge goes on.
LEMMA GoesOnVet ==
  ASSUME Core, Core', Vet, proof' = proof, GoesOn, repo' = repo, BaseSound'
  PROVE  Vet'
<1>1. Types /\ Learned /\ row'.st = row.st /\ proc'.queue = proc.queue
  BY SameProof DEF Core, GoesOn
<1>2. Grows
  BY <1>1, SameRepo
<1>3. ~InHand'
  BY DEF GoesOn, InHand, ForgeSteps
<1> QED  BY <1>1, <1>2, <1>3, KeepsVet

\* A merge ends.
LEMMA EndsVet ==
  ASSUME Core, Core', Vet, proof' = proof, NEW kind, Ends(kind),
         repo'.commit = repo.commit \/ PatchesReal'
  PROVE  Vet'
<1>1. Learned /\ Grows /\ repo'.main = repo.main
  BY SameProof DEF Ends
<1>2. PICK r \in Seq(EventRecord) : Posts(r) /\ Reports(r, kind)
  BY DEF Ends
<1>3. row'.st = row.st /\ proc'.doing = Idle /\ proc'.queue = proc.queue \o r
  BY <1>2 DEF Posts
<1>4. ~InHand' /\ BaseSound'
  BY <1>3 DEF InHand, Idle, BaseSound
<1>5. \A k \in DOMAIN proc'.queue :
        \/ \E j \in DOMAIN proc.queue : proc'.queue[k] = proc.queue[j]
        \/ proc'.queue[k].kind \notin Verdicts
  <2>1. \A k \in DOMAIN proc'.queue :
          \/ k \in DOMAIN proc.queue /\ proc'.queue[k] = proc.queue[k]
          \/ \E j \in DOMAIN r : proc'.queue[k] = r[j]
    BY <1>3, Appended DEF Core, Types
  <2> QED  BY <1>2, <2>1 DEF Reports
<1> QED  BY <1>1, <1>3, <1>4, <1>5, KeepsVet

LEMMA RealCommitted ==
  ASSUME repo \in Repos, PatchesReal, NEW h \in Heads, NEW c, c.patch # EmptyPatch,
         repo' = [repo EXCEPT !.branch = h, !.commit[h] = c]
  PROVE  PatchesReal'
<1>1. \A g \in Heads : repo'.commit[g] = IF g = h THEN c ELSE repo.commit[g]
  BY DEF Repos
<1> QED  BY <1>1 DEF PatchesReal, Used

LEMMA RebaseVet ==
  ASSUME Core, Core', Vet, NEW conflict \in BOOLEAN, NEW head \in Heads, NEW patch \in Patches,
         Rebase(conflict, head, patch)
  PROVE  Vet'
<1>1. Ends("MergeFailed") /\ proof' = proof
  BY RebaseEnds DEF Rebase
<1>2. CASE conflict \/ UpToDate(repo.branch)
  BY <1>1, <1>2, EndsVet DEF Rebase
<1>3. CASE ~(conflict \/ UpToDate(repo.branch))
  <2>1. PICK c :
          /\ c = Commit(patch, Len(repo.main), {head}) /\ patch # EmptyPatch
          /\ repo' = [repo EXCEPT !.branch = head, !.commit[head] = c]
    BY <1>3 DEF Rebase
  <2>2. c.patch # EmptyPatch
    BY <2>1 DEF Commit
  <2>3. PatchesReal'
    BY <2>1, <2>2, RealCommitted DEF Core, Types, Vet
  <2> QED  BY <1>1, <2>3, EndsVet
<1> QED  BY <1>2, <1>3

\* main moves to a head that was tested and approved, on the main it was made on.
LEMMA MovedVet ==
  ASSUME Core, Core', Once, Vet, proof' = proof, GoesOn,
         proc.doing.at = "move", proc'.doing.at = "moved", row' = row,
         Len(repo.main) = proc.doing.main, repo' = Push("daemon", proc.doing.head)
  PROVE  Vet'
<1>1. PICK h : h = proc.doing.head
  OBVIOUS
<1>2. ~OnMain(h) /\ MergeInFlight(Flow, row.st) /\ h = row.st.current_head
  BY <1>1 DEF Once, ForgeSound, Core, DoingSound, MergeSteps, ForgeSteps
<1>3. h \in Heads /\ Used(h) /\ VettedHead(h)
  BY <1>2, MergingVetted
<1>4. /\ Types /\ Types' /\ ProofTypes /\ Learned /\ repo \in Repos /\ RepoSound
  BY SameProof DEF Core, Types, Vet
<1>5. PICK by \in {"daemon", "outside"} : by = "daemon"
  OBVIOUS
<1>6. /\ repo' \in Repos /\ Grows /\ repo'.commit = repo.commit
      /\ Len(repo'.main) = Len(repo.main) + 1
      /\ repo'.main[Len(repo'.main)] = [by |-> by, head |-> h]
  BY <1>1, <1>3, <1>4, <1>5, Pushed DEF Option
<1>7. repo.commit[h].base = Len(repo.main)
  BY <1>1 DEF Vet, BaseSound
<1>8. \A k \in DOMAIN repo'.main : k \in DOMAIN repo.main \/ VettedAt(k)'
  <2> SUFFICES ASSUME NEW k \in DOMAIN repo'.main, k \notin DOMAIN repo.main
               PROVE  VettedAt(k)'
    OBVIOUS
  <2>1. k = Len(repo.main) + 1
    <3>1. Len(repo.main) \in Nat /\ DOMAIN repo.main = 1 .. Len(repo.main)
      BY <1>4, MainTypes
    <3>2. Len(repo'.main) \in Nat /\ DOMAIN repo'.main = 1 .. Len(repo'.main)
      BY <1>6 DEF Repos
    <3> QED  BY <1>6, <3>1, <3>2
  <2>2. repo'.main[k].head = h
    BY <1>6, <2>1
  <2>3. VettedHead(h)'
    BY <1>3, <1>4, <1>6, MoreKnown
  <2>4. repo'.commit[h].base = k - 1
    <3>1. Len(repo.main) \in Nat
      BY <1>4, MainTypes
    <3> QED  BY <1>6, <1>7, <2>1, <3>1
  <2> QED  BY <2>2, <2>3, <2>4 DEF VettedAt
<1>9. ~InHand' /\ BaseSound'
  BY DEF InHand, BaseSound
<1> QED  BY <1>4, <1>6, <1>8, <1>9, KeepsVet DEF GoesOn

LEMMA MergeStepVet ==
  ASSUME Core, Core', Once, Vet, MergeStep
  PROVE  Vet'
<1>1. CASE PrepareMerge
  <2>1. /\ GoesOn /\ repo' = repo /\ proof' = proof
        /\ proc'.doing.at = "forge" /\ proc'.doing.main = Len(repo.main)
    BY <1>1, PrepareMergeGoesOn DEF PrepareMerge
  <2>2. OnMain(proc.doing.head) \/ repo.commit[proc.doing.head].base = Len(repo.main)
    BY <1>1 DEF PrepareMerge, FindMerge, UpToDate, Merging
  <2>3. BaseSound'
    BY <2>1, <2>2 DEF GoesOn, BaseSound, OnMain
  <2> QED  BY <2>1, <2>3, GoesOnVet
<1>2. CASE \E c \in BOOLEAN, h \in Heads, p \in Patches : Rebase(c, h, p)
  BY <1>2, RebaseVet
<1>3. CASE ForgeLooks
  <2>1. proof' = proof /\ repo' = repo /\ proc.doing.at = "forge"
    BY <1>3 DEF ForgeLooks, Doing
  <2>2. CASE Ends("MergeCompleted") \/ Ends("MergeFailed")
    BY <2>1, <2>2, EndsVet
  <2>3. CASE /\ GoesOn /\ proc'.doing.at = "intent"
             /\ proc'.doing.main = proc.doing.main /\ ~OnMain(proc.doing.head)
    <3>1. BaseSound'
      BY <2>1, <2>3 DEF GoesOn, Vet, BaseSound
    <3> QED  BY <2>1, <2>3, <3>1, GoesOnVet
  <2> QED  BY <1>3, <2>2, <2>3, ForgeLooksEnds
<1>4. CASE RecordIntent
  <2>1. /\ GoesOn /\ repo' = repo /\ proof' = proof /\ proc.doing.at = "intent"
        /\ proc'.doing.at = "recheck" /\ proc'.doing.main = proc.doing.main
    BY <1>4, RecordIntentGoesOn DEF RecordIntent, Doing
  <2>2. BaseSound'
    BY <2>1 DEF GoesOn, Vet, BaseSound
  <2> QED  BY <2>1, <2>2, GoesOnVet
<1>5. CASE RecheckRefs
  <2>1. proof' = proof /\ repo' = repo /\ proc.doing.at = "recheck"
    BY <1>5, RecheckRefsEnds DEF RecheckRefs
  <2>2. CASE Ends("MergeFailed")
    BY <2>1, <2>2, EndsVet
  <2>3. CASE GoesOn /\ proc'.doing.at = "move" /\ proc'.doing.main = proc.doing.main
    <3>1. BaseSound'
      BY <2>1, <2>3 DEF GoesOn, Vet, BaseSound
    <3> QED  BY <2>1, <2>3, <3>1, GoesOnVet
  <2> QED  BY <1>5, <2>2, <2>3, RecheckRefsEnds
<1>6. CASE MoveMain
  <2>1. proof' = proof /\ proc.doing.at = "move"
    BY <1>6, MoveMainEnds DEF MoveMain
  <2>2. CASE Ends("MergeFailed") /\ repo' = repo
    BY <2>1, <2>2, EndsVet
  <2>3. CASE /\ GoesOn /\ proc'.doing.at = "moved" /\ row' = row
             /\ Len(repo.main) = proc.doing.main /\ repo' = Push("daemon", proc.doing.head)
    BY <2>1, <2>3, MovedVet
  <2> QED  BY <1>6, <2>2, <2>3, MoveMainEnds
<1>7. CASE ReportMerge
  BY <1>7, ReportMergeEnds, EndsVet DEF ReportMerge
<1> QED  BY <1>1, <1>2, <1>3, <1>4, <1>5, <1>6, <1>7 DEF MergeStep

\* The rest of the world changes no commit and vets nothing.
LEMMA ElsewhereVet ==
  ASSUME Core, Core', Vet, proof' = proof, Elsewhere,
         repo'.commit = repo.commit \/ PatchesReal'
  PROVE  Vet'
<1>1. Learned /\ Grows /\ row'.st = row.st /\ proc' = proc
  BY SameProof DEF Elsewhere
<1>2. InHand' => Certified(proc.doing.event)'
  BY <1>1 DEF InHand, Vet, VerdictsSound, Certified
<1>3. BaseSound'
  <2>1. CASE proc.doing.at \in {"forge", "intent", "recheck", "move"}
    <3>1. PICK h : h = proc.doing.head
      OBVIOUS
    <3>2. MergeInFlight(Flow, row.st) /\ h = row.st.current_head
      BY <2>1, <3>1 DEF Core, DoingSound, MergeSteps, ForgeSteps
    <3>3. h \in Heads /\ Used(h)
      BY <3>2, MergingVetted
    <3>4. repo'.commit[h] = repo.commit[h] /\ (OnMain(h) => OnMain(h)')
      BY <3>3, StillThere DEF Core, Types, Elsewhere, Grows
    <3> QED  BY <1>1, <3>1, <3>4 DEF Vet, BaseSound
  <2>2. CASE proc.doing.at \notin {"forge", "intent", "recheck", "move"}
    BY <1>1, <2>2 DEF BaseSound
  <2> QED  BY <2>1, <2>2
<1>4. \A k \in DOMAIN repo'.main :
        k \in DOMAIN repo.main \/ repo'.main[k].by = "outside"
  BY DEF Elsewhere
<1> QED  BY <1>1, <1>2, <1>3, <1>4, KeepsVet

LEMMA AgentCommitsVet ==
  ASSUME Core, Core', Vet, NEW patch \in Patches, AgentCommits(patch)
  PROVE  Vet'
<1>1. Elsewhere /\ proof' = proof
  BY AgentCommitsElsewhere DEF AgentCommits
<1>2. PICK c :
        /\ c.patch = patch
        /\ repo' = [repo EXCEPT !.branch = NewHead, !.commit[NewHead] = c]
  <2>1. PICK base, within :
          repo' = [repo EXCEPT !.branch = NewHead,
                     !.commit[NewHead] = Commit(patch, base, within)]
    BY DEF AgentCommits
  <2>2. Commit(patch, base, within).patch = patch
    BY DEF Commit
  <2> QED  BY <2>1, <2>2
<1>3. patch # EmptyPatch /\ NewHead \in Heads
  BY NewHeadUnused DEF AgentCommits
<1>4. PICK h \in Heads : h = NewHead
  BY <1>3
<1>5. PatchesReal'
  BY <1>2, <1>3, <1>4, RealCommitted DEF Core, Types, Vet
<1> QED  BY <1>1, <1>5, ElsewhereVet

LEMMA InitVet ==
  Init => Vet
<1> SUFFICES ASSUME Init PROVE Vet
  OBVIOUS
<1>1. /\ proc.queue = <<>> /\ proc.doing = Idle /\ repo.main = <<>>
      /\ repo.commit = [h \in Heads |-> None]
      /\ proof = [passed |-> {}, approved |-> {}]
      /\ row.st = NewState(Flow)
  BY DEF Init, Booted
<1>2. DOMAIN proc.queue = {} /\ DOMAIN repo.main = {}
  BY <1>1
<1>3. ProofTypes
  BY <1>1 DEF ProofTypes
<1>4. PatchesReal
  BY <1>1 DEF PatchesReal, Used
<1>5. SnapshotVouched
  <2>1. /\ row.st.current_head = None /\ DOMAIN row.st.pending_head_changes = {}
        /\ row.st.passed_checks = {} /\ row.st.approvals = {}
    BY <1>1 DEF NewState
  <2> QED  BY <2>1 DEF SnapshotVouched, Vouched
<1>6. VerdictsSound /\ BaseSound
  BY <1>1, <1>2 DEF VerdictsSound, InHand, BaseSound, Idle
<1>7. MainVetted
  BY <1>2 DEF MainVetted
<1> QED  BY <1>3, <1>4, <1>5, <1>6, <1>7 DEF Vet

LEMMA StutterVet ==
  ASSUME Core, Core', Vet, UNCHANGED vars
  PROVE  Vet'
<1>1. repo' = repo /\ proof' = proof
  BY DEF vars
<1>2. Elsewhere
  BY <1>1, SameRepo DEF Elsewhere, vars, Core
<1> QED  BY <1>1, <1>2, ElsewhereVet

LEMMA LoopVet ==
  ASSUME Core, Core', Once, Vet, Loop
  PROVE  Vet'
<1>1. CASE CreateTask
  BY <1>1, CreateTaskTakes, PlainTakesVet DEF CreateTask
<1>2. CASE QueuedEvent
  BY <1>2, QueuedEventVet
<1>3. CASE HandleEvent
  <2>1. proof' = proof
    BY <1>3 DEF HandleEvent
  <2> QED  BY <1>3, <2>1, HandleEventCases, IdleVet, GivenVet
<1>4. CASE PerformActions
  <2>1. proof' = proof
    BY <1>4 DEF PerformActions
  <2> QED  BY <1>4, <2>1, PerformActionsPerforms, PerformsVet
<1>5. CASE MergeStep
  BY <1>5, MergeStepVet
<1>6. CASE Cleanup \/ Boot
  <2>1. proof' = proof
    BY <1>6 DEF Cleanup, Boot
  <2> QED  BY <1>6, <2>1, IdleVet
<1> QED  BY <1>1, <1>2, <1>3, <1>4, <1>5, <1>6 DEF Loop, MergeStep

LEMMA AnswersVet ==
  ASSUME Core, Core', Vet, Answers
  PROVE  Vet'
<1>1. CASE Done
  BY <1>1, DoneTakes, PlainTakesVet DEF Done
<1>2. CASE Review(TRUE)
  <2>1. PICK granted \in BOOLEAN : Review(granted)
    BY <1>2
  <2> QED  BY <2>1, ReviewVet
<1>3. CASE \E c \in proc.checking : CheckResult(c, "pass")
  <2>1. PICK c \in proc.checking, r \in {"pass", "fail", "blocked"} : CheckResult(c, r)
    BY <1>3
  <2> QED  BY <2>1, CheckResultVet
<1>4. CASE Unblock \/ Retry
  <2>1. proof' = proof
    BY <1>4 DEF Unblock, Retry
  <2> QED  BY <1>4, <2>1, IdleVet
<1>5. CASE CheckoutCleaned
  <2>1. proof' = proof /\ repo'.commit = repo.commit
    BY <1>5 DEF CheckoutCleaned, Core, Types, Repos
  <2> QED  BY <1>5, <2>1, CheckoutElsewhere, ElsewhereVet
<1> QED  BY <1>1, <1>2, <1>3, <1>4, <1>5 DEF Answers

LEMMA TroublesVet ==
  ASSUME Core, Core', Vet, Troubles
  PROVE  Vet'
<1>1. CASE Review(FALSE)
  <2>1. PICK granted \in BOOLEAN : Review(granted)
    BY <1>1
  <2> QED  BY <2>1, ReviewVet
<1>2. CASE \E c \in proc.checking, r \in {"fail", "blocked"} : CheckResult(c, r)
  <2>1. PICK c \in proc.checking, r \in {"pass", "fail", "blocked"} : CheckResult(c, r)
    BY <1>2
  <2> QED  BY <2>1, CheckResultVet
<1>3. CASE \E t \in proc.sleeping : TimerFires(t)
  BY <1>3, TimerFiresTakes, PlainTakesVet DEF TimerFires
<1>4. CASE CancelTask
  BY <1>4, CancelTaskTakes, PlainTakesVet DEF CancelTask
<1>5. CASE Block \/ Crash
  <2>1. proof' = proof
    BY <1>5 DEF Block, Crash
  <2> QED  BY <1>5, <2>1, IdleVet
<1>6. CASE \E h \in Heads : AgentResets(h)
  <2>1. Elsewhere
    BY <1>6, AgentResetsElsewhere
  <2>2. proof' = proof /\ repo'.commit = repo.commit
    BY <1>6 DEF AgentResets, Core, Types, Repos
  <2> QED  BY <2>1, <2>2, ElsewhereVet
<1>7. CASE \E h \in Heads \cup {None} : MainMoves(h)
  <2>1. Elsewhere
    BY <1>7, MainMovesElsewhere
  <2>2. proof' = proof /\ repo'.commit = repo.commit
    BY <1>7 DEF MainMoves, Push, Core, Types, Repos
  <2> QED  BY <2>1, <2>2, ElsewhereVet
<1>8. CASE CheckoutDirtied
  <2>1. proof' = proof /\ repo'.commit = repo.commit
    BY <1>8 DEF CheckoutDirtied, Core, Types, Repos
  <2> QED  BY <1>8, <2>1, CheckoutElsewhere, ElsewhereVet
<1> QED  BY <1>1, <1>2, <1>3, <1>4, <1>5, <1>6, <1>7, <1>8 DEF Troubles

LEMMA NextVet ==
  Core /\ Once /\ Vet /\ [Next]_vars => (Core /\ Once /\ Vet)'
<1> SUFFICES ASSUME Core, Once, Vet, [Next]_vars PROVE Core' /\ Once' /\ Vet'
  OBVIOUS
<1>1. Core' /\ Once'
  BY NextOnce
<1>2. CASE Commits
  BY <1>1, <1>2, AgentCommitsVet DEF Commits
<1>3. CASE Over \/ UNCHANGED vars
  BY <1>1, <1>3, StutterVet DEF Over
<1> QED  BY <1>1, <1>2, <1>3, LoopVet, AnswersVet, TroublesVet DEF Next

\* What the snapshot says of a head was reported of it and what was reported
\* was given: every recorded check passed on the head it names, an approval
\* that counts was given for the patch of the current head, a merge is made on
\* the main its head was made on, and every merge of the daemon was vetted.
THEOREM VetInvariance == Spec => [](Core /\ Once /\ Vet)
<1>1. Init => Core /\ Once /\ Vet
  BY InitCore, InitOnce, InitVet
<1>2. Core /\ Once /\ Vet /\ [Next]_vars => (Core /\ Once /\ Vet)'
  BY NextVet
<1> QED  BY <1>1, <1>2, PTL DEF Spec

\* D14: whatever the engine, the agents, the operator and crashes do, what the
\* daemon puts on main was tested on the main it was merged into, and a reviewer
\* approved its patch.
THEOREM MergedWasVettedTheorem == Spec => []MergedWasVetted
<1>1. Core /\ Once /\ Vet => MergedWasVetted
  BY DEF Vet, MainVetted, VettedAt, VettedHead, MergedWasVetted
<1> QED  BY <1>1, VetInvariance, PTL
=============================================================================
