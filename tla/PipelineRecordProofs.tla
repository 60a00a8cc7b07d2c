------------------------ MODULE PipelineRecordProofs ------------------------
(***************************************************************************)
(* The records of a task, for every valid workflow: every operator of the  *)
(* pipeline step keeps Orderly, which says what PipelineState::restore     *)
(* checks of a snapshot, where head changes may take a task, and what      *)
(* becomes of a pick.                                                      *)
(*                                                                         *)
(* StepInv of PipelineStepProofs says what a task must have behind it;     *)
(* Orderly, kept here on top of it, says what its open stage, its attempts *)
(* and its fanout look like.  Both are needed: a snapshot is restorable    *)
(* because the records are those of the stages behind the task, and head   *)
(* changes never move a task forward because the stage it stands at has no *)
(* record yet.                                                             *)
(***************************************************************************)
EXTENDS PipelineStepProofs

\* Checks and approvals are one per stage, for the current head, and as many
\* reviewers as the stage asks for; head and patch are known together.
Counted(w, s) ==
  /\ s.current_head = None <=> s.patch_id = None
  /\ \A c \in s.passed_checks :
       IsKind(w, c.stage, "command") /\ c.head = s.current_head
  /\ \A a \in s.approvals :
       /\ \A b \in s.approvals : a.stage = b.stage => a = b
       /\ Cardinality(a.reviewers) = w.stages[a.stage].count
       /\ ~w.stages[a.stage].bind_head => a.patch = None

\* A reported timeout is of an attempt that was started.
Notified(w, s) ==
  s.notified_timeout # <<0, 0>> =>
    /\ s.notified_timeout[1] \in Index(w)
    /\ s.notified_timeout[2] \in 1 .. s.attempts[s.notified_timeout[1]]

\* The open stage has been started, has no record yet, and is an approval if
\* it has reviewers, too few of them.  An open fanout has no record after it.
Open(w, s) ==
  s.status = "running" =>
    /\ s.attempts[s.stage_index] > 0
    /\ \A a \in s.approvals : a.stage # s.stage_index
    /\ IsKind(w, s.stage_index, "fanout") => \A a \in s.approvals : a.stage < s.stage_index
    /\ s.approval_reviewers # {} =>
         /\ IsKind(w, s.stage_index, "approval")
         /\ Cardinality(s.approval_reviewers) < w.stages[s.stage_index].count

HasMerge(w) == \E j \in Index(w) : IsKind(w, j, "merge")

\* What goes with each status.  Rework is never of the last stage.
Phase(w, s) ==
  /\ s.status = "pending" => s = NewState(w)
  /\ s.status # "done" => s.stage_index \in Index(w)
  /\ s.status = "done" => s.merge_commit \/ ~HasMerge(w)
  /\ s.pending_head_changes # <<>> => MergeInFlight(w, s)
  /\ s.pending_work_reason => IsKind(w, s.stage_index, "work") /\ s.stage_index < Len_(w)

LastFanout(w) == LastOf({i \in Index(w) : IsKind(w, i, "fanout")})

\* Past its last fanout, at stage i, a task has its children; `picked' is
\* whether the approval behind that fanout has been given.
Fanned(w, s, i, picked) ==
  LET f == LastFanout(w)
  IN  f # 0 /\ f < i =>
        /\ s.fanout_children # {}
        /\ w.stages[f].join = "pick" /\ picked => s.selected_child \in s.fanout_children

FanoutBehind(w, s) ==
  ~PickOutOfReach(w) /\ s.status \in {"running", "done"} =>
    Fanned(w, s, s.stage_index, LastFanout(w) + 1 < s.stage_index)

Orderly(w, s) ==
  Counted(w, s) /\ Notified(w, s) /\ Open(w, s) /\ Phase(w, s) /\ FanoutBehind(w, s)

\* What is needed of a copy, besides MayEnter, to enter stage i.
Ready(w, s, i) ==
  /\ Counted(w, s) /\ Notified(w, s)
  /\ s.pending_head_changes = <<>>
  /\ i = Len_(w) + 1 => ~s.pending_work_reason /\ ~HasMerge(w)
  /\ ~PickOutOfReach(w) =>
       Fanned(w, s, i, \/ LastFanout(w) + 1 < i
                       \/ \E a \in s.approvals : a.stage = LastFanout(w) + 1)

-----------------------------------------------------------------------------
(* What each helper does to the fields that Orderly is about.              *)

\* The outcome n of enter_stage(i) on a running copy s.
Entered(w, s, i, n) ==
  LET j == EntryStage(w, s, i)
  IN  /\ Carried(s, n)
      /\ n.current_head = s.current_head /\ n.patch_id = s.patch_id
      /\ n.passed_checks = s.passed_checks
      /\ j > Len_(w) =>
           /\ n.status = "done" /\ n.stage_index = Len_(w) + 1
           /\ n.approvals = s.approvals /\ n.attempts = s.attempts /\ SameFanout(s, n)
           /\ n.pending_work_reason => i > Len_(w) /\ s.pending_work_reason
      /\ j <= Len_(w) =>
           /\ n.status # "done" /\ n.status # "pending" /\ n.stage_index = j
           /\ n.attempts = OneMore(s.attempts, j)
           /\ n.approval_reviewers = {} /\ ~n.pending_work_reason
           /\ IF IsKind(w, j, "fanout")
              THEN n.approvals = {a \in s.approvals : a.stage < j}
              ELSE n.approvals = s.approvals /\ SameFanout(s, n)

\* A fanout that is entered forgets the records from itself on.
LEMMA ResetFanoutFields ==
  ASSUME NEW w, NEW s \in Copies(w), NEW j
  PROVE  LET n == ResetFanoutAt(w, s, j)
         IN  /\ n \in Copies(w) /\ Carried(s, n)
             /\ n.current_head = s.current_head /\ n.patch_id = s.patch_id
             /\ n.passed_checks = s.passed_checks
             /\ n.status = s.status /\ n.attempts = s.attempts
             /\ IF IsKind(w, j, "fanout")
                THEN n.approvals = {a \in s.approvals : a.stage < j}
                ELSE n.approvals = s.approvals /\ SameFanout(s, n)
<1> DEFINE n == ResetFanoutAt(w, s, j)
<1>1. CASE ~IsKind(w, j, "fanout")
  <2>1. n = s
    BY <1>1 DEF ResetFanoutAt
  <2> HIDE DEF n
  <2> QED  BY <1>1, <2>1 DEF Carried, SameFanout, n
<1>2. CASE IsKind(w, j, "fanout")
  <2> DEFINE c == ClearFanout(s)
             kept == {a \in s.approvals : a.stage < j}
  <2>1. /\ c \in Copies(w) /\ Carried(s, c)
        /\ c.current_head = s.current_head /\ c.patch_id = s.patch_id
        /\ c.passed_checks = s.passed_checks /\ c.approvals = s.approvals
        /\ c.status = s.status /\ c.attempts = s.attempts
    BY ZenonT(60) DEF ClearFanout, Copies, Option, Carried
  <2>2. kept \in SUBSET Approval
    BY DEF Copies
  <2>3. n = [c EXCEPT !.approvals = kept]
    BY <1>2, <2>1 DEF ResetFanoutAt
  <2> HIDE DEF c, kept, n
  <2>4. /\ n \in Copies(w) /\ Carried(c, n)
        /\ n.current_head = c.current_head /\ n.patch_id = c.patch_id
        /\ n.passed_checks = c.passed_checks /\ n.approvals = kept
        /\ n.status = c.status /\ n.attempts = c.attempts
    BY ZenonT(60), <2>1, <2>2, <2>3 DEF Copies, Carried
  <2> QED  BY <1>2, <2>1, <2>4 DEF Carried, n, kept
<1> QED  BY <1>1, <1>2

\* Handing out actions, and giving up, leave the fields of Orderly alone.
LEMMA EmitFields ==
  ASSUME NEW w, NEW s \in Copies(w), NEW acts
  PROVE  LET n == Emit(s, acts)
         IN  /\ Carried(s, n) /\ SameFanout(s, n) /\ Same(s, n)
             /\ n.status = s.status /\ n.stage_index = s.stage_index
             /\ n.attempts = s.attempts /\ n.pending_work_reason = s.pending_work_reason
             /\ n.approval_reviewers = s.approval_reviewers
  BY DEF Emit, Copies, Carried, SameFanout, Same

\* FailTask only ends the task and clears the partial approvals.
LEMMA FailTaskFields ==
  ASSUME NEW w, NEW s \in Copies(w), NEW stage
  PROVE  LET n == FailTask(s, stage)
         IN  /\ Carried(s, n) /\ SameFanout(s, n) /\ Same(s, n)
             /\ n.status = "failed" /\ n.stage_index = s.stage_index
             /\ n.attempts = s.attempts /\ n.pending_work_reason = s.pending_work_reason
             /\ n.approval_reviewers = {}
<1> DEFINE f == [s EXCEPT !.status = "failed"]
           c == ClearPartial(f)
<1>1. /\ f \in Copies(w) /\ Carried(s, f) /\ SameFanout(s, f) /\ Same(s, f)
      /\ f.status = "failed" /\ f.stage_index = s.stage_index
      /\ f.attempts = s.attempts /\ f.pending_work_reason = s.pending_work_reason
  BY ZenonT(60) DEF Copies, Status, Carried, SameFanout, Same
<1>2. FailTask(s, stage) = Emit(c, {Act("TaskFailed", stage, 0)})
  BY DEF FailTask
<1> HIDE DEF f
<1>3. /\ c \in Copies(w) /\ Carried(f, c) /\ SameFanout(f, c) /\ Same(f, c)
      /\ c.status = f.status /\ c.stage_index = f.stage_index
      /\ c.attempts = f.attempts /\ c.pending_work_reason = f.pending_work_reason
      /\ c.approval_reviewers = {}
  BY <1>1, ClearPartialFields, ClearPartialProperties
<1> HIDE DEF c
<1> QED  BY <1>1, <1>2, <1>3, EmitFields DEF Carried, SameFanout, Same

\* A new attempt of stage j.
LEMMA BeginAttemptFields ==
  ASSUME NEW w, Valid(w), NEW s \in Copies(w), s.status = "running", NEW j \in Index(w)
  PROVE  LET n == BeginAttempt(w, s, j)
         IN  /\ Carried(s, n) /\ SameFanout(s, n) /\ Same(s, n)
             /\ n.status # "done" /\ n.status # "pending" /\ n.stage_index = j
             /\ n.attempts = OneMore(s.attempts, j)
             /\ ~n.pending_work_reason /\ n.approval_reviewers = {}
<1> DEFINE c == ClearPartial(s)
           at == OneMore(s.attempts, j)
           n == [c EXCEPT !.stage_index = j, !.pending_work_reason = FALSE, !.attempts = at]
<1>1. Len_(w) \in Nat /\ Index(w) = 1 .. Len_(w)
  BY LengthIsNat DEF Valid
<1>2. /\ c \in Copies(w) /\ Carried(s, c) /\ SameFanout(s, c) /\ Same(s, c)
      /\ c.status = "running" /\ c.attempts = s.attempts /\ c.approval_reviewers = {}
  BY ClearPartialFields, ClearPartialProperties
<1>3. j \in 1 .. Len_(w) + 1 /\ at \in [Index(w) -> Nat]
  <2>1. s.attempts \in [Index(w) -> Nat]
    BY DEF Copies
  <2> QED  BY <1>1, <2>1 DEF OneMore
<1>4. BeginAttempt(w, s, j) =
        IF IsKind(w, j, "command") /\ MissingValue(w, n, j) THEN FailTask(n, j)
        ELSE IF IsKind(w, j, "merge") /\ ~MergeGate(w, n, j) THEN Refused(n)
        ELSE Emit(n, {Act("ScheduleTimeout", j, n.attempts[j]), RequestFor(w, n, j)})
  BY <1>2 DEF BeginAttempt
<1> HIDE DEF c, at
<1>5. /\ n \in Copies(w) /\ Carried(c, n) /\ SameFanout(c, n) /\ Same(c, n)
      /\ n.status = "running" /\ n.stage_index = j /\ n.attempts = at
      /\ ~n.pending_work_reason /\ n.approval_reviewers = {}
  BY ZenonT(60), <1>2, <1>3 DEF Copies, Carried, SameFanout, Same
<1> HIDE DEF n
<1>6. /\ Carried(s, n) /\ SameFanout(s, n) /\ Same(s, n)
  BY <1>2, <1>5 DEF Carried, SameFanout, Same
<1>7. CASE BeginAttempt(w, s, j) = FailTask(n, j)
  BY <1>5, <1>6, <1>7, FailTaskFields DEF Carried, SameFanout, Same, at
<1>8. CASE BeginAttempt(w, s, j) = Refused(n)
  <2> DEFINE r == Refused(n)
  <2>1. /\ Carried(n, r) /\ SameFanout(n, r) /\ Same(n, r)
        /\ r.status = "refused" /\ r.stage_index = n.stage_index
        /\ r.attempts = n.attempts /\ r.pending_work_reason = n.pending_work_reason
        /\ r.approval_reviewers = n.approval_reviewers
    BY <1>5 DEF Refused, Copies, Carried, SameFanout, Same
  <2> HIDE DEF r
  <2> QED  BY <1>5, <1>6, <1>8, <2>1 DEF Carried, SameFanout, Same, at, r
<1>9. ASSUME NEW acts, BeginAttempt(w, s, j) = Emit(n, acts)
      PROVE  LET m == BeginAttempt(w, s, j)
             IN  /\ Carried(s, m) /\ SameFanout(s, m) /\ Same(s, m)
                 /\ m.status # "done" /\ m.status # "pending" /\ m.stage_index = j
                 /\ m.attempts = OneMore(s.attempts, j)
                 /\ ~m.pending_work_reason /\ m.approval_reviewers = {}
  BY <1>5, <1>6, <1>9, EmitFields DEF Carried, SameFanout, Same, at
<1> QED  BY <1>4, <1>7, <1>8, <1>9

\* enter_stage, on a running copy.
LEMMA EnterStageFields ==
  ASSUME NEW w, Valid(w), NEW s \in Copies(w), s.status = "running",
         NEW i \in 1 .. Len_(w) + 1
  PROVE  Entered(w, s, i, EnterStage(w, s, i))
<1> DEFINE j == EntryStage(w, s, i)
           n == EnterStage(w, s, i)
<1>1. Len_(w) \in Nat /\ Index(w) = 1 .. Len_(w)
  BY LengthIsNat DEF Valid
<1>2. j \in i .. Len_(w) + 1
  BY EntryStageProperties
<1>3. n = IF j > Len_(w) THEN FinishTask(w, s, i <= Len_(w))
          ELSE BeginAttempt(w, ResetFanoutAt(w, s, j), j)
  BY DEF EnterStage
<1> HIDE DEF n, j
<1>4. CASE j > Len_(w)
  <2> DEFINE c == ClearPartial(s)
             d == [c EXCEPT !.pending_work_reason = FALSE]
             m == IF i <= Len_(w) THEN d ELSE s
             t == [m EXCEPT !.stage_index = Len_(w) + 1, !.status = "done"]
  <2>1. n = Emit(t, {Act("TaskDone", 0, 0)})
    BY <1>3, <1>4 DEF FinishTask
  <2>2. c \in Copies(w) /\ Carried(s, c) /\ SameFanout(s, c) /\ Same(s, c)
        /\ c.attempts = s.attempts
    BY ClearPartialFields, ClearPartialProperties
  <2> HIDE DEF c
  <2>3. /\ d \in Copies(w) /\ Carried(s, d) /\ SameFanout(s, d) /\ Same(s, d)
        /\ d.attempts = s.attempts /\ ~d.pending_work_reason
    BY ZenonT(60), <2>2 DEF Copies, Carried, SameFanout, Same
  <2> HIDE DEF d
  <2>4. /\ m \in Copies(w) /\ Carried(s, m) /\ SameFanout(s, m) /\ Same(s, m)
        /\ m.attempts = s.attempts
        /\ m.pending_work_reason => ~(i <= Len_(w)) /\ s.pending_work_reason
    BY <2>3 DEF Carried, SameFanout, Same
  <2> HIDE DEF m
  <2> DEFINE last == Len_(w) + 1
  <2>5. last \in 1 .. Len_(w) + 1
    BY <1>1
  <2>6. t = [m EXCEPT !.stage_index = last, !.status = "done"]
    OBVIOUS
  <2> HIDE DEF last, t
  <2>7. /\ t \in Copies(w) /\ Carried(m, t) /\ SameFanout(m, t) /\ Same(m, t)
        /\ t.attempts = m.attempts /\ t.pending_work_reason = m.pending_work_reason
        /\ t.stage_index = last /\ t.status = "done"
    BY ZenonT(60), <2>4, <2>5, <2>6 DEF Copies, Status, Carried, SameFanout, Same
  <2>8. /\ Carried(t, n) /\ SameFanout(t, n) /\ Same(t, n)
        /\ n.attempts = t.attempts /\ n.pending_work_reason = t.pending_work_reason
        /\ n.stage_index = t.stage_index /\ n.status = t.status
    BY <2>1, <2>7, EmitFields
  <2>9. i \in Nat /\ ~(j <= Len_(w))
    BY <1>1, <1>2, <1>4
  <2>10. /\ Carried(s, n) /\ SameFanout(s, n) /\ Same(s, n)
         /\ n.attempts = s.attempts /\ n.stage_index = Len_(w) + 1 /\ n.status = "done"
         /\ n.pending_work_reason => ~(i <= Len_(w)) /\ s.pending_work_reason
    BY <2>4, <2>7, <2>8 DEF Carried, SameFanout, Same, last
  <2>11. ~(i <= Len_(w)) => i > Len_(w)
    BY <1>1, <2>9
  <2> QED  BY <1>4, <2>9, <2>10, <2>11 DEF Entered, Same, n, j
<1>5. CASE ~(j > Len_(w))
  <2> DEFINE r == ResetFanoutAt(w, s, j)
  <2>1. j \in Index(w) /\ j <= Len_(w)
    BY <1>1, <1>2, <1>5
  <2>2. /\ r \in Copies(w) /\ Carried(s, r)
        /\ r.current_head = s.current_head /\ r.patch_id = s.patch_id
        /\ r.passed_checks = s.passed_checks
        /\ r.status = "running" /\ r.attempts = s.attempts
        /\ IF IsKind(w, j, "fanout")
           THEN r.approvals = {a \in s.approvals : a.stage < j}
           ELSE r.approvals = s.approvals /\ SameFanout(s, r)
    BY ResetFanoutFields
  <2>3. n = BeginAttempt(w, r, j)
    BY <1>3, <1>5
  <2> HIDE DEF r
  <2>4. /\ Carried(r, n) /\ SameFanout(r, n) /\ Same(r, n)
        /\ n.status # "done" /\ n.status # "pending" /\ n.stage_index = j
        /\ n.attempts = OneMore(r.attempts, j)
        /\ ~n.pending_work_reason /\ n.approval_reviewers = {}
    BY <2>1, <2>2, <2>3, BeginAttemptFields
  <2>5. Carried(s, n)
    BY <2>2, <2>4 DEF Carried
  <2>6. ~IsKind(w, j, "fanout") => SameFanout(s, n)
    BY <2>2, <2>4 DEF SameFanout
  <2> QED  BY <1>5, <2>1, <2>2, <2>4, <2>5, <2>6 DEF Entered, Same, n, j
<1> QED  BY <1>4, <1>5

\* Rework, on the fields of Orderly.
LEMMA ReturnToWorkFields ==
  ASSUME NEW w, Valid(w), NEW s \in Copies(w), NEW target \in Index(w)
  PROVE  LET n == ReturnToWork(w, s, target)
         IN  /\ Carried(s, n)
             /\ n.current_head = s.current_head /\ n.patch_id = s.patch_id
             /\ n.status = s.status /\ n.stage_index = target
             /\ n.attempts = OneMore(s.attempts, target)
             /\ n.approval_reviewers = {} /\ n.pending_work_reason
             /\ n.approvals = {a \in s.approvals : a.stage < target}
             /\ n.passed_checks = {c \in s.passed_checks : c.stage < target}
             /\ ~FanoutAtOrAfter(w, target) =>
                  /\ n.fanout_children = s.fanout_children
                  /\ (\A a \in s.approvals : a.stage < target \/ ~PicksAt(w, a.stage)) =>
                       n.selected_child = s.selected_child
<1> DEFINE checks == {c \in s.passed_checks : c.stage < target}
           p == [s EXCEPT !.passed_checks = checks]
           K == {a \in s.approvals : a.stage < target}
           f == DropApprovals(w, p, K)
           g == IF FanoutAtOrAfter(w, target) THEN ClearFanout(f) ELSE f
           at == OneMore(g.attempts, target)
           m == [g EXCEPT !.work_product = None, !.pending_work_reason = TRUE,
                          !.stage_index = target, !.attempts = at]
           n == ReturnToWork(w, s, target)
<1>1. Len_(w) \in Nat /\ Index(w) = 1 .. Len_(w)
  BY LengthIsNat DEF Valid
<1>2. n = Emit(m, {Act("ScheduleTimeout", target, m.attempts[target]),
                   Act("ReturnToWork", target, m.attempts[target])})
  BY DEF ReturnToWork, ForgetFrom
<1>3. checks \in SUBSET PassedCheck
  BY DEF Copies
<1> HIDE DEF checks, n
<1>4. /\ p \in Copies(w) /\ Carried(s, p) /\ SameFanout(s, p) /\ Frame(s, p)
      /\ p.passed_checks = checks /\ p.approvals = s.approvals
  BY ZenonT(60), <1>3 DEF Copies, Carried, SameFanout, Frame
<1> HIDE DEF p
<1>5. /\ f \in Copies(w) /\ Frame(s, f) /\ f.approvals = K /\ f.passed_checks = checks
      /\ Carried(s, f) /\ f.fanout_children = s.fanout_children
      /\ f.approval_reviewers = {}
      /\ (\A a \in s.approvals : a.stage < target \/ ~PicksAt(w, a.stage)) =>
           f.selected_child = s.selected_child
  <2>1. (\A a \in s.approvals : a.stage < target \/ ~PicksAt(w, a.stage)) =>
          \A a \in p.approvals : a \in K \/ ~PicksAt(w, a.stage)
    BY <1>4
  <2>2. p.approvals \cap K = K
    BY <1>4
  <2> HIDE DEF K
  <2>3. /\ f \in Copies(w) /\ Frame(p, f) /\ f.approvals = p.approvals \cap K
        /\ f.passed_checks = p.passed_checks
    BY <1>4, DropApprovalsProperties
  <2>4. /\ Carried(p, f) /\ f.fanout_children = p.fanout_children
        /\ f.approval_reviewers = {}
        /\ (\A a \in p.approvals : a \in K \/ ~PicksAt(w, a.stage)) =>
             f.selected_child = p.selected_child
    BY <1>4, DropApprovalsFields
  <2> HIDE DEF f
  <2> QED  BY <1>4, <2>1, <2>2, <2>3, <2>4 DEF Carried, SameFanout, Frame
<1> HIDE DEF f
<1>6. /\ g \in Copies(w) /\ Frame(s, g) /\ g.approvals = K /\ g.passed_checks = checks
      /\ Carried(s, g) /\ g.approval_reviewers = {}
      /\ ~FanoutAtOrAfter(w, target) => SameFanout(f, g)
  <2> DEFINE c == ClearFanout(f)
  <2> HIDE DEF K, checks
  <2>1. /\ c \in Copies(w) /\ Frame(f, c) /\ c.approvals = f.approvals
        /\ c.passed_checks = f.passed_checks /\ Carried(f, c)
        /\ c.approval_reviewers = f.approval_reviewers
    BY ZenonT(60), <1>5 DEF ClearFanout, Copies, Option, Frame, Carried
  <2> HIDE DEF c
  <2>2. g = IF FanoutAtOrAfter(w, target) THEN c ELSE f
    BY DEF c
  <2> HIDE DEF g
  <2>3. CASE FanoutAtOrAfter(w, target)
    BY <1>5, <2>1, <2>2, <2>3 DEF Frame, Carried
  <2>4. CASE ~FanoutAtOrAfter(w, target)
    BY <1>5, <2>2, <2>4 DEF Frame, Carried, SameFanout
  <2> QED  BY <2>3, <2>4
<1> HIDE DEF g
<1>7. at \in [Index(w) -> Nat] /\ at = OneMore(s.attempts, target)
  <2>1. g.attempts \in [Index(w) -> Nat] /\ g.attempts = s.attempts
    BY <1>6 DEF Copies, Frame
  <2> QED  BY <2>1 DEF OneMore
<1> HIDE DEF at
<1>8. /\ m \in Copies(w) /\ Carried(g, m) /\ SameFanout(g, m) /\ Same(g, m)
      /\ m.status = g.status /\ m.stage_index = target /\ m.attempts = at
      /\ m.pending_work_reason /\ m.approval_reviewers = g.approval_reviewers
  <2>1. target \in 1 .. Len_(w) + 1
    BY <1>1
  <2> QED  BY ZenonT(60), <1>6, <1>7, <2>1 DEF Copies, Carried, SameFanout, Same
<1> HIDE DEF m, K, checks
<1>9. /\ Carried(m, n) /\ SameFanout(m, n) /\ Same(m, n)
      /\ n.status = m.status /\ n.stage_index = m.stage_index
      /\ n.attempts = m.attempts /\ n.pending_work_reason = m.pending_work_reason
      /\ n.approval_reviewers = m.approval_reviewers
  BY <1>2, <1>8, EmitFields
<1>10. /\ Carried(s, n)
       /\ n.current_head = s.current_head /\ n.patch_id = s.patch_id
       /\ n.status = s.status /\ n.stage_index = target
       /\ n.attempts = OneMore(s.attempts, target)
       /\ n.approval_reviewers = {} /\ n.pending_work_reason
       /\ n.approvals = K /\ n.passed_checks = checks
  BY <1>6, <1>7, <1>8, <1>9 DEF Carried, Same, Frame
<1>11. ~FanoutAtOrAfter(w, target) => SameFanout(f, n)
  BY <1>6, <1>8, <1>9 DEF SameFanout
<1> QED  BY <1>5, <1>10, <1>11 DEF SameFanout, n, K, checks


-----------------------------------------------------------------------------
(* Fanouts and picks of a valid workflow.                                  *)

\* LastFanout is 0 or the last of the fanouts.
LEMMA LastFanoutProperties ==
  ASSUME NEW w, Valid(w)
  PROVE  /\ LastFanout(w) \in 0 .. Len_(w)
         /\ LastFanout(w) # 0 => IsKind(w, LastFanout(w), "fanout")
         /\ \A j \in Index(w) : IsKind(w, j, "fanout") => j <= LastFanout(w)
<1> DEFINE S == {i \in Index(w) : IsKind(w, i, "fanout")}
<1>1. Len_(w) \in Nat /\ Index(w) = 1 .. Len_(w)
  BY LengthIsNat DEF Valid
<1>2. S \in SUBSET (1 .. Len_(w)) /\ LastFanout(w) = LastOf(S)
  BY <1>1 DEF LastFanout
<1>3. /\ LastOf(S) = 0 <=> S = {}
      /\ S # {} => LastOf(S) \in S /\ \A k \in S : k <= LastOf(S)
  BY <1>1, <1>2, LastOfProperties
<1>4. /\ \A j \in S : j \in Index(w) /\ IsKind(w, j, "fanout")
      /\ \A j \in Index(w) : IsKind(w, j, "fanout") => j \in S
  OBVIOUS
<1> DEFINE l == LastOf(S)
<1>5. LastFanout(w) = l
  BY <1>2
<1>6. l = 0 \/ l \in S
  BY <1>3
<1>7. \A j \in S : j <= l
  BY <1>3
<1> HIDE DEF l
<1>8. l \in 0 .. Len_(w)
  BY <1>1, <1>2, <1>6
<1>9. \A j \in Index(w) : IsKind(w, j, "fanout") => j <= l
  BY <1>4, <1>7
<1>10. l # 0 => IsKind(w, l, "fanout")
  BY <1>4, <1>6
<1> HIDE DEF S
<1> QED  BY <1>5, <1>8, <1>9, <1>10

\* The approval that picks is the stage right after a fanout joined by pick.
LEMMA PickFollowsFanout ==
  ASSUME NEW w, Valid(w)
  PROVE  /\ \A i \in Index(w) : PicksAt(w, i) =>
              \E f \in Index(w) : /\ i = f + 1 /\ IsKind(w, f, "fanout")
                                  /\ w.stages[f].join = "pick"
         /\ \A f \in Index(w) : IsKind(w, f, "fanout") /\ w.stages[f].join = "pick" =>
              f + 1 \in Index(w) /\ PicksAt(w, f + 1)
<1>1. Len_(w) \in Nat /\ Index(w) = 1 .. Len_(w)
  BY LengthIsNat DEF Valid
<1>2. \A f \in Index(w) : IsKind(w, f, "fanout") /\ w.stages[f].join = "pick" =>
        IsKind(w, f + 1, "approval")
  BY DEF Valid, StaticRules, FanoutRules
<1>3. ASSUME NEW i \in Index(w), PicksAt(w, i)
      PROVE  \E f \in Index(w) : /\ i = f + 1 /\ IsKind(w, f, "fanout")
                                 /\ w.stages[f].join = "pick"
  <2>1. PICK f \in Index(w) :
          /\ f < i
          /\ IsKind(w, f, "fanout") /\ w.stages[f].join = "pick"
          /\ \A j \in Index(w) : f < j /\ j < i => KindAt(w, j) # "approval"
    BY <1>3 DEF PicksAt
  <2>2. IsKind(w, f + 1, "approval")
    BY <1>2, <2>1
  <2>3. ~(f + 1 < i)
    BY <1>1, <2>1, <2>2 DEF IsKind
  <2> QED  BY <1>1, <2>1, <2>3
<1>4. ASSUME NEW f \in Index(w), IsKind(w, f, "fanout"), w.stages[f].join = "pick"
      PROVE  f + 1 \in Index(w) /\ PicksAt(w, f + 1)
  <2>1. IsKind(w, f + 1, "approval")
    BY <1>2, <1>4
  <2>2. \A j \in Index(w) : ~(f < j /\ j < f + 1)
    BY <1>1
  <2> QED  BY <1>1, <1>4, <2>1, <2>2 DEF PicksAt, IsKind
<1> QED  BY <1>3, <1>4

\* With every pick in reach, a head-bound pick is that of the last fanout.
LEMMA BoundPickIsLast ==
  ASSUME NEW w, Valid(w), ~PickOutOfReach(w),
         NEW i \in Index(w), PicksAt(w, i), w.stages[i].bind_head
  PROVE  LastFanout(w) # 0 /\ i = LastFanout(w) + 1 /\ w.stages[LastFanout(w)].join = "pick"
<1>1. Len_(w) \in Nat /\ Index(w) = 1 .. Len_(w)
  BY LengthIsNat DEF Valid
<1>2. PICK f \in Index(w) : /\ i = f + 1 /\ IsKind(w, f, "fanout")
                            /\ w.stages[f].join = "pick"
  BY PickFollowsFanout
<1>3. \A j \in Index(w) : IsKind(w, j, "fanout") => ~(i < j) /\ j # i
  BY DEF PickOutOfReach, PicksAt, IsKind
<1> DEFINE l == LastFanout(w)
<1>4. /\ l \in 0 .. Len_(w) /\ f <= l
      /\ l # 0 => IsKind(w, l, "fanout")
  BY <1>2, LastFanoutProperties
<1> HIDE DEF l
<1>5. l = f
  BY <1>1, <1>2, <1>3, <1>4
<1> QED  BY <1>1, <1>2, <1>5 DEF l

-----------------------------------------------------------------------------
(* What keeps the parts of Orderly.                                        *)

\* Raising one counter leaves the others.
LEMMA OneMoreProperties ==
  ASSUME NEW w, NEW at \in [Index(w) -> Nat], NEW j \in Index(w)
  PROVE  /\ OneMore(at, j) \in [Index(w) -> Nat]
         /\ OneMore(at, j)[j] = at[j] + 1
         /\ \A k \in Index(w) : at[k] <= OneMore(at, j)[k]
  BY DEF OneMore

\* A reported timeout stays one of an attempt that was started.
LEMMA NotifiedKept ==
  ASSUME NEW w, NEW s \in Copies(w), Notified(w, s),
         NEW n \in Copies(w), n.notified_timeout = s.notified_timeout,
         \A k \in Index(w) : s.attempts[k] <= n.attempts[k]
  PROVE  Notified(w, n)
<1> SUFFICES ASSUME n.notified_timeout # <<0, 0>>
             PROVE  /\ n.notified_timeout[1] \in Index(w)
                    /\ n.notified_timeout[2] \in 1 .. n.attempts[n.notified_timeout[1]]
  BY DEF Notified
<1> DEFINE k == s.notified_timeout[1]
           a == s.notified_timeout[2]
<1>1. k \in Index(w) /\ a \in 1 .. s.attempts[k]
  BY DEF Notified
<1>2. s.attempts \in [Index(w) -> Nat] /\ n.attempts \in [Index(w) -> Nat]
  BY DEF Copies
<1>3. n.notified_timeout[1] = k /\ n.notified_timeout[2] = a
  OBVIOUS
<1> HIDE DEF k, a
<1>4. s.attempts[k] \in Nat /\ n.attempts[k] \in Nat /\ s.attempts[k] <= n.attempts[k]
  BY <1>1, <1>2
<1>5. a \in 1 .. n.attempts[k]
  BY <1>1, <1>4
<1> QED  BY <1>1, <1>3, <1>5

\* Fewer records for the same head are still in order.
LEMMA CountedKept ==
  ASSUME NEW w, NEW s, Counted(w, s), NEW n,
         n.current_head = s.current_head, n.patch_id = s.patch_id,
         n.passed_checks \subseteq s.passed_checks, n.approvals \subseteq s.approvals
  PROVE  Counted(w, n)
  BY DEF Counted

\* The loop of enter_stage does not stop at an approval that counts.
LEMMA EntryStageStops ==
  ASSUME NEW w, Valid(w), NEW s \in Copies(w), NEW i \in 1 .. Len_(w) + 1
  PROVE  ~ApprovalForStage(w, s, EntryStage(w, s, i))
<1> DEFINE S == {j \in i .. Len_(w) + 1 : ~ApprovalForStage(w, s, j)}
<1>1. Len_(w) \in Nat /\ Index(w) = 1 .. Len_(w)
  BY LengthIsNat DEF Valid
<1>2. ~ApprovalForStage(w, s, Len_(w) + 1)
  BY <1>1 DEF ApprovalForStage, IsKind
<1>3. S \in SUBSET Nat /\ S # {}
  BY <1>1, <1>2
<1>4. FirstOf(S) \in S
  BY <1>3, FirstOfProperties
<1> QED  BY <1>4 DEF EntryStage


\* Entering a stage that the task is ready for leaves the records in order.
LEMMA EnterStageOrderly ==
  ASSUME NEW w, Valid(w), NEW s, NEW i \in 1 .. Len_(w) + 1,
         MayEnter(w, s, i), Ready(w, s, i)
  PROVE  Orderly(w, EnterStage(w, s, i))
<1> DEFINE n == EnterStage(w, s, i)
           j == EntryStage(w, s, i)
           f == LastFanout(w)
<1>1. Len_(w) \in Nat /\ Index(w) = 1 .. Len_(w)
  BY LengthIsNat DEF Valid
<1>2. /\ j \in i .. Len_(w) + 1
      /\ \A k \in i .. Len_(w) + 1 : k < j => ApprovalForStage(w, s, k)
      /\ ~ApprovalForStage(w, s, j)
  BY EntryStageProperties, EntryStageStops DEF MayEnter
<1>3. n \in Copies(w)
  BY EnterStageStepInv DEF StepInv
<1>4. Entered(w, s, i, n)
  BY EnterStageFields DEF MayEnter
<1>5. /\ f \in 0 .. Len_(w)
      /\ f # 0 => IsKind(w, f, "fanout")
      /\ \A k \in Index(w) : IsKind(w, k, "fanout") => k <= f
  BY LastFanoutProperties
<1>6. s \in Copies(w) /\ s.attempts \in [Index(w) -> Nat] /\ Records(w, s)
  BY DEF MayEnter, Copies
<1>7. /\ Counted(w, s) /\ Notified(w, s)
      /\ s.pending_head_changes = <<>>
      /\ i = Len_(w) + 1 => ~s.pending_work_reason /\ ~HasMerge(w)
      /\ ~PickOutOfReach(w) => Fanned(w, s, i, \/ f + 1 < i
                                               \/ \E a \in s.approvals : a.stage = f + 1)
  BY DEF Ready
\* What the loop passes over is approvals with a record.
<1>8. \A k \in i .. Len_(w) : k < j =>
        IsKind(w, k, "approval") /\ \E a \in s.approvals : a.stage = k
  BY <1>1, <1>2 DEF ApprovalForStage
<1> HIDE DEF n, f
<1>9. f # 0 /\ f < j => f < i
  <2> SUFFICES ASSUME f # 0, f < j, ~(f < i)
               PROVE  FALSE
    BY <1>1, <1>2, <1>5
  <2>1. IsKind(w, f, "fanout") /\ IsKind(w, f, "approval")
    BY <1>1, <1>2, <1>5, <1>8
  <2> QED  BY <2>1 DEF IsKind
<1>10. f + 1 < j => f + 1 < i \/ \E a \in s.approvals : a.stage = f + 1
  BY <1>1, <1>2, <1>5, <1>8
<1>11. ~PickOutOfReach(w) /\ SameFanout(s, n) => Fanned(w, n, j, f + 1 < j)
  BY <1>7, <1>9, <1>10 DEF Fanned, SameFanout, f
<1> HIDE DEF j
<1>12. CASE j > Len_(w)
  <2>1. /\ n.current_head = s.current_head /\ n.patch_id = s.patch_id
        /\ n.passed_checks = s.passed_checks /\ Carried(s, n)
        /\ n.status = "done" /\ n.stage_index = Len_(w) + 1
        /\ n.approvals = s.approvals /\ n.attempts = s.attempts /\ SameFanout(s, n)
        /\ n.pending_work_reason => i > Len_(w) /\ s.pending_work_reason
    BY <1>4, <1>12 DEF Entered, j
  <2>2. j = Len_(w) + 1
    BY <1>1, <1>2, <1>12
  <2>3. Counted(w, n)
    BY <1>7, <2>1, CountedKept
  <2>4. Notified(w, n)
    <3>1. \A k \in Index(w) : s.attempts[k] <= n.attempts[k]
      BY <1>6, <2>1
    <3> QED  BY <1>3, <1>6, <1>7, <2>1, <3>1, NotifiedKept DEF Carried
  <2>5. Open(w, n)
    BY <2>1 DEF Open
  <2>6. ~HasMerge(w)
    <3> SUFFICES ASSUME i # Len_(w) + 1, HasMerge(w)
                 PROVE  FALSE
      BY <1>7
    <3>1. IsKind(w, Len_(w), "merge")
      BY DEF HasMerge, Valid, StaticRules, MergeRules, IsKind
    <3>2. Len_(w) \in i .. Len_(w) /\ Len_(w) < j
      BY <1>1, <2>2, <3>1 DEF IsKind
    <3>3. IsKind(w, Len_(w), "approval")
      BY <1>8, <3>2
    <3> QED  BY <3>1, <3>3 DEF IsKind
  <2>7. ~n.pending_work_reason
    <3>1. i > Len_(w) => i = Len_(w) + 1
      BY <1>1
    <3> QED  BY <1>7, <2>1, <3>1
  <2>8. Phase(w, n)
    BY <1>7, <2>1, <2>6, <2>7 DEF Phase, Carried
  <2>9. FanoutBehind(w, n)
    BY <1>11, <2>1, <2>2 DEF FanoutBehind, f
  <2> QED  BY <2>3, <2>4, <2>5, <2>8, <2>9 DEF Orderly, n
<1>13. CASE ~(j > Len_(w))
  <2>1. j \in Index(w) /\ j <= Len_(w)
    BY <1>1, <1>2, <1>13
  <2>2. /\ n.current_head = s.current_head /\ n.patch_id = s.patch_id
        /\ n.passed_checks = s.passed_checks /\ Carried(s, n)
        /\ n.status # "done" /\ n.status # "pending" /\ n.stage_index = j
        /\ n.attempts = OneMore(s.attempts, j)
        /\ n.approval_reviewers = {} /\ ~n.pending_work_reason
    BY <1>4, <2>1 DEF Entered, j
  <2>3. IF IsKind(w, j, "fanout")
        THEN n.approvals = {a \in s.approvals : a.stage < j}
        ELSE n.approvals = s.approvals /\ SameFanout(s, n)
    BY <1>4, <2>1 DEF Entered, j
  <2>4. n.approvals \subseteq s.approvals
    BY <2>3
  <2>5. Counted(w, n)
    BY <1>7, <2>2, <2>4, CountedKept
  <2>6. Notified(w, n)
    <3>1. \A k \in Index(w) : s.attempts[k] <= n.attempts[k]
      BY <1>6, <2>1, <2>2, OneMoreProperties
    <3> QED  BY <1>3, <1>6, <1>7, <2>2, <3>1, NotifiedKept DEF Carried
  <2>7. \A a \in n.approvals : a.stage # j
    <3> SUFFICES ASSUME NEW a \in n.approvals, a.stage = j
                 PROVE  FALSE
      OBVIOUS
    <3>1. ~IsKind(w, j, "fanout")
      BY <1>1, <2>1, <2>3
    <3>2. ApprovalForStage(w, s, j)
      BY <1>6, <2>4 DEF Records, ApprovalForStage
    <3> QED  BY <1>2, <3>2 DEF j
  <2>8. Open(w, n)
    <3>1. n.attempts[j] > 0
      <4>1. s.attempts[j] \in Nat
        BY <1>6, <2>1
      <4>2. n.attempts[j] = s.attempts[j] + 1
        BY <1>6, <2>1, <2>2, OneMoreProperties
      <4> QED  BY <4>1, <4>2
    <3>2. IsKind(w, j, "fanout") => \A a \in n.approvals : a.stage < j
      BY <2>3
    <3> QED  BY <2>2, <2>7, <3>1, <3>2 DEF Open
  <2>9. Phase(w, n)
    BY <1>7, <2>1, <2>2 DEF Phase, Carried
  <2>10. FanoutBehind(w, n)
    <3> SUFFICES ASSUME ~PickOutOfReach(w)
                 PROVE  Fanned(w, n, j, f + 1 < j)
      BY <2>2 DEF FanoutBehind, f
    <3>1. CASE IsKind(w, j, "fanout")
      <4>1. ~(f < j)
        BY <1>1, <1>5, <2>1, <3>1
      <4> QED  BY <4>1 DEF Fanned, f
    <3>2. CASE ~IsKind(w, j, "fanout")
      BY <1>11, <2>3, <3>2
    <3> QED  BY <3>1, <3>2
  <2> QED  BY <2>5, <2>6, <2>8, <2>9, <2>10 DEF Orderly, n
<1> QED  BY <1>12, <1>13


\* Entering a stage further on leaves the current one.
LEMMA EnterStageAhead ==
  ASSUME NEW w, Valid(w), NEW s, NEW i \in Index(w), MayEnter(w, s, i + 1)
  PROVE  EnterStage(w, s, i + 1).stage_index # i
<1> DEFINE n == EnterStage(w, s, i + 1)
           j == EntryStage(w, s, i + 1)
<1>1. Len_(w) \in Nat /\ Index(w) = 1 .. Len_(w) /\ i + 1 \in 1 .. Len_(w) + 1
  BY LengthIsNat DEF Valid
<1>2. s \in Copies(w) /\ s.status = "running"
  BY DEF MayEnter
<1>3. j \in i + 1 .. Len_(w) + 1
  BY <1>1, <1>2, EntryStageProperties
<1>4. Entered(w, s, i + 1, n)
  BY <1>1, <1>2, EnterStageFields
<1> HIDE DEF n
<1>5. /\ j > Len_(w) => n.stage_index = Len_(w) + 1
      /\ j <= Len_(w) => n.stage_index = j
  BY <1>4 DEF Entered
<1> HIDE DEF j
<1>6. n.stage_index # i
  BY <1>1, <1>3, <1>5
<1> QED  BY <1>6 DEF n

-----------------------------------------------------------------------------
(* The answers that complete a stage.                                      *)

\* A stage whose result is in may be left for the next one.
LEMMA ReadyAhead ==
  ASSUME NEW w, Valid(w), NEW s, StepInv(w, s), Orderly(w, s), s.status = "running",
         ~IsKind(w, s.stage_index, "merge"),
         NEW n \in Copies(w), Carried(s, n), n.attempts = s.attempts,
         n.pending_work_reason = s.pending_work_reason, Counted(w, n),
         ~PickOutOfReach(w) =>
           Fanned(w, n, s.stage_index + 1,
                  \/ LastFanout(w) + 1 < s.stage_index + 1
                  \/ \E a \in n.approvals : a.stage = LastFanout(w) + 1)
  PROVE  Ready(w, n, s.stage_index + 1)
<1> DEFINE i == s.stage_index
<1>1. Len_(w) \in Nat /\ Index(w) = 1 .. Len_(w)
  BY LengthIsNat DEF Valid
<1>2. s \in Copies(w) /\ i \in Index(w)
  BY DEF StepInv, Position
<1>3. Notified(w, s) /\ Phase(w, s)
  BY DEF Orderly
<1>4. Notified(w, n)
  <2>1. \A k \in Index(w) : s.attempts[k] <= n.attempts[k]
    BY <1>2 DEF Copies
  <2> QED  BY <1>2, <1>3, <2>1, NotifiedKept DEF Carried
<1>5. n.pending_head_changes = <<>>
  BY <1>3 DEF Phase, MergeInFlight, InStage, Carried
<1>6. i + 1 = Len_(w) + 1 => ~n.pending_work_reason /\ ~HasMerge(w)
  <2> SUFFICES ASSUME i + 1 = Len_(w) + 1 PROVE ~n.pending_work_reason /\ ~HasMerge(w)
    OBVIOUS
  <2>1. i = Len_(w)
    BY <1>1, <1>2
  <2>2. ~n.pending_work_reason
    BY <1>1, <1>3, <2>1 DEF Phase
  <2>3. ~HasMerge(w)
    BY <2>1 DEF HasMerge, Valid, StaticRules, MergeRules
  <2> QED  BY <2>2, <2>3
<1> QED  BY <1>4, <1>5, <1>6 DEF Ready

\* Past a stage that is neither fanout nor pick nothing new is asked of the
\* fanout; of one that is still to come, nothing is asked at all.
LEMMA FannedAhead ==
  ASSUME NEW w, Valid(w), NEW s, StepInv(w, s), Orderly(w, s), s.status = "running",
         ~IsKind(w, s.stage_index, "fanout"), ~PicksAt(w, s.stage_index),
         NEW n, SameFanout(s, n) \/ FanoutAtOrAfter(w, s.stage_index),
         ~PickOutOfReach(w), NEW picked
  PROVE  Fanned(w, n, s.stage_index + 1, picked)
<1> DEFINE i == s.stage_index
           f == LastFanout(w)
<1>1. Len_(w) \in Nat /\ Index(w) = 1 .. Len_(w)
  BY LengthIsNat DEF Valid
<1>2. i \in Index(w)
  BY DEF StepInv, Position
<1>3. /\ f \in 0 .. Len_(w)
      /\ f # 0 => IsKind(w, f, "fanout")
      /\ \A k \in Index(w) : IsKind(w, k, "fanout") => k <= f
  BY LastFanoutProperties
<1>4. Fanned(w, s, i, f + 1 < i)
  BY DEF Orderly, FanoutBehind
<1> HIDE DEF f
<1> SUFFICES ASSUME f # 0, f < i + 1
             PROVE  /\ n.fanout_children # {}
                    /\ w.stages[f].join = "pick" => n.selected_child \in n.fanout_children
  BY DEF Fanned, f
<1>5. f < i
  <2>1. f # i
    BY <1>3
  <2> QED  BY <1>1, <1>2, <1>3, <2>1
<1>6. SameFanout(s, n)
  <2>1. ~FanoutAtOrAfter(w, i)
    <3> SUFFICES ASSUME NEW j \in Index(w), j >= i, IsKind(w, j, "fanout") PROVE FALSE
      BY DEF FanoutAtOrAfter
    <3> QED  BY <1>1, <1>2, <1>3, <1>5
  <2> QED  BY <2>1
<1>7. n.fanout_children # {}
  BY <1>4, <1>5, <1>6 DEF Fanned, SameFanout, f
<1>8. ASSUME w.stages[f].join = "pick"
      PROVE  n.selected_child \in n.fanout_children
  <2>1. PicksAt(w, f + 1)
    BY <1>1, <1>3, <1>8, PickFollowsFanout
  <2>2. f + 1 # i
    BY <2>1
  <2>3. f + 1 < i
    BY <1>1, <1>2, <1>3, <1>5, <2>2
  <2> QED  BY <1>4, <1>5, <1>6, <1>8, <2>3 DEF Fanned, SameFanout, f
<1> QED  BY <1>7, <1>8

\* The step of a stage that records neither check nor approval nor children.
LEMMA AdvanceOrderly ==
  ASSUME NEW w, Valid(w), NEW s, StepInv(w, s), Orderly(w, s), s.status = "running",
         ~IsKind(w, s.stage_index, "command"), ~IsKind(w, s.stage_index, "approval"),
         ~IsKind(w, s.stage_index, "fanout"), ~IsKind(w, s.stage_index, "merge"),
         ~IsBranchWork(w, s.stage_index),
         NEW n \in Copies(w), Same(s, n), Carried(s, n), n.status = "running",
         n.attempts = s.attempts, n.pending_work_reason = s.pending_work_reason,
         SameFanout(s, n) \/ FanoutAtOrAfter(w, s.stage_index)
  PROVE  Orderly(w, EnterStage(w, n, s.stage_index + 1))
<1> DEFINE i == s.stage_index
<1>1. Len_(w) \in Nat /\ Index(w) = 1 .. Len_(w)
  BY LengthIsNat DEF Valid
<1>2. i \in Index(w) /\ Records(w, s) /\ Covered(w, s, i) /\ Settled(w, s, i)
  BY DEF StepInv, Position
<1>3. Records(w, n) /\ Covered(w, n, i) /\ Settled(w, n, i)
  BY <1>2, Transfer
<1>4. MayEnter(w, n, i + 1)
  BY <1>2, <1>3, AdvanceMayEnter
<1>5. i + 1 \in 1 .. Len_(w) + 1
  BY <1>1, <1>2
<1>6. Counted(w, n)
  BY CountedKept DEF Orderly, Same
<1>7. ASSUME NEW picked, ~PickOutOfReach(w)
      PROVE  Fanned(w, n, i + 1, picked)
  BY <1>7, FannedAhead DEF PicksAt
<1>8. Ready(w, n, i + 1)
  BY <1>6, <1>7, ReadyAhead
<1> QED  BY <1>4, <1>5, <1>8, EnterStageOrderly

\* A result or a plan.
LEMMA OtherProductOrderly ==
  ASSUME NEW w, Valid(w), NEW s, StepInv(w, s), Orderly(w, s), InStage(w, s, "work"),
         ~IsBranchWork(w, s.stage_index)
  PROVE  Orderly(w, OtherProduct(w, s))
<1> DEFINE output == w.stages[s.stage_index].output
           clears == output = "plan" /\ FanoutAtOrAfter(w, s.stage_index)
           c == IF clears THEN ClearFanout(s) ELSE s
           n == [c EXCEPT !.work_product = output]
<1>1. s \in Copies(w) /\ s.status = "running" /\ IsKind(w, s.stage_index, "work")
  BY DEF StepInv, InStage
<1>2. output \in WorkOutput
  BY <1>1, StageType DEF IsKind, Stages
<1> DEFINE cl == ClearFanout(s)
<1>3. /\ cl \in Copies(w) /\ Same(s, cl) /\ cl.status = s.status
      /\ Carried(s, cl) /\ cl.attempts = s.attempts
      /\ cl.pending_work_reason = s.pending_work_reason
  BY ZenonT(60), <1>1 DEF ClearFanout, Copies, Option, Same, Carried
<1> HIDE DEF cl
<1>4. c = IF clears THEN cl ELSE s
  BY DEF cl
<1>5. OtherProduct(w, s) = EnterStage(w, n, s.stage_index + 1)
  BY DEF OtherProduct
<1> HIDE DEF output, c
<1>6. /\ c \in Copies(w) /\ Same(s, c) /\ c.status = "running"
      /\ Carried(s, c) /\ c.attempts = s.attempts
      /\ c.pending_work_reason = s.pending_work_reason
      /\ SameFanout(s, c) \/ FanoutAtOrAfter(w, s.stage_index)
  BY <1>1, <1>3, <1>4 DEF Same, Carried, SameFanout, clears
<1>7. /\ n \in Copies(w) /\ Same(c, n) /\ n.status = "running"
      /\ Carried(c, n) /\ n.attempts = c.attempts /\ SameFanout(c, n)
      /\ n.pending_work_reason = c.pending_work_reason
  BY ZenonT(60), <1>2, <1>6 DEF Copies, Same, Carried, SameFanout
<1> HIDE DEF n
<1>8. Same(s, n) /\ Carried(s, n) /\ (SameFanout(s, n) \/ FanoutAtOrAfter(w, s.stage_index))
  BY <1>6, <1>7 DEF Same, Carried, SameFanout
<1> QED  BY <1>1, <1>5, <1>6, <1>7, <1>8, AdvanceOrderly DEF IsKind

\* A submission.
LEMMA ChangeSubmittedOrderly ==
  ASSUME NEW w, Valid(w), NEW s, StepInv(w, s), Orderly(w, s), InStage(w, s, "submit")
  PROVE  Orderly(w, ChangeSubmitted(w, s))
<1> DEFINE given == w.stages[s.stage_index].returns_change
           n == [s EXCEPT !.change_id = given]
<1>1. s \in Copies(w) /\ s.status = "running" /\ IsKind(w, s.stage_index, "submit")
  BY DEF StepInv, InStage
<1>2. given \in BOOLEAN
  BY <1>1, StageType DEF IsKind, Stages
<1>3. ChangeSubmitted(w, s) = EnterStage(w, n, s.stage_index + 1)
  BY DEF ChangeSubmitted
<1> HIDE DEF given
<1>4. /\ n \in Copies(w) /\ Same(s, n) /\ n.status = "running"
      /\ Carried(s, n) /\ n.attempts = s.attempts /\ SameFanout(s, n)
      /\ n.pending_work_reason = s.pending_work_reason
  BY ZenonT(60), <1>1, <1>2 DEF Copies, Same, Carried, SameFanout
<1> HIDE DEF n
<1> QED  BY <1>1, <1>3, <1>4, AdvanceOrderly DEF IsKind, IsBranchWork

\* A check that passed on the current head.
LEMMA CheckSucceededOrderly ==
  ASSUME NEW w, Valid(w), NEW s, StepInv(w, s), Orderly(w, s), InStage(w, s, "command"),
         NEW head, head = s.current_head
  PROVE  /\ Orderly(w, CheckSucceeded(w, s, head))
         /\ CheckSucceeded(w, s, head).stage_index # s.stage_index
<1> DEFINE i == s.stage_index
           rec == [stage |-> s.stage_index, head |-> head]
           n == [s EXCEPT !.passed_checks =
                   @ \cup {[stage |-> s.stage_index, head |-> head]}]
<1>1. /\ MayEnter(w, n, i + 1) /\ i + 1 \in 1 .. Len_(w) + 1
      /\ CheckSucceeded(w, s, head) = EnterStage(w, n, i + 1)
  BY CheckSucceededMayEnter
<1>2. s \in Copies(w) /\ s.status = "running" /\ IsKind(w, i, "command")
  BY DEF StepInv, InStage
<1>3. /\ n.passed_checks = s.passed_checks \cup {rec} /\ n.approvals = s.approvals
      /\ n.current_head = s.current_head /\ n.patch_id = s.patch_id
      /\ Carried(s, n) /\ n.attempts = s.attempts /\ SameFanout(s, n)
      /\ n.pending_work_reason = s.pending_work_reason
  BY <1>2 DEF Copies, Carried, SameFanout
<1>4. rec.stage = i /\ rec.head = s.current_head
  OBVIOUS
<1> HIDE DEF n, rec
<1>5. Counted(w, n)
  BY <1>2, <1>3, <1>4 DEF Orderly, Counted
<1>6. ASSUME NEW picked, ~PickOutOfReach(w)
      PROVE  Fanned(w, n, i + 1, picked)
  BY <1>2, <1>3, <1>6, FannedAhead DEF IsKind, PicksAt
<1>7. Ready(w, n, i + 1)
  BY <1>1, <1>2, <1>3, <1>5, <1>6, ReadyAhead DEF IsKind, MayEnter
<1>8. EnterStage(w, n, i + 1).stage_index # i
  BY <1>1, <1>2, EnterStageAhead DEF IsKind
<1> QED  BY <1>1, <1>7, <1>8, EnterStageOrderly

\* A new branch product.
LEMMA BranchProductOrderly ==
  ASSUME NEW w, Valid(w), NEW s, StepInv(w, s), Orderly(w, s), s.status = "running",
         IsBranchWork(w, s.stage_index), NEW head \in Heads, NEW patch \in Patches
  PROVE  Orderly(w, BranchProduct(w, s, head, patch))
<1> DEFINE i == s.stage_index
<1>1. PICK n \in Copies(w) :
        /\ BranchProduct(w, s, head, patch) = EnterStage(w, n, s.stage_index + 1)
        /\ MayEnter(w, n, s.stage_index + 1)
        /\ s.stage_index + 1 \in 1 .. Len_(w) + 1
        /\ \A a \in s.approvals : ~w.stages[a.stage].bind_head
        /\ n.approvals = s.approvals
        /\ n.current_head = head /\ n.patch_id = patch
        /\ n.passed_checks \subseteq s.passed_checks
        /\ \A c \in n.passed_checks : s.current_head # head => c.head = head
        /\ Carried(s, n) /\ SameFanout(s, n) /\ n.attempts = s.attempts
        /\ n.pending_work_reason = s.pending_work_reason
  BY BranchProductMayEnter
<1>2. s \in Copies(w) /\ IsKind(w, i, "work")
  BY DEF StepInv, IsBranchWork
<1>3. head # None /\ patch # None
  BY NoneAssumption
<1>4. Counted(w, n)
  <2>1. \A c \in n.passed_checks : IsKind(w, c.stage, "command") /\ c.head = head
    BY <1>1 DEF Orderly, Counted
  <2> QED  BY <1>1, <1>3, <2>1 DEF Orderly, Counted
<1>5. ASSUME NEW picked, ~PickOutOfReach(w)
      PROVE  Fanned(w, n, i + 1, picked)
  BY <1>1, <1>2, <1>5, FannedAhead DEF IsKind, PicksAt
<1>6. Ready(w, n, i + 1)
  BY <1>1, <1>2, <1>4, <1>5, ReadyAhead DEF IsKind
<1> QED  BY <1>1, <1>6, EnterStageOrderly


\* A copy whose stage and records are those of s is in order like s.
LEMMA OrderlyKept ==
  ASSUME NEW w, NEW s \in Copies(w), Orderly(w, s), s.status # "pending",
         NEW n \in Copies(w), Same(s, n), Carried(s, n), SameFanout(s, n),
         n.status = s.status, n.stage_index = s.stage_index, n.attempts = s.attempts,
         n.pending_work_reason = s.pending_work_reason,
         n.approval_reviewers = {} \/ n.approval_reviewers = s.approval_reviewers
  PROVE  Orderly(w, n)
<1>1. Counted(w, n)
  BY CountedKept DEF Orderly, Same
<1>2. Notified(w, n)
  <2>1. \A k \in Index(w) : s.attempts[k] <= n.attempts[k]
    BY DEF Copies
  <2> QED  BY <2>1, NotifiedKept DEF Orderly, Carried
<1>3. Open(w, n)
  BY DEF Orderly, Open, Same
<1>4. Phase(w, n)
  BY DEF Orderly, Phase, Carried, MergeInFlight, InStage
<1>5. FanoutBehind(w, n)
  BY DEF Orderly, FanoutBehind, Fanned, SameFanout
<1> QED  BY <1>1, <1>2, <1>3, <1>4, <1>5 DEF Orderly

\* One vote more, but not enough of them.
LEMMA GrantedPartlyOrderly ==
  ASSUME NEW w, Valid(w), NEW s, StepInv(w, s), Orderly(w, s), InStage(w, s, "approval"),
         NEW n \in Copies(w), Same(s, n), Carried(s, n), SameFanout(s, n),
         n.status = s.status, n.stage_index = s.stage_index, n.attempts = s.attempts,
         n.pending_work_reason = s.pending_work_reason,
         Cardinality(n.approval_reviewers) < w.stages[s.stage_index].count
  PROVE  Orderly(w, n)
<1>1. s \in Copies(w) /\ s.status = "running" /\ IsKind(w, s.stage_index, "approval")
  BY DEF StepInv, InStage
<1>2. Counted(w, n)
  BY CountedKept DEF Orderly, Same
<1>3. Notified(w, n)
  <2>1. \A k \in Index(w) : s.attempts[k] <= n.attempts[k]
    BY <1>1 DEF Copies
  <2> QED  BY <1>1, <2>1, NotifiedKept DEF Orderly, Carried
<1>4. Open(w, n)
  BY <1>1 DEF Orderly, Open, Same, IsKind
<1>5. Phase(w, n)
  BY <1>1 DEF Orderly, Phase, Carried, MergeInFlight, InStage
<1>6. FanoutBehind(w, n)
  BY DEF Orderly, FanoutBehind, Fanned, SameFanout
<1> QED  BY <1>2, <1>3, <1>4, <1>5, <1>6 DEF Orderly

\* The number of reviewers that complete an approval is the number it asks for.
LEMMA VotesComplete ==
  ASSUME NEW w, Valid(w), NEW s, StepInv(w, s), Orderly(w, s), InStage(w, s, "approval"),
         NEW reviewer \in Reviewers, reviewer \notin s.approval_reviewers,
         ~(Cardinality(Votes(s, reviewer)) < w.stages[s.stage_index].count)
  PROVE  Cardinality(Votes(s, reviewer)) = w.stages[s.stage_index].count
<1> DEFINE i == s.stage_index
           old == s.approval_reviewers
           count == w.stages[i].count
<1>1. s \in Copies(w) /\ s.status = "running" /\ IsKind(w, i, "approval") /\ i \in Index(w)
  BY DEF StepInv, InStage, IsKind
<1>2. IsFiniteSet(old)
  BY <1>1, ReviewersAssumption, FS_Subset DEF Copies
<1>3. Cardinality(old) \in Nat /\ Cardinality(Votes(s, reviewer)) = Cardinality(old) + 1
  BY <1>2, FS_AddElement, FS_CardinalityType DEF Votes
<1>4. count \in Nat /\ count > 0
  BY <1>1, StageType DEF Valid, StaticRules, StageRules, Stages
<1>5. Cardinality(old) < count
  <2>1. CASE old = {}
    BY <1>4, <2>1, FS_EmptySet
  <2>2. CASE old # {}
    BY <1>1, <2>2 DEF Orderly, Open
  <2> QED  BY <2>1, <2>2
<1> HIDE DEF old, count
<1> QED  BY <1>3, <1>4, <1>5 DEF count

\* One record more, for stage i, keeps the records countable.
LEMMA CountedWithRecord ==
  ASSUME NEW w, NEW s, Counted(w, s), NEW n, NEW i, NEW record,
         n.current_head = s.current_head, n.patch_id = s.patch_id,
         n.passed_checks = s.passed_checks,
         \A a \in n.approvals : a # record => a \in s.approvals /\ a.stage # i,
         record.stage = i, Cardinality(record.reviewers) = w.stages[i].count,
         ~w.stages[i].bind_head => record.patch = None
  PROVE  Counted(w, n)
<1>1. \A c \in n.passed_checks : IsKind(w, c.stage, "command") /\ c.head = n.current_head
  BY DEF Counted
<1>2. \A a \in n.approvals : (a \in s.approvals /\ a.stage # i) \/ a = record
  OBVIOUS
<1>3. ASSUME NEW a \in n.approvals
      PROVE  /\ \A b \in n.approvals : a.stage = b.stage => a = b
             /\ Cardinality(a.reviewers) = w.stages[a.stage].count
             /\ ~w.stages[a.stage].bind_head => a.patch = None
  BY <1>2 DEF Counted
<1> QED  BY <1>1, <1>3 DEF Counted

\* An approval that is not refused.
LEMMA GrantedOrderly ==
  ASSUME NEW w, Valid(w), NEW s, StepInv(w, s), Orderly(w, s), InStage(w, s, "approval"),
         NEW reviewer \in Reviewers, NEW choice \in Option(Children), NEW head,
         w.stages[s.stage_index].bind_head => s.current_head # None /\ head = s.current_head,
         Granted(w, s, reviewer, head, choice).status # "refused"
  PROVE  LET n == Granted(w, s, reviewer, head, choice)
         IN  /\ Orderly(w, n)
             /\ n.stage_index = s.stage_index =>
                  /\ n.current_head = s.current_head
                  /\ s.approval_reviewers \subseteq n.approval_reviewers
<1> DEFINE i == s.stage_index
           f == LastFanout(w)
           n == Granted(w, s, reviewer, head, choice)
<1>1. Len_(w) \in Nat /\ Index(w) = 1 .. Len_(w)
  BY LengthIsNat DEF Valid
<1>2. /\ s \in Copies(w) /\ s.status = "running" /\ IsKind(w, i, "approval")
      /\ i \in Index(w)
  BY DEF StepInv, InStage, IsKind
<1>3. CASE Cardinality(Votes(s, reviewer)) < w.stages[i].count
  <2>1. /\ n \in Copies(w) /\ Same(s, n) /\ Carried(s, n) /\ SameFanout(s, n)
        /\ n.status = s.status /\ n.stage_index = s.stage_index
        /\ n.attempts = s.attempts
        /\ n.pending_work_reason = s.pending_work_reason
        /\ n.approval_reviewers = Votes(s, reviewer)
    BY <1>3, GrantedPartly
  <2> HIDE DEF n
  <2>2. Cardinality(n.approval_reviewers) < w.stages[s.stage_index].count
    BY <1>3, <2>1
  <2>3. Orderly(w, n)
    BY <2>1, <2>2, GrantedPartlyOrderly
  <2> QED  BY <2>1, <2>3 DEF n, Same, Votes
<1>4. CASE ~(Cardinality(Votes(s, reviewer)) < w.stages[i].count)
  <2>1. PICK m \in Copies(w), record \in Approval :
           /\ Granted(w, s, reviewer, head, choice) = EnterStage(w, m, s.stage_index + 1)
           /\ MayEnter(w, m, s.stage_index + 1)
           /\ s.stage_index + 1 \in 1 .. Len_(w) + 1
           /\ reviewer \notin s.approval_reviewers
           /\ record.stage = s.stage_index /\ record.reviewers = Votes(s, reviewer)
           /\ ~w.stages[s.stage_index].bind_head => record.patch = None
           /\ \A a \in m.approvals :
                a # record => a \in s.approvals /\ a.stage # s.stage_index
           /\ m.current_head = s.current_head /\ m.patch_id = s.patch_id
           /\ m.passed_checks = s.passed_checks /\ Carried(s, m)
           /\ m.attempts = s.attempts /\ m.pending_work_reason = s.pending_work_reason
           /\ PicksAt(w, s.stage_index) => m.selected_child \in m.fanout_children
           /\ ~PicksAt(w, s.stage_index) => SameFanout(s, m)
    BY <1>4, GrantedMayEnter
  <2> HIDE DEF n
  <2>2. Cardinality(record.reviewers) = w.stages[i].count
    BY <1>4, <2>1, VotesComplete
  <2>3. Counted(w, m)
    BY <2>1, <2>2, CountedWithRecord DEF Orderly
  <2>4. ASSUME NEW picked, ~PickOutOfReach(w)
        PROVE  Fanned(w, m, i + 1, picked)
    <3>1. CASE PicksAt(w, i)
      BY <2>1, <3>1 DEF Fanned
    <3>2. CASE ~PicksAt(w, i)
      BY <1>2, <2>1, <2>4, <3>2, FannedAhead DEF IsKind
    <3> QED  BY <3>1, <3>2
  <2>5. Ready(w, m, i + 1)
    BY <1>2, <2>1, <2>3, <2>4, ReadyAhead DEF IsKind
  <2>6. Orderly(w, EnterStage(w, m, i + 1))
    BY <2>1, <2>5, EnterStageOrderly
  <2>7. EnterStage(w, m, i + 1).stage_index # i
    BY <1>2, <2>1, EnterStageAhead
  <2> QED  BY <2>1, <2>6, <2>7
<1> QED  BY <1>3, <1>4

\* A joined fanout that is not refused.
LEMMA ChildrenJoinedOrderly ==
  ASSUME NEW w, Valid(w), NEW s, StepInv(w, s), Orderly(w, s), InStage(w, s, "fanout"),
         NEW children \in SUBSET Children, NEW selected \in Option(Children),
         ChildrenJoined(w, s, children, selected).status # "refused"
  PROVE  /\ Orderly(w, ChildrenJoined(w, s, children, selected))
         /\ ChildrenJoined(w, s, children, selected).stage_index # s.stage_index
<1> DEFINE i == s.stage_index
           f == LastFanout(w)
           n == [s EXCEPT !.fanout_children = children, !.selected_child = None]
           fits == IF w.stages[s.stage_index].join = "first"
                   THEN selected \in children ELSE selected = None
           m == IF selected # None THEN KeepOnlyWinner(n, selected) ELSE n
<1>1. Len_(w) \in Nat /\ Index(w) = 1 .. Len_(w)
  BY LengthIsNat DEF Valid
<1>2. /\ s \in Copies(w) /\ s.status = "running" /\ IsKind(w, i, "fanout")
      /\ i \in Index(w) /\ Records(w, s) /\ Covered(w, s, i) /\ Settled(w, s, i)
  BY DEF StepInv, InStage, Position
<1>3. ChildrenJoined(w, s, children, selected) =
        IF children = {} \/ ~fits THEN Refused(s) ELSE EnterStage(w, m, i + 1)
  BY DEF ChildrenJoined
<1>4. Refused(s).status = "refused"
  BY <1>2 DEF Refused, Copies
<1> HIDE DEF fits, m
<1>5. ChildrenJoined(w, s, children, selected) = EnterStage(w, m, i + 1) /\ children # {}
  BY <1>3, <1>4
<1>6. /\ n \in Copies(w) /\ Same(s, n) /\ n.status = "running" /\ Carried(s, n)
      /\ n.attempts = s.attempts /\ n.pending_work_reason = s.pending_work_reason
      /\ n.fanout_children = children
  BY ZenonT(60), <1>2 DEF Copies, Same, Option, Carried
<1> HIDE DEF n
<1>7. /\ m \in Copies(w) /\ Same(n, m) /\ m.status = "running" /\ Carried(n, m)
      /\ m.attempts = n.attempts /\ m.pending_work_reason = n.pending_work_reason
      /\ m.fanout_children # {}
  <2>1. CASE selected # None
    <3>1. selected \in Children
      BY <2>1 DEF Option
    <3>2. m = KeepOnlyWinner(n, selected)
      BY <2>1 DEF m
    <3>3. /\ m \in Copies(w) /\ Same(n, m) /\ m.status = n.status
          /\ Carried(n, m) /\ m.attempts = n.attempts
          /\ m.pending_work_reason = n.pending_work_reason
          /\ m.fanout_children = {selected}
      BY <1>6, <3>1, <3>2, KeepOnlyWinnerProperties
    <3> QED  BY <1>6, <3>3
  <2>2. CASE selected = None
    BY <1>5, <1>6, <2>2 DEF Same, Carried, m
  <2> QED  BY <2>1, <2>2
<1>8. Same(s, m) /\ Carried(s, m)
  BY <1>6, <1>7 DEF Same, Carried
<1>9. Records(w, m) /\ Covered(w, m, i) /\ Settled(w, m, i)
  BY <1>2, <1>7, <1>8, Transfer
<1>10. MayEnter(w, m, i + 1)
  BY <1>2, <1>7, <1>9, AdvanceMayEnter DEF IsKind, IsBranchWork
<1>11. i + 1 \in 1 .. Len_(w) + 1
  BY <1>1, <1>2
<1>12. Counted(w, m)
  BY <1>8, CountedKept DEF Orderly, Same
<1>13. /\ f \in 0 .. Len_(w)
       /\ \A k \in Index(w) : IsKind(w, k, "fanout") => k <= f
  BY LastFanoutProperties
<1> HIDE DEF f
<1>14. ~(f + 1 < i + 1) /\ f < i + 1 => f = i
  BY <1>1, <1>2, <1>13
<1>15. ~(f + 1 < i + 1)
  BY <1>1, <1>2, <1>13
<1>16. \A a \in m.approvals : a.stage < i
  BY <1>2, <1>8 DEF Orderly, Open, Same
<1>17. Fanned(w, m, i + 1, f + 1 < i + 1 \/ \E a \in m.approvals : a.stage = f + 1)
  <2>1. f < i + 1 => ~ \E a \in m.approvals : a.stage = f + 1
    <3> SUFFICES ASSUME f = i, NEW a \in m.approvals, a.stage = f + 1 PROVE FALSE
      BY <1>14, <1>15
    <3>1. a.stage < i
      BY <1>16
    <3> QED  BY <1>1, <1>2, <3>1
  <2> QED  BY <1>7, <1>15, <2>1 DEF Fanned, f
<1>18. Ready(w, m, i + 1)
  BY <1>2, <1>6, <1>7, <1>8, <1>12, <1>17, ReadyAhead DEF IsKind, f
<1>19. EnterStage(w, m, i + 1).stage_index # i
  BY <1>2, <1>10, EnterStageAhead
<1> QED  BY <1>5, <1>10, <1>11, <1>18, <1>19, EnterStageOrderly

\* The merge that completes.
LEMMA MergedOrderly ==
  ASSUME NEW w, Valid(w), NEW s, StepInv(w, s), Orderly(w, s), MergeInFlight(w, s)
  PROVE  Orderly(w, Merged(w, s))
<1> DEFINE i == s.stage_index
           empty == <<>>
           n == [s EXCEPT !.merge_commit = TRUE, !.pending_head_changes = empty,
                          !.status = "done"]
           m == Merged(w, s)
<1>1. /\ s \in Copies(w) /\ s.status = "running" /\ IsKind(w, i, "merge") /\ i \in Index(w)
      /\ Covered(w, s, i)
  BY DEF StepInv, MergeInFlight, InStage, Position
<1>2. m = Emit(n, {Act("TaskDone", 0, 0)})
  BY <1>1, GateOpen DEF Merged
<1>3. empty \in Seq(HeadChange) /\ empty = <<>>
  OBVIOUS
<1> HIDE DEF empty, m
<1>4. /\ n \in Copies(w) /\ Same(s, n) /\ n.status = "done" /\ n.stage_index = i
      /\ SameFanout(s, n) /\ n.attempts = s.attempts
      /\ n.pending_work_reason = s.pending_work_reason
      /\ n.merge_commit = TRUE /\ n.pending_head_changes = empty
      /\ n.notified_timeout = s.notified_timeout
  BY ZenonT(60), <1>1, <1>3 DEF Copies, Same, Status, SameFanout
<1> HIDE DEF n
<1>5. /\ Carried(n, m) /\ SameFanout(n, m) /\ Same(n, m)
      /\ m.status = n.status /\ m.stage_index = n.stage_index
      /\ m.attempts = n.attempts /\ m.pending_work_reason = n.pending_work_reason
  BY <1>2, <1>4, EmitFields
<1>6. {Act("TaskDone", 0, 0)} \in SUBSET Action
  BY ActType DEF ActionKind
<1>7. m \in Copies(w)
  BY <1>2, <1>4, <1>6, EmitProperties
<1>8. /\ Same(s, m) /\ SameFanout(s, m)
      /\ m.status = "done" /\ m.stage_index = i /\ m.attempts = s.attempts
      /\ m.merge_commit /\ m.pending_head_changes = <<>>
      /\ m.notified_timeout = s.notified_timeout
      /\ m.pending_work_reason = s.pending_work_reason
  BY <1>3, <1>4, <1>5 DEF Same, SameFanout, Carried
<1>9. Counted(w, m)
  BY <1>8, CountedKept DEF Orderly, Same
<1>10. Notified(w, m)
  <2>1. \A k \in Index(w) : s.attempts[k] <= m.attempts[k]
    BY <1>1, <1>8 DEF Copies
  <2> QED  BY <1>1, <1>7, <1>8, <2>1, NotifiedKept DEF Orderly
<1>11. Open(w, m) /\ Phase(w, m)
  BY <1>1, <1>8 DEF Orderly, Open, Phase
<1>12. FanoutBehind(w, m)
  BY <1>1, <1>8 DEF Orderly, FanoutBehind, Fanned, SameFanout
<1> QED  BY <1>9, <1>10, <1>11, <1>12 DEF Orderly, m


-----------------------------------------------------------------------------
(* The start of a task, and its end without success.                       *)

\* A task that was given up or cancelled has only its records.
LEMMA EndedOrderly ==
  ASSUME NEW w, NEW n \in Copies(w), n.status = "failed" \/ n.status = "cancelled",
         Counted(w, n), Notified(w, n), n.stage_index \in Index(w),
         n.pending_head_changes = <<>>,
         n.pending_work_reason =>
           IsKind(w, n.stage_index, "work") /\ n.stage_index < Len_(w)
  PROVE  Orderly(w, n)
<1>1. Open(w, n) /\ FanoutBehind(w, n)
  BY DEF Open, FanoutBehind
<1>2. Phase(w, n)
  BY DEF Phase
<1> QED  BY <1>1, <1>2 DEF Orderly

\* Cancellation, on the fields of Orderly.
LEMMA CancelledFields ==
  ASSUME NEW w, NEW s \in Copies(w), NEW stage
  PROVE  LET n == Cancelled(s, stage)
         IN  /\ Carried(s, n) /\ SameFanout(s, n) /\ Same(s, n)
             /\ n.status = "cancelled" /\ n.stage_index = s.stage_index
             /\ n.attempts = s.attempts /\ n.pending_work_reason = s.pending_work_reason
<1> DEFINE f == [s EXCEPT !.status = "cancelled"]
           c == ClearPartial(f)
<1>1. /\ f \in Copies(w) /\ Carried(s, f) /\ SameFanout(s, f) /\ Same(s, f)
      /\ f.status = "cancelled" /\ f.stage_index = s.stage_index
      /\ f.attempts = s.attempts /\ f.pending_work_reason = s.pending_work_reason
  BY ZenonT(60) DEF Copies, Status, Carried, SameFanout, Same
<1>2. Cancelled(s, stage) = Emit(c, {Act("TaskCancelled", stage, 0)})
  BY DEF Cancelled
<1> HIDE DEF f
<1>3. /\ c \in Copies(w) /\ Carried(f, c) /\ SameFanout(f, c) /\ Same(f, c)
      /\ c.status = f.status /\ c.stage_index = f.stage_index
      /\ c.attempts = f.attempts /\ c.pending_work_reason = f.pending_work_reason
  BY <1>1, ClearPartialFields, ClearPartialProperties
<1> HIDE DEF c
<1> QED  BY <1>1, <1>2, <1>3, EmitFields DEF Carried, SameFanout, Same

\* Giving up keeps the records of a task that is not merging.
LEMMA FailTaskOrderly ==
  ASSUME NEW w, NEW s \in Copies(w), Records(w, s), Counted(w, s), Notified(w, s),
         s.stage_index \in Index(w), s.pending_head_changes = <<>>,
         s.pending_work_reason =>
           IsKind(w, s.stage_index, "work") /\ s.stage_index < Len_(w),
         NEW stage \in Nat
  PROVE  Orderly(w, FailTask(s, stage))
<1> DEFINE n == FailTask(s, stage)
<1>1. n \in Copies(w)
  BY FailTaskStepInv DEF StepInv
<1>2. /\ Carried(s, n) /\ SameFanout(s, n) /\ Same(s, n)
      /\ n.status = "failed" /\ n.stage_index = s.stage_index
      /\ n.attempts = s.attempts /\ n.pending_work_reason = s.pending_work_reason
  BY FailTaskFields
<1> HIDE DEF n
<1>3. Counted(w, n)
  BY <1>2, CountedKept DEF Same
<1>4. Notified(w, n)
  <2>1. \A k \in Index(w) : s.attempts[k] <= n.attempts[k]
    BY <1>2 DEF Copies
  <2> QED  BY <1>1, <1>2, <2>1, NotifiedKept DEF Carried
<1> QED  BY <1>1, <1>2, <1>3, <1>4, EndedOrderly DEF Carried, n

\* So does cancellation.
LEMMA CancelledOrderly ==
  ASSUME NEW w, NEW s, StepInv(w, s), Orderly(w, s),
         s.status = "pending" \/ s.status = "running", ~MergeInFlight(w, s),
         NEW stage \in Nat
  PROVE  Orderly(w, Cancelled(s, stage))
<1> DEFINE n == Cancelled(s, stage)
<1>1. s \in Copies(w) /\ Records(w, s)
  BY DEF StepInv
<1>2. /\ Counted(w, s) /\ Notified(w, s) /\ s.stage_index \in Index(w)
      /\ s.pending_head_changes = <<>>
      /\ s.pending_work_reason =>
           IsKind(w, s.stage_index, "work") /\ s.stage_index < Len_(w)
  BY DEF Orderly, Phase
<1>3. n \in Copies(w)
  BY <1>1, CancelledStepInv DEF StepInv
<1>4. /\ Carried(s, n) /\ SameFanout(s, n) /\ Same(s, n)
      /\ n.status = "cancelled" /\ n.stage_index = s.stage_index
      /\ n.attempts = s.attempts /\ n.pending_work_reason = s.pending_work_reason
  BY <1>1, CancelledFields
<1> HIDE DEF n
<1>5. Counted(w, n)
  BY <1>2, <1>4, CountedKept DEF Same
<1>6. Notified(w, n)
  <2>1. \A k \in Index(w) : s.attempts[k] <= n.attempts[k]
    BY <1>1, <1>4 DEF Copies
  <2> QED  BY <1>1, <1>2, <1>3, <1>4, <2>1, NotifiedKept DEF Carried
<1> QED  BY <1>2, <1>3, <1>4, <1>5, <1>6, EndedOrderly DEF Carried, n

\* A new task has no records at all.
LEMMA NewStateOrderly ==
  ASSUME NEW w, Valid(w)
  PROVE  Orderly(w, NewState(w))
<1> DEFINE s == NewState(w)
<1>1. /\ s.status = "pending" /\ s.stage_index = 1
      /\ s.current_head = None /\ s.patch_id = None
      /\ s.approvals = {} /\ s.passed_checks = {}
      /\ s.notified_timeout = <<0, 0>> /\ s.pending_head_changes = <<>>
      /\ ~s.pending_work_reason
  BY DEF NewState
<1>2. 1 \in Index(w)
  BY LengthIsNat DEF Valid
<1>3. s = NewState(w)
  OBVIOUS
<1> HIDE DEF s
<1>4. Counted(w, s) /\ Notified(w, s)
  BY <1>1 DEF Counted, Notified
<1>5. Open(w, s) /\ Phase(w, s) /\ FanoutBehind(w, s)
  BY <1>1, <1>2, <1>3 DEF Open, Phase, FanoutBehind
<1> QED  BY <1>3, <1>4, <1>5 DEF Orderly

\* A task that starts is ready for its first stage: no fanout is behind it.
LEMMA StartedOrderly ==
  ASSUME NEW w, Valid(w), NEW s, StepInv(w, s), Orderly(w, s), s.status = "pending"
  PROVE  Orderly(w, EnterStage(w, [s EXCEPT !.status = "running"], 1))
<1> DEFINE n == [s EXCEPT !.status = "running"]
           f == LastFanout(w)
<1>1. Len_(w) \in Nat /\ Index(w) = 1 .. Len_(w) /\ Len_(w) > 0
  BY LengthIsNat DEF Valid
<1>2. /\ s \in Copies(w) /\ s.stage_index = 1
      /\ Records(w, s) /\ Covered(w, s, 1) /\ Settled(w, s, 1)
  BY DEF StepInv, Position
<1>3. /\ n \in Copies(w) /\ Same(s, n) /\ n.status = "running" /\ Carried(s, n)
      /\ n.attempts = s.attempts
  BY ZenonT(60), <1>2 DEF Copies, Same, Status, Carried
<1> HIDE DEF n
<1>4. MayEnter(w, n, 1)
  BY <1>2, <1>3, Transfer DEF MayEnter
<1>5. 1 \in 1 .. Len_(w) + 1 /\ 1 # Len_(w) + 1
  BY <1>1
<1>6. Counted(w, n)
  BY <1>3, CountedKept DEF Orderly, Same
<1>7. Notified(w, n)
  <2>1. \A k \in Index(w) : s.attempts[k] <= n.attempts[k]
    BY <1>2, <1>3 DEF Copies
  <2> QED  BY <1>2, <1>3, <2>1, NotifiedKept DEF Orderly, Carried
<1>8. n.pending_head_changes = <<>>
  BY <1>3 DEF Orderly, Phase, MergeInFlight, InStage, Carried
<1>9. ASSUME NEW picked PROVE Fanned(w, n, 1, picked)
  <2>1. f \in 0 .. Len_(w)
    BY LastFanoutProperties
  <2> HIDE DEF f
  <2>2. ~(f # 0 /\ f < 1)
    BY <1>1, <2>1
  <2> QED  BY <2>2 DEF Fanned, f
<1>10. Ready(w, n, 1)
  BY <1>5, <1>6, <1>7, <1>8, <1>9 DEF Ready
<1>11. Orderly(w, EnterStage(w, n, 1))
  BY <1>4, <1>5, <1>10, EnterStageOrderly
<1> QED  BY <1>11 DEF n

-----------------------------------------------------------------------------
(* Going back to work.                                                     *)

\* Rework leaves the records before its target in order, and the pick too
\* when it was made before that.
LEMMA ReturnToWorkOrderly ==
  ASSUME NEW w, Valid(w), NEW s \in Copies(w), s.status = "running", Records(w, s),
         Counted(w, s), Notified(w, s), s.pending_head_changes = <<>>,
         NEW target \in Index(w), IsKind(w, target, "work"), target < Len_(w),
         LooselyCovered(w, s, target),
         ~PickOutOfReach(w) => Fanned(w, s, target, LastFanout(w) + 1 < target)
  PROVE  Orderly(w, ReturnToWork(w, s, target))
<1> DEFINE n == ReturnToWork(w, s, target)
           f == LastFanout(w)
<1>1. Len_(w) \in Nat /\ Index(w) = 1 .. Len_(w)
  BY LengthIsNat DEF Valid
<1>2. n \in Copies(w)
  BY ReturnToWorkStepInv DEF StepInv
<1>3. /\ Carried(s, n)
      /\ n.current_head = s.current_head /\ n.patch_id = s.patch_id
      /\ n.status = s.status /\ n.stage_index = target
      /\ n.attempts = OneMore(s.attempts, target)
      /\ n.approval_reviewers = {} /\ n.pending_work_reason
      /\ n.approvals = {a \in s.approvals : a.stage < target}
      /\ n.passed_checks = {c \in s.passed_checks : c.stage < target}
      /\ ~FanoutAtOrAfter(w, target) =>
           /\ n.fanout_children = s.fanout_children
           /\ (\A a \in s.approvals : a.stage < target \/ ~PicksAt(w, a.stage)) =>
                n.selected_child = s.selected_child
  BY ReturnToWorkFields
<1> HIDE DEF n
<1>4. Counted(w, n)
  BY <1>3, CountedKept
<1>5. s.attempts \in [Index(w) -> Nat]
  BY DEF Copies
<1>6. Notified(w, n)
  <2>1. \A k \in Index(w) : s.attempts[k] <= n.attempts[k]
    BY <1>3, <1>5, OneMoreProperties
  <2> QED  BY <1>2, <1>3, <2>1, NotifiedKept DEF Carried
<1>7. Open(w, n)
  <2>1. n.attempts[target] > 0
    <3>1. s.attempts[target] \in Nat /\ n.attempts[target] = s.attempts[target] + 1
      BY <1>3, <1>5, OneMoreProperties
    <3> QED  BY <3>1
  <2>2. \A a \in n.approvals : a.stage # target
    BY <1>1, <1>3
  <2>3. ~IsKind(w, target, "fanout")
    BY DEF IsKind
  <2> QED  BY <1>3, <2>1, <2>2, <2>3 DEF Open
<1>8. Phase(w, n)
  BY <1>3 DEF Phase, Carried
<1>9. FanoutBehind(w, n)
  <2> SUFFICES ASSUME ~PickOutOfReach(w), f # 0, f < target
               PROVE  /\ n.fanout_children # {}
                      /\ w.stages[f].join = "pick" /\ f + 1 < target =>
                           n.selected_child \in n.fanout_children
    BY <1>3 DEF FanoutBehind, Fanned, f
  <2>1. /\ f \in 0 .. Len_(w)
        /\ \A k \in Index(w) : IsKind(w, k, "fanout") => k <= f
    BY LastFanoutProperties
  <2>2. /\ s.fanout_children # {}
        /\ w.stages[f].join = "pick" /\ f + 1 < target =>
             s.selected_child \in s.fanout_children
    BY DEF Fanned, f
  <2> HIDE DEF f
  <2>3. ~FanoutAtOrAfter(w, target)
    BY <1>1, <2>1 DEF FanoutAtOrAfter
  <2>4. ASSUME f + 1 < target
        PROVE  n.selected_child = s.selected_child
    <3> SUFFICES ASSUME NEW a \in s.approvals, PicksAt(w, a.stage)
                 PROVE  a.stage < target
      BY <1>3, <2>3
    <3>1. a.stage \in Index(w)
      BY DEF PicksAt, IsKind
    <3>2. PICK g \in Index(w) : a.stage = g + 1 /\ IsKind(w, g, "fanout")
      BY <3>1, PickFollowsFanout
    <3>3. g <= f
      BY <2>1, <3>2
    <3> QED  BY <1>1, <2>1, <2>4, <3>2, <3>3
  <2> QED  BY <1>3, <2>2, <2>3, <2>4
<1> QED  BY <1>4, <1>6, <1>7, <1>8, <1>9 DEF Orderly, n

\* With its fanout in order a task may go back to any earlier stage.
LEMMA FannedBefore ==
  ASSUME NEW w, Valid(w), NEW s, StepInv(w, s), Orderly(w, s), s.status = "running",
         NEW k \in Index(w), k < s.stage_index, ~PickOutOfReach(w)
  PROVE  Fanned(w, s, k, LastFanout(w) + 1 < k)
<1> DEFINE f == LastFanout(w)
           i == s.stage_index
<1>1. Len_(w) \in Nat /\ Index(w) = 1 .. Len_(w) /\ i \in Index(w)
  BY LengthIsNat DEF Valid, StepInv, Position
<1>2. f \in 0 .. Len_(w)
  BY LastFanoutProperties
<1>3. Fanned(w, s, i, f + 1 < i)
  BY DEF Orderly, FanoutBehind
<1> HIDE DEF f, i
<1>4. (f < k => f < i) /\ (f + 1 < k => f + 1 < i)
  BY <1>1, <1>2 DEF i
<1> QED  BY <1>3, <1>4 DEF Fanned, f

\* A failed stage goes back to work or ends the task.
LEMMA FailStageOrderly ==
  ASSUME NEW w, Valid(w), NEW s, StepInv(w, s), Orderly(w, s), s.status = "running",
         ~MergeInFlight(w, s)
  PROVE  LET n == FailStage(w, s, s.stage_index)
         IN  Orderly(w, n) /\ (n.status = "running" => n.stage_index # s.stage_index)
<1> DEFINE i == s.stage_index
           t == FailureTarget(w, i)
<1>1. Len_(w) \in Nat /\ Index(w) = 1 .. Len_(w)
  BY LengthIsNat DEF Valid
<1>2. /\ s \in Copies(w) /\ i \in Index(w) /\ Records(w, s) /\ Covered(w, s, i)
  BY DEF StepInv, Position
<1>3. /\ Counted(w, s) /\ Notified(w, s)
      /\ s.pending_head_changes = <<>>
      /\ s.pending_work_reason =>
           IsKind(w, s.stage_index, "work") /\ s.stage_index < Len_(w)
  BY DEF Orderly, Phase
<1>4. t # 0 => t \in Index(w) /\ t < i /\ IsKind(w, t, "work")
  <2>1. w.stages[i].on_fail # 0 =>
          w.stages[i].on_fail < i /\ IsKind(w, w.stages[i].on_fail, "work")
    BY <1>2 DEF Valid, StaticRules, StageRules
  <2> QED  BY <1>2, <2>1, PreviousWorkProperties DEF FailureTarget, IsKind
<1>5. CASE t # 0
  <2>1. FailStage(w, s, i) = ReturnToWork(w, s, t)
    BY <1>5 DEF FailStage
  <2> HIDE DEF t
  <2>2. t \in Index(w) /\ t < i /\ t < Len_(w)
    BY <1>1, <1>2, <1>4, <1>5
  <2>3. LooselyCovered(w, s, t)
    BY <1>1, <1>2, <2>2, CoveredLoosely
  <2>4. ~PickOutOfReach(w) => Fanned(w, s, t, LastFanout(w) + 1 < t)
    BY <2>2, FannedBefore
  <2>5. ReturnToWork(w, s, t).stage_index # i
    <3>1. ReturnToWork(w, s, t).stage_index = t
      BY <1>2, <2>2, ReturnToWorkFields
    <3> QED  BY <1>1, <1>2, <2>2, <3>1
  <2> QED  BY <1>2, <1>3, <1>4, <1>5, <2>1, <2>2, <2>3, <2>4, <2>5, ReturnToWorkOrderly
<1>6. CASE t = 0
  <2>1. FailStage(w, s, i) = FailTask(s, i)
    BY <1>6 DEF FailStage
  <2>2. i \in Nat
    BY <1>1, <1>2
  <2>3. FailTask(s, i).status # "running"
    BY <1>2, FailTaskFields
  <2> QED  BY <1>2, <1>3, <2>1, <2>2, <2>3, FailTaskOrderly
<1> QED  BY <1>5, <1>6


-----------------------------------------------------------------------------
(* Head changes.                                                           *)

\* A command always has something to check again: itself.
LEMMA CommandRecheckTarget ==
  ASSUME NEW w, Valid(w), NEW i \in Index(w), IsKind(w, i, "command")
  PROVE  RecheckTarget(w, i) # 0
<1> DEFINE work == {j \in Index(w) : j < i /\ IsBranchWork(w, j)}
           b == PreviousBranchWork(w, i)
           bound == {j \in Index(w) : b < j /\ j <= i /\ IsHeadBound(w, j)}
<1>1. Len_(w) \in Nat /\ Index(w) = 1 .. Len_(w)
  BY LengthIsNat DEF Valid
<1>2. b < i
  <2>1. b = LastOf(work) /\ work \in SUBSET (1 .. Len_(w))
    BY <1>1 DEF PreviousBranchWork
  <2>2. b = 0 \/ b \in work
    BY <1>1, <2>1, LastOfProperties
  <2> QED  BY <1>1, <2>2
<1> HIDE DEF b
<1>3. i \in bound
  BY <1>1, <1>2 DEF IsHeadBound
<1>4. FirstOf(bound) \in bound
  <2>1. bound \in SUBSET Nat /\ bound # {}
    BY <1>1, <1>3
  <2> HIDE DEF bound
  <2> QED  BY <2>1, FirstOfProperties
<1>5. RecheckTarget(w, i) = FirstOf(bound)
  BY <1>3 DEF RecheckTarget, IsKind, b
<1> QED  BY <1>1, <1>4, <1>5

\* Copy n of s after a head change, still at its stage.  Its approvals are of
\* stages that had one; the children are those of s and so is the pick, unless
\* it was bound to the old head, and then no bound approval is left.
Moved(w, s, n) ==
  /\ n \in Copies(w)
  /\ n.status = "running" /\ n.stage_index = s.stage_index
  /\ n.attempts = s.attempts /\ n.approval_reviewers = {}
  /\ n.pending_work_reason = s.pending_work_reason
  /\ n.notified_timeout = s.notified_timeout
  /\ n.pending_head_changes = <<>>
  /\ Records(w, n) /\ Counted(w, n)
  /\ LooselyCovered(w, n, s.stage_index)
  /\ \A a \in n.approvals : \E b \in s.approvals : b.stage = a.stage
  /\ n.fanout_children = s.fanout_children
  /\ \/ n.selected_child = s.selected_child
     \/ /\ \E j \in Index(w) : PicksAt(w, j) /\ w.stages[j].bind_head
        /\ \A a \in n.approvals : ~w.stages[a.stage].bind_head

\* Nothing head-bound lies before stage k: what the task needs of its fanout
\* there is as good as it was.
LEMMA FannedBack ==
  ASSUME NEW w, Valid(w), NEW s, StepInv(w, s), Orderly(w, s), s.status = "running",
         NEW n, Moved(w, s, n), NEW k \in Index(w), k <= s.stage_index,
         \A j \in Index(w) : j < k => ~IsHeadBound(w, j), ~PickOutOfReach(w)
  PROVE  Fanned(w, n, k, \/ LastFanout(w) + 1 < k
                         \/ \E a \in n.approvals : a.stage = LastFanout(w) + 1)
<1> DEFINE f == LastFanout(w)
           i == s.stage_index
<1>1. Len_(w) \in Nat /\ Index(w) = 1 .. Len_(w) /\ i \in Index(w)
  BY LengthIsNat DEF Valid, StepInv, Position
<1>2. f \in 0 .. Len_(w)
  BY LastFanoutProperties
<1>3. Fanned(w, s, i, f + 1 < i)
  BY DEF Orderly, FanoutBehind
<1>4. /\ \A a \in s.approvals : a.stage # i
      /\ \A a \in n.approvals : \E b \in s.approvals : b.stage = a.stage
      /\ n.fanout_children = s.fanout_children
  BY DEF Orderly, Open, Moved
<1> SUFFICES ASSUME f # 0, f < k
             PROVE  /\ n.fanout_children # {}
                    /\ /\ w.stages[f].join = "pick"
                       /\ f + 1 < k \/ \E a \in n.approvals : a.stage = f + 1
                       => n.selected_child \in n.fanout_children
  BY DEF Fanned
<1>5. f < i
  <2> HIDE DEF f, i
  <2> QED  BY <1>1, <1>2 DEF i
<1>6. n.fanout_children # {}
  BY <1>3, <1>4, <1>5 DEF Fanned
<1>7. ASSUME w.stages[f].join = "pick",
             f + 1 < k \/ \E a \in n.approvals : a.stage = f + 1
      PROVE  n.selected_child \in n.fanout_children
  <2>1. f + 1 < i
    <3>1. f + 1 < k => f + 1 < i
      <4> HIDE DEF f
      <4> QED  BY <1>1, <1>2
    <3>2. (\E a \in n.approvals : a.stage = f + 1) => f + 1 # i
      BY <1>4
    <3> HIDE DEF f, i
    <3> QED  BY <1>1, <1>2, <1>5, <1>7, <3>1, <3>2
  <2>2. s.selected_child \in s.fanout_children
    BY <1>3, <1>5, <1>7, <2>1 DEF Fanned
  <2>3. n.selected_child = s.selected_child
    <3> SUFFICES ASSUME \E j \in Index(w) : PicksAt(w, j) /\ w.stages[j].bind_head,
                        \A a \in n.approvals : ~w.stages[a.stage].bind_head
                 PROVE  FALSE
      BY DEF Moved
    <3>1. PICK j \in Index(w) : PicksAt(w, j) /\ w.stages[j].bind_head
      OBVIOUS
    <3>2. j = f + 1
      BY <3>1, BoundPickIsLast
    <3>3. ~(f + 1 < k)
      BY <3>1, <3>2 DEF PicksAt, IsHeadBound
    <3> QED  BY <1>7, <3>1, <3>2, <3>3
  <2> QED  BY <1>4, <2>2, <2>3
<1> QED  BY <1>6, <1>7

\* Where a head change may leave a task that stood at stage i: not further
\* on, and at the same stage only with a new attempt of whatever collects
\* results for a head.
Held(w, s, n) ==
  /\ n.stage_index <= s.stage_index
  /\ n.status # "done" /\ n.status # "pending"
  /\ n.pending_head_changes = <<>>
  /\ (/\ n.status = "running" /\ n.stage_index = s.stage_index
      /\ KindAt(w, s.stage_index) \in {"command", "approval", "fanout"}) =>
       n.attempts[s.stage_index] > s.attempts[s.stage_index]

\* After a head change the loop of enter_stage stops at the stage the task
\* was at, or before it.
LEMMA EnterBack ==
  ASSUME NEW w, Valid(w), NEW s, StepInv(w, s), Orderly(w, s), s.status = "running",
         NEW n, Moved(w, s, n), NEW k \in Index(w), k <= s.stage_index,
         \A j \in Index(w) : j < k => ~IsHeadBound(w, j), MayEnter(w, n, k)
  PROVE  Orderly(w, EnterStage(w, n, k)) /\ Held(w, s, EnterStage(w, n, k))
<1> DEFINE f == LastFanout(w)
           i == s.stage_index
           m == EnterStage(w, n, k)
           j == EntryStage(w, n, k)
<1>1. /\ Len_(w) \in Nat /\ Index(w) = 1 .. Len_(w) /\ i \in Index(w) /\ s \in Copies(w)
      /\ k \in 1 .. Len_(w) + 1 /\ k # Len_(w) + 1
  BY LengthIsNat DEF Valid, StepInv, Position
<1>2. n \in Copies(w) /\ n.status = "running" /\ n.attempts = s.attempts
  BY DEF Moved
<1>3. Notified(w, n)
  <2>1. \A l \in Index(w) : s.attempts[l] <= n.attempts[l]
    <3>1. s.attempts \in [Index(w) -> Nat]
      BY <1>1 DEF Copies
    <3> QED  BY <1>2, <3>1
  <2> QED  BY <1>1, <1>2, <2>1, NotifiedKept DEF Orderly, Moved
<1>4. Ready(w, n, k)
  BY <1>1, <1>3, FannedBack DEF Ready, Moved
<1>5. Orderly(w, m)
  BY <1>1, <1>4, EnterStageOrderly
<1>6. /\ j \in k .. Len_(w) + 1
      /\ \A l \in k .. Len_(w) + 1 : l < j => ApprovalForStage(w, n, l)
  BY <1>1, <1>2, EntryStageProperties
<1>7. Entered(w, n, k, m)
  BY <1>1, <1>2, EnterStageFields
<1>8. ~ApprovalForStage(w, n, i)
  BY DEF ApprovalForStage, Moved, Orderly, Open
<1> HIDE DEF m
<1>9. j <= i
  <2> HIDE DEF j
  <2>1. i \in k .. Len_(w) + 1
    BY <1>1
  <2> QED  BY <1>1, <1>6, <1>8, <2>1
<1>10. /\ m.status # "done" /\ m.status # "pending" /\ m.stage_index = j
       /\ m.attempts = OneMore(n.attempts, j)
       /\ m.pending_head_changes = <<>>
  <2>1. j <= Len_(w)
    <3> HIDE DEF j
    <3> QED  BY <1>1, <1>6, <1>9
  <2> QED  BY <1>7, <2>1 DEF Entered, Carried, Moved
<1> HIDE DEF j
<1>11. j = i => m.attempts[i] > s.attempts[i]
  <2> SUFFICES ASSUME j = i PROVE m.attempts[i] > s.attempts[i]
    OBVIOUS
  <2>1. s.attempts \in [Index(w) -> Nat]
    BY <1>1 DEF Copies
  <2>2. m.attempts[i] = s.attempts[i] + 1 /\ s.attempts[i] \in Nat
    BY <1>1, <1>2, <1>10, <2>1, OneMoreProperties
  <2> QED  BY <2>2
<1>12. Held(w, s, m)
  BY <1>9, <1>10, <1>11 DEF Held
<1> QED  BY <1>5, <1>12 DEF m

\* recheck_for_new_head.
LEMMA RecheckForNewHeadOrderly ==
  ASSUME NEW w, Valid(w), NEW s, StepInv(w, s), Orderly(w, s), s.status = "running",
         NEW n, Moved(w, s, n), Settled(w, n, s.stage_index)
  PROVE  Orderly(w, RecheckForNewHead(w, n)) /\ Held(w, s, RecheckForNewHead(w, n))
<1> DEFINE i == s.stage_index
           t == RecheckTarget(w, i)
<1>1. /\ Len_(w) \in Nat /\ Index(w) = 1 .. Len_(w) /\ i \in Index(w) /\ s \in Copies(w)
  BY LengthIsNat DEF Valid, StepInv, Position
<1>2. /\ t # 0 => /\ t \in Index(w) /\ t <= i /\ IsHeadBound(w, t)
                  /\ \A j \in Index(w) : j < t => ~IsHeadBound(w, j)
      /\ t = 0 => \A j \in Index(w) : j < i => ~IsHeadBound(w, j)
  BY <1>1, RecheckTargetProperties
<1>3. /\ n \in Copies(w) /\ n.status = "running" /\ n.stage_index = i
      /\ Records(w, n) /\ LooselyCovered(w, n, i) /\ n.attempts = s.attempts
  BY DEF Moved
<1>4. RecheckForNewHead(w, n) = IF t # 0 THEN EnterStage(w, n, t) ELSE RestartIfCollected(w, n)
  BY <1>3 DEF RecheckForNewHead
<1>5. CASE t # 0
  <2> HIDE DEF t
  <2>1. LooselyCovered(w, n, t)
    BY <1>1, <1>2, <1>3, <1>5 DEF LooselyCovered
  <2>2. Covered(w, n, t)
    BY <1>2, <1>5, <2>1, LooselyIsCovered
  <2>3. \A j \in Index(w) : IsKind(w, j, "work") => j < t
    BY <1>2, <1>5, WorkBeforeHeadBound DEF Valid, StaticRules
  <2>4. MayEnter(w, n, t)
    BY <1>3, <2>2, <2>3 DEF MayEnter, Settled
  <2> QED  BY <1>2, <1>4, <1>5, <2>4, EnterBack
<1>6. CASE t = 0
  <2>1. \A j \in Index(w) : j < i => ~IsHeadBound(w, j)
    BY <1>2, <1>6
  <2>2. ~IsKind(w, i, "command")
    BY <1>1, <1>6, CommandRecheckTarget
  <2>3. RecheckForNewHead(w, n) =
          IF InStage(w, n, "approval") \/ InStage(w, n, "fanout")
          THEN EnterStage(w, n, i) ELSE n
    BY <1>3, <1>4, <1>6 DEF RestartIfCollected
  <2> HIDE DEF t
  <2>4. Covered(w, n, i)
    BY <1>3, <2>1, LooselyIsCovered
  <2>5. MayEnter(w, n, i)
    BY <1>3, <2>4 DEF MayEnter
  <2>6. i <= i
    BY <1>1
  <2>7. Orderly(w, EnterStage(w, n, i)) /\ Held(w, s, EnterStage(w, n, i))
    BY <1>1, <2>1, <2>5, <2>6, EnterBack
  <2>8. CASE InStage(w, n, "approval") \/ InStage(w, n, "fanout")
    BY <2>3, <2>7, <2>8
  <2>9. CASE ~(InStage(w, n, "approval") \/ InStage(w, n, "fanout"))
    <3>1. RecheckForNewHead(w, n) = n
      BY <2>3, <2>9
    <3>2. KindAt(w, i) \notin {"command", "approval", "fanout"}
      BY <1>1, <1>3, <2>2, <2>9 DEF InStage, IsKind
    <3>3. Held(w, s, n)
      BY <1>3, <2>6, <3>2 DEF Held, Moved
    <3>4. Notified(w, n)
      <4>1. \A l \in Index(w) : s.attempts[l] <= n.attempts[l]
        BY <1>1, <1>3 DEF Copies
      <4> QED  BY <1>1, <1>3, <4>1, NotifiedKept DEF Orderly, Moved
    <3>5. Open(w, n)
      BY <1>3, <3>2 DEF Orderly, Open, Moved, IsKind
    <3>6. Phase(w, n)
      BY <1>1, <1>3 DEF Orderly, Phase, Moved
    <3>7. FanoutBehind(w, n)
      <4> SUFFICES ASSUME ~PickOutOfReach(w)
                   PROVE  Fanned(w, n, i, LastFanout(w) + 1 < i)
        BY <1>3 DEF FanoutBehind
      <4>1. Fanned(w, n, i, \/ LastFanout(w) + 1 < i
                            \/ \E a \in n.approvals : a.stage = LastFanout(w) + 1)
        BY <1>1, <2>1, <2>6, FannedBack
      <4> QED  BY <4>1 DEF Fanned
    <3>8. Counted(w, n)
      BY DEF Moved
    <3> QED  BY <3>1, <3>3, <3>4, <3>5, <3>6, <3>7, <3>8 DEF Orderly
  <2> QED  BY <2>8, <2>9
<1> QED  BY <1>5, <1>6


\* A new head: what was bound to the old one is gone, the rest is kept.
LEMMA NewHeadMoved ==
  ASSUME NEW w, Valid(w), NEW s, StepInv(w, s), Orderly(w, s), s.status = "running",
         s.pending_head_changes = <<>>,
         NEW head \in Heads, NEW patch \in Patches, s.current_head # head
  PROVE  LET n == RecordNewHead(w, s, head, patch)
         IN  Moved(w, s, n) /\ Settled(w, n, s.stage_index)
<1> DEFINE n == RecordNewHead(w, s, head, patch)
<1>1. /\ Len_(w) \in Nat /\ Index(w) = 1 .. Len_(w) /\ s.stage_index \in Index(w)
      /\ s \in Copies(w) /\ Records(w, s) /\ Covered(w, s, s.stage_index)
  BY LengthIsNat DEF Valid, StepInv, Position
<1>2. LooselyCovered(w, s, s.stage_index)
  BY <1>1, CoveredLoosely
<1>3. Records(w, n) /\ Settled(w, n, s.stage_index) /\ LooselyCovered(w, n, s.stage_index)
  BY <1>1, <1>2, FreshHead
<1>4. /\ n \in Copies(w) /\ n.status = s.status /\ n.stage_index = s.stage_index
      /\ n.current_head = head /\ n.patch_id = patch
      /\ n.approvals = {a \in s.approvals : a.head = None \/ a.head = head}
  BY <1>1, RecordNewHeadProperties
<1>5. /\ Carried(s, n) /\ n.fanout_children = s.fanout_children
      /\ n.attempts = s.attempts
      /\ n.pending_work_reason = s.pending_work_reason
      /\ n.approval_reviewers = {}
      /\ n.passed_checks = {c \in s.passed_checks : c.head = head}
      /\ (\A a \in s.approvals :
            a.head = None \/ a.head = head \/ ~PicksAt(w, a.stage)) =>
           n.selected_child = s.selected_child
  BY <1>1, RecordNewHeadFields
<1> HIDE DEF n
<1>6. head # None /\ patch # None
  BY NoneAssumption
<1>7. Counted(w, n)
  <2>1. n.passed_checks = {}
    BY <1>5 DEF Orderly, Counted
  <2>2. n.approvals \subseteq s.approvals
    BY <1>4
  <2> QED  BY <1>4, <1>6, <2>1, <2>2 DEF Orderly, Counted
<1>8. \A a \in n.approvals : ~w.stages[a.stage].bind_head
  BY <1>1, <1>4 DEF Records
<1>9. \/ n.selected_child = s.selected_child
      \/ \E j \in Index(w) : PicksAt(w, j) /\ w.stages[j].bind_head
  <2> SUFFICES ASSUME NEW a \in s.approvals, a.head # None, PicksAt(w, a.stage)
               PROVE  \E j \in Index(w) : PicksAt(w, j) /\ w.stages[j].bind_head
    BY <1>5
  <2>1. a.stage \in Index(w)
    BY DEF PicksAt, IsKind
  <2>2. w.stages[a.stage].bind_head
    BY <1>1 DEF Records
  <2> QED  BY <2>1, <2>2
<1>10. \A a \in n.approvals : \E b \in s.approvals : b.stage = a.stage
  BY <1>4
<1>11. n.pending_head_changes = <<>> /\ n.notified_timeout = s.notified_timeout
  BY <1>5 DEF Carried
<1> QED  BY <1>3, <1>4, <1>5, <1>7, <1>8, <1>9, <1>10, <1>11 DEF Moved, n

\* A commit of the task holder.
LEMMA NewHeadOrderly ==
  ASSUME NEW w, Valid(w), NEW s, StepInv(w, s), Orderly(w, s), s.status = "running",
         s.pending_head_changes = <<>>,
         NEW head \in Heads, NEW patch \in Patches, s.current_head # head
  PROVE  LET n == RecheckForNewHead(w, RecordNewHead(w, s, head, patch))
         IN  Orderly(w, n) /\ Held(w, s, n)
  BY NewHeadMoved, RecheckForNewHeadOrderly

\* A clean rebase that kept the patch.
LEMMA KeepApprovalsOrderly ==
  ASSUME NEW w, Valid(w), NEW s, StepInv(w, s), Orderly(w, s), s.status = "running",
         s.pending_head_changes = <<>>,
         NEW head \in Heads, NEW patch \in Patches,
         s.current_head # None, s.current_head # head, patch = ApprovedPatch(s)
  PROVE  /\ Orderly(w, KeepApprovals(w, s, head, patch))
         /\ Held(w, s, KeepApprovals(w, s, head, patch))
<1>1. /\ s.stage_index \in Index(w) /\ s \in Copies(w) /\ Records(w, s)
      /\ Covered(w, s, s.stage_index) /\ Settled(w, s, s.stage_index)
  BY DEF StepInv, Position
<1>2. PICK m \in Copies(w) :
        /\ KeepApprovals(w, s, head, patch) = RecheckForNewHead(w, m)
        /\ Rebased(w, s, m, head, patch)
  BY <1>1, KeepApprovalsProperties
<1>3. head # None /\ patch # None
  BY NoneAssumption
<1>4. m.approvals \subseteq Approval
  BY DEF Copies
<1>5. ASSUME NEW b \in m.approvals, NEW c \in m.approvals, b.stage = c.stage
      PROVE  b = c
  <2>1. PICK a \in s.approvals :
          /\ b.stage = a.stage /\ b.reviewers = a.reviewers
          /\ ~w.stages[a.stage].bind_head => b = a
          /\ w.stages[a.stage].bind_head => b.head = head /\ b.patch = patch
    BY <1>2 DEF Rebased
  <2>2. PICK d \in s.approvals :
          /\ c.stage = d.stage /\ c.reviewers = d.reviewers
          /\ ~w.stages[d.stage].bind_head => c = d
          /\ w.stages[d.stage].bind_head => c.head = head /\ c.patch = patch
    BY <1>2 DEF Rebased
  <2>3. a = d
    BY <1>5, <2>1, <2>2 DEF Orderly, Counted
  <2>4. b \in Approval /\ c \in Approval
    BY <1>4
  <2>5. CASE w.stages[a.stage].bind_head
    BY <2>1, <2>2, <2>3, <2>4, <2>5 DEF Approval
  <2>6. CASE ~w.stages[a.stage].bind_head
    BY <2>1, <2>2, <2>3, <2>6
  <2> QED  BY <2>5, <2>6
<1>6. ASSUME NEW b \in m.approvals
      PROVE  /\ Cardinality(b.reviewers) = w.stages[b.stage].count
             /\ ~w.stages[b.stage].bind_head => b.patch = None
  BY <1>2 DEF Orderly, Counted, Rebased
<1>7. Counted(w, m)
  BY <1>2, <1>3, <1>5, <1>6 DEF Counted, Rebased
<1>8. Moved(w, s, m)
  BY <1>2, <1>7 DEF Moved, Carried, SameFanout, Rebased
<1> QED  BY <1>2, <1>8, RecheckForNewHeadOrderly DEF Rebased

\* Going back to work for a head change.
LEMMA BackToWorkOrderly ==
  ASSUME NEW w, Valid(w), NEW s, StepInv(w, s), Orderly(w, s), s.status = "running",
         NEW n \in Copies(w), n.status = "running", n.stage_index = s.stage_index,
         Records(w, n), Counted(w, n), n.attempts = s.attempts,
         n.notified_timeout = s.notified_timeout,
         n.pending_work_reason = s.pending_work_reason,
         n.pending_head_changes = <<>>,
         \A k : LooselyCovered(w, s, k) => LooselyCovered(w, n, k),
         n.fanout_children = s.fanout_children,
         \/ n.selected_child = s.selected_child
         \/ \E j \in Index(w) : PicksAt(w, j) /\ w.stages[j].bind_head
  PROVE  LET work == PreviousWork(w, s.stage_index)
             m == IF work # 0 THEN ReturnToWork(w, n, work) ELSE FailTask(n, s.stage_index)
         IN  Orderly(w, m) /\ Held(w, s, m)
<1> DEFINE work == PreviousWork(w, s.stage_index)
           i == s.stage_index
           f == LastFanout(w)
<1>1. /\ Len_(w) \in Nat /\ Index(w) = 1 .. Len_(w) /\ i \in Index(w) /\ s \in Copies(w)
      /\ Covered(w, s, i)
  BY LengthIsNat DEF Valid, StepInv, Position
<1>2. Notified(w, n)
  <2>1. \A k \in Index(w) : s.attempts[k] <= n.attempts[k]
    <3>1. s.attempts \in [Index(w) -> Nat]
      BY <1>1 DEF Copies
    <3> QED  BY <3>1
  <2> QED  BY <1>1, <2>1, NotifiedKept DEF Orderly
<1>3. CASE work # 0
  <2> DEFINE m == ReturnToWork(w, n, work)
  <2>1. work \in Index(w) /\ work < i /\ IsKind(w, work, "work")
    BY <1>1, <1>3, PreviousWorkProperties
  <2> HIDE DEF work
  <2>2. LooselyCovered(w, n, work)
    BY <1>1, <2>1, CoveredLoosely
  <2>3. work < Len_(w)
    BY <1>1, <2>1
  <2>4. ASSUME ~PickOutOfReach(w)
        PROVE  Fanned(w, n, work, f + 1 < work)
    <3>1. Fanned(w, s, work, f + 1 < work)
      BY <2>1, <2>4, FannedBefore
    <3>2. f + 1 < work => n.selected_child = s.selected_child
      <4> SUFFICES ASSUME f + 1 < work, NEW j \in Index(w),
                          PicksAt(w, j), w.stages[j].bind_head
                   PROVE  FALSE
        OBVIOUS
      <4>1. j = f + 1
        BY <2>4, BoundPickIsLast
      <4>2. IsHeadBound(w, j)
        BY DEF PicksAt, IsHeadBound
      <4>3. work < j
        BY <2>1, <4>2, WorkBeforeHeadBound DEF Valid, StaticRules
      <4> HIDE DEF f
      <4> QED  BY <1>1, <2>1, <4>1, <4>3
    <3> QED  BY <3>1, <3>2 DEF Fanned
  <2>5. Orderly(w, m)
    BY <1>2, <2>1, <2>2, <2>3, <2>4, ReturnToWorkOrderly
  <2>6. m.stage_index = work /\ m.status = n.status /\ Carried(n, m)
    BY <2>1, ReturnToWorkFields
  <2> HIDE DEF m
  <2>7. Held(w, s, m)
    BY <1>1, <2>1, <2>6 DEF Held, Carried
  <2> QED  BY <1>3, <2>5, <2>7 DEF m, work
<1>4. CASE work = 0
  <2> DEFINE m == FailTask(n, i)
  <2>1. i \in Nat
    BY <1>1
  <2>2. s.pending_work_reason => IsKind(w, i, "work") /\ i < Len_(w)
    BY DEF Orderly, Phase
  <2>3. Orderly(w, m)
    BY <1>1, <1>2, <2>1, <2>2, FailTaskOrderly
  <2>4. m.stage_index = i /\ m.status = "failed" /\ Carried(n, m)
    BY FailTaskFields
  <2> HIDE DEF m
  <2>5. Held(w, s, m)
    BY <1>1, <2>1, <2>4 DEF Held, Carried
  <2> QED  BY <1>4, <2>3, <2>5 DEF m
<1> QED  BY <1>3, <1>4

\* A rebase of the branch, clean or not.
LEMMA MainAdvancedOrderly ==
  ASSUME NEW w, Valid(w), NEW s, StepInv(w, s), Orderly(w, s), s.status = "running",
         s.pending_head_changes = <<>>,
         NEW head \in Heads, NEW patch \in Patches, NEW conflict \in BOOLEAN
  PROVE  LET n == MainAdvanced(w, s, head, patch, conflict)
         IN  Orderly(w, n) /\ (n = s \/ Held(w, s, n))
<1> DEFINE i == s.stage_index
           n == IF conflict THEN InvalidateHeadBound(w, s)
                ELSE RecordNewHead(w, s, head, patch)
           work == PreviousWork(w, i)
<1>1. /\ Len_(w) \in Nat /\ Index(w) = 1 .. Len_(w) /\ i \in Index(w) /\ s \in Copies(w)
      /\ Records(w, s) /\ Covered(w, s, i)
  BY LengthIsNat DEF Valid, StepInv, Position
<1>2. CASE ~s.branch \/ (~conflict /\ s.current_head = head)
  BY <1>2 DEF MainAdvanced
<1>3. CASE ~(~s.branch \/ (~conflict /\ s.current_head = head))
  <2> DEFINE fresh == RecheckForNewHead(w, RecordNewHead(w, s, head, patch))
             kept == KeepApprovals(w, s, head, patch)
             back == IF work # 0 THEN ReturnToWork(w, n, work) ELSE FailTask(n, i)
  <2>1. s.current_head # None
    BY <1>1, <1>3 DEF Records
  <2>2. MainAdvanced(w, s, head, patch, conflict) =
          IF KindAt(w, i) \in {"work", "submit"} THEN IF conflict THEN s ELSE fresh
          ELSE IF ~conflict /\ patch = ApprovedPatch(s) THEN kept
          ELSE back
    BY <1>3, <2>1 DEF MainAdvanced
  <2>3. ~conflict => Orderly(w, fresh) /\ Held(w, s, fresh)
    BY <1>3, NewHeadOrderly
  <2>4. ~conflict /\ patch = ApprovedPatch(s) => Orderly(w, kept) /\ Held(w, s, kept)
    BY <1>3, <2>1, KeepApprovalsOrderly
  <2>5. /\ n \in Copies(w) /\ n.status = "running" /\ n.stage_index = i
        /\ Records(w, n) /\ Counted(w, n) /\ n.attempts = s.attempts
        /\ n.notified_timeout = s.notified_timeout
        /\ n.pending_work_reason = s.pending_work_reason
        /\ n.pending_head_changes = <<>>
        /\ \A k : LooselyCovered(w, s, k) => LooselyCovered(w, n, k)
        /\ n.fanout_children = s.fanout_children
        /\ \/ n.selected_child = s.selected_child
           \/ \E j \in Index(w) : PicksAt(w, j) /\ w.stages[j].bind_head
    <3>1. CASE conflict
      <4>1. n \in Copies(w) /\ Frame(s, n)
            /\ n.approvals = {a \in s.approvals : a.head = None \/ a.head = s.current_head}
        BY <1>1, <3>1, InvalidateHeadBoundProperties
      <4>2. /\ Carried(s, n) /\ n.fanout_children = s.fanout_children
            /\ n.pending_work_reason = s.pending_work_reason
            /\ n.passed_checks = {c \in s.passed_checks : c.head = s.current_head}
            /\ (\A a \in s.approvals :
                  a.head = None \/ a.head = s.current_head \/ ~PicksAt(w, a.stage)) =>
                 n.selected_child = s.selected_child
        BY <1>1, <3>1, InvalidateHeadBoundFields
      <4> HIDE DEF n
      <4>3. n.approvals = s.approvals
        BY <1>1, <4>1 DEF Records
      <4>4. n.selected_child = s.selected_child
        BY <1>1, <4>2 DEF Records
      <4>5. Records(w, n)
        BY <1>1, <4>1, <4>3 DEF Records, Frame
      <4>6. \A k : LooselyCovered(w, s, k) => LooselyCovered(w, n, k)
        BY <4>1, <4>3 DEF LooselyCovered, Frame
      <4>7. Counted(w, n)
        <5>1. n.current_head = s.current_head /\ n.patch_id = s.patch_id
          BY <4>1 DEF Frame
        <5> QED  BY <4>2, <4>3, <5>1, CountedKept DEF Orderly
      <4> QED  BY <4>1, <4>2, <4>4, <4>5, <4>6, <4>7 DEF Frame, Carried
    <3>2. CASE ~conflict
      <4>1. n = RecordNewHead(w, s, head, patch) /\ s.current_head # head
        BY <1>3, <3>2
      <4> HIDE DEF n
      <4>2. Moved(w, s, n)
        BY <4>1, NewHeadMoved
      <4>3. \A k : LooselyCovered(w, s, k) => LooselyCovered(w, n, k)
        BY <1>1, <4>1, FreshHead
      <4> QED  BY <4>2, <4>3 DEF Moved
    <3> QED  BY <3>1, <3>2
  <2> HIDE DEF n
  <2>6. Orderly(w, back) /\ Held(w, s, back)
    BY <2>5, BackToWorkOrderly
  <2> HIDE DEF fresh, kept, back, work
  <2> QED  BY <2>2, <2>3, <2>4, <2>6
<1> QED  BY <1>2, <1>3


\* A head change that is applied, now or after a failed merge.
LEMMA ApplyHeadChangeOrderly ==
  ASSUME NEW w, Valid(w), NEW s, StepInv(w, s), Orderly(w, s),
         s.pending_head_changes = <<>>, NEW c \in HeadChange
  PROVE  LET n == ApplyHeadChange(w, s, c)
         IN  Orderly(w, n) /\ (n = s \/ (s.status = "running" /\ Held(w, s, n)))
<1>1. c.head \in Heads /\ c.patch \in Patches /\ c.conflict \in BOOLEAN
  BY DEF HeadChange
<1>2. CASE s.status # "running" \/ (c.kind # "main" /\ s.current_head = c.head)
  BY <1>2 DEF ApplyHeadChange
<1>3. CASE s.status = "running" /\ c.kind = "main"
  <2> DEFINE n == MainAdvanced(w, s, c.head, c.patch, c.conflict)
  <2>1. ApplyHeadChange(w, s, c) = n
    BY <1>3 DEF ApplyHeadChange
  <2>2. Orderly(w, n) /\ (n = s \/ Held(w, s, n))
    BY <1>1, <1>3, MainAdvancedOrderly
  <2> HIDE DEF n
  <2> QED  BY <1>3, <2>1, <2>2
<1>4. CASE s.status = "running" /\ c.kind # "main" /\ s.current_head # c.head
  <2> DEFINE n == RecheckForNewHead(w, RecordNewHead(w, s, c.head, c.patch))
  <2>1. ApplyHeadChange(w, s, c) = n
    BY <1>4 DEF ApplyHeadChange
  <2>2. Orderly(w, n) /\ Held(w, s, n)
    BY <1>1, <1>4, NewHeadOrderly
  <2> HIDE DEF n
  <2> QED  BY <1>4, <2>1, <2>2
<1> QED  BY <1>2, <1>3, <1>4

\* A head change while the merge is in flight is only recorded.
LEMMA RecordedOrderly ==
  ASSUME NEW w, NEW s \in Copies(w), Orderly(w, s), MergeInFlight(w, s),
         NEW q \in Seq(HeadChange)
  PROVE  LET n == [s EXCEPT !.pending_head_changes = q]
         IN  Orderly(w, n) /\ n.status = "running" /\ n.stage_index = s.stage_index
<1> DEFINE n == [s EXCEPT !.pending_head_changes = q]
<1>1. s.status = "running" /\ IsKind(w, s.stage_index, "merge")
  BY DEF MergeInFlight, InStage
<1>2. /\ n \in Copies(w) /\ Same(s, n) /\ SameFanout(s, n)
      /\ n.status = s.status /\ n.stage_index = s.stage_index /\ n.attempts = s.attempts
      /\ n.pending_work_reason = s.pending_work_reason
      /\ n.approval_reviewers = s.approval_reviewers
      /\ n.notified_timeout = s.notified_timeout
  BY ZenonT(60) DEF Copies, Same, SameFanout
<1> HIDE DEF n
<1>3. Counted(w, n)
  BY <1>2, CountedKept DEF Orderly, Same
<1>4. Notified(w, n)
  <2>1. \A k \in Index(w) : s.attempts[k] <= n.attempts[k]
    BY <1>2 DEF Copies
  <2> QED  BY <1>2, <2>1, NotifiedKept DEF Orderly
<1>5. Open(w, n)
  BY <1>2 DEF Orderly, Open, Same
<1>6. Phase(w, n)
  BY <1>1, <1>2 DEF Orderly, Phase, MergeInFlight, InStage
<1>7. FanoutBehind(w, n)
  BY <1>2 DEF Orderly, FanoutBehind, Fanned, SameFanout
<1> QED  BY <1>1, <1>2, <1>3, <1>4, <1>5, <1>6, <1>7 DEF Orderly, n

\* The actions of a step are no part of the records.
LEMMA SetActionsOrderly ==
  ASSUME NEW w, NEW s \in Copies(w), Orderly(w, s), NEW A \in SUBSET Action,
         A = {} \/ s.status # "pending"
  PROVE  LET n == [s EXCEPT !.actions = A]
         IN  /\ Orderly(w, n)
             /\ n.status = s.status /\ n.stage_index = s.stage_index
             /\ n.pending_head_changes = s.pending_head_changes
             /\ n.attempts = s.attempts /\ n.current_head = s.current_head
             /\ n.approval_reviewers = s.approval_reviewers
<1> DEFINE n == [s EXCEPT !.actions = A]
<1>1. /\ n \in Copies(w) /\ Same(s, n) /\ Carried(s, n) /\ SameFanout(s, n)
      /\ n.status = s.status /\ n.stage_index = s.stage_index /\ n.attempts = s.attempts
      /\ n.pending_work_reason = s.pending_work_reason
      /\ n.approval_reviewers = s.approval_reviewers
  BY ZenonT(60) DEF Copies, Same, Carried, SameFanout
<1>2. CASE s.status # "pending"
  <2> HIDE DEF n
  <2>1. Orderly(w, n)
    BY <1>1, <1>2, OrderlyKept
  <2> QED  BY <1>1, <2>1 DEF Same, Carried, n
<1>3. CASE s.status = "pending"
  <2>1. s.actions = A
    <3>1. s = NewState(w)
      BY <1>3 DEF Orderly, Phase
    <3>2. NewState(w).actions = {}
      BY DEF NewState
    <3> QED  BY <1>3, <3>1, <3>2
  <2>2. n = s
    BY <2>1 DEF Copies
  <2> QED  BY <2>2
<1> QED  BY <1>2, <1>3


\* What the loop of merge_failed keeps while it applies the recorded changes.
Draining(w, s) ==
  /\ StepInv(w, s) /\ Orderly(w, s)
  /\ s.pending_head_changes = <<>> /\ s.status # "pending"

\* One turn of that loop.
LEMMA ApplyPendingOrderly ==
  ASSUME NEW w, Valid(w), NEW s, Draining(w, s), NEW c \in HeadChange
  PROVE  Draining(w, ApplyPending(w, s, c))
<1> DEFINE none == {}
           a == [s EXCEPT !.actions = none]
           n == ApplyHeadChange(w, a, c)
           m == [n EXCEPT !.actions = s.actions]
<1>1. none \in SUBSET Action /\ s \in Copies(w) /\ s.actions \in SUBSET Action
  BY DEF Draining, StepInv, Copies
<1>2. ApplyPending(w, s, c) = IF n.actions = {} THEN m ELSE n
  BY DEF ApplyPending
<1> HIDE DEF none
<1>3. StepInv(w, a) /\ Orderly(w, a)
      /\ a.status = s.status /\ a.pending_head_changes = s.pending_head_changes
  BY <1>1, SetActionsStepInv, SetActionsOrderly DEF Draining
<1> HIDE DEF a
<1>4. StepInv(w, n)
  BY <1>3, ApplyHeadChangeStepInv
<1>5. Orderly(w, n) /\ (n = a \/ Held(w, a, n))
  BY <1>3, ApplyHeadChangeOrderly DEF Draining
<1> HIDE DEF n
<1>6. Draining(w, n)
  BY <1>3, <1>4, <1>5 DEF Draining, Held
<1>7. Draining(w, m)
  <2>1. n \in Copies(w)
    BY <1>4 DEF StepInv
  <2>2. StepInv(w, m)
    BY <1>1, <1>4, SetActionsStepInv
  <2>3. /\ Orderly(w, m) /\ m.status = n.status
        /\ m.pending_head_changes = n.pending_head_changes
    BY <1>1, <1>6, <2>1, SetActionsOrderly DEF Draining
  <2> HIDE DEF m
  <2> QED  BY <1>6, <2>2, <2>3 DEF Draining
<1> QED  BY <1>2, <1>6, <1>7

\* However many head changes were recorded, the records stay in order.
LEMMA DrainedOrderly ==
  ASSUME NEW w, Valid(w), NEW s, StepInv(w, s), Orderly(w, s), MergeInFlight(w, s)
  PROVE  Draining(w, Drained(w, s)[Len(s.pending_head_changes)])
<1> DEFINE q == s.pending_head_changes
           d == Drained(w, s)
           D == {k \in Nat : k <= Len(q) /\ ~Draining(w, d[k])}
<1>1. q \in Seq(HeadChange) /\ Len(q) \in Nat /\ s \in Copies(w)
  BY DEF StepInv, Copies
<1>2. /\ d[0] = [s EXCEPT !.pending_head_changes = <<>>]
      /\ \A k \in Nat : d[k + 1] = ApplyPending(w, d[k], q[k + 1])
  BY DrainedRecursion
<1> HIDE DEF d
<1>3. Draining(w, d[0])
  <2> DEFINE empty == <<>>
             z == [s EXCEPT !.pending_head_changes = empty]
  <2>1. empty \in Seq(HeadChange) /\ d[0] = z /\ empty = <<>>
    BY <1>2
  <2> HIDE DEF empty
  <2>2. StepInv(w, z)
    BY <2>1, SetPendingStepInv
  <2>3. Orderly(w, z) /\ z.status = "running"
    BY <1>1, <2>1, RecordedOrderly
  <2>4. z.pending_head_changes = empty
    BY <1>1 DEF Copies
  <2> HIDE DEF z
  <2> QED  BY <2>1, <2>2, <2>3, <2>4 DEF Draining
<1>4. D = {}
  <2> SUFFICES ASSUME D # {} PROVE FALSE
    OBVIOUS
  <2>1. PICK k \in D : \A j \in D : k <= j
    <3>1. D \in SUBSET Nat
      OBVIOUS
    <3> HIDE DEF D
    <3> QED  BY <3>1, LeastElement
  <2>2. k # 0
    BY <1>3, <2>1
  <2>3. k - 1 \in Nat /\ k - 1 <= Len(q) /\ ~(k <= k - 1) /\ (k - 1) + 1 = k
    BY <1>1, <2>1, <2>2
  <2>4. Draining(w, d[k - 1])
    BY <2>1, <2>3
  <2>5. q[k] \in HeadChange
    BY <1>1, <2>1, <2>2
  <2>6. d[k] = ApplyPending(w, d[k - 1], q[k])
    BY <1>2, <2>3
  <2>7. Draining(w, d[k])
    BY <2>4, <2>5, <2>6, ApplyPendingOrderly
  <2> QED  BY <2>1, <2>7
<1>5. Len(q) \notin D
  BY <1>4
<1>6. Draining(w, d[Len(q)])
  BY <1>1, <1>5
<1> QED  BY <1>6 DEF d

\* A running copy in order is what head changes start from.
LEMMA MovedSelf ==
  ASSUME NEW w, Valid(w), NEW s, Draining(w, s), s.status = "running",
         s.approval_reviewers = {}
  PROVE  Moved(w, s, s)
<1>1. /\ s \in Copies(w) /\ Records(w, s) /\ s.stage_index \in Index(w)
      /\ Covered(w, s, s.stage_index)
  BY DEF Draining, StepInv, Position
<1>2. LooselyCovered(w, s, s.stage_index)
  BY <1>1, LengthIsNat, CoveredLoosely DEF Valid
<1> QED  BY <1>1, <1>2 DEF Draining, Moved, Orderly

\* After a failed merge the task is where everything is checked again.
LEMMA MergeFailedOrderly ==
  ASSUME NEW w, Valid(w), NEW s, StepInv(w, s), Orderly(w, s), MergeInFlight(w, s)
  PROVE  Orderly(w, MergeFailedState(w, s))
<1> DEFINE n == Drained(w, s)[Len(s.pending_head_changes)]
           t == RecheckTarget(w, n.stage_index)
<1>1. Len_(w) \in Nat /\ Index(w) = 1 .. Len_(w)
  BY LengthIsNat DEF Valid
<1>2. Draining(w, n)
  BY DrainedOrderly
<1>3. MergeFailedState(w, s) =
        IF ~MergeInFlight(w, n) THEN n ELSE IF t = 0 THEN Refused(n) ELSE EnterStage(w, n, t)
  BY DEF MergeFailedState
<1> HIDE DEF n
<1>4. CASE MergeInFlight(w, n)
  <2>1. /\ n.status = "running" /\ n.stage_index \in Index(w) /\ n \in Copies(w)
        /\ Records(w, n) /\ Covered(w, n, n.stage_index)
        /\ IsKind(w, n.stage_index, "merge")
    BY <1>2, <1>4 DEF Draining, MergeInFlight, InStage, StepInv, Position
  <2>2. t # 0
    BY <2>1, MergeRecheckTarget
  <2>3. /\ t \in Index(w) /\ t <= n.stage_index /\ IsHeadBound(w, t)
        /\ \A j \in Index(w) : j < t => ~IsHeadBound(w, j)
    BY <2>1, <2>2, RecheckTargetProperties
  <2>4. n.approval_reviewers = {}
    BY <1>2, <2>1 DEF Draining, Orderly, Open, IsKind
  <2>5. Moved(w, n, n)
    BY <1>2, <2>1, <2>4, MovedSelf
  <2> HIDE DEF t
  <2>6. LooselyCovered(w, n, t)
    BY <1>1, <2>1, <2>3, CoveredLoosely
  <2>7. Covered(w, n, t)
    BY <2>3, <2>6, LooselyIsCovered
  <2>8. \A j \in Index(w) : IsKind(w, j, "work") => j < t
    BY <2>3, WorkBeforeHeadBound DEF Valid, StaticRules
  <2>9. MayEnter(w, n, t)
    BY <2>1, <2>7, <2>8 DEF MayEnter, Settled
  <2>10. Orderly(w, EnterStage(w, n, t))
    BY <1>2, <2>1, <2>3, <2>5, <2>9, EnterBack DEF Draining
  <2> QED  BY <1>3, <1>4, <2>2, <2>10
<1>5. CASE ~MergeInFlight(w, n)
  BY <1>2, <1>3, <1>5 DEF Draining
<1> QED  BY <1>4, <1>5

\* CommitCreated and MainAdvanced: applied at once, or recorded while the
\* merge is in flight.
LEMMA HeadChangedOrderly ==
  ASSUME NEW w, Valid(w), NEW s, StepInv(w, s), Orderly(w, s), s.status = "running",
         NEW c \in HeadChange
  PROVE  LET n == HeadChanged(w, s, c)
         IN  /\ Orderly(w, n)
             /\ n.stage_index <= s.stage_index /\ n.status # "done"
             /\ n = s \/ MergeInFlight(w, s) \/ Held(w, s, n)
<1>1. /\ Len_(w) \in Nat /\ Index(w) = 1 .. Len_(w) /\ s.stage_index \in Index(w)
      /\ s \in Copies(w)
  BY LengthIsNat DEF Valid, StepInv, Position
<1>2. CASE ~MergeInFlight(w, s)
  <2> DEFINE n == ApplyHeadChange(w, s, c)
  <2>1. HeadChanged(w, s, c) = n
    BY <1>2 DEF HeadChanged
  <2>2. s.pending_head_changes = <<>>
    BY <1>2 DEF Orderly, Phase
  <2>3. Orderly(w, n) /\ (n = s \/ Held(w, s, n))
    BY <2>2, ApplyHeadChangeOrderly
  <2> HIDE DEF n
  <2> QED  BY <1>1, <2>1, <2>3 DEF Held
<1>3. CASE MergeInFlight(w, s)
  <2> DEFINE q == IF c.kind = "commit" /\ s.current_head = c.head
                  THEN <<>> ELSE Append(s.pending_head_changes, c)
             n == [s EXCEPT !.pending_head_changes = q]
  <2>1. HeadChanged(w, s, c) = n
    BY <1>3 DEF HeadChanged
  <2>2. q \in Seq(HeadChange)
    <3>1. s.pending_head_changes \in Seq(HeadChange)
      BY <1>1 DEF Copies
    <3> QED  BY <3>1
  <2> HIDE DEF q
  <2>3. Orderly(w, n) /\ n.status = "running" /\ n.stage_index = s.stage_index
    BY <1>1, <1>3, <2>2, RecordedOrderly
  <2> HIDE DEF n
  <2> QED  BY <1>1, <1>3, <2>1, <2>3
<1> QED  BY <1>2, <1>3

-----------------------------------------------------------------------------
(* Timeouts.                                                               *)

\* A timeout that is reported is of the attempt that runs.
LEMMA NotifiedOrderly ==
  ASSUME NEW w, NEW s, StepInv(w, s), Orderly(w, s), s.status = "running",
         NEW stage, NEW attempt, stage = s.stage_index, attempt = Attempt(w, s),
         stage \in Index(w), stage \in Nat
  PROVE  LET n == Emit([s EXCEPT !.notified_timeout = <<stage, attempt>>],
                       {Act("NotifyTimeout", stage, 0)})
         IN  /\ Orderly(w, n) /\ n.current_head = s.current_head
             /\ n.approval_reviewers = s.approval_reviewers
<1> DEFINE pair == <<stage, attempt>>
           m == [s EXCEPT !.notified_timeout = pair]
           n == Emit(m, {Act("NotifyTimeout", stage, 0)})
<1>1. s \in Copies(w) /\ s.attempts \in [Index(w) -> Nat]
  BY DEF StepInv, Copies
<1>2. attempt = s.attempts[stage] /\ attempt \in Nat /\ attempt > 0
  BY <1>1 DEF Attempt, Orderly, Open
<1>3. pair \in Nat \X Nat /\ pair[1] = stage /\ pair[2] = attempt
  BY <1>2
<1> HIDE DEF pair
<1>4. /\ m \in Copies(w) /\ Same(s, m) /\ SameFanout(s, m)
      /\ m.status = s.status /\ m.stage_index = s.stage_index /\ m.attempts = s.attempts
      /\ m.pending_work_reason = s.pending_work_reason
      /\ m.approval_reviewers = s.approval_reviewers
      /\ m.notified_timeout = pair
      /\ m.pending_head_changes = s.pending_head_changes
      /\ m.merge_commit = s.merge_commit
  BY ZenonT(60), <1>1, <1>3 DEF Copies, Same, SameFanout
<1> HIDE DEF m
<1>5. Orderly(w, m)
  <2>1. Counted(w, m)
    BY <1>4, CountedKept DEF Orderly, Same
  <2>2. Notified(w, m)
    BY <1>2, <1>3, <1>4 DEF Notified
  <2>3. Open(w, m)
    BY <1>4 DEF Orderly, Open, Same
  <2>4. Phase(w, m)
    BY <1>4 DEF Orderly, Phase, MergeInFlight, InStage
  <2>5. FanoutBehind(w, m)
    BY <1>4 DEF Orderly, FanoutBehind, Fanned, SameFanout
  <2> QED  BY <2>1, <2>2, <2>3, <2>4, <2>5 DEF Orderly
<1>6. {Act("NotifyTimeout", stage, 0)} \in SUBSET Action
  BY ActType DEF ActionKind
<1>7. n \in Copies(w)
  BY <1>4, <1>6, EmitProperties
<1>8. /\ Carried(m, n) /\ SameFanout(m, n) /\ Same(m, n)
      /\ n.status = m.status /\ n.stage_index = m.stage_index
      /\ n.attempts = m.attempts /\ n.pending_work_reason = m.pending_work_reason
      /\ n.approval_reviewers = m.approval_reviewers
  BY <1>4, EmitFields
<1> HIDE DEF n
<1>9. Orderly(w, n)
  BY <1>4, <1>5, <1>7, <1>8, OrderlyKept
<1> QED  BY <1>4, <1>8, <1>9 DEF Same, n, m, pair

\* A stage that is started again has at least what it had.
LEMMA ReassignedOrderly ==
  ASSUME NEW w, Valid(w), NEW s, StepInv(w, s), Orderly(w, s), s.status = "running",
         ~MergeInFlight(w, s), NEW stage \in Nat
  PROVE  LET n == EnterStage(w, Emit(s, {Act("ReassignStage", stage, 0)}), s.stage_index)
         IN  /\ Orderly(w, n)
             /\ n.status = "running" /\ n.stage_index = s.stage_index =>
                  n.attempts[s.stage_index] > s.attempts[s.stage_index]
<1> DEFINE i == s.stage_index
           f == LastFanout(w)
           m == Emit(s, {Act("ReassignStage", stage, 0)})
           n == EnterStage(w, m, i)
<1>1. /\ Len_(w) \in Nat /\ Index(w) = 1 .. Len_(w) /\ i \in Index(w)
      /\ i \in 1 .. Len_(w) + 1 /\ i # Len_(w) + 1
      /\ s \in Copies(w) /\ Records(w, s) /\ Covered(w, s, i) /\ Settled(w, s, i)
  BY LengthIsNat DEF Valid, StepInv, Position
<1>2. {Act("ReassignStage", stage, 0)} \in SUBSET Action
  BY ActType DEF ActionKind
<1>3. m \in Copies(w)
  BY <1>1, <1>2, EmitProperties
<1>4. /\ Carried(s, m) /\ SameFanout(s, m) /\ Same(s, m)
      /\ m.status = s.status /\ m.stage_index = s.stage_index
      /\ m.attempts = s.attempts /\ m.pending_work_reason = s.pending_work_reason
      /\ m.approval_reviewers = s.approval_reviewers
  BY <1>1, EmitFields
<1> HIDE DEF m
<1>5. MayEnter(w, m, i)
  BY <1>1, <1>3, <1>4, Transfer DEF MayEnter
<1>6. Orderly(w, m)
  BY <1>1, <1>3, <1>4, OrderlyKept
<1>7. Ready(w, m, i)
  <2>1. m.pending_head_changes = <<>>
    BY <1>4 DEF Orderly, Phase, Carried
  <2>2. /\ ~PickOutOfReach(w) => Fanned(w, m, i, f + 1 < i)
        /\ ~\E a \in m.approvals : a.stage = i
    BY <1>4, <1>6 DEF Orderly, FanoutBehind, Open
  <2>3. f \in 0 .. Len_(w)
    BY LastFanoutProperties
  <2>4. ~PickOutOfReach(w) =>
          Fanned(w, m, i, \/ f + 1 < i
                          \/ \E a \in m.approvals : a.stage = f + 1)
    <3>1. f < i => f + 1 < i \/ f + 1 = i
      <4> HIDE DEF f
      <4> QED  BY <1>1, <2>3
    <3> QED  BY <2>2, <3>1 DEF Fanned
  <2> QED  BY <1>1, <1>6, <2>1, <2>4 DEF Ready, Orderly
<1>8. Orderly(w, n)
  BY <1>1, <1>5, <1>7, EnterStageOrderly
<1>9. Entered(w, m, i, n)
  BY <1>1, <1>3, <1>4, EnterStageFields
<1> HIDE DEF n
<1>10. n.status = "running" /\ n.stage_index = i => n.attempts[i] > s.attempts[i]
  <2> SUFFICES ASSUME n.status = "running", n.stage_index = i
               PROVE  n.attempts[i] > s.attempts[i]
    OBVIOUS
  <2> DEFINE j == EntryStage(w, m, i)
  <2>1. j \in i .. Len_(w) + 1
    BY <1>1, <1>3, EntryStageProperties
  <2>2. (j > Len_(w) => n.status = "done")
        /\ (j <= Len_(w) => n.stage_index = j /\ n.attempts = OneMore(m.attempts, j))
    BY <1>9 DEF Entered
  <2> HIDE DEF j
  <2>3. n.attempts = OneMore(s.attempts, i)
    BY <1>1, <1>4, <2>1, <2>2
  <2>4. s.attempts \in [Index(w) -> Nat]
    BY <1>1 DEF Copies
  <2>5. n.attempts[i] = s.attempts[i] + 1 /\ s.attempts[i] \in Nat
    BY <1>1, <2>3, <2>4, OneMoreProperties
  <2> QED  BY <2>5
<1> QED  BY <1>8, <1>10 DEF n, m

-----------------------------------------------------------------------------
(* PipelineState::restore.                                                 *)

\* done_invariants of a finished task.
LEMMA DoneInvariantsHold ==
  ASSUME NEW w, Valid(w), ~PickOutOfReach(w), NEW s, StepInv(w, s), Orderly(w, s),
         s.status = "done"
  PROVE  DoneInvariants(w, s)
<1> DEFINE f == LastFanout(w)
           l == s.stage_index
<1>1. /\ Len_(w) \in Nat /\ Index(w) = 1 .. Len_(w) /\ s \in Copies(w)
      /\ Records(w, s) /\ Covered(w, s, l)
      /\ l = Len_(w) + 1 \/ (IsKind(w, l, "merge") /\ l = Len_(w))
  BY LengthIsNat DEF Valid, StepInv, Position, StaticRules, MergeRules, IsKind
<1>2. \A i \in Index(w) : i < l \/ (i = l /\ IsKind(w, i, "merge"))
  <2> HIDE DEF l
  <2> QED  BY <1>1
<1>3. ASSUME NEW i \in Index(w)
      PROVE  /\ IsKind(w, i, "command") => CheckPassed(s, i)
             /\ IsKind(w, i, "approval") /\ w.stages[i].bind_head =>
                  \E a \in s.approvals : a.stage = i /\ a.head = s.current_head
  <2>1. CASE i < l
    BY <1>1, <2>1 DEF Covered, ApprovalForStage
  <2>2. CASE ~(i < l)
    BY <1>2, <2>2 DEF IsKind
  <2> QED  BY <2>1, <2>2
<1>4. /\ f \in 0 .. Len_(w)
      /\ f # 0 => IsKind(w, f, "fanout")
  BY LastFanoutProperties
<1>5. Fanned(w, s, l, f + 1 < l)
  BY DEF Orderly, FanoutBehind
<1>6. ASSUME f # 0, w.stages[f].join = "pick"
      PROVE  s.selected_child # None /\ s.selected_child \in s.fanout_children
  <2>1. f + 1 \in Index(w) /\ PicksAt(w, f + 1) /\ f \in Index(w)
    BY <1>1, <1>4, <1>6, PickFollowsFanout
  <2>2. f < l
    BY <1>2, <1>4, <1>6, <2>1 DEF IsKind
  <2>3. f + 1 < l
    BY <1>2, <2>1 DEF PicksAt, IsKind
  <2>4. s.selected_child \in s.fanout_children /\ s.fanout_children \subseteq Children
    BY <1>1, <1>5, <1>6, <2>2, <2>3 DEF Fanned, Copies
  <2> QED  BY <2>4, NoneAssumption
<1> QED  BY <1>3, <1>6 DEF DoneInvariants, LastFanout

\* PipelineState::restore accepts a copy whose records are in order.
LEMMA RestoreAcceptsOrderly ==
  ASSUME NEW w, Valid(w), ~PickOutOfReach(w), NEW s, StepInv(w, s), Orderly(w, s)
  PROVE  RestoreAccepts(w, s)
<1> DEFINE i == s.stage_index
<1>1. /\ Len_(w) \in Nat /\ Index(w) = 1 .. Len_(w) /\ s \in Copies(w) /\ Records(w, s)
  BY LengthIsNat DEF Valid, StepInv
<1>2. Counted(w, s) /\ Notified(w, s) /\ Open(w, s) /\ Phase(w, s)
  BY DEF Orderly
<1>3. /\ i \in 1 .. Len_(w) + 1
      /\ i = Len_(w) + 1 => s.status = "done"
      /\ s.status = "running" => Attempt(w, s) > 0
      /\ s.status = "pending" => s = NewState(w)
  <2>1. i \in 1 .. Len_(w) + 1
    BY <1>1 DEF Copies
  <2>2. Len_(w) + 1 \notin Index(w)
    BY <1>1
  <2> QED  BY <1>2, <2>1, <2>2 DEF Phase, Open, Attempt
<1>4. ASSUME NEW c \in s.passed_checks
      PROVE  /\ IsKind(w, c.stage, "command")
             /\ \A d \in s.passed_checks : c.stage = d.stage => c = d
  <2>1. s.passed_checks \subseteq PassedCheck
    BY <1>1 DEF Copies
  <2> QED  BY <1>2, <2>1 DEF Counted, PassedCheck
<1>5. ASSUME NEW a \in s.approvals
      PROVE  /\ \A b \in s.approvals : a.stage = b.stage => a = b
             /\ IsKind(w, a.stage, "approval")
             /\ Cardinality(a.reviewers) = w.stages[a.stage].count
             /\ IF w.stages[a.stage].bind_head THEN a.head # None /\ a.patch # None
                ELSE a.head = None /\ a.patch = None
  BY <1>1, <1>2 DEF Counted, Records
<1>6. /\ s.current_head = None <=> s.patch_id = None
      /\ s.pending_head_changes # <<>> => MergeInFlight(w, s)
      /\ s.status = "running" /\ s.approval_reviewers # {} =>
           /\ IsKind(w, i, "approval")
           /\ Cardinality(s.approval_reviewers) < w.stages[i].count
      /\ s.pending_work_reason => IsKind(w, i, "work")
      /\ s.notified_timeout # <<0, 0>> =>
           /\ s.notified_timeout[1] \in Index(w)
           /\ s.notified_timeout[2] \in 1 .. s.attempts[s.notified_timeout[1]]
  BY <1>2 DEF Counted, Notified, Open, Phase
<1>7. MergeInFlight(w, s) => MergeGate(w, s, i)
  <2> SUFFICES ASSUME MergeInFlight(w, s) PROVE MergeGate(w, s, i)
    OBVIOUS
  <2>1. i \in Index(w) /\ IsKind(w, i, "merge") /\ Covered(w, s, i)
    BY DEF StepInv, Position, MergeInFlight, InStage
  <2> QED  BY <2>1, GateOpen
<1>8. s.status = "done" =>
        /\ DoneInvariants(w, s)
        /\ (\E j \in Index(w) : IsKind(w, j, "merge")) => s.merge_commit
  BY <1>2, DoneInvariantsHold DEF Phase, HasMerge
<1> QED  BY <1>3, <1>4, <1>5, <1>6, <1>7, <1>8 DEF RestoreAccepts
=============================================================================
