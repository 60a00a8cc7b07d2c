----------------------- MODULE PipelineRecoveryProofs -----------------------
(***************************************************************************)
(* Crash recovery, for every valid workflow: every operator of the         *)
(* pipeline step that opens an attempt hands out its request and its timer,*)
(* so that what outstanding_actions rebuilds from the stored state is      *)
(* exactly what was handed out for the open attempt.                       *)
(*                                                                         *)
(* The stored state does not contain the actions.  They can be rebuilt     *)
(* because a request is a function of the fields that stay as they are     *)
(* while its attempt is open: whoever changes one of them (a head, the     *)
(* children of a fanout) starts a new attempt, and no attempt is started   *)
(* without its request.                                                    *)
(***************************************************************************)
EXTENDS PipelineRecordProofs

\* The request that is open at the stage of s.
OpenRequest(w, s) ==
  LET r == RequestFor(w, s, s.stage_index)
  IN  IF s.pending_work_reason THEN [r EXCEPT !.kind = "ReturnToWork"] ELSE r

\* What was asked for when the open attempt was started.
Expected(w, s) ==
  {Act("ScheduleTimeout", s.stage_index, s.attempts[s.stage_index]), OpenRequest(w, s)}

\* What S asks of attempt k of stage i.
Concerning(S, i, k) == {a \in Asks(S) : a.stage = i /\ a.attempt = k}

\* Nothing in S is asked of an attempt that is not started yet.
Heard(w, S, at) == \A a \in Asks(S) : a.stage \in Index(w) /\ a.attempt \in 0 .. at[a.stage]

\* An open command has the values it needs.
Filled(w, s) ==
  IsKind(w, s.stage_index, "command") => ~MissingValue(w, s, s.stage_index)

\* With S handed out, s waits for what S asks of its attempt.
Waits(w, S, s) ==
  s.status = "running" =>
    Filled(w, s) /\ Concerning(S, s.stage_index, s.attempts[s.stage_index]) = Expected(w, s)

\* The copy n starts an attempt that the attempts `at' do not count, or ends
\* the task.
Anew(w, at, n) ==
  /\ \A j \in Index(w) : at[j] <= n.attempts[j]
  /\ Heard(w, n.actions, n.attempts)
  /\ Waits(w, n.actions, n)
  /\ n.status = "running" => n.attempts[n.stage_index] > at[n.stage_index]

\* The copy n waits for what s waits for.
Alike(w, s, n) ==
  /\ n.status = s.status /\ n.stage_index = s.stage_index /\ n.attempts = s.attempts
  /\ n.status = "running" =>
       (Filled(w, s) => Filled(w, n)) /\ Expected(w, n) = Expected(w, s)

\* What is shown of every result of step(): what it hands out goes with the
\* attempt it leaves open.
Told(w, s, n) ==
  Anew(w, s.attempts, n) \/ (Alike(w, s, n) /\ Asks(n.actions) = Asks(s.actions))

\* What the world was asked for is what the task waits for.
Asking(w, S, s) == Heard(w, S, s.attempts) /\ Waits(w, S, s)

-----------------------------------------------------------------------------
(* Entering a stage.                                                       *)

\* The fields of a request.
LEMMA RequestForFields ==
  ASSUME NEW w, Valid(w), NEW s, NEW j \in Index(w)
  PROVE  LET r == RequestFor(w, s, j)
         IN  /\ r.kind \in RequestKind /\ (r.kind = "AssignWork" <=> KindAt(w, j) = "work")
             /\ r.stage = j /\ r.attempt = s.attempts[j]
<1>1. w.stages[j] \in Stages
  BY StageType
<1>2. KindAt(w, j) \in StageKind
  BY <1>1 DEF Stages, KindAt
<1> QED  BY <1>2 DEF RequestFor, StageKind, RequestKind

\* A request depends on the attempt, the head and the children only.
LEMMA RequestForSame ==
  ASSUME NEW w, NEW s, NEW n, NEW j, n.attempts[j] = s.attempts[j],
         NeedsHead(w, j) \/ KindAt(w, j) = "fanout" => n.current_head = s.current_head,
         PicksAt(w, j) => n.fanout_children = s.fanout_children
  PROVE  RequestFor(w, n, j) = RequestFor(w, s, j)
  BY DEF RequestFor

\* A request for rework has no other fields than one for work.
LEMMA ReworkRequest ==
  ASSUME NEW w, NEW s, NEW j, KindAt(w, j) = "work"
  PROVE  [RequestFor(w, s, j) EXCEPT !.kind = "ReturnToWork"]
           = Act("ReturnToWork", j, s.attempts[j])
<1>1. ~NeedsHead(w, j) /\ ~PicksAt(w, j)
  BY DEF NeedsHead, IsHeadBound, IsKind, PicksAt
<1> QED  BY <1>1 DEF RequestFor, Act

\* An expectation is never empty, and all of it concerns the open attempt.
LEMMA ExpectedFields ==
  ASSUME NEW w, Valid(w), NEW s, s.stage_index \in Index(w)
  PROVE  /\ Expected(w, s) # {}
         /\ \A a \in Expected(w, s) :
              /\ a.kind \in RequestKind \cup {"ScheduleTimeout"}
              /\ a.stage = s.stage_index /\ a.attempt = s.attempts[s.stage_index]
         /\ OpenRequest(w, s).kind \in RequestKind
<1> DEFINE r == RequestFor(w, s, s.stage_index)
           o == [r EXCEPT !.kind = "ReturnToWork"]
           t == Act("ScheduleTimeout", s.stage_index, s.attempts[s.stage_index])
<1>1. /\ r.kind \in RequestKind
      /\ r.stage = s.stage_index /\ r.attempt = s.attempts[s.stage_index]
  BY RequestForFields
<1>2. DOMAIN r = {"kind", "stage", "attempt", "head", "children"}
  BY DEF RequestFor
<1> HIDE DEF r
<1>3. /\ o.kind = "ReturnToWork"
      /\ o.stage = s.stage_index /\ o.attempt = s.attempts[s.stage_index]
  BY <1>1, <1>2
<1>4. /\ t.kind = "ScheduleTimeout"
      /\ t.stage = s.stage_index /\ t.attempt = s.attempts[s.stage_index]
  BY DEF Act
<1> HIDE DEF o, t
<1>5. Expected(w, s) = {t, IF s.pending_work_reason THEN o ELSE r}
      /\ OpenRequest(w, s) = IF s.pending_work_reason THEN o ELSE r
  BY DEF Expected, OpenRequest, o, t, r
<1> QED  BY <1>1, <1>3, <1>4, <1>5 DEF RequestKind

\* Old requests and the expectation of a new attempt: only the latter concern
\* that attempt.
LEMMA FreshAttempt ==
  ASSUME NEW w, Valid(w), NEW S, NEW at \in [Index(w) -> Nat], Heard(w, S, at),
         NEW n, n.stage_index \in Index(w), n.attempts = OneMore(at, n.stage_index)
  PROVE  /\ Heard(w, S \cup Expected(w, n), n.attempts)
         /\ Concerning(S \cup Expected(w, n), n.stage_index, n.attempts[n.stage_index])
              = Expected(w, n)
<1> DEFINE i == n.stage_index
           E == Expected(w, n)
<1>1. /\ n.attempts \in [Index(w) -> Nat] /\ n.attempts[i] = at[i] + 1
      /\ \A k \in Index(w) : at[k] <= n.attempts[k]
  BY OneMoreProperties
<1>2. \A a \in E : /\ a.kind \in RequestKind \cup {"ScheduleTimeout"}
                   /\ a.stage = i /\ a.attempt = n.attempts[i]
  BY ExpectedFields
<1> HIDE DEF E
<1>3. Asks(S \cup E) = Asks(S) \cup E
  BY <1>2 DEF Asks
<1>4. ASSUME NEW a \in Asks(S)
      PROVE  a.stage \in Index(w) /\ a.attempt \in 0 .. at[a.stage]
  BY DEF Heard
<1>5. ASSUME NEW a \in Asks(S), a.stage = i PROVE a.attempt # n.attempts[i]
  <2>1. a.attempt \in 0 .. at[i] /\ at[i] \in Nat
    BY <1>4, <1>5
  <2> SUFFICES ASSUME a.attempt = n.attempts[i] PROVE FALSE
    OBVIOUS
  <2> QED  BY <1>1, <2>1
<1>6. Concerning(S \cup E, i, n.attempts[i]) = E
  BY <1>2, <1>3, <1>5 DEF Concerning
<1>7. ASSUME NEW a \in Asks(S) PROVE a.attempt \in 0 .. n.attempts[a.stage]
  <2>1. a.stage \in Index(w) /\ a.attempt \in 0 .. at[a.stage]
    BY <1>4
  <2>2. at[a.stage] <= n.attempts[a.stage]
    BY <1>1, <2>1
  <2> QED  BY <1>1, <2>1, <2>2
<1>8. Heard(w, S \cup E, n.attempts)
  <2>1. \A a \in E : a.stage \in Index(w) /\ a.attempt \in 0 .. n.attempts[a.stage]
    BY <1>1, <1>2
  <2> QED  BY <1>3, <1>4, <1>7, <2>1 DEF Heard
<1> QED  BY <1>6, <1>8 DEF E

\* What an attempt was asked stays behind when the attempts move on.
LEMMA HeardLater ==
  ASSUME NEW w, NEW S, NEW T, NEW at \in [Index(w) -> Nat], NEW at2 \in [Index(w) -> Nat],
         Heard(w, S, at), \A k \in Index(w) : at[k] <= at2[k], Asks(T) = Asks(S)
  PROVE  Heard(w, T, at2)
<1> SUFFICES ASSUME NEW a \in Asks(S)
             PROVE  a.stage \in Index(w) /\ a.attempt \in 0 .. at2[a.stage]
  BY DEF Heard
<1>1. a.stage \in Index(w) /\ a.attempt \in 0 .. at[a.stage]
  BY DEF Heard
<1> QED  BY <1>1

\* The end of a task asks for nothing.
LEMMA FailTaskAsks ==
  ASSUME NEW w, NEW s \in Copies(w), NEW stage
  PROVE  Asks(FailTask(s, stage).actions) = Asks(s.actions)
<1> DEFINE f == [s EXCEPT !.status = "failed"]
           c == ClearPartial(f)
           act == Act("TaskFailed", stage, 0)
<1>1. f \in Copies(w) /\ f.actions = s.actions
  BY DEF Copies, Status
<1>2. c \in Copies(w) /\ c.actions = s.actions
  BY <1>1, ClearPartialProperties
<1>3. act.kind = "TaskFailed"
  BY DEF Act
<1> HIDE DEF c, act
<1>4. FailTask(s, stage).actions = s.actions \cup {act}
  BY <1>2 DEF FailTask, Emit, c, act, Copies
<1> QED  BY <1>3, <1>4 DEF Asks, RequestKind

\* A failed task asks for nothing and waits for nothing.
LEMMA FailTaskAnew ==
  ASSUME NEW w, NEW s \in Copies(w), NEW stage, Heard(w, s.actions, s.attempts)
  PROVE  Anew(w, s.attempts, FailTask(s, stage))
<1> DEFINE n == FailTask(s, stage)
<1>1. n.status = "failed" /\ n.attempts = s.attempts /\ Asks(n.actions) = Asks(s.actions)
  BY FailTaskFields, FailTaskAsks
<1>2. s.attempts \in [Index(w) -> Nat]
  BY DEF Copies
<1> HIDE DEF n
<1>3. Heard(w, n.actions, n.attempts)
  BY <1>1 DEF Heard
<1> QED  BY <1>1, <1>2, <1>3 DEF Anew, Waits, n

\* The request of a stage as it is entered: of what the entry puts into the
\* copy it only reads the attempt.
LEMMA BeginAttemptAnew ==
  ASSUME NEW w, Valid(w), NEW s \in Copies(w), s.status = "running",
         NEW j \in Index(w), Heard(w, s.actions, s.attempts),
         BeginAttempt(w, s, j).status # "refused"
  PROVE  Anew(w, s.attempts, BeginAttempt(w, s, j))
<1> DEFINE c == ClearPartial(s)
           n == [c EXCEPT !.stage_index = j, !.pending_work_reason = FALSE,
                          !.attempts = OneMore(@, j)]
           E == {Act("ScheduleTimeout", j, n.attempts[j]), RequestFor(w, n, j)}
           e == Emit(n, E)
           b == BeginAttempt(w, s, j)
<1>1. s.attempts \in [Index(w) -> Nat] /\ j \in Nat
  BY DEF Copies, Index, Valid, IsWorkflow
<1>2. c \in Copies(w) /\ c.attempts = s.attempts /\ c.actions = s.actions /\ c.status = s.status
  BY ClearPartialProperties
<1>3. /\ OneMore(s.attempts, j) \in [Index(w) -> Nat]
      /\ OneMore(s.attempts, j)[j] = s.attempts[j] + 1
      /\ \A k \in Index(w) : s.attempts[k] <= OneMore(s.attempts, j)[k]
  BY <1>1, OneMoreProperties
<1> HIDE DEF c
<1>4. /\ n.stage_index = j /\ ~n.pending_work_reason /\ n.attempts = OneMore(s.attempts, j)
      /\ n.actions = s.actions /\ n.status = "running"
  BY <1>2 DEF Copies
<1>5. b = IF IsKind(w, j, "command") /\ MissingValue(w, n, j) THEN FailTask(n, j)
          ELSE IF IsKind(w, j, "merge") /\ ~MergeGate(w, n, j) THEN Refused(n)
          ELSE e
  BY DEF BeginAttempt, c
<1>6. n \in Copies(w)
  <2>1. j \in 1 .. Len_(w) + 1
    BY <1>1 DEF Index, Valid, IsWorkflow, Len_
  <2> QED  BY <1>2, <1>3, <2>1, ZenonT(60) DEF Copies
<1> HIDE DEF n
<1>7. CASE IsKind(w, j, "command") /\ MissingValue(w, n, j)
  <2>1. b = FailTask(n, j)
    BY <1>5, <1>7
  <2>2. b.status = "failed" /\ b.attempts = n.attempts
    BY <1>6, <2>1, FailTaskFields
  <2>3. Asks(b.actions) = Asks(n.actions)
    BY <1>6, <2>1, FailTaskAsks
  <2>4. Asks(b.actions) = Asks(s.actions)
    BY <1>4, <2>3
  <2>5. Heard(w, b.actions, b.attempts)
    BY <1>1, <1>3, <1>4, <2>2, <2>4, HeardLater
  <2> QED  BY <1>3, <1>4, <2>2, <2>5 DEF Anew, Waits
<1>8. CASE ~(IsKind(w, j, "command") /\ MissingValue(w, n, j))
  <2>1. b = e
    <3>1. Refused(n).status = "refused"
      BY <1>6 DEF Refused, Copies
    <3> QED  BY <1>5, <1>8, <3>1
  <2>2. /\ e.attempts = n.attempts /\ e.stage_index = j /\ e.status = "running"
        /\ e.pending_work_reason = n.pending_work_reason
        /\ Same(n, e) /\ SameFanout(n, e)
    BY <1>4, <1>6, EmitFields
  <2>3. e.actions = s.actions \cup E /\ e.change_id = n.change_id
    BY <1>4, <1>6 DEF Emit, Copies
  <2> HIDE DEF e
  <2>4. RequestFor(w, e, j) = RequestFor(w, n, j)
    BY <2>2, RequestForSame DEF Same, SameFanout
  <2>5. Expected(w, e) = E
    BY <1>4, <2>2, <2>4 DEF Expected, OpenRequest
  <2>6. Filled(w, e)
    BY <1>8, <2>2, <2>3 DEF Filled, MissingValue, Same
  <2>7. /\ Heard(w, e.actions, e.attempts)
        /\ Concerning(e.actions, j, e.attempts[j]) = Expected(w, e)
    BY <1>1, <1>4, <2>2, <2>3, <2>5, FreshAttempt
  <2>8. e.attempts[j] > s.attempts[j]
    BY <1>1, <1>3, <1>4, <2>2
  <2> QED  BY <1>3, <1>4, <2>1, <2>2, <2>6, <2>7, <2>8 DEF Anew, Waits
<1> QED  BY <1>7, <1>8

\* The loop of enter_stage keeps the actions of the copy it is given.
LEMMA ResetFanoutActions ==
  ASSUME NEW w, NEW s \in Copies(w), NEW j
  PROVE  ResetFanoutAt(w, s, j).actions = s.actions
<1> DEFINE c == ClearFanout(s)
           n == [c EXCEPT !.approvals = {a \in @ : a.stage < j}]
<1>1. "actions" \in DOMAIN c /\ c.actions = s.actions
  BY DEF ClearFanout, Copies
<1> HIDE DEF c
<1>2. n.actions = c.actions
  BY <1>1
<1>3. ResetFanoutAt(w, s, j) = IF IsKind(w, j, "fanout") THEN n ELSE s
  BY DEF ResetFanoutAt, c
<1> HIDE DEF n
<1> QED  BY <1>1, <1>2, <1>3

\* A task that is done asks for nothing and waits for nothing.
LEMMA FinishTaskAnew ==
  ASSUME NEW w, Valid(w), NEW s \in Copies(w), s.status = "running",
         Heard(w, s.actions, s.attempts), NEW b \in BOOLEAN
  PROVE  Anew(w, s.attempts, FinishTask(w, s, b))
<1> DEFINE c == ClearPartial(s)
           m == [c EXCEPT !.pending_work_reason = FALSE]
           n == IF b THEN m ELSE s
           o == [n EXCEPT !.stage_index = Len_(w) + 1, !.status = "done"]
           act == Act("TaskDone", 0, 0)
           f == FinishTask(w, s, b)
<1>1. s.attempts \in [Index(w) -> Nat]
  BY DEF Copies
<1>2. c \in Copies(w) /\ c.attempts = s.attempts /\ c.actions = s.actions
  BY ClearPartialProperties
<1> HIDE DEF c
<1>3. m \in Copies(w) /\ m.attempts = s.attempts /\ m.actions = s.actions
  BY <1>2 DEF Copies
<1>4. n \in Copies(w) /\ n.attempts = s.attempts /\ n.actions = s.actions
  BY <1>3
<1>5. f = [o EXCEPT !.actions = @ \cup {act}]
  BY DEF FinishTask, Emit, c
<1> HIDE DEF n
<1>6. /\ DOMAIN o = DOMAIN n /\ "actions" \in DOMAIN n
      /\ o.attempts = s.attempts /\ o.actions = s.actions /\ o.status = "done"
  BY <1>4 DEF Copies
<1>7. act.kind = "TaskDone"
  BY DEF Act
<1> HIDE DEF o, act
<1>8. f.attempts = s.attempts /\ f.actions = s.actions \cup {act} /\ f.status = "done"
  BY <1>5, <1>6
<1>9. Asks(f.actions) = Asks(s.actions)
  BY <1>7, <1>8 DEF Asks, RequestKind
<1>10. Heard(w, f.actions, f.attempts)
  BY <1>8, <1>9 DEF Heard
<1> QED  BY <1>1, <1>8, <1>10 DEF Anew, Waits

\* Whatever stage is entered, its request is handed out with its attempt.
LEMMA EnterStageAnew ==
  ASSUME NEW w, Valid(w), NEW s \in Copies(w), s.status = "running",
         NEW i \in 1 .. Len_(w) + 1, Heard(w, s.actions, s.attempts),
         EnterStage(w, s, i).status # "refused"
  PROVE  Anew(w, s.attempts, EnterStage(w, s, i))
<1> DEFINE j == EntryStage(w, s, i)
           r == ResetFanoutAt(w, s, j)
<1>1. j \in i .. Len_(w) + 1 /\ Len_(w) \in Nat
  BY EntryStageProperties DEF Valid, IsWorkflow, Len_
<1>2. CASE j > Len_(w)
  <2> DEFINE b == i <= Len_(w)
  <2>1. EnterStage(w, s, i) = FinishTask(w, s, b) /\ b \in BOOLEAN
    BY <1>2 DEF EnterStage
  <2> HIDE DEF b
  <2>2. Anew(w, s.attempts, FinishTask(w, s, b))
    BY <2>1, FinishTaskAnew
  <2> QED  BY <2>1, <2>2
<1>3. CASE ~(j > Len_(w))
  <2>1. j \in Index(w)
    BY <1>1, <1>3 DEF Index
  <2>2. EnterStage(w, s, i) = BeginAttempt(w, r, j)
    BY <1>3 DEF EnterStage
  <2> HIDE DEF j
  <2>3. r \in Copies(w) /\ r.status = "running" /\ r.attempts = s.attempts
    BY ResetFanoutFields
  <2>4. r.actions = s.actions
    BY ResetFanoutActions
  <2> HIDE DEF r
  <2>5. Anew(w, r.attempts, BeginAttempt(w, r, j))
    BY <2>1, <2>2, <2>3, <2>4, BeginAttemptAnew
  <2> QED  BY <2>2, <2>3, <2>5
<1> QED  BY <1>2, <1>3

\* Forgetting the children leaves status, attempts and actions alone.
LEMMA ClearFanoutFields ==
  ASSUME NEW w, NEW s \in Copies(w)
  PROVE  LET n == ClearFanout(s)
         IN  /\ n \in Copies(w)
             /\ n.status = s.status /\ n.attempts = s.attempts /\ n.actions = s.actions
<1> DEFINE none == {}
<1>1. none \in SUBSET Children /\ None \in Option(Children)
  BY DEF Option
<1> HIDE DEF none
<1>2. ClearFanout(s) = [s EXCEPT !.fanout_children = none, !.selected_child = None]
  BY DEF ClearFanout, none
<1> QED  BY <1>1, <1>2, ZenonT(60) DEF Copies

\* Rework is handed out like work, with its own kind.
LEMMA ReturnToWorkAnew ==
  ASSUME NEW w, Valid(w), NEW s \in Copies(w), s.status = "running",
         NEW target \in Index(w), IsKind(w, target, "work"),
         Heard(w, s.actions, s.attempts)
  PROVE  Anew(w, s.attempts, ReturnToWork(w, s, target))
<1> DEFINE f == ForgetFrom(w, s, target)
           c == ClearFanout(f)
           g == IF FanoutAtOrAfter(w, target) THEN c ELSE f
           n == [g EXCEPT !.work_product = None, !.pending_work_reason = TRUE,
                          !.stage_index = target, !.attempts = OneMore(@, target)]
           E == {Act("ScheduleTimeout", target, n.attempts[target]),
                 Act("ReturnToWork", target, n.attempts[target])}
           e == ReturnToWork(w, s, target)
<1>1. s.attempts \in [Index(w) -> Nat]
  BY DEF Copies
<1>2. f \in Copies(w) /\ f.attempts = s.attempts /\ f.actions = s.actions /\ f.status = "running"
  BY ForgetFromProperties DEF Frame
<1> HIDE DEF f
<1>3. c \in Copies(w) /\ c.attempts = s.attempts /\ c.actions = s.actions /\ c.status = "running"
  BY <1>2, ClearFanoutFields
<1> HIDE DEF c
<1>4. g \in Copies(w) /\ g.attempts = s.attempts /\ g.actions = s.actions /\ g.status = "running"
  BY <1>2, <1>3
<1>5. e = [n EXCEPT !.actions = @ \cup E]
  BY DEF ReturnToWork, Emit, f, c
<1> HIDE DEF g
<1>6. /\ n.stage_index = target /\ n.pending_work_reason
      /\ n.attempts = OneMore(s.attempts, target)
      /\ n.actions = s.actions /\ n.status = "running"
      /\ {"stage_index", "pending_work_reason", "attempts", "actions", "status"} \subseteq DOMAIN n
  BY <1>4 DEF Copies
<1> HIDE DEF n
<1>7. /\ e.stage_index = target /\ e.pending_work_reason /\ e.attempts = n.attempts
      /\ e.actions = s.actions \cup E /\ e.status = "running"
  BY <1>5, <1>6
<1> HIDE DEF e
<1>8. Expected(w, e) = E
  <2>1. KindAt(w, target) = "work"
    BY DEF IsKind
  <2>2. OpenRequest(w, e) = Act("ReturnToWork", target, e.attempts[target])
    BY <1>7, <2>1, ReworkRequest DEF OpenRequest
  <2> QED  BY <1>7, <2>2 DEF Expected
<1>9. /\ OneMore(s.attempts, target)[target] = s.attempts[target] + 1
      /\ \A k \in Index(w) : s.attempts[k] <= OneMore(s.attempts, target)[k]
  BY <1>1, OneMoreProperties
<1>10. /\ Heard(w, e.actions, e.attempts)
       /\ Concerning(e.actions, target, e.attempts[target]) = Expected(w, e)
  BY <1>1, <1>6, <1>7, <1>8, FreshAttempt
<1>11. Filled(w, e)
  BY <1>7 DEF Filled, IsKind
<1>12. e.attempts[target] > s.attempts[target]
  BY <1>1, <1>6, <1>7, <1>9
<1>13. Waits(w, e.actions, e)
  BY <1>7, <1>10, <1>11 DEF Waits
<1> QED  BY <1>6, <1>7, <1>9, <1>10, <1>12, <1>13 DEF Anew, e

-----------------------------------------------------------------------------
(* Head changes.                                                           *)

\* At work and submit stages nothing that is asked for names a head.
LEMMA AlikeAtWork ==
  ASSUME NEW w, NEW s, NEW n, KindAt(w, s.stage_index) \in {"work", "submit"},
         n.status = s.status, n.stage_index = s.stage_index, n.attempts = s.attempts,
         n.pending_work_reason = s.pending_work_reason
  PROVE  Alike(w, s, n)
<1> DEFINE i == s.stage_index
<1>1. ~NeedsHead(w, i) /\ ~PicksAt(w, i) /\ KindAt(w, i) # "fanout" /\ ~IsKind(w, i, "command")
  BY DEF NeedsHead, IsHeadBound, IsKind, PicksAt
<1>2. RequestFor(w, n, i) = RequestFor(w, s, i)
  BY <1>1, RequestForSame
<1>3. Expected(w, n) = Expected(w, s)
  BY <1>2 DEF Expected, OpenRequest
<1> QED  BY <1>1, <1>3 DEF Alike, Filled

\* What is asked for depends on no other fields than these.
Silent(s, n) ==
  /\ n.status = s.status /\ n.stage_index = s.stage_index /\ n.attempts = s.attempts
  /\ n.branch = s.branch /\ n.current_head = s.current_head /\ n.change_id = s.change_id
  /\ n.fanout_children = s.fanout_children
  /\ n.pending_work_reason = s.pending_work_reason

\* A step that changes none of the fields a request reads asks for nothing.
LEMMA SilentAlike ==
  ASSUME NEW w, NEW s, NEW n, Silent(s, n)
  PROVE  Alike(w, s, n)
<1>1. RequestFor(w, n, s.stage_index) = RequestFor(w, s, s.stage_index)
  BY RequestForSame DEF Silent
<1>2. Expected(w, n) = Expected(w, s)
  BY <1>1 DEF Expected, OpenRequest, Silent
<1>3. Filled(w, s) => Filled(w, n)
  BY DEF Filled, MissingValue, Silent
<1> QED  BY <1>2, <1>3 DEF Alike, Silent

\* A task is alike to itself.
LEMMA AlikeSelf ==
  ASSUME NEW w, NEW s
  PROVE  Alike(w, s, s)
  BY DEF Alike

\* A new head starts an attempt, except at work and submit stages.
LEMMA RecheckForNewHeadAnew ==
  ASSUME NEW w, Valid(w), NEW n \in Copies(w), n.status = "running",
         n.stage_index \in Index(w), Heard(w, n.actions, n.attempts),
         RecheckForNewHead(w, n).status # "refused"
  PROVE  \/ Anew(w, n.attempts, RecheckForNewHead(w, n))
         \/ /\ RecheckForNewHead(w, n) = n
            /\ KindAt(w, n.stage_index) \in {"work", "submit"}
<1> DEFINE i == n.stage_index
           t == RecheckTarget(w, i)
<1>1. Len_(w) \in Nat /\ Index(w) = 1 .. Len_(w)
  BY LengthIsNat DEF Valid
<1>2. RecheckForNewHead(w, n) = IF t # 0 THEN EnterStage(w, n, t) ELSE RestartIfCollected(w, n)
  BY DEF RecheckForNewHead
<1>3. t # 0 => t \in Index(w)
  BY RecheckTargetProperties
<1>4. ASSUME NEW j \in Index(w), RecheckForNewHead(w, n) = EnterStage(w, n, j)
      PROVE  Anew(w, n.attempts, RecheckForNewHead(w, n))
  <2>1. j \in 1 .. Len_(w) + 1
    BY <1>1
  <2> QED  BY <1>4, <2>1, EnterStageAnew
<1>5. CASE t # 0
  BY <1>2, <1>3, <1>4, <1>5
<1>6. CASE t = 0
  <2>1. ~IsKind(w, i, "command") /\ ~IsKind(w, i, "merge")
    BY <1>6, CommandRecheckTarget, MergeRecheckTarget
  <2>2. RecheckForNewHead(w, n) =
          IF InStage(w, n, "approval") \/ InStage(w, n, "fanout")
          THEN EnterStage(w, n, i) ELSE n
    BY <1>2, <1>6 DEF RestartIfCollected
  <2> HIDE DEF t
  <2>3. CASE InStage(w, n, "approval") \/ InStage(w, n, "fanout")
    BY <1>4, <2>2, <2>3
  <2>4. CASE ~(InStage(w, n, "approval") \/ InStage(w, n, "fanout"))
    <3>1. w.stages[i] \in Stages
      BY StageType
    <3>2. KindAt(w, i) \in StageKind
      BY <3>1 DEF Stages, KindAt
    <3>3. KindAt(w, i) \in {"work", "submit"}
      BY <2>1, <2>4, <3>2 DEF StageKind, InStage, IsKind
    <3> QED  BY <2>2, <2>4, <3>3
  <2> QED  BY <2>3, <2>4
<1> QED  BY <1>5, <1>6

\* What is shown of a head change, which hands nothing out where it starts
\* nothing.
Redone(w, s, n) ==
  Anew(w, s.attempts, n) \/ (Alike(w, s, n) /\ n.actions = s.actions)

\* A copy m of s with another head.
LEMMA RecheckRedone ==
  ASSUME NEW w, Valid(w), NEW s, s.status = "running", s.stage_index \in Index(w),
         Heard(w, s.actions, s.attempts),
         NEW m \in Copies(w), m.status = "running", m.stage_index = s.stage_index,
         m.attempts = s.attempts, m.actions = s.actions,
         m.pending_work_reason = s.pending_work_reason,
         RecheckForNewHead(w, m).status # "refused"
  PROVE  Redone(w, s, RecheckForNewHead(w, m))
<1>1. \/ Anew(w, m.attempts, RecheckForNewHead(w, m))
      \/ /\ RecheckForNewHead(w, m) = m
         /\ KindAt(w, m.stage_index) \in {"work", "submit"}
  BY RecheckForNewHeadAnew
<1>2. KindAt(w, m.stage_index) \in {"work", "submit"} => Alike(w, s, m)
  BY AlikeAtWork
<1> QED  BY <1>1, <1>2 DEF Redone

\* The main branch moved: the head is replaced, or the task is sent back, or
\* gives up.
LEMMA MainAdvancedRedone ==
  ASSUME NEW w, Valid(w), NEW s, StepInv(w, s), s.status = "running",
         Heard(w, s.actions, s.attempts),
         NEW head \in Heads, NEW patch \in Patches, NEW conflict \in BOOLEAN
  PROVE  Redone(w, s, MainAdvanced(w, s, head, patch, conflict))
<1> DEFINE i == s.stage_index
           n == IF conflict THEN InvalidateHeadBound(w, s)
                ELSE RecordNewHead(w, s, head, patch)
           work == PreviousWork(w, i)
           result == MainAdvanced(w, s, head, patch, conflict)
<1> SUFFICES Redone(w, s, result)
  OBVIOUS
<1>1. /\ s \in Copies(w) /\ i \in Index(w) /\ Records(w, s)
      /\ Covered(w, s, i) /\ Settled(w, s, i)
  BY DEF StepInv, Position
<1>2. result.status # "refused"
  <2>1. StepInv(w, result)
    BY MainAdvancedStepInv
  <2> HIDE DEF result
  <2> QED  BY <2>1 DEF StepInv
<1>3. Redone(w, s, s)
  BY AlikeSelf DEF Redone
<1>4. ~s.branch \/ (~conflict /\ s.current_head = head) => result = s
  BY DEF MainAdvanced
<1>5. CASE ~s.branch \/ (~conflict /\ s.current_head = head)
  BY <1>3, <1>4, <1>5
<1>6. CASE ~(~s.branch \/ (~conflict /\ s.current_head = head))
  <2>1. s.current_head # None
    BY <1>1, <1>6 DEF Records
  <2>2. result =
          IF KindAt(w, i) \in {"work", "submit"} THEN
            IF conflict THEN s ELSE RecheckForNewHead(w, RecordNewHead(w, s, head, patch))
          ELSE IF ~conflict /\ patch = ApprovedPatch(s) THEN KeepApprovals(w, s, head, patch)
          ELSE IF work # 0 THEN ReturnToWork(w, n, work) ELSE FailTask(n, i)
    BY <1>6, <2>1 DEF MainAdvanced
  <2>3. /\ n \in Copies(w) /\ n.status = "running" /\ n.stage_index = i
        /\ n.attempts = s.attempts /\ n.actions = s.actions
        /\ n.pending_work_reason = s.pending_work_reason
    <3>1. CASE conflict
      <4>1. n = InvalidateHeadBound(w, s)
        BY <3>1
      <4> HIDE DEF n
      <4> QED  BY <1>1, <4>1, InvalidateHeadBoundProperties, InvalidateHeadBoundFields DEF Frame
    <3>2. CASE ~conflict
      <4>1. n = RecordNewHead(w, s, head, patch)
        BY <3>2
      <4> HIDE DEF n
      <4> QED  BY <1>1, <4>1, RecordNewHeadProperties, RecordNewHeadFields
    <3> QED  BY <3>1, <3>2
  <2>4. ~conflict => n = RecordNewHead(w, s, head, patch)
    OBVIOUS
  <2> HIDE DEF n, result
  <2>5. Heard(w, n.actions, n.attempts)
    BY <2>3
  <2>6. CASE ~conflict /\ result = RecheckForNewHead(w, RecordNewHead(w, s, head, patch))
    BY <1>1, <1>2, <2>3, <2>4, <2>6, RecheckRedone
  <2>7. CASE /\ ~conflict /\ patch = ApprovedPatch(s)
             /\ result = KeepApprovals(w, s, head, patch)
    <3>1. s.current_head # head
      BY <1>6, <2>7
    <3>2. PICK m \in Copies(w) :
            /\ KeepApprovals(w, s, head, patch) = RecheckForNewHead(w, m)
            /\ Rebased(w, s, m, head, patch)
      BY <1>1, <2>1, <2>7, <3>1, KeepApprovalsProperties
    <3> QED  BY <1>1, <1>2, <2>7, <3>2, RecheckRedone DEF Rebased
  <2>8. CASE work # 0 /\ result = ReturnToWork(w, n, work)
    <3>1. work \in Index(w) /\ IsKind(w, work, "work")
      BY <1>1, <2>8, PreviousWorkProperties
    <3> HIDE DEF work
    <3>2. Anew(w, n.attempts, result)
      BY <2>3, <2>5, <2>8, <3>1, ReturnToWorkAnew
    <3> QED  BY <2>3, <3>2 DEF Redone
  <2>9. CASE result = FailTask(n, i)
    BY <2>3, <2>5, <2>9, FailTaskAnew DEF Redone
  <2>10. CASE result = s
    BY <1>3, <2>10
  <2> QED  BY <2>2, <2>6, <2>7, <2>8, <2>9, <2>10
<1> QED  BY <1>5, <1>6

\* Any head change.
LEMMA ApplyHeadChangeRedone ==
  ASSUME NEW w, Valid(w), NEW s, StepInv(w, s), Heard(w, s.actions, s.attempts),
         NEW c \in HeadChange
  PROVE  Redone(w, s, ApplyHeadChange(w, s, c))
<1> DEFINE result == ApplyHeadChange(w, s, c)
<1> SUFFICES Redone(w, s, result)
  OBVIOUS
<1>1. c.head \in Heads /\ c.patch \in Patches /\ c.conflict \in BOOLEAN
  BY DEF HeadChange
<1>2. result.status # "refused"
  <2>1. StepInv(w, result)
    BY ApplyHeadChangeStepInv
  <2> HIDE DEF result
  <2> QED  BY <2>1 DEF StepInv
<1>3. Redone(w, s, s)
  BY AlikeSelf DEF Redone
<1>4. CASE s.status # "running" \/ (c.kind # "main" /\ s.current_head = c.head)
  BY <1>3, <1>4 DEF ApplyHeadChange
<1>5. CASE s.status = "running" /\ c.kind = "main"
  <2>1. Redone(w, s, MainAdvanced(w, s, c.head, c.patch, c.conflict))
    BY <1>1, <1>5, MainAdvancedRedone
  <2> QED  BY <1>5, <2>1 DEF ApplyHeadChange
<1>6. CASE s.status = "running" /\ c.kind # "main" /\ s.current_head # c.head
  <2> DEFINE m == RecordNewHead(w, s, c.head, c.patch)
  <2>1. s \in Copies(w) /\ s.stage_index \in Index(w)
    BY <1>6 DEF StepInv, Position
  <2>2. /\ m \in Copies(w) /\ m.status = "running" /\ m.stage_index = s.stage_index
        /\ m.attempts = s.attempts /\ m.actions = s.actions
        /\ m.pending_work_reason = s.pending_work_reason
    BY <1>1, <1>6, <2>1, RecordNewHeadProperties, RecordNewHeadFields
  <2>3. result = RecheckForNewHead(w, m)
    BY <1>6 DEF ApplyHeadChange
  <2> HIDE DEF m, result
  <2> QED  BY <1>2, <1>6, <2>1, <2>2, <2>3, RecheckRedone
<1> QED  BY <1>4, <1>5, <1>6

\* What a copy asks for does not depend on the actions it has handed out.
LEMMA AlikeActions ==
  ASSUME NEW w, NEW s \in Copies(w), NEW A
  PROVE  Alike(w, s, [s EXCEPT !.actions = A]) /\ [s EXCEPT !.actions = A].actions = A
<1> DEFINE n == [s EXCEPT !.actions = A]
<1>1. Silent(s, n) /\ n.actions = A
  BY DEF Copies, Silent
<1> HIDE DEF n
<1> QED  BY <1>1, SilentAlike DEF n

-----------------------------------------------------------------------------
(* Chains of changes: the head changes that were recorded during a merge.  *)

\* A copy that is alike to the result of a step is as good as that result.
LEMMA ToldAlike ==
  ASSUME NEW w, NEW s, NEW f, NEW n, Told(w, s, f), Alike(w, f, n),
         Asks(n.actions) = Asks(f.actions)
  PROVE  Told(w, s, n)
<1>1. /\ n.status = f.status /\ n.stage_index = f.stage_index /\ n.attempts = f.attempts
      /\ n.status = "running" =>
           (Filled(w, f) => Filled(w, n)) /\ Expected(w, n) = Expected(w, f)
  BY DEF Alike
<1>2. CASE Anew(w, s.attempts, f)
  <2>1. Heard(w, n.actions, n.attempts)
    BY <1>1, <1>2 DEF Anew, Heard
  <2>2. Waits(w, n.actions, n)
    <3> SUFFICES ASSUME n.status = "running" PROVE Waits(w, n.actions, n)
      BY DEF Waits
    <3>1. /\ Filled(w, f)
          /\ Concerning(f.actions, f.stage_index, f.attempts[f.stage_index]) = Expected(w, f)
      BY <1>1, <1>2 DEF Anew, Waits
    <3>2. Concerning(n.actions, f.stage_index, f.attempts[f.stage_index])
            = Concerning(f.actions, f.stage_index, f.attempts[f.stage_index])
      BY DEF Concerning
    <3> QED  BY <1>1, <3>1, <3>2 DEF Waits
  <2> QED  BY <1>1, <1>2, <2>1, <2>2 DEF Anew, Told
<1>3. CASE Alike(w, s, f) /\ Asks(f.actions) = Asks(s.actions)
  BY <1>1, <1>3 DEF Alike, Told
<1> QED  BY <1>2, <1>3 DEF Told

\* After a step the attempts have not gone back, and all of it is heard.
LEMMA ToldHeard ==
  ASSUME NEW w, NEW s \in Copies(w), Heard(w, s.actions, s.attempts), NEW f, Told(w, s, f)
  PROVE  /\ \A j \in Index(w) : s.attempts[j] <= f.attempts[j]
         /\ Heard(w, f.actions, f.attempts)
<1>1. s.attempts \in [Index(w) -> Nat]
  BY DEF Copies
<1>2. CASE Anew(w, s.attempts, f)
  BY <1>2 DEF Anew
<1>3. CASE Alike(w, s, f) /\ Asks(f.actions) = Asks(s.actions)
  BY <1>1, <1>3 DEF Alike, Heard
<1> QED  BY <1>2, <1>3 DEF Told

\* What starts a new attempt after a step has started one since before it.
LEMMA AnewLater ==
  ASSUME NEW w, NEW s \in Copies(w), Heard(w, s.actions, s.attempts),
         NEW f \in Copies(w), Told(w, s, f),
         NEW g \in Copies(w), g.status = "running" => g.stage_index \in Index(w),
         Anew(w, f.attempts, g)
  PROVE  Anew(w, s.attempts, g)
<1>1. /\ s.attempts \in [Index(w) -> Nat] /\ f.attempts \in [Index(w) -> Nat]
      /\ g.attempts \in [Index(w) -> Nat]
  BY DEF Copies
<1>2. \A j \in Index(w) : s.attempts[j] <= f.attempts[j]
  BY ToldHeard
<1>3. \A j \in Index(w) : f.attempts[j] <= g.attempts[j]
  BY DEF Anew
<1>4. \A j \in Index(w) : s.attempts[j] <= g.attempts[j]
  BY <1>1, <1>2, <1>3
<1>5. ASSUME g.status = "running"
      PROVE  g.attempts[g.stage_index] > s.attempts[g.stage_index]
  <2>1. g.stage_index \in Index(w) /\ g.attempts[g.stage_index] > f.attempts[g.stage_index]
    BY <1>5 DEF Anew
  <2> QED  BY <1>1, <1>2, <2>1
<1> QED  BY <1>4, <1>5 DEF Anew

\* A running copy that starts an attempt hands something out.
LEMMA AnewHandsOut ==
  ASSUME NEW w, Valid(w), NEW at, NEW g, Anew(w, at, g), g.actions = {},
         g.status = "running" => g.stage_index \in Index(w)
  PROVE  g.status # "running"
<1> SUFFICES ASSUME g.status = "running" PROVE FALSE
  OBVIOUS
<1>1. Concerning(g.actions, g.stage_index, g.attempts[g.stage_index]) = Expected(w, g)
  BY DEF Anew, Waits
<1>2. Expected(w, g) # {}
  BY ExpectedFields
<1> QED  BY <1>1, <1>2 DEF Concerning, Asks

\* One recorded change: the last one that asks for something speaks, and none
\* of them falls silent over what an earlier one asked for.
LEMMA ApplyPendingTold ==
  ASSUME NEW w, Valid(w), NEW s \in Copies(w), Heard(w, s.actions, s.attempts),
         NEW f, StepInv(w, f), Told(w, s, f), NEW c \in HeadChange
  PROVE  Told(w, s, ApplyPending(w, f, c))
<1> DEFINE none == {}
           A == f.actions
           h == [f EXCEPT !.actions = none]
           g == ApplyHeadChange(w, h, c)
           q == [g EXCEPT !.actions = A]
           r == ApplyPending(w, f, c)
<1> SUFFICES Told(w, s, r)
  OBVIOUS
<1>1. r = IF g.actions = {} THEN q ELSE g
  BY DEF ApplyPending
<1> HIDE DEF r
<1>2. f \in Copies(w) /\ none \in SUBSET Action /\ none = {}
  BY DEF StepInv
<1> HIDE DEF none
<1>3. StepInv(w, h)
  BY <1>2, SetActionsStepInv
<1>4. h \in Copies(w) /\ Alike(w, f, h) /\ h.actions = {}
  BY <1>2, <1>3, AlikeActions DEF StepInv
<1>5. h.attempts = f.attempts
  BY <1>4 DEF Alike
<1> HIDE DEF h
<1>6. Heard(w, h.actions, h.attempts)
  BY <1>4 DEF Heard, Asks
<1>7. StepInv(w, g) /\ Redone(w, h, g)
  BY <1>3, <1>6, ApplyHeadChangeStepInv, ApplyHeadChangeRedone
<1>8. g \in Copies(w) /\ (g.status = "running" => g.stage_index \in Index(w))
  BY <1>7 DEF StepInv, Position
<1> HIDE DEF g
<1>9. Alike(w, g, q) /\ q.actions = f.actions
  BY <1>8, AlikeActions
<1> HIDE DEF q
<1>10. /\ \A j \in Index(w) : s.attempts[j] <= f.attempts[j]
       /\ Heard(w, f.actions, f.attempts)
  BY ToldHeard
<1>11. CASE Anew(w, h.attempts, g)
  <2>1. Anew(w, s.attempts, g)
    BY <1>2, <1>5, <1>8, <1>11, AnewLater
  <2>2. CASE g.actions # {}
    BY <1>1, <2>1, <2>2 DEF Told
  <2>3. CASE g.actions = {}
    <3>1. g.status # "running"
      BY <1>8, <2>1, <2>3, AnewHandsOut
    <3>2. q.status = g.status /\ q.attempts = g.attempts
      BY <1>9 DEF Alike
    <3>3. \A j \in Index(w) : f.attempts[j] <= g.attempts[j]
      BY <1>5, <1>11 DEF Anew
    <3>4. f.attempts \in [Index(w) -> Nat] /\ g.attempts \in [Index(w) -> Nat]
      BY <1>2, <1>8 DEF Copies
    <3>5. Heard(w, f.actions, g.attempts)
      BY <1>10, <3>3, <3>4, HeardLater
    <3>6. Heard(w, q.actions, q.attempts)
      BY <1>9, <3>2, <3>5
    <3>7. Anew(w, s.attempts, q)
      BY <2>1, <3>1, <3>2, <3>6 DEF Anew, Waits
    <3> QED  BY <1>1, <2>3, <3>7 DEF Told
  <2> QED  BY <2>2, <2>3
<1>12. CASE Alike(w, h, g) /\ g.actions = h.actions
  <2>1. Alike(w, f, q)
    BY <1>4, <1>9, <1>12 DEF Alike
  <2> QED  BY <1>1, <1>4, <1>9, <1>12, <2>1, ToldAlike
<1> QED  BY <1>7, <1>11, <1>12 DEF Redone

\* All of them.
LEMMA DrainedTold ==
  ASSUME NEW w, Valid(w), NEW s, StepInv(w, s), Heard(w, s.actions, s.attempts)
  PROVE  LET n == Drained(w, s)[Len(s.pending_head_changes)]
         IN  StepInv(w, n) /\ Told(w, s, n)
<1> DEFINE q == s.pending_head_changes
           d == Drained(w, s)
           Good(k) == StepInv(w, d[k]) /\ Told(w, s, d[k])
           D == {k \in Nat : k <= Len(q) /\ ~Good(k)}
<1>1. s \in Copies(w) /\ q \in Seq(HeadChange) /\ Len(q) \in Nat
  BY DEF StepInv, Copies
<1>2. /\ d[0] = [s EXCEPT !.pending_head_changes = <<>>]
      /\ \A k \in Nat : d[k + 1] = ApplyPending(w, d[k], q[k + 1])
  BY DrainedRecursion
<1> HIDE DEF d
<1>3. Good(0)
  <2> DEFINE empty == <<>>
             n == [s EXCEPT !.pending_head_changes = empty]
  <2>1. empty \in Seq(HeadChange) /\ d[0] = n
    BY <1>2
  <2> HIDE DEF empty
  <2>2. StepInv(w, n)
    BY <2>1, SetPendingStepInv
  <2>3. Silent(s, n) /\ n.actions = s.actions
    BY <1>1 DEF Copies, Silent
  <2> HIDE DEF n
  <2> QED  BY <2>1, <2>2, <2>3, SilentAlike DEF Told
<1>4. D = {}
  <2> SUFFICES ASSUME D # {} PROVE FALSE
    OBVIOUS
  <2>1. PICK k \in D : \A j \in D : k <= j
    <3>1. D \in SUBSET Nat
      OBVIOUS
    <3> HIDE DEF D
    <3> QED  BY <3>1, LeastElement
  <2>2. k # 0
    BY <1>3, <2>1
  <2>3. k - 1 \in Nat /\ k - 1 <= Len(q) /\ ~(k <= k - 1) /\ (k - 1) + 1 = k
    BY <1>1, <2>1, <2>2
  <2>4. StepInv(w, d[k - 1]) /\ Told(w, s, d[k - 1])
    BY <2>1, <2>3
  <2>5. q[k] \in HeadChange
    BY <1>1, <2>1, <2>2
  <2>6. d[k] = ApplyPending(w, d[k - 1], q[k])
    BY <1>2, <2>3
  <2>7. StepInv(w, d[k])
    BY <2>4, <2>5, <2>6, ApplyPendingStepInv
  <2>8. Told(w, s, d[k])
    BY <1>1, <2>4, <2>5, <2>6, ApplyPendingTold
  <2> QED  BY <2>1, <2>7, <2>8
<1>5. Len(q) \notin D
  BY <1>4
<1>6. Good(Len(q))
  BY <1>1, <1>5
<1> QED  BY <1>6 DEF d

\* A merge that failed is asked for again only by way of its checks.
LEMMA MergeFailedTold ==
  ASSUME NEW w, Valid(w), NEW s, StepInv(w, s), Heard(w, s.actions, s.attempts)
  PROVE  Told(w, s, MergeFailedState(w, s))
<1> DEFINE n == Drained(w, s)[Len(s.pending_head_changes)]
           t == RecheckTarget(w, n.stage_index)
           r == MergeFailedState(w, s)
<1> SUFFICES Told(w, s, r)
  OBVIOUS
<1>1. Len_(w) \in Nat /\ Index(w) = 1 .. Len_(w)
  BY LengthIsNat DEF Valid
<1>2. StepInv(w, n) /\ Told(w, s, n)
  BY DrainedTold
<1>3. r = IF ~MergeInFlight(w, n) THEN n ELSE IF t = 0 THEN Refused(n) ELSE EnterStage(w, n, t)
  BY DEF MergeFailedState
<1>4. StepInv(w, r)
  BY MergeFailedStepInv
<1> HIDE DEF n, r
<1>5. CASE ~MergeInFlight(w, n)
  BY <1>2, <1>3, <1>5
<1>6. CASE MergeInFlight(w, n)
  <2>1. /\ n \in Copies(w) /\ n.status = "running" /\ n.stage_index \in Index(w)
        /\ IsKind(w, n.stage_index, "merge") /\ s \in Copies(w)
    BY <1>2, <1>6 DEF MergeInFlight, InStage, StepInv, Position
  <2>2. t # 0 /\ t \in Index(w)
    BY <2>1, MergeRecheckTarget, RecheckTargetProperties
  <2> HIDE DEF t
  <2>3. r = EnterStage(w, n, t) /\ t \in 1 .. Len_(w) + 1
    BY <1>1, <1>3, <1>6, <2>2
  <2>4. /\ r \in Copies(w) /\ r.status # "refused"
        /\ r.status = "running" => r.stage_index \in Index(w)
    BY <1>4 DEF StepInv, Position
  <2>5. Heard(w, n.actions, n.attempts)
    BY <1>2, <2>1, ToldHeard
  <2>6. Anew(w, n.attempts, r)
    BY <2>1, <2>3, <2>4, <2>5, EnterStageAnew
  <2>7. Anew(w, s.attempts, r)
    BY <1>2, <2>1, <2>4, <2>6, AnewLater
  <2> QED  BY <2>7 DEF Told
<1> QED  BY <1>5, <1>6

-----------------------------------------------------------------------------
(* The results of step().                                                  *)

\* Entering a stage from a copy that asks for nothing yet.
LEMMA EnterTold ==
  ASSUME NEW w, Valid(w), NEW s, s.actions = {},
         NEW m \in Copies(w), m.status = "running", m.attempts = s.attempts,
         Asks(m.actions) = Asks(s.actions), NEW i \in 1 .. Len_(w) + 1,
         EnterStage(w, m, i).status # "refused"
  PROVE  Told(w, s, EnterStage(w, m, i))
<1>1. Heard(w, m.actions, m.attempts)
  BY DEF Heard, Asks
<1>2. Anew(w, m.attempts, EnterStage(w, m, i))
  BY <1>1, EnterStageAnew
<1> QED  BY <1>2 DEF Told

\* The end of a task.
LEMMA EndedTold ==
  ASSUME NEW w, NEW s \in Copies(w), s.actions = {},
         NEW n, n.status # "running", n.attempts = s.attempts, Asks(n.actions) = {}
  PROVE  Told(w, s, n)
<1>1. Heard(w, n.actions, n.attempts)
  BY DEF Heard
<1>2. \A j \in Index(w) : s.attempts[j] <= n.attempts[j]
  BY DEF Copies
<1> QED  BY <1>1, <1>2 DEF Told, Anew, Waits

\* Work with a branch.
LEMMA BranchProductTold ==
  ASSUME NEW w, Valid(w), NEW s, StepInv(w, s), s.status = "running", s.actions = {},
         IsBranchWork(w, s.stage_index), NEW head \in Heads, NEW patch \in Patches,
         BranchProduct(w, s, head, patch).status # "refused"
  PROVE  Told(w, s, BranchProduct(w, s, head, patch))
<1> DEFINE i == s.stage_index + 1
<1>1. PICK n \in Copies(w) :
        /\ BranchProduct(w, s, head, patch) = EnterStage(w, n, i)
        /\ MayEnter(w, n, i) /\ i \in 1 .. Len_(w) + 1
        /\ n.attempts = s.attempts /\ n.actions = s.actions
  BY BranchProductMayEnter
<1>2. n.status = "running"
  BY <1>1 DEF MayEnter
<1> HIDE DEF i
<1> QED  BY <1>1, <1>2, EnterTold

\* Work without one.
LEMMA OtherProductTold ==
  ASSUME NEW w, Valid(w), NEW s, StepInv(w, s), s.actions = {},
         InStage(w, s, "work"), OtherProduct(w, s).status # "refused"
  PROVE  Told(w, s, OtherProduct(w, s))
<1> DEFINE output == w.stages[s.stage_index].output
           c == IF output = "plan" /\ FanoutAtOrAfter(w, s.stage_index)
                THEN ClearFanout(s) ELSE s
           n == [c EXCEPT !.work_product = output]
           i == s.stage_index + 1
<1>1. /\ s \in Copies(w) /\ s.status = "running" /\ IsKind(w, s.stage_index, "work")
      /\ s.stage_index \in Index(w) /\ Len_(w) \in Nat /\ Index(w) = 1 .. Len_(w)
  BY LengthIsNat DEF StepInv, InStage, Position, Valid
<1>2. output \in WorkOutput /\ i \in 1 .. Len_(w) + 1
  BY <1>1, StageType DEF IsKind, Stages
<1>3. /\ ClearFanout(s) \in Copies(w) /\ ClearFanout(s).status = s.status
      /\ ClearFanout(s).attempts = s.attempts /\ ClearFanout(s).actions = s.actions
  BY <1>1, ClearFanoutFields
<1>4. /\ c \in Copies(w) /\ c.status = "running"
      /\ c.attempts = s.attempts /\ c.actions = s.actions
  BY <1>1, <1>3
<1>5. OtherProduct(w, s) = EnterStage(w, n, i)
  BY DEF OtherProduct
<1> HIDE DEF output, c, i
<1>6. /\ n \in Copies(w) /\ n.status = "running"
      /\ n.attempts = s.attempts /\ n.actions = s.actions
  BY <1>2, <1>4 DEF Copies
<1> HIDE DEF n
<1> QED  BY <1>1, <1>2, <1>5, <1>6, EnterTold

\* A submission.
LEMMA ChangeSubmittedTold ==
  ASSUME NEW w, Valid(w), NEW s, StepInv(w, s), s.actions = {},
         InStage(w, s, "submit"), ChangeSubmitted(w, s).status # "refused"
  PROVE  Told(w, s, ChangeSubmitted(w, s))
<1> DEFINE given == w.stages[s.stage_index].returns_change
           n == [s EXCEPT !.change_id = given]
           i == s.stage_index + 1
<1>1. /\ s \in Copies(w) /\ s.status = "running" /\ IsKind(w, s.stage_index, "submit")
      /\ s.stage_index \in Index(w) /\ Len_(w) \in Nat /\ Index(w) = 1 .. Len_(w)
  BY LengthIsNat DEF StepInv, InStage, Position, Valid
<1>2. given \in BOOLEAN /\ i \in 1 .. Len_(w) + 1
  BY <1>1, StageType DEF IsKind, Stages
<1>3. ChangeSubmitted(w, s) = EnterStage(w, n, i)
  BY DEF ChangeSubmitted
<1> HIDE DEF given, i
<1>4. /\ n \in Copies(w) /\ n.status = "running"
      /\ n.attempts = s.attempts /\ n.actions = s.actions
  BY ZenonT(60), <1>1, <1>2 DEF Copies
<1> HIDE DEF n
<1>5. EnterStage(w, n, i).status # "refused" /\ i \in 1 .. Len_(w) + 1
  BY <1>2, <1>3
<1>6. Told(w, s, EnterStage(w, n, i))
  BY <1>4, <1>5, EnterTold
<1> QED  BY <1>3, <1>6

\* A check that passed.
LEMMA CheckSucceededTold ==
  ASSUME NEW w, Valid(w), NEW s, StepInv(w, s), s.actions = {}, InStage(w, s, "command"),
         NEW head, head = s.current_head, CheckSucceeded(w, s, head).status # "refused"
  PROVE  Told(w, s, CheckSucceeded(w, s, head))
<1> DEFINE i == s.stage_index + 1
           checks == s.passed_checks \cup {[stage |-> s.stage_index, head |-> head]}
           n == [s EXCEPT !.passed_checks = checks]
<1>1. /\ MayEnter(w, n, i) /\ i \in 1 .. Len_(w) + 1
      /\ CheckSucceeded(w, s, head) = EnterStage(w, n, i)
  BY CheckSucceededMayEnter
<1>2. s \in Copies(w)
  BY DEF StepInv
<1> HIDE DEF checks, i
<1>3. n.attempts = s.attempts /\ n.actions = s.actions
  BY <1>2 DEF Copies
<1> HIDE DEF n
<1>4. n \in Copies(w) /\ n.status = "running"
  BY <1>1 DEF MayEnter
<1> QED  BY <1>1, <1>3, <1>4, EnterTold

\* The vote that completes an approval opens the next stage.
LEMMA CompleteVoteTold ==
  ASSUME NEW w, Valid(w), NEW s, StepInv(w, s), InStage(w, s, "approval"),
         NEW reviewer \in Reviewers, NEW choice \in Option(Children), NEW head,
         w.stages[s.stage_index].bind_head => s.current_head # None /\ head = s.current_head,
         Granted(w, s, reviewer, head, choice).status # "refused",
         ~(Cardinality(Votes(s, reviewer)) < w.stages[s.stage_index].count)
  PROVE  s.actions = {} => Told(w, s, Granted(w, s, reviewer, head, choice))
<1> DEFINE n == Granted(w, s, reviewer, head, choice)
           i == s.stage_index + 1
<1>1. PICK m \in Copies(w) :
        /\ n = EnterStage(w, m, i) /\ MayEnter(w, m, i) /\ i \in 1 .. Len_(w) + 1
        /\ m.attempts = s.attempts /\ Asks(m.actions) = Asks(s.actions)
  BY GrantedMayEnter
<1>2. m.status = "running" /\ n.status # "refused"
  BY <1>1 DEF MayEnter
<1> HIDE DEF n, i
<1>3. ASSUME s.actions = {}
      PROVE  Told(w, s, n)
  BY <1>1, <1>2, <1>3, EnterTold
<1> QED  BY <1>3 DEF n

\* An approval: one more reviewer leaves what is asked for as it is, the last
\* one opens the next stage.
LEMMA GrantedTold ==
  ASSUME NEW w, Valid(w), NEW s, StepInv(w, s), s.actions = {}, InStage(w, s, "approval"),
         NEW reviewer \in Reviewers, NEW choice \in Option(Children), NEW head,
         w.stages[s.stage_index].bind_head => s.current_head # None /\ head = s.current_head,
         Granted(w, s, reviewer, head, choice).status # "refused"
  PROVE  Told(w, s, Granted(w, s, reviewer, head, choice))
<1> DEFINE n == Granted(w, s, reviewer, head, choice)
<1>1. CASE Cardinality(Votes(s, reviewer)) < w.stages[s.stage_index].count
  <2>1. /\ Same(s, n) /\ SameFanout(s, n)
        /\ n.status = s.status /\ n.stage_index = s.stage_index
        /\ n.attempts = s.attempts /\ n.actions = s.actions
        /\ n.pending_work_reason = s.pending_work_reason
    BY <1>1, GrantedPartly
  <2> HIDE DEF n
  <2>2. RequestFor(w, n, s.stage_index) = RequestFor(w, s, s.stage_index)
    BY <2>1, RequestForSame DEF Same, SameFanout
  <2>3. Expected(w, n) = Expected(w, s)
    BY <2>1, <2>2 DEF Expected, OpenRequest
  <2>4. Filled(w, n)
    <3>1. ~IsKind(w, n.stage_index, "command")
      BY <2>1 DEF InStage, IsKind
    <3> QED  BY <3>1 DEF Filled
  <2>5. Told(w, s, n)
    BY <2>1, <2>3, <2>4 DEF Told, Alike
  <2> QED  BY <2>5 DEF n
<1>2. CASE ~(Cardinality(Votes(s, reviewer)) < w.stages[s.stage_index].count)
  BY <1>2, CompleteVoteTold
<1> QED  BY <1>1, <1>2

\* The join of a fanout.
LEMMA ChildrenJoinedTold ==
  ASSUME NEW w, Valid(w), NEW s, StepInv(w, s), s.actions = {}, InStage(w, s, "fanout"),
         NEW children \in SUBSET Children, NEW selected \in Option(Children),
         ChildrenJoined(w, s, children, selected).status # "refused"
  PROVE  Told(w, s, ChildrenJoined(w, s, children, selected))
<1> DEFINE n == [s EXCEPT !.fanout_children = children, !.selected_child = None]
           k == KeepOnlyWinner(n, selected)
           m == IF selected # None THEN k ELSE n
           i == s.stage_index + 1
           r == ChildrenJoined(w, s, children, selected)
<1> SUFFICES Told(w, s, r)
  OBVIOUS
<1>1. /\ s \in Copies(w) /\ s.status = "running"
      /\ s.stage_index \in Index(w) /\ Len_(w) \in Nat /\ Index(w) = 1 .. Len_(w)
  BY LengthIsNat DEF StepInv, InStage, Position, Valid
<1>2. None \in Option(Children)
  BY DEF Option
<1>3. /\ n \in Copies(w) /\ n.status = "running"
      /\ n.attempts = s.attempts /\ n.actions = s.actions
  BY ZenonT(60), <1>1, <1>2 DEF Copies
<1>4. r = Refused(s) \/ r = EnterStage(w, m, i)
  BY DEF ChildrenJoined
<1>5. Refused(s).status = "refused"
  BY <1>1 DEF Refused, Copies
<1>6. r = EnterStage(w, m, i) /\ i \in 1 .. Len_(w) + 1 /\ r.status # "refused"
  BY <1>1, <1>4, <1>5
<1> HIDE DEF n, r, i, k
<1>7. ASSUME selected # None
      PROVE  /\ k \in Copies(w) /\ k.status = "running"
             /\ k.attempts = s.attempts /\ Asks(k.actions) = Asks(s.actions)
  <2>1. selected \in Children
    BY <1>7 DEF Option
  <2>2. k = KeepOnlyWinner(n, selected)
    BY DEF k
  <2>3. n \in Copies(w)
    BY <1>3
  <2>4. k \in Copies(w) /\ k.status = n.status /\ k.attempts = n.attempts
    BY <2>1, <2>2, <2>3, KeepOnlyWinnerProperties
  <2>5. Asks(k.actions) = Asks(n.actions)
    BY <2>1, <2>2, <2>3, KeepOnlyWinnerProperties
  <2> QED  BY <1>3, <2>4, <2>5
<1>8. /\ m \in Copies(w) /\ m.status = "running"
      /\ m.attempts = s.attempts /\ Asks(m.actions) = Asks(s.actions)
  BY <1>3, <1>7
<1> HIDE DEF m
<1> QED  BY <1>6, <1>8, EnterTold

\* A failure.
LEMMA FailStageTold ==
  ASSUME NEW w, Valid(w), NEW s, StepInv(w, s), s.actions = {}, s.status = "running"
  PROVE  Told(w, s, FailStage(w, s, s.stage_index))
<1> DEFINE i == s.stage_index
           target == FailureTarget(w, i)
<1>1. s \in Copies(w) /\ i \in Index(w)
  BY DEF StepInv, Position
<1>2. Heard(w, s.actions, s.attempts)
  BY DEF Heard, Asks
<1>3. FailStage(w, s, i) = IF target # 0 THEN ReturnToWork(w, s, target) ELSE FailTask(s, i)
  BY DEF FailStage
<1>4. CASE target = 0
  BY <1>1, <1>2, <1>3, <1>4, FailTaskAnew DEF Told
<1>5. CASE target # 0
  <2>1. w.stages[i].on_fail # 0 =>
          w.stages[i].on_fail < i /\ IsKind(w, w.stages[i].on_fail, "work")
    BY <1>1 DEF Valid, StaticRules, StageRules
  <2>2. target \in Index(w) /\ IsKind(w, target, "work")
    BY <1>1, <1>5, <2>1, PreviousWorkProperties DEF FailureTarget, IsKind
  <2> HIDE DEF target
  <2> QED  BY <1>1, <1>2, <1>3, <1>5, <2>2, ReturnToWorkAnew DEF Told
<1> QED  BY <1>4, <1>5

\* A reassignment hands out a new attempt of the stage.
LEMMA ReassignedTold ==
  ASSUME NEW w, Valid(w), NEW s, StepInv(w, s), s.actions = {}, s.status = "running",
         NEW stage \in Nat,
         EnterStage(w, Emit(s, {Act("ReassignStage", stage, 0)}), s.stage_index).status
           # "refused"
  PROVE  Told(w, s, EnterStage(w, Emit(s, {Act("ReassignStage", stage, 0)}), s.stage_index))
<1> DEFINE act == Act("ReassignStage", stage, 0)
           m == Emit(s, {act})
<1>1. /\ s \in Copies(w) /\ s.stage_index \in 1 .. Len_(w) + 1
  BY LengthIsNat DEF StepInv, Position, Valid
<1>2. act \in Action /\ act.kind = "ReassignStage"
  BY ActType DEF ActionKind, Act
<1> HIDE DEF act
<1>3. m \in Copies(w) /\ m.status = "running" /\ m.attempts = s.attempts
  BY <1>1, <1>2, EmitProperties, EmitFields
<1>4. m.actions = s.actions \cup {act}
  BY <1>1 DEF Emit, Copies
<1> HIDE DEF m
<1>5. Asks(m.actions) = Asks(s.actions)
  BY <1>2, <1>4 DEF Asks, RequestKind
<1>6. EnterStage(w, m, s.stage_index).status # "refused"
  BY DEF m, act
<1>7. Told(w, s, EnterStage(w, m, s.stage_index))
  BY <1>1, <1>3, <1>5, <1>6, EnterTold
<1> QED  BY <1>7 DEF m, act

\* A reported timeout leaves what is asked for as it is.
LEMMA NotifiedTold ==
  ASSUME NEW w, NEW s \in Copies(w), NEW stage, NEW pair
  PROVE  Told(w, s, Emit([s EXCEPT !.notified_timeout = pair],
                         {Act("NotifyTimeout", stage, 0)}))
<1> DEFINE act == Act("NotifyTimeout", stage, 0)
           m == [s EXCEPT !.notified_timeout = pair]
           n == Emit(m, {act})
<1>1. act.kind = "NotifyTimeout"
  BY DEF Act
<1> HIDE DEF act
<1>2. Silent(s, n) /\ n.actions = s.actions \cup {act}
  BY DEF Emit, Copies, Silent
<1> HIDE DEF n
<1>3. Asks(n.actions) = Asks(s.actions)
  BY <1>1, <1>2 DEF Asks, RequestKind
<1>4. Told(w, s, n)
  BY <1>2, <1>3, SilentAlike DEF Told
<1> QED  BY <1>4 DEF n, m, act

\* Cancellation.
LEMMA CancelledTold ==
  ASSUME NEW w, NEW s \in Copies(w), s.actions = {}, NEW stage
  PROVE  Told(w, s, Cancelled(s, stage))
<1> DEFINE f == [s EXCEPT !.status = "cancelled"]
           c == ClearPartial(f)
           act == Act("TaskCancelled", stage, 0)
           n == Cancelled(s, stage)
<1> SUFFICES Told(w, s, n)
  OBVIOUS
<1>1. n.status = "cancelled" /\ n.attempts = s.attempts
  BY CancelledFields
<1>2. f \in Copies(w) /\ f.actions = {}
  BY DEF Copies, Status
<1> HIDE DEF f
<1>3. c \in Copies(w) /\ c.actions = {}
  BY <1>2, ClearPartialProperties
<1>4. act.kind = "TaskCancelled"
  BY DEF Act
<1>5. n = Emit(c, {act})
  BY DEF Cancelled, f
<1> HIDE DEF c, act, n
<1>6. n.actions = {act}
  BY <1>3, <1>5 DEF Emit, Copies
<1>7. Asks(n.actions) = {}
  BY <1>4, <1>6 DEF Asks, RequestKind
<1> QED  BY <1>1, <1>7, EndedTold

\* A merge that happened.
LEMMA MergedTold ==
  ASSUME NEW w, NEW s \in Copies(w), s.actions = {}, Merged(w, s).status # "refused"
  PROVE  Told(w, s, Merged(w, s))
<1> DEFINE empty == <<>>
           m == [s EXCEPT !.merge_commit = TRUE, !.pending_head_changes = empty,
                          !.status = "done"]
           act == Act("TaskDone", 0, 0)
           n == Merged(w, s)
<1> SUFFICES Told(w, s, n)
  OBVIOUS
<1>1. n = Refused(s) \/ n = Emit(m, {act})
  BY DEF Merged
<1>2. Refused(s).status = "refused"
  BY DEF Refused, Copies
<1>3. n = Emit(m, {act})
  BY <1>1, <1>2
<1>4. act.kind = "TaskDone"
  BY DEF Act
<1> HIDE DEF act, n, empty
<1>5. n.status = "done" /\ n.attempts = s.attempts /\ n.actions = {act}
  BY <1>3 DEF Emit, Copies
<1>6. Asks(n.actions) = {}
  BY <1>4, <1>5 DEF Asks, RequestKind
<1> QED  BY <1>5, <1>6, EndedTold

\* A head change, recorded or applied.
LEMMA HeadChangedTold ==
  ASSUME NEW w, Valid(w), NEW s, StepInv(w, s), s.actions = {}, NEW c \in HeadChange
  PROVE  Told(w, s, HeadChanged(w, s, c))
<1>1. s \in Copies(w) /\ Heard(w, s.actions, s.attempts)
  BY DEF StepInv, Heard, Asks
<1>2. CASE ~MergeInFlight(w, s)
  BY <1>1, <1>2, ApplyHeadChangeRedone DEF HeadChanged, Redone, Told
<1>3. CASE MergeInFlight(w, s)
  <2> DEFINE q == IF c.kind = "commit" /\ s.current_head = c.head
                  THEN <<>> ELSE Append(s.pending_head_changes, c)
             n == [s EXCEPT !.pending_head_changes = q]
  <2>1. HeadChanged(w, s, c) = n
    BY <1>3 DEF HeadChanged
  <2> HIDE DEF q
  <2>2. Silent(s, n) /\ n.actions = s.actions
    BY <1>1 DEF Copies, Silent
  <2> HIDE DEF n
  <2> QED  BY <2>1, <2>2, SilentAlike DEF Told
<1> QED  BY <1>2, <1>3

-----------------------------------------------------------------------------
(* Crash recovery.                                                         *)

\* What a step hands out is all there is for the attempt it leaves open.
LEMMA HandedOut ==
  ASSUME NEW w, Valid(w), NEW S, NEW s \in Copies(w), s.actions = {},
         Heard(w, S, s.attempts), Waits(w, S, s),
         NEW n \in Copies(w), n.status = "running" => n.stage_index \in Index(w),
         Told(w, s, n), NEW c, Alike(w, n, c)
  PROVE  Heard(w, S \cup n.actions, c.attempts) /\ Waits(w, S \cup n.actions, c)
<1> DEFINE T == S \cup n.actions
           i == n.stage_index
           k == n.attempts[i]
<1>1. /\ c.status = n.status /\ c.stage_index = i /\ c.attempts = n.attempts
      /\ s.attempts \in [Index(w) -> Nat] /\ n.attempts \in [Index(w) -> Nat]
      /\ c.status = "running" => (Filled(w, n) => Filled(w, c)) /\ Expected(w, c) = Expected(w, n)
  BY DEF Alike, Copies
<1>2. Asks(T) = Asks(S) \cup Asks(n.actions)
  BY DEF Asks
<1>3. Heard(w, s.actions, s.attempts)
  BY DEF Heard, Asks
<1>4. /\ \A j \in Index(w) : s.attempts[j] <= n.attempts[j]
      /\ Heard(w, n.actions, n.attempts)
  BY <1>3, ToldHeard
<1>5. Heard(w, S, n.attempts)
  BY <1>1, <1>4, HeardLater
<1> HIDE DEF T
<1>6. Heard(w, T, c.attempts)
  BY <1>1, <1>2, <1>4, <1>5 DEF Heard
<1>7. Waits(w, T, c)
  <2> SUFFICES ASSUME n.status = "running"
               PROVE  Filled(w, c) /\ Concerning(T, i, k) = Expected(w, c)
    BY <1>1 DEF Waits
  <2>1. CASE Anew(w, s.attempts, n)
    <3>1. Filled(w, n) /\ Concerning(n.actions, i, k) = Expected(w, n)
      BY <2>1 DEF Anew, Waits
    <3>2. k > s.attempts[i] /\ i \in Index(w)
      BY <2>1 DEF Anew
    <3>3. ASSUME NEW a \in Asks(S), a.stage = i PROVE a.attempt # k
      <4>1. a.attempt \in 0 .. s.attempts[i]
        BY <3>3 DEF Heard
      <4> QED  BY <1>1, <3>2, <4>1
    <3>4. Concerning(T, i, k) = Concerning(n.actions, i, k)
      BY <1>2, <3>3 DEF Concerning
    <3> QED  BY <1>1, <3>1, <3>4
  <2>2. CASE Alike(w, s, n) /\ Asks(n.actions) = Asks(s.actions)
    <3>1. Asks(n.actions) = {}
      BY <2>2 DEF Asks
    <3>2. Concerning(T, i, k) = Concerning(S, i, k)
      BY <1>2, <3>1 DEF Concerning
    <3>3. /\ s.status = "running" /\ s.stage_index = i /\ s.attempts = n.attempts
          /\ (Filled(w, s) => Filled(w, n)) /\ Expected(w, n) = Expected(w, s)
      BY <2>2 DEF Alike
    <3>4. Filled(w, s) /\ Concerning(S, i, k) = Expected(w, s)
      BY <3>3 DEF Waits
    <3> QED  BY <1>1, <3>2, <3>3, <3>4
  <2> QED  BY <2>1, <2>2 DEF Told
<1> QED  BY <1>6, <1>7 DEF T

\* The copy from which outstanding_actions enters the open stage again is the
\* stored state one attempt earlier.
LEMMA EnteredAgain ==
  ASSUME NEW w, Valid(w), NEW s, StepInv(w, s), Orderly(w, s), s.status = "running",
         Filled(w, s), s.actions = {}
  PROVE  LET i == s.stage_index
             again == EnterStage(w, [s EXCEPT !.attempts[i] = @ - 1,
                                              !.approvals = {a \in @ : a.stage # i}], i)
         IN  /\ again.status # "refused"
             /\ again.actions = {Act("ScheduleTimeout", i, s.attempts[i]), RequestFor(w, s, i)}
<1> DEFINE i == s.stage_index
           at == [s.attempts EXCEPT ![i] = @ - 1]
           kept == {a \in s.approvals : a.stage # i}
           copy == [s EXCEPT !.attempts = at, !.approvals = kept]
           r == ResetFanoutAt(w, copy, i)
           c == ClearPartial(r)
           again == EnterStage(w, copy, i)
<1>1. /\ s \in Copies(w) /\ i \in Index(w) /\ Covered(w, s, i)
      /\ Len_(w) \in Nat /\ Index(w) = 1 .. Len_(w)
  BY LengthIsNat DEF StepInv, Position, Valid
<1>2. s.attempts \in [Index(w) -> Nat] /\ s.attempts[i] > 0
  BY <1>1 DEF Copies, Orderly, Open
<1>3. /\ at \in [Index(w) -> Nat] /\ OneMore(at, i) = s.attempts
  <2>1. at[i] = s.attempts[i] - 1 /\ at[i] \in Nat /\ at[i] + 1 = s.attempts[i]
    BY <1>1, <1>2
  <2>2. \A j \in Index(w) : j # i => at[j] = s.attempts[j]
    BY <1>2
  <2>3. at \in [Index(w) -> Nat]
    BY <1>2, <2>1, <2>2
  <2> HIDE DEF at
  <2> QED  BY <1>1, <1>2, <2>1, <2>2, <2>3 DEF OneMore
<1>4. kept = s.approvals
  BY DEF Orderly, Open
<1>5. [s EXCEPT !.attempts[i] = @ - 1, !.approvals = {a \in @ : a.stage # i}] = copy
  OBVIOUS
<1> HIDE DEF at, kept
<1>6. /\ copy \in Copies(w) /\ copy.status = "running" /\ copy.attempts = at
      /\ copy.actions = {} /\ copy.change_id = s.change_id
      /\ Same(s, copy) /\ copy.fanout_children = s.fanout_children
  <2>1. kept \in SUBSET Approval
    BY <1>1, <1>4 DEF Copies
  <2> QED  BY ZenonT(60), <1>1, <1>3, <1>4, <2>1 DEF Copies, Same
<1>7. ~ApprovalForStage(w, copy, i)
  BY <1>4, <1>6 DEF ApprovalForStage, Same, Orderly, Open
<1> HIDE DEF copy
<1>8. EntryStage(w, copy, i) = i
  <2>1. i \in 1 .. Len_(w) + 1 /\ EntryStage(w, copy, i) \in i .. Len_(w) + 1
    BY <1>1, <1>6, EntryStageProperties
  <2>2. i < EntryStage(w, copy, i) => ApprovalForStage(w, copy, i)
    BY <1>1, <1>6, <2>1, EntryStageProperties
  <2> QED  BY <1>1, <1>7, <2>1, <2>2
<1>9. again = BeginAttempt(w, r, i)
  BY <1>1, <1>8 DEF EnterStage
<1>10. /\ r \in Copies(w) /\ r.status = "running" /\ r.attempts = at /\ r.actions = {}
       /\ r.branch = s.branch /\ r.current_head = s.current_head
       /\ r.change_id = s.change_id
       /\ ~IsKind(w, i, "fanout") => Same(s, r) /\ r.fanout_children = s.fanout_children
  <2>1. CASE IsKind(w, i, "fanout")
    <3>1. /\ r \in Copies(w) /\ r.current_head = copy.current_head
          /\ r.status = copy.status /\ r.attempts = copy.attempts /\ r.actions = copy.actions
      BY <1>6, ResetFanoutFields, ResetFanoutActions
    <3>2. r.branch = copy.branch /\ r.change_id = copy.change_id
      BY <1>6, <2>1 DEF ResetFanoutAt, ClearFanout, Copies
    <3> HIDE DEF r
    <3> QED  BY <1>6, <2>1, <3>1, <3>2 DEF Same
  <2>2. CASE ~IsKind(w, i, "fanout")
    <3>1. r = copy
      BY <2>2 DEF ResetFanoutAt
    <3> HIDE DEF r
    <3> QED  BY <1>6, <3>1 DEF Same
  <2> QED  BY <2>1, <2>2
<1> HIDE DEF r
<1>11. /\ c \in Copies(w) /\ c.status = "running" /\ c.attempts = at /\ c.actions = {}
       /\ c.branch = s.branch /\ c.current_head = s.current_head
       /\ c.change_id = s.change_id
       /\ ~IsKind(w, i, "fanout") => Same(s, c) /\ c.fanout_children = s.fanout_children
  <2>1. c.change_id = r.change_id
    BY <1>10 DEF ClearPartial, Copies
  <2> QED  BY <1>10, <2>1, ClearPartialProperties, ClearPartialFields DEF Same, SameFanout
<1> DEFINE n == [c EXCEPT !.stage_index = i, !.pending_work_reason = FALSE,
                          !.attempts = OneMore(@, i)]
           E == {Act("ScheduleTimeout", i, n.attempts[i]), RequestFor(w, n, i)}
           e == Emit(n, E)
<1>12. BeginAttempt(w, r, i) =
         IF IsKind(w, i, "command") /\ MissingValue(w, n, i) THEN FailTask(n, i)
         ELSE IF IsKind(w, i, "merge") /\ ~MergeGate(w, n, i) THEN Refused(n)
         ELSE e
  BY DEF BeginAttempt
<1> HIDE DEF c
<1>13. /\ "status" \in DOMAIN n /\ "actions" \in DOMAIN n
       /\ n.status = "running" /\ n.attempts = s.attempts /\ n.actions = {}
       /\ n.branch = s.branch /\ n.current_head = s.current_head
       /\ n.change_id = s.change_id
       /\ ~IsKind(w, i, "fanout") => Same(s, n) /\ n.fanout_children = s.fanout_children
  BY <1>3, <1>11 DEF Copies, Same
<1> HIDE DEF n
<1>14. ~(IsKind(w, i, "command") /\ MissingValue(w, n, i))
  BY <1>13 DEF Filled, MissingValue
<1>15. ~(IsKind(w, i, "merge") /\ ~MergeGate(w, n, i))
  <2> SUFFICES ASSUME IsKind(w, i, "merge") PROVE MergeGate(w, n, i)
    OBVIOUS
  <2>1. Same(s, n)
    BY <1>13 DEF IsKind
  <2>2. Covered(w, n, i)
    BY <1>1, <2>1, Transfer
  <2> QED  BY <1>1, <2>2, GateOpen
<1>16. RequestFor(w, n, i) = RequestFor(w, s, i)
  <2>1. PicksAt(w, i) => ~IsKind(w, i, "fanout")
    BY DEF PicksAt, IsKind
  <2> QED  BY <1>13, <2>1, RequestForSame
<1>17. E = {Act("ScheduleTimeout", i, s.attempts[i]), RequestFor(w, s, i)}
  BY <1>13, <1>16
<1> HIDE DEF E
<1>18. e.status = "running" /\ e.actions = E
  BY <1>13 DEF Emit
<1>19. again = e
  BY <1>9, <1>12, <1>14, <1>15
<1> HIDE DEF e, again
<1>20. again.status # "refused"
       /\ again.actions = {Act("ScheduleTimeout", i, s.attempts[i]), RequestFor(w, s, i)}
  BY <1>17, <1>18, <1>19
<1> QED  BY <1>5, <1>20 DEF again

\* What outstanding_actions rebuilds.
LEMMA OutstandingExpected ==
  ASSUME NEW w, Valid(w), NEW s, StepInv(w, s), Orderly(w, s), s.status = "running",
         Filled(w, s), s.actions = {}
  PROVE  OutstandingActions(w, s) =
           {a \in Expected(w, s) :
              a.kind = "ScheduleTimeout" =>
                s.notified_timeout # <<s.stage_index, s.attempts[s.stage_index]>>}
<1> DEFINE i == s.stage_index
           k == s.attempts[i]
           again == EnterStage(w, [s EXCEPT !.attempts[i] = @ - 1,
                                            !.approvals = {a \in @ : a.stage # i}], i)
           t == Act("ScheduleTimeout", i, k)
           r == RequestFor(w, s, i)
           told == s.notified_timeout = <<i, k>>
           rework(a) == IF s.pending_work_reason /\ a.kind = "AssignWork"
                        THEN [a EXCEPT !.kind = "ReturnToWork"] ELSE a
           o == OpenRequest(w, s)
<1>1. i \in Index(w) /\ again.status # "refused" /\ again.actions = {t, r}
  BY EnteredAgain DEF StepInv, Position
<1>2. OutstandingActions(w, s) =
        IF again.status = "refused" THEN {}
        ELSE {rework(a) : a \in IF told THEN {a \in again.actions : a.kind # "ScheduleTimeout"}
                                ELSE again.actions}
  BY <1>1 DEF OutstandingActions
<1> HIDE DEF again
<1>3. OutstandingActions(w, s) =
        {rework(a) : a \in IF told THEN {a \in {t, r} : a.kind # "ScheduleTimeout"} ELSE {t, r}}
  BY <1>1, <1>2
<1>4. r.kind \in RequestKind /\ (r.kind = "AssignWork" <=> KindAt(w, i) = "work")
  BY <1>1, RequestForFields
<1>5. t.kind = "ScheduleTimeout" /\ o.kind \in RequestKind
  BY <1>1, ExpectedFields DEF Act
<1>6. o = rework(r)
  <2>1. s.pending_work_reason => KindAt(w, i) = "work"
    BY DEF Orderly, Phase, IsKind
  <2> QED  BY <1>4, <2>1 DEF OpenRequest
<1>7. rework(t) = t /\ Expected(w, s) = {t, o}
  BY <1>5 DEF Expected
<1>8. r.kind # "ScheduleTimeout" /\ o.kind # "ScheduleTimeout"
  BY <1>4, <1>5 DEF RequestKind
<1> HIDE DEF t, r, o, rework
<1>9. CASE told
  <2>1. {a \in {t, r} : a.kind # "ScheduleTimeout"} = {r}
    BY <1>5, <1>8
  <2>2. OutstandingActions(w, s) = {rework(a) : a \in {r}}
    BY <1>3, <1>9, <2>1
  <2>3. OutstandingActions(w, s) = {o}
    BY <1>6, <2>2
  <2> QED  BY <1>5, <1>7, <1>8, <1>9, <2>3
<1>10. CASE ~told
  <2>1. OutstandingActions(w, s) = {rework(a) : a \in {t, r}}
    BY <1>3, <1>10
  <2>2. OutstandingActions(w, s) = {t, o}
    BY <1>6, <1>7, <2>1
  <2> QED  BY <1>7, <1>10, <2>2
<1> QED  BY <1>9, <1>10
=============================================================================
