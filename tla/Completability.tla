--------------------------- MODULE Completability ---------------------------
(***************************************************************************)
(* The second half of Workflow::validate: completability_witness drives    *)
(* the state machine with a script in which everything succeeds, then once *)
(* per command or approval with one failure there, then once per stage     *)
(* after branch work with one new commit there.  Every script must reach   *)
(* done within a bound.  The witness's heads, patches, reviewers and       *)
(* children are numbers; a fresh head is the next number.                  *)
(***************************************************************************)
EXTENDS PipelineStep

\* One script in progress: the state, the number of heads made, whether the
\* disturbance has happened, whether the script is stuck.
Script(s, heads, disturbed, stuck) ==
  [s |-> s, heads |-> heads, disturbed |-> disturbed, stuck |-> stuck]

\* The reviewers still missing approve one after the other (success_events
\* for an approval); a pick takes the winner so far or the first child.
AllApprove(w, s) ==
  LET count == w.stages[s.stage_index].count
      choice == IF ~PicksAt(w, s.stage_index) THEN None
                ELSE IF s.selected_child # None THEN s.selected_child
                ELSE IF s.fanout_children = {} THEN None ELSE FirstOf(s.fanout_children)
      f[k \in 0 .. count] ==
        IF k = 0 THEN s
        ELSE IF f[k - 1].status = "refused" THEN f[k - 1]
        ELSE Granted(w, f[k - 1], k, s.current_head, choice)
  IN  f[count]

\* success_events, applied.  head is fresh.
Succeed(w, s, head) ==
  IF s.status = "pending" THEN EnterStage(w, [s EXCEPT !.status = "running"], 1)
  ELSE CASE IsBranchWork(w, s.stage_index) -> BranchProduct(w, s, head, head)
         [] KindAt(w, s.stage_index) = "work"
              /\ ~IsBranchWork(w, s.stage_index) -> OtherProduct(w, s)
         [] KindAt(w, s.stage_index) = "submit" -> ChangeSubmitted(w, s)
         [] KindAt(w, s.stage_index) = "command" -> CheckSucceeded(w, s, s.current_head)
         [] KindAt(w, s.stage_index) = "approval" -> AllApprove(w, s)
         [] KindAt(w, s.stage_index) = "fanout" ->
              ChildrenJoined(w, s, {1, 2},
                IF w.stages[s.stage_index].join = "first" THEN 1 ELSE None)
         [] KindAt(w, s.stage_index) = "merge" -> Merged(w, s)

\* disturbance_events, applied: the stage fails, or a commit arrives (during
\* an in-flight merge the merge then fails).
DisturbWith(w, s, kind, head) ==
  IF kind = "fail" THEN FailStage(w, s, s.stage_index)
  ELSE LET c == [kind |-> "commit", head |-> head, patch |-> head, conflict |-> FALSE]
       IN  IF MergeInFlight(w, s) THEN MergeFailedState(w, HeadChanged(w, s, c))
           ELSE HeadChanged(w, s, c)

\* The check witness_run makes after each turn: a stage that collects and was
\* invalidated in place has a new attempt.  (Its other check, that the same
\* results again are refused, is check_identity's stage and attempt: a turn
\* that moved on changed one of them or ended the task.)
RestartedIfInvalidated(w, s, n) ==
  LET collecting == KindAt(w, s.stage_index) \in {"approval", "fanout"}
      collected(c) == c.approval_reviewers # {} \/ c.pending_pick # None
  IN  /\ n.status = "running"
      /\ n.stage_index = s.stage_index
      /\ ~MergeInFlight(w, s)
      /\ \/ collecting /\ n.current_head # s.current_head
         \/ collected(s) /\ ~collected(n)
      => n.attempts[s.stage_index] > s.attempts[s.stage_index]

\* One turn of witness_run with disturbance d = [at, kind] (at = 0 for none).
Turn(w, t, d) ==
  LET now == ~t.disturbed /\ t.s.status = "running" /\ t.s.stage_index = d.at
      head == t.heads + 1
      s0 == [t.s EXCEPT !.actions = {}]
      n == IF now THEN DisturbWith(w, s0, d.kind, head) ELSE Succeed(w, s0, head)
  IN  IF t.stuck \/ t.s.status = "done" THEN t
      ELSE IF t.s.status \in {"failed", "cancelled"} THEN [t EXCEPT !.stuck = TRUE]
      ELSE Script(n, head, t.disturbed \/ now,
                  n.status = "refused" \/ ~RestartedIfInvalidated(w, s0, n))

\* witness_run: the script finishes, and finishes with its records in order.
WitnessRun(w, d) ==
  LET last == Len_(w) * 8 + 15
      f[k \in 0 .. last] ==
        IF k = 0 THEN Script(NewState(w), 0, FALSE, FALSE) ELSE Turn(w, f[k - 1], d)
  IN  /\ ~f[last].stuck
      /\ f[last].s.status = "done"
      /\ DoneInvariants(w, f[last].s)

Completable(w) ==
  /\ WitnessRun(w, [at |-> 0, kind |-> "fail"])
  /\ \A i \in Index(w) :
       KindAt(w, i) \in {"command", "approval"} => WitnessRun(w, [at |-> i, kind |-> "fail"])
  /\ \A i \in Index(w) :
       PreviousBranchWork(w, i) # 0 => WitnessRun(w, [at |-> i, kind |-> "commit"])

\* Workflow::validated: the only workflows a pipeline is created with.
ValidWorkflow(w) == IsWorkflow(w) /\ Len_(w) > 0 /\ StaticRules(w) /\ Completable(w)
=============================================================================
