---------------------------- MODULE EngineProofs ----------------------------
(***************************************************************************)
(* The theorems about the daemon's engine, for every workflow without      *)
(* fanout, every number of mishaps and whatever the repository and the     *)
(* operator do between two steps: the stored snapshot stays one the state  *)
(* machine can be in and its restore accepts, what it waits for was handed *)
(* out, and the status of the task is the snapshot's.  The steps of the    *)
(* state machine come first, then the parts of the engine's invariant,     *)
(* then each action of the engine.                                         *)
(***************************************************************************)
EXTENDS Engine, PipelineRecoveryProofs

-----------------------------------------------------------------------------
(* Types.                                                                  *)

Tickets == Nat \X Nat

EventKinds ==
  {"Start", "WorkCompleted", "Submitted", "CommandPassed", "CommandFailed",
   "ApprovalGranted", "ChangesRequested", "CommitCreated", "MainAdvanced",
   "MergeCompleted", "MergeFailed", "StageTimedOut", "Cancel"}

EventRecord ==
  [kind : EventKinds, ticket : Option(Tickets), head : Option(Heads),
   patch : Option(Patches), conflict : BOOLEAN, reviewer : Option(Reviewers)]

ReviewRecord == [reviewer : Reviewers, ticket : Tickets, head : Option(Heads)]

Rows ==
  [st : PipelineState(Flow),
   status : {"open", "running", "blocked", "done", "failed", "cancelled"},
   note : BOOLEAN, intent : Option(Heads), review : Option(ReviewRecord),
   bound : BOOLEAN]

\* The steps of a merge, and those of them that know where main was.
ForgeSteps == {"forge", "intent", "recheck", "move", "moved"}
MergeSteps == {"prepare"} \cup ForgeSteps
LateSteps == {"intent", "recheck", "move", "moved"}

\* What the engine may be in the middle of, when S has been handed out.
Doings(S) ==
  [at : {"idle", "cleanup"}]
    \cup [at : {"receive", "apply"}, event : EventRecord]
    \cup [at : {"act"}, acts : SUBSET S, event : Option(EventRecord)]
    \cup [at : {"prepare"}, ticket : Tickets, head : Heads]
    \cup [at : ForgeSteps, ticket : Tickets, head : Heads, main : Nat]

Checks == [ticket : Tickets, head : Option(Heads)]

Procs(S) ==
  [up : BOOLEAN, doing : Doings(S), queue : Seq(EventRecord), running : SUBSET Tickets,
   checking : SUBSET Checks, timers : SUBSET Tickets, sleeping : SUBSET Tickets,
   served : BOOLEAN]

MainEntry == [by : {"daemon", "outside"}, head : Option(Heads)]

Repos ==
  [main : Seq(MainEntry), branch : Option(Heads), dirty : BOOLEAN, soiled : Nat,
   archived : SUBSET Heads, last : Option(Heads),
   commit : [Heads -> Option(CommitRecord)]]

\* Only commits that were made are on main or on the branch; a commit contains
\* itself.
RepoSound ==
  /\ \A h \in Heads : Used(h) => h \in repo.commit[h].contains
  /\ \A k \in DOMAIN repo.main : repo.main[k].head # None => Used(repo.main[k].head)
  /\ repo.branch # None => Used(repo.branch)

Types ==
  /\ row \in Rows /\ proc \in Procs(issued) /\ repo \in Repos
  /\ issued \subseteq Action /\ disturbances \in Nat
  /\ RepoSound

-----------------------------------------------------------------------------
(* The state machine in the engine.                                        *)

\* The stored snapshot is one the state machine can be in, and what was handed
\* out is what it waits for.
Machine ==
  /\ StepInv(Flow, row.st) /\ Orderly(Flow, row.st)
  /\ Asking(Flow, issued, row.st)

\* The status of the task is that of the snapshot, but for a task that is
\* blocked, which runs and is not merging.
StatusSound ==
  IF row.status = "blocked"
  THEN row.st.status = "running" /\ ~MergeInFlight(Flow, row.st)
  ELSE row.status = TaskStatus(row.st.status)

SomeUsed == \E h \in Heads : Used(h)

\* Before the first commit the task is at its first stage and has no head;
\* after it there is a branch as long as the task is open.
BranchSound ==
  IF SomeUsed THEN repo.branch # None \/ Closed(row.status)
  ELSE row.st.stage_index = 1 /\ row.st.current_head = None

\* A head is reported with its patch, or with the empty one once it is on main.
NamedAs(h, p) ==
  \/ p = repo.commit[h].patch
  \/ p = EmptyPatch /\ OnMain(h)

\* What an event reports is there.
EventSound(e) ==
  /\ e.kind \in {"WorkCompleted", "CommitCreated", "MainAdvanced"} =>
       /\ e.head \in Heads /\ e.patch \in Patches /\ Used(e.head)
       /\ NamedAs(e.head, e.patch)
  /\ e.kind = "CommitCreated" => ~e.conflict
  /\ e.kind = "MainAdvanced" => HasMerge(Flow)
  /\ e.kind = "ApprovalGranted" => e.reviewer \in Reviewers
  /\ e.kind = "MergeCompleted" => e.head \in Heads /\ OnMain(e.head)

\* An event is being handled, or waits for the actions of another.
InHand ==
  \/ proc.doing.at \in {"receive", "apply"}
  \/ proc.doing.at = "act" /\ proc.doing.event # None

EventsSound ==
  /\ \A k \in DOMAIN proc.queue : EventSound(proc.queue[k])
  /\ InHand => EventSound(proc.doing.event)

\* A check that runs was asked for.
ChecksSound ==
  \A c \in proc.checking :
    \E a \in issued : a.kind = "RunCommand" /\ c.ticket = <<a.stage, a.attempt>>

\* What ends a task, and what answers a merge.
EndKinds == {"TaskDone", "TaskCancelled", "TaskFailed"}
AnswerKinds == {"MergeFailed", "MergeCompleted"}

\* What speaks for a head; the engine never posts it.
Verdicts == {"CommandPassed", "ApprovalGranted"}

MergeAsked == proc.doing.at = "act" /\ \E a \in proc.doing.acts : a.kind = "Merge"

\* The engine merges only the current head of a task that is merging, and
\* cleans up only after a task that is closed.
DoingSound ==
  /\ proc.doing.at \in MergeSteps =>
       /\ MergeInFlight(Flow, row.st)
       /\ proc.doing.ticket = Ticket(row.st)
       /\ proc.doing.head = row.st.current_head
  /\ proc.doing.at \in LateSteps => Used(proc.doing.head)
  /\ proc.doing.at = "moved" => OnMain(proc.doing.head)
  /\ MergeAsked =>
       /\ MergeInFlight(Flow, row.st)
       /\ \A a \in proc.doing.acts : a.kind = "Merge" => a.head = row.st.current_head
  /\ proc.doing.at = "act" /\ (\E a \in proc.doing.acts : a.kind \in EndKinds) =>
       Closed(row.status)
  /\ proc.doing.at = "cleanup" => Closed(row.status)

Core ==
  /\ Types /\ Machine /\ StatusSound /\ BranchSound /\ EventsSound /\ ChecksSound
  /\ DoingSound

-----------------------------------------------------------------------------
(* What step() asks of the forge.                                          *)

\* Neither a merge nor the end of the task.
Quiet(A) == \A a \in A : a.kind \notin EndKinds \cup {"Merge"}

\* The result n of a step asks for the merge of its current head and for
\* nothing else, and has reported no end but its own.
Apt(w, n) ==
  /\ \A a \in n.actions : a.kind = "Merge" => MergeInFlight(w, n) /\ a.head = n.current_head
  /\ \A a \in n.actions : a.kind \in EndKinds => n.status \in Terminal
  /\ n.status = "done" => ~HasMerge(w)

\* Giving up.
LEMMA FailTaskApt ==
  ASSUME NEW w, NEW s \in Copies(w), NEW stage, Quiet(s.actions)
  PROVE  Apt(w, FailTask(s, stage)) /\ FailTask(s, stage).actions # {}
<1> DEFINE act == Act("TaskFailed", stage, 0)
           f == [s EXCEPT !.status = "failed"]
           c == ClearPartial(f)
           n == FailTask(s, stage)
<1>1. f \in Copies(w) /\ f.actions = s.actions /\ f.status = "failed"
  BY DEF Copies, Status
<1> HIDE DEF f
<1>2. c \in Copies(w) /\ c.actions = s.actions /\ c.status = "failed"
  BY <1>1, ClearPartialProperties
<1>3. n = [c EXCEPT !.actions = @ \cup {act}]
  BY DEF FailTask, Emit, f
<1> HIDE DEF c, n
<1>4. n.actions = s.actions \cup {act} /\ n.status = "failed"
  BY <1>2, <1>3 DEF Copies
<1>5. act.kind = "TaskFailed"
  BY DEF Act
<1> HIDE DEF act
<1> QED  BY <1>4, <1>5 DEF Apt, Quiet, EndKinds, Terminal, n

\* A merge stage that is entered asks for the merge of the current head.
LEMMA BeginAttemptApt ==
  ASSUME NEW w, Valid(w), NEW s \in Copies(w), s.status = "running",
         NEW j \in Index(w), Quiet(s.actions), BeginAttempt(w, s, j).status # "refused"
  PROVE  Apt(w, BeginAttempt(w, s, j)) /\ BeginAttempt(w, s, j).actions # {}
<1> DEFINE c == ClearPartial(s)
           n == [c EXCEPT !.stage_index = j, !.pending_work_reason = FALSE,
                          !.attempts = OneMore(@, j)]
           t == Act("ScheduleTimeout", j, n.attempts[j])
           r == RequestFor(w, n, j)
           e == Emit(n, {t, r})
           b == BeginAttempt(w, s, j)
<1>1. s.attempts \in [Index(w) -> Nat] /\ j \in 1 .. Len_(w) + 1
  BY LengthIsNat DEF Copies, Valid
<1>2. c \in Copies(w) /\ c.attempts = s.attempts /\ c.actions = s.actions /\ c.status = "running"
  BY ClearPartialProperties
<1>3. OneMore(s.attempts, j) \in [Index(w) -> Nat]
  BY <1>1, OneMoreProperties
<1> HIDE DEF c
<1>4. /\ n.stage_index = j /\ n.actions = s.actions /\ n.status = "running"
      /\ n.current_head = c.current_head
  BY <1>2 DEF Copies
<1>5. b = IF IsKind(w, j, "command") /\ MissingValue(w, n, j) THEN FailTask(n, j)
          ELSE IF IsKind(w, j, "merge") /\ ~MergeGate(w, n, j) THEN Refused(n)
          ELSE e
  BY DEF BeginAttempt, c
<1>6. n \in Copies(w)
  BY <1>1, <1>2, <1>3, ZenonT(60) DEF Copies
<1>7. t.kind = "ScheduleTimeout"
  BY DEF Act
<1>8. /\ r.kind \in RequestKind
      /\ r.kind = "Merge" => KindAt(w, j) = "merge" /\ r.head = n.current_head
  <2>1. w.stages[j] \in Stages
    BY StageType
  <2>2. KindAt(w, j) \in StageKind
    BY <2>1 DEF Stages, KindAt
  <2>3. r.kind = "Merge" => KindAt(w, j) = "merge"
    BY <2>2 DEF RequestFor, StageKind
  <2>4. KindAt(w, j) = "merge" => NeedsHead(w, j)
    BY DEF NeedsHead, IsKind
  <2> QED  BY <2>3, <2>4, RequestForFields DEF RequestFor
<1>9. Refused(n).status = "refused"
  BY <1>6 DEF Refused, Copies
<1> HIDE DEF n, b
<1>10. CASE b = FailTask(n, j)
  BY <1>4, <1>6, <1>10, FailTaskApt DEF b
<1>11. CASE b = e
  <2>1. b.actions = s.actions \cup {t, r}
    BY <1>4, <1>6, <1>11 DEF Emit, Copies
  <2>2. /\ b.status = "running" /\ b.stage_index = j
        /\ b.current_head = n.current_head
    BY <1>4, <1>6, <1>11, EmitProperties, EmitFields DEF Same
  <2> HIDE DEF t, r
  <2>3. r.kind = "Merge" => MergeInFlight(w, b) /\ r.head = b.current_head
    BY <1>8, <2>2 DEF MergeInFlight, InStage, IsKind
  <2> QED  BY <1>7, <1>8, <2>1, <2>2, <2>3 DEF Apt, Quiet, EndKinds, RequestKind, b
<1> QED  BY <1>5, <1>9, <1>10, <1>11 DEF b

\* Entering a stage; a workflow with a merge is done only by merging.
LEMMA EnterStageApt ==
  ASSUME NEW w, Valid(w), NEW s \in Copies(w), s.status = "running", Quiet(s.actions),
         NEW i \in 1 .. Len_(w) + 1, HasMerge(w) => i <= Len_(w),
         EnterStage(w, s, i).status # "refused"
  PROVE  /\ Apt(w, EnterStage(w, s, i)) /\ EnterStage(w, s, i).actions # {}
         /\ EnterStage(w, s, i).status = "running" =>
              EnterStage(w, s, i).stage_index = EntryStage(w, s, i)
<1> DEFINE j == EntryStage(w, s, i)
           r == ResetFanoutAt(w, s, j)
           n == EnterStage(w, s, i)
<1>1. j \in i .. Len_(w) + 1 /\ Len_(w) \in Nat /\ Index(w) = 1 .. Len_(w)
  BY EntryStageProperties, LengthIsNat DEF Valid
<1>2. CASE j > Len_(w)
  <2> DEFINE c == ClearPartial(s)
             m == [c EXCEPT !.pending_work_reason = FALSE]
             f == IF i <= Len_(w) THEN m ELSE s
             o == [f EXCEPT !.stage_index = Len_(w) + 1, !.status = "done"]
             act == Act("TaskDone", 0, 0)
  <2>1. n = [o EXCEPT !.actions = @ \cup {act}]
    BY <1>2 DEF EnterStage, FinishTask, Emit
  <2>2. c \in Copies(w) /\ c.actions = s.actions
    BY ClearPartialProperties
  <2> HIDE DEF c
  <2>3. m \in Copies(w) /\ m.actions = s.actions
    BY <2>2 DEF Copies
  <2>4. f \in Copies(w) /\ f.actions = s.actions
    BY <2>3
  <2> HIDE DEF f
  <2>5. o.actions = s.actions /\ o.status = "done" /\ DOMAIN o = DOMAIN f
    BY <2>4 DEF Copies
  <2>6. DOMAIN f = DOMAIN s /\ {"actions", "status"} \subseteq DOMAIN s
    BY <2>4 DEF Copies
  <2>7. act.kind = "TaskDone"
    BY DEF Act
  <2> HIDE DEF o, act
  <2>8. n.actions = s.actions \cup {act} /\ n.status = "done"
    BY <2>1, <2>5, <2>6
  <2>9. ~HasMerge(w)
    <3> SUFFICES ASSUME HasMerge(w) PROVE FALSE
      OBVIOUS
    <3>1. PICK k \in Index(w) : IsKind(w, k, "merge") /\ k = Len_(w)
      BY DEF HasMerge, Valid, StaticRules, MergeRules
    <3>2. ApprovalForStage(w, s, k)
      BY <1>1, <1>2, <3>1, EntryStageProperties
    <3> QED  BY <3>1, <3>2 DEF ApprovalForStage, IsKind
  <2> HIDE DEF n
  <2> QED  BY <2>7, <2>8, <2>9 DEF Apt, Quiet, EndKinds, Terminal, n
<1>3. CASE ~(j > Len_(w))
  <2>1. j \in Index(w)
    BY <1>1, <1>3
  <2>2. n = BeginAttempt(w, r, j)
    BY <1>3 DEF EnterStage
  <2>3. n.status = "running" => n.stage_index = j
    BY <1>1, <1>3, EnterStageFields DEF Entered
  <2> HIDE DEF j
  <2>4. r \in Copies(w) /\ r.status = "running"
    BY ResetFanoutFields
  <2>5. r.actions = s.actions
    BY ResetFanoutActions
  <2> HIDE DEF r
  <2>6. Apt(w, n) /\ n.actions # {}
    BY <2>1, <2>2, <2>4, <2>5, BeginAttemptApt
  <2> QED  BY <2>3, <2>6 DEF j
<1> QED  BY <1>2, <1>3

\* Going back to a work stage.
LEMMA ReturnToWorkApt ==
  ASSUME NEW w, Valid(w), NEW s \in Copies(w), s.status = "running",
         NEW target \in Index(w), IsKind(w, target, "work"), Quiet(s.actions)
  PROVE  LET n == ReturnToWork(w, s, target)
         IN  Apt(w, n) /\ n.actions # {} /\ n.stage_index = target
<1> DEFINE f == ForgetFrom(w, s, target)
           c == ClearFanout(f)
           g == IF FanoutAtOrAfter(w, target) THEN c ELSE f
           n == [g EXCEPT !.work_product = None, !.pending_work_reason = TRUE,
                          !.stage_index = target, !.attempts = OneMore(@, target)]
           t == Act("ScheduleTimeout", target, n.attempts[target])
           r == Act("ReturnToWork", target, n.attempts[target])
           e == ReturnToWork(w, s, target)
<1>1. f \in Copies(w) /\ f.actions = s.actions /\ f.status = "running"
  BY ForgetFromProperties DEF Frame
<1> HIDE DEF f
<1>2. c \in Copies(w) /\ c.actions = s.actions /\ c.status = "running"
  BY <1>1, ClearFanoutFields
<1> HIDE DEF c
<1>3. g \in Copies(w) /\ g.actions = s.actions /\ g.status = "running"
  BY <1>1, <1>2
<1>4. e = [n EXCEPT !.actions = @ \cup {t, r}]
  BY DEF ReturnToWork, Emit, f, c
<1> HIDE DEF g
<1>5. /\ n.stage_index = target /\ n.actions = s.actions /\ n.status = "running"
      /\ {"stage_index", "actions", "status"} \subseteq DOMAIN n
  BY <1>3 DEF Copies
<1> HIDE DEF n
<1>6. t.kind = "ScheduleTimeout" /\ r.kind = "ReturnToWork"
  BY DEF Act
<1> HIDE DEF t, r
<1>7. e.actions = s.actions \cup {t, r} /\ e.stage_index = target /\ e.status = "running"
  BY <1>4, <1>5
<1> HIDE DEF e
<1>8. Apt(w, e) /\ e.actions # {}
  BY <1>6, <1>7 DEF Apt, Quiet, EndKinds
<1> QED  BY <1>7, <1>8 DEF e

\* A running copy that asks for nothing of the forge.
LEMMA QuietApt ==
  ASSUME NEW w, NEW n, Quiet(n.actions), n.status = "running"
  PROVE  Apt(w, n)
  BY DEF Apt, Quiet

\* A workflow with a merge has something left to do after any other stage.
LEMMA MergeAhead ==
  ASSUME NEW w, Valid(w), NEW i \in Index(w), ~IsKind(w, i, "merge")
  PROVE  i + 1 \in 1 .. Len_(w) + 1 /\ (HasMerge(w) => i + 1 <= Len_(w))
<1>1. Len_(w) \in Nat /\ Index(w) = 1 .. Len_(w)
  BY LengthIsNat DEF Valid
<1>2. HasMerge(w) => IsKind(w, Len_(w), "merge")
  BY DEF HasMerge, Valid, StaticRules, MergeRules
<1> QED  BY <1>1, <1>2

\* The result of a head change: nothing, another attempt of a stage before the
\* merge, or a new head where no result is waited for.
Spoken(w, s, n) ==
  \/ n = s
  \/ Apt(w, n) /\ n.actions # {} /\ ~MergeInFlight(w, n)
  \/ /\ s.status = "running" /\ KindAt(w, s.stage_index) \in {"work", "submit"}
     /\ n.status = "running" /\ n.stage_index = s.stage_index /\ n.actions = s.actions

\* A new head never leads straight to the merge: there is a check to redo.
LEMMA RecheckForNewHeadApt ==
  ASSUME NEW w, Valid(w), NEW n \in Copies(w), n.status = "running",
         n.stage_index \in Index(w), Quiet(n.actions),
         RecheckForNewHead(w, n).status # "refused"
  PROVE  LET r == RecheckForNewHead(w, n)
         IN  \/ Apt(w, r) /\ r.actions # {} /\ ~MergeInFlight(w, r)
             \/ r = n /\ KindAt(w, n.stage_index) \in {"work", "submit"}
<1> DEFINE i == n.stage_index
           t == RecheckTarget(w, i)
           r == RecheckForNewHead(w, n)
<1>1. Len_(w) \in Nat /\ Index(w) = 1 .. Len_(w)
  BY LengthIsNat DEF Valid
<1>2. r = IF t # 0 THEN EnterStage(w, n, t) ELSE RestartIfCollected(w, n)
  BY DEF RecheckForNewHead
<1>3. /\ t # 0 => t \in Index(w) /\ t <= i /\ \A j \in Index(w) : j < t => ~IsHeadBound(w, j)
      /\ t = 0 => \A j \in Index(w) : j < i => ~IsHeadBound(w, j)
  BY RecheckTargetProperties
<1> HIDE DEF r
<1>4. ASSUME NEW j \in Index(w), r = EnterStage(w, n, j),
             \A k \in Index(w) : IsKind(w, k, "command") => j <= k
      PROVE  Apt(w, r) /\ r.actions # {} /\ ~MergeInFlight(w, r)
  <2>1. j \in 1 .. Len_(w) + 1 /\ j <= Len_(w)
    BY <1>1
  <2>2. /\ Apt(w, r) /\ r.actions # {}
        /\ r.status = "running" => r.stage_index = EntryStage(w, n, j)
    BY <1>4, <2>1, EnterStageApt DEF r
  <2>3. ~MergeInFlight(w, r)
    <3> SUFFICES ASSUME MergeInFlight(w, r) PROVE FALSE
      OBVIOUS
    <3>1. IsKind(w, EntryStage(w, n, j), "merge")
      BY <2>2 DEF MergeInFlight, InStage
    <3>2. PICK k \in Index(w) : k < EntryStage(w, n, j) /\ IsKind(w, k, "command")
      BY <3>1 DEF Valid, StaticRules, MergeRules, IsKind
    <3>3. ApprovalForStage(w, n, k)
      BY <1>1, <1>4, <2>1, <3>2, EntryStageProperties
    <3> QED  BY <3>2, <3>3 DEF ApprovalForStage, IsKind
  <2> QED  BY <2>2, <2>3
<1>5. CASE t # 0
  <2>1. \A k \in Index(w) : IsKind(w, k, "command") => t <= k
    BY <1>1, <1>3, <1>5 DEF IsHeadBound
  <2> HIDE DEF t
  <2> QED  BY <1>2, <1>3, <1>4, <1>5, <2>1 DEF r
<1>6. CASE t = 0
  <2>1. ~IsKind(w, i, "command") /\ ~IsKind(w, i, "merge")
    BY <1>6, CommandRecheckTarget, MergeRecheckTarget
  <2>2. r = IF InStage(w, n, "approval") \/ InStage(w, n, "fanout")
            THEN EnterStage(w, n, i) ELSE n
    BY <1>2, <1>6 DEF RestartIfCollected
  <2>3. \A k \in Index(w) : IsKind(w, k, "command") => i <= k
    BY <1>1, <1>3, <1>6, <2>1 DEF IsHeadBound
  <2> HIDE DEF t
  <2>4. CASE InStage(w, n, "approval") \/ InStage(w, n, "fanout")
    BY <1>4, <2>2, <2>3, <2>4 DEF r
  <2>5. CASE ~(InStage(w, n, "approval") \/ InStage(w, n, "fanout"))
    <3>1. w.stages[i] \in Stages
      BY StageType
    <3>2. KindAt(w, i) \in StageKind
      BY <3>1 DEF Stages, KindAt
    <3>3. KindAt(w, i) \in {"work", "submit"}
      BY <2>1, <2>5, <3>2 DEF StageKind, InStage, IsKind
    <3> QED  BY <2>2, <2>5, <3>3 DEF r
  <2> QED  BY <2>4, <2>5
<1> QED  BY <1>5, <1>6

\* A copy m of s with another head.
LEMMA RecheckSpoken ==
  ASSUME NEW w, Valid(w), NEW s, s.status = "running", s.stage_index \in Index(w),
         Quiet(s.actions),
         NEW m \in Copies(w), m.status = "running", m.stage_index = s.stage_index,
         m.actions = s.actions, RecheckForNewHead(w, m).status # "refused"
  PROVE  Spoken(w, s, RecheckForNewHead(w, m))
<1> DEFINE r == RecheckForNewHead(w, m)
<1>1. \/ Apt(w, r) /\ r.actions # {} /\ ~MergeInFlight(w, r)
      \/ r = m /\ KindAt(w, m.stage_index) \in {"work", "submit"}
  BY RecheckForNewHeadApt
<1> HIDE DEF r
<1>2. Spoken(w, s, r)
  BY <1>1 DEF Spoken
<1> QED  BY <1>2 DEF r

\* The main branch moved.
LEMMA MainAdvancedSpoken ==
  ASSUME NEW w, Valid(w), NEW s, StepInv(w, s), s.status = "running", Quiet(s.actions),
         NEW head \in Heads, NEW patch \in Patches, NEW conflict \in BOOLEAN
  PROVE  Spoken(w, s, MainAdvanced(w, s, head, patch, conflict))
<1> DEFINE i == s.stage_index
           n == IF conflict THEN InvalidateHeadBound(w, s)
                ELSE RecordNewHead(w, s, head, patch)
           work == PreviousWork(w, i)
           result == MainAdvanced(w, s, head, patch, conflict)
<1> SUFFICES Spoken(w, s, result)
  OBVIOUS
<1>1. /\ s \in Copies(w) /\ i \in Index(w) /\ Records(w, s)
      /\ Covered(w, s, i) /\ Settled(w, s, i)
  BY DEF StepInv, Position
<1>2. result.status # "refused"
  <2>1. StepInv(w, result)
    BY MainAdvancedStepInv
  <2> HIDE DEF result
  <2> QED  BY <2>1 DEF StepInv
<1>3. CASE result = s
  BY <1>3 DEF Spoken
<1>4. CASE ~(~s.branch \/ (~conflict /\ s.current_head = head))
  <2>1. s.current_head # None
    BY <1>1, <1>4 DEF Records
  <2>2. result =
          IF KindAt(w, i) \in {"work", "submit"} THEN
            IF conflict THEN s ELSE RecheckForNewHead(w, RecordNewHead(w, s, head, patch))
          ELSE IF ~conflict /\ patch = ApprovedPatch(s) THEN KeepApprovals(w, s, head, patch)
          ELSE IF work # 0 THEN ReturnToWork(w, n, work) ELSE FailTask(n, i)
    BY <1>4, <2>1 DEF MainAdvanced
  <2>3. /\ n \in Copies(w) /\ n.status = "running" /\ n.stage_index = i
        /\ n.actions = s.actions
    <3>1. CASE conflict
      <4>1. n = InvalidateHeadBound(w, s)
        BY <3>1
      <4> HIDE DEF n
      <4> QED  BY <1>1, <4>1, InvalidateHeadBoundProperties DEF Frame
    <3>2. CASE ~conflict
      <4>1. n = RecordNewHead(w, s, head, patch)
        BY <3>2
      <4> HIDE DEF n
      <4> QED  BY <1>1, <4>1, RecordNewHeadProperties, RecordNewHeadFields
    <3> QED  BY <3>1, <3>2
  <2>4. ~conflict => n = RecordNewHead(w, s, head, patch)
    OBVIOUS
  <2> HIDE DEF n, result
  <2>5. CASE ~conflict /\ result = RecheckForNewHead(w, RecordNewHead(w, s, head, patch))
    BY <1>1, <1>2, <2>3, <2>4, <2>5, RecheckSpoken
  <2>6. CASE /\ ~conflict /\ patch = ApprovedPatch(s)
             /\ result = KeepApprovals(w, s, head, patch)
    <3>1. s.current_head # head
      BY <1>4, <2>6
    <3>2. PICK m \in Copies(w) :
            /\ KeepApprovals(w, s, head, patch) = RecheckForNewHead(w, m)
            /\ Rebased(w, s, m, head, patch)
      BY <1>1, <2>1, <2>6, <3>1, KeepApprovalsProperties
    <3> QED  BY <1>1, <1>2, <2>6, <3>2, RecheckSpoken DEF Rebased
  <2>7. CASE work # 0 /\ result = ReturnToWork(w, n, work)
    <3>1. work \in Index(w) /\ IsKind(w, work, "work")
      BY <1>1, <2>7, PreviousWorkProperties
    <3> HIDE DEF work
    <3>2. Apt(w, result) /\ result.actions # {} /\ result.stage_index = work
      BY <2>3, <2>7, <3>1, ReturnToWorkApt
    <3> QED  BY <3>1, <3>2 DEF Spoken, MergeInFlight, InStage, IsKind
  <2>8. CASE result = FailTask(n, i)
    <3>1. Apt(w, result) /\ result.actions # {} /\ result.status = "failed"
      BY <2>3, <2>8, FailTaskApt, FailTaskFields
    <3> QED  BY <3>1 DEF Spoken, MergeInFlight, InStage
  <2> QED  BY <1>3, <2>2, <2>5, <2>6, <2>7, <2>8
<1>5. ~s.branch \/ (~conflict /\ s.current_head = head) => result = s
  BY DEF MainAdvanced
<1> QED  BY <1>3, <1>4, <1>5

\* Any head change.
LEMMA ApplyHeadChangeSpoken ==
  ASSUME NEW w, Valid(w), NEW s, StepInv(w, s), Quiet(s.actions), NEW c \in HeadChange
  PROVE  Spoken(w, s, ApplyHeadChange(w, s, c))
<1> DEFINE result == ApplyHeadChange(w, s, c)
<1> SUFFICES Spoken(w, s, result)
  OBVIOUS
<1>1. c.head \in Heads /\ c.patch \in Patches /\ c.conflict \in BOOLEAN
  BY DEF HeadChange
<1>2. result.status # "refused"
  <2>1. StepInv(w, result)
    BY ApplyHeadChangeStepInv
  <2> HIDE DEF result
  <2> QED  BY <2>1 DEF StepInv
<1>3. CASE s.status # "running" \/ (c.kind # "main" /\ s.current_head = c.head)
  BY <1>3 DEF ApplyHeadChange, Spoken
<1>4. CASE s.status = "running" /\ c.kind = "main"
  <2>1. Spoken(w, s, MainAdvanced(w, s, c.head, c.patch, c.conflict))
    BY <1>1, <1>4, MainAdvancedSpoken
  <2> QED  BY <1>4, <2>1 DEF ApplyHeadChange
<1>5. CASE s.status = "running" /\ c.kind # "main" /\ s.current_head # c.head
  <2> DEFINE m == RecordNewHead(w, s, c.head, c.patch)
  <2>1. s \in Copies(w) /\ s.stage_index \in Index(w)
    BY <1>5 DEF StepInv, Position
  <2>2. /\ m \in Copies(w) /\ m.status = "running" /\ m.stage_index = s.stage_index
        /\ m.actions = s.actions
    BY <1>1, <1>5, <2>1, RecordNewHeadProperties, RecordNewHeadFields
  <2>3. result = RecheckForNewHead(w, m)
    BY <1>5 DEF ApplyHeadChange
  <2> HIDE DEF m, result
  <2> QED  BY <1>2, <1>5, <2>1, <2>2, <2>3, RecheckSpoken
<1> QED  BY <1>3, <1>4, <1>5

\* A head change, recorded while the merge is in flight, else applied.
LEMMA HeadChangedApt ==
  ASSUME NEW w, Valid(w), NEW s, StepInv(w, s), s.actions = {}, s.status = "running",
         NEW c \in HeadChange
  PROVE  LET n == HeadChanged(w, s, c)
         IN  /\ Apt(w, n)
             /\ MergeInFlight(w, s) =>
                  /\ n.actions = {} /\ n.status = "running" /\ n.stage_index = s.stage_index
                  /\ n.attempts = s.attempts /\ n.current_head = s.current_head
<1> DEFINE n == HeadChanged(w, s, c)
<1>1. s \in Copies(w) /\ Quiet(s.actions)
  BY DEF StepInv, Quiet
<1>2. CASE ~MergeInFlight(w, s)
  <2>1. Spoken(w, s, n)
    BY <1>1, <1>2, ApplyHeadChangeSpoken DEF HeadChanged
  <2> HIDE DEF n
  <2>2. Apt(w, n)
    BY <1>1, <2>1, QuietApt DEF Spoken
  <2> QED  BY <1>2, <2>2 DEF n
<1>3. CASE MergeInFlight(w, s)
  <2> DEFINE q == IF c.kind = "commit" /\ s.current_head = c.head
                  THEN <<>> ELSE Append(s.pending_head_changes, c)
             m == [s EXCEPT !.pending_head_changes = q]
  <2>1. n = m
    BY <1>3 DEF HeadChanged
  <2> HIDE DEF q
  <2>2. /\ m.actions = {} /\ m.status = "running" /\ m.stage_index = s.stage_index
        /\ m.attempts = s.attempts /\ m.current_head = s.current_head
    BY <1>1 DEF Copies
  <2> HIDE DEF m, n
  <2>3. Apt(w, n)
    BY <2>1, <2>2, QuietApt DEF Quiet
  <2> QED  BY <2>1, <2>2, <2>3 DEF n
<1> QED  BY <1>2, <1>3

\* Between the recorded head changes of a failed merge, the task is not merging
\* unless nothing was asked yet.
Unasked(w, n) == Apt(w, n) /\ (MergeInFlight(w, n) => n.actions = {})

\* One recorded head change.
LEMMA ApplyPendingApt ==
  ASSUME NEW w, Valid(w), NEW s, StepInv(w, s), Unasked(w, s), NEW c \in HeadChange
  PROVE  Unasked(w, ApplyPending(w, s, c))
<1> DEFINE none == {}
           h == [s EXCEPT !.actions = none]
           g == ApplyHeadChange(w, h, c)
           q == [g EXCEPT !.actions = s.actions]
           r == ApplyPending(w, s, c)
<1> SUFFICES Unasked(w, r)
  OBVIOUS
<1>1. s \in Copies(w) /\ none \in SUBSET Action
  BY DEF StepInv
<1>2. StepInv(w, h)
  BY <1>1, SetActionsStepInv
<1>3. /\ h.actions = {} /\ h.status = s.status /\ h.stage_index = s.stage_index
      /\ h.current_head = s.current_head
  BY <1>1 DEF Copies
<1>4. r = IF g.actions = {} THEN q ELSE g
  BY DEF ApplyPending
<1> HIDE DEF h, r
<1>5. Spoken(w, h, g)
  BY <1>2, <1>3, ApplyHeadChangeSpoken DEF Quiet
<1>6. g \in Copies(w)
  BY <1>2, ApplyHeadChangeStepInv DEF StepInv
<1> HIDE DEF g
<1>7. /\ q.actions = s.actions /\ q.status = g.status /\ q.stage_index = g.stage_index
      /\ q.current_head = g.current_head
  BY <1>6 DEF Copies
<1> HIDE DEF q
<1>8. CASE g = h
  BY <1>3, <1>4, <1>7, <1>8 DEF Unasked, Apt, MergeInFlight, InStage
<1>9. CASE Apt(w, g) /\ g.actions # {} /\ ~MergeInFlight(w, g)
  BY <1>4, <1>9 DEF Unasked
<1>10. CASE /\ h.status = "running" /\ KindAt(w, h.stage_index) \in {"work", "submit"}
            /\ g.status = "running" /\ g.stage_index = h.stage_index
            /\ g.actions = h.actions
  <2>1. /\ r.actions = s.actions /\ r.status = "running" /\ s.status = "running"
        /\ r.stage_index = s.stage_index
    BY <1>3, <1>4, <1>7, <1>10
  <2>2. ~MergeInFlight(w, r) /\ ~MergeInFlight(w, s)
    BY <1>3, <1>10, <2>1 DEF MergeInFlight, InStage, IsKind
  <2>3. Quiet(r.actions)
    BY <2>1, <2>2 DEF Unasked, Apt, Quiet, Terminal
  <2> QED  BY <2>1, <2>2, <2>3, QuietApt DEF Unasked
<1> QED  BY <1>5, <1>8, <1>9, <1>10 DEF Spoken

\* All of them.
LEMMA DrainedApt ==
  ASSUME NEW w, Valid(w), NEW s, StepInv(w, s), s.actions = {}, s.status = "running"
  PROVE  LET n == Drained(w, s)[Len(s.pending_head_changes)]
         IN  StepInv(w, n) /\ Unasked(w, n)
<1> DEFINE q == s.pending_head_changes
           d == Drained(w, s)
           Good(k) == StepInv(w, d[k]) /\ Unasked(w, d[k])
           D == {k \in Nat : k <= Len(q) /\ ~Good(k)}
<1>1. s \in Copies(w) /\ q \in Seq(HeadChange) /\ Len(q) \in Nat
  BY DEF StepInv, Copies
<1>2. /\ d[0] = [s EXCEPT !.pending_head_changes = <<>>]
      /\ \A k \in Nat : d[k + 1] = ApplyPending(w, d[k], q[k + 1])
  BY DrainedRecursion
<1> HIDE DEF d
<1>3. Good(0)
  <2> DEFINE empty == <<>>
             n == [s EXCEPT !.pending_head_changes = empty]
  <2>1. empty \in Seq(HeadChange) /\ d[0] = n
    BY <1>2
  <2> HIDE DEF empty
  <2>2. StepInv(w, n)
    BY <2>1, SetPendingStepInv
  <2>3. n.actions = {} /\ n.status = "running"
    BY <1>1 DEF Copies
  <2> HIDE DEF n
  <2> QED  BY <2>1, <2>2, <2>3, QuietApt DEF Unasked, Quiet
<1>4. D = {}
  <2> SUFFICES ASSUME D # {} PROVE FALSE
    OBVIOUS
  <2>1. PICK k \in D : \A j \in D : k <= j
    <3>1. D \in SUBSET Nat
      OBVIOUS
    <3> HIDE DEF D
    <3> QED  BY <3>1, LeastElement
  <2>2. k # 0
    BY <1>3, <2>1
  <2>3. k - 1 \in Nat /\ k - 1 <= Len(q) /\ ~(k <= k - 1) /\ (k - 1) + 1 = k
    BY <1>1, <2>1, <2>2
  <2>4. StepInv(w, d[k - 1]) /\ Unasked(w, d[k - 1])
    BY <2>1, <2>3
  <2>5. q[k] \in HeadChange
    BY <1>1, <2>1, <2>2
  <2>6. d[k] = ApplyPending(w, d[k - 1], q[k])
    BY <1>2, <2>3
  <2>7. StepInv(w, d[k])
    BY <2>4, <2>5, <2>6, ApplyPendingStepInv
  <2>8. Unasked(w, d[k])
    BY <2>4, <2>5, <2>6, ApplyPendingApt
  <2> QED  BY <2>1, <2>7, <2>8
<1>5. Len(q) \notin D
  BY <1>4
<1>6. Good(Len(q))
  BY <1>1, <1>5
<1> QED  BY <1>6 DEF d

\* A merge that failed.
LEMMA MergeFailedApt ==
  ASSUME NEW w, Valid(w), NEW s, StepInv(w, s), s.actions = {}, s.status = "running"
  PROVE  Apt(w, MergeFailedState(w, s))
<1> DEFINE n == Drained(w, s)[Len(s.pending_head_changes)]
           t == RecheckTarget(w, n.stage_index)
           r == MergeFailedState(w, s)
<1> SUFFICES Apt(w, r)
  OBVIOUS
<1>1. Len_(w) \in Nat /\ Index(w) = 1 .. Len_(w)
  BY LengthIsNat DEF Valid
<1>2. StepInv(w, n) /\ Unasked(w, n)
  BY DrainedApt
<1>3. r = IF ~MergeInFlight(w, n) THEN n ELSE IF t = 0 THEN Refused(n) ELSE EnterStage(w, n, t)
  BY DEF MergeFailedState
<1>4. StepInv(w, r)
  BY MergeFailedStepInv
<1> HIDE DEF n, r
<1>5. CASE ~MergeInFlight(w, n)
  BY <1>2, <1>3, <1>5 DEF Unasked
<1>6. CASE MergeInFlight(w, n)
  <2>1. /\ n \in Copies(w) /\ n.status = "running" /\ n.stage_index \in Index(w)
        /\ IsKind(w, n.stage_index, "merge")
    BY <1>2, <1>6 DEF MergeInFlight, InStage, StepInv, Position
  <2>2. t # 0 /\ t \in Index(w)
    BY <2>1, MergeRecheckTarget, RecheckTargetProperties
  <2> HIDE DEF t
  <2>3. r = EnterStage(w, n, t) /\ t \in 1 .. Len_(w) + 1 /\ t <= Len_(w)
    BY <1>1, <1>3, <1>6, <2>2
  <2>4. r.status # "refused"
    BY <1>4 DEF StepInv
  <2>5. Quiet(n.actions)
    BY <1>2, <1>6 DEF Unasked, Quiet
  <2> QED  BY <2>1, <2>3, <2>4, <2>5, EnterStageApt
<1> QED  BY <1>5, <1>6

\* A failure.
LEMMA FailStageApt ==
  ASSUME NEW w, Valid(w), NEW s, StepInv(w, s), s.actions = {}, s.status = "running"
  PROVE  Apt(w, FailStage(w, s, s.stage_index))
<1> DEFINE i == s.stage_index
           target == FailureTarget(w, i)
<1>1. s \in Copies(w) /\ i \in Index(w) /\ Quiet(s.actions)
  BY DEF StepInv, Position, Quiet
<1>2. FailStage(w, s, i) = IF target # 0 THEN ReturnToWork(w, s, target) ELSE FailTask(s, i)
  BY DEF FailStage
<1>3. CASE target = 0
  BY <1>1, <1>2, <1>3, FailTaskApt
<1>4. CASE target # 0
  <2>1. w.stages[i].on_fail # 0 =>
          w.stages[i].on_fail < i /\ IsKind(w, w.stages[i].on_fail, "work")
    BY <1>1 DEF Valid, StaticRules, StageRules
  <2>2. target \in Index(w) /\ IsKind(w, target, "work")
    BY <1>1, <1>4, <2>1, PreviousWorkProperties DEF FailureTarget, IsKind
  <2> HIDE DEF target
  <2> QED  BY <1>1, <1>2, <1>4, <2>2, ReturnToWorkApt
<1> QED  BY <1>3, <1>4

\* A result that leaves a stage before the merge.
LEMMA AdvanceApt ==
  ASSUME NEW w, Valid(w), NEW i \in Index(w), ~IsKind(w, i, "merge"),
         NEW m \in Copies(w), m.status = "running", m.actions = {},
         EnterStage(w, m, i + 1).status # "refused"
  PROVE  Apt(w, EnterStage(w, m, i + 1))
<1>1. i + 1 \in 1 .. Len_(w) + 1 /\ (HasMerge(w) => i + 1 <= Len_(w))
  BY MergeAhead
<1>2. Quiet(m.actions)
  BY DEF Quiet
<1> QED  BY <1>1, <1>2, EnterStageApt

\* The start of the task.
LEMMA StartedApt ==
  ASSUME NEW w, Valid(w), NEW s \in Copies(w), s.actions = {},
         EnterStage(w, [s EXCEPT !.status = "running"], 1).status # "refused"
  PROVE  /\ Apt(w, EnterStage(w, [s EXCEPT !.status = "running"], 1))
         /\ Told(w, s, EnterStage(w, [s EXCEPT !.status = "running"], 1))
<1> DEFINE m == [s EXCEPT !.status = "running"]
<1>1. 1 \in 1 .. Len_(w) + 1 /\ 1 <= Len_(w)
  BY LengthIsNat DEF Valid
<1>2. /\ m \in Copies(w) /\ m.status = "running" /\ m.actions = {}
      /\ m.attempts = s.attempts
  BY DEF Copies, Status
<1> HIDE DEF m
<1>3. Quiet(m.actions)
  BY <1>2 DEF Quiet
<1>4. EnterStage(w, m, 1).status # "refused"
  BY DEF m
<1>5. Apt(w, EnterStage(w, m, 1))
  BY <1>1, <1>2, <1>3, <1>4, EnterStageApt
<1>6. Told(w, s, EnterStage(w, m, 1))
  BY <1>1, <1>2, <1>4, EnterTold
<1> QED  BY <1>5, <1>6 DEF m

\* Work with a branch.
LEMMA BranchProductApt ==
  ASSUME NEW w, Valid(w), NEW s, StepInv(w, s), s.status = "running", s.actions = {},
         IsBranchWork(w, s.stage_index), NEW head \in Heads, NEW patch \in Patches,
         BranchProduct(w, s, head, patch).status # "refused"
  PROVE  Apt(w, BranchProduct(w, s, head, patch))
<1> DEFINE i == s.stage_index + 1
<1>1. PICK n \in Copies(w) :
        /\ BranchProduct(w, s, head, patch) = EnterStage(w, n, i)
        /\ MayEnter(w, n, i) /\ n.actions = s.actions
  BY BranchProductMayEnter
<1>2. n.status = "running"
  BY <1>1 DEF MayEnter
<1>3. s.stage_index \in Index(w) /\ ~IsKind(w, s.stage_index, "merge")
  BY DEF IsBranchWork, IsKind
<1> QED  BY <1>1, <1>2, <1>3, AdvanceApt

\* A submission.
LEMMA ChangeSubmittedApt ==
  ASSUME NEW w, Valid(w), NEW s, StepInv(w, s), s.actions = {},
         InStage(w, s, "submit"), ChangeSubmitted(w, s).status # "refused"
  PROVE  Apt(w, ChangeSubmitted(w, s))
<1> DEFINE given == w.stages[s.stage_index].returns_change
           n == [s EXCEPT !.change_id = given]
           i == s.stage_index
<1>1. /\ s \in Copies(w) /\ s.status = "running"
      /\ i \in Index(w) /\ ~IsKind(w, i, "merge")
  BY DEF StepInv, InStage, IsKind
<1>2. given \in BOOLEAN
  BY <1>1, StageType DEF Stages
<1>3. ChangeSubmitted(w, s) = EnterStage(w, n, i + 1)
  BY DEF ChangeSubmitted
<1> HIDE DEF given
<1>4. n \in Copies(w) /\ n.status = "running" /\ n.actions = {}
  BY ZenonT(60), <1>1, <1>2 DEF Copies
<1> HIDE DEF n
<1>5. Apt(w, EnterStage(w, n, i + 1))
  BY <1>1, <1>3, <1>4, AdvanceApt
<1> QED  BY <1>3, <1>5

\* A check that passed.
LEMMA CheckSucceededApt ==
  ASSUME NEW w, Valid(w), NEW s, StepInv(w, s), s.actions = {}, InStage(w, s, "command"),
         NEW head, head = s.current_head, CheckSucceeded(w, s, head).status # "refused"
  PROVE  Apt(w, CheckSucceeded(w, s, head))
<1> DEFINE i == s.stage_index
           checks == s.passed_checks \cup {[stage |-> s.stage_index, head |-> head]}
           n == [s EXCEPT !.passed_checks = checks]
<1>1. /\ MayEnter(w, n, i + 1)
      /\ CheckSucceeded(w, s, head) = EnterStage(w, n, i + 1)
  BY CheckSucceededMayEnter
<1>2. s \in Copies(w) /\ i \in Index(w) /\ ~IsKind(w, i, "merge")
  BY DEF StepInv, InStage, IsKind
<1> HIDE DEF checks
<1>3. n.actions = {}
  BY <1>2 DEF Copies
<1> HIDE DEF n
<1>4. n \in Copies(w) /\ n.status = "running"
  BY <1>1 DEF MayEnter
<1>5. Apt(w, EnterStage(w, n, i + 1))
  BY <1>1, <1>2, <1>3, <1>4, AdvanceApt
<1> QED  BY <1>1, <1>5

\* An approval that picks no child.
LEMMA GrantedApt ==
  ASSUME NEW w, Valid(w), NEW s, StepInv(w, s), s.actions = {}, InStage(w, s, "approval"),
         NEW reviewer \in Reviewers, NEW choice \in Option(Children), NEW head,
         w.stages[s.stage_index].bind_head => s.current_head # None /\ head = s.current_head,
         ~PicksAt(w, s.stage_index), Granted(w, s, reviewer, head, choice).status # "refused"
  PROVE  Apt(w, Granted(w, s, reviewer, head, choice))
<1> DEFINE n == Granted(w, s, reviewer, head, choice)
           partly == Cardinality(Votes(s, reviewer)) < w.stages[s.stage_index].count
           i == s.stage_index
<1>1. i \in Index(w) /\ ~IsKind(w, i, "merge") /\ s.status = "running"
  BY DEF InStage, IsKind
<1>2. CASE partly
  <2>1. n.status = s.status /\ n.actions = s.actions
    BY <1>2, GrantedPartly
  <2> HIDE DEF n
  <2>2. Apt(w, n)
    BY <1>1, <2>1, QuietApt DEF Quiet
  <2> QED  BY <2>2 DEF n
<1>3. CASE ~partly
  <2>1. \E m \in Copies(w) :
          /\ n = EnterStage(w, m, i + 1) /\ MayEnter(w, m, i + 1) /\ m.actions = s.actions
    BY <1>3, GrantedMayEnter
  <2>2. PICK m \in Copies(w) :
          /\ n = EnterStage(w, m, i + 1) /\ MayEnter(w, m, i + 1) /\ m.actions = s.actions
    BY <2>1
  <2>3. m.status = "running"
    BY <2>2 DEF MayEnter
  <2>4. Apt(w, EnterStage(w, m, i + 1))
    BY <1>1, <2>2, <2>3, AdvanceApt
  <2> QED  BY <2>2, <2>4
<1> QED  BY <1>2, <1>3

\* A timeout that is only reported.
LEMMA NotifiedApt ==
  ASSUME NEW w, NEW s \in Copies(w), s.status = "running", s.actions = {},
         NEW stage, NEW pair
  PROVE  Apt(w, Emit([s EXCEPT !.notified_timeout = pair], {Act("NotifyTimeout", stage, 0)}))
<1> DEFINE m == [s EXCEPT !.notified_timeout = pair]
           act == Act("NotifyTimeout", stage, 0)
           n == Emit(m, {act})
<1> SUFFICES Apt(w, n)
  OBVIOUS
<1>1. act.kind = "NotifyTimeout"
  BY DEF Act
<1> HIDE DEF act
<1>2. n.actions = {act} /\ n.status = "running"
  BY DEF Emit, Copies
<1> HIDE DEF n
<1> QED  BY <1>1, <1>2, QuietApt DEF Quiet, EndKinds

\* A cancellation.
LEMMA CancelledApt ==
  ASSUME NEW w, NEW s \in Copies(w), s.actions = {}, NEW stage
  PROVE  Apt(w, Cancelled(s, stage))
<1> DEFINE f == [s EXCEPT !.status = "cancelled"]
           c == ClearPartial(f)
           act == Act("TaskCancelled", stage, 0)
           n == Cancelled(s, stage)
<1> SUFFICES Apt(w, n)
  OBVIOUS
<1>1. n.status = "cancelled"
  BY CancelledFields
<1>2. f \in Copies(w) /\ f.actions = {}
  BY DEF Copies, Status
<1> HIDE DEF f
<1>3. c \in Copies(w) /\ c.actions = {}
  BY <1>2, ClearPartialProperties
<1>4. act.kind = "TaskCancelled"
  BY DEF Act
<1>5. n = Emit(c, {act})
  BY DEF Cancelled, f
<1> HIDE DEF c, act, n
<1>6. n.actions = {act}
  BY <1>3, <1>5 DEF Emit, Copies
<1> QED  BY <1>1, <1>4, <1>6 DEF Apt, Terminal

\* A merge that happened ends the task and changes nothing else of it.
LEMMA MergedFields ==
  ASSUME NEW w, NEW s \in Copies(w), s.actions = {}, Merged(w, s).status # "refused"
  PROVE  LET n == Merged(w, s)
         IN  /\ n.status = "done" /\ n.current_head = s.current_head
             /\ \A a \in n.actions : a.kind = "TaskDone"
<1> DEFINE empty == <<>>
           m == [s EXCEPT !.merge_commit = TRUE, !.pending_head_changes = empty,
                          !.status = "done"]
           act == Act("TaskDone", 0, 0)
           n == Merged(w, s)
<1>1. n = Refused(s) \/ n = Emit(m, {act})
  BY DEF Merged
<1>2. Refused(s).status = "refused"
  BY DEF Refused, Copies
<1>3. n = Emit(m, {act})
  BY <1>1, <1>2
<1>4. act.kind = "TaskDone"
  BY DEF Act
<1> HIDE DEF act, n, empty
<1>5. n.status = "done" /\ n.current_head = s.current_head /\ n.actions = {act}
  BY <1>3 DEF Emit, Copies
<1> QED  BY <1>4, <1>5 DEF n

-----------------------------------------------------------------------------
(* The events of the engine.                                               *)

\* What the assumption says of the workflow, in the words of the lemmas.
LEMMA FlowFacts ==
  /\ Valid(Flow) /\ Len_(Flow) \in Nat /\ Index(Flow) = 1 .. Len_(Flow)
  /\ 1 \in Index(Flow) /\ IsBranchWork(Flow, 1)
  /\ \A i : ~IsKind(Flow, i, "fanout") /\ ~PicksAt(Flow, i)
  /\ \A i : IsKind(Flow, i, "work") => IsBranchWork(Flow, i)
<1>1. Valid(Flow) /\ Len_(Flow) \in Nat /\ Index(Flow) = 1 .. Len_(Flow)
  BY FlowAssumption, LengthIsNat DEF Valid
<1>2. 1 \in Index(Flow)
  BY <1>1, FlowAssumption
<1>3. \A i : ~IsKind(Flow, i, "fanout") /\ ~PicksAt(Flow, i)
  BY FlowAssumption DEF IsKind, PicksAt
<1>4. \A i : IsKind(Flow, i, "work") => IsBranchWork(Flow, i)
  BY FlowAssumption DEF IsKind
<1> QED  BY <1>1, <1>2, <1>3, <1>4, FlowAssumption

\* The results of the state machine, one for each event it accepts.
Replies(s, e, kind) == InStage(Flow, s, kind) /\ e.ticket = Ticket(s)
SameHead(s, e) == NeedsHead(Flow, s.stage_index) => e.head = s.current_head
Change(e, kind) ==
  [kind |-> kind, head |-> e.head, patch |-> e.patch, conflict |-> e.conflict]
TimesOut(s, e, action) ==
  /\ e.kind = "StageTimedOut" /\ s.status = "running" /\ ~MergeInFlight(Flow, s)
  /\ e.ticket = Ticket(s) /\ Flow.stages[s.stage_index].on_timeout = action

Answered(s, e, n) ==
  \/ /\ e.kind = "Start" /\ s.status = "pending"
     /\ n = EnterStage(Flow, [s EXCEPT !.status = "running"], 1)
  \/ /\ e.kind = "WorkCompleted" /\ Replies(s, e, "work")
     /\ n = BranchProduct(Flow, s, e.head, e.patch)
  \/ e.kind = "Submitted" /\ Replies(s, e, "submit") /\ n = ChangeSubmitted(Flow, s)
  \/ /\ e.kind = "CommandPassed" /\ Replies(s, e, "command") /\ SameHead(s, e)
     /\ n = CheckSucceeded(Flow, s, e.head)
  \/ /\ e.kind = "ApprovalGranted" /\ Replies(s, e, "approval") /\ SameHead(s, e)
     /\ n = Granted(Flow, s, e.reviewer, e.head, None)

Merges(s, e, n) ==
  \/ /\ e.kind = "MergeCompleted" /\ Replies(s, e, "merge") /\ SameHead(s, e)
     /\ n = Merged(Flow, s)
  \/ /\ e.kind = "MergeFailed" /\ Replies(s, e, "merge") /\ SameHead(s, e)
     /\ n = MergeFailedState(Flow, s)

Moves(s, e, n) ==
  \/ /\ e.kind = "CommitCreated" /\ s.status = "running"
     /\ n = HeadChanged(Flow, s, Change(e, "commit"))
  \/ /\ e.kind = "MainAdvanced" /\ s.status = "running"
     /\ n = HeadChanged(Flow, s, Change(e, "main"))

Fails(s, e, n) ==
  /\ \/ e.kind = "CommandFailed" /\ Replies(s, e, "command")
     \/ e.kind = "ChangesRequested" /\ Replies(s, e, "approval")
  /\ SameHead(s, e) /\ n = FailStage(Flow, s, s.stage_index)

GivesUp(s, e, n) ==
  \/ TimesOut(s, e, "cancel") /\ n = Cancelled(s, s.stage_index)
  \/ /\ TimesOut(s, e, "notify") /\ s.notified_timeout # e.ticket
     /\ n = Emit([s EXCEPT !.notified_timeout = e.ticket],
                 {Act("NotifyTimeout", s.stage_index, 0)})
  \/ /\ e.kind = "Cancel" /\ s.status \in {"pending", "running"} /\ ~MergeInFlight(Flow, s)
     /\ n = Cancelled(s, IF s.status = "pending" THEN 0 ELSE s.stage_index)

\* An accepted event has one of these results.
LEMMA StepCases ==
  ASSUME NEW s \in Copies(Flow), NEW e, Step(s, e).status # "refused"
  PROVE  LET n == Step(s, e)
         IN  Answered(s, e, n) \/ Merges(s, e, n) \/ Moves(s, e, n) \/ Fails(s, e, n)
               \/ GivesUp(s, e, n)
<1> DEFINE n == Step(s, e)
           i == s.stage_index
           k == e.kind
           v1 == EnterStage(Flow, [s EXCEPT !.status = "running"], 1)
           v2 == BranchProduct(Flow, s, e.head, e.patch)
           v3 == ChangeSubmitted(Flow, s)
           v4 == CheckSucceeded(Flow, s, e.head)
           v5 == FailStage(Flow, s, i)
           v6 == Granted(Flow, s, e.reviewer, e.head, None)
           v7 == HeadChanged(Flow, s, Change(e, "commit"))
           v8 == HeadChanged(Flow, s, Change(e, "main"))
           v9 == Merged(Flow, s)
           v10 == MergeFailedState(Flow, s)
           v11 == Cancelled(s, i)
           v12 == Emit([s EXCEPT !.notified_timeout = e.ticket], {Act("NotifyTimeout", i, 0)})
           v13 == Cancelled(s, IF s.status = "pending" THEN 0 ELSE i)
           v0 == Refused(s)
           answers(kind) == Replies(s, e, kind)
           same == SameHead(s, e)
           may == s.status \in {"pending", "running"} /\ ~MergeInFlight(Flow, s)
           c11 == /\ k = "StageTimedOut" /\ s.status = "running" /\ may
                  /\ e.ticket = Ticket(s) /\ Flow.stages[i].on_timeout = "cancel"
           c12 == /\ /\ k = "StageTimedOut" /\ s.status = "running" /\ may
                     /\ e.ticket = Ticket(s) /\ Flow.stages[i].on_timeout = "notify"
                  /\ s.notified_timeout # e.ticket
<1>1. n = CASE k = "Start" /\ s.status = "pending" -> v1
            [] k = "WorkCompleted" /\ answers("work") -> v2
            [] k = "Submitted" /\ answers("submit") -> v3
            [] k = "CommandPassed" /\ answers("command") /\ same -> v4
            [] k = "CommandFailed" /\ answers("command") /\ same -> v5
            [] k = "ApprovalGranted" /\ answers("approval") /\ same -> v6
            [] k = "ChangesRequested" /\ answers("approval") /\ same -> v5
            [] k = "CommitCreated" /\ s.status = "running" -> v7
            [] k = "MainAdvanced" /\ s.status = "running" -> v8
            [] k = "MergeCompleted" /\ answers("merge") /\ same -> v9
            [] k = "MergeFailed" /\ answers("merge") /\ same -> v10
            [] c11 -> v11
            [] c12 -> v12
            [] k = "Cancel" /\ may -> v13
            [] OTHER -> v0
  BY DEF Step, Replies, SameHead, Change, MayGiveUp
<1> HIDE DEF n, k, v1, v2, v3, v4, v5, v6, v7, v8, v9, v10, v11, v12, v13, v0, answers,
             same, may, c11, c12
<1>2. \/ k = "Start" /\ s.status = "pending" /\ n = v1
      \/ k = "WorkCompleted" /\ answers("work") /\ n = v2
      \/ k = "Submitted" /\ answers("submit") /\ n = v3
      \/ k = "CommandPassed" /\ answers("command") /\ same /\ n = v4
      \/ k = "CommandFailed" /\ answers("command") /\ same /\ n = v5
      \/ k = "ApprovalGranted" /\ answers("approval") /\ same /\ n = v6
      \/ k = "ChangesRequested" /\ answers("approval") /\ same /\ n = v5
      \/ k = "CommitCreated" /\ s.status = "running" /\ n = v7
      \/ k = "MainAdvanced" /\ s.status = "running" /\ n = v8
      \/ k = "MergeCompleted" /\ answers("merge") /\ same /\ n = v9
      \/ k = "MergeFailed" /\ answers("merge") /\ same /\ n = v10
      \/ c11 /\ n = v11
      \/ c12 /\ n = v12
      \/ k = "Cancel" /\ may /\ n = v13
      \/ n = v0
  BY <1>1, SMTT(60)
<1>3. n # v0
  BY DEF n, v0, Refused, Copies
<1> SUFFICES Answered(s, e, n) \/ Merges(s, e, n) \/ Moves(s, e, n) \/ Fails(s, e, n)
               \/ GivesUp(s, e, n)
  BY DEF n
<1>4. CASE \/ k = "Start" /\ s.status = "pending" /\ n = v1
           \/ k = "WorkCompleted" /\ answers("work") /\ n = v2
           \/ k = "Submitted" /\ answers("submit") /\ n = v3
           \/ k = "CommandPassed" /\ answers("command") /\ same /\ n = v4
           \/ k = "ApprovalGranted" /\ answers("approval") /\ same /\ n = v6
  BY <1>4 DEF Answered, k, v1, v2, v3, v4, v6, answers, same
<1>5. CASE \/ k = "CommandFailed" /\ answers("command") /\ same /\ n = v5
           \/ k = "ChangesRequested" /\ answers("approval") /\ same /\ n = v5
  BY <1>5 DEF Fails, k, v5, answers, same
<1>6. CASE \/ k = "CommitCreated" /\ s.status = "running" /\ n = v7
           \/ k = "MainAdvanced" /\ s.status = "running" /\ n = v8
  BY <1>6 DEF Moves, k, v7, v8
<1>7. CASE \/ k = "MergeCompleted" /\ answers("merge") /\ same /\ n = v9
           \/ k = "MergeFailed" /\ answers("merge") /\ same /\ n = v10
  BY <1>7 DEF Merges, k, v9, v10, answers, same
<1>8. CASE \/ c11 /\ n = v11
           \/ c12 /\ n = v12
           \/ k = "Cancel" /\ may /\ n = v13
  BY <1>8 DEF GivesUp, TimesOut, k, v11, v12, v13, c11, c12, may
<1> QED  BY <1>2, <1>3, <1>4, <1>5, <1>6, <1>7, <1>8

\* What an event that comes with a commit or a reviewer names.
Meant(e) ==
  /\ e.kind \in {"WorkCompleted", "CommitCreated", "MainAdvanced"} =>
       e.head \in Heads /\ e.patch \in Patches /\ e.conflict \in BOOLEAN
  /\ e.kind = "ApprovalGranted" => e.reviewer \in Reviewers

\* What is shown of the state n that an event of the given kind leads to.
Rightly(s, kind, n) ==
  /\ StepInv(Flow, n) /\ Orderly(Flow, n) /\ Told(Flow, s, n)
  /\ kind # "MergeCompleted" => Apt(Flow, n)

\* The state before.
Stored(s) == StepInv(Flow, s) /\ Orderly(Flow, s) /\ s.actions = {}

\* A task at a stage that is bound to the head has one.
LEMMA HeadPresent ==
  ASSUME NEW s, StepInv(Flow, s), s.status = "running", NeedsHead(Flow, s.stage_index)
  PROVE  s.current_head # None
<1> DEFINE i == s.stage_index
<1>1. i \in Index(Flow) /\ Covered(Flow, s, i)
  BY DEF StepInv, Position
<1>2. ~IsBranchWork(Flow, i)
  BY DEF NeedsHead, IsHeadBound, IsBranchWork, IsKind
<1>3. 1 < i
  BY <1>1, <1>2, FlowFacts
<1> QED  BY <1>1, <1>3, FlowFacts DEF Covered

LEMMA AnsweredRightly ==
  ASSUME NEW s, Stored(s), NEW e, Meant(e), NEW n, n.status # "refused", Answered(s, e, n)
  PROVE  Rightly(s, e.kind, n)
<1>1. /\ Valid(Flow) /\ s \in Copies(Flow) /\ s.actions = {}
      /\ StepInv(Flow, s) /\ Orderly(Flow, s)
  BY FlowFacts DEF Stored, StepInv
<1>2. CASE /\ e.kind = "Start" /\ s.status = "pending"
           /\ n = EnterStage(Flow, [s EXCEPT !.status = "running"], 1)
  <2>1. StepInv(Flow, n) /\ Orderly(Flow, n)
    BY <1>1, <1>2, StartedStepInv, StartedOrderly
  <2>2. Apt(Flow, n) /\ Told(Flow, s, n)
    BY <1>1, <1>2, StartedApt
  <2> QED  BY <2>1, <2>2 DEF Rightly
<1>3. CASE /\ e.kind = "WorkCompleted" /\ Replies(s, e, "work")
           /\ n = BranchProduct(Flow, s, e.head, e.patch)
  <2>1. s.status = "running" /\ IsBranchWork(Flow, s.stage_index)
    BY <1>3, FlowFacts DEF Replies, InStage
  <2>2. e.head \in Heads /\ e.patch \in Patches
    BY <1>3 DEF Meant
  <2>3. StepInv(Flow, n) /\ Orderly(Flow, n)
    BY <1>1, <1>3, <2>1, <2>2, BranchProductStepInv, BranchProductOrderly
  <2>4. Apt(Flow, n) /\ Told(Flow, s, n)
    BY <1>1, <1>3, <2>1, <2>2, BranchProductApt, BranchProductTold
  <2> QED  BY <2>3, <2>4 DEF Rightly
<1>4. CASE e.kind = "Submitted" /\ Replies(s, e, "submit") /\ n = ChangeSubmitted(Flow, s)
  <2>1. InStage(Flow, s, "submit")
    BY <1>4 DEF Replies
  <2>2. StepInv(Flow, n) /\ Orderly(Flow, n)
    BY <1>1, <1>4, <2>1, ChangeSubmittedStepInv, ChangeSubmittedOrderly
  <2>3. Apt(Flow, n) /\ Told(Flow, s, n)
    BY <1>1, <1>4, <2>1, ChangeSubmittedApt, ChangeSubmittedTold
  <2> QED  BY <2>2, <2>3 DEF Rightly
<1>5. CASE /\ e.kind = "CommandPassed" /\ Replies(s, e, "command") /\ SameHead(s, e)
           /\ n = CheckSucceeded(Flow, s, e.head)
  <2>1. InStage(Flow, s, "command") /\ e.head = s.current_head
    BY <1>5 DEF Replies, SameHead, InStage, NeedsHead, IsHeadBound, IsKind
  <2>2. StepInv(Flow, n) /\ Orderly(Flow, n)
    BY <1>1, <1>5, <2>1, CheckSucceededStepInv, CheckSucceededOrderly
  <2>3. Apt(Flow, n) /\ Told(Flow, s, n)
    BY <1>1, <1>5, <2>1, CheckSucceededApt, CheckSucceededTold
  <2> QED  BY <2>2, <2>3 DEF Rightly
<1>6. CASE /\ e.kind = "ApprovalGranted" /\ Replies(s, e, "approval") /\ SameHead(s, e)
           /\ n = Granted(Flow, s, e.reviewer, e.head, None)
  <2>1. InStage(Flow, s, "approval") /\ s.status = "running"
    BY <1>6 DEF Replies, InStage
  <2>2. Flow.stages[s.stage_index].bind_head => NeedsHead(Flow, s.stage_index)
    BY <2>1 DEF InStage, NeedsHead, IsHeadBound, IsKind
  <2>3. Flow.stages[s.stage_index].bind_head =>
          s.current_head # None /\ e.head = s.current_head
    BY <1>1, <1>6, <2>1, <2>2, HeadPresent DEF SameHead
  <2>4. e.reviewer \in Reviewers /\ None \in Option(Children)
    BY <1>6 DEF Meant, Option
  <2>5. StepInv(Flow, n) /\ Orderly(Flow, n)
    BY <1>1, <1>6, <2>1, <2>3, <2>4, GrantedStepInv, GrantedOrderly
  <2>6. Apt(Flow, n)
    BY <1>1, <1>6, <2>1, <2>3, <2>4, FlowFacts, GrantedApt
  <2>7. Told(Flow, s, n)
    BY <1>1, <1>6, <2>1, <2>3, <2>4, GrantedTold
  <2> QED  BY <2>5, <2>6, <2>7 DEF Rightly
<1> QED  BY <1>2, <1>3, <1>4, <1>5, <1>6 DEF Answered

LEMMA MergesRightly ==
  ASSUME NEW s, Stored(s), NEW e, NEW n, n.status # "refused", Merges(s, e, n)
  PROVE  Rightly(s, e.kind, n)
<1>1. /\ Valid(Flow) /\ s \in Copies(Flow) /\ s.actions = {}
      /\ StepInv(Flow, s) /\ Orderly(Flow, s)
  BY FlowFacts DEF Stored, StepInv
<1>2. MergeInFlight(Flow, s) /\ s.status = "running"
  BY DEF Merges, Replies, MergeInFlight, InStage
<1>3. CASE e.kind = "MergeCompleted" /\ n = Merged(Flow, s)
  <2>1. StepInv(Flow, n) /\ Orderly(Flow, n) /\ Told(Flow, s, n)
    BY <1>1, <1>2, <1>3, MergedStepInv, MergedOrderly, MergedTold
  <2> QED  BY <1>3, <2>1 DEF Rightly
<1>4. CASE n = MergeFailedState(Flow, s)
  <2>1. Heard(Flow, s.actions, s.attempts)
    BY <1>1 DEF Heard, Asks
  <2>2. StepInv(Flow, n) /\ Orderly(Flow, n)
    BY <1>1, <1>2, <1>4, MergeFailedStepInv, MergeFailedOrderly
  <2>3. Told(Flow, s, n)
    BY <1>1, <1>4, <2>1, MergeFailedTold
  <2>4. Apt(Flow, n)
    BY <1>1, <1>2, <1>4, MergeFailedApt
  <2> QED  BY <2>2, <2>3, <2>4 DEF Rightly
<1> QED  BY <1>3, <1>4 DEF Merges

LEMMA MovesRightly ==
  ASSUME NEW s, Stored(s), NEW e, Meant(e), NEW n, Moves(s, e, n)
  PROVE  Rightly(s, e.kind, n)
<1>1. PICK c \in HeadChange : s.status = "running" /\ n = HeadChanged(Flow, s, c)
  <2>1. e.head \in Heads /\ e.patch \in Patches /\ e.conflict \in BOOLEAN
    BY DEF Moves, Meant
  <2>2. Change(e, "commit") \in HeadChange /\ Change(e, "main") \in HeadChange
    BY <2>1 DEF Change, HeadChange
  <2> QED  BY <2>2 DEF Moves
<1>2. Valid(Flow) /\ StepInv(Flow, s) /\ Orderly(Flow, s) /\ s.actions = {}
  BY FlowFacts DEF Stored
<1>3. StepInv(Flow, n) /\ Orderly(Flow, n)
  BY <1>1, <1>2, HeadChangedStepInv, HeadChangedOrderly
<1>4. Told(Flow, s, n)
  BY <1>1, <1>2, HeadChangedTold
<1>5. Apt(Flow, n)
  BY <1>1, <1>2, HeadChangedApt
<1> QED  BY <1>3, <1>4, <1>5 DEF Rightly

LEMMA FailsRightly ==
  ASSUME NEW s, Stored(s), NEW e, NEW n, Fails(s, e, n)
  PROVE  Rightly(s, e.kind, n)
<1>1. Valid(Flow) /\ s \in Copies(Flow) /\ StepInv(Flow, s) /\ Orderly(Flow, s) /\ s.actions = {}
  BY FlowFacts DEF Stored, StepInv
<1>2. /\ s.status = "running" /\ ~MergeInFlight(Flow, s)
      /\ n = FailStage(Flow, s, s.stage_index)
  BY DEF Fails, Replies, MergeInFlight, InStage, IsKind
<1>3. s.stage_index \in Index(Flow) /\ Records(Flow, s) /\ Covered(Flow, s, s.stage_index)
  BY <1>1, <1>2 DEF StepInv, Position
<1>4. StepInv(Flow, n)
  BY <1>1, <1>2, <1>3, FailStageStepInv
<1>5. Orderly(Flow, n)
  BY <1>1, <1>2, FailStageOrderly
<1>6. Told(Flow, s, n)
  BY <1>1, <1>2, FailStageTold
<1>7. Apt(Flow, n)
  BY <1>1, <1>2, FailStageApt
<1> QED  BY <1>4, <1>5, <1>6, <1>7 DEF Rightly

LEMMA GivesUpRightly ==
  ASSUME NEW s, Stored(s), NEW e, NEW n, GivesUp(s, e, n)
  PROVE  Rightly(s, e.kind, n)
<1>1. /\ Valid(Flow) /\ s \in Copies(Flow) /\ StepInv(Flow, s) /\ Orderly(Flow, s)
      /\ s.actions = {} /\ Records(Flow, s)
  BY FlowFacts DEF Stored, StepInv
<1>2. s.stage_index \in Nat /\ 0 \in Nat
  <2>1. s.stage_index \in 1 .. Len_(Flow) + 1 /\ Len_(Flow) \in Nat
    BY <1>1, FlowFacts DEF Copies
  <2> QED  BY <2>1
<1>3. ASSUME NEW stage \in Nat, n = Cancelled(s, stage),
             s.status = "pending" \/ s.status = "running", ~MergeInFlight(Flow, s)
      PROVE  Rightly(s, e.kind, n)
  <2>1. StepInv(Flow, n) /\ Orderly(Flow, n)
    BY <1>1, <1>3, CancelledStepInv, CancelledOrderly
  <2>2. Told(Flow, s, n)
    BY <1>1, <1>3, CancelledTold
  <2>3. Apt(Flow, n)
    BY <1>1, <1>3, CancelledApt
  <2> QED  BY <2>1, <2>2, <2>3 DEF Rightly
<1>4. CASE TimesOut(s, e, "cancel") /\ n = Cancelled(s, s.stage_index)
  BY <1>2, <1>3, <1>4 DEF TimesOut
<1>5. CASE /\ TimesOut(s, e, "notify")
           /\ n = Emit([s EXCEPT !.notified_timeout = e.ticket],
                       {Act("NotifyTimeout", s.stage_index, 0)})
  <2> DEFINE i == s.stage_index
             k == s.attempts[s.stage_index]
  <2>1. i \in Index(Flow) /\ s.status = "running" /\ i \in Nat
    BY <1>1, <1>2, <1>5 DEF TimesOut, StepInv, Position
  <2>2. k = Attempt(Flow, s) /\ k \in Nat /\ e.ticket = <<i, k>>
    BY <1>1, <1>5, <2>1 DEF Attempt, Ticket, TimesOut, Copies
  <2> HIDE DEF k
  <2>3. n = Emit([s EXCEPT !.notified_timeout = <<i, k>>], {Act("NotifyTimeout", i, 0)})
    BY <1>5, <2>2
  <2> HIDE DEF i
  <2>4. StepInv(Flow, n)
    BY <1>1, <2>1, <2>2, <2>3, NotifiedStepInv
  <2>5. Orderly(Flow, n)
    BY <1>1, <2>1, <2>2, <2>3, NotifiedOrderly DEF i
  <2>6. Told(Flow, s, n)
    BY <1>1, <2>3, NotifiedTold
  <2>7. Apt(Flow, n)
    BY <1>1, <2>1, <2>3, NotifiedApt
  <2> QED  BY <2>4, <2>5, <2>6, <2>7 DEF Rightly
<1>6. CASE /\ s.status \in {"pending", "running"} /\ ~MergeInFlight(Flow, s)
           /\ n = Cancelled(s, IF s.status = "pending" THEN 0 ELSE s.stage_index)
  BY <1>2, <1>3, <1>6
<1> QED  BY <1>4, <1>5, <1>6 DEF GivesUp

\* Every event the state machine accepts leads to a state that is one of its
\* own, with the actions that go with it.
LEMMA StepRightly ==
  ASSUME NEW s, Stored(s), NEW e, Meant(e), Step(s, e).status # "refused"
  PROVE  Rightly(s, e.kind, Step(s, e))
<1> DEFINE n == Step(s, e)
<1>1. \/ Answered(s, e, n) \/ Merges(s, e, n) \/ Moves(s, e, n) \/ Fails(s, e, n)
      \/ GivesUp(s, e, n)
  <2>1. s \in Copies(Flow)
    BY DEF Stored, StepInv
  <2> QED  BY <2>1, StepCases
<1> HIDE DEF n
<1>2. n.status # "refused"
  BY DEF n
<1>3. Rightly(s, e.kind, n)
  BY <1>1, <1>2, AnsweredRightly, MergesRightly, MovesRightly, FailsRightly, GivesUpRightly
<1> QED  BY <1>3 DEF n

\* Where n is, for an s at the first stage without a head.
LEMMA FirstStage ==
  ASSUME NEW s, Stored(s), s.stage_index = 1, s.current_head = None,
         NEW e, e.kind \notin {"WorkCompleted", "CommitCreated", "MainAdvanced"},
         Step(s, e).status # "refused"
  PROVE  Step(s, e).stage_index = 1 /\ Step(s, e).current_head = None
<1> DEFINE n == Step(s, e)
<1>1. \/ Answered(s, e, n) \/ Merges(s, e, n) \/ Moves(s, e, n) \/ Fails(s, e, n)
      \/ GivesUp(s, e, n)
  <2>1. s \in Copies(Flow)
    BY DEF Stored, StepInv
  <2> QED  BY <2>1, StepCases
<1> HIDE DEF n
<1>2. n.status # "refused" /\ Valid(Flow) /\ s \in Copies(Flow)
  BY FlowFacts DEF n, Stored, StepInv
<1>3. \A kind : InStage(Flow, s, kind) => kind = "work"
  BY FlowFacts DEF InStage, IsKind, IsBranchWork
<1>4. CASE s.status = "pending" /\ n = EnterStage(Flow, [s EXCEPT !.status = "running"], 1)
  <2> DEFINE m == [s EXCEPT !.status = "running"]
  <2>1. m \in Copies(Flow) /\ m.status = "running" /\ m.current_head = None
    BY <1>2 DEF Copies, Status
  <2> HIDE DEF m
  <2>2. 1 \in 1 .. Len_(Flow) + 1 /\ 1 <= Len_(Flow)
    BY FlowFacts
  <2>3. Entered(Flow, m, 1, n)
    BY <1>2, <1>4, <2>1, <2>2, EnterStageFields DEF m
  <2>4. ~ApprovalForStage(Flow, m, 1)
    BY FlowFacts DEF ApprovalForStage, IsBranchWork, IsKind
  <2>5. EntryStage(Flow, m, 1) = 1
    BY <1>2, <2>1, <2>2, <2>4, FlowFacts, EntryStageProperties
  <2> QED  BY <1>4, <2>1, <2>2, <2>3, <2>5 DEF Entered, n
<1>5. CASE GivesUp(s, e, n)
  <2>1. CASE \E stage : n = Cancelled(s, stage)
    BY <1>2, <2>1, CancelledFields DEF n, Same
  <2>2. CASE n = Emit([s EXCEPT !.notified_timeout = e.ticket],
                      {Act("NotifyTimeout", s.stage_index, 0)})
    BY <1>2, <2>2 DEF Emit, Copies, n
  <2> QED  BY <1>5, <2>1, <2>2 DEF GivesUp
<1> QED  BY <1>1, <1>3, <1>4, <1>5 DEF Answered, Merges, Moves, Fails, Replies, n

\* What happens while a merge is in flight: head changes are recorded, and the
\* merge is answered.
LEMMA InFlight ==
  ASSUME NEW s, Stored(s), MergeInFlight(Flow, s), NEW e, Meant(e),
         Step(s, e).status # "refused"
  PROVE  LET n == Step(s, e)
         IN  \/ /\ e.kind \in {"CommitCreated", "MainAdvanced"}
                /\ MergeInFlight(Flow, n) /\ Ticket(n) = Ticket(s)
                /\ n.current_head = s.current_head /\ n.actions = {}
             \/ e.kind \in AnswerKinds /\ e.ticket = Ticket(s) /\ e.head = s.current_head
<1> DEFINE n == Step(s, e)
<1>1. \/ Answered(s, e, n) \/ Merges(s, e, n) \/ Moves(s, e, n) \/ Fails(s, e, n)
      \/ GivesUp(s, e, n)
  <2>1. s \in Copies(Flow)
    BY DEF Stored, StepInv
  <2> QED  BY <2>1, StepCases
<1> HIDE DEF n
<1>2. s.status = "running" /\ \A kind : InStage(Flow, s, kind) => kind = "merge"
  BY DEF MergeInFlight, InStage, IsKind
<1>3. CASE Merges(s, e, n)
  BY <1>2, <1>3 DEF Merges, Replies, SameHead, AnswerKinds, NeedsHead, InStage
<1>4. CASE Moves(s, e, n)
  <2>1. PICK c \in HeadChange : n = HeadChanged(Flow, s, c)
    <3>1. e.head \in Heads /\ e.patch \in Patches /\ e.conflict \in BOOLEAN
      BY <1>4 DEF Moves, Meant
    <3>2. Change(e, "commit") \in HeadChange /\ Change(e, "main") \in HeadChange
      BY <3>1 DEF Change, HeadChange
    <3> QED  BY <1>4, <3>2 DEF Moves
  <2>2. StepInv(Flow, s) /\ s.actions = {} /\ Valid(Flow)
    BY FlowFacts DEF Stored
  <2>3. /\ n.actions = {} /\ n.status = "running" /\ n.stage_index = s.stage_index
        /\ n.attempts = s.attempts /\ n.current_head = s.current_head
    BY <1>2, <2>1, <2>2, HeadChangedApt
  <2>4. MergeInFlight(Flow, n) /\ Ticket(n) = Ticket(s)
    BY <1>2, <2>3 DEF MergeInFlight, InStage, Ticket, Attempt
  <2> QED  BY <1>4, <2>3, <2>4 DEF Moves, n
<1> QED
  BY <1>1, <1>2, <1>3, <1>4 DEF Answered, Fails, GivesUp, Replies, TimesOut, n

-----------------------------------------------------------------------------
(* The repository only grows.                                              *)

Grows ==
  /\ \A h \in Heads : Used(h) => repo'.commit[h] = repo.commit[h]
  /\ Len(repo.main) <= Len(repo'.main)
  /\ \A k \in DOMAIN repo.main : repo'.main[k] = repo.main[k]

LEMMA MainTypes ==
  ASSUME repo \in Repos
  PROVE  /\ Len(repo.main) \in Nat /\ DOMAIN repo.main = 1 .. Len(repo.main)
         /\ \A k \in DOMAIN repo.main :
              repo.main[k] \in MainEntry /\ repo.main[k].head \in Option(Heads)
<1>1. repo.main \in Seq(MainEntry)
  BY DEF Repos
<1>2. /\ Len(repo.main) \in Nat /\ DOMAIN repo.main = 1 .. Len(repo.main)
      /\ \A k \in DOMAIN repo.main : repo.main[k] \in MainEntry
  BY <1>1
<1> QED  BY <1>2 DEF MainEntry

LEMMA StillThere ==
  ASSUME repo \in Repos, repo' \in Repos, RepoSound, Grows
  PROVE  /\ \A h \in Heads : Used(h) => Used(h)'
         /\ \A h : OnMain(h) => OnMain(h)'
         /\ \A h \in Heads : \A p : Used(h) /\ NamedAs(h, p) => NamedAs(h, p)'
         /\ \A e : EventSound(e) => EventSound(e)'
         /\ SomeUsed => SomeUsed'
<1>1. \A h \in Heads : Used(h) => Used(h)'
  BY DEF Grows, Used
<1>2. \A h : OnMain(h) => OnMain(h)'
  <2> SUFFICES ASSUME NEW h, OnMain(h) PROVE OnMain(h)'
    OBVIOUS
  <2>1. PICK k \in DOMAIN repo.main :
          repo.main[k].head # None /\ h \in repo.commit[repo.main[k].head].contains
    BY DEF OnMain
  <2>2. repo.main[k].head \in Heads /\ Used(repo.main[k].head)
    BY <2>1, MainTypes DEF Option, RepoSound
  <2>3. repo'.main[k] = repo.main[k]
    BY DEF Grows
  <2>4. repo'.commit[repo.main[k].head] = repo.commit[repo.main[k].head]
    BY <2>2 DEF Grows
  <2>5. k \in DOMAIN repo'.main
    <3>1. DOMAIN repo.main = 1 .. Len(repo.main) /\ DOMAIN repo'.main = 1 .. Len(repo'.main)
          /\ Len(repo.main) \in Nat /\ Len(repo'.main) \in Nat
      BY DEF Repos
    <3> QED  BY <3>1 DEF Grows
  <2> QED  BY <2>1, <2>3, <2>4, <2>5 DEF OnMain
<1>5. \A h \in Heads : \A p : Used(h) /\ NamedAs(h, p) => NamedAs(h, p)'
  BY <1>2 DEF Grows, Used, NamedAs
<1>3. \A e : EventSound(e) => EventSound(e)'
  BY <1>1, <1>2, <1>5 DEF EventSound
<1>4. SomeUsed => SomeUsed'
  BY <1>1 DEF SomeUsed
<1> QED  BY <1>1, <1>2, <1>3, <1>4, <1>5

\* Making a commit on the branch.
LEMMA Committed ==
  ASSUME repo \in Repos, RepoSound, NEW h \in Heads, ~Used(h), NEW c \in CommitRecord,
         h \in c.contains, repo' = [repo EXCEPT !.branch = h, !.commit[h] = c]
  PROVE  repo' \in Repos /\ RepoSound' /\ Grows /\ repo'.branch = h /\ Used(h)'
<1> DEFINE commits == [repo.commit EXCEPT ![h] = c]
<1>1. commits \in [Heads -> Option(CommitRecord)]
  BY DEF Repos, Option
<1>2. repo' = [repo EXCEPT !.branch = h, !.commit = commits]
  BY DEF Repos
<1>3. /\ commits[h] = c
      /\ \A g \in Heads : g # h => commits[g] = repo.commit[g]
  BY DEF Repos
<1> HIDE DEF commits
<1>4. repo' \in Repos
  BY <1>1, <1>2, ZenonT(60) DEF Repos, Option
<1>5. repo'.branch = h /\ repo'.commit = commits /\ repo'.main = repo.main
  BY <1>2 DEF Repos
<1>6. c # None
  BY NoneIsNoCommit
<1>7. Grows
  <2>1. Len(repo.main) \in Nat
    BY MainTypes
  <2> QED  BY <1>3, <1>5, <2>1 DEF Grows, Used
<1>8. \A g \in Heads : Used(g)' <=> g = h \/ Used(g)
  BY <1>3, <1>5, <1>6 DEF Used
<1>9. RepoSound'
  <2>1. \A g \in Heads : Used(g)' => g \in repo'.commit[g].contains
    BY <1>3, <1>5, <1>8 DEF RepoSound
  <2>2. \A k \in DOMAIN repo'.main : repo'.main[k].head # None => Used(repo.main[k].head)'
    BY <1>5, <1>8, MainTypes DEF RepoSound, Option
  <2>3. Used(repo.branch)'
    BY <1>5, <1>8
  <2> QED  BY <1>5, <2>1, <2>2, <2>3 DEF RepoSound
<1> QED  BY <1>4, <1>5, <1>7, <1>8, <1>9

\* Putting something on main.
LEMMA Pushed ==
  ASSUME repo \in Repos, RepoSound, NEW by \in {"daemon", "outside"},
         NEW h \in Option(Heads), h # None => Used(h), repo' = Push(by, h)
  PROVE  /\ repo' \in Repos /\ RepoSound' /\ Grows /\ repo'.branch = repo.branch
         /\ Len(repo'.main) = Len(repo.main) + 1
         /\ repo'.main[Len(repo'.main)] = [by |-> by, head |-> h]
         /\ repo'.commit = repo.commit
         /\ h # None => OnMain(h)'
<1> DEFINE x == [by |-> by, head |-> h]
           m == Append(repo.main, x)
<1>1. x \in MainEntry /\ x.head = h
  BY DEF MainEntry
<1>2. repo' = [repo EXCEPT !.main = m]
  BY DEF Push
<1> HIDE DEF x
<1>3. repo.main \in Seq(MainEntry)
  BY DEF Repos
<1>4. /\ m \in Seq(MainEntry) /\ Len(m) = Len(repo.main) + 1 /\ Len(repo.main) \in Nat
      /\ \A k \in 1 .. Len(repo.main) : m[k] = repo.main[k]
      /\ m[Len(m)] = x /\ DOMAIN m = 1 .. Len(m) /\ DOMAIN repo.main = 1 .. Len(repo.main)
  BY <1>1, <1>3
<1> HIDE DEF m
<1>5. repo' \in Repos
  BY <1>2, <1>4, ZenonT(60) DEF Repos
<1>6. repo'.main = m /\ repo'.commit = repo.commit /\ repo'.branch = repo.branch
  BY <1>2 DEF Repos
<1>7. Grows
  BY <1>4, <1>6 DEF Grows
<1>8. \A g : Used(g)' <=> Used(g)
  BY <1>6 DEF Used
<1>9. RepoSound'
  <2>1. \A k \in DOMAIN m : m[k].head # None => Used(m[k].head)
    <3> SUFFICES ASSUME NEW k \in 1 .. Len(m), m[k].head # None PROVE Used(m[k].head)
      BY <1>4
    <3>1. CASE k = Len(m)
      BY <1>1, <1>4, <3>1
    <3>2. CASE k # Len(m)
      <4>1. k \in 1 .. Len(repo.main)
        BY <1>4, <3>2
      <4> QED  BY <1>4, <4>1 DEF RepoSound
    <3> QED  BY <3>1, <3>2
  <2> QED  BY <1>6, <1>8, <2>1 DEF RepoSound
<1>10. ASSUME h # None PROVE OnMain(h)'
  <2>1. h \in Heads /\ h \in repo.commit[h].contains
    BY <1>10 DEF Option, RepoSound
  <2>2. Len(m) \in DOMAIN m /\ m[Len(m)].head = h
    BY <1>1, <1>4
  <2> QED  BY <1>6, <1>10, <2>1, <2>2 DEF OnMain
<1> QED  BY <1>4, <1>5, <1>6, <1>7, <1>9, <1>10 DEF x

\* What a closed task leaves.
LEMMA Released ==
  ASSUME repo \in Repos, RepoSound, repo' = Release
  PROVE  repo' \in Repos /\ RepoSound' /\ Grows /\ repo'.commit = repo.commit
         /\ repo'.main = repo.main
<1> DEFINE a == Archive
           none == None
           last == repo.branch
<1>1. repo' = [repo EXCEPT !.archived = a, !.branch = none, !.last = last]
  BY DEF Release
<1>2. a \in SUBSET Heads /\ none \in Option(Heads) /\ last \in Option(Heads)
  BY DEF Archive, Repos, Option
<1>3. none = None
  OBVIOUS
<1> HIDE DEF a, none, last
<1>4. repo' \in Repos
  BY <1>1, <1>2, ZenonT(60) DEF Repos
<1>5. repo'.commit = repo.commit /\ repo'.main = repo.main /\ repo'.branch = None
  BY <1>1, <1>3 DEF Repos
<1>6. Grows
  <2>1. Len(repo.main) \in Nat
    BY MainTypes
  <2> QED  BY <1>5, <2>1 DEF Grows
<1>7. RepoSound'
  BY <1>5 DEF RepoSound, Used
<1> QED  BY <1>4, <1>5, <1>6, <1>7

\* Changes that touch neither main nor the commits.
LEMMA Untouched ==
  ASSUME repo \in Repos, RepoSound, repo'.commit = repo.commit, repo'.main = repo.main,
         repo' \in Repos, repo'.branch # None => Used(repo'.branch)
  PROVE  RepoSound' /\ Grows
<1>1. Len(repo.main) \in Nat
  BY MainTypes
<1>2. Grows
  BY <1>1 DEF Grows
<1>3. \A h : Used(h)' <=> Used(h)
  BY DEF Used
<1>4. RepoSound'
  BY <1>3 DEF RepoSound
<1> QED  BY <1>2, <1>4

LEMMA PatchIdType ==
  ASSUME repo \in Repos, NEW h \in Heads, Used(h)
  PROVE  PatchId(h) \in Patches /\ NamedAs(h, PatchId(h))
<1>1. repo.commit[h] \in CommitRecord
  BY DEF Repos, Option, Used
<1> QED  BY <1>1, MishapsAssumption DEF PatchId, CommitRecord, NamedAs

LEMMA NewHeadUnused ==
  ASSUME HeadsLeft
  PROVE  NewHead \in Heads /\ ~Used(NewHead)
  BY DEF HeadsLeft, NewHead

-----------------------------------------------------------------------------
(* Every step of the engine, one by one: types and what goes with them.    *)

LEMMA DoingTypes ==
  ASSUME proc \in Procs(issued)
  PROVE  LET d == proc.doing
         IN  /\ d \in Doings(issued)
             /\ d.at \in {"receive", "apply"} => d.event \in EventRecord
             /\ d.at = "act" => d.acts \subseteq issued /\ d.event \in Option(EventRecord)
             /\ d.at \in MergeSteps => d.ticket \in Tickets /\ d.head \in Heads
             /\ d.at \in ForgeSteps =>
                  /\ d.main \in Nat
                  /\ \A x \in ForgeSteps :
                       LET g == [d EXCEPT !.at = x]
                       IN  /\ g \in Doings(issued) /\ g.at = x
                           /\ g.ticket = d.ticket /\ g.head = d.head /\ g.main = d.main
<1> DEFINE d == proc.doing
<1>1. d \in Doings(issued)
  BY DEF Procs
<1> HIDE DEF d
<1>2. d.at \in {"receive", "apply"} => d.event \in EventRecord
  BY <1>1 DEF Doings, ForgeSteps
<1>3. d.at = "act" => d.acts \subseteq issued /\ d.event \in Option(EventRecord)
  BY <1>1 DEF Doings, ForgeSteps
<1>4. d.at \in MergeSteps => d.ticket \in Tickets /\ d.head \in Heads
  BY <1>1 DEF Doings, MergeSteps, ForgeSteps
<1>5. d.at \in ForgeSteps => d \in [at : ForgeSteps, ticket : Tickets, head : Heads, main : Nat]
  BY <1>1 DEF Doings, ForgeSteps
<1>6. ASSUME d.at \in ForgeSteps, NEW x \in ForgeSteps
      PROVE  LET g == [d EXCEPT !.at = x]
             IN  /\ g \in Doings(issued) /\ g.at = x
                 /\ g.ticket = d.ticket /\ g.head = d.head /\ g.main = d.main
  <2>1. [d EXCEPT !.at = x] \in [at : ForgeSteps, ticket : Tickets, head : Heads, main : Nat]
    BY <1>5, <1>6
  <2>2. [d EXCEPT !.at = x] \in Doings(issued)
    BY <2>1 DEF Doings
  <2> QED  BY <1>5, <1>6, <2>2
<1> QED  BY <1>1, <1>2, <1>3, <1>4, <1>5, <1>6 DEF d

\* A step that leaves the snapshot and the status of the task alone.
LEMMA CoreKept ==
  ASSUME Core, row' \in Rows, row'.st = row.st,
         row'.status = row.status \/ (StatusSound' /\ ~Closed(row.status)),
         proc' \in Procs(issued), issued' = issued, disturbances' = disturbances,
         repo' \in Repos, RepoSound', Grows,
         \/ repo'.branch # None \/ Closed(row'.status)
         \/ repo'.branch = repo.branch /\ repo'.commit = repo.commit,
         proc'.checking \subseteq proc.checking \/ ChecksSound',
         \A k \in DOMAIN proc'.queue :
           \/ \E j \in DOMAIN proc.queue : proc'.queue[k] = proc.queue[j]
           \/ EventSound(proc.queue[k])',
         InHand' => EventSound(proc.doing.event)',
         DoingSound'
  PROVE  Core'
<1>1. repo \in Repos /\ RepoSound
  BY DEF Core, Types
<1>2. /\ \A h \in Heads : Used(h) => Used(h)'
      /\ \A e : EventSound(e) => EventSound(e)'
      /\ SomeUsed => SomeUsed'
  BY <1>1, StillThere
<1>3. Types'
  BY DEF Core, Types
<1>4. Machine'
  BY DEF Core, Machine
<1>5. StatusSound'
  BY DEF Core, StatusSound
<1>6. BranchSound'
  <2>1. CASE repo'.branch # None
    <3>1. SomeUsed'
      <4>1. repo'.branch \in Heads
        BY <2>1 DEF Repos, Option
      <4>2. Used(repo.branch)'
        BY <2>1 DEF RepoSound
      <4> QED  BY <4>1, <4>2 DEF SomeUsed
    <3> QED  BY <2>1, <3>1 DEF BranchSound
  <2>2. CASE repo'.branch = repo.branch /\ repo'.commit = repo.commit
    <3>1. SomeUsed' <=> SomeUsed
      BY <2>2 DEF SomeUsed, Used
    <3> QED  BY <2>2, <3>1 DEF Core, BranchSound, Closed
  <2>3. CASE Closed(row'.status)
    BY <1>2, <2>3 DEF Core, BranchSound, Closed
  <2> QED  BY <2>1, <2>2, <2>3
<1>7. EventsSound'
  <2>1. \A k \in DOMAIN proc'.queue : EventSound(proc.queue[k])'
    <3> SUFFICES ASSUME NEW k \in DOMAIN proc'.queue, NEW j \in DOMAIN proc.queue,
                        proc'.queue[k] = proc.queue[j]
                 PROVE  EventSound(proc.queue[k])'
      OBVIOUS
    <3>1. EventSound(proc.queue[j])
      BY DEF Core, EventsSound
    <3> DEFINE e == proc.queue[j]
    <3>2. EventSound(e)
      BY <3>1
    <3> HIDE DEF e
    <3>3. proc'.queue[k] = e
      BY DEF e
    <3> QED  BY <1>2, <3>2, <3>3
  <2> QED  BY <2>1 DEF EventsSound
<1>8. ChecksSound'
  BY DEF Core, ChecksSound
<1> QED  BY <1>3, <1>4, <1>5, <1>6, <1>7, <1>8 DEF Core

\* The loop takes an input that comes down to event e: the next in the queue,
\* or one from outside that answers no merge.
Takes(e) ==
  /\ proc.up /\ proc.doing = Idle
  /\ row' = row /\ repo' = repo /\ issued' = issued /\ disturbances' = disturbances
  /\ proc' \in Procs(issued)
  /\ proc'.doing = [at |-> "receive", event |-> e]
  /\ \/ proc'.queue = proc.queue /\ e.kind \notin AnswerKinds
     \/ /\ proc.queue # <<>>
        /\ proc'.queue = Tail(proc.queue) /\ e = Head(proc.queue)
  /\ proc'.served => proc.served \/ proc'.queue = <<>>
  /\ proc'.checking \subseteq proc.checking

\* The queue holds events; what is behind the first of them is in it too.
LEMMA QueueTypes ==
  ASSUME proc \in Procs(issued)
  PROVE  /\ proc.queue \in Seq(EventRecord)
         /\ Len(proc.queue) \in Nat /\ DOMAIN proc.queue = 1 .. Len(proc.queue)
         /\ \A k \in DOMAIN proc.queue : proc.queue[k] \in EventRecord
         /\ proc.queue # <<>> =>
              /\ 1 \in DOMAIN proc.queue /\ Head(proc.queue) = proc.queue[1]
              /\ Tail(proc.queue) \in Seq(EventRecord)
              /\ DOMAIN Tail(proc.queue) = 1 .. Len(proc.queue) - 1
              /\ \A k \in DOMAIN Tail(proc.queue) :
                   k + 1 \in DOMAIN proc.queue /\ Tail(proc.queue)[k] = proc.queue[k + 1]
<1> DEFINE q == proc.queue
<1>1. q \in Seq(EventRecord)
  BY DEF Procs
<1> HIDE DEF q
<1>2. /\ Len(q) \in Nat /\ DOMAIN q = 1 .. Len(q)
      /\ \A k \in DOMAIN q : q[k] \in EventRecord
  BY <1>1
<1>3. ASSUME q # <<>>
      PROVE  /\ 1 \in DOMAIN q /\ Head(q) = q[1] /\ Tail(q) \in Seq(EventRecord)
             /\ DOMAIN Tail(q) = 1 .. Len(q) - 1
             /\ \A k \in DOMAIN Tail(q) : k + 1 \in DOMAIN q /\ Tail(q)[k] = q[k + 1]
  <2>1. Len(q) # 0
    BY <1>1, <1>3
  <2>2. Tail(q) \in Seq(EventRecord) /\ Len(Tail(q)) = Len(q) - 1
    BY <1>1, <1>3
  <2>3. DOMAIN Tail(q) = 1 .. Len(q) - 1
    BY <2>2
  <2>4. \A k \in 1 .. Len(q) - 1 : k + 1 \in 1 .. Len(q) /\ Tail(q)[k] = q[k + 1]
    BY <1>1, <1>2, <1>3
  <2> QED  BY <1>1, <1>2, <1>3, <2>1, <2>2, <2>3, <2>4
<1> QED  BY <1>1, <1>2, <1>3 DEF q

LEMMA TakesCore ==
  ASSUME Core, NEW e, EventSound(e), Takes(e)
  PROVE  Core'
<1>1. /\ row \in Rows /\ proc \in Procs(issued) /\ repo \in Repos /\ RepoSound
  BY DEF Core, Types
<1>2. Grows /\ RepoSound'
  BY <1>1, Untouched DEF Takes, RepoSound
<1>3. \A k \in DOMAIN proc'.queue : \E j \in DOMAIN proc.queue : proc'.queue[k] = proc.queue[j]
  BY <1>1, QueueTypes DEF Takes
<1>4. EventSound(e)'
  BY <1>1, <1>2, StillThere DEF Takes
<1>5. EventSound(proc.doing.event)'
  BY <1>4 DEF Takes
<1>6. DoingSound'
  BY DEF Takes, DoingSound, MergeSteps, ForgeSteps, LateSteps, MergeAsked
<1> QED  BY <1>1, <1>2, <1>3, <1>5, <1>6, CoreKept DEF Takes

LEMMA NoneTypes ==
  None \in Option(Tickets) /\ None \in Option(Heads) /\ None \in Option(Patches)
  BY DEF Option

\* An event that names neither a commit nor a patch.
LEMMA EventTypes ==
  ASSUME NEW kind \in EventKinds, NEW ticket \in Option(Tickets), NEW head \in Option(Heads)
  PROVE  /\ Event(kind, ticket, head) \in EventRecord
         /\ Event(kind, ticket, head).kind = kind
         /\ Event(kind, ticket, head).ticket = ticket
         /\ Event(kind, ticket, head).head = head
         /\ ~Event(kind, ticket, head).conflict
         /\ kind \notin {"WorkCompleted", "CommitCreated", "MainAdvanced",
                         "ApprovalGranted", "MergeCompleted"} =>
              EventSound(Event(kind, ticket, head))
<1> DEFINE e == Event(kind, ticket, head)
<1>1. e \in EventRecord
  BY DEF Event, EventRecord, Option
<1>2. e.kind = kind /\ e.ticket = ticket /\ e.head = head /\ ~e.conflict
  BY DEF Event
<1> HIDE DEF e
<1>3. kind \notin {"WorkCompleted", "CommitCreated", "MainAdvanced", "ApprovalGranted",
                   "MergeCompleted"} => EventSound(e)
  BY <1>2 DEF EventSound
<1> QED  BY <1>1, <1>2, <1>3 DEF e

\* Copies of the engine's state that a handler works on.
Turns ==
  [row : Rows, proc : Procs(issued), handed : SUBSET Action, disturbed : BOOLEAN]

\* Nothing but the process has changed in m.
SameRow(m) == m.row = row /\ m.handed = {} /\ ~m.disturbed

LEMMA HereTypes ==
  ASSUME Types
  PROVE  /\ Here \in Turns /\ SameRow(Here) /\ Here.proc = proc
         /\ Taken \in Turns /\ SameRow(Taken)
         /\ \E b \in BOOLEAN :
              /\ Taken.proc = [proc EXCEPT !.served = b]
              /\ b => proc.served \/ proc.queue = <<>>
<1> DEFINE b == proc.served \/ proc.queue = <<>>
           p == [proc EXCEPT !.served = b]
<1>1. proc \in Procs(issued) /\ row \in Rows
  BY DEF Types
<1>2. Here \in Turns /\ SameRow(Here) /\ Here.proc = proc
  BY <1>1 DEF Here, Turns, SameRow
<1>3. b \in BOOLEAN /\ (b => proc.served \/ proc.queue = <<>>)
  OBVIOUS
<1>4. Taken = [Here EXCEPT !.proc = p]
  BY Zenon DEF Taken, Here
<1> HIDE DEF b
<1>5. p \in Procs(issued)
  BY <1>1, <1>3 DEF Procs
<1>6. Taken.proc = p
  BY <1>2, <1>4 DEF Turns
<1> HIDE DEF p
<1>7. Taken \in Turns /\ SameRow(Taken)
  BY <1>2, <1>4, <1>5 DEF Turns, SameRow
<1> QED  BY <1>2, <1>3, <1>6, <1>7 DEF p

\* A copy with another process, and what it becomes.
LEMMA WithProc ==
  ASSUME NEW m \in Turns, NEW p \in Procs(issued)
  PROVE  LET n == [m EXCEPT !.proc = p]
         IN  /\ n \in Turns /\ n.proc = p /\ n.row = m.row
             /\ n.handed = m.handed /\ n.disturbed = m.disturbed
             /\ SameRow(m) => SameRow(n)
  BY DEF Turns, SameRow

LEMMA Became ==
  ASSUME Types, NEW m, SameRow(m), Becomes(m)
  PROVE  row' = row /\ proc' = m.proc /\ issued' = issued /\ disturbances' = disturbances
  BY DEF Becomes, SameRow, Types

\* An input that comes down to event e.
LEMMA TakesInput ==
  ASSUME Types, Free, NEW e \in EventRecord, NEW m \in Turns, SameRow(m),
         m.proc.checking \subseteq proc.checking,
         \/ m.proc.queue = proc.queue /\ e.kind \notin AnswerKinds
         \/ /\ proc.queue # <<>>
            /\ m.proc.queue = Tail(proc.queue) /\ e = Head(proc.queue),
         m.proc.served => proc.served \/ m.proc.queue = <<>>,
         Becomes(Receive(m, e)), repo' = repo
  PROVE  Takes(e)
<1> DEFINE d == [at |-> "receive", event |-> e]
           p == [m.proc EXCEPT !.doing = d]
           n == [m EXCEPT !.proc = p]
<1>1. d \in Doings(issued) /\ m.proc \in Procs(issued)
  BY DEF Doings, Turns
<1>2. n = Receive(m, e)
  BY Zenon DEF Receive
<1> HIDE DEF d
<1>3. /\ p \in Procs(issued) /\ p.doing = d /\ p.queue = m.proc.queue
      /\ p.served = m.proc.served /\ p.checking = m.proc.checking
  BY <1>1 DEF Procs
<1> HIDE DEF p
<1>4. SameRow(n) /\ n.proc = p
  BY <1>3, WithProc
<1> HIDE DEF n
<1>5. Becomes(n)
  BY <1>2
<1>6. row' = row /\ proc' = p /\ issued' = issued /\ disturbances' = disturbances
  BY <1>4, <1>5, Became
<1> QED  BY <1>3, <1>6 DEF Takes, Free, d

\* An input from outside that changes nothing else.
LEMMA TakesOutside ==
  ASSUME Types, Free, NEW e \in EventRecord, e.kind \notin AnswerKinds,
         Becomes(Receive(Taken, e)), repo' = repo
  PROVE  Takes(e)
<1>1. PICK b \in BOOLEAN :
        /\ Taken \in Turns /\ SameRow(Taken)
        /\ Taken.proc = [proc EXCEPT !.served = b]
        /\ b => proc.served \/ proc.queue = <<>>
  BY HereTypes
<1> DEFINE p == Taken.proc
<1>2. p.checking = proc.checking /\ p.queue = proc.queue /\ p.served = b
  BY <1>1 DEF Types, Procs
<1> HIDE DEF p
<1> QED  BY <1>1, <1>2, TakesInput DEF p

LEMMA CreateTaskTakes ==
  ASSUME Core, CreateTask
  PROVE  \E e \in EventRecord : EventSound(e) /\ Takes(e) /\ e.kind \notin Verdicts
<1> DEFINE e == Event("Start", None, None)
<1>1. e \in EventRecord /\ e.kind = "Start" /\ EventSound(e)
  BY EventTypes, NoneTypes DEF EventKinds
<1>2. Types /\ Free /\ Becomes(Receive(Taken, e)) /\ repo' = repo
  BY DEF Core, CreateTask, Serving
<1> HIDE DEF e
<1>3. Takes(e)
  BY <1>1, <1>2, TakesOutside DEF AnswerKinds
<1> QED  BY <1>1, <1>3 DEF Verdicts

LEMMA CancelTaskTakes ==
  ASSUME Core, CancelTask
  PROVE  \E e \in EventRecord : EventSound(e) /\ Takes(e) /\ e.kind \notin Verdicts
<1> DEFINE e == Event("Cancel", None, None)
<1>1. e \in EventRecord /\ e.kind = "Cancel" /\ EventSound(e)
  BY EventTypes, NoneTypes DEF EventKinds
<1>2. Types /\ Free /\ Becomes(Receive(Taken, e)) /\ repo' = repo
  BY DEF Core, CancelTask, Serving
<1> HIDE DEF e
<1>3. Takes(e)
  BY <1>1, <1>2, TakesOutside DEF AnswerKinds
<1> QED  BY <1>1, <1>3 DEF Verdicts

\* The pair of the open attempt.
LEMMA TicketType ==
  ASSUME Core
  PROVE  /\ row.st \in Copies(Flow) /\ row.st.actions = {}
         /\ Ticket(row.st) \in Tickets
<1>1. row.st \in Copies(Flow) /\ row.st.actions = {}
  BY DEF Core, Types, Rows, PipelineState
<1>2. row.st.stage_index \in Nat /\ Attempt(Flow, row.st) \in Nat
  BY <1>1, FlowFacts DEF Attempt, Copies
<1> QED  BY <1>1, <1>2 DEF Ticket, Tickets

LEMMA DoneTakes ==
  ASSUME Core, Done
  PROVE  \E e \in EventRecord : EventSound(e) /\ Takes(e) /\ e.kind \notin Verdicts
<1> DEFINE h == repo.branch
           t == Ticket(row.st)
           p == PatchId(h)
           f == Event("WorkCompleted", None, h)
           e == [HeadEvent("WorkCompleted", h, FALSE) EXCEPT !.ticket = t]
<1>1. h \in Heads /\ Used(h) /\ Types
  BY DEF Done, Core, Types, Repos, Option, RepoSound
<1>2. p \in Patches /\ NamedAs(h, p)
  BY <1>1, PatchIdType DEF Types
<1>3. t \in Tickets
  BY TicketType
<1>4. /\ f \in EventRecord /\ f.kind = "WorkCompleted" /\ f.head = h
  BY <1>1, EventTypes, NoneTypes DEF EventKinds, Option
<1>5. e = [[f EXCEPT !.patch = p, !.conflict = FALSE] EXCEPT !.ticket = t]
  BY DEF HeadEvent
<1>6. Free /\ Becomes(Receive(Taken, e)) /\ repo' = repo
  BY DEF Done, Serving
<1> HIDE DEF h, p, t, f, e
<1>7. /\ e \in EventRecord /\ e.kind = "WorkCompleted" /\ e.head = h /\ e.patch = p
  BY <1>2, <1>3, <1>4, <1>5 DEF EventRecord, Option
<1>8. EventSound(e)
  BY <1>1, <1>2, <1>7 DEF EventSound
<1>9. Takes(e)
  BY <1>1, <1>6, <1>7, TakesOutside DEF AnswerKinds
<1> QED  BY <1>7, <1>8, <1>9 DEF Verdicts

LEMMA ReviewTakes ==
  ASSUME Core, NEW granted \in BOOLEAN, Review(granted)
  PROVE  \E e \in EventRecord :
           /\ EventSound(e) /\ Takes(e)
           /\ e.kind \in Verdicts =>
                granted /\ e.kind = "ApprovalGranted" /\ e.head = row.review.head
<1> DEFINE r == row.review
           kind == IF granted THEN "ApprovalGranted" ELSE "ChangesRequested"
           f == Event(kind, r.ticket, r.head)
           v == r.reviewer
           e == [f EXCEPT !.reviewer = v]
<1>1. r \in ReviewRecord /\ Types
  BY DEF Review, Core, Types, Rows, Option
<1>2. /\ Free /\ Becomes(Receive(Taken, e)) /\ repo' = repo
  BY DEF Review, Serving
<1>3. v \in Reviewers /\ r.ticket \in Option(Tickets) /\ r.head \in Option(Heads)
  BY <1>1 DEF ReviewRecord, Option
<1> HIDE DEF r, v
<1>4. /\ kind \in {"ApprovalGranted", "ChangesRequested"} /\ kind \in EventKinds
      /\ kind = "ApprovalGranted" => granted
  BY DEF EventKinds
<1> HIDE DEF kind
<1>5. f \in EventRecord /\ f.kind = kind /\ f.head = r.head
  BY <1>3, <1>4, EventTypes
<1> HIDE DEF f
<1>6. e \in EventRecord /\ e.kind = kind /\ e.reviewer = v /\ e.head = r.head
  BY <1>3, <1>5 DEF EventRecord, Option
<1> HIDE DEF e
<1>7. EventSound(e)
  BY <1>3, <1>4, <1>6 DEF EventSound
<1>8. Takes(e)
  BY <1>1, <1>2, <1>4, <1>6, TakesOutside DEF AnswerKinds
<1> QED  BY <1>4, <1>6, <1>7, <1>8 DEF Verdicts, r

LEMMA TimerFiresTakes ==
  ASSUME Core, NEW t \in proc.sleeping, TimerFires(t)
  PROVE  \E e \in EventRecord : EventSound(e) /\ Takes(e) /\ e.kind \notin Verdicts
<1> DEFINE e == Event("StageTimedOut", t, None)
           sleeping == proc.sleeping \ {t}
<1>1. Types /\ Free /\ proc \in Procs(issued) /\ repo' = repo
  BY DEF Core, Types, TimerFires
<1>2. PICK b \in BOOLEAN :
        /\ Taken \in Turns /\ SameRow(Taken)
        /\ Taken.proc = [proc EXCEPT !.served = b]
        /\ b => proc.served \/ proc.queue = <<>>
  BY <1>1, HereTypes
<1> DEFINE p == [Taken.proc EXCEPT !.sleeping = sleeping]
           m == [Taken EXCEPT !.proc = p]
<1>3. sleeping \in SUBSET Tickets /\ t \in Tickets
  BY <1>1 DEF Procs
<1>4. /\ p \in Procs(issued) /\ p.checking = proc.checking /\ p.queue = proc.queue
      /\ p.served = b
  BY <1>1, <1>2, <1>3 DEF Procs
<1>5. Taken.proc.sleeping = proc.sleeping
  BY <1>1, <1>2 DEF Procs
<1>6. m = [Taken EXCEPT !.proc.sleeping = @ \ {t}]
  BY <1>5, Zenon
<1> HIDE DEF p
<1>7. m \in Turns /\ SameRow(m) /\ m.proc = p
  BY <1>2, <1>4, WithProc
<1> HIDE DEF m
<1>8. Becomes(Receive(m, e))
  BY <1>6 DEF TimerFires
<1>9. e \in EventRecord /\ e.kind = "StageTimedOut" /\ EventSound(e)
  BY <1>3, EventTypes, NoneTypes DEF EventKinds, Option
<1> HIDE DEF e
<1>10. Takes(e)
  BY <1>1, <1>2, <1>4, <1>7, <1>8, <1>9, TakesInput DEF AnswerKinds
<1> QED  BY <1>9, <1>10 DEF Verdicts

LEMMA QueuedEventTakes ==
  ASSUME Core, QueuedEvent
  PROVE  \E e \in EventRecord : EventSound(e) /\ Takes(e) /\ e = Head(proc.queue)
<1> DEFINE e == Head(proc.queue)
           q == Tail(proc.queue)
           b == proc.served \/ q = <<>>
           p == [proc EXCEPT !.queue = q, !.served = b]
           m == [Here EXCEPT !.proc = p]
<1>1. Types /\ Free /\ proc \in Procs(issued) /\ repo' = repo /\ proc.queue # <<>>
  BY DEF Core, Types, QueuedEvent
<1>2. Here \in Turns /\ SameRow(Here) /\ Here.proc = proc
  BY <1>1, HereTypes
<1>3. e \in EventRecord /\ EventSound(e) /\ q \in Seq(EventRecord)
  BY <1>1, QueueTypes DEF Core, EventsSound
<1>4. m = [Here EXCEPT !.proc.queue = Tail(@), !.proc.served = @ \/ Tail(proc.queue) = <<>>]
  BY <1>2, Zenon
<1>5. Becomes(Receive(m, e))
  BY <1>4 DEF QueuedEvent
<1>6. b \in BOOLEAN /\ (b => proc.served \/ q = <<>>)
  OBVIOUS
<1> HIDE DEF b, e, q
<1>7. /\ p \in Procs(issued) /\ p.checking = proc.checking /\ p.queue = q /\ p.served = b
  BY <1>1, <1>3, <1>6 DEF Procs
<1> HIDE DEF p
<1>8. m \in Turns /\ SameRow(m) /\ m.proc = p
  BY <1>2, <1>7, WithProc
<1> HIDE DEF m
<1>9. Takes(e)
  BY <1>1, <1>3, <1>5, <1>6, <1>7, <1>8, TakesInput DEF e, q
<1> QED  BY <1>3, <1>9 DEF e

-----------------------------------------------------------------------------
(* The steps of a merge.                                                   *)

\* A merge goes on to its next step.
GoesOn ==
  /\ proc.doing.at \in MergeSteps /\ proc'.doing.at \in ForgeSteps
  /\ proc'.doing.ticket = proc.doing.ticket /\ proc'.doing.head = proc.doing.head
  /\ row' \in Rows /\ row'.st = row.st /\ row'.status = row.status /\ row'.note = row.note
  /\ issued' = issued /\ disturbances' = disturbances
  /\ proc' \in Procs(issued) /\ proc'.queue = proc.queue
  /\ proc'.checking = proc.checking /\ proc'.served = proc.served

\* A merge is over and posts the events r.
Posts(r) ==
  /\ proc.doing.at \in MergeSteps /\ proc'.doing = Idle
  /\ row' \in Rows /\ row'.st = row.st /\ row'.status = row.status
  /\ issued' = issued /\ disturbances' = disturbances
  /\ r \in Seq(EventRecord)
  /\ proc' \in Procs(issued) /\ proc'.queue = proc.queue \o r
  /\ proc'.checking = proc.checking /\ proc'.served = proc.served

LEMMA Appended ==
  ASSUME proc \in Procs(issued), NEW r \in Seq(EventRecord)
  PROVE  LET q == proc.queue \o r
             n == Len(proc.queue)
         IN  /\ q \in Seq(EventRecord) /\ DOMAIN q = 1 .. n + Len(r) /\ Len(r) \in Nat
             /\ \A k \in DOMAIN proc.queue : k \in DOMAIN q /\ q[k] = proc.queue[k]
             /\ \A j \in DOMAIN r : n + j \in DOMAIN q /\ q[n + j] = r[j]
             /\ \A k \in DOMAIN q :
                  k \in DOMAIN proc.queue \/ (k > n /\ k - n \in DOMAIN r /\ q[k] = r[k - n])
<1> DEFINE p == proc.queue
           q == p \o r
           n == Len(p)
<1>1. p \in Seq(EventRecord) /\ n \in Nat /\ DOMAIN p = 1 .. n
  BY QueueTypes
<1> HIDE DEF p
<1>2. q \in Seq(EventRecord) /\ Len(q) = n + Len(r) /\ Len(r) \in Nat
  BY <1>1
<1>3. DOMAIN q = 1 .. n + Len(r) /\ DOMAIN r = 1 .. Len(r)
  BY <1>2
<1>4. \A k \in 1 .. n + Len(r) : q[k] = IF k <= n THEN p[k] ELSE r[k - n]
  BY <1>1, <1>2
<1> HIDE DEF q
<1>5. \A k \in DOMAIN p : k \in DOMAIN q /\ q[k] = p[k]
  BY <1>1, <1>2, <1>3, <1>4
<1>6. \A j \in DOMAIN r : n + j \in DOMAIN q /\ q[n + j] = r[j]
  <2> SUFFICES ASSUME NEW j \in 1 .. Len(r) PROVE n + j \in DOMAIN q /\ q[n + j] = r[j]
    BY <1>3
  <2>1. n + j \in 1 .. n + Len(r) /\ ~(n + j <= n) /\ (n + j) - n = j
    BY <1>1, <1>2
  <2> QED  BY <1>3, <1>4, <2>1
<1>7. \A k \in DOMAIN q : k \in DOMAIN p \/ (k > n /\ k - n \in DOMAIN r /\ q[k] = r[k - n])
  BY <1>1, <1>2, <1>3, <1>4
<1> QED  BY <1>2, <1>3, <1>5, <1>6, <1>7 DEF p, q

LEMMA GoesOnCore ==
  ASSUME Core, GoesOn, repo' \in Repos, RepoSound', Grows,
         repo'.branch # None \/ (repo'.branch = repo.branch /\ repo'.commit = repo.commit),
         proc'.doing.at \in LateSteps => Used(proc.doing.head),
         proc'.doing.at = "moved" => OnMain(proc.doing.head)'
  PROVE  Core'
<1>1. proc'.doing.at \notin {"receive", "apply", "act", "cleanup"}
  BY DEF GoesOn, ForgeSteps
<1>2. ~InHand'
  BY <1>1 DEF InHand
<1>3. DoingSound'
  <2>1. PICK h \in Heads : h = proc.doing.head
    BY DoingTypes DEF Core, Types, GoesOn
  <2>2. proc'.doing.at \in LateSteps => Used(proc.doing.head)'
    <3>1. Used(h) => Used(h)'
      BY StillThere DEF Core, Types
    <3> QED  BY <2>1, <3>1 DEF GoesOn
  <2>3. /\ MergeInFlight(Flow, row.st) /\ proc.doing.ticket = Ticket(row.st)
        /\ proc.doing.head = row.st.current_head
    BY DEF Core, DoingSound, GoesOn
  <2>4. Ticket(row.st)' = Ticket(row.st)
    BY DEF Ticket, GoesOn
  <2> QED  BY <1>1, <2>2, <2>3, <2>4 DEF DoingSound, MergeAsked, GoesOn
<1> QED  BY <1>2, <1>3, CoreKept DEF GoesOn

LEMMA PostsCore ==
  ASSUME Core, NEW r, Posts(r), repo' \in Repos, RepoSound', Grows,
         repo'.branch # None \/ (repo'.branch = repo.branch /\ repo'.commit = repo.commit),
         \A j \in DOMAIN r : EventSound(r[j])'
  PROVE  Core'
<1>1. ~InHand' /\ DoingSound'
  BY DEF InHand, Posts, Idle, DoingSound, MergeAsked, MergeSteps, ForgeSteps, LateSteps
<1>2. \A k \in DOMAIN proc'.queue :
        (\E j \in DOMAIN proc.queue : proc'.queue[k] = proc.queue[j])
          \/ EventSound(proc.queue[k])'
  <2> SUFFICES ASSUME NEW k \in DOMAIN proc'.queue, k \notin DOMAIN proc.queue
               PROVE  EventSound(proc.queue[k])'
    BY Appended DEF Posts, Core, Types
  <2>1. PICK j \in DOMAIN r : proc'.queue[k] = r[j]
    BY Appended DEF Posts, Core, Types
  <2> QED  BY <2>1
<1> QED  BY <1>1, <1>2, CoreKept DEF Posts

\* A task that is merging has a branch.
LEMMA BranchThere ==
  ASSUME Core, MergeInFlight(Flow, row.st)
  PROVE  /\ repo.branch \in Heads /\ Used(repo.branch)
         /\ row.st.current_head \in Heads /\ HasMerge(Flow)
<1>1. /\ row.st.status = "running" /\ IsKind(Flow, row.st.stage_index, "merge")
      /\ StepInv(Flow, row.st)
  BY DEF MergeInFlight, InStage, Core, Machine
<1>2. ~Closed(row.status)
  BY <1>1 DEF Core, StatusSound, Closed, TaskStatus
<1>3. row.st.stage_index # 1
  BY <1>1, FlowFacts DEF IsBranchWork, IsKind
<1>4. repo.branch \in Heads /\ Used(repo.branch)
  BY <1>2, <1>3 DEF Core, BranchSound, Types, Repos, Option, RepoSound
<1>5. row.st.stage_index \in Index(Flow)
  BY <1>1 DEF StepInv, Position
<1>6. HasMerge(Flow)
  BY <1>1, <1>5 DEF HasMerge
<1>7. row.st.current_head # None
  BY <1>1, HeadPresent DEF NeedsHead
<1>8. row.st.current_head \in Heads
  BY <1>1, <1>7 DEF StepInv, Copies, Option
<1> QED  BY <1>4, <1>6, <1>8

\* What a copy with another activity becomes.
LEMMA HereDoing ==
  ASSUME Types, NEW d \in Doings(issued), Becomes([Here EXCEPT !.proc.doing = d])
  PROVE  /\ row' = row /\ issued' = issued /\ disturbances' = disturbances
         /\ proc' \in Procs(issued) /\ proc' = [proc EXCEPT !.doing = d]
         /\ proc'.doing = d /\ proc'.queue = proc.queue /\ proc'.served = proc.served
         /\ proc'.checking = proc.checking
<1> DEFINE p == [proc EXCEPT !.doing = d]
           n == [Here EXCEPT !.proc = p]
<1>1. Here \in Turns /\ SameRow(Here) /\ Here.proc = proc
  BY HereTypes
<1>2. n = [Here EXCEPT !.proc.doing = d]
  BY <1>1, Zenon
<1>3. /\ p \in Procs(issued) /\ p.doing = d /\ p.queue = proc.queue
      /\ p.served = proc.served /\ p.checking = proc.checking
  BY DEF Types, Procs
<1>4. p = [proc EXCEPT !.doing = d]
  OBVIOUS
<1> HIDE DEF p
<1>5. SameRow(n) /\ n.proc = p
  BY <1>1, <1>3, WithProc
<1> HIDE DEF n
<1>6. Becomes(n)
  BY <1>2
<1>7. row' = row /\ proc' = p /\ issued' = issued /\ disturbances' = disturbances
  BY <1>5, <1>6, Became
<1> QED  BY <1>3, <1>4, <1>7

\* What a copy that has posted events becomes.
LEMMA HerePosts ==
  ASSUME Types, proc.doing.at \in MergeSteps, NEW r \in Seq(EventRecord),
         Becomes(Post(Here, r))
  PROVE  Posts(r) /\ row' = row
<1> DEFINE q == proc.queue \o r
           p == [proc EXCEPT !.queue = q, !.doing = Idle]
           n == [Here EXCEPT !.proc = p]
<1>1. Here \in Turns /\ SameRow(Here) /\ Here.proc = proc
  BY HereTypes
<1>2. n = Post(Here, r)
  BY <1>1, Zenon DEF Post
<1>3. q \in Seq(EventRecord) /\ Idle \in Doings(issued)
  BY Appended DEF Types, Doings, Idle
<1> HIDE DEF q
<1>4. /\ p \in Procs(issued) /\ p.doing = Idle /\ p.queue = q
      /\ p.served = proc.served /\ p.checking = proc.checking
  BY <1>3 DEF Types, Procs
<1> HIDE DEF p
<1>5. SameRow(n) /\ n.proc = p
  BY <1>1, <1>4, WithProc
<1> HIDE DEF n
<1>6. Becomes(n)
  BY <1>2
<1>7. row' = row /\ proc' = p /\ issued' = issued /\ disturbances' = disturbances
  BY <1>5, <1>6, Became
<1> QED  BY <1>4, <1>7 DEF Posts, q, Types

LEMMA OneEvent ==
  ASSUME NEW f \in EventRecord
  PROVE  <<f>> \in Seq(EventRecord) /\ Len(<<f>>) = 1 /\ DOMAIN <<f>> = {1} /\ <<f>>[1] = f
  OBVIOUS

LEMMA TwoEvents ==
  ASSUME NEW e \in EventRecord, NEW f \in EventRecord
  PROVE  /\ <<e, f>> \in Seq(EventRecord) /\ Len(<<e, f>>) = 2 /\ DOMAIN <<e, f>> = {1, 2}
         /\ <<e, f>>[1] = e /\ <<e, f>>[2] = f
  OBVIOUS

\* Among the events r, only the last answers the merge, and it does so by kind.
Reports(r, kind) ==
  \A j \in DOMAIN r :
    /\ r[j].kind \notin Verdicts
    /\ r[j].kind \in AnswerKinds =>
         /\ j = Len(r) /\ r[j].kind = kind
         /\ r[j].ticket = proc.doing.ticket /\ r[j].head = proc.doing.head

LEMMA FailedReport ==
  ASSUME Core, proc.doing.at \in MergeSteps
  PROVE  \E f \in EventRecord :
           /\ f = Failed /\ f.kind = "MergeFailed"
           /\ f.ticket = proc.doing.ticket /\ f.head = proc.doing.head
           /\ EventSound(f) /\ EventSound(f)'
<1>1. PICK f : f = Failed
  OBVIOUS
<1>2. proc.doing.ticket \in Option(Tickets) /\ proc.doing.head \in Option(Heads)
  BY DoingTypes DEF Core, Types, Option
<1>3. "MergeFailed" \in EventKinds
  BY DEF EventKinds
<1>4. /\ f \in EventRecord /\ f.kind = "MergeFailed"
      /\ f.ticket = proc.doing.ticket /\ f.head = proc.doing.head
  BY <1>1, <1>2, <1>3, EventTypes DEF Failed, Merging
<1>5. EventSound(f) /\ EventSound(f)'
  BY <1>4 DEF EventSound
<1> QED  BY <1>1, <1>4, <1>5

LEMMA CompletedReport ==
  ASSUME Core, proc.doing.at \in MergeSteps, OnMain(proc.doing.head)
  PROVE  \E f \in EventRecord :
           /\ f = Completed /\ f.kind = "MergeCompleted"
           /\ f.ticket = proc.doing.ticket /\ f.head = proc.doing.head
           /\ EventSound(f)
<1>1. PICK f : f = Completed
  OBVIOUS
<1>2. /\ proc.doing.ticket \in Option(Tickets) /\ proc.doing.head \in Option(Heads)
      /\ proc.doing.head \in Heads
  BY DoingTypes DEF Core, Types, Option
<1>3. "MergeCompleted" \in EventKinds
  BY DEF EventKinds
<1>4. /\ f \in EventRecord /\ f.kind = "MergeCompleted"
      /\ f.ticket = proc.doing.ticket /\ f.head = proc.doing.head
  BY <1>1, <1>2, <1>3, EventTypes DEF Completed, Merging
<1>5. EventSound(f)
  BY <1>2, <1>4 DEF EventSound
<1> QED  BY <1>1, <1>4, <1>5

LEMMA HeadEventTypes ==
  ASSUME Types, NEW kind \in EventKinds, NEW h \in Heads, Used(h), NEW conflict \in BOOLEAN
  PROVE  LET e == HeadEvent(kind, h, conflict)
         IN  /\ e \in EventRecord /\ e.kind = kind /\ e.head = h
             /\ e.patch \in Patches /\ NamedAs(h, e.patch) /\ e.conflict = conflict
<1> DEFINE p == PatchId(h)
           f == Event(kind, None, h)
           e == [f EXCEPT !.patch = p, !.conflict = conflict]
<1>1. p \in Patches /\ NamedAs(h, p)
  BY PatchIdType DEF Types
<1>2. e = HeadEvent(kind, h, conflict)
  BY DEF HeadEvent
<1>3. f \in EventRecord /\ f.kind = kind /\ f.head = h
  BY EventTypes, NoneTypes DEF Option
<1> HIDE DEF p, f
<1>4. /\ e \in EventRecord /\ e.kind = kind /\ e.head = h
      /\ e.patch = p /\ e.conflict = conflict
  BY <1>1, <1>3 DEF EventRecord, Option
<1> QED  BY <1>1, <1>2, <1>4 DEF p

\* Where a merge ends with the answer kind: what the repository has become, and
\* what is posted.
Ends(kind) ==
  /\ repo' \in Repos /\ RepoSound' /\ Grows /\ repo'.main = repo.main
  /\ repo'.branch # None \/ (repo'.branch = repo.branch /\ repo'.commit = repo.commit)
  /\ \E r \in Seq(EventRecord) :
       /\ Posts(r) /\ Reports(r, kind)
       /\ \A j \in DOMAIN r : EventSound(r[j])'
       /\ row'.note => row.note \/ r = <<>>

\* A repository that stays as it is.
LEMMA SameRepo ==
  ASSUME Types, repo' = repo
  PROVE  /\ repo' \in Repos /\ RepoSound' /\ Grows /\ repo'.main = repo.main
         /\ repo'.branch = repo.branch /\ repo'.commit = repo.commit
         /\ \A e : EventSound(e) => EventSound(e)'
<1>1. RepoSound' /\ Grows
  BY Untouched DEF Types, RepoSound
<1> QED  BY <1>1, StillThere DEF Types

LEMMA EndsCore ==
  ASSUME Core, NEW kind, Ends(kind)
  PROVE  Core'
  BY PostsCore DEF Ends

\* Ending with one event.
LEMMA EndsWith ==
  ASSUME Core, proc.doing.at \in MergeSteps, repo' = repo,
         NEW f \in EventRecord, f.kind \in AnswerKinds,
         f.ticket = proc.doing.ticket, f.head = proc.doing.head, EventSound(f),
         Becomes(Post(Here, <<f>>))
  PROVE  Ends(f.kind)
<1>1. PICK r : r = <<f>>
  OBVIOUS
<1>2. r \in Seq(EventRecord) /\ Len(r) = 1 /\ DOMAIN r = {1} /\ r[1] = f
  BY <1>1, OneEvent
<1>3. Posts(r) /\ row' = row
  BY <1>1, <1>2, HerePosts DEF Core
<1>4. Reports(r, f.kind)
  BY <1>2 DEF Reports, AnswerKinds, Verdicts
<1>5. \A j \in DOMAIN r : EventSound(r[j])'
  <2>1. EventSound(f)'
    BY SameRepo DEF Core
  <2>2. \A j \in DOMAIN r : r[j] = f
    BY <1>2
  <2> QED  BY <2>1, <2>2
<1> QED  BY <1>2, <1>3, <1>4, <1>5, SameRepo DEF Ends, Core

LEMMA PrepareMergeGoesOn ==
  ASSUME Core, PrepareMerge
  PROVE  /\ GoesOn /\ row' = row /\ repo' = repo
         /\ proc'.doing.at = "forge" /\ proc'.doing.main = Len(repo.main)
<1> DEFINE d == [at |-> "forge", ticket |-> Merging.ticket, head |-> Merging.head,
                 main |-> Len(repo.main)]
<1>1. proc.doing.at = "prepare" /\ Types
  BY DEF PrepareMerge, Doing, Core
<1>2. proc.doing.ticket \in Tickets /\ proc.doing.head \in Heads
  BY <1>1, DoingTypes DEF Types, MergeSteps
<1>3. Len(repo.main) \in Nat
  BY <1>1, MainTypes DEF Types
<1>4. d \in Doings(issued)
  BY <1>2, <1>3 DEF Doings, ForgeSteps, Merging
<1>5. Becomes([Here EXCEPT !.proc.doing = d]) /\ repo' = repo
  BY DEF PrepareMerge
<1>6. /\ d.at = "forge" /\ d.main = Len(repo.main)
      /\ d.ticket = proc.doing.ticket /\ d.head = proc.doing.head
  BY DEF Merging
<1> HIDE DEF d
<1>7. /\ row' = row /\ issued' = issued /\ disturbances' = disturbances
      /\ proc' \in Procs(issued) /\ proc'.doing = d /\ proc'.queue = proc.queue
      /\ proc'.served = proc.served /\ proc'.checking = proc.checking
  BY <1>1, <1>4, <1>5, HereDoing
<1> QED
  BY <1>1, <1>5, <1>6, <1>7 DEF GoesOn, MergeSteps, ForgeSteps, Types

\* Going from one step of the forge to another.
LEMMA ForgeGoesOn ==
  ASSUME Core, proc.doing.at \in ForgeSteps, NEW x \in ForgeSteps,
         Becomes([Here EXCEPT !.proc.doing.at = x])
  PROVE  /\ GoesOn /\ row' = row
         /\ proc'.doing.at = x /\ proc'.doing.main = proc.doing.main
<1> DEFINE d == [proc.doing EXCEPT !.at = x]
<1>1. /\ d \in Doings(issued) /\ d.at = x /\ d.main = proc.doing.main
      /\ d.ticket = proc.doing.ticket /\ d.head = proc.doing.head
  BY DoingTypes DEF Core, Types
<1>2. [Here EXCEPT !.proc.doing.at = x] = [Here EXCEPT !.proc.doing = d]
  <2>1. Here.proc = proc
    BY DEF Here
  <2> QED  BY <2>1, Zenon
<1> HIDE DEF d
<1>3. /\ row' = row /\ issued' = issued /\ disturbances' = disturbances
      /\ proc' \in Procs(issued) /\ proc'.doing = d /\ proc'.queue = proc.queue
      /\ proc'.served = proc.served /\ proc'.checking = proc.checking
  BY <1>1, <1>2, HereDoing DEF Core
<1> QED
  BY <1>1, <1>3 DEF GoesOn, MergeSteps, Core, Types

LEMMA HereWith ==
  ASSUME Types, NEW r \in Rows, NEW p \in Procs(issued),
         Becomes([Here EXCEPT !.row = r, !.proc = p])
  PROVE  row' = r /\ proc' = p /\ issued' = issued /\ disturbances' = disturbances
<1> DEFINE n == [Here EXCEPT !.row = r, !.proc = p]
<1>1. Here \in Turns /\ Here.handed = {} /\ ~Here.disturbed
  BY HereTypes DEF SameRow
<1>2. n.row = r /\ n.proc = p /\ n.handed = {} /\ ~n.disturbed
  BY <1>1 DEF Turns
<1> HIDE DEF n
<1>3. Becomes(n)
  BY DEF n
<1> QED  BY <1>2, <1>3 DEF Becomes, Types

\* A merge in hand is the merge of the open attempt, and there is a branch.
LEMMA MergingFacts ==
  ASSUME Core, proc.doing.at \in MergeSteps
  PROVE  /\ MergeInFlight(Flow, row.st) /\ proc.doing.ticket = Ticket(row.st)
         /\ proc.doing.head = row.st.current_head
         /\ repo.branch \in Heads /\ Used(repo.branch) /\ HasMerge(Flow)
         /\ proc \in Procs(issued) /\ row \in Rows /\ repo \in Repos /\ RepoSound
<1>1. /\ MergeInFlight(Flow, row.st) /\ proc.doing.ticket = Ticket(row.st)
      /\ proc.doing.head = row.st.current_head
  BY DEF Core, DoingSound
<1> QED  BY <1>1, BranchThere DEF Core, Types

LEMMA RebaseEnds ==
  ASSUME Core, NEW conflict \in BOOLEAN, NEW head \in Heads, NEW patch \in Patches,
         Rebase(conflict, head, patch)
  PROVE  Ends("MergeFailed") /\ ~OnMain(proc.doing.head) /\ row' = row
<1> DEFINE g == Event("MainAdvanced", None, head)
           x == [g EXCEPT !.patch = patch, !.conflict = conflict]
<1>1. proc.doing.at \in MergeSteps
  BY DEF Rebase, Doing, MergeSteps
<1>2. /\ repo.branch \in Heads /\ Used(repo.branch) /\ HasMerge(Flow)
      /\ repo \in Repos /\ RepoSound /\ Types
  BY <1>1, MergingFacts DEF Core
<1>3. g \in EventRecord /\ g.kind = "MainAdvanced" /\ g.head = head
  BY EventTypes, NoneTypes DEF EventKinds, Option
<1> HIDE DEF g
<1>4. x \in EventRecord /\ x.kind = "MainAdvanced" /\ x.head = head /\ x.patch = patch
  BY <1>3 DEF EventRecord, Option
<1>5. PICK e \in EventRecord : e = x
  BY <1>4
<1>6. e.kind = "MainAdvanced" /\ e.head = head /\ e.patch = patch
  BY <1>4, <1>5
<1>7. PICK f \in EventRecord :
        /\ f = Failed /\ f.kind = "MergeFailed" /\ EventSound(f)'
        /\ f.ticket = proc.doing.ticket /\ f.head = proc.doing.head
  BY <1>1, FailedReport
<1>8. PICK r : r = <<e, f>>
  OBVIOUS
<1>9. r \in Seq(EventRecord) /\ Len(r) = 2 /\ DOMAIN r = {1, 2} /\ r[1] = e /\ r[2] = f
  BY <1>8, TwoEvents
<1>10. Becomes(Post(Here, r))
  BY <1>5, <1>7, <1>8 DEF Rebase, g
<1> HIDE DEF x
<1>11. Posts(r) /\ row' = row
  BY <1>1, <1>2, <1>9, <1>10, HerePosts
<1>12. Reports(r, "MergeFailed")
  BY <1>6, <1>7, <1>9 DEF Reports, AnswerKinds, Verdicts
<1>13. /\ repo' \in Repos /\ RepoSound' /\ Grows /\ repo'.main = repo.main
       /\ repo'.branch \in Heads /\ Used(head)' /\ NamedAs(head, patch)'
  <2>1. CASE conflict \/ UpToDate(repo.branch)
    <3>1. head = repo.branch /\ repo' = repo /\ patch = PatchId(head)
      BY <2>1 DEF Rebase
    <3>2. Used(head)'
      BY <1>2, <3>1 DEF Used
    <3>3. NamedAs(head, patch)
      BY <1>2, <3>1, PatchIdType
    <3>4. NamedAs(head, patch)'
      BY <3>1, <3>3 DEF NamedAs, OnMain
    <3> QED  BY <1>2, <3>1, <3>2, <3>4, SameRepo
  <2>2. CASE ~(conflict \/ UpToDate(repo.branch))
    <3> DEFINE n == Len(repo.main)
               c == Commit(patch, n, {head})
    <3>1. /\ HeadsLeft /\ head = NewHead
          /\ repo' = [repo EXCEPT !.branch = head, !.commit[head] = c]
      BY <2>2 DEF Rebase
    <3>2. ~Used(head)
      BY <3>1, NewHeadUnused
    <3>3. n \in Nat
      BY <1>2, MainTypes
    <3>4. c \in CommitRecord /\ head \in c.contains /\ c.patch = patch
      BY <3>3 DEF Commit, CommitRecord
    <3> HIDE DEF c
    <3>5. repo' \in Repos /\ RepoSound' /\ Grows /\ repo'.branch = head /\ Used(head)'
      BY <1>2, <3>1, <3>2, <3>4, Committed
    <3>6. repo'.main = repo.main
      BY <1>2, <3>1 DEF Repos
    <3>7. repo'.commit[head] = c
      BY <1>2, <3>1 DEF Repos
    <3>8. NamedAs(head, patch)'
      BY <3>4, <3>7 DEF NamedAs
    <3> QED  BY <3>5, <3>6, <3>8
  <2> QED  BY <2>1, <2>2
<1>14. EventSound(e)'
  BY <1>2, <1>6, <1>13 DEF EventSound
<1>15. \A j \in DOMAIN r : EventSound(r[j])'
  <2>1. \A j \in DOMAIN r : r[j] = e \/ r[j] = f
    BY <1>9
  <2> QED  BY <1>7, <1>14, <2>1
<1>16. repo'.branch # None
  BY <1>13, NoneAssumption
<1>17. ~OnMain(proc.doing.head)
  BY DEF Rebase, FindMerge, Merging
<1> QED  BY <1>9, <1>11, <1>12, <1>13, <1>15, <1>16, <1>17 DEF Ends

\* The forge looks: the merge is there, it cannot be made, or it is to be made.
LEMMA ForgeLooksEnds ==
  ASSUME Core, ForgeLooks
  PROVE  \/ Ends("MergeCompleted") /\ OnMain(proc.doing.head) /\ repo' = repo
         \/ Ends("MergeFailed") /\ ~OnMain(proc.doing.head) /\ repo' = repo
         \/ /\ GoesOn /\ proc'.doing.at = "intent" /\ repo' = repo /\ row' = row
            /\ proc'.doing.main = proc.doing.main /\ proc.doing.main = Len(repo.main)
            /\ repo.branch = proc.doing.head /\ ~OnMain(proc.doing.head)
<1>1. proc.doing.at = "forge" /\ proc.doing.at \in MergeSteps /\ proc.doing.at \in ForgeSteps
  BY DEF ForgeLooks, Doing, MergeSteps, ForgeSteps
<1>2. /\ repo.branch \in Heads /\ Used(repo.branch) /\ HasMerge(Flow)
      /\ repo \in Repos /\ RepoSound /\ Types /\ repo' = repo
      /\ row \in Rows /\ proc \in Procs(issued)
  BY <1>1, MergingFacts DEF Core, ForgeLooks
<1>3. PICK f \in EventRecord :
        /\ f = Failed /\ f.kind = "MergeFailed" /\ EventSound(f) /\ EventSound(f)'
        /\ f.ticket = proc.doing.ticket /\ f.head = proc.doing.head
  BY <1>1, FailedReport
<1>4. CASE FindMerge(Merging.head)
  <2>1. OnMain(proc.doing.head)
    BY <1>4 DEF FindMerge, Merging
  <2>2. PICK c \in EventRecord :
          /\ c = Completed /\ c.kind = "MergeCompleted"
          /\ c.ticket = proc.doing.ticket /\ c.head = proc.doing.head
          /\ EventSound(c)
    BY <1>1, <2>1, CompletedReport
  <2>3. Becomes(Post(Here, <<c>>))
    BY <1>4, <2>2 DEF ForgeLooks
  <2>4. Ends(c.kind)
    BY <1>1, <1>2, <2>2, <2>3, EndsWith DEF AnswerKinds
  <2> QED  BY <1>2, <2>1, <2>2, <2>4
<1>5. CASE ~FindMerge(Merging.head) /\ repo.branch # Merging.head
  <2>1. PICK e : e = HeadEvent("CommitCreated", repo.branch, FALSE)
    OBVIOUS
  <2>2. /\ e \in EventRecord /\ e.kind = "CommitCreated" /\ e.head = repo.branch
        /\ e.patch \in Patches /\ NamedAs(repo.branch, e.patch) /\ ~e.conflict
    <3>1. "CommitCreated" \in EventKinds
      BY DEF EventKinds
    <3>2. FALSE \in BOOLEAN
      OBVIOUS
    <3> HIDE DEF EventKinds
    <3> QED  BY <1>2, <2>1, <3>1, <3>2, HeadEventTypes
  <2>3. EventSound(e)
    BY <1>2, <2>2 DEF EventSound
  <2>4. EventSound(e)'
    BY <1>2, <2>3, SameRepo
  <2>5. PICK r : r = <<e, f>>
    OBVIOUS
  <2>6. r \in Seq(EventRecord) /\ Len(r) = 2 /\ DOMAIN r = {1, 2} /\ r[1] = e /\ r[2] = f
    BY <2>2, <2>5, TwoEvents
  <2>7. Becomes(Post(Here, r))
    BY <1>3, <1>5, <2>1, <2>5 DEF ForgeLooks
  <2>8. Posts(r) /\ row' = row
    BY <1>1, <1>2, <2>6, <2>7, HerePosts
  <2>9. Reports(r, "MergeFailed")
    BY <1>3, <2>2, <2>6 DEF Reports, AnswerKinds, Verdicts
  <2>10. \A j \in DOMAIN r : EventSound(r[j])'
    <3>1. \A j \in DOMAIN r : r[j] = e \/ r[j] = f
      BY <2>6
    <3> QED  BY <1>3, <2>4, <3>1
  <2>11. Ends("MergeFailed")
    BY <1>2, <2>6, <2>8, <2>9, <2>10, SameRepo DEF Ends
  <2> QED  BY <1>2, <1>5, <2>11 DEF FindMerge, Merging
<1>6. CASE /\ ~FindMerge(Merging.head) /\ repo.branch = Merging.head
           /\ Len(repo.main) # Merging.main
  <2>1. Becomes(Post(Here, <<f>>))
    BY <1>3, <1>6 DEF ForgeLooks
  <2>2. Ends(f.kind)
    BY <1>1, <1>2, <1>3, <2>1, EndsWith DEF AnswerKinds
  <2> QED  BY <1>2, <1>3, <1>6, <2>2 DEF FindMerge, Merging
<1>7. CASE /\ ~FindMerge(Merging.head) /\ repo.branch = Merging.head
           /\ Len(repo.main) = Merging.main /\ repo.dirty
  <2> DEFINE r == [row EXCEPT !.note = TRUE]
             p == [proc EXCEPT !.queue = proc.queue \o <<>>, !.doing = Idle]
  <2>1. Becomes([Post(Here, <<>>) EXCEPT !.row.note = TRUE])
    BY <1>7 DEF ForgeLooks
  <2>2. [Post(Here, <<>>) EXCEPT !.row.note = TRUE] = [Here EXCEPT !.row = r, !.proc = p]
    <3>1. Here.row = row /\ Here.proc = proc
      BY DEF Here
    <3>2. Post(Here, <<>>) = [Here EXCEPT !.proc = p]
      BY <3>1, Zenon DEF Post
    <3>3. [Here EXCEPT !.proc = p].row = row
      BY DEF Here
    <3>4. DOMAIN Here = {"row", "proc", "handed", "disturbed"}
      BY DEF Here
    <3> HIDE DEF p
    <3>5. [[Here EXCEPT !.proc = p] EXCEPT !.row = r] = [Here EXCEPT !.row = r, !.proc = p]
      BY DEF Here
    <3>6. [[Here EXCEPT !.proc = p] EXCEPT !.row.note = TRUE]
            = [[Here EXCEPT !.proc = p] EXCEPT !.row = r]
      BY <3>3, Zenon
    <3> QED  BY <3>2, <3>5, <3>6
  <2>3. r \in Rows /\ r.st = row.st /\ r.status = row.status
    BY <1>2 DEF Rows
  <2>4. PICK q \in Seq(EventRecord) : q = <<>>
    <3>1. <<>> \in Seq(EventRecord)
      OBVIOUS
    <3> QED  BY <3>1
  <2> DEFINE qq == proc.queue \o q
  <2>5. qq \in Seq(EventRecord) /\ Idle \in Doings(issued)
    BY <1>2, Appended DEF Doings, Idle
  <2>6. p = [proc EXCEPT !.queue = qq, !.doing = Idle]
    BY <2>4
  <2> HIDE DEF p, qq, r
  <2>7. /\ p \in Procs(issued) /\ p.queue = qq /\ p.doing = Idle
        /\ p.checking = proc.checking /\ p.served = proc.served
    BY <1>2, <2>5, <2>6 DEF Procs
  <2>8. row' = r /\ proc' = p /\ issued' = issued /\ disturbances' = disturbances
    BY <1>2, <2>1, <2>2, <2>3, <2>7, HereWith
  <2>9. Posts(q)
    BY <1>1, <2>3, <2>7, <2>8 DEF Posts, qq
  <2>10. DOMAIN q = {}
    BY <2>4
  <2>11. Ends("MergeFailed")
    BY <1>2, <2>4, <2>9, <2>10, SameRepo DEF Ends, Reports
  <2> QED  BY <1>2, <1>7, <2>11 DEF FindMerge, Merging
<1>8. CASE /\ ~FindMerge(Merging.head) /\ repo.branch = Merging.head
           /\ Len(repo.main) = Merging.main /\ ~repo.dirty
  <2>1. Becomes([Here EXCEPT !.proc.doing.at = "intent"])
    BY <1>8 DEF ForgeLooks
  <2>2. "intent" \in ForgeSteps
    BY DEF ForgeSteps
  <2>3. /\ GoesOn /\ row' = row
        /\ proc'.doing.at = "intent" /\ proc'.doing.main = proc.doing.main
    BY <1>1, <2>1, <2>2, ForgeGoesOn
  <2> QED  BY <1>2, <1>8, <2>3 DEF FindMerge, Merging
<1> QED  BY <1>4, <1>5, <1>6, <1>7, <1>8

LEMMA RecordIntentGoesOn ==
  ASSUME Core, RecordIntent
  PROVE  /\ GoesOn /\ proc'.doing.at = "recheck" /\ proc'.doing.main = proc.doing.main
         /\ repo' = repo
<1> DEFINE d == [proc.doing EXCEPT !.at = "recheck"]
           h == proc.doing.head
           r == [row EXCEPT !.intent = h]
           p == [proc EXCEPT !.doing = d]
<1>1. /\ proc.doing.at = "intent" /\ proc.doing.at \in ForgeSteps
      /\ proc.doing.at \in MergeSteps /\ "recheck" \in ForgeSteps
      /\ repo' = repo
  BY DEF RecordIntent, Doing, ForgeSteps, MergeSteps
<1>2. Types /\ row \in Rows /\ proc \in Procs(issued)
  BY DEF Core, Types
<1>3. /\ d \in Doings(issued) /\ d.at = "recheck" /\ d.main = proc.doing.main
      /\ d.ticket = proc.doing.ticket /\ d.head = proc.doing.head /\ h \in Heads
  BY <1>1, <1>2, DoingTypes
<1>4. Becomes([Here EXCEPT !.row = r, !.proc = p])
  <2>1. Here.row = row /\ Here.proc = proc
    BY DEF Here
  <2>2. [Here EXCEPT !.row.intent = Merging.head, !.proc.doing.at = "recheck"]
          = [Here EXCEPT !.row = r, !.proc = p]
    BY <2>1, Zenon DEF Merging
  <2> QED  BY <2>2 DEF RecordIntent
<1> HIDE DEF d, h
<1>5. r \in Rows /\ r.st = row.st /\ r.status = row.status /\ r.note = row.note
  BY <1>2, <1>3 DEF Rows, Option
<1>6. /\ p \in Procs(issued) /\ p.doing = d /\ p.queue = proc.queue
      /\ p.checking = proc.checking /\ p.served = proc.served
  BY <1>2, <1>3 DEF Procs
<1> HIDE DEF r, p
<1>7. row' = r /\ proc' = p /\ issued' = issued /\ disturbances' = disturbances
  BY <1>2, <1>4, <1>5, <1>6, HereWith
<1> QED  BY <1>1, <1>3, <1>5, <1>6, <1>7 DEF GoesOn

LEMMA FailsBecause ==
  ASSUME Core, proc.doing.at \in MergeSteps, repo' = repo, Becomes(Post(Here, <<Failed>>))
  PROVE  Ends("MergeFailed")
<1>1. PICK f \in EventRecord :
        /\ f = Failed /\ f.kind = "MergeFailed" /\ EventSound(f)
        /\ f.ticket = proc.doing.ticket /\ f.head = proc.doing.head
  BY FailedReport
<1>2. Ends(f.kind)
  BY <1>1, EndsWith DEF AnswerKinds
<1> QED  BY <1>1, <1>2

LEMMA RecheckRefsEnds ==
  ASSUME Core, RecheckRefs
  PROVE  /\ repo' = repo /\ proc.doing.at = "recheck"
         /\ \/ Ends("MergeFailed")
            \/ GoesOn /\ proc'.doing.at = "move" /\ proc'.doing.main = proc.doing.main
<1>1. /\ proc.doing.at = "recheck" /\ proc.doing.at \in ForgeSteps
      /\ proc.doing.at \in MergeSteps /\ "move" \in ForgeSteps /\ repo' = repo
  BY DEF RecheckRefs, Doing, ForgeSteps, MergeSteps
<1>2. CASE Becomes([Here EXCEPT !.proc.doing.at = "move"])
  BY <1>1, <1>2, ForgeGoesOn
<1>3. CASE Becomes(Post(Here, <<Failed>>))
  BY <1>1, <1>3, FailsBecause
<1> QED  BY <1>1, <1>2, <1>3 DEF RecheckRefs

LEMMA MoveMainEnds ==
  ASSUME Core, MoveMain
  PROVE  /\ proc.doing.at = "move"
         /\ \/ Ends("MergeFailed") /\ repo' = repo
            \/ /\ GoesOn /\ proc'.doing.at = "moved" /\ row' = row
               /\ Len(repo.main) = proc.doing.main /\ repo' = Push("daemon", proc.doing.head)
<1>1. /\ proc.doing.at = "move" /\ proc.doing.at \in ForgeSteps
      /\ proc.doing.at \in MergeSteps /\ "moved" \in ForgeSteps
  BY DEF MoveMain, Doing, ForgeSteps, MergeSteps
<1>2. CASE /\ Len(repo.main) = Merging.main /\ repo' = Push("daemon", Merging.head)
           /\ Becomes([Here EXCEPT !.proc.doing.at = "moved"])
  BY <1>1, <1>2, ForgeGoesOn DEF Merging
<1>3. CASE Becomes(Post(Here, <<Failed>>)) /\ repo' = repo
  BY <1>1, <1>3, FailsBecause
<1> QED  BY <1>1, <1>2, <1>3 DEF MoveMain

LEMMA ReportMergeEnds ==
  ASSUME Core, ReportMerge
  PROVE  Ends("MergeCompleted") /\ repo' = repo /\ OnMain(proc.doing.head)
<1>1. /\ proc.doing.at = "moved" /\ proc.doing.at \in MergeSteps /\ repo' = repo
  BY DEF ReportMerge, Doing, ForgeSteps, MergeSteps
<1>2. OnMain(proc.doing.head)
  BY <1>1 DEF Core, DoingSound
<1>3. PICK c \in EventRecord :
        /\ c = Completed /\ c.kind = "MergeCompleted"
        /\ c.ticket = proc.doing.ticket /\ c.head = proc.doing.head
        /\ EventSound(c)
  BY <1>1, <1>2, CompletedReport
<1>4. Becomes(Post(Here, <<c>>))
  BY <1>3 DEF ReportMerge
<1>5. Ends(c.kind)
  BY <1>1, <1>3, <1>4, EndsWith DEF AnswerKinds
<1> QED  BY <1>1, <1>2, <1>3, <1>5

\* The steps of a merge, all together.
MergeStep ==
  \/ PrepareMerge \/ (\E c \in BOOLEAN, h \in Heads, p \in Patches : Rebase(c, h, p))
  \/ ForgeLooks \/ RecordIntent \/ RecheckRefs \/ MoveMain \/ ReportMerge

LEMMA MergeStepCore ==
  ASSUME Core, MergeStep
  PROVE  Core'
<1>1. ASSUME GoesOn, repo' = repo, proc'.doing.at # "moved",
             proc'.doing.at \in LateSteps => Used(proc.doing.head)
      PROVE  Core'
  BY <1>1, SameRepo, GoesOnCore DEF Core
<1>2. CASE PrepareMerge
  BY <1>1, <1>2, PrepareMergeGoesOn DEF LateSteps
<1>3. CASE \E c \in BOOLEAN, h \in Heads, p \in Patches : Rebase(c, h, p)
  BY <1>3, RebaseEnds, EndsCore
<1>4. CASE ForgeLooks
  <2>1. CASE GoesOn /\ proc'.doing.at = "intent" /\ repo' = repo
             /\ repo.branch = proc.doing.head
    <3>1. Used(proc.doing.head)
      BY <2>1, MergingFacts DEF GoesOn
    <3> QED  BY <1>1, <2>1, <3>1
  <2> QED  BY <1>4, <2>1, ForgeLooksEnds, EndsCore
<1>5. CASE RecordIntent
  <2>1. Used(proc.doing.head)
    BY <1>5 DEF RecordIntent, Doing, Core, DoingSound, LateSteps
  <2> QED  BY <1>1, <1>5, <2>1, RecordIntentGoesOn
<1>6. CASE RecheckRefs
  <2>1. Used(proc.doing.head)
    BY <1>6 DEF RecheckRefs, Doing, Core, DoingSound, LateSteps
  <2> QED  BY <1>1, <1>6, <2>1, RecheckRefsEnds, EndsCore
<1>7. CASE MoveMain
  <2>1. CASE /\ GoesOn /\ proc'.doing.at = "moved"
             /\ repo' = Push("daemon", proc.doing.head)
    <3>1. Used(proc.doing.head)
      BY <1>7 DEF MoveMain, Doing, Core, DoingSound, LateSteps
    <3>2. PICK h \in Heads : h = proc.doing.head
      BY <2>1, DoingTypes DEF Core, Types, GoesOn
    <3>3. /\ repo' \in Repos /\ RepoSound' /\ Grows
          /\ repo'.branch = repo.branch /\ repo'.commit = repo.commit
          /\ OnMain(h)'
      <4>1. repo' = Push("daemon", h) /\ Used(h) /\ repo \in Repos /\ RepoSound /\ h # None
        BY <2>1, <3>1, <3>2, NoneAssumption DEF Core, Types
      <4> QED  BY <4>1, Pushed DEF Option
    <3>4. OnMain(proc.doing.head)'
      BY <2>1, <3>2, <3>3 DEF GoesOn
    <3> QED  BY <2>1, <3>1, <3>3, <3>4, GoesOnCore
  <2> QED  BY <1>7, <2>1, MoveMainEnds, EndsCore
<1>8. CASE ReportMerge
  BY <1>8, ReportMergeEnds, EndsCore
<1> QED  BY <1>2, <1>3, <1>4, <1>5, <1>6, <1>7, <1>8 DEF MergeStep

-----------------------------------------------------------------------------
(* What boot, a retry and an unblocked task ask again.                     *)

LEMMA Outstanding ==
  ASSUME Core
  PROVE  /\ OutstandingActions(Flow, row.st) \subseteq issued
         /\ \A a \in OutstandingActions(Flow, row.st) :
              /\ a.kind \notin EndKinds
              /\ a.kind = "Merge" =>
                   MergeInFlight(Flow, row.st) /\ a.head = row.st.current_head
<1> DEFINE s == row.st
           i == s.stage_index
           A == OutstandingActions(Flow, s)
<1>1. /\ Valid(Flow) /\ s \in Copies(Flow) /\ StepInv(Flow, s) /\ Orderly(Flow, s)
      /\ s.actions = {} /\ Asking(Flow, issued, s)
  BY TicketType, FlowFacts DEF Core, Machine
<1> HIDE DEF s
<1>2. CASE s.status # "running"
  <2>1. A = {}
    BY <1>2 DEF OutstandingActions
  <2> QED  BY <2>1 DEF s
<1>3. CASE s.status = "running"
  <2>1. Filled(Flow, s) /\ Concerning(issued, i, s.attempts[i]) = Expected(Flow, s)
    BY <1>1, <1>3 DEF Asking, Waits
  <2>2. \A a \in A : a \in Expected(Flow, s)
    BY <1>1, <1>3, <2>1, OutstandingExpected
  <2>3. A \subseteq issued
    BY <2>1, <2>2 DEF Concerning, Asks
  <2>4. i \in Index(Flow)
    BY <1>1, <1>3 DEF StepInv, Position
  <2> DEFINE t == Act("ScheduleTimeout", i, s.attempts[i])
             r == RequestFor(Flow, s, i)
             o == OpenRequest(Flow, s)
  <2>5. t.kind = "ScheduleTimeout"
    BY DEF Act
  <2>6. /\ r.kind \in RequestKind
        /\ r.kind = "Merge" => KindAt(Flow, i) = "merge" /\ r.head = s.current_head
    <3>1. Flow.stages[i] \in Stages
      BY <1>1, <2>4, StageType
    <3>2. KindAt(Flow, i) \in StageKind
      BY <3>1 DEF Stages, KindAt
    <3>3. r.kind = "Merge" => KindAt(Flow, i) = "merge"
      BY <3>2 DEF RequestFor, StageKind
    <3>4. KindAt(Flow, i) = "merge" => NeedsHead(Flow, i)
      BY <2>4 DEF NeedsHead, IsKind
    <3> QED  BY <1>1, <2>4, <3>3, <3>4, RequestForFields DEF RequestFor
  <2>7. o = r \/ o.kind = "ReturnToWork"
    BY DEF OpenRequest
  <2>8. \A a \in A : a = t \/ a = o
    BY <2>2 DEF Expected
  <2> HIDE DEF A, t, r, o
  <2>9. \A a \in A :
          /\ a.kind \notin EndKinds
          /\ a.kind = "Merge" => IsKind(Flow, i, "merge") /\ a.head = s.current_head
    BY <2>4, <2>5, <2>6, <2>7, <2>8 DEF EndKinds, RequestKind, IsKind
  <2>10. \A a \in A :
          /\ a.kind \notin EndKinds
          /\ a.kind = "Merge" => MergeInFlight(Flow, s) /\ a.head = s.current_head
    BY <1>3, <2>9 DEF MergeInFlight, InStage
  <2> QED  BY <2>3, <2>10 DEF A, s
<1> QED  BY <1>2, <1>3

\* A snapshot the state machine can be in is always accepted at boot.
LEMMA Accepted ==
  ASSUME Core
  PROVE  RestoreAccepts(Flow, row.st)
<1>1. StepInv(Flow, row.st) /\ Orderly(Flow, row.st)
  BY DEF Core, Machine
<1>2. ~PickOutOfReach(Flow)
  BY FlowFacts DEF PickOutOfReach
<1> QED  BY <1>1, <1>2, FlowFacts, RestoreAcceptsOrderly

LEMMA TurnBecame ==
  ASSUME Types, NEW m \in Turns, m.handed = {}, ~m.disturbed, Becomes(m)
  PROVE  /\ row' = m.row /\ proc' = m.proc /\ row' \in Rows /\ proc' \in Procs(issued)
         /\ issued' = issued /\ disturbances' = disturbances
  BY DEF Becomes, Turns, Types

LEMMA WithRow ==
  ASSUME NEW m \in Turns, NEW r \in Rows
  PROVE  LET n == [m EXCEPT !.row = r]
         IN  /\ n \in Turns /\ n.row = r /\ n.proc = m.proc
             /\ n.handed = m.handed /\ n.disturbed = m.disturbed
  BY DEF Turns

LEMMA WithDoing ==
  ASSUME NEW m \in Turns, NEW d \in Doings(issued)
  PROVE  LET n == [m EXCEPT !.proc.doing = d]
         IN  /\ n \in Turns /\ n.row = m.row /\ n.handed = m.handed
             /\ n.disturbed = m.disturbed
             /\ n.proc = [m.proc EXCEPT !.doing = d]
             /\ n.proc.doing = d /\ n.proc.queue = m.proc.queue /\ n.proc.up = m.proc.up
             /\ n.proc.checking = m.proc.checking /\ n.proc.served = m.proc.served
<1> DEFINE p == [m.proc EXCEPT !.doing = d]
           n == [m EXCEPT !.proc = p]
<1>1. n = [m EXCEPT !.proc.doing = d]
  BY Zenon
<1>2. m.proc \in Procs(issued)
  BY DEF Turns
<1>3. /\ p \in Procs(issued) /\ p.doing = d /\ p.queue = m.proc.queue /\ p.up = m.proc.up
      /\ p.checking = m.proc.checking /\ p.served = m.proc.served
  BY <1>2 DEF Procs
<1>4. p = [m.proc EXCEPT !.doing = d]
  OBVIOUS
<1> HIDE DEF p
<1>5. /\ n \in Turns /\ n.proc = p /\ n.row = m.row
      /\ n.handed = m.handed /\ n.disturbed = m.disturbed
  BY <1>3, WithProc
<1> HIDE DEF n
<1> QED  BY <1>1, <1>3, <1>4, <1>5

\* What is left of the copy when an input is taken.
LEMMA TakenTypes ==
  ASSUME Types
  PROVE  /\ Taken \in Turns /\ Taken.row = row /\ Taken.handed = {} /\ ~Taken.disturbed
         /\ Taken.proc \in Procs(issued) /\ Taken.proc.doing = proc.doing
         /\ Taken.proc.queue = proc.queue /\ Taken.proc.up = proc.up
         /\ Taken.proc.checking = proc.checking /\ Taken.proc.timers = proc.timers
         /\ Taken.proc.running = proc.running
         /\ Taken.proc.served => proc.served \/ proc.queue = <<>>
<1>1. PICK b \in BOOLEAN :
        /\ Taken \in Turns /\ SameRow(Taken)
        /\ Taken.proc = [proc EXCEPT !.served = b]
        /\ b => proc.served \/ proc.queue = <<>>
  BY HereTypes
<1>2. proc \in Procs(issued)
  BY DEF Types
<1> DEFINE p == Taken.proc
<1>3. p = [proc EXCEPT !.served = b]
  BY <1>1
<1> HIDE DEF p
<1>4. /\ p \in Procs(issued) /\ p.doing = proc.doing /\ p.queue = proc.queue
      /\ p.up = proc.up /\ p.checking = proc.checking /\ p.timers = proc.timers
      /\ p.running = proc.running /\ p.served = b
  BY <1>2, <1>3 DEF Procs
<1>5. /\ Taken.proc \in Procs(issued) /\ Taken.proc.doing = proc.doing
      /\ Taken.proc.queue = proc.queue /\ Taken.proc.up = proc.up
      /\ Taken.proc.checking = proc.checking /\ Taken.proc.timers = proc.timers
      /\ Taken.proc.running = proc.running /\ Taken.proc.served = b
  BY <1>4 DEF p
<1> QED  BY <1>1, <1>5 DEF SameRow

\* The actions A are carried out next.
LEMMA CarriesOut ==
  ASSUME Types, NEW m \in Turns, m.handed = {}, ~m.disturbed, NEW A \in SUBSET issued,
         Becomes(CarryOut(m, A, None))
  PROVE  /\ row' = m.row /\ row' \in Rows /\ issued' = issued /\ disturbances' = disturbances
         /\ proc' \in Procs(issued)
         /\ proc'.doing = [at |-> "act", acts |-> A, event |-> None]
         /\ proc'.queue = m.proc.queue /\ proc'.checking = m.proc.checking
         /\ proc'.served = m.proc.served
<1> DEFINE d == [at |-> "act", acts |-> A, event |-> None]
           n == [m EXCEPT !.proc.doing = d]
<1>1. d \in Doings(issued)
  BY DEF Doings, Option
<1>2. d = [at |-> "act", acts |-> A, event |-> None]
  OBVIOUS
<1>3. n = CarryOut(m, A, None)
  BY DEF CarryOut
<1> HIDE DEF d
<1>4. /\ n \in Turns /\ n.row = m.row /\ n.handed = m.handed
      /\ n.disturbed = m.disturbed
      /\ n.proc.doing = d /\ n.proc.queue = m.proc.queue
      /\ n.proc.checking = m.proc.checking /\ n.proc.served = m.proc.served
  BY <1>1, WithDoing
<1> HIDE DEF n
<1>5. Becomes(n)
  BY <1>3
<1>6. /\ row' = n.row /\ proc' = n.proc /\ row' \in Rows /\ proc' \in Procs(issued)
      /\ issued' = issued /\ disturbances' = disturbances
  BY <1>4, <1>5, TurnBecame
<1> QED  BY <1>2, <1>4, <1>6

\* The loop sets out to ask again for what is outstanding.
AsksAgain ==
  /\ row' \in Rows /\ row'.st = row.st /\ repo' = repo
  /\ issued' = issued /\ disturbances' = disturbances
  /\ proc' \in Procs(issued)
  /\ proc'.doing = [at |-> "act", acts |-> OutstandingActions(Flow, row.st), event |-> None]
  /\ proc'.checking \subseteq proc.checking

LEMMA UnblockAsks ==
  ASSUME Core, Unblock
  PROVE  /\ AsksAgain /\ proc'.queue = proc.queue
         /\ row.status = "blocked" /\ row'.status = "running"
<1> DEFINE A == OutstandingActions(Flow, row.st)
           t == Ticket(row.st)
           rest == proc.timers \ {t}
           r == [row EXCEPT !.status = "running"]
           p == [Taken.proc EXCEPT !.timers = rest]
           n == [Taken EXCEPT !.row = r]
           m == [n EXCEPT !.proc = p]
<1>1. Types /\ row \in Rows /\ row.status = "blocked" /\ repo' = repo
  BY DEF Core, Types, Unblock
<1>2. /\ Taken \in Turns /\ Taken.row = row /\ Taken.handed = {} /\ ~Taken.disturbed
      /\ Taken.proc \in Procs(issued) /\ Taken.proc.queue = proc.queue
      /\ Taken.proc.checking = proc.checking /\ Taken.proc.timers = proc.timers
  BY <1>1, TakenTypes
<1>3. m = [Taken EXCEPT !.row.status = "running", !.proc.timers = @ \ {t}]
  <2>1. [n EXCEPT !.proc = p] = [Taken EXCEPT !.row = r, !.proc = p]
    BY <1>2 DEF Turns
  <2>2. [Taken EXCEPT !.row = r, !.proc = p]
          = [Taken EXCEPT !.row.status = "running", !.proc.timers = @ \ {t}]
    BY <1>2, Zenon
  <2> QED  BY <2>1, <2>2
<1>4. Becomes(CarryOut(m, A, None))
  BY <1>3 DEF Unblock
<1>5. rest \in SUBSET Tickets
  BY <1>1 DEF Types, Procs
<1>6. A \in SUBSET issued
  BY Outstanding
<1> HIDE DEF rest
<1>7. r \in Rows /\ r.st = row.st /\ r.status = "running"
  BY <1>1 DEF Rows
<1>8. p \in Procs(issued) /\ p.queue = proc.queue /\ p.checking = proc.checking
  BY <1>2, <1>5 DEF Procs
<1> HIDE DEF r, p
<1>9. n \in Turns /\ n.row = r /\ n.proc = Taken.proc /\ n.handed = {} /\ ~n.disturbed
  BY <1>2, <1>7, WithRow
<1> HIDE DEF n
<1>10. m \in Turns /\ m.row = r /\ m.proc = p /\ m.handed = {} /\ ~m.disturbed
  BY <1>8, <1>9, WithProc
<1> HIDE DEF m
<1>11. /\ row' = m.row /\ row' \in Rows /\ issued' = issued /\ disturbances' = disturbances
       /\ proc' \in Procs(issued)
       /\ proc'.doing = [at |-> "act", acts |-> A, event |-> None]
       /\ proc'.queue = m.proc.queue /\ proc'.checking = m.proc.checking
  BY <1>1, <1>4, <1>6, <1>10, CarriesOut
<1> QED  BY <1>1, <1>7, <1>8, <1>10, <1>11 DEF AsksAgain

LEMMA RetryAsks ==
  ASSUME Core, Retry
  PROVE  /\ AsksAgain /\ proc'.queue = proc.queue /\ row'.status = row.status
         /\ row.note /\ ~row'.note /\ Serving
<1> DEFINE A == OutstandingActions(Flow, row.st)
           r == [row EXCEPT !.note = FALSE]
           m == [Taken EXCEPT !.row = r]
<1>1. Types /\ row \in Rows /\ repo' = repo /\ row.note /\ Serving
  BY DEF Core, Types, Retry
<1>2. /\ Taken \in Turns /\ Taken.row = row /\ Taken.handed = {} /\ ~Taken.disturbed
      /\ Taken.proc \in Procs(issued) /\ Taken.proc.queue = proc.queue
      /\ Taken.proc.checking = proc.checking
  BY <1>1, TakenTypes
<1>3. m = [Taken EXCEPT !.row.note = FALSE]
  BY <1>2, Zenon
<1>4. Becomes(CarryOut(m, A, None))
  BY <1>3 DEF Retry
<1>5. A \in SUBSET issued
  BY Outstanding
<1>6. r \in Rows /\ r.st = row.st /\ r.status = row.status /\ ~r.note
  BY <1>1 DEF Rows
<1> HIDE DEF r
<1>7. m \in Turns /\ m.row = r /\ m.proc = Taken.proc /\ m.handed = {} /\ ~m.disturbed
  BY <1>2, <1>6, WithRow
<1> HIDE DEF m
<1>8. /\ row' = m.row /\ row' \in Rows /\ issued' = issued /\ disturbances' = disturbances
       /\ proc' \in Procs(issued)
       /\ proc'.doing = [at |-> "act", acts |-> A, event |-> None]
       /\ proc'.queue = m.proc.queue /\ proc'.checking = m.proc.checking
  BY <1>1, <1>4, <1>5, <1>7, CarriesOut
<1> QED  BY <1>1, <1>2, <1>6, <1>7, <1>8 DEF AsksAgain

\* Whoever asks again hands out nothing new and merges only what is to be merged.
LEMMA AsksAgainSound ==
  ASSUME Core, AsksAgain
  PROVE  DoingSound' /\ ~InHand'
<1>1. ~InHand' /\ proc'.doing.at = "act"
  BY DEF InHand, AsksAgain
<1>2. \A a \in proc'.doing.acts :
        /\ a.kind \notin EndKinds
        /\ a.kind = "Merge" => MergeInFlight(Flow, row'.st) /\ a.head = row'.st.current_head
  BY Outstanding DEF AsksAgain
<1>3. proc'.doing.at \notin MergeSteps \cup LateSteps \cup {"moved", "cleanup"}
  BY <1>1 DEF MergeSteps, ForgeSteps, LateSteps
<1> QED  BY <1>1, <1>2, <1>3 DEF DoingSound, MergeAsked

LEMMA UnblockCore ==
  ASSUME Core, Unblock
  PROVE  Core'
<1>1. /\ AsksAgain /\ proc'.queue = proc.queue
      /\ row.status = "blocked" /\ row'.status = "running"
  BY UnblockAsks
<1>2. StatusSound' /\ ~Closed(row.status)
  BY <1>1 DEF Core, StatusSound, TaskStatus, Closed, AsksAgain
<1> QED  BY <1>1, <1>2, AsksAgainSound, SameRepo, CoreKept DEF AsksAgain, Core

LEMMA RetryCore ==
  ASSUME Core, Retry
  PROVE  Core'
<1>1. AsksAgain /\ proc'.queue = proc.queue /\ row'.status = row.status
  BY RetryAsks
<1> QED  BY <1>1, AsksAgainSound, SameRepo, CoreKept DEF AsksAgain, Core

\* A daemon that boots takes up the closed task, the start of an open one, or
\* what a running one waits for.
LEMMA BootTakesUp ==
  ASSUME Core, Boot
  PROVE  /\ row' \in Rows /\ row'.st = row.st /\ row'.status = row.status
         /\ row'.note = row.note /\ repo' = repo
         /\ issued' = issued /\ disturbances' = disturbances
         /\ proc' \in Procs(issued) /\ proc'.queue = <<>> /\ proc'.checking = {}
         /\ ~proc'.served
         /\ \/ proc'.doing = [at |-> "cleanup"] /\ Closed(row.status)
            \/ proc'.doing = Idle
            \/ AsksAgain
            \/ /\ proc'.doing.at = "receive" /\ proc'.doing.event.kind = "Start"
               /\ EventSound(proc'.doing.event)
<1> DEFINE A == OutstandingActions(Flow, row.st)
           v == IF Obsolete(row.review, row.st) THEN None ELSE row.review
           r == [row EXCEPT !.review = v]
           m == [Here EXCEPT !.proc = Booted, !.row.review =
                   IF Obsolete(@, row.st) THEN None ELSE @]
           k == [Here EXCEPT !.row = r]
           c == [at |-> "cleanup"]
           e == Event("Start", None, None)
           s == [at |-> "receive", event |-> e]
<1>1. Types /\ row \in Rows /\ repo' = repo
  BY DEF Core, Types, Boot
<1>2. v \in Option(ReviewRecord)
  BY <1>1 DEF Rows, Option
<1>3. m = [k EXCEPT !.proc = Booted]
  <2>1. Here.row = row /\ Here \in Turns
    BY <1>1, HereTypes DEF SameRow
  <2>2. m = [Here EXCEPT !.row = r, !.proc = Booted]
    BY <2>1, Zenon
  <2>3. [Here EXCEPT !.row = r, !.proc = Booted] = [k EXCEPT !.proc = Booted]
    BY <2>1 DEF Turns
  <2> QED  BY <2>2, <2>3
<1>4. \/ Becomes([m EXCEPT !.proc.doing = c]) /\ Closed(row.status)
      \/ Becomes(m)
      \/ Becomes(Receive(m, e))
      \/ Becomes(CarryOut(m, A, None))
  <2>1. RestoreAccepts(Flow, row.st)
    BY Accepted
  <2> HIDE DEF c, e, A, m
  <2> QED  BY <2>1 DEF Boot, CleanupDue, m, c, e, A
<1> HIDE DEF v
<1>5. /\ r \in Rows /\ r.st = row.st /\ r.status = row.status /\ r.note = row.note
  BY <1>1, <1>2 DEF Rows
<1> HIDE DEF r
<1>6. k \in Turns /\ k.row = r /\ k.handed = {} /\ ~k.disturbed
  <2>1. Here \in Turns /\ Here.handed = {} /\ ~Here.disturbed
    BY <1>1, HereTypes DEF SameRow
  <2> QED  BY <1>5, <2>1, WithRow
<1> HIDE DEF k
<1>7. /\ Booted \in Procs(issued) /\ Booted.doing = Idle /\ Booted.queue = <<>>
      /\ Booted.checking = {} /\ ~Booted.served
  <2>1. Idle \in Doings(issued)
    BY DEF Doings, Idle
  <2>2. <<>> \in Seq(EventRecord)
    OBVIOUS
  <2> HIDE DEF Idle
  <2>3. {} \in SUBSET Tickets /\ {} \in SUBSET Checks
    OBVIOUS
  <2> QED  BY <2>1, <2>2, <2>3 DEF Booted, Procs
<1> HIDE DEF m
<1>8. m \in Turns /\ m.row = r /\ m.proc = Booted /\ m.handed = {} /\ ~m.disturbed
  BY <1>3, <1>6, <1>7, WithProc
<1>9. CASE Becomes(m)
  <2>1. /\ row' = m.row /\ proc' = m.proc /\ row' \in Rows /\ proc' \in Procs(issued)
        /\ issued' = issued /\ disturbances' = disturbances
    BY <1>1, <1>8, <1>9, TurnBecame
  <2> QED  BY <1>1, <1>5, <1>7, <1>8, <2>1
<1>10. ASSUME NEW d \in Doings(issued), Becomes([m EXCEPT !.proc.doing = d])
       PROVE  /\ row' = r /\ row' \in Rows /\ proc' \in Procs(issued)
              /\ issued' = issued /\ disturbances' = disturbances
              /\ proc'.doing = d /\ proc'.queue = <<>> /\ proc'.checking = {}
              /\ ~proc'.served
  <2> DEFINE n == [m EXCEPT !.proc.doing = d]
  <2>1. /\ n \in Turns /\ n.row = m.row /\ n.handed = m.handed
        /\ n.disturbed = m.disturbed
        /\ n.proc.doing = d /\ n.proc.queue = m.proc.queue
        /\ n.proc.checking = m.proc.checking /\ n.proc.served = m.proc.served
    BY <1>8, WithDoing
  <2>2. Becomes(n)
    BY <1>10
  <2> HIDE DEF n
  <2>3. /\ row' = n.row /\ proc' = n.proc /\ row' \in Rows /\ proc' \in Procs(issued)
        /\ issued' = issued /\ disturbances' = disturbances
    BY <1>1, <1>8, <2>1, <2>2, TurnBecame
  <2> QED  BY <1>7, <1>8, <2>1, <2>3
<1>11. CASE Becomes([m EXCEPT !.proc.doing = c]) /\ Closed(row.status)
  <2>1. c \in Doings(issued) /\ c = [at |-> "cleanup"]
    BY DEF Doings
  <2> HIDE DEF c
  <2> QED  BY <1>1, <1>5, <1>10, <1>11, <2>1
<1>12. CASE Becomes(Receive(m, e))
  <2>1. e \in EventRecord /\ e.kind = "Start" /\ EventSound(e)
    BY EventTypes, NoneTypes DEF EventKinds
  <2> HIDE DEF e
  <2>2. s \in Doings(issued) /\ s.at = "receive" /\ s.event = e
    BY <2>1 DEF Doings
  <2>3. Becomes([m EXCEPT !.proc.doing = s])
    BY <1>12 DEF Receive
  <2> HIDE DEF s
  <2> QED  BY <1>1, <1>5, <1>10, <2>1, <2>2, <2>3
<1>13. CASE Becomes(CarryOut(m, A, None))
  <2>1. A \in SUBSET issued
    BY Outstanding
  <2>2. /\ row' = m.row /\ row' \in Rows /\ issued' = issued /\ disturbances' = disturbances
        /\ proc' \in Procs(issued)
        /\ proc'.doing = [at |-> "act", acts |-> A, event |-> None]
        /\ proc'.queue = m.proc.queue /\ proc'.checking = m.proc.checking
        /\ proc'.served = m.proc.served
    BY <1>1, <1>8, <1>13, <2>1, CarriesOut
  <2>3. proc'.checking \subseteq proc.checking
    BY <1>7, <1>8, <2>2
  <2>4. AsksAgain
    BY <1>1, <1>5, <1>8, <2>2, <2>3 DEF AsksAgain
  <2> QED  BY <1>1, <1>5, <1>7, <1>8, <2>2, <2>4
<1> QED  BY <1>4, <1>9, <1>11, <1>12, <1>13

LEMMA BootCore ==
  ASSUME Core, Boot
  PROVE  Core'
<1>1. /\ row' \in Rows /\ row'.st = row.st /\ row'.status = row.status /\ repo' = repo
      /\ issued' = issued /\ disturbances' = disturbances
      /\ proc' \in Procs(issued) /\ proc'.queue = <<>> /\ proc'.checking = {}
  BY BootTakesUp
<1>2. (InHand' => EventSound(proc.doing.event)') /\ DoingSound'
  <2>1. CASE AsksAgain
    BY <2>1, AsksAgainSound
  <2>2. CASE proc'.doing = Idle \/ (proc'.doing = [at |-> "cleanup"] /\ Closed(row.status))
    BY <1>1, <2>2 DEF InHand, Idle, DoingSound, MergeAsked, MergeSteps, ForgeSteps, LateSteps,
                      Closed
  <2>3. CASE /\ proc'.doing.at = "receive" /\ proc'.doing.event.kind = "Start"
             /\ EventSound(proc'.doing.event)
    <3>1. EventSound(proc.doing.event)'
      BY <2>3 DEF EventSound
    <3>2. DoingSound'
      BY <2>3 DEF DoingSound, MergeAsked, MergeSteps, ForgeSteps, LateSteps
    <3> QED  BY <3>1, <3>2
  <2> QED  BY <2>1, <2>2, <2>3, BootTakesUp
<1>3. DOMAIN proc'.queue = {}
  BY <1>1
<1> QED  BY <1>1, <1>2, <1>3, SameRepo, CoreKept DEF Core

-----------------------------------------------------------------------------
(* Checks, the operator and the rest of the world.                         *)

\* A check's result that comes down to no event: it is stale, or is shown.
Drops ==
  /\ proc.up /\ proc.doing = Idle /\ proc'.doing = Idle
  /\ row' \in Rows /\ row'.st = row.st /\ row'.status = row.status /\ repo' = repo
  /\ issued' = issued /\ disturbances' = disturbances
  /\ proc' \in Procs(issued) /\ proc'.queue = proc.queue
  /\ proc'.checking \subseteq proc.checking
  /\ proc'.served => proc.served \/ proc.queue = <<>>
  /\ row'.note => \/ row.note
                  \/ /\ row.status = "running"
                     /\ \E c \in proc.checking : c.ticket = Ticket(row.st)

LEMMA CheckResultTakes ==
  ASSUME Core, NEW c \in proc.checking, NEW result \in {"pass", "fail", "blocked"},
         CheckResult(c, result)
  PROVE  \/ Drops
         \/ \E e \in EventRecord :
              /\ EventSound(e) /\ Takes(e)
              /\ e.kind \in Verdicts =>
                   result = "pass" /\ e.kind = "CommandPassed" /\ e.head = c.head
<1> DEFINE rest == proc.checking \ {c}
           others == proc.running \ {c.ticket}
           p == [Taken.proc EXCEPT !.checking = rest, !.running = others]
           n == [Taken EXCEPT !.proc = p]
           r == [row EXCEPT !.note = TRUE]
           k == [n EXCEPT !.row = r]
           kind == IF result = "pass" THEN "CommandPassed" ELSE "CommandFailed"
           e == Event(kind, c.ticket, c.head)
<1>1. /\ Types /\ Free /\ proc \in Procs(issued) /\ row \in Rows /\ repo' = repo
      /\ proc.up /\ proc.doing = Idle
  BY DEF Core, Types, CheckResult, Free
<1>2. /\ Taken \in Turns /\ Taken.row = row /\ Taken.handed = {} /\ ~Taken.disturbed
      /\ Taken.proc \in Procs(issued) /\ Taken.proc.doing = proc.doing
      /\ Taken.proc.queue = proc.queue /\ Taken.proc.checking = proc.checking
      /\ Taken.proc.running = proc.running
      /\ Taken.proc.served => proc.served \/ proc.queue = <<>>
  BY <1>1, TakenTypes
<1>3. n = [Taken EXCEPT !.proc.checking = @ \ {c}, !.proc.running = @ \ {c.ticket}]
  BY <1>2, Zenon
<1>4. k = [n EXCEPT !.row.note = TRUE]
  <2>1. n.row = row
    BY <1>2 DEF Turns
  <2> HIDE DEF n
  <2> QED  BY <2>1, Zenon
<1>5. \/ Becomes(n)
      \/ Becomes(k) /\ row.status = "running" /\ c.ticket = Ticket(row.st)
      \/ Becomes(Receive(n, e))
  BY <1>3, <1>4 DEF CheckResult
<1>6. rest \in SUBSET Checks /\ others \in SUBSET Tickets /\ rest \subseteq proc.checking
      /\ c.ticket \in Tickets /\ c.head \in Option(Heads)
  BY <1>1 DEF Procs, Checks
<1> HIDE DEF rest, others
<1>7. /\ p \in Procs(issued) /\ p.doing = Idle /\ p.queue = proc.queue
      /\ p.checking = rest /\ p.served = Taken.proc.served
  BY <1>1, <1>2, <1>6 DEF Procs
<1> HIDE DEF p
<1>8. /\ n \in Turns /\ n.proc = p /\ n.row = row /\ n.handed = {} /\ ~n.disturbed
      /\ SameRow(n)
  BY <1>2, <1>7, WithProc DEF SameRow
<1> HIDE DEF n
<1>9. CASE Becomes(n)
  <2>1. /\ row' = n.row /\ proc' = n.proc /\ row' \in Rows /\ proc' \in Procs(issued)
        /\ issued' = issued /\ disturbances' = disturbances
    BY <1>1, <1>8, <1>9, TurnBecame
  <2> QED  BY <1>1, <1>2, <1>6, <1>7, <1>8, <2>1 DEF Drops
<1>10. CASE Becomes(k) /\ row.status = "running" /\ c.ticket = Ticket(row.st)
  <2>1. r \in Rows /\ r.st = row.st /\ r.status = row.status
    BY <1>1 DEF Rows
  <2> HIDE DEF r
  <2>2. k \in Turns /\ k.row = r /\ k.proc = p /\ k.handed = {} /\ ~k.disturbed
    BY <1>8, <2>1, WithRow
  <2> HIDE DEF k
  <2>3. /\ row' = k.row /\ proc' = k.proc /\ row' \in Rows /\ proc' \in Procs(issued)
        /\ issued' = issued /\ disturbances' = disturbances
    BY <1>1, <1>10, <2>2, TurnBecame
  <2> QED  BY <1>1, <1>2, <1>6, <1>7, <1>10, <2>1, <2>2, <2>3 DEF Drops
<1>11. CASE Becomes(Receive(n, e))
  <2>1. /\ kind \in EventKinds /\ kind \in {"CommandPassed", "CommandFailed"}
        /\ kind = "CommandPassed" => result = "pass"
    BY DEF EventKinds
  <2> HIDE DEF kind
  <2>2. c.ticket \in Option(Tickets)
    BY <1>6 DEF Option
  <2>3. e \in EventRecord /\ e.kind = kind /\ e.head = c.head /\ EventSound(e)
    BY <1>6, <2>1, <2>2, EventTypes
  <2> HIDE DEF e
  <2>4. Takes(e)
    BY <1>1, <1>2, <1>6, <1>7, <1>8, <1>11, <2>1, <2>3, TakesInput DEF AnswerKinds
  <2> QED  BY <2>1, <2>3, <2>4 DEF Verdicts
<1> QED  BY <1>5, <1>9, <1>10, <1>11

LEMMA DropsCore ==
  ASSUME Core, Drops
  PROVE  Core'
<1>1. ~InHand' /\ DoingSound'
  BY DEF Drops, InHand, Idle, DoingSound, MergeAsked, MergeSteps, ForgeSteps, LateSteps
<1> QED  BY <1>1, SameRepo, CoreKept DEF Drops, Core

LEMMA BlockDrops ==
  ASSUME Core, Block
  PROVE  /\ row' \in Rows /\ row'.st = row.st /\ row'.note = row.note /\ repo' = repo
         /\ row.status = "running" /\ row'.status = "blocked"
         /\ ~MergeInFlight(Flow, row.st)
         /\ issued' = issued /\ disturbances' = disturbances
         /\ proc' \in Procs(issued) /\ proc'.doing = Idle /\ proc'.queue = proc.queue
         /\ proc'.checking = proc.checking
<1> DEFINE r == [row EXCEPT !.status = "blocked"]
           m == [Taken EXCEPT !.row = r]
<1>1. /\ Types /\ proc \in Procs(issued) /\ row \in Rows /\ repo' = repo
      /\ proc.doing = Idle /\ row.status = "running" /\ ~MergeInFlight(Flow, row.st)
  BY DEF Core, Types, Block, Serving, Free
<1>2. /\ Taken \in Turns /\ Taken.row = row /\ Taken.handed = {} /\ ~Taken.disturbed
      /\ Taken.proc.doing = proc.doing
      /\ Taken.proc.queue = proc.queue /\ Taken.proc.checking = proc.checking
  BY <1>1, TakenTypes
<1>3. Becomes(m)
  <2>1. m = [Taken EXCEPT !.row.status = "blocked"]
    BY <1>2, Zenon
  <2> QED  BY <2>1 DEF Block
<1>4. r \in Rows /\ r.st = row.st /\ r.note = row.note /\ r.status = "blocked"
  BY <1>1 DEF Rows
<1> HIDE DEF r
<1>5. m \in Turns /\ m.row = r /\ m.proc = Taken.proc /\ m.handed = {} /\ ~m.disturbed
  BY <1>2, <1>4, WithRow
<1> HIDE DEF m
<1>6. /\ row' = m.row /\ proc' = m.proc /\ row' \in Rows /\ proc' \in Procs(issued)
      /\ issued' = issued /\ disturbances' = disturbances
  BY <1>1, <1>3, <1>5, TurnBecame
<1> QED  BY <1>1, <1>2, <1>4, <1>5, <1>6

LEMMA BlockCore ==
  ASSUME Core, Block
  PROVE  Core'
<1>1. /\ row' \in Rows /\ row'.st = row.st /\ repo' = repo
      /\ row.status = "running" /\ row'.status = "blocked"
      /\ ~MergeInFlight(Flow, row.st)
      /\ issued' = issued /\ disturbances' = disturbances
      /\ proc' \in Procs(issued) /\ proc'.doing = Idle /\ proc'.queue = proc.queue
      /\ proc'.checking = proc.checking
  BY BlockDrops
<1>2. ~InHand' /\ DoingSound'
  BY <1>1 DEF InHand, Idle, DoingSound, MergeAsked, MergeSteps, ForgeSteps, LateSteps
<1>3. row.st.status = "running"
  BY <1>1, TicketType DEF Core, StatusSound, TaskStatus, Copies, Status
<1>4. StatusSound' /\ ~Closed(row.status)
  BY <1>1, <1>3 DEF StatusSound, Closed
<1> QED  BY <1>1, <1>2, <1>4, SameRepo, CoreKept DEF Core

\* A step of the world: the daemon has nothing to do with it.
Elsewhere ==
  /\ row' = row /\ proc' = proc /\ issued' = issued /\ disturbances' = disturbances
  /\ repo' \in Repos /\ RepoSound' /\ Grows
  /\ repo'.branch # None \/ (repo'.branch = repo.branch /\ repo'.commit = repo.commit)
  /\ \A k \in DOMAIN repo'.main : k \in DOMAIN repo.main \/ repo'.main[k].by = "outside"

LEMMA ElsewhereCore ==
  ASSUME Core, Elsewhere
  PROVE  Core'
<1>1. proc \in Procs(issued) /\ row \in Rows /\ repo \in Repos /\ RepoSound
  BY DEF Core, Types
<1>2. /\ \A h \in Heads : Used(h) => Used(h)'
      /\ \A h : OnMain(h) => OnMain(h)'
      /\ \A e : EventSound(e) => EventSound(e)'
  BY <1>1, StillThere DEF Elsewhere
<1>3. InHand' => EventSound(proc.doing.event)'
  <2>1. PICK e : e = proc.doing.event
    OBVIOUS
  <2>2. InHand => EventSound(e)
    BY <2>1 DEF Core, EventsSound
  <2>3. InHand' <=> InHand
    BY DEF InHand, Elsewhere
  <2>4. proc'.doing.event = e
    BY <2>1 DEF Elsewhere
  <2> QED  BY <1>2, <2>2, <2>3, <2>4
<1>4. DoingSound'
  <2>1. PICK h : h = proc.doing.head
    OBVIOUS
  <2>2. proc'.doing.head = h
    BY <2>1 DEF Elsewhere
  <2>3. proc.doing.at \in LateSteps => h \in Heads /\ Used(h)
    BY <1>1, <2>1, DoingTypes DEF LateSteps, MergeSteps, ForgeSteps, Core, DoingSound
  <2>4. proc'.doing.at \in LateSteps => Used(proc.doing.head)'
    BY <1>2, <2>2, <2>3 DEF Elsewhere
  <2>5. proc.doing.at = "moved" => OnMain(h)
    BY <2>1 DEF Core, DoingSound
  <2>6. proc'.doing.at = "moved" => OnMain(proc.doing.head)'
    BY <1>2, <2>2, <2>5 DEF Elsewhere
  <2>7. Ticket(row.st)' = Ticket(row.st) /\ (MergeAsked' <=> MergeAsked)
    BY DEF Elsewhere, Ticket, MergeAsked
  <2> QED  BY <2>4, <2>6, <2>7 DEF Core, DoingSound, Elsewhere, Closed
<1> QED  BY <1>1, <1>3, <1>4, CoreKept DEF Elsewhere

LEMMA AgentCommitsElsewhere ==
  ASSUME Core, NEW patch \in Patches, AgentCommits(patch)
  PROVE  Elsewhere
<1>1. repo \in Repos /\ RepoSound
  BY DEF Core, Types
<1> DEFINE new == repo.branch = None
           old == repo.commit[repo.branch]
           bases == IF new THEN 0 .. Len(repo.main) ELSE {old.base}
           within == {NewHead} \cup IF new THEN {} ELSE old.contains
<1>2. PICK base \in bases :
        repo' = [repo EXCEPT !.branch = NewHead, !.commit[NewHead] = Commit(patch, base, within)]
  BY DEF AgentCommits
<1>3. ~new => old \in CommitRecord
  BY <1>1 DEF RepoSound, Repos, Option, Used
<1>4. base \in Nat /\ within \subseteq Heads /\ NewHead \in within
  <2>1. NewHead \in Heads
    BY NewHeadUnused DEF AgentCommits
  <2>2. Len(repo.main) \in Nat
    BY <1>1, MainTypes
  <2>3. base \in Nat
    BY <1>3, <2>2 DEF CommitRecord
  <2>4. within \subseteq Heads /\ NewHead \in within
    BY <1>3, <2>1 DEF CommitRecord
  <2> QED  BY <2>3, <2>4
<1>5. NewHead \in Heads /\ ~Used(NewHead)
  BY NewHeadUnused DEF AgentCommits
<1>6. PICK h \in Heads : h = NewHead
  BY <1>5
<1> HIDE DEF within
<1>7. PICK c \in CommitRecord : c = Commit(patch, base, within) /\ h \in c.contains
  <2>1. Commit(patch, base, within) \in CommitRecord
    BY <1>4 DEF Commit, CommitRecord
  <2>2. h \in Commit(patch, base, within).contains
    BY <1>4, <1>6 DEF Commit
  <2> QED  BY <2>1, <2>2
<1>8. repo' = [repo EXCEPT !.branch = h, !.commit[h] = c] /\ ~Used(h)
  BY <1>2, <1>5, <1>6, <1>7
<1>9. repo' \in Repos /\ RepoSound' /\ Grows /\ repo'.branch = h
  BY <1>1, <1>7, <1>8, Committed
<1>10. repo'.main = repo.main
  BY <1>1, <1>8 DEF Repos
<1> QED  BY <1>9, <1>10, NoneAssumption DEF Elsewhere, AgentCommits

LEMMA AgentResetsElsewhere ==
  ASSUME Core, NEW head \in Heads, AgentResets(head)
  PROVE  Elsewhere
<1>1. repo \in Repos /\ RepoSound
  BY DEF Core, Types
<1>2. repo' = [repo EXCEPT !.branch = head] /\ Used(head)
  BY DEF AgentResets
<1>3. /\ repo' \in Repos /\ repo'.branch = head /\ repo'.main = repo.main
      /\ repo'.commit = repo.commit
  BY <1>1, <1>2 DEF Repos, Option
<1>4. RepoSound' /\ Grows
  BY <1>1, <1>2, <1>3, Untouched
<1> QED  BY <1>3, <1>4, NoneAssumption DEF Elsewhere, AgentResets

LEMMA MainMovesElsewhere ==
  ASSUME Core, NEW head \in Heads \cup {None}, MainMoves(head)
  PROVE  Elsewhere
<1>1. repo \in Repos /\ RepoSound
  BY DEF Core, Types
<1>2. /\ repo' = Push("outside", head) /\ head \in Option(Heads)
      /\ head # None => Used(head)
  BY <1>1 DEF MainMoves, Option, RepoSound
<1>3. /\ repo' \in Repos /\ RepoSound' /\ Grows /\ repo'.branch = repo.branch
      /\ Len(repo'.main) = Len(repo.main) + 1
      /\ repo'.main[Len(repo'.main)] = [by |-> "outside", head |-> head]
      /\ repo'.commit = repo.commit
  BY <1>1, <1>2, Pushed
<1>4. \A k \in DOMAIN repo'.main : k \in DOMAIN repo.main \/ repo'.main[k].by = "outside"
  <2>1. /\ Len(repo.main) \in Nat /\ DOMAIN repo.main = 1 .. Len(repo.main)
        /\ DOMAIN repo'.main = 1 .. Len(repo'.main)
    BY <1>1, <1>3, MainTypes DEF Repos
  <2> QED  BY <1>3, <2>1
<1> QED  BY <1>3, <1>4 DEF Elsewhere, MainMoves

LEMMA CheckoutElsewhere ==
  ASSUME Core, CheckoutDirtied \/ CheckoutCleaned
  PROVE  Elsewhere
<1>1. repo \in Repos /\ RepoSound
  BY DEF Core, Types
<1>2. PICK b \in BOOLEAN, n \in Nat : repo' = [repo EXCEPT !.dirty = b, !.soiled = n]
  <2>1. repo.soiled \in Nat /\ repo.soiled + 1 \in Nat
    BY <1>1 DEF Repos
  <2>2. CASE CheckoutDirtied
    BY <2>1, <2>2 DEF CheckoutDirtied
  <2>3. CASE CheckoutCleaned
    <3>1. repo' = [repo EXCEPT !.dirty = FALSE, !.soiled = repo.soiled]
      BY <1>1, <2>3 DEF CheckoutCleaned, Repos
    <3> QED  BY <2>1, <3>1
  <2> QED  BY <2>2, <2>3
<1>3. /\ repo' \in Repos /\ repo'.branch = repo.branch /\ repo'.main = repo.main
      /\ repo'.commit = repo.commit
  BY <1>1, <1>2 DEF Repos
<1>4. RepoSound' /\ Grows
  BY <1>1, <1>3, Untouched DEF RepoSound
<1> QED  BY <1>3, <1>4 DEF Elsewhere, CheckoutDirtied, CheckoutCleaned

-----------------------------------------------------------------------------
(* Carrying out actions.                                                   *)

\* What Perform makes of the copy m, once it is known what is asked for.
Assigned(m, x, s, t, c, u, q, d) ==
  [m EXCEPT !.row.bound = @ \/ x # {}, !.proc.sleeping = @ \cup s, !.proc.timers = @ \cup t,
            !.proc.checking = @ \cup c, !.proc.running = @ \cup u,
            !.proc.queue = @ \o q, !.proc.doing = d]

AssignedSound(g, m, c, q, d) ==
  /\ g \in Turns /\ g.handed = m.handed /\ g.disturbed = m.disturbed
  /\ g.row.st = m.row.st /\ g.row.status = m.row.status /\ g.row.note = m.row.note
  /\ g.proc.checking = m.proc.checking \cup c /\ g.proc.queue = m.proc.queue \o q
  /\ g.proc.doing = d /\ g.proc.served = m.proc.served

LEMMA AssignedTypes ==
  ASSUME NEW m \in Turns, NEW x, NEW s \in SUBSET Tickets,
         NEW t \in SUBSET Tickets, NEW c \in SUBSET Checks, NEW u \in SUBSET Tickets,
         NEW q \in Seq(EventRecord), NEW d \in Doings(issued),
         NEW g, g = Assigned(m, x, s, t, c, u, q, d)
  PROVE  AssignedSound(g, m, c, q, d)
<1> DEFINE b == m.row.bound \/ x # {}
           r == [m.row EXCEPT !.bound = b]
           queue == m.proc.queue \o q
           sleeping == m.proc.sleeping \cup s
           timers == m.proc.timers \cup t
           checking == m.proc.checking \cup c
           running == m.proc.running \cup u
           p == [m.proc EXCEPT !.sleeping = sleeping, !.timers = timers,
                    !.checking = checking, !.running = running,
                    !.queue = queue, !.doing = d]
           k == [m EXCEPT !.row = r]
           n == [k EXCEPT !.proc = p]
<1>1. m.row \in Rows /\ m.proc \in Procs(issued)
  BY DEF Turns
<1>2. Assigned(m, x, s, t, c, u, q, d) = [m EXCEPT !.row = r, !.proc = p]
  BY <1>1, ZenonT(60) DEF Turns, Assigned
<1>3. n = [m EXCEPT !.row = r, !.proc = p]
  BY DEF Turns
<1>4. /\ queue \in Seq(EventRecord) /\ sleeping \in SUBSET Tickets
      /\ timers \in SUBSET Tickets /\ checking \in SUBSET Checks
      /\ running \in SUBSET Tickets /\ b \in BOOLEAN
  <2>1. m.proc.queue \in Seq(EventRecord)
    BY <1>1 DEF Procs
  <2>2. queue \in Seq(EventRecord)
    BY <2>1
  <2> QED  BY <1>1, <2>2 DEF Procs
<1>5. queue = m.proc.queue \o q /\ checking = m.proc.checking \cup c
  OBVIOUS
<1> HIDE DEF queue, sleeping, timers, checking, running, b
<1>6. r \in Rows /\ r.st = m.row.st /\ r.status = m.row.status /\ r.note = m.row.note
  BY <1>1, <1>4 DEF Rows
<1>7. p \in Procs(issued)
  BY <1>1, <1>4, ZenonT(60) DEF Procs
<1>8. p.checking = checking /\ p.queue = queue /\ p.doing = d /\ p.served = m.proc.served
  BY <1>1 DEF Procs
<1> HIDE DEF r, p
<1>9. k \in Turns /\ k.row = r /\ k.handed = m.handed /\ k.disturbed = m.disturbed
  BY <1>6, WithRow
<1> HIDE DEF k
<1>10. /\ n \in Turns /\ n.proc = p /\ n.row = r
       /\ n.handed = m.handed /\ n.disturbed = m.disturbed
  BY <1>7, <1>9, WithProc
<1> HIDE DEF n
<1> QED  BY <1>2, <1>3, <1>5, <1>6, <1>8, <1>10 DEF AssignedSound

LEMMA AssignReviewTypes ==
  ASSUME NEW m \in Turns
  PROVE  LET n == AssignReview(m)
         IN  /\ n \in Turns /\ n.proc = m.proc /\ n.handed = m.handed
             /\ n.disturbed = m.disturbed /\ n.row.st = m.row.st
             /\ n.row.status = m.row.status /\ n.row.note = m.row.note
<1> DEFINE s == m.row.st
           able == Reviewers \ s.approval_reviewers
           v == CHOOSE w \in able : TRUE
           h == IF Flow.stages[s.stage_index].bind_head THEN s.current_head ELSE None
           t == Ticket(s)
           review == [reviewer |-> v, ticket |-> t, head |-> h]
           r == [m.row EXCEPT !.review = review]
           n == [m EXCEPT !.row = r]
<1>1. m.row \in Rows /\ s \in Copies(Flow)
  BY DEF Turns, Rows, PipelineState
<1>2. CASE ~(m.row.review # None \/ able = {})
  <2>1. v \in Reviewers
    BY <1>2
  <2>2. h \in Option(Heads)
    BY <1>1 DEF Copies, Option
  <2>3. t \in Tickets
    <3>1. s.stage_index \in Nat /\ Attempt(Flow, s) \in Nat
      BY <1>1, FlowFacts DEF Attempt, Copies
    <3> QED  BY <3>1 DEF Ticket, Tickets
  <2>4. AssignReview(m) = n
    <3>1. AssignReview(m) = [m EXCEPT !.row.review = review]
      BY <1>2 DEF AssignReview
    <3> HIDE DEF review
    <3>2. [m EXCEPT !.row.review = review] = n
      BY Zenon
    <3> QED  BY <3>1, <3>2
  <2> HIDE DEF v, h, t
  <2>5. review \in ReviewRecord
    BY <2>1, <2>2, <2>3 DEF ReviewRecord
  <2> HIDE DEF review
  <2>6. r \in Rows /\ r.st = m.row.st /\ r.status = m.row.status /\ r.note = m.row.note
    BY <1>1, <2>5 DEF Rows, Option
  <2> HIDE DEF r
  <2>7. /\ n \in Turns /\ n.row = r /\ n.proc = m.proc
        /\ n.handed = m.handed /\ n.disturbed = m.disturbed
    BY <2>6, WithRow
  <2> QED  BY <2>4, <2>6, <2>7
<1>3. CASE m.row.review # None \/ able = {}
  BY <1>3 DEF AssignReview
<1> QED  BY <1>2, <1>3

\* What the actions of proc.doing come to.
Performs ==
  /\ proc.doing.at = "act"
  /\ row' \in Rows /\ row'.st = row.st /\ row'.status = row.status /\ row'.note = row.note
  /\ repo' = repo /\ issued' = issued /\ disturbances' = disturbances
  /\ proc' \in Procs(issued) /\ proc'.served = proc.served
  /\ \/ proc'.queue = proc.queue
     \/ \E f \in EventRecord : f.kind = "Submitted" /\ proc'.queue = proc.queue \o <<f>>
  /\ ChecksSound'
  /\ \/ /\ proc'.doing = [at |-> "cleanup"]
        /\ \E a \in proc.doing.acts : a.kind \in EndKinds
     \/ /\ MergeAsked
        /\ proc'.doing = [at |-> "prepare", ticket |-> Ticket(row.st),
                          head |-> row.st.current_head]
     \/ proc'.doing = Idle
     \/ /\ proc.doing.event # None
        /\ proc'.doing = [at |-> "apply", event |-> proc.doing.event]

LEMMA PerformActionsPerforms ==
  ASSUME Core, PerformActions
  PROVE  Performs
<1> DEFINE acts == proc.doing.acts
           e == proc.doing.event
           s == row.st
           v == IF Obsolete(row.review, s) THEN None ELSE row.review
           d == IF e = None THEN Idle ELSE [at |-> "apply", event |-> e]
           r == [row EXCEPT !.review = v]
           p == [proc EXCEPT !.doing = d]
           h == [Here EXCEPT !.row = r]
           m == [h EXCEPT !.proc = p]
           asks(kinds) == {a \in acts : a.kind \in kinds}
           of(a) == <<a.stage, a.attempt>>
           timed == {of(a) : a \in {b \in asks({"ScheduleTimeout"}) :
                                      KindAt(Flow, b.stage) \notin {"command", "merge"}}}
           ask(a) == [ticket |-> of(a), head |-> a.head]
           idle == {b \in asks({"RunCommand"}) : of(b) \notin proc.running}
           checks == {ask(a) : a \in idle}
           merges == asks({"Merge"})
           one == CHOOSE a \in merges : TRUE
           x == asks({"AssignWork", "ReturnToWork"})
           sleeping == timed \ proc.timers
           running == {c.ticket : c \in checks}
           q == IF asks({"Submit"}) = {} THEN <<>> ELSE Submit(Ticket(s))
           prepare == [at |-> "prepare", ticket |-> Ticket(s), head |-> one.head]
           next == IF asks({"TaskDone", "TaskCancelled", "TaskFailed"}) # {}
                   THEN [at |-> "cleanup"]
                   ELSE IF merges # {} THEN prepare ELSE d
           n == Assigned(m, x, sleeping, timed, checks, running, q, next)
<1>1. /\ Types /\ row \in Rows /\ proc \in Procs(issued) /\ repo' = repo
      /\ proc.doing.at = "act"
  BY DEF Core, Types, PerformActions
<1>2. acts \subseteq issued /\ e \in Option(EventRecord) /\ issued \subseteq Action
  BY <1>1, DoingTypes DEF Types
<1>3. v \in Option(ReviewRecord)
  BY <1>1 DEF Rows, Option
<1>4. d \in Doings(issued)
  BY <1>2 DEF Doings, Idle, Option
<1>5. Here \in Turns /\ Here.row = row /\ Here.proc = proc /\ Here.handed = {} /\ ~Here.disturbed
  BY <1>1, HereTypes DEF SameRow
<1>6. m = [Here EXCEPT !.row.review = IF Obsolete(@, row.st) THEN None ELSE @,
                       !.proc.doing = d]
  <2>1. m = [Here EXCEPT !.row = r, !.proc = p]
    BY <1>5 DEF Turns
  <2>2. [Here EXCEPT !.row = r, !.proc = p]
          = [Here EXCEPT !.row.review = IF Obsolete(@, row.st) THEN None ELSE @,
                         !.proc.doing = d]
    BY <1>5, Zenon
  <2> QED  BY <2>1, <2>2
<1>7. Becomes(Perform(m, acts)) \/ Becomes(Wake(Perform(m, acts)))
  <2> HIDE DEF m, acts
  <2>1. m = [Here EXCEPT !.row.review = IF Obsolete(@, row.st) THEN None ELSE @,
                       !.proc.doing = IF e = None THEN Idle ELSE [at |-> "apply", event |-> e]]
    BY <1>6
  <2> QED  BY <2>1 DEF PerformActions, acts
<1>8. /\ r \in Rows /\ r.st = s /\ r.status = row.status /\ r.note = row.note
  <2> HIDE DEF v
  <2> QED  BY <1>1, <1>3 DEF Rows
<1>9. /\ p \in Procs(issued) /\ p.queue = proc.queue /\ p.checking = proc.checking
      /\ p.served = proc.served /\ p.running = proc.running /\ p.timers = proc.timers
      /\ p.doing = d
  <2> HIDE DEF d
  <2> QED  BY <1>1, <1>4 DEF Procs
<1>10. /\ m \in Turns /\ m.row = r /\ m.proc = p /\ m.handed = {} /\ ~m.disturbed
  <2> HIDE DEF r, p
  <2>1. h \in Turns /\ h.row = r /\ h.handed = {} /\ ~h.disturbed
    BY <1>5, <1>8, WithRow
  <2> HIDE DEF h
  <2> QED  BY <1>9, <2>1, WithProc
<1>11. Perform(m, acts) = n \/ Perform(m, acts) = AssignReview(n)
  <2> HIDE DEF r, p, m, d
  <2>1. /\ m.row.st = s /\ m.proc.running = proc.running /\ m.proc.timers = proc.timers
        /\ m.proc.doing = d
    BY <1>8, <1>9, <1>10
  <2> DEFINE k == [m EXCEPT
                     !.row.bound = @ \/ x # {}, !.proc.sleeping = @ \cup sleeping,
                     !.proc.timers = @ \cup timed, !.proc.checking = @ \cup checks,
                     !.proc.running = @ \cup running, !.proc.queue = @ \o q,
                     !.proc.doing =
                       IF asks({"TaskDone", "TaskCancelled", "TaskFailed"}) # {}
                       THEN [at |-> "cleanup"]
                       ELSE IF merges # {} THEN prepare ELSE @]
  <2>2. Perform(m, acts) = k \/ Perform(m, acts) = AssignReview(k)
    BY <2>1, Zenon DEF Perform
  <2>3. k = n
    <3> HIDE DEF x, sleeping, timed, checks, running, q, merges, prepare, asks
    <3> QED  BY <2>1, ZenonT(60) DEF Assigned
  <2> QED  BY <2>2, <2>3
<1>12. \A a \in acts : of(a) \in Tickets /\ a.head \in Option(Heads)
  BY <1>2 DEF Action, Tickets
<1>13. /\ sleeping \in SUBSET Tickets /\ timed \in SUBSET Tickets
       /\ checks \in SUBSET Checks
  <2>1. \A y \in timed : y \in Tickets
    BY <1>12
  <2>2. \A y \in checks : y \in Checks
    <3>1. \A a \in acts : ask(a) \in Checks
      BY <1>12 DEF Checks
    <3>2. \A a \in idle : a \in acts
      OBVIOUS
    <3> HIDE DEF ask, idle
    <3> QED  BY <3>1, <3>2
  <2> HIDE DEF timed, checks, asks
  <2> QED  BY <2>1, <2>2
<1>14. running \in SUBSET Tickets
  BY <1>13 DEF Checks
<1>15. \/ q = <<>>
       \/ \E f \in EventRecord : f.kind = "Submitted" /\ q = <<f>>
  <2>1. PICK f : f = Event("Submitted", Ticket(s), None)
    OBVIOUS
  <2>2. Ticket(s) \in Option(Tickets)
    BY TicketType DEF Option
  <2>3. f \in EventRecord /\ f.kind = "Submitted"
    BY <2>1, <2>2, EventTypes, NoneTypes DEF EventKinds
  <2> QED  BY <2>1, <2>3 DEF Submit
<1>16. q \in Seq(EventRecord)
  <2> HIDE DEF q
  <2>1. <<>> \in Seq(EventRecord)
    OBVIOUS
  <2> QED  BY <1>15, <2>1, OneEvent
<1>17. ASSUME merges # {}
       PROVE  MergeAsked /\ one.head = s.current_head /\ one.head \in Heads
  <2>1. one \in acts /\ one.kind = "Merge"
    BY <1>17
  <2>2. MergeAsked
    BY <1>1, <2>1 DEF MergeAsked
  <2> HIDE DEF one
  <2>3. MergeInFlight(Flow, s) /\ one.head = s.current_head
    BY <2>1, <2>2 DEF Core, DoingSound
  <2> QED  BY <2>2, <2>3, BranchThere
<1>18. /\ next \in Doings(issued)
       /\ \/ /\ next = [at |-> "cleanup"]
             /\ \E a \in acts : a.kind \in EndKinds
          \/ /\ MergeAsked
             /\ next = [at |-> "prepare", ticket |-> Ticket(s), head |-> s.current_head]
          \/ next = Idle
          \/ e # None /\ next = [at |-> "apply", event |-> e]
  <2>1. Ticket(s) \in Tickets
    BY TicketType
  <2>2. CASE asks({"TaskDone", "TaskCancelled", "TaskFailed"}) # {}
    BY <2>2 DEF Doings, EndKinds
  <2>3. CASE merges # {} /\ asks({"TaskDone", "TaskCancelled", "TaskFailed"}) = {}
    <3>1. next = [at |-> "prepare", ticket |-> Ticket(s), head |-> s.current_head]
      BY <1>17, <2>3
    <3>2. s.current_head \in Heads
      BY <1>17, <2>3
    <3> QED  BY <1>17, <2>1, <2>3, <3>1, <3>2 DEF Doings
  <2>4. CASE merges = {} /\ asks({"TaskDone", "TaskCancelled", "TaskFailed"}) = {}
    BY <1>4, <2>4
  <2> QED  BY <2>2, <2>3, <2>4
<1> HIDE DEF x, sleeping, timed, running, q, next
<1>19. /\ n \in Turns /\ n.handed = {} /\ ~n.disturbed
       /\ n.row.st = s /\ n.row.status = row.status /\ n.row.note = row.note
       /\ n.proc.checking = proc.checking \cup checks /\ n.proc.queue = proc.queue \o q
       /\ n.proc.doing = next /\ n.proc.served = proc.served
  <2> HIDE DEF checks, r, p, m, acts, e
  <2>1. /\ m \in Turns /\ m.handed = {} /\ ~m.disturbed
        /\ m.row.st = s /\ m.row.status = row.status /\ m.row.note = row.note
        /\ m.proc.checking = proc.checking /\ m.proc.queue = proc.queue
        /\ m.proc.served = proc.served
    BY <1>8, <1>9, <1>10
  <2>2. q \in Seq(EventRecord) /\ next \in Doings(issued)
    BY <1>13, <1>16, <1>18
  <2>3. /\ sleeping \in SUBSET Tickets /\ timed \in SUBSET Tickets
        /\ checks \in SUBSET Checks /\ running \in SUBSET Tickets
    BY <1>13, <1>14
  <2>4. PICK g : g = n
    OBVIOUS
  <2>5. g = Assigned(m, x, sleeping, timed, checks, running, q, next)
    BY <2>4
  <2> HIDE DEF n
  <2>6. AssignedSound(g, m, checks, q, next)
    BY <2>1, <2>2, <2>3, <2>5, AssignedTypes
  <2> QED  BY <2>1, <2>4, <2>6 DEF AssignedSound
<1>20. ASSUME NEW k \in Turns, k.proc = n.proc, k.handed = {}, ~k.disturbed,
              k.row.st = s, k.row.status = row.status, k.row.note = row.note, Becomes(k)
       PROVE  /\ row' \in Rows /\ row'.st = s /\ row'.status = row.status
              /\ row'.note = row.note /\ proc' \in Procs(issued) /\ proc' = n.proc
              /\ issued' = issued /\ disturbances' = disturbances
  BY <1>1, <1>20, TurnBecame
<1>21. /\ row' \in Rows /\ row'.st = s /\ row'.status = row.status /\ row'.note = row.note
       /\ proc' \in Procs(issued) /\ proc' = n.proc
       /\ issued' = issued /\ disturbances' = disturbances
  <2> HIDE DEF n
  <2> DEFINE b == AssignReview(n)
             z == AssignReview(b)
  <2>1. /\ b \in Turns /\ b.proc = n.proc /\ b.handed = {} /\ ~b.disturbed
        /\ b.row.st = s /\ b.row.status = row.status /\ b.row.note = row.note
    BY <1>19, AssignReviewTypes
  <2> HIDE DEF b
  <2>2. /\ z \in Turns /\ z.proc = n.proc /\ z.handed = {} /\ ~z.disturbed
        /\ z.row.st = s /\ z.row.status = row.status /\ z.row.note = row.note
    BY <2>1, AssignReviewTypes
  <2> HIDE DEF z, m, acts
  <2>3. Becomes(n) \/ Becomes(b) \/ Becomes(z)
    <3>1. \A k : Wake(k) = k \/ Wake(k) = AssignReview(k)
      BY DEF Wake
    <3> QED  BY <1>7, <1>11, <3>1 DEF b, z
  <2> QED  BY <1>19, <1>20, <2>1, <2>2, <2>3
<1>22. \/ proc'.queue = proc.queue
       \/ \E f \in EventRecord : f.kind = "Submitted" /\ proc'.queue = proc.queue \o <<f>>
  <2>1. proc.queue \in Seq(EventRecord)
    BY <1>1 DEF Procs
  <2>2. proc.queue \o <<>> = proc.queue
    BY <2>1
  <2> QED  BY <1>15, <1>19, <1>21, <2>2
<1>23. ChecksSound'
  <2> SUFFICES ASSUME NEW c \in proc'.checking
               PROVE  \E a \in issued' : a.kind = "RunCommand" /\ c.ticket = <<a.stage, a.attempt>>
    BY DEF ChecksSound
  <2>1. CASE c \in proc.checking
    BY <1>21, <2>1 DEF Core, ChecksSound
  <2>2. CASE c \in checks
    <3>1. PICK a \in acts : a.kind = "RunCommand" /\ c.ticket = of(a)
      <4>1. \A a \in idle : a \in acts /\ a.kind = "RunCommand"
        OBVIOUS
      <4>2. \A a : ask(a).ticket = of(a)
        OBVIOUS
      <4> HIDE DEF ask, idle, of
      <4> QED  BY <2>2, <4>1, <4>2
    <3> HIDE DEF n
    <3> QED  BY <1>2, <1>21, <3>1
  <2> QED  BY <1>19, <1>21, <2>1, <2>2
<1> QED  BY <1>1, <1>18, <1>19, <1>21, <1>22, <1>23 DEF Performs

LEMMA PerformsCore ==
  ASSUME Core, Performs
  PROVE  Core'
<1>1. proc \in Procs(issued) /\ row \in Rows /\ proc.doing.at = "act"
  BY DEF Core, Types, Performs
<1>2. \A k \in DOMAIN proc'.queue :
        \/ \E j \in DOMAIN proc.queue : proc'.queue[k] = proc.queue[j]
        \/ EventSound(proc.queue[k])'
  <2>1. CASE proc'.queue = proc.queue
    BY <2>1
  <2>2. CASE \E f \in EventRecord : f.kind = "Submitted" /\ proc'.queue = proc.queue \o <<f>>
    <3>1. PICK f \in EventRecord : f.kind = "Submitted" /\ proc'.queue = proc.queue \o <<f>>
      BY <2>2
    <3>2. EventSound(f)'
      BY <3>1 DEF EventSound
    <3>3. PICK r : r = <<f>>
      OBVIOUS
    <3>4. r \in Seq(EventRecord) /\ DOMAIN r = {1} /\ r[1] = f
      BY <3>3, OneEvent
    <3> SUFFICES ASSUME NEW k \in DOMAIN proc'.queue
                 PROVE  \/ \E j \in DOMAIN proc.queue : proc'.queue[k] = proc.queue[j]
                        \/ EventSound(proc.queue[k])'
      OBVIOUS
    <3>5. proc'.queue = proc.queue \o r
      BY <3>1, <3>3
    <3>6. \/ k \in DOMAIN proc.queue /\ proc'.queue[k] = proc.queue[k]
          \/ proc'.queue[k] = f
      BY <1>1, <3>4, <3>5, Appended
    <3>7. CASE proc'.queue[k] = f
      BY <3>2, <3>7
    <3> QED  BY <3>6, <3>7
  <2> QED  BY <2>1, <2>2 DEF Performs
<1>3. InHand' => EventSound(proc.doing.event)'
  <2> SUFFICES ASSUME InHand' PROVE EventSound(proc.doing.event)'
    OBVIOUS
  <2>1. PICK e : e = proc.doing.event
    OBVIOUS
  <2>2. e # None /\ proc'.doing.event = e
    BY <2>1 DEF Performs, InHand, Idle
  <2>3. EventSound(e)
    BY <1>1, <2>1, <2>2 DEF Core, EventsSound, InHand
  <2>4. EventSound(e)'
    BY <2>3, SameRepo DEF Performs, Core
  <2> QED  BY <2>2, <2>4
<1>4. DoingSound'
  <2>1. CASE proc'.doing = [at |-> "cleanup"] /\ \E a \in proc.doing.acts : a.kind \in EndKinds
    <3>1. Closed(row.status)
      BY <1>1, <2>1 DEF Core, DoingSound
    <3> QED  BY <2>1, <3>1 DEF Performs, DoingSound, MergeAsked, MergeSteps, ForgeSteps,
                               LateSteps, Closed
  <2>2. CASE /\ MergeAsked
             /\ proc'.doing = [at |-> "prepare", ticket |-> Ticket(row.st),
                               head |-> row.st.current_head]
    <3>1. MergeInFlight(Flow, row.st)
      BY <2>2 DEF Core, DoingSound
    <3>2. Ticket(row.st)' = Ticket(row.st)
      BY DEF Performs, Ticket
    <3> QED  BY <2>2, <3>1, <3>2 DEF Performs, DoingSound, MergeAsked, LateSteps
  <2>3. CASE proc'.doing = Idle \/ proc'.doing.at = "apply"
    BY <2>3 DEF DoingSound, MergeAsked, MergeSteps, ForgeSteps, LateSteps, Idle
  <2> QED  BY <2>1, <2>2, <2>3 DEF Performs
<1> QED  BY <1>1, <1>2, <1>3, <1>4, SameRepo, CoreKept DEF Performs, Core

-----------------------------------------------------------------------------
(* The end of a task, and of the daemon.                                   *)

Ended ==
  /\ row' \in Rows /\ row'.st = row.st /\ row'.status = row.status /\ row'.note = row.note
  /\ issued' = issued /\ disturbances' = disturbances
  /\ proc' \in Procs(issued)

LEMMA CleanupEnds ==
  ASSUME Core, Cleanup
  PROVE  /\ Ended /\ Closed(row.status) /\ repo' = Release
         /\ proc'.doing = Idle /\ proc'.queue = proc.queue
         /\ proc'.served = proc.served /\ proc'.checking = proc.checking
<1> DEFINE r == [row EXCEPT !.bound = FALSE, !.review = None]
           p == [proc EXCEPT !.doing = Idle]
<1>1. Types /\ row \in Rows /\ proc \in Procs(issued)
  BY DEF Core, Types
<1>2. Closed(row.status) /\ repo' = Release
  BY DEF Cleanup, Doing, Core, DoingSound
<1>3. None \in Option(ReviewRecord) /\ Idle \in Doings(issued)
  BY DEF Option, Idle, Doings
<1>4. r \in Rows /\ r.st = row.st /\ r.status = row.status /\ r.note = row.note
  BY <1>1, <1>3 DEF Rows
<1>5. /\ p \in Procs(issued) /\ p.doing = Idle /\ p.queue = proc.queue
      /\ p.served = proc.served /\ p.checking = proc.checking
  BY <1>1, <1>3 DEF Procs
<1>6. Becomes([Here EXCEPT !.row = r, !.proc = p])
  <2>1. [Here EXCEPT !.row = r, !.proc = p]
          = [Here EXCEPT !.row.bound = FALSE, !.row.review = None, !.proc.doing = Idle]
    <3>1. Here.row = row /\ Here.proc = proc
      BY <1>1, HereTypes DEF SameRow
    <3>2. DOMAIN Here = {"row", "proc", "handed", "disturbed"}
      BY DEF Here
    <3> QED  BY <3>1, <3>2, ZenonT(60)
  <2> QED  BY <2>1 DEF Cleanup
<1> HIDE DEF r, p
<1>7. row' = r /\ proc' = p /\ issued' = issued /\ disturbances' = disturbances
  BY <1>1, <1>4, <1>5, <1>6, HereWith
<1> QED  BY <1>2, <1>4, <1>5, <1>7 DEF Ended

LEMMA CrashEnds ==
  ASSUME Core, Crash
  PROVE  /\ Ended /\ repo' = repo
         /\ proc'.doing = Idle /\ proc'.queue = <<>> /\ ~proc'.served /\ proc'.checking = {}
<1> DEFINE p == [Booted EXCEPT !.up = FALSE]
<1>1. Types /\ row \in Rows
  BY DEF Core, Types
<1>2. Idle \in Doings(issued)
  BY DEF Idle, Doings
<1>3. <<>> \in Seq(EventRecord)
  OBVIOUS
<1>4. p \in Procs(issued)
  BY <1>2, <1>3 DEF Procs, Booted
<1>5. p.doing = Idle /\ p.queue = <<>> /\ ~p.served /\ p.checking = {}
  BY DEF Booted
<1>6. Becomes([Here EXCEPT !.proc = p]) /\ repo' = repo
  BY DEF Crash
<1>7. Here \in Turns /\ Here.row = row /\ Here.handed = {} /\ ~Here.disturbed
  BY <1>1, HereTypes DEF SameRow
<1> DEFINE n == [Here EXCEPT !.proc = p]
<1> HIDE DEF p
<1>8. n \in Turns /\ n.proc = p /\ n.row = row /\ n.handed = {} /\ ~n.disturbed
  BY <1>4, <1>7, WithProc
<1>9. Becomes(n)
  BY <1>6
<1> HIDE DEF n
<1>10. row' = row /\ proc' = p /\ issued' = issued /\ disturbances' = disturbances
  BY <1>1, <1>8, <1>9, TurnBecame
<1> QED  BY <1>1, <1>4, <1>5, <1>6, <1>10 DEF Ended

LEMMA CleanupCore ==
  ASSUME Core, Cleanup
  PROVE  Core'
<1>1. /\ Ended /\ Closed(row.status) /\ repo' = Release
      /\ proc'.doing = Idle /\ proc'.queue = proc.queue /\ proc'.checking = proc.checking
  BY CleanupEnds
<1>2. repo' \in Repos /\ RepoSound' /\ Grows
  BY <1>1, Released DEF Core, Types
<1>3. ~InHand' /\ DoingSound'
  BY <1>1 DEF InHand, Idle, DoingSound, MergeAsked, MergeSteps, ForgeSteps, LateSteps
<1> QED  BY <1>1, <1>2, <1>3, CoreKept DEF Ended

LEMMA CrashCore ==
  ASSUME Core, Crash
  PROVE  Core'
<1>1. /\ Ended /\ repo' = repo
      /\ proc'.doing = Idle /\ proc'.queue = <<>> /\ proc'.checking = {}
  BY CrashEnds
<1>2. ~InHand' /\ DoingSound'
  BY <1>1 DEF InHand, Idle, DoingSound, MergeAsked, MergeSteps, ForgeSteps, LateSteps
<1>3. DOMAIN proc'.queue = {}
  BY <1>1
<1> QED  BY <1>1, <1>2, <1>3, SameRepo, CoreKept DEF Ended, Core

-----------------------------------------------------------------------------
(* The step of the state machine.                                          *)

\* event_detail refuses the event, or the state machine does.
Skips ==
  /\ proc.doing.at \in {"receive", "apply"}
  /\ row' = row /\ repo' = repo /\ issued' = issued /\ disturbances' = disturbances
  /\ proc' \in Procs(issued) /\ proc'.doing = Idle
  /\ proc'.queue = proc.queue /\ proc'.checking = proc.checking /\ proc'.served = proc.served

\* The copy n is what step makes of the event u, and is stored; the event f
\* waits until its actions are carried out.
Given(u, f, n) ==
  /\ proc.doing.at \in {"receive", "apply"} /\ ~Refuses(proc.doing.event)
  /\ EventSound(u) /\ n = Step(row.st, u) /\ n.status # "refused"
  /\ Rightly(row.st, u.kind, n)
  /\ \/ f = None /\ u = proc.doing.event
     \/ /\ proc.doing.at = "receive" /\ f = proc.doing.event
        /\ Observes(f) /\ u.kind = "CommitCreated"
  /\ row' \in Rows /\ row'.st = [n EXCEPT !.actions = {}] /\ ~row'.note
  /\ row'.status = TaskStatus(n.status)
  /\ repo' = repo /\ issued' = issued \cup n.actions
  /\ disturbances' = disturbances + (IF u.kind \in Disturbing THEN 1 ELSE 0)
  /\ proc' \in Procs(issued')
  /\ proc'.doing = [at |-> "act", acts |-> n.actions, event |-> f]
  /\ proc'.queue = proc.queue /\ proc'.checking = proc.checking /\ proc'.served = proc.served

\* The branch is at a commit, when there is something to look at.
LEMMA BranchSeen ==
  ASSUME Core, ~Closed(row.status), Unseen(row.st)
  PROVE  repo.branch \in Heads /\ Used(repo.branch)
<1>1. row.st.current_head # None
  BY DEF Core, Machine, StepInv, Records, Unseen
<1>2. SomeUsed /\ repo.branch # None
  BY <1>1 DEF Core, BranchSound
<1> QED  BY <1>2 DEF Core, Types, Repos, RepoSound, Option

\* The result of step fits into the row.
LEMMA StoredTypes ==
  ASSUME NEW n, StepInv(Flow, n), NEW c, c = [n EXCEPT !.actions = {}]
  PROVE  /\ TaskStatus(n.status) \in {"open", "running", "done", "failed", "cancelled"}
         /\ c \in PipelineState(Flow) /\ c \in Copies(Flow)
         /\ c.status = n.status /\ c.stage_index = n.stage_index
         /\ c.current_head = n.current_head /\ c.attempts = n.attempts /\ c.actions = {}
<1>1. n \in Copies(Flow) /\ n.status \in Status
  BY DEF StepInv, Copies
<1>2. /\ c \in Copies(Flow) /\ c.status = n.status /\ c.actions = {}
      /\ c.stage_index = n.stage_index /\ c.current_head = n.current_head
      /\ c.attempts = n.attempts
  <2>1. {} \in SUBSET Action
    OBVIOUS
  <2> DEFINE none == {}
  <2>2. c = [n EXCEPT !.actions = none] /\ none \in SUBSET Action
    OBVIOUS
  <2>3. none = {}
    OBVIOUS
  <2> HIDE DEF none
  <2>4. /\ c \in Copies(Flow) /\ c.status = n.status /\ c.actions = none
        /\ c.stage_index = n.stage_index /\ c.current_head = n.current_head
        /\ c.attempts = n.attempts
    BY <1>1, <2>2 DEF Copies
  <2> QED  BY <2>3, <2>4
<1>3. c \in PipelineState(Flow)
  BY <1>1, <1>2 DEF PipelineState, Status
<1>4. TaskStatus(n.status) \in {"open", "running", "done", "failed", "cancelled"}
  BY <1>1 DEF TaskStatus, Status
<1> QED  BY <1>2, <1>3, <1>4

\* A turn of the loop, by its parts.
Turn(r, p, a, b) == [row |-> r, proc |-> p, handed |-> a, disturbed |-> b]

LEMMA HandleEventCases ==
  ASSUME Core, HandleEvent
  PROVE  \/ Skips
         \/ \E u \in EventRecord : \E f, n : Given(u, f, n)
<1> DEFINE e == proc.doing.event
           looks == proc.doing.at = "receive" /\ ~Refuses(e) /\ Observes(e)
           f == IF looks THEN e ELSE None
           seen == HeadEvent("CommitCreated", repo.branch, FALSE)
<1>1. PICK u, n :
        /\ u = (IF looks THEN seen ELSE e)
        /\ n = Step(row.st, u)
        /\ Becomes(IF Refuses(e) \/ n.status = "refused"
                   THEN [Here EXCEPT !.proc.doing = Idle]
                   ELSE CarryOut(Store(Here, u, n), n.actions, f))
  <2>1. \E v \in {IF looks THEN seen ELSE e} : \E n \in {Step(row.st, v)} :
          Becomes(IF Refuses(e) \/ n.status = "refused"
                  THEN [Here EXCEPT !.proc.doing = Idle]
                  ELSE CarryOut(Store(Here, v, n), n.actions, f))
    BY DEF HandleEvent
  <2> HIDE DEF looks, seen, e, f
  <2> QED  BY <2>1
<1>2. /\ Types /\ row \in Rows /\ proc \in Procs(issued) /\ proc.doing.at \in {"receive", "apply"}
      /\ repo' = repo
  BY DEF Core, Types, HandleEvent
<1>3. e \in EventRecord /\ EventSound(e)
  BY <1>2, DoingTypes DEF Core, EventsSound, InHand
<1>4. /\ u \in EventRecord /\ EventSound(u)
      /\ looks => u.kind = "CommitCreated"
  <2>1. CASE looks
    <3>1. repo.branch \in Heads /\ Used(repo.branch)
      BY <2>1, BranchSeen DEF Refuses, Observes
    <3>2. /\ seen \in EventRecord /\ seen.kind = "CommitCreated" /\ seen.head = repo.branch
          /\ seen.patch \in Patches /\ NamedAs(seen.head, seen.patch) /\ ~seen.conflict
      <4>1. PICK no \in BOOLEAN : no = FALSE
        OBVIOUS
      <4>2. PICK kind \in EventKinds : kind = "CommitCreated"
        BY DEF EventKinds
      <4>3. PICK h : h = repo.branch
        OBVIOUS
      <4>4. /\ HeadEvent(kind, h, no) \in EventRecord /\ HeadEvent(kind, h, no).kind = kind
            /\ HeadEvent(kind, h, no).head = h /\ HeadEvent(kind, h, no).patch \in Patches
            /\ NamedAs(h, HeadEvent(kind, h, no).patch)
            /\ HeadEvent(kind, h, no).conflict = no
        BY <1>2, <3>1, <4>3, HeadEventTypes
      <4>5. seen = HeadEvent(kind, h, no)
        BY <4>1, <4>2, <4>3
      <4> HIDE DEF seen
      <4> QED  BY <4>1, <4>2, <4>3, <4>4, <4>5
    <3> HIDE DEF seen
    <3>3. u = seen
      BY <1>1, <2>1
    <3> QED  BY <3>1, <3>2, <3>3 DEF EventSound
  <2>2. CASE ~looks
    BY <1>1, <1>3, <2>2
  <2> QED  BY <2>1, <2>2
<1>5. CASE Refuses(e) \/ n.status = "refused"
  <2>1. Becomes([Here EXCEPT !.proc.doing = Idle])
    <3> HIDE DEF looks, seen, e, f
    <3> QED  BY <1>1, <1>5
  <2>2. Idle \in Doings(issued)
    BY DEF Idle, Doings
  <2> QED  BY <1>2, <2>1, <2>2, HereDoing DEF Skips
<1>6. CASE ~(Refuses(e) \/ n.status = "refused")
  <2> DEFINE A == n.actions
             c == [n EXCEPT !.actions = {}]
             r == [row EXCEPT !.st = c, !.status = TaskStatus(n.status), !.note = FALSE]
             d == [at |-> "act", acts |-> A, event |-> f]
             p == [proc EXCEPT !.doing = d]
             b == u.kind \in Disturbing
             m == Turn(r, p, A, b)
  <2>1. Rightly(row.st, u.kind, n)
    <3>1. Stored(row.st)
      BY TicketType DEF Stored, Core, Machine
    <3>2. Meant(u)
      BY <1>4 DEF Meant, EventSound, EventRecord
    <3> QED  BY <1>1, <1>6, <3>1, <3>2, StepRightly
  <2>2. r \in Rows /\ r.st = c /\ ~r.note /\ r.status = TaskStatus(n.status)
    <3>1. StepInv(Flow, n)
      BY <2>1 DEF Rightly
    <3>2. PICK k : k = c
      OBVIOUS
    <3>3. k = [n EXCEPT !.actions = {}]
      BY <3>2
    <3> HIDE DEF c
    <3>4. /\ TaskStatus(n.status) \in {"open", "running", "done", "failed", "cancelled"}
          /\ c \in PipelineState(Flow)
      BY <3>1, <3>2, <3>3, StoredTypes
    <3> QED  BY <1>2, <3>4 DEF Rows
  <2>3. f \in Option(EventRecord)
    BY <1>3 DEF Option
  <2>4. d \in Doings(issued \cup A)
    <3> HIDE DEF A, f
    <3> QED  BY <2>3 DEF Doings
  <2>5. \A S, T : S \subseteq T => Doings(S) \subseteq Doings(T)
    BY DEF Doings
  <2>6. /\ p \in Procs(issued \cup A) /\ p.doing = d /\ p.queue = proc.queue
        /\ p.checking = proc.checking /\ p.served = proc.served
    <3> HIDE DEF d, A
    <3> QED  BY <1>2, <2>4, <2>5 DEF Procs
  <2>7. CarryOut(Store(Here, u, n), n.actions, f) = m
    <3> DEFINE s1 == Turn(row, proc, {}, FALSE)
               s2 == [s1 EXCEPT !.handed = A]
               s3 == [s2 EXCEPT !.disturbed = b]
               r1 == [row EXCEPT !.st = c]
               s4 == [s3 EXCEPT !.row = [@ EXCEPT !.st = c]]
               r2 == [r1 EXCEPT !.status = TaskStatus(n.status)]
               s5 == [s4 EXCEPT !.row = [@ EXCEPT !.status = TaskStatus(n.status)]]
               s6 == [s5 EXCEPT !.row = [@ EXCEPT !.note = FALSE]]
               s7 == [s6 EXCEPT !.proc = [@ EXCEPT !.doing = d]]
    <3>1. CarryOut(Store(Here, u, n), n.actions, f) = s7
      BY Zenon DEF CarryOut, Store, Here, Turn
    <3> HIDE DEF c, d, A, b
    <3>2. s2 = Turn(row, proc, A, FALSE)
      <4> DEFINE none == {}
                 no == FALSE
      <4>1. s2 = [Turn(row, proc, none, no) EXCEPT !.handed = A]
        OBVIOUS
      <4>2. Turn(row, proc, A, FALSE) = Turn(row, proc, A, no)
        OBVIOUS
      <4> HIDE DEF none, no, s2
      <4> QED  BY <4>1, <4>2 DEF Turn
    <3> HIDE DEF s2
    <3>3. s3 = Turn(row, proc, A, b)
      BY <3>2 DEF Turn
    <3> HIDE DEF s3
    <3>4. s4 = Turn(r1, proc, A, b)
      BY <3>3 DEF Turn
    <3> HIDE DEF s4, r1
    <3>5. s5 = Turn(r2, proc, A, b)
      BY <3>4 DEF Turn
    <3>6. r = [r2 EXCEPT !.note = FALSE]
      BY DEF r1
    <3> HIDE DEF s5, r2, r
    <3>7. s6 = Turn(r, proc, A, b)
      <4>1. s5.row = r2
        BY <3>5 DEF Turn
      <4>2. s6 = [s5 EXCEPT !.row = r]
        BY <3>6, <4>1
      <4> HIDE DEF s6
      <4> QED  BY <3>5, <4>2 DEF Turn
    <3> HIDE DEF s6
    <3>8. s7 = Turn(r, p, A, b)
      BY <3>7 DEF Turn
    <3> QED  BY <3>1, <3>8
  <2>8. Becomes(m)
    <3> HIDE DEF looks, seen, e, f, m
    <3> QED  BY <1>1, <1>6, <2>7
  <2>9. /\ row' = r /\ proc' = p /\ issued' = issued \cup A
        /\ disturbances' = disturbances + (IF b THEN 1 ELSE 0)
    <3> HIDE DEF r, p, A, b
    <3> QED  BY <2>8 DEF Becomes, Turn
  <2>10. \/ f = None /\ u = e
         \/ /\ proc.doing.at = "receive" /\ f = e /\ Observes(f)
              /\ u.kind = "CommitCreated"
    <3> HIDE DEF seen, e
    <3> QED  BY <1>1, <1>4
  <2> HIDE DEF r, p
  <2>11. Given(u, f, n)
    <3> HIDE DEF looks, f
    <3> QED  BY <1>1, <1>2, <1>4, <1>6, <2>1, <2>2, <2>6, <2>9, <2>10 DEF Given
  <2> QED  BY <1>4, <2>11
<1> QED  BY <1>5, <1>6

LEMMA SkipsCore ==
  ASSUME Core, Skips
  PROVE  Core'
<1>1. proc \in Procs(issued) /\ row \in Rows
  BY DEF Core, Types
<1>2. ~InHand' /\ DoingSound'
  BY DEF Skips, InHand, Idle, DoingSound, MergeAsked, MergeSteps, ForgeSteps, LateSteps
<1> QED  BY <1>1, <1>2, SameRepo, CoreKept DEF Skips, Core

\* A merge that is reported ends the task.
LEMMA ReportedMerge ==
  ASSUME NEW s \in Copies(Flow), s.actions = {}, NEW u, u.kind = "MergeCompleted",
         NEW n, n = Step(s, u), n.status # "refused"
  PROVE  /\ MergeInFlight(Flow, s) /\ n.status = "done"
         /\ n.current_head = s.current_head /\ u.head = s.current_head
         /\ \A a \in n.actions : a.kind = "TaskDone"
<1>1. \/ Answered(s, u, n) \/ Merges(s, u, n) \/ Moves(s, u, n) \/ Fails(s, u, n)
      \/ GivesUp(s, u, n)
  BY StepCases
<1>2. Replies(s, u, "merge") /\ SameHead(s, u) /\ n = Merged(Flow, s)
  BY <1>1 DEF Answered, Merges, Moves, Fails, GivesUp, TimesOut
<1>3. MergeInFlight(Flow, s) /\ NeedsHead(Flow, s.stage_index)
  BY <1>2 DEF Replies, MergeInFlight, InStage, NeedsHead, IsKind
<1>4. /\ Merged(Flow, s).status = "done" /\ Merged(Flow, s).current_head = s.current_head
      /\ \A a \in Merged(Flow, s).actions : a.kind = "TaskDone"
  BY <1>2, MergedFields
<1> QED  BY <1>2, <1>3, <1>4 DEF SameHead

\* What the given step hands out is right for the forge.
LEMMA GivenAsks ==
  ASSUME Core, NEW u, NEW f, NEW n, Given(u, f, n)
  PROVE  /\ \A a \in n.actions : a.kind = "Merge" =>
              MergeInFlight(Flow, n) /\ a.head = n.current_head
         /\ \A a \in n.actions : a.kind \in EndKinds => n.status \in Terminal
<1>1. CASE u.kind # "MergeCompleted"
  BY <1>1 DEF Given, Rightly, Apt
<1>2. CASE u.kind = "MergeCompleted"
  <2>1. /\ n.status = "done"
        /\ \A a \in n.actions : a.kind = "TaskDone"
    BY <1>2, TicketType, ReportedMerge DEF Given
  <2> QED  BY <2>1 DEF Terminal
<1> QED  BY <1>1, <1>2

LEMMA GivenMachine ==
  ASSUME Core, NEW u, NEW f, NEW n, Given(u, f, n)
  PROVE  /\ Machine' /\ StepInv(Flow, n) /\ n \in Copies(Flow)
         /\ row'.st \in Copies(Flow) /\ row'.st.status = n.status
         /\ row'.st.stage_index = n.stage_index /\ row'.st.current_head = n.current_head
         /\ row'.st.attempts = n.attempts
<1> DEFINE none == {}
           m == [n EXCEPT !.actions = none]
<1>1. row'.st = m /\ issued' = issued \cup n.actions
  BY DEF Given
<1>2. /\ Valid(Flow) /\ row.st \in Copies(Flow) /\ row.st.actions = {}
      /\ StepInv(Flow, n) /\ Orderly(Flow, n) /\ Told(Flow, row.st, n)
  BY FlowFacts, TicketType DEF Given, Rightly
<1>3. n \in Copies(Flow) /\ (n.status = "running" => n.stage_index \in Index(Flow))
  BY <1>2 DEF StepInv, Position
<1>4. none \in SUBSET Action /\ none = {}
  OBVIOUS
<1> HIDE DEF none
<1>5. StepInv(Flow, m) /\ Orderly(Flow, m)
  BY <1>2, <1>3, <1>4, SetActionsStepInv, SetActionsOrderly
<1>6. Alike(Flow, n, m)
  BY <1>3, AlikeActions
<1>7. /\ m \in Copies(Flow) /\ m.status = n.status /\ m.stage_index = n.stage_index
      /\ m.current_head = n.current_head /\ m.attempts = n.attempts
  BY <1>3, <1>4 DEF Copies
<1> HIDE DEF m
<1>8. Heard(Flow, issued \cup n.actions, m.attempts) /\ Waits(Flow, issued \cup n.actions, m)
  BY <1>2, <1>3, <1>6, HandedOut DEF Asking, Core, Machine
<1>9. Machine'
  BY <1>1, <1>5, <1>8 DEF Machine, Asking
<1> QED  BY <1>1, <1>2, <1>3, <1>7, <1>9

LEMMA GivenCore ==
  ASSUME Core, NEW u \in EventRecord, NEW f, NEW n, Given(u, f, n)
  PROVE  Core'
<1>1. /\ row \in Rows /\ proc \in Procs(issued) /\ repo \in Repos /\ issued \subseteq Action
      /\ disturbances \in Nat /\ repo' = repo
  BY DEF Core, Types, Given
<1>2. /\ Machine' /\ StepInv(Flow, n) /\ n \in Copies(Flow)
      /\ row'.st.status = n.status /\ row'.st.stage_index = n.stage_index
      /\ row'.st.current_head = n.current_head /\ row'.st.attempts = n.attempts
  BY GivenMachine
<1>3. Types'
  BY <1>1, <1>2, SameRepo DEF Core, Types, Given, Copies
<1>4. StatusSound'
  <2>1. row'.status = TaskStatus(n.status) /\ n.status \in Status
    BY <1>2 DEF Given, Copies, StepInv
  <2> QED  BY <1>2, <2>1 DEF StatusSound, TaskStatus, Status
<1>5. BranchSound'
  <2>1. SomeUsed' <=> SomeUsed
    BY <1>1 DEF SomeUsed, Used
  <2>2. CASE SomeUsed
    BY <1>1, <2>1, <2>2 DEF Core, BranchSound, Given, Refuses
  <2>3. CASE ~SomeUsed
    <3>1. row.st.stage_index = 1 /\ row.st.current_head = None
      BY <2>3 DEF Core, BranchSound
    <3>2. u.kind \notin {"WorkCompleted", "CommitCreated", "MainAdvanced"}
      BY <2>3 DEF Given, EventSound, SomeUsed
    <3>3. Stored(row.st)
      BY TicketType DEF Stored, Core, Machine
    <3>4. n.stage_index = 1 /\ n.current_head = None
      BY <3>1, <3>2, <3>3, FirstStage DEF Given
    <3> QED  BY <1>2, <2>1, <2>3, <3>4 DEF BranchSound
  <2> QED  BY <2>2, <2>3
<1>6. EventsSound'
  <2>1. \A e : EventSound(e) => EventSound(e)'
    BY <1>1, SameRepo DEF Core
  <2>2. \A k \in DOMAIN proc'.queue : EventSound(proc.queue[k])'
    <3> SUFFICES ASSUME NEW k \in DOMAIN proc.queue
                 PROVE  EventSound(proc.queue[k])'
      BY DEF Given
    <3>1. PICK e : e = proc.queue[k]
      OBVIOUS
    <3>2. EventSound(e)
      BY <3>1 DEF Core, EventsSound
    <3> QED  BY <2>1, <3>1, <3>2 DEF Given
  <2>3. InHand' => EventSound(proc.doing.event)'
    <3>1. PICK e : e = proc.doing.event
      OBVIOUS
    <3>2. EventSound(e)
      BY <3>1 DEF Core, EventsSound, InHand, Given
    <3>3. InHand' => proc'.doing.event = e
      BY <3>1 DEF InHand, Given
    <3> QED  BY <2>1, <3>2, <3>3
  <2> QED  BY <2>2, <2>3 DEF EventsSound
<1>7. ChecksSound'
  BY DEF Core, ChecksSound, Given
<1>8. DoingSound'
  <2>1. proc'.doing.at = "act" /\ proc'.doing.acts = n.actions
    BY DEF Given
  <2>2. \A a \in n.actions : a.kind = "Merge" =>
          MergeInFlight(Flow, row'.st) /\ a.head = row'.st.current_head
    BY <1>2, GivenAsks DEF MergeInFlight, InStage, IsKind
  <2>3. \A a \in n.actions : a.kind \in EndKinds => Closed(row'.status)
    <3>1. n.status \in Terminal => Closed(row'.status)
      BY DEF Given, Terminal, TaskStatus, Closed
    <3> QED  BY <3>1, GivenAsks
  <2> QED  BY <2>1, <2>2, <2>3 DEF DoingSound, MergeAsked, MergeSteps, ForgeSteps, LateSteps,
                                   Closed
<1> QED  BY <1>2, <1>3, <1>4, <1>5, <1>6, <1>7, <1>8 DEF Core

LEMMA HandleEventCore ==
  ASSUME Core, HandleEvent
  PROVE  Core'
BY HandleEventCases, SkipsCore, GivenCore

-----------------------------------------------------------------------------
(* Every step keeps the core of the invariant.                             *)

LEMMA InitCore ==
  Init => Core
<1> SUFFICES ASSUME Init PROVE Core
  OBVIOUS
<1> DEFINE s == NewState(Flow)
           none == {}
<1>1. /\ row = [st |-> s, status |-> "open", note |-> FALSE,
                intent |-> None, review |-> None, bound |-> FALSE]
      /\ proc = Booted /\ issued = none /\ disturbances = 0
      /\ repo = [main |-> <<>>, branch |-> None, dirty |-> FALSE, soiled |-> 0, archived |-> none,
                 last |-> None, commit |-> [h \in Heads |-> None]]
  BY DEF Init
<1>2. StepInv(Flow, s) /\ Orderly(Flow, s) /\ s \in Copies(Flow)
  BY FlowFacts, NewStateStepInv, NewStateOrderly DEF StepInv
<1>3. /\ s.status = "pending" /\ s.stage_index = 1 /\ s.current_head = None /\ s.actions = {}
  BY DEF NewState
<1> HIDE DEF s
<1>4. row \in Rows
  <2>1. s \in PipelineState(Flow)
    BY <1>2, <1>3 DEF PipelineState
  <2> QED  BY <1>1, <2>1, NoneTypes DEF Rows, Option
<1>5. proc \in Procs(issued) /\ proc.queue = <<>> /\ proc.checking = {} /\ proc.doing = Idle
  <2>1. Idle \in Doings(issued)
    BY DEF Idle, Doings
  <2>2. <<>> \in Seq(EventRecord)
    OBVIOUS
  <2> QED  BY <1>1, <2>1, <2>2 DEF Procs, Booted
<1>6. repo \in Repos /\ repo.main = <<>> /\ repo.branch = None /\ \A h \in Heads : ~Used(h)
  <2>1. <<>> \in Seq(MainEntry)
    OBVIOUS
  <2>2. None \in Option(CommitRecord)
    BY DEF Option
  <2>3. [h \in Heads |-> None] \in [Heads -> Option(CommitRecord)]
    BY <2>2
  <2>4. none \in SUBSET Heads
    OBVIOUS
  <2> HIDE DEF none
  <2> QED  BY <1>1, <2>1, <2>3, <2>4, NoneTypes DEF Repos, Used
<1>7. Types
  <2>1. RepoSound
    BY <1>6 DEF RepoSound
  <2> QED  BY <1>1, <1>4, <1>5, <1>6, <2>1 DEF Types
<1>8. Machine
  <2>1. Asking(Flow, issued, s)
    BY <1>1, <1>3 DEF Asking, Heard, Waits, Asks
  <2> QED  BY <1>1, <1>2, <2>1 DEF Machine
<1>9. StatusSound /\ BranchSound
  BY <1>1, <1>3, <1>6 DEF StatusSound, TaskStatus, BranchSound, SomeUsed
<1>10. EventsSound /\ ChecksSound /\ DoingSound
  BY <1>5 DEF EventsSound, InHand, Idle, ChecksSound, DoingSound, MergeAsked, MergeSteps,
              ForgeSteps, LateSteps
<1> QED  BY <1>7, <1>8, <1>9, <1>10 DEF Core

LEMMA StutterCore ==
  ASSUME Core, UNCHANGED vars
  PROVE  Core'
<1>1. Elsewhere
  <2>1. repo' = repo
    BY DEF vars
  <2> QED  BY <2>1, SameRepo DEF Elsewhere, vars, Core
<1> QED  BY <1>1, ElsewhereCore

LEMMA LoopCore ==
  ASSUME Core, Loop
  PROVE  Core'
<1>1. CASE CreateTask
  BY <1>1, CreateTaskTakes, TakesCore
<1>2. CASE QueuedEvent
  BY <1>2, QueuedEventTakes, TakesCore
<1>3. CASE HandleEvent
  BY <1>3, HandleEventCore
<1>4. CASE PerformActions
  BY <1>4, PerformActionsPerforms, PerformsCore
<1>5. CASE MergeStep
  BY <1>5, MergeStepCore
<1>6. CASE Cleanup
  BY <1>6, CleanupCore
<1>7. CASE Boot
  BY <1>7, BootCore
<1> QED  BY <1>1, <1>2, <1>3, <1>4, <1>5, <1>6, <1>7 DEF Loop, MergeStep

LEMMA AnswersCore ==
  ASSUME Core, Answers
  PROVE  Core'
<1>1. CASE Done
  BY <1>1, DoneTakes, TakesCore
<1>2. CASE Review(TRUE)
  <2>1. PICK granted \in BOOLEAN : Review(granted)
    BY <1>2
  <2> QED  BY <2>1, ReviewTakes, TakesCore
<1>3. CASE \E c \in proc.checking : CheckResult(c, "pass")
  <2>1. PICK c \in proc.checking, r \in {"pass", "fail", "blocked"} : CheckResult(c, r)
    BY <1>3
  <2> QED  BY <2>1, CheckResultTakes, DropsCore, TakesCore
<1>4. CASE Unblock \/ Retry
  BY <1>4, UnblockCore, RetryCore
<1>5. CASE CheckoutCleaned
  BY <1>5, CheckoutElsewhere, ElsewhereCore
<1> QED  BY <1>1, <1>2, <1>3, <1>4, <1>5 DEF Answers

LEMMA TroublesCore ==
  ASSUME Core, Troubles
  PROVE  Core'
<1>1. CASE Review(FALSE)
  <2>1. PICK granted \in BOOLEAN : Review(granted)
    BY <1>1
  <2> QED  BY <2>1, ReviewTakes, TakesCore
<1>2. CASE \E c \in proc.checking, r \in {"fail", "blocked"} : CheckResult(c, r)
  <2>1. PICK c \in proc.checking, r \in {"pass", "fail", "blocked"} : CheckResult(c, r)
    BY <1>2
  <2> QED  BY <2>1, CheckResultTakes, DropsCore, TakesCore
<1>3. CASE \E t \in proc.sleeping : TimerFires(t)
  BY <1>3, TimerFiresTakes, TakesCore
<1>4. CASE CancelTask
  BY <1>4, CancelTaskTakes, TakesCore
<1>5. CASE Block
  BY <1>5, BlockCore
<1>6. CASE Crash
  BY <1>6, CrashCore
<1>7. CASE \/ \E h \in Heads : AgentResets(h)
           \/ \E h \in Heads \cup {None} : MainMoves(h)
           \/ CheckoutDirtied
  BY <1>7, AgentResetsElsewhere, MainMovesElsewhere, CheckoutElsewhere, ElsewhereCore
<1> QED  BY <1>1, <1>2, <1>3, <1>4, <1>5, <1>6, <1>7 DEF Troubles

LEMMA NextCore ==
  Core /\ [Next]_vars => Core'
<1> SUFFICES ASSUME Core, [Next]_vars PROVE Core'
  OBVIOUS
<1>1. CASE Commits
  BY <1>1, AgentCommitsElsewhere, ElsewhereCore DEF Commits
<1>2. CASE Over \/ UNCHANGED vars
  BY <1>2, StutterCore DEF Over
<1> QED  BY <1>1, <1>2, LoopCore, AnswersCore, TroublesCore DEF Next

\* Whatever crashes, commits, resets and moves of main come between two steps:
\* the stored snapshot stays one the state machine can be in and restore
\* accepts, it waits for what was handed out, the status the operator sees is
\* that of the snapshot, and what is merged is the current head of a task that
\* is merging.
THEOREM EngineInvariance == Spec => []Core
<1>1. Init => Core
  BY InitCore
<1>2. Core /\ [Next]_vars => Core'
  BY NextCore
<1> QED  BY <1>1, <1>2, PTL DEF Spec

\* Types of the engine's state, and the status of the task is that of the
\* snapshot unless it is blocked.
THEOREM EngineTypes == Spec => []TypeOK
<1>1. Core => TypeOK
  <2> SUFFICES ASSUME Core PROVE TypeOK
    OBVIOUS
  <2>1. \A k \in DOMAIN repo.main : repo.main[k].head \in Option(Heads)
    BY MainTypes DEF Core, Types
  <2>2. row.status # "blocked" => row.status = TaskStatus(row.st.status)
    BY DEF Core, StatusSound
  <2> QED  BY <2>1, <2>2 DEF Core, Types, Rows, Repos, TypeOK
<1> QED  BY <1>1, EngineInvariance, PTL
=============================================================================
