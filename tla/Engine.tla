------------------------------- MODULE Engine -------------------------------
(***************************************************************************)
(* The daemon's pipeline engine and the local forge, for one task: the     *)
(* loop of agend-daemon/src/pipeline.rs, which takes one input at a time,  *)
(* commits a step of the state machine to SQLite, then carries out the     *)
(* actions that step returned, and the git repository those actions and    *)
(* everybody else work on.                                                 *)
(*                                                                         *)
(*   row    what SQLite holds of the task; survives a crash                *)
(*   proc   what lives in the daemon process; lost by a crash              *)
(*   repo   the git repository: main, the task's branch, its commits       *)
(*   proof  what really happened: heads a check passed on, heads approved  *)
(*                                                                         *)
(* An input that other programs send (a command, a check result, a timer)  *)
(* is handled at any moment the loop is free: it may have been queued      *)
(* before the events the engine posts to itself, which keep their order.   *)
(* The handlers of a merge run in several steps, because main, the branch  *)
(* and the checkout can change between two git commands and the daemon can *)
(* die there.  A git command that fails for another reason than the state  *)
(* of the repository is not modelled.                                      *)
(***************************************************************************)
EXTENDS PipelineStep

CONSTANTS
  Flow,         \* the workflow of the task
  EmptyPatch,   \* what git.patch_id says of a head that main contains
  MaxMishaps,   \* bound on crashes, extra commits, failures, operator moves...
  MaxSoiled     \* bound on how often the checkout of main becomes dirty

\* What task create accepts: a valid workflow without fanout or reassignment.
\* Every work stage makes a branch and every reviewer is an agent.
ASSUME FlowAssumption ==
  /\ IsWorkflow(Flow) /\ Len_(Flow) > 0 /\ StaticRules(Flow)
  /\ \A i \in Index(Flow) :
       /\ KindAt(Flow, i) # "fanout"
       /\ Flow.stages[i].on_timeout # "reassign"
       /\ IsKind(Flow, i, "work") => IsBranchWork(Flow, i)
  /\ IsBranchWork(Flow, 1)
ASSUME MishapsAssumption == MaxMishaps \in Nat /\ MaxSoiled \in Nat /\ EmptyPatch \in Patches

VARIABLES
  row, proc, repo, proof, mishaps,
  issued, disturbances   \* what Pipeline counts: actions handed out, setbacks

vars == <<row, proc, repo, proof, mishaps, issued, disturbances>>

-----------------------------------------------------------------------------
(* The repository.  main is the sequence of what was put on it; a commit   *)
(* of the branch has the length of main it was made on, its patch-id and   *)
(* the branch commits it contains.                                         *)

Commit(patch, base, contains) == [patch |-> patch, base |-> base, contains |-> contains]

\* None stands for a commit that was not made yet: it is no commit.
CommitRecord == [patch : Patches, base : Nat, contains : SUBSET Heads]
ASSUME NoneIsNoCommit == None \notin CommitRecord

Used(h) == repo.commit[h] # None

\* The name of the next commit, and that there is one.  The runs give Heads
\* enough names for MaxMishaps: each mishap makes at most two commits more.
NewHead == CHOOSE h \in Heads : ~Used(h)
HeadsLeft == \E h \in Heads : ~Used(h)

\* git.ancestor(head, main)
OnMain(h) ==
  \E k \in DOMAIN repo.main :
    repo.main[k].head # None /\ h \in repo.commit[repo.main[k].head].contains

\* Mutant: a merge made before a crash is not found again.
FindMergeNever(h) == FALSE

\* LocalForge::find_merge: by intent, by trailer or as a merge made outside, the
\* merge is found iff main contains the head.
FindMerge(h) == OnMain(h)

\* git.ancestor(main, head): nothing was put on main since h was made.
UpToDate(h) == repo.commit[h].base = Len(repo.main)

\* git.patch_id: the diff from where main and the head parted.
PatchId(h) == IF OnMain(h) THEN EmptyPatch ELSE repo.commit[h].patch

Push(by, head) == [repo EXCEPT !.main = Append(@, [by |-> by, head |-> head])]

-----------------------------------------------------------------------------
(* Events and the state machine.                                           *)

Ticket(s) == <<s.stage_index, Attempt(Flow, s)>>

Event(kind, ticket, head) ==
  [kind |-> kind, ticket |-> ticket, head |-> head, patch |-> None,
   conflict |-> FALSE, reviewer |-> None]

HeadEvent(kind, head, conflict) ==
  [Event(kind, None, head) EXCEPT !.patch = PatchId(head),
                                  !.conflict = conflict]

\* Mutant: a task is given up while its merge is in flight.
GiveUpAnyTime(s) == s.status \in {"pending", "running"}

\* What a timeout and a cancellation need: a merge is never given up.
MayGiveUp(s) == s.status \in {"pending", "running"} /\ ~MergeInFlight(Flow, s)

\* step(state, event) for the events this engine makes.
Step(s, e) ==
  LET i == s.stage_index
      answers(kind) == InStage(Flow, s, kind) /\ e.ticket = Ticket(s)
      sameHead == NeedsHead(Flow, i) => e.head = s.current_head
      change(kind) == [kind |-> kind, head |-> e.head, patch |-> e.patch,
                       conflict |-> e.conflict]
      times(action) == /\ e.kind = "StageTimedOut" /\ s.status = "running" /\ MayGiveUp(s)
                       /\ e.ticket = Ticket(s) /\ Flow.stages[i].on_timeout = action
  IN  CASE e.kind = "Start" /\ s.status = "pending" ->
             EnterStage(Flow, [s EXCEPT !.status = "running"], 1)
        [] e.kind = "WorkCompleted" /\ answers("work") ->
             BranchProduct(Flow, s, e.head, e.patch)
        [] e.kind = "Submitted" /\ answers("submit") -> ChangeSubmitted(Flow, s)
        [] e.kind = "CommandPassed" /\ answers("command") /\ sameHead ->
             CheckSucceeded(Flow, s, e.head)
        [] e.kind = "CommandFailed" /\ answers("command") /\ sameHead ->
             FailStage(Flow, s, i)
        [] e.kind = "ApprovalGranted" /\ answers("approval") /\ sameHead ->
             Granted(Flow, s, e.reviewer, e.head, None)
        [] e.kind = "ChangesRequested" /\ answers("approval") /\ sameHead ->
             FailStage(Flow, s, i)
        [] e.kind = "CommitCreated" /\ s.status = "running" ->
             HeadChanged(Flow, s, change("commit"))
        [] e.kind = "MainAdvanced" /\ s.status = "running" ->
             HeadChanged(Flow, s, change("main"))
        [] e.kind = "MergeCompleted" /\ answers("merge") /\ sameHead -> Merged(Flow, s)
        [] e.kind = "MergeFailed" /\ answers("merge") /\ sameHead -> MergeFailedState(Flow, s)
        [] times("cancel") -> Cancelled(s, i)
        [] times("notify") /\ s.notified_timeout # e.ticket ->
             Emit([s EXCEPT !.notified_timeout = e.ticket], {Act("NotifyTimeout", i, 0)})
        [] e.kind = "Cancel" /\ MayGiveUp(s) ->
             Cancelled(s, IF s.status = "pending" THEN 0 ELSE i)
        [] OTHER -> Refused(s)

-----------------------------------------------------------------------------
(* The engine's functions, on a copy m of row and proc.                    *)

Idle == [at |-> "idle"]
Closed(status) == status \in {"done", "failed", "cancelled"}

TaskStatus(status) == IF status = "pending" THEN "open" ELSE status

\* assign for a review: the reviewer of this ticket if there is one, else
\* someone who has not approved yet; none left is the no-role attention.
AssignReview(m) ==
  LET s == m.row.st
      able == Reviewers \ s.approval_reviewers
      bound == Flow.stages[s.stage_index].bind_head
  IN  IF m.row.review # None \/ able = {} THEN m
      ELSE [m EXCEPT !.row.review =
              [reviewer |-> CHOOSE v \in able : TRUE, ticket |-> Ticket(s),
               head |-> IF bound THEN s.current_head ELSE None]]

\* LocalForge::submit finds the branch and has nothing else to do.
Submit(ticket) == <<Event("Submitted", ticket, None)>>

\* Engine::action for each of the actions one step returns.  A command has no
\* timer: its runner stops it.  A merge has none: it cannot be given up.
Perform(m, acts) ==
  LET asks(kinds) == {a \in acts : a.kind \in kinds}
      of(a) == <<a.stage, a.attempt>>
      timed == {of(a) : a \in {b \in asks({"ScheduleTimeout"}) :
                                 KindAt(Flow, b.stage) \notin {"command", "merge"}}}
      checks == {[ticket |-> of(a), head |-> a.head] :
                   a \in {b \in asks({"RunCommand"}) : of(b) \notin m.proc.running}}
      merges == asks({"Merge"})
      assigned ==
        [m EXCEPT
           !.row.bound = @ \/ asks({"AssignWork", "ReturnToWork"}) # {},
           !.proc.sleeping = @ \cup (timed \ m.proc.timers),
           !.proc.timers = @ \cup timed,
           !.proc.checking = @ \cup checks,
           !.proc.running = @ \cup {c.ticket : c \in checks},
           !.proc.queue = @ \o
             (IF asks({"Submit"}) = {} THEN <<>> ELSE Submit(Ticket(m.row.st))),
           !.proc.doing =
             IF asks({"TaskDone", "TaskCancelled", "TaskFailed"}) # {}
             THEN [at |-> "cleanup"]
             ELSE IF merges # {}
             THEN [at |-> "prepare", ticket |-> Ticket(m.row.st),
                   head |-> (CHOOSE a \in merges : TRUE).head]
             ELSE @]
  IN  IF asks({"RequestApproval"}) = {} THEN assigned ELSE AssignReview(assigned)

\* Mutant: the binding of an earlier attempt is kept.
ObsoleteByReviewer(review, s) == review # None /\ review.reviewer \in s.approval_reviewers

\* A review binding of an earlier attempt, or of a reviewer who has approved.
Obsolete(review, s) ==
  review # None /\ (review.ticket # Ticket(s) \/ review.reviewer \in s.approval_reviewers)

\* wake, which ends every turn of the loop: a review nobody has is assigned.
Wake(m) ==
  IF /\ m.row.status = "running" /\ ~m.row.note
     /\ InStage(Flow, m.row.st, "approval")
  THEN AssignReview(m) ELSE m

\* Events that Pipeline counts as disturbances.
Disturbing == {"CommandFailed", "ChangesRequested", "CommitCreated", "MainAdvanced",
               "StageTimedOut", "Cancel", "MergeFailed"}

\* Mutant: the status of the task is not brought up to date.
StoreOldStatus(m, e, n) ==
  [m EXCEPT !.handed = n.actions,
            !.disturbed = e.kind \in Disturbing,
            !.row.st = [n EXCEPT !.actions = {}],
            !.row.note = FALSE]

\* The first half of commit_transition: the next state is stored, which takes
\* the attention note away.
Store(m, e, n) ==
  [m EXCEPT !.handed = n.actions,
            !.disturbed = e.kind \in Disturbing,
            !.row.st = [n EXCEPT !.actions = {}],
            !.row.status = TaskStatus(n.status),
            !.row.note = FALSE]

\* The branch is at a head that neither the state nor a pending change knows.
Unseen(s) ==
  /\ s.branch
  /\ repo.branch # s.current_head
  /\ \A k \in DOMAIN s.pending_head_changes : s.pending_head_changes[k].head # repo.branch

\* "All result sources observe the actual branch before using their result."
Observes(e) ==
  /\ e.kind \notin {"Start", "Cancel", "CommitCreated", "MainAdvanced", "MergeCompleted"}
  /\ Unseen(row.st)

\* event_detail refuses what comes for a blocked or a closed task.
Refuses(e) == Closed(row.status) \/ (row.status = "blocked" /\ e.kind # "Cancel")

Here == [row |-> row, proc |-> proc, handed |-> {}, disturbed |-> FALSE]

\* The handler leaves the engine in m.
Becomes(m) ==
  \E new \in {m} :
    /\ row' = new.row
    /\ proc' = new.proc
    /\ issued' = issued \cup new.handed
    /\ disturbances' = disturbances + (IF new.disturbed THEN 1 ELSE 0)

Free == proc.up /\ proc.doing = Idle

\* What boot posted is in the channel before the program offers it to anybody
\* else ("Boot reconciliation completes before the protocol socket is bound"):
\* requests from outside come after it.
Serving == Free /\ (proc.served \/ proc.queue = <<>>)

\* The loop takes an input.
Taken == [Here EXCEPT !.proc.served = @ \/ proc.queue = <<>>]
Mishap == mishaps < MaxMishaps /\ mishaps' = mishaps + 1
NoMishap == UNCHANGED mishaps

-----------------------------------------------------------------------------
(* Inputs of the loop.                                                     *)

Booted == [up |-> TRUE, doing |-> Idle, queue |-> <<>>, running |-> {},
           checking |-> {}, timers |-> {}, sleeping |-> {}, served |-> FALSE]

Init ==
  /\ row = [st |-> NewState(Flow), status |-> "open", note |-> FALSE,
            intent |-> None, review |-> None, bound |-> FALSE]
  /\ proc = Booted
  /\ repo = [main |-> <<>>, branch |-> None, dirty |-> FALSE, soiled |-> 0, archived |-> {},
             last |-> None, commit |-> [h \in Heads |-> None]]
  /\ proof = [passed |-> {}, approved |-> {}]
  /\ mishaps = 0
  /\ issued = {}
  /\ disturbances = 0

\* What is next: the actions of a step, and then the event that waits for them.
CarryOut(m, acts, e) == [m EXCEPT !.proc.doing = [at |-> "act", acts |-> acts, event |-> e]]

\* An input that comes down to an event: event_detail is next.
Receive(m, e) == [m EXCEPT !.proc.doing = [at |-> "receive", event |-> e]]

\* event_detail.  A head nobody reported is recorded first; then the event is
\* given to the state machine, which may refuse it.
HandleEvent ==
  /\ proc.up /\ proc.doing.at \in {"receive", "apply"}
  /\ LET e == proc.doing.event
         looks == proc.doing.at = "receive" /\ ~Refuses(e) /\ Observes(e)
     IN  \E used \in {IF looks THEN HeadEvent("CommitCreated", repo.branch, FALSE) ELSE e} :
         \E n \in {Step(row.st, used)} :
           Becomes(IF Refuses(e) \/ n.status = "refused"
                   THEN [Here EXCEPT !.proc.doing = Idle]
                   ELSE CarryOut(Store(Here, used, n), n.actions, IF looks THEN e ELSE None))
  /\ NoMishap /\ UNCHANGED <<repo, proof>>

\* The second half of commit_transition: obsolete review bindings are dropped,
\* the actions are carried out.  A crash may come between the halves.
PerformActions ==
  /\ proc.up /\ proc.doing.at = "act"
  /\ LET e == proc.doing.event
         m == [Here EXCEPT
                 !.row.review = IF Obsolete(@, row.st) THEN None ELSE @,
                 !.proc.doing = IF e = None THEN Idle ELSE [at |-> "apply", event |-> e]]
     IN  \E done \in {Perform(m, proc.doing.acts)} :
           Becomes(IF e = None THEN Wake(done) ELSE done)
  /\ NoMishap /\ UNCHANGED <<repo, proof>>

\* create_task: the row was written, the start event follows.
CreateTask ==
  /\ Serving /\ row.status = "open"
  /\ Becomes(Receive(Taken, Event("Start", None, None)))
  /\ NoMishap /\ UNCHANGED <<repo, proof>>

\* Input::Event, posted by the engine itself.
QueuedEvent ==
  /\ Free /\ proc.queue # <<>>
  /\ Becomes(Receive([Here EXCEPT !.proc.queue = Tail(@),
                                   !.proc.served = @ \/ Tail(proc.queue) = <<>>],
                     Head(proc.queue)))
  /\ NoMishap /\ UNCHANGED <<repo, proof>>

\* `agend done': owned_result, then the head the branch is at and its patch;
\* the branch may move on before event_detail looks at it.
Done ==
  /\ Serving /\ ~Closed(row.status)
  /\ InStage(Flow, row.st, "work")
  /\ repo.branch # None /\ ~OnMain(repo.branch)
  /\ Becomes(Receive(Taken, [HeadEvent("WorkCompleted", repo.branch, FALSE) EXCEPT
                              !.ticket = Ticket(row.st)]))
  /\ NoMishap /\ UNCHANGED <<repo, proof>>

\* `agend review approve' or `review changes', by the reviewer the ticket is
\* bound to: what was looked at is the head of the binding.
Review(granted) ==
  /\ Serving /\ ~Closed(row.status)
  /\ row.st.status = "running"
  /\ row.review # None /\ row.review.ticket = Ticket(row.st)
  /\ LET kind == IF granted THEN "ApprovalGranted" ELSE "ChangesRequested"
         e == [Event(kind, row.review.ticket, row.review.head) EXCEPT
                 !.reviewer = row.review.reviewer]
     IN  Becomes(Receive(Taken, e))
  /\ proof' = IF granted /\ row.review.head # None
              THEN [proof EXCEPT !.approved = @ \cup {row.review.head}] ELSE proof
  /\ UNCHANGED repo

\* Input::Check: a check that ran to its end, or could not be run.
CheckResult(c, result) ==
  /\ Free /\ c \in proc.checking
  /\ LET m == [Taken EXCEPT !.proc.checking = @ \ {c}, !.proc.running = @ \ {c.ticket}]
         stale == row.status # "running" \/ c.ticket # Ticket(row.st)
         kind == IF result = "pass" THEN "CommandPassed" ELSE "CommandFailed"
     IN  Becomes(IF stale THEN m
                 ELSE IF result = "blocked" THEN [m EXCEPT !.row.note = TRUE]
                 ELSE Receive(m, Event(kind, c.ticket, c.head)))
  /\ proof' = IF result = "pass"
              THEN [proof EXCEPT !.passed = @ \cup {c.head}] ELSE proof
  /\ UNCHANGED repo

\* A timer task wakes up and sends StageTimedOut.
TimerFires(t) ==
  /\ Free /\ t \in proc.sleeping
  /\ Becomes(Receive([Taken EXCEPT !.proc.sleeping = @ \ {t}],
                     Event("StageTimedOut", t, None)))
  /\ Mishap /\ UNCHANGED <<repo, proof>>

\* `agend task cancel'
CancelTask ==
  /\ Serving /\ ~Closed(row.status)
  /\ Becomes(Receive(Taken, Event("Cancel", None, None)))
  /\ Mishap /\ UNCHANGED <<repo, proof>>

\* `agend block' by the holder, refused while a merge is in flight.
Block ==
  /\ Serving /\ row.bound /\ row.status = "running"
  /\ ~MergeInFlight(Flow, row.st)
  /\ Becomes([Taken EXCEPT !.row.status = "blocked"])
  /\ Mishap /\ UNCHANGED <<repo, proof>>

\* Mutant: the timer that fired meanwhile is not armed again.
UnblockKeepsTimer ==
  /\ Serving /\ row.status = "blocked"
  /\ Becomes(CarryOut([Taken EXCEPT !.row.status = "running"],
                      OutstandingActions(Flow, row.st), None))
  /\ NoMishap /\ UNCHANGED <<repo, proof>>

\* `agend unblock': arm the timer again, ask again for what is open.
Unblock ==
  /\ Serving /\ row.status = "blocked"
  /\ Becomes(CarryOut([Taken EXCEPT !.row.status = "running",
                                   !.proc.timers = @ \ {Ticket(row.st)}],
                      OutstandingActions(Flow, row.st), None))
  /\ NoMishap /\ UNCHANGED <<repo, proof>>

\* The operator answers the attention item with Retry.
Retry ==
  /\ Serving /\ row.note /\ ~Closed(row.status)
  /\ Becomes(CarryOut([Taken EXCEPT !.row.note = FALSE],
                      OutstandingActions(Flow, row.st), None))
  /\ NoMishap /\ UNCHANGED <<repo, proof>>

-----------------------------------------------------------------------------
(* The Merge action, with LocalForge::merge_if_head_is.                    *)

Doing(at) == proc.up /\ proc.doing.at = at

Post(m, events) == [m EXCEPT !.proc.queue = @ \o events, !.proc.doing = Idle]
Merging == proc.doing
Failed == Event("MergeFailed", Merging.ticket, Merging.head)
Completed == Event("MergeCompleted", Merging.ticket, Merging.head)

\* The head is on main already, or main is contained in it: go to the forge.
PrepareMerge ==
  /\ Doing("prepare")
  /\ FindMerge(Merging.head) \/ UpToDate(Merging.head)
  /\ Becomes([Here EXCEPT !.proc.doing =
       [at |-> "forge", ticket |-> Merging.ticket, head |-> Merging.head,
        main |-> Len(repo.main)]])
  /\ NoMishap /\ UNCHANGED <<repo, proof>>

\* main has advanced: the branch in the worktree is rebased on it.  It is at a
\* new commit, or was up to date already, or the rebase did not happen (a
\* conflict, or uncommitted changes).
Rebase(conflict, head, patch) ==
  /\ Doing("prepare")
  /\ ~FindMerge(Merging.head) /\ ~UpToDate(Merging.head)
  /\ IF conflict \/ UpToDate(repo.branch)
     THEN head = repo.branch /\ patch = PatchId(head) /\ UNCHANGED repo
     ELSE /\ HeadsLeft /\ head = NewHead /\ patch # EmptyPatch
          /\ repo' = [repo EXCEPT !.branch = head,
                        !.commit[head] = Commit(patch, Len(repo.main), {head})]
  /\ Becomes(Post(Here,
       <<[Event("MainAdvanced", None, head) EXCEPT !.patch = patch, !.conflict = conflict],
         Failed>>))
  /\ IF conflict \/ patch # repo.commit[repo.branch].patch THEN Mishap ELSE NoMishap
  /\ UNCHANGED proof

\* merge_if_head_is up to the merge commit: find the merge again, compare the
\* head and main with what was expected, look at the checkout of main.
ForgeLooks ==
  /\ Doing("forge")
  /\ Becomes(
       IF FindMerge(Merging.head) THEN Post(Here, <<Completed>>)
       ELSE IF repo.branch # Merging.head
       THEN Post(Here, <<HeadEvent("CommitCreated", repo.branch, FALSE), Failed>>)
       ELSE IF Len(repo.main) # Merging.main THEN Post(Here, <<Failed>>)
       ELSE IF repo.dirty THEN [Post(Here, <<>>) EXCEPT !.row.note = TRUE]
       ELSE [Here EXCEPT !.proc.doing.at = "intent"])
  /\ NoMishap /\ UNCHANGED <<repo, proof>>

\* The merge commit is made and stored as the intent.
RecordIntent ==
  /\ Doing("intent")
  /\ Becomes([Here EXCEPT !.row.intent = Merging.head, !.proc.doing.at = "recheck"])
  /\ NoMishap /\ UNCHANGED <<repo, proof>>

RecheckRefs ==
  /\ Doing("recheck")
  /\ Becomes(IF Len(repo.main) = Merging.main /\ repo.branch = Merging.head
             THEN [Here EXCEPT !.proc.doing.at = "move"]
             ELSE Post(Here, <<Failed>>))
  /\ NoMishap /\ UNCHANGED <<repo, proof>>

\* Mutant: main is moved without comparing it with the parent of the merge.
MoveMainBlindly ==
  /\ Doing("move")
  /\ repo' = Push("daemon", Merging.head)
  /\ Becomes([Here EXCEPT !.proc.doing.at = "moved"])
  /\ NoMishap /\ UNCHANGED proof

\* merge --ff-only, or update-ref with the old value: main moves only if it is
\* still the first parent of the merge commit.  A checkout that has become dirty
\* since it was looked at may stop the fast-forward.
MoveMain ==
  /\ Doing("move")
  /\ \/ /\ Len(repo.main) = Merging.main
        /\ repo' = Push("daemon", Merging.head)
        /\ Becomes([Here EXCEPT !.proc.doing.at = "moved"])
     \/ /\ Len(repo.main) # Merging.main \/ repo.dirty
        /\ Becomes(Post(Here, <<Failed>>))
        /\ UNCHANGED repo
  /\ NoMishap /\ UNCHANGED proof

ReportMerge ==
  /\ Doing("moved")
  /\ Becomes(Post(Here, <<Completed>>))
  /\ NoMishap /\ UNCHANGED <<repo, proof>>

\* archive: the commits of the branch are kept, unless the task was merged.
Archive ==
  IF repo.branch # None /\ ~OnMain(repo.branch) /\ ~row.st.merge_commit
  THEN repo.archived \cup {repo.branch} ELSE repo.archived

\* bindings::release: archive, remove the worktree, delete the branch.
Release == [repo EXCEPT !.archived = Archive, !.branch = None, !.last = repo.branch]

\* cleanup_terminal: every binding of the closed task is released.
Cleanup ==
  /\ Doing("cleanup")
  /\ repo' = Release
  /\ Becomes([Here EXCEPT !.row.bound = FALSE, !.row.review = None,
                          !.proc.doing = Idle])
  /\ NoMishap /\ UNCHANGED proof

-----------------------------------------------------------------------------
(* Crash and boot.                                                         *)

Crash ==
  /\ proc.up
  /\ Becomes([Here EXCEPT !.proc = [Booted EXCEPT !.up = FALSE]])
  /\ Mishap /\ UNCHANGED <<repo, proof>>

\* Mutant: a closed task is not looked at.
CleanupNever(r) == FALSE

\* cleanup_terminal at boot: a closed task that still has its binding.
CleanupDue(r) == Closed(r.status) /\ r.bound

\* boot: a snapshot that cannot be restored fails its task; obsolete bindings
\* are released; a closed task is cleaned up; an open one starts, and what a
\* running one waits for is asked again.
Boot ==
  /\ ~proc.up
  /\ LET m == [Here EXCEPT !.proc = Booted,
                           !.row.review = IF Obsolete(@, row.st) THEN None ELSE @]
         cleanup == [m EXCEPT !.proc.doing = [at |-> "cleanup"]]
     IN  Becomes(
           IF CleanupDue(row) THEN cleanup
           ELSE IF Closed(row.status) THEN m
           ELSE IF ~RestoreAccepts(Flow, row.st)
           THEN [cleanup EXCEPT !.row.status = "failed"]
           ELSE IF row.status = "open" THEN Receive(m, Event("Start", None, None))
           ELSE IF row.status = "running"
           THEN CarryOut(m, OutstandingActions(Flow, row.st), None)
           ELSE m)
  /\ NoMishap /\ UNCHANGED <<repo, proof>>

-----------------------------------------------------------------------------
(* The rest of the world.                                                  *)

\* The holder commits on the task's branch: because it is asked for work and
\* the branch has none, or unasked, at any stage.  The branch was made at some
\* earlier main.
AgentCommits(patch) ==
  /\ row.bound /\ HeadsLeft /\ patch # EmptyPatch
  /\ LET new == repo.branch = None
         asked == new \/ (OnMain(repo.branch) /\ InStage(Flow, row.st, "work"))
         old == repo.commit[repo.branch]
     IN  /\ IF asked THEN NoMishap ELSE Mishap
         /\ \E base \in IF new THEN 0..Len(repo.main) ELSE {old.base} :
              repo' = [repo EXCEPT !.branch = NewHead,
                         !.commit[NewHead] = Commit(patch, base,
                            {NewHead} \cup IF new THEN {} ELSE old.contains)]
  /\ UNCHANGED <<row, proc, issued, disturbances, proof>>

\* The holder resets the branch to a commit it was at before.
AgentResets(head) ==
  /\ row.bound /\ repo.branch # None
  /\ Used(head) /\ head # repo.branch /\ ~OnMain(head)
  /\ repo' = [repo EXCEPT !.branch = head]
  /\ Mishap /\ UNCHANGED <<row, proc, issued, disturbances, proof>>

\* Somebody else puts something on main, or merges the branch there.
MainMoves(head) ==
  /\ head # None => head = repo.branch /\ ~OnMain(head)
  /\ repo' = Push("outside", head)
  /\ Mishap /\ UNCHANGED <<row, proc, issued, disturbances, proof>>

\* Uncommitted changes appear in the checkout of main, and are cleared.
CheckoutDirtied ==
  /\ ~repo.dirty /\ repo.soiled < MaxSoiled
  /\ repo' = [repo EXCEPT !.dirty = TRUE, !.soiled = @ + 1]
  /\ NoMishap /\ UNCHANGED <<row, proc, issued, disturbances, proof>>

CheckoutCleaned ==
  /\ repo.dirty
  /\ repo' = [repo EXCEPT !.dirty = FALSE]
  /\ NoMishap /\ UNCHANGED <<row, proc, issued, disturbances, proof>>

Over ==
  /\ Free /\ Closed(row.status) /\ proc.queue = <<>>
  /\ UNCHANGED vars

Loop ==
  \/ CreateTask \/ QueuedEvent \/ HandleEvent \/ PerformActions
  \/ PrepareMerge \/ (\E c \in BOOLEAN, h \in Heads, p \in Patches : Rebase(c, h, p))
  \/ ForgeLooks \/ RecordIntent \/ RecheckRefs \/ MoveMain \/ ReportMerge
  \/ Cleanup \/ Boot

Answers ==
  \/ Done
  \/ NoMishap /\ Review(TRUE)
  \/ NoMishap /\ \E c \in proc.checking : CheckResult(c, "pass")
  \/ Unblock \/ Retry \/ CheckoutCleaned

Troubles ==
  \/ Mishap /\ Review(FALSE)
  \/ Mishap /\ \E c \in proc.checking, r \in {"fail", "blocked"} : CheckResult(c, r)
  \/ \E t \in proc.sleeping : TimerFires(t)
  \/ CancelTask \/ Block \/ Crash
  \/ \E h \in Heads : AgentResets(h)
  \/ \E h \in Heads \cup {None} : MainMoves(h)
  \/ CheckoutDirtied

Commits == \E p \in Patches : AgentCommits(p)

Next == Loop \/ Answers \/ Commits \/ Troubles \/ Over

Spec == Init /\ [][Next]_vars

\* The steps of the handlers: what the loop does until it takes the next input.
Working == ~Free /\ Loop

\* Every handler takes its steps and a daemon that died is started again (Boot
\* is a step of the loop: launchd and systemd do that); this is WF_vars(Working),
\* whose step is enabled exactly when the loop is not free.  An input in the
\* channel is taken at last (it is a queue); the agents, reviewers and checks
\* answer what they are asked; the operator unblocks, clears the checkout of
\* main and retries.
FairSpec ==
  /\ Spec
  /\ ([]<>Free \/ []<><<Working>>_vars)
  /\ SF_vars(CreateTask)
  /\ SF_vars(QueuedEvent)
  /\ WF_vars(NoMishap /\ Commits)
  /\ SF_vars(Done)
  /\ SF_vars(NoMishap /\ Review(TRUE))
  /\ SF_vars(NoMishap /\ \E c \in proc.checking : CheckResult(c, "pass"))
  /\ SF_vars(Unblock)
  /\ SF_vars(Retry)
  /\ WF_vars(CheckoutCleaned)

-----------------------------------------------------------------------------
(* Properties                                                              *)

\* Types of the engine's state.
TypeOK ==
  /\ row.st \in PipelineState(Flow)
  /\ row.status \in {"open", "running", "blocked", "done", "failed", "cancelled"}
  /\ row.status # "blocked" => row.status = TaskStatus(row.st.status)
  /\ row.intent \in Option(Heads)
  /\ repo.branch \in Option(Heads)
  /\ \A k \in DOMAIN repo.main : repo.main[k].head \in Option(Heads)
  /\ issued \subseteq Action

\* D14: what the daemon puts on main was tested and reviewed.  A check passed
\* on that very head, made on the main it was merged into (so the tree of the
\* merge is the tree that was tested), and a reviewer approved a head with the
\* same patch, unless the workflow says it wants no review.
MergedWasVetted ==
  \A k \in DOMAIN repo.main :
    repo.main[k].by = "daemon" =>
      LET h == repo.main[k].head
      IN  /\ h \in proof.passed
          /\ repo.commit[h].base = k - 1
          /\ ~Flow.allow_unreviewed =>
               \E a \in proof.approved : repo.commit[a].patch = repo.commit[h].patch

\* The daemon merges a task at most once, and never a head that was already
\* merged, whatever crashes happened between the intent and the report.
MergedOnce ==
  \A k \in DOMAIN repo.main :
    repo.main[k].by = "daemon" =>
      \A j \in DOMAIN repo.main :
        j # k /\ repo.main[j].head # None =>
          /\ repo.main[j].by # "daemon"
          /\ j < k => repo.main[k].head \notin repo.commit[repo.main[j].head].contains

\* The recorded outcome is what happened: the head of a done task that had a
\* merge to make is on main, a cancelled or failed task was not merged by the
\* daemon.
OutcomeMatchesMain ==
  /\ row.status = "done" /\ (\E i \in Index(Flow) : IsKind(Flow, i, "merge")) =>
       OnMain(row.st.current_head)
  /\ row.status \in {"cancelled", "failed"} =>
       \A k \in DOMAIN repo.main : repo.main[k].by # "daemon"

\* An event the engine has posted for the open attempt.
Posted(kinds) ==
  \E k \in DOMAIN proc.queue :
    proc.queue[k].kind \in kinds /\ proc.queue[k].ticket = Ticket(row.st)

\* What the merge of a running task waits for: the answer of the forge, or the
\* operator's retry of a merge that could not be made.
MergeAwaited == row.note \/ Posted({"MergeCompleted", "MergeFailed"})

\* Finding 2 of the README (pipeline.rs:511): a merge was refused, the branch or
\* main moved, and the event that made the engine record the new head took the
\* operator's note away and was itself refused.  Nothing asks for the merge again.
MergeForgotten ==
  /\ Free /\ row.status = "running" /\ InStage(Flow, row.st, "merge")
  /\ row.st.pending_head_changes # <<>>
  /\ ~MergeAwaited

\* Nobody waits for nothing: whenever the loop is free, what a running task
\* waits for is on its way, or the operator is shown a retry; except a merge
\* that finding 2 has forgotten.
Attended ==
  Free /\ row.status = "running" /\ ~MergeForgotten =>
    CASE InStage(Flow, row.st, "work") -> row.bound
      [] InStage(Flow, row.st, "submit") -> row.note \/ Posted({"Submitted"})
      [] InStage(Flow, row.st, "command") ->
           \/ row.note
           \/ \E c \in proc.checking :
                c.ticket = Ticket(row.st) /\ c.head = row.st.current_head
      [] InStage(Flow, row.st, "approval") ->
           row.review # None /\ row.review.ticket = Ticket(row.st)
      [] InStage(Flow, row.st, "merge") -> MergeAwaited

\* A merge that could not be made because the checkout of main is not clean
\* stays in the merge stage and is shown, to be retried (pipeline-runtime.md:51).
\* Does not hold: finding 2.
BlockedMergeShown ==
  Free /\ row.status = "running" /\ InStage(Flow, row.st, "merge") => MergeAwaited

\* The timeout of the open attempt will fire, unless it was reported already.
TimerArmed ==
  /\ Free /\ row.status = "running"
  /\ ~InStage(Flow, row.st, "command") /\ ~InStage(Flow, row.st, "merge")
  /\ row.st.notified_timeout # Ticket(row.st)
  => Ticket(row.st) \in proc.sleeping

\* A commit that was on the branch when the branch is deleted is on main or in
\* the archive.  Does not hold (README, finding 3).
LateCommitKept ==
  repo.last # None => OnMain(repo.last) \/ repo.last \in repo.archived

\* The stored state moves only as the state machine allows.
P == INSTANCE Pipeline WITH
       Workflows <- {Flow}, MaxDisturbances <- None, wf <- Flow, st <- row.st
StateMachineObeyed == P!Spec

\* Once the mishaps are over the task is closed and its branch is gone, unless
\* its merge is forgotten (finding 2) and nobody cancels it.
EventuallyClosed ==
  []<>MergeForgotten \/ <>[](Closed(row.status) /\ ~row.bound)
=============================================================================
