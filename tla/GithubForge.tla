----------------------------- MODULE GithubForge -----------------------------
(***************************************************************************)
(* The GitHub forge for one task: pushing the owned branch, opening its    *)
(* pull request, merging it at the approved head and cleaning up, through  *)
(* a ledger in SQLite that is written before every remote write.  A remote *)
(* write takes effect at once, later or never, whatever reply the daemon   *)
(* saw; the daemon may die at any point; people push to the branch and     *)
(* close, merge or open pull requests meanwhile.                           *)
(***************************************************************************)
EXTENDS Integers, FiniteSets

CONSTANTS MaxHeads,    \* bound: heads of the local branch, 1 .. MaxHeads
          MaxHuman,    \* bound: steps of people on GitHub
          MaxOps       \* bound: operations the engine starts

ForgeAssumption == {MaxHeads, MaxHuman, MaxOps} \subseteq Nat /\ MaxHeads > 0

VARIABLES
    lhead,   \* head of the local branch
    rb,      \* head of the remote branch, 0 for none
    pr,      \* the pull request of the branch
    main,    \* main: merges on GitHub, in the local checkout, and user commits
    led,     \* the row of github_changes, or NoChange
    net,     \* remote writes sent and without effect so far
    op,      \* the operation the engine runs
    subm,    \* heads that submit returned
    done,    \* ghost: heads reported as merged
    made,    \* ghost: pull requests the daemon created
    lostf,   \* ghost: somebody else's commits were overwritten or deleted
    early,   \* ghost: the branch was deleted under its open pull request
    over,    \* the task is finished: only cleanup is asked for
    human, started

vars == <<lhead, rb, pr, main, led, net, op, subm, done, made, lostf, early, over, human, started>>
bounds == <<over, human, started>>

Foreign == 100
Heads == 1 .. MaxHeads
NoChange == [pull |-> FALSE, pushed |-> 0, intent |-> 0, created |-> FALSE, mhead |-> 0,
             closing |-> FALSE, deleting |-> FALSE, complete |-> FALSE, rev |-> 0]
\* What is read of a pull request: its state, its head and what was merged.
\* [agend-daemon/src/forge/github/pull.rs:31-92] Pull::parse
NoPull == [st |-> "none", head |-> 0, mh |-> 0, ours |-> FALSE, by |-> "none"]
NoOp == [k |-> "none", pc |-> "none", head |-> 0, merged |-> FALSE]

Init ==
    /\ lhead = 1 /\ rb = 0 /\ pr = NoPull /\ main = [r |-> 0, l |-> 0, user |-> FALSE]
    /\ led = NoChange /\ net = {} /\ op = NoOp /\ subm = {} /\ done = {}
    /\ made = 0 /\ lostf = FALSE /\ early = FALSE /\ over = FALSE /\ human = 0 /\ started = 0

End == op' = NoOp
Goto(pc) == op' = [op EXCEPT !.pc = pc]
In(k, pc) == op.k = k /\ op.pc = pc

\* Every save is a compare-and-set on the revision; one operation runs at a time.
\* [agend-daemon/src/store/github.rs:36-63] SqliteStore::save_github_change
Save(r) == led' = [r EXCEPT !.rev = led.rev + 1]

\* [agend-core/src/github.rs:46-108] GithubChange::follows
Follows(new, old) ==
    /\ new.pull => new.created
    /\ old.mhead # 0 => new.mhead = old.mhead /\ new.intent = old.intent /\ new.pushed = old.pushed
    /\ new.mhead # 0 => new.pull
    /\ old.mhead = 0 /\ new.mhead # 0 => ~old.closing /\ ~old.deleting /\ old.intent = 0
    /\ old.complete => new = old
    /\ (old.closing => new.closing) /\ (old.deleting => new.deleting)
    /\ (old.created => new.created) /\ (old.pull => new.pull)
    /\ ~old.created /\ new.created => old.pushed # 0 /\ old.intent = 0
    /\ IF old.intent # 0 /\ new.intent # old.intent
       THEN new.intent = 0 /\ new.pushed = old.intent
       ELSE new.pushed = old.pushed

-----------------------------------------------------------------------------
(* GitHub: the effect of what was sent, and what people do. *)

\* [external] GitHub and the git server run a request
Effect(w) ==
    /\ w \in net
    /\ net' = net \ {w}
    /\ \/ UNCHANGED <<rb, pr, main, made, lostf, early>>
       \/ /\ w.k = "push" /\ rb = w.lease
          /\ rb' = w.head
          /\ pr' = IF pr.st = "open" THEN [pr EXCEPT !.head = w.head] ELSE pr
          /\ lostf' = (lostf \/ (rb = Foreign))
          /\ UNCHANGED <<main, made, early>>
       \/ /\ w.k = "create" /\ pr.st # "open" /\ rb # 0
          /\ pr' = [st |-> "open", head |-> rb, mh |-> 0, ours |-> TRUE, by |-> "none"]
          /\ made' = made + 1
          /\ UNCHANGED <<rb, main, lostf, early>>
       \/ /\ w.k = "merge" /\ pr.st = "open" /\ w.head \in {pr.head, 0}
          /\ pr' = [pr EXCEPT !.st = "merged", !.mh = pr.head, !.by = "daemon"]
          /\ main' = [main EXCEPT !.r = @ + 1]
          /\ UNCHANGED <<rb, made, lostf, early>>
       \/ /\ w.k = "close" /\ pr.st = "open"
          /\ pr' = [pr EXCEPT !.st = "closed"]
          /\ UNCHANGED <<rb, main, made, lostf, early>>
       \/ /\ w.k = "delete" /\ rb = w.lease /\ rb # 0
          /\ rb' = 0
          /\ pr' = IF pr.st = "open" THEN [pr EXCEPT !.st = "closed"] ELSE pr
          /\ lostf' = (lostf \/ (rb = Foreign)) /\ early' = (early \/ (pr.st = "open" /\ pr.ours /\ pr.by = "none"))
          /\ UNCHANGED <<main, made>>
    /\ UNCHANGED <<lhead, led, op, subm, done, bounds>>

\* [external] people push, and open, merge, close and reopen pull requests
HumanActs ==
    /\ human < MaxHuman /\ human' = human + 1
    /\ \/ /\ rb # 0 /\ rb' = Foreign /\ UNCHANGED main
          /\ pr' = IF pr.st = "open" THEN [pr EXCEPT !.head = Foreign] ELSE pr
       \/ /\ pr.st = "open" /\ pr' = [pr EXCEPT !.st = "closed"] /\ UNCHANGED <<rb, main>>
       \/ /\ pr.st = "closed" /\ rb # 0 /\ UNCHANGED <<rb, main>>
          /\ pr' = [pr EXCEPT !.st = "open", !.head = rb, !.by = "human"]
       \/ /\ pr.st = "open" /\ UNCHANGED rb
          /\ \E mh \in {pr.head, 0} :       \* a merge commit, or squashed or rebased
                pr' = [pr EXCEPT !.st = "merged", !.mh = mh, !.by = "human"]
          /\ main' = [main EXCEPT !.r = @ + 1]
       \/ /\ pr.st = "none" /\ rb # 0 /\ UNCHANGED <<rb, main>>
          /\ pr' = [st |-> "open", head |-> rb, mh |-> 0, ours |-> FALSE, by |-> "none"]
       \/ ~main.user /\ main' = [main EXCEPT !.user = TRUE] /\ UNCHANGED <<rb, pr>>
    /\ UNCHANGED <<lhead, led, net, op, subm, done, made, lostf, early, over, started>>

\* The agent commits again.
Commit ==
    /\ lhead < MaxHeads /\ lhead' = lhead + 1
    /\ UNCHANGED <<rb, pr, main, led, net, op, subm, done, made, lostf, early, bounds>>

Send(w) == net' = net \cup {w}
Unsent == UNCHANGED <<rb, pr, net, made, lostf, early, human>>
Quiet == Unsent /\ UNCHANGED over

-----------------------------------------------------------------------------
(* Submission: the push, then the pull request. *)

\* [agend-daemon/src/forge/github/adapter.rs:173-246] GithubForge::submit: the ledger row and the head
Submit ==
    /\ op = NoOp /\ ~over /\ started < MaxOps /\ started' = started + 1
    /\ led' = IF led.rev = 0 THEN [NoChange EXCEPT !.rev = 1] ELSE led
    /\ op' = [NoOp EXCEPT !.k = "submit", !.pc = "push", !.head = lhead]
    /\ UNCHANGED <<lhead, main, subm, done>> /\ Quiet

\* Mutant: the lease is what the remote has.
LeaseRead == rb

\* [agend-daemon/src/forge/github/push.rs:121-129] push_to: the lease
Lease == led.pushed

\* The remote head is compared with what is owned, then the intent is stored.
\* [agend-daemon/src/forge/github/push.rs:70-120] push_to: up to the intent
PushIntent ==
    /\ In("submit", "push")
    /\ \/ (led.closing \/ led.deleting \/ led.complete \/ led.mhead # 0) /\ End /\ UNCHANGED led
       \/ /\ ~led.closing /\ ~led.deleting /\ ~led.complete /\ led.mhead = 0
          /\ IF led.intent # 0
             THEN IF rb # led.intent THEN End /\ UNCHANGED led
                  ELSE /\ Save([led EXCEPT !.pushed = led.intent, !.intent = 0])
                       /\ IF led.intent = op.head THEN Goto("pull") ELSE End
             ELSE IF rb # led.pushed THEN End /\ UNCHANGED led
             ELSE IF rb = op.head THEN Goto("pull") /\ UNCHANGED led
             ELSE Save([led EXCEPT !.intent = op.head]) /\ Goto("pushing")
    /\ UNCHANGED <<lhead, main, subm, done, started>> /\ Quiet

PushWrite ==
    /\ In("submit", "pushing")
    /\ Send([k |-> "push", head |-> op.head, lease |-> Lease])
    /\ Goto("pushed?")
    /\ UNCHANGED <<lhead, rb, pr, main, led, subm, done, made, lostf, early, bounds>>

\* [agend-daemon/src/forge/github/push.rs:130-152] push_to: the exact remote reference decides
PushConfirm ==
    /\ In("submit", "pushed?")
    /\ IF rb = op.head THEN Save([led EXCEPT !.pushed = led.intent, !.intent = 0]) /\ Goto("pull")
       ELSE End /\ UNCHANGED led
    /\ UNCHANGED <<lhead, main, subm, done, started>> /\ Quiet

\* [agend-daemon/src/forge/github/submission.rs:45-61] Repository::owned_pull
OwnedPull == pr.st # "none" /\ pr.ours

\* [agend-daemon/src/forge/github/submission.rs:188-205] submit_pull: an open pull request at the pushed head
Submitted(r) ==
    IF pr.st = "open" /\ pr.head = r.pushed THEN subm' = subm \cup {pr.head} ELSE UNCHANGED subm

\* [agend-daemon/src/forge/github/submission.rs:147-156] submit_pull: no attempt is replayed
MayCreate(r) == ~r.created

\* [agend-daemon/src/forge/github/submission.rs:157-165] submit_pull: the attempt is stored first
CreateClaimed(r) == [r EXCEPT !.created = TRUE]

\* [agend-daemon/src/forge/github/submission.rs:64-146] find_owned_pull, submit_pull
PullLookup ==
    /\ In("submit", "pull")
    /\ \/ /\ pr.st = "none" /\ ~led.pull /\ MayCreate(led)
          /\ Save(CreateClaimed(led)) /\ Goto("create") /\ UNCHANGED subm
       \/ /\ pr.st = "none" /\ (led.pull \/ ~MayCreate(led)) /\ End /\ UNCHANGED <<led, subm>>
       \/ pr.st # "none" /\ ~OwnedPull /\ End /\ UNCHANGED <<led, subm>>
       \/ /\ OwnedPull /\ ~led.pull /\ ~led.created /\ End /\ UNCHANGED <<led, subm>>
       \/ /\ OwnedPull /\ (led.pull \/ led.created)
          /\ IF led.pull THEN UNCHANGED led ELSE Save([led EXCEPT !.pull = TRUE])
          /\ Submitted(led) /\ End
    /\ UNCHANGED <<lhead, main, done, started>> /\ Quiet

PullCreate ==
    /\ In("submit", "create")
    /\ Send([k |-> "create", head |-> 0, lease |-> 0])
    /\ Goto("created?")
    /\ UNCHANGED <<lhead, rb, pr, main, led, subm, done, made, lostf, early, bounds>>

\* The reply is not used: the branch is searched for the marker.
\* [agend-daemon/src/forge/github/submission.rs:166-187] submit_pull: read, never retried
PullConfirm ==
    /\ In("submit", "created?")
    /\ IF OwnedPull THEN Save([led EXCEPT !.pull = TRUE]) /\ Submitted(led)
       ELSE UNCHANGED <<led, subm>>
    /\ End
    /\ UNCHANGED <<lhead, main, done, started>> /\ Quiet

-----------------------------------------------------------------------------
(* Merging at the approved head. *)

\* The second parent of the merge commit is the approved head.
\* [agend-daemon/src/forge/github/pull.rs:93-128] receipt_for, verify_merge_commit
Receipt(h) == pr.st = "merged" /\ pr.mh = h

\* The local main follows only by a clean fast-forward.
\* [agend-daemon/src/forge/github/adapter.rs:53-104] GithubForge::sync_main
SyncMain == (main.l = main.r \/ ~main.user) /\ main' = [main EXCEPT !.l = main.r]

\* A merge is reported once its receipt is verified and main is in step.
Report(h) ==
    \/ SyncMain /\ done' = done \cup {h}
    \/ UNCHANGED <<main, done>>

\* [agend-daemon/src/forge/github/adapter.rs:283-352] merge_if_head_is: up to the strict base
MergeStart(h) ==
    /\ op = NoOp /\ ~over /\ started < MaxOps /\ h \in subm /\ started' = started + 1
    /\ \/ /\ (led.mhead \notin {0, h} \/ led.intent # 0 \/ ~led.pull \/ ~OwnedPull \/ pr.head # h)
          /\ UNCHANGED <<op, main, done>>
       \/ /\ led.mhead \in {0, h} /\ led.intent = 0 /\ led.pull /\ OwnedPull /\ pr.head = h
          /\ \/ Receipt(h) /\ Report(h) /\ UNCHANGED op
             \/ pr.st \in {"closed", "merged"} /\ ~Receipt(h) /\ UNCHANGED <<op, main, done>>
             \/ /\ pr.st = "open" /\ led.mhead # 0 /\ UNCHANGED <<op, main, done>>
             \/ /\ pr.st = "open" /\ led.mhead = 0 /\ UNCHANGED <<main, done>>
                /\ op' = [NoOp EXCEPT !.k = "merge", !.pc = "check", !.head = h]
    /\ UNCHANGED <<lhead, led, subm>> /\ Quiet

\* The pull request is read again, the base must be protected, and the attempt
\* is stored.
\* [agend-daemon/src/forge/github/client.rs:116-147] merge_checked: before the write
MergeClaim ==
    /\ In("merge", "check")
    /\ \/ /\ OwnedPull /\ pr.head = op.head /\ pr.st = "open"
          /\ Save([led EXCEPT !.mhead = op.head]) /\ Goto("put") /\ UNCHANGED <<main, done>>
       \/ /\ OwnedPull /\ pr.head = op.head /\ Receipt(op.head)
          /\ Report(op.head) /\ End /\ UNCHANGED led
       \/ End /\ UNCHANGED <<led, main, done>>     \* changed, closed, or the base is not strict
    /\ UNCHANGED <<lhead, subm, started>> /\ Quiet

\* [agend-daemon/src/forge/github/client.rs:148-156] merge_checked: the head the request names
ApprovedSha == op.head

MergeWrite ==
    /\ In("merge", "put")
    /\ Send([k |-> "merge", head |-> ApprovedSha, lease |-> 0])
    /\ Goto("merged?")
    /\ UNCHANGED <<lhead, rb, pr, main, led, subm, done, made, lostf, early, bounds>>

\* [agend-daemon/src/forge/github/client.rs:157-187] merge_checked: only the receipt counts
MergeConfirm ==
    /\ In("merge", "merged?")
    /\ IF OwnedPull /\ pr.head = op.head /\ Receipt(op.head) THEN Report(op.head)
       ELSE UNCHANGED <<main, done>>
    /\ End
    /\ UNCHANGED <<lhead, led, subm, started>> /\ Quiet

\* At boot, or before main is prepared again.
\* [agend-daemon/src/forge/github/adapter.rs:106-155] GithubForge::find_merge
FindMerge(h) ==
    /\ op = NoOp /\ ~over /\ started < MaxOps /\ h \in subm /\ started' = started + 1
    /\ led.pull /\ led.mhead \in {0, h} /\ OwnedPull /\ pr.head = h /\ Receipt(h)
    /\ Report(h)
    /\ UNCHANGED <<lhead, led, op, subm>> /\ Quiet

-----------------------------------------------------------------------------
(* Cleanup, after the task was merged or given up. *)

\* [agend-daemon/src/forge/github/cleanup.rs:20-64] GithubForge::cleanup: the row and its pull request
CleanupStart(m) ==
    /\ op = NoOp /\ started < MaxOps /\ started' = started + 1 /\ over' = TRUE
    /\ led.rev # 0 /\ ~led.complete /\ (m <=> done # {})
    /\ \/ /\ led.created /\ ~led.pull /\ ~OwnedPull /\ UNCHANGED <<led, op>>
       \/ /\ led.created /\ OwnedPull
          /\ IF led.pull THEN UNCHANGED led ELSE Save([led EXCEPT !.pull = TRUE])
          /\ op' = [NoOp EXCEPT !.k = "clean", !.pc = "pull", !.merged = m]
       \/ /\ ~led.created /\ ~m /\ UNCHANGED led
          /\ op' = [NoOp EXCEPT !.k = "clean", !.pc = "branch", !.merged = m]
    /\ UNCHANGED <<lhead, main, subm, done>> /\ Unsent

\* [agend-daemon/src/forge/github/cleanup.rs:78-92] cleanup: what must be looked at first
MustKeep == pr.st = "merged" \/ led.mhead # 0

\* [agend-daemon/src/forge/github/cleanup.rs:65-107] cleanup: the pull request
CleanupPull ==
    /\ In("clean", "pull")
    /\ \/ op.merged /\ UNCHANGED led
          /\ IF Receipt(IF led.mhead # 0 THEN led.mhead ELSE led.pushed) THEN Goto("branch") ELSE End
       \/ ~op.merged /\ MustKeep /\ End /\ UNCHANGED led
       \/ ~op.merged /\ ~MustKeep /\ pr.st # "open" /\ Goto("branch") /\ UNCHANGED led
       \/ /\ ~op.merged /\ ~MustKeep /\ pr.st = "open"
          /\ IF pr.head \notin {led.pushed, led.intent} \/ led.closing THEN End /\ UNCHANGED led
             ELSE Save([led EXCEPT !.closing = TRUE]) /\ Goto("close")
    /\ UNCHANGED <<lhead, main, subm, done, started>> /\ Quiet

CloseWrite ==
    /\ In("clean", "close")
    /\ Send([k |-> "close", head |-> 0, lease |-> 0])
    /\ Goto("closed?")
    /\ UNCHANGED <<lhead, rb, pr, main, led, subm, done, made, lostf, early, bounds>>

\* [agend-daemon/src/forge/github/cleanup.rs:108-131] cleanup: closing is confirmed by reading
CloseConfirm ==
    /\ In("clean", "closed?")
    /\ IF pr.st = "closed" THEN Goto("branch") ELSE End
    /\ UNCHANGED <<lhead, main, led, subm, done, started>> /\ Quiet

\* [agend-daemon/src/forge/github/cleanup.rs:132-154] cleanup: the branch
CleanupBranch ==
    /\ In("clean", "branch")
    /\ \/ rb = 0 /\ Save([led EXCEPT !.complete = TRUE]) /\ End
       \/ /\ rb # 0
          /\ IF led.deleting \/ (led.intent # 0 /\ led.intent # rb) THEN End /\ UNCHANGED led
             ELSE IF led.intent = rb
             THEN Save([led EXCEPT !.pushed = rb, !.intent = 0]) /\ UNCHANGED op
             ELSE IF led.pushed # rb THEN End /\ UNCHANGED led
             ELSE Save([led EXCEPT !.deleting = TRUE]) /\ op' = [op EXCEPT !.pc = "delete", !.head = rb]
    /\ UNCHANGED <<lhead, main, subm, done, started>> /\ Quiet

DeleteWrite ==
    /\ In("clean", "delete")
    /\ Send([k |-> "delete", head |-> 0, lease |-> op.head])
    /\ Goto("deleted?")
    /\ UNCHANGED <<lhead, rb, pr, main, led, subm, done, made, lostf, early, bounds>>

\* [agend-daemon/src/forge/github/cleanup.rs:155-183] cleanup: deleting is confirmed by reading
DeleteConfirm ==
    /\ In("clean", "deleted?")
    /\ IF rb = 0 THEN Save([led EXCEPT !.complete = TRUE]) ELSE UNCHANGED led
    /\ End
    /\ UNCHANGED <<lhead, main, subm, done, started>> /\ Quiet

-----------------------------------------------------------------------------

\* The daemon dies, or a read fails: what was sent stays on its way.
Die == op # NoOp /\ End /\ UNCHANGED <<lhead, main, led, subm, done, started>> /\ Quiet

OpStep == PushIntent \/ PushWrite \/ PushConfirm \/ PullLookup \/ PullCreate \/ PullConfirm
             \/ MergeClaim \/ MergeWrite \/ MergeConfirm \/ CleanupPull \/ CloseWrite
             \/ CloseConfirm \/ CleanupBranch \/ DeleteWrite \/ DeleteConfirm

Next ==
    \/ Submit \/ (\E h \in subm : MergeStart(h) \/ FindMerge(h))
    \/ \E m \in BOOLEAN : CleanupStart(m)
    \/ OpStep \/ Die \/ Commit \/ HumanActs \/ \E w \in net : Effect(w)

Spec == Init /\ [][Next]_vars

-----------------------------------------------------------------------------

\* Types.
TypeOK ==
    /\ lhead \in Heads /\ rb \in Heads \cup {0, Foreign}
    /\ pr.st \in {"none", "open", "closed", "merged"} /\ subm \subseteq Heads
    /\ led.pushed \in Heads \cup {0} /\ led.intent \in Heads \cup {0}
    /\ op.k \in {"none", "submit", "merge", "clean"}

\* Every save the forge makes is one the ledger accepts.
LedgerFollows == led'.rev # led.rev /\ led.rev # 0 => Follows(led', [led EXCEPT !.rev = led'.rev])

\* A write that is still on its way to GitHub is in the ledger, whenever the
\* daemon dies: no restart can issue it a second time.
WriteAhead ==
    \A w \in net :
        CASE w.k = "push"   -> led.intent = w.head \/ led.pushed = w.head
          [] w.k = "create" -> led.created
          [] w.k = "merge"  -> led.mhead = w.head
          [] w.k = "close"  -> led.closing
          [] OTHER          -> led.deleting

\* Nobody else's commits on the branch are overwritten or deleted.
ForeignKept == ~lostf

\* The daemon opens one pull request for a task, even when the reply is lost.
OnePull == made <= 1

\* What the daemon merges is the approved head, and it had been submitted.
MergedWasApproved == pr.by = "daemon" => pr.mh = led.mhead /\ pr.mh \in subm

\* A merge that is reported to the engine is on GitHub at exactly that head.
ReportIsTrue == \A h \in done : pr.st = "merged" /\ pr.mh = h

\* The branch is not deleted under the daemon's pull request unless somebody
\* reopened it, nor while a merge may
\* still take effect.
BranchKept ==
    /\ ~early
    /\ (\E w \in net : w.k = "delete") => ~\E w \in net : w.k = "merge" /\ pr.st = "open"

=============================================================================
