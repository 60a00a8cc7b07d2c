# AgEnD: a TLA+ verification project

AgEnD is a daemon that runs several coding agents on one repository. It gives
each agent a task and a git worktree, moves the task through the stages of a
workflow (work, submit, checks, review, merge), delivers messages between the
agents and the operator, supervises the agent processes and merges what was
tested and approved. This directory holds TLA+ modules of its parts, the TLC
runs that check them on small instances and the TLAPS proofs of what holds for
every instance. `PROJECT.json` maps each definition to the lines of the source
it stands for, and lists the runs, the mutants, the hazards, the findings and
the theorems.

Paths below are relative to `src/crates/`.

Contents

1. Inventory: the parts of the system
2. The modules
3. The runs
4. The proofs
5. Findings
6. Abstractions, and what is not modelled
7. Plan

## 1. Inventory

### Parts, their state and how they interact

| part | state | what is hard | what makes it correct | module |
| --- | --- | --- | --- | --- |
| **pipeline state machine** `agend-core/src/pipeline/state.rs`, `stage.rs`, `policy/merge_gate.rs` | one `PipelineState` per task: stage, attempts, approvals, passed checks, fan-out children, pending head changes | results that are late, repeated or out of order; head changes at any moment, also while a merge is in flight; long histories of rework | no merge without every check and approval for that head; no stage that can never be completed; every state can be stored and restored | `PipelineStep`, `Pipeline` |
| **workflow validation** `pipeline/workflow.rs` and the witness in `state.rs` | none | the rules have to exclude every workflow that could get stuck | accepted workflows can always be completed | `Workflow`, `Completability` |
| **pipeline engine** `agend-daemon/src/pipeline.rs`, `pipeline/*.rs` | rows in SQLite (snapshot, status, note, bindings, merge intent, asks, reminders); in memory running checks, timers, the input channel | a crash between storing a state and doing what it asks for; inputs queued before the state they speak about changed; an input that fails half way | whatever a running task waits for is under way (but finding 2); nothing is done twice; answers reach their agents once | `Engine`, `NeedsYou` |
| **task dispatch, assignment** `pipeline/lifecycle.rs`, `reconcile.rs`, `terminal.rs`, `bindings.rs`, `agend-core/src/policy/assign.rs` | assignment and binding rows, tickets, binding files | tasks compete for agents; each assignment is several writes | an agent holds one task and was told it; nobody reviews himself | `Dispatch`, `AssignPolicy` |
| **local forge** `forge/local.rs`, `git.rs` | the git repository, shared with agents and operator; the merge intent | main, branch and checkout change between two git commands; a crash between intent, ref update and report | one merge, of the head that was vetted, onto the main it was vetted on | `Engine` |
| **GitHub forge** `forge/github/*` | remote pull requests, a ledger in SQLite | writes that take effect late, or whose reply is lost; people act on the same pull request | as above, and nothing of other people is overwritten | `GithubForge` |
| **message delivery, Claude** `claude_bridge.rs`, `store/claude.rs`, `store/messages.rs`, `agend/src/claude/*`, `driver/claude/*` | messages, deliveries, hook log; a spool directory | short-lived helpers die holding content; hooks come late, twice, out of order | content reaches Claude at most once; what is recorded of it is true | `ClaudeDelivery`, `ClaudeStartup` |
| **codex driver** `driver/codex/*` and the fake server of the test kit | rows, the server's history and queue | RPCs that take effect and lose their answer; reconnects | as above; the fake obeys the protocol it stands for | `CodexLink`, `CodexServer`, `FakeCodex` |
| **OpenCode driver** `driver/opencode/*`, `store/opencode*.rs` | rows, permissions, sessions on the server | cancelled workers that still run; the operator answers as well | one post, one answer, one session | `OpenCode` |
| **supervisor** `supervisor.rs`, `runtime.rs`, `boot.rs` | instance rows, restart history, links | daemon, holder and agent die independently | one agent, never launched fresh again; restarts within the budget | `Supervisor` |
| **backend versions** `backend_versions/*`, `supervisor/backend_switch.rs`, `agend/src/backend/*` | switch records, registry rows, imported versions and reports | files replaced while copied or probed; a switch interrupted in any phase | what runs is what was tested; a switch ends or is rolled back | `BackendSwitch`, `BackendAdmission`, `BackendWatch` |
| **holder** `agend-holder` and the daemon's `runtime/*` | the lock, pid file and socket; PTY, screen, one client, one writer | outlives the daemon; late and refused starts; takeovers | one holder per name; a whole stream; one writer; exit told once | `HolderProcess`, `HolderServer` |
| **terminal hub** `terminal_hub/*`, `runtime/terminal.rs` | an actor per instance, its queue, owner of control | clients, link and switch interrupt it between two awaits | one controller; no job lost; no orphaned grant | `TerminalHub` |
| **daemon life cycle, service** `daemon.rs`, `preflight.rs`, `reaper.rs`, `agend/src/service/*` | database lock, socket, pinned executable; receipt, unit, label | two starts at once; restart in place; killed installs | one daemon per home, of one image; what is installed can be found and removed | `DaemonLife`, `Service` |
| **store** `store.rs`, `store/*` | `agend.db`, build file, journal, backups | several processes of several versions, killed between two system calls | the file is the database its stores wrote | `StoreFile` |
| **housekeeping, logs** `housekeeping.rs`, `log.rs`, `store/retention.rs` | tables, dated files | rotation against appends, clock corrections | nothing deleted that is still needed | `Housekeeping`, `CivilDate` |
| **notifier, pairing** `notifier/*`, `store/telegram*.rs`, `agend/src/telegram/*` | outbox of parts, inbound ledger, pairing record | unknown outcomes of sends; repeated presses; stale notices | one effect per notice, of what the human saw | `Telegram`, `Pairing` |
| **server, handlers, fleet view, client library, CLI, TUI** `server.rs`, `handlers/*`, `fleet.rs`, `agend-client`, `agend/src/cli/*`, `agend-tui` | the view, its event log, connections, the terminal view | reconnects, lag, restart between request and reply | clients follow exactly; a command's exit code is true; keys go only where they are wanted | `ClientFleet`, `Commands`, `TuiTerminal` |
| **shim** `agend-shim` | binding file, hooks | arbitrary git calls against release and rebind | an agent writes only its own task's refs and trees | `GitShim` |
| **fake daemon, client contract** `agend-testkit` | one state, forwarders | threads per subscription | what the clients are tested against keeps the contract | `FakeDaemon`, `ClientContract` |
| screen classifier, setup texts, attention/busy/debounce/conflict policies, task record | small values | text recognition and boundaries | - | not modelled |

The engine sits in the middle. Commands of agents and of the operator come in
through server and handlers; results of checks, expired timers and forge polls
come in through the same channel. For each it calls `step` of the pure core,
stores the new snapshot in one SQLite transaction and then carries out the
returned actions one after the other: it binds a worktree, queues a dispatch
for delivery, spawns a check, starts a timer, calls the forge. The results of
those come back as further inputs. The drivers deliver the dispatches to the
agents, which run in holder processes that outlive the daemon; the supervisor
starts and restarts them. The git repository is shared state that the daemon
does not lock. After a restart the engine rebuilds everything it held in memory
from the rows: `boot` restores each snapshot and carries out
`outstanding_actions`.

### Hard behaviours

`PROJECT.json` lists forty hazards, each at its line, with the property that
covers it. In groups: head changes against approvals and checks, in particular
during a merge; a crash between any two of snapshot, actions, intent, move of
main, report and release; late inputs of earlier attempts; the repository
changing between two git commands; waiting for something that is not under
way; replies that are lost although the request took effect; processes that
outlive those that started them; files replaced between reading and use;
requests repeated by a client that reconnects.

## 2. The modules

```
Workflow <- PipelineStep <- Pipeline <- MCPipeline -> Completability
                 ^             ^ (instance, refinement)
                 '----------- Engine

PipelineStep <- PipelineStepProofs <- PipelineRecordProofs <- PipelineRecoveryProofs
Pipeline, PipelineRecoveryProofs <- PipelineProofs
Engine,   PipelineRecoveryProofs <- EngineProofs <- EngineTheorems

AgentSuite    ClaudeDelivery ClaudeStartup CodexLink(CodexServer) OpenCode
              FakeCodex => CodexServer   HolderServer HolderProcess TerminalHub TuiTerminal
HostSuite     Supervisor BackendSwitch BackendAdmission BackendWatch DaemonLife
              Service StoreFile Housekeeping CivilDate GitShim GithubForge
ControlSuite  Dispatch AssignPolicy(MCAssignPolicy) NeedsYou Telegram Pairing
              ClientFleet Commands FakeDaemon(ClientContract)
```

A comment `\* [path:first-last] symbol` above a definition names the code it
translates. `PROJECT.json` "map" lists the definitions with their lines, and names
each line once: a helper whose lines the definition that uses it already names has no
entry of its own. Operators
whose comment starts with "Mutant" are wrong versions of the definition that
follows them (a dropped guard, a missing reset, a swapped order); put in its
place they make TLC report a property violated.

### The core

**`Workflow`** is what a workflow is: a sequence of stage records and the switch
`allow_unreviewed`. Stages are numbered from 1; 0 stands for "none".
`StaticRules` is the conjunction of the checks of `Workflow::validate`; the four
built-in workflows are here too.

**`PipelineStep`** is the pure state machine: one operator per helper of
`state.rs`, with its name. A helper takes the workflow and a working copy of
`PipelineState` and returns the changed copy. An `Err` of the code is the status
`"refused"` of the copy, which the caller drops. `actions` is what the helpers
append to; nothing depends on its order, so it is a set. Branch and change id
are set or not set; of a work product only its kind matters.

**`Pipeline`** is one task and its environment: `wf` its workflow, `st` its
`PipelineState`, `issued` every action returned so far, `disturbances` the bound.
One action per `PipelineEvent`. The environment answers any request it was
ever handed, at any time, any number of times, so late, duplicated and
reordered results are all behaviours; `CheckIdentity` decides which count.

**`Completability`** is the second half of `Workflow::validate`: the scripts of
`completability_witness` and the assertions made after each of their turns.

**`Engine`** is the daemon loop, the local forge and the repository for one task:

| variable | stands for | lost by a crash |
| --- | --- | --- |
| `row` | the rows of the task: snapshot, status, attention note, merge intent, bindings | no |
| `proc` | what the loop is doing, events it posted to itself, running checks, timers | yes |
| `repo` | main as the sequence of what was put there, the branch, the commits with patch-id and base, whether the checkout is dirty, the archive | no |
| `proof` | history: heads a check passed on, heads approved | no |
| `mishaps`, `issued`, `disturbances` | the bound of the model, and the variables of `Pipeline` (without its bound) | |

`proc.served` is FALSE from a boot until what that boot posted is worked off: requests of
others come after it, since the socket is bound when the boot is complete.

An input is taken only when the loop is free and is handled in steps between
which the daemon may die and the repository may change: commands, checks and
timers (`CreateTask`, `Done`, `Review`, `CancelTask`, `Block`, `Unblock`, `Retry`,
`CheckResult`, `TimerFires`, `QueuedEvent`), `HandleEvent` and `PerformActions` for
`event_detail` and `commit_transition`, `PrepareMerge` and `Rebase`, the five steps
of `merge_if_head_is` (`ForgeLooks`, `RecordIntent`, `RecheckRefs`, `MoveMain`,
`ReportMerge`), `Cleanup`, `Boot`; and what others do to the repository
(`AgentCommits`, `AgentResets`, `MainMoves`, `CheckoutDirtied`, `CheckoutCleaned`).
`StateMachineObeyed` relates the levels: under `st <- row.st`, `wf <- Flow` every
behaviour of `Engine` is one of `Pipeline`.

### Around an agent (`AgentSuite`)

* **`ClaudeDelivery`**: the messages and deliveries of one Claude instance. A row is
  claimed and reserved before its content leaves the daemon; the channel helper
  (`ChannelPoll` ...) or the Stop hook carries it; hooks and ACKs lie in the spool until
  a commit. A hook whose live request comes while the instance is not running is
  stored but not applied (the ghost `refused`), so `IdleRoutesAreIdle` is about
  applied hooks.
* **`ClaudeStartup`**: the menus of Claude's start, the key that is reserved before it is
  written, and what is left of it by a crash.
* **`CodexLink`**: the workers of the codex thread: reconcile rows with history and queue,
  then flush; every RPC may be lost or lose its answer. There is one worker, or, in the
  part `CodexPair`, a second one that a cancelled switch connects beside the first
  (`Beside`, finding 5). They run against
  **`CodexServer`**, what the link may rely on, with compactions (`Compact`) in which an
  accepted message is swallowed (finding 12). **`FakeCodex`** is the test kit's server in
  full (its handlers are functions of the state, under its one lock), and
  `IsCodexServer` shows that it implements `CodexServer`, compactions and restarts included.
* **`OpenCode`**: workers of successive starts, of which cancelled
  ones still run (`CancelSwitch` waits for nobody), the permissions that worker and
  operator both answer, and the session.
* **`HolderProcess`**: lock, pid, socket and links of the holders of one instance; a probe
  of the lock is one step, which `PidTellsTruth` justifies. **`HolderServer`**: one
  holder inside; a write to the PTY is two steps, everything else one hold of its lock.
* **`TerminalHub`**: hub, actor, channel and holder's control for one instance;
  **`TuiTerminal`**: the TUI's view against a daemon that answers, restarts its holder, or
  gives the control to somebody else.

### The host (`HostSuite`)

* **`Supervisor`**: the event loop for one instance name; `start` in its steps, deaths
  and crashes between any two. `OneAgent` excepts the window before a pid is
  stored, which the source accepts.
* **`BackendSwitch`**: the switch's phases with its chain of awaits;
  **`BackendAdmission`**: import, canary, report and launch; **`BackendWatch`**: the two
  monitors with their rows, notices and acknowledgements.
* **`DaemonLife`**: two daemon processes of one home with boot order, signals, restart
  in place and inherited holders; **`Service`**: install and uninstall, two at once.
* **`StoreFile`**: `agend.db` as inodes with names, several processes of several versions;
  opening a leftover, locking it and removing its name are three steps (`LeftOpen`,
  `LeftLock`, `LeftRemove`).
* **`Housekeeping`**: pruning, rotation and deletion against delivery, holders, the clock
  and shims that open and append between the rotation's look, rename and dating;
  **`CivilDate`**: the arithmetic of the dates in file names, against a calendar that is
  turned day by day.
* **`GitShim`**: classification, routes, hooks and the git that follows, against release
  and rebinding by the daemon; a call is a record, the calls are in `HostSuite`.
* **`GithubForge`**: push, pull request, merge and cleanup with the ledger; a remote
  write takes effect at once, later or never, whatever the reply.

### What operator and agents work through (`ControlSuite`)

* **`Dispatch`**: assign, bind, dispatch, release, hand over and close for several tasks,
  one write per step; **`AssignPolicy`**: `choose`, `take_over` and
  `creates_wait_cycle`, by `MCAssignPolicy` over every request and pool of a size.
* **`NeedsYou`**: asks, answers and their outbox, reminders, failed tasks and the
  needs-you list, with removals of instances beside the actor. The claim of a message,
  its hand-over to the driver (`HandOver`) and the stored receipt (`Advance`) are three
  steps, and the daemon may die between any two.
* **`Telegram`**: outbox of parts, receipts, inbound ledger; **`Pairing`**: the pairing
  record, its proofs, and the change of `config.toml` against an editor that saves at any
  moment, also between apply's last look and its rename.
* **`ClientFleet`**: the fleet view, its log and events, and clients that follow and ask;
  **`Commands`**: a command from its first connection to its exit code.
* **`FakeDaemon`** with **`ClientContract`**: the test kit's daemon, and the cases of the
  contract asked in every state it can be in.

### The suites

The components named above share no state that both change, or share it through
an interface each of them models from its side (`Dispatch` and `Engine` the
bindings, `TerminalHub` and `HolderServer` the control). They are checked side by
side: a suite has the variables of all its components and one variable `part`; a
behaviour is that of a single part, and the variables of the others stay 0. A part
is a component with values for its constants; a component is several parts where
one choice of values does not reach everything its properties are about. A group
such as `HolderSafe` is the conjunction, over its parts, of the invariants of
their modules; the comment of each group says one by one what they mean.
`...Steps` is the same for action properties, `...GoesOn` for liveness.

## 3. The runs

`tlc -config <cfg> <module>` in this directory.

| run | cfg, module | properties |
| --- | --- | --- |
| `pipeline` | `Pipeline.cfg`, `MCPipeline` | `TypeOK`, `Restorable`, `RecoveryAsksAgain`, `MergeGateHolds`, `MergeAnswerAccepted`, `NoDeadEnd`, `PickStands`, `HeadChangeNeverAdvances`, `InvalidationRestarts` |
| `pipeline_ends` | `PipelineEnds.cfg`, `MCPipeline` | `EventuallyEnds` |
| `engine` | `Engine.cfg`, `Engine` | `TypeOK`, `MergedWasVetted`, `Attended`, `TimerArmed`, `MergedOnce`, `OutcomeMatchesMain`, `StateMachineObeyed`, `EventuallyClosed` |
| `agent` | `Agent.cfg`, `AgentSuite` | `ClaudeSafe`, `DriversSafe`, `HolderSafe`, `TerminalSafe`, `AgentSteps`, `IsCodexServer` |
| `agent_live` | `AgentLive.cfg`, `AgentSuite` | `AgentGoesOn` |
| `host_daemon` | `HostDaemon.cfg`, `HostSuite` | `SupervisorSafe`, `BackendSafe`, `DaemonSafe`, `DaemonSteps` |
| `host_files` | `HostFiles.cfg`, `HostSuite` | `StoreSafe`, `FilesSafe`, `WorkSafe`, `FilesSteps` |
| `host_live` | `HostLive.cfg`, `HostSuite` | `HostGoesOn` |
| `control_work` | `ControlWork.cfg`, `ControlSuite` | `DispatchSafe`, `OperatorSafe` |
| `control_clients` | `ControlClients.cfg`, `ControlSuite` | `ClientSafe`, `FakeDaemonSafe` |
| `control_live` | `ControlLive.cfg`, `ControlSuite` | `ControlGoesOn`, `AnswersArrive` |
| `needs_you_removed` | `NeedsYouRemoved.cfg`, `ControlSuite` | `AnswersArrive` is violated (finding 1) |

What they show:

* **pipeline.** On the built-in workflows, five custom ones and every valid one of
  three stages, with two disturbances of any kind and any order of answers:
  whenever a merge is asked for or a task is done, every check passed on the head
  in question and every head-bound approval is for that head and its patch; both
  answers of the forge are accepted; a stored snapshot is one that `restore`
  accepts, and after a restart exactly the open request and timer are asked for
  again; no sequence of events leads to a stage that nothing can complete; a pick
  stands for the children that exist; a head change never moves a task forward,
  and one that takes effect within a stage invalidates its attempt. Two assumptions
  of `MCPipeline` are evaluated as well: its workflows pass validation as a whole,
  and among those that pass the static rules the witness rejects exactly the ones
  with a head-bound pick followed by another fan-out.
* **pipeline_ends.** With answers every task ends.
* **engine.** With two mishaps anywhere: a head that the daemon puts on main had a
  check passed on it, was made on the main it is merged into, and has an approved
  patch; the daemon merges once, and what the row says of the outcome is what
  happened on main; when the loop is free a running task waits for something
  that is under way or shown, unless its merge was forgotten (finding 2); timeouts are
  armed; `Engine` implements `Pipeline`; and the task is closed and its binding released
  at last, again but for a merge forgotten.
* **agent, host_daemon, host_files, control_work, control_clients** check the safety
  of the components; the comments of the groups in the suites list each promise. Where
  the code breaks a promise in a case we know (section 5), the case happens in the run,
  and the property and its comment name it as the exception with the finding's number:
  everything outside that case is checked, and without the exception TLC reports the
  finding.
  Among the promises: a message is not given twice to an agent, whatever reply is lost; a
  row that says confirmed is about a message the agent acknowledged; one writer and
  one controller of a terminal; a stream without gaps; one agent per instance; a
  switch never cuts an input off; a launched backend is the tested one; the database
  file is never replaced by another process's build; nothing is deleted that is still
  needed; agents write only their own refs; no GitHub write is repeated or lost to the
  ledger; an agent holds one task; an answer reaches the ask that the human read; a
  client shows the daemon's view exactly, but for teams changed since it was read
  (finding 7); exit codes are true.
* **agent_live, host_live, control_live** check that what these components wait for comes
  about, under the fairness below; not for an OpenCode instance left without a worker
  (finding 6), nor for a command that writes a line over the limit for ever (finding 14).

### Bounds, and why they are enough

* `MaxDisturbances = 2` (1 for liveness). One disturbance reaches every rework and
  restart; two reach a disturbance during the rework of another, a head change
  pending in a merge together with its failure, a changed pick, a repeated fan-out.
* Two heads and two patches: a head is the current one or another, a patch is the
  approved one or another. Two reviewers: a count of two with a vote missing. Two
  children: a winner and a sibling. All four sets are symmetric; liveness runs
  without symmetry.
* `MaxMishaps = 2` of `Engine` counts crashes, unasked commits and resets, moves of main,
  failed checks, rejected reviews, expired timers, blocks, cancellations and
  conflicting rebases. `MaxSoiled = 1` counts the dirty checkouts, on their own: so a merge
  may be refused for the checkout, the branch move and a timer fire, which is how
  finding 2 comes about. `Heads` is 1 + 2 `MaxMishaps`: every mishap makes at most two
  further commits, so a new head always exists and the bound stops no behaviour. `Patches`
  has the empty patch (what git says of a head that main
  contains) and one other.
* In the suites every part names its constants in the suite's `INSTANCE`. They are
  chosen per part so that what the properties are about happens: one or two crashes
  or lost replies (`MaxCrash`, `MaxFault`, `MaxMishaps`), two clients, processes or
  instances where two can meet, two or three messages where their order matters, and
  counters (attempts, generations, boots) bounded by the operations that raise them.
  Where a single choice would be too large, faults, orders and peers are separate
  parts of one component. The bounds let each finding happen in the part whose property
  names it: `CodexPair` has two workers (and, for its size, one message and no broken
  connections), `FakeCodexRefines` and `FakeCodexRestart` compactions, `StoreLinks` and
  `StoreRename` three inodes, so that a leftover's name may pass to a new build,
  `StoreUpgrade` two migrations to fail between, `FakeTerminal` two subscriptions
  of the terminal per connection, `FakeEvents` a restart of the fake daemon, and `CliLive`
  messages below, above and far above the line limit, the last written by a command that
  does not stop.

`CHECK_DEADLOCK FALSE` is set where bounded behaviours really stop: in the suites,
whose parts end when their operations are used up, and in `engine`, whose repository
and mishaps are used up.

### Fairness

`Pipeline!FairSpec` has weak fairness of `Progress`: whoever was asked (agent, reviewer,
check runner, forge) answers at last. Disturbances need no fairness and are finite
by the bound.

`Engine!FairSpec` assumes that handlers go on step by step (weak fairness of `Working`,
written as `[]<>Free \/ []<><<Working>>_vars`: nothing is said of where they get to) and
that a daemon that died is started again, that an input in the channel is taken at last
(strong fairness of the input actions, since the loop is busy now and then; the channel
is a queue), and that the agent commits and reports, a reviewer answers, a check ends,
and the operator unblocks, cleans the checkout and retries. The code guarantees the first two by its loop and the
service manager; the others are people and programs, without whom no task can end.
No fairness is assumed of timers, cancellations or crashes.

The suites have weak fairness of single steps, listed in `Goes` of each suite: event
loops, link and worker threads, timers that were set, and the boot of a daemon that
died. Of people and programs outside the daemon it assumes what is needed for anything
to end: an agent ends its turns and reports on the task it was given (`Report` of
`Dispatch`), Codex shows what it accepted, a driver drains what was queued for it, a
process of the command line runs, and the operator cancels a switch of OpenCode that he
prepared and tries a removal again that he began. Time passes: timers fire and deadlines
expire. Nothing is assumed of crashes, deaths, kills, faults or replies; a reply
timeout of a client needs no fairness because the daemon's answer or the loss of the
connection is itself a step of those threads. `[]<>(part = "X" => ...)` restricts a
liveness property to the behaviours of its part.

## 4. The proofs

`tlapm <module>.tla` checks each; `PipelineProofs` and `EngineTheorems` reach the others.

| module | theorems | statement |
| --- | --- | --- |
| `PipelineStepProofs` | lemmas | every operator of `PipelineStep` keeps `StepInv` |
| `PipelineRecordProofs` | lemmas | ... keeps `Orderly` |
| `PipelineRecoveryProofs` | lemmas | ... hands out what the attempt it opens waits for |
| `PipelineProofs` | `Invariance` | `Spec => []Inv` |
| | `TypeCorrect`, `MergeGateTheorem`, `MergeAnswerTheorem` | `[]TypeOK`, `[]MergeGateHolds`, `[]MergeAnswerAccepted` |
| | `OrderlyInvariance` | `Spec => [](Inv /\ Orderly(wf, st))` |
| | `HeadChangeTheorem`, `InvalidationTheorem` | the action properties `HeadChangeNeverAdvances`, `InvalidationRestarts` |
| | `PickTheorem`, `RestorableTheorem` | from `PicksInReach`: `[]PickStands`, `[]Restorable` |
| | `AskingInvariance` | `Spec => []Asking(wf, issued, st)` |
| | `RecoveryTheorem` | `[]RecoveryAsksAgain` |
| `EngineProofs` | `EngineInvariance`, `EngineTypes` | `Spec => []Core`, `[]TypeOK` |
| `EngineTheorems` | `RefinementTheorem` | `Spec => StateMachineObeyed`: `Engine` implements `Pipeline` |
| | `OnceInvariance` | `Spec => [](Core /\ Once)` |
| | `MergedOnceTheorem`, `OutcomeTheorem` | `[]MergedOnce`, `[]OutcomeMatchesMain` |
| | `VetInvariance` | `Spec => [](Core /\ Once /\ Vet)` |
| | `MergedWasVettedTheorem` | `[]MergedWasVetted` (D14) |

**Assumptions.** The theorems about `Pipeline` hold for every set of workflows that
satisfy the static rules, whatever their length, every set of heads, patches and
children, every finite set of reviewers, and with any bound on disturbances or
none. Those about `Engine` hold for every workflow that `task create` accepts
(`FlowAssumption`), any number of mishaps, and any sets of heads and patches. The
assumptions are the named ASSUMEs of `PipelineStep`, `Pipeline` and `Engine`; each is
evaluated by a run. Two theorems have a hypothesis of their own, `PicksInReach`: no
workflow has a head-bound pick followed by another fan-out. `Workflow::validate`
rejects exactly those by its completability witness, which the static rules do not
contain; the assumption `WitnessRejects` of `MCPipeline` compares the two on every
workflow of three stages.

### The state machine

**`Inv`: what lies behind the task.** `MergeGateHolds` speaks about the moment of the
merge only; it does not say why the records are complete when the last stage before
the merge is passed. `Inv` is `TypeOK` with `StepInv`, which says it for every stage:

* `Records`: every approval record is of an approval stage, has the reviewers
  it needs and, if head-bound, is for the current head and its patch;
* `Covered`: at stage i every command before i has passed on the current head,
  every approval before i is satisfied and, after branch work, there is a head;
* `Settled`: head-bound approvals exist only when all work is behind the task.
  This is what makes a new branch product safe: it changes head and patch
  without voiding approvals of the same head, and no approval can be there;
* `Position`: which stages the status allows, and `Covered` and `Settled` there.

`MayEnter` is the part of it that a helper needs before it enters a stage:
`EnterStageStepInv` shows that from `MayEnter(w, s, i)` the state after
`EnterStage(w, s, i)` satisfies `StepInv`, with a merge gate that is open when the
stage is a merge. Each helper that goes back (`ReturnToWork`, `RecheckForNewHead`,
`KeepApprovals`, `MainAdvanced`) establishes `MayEnter` for its target; here the
static rules come in (no branch work after a head-bound stage, merge last). The
changes pending in a merge are drained by a recursive function of their number:
`DrainedRecursion` shows that the recursion has a solution, `DrainedStepInv` that no
position in the queue is the least one that breaks the invariant.

**`Orderly`: the stage the task is at.** The open stage has been started and has no
record yet. So the loop of `enter_stage`, which passes stages that have their record,
cannot pass it: a head change never advances. And whoever voids what an attempt has
collected starts the next attempt of that stage, so the answers still out are stale.
Records are one per stage and have the stage's number of reviewers, which is what
`restore` checks. `Fanned` follows children and winner: they belong to the last fan-out
behind the task, and every way back past the pick or the fan-out forgets them. With
`PicksInReach` that is `PickStands`, and together with the counts `Restorable`.

**`Asking`: what was handed out.** `Heard` says that nothing was asked of an attempt yet
to come, `Waits` that what was asked of the open attempt is its one request and its
one timer. The request is a function of head, children and stage; every result of
`step()` either starts a new attempt and asks for it (`Anew`) or leaves alone what the
request depends on (`Alike`). `OutstandingExpected` shows that `outstanding_actions`
computes the same request from the stored fields, which is `RecoveryAsksAgain`.

### The engine

**`Core`.** Beyond types: the stored snapshot satisfies the three invariants above
(`Machine`); the status shown is the snapshot's (`StatusSound`); there is a branch from
the first commit to the close (`BranchSound`); every event, in the queue or in hand,
tells of a head that exists, with its patch or, once on main, the empty patch
(`EventsSound`); running checks were asked for (`ChecksSound`); and what the loop is in
the middle of fits the row: it merges the current head of a task that is merging and
cleans up after a closed one (`DoingSound`). Each action is shown to be an instance of
a frame (`Takes`, `GoesOn`, `Ends`, `AsksAgain`, `Drops`, `Performs`, `Given`,
`Elsewhere`), and each frame to keep `Core`. No part of it looks at who caused a
change, so crashes and foreign moves of main need no argument of their own.

**The refinement.** Only `event_detail` touches the snapshot (`OnlyEventsTell`). An
event it accepts carries the ticket of the open attempt, and by `Asking` the request or
timer of that ticket was issued, so the step is the action of `Pipeline` that answers
it; a head that is observed on the way is `CommitCreated` or `MainAdvanced`. A crash, a
reboot, a retry, a refused input leave `row.st` alone. An instance has copies of all
operators: `SameOperators` shows that they are those of `PipelineStep`, for the
recursive ones by the uniqueness of the recursion.

**`Once`: one merge.** A move of main cannot be undone and is reported only after it
was made, so the same merge may be attempted again after a crash or a retry. Four
facts exclude two merges and a wrong report: at most one answer is in the queue, and only while the merge is in flight
(`QueueSound`); nothing merges, or may be retried, while an answer is under way
(`HandSound`); the forge gets past its look only when main does not contain the head,
and moves main only if main is still what it looked at (`ForgeSound`); once the daemon
has merged, the merge is in flight or done and no failure is reported (`MergedSound`).
`MergedOnce` and `OutcomeMatchesMain` follow.

The argument needs the order of inputs. A retry that overtook an answer already in the
channel would break it; the channel is first in, first out, and an operator can see
the note only after the answer was posted. `proc.served` models that: it is FALSE from
boot until the queue of boot was worked off, and while there are events of the boot no
command is taken (`Serving`): the commands come through a server that starts after the
pipeline booted.

**`Vet`: D14.** `SnapshotVouched`: the head the snapshot names goes with its patch (or
with the empty one, once on main), a recorded check did pass on the head it names, and
if there is a head-bound approval some approved commit has the patch of the current
head. It is kept because every event is attested: verdicts are never posted by the
engine itself, and one that comes in was given, for the head of its ticket
(`VerdictsSound`). `BaseSound`: the forge goes on only with a head made on the main it
looked at. At the move `ForgeSound` excludes that main contains the head, so the patch
the snapshot names is the real one and not the empty one; the merge gate (`StepInv`)
gives the check and the approval; and `MainVetted` holds of the new entry.

### Only model-checked

* Liveness (`EventuallyEnds`, `EventuallyClosed`, `AgentGoesOn`, `HostGoesOn`,
  `ControlGoesOn`, `AnswersArrive`) and `NoDeadEnd`, which is about ENABLED: out of the
  prover's reach.
* The completability witness: a recursive script, whose value for every workflow would
  need induction over workflows.
* `Attended` and `TimerArmed` of `Engine`: they relate what runs in memory to the row for
  every kind of stage, and need an assumption on the number of reviewers per stage.
* The suites: their properties are checked on the parts named there.


## 5. Findings

Found while modelling. The first has a run of its own that shows it. Of the others, those
that a checked property would deny are exceptions of that property, which happen in its
run; each was confirmed by taking the exception out, whereupon TLC finds the case.
3, 4 and 8 are denied by no checked property: 4 is what the model does (the problem is
shown), 3 and 8 break the definition named there, which says in its comment that it
does not hold.

1. **An answer to a removed instance blocks all answers** (run `needs_you_removed`).
   `deliver_answers` (`agend-daemon/src/pipeline/commands.rs:704`) ends at the first
   answer it cannot deliver. An instance may be removed while its ask is open; an
   answer given then stays at the head of the outbox, later answers are not sent, and
   the next boot fails (`reconcile.rs:50`, `daemon.rs:369`).
2. **A blocked merge can lose its attention item** (`pipeline.rs:511`; the document's
   word, `pipeline-runtime.md:51`, is `Engine!BlockedMergeShown`, which does not hold
   either). A head that `event_detail` observes is stored before the event itself is
   looked at, and every stored transition clears the note that offers the
   retry, also when the event is then refused. Nothing asks for the merge again.
   `MergeForgotten` is this state: the exception of `Attended` and `EventuallyClosed`.
3. **A commit made during the merge is deleted** (`Engine!LateCommitKept`,
   `bindings/archive.rs:68`). The archive keeps the commits of a branch only of a task
   that was not merged; the agent is bound until the release.
4. **A switch stays Restoring although the old version is back**
   (`store/backend_switch.rs:346`): the row must be Running, which a resuming start
   does not set.
5. **Two workers may send one codex row** (`supervisor/backend_switch.rs:163`): cancelling
   a switch starts a connect beside one that is still catching up. Exception of
   `AtMostOnce` and `StatesAreTrue` of `CodexLink`: the rows that were queued while
   two workers were connected.
6. **Cancelling a switch can leave OpenCode without a worker**
   (`supervisor/backend_switch.rs:157`), when the cancelled one is still in a request.
   Exception of `QueuedIsTried` (`unserved`).
7. **`team add` publishes no event** (`fleet.rs:116`), so a client keeps the teams it read
   first. Exception of `FollowsExactly` and `CaughtUp` (`untold`): the teams changed since
   the client's view was made, and nothing else.
8. **A removed instance can come back into the view** (`ClientFleet!RemovedStaysOut`,
   `pipeline/attention.rs:197`): the refresh shows copies it made before the removal.
9. **An unfinished database can be published** (`store.rs:832`): the leftover's name is
   removed without comparing it with the file that was locked. Exception of
   `PublishedIsWhole` (`stolen`): a file whose name was taken away like that.
10. **A second upgrade attempt replaces the snapshot of the original version**
    (`store/snapshot.rs:250`). Exception of `DowngradeIsPossible`: an upgrade whose
    snapshot was written over (`claim.again`).
11. **An audit line can be deleted on the day it is written** (`housekeeping.rs:243`): the
    date is read before the rename. Exception of `AuditKept` (`late`): a line appended
    between the look and the dating.
12. **The fake codex server loses a message accepted during a compaction**
    (`agend-testkit/src/fake_agent/codex.rs:1303`). Exception of `AcceptedShows`, in
    `FakeCodexRefines` and `FakeCodexRestart`.
13. **The fake daemon sends chunks of a replaced subscription**
    (`agend-testkit/src/fake_daemon.rs:1035`), and **answers an old connection from a new
    boot** (`fake_daemon.rs:929`). Exceptions of `ScreenFollows` (`replaced`) and `OneBoot`
    (`across`).
14. **A line longer than the limit is sent for ever** (`agend-client/src/connection.rs:366`):
    the daemon answers and closes while the client still writes. Exception of
    `CommandsEnd` (`WritesForEver`).

## 6. Abstractions, and what is not modelled

*Pipeline.* Task ids, texts, names and clocks; a timer may expire at any time after
it was armed.

*Engine.* One task, the local forge, reviewers that are agents of a role; workflows
without fan-out and reassignment, which `task create` refuses; an assignment finds a
holder; git fails only for what the repository holds, not for transient reasons (the
hazard at `pipeline.rs:490` has no property for that reason); the decision between
rebase and merge, the rebase and the cleanup are one step each; `find_merge` is what
it computes: main contains the head. Inputs that others send may overtake each other,
events the engine posts to itself keep their order. In `NeedsYou` the driver's link is
external: it sends a row it was handed once (`Given`), however often it is handed over,
which is what the modules of the drivers show. `HandedOnce` excepts a row that expired
while it was still owed (`lapsed`): housekeeping runs before the pipeline boots
(`daemon.rs:308`), so a crash between hand-over and receipt followed by thirty days
down hands an answer over twice.

*Dispatch.* Roles for work and review are disjoint, or there is one task; the daemon
never calls `creates_wait_cycle`; that a driver drains is external.

*Drivers.* Read-only queries; paging of histories; how a hook's JSON is read.

*Host.* A crash between a holder's launch and its stored pid (`OneAgent`); pids are not
reused; the effect of fsync and power loss; SQLite's own behaviour, except locks,
journals and WAL as stated in `StoreFile`; the content of unit files; a user who edits
files while a command of the service runs; the moment between a check of an executable
and its exec, in `DaemonLife` and `BackendAdmission`; an executable is replaced by
rename; holders that time out during housekeeping. A killed import leaves a version
directory without a record: it refuses a new import and is never admitted. In
`BackendWatch` attempts are counted modulo three and a source has one check at a time.

*Shim.* `gh`, the kill guard, team remotes, argument parsing and the audit log; edits
between the snapshot and exec; the window between the removal of hooks and of the
worktree; a `--work-tree` named from a repository that is not ours.

*GitHub.* A push that takes effect very late could recreate the branch; a cleanup
without a created pull request deletes the branch even under somebody else's pull
request. Neither is counted against `ForeignKept`.

*Telegram, pairing.* Team summaries, wording. A crash between `claim_action` and its
end leaves a notice unusable, by design. `EditsKept` excepts what a human saves by a
rename between apply's last look and its own rename (`overtaken`), a window that no
program can close with these calls.

*Clients.* Version negotiation, `mark_read`, teams, the staged JSON decoder; screens and
keys of the TUI; a restart republishes as an empty log with a higher base. In
`FakeDaemon` a connection has one event subscription and the full-terminal part is left
out. In `Commands`, `ExitIsTrue` excepts a message that is sent again after the daemon
died and that is then refused because its instance was removed in between; the second
connection of a restart reaches another boot.

Parts with status `not_modelled` in `PROJECT.json` are text recognition, encoding,
presentation and I/O.

## 7. Plan

Done: the core (`Workflow` to `Engine`) with proofs, and the components of the three
suites.

Left: in `Engine` transient git failures and human approvals; a finer grain of the
cleanup; an abstract forge that the local and the GitHub forge both implement.
Theorems to add: `Attended` and `TimerArmed` of `Engine`, and the invariants of the parts.
