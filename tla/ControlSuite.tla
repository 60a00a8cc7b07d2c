---------------------------- MODULE ControlSuite ----------------------------
(***************************************************************************)
(* What the operator and the agents work through, checked side by side:    *)
(* who gets which task, what waits for the operator, the notices of        *)
(* Telegram and their pairing, the fleet that a client follows, the        *)
(* commands of the CLI, and the fake daemon that the clients are tested    *)
(* with and its contract.                                                  *)
(* A behaviour is one of a single part, a component with its constants     *)
(* (part), and the variables of the other components stay 0. A component   *)
(* occurs as several parts where one choice of constants does not reach    *)
(* everything that its properties are about; the parts named Live are      *)
(* checked under fairness.                                                 *)
(***************************************************************************)
EXTENDS Integers, Sequences, FiniteSets, TLC

CONSTANT Parts   \* the parts that a run checks

VARIABLES
    part,      \* the part whose behaviour this is
    dispatchTask, bind, msg, inst, wake, eng, heard, dispatchCrashes, flips, faults,
    req, cands, edges,
    needsUp, pc, needsRows, answers, delivered, needsMsgs, needsInsts, leaving, needsTask,
    rem, armed, woken, needs, seen, got, lapsed, meant, needsCrashes, removes,
    telegramAtt, telegramRows, notice, led, upds, proc, sent, twice, fx, changes,
    telegramCrashes,
    clock, rec, pairingMsgs, ops, lock, conf, file, ino, bak, ap, fd, edits, overtaken,
    asked, fleetUp, serving, boot, events, latest, log, teams, fleetInsts, tasks, fleetAtt, known,
    copies, raises, taken, cl, rq, lines, replies, execs,
    daemonState, connections, queues, db, cli, commandsDid, used,
    fake, conn, peer, restarting, fakeDaemonDid

\* Two developers and a reviewer; a planner, a developer and two who approve.
CodeRole == 1 :> "dev" @@ 2 :> "dev" @@ 3 :> "rev"
CodeBackend == 1 :> "codex" @@ 2 :> "claude" @@ 3 :> "codex"
CodeStages == <<[k |-> "work", role |-> "dev", count |-> 0], [k |-> "review", role |-> "rev", count |-> 1]>>
PlanRole == 1 :> "plan" @@ 2 :> "dev" @@ 3 :> "dev" @@ 4 :> "dev"
PlanBackend == 1 :> "codex" @@ 2 :> "claude" @@ 3 :> "codex" @@ 4 :> "claude"
PlanStages == <<[k |-> "work", role |-> "plan", count |-> 0], [k |-> "work", role |-> "dev", count |-> 0],
                [k |-> "review", role |-> "dev", count |-> 2]>>

-----------------------------------------------------------------------------
\* Two tasks for two developers and a reviewer; a task of two work stages with two
\* reviews.
DispatchCode == INSTANCE Dispatch WITH
    Tasks <- {1, 2}, Role <- CodeRole, Backend <- CodeBackend, Stages <- CodeStages,
    MaxAttempts <- 2, MaxCrash <- 1, MaxFlips <- 0, MaxFaults <- 0, task <- dispatchTask,
    crashes <- dispatchCrashes
DispatchPlan == INSTANCE Dispatch WITH
    Tasks <- {1}, Role <- PlanRole, Backend <- PlanBackend, Stages <- PlanStages,
    MaxAttempts <- 2, MaxCrash <- 1, MaxFlips <- 1, MaxFaults <- 1, task <- dispatchTask,
    crashes <- dispatchCrashes
DispatchCodeLive == INSTANCE Dispatch WITH
    Tasks <- {1, 2}, Role <- CodeRole, Backend <- CodeBackend, Stages <- CodeStages,
    MaxAttempts <- 1, MaxCrash <- 1, MaxFlips <- 0, MaxFaults <- 0, task <- dispatchTask,
    crashes <- dispatchCrashes
DispatchPlanLive == INSTANCE Dispatch WITH
    Tasks <- {1}, Role <- PlanRole, Backend <- PlanBackend, Stages <- PlanStages,
    MaxAttempts <- 1, MaxCrash <- 1, MaxFlips <- 1, MaxFaults <- 0, task <- dispatchTask,
    crashes <- dispatchCrashes

varsDispatch == <<dispatchTask, bind, msg, inst, wake, eng, heard, dispatchCrashes, flips,
    faults>>

InitDispatch ==
    IF part \in {"DispatchCode", "DispatchPlan", "DispatchCodeLive", "DispatchPlanLive"}
    THEN \/ part = "DispatchCode" /\ DispatchCode!Init
         \/ part = "DispatchPlan" /\ DispatchPlan!Init
         \/ part = "DispatchCodeLive" /\ DispatchCodeLive!Init
         \/ part = "DispatchPlanLive" /\ DispatchPlanLive!Init
    ELSE dispatchTask = 0 /\ bind = 0 /\ msg = 0 /\ inst = 0 /\ wake = 0 /\ eng = 0
         /\ heard = 0 /\ dispatchCrashes = 0 /\ flips = 0 /\ faults = 0

NextDispatch ==
    \/ part = "DispatchCode" /\ DispatchCode!Next
    \/ part = "DispatchPlan" /\ DispatchPlan!Next
    \/ part = "DispatchCodeLive" /\ DispatchCodeLive!Next
    \/ part = "DispatchPlanLive" /\ DispatchPlanLive!Next

-----------------------------------------------------------------------------
\* Every request over three candidates of two teams and two backends.
Assign == INSTANCE MCAssignPolicy WITH
    Teams <- {"red", "blue"}, Backends <- {"claude", "codex"}, MaxEdges <- 4

varsAssign == <<req, cands, edges>>

InitAssign ==
    IF part \in {"Assign"}
    THEN Assign!Init
    ELSE req = 0 /\ cands = 0 /\ edges = 0

NextAssign ==
    \/ part = "Assign" /\ Assign!Next

-----------------------------------------------------------------------------
\* Two questions while an instance is removed and added back; one question and
\* reminders; liveness of both.
NeedsAnswers == INSTANCE NeedsYou WITH
    Worker <- "a", Others <- {"b"}, Inbox <- {"b"}, Asks <- {"k1", "k2"},
    Removing <- TRUE, MaxTurns <- 2, MaxRem <- 0, MaxCrash <- 1, MaxRemove <- 1, up <- needsUp, rows <- needsRows,
    msgs <- needsMsgs, insts <- needsInsts, task <- needsTask, crashes <- needsCrashes
NeedsOnce == INSTANCE NeedsYou WITH
    Worker <- "a", Others <- {"b"}, Inbox <- {"b"}, Asks <- {"k1"},
    Removing <- FALSE, MaxTurns <- 3, MaxRem <- 1, MaxCrash <- 1, MaxRemove <- 1, up <- needsUp, rows <- needsRows,
    msgs <- needsMsgs, insts <- needsInsts, task <- needsTask, crashes <- needsCrashes
NeedsLive == INSTANCE NeedsYou WITH
    Worker <- "a", Others <- {"b"}, Inbox <- {"b"}, Asks <- {"k1"},
    Removing <- FALSE, MaxTurns <- 2, MaxRem <- 1, MaxCrash <- 1, MaxRemove <- 1, up <- needsUp, rows <- needsRows,
    msgs <- needsMsgs, insts <- needsInsts, task <- needsTask, crashes <- needsCrashes
NeedsRemovedLive == INSTANCE NeedsYou WITH
    Worker <- "a", Others <- {"b"}, Inbox <- {"b"}, Asks <- {"k1", "k2"},
    Removing <- TRUE, MaxTurns <- 2, MaxRem <- 0, MaxCrash <- 1, MaxRemove <- 1, up <- needsUp, rows <- needsRows,
    msgs <- needsMsgs, insts <- needsInsts, task <- needsTask, crashes <- needsCrashes

varsNeeds == <<needsUp, pc, needsRows, answers, delivered, needsMsgs, needsInsts, leaving,
    needsTask, rem, armed, woken, needs, seen, got, lapsed, meant, needsCrashes, removes>>

InitNeeds ==
    IF part \in {"NeedsAnswers", "NeedsOnce", "NeedsLive", "NeedsRemovedLive"}
    THEN \/ part = "NeedsAnswers" /\ NeedsAnswers!Init
         \/ part = "NeedsOnce" /\ NeedsOnce!Init
         \/ part = "NeedsLive" /\ NeedsLive!Init
         \/ part = "NeedsRemovedLive" /\ NeedsRemovedLive!Init
    ELSE needsUp = 0 /\ pc = 0 /\ needsRows = 0 /\ answers = 0 /\ delivered = 0
         /\ needsMsgs = 0 /\ needsInsts = 0 /\ leaving = 0 /\ needsTask = 0 /\ rem = 0
         /\ armed = 0 /\ woken = 0 /\ needs = 0 /\ seen = 0 /\ got = 0 /\ lapsed = 0
         /\ meant = 0
         /\ needsCrashes = 0 /\ removes = 0

NextNeeds ==
    \/ part = "NeedsAnswers" /\ NeedsAnswers!Next
    \/ part = "NeedsOnce" /\ NeedsOnce!Next
    \/ part = "NeedsLive" /\ NeedsLive!Next
    \/ part = "NeedsRemovedLive" /\ NeedsRemovedLive!Next

-----------------------------------------------------------------------------
\* A notice of two parts with two updates; an item that changes; liveness.
Notices == INSTANCE Telegram WITH
    Contents <- {1}, Parts <- 2, Kinds <- {"act", "reply"}, MaxChanges <- 2,
    MaxUpdates <- 2, MaxCrashes <- 1, MaxRows <- 2, att <- telegramAtt,
    rows <- telegramRows, crashes <- telegramCrashes
NoticesStale == INSTANCE Telegram WITH
    Contents <- {1, 2}, Parts <- 2, Kinds <- {"act", "reply"}, MaxChanges <- 2,
    MaxUpdates <- 1, MaxCrashes <- 1, MaxRows <- 2, att <- telegramAtt,
    rows <- telegramRows, crashes <- telegramCrashes
NoticesLive == INSTANCE Telegram WITH
    Contents <- {1}, Parts <- 1, Kinds <- {"reply", "read", "reason"}, MaxChanges <- 1,
    MaxUpdates <- 1, MaxCrashes <- 1, MaxRows <- 3, att <- telegramAtt,
    rows <- telegramRows, crashes <- telegramCrashes

varsTelegram == <<telegramAtt, telegramRows, notice, led, upds, proc, sent, twice, fx,
    changes, telegramCrashes>>

InitTelegram ==
    IF part \in {"Notices", "NoticesStale", "NoticesLive"}
    THEN \/ part = "Notices" /\ Notices!Init
         \/ part = "NoticesStale" /\ NoticesStale!Init
         \/ part = "NoticesLive" /\ NoticesLive!Init
    ELSE telegramAtt = 0 /\ telegramRows = 0 /\ notice = 0 /\ led = 0 /\ upds = 0
         /\ proc = 0 /\ sent = 0 /\ twice = 0 /\ fx = 0 /\ changes = 0
         /\ telegramCrashes = 0

NextTelegram ==
    \/ part = "Notices" /\ Notices!Next
    \/ part = "NoticesStale" /\ NoticesStale!Next
    \/ part = "NoticesLive" /\ NoticesLive!Next

-----------------------------------------------------------------------------
\* Two chats and two operators' commands; the edit of config.toml.
PairingProof == INSTANCE Pairing WITH
    Chats <- {"a", "b"}, Clients <- {"x", "y"}, Window <- 2, MaxTime <- 2, MaxIds <- 2,
    MaxMsgs <- 2, MaxOps <- 3, MaxEdits <- 0, msgs <- pairingMsgs
PairingApply == INSTANCE Pairing WITH
    Chats <- {"a"}, Clients <- {"x"}, Window <- 1, MaxTime <- 1, MaxIds <- 2, MaxMsgs <- 2,
    MaxOps <- 4, MaxEdits <- 2, msgs <- pairingMsgs

varsPairing == <<clock, rec, pairingMsgs, ops, lock, conf, file, ino, bak, ap, fd, edits,
    overtaken, asked>>

InitPairing ==
    IF part \in {"PairingProof", "PairingApply"}
    THEN \/ part = "PairingProof" /\ PairingProof!Init
         \/ part = "PairingApply" /\ PairingApply!Init
    ELSE clock = 0 /\ rec = 0 /\ pairingMsgs = 0 /\ ops = 0 /\ lock = 0 /\ conf = 0
         /\ file = 0 /\ ino = 0 /\ bak = 0 /\ ap = 0 /\ fd = 0 /\ edits = 0 /\ overtaken = 0
         /\ asked = 0

NextPairing ==
    \/ part = "PairingProof" /\ PairingProof!Next
    \/ part = "PairingApply" /\ PairingApply!Next

-----------------------------------------------------------------------------
\* One client over two boots of the daemon; two clients' requests; requests over
\* restarts; liveness.
Fleet == INSTANCE ClientFleet WITH
    Clients <- {"c"}, Insts <- {"i"}, Notes <- {}, Tasks <- {"t"}, Retained <- 2,
    PipeCap <- 1, MaxEvents <- 3, MaxBoots <- 1, MaxRequests <- 0, up <- fleetUp,
    insts <- fleetInsts, att <- fleetAtt
FleetRequests == INSTANCE ClientFleet WITH
    Clients <- {"c1", "c2"}, Insts <- {"i"}, Notes <- {}, Tasks <- {}, Retained <- 2,
    PipeCap <- 2, MaxEvents <- 2, MaxBoots <- 1, MaxRequests <- 1, up <- fleetUp,
    insts <- fleetInsts, att <- fleetAtt
FleetRestart == INSTANCE ClientFleet WITH
    Clients <- {"c"}, Insts <- {"i"}, Notes <- {}, Tasks <- {}, Retained <- 3, PipeCap <- 2,
    MaxEvents <- 2, MaxBoots <- 2, MaxRequests <- 2, up <- fleetUp, insts <- fleetInsts,
    att <- fleetAtt
FleetLive == INSTANCE ClientFleet WITH
    Clients <- {"c"}, Insts <- {"i"}, Notes <- {"p"}, Tasks <- {}, Retained <- 1,
    PipeCap <- 1, MaxEvents <- 1, MaxBoots <- 2, MaxRequests <- 1, up <- fleetUp,
    insts <- fleetInsts, att <- fleetAtt

varsFleet == <<fleetUp, serving, boot, events, latest, log, teams, fleetInsts, tasks,
    fleetAtt, known, copies, raises, taken, cl, rq, lines, replies, execs>>

InitFleet ==
    IF part \in {"Fleet", "FleetRequests", "FleetRestart", "FleetLive"}
    THEN \/ part = "Fleet" /\ Fleet!Init
         \/ part = "FleetRequests" /\ FleetRequests!Init
         \/ part = "FleetRestart" /\ FleetRestart!Init
         \/ part = "FleetLive" /\ FleetLive!Init
    ELSE fleetUp = 0 /\ serving = 0 /\ boot = 0 /\ events = 0 /\ latest = 0 /\ log = 0
         /\ teams = 0 /\ fleetInsts = 0 /\ tasks = 0 /\ fleetAtt = 0 /\ known = 0
         /\ copies = 0 /\ raises = 0 /\ taken = 0 /\ cl = 0 /\ rq = 0 /\ lines = 0
         /\ replies = 0 /\ execs = 0

NextFleet ==
    \/ part = "Fleet" /\ Fleet!Next
    \/ part = "FleetRequests" /\ FleetRequests!Next
    \/ part = "FleetRestart" /\ FleetRestart!Next
    \/ part = "FleetLive" /\ FleetLive!Next

-----------------------------------------------------------------------------
\* Commands of an agent and of an operator over a death of the daemon; killed clients
\* and old daemons; liveness.
Cli == INSTANCE Commands WITH
    Procs <- {"p1", "p2"}, Kinds <- {"send", "done", "add", "restart", "once"},
    Sizes <- {"small"}, Agents <- {"p1"}, FirstVersions <- {2}, MaxBoot <- 2,
    MaxSignals <- 1, MaxCrashes <- 1, MaxKills <- 0, d <- daemonState, c <- connections,
    q <- queues, did <- commandsDid
CliFaults == INSTANCE Commands WITH
    Procs <- {"p1", "p2"}, Kinds <- {"remove", "restart", "apply"},
    Sizes <- {"small"}, Agents <- {}, FirstVersions <- {1, 2}, MaxBoot <- 2,
    MaxSignals <- 1, MaxCrashes <- 0, MaxKills <- 1, d <- daemonState, c <- connections,
    q <- queues, did <- commandsDid
CliLive == INSTANCE Commands WITH
    Procs <- {"p1", "p2"}, Kinds <- {"send", "restart", "block", "apply"},
    Sizes <- {"small", "over", "huge"}, Agents <- {"p1"}, FirstVersions <- {2}, MaxBoot <- 2,
    MaxSignals <- 1, MaxCrashes <- 0, MaxKills <- 0, d <- daemonState, c <- connections,
    q <- queues, did <- commandsDid

varsCommands == <<daemonState, connections, queues, db, cli, commandsDid, used>>

InitCommands ==
    IF part \in {"Cli", "CliFaults", "CliLive"}
    THEN \/ part = "Cli" /\ Cli!Init
         \/ part = "CliFaults" /\ CliFaults!Init
         \/ part = "CliLive" /\ CliLive!Init
    ELSE daemonState = 0 /\ connections = 0 /\ queues = 0 /\ db = 0 /\ cli = 0
         /\ commandsDid = 0 /\ used = 0

NextCommands ==
    \/ part = "Cli" /\ Cli!Next
    \/ part = "CliFaults" /\ CliFaults!Next
    \/ part = "CliLive" /\ CliLive!Next

-----------------------------------------------------------------------------
\* Events of two connections over a restart; the view of a fleet; terminals; the
\* contract of the clients.
FakeEvents == INSTANCE FakeDaemon WITH
    Conns <- {"c1", "c2"}, Names <- {"a"}, Codex <- {}, Retained <- 1, Chunks <- 1,
    Kinds <- {"subscribe", "operator", "restart"}, Callers <- {""}, MaxTerm <- 1,
    MaxReq <- 2, MaxEvents <- 2, MaxOut <- 0, MaxBoot <- 2, s <- fake, did <- fakeDaemonDid
FakeView == INSTANCE FakeDaemon WITH
    Conns <- {"c1"}, Names <- {"a"}, Codex <- {}, Retained <- 2, Chunks <- 1,
    Kinds <- {"fleet", "subscribe", "resolve", "operator", "agent"}, Callers <- {"", "a"},
    MaxTerm <- 1, MaxReq <- 2, MaxEvents <- 3, MaxOut <- 0, MaxBoot <- 1, s <- fake,
    did <- fakeDaemonDid
FakeTerminal == INSTANCE FakeDaemon WITH
    Conns <- {"c1", "c2"}, Names <- {"a", "b"}, Codex <- {}, Retained <- 2, Chunks <- 1,
    Kinds <- {"terminal"}, Callers <- {""}, MaxTerm <- 2, MaxReq <- 3, MaxEvents <- 1,
    MaxOut <- 2, MaxBoot <- 1, s <- fake, did <- fakeDaemonDid
Contract == INSTANCE ClientContract WITH
    Conns <- {"c1", "c2"}, Names <- {"a", "b", "f", "n"}, Codex <- {}, Retained <- 2,
    Chunks <- 1, Kinds <- {"send", "agent", "result", "answer", "type"}, Callers <- {"a"},
    MaxTerm <- 1, MaxReq <- 2, MaxEvents <- 1, MaxOut <- 1, MaxBoot <- 1, First <- "a",
    Peer <- "b", Stopped <- "f", New <- "n", s <- fake, did <- fakeDaemonDid

varsFakeDaemon == <<fake, conn, peer, restarting, fakeDaemonDid>>

InitFakeDaemon ==
    IF part \in {"FakeEvents", "FakeView", "FakeTerminal", "Contract"}
    THEN \/ part = "FakeEvents" /\ FakeEvents!Init
         \/ part = "FakeView" /\ FakeView!Init
         \/ part = "FakeTerminal" /\ FakeTerminal!Init
         \/ part = "Contract" /\ Contract!Init
    ELSE fake = 0 /\ conn = 0 /\ peer = 0 /\ restarting = 0 /\ fakeDaemonDid = 0

NextFakeDaemon ==
    \/ part = "FakeEvents" /\ FakeEvents!Next
    \/ part = "FakeView" /\ FakeView!Next
    \/ part = "FakeTerminal" /\ FakeTerminal!Next
    \/ part = "Contract" /\ Contract!Next

-----------------------------------------------------------------------------
vars == <<part, varsDispatch, varsAssign, varsNeeds, varsTelegram, varsPairing, varsFleet,
    varsCommands, varsFakeDaemon>>

Init ==
    /\ part \in Parts
    /\ InitDispatch
    /\ InitAssign
    /\ InitNeeds
    /\ InitTelegram
    /\ InitPairing
    /\ InitFleet
    /\ InitCommands
    /\ InitFakeDaemon

Next ==
    \/ /\ NextDispatch
       /\ UNCHANGED <<part, varsAssign, varsNeeds, varsTelegram, varsPairing, varsFleet,
             varsCommands, varsFakeDaemon>>
    \/ /\ NextAssign
       /\ UNCHANGED <<part, varsDispatch, varsNeeds, varsTelegram, varsPairing, varsFleet,
             varsCommands, varsFakeDaemon>>
    \/ /\ NextNeeds
       /\ UNCHANGED <<part, varsDispatch, varsAssign, varsTelegram, varsPairing, varsFleet,
             varsCommands, varsFakeDaemon>>
    \/ /\ NextTelegram
       /\ UNCHANGED <<part, varsDispatch, varsAssign, varsNeeds, varsPairing, varsFleet,
             varsCommands, varsFakeDaemon>>
    \/ /\ NextPairing
       /\ UNCHANGED <<part, varsDispatch, varsAssign, varsNeeds, varsTelegram, varsFleet,
             varsCommands, varsFakeDaemon>>
    \/ /\ NextFleet
       /\ UNCHANGED <<part, varsDispatch, varsAssign, varsNeeds, varsTelegram, varsPairing,
             varsCommands, varsFakeDaemon>>
    \/ /\ NextCommands
       /\ UNCHANGED <<part, varsDispatch, varsAssign, varsNeeds, varsTelegram, varsPairing,
             varsFleet, varsFakeDaemon>>
    \/ /\ NextFakeDaemon
       /\ UNCHANGED <<part, varsDispatch, varsAssign, varsNeeds, varsTelegram, varsPairing,
             varsFleet, varsCommands>>

Spec == Init /\ [][Next]_vars

\* The variables of the part that runs.
moving ==
    CASE part = "DispatchCodeLive" -> varsDispatch
      [] part = "DispatchPlanLive" -> varsDispatch
      [] part = "NeedsLive" -> varsNeeds
      [] part = "NeedsRemovedLive" -> varsNeeds
      [] part = "NoticesLive" -> varsTelegram
      [] part = "FleetLive" -> varsFleet
      [] part = "CliLive" -> varsCommands

\* What the daemon and its clients do by themselves: the engine and its drivers run,
\* agents end their work, the service manager starts the daemon again, timers fire,
\* clients reconnect and read, the two tasks of Telegram run. Of the agents it is assumed
\* that they report what they were given to do (Report), of the processes of the CLI that
\* they run, whoever started them. Nothing is assumed of deaths, faults and humans.
Goes(n) ==
    \/ /\ part = "DispatchCodeLive" /\ part' = part
       /\ \/ n = 1 /\ DispatchCodeLive!EngineStep
          \/ n = 2 /\ \E i \in DispatchCodeLive!Insts : DispatchCodeLive!Report(i, 1, TRUE)
          \/ n = 3 /\ \E i \in DispatchCodeLive!Insts : DispatchCodeLive!Report(i, 2, TRUE)
          \/ n = 4 /\ DispatchCodeLive!Start(1)
          \/ n = 5 /\ DispatchCodeLive!Start(2)
          \/ n = 6 /\ DispatchCodeLive!Start(3)
          \/ n = 7 /\ \E m \in msg : m.to = 1 /\ DispatchCodeLive!DriverDrains(m)
          \/ n = 8 /\ \E m \in msg : m.to = 2 /\ DispatchCodeLive!DriverDrains(m)
          \/ n = 9 /\ \E m \in msg : m.to = 3 /\ DispatchCodeLive!DriverDrains(m)
    \/ /\ part = "DispatchPlanLive" /\ part' = part
       /\ \/ n = 1 /\ DispatchPlanLive!EngineStep
          \/ n = 2 /\ \E i \in DispatchPlanLive!Insts : DispatchPlanLive!Report(i, 1, TRUE)
          \/ n = 3 /\ DispatchPlanLive!Start(1)
          \/ n = 4 /\ DispatchPlanLive!Start(2)
          \/ n = 5 /\ DispatchPlanLive!Start(3)
          \/ n = 6 /\ DispatchPlanLive!Start(4)
          \/ n = 7 /\ \E m \in msg : m.to = 1 /\ DispatchPlanLive!DriverDrains(m)
          \/ n = 8 /\ \E m \in msg : m.to = 2 /\ DispatchPlanLive!DriverDrains(m)
          \/ n = 9 /\ \E m \in msg : m.to = 3 /\ DispatchPlanLive!DriverDrains(m)
          \/ n = 10 /\ \E m \in msg : m.to = 4 /\ DispatchPlanLive!DriverDrains(m)
    \/ /\ part = "NeedsLive" /\ part' = part
       /\ \/ n = 1 /\ NeedsLive!Actor
          \/ n = 2 /\ NeedsLive!Tick(1)
          \/ n = 3 /\ NeedsLive!Fire(1)
    \/ /\ part = "NeedsRemovedLive" /\ part' = part
       /\ n = 1 /\ NeedsRemovedLive!Actor
    \/ /\ part = "NoticesLive" /\ part' = part
       /\ \/ n = 1 /\ (NoticesLive!WorkerStep \/ NoticesLive!SendStep("worker"))
          \/ n = 2 /\ (NoticesLive!PollerStep \/ NoticesLive!SendStep("poller"))
    \/ /\ part = "FleetLive" /\ part' = part
       /\ \/ n = 1 /\ FleetLive!Boot
          \/ n = 2 /\ FleetLive!ServeStep
          \/ n = 3 /\ FleetLive!ClientStep("c")
    \/ /\ part = "CliLive" /\ part' = part
       /\ \/ n = 1 /\ (\/ CliLive!SupervisorWorks \/ CliLive!Execs \/ CliLive!DropQueue \/ CliLive!PipelineWorks \/ CliLive!StopServer \/ CliLive!Leaves)
          \/ n = 2 /\ CliLive!Client("p1")
          \/ n = 3 /\ CliLive!Client("p2")
          \/ n = 4 /\ CliLive!Task("p1")
          \/ n = 5 /\ CliLive!Task("p2")

FairSpec ==
    /\ Spec
    /\ \A n \in 1 .. 10 : WF_moving(Goes(n))

-----------------------------------------------------------------------------
\* What the components assume of their constants.
ASSUME ControlAssumption ==
    /\ DispatchCode!DispatchAssumption
    /\ DispatchPlan!DispatchAssumption
    /\ NeedsAnswers!NeedsYouAssumption
    /\ NeedsOnce!NeedsYouAssumption
    /\ Notices!TelegramAssumption
    /\ NoticesStale!TelegramAssumption
    /\ PairingProof!PairingAssumption
    /\ PairingApply!PairingAssumption
    /\ Cli!CommandsAssumption
    /\ CliFaults!CommandsAssumption
    /\ FakeEvents!FakeDaemonAssumption
    /\ FakeView!FakeDaemonAssumption
    /\ FakeTerminal!FakeDaemonAssumption
    /\ Contract!ContractAssumption

\* Who works on which task: the policy's choices and the bindings and messages that
\* follow from them.
\*   OneTask: An agent holds one task: what is assigned to it and what its binding names
\*     are the same, whatever dies between the steps of an assignment (dispatch).
\*   ToldIsEntitled: An agent that was told the current ticket of a task may report it,
\*     or has done so.
\*   BoundFits: A running task is bound for work only for its holder, and for review
\*     never for its holder.
\*   OneTaskEach: Whoever the policy gives work is in the team, allowed, has usage and
\*     holds nothing else.
\*   ReviewIsIndependent: Nobody reviews his own work, and a reviewer on the author's
\*     backend is taken only when nobody on another one is free.
\*   WorkFollowsUsage: Work leaves its holder exactly when he cannot go on, and at a
\*     usage limit it leaves the backend too.
\*   SpawnFits: An instance is started only within the headcount, on a backend with
\*     quota, and when nobody is free.
\*   NoWaitCycle: A wait is refused exactly when it would close a cycle in its team.
DispatchSafe ==
    /\ part = "DispatchCode" => DispatchCode!TypeOK /\ DispatchCode!OneTask
          /\ DispatchCode!ToldIsEntitled
    /\ part = "DispatchPlan" => DispatchPlan!TypeOK /\ DispatchPlan!ToldIsEntitled
          /\ DispatchPlan!BoundFits
    /\ part = "Assign" => Assign!OneTaskEach /\ Assign!ReviewIsIndependent
          /\ Assign!WorkFollowsUsage /\ Assign!SpawnFits /\ Assign!NoWaitCycle

\* Questions, notices and destinations: what the operator does has the one effect that
\* he meant.
\*   HandedOnce: An answer or a reminder is handed to its agent at most once, and the
\*     answers of one ask in their order, whatever dies between claim, hand-over and
\*     receipt (lifecycle.rs deliver); unless the row expires while the message is still
\*     owed, with the daemon down for thirty days.
\*   AnswerFits: An answer from a notification answers the question that the operator
\*     read there, never a later one of the same thread.
\*   ListIsTrue: Between two inputs the needs-you list is exactly what the store calls
\*     for, also after a boot and after an input that failed half way.
\*   SentOnce: No part of a Telegram notice reaches the human twice, whatever crashes
\*     and lost receipts there are.
\*   UnknownIsShown: A part of a notice that was claimed and is not being sent is marked
\*     unknown, so that no resending hides it.
\*   UsedOnce: A notice and an update of the human each have at most one effect, across
\*     restarts and repeated presses.
\*   EffectWasSeen: An effect is applied to the item that the human saw, in full and
\*     unchanged since.
\*   OneLiveNotice: At most one unfinished notice is current: an older one can send no
\*     more parts.
\*   ConfirmedWasProven: A destination that was confirmed sent this pairing's own code
\*     while it was open.
\*   NoCodeSkipped: The cursor of a pairing has passed no code of it that is not its
\*     candidate's, over crashes and failures.
\*   AppliedWasConfirmed: The destination in config.toml is one that an operator
\*     confirmed.
\*   EditsKept: Every edit that the human saved is still in config.toml or in a backup
\*     of it, but for a file put in place between apply's last look and its rename.
OperatorSafe ==
    /\ part = "NeedsAnswers" => NeedsAnswers!TypeOK /\ NeedsAnswers!AnswerFits
          /\ NeedsAnswers!ListIsTrue
    /\ part = "NeedsOnce" => NeedsOnce!TypeOK /\ NeedsOnce!HandedOnce
    /\ part = "Notices" => Notices!TypeOK /\ Notices!SentOnce /\ Notices!UnknownIsShown
          /\ Notices!UsedOnce
    /\ part = "NoticesStale" => NoticesStale!TypeOK /\ NoticesStale!EffectWasSeen
          /\ NoticesStale!OneLiveNotice
    /\ part = "PairingProof" => PairingProof!TypeOK /\ PairingProof!ConfirmedWasProven
          /\ PairingProof!NoCodeSkipped
    /\ part = "PairingApply" => PairingApply!TypeOK /\ PairingApply!AppliedWasConfirmed
          /\ PairingApply!EditsKept

\* What a client shows and what a command says is what the daemon has and did.
\*   FollowsExactly: What a following client shows, with what is on its way to it, is
\*     the daemon's view: no event is missed, repeated or out of order. Only the teams
\*     may be older, if they were changed after the client's view, for which the daemon
\*     publishes nothing (README, finding 7).
\*   TakenOnce: A needs-you item of an instance is handed to the supervisor at most once
\*     each time it was raised.
\*   NeverTwice: A request that must not be repeated reaches the handlers at most once,
\*     although the client reconnects by itself.
\*   AppliedOnce: However often a command is written again, what it asks for is done at
\*     most once.
\*   ExitIsTrue: What a command exits with is what happened: accepted is done, refused
\*     or never reached is not.
\*   NeverReplayed: A one-shot exchange writes on one connection only, and what was not
\*     written to its end does nothing.
\*   RestartIsFree: A restart can always be asked for: who took the flag is still at its
\*     preflight, or the daemon goes.
\*   BackIsNew: A restart that reports the daemon back talks to another boot than the
\*     one it asked.
ClientSafe ==
    /\ part = "Fleet" => Fleet!TypeOK /\ Fleet!FollowsExactly
    /\ part = "FleetRequests" => FleetRequests!TypeOK /\ FleetRequests!TakenOnce
    /\ part = "FleetRestart" => FleetRestart!TypeOK /\ FleetRestart!NeverTwice
    /\ part = "Cli" => Cli!TypeOK /\ Cli!AppliedOnce /\ Cli!ExitIsTrue /\ Cli!NeverReplayed
          /\ Cli!RestartIsFree /\ Cli!BackIsNew
    /\ part = "CliFaults" => CliFaults!TypeOK /\ CliFaults!AppliedOnce
          /\ CliFaults!ExitIsTrue /\ CliFaults!NeverReplayed /\ CliFaults!RestartIsFree
          /\ CliFaults!BackIsNew

\* The daemon that clients are tested with keeps the contract that they rely on.
\*   EventsInOrder: A subscriber of the fake daemon gets the events one after the other,
\*     and nothing after it was told of a gap.
\*   ReplyFirst: What a request makes happen is told after its reply, to the one who
\*     asked.
\*   ViewFollows: The view that a client fetched of the fake daemon and the events after
\*     it give its view.
\*   ScreenFollows: The screen that a client was sent and the bytes after it are the
\*     terminal's screen, but for chunks of a subscription that was replaced, which the
\*     fake daemon still sends (README, finding 13).
\*   OneBoot: A connection is answered by one boot, but for requests that are handled
\*     between the state of the new boot and the closing of the connections (finding 13).
\*   StreamContract: The events that a client gets are what was emitted, without a hole
\*     it is not told of (contract CLP-3, 4, 5, 7, 8, 9).
\*   RefusalContract: A refused request is refused for the caller and the reason that
\*     the contract names, and changes nothing (CLP-6, 10, 13, 16, 20, 21, 22).
\*   EffectContract: An accepted request shows in the view, its event and the inbox, and
\*     a repeated one does not do it again (CLP-11, 14, 17).
\*   TerminalContract: A terminal subscription begins with the screen, and one that
\*     fails ends the old one (CLP-12, 18, 19).
FakeDaemonSafe ==
    /\ part = "FakeEvents" => FakeEvents!TypeOK /\ FakeEvents!EventsInOrder
          /\ FakeEvents!ReplyFirst /\ FakeEvents!OneBoot
    /\ part = "FakeView" => FakeView!TypeOK /\ FakeView!ViewFollows
    /\ part = "FakeTerminal" => FakeTerminal!TypeOK /\ FakeTerminal!ScreenFollows
    /\ part = "Contract" => Contract!TypeOK /\ Contract!StreamContract
          /\ Contract!RefusalContract /\ Contract!EffectContract
          /\ Contract!TerminalContract

\* No task is forgotten: each one ends, whatever died or stopped on the way.
TasksEnd ==
    []<>(part \in {"DispatchCodeLive", "DispatchPlanLive"} =>
            \A t \in DOMAIN dispatchTask : dispatchTask[t].st # "run")

\* While no instance is removed (NeedsLive), every answer that was stored reaches the agent that
\* asked. With an instance that was removed (NeedsRemovedLive) it does not, which is README,
\* finding 1: the property states what the document says (docs/architecture/pipeline-runtime.md:
\* a restart sends the answers that were not sent).
AnswersArrive ==
    []<>(part \in {"NeedsLive", "NeedsRemovedLive"} =>
            \A j \in DOMAIN answers : answers[j] \in delivered)

\* A reminder whose time has come is handed to the holder of the task, also when the daemon was
\* down at that time, unless nobody holds the task by then.
RemindersArrive ==
    \A r \in NeedsLive!Seqs :
        (part = "NeedsLive" /\ rem[r] = "due")
            ~> (part = "NeedsLive" =>
                   \/ \E j \in DOMAIN needsMsgs : needsMsgs[j].id = <<"remind", "t", r>>
                   \/ needsTask # "running")

\* What was put in Telegram's outbox is delivered, abandoned, or has an unknown outcome that is
\* shown; a crash between enqueueing and claiming strands nothing.
NothingStranded ==
    []<>(part = "NoticesLive" =>
            \A k \in DOMAIN telegramRows :
                LET r == telegramRows[k] IN r.next = r.parts \/ r.ab \/ r.unk)

\* A client ends up showing what the daemon has, once nothing changes, but for teams that were
\* changed after its view (README, finding 7).
Converges == <>[](part = "FleetLive" => FleetLive!CaughtUp("c"))

\* A line over the limit that does not fit the sockets, begun at least twice: a write that fails
\* reconnects and writes again, whatever the daemon said (agend-client/src/connection.rs:366).
WritesForEver(p) == cli[p].kind = "apply" /\ cli[p].size = "huge" /\ cli[p].tries = 2

\* Every command ends with an exit code, but for the one whose line is written for ever (README,
\* finding 14).
CommandsEnd ==
    []<>(part = "CliLive" => \A p \in {"p1", "p2"} : cli[p].pc = "done" \/ WritesForEver(p))

\* Tasks, reminders, notices, clients and commands get to their end.
ControlGoesOn == TasksEnd /\ RemindersArrive /\ NothingStranded /\ Converges /\ CommandsEnd

=============================================================================
