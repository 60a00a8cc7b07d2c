----------------------------- MODULE AgentSuite -----------------------------
(***************************************************************************)
(* What runs around one agent, checked side by side: the delivery to       *)
(* Claude, Codex and OpenCode, the menus of Claude's start, the test kit's *)
(* codex server, the holder that runs the agent, and the clients of its    *)
(* terminal.                                                               *)
(* A behaviour is one of a single part, a component with its constants     *)
(* (part), and the variables of the other components stay 0. A component   *)
(* occurs as several parts where one choice of constants does not reach    *)
(* everything that its properties are about; the parts named Live are      *)
(* checked under fairness.                                                 *)
(***************************************************************************)
EXTENDS Naturals, Sequences, FiniteSets

CONSTANT Parts   \* the parts that a run checks

VARIABLES
    part,      \* the part whose behaviour this is
    claudeRows, inst, bridge, ops, spool, log, refused, seen, att, clock, claudeMishaps,
    row, startupHolder, stable, task, pressed, startupPaused, startupMishaps,
    running, inputs, fresh, compact, history, tqueue, codexCopies, dropped, codexRows, pc,
    first, at, todo, tried, waiting, busy, recheck, drain, blind, paired, breaks, refusals,
    turns,
    sessions, hist, active, pend, openCodeAsks, openCodeAsked, openCodeCopies, replies,
    openCodeHolder, holders, go, status, session, openCodePaused, drained, unserved,
    openCodeRows, perms, grant, wk, started, openCodeOp, openCodeLost, switches,
    st, disk, fakeCodexClient, reqs, fakeCodexKills,
    h, holderServerOut, stream, inq, holderServerClient, reading, deaf, writeq, writing,
    writer, proc, phase, sends,
    hs, lock, pidfile, holderProcessSock, agent, ended, shut, peer, conn, link, proof,
    holderProcessTold, early, stopping, table, holderProcessOp, peek, reserved,
    holderProcessKills, peeks, reported,
    alive, sub, terminalHubTold, actor, terminalHubLost, ch, terminalHubSock, wire, hold,
    blk, sw, ids, terminalHubAsks, stops,
    connected, onTop, failed, win, term, src, tuiOut, box, srv, scopes, faults, tuiAsked

ClaudeLevel(msgs) == [m \in msgs |-> IF m = 1 THEN "queue" ELSE "interrupt"]
CodexLevel(msgs) == [m \in msgs |-> CASE m = 2 -> "Steer" [] m = 4 -> "Interrupt" [] OTHER -> "Queue"]
OpenCodeLevel(msgs) == [m \in msgs |-> IF m = 1 THEN "Queue" ELSE "Interrupt"]

-----------------------------------------------------------------------------
\* Two messages; one over two sessions; the order of many hooks; liveness.
Claude == INSTANCE ClaudeDelivery WITH
    Msgs <- {1, 2}, Level <- ClaudeLevel({1, 2}), HookKinds <- {"UserPromptSubmit", "Stop"},
    MaxHooks <- 1, MaxSessions <- 1, MaxMishaps <- 1, rows <- claudeRows,
    mishaps <- claudeMishaps
ClaudeFaults == INSTANCE ClaudeDelivery WITH
    Msgs <- {2}, Level <- ClaudeLevel({2}), HookKinds <- {"UserPromptSubmit", "Stop"},
    MaxHooks <- 1, MaxSessions <- 2, MaxMishaps <- 2, rows <- claudeRows,
    mishaps <- claudeMishaps
ClaudeHooks == INSTANCE ClaudeDelivery WITH
    Msgs <- {1}, Level <- ClaudeLevel({1}),
    HookKinds <- {"SessionStart", "UserPromptSubmit", "Stop"}, MaxHooks <- 3,
    MaxSessions <- 1, MaxMishaps <- 0, rows <- claudeRows, mishaps <- claudeMishaps
ClaudeLive == INSTANCE ClaudeDelivery WITH
    Msgs <- {2}, Level <- ClaudeLevel({2}),
    HookKinds <- {"UserPromptSubmit", "ToolUse", "Stop"}, MaxHooks <- 1, MaxSessions <- 2,
    MaxMishaps <- 1, rows <- claudeRows, mishaps <- claudeMishaps

varsClaude == <<claudeRows, inst, bridge, ops, spool, log, refused, seen, att, clock,
    claudeMishaps>>

InitClaude ==
    IF part \in {"Claude", "ClaudeFaults", "ClaudeHooks", "ClaudeLive"}
    THEN \/ part = "Claude" /\ Claude!Init
         \/ part = "ClaudeFaults" /\ ClaudeFaults!Init
         \/ part = "ClaudeHooks" /\ ClaudeHooks!Init
         \/ part = "ClaudeLive" /\ ClaudeLive!Init
    ELSE claudeRows = 0 /\ inst = 0 /\ bridge = 0 /\ ops = 0 /\ spool = 0 /\ log = 0
         /\ refused = 0 /\ seen = 0 /\ att = 0 /\ clock = 0 /\ claudeMishaps = 0

NextClaude ==
    \/ part = "Claude" /\ Claude!Next
    \/ part = "ClaudeFaults" /\ ClaudeFaults!Next
    \/ part = "ClaudeHooks" /\ ClaudeHooks!Next
    \/ part = "ClaudeLive" /\ ClaudeLive!Next

-----------------------------------------------------------------------------
\* Both menus over two launches.
Startup == INSTANCE ClaudeStartup WITH
    Menus <- {"trust", "development"}, MaxLaunches <- 2, MaxRevision <- 2, MaxMishaps <- 2,
    holder <- startupHolder, paused <- startupPaused, mishaps <- startupMishaps

varsStartup == <<row, startupHolder, stable, task, pressed, startupPaused, startupMishaps>>

InitStartup ==
    IF part \in {"Startup"}
    THEN Startup!Init
    ELSE row = 0 /\ startupHolder = 0 /\ stable = 0 /\ task = 0 /\ pressed = 0
         /\ startupPaused = 0 /\ startupMishaps = 0

NextStartup ==
    \/ part = "Startup" /\ Startup!Next

-----------------------------------------------------------------------------
\* A steer between two queued messages, with a turn or a compaction of the human; a
\* connection beside one that catches up; a queued message and an interrupt.
Codex == INSTANCE CodexLink WITH
    Messages <- {1, 2, 3}, Level <- CodexLevel({1, 2, 3}), Workers <- {1}, MaxBreaks <- 2,
    MaxRefusals <- 1, MaxTurns <- 1, copies <- codexCopies, rows <- codexRows
CodexPair == INSTANCE CodexLink WITH
    Messages <- {1, 3}, Level <- CodexLevel({1, 3}), Workers <- {1, 2}, MaxBreaks <- 0,
    MaxRefusals <- 1, MaxTurns <- 0, copies <- codexCopies, rows <- codexRows
CodexLive == INSTANCE CodexLink WITH
    Messages <- {3, 4}, Level <- CodexLevel({3, 4}), Workers <- {1}, MaxBreaks <- 1,
    MaxRefusals <- 1, MaxTurns <- 1, copies <- codexCopies, rows <- codexRows

varsCodex == <<running, inputs, fresh, compact, history, tqueue, codexCopies, dropped,
    codexRows, pc, first, at, todo, tried, waiting, busy, recheck, drain, blind, paired,
    breaks, refusals, turns>>

InitCodex ==
    IF part \in {"Codex", "CodexPair", "CodexLive"}
    THEN \/ part = "Codex" /\ Codex!Init
         \/ part = "CodexPair" /\ CodexPair!Init
         \/ part = "CodexLive" /\ CodexLive!Init
    ELSE running = 0 /\ inputs = 0 /\ fresh = 0 /\ compact = 0 /\ history = 0 /\ tqueue = 0
         /\ codexCopies = 0 /\ dropped = 0 /\ codexRows = 0 /\ pc = 0 /\ first = 0 /\ at = 0
         /\ todo = 0 /\ tried = 0 /\ waiting = 0 /\ busy = 0 /\ recheck = 0 /\ drain = 0
         /\ blind = 0 /\ paired = 0 /\ breaks = 0 /\ refusals = 0 /\ turns = 0

NextCodex ==
    \/ part = "Codex" /\ Codex!Next
    \/ part = "CodexPair" /\ CodexPair!Next
    \/ part = "CodexLive" /\ CodexLive!Next

-----------------------------------------------------------------------------
\* Messages over two holders and a backend switch; permission requests; liveness.
OpenCodeSwitch == INSTANCE OpenCode WITH
    Messages <- {1, 2}, Permissions <- {}, Level <- OpenCodeLevel({1, 2}), MaxWorkers <- 2,
    MaxHolders <- 2, MaxLost <- 1, MaxSwitches <- 1, asks <- openCodeAsks,
    asked <- openCodeAsked, copies <- openCodeCopies, holder <- openCodeHolder,
    paused <- openCodePaused, rows <- openCodeRows, op <- openCodeOp, lost <- openCodeLost
OpenCodePermissions == INSTANCE OpenCode WITH
    Messages <- {1}, Permissions <- {11, 12}, Level <- OpenCodeLevel({1}), MaxWorkers <- 2,
    MaxHolders <- 2, MaxLost <- 1, MaxSwitches <- 0, asks <- openCodeAsks,
    asked <- openCodeAsked, copies <- openCodeCopies, holder <- openCodeHolder,
    paused <- openCodePaused, rows <- openCodeRows, op <- openCodeOp, lost <- openCodeLost
OpenCodeLive == INSTANCE OpenCode WITH
    Messages <- {1}, Permissions <- {}, Level <- OpenCodeLevel({1}), MaxWorkers <- 4,
    MaxHolders <- 2, MaxLost <- 0, MaxSwitches <- 1, asks <- openCodeAsks,
    asked <- openCodeAsked, copies <- openCodeCopies, holder <- openCodeHolder,
    paused <- openCodePaused, rows <- openCodeRows, op <- openCodeOp, lost <- openCodeLost

varsOpenCode == <<sessions, hist, active, pend, openCodeAsks, openCodeAsked, openCodeCopies,
    replies, openCodeHolder, holders, go, status, session, openCodePaused, drained,
    unserved, openCodeRows, perms, grant, wk, started, openCodeOp, openCodeLost, switches>>

InitOpenCode ==
    IF part \in {"OpenCodeSwitch", "OpenCodePermissions", "OpenCodeLive"}
    THEN \/ part = "OpenCodeSwitch" /\ OpenCodeSwitch!Init
         \/ part = "OpenCodePermissions" /\ OpenCodePermissions!Init
         \/ part = "OpenCodeLive" /\ OpenCodeLive!Init
    ELSE sessions = 0 /\ hist = 0 /\ active = 0 /\ pend = 0 /\ openCodeAsks = 0
         /\ openCodeAsked = 0 /\ openCodeCopies = 0 /\ replies = 0 /\ openCodeHolder = 0
         /\ holders = 0 /\ go = 0 /\ status = 0 /\ session = 0 /\ openCodePaused = 0
         /\ drained = 0 /\ unserved = 0 /\ openCodeRows = 0 /\ perms = 0 /\ grant = 0 /\ wk = 0
         /\ started = 0 /\ openCodeOp = 0 /\ openCodeLost = 0 /\ switches = 0

NextOpenCode ==
    \/ part = "OpenCodeSwitch" /\ OpenCodeSwitch!Next
    \/ part = "OpenCodePermissions" /\ OpenCodePermissions!Next
    \/ part = "OpenCodeLive" /\ OpenCodeLive!Next

-----------------------------------------------------------------------------
\* Two peers; two messages, one of which asks, and compactions; a killed server.
FakeCodexPeers == INSTANCE FakeCodex WITH
    Conns <- {"c1", "c2"}, Messages <- {1}, Asking <- {1}, Compacting <- FALSE,
    MaxTurns <- 3, MaxReq <- 4, MaxKill <- 0, client <- fakeCodexClient,
    kills <- fakeCodexKills
FakeCodexRefines == INSTANCE FakeCodex WITH
    Conns <- {"c1"}, Messages <- {1, 2}, Asking <- {2}, Compacting <- TRUE, MaxTurns <- 3,
    MaxReq <- 4, MaxKill <- 0, client <- fakeCodexClient, kills <- fakeCodexKills
FakeCodexRestart == INSTANCE FakeCodex WITH
    Conns <- {"c1"}, Messages <- {1}, Asking <- {1}, Compacting <- TRUE, MaxTurns <- 3,
    MaxReq <- 4, MaxKill <- 1, client <- fakeCodexClient, kills <- fakeCodexKills

varsFakeCodex == <<st, disk, fakeCodexClient, reqs, fakeCodexKills>>

InitFakeCodex ==
    IF part \in {"FakeCodexPeers", "FakeCodexRefines", "FakeCodexRestart"}
    THEN \/ part = "FakeCodexPeers" /\ FakeCodexPeers!Init
         \/ part = "FakeCodexRefines" /\ FakeCodexRefines!Init
         \/ part = "FakeCodexRestart" /\ FakeCodexRestart!Init
    ELSE st = 0 /\ disk = 0 /\ fakeCodexClient = 0 /\ reqs = 0 /\ fakeCodexKills = 0

NextFakeCodex ==
    \/ part = "FakeCodexPeers" /\ FakeCodexPeers!Next
    \/ part = "FakeCodexRefines" /\ FakeCodexRefines!Next
    \/ part = "FakeCodexRestart" /\ FakeCodexRestart!Next

-----------------------------------------------------------------------------
\* Control of the terminal; the stream of its screen; the end of the holder.
HolderControl == INSTANCE HolderServer WITH
    Attaches <- {"a", "b"}, Ops <- {"spawn", "acquire", "input", "release", "legacy"},
    LagLimit <- 2, WriteQueue <- 1, MaxConns <- 2, MaxSends <- 3, Ahead <- 1, MaxOut <- 0,
    out <- holderServerOut, client <- holderServerClient
HolderStream == INSTANCE HolderServer WITH
    Attaches <- {"a", "b"},
    Ops <- {"spawn", "snapshot", "daemonkey", "key", "legacyresize", "huge"}, LagLimit <- 2,
    WriteQueue <- 1, MaxConns <- 2, MaxSends <- 2, Ahead <- 1, MaxOut <- 2,
    out <- holderServerOut, client <- holderServerClient
HolderStopLive == INSTANCE HolderServer WITH
    Attaches <- {"a"}, Ops <- {"spawn", "shutdown", "huge"}, LagLimit <- 2, WriteQueue <- 1,
    MaxConns <- 2, MaxSends <- 2, Ahead <- 2, MaxOut <- 1, out <- holderServerOut,
    client <- holderServerClient

varsHolderServer == <<h, holderServerOut, stream, inq, holderServerClient, reading, deaf,
    writeq, writing, writer, proc, phase, sends>>

InitHolderServer ==
    IF part \in {"HolderControl", "HolderStream", "HolderStopLive"}
    THEN \/ part = "HolderControl" /\ HolderControl!Init
         \/ part = "HolderStream" /\ HolderStream!Init
         \/ part = "HolderStopLive" /\ HolderStopLive!Init
    ELSE h = 0 /\ holderServerOut = 0 /\ stream = 0 /\ inq = 0 /\ holderServerClient = 0
         /\ reading = 0 /\ deaf = 0 /\ writeq = 0 /\ writing = 0 /\ writer = 0 /\ proc = 0
         /\ phase = 0 /\ sends = 0

NextHolderServer ==
    \/ part = "HolderControl" /\ HolderControl!Next
    \/ part = "HolderStream" /\ HolderStream!Next
    \/ part = "HolderStopLive" /\ HolderStopLive!Next

-----------------------------------------------------------------------------
\* Two holders of one agent, with two generations of the daemon's link.
HolderPair == INSTANCE HolderProcess WITH
    Holders <- {1, 2}, Gens <- 2, Bindings <- 1, MaxKills <- 1, MaxPeeks <- 0,
    sock <- holderProcessSock, told <- holderProcessTold, op <- holderProcessOp,
    kills <- holderProcessKills
HolderPairLive == INSTANCE HolderProcess WITH
    Holders <- {1, 2}, Gens <- 1, Bindings <- 1, MaxKills <- 1, MaxPeeks <- 0,
    sock <- holderProcessSock, told <- holderProcessTold, op <- holderProcessOp,
    kills <- holderProcessKills

varsHolderProcess == <<hs, lock, pidfile, holderProcessSock, agent, ended, shut, peer, conn,
    link, proof, holderProcessTold, early, stopping, table, holderProcessOp, peek, reserved,
    holderProcessKills, peeks, reported>>

InitHolderProcess ==
    IF part \in {"HolderPair", "HolderPairLive"}
    THEN \/ part = "HolderPair" /\ HolderPair!Init
         \/ part = "HolderPairLive" /\ HolderPairLive!Init
    ELSE hs = 0 /\ lock = 0 /\ pidfile = 0 /\ holderProcessSock = 0 /\ agent = 0
         /\ ended = 0 /\ shut = 0 /\ peer = 0 /\ conn = 0 /\ link = 0 /\ proof = 0
         /\ holderProcessTold = 0 /\ early = 0 /\ stopping = 0 /\ table = 0
         /\ holderProcessOp = 0 /\ peek = 0 /\ reserved = 0 /\ holderProcessKills = 0
         /\ peeks = 0 /\ reported = 0

NextHolderProcess ==
    \/ part = "HolderPair" /\ HolderPair!Next
    \/ part = "HolderPairLive" /\ HolderPairLive!Next

-----------------------------------------------------------------------------
\* Two views of one terminal over two connections to the holder.
Hub == INSTANCE TerminalHub WITH
    Views <- {"v1", "v2"}, Kinds <- {"acquire", "input", "release", "fit", "legacy"},
    QueueMax <- 1, MaxAsks <- 1, MaxEpochs <- 2, MaxStops <- 1, told <- terminalHubTold,
    lost <- terminalHubLost, sock <- terminalHubSock, asks <- terminalHubAsks
HubLive == INSTANCE TerminalHub WITH
    Views <- {"v1", "v2"}, Kinds <- {"acquire", "fit"}, QueueMax <- 1, MaxAsks <- 1,
    MaxEpochs <- 2, MaxStops <- 0, told <- terminalHubTold, lost <- terminalHubLost,
    sock <- terminalHubSock, asks <- terminalHubAsks

varsTerminalHub == <<alive, sub, terminalHubTold, actor, terminalHubLost, ch,
    terminalHubSock, wire, hold, blk, sw, ids, terminalHubAsks, stops>>

InitTerminalHub ==
    IF part \in {"Hub", "HubLive"}
    THEN \/ part = "Hub" /\ Hub!Init
         \/ part = "HubLive" /\ HubLive!Init
    ELSE alive = 0 /\ sub = 0 /\ terminalHubTold = 0 /\ actor = 0 /\ terminalHubLost = 0
         /\ ch = 0 /\ terminalHubSock = 0 /\ wire = 0 /\ hold = 0 /\ blk = 0 /\ sw = 0
         /\ ids = 0 /\ terminalHubAsks = 0 /\ stops = 0

NextTerminalHub ==
    \/ part = "Hub" /\ Hub!Next
    \/ part = "HubLive" /\ HubLive!Next

-----------------------------------------------------------------------------
\* Two window sizes; a second view; a daemon without full terminals; liveness.
Tui == INSTANCE TuiTerminal WITH
    Sizes <- {1, 2}, WriteQueue <- 2, MaxInput <- 1, MaxReq <- 2, MaxScopes <- 1,
    MaxFaults <- 2, MaxRev <- 1, MaxReplies <- 2, Legacy <- FALSE, out <- tuiOut,
    asked <- tuiAsked
TuiScopes == INSTANCE TuiTerminal WITH
    Sizes <- {1}, WriteQueue <- 2, MaxInput <- 1, MaxReq <- 3, MaxScopes <- 2,
    MaxFaults <- 2, MaxRev <- 1, MaxReplies <- 1, Legacy <- FALSE, out <- tuiOut,
    asked <- tuiAsked
TuiOld == INSTANCE TuiTerminal WITH
    Sizes <- {1, 2}, WriteQueue <- 2, MaxInput <- 1, MaxReq <- 3, MaxScopes <- 2,
    MaxFaults <- 3, MaxRev <- 1, MaxReplies <- 2, Legacy <- TRUE, out <- tuiOut,
    asked <- tuiAsked
TuiLive == INSTANCE TuiTerminal WITH
    Sizes <- {1}, WriteQueue <- 1, MaxInput <- 1, MaxReq <- 1, MaxScopes <- 2,
    MaxFaults <- 2, MaxRev <- 1, MaxReplies <- 1, Legacy <- FALSE, out <- tuiOut,
    asked <- tuiAsked

varsTui == <<connected, onTop, failed, win, term, src, tuiOut, box, srv, scopes, faults,
    tuiAsked>>

InitTui ==
    IF part \in {"Tui", "TuiScopes", "TuiOld", "TuiLive"}
    THEN \/ part = "Tui" /\ Tui!Init
         \/ part = "TuiScopes" /\ TuiScopes!Init
         \/ part = "TuiOld" /\ TuiOld!Init
         \/ part = "TuiLive" /\ TuiLive!Init
    ELSE connected = 0 /\ onTop = 0 /\ failed = 0 /\ win = 0 /\ term = 0 /\ src = 0
         /\ tuiOut = 0 /\ box = 0 /\ srv = 0 /\ scopes = 0 /\ faults = 0 /\ tuiAsked = 0

NextTui ==
    \/ part = "Tui" /\ Tui!Next
    \/ part = "TuiScopes" /\ TuiScopes!Next
    \/ part = "TuiOld" /\ TuiOld!Next
    \/ part = "TuiLive" /\ TuiLive!Next

-----------------------------------------------------------------------------
vars == <<part, varsClaude, varsStartup, varsCodex, varsOpenCode, varsFakeCodex,
    varsHolderServer, varsHolderProcess, varsTerminalHub, varsTui>>

Init ==
    /\ part \in Parts
    /\ InitClaude
    /\ InitStartup
    /\ InitCodex
    /\ InitOpenCode
    /\ InitFakeCodex
    /\ InitHolderServer
    /\ InitHolderProcess
    /\ InitTerminalHub
    /\ InitTui

Next ==
    \/ /\ NextClaude
       /\ UNCHANGED <<part, varsStartup, varsCodex, varsOpenCode, varsFakeCodex,
             varsHolderServer, varsHolderProcess, varsTerminalHub, varsTui>>
    \/ /\ NextStartup
       /\ UNCHANGED <<part, varsClaude, varsCodex, varsOpenCode, varsFakeCodex,
             varsHolderServer, varsHolderProcess, varsTerminalHub, varsTui>>
    \/ /\ NextCodex
       /\ UNCHANGED <<part, varsClaude, varsStartup, varsOpenCode, varsFakeCodex,
             varsHolderServer, varsHolderProcess, varsTerminalHub, varsTui>>
    \/ /\ NextOpenCode
       /\ UNCHANGED <<part, varsClaude, varsStartup, varsCodex, varsFakeCodex,
             varsHolderServer, varsHolderProcess, varsTerminalHub, varsTui>>
    \/ /\ NextFakeCodex
       /\ UNCHANGED <<part, varsClaude, varsStartup, varsCodex, varsOpenCode,
             varsHolderServer, varsHolderProcess, varsTerminalHub, varsTui>>
    \/ /\ NextHolderServer
       /\ UNCHANGED <<part, varsClaude, varsStartup, varsCodex, varsOpenCode, varsFakeCodex,
             varsHolderProcess, varsTerminalHub, varsTui>>
    \/ /\ NextHolderProcess
       /\ UNCHANGED <<part, varsClaude, varsStartup, varsCodex, varsOpenCode, varsFakeCodex,
             varsHolderServer, varsTerminalHub, varsTui>>
    \/ /\ NextTerminalHub
       /\ UNCHANGED <<part, varsClaude, varsStartup, varsCodex, varsOpenCode, varsFakeCodex,
             varsHolderServer, varsHolderProcess, varsTui>>
    \/ /\ NextTui
       /\ UNCHANGED <<part, varsClaude, varsStartup, varsCodex, varsOpenCode, varsFakeCodex,
             varsHolderServer, varsHolderProcess, varsTerminalHub>>

Spec == Init /\ [][Next]_vars

\* The variables of the part that runs.
moving ==
    CASE part = "ClaudeLive" -> varsClaude
      [] part = "CodexLive" -> varsCodex
      [] part = "OpenCodeLive" -> varsOpenCode
      [] part = "HolderStopLive" -> varsHolderServer
      [] part = "HolderPairLive" -> varsHolderProcess
      [] part = "HubLive" -> varsTerminalHub
      [] part = "TuiLive" -> varsTui

\* What the daemon, the holder and the clients do by themselves: the spool and the
\* attention are polled every second, helpers end at their deadlines, link and worker
\* threads run, the actor of the hub and the TUI's tick go on. Of the agents it is assumed
\* that Codex shows what it has accepted and ends its turns, of the operator that a backend
\* switch that was prepared is cancelled; nothing is assumed of kills and faults.
Goes(n) ==
    \/ /\ part = "ClaudeLive" /\ part' = part
       /\ \/ n = 1 /\ ClaudeLive!Helping("hook")
          \/ n = 2 /\ ClaudeLive!Helping("chan")
          \/ n = 3 /\ \E late \in BOOLEAN : ClaudeLive!HookArrives(late)
          \/ n = 4 /\ ClaudeLive!KeyWritten
          \/ n = 5 /\ \E rc \in spool.acks : ClaudeLive!AckReplayed(rc, TRUE)
          \/ n = 6 /\ ClaudeLive!Refresh(ClaudeLive!Unknown)
    \/ /\ part = "CodexLive" /\ part' = part
       /\ \/ n = 1 /\ CodexLive!Work(1)
          \/ n = 2 /\ CodexLive!Shown
          \/ n = 3 /\ CodexLive!TurnEnds
    \/ /\ part = "OpenCodeLive" /\ part' = part
       /\ \/ n = 1 /\ OpenCodeLive!Work(1)
          \/ n = 2 /\ OpenCodeLive!Work(2)
          \/ n = 3 /\ OpenCodeLive!Work(3)
          \/ n = 4 /\ OpenCodeLive!Work(4)
          \/ n = 5 /\ OpenCodeLive!StartHolder
          \/ n = 6 /\ OpenCodeLive!WorkerFailed
          \/ n = 7 /\ OpenCodeLive!CancelSwitch
    \/ /\ part = "HolderStopLive" /\ part' = part
       /\ \/ n = 1 /\ HolderStopLive!ReadRequest
          \/ n = 2 /\ (HolderStopLive!ServeStops /\ h.stop # HolderStopLive!None)
          \/ n = 3 /\ HolderStopLive!Kill
          \/ n = 4 /\ HolderStopLive!Reap
    \/ /\ part = "HolderPairLive" /\ part' = part
       /\ \/ n = 1 /\ HolderPairLive!HolderStep(1)
          \/ n = 2 /\ HolderPairLive!HolderStep(2)
          \/ n = 3 /\ HolderPairLive!LinkStep(1)
          \/ n = 4 /\ HolderPairLive!OpStep
          \/ n = 5 /\ HolderPairLive!PeekConnects
    \/ /\ part = "HubLive" /\ part' = part
       /\ \/ n = 1 /\ HubLive!ActorStep
          \/ n = 2 /\ HubLive!Write
          \/ n = 3 /\ HubLive!Disconnected
          \/ n = 4 /\ HubLive!Reconnect
          \/ n = 5 /\ HubLive!HolderExecutes
          \/ n = 6 /\ HubLive!LegacyDone
          \/ n = 7 /\ HubLive!TimesOut
    \/ /\ part = "TuiLive" /\ part' = part
       /\ \/ n = 1 /\ TuiLive!Tick(TRUE, TRUE)
          \/ n = 2 /\ TuiLive!Reconnect
          \/ n = 3 /\ TuiLive!Serve
          \/ n = 4 /\ TuiLive!FirstFrame

FairSpec ==
    /\ Spec
    /\ \A n \in 1 .. 7 : WF_moving(Goes(n))

-----------------------------------------------------------------------------
\* What the components assume of their constants.
ASSUME AgentAssumption ==
    /\ Claude!DeliveryConstants
    /\ ClaudeFaults!DeliveryConstants
    /\ ClaudeHooks!DeliveryConstants
    /\ Startup!StartupConstants
    /\ Codex!CodexAssumption
    /\ CodexPair!CodexAssumption
    /\ CodexLive!CodexAssumption
    /\ OpenCodeSwitch!OpenCodeAssumption
    /\ OpenCodePermissions!OpenCodeAssumption
    /\ FakeCodexPeers!FakeAssumption
    /\ FakeCodexRefines!FakeAssumption
    /\ FakeCodexRestart!FakeAssumption
    /\ HolderControl!HolderAssumption
    /\ HolderStream!HolderAssumption
    /\ HolderStopLive!HolderAssumption
    /\ HolderPair!HolderBounds
    /\ Hub!HubAssumption
    /\ Tui!TuiBounds
    /\ TuiScopes!TuiBounds
    /\ TuiOld!TuiBounds

\* What the daemon does to Claude and says of it is what happened, whatever is lost or
\* dies.
\*   ContentOnce: Claude gets the content of a message at most once, whatever reply,
\*     receipt, key or process is lost (store/claude.rs reserve).
\*   OutcomeIsReal: A row says confirmed only of content that Claude acknowledged, sent
\*     only of content it read, and failed only where the operator abandoned the message
\*     (driver/claude/driver.rs).
\*   AckAccepted: An acknowledgement that Claude gave is accepted whenever it arrives,
\*     after any restart and any new session (driver/claude acknowledgement replay).
\*   KeyOnce: No menu of one start of Claude is answered twice, whatever replies and
\*     processes are lost (store/claude_startup.rs reserve_claude_startup_key).
ClaudeSafe ==
    /\ part = "Claude" => Claude!TypeOK /\ Claude!ContentOnce /\ Claude!OutcomeIsReal
    /\ part = "ClaudeFaults" => ClaudeFaults!TypeOK /\ ClaudeFaults!ContentOnce
          /\ ClaudeFaults!AckAccepted
    /\ part = "ClaudeHooks" => ClaudeHooks!TypeOK
    /\ part = "Startup" => Startup!KeyOnce

\* What the drivers of Codex and OpenCode do and say is what happened, and so are the
\* answers of the codex server that the tests use.
\*   AtMostOnce: Codex gets a message at most once over broken connections and lost
\*     replies, unless an interrupt or a compaction ended its turn unshown, its queue
\*     cannot be listed, or two workers were connected while it was queued (finding 5;
\*     codex/link.rs).
\*   StatesAreTrue: The state of a Codex row is what happened to its message: confirmed
\*     is in the history, sent was accepted, failed never was, with the same exceptions.
\*   QueueInOrder: Queued messages reach Codex in the order of their claims, also when
\*     the reply to an earlier one was lost (flush).
\*   PostedOnce: A message is posted to OpenCode at most once: its row is marked before
\*     the post (opencode::begin).
\*   OneReply: A permission request of OpenCode is answered at most once, with the
\*     decision the table has, though the worker and the operator both want to.
\*   TurnsInOrder: A peer of the fake codex server is told of the end of a turn before
\*     it is told of the next one.
\*   DecisionIsForTurn: The fake codex server asks for a decision for the turn that
\*     waits for it, and for no other.
\*   SeenIsSaved: A turn of the fake codex server whose end a peer has seen is there
\*     after a restart.
\*   AcceptedShows: What the fake codex server accepted is in the history, waits for its
\*     turn, went with an interrupt, or joined a compaction, which swallows it
\*     (finding 12).
DriversSafe ==
    /\ part = "Codex" => Codex!TypeOK /\ Codex!AtMostOnce /\ Codex!StatesAreTrue
          /\ Codex!QueueInOrder
    /\ part = "CodexPair" => CodexPair!TypeOK /\ CodexPair!AtMostOnce
          /\ CodexPair!StatesAreTrue /\ CodexPair!QueueInOrder
    /\ part = "OpenCodeSwitch" => OpenCodeSwitch!TypeOK /\ OpenCodeSwitch!PostedOnce
    /\ part = "OpenCodePermissions" => OpenCodePermissions!TypeOK
          /\ OpenCodePermissions!OneReply
    /\ part = "FakeCodexPeers" => FakeCodexPeers!TypeOK /\ FakeCodexPeers!TurnsInOrder
          /\ FakeCodexPeers!DecisionIsForTurn
    /\ part = "FakeCodexRefines" => FakeCodexRefines!TypeOK
          /\ FakeCodexRefines!AcceptedShows
    /\ part = "FakeCodexRestart" => FakeCodexRestart!TypeOK /\ FakeCodexRestart!SeenIsSaved
          /\ FakeCodexRestart!AcceptedShows

\* The holder serves one agent to several clients, and processes that start, die and are
\* replaced agree on who it is.
\*   WriterExclusive: While bytes of one writer go to the PTY nobody else has the
\*     terminal (holder server: acquire, input and the legacy paths).
\*   ControlHasClient: Control of the terminal never outlives the connection it was
\*     given on, however the client was dropped or replaced (holder server).
\*   StreamWhole: The stream of a client begins with a screen, loses no chunk and
\*     repeats none, and ends at the screen as it is (holder server: attach, lag, huge
\*     writes).
\*   ExitedOnce: A client of the holder learns of the end of the agent exactly once,
\*     whether it was there or came later.
\*   PidTellsTruth: The pid record names the holder that has the lock, or none, through
\*     start, kill and stop (agend-holder/src/lib.rs start).
\*   ServingIsFound: A holder that serves is found by the daemon: its socket and its pid
\*     are the ones on disk.
\*   GoneIsTrue: The daemon says that an agent is gone only when no holder of it runs
\*     any more.
\*   ManagedIsOwn: The link in the daemon's table is connected to the holder of the
\*     binding it is for.
HolderSafe ==
    /\ part = "HolderControl" => HolderControl!TypeOK /\ HolderControl!WriterExclusive
          /\ HolderControl!ControlHasClient
    /\ part = "HolderStream" => HolderStream!TypeOK /\ HolderStream!StreamWhole
          /\ HolderStream!ExitedOnce
    /\ part = "HolderPair" => HolderPair!TypeOK /\ HolderPair!PidTellsTruth
          /\ HolderPair!ServingIsFound /\ HolderPair!GoneIsTrue /\ HolderPair!ManagedIsOwn

\* The holder, the daemon's hub and the TUI agree on who controls a terminal.
\*   NoOrphanGrant: The controller that the holder knows is one that the hub's actor
\*     owns or waits for, whoever died, was cancelled or timed out: otherwise the
\*     terminal would be locked.
\*   OwnerControls: Between two jobs the owner that the hub's actor knows is the
\*     holder's controller.
\*   OneController: A client that was told it controls the terminal does so, and no
\*     other client was told.
\*   DrainedIsQuiet: Once a backend switch has seen the terminal drained, nothing that
\*     writes to the PTY is awaited or running.
\*   NoJobLost: A job that the hub accepted is not left in the queue of an actor that
\*     has retired.
\*   TypingIsReady: The TUI sends keys only while it controls an agent whose size is the
\*     window's.
\*   ControlIsKnown: A controller that the daemon has granted to the TUI is one the TUI
\*     knows of, is about to hear of, or is about to give back.
\*   NeverByItself: The TUI takes control of a terminal only for an operator who asked
\*     for it, never after a reconnect or a new scope by itself.
TerminalSafe ==
    /\ part = "Hub" => Hub!TypeOK /\ Hub!NoOrphanGrant /\ Hub!OwnerControls
          /\ Hub!OneController /\ Hub!DrainedIsQuiet /\ Hub!NoJobLost
    /\ part = "Tui" => Tui!TypeOK /\ Tui!TypingIsReady /\ Tui!ControlIsKnown
    /\ part = "TuiScopes" => TuiScopes!TypeOK /\ TuiScopes!NeverByItself
    /\ part = "TuiOld" => TuiOld!TypeOK /\ TuiOld!TypingIsReady /\ TuiOld!NeverByItself

\* What no step of a driver or a holder may do.
\*   IdleRoutesAreIdle: Content that waits for an idle Claude is reserved only if the
\*     newest hook that was applied says that a turn ended: late and replayed hooks
\*     never open the way.
\*   UnknownIsLast: Once the outcome of a key is unknown, no other key of that start of
\*     Claude is written.
\*   SessionKept: An OpenCode instance keeps the session it got first, whichever late
\*     worker comes back with another one.
\*   DrainedIsQuiet: Once a backend switch has seen the OpenCode workers stopped,
\*     nothing is posted until deliveries are released.
\*   GrantCurrent: A worker answers a permission under the grant that it read, never
\*     under one that was replaced in between.
\*   StopIsExact: A stop ends the holder it was told of, never one that was started
\*     since.
AgentSteps ==
    [][/\ part = "ClaudeHooks" => ClaudeHooks!IdleRoutesAreIdle
       /\ part = "Startup" => Startup!UnknownIsLast
       /\ part = "OpenCodeSwitch" => OpenCodeSwitch!SessionKept /\ OpenCodeSwitch!DrainedIsQuiet
       /\ part = "OpenCodePermissions" => OpenCodePermissions!GrantCurrent
       /\ part = "HolderPair" => HolderPair!StopIsExact]_vars

\* Every step of the fake codex server, compactions and what they swallow (finding 12)
\* included, is a step of the server that CodexLink composes with, or none: what is checked
\* of the link holds in the tests.  Only the death of the fake server is no such step: the
\* link is checked against one server.
IsCodexServer ==
    [][/\ part = "FakeCodexRefines" => FakeCodexRefines!IsCodexServer
       /\ part = "FakeCodexRestart" => FakeCodexRestart!IsCodexServer]_vars

\* An acknowledgement that Claude published confirms its message at last, or the operator gave it up.
AcksArrive ==
    (part = "ClaudeLive" /\ \E rc \in spool.acks : rc.msg = 2)
        ~> (part = "ClaudeLive" => claudeRows[2].state \in {"confirmed", "failed"})

\* An unknown outcome of a delivery to Claude is shown to the operator or resolved at last.
UnknownShown ==
    []<>(part = "ClaudeLive" => 2 \in att \/ ~ClaudeLive!OutcomeUnknown(claudeRows[2]))

\* A message to Codex is confirmed or failed in the end, or an interrupt or a compaction dropped it.
AllSettled ==
    []<>(part = "CodexLive" =>
            \A m \in {3, 4} :
                codexRows[m].state \in {"none", "confirmed", "failed"} \/ m \in dropped)

\* A message that is queued for OpenCode is tried, unless the instance has used up its restarts
\* or a switch was cancelled while a worker still ran, which leaves it without one (finding 6):
\* whoever else cancels a worker starts another one.
QueuedIsTried ==
    []<>(part = "OpenCodeLive" =>
            \/ openCodeRows[1].state = "none" \/ openCodeRows[1].attempted \/ unserved
            \/ /\ holders = 2
               /\ openCodeHolder = 0 \/ \E w \in OpenCodeLive!Ids : wk[w].pc = "failed")

\* A Shutdown that was sent to the holder is obeyed, although its sender was dropped for lagging,
\* unless a newer client takes over or the reader was ended first.
ShutdownHonoured ==
    (/\ part = "HolderStopLive" /\ h.latest = 1 /\ reading
     /\ \E k \in DOMAIN inq : inq[k].op = "shutdown")
        ~> (part = "HolderStopLive" => phase = "done" \/ h.latest > 1 \/ ~reading)

\* A link to a holder whose connection ended goes on reading, or ends: it does not wait for ever.
LinkSettles == []<>(part = "HolderPairLive" => link[1] # "pause")

\* A call of the holder runtime returns, also when the holder it waits for is refused, killed or
\* replaced.
CallsReturn == []<>(part = "HolderPairLive" => holderProcessOp = HolderPairLive!Idle)

\* A subscription that the hub accepted is answered: a frame, a refusal, or the end of the stream.
SubscribeAnswered ==
    \A v \in {"v1", "v2"} : []<>(part = "HubLive" => sub[v] # "queued" \/ v \notin alive)

\* A view that was opened in the TUI shows the agent's screen in the end, over a connection that is
\* there, unless the agent is not running, the operator left or only the old terminal is served.
ViewSettles ==
    []<>(part = "TuiLive" => \/ ~onTop \/ failed \/ term.kind = "legacy" \/ scopes = 2
                             \/ (term.ready /\ term.mode = "live" /\ src = "full"))

\* What agents, holders and terminals wait for comes about.
AgentGoesOn == AcksArrive /\ UnknownShown /\ AllSettled /\ QueuedIsTried /\ ShutdownHonoured
    /\ LinkSettles /\ CallsReturn /\ SubscribeAnswered /\ ViewSettles

=============================================================================
