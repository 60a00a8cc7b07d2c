----------------------------- MODULE HostSuite ------------------------------
(***************************************************************************)
(* What keeps the daemon's host in order, checked side by side: the        *)
(* supervision of an agent, the backend's versions (switch, admission,     *)
(* observation), the daemon process, its service, its database file, its   *)
(* housekeeping, the git shim of the agents and the GitHub forge.          *)
(* A behaviour is one of a single part, a component with its constants     *)
(* (part), and the variables of the other components stay 0. A component   *)
(* occurs as several parts where one choice of constants does not reach    *)
(* everything that its properties are about; the parts named Live are      *)
(* checked under fairness.                                                 *)
(***************************************************************************)
EXTENDS Integers, Sequences, FiniteSets

CONSTANT Parts   \* the parts that a run checks

VARIABLES
    part,      \* the part whose behaviour this is
    supervisorRow, supervisorHolder, agents, pids, supervisorUp, supervisorPc,
    supervisorWatch, supervisorLink, supervisorGens, drivers, queue, timers, item, now,
    supervisorDeaths, supervisorCrashes, supervisorOps, decided, gaveUp, supervisorLost,
    again, supervisorRows,
    switchRow, intent, rec, switchHolder, busy, inflight, switchUp, switchPc, switchLink,
    switchWatch, dead, expired, bindings, switches, switchDeaths, switchCrashes, refusals,
    cut,
    source, agend, version, admissionLock, admissionProc, lab, admissionDaemon, admitted,
    admissionOps, admissionFaults, proved, last,
    world, config, watchPinned, watchRows, since, mon, watchRef, watchShown, watchUp,
    watchGens, watchFaults, watchEdits, seen, acked, quiet,
    path, lifePinned, db, socket, lifeProc, lifeHolder, starts, signals, restarts,
    lifeFaults,
    receipt, program, unit, serviceShim, label, serviceDaemon, holders, data, serviceOp,
    serviceGuard, serviceFaults, serviceEdits,
    node, name, journal, storeLock, storeGuard, storeProc, snaps, storeDay, written,
    stolen, claim,
    storeFaults,
    keepDay, ahead, msg, agent, event, observed, keepShown, keepFile, live, rotated, line, late,
    keepShim, daemonLog, keepHolder, archive, hk, keepFaults,
    calendarDay, year, month, dom,
    shimFile, tree, shimDaemon, shimProc, shimOps, stray, shimLost, touched,
    lhead, rb, pr, main, led, net, forgeOp, subm, done, made, lostf, early, over, human,
    started

(* Representative git calls of an agent: every form the guard tells apart, *)
(* made in every kind of directory, plainly or redirected, and the same    *)
(* with AGEND_SHIM_BYPASS set.                                             *)

F(sub, opts, first, ref, paths) ==
    [sub |-> sub, opts |-> opts, first |-> first, ref |-> ref, paths |-> paths]

Forms ==
    {F(s, {}, "", "", FALSE) : s \in {"status", "commit", "version", "alias", "branch", "clean", "reset"}} \union
    {F("reset", {"hard"}, "", "", FALSE), F("reset", {"hard", "recurse-submodules"}, "", "", FALSE),
     F("restore", {}, "", "", TRUE), F("restore", {"staged"}, "", "", TRUE),
     F("restore", {"staged", "worktree"}, "", "", TRUE),
     F("checkout", {}, "", "", TRUE), F("checkout", {}, "main", "main", FALSE), F("checkout", {"create"}, "b2", "b2", FALSE),
     F("switch", {}, "b1", "b1", FALSE), F("switch", {"detach"}, "", "", FALSE),
     F("switch", {"discard-changes"}, "HEAD", "HEAD", FALSE),
     F("rm", {"force"}, "p", "", TRUE), F("rm", {"force", "cached"}, "p", "", TRUE),
     F("clean", {"x"}, "", "", FALSE), F("clean", {"ff"}, "", "", FALSE),
     F("rebase", {}, "", "", FALSE), F("rebase", {"autostash"}, "", "", FALSE), F("merge", {}, "b2", "", FALSE),
     F("branch", {}, "b1side", "b1side", FALSE), F("branch", {}, "b2side", "b2side", FALSE),
     F("branch", {"move"}, "main", "main", FALSE), F("branch", {"delete"}, "b1", "b1", FALSE),
     F("update-ref", {}, "main", "main", FALSE), F("symbolic-ref", {}, "", "", FALSE),
     F("symbolic-ref", {}, "set", "main", FALSE), F("reflog", {}, "delete", "main", FALSE),
     F("stash", {}, "list", "", FALSE), F("stash", {}, "pop", "", FALSE),
     F("remote", {}, "add", "", FALSE), F("remote", {"dry-run"}, "prune", "", FALSE),
     F("submodule", {}, "foreach", "", FALSE), F("worktree", {}, "add", "", FALSE),
     F("push", {}, "origin", "b1", FALSE), F("push", {}, "origin", "main", FALSE),
     F("push", {"no-verify"}, "origin", "main", FALSE), F("push", {"delete"}, "origin", "b1", FALSE)}

GitDirs == {"w1", "w2", "canon", "gitdir", "foreign", "clone", "nested", "module", "tmp", "workspace"}

\* [gd, tree, env, index]: nothing, --git-dir, --work-tree, GIT_DIR, GIT_INDEX_FILE.
Pointed ==
    {<<"none", "none", FALSE, "none">>, <<"w1", "none", FALSE, "none">>, <<"team", "none", FALSE, "none">>,
     <<"w1", "canon", FALSE, "none">>, <<"none", "w2", FALSE, "none">>, <<"w1", "none", TRUE, "none">>,
     <<"none", "none", TRUE, "w2">>}

Call(f, dir, p, cfg, deep) ==
    [sub |-> f.sub, opts |-> f.opts, first |-> f.first, ref |-> f.ref, paths |-> f.paths,
     dest |-> IF f.sub = "push" THEN "team" ELSE "none", dir |-> dir, gd |-> p[1], tree |-> p[2],
     env |-> p[3], index |-> p[4], deep |-> deep, cfg |-> cfg, bypass |-> FALSE]

Plain == <<"none", "none", FALSE, "none">>
Some == {f \in Forms : f.sub \in {"status", "commit", "update-ref", "push"} \/ f.opts \in {{"hard"}, {"detach"}}}

GuardedCalls ==
    {Call(f, d, Plain, {}, FALSE) : f \in Forms, d \in GitDirs} \union
    {Call(f, d, p, {}, FALSE) : f \in Some, d \in GitDirs, p \in Pointed} \union
    {Call(f, d, Plain, {"core.hookspath"}, FALSE) : f \in Some, d \in {"w1", "canon", "workspace"}} \union
    {Call(f, "canon", Plain, {}, TRUE) : f \in Some}
BypassCalls == {[c EXCEPT !.bypass = TRUE] : c \in GuardedCalls}

-----------------------------------------------------------------------------
\* Three deaths of an agent while the window of restarts passes; both other backends,
\* for liveness.
Supervise == INSTANCE Supervisor WITH
    Backends <- {"opencode"}, MaxRestarts <- 2, Window <- 2, MaxTime <- 2, MaxDeaths <- 3,
    MaxCrashes <- 1, MaxOps <- 1, row <- supervisorRow, holder <- supervisorHolder,
    up <- supervisorUp, pc <- supervisorPc, watch <- supervisorWatch,
    link <- supervisorLink, gens <- supervisorGens, deaths <- supervisorDeaths,
    crashes <- supervisorCrashes, ops <- supervisorOps, lost <- supervisorLost,
    rows <- supervisorRows
SuperviseLive == INSTANCE Supervisor WITH
    Backends <- {"claude", "codex"}, MaxRestarts <- 1, Window <- 1, MaxTime <- 0,
    MaxDeaths <- 2, MaxCrashes <- 1, MaxOps <- 2, row <- supervisorRow,
    holder <- supervisorHolder, up <- supervisorUp, pc <- supervisorPc,
    watch <- supervisorWatch, link <- supervisorLink, gens <- supervisorGens,
    deaths <- supervisorDeaths, crashes <- supervisorCrashes, ops <- supervisorOps,
    lost <- supervisorLost, rows <- supervisorRows

varsSupervisor == <<supervisorRow, supervisorHolder, agents, pids, supervisorUp,
    supervisorPc, supervisorWatch, supervisorLink, supervisorGens, drivers, queue, timers,
    item, now, supervisorDeaths, supervisorCrashes, supervisorOps, decided, gaveUp,
    supervisorLost, again, supervisorRows>>

InitSupervisor ==
    IF part \in {"Supervise", "SuperviseLive"}
    THEN \/ part = "Supervise" /\ Supervise!Init
         \/ part = "SuperviseLive" /\ SuperviseLive!Init
    ELSE supervisorRow = 0 /\ supervisorHolder = 0 /\ agents = 0 /\ pids = 0
         /\ supervisorUp = 0 /\ supervisorPc = 0 /\ supervisorWatch = 0
         /\ supervisorLink = 0 /\ supervisorGens = 0 /\ drivers = 0 /\ queue = 0
         /\ timers = 0 /\ item = 0 /\ now = 0 /\ supervisorDeaths = 0
         /\ supervisorCrashes = 0 /\ supervisorOps = 0 /\ decided = 0 /\ gaveUp = 0
         /\ supervisorLost = 0 /\ again = 0 /\ supervisorRows = 0

NextSupervisor ==
    \/ part = "Supervise" /\ Supervise!Next
    \/ part = "SuperviseLive" /\ SuperviseLive!Next

-----------------------------------------------------------------------------
\* A switch of version, with deaths, a crash of the daemon and a refused start.
Switch == INSTANCE BackendSwitch WITH
    MaxSwitches <- 1, MaxDeaths <- 2, MaxCrashes <- 1, MaxRefusals <- 1, MaxBindings <- 6,
    row <- switchRow, holder <- switchHolder, up <- switchUp, pc <- switchPc,
    link <- switchLink, watch <- switchWatch, deaths <- switchDeaths,
    crashes <- switchCrashes
SwitchLive == INSTANCE BackendSwitch WITH
    MaxSwitches <- 1, MaxDeaths <- 1, MaxCrashes <- 1, MaxRefusals <- 1, MaxBindings <- 6,
    row <- switchRow, holder <- switchHolder, up <- switchUp, pc <- switchPc,
    link <- switchLink, watch <- switchWatch, deaths <- switchDeaths,
    crashes <- switchCrashes

varsSwitch == <<switchRow, intent, rec, switchHolder, busy, inflight, switchUp, switchPc,
    switchLink, switchWatch, dead, expired, bindings, switches, switchDeaths, switchCrashes,
    refusals, cut>>

InitSwitch ==
    IF part \in {"Switch", "SwitchLive"}
    THEN \/ part = "Switch" /\ Switch!Init
         \/ part = "SwitchLive" /\ SwitchLive!Init
    ELSE switchRow = 0 /\ intent = 0 /\ rec = 0 /\ switchHolder = 0 /\ busy = 0
         /\ inflight = 0 /\ switchUp = 0 /\ switchPc = 0 /\ switchLink = 0
         /\ switchWatch = 0 /\ dead = 0 /\ expired = 0 /\ bindings = 0 /\ switches = 0
         /\ switchDeaths = 0 /\ switchCrashes = 0 /\ refusals = 0 /\ cut = 0

NextSwitch ==
    \/ part = "Switch" /\ Switch!Next
    \/ part = "SwitchLive" /\ SwitchLive!Next

-----------------------------------------------------------------------------
\* Two operators' processes that import and test one version.
Admission == INSTANCE BackendAdmission WITH
    Procs <- {"p1", "p2"}, MaxSrc <- 2, MaxAgend <- 2, MaxOps <- 2, MaxFault <- 2,
    lock <- admissionLock, proc <- admissionProc, daemon <- admissionDaemon,
    ops <- admissionOps, faults <- admissionFaults

varsAdmission == <<source, agend, version, admissionLock, admissionProc, lab,
    admissionDaemon, admitted, admissionOps, admissionFaults, proved, last>>

InitAdmission ==
    IF part \in {"Admission"}
    THEN Admission!Init
    ELSE source = 0 /\ agend = 0 /\ version = 0 /\ admissionLock = 0 /\ admissionProc = 0
         /\ lab = 0 /\ admissionDaemon = 0 /\ admitted = 0 /\ admissionOps = 0
         /\ admissionFaults = 0 /\ proved = 0 /\ last = 0

NextAdmission ==
    \/ part = "Admission" /\ Admission!Next

-----------------------------------------------------------------------------
\* An executable on disk; a package of the registry; liveness.
WatchDisk == INSTANCE BackendWatch WITH
    Backends <- {}, Instances <- {"i"}, Programs <- {"p"}, MaxVer <- 2, Interval <- 1,
    MaxFault <- 0, MaxEdit <- 1, pinned <- watchPinned, rows <- watchRows, ref <- watchRef,
    shown <- watchShown, up <- watchUp, gens <- watchGens, faults <- watchFaults,
    edits <- watchEdits
WatchRegistry == INSTANCE BackendWatch WITH
    Backends <- {"codex"}, Instances <- {"i"}, Programs <- {}, MaxVer <- 2, Interval <- 2,
    MaxFault <- 1, MaxEdit <- 1, pinned <- watchPinned, rows <- watchRows, ref <- watchRef,
    shown <- watchShown, up <- watchUp, gens <- watchGens, faults <- watchFaults,
    edits <- watchEdits
WatchLive == INSTANCE BackendWatch WITH
    Backends <- {}, Instances <- {"i"}, Programs <- {"p"}, MaxVer <- 1, Interval <- 1,
    MaxFault <- 1, MaxEdit <- 0, pinned <- watchPinned, rows <- watchRows, ref <- watchRef,
    shown <- watchShown, up <- watchUp, gens <- watchGens, faults <- watchFaults,
    edits <- watchEdits

varsWatch == <<world, config, watchPinned, watchRows, since, mon, watchRef, watchShown,
    watchUp, watchGens, watchFaults, watchEdits, seen, acked, quiet>>

InitWatch ==
    IF part \in {"WatchDisk", "WatchRegistry", "WatchLive"}
    THEN \/ part = "WatchDisk" /\ WatchDisk!Init
         \/ part = "WatchRegistry" /\ WatchRegistry!Init
         \/ part = "WatchLive" /\ WatchLive!Init
    ELSE world = 0 /\ config = 0 /\ watchPinned = 0 /\ watchRows = 0 /\ since = 0 /\ mon = 0
         /\ watchRef = 0 /\ watchShown = 0 /\ watchUp = 0 /\ watchGens = 0
         /\ watchFaults = 0 /\ watchEdits = 0 /\ seen = 0 /\ acked = 0 /\ quiet = 0

NextWatch ==
    \/ part = "WatchDisk" /\ WatchDisk!Next
    \/ part = "WatchRegistry" /\ WatchRegistry!Next
    \/ part = "WatchLive" /\ WatchLive!Next

-----------------------------------------------------------------------------
\* Two daemon processes; one daemon and its holders.
Life == INSTANCE DaemonLife WITH
    Procs <- {"d1", "d2"}, MaxVer <- 2, MaxHold <- 1, MaxStarts <- 2, MaxSignals <- 1,
    MaxRestarts <- 2, MaxFault <- 1, pinned <- lifePinned, proc <- lifeProc,
    holder <- lifeHolder, faults <- lifeFaults
LifeLive == INSTANCE DaemonLife WITH
    Procs <- {"d1"}, MaxVer <- 2, MaxHold <- 1, MaxStarts <- 2, MaxSignals <- 1,
    MaxRestarts <- 1, MaxFault <- 1, pinned <- lifePinned, proc <- lifeProc,
    holder <- lifeHolder, faults <- lifeFaults

varsLife == <<path, lifePinned, db, socket, lifeProc, lifeHolder, starts, signals, restarts,
    lifeFaults>>

InitLife ==
    IF part \in {"Life", "LifeLive"}
    THEN \/ part = "Life" /\ Life!Init
         \/ part = "LifeLive" /\ LifeLive!Init
    ELSE path = 0 /\ lifePinned = 0 /\ db = 0 /\ socket = 0 /\ lifeProc = 0
         /\ lifeHolder = 0 /\ starts = 0 /\ signals = 0 /\ restarts = 0 /\ lifeFaults = 0

NextLife ==
    \/ part = "Life" /\ Life!Next
    \/ part = "LifeLive" /\ LifeLive!Next

-----------------------------------------------------------------------------
\* Two operators and two binaries under systemd; two operators under launchd; a removal
\* that fails twice.
ServiceSystemd == INSTANCE Service WITH
    Ops <- {1, 2}, Versions <- {1, 2}, Systemd <- TRUE, MaxFault <- 1, MaxEdit <- 2,
    shim <- serviceShim, daemon <- serviceDaemon, op <- serviceOp, guard <- serviceGuard,
    faults <- serviceFaults, edits <- serviceEdits
ServiceLaunchd == INSTANCE Service WITH
    Ops <- {1, 2}, Versions <- {1}, Systemd <- FALSE, MaxFault <- 1, MaxEdit <- 2,
    shim <- serviceShim, daemon <- serviceDaemon, op <- serviceOp, guard <- serviceGuard,
    faults <- serviceFaults, edits <- serviceEdits
ServiceLive == INSTANCE Service WITH
    Ops <- {1}, Versions <- {1}, Systemd <- TRUE, MaxFault <- 2, MaxEdit <- 0,
    shim <- serviceShim, daemon <- serviceDaemon, op <- serviceOp, guard <- serviceGuard,
    faults <- serviceFaults, edits <- serviceEdits

varsService == <<receipt, program, unit, serviceShim, label, serviceDaemon, holders, data,
    serviceOp, serviceGuard, serviceFaults, serviceEdits>>

InitService ==
    IF part \in {"ServiceSystemd", "ServiceLaunchd", "ServiceLive"}
    THEN \/ part = "ServiceSystemd" /\ ServiceSystemd!Init
         \/ part = "ServiceLaunchd" /\ ServiceLaunchd!Init
         \/ part = "ServiceLive" /\ ServiceLive!Init
    ELSE receipt = 0 /\ program = 0 /\ unit = 0 /\ serviceShim = 0 /\ label = 0
         /\ serviceDaemon = 0 /\ holders = 0 /\ data = 0 /\ serviceOp = 0
         /\ serviceGuard = 0 /\ serviceFaults = 0 /\ serviceEdits = 0

NextService ==
    \/ part = "ServiceSystemd" /\ ServiceSystemd!Next
    \/ part = "ServiceLaunchd" /\ ServiceLaunchd!Next
    \/ part = "ServiceLive" /\ ServiceLive!Next

-----------------------------------------------------------------------------
\* Creation with and without hard links; upgrades; a daemon that tries again, for
\* liveness.
StoreLinks == INSTANCE StoreFile WITH
    Procs <- {"d1", "d2"}, MaxInode <- 3, MaxVer <- 2, MaxRow <- 0, MaxDay <- 1, Keep <- 7,
    HardLinks <- TRUE, MaxFault <- 1, Init0 <- {"none", "linked", "torn"},
    lock <- storeLock, guard <- storeGuard, proc <- storeProc, day <- storeDay,
    faults <- storeFaults
StoreRename == INSTANCE StoreFile WITH
    Procs <- {"d1", "d2"}, MaxInode <- 3, MaxVer <- 1, MaxRow <- 1, MaxDay <- 1, Keep <- 7,
    HardLinks <- FALSE, MaxFault <- 1, Init0 <- {"none", "torn"},
    lock <- storeLock, guard <- storeGuard, proc <- storeProc, day <- storeDay,
    faults <- storeFaults
StoreUpgrade == INSTANCE StoreFile WITH
    Procs <- {"d1", "d2"}, MaxInode <- 1, MaxVer <- 3, MaxRow <- 1, MaxDay <- 1, Keep <- 3,
    HardLinks <- TRUE, MaxFault <- 1,
    Init0 <- {"served", "owned", "empty", "blank", "tables", "newer"}, lock <- storeLock,
    guard <- storeGuard, proc <- storeProc, day <- storeDay, faults <- storeFaults
StoreLive == INSTANCE StoreFile WITH
    Procs <- {"d1"}, MaxInode <- 5, MaxVer <- 2, MaxRow <- 1, MaxDay <- 1, Keep <- 7,
    HardLinks <- TRUE, MaxFault <- 3,
    Init0 <- {"none", "served", "linked", "torn", "garbage"}, lock <- storeLock,
    guard <- storeGuard, proc <- storeProc, day <- storeDay, faults <- storeFaults

varsStore == <<node, name, journal, storeLock, storeGuard, storeProc, snaps, storeDay,
    written, stolen, claim, storeFaults>>

InitStore ==
    IF part \in {"StoreLinks", "StoreRename", "StoreUpgrade", "StoreLive"}
    THEN \/ part = "StoreLinks" /\ StoreLinks!Init
         \/ part = "StoreRename" /\ StoreRename!Init
         \/ part = "StoreUpgrade" /\ StoreUpgrade!Init
         \/ part = "StoreLive" /\ StoreLive!Init
    ELSE node = 0 /\ name = 0 /\ journal = 0 /\ storeLock = 0 /\ storeGuard = 0
         /\ storeProc = 0 /\ snaps = 0 /\ storeDay = 0 /\ written = 0 /\ stolen = 0
         /\ claim = 0
         /\ storeFaults = 0

NextStore ==
    \/ part = "StoreLinks" /\ StoreLinks!Next
    \/ part = "StoreRename" /\ StoreRename!Next
    \/ part = "StoreUpgrade" /\ StoreUpgrade!Next
    \/ part = "StoreLive" /\ StoreLive!LiveNext

-----------------------------------------------------------------------------
\* Messages and answers; the audit log; the log of a holder and the archive.
KeepMail == INSTANCE Housekeeping WITH
    Msgs <- {"m"}, Items <- {"i"}, Entries <- {}, WithHolder <- FALSE, MaxDay <- 2,
    MaxLines <- 0, MaxFault <- 1, KeepMessages <- 2, KeepEvents <- 1, KeepAudit <- 2, KeepLogs <- 1, KeepHolder <- 1, day <- keepDay, shown <- keepShown,
    file <- keepFile, shim <- keepShim, holder <- keepHolder, faults <- keepFaults
KeepLines == INSTANCE Housekeeping WITH
    Msgs <- {}, Items <- {}, Entries <- {}, WithHolder <- FALSE, MaxDay <- 4,
    MaxLines <- 2, MaxFault <- 1, KeepMessages <- 2, KeepEvents <- 1, KeepAudit <- 3, KeepLogs <- 1, KeepHolder <- 1, day <- keepDay, shown <- keepShown,
    file <- keepFile, shim <- keepShim, holder <- keepHolder, faults <- keepFaults
KeepFiles == INSTANCE Housekeeping WITH
    Msgs <- {}, Items <- {}, Entries <- {"patch", "custom"}, WithHolder <- TRUE,
    MaxDay <- 3, MaxLines <- 0, MaxFault <- 0, KeepMessages <- 2,
    KeepEvents <- 1, KeepAudit <- 2, KeepLogs <- 1, KeepHolder <- 1, day <- keepDay,
    shown <- keepShown, file <- keepFile, shim <- keepShim, holder <- keepHolder,
    faults <- keepFaults

varsKeep == <<keepDay, ahead, msg, agent, event, observed, keepShown, keepFile, live,
    rotated, line, late, keepShim, daemonLog, keepHolder, archive, hk, keepFaults>>

InitKeep ==
    IF part \in {"KeepMail", "KeepLines", "KeepFiles"}
    THEN \/ part = "KeepMail" /\ KeepMail!Init
         \/ part = "KeepLines" /\ KeepLines!Init
         \/ part = "KeepFiles" /\ KeepFiles!Init
    ELSE keepDay = 0 /\ ahead = 0 /\ msg = 0 /\ agent = 0 /\ event = 0 /\ observed = 0
         /\ keepShown = 0 /\ keepFile = 0 /\ live = 0 /\ rotated = 0 /\ line = 0
         /\ late = 0 /\ keepShim = 0 /\ daemonLog = 0 /\ keepHolder = 0 /\ archive = 0 /\ hk = 0
         /\ keepFaults = 0

NextKeep ==
    \/ part = "KeepMail" /\ KeepMail!Next
    \/ part = "KeepLines" /\ KeepLines!Next
    \/ part = "KeepFiles" /\ KeepFiles!Next

-----------------------------------------------------------------------------
\* Two years and more from the start of the epoch, of a leap century, of a common one
\* and of a cycle.
Calendar == INSTANCE CivilDate WITH
    FirstYears <- {1970, 2000, 2100, 2400}, MaxTurns <- 800, day <- calendarDay

varsCalendar == <<calendarDay, year, month, dom>>

InitCalendar ==
    IF part \in {"Calendar"}
    THEN Calendar!Init
    ELSE calendarDay = 0 /\ year = 0 /\ month = 0 /\ dom = 0

NextCalendar ==
    \/ part = "Calendar" /\ Calendar!Turn

-----------------------------------------------------------------------------
\* An agent under the shim; an agent that bypasses it.
Shim == INSTANCE GitShim WITH
    Calls <- GuardedCalls, Config <- {"autostash"}, MaxOps <- 2, file <- shimFile,
    daemon <- shimDaemon, proc <- shimProc, ops <- shimOps, lost <- shimLost
ShimBypass == INSTANCE GitShim WITH
    Calls <- BypassCalls, Config <- {}, MaxOps <- 1, file <- shimFile, daemon <- shimDaemon,
    proc <- shimProc, ops <- shimOps, lost <- shimLost

varsShim == <<shimFile, tree, shimDaemon, shimProc, shimOps, stray, shimLost, touched>>

InitShim ==
    IF part \in {"Shim", "ShimBypass"}
    THEN \/ part = "Shim" /\ Shim!Init
         \/ part = "ShimBypass" /\ ShimBypass!Init
    ELSE shimFile = 0 /\ tree = 0 /\ shimDaemon = 0 /\ shimProc = 0 /\ shimOps = 0
         /\ stray = 0 /\ shimLost = 0 /\ touched = 0

NextShim ==
    \/ part = "Shim" /\ Shim!Next
    \/ part = "ShimBypass" /\ ShimBypass!Next

-----------------------------------------------------------------------------
\* Two heads of a task's branch, two steps of people on GitHub.
Forge == INSTANCE GithubForge WITH
    MaxHeads <- 2, MaxHuman <- 2, MaxOps <- 5, op <- forgeOp

varsForge == <<lhead, rb, pr, main, led, net, forgeOp, subm, done, made, lostf, early, over,
    human, started>>

InitForge ==
    IF part \in {"Forge"}
    THEN Forge!Init
    ELSE lhead = 0 /\ rb = 0 /\ pr = 0 /\ main = 0 /\ led = 0 /\ net = 0 /\ forgeOp = 0
         /\ subm = 0 /\ done = 0 /\ made = 0 /\ lostf = 0 /\ early = 0 /\ over = 0
         /\ human = 0 /\ started = 0

NextForge ==
    \/ part = "Forge" /\ Forge!Next

-----------------------------------------------------------------------------
vars == <<part, varsSupervisor, varsSwitch, varsAdmission, varsWatch, varsLife, varsService,
    varsStore, varsKeep, varsCalendar, varsShim, varsForge>>

Init ==
    /\ part \in Parts
    /\ InitSupervisor
    /\ InitSwitch
    /\ InitAdmission
    /\ InitWatch
    /\ InitLife
    /\ InitService
    /\ InitStore
    /\ InitKeep
    /\ InitCalendar
    /\ InitShim
    /\ InitForge

Next ==
    \/ /\ NextSupervisor
       /\ UNCHANGED <<part, varsSwitch, varsAdmission, varsWatch, varsLife, varsService,
             varsStore, varsKeep, varsCalendar, varsShim, varsForge>>
    \/ /\ NextSwitch
       /\ UNCHANGED <<part, varsSupervisor, varsAdmission, varsWatch, varsLife, varsService,
             varsStore, varsKeep, varsCalendar, varsShim, varsForge>>
    \/ /\ NextAdmission
       /\ UNCHANGED <<part, varsSupervisor, varsSwitch, varsWatch, varsLife, varsService,
             varsStore, varsKeep, varsCalendar, varsShim, varsForge>>
    \/ /\ NextWatch
       /\ UNCHANGED <<part, varsSupervisor, varsSwitch, varsAdmission, varsLife,
             varsService, varsStore, varsKeep, varsCalendar, varsShim, varsForge>>
    \/ /\ NextLife
       /\ UNCHANGED <<part, varsSupervisor, varsSwitch, varsAdmission, varsWatch,
             varsService, varsStore, varsKeep, varsCalendar, varsShim, varsForge>>
    \/ /\ NextService
       /\ UNCHANGED <<part, varsSupervisor, varsSwitch, varsAdmission, varsWatch, varsLife,
             varsStore, varsKeep, varsCalendar, varsShim, varsForge>>
    \/ /\ NextStore
       /\ UNCHANGED <<part, varsSupervisor, varsSwitch, varsAdmission, varsWatch, varsLife,
             varsService, varsKeep, varsCalendar, varsShim, varsForge>>
    \/ /\ NextKeep
       /\ UNCHANGED <<part, varsSupervisor, varsSwitch, varsAdmission, varsWatch, varsLife,
             varsService, varsStore, varsCalendar, varsShim, varsForge>>
    \/ /\ NextCalendar
       /\ UNCHANGED <<part, varsSupervisor, varsSwitch, varsAdmission, varsWatch, varsLife,
             varsService, varsStore, varsKeep, varsShim, varsForge>>
    \/ /\ NextShim
       /\ UNCHANGED <<part, varsSupervisor, varsSwitch, varsAdmission, varsWatch, varsLife,
             varsService, varsStore, varsKeep, varsCalendar, varsForge>>
    \/ /\ NextForge
       /\ UNCHANGED <<part, varsSupervisor, varsSwitch, varsAdmission, varsWatch, varsLife,
             varsService, varsStore, varsKeep, varsCalendar, varsShim>>

Spec == Init /\ [][Next]_vars

\* The variables of the part that runs.
moving ==
    CASE part = "SuperviseLive" -> varsSupervisor
      [] part = "SwitchLive" -> varsSwitch
      [] part = "WatchLive" -> varsWatch
      [] part = "LifeLive" -> varsLife
      [] part = "ServiceLive" -> varsService
      [] part = "StoreLive" -> varsStore

\* What the daemon and its host do by themselves: event loops, link threads and timers
\* run, the service manager starts the daemon again, an operator who began a removal
\* tries it again, a store that was refused is opened again. Nothing is assumed of
\* deaths, kills, faults, edits and clocks.
Goes(n) ==
    \/ /\ part = "SuperviseLive" /\ part' = part
       /\ \/ n = 1 /\ SuperviseLive!Handle
          \/ n = 2 /\ SuperviseLive!Start
          \/ n = 3 /\ SuperviseLive!BootStep
          \/ n = 4 /\ SuperviseLive!LinkNotices
          \/ n = 5 /\ \E g \in timers : SuperviseLive!TimerFires(g)
    \/ /\ part = "SwitchLive" /\ part' = part
       /\ \/ n = 1 /\ SwitchLive!Chain
          \/ n = 2 /\ SwitchLive!Died
          \/ n = 3 /\ SwitchLive!Tick
          \/ n = 4 /\ SwitchLive!TickRollback
          \/ n = 5 /\ SwitchLive!Expires
          \/ n = 6 /\ SwitchLive!Arrives
          \/ n = 7 /\ SwitchLive!TurnEnds
          \/ n = 8 /\ SwitchLive!Boot
    \/ /\ part = "WatchLive" /\ part' = part
       /\ \/ n = 1 /\ WatchLive!Monitor("i")
          \/ n = 2 /\ WatchLive!RefreshRead("i")
          \/ n = 3 /\ WatchLive!RefreshPublish("i")
          \/ n = 4 /\ WatchLive!Tick
          \/ n = 5 /\ WatchLive!Stopped
          \/ n = 6 /\ WatchLive!Restart
    \/ /\ part = "LifeLive" /\ part' = part
       /\ \/ n = 1 /\ LifeLive!Run("d1")
          \/ n = 2 /\ LifeLive!Forward("d1")
          \/ n = 3 /\ LifeLive!Take("d1")
          \/ n = 4 /\ LifeLive!Reap(1)
    \/ /\ part = "ServiceLive" /\ part' = part
       /\ \/ n = 1 /\ ServiceLive!Removing(1)
          \/ n = 2 /\ ServiceLive!Open(1, FALSE)
          \/ n = 3 /\ (\/ ServiceLive!Publish(1) \/ ServiceLive!Define(1) \/ ServiceLive!Register(1) \/ ServiceLive!Start(1) \/ ServiceLive!StartRefused(1) \/ ServiceLive!Registered(1))
          \/ n = 4 /\ ServiceLive!DaemonEnds
    \/ /\ part = "StoreLive" /\ part' = part
       /\ n = 1 /\ StoreLive!Retries("d1")

FairSpec ==
    /\ Spec
    /\ \A n \in 1 .. 8 : WF_moving(Goes(n))

-----------------------------------------------------------------------------
\* What the components assume of their constants.
ASSUME HostAssumption ==
    /\ Supervise!SupervisorAssumption
    /\ Switch!SwitchAssumption
    /\ Admission!AdmissionAssumption
    /\ WatchDisk!WatchAssumption
    /\ WatchRegistry!WatchAssumption
    /\ Life!LifeAssumption
    /\ ServiceSystemd!ServiceAssumption
    /\ ServiceLaunchd!ServiceAssumption
    /\ StoreLinks!StoreFileAssumption
    /\ StoreRename!StoreFileAssumption
    /\ StoreUpgrade!StoreFileAssumption
    /\ KeepMail!KeepAssumption
    /\ KeepLines!KeepAssumption
    /\ KeepFiles!KeepAssumption
    /\ Calendar!DayAssumption
    /\ Shim!ShimBounds
    /\ ShimBypass!ShimBounds
    /\ Forge!ForgeAssumption

\* One agent for an instance, its own session and holder, and restarts within the
\* budget, whatever dies.
\*   OneAgent: An instance never has two agents, whatever dies and whenever the daemon
\*     restarts, but for the accepted window before a pid is stored (supervisor.rs
\*     start, recovery).
\*   NeverFreshAgain: A session that was started is never launched fresh again, through
\*     deaths, crashes, reconnects and retries (supervisor.rs).
\*   OwnHolder: The holder of a name is the one made for its row, although names are
\*     reused and a removed instance can leave its holder behind.
\*   RestartsBounded: A restart is decided only when fewer than MAX_RESTARTS were
\*     decided in the window before it, over the whole history of the budget.
\*   GivesUpLate: The supervisor gives up only when MAX_RESTARTS restarts were decided
\*     in the window: one that has left it is forgotten.
\*   FailedIsListed: A failed instance is in front of the operator while the daemon
\*     runs, or its retry is on the way.
SupervisorSafe ==
    /\ part = "Supervise" => Supervise!TypeOK /\ Supervise!OneAgent
          /\ Supervise!NeverFreshAgain /\ Supervise!OwnHolder /\ Supervise!RestartsBounded
          /\ Supervise!GivesUpLate /\ Supervise!FailedIsListed

\* A backend's version is switched, admitted and observed as the one program that was
\* tested and seen.
\*   NothingCut: A switch of version never stops an agent while an input is on its way
\*     to it (backend switch: pause, drain).
\*   SourceKept: While a switch waits to be activated the stored launch is that of its
\*     source, so that it can be cancelled or committed after any death or crash.
\*   SettledVersion: When no switch is pending the attached agent is of the version the
\*     last switch settled on.
\*   RecordIsWhole: A version that has a record has one content of the source, whole,
\*     whatever was written to the source while it was copied (admission import).
\*   LastRunDecides: A report that says passed is the end of the canary that executed
\*     the copy last.
\*   CleanIsGone: A report that names no retained home is of a run that left nothing
\*     behind: no process, no home, no credentials.
\*   ObservedOnce: The output and the fingerprint that are recorded of an executable are
\*     of one file (version watch).
BackendSafe ==
    /\ part = "Switch" => Switch!TypeOK /\ Switch!NothingCut /\ Switch!SourceKept
          /\ Switch!SettledVersion
    /\ part = "Admission" => Admission!TypeOK /\ Admission!RecordIsWhole
          /\ Admission!LastRunDecides /\ Admission!CleanIsGone
    /\ part = "WatchDisk" => WatchDisk!TypeOK /\ WatchDisk!ObservedOnce
    /\ part = "WatchRegistry" => WatchRegistry!TypeOK

\* One daemon serves a home, of the build that its holders are of.
\*   SocketMeansReady: A socket file that a client can connect to is that of the daemon
\*     that has the database open and has finished its boot.
\*   ServingIsReachable: A daemon that serves can be reached: no other process removed
\*     its socket file.
\*   PinnedIsWhole: What is pinned under a digest has that digest, whatever was at the
\*     path while it was copied.
\*   HolderIsDaemon: A holder is of the same build as the daemon that started it,
\*     although the executable was replaced meanwhile.
\*   OneRestart: At most one restart of a daemon process is under way or decided.
DaemonSafe ==
    /\ part = "Life" => Life!TypeOK /\ Life!SocketMeansReady /\ Life!ServingIsReachable
          /\ Life!PinnedIsWhole /\ Life!HolderIsDaemon /\ Life!OneRestart

\* The file agend.db is the database that its stores wrote, whoever creates, upgrades
\* and removes it.
\*   ServesTheDatabase: A store that is open is the only one, and its file is the one
\*     named agend.db, whatever creators, uninstallers and killed processes do.
\*   PublishedIsWhole: An existing agend.db is always a database the store finished
\*     creating (store.rs:14), but for one that is published in place of a build whose
\*     name a remover of leftovers took (finding 9, store.rs:832).
\*   NothingLost: What a store accepted is in agend.db until somebody removes the home's
\*     data.
\*   UpgradeIsBackedUp: When a migration begins, backups/ has a snapshot of what is
\*     about to be migrated, and rotation never takes it.
\*   DowngradeIsPossible: After an upgrade backups/ has a snapshot that the binary of
\*     before opens (migrate.rs:4), unless a second attempt wrote over it (finding 10,
\*     snapshot.rs:250).
StoreSafe ==
    /\ part = "StoreLinks" => StoreLinks!TypeOK /\ StoreLinks!ServesTheDatabase
          /\ StoreLinks!PublishedIsWhole /\ StoreLinks!NothingLost
    /\ part = "StoreRename" => StoreRename!TypeOK /\ StoreRename!PublishedIsWhole
          /\ StoreRename!NothingLost
    /\ part = "StoreUpgrade" => StoreUpgrade!TypeOK /\ StoreUpgrade!ServesTheDatabase
          /\ StoreUpgrade!UpgradeIsBackedUp
          /\ StoreUpgrade!DowngradeIsPossible

\* What the service and the housekeeping keep can be found again, and what they delete
\* is no longer needed.
\*   FoundAgain: Whatever a killed or failed command of the service left, there is a
\*     receipt by which the next one finds it.
\*   OneBinary: The executable in place is the one of the receipt, also when two
\*     binaries install at once.
\*   InFlightIsKnown: A message that an agent has and has not answered is known to the
\*     daemon, however long ago it was sent (housekeeping of the outbox).
\*   CompletionOnce: An answer in the agent's history is reported once, although the log
\*     of what was reported is pruned.
\*   AuditKept: A line of the audit log can be read for its period: rotation neither
\*     replaces nor drops its file; but for a line appended while or after its file is
\*     rotated, which the code dates too early (finding 11, housekeeping.rs:243).
\*   RunningLogKept: The log of a running holder is there, whatever housekeeping
\*     deletes.
\*   NameIsTheDay: The name that the file of a day is given has the date of that day
\*     (civil_from_days).
\*   ReadBack: The day that a file's name is read back as is the day it was named for:
\*     no file is deleted early or late.
FilesSafe ==
    /\ part = "ServiceSystemd" => ServiceSystemd!TypeOK /\ ServiceSystemd!FoundAgain
          /\ ServiceSystemd!OneBinary
    /\ part = "ServiceLaunchd" => ServiceLaunchd!TypeOK /\ ServiceLaunchd!FoundAgain
    /\ part = "KeepMail" => KeepMail!TypeOK /\ KeepMail!InFlightIsKnown
          /\ KeepMail!CompletionOnce
    /\ part = "KeepLines" => KeepLines!TypeOK /\ KeepLines!AuditKept
    /\ part = "KeepFiles" => KeepFiles!TypeOK /\ KeepFiles!RunningLogKept
    /\ part = "Calendar" => Calendar!NameIsTheDay /\ Calendar!ReadBack

\* Neither an agent under the git shim nor the daemon on GitHub loses or publishes other
\* people's work.
\*   RefsAreOwn: Only refs of the instance's own task are written through the shim.
\*   NothingLost: No commit or change of another task is lost through a git command
\*     under the shim.
\*   HandsOff: Work trees of others are not touched through the shim.
\*   StaysOnBranch: A bound work tree stays on the branch of its task.
\*   HooksFirst: A bound work tree has its hooks before an agent is sent to it.
\*   WriteAhead: A write that is on its way to GitHub is in the ledger, whenever the
\*     daemon dies: no restart issues it a second time.
\*   ForeignKept: Nobody else's commits on the branch of a task are overwritten or
\*     deleted.
\*   OnePull: The daemon opens one pull request for a task, even when the reply is lost.
\*   MergedWasApproved: What the daemon merges on GitHub is the approved head, and it
\*     had been submitted.
\*   ReportIsTrue: A merge that is reported to the engine is on GitHub at exactly that
\*     head.
\*   BranchKept: The branch is not deleted while the merge of the daemon's pull request
\*     may still take effect.
WorkSafe ==
    /\ part = "Shim" => Shim!TypeOK /\ Shim!RefsAreOwn /\ Shim!NothingLost /\ Shim!HandsOff
          /\ Shim!StaysOnBranch /\ Shim!HooksFirst
    /\ part = "ShimBypass" => ShimBypass!TypeOK /\ ShimBypass!RefsAreOwn
    /\ part = "Forge" => Forge!TypeOK /\ Forge!WriteAhead /\ Forge!ForeignKept
          /\ Forge!OnePull /\ Forge!MergedWasApproved /\ Forge!ReportIsTrue
          /\ Forge!BranchKept

\* What no step of admission, observation and the daemon process may do.
\*   LaunchWasTested: The daemon launches only bytes that completed a canary as these
\*     bytes and under a daemon of its own bytes.
\*   ObservedItself: What is recorded as observed is of the program the row is about,
\*     not of one it was replaced by meanwhile.
\*   AckIsOfWhatWasSeen: An acknowledgement of a version is of what the operator has
\*     read, also when the instance was removed and added again in between.
\*   AckedStaysAway: A notice that was acknowledged does not come back.
\*   AskedSeldom: No source is asked more often than once an interval, whatever crashes
\*     or is set back between two checks of it.
\*   ChangeIsUnread: Whatever changes between two completed checks of one row is unread
\*     afterwards.
\*   NoExecAfterStop: A daemon process that was told to stop does not become another
\*     image.
DaemonSteps ==
    [][/\ part = "Admission" => Admission!LaunchWasTested
       /\ part = "WatchDisk" => WatchDisk!ObservedItself /\ WatchDisk!AckIsOfWhatWasSeen
             /\ WatchDisk!AckedStaysAway
       /\ part = "WatchRegistry" => WatchRegistry!AckedStaysAway /\ WatchRegistry!AskedSeldom
             /\ WatchRegistry!ChangeIsUnread
       /\ part = "Life" => Life!NoExecAfterStop]_vars

\* What no step of the service, the store and the forge may do.
\*   ForeignKept: No operation of the service changes an edited executable, an edited
\*     unit or a service of somebody else.
\*   DataSafe: Data is deleted only by a confirmed uninstall, and never under a running
\*     daemon or its holders.
\*   RemovedIsGone: When the receipt goes, all that it stood for has gone.
\*   HandsOffDamaged: A database that is damaged or newer than every binary is left
\*     exactly as it is, unless the home is removed (store.rs:17-22).
\*   LedgerFollows: Every save that the GitHub forge makes is one that the ledger
\*     accepts.
FilesSteps ==
    [][/\ part = "ServiceSystemd" => ServiceSystemd!ForeignKept /\ ServiceSystemd!DataSafe
             /\ ServiceSystemd!RemovedIsGone
       /\ part = "ServiceLaunchd" => ServiceLaunchd!ForeignKept /\ ServiceLaunchd!RemovedIsGone
       /\ part = "StoreUpgrade" => StoreUpgrade!HandsOffDamaged
       /\ part = "Forge" => Forge!LedgerFollows]_vars

\* An instance whose agent is dead is started again or given up; no death, lost event or crash
\* leaves it dead and watched for ever.
DeadIsHandled ==
    []<>(part = "SuperviseLive" =>
            ~SuperviseLive!HasRow \/ SuperviseLive!Alive \/ supervisorRow.status = "failed")

\* A switch that was committed, or a rollback that was begun, ends or is put in front of the
\* operator.
PendingEnds ==
    (part = "SwitchLive" /\ rec.phase \in {"Committed", "RollbackPrepared", "Restoring"})
        ~> (part = "SwitchLive" => rec.phase \in {"Activated", "RolledBack"} \/ rec.problem)

\* A replaced executable is observed in the end, or that it could not be.
ChangesAreObserved ==
    []<>(part = "WatchLive" =>
            \/ ~WatchLive!Watched("i") \/ watchRows["i"].error
            \/ watchRows["i"].latest = world[WatchLive!Scope("i")])

\* A version that the operator has not read is shown to him in the end.
UnreadIsShown ==
    []<>(part = "WatchLive" =>
            \/ ~WatchLive!Notice("i") \/ WatchLive!AlreadyCurrent("i")
            \/ \E it \in watchShown : it.id = WatchLive!Id("i"))

\* A daemon that was told to stop ends.
StopEnds == []<>(part = "LifeLive" => ~lifeProc["d1"].signalled)

\* A holder that has ended is reaped, also by the image that follows the one that started it.
ZombiesReaped == []<>(part = "LifeLive" => lifeHolder[1].state # "zombie")

\* A removal of the service that was begun is finished: no leftover of a failed one keeps the next
\* from going through.
RemovalEnds ==
    (part = "ServiceLive" /\ receipt.phase = "removing")
        ~> (part = "ServiceLive" => receipt.phase = "none")

\* No leftover of killed creations, of any age and kind, keeps a daemon from opening the store for
\* ever.
ComesUp == <>(part = "StoreLive" => storeProc["d1"].pc = "up")

\* What the daemon and its host have begun they finish.
HostGoesOn == DeadIsHandled /\ PendingEnds /\ ChangesAreObserved /\ UnreadIsShown
    /\ StopEnds /\ ZombiesReaped /\ RemovalEnds /\ ComesUp

=============================================================================
