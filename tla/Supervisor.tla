----------------------------- MODULE Supervisor -----------------------------
(***************************************************************************)
(* The supervisor of one instance name: the event loop that starts an      *)
(* agent in a holder process, sees it die, restarts it within a budget,    *)
(* gives up, and starts it again when the operator asks.  The daemon, the  *)
(* holder and the agent are processes of their own: each can die at any    *)
(* step of the others, and the agent can outlive its holder.               *)
(*                                                                         *)
(* Handlers of the event loop run one at a time, but `start` writes to     *)
(* SQLite after it has launched processes; those writes are steps of their *)
(* own (pc), so a crash can fall between them.                             *)
(***************************************************************************)
EXTENDS Integers, Sequences, FiniteSets

CONSTANTS Backends,      \* backends an operator may add
          MaxRestarts,   \* MAX_RESTARTS
          Window,        \* RESTART_WINDOW_MS, in ticks of the clock
          MaxTime,       \* bound: the clock
          MaxDeaths,     \* bound: deaths of agents, holders and driver links
          MaxCrashes,    \* bound: deaths of the daemon
          MaxOps         \* bound: operator commands

SupervisorAssumption ==
    /\ Backends \subseteq {"claude", "codex", "opencode"}
    /\ MaxRestarts \in Nat \ {0} /\ Window \in Nat \ {0}
    /\ {MaxTime, MaxDeaths, MaxCrashes, MaxOps} \subseteq Nat

VARIABLES
    row,       \* the instance's row in SQLite, or NoRow
    holder,    \* the holder process: state, its agent, the row it was made for
    agents,    \* agent processes alive
    pids,      \* agents launched so far: the next pid
    up,        \* the daemon runs
    pc,        \* where the running handler stands
    watch,     \* the Watch of the instance, or NoWatch
    link,      \* generation of the open holder link, 0 for none
    gens,      \* generations given out by this daemon
    drivers,   \* generations whose codex or OpenCode driver was started
    queue,     \* the event channel
    timers,    \* generations with a restart timer running
    item,      \* the needs-you item of a failed instance: its retry flag, or "none"
    now,
    deaths, crashes, ops,
    decided,   \* ghost: times of all restarts decided under the current budget
    gaveUp,    \* ghost: the budget was refused with restarts left in the window
    lost,      \* ghost: agents that lost their holder before their pid was stored
    again,     \* ghost: a started session was launched fresh
    rows       \* ghost: rows added so far

vars == <<row, holder, agents, pids, up, pc, watch, link, gens, drivers, queue,
          timers, item, now, deaths, crashes, ops, decided, gaveUp, lost, again, rows>>
ghosts == <<decided, gaveUp, lost, again, rows>>
faults == <<deaths, crashes, ops>>
procs == <<holder, agents, pids>>

NoRow == [backend |-> "none"]
NoHolder == [state |-> "none", agent |-> 0, owner |-> 0]
NoWatch == [state |-> "none", gen |-> 0, n |-> 0, budget |-> <<>>]
Idle == [at |-> "idle", resume |-> FALSE, n |-> 0, pid |-> 0]
HasRow == row # NoRow
Event(kind, g) == [kind |-> kind, gen |-> g]

Init ==
    /\ row = NoRow /\ holder = NoHolder /\ agents = {} /\ pids = 0
    /\ up = TRUE /\ pc = Idle /\ watch = NoWatch /\ link = 0 /\ gens = 0
    /\ drivers = {} /\ queue = <<>> /\ timers = {} /\ item = "none" /\ now = 0
    /\ deaths = 0 /\ crashes = 0 /\ ops = 0
    /\ decided = <<>> /\ gaveUp = FALSE /\ lost = {} /\ again = FALSE /\ rows = 0

-----------------------------------------------------------------------------
(* What the handlers are built from. *)

\* [agend-daemon/src/supervisor.rs:124-136] RestartBudget::next: the restarts still in the window
Retain(restarts) == SelectSeq(restarts, LAMBDA at : now - at < Window)

\* The restarts decided in the window, by the whole history.
Recent == Cardinality({k \in DOMAIN decided : now - decided[k] < Window})

\* [agend-daemon/src/supervisor.rs:148-203] session_args, and launch, which fails where it does: whether a start that resumes has a session
CanResume(r) == r.backend # "opencode" \/ r.session

\* [agend-daemon/src/supervisor.rs:261-294] failed_item: whether its item offers retry
RetryFlag(r) ==
    IF r.backend # "opencode" \/ ~r.started \/ r.session THEN "retry" ELSE "manual"

\* [agend-daemon/src/supervisor.rs:416-476] Supervisor::sweep: the agents left and the pid kept
Swept(r, h, alive) ==
    IF r.pid = 0 \/ (r.backend # "codex" /\ h.state # "none")
    THEN [agents |-> alive, pid |-> r.pid]
    ELSE [agents |-> alive \ {r.pid}, pid |-> 0]

\* [agend-daemon/src/supervisor.rs:886-894] Supervisor::watch
Watched(g) == [watch EXCEPT !.state = "Up", !.gen = g]

\* The part of a handler that gives up: the row is failed, the item listed.
\* [agend-daemon/src/supervisor.rs:899-926] Supervisor::fail
Fail(r) ==
    /\ row' = [r EXCEPT !.status = "failed"]
    /\ watch' = IF watch.state = "none" THEN watch ELSE [watch EXCEPT !.state = "Failed"]
    /\ item' = RetryFlag(r)
    /\ link' = 0
    /\ pc' = Idle

\* A start that could not be made is a death of the generation watched so far.
\* [agend-daemon/src/supervisor.rs:857-884] prepare_claude: StartFailed of the old generation
StartFails(q) ==
    /\ watch' = Watched(watch.gen)
    /\ queue' = Append(q, Event("startFailed", watch.gen))
    /\ pc' = Idle

\* [agend-daemon/src/runtime.rs:657-663] Inner::stop: the link is closed, the holder told to shut down
StopHolder ==
    /\ link' = 0
    /\ holder' = NoHolder
    /\ agents' = agents \ {holder.agent}

\* The holder answers no Shutdown in time and stays.
\* [agend-daemon/src/runtime.rs:684-714] shutdown_holder_within: still running
StopRefused == holder.state # "none" /\ link' = 0

-----------------------------------------------------------------------------
(* Starting: the checks, the holder, then the writes that follow it. *)

BeginStart(resume, n) == pc' = [Idle EXCEPT !.at = "start", !.resume = resume, !.n = n]

\* A check of `start` refuses: program, launch, OpenCode cleanup, reservation.
\* [agend-daemon/src/supervisor.rs:705-738] start: early returns through fail
StartRefused ==
    /\ pc.at = "start"
    /\ Fail(row)
    /\ UNCHANGED <<procs, up, gens, drivers, queue, timers, now, faults, ghosts>>

\* The sweep, the holder process and its Spawn.  The agent id is the pid the
\* holder answers with.  When the Spawn fails the holder may be left without
\* an agent, or with one whose pid the daemon never learnt.
\* [agend-daemon/src/supervisor.rs:739-818] start: sweep, prepare, runtime.start
StartSpawn ==
    /\ pc.at = "start"
    /\ LET s == Swept(row, holder, agents)
           p == pids + 1
           used == [state |-> "agent", agent |-> p, owner |-> row.id]
       IN /\ row' = [row EXCEPT !.pid = s.pid]
          /\ \/ /\ CanResume(row) \/ ~pc.resume
                /\ holder.state = "none"
                /\ holder' = used /\ agents' = s.agents \cup {p} /\ pids' = p
                /\ gens' = gens + 1 /\ link' = gens + 1
                /\ again' = (again \/ (row.started /\ ~pc.resume))
                /\ pc' = [pc EXCEPT !.at = "mark", !.pid = p]
                /\ UNCHANGED <<watch, queue>>
             \/ /\ deaths < MaxDeaths
                /\ StartFails(queue)
                /\ gens' = gens + 1
                /\ \/ holder' = holder /\ agents' = s.agents /\ UNCHANGED <<pids, again>>
                   \/ /\ holder.state = "none"
                      /\ holder' = [NoHolder EXCEPT !.state = "empty", !.owner = row.id]
                      /\ agents' = s.agents /\ UNCHANGED <<pids, again>>
                   \/ /\ holder.state = "none"
                      /\ holder' = used /\ agents' = s.agents \cup {p} /\ pids' = p
                      /\ again' = (again \/ (row.started /\ ~pc.resume))
                /\ UNCHANGED link
    /\ deaths' = IF pc'.at = "idle" THEN deaths + 1 ELSE deaths
    /\ UNCHANGED <<up, drivers, timers, item, now, crashes, ops, decided, gaveUp, lost, rows>>

\* [agend-daemon/src/supervisor.rs:846-854] mark_running: once the first Spawn was acknowledged
StartMark ==
    /\ pc.at = "mark"
    /\ row' = IF pc.resume THEN row ELSE [row EXCEPT !.status = "running", !.started = TRUE]
    /\ pc' = [pc EXCEPT !.at = "pid"]
    /\ UNCHANGED <<procs, up, watch, link, gens, drivers, queue, timers, item, now, faults, ghosts>>

\* [agend-daemon/src/supervisor.rs:478-545] record_agent_pid, then watch and connect_codex
StartPid ==
    /\ pc.at = "pid"
    /\ row' = IF pc.pid = 0 THEN row ELSE [row EXCEPT !.pid = pc.pid]
    /\ watch' = Watched(gens)
    /\ drivers' = IF row.backend = "claude" THEN drivers ELSE drivers \cup {gens}
    /\ pc' = Idle
    /\ UNCHANGED <<procs, up, link, gens, queue, timers, item, now, faults, ghosts>>

-----------------------------------------------------------------------------
(* The event loop. *)

Head1(kind) == up /\ pc = Idle /\ queue # <<>> /\ Head(queue).kind = kind

DeathKinds == {"exited", "gone", "startFailed"}

\* [agend-daemon/src/supervisor.rs:973-987] died: only a death of the generation watched, while Up
Current(e) == watch.state = "Up" /\ watch.gen = e.gen

\* Mutant: the orphan of a dead holder is left alone.
DiedUnswept ==
    /\ \E k \in DeathKinds : Head1(k)
    /\ LET e == Head(queue)
           kept == Retain(watch.budget)
       IN IF ~Current(e)
          THEN UNCHANGED <<row, agents, watch, timers, item, link, pc, decided, gaveUp>>
          ELSE /\ UNCHANGED agents
               /\ IF Len(kept) >= MaxRestarts
                  THEN /\ Fail([row EXCEPT !.pid = 0])
                       /\ gaveUp' = (gaveUp \/ Recent < MaxRestarts)
                       /\ UNCHANGED <<timers, decided>>
                  ELSE /\ row' = [row EXCEPT !.pid = 0]
                       /\ watch' = [watch EXCEPT !.state = "Restarting", !.n = Len(kept) + 1,
                                                 !.budget = Append(kept, now)]
                       /\ timers' = timers \cup {e.gen}
                       /\ decided' = Append(decided, now)
                       /\ UNCHANGED <<item, link, pc, gaveUp>>
    /\ queue' = Tail(queue)
    /\ UNCHANGED <<holder, pids, up, gens, drivers, now, faults, lost, again, rows>>

\* A death event.  A current one is swept (when the holder died), refused when
\* the session cannot be resumed, and otherwise charged to the budget.
\* [agend-daemon/src/supervisor.rs:988-1037] died: plan the restart or give up
Died ==
    /\ \E k \in DeathKinds : Head1(k)
    /\ LET e == Head(queue)
           s == IF e.kind = "gone" THEN Swept(row, holder, agents)
                                   ELSE [agents |-> agents, pid |-> row.pid]
           kept == Retain(watch.budget)
           r == [row EXCEPT !.pid = s.pid]
       IN IF ~Current(e)
          THEN UNCHANGED <<row, agents, watch, timers, item, link, pc, decided, gaveUp>>
          ELSE /\ agents' = s.agents
               /\ IF r.status = "running" /\ ~CanResume(r)
                  THEN Fail(r) /\ UNCHANGED <<timers, decided, gaveUp>>
                  ELSE IF Len(kept) >= MaxRestarts
                  THEN /\ Fail(r)
                       /\ gaveUp' = (gaveUp \/ Recent < MaxRestarts)
                       /\ UNCHANGED <<timers, decided>>
                  ELSE /\ row' = r
                       /\ watch' = [watch EXCEPT !.state = "Restarting", !.n = Len(kept) + 1,
                                                 !.budget = Append(kept, now)]
                       /\ timers' = timers \cup {e.gen}
                       /\ decided' = Append(decided, now)
                       /\ UNCHANGED <<item, link, pc, gaveUp>>
    /\ queue' = Tail(queue)
    /\ UNCHANGED <<holder, pids, up, gens, drivers, now, faults, lost, again, rows>>

\* The timer of a planned restart: the old holder is stopped first.
\* [agend-daemon/src/supervisor.rs:1039-1070] Supervisor::restart
Restart ==
    /\ Head1("restart")
    /\ queue' = Tail(queue)
    /\ IF watch.state = "Restarting" /\ watch.gen = Head(queue).gen
       THEN \/ StopHolder /\ BeginStart(row.status = "running", watch.n)
               /\ UNCHANGED <<row, watch, item>>
            \/ StopRefused /\ Fail(row) /\ UNCHANGED <<holder, agents>>
       ELSE UNCHANGED <<row, holder, agents, watch, item, link, pc>>
    /\ UNCHANGED <<pids, up, gens, drivers, timers, now, faults, ghosts>>

\* The operator's retry: the old holder is stopped, the watch dropped, and a
\* session that was started is resumed.
\* [agend-daemon/src/supervisor.rs:931-969] Supervisor::retry
Retry ==
    /\ Head1("retry")
    /\ queue' = Tail(queue)
    /\ \/ ~HasRow /\ StopHolder /\ UNCHANGED <<row, watch, item, pc, decided>>
       \/ /\ HasRow /\ StopHolder
          /\ row' = [row EXCEPT !.status = IF row.started THEN "running" ELSE "new"]
          /\ watch' = NoWatch /\ decided' = <<>>
          /\ BeginStart(row.started, 0)
          /\ UNCHANGED item
       \/ /\ HasRow /\ StopRefused /\ Fail(row)
          /\ UNCHANGED <<holder, agents, decided>>
    /\ UNCHANGED <<pids, up, gens, drivers, timers, now, faults, gaveUp, lost, again, rows>>

\* An add: refused when the name has a row or a holder that runs.
\* [agend-daemon/src/supervisor.rs:1074-1170] add and new_instance
Add ==
    /\ \E b \in Backends : Head1(b)
    /\ queue' = Tail(queue)
    /\ IF HasRow \/ holder.state # "none" THEN UNCHANGED <<row, rows, pc>>
       ELSE /\ rows' = rows + 1
            /\ row' = [backend |-> Head(queue).kind, status |-> "new", started |-> FALSE,
                       session |-> FALSE, pid |-> 0, id |-> rows + 1]
            /\ BeginStart(FALSE, 0)
    /\ UNCHANGED <<procs, up, watch, link, gens, drivers, timers, item, now, faults,
                   decided, gaveUp, lost, again>>

\* A remove: the watch goes first, the holder has five seconds to stop, the
\* agent is swept, the row and its item go.  (The instance holds no task.)
\* [agend-daemon/src/supervisor.rs:1174-1225] Supervisor::remove
Remove ==
    /\ Head1("remove")
    /\ queue' = Tail(queue)
    /\ IF ~HasRow THEN UNCHANGED <<row, holder, agents, watch, item, link, decided>>
       ELSE /\ \E h \in {holder, NoHolder} :
                LET alive == IF h = NoHolder THEN agents \ {holder.agent} ELSE agents
                    left == Swept(row, h, alive).agents
                IN /\ agents' = left
                   /\ holder' = IF h.agent \in left \/ h.state # "agent" THEN h
                                ELSE [h EXCEPT !.state = "exited"]
            /\ watch' = NoWatch /\ link' = 0 /\ decided' = <<>>
            /\ row' = NoRow /\ item' = "none"
    /\ UNCHANGED <<pids, up, pc, gens, drivers, timers, now, faults, gaveUp, lost, again, rows>>

-----------------------------------------------------------------------------
(* Boot.  Everything in memory is new; the rows and the processes are not. *)

\* [agend-daemon/src/boot.rs:29-50] plan_boot: start where no holder runs
BootStart ==
    /\ up /\ pc.at = "boot" /\ HasRow /\ row.status # "failed" /\ holder.state = "none"
    /\ BeginStart(row.status = "running", 0)
    /\ UNCHANGED <<row, procs, up, watch, link, gens, drivers, queue, timers, item, now,
                   faults, ghosts>>

\* A failed instance is listed again; its agent is swept if its holder is gone.
\* [agend-daemon/src/supervisor.rs:548-602] boot: the failed rows
BootFailed ==
    /\ up /\ pc.at = "boot" /\ HasRow /\ row.status = "failed"
    /\ LET s == IF holder.state = "none" THEN Swept(row, holder, agents)
                ELSE [agents |-> agents, pid |-> row.pid]
       IN row' = [row EXCEPT !.pid = s.pid] /\ agents' = s.agents
    /\ item' = RetryFlag(row)
    /\ pc' = Idle
    /\ UNCHANGED <<holder, pids, up, watch, link, gens, drivers, queue, timers, now, faults, ghosts>>

\* [agend-daemon/src/supervisor.rs:605-637] boot: an orphan holder is told to shut down
BootOrphan ==
    /\ up /\ pc.at = "boot" /\ ~HasRow
    /\ \/ StopHolder
       \/ StopRefused /\ UNCHANGED <<holder, agents>>
    /\ pc' = Idle
    /\ UNCHANGED <<row, pids, up, watch, gens, drivers, queue, timers, item, now, faults, ghosts>>

\* A holder runs: attach and send Spawn again.  A holder with an agent
\* answers already_spawned, with no pid; one whose agent ended says so.
\* [agend-daemon/src/supervisor.rs:644-701] Supervisor::reconnect
Reconnect ==
    /\ up /\ pc.at = "boot" /\ HasRow /\ row.status # "failed" /\ holder.state # "none"
    /\ LET resume == row.status = "running"
           p == pids + 1
       IN \/ /\ gens' = gens + 1 /\ link' = gens + 1
             /\ IF holder.state = "empty"
                THEN /\ holder' = [holder EXCEPT !.state = "agent", !.agent = p]
                     /\ agents' = agents \cup {p} /\ pids' = p
                     /\ again' = (again \/ (row.started /\ ~(resume /\ CanResume(row))))
                     /\ pc' = [Idle EXCEPT !.at = "mark", !.resume = resume, !.pid = p]
                     /\ UNCHANGED queue
                ELSE /\ queue' = IF holder.state = "exited"
                                 THEN Append(queue, Event("exited", gens + 1)) ELSE queue
                     /\ pc' = [Idle EXCEPT !.at = "mark", !.resume = resume]
                     /\ UNCHANGED <<procs, again>>
             /\ UNCHANGED <<row, watch, item, deaths>>
          \/ /\ deaths < MaxDeaths /\ deaths' = deaths + 1
             /\ StartFails(queue)
             /\ UNCHANGED <<row, procs, link, gens, item, again>>
          \/ /\ Fail(row)
             /\ UNCHANGED <<procs, gens, queue, again, deaths>>
    /\ UNCHANGED <<up, drivers, timers, now, crashes, ops, decided, gaveUp, lost, rows>>

-----------------------------------------------------------------------------
(* The other processes, the operator and the clock. *)

Orphan(h) == IF h.agent \in agents /\ (~HasRow \/ row.pid # h.agent) THEN {h.agent} ELSE {}

\* [agend-daemon/src/runtime/link.rs:599-609] Worker::exited: the holder reports its agent's end
AgentExits ==
    /\ deaths < MaxDeaths /\ deaths' = deaths + 1
    /\ holder.state = "agent"
    /\ agents' = agents \ {holder.agent}
    /\ holder' = [holder EXCEPT !.state = "exited"]
    /\ queue' = IF up /\ link # 0 THEN Append(queue, Event("exited", link)) ELSE queue
    /\ UNCHANGED <<row, pids, up, pc, watch, link, gens, drivers, timers, item, now, crashes,
                   ops, ghosts>>

\* The connection broke and came back: the holder says again that its agent ended.
\* [agend-daemon/src/runtime/link.rs:611-646] read_until_closed: Exited on a new connection
LinkRepeats ==
    /\ deaths < MaxDeaths /\ deaths' = deaths + 1
    /\ up /\ link # 0 /\ holder.state = "exited"
    /\ queue' = Append(queue, Event("exited", link))
    /\ UNCHANGED <<row, procs, up, pc, watch, link, gens, drivers, timers, item, now, crashes,
                   ops, ghosts>>

\* The holder is killed; its agent hangs up, or survives as an orphan.
\* [external] the operating system: SIGKILL of a holder, SIGHUP ignored by its agent
HolderDies ==
    /\ deaths < MaxDeaths /\ deaths' = deaths + 1
    /\ holder.state # "none"
    /\ holder' = NoHolder
    /\ \/ agents' = agents \ {holder.agent} /\ lost' = lost
       \/ holder.agent \in agents /\ agents' = agents /\ lost' = lost \cup Orphan(holder)
    /\ UNCHANGED <<row, pids, up, pc, watch, link, gens, drivers, queue, timers, item, now,
                   crashes, ops, decided, gaveUp, again, rows>>

\* [agend-daemon/src/runtime/link.rs:650-677] Worker::reconnect: no holder has the lock
LinkNotices ==
    /\ up /\ link # 0 /\ holder.state = "none" /\ pc.at \notin {"mark", "pid"}
    /\ queue' = Append(queue, Event("gone", link))
    /\ link' = 0
    /\ UNCHANGED <<row, procs, up, pc, watch, gens, drivers, timers, item, now, faults, ghosts>>

\* The driver of a generation fails, at once or long after it was replaced.
\* [agend-daemon/src/supervisor.rs:497-545] connect_codex: StartFailed of its own generation
DriverFails(g) ==
    /\ up /\ g \in drivers /\ deaths < MaxDeaths
    /\ deaths' = deaths + 1
    /\ drivers' = drivers \ {g}
    /\ queue' = Append(queue, Event("startFailed", g))
    /\ UNCHANGED <<row, procs, up, pc, watch, link, gens, timers, item, now, crashes, ops, ghosts>>

\* OpenCode's first session is found and stored.
\* [agend-daemon/src/store/instances.rs:160-168] set_session_id
SessionFound ==
    /\ up /\ HasRow /\ row.backend = "opencode" /\ ~row.session /\ row.started
    /\ pc = Idle /\ watch.state = "Up" /\ holder.state = "agent"
    /\ row' = [row EXCEPT !.session = TRUE]
    /\ UNCHANGED <<procs, up, pc, watch, link, gens, drivers, queue, timers, item, now, faults, ghosts>>

\* [agend-daemon/src/supervisor.rs:1030-1034] the timer of a planned restart
TimerFires(g) ==
    /\ up /\ g \in timers
    /\ timers' = timers \ {g}
    /\ queue' = Append(queue, Event("restart", g))
    /\ UNCHANGED <<row, procs, up, pc, watch, link, gens, drivers, item, now, faults, ghosts>>

Tick ==
    /\ now < MaxTime /\ now' = now + 1
    /\ UNCHANGED <<row, procs, up, pc, watch, link, gens, drivers, queue, timers, item, faults, ghosts>>

\* A command of the operator enters the channel.  A retry takes the item off
\* the list at once.
\* [agend-daemon/src/supervisor.rs:206-252] Event: Add, Remove, Retry
Command(k) ==
    /\ up /\ ops < MaxOps /\ ops' = ops + 1
    /\ \/ k \in Backends \cup {"remove"} /\ item' = item
       \/ k = "retry" /\ item = "retry" /\ item' = "none"
    /\ queue' = Append(queue, Event(k, 0))
    /\ UNCHANGED <<row, procs, up, pc, watch, link, gens, drivers, timers, now, deaths, crashes, ghosts>>

\* The daemon dies, in the middle of a start or between two events.
Crash ==
    /\ up /\ crashes < MaxCrashes /\ crashes' = crashes + 1
    /\ up' = FALSE /\ pc' = Idle /\ watch' = NoWatch /\ link' = 0 /\ gens' = 0
    /\ drivers' = {} /\ queue' = <<>> /\ timers' = {} /\ item' = "none" /\ decided' = <<>>
    /\ UNCHANGED <<row, procs, now, deaths, ops, gaveUp, lost, again, rows>>

Boot ==
    /\ ~up /\ up' = TRUE /\ pc' = [Idle EXCEPT !.at = "boot"]
    /\ UNCHANGED <<row, procs, watch, link, gens, drivers, queue, timers, item, now, faults, ghosts>>

Handle == Died \/ Restart \/ Retry \/ Add \/ Remove
Start == StartRefused \/ StartSpawn \/ StartMark \/ StartPid
BootStep == Boot \/ BootStart \/ BootFailed \/ BootOrphan \/ Reconnect

Next ==
    \/ Handle
    \/ Start
    \/ BootStep
    \/ AgentExits \/ LinkRepeats \/ HolderDies \/ LinkNotices
    \/ \E g \in drivers : DriverFails(g)
    \/ SessionFound
    \/ \E g \in timers : TimerFires(g)
    \/ Tick \/ Crash
    \/ \E k \in Backends \cup {"remove", "retry"} : Command(k)

Spec == Init /\ [][Next]_vars


-----------------------------------------------------------------------------
(* What the supervisor promises. *)

TypeOK ==
    /\ row = NoRow \/ row \in [backend : Backends, status : {"new", "running", "failed"},
                               started : BOOLEAN, session : BOOLEAN, pid : 0..pids, id : 1..rows]
    /\ holder \in [state : {"none", "empty", "agent", "exited"}, agent : 0..pids, owner : 0..rows]
    /\ agents \subseteq 1..pids /\ lost \subseteq 1..pids
    /\ pc \in [at : {"idle", "boot", "start", "mark", "pid"}, resume : BOOLEAN,
               n : 0..MaxRestarts, pid : 0..pids]
    /\ watch \in [state : {"none", "Up", "Restarting", "Failed"}, gen : 0..gens,
                  n : 0..MaxRestarts, budget : Seq(0..MaxTime)]
    /\ Len(watch.budget) <= MaxRestarts
    /\ link \in 0..gens /\ drivers \subseteq 1..gens /\ timers \subseteq 0..gens
    /\ item \in {"none", "retry", "manual"}

\* An instance never has two agents: whatever dies and whenever the daemon
\* restarts, the old agent is gone before a new one is launched.  The
\* exception is an agent that lost its holder before the daemon had stored
\* its pid (the window gate 7 lists as accepted).
OneAgent == HasRow => Cardinality(agents \ lost) <= 1

\* A session that was started is never launched fresh again, through deaths,
\* failed starts, crashes, reconnects and retries.
NeverFreshAgain == ~again

\* The holder of a name is the one made for its row, although names are
\* reused and a removed instance can leave its holder behind.
OwnHolder == HasRow /\ holder.state # "none" => holder.owner = row.id

\* A restart is decided only when fewer than MAX_RESTARTS were decided in the
\* window before it, over the whole history of the budget.
RestartsBounded ==
    \A k \in DOMAIN decided :
        Cardinality({j \in 1 .. k - 1 : decided[k] - decided[j] < Window}) < MaxRestarts

\* The supervisor gives up only when MAX_RESTARTS restarts were decided in the
\* window: a restart that has left it is forgotten.
GivesUpLate == ~gaveUp

\* A failed instance is in front of the operator while the daemon runs: it is
\* listed, or its retry is on the way.
FailedIsListed ==
    up /\ pc = Idle /\ HasRow /\ row.status = "failed" =>
        item # "none" \/ \E k \in DOMAIN queue : queue[k].kind = "retry"

Alive == holder.state = "agent" /\ holder.agent \in agents

=============================================================================
