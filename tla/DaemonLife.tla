------------------------------ MODULE DaemonLife ------------------------------
(***************************************************************************)
(* The life of the daemon (agend-daemon: daemon.rs, daemon/stop_flag.rs,   *)
(* preflight.rs, reaper.rs, server.rs, backend_versions.rs, snapshot.rs,   *)
(* launcher.rs and running.rs under backend_versions/, handlers/           *)
(* operator.rs, supervisor.rs).                                            *)
(*                                                                         *)
(* A daemon opens the database, pins the executable it was started from,   *)
(* boots, binds its socket and serves.  It ends by a stop signal, or by a  *)
(* restart, which closes everything and executes another binary in the     *)
(* same process; its holders live on.  Two processes may be started for    *)
(* one home, the executable is replaced, stop signals and kills come at    *)
(* any moment, and holders end when they like.                             *)
(***************************************************************************)
EXTENDS Integers, Sequences, FiniteSets

CONSTANTS
    Procs,        \* process ids
    MaxVer,       \* contents the executable goes through
    MaxHold,      \* holders started
    MaxStarts,    \* processes started
    MaxSignals,   \* stop signals
    MaxRestarts,  \* restarts asked for
    MaxFault      \* kills and steps that fail

LifeAssumption ==
    /\ MaxVer \in Nat \ {0} /\ MaxHold \in Nat /\ MaxStarts \in Nat
    /\ MaxSignals \in Nat /\ MaxRestarts \in Nat /\ MaxFault \in Nat
    /\ Procs \cap {"nobody", "stale"} = {}

VARIABLES
    path,         \* the content of the agend executable at its path
    pinned,       \* digest -> content of its private copy, 0 if there is none
    db,           \* who has the database open
    socket,       \* who bound the socket file that is there; "stale" after a kill
    proc,         \* process -> its state
    holder,       \* holder -> its state
    starts, signals, restarts, faults

vars == <<path, pinned, db, socket, proc, holder, starts, signals, restarts, faults>>

Nobody == "nobody"
Vers == 1..MaxVer
Holders == 1..MaxHold

Off == [pc |-> "off", image |-> 0, from |-> "path", digest |-> 0, tmp |-> 0, handler |-> FALSE,
        flag |-> FALSE, handoff |-> FALSE, registered |-> FALSE, pending |-> FALSE,
        queue |-> <<>>, restarting |-> "no", target |-> "path", before |-> 0, why |-> "none",
        signalled |-> FALSE]
NoHolder == [state |-> "none", image |-> 0, by |-> 0, parent |-> Nobody, watched |-> FALSE]

Init ==
    /\ path = 1
    /\ pinned = [v \in Vers |-> 0]
    /\ db = Nobody /\ socket = Nobody
    /\ proc = [p \in Procs |-> Off]
    /\ holder = [h \in Holders |-> NoHolder]
    /\ starts = 0 /\ signals = 0 /\ restarts = 0 /\ faults = 0

Fault == faults < MaxFault /\ faults' = faults + 1
At(p, pc) == proc[p].pc = pc
To(p, pc) == proc' = [proc EXCEPT ![p].pc = pc]

\* The children of a process that ends have another parent, who reaps them.
Orphaned(p) ==
    holder' = [h \in Holders |->
        IF holder[h].parent # p THEN holder[h]
        ELSE [holder[h] EXCEPT !.parent = Nobody, !.watched = FALSE,
                               !.state = IF @ = "zombie" THEN "gone" ELSE @]]

\* The process ends: the database and its listener are closed with it.
Ends(p) ==
    /\ proc' = [proc EXCEPT ![p] = Off]
    /\ db' = IF db = p THEN Nobody ELSE db
    /\ socket' = IF socket = p THEN "stale" ELSE socket
    /\ Orphaned(p)

--------------------------------------------------------------------------------
(* Start. *)

Start(p) ==
    /\ At(p, "off") /\ starts < MaxStarts
    /\ starts' = starts + 1
    /\ proc' = [proc EXCEPT ![p] = [Off EXCEPT !.pc = "open", !.image = path]]
    /\ UNCHANGED <<path, pinned, db, socket, holder, signals, restarts, faults>>

\* Mutant: the database is opened also while another daemon has it.
OpenStoreShared(p) ==
    /\ At(p, "open")
    /\ db' = p
    /\ To(p, "capture")
    /\ UNCHANGED <<path, pinned, socket, holder, starts, signals, restarts, faults>>

\* [agend-daemon/src/daemon.rs:216-232] open_store: one daemon per home.
OpenStore(p) ==
    /\ At(p, "open")
    /\ db = Nobody
    /\ db' = p
    /\ To(p, "capture")
    /\ UNCHANGED <<path, pinned, socket, holder, starts, signals, restarts, faults>>

\* [agend-daemon/src/daemon.rs:93-189] run_with_policy: ten seconds for the database, and no
\* start without it.
GiveUp(p) ==
    /\ At(p, "open")
    /\ db # Nobody
    /\ Ends(p)
    /\ UNCHANGED <<path, pinned, starts, signals, restarts, faults>>

\* The file at the path the process was started from, as it is now.
Source(p) == IF proc[p].from = "path" THEN path ELSE pinned[proc[p].image]

\* [agend-daemon/src/backend_versions/running.rs:6-76] matches: the pathname still names the
\* process image.
RunningImage(p) == Source(p) = proc[p].image

\* [agend-daemon/src/backend_versions.rs:29-76] capture_running: hashed between two checks.
Capture(p) ==
    /\ At(p, "capture")
    /\ IF RunningImage(p)
         THEN /\ proc' = [proc EXCEPT ![p].pc = "pin", ![p].digest = Source(p)]
              /\ UNCHANGED <<db, socket, holder>>
         ELSE Ends(p)
    /\ UNCHANGED <<path, pinned, starts, signals, restarts, faults>>

\* [agend-daemon/src/backend_versions/snapshot.rs:11-67] verify, existing, pin_bound: a copy
\* that is there is verified and used, otherwise the source is copied to a temporary.
Pin(p) ==
    /\ At(p, "pin")
    /\ IF pinned[proc[p].digest] # 0
         THEN To(p, "prepare")
         ELSE proc' = [proc EXCEPT ![p].pc = "publish", ![p].tmp = Source(p)]
    /\ UNCHANGED <<path, pinned, db, socket, holder, starts, signals, restarts, faults>>

\* [agend-daemon/src/backend_versions.rs:251-292] fingerprint
CopyIsRight(p) == proc[p].tmp = proc[p].digest

\* [agend-daemon/src/backend_versions/snapshot.rs:68-153] pin_bound: renamed into place only
\* when its bytes have the digest; the temporary is removed.
PinPublish(p) ==
    /\ At(p, "publish")
    /\ IF CopyIsRight(p)
         THEN /\ pinned' = [pinned EXCEPT ![proc[p].digest] = proc[p].tmp]
              /\ To(p, "prepare")
              /\ UNCHANGED <<db, socket, holder>>
         ELSE Ends(p) /\ UNCHANGED pinned
    /\ UNCHANGED <<path, starts, signals, restarts, faults>>

\* [agend-daemon/src/backend_versions/launcher.rs:10-51] prepare: the copy is executed once.
Prepare(p) ==
    /\ At(p, "prepare")
    /\ To(p, "install")
    /\ UNCHANGED <<path, pinned, db, socket, holder, starts, signals, restarts, faults>>

\* [agend-daemon/src/daemon/stop_flag.rs:19-39] install: from here a stop signal sets a flag.
InstallFlags(p) ==
    /\ At(p, "install")
    /\ proc' = [proc EXCEPT ![p].pc = "register", ![p].handler = TRUE]
    /\ UNCHANGED <<path, pinned, db, socket, holder, starts, signals, restarts, faults>>

\* [agend-daemon/src/daemon.rs:247-264] forward_signal: from here it is also an event.
Register(p) ==
    /\ At(p, "register")
    /\ proc' = [proc EXCEPT ![p].pc = "check", ![p].registered = TRUE]
    /\ UNCHANGED <<path, pinned, db, socket, holder, starts, signals, restarts, faults>>

\* [agend-daemon/src/daemon.rs:272-300] serve: a signal that came before the events.
FlagRaised(p) == proc[p].flag

CheckFlag(p) ==
    /\ At(p, "check")
    /\ IF FlagRaised(p) THEN Ends(p) ELSE To(p, "rundir") /\ UNCHANGED <<db, socket, holder>>
    /\ UNCHANGED <<path, pinned, starts, signals, restarts, faults>>

\* [agend-daemon/src/daemon.rs:233-246] prepare_run_dir: whatever socket file is there goes.
RunDir(p) ==
    /\ At(p, "rundir")
    /\ socket' = Nobody
    /\ To(p, "boot")
    /\ UNCHANGED <<path, pinned, db, holder, starts, signals, restarts, faults>>

\* [agend-daemon/src/reaper.rs:24-87] inherited, watch: a holder that was this process's child
\* before the restart is reaped or waited for.
Inherited(p) ==
    [h \in Holders |->
        IF holder[h].parent # p THEN holder[h]
        ELSE [holder[h] EXCEPT !.state = IF @ = "zombie" THEN "gone" ELSE @, !.watched = TRUE]]

\* [agend-daemon/src/daemon.rs:302-368] serve: housekeeping, shims, the boot plan.
Boot(p) ==
    /\ At(p, "boot")
    /\ holder' = Inherited(p)
    /\ To(p, "bind")
    /\ UNCHANGED <<path, pinned, db, socket, starts, signals, restarts, faults>>

\* [agend-daemon/src/server.rs:78-132] bind, start: the file is made and accepted on.
Listen(p) == socket' = p

\* [agend-daemon/src/daemon.rs:369-441] serve: only a booted daemon can be connected to.
Bind(p) ==
    /\ At(p, "bind")
    /\ Listen(p)
    /\ To(p, "serve")
    /\ UNCHANGED <<path, pinned, db, holder, starts, signals, restarts, faults>>

--------------------------------------------------------------------------------
(* Service and restart. *)

\* [agend-daemon/src/runtime.rs:541-600] start: a holder is the private copy, executed.
StartHolder(p) ==
    /\ At(p, "serve")
    /\ \E h \in Holders :
        /\ holder[h].state = "none"
        /\ \A other \in Holders : holder[other].state = "none" => h <= other
        /\ holder' = [holder EXCEPT ![h] = [state |-> "running", image |-> pinned[proc[p].digest],
                                            by |-> proc[p].image, parent |-> p, watched |-> TRUE]]
    /\ UNCHANGED <<path, pinned, db, socket, proc, starts, signals, restarts, faults>>

HolderExits(h) ==
    /\ holder[h].state = "running"
    /\ holder' = [holder EXCEPT ![h].state = IF holder[h].parent = Nobody THEN "gone" ELSE "zombie"]
    /\ UNCHANGED <<path, pinned, db, socket, proc, starts, signals, restarts, faults>>

Reap(h) ==
    /\ holder[h].state = "zombie" /\ holder[h].watched
    /\ holder' = [holder EXCEPT ![h].state = "gone"]
    /\ UNCHANGED <<path, pinned, db, socket, proc, starts, signals, restarts, faults>>

\* The file a restart is asked for: the operator's own executable, or the copy.
Target(p) == IF proc[p].target = "path" THEN path ELSE pinned[proc[p].digest]

\* [agend-daemon/src/handlers/operator.rs:365-373] restart: one at a time.
MayRestart(p) == proc[p].restarting = "no"

\* [agend-daemon/src/handlers/operator.rs:374-412] preflight: the binary is tried in a home of
\* its own, which goes with it.
RestartAsked(p) ==
    /\ At(p, "serve") /\ restarts < MaxRestarts
    /\ MayRestart(p)
    /\ restarts' = restarts + 1
    /\ \E target \in {"path", "pinned"} :
        proc' = [proc EXCEPT ![p].restarting = "preflight", ![p].target = target,
                    ![p].before = IF target = "path" THEN path ELSE pinned[proc[p].digest]]
    /\ UNCHANGED <<path, pinned, db, socket, holder, starts, signals, faults>>

\* [agend-daemon/src/handlers/operator.rs:492-592] preflight: it passed, and is still the same
\* file; the answer goes out before the supervisor is told.
PreflightPasses(p) ==
    /\ At(p, "serve") /\ proc[p].restarting = "preflight"
    /\ IF Target(p) = proc[p].before
         THEN proc' = [proc EXCEPT ![p].restarting = "yes", ![p].queue = Append(@, "exec")]
         ELSE proc' = [proc EXCEPT ![p].restarting = "no"]
    /\ UNCHANGED <<path, pinned, db, socket, holder, starts, signals, restarts, faults>>

\* [agend-daemon/src/preflight.rs:33-110] run, db_copy, holder: any of its steps fails.
PreflightFails(p) ==
    /\ At(p, "serve") /\ proc[p].restarting = "preflight"
    /\ Fault
    /\ proc' = [proc EXCEPT ![p].restarting = "no"]
    /\ UNCHANGED <<path, pinned, db, socket, holder, starts, signals, restarts>>

Forward(p) ==
    /\ proc[p].registered /\ proc[p].pending
    /\ proc[p].pc \in {"check", "rundir", "boot", "bind", "serve"}
    /\ proc' = [proc EXCEPT ![p].pending = FALSE, ![p].queue = Append(@, "stop")]
    /\ UNCHANGED <<path, pinned, db, socket, holder, starts, signals, restarts, faults>>

\* [agend-daemon/src/supervisor.rs:1228-1334] run: events are taken in their order.
Take(p) ==
    /\ At(p, "serve") /\ proc[p].queue # <<>>
    /\ proc' = [proc EXCEPT ![p].pc = "drain", ![p].why = Head(proc[p].queue), ![p].queue = <<>>]
    /\ UNCHANGED <<path, pinned, db, socket, holder, starts, signals, restarts, faults>>

\* [agend-daemon/src/server.rs:141-197] stop, accept_loop: the socket file is removed, every
\* connection ended and with it a preflight.
StopServer(p) ==
    /\ At(p, "drain")
    /\ socket' = Nobody
    /\ To(p, "close")
    /\ UNCHANGED <<path, pinned, db, holder, starts, signals, restarts, faults>>

\* [agend-daemon/src/daemon.rs:462-487] serve: holder connections, then the database.
CloseStore(p) ==
    /\ At(p, "close")
    /\ IF proc[p].why = "stop" THEN Ends(p)
       ELSE db' = Nobody /\ To(p, "handoff") /\ UNCHANGED <<socket, holder>>
    /\ UNCHANGED <<path, pinned, starts, signals, restarts, faults>>

\* [agend-daemon/src/daemon/stop_flag.rs:5-10] begin_exec_handoff: from here a signal ends the
\* process.
Handoff(p) ==
    /\ At(p, "handoff")
    /\ proc' = [proc EXCEPT ![p].pc = "decide", ![p].handoff = TRUE]
    /\ UNCHANGED <<path, pinned, db, socket, holder, starts, signals, restarts, faults>>

\* [agend-daemon/src/daemon.rs:190-203] run_with_policy: a signal that came before that.
Decide(p) ==
    /\ At(p, "decide")
    /\ IF proc[p].flag THEN Ends(p) ELSE To(p, "exec") /\ UNCHANGED <<db, socket, holder>>
    /\ UNCHANGED <<path, pinned, starts, signals, restarts, faults>>

\* [agend-daemon/src/daemon.rs:205-215] exec: the same process with another image; its threads
\* are gone, its children are not.
Exec(p) ==
    /\ At(p, "exec")
    /\ proc' = [proc EXCEPT ![p] = [Off EXCEPT !.pc = "open", !.from = proc[p].target,
                                               !.image = Target(p), !.signalled = proc[p].signalled]]
    /\ holder' = [h \in Holders |-> IF holder[h].parent = p THEN [holder[h] EXCEPT !.watched = FALSE]
                                    ELSE holder[h]]
    /\ UNCHANGED <<path, pinned, db, socket, starts, signals, restarts, faults>>

--------------------------------------------------------------------------------
(* Signals, failures, upgrades. *)

\* [agend-daemon/src/daemon/stop_flag.rs:26-34] the handler; without one, the signal's default
\* action.
Signal(p) ==
    /\ ~At(p, "off") /\ signals < MaxSignals
    /\ signals' = signals + 1
    /\ IF ~proc[p].handler \/ proc[p].handoff THEN Ends(p)
       ELSE /\ proc' = [proc EXCEPT ![p].flag = TRUE, ![p].signalled = TRUE,
                                    ![p].pending = proc[p].registered]
            /\ UNCHANGED <<db, socket, holder>>
    /\ UNCHANGED <<path, pinned, starts, restarts, faults>>

\* Killed, or a step fails and the process exits.
Dies(p) ==
    /\ ~At(p, "off")
    /\ Fault
    /\ Ends(p)
    /\ UNCHANGED <<path, pinned, starts, signals, restarts>>

Replaced ==
    /\ path < MaxVer
    /\ path' = path + 1
    /\ UNCHANGED <<pinned, db, socket, proc, holder, starts, signals, restarts, faults>>

Run(p) ==
    \/ OpenStore(p) \/ GiveUp(p) \/ Capture(p) \/ Pin(p) \/ PinPublish(p) \/ Prepare(p)
    \/ InstallFlags(p) \/ Register(p) \/ CheckFlag(p) \/ RunDir(p) \/ Boot(p) \/ Bind(p)
    \/ Forward(p) \/ Take(p) \/ StopServer(p) \/ CloseStore(p) \/ Handoff(p) \/ Decide(p) \/ Exec(p)

Next ==
    \/ \E p \in Procs : Start(p) \/ Run(p) \/ StartHolder(p) \/ RestartAsked(p)
                        \/ PreflightPasses(p) \/ PreflightFails(p) \/ Signal(p) \/ Dies(p)
    \/ \E h \in Holders : HolderExits(h) \/ Reap(h)
    \/ Replaced

Spec == Init /\ [][Next]_vars

--------------------------------------------------------------------------------
(* Properties. *)

Opened == {"capture", "pin", "publish", "prepare", "install", "register", "check", "rundir", "boot",
           "bind", "serve", "drain", "close"}

TypeOK ==
    /\ db \in Procs \cup {Nobody} /\ socket \in Procs \cup {Nobody, "stale"}
    /\ \A p \in Procs : proc[p].pc \in Opened <=> db = p
    /\ \A p \in Procs : Len(proc[p].queue) <= 2
    /\ \A h \in Holders : holder[h].state = "zombie" => holder[h].parent \in Procs

\* A socket file that a client can connect to is that of the one daemon that has the database
\* open and has finished its boot.
SocketMeansReady == \A p \in Procs : socket = p => db = p /\ proc[p].pc \in {"serve", "drain"}

\* A daemon that serves can be reached: no other process removed its socket file.
ServingIsReachable == \A p \in Procs : proc[p].pc = "serve" => socket = p

\* What is pinned under a digest has that digest, whatever was at the path while it was copied.
PinnedIsWhole == \A v \in Vers : pinned[v] \in {0, v}

\* A holder is of the same build as the daemon that started it, although the executable was
\* replaced meanwhile.
HolderIsDaemon == \A h \in Holders : holder[h].image = holder[h].by

\* A process that was told to stop does not become another image.
NoExecAfterStop ==
    \A p \in Procs : proc[p].signalled => ~(proc[p].pc = "exec" /\ proc'[p].pc = "open")

\* At most one restart of a process is under way or decided.
OneRestart == \A p \in Procs :
    /\ Cardinality({i \in DOMAIN proc[p].queue : proc[p].queue[i] = "exec"}) <= 1
    /\ proc[p].restarting = "preflight" => \A i \in DOMAIN proc[p].queue : proc[p].queue[i] # "exec"

================================================================================
