------------------------------ MODULE BackendWatch ------------------------------
(***************************************************************************)
(* The observation of backend versions (agend-daemon: backend_versions/    *)
(* monitor.rs, system_monitor.rs, system_version.rs, version_probe.rs;     *)
(* store/backend_registry.rs, store/system_versions.rs; handlers/          *)
(* backend_registry.rs, backend_version.rs).                               *)
(*                                                                         *)
(* Two monitors ask the package registry what the latest version of a      *)
(* backend is, and the executables that instances are configured with what *)
(* they are.  A check is reserved in the database before it is made and    *)
(* completed after it; a change is a notice until the operator             *)
(* acknowledges exactly that change.  Executables are replaced, releases   *)
(* published and instances reconfigured at any moment, checks fail, the    *)
(* clock is set back, and the daemon is stopped or crashes between any two *)
(* steps.                                                                  *)
(***************************************************************************)
EXTENDS Integers, FiniteSets

CONSTANTS
    Backends,     \* watched in the registry
    Instances,    \* watched on disk
    Programs,     \* executables an instance may be configured with
    MaxVer,       \* versions a program or a package goes through
    Interval,     \* ticks between two checks of one source
    MaxFault,     \* failed checks, crashes, clock corrections
    MaxEdit       \* reconfigurations and stops

WatchAssumption ==
    /\ Interval \in Nat \ {0} /\ MaxVer \in Nat \ {0}
    /\ MaxFault \in Nat /\ MaxEdit \in Nat
    /\ Backends \cap Instances = {} /\ "npm" \notin Programs

VARIABLES
    world,        \* program or "npm" -> the version there now
    config,       \* instance -> the program it is configured with, "managed" or "gone"
    pinned,       \* the version of a managed instance
    rows,         \* source -> its row in backend_registry or system_versions
    since,        \* source -> now - started_ms of its row, at most Interval
    mon,          \* source -> the check a monitor is making
    ref,          \* source -> the refresh of its notices
    shown,        \* attention items in the fleet view (memory)
    up,           \* the daemon: "up", "stopping" (its monitors finish their check) or "down"
    gens,         \* generations given out
    faults, edits,
    seen,         \* ghost: items the operator has seen
    acked,        \* ghost: ids whose acknowledgement was accepted
    quiet         \* ghost: source -> time since its last check was begun

vars == <<world, config, pinned, rows, since, mon, ref, shown, up, gens, faults, edits,
          seen, acked, quiet>>

Sources == Backends \cup Instances
AttemptMod == 3

--------------------------------------------------------------------------------
\* [agend-daemon/src/store/backend_registry.rs:13-55] RegistryObservation, read, write; and
\* SystemVersionObservation: latest 0 is none.
NoRow == [gen |-> -1, scope |-> "gone", attempt |-> 0, done |-> FALSE, latest |-> 0,
          error |-> FALSE, rev |-> 0, ack |-> 0]

NoCheck == [pc |-> "idle", gen |-> -1, scope |-> "gone", attempt |-> 0, digest |-> 0, out |-> 0, ok |-> FALSE]
NoRefresh == [pc |-> "idle", item |-> {}]

\* [agend-daemon/src/store/system_versions.rs:10-43] scope, read, write: what a row is about.
Scope(s) == IF s \in Backends THEN "npm" ELSE config[s]

Init ==
    /\ world = [p \in Programs \cup {"npm"} |-> 1]
    /\ config \in [Instances -> IF Programs = {} THEN {"managed"} ELSE Programs]
    /\ pinned = 1
    /\ rows = [s \in Sources |-> NoRow]
    /\ since = [s \in Sources |-> Interval]
    /\ mon = [s \in Sources |-> NoCheck]
    /\ ref = [s \in Sources |-> NoRefresh]
    /\ shown = {}
    /\ up = "up"
    /\ gens = 0 /\ faults = 0 /\ edits = 0
    /\ seen = {} /\ acked = {}
    /\ quiet = [s \in Sources |-> Interval]

--------------------------------------------------------------------------------
(* The monitors. *)

\* [agend-daemon/src/backend_versions/monitor.rs:15-103] Monitor::start_with: the registry is
\* asked about backends the fleet runs managed.
\* [agend-daemon/src/backend_versions/system_monitor.rs:9-75] check: a managed executable has
\* its own verifier, an external one is asked.
Watched(s) == IF s \in Backends THEN \E i \in Instances : config[i] = "managed"
              ELSE config[s] \in Programs

Current(s) == rows[s].gen >= 0 /\ rows[s].scope = Scope(s)

\* Mutant: a source is asked once.
DueOnce(s) == ~Current(s)

\* [agend-daemon/src/store/backend_registry.rs:58-91] begin_registry_check
Due(s) == ~Current(s) \/ since[s] >= Interval

Asking(s) ==
    /\ up = "up"
    /\ mon[s].pc = "idle"
    /\ Watched(s) /\ Due(s)

Reserved(s) ==
    LET row == IF Current(s) THEN rows[s]
               ELSE [NoRow EXCEPT !.gen = IF s \in Backends THEN 0 ELSE gens + 1, !.scope = Scope(s)]
    IN [row EXCEPT !.attempt = (@ % AttemptMod) + 1, !.done = FALSE]

Ticket(s) == [NoCheck EXCEPT !.pc = "ask", !.gen = Reserved(s).gen, !.scope = Scope(s),
                             !.attempt = Reserved(s).attempt]

\* [agend-daemon/src/store/system_versions.rs:99-150] begin_system_version_check, and
\* begin_registry_check: the attempt is reserved before anything is asked.
Begin(s) ==
    /\ Asking(s)
    /\ rows' = [rows EXCEPT ![s] = Reserved(s)]
    /\ gens' = IF Reserved(s).gen > gens THEN gens + 1 ELSE gens
    /\ since' = [since EXCEPT ![s] = 0]
    /\ mon' = [mon EXCEPT ![s] = Ticket(s)]
    /\ quiet' = [quiet EXCEPT ![s] = 0]
    /\ UNCHANGED <<world, config, pinned, ref, shown, up, faults, edits, seen, acked>>

\* [agend-daemon/src/backend_versions/registry.rs:12-62] fetch; an executable's fingerprint is
\* taken first.
Ask(s) ==
    /\ mon[s].pc = "ask"
    /\ mon' = [mon EXCEPT ![s].pc = IF s \in Backends THEN "finish" ELSE "run",
                          ![s].digest = world[mon[s].scope], ![s].out = world[mon[s].scope],
                          ![s].ok = TRUE]
    /\ UNCHANGED <<world, config, pinned, rows, since, ref, shown, up, gens, faults, edits, seen, acked, quiet>>

\* [agend-daemon/src/backend_versions/version_probe.rs:12-146] version_line_in, probe_command:
\* the executable is run, with a deadline, and its process group removed.
Run(s) ==
    /\ mon[s].pc = "run"
    /\ mon' = [mon EXCEPT ![s].pc = "verify", ![s].out = world[mon[s].scope]]
    /\ UNCHANGED <<world, config, pinned, rows, since, ref, shown, up, gens, faults, edits, seen, acked, quiet>>

\* [agend-daemon/src/backend_versions/system_version.rs:9-76] observe: resolved again, the
\* file must be the one that was fingerprinted (inode, size and times, so not only its bytes).
UnchangedFile(s) == world[mon[s].scope] = mon[s].digest

Verify(s) ==
    /\ mon[s].pc = "verify"
    /\ mon' = [mon EXCEPT ![s].pc = "finish", ![s].ok = UnchangedFile(s)]
    /\ UNCHANGED <<world, config, pinned, rows, since, ref, shown, up, gens, faults, edits, seen, acked, quiet>>

\* [agend-daemon/src/backend_versions/system_monitor.rs:76-114] check: a failure is a result.
CheckFails(s) ==
    /\ mon[s].pc \in {"ask", "run", "verify"}
    /\ faults < MaxFault
    /\ faults' = faults + 1
    /\ mon' = [mon EXCEPT ![s].pc = "finish", ![s].ok = FALSE]
    /\ UNCHANGED <<world, config, pinned, rows, since, ref, shown, up, gens, edits, seen, acked, quiet>>

\* [agend-daemon/src/store/system_versions.rs:151-187] finish_system_version_check: the row
\* and the configuration are those of the ticket, and the clock was not set back before it.
Matches(s) ==
    /\ rows[s].gen = mon[s].gen /\ rows[s].attempt = mon[s].attempt
    /\ rows[s].scope = mon[s].scope /\ Scope(s) = mon[s].scope
    /\ ~rows[s].done
    /\ since[s] >= 0

\* [agend-daemon/src/store/system_versions.rs:188-214] finish_system_version_check, and
\* finish_registry_check: the first success on disk is no news, in the registry it is.
Completed(s) ==
    LET row == rows[s]
        new == [row EXCEPT !.latest = IF mon[s].ok THEN mon[s].out ELSE @, !.error = ~mon[s].ok]
        changed == (new.latest # row.latest \/ new.error # row.error)
                   /\ (s \in Backends \/ row.latest # 0 \/ row.error \/ new.error)
    IN [new EXCEPT !.done = TRUE, !.rev = IF changed THEN @ + 1 ELSE @]

\* [agend-daemon/src/store/backend_registry.rs:92-133] finish_registry_check
Finish(s) ==
    /\ mon[s].pc = "finish"
    /\ rows' = IF Matches(s) THEN [rows EXCEPT ![s] = Completed(s)] ELSE rows
    /\ mon' = [mon EXCEPT ![s] = NoCheck]
    /\ UNCHANGED <<world, config, pinned, since, ref, shown, up, gens, faults, edits, seen, acked, quiet>>

--------------------------------------------------------------------------------
(* Notices. *)

Id(s) == <<s, rows[s].gen, rows[s].rev>>

\* [agend-daemon/src/handlers/backend_version.rs:13-46] item, [refresh]
Notice(s) ==
    /\ Current(s)
    /\ s \in Instances => config[s] \in Programs
    /\ rows[s].rev # 0 /\ rows[s].ack # rows[s].rev

\* [agend-daemon/src/handlers/backend_registry.rs:72-104] already_current: the whole fleet
\* runs the latest version.
AlreadyCurrent(s) ==
    /\ s \in Backends
    /\ ~rows[s].error
    /\ \E i \in Instances : config[i] # "gone"
    /\ \A i \in Instances : config[i] # "gone" => config[i] = "managed" /\ pinned = rows[s].latest

\* [agend-daemon/src/handlers/backend_registry.rs:15-71] item, refresh
Expected(s) ==
    IF Notice(s) /\ ~AlreadyCurrent(s)
      THEN {[id |-> Id(s), latest |-> rows[s].latest, error |-> rows[s].error]} ELSE {}

\* [agend-daemon/src/handlers/backend_version.rs:47-64] refresh: under PUBLICATION, the rows
\* are read ...
RefreshRead(s) ==
    /\ up # "down"
    /\ ref[s].pc = "idle"
    /\ ref' = [ref EXCEPT ![s] = [pc |-> "publish", item |-> Expected(s)]]
    /\ UNCHANGED <<world, config, pinned, rows, since, mon, shown, up, gens, faults, edits, seen, acked, quiet>>

\* [agend-daemon/src/handlers/backend_version.rs:65-79] refresh: ... and the fleet view is
\* made to show them.
RefreshPublish(s) ==
    /\ ref[s].pc = "publish"
    /\ shown' = {it \in shown : it.id[1] # s} \cup ref[s].item
    /\ ref' = [ref EXCEPT ![s] = NoRefresh]
    /\ seen' = seen \cup ref[s].item
    /\ UNCHANGED <<world, config, pinned, rows, since, mon, up, gens, faults, edits, acked, quiet>>

\* [agend-daemon/src/handlers/backend_version.rs:80-128] acknowledge: under PUBLICATION too.
MayAck(s) == ref[s].pc = "idle"

\* Mutant: the current revision is taken as read.
AcksAny(id) == rows[id[1]].gen >= 0 /\ rows[id[1]].ack # rows[id[1]].rev

\* [agend-daemon/src/store/system_versions.rs:215-247] acknowledge_system_version, and
\* acknowledge_registry_observation: exactly this generation and this revision.
Acks(id) ==
    LET row == rows[id[1]]
    IN row.gen = id[2] /\ row.rev = id[3] /\ id[3] # 0 /\ row.ack # id[3] /\ row.scope = Scope(id[1])

\* [agend-daemon/src/handlers/backend_registry.rs:106-153] resolve: the operator acknowledges an
\* item he has seen, also one that is no longer shown.
Acknowledge ==
    /\ up # "down"
    /\ \E it \in seen :
        LET s == it.id[1]
        IN /\ MayAck(s) /\ Acks(it.id)
           /\ rows' = [rows EXCEPT ![s].ack = rows[s].rev]
           /\ shown' = {other \in shown : other.id # it.id}
           /\ acked' = acked \cup {it.id}
    /\ UNCHANGED <<world, config, pinned, since, mon, ref, up, gens, faults, edits, seen, quiet>>

--------------------------------------------------------------------------------
(* The world, time and the daemon. *)

\* An executable is replaced, or a release published.
Changes(p) ==
    /\ world[p] < MaxVer
    /\ world' = [world EXCEPT ![p] = @ + 1]
    /\ UNCHANGED <<config, pinned, rows, since, mon, ref, shown, up, gens, faults, edits, seen, acked, quiet>>

\* An instance gets another program, is removed with its row, or added again.
Reconfigure(i) ==
    /\ edits < MaxEdit
    /\ edits' = edits + 1
    /\ \E c \in Programs \cup {"managed", "gone"} :
        /\ c = config[i] => c = "managed"
        /\ config' = [config EXCEPT ![i] = c]
        /\ rows' = IF c = "gone" THEN [rows EXCEPT ![i] = NoRow] ELSE rows
        /\ IF c = "managed" THEN pinned' \in 1..MaxVer ELSE UNCHANGED pinned
    /\ UNCHANGED <<world, since, mon, ref, shown, up, gens, faults, seen, acked, quiet>>

Upto(n) == IF n < Interval THEN n + 1 ELSE n

Tick ==
    /\ \E s \in Sources : since[s] < Interval \/ quiet[s] < Interval
    /\ since' = [s \in Sources |-> Upto(since[s])]
    /\ quiet' = [s \in Sources |-> Upto(quiet[s])]
    /\ UNCHANGED <<world, config, pinned, rows, mon, ref, shown, up, gens, faults, edits, seen, acked>>

\* The clock is set back; what was started is then in the future.
ClockBack ==
    /\ faults < MaxFault
    /\ faults' = faults + 1
    /\ since' = [s \in Sources |-> IF since[s] < Interval THEN since[s] - 1 ELSE since[s]]
    /\ UNCHANGED <<world, config, pinned, rows, mon, ref, shown, up, gens, edits, seen, acked, quiet>>

\* [agend-daemon/src/backend_versions/monitor.rs:104-110] Monitor::stop: no other check is
\* begun, and the one that is being made is completed.
StopAsked ==
    /\ up = "up" /\ edits < MaxEdit
    /\ edits' = edits + 1
    /\ up' = "stopping"
    /\ UNCHANGED <<world, config, pinned, rows, since, mon, ref, shown, gens, faults, seen, acked, quiet>>

Down ==
    /\ up' = "down"
    /\ mon' = [s \in Sources |-> NoCheck]
    /\ ref' = [s \in Sources |-> NoRefresh]
    /\ shown' = {}
    /\ UNCHANGED <<world, config, pinned, rows, since, gens, edits, seen, acked, quiet>>

Stopped == up = "stopping" /\ (\A s \in Sources : mon[s].pc = "idle") /\ Down /\ UNCHANGED faults
Crash == up # "down" /\ faults < MaxFault /\ faults' = faults + 1 /\ Down

Restart ==
    /\ up = "down"
    /\ up' = "up"
    /\ UNCHANGED <<world, config, pinned, rows, since, mon, ref, shown, gens, faults, edits, seen, acked, quiet>>

Monitor(s) == Begin(s) \/ Ask(s) \/ Run(s) \/ Verify(s) \/ Finish(s)
Refresh(s) == RefreshRead(s) \/ RefreshPublish(s)

Next ==
    \/ \E s \in Sources : Monitor(s) \/ CheckFails(s) \/ Refresh(s)
    \/ Acknowledge
    \/ \E p \in Programs \cup {"npm"} : Changes(p)
    \/ \E i \in Instances : Reconfigure(i)
    \/ Tick \/ ClockBack
    \/ StopAsked \/ Stopped \/ Crash \/ Restart

Spec == Init /\ [][Next]_vars

--------------------------------------------------------------------------------
(* Properties. *)

TypeOK ==
    /\ config \in [Instances -> Programs \cup {"managed", "gone"}]
    /\ \A s \in Sources :
        /\ rows[s].latest \in 0..MaxVer /\ rows[s].ack <= rows[s].rev
        /\ rows[s].done => rows[s].latest # 0 \/ rows[s].error
        /\ since[s] <= Interval
    /\ up \in {"up", "stopping", "down"}

\* No source is asked more often than once an interval, whatever crashes, is restarted or
\* set back between two checks of it.
AskedSeldom ==
    \A s \in Sources : mon[s].pc = "idle" /\ mon'[s].pc = "ask" /\ Current(s)
        => quiet[s] >= Interval

\* What is recorded as observed is one version of the program the row is about: its output
\* and its fingerprint are of the same file, and it is not another program's.
ObservedOnce ==
    \A s \in Sources : mon[s].pc = "finish" /\ mon[s].ok => mon[s].out = mon[s].digest
ObservedItself ==
    \A s \in Sources : rows'[s].done /\ ~rows[s].done /\ rows[s].gen >= 0
        => mon[s].scope = rows[s].scope /\ Scope(s) = rows[s].scope

\* An acknowledgement is of what the operator has read: it never takes a change away that he
\* has not seen, also when the instance was removed and added again in between.
AckIsOfWhatWasSeen ==
    \A s \in Sources : rows'[s].gen = rows[s].gen /\ rows'[s].ack # rows[s].ack
        => [id |-> Id(s), latest |-> rows[s].latest, error |-> rows[s].error] \in seen

\* A notice that was acknowledged does not come back.
AckedStaysAway == \A it \in shown' \ shown : it.id \notin acked

\* Whatever changes between two completed checks of one row - the version or the failure of
\* the check - is unread afterwards.
ChangeIsUnread ==
    \A s \in Sources :
        rows[s].gen >= 0 /\ rows'[s].gen = rows[s].gen
        /\ <<rows[s].latest, rows[s].error>> # <<rows'[s].latest, rows'[s].error>>
        /\ (rows[s].latest # 0 \/ rows'[s].error \/ s \in Backends) => rows'[s].ack # rows'[s].rev

================================================================================
