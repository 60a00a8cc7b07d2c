---------------------------- MODULE BackendSwitch ----------------------------
(***************************************************************************)
(* Switching one managed instance to another backend version and back.     *)
(* The switch record, the instance row and the launch intent are rows of   *)
(* SQLite; the holder and its agent are processes.  An activation is a     *)
(* chain of awaits (drain, stop, commit, reserve, spawn, store the pid),   *)
(* each an action of its own, and the daemon can die between any two.      *)
(*                                                                         *)
(* Ordinary restarts keep no budget here: module Supervisor has it.        *)
(***************************************************************************)
EXTENDS Naturals

CONSTANTS MaxSwitches, MaxDeaths, MaxCrashes, MaxRefusals, MaxBindings

SwitchAssumption ==
    {MaxSwitches, MaxDeaths, MaxCrashes, MaxRefusals, MaxBindings} \subseteq Nat

VARIABLES
    row,       \* program, status and agent pid of the instance
    intent,    \* the managed launch: its binding and its program
    rec,       \* the backend switch of the instance
    holder,    \* the holder: state and what it was launched with
    busy,      \* the agent is in a turn
    inflight,  \* an input is on its way to the agent
    up, pc,
    link,      \* the daemon is attached to the holder
    watch,     \* the instance is watched and Up
    dead,      \* the death event of the watched generation, or "none"
    expired,   \* the activation deadline has passed
    bindings, switches, deaths, crashes, refusals,
    cut        \* ghost: a switch stopped an agent with an input on its way

vars == <<row, intent, rec, holder, busy, inflight, up, pc, link, watch, dead, expired,
          bindings, switches, deaths, crashes, refusals, cut>>
counts == <<bindings, switches, deaths, crashes, refusals>>

Programs == {1, 2}
NoHolder == [state |-> "none", binding |-> 0, program |-> 1]
Idle == [at |-> "idle", back |-> FALSE]
At(a, b) == [at |-> a, back |-> b]

\* [agend-core/src/runtime_records/backend_switch.rs:22-31] BackendSwitchPhase::pending
Pending == rec.phase \in {"Prepared", "Committed", "RollbackPrepared", "Restoring"}

Init ==
    /\ row = [program |-> 1, status |-> "running", pid |-> 1]
    /\ intent = [binding |-> 1, program |-> 1]
    /\ rec = [phase |-> "none", from |-> 1, to |-> 1, prev |-> 0, problem |-> FALSE]
    /\ holder = [state |-> "agent", binding |-> 1, program |-> 1]
    /\ busy = FALSE /\ inflight = FALSE /\ up = TRUE /\ pc = Idle /\ link = TRUE
    /\ watch = TRUE /\ dead = "none" /\ expired = FALSE
    /\ bindings = 1 /\ switches = 0 /\ deaths = 0 /\ crashes = 0 /\ refusals = 0
    /\ cut = FALSE

Ready(a) == up /\ pc.at = a
Refuse == refusals < MaxRefusals /\ refusals' = refusals + 1

\* An activation that ends in an error: the caller is told; on the tick, and in
\* the recovery of a lost candidate, the error is stored as the problem.
\* [agend-daemon/src/supervisor/backend_switch.rs:14-67] show_switch_problem, report_switch_problem
Held == pc' = Idle /\ rec' = [rec EXCEPT !.problem = @ \/ pc.back]

-----------------------------------------------------------------------------
(* The commands. *)

\* The record that reserves a switch: only a completed one is replaced.
\* [agend-daemon/src/store/backend_switch.rs:114-171] prepare_backend_switch
Prepared(target) ==
    /\ ~Pending /\ intent.program = row.program
    /\ rec' = [phase |-> "Prepared", from |-> row.program, to |-> target,
               prev |-> intent.binding, problem |-> FALSE]

\* Reserve the switch; the program does not change.
\* [agend-daemon/src/supervisor/backend_switch.rs:184-245] backend_switch: Prepare
Prepare ==
    /\ Ready("idle") /\ switches < MaxSwitches /\ switches' = switches + 1
    /\ row.status = "running"
    /\ \E target \in Programs \ {intent.program} : Prepared(target)
    /\ UNCHANGED <<row, intent, holder, busy, inflight, up, pc, link, watch, dead, expired,
                   bindings, deaths, crashes, refusals, cut>>

\* Cancel; an instance that died while the switch was pending comes back.
\* [agend-daemon/src/supervisor/backend_switch.rs:94-183] backend_switch: which command, and Cancel
Cancel ==
    /\ Ready("idle") /\ rec.phase = "Prepared" /\ row.program = rec.from
    /\ rec' = [rec EXCEPT !.phase = "Cancelled", !.problem = FALSE]
    /\ pc' = IF row.status # "running" \/ (holder.state # "none" /\ link) THEN Idle
             ELSE At(IF holder.state = "none" THEN "start" ELSE "reconnect", FALSE)
    /\ UNCHANGED <<row, intent, holder, busy, inflight, up, link, watch, dead, expired,
                   counts, cut>>

\* [agend-daemon/src/store/backend_switch.rs:206-238] prepare_backend_rollback
RollbackIntent == [rec EXCEPT !.phase = "RollbackPrepared"]

\* Activate, or roll back: the phase must allow it and the destination must be
\* admitted.  The intent to roll back is stored before any side effect.
\* [agend-daemon/src/supervisor/switch_activation.rs:100-160] activate_switch: checks
Activate(back) ==
    /\ Ready("idle")
    /\ rec.phase \in IF back THEN {"Activated", "Committed", "RollbackPrepared"} ELSE {"Prepared"}
    /\ \/ /\ rec' = IF back THEN RollbackIntent ELSE rec
          /\ pc' = At("drain", back)
          /\ UNCHANGED refusals
       \/ Refuse /\ rec' = [rec EXCEPT !.problem = @ \/ back] /\ UNCHANGED pc
    /\ UNCHANGED <<row, intent, holder, busy, inflight, up, link, watch, dead, expired,
                   bindings, switches, deaths, crashes, cut>>

-----------------------------------------------------------------------------
(* The chain of an activation. *)

\* [agend-daemon/src/supervisor/switch_activation.rs:211-235] drain_switch_replies, wait_switch_workers
Drain ==
    /\ Ready("drain")
    /\ \/ ~inflight /\ pc' = At("stop", pc.back) /\ UNCHANGED <<rec, refusals>>
       \/ inflight /\ Refuse /\ Held
    /\ UNCHANGED <<row, intent, holder, busy, inflight, up, link, watch, dead, expired,
                   bindings, switches, deaths, crashes, cut>>

\* Asked of the driver: nothing runs in the agent's session.
\* [agend-daemon/src/claude_bridge.rs:47-126] session_idle, as of the other drivers
AgentIdle == ~busy

\* A holder that runs is stopped only if it is idle and proves the launch the
\* switch knows; a refusal keeps it and may drop the connection to it.
\* [agend-daemon/src/supervisor/switch_activation.rs:161-193] activate_switch: the exact stop
Stop ==
    /\ Ready("stop")
    /\ LET exact == /\ intent.program = row.program
                    /\ pc.back \/ intent.binding = rec.prev
                    /\ holder.binding = intent.binding
                    /\ AgentIdle
       IN \/ /\ holder.state = "none" \/ (exact /\ row.pid = holder.binding)
             /\ holder' = NoHolder /\ link' = FALSE /\ watch' = FALSE /\ dead' = "none"
             /\ row' = [row EXCEPT !.pid = 0]
             /\ cut' = (cut \/ (holder.state = "agent" /\ inflight))
             /\ busy' = FALSE /\ inflight' = FALSE
             /\ pc' = At("commit", pc.back)
             /\ UNCHANGED <<rec, refusals>>
          \/ /\ holder.state # "none"
             /\ \/ ~(exact /\ row.pid = holder.binding) /\ UNCHANGED refusals
                \/ Refuse
             /\ Held /\ link' \in {link, FALSE}
             /\ UNCHANGED <<row, holder, busy, inflight, watch, dead, cut>>
    /\ UNCHANGED <<intent, up, expired, bindings, switches, deaths, crashes>>

\* Program and phase change in one transaction, with a new deadline.
\* [agend-daemon/src/store/backend_switch.rs:242-307] commit_backend_switch
Commit ==
    /\ Ready("commit")
    /\ IF row.pid = 0 /\ (pc.back \/ intent.binding = rec.prev)
       THEN /\ row' = [row EXCEPT !.program = IF pc.back THEN rec.from ELSE rec.to]
            /\ rec' = [rec EXCEPT !.phase = IF pc.back THEN "Restoring" ELSE "Committed"]
            /\ expired' = FALSE
            /\ pc' = At("start", FALSE)
       ELSE Held /\ UNCHANGED <<row, expired>>
    /\ UNCHANGED <<intent, holder, busy, inflight, up, link, watch, dead, counts, cut>>

\* [agend-daemon/src/supervisor/managed.rs:55-92] reserve_managed: a new binding before the spawn
Reserve ==
    /\ Ready("start") /\ holder.state = "none" /\ bindings < MaxBindings
    /\ bindings' = bindings + 1
    /\ intent' = [binding |-> bindings + 1, program |-> row.program]
    /\ row' = [row EXCEPT !.pid = 0]
    /\ pc' = At("spawn", FALSE)
    /\ UNCHANGED <<rec, holder, busy, inflight, up, link, watch, dead, expired, switches,
                   deaths, crashes, refusals, cut>>

\* [agend-daemon/src/supervisor.rs:899-926] Supervisor::fail, from a check of start or reconnect
GiveUp ==
    /\ row' = [row EXCEPT !.status = "failed"]
    /\ link' = FALSE /\ watch' = FALSE /\ dead' = "none" /\ pc' = Idle

StartRefused ==
    /\ Ready("start") \/ Ready("reconnect")
    /\ Refuse /\ GiveUp
    /\ UNCHANGED <<intent, rec, holder, busy, inflight, up, expired, bindings, switches,
                   deaths, crashes, cut>>

\* The holder runs the agent under the binding; or the start fails, which is a
\* death of the watched generation.
\* [agend-daemon/src/runtime.rs:278-300] start_reserved
Spawn ==
    /\ Ready("spawn")
    /\ \/ /\ holder' = [state |-> "agent", binding |-> intent.binding, program |-> intent.program]
          /\ link' = TRUE /\ busy' \in BOOLEAN /\ pc' = At("pid", FALSE)
          /\ UNCHANGED <<watch, dead, refusals>>
       \/ /\ Refuse /\ watch' = TRUE /\ dead' = "startFailed" /\ pc' = Idle
          /\ UNCHANGED <<holder, link, busy>>
    /\ UNCHANGED <<row, intent, rec, inflight, up, expired, bindings, switches, deaths,
                   crashes, cut>>

\* The start of a session that exists resumes it, and leaves the status alone.
\* [agend-daemon/src/supervisor.rs:819-831] start: record the pid, watch
StartPid ==
    /\ Ready("pid")
    /\ row' = [row EXCEPT !.pid = intent.binding]
    /\ watch' = TRUE /\ pc' = Idle
    /\ dead' = IF holder.state = "agent" THEN "none"
               ELSE IF holder.state = "exited" THEN "exited" ELSE "gone"
    /\ UNCHANGED <<intent, rec, holder, busy, inflight, up, link, expired, counts, cut>>

\* [agend-daemon/src/supervisor/managed.rs:22-53] managed_reconnect, then attach_reserved
Reconnect ==
    /\ Ready("reconnect")
    /\ IF intent.program = row.program /\ holder.binding = intent.binding /\ holder.state # "none"
       THEN /\ link' = TRUE /\ watch' = TRUE /\ pc' = Idle
            /\ row' = [row EXCEPT !.pid = holder.binding]
            /\ dead' = IF holder.state = "exited" THEN "exited" ELSE "none"
       ELSE GiveUp
    /\ UNCHANGED <<intent, rec, holder, busy, inflight, up, expired, counts, cut>>

-----------------------------------------------------------------------------
(* Deaths, and the tick that finishes switches. *)

\* Mutant: a pending switch does not hold the ordinary recovery.
HoldsNothing == FALSE

\* [agend-daemon/src/supervisor/backend_switch.rs:78-92] switch_holds_recovery
HoldsRecovery == Pending

\* Only a native end of an agent, or of its holder, can roll a switch back.
MayRollBack ==
    \/ dead \in {"exited", "gone"} /\ rec.phase = "Committed"
    \/ dead = "exited" /\ rec.phase = "RollbackPrepared"

\* The candidate that died is the one the switch committed.
\* [agend-daemon/src/supervisor/switch_activation.rs:8-42] rollback_lost_candidate: identity
LostCandidate ==
    /\ MayRollBack
    /\ intent.binding # rec.prev /\ intent.program = rec.to /\ row.program = rec.to

\* The intent is stored, the holder of the dead agent stopped, and the chain
\* of a rollback entered; or a check of it refuses, before or after the intent.
\* [agend-daemon/src/supervisor/switch_activation.rs:43-73] rollback_lost_candidate: stop and restore
RollBackLost ==
    /\ dead' = "none" /\ UNCHANGED row
    /\ \/ /\ rec' = RollbackIntent
          /\ holder' = NoHolder /\ link' = FALSE /\ busy' = FALSE /\ inflight' = FALSE
          /\ watch' = FALSE /\ pc' = At("drain", TRUE)
          /\ UNCHANGED refusals
       \/ /\ Refuse
          /\ rec' \in {[rec EXCEPT !.problem = TRUE], [RollbackIntent EXCEPT !.problem = TRUE]}
          /\ UNCHANGED <<holder, link, busy, inflight, watch, pc>>

\* [agend-daemon/src/supervisor.rs:983-990] died: held by a switch, or restarted
Died ==
    /\ Ready("idle") /\ watch /\ dead # "none"
    /\ IF ~HoldsRecovery
       THEN /\ holder' = NoHolder /\ link' = FALSE /\ busy' = FALSE /\ inflight' = FALSE
            /\ watch' = FALSE /\ dead' = "none" /\ pc' = At("start", FALSE)
            /\ UNCHANGED <<rec, row, refusals>>
       ELSE IF LostCandidate
       THEN RollBackLost
       ELSE /\ rec' = [rec EXCEPT !.problem = @ \/ dead = "startFailed" \/ MayRollBack]
            /\ dead' = "none"
            /\ UNCHANGED <<row, holder, link, busy, inflight, watch, pc, refusals>>
    /\ UNCHANGED <<intent, up, expired, bindings, switches, deaths, crashes, cut>>

\* The agent of a failed instance, started again by the operator.
\* [agend-daemon/src/supervisor.rs:931-969] retry: refused while a switch is pending
Retry ==
    /\ Ready("idle") /\ row.status = "failed" /\ ~HoldsRecovery
    /\ holder' = NoHolder /\ link' = FALSE /\ busy' = FALSE /\ inflight' = FALSE
    /\ row' = [row EXCEPT !.status = "running"]
    /\ pc' = At("start", FALSE)
    /\ UNCHANGED <<intent, rec, up, watch, dead, expired, counts, cut>>

\* The holder says, over the connection there is, which launch it runs.
\* [agend-daemon/src/runtime.rs:335-398] verify_reserved
Proven ==
    /\ holder.state = "agent" /\ link /\ holder.binding = intent.binding
    /\ row.pid = holder.binding

\* The launch is a new one, its holder proves it, and the agent is idle.
\* [agend-daemon/src/supervisor/switch_activation.rs:323-354] finish_switch
Verified ==
    /\ intent.program = row.program /\ intent.binding # rec.prev
    /\ Proven /\ AgentIdle

\* [agend-daemon/src/store/backend_switch.rs:313-372] finish_backend_switch: the row must be running too
Finished == Verified /\ row.status = "running"

\* Every two seconds: a verified activation ends the switch; an expired one is
\* shown as a problem; a stored rollback intent is taken up again.
\* [agend-daemon/src/supervisor/switch_activation.rs:280-321] finish_switches
Tick ==
    /\ Ready("idle") /\ rec.phase \in {"Committed", "Restoring"}
    /\ \/ /\ Finished
          /\ rec' = [rec EXCEPT !.phase = IF rec.phase = "Committed" THEN "Activated"
                                          ELSE "RolledBack", !.problem = FALSE]
       \/ ~Finished /\ expired /\ ~rec.problem /\ rec' = [rec EXCEPT !.problem = TRUE]
    /\ UNCHANGED <<row, intent, holder, busy, inflight, up, pc, link, watch, dead, expired,
                   counts, cut>>

TickRollback == rec.phase = "RollbackPrepared" /\ Activate(TRUE)

-----------------------------------------------------------------------------
(* Deliveries, processes and the daemon. *)

\* [agend-daemon/src/store/backend_switch.rs:36-39] delivery_paused
DeliveryPaused == Pending

Deliver ==
    /\ up /\ ~DeliveryPaused /\ watch /\ link /\ holder.state = "agent" /\ ~inflight /\ ~busy
    /\ inflight' = TRUE
    /\ UNCHANGED <<row, intent, rec, holder, busy, up, pc, link, watch, dead, expired, counts, cut>>

\* The input arrives and starts a turn; a turn ends.
Arrives ==
    /\ inflight /\ inflight' = FALSE /\ busy' = (holder.state = "agent")
    /\ UNCHANGED <<row, intent, rec, holder, up, pc, link, watch, dead, expired, counts, cut>>

TurnEnds ==
    /\ busy /\ busy' = FALSE
    /\ UNCHANGED <<row, intent, rec, holder, inflight, up, pc, link, watch, dead, expired, counts, cut>>

Dies(s, event) ==
    /\ deaths < MaxDeaths /\ deaths' = deaths + 1
    /\ holder' = IF s = "none" THEN NoHolder ELSE [holder EXCEPT !.state = s]
    /\ busy' = FALSE
    /\ dead' = IF up /\ link /\ watch THEN event ELSE dead
    /\ UNCHANGED <<row, intent, rec, inflight, up, pc, link, watch, expired, bindings,
                   switches, crashes, refusals, cut>>

\* [agend-daemon/src/runtime/link.rs:599-609] Worker::exited, of a launch that was verified
AgentExits == holder.state = "agent" /\ Dies("exited", "exited")

\* [agend-daemon/src/runtime/link.rs:650-677] Worker::reconnect: HolderGone
HolderDies == holder.state # "none" /\ Dies("none", "gone")

\* [agend-core/src/runtime_records/backend_switch.rs:57-62] activation_expired
Expires ==
    /\ ~expired /\ rec.phase \in {"Committed", "Restoring"} /\ expired' = TRUE
    /\ UNCHANGED <<row, intent, rec, holder, busy, inflight, up, pc, link, watch, dead, counts, cut>>

Crash ==
    /\ up /\ crashes < MaxCrashes /\ crashes' = crashes + 1
    /\ up' = FALSE /\ pc' = Idle /\ link' = FALSE /\ watch' = FALSE /\ dead' = "none"
    /\ UNCHANGED <<row, intent, rec, holder, busy, inflight, expired, bindings, switches,
                   deaths, refusals, cut>>

\* Boot reconnects to a holder; without one it starts the instance, unless a
\* switch is pending: then only a destination that was committed is started.
\* [agend-daemon/src/supervisor/switch_activation.rs:237-277] recover_switch_start, from boot
Boot ==
    /\ ~up /\ up' = TRUE
    /\ pc' = IF row.status = "failed" THEN Idle
             ELSE IF holder.state # "none" THEN At("reconnect", FALSE)
             ELSE IF ~HoldsRecovery \/ rec.phase \in {"Committed", "Restoring"}
             THEN At("start", FALSE) ELSE Idle
    /\ UNCHANGED <<row, intent, rec, holder, busy, inflight, link, watch, dead, expired,
                   counts, cut>>

Chain == Drain \/ Stop \/ Commit \/ Reserve \/ StartRefused \/ Spawn \/ StartPid \/ Reconnect

Next ==
    \/ Prepare \/ Cancel \/ \E back \in BOOLEAN : Activate(back)
    \/ Chain \/ Died \/ Retry \/ Tick \/ TickRollback
    \/ Deliver \/ Arrives \/ TurnEnds \/ AgentExits \/ HolderDies \/ Expires
    \/ Crash \/ Boot

Spec == Init /\ [][Next]_vars

-----------------------------------------------------------------------------
TypeOK ==
    /\ row \in [program : Programs, status : {"running", "failed"}, pid : 0..bindings]
    /\ intent \in [binding : 1..bindings, program : Programs]
    /\ rec \in [phase : {"none", "Prepared", "Cancelled", "Committed", "Activated",
                         "RollbackPrepared", "Restoring", "RolledBack"},
                from : Programs, to : Programs, prev : 0..bindings, problem : BOOLEAN]
    /\ holder \in [state : {"none", "agent", "exited"}, binding : 0..bindings, program : Programs]
    /\ pc.at \in {"idle", "drain", "stop", "commit", "start", "spawn", "pid", "reconnect"}
    /\ dead \in {"none", "exited", "gone", "startFailed"}
    /\ {busy, inflight, up, link, watch, expired, cut} \subseteq BOOLEAN

\* A switch never stops an agent while an input is on its way to it: the
\* messages accepted before the pause reach the old version.
NothingCut == ~cut

\* While a switch waits to be activated its source launch stays the stored
\* one, so the switch can be cancelled, or commit, after any death or crash.
SourceKept == rec.phase = "Prepared" => intent.binding = rec.prev /\ row.program = rec.from

\* When no switch is pending, the attached agent is of the version the last
\* switch settled on: the target once activated, the source once cancelled or
\* rolled back.
SettledVersion ==
    link /\ watch /\ pc = Idle /\ holder.state = "agent" =>
        /\ rec.phase = "Activated" => holder.program = rec.to
        /\ rec.phase \in {"Cancelled", "RolledBack"} => holder.program = rec.from

=============================================================================
