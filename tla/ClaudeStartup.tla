---------------------------- MODULE ClaudeStartup ----------------------------
(***************************************************************************)
(* The menus Claude shows when it starts.  A task of the daemon reads the   *)
(* screen of every starting instance, waits until a known menu has been     *)
(* stable for a second, reserves the key in SQLite and asks the holder to   *)
(* write it.  The holder writes only if its generation and the revision of  *)
(* the screen are those the daemon saw.  Hooks halt the startup; a crash    *)
(* or a lost answer leaves the reservation as an intent.                    *)
(***************************************************************************)
EXTENDS Naturals, FiniteSets

CONSTANTS Menus,       \* menus that are answered with a key
          MaxLaunches, MaxRevision, MaxMishaps

StartupConstants == /\ "ready" \notin Menus
                           /\ MaxLaunches \in Nat /\ MaxRevision \in Nat /\ MaxMishaps \in Nat

VARIABLES row,     \* claude_startup: launch, generation, halted, keys
          holder,  \* generation, screen and its revision
          stable,  \* the observation cache of the task
          task,    \* where the task is with the key it wants to send
          pressed, \* the keys written to the terminal
          paused, mishaps

vars == <<row, holder, stable, task, pressed, paused, mishaps>>

Screens == Menus \cup {"ready", "other"}
\* [agend-daemon/src/claude_bridge/startup.rs:72-79] run: no observation
NoView == [launch |-> 0, gen |-> 0, rev |-> 0, menu |-> "other", ripe |-> FALSE]
NoTask == [pc |-> "none", launch |-> 0, gen |-> 0, rev |-> 0, menu |-> "other"]
Mishap == mishaps < MaxMishaps /\ mishaps' = mishaps + 1

\* [agend-daemon/src/store/claude_startup.rs:8-19] begin_claude_startup
Begin(launch) == [launch |-> launch, gen |-> 0, halted |-> FALSE,
                  keys |-> [m \in Menus |-> "none"]]

\* A new holder: the supervisor records the launch before it starts.
\* [agend-daemon/src/supervisor.rs:784-800] start
Launch ==
    /\ row.launch < MaxLaunches
    /\ row' = Begin(row.launch + 1)
    /\ \E s \in Screens : holder' = [gen |-> row.launch + 1, screen |-> s, rev |-> 0]
    /\ UNCHANGED <<stable, task, pressed, paused, mishaps>>

\* [external] output of Claude
ScreenChanges ==
    /\ holder.rev < MaxRevision
    /\ \E s \in Screens : holder' = [holder EXCEPT !.screen = s, !.rev = @ + 1]
    /\ UNCHANGED <<row, stable, task, pressed, paused, mishaps>>

\* [agend-daemon/src/store/claude_startup.rs:45-56] halt_claude_startup
Halt ==
    /\ ~row.halted /\ row' = [row EXCEPT !.halted = TRUE]
    /\ UNCHANGED <<holder, stable, task, pressed, paused, mishaps>>

\* [agend-daemon/src/claude_bridge/startup.rs:67-212] run: one look at the screen
Look ==
    LET view == [launch |-> row.launch, gen |-> holder.gen, rev |-> holder.rev,
                 menu |-> holder.screen, ripe |-> FALSE]
        same == stable = [view EXCEPT !.ripe = stable.ripe]
    IN  /\ task.pc = "none"
        /\ IF row.halted \/ holder.screen = "other" THEN stable' = NoView /\ UNCHANGED <<row, task>>
           ELSE IF holder.screen = "ready"
           THEN row' = [row EXCEPT !.halted = TRUE] /\ stable' = NoView /\ UNCHANGED task
           ELSE IF row.gen \notin {0, holder.gen} THEN stable' = NoView /\ UNCHANGED <<row, task>>
           ELSE IF ~same THEN stable' = view /\ UNCHANGED <<row, task>>
           ELSE IF ~stable.ripe THEN stable' = [stable EXCEPT !.ripe = TRUE] /\ UNCHANGED <<row, task>>
           ELSE /\ task' = [pc |-> "reserve", launch |-> row.launch, gen |-> holder.gen,
                            rev |-> holder.rev, menu |-> holder.screen]
                /\ UNCHANGED <<row, stable>>
        /\ UNCHANGED <<holder, pressed, paused, mishaps>>

\* [agend-daemon/src/store/claude_startup.rs:58-85] reserve_claude_startup_key
ReserveAllowed(t) ==
    /\ ~paused /\ row.launch = t.launch /\ ~row.halted /\ row.gen \in {0, t.gen}
    /\ row.keys[t.menu] = "none" /\ \A m \in Menus : row.keys[m] # "intent"

\* [agend-daemon/src/claude_bridge/startup.rs:213-232] run: the reservation
Reserve ==
    /\ task.pc = "reserve"
    /\ IF ReserveAllowed(task)
       THEN /\ row' = [row EXCEPT !.gen = task.gen, !.keys[task.menu] = "intent"]
            /\ task' = [task EXCEPT !.pc = "recheck"]
       ELSE task' = NoTask /\ UNCHANGED row
    /\ UNCHANGED <<holder, stable, pressed, paused, mishaps>>

\* [agend-daemon/src/claude_bridge/startup.rs:233-245] run: a hook may have halted it
Recheck ==
    /\ task.pc = "recheck"
    /\ task' = IF ~row.halted /\ row.launch = task.launch THEN [task EXCEPT !.pc = "control"] ELSE NoTask
    /\ UNCHANGED <<row, holder, stable, pressed, paused, mishaps>>

\* The holder compares what the daemon saw with what it shows.
\* [agend-holder/src/server/control.rs:41-59] validate: DaemonKey
KeyAccepted(t) == holder.gen = t.gen /\ holder.rev = t.rev
\* [agend-daemon/src/claude_bridge/startup.rs:246-258] run: the key goes to the holder
Control(answered) ==
    /\ task.pc = "control"
    /\ IF answered THEN UNCHANGED mishaps ELSE Mishap
    /\ IF KeyAccepted(task)
       THEN pressed' = pressed \cup {[launch |-> task.launch, menu |-> task.menu,
                            on |-> holder.screen, n |-> Cardinality(pressed)]}
       ELSE UNCHANGED pressed
    /\ task' = IF ~answered THEN NoTask
               ELSE [task EXCEPT !.pc = IF KeyAccepted(task) THEN "written" ELSE "refused"]
    /\ stable' = IF answered THEN stable ELSE NoView
    /\ UNCHANGED <<row, holder, paused>>

\* [agend-daemon/src/store/claude_startup.rs:87-102] finish_claude_startup_key
FinishKey(t) ==
    IF row.launch = t.launch /\ row.gen = t.gen /\ row.keys[t.menu] = "intent"
    THEN [row EXCEPT !.keys[t.menu] = IF t.pc = "written" THEN "written" ELSE "none"]
    ELSE row

\* [agend-daemon/src/claude_bridge/startup.rs:259-263] run: the outcome is recorded
Finish ==
    /\ task.pc \in {"written", "refused"}
    /\ row' = FinishKey(task)
    /\ task' = NoTask /\ stable' = NoView
    /\ UNCHANGED <<holder, pressed, paused, mishaps>>

\* A backend switch holds new keys back.
Pause == /\ Mishap /\ paused' = ~paused /\ UNCHANGED <<row, holder, stable, task, pressed>>
Crash == /\ Mishap /\ task' = NoTask /\ stable' = NoView
         /\ UNCHANGED <<row, holder, pressed, paused>>

Init ==
    /\ row = [Begin(1) EXCEPT !.launch = 1]
    /\ \E s \in Screens : holder = [gen |-> 1, screen |-> s, rev |-> 0]
    /\ stable = NoView /\ task = NoTask /\ pressed = {} /\ paused = FALSE /\ mishaps = 0

Next == \/ Launch \/ ScreenChanges \/ Halt \/ Look \/ Reserve \/ Recheck
        \/ \E answered \in BOOLEAN : Control(answered)
        \/ Finish \/ Pause \/ Crash

Spec == Init /\ [][Next]_vars

-----------------------------------------------------------------------------
\* No menu of one start is answered twice, whatever answers or processes were
\* lost in between (store/claude_startup.rs reserve_claude_startup_key).
KeyOnce == \A p, q \in pressed : p.launch = q.launch /\ p.menu = q.menu => p = q

\* Once the outcome of a key is unknown, no key of that start is written any
\* more: an intent that nobody is carrying out stays for good.
UnknownIsLast ==
    \A p \in pressed' \ pressed :
          \A m \in Menus \ {p.menu} : row.launch = p.launch => row.keys[m] # "intent"
=============================================================================
