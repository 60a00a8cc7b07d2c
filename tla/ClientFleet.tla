---------------------------- MODULE ClientFleet ----------------------------
(***************************************************************************)
(* What a client shows and what the daemon has.                            *)
(*                                                                         *)
(* fleet.rs keeps the view and the last Retained events under one lock;    *)
(* server.rs serves one connection per client: the view, then the events   *)
(* after its cursor, then the live ones; agend-client and the TUI's        *)
(* ClientSource fetch the view, subscribe after its cursor and apply what  *)
(* follows.  Requests of the operator go over a second connection that     *)
(* reconnects by itself.  The daemon may stop and boot again at any        *)
(* moment, a client may read too slowly, and two clients may act on one    *)
(* needs-you item.                                                         *)
(*                                                                         *)
(* Instances, tasks and needs-you items are functions to small numbers     *)
(* (0: not there).  An item is 2*episode, or 2*episode+1 once the pipeline *)
(* added what it unblocks.  Event ids continue across boots with a gap,    *)
(* like `base` = boot time in ms * 1000.                                   *)
(***************************************************************************)
EXTENDS Integers, Sequences, FiniteSets, TLC

CONSTANTS
    Clients,     \* the clients (TUIs)
    Insts,       \* the instances
    Notes,       \* needs-you items of the pipeline
    Tasks,       \* the tasks
    Retained,    \* RETAINED_EVENTS
    PipeCap,     \* lines a socket holds before its writer waits
    MaxEvents,   \* bound: events the daemon publishes
    MaxBoots,    \* bound: daemon boots
    MaxRequests  \* bound: requests of a client

Items == Insts \cup Notes
Gap == 10
None == 0

VARIABLES
    up, serving,  \* the daemon answers; its supervisor takes orders
    boot, events, \* boots so far; events published so far (the bound)
    latest, log,  \* fleet.rs: newest id, retained events
    teams, insts, tasks, att,    \* fleet.rs: the view
    known,        \* instances in the store
    copies,       \* snapshots the pipeline's refresh still holds
    raises, taken,\* ghosts: times an item was raised, times it was taken off to be retried
    cl,           \* clients: event connection and what they show (untold: a ghost, the teams
                  \* changed since the view that the client was given)
    rq, lines, replies, execs    \* request connections

fleet == <<boot, events, latest, log, teams, insts, tasks, att, known, copies, raises, taken>>
reqs == <<rq, lines, replies, execs>>
vars == <<up, serving, fleet, cl, reqs>>

View == [teams |-> teams, insts |-> insts, tasks |-> tasks, att |-> att]
Empty == [teams |-> 1, insts |-> [i \in Insts |-> 0], tasks |-> [t \in Tasks |-> 0],
          att |-> [a \in Items |-> 0]]

----------------------------------------------------------------------------
\* fleet.rs.  The log is a sequence of [id, what, key, val].

Event(what, key, val) == [what |-> what, key |-> key, val |-> val]
Last(s, n) == IF Len(s) > n THEN SubSeq(s, Len(s) - n + 1, Len(s)) ELSE s

\* [agend-daemon/src/fleet.rs:92-113] Fleet::publish, push: under the lock, the newest events stay.
Push(new) ==
    /\ events + Len(new) <= MaxEvents
    /\ events' = events + Len(new)
    /\ latest' = latest + Len(new)
    /\ log' = Last(log \o [k \in 1..Len(new) |-> [id |-> latest + k] @@ new[k]], Retained)

Idle == UNCHANGED <<up, serving, boot, cl, reqs>>
Same == UNCHANGED <<up, serving, boot, cl>>

\* [agend-daemon/src/fleet.rs:192-210] Fleet::set_instance: an equal view publishes nothing.
SetInstance(i, s) ==
    /\ insts[i] # s
    /\ insts' = [insts EXCEPT ![i] = s]
    /\ Push(<<Event("inst", i, s)>>)

\* [agend-daemon/src/supervisor.rs:373-397] Supervisor::show: the supervisor shows an instance it knows.
Show(i, s) ==
    /\ up /\ s > 0 /\ (insts[i] > 0 \/ i \notin known)
    /\ known' = known \cup {i}
    /\ SetInstance(i, s)
    /\ Idle /\ UNCHANGED <<teams, tasks, att, copies, raises, taken>>

\* [agend-daemon/src/fleet.rs:216-240] Fleet::remove_instance: the instance and its failed item leave together.
RemoveInstance(i) ==
    /\ up /\ i \in known
    /\ insts[i] > 0 \/ att[i] > 0
    /\ known' = known \ {i}
    /\ insts' = [insts EXCEPT ![i] = 0]
    /\ att' = [att EXCEPT ![i] = 0]
    /\ Push((IF insts[i] > 0 THEN <<Event("inst", i, 0)>> ELSE <<>>)
            \o (IF att[i] > 0 THEN <<Event("resolved", i, 0)>> ELSE <<>>))
    /\ Idle /\ UNCHANGED <<teams, tasks, copies, raises, taken>>

\* [agend-daemon/src/fleet.rs:242-254] Fleet::raise: a listed item stays as it is.
Raise(i) ==
    /\ up /\ i \in known /\ att[i] = 0
    /\ raises' = [raises EXCEPT ![i] = @ + 1]
    /\ att' = [att EXCEPT ![i] = 2 * raises'[i]]
    /\ Push(<<Event("required", i, 2 * raises'[i])>>)
    /\ Idle /\ UNCHANGED <<teams, insts, tasks, known, copies, taken>>

\* [agend-daemon/src/fleet.rs:128-138] Fleet::upsert_attention: a pipeline item, new or changed.
Upsert(a, v) ==
    /\ up /\ att[a] # v
    /\ att' = [att EXCEPT ![a] = v]
    /\ Push(<<Event("required", a, v)>>)
    /\ Idle /\ UNCHANGED <<teams, insts, tasks, known, copies, raises, taken>>

\* [agend-daemon/src/fleet.rs:114-127] Fleet::dismiss: the pipeline drops an item it no longer expects.
Dismiss(a) ==
    /\ up /\ att[a] > 0
    /\ att' = [att EXCEPT ![a] = 0]
    /\ Push(<<Event("resolved", a, 0)>>)
    /\ Idle /\ UNCHANGED <<teams, insts, tasks, known, copies, raises, taken>>

\* [agend-daemon/src/fleet.rs:164-190] Fleet::sync_tasks: every changed task gets its event.
SyncTasks(t, s) ==
    /\ up /\ tasks[t] # s
    /\ tasks' = [tasks EXCEPT ![t] = s]
    /\ Push(<<Event("task", t, s)>>)
    /\ Idle /\ UNCHANGED <<teams, insts, att, known, copies, raises, taken>>

\* [agend-daemon/src/pipeline/attention.rs:180-194] Engine::refresh: the teams as stored; no event (Fleet::set_teams).
SetTeams ==
    /\ up /\ events < MaxEvents
    /\ teams < 2
    /\ teams' = teams + 1
    /\ events' = events + 1
    /\ cl' = [c \in Clients |-> [cl[c] EXCEPT !.untold = TRUE]]
    /\ UNCHANGED <<up, serving, boot, latest, log, insts, tasks, att, known, copies, raises, taken, reqs>>

----------------------------------------------------------------------------
\* The pipeline's refresh copies the view, works on the copy and writes back
\* while the supervisor and the handlers go on.

\* [agend-daemon/src/pipeline/attention.rs:423-431] Engine::refresh: the failed items as they are now.
CopyItem(i) ==
    /\ up /\ att[i] > 0 /\ copies.item[i] = 0
    /\ copies' = [copies EXCEPT !.item[i] = att[i]]
    /\ Idle /\ UNCHANGED <<events, latest, log, teams, insts, tasks, att, known, raises, taken>>

\* [agend-daemon/src/fleet.rs:140-162] Fleet::replace_attention_if: only while the copied item is still the listed one.
ReplaceIf(i) ==
    /\ up /\ copies.item[i] > 0
    /\ copies' = [copies EXCEPT !.item[i] = 0]
    /\ LET item == 2 * (copies.item[i] \div 2) + 1 IN
       IF att[i] = copies.item[i] /\ att[i] # item
       THEN /\ att' = [att EXCEPT ![i] = item]
            /\ Push(<<Event("required", i, item)>>)
       ELSE UNCHANGED <<att, events, latest, log>>
    /\ Idle /\ UNCHANGED <<teams, insts, tasks, known, raises, taken>>

\* [agend-daemon/src/pipeline/attention.rs:191-194] Engine::refresh: the instances as they are now.
CopyInstance(i) ==
    /\ up /\ insts[i] > 0 /\ copies.inst[i] = 0
    /\ copies' = [copies EXCEPT !.inst[i] = insts[i]]
    /\ Idle /\ UNCHANGED <<events, latest, log, teams, insts, tasks, att, known, raises, taken>>

\* [agend-daemon/src/pipeline/attention.rs:193-198] Engine::refresh: the copy with its member's team is shown.
ShowCopy(i) ==
    /\ up /\ copies.inst[i] > 0
    /\ copies' = [copies EXCEPT !.inst[i] = 0]
    /\ \/ SetInstance(i, copies.inst[i])
       \/ /\ insts[i] = copies.inst[i]
          /\ UNCHANGED <<insts, events, latest, log>>
    /\ Idle /\ UNCHANGED <<teams, tasks, att, known, raises, taken>>

----------------------------------------------------------------------------
\* The daemon's life.

\* [agend-daemon/src/daemon.rs:467-490] serve: stopping ends the supervisor before the server closes.
Stopping ==
    /\ up /\ serving
    /\ boot < MaxBoots
    /\ serving' = FALSE
    /\ UNCHANGED <<up, fleet, cl, reqs>>

\* [agend-daemon/src/server.rs:139-200] Server::stop, accept_loop: every connection closes (a crash does the same).
Down ==
    /\ up /\ boot < MaxBoots
    /\ up' = FALSE
    /\ serving' = FALSE
    /\ copies' = [inst |-> [i \in Insts |-> 0], item |-> [i \in Insts |-> 0]]
    /\ lines' = {}
    /\ UNCHANGED <<boot, events, latest, log, teams, insts, tasks, att, known, raises, taken,
                   cl, rq, replies, execs>>

\* [agend-daemon/src/fleet.rs:61-81] Fleet::new: a higher base, no events; the view comes from the store.
Boot ==
    /\ ~up
    /\ up' = TRUE /\ serving' = TRUE
    /\ boot' = boot + 1
    /\ latest' = latest + Gap
    /\ log' = <<>>
    /\ insts' = [i \in Insts |-> IF i \notin known THEN 0
                                 ELSE IF att[i] > 0 THEN 2 ELSE 1]
    /\ UNCHANGED <<events, teams, tasks, att, known, copies, raises, taken, cl, reqs>>

----------------------------------------------------------------------------
\* The event connection: client side (TUI source) and server side.
\* ph: down, half (request connection open), open (hello done), asked
\* (get_fleet written), got (view read), following.

Alive(b) == up /\ b = boot
C(c, r) == cl' = [cl EXCEPT ![c] = r @@ @]
Rest == UNCHANGED <<up, serving, fleet, reqs>>
NoConn == [boot |-> 0, sub |-> None, pos |-> 0, backlog |-> <<>>, pipe |-> <<>>,
           open |-> FALSE, reading |-> FALSE, inbox |-> <<>>, untold |-> FALSE]

\* [agend-client/src/connection.rs:230-243] Client::connect_once: the request connection of ClientSource::connect.
ConnectRequests(c) ==
    /\ cl[c].ph = "down" /\ up
    /\ rq[c].st = "idle"
    /\ rq' = [rq EXCEPT ![c].boot = boot]
    /\ C(c, [ph |-> "half"] @@ NoConn)
    /\ UNCHANGED <<up, serving, fleet, lines, replies, execs>>

\* [agend-client/src/connection.rs:95-151] open: connect and hello; a daemon that is away ends the attempt.
ConnectEvents(c) ==
    /\ cl[c].ph = "half"
    /\ IF up THEN C(c, [ph |-> "open", boot |-> boot, open |-> TRUE])
             ELSE C(c, [ph |-> "down"])
    /\ Rest

\* [agend-daemon/src/fleet.rs:331-350] Fleet::view: the view and its newest id, under one lock.
ServeFleet(c) ==
    /\ cl[c].ph = "open" /\ cl[c].open /\ Alive(cl[c].boot)
    /\ cl[c].pipe = <<>>
    /\ C(c, [pipe |-> <<[what |-> "fleet", id |-> latest, view |-> View]>>, untold |-> FALSE])
    /\ Rest

\* [agend-client/src/connection.rs:283-293] Client::reconnect: get_fleet is Redo::Safe, it is sent again on a new connection.
RetryFleet(c) ==
    /\ cl[c].ph = "open" /\ cl[c].pipe = <<>>
    /\ ~Alive(cl[c].boot)
    /\ up
    /\ C(c, [boot |-> boot, open |-> TRUE])
    /\ Rest

\* [agend-tui/src/source/client.rs:286-298] ClientSource::connect: the snapshot, then subscribe after its cursor.
Subscribe(c) ==
    /\ cl[c].ph = "open" /\ cl[c].pipe # <<>>
    /\ LET got == cl[c].pipe[1] IN
       IF Alive(cl[c].boot)
       THEN C(c, [ph |-> "following", pipe |-> <<>>, sub |-> got.id, reading |-> TRUE,
                  shown |-> got.view])
       ELSE C(c, [ph |-> "down", pipe |-> <<>>])
    /\ Rest

Serving(c) == cl[c].open /\ Alive(cl[c].boot)
Oldest == IF log = <<>> THEN latest + 1 ELSE log[1].id
After(n) == SelectSeq(log, LAMBDA e : e.id > n)

\* [agend-daemon/src/fleet.rs:357-369] Fleet::subscribe: the cursors this boot can continue from.
Accepts(after) == after + 1 >= Oldest /\ after <= latest

\* Mutant: the receiver is taken after the lock is released, one event later.
BacklogThenLate(c) ==
    /\ Serving(c) /\ cl[c].sub # None
    /\ IF Accepts(cl[c].sub)
       THEN C(c, [sub |-> None, backlog |-> After(cl[c].sub), pos |-> latest + 2])
       ELSE C(c, [sub |-> None, pipe |-> Append(cl[c].pipe, [what |-> "gap"])])
    /\ Rest

\* [agend-daemon/src/fleet.rs:370-382] Fleet::subscribe: the backlog and the live receiver, under the same lock.
ServeSubscribe(c) ==
    /\ Serving(c) /\ cl[c].sub # None
    /\ IF Accepts(cl[c].sub)
       THEN C(c, [sub |-> None, backlog |-> After(cl[c].sub), pos |-> latest + 1])
       ELSE C(c, [sub |-> None, pipe |-> Append(cl[c].pipe, [what |-> "gap"])])
    /\ Rest

\* [agend-daemon/src/server.rs:432-439] connection: the backlog, line by line.
SendBacklog(c) ==
    /\ Serving(c) /\ cl[c].backlog # <<>>
    /\ Len(cl[c].pipe) < PipeCap
    /\ C(c, [pipe |-> Append(cl[c].pipe, Head(cl[c].backlog)), backlog |-> Tail(cl[c].backlog)])
    /\ Rest

\* [agend-daemon/src/server.rs:471-493] connection: the next live event; a subscriber too far behind gets event_gap and is closed.
SendLive(c) ==
    /\ Serving(c) /\ cl[c].backlog = <<>> /\ cl[c].pos \in 1..latest
    /\ Len(cl[c].pipe) < PipeCap
    /\ IF cl[c].pos < Oldest
       THEN C(c, [pipe |-> Append(cl[c].pipe, [what |-> "gap"]), open |-> FALSE])
       ELSE LET e == log[cl[c].pos - Oldest + 1] IN
            C(c, [pipe |-> Append(cl[c].pipe, e), pos |-> cl[c].pos + 1])
    /\ Rest

\* [agend-daemon/src/server.rs:256-317] Client::send: no write progress within WRITE_TIMEOUT closes the connection.
WriteTimeout(c) ==
    /\ Serving(c) /\ Len(cl[c].pipe) = PipeCap
    /\ cl[c].backlog # <<>> \/ cl[c].pos \in 1..latest
    /\ C(c, [open |-> FALSE])
    /\ Rest

\* [agend-client/src/connection.rs:622-650] Client::next_event: the reader thread passes lines on until one is an error or the end.
ReadEvent(c) ==
    /\ cl[c].reading
    /\ \/ /\ cl[c].pipe # <<>>
          /\ LET e == Head(cl[c].pipe) IN
             C(c, [pipe |-> Tail(cl[c].pipe), inbox |-> Append(cl[c].inbox, e),
                   reading |-> e.what # "gap"])
       \/ /\ cl[c].pipe = <<>> /\ ~Serving(c)
          /\ C(c, [inbox |-> Append(cl[c].inbox, [what |-> "end"]), reading |-> FALSE])
    /\ Rest

\* [agend-tui/src/source.rs:422-465] Fleet::apply: what one event does to what is shown.
Apply(v, e) ==
    CASE e.what = "inst"     -> [v EXCEPT !.insts[e.key] = e.val]
      [] e.what = "task"     -> [v EXCEPT !.tasks[e.key] = e.val]
      [] e.what = "required" -> [v EXCEPT !.att[e.key] = e.val]
      [] e.what = "resolved" -> [v EXCEPT !.att[e.key] = 0]

ApplyAll(v, s) ==
    LET f[k \in 0..Len(s)] == IF k = 0 THEN v ELSE Apply(f[k - 1], s[k])
    IN  f[Len(s)]

\* [agend-tui/src/source/client.rs:300-317] ClientSource::poll: all that came; an error drops the batch and both connections.
Poll(c) ==
    /\ cl[c].ph = "following" /\ cl[c].inbox # <<>>
    /\ IF \E k \in 1..Len(cl[c].inbox) : cl[c].inbox[k].what \in {"gap", "end"}
       THEN C(c, [ph |-> "down"] @@ NoConn)
       ELSE C(c, [inbox |-> <<>>, shown |-> ApplyAll(cl[c].shown, cl[c].inbox)])
    /\ Rest

----------------------------------------------------------------------------
\* The request connection: resolve_attention (Redo::Never).

\* [agend-tui/src/app.rs:782-817] App::choose, send_action: the operator picks an action of an item that is shown.
Resolve(c, i) ==
    /\ cl[c].ph = "following" /\ cl[c].shown.att[i] > 0
    /\ rq[c].st = "idle" /\ rq[c].n < MaxRequests
    /\ rq' = [rq EXCEPT ![c] = [@ EXCEPT !.st = "writing", !.n = @ + 1, !.item = i]]
    /\ UNCHANGED <<up, serving, fleet, cl, lines, replies, execs>>

\* [agend-client/src/connection.rs:343-378] Client::request_within: a write that fails is written again after a reconnect.
Write(c) ==
    /\ rq[c].st = "writing" /\ up
    /\ IF Alive(rq[c].boot)
       THEN /\ lines' = lines \cup {[c |-> c, n |-> rq[c].n, item |-> rq[c].item, done |-> FALSE]}
            /\ rq' = [rq EXCEPT ![c].st = "sent"]
       ELSE /\ rq' = [rq EXCEPT ![c].boot = boot]
            /\ UNCHANGED lines
    /\ UNCHANGED <<up, serving, fleet, cl, replies, execs>>

\* [agend-daemon/src/fleet.rs:287-312] Fleet::resolve: the first of two takes the item.
Takes(i) == att[i] > 0

\* [agend-daemon/src/handlers.rs:208-300] handle: resolve_attention of a failed instance; a stopping supervisor gets the item raised again.
Execute(l) ==
    /\ up /\ l \in lines /\ ~l.done
    /\ lines' = (lines \ {l}) \cup {[l EXCEPT !.done = TRUE]}
    /\ execs' = [execs EXCEPT ![l.c][l.n] = @ + 1]
    /\ LET i == l.item IN
       \/ /\ ~Takes(i)
          /\ UNCHANGED <<att, events, latest, log, taken>>
       \/ /\ Takes(i) /\ serving
          /\ att' = [att EXCEPT ![i] = 0]
          /\ taken' = [taken EXCEPT ![i] = @ + 1]
          /\ Push(<<Event("resolved", i, 0)>>)
       \/ /\ Takes(i) /\ ~serving
          /\ Push(<<Event("resolved", i, 0), Event("required", i, att[i])>>)
          /\ UNCHANGED <<att, taken>>
    /\ Same /\ UNCHANGED <<teams, insts, tasks, known, copies, raises, rq, replies>>

\* [agend-daemon/src/server.rs:421-470] connection: the outcome is written after the handler returned.
Reply(l) ==
    /\ up /\ l \in lines /\ l.done
    /\ lines' = lines \ {l}
    /\ replies' = replies \cup {[c |-> l.c, n |-> l.n]}
    /\ UNCHANGED <<up, serving, fleet, cl, rq, execs>>

Drop(c) == cl' = [cl EXCEPT ![c] = [ph |-> "down"] @@ NoConn @@ @]

\* [agend-client/src/connection.rs:394-443] Client::wait_reply: the reply that carries this request's id.
Replied(c) ==
    /\ rq[c].st = "sent"
    /\ \E r \in replies : r.c = c /\ r.n = rq[c].n
    /\ rq' = [rq EXCEPT ![c].st = "idle"]
    /\ UNCHANGED <<up, serving, fleet, cl, lines, replies, execs>>

\* [agend-client/src/connection.rs:379-392] Client::request_within: the connection ended after the write, nothing is sent again.
Ended(c) ==
    /\ rq[c].st = "sent" /\ ~Alive(rq[c].boot)
    /\ ~\E r \in replies : r.c = c /\ r.n = rq[c].n
    /\ rq' = [rq EXCEPT ![c].st = "idle", ![c].boot = 0]
    /\ Drop(c)
    /\ UNCHANGED <<up, serving, fleet, lines, replies, execs>>

\* [agend-tui/src/source/client.rs:154-174] ClientSource::request: no reply in time, or no daemon to write to, drops both connections.
GiveUp(c) ==
    /\ rq[c].st \in {"writing", "sent"}
    /\ rq[c].st = "writing" => ~up
    /\ rq' = [rq EXCEPT ![c].st = "idle", ![c].boot = 0]
    /\ Drop(c)
    /\ UNCHANGED <<up, serving, fleet, lines, replies, execs>>

----------------------------------------------------------------------------
\* [agend-daemon/src/fleet.rs:42-60] Inner: the daemon has booted; nobody is connected.
Init ==
    /\ up = TRUE /\ serving = TRUE
    /\ boot = 1 /\ events = 0
    /\ latest = Gap /\ log = <<>>
    /\ teams = 1 /\ insts = [i \in Insts |-> 1] /\ tasks = [t \in Tasks |-> 0]
    /\ att = [a \in Items |-> 0]
    /\ known = Insts
    /\ copies = [inst |-> [i \in Insts |-> 0], item |-> [i \in Insts |-> 0]]
    /\ raises = [i \in Insts |-> 0] /\ taken = [i \in Insts |-> 0]
    /\ cl = [c \in Clients |-> [ph |-> "down", shown |-> Empty] @@ NoConn]
    /\ rq = [c \in Clients |-> [st |-> "idle", n |-> 0, boot |-> 0,
                                item |-> CHOOSE i \in Insts : TRUE]]
    /\ lines = {} /\ replies = {}
    /\ execs = [c \in Clients |-> [n \in 1..MaxRequests |-> 0]]

Daemon ==
    \/ \E i \in Insts, s \in 1..2 : Show(i, s)
    \/ \E i \in Insts : RemoveInstance(i) \/ Raise(i)
                        \/ CopyItem(i) \/ ReplaceIf(i) \/ CopyInstance(i) \/ ShowCopy(i)
    \/ \E a \in Notes : Dismiss(a) \/ \E v \in 2..3 : Upsert(a, v)
    \/ \E t \in Tasks, s \in 1..2 : SyncTasks(t, s)
    \/ Stopping \/ Down

ServeStep ==
    \/ \E c \in Clients : ServeFleet(c) \/ ServeSubscribe(c) \/ SendBacklog(c) \/ SendLive(c)
    \/ \E l \in lines : Execute(l) \/ Reply(l)

ClientStep(c) ==
    \/ ConnectRequests(c) \/ ConnectEvents(c) \/ RetryFleet(c) \/ Subscribe(c)
    \/ ReadEvent(c) \/ Poll(c)
    \/ Write(c) \/ Replied(c) \/ Ended(c) \/ GiveUp(c)

Next ==
    \/ Daemon \/ Boot \/ SetTeams \/ ServeStep
    \/ \E c \in Clients : ClientStep(c) \/ WriteTimeout(c) \/ \E i \in Insts : Resolve(c, i)

Spec == Init /\ [][Next]_vars

----------------------------------------------------------------------------
\* The variables stay in their ranges (one type invariant for the module).
TypeOK ==
    /\ up \in BOOLEAN /\ serving \in BOOLEAN
    /\ Len(log) <= Retained
    /\ \A k \in 1..Len(log) : log[k].id = latest - Len(log) + k
    /\ insts \in [Insts -> 0..2] /\ tasks \in [Tasks -> 0..2]
    /\ \A c \in Clients : cl[c].ph \in {"down", "half", "open", "following"}
    /\ \A c \in Clients : rq[c].st \in {"idle", "writing", "sent"}

\* fleet.rs says of the view: "subscribing after its cursor gives every later
\* change".  What a following client shows, with everything still on its way
\* to it, is the daemon's view: between the snapshot, the backlog and the live
\* receiver no event is missed, repeated or out of order, through reconnects
\* and restarts (a client that fell behind is told and starts again).  One
\* change is not given, against that sentence: set_teams (fleet.rs:116)
\* publishes nothing, and a client whose view is older shows the teams of then
\* (README, finding 7).
Agrees(c, v) ==
    /\ [v EXCEPT !.teams = teams] = View
    /\ v.teams = teams \/ cl[c].untold
Missing(c) ==
    IF cl[c].sub # None THEN After(cl[c].sub)
    ELSE cl[c].backlog \o (IF cl[c].pos = 0 THEN <<>> ELSE After(cl[c].pos - 1))
Told(c) ==
    \E k \in 1..Len(cl[c].inbox \o cl[c].pipe) : (cl[c].inbox \o cl[c].pipe)[k].what \in {"gap", "end"}
Follows(c) ==
    /\ cl[c].ph = "following" /\ Serving(c) /\ ~Told(c)
    /\ IF cl[c].sub # None THEN Accepts(cl[c].sub)
       ELSE cl[c].pos >= Oldest
FollowsExactly ==
    \A c \in Clients : Follows(c) =>
        Agrees(c, ApplyAll(cl[c].shown, cl[c].inbox \o cl[c].pipe \o Missing(c)))

\* An item is handed to the supervisor at most once each time it was raised,
\* whatever two clients, a resent request and the pipeline's stale copy do:
\* a resolved item does not come back by itself.
TakenOnce == \A i \in Insts : taken[i] + (IF att[i] > 0 THEN 1 ELSE 0) <= raises[i]

\* A request that must not be repeated reaches the handlers at most once,
\* although the client reconnects by itself (Redo::Never).
NeverTwice == \A c \in Clients : \A n \in 1..MaxRequests : execs[c][n] <= 1

\* Every client ends up showing what the daemon has, once nothing changes; the
\* teams only if they did not change after its view (finding 7).
CaughtUp(c) == cl[c].ph = "following" /\ Agrees(c, cl[c].shown)

\* Fleet::remove_instance "takes a removed instance out of the view": an
\* instance the store no longer has is not shown.  Does not hold (README, finding 8).
RemovedStaysOut == \A i \in Insts : i \notin known => insts[i] = 0
=============================================================================
