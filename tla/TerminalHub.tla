----------------------------- MODULE TerminalHub -----------------------------
(***************************************************************************)
(* The terminals of one instance as the daemon serves them: the hub that   *)
(* starts one actor per instance, the actor that orders what the clients'  *)
(* views ask, the channel on the link to the holder, with one request in   *)
(* flight, and the holder's side of control (HolderServer has it in full). *)
(* A client may die, the link may be cut or taken over, a request may time *)
(* out, and a backend switch may pause the terminal, between any two       *)
(* awaits of the actor.                                                    *)
(***************************************************************************)
EXTENDS Integers, Sequences, FiniteSets

CONSTANTS Views,      \* views, each of its own client
          Kinds,      \* what clients ask for: acquire, input, release, fit, legacy
          QueueMax,   \* QUEUE
          MaxAsks,    \* bound: requests of clients after subscribing
          MaxEpochs,  \* bound: connections of the link
          MaxStops    \* bound: times the actors are stopped

HubAssumption ==
    /\ Kinds \subseteq {"acquire", "input", "release", "fit", "legacy"}
    /\ QueueMax \in Nat \ {0} /\ {MaxAsks, MaxEpochs, MaxStops} \subseteq Nat

VARIABLES
    alive,   \* views whose client and stream are alive
    sub,     \* each view: none, queued, on, off
    told,    \* the attach id a view's client believes it controls with, 0 for none
    actor,   \* the instance's actor, or NoActor
    lost,    \* ghost: jobs left in the queue of an actor that retired
    ch,      \* the channel: its epoch, whether it is connected, the pending request
    sock,    \* epoch of the socket the daemon holds open, 0 for none
    wire,    \* the request on the socket, not yet executed by the holder, or NoReq
    hold,    \* the holder: epoch of the connection it serves, who controls its PTY
    blk,     \* legacy writes running outside the actor
    sw,      \* a backend switch of the instance: none, pending, drained
    ids,     \* attach ids given out
    asks, stops

vars == <<alive, sub, told, actor, lost, ch, sock, wire, hold, blk, sw, ids, asks, stops>>
bounds == <<asks, stops>>

NoActor == [pc |-> "none"]
NoOwner == [v |-> "none", a |-> 0]
NoReq == [op |-> "none", v |-> "none", a |-> 0, epoch |-> 0]
NewActor == [pc |-> "idle", jobs |-> <<>>, views |-> {}, owner |-> NoOwner, epoch |-> 0,
             req |-> NoReq, guard |-> FALSE]
Mutating == {"acquire", "input", "fit", "unfit"}
Control == Mutating \cup {"release"}
Ask(op, v, a) == [op |-> op, v |-> v, a |-> a]

Init ==
    /\ alive = Views /\ sub = [v \in Views |-> "none"] /\ told = [v \in Views |-> 0]
    /\ actor = NoActor /\ lost = {}
    /\ ch = [epoch |-> 1, up |-> TRUE, pend |-> NoReq, sent |-> FALSE] /\ sock = 1
    /\ wire = NoReq /\ hold = [epoch |-> 1, control |-> 0]
    /\ blk = 0 /\ sw = "none" /\ ids = 0 /\ asks = 0 /\ stops = 0

Running == actor.pc # "none"

-----------------------------------------------------------------------------
(* The channel and the link. *)

\* [agend-daemon/src/runtime/terminal.rs:281-284] TerminalConnection::is_current
Current(e) == ch.epoch = e /\ ch.up

\* The pending request is failed with the connection; the actor sees a reply.
\* [agend-daemon/src/runtime/terminal.rs:214-227] Channel::close_epoch
CloseEpoch(e) ==
    IF ch.epoch # e THEN UNCHANGED <<ch, sock>>
    ELSE ch' = [ch EXCEPT !.up = FALSE, !.pend = NoReq, !.sent = FALSE] /\ sock' = 0

\* Nothing is pending any more.
Settled == ch' = [ch EXCEPT !.pend = NoReq, !.sent = FALSE]

\* The request that waits for its answer in the actor has failed.
Failed == actor.req # NoReq /\ ch.pend = NoReq

\* [agend-daemon/src/runtime/terminal.rs:66-148] Channel::start: the writer sends what is still wanted
Write ==
    /\ ch.pend # NoReq /\ ch.pend.epoch = ch.epoch /\ ch.up
    /\ wire = NoReq /\ sock = ch.epoch /\ ~ch.sent
    /\ wire' = ch.pend
    /\ ch' = [ch EXCEPT !.sent = TRUE]
    /\ UNCHANGED <<alive, sub, told, actor, lost, sock, hold, blk, sw, ids, bounds>>

\* RESPONSE_WITHIN has passed, or the write failed.
\* [agend-daemon/src/runtime/terminal.rs:229-259] write_until, fail_pending: the epoch is closed
TimesOut ==
    /\ ch.pend # NoReq /\ ch.epoch < MaxEpochs
    /\ CloseEpoch(ch.epoch)
    /\ UNCHANGED <<alive, sub, told, actor, lost, wire, hold, blk, sw, ids, bounds>>

\* The link's connection ends for another reason (taken over, cut, agent gone).
\* [agend-daemon/src/runtime/terminal.rs:162-167] Channel::disconnected
\* [agend-daemon/src/runtime/link.rs:599-648] exited, read_until_closed
Disconnected ==
    /\ ch.up /\ hold.epoch # ch.epoch
    /\ CloseEpoch(ch.epoch)
    /\ UNCHANGED <<alive, sub, told, actor, lost, wire, hold, blk, sw, ids, bounds>>

\* The next connection: a new epoch here, and no controller at the holder.
\* [agend-daemon/src/runtime/link.rs:650-680] Worker::reconnect, with publish and Channel::connected
Reconnect ==
    /\ ~ch.up /\ ch.epoch < MaxEpochs
    /\ ch' = [epoch |-> ch.epoch + 1, up |-> TRUE, pend |-> NoReq, sent |-> FALSE]
    /\ sock' = ch.epoch + 1
    /\ hold' = [epoch |-> ch.epoch + 1, control |-> 0]
    /\ wire' = NoReq
    /\ UNCHANGED <<alive, sub, told, actor, lost, blk, sw, ids, bounds>>

\* Another client of the holder takes the connection over, or the holder sees
\* that the daemon closed it.
\* [agend-holder/src/server.rs:467-473] connection: the old client is replaced
TakenOver ==
    /\ hold.epoch # 0 /\ (sock # hold.epoch \/ ch.epoch < MaxEpochs)
    /\ hold' = [epoch |-> 0, control |-> 0]
    /\ UNCHANGED <<alive, sub, told, actor, lost, ch, sock, wire, blk, sw, ids, bounds>>

\* The holder runs the request: its reply goes to the pending one, if the
\* channel still waits for it.
\* [agend-daemon/src/runtime/terminal.rs:202-212] Channel::response
Answered(code) ==
    ch' = IF wire.epoch = ch.epoch /\ ch.pend # NoReq
          THEN [ch EXCEPT !.pend = [op |-> code, v |-> "none", a |-> 0, epoch |-> ch.epoch]] ELSE ch

\* [agend-holder/src/server/control.rs:193-305] execute, as the hub sees it
HolderExecutes ==
    /\ wire # NoReq
    /\ wire' = NoReq
    /\ \/ /\ wire.epoch # hold.epoch /\ UNCHANGED <<ch, hold>>
       \/ /\ wire.epoch = hold.epoch /\ wire.op \in {"acquire", "fit"}
          /\ \/ hold' = [hold EXCEPT !.control = wire.a] /\ Answered("ok")
             \/ UNCHANGED hold /\ Answered("failed")
             \/ hold' = [hold EXCEPT !.control = 0] /\ Answered("failed")
       \/ /\ wire.epoch = hold.epoch /\ wire.op = "input"
          /\ \/ hold.control = wire.a /\ UNCHANGED hold /\ Answered("ok")
             \/ hold.control = wire.a /\ hold' = [hold EXCEPT !.control = 0] /\ Answered("failed")
             \/ UNCHANGED hold /\ Answered("busy")
             \/ hold.control # wire.a /\ UNCHANGED hold /\ Answered("control_lost")
       \/ /\ wire.epoch = hold.epoch /\ wire.op \in {"release", "unfit"}
          /\ \/ hold.control = wire.a /\ hold' = [hold EXCEPT !.control = 0] /\ Answered("ok")
             \/ hold.control # wire.a /\ UNCHANGED hold /\ Answered("control_lost")
             \/ UNCHANGED hold /\ Answered("busy")
       \/ wire.epoch = hold.epoch /\ wire.op = "frame" /\ UNCHANGED hold /\ Answered("ok")
    /\ UNCHANGED <<alive, sub, told, actor, lost, sock, blk, sw, ids, bounds>>

-----------------------------------------------------------------------------
(* The hub: what a client's connection calls. *)

\* Under the lock that an actor also retires under.
\* [agend-daemon/src/terminal_hub.rs:300-339] TerminalHub::enqueue
Enqueue(job) ==
    LET a == IF Running THEN actor ELSE NewActor
    IN  Len(a.jobs) < QueueMax /\ actor' = [a EXCEPT !.jobs = Append(@, job)]

\* [agend-daemon/src/terminal_hub.rs:202-236] TerminalHub::subscribe
Subscribe(v) ==
    /\ v \in alive /\ sub[v] = "none"
    /\ Enqueue(Ask("add", v, 0))
    /\ sub' = [sub EXCEPT ![v] = "queued"]
    /\ UNCHANGED <<alive, told, lost, ch, sock, wire, hold, blk, sw, ids, bounds>>

\* A request needs a view that this connection subscribed to; an old client, an
\* agent or a line that is too long gets an error, which changes nothing.
\* [agend-daemon/src/server.rs:542-606] full_request
MayAsk(v) == v \in alive /\ sub[v] = "on"

\* [agend-daemon/src/terminal_hub.rs:238-295] viewport, control, legacy and check_view
Request(v) ==
    /\ MayAsk(v) /\ asks < MaxAsks
    /\ \E k \in Kinds : Enqueue(Ask(k, v, IF k \in {"input", "release"} THEN told[v] ELSE 0))
    /\ asks' = asks + 1
    /\ UNCHANGED <<alive, sub, told, lost, ch, sock, wire, hold, blk, sw, ids, stops>>

\* [agend-daemon/src/terminal_hub.rs:72-106] ViewStream::drop, ReplyScope::send, View::live
ClientDies(v) ==
    /\ v \in alive
    /\ alive' = alive \ {v}
    /\ UNCHANGED <<sub, told, actor, lost, ch, sock, wire, hold, blk, sw, ids, bounds>>

\* Mutant: an actor that dies leaves what it controls.
DropKeeps == UNCHANGED <<ch, sock>>

\* A control request in flight, or an owner, takes the connection down with it.
\* [agend-daemon/src/runtime/terminal.rs:430-455] Cancellation::drop
\* [agend-daemon/src/terminal_hub/actor.rs:445-455] Actor::drop
ActorDropped ==
    IF actor.owner # NoOwner \/ actor.req.op \in Control
    THEN CloseEpoch(actor.epoch) ELSE Settled /\ UNCHANGED sock

\* [agend-daemon/src/terminal_hub.rs:340-346] TerminalHub::stop
StopActors ==
    /\ Running /\ stops < MaxStops /\ ch.epoch < MaxEpochs
    /\ ActorDropped
    /\ actor' = NoActor
    /\ sub' = [v \in Views |-> IF v \in actor.views \/ sub[v] = "queued" THEN "off" ELSE sub[v]]
    /\ stops' = stops + 1
    /\ UNCHANGED <<alive, told, lost, wire, hold, blk, sw, ids, asks>>

-----------------------------------------------------------------------------
(* The actor. *)

OwnerGone == actor.owner # NoOwner /\ actor.owner.v \notin alive
Stale == actor.epoch # 0 /\ ~Current(actor.epoch)
Clean == ~Stale /\ ~OwnerGone /\ actor.views \subseteq alive

\* A request of the actor joins the channel; refused at once if the epoch is over.
\* [agend-daemon/src/runtime/terminal.rs:354-428] TerminalConnection::request
Send(a, op, v, id) ==
    IF Current(a.epoch)
    THEN /\ ch' = [ch EXCEPT !.pend = [op |-> op, v |-> v, a |-> id, epoch |-> a.epoch], !.sent = FALSE]
         /\ actor' = [a EXCEPT !.req = ch'.pend]
    ELSE /\ actor' = [a EXCEPT !.req = [op |-> op, v |-> v, a |-> id, epoch |-> 0]]
         /\ Settled

\* Every view is told that it must subscribe again.
\* [agend-daemon/src/terminal_hub/actor.rs:135-169] changed, invalidate
Invalidate ==
    /\ CloseEpoch(actor.epoch)
    /\ actor' = [actor EXCEPT !.views = {}, !.owner = NoOwner, !.epoch = 0, !.req = NoReq,
                              !.pc = "idle", !.guard = FALSE]
    /\ sub' = [v \in Views |-> IF v \in actor.views \cup {actor.req.v} THEN "off" ELSE sub[v]]
    /\ told' = [v \in Views |-> IF v \in actor.views THEN 0 ELSE told[v]]

\* [agend-daemon/src/terminal_hub/actor.rs:170-189] Actor::release: the request
Release ==
    /\ Send([actor EXCEPT !.pc = "rel", !.owner = NoOwner], "release", actor.owner.v, actor.owner.a)
    /\ UNCHANGED sock

\* [agend-daemon/src/terminal_hub/actor.rs:118-134] Actor::cleanup
Cleanup ==
    /\ actor.pc = "idle" /\ ~Clean
    /\ \/ Stale /\ Invalidate
       \/ ~Stale /\ OwnerGone /\ Release /\ UNCHANGED <<sub, told>>
       \/ /\ ~Stale /\ ~OwnerGone
          /\ actor' = [actor EXCEPT !.views = @ \cap alive]
          /\ UNCHANGED <<ch, sock, sub, told>>
    /\ UNCHANGED <<alive, lost, wire, hold, blk, sw, ids, bounds>>

\* The holder's answer to a release: only a lost connection matters.
ReleaseDone ==
    /\ actor.pc = "rel" /\ (Failed \/ ch.pend.op \in {"ok", "failed", "busy", "control_lost"})
    /\ IF Failed \/ ch.pend.op \in {"failed", "busy"} THEN Invalidate
       ELSE /\ actor' = [actor EXCEPT !.pc = "idle", !.req = NoReq, !.guard = FALSE]
            /\ Settled
            /\ UNCHANGED <<sock, sub, told>>
    /\ UNCHANGED <<alive, lost, wire, hold, blk, sw, ids, bounds>>

\* [agend-daemon/src/terminal_hub/actor.rs:95-111] Actor::retire: when it may
Retirable == actor.pc = "idle" /\ actor.views = {} /\ actor.jobs = <<>>

\* [agend-daemon/src/terminal_hub/actor.rs:59-94] Actor::run: the end of the loop
Retire ==
    /\ Retirable /\ ~Stale /\ ~OwnerGone
    /\ lost' = lost \cup {actor.jobs[k] : k \in DOMAIN actor.jobs}
    /\ ActorDropped
    /\ actor' = NoActor
    /\ UNCHANGED <<alive, sub, told, wire, hold, blk, sw, ids, bounds>>

\* [agend-daemon/src/terminal_hub/actor.rs:190-208] Actor::valid_view
ValidView(v) == v \in actor.views \cap alive /\ Current(actor.epoch)

\* The guard is registered before the switch is looked up in SQLite.
\* [agend-daemon/src/terminal_hub/actor.rs:34-52] Actor::switch_input
Guarded == [actor EXCEPT !.pc = "paused?", !.guard = TRUE]

Job == Head(actor.jobs)
Taken == [actor EXCEPT !.jobs = Tail(@)]

\* The first part of a job, up to its first await.
\* [agend-daemon/src/terminal_hub/actor.rs:209-358] Actor::job
TakeJob ==
    /\ actor.pc = "idle" /\ Clean /\ actor.jobs # <<>>
    /\ LET j == Job
           drop == actor' = Taken /\ UNCHANGED <<ch, sub>>
       IN  \/ j.v \notin alive /\ drop
           \/ /\ j.op = "add" /\ j.v \in alive
              /\ IF ch.up
                 THEN Send([Taken EXCEPT !.pc = "add", !.epoch = ch.epoch], "frame", j.v, 0) /\ UNCHANGED sub
                 ELSE actor' = Taken /\ sub' = [sub EXCEPT ![j.v] = "off"] /\ UNCHANGED ch
           \/ /\ j.op \notin {"add", "legacy"} /\ j.v \in alive /\ ~ValidView(j.v) /\ drop
           \/ /\ j.op = "release" /\ ValidView(j.v)
              /\ IF actor.owner = [v |-> j.v, a |-> j.a]
                 THEN Send([Taken EXCEPT !.pc = "wait"], "release", j.v, j.a) /\ UNCHANGED sub
                 ELSE drop
           \/ /\ j.op = "fit" /\ ValidView(j.v) /\ actor.owner # NoOwner /\ drop
           \/ /\ \/ j.op \in {"acquire", "input"} /\ ValidView(j.v)
                 \/ j.op = "fit" /\ ValidView(j.v) /\ actor.owner = NoOwner
                 \/ j.op = "legacy" /\ j.v \in alive
              /\ actor' = Guarded
              /\ UNCHANGED <<ch, sub>>
    /\ UNCHANGED <<alive, told, lost, sock, wire, hold, blk, sw, ids, bounds>>

\* Two frames for a new view; it joins if it still lives on this connection.
\* [agend-daemon/src/terminal_hub/actor.rs:245-291] Actor::job: Add after its frames
AddDone ==
    /\ actor.pc = "add" /\ (Failed \/ ch.pend.op = "ok")
    /\ LET v == actor.req.v
           back == [actor EXCEPT !.pc = "idle", !.req = NoReq]
       IN  IF ~Failed /\ v \in alive /\ Current(actor.epoch)
           THEN actor' = [back EXCEPT !.views = @ \cup {v}] /\ sub' = [sub EXCEPT ![v] = "on"]
           ELSE actor' = back /\ sub' = [sub EXCEPT ![v] = "off"]
    /\ Settled
    /\ UNCHANGED <<alive, told, lost, sock, wire, hold, blk, sw, ids, bounds>>

\* SQLite answers whether the instance is paused, in a blocking task.
LookUp ==
    /\ actor.pc = "paused?"
    /\ actor' = [actor EXCEPT !.pc = IF sw = "none" THEN "free" ELSE "held"]
    /\ UNCHANGED <<alive, sub, told, lost, ch, sock, wire, hold, blk, sw, ids, bounds>>

\* The lookup has answered: the job is refused while a switch is pending, and
\* sent to the holder otherwise.  A legacy write runs on a thread of its own
\* that keeps the guard.
\* [agend-daemon/src/terminal_hub/control.rs:6-117] Actor::control: up to the request
Admit ==
    /\ actor.pc \in {"free", "held"}
    /\ LET j == Job
           refuse == [Taken EXCEPT !.pc = "idle", !.guard = FALSE]
           fresh == [Taken EXCEPT !.pc = IF j.op = "fit" THEN "fit" ELSE "wait", !.guard = TRUE]
       IN  \/ /\ actor.pc = "held" /\ actor' = refuse /\ UNCHANGED <<ch, ids, blk>>
           \/ /\ actor.pc = "free" /\ j.op \in {"acquire", "fit"}
              /\ ids' = ids + 1
              /\ Send(fresh, j.op, j.v, ids + 1)
              /\ UNCHANGED blk
           \/ /\ actor.pc = "free" /\ j.op = "input" /\ UNCHANGED <<ids, blk>>
              /\ IF actor.owner = [v |-> j.v, a |-> j.a] THEN Send(fresh, "input", j.v, j.a)
                 ELSE actor' = refuse /\ UNCHANGED ch
           \/ /\ actor.pc = "free" /\ j.op = "legacy" /\ UNCHANGED <<ids, ch>>
              /\ IF actor.owner = NoOwner
                 THEN actor' = [Taken EXCEPT !.pc = "legacy", !.guard = FALSE] /\ blk' = blk + 1
                 ELSE actor' = refuse /\ UNCHANGED blk
    /\ UNCHANGED <<alive, sub, told, lost, sock, wire, hold, sw, bounds>>

\* [agend-daemon/src/runtime/link.rs:288-302] send: the line is written, or the connection shut
LegacyDone ==
    /\ blk > 0
    /\ blk' = blk - 1
    /\ \/ actor.pc = "legacy" /\ actor' = [actor EXCEPT !.pc = "idle"]
       \/ (actor.pc = "legacy" => blk > 1) /\ UNCHANGED actor   \* of an actor that was stopped
    /\ UNCHANGED <<alive, sub, told, lost, ch, sock, wire, hold, sw, ids, bounds>>

\* The old owner is told first, and a dead client is told nothing.
\* [agend-daemon/src/terminal_hub/control.rs:127-153] Actor::control: an acquire that was granted
OwnerChanged(v, a) ==
    told' = [w \in Views |-> IF w = v THEN (IF v \in alive THEN a ELSE told[w])
                             ELSE IF w = actor.owner.v THEN 0 ELSE told[w]]

\* [agend-daemon/src/terminal_hub/control.rs:118-185] Actor::control: the acknowledgement
ControlAcked ==
    /\ actor.pc = "wait" /\ ~Failed /\ ch.pend.op = "ok"
    /\ LET q == actor.req
           back == [actor EXCEPT !.pc = "idle", !.req = NoReq, !.guard = FALSE]
       IN  CASE q.op = "acquire" -> /\ actor' = [back EXCEPT !.owner = [v |-> q.v, a |-> q.a]]
                                    /\ OwnerChanged(q.v, q.a)
             [] q.op = "release" -> /\ actor' = [back EXCEPT !.owner = NoOwner]
                                    /\ told' = [told EXCEPT ![q.v] = 0]
             [] OTHER            -> actor' = back /\ UNCHANGED told
    /\ Settled
    /\ UNCHANGED <<alive, sub, lost, sock, wire, hold, blk, sw, ids, bounds>>

\* A busy queue changed nothing; after anything else the owner is released.
\* [agend-daemon/src/terminal_hub/control.rs:186-200] Actor::control: the error
ControlFailed ==
    /\ actor.pc = "wait" /\ (Failed \/ ch.pend.op \in {"failed", "busy", "control_lost"})
    /\ LET back == [actor EXCEPT !.pc = "idle", !.req = NoReq, !.guard = FALSE]
       IN  IF ~Failed /\ ch.pend.op = "busy"
           THEN /\ actor' = back /\ UNCHANGED <<told, sock, sub>>
                /\ Settled
           ELSE IF actor.owner = NoOwner
           THEN IF Stale THEN Invalidate
                ELSE /\ actor' = back /\ UNCHANGED <<told, sock, sub>>
                     /\ Settled
           ELSE /\ told' = [told EXCEPT ![actor.owner.v] = 0]
                /\ Release /\ UNCHANGED sub
    /\ UNCHANGED <<alive, lost, wire, hold, blk, sw, ids, bounds>>

\* The size of a read-only view: a grant nobody is told of, then its release.
\* [agend-daemon/src/terminal_hub/control.rs:202-242] Actor::fit_readonly
FitSteps ==
    /\ actor.pc = "fit" /\ (Failed \/ ch.pend.op \in {"ok", "failed", "busy", "control_lost"})
    /\ IF Failed \/ ch.pend.op # "ok" THEN Invalidate
       ELSE IF actor.req.op = "fit"
       THEN Send(actor, "unfit", actor.req.v, actor.req.a) /\ UNCHANGED <<sock, sub, told>>
       ELSE /\ actor' = [actor EXCEPT !.pc = "idle", !.req = NoReq, !.guard = FALSE]
            /\ Settled
            /\ UNCHANGED <<sock, sub, told>>
    /\ UNCHANGED <<alive, lost, wire, hold, blk, sw, ids, bounds>>

-----------------------------------------------------------------------------
(* A backend switch of the instance. *)

\* [agend-daemon/src/delivery/replies.rs:10-60] Replies: the fence the switch waits for
Drained == blk = 0 /\ (Running => ~actor.guard)

Switch ==
    /\ \/ sw = "none" /\ asks < MaxAsks /\ sw' = "pending"
       \/ sw = "pending" /\ Drained /\ sw' = "drained"
       \/ sw # "none" /\ sw' = "none"
    /\ UNCHANGED <<alive, sub, told, actor, lost, ch, sock, wire, hold, blk, ids, bounds>>

ActorStep == Running /\
    (Cleanup \/ ReleaseDone \/ Retire \/ TakeJob \/ AddDone \/ LookUp \/ Admit \/ ControlAcked
        \/ ControlFailed \/ FitSteps)
LinkStep == Write \/ Disconnected \/ Reconnect \/ HolderExecutes

Next ==
    \/ \E v \in Views : Subscribe(v) \/ Request(v) \/ ClientDies(v)
    \/ ActorStep \/ LinkStep \/ LegacyDone
    \/ TimesOut \/ TakenOver \/ StopActors \/ Switch

Spec == Init /\ [][Next]_vars

-----------------------------------------------------------------------------

\* Types, and that one request at a time is in flight: what the actor waits for
\* is what the channel has pending, or its answer.
TypeOK ==
    /\ alive \subseteq Views /\ sub \in [Views -> {"none", "queued", "on", "off"}]
    /\ told \in [Views -> 0 .. ids] /\ blk \in 0 .. (1 + MaxStops)
    /\ sw \in {"none", "pending", "drained"} /\ ch.epoch \in 1 .. MaxEpochs
    /\ Running => /\ Len(actor.jobs) <= QueueMax /\ actor.views \subseteq Views
                  /\ actor.req # NoReq <=> actor.pc \in {"add", "wait", "rel", "fit"}
    /\ ch.pend.op \in {"acquire", "input", "release", "fit", "unfit", "frame"}
          => Running /\ actor.req = ch.pend

\* The holder's controller is always somebody's: on a connection that still
\* stands, the actor owns it or waits for the answer about it, whoever died,
\* was cancelled or timed out.  Otherwise the terminal would be locked.
NoOrphanGrant ==
    hold.control # 0 /\ hold.epoch = ch.epoch /\ ch.up =>
        Running /\ hold.control \in {actor.owner.a, actor.req.a}

\* Between two jobs the actor's owner is the holder's controller.
OwnerControls ==
    Running /\ actor.pc = "idle" /\ actor.owner # NoOwner /\ Current(actor.epoch)
        /\ hold.epoch = actor.epoch => hold.control = actor.owner.a

\* A live client that was told it controls the terminal does, or the actor is
\* in the middle of taking it back: never two of them.
OneController ==
    Running => \A v \in alive \cap actor.views :
        told[v] # 0 => actor.owner = [v |-> v, a |-> told[v]]

\* Once a switch has seen the terminal drained, no operation that could write to
\* the PTY is awaited and no legacy write is running.
DrainedIsQuiet ==
    sw = "drained" => blk = 0 /\ ~(ch.pend.op \in {"acquire", "input", "fit"})

\* A job that was accepted is never left in the queue of an actor that retired.
NoJobLost == lost = {}

=============================================================================
