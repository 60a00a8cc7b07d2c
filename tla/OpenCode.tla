------------------------------ MODULE OpenCode ------------------------------
(***************************************************************************)
(* Delivery to one OpenCode instance.  A worker thread per start of the    *)
(* link finds the server of its holder, creates or resumes the session,    *)
(* hands it to the attached terminal, then ticks: it observes permissions, *)
(* allows the ones of the task's own worktree, confirms from the history   *)
(* and posts the messages nobody attempted.  Cancelled workers of earlier  *)
(* starts may still run.  The operator answers permissions as well.        *)
(***************************************************************************)
EXTENDS Naturals, Sequences, FiniteSets

-----------------------------------------------------------------------------
(* The server of one holder as the test kit's fake server defines it:      *)
(* sessions and their messages persist, a turn runs at a time, prompts     *)
(* that find it busy wait in a queue, and a turn may ask for a permission. *)

CONSTANTS Messages,     \* ids of agend's messages, in the order they are claimed
          Permissions   \* permission requests a turn may make

VARIABLES
    sessions, \* number of sessions created
    hist,     \* the messages of each session that were posted
    active,   \* the message whose turn runs, 0 when idle
    pend,     \* prompts waiting for their turn
    asks,     \* permission requests the server lists
    asked,    \* requests made so far
    copies,   \* ghost: how often each message was posted
    replies   \* ghost: the replies each permission request got

server == <<sessions, hist, active, pend, asks, asked, copies, replies>>

ServerInit ==
    /\ sessions = 0 /\ hist = {} /\ active = 0 /\ pend = <<>> /\ asks = {} /\ asked = {}
    /\ copies = [m \in Messages |-> 0] /\ replies = [p \in Permissions |-> <<>>]

\* [agend-testkit/src/fake_agent/opencode.rs:305-327] new_session
NewSession == sessions' = sessions + 1 /\ UNCHANGED <<hist, active, pend, asks, asked, copies, replies>>

\* The user message shows at once; its turn starts, or waits for the running one.
\* [agend-testkit/src/fake_agent/opencode.rs:330-409] prompt, start_turn
Prompt(s, m) ==
    /\ hist' = hist \cup {<<s, m>>} /\ copies' = [copies EXCEPT ![m] = @ + 1]
    /\ IF active = 0 THEN active' = m /\ UNCHANGED pend ELSE pend' = Append(pend, m) /\ UNCHANGED active
    /\ UNCHANGED <<sessions, asks, asked, replies>>

\* [agend-testkit/src/fake_agent/opencode.rs:579-601] next_or_idle
NextOrIdle ==
    IF pend = <<>> THEN active' = 0 /\ UNCHANGED pend ELSE active' = Head(pend) /\ pend' = Tail(pend)

\* [agend-testkit/src/fake_agent/opencode.rs:549-577] finish: the turn ends by itself
Finish ==
    /\ active # 0 /\ asks = {} /\ NextOrIdle
    /\ UNCHANGED <<sessions, hist, asks, asked, copies, replies>>

\* [agend-testkit/src/fake_agent/opencode.rs:463-500] ask: the turn waits for a permission
Ask(p) ==
    /\ active # 0 /\ asks = {} /\ p \notin asked
    /\ asks' = {p} /\ asked' = asked \cup {p}
    /\ UNCHANGED <<sessions, hist, active, pend, copies, replies>>

\* [agend-testkit/src/fake_agent/opencode.rs:503-547] reply_permission: it ends the turn
ReplyTo(p, allow) ==
    /\ p \in asks /\ asks' = asks \ {p}
    /\ replies' = [replies EXCEPT ![p] = Append(@, allow)]
    /\ NextOrIdle
    /\ UNCHANGED <<sessions, hist, asked, copies>>

\* Abort drops the requests of the session; the next prompt starts at once.
\* [agend-testkit/src/fake_agent/opencode.rs:605-629] abort
Abort ==
    /\ IF active = 0 THEN UNCHANGED <<active, pend, asks>> ELSE asks' = {} /\ NextOrIdle
    /\ UNCHANGED <<sessions, hist, asked, copies, replies>>

\* The server dies with its holder: what was running or asked is lost.
\* [agend-testkit/src/fake_agent/opencode.rs:223-257] load: only sessions and messages come back
Killed ==
    /\ active' = 0 /\ pend' = <<>> /\ asks' = {}
    /\ UNCHANGED <<sessions, hist, asked, copies, replies>>

-----------------------------------------------------------------------------
(* The driver: the links to that server, and what the daemon stores.       *)

CONSTANTS Level,        \* the busy level of each message
          MaxWorkers,   \* bound: workers started
          MaxHolders,   \* bound: holders started
          MaxLost,      \* bound: HTTP requests that fail or lose their answer
          MaxSwitches   \* bound: version switches prepared

OpenCodeAssumption ==
    /\ Messages \subseteq Nat \ {0} /\ Level \in [Messages -> {"Queue", "Interrupt"}]
    /\ {MaxWorkers, MaxHolders, MaxLost, MaxSwitches} \subseteq Nat

VARIABLES
    holder,   \* the running holder, 0 none; its server has a port and password of its own
    holders,  \* holders started so far
    go,       \* the handoff file: session and holder it names, or NoGo
    status,   \* status of the instance row
    session,  \* session of the instance row, 0 none
    paused,   \* a version switch holds deliveries
    drained,  \* the switch has seen every worker stopped
    unserved, \* ghost: a switch was cancelled while a worker still ran, and none was started since
    rows,     \* messages: state, whether attempted, and in which session
    perms,    \* opencode_permissions
    grant,    \* the task grant that makes worktree requests eligible, 0 none
    wk,       \* the workers
    started,  \* workers started so far
    op,       \* the operator's answer in progress
    lost, switches

files == <<holder, holders, go>>
store == <<status, session, paused, drained, unserved, rows, perms, grant>>
bounds == <<lost, switches>>
vars == <<files, store, wk, started, op, bounds, server>>

NoGo == [session |-> 0, port |-> 0]
NoWorker == [pc |-> "none", cancelled |-> FALSE, holder |-> 0, port |-> 0, session |-> 0,
             cur |-> 0, busy |-> FALSE, grant |-> 0]
NoAnswer == [pc |-> "none", p |-> 0, allow |-> FALSE, port |-> 0]
Ids == 1 .. MaxWorkers

Init ==
    /\ ServerInit
    /\ holder = 0 /\ holders = 0 /\ go = NoGo
    /\ status = "stopped" /\ session = 0 /\ paused = FALSE /\ drained = FALSE /\ unserved = FALSE
    /\ rows = [m \in Messages |-> [state |-> "none", attempted |-> FALSE, session |-> 0]]
    /\ perms = [p \in Permissions |-> [status |-> "none", decision |-> "none", session |-> 0]]
    /\ grant = 0 /\ wk = [w \in Ids |-> NoWorker] /\ started = 0 /\ op = NoAnswer
    /\ lost = 0 /\ switches = 0

Ended == {"none", "ended", "failed"}
Goto(w, p) == wk' = [wk EXCEPT ![w].pc = p]

\* [agend-daemon/src/driver/opencode/runtime.rs:50-65] workers_stopped: every thread has finished
Stopped == \A w \in Ids : wk[w].pc \in Ended

-----------------------------------------------------------------------------
(* The supervisor: holders and workers. *)

\* [agend-daemon/src/driver/opencode/runtime.rs:38-49] disconnect: every generation is cancelled
Cancelled(ws) == [w \in Ids |-> [ws[w] EXCEPT !.cancelled = @ \/ ws[w].pc \notin Ended]]

\* [agend-daemon/src/driver/opencode/runtime.rs:66-86] start: cancels the others, then a thread
Started(ws, h) ==
    /\ started < MaxWorkers /\ started' = started + 1 /\ unserved' = FALSE
    /\ wk' = [Cancelled(ws) EXCEPT ![started + 1] = [NoWorker EXCEPT !.pc = "endpoint", !.holder = h]]

\* A new holder: its directory is prepared (the handoff is removed, the
\* credential rotated), then the holder starts and a worker for it.
\* [agend-daemon/src/driver/opencode/launch.rs:139-217] prepare
StartHolder ==
    /\ holder = 0 /\ holders < MaxHolders /\ ~paused
    /\ holders' = holders + 1 /\ holder' = holders + 1 /\ go' = NoGo /\ status' = "running"
    /\ Started(wk, holders + 1)
    /\ UNCHANGED <<session, paused, drained, rows, perms, grant, op, bounds, server>>

HolderDies ==
    /\ holder # 0 /\ holders < MaxHolders /\ holder' = 0 /\ Killed
    /\ UNCHANGED <<holders, go, store, wk, started, op, bounds>>

\* The worker gave up: a StartFailed of this generation ends the holder and the
\* instance is started again.
WorkerFailed ==
    /\ holder # 0 /\ holders < MaxHolders /\ ~paused
    /\ \E w \in Ids : wk[w].pc = "failed" /\ ~wk[w].cancelled /\ wk[w].holder = holder
    /\ holder' = 0 /\ Killed /\ wk' = [w \in Ids |-> IF wk[w].pc = "failed" THEN [wk[w] EXCEPT !.pc = "ended"]
                                                      ELSE Cancelled(wk)[w]]
    /\ UNCHANGED <<holders, go, store, started, op, bounds>>

\* A version switch: deliveries are held, then the workers are stopped.
\* [agend-daemon/src/supervisor/switch_activation.rs:221-237] wait_switch_workers
Pause ==
    /\ ~paused /\ holder # 0 /\ switches < MaxSwitches /\ switches' = switches + 1
    /\ paused' = TRUE /\ wk' = Cancelled(wk)
    /\ UNCHANGED <<files, status, session, drained, unserved, rows, perms, grant, started, op, lost, server>>

Drained ==
    /\ paused /\ ~drained /\ Stopped /\ drained' = TRUE
    /\ UNCHANGED <<files, status, session, paused, unserved, rows, perms, grant, wk, started, op, bounds, server>>

\* A cancel does not wait for the workers, and starts one again only if the
\* earlier ones have stopped (finding 6).
\* [agend-daemon/src/supervisor/backend_switch.rs:140-165] Cancel: restart_delivery
CancelSwitch ==
    /\ paused /\ paused' = FALSE /\ drained' = FALSE
    /\ IF holder # 0 /\ Stopped THEN Started(wk, holder)
       ELSE unserved' = (unserved \/ holder # 0) /\ UNCHANGED <<wk, started>>
    /\ UNCHANGED <<files, status, session, rows, perms, grant, op, bounds, server>>

\* The task of the instance gets a worktree, or loses it.
\* [agend-daemon/src/store/opencode_worktree.rs:18-84] eligible: the grant of the moment
GrantChanges ==
    /\ Permissions # {} /\ grant < 2 /\ grant' = grant + 1
    /\ UNCHANGED <<files, status, session, paused, drained, unserved, rows, perms, wk, started, op, bounds, server>>

\* [agend-daemon/src/driver/opencode/driver.rs:200-264] deliver: claim; the worker sends
Deliver(m) ==
    /\ rows[m].state = "none" /\ \A k \in Messages : k < m => rows[k].state # "none"
    /\ rows' = [rows EXCEPT ![m].state = "queued"]
    /\ UNCHANGED <<files, status, session, paused, drained, unserved, perms, grant, wk, started, op, bounds, server>>

\* The operator gives up a message whose outcome is unknown.
\* [agend-daemon/src/store/opencode.rs:26-57] abandon_unknown_opencode
Abandon(m) ==
    /\ rows[m].attempted /\ rows[m].state \in {"queued", "sent"}
    /\ rows' = [rows EXCEPT ![m].state = "failed"]
    /\ UNCHANGED <<files, status, session, paused, drained, unserved, perms, grant, wk, started, op, bounds, server>>

-----------------------------------------------------------------------------
(* A worker: find the server, the session, hand it over. *)

\* [agend-daemon/src/driver/opencode/runtime.rs:103-118] run: live
Alive(w) == ~wk[w].cancelled /\ holder = wk[w].holder

\* Its request reaches the server: the port is the current holder's, and so the password.
Reaches(w) == holder # 0 /\ wk[w].port = holder
Fails == lost < MaxLost /\ lost' = lost + 1

\* A worker that ends on its own is reported, a cancelled one is not.
\* [agend-daemon/src/driver/opencode/runtime.rs:74-84] start: Failed unless cancelled
End(w) == Goto(w, IF wk[w].cancelled THEN "ended" ELSE "failed")

\* A handoff that names a port is believed before the server's own log.
\* [agend-daemon/src/driver/opencode/launch.rs:247-292] endpoint
FindEndpoint(w) ==
    /\ wk[w].pc = "endpoint"
    /\ IF Alive(w)
       THEN wk' = [wk EXCEPT ![w].pc = "health", ![w].port = IF go = NoGo THEN holder ELSE go.port]
       ELSE End(w)
    /\ UNCHANGED <<files, store, started, op, bounds, server>>

\* [agend-daemon/src/driver/opencode/runtime.rs:119-155] run: version, model, health, resume
Health(w) ==
    /\ wk[w].pc = "health"
    /\ IF ~Reaches(w) \/ ~Alive(w) THEN End(w) /\ UNCHANGED lost
       ELSE \/ wk' = [wk EXCEPT ![w].pc = IF session = 0 THEN "create" ELSE "handoff", ![w].session = session]
               /\ UNCHANGED lost
            \/ End(w) /\ Fails
    /\ UNCHANGED <<files, store, started, op, switches, server>>

\* [agend-daemon/src/driver/opencode/api.rs:25-37] create
Create(w) ==
    /\ wk[w].pc = "create"
    /\ \/ /\ Reaches(w) /\ NewSession
          /\ IF Alive(w) THEN wk' = [wk EXCEPT ![w].pc = "keep", ![w].session = sessions + 1] ELSE End(w)
          /\ UNCHANGED lost
       \/ ~Reaches(w) /\ End(w) /\ UNCHANGED <<server, lost>>
       \/ Reaches(w) /\ (NewSession \/ UNCHANGED server) /\ End(w) /\ Fails
    /\ UNCHANGED <<files, store, started, op, switches>>

\* The session is stored only while the row has none and the worker is current.
\* [agend-daemon/src/driver/opencode/runtime.rs:156-178] run: UPDATE instances SET session_id
Keep(w) ==
    /\ wk[w].pc = "keep"
    /\ IF ~wk[w].cancelled /\ session = 0
       THEN session' = wk[w].session /\ Goto(w, "handoff")
       ELSE End(w) /\ UNCHANGED session
    /\ UNCHANGED <<files, status, paused, drained, unserved, rows, perms, grant, started, op, bounds, server>>

\* The liveness check, then the file; the holder may be replaced in between.
\* [agend-daemon/src/driver/opencode/launch.rs:294-325] handoff
Handoff(w) ==
    /\ wk[w].pc \in {"handoff", "write"}
    /\ LET mine == [session |-> wk[w].session, port |-> wk[w].port]
       IN \/ /\ wk[w].pc = "handoff" /\ IF Alive(w) THEN Goto(w, "write") ELSE End(w)
             /\ UNCHANGED go
          \/ /\ wk[w].pc = "write"
             /\ go' = IF go = NoGo THEN mine ELSE go
             /\ IF go \in {NoGo, mine} THEN Goto(w, "tick") ELSE End(w)
    /\ UNCHANGED <<holder, holders, store, started, op, bounds, server>>

-----------------------------------------------------------------------------
(* The tick. *)

\* [agend-daemon/src/driver/opencode/worker.rs:22-41] live: the worker's session is the row's
Live(w) == ~wk[w].cancelled /\ status = "running" /\ session = wk[w].session

\* A failed tick is tried again; after twenty seconds of failures the worker ends.
\* [agend-daemon/src/driver/opencode/runtime.rs:199-246] run: the loop
TickFailed(w) == IF wk[w].cancelled THEN Goto(w, "ended") ELSE Goto(w, "tick") \/ Goto(w, "failed")

\* Requests the server no longer lists are stale; seeing one again changes nothing.
\* [agend-daemon/src/store/opencode_permissions.rs:22-60] observe
Observed ==
    [p \in Permissions |->
       CASE p \in asks /\ perms[p].status = "none" -> [status |-> "pending", decision |-> "none", session |-> session]
         [] p \notin asks /\ perms[p].status \in {"pending", "unknown"} -> [perms[p] EXCEPT !.status = "stale"]
         [] OTHER -> perms[p]]

\* [agend-daemon/src/driver/opencode/worker.rs:110-126] tick: live, permissions, observe
BeginTick(w) ==
    /\ wk[w].pc = "tick"
    /\ \/ /\ Alive(w) /\ Live(w) /\ Reaches(w)
          /\ perms' = Observed /\ Goto(w, "allow") /\ UNCHANGED lost
       \/ ~Alive(w) /\ End(w) /\ UNCHANGED <<perms, lost>>
       \/ Alive(w) /\ ~(Live(w) /\ Reaches(w)) /\ TickFailed(w) /\ UNCHANGED <<perms, lost>>
       \/ Alive(w) /\ Live(w) /\ Reaches(w) /\ Fails /\ TickFailed(w) /\ UNCHANGED perms
    /\ UNCHANGED <<files, status, session, paused, drained, unserved, rows, grant, started, op, switches, server>>

\* [agend-daemon/src/store/opencode_permissions.rs:115-155] pending
Pending(p) == perms[p].status = "pending" /\ perms[p].session = session

\* [agend-daemon/src/store/opencode_permissions.rs:64-106] claim_checked: pending, never attempted
Claimable(p) == Pending(p) /\ status = "running"

Claimed(p, allow) == perms' = [perms EXCEPT ![p].status = "unknown", ![p].decision = IF allow THEN "once" ELSE "reject"]

\* A request of the current task's worktree: the grant is read first, and the
\* claim asks that it is still the one.
\* [agend-daemon/src/driver/opencode/worker.rs:43-84] allow_current_worktree: eligible, then claim
AllowClaim(w, p) ==
    /\ wk[w].pc = "allow" /\ wk[w].cur = 0 /\ Pending(p) /\ grant = 1
    /\ wk' = [wk EXCEPT ![w].cur = p, ![w].grant = grant, ![w].pc = "claim"]
    /\ UNCHANGED <<files, store, started, op, bounds, server>>

\* Mutant: the grant is not looked at again.
StillGrantedAlways(w) == TRUE

\* [agend-daemon/src/store/opencode_permissions.rs:74-86] claim_checked: the grant
StillGranted(w) == grant = wk[w].grant

\* [agend-daemon/src/driver/opencode/worker.rs:74-100] allow_current_worktree: the claim callback
Claim(w) ==
    /\ wk[w].pc = "claim"
    /\ LET p == wk[w].cur
       IN IF p \in asks /\ Reaches(w) /\ Alive(w) /\ Live(w) /\ Claimable(p) /\ StillGranted(w)
          THEN Claimed(p, TRUE) /\ Goto(w, "reply")
          ELSE /\ UNCHANGED perms
               /\ wk' = [wk EXCEPT ![w].cur = 0, ![w].pc = IF wk[w].cancelled THEN "ended" ELSE "tick"]
    /\ UNCHANGED <<files, status, session, paused, drained, unserved, rows, grant, started, op, bounds, server>>

\* The one POST of the reply, and the outcome if it comes back.
\* [agend-daemon/src/driver/opencode/api.rs:147-175] reply_permission
Replied(p, allow, reach) ==
    \/ /\ reach /\ ReplyTo(p, allow) /\ UNCHANGED lost
       /\ perms' = [perms EXCEPT ![p].status = IF @ = "unknown" THEN "resolved" ELSE @]
    \/ reach /\ ReplyTo(p, allow) /\ Fails /\ UNCHANGED perms
    \/ reach /\ p \in asks /\ Fails /\ UNCHANGED <<perms, server>>
    \/ (~reach \/ p \notin asks) /\ UNCHANGED <<perms, server, lost>>

\* [agend-daemon/src/driver/opencode/worker.rs:84-106] allow_current_worktree: reply, resolved
Reply(w) ==
    /\ wk[w].pc = "reply" /\ Replied(wk[w].cur, TRUE, Reaches(w))
    /\ wk' = [wk EXCEPT ![w].cur = 0, ![w].pc = IF wk[w].cancelled THEN "ended" ELSE "tick"]
    /\ UNCHANGED <<files, status, session, paused, drained, unserved, rows, grant, started, op, switches>>

\* An attempt of this session that the history has.
\* [agend-daemon/src/driver/opencode/history.rs:78-99] confirmed: exact session, id and text
Confirmable(w, m) ==
    /\ rows[m].attempted /\ rows[m].session = wk[w].session /\ rows[m].state \in {"queued", "sent"}
    /\ <<wk[w].session, m>> \in hist

\* [agend-daemon/src/driver/opencode/worker.rs:127-196] tick: history, confirm, completed, busy
Reconcile(w) ==
    /\ wk[w].pc = "allow" /\ wk[w].cur = 0
    /\ \/ /\ Reaches(w) /\ UNCHANGED lost
          /\ rows' = [m \in Messages |-> IF Confirmable(w, m) THEN [rows[m] EXCEPT !.state = "confirmed"] ELSE rows[m]]
          /\ IF Live(w) THEN wk' = [wk EXCEPT ![w].pc = "flush", ![w].busy = active # 0]
             ELSE TickFailed(w)
       \/ ~Reaches(w) /\ TickFailed(w) /\ UNCHANGED <<rows, lost>>
       \/ Reaches(w) /\ Fails /\ TickFailed(w) /\ UNCHANGED rows
    /\ UNCHANGED <<files, status, session, paused, drained, unserved, perms, grant, started, op, switches, server>>

Fresh == {m \in Messages : rows[m].state = "queued" /\ ~rows[m].attempted}

\* [agend-daemon/src/store/opencode.rs:154-184] begin: not paused, the session is the row's
MayBegin(w) == ~paused /\ status = "running" /\ session = wk[w].session

\* [agend-daemon/src/store/opencode.rs:168-182] begin: the attempt is committed first
Marked(m, s) == [rows EXCEPT ![m].attempted = TRUE, ![m].session = s]

\* [agend-daemon/src/driver/opencode/worker.rs:197-225] tick: the rows nobody attempted
Begin(w) ==
    /\ wk[w].pc = "flush"
    /\ IF Fresh = {} \/ ~Live(w) \/ ~MayBegin(w)
       THEN (IF wk[w].cancelled THEN Goto(w, "ended") ELSE Goto(w, "tick")) /\ UNCHANGED rows
       ELSE LET m == CHOOSE x \in Fresh : \A y \in Fresh : x <= y
            IN rows' = Marked(m, wk[w].session) /\ wk' = [wk EXCEPT ![w].pc = "send", ![w].cur = m]
    /\ UNCHANGED <<files, status, session, paused, drained, unserved, perms, grant, started, op, bounds, server>>

\* A busy session is aborted first for an urgent message.
\* [agend-daemon/src/driver/opencode/worker.rs:226-233] tick: abort
AbortFirst(w) ==
    /\ wk[w].pc = "send"
    /\ IF ~Live(w) THEN wk' = [wk EXCEPT ![w].cur = 0, ![w].pc = "tick"] /\ UNCHANGED <<server, lost>>
       ELSE IF wk[w].busy /\ Level[wk[w].cur] # "Queue"
       THEN \/ Reaches(w) /\ Abort /\ Goto(w, "post") /\ UNCHANGED lost
            \/ /\ \/ ~Reaches(w) /\ UNCHANGED <<server, lost>>
                  \/ Reaches(w) /\ Fails /\ (Abort \/ UNCHANGED server)
               /\ wk' = [wk EXCEPT ![w].cur = 0, ![w].pc = "tick"]
       ELSE Goto(w, "post") /\ UNCHANGED <<server, lost>>
    /\ UNCHANGED <<files, store, started, op, switches>>

\* The last look at the cancellation before the request.
\* [agend-daemon/src/driver/opencode/worker.rs:234-236] tick: live
Ready(w) ==
    /\ wk[w].pc = "post"
    /\ IF Live(w) THEN Goto(w, "posting") ELSE wk' = [wk EXCEPT ![w].cur = 0, ![w].pc = "tick"]
    /\ UNCHANGED <<files, store, started, op, bounds, server>>

\* The one POST of the message; 204 is acceptance.
\* [agend-daemon/src/driver/opencode/worker.rs:234-257] tick: submit, accepted
Post(w) ==
    /\ wk[w].pc = "posting"
    /\ LET m == wk[w].cur
           accepted == [rows EXCEPT ![m].state = IF @ = "queued" THEN "sent" ELSE @]
       IN \/ /\ Reaches(w) /\ Prompt(wk[w].session, m) /\ rows' = accepted /\ UNCHANGED lost
             /\ wk' = [wk EXCEPT ![w].cur = 0, ![w].pc = "flush", ![w].busy = TRUE]
          \/ /\ Reaches(w) /\ Fails /\ (Prompt(wk[w].session, m) \/ UNCHANGED server)
             /\ wk' = [wk EXCEPT ![w].cur = 0, ![w].pc = "tick"] /\ UNCHANGED rows
          \/ /\ ~Reaches(w) /\ UNCHANGED <<rows, server, lost>>
             /\ wk' = [wk EXCEPT ![w].cur = 0, ![w].pc = "tick"]
    /\ UNCHANGED <<files, status, session, paused, drained, unserved, perms, grant, started, op, switches>>

Work(w) ==
    \/ FindEndpoint(w) \/ Health(w) \/ Create(w) \/ Keep(w) \/ Handoff(w)
    \/ BeginTick(w) \/ Claim(w) \/ Reply(w) \/ Reconcile(w)
    \/ Begin(w) \/ AbortFirst(w) \/ Ready(w) \/ Post(w) \/ \E p \in Permissions : AllowClaim(w, p)

-----------------------------------------------------------------------------
(* The operator answers a permission. *)

\* A pending request is shown with its choices, one whose reply is unknown without.
\* [agend-daemon/src/handlers/opencode_attention.rs:18-66] refresh
Offered(p) == Pending(p)

\* [agend-daemon/src/handlers/opencode_attention.rs:69-124] answer: the current holder's session
Answer(p, allow) ==
    /\ op.pc = "none" /\ Offered(p) /\ holder # 0
    /\ op' = [pc |-> "claim", p |-> p, allow |-> allow, port |-> holder]
    /\ UNCHANGED <<files, store, wk, started, bounds, server>>

\* [agend-daemon/src/handlers/opencode_attention.rs:126-163] send_decision
SendDecision ==
    /\ op.pc # "none"
    /\ \/ /\ op.pc = "claim" /\ UNCHANGED <<server, lost>>
          /\ IF op.p \in asks /\ op.port = holder /\ Claimable(op.p)
             THEN Claimed(op.p, op.allow) /\ op' = [op EXCEPT !.pc = "reply"]
             ELSE op' = NoAnswer /\ UNCHANGED perms
       \/ op.pc = "reply" /\ Replied(op.p, op.allow, op.port = holder) /\ op' = NoAnswer
    /\ UNCHANGED <<files, status, session, paused, drained, unserved, rows, grant, wk, started, switches>>

-----------------------------------------------------------------------------
Serve == (Finish \/ \E p \in Permissions : Ask(p)) /\ UNCHANGED <<files, store, wk, started, op, bounds>>

Next ==
    \/ StartHolder \/ HolderDies \/ WorkerFailed \/ Pause \/ Drained \/ CancelSwitch \/ GrantChanges
    \/ \E m \in Messages : Deliver(m) \/ Abandon(m)
    \/ \E w \in Ids : Work(w)
    \/ \E p \in Permissions, allow \in BOOLEAN : Answer(p, allow)
    \/ SendDecision \/ Serve

Spec == Init /\ [][Next]_vars

-----------------------------------------------------------------------------
\* The types of the variables; a handoff names a session the server created.
TypeOK ==
    /\ holder \in 0 .. MaxHolders /\ session \in 0 .. sessions /\ go.session \in 0 .. sessions
    /\ \A m \in Messages : rows[m].state \in {"none", "queued", "sent", "confirmed", "failed"}
    /\ \A p \in Permissions : perms[p].status \in {"none", "pending", "unknown", "resolved", "stale"}
    /\ \A w \in Ids : wk[w].session \in 0 .. sessions /\ wk[w].port \in 0 .. MaxHolders

\* A message is posted at most once: the row is marked before the post, and an
\* attempt whose outcome is unknown is never repeated (opencode::begin).
PostedOnce == \A m \in Messages : copies[m] <= 1

\* The instance keeps the session it got first: no worker, however late,
\* replaces it, and the terminal is never handed another one.
SessionKept == session # 0 => session' = session
\* A permission request is replied to at most once, with the decision the
\* table has, though the worker and the operator may both want to answer it.
OneReply == \A p \in Permissions :
    /\ Len(replies[p]) <= 1
    /\ Len(replies[p]) = 1 => perms[p].decision = IF replies[p][1] THEN "once" ELSE "reject"

\* A worker's own permission is claimed under the grant it read.
GrantCurrent == \A w \in Ids : wk[w].pc = "claim" /\ wk'[w].pc = "reply" => grant = wk[w].grant

\* Once the switch has seen the workers stopped, no message is posted until
\* deliveries are released (workers_stopped, begin).
DrainedIsQuiet == drained => copies' = copies

=============================================================================
