--------------------------- MODULE ClaudeDelivery ---------------------------
(***************************************************************************)
(* Push delivery of messages to one Claude instance.  A message is claimed  *)
(* in the messages table, an attempt is reserved in claude_deliveries       *)
(* before any content leaves the daemon, and one of two short-lived helper  *)
(* processes carries the content to the agent: the MCP channel, which polls *)
(* while the agent is idle (or after an Esc key while it is busy), and the  *)
(* Stop hook, which continues the turn.  Hooks and ACKs are published in a  *)
(* spool directory first and replayed until the daemon commits them.        *)
(* Every await of the bridge is a place where another request, the operator *)
(* or a crash may come in between.                                          *)
(***************************************************************************)
EXTENDS Naturals, Sequences, FiniteSets

CONSTANTS Msgs,        \* the messages, numbered in the order of their seq
          Level,       \* the busy level of each message
          HookKinds,   \* the hooks that fire
          MaxHooks,    \* hooks that fire; a hook's time is its number
          MaxSessions, \* sessions the instance has had at most
          MaxMishaps   \* crashes, lost replies, dead helpers, refused keys

VARIABLES rows,   \* messages joined with claude_deliveries
          inst,   \* the instance row and the switch pause
          bridge, \* the routing state of the bridge, lost in a crash
          ops,    \* the request of each helper and what the helper holds
          spool,  \* hooks and ACKs published and not yet committed
          log,    \* driver_events: the hooks ingested
          refused, \* those whose live request came while the instance was down
          seen,   \* how often the content of a message reached the agent
          att,    \* messages shown as "delivery outcome unknown"
          clock, mishaps

vars == <<rows, inst, bridge, ops, spool, log, refused, seen, att, clock, mishaps>>

Helpers == {"hook", "chan"}
\* [agend-daemon/src/claude_bridge.rs:212-222] execute: hooks accepted
Kinds == {"SessionStart", "UserPromptSubmit", "ToolUse", "Stop", "StopAgain",
          "SessionEnd"}
Routing == Kinds \ {"ToolUse"}

DeliveryConstants ==
    /\ Msgs \subseteq Nat \ {0}
    /\ Level \in [Msgs -> {"queue", "steer", "interrupt"}]
    /\ HookKinds \subseteq Kinds
    /\ MaxHooks \in Nat /\ MaxSessions \in Nat \ {0} /\ MaxMishaps \in Nat

NoAttempt == [id |-> 0, session |-> 0, route |-> "none"]
\* [agend-daemon/src/store/messages.rs:215-244] claim: the row inserted
NewRow == [state |-> "queued", attempted |-> FALSE, attempt |-> NoAttempt,
           sent |-> FALSE, confirmed |-> FALSE, abandoned |-> FALSE,
           tries |-> 0]  \* each attempt has a delivery id of its own
Unclaimed == [NewRow EXCEPT !.state = "none"]
\* [agend-daemon/src/claude_bridge.rs:26-38] State
NoBridge == [session |-> 0, idle |-> "none", busy |-> FALSE, rev |-> 0,
             initial |-> FALSE, last |-> 0]
NoOp == [pc |-> "none", rev |-> 0, session |-> 0, route |-> "none",
         todo |-> <<>>, got |-> <<>>, ev |-> [at |-> 0, kind |-> "none", session |-> 0],
         lost |-> FALSE]

Receipts == [msg : Msgs, id : Nat, session : 0..MaxSessions]

(***************************************************************************)
(* The transactions of the DB thread                                        *)
(***************************************************************************)
\* [agend-core/src/model.rs:54-72] DeliveryState::can_transition_to
CanMove(from, to) == <<from, to>> \in {<<"queued", "sent">>, <<"queued", "failed">>,
                                       <<"sent", "confirmed">>, <<"sent", "failed">>}
\* [agend-daemon/src/store/messages.rs:266-287] advance_claude
Advance(s, to) == IF CanMove(s, to) THEN to ELSE s

\* [agend-core/src/runtime_records/claude.rs:52-59] may_start
MayStart(r) == /\ r.state = "queued" /\ ~r.attempted
               /\ r.attempt = NoAttempt /\ ~r.abandoned
\* [agend-core/src/runtime_records/claude.rs:60-70] outcome_unknown
OutcomeUnknown(r) ==
    /\ r.state = "queued" /\ ~r.abandoned
    /\ IF r.attempt = NoAttempt THEN r.attempted ELSE ~r.sent /\ ~r.confirmed

\* [agend-daemon/src/store/claude.rs:67-118] reserve: its conditions
ReserveAllowed(m, session) ==
    MayStart(rows[m]) /\ inst.running /\ inst.session = session
\* [agend-daemon/src/store/claude.rs:103-117] reserve: the update
Reserved(r, session, route, id) ==
    [r EXCEPT !.attempt = [id |-> id, session |-> session, route |-> route],
              !.attempted = TRUE, !.tries = id]

\* [agend-daemon/src/store/claude.rs:120-152] written
WrittenAllowed(r, rc) ==
    /\ r.attempt # NoAttempt /\ r.attempt.id = rc.id /\ r.attempt.session = rc.session
    /\ ~r.abandoned /\ r.state # "failed" /\ (r.state = "confirmed" => r.confirmed)
\* [agend-daemon/src/store/claude.rs:140-147] written: the update
Wrote(r) == [r EXCEPT !.state = Advance(@, "sent"), !.sent = TRUE]

\* Mutant: the receipt is compared with the session of the instance.
AckAllowedNow(r, rc) ==
    /\ r.attempt # NoAttempt /\ r.attempt.id = rc.id /\ inst.session = rc.session
    /\ ~r.abandoned /\ r.state # "failed" /\ r.confirmed = (r.state = "confirmed")
\* [agend-daemon/src/store/claude.rs:154-189] acknowledge: its conditions
AckAllowed(r, rc) ==
    /\ r.attempt # NoAttempt /\ r.attempt.id = rc.id /\ r.attempt.session = rc.session
    /\ ~r.abandoned /\ r.state # "failed" /\ r.confirmed = (r.state = "confirmed")
\* [agend-daemon/src/store/claude.rs:190-216] acknowledge: the update
Acked(r) == [r EXCEPT !.state = Advance(Advance(@, "sent"), "confirmed"),
                      !.sent = TRUE, !.confirmed = TRUE]

\* [agend-daemon/src/store/claude.rs:218-248] abandon
Abandoned(r) == [r EXCEPT !.state = Advance(@, "failed"), !.abandoned = TRUE]

\* [agend-daemon/src/store/claude.rs:304-322] release_refused_claude_key
Released(r) == [r EXCEPT !.attempt = NoAttempt, !.attempted = FALSE]

\* [agend-daemon/src/store/messages.rs:143-165] pending_claude_filtered
Pending(route) ==
    LET fits(m) == CASE route = "stop" -> Level[m] = "queue"
                     [] route = "key" -> Level[m] # "queue"
                     [] OTHER -> TRUE
        S == {m \in Msgs : MayStart(rows[m]) /\ fits(m)}
    IN  [i \in 1..Cardinality(S) |->
            CHOOSE m \in S : Cardinality({n \in S : n <= m}) = i]

(***************************************************************************)
(* The bridge                                                               *)
(***************************************************************************)
\* The mutex of the routing states is held while content is reserved.
Unlocked == \A h \in Helpers : ops[h].pc # "reserve"
\* [agend-daemon/src/claude_bridge.rs:305-320] execute: the state of a new session
Fresh(b) == IF b.session = inst.session THEN b
            ELSE [NoBridge EXCEPT !.session = inst.session]

\* [agend-daemon/src/claude_bridge.rs:255-282] execute: a historical hook
Revoke(b, ev) ==
    IF ev.kind \in Routing /\ b.session = ev.session /\ ev.at >= b.last
    THEN [b EXCEPT !.idle = "none", !.initial = FALSE, !.busy = FALSE,
                   !.last = ev.at, !.rev = @ + 1]
    ELSE b
\* [agend-daemon/src/claude_bridge.rs:346-433] execute: a live hook
Live(b, ev) ==
    LET c == IF ev.kind \in Routing THEN [b EXCEPT !.last = ev.at, !.rev = @ + 1] ELSE b
    IN  CASE ev.kind \in Routing /\ ev.at < b.last -> b
          [] ev.kind = "UserPromptSubmit" ->
               [c EXCEPT !.initial = FALSE, !.idle = "none", !.busy = TRUE]
          [] ev.kind = "ToolUse" -> [c EXCEPT !.rev = @ + 1]
          [] ev.kind = "SessionEnd" ->
               [c EXCEPT !.initial = FALSE, !.idle = "none", !.busy = FALSE]
          [] ev.kind = "SessionStart" ->
               [c EXCEPT !.initial = TRUE, !.idle = "none", !.busy = FALSE]
          [] OTHER -> [c EXCEPT !.initial = FALSE, !.idle = "new", !.busy = FALSE]
\* [agend-daemon/src/store/driver_events.rs:24-83] append: a known id is not inserted again
Appended(ev) == log \cup {ev}
\* [agend/src/claude/spool.rs:81-162] locked, atomic, publish: a file of its own, durable
Publish(kind, x) == [spool EXCEPT ![kind] = @ \cup {x}]
\* [agend/src/claude/spool.rs:163-192] list, read, remove
Unlink(kind, x) == [spool EXCEPT ![kind] = @ \ {x}]

Reply(h) == [ops EXCEPT ![h].pc = "reply"]
Mishap == mishaps < MaxMishaps /\ mishaps' = mishaps + 1

\* [agend/src/claude/hook.rs:12-109] run: read, published under the lock, then the first live attempt
HookFires(kind) ==
    /\ ops["hook"].pc = "none" /\ clock < MaxHooks
    /\ clock' = clock + 1
    /\ LET ev == [at |-> clock + 1, kind |-> kind, session |-> inst.session]
       IN  /\ spool' = Publish("hooks", ev)
           /\ ops' = [ops EXCEPT !["hook"] = [NoOp EXCEPT !.pc = "request", !.ev = ev]]
    /\ UNCHANGED <<rows, inst, bridge, log, seen, refused, att, mishaps>>

\* [agend-daemon/src/claude_bridge.rs:204-320] execute: a hook request
HookArrives(late) ==
    LET ev == ops["hook"].ev
        known == ev \in log
        b == Fresh(bridge)
        next == Live(b, ev)
    IN  /\ ops["hook"].pc = "request" /\ Unlocked
        /\ log' = Appended(ev)
        /\ refused' = IF late \/ known \/ inst.running THEN refused ELSE refused \cup {ev}
        /\ IF late \/ known
           THEN /\ bridge' = IF known THEN bridge ELSE Revoke(bridge, ev)
                /\ ops' = Reply("hook")
           ELSE IF ~inst.running  \* an error: the reply is no commit receipt
           THEN ops' = [ops EXCEPT !["hook"] = NoOp] /\ UNCHANGED bridge
           ELSE IF ev.session # inst.session
           THEN bridge' = b /\ ops' = Reply("hook")
           ELSE /\ bridge' = next
                /\ ops' = IF ev.kind = "Stop" /\ next.last = ev.at
                          THEN [ops EXCEPT !["hook"] = [@ EXCEPT !.pc = "screen", !.route = "stop",
                                    !.rev = next.rev, !.session = inst.session]]
                          ELSE Reply("hook")
        /\ UNCHANGED <<rows, inst, spool, seen, att, clock, mishaps>>

\* [agend-daemon/src/claude_bridge.rs:321-345] execute: Attach and Poll
Poll ==
    /\ ops["chan"].pc = "none" /\ Unlocked /\ inst.running
    /\ bridge' = Fresh(bridge)
    /\ bridge'.busy \/ bridge'.idle = "ripe"
    /\ ops' = [ops EXCEPT !["chan"] = [NoOp EXCEPT !.pc = "screen",
                  !.route = IF bridge'.busy THEN "key" ELSE "channel",
                  !.rev = bridge'.rev, !.session = inst.session]]
    /\ UNCHANGED <<rows, inst, spool, log, seen, refused, att, clock, mishaps>>

\* [agend-daemon/src/claude_bridge.rs:473-486] execute: the second look at the state
StillIdle(o) == /\ bridge.session = o.session /\ bridge.rev = o.rev
                /\ bridge.idle = "ripe" \/ (bridge.idle = "new" /\ o.route = "stop")
\* [agend-daemon/src/claude_bridge.rs:503-574] interrupt: the screen, then the second look at the state
StillBusy(o) == bridge.session = o.session /\ bridge.rev = o.rev /\ bridge.busy

\* [agend-daemon/src/claude_bridge.rs:437-486] execute: the screen and the second look
ScreenRead(h, ok) ==
    /\ ops[h].pc = "screen" /\ Unlocked
    /\ IF /\ ok
          /\ IF ops[h].route = "key" THEN StillBusy(ops[h]) ELSE StillIdle(ops[h])
       THEN ops' = [ops EXCEPT ![h].pc = "reserve", ![h].todo = Pending(ops[h].route)]
       ELSE ops' = Reply(h)
    /\ IF ~ok /\ bridge.initial /\ bridge.rev = ops[h].rev /\ ops[h].route = "channel"
       THEN \E idle \in {"none", bridge.idle} : bridge' = [bridge EXCEPT !.idle = idle]
       ELSE UNCHANGED bridge
    /\ UNCHANGED <<rows, inst, spool, log, seen, refused, att, clock, mishaps>>

\* [agend-daemon/src/claude_bridge.rs:672-742] reserve: one message of the list
ReserveNext(h) ==
    LET o == ops[h]
        m == Head(o.todo)
        id == rows[m].tries + 1
        rc == [msg |-> m, id |-> id, session |-> o.session]
    IN  /\ o.pc = "reserve" /\ o.todo # <<>>
        /\ \/ /\ ~ReserveAllowed(m, o.session)  \* an error ends the request
              /\ ops' = [ops EXCEPT ![h] = NoOp]
              /\ UNCHANGED rows
           \/ /\ ReserveAllowed(m, o.session) /\ inst.paused
              /\ ops' = [ops EXCEPT ![h].todo = Tail(@)]
              /\ UNCHANGED rows
           \/ /\ ReserveAllowed(m, o.session) /\ ~inst.paused
              /\ rows' = [rows EXCEPT ![m] = Reserved(@, o.session, o.route, id)]
              /\ ops' = [ops EXCEPT ![h].got = Append(@, rc),
                                    ![h].todo = IF o.route = "key" THEN <<>> ELSE Tail(@)]
        /\ UNCHANGED <<inst, bridge, spool, log, seen, refused, att, clock, mishaps>>

\* [agend-daemon/src/claude_bridge.rs:487-501] execute: after the reservations
ReserveDone(h) ==
    LET o == ops[h] IN
    /\ o.pc = "reserve" /\ o.todo = <<>>
    /\ bridge' = IF o.route = "key"
                 THEN IF o.got = <<>> THEN bridge ELSE [bridge EXCEPT !.rev = @ + 1]
                 ELSE IF o.got = <<>> THEN [bridge EXCEPT !.initial = FALSE]
                 ELSE [bridge EXCEPT !.initial = FALSE, !.idle = "none", !.busy = TRUE,
                                     !.rev = @ + 1]
    /\ ops' = IF o.route = "key" /\ o.got # <<>>
              THEN [ops EXCEPT ![h].pc = "key", ![h].rev = bridge'.rev]
              ELSE Reply(h)
    /\ UNCHANGED <<rows, inst, spool, log, seen, refused, att, clock, mishaps>>

\* [agend-daemon/src/claude_bridge.rs:575-627] interrupt: the Esc key was written
KeyWritten ==
    LET o == ops["chan"] IN
    /\ o.pc = "key" /\ Unlocked
    /\ ops' = IF bridge.session = o.session /\ bridge.rev = o.rev THEN Reply("chan")
              ELSE [ops EXCEPT !["chan"].pc = "reply", !["chan"].got = <<>>]
    /\ UNCHANGED <<rows, inst, bridge, spool, log, seen, refused, att, clock, mishaps>>

\* [agend-daemon/src/claude_bridge.rs:587-609] interrupt: the holder refused the key
KeyRefused ==
    LET rc == ops["chan"].got[1] IN
    /\ ops["chan"].pc = "key" /\ Mishap
    /\ rows' = IF /\ rows[rc.msg].attempt.id = rc.id /\ OutcomeUnknown(rows[rc.msg])
               THEN [rows EXCEPT ![rc.msg] = Released(@)]
               ELSE rows
    /\ ops' = [ops EXCEPT !["chan"] = NoOp]
    /\ UNCHANGED <<inst, bridge, spool, log, seen, refused, att, clock>>

\* [agend-daemon/src/claude_bridge.rs:610-616] interrupt: no answer for the key
KeyUnknown ==
    /\ ops["chan"].pc = "key" /\ Mishap
    /\ ops' = [ops EXCEPT !["chan"] = NoOp]
    /\ UNCHANGED <<rows, inst, bridge, spool, log, seen, refused, att, clock>>

(***************************************************************************)
(* The helpers                                                              *)
(***************************************************************************)
\* [agend/src/claude/hook.rs:96-115] run: the reply of the live attempt
ReplyTaken(h) ==
    LET o == ops[h] IN
    /\ o.pc = "reply"
    /\ spool' = IF h = "hook" /\ ~o.lost THEN Unlink("hooks", o.ev) ELSE spool
    /\ ops' = IF o.lost \/ o.got = <<>> THEN [ops EXCEPT ![h] = NoOp]
              ELSE [ops EXCEPT ![h].pc = "output"]
    /\ UNCHANGED <<rows, inst, bridge, log, seen, refused, att, clock, mishaps>>

\* The messages one write of a helper carries: the hook answers with all of
\* them, the channel sends one notification each.
\* [agend/src/claude/hook.rs:116-128] run: output
Carried(h) == IF h = "hook" THEN {ops[h].got[i] : i \in DOMAIN ops[h].got} ELSE {Head(ops[h].got)}

\* [agend/src/claude/channel.rs:213-246] run: the poll and its notifications
Output(h) ==
    /\ ops[h].pc = "output"
    /\ seen' = seen \cup {<<rc, Cardinality({x \in seen : x[1] = rc}) + 1>> : rc \in Carried(h)}
    /\ ops' = [ops EXCEPT ![h].pc = "written"]
    /\ UNCHANGED <<rows, inst, bridge, spool, log, refused, att, clock, mishaps>>

\* [agend-daemon/src/claude_bridge.rs:166-203] execute: Written receipts
Written(h, saved) ==
    /\ ops[h].pc = "written"
    /\ IF saved THEN UNCHANGED mishaps ELSE Mishap
    /\ rows' = [m \in Msgs |->
                 IF saved /\ \E rc \in Carried(h) : rc.msg = m /\ WrittenAllowed(rows[m], rc)
                 THEN Wrote(rows[m]) ELSE rows[m]]
    /\ ops' = IF h = "chan" /\ Len(ops[h].got) > 1
              THEN [ops EXCEPT ![h].pc = "output", ![h].got = Tail(@)]
              ELSE [ops EXCEPT ![h] = NoOp]
    /\ UNCHANGED <<inst, bridge, spool, log, seen, refused, att, clock>>

\* A helper dies, or the daemon does not answer it in time.
\* [agend/src/claude/mod.rs:49-69] exchange
HelperLost(h) ==
    /\ ops[h].pc # "none" /\ ~ops[h].lost /\ Mishap
    /\ ops' = [ops EXCEPT ![h] = IF @.pc \in {"output", "written"} THEN NoOp
                                 ELSE [@ EXCEPT !.lost = TRUE]]
    /\ UNCHANGED <<rows, inst, bridge, spool, log, seen, refused, att, clock>>

\* [agend/src/claude/channel.rs:31-89] ack: publish the receipt of content that was read
AckPublished(rc) ==
    /\ \E x \in seen : x[1] = rc
    /\ rc \notin spool.acked
    /\ spool' = [Publish("acks", rc) EXCEPT !.acked = @ \cup {rc}]
    /\ UNCHANGED <<rows, inst, bridge, ops, log, seen, refused, att, clock, mishaps>>

\* [agend/src/claude/mod.rs:70-110] replay: only a commit receipt removes the file
AckReplayed(rc, answered) ==
    /\ rc \in spool.acks
    /\ AckAllowed(rows[rc.msg], rc)
    /\ rows' = [rows EXCEPT ![rc.msg] = Acked(@)]
    /\ IF answered
       THEN spool' = Unlink("acks", rc) /\ UNCHANGED mishaps
       ELSE Mishap /\ UNCHANGED spool
    /\ UNCHANGED <<inst, bridge, ops, log, seen, refused, att, clock>>

\* [agend-daemon/src/ingest.rs:28-169] pending, run: the lock keeps a fresh hook from
\* being replayed before its live attempt
HookReplayed(ev) ==
    /\ ev \in spool.hooks /\ Unlocked
    /\ ops["hook"].pc \in {"none", "output", "written"} \/ ops["hook"].lost
    /\ log' = Appended(ev)
    /\ bridge' = IF ev \in log THEN bridge ELSE Revoke(bridge, ev)
    /\ spool' = Unlink("hooks", ev)
    /\ UNCHANGED <<rows, inst, ops, seen, refused, att, clock, mishaps>>

(***************************************************************************)
(* The daemon around it                                                     *)
(***************************************************************************)
\* [agend-daemon/src/driver/claude/driver.rs:26-92] deliver: claim, and wait for the bridge
Claim(m) ==
    /\ rows[m].state = "none" /\ \A n \in Msgs : n < m => rows[n].state # "none"
    /\ rows' = [rows EXCEPT ![m] = NewRow]
    /\ UNCHANGED <<inst, bridge, ops, spool, log, seen, refused, att, clock, mishaps>>

\* [agend-daemon/src/claude_bridge/startup.rs:142-167] run: the ready prompt after a start
StartupReady(known) ==
    /\ Unlocked /\ bridge.session = inst.session /\ inst.running
    /\ bridge.initial /\ ~bridge.busy
    /\ bridge' = [bridge EXCEPT !.idle = IF ~known THEN "none" ELSE IF @ = "none" THEN "new" ELSE @]
    /\ bridge' # bridge
    /\ UNCHANGED <<rows, inst, ops, spool, log, seen, refused, att, clock, mishaps>>

\* Five seconds without a revocation.
\* [agend-daemon/src/claude_bridge.rs:338-343] execute: idle long enough
IdleAges ==
    /\ bridge.idle = "new"
    /\ bridge' = [bridge EXCEPT !.idle = "ripe"]
    /\ UNCHANGED <<rows, inst, ops, spool, log, seen, refused, att, clock, mishaps>>

\* [agend-daemon/src/store/messages.rs:167-191] unknown_claude_after
Unknown == {m \in Msgs : OutcomeUnknown(rows[m])}
\* [agend-daemon/src/handlers/claude_attention.rs:11-45] refresh
Refresh(aged) ==
    /\ att' = aged \cup (att \cap Unknown)
    /\ UNCHANGED <<rows, inst, bridge, ops, spool, log, seen, refused, clock, mishaps>>

\* [agend-daemon/src/store/claude.rs:260-284] abandon_unknown_claude
AbandonAllowed(r) == OutcomeUnknown(r)
\* [agend-daemon/src/handlers/claude_attention.rs:47-91] resolve
Abandon(m) ==
    /\ m \in att /\ AbandonAllowed(rows[m])
    /\ rows' = [rows EXCEPT ![m] = Abandoned(@)]
    /\ att' = att \ {m}
    /\ UNCHANGED <<inst, bridge, ops, spool, log, seen, refused, clock, mishaps>>

\* The instance is stopped or started, paused for a backend switch, or replaced.
\* [agend-daemon/src/store/instances.rs:134-171] set_status, set_session_id
InstanceChanges ==
    /\ Mishap
    /\ \/ inst' = [inst EXCEPT !.running = ~@]
       \/ inst' = [inst EXCEPT !.paused = ~@]
       \/ inst.session < MaxSessions /\ inst' = [inst EXCEPT !.session = @ + 1]
    /\ UNCHANGED <<rows, bridge, ops, spool, log, seen, refused, att, clock>>

\* The routing state, the requests under way and the attention items are in memory.
Crash ==
    /\ Mishap
    /\ bridge' = NoBridge /\ att' = {}
    /\ ops' = [h \in Helpers |-> IF ops[h].pc \in {"output", "written"} THEN ops[h] ELSE NoOp]
    /\ UNCHANGED <<rows, inst, spool, log, seen, refused, clock>>

Init ==
    /\ rows = [m \in Msgs |-> Unclaimed]
    /\ inst = [session |-> 1, running |-> TRUE, paused |-> FALSE]
    /\ bridge = NoBridge
    /\ ops = [h \in Helpers |-> NoOp]
    /\ spool = [hooks |-> {}, acks |-> {}, acked |-> {}]
    /\ log = {} /\ refused = {} /\ seen = {} /\ att = {} /\ clock = 0 /\ mishaps = 0

Helping(h) == \/ \E ok \in BOOLEAN : ScreenRead(h, ok)
              \/ ReserveNext(h) \/ ReserveDone(h) \/ ReplyTaken(h) \/ Output(h)
              \/ \E saved \in BOOLEAN : Written(h, saved)

Held == UNION {{ops[h].got[i] : i \in DOMAIN ops[h].got} : h \in Helpers}
Read == {x[1] : x \in seen}

Next ==
    \/ \E k \in HookKinds : HookFires(k)
    \/ \E late \in BOOLEAN : HookArrives(late)
    \/ Poll \/ KeyWritten \/ KeyRefused \/ KeyUnknown
    \/ \E h \in Helpers : Helping(h) \/ HelperLost(h)
    \/ \E rc \in Read : AckPublished(rc)
    \/ \E rc \in spool.acks, answered \in BOOLEAN : AckReplayed(rc, answered)
    \/ \E ev \in spool.hooks : HookReplayed(ev)
    \/ \E m \in Msgs : Claim(m) \/ Abandon(m)
    \/ \E known \in BOOLEAN : StartupReady(known)
    \/ IdleAges \/ Refresh(Unknown) \/ Refresh({}) \/ InstanceChanges \/ Crash

Spec == Init /\ [][Next]_vars

-----------------------------------------------------------------------------
TypeOK ==
    /\ \A m \in Msgs : /\ rows[m].state \in {"none", "queued", "sent", "confirmed", "failed"}
                       /\ rows[m].attempt.session \in 0..MaxSessions
                       /\ rows[m].attempted = (rows[m].attempt # NoAttempt)
    /\ Held \cup Read \cup spool.acks \subseteq Receipts
    /\ bridge.idle \in {"none", "new", "ripe"}
    /\ att \subseteq Msgs

\* The content of a message reaches the agent at most once, whatever reply,
\* receipt, key or process was lost: an attempt that was reserved is never
\* reserved again (store/claude.rs reserve) unless a refused key proves that
\* nothing left the daemon.
ContentOnce == \A m \in Msgs : Cardinality({x \in seen : x[1].msg = m}) <= 1

\* Only content the agent has got and acknowledged is confirmed, and a failed
\* message is one the operator abandoned (driver/claude/driver.rs: an instance
\* failure is no decision to abandon).
OutcomeIsReal ==
    \A m \in Msgs :
        /\ rows[m].state = "confirmed" => \E rc \in spool.acked : rc.msg = m
        /\ rows[m].state = "sent" => \E rc \in Read : rc.msg = m
        /\ (rows[m].state = "failed") = rows[m].abandoned

\* An acknowledgement the agent gave is accepted whenever it arrives, after
\* any restart and any replacement of the session, unless the operator gave the
\* message up before.
AckAccepted ==
    \A rc \in spool.acks : rows[rc.msg].abandoned \/ AckAllowed(rows[rc.msg], rc)

Told == {e \in log \ refused : e.kind \in Routing /\ e.session = inst.session}
Newest == {e \in Told : \A f \in Told : f.at <= e.at}
\* Content that waits for an idle agent is reserved only if the newest hook of
\* the session that the daemon has applied says that a turn ended or a session
\* began; hooks that arrive late or are replayed never open the way.
IdleRoutesAreIdle ==
    \A m \in Msgs :
          /\ rows[m].attempt = NoAttempt
          /\ rows'[m].attempt.route \in {"stop", "channel"}
          => \A e \in Newest : e.kind \in {"Stop", "StopAgain", "SessionStart"}

=============================================================================
