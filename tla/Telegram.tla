------------------------------ MODULE Telegram ------------------------------
(***************************************************************************)
(* The Telegram notifier: a worker that turns the current needs-you item   *)
(* into a delivery of several parts, each claimed in SQLite before it is   *)
(* sent and confirmed after its receipt; a poller that claims what the     *)
(* human pressed or replied before it acts; and the local disposition of a *)
(* part whose outcome is unknown.  The daemon may die between any two      *)
(* steps, a call to Telegram may fail with or without effect, and the item *)
(* may change while a call is under way.                                   *)
(***************************************************************************)
EXTENDS Integers, Sequences, FiniteSets

CONSTANTS Contents,     \* what the needs-you item may say, positive numbers
          Parts,        \* parts of a notice of it
          Kinds,        \* what the human may do: act, reply, read, reason
          MaxChanges,   \* bound: changes of the item
          MaxUpdates,   \* bound: updates of the human
          MaxCrashes,   \* bound: restarts of the daemon
          MaxRows       \* bound: deliveries in the outbox

TelegramAssumption ==
    /\ Contents \subseteq Nat \ {0} /\ Parts \in Nat \ {0}
    /\ Kinds \subseteq {"act", "reply", "read", "reason"}
    /\ {MaxChanges, MaxUpdates, MaxCrashes, MaxRows} \subseteq Nat

VARIABLES
    att,      \* content of the needs-you item, 0 when there is none
    rows,     \* telegram_outbox
    notice,   \* telegram_notices: delivery of the item's key, and whether it is active
    led,      \* telegram_updates: the claimed updates, in order
    upds,     \* updates of the human, in Telegram's order
    proc,     \* the worker and the poller
    sent,     \* ghost: parts that reached Telegram
    twice,    \* ghost: parts that reached it again
    fx,       \* ghost: operator effects that ran
    changes, crashes

vars == <<att, rows, notice, led, upds, proc, sent, twice, fx, changes, crashes>>
bounds == <<changes, crashes>>
Senders == {"worker", "poller"}

Idle == [pc |-> "idle", row |-> 0, part |-> 0, seen |-> 0, u |-> 0, end |-> 0]

\* [agend-core/src/telegram.rs:43-65] TelegramDelivery::new
NewRow(c, n) == [c |-> c, parts |-> n, next |-> 0, fly |-> FALSE, unk |-> FALSE,
                 ab |-> FALSE, op |-> FALSE]

\* [agend-core/src/telegram.rs:66-68] TelegramDelivery::complete
Complete(r) == r.next = r.parts /\ ~r.fly /\ ~r.ab

\* [agend-core/src/telegram.rs:69-84] TelegramDelivery::valid
Valid(r) == /\ r.next <= r.parts /\ (r.unk => r.fly) /\ (r.op => r.ab /\ r.unk)
            /\ (r.fly => r.next < r.parts)

Init ==
    /\ att = 0 /\ rows = <<>> /\ notice = [row |-> 0, act |-> FALSE]
    /\ led = <<>> /\ upds = <<>> /\ proc = [s \in Senders |-> Idle]
    /\ sent = {} /\ twice = {} /\ fx = <<>> /\ changes = 0 /\ crashes = 0

At(s, pc) == proc[s].pc = pc
Go(s, pc) == proc' = [proc EXCEPT ![s].pc = pc]
AfterSend(s) == proc' = [proc EXCEPT ![s] = [@ EXCEPT !.row = 0, !.part = 0,
                   !.pc = CASE s = "poller" -> "next" [] proc[s].seen = -1 -> "idle" [] OTHER -> "aux"]]

-----------------------------------------------------------------------------
(* The item, as the fleet view shows it. *)

ItemChanges ==
    /\ changes < MaxChanges
    /\ att' \in (Contents \cup {0}) \ {att}
    /\ changes' = changes + 1
    /\ UNCHANGED <<rows, notice, led, upds, proc, sent, twice, fx, crashes>>

-----------------------------------------------------------------------------
(* The outbox: one transaction each. *)

Abandoned(rs, k) == IF k # 0 /\ ~Complete(rs[k]) THEN [rs EXCEPT ![k].ab = TRUE] ELSE rs

\* The same active item keeps its delivery; anything else abandons what was not
\* finished and starts a new one, or none.
\* [agend-daemon/src/store/telegram.rs:38-97] SqliteStore::observe_telegram
Observed(c) ==
    IF c = 0
    THEN /\ rows' = IF notice.act THEN Abandoned(rows, notice.row) ELSE rows
         /\ notice' = [notice EXCEPT !.act = FALSE]
    ELSE IF notice.act /\ rows[notice.row].c = c THEN UNCHANGED <<rows, notice>>
    ELSE /\ Len(rows) < MaxRows
         /\ rows' = Append(Abandoned(rows, notice.row), NewRow(c, Parts))
         /\ notice' = [row |-> Len(rows) + 1, act |-> TRUE]

\* [agend-daemon/src/store/telegram.rs:134-176] SqliteStore::pending_telegram
PendingAux == {k \in DOMAIN rows : rows[k].c = 0 /\ ~rows[k].ab /\ ~rows[k].fly
                                      /\ rows[k].next < rows[k].parts}

\* [agend-daemon/src/store/telegram.rs:181-195] SqliteStore::claim_telegram_part
Claimable(k, part) ==
    rows[k].next = part /\ ~rows[k].fly /\ ~Complete(rows[k]) /\ ~rows[k].ab

\* [agend-daemon/src/store/telegram.rs:209-237] SqliteStore::confirm_telegram_part
Confirmable(k, part) == rows[k].next = part /\ rows[k].fly /\ ~rows[k].ab

\* [agend-daemon/src/store/telegram.rs:196-208] SqliteStore::mark_telegram_unknown
MarkUnknown(k) == rows' = IF rows[k].fly THEN [rows EXCEPT ![k].unk = TRUE] ELSE rows

-----------------------------------------------------------------------------
(* Sending, by the worker and by the poller. *)

\* [agend-daemon/src/notifier/delivery.rs:55-90] resume_one, send_pending: the row is read again
Load(s) ==
    /\ At(s, "load")
    /\ LET r == rows[proc[s].row]
       IN  IF r.ab \/ r.fly \/ Complete(r) THEN AfterSend(s)
           ELSE proc' = [proc EXCEPT ![s].pc = "claim", ![s].part = r.next]
    /\ UNCHANGED <<att, rows, notice, led, upds, sent, twice, fx, bounds>>

\* [agend-daemon/src/notifier/delivery.rs:91-146] send_pending_inner: up to the claim
Claim(s) ==
    /\ At(s, "claim")
    /\ LET k == proc[s].row
       IN  IF Claimable(k, proc[s].part)
           THEN rows' = [rows EXCEPT ![k].fly = TRUE] /\ Go(s, "http")
           ELSE AfterSend(s) /\ UNCHANGED rows
    /\ UNCHANGED <<att, notice, led, upds, sent, twice, fx, bounds>>

\* The message is sent or not, and its receipt is good or not.
\* [agend-daemon/src/notifier/http.rs:70-116] Api::call: no answer, or one that is checked
SendMessage(s) ==
    /\ At(s, "http")
    /\ LET m == <<proc[s].row, proc[s].part>>
       IN  \/ /\ sent' = sent \cup {m} /\ twice' = IF m \in sent THEN twice \cup {m} ELSE twice
              /\ (Go(s, "confirm") \/ Go(s, "failed"))
           \/ Go(s, "failed") /\ UNCHANGED <<sent, twice>>
    /\ UNCHANGED <<att, rows, notice, led, upds, fx, bounds>>

\* [agend-daemon/src/notifier/delivery.rs:147-186] send_pending_inner: the receipt is committed
Confirm(s) ==
    /\ At(s, "confirm")
    /\ LET k == proc[s].row
       IN  IF Confirmable(k, proc[s].part)
           THEN /\ rows' = [rows EXCEPT ![k].next = @ + 1, ![k].fly = FALSE, ![k].unk = FALSE]
                /\ AfterSend(s)
           ELSE Go(s, "failed") /\ UNCHANGED rows
    /\ UNCHANGED <<att, notice, led, upds, sent, twice, fx, bounds>>

SendFailed(s) ==
    /\ At(s, "failed")
    /\ MarkUnknown(proc[s].row) /\ AfterSend(s)
    /\ UNCHANGED <<att, notice, led, upds, sent, twice, fx, bounds>>

-----------------------------------------------------------------------------
(* The worker's loop. *)

\* [agend-daemon/src/notifier/worker.rs:240-309] collect_notices
CollectNotices ==
    /\ \/ At("worker", "idle") /\ proc' = [proc EXCEPT !["worker"] = [Idle EXCEPT !.pc = "observe", !.seen = att]]
       \/ At("worker", "collect") /\ proc' = [proc EXCEPT !["worker"].pc = "again", !["worker"].seen = att]
    /\ UNCHANGED <<att, rows, notice, led, upds, sent, twice, fx, bounds>>

\* A delivery that is not complete goes on to the second look; the second look
\* must still name it.
\* [agend-daemon/src/notifier/worker.rs:142-206] run: the loop over the rows
Observe ==
    /\ \/ At("worker", "observe") \/ At("worker", "again")
    /\ Observed(proc["worker"].seen)
    /\ LET cur == IF notice'.act THEN notice'.row ELSE 0
       IN  \/ /\ At("worker", "observe") /\ cur # 0 /\ ~Complete(rows'[cur])
              /\ proc' = [proc EXCEPT !["worker"].pc = "collect", !["worker"].row = cur]
           \/ /\ At("worker", "observe") /\ (cur # 0 => Complete(rows'[cur]))
              /\ proc' = [proc EXCEPT !["worker"].pc = "aux"]
           \/ /\ At("worker", "again")
              /\ IF cur = proc["worker"].row THEN Go("worker", "load")
                 ELSE proc' = [proc EXCEPT !["worker"].pc = "aux", !["worker"].row = 0]
    /\ UNCHANGED <<att, led, upds, sent, twice, fx, bounds>>

\* [agend-daemon/src/notifier/worker.rs:207-238] run: auxiliary deliveries, and the end of a round
Auxiliary ==
    /\ At("worker", "aux")
    /\ \/ \E k \in PendingAux :
            proc' = [proc EXCEPT !["worker"] = [@ EXCEPT !.pc = "load", !.row = k, !.seen = -1]]
       \/ PendingAux = {} /\ proc' = [proc EXCEPT !["worker"] = Idle]
    /\ UNCHANGED <<att, rows, notice, led, upds, sent, twice, fx, bounds>>

-----------------------------------------------------------------------------
(* The human, and the poller. *)

\* A button is on the last part; a reply may be to any.
\* [external] what the human does with the messages of the bot
HumanActs(k, m) ==
    /\ Len(upds) < MaxUpdates /\ m \in sent
    /\ rows[m[1]].c # 0
    /\ k = "reply" \/ m[2] = rows[m[1]].parts - 1
    /\ upds' = Append(upds, [row |-> m[1], part |-> m[2], kind |-> k])
    /\ UNCHANGED <<att, rows, notice, led, proc, sent, twice, fx, bounds>>

\* From the cursor on, in order.
\* [agend-daemon/src/notifier/poll.rs:18-39] once, with telegram_offset and validated_batch
Poll ==
    /\ At("poller", "idle") /\ Len(upds) > Len(led)
    /\ proc' = [proc EXCEPT !["poller"] = [Idle EXCEPT !.pc = "update", !.u = Len(led) + 1,
                                                       !.end = Len(upds)]]
    /\ UNCHANGED <<att, rows, notice, led, upds, sent, twice, fx, bounds>>

\* [agend-daemon/src/store/telegram_inbound.rs:20-57] SqliteStore::claim_telegram_update
ClaimUpdate ==
    /\ At("poller", "update")
    /\ led' = Append(led, [row |-> 0, out |-> "none"])
    /\ Go("poller", "admit")
    /\ UNCHANGED <<att, rows, notice, upds, sent, twice, fx, bounds>>

Upd == upds[proc["poller"].u]
Used(k) == \E i \in DOMAIN led : led[i].row = k

\* [agend-daemon/src/store/telegram_inbound.rs:94-108] SqliteStore::telegram_message
Current(k, part) == notice.act /\ notice.row = k /\ ~Used(k) /\ ~rows[k].ab /\ part < rows[k].next

\* [agend-daemon/src/notifier/inbound.rs:73-222] admit: the checks, and what a button asks for
Admits(q) == Current(q.row, q.part) /\ Complete(rows[q.row])

\* [agend-daemon/src/notifier/poll.rs:54-74] once: what an admitted update is
Admit ==
    /\ At("poller", "admit")
    /\ \/ ~Admits(Upd) /\ Go("poller", "refused")
       \/ Admits(Upd) /\ Upd.kind = "reason" /\ Go("poller", "done")
       \/ Admits(Upd) /\ Upd.kind = "read" /\ Go("poller", "dispatch")
       \/ Admits(Upd) /\ Upd.kind \in {"act", "reply"} /\ Go("poller", "consume")
    /\ UNCHANGED <<att, rows, notice, led, upds, sent, twice, fx, bounds>>

\* [agend-daemon/src/store/telegram_inbound.rs:58-75] SqliteStore::claim_telegram_action: the update
Consumed == [led EXCEPT ![proc["poller"].u].row = Upd.row]

\* [agend-daemon/src/notifier/poll.rs:75-88] once: the notice is consumed before its effect
Consume ==
    /\ At("poller", "consume")
    /\ IF ~Used(Upd.row) /\ notice.act /\ notice.row = Upd.row
       THEN led' = Consumed /\ Go("poller", "dispatch")
       ELSE UNCHANGED led /\ Go("poller", "refused")
    /\ UNCHANGED <<att, rows, notice, upds, sent, twice, fx, bounds>>

\* The first look at the item.
\* [agend-daemon/src/notifier/inbound.rs:261-281] dispatch: the current item is the one shown
Dispatch ==
    /\ At("poller", "dispatch")
    /\ Go("poller", IF att # rows[Upd.row].c THEN "refused"
                    ELSE IF Upd.kind = "read" THEN "done" ELSE "execute")
    /\ UNCHANGED <<att, rows, notice, led, upds, sent, twice, fx, bounds>>

\* [agend-core/src/telegram.rs:205-220] same_attention
Same(k) == att = rows[k].c

\* In the serialized pipeline, where the item is looked at again.  The effect
\* resolves the item, changes it, or is refused.
\* [agend-daemon/src/notifier/inbound.rs:282-320] dispatch: the request
Execute ==
    /\ At("poller", "execute")
    /\ \/ /\ Same(Upd.row)
          /\ \E c \in (Contents \cup {0}) \ {att} : att' = c
          /\ fx' = Append(fx, [u |-> proc["poller"].u, row |-> Upd.row,
                               seen |-> rows[Upd.row].c, was |-> att])
          /\ Go("poller", "done")
       \/ Go("poller", "refused") /\ UNCHANGED <<att, fx>>
    /\ UNCHANGED <<rows, notice, led, upds, sent, twice, bounds>>

\* The update has its outcome, and the notice it consumed is no longer active.
\* [agend-daemon/src/store/telegram_inbound.rs:76-93] SqliteStore::finish_telegram_update
Finished(u, outcome) ==
    /\ led' = [led EXCEPT ![u].out = outcome]
    /\ notice' = IF led[u].row # 0 /\ led[u].row = notice.row THEN [notice EXCEPT !.act = FALSE]
                 ELSE notice

\* An authorized reply is answered by a delivery of its own.
\* [agend-daemon/src/notifier/poll.rs:89-143] once: the outcome, and who hears of it
Finish ==
    /\ At("poller", "done") \/ At("poller", "refused")
    /\ LET u == proc["poller"].u
           ok == At("poller", "done")
       IN  /\ Finished(u, IF ok THEN "accepted" ELSE "refused")
           /\ Go("poller", IF Upd.kind = "reply" /\ (ok \/ led[u].row # 0) THEN "result" ELSE "next")
    /\ UNCHANGED <<att, rows, upds, sent, twice, fx, bounds>>

\* [agend-daemon/src/store/telegram.rs:98-133] SqliteStore::enqueue_telegram, by notify_with_id
EnqueueResult ==
    /\ At("poller", "result") /\ Len(rows) < MaxRows
    /\ rows' = Append(rows, NewRow(0, 1))
    /\ proc' = [proc EXCEPT !["poller"].pc = "load", !["poller"].row = Len(rows) + 1]
    /\ UNCHANGED <<att, notice, led, upds, sent, twice, fx, bounds>>

\* [agend-daemon/src/notifier/poll.rs:40-53] once: the next update of the batch
NextUpdate ==
    /\ At("poller", "next")
    /\ proc' = [proc EXCEPT !["poller"] =
                  IF @.u = @.end THEN Idle ELSE [@ EXCEPT !.pc = "update", !.u = @ + 1]]
    /\ UNCHANGED <<att, rows, notice, led, upds, sent, twice, fx, bounds>>

-----------------------------------------------------------------------------
(* The operator, and restarts. *)

\* [agend-daemon/src/store/telegram.rs:252-279] SqliteStore::abandon_unknown_telegram
Abandon(k) ==
    /\ rows[k].unk /\ ~rows[k].op
    /\ rows' = [rows EXCEPT ![k].ab = TRUE, ![k].op = TRUE]
    /\ UNCHANGED <<att, notice, led, upds, proc, sent, twice, fx, bounds>>

\* [agend-daemon/src/store/telegram.rs:240-247] SqliteStore::recover_telegram_attempts
Recovered(rs) == [k \in DOMAIN rs |-> IF rs[k].fly THEN [rs[k] EXCEPT !.unk = TRUE] ELSE rs[k]]

\* Dying and booting again; the offset is read from the ledger.
\* [agend-daemon/src/daemon.rs:286-292] run_daemon: recovery before the workers
Restart ==
    /\ crashes < MaxCrashes
    /\ crashes' = crashes + 1
    /\ proc' = [s \in Senders |-> Idle]
    /\ rows' = Recovered(rows)
    /\ UNCHANGED <<att, notice, led, upds, sent, twice, fx, changes>>

WorkerStep == CollectNotices \/ Observe \/ Auxiliary
PollerStep == Poll \/ ClaimUpdate \/ Admit \/ Consume \/ Dispatch \/ Execute \/ Finish
                 \/ EnqueueResult \/ NextUpdate
SendStep(s) == Load(s) \/ Claim(s) \/ SendMessage(s) \/ Confirm(s) \/ SendFailed(s)

Next ==
    \/ ItemChanges \/ WorkerStep \/ PollerStep
    \/ \E s \in Senders : SendStep(s)
    \/ \E k \in Kinds, m \in sent : HumanActs(k, m)
    \/ \E k \in DOMAIN rows : Abandon(k)
    \/ Restart

Spec == Init /\ [][Next]_vars

-----------------------------------------------------------------------------

\* Types, and that every stored delivery is valid.
TypeOK ==
    /\ att \in Contents \cup {0} /\ Len(rows) <= MaxRows
    /\ \A k \in DOMAIN rows : Valid(rows[k])
    /\ notice.row \in 0 .. Len(rows) /\ Len(led) <= Len(upds)
    /\ \A s \in Senders : proc[s].row \in 0 .. Len(rows)

\* No part of a notice reaches the human twice, whatever crashes, lost receipts
\* and second senders there are.
SentOnce == twice = {}

\* A part that was claimed and is not being sent any more is marked unknown, so
\* that the operator is told of it; no automatic resending hides it.
UnknownIsShown ==
    \A k \in DOMAIN rows : rows[k].fly /\ ~rows[k].unk =>
        \E s \in Senders : proc[s].row = k /\ proc[s].pc \in {"http", "confirm", "failed"}

\* A notice has at most one effect and an update of the human at most one,
\* across restarts and repeated presses.
UsedOnce ==
    \A i, j \in DOMAIN fx : i # j => fx[i].row # fx[j].row /\ fx[i].u # fx[j].u

\* An effect is applied to the item that the human saw, in full: every part of
\* the notice had reached him and the item had not changed since.
EffectWasSeen ==
    \A i \in DOMAIN fx :
        /\ fx[i].seen = fx[i].was
        /\ \A p \in 0 .. (rows[fx[i].row].parts - 1) : <<fx[i].row, p>> \in sent

\* At most one unfinished notice is current: an older one can send no more parts.
OneLiveNotice ==
    \A k \in DOMAIN rows : rows[k].c # 0 /\ k # notice.row => Complete(rows[k]) \/ rows[k].ab

=============================================================================
