------------------------------ MODULE CodexLink ------------------------------
(***************************************************************************)
(* Messages to one codex thread.  A worker owns a connection to the        *)
(* app-server: it reconciles the stored rows with the thread's history and *)
(* queue, then sends the rows that are still queued.  Any RPC may be lost, *)
(* or take effect and lose its answer; the daemon may die between a write  *)
(* to SQLite and the RPC it announces.                                     *)
(***************************************************************************)
EXTENDS CodexServer

CONSTANTS Level,        \* the busy level of each message
          Workers,      \* connections that may exist at once
          MaxBreaks,    \* bound: connections lost and daemon crashes
          MaxRefusals,  \* bound: RPCs answered with an error
          MaxTurns      \* bound: turns the human starts or interrupts in the TUI

CodexAssumption ==
    /\ Messages \subseteq Nat \ {0}
    /\ Level \in [Messages -> {"Queue", "Steer", "Interrupt"}]
    /\ {MaxBreaks, MaxRefusals, MaxTurns} \subseteq Nat

VARIABLES
    rows,     \* the messages table: state and whether a send was begun
    pc,       \* where each worker stands
    first,    \* the reconcile is the one of a new connection
    at,       \* the message each worker is sending
    todo,     \* the rows the worker's flush has still to look at
    tried,    \* those of them that were attempted when the flush read them
    waiting,  \* the flush has met a row that waits for idle
    busy,     \* busy as each worker sees it
    recheck,  \* a row waits for the thread to be idle
    drain,    \* a turn ended since the queue was last looked at
    blind,    \* ghost: rows sent again because the queue could not be listed
    paired,   \* ghost: rows that were queued while two workers were connected
    breaks, refusals, turns

flush == <<at, todo, tried, waiting>>
link == <<pc, first, busy, recheck, drain>>
ghost == <<blind, paired>>
bounds == <<breaks, refusals, turns>>
vars == <<rows, link, flush, ghost, server, bounds>>

NoRow == [state |-> "none", attempted |-> FALSE]

Init ==
    /\ ServerInit
    /\ rows = [m \in Messages |-> NoRow] /\ blind = {} /\ paired = {}
    /\ pc = [w \in Workers |-> "off"] /\ at = [w \in Workers |-> 0]
    /\ todo = [w \in Workers |-> {}] /\ tried = [w \in Workers |-> {}]
    /\ first = [w \in Workers |-> FALSE] /\ waiting = [w \in Workers |-> FALSE]
    /\ busy = [w \in Workers |-> FALSE] /\ recheck = [w \in Workers |-> FALSE]
    /\ drain = [w \in Workers |-> FALSE]
    /\ breaks = 0 /\ refusals = 0 /\ turns = 0

Queued == {m \in Messages : rows[m].state = "queued"}
Beside(w) == \E v \in Workers \ {w} : pc[v] # "off"
Least(S) == CHOOSE m \in S : \A k \in S : m <= k

-----------------------------------------------------------------------------
(* Notifications of the app-server. *)

\* User messages of the turn complete; a worker that is connected confirms them.
\* [agend-daemon/src/driver/codex/link.rs:701-747] confirm_live: item/completed
ConfirmLive ==
    rows' = [m \in Messages |->
               IF /\ m \in history' \ history /\ rows[m].state \in {"queued", "sent"}
                  /\ \E w \in Workers : pc[w] # "off"
               THEN [rows[m] EXCEPT !.state = "confirmed"] ELSE rows[m]]

Shown ==
    /\ ShowMessage /\ ConfirmLive
    /\ UNCHANGED <<link, flush, ghost, bounds>>

\* turn/completed: the queue is to be looked at once the thread is idle.
Ended == drain' = [w \in Workers |-> drain[w] \/ pc[w] # "off"]

TurnEnds ==
    /\ CompleteTurn /\ Ended
    /\ UNCHANGED <<rows, pc, first, busy, recheck, flush, ghost, bounds>>

\* The human types or compacts while nothing runs, or stops the running turn.
HumanTurn ==
    /\ turns < MaxTurns /\ turns' = turns + 1
    /\ \/ ~running /\ (StartTurn(Human) \/ Compact) /\ UNCHANGED drain
       \/ InterruptTurn /\ Ended
    /\ ConfirmLive
    /\ UNCHANGED <<pc, first, busy, recheck, flush, ghost, breaks, refusals>>

\* [agend-daemon/src/driver/codex/link.rs:661-700] notification: busy follows the thread's status
Notice(w) ==
    /\ pc[w] = "idle" /\ busy[w] # running
    /\ busy' = [busy EXCEPT ![w] = running]
    /\ UNCHANGED <<rows, pc, first, recheck, drain, flush, ghost, server, bounds>>

-----------------------------------------------------------------------------
(* The rows. *)

\* A message is claimed once; a second claim of it finds the row.
\* [agend-daemon/src/driver/codex/driver.rs:554-616] deliver: claim, then ask the link to flush
Deliver(m) ==
    /\ rows[m].state = "none" /\ \A k \in Messages : k < m => rows[k].state # "none"
    /\ rows' = [rows EXCEPT ![m] = [state |-> "queued", attempted |-> FALSE]]
    /\ paired' = paired \cup IF \E w \in Workers : pc[w] # "off" /\ Beside(w) THEN {m} ELSE {}
    /\ UNCHANGED <<link, flush, blind, server, bounds>>

\* [agend-daemon/src/driver/codex/link.rs:234-259] confirm: queued or sent rows become confirmed
Confirm(r, ms) ==
    [m \in Messages |-> IF m \in ms /\ r[m].state \in {"queued", "sent"}
                        THEN [r[m] EXCEPT !.state = "confirmed"] ELSE r[m]]

\* Mutant: an attempted row is taken as not sent.
AttemptUnmarked(r, m) == r

\* [agend-daemon/src/store/messages.rs:281-309] begin_codex_attempt: the row is still queued
Attempt(r, m) == [r EXCEPT ![m].attempted = TRUE]

\* [agend-daemon/src/store/messages.rs:244-279] advance: only where the state allows it
Advance(m, s) ==
    [rows EXCEPT ![m].state = IF @ = "queued" \/ (@ = "sent" /\ s = "confirmed") THEN s ELSE @]

-----------------------------------------------------------------------------
(* The worker: connect, reconcile, drain, flush. *)

Goto(w, p) == pc' = [pc EXCEPT ![w] = p]

\* The handshake: initialize, and the thread started or resumed.  What runs on
\* the thread is known from then on, what it holds is not.
\* [agend-daemon/src/driver/codex/link.rs:294-394] open, initialize, start_thread, resume
Resumed(w) ==
    /\ first' = [first EXCEPT ![w] = TRUE]
    /\ busy' = [busy EXCEPT ![w] = running]

\* A connection: the handshake, then catch_up.  A cancelled switch makes one
\* beside a worker that is still catching up and so is no link to be closed yet
\* (supervisor/backend_switch.rs:140-165, finding 5).
\* [agend-daemon/src/driver/codex/driver.rs:362-537] connect
Connect(w) ==
    /\ \A v \in Workers \ {w} : pc[v] = "off" \/ first[v]
    /\ pc[w] = "off" /\ Resumed(w) /\ Goto(w, "turns")
    /\ paired' = IF Beside(w) THEN paired \cup Queued ELSE paired
    /\ UNCHANGED <<rows, recheck, drain, flush, blind, server, bounds>>

\* The items of the turns.  A thread without a user message yet refuses, which
\* turns_all takes as no turns.
\* [agend-testkit/src/fake_agent/codex.rs:1437-1478] handle: thread/turns/list
TurnsListed == history

\* [agend-daemon/src/driver/codex/history.rs:113-147] match_with: a row is found by its client id
Found == TurnsListed

\* thread/turns/list: rows of the history are confirmed, a turn in progress is busy.
\* [agend-daemon/src/driver/codex/link.rs:773-837] turns_all, reconcile: the history
ReconcileTurns(w) ==
    /\ pc[w] = "turns"
    /\ rows' = Confirm(rows, Found)
    /\ busy' = [busy EXCEPT ![w] = running]
    /\ Goto(w, IF {m \in Messages : rows'[m].state = "queued"} = {} THEN "drain" ELSE "queue")
    /\ UNCHANGED <<first, recheck, drain, flush, ghost, server, bounds>>

\* [agend-testkit/src/fake_agent/codex.rs:1400-1407] handle: thread/queue/list
Listed == InQueue

\* thread/queue/list: queued rows that codex has queued are sent.  When it is
\* refused the rows are sent as they are.
\* [agend-daemon/src/driver/codex/link.rs:838-874] reconcile: the queue
ReconcileQueue(w) ==
    /\ pc[w] = "queue"
    /\ \/ /\ rows' = [m \in Messages |-> IF m \in Listed THEN Advance(m, "sent")[m] ELSE rows[m]]
          /\ UNCHANGED <<blind, refusals>>
       \/ /\ refusals < MaxRefusals /\ refusals' = refusals + 1
          /\ blind' = blind \cup {m \in Queued : m \in InQueue} /\ UNCHANGED rows
    /\ busy' = [busy EXCEPT ![w] = running]
    /\ Goto(w, "drain")
    /\ UNCHANGED <<first, recheck, drain, flush, paired, server, breaks, turns>>

\* After the first reconcile, and whenever a turn has ended, an idle thread
\* that has a queue is started.
\* [agend-daemon/src/driver/codex/link.rs:432-479] drain_queue
Drained(w) ==
    IF ~busy[w] /\ ~running /\ tqueue # <<>>
    THEN StartQueue /\ busy' = [busy EXCEPT ![w] = TRUE]
    ELSE UNCHANGED server /\ busy' = [busy EXCEPT ![w] = @ \/ running]

\* The rows of a flush, with what was attempted as it read them.
\* [agend-daemon/src/driver/codex/link.rs:876-907] flush: queued, waiting
Rows(w) ==
    /\ Goto(w, "flush") /\ todo' = [todo EXCEPT ![w] = Queued]
    /\ tried' = [tried EXCEPT ![w] = {m \in Queued : rows[m].attempted}]
    /\ waiting' = [waiting EXCEPT ![w] = FALSE] /\ UNCHANGED at

\* [agend-daemon/src/driver/codex/link.rs:424-431] catch_up: reconcile, drain, then flush
AfterReconcile(w) ==
    /\ pc[w] = "drain"
    /\ first' = [first EXCEPT ![w] = FALSE]
    /\ IF first[w]
       THEN /\ Drained(w)
            /\ IF \E m \in Queued : rows[m].attempted
               THEN Goto(w, "turns") /\ UNCHANGED flush
               ELSE Rows(w)
       ELSE Rows(w) /\ UNCHANGED <<server, busy>>
    /\ UNCHANGED <<rows, recheck, drain, ghost, bounds>>

\* The link hears of new rows, or finds the thread idle: a flush.  It
\* reconciles first when a row was attempted before.
\* [agend-daemon/src/driver/codex/link.rs:493-577] pump: a flush that is asked for, and the recheck of an idle thread
BeginFlush(w) ==
    /\ pc[w] = "idle" /\ Queued # {} /\ ~(recheck[w] /\ busy[w])
    /\ recheck' = [recheck EXCEPT ![w] = FALSE]
    /\ IF \E m \in Queued : rows[m].attempted THEN Goto(w, "turns") /\ UNCHANGED flush ELSE Rows(w)
    /\ UNCHANGED <<rows, first, busy, drain, ghost, server, bounds>>

\* [agend-daemon/src/driver/codex/link.rs:560-577] pump: drain and recheck when the thread is idle
Drain(w) ==
    /\ pc[w] = "idle" /\ drain[w] /\ ~busy[w]
    /\ drain' = [drain EXCEPT ![w] = FALSE] /\ Drained(w)
    /\ UNCHANGED <<rows, pc, first, recheck, flush, ghost, bounds>>

\* A row whose reply was lost waits while a turn runs.
\* [agend-daemon/src/driver/codex/link.rs:908-923] flush: an attempted row of a busy thread
Waits(w, m) == m \in tried[w] /\ busy[w]

\* The Queue rows behind a row that waits keep their order.
\* [agend-daemon/src/driver/codex/link.rs:888-911] flush: waiting
Behind(w, m) == waiting[w] /\ Level[m] = "Queue"

\* [agend-daemon/src/driver/codex/link.rs:908-932] flush: one row, reserved before it is sent
FlushRow(w) ==
    /\ pc[w] = "flush" /\ todo[w] # {}
    /\ LET m == Least(todo[w])
       IN /\ todo' = [todo EXCEPT ![w] = @ \ {m}]
          /\ \/ /\ ~Behind(w, m) /\ Waits(w, m)
                /\ recheck' = [recheck EXCEPT ![w] = TRUE] /\ waiting' = [waiting EXCEPT ![w] = TRUE]
                /\ UNCHANGED <<rows, pc, at>>
             \/ /\ Behind(w, m) \/ (~Waits(w, m) /\ rows[m].state # "queued")
                /\ UNCHANGED <<rows, pc, at, recheck, waiting>>
             \/ /\ ~Behind(w, m) /\ ~Waits(w, m) /\ rows[m].state = "queued"
                /\ rows' = Attempt(rows, m)
                /\ at' = [at EXCEPT ![w] = m] /\ Goto(w, "send") /\ UNCHANGED <<recheck, waiting>>
    /\ UNCHANGED <<first, tried, busy, drain, ghost, server, bounds>>

\* The worker is a link from then on; a link that is in its place is closed.
FlushDone(w) ==
    /\ pc[w] = "flush" /\ todo[w] = {}
    /\ pc' = [v \in Workers |-> IF v = w THEN "idle" ELSE IF pc[v] = "idle" THEN "off" ELSE pc[v]]
    /\ UNCHANGED <<rows, first, busy, recheck, drain, flush, ghost, server, bounds>>

-----------------------------------------------------------------------------
(* Sending one row.  An RPC takes effect and is answered; takes effect and   *)
(* the connection ends; or never reaches codex.                              *)

\* The connection is gone: the rows stay queued, another is tried.
\* [agend-daemon/src/driver/codex/link.rs:581-624] reconnect: what was under way is forgotten, the rows are not
Off(w) ==
    /\ Goto(w, "off") /\ recheck' = [recheck EXCEPT ![w] = FALSE]
    /\ drain' = [drain EXCEPT ![w] = FALSE] /\ todo' = [todo EXCEPT ![w] = {}]

Broken == breaks < MaxBreaks /\ breaks' = breaks + 1 /\ UNCHANGED <<refusals, turns>>
Refused == refusals < MaxRefusals /\ refusals' = refusals + 1 /\ UNCHANGED <<breaks, turns>>

\* Busy with the turn's id not known yet, steer and interrupt join the turn.
\* [agend-daemon/src/driver/codex/send.rs:71-90] send: the method the level picks
Methods(w) ==
    IF ~busy[w] THEN {"start"} ELSE
    CASE Level[at[w]] = "Queue" -> {"add"}
      [] Level[at[w]] = "Steer" -> {"steer", "start"}
      [] OTHER -> {"interrupt", "start"}

\* [agend-daemon/src/driver/codex/link.rs:933-966] flush: sent, or failed on a refusal
Settled(w, s) == rows' = Advance(at[w], s) /\ Goto(w, "flush") /\ UNCHANGED <<todo, recheck, drain>>

\* What becomes of a call of RPC that takes effect by Effect.
\* [agend-daemon/src/driver/codex/link.rs:625-650] call_within: the reply, or the connection ends
Called(w, Effect) ==
    \/ Effect /\ Settled(w, "sent") /\ UNCHANGED bounds /\ busy' = [busy EXCEPT ![w] = running']
    \/ Effect /\ Broken /\ Off(w) /\ UNCHANGED <<rows, busy>>
    \/ Broken /\ Off(w) /\ UNCHANGED <<rows, busy, server>>
    \/ Refused /\ Settled(w, "failed") /\ UNCHANGED <<busy, server>>

\* [agend-daemon/src/driver/codex/send.rs:52-69] turn_start
TurnStart(w) ==
    /\ pc[w] = "start" \/ (pc[w] = "send" /\ "start" \in Methods(w))
    /\ Called(w, StartTurn(at[w]))
    /\ UNCHANGED <<at, tried, waiting, first, ghost>>

\* thread/queue/add.  The server starts a message that finds it idle, so the
\* thread/queue/start that may follow finds an empty queue or a running turn.
\* [agend-daemon/src/driver/codex/send.rs:91-112] send: Queue
QueueAdd(w) ==
    /\ pc[w] = "send" /\ "add" \in Methods(w)
    /\ Called(w, AddToQueue(at[w]))
    /\ UNCHANGED <<at, tried, waiting, first, ghost>>

\* turn/steer joins the turn it names; if that has ended the message starts one.
\* [agend-daemon/src/driver/codex/send.rs:113-132] send: Steer
Steer(w) ==
    /\ pc[w] = "send" /\ "steer" \in Methods(w)
    /\ \/ Called(w, SteerTurn(at[w]))
       \/ /\ Goto(w, "start") /\ busy' = [busy EXCEPT ![w] = running]
          /\ UNCHANGED <<rows, todo, recheck, drain, server, bounds>>
    /\ UNCHANGED <<at, tried, waiting, first, ghost>>

\* turn/interrupt, a wait of at most five seconds, then turn/start.
\* [agend-daemon/src/driver/codex/send.rs:133-147] send: Interrupt
Interrupt(w) ==
    /\ pc[w] = "send" /\ "interrupt" \in Methods(w)
    /\ \/ InterruptTurn /\ Ended /\ Goto(w, "start") /\ UNCHANGED <<todo, recheck, bounds>>
       \/ UNCHANGED <<server, drain, bounds>> /\ Goto(w, "start") /\ UNCHANGED <<todo, recheck>>
       \/ (InterruptTurn \/ UNCHANGED server) /\ Broken /\ Off(w)
    /\ busy' = [busy EXCEPT ![w] = running'] /\ ConfirmLive
    /\ UNCHANGED <<at, tried, waiting, first, ghost>>

\* The connection ends between two RPCs, the link is closed, or the daemon dies.
\* [agend-daemon/src/driver/codex/link.rs:196-227] stop
Break(w) ==
    /\ pc[w] # "off" /\ Broken /\ Off(w)
    /\ UNCHANGED <<rows, at, tried, waiting, first, busy, ghost, server>>

\* One thread per link, which connects again for as long as it is wanted.
\* [agend-daemon/src/driver/codex/link.rs:460-492] run
Work(w) ==
    \/ Connect(w) \/ ReconcileTurns(w) \/ ReconcileQueue(w) \/ AfterReconcile(w)
    \/ BeginFlush(w) \/ Drain(w) \/ FlushRow(w) \/ FlushDone(w)
    \/ TurnStart(w) \/ QueueAdd(w) \/ Steer(w) \/ Interrupt(w) \/ Notice(w)

Next ==
    \/ \E m \in Messages : Deliver(m)
    \/ \E w \in Workers : Work(w) \/ Break(w)
    \/ Shown \/ TurnEnds \/ HumanTurn

Spec == Init /\ [][Next]_vars

-----------------------------------------------------------------------------
\* The types of the variables.
TypeOK ==
    /\ rows \in [Messages -> [state : {"none", "queued", "sent", "confirmed", "failed"},
                              attempted : BOOLEAN]]
    /\ pc \in [Workers -> {"off", "turns", "queue", "drain", "idle", "flush", "send", "start"}]
    /\ at \in [Workers -> Messages \cup {0}] /\ todo \in [Workers -> SUBSET Messages]
    /\ tqueue \in Seq(Messages) /\ inputs \in Seq(Messages \cup {Human})
    /\ running \/ inputs = <<>>

\* A message reaches codex at most once, whatever replies and connections are
\* lost, unless an interrupt or a compaction ended its turn before its user
\* message showed, codex would not list its queue, or two workers had it
\* (finding 5) (begin_codex_attempt, reconcile).
AtMostOnce == \A m \in Messages : copies[m] <= 1 \/ m \in dropped \cup blind \cup paired

\* What the table says happened: a confirmed message is in the thread history,
\* a sent one was accepted, a failed one never was; a failed one that one worker
\* sent and another was refused may have been.
StatesAreTrue == \A m \in Messages :
    /\ rows[m].state = "confirmed" => m \in history
    /\ rows[m].state = "sent" => copies[m] > 0
    /\ rows[m].state = "failed" /\ m \notin dropped \cup blind \cup paired => copies[m] = 0

\* Queue messages reach codex in the order they were claimed, also when the
\* reply to an earlier one was lost (flush: waiting).
QueueInOrder == \A k, m \in Messages :
    k < m /\ Level[k] = "Queue" /\ Level[m] = "Queue" /\ copies[m] > 0 =>
        copies[k] > 0 \/ rows[k].state = "failed"

=============================================================================
