------------------------------ MODULE NeedsYou ------------------------------
(***************************************************************************)
(* The pipeline actor of the daemon as the operator and the agents see it: *)
(* asks and their answers, the durable outbox the answers leave by,        *)
(* reminders with their timers, failed tasks, and the needs-you list the   *)
(* actor derives from the store after every input.  The actor handles one  *)
(* input at a time, in several awaits; the supervisor removes instances    *)
(* beside it, operators answer from screens that may be old, and the       *)
(* daemon may die between any two steps.                                   *)
(***************************************************************************)
EXTENDS Naturals, Sequences, SequencesExt, FiniteSets

CONSTANTS
    Worker,       \* the instance that holds the task
    Others,       \* the other instances
    Inbox,        \* the instances that read an inbox; a driver sends to the others
    Asks,         \* ids of asks
    Removing,     \* TRUE: the operator may remove an instance and add it back
    MaxTurns,     \* bound: entries of one thread
    MaxRem,       \* bound: reminders
    MaxCrash,     \* bound: deaths of the daemon
    MaxRemove     \* bound: removals

NeedsYouAssumption ==
    /\ Worker \notin Others /\ Inbox \subseteq {Worker} \cup Others
    /\ Removing \in BOOLEAN
    /\ MaxTurns \in Nat /\ MaxRem \in Nat /\ MaxCrash \in Nat /\ MaxRemove \in Nat

Instances == {Worker} \cup Others

VARIABLES
    up,        \* "down", "booting" or "up"
    pc,        \* what the actor is doing: [at, todo, then]
    rows,      \* the asks table: [owner, thread], thread a sequence of entries
    answers,   \* ask_turns: the answers in seq order, <<ask, turn>>
    delivered, \* the answers whose turn is marked as delivered
    msgs,      \* the messages table in seq order: [id, to, sent], and whether the agent has it
    insts,     \* the instances table
    leaving,   \* instances whose removal has passed the held-task check
    task,      \* the task's status and acknowledgement
    rem,       \* the reminders table and the clock: seq -> its state
    armed,     \* timers of this daemon, by reminder
    woken,     \* a Wake input is queued
    needs,     \* the fleet's needs-you list
    seen,      \* the item an operator has on the screen
    got,       \* ghost: the messages an agent was given, in order
    lapsed,    \* ghost: messages that expired while they were still owed
    meant,     \* ghost: <<ask, turn, thread length seen, guarded>> of each answer
    crashes, removes

vars == <<up, pc, rows, answers, delivered, msgs, insts, leaving, task, rem,
          armed, woken, needs, seen, got, lapsed, meant, crashes, removes>>

Seqs == 1..MaxRem
NoItem == <<"none", 0>>
Idle == [at |-> "idle", todo |-> <<>>, then |-> "idle"]

\* [agend-core/src/protocol/ask.rs:31-55] AskThread::accepts (also is_resolved): an open question or follow-up waits for an answer
Waits(thread) == thread # <<>> /\ Last(thread) \in {"question", "followup"}

Resolved(thread) == "resolution" \in Range(thread)

\* [agend-daemon/src/store/pipeline.rs:219-227] pending_answers: the undelivered answers in the order they were given
Pending == LET Open(a) == a \notin delivered IN SelectSeq(answers, Open)

\* [agend-daemon/src/pipeline/commands.rs:742-763] send_reminders: the reminders that are due
Due == LET IsDue(r) == rem[r] = "due" IN SelectSeq([r \in Seqs |-> r], IsDue)

\* [agend-daemon/src/pipeline/commands.rs:711-741] refresh_asks: an ask whose last entry waits for an answer
WaitingAsks == { <<k, Len(rows[k].thread)>> :
                   k \in {k \in Asks : Waits(rows[k].thread) /\ ~Resolved(rows[k].thread)} }

\* [agend-daemon/src/pipeline/attention.rs:180-329] refresh: what the store calls for
Expected == WaitingAsks
            \cup (IF task = "failed" THEN {<<"task-failed", 1>>} ELSE {})

Init ==
    /\ up = "down" /\ pc = Idle
    /\ rows = [k \in Asks |-> [owner |-> Worker, thread |-> <<>>]]
    /\ answers = <<>> /\ delivered = {} /\ msgs = <<>>
    /\ insts = Instances /\ leaving = {} /\ task = "running"
    /\ rem = [r \in Seqs |-> "unused"] /\ armed = {} /\ woken = FALSE
    /\ needs = {} /\ seen = NoItem
    /\ got = [i \in Instances |-> <<>>] /\ lapsed = {} /\ meant = {}
    /\ crashes = 0 /\ removes = 0

-----------------------------------------------------------------------------
(* Delivering a list of messages: the answers outbox and the reminders.    *)

AnswerTo(a) == [id |-> <<"ask", a[1], a[2]>>, to |-> rows[a[1]].owner, of |-> a]
ReminderTo(r) == [id |-> <<"remind", "t", r>>,
                  to |-> IF task = "running" THEN Worker ELSE "none", of |-> <<"rem", r>>]

Outbox(then) == [at |-> "deliver", then |-> then,
                 todo |-> [n \in DOMAIN Pending |-> AnswerTo(Pending[n])]]
Reminders == [at |-> "deliver", then |-> "refresh2",
              todo |-> [n \in DOMAIN Due |-> ReminderTo(Due[n])]]

Busy(at) == up # "down" /\ pc.at = at
Go(at) == pc' = [pc EXCEPT !.at = at]

Row(id) == {n \in DOMAIN msgs : msgs[n].id = id}
IsSent(id) == \E n \in Row(id) : msgs[n].sent
NewRow(m) == [id |-> m.id, to |-> m.to, sent |-> FALSE, given |-> FALSE]

\* Mutant: the message id is not looked up, every attempt makes a row of its own.
DeliverAgain ==
    /\ Busy("deliver") /\ pc.todo # <<>>
    /\ LET m == Head(pc.todo) IN
         IF m.to = "none" THEN Go("mark") /\ UNCHANGED msgs
         ELSE /\ m.to \in insts
              /\ msgs' = Append(msgs, NewRow(m))
              /\ Go("handover")
    /\ UNCHANGED <<up, rows, answers, delivered, insts, leaving, task, rem, armed,
                   woken, needs, seen, got, lapsed, meant, crashes, removes>>

\* [agend-daemon/src/pipeline/lifecycle.rs:635-671] deliver: claims the message id; a message that was sent is not sent again
Deliver ==
    /\ Busy("deliver") /\ pc.todo # <<>>
    /\ LET m == Head(pc.todo) IN
         IF m.to = "none" \/ (m.to \in insts /\ IsSent(m.id))
         THEN Go("mark") /\ UNCHANGED msgs
         ELSE /\ m.to \in insts
              /\ msgs' = IF Row(m.id) = {} THEN Append(msgs, NewRow(m)) ELSE msgs
              /\ Go("handover")
    /\ UNCHANGED <<up, rows, answers, delivered, insts, leaving, task, rem, armed,
                   woken, needs, seen, got, lapsed, meant, crashes, removes>>

\* [agend-daemon/src/pipeline/lifecycle.rs:672-691] deliver: the inbox has it, or the driver is called, which finds the claimed row and leaves the sending to its link
HandOver ==
    /\ Busy("handover")
    /\ LET to == Head(pc.todo).to IN
         IF to \in Inbox THEN Go("advance") ELSE to \in insts /\ Go("mark")
    /\ UNCHANGED <<up, rows, answers, delivered, msgs, insts, leaving, task, rem, armed,
                   woken, needs, seen, got, lapsed, meant, crashes, removes>>

\* [agend-daemon/src/pipeline/lifecycle.rs:692-702] deliver, advance_message: the receipt of the inbox is stored; a driver's was stored by its link
Advance ==
    /\ Busy("advance")
    /\ msgs' = [n \in DOMAIN msgs |->
                  IF n \in Row(Head(pc.todo).id) THEN [msgs[n] EXCEPT !.sent = TRUE] ELSE msgs[n]]
    /\ Go("mark")
    /\ UNCHANGED <<up, rows, answers, delivered, insts, leaving, task, rem, armed,
                   woken, needs, seen, got, lapsed, meant, crashes, removes>>

\* [external] the agent reads its inbox, or its driver sends the oldest row once and stores the receipt, if it comes
Given(i) ==
    /\ up # "down" /\ i \in insts
    /\ \E n \in DOMAIN msgs, receipt \in BOOLEAN :
         /\ msgs[n].to = i /\ ~msgs[n].given
         /\ \A k \in 1..(n - 1) : msgs[k].to = i => msgs[k].given
         /\ receipt => i \notin Inbox
         /\ msgs' = [msgs EXCEPT ![n].given = TRUE, ![n].sent = @ \/ receipt]
         /\ got' = [got EXCEPT ![i] = Append(@, msgs[n].id)]
    /\ UNCHANGED <<up, pc, rows, answers, delivered, insts, leaving, task, rem, armed,
                   woken, needs, seen, lapsed, meant, crashes, removes>>

\* [agend-daemon/src/store/pipeline.rs:228-256] mark_answer_sent, delete_reminder: the receipt of the outbox
Mark ==
    /\ Busy("mark")
    /\ LET of == Head(pc.todo).of IN
         IF of[1] = "rem" THEN rem' = [rem EXCEPT ![of[2]] = "gone"] /\ UNCHANGED delivered
                          ELSE delivered' = delivered \cup {of} /\ UNCHANGED rem
    /\ pc' = [pc EXCEPT !.at = "deliver", !.todo = Tail(@)]
    /\ UNCHANGED <<up, rows, answers, msgs, insts, leaving, task, armed, woken, needs,
                   seen, got, lapsed, meant, crashes, removes>>

\* [agend-daemon/src/pipeline/commands.rs:704-710] deliver_answers: the first failure ends the loop; at boot it ends the daemon
Refused ==
    /\ Busy("deliver") \/ (Busy("handover") /\ Head(pc.todo).to \notin Inbox)
    /\ pc.todo # <<>> /\ Head(pc.todo).to \notin insts \cup {"none"}
    /\ IF pc.then = "booted" THEN up' = "down" /\ pc' = Idle
                             ELSE up' = up /\ pc' = [Idle EXCEPT !.at = pc.then]
    /\ UNCHANGED <<rows, answers, delivered, msgs, insts, leaving, task, rem, armed,
                   woken, needs, seen, got, lapsed, meant, crashes, removes>>

AllSent ==
    /\ Busy("deliver") /\ pc.todo = <<>>
    /\ pc' = [Idle EXCEPT !.at = pc.then]
    /\ UNCHANGED <<up, rows, answers, delivered, msgs, insts, leaving, task, rem, armed,
                   woken, needs, seen, got, lapsed, meant, crashes, removes>>

-----------------------------------------------------------------------------
(* After every input: refresh, wake, refresh.                              *)

\* [agend-daemon/src/pipeline/attention.rs:398-445] refresh: dismisses what the store no longer calls for, raises what it does
Refreshed == Expected

\* [agend-daemon/src/pipeline.rs:288-308] start_with: refresh and wake follow every input
Refresh ==
    /\ pc.at \in {"refresh1", "refresh2"} /\ up = "up"
    /\ needs' = Refreshed
    /\ pc' = IF pc.at = "refresh1" THEN Reminders ELSE Idle
    /\ UNCHANGED <<up, rows, answers, delivered, msgs, insts, leaving, task, rem, armed,
                   woken, seen, got, lapsed, meant, crashes, removes>>

\* [agend-daemon/src/pipeline.rs:274-277] start_with: Input::Wake
Wake ==
    /\ up = "up" /\ pc.at = "idle" /\ woken
    /\ woken' = FALSE /\ pc' = [Idle EXCEPT !.at = "refresh1"]
    /\ UNCHANGED <<up, rows, answers, delivered, msgs, insts, leaving, task, rem, armed,
                   needs, seen, got, lapsed, meant, crashes, removes>>

-----------------------------------------------------------------------------
(* Inputs.                                                                 *)

Takes == up = "up" /\ pc.at = "idle"
Tail1 == pc' = [Idle EXCEPT !.at = "refresh1"]
Room(k) == Len(rows[k].thread) < MaxTurns

\* [agend-daemon/src/pipeline/commands.rs:18-30] agent: the caller must be an instance when the command begins
Ask(i, k) ==
    /\ Takes /\ i \in insts /\ rows[k].thread = <<>>
    /\ pc' = [at |-> "ask", todo |-> <<[to |-> i, of |-> <<k, 1>>]>>, then |-> "refresh1"]
    /\ UNCHANGED <<up, rows, answers, delivered, msgs, insts, leaving, task, rem, armed,
                   woken, needs, seen, got, lapsed, meant, crashes, removes>>

\* [agend-daemon/src/pipeline/commands.rs:217-242] agent, AgentCommand::Ask: the question is stored
SaveAsk ==
    /\ Busy("ask")
    /\ LET m == Head(pc.todo) IN
         rows' = [rows EXCEPT ![m.of[1]] = [owner |-> m.to, thread |-> <<"question">>]]
    /\ Tail1
    /\ UNCHANGED <<up, answers, delivered, msgs, insts, leaving, task, rem, armed,
                   woken, needs, seen, got, lapsed, meant, crashes, removes>>

\* [agend-daemon/src/pipeline/commands.rs:661-677] owned_ask: open, and asked by the caller
Owned(i, k) == i \in insts /\ rows[k].thread # <<>> /\ ~Resolved(rows[k].thread)
               /\ rows[k].owner = i

\* [agend-daemon/src/pipeline/commands.rs:243-263] agent, AgentCommand::AskFollowUp
FollowUp(i, k) ==
    /\ Takes /\ Owned(i, k) /\ Room(k) /\ Last(rows[k].thread) = "answer"
    /\ rows' = [rows EXCEPT ![k].thread = Append(@, "followup")]
    /\ Tail1
    /\ UNCHANGED <<up, answers, delivered, msgs, insts, leaving, task, rem, armed,
                   woken, needs, seen, got, lapsed, meant, crashes, removes>>

\* [agend-daemon/src/pipeline/commands.rs:264-280] agent, AgentCommand::AskResolve
Resolve(i, k) ==
    /\ Takes /\ Owned(i, k) /\ Room(k)
    /\ rows' = [rows EXCEPT ![k].thread = Append(@, "resolution")]
    /\ Tail1
    /\ UNCHANGED <<up, answers, delivered, msgs, insts, leaving, task, rem, armed,
                   woken, needs, seen, got, lapsed, meant, crashes, removes>>

\* [agend-daemon/src/pipeline.rs:154-205] start_with, Input::Guarded: the notification must be the current item
Current(item) == item \in needs

\* [agend-daemon/src/pipeline/commands.rs:678-703] answer: the answer is stored, then the outbox is delivered
Answer(guarded) ==
    LET k == seen[1] IN
    /\ Takes /\ k \in Asks /\ (guarded => Current(seen))
    /\ Waits(rows[k].thread) /\ ~Resolved(rows[k].thread) /\ Room(k)
    /\ rows' = [rows EXCEPT ![k].thread = Append(@, "answer")]
    /\ answers' = Append(answers, <<k, Len(rows[k].thread) + 1>>)
    /\ meant' = meant \cup {<<k, Len(rows[k].thread) + 1, seen[2], guarded>>}
    /\ pc' = [Idle EXCEPT !.at = "answered"]
    /\ seen' = NoItem
    /\ UNCHANGED <<up, delivered, msgs, insts, leaving, task, rem, armed, woken, needs,
                   got, lapsed, crashes, removes>>

\* [agend-daemon/src/store/pipeline.rs:205-218] save_ask has committed; deliver_answers reads the outbox
ReadOutbox ==
    /\ Busy("answered")
    /\ pc' = Outbox("refresh1")
    /\ UNCHANGED <<up, rows, answers, delivered, msgs, insts, leaving, task, rem, armed,
                   woken, needs, seen, got, lapsed, meant, crashes, removes>>

\* [agend-daemon/src/pipeline/commands.rs:199-216] agent, AgentCommand::Remind: only the holder; a row and a timer
Remind(r) ==
    /\ Takes /\ task = "running" /\ Worker \in insts
    /\ rem[r] = "unused" /\ \A q \in 1..(r - 1) : rem[q] # "unused"
    /\ rem' = [rem EXCEPT ![r] = "waiting"]
    /\ armed' = armed \cup {r}
    /\ Tail1
    /\ UNCHANGED <<up, rows, answers, delivered, msgs, insts, leaving, task, woken, needs,
                   seen, got, lapsed, meant, crashes, removes>>

\* [agend-daemon/src/pipeline/reconcile.rs:115-150] fail_restore and the cleanup it calls: the task fails, nobody holds it
TaskFails ==
    /\ Takes /\ task = "running"
    /\ task' = "failed" /\ Tail1
    /\ UNCHANGED <<up, rows, answers, delivered, msgs, insts, leaving, rem, armed, woken,
                   needs, seen, got, lapsed, meant, crashes, removes>>

\* [agend-daemon/src/pipeline/attention.rs:80-96] resolve, Acknowledge: the item must be on the list
Acknowledge ==
    /\ Takes /\ <<"task-failed", 1>> \in needs
    /\ task' = "acknowledged" /\ needs' = needs \ {<<"task-failed", 1>>}
    /\ Tail1
    /\ UNCHANGED <<up, rows, answers, delivered, msgs, insts, leaving, rem, armed, woken,
                   seen, got, lapsed, meant, crashes, removes>>

-----------------------------------------------------------------------------
(* Boot, and the world around the actor.                                   *)

\* Mutant: boot leaves the outbox to the next answer.
BootSilent ==
    /\ up = "down"
    /\ up' = "booting" /\ pc' = [Idle EXCEPT !.at = "booted"]
    /\ UNCHANGED <<rows, answers, delivered, msgs, insts, leaving, task, rem, armed,
                   woken, needs, seen, got, lapsed, meant, crashes, removes>>

\* [agend-daemon/src/pipeline/reconcile.rs:14-50] boot: the outbox is delivered before anything is assigned
Boot ==
    /\ up = "down"
    /\ up' = "booting" /\ pc' = Outbox("booted")
    /\ UNCHANGED <<rows, answers, delivered, msgs, insts, leaving, task, rem, armed,
                   woken, needs, seen, got, lapsed, meant, crashes, removes>>

\* [agend-daemon/src/pipeline/reconcile.rs:103-112] boot: one timer for every stored reminder
Rearmed == {r \in Seqs : rem[r] \in {"waiting", "due"}}

\* [agend-daemon/src/pipeline/reconcile.rs:51-114] boot: the rest; then the queue is served
Booted ==
    /\ Busy("booted")
    /\ up' = "up" /\ pc' = Idle
    /\ armed' = Rearmed /\ needs' = Refreshed
    /\ UNCHANGED <<rows, answers, delivered, msgs, insts, leaving, task, rem, woken, seen,
                   got, lapsed, meant, crashes, removes>>

\* [external] the daemon dies between two steps
Crash ==
    /\ up # "down" /\ crashes < MaxCrash
    /\ up' = "down" /\ pc' = Idle /\ crashes' = crashes + 1
    /\ needs' = {} /\ armed' = {} /\ woken' = FALSE /\ leaving' = {}
    /\ UNCHANGED <<rows, answers, delivered, msgs, insts, task, rem, seen, got, lapsed, meant, removes>>

\* [external] the clock passes the time of a reminder, whether the daemon is up or not
Tick(r) ==
    /\ rem[r] = "waiting"
    /\ rem' = [rem EXCEPT ![r] = "due"]
    /\ UNCHANGED <<up, pc, rows, answers, delivered, msgs, insts, leaving, task, armed,
                   woken, needs, seen, got, lapsed, meant, crashes, removes>>

\* [agend-daemon/src/pipeline/commands.rs:210-214] agent, AgentCommand::Remind: the timer queues a Wake
Fire(r) ==
    /\ up = "up" /\ r \in armed /\ rem[r] \in {"due", "gone"}
    /\ armed' = armed \ {r} /\ woken' = TRUE
    /\ UNCHANGED <<up, pc, rows, answers, delivered, msgs, insts, leaving, task, rem,
                   needs, seen, got, lapsed, meant, crashes, removes>>

\* [external] an operator opens an item; the screen keeps it while the list moves on
Look(item) ==
    /\ up = "up" /\ item \in needs /\ item[1] \in Asks /\ seen # item
    /\ seen' = item
    /\ UNCHANGED <<up, pc, rows, answers, delivered, msgs, insts, leaving, task, rem,
                   armed, woken, needs, got, lapsed, meant, crashes, removes>>

\* [agend-daemon/src/store/pipeline.rs:172-175] held_task: the task an instance holds
Held(i) == i = Worker /\ task = "running"

\* [agend-daemon/src/supervisor.rs:1174-1193] remove: refused while the instance holds a task
RemoveCheck(i) ==
    /\ Removing /\ up = "up" /\ removes < MaxRemove
    /\ i \in insts \ leaving /\ ~Held(i)
    /\ leaving' = leaving \cup {i} /\ removes' = removes + 1
    /\ UNCHANGED <<up, pc, rows, answers, delivered, msgs, insts, task, rem, armed, woken,
                   needs, seen, got, lapsed, meant, crashes>>

\* [agend-daemon/src/supervisor.rs:1194-1225] remove: the holder is stopped first, then the row goes; its asks stay
RemoveRow(i) ==
    /\ up = "up" /\ i \in leaving
    /\ leaving' = leaving \ {i} /\ insts' = insts \ {i}
    /\ UNCHANGED <<up, pc, rows, answers, delivered, msgs, task, rem, armed, woken, needs,
                   seen, got, lapsed, meant, crashes, removes>>

\* [external] the operator adds an instance of that name again
AddBack(i) ==
    /\ up = "up" /\ i \in Instances \ insts
    /\ insts' = insts \cup {i}
    /\ UNCHANGED <<up, pc, rows, answers, delivered, msgs, leaving, task, rem, armed,
                   woken, needs, seen, got, lapsed, meant, crashes, removes>>

\* The ids of what is still to be handed over, or was without its receipt.
Outstanding == {<<"ask", a[1], a[2]>> : a \in {answers[n] : n \in DOMAIN answers} \ delivered}
               \cup {<<"remind", "t", r>> : r \in {q \in Seqs : rem[q] # "gone"}}

\* [agend-daemon/src/store/retention.rs:393-408] prune: messages expire by age, whatever became of them; no thirty days pass within one delivery
Expire(n) ==
    /\ pc.at = "idle" /\ up # "booting"
    /\ msgs' = RemoveAt(msgs, n)
    /\ lapsed' = lapsed \cup ({msgs[n].id} \cap Outstanding)
    /\ UNCHANGED <<up, pc, rows, answers, delivered, insts, leaving, task, rem, armed,
                   woken, needs, seen, got, meant, crashes, removes>>

Actor == Deliver \/ HandOver \/ Advance \/ Mark \/ Refused \/ AllSent \/ Refresh \/ Wake
         \/ SaveAsk \/ ReadOutbox \/ Boot \/ Booted

AgentStep == \E i \in Instances, k \in Asks : Ask(i, k) \/ FollowUp(i, k) \/ Resolve(i, k)

OperatorStep == \/ \E g \in BOOLEAN : Answer(g)
                \/ Acknowledge
                \/ \E item \in needs : Look(item)

Around == \/ TaskFails \/ Crash
          \/ \E r \in Seqs : Remind(r) \/ Tick(r) \/ Fire(r)
          \/ \E i \in Instances : RemoveCheck(i) \/ RemoveRow(i) \/ AddBack(i)
          \/ \E i \in Instances : Given(i)
          \/ \E n \in DOMAIN msgs : Expire(n)

Next == Actor \/ AgentStep \/ OperatorStep \/ Around

Spec == Init /\ [][Next]_vars

-----------------------------------------------------------------------------
(* Properties.                                                             *)

\* The type of every variable.
TypeOK ==
    /\ up \in {"down", "booting", "up"}
    /\ pc.at \in {"idle", "ask", "answered", "deliver", "handover", "advance", "mark", "refresh1",
                  "refresh2", "booted"}
    /\ \A k \in Asks : /\ rows[k].owner \in Instances
                       /\ rows[k].thread \in Seq({"question", "answer", "followup", "resolution"})
    /\ delivered \subseteq Range(answers)
    /\ insts \subseteq Instances /\ leaving \subseteq Instances
    /\ task \in {"running", "failed", "acknowledged"}
    /\ rem \in [Seqs -> {"unused", "waiting", "due", "gone"}]
    /\ armed \subseteq Seqs /\ woken \in BOOLEAN

\* Whatever dies when - between the row, the driver's call, its sending, the receipt and the mark
\* in the outbox - an answer or a reminder is given to its agent at most once, and the answers of
\* one ask in the order they were given.  Except, as the code does not keep it: a message is
\* known by its row (lifecycle.rs:658), and a row that expires while it is still owed, because
\* the daemon died before the mark and was down for thirty days, is made and given again.
HandedOnce ==
    \A i \in Instances : \A m, n \in DOMAIN got[i] :
        (m < n /\ {got[i][m], got[i][n]} \cap lapsed = {}) =>
            /\ got[i][m] # got[i][n]
            /\ (got[i][m][1] = "ask" /\ got[i][n][1] = "ask" /\ got[i][m][2] = got[i][n][2])
                   => got[i][m][3] < got[i][n][3]

\* An answer sent from a notification answers the question the operator read
\* there: never a later question of the same thread.
AnswerFits == \A m \in meant : m[4] => m[3] + 1 = m[2]

\* Between two inputs the needs-you list is exactly what the store calls for:
\* nothing answered, resolved or acknowledged stays on it, nothing that waits
\* for the operator is missing, also right after a boot and after an input
\* that failed half way.
ListIsTrue == (up = "up" /\ pc.at = "idle") => needs = Expected

=============================================================================
