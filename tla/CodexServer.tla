----------------------------- MODULE CodexServer -----------------------------
(***************************************************************************)
(* The codex app-server as the test kit's fake server defines it: one      *)
(* thread with at most one running turn, the turn's inputs (which show as  *)
(* user messages one after the other, some time after they were accepted), *)
(* the history and the queue of messages for later turns.  A compaction of *)
(* the thread is a turn that answers none of its inputs.                   *)
(***************************************************************************)
EXTENDS Naturals, Sequences, FiniteSets

CONSTANTS Messages      \* ids of agend's messages, in the order they are claimed

Human == 0              \* what the human types in the TUI

VARIABLES
    running,  \* the thread has a running turn
    inputs,   \* the inputs of the running turn that have not shown
    fresh,    \* the first input of the turn has not shown
    compact,  \* the running turn is a compaction
    history,  \* messages shown in the thread history
    tqueue,   \* the thread's queue
    copies,   \* ghost: how often codex accepted each message
    dropped   \* ghost: messages whose turn ended before they showed

server == <<running, inputs, fresh, compact, history, tqueue, copies, dropped>>

ServerInit ==
    /\ running = FALSE /\ inputs = <<>> /\ fresh = FALSE /\ compact = FALSE /\ history = {} /\ tqueue = <<>>
    /\ copies = [m \in Messages |-> 0] /\ dropped = {}

InQueue == {tqueue[k] : k \in DOMAIN tqueue}
Counted(m) == copies' = [k \in Messages |-> IF k = m THEN copies[k] + 1 ELSE copies[k]]

\* [agend-testkit/src/fake_agent/codex.rs:524-583] start_turn, begin_turn
BeginTurn(m) == running' = TRUE /\ inputs' = <<m>> /\ fresh' = TRUE /\ compact' = FALSE

\* turn/start joins the running turn, or begins one.
\* [agend-testkit/src/fake_agent/codex.rs:1295-1314] handle: turn/start
StartTurn(m) ==
    /\ IF running
       THEN inputs' = Append(inputs, m) /\ UNCHANGED <<running, fresh, compact>>
       ELSE BeginTurn(m)
    /\ Counted(m)
    /\ UNCHANGED <<history, tqueue, dropped>>

\* turn/steer: the turn it names is the running one.
\* [agend-testkit/src/fake_agent/codex.rs:1315-1334] handle: turn/steer
SteerTurn(m) == running /\ StartTurn(m)

\* [agend-testkit/src/fake_agent/codex.rs:1371-1399] handle: thread/queue/add
AddToQueue(m) ==
    IF running
    THEN tqueue' = Append(tqueue, m) /\ Counted(m) /\ UNCHANGED <<running, inputs, fresh, compact, history, dropped>>
    ELSE StartTurn(m)

\* [agend-testkit/src/fake_agent/codex.rs:1408-1436] handle: thread/queue/start
StartQueue ==
    /\ ~running /\ tqueue # <<>>
    /\ BeginTurn(Head(tqueue)) /\ tqueue' = Tail(tqueue)
    /\ UNCHANGED <<history, copies, dropped>>

\* [agend-testkit/src/fake_agent/codex.rs:609-637] show_user_message: the next input shows
ShowMessage ==
    /\ ~compact /\ inputs # <<>>
    /\ inputs' = Tail(inputs) /\ history' = history \cup {Head(inputs)} /\ fresh' = FALSE
    /\ UNCHANGED <<running, compact, tqueue, copies, dropped>>

\* Every input is answered: the turn is completed and the next queued message
\* begins one.  A compaction ends whatever joined it: that is lost (finding 12).
\* [agend-testkit/src/fake_agent/codex.rs:865-923] finish_turn: completed
CompleteTurn ==
    /\ running /\ (compact \/ inputs = <<>>)
    /\ IF tqueue = <<>>
       THEN running' = FALSE /\ inputs' = <<>> /\ compact' = FALSE /\ UNCHANGED <<fresh, tqueue>>
       ELSE BeginTurn(Head(tqueue)) /\ tqueue' = Tail(tqueue)
    /\ dropped' = dropped \cup {inputs[k] : k \in DOMAIN inputs}
    /\ UNCHANGED <<history, copies>>

\* Somebody compacts the idle thread: a turn of its own.
\* [agend-testkit/src/fake_agent/codex.rs:586-592] start_compaction
Compact ==
    /\ ~running /\ running' = TRUE /\ compact' = TRUE
    /\ UNCHANGED <<inputs, fresh, history, tqueue, copies, dropped>>

\* turn/interrupt shows the first message of the turn; what joined it later is
\* lost, and the queue stays put.
\* [agend-testkit/src/fake_agent/codex.rs:1335-1370] handle: turn/interrupt
InterruptTurn ==
    /\ running /\ running' = FALSE /\ inputs' = <<>> /\ fresh' = FALSE /\ compact' = FALSE
    /\ LET lost == IF fresh THEN Tail(inputs) ELSE inputs
       IN /\ history' = IF fresh THEN history \cup {Head(inputs)} ELSE history
          /\ dropped' = dropped \cup {lost[k] : k \in DOMAIN lost}
    /\ UNCHANGED <<tqueue, copies>>
=============================================================================
