------------------------------- MODULE FakeCodex -------------------------------
(***************************************************************************)
(* The test kit's codex app-server (agend-testkit: fake_agent/codex.rs),   *)
(* which every test of the Codex link runs against: one thread, the turn   *)
(* that runs on it, its queue, the connections and what each is told, the  *)
(* approval a prompt may ask for, and the state that is saved for the next *)
(* process.  A handler of the server is a function from State to State, as *)
(* in the code, and runs under its one lock.                               *)
(***************************************************************************)
EXTENDS Integers, Sequences, FiniteSets

LOCAL INSTANCE SequencesExt

CONSTANTS
    Conns,        \* connections
    Messages,     \* ids of agend's messages
    Asking,       \* those whose prompt has a `run:` line
    Compacting,   \* somebody compacts the thread
    MaxTurns,     \* turns
    MaxReq,       \* requests
    MaxKill       \* times the process dies

FakeAssumption ==
    /\ Messages \subseteq Nat \ {0} /\ Asking \subseteq Messages
    /\ MaxTurns \in Nat /\ MaxReq \in Nat /\ MaxKill \in Nat /\ Compacting \in BOOLEAN

VARIABLES
    st,           \* the server's state
    disk,         \* the saved thread
    client,       \* connection -> what its peer makes of what it received
    reqs, kills

vars == <<st, disk, client, reqs, kills>>

Human == 0
Nobody == ""
None == [id |-> 0, inputs |-> <<>>, done |-> 0, asking |-> FALSE, due |-> FALSE, compact |-> FALSE,
         streaming |-> FALSE, owner |-> Nobody, items |-> {}]
Quiet == [turn |-> 0, next |-> <<>>, owner |-> Nobody]
Unsaved == [known |-> FALSE, turns |-> {}, history |-> {}, materialized |-> FALSE, ids |-> 0]

Fresh == [known |-> FALSE, turn |-> None, queue |-> <<>>, turns |-> {}, history |-> {},
          materialized |-> FALSE, warm |-> FALSE, subs |-> {}, pending |-> {}, ids |-> 0,
          out |-> [c \in Conns |-> <<>>], tell |-> Quiet,
          copies |-> [m \in Messages |-> 0], dropped |-> {}, swallowed |-> {}, lag |-> FALSE]

Stranger == [up |-> FALSE, open |-> {}, over |-> {}, completed |-> {}, late |-> FALSE]

Init ==
    /\ st = Fresh /\ disk = Unsaved
    /\ client = [c \in Conns |-> Stranger]
    /\ reqs = 0 /\ kills = 0

--------------------------------------------------------------------------------
(* What a peer makes of a message. *)

\* [agend-testkit/src/fake_agent/codex.rs:1566-1643] Probe: messages are taken in their order.
Understands(k, n) ==
    CASE n.what = "started" -> [k EXCEPT !.open = @ \cup {n.turn}]
      [] n.what = "completed" -> [k EXCEPT !.open = @ \ {n.turn}, !.completed = @ \cup {n.turn}]
      [] n.what = "interrupted" -> [k EXCEPT !.over = @ \cup {n.turn}]
      [] n.what = "user" -> [k EXCEPT !.late = @ \/ n.turn \in k.over]
      [] OTHER -> k

Reads(k, msgs) == FoldLeft(Understands, k, msgs)

--------------------------------------------------------------------------------
(* The functions of State. *)

Note(what, turn) == [what |-> what, turn |-> turn]

\* [agend-testkit/src/fake_agent/codex.rs:372-417] notification, notify, status, item_event: to every subscribed connection.
Notify(s, n) == [s EXCEPT !.out = [c \in Conns |-> IF c \in s.subs THEN Append(@[c], n) ELSE @[c]]]

\* [agend-testkit/src/fake_agent/codex.rs:608-637] show_user_message, user_item: once per turn.
ShowUserMessage(s) ==
    IF s.turn.id = 0 \/ ~s.turn.due THEN s
    ELSE [Notify(s, Note("user", s.turn.id)) EXCEPT
             !.turn.due = FALSE, !.turn.items = @ \cup {s.turn.inputs[1]}]

\* [agend-testkit/src/fake_agent/codex.rs:524-584] start_turn, begin_turn: the first turn of a
\* process is slow to show its message.
BeginTurn(s, m, owner, compact) ==
    LET begun == [s EXCEPT !.ids = @ + 1, !.warm = TRUE,
                           !.turn = [None EXCEPT !.id = s.ids + 1, !.inputs = IF compact THEN <<>> ELSE <<m>>,
                                                 !.owner = owner, !.compact = compact,
                                                 !.due = ~compact]]
        told == Notify(begun, Note("started", s.ids + 1))
    IN  IF s.warm /\ ~compact THEN [ShowUserMessage(told) EXCEPT !.lag = TRUE] ELSE told

\* [agend-testkit/src/fake_agent/codex.rs:353-370] save: only a thread with a turn or history.
Save(s) == IF s.turns # {} \/ s.materialized
             THEN [known |-> TRUE, turns |-> s.turns, history |-> s.history,
                   materialized |-> s.materialized, ids |-> s.ids]
             ELSE [Unsaved EXCEPT !.ids = s.ids]

Shown(turn) ==
    IF turn.id = 0 \/ turn.compact THEN 0 ELSE IF turn.done = 0 /\ ~turn.due THEN 1 ELSE turn.done

\* Mutant: an interrupt begins the next queued message too.
FinishTurnNext(s, how) ==
    LET next == IF s.queue # <<>> THEN <<Head(s.queue)>> ELSE <<>>
        lost == SubSeq(s.turn.inputs, Shown(s.turn) + 1, Len(s.turn.inputs))
    IN  [s EXCEPT !.turn = None, !.turns = @ \cup {s.turn.id}, !.history = @ \cup s.turn.items,
                  !.queue = IF next = <<>> THEN @ ELSE Tail(@),
                  !.tell = [turn |-> s.turn.id, next |-> next, owner |-> s.turn.owner],
                  !.dropped = @ \cup IF how = "interrupted" THEN ToSet(lost) ELSE {},
                  !.swallowed = @ \cup IF how = "interrupted" THEN {} ELSE ToSet(lost)]

\* [agend-testkit/src/fake_agent/codex.rs:865-902] finish_turn: the turn is in the history; only a
\* completed one lets the next message out of the queue.  What joined a compaction is swallowed
\* when that is completed (finding 12).
FinishTurn(s, how) ==
    LET next == IF how = "completed" /\ s.queue # <<>> THEN <<Head(s.queue)>> ELSE <<>>
        lost == SubSeq(s.turn.inputs, Shown(s.turn) + 1, Len(s.turn.inputs))
    IN  [s EXCEPT !.turn = None, !.turns = @ \cup {s.turn.id}, !.history = @ \cup s.turn.items,
                  !.queue = IF next = <<>> THEN @ ELSE Tail(@),
                  !.tell = [turn |-> s.turn.id, next |-> next, owner |-> s.turn.owner],
                  !.dropped = @ \cup IF how = "interrupted" THEN ToSet(lost) ELSE {},
                  !.swallowed = @ \cup IF how = "interrupted" THEN {} ELSE ToSet(lost)]

\* [agend-testkit/src/fake_agent/codex.rs:677-695] begin_stream
BeginStream(s) == [s EXCEPT !.turn.streaming = TRUE]

\* [agend-testkit/src/fake_agent/codex.rs:770-817] ask: the connection that began the turn is asked.
Ask(s) == [s EXCEPT !.turn.asking = TRUE, !.pending = @ \cup {[conn |-> s.turn.owner, turn |-> s.turn.id]}]

\* [agend-testkit/src/fake_agent/codex.rs:724-768] run_turn: the next input, or the end.
RunTurn(s) ==
    LET done == s.turn.done
        input == s.turn.inputs[done + 1]
        shown == IF done = 0 THEN ShowUserMessage(s)
                 ELSE [Notify(s, Note("user", s.turn.id)) EXCEPT !.turn.items = @ \cup {input}]
        next == [shown EXCEPT !.turn.done = done + 1]
    IN  IF s.turn.id = 0 \/ s.turn.asking \/ s.turn.streaming THEN s
        ELSE IF s.turn.compact \/ done = Len(s.turn.inputs) THEN FinishTurn(s, "completed")
        ELSE IF input \in Asking /\ done = 0 THEN Ask(next) ELSE BeginStream(next)

\* [agend-testkit/src/fake_agent/codex.rs:697-722] end_stream
EndStream(s) == RunTurn([s EXCEPT !.turn.streaming = FALSE])

\* [agend-testkit/src/fake_agent/codex.rs:819-863] answer
Answer(s) == IF s.turn.asking THEN RunTurn([s EXCEPT !.turn.asking = FALSE]) ELSE s

\* [agend-testkit/src/fake_agent/codex.rs:420-478] start_thread
StartThread(s, c) == [s EXCEPT !.known = TRUE, !.subs = {c}]

--------------------------------------------------------------------------------
(* The lock: one handler at a time, and the moment inside finish_turn between saving and telling. *)

Free == st.tell = Quiet /\ ~st.lag

\* [agend-testkit/src/fake_agent/codex.rs:903-905] finish_turn: a handler that ends a turn saves, and
\* keeps the lock until it has told.
Does(s) ==
    /\ st' = s
    /\ disk' = IF s.tell # Quiet THEN Save(s) ELSE disk

\* [agend-testkit/src/fake_agent/codex.rs:906-925] finish_turn: told after it is saved; then the
\* queued message's turn begins.
Tell ==
    /\ st.tell # Quiet /\ ~st.lag
    /\ LET told == [Notify(st, Note("completed", st.tell.turn)) EXCEPT !.tell = Quiet]
           begun == IF st.tell.next = <<>> THEN told
                    ELSE BeginTurn(told, st.tell.next[1], st.tell.owner, FALSE)
       IN  st' = begun
    /\ UNCHANGED <<disk, client, reqs, kills>>

\* [agend-testkit/src/fake_agent/codex.rs:943-960] tick_loop: a user message is due
TickUser ==
    /\ Free /\ st.turn.due
    /\ Does(ShowUserMessage(st))
    /\ UNCHANGED <<client, reqs, kills>>

\* [agend-testkit/src/fake_agent/codex.rs:961-973] tick_loop: a turn's time has come
TickTurn ==
    /\ Free /\ st.turn.id # 0 /\ st.turn.done = 0 /\ ~st.turn.asking
    /\ Does(RunTurn(st))
    /\ UNCHANGED <<client, reqs, kills>>

\* [agend-testkit/src/fake_agent/codex.rs:974-989] tick_loop: a stream ends
TickStream ==
    /\ Free /\ st.turn.streaming
    /\ Does(EndStream(st))
    /\ UNCHANGED <<client, reqs, kills>>

\* The step of the abstract server that a warm turn's first message takes.
CatchUp ==
    /\ st.lag
    /\ st' = [st EXCEPT !.lag = FALSE]
    /\ UNCHANGED <<disk, client, reqs, kills>>

--------------------------------------------------------------------------------
(* Connections. *)

\* [agend-testkit/src/fake_agent/codex.rs:991-1014] serve
Connect(c) ==
    /\ ~client[c].up /\ st.tell = Quiet
    /\ client' = [client EXCEPT ![c] = [Stranger EXCEPT !.up = TRUE]]
    /\ UNCHANGED <<st, disk, reqs, kills>>

\* [agend-testkit/src/fake_agent/codex.rs:1015-1021] serve: its end
Disconnect(c) ==
    /\ client[c].up /\ st.tell = Quiet
    /\ client' = [client EXCEPT ![c] = Stranger]
    /\ st' = [st EXCEPT !.subs = @ \ {c}, !.out[c] = <<>>,
                        !.turn.owner = IF @ = c THEN Nobody ELSE @,
                        !.pending = {IF p.conn = c THEN [p EXCEPT !.conn = Nobody] ELSE p : p \in @}]
    /\ UNCHANGED <<disk, reqs, kills>>

\* [agend-testkit/src/fake_agent/codex.rs:1023-1088] pump, queue: what is waiting goes out; it
\* takes no lock.
Pump(c) ==
    /\ client[c].up /\ st.out[c] # <<>>
    /\ client' = [client EXCEPT ![c] = Reads(@, st.out[c])]
    /\ st' = [st EXCEPT !.out[c] = <<>>]
    /\ UNCHANGED <<disk, reqs, kills>>

\* A request is handled: what was waiting for the connection goes out, then the reply.
\* [agend-testkit/src/fake_agent/codex.rs:1113-1146] handle: messages in order, the reply among
\* them.
Replies(c, reply) == client' = [client EXCEPT ![c] = Reads(@, st.out[c] \o reply)]

Drained(c) == [st EXCEPT !.out[c] = <<>>]

\* Every request takes the lock.
Request(c) ==
    /\ Free /\ client[c].up /\ reqs < MaxReq
    /\ reqs' = reqs + 1
    /\ UNCHANGED kills

\* The turns that are still to begin fit the bound.
MayBegin == st.ids + Len(st.queue) < MaxTurns

\* What a reply tells of a turn counts for a connection that follows the thread.
OfTurn(c, turn) == IF c \in st.subs THEN <<Note("started", turn)>> ELSE <<>>

Accepted(s, m) == IF m = Human THEN s ELSE [s EXCEPT !.copies[m] = @ + 1]

\* [agend-testkit/src/fake_agent/codex.rs:1209-1232] handle: thread/start
ThreadStart(c) ==
    /\ Request(c) /\ ~st.known
    /\ Replies(c, <<>>)
    /\ Does(StartThread(Drained(c), c))

\* [agend-testkit/src/fake_agent/codex.rs:1233-1294] handle: thread/resume; a thread nobody started is refused, here and by what follows
ThreadResume(c) ==
    /\ Request(c) /\ st.known /\ c \notin st.subs
    /\ Replies(c, IF st.turn.id # 0 THEN <<Note("started", st.turn.id)>> ELSE <<>>)
    /\ Does([Drained(c) EXCEPT !.subs = @ \cup {c}])

\* [agend-testkit/src/fake_agent/codex.rs:1295-1314] handle: turn/start joins the running turn.
TurnStart(c, m) ==
    /\ Request(c) /\ st.known /\ (st.turn.id = 0 => MayBegin)
    /\ LET s == Accepted(Drained(c), m) IN
       IF st.turn.id # 0
         THEN /\ Replies(c, OfTurn(c, st.turn.id))
              /\ Does([s EXCEPT !.turn.inputs = Append(@, m)])
         ELSE /\ Replies(c, OfTurn(c, st.ids + 1))
              /\ Does(BeginTurn(s, m, c, FALSE))

\* [agend-testkit/src/fake_agent/codex.rs:1315-1334] handle: turn/steer names the turn it means.
TurnSteer(c, m) ==
    /\ Request(c) /\ st.known
    /\ Replies(c, <<>>)
    /\ \E expected \in 1..MaxTurns :
        Does(IF st.turn.id = expected THEN [Accepted(Drained(c), m) EXCEPT !.turn.inputs = Append(@, m)]
             ELSE Drained(c))

\* [agend-testkit/src/fake_agent/codex.rs:1361-1361] handle: turn/interrupt
ForgetApprovals(s) == [s EXCEPT !.pending = {}]

\* [agend-testkit/src/fake_agent/codex.rs:1335-1370] handle: turn/interrupt names the turn it means;
\* the message that had not shown is shown, and that before the reply.
TurnInterrupt(c) ==
    /\ Request(c) /\ st.known
    /\ \E turn \in 1..MaxTurns :
        LET before == IF st.turn.due /\ c \in st.subs THEN <<Note("user", turn)>> ELSE <<>>
            shown == [ShowUserMessage(st) EXCEPT !.out[c] = <<>>]
        IN  IF st.turn.id # turn THEN Replies(c, <<>>) /\ Does(Drained(c))
            ELSE /\ Replies(c, before \o <<Note("interrupted", turn)>>)
                 /\ Does(ForgetApprovals(FinishTurn(shown, "interrupted")))

\* [agend-testkit/src/fake_agent/codex.rs:1371-1407] handle: thread/queue/add, thread/queue/list
QueueAdd(c, m) ==
    /\ Request(c) /\ st.known /\ m # Human /\ MayBegin
    /\ Replies(c, <<>>)
    /\ LET s == Accepted(Drained(c), m) IN
       IF st.turn.id # 0 THEN Does([s EXCEPT !.queue = Append(@, m)]) ELSE Does(BeginTurn(s, m, c, FALSE))

\* [agend-testkit/src/fake_agent/codex.rs:1408-1436] handle: thread/queue/start, when there is something to start
QueueStart(c) ==
    /\ Request(c) /\ st.known /\ st.queue # <<>> /\ st.turn.id = 0
    /\ Replies(c, OfTurn(c, st.ids + 1))
    /\ Does(BeginTurn([Drained(c) EXCEPT !.queue = Tail(@)], Head(st.queue), c, FALSE))

\* [agend-testkit/src/fake_agent/codex.rs:1479-1487] handle: thread/inject_items is saved at once.
InjectItems(c) ==
    /\ Request(c) /\ st.known /\ ~st.materialized
    /\ Replies(c, <<>>)
    /\ st' = [Drained(c) EXCEPT !.materialized = TRUE]
    /\ disk' = Save(st')

\* [agend-testkit/src/fake_agent/codex.rs:586-606] start_compaction, compact
CompactStart(c) ==
    /\ Compacting
    /\ Request(c) /\ st.known /\ st.turn.id = 0 /\ MayBegin
    /\ Replies(c, <<>>)
    /\ Does(BeginTurn(Drained(c), Human, c, TRUE))

\* [agend-testkit/src/fake_agent/codex.rs:1122-1137] handle: a decision
Decide(c) ==
    /\ Free /\ client[c].up
    /\ UNCHANGED <<reqs, kills>>
    /\ \E p \in st.pending :
        /\ p.conn = c
        /\ Replies(c, <<>>)
        /\ Does(Answer([Drained(c) EXCEPT !.pending = @ \ {p}]))

--------------------------------------------------------------------------------
(* The process dies, wherever it is, and another takes its place. *)

\* [agend-testkit/src/fake_agent/codex.rs:308-351] load
Loaded == [Fresh EXCEPT !.known = disk.known, !.turns = disk.turns, !.history = disk.history,
                        !.materialized = disk.materialized, !.ids = disk.ids,
                        !.copies = st.copies, !.dropped = st.dropped, !.swallowed = st.swallowed]

\* [agend-testkit/src/fake_agent/codex.rs:107-201] bind_with, drop
Restart ==
    /\ kills < MaxKill
    /\ kills' = kills + 1
    /\ st' = Loaded
    /\ client' = [c \in Conns |-> [client[c] EXCEPT !.up = FALSE]]
    /\ UNCHANGED <<disk, reqs>>

Inputs == Messages \cup {Human}

Next ==
    \/ Tell \/ TickUser \/ TickTurn \/ TickStream \/ CatchUp \/ Restart
    \/ \E c \in Conns :
        \/ Connect(c) \/ Disconnect(c) \/ Pump(c)
        \/ ThreadStart(c) \/ ThreadResume(c) \/ TurnInterrupt(c) \/ QueueStart(c)
        \/ InjectItems(c) \/ CompactStart(c) \/ Decide(c)
        \/ \E m \in Inputs : TurnStart(c, m) \/ TurnSteer(c, m) \/ QueueAdd(c, m)

Spec == Init /\ [][Next]_vars

--------------------------------------------------------------------------------
(* Properties. *)

\* The server's state is well formed: only connections that are up are subscribed and have messages
\* waiting, a turn answers no more than its inputs and does one thing at a time.
TypeOK ==
    /\ st.turn.done <= Len(st.turn.inputs)
    /\ st.subs \subseteq {c \in Conns : client[c].up}
    /\ \A c \in Conns : st.out[c] # <<>> => c \in st.subs
    /\ ~(st.turn.asking /\ st.turn.streaming)
    /\ st.turn.id \notin st.turns

\* A peer sees one turn at a time: it is told of the end of a turn before it is told, by a reply
\* or a notification, of the next, and nothing of a turn comes after the reply that ended it.
TurnsInOrder == \A c \in Conns : Cardinality(client[c].open) <= 1 /\ ~client[c].late

\* A turn whose end a peer has seen is there after a restart.
SeenIsSaved == \A c \in Conns : client[c].completed \subseteq disk.turns

\* A decision is asked for the turn that waits for it, and for no other.
DecisionIsForTurn ==
    \A p \in st.pending : st.turn.asking /\ p.turn = st.turn.id

\* What the server accepted shows in the history, is waiting for its turn, or went with an
\* interrupt or the process: nothing accepted is lost but by a compaction, which swallows what
\* joined it (turn/start, codex.rs:1303, finding 12).
AcceptedShows ==
    kills = 0 => \A m \in Messages : st.copies[m] > 0 =>
        \/ m \in st.history \cup st.turn.items
        \/ \E i \in DOMAIN st.turn.inputs : st.turn.inputs[i] = m
        \/ \E i \in DOMAIN st.queue : st.queue[i] = m
        \/ st.tell.next = <<m>>
        \/ m \in st.dropped
        \/ Compacting /\ m \in st.swallowed

ShownYet == IF st.lag THEN 0 ELSE Shown(st.turn)

\* The server that the Codex link is checked against.
Abstract == INSTANCE CodexServer WITH
    running <- st.turn.id # 0 \/ st.tell.next # <<>>,
    inputs <- IF st.tell.next # <<>> THEN st.tell.next
              ELSE SubSeq(st.turn.inputs, ShownYet + 1, Len(st.turn.inputs)),
    fresh <- st.tell.next # <<>> \/ (st.turn.id # 0 /\ ShownYet = 0 /\ ~st.turn.compact),
    compact <- st.turn.compact,
    history <- st.history \cup {st.turn.inputs[i] : i \in 1..ShownYet},
    tqueue <- st.queue, copies <- st.copies, dropped <- st.dropped \cup st.swallowed

AbstractNext ==
    \/ \E m \in Inputs : Abstract!StartTurn(m) \/ Abstract!SteerTurn(m) \/ Abstract!AddToQueue(m)
    \/ Abstract!StartQueue \/ Abstract!ShowMessage \/ Abstract!CompleteTurn \/ Abstract!InterruptTurn
    \/ Abstract!Compact

\* Every step of the fake server but the end of its process is a step of the server that CodexLink
\* composes with, or none: what is checked of the link holds of the link in the tests that do not
\* kill the server.
IsCodexServer == AbstractNext \/ UNCHANGED Abstract!server \/ kills' # kills

================================================================================
