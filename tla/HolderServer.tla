---------------------------- MODULE HolderServer ----------------------------
(***************************************************************************)
(* One holder process: the PTY of an agent, its screen, one client at a    *)
(* time, and one writer of the PTY.  Every thread (a reader and a writer   *)
(* per connection, the PTY reader, the PTY writer, the agent's waiter, the *)
(* serving thread) works on one locked state, `h`; what a thread does      *)
(* under one hold of that lock is one action.  A write to the PTY is made  *)
(* without the lock, so it is two.                                         *)
(*                                                                         *)
(* The screen is the number of chunks it was made from, a snapshot is that *)
(* number.  Only the newest connection matters: the reader of an older one *)
(* returns at its next request, so nothing is kept of older ones but the   *)
(* jobs they left in the writer's queue.                                   *)
(***************************************************************************)
EXTENDS Integers, Sequences, FiniteSets

CONSTANTS Attaches,    \* attach ids a client may use
          Ops,         \* requests the clients may send
          LagLimit,    \* lag_limit, in queued lines
          WriteQueue,  \* WRITE_QUEUE: jobs waiting for the PTY
          MaxConns,    \* bound: connections that complete hello
          MaxSends,    \* bound: requests sent
          Ahead,       \* bound: requests a client has sent and the holder has not read
          MaxOut       \* bound: chunks the agent prints

HolderAssumption ==
    /\ Ops \subseteq {"spawn", "snapshot", "acquire", "resize", "input", "release", "daemonkey",
                      "legacy", "legacyresize", "key", "shutdown", "huge"}
    /\ {LagLimit, WriteQueue, MaxConns, MaxSends, Ahead, MaxOut} \subseteq Nat

None == "none"

VARIABLES
    h,        \* State: everything under the holder's lock
    out,      \* lines queued for the newest client and not written to its socket
    stream,   \* ghost: what was queued for it, see NoStream
    inq,      \* requests it has sent and the holder has not read
    client,   \* its end of the socket
    reading,  \* its reader thread still runs
    deaf,     \* its writer thread has ended
    writeq,   \* the PTY writer's queue
    writing,  \* the job whose bytes are being written, or NoJob
    writer,   \* the PTY writer thread: none, run, ended
    proc,     \* the agent process
    phase,    \* the serving thread: serve, hup, kill, done
    sends     \* requests sent so far

vars == <<h, out, stream, inq, client, reading, deaf, writeq, writing, writer, proc, phase, sends>>
socket == <<inq, client, reading, deaf, sends>>
pty == <<writeq, writing, writer, proc>>

NoJob == [c |-> 0, op |-> None, a |-> None, rev |-> 0]
Job(c, r) == [c |-> c, op |-> r.op, a |-> r.a, rev |-> r.rev]

\* The screen a client can make of what it was sent (-1: nothing yet), whether a
\* chunk was lost or repeated on the way, and how often it was told of the exit.
NoStream == [pos |-> -1, whole |-> TRUE, exits |-> 0]
Plus(st, kind, n) ==
    CASE kind = "snap"   -> [st EXCEPT !.pos = n, !.whole = @ /\ st.pos \in {-1, n}]
      [] kind = "bytes"  -> [st EXCEPT !.pos = n, !.whole = @ /\ st.pos = n - 1]
      [] kind = "exited" -> [st EXCEPT !.exits = @ + 1]
      [] OTHER           -> st

\* [agend-holder/src/server.rs:163-190] serve: the state a holder begins with
Init ==
    /\ h = [conn |-> 0, latest |-> 0, structured |-> FALSE, control |-> None, agent |-> FALSE,
            spawned |-> FALSE, exited |-> FALSE, output |-> FALSE, stop |-> None, rev |-> 0,
            sizes |-> 0]
    /\ out = 0 /\ stream = NoStream /\ inq = <<>> /\ client = None
    /\ reading = FALSE /\ deaf = FALSE
    /\ writeq = <<>> /\ writing = NoJob /\ writer = None
    /\ proc = None /\ phase = "serve" /\ sends = 0

Alive == phase # "done"

-----------------------------------------------------------------------------
(* The output side: lines for the current client. *)

\* A State and its output, as one value that a handler's steps change in turn.
Now == [h |-> h, out |-> out, stream |-> stream]

\* A structured connection has room for one frame more.  A client that lags, or
\* whose writer thread has ended, is dropped, and its control with it.
\* [agend-holder/src/server.rs:331-364] push
Push(w, kind) ==
    LET limit == IF w.h.structured THEN LagLimit + 1 ELSE LagLimit
    IN  IF w.h.conn = 0 THEN w
        ELSE IF w.out < limit /\ ~deaf
             THEN [w EXCEPT !.out = @ + 1, !.stream = Plus(@, kind, w.h.rev)]
             ELSE [w EXCEPT !.h.conn = 0, !.h.control = None, !.h.structured = FALSE]

\* [agend-holder/src/server.rs:552-558] snapshot
Snapshot(w) == Push(w, "snap")

Becomes(w) == h' = w.h /\ out' = w.out /\ stream' = w.stream

\* [agend-holder/src/server.rs:482-496] connection: the greeting, under the lock that made it current
Greet(w) == IF h.exited THEN Push(Snapshot(w), "exited") ELSE Snapshot(w)

\* A client completes hello: it is the current one now, the old one is closed
\* and whatever control it had is gone.
\* [agend-holder/src/server.rs:408-499] connection: up to the greeting
Hello ==
    /\ Alive /\ h.stop = None /\ h.latest < MaxConns
    /\ Becomes(Greet([h |-> [h EXCEPT !.conn = h.latest + 1, !.latest = @ + 1, !.control = None,
                                      !.structured = FALSE],
                      out |-> 0, stream |-> NoStream]))
    /\ client' = "open" /\ reading' = TRUE /\ inq' = <<>> /\ deaf' = FALSE
    /\ UNCHANGED <<pty, phase, sends>>

\* The connection's writer thread hands one line to the client, or finds it gone.
\* [agend-holder/src/server.rs:443-456] connection: the connection-writer thread
Deliver ==
    /\ out > 0 /\ ~deaf
    /\ IF client = "open" THEN out' = out - 1 /\ UNCHANGED deaf
                          ELSE deaf' = TRUE /\ UNCHANGED out
    /\ UNCHANGED <<h, stream, inq, client, reading, pty, phase, sends>>

-----------------------------------------------------------------------------
(* What a request does. *)

PtyLive == h.stop = None /\ h.agent /\ ~h.exited
Revision == h.rev + h.sizes

\* [agend-holder/src/pty.rs:62-81] WriteQueue::submit: Busy or Closed instead of a wait
CanQueue == Len(writeq) < WriteQueue /\ writer = "run"

\* [agend-holder/src/server/control.rs:21-88] validate
Validate(j) ==
    /\ h.conn = j.c /\ PtyLive
    /\ \/ j.op = "acquire"
       \/ j.op = "daemonkey" /\ h.control = None /\ j.rev = Revision
       \/ j.op \in {"resize", "input", "release"} /\ h.control = j.a

Refuse == Becomes(Push(Now, "reply")) /\ UNCHANGED pty

\* An acquire is refused at once if it could never be granted; the rest is
\* checked when the writer reaches it.
\* [agend-holder/src/server/control.rs:90-174] enqueue
Enqueue(c, r) ==
    IF PtyLive /\ (r.op = "acquire" => Validate(Job(c, r))) /\ CanQueue
    THEN /\ writeq' = Append(writeq, Job(c, r))
         /\ h' = [h EXCEPT !.structured = TRUE]
         /\ UNCHANGED <<out, stream, writing, writer, proc>>
    ELSE Refuse

\* [agend-holder/src/server/control.rs:309-369] legacy_input: the part before the queue
Legacy(c, r) ==
    IF h.control = None /\ h.agent /\ ~h.exited /\ CanQueue
    THEN writeq' = Append(writeq, Job(c, r)) /\ UNCHANGED <<h, out, stream, writing, writer, proc>>
    ELSE Refuse

\* [agend-holder/src/server.rs:666-681] write_pty
Key(c, r) ==
    IF h.agent /\ ~h.exited /\ CanQueue
    THEN writeq' = Append(writeq, Job(c, r)) /\ UNCHANGED <<h, out, stream, writing, writer, proc>>
    ELSE Refuse

\* The agent runs on a PTY of its own, which a thread writes; a failure of
\* any step before leaves no agent.
\* [agend-holder/src/pty.rs:125-188] spawn
Started == proc' = "run" /\ writer' = "run"

\* [agend-holder/src/server.rs:683-780] spawn_agent
SpawnAgent ==
    \/ /\ ~h.spawned
       /\ Becomes(Push([Now EXCEPT !.h.spawned = TRUE, !.h.agent = TRUE], "reply"))
       /\ Started /\ UNCHANGED <<writeq, writing>>
    \/ Refuse

\* [agend-holder/src/server.rs:577-609] handle: a legacy resize
LegacyResize ==
    IF h.control = None
    THEN h' = [h EXCEPT !.sizes = @ + 1] /\ UNCHANGED <<out, stream, pty>>
    ELSE Refuse

\* [agend-holder/src/server.rs:562-664] handle
Handle(c, r) ==
    IF h.stop # None THEN Refuse
    ELSE \/ r.op = "spawn" /\ SpawnAgent
         \/ r.op = "snapshot" /\ Becomes(Snapshot(Now)) /\ UNCHANGED pty
         \/ r.op = "legacyresize" /\ LegacyResize
         \/ r.op = "key" /\ Key(c, r)
         \/ r.op = "legacy" /\ Legacy(c, r)
         \/ r.op \in {"acquire", "resize", "input", "release", "daemonkey"} /\ Enqueue(c, r)
         \/ r.op = "shutdown" /\ h' = [h EXCEPT !.stop = "shutdown"] /\ UNCHANGED <<out, stream, pty>>

\* Mutant: a client that was dropped for lagging is not read any more.
DroppedIgnored(r) == UNCHANGED <<h, out, stream, pty>>

\* Dropped for lagging: only a Shutdown counts.
\* [agend-holder/src/server.rs:519-529] connection: a request of a client that is not current
Dropped(r) ==
    /\ h' = IF r.op = "shutdown" /\ h.stop = None THEN [h EXCEPT !.stop = "shutdown"] ELSE h
    /\ UNCHANGED <<out, stream, pty>>

\* [agend-holder/src/server.rs:540-549] connection: the reader ends
Ended(w) == [w EXCEPT !.h.conn = 0, !.h.control = None, !.h.structured = FALSE]

\* The reader thread takes one request: the whole handler, under the lock.
\* [agend-holder/src/server.rs:501-538] connection: the reading loop
ReadRequest ==
    /\ Alive /\ reading /\ inq # <<>>
    /\ LET r == Head(inq)
       IN  IF r.op = "huge"
           THEN /\ Becomes(Ended(Push(Now, "reply")))
                /\ reading' = FALSE /\ UNCHANGED pty
           ELSE /\ UNCHANGED reading
                /\ IF h.conn # 0 THEN Handle(h.conn, r) ELSE Dropped(r)
    /\ inq' = Tail(inq)
    /\ UNCHANGED <<client, deaf, phase, sends>>

\* [agend-holder/src/server.rs:366-406] read_line: end of stream
ReaderEnds ==
    /\ Alive /\ reading /\ inq = <<>> /\ client = "closed"
    /\ reading' = FALSE
    /\ Becomes(Ended(Now))
    /\ UNCHANGED <<inq, client, deaf, pty, phase, sends>>

-----------------------------------------------------------------------------
(* The one writer of the PTY. *)

\* [agend-holder/src/server/control.rs:216-258] execute: a resize that worked
Grant(j) == Push([Now EXCEPT !.h.control = j.a, !.h.sizes = @ + 1], "reply")

\* A resize that fails changes nothing; a frame that cannot be made takes the
\* control away.
\* [agend-holder/src/server/control.rs:176-246] execute: acquire and resize
Resize(j) ==
    /\ \/ Becomes(Grant(j))
       \/ Refuse
       \/ Becomes(Push([Now EXCEPT !.h.control = None, !.h.sizes = @ + 1], "reply"))
    /\ UNCHANGED writing

\* [agend-holder/src/server/control.rs:296-305] execute: release
Release == Becomes(Push([Now EXCEPT !.h.control = None], "reply")) /\ UNCHANGED writing

\* The writer takes a job.  Bytes go out without the lock: a key or a query
\* reply always, an input once its owner is checked.
\* [agend-holder/src/server/control.rs:193-214] execute, legacy_input: what is checked at the queue
Execute(j) ==
    IF j.op \in {"key", "query"} THEN writing' = j /\ UNCHANGED <<h, out, stream>>
    ELSE IF j.op = "legacy"
    THEN IF h.conn = j.c /\ h.control = None /\ PtyLive
         THEN writing' = j /\ UNCHANGED <<h, out, stream>>
         ELSE (IF h.conn = j.c THEN Becomes(Push(Now, "reply")) ELSE UNCHANGED <<h, out, stream>>)
              /\ UNCHANGED writing
    ELSE IF ~Validate(j)
    THEN (IF h.conn = j.c THEN Becomes(Push(Now, "reply")) ELSE UNCHANGED <<h, out, stream>>)
         /\ UNCHANGED writing
    ELSE \/ j.op \in {"acquire", "resize"} /\ Resize(j)
         \/ j.op = "release" /\ Release
         \/ j.op \in {"input", "daemonkey"} /\ writing' = j /\ UNCHANGED <<h, out, stream>>

\* [agend-holder/src/pty.rs:83-101] start_writer: the next job
WriterTakes ==
    /\ Alive /\ writer = "run" /\ writing = NoJob /\ writeq # <<>>
    /\ Execute(Head(writeq))
    /\ writeq' = Tail(writeq)
    /\ UNCHANGED <<writer, proc, socket, phase>>

\* The write ends, or fails within its deadline: bytes that cannot be written
\* end the thread and what is queued with it, an operation only its control.
\* [agend-holder/src/pty/writer.rs:84-109] DeadlinedWriter::write_all, with the end of the job
WriteEnds ==
    /\ Alive /\ writing # NoJob
    /\ writing' = NoJob
    /\ \E ok \in BOOLEAN :
        IF writing.op \in {"key", "query"}
        THEN /\ writer' = IF ok THEN writer ELSE "ended"
             /\ writeq' = IF ok THEN writeq ELSE <<>>
             /\ UNCHANGED <<h, out, stream>>
        ELSE /\ UNCHANGED <<writer, writeq>>
             /\ IF h.conn # writing.c \/ (ok /\ writing.op = "legacy") THEN UNCHANGED <<h, out, stream>>
                ELSE IF ok \/ writing.op = "legacy" THEN Becomes(Push(Now, "reply"))
                ELSE Becomes(Push([Now EXCEPT !.h.control = None], "reply"))
    /\ UNCHANGED <<proc, socket, phase>>

-----------------------------------------------------------------------------
(* The agent, and the end of the holder. *)

\* A chunk of output reaches the screen and the client; a query in it is
\* answered through the writer's queue when there is room.
\* [agend-holder/src/screen.rs:60-69] QueryReplies::send_event, with the pty-reader thread
PtyOut ==
    /\ Alive /\ proc # None /\ ~h.output /\ h.rev < MaxOut
    /\ Becomes(Push([Now EXCEPT !.h.rev = @ + 1], "bytes"))
    /\ \/ UNCHANGED writeq
       \/ CanQueue /\ writeq' = Append(writeq, [NoJob EXCEPT !.op = "query"])
    /\ UNCHANGED <<writing, writer, proc, socket, phase>>

AgentDies == proc = "run" /\ proc' = "dead" /\ UNCHANGED <<h, out, stream, socket, writeq, writing, writer, phase>>

\* The PTY closes once the agent is gone.
\* [agend-holder/src/pty.rs:199-262] DrainingReader::read: the end of the output
OutputEnds ==
    /\ Alive /\ proc = "dead" /\ ~h.output
    /\ h' = [h EXCEPT !.output = TRUE]
    /\ UNCHANGED <<out, stream, socket, pty, phase>>

\* The exit is queued for the client and recorded in one hold of the lock.  The
\* output is waited for, but not for ever (OUTPUT_DRAIN).
\* [agend-holder/src/server.rs:744-770] spawn_agent: the agent-waiter thread
WaiterReports ==
    /\ Alive /\ proc = "dead" /\ ~h.exited
    /\ Becomes([Push(Now, "exited") EXCEPT !.h.exited = TRUE])
    /\ UNCHANGED <<socket, pty, phase>>

\* Shutdown, a deleted home, or nobody there and no agent.
\* [agend-holder/src/server.rs:203-244] serve and stop_agent: the first signal
ServeStops ==
    /\ phase = "serve"
    /\ \E why \in {"shutdown", "home", "idle"} :
        /\ h.stop \in {None, why}
        /\ why = "shutdown" => h.stop = why
        /\ why = "idle" => ~(h.agent /\ ~h.exited) /\ h.conn = 0
        /\ h' = [h EXCEPT !.stop = why, !.agent = FALSE]
    /\ phase' = IF ~h.agent THEN "done" ELSE IF h.exited THEN "kill" ELSE "hup"
    /\ UNCHANGED <<out, stream, socket, pty>>

\* The grace is over or the agent ended: the group is killed.
\* [agend-holder/src/server.rs:246-261] wait_exited, signal_group: SIGKILL
Kill ==
    /\ phase = "hup"
    /\ proc' = "dead" /\ phase' = "kill"
    /\ UNCHANGED <<h, out, stream, socket, writeq, writing, writer>>

\* [agend-holder/src/exit.rs:46-50] reap, and the end of the process
Reap ==
    /\ phase = "kill"
    /\ phase' = "done"
    /\ UNCHANGED <<h, out, stream, socket, pty>>

-----------------------------------------------------------------------------
(* The clients. *)

ClientSends ==
    /\ client = "open" /\ sends < MaxSends /\ Len(inq) < Ahead
    /\ \E op \in Ops, a \in Attaches :
        inq' = Append(inq, [op |-> op, rev |-> IF op = "daemonkey" THEN Revision ELSE 0,
                            a |-> IF op \in {"acquire", "resize", "input", "release"} THEN a ELSE None])
    /\ sends' = sends + 1
    /\ UNCHANGED <<h, out, stream, client, reading, deaf, pty, phase>>

ClientCloses ==
    /\ client = "open"
    /\ client' = "closed"
    /\ UNCHANGED <<h, out, stream, inq, reading, deaf, pty, phase, sends>>

Next ==
    \/ Hello \/ Deliver \/ ReadRequest \/ ReaderEnds \/ ClientSends \/ ClientCloses
    \/ WriterTakes \/ WriteEnds \/ PtyOut \/ AgentDies \/ OutputEnds \/ WaiterReports
    \/ ServeStops \/ Kill \/ Reap

Spec == Init /\ [][Next]_vars

-----------------------------------------------------------------------------
(* What the holder promises. *)

\* Every variable has its type; a record names only known connections and
\* jobs, and a holder that has stopped has no agent left to signal.
TypeOK ==
    /\ h.conn \in 0 .. MaxConns /\ h.latest \in 0 .. MaxConns
    /\ h.conn # 0 => h.conn = h.latest
    /\ h.control \in Attaches \cup {None}
    /\ h.stop \in {None, "shutdown", "home", "idle"}
    /\ h.rev \in 0 .. MaxOut /\ h.sizes \in Nat
    /\ out \in 0 .. LagLimit + 1 /\ stream.pos \in -1 .. MaxOut
    /\ {reading, deaf} \subseteq BOOLEAN
    /\ Len(writeq) <= WriteQueue /\ writer \in {None, "run", "ended"}
    /\ proc \in {None, "run", "dead"} /\ phase \in {"serve", "hup", "kill", "done"}
    /\ phase # "serve" => ~h.agent

\* While bytes are going to the PTY nobody else gets the terminal: the bytes of
\* a controller go out only while it, or nobody, has control, and the bytes of
\* a legacy client or of the daemon's key never reach a controlled terminal.
WriterExclusive ==
    /\ writing.op = "input" => h.control \in {writing.a, None}
    /\ writing.op \in {"legacy", "daemonkey"} => h.control = None

\* Control never outlives the connection it was given on: a client that was
\* dropped, replaced or has gone leaves no owner behind that nobody can release.
ControlHasClient == h.control # None => h.conn # 0

\* A client's stream begins with a screen, loses no chunk and repeats none, and
\* the stream of the current client ends at the screen as it is now.
StreamWhole == stream.whole /\ (h.conn # 0 => stream.pos = h.rev)

\* A client learns of the agent's end once, whether it was there or came later.
ExitedOnce == stream.exits <= 1 /\ (h.conn # 0 /\ h.exited => stream.exits = 1)

=============================================================================
