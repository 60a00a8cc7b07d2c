------------------------------- MODULE Commands -------------------------------
(***************************************************************************)
(* A command of the CLI from its first connection to its exit code: the    *)
(* client library that connects, writes and reads (agend-client:           *)
(* connection.rs, once.rs), the daemon's connection tasks and handlers     *)
(* (agend-daemon: server.rs, handlers/), and the two loops that own what a *)
(* command changes, the supervisor and the pipeline.  The daemon may stop, *)
(* restart to another binary or die between any two steps, a caller may be *)
(* killed, a write may stop halfway.                                       *)
(***************************************************************************)
EXTENDS Integers, Sequences, FiniteSets

LOCAL INSTANCE SequencesExt

CONSTANTS
    Procs,                     \* processes that run one command each
    Kinds,                     \* commands of this run
    Sizes,                     \* sizes of a request: "small", "over" or "huge"
    FirstVersions,             \* versions the first daemon may have: 1 is old, 2 is this one
    Agents,                    \* those of them an agent runs
    MaxBoot, MaxSignals, MaxCrashes, MaxKills

\* The commands of the CLI that differ in what they ask of the daemon; those
\* that report alike (result, review, ask) count as done, and so on.
\* [agend/src/cli.rs:71-181] Command
Command == {"fleet", "status", "send", "once", "done", "block", "task", "add", "remove",
            "restart", "apply"}

CommandsAssumption ==
    /\ Kinds \subseteq Command
    /\ Agents \subseteq Procs /\ Sizes \subseteq {"small", "over", "huge"} /\ FirstVersions \subseteq {1, 2}
    /\ {MaxBoot, MaxSignals, MaxCrashes, MaxKills} \subseteq Nat

VARIABLES
    d,          \* the daemon process
    c,          \* process -> its connection, both ends
    q,          \* what waits for the supervisor and for the pipeline
    db,         \* the instance "x", the messages kept, the ticket of the task
    cli,        \* process -> its command
    did,        \* process -> how often what it asked for was done
    used        \* what the run has used of its bounds

vars == <<d, c, q, db, cli, did, used>>

Off == [at |-> "off", boot |-> 0, ver |-> 0, inn |-> "none", out |-> <<>>, busy |-> "no"]

--------------------------------------------------------------------------------
(* Commands. *)

\* [agend/src/cli/agent.rs:193-260] done, result, review, ask: never sent again
AgentNever == {"done", "block", "task"}

\* [agend/src/cli/operator.rs:76-97] operator_request: Redo::Never
\* [agend/src/cli/pipeline.rs:38-103] request, team, workflow
OperatorNever == {"add", "remove", "restart", "apply", "task", "once"}

\* [agend/src/cli/agent.rs:110-191] status, send, inbox: safe to send again
Safe(req) == req \notin AgentNever \cup OperatorNever

Changes(kind) == kind \notin {"fleet", "status"}

\* [agend/src/cli/agent.rs:261-340] current_task, block, remind, task_create: an agent asks for its task first.
AgentScript(kind) == IF kind = "block" THEN <<"status", "block">> ELSE <<kind>>

\* [agend/src/cli/operator.rs:221-315] remove, list, task_cancel: the fleet view first
OperatorScript(kind) ==
    CASE kind = "remove" -> <<"fleet", "remove">>
      [] kind = "restart" -> <<"restart", "fleet">>
      [] OTHER -> <<kind>>

\* [agend/src/cli.rs:455-514] dispatch: the requests a command makes, one after the other.
Script(p) == IF p \in Agents THEN AgentScript(cli[p].kind) ELSE OperatorScript(cli[p].kind)

Req(p) == Script(p)[cli[p].step]

\* [agend-client/src/connection.rs:206-238] connect, connect_needing: only a restart accepts an old daemon.
Needed(p) == IF Req(p) = "restart" THEN 1 ELSE 2

\* [agend-client/src/once/prepare.rs:155-304] Budget, check: the strings as they are, before they are scanned
Checked(size) == size # "huge"

\* [agend-client/src/once.rs:36-64] encode: the line as it is written
Encoded(size) == Checked(size) /\ size = "small"

\* [agend/src/cli/agent.rs:138-141] send: a body over the limit is not sent, nor a one-shot request.
Prepared(p) == cli[p].kind \in {"once", "send"} => Encoded(cli[p].size)

\* [agend/src/cli.rs:403-453] run: a command ends with its exit code.
Exits(p, result) == cli' = [cli EXCEPT ![p].pc = "done", ![p].result = result]
Hangs(p) == c' = [c EXCEPT ![p] = IF @.at \in {"hello", "on"} THEN [@ EXCEPT !.at = "gone"]
                                  ELSE IF @.at = "gone" THEN @ ELSE Off]

--------------------------------------------------------------------------------
(* The client. *)

Listening == d.up \in {"up", "leaving"}

\* [agend-client/src/connection.rs:98-122] open: the socket takes a connection while the server accepts.
Connect(p) ==
    /\ cli[p].pc = "connect" /\ Prepared(p) /\ Listening
    /\ c[p].at = "off"
    /\ cli' = [cli EXCEPT ![p].pc = "hello"]
    /\ c' = [c EXCEPT ![p] = [Off EXCEPT !.at = "hello"]]
    /\ UNCHANGED <<d, q, db, did, used>>

\* [agend-client/src/connection.rs:156-188] open_retrying: no daemon for ten seconds
GiveUp(p) ==
    /\ cli[p].pc = "connect"
    /\ ~Listening \/ ~Prepared(p)
    /\ Exits(p, IF Prepared(p) THEN "unreachable" ELSE "notsent")
    /\ UNCHANGED <<d, c, q, db, did, used>>

\* [agend-daemon/src/handlers.rs:85-121] Context::hello: which daemon this is
Hello == [Off EXCEPT !.at = "on", !.boot = d.boot, !.ver = d.ver]

\* [agend-daemon/src/server.rs:359-402] connection: hello is answered.
Greet(p) ==
    /\ c[p].at = "hello" /\ Listening
    /\ c' = [c EXCEPT ![p] = Hello]
    /\ UNCHANGED <<d, q, db, cli, did, used>>

\* [agend/src/cli/operator.rs:368-402] restart: another boot ends the wait, the old one is asked again.
Greeted(p) ==
    LET again == cli[p].kind = "restart" /\ cli[p].step = 2
    IN  /\ cli[p].pc = "hello" /\ c[p].at = "on"
        /\ IF c[p].ver < Needed(p) THEN Exits(p, "version") /\ Hangs(p)
           ELSE IF again /\ c[p].boot = cli[p].old
           THEN /\ cli' = [cli EXCEPT ![p].pc = "connect"]
                /\ c' = [c EXCEPT ![p] = Off]
           ELSE /\ cli' = [cli EXCEPT ![p].pc = "write", ![p].old = IF again THEN @ ELSE c[p].boot,
                                      ![p].seen = c[p].boot]
                /\ UNCHANGED c
        /\ UNCHANGED <<d, q, db, did, used>>

\* [agend-client/src/connection.rs:123-151] open: the connection ended during hello, which is tried again.
HelloEnds(p) ==
    /\ cli[p].pc = "hello" /\ c[p].at = "shut"
    /\ c' = [c EXCEPT ![p] = Off]
    /\ IF cli[p].kind = "once" THEN Exits(p, "unreachable") ELSE cli' = [cli EXCEPT ![p].pc = "connect"]
    /\ UNCHANGED <<d, q, db, did, used>>

\* [agend-client/src/connection.rs:320-368] request_within: the line is written, a huge one never to its end.
Write(p) ==
    /\ cli[p].pc = "write" /\ c[p].at = "on"
    /\ \E part \in BOOLEAN :
        LET whole == ~part /\ cli[p].size # "huge"
        IN  /\ part => cli[p].size = "small" /\ MaxKills > 0
            /\ cli' = [cli EXCEPT ![p].pc = IF whole THEN "wait" ELSE "writing", ![p].tries = IF @ = 2 THEN 2 ELSE @ + 1,
                                  ![p].wrote = @ \/ whole]
            /\ c' = [c EXCEPT ![p].inn = IF part THEN "part" ELSE IF cli[p].size = "small" THEN "line" ELSE "long"]
    /\ UNCHANGED <<d, q, db, did, used>>

\* [agend-client/src/once.rs:66-78] write: the rest of the line
WriteRest(p) ==
    /\ cli[p].pc = "writing" /\ c[p].at = "on" /\ c[p].inn = "part"
    /\ cli' = [cli EXCEPT ![p].pc = "wait", ![p].wrote = TRUE]
    /\ c' = [c EXCEPT ![p].inn = "line"]
    /\ UNCHANGED <<d, q, db, did, used>>

\* [agend-client/src/once.rs:133-201] exchange_once: neither a write nor a lost reply is replayed.
WriteFails(p) ==
    /\ cli[p].pc \in {"write", "writing"} /\ c[p].at = "shut"
    /\ c' = [c EXCEPT ![p] = Off]
    /\ IF cli[p].kind = "once" THEN Exits(p, "disconnected") ELSE cli' = [cli EXCEPT ![p].pc = "connect"]
    /\ UNCHANGED <<d, q, db, did, used>>

--------------------------------------------------------------------------------
(* What the client makes of a reply. *)

Replied(p) == cli[p].pc = "wait" /\ c[p].out # <<>>

\* [agend/src/cli/agent.rs:50-101] command_within, shown: an error is the exit code, a result the next request.
ReadReply(p) ==
    /\ Replied(p) /\ c[p].out[1] # "restarting"
    /\ IF c[p].out[1] # "ok" THEN Exits(p, c[p].out[1]) /\ Hangs(p)
       ELSE IF cli[p].step < Len(Script(p))
       THEN /\ cli' = [cli EXCEPT ![p].pc = "write", ![p].step = @ + 1, ![p].wrote = FALSE]
            /\ c' = [c EXCEPT ![p].out = Tail(@)]
       ELSE Exits(p, "ok") /\ Hangs(p)
    /\ UNCHANGED <<d, q, db, did, used>>

\* [agend/src/cli/operator.rs:316-367] restart: accepted, now wait for the old daemon to let go.
ReadRestarting(p) ==
    /\ Replied(p) /\ c[p].out[1] = "restarting"
    /\ cli' = [cli EXCEPT ![p].pc = "closing", ![p].step = 2]
    /\ c' = [c EXCEPT ![p].out = Tail(@)]
    /\ UNCHANGED <<d, q, db, did, used>>

\* [agend-client/src/connection.rs:294-319] wait_closed: it read the end, or waited too long.
Closed(p) ==
    /\ cli[p].pc = "closing"
    /\ \/ c[p].at = "shut" /\ cli' = [cli EXCEPT ![p].pc = "connect"] /\ c' = [c EXCEPT ![p] = Off]
       \/ c[p].at = "on" /\ Exits(p, "failed") /\ Hangs(p)
    /\ UNCHANGED <<d, q, db, did, used>>

\* [agend-client/src/connection.rs:369-379] request_within: only what is safe is sent again.
Ended(p) ==
    /\ cli[p].pc = "wait" /\ c[p].at = "shut" /\ c[p].out = <<>>
    /\ c' = [c EXCEPT ![p] = Off]
    /\ IF cli[p].kind # "once" /\ Safe(Req(p)) THEN cli' = [cli EXCEPT ![p].pc = "connect"]
       ELSE Exits(p, IF cli[p].kind = "once" THEN "disconnected" ELSE "interrupted")
    /\ UNCHANGED <<d, q, db, did, used>>

\* [agend-client/src/connection.rs:381-424] wait_reply: no reply in time
TimesOut(p) ==
    /\ cli[p].pc = "wait" /\ c[p].out = <<>> /\ c[p].at = "on"
    /\ Exits(p, "disconnected") /\ Hangs(p)
    /\ UNCHANGED <<d, q, db, did, used>>

Killed(p) ==
    /\ cli[p].pc # "done" /\ used.kills < MaxKills
    /\ Exits(p, "killed") /\ Hangs(p)
    /\ used' = [used EXCEPT !.kills = @ + 1]
    /\ UNCHANGED <<d, q, db, did>>

--------------------------------------------------------------------------------
(* The daemon's connection tasks. *)

\* A reply is written to whoever is still there; else the task ends.
Told(p, a) == IF c[p].at = "gone" THEN Off ELSE [c[p] EXCEPT !.out = Append(@, a), !.busy = "no", !.inn = "none"]

Serving(p) == Listening /\ c[p].at \in {"on", "gone"} /\ c[p].busy = "no"

\* [agend-daemon/src/server.rs:313-356] connection: a line over the limit is answered, and the connection closed.
TooLong(p) ==
    /\ Serving(p) /\ c[p].inn = "long"
    /\ c' = [c EXCEPT ![p] = IF @.at = "gone" THEN Off ELSE [@ EXCEPT !.at = "shut", !.out = <<"refused">>]]
    /\ UNCHANGED <<d, q, db, cli, did, used>>

\* [agend-daemon/src/server.rs:199-231] read_line: at the end of the stream, a line without its end is dropped.
HangsUp(p) ==
    /\ Serving(p) /\ c[p].at = "gone" /\ c[p].inn \in {"none", "part"}
    /\ c' = [c EXCEPT ![p] = Off]
    /\ UNCHANGED <<d, q, db, cli, did, used>>

\* [agend-daemon/src/handlers/operator.rs:47-65] forbidden
OperatorOnly == {"add", "remove", "restart", "apply"}

\* [agend-daemon/src/handlers.rs:123-158] agent_only, command_name
AgentOnly == {"status", "send", "done", "block"}

\* [agend-daemon/src/handlers.rs:222-244] handle: who may ask for what
Forbidden(p) == IF p \in Agents THEN Req(p) \in OperatorOnly ELSE Req(p) \in AgentOnly

Takes(p, req) == Serving(p) /\ c[p].inn = "line" /\ Req(p) = req /\ ~Forbidden(p)

Forbid(p) ==
    /\ Serving(p) /\ c[p].inn = "line" /\ Forbidden(p)
    /\ c' = [c EXCEPT ![p] = Told(p, "refused")]
    /\ UNCHANGED <<d, q, db, cli, did, used>>

\* [agend-daemon/src/handlers.rs:160-207] handle: get_fleet, the inbox and what else is read
Reads(p) == Takes(p, "fleet")

\* What is read of the fleet, of a driver or of a message is answered at once,
\* and changes nothing.
\* [agend-daemon/src/handlers/operator.rs:175-306] handle: DriverStatus, MessageOutcome, MessageDelivery
Look(p) ==
    /\ Reads(p)
    /\ c' = [c EXCEPT ![p] = Told(p, "ok")]
    /\ UNCHANGED <<d, q, db, cli, did, used>>

\* [agend-daemon/src/store/messages.rs:210-241] claim: one message per id
Claims(p) == p \notin db.msgs

\* [agend-daemon/src/handlers/agent.rs:81-186] send, send_from: the row is kept, then it is delivered.
Send(p) ==
    /\ Takes(p, "send")
    /\ IF ~db.there
       THEN /\ c' = [c EXCEPT ![p] = Told(p, "refused")]
            /\ UNCHANGED <<db, did>>
       ELSE /\ db' = [db EXCEPT !.msgs = @ \cup {p}]
            /\ did' = [did EXCEPT ![p] = IF Claims(p) THEN @ + 1 ELSE @]
            /\ c' = [c EXCEPT ![p].busy = "delivering", ![p].inn = "none"]
    /\ UNCHANGED <<d, q, cli, used>>

\* [agend-daemon/src/driver/codex/driver.rs:554-625] deliver: the reply comes after it was handed over.
Delivered(p) ==
    /\ Listening /\ c[p].busy = "delivering"
    /\ c' = [c EXCEPT ![p] = Told(p, "ok")]
    /\ UNCHANGED <<d, q, db, cli, did, used>>

\* [agend-daemon/src/server.rs:410-430] connection: a one-shot RPC of a Claude helper, stored and answered
Once(p) ==
    /\ Takes(p, "once")
    /\ did' = [did EXCEPT ![p] = @ + 1]
    /\ c' = [c EXCEPT ![p] = Told(p, "ok")]
    /\ UNCHANGED <<d, q, db, cli, used>>

\* [agend-daemon/src/handlers/agent.rs:47-79] handle: an agent's status and results wait for the pipeline,
\* as do the operator's commands about teams, workflows and tasks.
ToPipeline(p) ==
    /\ \E req \in {"status", "done", "block", "apply", "task"} : Takes(p, req)
    /\ q' = [q EXCEPT !.pipe = Append(@, p)]
    /\ c' = [c EXCEPT ![p].busy = "queued", ![p].inn = "none"]
    /\ UNCHANGED <<d, db, cli, did, used>>

\* [agend-daemon/src/handlers/operator.rs:307-346] handle: instance_add, instance_remove wait for the supervisor;
\* a daemon that stops says that nothing changed.
ToSupervisor(p) ==
    /\ \E req \in {"add", "remove"} : Takes(p, req)
    /\ IF d.up = "up"
       THEN /\ q' = [q EXCEPT !.sup = Append(@, p)]
            /\ c' = [c EXCEPT ![p].busy = "queued", ![p].inn = "none"]
       ELSE /\ c' = [c EXCEPT ![p] = Told(p, "stopping")]
            /\ UNCHANGED q
    /\ UNCHANGED <<d, db, cli, did, used>>

\* [agend-daemon/src/handlers/operator.rs:365-373] restart: one at a time
AskRestart(p) ==
    /\ Takes(p, "restart")
    /\ IF d.pre = "no"
       THEN /\ d' = [d EXCEPT !.pre = p]
            /\ c' = [c EXCEPT ![p].busy = "preflight", ![p].inn = "none"]
       ELSE /\ c' = [c EXCEPT ![p] = Told(p, "refused")]
            /\ UNCHANGED d
    /\ UNCHANGED <<q, db, cli, did, used>>

\* [agend-daemon/src/server.rs:440-447] connection: the reply first, then the supervisor gets the binary.
PreflightPasses(p) ==
    /\ Listening /\ c[p].busy = "preflight"
    /\ c' = [c EXCEPT ![p] = Told(p, "restarting")]
    /\ q' = [q EXCEPT !.sup = IF d.up = "up" THEN Append(@, "exec") ELSE @]
    /\ did' = [did EXCEPT ![p] = @ + 1]
    /\ UNCHANGED <<d, db, cli, used>>

\* [agend-daemon/src/handlers/operator.rs:397-412] restart: preflight_failed, the daemon keeps running.
PreflightFails(p) ==
    /\ Listening /\ c[p].busy = "preflight"
    /\ d' = [d EXCEPT !.pre = "no"]
    /\ c' = [c EXCEPT ![p] = Told(p, "refused")]
    /\ UNCHANGED <<q, db, cli, did, used>>

--------------------------------------------------------------------------------
(* The supervisor, the pipeline and the daemon's process. *)

\* [agend-daemon/src/supervisor.rs:1074-1110] Supervisor::add: an instance that is there is refused.
\* [agend-daemon/src/supervisor.rs:1174-1225] Supervisor::remove
SupervisorWorks ==
    /\ d.up = "up" /\ q.sup # <<>> /\ Head(q.sup) # "exec"
    /\ LET p == Head(q.sup)
           can == db.there = (Req(p) = "remove")
       IN  /\ db' = [db EXCEPT !.there = IF can THEN ~@ ELSE @]
           /\ did' = [did EXCEPT ![p] = IF can THEN @ + 1 ELSE @]
           /\ c' = [c EXCEPT ![p] = IF @.busy = "queued" THEN Told(p, IF can THEN "ok" ELSE "refused") ELSE @]
    /\ q' = [q EXCEPT !.sup = Tail(@)]
    /\ UNCHANGED <<d, cli, used>>

\* [agend-daemon/src/supervisor.rs:1301-1336] run: Exec ends the loop.
Execs ==
    /\ d.up = "up" /\ q.sup # <<>> /\ Head(q.sup) = "exec"
    /\ d' = [d EXCEPT !.up = "leaving", !.exec = TRUE]
    /\ UNCHANGED <<c, q, db, cli, did, used>>

Signal ==
    /\ d.up = "up" /\ used.signals < MaxSignals
    /\ used' = [used EXCEPT !.signals = @ + 1]
    /\ d' = [d EXCEPT !.up = "leaving"]
    /\ UNCHANGED <<c, q, db, cli, did>>

\* [agend-daemon/src/daemon.rs:460-473] serve: drop(queue) releases everybody who waits for the supervisor.
DropQueue ==
    /\ d.up = "leaving" /\ q.sup # <<>>
    /\ q' = [q EXCEPT !.sup = <<>>]
    /\ c' = [p \in Procs |-> IF c[p].busy = "queued" /\ p \in ToSet(q.sup) THEN Told(p, "stopping") ELSE c[p]]
    /\ UNCHANGED <<d, db, cli, did, used>>

\* [agend-daemon/src/pipeline.rs:62-97] Handle: the reply of the engine, or that it stopped
PipelineWorks ==
    /\ d.up \in {"up", "leaving", "closed"} /\ q.pipe # <<>>
    /\ LET p == Head(q.pipe)
           can == Req(p) = "done" => db.open
       IN  /\ db' = [db EXCEPT !.open = @ /\ Req(p) # "done"]
           /\ did' = [did EXCEPT ![p] = IF can /\ Changes(Req(p)) THEN @ + 1 ELSE @]
           /\ c' = [c EXCEPT ![p] = IF @.busy = "queued" THEN Told(p, IF can THEN "ok" ELSE "refused") ELSE @]
    /\ q' = [q EXCEPT !.pipe = Tail(@)]
    /\ UNCHANGED <<d, cli, used>>

\* Mutant: only connections with nothing to do are closed.
ShutIdle(p) == IF c[p].at = "gone" THEN Off
               ELSE IF c[p].at \in {"hello", "on"} /\ c[p].busy = "no"
               THEN [c[p] EXCEPT !.at = "shut", !.inn = "none"] ELSE c[p]

\* [agend-daemon/src/server.rs:527-533] ConnectionGuard: an aborted task drops its socket.
Shut(p) == IF c[p].at = "gone" THEN Off
           ELSE IF c[p].at \in {"hello", "on"} THEN [c[p] EXCEPT !.at = "shut", !.inn = "none", !.busy = "no"] ELSE c[p]

\* [agend-daemon/src/server.rs:149-198] accept_loop: the listener goes, then the connection tasks are aborted.
StopServer ==
    /\ d.up = "leaving" /\ q.sup = <<>>
    /\ d' = [d EXCEPT !.up = "closed"]
    /\ c' = [p \in Procs |-> Shut(p)]
    /\ UNCHANGED <<q, db, cli, did, used>>

\* [agend-daemon/src/daemon.rs:474-489] serve: then the pipeline.
Leaves ==
    /\ d.up = "closed"
    /\ d' = [d EXCEPT !.up = "down"]
    /\ q' = [sup |-> <<>>, pipe |-> <<>>]
    /\ UNCHANGED <<c, db, cli, did, used>>

Crash ==
    /\ d.up # "down" /\ used.crashes < MaxCrashes
    /\ used' = [used EXCEPT !.crashes = @ + 1]
    /\ d' = [d EXCEPT !.up = "down", !.exec = FALSE]
    /\ c' = [p \in Procs |-> Shut(p)]
    /\ q' = [sup |-> <<>>, pipe |-> <<>>]
    /\ UNCHANGED <<db, cli, did>>

\* [external] exec of the checked binary, or a daemon that somebody starts again
Boot ==
    /\ d.up = "down" /\ d.boot < MaxBoot
    /\ d' = [up |-> "up", boot |-> d.boot + 1, ver |-> IF d.exec THEN 2 ELSE d.ver, pre |-> "no", exec |-> FALSE]
    /\ UNCHANGED <<c, q, db, cli, did, used>>

Init ==
    /\ \E v \in FirstVersions : d = [up |-> "up", boot |-> 1, ver |-> v, pre |-> "no", exec |-> FALSE]
    /\ c = [p \in Procs |-> Off] /\ q = [sup |-> <<>>, pipe |-> <<>>]
    /\ db = [there |-> TRUE, msgs |-> {}, open |-> TRUE]
    /\ cli \in [Procs -> {[kind |-> k, size |-> s, step |-> 1, pc |-> "connect", result |-> "none", tries |-> 0,
                           wrote |-> FALSE, old |-> 0, seen |-> 0] : k \in Kinds, s \in Sizes}]
    /\ \A p \in Procs :
        /\ cli[p].size # "small" => cli[p].kind \in {"apply", "once", "send"}
        /\ cli[p].kind = "fleet" => p \notin Agents
    /\ did = [p \in Procs |-> 0] /\ used = [signals |-> 0, crashes |-> 0, kills |-> 0]

Client(p) ==
    \/ Connect(p) \/ GiveUp(p) \/ Greeted(p) \/ HelloEnds(p) \/ Write(p) \/ WriteRest(p) \/ WriteFails(p)
    \/ ReadReply(p) \/ ReadRestarting(p) \/ Closed(p) \/ Ended(p)

Task(p) ==
    \/ Greet(p) \/ TooLong(p) \/ HangsUp(p) \/ Forbid(p) \/ Look(p) \/ Send(p) \/ Delivered(p) \/ Once(p)
    \/ ToPipeline(p) \/ ToSupervisor(p) \/ AskRestart(p) \/ PreflightPasses(p) \/ PreflightFails(p)

Daemon == SupervisorWorks \/ Execs \/ Signal \/ DropQueue \/ PipelineWorks \/ StopServer \/ Leaves \/ Boot

Next == Daemon \/ Crash \/ \E p \in Procs : Client(p) \/ Task(p) \/ TimesOut(p) \/ Killed(p)

Spec == Init /\ [][Next]_vars


--------------------------------------------------------------------------------
(* Properties. *)

\* A connection has one request at a time, and the queues hold only who waits.
TypeOK ==
    /\ d.boot <= MaxBoot
    /\ \A p \in Procs :
        /\ Len(c[p].out) <= 1 /\ (c[p].out # <<>> => c[p].busy = "no")
        /\ c[p].busy # "no" => c[p].at \in {"on", "gone"} /\ c[p].inn = "none"
        /\ c[p].at = "off" => cli[p].pc \in {"connect", "done"}
        /\ cli[p].pc = "done" <=> cli[p].result # "none"
    /\ \A k \in DOMAIN q.sup : q.sup[k] # "exec" => c[q.sup[k]].busy = "queued"

\* However often a command is written again, what it asks for is done at most once.
AppliedOnce == \A p \in Procs : did[p] <= 1

\* What a command exits with is what happened: accepted is done, refused or never reached is not
\* (a message sent again to an instance removed meanwhile is refused though the first was kept).
ExitIsTrue ==
    \A p \in Procs : Changes(cli[p].kind) /\ (cli[p].kind = "restart" => cli[p].step = 1) =>
        /\ cli[p].result = "ok" => did[p] = 1
        /\ cli[p].result \in {"refused", "stopping", "version", "notsent"} =>
               did[p] = 0 \/ (cli[p].kind = "send" /\ cli[p].tries = 2)
        /\ cli[p].result = "unreachable" /\ ~Safe(cli[p].kind) => did[p] = 0

\* A one-shot exchange writes on one connection only, and what was not written to its end does nothing.
NeverReplayed ==
    \A p \in Procs :
        /\ cli[p].kind = "once" => cli[p].tries <= 1
        /\ did[p] > 0 => cli[p].wrote

\* A restart can always be asked for: who took the flag is still at its preflight, or the daemon goes.
RestartIsFree ==
    d.up = "up" /\ d.pre # "no" => c[d.pre].busy = "preflight" \/ "exec" \in ToSet(q.sup)

\* A restart that reports the daemon back talks to another boot than the one it asked.
BackIsNew ==
    \A p \in Procs : cli[p].kind = "restart" /\ cli[p].result = "ok" => cli[p].seen > cli[p].old /\ did[p] = 1

================================================================================
