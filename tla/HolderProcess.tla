--------------------------- MODULE HolderProcess ---------------------------
(***************************************************************************)
(* The holder processes of one instance and the daemon's runtime that      *)
(* starts, attaches to and stops them. A holder is its flock, the pid in   *)
(* the lock file and its socket, taken and given back in a fixed order; it *)
(* may be killed between any two of those steps and it may start so late   *)
(* that the launch that asked for it has given up. The runtime keeps one   *)
(* link thread per generation, which reconnects while the lock is held and *)
(* reports the holder gone once it is free; the connection of a holder is  *)
(* taken over by whoever connects last. A managed launch carries a binding *)
(* (a UUID) that the link and the managed stop verify on the connection    *)
(* they go on to use.                                                      *)
(*                                                                         *)
(* A probe of the lock (lock_holder) looks at the lock, then reads the pid *)
(* and asks whether that process exists; it is one step here, which        *)
(* PidTellsTruth justifies: a live pid in the file is the lock's owner at  *)
(* the moment it is read. Pids are not reused.                             *)
(***************************************************************************)
EXTENDS Naturals

CONSTANTS
    Holders,      \* the pids of the holder processes, positive
    Gens,         \* how many links may be opened
    Bindings,     \* how many managed launches may be reserved
    MaxKills,     \* how many holders may be killed
    MaxPeeks      \* how many short connections handlers may make

HolderBounds ==
    /\ Holders \subseteq Nat \ {0}
    /\ {Gens, Bindings, MaxKills, MaxPeeks} \subseteq Nat

VARIABLES
    hs,        \* [Holders -> phase of the process]
    lock,      \* the holder that has the flock, or 0
    pidfile,   \* the pid the lock file shows, or 0
    sock,      \* the holder whose socket the path names, or 0
    agent,     \* [Holders -> 0: nothing spawned, Plain, or the binding]
    ended,     \* holders whose agent has exited
    shut,      \* holders that were sent Shutdown
    peer,      \* [Holders -> the client of its one connection, or 0]
    conn,      \* [Clients -> the holder it is connected to, or 0]
    link,      \* [links -> phase of the link's thread]
    proof,     \* [links -> the binding to verify, or 0]
    told,      \* links whose connection carries an Exited not yet read
    early,     \* links that keep an early exit back until the binding is verified
    stopping,  \* links that are being closed
    table,     \* the link in the runtime's table, or 0
    op,        \* the call of the runtime that is under way
    peek,      \* a handler that saw no link and is about to connect
    reserved,  \* how many bindings were handed out
    kills, peeks,
    reported   \* ghost: what the links reported, with the holder it is about

holderVars == <<hs, lock, pidfile, sock, agent, ended, shut>>
linkVars == <<link, proof, told, early, stopping>>
vars == <<holderVars, peer, conn, linkVars, table, op, peek, reserved, kills, peeks, reported>>

Links == 1..Gens
Plain == Bindings + 1
OpConn == Gens + 1      \* the connection of a stop
Clients == 1..(Gens + 2)

Idle == [k |-> "none", b |-> 0, h |-> 0, g |-> 0, pc |-> "idle"]

TypeOK ==
    /\ hs \in [Holders -> {"none", "try", "locked", "pid", "clean", "serve",
                           "unlinked", "cleared", "gone"}]
    /\ {lock, pidfile, sock} \subseteq Holders \union {0}
    /\ agent \in [Holders -> 0..Plain]
    /\ ended \subseteq Holders /\ shut \subseteq Holders
    /\ peer \in [Holders -> Clients \union {0}]
    /\ conn \in [Clients -> Holders \union {0}]
    /\ link \in [Links -> {"none", "connect", "spawn", "verify", "read", "pause",
                           "again", "gone", "refused", "ended"}]
    /\ proof \in [Links -> 0..Bindings]
    /\ told \subseteq Links /\ early \subseteq Links /\ stopping \subseteq Links
    /\ table \in Links \union {0}
    /\ peek \in BOOLEAN

Init ==
    /\ hs = [h \in Holders |-> "none"] /\ lock = 0 /\ pidfile = 0 /\ sock = 0
    /\ agent = [h \in Holders |-> 0] /\ ended = {} /\ shut = {}
    /\ peer = [h \in Holders |-> 0] /\ conn = [c \in Clients |-> 0]
    /\ link = [g \in Links |-> "none"] /\ proof = [g \in Links |-> 0]
    /\ told = {} /\ early = {} /\ stopping = {}
    /\ table = 0 /\ op = Idle /\ peek = FALSE
    /\ reserved = 0 /\ kills = 0 /\ peeks = 0 /\ reported = {}

-----------------------------------------------------------------------------
(* The holder process                                                      *)

Live(h) == hs[h] \notin {"none", "gone"}

\* [agend-holder/src/lib.rs:154-181] take_lock: the exclusive flock, retried for 500 ms
TakeLock(h) ==
    /\ hs[h] = "try" /\ lock = 0
    /\ lock' = h /\ hs' = [hs EXCEPT ![h] = "locked"]
    /\ UNCHANGED <<pidfile, sock, agent, ended, shut, peer, conn, linkVars, table, op, peek, reserved, kills, peeks, reported>>

\* [agend-holder/src/lib.rs:65-90] start: the id, the socket's length, or a home that is gone by now
SetupFails(h) ==
    /\ hs[h] = "try" /\ hs' = [hs EXCEPT ![h] = "gone"]
    /\ UNCHANGED <<lock, pidfile, sock, agent, ended, shut, peer, conn, linkVars, table, op, peek, reserved, kills, peeks, reported>>

\* [agend-holder/src/lib.rs:92-99] start: another holder has the lock, exit 1
Refused(h) ==
    /\ hs[h] = "try" /\ lock # 0
    /\ hs' = [hs EXCEPT ![h] = "gone"]
    /\ UNCHANGED <<lock, pidfile, sock, agent, ended, shut, peer, conn, linkVars, table, op, peek, reserved, kills, peeks, reported>>

\* [agend-holder/src/lib.rs:100-111] start: one fixed-width write of the pid over the old record
WritePid(h) ==
    /\ hs[h] = "locked"
    /\ pidfile' = h /\ hs' = [hs EXCEPT ![h] = "pid"]
    /\ UNCHANGED <<lock, sock, agent, ended, shut, peer, conn, linkVars, table, op, peek, reserved, kills, peeks, reported>>

\* [agend-holder/src/lib.rs:112-119] start: detach, then the old socket goes
RemoveOld(h) ==
    /\ hs[h] = "pid"
    /\ sock' = 0 /\ hs' = [hs EXCEPT ![h] = "clean"]
    /\ UNCHANGED <<lock, pidfile, agent, ended, shut, peer, conn, linkVars, table, op, peek, reserved, kills, peeks, reported>>

\* [agend-holder/src/lib.rs:120-132] start: bind, then serve
Bind(h) ==
    /\ hs[h] = "clean"
    /\ sock' = h /\ hs' = [hs EXCEPT ![h] = "serve"]
    /\ UNCHANGED <<lock, pidfile, agent, ended, shut, peer, conn, linkVars, table, op, peek, reserved, kills, peeks, reported>>

\* [agend-holder/src/lib.rs:133-134] start: serve returned (Shutdown or idle), the socket goes
StopServing(h) ==
    /\ hs[h] = "serve" /\ (h \in shut \/ (peer[h] = 0 /\ (agent[h] = 0 \/ h \in ended)))
    /\ hs' = [hs EXCEPT ![h] = "unlinked"] /\ sock' = 0
    /\ peer' = [peer EXCEPT ![h] = 0]
    /\ UNCHANGED <<lock, pidfile, agent, ended, shut, conn, linkVars, table, op, peek, reserved, kills, peeks, reported>>

\* Mutant: the lock goes first and the pid is cleared after it.
ClearPidLast(h) ==
    /\ hs[h] = "unlinked"
    /\ lock' = 0 /\ hs' = [hs EXCEPT ![h] = "cleared"]
    /\ UNCHANGED <<pidfile, sock, agent, ended, shut, peer, conn, linkVars, table, op, peek, reserved, kills, peeks, reported>>

\* [agend-holder/src/lib.rs:135-137] start: the pid is cleared while the lock is still held
ClearPid(h) ==
    /\ hs[h] = "unlinked"
    /\ pidfile' = 0 /\ hs' = [hs EXCEPT ![h] = "cleared"]
    /\ UNCHANGED <<lock, sock, agent, ended, shut, peer, conn, linkVars, table, op, peek, reserved, kills, peeks, reported>>

\* [agend-holder/src/lib.rs:138-139] start: the lock is dropped, exit 0
Release(h) ==
    /\ hs[h] = "cleared"
    /\ lock' = (IF lock = h THEN 0 ELSE lock) /\ hs' = [hs EXCEPT ![h] = "gone"]
    /\ UNCHANGED <<pidfile, sock, agent, ended, shut, peer, conn, linkVars, table, op, peek, reserved, kills, peeks, reported>>

\* [external] the operating system: a killed process loses its lock; its files stay
Killed(h) ==
    /\ Live(h) /\ kills < MaxKills /\ kills' = kills + 1
    /\ hs' = [hs EXCEPT ![h] = "gone"]
    /\ lock' = IF lock = h THEN 0 ELSE lock
    /\ peer' = [peer EXCEPT ![h] = 0]
    /\ UNCHANGED <<pidfile, sock, agent, ended, shut, conn, linkVars, table, op, peek, reserved, peeks, reported>>

\* [agend-holder/src/server.rs:745-771] the agent ends; the client of the moment is told
AgentEnds(h) ==
    /\ hs[h] = "serve" /\ agent[h] # 0 /\ h \notin ended
    /\ ended' = ended \union {h}
    /\ told' = told \union ({peer[h]} \intersect Links)
    /\ UNCHANGED <<hs, lock, pidfile, sock, agent, shut, peer, conn, link, proof, early, stopping, table, op, peek, reserved, kills, peeks, reported>>

HolderStep(h) ==
    \/ TakeLock(h) \/ Refused(h) \/ WritePid(h) \/ RemoveOld(h) \/ Bind(h)
    \/ StopServing(h) \/ ClearPid(h) \/ Release(h)

-----------------------------------------------------------------------------
(* Probes and connections                                                  *)

\* [agend-holder/src/paths.rs:118-150] lock_holder, of the holder's own crate
Probe ==
    IF lock = 0 THEN "free"
    ELSE IF pidfile # 0 /\ Live(pidfile) THEN "running" ELSE "unclear"

\* [agend-daemon/src/runtime/files.rs:44-73] lock_holder: None, Some(pid), or WouldBlock after 1 s
Running(h) == Probe = "running" /\ pidfile = h

\* [agend-daemon/src/runtime/client.rs:43-67] Conn::connect: someone listens and greets
Reachable(h) == sock = h /\ hs[h] = "serve"

\* The connection of client c still stands: the holder serves it and no other.
Connected(c) == conn[c] # 0 /\ hs[conn[c]] = "serve" /\ peer[conn[c]] = c

\* [agend-holder/src/server.rs:407-500] connection: hello, then the newest client takes the connection over
Accept(c, h) ==
    /\ conn' = [conn EXCEPT ![c] = h]
    /\ peer' = [peer EXCEPT ![h] = c]

\* Client c drops its end.
HangUp(c) ==
    /\ conn' = [conn EXCEPT ![c] = 0]
    /\ peer' = IF Connected(c) THEN [peer EXCEPT ![conn[c]] = 0] ELSE peer

-----------------------------------------------------------------------------
(* The link thread                                                         *)

\* [agend-daemon/src/runtime/link.rs:599-609] Worker::exited: reported unless the link is closing
ReportExit(g) ==
    reported' = IF g \in stopping THEN reported
                ELSE reported \union {[g |-> g, what |-> "exited", h |-> conn[g]]}

\* [agend-daemon/src/runtime/link.rs:418-443] run: the first connection, retried for 5 s
FirstConnect(g) ==
    /\ link[g] = "connect"
    /\ \E h \in Holders :
        /\ Reachable(h) /\ Accept(g, h)
        /\ told' = IF h \in ended THEN told \union {g} ELSE told
    /\ link' = [link EXCEPT ![g] = IF op.k = "attachR" THEN "verify" ELSE "spawn"]
    /\ UNCHANGED <<holderVars, proof, early, stopping, table, op, peek, reserved, kills, peeks, reported>>

\* [agend-daemon/src/runtime/link.rs:424-431] run: no connection within 5 s
FirstTimeout(g) ==
    /\ link[g] = "connect" /\ ~\E h \in Holders : Reachable(h)
    /\ link' = [link EXCEPT ![g] = "refused"]
    /\ UNCHANGED <<holderVars, peer, conn, proof, told, early, stopping, table, op, peek, reserved, kills, peeks, reported>>

\* [agend-daemon/src/runtime/link.rs:509-560] Worker::spawn: Spawn or SpawnBound, and its answer
Spawn(g) ==
    LET h == conn[g] IN
    /\ link[g] = "spawn"
    /\ IF ~Connected(g) \/ (agent[h] # 0 /\ proof[g] # 0)
       THEN \* no reply, or already_spawned to a managed launch
            /\ link' = [link EXCEPT ![g] = "refused"] /\ HangUp(g)
            /\ UNCHANGED <<agent, early, told, reported>>
       ELSE /\ agent' = [agent EXCEPT ![h] = IF @ # 0 THEN @ ELSE IF proof[g] # 0 THEN proof[g] ELSE Plain]
            /\ link' = [link EXCEPT ![g] = IF proof[g] # 0 THEN "verify" ELSE "read"]
            /\ IF g \notin told THEN UNCHANGED <<early, told, reported>>
               ELSE /\ told' = told \ {g}
                    /\ IF proof[g] # 0 THEN early' = early \union {g} /\ UNCHANGED reported
                       ELSE ReportExit(g) /\ UNCHANGED early
            /\ UNCHANGED <<conn, peer>>
    /\ UNCHANGED <<hs, lock, pidfile, sock, ended, shut, proof, stopping, table, op, peek, reserved, kills, peeks>>

\* [agend-daemon/src/runtime/link.rs:572-597] verify_binding: the id, the binding and a pid
BindingMatches(g) == Connected(g) /\ agent[conn[g]] = proof[g]

\* An early exit is reported once the binding is verified.
\* [agend-daemon/src/runtime/link.rs:444-507] run: verified and published, or the open fails
Verify(g) ==
    /\ link[g] = "verify"
    /\ IF BindingMatches(g)
       THEN /\ link' = [link EXCEPT ![g] = "read"]
            /\ early' = early \ {g}
            /\ IF g \in early THEN ReportExit(g) ELSE UNCHANGED reported
            /\ UNCHANGED <<peer, conn>>
       ELSE /\ link' = [link EXCEPT ![g] = "refused"] /\ HangUp(g)
            /\ UNCHANGED <<early, reported>>
    /\ UNCHANGED <<holderVars, proof, told, stopping, table, op, peek, reserved, kills, peeks>>

\* [agend-daemon/src/runtime/link.rs:611-646] read_until_closed: Exited
ReadExited(g) ==
    /\ link[g] = "read" /\ g \in told
    /\ told' = told \ {g} /\ ReportExit(g)
    /\ UNCHANGED <<holderVars, peer, conn, link, proof, early, stopping, table, op, peek, reserved, kills, peeks>>

\* [agend-daemon/src/runtime/link.rs:494-504] run: the connection ended, its waiters are dropped
ConnectionEnds(g) ==
    /\ link[g] = "read" /\ ~Connected(g)
    /\ link' = [link EXCEPT ![g] = "pause"]
    /\ told' = told \ {g}
    /\ UNCHANGED <<holderVars, peer, conn, proof, early, stopping, table, op, peek, reserved, kills, peeks, reported>>

\* [agend-daemon/src/runtime/link.rs:396-401] Worker::pause: woken by close
PauseStopped(g) ==
    /\ link[g] = "pause" /\ g \in stopping
    /\ link' = [link EXCEPT ![g] = "ended"]
    /\ UNCHANGED <<holderVars, peer, conn, proof, told, early, stopping, table, op, peek, reserved, kills, peeks, reported>>

\* [agend-daemon/src/runtime/link.rs:650-657] reconnect: the lock is free
SeesGone(g) ==
    /\ link[g] = "pause" /\ g \notin stopping /\ Probe = "free"
    /\ link' = [link EXCEPT ![g] = "gone"]
    /\ UNCHANGED <<holderVars, peer, conn, proof, told, early, stopping, table, op, peek, reserved, kills, peeks, reported>>

\* [agend-daemon/src/runtime/link.rs:657-664] reconnect: HolderGone, unless closing by now
ReportGone(g) ==
    /\ link[g] = "gone"
    /\ reported' = IF g \in stopping THEN reported
                   ELSE reported \union {[g |-> g, what |-> "gone", h |-> conn[g]]}
    /\ link' = [link EXCEPT ![g] = "ended"]
    /\ UNCHANGED <<holderVars, peer, conn, proof, told, early, stopping, table, op, peek, reserved, kills, peeks>>

\* [agend-daemon/src/runtime/link.rs:665-666] reconnect: a new connection
Reconnect(g) ==
    /\ link[g] = "pause" /\ g \notin stopping
    /\ \E h \in Holders :
        /\ Reachable(h) /\ Accept(g, h)
        /\ told' = IF h \in ended THEN told \union {g} ELSE told
    /\ link' = [link EXCEPT ![g] = "again"]
    /\ UNCHANGED <<holderVars, proof, early, stopping, table, op, peek, reserved, kills, peeks, reported>>

\* [agend-daemon/src/runtime/link.rs:562-570] reject_binding, unless the link is closing
Reject(g) ==
    reported' = IF g \in stopping THEN reported
                ELSE reported \union {[g |-> g, what |-> "rejected", h |-> conn[g]]}

\* [agend-daemon/src/runtime/link.rs:666-677] reconnect: a managed link verifies, then publishes
Readopt(g) ==
    /\ link[g] = "again"
    /\ CASE proof[g] # 0 /\ (g \in stopping \/ ~BindingMatches(g)) ->
              /\ link' = [link EXCEPT ![g] = "ended"] /\ Reject(g) /\ HangUp(g)
         [] proof[g] = 0 /\ g \in stopping ->
              link' = [link EXCEPT ![g] = "ended"] /\ HangUp(g) /\ UNCHANGED reported
         [] OTHER -> link' = [link EXCEPT ![g] = "read"] /\ UNCHANGED <<reported, conn, peer>>
    /\ UNCHANGED <<holderVars, proof, told, early, stopping, table, op, peek, reserved, kills, peeks>>

LinkStep(g) ==
    \/ FirstConnect(g) \/ FirstTimeout(g) \/ Spawn(g) \/ Verify(g) \/ ReadExited(g)
    \/ ConnectionEnds(g) \/ PauseStopped(g) \/ SeesGone(g) \/ ReportGone(g)
    \/ Reconnect(g) \/ Readopt(g)

-----------------------------------------------------------------------------
(* Calls of the runtime, one at a time for an instance                     *)

Call(k, b, h) == op' = [k |-> k, b |-> b, h |-> h, g |-> 0, pc |-> "close"]
NextOp(pc) == op' = [op EXCEPT !.pc = pc]
Done == op' = Idle
NewLinks == {g \in Links : link[g] = "none"}

\* [agend-daemon/src/runtime.rs:545-612] Inner::start: refused while a holder runs, else a child
Start(h, managed) ==
    /\ op = Idle /\ hs[h] = "none" /\ NewLinks # {} /\ Probe # "running"
    /\ (managed => reserved < Bindings)
    /\ hs' = [hs EXCEPT ![h] = "try"]
    /\ reserved' = IF managed THEN reserved + 1 ELSE reserved
    /\ Call("start", IF managed THEN reserved + 1 ELSE 0, h)
    /\ UNCHANGED <<lock, pidfile, sock, agent, ended, shut, peer, conn, linkVars, table, peek, kills, peeks, reported>>

\* [agend-daemon/src/runtime.rs:259-276] attach: Spawn is sent again
AttachAgain ==
    /\ op = Idle /\ NewLinks # {} /\ Probe = "running"
    /\ Call("attach", 0, pidfile)
    /\ UNCHANGED <<holderVars, peer, conn, linkVars, table, peek, reserved, kills, peeks, reported>>

\* [agend-daemon/src/runtime.rs:303-327] attach_reserved: the persisted binding is only queried
AttachReserved(b) ==
    /\ op = Idle /\ NewLinks # {} /\ Probe = "running" /\ b \in 1..reserved
    /\ Call("attachR", b, pidfile)
    /\ UNCHANGED <<holderVars, peer, conn, linkVars, table, peek, reserved, kills, peeks, reported>>

\* [agend-daemon/src/runtime.rs:657-663] Inner::stop
Stop ==
    /\ op = Idle /\ Call("stop", 0, 0)
    /\ UNCHANGED <<holderVars, peer, conn, linkVars, table, peek, reserved, kills, peeks, reported>>

\* [agend-daemon/src/runtime.rs:398-421] stop_reserved: of the persisted launch and the pids noted with it
StopReserved(b, h) ==
    /\ op = Idle /\ b \in 1..reserved /\ hs[h] # "none"
    /\ Probe = "free" \/ Running(h)
    /\ Call("stopR", b, h)
    /\ UNCHANGED <<holderVars, peer, conn, linkVars, table, peek, reserved, kills, peeks, reported>>

\* [agend-daemon/src/runtime.rs:490-496] detach
Detach ==
    /\ op = Idle /\ table # 0 /\ Call("detach", 0, 0)
    /\ UNCHANGED <<holderVars, peer, conn, linkVars, table, peek, reserved, kills, peeks, reported>>

\* [agend-daemon/src/runtime/link.rs:246-259] Link::stop: stopping is set, the stream shut down
CloseLink ==
    /\ op.pc = "close"
    /\ IF table = 0 THEN op' = [op EXCEPT !.pc = "closed"] /\ UNCHANGED <<stopping, table, peer>>
       ELSE /\ op' = [op EXCEPT !.pc = "join", !.g = table]
            /\ stopping' = stopping \union {table} /\ table' = 0
            /\ peer' = IF link[table] = "read" /\ Connected(table)
                       THEN [peer EXCEPT ![conn[table]] = 0] ELSE peer
    /\ UNCHANGED <<holderVars, conn, link, proof, told, early, peek, reserved, kills, peeks, reported>>

\* [agend-daemon/src/runtime/link.rs:254-259] Link::stop: the thread is joined
Joined ==
    /\ op.pc = "join" /\ link[op.g] \in {"ended", "refused"}
    /\ op' = [op EXCEPT !.pc = "closed", !.g = 0]
    /\ UNCHANGED <<holderVars, peer, conn, linkVars, table, peek, reserved, kills, peeks, reported>>

\* [agend-daemon/src/runtime/link.rs:322-392] open: a new generation's thread
OpenLink ==
    /\ op.pc = "closed" /\ op.k \in {"start", "attach", "attachR"}
    /\ \E g \in NewLinks :
        /\ \A f \in NewLinks : g <= f
        /\ link' = [link EXCEPT ![g] = "connect"]
        /\ proof' = [proof EXCEPT ![g] = op.b]
        /\ op' = [op EXCEPT !.pc = "first", !.g = g]
    /\ UNCHANGED <<holderVars, peer, conn, told, early, stopping, table, peek, reserved, kills, peeks, reported>>

\* [agend-daemon/src/runtime.rs:614-655] Inner::attach: the first connection's result, and the table
FirstResult ==
    /\ op.pc = "first" /\ link[op.g] \notin {"connect", "spawn", "verify"}
    /\ table' = IF link[op.g] = "refused" THEN 0 ELSE op.g
    /\ Done
    /\ UNCHANGED <<holderVars, peer, conn, linkVars, peek, reserved, kills, peeks, reported>>

DetachDone ==
    /\ op.pc = "closed" /\ op.k = "detach" /\ Done
    /\ UNCHANGED <<holderVars, peer, conn, linkVars, table, peek, reserved, kills, peeks, reported>>

\* [agend-daemon/src/runtime.rs:684-701] shutdown_holder_within: nobody runs, or a connection
StopConnect ==
    /\ op.pc = "closed" /\ op.k = "stop"
    /\ \/ Probe # "running" /\ Done /\ UNCHANGED <<conn, peer>>
       \/ \E h \in Holders : Reachable(h) /\ Probe = "running" /\ Accept(OpConn, h) /\ NextOp("send")
       \/ Probe = "running" /\ ~(\E h \in Holders : Reachable(h)) /\ Done /\ UNCHANGED <<conn, peer>>
    /\ UNCHANGED <<holderVars, linkVars, table, peek, reserved, kills, peeks, reported>>

\* [agend-daemon/src/runtime/managed_stop.rs:15-21] check_holder
Same(h) == Running(h)

\* [agend-daemon/src/runtime/managed_stop.rs:23-33] stop: the same holder still runs, or nothing to do
StopRCheck ==
    /\ op.pc = "closed" /\ op.k = "stopR"
    /\ IF Same(op.h) THEN NextOp("connect") ELSE Done
    /\ UNCHANGED <<holderVars, peer, conn, linkVars, table, peek, reserved, kills, peeks, reported>>

\* [agend-daemon/src/runtime/managed_stop.rs:51-77] verified_connection: one connection, never retried
StopRConnect ==
    /\ op.pc = "connect"
    /\ \/ \E h \in Holders : Reachable(h) /\ Accept(OpConn, h) /\ NextOp("query")
       \/ ~(\E h \in Holders : Reachable(h)) /\ Done /\ UNCHANGED <<conn, peer>>
    /\ UNCHANGED <<holderVars, linkVars, table, peek, reserved, kills, peeks, reported>>

\* [agend-daemon/src/runtime/managed_stop.rs:77-103] verified_connection: the launch's identity
StopRQuery ==
    /\ op.pc = "query"
    /\ IF Connected(OpConn) /\ agent[conn[OpConn]] = op.b
       THEN NextOp("check") /\ UNCHANGED <<conn, peer>>
       ELSE Done /\ HangUp(OpConn)
    /\ UNCHANGED <<holderVars, linkVars, table, peek, reserved, kills, peeks, reported>>

\* [agend-daemon/src/runtime/managed_stop.rs:34-36] stop: checked again before Shutdown
StopRRecheck ==
    /\ op.pc = "check"
    /\ IF Same(op.h) THEN NextOp("send") /\ UNCHANGED <<conn, peer>> ELSE Done /\ HangUp(OpConn)
    /\ UNCHANGED <<holderVars, linkVars, table, peek, reserved, kills, peeks, reported>>

\* [agend-daemon/src/runtime/managed_stop.rs:37-38] stop: Shutdown on the verified connection
StopSend ==
    /\ op.pc = "send"
    /\ IF Connected(OpConn)
       THEN shut' = shut \union {conn[OpConn]} /\ NextOp("wait") /\ UNCHANGED <<conn, peer>>
       ELSE Done /\ HangUp(OpConn) /\ UNCHANGED shut
    /\ UNCHANGED <<hs, lock, pidfile, sock, agent, ended, linkVars, table, peek, reserved, kills, peeks, reported>>

\* [agend-daemon/src/runtime/managed_stop.rs:39-48] stop: until it is gone, replaced, or 10 s have passed
StopWait ==
    /\ op.pc = "wait" /\ Done /\ HangUp(OpConn)
    /\ UNCHANGED <<holderVars, linkVars, table, peek, reserved, kills, peeks, reported>>

OpStep ==
    \/ CloseLink \/ Joined \/ OpenLink \/ FirstResult \/ DetachDone \/ StopConnect
    \/ StopRCheck \/ StopRConnect \/ StopRQuery \/ StopRRecheck \/ StopSend \/ StopWait

\* [agend-daemon/src/runtime.rs:468-481] last_screen: no link is known and a holder runs
PeekLooks ==
    /\ ~peek /\ peeks < MaxPeeks /\ table = 0 /\ Probe = "running"
    /\ peek' = TRUE /\ peeks' = peeks + 1
    /\ UNCHANGED <<holderVars, peer, conn, linkVars, table, op, reserved, kills, reported>>

\* [agend-daemon/src/runtime.rs:482-487] last_screen: it connects, reads the screen and leaves
PeekConnects ==
    /\ peek /\ peek' = FALSE
    /\ peer' = [h \in Holders |-> IF Reachable(h) THEN 0 ELSE peer[h]]
    /\ UNCHANGED <<holderVars, conn, linkVars, table, op, reserved, kills, peeks, reported>>

Next ==
    \/ \E h \in Holders : HolderStep(h) \/ SetupFails(h) \/ Killed(h) \/ AgentEnds(h)
    \/ \E g \in Links : LinkStep(g)
    \/ \E h \in Holders, m \in BOOLEAN : Start(h, m)
    \/ AttachAgain
    \/ \E b \in 1..Bindings : AttachReserved(b)
    \/ Stop \/ Detach
    \/ \E b \in 1..Bindings, h \in Holders : StopReserved(b, h)
    \/ OpStep \/ PeekLooks \/ PeekConnects

Spec == Init /\ [][Next]_vars

-----------------------------------------------------------------------------
(* Properties                                                              *)

\* A live pid in the lock file is the pid of the process that has the lock: a probe (lock_holder)
\* never takes an old or a refused holder for the running one.
PidTellsTruth == pidfile # 0 /\ Live(pidfile) => lock = pidfile

\* A serving holder can be found: its socket and pid are never removed by a holder that starts late,
\* is refused, or stops (start takes the lock "before anything else is touched").
ServingIsFound == \A h \in Holders : hs[h] = "serve" => lock = h /\ sock = h /\ pidfile = h

\* HolderGone is true: the holder the link was last connected to has given its lock back.
GoneIsTrue == \A r \in reported : r.what = "gone" => lock # r.h /\ hs[r.h] \in {"cleared", "gone"}

\* A managed link works for its own launch, and every exit it reports is of the agent it launched,
\* whoever owned the socket when it reconnected.
ManagedIsOwn ==
    /\ \A g \in Links : link[g] = "read" /\ proof[g] # 0 /\ conn[g] # 0 => agent[conn[g]] = proof[g]
    /\ \A r \in reported : r.what = "exited" /\ proof[r.g] # 0 => agent[r.h] = proof[r.g]

\* A managed stop shuts down only the holder of the launch it was given: a replacement that bound
\* the socket in the meantime is preserved.
StopIsExact ==
    \A h \in shut' \ shut : op.k = "stopR" => h = op.h /\ agent[h] = op.b

=============================================================================
