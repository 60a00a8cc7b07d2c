---------------------------- MODULE ClientContract ----------------------------
(***************************************************************************)
(* The client protocol contract (agend-testkit: contract/client.rs), which *)
(* the fake daemon and the real one both have to pass.  The cases of the   *)
(* test suite start from a new daemon; here each is asked of every state   *)
(* that the fake daemon can be in, whatever its other clients did.  A case *)
(* is a chain of requests and of what the fixture makes happen.            *)
(***************************************************************************)
EXTENDS FakeDaemon

LOCAL INSTANCE SequencesExt

CONSTANTS First, Peer, Stopped, New   \* the fixture's instances, and a name that none has

ContractAssumption == {First, Peer, Stopped, New} \subseteq Names /\ Cardinality(Conns) >= 2

C1 == CHOOSE c \in Conns : TRUE
C2 == CHOOSE c \in Conns : c # C1

\* [agend-testkit/src/contract/client.rs:1537-1560] FakeDaemonFixture::boot: on connections of its own.
Fixture(t) ==
    LET idle == [t EXCEPT !.sub = [c \in Conns |-> NoSub], !.term = [c \in Conns |-> <<>>], !.hold = FALSE,
                          !.inst[New] = "none", !.msgs = <<>>, !.inputs = <<>>]
    IN  SetInstance(SetInstance(SetInstance(idle, First, "live"), Peer, "live"), Stopped, "failed")

\* [agend-testkit/src/contract/client.rs:1601-1606] restart: a new daemon at the same path
Restarted(t) == Fixture(Booted(t.base \div Bases + 1))

\* [agend-testkit/src/contract/client.rs:1583-1592] emit
Emitted(t) == Emit(t, Event("task", 0, "changed"))

\* [agend-testkit/src/contract/client.rs:1639-1644] make_output
Printed(t, chunk) == PushBytes(t, First, chunk)

\* [agend-testkit/src/contract/client.rs:222-257] send, until
Sent(t, c, caller, r) == Handle(t, c, caller, r).s
Answer(t, c, caller, r) == Handle(t, c, caller, r).out

\* [agend-testkit/src/contract/client.rs:342-353] next_error; error_code_of
CodeOf(t, c, caller, r) == LET out == Answer(t, c, caller, r) IN IF out = <<>> THEN "" ELSE out[1].code

\* [agend-testkit/src/contract/client.rs:268-304] collect, ids, consecutive
Ids(t, c) == [k \in DOMAIN t.sub[c].q |-> t.sub[c].q[k].id]
Consecutive(ids) == \A k \in 2..Len(ids) : ids[k] = ids[k - 1] + 1

\* [agend-testkit/src/contract/client.rs:306-328] get_fleet
GetFleet(t) == Answer(t, C1, Operator, [type |-> "fleet"])[1]
SameFleet(t, u) == ToSet(GetFleet(t).list) = ToSet(GetFleet(u).list) /\ GetFleet(t).at = GetFleet(u).at

\* [agend-testkit/src/contract/client.rs:330-340] subscribe
Follow(t, c, after) == Sent(t, c, Operator, [type |-> "subscribe", after |-> after])

\* [agend-testkit/src/contract/client.rs:371-399] resolve
ResolveOf(i, listed) == [type |-> "resolve", id |-> i, listed |-> listed]

\* [agend-testkit/src/contract/client.rs:892-944] command_request, operator_request, ask, add_command
OpRequest(o, n) == [type |-> "operator", command |-> o, name |-> n]
SendRequest(i, b) == [type |-> "command", command |-> "send", to |-> Peer, id |-> i, body |-> b]

\* [agend-testkit/src/contract/client.rs:1119-1133] inbox_of, message_ids
InboxOf(t, who, after) == Answer(t, C1, who, [type |-> "command", command |-> "inbox", after |-> after])[1]

\* [agend-testkit/src/contract/client.rs:1222-1290] subscribe_terminal, terminal_reply, screen_of, next_bytes
Watch(n) == [type |-> "terminal", name |-> n]
Type(n, over) == [type |-> "type", name |-> n, over |-> over]

--------------------------------------------------------------------------------
(* The event stream. *)

\* [agend-testkit/src/contract/client.rs:486-508] CLP-3
FleetThenEvents(t) ==
    LET asof == GetFleet(t).at IN Ids(Emitted(Follow(Emitted(t), C1, asof)), C1) = <<asof + 1, asof + 2>>

\* [agend-testkit/src/contract/client.rs:510-547] CLP-4
OldOrFutureIsAGap(t) ==
    LET old == Emitted(Emitted(t)).latest
        after == Emitted(Emitted(Emitted(Restarted(t))))
    IN  \A cursor \in {old, GetFleet(after).at + Bases} :
            /\ CodeOf(after, C1, Operator, [type |-> "subscribe", after |-> cursor]) = "event_gap"
            /\ Follow(after, C1, cursor).sub[C1] = NoSub

\* [agend-testkit/src/contract/client.rs:549-595] CLP-5
NoCursorReplays(t) ==
    LET u == Emitted(Emitted(t))
        ids == Ids(Follow(u, C1, -1), C1)
    IN  /\ ids # <<>> /\ Consecutive(ids) /\ Last(ids) >= GetFleet(u).at /\ ids[1] < GetFleet(u).at
        /\ Ids(Follow(u, C2, ids[1] - 1), C2) # <<>>
        /\ CodeOf(u, C2, Operator, [type |-> "subscribe", after |-> ids[1] - 2]) = "event_gap"

\* [agend-testkit/src/contract/client.rs:615-633] CLP-7
TwoGetTheSame(t) ==
    LET u == Emitted(Emitted(Follow(Follow(t, C1, t.latest), C2, t.latest)))
    IN  Len(u.sub[C1].q) >= 2 /\ u.sub[C1].q = u.sub[C2].q

\* The client reads everything that is there.
ReadAll(t, c) == [t EXCEPT !.sub[c].q = <<>>]

\* [agend-testkit/src/contract/client.rs:637-732] CLP-8: one reads, one does not.
SlowClients(t) ==
    LET begun == Follow(Follow(t, C1, t.latest), C2, t.latest)
        Burst[n \in 0..(Retained + 1)] ==
            IF n = 0 THEN begun ELSE ReadAll(Emitted(Burst[n - 1]), C1)
        u == Burst[Retained + 1]
    IN  u.sub[C1].on /\ ~u.sub[C1].lagged /\ u.sub[C2].lagged /\ ~u.sub[C2].on

\* [agend-testkit/src/contract/client.rs:734-758] CLP-9
RestartIsNewer(t) == GetFleet(Restarted(t)).at > Emitted(t).latest

\* The events a client gets are what was emitted, without a hole it is not told of: CLP-3, 4, 5, 7, 8, 9.
StreamContract ==
    LET t == Fixture(s) IN
    /\ FleetThenEvents(t) /\ OldOrFutureIsAGap(t) /\ NoCursorReplays(t)
    /\ TwoGetTheSame(t) /\ SlowClients(t) /\ RestartIsNewer(t)

--------------------------------------------------------------------------------
(* What is refused changes nothing. *)

Unchanged(t, caller, r) == SameFleet(t, Sent(t, C1, caller, r)) /\ Sent(t, C1, caller, r).inputs = t.inputs

\* [agend-testkit/src/contract/client.rs:597-613] CLP-6
UnknownKeepsTheConnection(t) ==
    CodeOf(t, C1, Operator, [type |-> "future"]) = "unknown_request" /\ Unchanged(t, Operator, [type |-> "future"])

\* [agend-testkit/src/contract/client.rs:760-793] CLP-10
RefusedChangesNothing(t) ==
    LET ask == [type |-> "answer", id |-> t.ids + 1] IN
    /\ CodeOf(t, C1, Operator, Type(Nobody, FALSE)) = "no_terminal" /\ Unchanged(t, Operator, Type(Nobody, FALSE))
    /\ CodeOf(t, C1, Operator, ask) = "unknown_ask" /\ Unchanged(t, Operator, ask)

\* [agend-testkit/src/contract/client.rs:953-1003] CLP-13
PermissionsBothWays(t) ==
    /\ \A r \in {OpRequest("add", New), OpRequest("remove", Peer), OpRequest("cancel", New)} :
        CodeOf(t, C1, First, r) = "forbidden" /\ Unchanged(t, First, r)
    /\ CodeOf(t, C1, Operator, SendRequest(1, 1)) = "forbidden" /\ Unchanged(t, Operator, SendRequest(1, 1))

\* [agend-testkit/src/contract/client.rs:1096-1117] CLP-16
CancelChangesNothing(t) ==
    CodeOf(t, C1, Operator, OpRequest("cancel", New)) = "invalid_request" /\ Unchanged(t, Operator, OpRequest("cancel", New))

\* [agend-testkit/src/contract/client.rs:1353-1384] CLP-20
OnlyTheOperatorTypes(t) ==
    /\ \A n \in {First, Nobody} : CodeOf(t, C1, Peer, Type(n, FALSE)) = "forbidden" /\ Unchanged(t, Peer, Type(n, FALSE))
    /\ First \notin Codex => Sent(t, C1, Operator, Type(First, FALSE)).inputs = Append(t.inputs, First)

\* [agend-testkit/src/contract/client.rs:1386-1397] CLP-21
FailedTakesNothing(t) ==
    CodeOf(t, C1, Operator, Type(Stopped, FALSE)) = "no_terminal" /\ Unchanged(t, Operator, Type(Stopped, FALSE))

\* [agend-testkit/src/contract/client.rs:1424-1499] CLP-22
OverTheLimit(t) ==
    First \notin Codex =>
        /\ CodeOf(t, C1, Operator, Type(First, TRUE)) = "invalid_request" /\ Unchanged(t, Operator, Type(First, TRUE))
        /\ OnlyTheOperatorTypes(Sent(t, C1, Operator, Type(First, TRUE)))

\* A request that is refused is refused for the caller and the reason the contract names, and leaves the
\* fleet, the events and the terminals as they were: CLP-6, 10, 13, 16, 20, 21, 22.
RefusalContract ==
    LET t == Fixture(s) IN
    /\ UnknownKeepsTheConnection(t) /\ RefusedChangesNothing(t) /\ PermissionsBothWays(t) /\ CancelChangesNothing(t)
    /\ OnlyTheOperatorTypes(t) /\ FailedTakesNothing(t) /\ OverTheLimit(t)

--------------------------------------------------------------------------------
(* What is accepted happens once. *)

Listed(t, what) == what \in ToSet(GetFleet(t).list)

\* [agend-testkit/src/contract/client.rs:795-861] CLP-11
OnlyTheOperatorResolves(t) ==
    LET u == AddItem(t)
        subscribed == Follow(u, C1, u.latest)
        after == Sent(subscribed, C1, Operator, ResolveOf(0, TRUE))
    IN  /\ \A i \in {0, -1} : CodeOf(u, C1, First, ResolveOf(i, TRUE)) = "forbidden"
        /\ Listed(u, <<"item", 0>>)
        /\ \A r \in {ResolveOf(-1, TRUE), ResolveOf(0, FALSE)} : CodeOf(u, C1, Operator, r) = "unknown_attention"
        /\ CodeOf(subscribed, C1, Operator, ResolveOf(0, TRUE)) = "accepted"
        /\ Last(after.sub[C1].q).event = Event("item", 0, "resolved")
        /\ ~Listed(after, <<"item", 0>>)

\* [agend-testkit/src/contract/client.rs:1005-1068] CLP-14
AddsAndRemoves(t) ==
    LET added == Sent(t, C1, Operator, OpRequest("add", New))
        removed == Sent(added, C1, Operator, OpRequest("remove", New))
    IN  /\ CodeOf(t, C1, Operator, OpRequest("add", New)) = "added" /\ Listed(added, <<"instance", New>>)
        /\ CodeOf(added, C1, Operator, OpRequest("add", New)) = "instance_exists"
        /\ CodeOf(added, C1, Operator, OpRequest("add", Nobody)) = "invalid_request"
        /\ CodeOf(added, C1, Operator, OpRequest("remove", New)) = "accepted" /\ ~Listed(removed, <<"instance", New>>)
        /\ CodeOf(removed, C1, Operator, OpRequest("remove", New)) = "unknown_instance"

\* [agend-testkit/src/contract/client.rs:1135-1204] CLP-17
OneMessagePerId(t) ==
    LET sent == Sent(Sent(Sent(t, C1, First, SendRequest(1, 1)), C1, First, SendRequest(1, 1)), C1, First, SendRequest(2, 2))
    IN  /\ CodeOf(Sent(t, C1, First, SendRequest(1, 1)), C1, First, SendRequest(1, 1)) = "accepted"
        /\ \A r \in {SendRequest(1, 2), SendRequest(-1, 1), SendRequest(3, TooLong)} :
            CodeOf(sent, C1, First, r) = "invalid_request" /\ Sent(sent, C1, First, r) = sent
        /\ InboxOf(sent, Peer, 0).list = <<1, 2>> /\ InboxOf(sent, Peer, 1).list = <<2>>
        /\ InboxOf(sent, Peer, 3).code = "unknown_message" /\ InboxOf(sent, First, 1).code = "unknown_message"

\* An accepted request shows in the fleet view, its event and the inbox, and a repeated one does not do it
\* again: CLP-11, 14, 17.
EffectContract ==
    LET t == Fixture(s) IN OnlyTheOperatorResolves(t) /\ AddsAndRemoves(t) /\ OneMessagePerId(t)

--------------------------------------------------------------------------------
(* Terminals. *)

\* [agend-testkit/src/contract/client.rs:863-886] CLP-12
StartsWithTheScreen(t) ==
    LET out == Answer(t, C1, Operator, Watch(First))
    IN  Len(out) = 1 /\ out[1].what = "screen" /\ out[1].inst = First

\* [agend-testkit/src/contract/client.rs:1293-1313] CLP-18
AgainShowsNewOutput(t) ==
    LET first == Answer(t, C1, Operator, Watch(First))[1].list
        printed == Printed(Sent(t, C1, Operator, Watch(First)), 9)
        again == Answer(printed, C1, Operator, Watch(First))[1].list
    IN  Last(printed.term[C1]).q = <<9>> /\ again # first /\ Last(again) = 9

\* [agend-testkit/src/contract/client.rs:1315-1351] CLP-19
NoTerminalEndsTheOld(t) ==
    LET failed == Sent(Sent(t, C1, Operator, Watch(First)), C1, Operator, Watch(Nobody))
    IN  /\ CodeOf(Sent(t, C1, Operator, Watch(First)), C1, Operator, Watch(Nobody)) = "no_terminal"
        /\ \A k \in DOMAIN Printed(failed, 9).term[C1] : Printed(failed, 9).term[C1][k].q = <<>>

\* A subscription begins with the screen, the next one with what was printed since, and one that fails ends
\* the old one: CLP-12, 18, 19.
TerminalContract ==
    LET t == Fixture(s) IN StartsWithTheScreen(t) /\ AgainShowsNewOutput(t) /\ NoTerminalEndsTheOld(t)

================================================================================
