------------------------------ MODULE FakeDaemon ------------------------------
(***************************************************************************)
(* The test kit's fake daemon (agend-testkit: fake_daemon.rs), the server  *)
(* that the client library, the command line and the TUI are tested        *)
(* against: one state under one lock, a thread per connection, a forwarder *)
(* thread per subscription, and a writer lock per connection that is held  *)
(* from a request's handling to its reply.  A handler is a function of the *)
(* state, as in the code, so that ClientContract can ask it questions.     *)
(***************************************************************************)
EXTENDS Integers, Sequences, FiniteSets

LOCAL INSTANCE SequencesExt

CONSTANTS
    Conns,      \* connections
    Names,      \* instance names
    Codex,      \* those whose backend is codex
    Retained,   \* events kept, and events a subscriber may fall behind
    Chunks,     \* terminal chunks a subscriber may fall behind
    Kinds,      \* the requests of this run
    Callers,    \* who connects
    MaxTerm,    \* terminal subscriptions of one connection
    MaxReq, MaxEvents, MaxOut, MaxBoot

FakeDaemonAssumption ==
    /\ Codex \subseteq Names /\ Retained \in Nat \ {0} /\ Chunks \in Nat \ {0}
    /\ {MaxTerm, MaxReq, MaxEvents, MaxOut, MaxBoot} \subseteq Nat

VARIABLES
    s,          \* the state under the lock
    conn,       \* connection -> its thread and its socket
    peer,       \* connection -> what its client makes of what it reads
    restarting, \* how far a daemon_restart is
    did         \* what the run has used of its bounds

vars == <<s, conn, peer, restarting, did>>

Operator == ""            \* the caller of an operator's connection
Nobody == "nobody"        \* an instance no server has
TooLong == 0              \* a body over the limit
NoOne == [up |-> "off", caller |-> Operator, pending |-> <<>>]
Blank == [boots |-> {}, asof |-> 0, next |-> 0, inOrder |-> TRUE, gap |-> FALSE, early |-> FALSE,
          inst |-> Nobody, text |-> <<>>, across |-> FALSE, terms |-> 0, view |-> {}]

Bases == 100              \* ids of one boot
NoSub == [on |-> FALSE, q |-> <<>>, cap |-> 0, lagged |-> FALSE]

\* [agend-testkit/src/fake_daemon.rs:211-266] start_at: ids count from a base that is newer than any.
Booted(boot) ==
    [base |-> boot * Bases, latest |-> boot * Bases, events |-> <<>>,
     sub |-> [c \in Conns |-> NoSub], term |-> [c \in Conns |-> <<>>],
     inst |-> [n \in Names |-> "none"], items |-> {}, asks |-> {}, answered |-> {},
     assigned |-> 0, msgs |-> <<>>, inputs |-> <<>>, ids |-> 0,
     screens |-> [n \in Names |-> <<>>], hold |-> FALSE, held |-> <<>>]

Reply(what, code) == [what |-> what, code |-> code, list |-> <<>>, at |-> 0, inst |-> Nobody]
Error(code) == Reply("error", code)
Accepted == Reply("result", "accepted")

--------------------------------------------------------------------------------
(* Events. *)

Event(kind, about, to) == [kind |-> kind, about |-> about, to |-> to]

\* [agend-testkit/src/fake_daemon.rs:636-657] emit: a subscriber whose queue is full lags.
Emit(t, e) ==
    LET d == [id |-> t.latest + 1, event |-> e]
        all == Append(t.events, d)
    IN  [t EXCEPT !.latest = d.id,
                  !.events = IF Len(all) > Retained THEN Tail(all) ELSE all,
                  !.sub = [c \in Conns |->
                      IF ~t.sub[c].on THEN t.sub[c]
                      ELSE IF Len(t.sub[c].q) < t.sub[c].cap THEN [t.sub[c] EXCEPT !.q = Append(@, d)]
                      ELSE [t.sub[c] EXCEPT !.on = FALSE, !.lagged = TRUE]]]

Oldest(t) == IF t.events = <<>> THEN t.latest + 1 ELSE t.events[1].id

\* [agend-testkit/src/fake_daemon.rs:705-721] check_cursor
CheckCursor(t, after) == after + 1 >= Oldest(t) /\ after <= t.latest

\* [agend-testkit/src/fake_daemon.rs:999-1031] handle: subscribe_events
Subscribe(t, c, after) ==
    IF after # -1 /\ ~CheckCursor(t, after) THEN [s |-> t, out |-> <<Error("event_gap")>>]
    ELSE LET backlog == SelectSeq(t.events, LAMBDA d : d.id > after)
         IN  [s |-> [t EXCEPT !.sub[c] = [on |-> TRUE, q |-> backlog, lagged |-> FALSE,
                                          cap |-> Len(backlog) + Retained]],
              out |-> <<>>]

\* [agend-testkit/src/fake_daemon.rs:518-547] fleet
FleetOf(t) == {<<"instance", n>> : n \in {m \in Names : t.inst[m] # "none"}} \cup {<<"item", i>> : i \in t.items}

Fleet(t) == [Reply("fleet", "") EXCEPT !.at = t.latest, !.list = SetToSeq(FleetOf(t))]

--------------------------------------------------------------------------------
(* Terminals. *)

\* [agend-testkit/src/fake_daemon.rs:404-429] push_terminal_bytes
PushBytes(t, n, chunk) ==
    LET Sent(f) == IF f.inst # n \/ ~f.live THEN f
                   ELSE IF Len(f.q) < Chunks THEN [f EXCEPT !.q = Append(@, chunk)]
                   ELSE [f EXCEPT !.live = FALSE, !.lagged = TRUE]
    IN  [t EXCEPT !.screens[n] = Append(@, chunk),
                  !.term = [c \in Conns |-> [k \in DOMAIN t.term[c] |-> Sent(t.term[c][k])]]]

\* [agend-testkit/src/fake_daemon.rs:442-448] drop_terminal_subscribers
DropTerminals(t) ==
    [t EXCEPT !.term = [c \in Conns |->
        [k \in DOMAIN t.term[c] |-> IF t.term[c][k].live THEN [t.term[c][k] EXCEPT !.live = FALSE, !.lagged = TRUE]
                                    ELSE t.term[c][k]]]]

\* A forwarder whose queue is dropped still sends what is in it.
Left(fs) == SelectSeq([k \in DOMAIN fs |-> [fs[k] EXCEPT !.live = FALSE]], LAMBDA f : f.q # <<>> \/ f.lagged)

\* One that a new subscription takes the place of (replaced: a ghost).
Replaced(fs) == [k \in DOMAIN Left(fs) |-> [Left(fs)[k] EXCEPT !.replaced = TRUE]]

\* [agend-testkit/src/fake_daemon.rs:1032-1068] handle: subscribe_terminal replaces the old one.
SubscribeTerminal(t, c, n) ==
    LET left == [t EXCEPT !.term[c] = Replaced(@)] IN
    IF n \notin Names \/ t.inst[n] = "none" THEN [s |-> left, out |-> <<Error("no_terminal")>>]
    ELSE [s |-> [left EXCEPT !.term[c] = Append(@, [inst |-> n, q |-> <<>>, live |-> TRUE, lagged |-> FALSE,
                                                          replaced |-> FALSE])],
          out |-> <<[Reply("screen", "") EXCEPT !.inst = n, !.list = t.screens[n]]>>]

\* [agend-testkit/src/fake_daemon.rs:1069-1111] handle: terminal_input, the checks in their order
Typed(t, caller, n, over) ==
    IF caller # Operator THEN [s |-> t, out |-> <<Error("forbidden")>>]
    ELSE IF n \notin Names \/ t.inst[n] # "live" THEN [s |-> t, out |-> <<Error("no_terminal")>>]
    ELSE IF n \in Codex THEN [s |-> t, out |-> <<Error("not_supported")>>]
    ELSE IF over THEN [s |-> t, out |-> <<Error("invalid_request")>>]
    ELSE [s |-> [t EXCEPT !.inputs = Append(@, n)], out |-> <<>>]

--------------------------------------------------------------------------------
(* Needs-you items: 0 is one with the action retry, the others are asks. *)

\* [agend-testkit/src/fake_daemon.rs:1112-1146] handle: answer_ask; only an open question takes one.
AnswerAsk(t, a) ==
    IF a \notin t.asks THEN [s |-> t, out |-> <<Error("unknown_ask")>>]
    ELSE IF a \in t.answered THEN [s |-> t, out |-> <<Error("invalid_request")>>]
    ELSE [s |-> Emit([t EXCEPT !.answered = @ \cup {a}], Event("ask", a, "answered")), out |-> <<Accepted>>]

\* Mutant: the item stays until its event is told.
ResolveLater(t, caller, i, listed) ==
    LET e == Event("item", i, "resolved") IN
    IF caller # Operator THEN [s |-> t, out |-> <<Error("forbidden")>>]
    ELSE IF i # 0 \/ i \notin t.items \/ ~listed THEN [s |-> t, out |-> <<Error("unknown_attention")>>]
    ELSE [s |-> IF t.hold THEN [t EXCEPT !.held = Append(@, e)] ELSE Emit(t, e), out |-> <<Accepted>>]

\* [agend-testkit/src/fake_daemon.rs:1147-1189] handle: resolve_attention
Resolve(t, caller, i, listed) ==
    LET e == Event("item", i, "resolved")
        off == [t EXCEPT !.items = @ \ {i}]
    IN  IF caller # Operator THEN [s |-> t, out |-> <<Error("forbidden")>>]
        ELSE IF i # 0 \/ i \notin t.items \/ ~listed THEN [s |-> t, out |-> <<Error("unknown_attention")>>]
        ELSE [s |-> IF t.hold THEN [off EXCEPT !.held = Append(@, e)] ELSE Emit(off, e), out |-> <<Accepted>>]

\* [agend-testkit/src/fake_daemon.rs:461-469] release_resolved_events
Release(t) == FoldLeft(Emit, [t EXCEPT !.held = <<>>], t.held)

\* [agend-testkit/src/fake_daemon.rs:372-391] add_attention, open_ask
AddItem(t) == Emit([t EXCEPT !.items = @ \cup {0}], Event("item", 0, "added"))

\* [agend-testkit/src/fake_daemon.rs:330-353] set_instance
SetInstance(t, n, to) == Emit([t EXCEPT !.inst[n] = to], Event("instance", n, "added"))

--------------------------------------------------------------------------------
(* Commands of agents and of the operator. *)

\* [agend-testkit/src/fake_daemon.rs:1265-1362] operator
OperatorCommand(t, r) ==
    CASE r.command = "add" ->
           IF r.name \notin Names THEN [s |-> t, out |-> <<Error("invalid_request")>>]
           ELSE IF t.inst[r.name] # "none" THEN [s |-> t, out |-> <<Error("instance_exists")>>]
           ELSE [s |-> SetInstance(t, r.name, "live"), out |-> <<[Reply("result", "added") EXCEPT !.inst = r.name]>>]
      [] r.command = "remove" ->
           IF r.name \notin Names \/ t.inst[r.name] = "none" THEN [s |-> t, out |-> <<Error("unknown_instance")>>]
           ELSE [s |-> Emit([t EXCEPT !.inst[r.name] = "none"], Event("instance", r.name, "removed")),
                 out |-> <<Accepted>>]
      [] OTHER -> [s |-> t, out |-> <<Error("invalid_request")>>]

Known(t, n) == n \in Names /\ t.inst[n] # "none"

\* [agend-testkit/src/fake_daemon.rs:1364-1392] status
Status(t, caller) ==
    IF t.assigned # 0 THEN Reply("result", "assigned")
    ELSE IF Known(t, caller) THEN Reply("result", "idle") ELSE Error("unknown_instance")

\* [agend-testkit/src/fake_daemon.rs:1394-1453] send_message: one message per id
SendMessage(t, caller, to, id, body) ==
    LET m == [id |-> id, from |-> caller, to |-> to, body |-> body]
        used == \E k \in DOMAIN t.msgs : t.msgs[k].id = id
    IN  IF id < 1 \/ body = TooLong THEN [s |-> t, out |-> <<Error("invalid_request")>>]
        ELSE IF ~Known(t, caller) \/ ~Known(t, to) THEN [s |-> t, out |-> <<Error("unknown_instance")>>]
        ELSE IF used THEN [s |-> t, out |-> <<IF m \in ToSet(t.msgs) THEN Accepted ELSE Error("invalid_request")>>]
        ELSE [s |-> [t EXCEPT !.msgs = Append(@, m)], out |-> <<Accepted>>]

Own(t, n) == LET mine == SelectSeq(t.msgs, LAMBDA m : m.to = n) IN [k \in DOMAIN mine |-> mine[k].id]

\* [agend-testkit/src/fake_daemon.rs:1455-1488] inbox: 0 is no cursor
Inbox(t, caller, after) ==
    LET own == Own(t, caller) IN
    IF after = 0 THEN [Reply("messages", "") EXCEPT !.list = own]
    ELSE IF after \notin ToSet(own) THEN Error("unknown_message")
    ELSE [Reply("messages", "") EXCEPT
             !.list = SubSeq(own, 1 + CHOOSE k \in DOMAIN own : own[k] = after, Len(own))]

\* [agend-testkit/src/fake_daemon.rs:1563-1597] accept_result: only one of the current attempt
AcceptResult(t, identity) ==
    IF identity = 0 \/ identity # t.assigned THEN [s |-> t, out |-> <<Error("stale_result")>>]
    ELSE [s |-> Emit([t EXCEPT !.assigned = 0], Event("task", 0, "changed")), out |-> <<Accepted>>]

\* [agend-testkit/src/fake_daemon.rs:1490-1561] command
AgentCommand(t, caller, r) ==
    CASE r.command = "status" -> [s |-> t, out |-> <<Status(t, caller)>>]
      [] r.command = "inbox" -> [s |-> t, out |-> <<Inbox(t, caller, r.after)>>]
      [] r.command = "send" -> SendMessage(t, caller, r.to, r.id, r.body)
      [] r.command = "create" -> [s |-> Emit(t, Event("task", 0, "created")), out |-> <<Reply("result", "created")>>]
      [] r.command = "result" -> AcceptResult(t, r.identity)
      [] r.command = "ask" ->
           LET a == t.ids + 1
           IN  [s |-> Emit([t EXCEPT !.ids = a, !.asks = @ \cup {a}, !.items = @ \cup {a}], Event("item", a, "added")),
                out |-> <<Reply("result", "asked")>>]
      [] OTHER -> [s |-> t, out |-> <<Accepted>>]

Refused(t, code) == [s |-> t, out |-> <<Error(code)>>]

\* [agend-testkit/src/fake_daemon.rs:963-998] handle
Handle(t, c, caller, r) ==
    CASE r.type = "fleet" -> [s |-> t, out |-> <<Fleet(t)>>]
      [] r.type = "subscribe" -> Subscribe(t, c, r.after)
      [] r.type = "terminal" -> SubscribeTerminal(t, c, r.name)
      [] r.type = "type" -> Typed(t, caller, r.name, r.over)
      [] r.type = "answer" -> AnswerAsk(t, r.id)
      [] r.type = "resolve" -> Resolve(t, caller, r.id, r.listed)
      [] r.type = "command" -> IF caller = Operator THEN Refused(t, "forbidden") ELSE AgentCommand(t, caller, r)
      [] r.type = "operator" -> IF caller # Operator THEN Refused(t, "forbidden") ELSE OperatorCommand(t, r)
      [] OTHER -> Refused(t, "unknown_request")

--------------------------------------------------------------------------------
(* Requests. *)

\* What a client may ask, of the kinds of the run.
Asked(kind) ==
    CASE kind = "fleet" -> {[type |-> "fleet"]}
      [] kind = "subscribe" ->
           {[type |-> "subscribe", after |-> a] : a \in {-1, s.base - 1} \cup (Oldest(s) - 2 .. s.latest + 1)}
      [] kind = "terminal" -> {[type |-> "terminal", name |-> n] : n \in Names \cup {Nobody}}
      [] kind = "type" -> {[type |-> "type", name |-> n, over |-> o] : n \in Names, o \in BOOLEAN}
      [] kind = "answer" -> {[type |-> "answer", id |-> a] : a \in 1..(s.ids + 1)}
      [] kind = "resolve" -> {[type |-> "resolve", id |-> i, listed |-> l] : i \in {0, 1}, l \in BOOLEAN}
      [] kind = "operator" ->
           {[type |-> "operator", command |-> o, name |-> n] : o \in {"add", "remove", "cancel"}, n \in Names}
      [] kind = "send" ->
           {[type |-> "command", command |-> "send", to |-> n, id |-> i, body |-> b] :
                n \in Names, i \in 1..2, b \in 0..2}
      [] kind = "result" -> {[type |-> "command", command |-> "result", identity |-> i] : i \in 0..2}
      [] kind = "agent" -> {[type |-> "command", command |-> k] : k \in {"create", "ask"}}
      [] OTHER -> {}

--------------------------------------------------------------------------------
(* Connections. *)

Up(c) == conn[c].up = "on"
WriterFree(c) == conn[c].pending = <<>>

Uses(what, bound) == did[what] < bound /\ did' = [did EXCEPT ![what] = @ + 1]

\* [agend-testkit/src/fake_daemon.rs:1608-1640] ProbeClient: connect
\* [agend-testkit/src/fake_daemon.rs:569-595] accept_loop, serve: a thread of its own
Connect(c, caller) ==
    /\ conn[c].up = "off"
    /\ conn' = [conn EXCEPT ![c] = [up |-> "new", caller |-> caller, pending |-> <<>>]]
    /\ peer' = [peer EXCEPT ![c] = Blank]
    /\ UNCHANGED <<s, restarting, did>>

\* [agend-testkit/src/fake_daemon.rs:762-855] serve_lines: hello first, of the boot that runs now;
\* anything else closes.
Hello(c) ==
    /\ conn[c].up = "new"
    /\ \/ /\ conn' = [conn EXCEPT ![c].up = "on"]
          /\ peer' = [peer EXCEPT ![c].boots = @ \cup {s.base}]
       \/ /\ conn' = [conn EXCEPT ![c].up = "shut"]
          /\ UNCHANGED peer
    /\ UNCHANGED <<s, restarting, did>>

\* [agend-testkit/src/fake_daemon.rs:731-760] serve: what it holds ends with the connection.
Ended(c) ==
    /\ conn[c].up = "shut" /\ WriterFree(c)
    /\ ~(restarting.by = c)
    /\ conn' = [conn EXCEPT ![c] = NoOne]
    /\ s' = [s EXCEPT !.sub[c] = NoSub, !.term[c] = <<>>]
    /\ peer' = [peer EXCEPT ![c] = Blank]
    /\ UNCHANGED <<restarting, did>>

Leave(c) ==
    /\ Up(c) /\ WriterFree(c) /\ restarting.by # c
    /\ conn' = [conn EXCEPT ![c].up = "shut"]
    /\ UNCHANGED <<s, peer, restarting, did>>

\* What the client does with a subscription it asked for.
Expects(p, r, out) ==
    CASE r.type = "subscribe" /\ out = <<>> -> [p EXCEPT !.next = IF r.after = -1 THEN 0 ELSE r.after + 1]
      [] r.type = "terminal" -> [p EXCEPT !.terms = @ + 1]
      [] OTHER -> p

\* [agend-testkit/src/fake_daemon.rs:856-886] serve_lines: the writer is held from before the request is
\* handled until its replies are written.
Request(c) ==
    /\ Up(c) /\ WriterFree(c) /\ restarting.by # c
    /\ Uses("req", MaxReq)
    /\ \E kind \in Kinds : \E r \in Asked(kind) :
        /\ r.type = "subscribe" => peer[c].next = 0 /\ ~s.sub[c].on /\ s.sub[c].q = <<>>
        /\ r.type = "terminal" => peer[c].terms < MaxTerm
        /\ LET h == Handle(s, c, conn[c].caller, r) IN
            /\ h.s.latest <= h.s.base + MaxEvents
            /\ s' = h.s
            /\ conn' = [conn EXCEPT ![c].pending = <<[base |-> s.base, handled |-> s.latest, upto |-> h.s.latest,
                                                     out |-> h.out]>>]
            /\ peer' = [peer EXCEPT ![c] = [Expects(@, r, h.out) EXCEPT !.across = @ \/ restarting.at = "booted"]]
    /\ UNCHANGED restarting

\* A chunk in the client's hands, and whether it came of a replaced subscription.
Shown(n, chunk, replaced) == [inst |-> n, chunk |-> chunk, replaced |-> replaced]

\* [agend-testkit/src/fake_daemon.rs:1645-1684] ProbeClient: what a reply tells the client
Reads(p, m) ==
    CASE m.what = "fleet" -> [p EXCEPT !.asof = m.at, !.view = ToSet(m.list)]
      [] m.what = "screen" -> [p EXCEPT !.inst = m.inst, !.text = [k \in DOMAIN m.list |-> Shown(m.inst, m.list[k], FALSE)]]
      [] m.what = "error" /\ m.code = "no_terminal" -> [p EXCEPT !.inst = Nobody, !.text = <<>>]
      [] OTHER -> p

\* [agend-testkit/src/fake_daemon.rs:596-624] send, write_line: a write that fails closes.
WriteReply(c) ==
    /\ ~WriterFree(c)
    /\ conn' = [conn EXCEPT ![c].pending = <<>>]
    /\ peer' = [peer EXCEPT ![c] =
                    IF ~Up(c) THEN @
                    ELSE [FoldLeft(Reads, @, conn[c].pending[1].out) EXCEPT
                             !.boots = IF conn[c].pending[1].out = <<>> THEN @ ELSE @ \cup {conn[c].pending[1].base}]]
    /\ UNCHANGED <<s, restarting, did>>

--------------------------------------------------------------------------------
(* Forwarders. *)

\* What an event tells of the view.
Told(view, e) ==
    CASE e.kind = "instance" -> IF e.to = "removed" THEN view \ {<<"instance", e.about>>}
                                ELSE view \cup {<<"instance", e.about>>}
      [] e.kind = "item" -> IF e.to = "resolved" THEN view \ {<<"item", e.about>>}
                            ELSE view \cup {<<"item", e.about>>}
      [] OTHER -> view

Hears(p, c, d) ==
    [p EXCEPT !.inOrder = @ /\ ~p.gap /\ (p.next = 0 \/ d.id = p.next), !.next = d.id + 1,
              !.early = @ \/ \E k \in DOMAIN conn[c].pending :
                                 d.id > conn[c].pending[k].handled /\ d.id <= conn[c].pending[k].upto,
              !.view = IF d.id = p.asof + 1 THEN Told(@, d.event) ELSE @,
              !.asof = IF d.id = @ + 1 THEN d.id ELSE @]

\* [agend-testkit/src/fake_daemon.rs:823-827] the writer is held until the replies are written.
MayWrite(c) == WriterFree(c)

\* [agend-testkit/src/fake_daemon.rs:659-678] forward
Forward(c) ==
    /\ s.sub[c].q # <<>> /\ ~s.sub[c].lagged /\ MayWrite(c) /\ conn[c].up \in {"on", "shut"}
    /\ s' = [s EXCEPT !.sub[c].q = IF Up(c) THEN Tail(@) ELSE <<>>]
    /\ peer' = [peer EXCEPT ![c] = IF Up(c) THEN Hears(@, c, Head(s.sub[c].q)) ELSE @]
    /\ UNCHANGED <<conn, restarting, did>>

\* [agend-testkit/src/fake_daemon.rs:662-671] forward: a lagging subscriber gets event_gap and is closed.
Gap(c) ==
    /\ s.sub[c].lagged /\ MayWrite(c)
    /\ s' = [s EXCEPT !.sub[c] = NoSub]
    /\ conn' = [conn EXCEPT ![c].up = IF @ = "on" THEN "shut" ELSE @]
    /\ peer' = [peer EXCEPT ![c].gap = TRUE]
    /\ UNCHANGED <<restarting, did>>

\* [agend-testkit/src/fake_daemon.rs:680-703] forward_terminal: a lagging one is closed.
ForwardTerminal(c, k) ==
    LET f == s.term[c][k]
        rest == IF f.lagged THEN <<>> ELSE Tail(f.q)
        done == ~f.live /\ rest = <<>>
        one == [f EXCEPT !.q = rest]
    IN  /\ MayWrite(c) /\ (f.q # <<>> \/ f.lagged)
        /\ s' = [s EXCEPT !.term[c] = IF done THEN RemoveAt(@, k) ELSE [@ EXCEPT ![k] = one]]
        /\ conn' = [conn EXCEPT ![c].up = IF f.lagged /\ @ = "on" THEN "shut" ELSE @]
        /\ peer' = [peer EXCEPT ![c] =
                        IF f.lagged \/ ~Up(c) THEN @
                        ELSE [@ EXCEPT !.text = Append(@, Shown(f.inst, Head(f.q), f.replaced))]]
        /\ UNCHANGED <<restarting, did>>

--------------------------------------------------------------------------------
(* daemon_restart, and what a test makes happen. *)

\* [agend-testkit/src/fake_daemon.rs:888-925] preflight: checked without the state; a binary that fails
\* changes nothing.
RestartAsked(c) ==
    /\ "restart" \in Kinds
    /\ Up(c) /\ conn[c].caller = Operator /\ WriterFree(c) /\ restarting.by # c
    /\ Uses("req", MaxReq)
    /\ \/ UNCHANGED restarting
       \/ restarting.at = "no" /\ s.base < MaxBoot * Bases /\ restarting' = [at |-> "told", by |-> c]
    /\ UNCHANGED <<s, conn, peer>>

\* [agend-testkit/src/fake_daemon.rs:927-942] restart: the state of a new boot
RestartState ==
    /\ restarting.at = "told"
    /\ restarting' = [restarting EXCEPT !.at = "booted"]
    /\ s' = [s EXCEPT !.base = @ + Bases, !.latest = s.base + Bases, !.events = <<>>,
                      !.sub = [c \in Conns |-> [s.sub[c] EXCEPT !.on = FALSE]],
                      !.term = [c \in Conns |-> Left(s.term[c])]]
    /\ UNCHANGED <<conn, peer, did>>

\* [agend-testkit/src/fake_daemon.rs:943-946] restart: then every connection is closed.
RestartConnections ==
    /\ restarting.at = "booted"
    /\ restarting' = [at |-> "no", by |-> Nobody]
    /\ conn' = [c \in Conns |-> [conn[c] EXCEPT !.up = IF @ \in {"new", "on"} THEN "shut" ELSE @]]
    /\ UNCHANGED <<s, peer, did>>

\* [agend-testkit/src/contract/client.rs:1578-1624] FakeDaemonFixture: emit, retry_item
Publishes ==
    /\ s.latest < s.base + MaxEvents
    /\ \/ s' = Emit(s, Event("task", 0, "changed"))
       \/ \E n \in Names, to \in {"live", "failed"} : s.inst[n] # to /\ s' = SetInstance(s, n, to)
       \/ "resolve" \in Kinds /\ 0 \notin s.items /\ 0 \notin {s.held[k].about : k \in DOMAIN s.held} /\ s' = AddItem(s)
    /\ UNCHANGED <<conn, peer, restarting, did>>

\* [agend-testkit/src/contract/client.rs:1626-1662] FakeDaemonFixture: make_output
Prints ==
    /\ "terminal" \in Kinds
    /\ Uses("out", MaxOut)
    /\ \E n \in Names : s.inst[n] = "live" /\ s' = PushBytes(s, n, did.out + 1)
    /\ UNCHANGED <<conn, peer, restarting>>

DropsTerminals ==
    /\ \E c \in Conns : \E k \in DOMAIN s.term[c] : s.term[c][k].live
    /\ Uses("out", MaxOut)
    /\ s' = DropTerminals(s)
    /\ UNCHANGED <<conn, peer, restarting>>

\* [agend-testkit/src/fake_daemon.rs:454-459] hold_resolved_events
Holds ==
    /\ "resolve" \in Kinds
    /\ \/ ~s.hold /\ s' = [s EXCEPT !.hold = TRUE]
       \/ s.held # <<>> /\ s.latest + Len(s.held) <= s.base + MaxEvents /\ s' = [Release(s) EXCEPT !.hold = FALSE]
    /\ UNCHANGED <<conn, peer, restarting, did>>

\* [agend-testkit/src/fake_daemon.rs:297-309] assign
Assigns ==
    /\ "result" \in Kinds /\ s.assigned = 0
    /\ Uses("out", MaxOut)
    /\ s' = [s EXCEPT !.assigned = did.out + 1]
    /\ UNCHANGED <<conn, peer, restarting>>

Init ==
    /\ s = Booted(1) /\ conn = [c \in Conns |-> NoOne] /\ peer = [c \in Conns |-> Blank]
    /\ restarting = [at |-> "no", by |-> Nobody] /\ did = [req |-> 0, out |-> 0]

Next ==
    \/ RestartState \/ RestartConnections \/ Publishes \/ Prints \/ DropsTerminals \/ Holds \/ Assigns
    \/ \E c \in Conns :
        \/ \E caller \in Callers : Connect(c, caller)
        \/ Hello(c) \/ Ended(c) \/ Leave(c) \/ Request(c) \/ WriteReply(c)
        \/ Forward(c) \/ Gap(c) \/ RestartAsked(c)
        \/ \E k \in DOMAIN s.term[c] : ForwardTerminal(c, k)

Spec == Init /\ [][Next]_vars

--------------------------------------------------------------------------------
(* Properties. *)

\* The queues keep their bounds, and only the last terminal subscription of a connection is live.
TypeOK ==
    /\ Len(s.events) <= Retained
    /\ \A c \in Conns :
        /\ Len(s.sub[c].q) <= s.sub[c].cap /\ ~(s.sub[c].on /\ s.sub[c].lagged)
        /\ conn[c].up = "off" => s.sub[c] = NoSub /\ s.term[c] = <<>>
        /\ \A k \in DOMAIN s.term[c] :
            /\ Len(s.term[c][k].q) <= Chunks
            /\ s.term[c][k].live => k = Len(s.term[c])

\* A subscriber gets the events one after the other, from its cursor to the newest, and nothing after it
\* was told of a gap: an event is never left out in silence.
EventsInOrder ==
    \A c \in Conns :
        /\ peer[c].inOrder
        /\ Up(c) /\ s.sub[c].on /\ s.sub[c].q = <<>> /\ peer[c].next # 0 => peer[c].next = s.latest + 1

\* What a request makes happen is told after its reply, to the one who asked.
ReplyFirst == \A c \in Conns : ~peer[c].early

\* The view a client fetched and the events after it give the view of the daemon.
ViewFollows ==
    \A c \in Conns : Up(c) /\ peer[c].asof = s.latest /\ s.held = <<>> => peer[c].view = FleetOf(s)

\* The screen a client was sent and the bytes after it are the screen of the terminal that it asked
\* for, from its beginning. What the forwarder of a replaced subscription had not sent yet comes
\* between them, although "a new subscription replaces this connection's old one"
\* (fake_daemon.rs:1033; README, finding 13).
ScreenFollows ==
    \A c \in Conns :
        LET own == SelectSeq(peer[c].text, LAMBDA x : ~x.replaced)
        IN  /\ \A k \in DOMAIN own : own[k].inst = peer[c].inst
            /\ peer[c].inst \in Names =>
                   IsPrefix([k \in DOMAIN own |-> own[k].chunk], s.screens[peer[c].inst])

\* A connection is answered by one boot of the daemon, but for requests that are handled between the
\* new boot's state and the closing of the connections (fake_daemon.rs:929-945; README, finding 13).
OneBoot == \A c \in Conns : Cardinality(peer[c].boots) <= 1 \/ peer[c].across

================================================================================
