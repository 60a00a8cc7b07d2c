---------------------------- MODULE TuiTerminal ----------------------------
(***************************************************************************)
(* The terminal view of the TUI for one agent: App's Term and FullView,    *)
(* the source's terminal connection with its bounded write queue and its   *)
(* mailbox (replies in order, then the newest frame, then the end), and a  *)
(* daemon that answers, prints, restarts its holder, gives the control to  *)
(* somebody else or goes away. The operator opens and leaves the view,     *)
(* asks for control, types, scrolls and resizes the window at any time.    *)
(*                                                                         *)
(* A scope is one terminal connection; requests are numbered in it and an  *)
(* attach id is the number of the request that was granted control. A      *)
(* frame is its request, holder generation, revision and size: its cells   *)
(* and the row arithmetic of the viewport are left out. Each operator is   *)
(* one App method over the record of what that method may change:          *)
(* t the Term, src the connection, out the requests queued on it, w the    *)
(* window's size, fresh whether a new connection was opened.               *)
(***************************************************************************)
EXTENDS Naturals, Sequences, FiniteSets, SequencesExt

CONSTANTS
    Sizes,         \* window sizes, positive
    WriteQueue,    \* WRITE_QUEUE: requests queued before the writer sent them
    MaxInput,      \* inputs that may be unanswered (64 in send_full_bytes)
    MaxReq,        \* bound: requests of the operator in one scope
    MaxScopes,     \* bound: terminal connections
    MaxFaults,     \* bound: refusals, losses of control, restarts and disconnects
    MaxRev,        \* bound: revisions of the screen
    MaxReplies,    \* REPLY_QUEUE
    Legacy         \* whether the daemon only has the old terminal

TuiBounds ==
    /\ Sizes \subseteq Nat \ {0} /\ Legacy \in BOOLEAN
    /\ {WriteQueue, MaxInput, MaxReq, MaxScopes, MaxFaults, MaxRev, MaxReplies} \subseteq Nat

VARIABLES
    connected,   \* App::connection
    onTop,       \* the top view is the agent's terminal
    failed,      \* the fleet shows the agent failed
    win,         \* App::outer_size
    term,        \* App::term
    src,         \* the source's terminal connection
    out,         \* requests queued on it
    box,         \* its mailbox
    srv,         \* the daemon's side of the connection
    scopes, faults, \* counters of the bounds
    asked        \* ghost: the operator asked for control and has not lost it since

vars == <<connected, onTop, failed, win, term, src, out, box, srv, scopes, faults, asked>>

NoPend == [id |-> 0, size |-> 0, acquire |-> FALSE]
EmptyBox == [replies |-> <<>>, frame |-> <<>>, closed |-> FALSE]
NoSrv == [sel |-> 0, ctl |-> 0, gen |-> 0, rev |-> 0, size |-> 0]

\* [agend-tui/src/app.rs:1199-1213] Term::new
NewTerm(kind, mode) ==
    [on |-> TRUE, kind |-> kind, mode |-> mode, typing |-> FALSE, stale |-> FALSE,
     ready |-> FALSE, gen |-> 0, rev |-> 0, size |-> 0, expanded |-> FALSE, owner |-> 0,
     pend |-> NoPend, sel |-> 0, next |-> 0, inputs |-> {}, hist |-> FALSE, fit |-> 0]
NoTerm == [NewTerm("full", "ended") EXCEPT !.on = FALSE]

TypeOK ==
    /\ win \in Sizes /\ src \in {"none", "full", "legacy"}
    /\ term.mode \in {"live", "stopped", "ended"} /\ term.kind \in {"full", "legacy"}
    /\ term.typing \in BOOLEAN /\ term.ready \in BOOLEAN /\ term.expanded \in BOOLEAN
    /\ term.size \in Sizes \union {0}
    /\ Len(out) <= WriteQueue /\ Len(box.replies) <= MaxReplies /\ Len(box.frame) <= 1

Init ==
    /\ connected = TRUE /\ onTop = FALSE /\ failed = FALSE /\ win \in Sizes
    /\ term = NoTerm /\ src = "none" /\ out = <<>> /\ box = EmptyBox
    /\ srv = [NoSrv EXCEPT !.gen = 1, !.size = CHOOSE s \in Sizes : TRUE]
    /\ scopes = 0 /\ faults = 0 /\ asked = FALSE

-----------------------------------------------------------------------------
(* App methods over the record [t, src, out, w, fresh]                     *)

\* [agend-tui/src/source/client.rs:457-460] close_terminal
Close(a) == [a EXCEPT !.src = "none", !.out = <<>>]

\* [agend-tui/src/app/full_terminal.rs:57-67] FullView::revoke
Revoke(t) ==
    [t EXCEPT !.owner = 0, !.pend = NoPend, !.expanded = FALSE, !.inputs = {}, !.fit = 0]

Quiet(t) == [t EXCEPT !.typing = FALSE]
Ended(t) == [t EXCEPT !.mode = "ended", !.typing = FALSE]

\* [agend-tui/src/app/full_terminal.rs:148-171] full_send_error: the scope is retired with its owner
FullSendError(a) == [Close(a) EXCEPT !.t = Ended(Revoke(@))]

\* [agend-tui/src/source/client/full_terminal.rs:165-193] FullConnection::send: alive, and room in the queue
Sent(a, request) == a.src = "full" /\ Len(a.out) < WriteQueue
Queue(a, request) == [a EXCEPT !.out = Append(@, request)]

NextId(t) == t.next + 1

\* [agend-tui/src/app/full_terminal.rs:256-301] select_full_viewport
SelectViewport(a, hist) ==
    LET t == a.t
        id == NextId(t)
        request == [k |-> "view", id |-> id, gen |-> t.gen, attach |-> 0,
                    size |-> IF ~t.expanded /\ t.fit # a.w THEN a.w ELSE 0]
    IN  IF ~t.on \/ t.kind # "full" \/ ~t.ready \/ t.pend # NoPend THEN a
        ELSE IF ~Sent(a, request) THEN FullSendError([a EXCEPT !.t.next = id])
        ELSE [Queue(a, request) EXCEPT !.t.next = id, !.t.sel = id, !.t.hist = hist,
                                       !.t.fit = IF t.expanded THEN @ ELSE a.w]

\* [agend-tui/src/app/full_terminal.rs:172-228] resize_full: the agent gets the window's size, if we may
ResizeFull(a) ==
    LET t == a.t
        id == NextId(t)
        request == [k |-> "resize", id |-> id, gen |-> t.gen, attach |-> t.owner, size |-> a.w]
    IN  CASE ~t.on \/ t.kind # "full" \/ t.mode # "live" \/ ~t.ready -> a
          [] t.expanded /\ t.pend = NoPend /\ t.size = a.w -> a
          [] t.expanded /\ (t.pend # NoPend \/ t.owner = 0) -> [a EXCEPT !.t = Quiet(@)]
          [] t.expanded -> IF Sent(a, request)
                           THEN [Queue(a, request) EXCEPT !.t.typing = FALSE, !.t.next = id,
                                    !.t.pend = [id |-> id, size |-> a.w, acquire |-> FALSE]]
                           ELSE FullSendError(a)
          [] OTHER -> IF t.fit # a.w THEN SelectViewport(a, t.hist) ELSE a

\* [agend-tui/src/app/full_terminal.rs:106-147] begin_full: Acquire, and the view is expanded at once
BeginFull(a) ==
    LET t == a.t
        id == NextId(t)
        request == [k |-> "acquire", id |-> id, gen |-> t.gen, attach |-> 0, size |-> a.w]
        b == [a EXCEPT !.t.typing = FALSE, !.t.expanded = TRUE, !.t.next = id,
                       !.t.pend = [id |-> id, size |-> a.w, acquire |-> TRUE]]
    IN  IF t.mode # "live" \/ ~t.ready \/ t.pend # NoPend THEN a
        ELSE IF Sent(a, request) THEN Queue(b, request) ELSE FullSendError(b)

\* [agend-tui/src/app/full_terminal.rs:668-711] send_full_bytes: input under the owner that was granted
SendBytes(a) ==
    LET t == a.t
        id == NextId(t)
        request == [k |-> "input", id |-> id, gen |-> t.gen, attach |-> t.owner, size |-> 0]
    IN  IF ~t.typing \/ Len(a.out) = WriteQueue \/ t.owner = 0 \/ Cardinality(t.inputs) >= MaxInput THEN a
        ELSE IF a.src # "full" THEN FullSendError([a EXCEPT !.t.next = id])
        ELSE [Queue(a, request) EXCEPT !.t.next = id, !.t.inputs = @ \union {id}]

-----------------------------------------------------------------------------
(* What the mailbox delivers                                               *)

\* [agend-tui/src/app/full_terminal.rs:328-380] pump_full_terminal_ready: Frame
OnFrame(a, e) ==
    LET t == a.t IN
    CASE e.id # t.sel -> a
      [] t.ready /\ e.gen # t.gen -> [Close(a) EXCEPT !.t = Ended(Revoke(@))]
      [] t.ready /\ e.gen = t.gen /\ e.rev < t.rev -> a
      [] OTHER -> [a EXCEPT !.t.ready = TRUE, !.t.gen = e.gen, !.t.rev = e.rev, !.t.size = e.size,
                            !.t.mode = IF @ = "stopped" THEN @ ELSE "live"]

\* [agend-tui/src/app/full_terminal.rs:381-446] pump_full_terminal_ready: ControlAck
OnAck(a, e) ==
    LET t == a.t
        granted == [a EXCEPT !.t.owner = e.ctl, !.t.pend = NoPend, !.t.sel = e.id, !.t.hist = FALSE,
                             !.t.rev = e.rev, !.t.size = e.size,
                             !.t.typing = t.expanded /\ e.size = a.w /\ t.mode = "live"]
    IN  CASE t.ready /\ e.gen = t.gen /\ e.id \in t.inputs -> [a EXCEPT !.t.inputs = @ \ {e.id}]
          [] t.pend = NoPend \/ e.id # t.pend.id \/ e.gen # t.gen -> a
          [] e.size # t.pend.size \/ e.rev < t.rev -> FullSendError(a)
          [] e.ctl = 0 -> [a EXCEPT !.t = Quiet(Revoke(@))]
          [] OTHER -> IF t.expanded /\ ~granted.t.typing THEN ResizeFull(granted) ELSE granted

\* [agend-tui/src/app/full_terminal.rs:447-463] pump_full_terminal_ready: ControlChanged to read-only
OnChanged(a, e) ==
    LET t == a.t IN
    IF e.gen # t.gen THEN a
    ELSE IF t.pend.acquire THEN [a EXCEPT !.t.owner = 0, !.t.typing = FALSE]
    ELSE [a EXCEPT !.t = Quiet(Revoke(@))]

\* [agend-tui/src/app/full_terminal.rs:464-528] pump_full_terminal_ready: Refused
OnRefused(a, e) ==
    LET t == [a.t EXCEPT !.inputs = @ \ {e.id}]
        wasInput == e.id \in a.t.inputs
    IN  CASE ~wasInput /\ e.id # t.sel /\ (t.pend = NoPend \/ e.id # t.pend.id) -> a
          [] wasInput /\ e.code = "busy" -> [a EXCEPT !.t = t]
          [] t.pend.acquire /\ t.owner = 0 /\ e.code = "forbidden" -> [a EXCEPT !.t = Quiet(Revoke(t))]
          [] ~t.ready /\ e.code = "unsupported" ->
                [a EXCEPT !.src = "legacy", !.out = <<>>,
                          !.t = [Quiet(t) EXCEPT !.kind = "legacy"]]
          [] OTHER -> [Close(a) EXCEPT !.t = Ended(Revoke(t))]

\* [agend-tui/src/app/full_terminal.rs:529-538] pump_full_terminal_ready: Closed
OnClosed(a) == [Close(a) EXCEPT !.t = [Ended(Revoke(@)) EXCEPT !.ready = FALSE]]

\* One event of the full terminal; after a fall back to the old terminal the rest is dropped.
OnEvent(a, e) ==
    CASE a.t.kind # "full" \/ ~a.t.on -> a
      [] e.k = "frame" -> OnFrame(a, e)
      [] e.k = "ack" -> OnAck(a, e)
      [] e.k = "changed" -> OnChanged(a, e)
      [] e.k = "refused" -> OnRefused(a, e)
      [] e.k = "closed" -> OnClosed(a)

ClosedEvent == [k |-> "closed", id |-> 0, gen |-> 0, rev |-> 0, size |-> 0, ctl |-> 0, code |-> ""]

\* [agend-tui/src/source/client/full_terminal.rs:195-206] FullConnection::poll: replies, the frame, the end
Polled == box.replies \o box.frame \o (IF box.closed THEN <<ClosedEvent>> ELSE <<>>)

\* [agend-tui/src/app/full_terminal.rs:302-327] pump_full_terminal: all that came, then the size
PumpFull(a) == ResizeFull(FoldLeft(OnEvent, a, Polled))

\* [agend-tui/src/app.rs:1072-1095] pump_terminal: one event of the old terminal
OnOldEvent(a, e) ==
    CASE ~a.t.on -> a
      [] e.k = "screen" -> [a EXCEPT !.t.mode = IF failed THEN "stopped" ELSE "live"]
      [] e.k = "output" -> [a EXCEPT !.t.stale = TRUE]
      [] e.k = "refused" -> [a EXCEPT !.t = IF e.code = "unsupported" THEN Ended(@) ELSE Quiet(@)]
      [] e.k = "closed" -> [Close(a) EXCEPT !.t = Ended(@)]
      [] OTHER -> a

\* [agend-tui/src/app.rs:1096-1140] pump_terminal: the old terminal is stopped, refreshed or retried
AfterOld(b, due) ==
    LET mode == IF failed /\ b.t.mode = "live" THEN "stopped" ELSE b.t.mode
        u == [b.t EXCEPT !.mode = mode, !.typing = @ /\ mode = "live"]
        again == mode = "stopped" /\ ~failed
        refresh == CASE mode = "live" -> b.t.stale /\ due
                     [] mode = "ended" -> due
                     [] mode = "stopped" -> again
    IN  IF ~refresh THEN [b EXCEPT !.t = u]
        ELSE [b EXCEPT !.src = "legacy",
                       !.t = [u EXCEPT !.stale = FALSE, !.mode = IF again THEN "ended" ELSE @]]

Mode == IF failed THEN "stopped" ELSE "live"

\* [agend-tui/src/app/full_terminal.rs:86-105] new_full_term, and the old terminal of an old daemon
Fresh(w) == [t |-> NewTerm(IF Legacy THEN "legacy" ELSE "full", Mode),
             src |-> IF Legacy THEN "legacy" ELSE "full", out |-> <<>>, w |-> w, fresh |-> TRUE]

\* [agend-tui/src/app.rs:969-1006] reopen_terminal: a new scope, or an ended view that is retried later
Reopen(a, ok) ==
    IF ok THEN Fresh(a.w)
    ELSE [Close(a) EXCEPT !.t = Ended(Revoke(IF a.t.on THEN a.t ELSE NewTerm("full", "ended")))]

\* [agend-tui/src/app.rs:1047-1071] pump_terminal: a full view is stopped, retried or left alone
AfterFull(b, due, ok) ==
    IF b.t.kind = "legacy" THEN b
    ELSE IF failed THEN [Close(b) EXCEPT !.t = [Quiet(Revoke(@)) EXCEPT !.mode = "stopped"]]
    ELSE IF b.t.mode = "stopped" \/ (b.t.mode = "ended" /\ due) THEN Reopen(b, ok)
    ELSE b

PumpTerminal(a, due, ok) ==
    IF ~a.t.on THEN a
    ELSE IF a.t.kind = "legacy" THEN AfterOld(FoldLeft(OnOldEvent, a, Polled), due)
    ELSE AfterFull(PumpFull(a), due, ok)

\* [agend-tui/src/app.rs:1020-1042] sync_terminal: open exactly while the view is on top
SyncTerminal(a, top, ok) ==
    CASE ~top /\ a.t.on -> [Close(a) EXCEPT !.t = NoTerm]
      [] top /\ ~a.t.on -> Reopen(a, ok)
      [] OTHER -> a

-----------------------------------------------------------------------------
(* Actions of the App                                                      *)

Now == [t |-> term, src |-> src, out |-> out, w |-> win, fresh |-> FALSE]

\* Takes over what the methods left: a closed or a new scope loses its mail and its control.
\* Nothing is opened beyond the bound.
Apply(a, mail) ==
    /\ (a.fresh => scopes < MaxScopes)
    /\ term' = a.t /\ src' = a.src /\ out' = a.out
    /\ box' = IF a.src = src /\ ~a.fresh THEN mail ELSE EmptyBox
    /\ srv' = IF a.src = "full" /\ ~a.fresh THEN srv ELSE [srv EXCEPT !.ctl = 0, !.sel = 0]
    /\ scopes' = IF a.fresh THEN scopes + 1 ELSE scopes

\* What arrived is applied before a key; the ghost forgets a control that was given up or lost.
Pumped == {PumpTerminal(Now, FALSE, TRUE)}
Holds(t) == t.expanded \/ (t.kind = "legacy" /\ t.typing)
Do(a) == \E r \in {a} : Apply(r, EmptyBox) /\ asked' = (asked /\ Holds(r.t))

\* [agend-tui/src/app.rs:248-263] App::tick
Tick(due, ok) ==
    /\ connected
    /\ \E pumped \in {PumpTerminal(Now, due, ok)} : Do(SyncTerminal(pumped, onTop, ok))
    /\ UNCHANGED <<connected, onTop, failed, win, faults>>

\* [agend-tui/src/app/full_terminal.rs:541-561] full_key: Ctrl-] opens a new scope, the rest goes to the agent
FullKey(stop) ==
    /\ connected /\ term.on
    /\ \E p \in Pumped :
        /\ p.t.on /\ p.t.expanded /\ p.t.next < MaxReq
        /\ Do(IF stop THEN Reopen(Close(p), TRUE) ELSE SendBytes(p))
    /\ UNCHANGED <<connected, onTop, failed, win, faults>>

\* [agend-tui/src/app.rs:1140-1173] start_typing: `i`
StartTyping ==
    /\ connected /\ term.on /\ onTop
    /\ \E p \in Pumped :
        /\ ~p.t.expanded /\ p.t.kind = "full" /\ p.t.next < MaxReq
        /\ \E a \in {BeginFull(p)} : Apply(a, EmptyBox) /\ asked' = a.t.expanded
    /\ UNCHANGED <<connected, onTop, failed, win, faults>>

\* `i` on the terminal of an old daemon, which takes bytes without a control
StartTypingOld ==
    /\ Legacy /\ connected /\ onTop
    /\ \E p \in Pumped :
        /\ p.t.on /\ p.t.mode = "live"
        /\ Apply([p EXCEPT !.t.typing = TRUE], EmptyBox)
    /\ asked' = TRUE
    /\ UNCHANGED <<connected, onTop, failed, win, faults>>

\* [agend-tui/src/app.rs:1175-1193] typing_key: Ctrl-] stops; bytes that cannot be sent end the view
TypingKey(stop) ==
    /\ connected
    /\ \E p \in Pumped :
        /\ p.t.on /\ p.t.kind = "legacy" /\ p.t.typing
        /\ Do(CASE stop -> [p EXCEPT !.t = Quiet(@)]
                [] ~stop /\ p.src # "none" -> p
                [] OTHER -> [p EXCEPT !.t = Ended(@)])
    /\ UNCHANGED <<connected, onTop, failed, win, faults>>

\* [agend-tui/src/app/full_terminal.rs:568-605] paste
Paste ==
    /\ connected /\ term.on
    /\ \E p \in Pumped : p.t.typing /\ p.t.next < MaxReq /\ Do(SendBytes(p))
    /\ UNCHANGED <<connected, onTop, failed, win, faults>>

\* [agend-tui/src/app/full_terminal.rs:229-255] scroll_terminal, by PageUp or the wheel
Scroll(hist) ==
    /\ connected /\ term.on
    /\ \E p \in Pumped :
        p.t.on /\ p.t.next < MaxReq /\ p.t.hist # hist /\ Do(SelectViewport(p, hist))
    /\ UNCHANGED <<connected, onTop, failed, win, faults>>

\* [agend-tui/src/app/full_terminal.rs:73-81] App::resize: the mailbox is left alone
Resize(w) ==
    /\ w # win /\ win' = w /\ (term.on => term.next < MaxReq)
    /\ \E a \in {ResizeFull([Now EXCEPT !.w = w])} :
        Apply(a, box) /\ asked' = (asked /\ Holds(a.t))
    /\ UNCHANGED <<connected, onTop, failed, faults>>

\* [agend-tui/src/app.rs:906-958] open_terminal: `t`, or the finder
OpenTerminal ==
    /\ connected /\ ~onTop /\ onTop' = TRUE
    /\ Do(Fresh(win))
    /\ UNCHANGED <<connected, failed, win, faults>>

\* [agend-tui/src/app.rs:551-555] screen_key: back, a key that an expanded view sends to the agent
LeaveView ==
    /\ connected /\ onTop /\ onTop' = FALSE
    /\ \E p \in Pumped : ~p.t.expanded /\ Do(SyncTerminal(p, FALSE, TRUE))
    /\ UNCHANGED <<connected, failed, win, faults>>

\* [agend-tui/src/app.rs:324-351] App::lost: the terminal goes with the daemon's connection
Lost ==
    /\ connected /\ faults < MaxFaults /\ faults' = faults + 1
    /\ connected' = FALSE
    /\ Do([Close(Now) EXCEPT !.t = NoTerm])
    /\ UNCHANGED <<onTop, failed, win>>

\* [agend-tui/src/app.rs:285-322] App::reconnect, and sync_terminal after it
Reconnect ==
    /\ ~connected /\ connected' = TRUE
    /\ \E ok \in BOOLEAN : Do(SyncTerminal(Now, onTop, ok))
    /\ UNCHANGED <<onTop, failed, win, faults>>

\* [external] the fleet's events: the agent fails, or runs again
AgentState ==
    /\ failed' = ~failed /\ faults < MaxFaults /\ faults' = faults + 1
    /\ UNCHANGED <<connected, onTop, win, term, src, out, box, srv, scopes, asked>>

-----------------------------------------------------------------------------
(* The connection's threads and the daemon behind them                     *)

Event(k, id, size, ctl, code) ==
    [k |-> k, id |-> id, gen |-> srv.gen, rev |-> srv.rev, size |-> size, ctl |-> ctl, code |-> code]

\* [agend-tui/src/source/client/full_terminal.rs:219-233] publish: the newest frame, every reply
Published(b, e) ==
    CASE b.closed -> b
      [] e.k = "frame" -> [b EXCEPT !.frame = <<e>>]
      [] OTHER -> [b EXCEPT !.replies = Append(@, e)]

\* [agend-tui/src/source/client/full_terminal.rs:234-241] fail: the mail is dropped, the end is kept
Failed(b) == [b EXCEPT !.replies = <<>>, !.frame = <<>>, !.closed = TRUE]

Room == src # "none" /\ ~box.closed /\ Len(box.replies) < MaxReplies

\* The daemon's answer to a request of the scope, and what the mailbox then holds.
Answer(e, s) ==
    /\ srv' = s
    /\ box' = Published(box, [e EXCEPT !.rev = s.rev])

Refuse(code) ==
    /\ Answer(Event("refused", Head(out).id, 0, 0, code), srv)

\* [agend-tui/src/source/client/full_terminal.rs:95-153] the writer thread sends one request; the daemon answers
Serve ==
    LET r == Head(out)
        current == r.gen = srv.gen
        owned == current /\ srv.ctl # 0 /\ r.attach = srv.ctl
        sized == [srv EXCEPT !.size = r.size, !.rev = @ + 1, !.sel = r.id]
    IN
    /\ src = "full" /\ out # <<>> /\ Room /\ out' = Tail(out)
    /\ CASE r.k = "acquire" /\ current ->
              LET s == [sized EXCEPT !.ctl = r.id] IN Answer(Event("ack", r.id, r.size, r.id, ""), s)
         [] r.k = "resize" /\ owned -> Answer(Event("ack", r.id, r.size, srv.ctl, ""), sized)
         [] r.k = "input" /\ owned -> Answer(Event("ack", r.id, 0, srv.ctl, ""), srv)
         [] r.k = "view" /\ current ->
              LET s == [srv EXCEPT !.sel = r.id, !.size = IF srv.ctl = 0 /\ r.size # 0 THEN r.size ELSE @]
              IN  Answer(Event("frame", r.id, s.size, 0, ""), s)
         [] OTHER -> Refuse("error")
    /\ UNCHANGED <<connected, onTop, failed, win, term, src, scopes, faults, asked>>

\* [external] a request is refused: too busy, for another reason, or (control) not allowed
ServeRefused ==
    /\ src = "full" /\ out # <<>> /\ Room /\ out' = Tail(out)
    /\ faults < MaxFaults /\ faults' = faults + 1
    /\ \E code \in {"busy", "error"} \union (IF Head(out).k = "acquire" THEN {"forbidden"} ELSE {}) : Refuse(code)
    /\ UNCHANGED <<connected, onTop, failed, win, term, src, scopes, asked>>

\* [external] the subscription cannot be served: the holder only has the old terminal
ServeUnsupported ==
    /\ src = "full" /\ ~term.ready /\ box = EmptyBox /\ srv.sel = 0
    /\ faults < MaxFaults /\ faults' = faults + 1
    /\ box' = Published(box, Event("refused", 0, 0, 0, "unsupported"))
    /\ UNCHANGED <<connected, onTop, failed, win, term, src, out, srv, scopes, asked>>

\* [external] the agent prints, and the daemon sends the frame of the selected viewport
Output ==
    /\ Room /\ srv.rev < MaxRev
    /\ LET s == [srv EXCEPT !.rev = @ + 1] IN
        IF src = "full" THEN Answer(Event("frame", srv.sel, srv.size, 0, ""), s)
        ELSE \E k \in {"screen", "output"} : Answer(Event(k, 0, 0, 0, ""), s)
    /\ UNCHANGED <<connected, onTop, failed, win, term, src, out, scopes, faults, asked>>

\* [external] the first frame of a subscription
FirstFrame ==
    /\ Room /\ ~term.ready /\ box.frame = <<>> /\ src = "full"
    /\ Answer(Event("frame", srv.sel, srv.size, 0, ""), srv)
    /\ UNCHANGED <<connected, onTop, failed, win, term, src, out, scopes, faults, asked>>

\* [external] somebody else takes the control
Stolen ==
    /\ src = "full" /\ Room /\ srv.ctl # 0 /\ faults < MaxFaults /\ faults' = faults + 1
    /\ Answer(Event("changed", 0, 0, 0, ""), [srv EXCEPT !.ctl = 0])
    /\ UNCHANGED <<connected, onTop, failed, win, term, src, out, scopes, asked>>

\* [external] the holder restarts: a new generation and a new screen
Restarted ==
    /\ faults < MaxFaults /\ faults' = faults + 1
    /\ srv' = [srv EXCEPT !.gen = @ + 1, !.ctl = 0, !.rev = 0]
    /\ box' = IF src = "full" /\ ~box.closed
              THEN [box EXCEPT !.frame = <<[Event("frame", srv.sel, srv.size, 0, "") EXCEPT !.gen = @ + 1, !.rev = 0]>>]
              ELSE box
    /\ UNCHANGED <<connected, onTop, failed, win, term, src, out, scopes, asked>>

\* [agend-tui/src/source/client/full_terminal.rs:50-85] the reader thread meets the end of the connection
ReaderFails ==
    /\ src # "none" /\ ~box.closed /\ faults < MaxFaults /\ faults' = faults + 1
    /\ box' = IF src = "full" THEN Failed(box) ELSE [box EXCEPT !.closed = TRUE]
    /\ srv' = [srv EXCEPT !.ctl = 0] /\ out' = <<>>
    /\ UNCHANGED <<connected, onTop, failed, win, term, src, scopes, asked>>

Daemon == Serve \/ FirstFrame
Environment == ServeRefused \/ ServeUnsupported \/ Output \/ Stolen \/ Restarted \/ ReaderFails \/ AgentState

\* A key is for an expanded view, else for an old terminal that is typed into,
\* else for the screen.
\* [agend-tui/src/app.rs:433-495] App::key
Key ==
    \/ (\E stop \in BOOLEAN : FullKey(stop)) \/ StartTyping
    \/ StartTypingOld \/ (\E stop \in BOOLEAN : TypingKey(stop))
    \/ OpenTerminal \/ LeaveView \/ Reconnect

Next ==
    \/ (\E due, ok \in BOOLEAN : Tick(due, ok)) \/ Key \/ Paste
    \/ (\E h \in BOOLEAN : Scroll(h)) \/ (\E w \in Sizes : Resize(w))
    \/ Lost
    \/ Daemon \/ Environment

Spec == Init /\ [][Next]_vars

-----------------------------------------------------------------------------
(* Properties                                                              *)

\* Keys reach the agent only while the view is on top and live, under a control that was granted, with
\* nothing pending and the agent's screen at the window's size (full_terminal.rs: "completed matching
\* frames enable typing").
TypingIsReady ==
    term.typing =>
        /\ term.on /\ connected /\ onTop /\ term.mode = "live"
        /\ term.kind = "full" =>
             /\ term.ready /\ term.expanded /\ term.owner # 0 /\ term.pend = NoPend /\ term.size = win

\* Typing never comes back by itself: not by a late acknowledgement, a frame, a reconnect or a retry,
\* after the control was lost or given up (app.rs: "it never comes back by itself").
NeverByItself == term.typing => asked

\* Control is never left behind: once everything sent has been answered and read, the daemon holds
\* control for this connection only while the view knows it.
ControlIsKnown ==
    src = "full" /\ srv.ctl # 0 /\ out = <<>> /\ box = EmptyBox => term.expanded /\ term.owner = srv.ctl

=============================================================================
