------------------------------ MODULE Dispatch ------------------------------
(***************************************************************************)
(* How the engine hands work to a team's agents: assigning a task's stage, *)
(* binding a worktree, dispatching the ticket, releasing, handing over to  *)
(* another role, and closing, for several tasks at once.  The engine works *)
(* in steps that are each one write; it may die between any two of them,   *)
(* and instances stop and come back meanwhile.                             *)
(***************************************************************************)
EXTENDS AssignPolicy, Sequences

CONSTANTS Tasks,       \* task ids, in the order they were made
          Role,        \* instance -> role
          Backend,     \* instance -> backend
          Stages,      \* the workflow: [k : {"work", "review"}, role, count]
          MaxAttempts, \* bound: attempts of a stage
          MaxCrash,    \* bound: deaths of the daemon
          MaxFlips,    \* bound: instances that stop
          MaxFaults    \* bound: git and driver calls that fail

DispatchAssumption == {MaxAttempts, MaxCrash, MaxFlips, MaxFaults} \subseteq Nat /\ Tasks \subseteq Nat \ {0}

Insts == DOMAIN Role
Free == [task |-> 0, kind |-> "none", ticket |-> <<>>, st |-> "none"]
NewTask == [st |-> "none", asg |-> 0, si |-> 1, att |-> [s \in DOMAIN Stages |-> 0], pend |-> FALSE, appr |-> {}]
At(pc, t, i, mode, todo) == [pc |-> pc, t |-> t, i |-> i, mode |-> mode, todo |-> todo]

VARIABLES
    task,    \* the rows of tasks and their progress
    bind,    \* the row of bindings of an instance, or Free
    msg,     \* dispatches in the messages table
    inst,    \* instances that are Running
    wake,    \* a Wake is in the engine's queue
    eng,     \* the engine: what it does next
    heard,   \* ghost: <<instance, ticket>> an agent was told
    crashes, flips, faults

vars == <<task, bind, msg, inst, wake, eng, heard, crashes, flips, faults>>
bounds == <<crashes, flips, faults>>

Init ==
    /\ task = [t \in Tasks |-> NewTask] /\ bind = [i \in Insts |-> Free] /\ msg = {}
    /\ inst = Insts /\ wake = FALSE /\ eng = At("idle", 0, 0, "wake", {}) /\ heard = {}
    /\ crashes = 0 /\ flips = 0 /\ faults = 0

Stage(t) == Stages[task[t].si]
Review(t) == Stage(t).k = "review"
Ticket(t) == <<t, task[t].si, task[t].att[task[t].si]>>
Id(t, i) == IF Review(t) THEN <<"r", Ticket(t), i>> ELSE <<"w", Ticket(t)>>
Least(S) == CHOOSE x \in S : \A y \in S : x <= y
Bound(t) == {i \in Insts : bind[i].task = t}

\* Review bindings of another attempt, or whose reviewer has answered.
\* [agend-daemon/src/pipeline.rs:558-573] commit_transition: obsolete review bindings
Obsolete(t) == {i \in Bound(t) : /\ bind[i].kind = "review"
                                 /\ bind[i].ticket # Ticket(t) \/ i \in task[t].appr}

Fault == faults < MaxFaults /\ faults' = faults + 1
NoFault == UNCHANGED faults

\* Where the engine goes when a dispatch is over: to the next task of the pass.
Done == IF eng.mode = "act" THEN At("clean", 0, 0, "wake", Tasks) ELSE At("pass", 0, 0, eng.mode, eng.todo)

\* The task is closed; its bindings go in the next step.
\* [agend-daemon/src/pipeline/reconcile.rs:109-150] fail_restore
FailRestore(t) ==
    /\ task' = [task EXCEPT ![t].st = "closed"]
    /\ eng' = At("release", t, 0, eng.mode, eng.todo)

-----------------------------------------------------------------------------
(* Choosing. *)

\* A task that is assigned and not over, or else the task of the binding.
\* [agend-daemon/src/pipeline/lifecycle.rs:406-446] assign: the candidates
Held(i) ==
    LET own == {t \in Tasks : task[t].st = "run" /\ task[t].asg = i}
    IN  IF own # {} THEN Least(own) ELSE bind[i].task

\* [agend-daemon/src/pipeline/lifecycle.rs:443-443] assign: somebody who approved is not asked twice
Usage(t, i) == i \notin task[t].appr

Candidates(t) ==
    {[id |-> i, team |-> 1, role |-> Role[i], backend |-> Backend[i], held |-> Held(i), usage |-> Usage(t, i)] :
        i \in inst}

\* [agend-daemon/src/pipeline/lifecycle.rs:447-487] assign: the request
Request(t) ==
    LET n == Cardinality({i \in Insts : Role[i] = Stage(t).role})
        h == task[t].asg
    IN  [team |-> 1, role |-> Stage(t).role, allowed |-> {Backend[i] : i \in Insts}, available |-> {},
         cap |-> [min |-> 0, max |-> n, cur |-> n, role |-> n > 0],
         purpose |-> IF Review(t) THEN "review" ELSE IF h # 0 THEN "rework" ELSE "new",
         task |-> t, holder |-> h, holderBackend |-> IF h = 0 THEN "claude" ELSE Backend[h]]

\* The reviewer of this ticket, when a binding names one.
Existing(t) == {i \in Insts : Review(t) /\ bind[i].task = t /\ bind[i].kind = "review" /\ bind[i].ticket = Ticket(t)}

\* [agend-daemon/src/pipeline/lifecycle.rs:334-358] assign: a forward change of role, the bindings
Handoff ==
    /\ eng.pc = "handoff"
    /\ LET t == eng.t
           over == ~Review(t) /\ ~task[t].pend /\ task[t].asg # 0 /\ Role[task[t].asg] # Stage(t).role
           mine == {i \in Bound(t) : bind[i].kind = "work"}
       IN  \/ ~over /\ eng' = [eng EXCEPT !.pc = "choose"] /\ UNCHANGED <<task, bind, faults>>
           \/ /\ over /\ mine # {} /\ NoFault
              /\ bind' = [i \in Insts |-> IF i \in mine THEN Free ELSE bind[i]]
              /\ UNCHANGED <<task, eng>>
           \/ over /\ mine # {} /\ Fault /\ FailRestore(t) /\ UNCHANGED bind
           \/ over /\ mine = {} /\ eng' = [eng EXCEPT !.pc = "unassign"] /\ UNCHANGED <<task, bind, faults>>
    /\ UNCHANGED <<msg, inst, wake, heard, crashes, flips>>

\* [agend-daemon/src/pipeline/lifecycle.rs:359-391] assign: a forward change of role, the row
Unassign ==
    /\ eng.pc = "unassign"
    /\ task' = [task EXCEPT ![eng.t].asg = 0] /\ eng' = [eng EXCEPT !.pc = "choose"]
    /\ UNCHANGED <<bind, msg, inst, wake, heard, bounds>>

\* [agend-daemon/src/pipeline/lifecycle.rs:392-405] assign: a holder that is not running is waited for
HolderAway(t) == ~Review(t) /\ task[t].asg # 0 /\ task[t].asg \notin inst

\* Mutant: the assignment is stored with the binding.
AssignLate(t, i) == task

\* [agend-daemon/src/pipeline/lifecycle.rs:510-543] assign: the row, before the binding
AssignRow(t, i) == IF ~Review(t) /\ task[t].asg = 0 THEN [task EXCEPT ![t].asg = i] ELSE task

\* [agend-daemon/src/pipeline/lifecycle.rs:488-509] assign: the decision
Decide ==
    /\ eng.pc = "choose"
    /\ LET t == eng.t
           d == IF Existing(t) # {} THEN Assigned(Least(Existing(t))) ELSE Choose(Request(t), Candidates(t))
       IN  IF HolderAway(t) \/ d.d # "assigned"
           THEN eng' = Done /\ UNCHANGED task
           ELSE /\ task' = AssignRow(t, d.to)
                /\ eng' = [eng EXCEPT !.pc = "bind", !.i = d.to]
    /\ UNCHANGED <<bind, msg, inst, wake, heard, bounds>>

\* A row of another task, or of the other kind, is not replaced.
\* [agend-daemon/src/store/pipeline.rs:135-138] put_binding
MayBind(i, t, kind) == bind[i] = Free \/ (bind[i].task = t /\ bind[i].kind = kind)

\* [agend-daemon/src/pipeline/lifecycle.rs:544-586] assign: the binding is stored as pending
Bind ==
    /\ eng.pc = "bind"
    /\ LET t == eng.t
           i == eng.i
           kind == IF Review(t) THEN "review" ELSE "work"
       IN  IF ~MayBind(i, t, kind) THEN FailRestore(t) /\ UNCHANGED bind
           ELSE /\ bind' = [bind EXCEPT ![i] = [task |-> t, kind |-> kind, ticket |-> Ticket(t), st |-> "pending"]]
                /\ eng' = [eng EXCEPT !.pc = "ensure"] /\ UNCHANGED task
    /\ UNCHANGED <<msg, inst, wake, heard, bounds>>

\* [agend-daemon/src/bindings.rs:69-155] ensure: the worktree, the hooks, the snapshot, then ready
Ensure ==
    /\ eng.pc = "ensure"
    /\ \/ /\ NoFault /\ bind' = [bind EXCEPT ![eng.i].st = "ready"]
          /\ eng' = [eng EXCEPT !.pc = "claim"] /\ UNCHANGED task
       \/ Fault /\ FailRestore(eng.t) /\ UNCHANGED bind
    /\ UNCHANGED <<msg, inst, wake, heard, crashes, flips>>

-----------------------------------------------------------------------------
(* Dispatching the ticket. *)

\* [agend-daemon/src/pipeline/lifecycle.rs:634-672] deliver: the claim
Claim ==
    /\ eng.pc = "claim"
    /\ LET id == Id(eng.t, eng.i)
           was == {m \in msg : m.id = id}
       IN  IF \E m \in was : m.to # eng.i THEN FailRestore(eng.t) /\ UNCHANGED msg
           ELSE /\ UNCHANGED task
                /\ msg' = IF was = {} THEN msg \cup {[id |-> id, to |-> eng.i, st |-> "queued"]} ELSE msg
                /\ eng' = IF \E m \in was : m.st \in {"sent", "confirmed"} THEN Done
                          ELSE [eng EXCEPT !.pc = "deliver"]
    /\ UNCHANGED <<bind, inst, wake, heard, bounds>>

\* [agend-daemon/src/pipeline/lifecycle.rs:673-691] deliver: the driver
Deliver ==
    /\ eng.pc = "deliver"
    /\ \/ /\ NoFault /\ heard' = heard \cup {<<eng.i, Ticket(eng.t)>>}
          /\ eng' = [eng EXCEPT !.pc = "sent"] /\ UNCHANGED task
       \/ Fault /\ FailRestore(eng.t) /\ UNCHANGED heard
    /\ UNCHANGED <<bind, msg, inst, wake, crashes, flips>>

SetState(id, st) == {IF m.id = id THEN [m EXCEPT !.st = st] ELSE m : m \in msg}

\* [agend-daemon/src/pipeline/lifecycle.rs:692-702] deliver: the receipt
Sent ==
    /\ eng.pc = "sent"
    /\ msg' = SetState(Id(eng.t, eng.i), "sent") /\ eng' = Done
    /\ UNCHANGED <<task, bind, inst, wake, heard, bounds>>

\* A driver sends the queued rows of its instance when it is connected.
\* [external] CodexLink, ClaudeDelivery and OpenCode model it
DriverDrains(m) ==
    /\ m \in msg /\ m.st = "queued" /\ m.to \in inst /\ eng.pc # "down"
    /\ eng.pc \in {"deliver", "sent"} => m.id # Id(eng.t, eng.i)
    /\ msg' = SetState(m.id, "sent")
    /\ heard' = heard \cup {<<m.to, m.id[2]>>}
    /\ UNCHANGED <<task, bind, inst, wake, eng, bounds>>

-----------------------------------------------------------------------------
(* Passes over the tasks. *)

\* A closed task frees its holder only once its bindings are gone.
\* [agend-daemon/src/pipeline/terminal.rs:52-94] cleanup_terminal_mode: local part
Release ==
    /\ eng.pc = "release"
    /\ LET t == eng.t
       IN  \/ /\ Bound(t) # {} /\ NoFault
              /\ bind' = [bind EXCEPT ![Least(Bound(t))] = Free] /\ UNCHANGED <<task, eng>>
           \/ Bound(t) # {} /\ Fault /\ eng' = Done /\ UNCHANGED <<task, bind>>
           \/ /\ Bound(t) = {} /\ NoFault
              /\ task' = [task EXCEPT ![t].asg = 0] /\ eng' = Done /\ UNCHANGED bind
    /\ UNCHANGED <<msg, inst, wake, heard, crashes, flips>>

\* [agend-daemon/src/pipeline/lifecycle.rs:761-764] wake, and boot: closed tasks first
WakeClean ==
    /\ eng.pc = "clean"
    /\ LET left == {t \in eng.todo : task[t].st = "closed" /\ (task[t].asg # 0 \/ Bound(t) # {})}
           t == Least(left)
           i == Least(Bound(t))
       IN  \/ left = {} /\ eng' = At("pass", 0, 0, eng.mode, Tasks) /\ UNCHANGED <<task, bind, faults>>
           \/ /\ left # {} /\ Bound(t) # {} /\ NoFault
              /\ bind' = [bind EXCEPT ![i] = Free] /\ UNCHANGED <<task, eng>>
           \/ left # {} /\ Bound(t) # {} /\ Fault /\ eng' = [eng EXCEPT !.todo = @ \ {t}] /\ UNCHANGED <<task, bind>>
           \/ /\ left # {} /\ Bound(t) = {} /\ NoFault
              /\ task' = [task EXCEPT ![t].asg = 0] /\ UNCHANGED <<bind, eng>>
    /\ UNCHANGED <<msg, inst, wake, heard, crashes, flips>>

\* A wake leaves a dispatch that was claimed to the driver; boot repeats it.
\* [agend-daemon/src/pipeline/lifecycle.rs:779-800] wake: what is not dispatched again
Skips(t) ==
    /\ eng.mode = "wake" /\ ~Review(t) /\ task[t].asg # 0
    /\ \E m \in msg : m.id = <<"w", Ticket(t)>>

\* [agend-daemon/src/pipeline/lifecycle.rs:765-816] wake: one pass over the tasks
Pass ==
    /\ eng.pc = "pass"
    /\ IF eng.todo = {} THEN eng' = At("idle", 0, 0, "wake", {})
       ELSE LET t == Least(eng.todo)
            IN  eng' = IF task[t].st # "run" \/ Skips(t) THEN [eng EXCEPT !.todo = @ \ {t}]
                       ELSE At("handoff", t, 0, eng.mode, eng.todo \ {t})
    /\ UNCHANGED <<task, bind, msg, inst, wake, heard, bounds>>

\* [agend-daemon/src/pipeline.rs:287-308] the loop: a wake
Wake ==
    /\ eng.pc = "idle" /\ wake
    /\ wake' = FALSE /\ eng' = At("clean", 0, 0, "wake", Tasks)
    /\ UNCHANGED <<task, bind, msg, inst, heard, bounds>>

-----------------------------------------------------------------------------
(* Commands: a new task, results, and closing. *)

\* The next stage, back to the work stage, or the end.
\* [agend-core/src/pipeline/state.rs:2033-2053] enter_stage
Enter(r, s) ==
    IF s > Len(Stages) THEN [r EXCEPT !.st = "closed", !.appr = {}]
    ELSE [r EXCEPT !.st = "run", !.si = s, !.att[s] = @ + 1, !.pend = FALSE, !.appr = {}]
LastWork(s) == CHOOSE w \in 1 .. s : Stages[w].k = "work" /\ \A x \in w + 1 .. s : Stages[x].k # "work"

Commit(t, r) ==
    /\ task' = [task EXCEPT ![t] = r]
    /\ eng' = At("drop", t, 0, "act", {})

\* [agend-daemon/src/pipeline/commands.rs:31-46] agent, AgentCommand::TaskCreate: a task is created and started
Create(t) ==
    /\ eng.pc = "idle" /\ task[t].st = "none" /\ \A u \in Tasks : u < t => task[u].st # "none"
    /\ Commit(t, Enter(NewTask, 1))
    /\ UNCHANGED <<bind, msg, inst, wake, heard, bounds>>

\* [agend-daemon/src/pipeline/commands.rs:292-346] owned_result: who may report, of an open task and under its ticket
Entitled(i, t) ==
    /\ task[t].st = "run" /\ <<i, Ticket(t)>> \in heard
    /\ IF Review(t) THEN bind[i].task = t /\ bind[i].kind = "review" /\ bind[i].ticket = Ticket(t)
       ELSE task[t].asg = i

\* Done, of a branch, and Result, of anything else, say that the work is there.
\* [agend-daemon/src/pipeline/commands.rs:95-182] agent: Done, Result
WorkCompleted(t) == Commit(t, Enter(task[t], task[t].si + 1))

\* The agent reports the ticket it was given.
\* [agend-daemon/src/pipeline/commands.rs:348-402] review
Report(i, t, good) ==
    /\ eng.pc = "idle" /\ Entitled(i, t)
    /\ LET r == task[t]
           w == LastWork(r.si)
       IN  IF ~Review(t) THEN good /\ WorkCompleted(t)
           ELSE IF ~good THEN /\ r.att[w] < MaxAttempts
                              /\ Commit(t, [Enter(r, w) EXCEPT !.pend = TRUE])
           ELSE IF Cardinality(r.appr \cup {i}) >= Stage(t).count THEN Commit(t, Enter(r, r.si + 1))
           ELSE Commit(t, [r EXCEPT !.appr = @ \cup {i}])
    /\ msg' = SetState(Id(t, i), "confirmed")
    /\ UNCHANGED <<bind, inst, wake, heard, bounds>>

\* [agend-daemon/src/pipeline.rs:549-590] commit_transition: after the commit
Drop ==
    /\ eng.pc = "drop"
    /\ LET t == eng.t
           old == IF task[t].st = "run" THEN Obsolete(t) ELSE {}
       IN  \/ /\ old # {} /\ NoFault
              /\ bind' = [bind EXCEPT ![Least(old)] = Free] /\ UNCHANGED <<task, eng>>
           \/ old # {} /\ Fault /\ FailRestore(t) /\ UNCHANGED bind
           \/ /\ old = {} /\ NoFault /\ UNCHANGED <<task, bind>>
              /\ eng' = [eng EXCEPT !.pc = IF task[t].st = "run" THEN "handoff" ELSE "release"]
    /\ UNCHANGED <<msg, inst, wake, heard, crashes, flips>>

\* The operator cancels.
Cancel(t) ==
    /\ eng.pc = "idle" /\ task[t].st = "run" /\ Fault
    /\ Commit(t, [task[t] EXCEPT !.st = "closed"])
    /\ UNCHANGED <<bind, msg, inst, wake, heard, crashes, flips>>

-----------------------------------------------------------------------------
(* Instances, death and boot. *)

Stop(i) ==
    /\ i \in inst /\ flips < MaxFlips
    /\ inst' = inst \ {i} /\ flips' = flips + 1 /\ wake' = (eng.pc # "down")
    /\ UNCHANGED <<task, bind, msg, eng, heard, crashes, faults>>

\* The supervisor stores the status and then wakes the engine.
\* [agend-daemon/src/supervisor.rs:1301-1333] run: an event, then wake
Start(i) ==
    /\ i \in Insts \ inst /\ eng.pc # "down"
    /\ inst' = inst \cup {i} /\ wake' = TRUE
    /\ UNCHANGED <<task, bind, msg, eng, heard, bounds>>

Crash ==
    /\ eng.pc # "down" /\ crashes < MaxCrash /\ crashes' = crashes + 1
    /\ eng' = At("down", 0, 0, "boot", {}) /\ wake' = FALSE
    /\ UNCHANGED <<task, bind, msg, inst, heard, flips, faults>>

\* [agend-daemon/src/pipeline/reconcile.rs:14-47] boot
Boot == eng.pc = "down" /\ eng' = At("recon", 0, 0, "boot", Insts) /\ UNCHANGED <<task, bind, msg, inst, wake, heard, bounds>>

\* [agend-daemon/src/pipeline/reconcile.rs:151-260] reconcile_bindings
Reconcile ==
    /\ eng.pc = "recon"
    /\ IF eng.todo = {} THEN eng' = At("clean", 0, 0, "boot", Tasks) /\ UNCHANGED <<task, bind, faults>>
       ELSE LET i == Least(eng.todo)
                t == bind[i].task
                next == [eng EXCEPT !.todo = @ \ {i}]
            IN  \/ bind[i] = Free /\ eng' = next /\ UNCHANGED <<task, bind, faults>>
                \/ /\ bind[i] # Free /\ (task[t].st = "closed" \/ i \in Obsolete(t))
                   /\ NoFault /\ eng' = next /\ UNCHANGED task
                   /\ bind' = [bind EXCEPT ![i] = Free]
                \/ /\ bind[i] # Free /\ task[t].st = "run" /\ i \notin Obsolete(t)
                   /\ NoFault /\ eng' = next /\ UNCHANGED task
                   /\ bind' = [bind EXCEPT ![i].st = "ready"]
                \/ /\ bind[i] # Free /\ task[t].st = "run" /\ Fault
                   /\ task' = [task EXCEPT ![t].st = "closed"] /\ eng' = next /\ UNCHANGED bind
    /\ UNCHANGED <<msg, inst, wake, heard, crashes, flips>>

EngineStep ==
    \/ Handoff \/ Unassign \/ Decide \/ Bind \/ Ensure \/ Claim \/ Deliver \/ Sent
    \/ Release \/ WakeClean \/ Pass \/ Wake \/ Drop \/ Boot \/ Reconcile

Next ==
    \/ EngineStep \/ Crash \/ \E m \in msg : DriverDrains(m)
    \/ \E t \in Tasks : Create(t) \/ Cancel(t) \/ \E i \in Insts, g \in BOOLEAN : Report(i, t, g)
    \/ \E i \in Insts : Stop(i) \/ Start(i)

Spec == Init /\ [][Next]_vars

-----------------------------------------------------------------------------

\* Types.
TypeOK ==
    /\ task \in [Tasks -> [st : {"none", "run", "closed"}, asg : Insts \cup {0}, si : DOMAIN Stages,
                           att : [DOMAIN Stages -> 0 .. MaxAttempts], pend : BOOLEAN, appr : SUBSET Insts]]
    /\ \A i \in Insts : bind[i] = Free \/ bind[i].kind \in {"work", "review"}

\* An agent holds one task: what is assigned to it and not over and what its
\* binding names are the same task.
OneTask ==
    \A i \in Insts : Cardinality({t \in Tasks : \/ task[t].st = "run" /\ task[t].asg = i
                                                \/ bind[i].task = t}) <= 1

\* A running task is bound for work only for its holder, and for review never for its holder.
BoundFits ==
    \A i \in Insts : bind[i] # Free /\ task[bind[i].task].st = "run" =>
        IF bind[i].kind = "work" THEN task[bind[i].task].asg = i ELSE task[bind[i].task].asg # i

\* An agent that was told the current ticket may report it, or has done so.
ToldIsEntitled ==
    \A h \in heard : LET i == h[1]
                         t == h[2][1]
                     IN  task[t].st = "run" /\ h[2] = Ticket(t) => Entitled(i, t) \/ i \in task[t].appr

=============================================================================
