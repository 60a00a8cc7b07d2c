--------------------------- MODULE MCAssignPolicy ---------------------------
(***************************************************************************)
(* The assignment policy over every request and small pools of candidates, *)
(* and the wait graph that grows only by edges that close no cycle.        *)
(***************************************************************************)
EXTENDS AssignPolicy

CONSTANTS Teams, Backends, MaxEdges

VARIABLES req, cands, edges
vars == <<req, cands, edges>>

Ids == 1 .. 3
Waits == [team : Teams, from : Ids, to : Ids]
Team == CHOOSE t \in Teams : TRUE

Caps == {NoCapacity} \cup {[min |-> 0, max |-> m, cur |-> 1, role |-> TRUE] : m \in 0 .. 2}

Request(p, h, b) ==
    {[team |-> Team, role |-> "dev", allowed |-> al, available |-> av, cap |-> k, purpose |-> p,
      task |-> 1, holder |-> h, holderBackend |-> b] :
        al \in (SUBSET Backends) \ {{}}, av \in {{}, Backends}, k \in Caps}
None == [purpose |-> "none"]
First0 == CHOOSE b \in Backends : TRUE
Requests == Request("new", 0, First0) \cup UNION {Request("review", h, b) : h \in {1, 4}, b \in Backends}
              \cup UNION {Request("rework", h, First0) : h \in {1, 4}}

Fresh(i, b) == [id |-> i, team |-> Team, role |-> "dev", backend |-> b, held |-> 0, usage |-> TRUE]

Init ==
    /\ req = None
    /\ \E f \in [Ids -> Backends] : f[1] = First0 /\ cands = {Fresh(i, f[i]) : i \in Ids}
    /\ edges = {}

\* The daemon asks; what it asked about before does not matter.
Ask == req = None /\ edges = {} /\ req' \in Requests /\ UNCHANGED <<cands, edges>>

\* A candidate takes or ends a task, runs out of usage, or leaves for another team with its task;
\* a holder that was removed is the one of a request for 4.
Change ==
    /\ edges = {} /\ req = None /\ UNCHANGED <<req, edges>>
    /\ \E c \in {x \in cands : x.team = Team} :
        \/ \E h \in 0 .. 2, u \in BOOLEAN : cands' = (cands \ {c}) \cup {[c EXCEPT !.held = h, !.usage = u]}
        \/ \E t \in Teams : c.held = 1 /\ c.usage /\ cands' = (cands \ {c}) \cup {[c EXCEPT !.team = t]}

\* An edge is added unless it closes a cycle; it goes when the wait ends.
AddWait ==
    /\ Cardinality(edges) < MaxEdges /\ req = None
    /\ cands = {Fresh(i, First0) : i \in Ids}
    /\ \E e \in Waits : ~CreatesWaitCycle(edges, e) /\ edges' = edges \cup {e}
    /\ UNCHANGED <<req, cands>>
EndWait == \E e \in edges : edges' = edges \ {e} /\ UNCHANGED <<req, cands>>

Next == Ask \/ Change \/ AddWait \/ EndWait
Spec == Init /\ [][Next]_vars

-----------------------------------------------------------------------------

Answer == IF req = None THEN Queue ELSE Choose(req, cands)
By(i) == {c \in cands : c.id = i /\ c.team = req.team}

\* Whoever gets work is in the team, allowed, has usage, and holds nothing,
\* or it is the holder that goes on with this very task.
OneTaskEach ==
    Answer.d \in {"assigned", "reassigned"} =>
        \E c \in By(Answer.to) :
            /\ c.backend \in req.allowed /\ c.usage
            /\ c.held = 0 \/ (req.purpose = "rework" /\ c.id = req.holder /\ c.held = req.task)

\* Nobody reviews his own work, and a reviewer on the author's backend is taken
\* only when nobody on another one is free.
ReviewIsIndependent ==
    req.purpose = "review" /\ Answer.d = "assigned" =>
        /\ Answer.to # req.holder
        /\ \A c \in By(Answer.to) : c.backend = req.holderBackend =>
             ~\E d \in FreeCandidates(req, cands, req.holder) : d.backend # req.holderBackend

\* The work leaves a holder exactly when it cannot go on; when that is a usage
\* limit, it also leaves the backend.
WorkFollowsUsage ==
    req.purpose = "rework" =>
        LET at == {c \in By(req.holder) : c.held = req.task /\ c.backend \in req.allowed /\ req.cap.role}
        IN  /\ (Answer.d = "assigned") <=> (\E c \in at : c.usage)
            /\ Answer.d = "reassigned" => \A c \in at, d \in By(Answer.to) : d.backend # c.backend
            /\ Answer.d = "spawn" => \A c \in at : Answer.backend # c.backend

\* An instance is started only within the headcount, on a backend with quota,
\* and never while somebody could take the work.
SpawnFits ==
    Answer.d = "spawn" =>
        /\ req.cap.cur < req.cap.max /\ Answer.backend \in req.allowed \cap req.available
        /\ req.purpose = "new" => FreeCandidates(req, cands, 0) = {}

Cyclic(E) == \E F \in (SUBSET E) \ {{}} : \A e \in F : \E f \in F : f.from = e.to /\ f.team = e.team

\* A wait is refused exactly when it would close a cycle in its team, so the
\* waits that are added never leave everybody waiting for somebody.
NoWaitCycle ==
    /\ ~Cyclic(edges)
    /\ req = None => \A e \in Waits : CreatesWaitCycle(edges, e) <=> Cyclic(edges \cup {e})
=============================================================================
