---------------------------- MODULE AssignPolicy ----------------------------
(***************************************************************************)
(* The assignment policy: who gets a task, a review or a rework, from the  *)
(* team's candidates, what each holds, its backend and its usage.  A       *)
(* candidate is a record with an id (ordered as the instance ids are), a   *)
(* team, a role, a backend, the task it holds (0 for none) and whether it  *)
(* has usage left.                                                         *)
(***************************************************************************)
EXTENDS Integers, FiniteSets

\* [agend-core/src/policy/assign.rs:32-36] Candidate::is_free
IsFree(c) == c.held = 0

\* [agend-core/src/policy/assign.rs:267-269] is_allowed
IsAllowed(c, req) == c.backend \in req.allowed

\* [agend-core/src/policy/assign.rs:271-279] role_candidates
RoleCandidates(req, cands) == {c \in cands : c.team = req.team /\ c.role = req.role}

\* [agend-core/src/policy/assign.rs:281-301] free_candidates
FreeCandidates(req, cands, exclude) ==
    {c \in RoleCandidates(req, cands) :
        IsAllowed(c, req) /\ c.usage /\ IsFree(c) /\ c.id # exclude}

\* Candidates are taken in the order of their ids.
First(S) == CHOOSE c \in S : \A d \in S : c.id <= d.id

NoCapacity == [min |-> 0, max |-> 0, cur |-> 0, role |-> FALSE]

\* [agend-core/src/policy/assign.rs:303-306] valid_role_capacity
ValidCapacity(k) == k.min <= k.max /\ k.cur <= k.max

\* The backends an ephemeral instance could be started on.
\* [agend-core/src/policy/assign.rs:308-319] spawn_backend
SpawnBackends(req, excluded) ==
    IF ~ValidCapacity(req.cap) \/ req.cap.cur >= req.cap.max THEN {}
    ELSE {b \in req.allowed \ excluded : b \in req.available}

Decision(d, to, b) == [d |-> d, to |-> to, backend |-> b]
Assigned(i) == Decision("assigned", i, "none")
Queue == Decision("queue", 0, "none")

\* A usage limit leaves the backend; a holder that was removed does not.
\* [agend-core/src/policy/assign.rs:211-265] take_over, queue_reason
TakeOver(req, cands, current) ==
    LET excluded == {c.backend : c \in current}
        free == {c \in FreeCandidates(req, cands, req.holder) : c.backend \notin excluded}
        spawn == SpawnBackends(req, excluded)
    IN  IF ~req.cap.role THEN Decision("ask", 0, "none")
        ELSE IF ~ValidCapacity(req.cap) THEN Queue
        ELSE IF free # {} THEN Decision("reassigned", First(free).id, "none")
        ELSE IF spawn # {} THEN Decision("spawn", 0, CHOOSE b \in spawn : TRUE)
        ELSE Queue

\* The holder continues when it still holds the task, is allowed and has usage.
\* [agend-core/src/policy/assign.rs:119-153] choose: rework
Rework(req, cands) ==
    LET current == {c \in cands : /\ c.team = req.team /\ c.id = req.holder
                                  /\ c.held = req.task /\ IsAllowed(c, req) /\ req.cap.role}
    IN  IF \E c \in current : c.usage THEN Assigned(req.holder)
        ELSE TakeOver(req, cands, current)

\* A reviewer is somebody else, on another backend when there is one.
\* [agend-core/src/policy/assign.rs:166-184] choose: eligible reviewers and their order
Reviewers(req, S) ==
    LET others == {c \in S : c.id # req.holder}
        away == {c \in others : c.backend # req.holderBackend}
    IN  IF away # {} THEN away ELSE others

\* [agend-core/src/policy/assign.rs:154-209] choose: a new task or a review
Choose(req, cands) ==
    LET free == FreeCandidates(req, cands, 0)
        eligible == IF req.purpose = "review" THEN Reviewers(req, free) ELSE free
        away == IF req.purpose = "review" THEN SpawnBackends(req, {req.holderBackend}) ELSE {}
        spawn == IF away # {} THEN away ELSE SpawnBackends(req, {})
        role == RoleCandidates(req, cands)
    IN  IF req.purpose = "rework" THEN Rework(req, cands)
        ELSE IF ~req.cap.role THEN Decision("ask", 0, "none")
        ELSE IF ~ValidCapacity(req.cap) THEN Queue
        ELSE IF eligible # {} THEN Assigned(First(eligible).id)
        ELSE IF spawn # {} THEN Decision("spawn", 0, CHOOSE b \in spawn : TRUE)
        ELSE IF req.purpose = "review" /\ role # {} /\ \A c \in role : c.id = req.holder
        THEN Decision("noreviewer", 0, "none")
        ELSE Queue

-----------------------------------------------------------------------------
(* Who waits for whom in a team. *)

\* The depth-first search visits what the edges of the team reach.
\* [agend-core/src/policy/assign.rs:334-352] creates_wait_cycle: the search
Search(edges, team, from) ==
    LET step(S) == S \cup {e.to : e \in {x \in edges : x.team = team /\ x.from \in S}}
        go[n \in 0 .. Cardinality(edges)] == IF n = 0 THEN {from} ELSE step(go[n - 1])
    IN  go[Cardinality(edges)]

\* [agend-core/src/policy/assign.rs:328-356] creates_wait_cycle
CreatesWaitCycle(edges, e) == e.from = e.to \/ e.from \in Search(edges, e.team, e.to)

=============================================================================
