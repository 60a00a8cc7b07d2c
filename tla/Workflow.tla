------------------------------ MODULE Workflow ------------------------------
(***************************************************************************)
(* Workflows as data: the stage records of agend-core's pipeline/          *)
(* workflow.rs and the rules Workflow::validate applies when a workflow is *)
(* saved.  A pipeline only ever runs a validated workflow, so these rules  *)
(* are what every pipeline property may rely on.                           *)
(*                                                                         *)
(* Stages are numbered from 1 (the source counts from 0); a stage's number *)
(* stands for its unique id, and 0 stands for "no such stage".  Text       *)
(* (instructions, role names, the shell command itself) is left out; of a  *)
(* command only the placeholders it uses matter.                           *)
(***************************************************************************)
EXTENDS Naturals, Sequences, FiniteSets

StageKind == {"work", "submit", "command", "approval", "merge", "fanout"}
WorkOutput == {"branch", "result", "plan"}
FanoutJoin == {"all", "first", "pick"}
TimeoutAction == {"notify", "reassign", "cancel"}
Placeholder == {"pr", "head", "branch"}

\* One record shape for the six variants of enum Stage; a field that a kind
\* does not have holds the neutral value given here.
DefaultStage ==
  [kind |-> "merge", output |-> "result", count |-> 0, bind_head |-> FALSE,
   join |-> "all", from_plan |-> FALSE, uses |-> {}, returns_change |-> FALSE,
   on_timeout |-> "notify", on_fail |-> 0]

Stages ==
  [kind : StageKind, output : WorkOutput, count : Nat, bind_head : BOOLEAN,
   join : FanoutJoin, from_plan : BOOLEAN, uses : SUBSET Placeholder,
   returns_change : BOOLEAN, on_timeout : TimeoutAction, on_fail : Nat]

\* A workflow: its stages and the allow_unreviewed switch.
IsWorkflow(w) ==
  /\ DOMAIN w = {"stages", "allow_unreviewed"}
  /\ w = [stages |-> w.stages, allow_unreviewed |-> w.allow_unreviewed]
  /\ w.stages \in Seq(Stages)
  /\ w.allow_unreviewed \in BOOLEAN

Len_(w) == Len(w.stages)
Index(w) == 1 .. Len_(w)
KindAt(w, i) == w.stages[i].kind
IsKind(w, i, k) == i \in Index(w) /\ KindAt(w, i) = k

IsBranchWork(w, i) == IsKind(w, i, "work") /\ w.stages[i].output = "branch"

\* A command or a head-bound approval: its record counts for one head only.
IsHeadBound(w, i) ==
  \/ IsKind(w, i, "command")
  \/ IsKind(w, i, "approval") /\ w.stages[i].bind_head

\* Stages that work on a branch head.
NeedsHead(w, i) == IsHeadBound(w, i) \/ IsKind(w, i, "merge")

\* The largest element of a set of stage numbers, 0 for the empty set
\* (iter().rposition()).
LastOf(S) == IF S = {} THEN 0 ELSE CHOOSE i \in S : \A j \in S : j <= i

\* The smallest element of a non-empty set of stage numbers
\* (iter().position(), iter().find()).
FirstOf(S) == CHOOSE i \in S : \A j \in S : i <= j

\* previous_work: the most recent work stage before stage i, 0 if none.
PreviousWork(w, i) == LastOf({j \in Index(w) : j < i /\ IsKind(w, j, "work")})

\* The most recent branch work stage before stage i, 0 if none.
PreviousBranchWork(w, i) == LastOf({j \in Index(w) : j < i /\ IsBranchWork(w, j)})

FanoutAtOrAfter(w, i) == \E j \in Index(w) : j >= i /\ IsKind(w, j, "fanout")

\* pick_fanout_index_for_approval(..).is_some(): stage i is the first approval
\* after some fanout joined by pick, so approving it chooses the winner.
PicksAt(w, i) ==
  /\ IsKind(w, i, "approval")
  /\ \E f \in Index(w) :
       /\ f < i
       /\ IsKind(w, f, "fanout") /\ w.stages[f].join = "pick"
       /\ \A j \in Index(w) : f < j /\ j < i => KindAt(w, j) # "approval"

-----------------------------------------------------------------------------
(* Workflow::validate, one rule per group of checks.                       *)

\* on_fail names an earlier work stage, an approval has a positive count and
\* all submits name the same forge.
StageRules(w) ==
  \A i \in Index(w) :
    /\ \A j \in Index(w) :
         KindAt(w, i) = "submit" /\ KindAt(w, j) = "submit" =>
           w.stages[i].returns_change = w.stages[j].returns_change
    /\ w.stages[i].on_fail # 0 =>
         w.stages[i].on_fail < i /\ IsKind(w, w.stages[i].on_fail, "work")
    /\ IsKind(w, i, "approval") => w.stages[i].count > 0

\* Every placeholder of a command has a stage before it that provides it.
PlaceholderRules(w) ==
  \A i \in Index(w) :
    IsKind(w, i, "command") =>
      /\ "pr" \in w.stages[i].uses =>
           \E j \in Index(w) : j < i /\ IsKind(w, j, "submit")
      /\ w.stages[i].uses \cap {"head", "branch"} # {} =>
           \E j \in Index(w) : j < i /\ IsBranchWork(w, j)

\* The first submit comes after branch work.
SubmitRule(w) ==
  \A i \in Index(w) :
    IsKind(w, i, "submit") => \E j \in Index(w) : j < i /\ IsBranchWork(w, j)

\* A merge is the last stage, after a command and a head-bound approval.
MergeRules(w) ==
  \A i \in Index(w) :
    IsKind(w, i, "merge") =>
      /\ \E j \in Index(w) : j < i /\ IsKind(w, j, "command")
      /\ i = Len_(w)
      /\ \/ w.allow_unreviewed
         \/ \E j \in Index(w) :
              j < i /\ IsKind(w, j, "approval") /\ w.stages[j].bind_head

\* A fanout over a plan has a plan before it; a pick is followed at once by
\* the approval that makes it.
FanoutRules(w) ==
  \A i \in Index(w) :
    IsKind(w, i, "fanout") =>
      /\ w.stages[i].from_plan =>
           \E j \in Index(w) :
             j < i /\ IsKind(w, j, "work") /\ w.stages[j].output = "plan"
      /\ w.stages[i].join = "pick" => IsKind(w, i + 1, "approval")

\* Checks and head-bound approvals come after the last branch work, and no
\* work follows that branch work when anything is bound to the head.
HeadRules(w) ==
  \A i \in Index(w) :
    /\ IsHeadBound(w, i) => ~ \E j \in Index(w) : j > i /\ IsBranchWork(w, j)
    /\ KindAt(w, i) \in {"command", "approval"} =>
         \E j \in Index(w) : j < i /\ IsKind(w, j, "work")
    /\ NeedsHead(w, i) => \E j \in Index(w) : j < i /\ IsBranchWork(w, j)
    /\ KindAt(w, i) = "work" /\ (\E j \in Index(w) : NeedsHead(w, j)) =>
         ~ \E b \in Index(w) : b < i /\ IsBranchWork(w, b)
                               /\ ~ \E c \in Index(w) : c > b /\ IsBranchWork(w, c)

StaticRules(w) ==
  /\ StageRules(w)
  /\ PlaceholderRules(w)
  /\ SubmitRule(w)
  /\ MergeRules(w)
  /\ FanoutRules(w)
  /\ HeadRules(w)

\* A head-bound pick with another fanout behind it: a new head voids the pick,
\* but past the second fanout the children to pick from are gone.
PickOutOfReach(w) ==
  \E i, j \in Index(w) :
    PicksAt(w, i) /\ w.stages[i].bind_head /\ i < j /\ IsKind(w, j, "fanout")

-----------------------------------------------------------------------------
(* The stages that workflows are written with, and the built-in workflows. *)

WorkStage(output) == [DefaultStage EXCEPT !.kind = "work", !.output = output]
SubmitStage(pr) == [DefaultStage EXCEPT !.kind = "submit", !.returns_change = pr]
CommandStage(uses) == [DefaultStage EXCEPT !.kind = "command", !.uses = uses]
ApprovalStage(count, bound) ==
  [DefaultStage EXCEPT !.kind = "approval", !.count = count, !.bind_head = bound]
FanoutStage(join, plan) ==
  [DefaultStage EXCEPT !.kind = "fanout", !.join = join, !.from_plan = plan]
MergeStage == DefaultStage
Reviewed(stages) == [stages |-> stages, allow_unreviewed |-> FALSE]

CodeFlow ==
  Reviewed(<<WorkStage("branch"), SubmitStage(FALSE), CommandStage({}),
             ApprovalStage(1, TRUE), MergeStage>>)
ResearchFlow == Reviewed(<<WorkStage("result"), ApprovalStage(1, FALSE)>>)
PlannedFlow ==
  Reviewed(<<WorkStage("result"), ApprovalStage(1, FALSE), WorkStage("branch"),
             SubmitStage(FALSE), CommandStage({}), ApprovalStage(1, TRUE), MergeStage>>)
EpicFlow == Reviewed(<<WorkStage("plan"), FanoutStage("all", TRUE), ApprovalStage(1, FALSE)>>)
Builtin == {CodeFlow, ResearchFlow, PlannedFlow, EpicFlow}
=============================================================================
