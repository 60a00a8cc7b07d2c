----------------------------- MODULE MCPipeline -----------------------------
(***************************************************************************)
(* Workflows for model checking Pipeline: the built-in ones, custom        *)
(* ones that put head-bound approvals, submits, fanouts, picks, explicit   *)
(* on_fail targets and every timeout action where the builtins do not have *)
(* them, and every small one.                                              *)
(***************************************************************************)
EXTENDS Pipeline, Completability, TLC

CONSTANT MaxStages   \* of the workflows that are enumerated

OnTimeout(stage, action) == [stage EXCEPT !.on_timeout = action]
OnFail(stage, target) == [stage EXCEPT !.on_fail = target]

Unreviewed(stages) == [stages |-> stages, allow_unreviewed |-> TRUE]

\* Review before the checks, on a forge with change ids, two reviewers.
ReviewFirst ==
  Reviewed(<<WorkStage("branch"), OnTimeout(ApprovalStage(2, TRUE), "reassign"),
             SubmitStage(TRUE), CommandStage({"pr", "head"}), MergeStage>>)
\* Two branch works with a plan-like approval between; failures go to stage 1.
TwoWorks ==
  Unreviewed(<<WorkStage("branch"), ApprovalStage(1, FALSE),
               OnTimeout(WorkStage("branch"), "cancel"),
               OnFail(CommandStage({"branch"}), 1), CommandStage({}), MergeStage>>)
\* A head-bound pick.
BoundPick ==
  Reviewed(<<WorkStage("branch"), FanoutStage("pick", FALSE), ApprovalStage(1, TRUE),
             CommandStage({}), MergeStage>>)
\* A pick that survives head changes, between two checks.
FreePick ==
  Reviewed(<<WorkStage("branch"), CommandStage({}), FanoutStage("pick", FALSE),
             ApprovalStage(2, FALSE), ApprovalStage(1, TRUE)>>)
FirstWins == Reviewed(<<WorkStage("plan"), FanoutStage("first", TRUE), ApprovalStage(1, FALSE)>>)
Custom == {ReviewFirst, TwoWorks, BoundPick, FreePick, FirstWins}

ChosenFlows == Builtin \cup Custom

-----------------------------------------------------------------------------
(* Every workflow of at most MaxStages stages over the stage shapes below  *)
(* that Workflow::validate accepts, instead of a chosen few: the rules     *)
(* have to be strong enough for the pipeline properties.                   *)

Shapes ==
  {SubmitStage(FALSE), CommandStage({}), MergeStage}
    \cup {WorkStage(o) : o \in WorkOutput} \cup {ApprovalStage(1, b) : b \in BOOLEAN}
    \cup {FanoutStage(j, FALSE) : j \in FanoutJoin}

\* allow_unreviewed is set only where it makes a difference.
StaticFlows ==
  {w \in [stages : UNION {[1 .. n -> Shapes] : n \in 1 .. MaxStages},
          allow_unreviewed : BOOLEAN] :
     /\ w.allow_unreviewed =>
          /\ IsKind(w, Len_(w), "merge")
          /\ \A i \in Index(w) : ~w.stages[i].bind_head
     /\ StaticRules(w)}

SmallFlows == {w \in StaticFlows : ~PickOutOfReach(w)}

\* The chosen workflows pass the whole of validate.
ASSUME ValidFlows == \A w \in ChosenFlows : ValidWorkflow(w)

\* Of the workflows that pass the static rules, the completability witness
\* rejects exactly those.
ASSUME WitnessRejects ==
  \A w \in StaticFlows : Completable(w) <=> ~PickOutOfReach(w)

AllFlows == ChosenFlows \cup SmallFlows

Symmetry ==
  Permutations(Heads) \cup Permutations(Patches)
    \cup Permutations(Reviewers) \cup Permutations(Children)
=============================================================================
