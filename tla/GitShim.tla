------------------------------ MODULE GitShim ------------------------------
(***************************************************************************)
(* The git guard of an agent: the shim in front of git (classify, route,   *)
(* snapshot), git itself, the agend hooks in the agent's worktree, and the *)
(* daemon that installs the hooks, writes the binding file and takes both  *)
(* away again, possibly while a git call is on its way.                    *)
(*                                                                         *)
(* A call is a record: the subcommand, its options (long names; short and  *)
(* abbreviated spellings are the same option), its first positional, the   *)
(* ref it names, the directory it is made in, and what it or its           *)
(* environment redirects. Repositories are named by their git dir: `team`  *)
(* is the canonical checkout's, w1 and w2 the linked worktrees of two      *)
(* tasks, and a nested repository lies in w1. There is always uncommitted  *)
(* work everywhere. What git does is taken from its documentation.         *)
(***************************************************************************)
EXTENDS Naturals, FiniteSets

CONSTANTS
    Calls,     \* the git calls an agent makes
    Config,    \* keys set to true in git's config files
    MaxOps     \* bound: bindings and releases begun by the daemon

ShimBounds == MaxOps \in Nat /\ {c.bypass : c \in Calls} \subseteq BOOLEAN

VARIABLES
    file,      \* the binding file of the agent
    tree,      \* the two worktrees: exists, marker, hooked (core.hooksPath), head
    daemon,    \* what the daemon is doing with which worktree
    proc,      \* the shim process and the git it becomes
    ops,       \* counter of the bound
    stray,     \* ghost: refs written that the agent may not write
    lost,      \* ghost: uncommitted work discarded with no snapshot of it
    touched    \* ghost: team checkouts changed that are not the agent's

vars == <<file, tree, daemon, proc, ops, stray, lost, touched>>

Worktrees == {"w1", "w2"}
BranchOf == [w1 |-> "b1", w2 |-> "b2"]
Namespace(w) == IF w = "w1" THEN {"b1", "b1side"} ELSE {"b2", "b2side"}
TeamDirs == Worktrees \union {"team"}

Missing == [kind |-> "missing", w |-> "none"]
Unbound == [kind |-> "none", w |-> "none"]
Bindings == {Missing, Unbound} \union [kind : {"work", "review"}, w : Worktrees]
Bound(f) == f.kind \in {"work", "review"}

Idle == [at |-> "idle"]
Steps == [ensure |-> <<"add", "marker", "hooks", "file">>,
          release |-> <<"file", "hooks", "marker", "remove">>]
NoOp == [op |-> "none", w |-> "none", kind |-> "none", step |-> 0]

TypeOK ==
    /\ file \in Bindings /\ ops \in 0..MaxOps
    /\ tree \in [Worktrees -> [exists : BOOLEAN, marker : BOOLEAN, hooked : BOOLEAN,
                               head : {"none", "detached", "b1", "b2", "main", "b1side", "b2side"}]]
    /\ proc.at \in {"idle", "planned", "saved"}
    /\ proc.at # "idle" => proc.route \in Worktrees \union {"none"}

NoTree == [exists |-> FALSE, marker |-> FALSE, hooked |-> FALSE, head |-> "none"]
Init ==
    /\ file = Missing /\ tree = [w \in Worktrees |-> NoTree] /\ daemon = NoOp
    /\ proc = Idle /\ ops = 0 /\ stray = {} /\ lost = {} /\ touched = {}

-----------------------------------------------------------------------------
(* Where a call acts                                                       *)

\* The work tree of a discovered repository and its git dir.
GitDirOf(dir) ==
    CASE dir \in {"canon", "gitdir"} -> "team"
      [] dir \in {"tmp", "workspace"} -> "none"
      [] OTHER -> dir
CommonOf(g) == IF g \in TeamDirs THEN "team" ELSE g
NotThere(dir) == dir \in Worktrees /\ ~tree[dir].exists
NoRepo == [git |-> "none", top |-> "none"]

\* [agend-shim/src/git.rs:191-236] resolve: git's answer for the call's globals, directory and environment
Resolve(c) ==
    IF (c.gd = "none" /\ GitDirOf(c.dir) = "none") \/ NotThere(c.dir) \/ NotThere(c.gd) THEN NoRepo
    ELSE [git |-> IF c.gd # "none" THEN c.gd ELSE GitDirOf(c.dir),
          top |-> CASE c.tree # "none" -> c.tree
                    [] c.tree = "none" /\ c.dir = "gitdir" -> "none"
                    [] OTHER -> c.dir]

\* The binding's worktree, while it is there.
Anchor(f) == IF Bound(f) /\ tree[f.w].exists THEN f.w ELSE "none"

Inside(top, w) == top = w \/ (top = "nested" /\ w = "w1")

\* [agend-shim/src/location.rs:105-136] locate
Locate(r, explicit, f) ==
    LET w == Anchor(f)
        own == w # "none" /\ (IF explicit THEN r.git = w ELSE r.top = w)
        team == CommonOf(r.git) = "team"
    IN  CASE own -> "Worktree"
          [] ~own /\ team -> IF r.git = "team" THEN "Canonical" ELSE "OtherWorktree"
          [] ~own /\ ~team /\ w # "none" /\ Inside(r.top, w) -> "Nested"
          [] ~own /\ ~team /\ r.git = "module" -> "OtherWorktree"
          [] OTHER -> "Foreign"

\* [agend-shim/src/classify.rs:190-193] needs_location
NeedsLocation(c) == c.sub \notin {"version", "init", "clone"}

Retargets(c) == c.gd # "none" \/ c.tree # "none"
EnvRetargets(c) == c.env /\ (Retargets(c) \/ c.index # "none")

\* [agend-shim/src/git.rs:69-98] plan: the location; only the workspace stands for the bound worktree
Location(c, f) ==
    LET r == Resolve(c) IN
    CASE ~NeedsLocation(c) -> "Unknown"
      [] NeedsLocation(c) /\ r = NoRepo ->
            IF c.dir = "workspace" /\ ~Retargets(c) /\ ~EnvRetargets(c) /\ f # Missing THEN "Workspace" ELSE "NoRepo"
      [] NeedsLocation(c) /\ r # NoRepo /\ f = Missing -> "Unknown"
      [] OTHER -> Locate(r, Retargets(c), f)

-----------------------------------------------------------------------------
(* What a call may do                                                      *)

Has(c, o) == o \in c.opts

\* [agend-shim/src/classify.rs:875-908] kind: read or write; "none" for a command it does not know
Kind(c) ==
    LET read == CASE c.sub \in {"branch", "tag"} -> c.first = ""
                  [] c.sub = "stash" -> c.first \in {"list", "show"}
                  [] c.sub = "remote" -> \/ c.first \in {"", "show", "get-url"}
                                         \/ c.first = "prune" /\ Has(c, "dry-run")
                  [] c.sub = "reflog" -> c.first \notin {"expire", "delete"}
                  [] c.sub = "submodule" -> c.first \in {"", "status", "summary"}
                  [] c.sub = "worktree" -> c.first = "list"
                  [] OTHER -> c.sub \in {"status", "log", "init", "clone", "version"}
    IN  IF c.sub = "alias" THEN "none" ELSE IF read THEN "read" ELSE "write"

SnapshotOps == {"reset", "clean", "checkout", "restore", "switch", "rm", "mv", "merge", "rebase", "pull"}

\* [agend-shim/src/classify.rs:785-823] destructive: what a snapshot is taken for
Destructive(c) ==
    /\ c.sub \in SnapshotOps
    /\ CASE c.sub = "reset" -> Has(c, "hard") \/ Has(c, "keep")
         [] c.sub = "restore" -> ~Has(c, "staged") \/ Has(c, "worktree")
         [] c.sub = "switch" -> Has(c, "force") \/ Has(c, "discard-changes")
         [] c.sub \in {"rm", "mv"} -> Has(c, "force") /\ ~Has(c, "cached") /\ ~Has(c, "dry-run")
         [] OTHER -> TRUE

\* [agend-shim/src/classify.rs:456-484] check_hooks_kept
HooksKept(c) == "core.hookspath" \notin c.cfg /\ ~(c.sub = "push" /\ Has(c, "no-verify"))

\* [agend-shim/src/classify.rs:551-616] leaves_branch, previous and stays: `-` is resolved by git
Leaves(c, f) ==
    /\ c.sub \in {"checkout", "switch"}
    /\ \/ c.opts \cap {"detach", "orphan", "create"} # {}
       \/ /\ c.ref # "" /\ ~(c.sub = "checkout" /\ c.paths)
          /\ c.ref # "HEAD" /\ ~(f.kind = "work" /\ c.ref = BranchOf[f.w])

\* [agend-shim/src/classify.rs:638-659] copy_or_rename: git 2.39 writes the new name outside a transaction
Renames(c) == c.sub = "branch" /\ c.opts \cap {"move", "copy"} # {}

\* [agend-shim/src/classify.rs:674-707] untracked_ref_write
Untracked(c) ==
    \/ c.sub = "symbolic-ref" /\ (c.first = "set" \/ Has(c, "delete"))
    \/ c.sub = "reflog" /\ c.first \in {"expire", "delete"}

\* [agend-shim/src/classify.rs:709-771] unsnapshotted: what a snapshot cannot undo
Unsnapshotted(c) ==
    \/ c.sub = "stash"
    \/ c.sub = "remote" /\ (c.first \in {"add", "remove", "rename", "prune"} \/ (c.first = "update" /\ Has(c, "prune")))
    \/ c.sub = "submodule" /\ c.first = "foreach"
    \/ /\ c.sub \in {"reset", "checkout", "restore", "switch"} /\ Destructive(c)
       /\ \/ Has(c, "recurse-submodules")
          \/ ~Has(c, "no-recurse-submodules") /\ "submodule.recurse" \in c.cfg \union Config
    \/ c.sub = "clean" /\ (Has(c, "x") \/ Has(c, "ff"))

\* [agend-shim/src/classify.rs:764-783] config_true and autostash
Autostash(c) ==
    /\ c.sub \in {"rebase", "merge", "pull"}
    /\ \/ Has(c, "autostash") \/ "autostash" \in c.cfg
       \/ "autostash" \in Config /\ c.opts \cap {"no-autostash", "continue", "abort"} = {}

Refuse(code) == [run |-> FALSE, route |-> "none", snap |-> FALSE, code |-> code]
Run(route, snap) == [run |-> TRUE, route |-> route, snap |-> snap, code |-> ""]
Pass == Run("none", FALSE)

\* [agend-shim/src/classify.rs:345-401] route_dir: the same directory, if the bound worktree has it
RouteDir(c, loc, f) ==
    CASE loc = "OtherWorktree" -> Refuse("other_worktree")
      [] loc # "OtherWorktree" /\ c.deep -> Refuse("route_dir_missing")
      [] OTHER -> Run(f.w, FALSE)

\* [agend-shim/src/classify.rs:486-545] check_work_tree
WorkTreeOk(c, loc, f) ==
    IF loc # "Worktree" THEN c.env \/ ~Retargets(c)
    ELSE Resolve(c).top = f.w /\ c.index \in {"none", f.w}

\* [agend-shim/src/classify.rs:229-324] write
Write(c, f, loc) ==
    LET routed == RouteDir(c, loc, f)
        noTop == Resolve(c) # NoRepo /\ Resolve(c).top = "none"
    IN
    CASE f = Missing -> Refuse("no_binding")
      [] f = Unbound -> Refuse("unbound")
      [] Bound(f) /\ ~tree[f.w].exists -> Refuse("worktree_missing")
      [] loc = "NoRepo" -> Refuse("no_repo_there")
      [] Bound(f) /\ loc # "Worktree" /\ noTop /\ ~(Retargets(c) /\ ~c.env) -> Refuse("route_dir_missing")
      [] Bound(f) /\ loc # "Worktree" /\ ~routed.run -> routed
      [] Bound(f) /\ loc # "Worktree" /\ EnvRetargets(c) -> Refuse("git_env_retarget")
      [] Bound(f) /\ ~WorkTreeOk(c, loc, f) -> Refuse("work_tree_retarget")
      [] Bound(f) /\ ~tree[f.w].marker -> Refuse("hooks_missing")
      [] Bound(f) /\ Leaves(c, f) -> Refuse("branch_switch")
      [] Renames(c) -> Refuse("branch_copy")
      [] Untracked(c) -> Refuse("ref_outside_hook")
      [] Unsnapshotted(c) -> Refuse("unsnapshotted")
      [] Autostash(c) -> Refuse("autostash")
      [] OTHER -> Run(IF loc = "Worktree" THEN "none" ELSE routed.route, Destructive(c))

\* [agend-shim/src/classify.rs:326-343] route_read
Read(c, f, loc) ==
    IF ~Bound(f) \/ loc \notin {"Canonical", "Workspace"} \/ EnvRetargets(c) \/ ~tree[f.w].exists THEN Pass
    ELSE RouteDir(c, loc, f)

\* [agend-shim/src/classify.rs:411-454] foreign: not the team's remote, a clone of it, or a push to it
ForeignCall(c, loc) ==
    CASE Kind(c) = "read" -> Pass
      [] Kind(c) # "read" /\ c.dir = "clone" -> Refuse("team_clone")
      [] Kind(c) # "read" /\ c.sub = "push" /\ c.dest = "team" -> Refuse("team_remote")
      [] OTHER -> Run("none", loc = "Nested" /\ Destructive(c))

\* [agend-shim/src/classify.rs:195-227] classify
Classify(c, f, loc) ==
    CASE c.sub = "version" -> Pass
      [] c.sub # "version" /\ loc \in {"Foreign", "Nested"} -> ForeignCall(c, loc)
      [] c.sub # "version" /\ loc \notin {"Foreign", "Nested"} ->
            CASE ~HooksKept(c) -> Refuse("hooks_skipped")
              [] HooksKept(c) /\ c.sub = "worktree" /\ c.first # "list" -> Refuse("worktree_managed")
              [] HooksKept(c) /\ Kind(c) = "none" -> Refuse("unknown_command")
              [] HooksKept(c) /\ Kind(c) = "read" -> Read(c, f, loc)
              [] OTHER -> Write(c, f, loc)

\* [agend-shim/src/git.rs:25-67] plan: the bypass, the binding, the directory and the decision
Plan(c) ==
    LET loc == Location(c, file)
        d == IF c.bypass THEN Pass ELSE Classify(c, file, loc)
    IN
    /\ proc = Idle /\ d.run
    /\ proc' = [at |-> "planned", c |-> c, f |-> file, route |-> d.route, snap |-> d.snap,
                place |-> IF ~d.snap THEN "none" ELSE IF loc = "Nested" THEN Resolve(c).top ELSE file.w]
    /\ UNCHANGED <<file, tree, daemon, ops, stray, lost, touched>>

\* [agend-shim/src/git.rs:128-158] plan: no snapshot, no run
SnapshotFails ==
    /\ proc.at = "planned" /\ proc.snap /\ proc' = Idle
    /\ UNCHANGED <<file, tree, daemon, ops, stray, lost, touched>>

\* [agend-shim/src/snapshot.rs:53-109] take: the whole work tree, ignored files and submodules excepted
TakeSnapshot ==
    /\ proc.at = "planned" /\ proc.snap
    /\ (proc.place \in Worktrees => tree[proc.place].exists)
    /\ proc' = [proc EXCEPT !.at = "saved"]
    /\ UNCHANGED <<file, tree, daemon, ops, stray, lost, touched>>

-----------------------------------------------------------------------------
(* git, and the hooks it runs                                              *)

Acts == IF proc.route # "none" THEN [git |-> proc.route, top |-> proc.route] ELSE Resolve(proc.c)

HeadRef(g) == IF g \in Worktrees THEN tree[g].head ELSE IF g = "team" THEN "main" ELSE "none"
Stashes(c) ==
    /\ c.sub \in {"rebase", "merge", "pull"}
    /\ Has(c, "autostash") \/ ("autostash" \in c.cfg \union Config /\ ~Has(c, "no-autostash"))
OnHead == {"commit", "reset", "merge", "rebase", "pull"}

\* [external] the refs git changes in a transaction it tells the hook of
TxRefs(c, g) ==
    CASE c.sub \in OnHead ->
            ({HeadRef(g)} \union (IF Stashes(c) THEN {"stash"} ELSE {})) \ {"none", "detached"}
      [] c.sub \in {"branch", "update-ref"} /\ c.opts \cap {"move", "copy"} = {} -> {c.ref} \ {""}
      [] c.sub \in {"checkout", "switch"} /\ Has(c, "create") -> {c.ref}
      [] c.sub = "stash" /\ c.first \notin {"list", "show"} -> {"stash"}
      [] OTHER -> {}

\* [external] the refs git 2.39 changes outside a transaction
RawRefs(c) ==
    IF \/ c.sub = "branch" /\ c.opts \cap {"move", "copy"} # {}
       \/ c.sub = "symbolic-ref" \/ (c.sub = "reflog" /\ c.first = "delete")
    THEN {c.ref} \ {""} ELSE {}

\* [external] the remote's refs a push changes
Pushed(c) == IF c.sub = "push" THEN {c.ref} ELSE {}

\* [external] the uncommitted work that is not there afterwards
Discards(c) ==
    (IF \/ c.sub \in {"reset"} /\ Has(c, "hard")
        \/ c.sub = "restore" /\ (~Has(c, "staged") \/ Has(c, "worktree"))
        \/ c.sub = "checkout" /\ (c.paths \/ Has(c, "force"))
        \/ c.sub = "switch" /\ Has(c, "discard-changes")
        \/ c.sub \in {"rm", "mv"} /\ Has(c, "force") /\ ~Has(c, "cached") /\ ~Has(c, "dry-run")
        \/ c.sub = "clean" \/ c.sub \in {"rebase", "merge", "pull"}
     THEN {"edits"} ELSE {})
    \union (IF c.sub = "clean" /\ Has(c, "x") THEN {"ignored"} ELSE {})
    \union (IF c.sub = "clean" /\ Has(c, "ff") THEN {"nested"} ELSE {})
    \union (IF \/ c.sub = "submodule" /\ c.first = "foreach"
               \/ /\ c.sub = "reset" /\ Has(c, "hard")
                  /\ \/ Has(c, "recurse-submodules")
                     \/ "submodule.recurse" \in c.cfg \union Config /\ ~Has(c, "no-recurse-submodules")
            THEN {"submodule"} ELSE {})

\* [external] where git leaves HEAD
NewHead(c, old) ==
    CASE c.sub \notin {"checkout", "switch"} \/ c.paths -> old
      [] c.opts \cap {"detach", "orphan"} # {} -> "detached"
      [] c.ref \in {"", "HEAD"} -> old
      [] OTHER -> c.ref

\* [agend-shim/src/hook.rs:145-190] check_update: refs/stash, the binding, the protected, the agent's own
MayWrite(ref, deleted) ==
    /\ ref # "stash" /\ file # Missing /\ ref # "main"
    /\ file.kind = "work" /\ ref \in Namespace(file.w)
    /\ ~(deleted /\ ref = BranchOf[file.w])

\* [agend-shim/src/hook.rs:192-234] check_push: only the bound branch, and not its deletion
MayPush(ref, deleted) == file.kind = "work" /\ ref = BranchOf[file.w] /\ ~deleted

\* [agend-shim/src/hook.rs:101-137] check: every line of the transaction or of the push
HookAllows(c, g) ==
    LET deleted == Has(c, "delete") IN
    /\ \A ref \in TxRefs(c, g) : MayWrite(ref, deleted)
    /\ \A ref \in Pushed(c) : MayPush(ref, deleted)

\* [agend-shim/src/hook.rs:52-97] run: git finds the hooks by the worktree's core.hooksPath
HooksRun(c, g) == g \in Worktrees /\ tree[g].hooked /\ "core.hookspath" \notin c.cfg

Own(ref) == file.kind = "work" /\ ref \in Namespace(file.w)

\* [agend-shim/src/git.rs:160-178] plan: the real git replaces the shim, routed or as typed
Exec ==
    LET c == proc.c
        a == Acts
        team == CommonOf(a.git) = "team"
        ran == a # NoRepo /\ (Kind(c) # "read" \/ c.bypass)
        guarded == HooksRun(c, a.git)
        allowed == guarded => HookAllows(c, a.git)
        refs == TxRefs(c, a.git) \union RawRefs(c) \union (IF c.dest = "team" THEN Pushed(c) ELSE {})
        bad == {r \in refs : ~Own(r)}
        there == a.git \in Worktrees /\ tree[a.git].hooked
        late == a.git \in Worktrees /\ ~tree[a.git].hooked /\ file.w # a.git
        exempt == late \/ (c.bypass /\ (~there \/ ~HooksKept(c) \/ bad \cap RawRefs(c) # {}))
        loses == {<<a.top, k>> : k \in Discards(c)}
        covered == IF proc.at = "saved" THEN {<<proc.place, "edits">>} ELSE {}
    IN
    /\ (proc.at = "planned" /\ ~proc.snap) \/ proc.at = "saved"
    /\ proc' = Idle
    /\ stray' = stray \union IF ran /\ (team \/ c.dest = "team") /\ allowed /\ ~exempt THEN bad ELSE {}
    /\ lost' = lost \union
          IF ran /\ ~c.bypass /\ (team \/ (a.git = "nested" /\ Bound(proc.f) /\ Inside(a.top, proc.f.w)))
          THEN {l \in loses : l \notin covered /\ (a.git = "nested" => l[2] = "edits")} ELSE {}
    /\ touched' = touched \union
          IF ran /\ ~c.bypass /\ team /\ (a.git # proc.f.w \/ a.top # proc.f.w) THEN {a} ELSE {}
    /\ tree' = IF ran /\ a.git \in Worktrees /\ allowed /\ (a.top = a.git)
               THEN [tree EXCEPT ![a.git].head = IF c.bypass THEN @ ELSE NewHead(c, @)] ELSE tree
    /\ UNCHANGED <<file, daemon, ops>>

-----------------------------------------------------------------------------
(* The daemon                                                              *)

\* [agend-daemon/src/bindings.rs:69-80] ensure, [.. :157-170] release: one at a time, one binding per agent
Begin(op, w, kind) ==
    /\ daemon = NoOp /\ ops < MaxOps /\ ops' = ops + 1
    /\ IF op = "ensure" THEN (Bound(file) => file.w = w) ELSE Bound(file) /\ file.w = w /\ file.kind = kind
    /\ daemon' = [op |-> op, w |-> w, kind |-> kind, step |-> 1]
    /\ UNCHANGED <<file, tree, proc, stray, lost, touched>>

\* [agend-shim/src/hook.rs:344-372] install_hooks: the marker, then core.hooksPath, whatever is there
Install(w) == [tree EXCEPT ![w].hooked = TRUE]

\* [agend-shim/src/hook.rs:374-395] uninstall_hooks: core.hooksPath, then the marker
Uninstall(w, what) == IF what = "hooks" THEN [tree EXCEPT ![w].hooked = FALSE] ELSE [tree EXCEPT ![w].marker = FALSE]

\* [agend-daemon/src/bindings.rs:81-155] ensure: a step; the binding file comes last
EnsureStep ==
    LET w == daemon.w
        what == Steps.ensure[daemon.step]
        right == IF daemon.kind = "work" THEN BranchOf[w] ELSE "detached"
    IN
    /\ daemon.op = "ensure"
    /\ IF what = "add" /\ tree[w].exists /\ tree[w].head # right
       THEN daemon' = NoOp /\ UNCHANGED <<tree, file>>
       ELSE /\ daemon' = IF what = "file" THEN NoOp ELSE [daemon EXCEPT !.step = @ + 1]
            /\ tree' = CASE what = "add" -> [tree EXCEPT ![w].exists = TRUE, ![w].head = right]
                         [] what = "marker" -> [tree EXCEPT ![w].marker = TRUE]
                         [] what = "hooks" -> Install(w)
                         [] what = "file" -> tree
            /\ file' = IF what = "file" THEN [kind |-> daemon.kind, w |-> w] ELSE file
    /\ UNCHANGED <<proc, ops, stray, lost, touched>>

\* [agend-daemon/src/bindings.rs:171-208] release: a step; the binding file comes first
ReleaseStep ==
    LET w == daemon.w
        what == Steps.release[daemon.step]
    IN
    /\ daemon.op = "release"
    /\ daemon' = IF what = "remove" THEN NoOp ELSE [daemon EXCEPT !.step = @ + 1]
    /\ file' = IF what = "file" THEN Unbound ELSE file
    /\ tree' = CASE what = "file" -> tree
                 [] what \in {"hooks", "marker"} -> Uninstall(w, what)
                 [] what = "remove" -> [tree EXCEPT ![w] = NoTree]
    /\ UNCHANGED <<proc, ops, stray, lost, touched>>

\* [external] the daemon dies and comes back: what it was doing is begun again or left
Crash ==
    /\ daemon # NoOp /\ daemon' = NoOp
    /\ UNCHANGED <<file, tree, proc, ops, stray, lost, touched>>

Next ==
    \/ \E c \in Calls : Plan(c)
    \/ SnapshotFails \/ TakeSnapshot \/ Exec
    \/ \E op \in {"ensure", "release"}, w \in Worktrees, kind \in {"work", "review"} : Begin(op, w, kind)
    \/ EnsureStep \/ ReleaseStep \/ Crash

Spec == Init /\ [][Next]_vars

-----------------------------------------------------------------------------
(* Properties                                                              *)

\* No ref but the agent's own is written by a call, bound to whatever task when it was planned and
\* whatever the daemon did since: the shim refuses what the hook does not see, the hook the rest. Exempt
\* are a bypassed call that the hook does not see, and a call that is already on its way between the
\* removal of the hooks and the removal of the worktree.
RefsAreOwn == stray = {}

\* Uncommitted work of the team's checkouts and of nested repositories is only discarded after a
\* snapshot of it was taken.
NothingLost == lost = {}

\* A call that changes something acts on the git dir and the work tree that were bound when it was
\* planned, never on the canonical checkout or another agent's worktree.
HandsOff == touched = {}

\* The worktree of a work binding stays on its branch.
StaysOnBranch == file.kind = "work" /\ tree[file.w].exists => tree[file.w].head = BranchOf[file.w]

\* A binding is only visible while its worktree has working hooks, however often the daemon died while
\* installing or removing them.
HooksFirst == Bound(file) => tree[file.w].exists /\ tree[file.w].hooked /\ tree[file.w].marker

=============================================================================
