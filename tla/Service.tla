-------------------------------- MODULE Service --------------------------------
(***************************************************************************)
(* Installing and removing the user service (agend/src/service.rs and      *)
(* service/: lifecycle.rs, files.rs, manager.rs, purge.rs).                *)
(*                                                                         *)
(* An installation is a receipt, a copy of the executable, a unit file, a  *)
(* registration with launchd or systemd, and shims the daemon writes at    *)
(* boot.  Operators run install and uninstall, also two at once and with   *)
(* different binaries; each may be killed or have a command of the service *)
(* manager fail, with or without effect, at any step, and is then run      *)
(* again.  The user edits, removes or creates files of these names between *)
(* operations and starts a daemon by hand whenever he likes.               *)
(***************************************************************************)
EXTENDS Integers, FiniteSets

CONSTANTS
    Ops,          \* operators' commands that may run at the same time
    Versions,     \* binaries: their hashes
    Systemd,      \* TRUE: systemd, which loads units on daemon-reload; FALSE: launchd
    MaxFault,     \* kills and failed commands
    MaxEdit       \* interventions of the user

ServiceAssumption ==
    /\ Versions \subseteq Nat \ {0}
    /\ Systemd \in BOOLEAN
    /\ MaxFault \in Nat /\ MaxEdit \in Nat

VARIABLES
    receipt,      \* service/installation.json
    program,      \* service/agend: 0, the hash of a copy, or Foreign
    unit,         \* the unit file or plist
    shim,         \* bin/ in the home
    label,        \* what the service manager has under AgEnD's label
    daemon,       \* the daemon that serves this home, if any
    holders,      \* whether holders run
    data,         \* whether the home's data is there
    op,           \* operator -> the command it is in
    guard,        \* the operator that holds .agend-maintenance.lock exclusively, or 0
    faults, edits

vars == <<receipt, program, unit, shim, label, daemon, holders, data, op, guard, faults, edits>>
--------------------------------------------------------------------------------
Foreign == 99
NoOp == [pc |-> "idle", ver |-> 0, start |-> FALSE, purge |-> FALSE]

\* [agend-core/src/setup/service.rs:38-54] InstallPhase, Installation
NoReceipt == [phase |-> "none", hash |-> 0]
Phases == {"none", "prepared", "registered", "removing"}

\* What the service manager may have: nothing, our unit, our unit with its daemon, or a
\* service of somebody else's path.
Labels == {"absent", "loaded", "running", "foreign"}

Init ==
    /\ receipt = NoReceipt
    /\ program = 0
    /\ unit = "absent"
    /\ shim = "absent"
    /\ label = "absent"
    /\ daemon = "none"
    /\ holders = FALSE
    /\ data = TRUE
    /\ op = [o \in Ops |-> NoOp]
    /\ guard = 0
    /\ faults = 0 /\ edits = 0

--------------------------------------------------------------------------------
(* What the steps look at. *)

\* [agend/src/service/files.rs:84-126] lock, InstallLock: one operation at a time.
InstallLocked == \E o \in Ops : op[o].pc # "idle"

\* [agend/src/service/files.rs:243-255] matches_program, [sha256], [regular]: the copy of the receipt,
\* or none.
MatchesProgram == program \in {0, receipt.hash}

\* [agend/src/service/files.rs:216-241] matches_bytes, [sha256]
MatchesUnit == unit # "foreign"

\* [agend/src/service/lifecycle.rs:113-120] check_artifacts: an edited file is preserved.
CheckArtifacts == MatchesProgram /\ MatchesUnit

\* [agend/src/service/manager/systemd.rs:209-266] live_process, also launchd's: the process
\* the manager runs is the managed executable.
LiveProcess == label = "running" => program = receipt.hash

\* [agend/src/service/manager/systemd.rs:87-207] properties, validate: every loaded property
\* is the one of our unit, not just its path.
Validated == label # "foreign"

\* [agend/src/service/manager.rs:31-104] inspect: what is loaded under the label is exactly
\* our unit; anything else is an error.
Inspects == Validated /\ LiveProcess

\* [agend/src/service/lifecycle.rs:226-229] socket_live
SocketLive == daemon # "none"

\* [agend-daemon/src/store/maintenance.rs:76-99] Maintenance::acquire: nobody uses the home.
Maintainable == daemon = "none" /\ guard = 0

\* [agend/src/service/lifecycle.rs:300-342] preflight_shims: boot would overwrite them.
PreflightShims == shim # "foreign"

--------------------------------------------------------------------------------
(* Steps. *)

Go(o, pc) == op' = [op EXCEPT ![o].pc = pc]

\* The command returns; what it holds is released.
Return(o) ==
    /\ op' = [op EXCEPT ![o] = NoOp]
    /\ guard' = IF guard = o THEN 0 ELSE guard

\* [agend/src/service/files.rs:148-214] load, save, publish: a receipt is linked or replaces the
\* previous one.
Save(phase, hash) == receipt' = [phase |-> phase, hash |-> hash]

Refuse(o) ==
    /\ Return(o)
    /\ UNCHANGED <<receipt, program, unit, shim, label, daemon, holders, data, faults, edits>>

\* [agend/src/service/lifecycle.rs:200-214] validate, [prepare]: the receipt there is of
\* this installation and this binary.
Adopts(v) == receipt.phase \notin {"none", "removing"} /\ receipt.hash = v

\* [agend/src/service/lifecycle.rs:49-69] prepare: without a receipt nothing of these names
\* may exist.
Fresh(start) ==
    /\ receipt.phase = "none"
    /\ unit = "absent" /\ program = 0
    /\ start => Inspects /\ label = "absent"

\* [agend/src/service/lifecycle.rs:23-76] Owned::prepare: the lock, the receipt and the
\* artifacts, before anything is published.
Prepare(o, v, start) ==
    /\ op[o].pc = "idle"
    /\ ~InstallLocked
    /\ \/ Adopts(v) /\ CheckArtifacts /\ UNCHANGED receipt
       \/ Fresh(start) /\ Save("prepared", v)
    /\ op' = [op EXCEPT ![o] = [pc |-> "publish", ver |-> v, start |-> start, purge |-> FALSE]]
    /\ UNCHANGED <<program, unit, shim, label, daemon, holders, data, guard, faults, edits>>

\* [agend/src/service/lifecycle.rs:77-83] prepare: the executable, exclusively.
PublishProgram(o) == program' = IF program = 0 THEN op[o].ver ELSE program

Publish(o) ==
    /\ op[o].pc = "publish"
    /\ PublishProgram(o)
    /\ Go(o, "define")
    /\ UNCHANGED <<receipt, unit, shim, label, daemon, holders, data, guard, faults, edits>>

\* [agend/src/service/lifecycle.rs:84-91] prepare: the unit file, exclusively.
Define(o) ==
    /\ op[o].pc = "define"
    /\ unit' = IF unit = "absent" THEN "own" ELSE unit
    /\ IF op[o].start THEN Go(o, "register") /\ UNCHANGED guard ELSE Return(o)
    /\ UNCHANGED <<receipt, program, shim, label, daemon, holders, data, faults, edits>>

\* [agend/src/service/lifecycle.rs:122-145] register: nobody else serves this home.
Register(o) ==
    /\ op[o].pc = "register"
    /\ IF /\ CheckArtifacts /\ PreflightShims /\ Inspects
          /\ label # "running" => ~SocketLive /\ Maintainable
         THEN Go(o, "start") /\ UNCHANGED guard
         ELSE Return(o)
    /\ UNCHANGED <<receipt, program, unit, shim, label, daemon, holders, data, faults, edits>>

\* [agend/src/service/manager.rs:159-168] reload: systemd reads the unit files again.
Reloaded ==
    IF ~Systemd THEN label
    ELSE IF unit = "foreign" THEN "foreign"
    ELSE IF unit = "own" /\ label = "absent" THEN "loaded"
    ELSE IF unit = "absent" /\ label = "loaded" THEN "absent"
    ELSE label

\* [agend/src/service/manager.rs:105-133] start
Started == IF Systemd \/ label = "absent" THEN "running" ELSE label

Start(o) ==
    /\ op[o].pc = "start"
    /\ Inspects /\ (Systemd => Reloaded # "absent" /\ Reloaded # "foreign")
    /\ label' = Started
    /\ Go(o, "registered")
    /\ UNCHANGED <<receipt, program, unit, shim, daemon, holders, data, guard, faults, edits>>

StartRefused(o) ==
    /\ op[o].pc = "start"
    /\ ~Inspects \/ (Systemd /\ Reloaded \in {"absent", "foreign"})
    /\ Refuse(o)

\* [agend/src/service/lifecycle.rs:146-154] register: the receipt says so.
Registered(o) ==
    /\ op[o].pc = "registered"
    /\ IF Inspects /\ label # "absent" THEN Save("registered", receipt.hash) ELSE UNCHANGED receipt
    /\ Return(o)
    /\ UNCHANGED <<program, unit, shim, label, daemon, holders, data, faults, edits>>

--------------------------------------------------------------------------------
(* Removal. *)

\* [agend/src/service/lifecycle.rs:93-174] Owned::open, remove_with_data: everything that
\* could refuse is looked at before the receipt says the removal has begun.
Open(o, purge) ==
    /\ op[o].pc = "idle" /\ ~InstallLocked
    /\ receipt.phase # "none"
    /\ CheckArtifacts /\ Inspects
    /\ Save("removing", receipt.hash)
    /\ op' = [op EXCEPT ![o] = [NoOp EXCEPT !.pc = "stop", !.purge = purge]]
    /\ UNCHANGED <<program, unit, shim, label, daemon, holders, data, guard, faults, edits>>

\* The unit is unloaded or disabled and its daemon has ended; holders outlive it.
StoppedDaemon == IF daemon = "managed" THEN "none" ELSE daemon

\* [agend/src/service/manager.rs:134-157] stop
Stop(o) ==
    /\ op[o].pc = "stop"
    /\ Inspects
    /\ label' = IF label = "absent" THEN label ELSE IF Systemd THEN "loaded" ELSE "absent"
    /\ daemon' = StoppedDaemon
    /\ Go(o, "exclude")
    /\ UNCHANGED <<receipt, program, unit, shim, holders, data, guard, faults, edits>>

StopRefused(o) == op[o].pc = "stop" /\ ~Inspects /\ Refuse(o)

\* No daemon serves this home, and from here on none can start on it.
Excluded(o) == ~SocketLive /\ Maintainable

\* Mutant: the lock is only probed, as before a start.
ExcludeProbe(o) ==
    /\ op[o].pc = "exclude"
    /\ IF Excluded(o) THEN Go(o, "holders") /\ UNCHANGED guard ELSE Return(o)
    /\ UNCHANGED <<receipt, program, unit, shim, label, daemon, holders, data, faults, edits>>

\* [agend/src/service/lifecycle.rs:175-184] remove_with_data
Exclude(o) ==
    /\ op[o].pc = "exclude"
    /\ IF Excluded(o) THEN guard' = o /\ Go(o, "holders") ELSE Return(o)
    /\ UNCHANGED <<receipt, program, unit, shim, label, daemon, holders, data, faults, edits>>

\* [agend/src/service/lifecycle.rs:231-265] holder_paths, stop_holders
StopHolders(o) ==
    /\ op[o].pc = "holders"
    /\ holders' = FALSE
    /\ Go(o, "shims")
    /\ UNCHANGED <<receipt, program, unit, shim, label, daemon, data, guard, faults, edits>>

\* [agend/src/service/lifecycle.rs:267-298] remove_shims: only links to our executable.
RemoveShims == shim' = IF shim = "own" THEN "absent" ELSE shim

Shims(o) ==
    /\ op[o].pc = "shims"
    /\ CheckArtifacts
    /\ RemoveShims
    /\ Go(o, "unit")
    /\ UNCHANGED <<receipt, program, unit, label, daemon, holders, data, guard, faults, edits>>

\* [agend/src/service/lifecycle.rs:216-224] remove_if_present, in remove_with_data
RemoveUnit(o) ==
    /\ op[o].pc = "unit"
    /\ unit' = "absent"
    /\ Go(o, "reload")
    /\ UNCHANGED <<receipt, program, shim, label, daemon, holders, data, guard, faults, edits>>

Reload(o) ==
    /\ op[o].pc = "reload"
    /\ label' = Reloaded
    /\ Go(o, "program")
    /\ UNCHANGED <<receipt, program, unit, shim, daemon, holders, data, guard, faults, edits>>

RemoveProgram(o) ==
    /\ op[o].pc = "program"
    /\ program' = 0
    /\ Go(o, IF op[o].purge THEN "purge" ELSE "receipt")
    /\ UNCHANGED <<receipt, unit, shim, label, daemon, holders, data, guard, faults, edits>>

\* [agend/src/service/purge.rs:11-130] preflight, inspect, delete, remove: everything in
\* the home but the locks and the receipt.
Purge(o) ==
    /\ op[o].pc = "purge"
    /\ data' = FALSE /\ shim' = "absent"
    /\ Go(o, "receipt")
    /\ UNCHANGED <<receipt, program, unit, label, daemon, holders, guard, faults, edits>>

\* [agend/src/service/lifecycle.rs:185-198] remove_with_data: the receipt goes last.
RemoveReceipt(o) ==
    /\ op[o].pc = "receipt"
    /\ receipt' = NoReceipt
    /\ Return(o)
    /\ UNCHANGED <<program, unit, shim, label, daemon, holders, data, faults, edits>>

--------------------------------------------------------------------------------
(* The daemons, the user, and faults. *)

\* A daemon that the manager keeps running, or that the user starts, takes the shared side
\* of the maintenance lock; then it repairs its shims and runs agents in holders.
Boot(who) ==
    /\ daemon = "none" /\ guard = 0
    /\ who = "managed" => label = "running" /\ program # 0
    /\ who = "alone" => edits < MaxEdit
    /\ edits' = IF who = "alone" THEN edits + 1 ELSE edits
    /\ daemon' = who
    /\ shim' = "own"
    /\ holders' = TRUE
    /\ data' = TRUE
    /\ UNCHANGED <<receipt, program, unit, label, op, guard, faults>>

\* It crashes, or the user ends it.
DaemonEnds ==
    /\ daemon # "none"
    /\ daemon' = "none"
    /\ UNCHANGED <<receipt, program, unit, shim, label, holders, data, op, guard, faults, edits>>

\* Between operations: a file of ours is edited or removed, or one appears where none was.
UserEdits ==
    /\ ~InstallLocked
    /\ edits < MaxEdit
    /\ edits' = edits + 1
    /\ \/ program' \in {0, Foreign} \ {program} /\ UNCHANGED <<unit, shim, label>>
       \/ unit' \in {"absent", "foreign"} \ {unit} /\ UNCHANGED <<program, shim, label>>
       \/ shim' \in {"absent", "foreign"} \ {shim} /\ UNCHANGED <<program, unit, label>>
       \/ label = "absent" /\ label' = "foreign" /\ UNCHANGED <<program, unit, shim>>
    /\ UNCHANGED <<receipt, daemon, holders, data, op, guard, faults>>

Fault(o) ==
    /\ op[o].pc # "idle"
    /\ faults < MaxFault
    /\ faults' = faults + 1
    /\ Return(o)

\* The command is killed, or a call of it fails.
Fails(o) ==
    /\ Fault(o)
    /\ UNCHANGED <<receipt, program, unit, shim, label, daemon, holders, data, edits>>

\* [agend/src/service/manager.rs:194-278] run, run_program_until: the manager's command times
\* out after it took effect.
LostReply(o) ==
    /\ Fault(o)
    /\ \/ op[o].pc = "start" /\ Inspects /\ label' = Started /\ UNCHANGED daemon
       \/ op[o].pc = "stop" /\ Inspects /\ label # "absent"
          /\ label' = (IF Systemd THEN "loaded" ELSE "absent") /\ daemon' = StoppedDaemon
       \/ op[o].pc = "reload" /\ label' = Reloaded /\ UNCHANGED daemon
    /\ UNCHANGED <<receipt, program, unit, shim, holders, data, edits>>

\* [agend/src/service.rs:104-145] install
Install(o) ==
    \/ \E v \in Versions, start \in BOOLEAN : Prepare(o, v, start)
    \/ Publish(o) \/ Define(o) \/ Register(o) \/ Start(o) \/ StartRefused(o) \/ Registered(o)

\* [agend/src/service.rs:166-203] uninstall
Removing(o) ==
    \/ Stop(o) \/ StopRefused(o) \/ Exclude(o) \/ StopHolders(o) \/ Shims(o) \/ RemoveUnit(o)
    \/ Reload(o) \/ RemoveProgram(o) \/ Purge(o) \/ RemoveReceipt(o)

Next ==
    \/ \E o \in Ops : Install(o)
    \/ \E o \in Ops, purge \in BOOLEAN : Open(o, purge)
    \/ \E o \in Ops : Removing(o) \/ Fails(o) \/ LostReply(o)
    \/ \E who \in {"managed", "alone"} : Boot(who)
    \/ DaemonEnds
    \/ UserEdits

Spec == Init /\ [][Next]_vars

--------------------------------------------------------------------------------
(* Properties. *)

TypeOK ==
    /\ receipt \in [phase: Phases, hash: Versions \cup {0}]
    /\ program \in {0, Foreign} \cup Versions
    /\ unit \in {"absent", "own", "foreign"}
    /\ shim \in {"absent", "own", "foreign"}
    /\ label \in Labels
    /\ daemon \in {"none", "managed", "alone"}
    /\ guard \in Ops \cup {0}

\* What is not the installation's is preserved: no operation changes an edited executable,
\* an edited unit file or a service of somebody else's path, and foreign shims go only with
\* the data of the whole home; whatever the user did between which commands.
Theirs == /\ program = Foreign => program' = Foreign
          /\ unit = "foreign" => unit' = "foreign"
          /\ label = "foreign" => label' = "foreign"
          /\ shim = "foreign" => shim' = "foreign" \/ daemon' # daemon \/ data' # data
                                  \/ \E o \in Ops : op[o].pc = "purge"
ForeignKept == edits' = edits => Theirs

\* Whatever a killed or failed command left - an executable, a unit file, a registration -
\* there is a receipt by which the next one finds it: nothing of ours is orphaned.
FoundAgain ==
    (program \in Versions \/ unit = "own" \/ label \in {"loaded", "running"}) => receipt.phase # "none"

\* The executable in place is the one of the receipt, also when two binaries install at
\* once and take over what a killed one left.
OneBinary == program \in Versions => program = receipt.hash

\* Data is deleted only by a confirmed uninstall, and never under a running daemon or its
\* holders.
DataSafe ==
    data /\ ~data' => /\ daemon = "none" /\ ~holders
                         /\ \E o \in Ops : op[o].purge

\* When the receipt goes, all it stood for has gone, in whatever pieces it was removed.
RemovedIsGone ==
    receipt.phase # "none" /\ receipt'.phase = "none" =>
        program \notin Versions /\ unit # "own" /\ label \notin {"loaded", "running"}
        /\ ~holders /\ daemon = "none"

================================================================================
