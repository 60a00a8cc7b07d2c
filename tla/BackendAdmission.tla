--------------------------- MODULE BackendAdmission ---------------------------
(***************************************************************************)
(* The admission of a backend version (agend: backend.rs, backend/         *)
(* canary.rs, backend/canary/process.rs, backend/canary/credentials.rs;    *)
(* agend-core: setup/backend/canary.rs; agend-daemon: backend_versions.rs, *)
(* backend_versions/canary_scope.rs).                                      *)
(*                                                                         *)
(* An operator imports a program: its bytes are copied under the home and  *)
(* recorded.  A canary runs the copy in a home of its own, under a daemon  *)
(* of its own, and leaves a report.  The daemon launches the copy only if  *)
(* the report says that these bytes passed under the daemon's own bytes.   *)
(* The source, the copy and the agend executable are replaced, operations  *)
(* fail and are killed, and the daemon is upgraded, at any moment.         *)
(***************************************************************************)
EXTENDS Integers, FiniteSets, TLC

CONSTANTS
    Procs,        \* agend processes of the operator
    MaxSrc,       \* contents the source goes through
    MaxAgend,     \* contents the agend executable goes through
    MaxOps,       \* operations the operator starts
    MaxFault      \* refusals, deadlines, kills and damages of the copy

AdmissionAssumption ==
    /\ MaxSrc \in Nat \ {0} /\ MaxAgend \in Nat \ {0} /\ MaxOps \in Nat /\ MaxFault \in Nat

VARIABLES
    source,       \* the source: its content and its inode
    agend,        \* the content of the agend executable
    version,      \* the version directory: the copy, its record and its report
    lock,         \* who holds the lock of backends/
    proc,         \* what an operator's process is doing
    lab,          \* canary run -> what is left of it
    daemon,       \* the content the running daemon was started from
    admitted,     \* what the daemon was allowed to launch: bytes and agend
    ops, faults,
    proved,       \* ghost: bytes and agend for which all three messages were really completed
    last          \* ghost: the canary run that executed the copy last, and how it ended

vars == <<source, agend, version, lock, proc, lab, daemon, admitted, ops, faults, proved, last>>

Nobody == "nobody"
NoBytes == <<0, 0>>
Damaged == <<0, 1>>           \* matches no record
Runs == 1..MaxOps

NoDir == [exists |-> FALSE, owner |-> 0, program |-> NoBytes, record |-> NoBytes,
          report |-> [state |-> "none"]]
NoLab == [home |-> FALSE, probe |-> FALSE, auth |-> FALSE, daemon |-> FALSE, added |-> FALSE, holder |-> FALSE,
          scope |-> NoBytes, agend |-> 0, ran |-> {}]
Idle == [pc |-> "idle"]

Init ==
    /\ source = [content |-> 1, inode |-> 1]
    /\ agend = 1
    /\ version = NoDir
    /\ lock = Nobody
    /\ proc = [p \in Procs |-> Idle]
    /\ lab = [r \in Runs |-> NoLab]
    /\ daemon = 1
    /\ admitted = {}
    /\ ops = 0 /\ faults = 0
    /\ proved = {}
    /\ last = [run |-> 0, end |-> "none"]

Fault == faults < MaxFault /\ faults' = faults + 1
To(p, pc) == proc' = [proc EXCEPT ![p].pc = pc]

--------------------------------------------------------------------------------
(* The import. *)

\* [agend/src/backend.rs:203-238] import: the source is resolved and opened, and must look
\* like a native executable.
ImportOpen(p) ==
    /\ proc[p].pc = "idle" /\ ops < MaxOps
    /\ ops' = ops + 1
    /\ proc' = [proc EXCEPT ![p] = [pc |-> "import", op |-> ops + 1, initial |-> source,
                                    copied |-> NoBytes, digest |-> NoBytes]]
    /\ UNCHANGED <<source, agend, version, lock, lab, daemon, admitted, faults, proved, last>>

\* [agend/src/backend.rs:239-255] import: under the lock, the directory is created exclusively.
ImportClaim(p) ==
    /\ proc[p].pc = "import"
    /\ lock = Nobody
    /\ IF version.exists
         THEN proc' = [proc EXCEPT ![p] = Idle] /\ UNCHANGED <<version, lock>>
         ELSE /\ version' = [NoDir EXCEPT !.exists = TRUE, !.owner = proc[p].op]
              /\ lock' = p
              /\ To(p, "copy")
    /\ UNCHANGED <<source, agend, lab, daemon, admitted, ops, faults, proved, last>>

\* The file that was opened, as it is now: an edit in place shows, a replacement does not.
Opened(p) == IF source.inode = proc[p].initial.inode THEN source.content ELSE proc[p].initial.content

\* [agend/src/backend.rs:256-258] import: the first part of the file is copied ...
ImportCopy(p) ==
    /\ proc[p].pc = "copy"
    /\ proc' = [proc EXCEPT ![p].pc = "copy rest", ![p].copied = <<Opened(p), 0>>]
    /\ UNCHANGED <<source, agend, version, lock, lab, daemon, admitted, ops, faults, proved, last>>

\* [agend/src/backend.rs:259-268] import: ... and the rest; the copy is published whole, and
\* then hashed.
ImportPublish(p) ==
    /\ proc[p].pc = "copy rest"
    /\ LET bytes == <<proc[p].copied[1], Opened(p)>>
       IN /\ version' = [version EXCEPT !.program = bytes]
          /\ proc' = [proc EXCEPT ![p].pc = "record", ![p].digest = bytes]
    /\ UNCHANGED <<source, agend, lock, lab, daemon, admitted, ops, faults, proved, last>>

\* [agend/src/backend.rs:269-290] import: the source is hashed again, and the file and its
\* path must be those that were opened.
SameSource(p) ==
    /\ proc[p].digest = <<Opened(p), Opened(p)>>
    /\ source = proc[p].initial

\* [agend/src/backend.rs:291-303] import: the record is published last.
ImportRecord(p) ==
    /\ proc[p].pc = "record"
    /\ IF SameSource(p)
         THEN /\ version' = [version EXCEPT !.record = proc[p].digest]
              /\ lock' = Nobody
              /\ proc' = [proc EXCEPT ![p] = Idle]
         ELSE To(p, "undo") /\ UNCHANGED <<version, lock>>
    /\ UNCHANGED <<source, agend, lab, daemon, admitted, ops, faults, proved, last>>

ImportFails(p) ==
    /\ proc[p].pc \in {"copy", "copy rest", "record"}
    /\ Fault
    /\ To(p, "undo")
    /\ UNCHANGED <<source, agend, version, lock, lab, daemon, admitted, ops, proved, last>>

\* [agend/src/backend.rs:304-310] import: the directory is removed if it is the one this
\* import created.
ImportUndo(p) ==
    /\ proc[p].pc = "undo"
    /\ version' = IF version.owner = proc[p].op THEN NoDir ELSE version
    /\ lock' = Nobody
    /\ proc' = [proc EXCEPT ![p] = Idle]
    /\ UNCHANGED <<source, agend, lab, daemon, admitted, ops, faults, proved, last>>

--------------------------------------------------------------------------------
(* The canary. *)

\* [agend-daemon/src/backend_versions.rs:81-152] inspect: the record is about the bytes of
\* the copy as they are now.
Intact(record) == record # NoBytes /\ version.record = record /\ version.program = record

\* [agend/src/backend/canary/credentials.rs:11-114] read: a dedicated file, read whole before
\* anything else; a canary may also go without.
CanaryOpen(p) ==
    /\ proc[p].pc = "idle" /\ ops < MaxOps
    /\ ops' = ops + 1
    /\ \E auth \in BOOLEAN :
        proc' = [proc EXCEPT ![p] = [pc |-> "canary", run |-> ops + 1, auth |-> auth,
                                     bytes |-> NoBytes, agend |-> 0, sent |-> 0, ok |-> TRUE]]
    /\ UNCHANGED <<source, agend, version, lock, lab, daemon, admitted, faults, proved, last>>

\* [agend/src/backend/canary.rs:28-56] run: under the lock, the copy is inspected and the
\* agend executable hashed.
CanaryBegin(p) ==
    /\ proc[p].pc = "canary"
    /\ lock = Nobody
    /\ IF Intact(version.record)
         THEN /\ lock' = p
              /\ proc' = [proc EXCEPT ![p].pc = "invalidate", ![p].bytes = version.record,
                                      ![p].agend = agend]
         ELSE UNCHANGED lock /\ proc' = [proc EXCEPT ![p] = Idle]
    /\ UNCHANGED <<source, agend, version, lab, daemon, admitted, ops, faults, proved, last>>

\* [agend-core/src/setup/backend/canary.rs:11-33] CanaryReport
InProgress(p) == [state |-> "progress", run |-> proc[p].run, bytes |-> proc[p].bytes,
                  agend |-> proc[p].agend, retained |-> FALSE]

\* [agend/src/backend/canary.rs:57-78] run: a previous success is replaced before the
\* candidate is executed again; then Lab::new creates the private home.
CanaryInvalidate(p) ==
    /\ proc[p].pc = "invalidate"
    /\ version' = [version EXCEPT !.report = InProgress(p)]
    /\ lab' = [lab EXCEPT ![proc[p].run].home = TRUE]
    /\ To(p, "probe")
    /\ UNCHANGED <<source, agend, lock, daemon, admitted, ops, faults, proved, last>>

\* [agend/src/backend/canary/process.rs:52-117] Lab::version: the candidate is executed with
\* --version, in a process group of its own.
CanaryProbe(p) ==
    /\ proc[p].pc = "probe"
    /\ lab' = [lab EXCEPT ![proc[p].run].probe = TRUE]
    /\ To(p, "probed")
    /\ last' = [run |-> proc[p].run, end |-> "running"]
    /\ UNCHANGED <<source, agend, version, lock, daemon, admitted, ops, faults, proved>>

\* [agend/src/backend/canary/process.rs:255-337] stop_probe: the child is only reaped when
\* its group is gone.
CanaryProbed(p) ==
    /\ proc[p].pc = "probed"
    /\ lab' = [lab EXCEPT ![proc[p].run].probe = FALSE]
    /\ To(p, "install")
    /\ UNCHANGED <<source, agend, version, lock, daemon, admitted, ops, faults, proved, last>>

\* [agend/src/backend/canary/credentials.rs:116-143] install: a copy, in the private home.
CanaryInstall(p) ==
    /\ proc[p].pc = "install"
    /\ lab' = [lab EXCEPT ![proc[p].run].auth = proc[p].auth]
    /\ To(p, "scope")
    /\ UNCHANGED <<source, agend, version, lock, daemon, admitted, ops, faults, proved, last>>

\* [agend-daemon/src/backend_versions/canary_scope.rs:9-46] create: the private home names
\* exactly the inspected artifact.
CanaryScope(p) ==
    /\ proc[p].pc = "scope"
    /\ To(p, IF Intact(proc[p].bytes) THEN "daemon" ELSE "fail")
    /\ lab' = [lab EXCEPT ![proc[p].run].scope = proc[p].bytes]
    /\ UNCHANGED <<source, agend, version, lock, daemon, admitted, ops, faults, proved, last>>

\* [agend/src/backend/canary/process.rs:118-151] Lab::start: the daemon is what is at agend's
\* path now.
CanaryDaemon(p) ==
    /\ proc[p].pc = "daemon"
    /\ lab' = [lab EXCEPT ![proc[p].run].daemon = TRUE, ![proc[p].run].agend = agend]
    /\ To(p, "add")
    /\ UNCHANGED <<source, agend, version, lock, daemon, admitted, ops, faults, proved, last>>

\* [agend/src/backend/canary.rs:101-132] run: the daemon answers and accepts the instance.
CanaryAdd(p) ==
    /\ proc[p].pc = "add"
    /\ lab' = [lab EXCEPT ![proc[p].run].added = TRUE]
    /\ To(p, "talk")
    /\ UNCHANGED <<source, agend, version, lock, daemon, admitted, ops, faults, proved, last>>

\* [agend-daemon/src/backend_versions/canary_scope.rs:50-108] expected, read_scope: the scope is
\* this home's, and its artifact is intact.
ScopeHolds(r) == lab[r].home /\ Intact(lab[r].scope)

\* [agend-daemon/src/backend_versions/canary_scope.rs:112-177] isolate_environment: the daemon of
\* the private home only starts the agent its scope names; it restarts one that is gone.
LabStarts(r) ==
    /\ lab[r].daemon /\ lab[r].added /\ ~lab[r].holder
    /\ ScopeHolds(r)
    /\ lab' = [lab EXCEPT ![r].holder = TRUE, ![r].ran = @ \cup {<<version.program, lab[r].agend>>}]
    /\ UNCHANGED <<source, agend, version, lock, proc, daemon, admitted, ops, faults, proved, last>>

\* The agent of the private home exits.
LabDies(r) ==
    /\ lab[r].holder
    /\ Fault
    /\ lab' = [lab EXCEPT ![r].holder = FALSE]
    /\ UNCHANGED <<source, agend, version, lock, proc, daemon, admitted, ops, proved, last>>

Messages == 3

\* [agend/src/backend/canary.rs:133-215] run: one message is delivered, confirmed, completed,
\* and the agent idle again.
CanaryMessage(p) ==
    LET r == proc[p].run
    IN /\ proc[p].pc = "talk"
       /\ lab[r].holder
       /\ proc' = [proc EXCEPT ![p].sent = @ + 1,
                               ![p].pc = IF proc[p].sent + 1 = Messages THEN "verify" ELSE "talk"]
       /\ proved' = IF proc[p].sent + 1 = Messages /\ Cardinality(lab[r].ran) = 1
                      THEN proved \cup lab[r].ran ELSE proved
       /\ UNCHANGED <<source, agend, version, lock, lab, daemon, admitted, ops, faults, last>>

\* [agend/src/backend/canary.rs:286-385] pause, rpc, wait_idle, wait_outcome: the deadline, a
\* refusal, a failure, or an answer that is about something else.
CanaryFails(p) ==
    /\ proc[p].pc \in {"probe", "probed", "install", "scope", "daemon", "add", "talk", "verify"}
    /\ Fault
    /\ To(p, "fail")
    /\ UNCHANGED <<source, agend, version, lock, lab, daemon, admitted, ops, proved, last>>

\* [agend/src/backend/canary.rs:216-225] run: the copy and agend are inspected again.
StillTheSame(p) == Intact(proc[p].bytes) /\ agend = proc[p].agend

CanaryVerify(p) ==
    /\ proc[p].pc = "verify"
    /\ To(p, IF StillTheSame(p) THEN "clean" ELSE "fail")
    /\ UNCHANGED <<source, agend, version, lock, lab, daemon, admitted, ops, faults, proved, last>>

CanaryFailed(p) ==
    /\ proc[p].pc = "fail"
    /\ proc' = [proc EXCEPT ![p].pc = "clean", ![p].ok = FALSE]
    /\ UNCHANGED <<source, agend, version, lock, lab, daemon, admitted, ops, faults, proved, last>>

\* [agend/src/backend/canary/process.rs:172-182] cleanup_inner: the probe and the daemon
\* are stopped before the holder, which a daemon would start again.
CleanDaemon(p) ==
    /\ proc[p].pc = "clean"
    /\ lab' = [lab EXCEPT ![proc[p].run].probe = FALSE, ![proc[p].run].daemon = FALSE]
    /\ To(p, "clean holder")
    /\ UNCHANGED <<source, agend, version, lock, daemon, admitted, ops, faults, proved, last>>

\* [agend/src/backend/canary/process.rs:183-207] cleanup_inner: the holder is shut down ...
CleanHolder(p) ==
    /\ proc[p].pc = "clean holder"
    /\ lab' = [lab EXCEPT ![proc[p].run].holder = FALSE]
    /\ To(p, "remove")
    /\ UNCHANGED <<source, agend, version, lock, daemon, admitted, ops, faults, proved, last>>

\* [agend/src/backend/canary/process.rs:208-218] cleanup_inner: ... and the home removed, with
\* the credentials in it, when the holder's lock says that it is gone.
CleanHome(p) ==
    /\ proc[p].pc = "remove"
    /\ IF lab[proc[p].run].holder
         THEN proc' = [proc EXCEPT ![p].pc = "retain", ![p].ok = FALSE] /\ UNCHANGED lab
         ELSE To(p, "report") /\ lab' = [lab EXCEPT ![proc[p].run].home = FALSE, ![proc[p].run].auth = FALSE]
    /\ UNCHANGED <<source, agend, version, lock, daemon, admitted, ops, faults, proved, last>>

\* [agend/src/backend/canary/process.rs:152-171] check_home, cleanup: what cannot be stopped,
\* or is not the lab's, is left and not tried again.
CleanFails(p) ==
    /\ proc[p].pc \in {"clean", "clean holder", "remove"}
    /\ Fault
    /\ proc' = [proc EXCEPT ![p].pc = "retain", ![p].ok = FALSE]
    /\ UNCHANGED <<source, agend, version, lock, lab, daemon, admitted, ops, proved, last>>

\* [agend/src/backend/canary.rs:227-252] run: passed if tested and cleaned.
Final(p) == [InProgress(p) EXCEPT !.state = IF proc[p].ok THEN "passed" ELSE "failed",
                                  !.retained = proc[p].pc = "retain"]

\* [agend/src/backend/canary.rs:21-26] publish: whole, in place of the former report.
CanaryReport(p) ==
    /\ proc[p].pc \in {"report", "retain"}
    /\ version' = IF version.exists THEN [version EXCEPT !.report = Final(p)] ELSE version
    /\ last' = [last EXCEPT !.end = IF last.run = proc[p].run THEN Final(p).state ELSE @]
    /\ lock' = Nobody
    /\ proc' = [proc EXCEPT ![p] = Idle]
    /\ UNCHANGED <<source, agend, lab, daemon, admitted, ops, faults, proved>>

--------------------------------------------------------------------------------
(* The daemon. *)

\* [agend-core/src/setup/backend/canary.rs:36-129] validate: the report passed, cleaned up, and
\* is about these bytes and this daemon; its three receipts and outcomes belong to its run.
Validates(report) == report.state = "passed" /\ Intact(report.bytes) /\ report.agend = daemon

\* [agend-daemon/src/backend_versions.rs:294-323] verify_canary
VerifyCanary == version.exists /\ Validates(version.report)

\* [agend-daemon/src/backend_versions.rs:156-250] check_launch, inspect_launch: the daemon's digest is the one
\* captured at its start.
CheckLaunch ==
    /\ Intact(version.record)
    /\ VerifyCanary
    /\ admitted' = {<<version.program, daemon>>}
    /\ UNCHANGED <<source, agend, version, lock, proc, lab, daemon, ops, faults, proved, last>>

\* [agend-daemon/src/backend_versions.rs:29-75] ExecutableBinding: the daemon is started again,
\* from what agend is now.
DaemonRestarts ==
    /\ daemon # agend
    /\ daemon' = agend
    /\ admitted' = {}
    /\ UNCHANGED <<source, agend, version, lock, proc, lab, ops, faults, proved, last>>

--------------------------------------------------------------------------------
(* Everything else. *)

SourceEdited ==
    /\ source.content < MaxSrc
    /\ \E inode \in {source.inode, source.inode + 1} :
        source' = [content |-> source.content + 1, inode |-> inode]
    /\ UNCHANGED <<agend, version, lock, proc, lab, daemon, admitted, ops, faults, proved, last>>

AgendReplaced ==
    /\ agend < MaxAgend
    /\ agend' = agend + 1
    /\ UNCHANGED <<source, version, lock, proc, lab, daemon, admitted, ops, faults, proved, last>>

\* The copy is damaged.
CopyDamaged ==
    /\ Fault
    /\ version.program # NoBytes
    /\ version' = [version EXCEPT !.program = Damaged]
    /\ UNCHANGED <<source, agend, lock, proc, lab, daemon, admitted, ops, proved, last>>

\* The operator deletes a version directory that nobody is working in.
Discarded ==
    /\ Fault
    /\ version.exists /\ lock = Nobody
    /\ version' = NoDir
    /\ UNCHANGED <<source, agend, lock, proc, lab, daemon, admitted, ops, proved, last>>

\* A process of the operator is killed: its lock goes, what it started stays.
Killed(p) ==
    /\ proc[p].pc # "idle"
    /\ Fault
    /\ lock' = IF lock = p THEN Nobody ELSE lock
    /\ proc' = [proc EXCEPT ![p] = Idle]
    /\ UNCHANGED <<source, agend, version, lab, daemon, admitted, ops, proved, last>>

Import(p) ==
    ImportOpen(p) \/ ImportClaim(p) \/ ImportCopy(p) \/ ImportPublish(p) \/ ImportRecord(p)
        \/ ImportFails(p) \/ ImportUndo(p)

Canary(p) ==
    \/ CanaryOpen(p) \/ CanaryBegin(p) \/ CanaryInvalidate(p) \/ CanaryProbe(p) \/ CanaryProbed(p) \/ CanaryInstall(p) \/ CanaryScope(p)
    \/ CanaryDaemon(p) \/ CanaryAdd(p) \/ CanaryMessage(p) \/ CanaryFails(p) \/ CanaryVerify(p) \/ CanaryFailed(p)
    \/ CleanDaemon(p) \/ CleanHolder(p) \/ CleanHome(p) \/ CleanFails(p) \/ CanaryReport(p)

\* [agend/src/backend.rs:68-171] run
Operator(p) == Import(p) \/ Canary(p)

Next ==
    \/ \E p \in Procs : Operator(p) \/ Killed(p)
    \/ \E r \in Runs : LabStarts(r) \/ LabDies(r)
    \/ CheckLaunch \/ DaemonRestarts
    \/ SourceEdited \/ AgendReplaced \/ CopyDamaged \/ Discarded

Spec == Init /\ [][Next]_vars

--------------------------------------------------------------------------------
(* Properties. *)

TypeOK ==
    /\ lock \in Procs \cup {Nobody}
    /\ version.report.state \in {"none", "progress", "failed", "passed"}
    /\ ~version.exists => version = NoDir
    /\ \A p \in Procs : lock = p => proc[p].pc \notin {"idle", "import", "canary"}
    /\ \A p \in Procs : proc[p].pc \notin {"idle", "import", "canary"} => lock = p

\* A version that has a record has one content of the source, whole, whatever was written to
\* the source while it was copied.
RecordIsWhole == version.record # NoBytes => version.record[1] = version.record[2]

\* The daemon launches only bytes that, in a canary, really completed all messages as these
\* bytes and under a daemon of its own bytes.
LaunchWasTested == admitted' \ admitted \subseteq proved

\* A report that says passed is the end of the canary that executed the copy last: one that is
\* under way, failed or was killed leaves nothing the daemon would launch.
LastRunDecides ==
    version.report.state = "passed" => last = [run |-> version.report.run, end |-> "passed"]

\* A report that names no retained home is of a run that left nothing behind: no process, no
\* home and so no credentials.
CleanIsGone ==
    version.report.state \in {"passed", "failed"} /\ ~version.report.retained
        => LET l == lab[version.report.run]
           IN ~l.home /\ ~l.auth /\ ~l.probe /\ ~l.daemon /\ ~l.holder

================================================================================
