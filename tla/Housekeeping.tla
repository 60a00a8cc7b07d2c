----------------------------- MODULE Housekeeping -----------------------------
(***************************************************************************)
(* What the daemon forgets (agend-daemon: housekeeping.rs, log.rs,         *)
(* store/retention.rs, store/messages.rs, store/opencode.rs; agend-shim:   *)
(* audit.rs).                                                              *)
(*                                                                         *)
(* At boot and every hour the daemon prunes its tables, deletes old logs,  *)
(* rotates the shims' audit log and deletes the logs of holders that are   *)
(* gone.  Meanwhile messages are delivered and answered, the OpenCode      *)
(* history is read again and again, shims append to the audit log, holders *)
(* start and end, the clock is corrected and the daemon is killed.         *)
(***************************************************************************)
EXTENDS Integers, FiniteSets

CONSTANTS
    Msgs,         \* messages
    Items,        \* answers in an OpenCode session's history
    Entries,      \* entries of archive/: "patch" is a task's, others are somebody's own
    WithHolder,   \* a holder starts and ends
    MaxDay,       \* days
    MaxLines,     \* lines appended to the audit log
    MaxFault,     \* kills and steps that fail
    KeepMessages, KeepEvents, KeepAudit, KeepLogs, KeepHolder  \* the periods, in days

KeepAssumption ==
    /\ WithHolder \in BOOLEAN
    /\ MaxDay \in Nat /\ MaxLines \in Nat /\ MaxFault \in Nat
    /\ {KeepMessages, KeepEvents, KeepAudit, KeepLogs, KeepHolder} \subseteq Nat \ {0}

VARIABLES
    day, ahead,   \* the true day, and how far the clock is ahead of it
    msg,          \* message -> its row
    agent,        \* message -> whether an agent has it and has not answered
    event,        \* item -> the day its completion was ingested; None if there is no row
    observed,     \* items in opencode_observed
    shown,        \* item -> completions of it that were ever appended (history variable)
    file,         \* file -> its lines and the day it was last written
    live,         \* the file at audit/shim.jsonl, 0 if there is none
    rotated,      \* date -> the file at audit/shim-<date>.jsonl, 0 if there is none
    line,         \* line -> the day it was appended (history variable)
    late,         \* lines appended to a file that was being rotated, or had been
                  \* (history variable)
    shim,         \* the shim that appends: the file it has open, 0 if none, and since when
    daemonLog,    \* dates with a daemon log
    holder,       \* is the holder running, is its log there, when was it last written
    archive,      \* entries of archive/ -> the day of their last change; None if not there
    hk,           \* the housekeeping run
    faults

rows == <<msg, agent>>
history == <<event, observed, shown>>
audit == <<file, live, rotated, line, late, shim>>
clock == <<day, ahead>>
vars == <<day, ahead, msg, agent, event, observed, shown, file, live, rotated, line, late, shim, daemonLog,
          holder, archive, hk, faults>>

None == -1
Days == 0..(MaxDay + 1)
Lines == 1..MaxLines
Files == 1..MaxLines
Now == day + ahead

NoRow == [state |-> "none", push |-> FALSE, attempted |-> FALSE, created |-> 0, updated |-> 0]
Idle == [pc |-> "idle", now |-> 0, written |-> 0]

\* [agend-daemon/src/store/retention.rs:62-201] RETENTION: what is kept for good, with its message
\* or for some days; the tables that the model has.
TableKeep ==
    [opencode_observed |-> "forever", opencode_attempts |-> "with message",
     driver_events |-> "days", messages |-> "days"]

\* [agend-daemon/src/store/retention.rs:202-345] RETENTION and file_keep_days: the file rules.
FileKeep == [audit |-> KeepAudit, daemon |-> KeepLogs, holder |-> KeepHolder, archive |-> KeepMessages]

Init ==
    /\ day = 0 /\ ahead \in {0, 1}
    /\ msg = [m \in Msgs |-> NoRow] /\ agent = [m \in Msgs |-> FALSE]
    /\ event = [i \in Items |-> None] /\ observed = {} /\ shown = [i \in Items |-> 0]
    /\ file = [f \in Files |-> [lines |-> {}, mtime |-> 0]]
    /\ live = 0 /\ rotated = [d \in Days |-> 0] /\ line = [l \in Lines |-> None] /\ late = {}
    /\ shim = [file |-> 0, since |-> 0]
    /\ daemonLog = {}
    /\ holder = [running |-> FALSE, log |-> FALSE, mtime |-> 0]
    /\ archive = [e \in Entries |-> None]
    /\ hk = Idle /\ faults = 0

--------------------------------------------------------------------------------
(* Messages. *)

\* [agend-daemon/src/store/messages.rs:212-243] claim
Claim(m) ==
    /\ msg[m].state = "none" /\ msg[m].created = 0
    /\ \E push \in BOOLEAN :
        msg' = [msg EXCEPT ![m] = [state |-> "queued", push |-> push, attempted |-> FALSE,
                                   created |-> Now, updated |-> Now]]
    /\ UNCHANGED <<agent, clock, history, audit, daemonLog, holder, archive, hk, faults>>

\* [agend-daemon/src/store/opencode.rs:136-165] begin: the attempt is committed, then sent.
Begin(m) ==
    /\ msg[m].state = "queued" /\ msg[m].push /\ ~msg[m].attempted
    /\ msg' = [msg EXCEPT ![m].attempted = TRUE, ![m].updated = Now]
    /\ agent' = [agent EXCEPT ![m] = TRUE]
    /\ UNCHANGED <<clock, history, audit, daemonLog, holder, archive, hk, faults>>

\* [agend-daemon/src/store/opencode.rs:262-283] accepted
Accepted(m) ==
    /\ msg[m].state = "queued" /\ msg[m].attempted
    /\ msg' = [msg EXCEPT ![m].state = "sent", ![m].updated = Now]
    /\ UNCHANGED <<agent, clock, history, audit, daemonLog, holder, archive, hk, faults>>

\* [agend-daemon/src/store/opencode.rs:166-204] confirm: the agent's answer, however late.
Confirm(m) ==
    /\ agent[m]
    /\ agent' = [agent EXCEPT ![m] = FALSE]
    /\ msg' = IF msg[m].state \in {"queued", "sent"}
                THEN [msg EXCEPT ![m].state = "confirmed", ![m].updated = Now] ELSE msg
    /\ UNCHANGED <<clock, history, audit, daemonLog, holder, archive, hk, faults>>

\* [agend-daemon/src/store/opencode.rs:24-57] abandon_unknown_opencode: the operator gives it up.
Abandon(m) ==
    /\ msg[m].state \in {"queued", "sent"} /\ msg[m].attempted
    /\ msg' = [msg EXCEPT ![m].state = "failed", ![m].updated = Now]
    /\ agent' = [agent EXCEPT ![m] = FALSE]
    /\ UNCHANGED <<clock, history, audit, daemonLog, holder, archive, hk, faults>>

--------------------------------------------------------------------------------
(* The OpenCode history, read from its beginning on every tick. *)

\* Mutant: what the event log still has tells what was observed.
CompletedByLog(i) ==
    /\ IF event[i] # None THEN UNCHANGED history
       ELSE /\ observed' = observed \cup {i}
            /\ event' = [event EXCEPT ![i] = Now]
            /\ shown' = [shown EXCEPT ![i] = 1 + shown[i]]
    /\ UNCHANGED <<clock, rows, audit, daemonLog, holder, archive, hk, faults>>

\* [agend-daemon/src/store/opencode.rs:206-244] completed
Completed(i) ==
    /\ IF i \in observed THEN UNCHANGED history
       ELSE /\ observed' = observed \cup {i}
            /\ event' = [event EXCEPT ![i] = Now]
            /\ shown' = [shown EXCEPT ![i] = 1 + shown[i]]
    /\ UNCHANGED <<clock, rows, audit, daemonLog, holder, archive, hk, faults>>

--------------------------------------------------------------------------------
(* Shims and holders. *)

Unused == {f \in Files : file[f].lines = {} /\ f # live /\ \A d \in Days : rotated[d] # f}

\* [agend-shim/src/audit.rs:30-54] append: the file at the path is opened, or made,
ShimOpen ==
    /\ shim.file = 0 /\ \E l \in Lines : line[l] = None
    /\ IF live # 0 THEN UNCHANGED <<file, live>>
       ELSE LET f == CHOOSE f \in Unused : \A g \in Unused : f <= g IN
            live' = f /\ file' = [file EXCEPT ![f].mtime = Now]
    /\ shim' = [file |-> live', since |-> day]
    /\ UNCHANGED <<clock, rows, history, rotated, line, late, daemonLog, holder, archive, hk, faults>>

\* and the line written to what was opened, whatever its name is by then.
ShimWrite ==
    /\ shim.file # 0
    /\ LET l == CHOOSE l \in Lines : line[l] = None /\ \A k \in Lines : line[k] = None => l <= k IN
       /\ file' = [file EXCEPT ![shim.file] = [lines |-> @.lines \cup {l}, mtime |-> Now]]
       /\ line' = [line EXCEPT ![l] = day]
       /\ late' = IF shim.file # live \/ hk.pc = "rename" THEN late \cup {l} ELSE late
    /\ shim' = [file |-> 0, since |-> 0]
    /\ UNCHANGED <<clock, rows, history, live, rotated, daemonLog, holder, archive, hk, faults>>

\* [agend-daemon/src/supervisor.rs:1302-1307] run: housekeeping is one event of its loop.
SupervisorFree == hk.pc = "idle"

\* [agend-holder/src/lib.rs:182-213] detach: the holder appends to its log, or makes it.
HolderStart ==
    /\ WithHolder /\ SupervisorFree
    /\ ~holder.running
    /\ holder' = [running |-> TRUE, log |-> TRUE, mtime |-> Now]
    /\ UNCHANGED <<clock, rows, history, audit, daemonLog, archive, hk, faults>>

HolderExit ==
    /\ holder.running
    /\ holder' = [holder EXCEPT !.running = FALSE, !.mtime = Now]
    /\ UNCHANGED <<clock, rows, history, audit, daemonLog, archive, hk, faults>>

\* A task's work is preserved, or somebody keeps a file of his own there.
Archived(e) ==
    /\ archive[e] = None
    /\ archive' = [archive EXCEPT ![e] = Now]
    /\ UNCHANGED <<clock, rows, history, audit, daemonLog, holder, hk, faults>>

--------------------------------------------------------------------------------
(* A housekeeping run: the time is read once, a step that fails is skipped. *)

Step(pc) == hk' = [hk EXCEPT !.pc = pc]

\* [agend-daemon/src/housekeeping.rs:34-69] run, at boot and every hour.
Begins ==
    /\ hk.pc = "idle"
    /\ hk' = [pc |-> "prune", now |-> Now, written |-> 0]
    /\ UNCHANGED <<clock, rows, history, audit, daemonLog, holder, archive, faults>>

\* [agend-daemon/src/store/retention.rs:392-412] prune: a message that was attempted goes only
\* when its outcome is known, counted from its last change.
Expired(m) ==
    \/ ~msg[m].attempted /\ hk.now - msg[m].created > KeepMessages
    \/ /\ msg[m].attempted /\ msg[m].state \in {"confirmed", "failed"}
       /\ hk.now - msg[m].updated > KeepMessages

\* [agend-daemon/src/store/retention.rs:360-418] prune: one transaction; attempts go with their
\* message.
Prune ==
    /\ hk.pc = "prune"
    /\ msg' = [m \in Msgs |-> IF msg[m].state # "none" /\ Expired(m)
                               THEN [NoRow EXCEPT !.created = msg[m].created] ELSE msg[m]]
    /\ event' = [i \in Items |-> IF event[i] # None /\ hk.now - event[i] > KeepEvents
                                  THEN None ELSE event[i]]
    /\ observed' = IF TableKeep.opencode_observed = "forever" THEN observed ELSE {}
    /\ Step("logs")
    /\ UNCHANGED <<clock, agent, shown, audit, daemonLog, holder, archive, faults>>

\* [agend-daemon/src/housekeeping.rs:168-210] delete_dated: the dates that are to go.
Dated(keep) == {d \in Days : hk.now - d >= keep}

\* [agend-daemon/src/housekeeping.rs:212-222] daemon_logs, and the log line about it, which is
\* appended to the file of its own day (log.rs, line).
DaemonLogs ==
    /\ hk.pc = "logs"
    /\ daemonLog' = (daemonLog \ Dated(FileKeep.daemon)) \cup {Now}
    /\ Step("audit")
    /\ UNCHANGED <<clock, rows, history, audit, holder, archive, faults>>

\* [agend-daemon/src/housekeeping.rs:238-242] audit_log: the name of that date.
NameIsFree(d) == rotated[d] = 0

\* [agend-daemon/src/housekeeping.rs:224-243] audit_log: last written before today?
AuditLook ==
    /\ hk.pc = "audit"
    /\ IF live # 0 /\ file[live].mtime < hk.now /\ NameIsFree(file[live].mtime)
         THEN hk' = [hk EXCEPT !.pc = "rename", !.written = file[live].mtime]
         ELSE Step("dated")
    /\ UNCHANGED <<clock, rows, history, audit, daemonLog, holder, archive, faults>>

\* [agend-daemon/src/housekeeping.rs:243-251] audit_log: renamed to the date that was read.
AuditRename ==
    /\ hk.pc = "rename"
    /\ rotated' = [rotated EXCEPT ![hk.written] = live]
    /\ live' = 0
    /\ Step("dated")
    /\ UNCHANGED <<clock, rows, history, file, line, late, shim, daemonLog, holder, archive, faults>>

\* [agend-daemon/src/housekeeping.rs:252-255] audit_log: the old ones go.
AuditDelete ==
    /\ hk.pc = "dated"
    /\ rotated' = [d \in Days |-> IF d \in Dated(FileKeep.audit) THEN 0 ELSE rotated[d]]
    /\ Step("holders")
    /\ UNCHANGED <<clock, rows, history, file, live, line, late, shim, daemonLog, holder, archive, faults>>

\* [agend-daemon/src/housekeeping.rs:257-284] holder_logs: old, and nobody holds the lock?
HolderLook ==
    /\ hk.pc = "holders"
    /\ IF holder.log /\ hk.now - holder.mtime >= FileKeep.holder /\ ~holder.running
         THEN Step("remove") ELSE Step("files")
    /\ UNCHANGED <<clock, rows, history, audit, daemonLog, holder, archive, faults>>

\* [agend-daemon/src/housekeeping.rs:285-290] holder_logs: removed.
HolderRemove ==
    /\ hk.pc = "remove"
    /\ holder' = [holder EXCEPT !.log = FALSE]
    /\ Step("files")
    /\ UNCHANGED <<clock, rows, history, audit, daemonLog, archive, faults>>

\* [agend-daemon/src/housekeeping.rs:118-140] task_directory, pipeline_file_name: only names that
\* the pipeline gives.
OfThePipeline(e) == e = "patch"

\* [agend-daemon/src/housekeeping.rs:71-116] pipeline_files
PipelineFiles ==
    /\ hk.pc = "files"
    /\ archive' = [e \in Entries |->
         IF /\ archive[e] # None /\ OfThePipeline(e) /\ hk.now - archive[e] >= FileKeep.archive
           THEN None ELSE archive[e]]
    /\ hk' = Idle
    /\ UNCHANGED <<clock, rows, history, audit, daemonLog, holder, faults>>

After == [prune |-> "logs", logs |-> "audit", audit |-> "holders", rename |-> "holders",
          dated |-> "holders", holders |-> "files", remove |-> "files", files |-> "idle"]

\* A step fails, and the run goes on with the next one.
StepFails ==
    /\ hk.pc # "idle" /\ faults < MaxFault
    /\ faults' = faults + 1
    /\ Step(After[hk.pc])
    /\ UNCHANGED <<clock, rows, history, audit, daemonLog, holder, archive>>

Killed ==
    /\ hk.pc # "idle" /\ faults < MaxFault
    /\ faults' = faults + 1
    /\ hk' = Idle
    /\ UNCHANGED <<clock, rows, history, audit, daemonLog, holder, archive>>

--------------------------------------------------------------------------------
(* Time. A shim appends, and a run takes, less than a day. *)

Midnight ==
    /\ day < MaxDay
    /\ shim.file # 0 => shim.since = day
    /\ hk.pc # "idle" => hk.now >= Now
    /\ day' = day + 1
    /\ UNCHANGED <<ahead, rows, history, audit, daemonLog, holder, archive, hk, faults>>

ClockCorrected ==
    /\ ahead = 1
    /\ ahead' = 0
    /\ UNCHANGED <<day, rows, history, audit, daemonLog, holder, archive, hk, faults>>

Next ==
    \/ \E m \in Msgs : Claim(m) \/ Begin(m) \/ Accepted(m) \/ Confirm(m) \/ Abandon(m)
    \/ \E i \in Items : Completed(i)
    \/ ShimOpen \/ ShimWrite \/ HolderStart \/ HolderExit
    \/ \E e \in Entries : Archived(e)
    \/ Begins \/ Prune \/ DaemonLogs \/ AuditLook \/ AuditRename \/ AuditDelete
    \/ HolderLook \/ HolderRemove \/ PipelineFiles
    \/ StepFails \/ Killed \/ Midnight \/ ClockCorrected

Spec == Init /\ [][Next]_vars

--------------------------------------------------------------------------------
(* Properties. *)

TypeOK ==
    /\ day \in 0..MaxDay /\ ahead \in {0, 1}
    /\ \A m \in Msgs : msg[m].state \in {"none", "queued", "sent", "confirmed", "failed"}
    /\ \A m \in Msgs : msg[m].attempted => msg[m].push
    /\ live \in Files \cup {0} /\ shim.file \in Files \cup {0}
    /\ \A d \in Days : rotated[d] # 0 => rotated[d] # live
    /\ daemonLog \subseteq Days
    /\ hk.pc \in DOMAIN After \cup {"idle"}

\* A message that an agent has and has not answered is known to the daemon, however long ago it
\* was sent: a late answer finds it, and it is not delivered a second time.
InFlightIsKnown == \A m \in Msgs : agent[m] => msg[m].state # "none"

\* An answer in the agent's history is reported once, although the log of what was reported is
\* pruned and the history read again.
CompletionOnce == \A i \in Items : shown[i] <= 1

\* A line of the audit log can be read for its period: it is not lost with a file that rotation
\* replaces.  Except, as the code does not keep it (README, finding 11): the date of a rotated
\* file is read before it is renamed (housekeeping.rs:243), so a line that a shim appends after
\* that look, or to the file it had open, is dated with an earlier day and goes too early.
AuditKept ==
    \A l \in Lines \ late : line[l] # None /\ day - line[l] < KeepAudit - ahead =>
        \E f \in Files : l \in file[f].lines /\ (f = live \/ \E d \in Days : rotated[d] = f)

\* The log of a running holder is there.
RunningLogKept == holder.running => holder.log

================================================================================
