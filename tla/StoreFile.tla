------------------------------- MODULE StoreFile -------------------------------
(***************************************************************************)
(* The file agend.db: how it is created, opened, upgraded, backed up and   *)
(* removed when several processes of several versions do so at once and    *)
(* any of them may be killed between two system calls                      *)
(* (agend-daemon/src/store.rs, store/migrate.rs, store/snapshot.rs,        *)
(* store/maintenance.rs).                                                  *)
(*                                                                         *)
(* Files are inodes with names.  A new database is built under the name    *)
(* "new" (.agend.db.new), migration by migration, and then given the name  *)
(* "db" (agend.db).  While a migration runs on the build file its rollback *)
(* journal exists under a name of its own; a journal left by a killed      *)
(* builder is rolled back into whatever file has the name "new" when it is *)
(* locked next.  A database in service is in WAL mode, where a migration   *)
(* is one atomic step.                                                     *)
(***************************************************************************)
EXTENDS Integers, FiniteSets, TLC

CONSTANTS
    Procs,        \* processes: daemons that open the store, uninstallers that remove it
    MaxInode,     \* files ever created
    MaxVer,       \* the newest schema version; every binary supports one of 1..MaxVer
    MaxRow,       \* rows ever written
    MaxDay,       \* days that pass
    Keep,         \* snapshots kept (KEEP)
    HardLinks,    \* whether the filesystem has hard links
    MaxFault,     \* kills and failed calls
    Init0         \* the states of the home the model starts from

StoreFileAssumption ==
    /\ MaxInode \in Nat /\ MaxVer \in Nat /\ MaxRow \in Nat /\ MaxDay \in Nat /\ Keep \in Nat /\ MaxFault \in Nat
    /\ HardLinks \in BOOLEAN
    /\ Init0 \subseteq {"none", "served", "owned", "linked", "torn", "garbage", "empty", "blank", "tables", "newer"}

VARIABLES
    node,         \* inode -> its content
    name,         \* "db" and "new" -> the inode the name has, 0 when there is none
    journal,      \* the inode .agend.db.new-journal belongs to, 0 when there is none
    lock,         \* inode -> the process that holds SQLite's exclusive lock, or NoOne
    guard,        \* process -> its hold on .agend-maintenance.lock
    proc,         \* process -> where it is and what it has open
    snaps,        \* backups/: the snapshots
    day,          \* the date
    written,      \* ghost: the rows a store accepted and nobody asked to remove
    stolen,       \* ghost: builds whose name another creator removed, and what was
                  \* published in place of one
    claim,        \* ghost: what the first upgrade since the last write went from and to,
                  \* and whether its snapshot was written again
    faults        \* kills and failed calls so far

vars == <<node, name, journal, lock, guard, proc, snaps, day, written, stolen, claim, faults>>

--------------------------------------------------------------------------------
NoOne == "no process"
Inodes == 1..MaxInode
Idle == [pc |-> "idle", sup |-> 0, ino |-> 0, left |-> 0, own |-> 0]

\* What a file can be: a database ("ok"), a database that lacks tables of its version
\* ("tables"), a file shorter than a header ("empty"), no database at all ("garbage"),
\* or a database another file's journal was rolled back into ("mixed").
Kinds == {"ok", "tables", "empty", "garbage", "mixed"}
Nothing == [kind |-> "ok", ver |-> 0, rows |-> {}, made |-> 0]
NoClaim == [from |-> 0, to |-> 0, rows |-> {}, again |-> FALSE]

\* [agend-daemon/src/store/snapshot.rs:55-126] daily_name, pre_upgrade_name,
\* is_snapshot_name: the names snapshots have: one per day, and one per day and version upgraded to.
SnapNames == [day: 1..MaxDay, to: 0..MaxVer]

\* [agend-daemon/src/store/snapshot.rs:127-141] names: they are read sorted. Of
\* one day the pre-upgrade ones come first ('-' sorts before '.'), by version.
Before(s, t) ==
    \/ s.day < t.day
    \/ s.day = t.day /\ s.to # 0 /\ (t.to = 0 \/ s.to < t.to)

\* [agend-daemon/src/store/snapshot.rs:183-193] rotate: the Keep newest stay.
Rotate(set) == {s \in set : Cardinality({t \in set : Before(s, t)}) < Keep}

\* [agend-daemon/src/store/snapshot.rs:144-171] write: a snapshot of the database, checked,
\* then given its name in place of an older one of that name.
WriteSnap(set, to, i) ==
    {s \in set : s.day # day \/ s.to # to}
      \cup {[day |-> day, to |-> to, ver |-> node[i].ver, rows |-> node[i].rows]}

--------------------------------------------------------------------------------
(* Where the model starts. *)

Have(kind, ver, rows) == [kind |-> kind, ver |-> ver, rows |-> rows, made |-> 0]

InitNode(h) ==
    CASE h \in {"served", "owned"} -> Have("ok", 1, {1})
      [] h = "linked"  -> [Have("ok", 1, {}) EXCEPT !.made = 1]
      [] h = "torn"    -> [Have("ok", 0, {}) EXCEPT !.made = 1]
      [] h = "garbage" -> Have("garbage", 0, {})
      [] h = "empty"   -> Have("empty", 0, {})
      [] h = "blank"   -> Have("ok", 0, {})
      [] h = "tables"  -> Have("tables", 1, {1})
      [] h = "newer"   -> Have("ok", MaxVer + 1, {1})
      [] OTHER -> Nothing

\* Files are created in the order of their numbers; the first one is there at the start.
\* "owned": a daemon from before the maintenance lock serves the database.
Init ==
    \E h \in Init0, p \in Procs :
        /\ node = [i \in Inodes |-> IF i = 1 THEN InitNode(h) ELSE Nothing]
        /\ name = [db  |-> IF h \in {"none", "torn", "garbage"} THEN 0 ELSE 1,
                   new |-> IF h \in {"linked", "torn", "garbage"} THEN 1 ELSE 0]
        /\ journal = IF h = "torn" THEN 1 ELSE 0
        /\ lock = [i \in Inodes |-> IF i = 1 /\ h = "owned" THEN p ELSE NoOne]
        /\ guard = [q \in Procs |-> "none"]
        /\ proc = [q \in Procs |-> IF q = p /\ h = "owned"
                                     THEN [Idle EXCEPT !.pc = "up", !.sup = 1, !.ino = 1] ELSE Idle]
        /\ snaps = {}
        /\ day = 1
        /\ written = IF h \in {"served", "owned", "tables", "newer"} THEN {1} ELSE {}
        /\ faults = 0
        /\ stolen = {}
        /\ claim = NoClaim

Fresh == {i \in Inodes : i # 1 /\ node[i].made = 0 /\ \A j \in 2..i - 1 : node[j].made # 0}

--------------------------------------------------------------------------------
(* Steps every operation is made of. *)

\* Goes on with the next step.
Go(p, pc) == proc' = [proc EXCEPT ![p].pc = pc]

\* [agend-daemon/src/store.rs:559-568] drop: the connections a process has are closed and
\* their locks released; also what returning an error, and the death of the process, do.
Released(p) == [i \in Inodes |-> IF lock[i] = p THEN NoOne ELSE lock[i]]

Leave(p) ==
    /\ lock' = Released(p)
    /\ guard' = [guard EXCEPT ![p] = "none"]
    /\ proc' = [proc EXCEPT ![p] = Idle]

\* An operation gives up with an error: a transaction that was running is rolled back.
GiveUp(p) ==
    /\ Leave(p)
    /\ journal' = IF proc[p].pc = "bcommit" THEN 0 ELSE journal
    /\ UNCHANGED <<node, name, snaps, day, written, stolen, claim>>

Fail(p) == GiveUp(p) /\ UNCHANGED faults

\* [agend-daemon/src/store.rs:895-920] lock: SQLite's exclusive lock on the file that was
\* opened, kept until the connection closes; at once or not at all.  The first lock on the
\* file at ".agend.db.new" rolls the journal there back into it.
Lock(p, i, set) ==
    /\ lock[i] = NoOne
    /\ lock' = [lock EXCEPT ![i] = p]
    /\ node' = IF name.new = i /\ journal \notin {0, i} THEN [node EXCEPT ![i].kind = "mixed"] ELSE node
    /\ journal' = IF name.new = i THEN 0 ELSE journal
    /\ proc' = [proc EXCEPT ![p] = set]

\* [agend-daemon/src/store.rs:655-660] is_busy: somebody else has it, StoreError::InUse.
Busy(p, i) == lock[i] \notin {NoOne, p} /\ Fail(p)

\* [agend-daemon/src/store.rs:960-966] remove_if_present
Unname(which) == name' = [name EXCEPT ![which] = 0]

--------------------------------------------------------------------------------
(* Opening (open_with, open_connection). *)

\* [agend-daemon/src/store/maintenance.rs:15-55] reader, acquire: the home is shared with
\* everybody but an uninstaller.
Reader(p) ==
    /\ \A q \in Procs : guard[q] # "exclusive"
    /\ guard' = [guard EXCEPT ![p] = "shared"]

\* [agend-daemon/src/store.rs:270-298] SqliteStore::open, open_with: a process whose
\* binary supports version v opens the store.
Begin(p, v) ==
    /\ proc[p].pc = "idle"
    /\ Reader(p)
    /\ proc' = [proc EXCEPT ![p] = [Idle EXCEPT !.pc = "stat", !.sup = v]]
    /\ UNCHANGED <<node, name, journal, lock, snaps, day, written, stolen, claim, faults>>

\* [agend-daemon/src/store.rs:731-755] check_existing: a file too short to be a database.
Refusable(i) == node[i].kind = "empty"

\* [agend-daemon/src/store.rs:666-677] open_connection: is there a database?
Stat(p) ==
    /\ proc[p].pc = "stat"
    /\ \/ name.db = 0 /\ Go(p, "leftover")
       \/ name.db # 0 /\ ~Refusable(name.db) /\ Go(p, "open")
    /\ UNCHANGED <<node, name, journal, lock, guard, snaps, day, written, stolen, claim, faults>>

StatRefused(p) ==
    /\ proc[p].pc = "stat"
    /\ name.db # 0 /\ Refusable(name.db)
    /\ Fail(p)

\* [agend-daemon/src/store.rs:678-678] open_connection: SQLite opens what has the name now.
Open(p) ==
    /\ proc[p].pc = "open"
    /\ name.db # 0
    /\ proc' = [proc EXCEPT ![p].pc = "olock", ![p].ino = name.db]
    /\ UNCHANGED <<node, name, journal, lock, guard, snaps, day, written, stolen, claim, faults>>

OpenMissing(p) == proc[p].pc = "open" /\ name.db = 0 /\ Fail(p)

OLock(p) ==
    /\ proc[p].pc = "olock"
    /\ Lock(p, proc[p].ino, [proc[p] EXCEPT !.pc = "verify"])
    /\ UNCHANGED <<name, guard, snaps, day, written, stolen, claim, faults>>

OBusy(p) == proc[p].pc = "olock" /\ Busy(p, proc[p].ino)

\* [agend-daemon/src/store.rs:939-958] missing_tables, table_names, user_version
MissingTables(i) == node[i].kind = "tables"

\* [agend-daemon/src/store.rs:679-706] open_connection: a newer version, no version, or
\* a version without its tables is refused as it is.
Acceptable(i, v) == node[i].ver <= v /\ node[i].ver > 0 /\ ~MissingTables(i)

VerifyRefused(p) ==
    /\ proc[p].pc = "verify"
    /\ ~Acceptable(proc[p].ino, proc[p].sup)
    /\ Fail(p)

\* [agend-daemon/src/store.rs:707-715] open_connection: the build file's name is removed
\* when it is a second name of this very file.
SecondName == name.new # 0 /\ name.new = name.db

\* [agend-daemon/src/store.rs:716-729] open_connection: WAL mode; an older version is
\* copied to backups/ before it is migrated.
Verify(p) ==
    /\ proc[p].pc = "verify"
    /\ Acceptable(proc[p].ino, proc[p].sup)
    /\ IF SecondName THEN Unname("new") /\ journal' = 0 ELSE UNCHANGED <<name, journal>>
    /\ Go(p, IF node[proc[p].ino].ver < proc[p].sup THEN "snapshot" ELSE "up")
    /\ UNCHANGED <<node, lock, guard, snaps, day, written, stolen, claim, faults>>

\* [agend-daemon/src/store/snapshot.rs:243-253] pre_upgrade: the snapshot is written, the oldest ones are removed.
PreUpgrade(p) ==
    snaps' = Rotate(WriteSnap(snaps, proc[p].sup, proc[p].ino))

Snapshot(p) ==
    /\ proc[p].pc = "snapshot"
    /\ PreUpgrade(p)
    /\ claim' = IF claim.to # 0 THEN [claim EXCEPT !.again =
                       @ \/ (claim.to = proc[p].sup /\ claim.from < node[proc[p].ino].ver)]
                ELSE [from |-> node[proc[p].ino].ver, to |-> proc[p].sup,
                      rows |-> node[proc[p].ino].rows, again |-> FALSE]
    /\ Go(p, "migrate")
    /\ UNCHANGED <<node, name, journal, lock, guard, day, written, stolen, faults>>

\* [agend-daemon/src/store/migrate.rs:119-143] version_of, apply on a database in WAL mode:
\* one migration and its version number in one transaction.
Migrate(p) ==
    /\ proc[p].pc = "migrate"
    /\ node' = [node EXCEPT ![proc[p].ino].ver = @ + 1]
    /\ Go(p, IF node[proc[p].ino].ver + 1 < proc[p].sup THEN "migrate" ELSE "up")
    /\ UNCHANGED <<name, journal, lock, guard, snaps, day, written, stolen, claim, faults>>

--------------------------------------------------------------------------------
(* Creating (create_database). *)

\* [agend-daemon/src/store.rs:806-823] remove_leftover_build: is there a build file?  When
\* there is none, a journal there is nobody's.
Leftover(p) ==
    /\ proc[p].pc = "leftover"
    /\ Go(p, IF name.new = 0 THEN "leftjournal" ELSE "leftopen")
    /\ UNCHANGED <<node, name, journal, lock, guard, snaps, day, written, stolen, claim, faults>>

\* [agend-daemon/src/store.rs:922-936] lock_build: the name may be gone by now.
OpensBuild(p, pc, next) ==
    /\ proc[p].pc = pc
    /\ name.new # 0
    /\ proc' = [proc EXCEPT ![p].pc = next, ![p].ino = name.new]
    /\ UNCHANGED <<node, name, journal, lock, guard, snaps, day, written, stolen, claim, faults>>

BuildGone(p) == proc[p].pc \in {"leftopen", "bopen"} /\ name.new = 0 /\ Fail(p)

LeftOpen(p) == OpensBuild(p, "leftopen", "leftlock")

\* [agend-daemon/src/store.rs:824-831] remove_leftover_build: a build file is locked before
\* it goes; what is no database has no builder.
LeftLock(p) ==
    /\ proc[p].pc = "leftlock"
    /\ IF node[proc[p].ino].kind = "garbage"
         THEN Go(p, "leftrm") /\ UNCHANGED <<node, journal, lock>>
         ELSE Lock(p, proc[p].ino, [proc[p] EXCEPT !.pc = "leftrm", !.left = proc[p].ino])
    /\ UNCHANGED <<name, guard, snaps, day, written, stolen, claim, faults>>

LeftBusy(p) ==
    /\ proc[p].pc = "leftlock"
    /\ node[proc[p].ino].kind # "garbage"
    /\ Busy(p, proc[p].ino)

\* [agend-daemon/src/store.rs:832-832] remove_leftover_build: removed by its name, which may
\* be that of another creator's build by now.
LeftRemove(p) ==
    /\ proc[p].pc = "leftrm"
    /\ Unname("new")
    /\ stolen' = stolen \cup ({name.new} \ {0, proc[p].ino})
    /\ Go(p, "leftjournal")
    /\ UNCHANGED <<node, journal, lock, guard, snaps, day, written, claim, faults>>

\* [agend-daemon/src/store.rs:833-835] remove_leftover_build: then its journal.
LeftJournal(p) ==
    /\ proc[p].pc = "leftjournal"
    /\ journal' = 0
    /\ Go(p, "create")
    /\ UNCHANGED <<node, name, lock, guard, snaps, day, written, stolen, claim, faults>>

\* [agend-daemon/src/store.rs:757-781] create_database: a file nobody else has made.
Create(p) ==
    /\ proc[p].pc = "create"
    /\ name.new = 0
    /\ \E i \in Fresh :
        /\ node' = [node EXCEPT ![i].made = proc[p].sup]
        /\ name' = [name EXCEPT !.new = i]
        /\ proc' = [proc EXCEPT ![p].pc = "bopen", ![p].own = i]
    /\ UNCHANGED <<journal, lock, guard, snaps, day, written, stolen, claim, faults>>

CreateTaken(p) == proc[p].pc = "create" /\ name.new # 0 /\ Fail(p)

BOpen(p) == OpensBuild(p, "bopen", "block")

BLock(p) ==
    /\ proc[p].pc = "block"
    /\ Lock(p, proc[p].ino, [proc[p] EXCEPT !.pc = "bcheck"])
    /\ UNCHANGED <<name, guard, snaps, day, written, stolen, claim, faults>>

BBusy(p) == proc[p].pc = "block" /\ Busy(p, proc[p].ino)

\* [agend-daemon/src/store.rs:783-790] create_database: the file at the name is the created one.
StillOwn(p) == name.new = proc[p].own

\* The leftover's lock is given back only now.
BCheck(p) ==
    /\ proc[p].pc = "bcheck"
    /\ StillOwn(p)
    /\ lock' = [i \in Inodes |-> IF i = proc[p].left /\ lock[i] = p THEN NoOne ELSE lock[i]]
    /\ proc' = [proc EXCEPT ![p].pc = "build", ![p].left = 0]
    /\ UNCHANGED <<node, name, journal, guard, snaps, day, written, stolen, claim, faults>>

BReplaced(p) == proc[p].pc = "bcheck" /\ ~StillOwn(p) /\ Fail(p)

\* [external] SQLite opens no journal for a file that lost its name (READONLY_DBMOVED).
Unmoved(p) == name.new = proc[p].ino

BMoved(p) ==
    /\ proc[p].pc = "build"
    /\ node[proc[p].ino].ver < proc[p].sup
    /\ ~Unmoved(p)
    /\ Fail(p)

\* [agend-daemon/src/store/migrate.rs:119-135] apply on the build file: a migration begins
\* with its journal,
BBegin(p) ==
    /\ proc[p].pc = "build"
    /\ node[proc[p].ino].ver < proc[p].sup
    /\ Unmoved(p)
    /\ journal' = proc[p].ino
    /\ Go(p, "bcommit")
    /\ UNCHANGED <<node, name, lock, guard, snaps, day, written, stolen, claim, faults>>

\* [agend-daemon/src/store/migrate.rs:136-143] apply: and is committed by removing it.
BCommit(p) ==
    /\ proc[p].pc = "bcommit"
    /\ journal' = 0
    /\ node' = [node EXCEPT ![proc[p].ino].ver = @ + 1]
    /\ Go(p, "build")
    /\ UNCHANGED <<name, lock, guard, snaps, day, written, stolen, claim, faults>>

\* [agend-daemon/src/store.rs:791-794] create_database: every migration has committed.
Built(p) == node[proc[p].ino].ver = proc[p].sup

\* What has the build's name is published, whoever made it.
Published(p) == stolen' = IF proc[p].own \in stolen THEN stolen \cup {name.new} ELSE stolen

\* [agend-daemon/src/store.rs:846-857] publish: a hard link never replaces anything.
Link(p) ==
    /\ proc[p].pc = "build"
    /\ Built(p)
    /\ HardLinks
    /\ IF name.db # 0
         THEN Go(p, "close") /\ UNCHANGED name
         ELSE name.new # 0 /\ name' = [name EXCEPT !.db = name.new] /\ Go(p, "unlink")
    /\ Published(p)
    /\ UNCHANGED <<node, journal, lock, guard, snaps, day, written, claim, faults>>

Unlink(p) ==
    /\ proc[p].pc = "unlink" /\ name.new # 0
    /\ Unname("new")
    /\ Go(p, "close")
    /\ UNCHANGED <<node, journal, lock, guard, snaps, day, written, stolen, claim, faults>>

\* [agend-daemon/src/store.rs:858-867] publish without hard links: the name is free,
LinkCheck(p) ==
    /\ proc[p].pc = "build"
    /\ Built(p)
    /\ ~HardLinks
    /\ Go(p, IF name.db # 0 THEN "close" ELSE "rename")
    /\ UNCHANGED <<node, name, journal, lock, guard, snaps, day, written, stolen, claim, faults>>

\* [agend-daemon/src/store.rs:868-874] publish: so rename, which would replace.
Rename(p) ==
    /\ proc[p].pc = "rename" /\ name.new # 0
    /\ name' = [db |-> name.new, new |-> 0]
    /\ Published(p)
    /\ Go(p, "close")
    /\ UNCHANGED <<node, journal, lock, guard, snaps, day, written, claim, faults>>

\* [agend-daemon/src/store.rs:846-874] publish: the build file's name is gone.
NothingToPublish(p) ==
    /\ name.new = 0
    /\ \/ proc[p].pc \in {"unlink", "rename"}
       \/ proc[p].pc = "build" /\ Built(p) /\ HardLinks /\ name.db = 0
    /\ Fail(p)

\* [agend-daemon/src/store.rs:795-798] create_database: the connection closes, the home is
\* synced, and the database is opened like any other.
Close(p) ==
    /\ proc[p].pc = "close"
    /\ lock' = Released(p)
    /\ proc' = [proc EXCEPT ![p] = [Idle EXCEPT !.pc = "open", !.sup = proc[p].sup]]
    /\ UNCHANGED <<node, name, journal, guard, snaps, day, written, stolen, claim, faults>>

--------------------------------------------------------------------------------
(* A store in service. *)

Write(p) ==
    /\ proc[p].pc = "up"
    /\ \E r \in 1..MaxRow :
        /\ \A s \in written : s < r
        /\ r = 1 \/ r - 1 \in written
        /\ written' = written \cup {r}
        /\ node' = [node EXCEPT ![proc[p].ino].rows = @ \cup {r}]
    /\ claim' = NoClaim
    /\ UNCHANGED <<name, journal, lock, guard, proc, snaps, day, stolen, faults>>

\* [agend-daemon/src/store/snapshot.rs:206-241] daily: one a day, none of an empty database.
Daily(p) ==
    /\ proc[p].pc = "up"
    /\ node[proc[p].ino].rows # {}
    /\ \A s \in snaps : s.day # day \/ s.to # 0
    /\ snaps' = Rotate(WriteSnap(snaps, 0, proc[p].ino))
    /\ UNCHANGED <<node, name, journal, lock, guard, proc, day, written, stolen, claim, faults>>

CloseStore(p) ==
    /\ proc[p].pc = "up"
    /\ Leave(p)
    /\ UNCHANGED <<node, name, journal, snaps, day, written, stolen, claim, faults>>

Midnight ==
    /\ day < MaxDay
    /\ day' = day + 1
    /\ claim' = NoClaim
    /\ UNCHANGED <<node, name, journal, lock, guard, proc, snaps, written, stolen, faults>>

--------------------------------------------------------------------------------
(* Removing the data of a home (uninstall --delete-data, register's probe). *)

\* [agend-daemon/src/store/maintenance.rs:70-77] Maintenance::acquire
MBegin(p) ==
    /\ proc[p].pc = "idle"
    /\ \A q \in Procs : guard[q] = "none"
    /\ guard' = [guard EXCEPT ![p] = "exclusive"]
    /\ Go(p, "mstat")
    /\ UNCHANGED <<node, name, journal, lock, snaps, day, written, stolen, claim, faults>>

\* Mutant: the database itself is not locked.
MLockNot(p) ==
    /\ proc[p].pc = "mstat"
    /\ Go(p, "maintain")
    /\ UNCHANGED <<node, journal, lock>>
    /\ UNCHANGED <<name, guard, snaps, day, written, stolen, claim, faults>>

\* [agend-daemon/src/store/maintenance.rs:78-99] Maintenance::acquire: the database, if
\* there is one, has one name and is locked as well.
MLock(p) ==
    /\ proc[p].pc = "mstat"
    /\ IF name.db = 0
         THEN Go(p, "maintain") /\ UNCHANGED <<node, journal, lock>>
         ELSE /\ ~SecondName /\ ~Refusable(name.db)
              /\ Lock(p, name.db, [proc[p] EXCEPT !.pc = "maintain", !.ino = name.db])
    /\ UNCHANGED <<name, guard, snaps, day, written, stolen, claim, faults>>

MRefused(p) ==
    /\ proc[p].pc = "mstat"
    /\ name.db # 0
    /\ \/ (SecondName \/ Refusable(name.db)) /\ Fail(p)
       \/ ~SecondName /\ ~Refusable(name.db) /\ Busy(p, name.db)

\* [agend/src/service/purge.rs:66-88] delete: one entry of the home after another.  An
\* uninstaller killed in between leaves some.
MDelete(p) ==
    /\ proc[p].pc = "maintain"
    /\ \/ name.db # 0 /\ Unname("db") /\ UNCHANGED <<journal, snaps>>
       \/ name.new # 0 /\ Unname("new") /\ UNCHANGED <<journal, snaps>>
       \/ journal # 0 /\ journal' = 0 /\ UNCHANGED <<name, snaps>>
       \/ snaps # {} /\ snaps' = {} /\ UNCHANGED <<name, journal>>
    /\ written' = {}
    /\ claim' = NoClaim
    /\ UNCHANGED <<node, lock, guard, proc, day, stolen, faults>>

MEnd(p) ==
    /\ proc[p].pc = "maintain"
    /\ Leave(p)
    /\ UNCHANGED <<node, name, journal, snaps, day, written, stolen, claim, faults>>

--------------------------------------------------------------------------------
(* Faults. *)

\* A system call or a migration fails.
Fault(p) ==
    /\ proc[p].pc \notin {"idle", "up", "maintain"}
    /\ faults < MaxFault
    /\ faults' = faults + 1
    /\ GiveUp(p)

\* The process is killed: its locks go, a journal stays.
Crash(p) ==
    /\ proc[p].pc # "idle"
    /\ faults < MaxFault
    /\ faults' = faults + 1
    /\ Leave(p)
    /\ UNCHANGED <<node, name, journal, snaps, day, written, stolen, claim>>

Opening(p) ==
    \/ Stat(p) \/ StatRefused(p) \/ Open(p) \/ OpenMissing(p) \/ OLock(p) \/ OBusy(p)
    \/ VerifyRefused(p) \/ Verify(p) \/ Snapshot(p) \/ Migrate(p)

Creating(p) ==
    \/ Leftover(p) \/ BuildGone(p) \/ LeftOpen(p) \/ LeftLock(p) \/ LeftBusy(p) \/ LeftRemove(p)
    \/ LeftJournal(p) \/ Create(p) \/ CreateTaken(p) \/ BOpen(p) \/ BLock(p) \/ BBusy(p)
    \/ BCheck(p) \/ BReplaced(p) \/ BMoved(p) \/ BBegin(p) \/ BCommit(p)
    \/ Link(p) \/ Unlink(p) \/ LinkCheck(p) \/ Rename(p)
    \/ NothingToPublish(p) \/ Close(p)

Next ==
    \/ \E p \in Procs, v \in 1..MaxVer : Begin(p, v)
    \/ \E p \in Procs : Opening(p)
    \/ \E p \in Procs : Creating(p)
    \/ \E p \in Procs : Write(p) \/ Daily(p) \/ CloseStore(p)
    \/ \E p \in Procs : MBegin(p) \/ MLock(p) \/ MRefused(p) \/ MDelete(p) \/ MEnd(p)
    \/ \E p \in Procs : Fault(p) \/ Crash(p)
    \/ Midnight

Spec == Init /\ [][Next]_vars

\* A daemon of the latest version that keeps trying to open the store (its service manager
\* starts it again) and goes on once it has begun; kills and faults end some day.
Retries(p) == Begin(p, MaxVer) \/ Opening(p) \/ Creating(p)
LiveNext == \E p \in Procs : Retries(p) \/ Fault(p) \/ Crash(p)

--------------------------------------------------------------------------------
(* Properties. *)

TypeOK ==
    /\ node \in [Inodes -> [kind: Kinds, ver: 0..MaxVer + 1, rows: SUBSET (1..MaxRow), made: 0..MaxVer]]
    /\ \A i \in Inodes : node[i].made # 0 => node[i].ver <= MaxVer
    /\ name \in [{"db", "new"} -> {0} \cup Inodes]
    /\ journal \in {0} \cup Inodes
    /\ lock \in [Inodes -> Procs \cup {NoOne}]
    /\ guard \in [Procs -> {"none", "shared", "exclusive"}]
    /\ \A p \in Procs : proc[p].sup \in 0..MaxVer /\ proc[p].ino \in {0} \cup Inodes
    /\ \A s \in snaps : [day |-> s.day, to |-> s.to] \in SnapNames
    /\ day \in 1..MaxDay
    /\ written \subseteq 1..MaxRow

\* A store that is open, or being upgraded, is the only one, and its file is the one named
\* agend.db: nobody replaced or removed it under the daemon, whatever creators,
\* uninstallers and killed processes do at the same time.
ServesTheDatabase ==
    \A p \in Procs : proc[p].pc \in {"snapshot", "migrate", "up"} =>
        /\ name.db = proc[p].ino
        /\ \A q \in Procs \ {p} : proc[q].pc \notin {"snapshot", "migrate", "up", "maintain"}

\* "An existing agend.db is always a database this store finished creating" (store.rs:14):
\* a file this store made has the name agend.db only with every migration of the creator
\* committed and nothing of another build in it.  Except, as the code does not keep it (README,
\* finding 9): the lock on a leftover is on the file that was opened, the removal by its name
\* (store.rs:832), so it may take the name of a build that goes on meanwhile, and whoever made
\* that build publishes what has the name next, a build that has only begun.
PublishedIsWhole ==
    name.db # 0 /\ node[name.db].made # 0 /\ name.db \notin stolen =>
        node[name.db].ver >= node[name.db].made /\ node[name.db].kind = "ok"

\* What a store accepted is in agend.db until somebody removes the home's data: no
\* creation, crash, race or upgrade starts over with an empty database.
NothingLost ==
    \A r \in written : name.db # 0 /\ r \in node[name.db].rows

\* A database that was damaged or is newer than every binary is left exactly as it is,
\* unless the home is removed (store.rs:17-22).
Damaged == name.db # 0 /\ (node[name.db].kind = "tables" \/ node[name.db].ver \in {0, MaxVer + 1})

HandsOffDamaged ==
    Damaged => (node'[name.db] = node[name.db]
                   /\ (name'.db = name.db \/ \E p \in Procs : proc[p].pc = "maintain"))

\* When a migration of an existing database begins, backups/ has a snapshot of exactly what
\* is about to be migrated, under the name of this upgrade: rotation never takes it.
UpgradeIsBackedUp ==
    \A p \in Procs : proc[p].pc = "migrate" =>
        \E s \in snaps : /\ s.to = proc[p].sup
                         /\ s.rows = node[proc[p].ino].rows
                         /\ s.ver <= node[proc[p].ino].ver

\* "Downgrading is restoring the pre-upgrade DB snapshot" (migrate.rs:4): while nothing was
\* written since an upgrade from one version to another began, backups/ has a snapshot the
\* older binary opens, with everything the database had.  Except, as the code does not keep it
\* (README, finding 10): an upgrade that failed between two migrations and is tried again on
\* the same day writes its snapshot of the half migrated database over the one of the original
\* (snapshot.rs:250).
DowngradeIsPossible ==
    claim.to # 0 /\ ~claim.again => \E s \in snaps : s.ver <= claim.from /\ s.rows = claim.rows

================================================================================
