------------------------------ MODULE Pairing ------------------------------
(***************************************************************************)
(* Pairing the daemon with a Telegram chat: the one pairing record in      *)
(* SQLite, the service that runs one operation at a time with HTTP calls   *)
(* between reading the record and publishing the next one, the messages    *)
(* that people send to the bot, and the command that puts a confirmed      *)
(* destination into the human's config.toml while the human may be editing *)
(* it.  The daemon and the command may die between any two steps.          *)
(***************************************************************************)
EXTENDS Integers, Sequences, FiniteSets

CONSTANTS Chats,       \* destinations a message may come from
          Clients,     \* operators' commands in flight
          Window,      \* PAIRING_WINDOW_MS, in ticks
          MaxTime,     \* bound: ticks
          MaxIds,      \* bound: pairings begun
          MaxMsgs,     \* bound: messages to the bot
          MaxOps,      \* bound: operations asked for
          MaxEdits     \* bound: edits of config.toml, and of its replacements

PairingAssumption ==
    /\ {Window, MaxTime, MaxIds, MaxMsgs, MaxOps, MaxEdits} \subseteq Nat /\ Window > 0

VARIABLES clock, rec,
    msgs,     \* updates of the bot, in order: who, which pairing's code, when
    ops,      \* each client's operation
    lock,     \* the client whose operation runs in the service, or "free"
    conf,     \* ghost: destinations some operator confirmed, with the pairing
    file,     \* config.toml: its inode, 0 for none
    ino,      \* the inodes: edits they hold, and their Telegram destination
    bak,      \* config.before-telegram-<id>.toml: inode per pairing
    ap,       \* the apply command
    fd,       \* inode the human's editor has open, 0 for none
    edits,    \* edits the human has saved in place
    overtaken, \* ghost: inodes that a human put in place after apply's last look
    asked

vars == <<clock, rec, msgs, ops, lock, conf, file, ino, bak, ap, fd, edits, overtaken, asked>>
service == <<clock, rec, msgs, ops, lock, conf, asked>>
config == <<file, ino, bak, ap, fd, edits, overtaken>>

NoChat == "none"
NoRec == [id |-> 0, phase |-> "none"]
NoOp == [pc |-> "idle"]
NoApply == [pc |-> "idle"]
Ids == 1 .. MaxIds

Init ==
    /\ clock = 0 /\ rec = NoRec /\ msgs = <<>> /\ ops = [c \in Clients |-> NoOp]
    /\ lock = "free" /\ conf = {} /\ asked = 0
    /\ file \in {0, 1} /\ ino = <<[edits |-> {}, tg |-> NoChat]>>
    /\ bak = [i \in Ids |-> 0] /\ ap = NoApply /\ fd = 0 /\ edits = 0 /\ overtaken = {}

Tick == clock < MaxTime /\ clock' = clock + 1 /\ UNCHANGED <<rec, msgs, ops, lock, conf, asked, config>>

-----------------------------------------------------------------------------
(* The session. *)

\* [agend-core/src/telegram/pairing.rs:33-73] TelegramPairing::new
NewSession(id) == [id |-> id, created |-> clock, offset |-> 0, cand |-> NoChat, phase |-> "pending"]

\* [agend-core/src/telegram/pairing.rs:77-83] TelegramPairing::check_time
InTime(r) == clock >= r.created /\ clock < r.created + Window

\* Which of the messages up to n are the code of session r, sent in its time.
\* [agend-daemon/src/notifier/pairing.rs:72-108] message, and the checks of observe
Codes(r, n) == {k \in (r.offset + 1) .. n : msgs[k].id = r.id /\ msgs[k].date >= r.created
                                              /\ msgs[k].date <= clock}

\* [agend-core/src/telegram/pairing.rs:84-113] TelegramPairing::observe: one destination only
Sound(r, n) == Cardinality({msgs[k].chat : k \in Codes(r, n)} \cup ({r.cand} \ {NoChat})) <= 1

\* [agend-daemon/src/notifier/pairing.rs:41-71] poll: the next session
Observe(r, n) ==
    [r EXCEPT !.offset = n,
              !.cand = IF Codes(r, n) = {} THEN @ ELSE msgs[CHOOSE k \in Codes(r, n) : \A j \in Codes(r, n) : j <= k].chat]

\* [agend-core/src/telegram/pairing.rs:114-125] TelegramPairing::confirm
Confirms(r, chat) == InTime(r) /\ r.cand = chat

-----------------------------------------------------------------------------
(* The service: read, call Telegram, publish. *)

\* [external] people write to the bot
Message(chat, id) ==
    /\ Len(msgs) < MaxMsgs /\ rec.id >= id
    /\ msgs' = Append(msgs, [chat |-> chat, id |-> id, date |-> clock])
    /\ UNCHANGED <<clock, rec, ops, lock, conf, asked, config>>

\* [agend/src/telegram.rs:63-152] run: the operation is sent, never again, and its result read
Ask(c) ==
    /\ ops[c].pc = "idle" /\ asked < MaxOps
    /\ \E o \in [pc : {"queued"}, kind : {"begin", "poll", "cancel"}, id : Ids, chat : {NoChat}]
              \cup [pc : {"queued"}, kind : {"confirm"}, id : Ids, chat : Chats] :
          ops' = [ops EXCEPT ![c] = o]
    /\ asked' = asked + 1
    /\ UNCHANGED <<clock, rec, msgs, lock, conf, config>>

Expired(r) == clock >= r.created + Window

\* Refusals before any network activity.
\* [agend-daemon/src/notifier/pairing_service.rs:76-130] PairingService::run: up to the call
Admissible(o) ==
    IF o.kind = "begin"
    THEN rec = NoRec \/ (rec.id # o.id /\ (rec.phase # "pending" \/ Expired(rec)))
    ELSE /\ rec # NoRec /\ rec.id = o.id /\ rec.phase = "pending"
         /\ o.kind = "poll" => InTime(rec)
         /\ o.kind = "confirm" => Confirms(rec, o.chat)

\* [agend-daemon/src/notifier/pairing_service.rs:57-75] PairingService::execute: one at a time
Start(c) ==
    /\ ops[c].pc = "queued" /\ lock = "free"
    /\ IF Admissible(ops[c])
       THEN /\ lock' = c
            /\ ops' = [ops EXCEPT ![c] = [pc |-> "http", kind |-> @.kind, id |-> @.id,
                                          chat |-> @.chat, was |-> rec, next |-> NoRec]]
       ELSE ops' = [ops EXCEPT ![c] = NoOp] /\ UNCHANGED lock
    /\ UNCHANGED <<clock, rec, msgs, conf, asked, config>>

\* The answer of Telegram: the messages there are now, or a failure.
\* [agend-daemon/src/notifier/pairing.rs:15-40] begin, and verify_bot
Http(c) ==
    /\ ops[c].pc = "http"
    /\ LET o == ops[c]
           fail == ops' = [ops EXCEPT ![c] = NoOp] /\ lock' = "free"
       IN  \/ fail
           \/ /\ UNCHANGED lock
              /\ \/ o.kind = "begin" /\ ops' = [ops EXCEPT ![c] = [@ EXCEPT !.pc = "store", !.next = NewSession(o.id)]]
                 \/ /\ o.kind = "poll" /\ InTime(o.was)
                    /\ \E n \in o.was.offset .. Len(msgs) :
                          /\ o.was.cand = NoChat => Sound(o.was, n)
                          /\ ops' = [ops EXCEPT ![c] = [@ EXCEPT !.pc = "store",
                                        !.next = IF o.was.cand = NoChat THEN Observe(o.was, n) ELSE o.was]]
                 \/ o.kind = "confirm" /\ Confirms(o.was, o.chat)
                       /\ ops' = [ops EXCEPT ![c] = [@ EXCEPT !.pc = "store", !.next = [o.was EXCEPT !.phase = "confirmed"]]]
                 \/ o.kind = "cancel" /\ ops' = [ops EXCEPT ![c] = [@ EXCEPT !.pc = "store", !.next = [o.was EXCEPT !.phase = "cancelled"]]]
    /\ UNCHANGED <<clock, rec, msgs, conf, asked, config>>

\* [agend-daemon/src/store/telegram_pairing.rs:71-163] begin, observe and confirm: the checks of time and identity
StoreAccepts(o) ==
    CASE o.kind = "begin"   -> InTime(o.next) /\ (rec = NoRec \/ rec.phase # "pending" \/ Expired(rec))
      [] o.kind = "poll"    -> InTime(o.next)
      [] o.kind = "confirm" -> Confirms(o.was, o.chat)
      [] OTHER              -> TRUE

\* [agend-daemon/src/store/telegram_pairing.rs:164-191] close_telegram_pairing: only over the exact snapshot
Publish(c) ==
    /\ ops[c].pc = "store"
    /\ LET o == ops[c]
           ok == rec = o.was /\ StoreAccepts(o)
       IN  /\ rec' = IF ok THEN o.next ELSE rec
           /\ conf' = IF ok /\ o.kind = "confirm" THEN conf \cup {<<o.id, o.chat>>} ELSE conf
    /\ ops' = [ops EXCEPT ![c] = NoOp] /\ lock' = "free"
    /\ UNCHANGED <<clock, msgs, asked, config>>

\* The daemon dies: what was not published is forgotten, Telegram is not told.
Restart ==
    /\ lock # "free"
    /\ ops' = [c \in Clients |-> NoOp] /\ lock' = "free"
    /\ UNCHANGED <<clock, rec, msgs, conf, asked, config>>

-----------------------------------------------------------------------------
(* Applying a confirmed pairing to config.toml. *)

\* [agend/src/telegram/apply.rs:20-39] snapshot
Snapshot(i) == IF i = 0 THEN <<0>> ELSE <<i, ino[i]>>

\* [agend/src/telegram/apply.rs:40-47] unchanged
Unchanged(i, was) == Snapshot(i) = was

\* [agend-core/src/telegram/pairing.rs:153-163] PairingRecord::configuration
Applicable == rec # NoRec /\ rec.phase = "confirmed"

\* [agend/src/telegram/apply.rs:57-108] apply: from the receipt to the temporary file
ApplyStart ==
    /\ ap.pc = "idle" /\ Applicable /\ Len(ino) < 3
    /\ file # 0 => ino[file].tg = NoChat
    /\ ino' = Append(ino, [edits |-> IF file = 0 THEN {} ELSE ino[file].edits, tg |-> rec.cand])
    /\ ap' = [pc |-> IF file = 0 THEN "create" ELSE "link", id |-> rec.id, was |-> Snapshot(file),
              tmp |-> Len(ino) + 1]
    /\ UNCHANGED <<service, file, bak, fd, edits, overtaken>>

\* [agend/src/telegram/apply.rs:109-128] apply: the old inode keeps a name, then the new one takes its place
ApplyStep ==
    \/ /\ ap.pc = "create"
       /\ file' = IF file = 0 THEN ap.tmp ELSE file
       /\ ap' = NoApply /\ UNCHANGED <<bak, ino, overtaken>>
    \/ /\ ap.pc = "link"
       /\ IF Unchanged(file, ap.was) /\ bak[ap.id] = 0
          THEN bak' = [bak EXCEPT ![ap.id] = file] /\ ap' = [ap EXCEPT !.pc = "check"]
          ELSE UNCHANGED bak /\ ap' = NoApply
       /\ UNCHANGED <<file, ino, overtaken>>
    \/ /\ ap.pc = "check"
       /\ ap' = IF Unchanged(bak[ap.id], ap.was) /\ Unchanged(file, ap.was)
                THEN [ap EXCEPT !.pc = "rename"] ELSE NoApply
       /\ UNCHANGED <<file, bak, ino, overtaken>>
    \/ /\ ap.pc = "rename"
       /\ file' = ap.tmp
       /\ overtaken' = IF file = bak[ap.id] THEN overtaken ELSE overtaken \cup {file}
       /\ ap' = NoApply /\ UNCHANGED <<bak, ino>>

Apply == ApplyStep /\ UNCHANGED <<service, fd, edits>>

\* The command is killed.
ApplyDies == ap.pc # "idle" /\ ap' = NoApply /\ UNCHANGED <<service, file, ino, bak, fd, edits, overtaken>>

\* The human opens the file, and saves into what is open: the content at the
\* time of saving with the edit added.
EditorOpens == fd = 0 /\ file # 0 /\ edits < MaxEdits /\ fd' = file
               /\ UNCHANGED <<service, file, ino, bak, ap, edits, overtaken>>
EditorSaves ==
    /\ fd # 0 /\ edits < MaxEdits
    /\ edits' = edits + 1
    /\ ino' = [ino EXCEPT ![fd].edits = @ \cup {edits + 1}]
    /\ fd' = 0
    /\ UNCHANGED <<service, file, bak, ap, overtaken>>

\* An editor that writes another file and renames it over this one.
EditorReplaces ==
    /\ file # 0 /\ fd = 0 /\ Len(ino) < 3 /\ edits < MaxEdits
    /\ ino' = Append(ino, [ino[file] EXCEPT !.edits = @ \cup {edits + 1}])
    /\ file' = Len(ino) + 1
    /\ edits' = edits + 1
    /\ UNCHANGED <<service, bak, ap, fd, overtaken>>

Next ==
    \/ Tick \/ Restart \/ Apply \/ ApplyStart \/ ApplyDies
    \/ \E h \in Chats, i \in Ids : Message(h, i)
    \/ \E c \in Clients : Ask(c) \/ Start(c) \/ Http(c) \/ Publish(c)
    \/ EditorOpens \/ EditorSaves \/ EditorReplaces

Spec == Init /\ [][Next]_vars

-----------------------------------------------------------------------------

\* Types; a confirmed pairing has a destination.
TypeOK ==
    /\ clock \in 0 .. MaxTime /\ lock \in Clients \cup {"free"}
    /\ rec # NoRec => /\ rec.id \in Ids /\ rec.cand \in Chats \cup {NoChat}
                      /\ rec.offset \in 0 .. Len(msgs)
                      /\ rec.phase \in {"pending", "confirmed", "cancelled"}
    /\ \A c \in Clients : ops[c].pc \in {"http", "store"} <=> lock = c
    /\ file \in 0 .. Len(ino)

\* A confirmed destination sent this pairing's own code while the pairing was
\* open; another pairing's code, or an old one, never counts.
ConfirmedWasProven ==
    \A x \in conf : \E k \in DOMAIN msgs : msgs[k].chat = x[2] /\ msgs[k].id = x[1]

\* While a pairing has no candidate yet, the cursor has not passed any message
\* that was its code: a crash or a failure between reading the updates and
\* publishing loses none.  And it has passed no code of a second destination.
NoCodeSkipped ==
    rec # NoRec => \A k \in 1 .. rec.offset :
        msgs[k].id = rec.id /\ msgs[k].date >= rec.created => msgs[k].chat = rec.cand

\* The destination in config.toml is one that an operator confirmed.
AppliedWasConfirmed ==
    file # 0 /\ ino[file].tg # NoChat => \E x \in conf : x[2] = ino[file].tg

\* Every edit the human saved is still in config.toml or in a backup of it, but for a file that an
\* editor put in place between apply's last look and its rename (apply.rs:116-117), which no
\* program can exclude.
EditsKept ==
    \A e \in 1 .. edits :
        \/ file # 0 /\ e \in ino[file].edits
        \/ \E i \in Ids : bak[i] # 0 /\ e \in ino[bak[i]].edits
        \/ \E i \in overtaken : e \in ino[i].edits

=============================================================================
