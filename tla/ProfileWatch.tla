---------------------------- MODULE ProfileWatch ----------------------------
(****************************************************************************)
(* The profile file and its two writers (jinnd-daemon watch.rs and          *)
(* daemon.rs; jinnd-loader document.rs, raw.rs, store.rs, file_store.rs):   *)
(* the operator edits it, and the daemon writes it back on every commit.    *)
(* The watcher sees both kinds of write and must tell its own echo apart,   *)
(* by the bytes it remembers having written.                                *)
(*                                                                          *)
(* A text is a document and the hand that laid it out: the daemon's own     *)
(* rendering, or an operator's, which parses to the same document.  A       *)
(* burst of file events is one delivery, so one flag stands for all the     *)
(* events the watcher has still to act on.  Loader.tla has what an applied  *)
(* document does to the entries; here an operation is its engagement, its   *)
(* write-back and its commit.                                               *)
(****************************************************************************)
EXTENDS Naturals, FiniteSets

CONSTANTS
    Id,            \* entry ids
    Config,        \* config payloads
    Raw,           \* entries that do not decode
    None,          \* no entry, no signature, nothing committed
    Junk,          \* a text that is not a document
    Absent,        \* no file
    Texts,         \* what the operator may leave in the file
    MaxEdits, MaxOps, MaxCrashes, MaxFaults  \* bounds

Hands == {"kernel", "operator"}

\* One DocumentEntry: its config, whether it carries fields the kernel does not
\* know, and whether its realm directives parse.
Item == [config : Config, extra : BOOLEAN, realm : {"good", "bad"}]

Document == [entries : [Id -> Item \union {None}], raw : SUBSET Raw]
Text == [doc : Document, hand : Hands] \union {Junk, Absent}

ASSUME WatchAssumption ==
    /\ Texts \subseteq Text
    /\ None \notin Item
    /\ \A t \in {Junk, Absent} : t \notin [doc : Document, hand : Hands]
    /\ {MaxEdits, MaxOps, MaxCrashes, MaxFaults} \subseteq Nat

VARIABLES
    profile,    \* the profile file
    notified,   \* the watcher has a profile event it has not acted on
    baseline,   \* Persistence.baseline
    written,    \* Persistence.written
    record,     \* the committed document
    op,         \* op[c]: the operation of the watcher task, and of a guest
    refused,    \* the last delivery was refused, and the log says so
    restored,   \* history: the file is a text put back over a save (RestoresOverSave)
    spent       \* the bounds used up

wvars == <<profile, notified, baseline, written, record, op, refused, restored, spent>>

-----------------------------------------------------------------------------
(* The document codec *)

EmptyDocument == [entries |-> [i \in Id |-> None], raw |-> {}]

\* Document::parse is lenient per entry: only a text that is no document fails.
Parses(t) == t \notin {Junk, Absent}

Render(d) == [doc |-> d, hand |-> "kernel"]

\* An entry whose realm directive does not parse resolves to a fault.
ResolveEntry(item) == IF item.realm = "bad" THEN None ELSE item.config

Resolve(d) ==
    [i \in Id |-> IF d.entries[i] = None THEN None ELSE ResolveEntry(d.entries[i])]

\* Unknown fields and undecodable entries come from the baseline, by id.
MergeProfile(p, base) ==
    [entries |-> [i \in Id |->
        IF p[i] = None THEN None
        ELSE [config |-> p[i], realm |-> "good",
              extra |-> base.entries[i] # None /\ base.entries[i].extra]],
     raw |-> base.raw]

\* Document::amended refuses an entry the document does not hold.
Amended(base, i, c) == [base EXCEPT !.entries[i].config = c]

-----------------------------------------------------------------------------
(* Operations *)

Callers == {"watch", "guest"}
Idle == [at |-> "idle"]
Engaged == \E c \in Callers : op[c].at \in {"engaged", "renamed", "written", "landing"}

Reconcile(d) == [at |-> "engaged", kind |-> "reconcile", source |-> d, target |-> Resolve(d)]
Step(c, at) == [op EXCEPT ![c].at = at]

\* What the operation is about to write: the whole committed profile, or one
\* entry of the baseline.
ToSave(c) ==
    IF op[c].kind = "amend" THEN Amended(baseline, op[c].entry, op[c].target[op[c].entry])
    ELSE MergeProfile(op[c].target, baseline)

\* FileStore::save: a sibling temporary, then a rename over the file.
Save(c) ==
    /\ op[c].at = "engaged"
    /\ profile' = Render(ToSave(c))
    /\ notified' = TRUE /\ restored' = FALSE
    /\ op' = [op EXCEPT ![c] = [x \in DOMAIN @ \union {"saved"} |->
                                 CASE x = "saved" -> ToSave(c)
                                   [] x = "at" -> "renamed"
                                   [] OTHER -> @[x]]]
    /\ UNCHANGED <<baseline, written, record, refused, spent>>

\* A failed save removes the temporary and fails the operation whole.
SaveFails(c) ==
    /\ op[c].at = "engaged"
    /\ spent.faults < MaxFaults
    /\ spent' = [spent EXCEPT !.faults = @ + 1]
    /\ op' = [op EXCEPT ![c] = IF c = "watch" /\ record = None THEN [at |-> "down"] ELSE Idle]
    /\ refused' = (refused \/ c = "watch")
    /\ UNCHANGED <<profile, notified, baseline, written, record, restored>>

\* The signature is remembered only after the rename.
Remember(c) ==
    /\ op[c].at = "renamed"
    /\ written' = Render(op[c].saved)
    /\ baseline' = op[c].saved
    /\ op' = Step(c, "written")
    /\ UNCHANGED <<profile, notified, record, refused, spent, restored>>

Commit(c) ==
    /\ op[c].at = "written"
    /\ record' = op[c].target
    /\ op' = Step(c, "landing")
    /\ UNCHANGED <<profile, notified, baseline, written, refused, spent, restored>>

\* The runtime steps land and the engagement ends.
Land(c) ==
    /\ op[c].at = "landing"
    /\ op' = [op EXCEPT ![c] = Idle]
    /\ refused' = (refused /\ c # "watch")
    /\ UNCHANGED <<profile, notified, baseline, written, record, spent, restored>>

-----------------------------------------------------------------------------
(* The daemon's boot and the watcher task *)

\* Daemon::boot: no file is the empty document, and the write-back is attached
\* with the loaded document as its baseline.  A boot that fails ends the process.
Boot ==
    /\ op["watch"].at = "boot"
    /\ IF profile = Junk
       THEN op' = [op EXCEPT !["watch"] = [at |-> "down"]] /\ UNCHANGED <<baseline, written>>
       ELSE LET d == IF profile = Absent THEN EmptyDocument ELSE profile.doc
            IN  /\ baseline' = d /\ written' = None
                /\ op' = [op EXCEPT !["watch"] = Reconcile(d)]
    /\ UNCHANGED <<profile, notified, record, refused, spent, restored>>

\* A settled burst: the batch is taken before anything is read.
Settle ==
    /\ op["watch"].at = "idle"
    /\ notified
    /\ notified' = FALSE
    /\ op' = Step("watch", "deliver")
    /\ UNCHANGED <<profile, baseline, written, record, refused, spent, restored>>

ReadFile ==
    /\ op["watch"].at = "deliver"
    /\ op' = [op EXCEPT !["watch"] = [at |-> "judge", text |-> profile]]
    /\ UNCHANGED <<profile, notified, baseline, written, record, refused, spent, restored>>

\* Mutants: any delivery after a save is its echo; no delivery ever is.
IsEchoAnyBytes(text) == written # None
IsEchoNever(text) == FALSE

\* Loader::retire_echo: one shot, on the exact bytes.
IsEcho(text) == written # None /\ written = text

DeliverEcho ==
    /\ op["watch"].at = "judge"
    /\ IsEcho(op["watch"].text)
    /\ written' = None
    /\ op' = [op EXCEPT !["watch"] = Idle]
    /\ refused' = FALSE
    /\ UNCHANGED <<profile, notified, baseline, record, spent, restored>>

\* The reconcile is refused, never queued: the text is no document, another
\* operation is engaged, or a withdrawal replay is in flight.
DeliverRefused ==
    /\ op["watch"].at = "judge"
    /\ ~IsEcho(op["watch"].text)
    /\ \/ ~Parses(op["watch"].text)
       \/ Engaged
       \/ Parses(op["watch"].text) /\ ~Engaged /\ spent.faults < MaxFaults
    /\ spent' = IF Parses(op["watch"].text) /\ ~Engaged
                THEN [spent EXCEPT !.faults = @ + 1] ELSE spent
    /\ op' = [op EXCEPT !["watch"] = Idle]
    /\ refused' = TRUE
    /\ UNCHANGED <<profile, notified, baseline, written, record, restored>>

DeliverEdit ==
    /\ op["watch"].at = "judge"
    /\ ~IsEcho(op["watch"].text)
    /\ Parses(op["watch"].text)
    /\ ~Engaged
    /\ op' = [op EXCEPT !["watch"] = Reconcile(op["watch"].text.doc)]
    /\ UNCHANGED <<profile, notified, baseline, written, record, refused, spent, restored>>

-----------------------------------------------------------------------------
(* A guest's amendments and administrations, the operator, the crash *)

GuestStarts ==
    /\ op["guest"].at = "idle"
    /\ op["watch"].at \in {"idle", "deliver", "judge"}
    /\ spent.ops < MaxOps
    /\ spent' = [spent EXCEPT !.ops = @ + 1]
    /\ \E i \in Id, kind \in {"amend", "administer"}, c \in Config \union {None} :
          /\ record[i] # c
          /\ kind = "amend" => record[i] # None /\ c # None
          /\ op' = [op EXCEPT !["guest"] =
                [at |-> "engaged", kind |-> kind, entry |-> i,
                 target |-> [record EXCEPT ![i] = c]]]
    /\ UNCHANGED <<profile, notified, baseline, written, record, refused, restored>>

\* The operator puts back, to the byte, what the daemon wrote last, while a
\* guest's save has renamed its file and not yet remembered what it wrote.
RestoresOverSave(t) == op["guest"].at = "renamed" /\ t = written

OperatorWrites ==
    /\ spent.edits < MaxEdits
    /\ \E t \in Texts : profile' = t /\ restored' = RestoresOverSave(t)
    /\ notified' = TRUE
    /\ spent' = [spent EXCEPT !.edits = @ + 1]
    /\ UNCHANGED <<baseline, written, record, op, refused>>

\* The next process arms its watcher before it boots.
Crash ==
    /\ spent.crashes < MaxCrashes
    /\ op["watch"].at # "boot"
    /\ spent' = [spent EXCEPT !.crashes = @ + 1]
    /\ op' = [watch |-> [at |-> "boot"], guest |-> Idle]
    /\ notified' = FALSE
    /\ written' = None
    /\ record' = None
    /\ refused' = FALSE /\ restored' = FALSE
    /\ UNCHANGED <<profile, baseline>>

WatchInit ==
    /\ profile \in Texts
    /\ notified = FALSE
    /\ baseline = EmptyDocument
    /\ written = None
    /\ record = None
    /\ op = [watch |-> [at |-> "boot"], guest |-> Idle]
    /\ refused = FALSE /\ restored = FALSE
    /\ spent = [edits |-> 0, ops |-> 0, crashes |-> 0, faults |-> 0]

DaemonSteps ==
    \/ Boot \/ Settle \/ ReadFile \/ DeliverEcho \/ DeliverRefused \/ DeliverEdit
    \/ \E c \in Callers : Save(c) \/ SaveFails(c) \/ Remember(c) \/ Commit(c) \/ Land(c)

WatchNext == DaemonSteps \/ GuestStarts \/ OperatorWrites \/ Crash

WatchFairness == WF_wvars(DaemonSteps)

-----------------------------------------------------------------------------
(* Properties *)

Quiet ==
    /\ op["guest"].at = "idle"
    /\ \/ op["watch"].at = "idle" /\ ~notified
       \/ op["watch"].at = "down"

(* QuietFileIsRecord: once the watcher has acted on every event and no        *)
(* operation is in flight, the file says what the loader committed, wherever  *)
(* the operator's writes fell between a save, the signature it leaves and the *)
(* delivery of its echo, with two exceptions: the last delivery was refused,  *)
(* or the file is the daemon's own earlier text, put back between a save's    *)
(* rename and its signature and so taken for the echo (Daemon::boot, "the     *)
(* running system and the file stay two views of one truth"; retire_echo).    *)
QuietFileIsRecord ==
    (Quiet /\ op["watch"].at # "down" /\ ~refused /\ ~restored)
        => Parses(profile) /\ Resolve(profile.doc) = record

(* WriteBackSettles: once nobody edits, the daemon stops writing: its own     *)
(* write-back is not an edit that makes the next one (Loader::retire_echo).   *)
WriteBackSettles == <>[]Quiet

(* SaveErasesNothing: what a document-led save writes still has every         *)
(* undecodable entry, every unknown field and every entry whose directive     *)
(* does not parse of the document it applies (Document::merge_profile, "a     *)
(* save never erases what it did not understand").                            *)
NotUnderstood(d) ==
    (d.raw \X {"raw"}) \union
    {<<i, "extra">> : i \in {j \in Id : d.entries[j] # None /\ d.entries[j].extra}} \union
    {<<i, "realm">> : i \in {j \in Id : d.entries[j] # None /\ d.entries[j].realm = "bad"}}
SaveErasesNothing ==
    op["watch"].at = "renamed" => NotUnderstood(op["watch"].source) \subseteq NotUnderstood(op["watch"].saved)

=============================================================================
