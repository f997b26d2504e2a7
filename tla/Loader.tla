------------------------------- MODULE Loader -------------------------------
(***************************************************************************)
(* The profile loader (crates/jinnd-loader): the document of record, the    *)
(* runtime row of every entry, and the operations that move both: a         *)
(* document-led reconcile and the runtime-led amendments, disposals and      *)
(* administrations, racing under engagements and one persist permit.        *)
(*                                                                         *)
(* An entry keeps its parent and has no isolation, so no step is a Rebind;  *)
(* documents are well formed, so the index faults nobody.                   *)
(***************************************************************************)
EXTENDS Naturals, FiniteSets

CONSTANTS
    Entry,         \* entry ids
    Parent,        \* Parent[e]: the entry above e, or None
    Plugin,        \* plugin references
    Group,         \* the plugin of an entry that spawns nothing
    Config,        \* config payloads
    None,          \* no entry, row, handle or holder
    Task,          \* the callers of the loader, one operation each
    Workloads,     \* the assignments of operations to callers
    Booted,        \* the documents the daemon may have booted from
    MaxSaveFaults, \* bound: write-backs the store refuses
    MaxLaneFaults  \* bound: configs and spawns a lane refuses

ProfileEntry == [plugin : Plugin, config : Config, disabled : BOOLEAN]

Document == [Entry -> ProfileEntry \union {None}]

\* What a lane's handle runs: the plugin it spawned and the latest config stated.
Handle == [plugin : Plugin, config : Config]

\* One EntryRuntime; context tells whether it has one.
Row == [spec : ProfileEntry, context : BOOLEAN, live : Handle \union {None}, fault : BOOLEAN]

\* An operation; from is the entry whose plugin code awaits it, or None. A
\* reconcile may hold a token that somebody cancels.
Job ==
    LET Caller == Entry \union {None}
    IN  [op : {"reconcile"}, doc : Document, cancels : BOOLEAN, from : Caller]
            \union [op : {"update", "deferred", "configure"}, entry : Entry, config : Config,
                    from : Caller]
            \union [op : {"dispose", "remove", "disable", "enable"}, entry : Entry,
                    from : Caller]
            \union [op : {"add"}, entry : Entry, spec : ProfileEntry, from : Caller]
            \union [op : {"swap"}, entry : Entry, plugin : Plugin, from : Caller]

ASSUME LoaderConstants ==
    /\ Parent \in [Entry -> Entry \union {None}]
    /\ Workloads \subseteq [Task -> Job]
    /\ Booted \subseteq Document
    /\ Group \in Plugin
    /\ None \notin Entry \union ProfileEntry \union Row \union Handle \union Task
    /\ MaxSaveFaults \in Nat /\ MaxLaneFaults \in Nat

VARIABLES
    job,       \* job[t]: what a caller asks for
    at,        \* at[t]: where its operation is
    target,    \* target[t]: the document it is going to write
    plan,      \* plan[t]: the steps it has still to apply
    document,  \* the document is engaged
    entries,   \* the entries engaged
    permit,    \* the holder of the persist permit
    file,      \* the document in the store, and the baseline of the next save
    committed, \* the document of record
    row,       \* row[e]: the entry's runtime
    phase,     \* phase[e]: what the fiber of the row is doing
    fibers,    \* fibers[e]: incarnations of e not yet withdrawn
    stuck,     \* entries whose last step a lane refused
    left,      \* entries the last reconcile reported, or left to the next one
    saveFaults, laneFaults

gateVars  == <<document, entries, permit>>
viewVars  == <<file, committed>>
fiberVars == <<row, phase, fibers, stuck, left>>
taskVars  == <<job, target, plan>>
vars == <<at, taskVars, gateVars, viewVars, fiberVars, saveFaults, laneFaults>>

-----------------------------------------------------------------------------
(* The entry index *)

\* An entry and the entries above it.
Lineage[e \in Entry] ==
    {e} \union IF Parent[e] = None THEN {} ELSE Lineage[Parent[e]]

Depth(e) == Cardinality(Lineage[e])

Enabled(d, e) == \A a \in Lineage[e] : d[a] # None /\ ~d[a].disabled

-----------------------------------------------------------------------------
(* The diff of the applied specs against a document *)

\* The applied document holds an entry whose whole ancestry is applied.
Applied(e) == \A a \in Lineage[e] : row[a] # None

WasEnabled(e) == \A a \in Lineage[e] : ~row[a].spec.disabled

StepKind(d, e) ==
    CASE d[e] = None -> IF Applied(e) THEN "Remove" ELSE "None"
      [] d[e] # None /\ ~Applied(e) -> IF Enabled(d, e) THEN "Create" ELSE "Track"
      [] OTHER ->
           CASE WasEnabled(e) /\ ~Enabled(d, e) -> "Disable"
             [] ~WasEnabled(e) /\ Enabled(d, e) -> "Enable"
             [] ~WasEnabled(e) /\ ~Enabled(d, e) -> "None"
             [] row[e].spec.plugin # d[e].plugin -> "Replace"
             [] row[e].spec.config # d[e].config -> "Restate"
             [] OTHER -> "None"

Kinds == {"Create", "Track", "Enable", "Disable", "Remove", "Replace", "Restate"}

Plan(d) == {s \in [entry : Entry, kind : Kinds] : s.kind = StepKind(d, s.entry)}

\* Disposals deepest first, then replacements, restates, and creations from the top.
Rank(s) ==
    CASE s.kind \in {"Remove", "Disable"} -> Cardinality(Entry) - Depth(s.entry)
      [] s.kind = "Replace" -> Cardinality(Entry) + 1
      [] s.kind = "Restate" -> Cardinality(Entry) + 2
      [] OTHER -> Cardinality(Entry) + 2 + Depth(s.entry)

\* The steps that may come next; documents order those of one rank.
Due(t) == {s \in plan[t] : \A r \in plan[t] : Rank(s) <= Rank(r)}

-----------------------------------------------------------------------------
\* What a boot of a document leaves once it is quiet.
BootRow(d, e) ==
    IF d[e] = None THEN None
    ELSE [spec    |-> d[e],
          context |-> Enabled(d, e),
          live    |-> IF Enabled(d, e) /\ d[e].plugin # Group
                      THEN [plugin |-> d[e].plugin, config |-> d[e].config] ELSE None,
          fault   |-> FALSE]

Init ==
    /\ job \in Workloads
    /\ at = [t \in Task |-> "idle"]
    /\ committed \in Booted /\ file = committed
    /\ target = [t \in Task |-> committed]
    /\ plan = [t \in Task |-> {}]
    /\ document = FALSE /\ entries = {} /\ permit = None
    /\ row = [e \in Entry |-> BootRow(committed, e)]
    /\ phase = [e \in Entry |-> "rest"]
    /\ fibers = [e \in Entry |-> IF row[e] # None /\ row[e].live # None THEN 1 ELSE 0]
    /\ stuck = {} /\ left = {}
    /\ saveFaults = 0 /\ laneFaults = 0

-----------------------------------------------------------------------------
(* Engagement, the permit and the refusals *)

EngagesDocument(t) == job[t].op \in {"reconcile", "add", "remove"}

Administers(t) ==
    job[t].op \in {"add", "remove", "disable", "enable", "configure", "swap"}

Amends(t) == job[t].op \in {"update", "deferred", "dispose"}

\* The operations that offer the runtime a config before the document moves.
RestatesFirst(t) ==
    \/ job[t].op \in {"update", "deferred"}
    \/ Administers(t) /\ \E s \in plan[t] : s.kind = "Restate"

Free(t) ==
    /\ ~document
    /\ IF EngagesDocument(t) THEN entries = {} ELSE job[t].entry \notin entries

Engage(t) ==
    IF EngagesDocument(t) THEN document' = TRUE /\ UNCHANGED entries
                          ELSE entries' = entries \union {job[t].entry} /\ UNCHANGED document

Release(t) ==
    IF EngagesDocument(t) THEN document' = FALSE /\ UNCHANGED entries
                          ELSE entries' = entries \ {job[t].entry} /\ UNCHANGED document

Move(t, to) == at' = [at EXCEPT ![t] = to]

End(t, how) == Release(t) /\ Move(t, how)

Live(e) == row[e] # None /\ row[e].live # None

Withdrawing == \E e \in Entry : Live(e) /\ phase[e] \in {"unloading", "leaving"}

\* Mutated form of AtRest: a fiber in its activation counts as at rest.
AtRestBlind(e) == Live(e) => ~Withdrawing

\* Nothing moves under the fiber an amendment would await.
AtRest(e) == Live(e) => phase[e] = "rest" /\ ~Withdrawing

\* A row without a recorded fault, and a record to amend.
Amendable(e) == row[e] # None /\ ~row[e].fault /\ committed[e] # None

\* The change makes a document: amended_profile, and the index over its result.
Changes(t) ==
    LET e == job[t].entry
    IN  IF job[t].op = "add"
        THEN committed[e] = None /\ (Parent[e] # None => committed[Parent[e]] # None)
        ELSE committed[e] # None

\* The checks after the engagement. The task-local ones (a teardown's own task,
\* the fiber's own task) are left out: plugin code that spawns escapes them.
Admitted(t) ==
    CASE job[t].op = "reconcile" -> ~Withdrawing
      [] Amends(t) -> Amendable(job[t].entry) /\ AtRest(job[t].entry)
      [] OTHER -> ~Withdrawing /\ AtRest(job[t].entry) /\ Changes(t)

\* Plugin code calls from its activation or from its withdrawal.
Calls(t) == at[t] = "idle" /\ (job[t].from # None => phase[job[t].from] # "rest")

\* A conflict is refused, never queued, and nothing has moved.
Refuse(t) ==
    /\ Calls(t)
    /\ ~(Free(t) /\ Admitted(t))
    /\ Move(t, "refused")
    /\ UNCHANGED <<taskVars, gateVars, viewVars, fiberVars, saveFaults, laneFaults>>

\* The one permit under which documents are written back and committed.
Acquire(t) ==
    /\ at[t] = "permit" /\ permit = None
    /\ permit' = t
    /\ Move(t, "saving")
    /\ UNCHANGED <<taskVars, document, entries, viewVars, fiberVars, saveFaults, laneFaults>>

LaneRefuses == laneFaults < MaxLaneFaults /\ laneFaults' = laneFaults + 1

-----------------------------------------------------------------------------
(* What reaches the store, and the commit *)

\* An amendment rewrites the baseline in place; the others write a whole document.
Written(t) ==
    CASE job[t].op \in {"update", "deferred"} -> [file EXCEPT ![job[t].entry].config = job[t].config]
      [] job[t].op = "dispose" -> [file EXCEPT ![job[t].entry].disabled = TRUE]
      [] OTHER -> target[t]

Save(t) ==
    /\ at[t] \in {"saving", "retrying"}
    /\ file' = Written(t)
    /\ Move(t, "committing")
    /\ UNCHANGED <<taskVars, gateVars, committed, fiberVars, saveFaults, laneFaults>>

StoreRefuses == saveFaults < MaxSaveFaults /\ saveFaults' = saveFaults + 1

\* A reconcile or an administration that restated nothing: both views stay.
SaveFails(t) ==
    /\ at[t] = "saving" /\ StoreRefuses
    /\ job[t].op = "reconcile" \/ (Administers(t) /\ ~RestatesFirst(t))
    /\ permit' = None
    /\ End(t, "failed")
    /\ UNCHANGED <<taskVars, viewVars, fiberVars, laneFaults>>

\* Mutated form of StagedConfigWithdrawn: the staged config is left in place.
StagedConfigKept(t) ==
    /\ at[t] = "saving" /\ StoreRefuses
    /\ RestatesFirst(t)
    /\ permit' = None
    /\ End(t, "failed")
    /\ UNCHANGED <<taskVars, viewVars, fiberVars, laneFaults>>

\* The config staged in the runtime is taken back.
StagedConfigWithdrawn(t) ==
    /\ at[t] = "saving" /\ StoreRefuses
    /\ RestatesFirst(t)
    /\ LET e == job[t].entry
       IN  row' = IF Live(e) THEN [row EXCEPT ![e].live.config = committed[e].config] ELSE row
    /\ permit' = None
    /\ End(t, "failed")
    /\ UNCHANGED <<taskVars, viewVars, phase, fibers, stuck, left, laneFaults>>

\* The lane keeps the staged config: an amendment records the divergence, an
\* administration only returns the lane's error.
WithdrawalRefused(t) ==
    /\ at[t] = "saving" /\ StoreRefuses /\ LaneRefuses
    /\ RestatesFirst(t)
    /\ LET e == job[t].entry
       IN  /\ Live(e)
           /\ IF Amends(t)
              THEN row' = [row EXCEPT ![e].spec = [committed[e] EXCEPT !.config = job[t].config],
                                      ![e].fault = TRUE] /\ UNCHANGED stuck
              ELSE stuck' = stuck \union {e} /\ UNCHANGED row
    /\ permit' = None
    /\ End(t, "failed")
    /\ UNCHANGED <<taskVars, viewVars, phase, fibers, left>>

\* A disposal cannot be taken back, so its write-back is tried once more.
DisposalRetried(t) ==
    /\ at[t] = "saving" /\ job[t].op = "dispose" /\ StoreRefuses
    /\ Move(t, "retrying")
    /\ UNCHANGED <<taskVars, gateVars, viewVars, fiberVars, laneFaults>>

\* The runtime is disposed and the document is not: a recorded divergence.
DisposalDiverges(t) ==
    /\ at[t] = "retrying" /\ StoreRefuses
    /\ LET e == job[t].entry
       IN  row' = [row EXCEPT ![e] = [spec    |-> [committed[e] EXCEPT !.disabled = TRUE],
                                      context |-> FALSE, live |-> None, fault |-> TRUE]]
    /\ permit' = None
    /\ End(t, "failed")
    /\ UNCHANGED <<taskVars, viewVars, phase, fibers, stuck, left, laneFaults>>

\* A committed reconcile drains every recorded divergence.
CommitReconcile(t) ==
    /\ at[t] = "committing" /\ job[t].op = "reconcile"
    /\ committed' = target[t]
    /\ row' = [e \in Entry |-> IF row[e] = None THEN None ELSE [row[e] EXCEPT !.fault = FALSE]]
    /\ left' = {}
    /\ permit' = None
    /\ Move(t, "applying")
    /\ UNCHANGED <<taskVars, document, entries, file, phase, fibers, stuck, saveFaults, laneFaults>>

\* The document of record and the applied spec move together.
CommitUpdate(t) ==
    /\ at[t] = "committing" /\ job[t].op \in {"update", "deferred"}
    /\ LET e == job[t].entry
       IN  /\ committed' = [committed EXCEPT ![e].config = job[t].config]
           /\ row' = [row EXCEPT ![e].spec = committed'[e]]
    /\ permit' = None
    /\ Move(t, "stating")
    /\ UNCHANGED <<taskVars, document, entries, file, phase, fibers, stuck, left,
                   saveFaults, laneFaults>>

CommitDisposal(t) ==
    /\ at[t] = "committing" /\ job[t].op = "dispose"
    /\ LET e == job[t].entry
       IN  /\ committed' = [committed EXCEPT ![e].disabled = TRUE]
           /\ row' = [row EXCEPT ![e].spec = committed'[e], ![e].context = FALSE, ![e].live = None]
    /\ permit' = None
    /\ End(t, "done")
    /\ UNCHANGED <<taskVars, file, phase, fibers, stuck, left, saveFaults, laneFaults>>

CommitAdministration(t) ==
    /\ at[t] = "committing" /\ Administers(t)
    /\ committed' = target[t]
    /\ permit' = None
    /\ Move(t, "stating")
    /\ UNCHANGED <<taskVars, document, entries, file, fiberVars, saveFaults, laneFaults>>

-----------------------------------------------------------------------------
(* What a step does to the runtime *)

\* The runtime of the entries, as one value that a step transforms.
Runtime == [row |-> row, phase |-> phase, fibers |-> fibers]

Becomes(r) == row' = r.row /\ phase' = r.phase /\ fibers' = r.fibers

\* The row follows document d: gone, or inert.
Inert(d, e) ==
    [row EXCEPT ![e] = IF d[e] = None THEN None
                       ELSE [@ EXCEPT !.spec = d[e], !.context = FALSE, !.live = None]]

\* One incarnation of e has been withdrawn.
Withdrawn(r, e) == [r EXCEPT !.phase[e] = "rest", !.fibers[e] = @ - 1]

HasContext(r, e) == r.row[e] # None /\ r.row[e].context

Spawned(r, d, e) ==
    IF d[e].plugin = Group THEN [r EXCEPT !.row[e] = BootRow(d, e), !.phase[e] = "rest"]
    ELSE [r EXCEPT !.row[e] = BootRow(d, e), !.phase[e] = "loading", !.fibers[e] = @ + 1]

\* spawn_step refused: a reconcile reports it, an administration records the
\* divergence where the entry has a row.
SpawnRefused(t, r, e) ==
    /\ IF job[t].op = "reconcile" \/ r.row[e] = None THEN Becomes(r)
       ELSE Becomes([r EXCEPT !.row[e] = [@ EXCEPT !.spec = target[t][e], !.fault = TRUE]])
    /\ stuck' = stuck \union {e}
    /\ left' = IF job[t].op = "reconcile" THEN left \union {e} ELSE left

SpawnStep(t, r, e) ==
    LET ready == Parent[e] # None => HasContext(r, Parent[e])
    IN  \/ /\ ready
           /\ Becomes(Spawned(r, target[t], e))
           /\ stuck' = stuck \ {e}
           /\ UNCHANGED <<left, laneFaults>>
        \/ /\ IF ready THEN target[t][e].plugin # Group /\ LaneRefuses ELSE UNCHANGED laneFaults
           /\ SpawnRefused(t, r, e)

Restarted(r, e) == [r EXCEPT !.phase[e] = "unloading"]

\* The fiber of e is gone and the row is inert; a replacement spawns now.
AfterDisposal(t, r, s) ==
    IF s.kind = "Replace" THEN SpawnStep(t, r, s.entry)
    ELSE /\ Becomes(r)
         /\ stuck' = stuck \ {s.entry}
         /\ UNCHANGED <<left, laneFaults>>

-----------------------------------------------------------------------------
(* The reconcile *)

BeginReconcile(t) ==
    /\ Calls(t) /\ job[t].op = "reconcile" /\ Free(t) /\ Admitted(t)
    /\ Engage(t)
    /\ target' = [target EXCEPT ![t] = job[t].doc]
    /\ plan' = [plan EXCEPT ![t] = Plan(job[t].doc)]
    /\ Move(t, "permit")
    /\ UNCHANGED <<job, permit, viewVars, fiberVars, saveFaults, laneFaults>>

StepDone(t, s) == plan' = [plan EXCEPT ![t] = @ \ {s}]

\* The live handle leaves the row before its disposal is awaited.
ApplyDisposal(t) == \E s \in Due(t) :
    /\ at[t] = "applying" /\ s.kind \in {"Remove", "Disable", "Replace"}
    /\ Live(s.entry)
    /\ row' = Inert(target[t], s.entry)
    /\ phase' = [phase EXCEPT ![s.entry] = "leaving"]
    /\ Move(t, "clearing")
    /\ UNCHANGED <<taskVars, gateVars, viewVars, fibers, stuck, left, saveFaults, laneFaults>>

\* Plugin code of e is in a call that has not answered.
Busy(e) == \E t \in Task :
    job[t].from = e /\ at[t] \notin {"idle", "scheduled", "landing", "done", "failed", "refused"}

ApplyDisposed(t) == \E s \in Due(t) :
    /\ at[t] = "clearing" /\ phase[s.entry] = "leaving" /\ ~Busy(s.entry)
    /\ AfterDisposal(t, Withdrawn(Runtime, s.entry), s)
    /\ StepDone(t, s) /\ Move(t, "applying")
    /\ UNCHANGED <<job, target, gateVars, viewVars, saveFaults>>

\* A group or an inert entry disposes nothing.
ApplyInert(t) == \E s \in Due(t) :
    /\ at[t] = "applying" /\ s.kind \in {"Remove", "Disable", "Replace"}
    /\ ~Live(s.entry)
    /\ AfterDisposal(t, [Runtime EXCEPT !.row = Inert(target[t], s.entry)], s)
    /\ StepDone(t, s) /\ UNCHANGED at
    /\ UNCHANGED <<job, target, gateVars, viewVars, saveFaults>>

\* The applied spec moves before the lane is asked.
ApplyRestate(t) == \E s \in Due(t) :
    /\ at[t] = "applying" /\ s.kind = "Restate"
    /\ LET e == s.entry
           d == target[t]
           r == [Runtime EXCEPT !.row[e].spec = d[e]]
       IN  \/ /\ IF Live(e)
                 THEN Becomes(Restarted([r EXCEPT !.row[e].live.config = d[e].config], e))
                 ELSE Becomes(r)
              /\ stuck' = IF Live(e) THEN stuck \ {e} ELSE stuck
              /\ UNCHANGED <<left, laneFaults>>
           \/ /\ Live(e) /\ LaneRefuses
              /\ Becomes(r)
              /\ stuck' = stuck \union {e} /\ left' = left \union {e}
    /\ StepDone(t, s) /\ UNCHANGED at
    /\ UNCHANGED <<job, target, gateVars, viewVars, saveFaults>>

ApplySpawn(t) == \E s \in Due(t) :
    /\ at[t] = "applying" /\ s.kind \in {"Create", "Enable"}
    /\ SpawnStep(t, Runtime, s.entry)
    /\ StepDone(t, s) /\ UNCHANGED at
    /\ UNCHANGED <<job, target, gateVars, viewVars, saveFaults>>

ApplyTrack(t) == \E s \in Due(t) :
    /\ at[t] = "applying" /\ s.kind = "Track"
    /\ row' = [row EXCEPT ![s.entry] = BootRow(target[t], s.entry)]
    /\ StepDone(t, s) /\ UNCHANGED at
    /\ UNCHANGED <<job, target, gateVars, viewVars, phase, fibers, stuck, left,
                   saveFaults, laneFaults>>

\* Cancelled between two steps: the rest is left to the next reconcile.
Cancel(t) ==
    /\ at[t] = "applying" /\ plan[t] # {} /\ job[t].cancels
    /\ left' = left \union {s.entry : s \in plan[t]}
    /\ plan' = [plan EXCEPT ![t] = {}]
    /\ UNCHANGED <<at, job, target, gateVars, viewVars, row, phase, fibers, stuck,
                   saveFaults, laneFaults>>

AllApplied(t) ==
    /\ at[t] = "applying" /\ plan[t] = {}
    /\ Move(t, "settling")
    /\ UNCHANGED <<taskVars, gateVars, viewVars, fiberVars, saveFaults, laneFaults>>

\* A reconcile settles every fiber it owns, an update its own.
Settle(t) ==
    /\ at[t] = "settling"
    /\ \A e \in IF job[t].op = "reconcile" THEN Entry ELSE {job[t].entry} :
          Live(e) => phase[e] = "rest"
    /\ End(t, "done")
    /\ UNCHANGED <<taskVars, permit, viewVars, fiberVars, saveFaults, laneFaults>>

-----------------------------------------------------------------------------
(* The amendments *)

\* The runtime is offered the config first.
BeginUpdate(t) ==
    /\ Calls(t) /\ job[t].op \in {"update", "deferred"} /\ Free(t) /\ Admitted(t)
    /\ LET e == job[t].entry
       IN  row' = IF Live(e) THEN [row EXCEPT ![e].live.config = job[t].config] ELSE row
    /\ Engage(t)
    /\ target' = [target EXCEPT ![t] = committed]
    /\ Move(t, "permit")
    /\ UNCHANGED <<job, plan, permit, viewVars, phase, fibers, stuck, left, saveFaults, laneFaults>>

\* A rejected config commits nothing anywhere.
ConfigRefused(t) ==
    /\ Calls(t) /\ job[t].op \in {"update", "deferred"} /\ Free(t) /\ Admitted(t)
    /\ Live(job[t].entry) /\ LaneRefuses
    /\ Move(t, "refused")
    /\ UNCHANGED <<taskVars, gateVars, viewVars, fiberVars, saveFaults>>

\* Both views are committed: the fiber reloads.
StateUpdate(t) ==
    /\ at[t] = "stating" /\ job[t].op \in {"update", "deferred"}
    /\ IF Live(job[t].entry) THEN Becomes(Restarted(Runtime, job[t].entry))
                             ELSE UNCHANGED <<row, phase, fibers>>
    /\ IF Live(job[t].entry) /\ job[t].op = "update"
       THEN Move(t, "settling") /\ UNCHANGED <<document, entries>>
       ELSE End(t, "done")
    /\ UNCHANGED <<taskVars, permit, viewVars, stuck, left, saveFaults, laneFaults>>

\* The runtime moves first: the fiber is withdrawn, then the document follows.
BeginDispose(t) ==
    /\ Calls(t) /\ job[t].op = "dispose" /\ Free(t) /\ Admitted(t)
    /\ Engage(t)
    /\ target' = [target EXCEPT ![t] = committed]
    /\ IF Live(job[t].entry)
       THEN phase' = [phase EXCEPT ![job[t].entry] = "leaving"] /\ Move(t, "disposing")
       ELSE Move(t, "permit") /\ UNCHANGED phase
    /\ UNCHANGED <<job, plan, permit, viewVars, row, fibers, stuck, left, saveFaults, laneFaults>>

DisposalLands(t) ==
    /\ at[t] = "disposing" /\ ~Busy(job[t].entry)
    /\ Becomes(Withdrawn(Runtime, job[t].entry))
    /\ Move(t, "permit")
    /\ UNCHANGED <<taskVars, gateVars, viewVars, stuck, left, saveFaults, laneFaults>>

-----------------------------------------------------------------------------
(* The administrations *)

\* The committed document with one change applied.
AmendedProfile(t) ==
    LET e == job[t].entry
    IN  CASE job[t].op = "add"       -> [committed EXCEPT ![e] = job[t].spec]
          [] job[t].op = "remove"    -> [committed EXCEPT ![e] = None]
          [] job[t].op = "disable"   -> [committed EXCEPT ![e].disabled = TRUE]
          [] job[t].op = "enable"    -> [committed EXCEPT ![e].disabled = FALSE]
          [] job[t].op = "configure" -> [committed EXCEPT ![e].config = job[t].config]
          [] job[t].op = "swap"      -> [committed EXCEPT ![e].plugin = job[t].plugin]

\* Every refusal decided, nothing moved: the document and the one step are fixed.
Stage(t) ==
    /\ Calls(t) /\ Administers(t) /\ Free(t) /\ Admitted(t)
    /\ Engage(t)
    /\ target' = [target EXCEPT ![t] = AmendedProfile(t)]
    /\ plan' = [plan EXCEPT ![t] = {s \in Plan(AmendedProfile(t)) : s.entry = job[t].entry}]
    /\ Move(t, "staged")
    /\ UNCHANGED <<job, permit, viewVars, fiberVars, saveFaults, laneFaults>>

\* The caller drops the stage: its intent could not be recorded.
Abandon(t) ==
    /\ at[t] = "staged"
    /\ End(t, "refused")
    /\ UNCHANGED <<taskVars, permit, viewVars, fiberVars, saveFaults, laneFaults>>

BeginCommit(t) ==
    /\ at[t] = "staged"
    /\ LET e == job[t].entry
       IN  row' = IF RestatesFirst(t) /\ Live(e)
                  THEN [row EXCEPT ![e].live.config = target[t][e].config] ELSE row
    /\ Move(t, "permit")
    /\ UNCHANGED <<taskVars, gateVars, viewVars, phase, fibers, stuck, left, saveFaults, laneFaults>>

RestateRefused(t) ==
    /\ at[t] = "staged" /\ RestatesFirst(t) /\ Live(job[t].entry) /\ LaneRefuses
    /\ End(t, "failed")
    /\ UNCHANGED <<taskVars, permit, viewVars, fiberVars, saveFaults>>

\* The disposal is left to a task of its own, which holds the engagement; the
\* call answers. (A task that has only an engagement to drop is not a step.)
StateDisposal(t) == \E s \in plan[t] :
    /\ at[t] = "stating" /\ Administers(t) /\ s.kind \in {"Remove", "Disable", "Replace"}
    /\ Move(t, "scheduled")
    /\ UNCHANGED <<taskVars, gateVars, viewVars, fiberVars, saveFaults, laneFaults>>

\* The task runs: its first poll asks the fiber to go.
BeginLanding(t) ==
    /\ at[t] = "scheduled"
    /\ LET e == job[t].entry
       IN  phase' = IF Live(e) THEN [phase EXCEPT ![e] = "leaving"] ELSE phase
    /\ Move(t, "landing")
    /\ UNCHANGED <<taskVars, gateVars, viewVars, row, fibers, stuck, left, saveFaults, laneFaults>>

\* Mutated form of Land: the successor spawns beside the old incarnation.
LandBeside(t) == \E s \in plan[t] :
    /\ at[t] = "landing"
    /\ AfterDisposal(t, [Runtime EXCEPT !.row = Inert(target[t], s.entry)], s)
    /\ End(t, "done")
    /\ UNCHANGED <<taskVars, permit, viewVars, saveFaults>>

\* The disposal landed: the row follows the document, and a successor spawns now.
Land(t) == \E s \in plan[t] :
    /\ at[t] = "landing"
    /\ Live(s.entry) => ~Busy(s.entry)
    /\ LET r == IF Live(s.entry) THEN Withdrawn(Runtime, s.entry) ELSE Runtime
       IN  AfterDisposal(t, [r EXCEPT !.row = Inert(target[t], s.entry)], s)
    /\ End(t, "done")
    /\ UNCHANGED <<taskVars, permit, viewVars, saveFaults>>

\* The applied spec follows the record; a restated fiber reloads.
StateSpec(t) ==
    /\ at[t] = "stating" /\ Administers(t)
    /\ \A s \in plan[t] : s.kind = "Restate"
    /\ LET e == job[t].entry
           r == IF row[e] = None \/ target[t][e] = None THEN Runtime
                ELSE [Runtime EXCEPT !.row[e].spec = target[t][e]]
       IN  Becomes(IF plan[t] # {} /\ Live(e) THEN Restarted(r, e) ELSE r)
    /\ End(t, "done")
    /\ UNCHANGED <<taskVars, permit, viewVars, stuck, left, saveFaults, laneFaults>>

StateSpawn(t) == \E s \in plan[t] :
    /\ at[t] = "stating" /\ Administers(t) /\ s.kind \in {"Create", "Enable"}
    /\ SpawnStep(t, Runtime, s.entry)
    /\ End(t, "done")
    /\ UNCHANGED <<taskVars, permit, viewVars, saveFaults>>

StateTrack(t) == \E s \in plan[t] :
    /\ at[t] = "stating" /\ Administers(t) /\ s.kind = "Track"
    /\ row' = [row EXCEPT ![s.entry] = BootRow(target[t], s.entry)]
    /\ End(t, "done")
    /\ UNCHANGED <<taskVars, permit, viewVars, phase, fibers, stuck, left, saveFaults, laneFaults>>

-----------------------------------------------------------------------------
\* A fiber's transition goes on once the plugin code in it returns.
Turn(e) ==
    /\ Live(e) /\ phase[e] \in {"unloading", "loading"} /\ ~Busy(e)
    /\ phase' = [phase EXCEPT ![e] = IF @ = "unloading" THEN "loading" ELSE "rest"]
    /\ UNCHANGED <<at, taskVars, gateVars, viewVars, row, fibers, stuck, left, saveFaults, laneFaults>>

Begin(t) ==
    \/ Refuse(t) \/ BeginReconcile(t) \/ BeginUpdate(t) \/ ConfigRefused(t)
    \/ BeginDispose(t) \/ Stage(t)

Persist(t) ==
    \/ Acquire(t) \/ Save(t) \/ SaveFails(t) \/ StagedConfigWithdrawn(t) \/ WithdrawalRefused(t)
    \/ DisposalRetried(t) \/ DisposalDiverges(t)
    \/ CommitReconcile(t) \/ CommitUpdate(t) \/ CommitDisposal(t) \/ CommitAdministration(t)

Apply(t) ==
    \/ ApplyDisposal(t) \/ ApplyDisposed(t) \/ ApplyInert(t) \/ ApplyRestate(t)
    \/ ApplySpawn(t) \/ ApplyTrack(t) \/ Cancel(t) \/ AllApplied(t) \/ Settle(t)

Amend(t) == StateUpdate(t) \/ DisposalLands(t)

Administer(t) ==
    \/ Abandon(t) \/ BeginCommit(t) \/ RestateRefused(t)
    \/ StateDisposal(t) \/ BeginLanding(t) \/ Land(t) \/ StateSpec(t) \/ StateSpawn(t) \/ StateTrack(t)

Work(t) == Persist(t) \/ Apply(t) \/ Amend(t) \/ Administer(t)

Next == (\E t \in Task : Begin(t) \/ Work(t)) \/ (\E e \in Entry : Turn(e))

\* Callers begin when they like; what is begun, and what a fiber is doing, goes on.
LoaderFairness ==
    /\ \A t \in Task : WF_vars(Work(t))
    /\ \A e \in Entry : WF_vars(Turn(e))

-----------------------------------------------------------------------------
(* Properties *)

Ended == {"done", "failed", "refused"}

TypeOK ==
    /\ job \in Workloads
    /\ \A t \in Task : at[t] \in Ended \union
          {"idle", "staged", "disposing", "permit", "saving", "retrying", "committing", "stating",
           "scheduled", "landing", "applying", "clearing", "settling"}
    /\ target \in [Task -> Document]
    /\ \A t \in Task : plan[t] \subseteq [entry : Entry, kind : Kinds]
    /\ document \in BOOLEAN /\ entries \subseteq Entry
    /\ permit \in Task \union {None}
    /\ file \in Document /\ committed \in Document
    /\ row \in [Entry -> Row \union {None}]
    /\ phase \in [Entry -> {"rest", "unloading", "loading", "leaving"}]
    /\ fibers \in [Entry -> Nat]
    /\ stuck \subseteq Entry /\ left \subseteq Entry

\* The runtime of e is what a boot of d leaves; a diff tells the specs of two
\* disabled records from nothing, so an inert row may keep an older one.
Matches(d, e) ==
    IF d[e] = None \/ row[e] = None THEN d[e] = None /\ row[e] = None
    ELSE /\ row[e].context = Enabled(d, e)
         /\ row[e].live = BootRow(d, e).live
         /\ Enabled(d, e) => row[e].spec = d[e]

\* Two views of one truth (amend.rs, dispose.rs, loader.rs): whatever operations
\* raced, and whichever write-backs failed, an entry nobody is working on runs
\* what the document of record says, unless a recorded fault names the
\* divergence, a lane refused its last step, or a cancelled reconcile left it to
\* the next one; and outside the permit the file holds that document.
TwoViews ==
    /\ \A e \in Entry \ (entries \union stuck \union left) :
        document \/ (row[e] # None /\ row[e].fault) \/ Matches(committed, e)
    /\ permit = None => file = committed

\* One entry never has two fibers (gate.rs, commit.rs): a replacement, an enable
\* or a reconcile never spawns beside an incarnation still being withdrawn.
OneFiber == \A e \in Entry : fibers[e] <= 1

\* Every operation that began ends, also one that plugin code awaits from its
\* own activation or withdrawal (gate.rs: deadlock freedom is structural).
OperationsEnd == \A t \in Task : []<>(at[t] \in Ended \union {"idle"})

\* A runtime-led commit moves its own entry only (amend.rs, administer.rs): an
\* amendment of a sibling committed meanwhile is never overwritten.
CommitKeepsSiblings ==
    [][\A t \in Task :
          at[t] = "committing" /\ at'[t] # "committing" /\ job[t].op # "reconcile"
              => \A e \in Entry \ {job[t].entry} : committed'[e] = committed[e]]_vars

\* A reconcile that ends has brought every entry it did not report to the document
\* (loader.rs, commit.rs: the next reconcile reconverges the two views).
Reconverges ==
    [][\A t \in Task :
          job[t].op = "reconcile" /\ at[t] = "settling" /\ at'[t] = "done"
              => \A e \in Entry \ left : Matches(committed, e)]_vars
=============================================================================
