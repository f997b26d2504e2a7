----------------------------- MODULE GuestSeat -----------------------------
(***************************************************************************)
(* One wasm entry's seat through activations, restarts, disposals and        *)
(* Mode-1 swaps (crates/jinnd-wasm: slot.rs, lane.rs, lane_swap.rs, swap.rs, *)
(* instance/).  An instance registers things; what it registers is journaled *)
(* in the seat, the journal is what teardown withdraws.  A batch replaces    *)
(* the seats of every entry of an artifact under the lock a disposal takes.  *)
(***************************************************************************)
EXTENDS Naturals, Sequences, SequencesExt, FiniteSets

CONSTANTS
    Entry,     \* the entries of one package
    MaxInst,   \* instances of an entry
    Stories    \* the entries loaded, and how often what may happen

ASSUME SeatConstants == MaxInst \in Nat \ {0} /\ IsFiniteSet(Entry)

VARIABLES
    inst,      \* inst[i]: the supervisor of one instance
    slot,      \* slot[e]: the seat (SharedSlot) and its journal
    phase,     \* phase[e]: the swap phases of e's slot ids; the last is current
    life,      \* life[e]: where the fiber engine is with e
    routed,    \* the registrations in force: listeners, alarms, provisions, effects
    tombs,     \* the listeners a suspension entombed
    inherited, \* inherited[e]: the entry's journal of world effects
    pinned,    \* the artifact the package's cell names
    batch,     \* the swap driver
    stray,     \* history: late registrations no journal took over
    swapped,   \* history: entries a batch committed
    left       \* what the story leaves

gvars == <<inst, slot, phase, life, routed, tombs, inherited, pinned, batch, stray, swapped,
           left>>
seatVars == <<phase, life, inherited, pinned, batch>>

Kind == {"Effect", "Listen", "Alarm", "Provision", "Host", "Kernel"}
\* Recorded by a staging seat, routed when it commits.
Routable == {"Listen", "Alarm", "Provision"}

\* An instance is one activation of an entry; it numbers what it registers.
Inst == Entry \X (1..MaxInst)
Nobody == <<>>

Reg(k, i, n) == [kind |-> k, entry |-> i[1], by |-> i, n |-> n]
\* A contract is provided by the entry's peer, whichever instance asked.
ProvisionOf(e) == [kind |-> "Provision", entry |-> e, by |-> Nobody, n |-> 0]
OfKind(K, rs) == {r \in rs : r.kind \in K}
Of(e, rs) == {r \in rs : r.entry = e}

NoInstance == [state |-> "absent"]
Instance(art, seated, staging) ==
    [state |-> "alive", artifact |-> art, seated |-> seated, staging |-> staging,
     flip |-> FALSE, busy |-> "activate", recorded |-> <<>>, made |-> 0]
Alive(i) == inst[i].state = "alive"
\* Between two entries; the commit's flip is seen before any command.
InstIdle(i) == Alive(i) /\ inst[i].busy = "idle" /\ ~inst[i].flip
Fresh(e) == <<e, 1 + Cardinality({i \in Inst : i[1] = e /\ inst[i] # NoInstance})>>

EmptySlot == [at |-> Nobody, journal |-> <<>>, closing |-> FALSE, sealed |-> FALSE, ever |-> FALSE]
NoBatch == [at |-> "idle", todo |-> <<>>, begun |-> {}, staged |-> {}, displaced |-> <<>>, hit |-> {}]
SlotId(e) == Len(phase[e])
Rostered(e) == life[e].at \in {"activating", "landing", "up", "draining"}

Spend(k) ==
    /\ left[k] > 0
    /\ left' = [left EXCEPT ![k] = @ - 1]

SeatInit ==
    /\ inst = [i \in Inst |-> NoInstance]
    /\ slot = [e \in Entry |-> EmptySlot]
    /\ phase = [e \in Entry |-> <<>>]
    /\ routed = {} /\ tombs = {} /\ stray = {} /\ swapped = {}
    /\ inherited = [e \in Entry |-> {}]
    /\ pinned = "old"
    /\ batch = NoBatch
    /\ \E s \in Stories :
        /\ left = s.left
        /\ life = [e \in Entry |-> [at |-> IF e \in s.on THEN "down" ELSE "none"]]

-----------------------------------------------------------------------------
(* The instance: one guest entry at a time, and what it registers *)

\* Something leads to the instance: the seat it holds, a listener, an alarm or
\* a socket of its own, or what was queued before it was displaced.
Reachable(i) ==
    \/ slot[i[1]].at = i
    \/ \E r \in OfKind({"Listen", "Alarm", "Kernel"}, routed) : r.by = i
    \/ \E d \in ToSet(batch.displaced) : d.inst = i

\* A delivery, a call or a wake the supervisor dequeues.  A closing seat
\* refuses it at the door, if the instance knows its seat.
StartEntry(i) ==
    /\ InstIdle(i) /\ Reachable(i)
    /\ ~(inst[i].seated /\ slot[i[1]].closing)
    /\ Spend("entries")
    /\ inst' = [inst EXCEPT ![i].busy = "entry"]
    /\ UNCHANGED <<slot, routed, tombs, stray, swapped, seatVars>>

\* HostState::admit: a registration is refused once the journal is sealed.
Admitted(i) == ~(inst[i].seated /\ slot[i[1]].sealed)

\* What a registration adds to what is in force: a staging seat records only;
\* a guest's own effect lives in its store and nowhere else.
InForce(i, r) == IF r.kind = "Effect" \/ (inst[i].staging /\ r.kind \in Routable) THEN {} ELSE {r}

\* A guest registers something while one of its entries runs.
Register(i, k) ==
    /\ Alive(i) /\ inst[i].busy # "idle" /\ Admitted(i)
    /\ Spend(k)
    /\ LET r == IF k = "Provision" THEN ProvisionOf(i[1]) ELSE Reg(k, i, inst[i].made + 1) IN
        /\ inst' = [inst EXCEPT ![i].recorded = Append(@, r), ![i].made = @ + 1]
        /\ routed' = routed \union InForce(i, r)
    /\ UNCHANGED <<slot, tombs, stray, swapped, seatVars>>

\* A keyed host effect that was done before is answered from its record: the
\* same id joins this instance's journal too.
Replay(i, r) ==
    /\ Alive(i) /\ inst[i].busy # "idle" /\ Admitted(i)
    /\ r \in inherited[i[1]] /\ r \in routed
    /\ Spend("replays")
    /\ inst' = [inst EXCEPT ![i].recorded = Append(@, r)]
    /\ UNCHANGED <<slot, routed, tombs, stray, swapped, seatVars>>

\* commit_late: what was registered outside an activation is routed and joins
\* the journal of the seat that is installed; without one it stays in the store.
CommitLate(i, next) ==
    LET e == i[1]
        late == inst[i].recorded
        handed == late # <<>> /\ ~inst[i].staging
        lands == handed /\ inst[i].seated /\ slot[e].at # Nobody
    IN  /\ inst' = [inst EXCEPT ![i] = [next EXCEPT !.recorded = IF lands THEN <<>> ELSE @]]
        /\ slot' = IF lands THEN [slot EXCEPT ![e].journal = @ \o late] ELSE slot
        /\ routed' = IF handed THEN routed \union OfKind({"Listen", "Alarm"}, ToSet(late)) ELSE routed
        /\ stray' = IF lands THEN stray \ ToSet(late) ELSE stray \union ToSet(late)

\* The handler returns.
EndEntry(i) ==
    /\ Alive(i) /\ inst[i].busy = "entry"
    /\ CommitLate(i, [inst[i] EXCEPT !.busy = "idle"])
    /\ UNCHANGED <<tombs, swapped, seatVars, left>>

\* It traps, hangs past its deadline or is aborted: late registrations first.
Die(i) ==
    /\ Alive(i) /\ inst[i].busy = "entry"
    /\ Spend("deaths")
    /\ CommitLate(i, [inst[i] EXCEPT !.state = "dead", !.busy = "idle"])
    /\ UNCHANGED <<tombs, swapped, seatVars>>

\* The commit's flip wakes the supervisor once: what was recorded while staged.
Flip(i) ==
    /\ Alive(i) /\ inst[i].busy = "idle" /\ inst[i].flip
    /\ CommitLate(i, [inst[i] EXCEPT !.flip = FALSE])
    /\ UNCHANGED <<tombs, swapped, seatVars, left>>

\* A Shutdown is served between two entries.
Stopped(i) == ~Alive(i) \/ InstIdle(i)
Leave(i) == [inst EXCEPT ![i].state = "dead"]

-----------------------------------------------------------------------------
(* The seat *)

\* commit_staged: the staged outcomes in C become their slots' seats.  Old
\* listeners, tombstones and alarms are replaced, provisions both hold are kept.
Old(c) == ToSet(slot[c.entry].journal)
Gone(c) == OfKind({"Listen", "Alarm"}, Old(c)) \union (OfKind({"Provision"}, Old(c)) \ ToSet(c.outcome))
Come(c) == OfKind(Routable, ToSet(c.outcome)) \ OfKind({"Provision"}, Old(c))

CommitStaged(C) ==
    LET by(e) == CHOOSE c \in C : c.entry = e
        hit == {c.entry : c \in C}
    IN  /\ routed' = (routed \ UNION {Gone(c) : c \in C}) \union UNION {Come(c) : c \in C}
        /\ tombs' = {r \in tombs : r.entry \notin hit}
        /\ slot' = [e \in Entry |-> IF e \notin hit THEN slot[e] ELSE
                [slot[e] EXCEPT !.at = by(e).inst, !.journal = by(e).outcome, !.ever = TRUE]]
        /\ inst' = [i \in Inst |-> IF \E c \in C : c.inst = i
                THEN [inst[i] EXCEPT !.staging = FALSE, !.flip = TRUE] ELSE inst[i]]

\* WasmBody::activate, up to the guest: a new slot id, the gate reopened, a
\* staging seat when one was installed before.
Activate(e) ==
    /\ life[e].at \in {"down", "failed"} /\ Fresh(e) \in Inst
    /\ Spend("activations")
    /\ phase' = [phase EXCEPT ![e] = Append(@, "Steady")]
    /\ slot' = [slot EXCEPT ![e].closing = FALSE, ![e].sealed = FALSE]
    /\ inst' = [inst EXCEPT ![Fresh(e)] = Instance(pinned, TRUE, slot[e].ever)]
    /\ life' = [life EXCEPT ![e] = [at |-> "activating", inst |-> Fresh(e)]]
    /\ UNCHANGED <<routed, tombs, inherited, pinned, batch, stray, swapped>>

\* The guest's activate settles and its outcome is handed to the lane.
Settle(e, ok) ==
    /\ life[e].at = "activating"
    /\ LET i == life[e].inst IN
        /\ life' = [life EXCEPT ![e] = [at |-> "landing", ok |-> ok, commit |-> ok /\ slot[e].ever,
                                        c |-> [entry |-> e, inst |-> i, outcome |-> inst[i].recorded]]]
        /\ inst' = [inst EXCEPT ![i].recorded = <<>>, ![i].busy = "idle"]
    /\ UNCHANGED <<slot, phase, routed, tombs, inherited, pinned, batch, stray, swapped, left>>

\* WasmBody::land: a replacement commits in place of the tombstones, a first
\* or a failed activation is installed as it is.
Land(e) ==
    /\ life[e].at = "landing"
    /\ life' = [life EXCEPT ![e] = [at |-> "up", ok |-> @.ok]]
    /\ IF life[e].commit THEN CommitStaged({life[e].c}) ELSE
        /\ slot' = [slot EXCEPT ![e].at = life[e].c.inst, ![e].journal = life[e].c.outcome, ![e].ever = TRUE]
        /\ UNCHANGED <<inst, routed, tombs>>
    /\ UNCHANGED <<phase, inherited, pinned, batch, stray, swapped, left>>

\* Mutated form: the seat is closed before the swap's slot is tombstoned.
CloseUntombed(e, how) ==
    /\ life[e].at = "up"
    /\ (~life[e].ok) = (how = "fail")
    /\ IF how = "fail" THEN UNCHANGED left ELSE Spend("closes")
    /\ slot' = [slot EXCEPT ![e].closing = TRUE]
    /\ life' = [life EXCEPT ![e] = [at |-> "draining", how |-> how]]
    /\ UNCHANGED <<phase, inst, routed, tombs, inherited, pinned, batch, stray, swapped>>

\* SeatClosing::close begins: the swap slot is tombstoned, then the door shut.
\* A failed activation is closed by the engine, a live one for its reasons.
Close(e, how) ==
    /\ life[e].at = "up"
    /\ (~life[e].ok) = (how = "fail")
    /\ IF how = "fail" THEN UNCHANGED left ELSE Spend("closes")
    /\ phase' = [phase EXCEPT ![e][SlotId(e)] = "Tombstone"]
    /\ slot' = [slot EXCEPT ![e].closing = TRUE]
    /\ life' = [life EXCEPT ![e] = [at |-> "draining", how |-> how]]
    /\ UNCHANGED <<inst, routed, tombs, inherited, pinned, batch, stray, swapped>>

\* The entry in flight returned or died: the journal is sealed and taken.
Drained(e) == Stopped(slot[e].at)
Taken(e) == [slot EXCEPT ![e].sealed = TRUE, ![e].at = Nobody, ![e].journal = <<>>]
Journal(e) == ToSet(slot[e].journal)

\* SeatState::retire and SeatClosing::forget: everything journaled is
\* withdrawn, a host effect once, and leaves the entry's journal too.
RetireSeat(e) ==
    /\ life[e].at = "draining" /\ life[e].how # "suspend" /\ Drained(e)
    /\ slot' = Taken(e)
    /\ inst' = Leave(slot[e].at)
    /\ routed' = (routed \ Journal(e)) \ {ProvisionOf(e)}
    /\ inherited' = [inherited EXCEPT ![e] = @ \ Journal(e)]
    /\ life' = [life EXCEPT ![e] = [at |-> IF @.how = "fail" THEN "failed" ELSE "journal"]]
    /\ UNCHANGED <<phase, tombs, pinned, batch, stray, swapped, left>>

\* LaneCore::inherit: a host effect joins the entry's journal once.
Inherit(e, journal) == [inherited EXCEPT ![e] = @ \union OfKind({"Host"}, journal)]

\* Mutated form: a suspended seat's world effects are not handed to the entry.
SuspendForgetting(e) ==
    /\ life[e].at = "draining" /\ life[e].how = "suspend" /\ Drained(e)
    /\ slot' = Taken(e)
    /\ inst' = Leave(slot[e].at)
    /\ routed' = (routed \ OfKind(Kind \ {"Host"}, Journal(e))) \ {ProvisionOf(e)}
    /\ tombs' = tombs \union (routed \intersect OfKind({"Listen"}, Journal(e)))
    /\ life' = [life EXCEPT ![e] = [at |-> "down"]]
    /\ UNCHANGED <<phase, pinned, batch, stray, swapped, left, inherited>>

\* SeatState::suspend: kernel registrations are released, listeners entombed,
\* world effects kept for the entry.
SuspendSeat(e) ==
    /\ life[e].at = "draining" /\ life[e].how = "suspend" /\ Drained(e)
    /\ slot' = Taken(e)
    /\ inst' = Leave(slot[e].at)
    /\ routed' = (routed \ OfKind(Kind \ {"Host"}, Journal(e))) \ {ProvisionOf(e)}
    /\ tombs' = tombs \union (routed \intersect OfKind({"Listen"}, Journal(e)))
    /\ inherited' = Inherit(e, Journal(e))
    /\ life' = [life EXCEPT ![e] = [at |-> "down"]]
    /\ UNCHANGED <<phase, pinned, batch, stray, swapped, left>>

\* The loader disposes an entry that has no seat.
DisposeResting(e) ==
    /\ life[e].at = "failed" \/ (life[e].at = "down" /\ slot[e].ever)
    /\ Spend("closes")
    /\ life' = [life EXCEPT ![e] = [at |-> "journal"]]
    /\ UNCHANGED <<inst, slot, phase, routed, tombs, inherited, pinned, batch, stray, swapped>>

\* LaneCore::withdraw_journal: the last step of an entry's disposal.
WithdrawJournal(e) ==
    /\ life[e].at = "journal"
    /\ routed' = routed \ inherited[e]
    /\ inherited' = [inherited EXCEPT ![e] = {}]
    /\ life' = [life EXCEPT ![e] = [at |-> "gone"]]
    /\ UNCHANGED <<inst, slot, phase, tombs, pinned, batch, stray, swapped, left>>

\* The lane's forwarder sees Failed or Disposed: the tombstones end.
EndTombstones(e) ==
    /\ life[e].at \in {"failed", "journal", "gone"} /\ Of(e, tombs) # {}
    /\ tombs' = tombs \ Of(e, tombs)
    /\ UNCHANGED <<inst, slot, seatVars, routed, stray, swapped, left>>

-----------------------------------------------------------------------------
(* The batch *)

\* entries_pinned_to: the roster rows of the artifact, with their slot ids.
SwapStart ==
    /\ batch.at = "idle" /\ pinned = "old"
    /\ Spend("swaps")
    /\ LET on == {<<e, SlotId(e)>> : e \in {d \in Entry : Rostered(d)}} IN
        batch' = [NoBatch EXCEPT !.at = "begin", !.todo = SetToSeq(on), !.hit = on]
    /\ UNCHANGED <<inst, slot, phase, life, routed, tombs, inherited, pinned, stray, swapped>>

At == IF batch.todo = <<>> THEN <<Nobody, 0>> ELSE Head(batch.todo)

\* SwapCore::begin: a slot that is not Steady loses the batch.
SwapBegin ==
    /\ batch.at = "begin" /\ batch.todo # <<>>
    /\ IF phase[At[1]][At[2]] = "Steady"
        THEN /\ phase' = [phase EXCEPT ![At[1]][At[2]] = "Preparing"]
             /\ batch' = [batch EXCEPT !.at = "prepare", !.begun = @ \union {At}]
        ELSE /\ batch' = [batch EXCEPT !.at = "rollback"]
             /\ UNCHANGED phase
    /\ UNCHANGED <<inst, slot, life, routed, tombs, inherited, pinned, stray, swapped, left>>

\* LaneSlots::prepare: without a live instance to hand off the batch is lost;
\* else its snapshot is taken and a staging instance activates.
SwapPrepare ==
    /\ batch.at = "prepare"
    /\ LET e == At[1] IN
       IF Rostered(e) /\ slot[e].at # Nobody /\ Alive(slot[e].at)
        THEN /\ InstIdle(slot[e].at) /\ Fresh(e) \in Inst
             /\ inst' = [inst EXCEPT ![Fresh(e)] = Instance("new", FALSE, TRUE)]
             /\ batch' = [batch EXCEPT !.at = "activate",
                    !.staged = @ \union {[entry |-> e, inst |-> Fresh(e), outcome |-> <<>>]}]
        ELSE /\ batch' = [batch EXCEPT !.at = "rollback"]
             /\ UNCHANGED inst
    /\ UNCHANGED <<slot, phase, life, routed, tombs, inherited, pinned, stray, swapped, left>>

Staging == CHOOSE c \in batch.staged : c.entry = At[1]

\* unwind: host and kernel registrations of a staged instance are withdrawn.
Unwound(C) == OfKind({"Host", "Kernel"}, UNION {ToSet(c.outcome) : c \in C})

\* The staged activation and the restore settle.
SwapSettle(ok) ==
    /\ batch.at = "activate"
    /\ LET c == [Staging EXCEPT !.outcome = inst[Staging.inst].recorded]
           others == batch.staged \ {Staging}
       IN IF ok
        THEN /\ inst' = [inst EXCEPT ![c.inst].busy = "idle", ![c.inst].recorded = <<>>]
             /\ batch' = [batch EXCEPT !.at = "begin", !.todo = Tail(@), !.staged = others \union {c}]
             /\ UNCHANGED routed
        ELSE /\ inst' = Leave(c.inst)
             /\ batch' = [batch EXCEPT !.at = "rollback", !.staged = others]
             /\ routed' = routed \ Unwound({c})
    /\ UNCHANGED <<slot, phase, life, tombs, inherited, pinned, stray, swapped, left>>

AllPreparing == \A b \in batch.begun : phase[b[1]][b[2]] = "Preparing"

\* Mutated form: the claim takes the slots that are still preparing and leaves the rest.
SwapClaimPartly ==
    /\ batch.at = "begin" /\ batch.todo = <<>>
    /\ LET kept == {c \in batch.staged : \E b \in batch.begun : b[1] = c.entry /\ phase[b[1]][b[2]] = "Preparing"} IN
        /\ CommitStaged(kept)
        /\ phase' = [e \in Entry |-> [n \in 1..SlotId(e) |->
                        IF <<e, n>> \in batch.begun /\ phase[e][n] = "Preparing" THEN "Steady" ELSE phase[e][n]]]
        /\ batch' = [batch EXCEPT !.at = "retire", !.staged = {},
                        !.displaced = SetToSeq({[entry |-> c.entry, inst |-> slot[c.entry].at,
                                                 journal |-> Old(c)] : c \in kept})]
        /\ swapped' = swapped \union {c.entry : c \in kept}
    /\ UNCHANGED <<life, inherited, pinned, stray, left>>

\* SwapCore::commit_all_with: under the phase lock every staged seat lands, or
\* none when a disposal tombstoned one of the slots.
SwapClaim ==
    /\ batch.at = "begin" /\ batch.todo = <<>>
    /\ IF AllPreparing
        THEN /\ CommitStaged(batch.staged)
             /\ phase' = [e \in Entry |-> [n \in 1..SlotId(e) |->
                            IF <<e, n>> \in batch.begun THEN "Steady" ELSE phase[e][n]]]
             /\ batch' = [batch EXCEPT !.at = "retire", !.staged = {},
                            !.displaced = SetToSeq({[entry |-> c.entry, inst |-> slot[c.entry].at,
                                                     journal |-> Old(c)] : c \in batch.staged})]
             /\ swapped' = swapped \union {c.entry : c \in batch.staged}
        ELSE /\ batch' = [batch EXCEPT !.at = "rollback"]
             /\ UNCHANGED <<inst, slot, phase, routed, tombs, swapped>>
    /\ UNCHANGED <<life, inherited, pinned, stray, left>>

\* LaneSlots::retire_displaced: world effects become the entry's, the rest of
\* the displaced journal is dropped with its instance.
SwapRetire ==
    /\ batch.at = "retire" /\ batch.displaced # <<>>
    /\ LET d == Head(batch.displaced) IN
        /\ Stopped(d.inst)
        /\ inherited' = Inherit(d.entry, d.journal)
        /\ inst' = Leave(d.inst)
    /\ batch' = [batch EXCEPT !.displaced = Tail(@)]
    /\ UNCHANGED <<slot, phase, life, routed, tombs, pinned, stray, swapped, left>>

\* swap_pinned: the package's cell is retargeted after the batch.
SwapRetarget ==
    /\ batch.at = "retire" /\ batch.displaced = <<>>
    /\ pinned' = "new"
    /\ batch' = [NoBatch EXCEPT !.hit = batch.hit]
    /\ UNCHANGED <<inst, slot, phase, life, routed, tombs, inherited, stray, swapped, left>>

\* The batch is lost: slots still preparing are steady again, what was staged
\* is unwound once its entry in flight is over, the old instances were never touched.
SwapRollback ==
    /\ batch.at = "rollback"
    /\ \A c \in batch.staged : Stopped(c.inst)
    /\ phase' = [e \in Entry |-> [n \in 1..SlotId(e) |->
                    IF <<e, n>> \in batch.begun /\ phase[e][n] = "Preparing" THEN "Steady" ELSE phase[e][n]]]
    /\ routed' = routed \ Unwound(batch.staged)
    /\ inst' = [i \in Inst |-> IF \E c \in batch.staged : c.inst = i
                    THEN [inst[i] EXCEPT !.state = "dead"] ELSE inst[i]]
    /\ batch' = [NoBatch EXCEPT !.hit = batch.hit]
    /\ UNCHANGED <<slot, life, tombs, inherited, pinned, stray, swapped, left>>

-----------------------------------------------------------------------------
Guest(i) ==
    \/ StartEntry(i) \/ EndEntry(i) \/ Die(i) \/ Flip(i)
    \/ \E k \in Kind : Register(i, k)
    \/ \E r \in routed : Replay(i, r)

Engine(e) ==
    \/ Activate(e) \/ (\E ok \in BOOLEAN : Settle(e, ok)) \/ Land(e)
    \/ \E how \in {"suspend", "dispose", "fail"} : Close(e, how)
    \/ RetireSeat(e) \/ SuspendSeat(e) \/ DisposeResting(e) \/ WithdrawJournal(e)
    \/ EndTombstones(e)

Swap ==
    \/ SwapStart \/ SwapBegin \/ SwapPrepare \/ (\E ok \in BOOLEAN : SwapSettle(ok))
    \/ SwapClaim \/ SwapRetire \/ SwapRetarget \/ SwapRollback

SeatNext == (\E i \in Inst : Guest(i)) \/ (\E e \in Entry : Engine(e)) \/ Swap

-----------------------------------------------------------------------------
(* Properties *)

\* Nothing of the entry moves any more.
AtRest(e) ==
    /\ life[e].at = "gone" /\ Of(e, tombs) = {}
    /\ batch.at = "idle" /\ \A i \in Inst : i[1] = e => ~Alive(i)

\* A disposed entry leaves nothing in force: no listener, alarm, provision,
\* world effect or kernel resource any of its instances registered
\* (surfaces.rs: "a dispose trail is exactly the fiber's contribution (I1)").
DisposeIsExact == \A e \in Entry : AtRest(e) => Of(e, routed) = {}

\* For an entry no batch replaced, the only exception is what a late handler
\* registered before its seat was installed and committed: it stays in a store
\* that may not be drained again (instance/late.rs: "they wait for the next
\* drain").
OnlyStraysAreLeft ==
    \A e \in Entry \ swapped : AtRest(e) => Of(e, routed) \subseteq stray

\* Every seat a batch was about, while it is the one the batch saw, runs the
\* same artifact: never part new and part old, whatever is disposed meanwhile.
BatchIsWhole ==
    \A a, b \in batch.hit :
        LET seated(x) == SlotId(x[1]) = x[2] /\ slot[x[1]].at # Nobody IN
        seated(a) /\ seated(b) => inst[slot[a[1]].at].artifact = inst[slot[b[1]].at].artifact

\* Disposal wins: a seat that is being closed is never replaced under the
\* hands of its closer, and nothing is installed once it was taken
\* (swap.rs: "a swap must never resurrect it").
DisposalWins ==
    \A e \in Entry :
        life[e].at \in {"draining", "journal", "gone", "failed"} =>
            slot'[e].at \in {slot[e].at, Nobody}
=============================================================================
