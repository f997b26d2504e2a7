------------------------------ MODULE Retention ------------------------------
(****************************************************************************)
(* The inverse store shared by the host file system and the host key store *)
(* (jinnd-wasm hostfs/retention.rs, hostfs/inverses.rs and their twins in   *)
(* hostkeystore/effects.rs), with the one journal that hands the recorded   *)
(* effects back to it.  Every change a guest makes to the world is undone   *)
(* from a record that was made durable before the change was.              *)
(*                                                                          *)
(* The store is a directory: one file per effect (spill) and the number of  *)
(* the boot (epoch).  A provider keeps in memory only the headers (index)   *)
(* and the next id.  A crash is the death of the process, at any await.     *)
(****************************************************************************)
EXTENDS Integers, Sequences, FiniteSets, SequencesExt, FiniteSetsExt

CONSTANTS
    Labels,       \* the paths, or the names of the keys, that are changed
    Keys,         \* the idempotency keys a guest may send
    NoKey,        \* the empty key
    Absent,       \* no file, no binding
    MaxEffects,   \* bound: effects retained in all
    MaxBoots,     \* bound: opens tried
    MaxFaults     \* bound: refusals of the disk

ASSUME RetentionAssumption ==
    /\ MaxEffects \in Nat \ {0}
    /\ MaxBoots \in Nat
    /\ MaxFaults \in Nat
    /\ NoKey \notin Keys

VARIABLES
    up,        \* the provider is open and serves
    boots,     \* opens tried so far
    faults,    \* refusals the disk has left
    epoch,     \* the epoch file, -1 when there is none
    spill,     \* id |-> record, on disk
    index,     \* id |-> header and whether it is consumed, in memory
    next,      \* the next id, in memory
    owner,     \* the fiber the guest runs under in this boot, 0 once disposed
    call,      \* the guest's crossing in flight
    undo,      \* the withdrawals in flight
    journal,   \* ids the live seat was answered, a replay once more
    retained,  \* ids the entry inherited from earlier seats and boots
    todo,      \* what a disposal has still to withdraw, in its order
    minted,    \* history: the ids made durable, in order
    applied,   \* history: the ids whose change reached the world, as last minted
    excuse     \* history: what broke the trail from outside the protocol

rvars == <<up, boots, faults, epoch, spill, index, next, owner, call, undo,
           journal, retained, todo, minted, applied, excuse>>

Undoers == {"retire", "operator"}

(* 2^32 ids a boot in the code; no behaviour takes more than IdsPerBoot, an *)
(* id being burnt by each retention that is refused.                        *)
IdsPerBoot == MaxEffects + MaxFaults + 1
Base(e) == (e + 1) * IdsPerBoot
MayRetain == Len(minted) < MaxEffects

Idle == [pc |-> "idle"]
Quiet == [u \in Undoers |-> Idle]
Without(f, id) == [i \in DOMAIN f \ {id} |-> f[i]]
With(f, id, v) == [i \in DOMAIN f \cup {id} |-> IF i = id THEN v ELSE f[i]]

(* Nothing was ever opened: the first boot is an Open like the others.  A   *)
(* behaviour may have fewer boots and refusals than the bounds.             *)
RetentionInit ==
    /\ up = FALSE /\ boots \in 0 .. MaxBoots /\ faults \in 0 .. MaxFaults
    /\ epoch = -1 /\ spill = <<>> /\ index = <<>> /\ next = 0
    /\ owner = 1
    /\ call = Idle /\ undo = Quiet
    /\ journal = <<>> /\ retained = <<>> /\ todo = <<>>
    /\ minted = <<>> /\ applied = {} /\ excuse = {}

Refused == faults > 0 /\ faults' = faults - 1

------------------------------------------------------------------------------
(* Opening and dying. *)

(* An epoch file that cannot be read, or parsed, counts as none.            *)
NextEpoch(e) == IF e = -1 THEN 0 ELSE e + 1

(* Mutant: the epoch is kept but no longer shifts the ids.                  *)
RehydrateEpochless(e) ==
    /\ up' = TRUE
    /\ epoch' = e
    /\ index' = [i \in DOMAIN spill |-> [rec |-> spill[i], consumed |-> FALSE]]
    /\ next' = Max({Base(0)} \cup {i + 1 : i \in DOMAIN spill})
    /\ retained' = SetToSortSeq(DOMAIN spill, <)
    /\ owner' \in IF epoch = -1 THEN {1} ELSE {1, 2}

(* Every record is indexed as live, the ids go on past the epoch's base and *)
(* past every record, and each entry inherits what it still owns.           *)
Rehydrate(e) ==
    /\ up' = TRUE
    /\ epoch' = e
    /\ index' = [i \in DOMAIN spill |-> [rec |-> spill[i], consumed |-> FALSE]]
    /\ next' = Max({Base(e)} \cup {i + 1 : i \in DOMAIN spill})
    /\ retained' = SetToSortSeq(DOMAIN spill, <)
    /\ owner' \in IF epoch = -1 THEN {1} ELSE {1, 2}

(* The store is swept, the epoch is bumped durably, then every record is    *)
(* read; an error refuses the open, before or after the epoch moved.        *)
OpenStore ==
    /\ ~up /\ boots < MaxBoots
    /\ boots' = boots + 1
    /\ \/ /\ Rehydrate(NextEpoch(epoch))
          /\ UNCHANGED <<faults, excuse>>
       \/ /\ epoch # -1 /\ Refused
          /\ Rehydrate(0)
          /\ excuse' = excuse \cup {"epoch"}
       \/ /\ Refused
          /\ epoch' \in {epoch, NextEpoch(epoch)}
          /\ UNCHANGED <<up, index, next, retained, owner, excuse>>
    /\ UNCHANGED <<spill, call, undo, journal, todo, minted, applied>>

Crash ==
    /\ up
    /\ up' = FALSE
    /\ index' = <<>> /\ call' = Idle /\ undo' = Quiet
    /\ journal' = <<>> /\ retained' = <<>> /\ todo' = <<>>
    /\ UNCHANGED <<boots, faults, epoch, spill, next, owner, minted, applied,
                   excuse>>

------------------------------------------------------------------------------
(* Retaining and releasing. *)

(* The guest runs: open, not disposed, nothing in flight.                   *)
Serving == up /\ owner # 0 /\ call = Idle

Calling(pc) == up /\ call.pc = pc
Step(pc) == call' = [call EXCEPT !.pc = pc]

(* Mutant: only what the live seat was answered counts as recorded.         *)
RecordedAnswered(key) ==
    {i \in DOMAIN index : /\ key # NoKey /\ i \in ToSet(journal)
                          /\ index[i].rec.key = key
                          /\ index[i].rec.owner = owner}

(* The effect a key already recorded for this owner, consumed or not.       *)
Recorded(key) ==
    {i \in DOMAIN index : /\ key # NoKey
                          /\ index[i].rec.key = key
                          /\ index[i].rec.owner = owner}

Header == [label |-> call.label, key |-> call.key, owner |-> owner,
           prior |-> call.prior]

(* The id is taken, the record committed durably, then indexed; a refusal   *)
(* burns the id, and one that comes after the rename leaves the record.     *)
Retain ==
    /\ Calling("retain")
    /\ next' = next + 1
    /\ applied' = applied \ {next}
    /\ \/ /\ spill' = With(spill, next, Header)
          /\ index' = With(index, next, [rec |-> Header, consumed |-> FALSE])
          /\ call' = [call EXCEPT !.pc = "mutate", !.id = next]
          /\ minted' = Append(minted, next)
          /\ UNCHANGED faults
       \/ /\ Refused
          /\ call' = Idle
          /\ \/ UNCHANGED <<spill, minted>>
             \/ /\ spill' = With(spill, next, Header)
                /\ minted' = Append(minted, next)
          /\ UNCHANGED index
    /\ UNCHANGED <<up, boots, epoch, owner, undo, journal, retained, todo,
                   excuse>>

(* The change did not happen: the record goes, as far as the disk lets it.  *)
Release ==
    /\ Calling("release")
    /\ index' = Without(index, call.id)
    /\ \/ spill' = Without(spill, call.id) /\ UNCHANGED faults
       \/ Refused /\ UNCHANGED spill
    /\ call' = Idle
    /\ UNCHANGED <<up, boots, epoch, next, owner, undo, journal, retained, todo,
                   minted, applied, excuse>>

(* The answered id joins the seat's journal.                                *)
Answer(id) ==
    /\ journal' = Append(journal, id)
    /\ call' = Idle

(* The instance is stopped while its crossing is in flight: the future is   *)
(* dropped where it waits, and nothing it did is taken back.                *)
Cancel ==
    /\ up /\ call # Idle
    /\ call' = Idle
    /\ UNCHANGED <<up, boots, faults, epoch, spill, index, next, owner, undo,
                   journal, retained, todo, minted, applied, excuse>>

------------------------------------------------------------------------------
(* Withdrawing. *)

Undoing(u, pc) == up /\ undo[u].pc = pc
UndoStep(u, pc) == undo' = [undo EXCEPT ![u].pc = pc]
UndoDone(u) == undo' = [undo EXCEPT ![u] = Idle]

(* retire: the live seat's journal in reverse, a repeated id once, where it *)
(* is met first; then what the entry inherited, in reverse.                 *)
RetireOrder ==
    LET rev  == Reverse(journal)
        once == [i \in 1 .. Len(rev) |->
                    <<rev[i], \A j \in 1 .. (i - 1) : rev[j] # rev[i]>>]
        standing == SelectSeq(once, LAMBDA x : x[2])
    IN  [i \in 1 .. Len(standing) |-> standing[i][1]]
        \o SelectSeq(Reverse(retained), LAMBDA id : id \notin ToSet(journal))

Retire ==
    /\ Serving /\ journal \o retained # <<>>
    /\ todo' = RetireOrder
    /\ journal' = <<>> /\ retained' = <<>>
    /\ owner' = 0
    /\ UNCHANGED <<up, boots, faults, epoch, spill, index, next, call, undo,
                   minted, applied, excuse>>

(* suspend: the entry inherits the seat's effects, each once, in the order  *)
(* they were first answered.                                                *)
Suspend ==
    /\ Serving /\ journal # <<>>
    /\ LET known == retained \o journal
           first == {i \in 1 .. Len(known) :
                        \A j \in 1 .. (i - 1) : known[j] # known[i]}
       IN  retained' = [k \in 1 .. Cardinality(first) |->
                            known[SetToSortSeq(first, <)[k]]]
    /\ journal' = <<>>
    /\ UNCHANGED <<up, boots, faults, epoch, spill, index, next, owner, call,
                   undo, todo, minted, applied, excuse>>

(* A consumed effect withdraws clean; an unknown one is refused.  Either    *)
(* way the disposal goes on with the next.                                  *)
Withdraw ==
    /\ Undoing("retire", "idle") /\ todo # <<>>
    /\ LET id == Head(todo)
       IN  undo' = IF id \in DOMAIN index /\ ~index[id].consumed
                   THEN [undo EXCEPT !["retire"] = [pc |-> "load", id |-> id]]
                   ELSE undo
    /\ todo' = Tail(todo)
    /\ UNCHANGED <<up, boots, faults, epoch, spill, index, next, owner, call,
                   journal, retained, minted, applied, excuse>>

(* The operator's keyed revert of one effect: the action is built from the  *)
(* index, and a consumed effect's refuses to run.                           *)
RevertEffect(id) ==
    /\ Undoing("operator", "idle")
    /\ id \in DOMAIN index /\ ~index[id].consumed
    /\ undo' = [undo EXCEPT !["operator"] = [pc |-> "load", id |-> id]]
    /\ UNCHANGED <<up, boots, faults, epoch, spill, index, next, owner, call,
                   journal, retained, todo, minted, applied, excuse>>

(* Mutant: the record is consumed as it is read.                            *)
LoadConsuming(u) ==
    /\ Undoing(u, "load")
    /\ undo[u].id \in DOMAIN spill
    /\ undo' = [undo EXCEPT ![u] = [pc |-> "apply", id |-> undo[u].id,
                                    rec |-> spill[undo[u].id]]]
    /\ spill' = Without(spill, undo[u].id)
    /\ UNCHANGED <<up, boots, faults, epoch, index, next, owner, call, journal,
                   retained, todo, minted, applied, excuse>>

(* The record is read back; without it there is nothing to run.             *)
Load(u) ==
    /\ Undoing(u, "load")
    /\ \/ /\ undo[u].id \in DOMAIN spill
          /\ undo' = [undo EXCEPT ![u] = [pc |-> "apply", id |-> undo[u].id,
                                          rec |-> spill[undo[u].id]]]
          /\ UNCHANGED faults
       \/ /\ undo[u].id \notin DOMAIN spill
          /\ UndoDone(u)
          /\ UNCHANGED faults
       \/ /\ Refused
          /\ UndoDone(u)
    /\ UNCHANGED <<up, boots, epoch, spill, index, next, owner, call, journal,
                   retained, todo, minted, applied, excuse>>

(* The file of the record is removed, then the index learns of it.          *)
Reclaim(u) ==
    /\ Undoing(u, "reclaim")
    /\ \/ /\ undo[u].id \in DOMAIN index
          /\ spill' = Without(spill, undo[u].id)
          /\ UndoStep(u, "mark")
          /\ UNCHANGED faults
       \/ /\ Refused \/ (undo[u].id \notin DOMAIN index /\ UNCHANGED faults)
          /\ UndoDone(u)
          /\ UNCHANGED spill
    /\ UNCHANGED <<up, boots, epoch, index, next, owner, call, journal,
                   retained, todo, minted, applied, excuse>>

Mark(u) ==
    /\ Undoing(u, "mark")
    /\ index' = [i \in DOMAIN index |->
                    IF i = undo[u].id THEN [index[i] EXCEPT !.consumed = TRUE]
                                      ELSE index[i]]
    /\ UndoDone(u)
    /\ UNCHANGED <<up, boots, faults, epoch, spill, next, owner, call, journal,
                   retained, todo, minted, applied, excuse>>

(* An inverse starts whose record is gone or is not the newest of its       *)
(* label, while a crossing has already read what it is about to change, or  *)
(* while the other withdrawal holds a record of the same label: outside     *)
(* the trail's order.                                                       *)
OutOfOrder(u) ==
    LET label == undo[u].rec.label
    IN  \/ undo[u].id \notin DOMAIN spill
        \/ \E i \in DOMAIN spill : i > undo[u].id /\ spill[i].label = label
        \/ call.pc \notin {"idle", "prior"} /\ call.label = label
        \/ \E v \in Undoers \ {u} :
              undo[v].pc \notin {"idle", "load"} /\ undo[v].rec.label = label

------------------------------------------------------------------------------
(* What the store promises, whatever is kept behind it. *)

(* UniqueIds: an id names one effect for ever, across every boot, so a row  *)
(* of the ledger never comes to mean another change (the epoch's shift in   *)
(* HostFs::open).                                                           *)
UniqueIds == "epoch" \in excuse \/ IsInjective(minted)

(* KeyedOnce: of the changes that stand, no two answer one key of one owner *)
(* (HostFs::recorded before the crossing acts), whatever was retried after  *)
(* a cancelled call, a failed change or a restart.                          *)
KeyedOnce ==
    \A i, j \in DOMAIN spill \cap applied :
        /\ spill[i].key = spill[j].key /\ spill[i].key # NoKey
        /\ spill[i].owner = spill[j].owner
        /\ "unsynced" \notin excuse
        => i = j

(* What replaying every record of a label, newest first, makes of a value.  *)
Trail(label, value, Restore(_, _)) ==
    LET ids == SetToSortSeq({i \in DOMAIN spill : spill[i].label = label}, >)
    IN  FoldLeft(LAMBDA doc, i : Restore(spill[i].prior, doc), value, ids)
==============================================================================
