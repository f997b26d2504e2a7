------------------------------- MODULE HostFs --------------------------------
(****************************************************************************)
(* The host file system's revertible effects (jinnd-wasm hostfs.rs,         *)
(* hostfs/ops.rs, hostfs/inverses.rs): write, append and remove retain      *)
(* their inverse, act, and answer an id; a withdrawal or the operator's     *)
(* revert runs the inverse and consumes it.                                 *)
(*                                                                          *)
(* A document is a sequence of tokens; the empty one is what a truncation   *)
(* leaves before its bytes are written.  One guest acts on a path at a time *)
(* (its instance is serial); the operator's revert runs beside it.          *)
(****************************************************************************)
EXTENDS Retention

CONSTANTS
    Tokens,     \* what a guest writes
    NoFile,     \* no staged file
    FirstDoc    \* what each path held before any effect

VARIABLES
    file,       \* path |-> document or Absent
    stage       \* path |-> the staged document beside it

fsvars == <<file, stage>>

FsOps == {"write", "append", "remove"}

FsInit ==
    /\ RetentionInit
    /\ file = FirstDoc
    /\ stage = [p \in Labels |-> NoFile]

------------------------------------------------------------------------------
(* The process. *)

(* The root is swept of what a crash staged before the store is opened; a   *)
(* sweep that fails refuses the open.                                       *)
FsOpen ==
    /\ OpenStore
    /\ stage' \in {[p \in Labels |-> NoFile]} \cup (IF up' THEN {} ELSE {stage})
    /\ UNCHANGED file

FsCrash == Crash /\ UNCHANGED fsvars
FsCancel == Cancel /\ UNCHANGED fsvars
FsRetire == Retire /\ UNCHANGED fsvars
FsSuspend == Suspend /\ UNCHANGED fsvars
FsWithdraw == Withdraw /\ UNCHANGED fsvars

------------------------------------------------------------------------------
(* The crossing: dispatch, prior, retain, mutate, row. *)

FsCall(op, path, key, token) ==
    /\ Serving
    /\ Recorded(key) = {}
    /\ MayRetain
    /\ call' = [pc |-> "prior", op |-> op, label |-> path, key |-> key,
                token |-> token, prior |-> Absent, id |-> 0]
    /\ UNCHANGED <<up, boots, faults, epoch, spill, index, next, owner, undo,
                   journal, retained, todo, minted, applied, excuse>>
    /\ UNCHANGED fsvars

(* A replay of a recorded key answers the record and changes nothing.       *)
FsReplay(key) ==
    /\ Serving
    /\ Recorded(key) # {} /\ Len(journal) <= MaxEffects
    /\ Answer(Min(Recorded(key)))
    /\ UNCHANGED <<up, boots, faults, epoch, spill, index, next, owner, undo,
                   retained, todo, minted, applied, excuse>>
    /\ UNCHANGED fsvars

PriorOf(op, doc) ==
    CASE doc = Absent   -> [kind |-> "absent"]
      [] op = "append"  -> [kind |-> "length", length |-> Len(doc)]
      [] OTHER          -> [kind |-> "content", doc |-> doc]

(* A missing path is no effect for remove, an unreadable one for any.  A    *)
(* read between an inverse's truncation and its write sees the empty        *)
(* document, and is counted as out of order.                                *)
FsPrior ==
    /\ Calling("prior")
    /\ LET doc == file[call.label]
       IN  \/ /\ ~(call.op = "remove" /\ doc = Absent)
              /\ call' = [call EXCEPT !.pc = "retain",
                                      !.prior = PriorOf(call.op, doc)]
              /\ UNCHANGED faults
           \/ /\ call.op = "remove" /\ doc = Absent
              /\ call' = Idle
              /\ UNCHANGED faults
           \/ /\ Refused
              /\ call' = Idle
    /\ excuse' = IF \E u \in Undoers : /\ undo[u].pc = "refill"
                                       /\ undo[u].rec.label = call.label
                 THEN excuse \cup {"disorder"} ELSE excuse
    /\ UNCHANGED <<up, boots, epoch, spill, index, next, owner, undo, journal,
                   retained, todo, minted, applied>>
    /\ UNCHANGED fsvars

FsRetain == Retain /\ UNCHANGED fsvars
FsRelease == Release /\ UNCHANGED fsvars

(* write and append stage the whole document; append reads it again here.   *)
FsStage ==
    /\ Calling("mutate") /\ call.op # "remove"
    /\ LET path == call.label
           held == IF file[path] = Absent THEN <<>> ELSE file[path]
           whole == IF call.op = "append" THEN Append(held, call.token)
                                          ELSE <<call.token>>
       IN  \/ /\ stage' = [stage EXCEPT ![path] = whole]
              /\ Step("rename")
              /\ UNCHANGED faults
           \/ /\ Refused
              /\ stage' = [stage EXCEPT ![path] = NoFile]
              /\ Step("release")
    /\ UNCHANGED <<up, boots, epoch, spill, index, next, owner, undo, journal,
                   retained, todo, minted, applied, excuse>>
    /\ UNCHANGED file

(* The rename is the commit point; a failed one removes the staged file.    *)
FsRename ==
    /\ Calling("rename")
    /\ \/ /\ file' = [file EXCEPT ![call.label] = stage[call.label]]
          /\ Step("sync")
          /\ applied' = applied \cup {call.id}
          /\ UNCHANGED faults
       \/ /\ Refused
          /\ Step("release")
          /\ UNCHANGED <<file, applied>>
    /\ stage' = [stage EXCEPT ![call.label] = NoFile]
    /\ UNCHANGED <<up, boots, epoch, spill, index, next, owner, undo, journal,
                   retained, todo, minted, excuse>>

(* The directory is synced last: refused here, the effect is reported as    *)
(* failed and its record released, with the change in place.                *)
FsSync ==
    /\ Calling("sync")
    /\ \/ /\ Step("row") /\ UNCHANGED <<faults, excuse>>
       \/ /\ Refused /\ Step("release")
          /\ excuse' = excuse \cup {"unsynced"}
    /\ UNCHANGED <<up, boots, epoch, spill, index, next, owner, undo, journal,
                   retained, todo, minted, applied>>
    /\ UNCHANGED fsvars

FsRemove ==
    /\ Calling("mutate") /\ call.op = "remove"
    /\ \/ /\ file[call.label] # Absent
          /\ file' = [file EXCEPT ![call.label] = Absent]
          /\ Step("row")
          /\ applied' = applied \cup {call.id}
          /\ UNCHANGED faults
       \/ /\ Refused \/ (file[call.label] = Absent /\ UNCHANGED faults)
          /\ Step("release")
          /\ UNCHANGED <<file, applied>>
    /\ UNCHANGED <<up, boots, epoch, spill, index, next, owner, undo, journal,
                   retained, todo, minted, excuse>>
    /\ UNCHANGED stage

FsRow ==
    /\ Calling("row")
    /\ Answer(call.id)
    /\ UNCHANGED <<up, boots, faults, epoch, spill, index, next, owner, undo,
                   retained, todo, minted, applied, excuse>>
    /\ UNCHANGED fsvars

------------------------------------------------------------------------------
(* The inverse: load, apply, attest, reclaim. *)

FsRevert(id) == RevertEffect(id) /\ UNCHANGED fsvars
FsLoad(u) == Load(u) /\ UNCHANGED fsvars
FsReclaim(u) == Reclaim(u) /\ UNCHANGED fsvars
FsMark(u) == Mark(u) /\ UNCHANGED fsvars

(* What an inverse makes of a document.                                     *)
Cut(doc, length) == [i \in 1 .. length |->
                        IF i <= Len(doc) THEN doc[i] ELSE "zero"]
RestoreDoc(prior, doc) ==
    CASE prior.kind = "absent"  -> Absent
      [] prior.kind = "content" -> prior.doc
      [] OTHER -> IF doc = Absent THEN Absent ELSE Cut(doc, prior.length)

AfterApply(u) == IF u = "operator" THEN "attest" ELSE "reclaim"

(* Absence and length are restored at once; a content is truncated first    *)
(* and written after.                                                       *)
FsApply(u) ==
    /\ Undoing(u, "apply")
    /\ LET prior == undo[u].rec.prior
           path  == undo[u].rec.label
       IN  \/ /\ prior.kind = "content"
              /\ file' = [file EXCEPT ![path] = <<>>]
              /\ UndoStep(u, "refill")
              /\ UNCHANGED faults
           \/ /\ prior.kind = "absent" \/ (prior.kind = "length" /\ file[path] # Absent)
              /\ file' = [file EXCEPT ![path] = RestoreDoc(prior, file[path])]
              /\ UndoStep(u, AfterApply(u))
              /\ UNCHANGED faults
           \/ /\ Refused \/ (prior.kind = "length" /\ file[path] = Absent /\ UNCHANGED faults)
              /\ UndoDone(u)
              /\ UNCHANGED file
    /\ excuse' = IF OutOfOrder(u) THEN excuse \cup {"disorder"} ELSE excuse
    /\ UNCHANGED <<up, boots, epoch, spill, index, next, owner, call, journal,
                   retained, todo, minted, applied>>
    /\ UNCHANGED stage

FsRefill(u) ==
    /\ Undoing(u, "refill")
    /\ \/ /\ file' = [file EXCEPT ![undo[u].rec.label] = undo[u].rec.prior.doc]
          /\ UndoStep(u, AfterApply(u))
          /\ UNCHANGED faults
       \/ /\ Refused
          /\ UndoDone(u)
          /\ UNCHANGED file
    /\ UNCHANGED <<up, boots, epoch, spill, index, next, owner, call, journal,
                   retained, todo, minted, applied, excuse>>
    /\ UNCHANGED stage

(* The witness: the file now reads as the record.                           *)
FsWitness(rec) ==
    LET doc == file[rec.label]
    IN  CASE rec.prior.kind = "absent"  -> doc = Absent
          [] rec.prior.kind = "content" -> doc = rec.prior.doc
          [] OTHER -> doc # Absent /\ Len(doc) = rec.prior.length

(* The ledger calls an inverse completed only when the witness passes, and  *)
(* only then is the record consumed.                                        *)
FsAttest ==
    /\ Undoing("operator", "attest")
    /\ IF FsWitness(undo["operator"].rec) /\ undo["operator"].id \in DOMAIN spill
       THEN UndoStep("operator", "reclaim")
       ELSE UndoDone("operator")
    /\ UNCHANGED <<up, boots, faults, epoch, spill, index, next, owner, call,
                   journal, retained, todo, minted, applied, excuse>>
    /\ UNCHANGED fsvars

FsGuestNext ==
    \/ \E op \in FsOps, path \in Labels, key \in Keys \cup {NoKey}, t \in Tokens :
          FsCall(op, path, key, t)
    \/ \E key \in Keys : FsReplay(key)
    \/ FsPrior \/ FsRetain \/ FsRelease \/ FsStage \/ FsRename \/ FsSync
    \/ FsRemove \/ FsRow \/ FsCancel
FsUndoNext ==
    \/ FsRetire \/ FsSuspend \/ FsWithdraw \/ FsAttest
    \/ \E u \in Undoers : FsLoad(u) \/ FsApply(u) \/ FsRefill(u)
                          \/ FsReclaim(u) \/ FsMark(u)
FsOperatorNext == \E id \in DOMAIN index : FsRevert(id)
FsNext == FsOpen \/ FsCrash \/ FsGuestNext \/ FsUndoNext

------------------------------------------------------------------------------
(* FsTrail: whatever crashed, failed or was cancelled, and wherever, the    *)
(* records on disk undo the world: replayed newest first they give back     *)
(* what each path held before the first effect (Effect::commit's order;     *)
(* withdraw's inverse before its reclaim).                                  *)
FsTrail ==
    \/ {"disorder", "unsynced"} \cap excuse # {}
    \/ \A p \in Labels : Trail(p, file[p], RestoreDoc) = FirstDoc[p]

(* FsDisposeIsExact: once a disposal has withdrawn every record and nothing *)
(* is in flight, every path reads as before the guest (SeatState::retire:   *)
(* "exactly this seat's contribution", "strictly reverse").                 *)
FsDisposeIsExact ==
    up /\ spill = <<>> /\ call = Idle /\ undo = Quiet /\ todo = <<>>
    => file = FirstDoc
==============================================================================
