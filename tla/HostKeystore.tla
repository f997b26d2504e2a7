----------------------------- MODULE HostKeystore ----------------------------
(****************************************************************************)
(* The host key store's revertible effects (jinnd-wasm hostkeystore.rs,     *)
(* hostkeystore/effects.rs, hostkeystore/vault.rs): put and delete retain   *)
(* the sealed prior value, change the map in memory and commit the sealed   *)
(* document; an inverse does the same with the value it read back.  One     *)
(* lock (serial) orders the changes; reads never take it.                   *)
(*                                                                          *)
(* A sealed value is the value with the passphrase that sealed it: it opens *)
(* under that one only.  The key is derived once per boot, at the open when *)
(* there is a document and else at the first change, from the passphrase    *)
(* the operator configured and a salt the store writes once.                *)
(****************************************************************************)
EXTENDS Retention

CONSTANTS
    Values,       \* what a guest puts
    Passphrases,  \* what the operator may configure
    NoSource,     \* nothing configured; also a cipher that is not there yet
    NoDoc         \* no sealed document on disk

VARIABLES
    vault,      \* name |-> value or Absent, in memory
    doc,        \* the sealed document on disk, or NoDoc
    source,     \* the passphrase configured for this boot
    cipher,     \* the one the key was derived from, NoSource while locked
    salt,       \* the salt file: "none", "torn" or "whole"
    serial      \* who holds the lock: "free", "call" or an undoer

ksvars == <<vault, doc, source, cipher, salt, serial>>

Empty == [n \in Labels |-> Absent]
OnDisk == IF doc = NoDoc THEN Empty ELSE doc.entries
Sealed(entries) == [entries |-> entries, seal |-> cipher]

KsInit ==
    /\ RetentionInit
    /\ vault = Empty /\ doc = NoDoc
    /\ source = NoSource /\ cipher = NoSource
    /\ salt = "none" /\ serial = "free"

------------------------------------------------------------------------------
(* The process. *)

(* A document opens under the passphrase that sealed it; without one the    *)
(* store opens locked.                                                      *)
KsOpen ==
    /\ source' \in Passphrases \cup {NoSource}
    /\ doc # NoDoc => source' = doc.seal
    /\ OpenStore
    /\ vault' = OnDisk
    /\ cipher' = IF doc = NoDoc THEN NoSource ELSE source'
    /\ UNCHANGED <<doc, salt, serial>>

(* Another passphrase, or none, does not authenticate the document, and the *)
(* open is refused whole.                                                   *)
KsOpenRefused ==
    /\ ~up /\ boots < MaxBoots /\ doc # NoDoc
    /\ boots' = boots + 1
    /\ source' \in (Passphrases \cup {NoSource}) \ {doc.seal}
    /\ UNCHANGED <<up, faults, epoch, spill, index, next, owner, call, undo,
                   journal, retained, todo, minted, applied, excuse>>
    /\ UNCHANGED <<vault, doc, cipher, salt, serial>>

KsCrash ==
    /\ Crash
    /\ serial' = "free"
    /\ UNCHANGED <<vault, doc, source, cipher, salt>>

(* A derivation already handed to the blocking pool runs to its end.        *)
KsCancel ==
    /\ Cancel
    /\ serial' = IF serial = "call" THEN "free" ELSE serial
    /\ salt' = IF call.pc = "salt" THEN "whole" ELSE salt
    /\ UNCHANGED <<vault, doc, source, cipher>>
KsRetire == Retire /\ UNCHANGED ksvars
KsSuspend == Suspend /\ UNCHANGED ksvars
KsWithdraw == Withdraw /\ UNCHANGED ksvars

------------------------------------------------------------------------------
(* put (a value) and delete (Absent). *)

KsCall(name, value) ==
    /\ Serving
    /\ MayRetain
    /\ call' = [pc |-> "prior", label |-> name, key |-> NoKey, value |-> value,
                prior |-> Absent, id |-> 0]
    /\ UNCHANGED <<up, boots, faults, epoch, spill, index, next, owner, undo,
                   journal, retained, todo, minted, applied, excuse>>
    /\ UNCHANGED ksvars

(* Under the lock, while the store is locked: the key is derived, or the    *)
(* call refused for want of a passphrase or of a whole salt.  A missing     *)
(* salt is written first, and is torn until it is.                          *)
KsUnlock ==
    /\ Calling("prior") /\ serial = "free" /\ cipher = NoSource
    /\ \/ /\ source # NoSource /\ salt = "whole"
          /\ cipher' = source
          /\ UNCHANGED <<call, salt, serial>>
       \/ /\ source # NoSource /\ salt = "none"
          /\ salt' = "torn" /\ serial' = "call"
          /\ Step("salt")
          /\ UNCHANGED cipher
       \/ /\ source = NoSource \/ salt = "torn"
          /\ call' = Idle
          /\ UNCHANGED <<cipher, salt, serial>>
    /\ UNCHANGED <<up, boots, faults, epoch, spill, index, next, owner, undo,
                   journal, retained, todo, minted, applied, excuse>>
    /\ UNCHANGED <<vault, doc, source>>

KsSalt ==
    /\ Calling("salt")
    /\ salt' = "whole" /\ cipher' = source /\ serial' = "free"
    /\ Step("prior")
    /\ UNCHANGED <<up, boots, faults, epoch, spill, index, next, owner, undo,
                   journal, retained, todo, minted, applied, excuse>>
    /\ UNCHANGED <<vault, doc, source>>

(* Then the prior value is sealed; a delete of nothing is no effect.        *)
KsPrior ==
    /\ Calling("prior") /\ serial = "free" /\ cipher # NoSource
    /\ IF call.value = Absent /\ vault[call.label] = Absent
       THEN call' = Idle /\ UNCHANGED serial
       ELSE /\ call' = [call EXCEPT !.pc = "retain",
                            !.prior = [value |-> vault[call.label], seal |-> cipher]]
            /\ serial' = "call"
    /\ UNCHANGED <<up, boots, faults, epoch, spill, index, next, owner, undo,
                   journal, retained, todo, minted, applied, excuse>>
    /\ UNCHANGED <<vault, doc, source, cipher, salt>>

KsRetain ==
    /\ Retain
    /\ serial' = IF call' = Idle THEN "free" ELSE serial
    /\ UNCHANGED <<vault, doc, source, cipher, salt>>

KsSet ==
    /\ Calling("mutate")
    /\ vault' = [vault EXCEPT ![call.label] = call.value]
    /\ Step("commit")
    /\ UNCHANGED <<up, boots, faults, epoch, spill, index, next, owner, undo,
                   journal, retained, todo, minted, applied, excuse>>
    /\ UNCHANGED <<doc, source, cipher, salt, serial>>

(* A failed commit puts the prior value back in memory; it may have failed  *)
(* after its rename.                                                        *)
KsCommit ==
    /\ Calling("commit")
    /\ \/ /\ doc' = Sealed(vault)
          /\ Step("row")
          /\ applied' = applied \cup {call.id}
          /\ UNCHANGED <<faults, vault, excuse>>
       \/ /\ Refused
          /\ vault' = [vault EXCEPT ![call.label] = call.prior.value]
          /\ Step("release")
          /\ \/ UNCHANGED <<doc, excuse, applied>>
             \/ /\ doc' = Sealed(vault)
                /\ excuse' = excuse \cup {"unsynced"}
                /\ applied' = applied \cup {call.id}
    /\ UNCHANGED <<up, boots, epoch, spill, index, next, owner, undo, journal,
                   retained, todo, minted>>
    /\ UNCHANGED <<source, cipher, salt, serial>>

KsRelease == Release /\ serial' = "free" /\ UNCHANGED <<vault, doc, source, cipher, salt>>

KsRow ==
    /\ Calling("row")
    /\ Answer(call.id)
    /\ serial' = "free"
    /\ UNCHANGED <<up, boots, faults, epoch, spill, index, next, owner, undo,
                   retained, todo, minted, applied, excuse>>
    /\ UNCHANGED <<vault, doc, source, cipher, salt>>

------------------------------------------------------------------------------
(* The inverse. *)

KsRevert(id) == RevertEffect(id) /\ UNCHANGED ksvars
KsLoad(u) == Load(u) /\ UNCHANGED ksvars
KsReclaim(u) == Reclaim(u) /\ UNCHANGED ksvars
KsMark(u) == Mark(u) /\ UNCHANGED ksvars

(* The value is restored in memory, then the document commits; a failed     *)
(* commit leaves the memory as it is.                                       *)
KsApply(u) ==
    /\ Undoing(u, "apply") /\ serial = "free"
    /\ cipher' = IF cipher = NoSource /\ salt = "whole" THEN source ELSE cipher
    /\ LET prior == undo[u].rec.prior
           opens == cipher' # NoSource
                    /\ (prior.value = Absent \/ prior.seal = cipher')
       IN  \/ /\ opens
              /\ vault' = [vault EXCEPT ![undo[u].rec.label] = prior.value]
              /\ serial' = u
              /\ UndoStep(u, "refill")
              /\ excuse' = IF OutOfOrder(u) THEN excuse \cup {"disorder"}
                                            ELSE excuse
           \/ /\ ~opens
              /\ UndoDone(u)
              /\ UNCHANGED <<vault, serial, excuse>>
    /\ UNCHANGED <<up, boots, faults, epoch, spill, index, next, owner, call,
                   journal, retained, todo, minted, applied>>
    /\ UNCHANGED <<doc, source, salt>>

KsApplyCommit(u) ==
    /\ Undoing(u, "refill")
    /\ \/ /\ doc' = Sealed(vault)
          /\ UndoStep(u, IF u = "operator" THEN "attest" ELSE "reclaim")
          /\ UNCHANGED faults
       \/ /\ Refused
          /\ doc' \in {doc, Sealed(vault)}
          /\ UndoDone(u)
    /\ serial' = "free"
    /\ UNCHANGED <<up, boots, epoch, spill, index, next, owner, call, journal,
                   retained, todo, minted, applied, excuse>>
    /\ UNCHANGED <<vault, source, cipher, salt>>

KsWitness(rec) == vault[rec.label] = rec.prior.value

KsAttest ==
    /\ Undoing("operator", "attest")
    /\ IF KsWitness(undo["operator"].rec) /\ undo["operator"].id \in DOMAIN spill
       THEN UndoStep("operator", "reclaim")
       ELSE UndoDone("operator")
    /\ UNCHANGED <<up, boots, faults, epoch, spill, index, next, owner, call,
                   journal, retained, todo, minted, applied, excuse>>
    /\ UNCHANGED ksvars

KsOperatorNext == \E id \in DOMAIN index : KsRevert(id)
KsNext ==
    \/ KsOpen \/ KsOpenRefused \/ KsCrash \/ KsCancel
    \/ KsRetire \/ KsSuspend \/ KsWithdraw
    \/ \E n \in Labels, v \in Values \cup {Absent} : KsCall(n, v)
    \/ KsUnlock \/ KsSalt \/ KsPrior \/ KsRetain \/ KsSet \/ KsCommit \/ KsRelease \/ KsRow
    \/ \E u \in Undoers : KsLoad(u) \/ KsApply(u) \/ KsApplyCommit(u)
                          \/ KsReclaim(u) \/ KsMark(u)
    \/ KsAttest

------------------------------------------------------------------------------
(* KsTrail: the records undo both what the provider serves and what the     *)
(* next boot will read, wherever a change or an inverse stopped between     *)
(* memory and disk, and each opens under the key of the document it is to   *)
(* restore (HostKeystore::mutate, apply_inverse, Vault::open).              *)
KsTrail ==
    \/ {"disorder", "unsynced"} \cap excuse # {}
    \/ \A n \in Labels : \A value \in {vault[n], OnDisk[n]} :
          Trail(n, value, LAMBDA prior, v :
                    IF prior.value = Absent \/ prior.seal = doc.seal
                    THEN prior.value ELSE v) = Absent
==============================================================================
