----------------------------- MODULE ContextTree -----------------------------
(***************************************************************************)
(* The context tree (crates/jinnd-context) and the slot addresses the      *)
(* registry reads off it.                                                  *)
(*                                                                         *)
(* A context is one frozen layer: the isolation bindings one derivation    *)
(* collected and a pointer to its parent, none of which changes once it is *)
(* built.  A tree is therefore given as constants, and everything here is  *)
(* a function of it.  Interned identities are only compared: a service     *)
(* name, a realm and a context stand for theirs.  Config overlays          *)
(* (intercept chains) take no part in resolution.                          *)
(***************************************************************************)
LOCAL INSTANCE Naturals
LOCAL INSTANCE Sequences
LOCAL INSTANCE SequencesExt

CONSTANTS
    Context,    \* the contexts of the tree
    Root,       \* its root
    Parent,     \* Parent[x]: the context x was derived from
    Bindings,   \* Bindings[x]: what its derivation bound, <<service, realm>> in order
    Service,    \* service names
    Realm,      \* realms
    RootRealm   \* RealmId::ROOT

ASSUME ContextConstants ==
    /\ Root \in Context /\ RootRealm \in Realm
    /\ Parent \in [Context \ {Root} -> Context]
    \* A layer is built on one that exists: no set of layers is all built on itself.
    /\ \A S \in SUBSET (Context \ {Root}) : S # {} => \E x \in S : Parent[x] \notin S
    /\ DOMAIN Bindings = Context /\ Bindings[Root] = <<>>
    /\ \A x \in Context : Range(Bindings[x]) \subseteq Service \X Realm

\* replace_or_push: of several bindings of one service the last stands.
Isolation(x) ==
    FoldLeft(LAMBDA bound, b : [s \in DOMAIN bound \union {b[1]} |->
                                  IF s = b[1] THEN b[2] ELSE bound[s]],
             [s \in {} |-> RootRealm], Bindings[x])

Binds(x, service) == service \in DOMAIN Isolation(x)

OwnRealm(x, service) == Isolation(x)[service]

\* The layer chain of a context, nearest first.
Chain[x \in Context] == <<x>> \o (IF x = Root THEN <<>> ELSE Chain[Parent[x]])

\* The nearest binding on the layer chain.
RealmOf(x, service) ==
    LET binding == SelectSeq(Chain[x], LAMBDA y : Binds(y, service))
    IN  IF binding = <<>> THEN RootRealm ELSE OwnRealm(Head(binding), service)

\* An isolation boundary lies between x and its parent, for one walk's realm.
Boundary(x, service, realm) == x # Root /\ RealmOf(Parent[x], service) # realm

\* Where the chain of x is cut for a service: at the root, or at a boundary.
Cut(x, service) ==
    LET chain == Chain[x]
        stops == {i \in DOMAIN chain :
                     chain[i] = Root \/ Boundary(chain[i], service, RealmOf(x, service))}
    IN  CHOOSE i \in stops : \A j \in stops : i <= j

\* Mutated form of ResolutionFrames: the boundary frame itself is not asked.
FramesBeforeBoundary(x, service) ==
    SubSeq(Chain[x], 1, IF Cut(x, service) = Len(Chain[x]) THEN Cut(x, service)
                        ELSE Cut(x, service) - 1)

\* resolution_frames, nearest first; the boundary frame is asked, its parent not.
ResolutionFrames(x, service) == SubSeq(Chain[x], 1, Cut(x, service))

-----------------------------------------------------------------------------
(* Addresses *)

Address == [context : Context, service : Service, realm : Realm]

\* provide: a named realm's slots are anchored at the tree root, the root
\* realm's where the provision is made.
SlotFor(x, service, realm) ==
    [context |-> IF realm = RootRealm THEN x ELSE Root,
     service |-> service, realm |-> realm]

\* A providing entry publishes at the tree root, in the realm its own context
\* resolves the service in.
EntrySlot(x, service) == SlotFor(Root, service, RealmOf(x, service))

\* locate: the one slot of a named realm, or each frame's slot of the root realm.
Walk(x, service) ==
    LET realm == RealmOf(x, service)
    IN  IF realm # RootRealm THEN <<SlotFor(x, service, realm)>>
        ELSE LET frames == ResolutionFrames(x, service)
             IN  [i \in DOMAIN frames |-> SlotFor(frames[i], service, realm)]
=============================================================================
