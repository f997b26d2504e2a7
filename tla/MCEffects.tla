------------------------------ MODULE MCEffects ------------------------------
(* What is owed and left behind, in five parts that share no state and have  *)
(* a behaviour each: one scope's effects, the seats of two entries of one    *)
(* package, the two providers of durable effects over their stores, and      *)
(* outbound calls, which cannot be taken back.                               *)
EXTENDS EffectScope, GuestSeat, HostFs, HostKeystore, NetCalls

CONSTANTS e1, e2

VARIABLE part   \* what the behaviour is about, and whether the operator reverts

-----------------------------------------------------------------------------
(* Seats: what is loaded, and how often what may happen.                     *)

Budget == Kind \union {"entries", "replays", "deaths", "activations", "closes", "swaps"}
Story(o, b) == [on |-> o, left |-> [k \in Budget |-> IF k \in DOMAIN b THEN b[k] ELSE 0]]

MCStories == {
    \* Both entries swapped while they are disposed or restarted.
    Story({e1, e2}, [activations |-> 3, closes |-> 2, swaps |-> 1]),
    Story({e1, e2}, [activations |-> 2, closes |-> 1, swaps |-> 1, deaths |-> 1, entries |-> 1]),
    \* Registrations of every kind: across a swap, across restarts, by late handlers.
    Story({e1}, [activations |-> 1, closes |-> 1, swaps |-> 1, Listen |-> 2, Host |-> 1,
                 Provision |-> 1, Alarm |-> 1]),
    \* A staged instance that is reached through a socket of its own.
    Story({e1}, [activations |-> 1, closes |-> 1, swaps |-> 1, Kernel |-> 1, Host |-> 2,
                 entries |-> 1]),
    Story({e1}, [activations |-> 2, closes |-> 2, Listen |-> 1, Host |-> 2, Kernel |-> 1,
                 replays |-> 1, Effect |-> 1, entries |-> 1]),
    Story({e1}, [activations |-> 2, closes |-> 2, Listen |-> 2, Alarm |-> 1, Host |-> 1,
                 entries |-> 2, deaths |-> 1]) }

-----------------------------------------------------------------------------
MCFirstDoc == [p \in Labels |-> <<"x">>]

(* With the operator, one boot and no refusal; without, both.                *)
Init ==
    /\ part \in [of : {"fs", "keystore"}, operator : BOOLEAN]
                \union [of : {"scope", "seat", "calls"}, operator : {FALSE}]
    /\ ScopeInit /\ SeatInit /\ FsInit /\ KsInit /\ CallsInit
    /\ part.of # "seat" => left["activations"] = 3   \* one story will do at rest
    /\ boots = IF part.operator THEN MaxBoots - 1 ELSE 0
    /\ faults = IF part.operator THEN 0 ELSE MaxFaults

Next ==
    /\ UNCHANGED part
    /\ \/ /\ part.of = "scope"
          /\ ScopeNext
          /\ UNCHANGED <<gvars, rvars, fsvars, ksvars, cvars>>
       \/ /\ part.of = "seat"
          /\ SeatNext
          /\ UNCHANGED <<svars, rvars, fsvars, ksvars, cvars>>
       \/ /\ part.of = "fs"
          /\ FsNext \/ (part.operator /\ FsOperatorNext)
          /\ UNCHANGED <<svars, ksvars, gvars, cvars>>
       \/ /\ part.of = "keystore"
          /\ KsNext \/ (part.operator /\ KsOperatorNext)
          /\ UNCHANGED <<svars, fsvars, gvars, cvars>>
       \/ /\ part.of = "calls"
          /\ CallsNext
          /\ UNCHANGED <<svars, gvars, rvars, fsvars, ksvars>>

Spec == Init /\ [][Next]_<<part, svars, gvars, rvars, fsvars, ksvars, cvars>>

-----------------------------------------------------------------------------
(* SwapIsWhole: a batch is never partly committed, and never takes a seat    *)
(* from under the hands of its closer (BatchIsWhole, DisposalWins).          *)
SwapIsWhole == [][BatchIsWhole' /\ DisposalWins]_gvars

(* EffectsAreNamed: over all boots an id names one effect, and a key acts    *)
(* once (UniqueIds, KeyedOnce); an outbound call's id names one call, and a  *)
(* unit that names an answered one is refused as irreversible unless storage *)
(* refused the row of that call (EffectNamesOneCall, SentIsIrreversible).    *)
EffectsAreNamed ==
    UniqueIds /\ KeyedOnce /\ EffectNamesOneCall /\ SentIsIrreversible

(* TrailRestores: in any state of either provider, up or down, the records   *)
(* on disk replayed newest first give back the world before the first        *)
(* effect (FsTrail, KsTrail).                                                *)
TrailRestores ==
    /\ part.of = "fs" => FsTrail
    /\ part.of = "keystore" => KsTrail
=============================================================================
