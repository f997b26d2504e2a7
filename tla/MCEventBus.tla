----------------------------- MODULE MCEventBus -----------------------------
(* Two registrations, two dispatches and all five modes of one event type. *)
EXTENDS EventBus, TLC
=============================================================================
