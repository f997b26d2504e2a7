------------------------------- MODULE MCTasks -------------------------------
(* The components that run tasks of their own, one to a behaviour: they      *)
(* share no state, so no interleaving is lost by never running two side by   *)
(* side.  The others rest in an initial state and are scheduled for nothing. *)
EXTENDS ForwardEffect, HostProcess, HostNet, Alarms, Lifecycle, ProfileWatch,
    ActiveClock

CONSTANTS a, r

VARIABLE part   \* the component of this behaviour

MCPlan(edition, writes, feeds, kills, h, fault) ==
    [edition |-> edition, writes |-> writes, feeds |-> feeds, kills |-> kills,
     heir |-> h, fault |-> fault]
MCPlans ==
    {MCPlan("run", 3, 0, 0, FALSE, f) : f \in {"none", "pipe", "wait", "cancel"}}
    \union {MCPlan("run", 2, 0, 0, TRUE, "none")}
    \union {MCPlan("spawn", 3, 0, 0, FALSE, "none"), MCPlan("spawn", 1, 0, 0, FALSE, "pipe"),
            MCPlan("spawn", 1, 0, 1, TRUE, "none"), MCPlan("spawn", 0, 0, 1, FALSE, "wait"),
            MCPlan("spawn", 0, 2, 0, FALSE, "none")}

MCText(config, extra, realm, raw) ==
    [doc |-> [entries |-> [i \in {a} |-> [config |-> config, extra |-> extra,
                                          realm |-> realm]],
              raw |-> raw],
     hand |-> "operator"]
\* One text is, to the byte, what the daemon renders of the first document.
MCTexts == {MCText(1, FALSE, "good", {}), MCText(2, TRUE, "good", {}),
            MCText(2, FALSE, "good", {r}), MCText(1, FALSE, "bad", {}), Junk, Absent}
           \union {Render(MCText(1, FALSE, "good", {}).doc)}

Rest ==
    /\ part # "forward" => shape = "plain"
    /\ part # "process" => plan = MCPlan("spawn", 0, 2, 0, FALSE, "none")
    /\ part # "net" => kind = "conn"
    /\ part # "lifecycle" => mounted = [l \in Listeners |-> "no"]
    /\ part # "profile" => profile = Absent

Init ==
    /\ part \in {"forward", "process", "net", "alarms", "lifecycle", "profile", "clock"}
    /\ ForwardInit /\ ProcessInit /\ NetInit /\ AlarmsInit /\ LifecycleInit
    /\ WatchInit /\ ClockInit
    /\ Rest

Next ==
    /\ UNCHANGED part
    /\ \/ /\ part = "forward" /\ ForwardNext
          /\ UNCHANGED <<pvars, nvars, avars, lvars, wvars, cvars>>
       \/ /\ part = "process" /\ ProcessNext
          /\ UNCHANGED <<fvars, nvars, avars, lvars, wvars, cvars>>
       \/ /\ part = "net" /\ NetNext
          /\ UNCHANGED <<fvars, pvars, avars, lvars, wvars, cvars>>
       \/ /\ part = "alarms" /\ AlarmsNext
          /\ UNCHANGED <<fvars, pvars, nvars, lvars, wvars, cvars>>
       \/ /\ part = "lifecycle" /\ LifecycleNext
          /\ UNCHANGED <<fvars, pvars, nvars, avars, wvars, cvars>>
       \/ /\ part = "profile" /\ WatchNext
          /\ UNCHANGED <<fvars, pvars, nvars, avars, lvars, cvars>>
       \/ /\ part = "clock" /\ ClockNext
          /\ UNCHANGED <<fvars, pvars, nvars, avars, lvars, wvars>>

vars == <<part, fvars, pvars, nvars, avars, lvars, wvars, cvars>>

(* The fairness of each component, for the behaviours it is in             *)
(* (ForwardFairness, ProcessFairness, NetFairness, AlarmsFairness,          *)
(* LifecycleFairness, WatchFairness); nothing is asked of the clock.        *)
Fairness ==
    /\ WF_fvars(part = "forward" /\ DriverStep)
    /\ \A d \in Caller : WF_fvars(part = "forward" /\ CallerStep(d))
    /\ WF_pvars(part = "process" /\ Streams) /\ WF_pvars(part = "process" /\ Children)
    /\ WF_pvars(part = "process" /\ OneShot) /\ WF_pvars(part = "process" /\ Timers)
    /\ WF_pvars(part = "process" /\ ChildKilled)
    /\ WF_nvars(part = "net" /\ DriverTurns) /\ WF_nvars(part = "net" /\ TaskSteps)
    /\ WF_nvars(part = "net" /\ owed /\ (Accept \/ ReadReady))
    /\ WF_nvars(part = "net" /\ Rearm) /\ WF_nvars(part = "net" /\ HandlerReturns)
    /\ WF_nvars(part = "net" /\ (Abort \/ Closed))
    /\ \A i \in AlarmIds :
          /\ WF_avars(part = "alarms" /\ SpawnTimer(i)) /\ WF_avars(part = "alarms" /\ Install(i))
          /\ WF_avars(part = "alarms" /\ Elapses(i)) /\ WF_avars(part = "alarms" /\ ClaimWake(i))
          /\ WF_avars(part = "alarms" /\ Finish(i)) /\ WF_avars(part = "alarms" /\ AbortLands(i))
    /\ WF_lvars(part = "lifecycle" /\ WriterServes)
    /\ WF_lvars(part = "lifecycle" /\ PublisherSteps)
    /\ \A s \in Syncers : WF_lvars(part = "lifecycle" /\ Offer(s))
    /\ \A l \in Listeners : WF_lvars(part = "lifecycle" /\ LaneDelivers(l))
    /\ WF_wvars(part = "profile" /\ DaemonSteps)

Spec == Init /\ [][Next]_vars /\ Fairness

-----------------------------------------------------------------------------
(* InstalledWhole: a forward effect is settled whole or rolled back whole,  *)
(* and what is installed has one holder (AllOrNone, OneHolder).             *)
InstalledWhole == AllOrNone /\ OneHolder

(* StreamsAreWhole: a reader of a child's output holds a prefix, and at the *)
(* end all of it, and neither pump nor feeder sleeps on work it could do    *)
(* (OutputIsWhole, NobodySleepsOnWork).                                     *)
StreamsAreWhole == OutputIsWhole /\ NobodySleepsOnWork

(* PublishedOnRecord: no listener hears a transition before its row is      *)
(* durable or refused, and every one that is lost is counted in a row,      *)
(* which storage keeps or refuses (DeliveryFollowsRow, LossIsCounted).      *)
PublishedOnRecord == DeliveryFollowsRow /\ LossIsCounted

(* NoWakeAfterRelease: after a release has taken a row, of a socket or of   *)
(* an alarm, nothing wakes the guest for it (NoWakeAfterTake,               *)
(* NoWakeAfterCancel).                                                      *)
NoWakeAfterRelease == [][NoWakeAfterTake /\ NoWakeAfterCancel]_<<nvars, avars>>

(* WorkSettles: what arrives at a socket is served, what is offered to the  *)
(* publisher is handed on, and once nobody edits the profile the daemon     *)
(* stops writing it (PendingIsServed, NothingWaitsForEver,                  *)
(* WriteBackSettles).                                                       *)
WorkSettles ==
    /\ PendingIsServed /\ NothingWaitsForEver
    /\ <>[](part = "profile" => Quiet)

(* ReleasesReturn: the dispose of a forward effect and the release of a     *)
(* socket return, and the task of a cancelled alarm ends (DisposeReturns,   *)
(* CloseReturns, CancelledEnds).                                            *)
ReleasesReturn == DisposeReturns /\ CloseReturns /\ CancelledEnds
=============================================================================
