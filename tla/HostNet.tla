------------------------------- MODULE HostNet -------------------------------
(****************************************************************************)
(* One socket of the jinn:net provider and its wakes (jinnd-wasm            *)
(* hostnet.rs, hostnet/ops.rs, readiness.rs, wake.rs, socket.rs).  The      *)
(* guest never waits on a socket: a wake task watches its readiness and     *)
(* announces it once, then not again until the guest has accepted or read.  *)
(* Three things have to agree for no connection or byte to be forgotten:    *)
(* the operating system's queue, tokio's readiness flag, which is set by    *)
(* edges and cleared by a would-block, and the arm state in the wake table. *)
(*                                                                          *)
(* A connection's read takes one unit of data; the peer of a listener and   *)
(* of a connection is the environment.                                      *)
(****************************************************************************)
EXTENDS Naturals

CONSTANTS
    MaxArrivals,   \* bound: connections or units of data that arrive
    MaxNetFaults   \* bound: accepts that fail and handlers that fail

ASSUME NetAssumption == MaxArrivals \in Nat /\ MaxNetFaults \in Nat

VARIABLES
    kind,        \* "listener" or "conn"
    queue,       \* what the operating system holds for the socket
    eof,         \* "no", "sent" by the peer, "read" by the guest
    stash,       \* connections the level probe took off the queue
    edge,        \* an event the driver has not turned into the flag
    flag,        \* tokio's readiness
    armed,       \* the wake table's row: "armed", "idle" or "gone"
    kick,        \* the permit of Wake.notify
    task,        \* the wake task: where it is, and whether it is aborted
    owed,        \* a wake's handler has not returned
    acting,      \* the guest consumed and has still to re-arm
    closing,     \* the release: where it is, and whether the handler called it
    readables,   \* the NetReadable rows
    arrived, netFaults

nvars == <<kind, queue, eof, stash, edge, flag, armed, kick, task, owed, acting, closing,
           readables, arrived, netFaults>>

Open == closing.at = "open"
Delivering == task.at = "deliver"

-----------------------------------------------------------------------------
(* The peer and the driver *)

Arrive ==
    /\ arrived < MaxArrivals /\ eof = "no"
    /\ arrived' = arrived + 1
    /\ queue' = queue + 1
    /\ edge' = TRUE
    /\ UNCHANGED <<kind, eof, stash, flag, armed, kick, task, owed, acting, closing,
                   readables, netFaults>>

PeerCloses ==
    /\ kind = "conn" /\ eof = "no"
    /\ eof' = "sent"
    /\ edge' = TRUE
    /\ UNCHANGED <<kind, queue, stash, flag, armed, kick, task, owed, acting, closing,
                   readables, arrived, netFaults>>

DriverTurns ==
    /\ edge
    /\ edge' = FALSE
    /\ flag' = TRUE
    /\ UNCHANGED <<kind, queue, eof, stash, armed, kick, task, owed, acting, closing,
                   readables, arrived, netFaults>>

-----------------------------------------------------------------------------
(* The guest's accept and read, in the handler of a wake or between wakes *)

CanAct == Open /\ ~acting

\* A stashed connection first, else one poll; then the level probe.  A poll of a
\* socket without readiness makes no system call; one that would block clears it.
Accept ==
    /\ kind = "listener" /\ CanAct
    /\ LET polled == IF flag /\ queue > 0 THEN queue - 1 ELSE queue
           rest == IF stash = 1 THEN queue ELSE polled
           found == stash = 1 \/ (flag /\ queue > 0)
           probed == found /\ flag /\ rest > 0
       IN  /\ queue' = IF probed THEN rest - 1 ELSE rest
           /\ stash' = IF probed THEN 1 ELSE 0
           /\ flag' = (flag /\ probed)
    /\ acting' = TRUE
    /\ UNCHANGED <<kind, eof, edge, armed, kick, task, owed, closing, readables, arrived,
                   netFaults>>

\* An accept that fails answers the guest and leaves the row as it is.
AcceptFails ==
    /\ kind = "listener" /\ CanAct
    /\ stash = 0 /\ flag /\ queue > 0
    /\ netFaults < MaxNetFaults
    /\ netFaults' = netFaults + 1
    /\ queue' = queue - 1
    /\ owed' = FALSE
    /\ UNCHANGED <<kind, eof, stash, edge, flag, armed, kick, task, acting, closing,
                   readables, arrived>>

\* Data and a would-block re-arm, the end does not.
ReadReady ==
    /\ kind = "conn" /\ CanAct
    /\ \/ /\ flag /\ queue > 0
          /\ queue' = queue - 1
          /\ flag' = (queue > 1 \/ eof # "no")
          /\ acting' = TRUE
          /\ UNCHANGED <<eof, owed>>
       \/ /\ flag /\ queue = 0 /\ eof # "no"
          /\ eof' = "read"
          /\ owed' = FALSE
          /\ UNCHANGED <<queue, flag, acting>>
       \/ /\ ~flag \/ (queue = 0 /\ eof = "no")
          /\ flag' = FALSE
          /\ acting' = TRUE
          /\ UNCHANGED <<queue, eof, owed>>
    /\ UNCHANGED <<kind, stash, edge, armed, kick, task, closing, readables, arrived, netFaults>>

\* Mutated form: a re-arm without the kick.
RearmQuietly ==
    /\ acting /\ acting' = FALSE /\ owed' = FALSE
    /\ armed' = IF armed = "gone" THEN "gone" ELSE "armed"
    /\ UNCHANGED <<kind, queue, eof, stash, edge, flag, kick, task, closing, readables,
                   arrived, netFaults>>

\* HostNet::rearm, after the consumption; then the handler, if any, returns.
Rearm ==
    /\ acting /\ acting' = FALSE /\ owed' = FALSE
    /\ armed' = IF armed = "gone" THEN "gone" ELSE "armed"
    /\ kick' = (kick \/ armed # "gone")
    /\ UNCHANGED <<kind, queue, eof, stash, edge, flag, task, closing, readables, arrived,
                   netFaults>>

\* The handler fails before it acts: nothing re-arms the row.
HandlerFails ==
    /\ owed /\ ~acting /\ ~(closing.inside /\ closing.at # "closed")
    /\ netFaults < MaxNetFaults
    /\ netFaults' = netFaults + 1
    /\ owed' = FALSE
    /\ UNCHANGED <<kind, queue, eof, stash, edge, flag, armed, kick, task, acting, closing,
                   readables, arrived>>

\* With its socket closed a handler has nothing to do.
HandlerReturns ==
    /\ owed /\ ~acting /\ ~Open
    /\ closing.inside => closing.at = "closed"
    /\ owed' = FALSE
    /\ UNCHANGED <<kind, queue, eof, stash, edge, flag, armed, kick, task, acting, closing,
                   readables, arrived, netFaults>>

-----------------------------------------------------------------------------
(* The wake task *)

At(where) == task' = [task EXCEPT !.at = where]
TaskRest == <<kind, queue, eof, stash, edge, flag, acting, closing, arrived, netFaults>>

LookAtRow ==
    /\ task.at = "look"
    /\ At(CASE armed = "gone" -> "done" [] armed = "idle" -> "sleep" [] OTHER -> "select")
    /\ UNCHANGED <<TaskRest, armed, kick, owed, readables>>

Kicked ==
    /\ task.at \in {"sleep", "select"} /\ kick
    /\ kick' = FALSE
    /\ At("look")
    /\ UNCHANGED <<TaskRest, armed, owed, readables>>

SeesReadable ==
    /\ task.at = "select" /\ flag
    /\ At("claim")
    /\ UNCHANGED <<TaskRest, armed, kick, owed, readables>>

\* Mutated form: the claim asks only whether the row was armed when the task looked.
ClaimBlindly ==
    /\ task.at = "claim"
    /\ readables' = readables + 1
    /\ armed' = IF armed = "gone" THEN "gone" ELSE "idle"
    /\ At("claimed")
    /\ UNCHANGED <<TaskRest, kick, owed>>

\* WakeTable::claim_wake: the row of the ledger is appended under the table's lock.
Claim ==
    /\ task.at = "claim"
    /\ IF armed = "armed"
       THEN armed' = "idle" /\ readables' = readables + 1 /\ At("claimed")
       ELSE At(IF armed = "gone" THEN "done" ELSE "look") /\ UNCHANGED <<armed, readables>>
    /\ UNCHANGED <<TaskRest, kick, owed>>

\* The handler runs on the instance's own task; this one awaits its answer.
Deliver ==
    /\ task.at = "claimed"
    /\ owed' = TRUE
    /\ At("deliver")
    /\ UNCHANGED <<TaskRest, armed, kick, readables>>

Delivered ==
    /\ task.at = "deliver" /\ ~owed
    /\ At("look")
    /\ UNCHANGED <<TaskRest, armed, kick, owed, readables>>

\* An abort lands where the task awaits.
Aborted ==
    /\ task.aborted /\ task.at \in {"sleep", "select", "deliver"}
    /\ At("done")
    /\ UNCHANGED <<TaskRest, armed, kick, owed, readables>>

-----------------------------------------------------------------------------
(* The release: by the guest, from inside a handler or not, or by the kernel *)

\* The provider's row and the wake row go first, and the task is kicked.
TakeRow ==
    /\ Open /\ ~acting
    /\ \E inside \in {FALSE, owed} :
          closing' = [at |-> "taken", inside |-> inside, awaits |-> FALSE]
    /\ armed' = "gone"
    /\ kick' = TRUE
    /\ UNCHANGED <<kind, queue, eof, stash, edge, flag, task, owed, acting, readables,
                   arrived, netFaults>>

\* Mutated form: the kick is trusted to end the task, which is awaited unaborted.
AwaitUnaborted ==
    /\ closing.at = "taken"
    /\ closing' = [closing EXCEPT !.at = "aborted", !.awaits = TRUE]
    /\ UNCHANGED <<kind, queue, eof, stash, edge, flag, armed, kick, task, owed, acting,
                   readables, arrived, netFaults>>

\* A task inside a delivery is not awaited: the handler may be the closer.
Abort ==
    /\ closing.at = "taken"
    /\ task' = [task EXCEPT !.aborted = TRUE]
    /\ closing' = [closing EXCEPT !.at = "aborted", !.awaits = ~Delivering]
    /\ UNCHANGED <<kind, queue, eof, stash, edge, flag, armed, kick, owed, acting, readables,
                   arrived, netFaults>>

Closed ==
    /\ closing.at = "aborted"
    /\ closing.awaits => task.at = "done"
    /\ closing' = [closing EXCEPT !.at = "closed"]
    /\ stash' = 0
    /\ UNCHANGED <<kind, queue, eof, edge, flag, armed, kick, task, owed, acting, readables,
                   arrived, netFaults>>

NetInit ==
    /\ kind \in {"listener", "conn"}
    /\ queue = 0 /\ eof = "no" /\ stash = 0
    /\ edge = FALSE /\ flag = FALSE
    /\ armed = "armed" /\ kick = FALSE
    /\ task = [at |-> "look", aborted |-> FALSE]
    /\ owed = FALSE /\ acting = FALSE
    /\ closing = [at |-> "open", inside |-> FALSE, awaits |-> FALSE]
    /\ readables = 0 /\ arrived = 0 /\ netFaults = 0

TaskSteps ==
    LookAtRow \/ Kicked \/ SeesReadable \/ Claim \/ Deliver \/ Delivered \/ Aborted
NetNext ==
    \/ Arrive \/ PeerCloses \/ DriverTurns
    \/ Accept \/ AcceptFails \/ ReadReady \/ Rearm \/ HandlerFails \/ HandlerReturns
    \/ TaskSteps \/ TakeRow \/ Abort \/ Closed

\* The runtime turns its driver and runs the wake task and a release; a handler
\* that was woken acts once.  Nothing makes a guest poll, close, or fail.
NetFairness ==
    /\ WF_nvars(DriverTurns) /\ WF_nvars(TaskSteps)
    /\ WF_nvars(owed /\ (Accept \/ ReadReady))
    /\ WF_nvars(Rearm) /\ WF_nvars(HandlerReturns)
    /\ WF_nvars((Abort \/ Closed))

-----------------------------------------------------------------------------
(* Properties *)

(* NoWakeAfterTake: once a release has taken the row no wake of the handle is *)
(* appended, wherever its task stands (HostNet::withdraw, "after this returns *)
(* no wake of the handle is ever appended").                                  *)
NoWakeAfterTake == ~Open => readables' = readables

(* PendingIsServed: a guest that acts once on each wake gets every            *)
(* connection, every unit of data and the end, unless the socket is closed or *)
(* a failed accept or handler leaves the row idle; a row re-armed after such  *)
(* a failure is served again.  No interleaving of its polls, the level probe, *)
(* the driver and the wake task loses the announcement (readiness::run,       *)
(* HostNet::rearm).                                                           *)
Unserved == queue + stash > 0 \/ eof = "sent"
PendingIsServed == []<>(~Unserved \/ ~Open \/ (netFaults > 0 /\ armed # "armed"))

(* CloseReturns: a release returns, also when the guest closes the socket     *)
(* from inside its own readiness handler (Wake, "never a deadlock").          *)
CloseReturns == []<>(~Open => closing.at = "closed")
=============================================================================
