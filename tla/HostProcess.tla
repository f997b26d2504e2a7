----------------------------- MODULE HostProcess -----------------------------
(****************************************************************************)
(* The jinn:process host provider (jinnd-wasm hostprocess.rs and            *)
(* hostprocess/): one child and the tasks around it, in two editions.       *)
(*                                                                          *)
(* A spawned child is a kernel registration: a supervisor task is its only  *)
(* reaper, a pump moves its stdout into a bounded ring the guest reads      *)
(* without waiting, a feeder moves the guest's stdin ring into the pipe,    *)
(* and a release kills it, waits for the reap, and returns.  The one-shot   *)
(* run owns its child: it drains the same ring itself and stops at the end  *)
(* of the output, at a cap, or at a deadline.                               *)
(*                                                                          *)
(* A byte is the number of its place in the stream, so what a reader holds  *)
(* shows what it lost.  stderr is a second stdout and is left out.  An      *)
(* operation on a ring and the wake it sends are one step: a wake sent      *)
(* later is only a wake too many.                                           *)
(****************************************************************************)
EXTENDS Integers, FiniteSets, Sequences, SequencesExt

CONSTANTS
    Plans,       \* the lives of a child: see PlanType
    RingCap,     \* STREAM_CAP
    Chunk,       \* what one read of a pipe or of the ring moves at most
    PipeCap,     \* the pipe's own buffer
    OutputCap    \* RUN_OUTPUT_CAP

PlanType == [edition : {"run", "spawn"}, writes : Nat,
             feeds : Nat,        \* 0: the guest leaves stdin alone
             kills : Nat,        \* bound: the rows of signals the guest sends
             heir : BOOLEAN,     \* it leaves a descendant that holds stdout
             fault : {"none", "pipe", "wait", "cancel"}]

ASSUME ProcessAssumption ==
    /\ Plans \subseteq PlanType
    /\ {RingCap, Chunk, PipeCap, OutputCap} \subseteq Nat \ {0}

VARIABLES
    plan,      \* this child's life
    child,     \* the process: its life, what it wrote and read, a fatal signal
    heir,      \* a descendant holds the write end of stdout
    pipe,      \* the bytes in the stdout pipe
    ring,      \* stream |-> the buffered bytes and whether it is closed
    space,     \* stream |-> the permit of Stream::space
    ready,     \* the permit of stdout's Stream::ready
    pump,      \* the stdout pump: where it is, the chunk it holds, its verdict
    feed,      \* the stdin feeder
    held,      \* the provider holds the row
    sup,       \* the supervisor task
    exit,      \* the exit watch has its value
    control,   \* signals sent and not delivered
    guest,     \* the guest: what it read, whether it saw the end, a row it owes
    rel,       \* where the release is
    run,       \* where the one-shot is
    story      \* the handle's ledger rows, oldest first

pvars == <<plan, child, heir, pipe, ring, space, ready, pump, feed, held, sup,
           exit, control, guest, rel, run, story>>

FirstN(s, n) == SubSeq(s, 1, IF n < Len(s) THEN n ELSE Len(s))
AfterN(s, n) == SubSeq(s, n + 1, Len(s))
Room(s) == IF ring[s].closed THEN 0 ELSE RingCap - Len(ring[s].data)
Append1(row) == story' = Append(story, row)
Rows(row) == Cardinality({i \in DOMAIN story : story[i] = row})
NewStream == [data |-> <<>>, closed |-> FALSE]

ProcessInit ==
    /\ plan \in Plans
    /\ child = [life |-> "unborn", out |-> 0, got |-> <<>>, eof |-> FALSE, kill |-> FALSE]
    /\ heir = FALSE /\ pipe = <<>>
    /\ ring = [s \in {"in", "out"} |-> NewStream]
    /\ space = [s \in {"in", "out"} |-> FALSE] /\ ready = FALSE
    /\ pump = [at |-> "off", chunk |-> <<>>, torn |-> FALSE]
    /\ feed = [at |-> "off", chunk |-> <<>>]
    /\ held = FALSE /\ sup = "off" /\ exit = FALSE /\ control = <<>>
    /\ guest = [read |-> <<>>, wrote |-> 0, eof |-> FALSE, owes |-> FALSE]
    /\ rel = "no"
    /\ run = [at |-> "idle", exit |-> "none", output |-> "none", drain |-> "take",
              bytes |-> <<>>, stop |-> "none", answer |-> "none", detached |-> FALSE]
    /\ story = <<>>

------------------------------------------------------------------------------
(* The child and what it leaves behind (external). *)

Writers == child.life = "alive" \/ heir
ReadEnd == pump.at \notin {"done", "cut"}

ChildWrites ==
    /\ Writers /\ ReadEnd /\ child.out < plan.writes /\ Len(pipe) < PipeCap
    /\ child' = [child EXCEPT !.out = @ + 1]
    /\ pipe' = Append(pipe, child.out + 1)
    /\ UNCHANGED <<plan, heir, ring, space, ready, pump, feed, held, sup, exit,
                   control, guest, rel, run, story>>

ChildEnds ==
    /\ child.life = "alive"
    /\ child' = [child EXCEPT !.life = "zombie"]
    /\ heir' = plan.heir
    /\ UNCHANGED <<plan, pipe, ring, space, ready, pump, feed, held, sup, exit,
                   control, guest, rel, run, story>>

ChildExits == child.life = "alive" /\ ChildEnds
ChildKilled == child.kill /\ ChildEnds

HeirEnds ==
    /\ heir /\ heir' = FALSE
    /\ UNCHANGED <<plan, child, pipe, ring, space, ready, pump, feed, held, sup,
                   exit, control, guest, rel, run, story>>

------------------------------------------------------------------------------
(* The pump: pipe to ring. *)

(* One read of the pipe; its end, or its failure, ends the loop.            *)
PumpRead ==
    /\ pump.at = "read"
    /\ \/ /\ pipe # <<>>
          /\ pump' = [pump EXCEPT !.at = "offer", !.chunk = FirstN(pipe, Chunk)]
          /\ pipe' = AfterN(pipe, Chunk)
       \/ /\ pipe = <<>> /\ ~Writers
          /\ pump' = [pump EXCEPT !.at = "close"] /\ UNCHANGED pipe
       \/ /\ plan.fault = "pipe"
          /\ pump' = [pump EXCEPT !.at = "close", !.torn = TRUE] /\ UNCHANGED pipe
    /\ UNCHANGED <<plan, child, heir, ring, space, ready, feed, held, sup, exit,
                   control, guest, rel, run, story>>

(* Ring::offer takes the prefix there is room for.                          *)
PumpOffer ==
    /\ pump.at = "offer"
    /\ LET n == Room("out") IN
       /\ ring' = [ring EXCEPT !["out"].data = @ \o FirstN(pump.chunk, n)]
       /\ pump' = [pump EXCEPT !.chunk = AfterN(@, n),
                               !.at = IF Len(pump.chunk) <= n THEN "read" ELSE "check"]
    /\ ready' = TRUE
    /\ UNCHANGED <<plan, child, heir, pipe, space, feed, held, sup, exit, control,
                   guest, rel, run, story>>

(* A full ring stalls the pump; a closed one ends it.                       *)
PumpCheck ==
    /\ pump.at = "check"
    /\ pump' = [pump EXCEPT !.at = IF ring["out"].closed THEN "done" ELSE "wait"]
    /\ UNCHANGED <<plan, child, heir, pipe, ring, space, ready, feed, held, sup,
                   exit, control, guest, rel, run, story>>

PumpWakes ==
    /\ pump.at = "wait" /\ space["out"]
    /\ space' = [space EXCEPT !["out"] = FALSE]
    /\ pump' = [pump EXCEPT !.at = "offer"]
    /\ UNCHANGED <<plan, child, heir, pipe, ring, ready, feed, held, sup, exit,
                   control, guest, rel, run, story>>

PumpClose ==
    /\ pump.at = "close"
    /\ pump' = [pump EXCEPT !.at = "done"]
    /\ ring' = [ring EXCEPT !["out"].closed = TRUE]
    /\ ready' = TRUE
    /\ UNCHANGED <<plan, child, heir, pipe, space, feed, held, sup, exit, control,
                   guest, rel, run, story>>

(* Stream::take: the bytes, and a permit for the pump when there were any.  *)
TakeWakeless(max) ==
    /\ ring' = [ring EXCEPT !["out"].data = AfterN(@, max)]
    /\ space' = [space EXCEPT !["out"] = @ \/ pump.at = "wait"]
Take(max) ==
    /\ ring' = [ring EXCEPT !["out"].data = AfterN(@, max)]
    /\ space' = [space EXCEPT !["out"] = @ \/ ring["out"].data # <<>>]
TakeEof(max) == ring["out"].closed /\ Len(ring["out"].data) <= max

------------------------------------------------------------------------------
(* The feeder: ring to pipe. *)

FeedTake ==
    /\ feed.at = "take"
    /\ LET data == ring["in"].data IN
       /\ ring' = [ring EXCEPT !["in"].data = AfterN(@, Chunk)]
       /\ feed' = [at |-> IF data # <<>> THEN "write"
                          ELSE IF ring["in"].closed THEN "shutdown" ELSE "idle",
                   chunk |-> FirstN(data, Chunk)]
    /\ UNCHANGED <<plan, child, heir, pipe, space, ready, pump, held, sup, exit,
                   control, guest, rel, run, story>>

(* A child that is gone breaks the pipe: the ring closes and the task ends. *)
FeedWrite ==
    /\ feed.at = "write"
    /\ IF child.life = "alive"
       THEN /\ child' = [child EXCEPT !.got = @ \o feed.chunk]
            /\ feed' = [at |-> "take", chunk |-> <<>>] /\ UNCHANGED ring
       ELSE /\ feed' = [at |-> "done", chunk |-> <<>>]
            /\ ring' = [ring EXCEPT !["in"].closed = TRUE] /\ UNCHANGED child
    /\ UNCHANGED <<plan, heir, pipe, space, ready, pump, held, sup, exit, control,
                   guest, rel, run, story>>

FeedWakes ==
    /\ feed.at = "idle" /\ space["in"]
    /\ space' = [space EXCEPT !["in"] = FALSE]
    /\ feed' = [feed EXCEPT !.at = "take"]
    /\ UNCHANGED <<plan, child, heir, pipe, ring, ready, pump, held, sup, exit,
                   control, guest, rel, run, story>>

FeedShutdown ==
    /\ feed.at = "shutdown"
    /\ feed' = [feed EXCEPT !.at = "done"]
    /\ child' = [child EXCEPT !.eof = TRUE]
    /\ UNCHANGED <<plan, heir, pipe, ring, space, ready, pump, held, sup, exit,
                   control, guest, rel, run, story>>

------------------------------------------------------------------------------
(* A spawned child: the supervisor, the guest's calls, the release. *)

(* The row and its tasks are there before ProcessSpawned is appended, and   *)
(* another thread may run them first.                                       *)
Spawn ==
    /\ plan.edition = "spawn" /\ child.life = "unborn"
    /\ child' = [child EXCEPT !.life = "alive"]
    /\ held' = TRUE /\ sup' = "select"
    /\ pump' = [pump EXCEPT !.at = "read"] /\ feed' = [feed EXCEPT !.at = "take"]
    /\ run' = [run EXCEPT !.at = "spawning"]
    /\ UNCHANGED <<plan, heir, pipe, ring, space, ready, exit, control, guest, rel, story>>
SpawnRow ==
    /\ run.at = "spawning"
    /\ run' = [run EXCEPT !.at = "spawned"] /\ Append1("Spawned")
    /\ UNCHANGED <<plan, child, heir, pipe, ring, space, ready, pump, feed, held, sup,
                   exit, control, guest, rel>>

(* supervise: reap the child, or deliver a signal to one not yet reaped.    *)
Supervise ==
    /\ sup = "select"
    /\ \/ /\ child.life = "zombie"
          /\ child' = [child EXCEPT !.life = "reaped"]
          /\ sup' = "row" /\ UNCHANGED control
       \/ /\ control # <<>>
          /\ child' = [child EXCEPT !.kill = @ \/ Head(control) = "kill"]
          /\ control' = Tail(control) /\ UNCHANGED sup
    /\ UNCHANGED <<plan, heir, pipe, ring, space, ready, pump, feed, held, exit,
                   guest, rel, run, story>>

(* child.wait() itself may fail, and nothing is reaped: the supervisor takes *)
(* it for an exit of code -1, the row "Unknown".                             *)
WaitFails == plan.fault = "wait" /\ child.life \in {"alive", "zombie"}
SuperviseFails ==
    /\ sup = "select" /\ WaitFails /\ sup' = "lost"
    /\ UNCHANGED <<plan, child, heir, pipe, ring, space, ready, pump, feed, held, exit,
                   control, guest, rel, run, story>>
ExitRow ==
    /\ sup \in {"row", "lost"} /\ sup' = "send"
    /\ Append1(IF sup = "row" THEN "Exited" ELSE "Unknown")
    /\ UNCHANGED <<plan, child, heir, pipe, ring, space, ready, pump, feed, held,
                   exit, control, guest, rel, run>>
(* The task ends, and a child it still holds is killed by its drop.          *)
ExitSend ==
    /\ sup = "send" /\ sup' = "done" /\ exit' = TRUE
    /\ child' = [child EXCEPT !.kill = @ \/ child.life # "reaped"]
    /\ UNCHANGED <<plan, heir, pipe, ring, space, ready, pump, feed, held,
                   control, guest, rel, run, story>>

Serves == held /\ run.at = "spawned" /\ ~guest.owes

WriteStdin ==
    /\ Serves /\ ~ring["in"].closed /\ guest.wrote < plan.feeds
    /\ LET n == Len(FirstN(<<1>>, Room("in"))) IN
       /\ ring' = [ring EXCEPT !["in"].data = @ \o FirstN(<<guest.wrote + 1>>, n)]
       /\ guest' = [guest EXCEPT !.wrote = @ + n]
    /\ space' = [space EXCEPT !["in"] = TRUE]
    /\ UNCHANGED <<plan, child, heir, pipe, ready, pump, feed, held, sup, exit,
                   control, rel, run, story>>

CloseStdin ==
    /\ Serves /\ plan.feeds > 0
    /\ ring' = [ring EXCEPT !["in"].closed = TRUE]
    /\ space' = [space EXCEPT !["in"] = TRUE]
    /\ UNCHANGED <<plan, child, heir, pipe, ready, pump, feed, held, sup, exit,
                   control, guest, rel, run, story>>

(* The end of the stream is answered only by a read that found no byte.     *)
Read ==
    /\ Serves /\ Take(Chunk)
    /\ guest' = [guest EXCEPT !.read = @ \o FirstN(ring["out"].data, Chunk),
                              !.eof = @ \/ (ring["out"].data = <<>> /\ TakeEof(Chunk))]
    /\ UNCHANGED <<plan, child, heir, pipe, ready, pump, feed, held, sup, exit,
                   control, rel, run, story>>

(* Row::signal, then the row when it was sent: the exit may land between.   *)
Kill ==
    /\ Serves /\ ~exit /\ Rows("Killed") < plan.kills
    /\ \E signal \in {"terminate", "kill"} : control' = Append(control, signal)
    /\ guest' = [guest EXCEPT !.owes = TRUE]
    /\ UNCHANGED <<plan, child, heir, pipe, ring, space, ready, pump, feed, held,
                   sup, exit, rel, run, story>>
KillRow ==
    /\ guest.owes
    /\ guest' = [guest EXCEPT !.owes = FALSE] /\ Append1("Killed")
    /\ UNCHANGED <<plan, child, heir, pipe, ring, space, ready, pump, feed, held,
                   sup, exit, control, rel, run>>

(* HostProcess::withdraw and Row::release.                                  *)
Withdraw ==
    /\ held /\ run.at = "spawned" /\ held' = FALSE
    /\ rel' = "close"
    /\ story' = IF exit THEN story ELSE Append(story, "Killed")
    /\ UNCHANGED <<plan, child, heir, pipe, ring, space, ready, pump, feed, sup,
                   exit, control, guest, run>>
ReleaseStreams ==
    /\ rel = "close" /\ rel' = "signal"
    /\ ring' = [s \in {"in", "out"} |-> [ring[s] EXCEPT !.closed = TRUE]]
    /\ space' = [s \in {"in", "out"} |-> TRUE] /\ ready' = TRUE
    /\ UNCHANGED <<plan, child, heir, pipe, pump, feed, held, sup, exit, control,
                   guest, run, story>>
ReleaseSignal ==
    /\ rel = "signal"
    /\ rel' = IF exit THEN "ok" ELSE "reap"
    /\ control' = IF exit THEN control ELSE Append(control, "kill")
    /\ UNCHANGED <<plan, child, heir, pipe, ring, space, ready, pump, feed, held,
                   sup, exit, guest, run, story>>
ReleaseEnds ==
    /\ rel = "reap"
    /\ rel' \in (IF exit THEN {"ok"} ELSE {"late"})   \* REAP_CAP
    /\ UNCHANGED <<plan, child, heir, pipe, ring, space, ready, pump, feed, held,
                   sup, exit, control, guest, run, story>>

------------------------------------------------------------------------------
(* The one-shot. *)

RunStart ==
    /\ plan.edition = "run" /\ child.life = "unborn"
    /\ child' = [child EXCEPT !.life = "alive"]
    /\ pump' = [pump EXCEPT !.at = "read"]
    /\ run' = [run EXCEPT !.at = "loop"] /\ Append1("Spawned")
    /\ UNCHANGED <<plan, heir, pipe, ring, space, ready, feed, held, sup, exit,
                   control, guest, rel>>

(* What the loop does after each arm of its select.                         *)
Decided(r) ==
    CASE r.exit = "failed" -> [r EXCEPT !.at = "cut", !.stop = "failed"]
      [] r.exit # "failed" /\ r.output = "over" -> [r EXCEPT !.at = "cut", !.stop = "overflow"]
      [] r.exit = "ok" /\ r.output = "ok" -> [r EXCEPT !.at = "finish", !.stop = "done"]
      [] OTHER -> r

RunExit ==
    /\ run.at = "loop" /\ run.exit = "none" /\ child.life = "zombie"
    /\ child' = [child EXCEPT !.life = "reaped"] /\ Append1("Exited")
    /\ run' = Decided([run EXCEPT !.exit = "ok"])
    /\ UNCHANGED <<plan, heir, pipe, ring, space, ready, pump, feed, held, sup, exit,
                   control, guest, rel>>

(* Here a failed wait stops the run, and no exit is appended.                *)
RunExitFails ==
    /\ run.at = "loop" /\ run.exit = "none" /\ WaitFails
    /\ run' = Decided([run EXCEPT !.exit = "failed"])
    /\ UNCHANGED <<plan, child, heir, pipe, ring, space, ready, pump, feed, held, sup,
                   exit, control, guest, rel, story>>

(* Collector::drain: take, and without an end wait for the ready permit.    *)
RunDrain ==
    /\ run.at = "loop" /\ run.output = "none" /\ run.drain = "take"
    /\ Take(Chunk)
    /\ LET bytes == run.bytes \o FirstN(ring["out"].data, Chunk) IN
       run' = Decided([run EXCEPT !.bytes = bytes,
                !.output = IF Len(bytes) > OutputCap THEN "over"
                           ELSE IF TakeEof(Chunk) THEN "ok" ELSE "none",
                !.drain = IF Len(bytes) > OutputCap \/ TakeEof(Chunk) THEN "take" ELSE "ready"])
    /\ UNCHANGED <<plan, child, heir, pipe, ready, pump, feed, held, sup, exit,
                   control, guest, rel, story>>
RunReady ==
    /\ run.at = "loop" /\ run.drain = "ready" /\ ready
    /\ ready' = FALSE /\ run' = [run EXCEPT !.drain = "take"]
    /\ UNCHANGED <<plan, child, heir, pipe, ring, space, pump, feed, held, sup, exit,
                   control, guest, rel, story>>
RunBound ==
    /\ run.at = "loop" /\ run' = [run EXCEPT !.at = "cut", !.stop = "bound"]
    /\ UNCHANGED <<plan, child, heir, pipe, ring, space, ready, pump, feed, held, sup,
                   exit, control, guest, rel, story>>

(* Collector::finish: the pump's own verdict.                               *)
RunFinishBlind ==
    /\ run.at = "finish"
    /\ run' = [run EXCEPT !.at = "done", !.answer = "data"]
    /\ UNCHANGED <<plan, child, heir, pipe, ring, space, ready, pump, feed, held, sup,
                   exit, control, guest, rel, story>>
RunFinish ==
    /\ run.at = "finish" /\ pump.at = "done"
    /\ run' = [run EXCEPT !.at = "done", !.answer = IF pump.torn THEN "failed" ELSE "data"]
    /\ UNCHANGED <<plan, child, heir, pipe, ring, space, ready, pump, feed, held, sup,
                   exit, control, guest, rel, story>>

(* Collector::cut: the pump is aborted and awaited, the read end closes.    *)
RunCut ==
    /\ run.at = "cut"
    /\ pump' = [pump EXCEPT !.at = IF @ = "done" THEN @ ELSE "cut", !.chunk = <<>>]
    /\ pipe' = <<>>
    /\ ring' = [ring EXCEPT !["out"].closed = TRUE] /\ ready' = TRUE
    /\ run' = [run EXCEPT !.at = "settle"]
    /\ UNCHANGED <<plan, child, heir, space, feed, held, sup, exit, control, guest, rel, story>>

(* The stop decides the answer; a child that has not exited is killed,      *)
(* except where its wait failed: there it is dropped, and dies of that.     *)
RunSettle ==
    /\ run.at = "settle"
    /\ LET killing == run.exit = "none" /\ run.stop # "failed" IN
       run' = [run EXCEPT !.at = IF killing THEN "kill" ELSE "done",
                          !.answer = IF run.stop = "overflow" THEN "truncated" ELSE "failed"]
    /\ story' = IF run.stop = "overflow" THEN Append(story, "Truncated") ELSE story
    /\ child' = IF run.stop = "failed" THEN [child EXCEPT !.kill = TRUE] ELSE child
    /\ UNCHANGED <<plan, heir, pipe, ring, space, ready, pump, feed, held, sup, exit,
                   control, guest, rel>>

RunKill ==
    /\ run.at = "kill"
    /\ child' = [child EXCEPT !.kill = TRUE] /\ Append1("Killed")
    /\ run' = [run EXCEPT !.at = "reap"]
    /\ UNCHANGED <<plan, heir, pipe, ring, space, ready, pump, feed, held, sup, exit,
                   control, guest, rel>>

(* The wait for a killed child: it reaps, or it fails and is an exit of -1. *)
Reaped ==
    \/ /\ child.life = "zombie"
       /\ child' = [child EXCEPT !.life = "reaped"] /\ Append1("Exited")
    \/ WaitFails /\ Append1("Unknown") /\ UNCHANGED child

(* reap_on_record: within the bound, or by a task that outlives the call.   *)
RunReap ==
    /\ run.at = "reap"
    /\ \/ /\ Reaped
          /\ run' = [run EXCEPT !.at = "done"]
       \/ /\ Append1("Pending") /\ UNCHANGED child
          /\ run' = [run EXCEPT !.at = "done", !.detached = TRUE]
    /\ UNCHANGED <<plan, heir, pipe, ring, space, ready, pump, feed, held, sup, exit,
                   control, guest, rel>>
DetachedForgotten ==
    /\ run.detached /\ child.life = "zombie"
    /\ child' = [child EXCEPT !.life = "reaped"]
    /\ run' = [run EXCEPT !.detached = FALSE]
    /\ UNCHANGED <<plan, heir, pipe, ring, space, ready, pump, feed, held, sup, exit,
                   control, guest, rel, story>>
DetachedReap ==
    /\ run.detached /\ Reaped
    /\ run' = [run EXCEPT !.detached = FALSE]
    /\ UNCHANGED <<plan, heir, pipe, ring, space, ready, pump, feed, held, sup, exit,
                   control, guest, rel>>

(* The guest's own deadline drops the call at one of its awaits: the child  *)
(* is killed by its drop and nothing is appended.  The pump lives on.       *)
RunCancel ==
    /\ plan.fault = "cancel" /\ run.at \in {"loop", "finish", "cut", "reap"}
    /\ run' = [run EXCEPT !.at = "gone"]
    /\ child' = [child EXCEPT !.kill = TRUE]
    /\ UNCHANGED <<plan, heir, pipe, ring, space, ready, pump, feed, held, sup, exit,
                   control, guest, rel, story>>

------------------------------------------------------------------------------
Outside == ChildWrites \/ ChildExits \/ HeirEnds \/ SuperviseFails \/ RunExitFails
Guest == Spawn \/ WriteStdin \/ CloseStdin \/ Read \/ Kill \/ Withdraw \/ RunStart \/ RunCancel
Timers == ReleaseEnds \/ RunBound \/ RunReap
Streams == PumpRead \/ PumpOffer \/ PumpCheck \/ PumpWakes \/ PumpClose
           \/ FeedTake \/ FeedWrite \/ FeedWakes \/ FeedShutdown
Children == SpawnRow \/ Supervise \/ ExitRow \/ ExitSend \/ KillRow
            \/ ReleaseStreams \/ ReleaseSignal
OneShot == RunExit \/ RunDrain \/ RunReady \/ RunFinish \/ RunCut \/ RunSettle \/ RunKill \/ DetachedReap

ProcessNext ==
    Outside \/ Guest \/ Timers \/ Streams \/ Children \/ OneShot \/ ChildKilled

(* The executor polls every ready task, a timer fires, and a killed process *)
(* dies.  Nobody makes a child exit, a guest call, a descendant let go or a *)
(* wait fail.                                                               *)
ProcessFairness ==
    /\ WF_pvars(Streams) /\ WF_pvars(Children) /\ WF_pvars(OneShot)
    /\ WF_pvars(Timers) /\ WF_pvars(ChildKilled)

------------------------------------------------------------------------------
Bytes(n) == [i \in 1..n |-> i]

(* OutputIsWhole: a reader holds a prefix of what was written, and an end   *)
(* it is told of is the end: a guest that reads EOF of a pipe that did not  *)
(* tear, and a run that answers data, hold every byte of every writer; a    *)
(* child that reads EOF holds every byte the guest had accepted (ring.rs    *)
(* take, stream.rs pump and feed, Collector::finish).                       *)
OutputIsWhole ==
    /\ IsPrefix(guest.read, Bytes(child.out)) /\ IsPrefix(run.bytes, Bytes(child.out))
    /\ guest.eof /\ ~pump.torn => guest.read = Bytes(child.out) /\ ~Writers
    /\ run.answer = "data" => run.bytes = Bytes(child.out) /\ ~Writers
    /\ IsPrefix(child.got, Bytes(guest.wrote))
    /\ child.eof => child.got = Bytes(guest.wrote)

(* NobodySleepsOnWork: a pump waits for room only while the ring is full,   *)
(* a feeder for bytes only while it is empty, and neither on a closed one,  *)
(* unless the permit that wakes it is already there (stream.rs pump and     *)
(* feed).                                                                   *)
NobodySleepsOnWork ==
    /\ pump.at = "wait" /\ (ring["out"].closed \/ Room("out") > 0) => space["out"]
    /\ feed.at = "idle" /\ (ring["in"].closed \/ ring["in"].data # <<>>) => space["in"]

(* CollectorIsWoken: the collector of a run waits for bytes only while the  *)
(* ring is empty and open, or with its permit there (stream.rs readable: "a *)
(* permit is kept, so nothing is lost between takes").  It does not hold: a *)
(* take moves one chunk, the ring holds several, and the offers of all of   *)
(* them left one permit.                                                    *)
CollectorIsWoken ==
    run.at = "loop" /\ run.drain = "ready"
        /\ (ring["out"].closed \/ ring["out"].data # <<>>) => ready

Exits == Rows("Exited") + Rows("Unknown")
Begun == rel # "no" \/ child.life \in {"zombie", "reaped"}
         \/ (plan.edition = "run" /\ child.life # "unborn")
Forgotten == run.at = "gone" \/ run.stop = "failed"

(* One exit is appended, of known code only when the child was reaped, and a *)
(* release that returns clean has the exit on the record.                   *)
ExitOnRecord ==
    /\ Exits <= 1
    /\ Rows("Exited") = 1 => child.life = "reaped"
    /\ rel = "ok" => Exits = 1

(* EndsOnRecord: an exit is appended once; a release that returns clean has *)
(* it on the record, and has reaped its child unless the wait failed and    *)
(* the exit is one of unknown code; a one-shot that has begun, a child that *)
(* has ended and a child being released all come to theirs, except that a   *)
(* call dropped on its way and a run whose own wait failed leave none       *)
(* (child.rs supervise and release, ops.rs run, reap.rs).                   *)
EndsOnRecord ==
    /\ []ExitOnRecord
    /\ []<>(Begun /\ ~Forgotten => Exits = 1)
==============================================================================
