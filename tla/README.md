# jinnd in TLA+

jinnd is a kernel daemon written in Rust. It runs plugins as *fibers*, records
everything a plugin did to the world as *effects* with inverses, connects
plugins through a *service registry* and an *event bus*, and keeps a durable
*ledger* from which effects can be reverted. `src/SOURCE-OF-TRUTH.md` states
four invariants (I1 recovery exactness, I2 ordering, I3 progress, I4
confluence) and rules R1–R12; this development states what the code does and
checks those promises against it.

The modules are translated from the code under `src/crates`. Documents are
quoted only as claims to check. `PROJECT.json` maps every definition to its
lines.

## 1. Inventory

| Part | State it keeps | Operations | What is hard |
|---|---|---|---|
| Fiber engine (`jinnd-fiber`) | steering cell: desired target, committed state, in-flight aim, rest bit, move stamp; supervisor locals; readiness signal; wake permit; probe counters | restart, dispose, suspend, quiesce, fault, signal moves; load, unload, finish | the target moves while a body or a replay runs; wake-ups swallowed by a transition; stale fault notices; what callers are promised |
| Effect scope (`jinnd-effects`) | tree of records, drain phases, partial log, detached handles | register (nested), drain, replay, suspend, detach, withdraw | any of these futures may be dropped midway; order across several replays |
| Forward effects (`forward.rs`, adapter `boundary.rs`) | walk position, yielded prefix, installed slot, pending map, settlement | begin, divert, unwind, dispose | concurrent disposes of one effect while its actions are still landing |
| Service registry (`jinnd-registry`, `jinnd-context`) | slots, lease cells, version edge, vitality, readiness watcher | provide, supersede, locate, lease, release, drain, withdraw, report, compute | locate/lease gap; drains racing returns; torn availability computations |
| Revert ledger (`jinnd-ledger`) | SQLite stream, writer queue, branch table | append, query, hydrate, claim, revert, compensate, resolve | crashes between appends, refused appends, dropped callers, same-key retries |
| Event bus (`jinnd-events`) | listener table, once flags | listen, remove, dispatch in five modes | once-claims raced by dispatches and removals; panics; spawned listeners |
| Profile loader (`jinnd-loader`) | committed document, entry runtimes, engagement, persist permit, write-back echo | reconcile, amend, dispose, administer | document saved before the runtime moves; refused concurrent operations |
| Guest crossings (`jinnd-wasm` topics, broker, waits) | listener rows and tombstones, provisions and handles, the wait graph, one entry at a time per instance | listen, walk, call, resolve, answer, restart, die | cycles of waits each legal when it was entered; walks across a restart; handles that outlive a provision |
| Guest seats (`jinnd-wasm` slot, lane, instance, swap) | seat, journal, closing gate, staged instances, batch phase | activate, register, land, suspend, retire, swap a batch | registrations of late handlers; batch commit against disposal and restart |
| Host effects (`jinnd-wasm` hostfs, hostkeystore) | documents, spilled inverses, boot epoch, sealed vault | write, append, remove, put, delete, withdraw, revert | crash or refusal between spill, change, row and reclaim; keyed replays; ids over boots |
| Host tasks (`jinnd-wasm` hostprocess, hostnet, alarms, settle) | rings, wake table, alarm table, active clock | pump, feed, reap, run; arm, claim, re-arm, release; park, judge a deadline | wake-ups, releases called by the handler being served, a timer that fires for a clock that stands |
| Daemon (`jinnd-daemon`) | lifecycle publisher queue, watcher, restart oracle | publish, deliver the profile, revert on the operator's word | a bounded queue with counted drops; telling its own writes of the profile from the operator's |

The parts call each other in one direction: the daemon and the loader build
fibers; a fiber's body (adapter facade or wasm seat) leases services in the
registry, registers effects in its scope and listeners on the bus; unloading
drains and replays the scope, which withdraws provisions and thereby waits for
dependents' leases; every step is recorded in the ledger, and the revert lane
runs inverses later, from the ledger alone. They share state only through the
registry's version edge, the readiness watch channels, the steering cell and
the ledger's writer queue: these are exactly the interleaving points the
modules keep.

`PROJECT.json` lists every component, also those left out, and under `hazards`
each place where this code could go wrong in a way a test would hardly reach.

## 2. Modules and the code they model

A module is one component; an MC module gives its constants values. Where
several components run beside each other without sharing state, one MC module
has them all and each behaviour is about one of them (`part`): MCEffects,
MCTasks and MCLoader. No interleaving is lost that way, since no step of one
part reads or writes another's variables, and nothing but the run is shared.
The operators a comment calls "Mutated form" are plausible mistakes in the code,
written beside what they would replace; no specification uses them.

### SteeringCell, Fiber (MCFiber, FiberProofs)

`SteeringCell` is the pure half of a fiber: the record `cell` is
`SteeringCell::Inner`, each operator one locked method; `Plan` is `plan.rs`,
`Owed` is `owed.rs`, and the landings are `supervisor/landed.rs`. `Fiber` is
the asynchronous half: `pc` is the supervisor's place in `supervise`, `load`,
`unload`, `fault_unload` and `finish`; one action per stretch of code between
two points where another task can interfere. `wake` is the one-permit `Notify`,
`edge` the unseen change of the readiness watch channel, and `asks` the history
of quiesce probes with what has been re-read since each was made. A body may
apply effects, succeed or fail at any time after its launch; an inverse may
fail in any withdrawal. What a scope holds is one Boolean, since order within
the scope is EffectScope's subject.

### EffectScope (MCEffects, EffectProofs)

The record forest is a sequence of (parent, kind); `live` are the records still
in it. `take_next` and `flatten` are the two traversals of `tree.rs`, written
separately and compared. A disposer's result is Done or Stopped (any error or
panic), since nothing in the scope's control flow tells errors and panics apart.
Every future (drain, replay, suspend, detached withdrawal) may be dropped
wherever it awaits.

### ForwardEffect (MCTasks)

One effect driven by `begin`: a plain action or up to `MaxSteps` steps, each
followed by the two reads of the stale token; settlement and its announcement
are separate steps, as in the code. Each caller of `dispose` removes the
pending entry, cancels, waits, detaches and withdraws. An effect with no steps
at all installs at once and is not enumerated.

### ContextTree, Registry (MCRegistry, RegistryProofs)

`ContextTree` has the frozen layers of `jinnd-context` as constants (nothing in
a context changes once it is built) and computes from them what a context
resolves: the last of several bindings, the realm of the nearest binding, the
frames up to the root or an isolation boundary, and the slot addresses of the
registry, positional in the root realm and anchored at the root in a named one.

In `Registry` a provision is one call of `provide` and stands for its
generation, which the code only ever compares for equality. One action is one
critical section; what is merged is only what no other task can come between or
tell apart: `drained` subscribing and its first read (a bump between them is
seen by the read), a wake and the re-read it causes, the vitality read with the
probe that found the slot, and closing a cell inside the removal's lock. The
consumer is the facade body: it activates for a published epoch, leases each
injected service, and unloads when its epoch moves. The properties compare with
`CurrentEpoch`, the visible provision of greatest depth, which does not use the
walk.

### RevertLane, ResolutionMachine (MCRevertLane, RevertLaneProofs)

One effect's branch under concurrent `revert` and `compensate` calls. The
writer thread serves a FIFO queue; a dropped caller leaves its queued append
behind; a crash empties memory and queue and keeps the stream. `BranchFrom` is
the fold of `hydrate.rs`. The presence check of `hydrate` is one step with the
sending of its query: a branch that appears in between is kept by `seed`. A
compensation without operator confirmation changes no state and is not a step;
the lane of effects without receipts is not modelled. `ResolutionMachine` is
the abstract promise of `kernel.rs`: unclaimed, pending, closed once.

### Selection, EventBus (MCEventBus, EventBusProofs)

One event type, its table, and dispatches in one of the five modes. A selection
(`Selection!Select`) is a snapshot filtered by the event's selector, either of which may panic; a
once-listener is claimed by removing it. A parallel dispatch spawns a task per
claimed listener and joins them in order. The payload is cloned for each
listener and the clone may panic: before the claim in Parallel (`CloneFails`),
which consumes nothing, and after it in the other modes (`ClonePanics`), which
spends a once-registration that nobody calls. `taken` is a history variable:
which dispatch claimed what. Failures of destructors only add lines to a report
and are left out; so is the fallback of a parallel dispatch outside a runtime,
which walks as Serial does.

### Loader, CycleCheck (MCLoader)

`row[e]` is the `EntryRuntime` of an entry, `committed` the document of record,
`file` what the store holds and the baseline of its next save. Each caller in
`Task` makes one operation; `at[t]` is its place in `reconcile_with`, `amend`,
`dispose_entry`, `stage` or `commit_administration`. An engagement is refused,
never waited for; the persist permit is waited for. `phase[e]` abstracts the
fiber of a row to what the loader can observe of it (`resting`, `withdrawing`),
and `fibers[e]` counts the incarnations not yet withdrawn, which no variable of
the code does. A job with `from = e` is called by plugin code of `e` during its
activation or withdrawal, and holds that transition up until it is answered.
`StepKind` and `Rank` are the diff and the order of its plan. The store may
refuse a write-back and a lane a config or a spawn, within bounds. The fast
paths of `refuse.rs` that read task-locals are left out, since plugin code that
spawns a task escapes them. A disposal always succeeds: `LaneHandle::dispose`
has no other answer.

`CycleCheck` is `cycles.rs`: the graph of declarations over effective realms,
the iterative search with its explicit frames, one action per turn of its loop,
and the rewriting of the plan. `CyclesAreContained` compares the result with
the transitive closure of the declared needs.

### WaitGraph, Crossings (MCCrossings, CrossingsProofs)

`WaitGraph` is `waits.rs`: an edge per ticket, a search before each entry.
`Crossings` puts three users on it: the walks of `topics.rs` in their three
modes with the decided snapshot of listeners, the calls of one contract through
the broker with provisions, generations and handles, and the supervisor that
serves one guest entry at a time. A call is three steps: `Call` checks the
handle's generation under the broker's lock, `ParkCall` registers the wait, and
`Cross` reads whoever occupies the provider's slot by then and sends to it. Seats
suspend, restart, fail and die between these and while crossings are in flight;
tombstones stand for the listeners of a restarting seat. Grants are a constant. `MCStories` says who is on, who listens and how
often each thing may happen.

### GuestSeat (MCEffects, EffectProofs)

Two entries of one package. An instance registers listeners, alarms,
provisions, kernel effects, host effects and keyed replays; the seat's journal
has what teardown withdraws; `routed` is what is really in force. `Activate`,
`Land`, `Close`, `RetireSeat`, `SuspendSeat` and `DisposeResting` are the lane;
`SwapStart` to `SwapRetarget` are a batch, which commits under the lock a
disposal takes. Retiring and suspending a seat are one step each: the seat is
sealed, so nothing of its own comes between. An instance serves its shutdown
between two entries (`Stopped`), so whoever stops one waits for the entry in flight.

### Retention, HostFs, HostKeystore (MCEffects, EffectProofs)

`Retention` is the store of inverses both providers share: one file per effect,
the boot's epoch, headers in memory. `HostFs` and `HostKeystore` are the
changes: retain, act in the steps of the disk (stage, rename, sync), append the
row, answer; an undo by a disposal or by the operator witnesses, applies and
reclaims. A crash falls at any await, and each step of the disk may be refused.
A document is a sequence of tokens; a sealed value is the value and the
passphrase that sealed it.

### NetCalls (MCEffects, EffectProofs)

Outbound calls, which cannot be taken back: the shared counter, the row, the
answer, and the seeding of the counter from the rows that survived a crash. Rows
go to the writer without a receipt: a crash loses those not yet served
(`CallsCrash`), and storage may refuse one (`RefuseRow`), of which neither the
caller nor the guest hears.

### HostProcess, HostNet, Alarms, Lifecycle, ProfileWatch (MCTasks)

One child and its tasks, with bytes numbered so that a reader shows what it
lost; one socket with the operating system's queue, the runtime's readiness flag
and the arm state; alarms from arm to take; the lifecycle publisher between
callers who sync, the ledger's writer and the listeners' lanes; the profile file
between the operator and the daemon. A wait of the system that fails is recorded as
an exit of unknown code (row `Unknown`, Exited(-1) in the code) and nobody waits
again. The ledger's writer may refuse a row (`WriterRefuses`), and the barrier behind
it is answered all the same. `restored` in ProfileWatch is a history variable: the
file is a text the operator put back over a guest's save. The header of each module
says what is merged or left out.

### ActiveClock (MCTasks)

A clock that stands while guards are held, and horizons that run a call under
it: each looks at the clock, sleeps on a coalescing channel, its call and its
timer, and judges again before it ends the call. Time is a counter.

## 3. Runs

All runs are exhaustive within their bounds. `CHECK_DEADLOCK FALSE` is set
everywhere because each system may legitimately stop: a disposed fiber, an empty
scope, calls that have all returned, or bounds used up. Times are for two
workers.

| Run | Question | Bounds |
|---|---|---|
| `fiber` | Are the rest bit, single flight, faults and promises honest in every interleaving? Are quiesce and dispose answered, and only after the inputs before them were re-read? | 2 epochs, 1 restart, 2 flips; with a probe 1 epoch and 1 flip (`Budget`); disposal, suspension and faults unbounded; fair |
| `effects` | What is owed and left behind: one fate and the right order for every inverse; nothing left by a seat; a batch all new or all old; a trail that restores; ids that name one effect | every forest of 3 effects and 1 dropped future; six stories of up to 2 entries, 3 instances each; 2 effects over 2 boots with 2 refusals, or 1 boot with the operator; 2 guests, 3 call ids, 1 refused row, 1 restart |
| `registry_slot` | Do supersession, refusal, stale undo and leases keep dependents first? | 3 provisions of 2 fibers on 1 slot of a named realm, reached from different contexts, 1 consumer, 1 vitality report |
| `registry_progress` | Does every withdrawal get past its wait for dependents? Is a settled readiness signal the one the tree gives, and is every lease counted? | 2 services over a tree with a rebinding context, 2 activations, 1 vitality report; fair |
| `registry_shadow` | *Violation*: does a withdrawal end when a nearer provision shadowed the consumer's for a while? | 2 provisions of one service at two contexts, 1 activation; fair |
| `revert` | Is Reverted earned, durable and final through crashes, owned by one call? Does the stream implement ResolutionMachine, and does every call end? | 3 calls, 2 keys, 2 crashes, 1 refusal, 1 drop; with a compensation 1 crash and no drop (`Budget`); fair |
| `revert_compensated` | *Violation*: can a compensation be read back as Reverted? | 3 calls, 1 crash |
| `event_bus` | Is a once-listener called once, everyone heard, and every dispatch ended? | 2 listeners of which 1 or 2 are once, 2 dispatches, 5 modes, clones that panic, 1 panicking filter, 1 drop; fair |
| `loader` | Do document, file and runtime agree wherever nobody works, with one fiber per entry? Does every operation end? Are exactly the entries on a cycle kept out? | a group of 2 entries, 3 callers in four kinds of workload, 2 refused write-backs, 1 refused lane; the declarations of up to 4 entries in `MCDeclarations`; fair |
| `loader_siblings` | *Violation*: does an administration keep its siblings' amendments? | one `configure`, one sibling update, one reconcile |
| `crossings` | Does no fiber wait on itself, does a walk or a call land where it was aimed, and does every crossing end? | 3 fibers, 2 topics, 3 modes, seven stories (a provider may restart, die or be replaced under a call); fair |
| `tasks` | Do the background tasks keep their promises: effects installed whole, streams whole, ends and losses on record, the profile file the record, deadlines exact, no wake after a release, releases that return, work that settles? | 3 actions and 3 callers; 3 bytes through a ring of 2, in chunks of 1, and a pipe of 2; 3 arrivals; 2 alarms; waits that fail; queue and lanes of 1, 2 moves of a fiber, 2 syncers, 1 refused row; 2 edits, one of them possibly the daemon's own text; 1 amendment, 1 crash; deadline 2, time 4, 2 guards; fair |

Why the bounds are enough: two epochs give an aim to leave and one to go to,
and two flips the flicker that returns to the first. Three effects give every
shape that matters to an order: a chain, siblings, a child beside a sibling.
Three provisions give supersession by the owner and refusal of a stranger.
Three calls over two keys give a winner, a same-key retry and a stranger, and
two crashes a resume of a resume. Two dispatches over two listeners give every
race over one once-registration with a bystander. A group over two entries has
every relation an engagement or a plan can see (an entry, its sibling, what is
above both), and three callers give an operation, its rival and the reconcile
that follows; two refused write-backs are what a disposal needs to diverge.
Three entries give a cycle, a self-injection, an entry that only leads into a
cycle and one led to from it; a fourth gives two components in one search. Three fibers give the shortest cycle of waits
that is not seen from its ends. Two entries make a batch that can be half, and
three instances of each a seat, its successor and a successor staged beside
them. Two boots give an inverse that outlives its process and one that must not
take its id. A queue of one is full after one write, which is
the case that matters; the ring of a child holds two takes, since in the code it holds
eight. For the subjects with theorems (section 4) the bounds do
not matter.

**Fairness.** Weak fairness only, and only of what the runtime itself drives:
the supervisor task and its absorption of inputs (tokio polls a woken task), the
ledger's writer thread, the readiness and drain tasks, a walk's driver, a loader
operation that has begun, a call that its caller awaits, the pumps, wake tasks,
timers and lanes of the host, the publisher and the watcher. A child that was
killed dies, and data the operating system holds is reported. Nothing obliges
the environment to call anything.
Where plugin code has to return for a promise to be kept, that is stated in the
property (`PluginReturns` in Fiber) or as fairness of the call's landing
(ForwardEffect, RevertLane, EventBus, HostNet, Crossings, and `Turn` in Loader):
the wasm host ends every guest call at its deadline. `StaleBodyIsTold` does not
assume it. A dropped future is excused from returning. Of the clock nothing is
asked: `NeverOversleeps` is the safety half of "a call ends at its deadline".

## 4. Proofs

A theorem holds for every value of the constants that satisfies the named
assumptions; the runs above are its small instances. Every invariant below was
checked by TLC on the run of its component before it was proved.

**SequenceFacts** has what the proofs about tables and chains share. The library's
induction schemes cannot be used here (they take an operator), so induction is over
*sets*: `LeastExists` (a nonempty set of naturals has a least one) and `AllNaturals` (a
set with zero that is closed under successor is all of them) come from the
well-foundedness of `<`. A loop that is a recursive function is shown to have a value
that way before anything is proved of it: `SelectRange` says that `Selection!Select`,
the loop by which both listener tables narrow a snapshot, returns exactly the entries
to be kept, and `SelectOrder` that it keeps their order. The rest are the ranges of a removal, a push, a pop, a concatenation and an
enumeration, and counting by a bijection.

**FiberProofs**, from the assumptions on the bounds and on the causes of a restart:

- `TypeCorrect`: `Spec => []TypeOK`, one lemma per operation of the cell and
  one case per action.
- `RestHonest`: `Spec => []RestIsHonest`, and `LaunchIsSingle`:
  `Spec => []SingleFlight`. Neither is inductive alone. `RestInv` adds
  `StampInv`: where the supervisor is about to settle, if the stamp it read is
  still the cell's, then the planner has no step for the cell. Every write of a
  target stirs the stamp and lowers the rest bit, so a settle with an unchanged
  stamp raises the bit over a target that was really looked at.
- `FaultsHonest`: `Spec => []FaultsAreHonest`, and `AnswersCurrent`:
  `Spec => []AnswersAreCurrent`. `LandedInv` says what the committed state shows at
  each place of the supervisor: a step is planned from it and it does not change before
  the step lands, so the aim of a load is never the one that failed last. `EndedInv`
  says that a fiber ends only when asked to, with its end shown and its scope empty.
  `AskedInv` is the account of the probes: the count read at the top of a round covers
  calls made before the reads of that round, so whoever it covers is served when the
  round settles.
- `PromiseKept`: `Spec => PromiseTakenBackForCause`, an action property: no step of the
  supervisor takes back a promised reload.

**RevertLaneProofs**, from `LaneConstants`, for every number of calls, keys, crashes,
refusals and drops:

- `LaneTypeCorrect`: `Spec => []TypeOK`. The type alone is not inductive. Serving
  the queue resumes the caller of its head, so `QueueInv` says that what is queued
  belongs to a call that began, and that a call waiting in hydration waits for its
  query and not for an append. Resolving writes a field of the branch, so `HeldInv`
  says that a call past its claim has its branch in the table. Hydration chooses
  the first intent and the last verdict of the stream; `FoldIsABranch` shows that the
  fold yields a branch or nothing.
- `OneOwner`: `Spec => []OneInverse`. `OwnerInv` adds that an owner's branch is in
  the table and not resumable. A claim wins only over a branch that is absent or
  resumable, so it finds no owner (`ClaimMakesOneOwner`); every other step moves an
  owner along or ends it (`NoNewOwner`); a crash removes the owners with the branch.
- `RevertedTrue`: `Spec => []RevertedIsTrue`; `RunsOnce`: `Spec => NeverRerun`;
  `LaneImplementsResolution`: `Spec => ImplementsResolution`, the refinement of
  `ResolutionMachine`. All three are about reverts among themselves (`RevertsOnly`),
  since a compensation breaks them (section 5). `StoryInv` ties three copies of the
  truth together: the table has the stream's key and is Reverted or resumable only if
  the stream is (`TableInv`); each stage of a call says what the stream must hold
  (`CallInv`); at most one event is on its way to the writer, it is its owner's, and it
  continues the stream (`SentInv`), which is what survives a dropped caller. The
  refinement maps the stream's fold to the machine; only serving an append changes it.

**EventBusProofs**, from `BusConstants`, for every number of listeners and dispatches:
`BusTypes`; `OnceOneFate`, `Spec => []OnceHasOneFate`; `EveryoneHeard`,
`Spec => []EveryoneIsHeard`. The table holds a registration at most once (`TableInv`), so
the claim that removes it is the only one; `OnceInv` ties each once-registration to the
walk that has it in `taken`, which called it or reports the panic of its payload's clone,
and `IdleInv` says that a dispatch not begun has taken none. `HeardInv` follows every selected listener
through the places a walk can hold it (still to come, being called, in a task, reported)
or to the claim of another dispatch that consumed it: what the walk claimed itself is
still in its hands or in its report.

**EffectProofs** has the parts of `effects`. Of one scope, from `EffectBounds`, for every forest of effects and every number
of dropped futures, about `ScopeSpec`, the scope part of the effects run:

- `InverseHasOneFate`: `ScopeSpec => []OneFate`. The fates of an effect are counted, so
  the lines of a log are (`CountAppend`, `CountConcat`); a handle owes nothing twice
  because what it owes is ordered by a relation that orders nothing before itself.
- `TeardownOrder`: `ScopeSpec => []TeardownInOrder`. The two traversals of `tree.rs` are
  recursive functions over a forest of any shape, shown to have a value by induction over
  sets. `TakeNextFirst`: the walk from any record ends at a leaf of its subtree that goes
  before all the rest of it, from the last registered record backwards. `FlattenFacts`:
  after n pops (`Popped`), what is not listed yet is exactly what lies under the stack,
  of two stacked records the upper one is, or is under, an earlier sibling of the lower,
  and whatever comes later goes before what is listed; so the reversed list is in order
  and complete. `OrderInv` carries the order over the interruptions: a record leaves the
  tree as a leaf, before all that stays, and nothing is registered once a replay began;
  a registration does not disturb the order of the others (`OrderGrows`), which a
  handle's withdrawal beside the scope needs.
- `CleanReportIsExact`: `ScopeSpec => []CleanMeansExact`, from `OneFate` and `DoneInv` (what
  a line says is done has been done).

The other three theorems are about `Spec` of MCEffects as TLC runs it, from `SeatConstants`,
`RetentionAssumption` and `CallsAssumption`; a step of another part changes none of a
part's variables.

- `NamesAreForEver`, `Spec => []EffectsAreNamed`, for every number of boots, refusals,
  effects, guests and ids. For retained effects `IdsApart` says that, unless a boot could
  not record its epoch, the ids of each boot end where the next boot's begin, and that the
  refusals used up so far bound what a boot has burnt. For keys `KeyedInv` says that what stands
  is indexed (`Indexed`), so a key the index does not have stands for nothing, and that
  this remains so until the call that looked has acted (`Unanswered`, `OwnRecord`,
  `NotYet`): the check and the change are several awaits apart. For outbound calls
  `CallsInv` says that whatever was minted is at most the counter while a process counts,
  that a caller without a row holds an id that stands on none, and that a unit whose call
  was answered reads the rows after the one that answers it was sent, so finds it unless
  storage refused it; a refused row stands for nothing, and its id may be minted again by
  a later process. The seed of a new
  process is a maximum over the rows that survived (`GreatestExists`).
- `BatchesAreWhole`, `Spec => SwapIsWhole`, for every number of entries and of instances
  and every story. `SeatInv` is the inductive invariant. A row of a batch names a slot id,
  and the claim trusts that a slot id still Preparing is the seat the batch began with; so
  `LastStanding` says that a slot id that was not tombstoned is its entry's last and its
  entry is not being closed, `BatchRows` and `BatchStaged` that what is begun is staged
  but for the row at hand, once each, with instances of the new artifact, and
  `BatchUp` that such a row's seat is up. `Wholeness` is then two cases: before the claim
  no seat anywhere runs the new artifact, after it every seat of the batch does that was
  not replaced since.
- `DisposalsAreExact`, `Spec => []OnlyStraysAreLeft`, over the same constants. `HeldInv`
  says of everything in force for an entry no batch replaced who will withdraw it
  (`Held`): its journal, what the entry inherited, a landing, an instance at work, a
  batch (of what reaches the world from the call itself), or nobody, as a stray. A
  disposed entry has none of the holders left. `StillStaging` and `Blank` say of a batch
  that what it staged is not in use and has recorded nothing before it settled.

**RegistryProofs**, from `RegistryConstants` and `ContextConstants`, for every tree of
contexts, every realm and binding and every number of provisions, consumers and services:

- `OpenWhileCurrent`: `Spec => []OpenIffCurrent`, with `StoreInv`: the slot map shows
  only provisions that were made, each in its own slot, and a provision past its drain
  is drained.
- `DependentsGoFirst`: `Spec => []DependentsFirst`. `CountInv` says that a cell's count is
  the number of guards held on it (`GuardInv`: at which places a consumer holds any); a
  closed cell grants no more, so a drain that reads zero on one is final.
- `GrantsStayCurrent`: `Spec => []GrantsAreCurrent`: a settled readiness signal is what
  the nearest visible and vital providers make up. The watcher computes it over several
  locks, so `FreshInv` says of each stage of a computation that either a change was
  announced since, or what it found so far is what the present slots would give. The walk
  is shown to find the nearest (`FoundIsNearest`) by induction over the tree: its only
  assumption is that no set of layers is built on itself, and `TreeInduction` turns that
  into chains that end at the root (`ChainExists`, `CutFacts`, `WalkFacts`).

**CrossingsProofs**, from `CrossingConstants`, for every set of fibers and topics, every
grant and every story:

- `WaitsAreAcyclic`, `Spec => []NoWaitCycle`. Acyclicity is stated as:
  every nonempty set of fibers has one that waits for none of the set; that needs
  no induction over paths. Removing edges keeps it (`FewerWaits`). The one step that
  adds edges is an entry, and it is admitted only if some set closed under
  waiting has the target and not the waiter. A set of fibers that meets that closed
  set has, in the part they share, a fiber that waits for none of the part; it is not
  the waiter and waits for nobody outside the closed set, so for none of the set. A
  set that does not meet it has not the target, so whoever of it waited for none of
  it before still does (`EnterKeeps`).
- `CrossingsLand`, `Spec => []LandsWhereAimed`. What a walk is due to is fixed when it
  selects, so the invariant must say that the table is complete at that moment:
  `TableInv`, every subscription has its row, live or a tombstone, and a fiber with
  subscriptions and no seat is coming back (so its tombstones are not withdrawn).
  `OutInv` carries that along the walk. `BrokerInv` says that no handle pins a
  generation yet to come, and one that pins the present one names the present provider;
  a new provision is a generation no handle has. `PeerInv` covers the way from the check
  to the crossing: the provider on record is the slot's occupant of the moment, and a
  slot's incarnations only go up, so a call that meets another one meets a later one, and
  the provision it was checked against is withdrawn.

**TaskProofs** has the components of `tasks`. The composition of MCTasks never runs
two of them in one behaviour, so each theorem is about one component's own
specification:

- `ForwardWhole`, `ForwardSpec => []InstalledWhole`, for every number of actions and of
  callers. `WalkInv` says that what is applied is exactly what the walk has yielded and
  nobody has undone, at each place of the driver; `HoldInv` that until the record is
  spent somebody can undo it, and that whoever is past the record's removal is alone.
- `StreamsWhole`, `[]StreamsAreWhole` of HostProcess, for every ring, chunk and pipe and
  every plan of a child. A byte is the number of its place. `Output` says that what the
  reader, the ring, the pump and the pipe hold are runs of consecutive numbers, each
  starting where the one before it ends, up to the last byte written (`Chain`); `Input`
  says it of the child, the feeder and the other ring. Each step moves the front of one
  run to the end of the run before it (`Moved`), and the only step that throws bytes
  away is the cut of a run, after which nothing is promised of the rest (`Kept`).
  `Pumping` carries the end: a ring is closed by a pump that found the pipe empty and
  every writer gone, or tore, or by a release. `Sleeping` adds to the statement the
  place between the pump's offer and its wait, where a permit may already be due.
- `OneExit`, `[]ExitOnRecord`: `ExitInv` ties the number of exit rows to the child's life
  and to the supervisor's place: a row of known code means a reaped child, one of unknown
  code that the wait failed and nobody waits any more. It is the safety half of
  `EndsOnRecord`.
- `PublishOnRecord`, `[]PublishedOnRecord` of Lifecycle. `LifeInv` follows a transition on
  its way: at every place (offer, queue, batch, lane, heard) its row was sent at or before
  the mark that will be waited for, and a mark passed on is served, so the row is on the
  stream or was refused. Losses are balanced over the rows as they were sent (`Balanced`),
  and `StreamSplits` divides that account into what the stream shows and what storage
  refused. The rows of losses are sums, `FoldSeq` and `FoldFunction` in the model: SequenceFacts shows that a fold
  of `+` has the one additive function of its parts as value (`AdditiveExists`,
  `AdditiveUnique`), and so what one more row or a longer lane adds (`SumRaised`).
- `QuietFileKept`, `WatchInit /\ [][WatchNext]_wvars => []QuietFileIsRecord`. `RecordInv`
  says that the record is what the daemon's baseline resolves to whenever no save
  stands in between, `Saving` that a save under way writes what resolves to its target,
  `FileInv` that a file with no event due and no read under way is read already, unless
  it is a text put back over a save (`restored`), the one counterexample of the code
  (section 5).
- `ReleasedIsSilent`, the action property `NoWakeAfterRelease` of HostNet and Alarms: a
  socket under release has no entry in the wake table, and a cancelled alarm is neither
  live nor ever minted again.
- `DeadlineExact`, `ClockSpec => []DeadlineIsExact`, for every deadline, every number of
  horizons and guards and every length of time. The invariant is an account: what the
  clock shows is what it showed when a call began plus the instants that call has spent
  with no guard held, the depth of the clock is the number of guards, and a horizon that
  has seen every edge has its timer set by the clock as it is. A park and a resume change
  what is shown by nothing, so the timer judged by the clock is judged by the account.

Only model-checked: everything about liveness and ENABLED, which is out of the
prover's reach (`DrainEnds`, `EveryCrossingEnds`, `EveryCallEnds` and the like, and the
rest of `EndsOnRecord`); `OneTruth` of Loader, whose plans are computed over the tree of a
document; `TrailRestores`, a fold of the records sorted by id, whose value takes an
induction over data with the restoring operator as a parameter; `CyclesAreContained`, a
search over data. That a
requested disposal lands is not a run's property: it follows from `Quiesces` and
`RestIsHonest`, since a rest bit over a requested disposal would hide an owed step. The
type invariants of EffectScope and Loader are stated there for the reader and hold in
the runs above; no run lists them.

What failed attempts at a proof showed. Two of the theorems above have an exception or a
wider statement because of one: an operator's edit taken for an echo (section 5,
`QuietFileKept`), and the collector between its offer and its wait, who sleeps on a ring
that is closed meanwhile and is woken by a permit already due (`StreamsWhole`). Two others
were mistakes of the model that the bounds hid. The history of what reached the world was
kept by id, so an id minted again after a lost epoch counted as applied before it was: with
three effects instead of two, `KeyedOnce` failed in 22 steps. A rollback stopped a staged
instance in the middle of an entry that a socket of its own had opened, which left a
registration behind; the code serves a shutdown between two entries, the model does so
now (`Stopped`), and the sixth story of `MCStories` has the case.

## 5. Where the code and its documents disagree

Three disagreements have a run of their own and are listed under `findings`:

- `RevertedIsEarned` with compensations: a compensation's clean completion
  followed by a crash before its resolution is read back as Reverted.
- `CommitKeepsSiblings`: an administration commits the document it derived when
  it was staged, so an amendment of a sibling committed in between is lost.
- `DrainEnds` with a shadowing provision (`registry.rs:167`): a consumer whose
  epoch names an outer provider leases a nearer one provided meanwhile; when that
  one is withdrawn before the watcher recomputes, the epoch is equal, nobody
  unloads and the withdrawal waits for good. `registry_progress`, which shows
  `DrainEnds`, has no such shadowing.

The following were met while modelling. Where a property is named, TLC refutes it in
the model as it stands, with the constants given; the others were read off the code.

**Fiber, registry, ledger, loader**


- *A flicker hides the landing* (`supervisor.rs:161`): a landed activation
  re-reads the signal and publishes Active only if no step is owed; when the
  signal is back at the next round's read, nobody publishes, and the fiber rests
  Active while `Fiber::state` answers Loading. `fiber.rs:76` calls that "the last
  state the fiber committed to". `RestShowsCommitted` in Fiber, with one epoch, no
  restart, two flips and no probe.
- *A disposal lands under another cause* (`supervisor.rs:201`): with a disposal
  requested while a suspend replay is in flight, the fiber lands Disposed under
  the Suspend cause and no Finish follows; `fiber.rs:170` says a disposal "still
  lands as one". `DisposalLandsAsOne` in Fiber, the same constants.
- *A fault during a load promises a reload* (`owed.rs:140`): the guard on a
  reported fault stands in the arm of states no landing commits.
  `FaultInFlightStalls` in Fiber, again the same.
- *A change before the subscription is missed* (`availability.rs:52-53`): the
  watcher computes, then subscribes. `EveryChangeIsSeen` in Registry, constants
  of `RegistrySlot.cfg`. `SettledIsCurrent` is what does hold.
- *A lease of another generation than the epoch's* (`slots.rs:118` against the
  comment at `:109`): the generation compared is the one just located.
  `LeasesMatchEpoch` in Registry, constants of `RegistrySlot.cfg`.
- *A generation that goes down* (`slots.rs:85` against `:74`): the counter is
  taken outside the map's lock, so two provisions of one fiber may insert in
  the reverse order. Nothing depends on the order; the model drops the number.
- *An inverse after a compensation* (`claim.rs:65`): a branch hydrated as
  resumable is compensated and stays resumable, so a same-key revert runs the
  inverse. `NeverRerun` in RevertLane with the constants of `RevertCompensated.cfg`.
- *A compensation binds the key* (`revert.rs:191`): its intent may be the first
  of the stream. `KeyIsBound`, same constants.
- *A reconcile that forgets a divergence* (`loader.rs:191`, `administer/commit.rs:160`):
  when the lane refuses the successor of a swap, the applied spec already moves to
  the committed one; the next reconcile of the same document drains the fault,
  plans nothing for the entry and leaves it without a fiber. `commit.rs:36` says
  "the next document-led reconcile reconverges the two views". `Reconverges` in
  Loader with a swap, a reconcile of the swapped document and one refused lane.
- *A cancelled reconcile that does not converge later* (`loader.rs:126`): when a
  group is disabled, its children are disposed first; cancelled then, the applied
  specs of group and child still read enabled, so a reconcile that enables the
  group again plans nothing and the child stays without a fiber.
  `TwoViews` (of `OneTruth`) with a cancelled reconcile of `Closed` followed by one of `Base`;
  `Reconciling` has only cancelled reconciles that touch no group.
- *Administered groups* (`administer.rs:143`): the plan keeps the one step of the
  named entry, so disabling or disposing a group leaves its children live, which
  the code comments leave to the next reconcile. No workload disables a group.
- *A withdrawal refused in an administration* (`administer/commit.rs:65`) returns
  the lane's error and records no divergence, unlike the amendment's. The model
  marks the entry `stuck`, and `TwoViews` excuses it.
- *A reconcile asked for in an activation* is admitted, since only withdrawals are
  refused, and then settles the fiber it runs in. Nothing in the daemon calls it
  there; no workload does.
- *Realm equality is not exactly visibility* (`cycles.rs:9-14`): a consumer that
  binds a service back to the root realm under a parent in a named one is cut off at
  the boundary when it runs (`resolve.rs:72`), while the declarations' graph still
  has its edge. The check errs on the side of a cycle. `effective_realm` also takes
  the first of several bindings of one service where derivation keeps the last; a
  document is a map, so only a profile built in code could have two.

**Events and crossings**

- *A once-registration that nobody delivers* (`dispatch.rs:45-49`, `:60-63`, `:73-79`,
  `:98-101`): outside Parallel the payload is cloned after the claim, so a clone that
  panics spends the registration and the listener is not called. The comment on `claim`
  says of concurrent dispatches that exactly one delivers it. The dispatch has the failure
  on its report, which is what `OnceHasOneFate` says; the form without that disjunct is
  refuted with the constants of `EventBus.cfg`.
- *A call that reaches the next incarnation* (`broker/calls.rs:78-115`, `:156`;
  `slot/peer_face.rs:22`): the generation of the handle is checked under the broker's
  lock, the call goes to the slot's occupant once the lock is gone, and a provider
  restarted in between is called under a handle that no longer names it.
  `broker/calls.rs:42` says "never a silent retarget". `NeverRetargets` in Crossings,
  constants of `Crossings.cfg`; `LandsWhereAimed` has what holds: the same fiber, and only
  once the provision it was checked against is withdrawn.

**Guest seats and swaps**

- *A late registration outlives its seat* (`handle.rs:284` against
  `instance/late.rs:31,44`): a handler that registers before its seat is installed
  is put back into a store that may not be drained again. `DisposeIsExact` in
  GuestSeat, any story with a listener and a late entry; `OnlyStraysAreLeft` has it
  as its one exception.
- *A keyed replay is journaled twice and withdrawn in the wrong place*
  (`slot/teardown.rs:93` against `:17,:22`): the id is withdrawn at its newest place
  in the journal, so before effects younger than its own. `FsDisposeIsExact` in HostFs.
- A swapped-in instance has no slot in its `Seat`, so its late registrations take
  the other branch of `late.rs:43`; a displaced seat's kernel registrations are
  dropped with it; a displaced instance's late effects extend its successor's
  journal; `retire_displaced` may hand effects to an entry after its journal was
  withdrawn; a provision recorded while staged, after the outcome was taken, is never
  provided (`slot/commit.rs:122-126`); `swap_pinned` retargets after it retires. The
  model has these as they are, and `OnlyStraysAreLeft` is about entries no batch
  replaced.

**Host effects**

- A commit that fails at the directory's sync, after its rename, releases the inverse
  although the change is there (`inverses.rs:168`): the excuse "unsynced" of
  `TrailRestores`. An unreadable epoch file reads as the first boot: the excuse
  "epoch". Reverts out of order are the excuse "disorder".
- A keyed replay after a crash between retention and change answers as if it were
  done; a withdrawal's check and its act are two steps; an inverse's write of a file
  is not atomic; a failed commit of a key store's inverse leaves memory ahead of the
  disk. All are steps of the model, and what `TrailRestores` claims allows for them.
- *An outbound call that is on no record* (`writer.rs:78-86`): storage may refuse a row
  sent without a receipt; the guest has its answer, `revert_unit` finds no row and answers
  NotFound instead of refusing as irreversible, and after a restart the id may be minted
  again. `request.rs:149-152` says that "its id must name one call forever". `RefuseRow`
  in NetCalls; `SentIsIrreversible` and `EffectNamesOneCall` except exactly these rows.
- Two commits of one document share a staging name (`retention.rs:163`). One guest
  acts on a path at a time in the model.

**Host tasks**

- *A collector that sleeps on a full ring* (`collector.rs:53-65`): `drain` takes 8192
  bytes and then waits for a permit, the ring holds 64 KiB (`ring.rs:13`), and the
  offers of several chunks leave one permit, since `Notify` keeps one. Bytes backed up
  stay a permit behind, and at the end of the output there is one permit more, of the
  close: with more than one take left in the ring the collector waits on a closed ring
  until the deadline of `run`, which fails although the child's exit and all its output
  are there. `stream.rs:36` says "a permit is kept, so nothing is lost between takes".
  `CollectorIsWoken` in HostProcess, constants of `Tasks.cfg`. The reader of a spawned
  child polls and is not exposed.
- *A release that reaps nothing* (`child.rs:198`, `ops.rs:142`): a wait that fails is
  recorded as Exited(-1), the row `Unknown` of the model, and a release waiting for the
  exit returns clean although the child was not reaped. `child.rs:245` says "the child is
  SIGKILLed and REAPED before this returns — no zombie survives a dispose or a suspend".
  `ExitOnRecord` asks for a reaped child only of a row of known code.
- A `run` dropped at its deadline leaves no Killed and no Exited row
  (`hostprocess.rs:9-10`), and one whose own wait fails before any kill none either: the
  excuse `Forgotten` of `EndsOnRecord`. ProcessSpawned is appended after the tasks start, so
  Exited may come before it, and Killed after. A torn stdout of a spawned child reads
  as its end (`~pump.torn` in `OutputIsWhole`).
- A wake may announce what a polling read has taken meanwhile (`hostnet/ops.rs:45`),
  and a failed accept leaves its row disarmed; `PendingIsServed` excuses the second
  until the row is re-armed.
- A dropped outbound call leaves no row (`request.rs:18-20`), and a premature end of
  the peer's stream hands back a truncated body (`request.rs:46-48`, `:237`).

**Daemon**

- *A delivery without its row* (`writer.rs:78-86`, tested in `writer/tests.rs:62`): when
  storage refuses the row of a transition, an ErrorRecorded row takes its place and the
  barrier is answered all the same, so listeners hear a transition the stream does not
  have; likewise the row of a loss may be missing. `lifecycle.rs:15` says "A delivery may
  never precede its ledger row", and `:156-160` that the batch "is durably on the stream".
  `DeliveryFollowsRow` and `LossIsCounted` except exactly the rows refused. A read of the
  mark that fails while the writer lives ends the publisher too; the model takes it
  together with the writer's death (`~alive`).
- *Listeners hear transitions out of commit order* (`publish.rs:88-90`;
  `support.rs:100-129`): two syncers offer after they let go of the ledger's order.
  `HeardInCommitOrder` in Lifecycle with `Capacity = 2` and `LaneCapacity = 2`. The
  incarnation of an offer is read when it is made, not when the transition was
  (`lifecycle.rs:53-54`, `:97`).
- *A save erases what it did not read* (`document.rs:35-36`): an operator's edit
  between the daemon's read and its save is overwritten, and with it fields the daemon
  does not know. `SaveErasesNothing` in ProfileWatch, constants of `Tasks.cfg`.
- *An edit that looks like an echo* (`store.rs:97-98`, `:194-204`): `save_committed` sets
  `written` after the rename. An operator who puts the daemon's previous text back, to
  the byte, in between is taken for the echo of the previous save, and the edit is
  swallowed: the file stays other than the record. `store.rs:190-191` says that "no
  signature lies in wait for a later identical rewrite". `MCTexts` has such a text, so the
  run meets the case; `QuietFileIsRecord` excepts it by `restored`, and without that
  conjunct TLC refutes it with the constants of `Tasks.cfg`. A delivery
  refused because somebody is engaged is not tried again: `QuietFileIsRecord` excuses
  it by `refused`, which the log shows.

## 6. Not modelled

- The daemon's capability handlers decode requests and forward them to the ledger
  and the loader; process start, path layout and package discovery are sequential
  I/O; bindings are generated; hashing, the documentation linter and the line meter
  are no part of the protocol. Demo plugins and tests are read as statements of intent.
- Of the loader, the rebinding of an entry to another parent or isolation; of the
  context tree, config overlays; of the broker, the parsing and the policies of
  grants; of topics, selectors; of lanes, the waits of `lane/injects.rs`; of the
  network, HTTP and TLS over the wire and the admission of addresses.
- Crossings of a staged instance while its batch is prepared are left out of
  Crossings; a power failure (as against the death of the process) is left out of
  Retention.
- Abstracted everywhere: wording of errors, tracing, labels, timestamps and the SQL
  and JSON of the ledger.

## 7. Plan

1. Theorems next: `OneTruth` of Loader, from an invariant over the stages of an operation;
   `TrailRestores`, from a lemma on folds of sorted sets.
2. Composition: a fiber's unload over an EffectScope whose drains are the Registry's
   withdrawals (I2 end to end).
3. `Loader` with rebind steps, once a document may move an entry.
