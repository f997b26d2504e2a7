------------------------------ MODULE NetCalls ------------------------------
(****************************************************************************)
(* The outbound calls of jinn:net (jinnd-wasm hostnet/request.rs, admit.rs, *)
(* http.rs, tls.rs, hostbase.rs; jinnd-daemon observe.rs): effects that     *)
(* cannot be taken back.  Their only register is the ledger row the call    *)
(* leaves, and the id in it must name one call for ever: the counter is     *)
(* shared with the sockets' handles, callers race for it, and a new process *)
(* seeds it from the rows that survived the old one.                        *)
(*                                                                          *)
(* A request is what its admission depends on; the bytes of an exchange are *)
(* one step.  Rows go down an unreceipted lane: a crash loses those the     *)
(* writer has not served, and a row storage refuses is lost too, with       *)
(* nobody to tell (an ErrorRecorded row may land in its place).  What the   *)
(* guest was told is kept for the rows that were served.                    *)
(****************************************************************************)
EXTENDS Naturals, Sequences, FiniteSets, FiniteSetsExt

CONSTANTS
    Guests,      \* the guests
    NoUnit,      \* no revert unit is being decided
    MaxIds,      \* bound: the ids one process mints
    MaxRefused,  \* bound: the rows storage refuses
    MaxRestarts  \* bound

\* What the admission of a URL depends on: that it reads, that its authority is on
\* the caller's allowlist, its transport, its host, and the head it is sent under.
Request == [reads : BOOLEAN, listed : BOOLEAN, tls : BOOLEAN, loopback : BOOLEAN,
            head : BOOLEAN]

ASSUME CallsAssumption == MaxIds \in Nat /\ MaxRefused \in Nat /\ MaxRestarts \in Nat

VARIABLES
    counter,   \* ProviderCore.next
    outbound,  \* outbound[c]: where a guest's outbound call is
    calls,     \* how many calls were sent, ever: the name of the next one
    log,       \* the rows sent to the writer, NetRequested only
    kept,      \* how many of them the writer has served
    refused,   \* the places of those whose append storage refused
    told,      \* the rows whose call the guest of this process has an answer of
    unit,      \* the revert unit being decided, or the last one decided
    down,      \* the process has not seeded its counter yet
    crashes

cvars == <<counter, outbound, calls, log, kept, refused, told, unit, down, crashes>>

NoCall == [at |-> "none"]

-----------------------------------------------------------------------------
(* One call *)

\* http::parse and http::head: the URL and the caller's own headers make sense.
Reads(r) == r.reads
Builds(r) == r.head

\* HostNet::admit: plaintext reaches loopback only, TLS whatever is listed.
Admits(r) == r.listed /\ (r.tls \/ r.loopback)

\* Everything that can refuse the call comes before the id; only then is anything
\* sent.  A refusal leaves a row of another kind.
Outbound(c) ==
    /\ ~down /\ outbound[c] = NoCall
    /\ counter < MaxIds
    /\ \E r \in Request : Reads(r) /\ Admits(r) /\ Builds(r)
    /\ counter' = counter + 1
    /\ calls' = calls + 1
    /\ outbound' = [outbound EXCEPT ![c] = [at |-> "exchange", id |-> counter + 1, nth |-> calls + 1]]
    /\ UNCHANGED <<log, kept, refused, told, unit, down, crashes>>

\* The exchange, which ends inside its bound: a response, or a failure of the
\* connection, the handshake, the framing or a cap, or the bound itself.
Exchange(c) == outbound[c].at = "exchange"

\* A guest past its own deadline drops the call with the exchange: no row.
Dropped(c) ==
    /\ Exchange(c)
    /\ outbound' = [outbound EXCEPT ![c] = NoCall]
    /\ UNCHANGED <<counter, calls, log, kept, refused, told, unit, down, crashes>>

\* Mutated form: an answer goes back to the guest before its row is sent.
RecordCallLate(c) ==
    /\ Exchange(c)
    /\ outbound' = [outbound EXCEPT ![c].at = "recorded"]
    /\ told' = told \union {[id |-> outbound[c].id, nth |-> outbound[c].nth]}
    /\ UNCHANGED <<counter, calls, log, kept, refused, unit, down, crashes>>

\* The row, whatever the outcome and before any refusal of the answer; nothing is
\* awaited between the end of the exchange and the row.
RecordCall(c) ==
    /\ Exchange(c)
    /\ log' = Append(log, [id |-> outbound[c].id, nth |-> outbound[c].nth])
    /\ outbound' = [outbound EXCEPT ![c].at = "recorded"]
    /\ UNCHANGED <<counter, calls, kept, refused, told, unit, down, crashes>>

\* The guest is answered: the response, the failure, or the refusal of a redirect
\* that names an authority the admission would refuse.
AnswerCall(c) ==
    /\ outbound[c].at = "recorded"
    /\ told' = told \union {[id |-> outbound[c].id, nth |-> outbound[c].nth]}
    /\ outbound' = [outbound EXCEPT ![c] = NoCall]
    /\ UNCHANGED <<counter, calls, log, kept, refused, unit, down, crashes>>

\* A socket's handle comes off the same counter.
MintHandle ==
    /\ ~down /\ counter < MaxIds
    /\ counter' = counter + 1
    /\ UNCHANGED <<outbound, calls, log, kept, refused, told, unit, down, crashes>>

-----------------------------------------------------------------------------
(* The ledger, the restart, and a revert unit *)

\* The rows on record, and the rows sent that storage did not refuse.
OnRecord == (1..kept) \ refused
Standing == (1..Len(log)) \ refused

Commit1 ==
    /\ kept < Len(log)
    /\ kept' = kept + 1
    /\ UNCHANGED <<counter, outbound, calls, log, refused, told, unit, down, crashes>>

\* Storage refuses the next row: no receipt carries the refusal to the caller.
RefuseRow ==
    /\ kept < Len(log) /\ Cardinality(refused) < MaxRefused
    /\ kept' = kept + 1
    /\ refused' = refused \union {kept + 1}
    /\ UNCHANGED <<counter, outbound, calls, log, told, unit, down, crashes>>

CallsCrash ==
    /\ ~down /\ crashes < MaxRestarts
    /\ crashes' = crashes + 1
    /\ log' = SubSeq(log, 1, kept)
    /\ outbound' = [c \in Guests |-> NoCall]
    /\ told' = told \intersect {log[i] : i \in 1..kept}
    /\ unit' = NoUnit
    /\ counter' = 0
    /\ down' = TRUE
    /\ UNCHANGED <<calls, kept, refused>>

\* Mutated form: the floor is the number of calls on record.
HighestByCount == Cardinality({log[i].id : i \in OnRecord})

\* seed_net_effects: the highest id on record.
Highest == IF OnRecord = {} THEN 0 ELSE Max({log[i].id : i \in OnRecord})

Seed ==
    /\ down
    /\ counter' = IF Highest > counter THEN Highest ELSE counter
    /\ down' = FALSE
    /\ UNCHANGED <<outbound, calls, log, kept, refused, told, unit, crashes>>

\* revert_unit: a member of jinn:net decides the unit, by a read of the ledger
\* that answers once every row sent before it was served.
AskUnit ==
    /\ ~down /\ (unit # NoUnit => unit.decided)
    /\ \E id \in 1..MaxIds :
          unit' = [id |-> id, after |-> Len(log), decided |-> FALSE, irreversible |-> FALSE,
                   answered |-> {t.nth : t \in {r \in told : r.id = id}}]
    /\ UNCHANGED <<counter, outbound, calls, log, kept, refused, told, down, crashes>>

DecideUnit ==
    /\ unit # NoUnit /\ ~unit.decided /\ kept >= unit.after
    /\ unit' = [unit EXCEPT !.decided = TRUE,
                             !.irreversible = \E i \in OnRecord : log[i].id = unit.id]
    /\ UNCHANGED <<counter, outbound, calls, log, kept, refused, told, down, crashes>>

CallsInit ==
    /\ counter = 0 /\ calls = 0
    /\ outbound = [c \in Guests |-> NoCall]
    /\ log = <<>> /\ kept = 0 /\ refused = {}
    /\ told = {} /\ unit = NoUnit
    /\ down = TRUE /\ crashes = 0

CallsNext ==
    \/ MintHandle \/ Commit1 \/ RefuseRow \/ CallsCrash \/ Seed \/ AskUnit \/ DecideUnit
    \/ \E c \in Guests :
          Outbound(c) \/ Dropped(c) \/ RecordCall(c) \/ AnswerCall(c)

-----------------------------------------------------------------------------
(* Properties *)

(* EffectNamesOneCall: no two rows that storage takes carry one id, whatever  *)
(* callers raced for it, whatever handles took from the counter, and whatever *)
(* rows a crash lost before the next process seeded its own                   *)
(* (HostNet::seed_effects, "its id must name one call forever").  An id whose *)
(* row storage refused is on no record, and a later process may mint it again.*)
EffectNamesOneCall ==
    \A i, j \in Standing : log[i].id = log[j].id => i = j

(* SentIsIrreversible: a unit that names a call the guest was answered is     *)
(* refused as irreversible; it is refused as unknown only when storage        *)
(* refused the row of every call answered under that id                       *)
(* (Daemon::revert_unit, writer.rs record_refusal).                           *)
SentIsIrreversible ==
    (unit # NoUnit /\ unit.decided /\ unit.answered # {}) =>
        unit.irreversible \/ unit.answered \subseteq {log[i].nth : i \in refused}
=============================================================================
