------------------------------ MODULE Indexer ------------------------------
(***************************************************************************)
(* syncDeployment of backend/src/indexer.ts, run by the Cron trigger of    *)
(* backend/src/index.ts every minute: several runs may be in flight in     *)
(* different Worker instances and share one D1 database.                   *)
(*                                                                         *)
(* Every await of the code is a point where other runs, the chain and the  *)
(* clock move on, where the call may fail and where the instance may die.  *)
(*                                                                         *)
(* The clock is kept relative: age[w] is how long ago run w read the time  *)
(* it started, lockLeft how far lock_until lies ahead (negative: behind).  *)
(* The table sync_runs is a log nobody reads and is left out.              *)
(***************************************************************************)
EXTENDS Projection, Integers, FiniteSets

CONSTANTS
    Slots,           \* Worker instances that can run a sync at the same time
    Chains,          \* the event histories of the contract to consider
    MaxBlock,        \* bound: the last block mined
    StartBlock,      \* START_BLOCK
    Confirmations,   \* FINALITY_CONFIRMATIONS
    ChunkSize,       \* LOG_CHUNK_SIZE
    MaxChunks,       \* MAX_CHUNKS_PER_RUN
    MaxEvents,       \* maxEventsPerRun
    Lease,           \* the lease, four minutes, in ticks of the clock
    RunLimit,        \* longest time a run is alive, in ticks
    RpcLag,          \* how far an RPC node may trail the chain
    MayOmit,         \* whether the explorer may leave events out
    MaxFaults,       \* bound: failures and crashes
    NoRun            \* no lock token

\* The order of events that module TaskBounty establishes for a task's log.
Before(m, n) ==
    <<m, n>> \in {<<"TaskCreated", "TaskAccepted">>, <<"TaskCreated", "WorkSubmitted">>,
                  <<"TaskCreated", "TaskCompleted">>, <<"TaskCreated", "TaskCancelled">>,
                  <<"TaskAccepted", "WorkSubmitted">>, <<"TaskAccepted", "TaskCompleted">>,
                  <<"WorkSubmitted", "TaskCompleted">>}

Lawful(c) ==
    /\ c \in Seq(Event)
    /\ \A i, j \in 1 .. Len(c) : i < j =>
           /\ c[i].block <= c[j].block
           /\ c[i].task = c[j].task => Before(c[i].name, c[j].name)
    /\ \A i \in 1 .. Len(c) :
           /\ c[i].block \in StartBlock .. MaxBlock
           /\ \A m \in EventName \ {"TaskCancelled"} :
                  Before(m, c[i].name) /\ c[i].name # "TaskCancelled" =>
                      \E j \in 1 .. i : c[j].task = c[i].task /\ c[j].name = m

\* config.ts allows START_BLOCK 0 too; block 0 stands for NULL in module Projection.
ASSUME ConfigAssumption ==
    /\ StartBlock \in Nat \ {0} /\ Confirmations \in Nat /\ MaxBlock \in Nat
    /\ ChunkSize \in Nat \ {0} /\ MaxChunks \in Nat \ {0} /\ MaxEvents \in Nat
    /\ Lease \in Nat /\ RunLimit \in Nat /\ RpcLag \in Nat /\ MaxFaults \in Nat
    /\ MayOmit \in BOOLEAN /\ NoRun \notin Slots
ASSUME ChainAssumption == \A c \in Chains : Lawful(c)

VARIABLES
    chain,        \* the events the contract emits, in order
    head,         \* the chain's newest block
    checkpoint, headSeen, finalized, lastError,   \* the row of sync_state
    lockOwner, lockLeft,                          \* its lock_token, lock_until
    rows, events,                                 \* tasks, indexed_events
    snapshot,     \* protocol_state.snapshot_block, StartBlock - 1 for no row
    run,          \* the runs' local variables
    faults        \* failures so far

chainVars == <<chain, head>>
syncState == <<checkpoint, headSeen, finalized, lastError>>
lock == <<lockOwner, lockLeft>>
tables == <<rows, events>>
vars == <<chain, head, checkpoint, headSeen, finalized, lastError,
          lockOwner, lockLeft, rows, events, snapshot, run, faults>>

Control == {"idle", "started", "locked", "read", "load", "write", "snapshot",
            "artifacts", "touch", "quiet", "finish", "release"}

(* The local state of a run: cp is the checkpoint it read, head the block  *)
(* number it got, done processedThroughBlock, seen eventsSeen, loaded and  *)
(* to the chunk it is about to write.                                      *)
IdleRun == [pc |-> "idle", age |-> 0, cp |-> 0, head |-> 0, done |-> 0,
            seen |-> 0, loaded |-> <<>>, to |-> 0]

Smaller(a, b) == IF a < b THEN a ELSE b
Larger(a, b) == IF a > b THEN a ELSE b

Init ==
    /\ chain \in Chains
    /\ head = StartBlock
    /\ checkpoint = StartBlock - 1 /\ headSeen = StartBlock - 1
    /\ finalized = StartBlock - 1 /\ lastError = FALSE
    /\ lockOwner = NoRun /\ lockLeft = 0
    /\ rows = NoRows /\ events = {}
    /\ snapshot = StartBlock - 1
    /\ run = [w \in Slots |-> IdleRun]
    /\ faults = 0

-----------------------------------------------------------------------------
(* The chain and the clock *)

Mine ==
    /\ head < MaxBlock
    /\ head' = head + 1
    /\ UNCHANGED <<chain, syncState, lock, tables, snapshot, run, faults>>

Running(w) == run[w].pc # "idle"

Tick ==
    /\ \A w \in Slots : Running(w) => run[w].age < RunLimit
    /\ \/ lockOwner # NoRun
       \/ \E w \in Slots : Running(w)
    /\ run' = [w \in Slots |-> IF Running(w) THEN [run[w] EXCEPT !.age = @ + 1]
                               ELSE run[w]]
    /\ lockLeft' = IF lockOwner = NoRun THEN 0
                   ELSE Larger(lockLeft - 1, -(RunLimit + 1))
    /\ UNCHANGED <<chainVars, syncState, lockOwner, tables, snapshot, faults>>

-----------------------------------------------------------------------------
(* What a run computes from what it has read *)

(* Definitions named Bad... are variants of the code with one plausible bug *)
(* each; nothing refers to them.  They show what the properties see.       *)

BadFinalBlock(h) == Larger(StartBlock - 1, h)          \* confirmations forgotten

FinalBlock(h) == Larger(StartBlock - 1, h - Confirmations)

Target(w) == FinalBlock(run[w].head)
FromBlock(w) == Larger(StartBlock, run[w].cp + 1)
RunTarget(w) == Smaller(Target(w), FromBlock(w) + ChunkSize * MaxChunks - 1)

BadEventsIn(from, to) ==                               \* off by one
    {i \in DOMAIN chain : chain[i].block \in from + 1 .. to}

\* The places of these blocks' events in the contract's log.
EventsIn(from, to) == {i \in DOMAIN chain : chain[i].block \in from .. to}

\* The events at these places, sorted by block and log index.
InOrder(places) ==
    [k \in 1 .. Cardinality(places) |->
        chain[CHOOSE i \in places : Cardinality({j \in places : j <= i}) = k]]

\* What the explorer or RPC node may answer for these blocks, sorted.
Answers(from, to) ==
    LET all == EventsIn(from, to)
    IN {InOrder(found) : found \in IF MayOmit THEN SUBSET all ELSE {all}}

Goto(w, label) == run' = [run EXCEPT ![w].pc = label]

-----------------------------------------------------------------------------
(* The steps of syncDeployment *)

\* The Cron trigger fires; the run reads the clock.  ensureDeployment inserts
\* the rows that Init already has.
Start(w) ==
    /\ run[w].pc = "idle"
    /\ run' = [run EXCEPT ![w] = [IdleRun EXCEPT !.pc = "started"]]
    /\ UNCHANGED <<chainVars, syncState, lock, tables, snapshot, faults>>

\* lock_until IS NULL OR lock_until < started
BadLeaseFree(w) == lockOwner = NoRun \/ lockLeft <= -run[w].age
BadNeverExpires(w) == lockOwner = NoRun

LeaseFree(w) == lockOwner = NoRun \/ lockLeft < -run[w].age

AcquireLease(w) ==
    /\ run[w].pc = "started"
    /\ IF LeaseFree(w)
       THEN /\ lockOwner' = w
            /\ lockLeft' = Lease - run[w].age
            /\ Goto(w, "locked")
       ELSE /\ run' = [run EXCEPT ![w] = IdleRun]      \* skipped
            /\ UNCHANGED lock
    /\ UNCHANGED <<chainVars, syncState, tables, snapshot, faults>>

BadReadState(w) ==                   \* starts over from the deployment block
    /\ run[w].pc = "locked"
    /\ run' = [run EXCEPT ![w].pc = "read", ![w].cp = StartBlock - 1,
                          ![w].done = StartBlock - 1]
    /\ UNCHANGED <<chainVars, syncState, lock, tables, snapshot, faults>>

ReadState(w) ==
    /\ run[w].pc = "locked"
    /\ run' = [run EXCEPT ![w].pc = "read", ![w].cp = checkpoint, ![w].done = checkpoint]
    /\ UNCHANGED <<chainVars, syncState, lock, tables, snapshot, faults>>

\* The error path of syncDeployment; the lease is released next.
Throw(w) ==
    /\ lastError' = TRUE
    /\ Goto(w, "release")
    /\ UNCHANGED <<chainVars, checkpoint, headSeen, finalized, lock, tables,
                   snapshot>>

ReadHead(w) ==
    /\ run[w].pc = "read"
    /\ \E h \in Larger(0, head - RpcLag) .. head :
        IF FinalBlock(h) < run[w].cp
        THEN Throw(w)
        ELSE /\ run' = [run EXCEPT ![w].pc = "load", ![w].head = h]
             /\ UNCHANGED <<chainVars, syncState, lock, tables, snapshot>>
    /\ UNCHANGED faults

\* After the loop: a run that has ever processed a block takes a snapshot.
AfterLoop(w) == IF run[w].done >= StartBlock THEN "snapshot" ELSE "quiet"

OverBudget(w, found) == run[w].seen + Len(found) > MaxEvents

\* One turn of the loop up to the answer of the explorer or RPC node.
LoadChunk(w) ==
    /\ run[w].pc = "load"
    /\ run[w].done < RunTarget(w)
    /\ LET from == run[w].done + 1
           to == Smaller(RunTarget(w), from + ChunkSize - 1)
       IN \E found \in Answers(from, to) :
            IF Len(found) > MaxEvents
            THEN Throw(w)
            ELSE /\ run' = IF OverBudget(w, found)
                           THEN [run EXCEPT ![w].pc = AfterLoop(w)]
                           ELSE [run EXCEPT ![w].pc = "write",
                                            ![w].seen = @ + Len(found),
                                            ![w].loaded = found, ![w].to = to]
                 /\ UNCHANGED <<chainVars, syncState, lock, tables, snapshot>>
    /\ UNCHANGED faults

LoopEnds(w) ==
    /\ run[w].pc = "load"
    /\ run[w].done >= RunTarget(w)
    /\ Goto(w, AfterLoop(w))
    /\ UNCHANGED <<chainVars, syncState, lock, tables, snapshot, faults>>

\* One D1 batch: the chunk's events and the checkpoint, or neither.
WriteChunk(w) ==
    /\ run[w].pc = "write"
    /\ LET after == ApplyAll([rows |-> rows, events |-> events, ok |-> TRUE],
                             run[w].loaded)
       IN IF after.ok
          THEN /\ rows' = after.rows /\ events' = after.events
               /\ checkpoint' = run[w].to
               /\ headSeen' = run[w].head
               /\ finalized' = Target(w)
               /\ lastError' = FALSE
               /\ run' = [run EXCEPT ![w].pc = "load", ![w].done = run[w].to,
                                     ![w].loaded = <<>>, ![w].to = 0]
               /\ UNCHANGED <<chainVars, lock, snapshot>>
          ELSE Throw(w)
    /\ UNCHANGED faults

BadRecordSnapshot(w) ==              \* as of the target, not of what was processed
    /\ run[w].pc = "snapshot"
    /\ snapshot' = Target(w)
    /\ Goto(w, "artifacts")
    /\ UNCHANGED <<chainVars, syncState, lock, tables, faults>>

\* VERSION, nextTaskId and totalEscrowed as of the processed block.
RecordSnapshot(w) ==
    /\ run[w].pc = "snapshot"
    /\ snapshot' = run[w].done
    /\ Goto(w, "artifacts")
    /\ UNCHANGED <<chainVars, syncState, lock, tables, faults>>

\* verifyPendingArtifacts writes only artifact_checks.
VerifyArtifacts(w) ==
    /\ run[w].pc = "artifacts"
    /\ Goto(w, IF FromBlock(w) > RunTarget(w) THEN "touch" ELSE "finish")
    /\ UNCHANGED <<chainVars, syncState, lock, tables, snapshot, faults>>

BadTouch(w) ==                       \* the old error stays
    /\ run[w].pc = "touch"
    /\ headSeen' = run[w].head /\ finalized' = Target(w)
    /\ Goto(w, "finish")
    /\ UNCHANGED <<chainVars, checkpoint, lastError, lock, tables, snapshot, faults>>

\* Nothing was new: only the head and the error are brought up to date.
Touch(w) ==
    /\ run[w].pc = "touch"
    /\ headSeen' = run[w].head /\ finalized' = Target(w) /\ lastError' = FALSE
    /\ Goto(w, "finish")
    /\ UNCHANGED <<chainVars, checkpoint, lock, tables, snapshot, faults>>

\* Nothing has ever been final: the error, if any, stays.
Quiet(w) ==
    /\ run[w].pc = "quiet"
    /\ headSeen' = run[w].head /\ finalized' = Target(w)
    /\ Goto(w, "finish")
    /\ UNCHANGED <<chainVars, checkpoint, lastError, lock, tables, snapshot, faults>>

\* finishRun logs the run in sync_runs.
FinishRun(w) ==
    /\ run[w].pc = "finish"
    /\ Goto(w, "release")
    /\ UNCHANGED <<chainVars, syncState, lock, tables, snapshot, faults>>

BadReleaseLease(w) ==                \* not restricted to the run's own token
    /\ run[w].pc = "release"
    /\ lockOwner' = NoRun /\ lockLeft' = 0
    /\ run' = [run EXCEPT ![w] = IdleRun]
    /\ UNCHANGED <<chainVars, syncState, tables, snapshot, faults>>

ReleaseLease(w) ==
    /\ run[w].pc = "release"
    /\ IF lockOwner = w THEN lockOwner' = NoRun /\ lockLeft' = 0
       ELSE UNCHANGED lock
    /\ run' = [run EXCEPT ![w] = IdleRun]
    /\ UNCHANGED <<chainVars, syncState, tables, snapshot, faults>>

\* A call of the RPC node, the explorer or the database fails, in some call
\* between two steps; a write whose answer is lost is a step and a failure.  If
\* it is the database, the error may not get recorded, but the lease is released.
Fails(w) ==
    /\ faults < MaxFaults /\ faults' = faults + 1
    /\ run[w].pc \notin {"idle", "started", "release"}
    /\ \/ Throw(w)
       \/ /\ Goto(w, "release")
          /\ UNCHANGED <<chainVars, syncState, lock, tables, snapshot>>

\* The instance dies, or the database does not answer the release either.
Crashes(w) ==
    /\ faults < MaxFaults /\ faults' = faults + 1
    /\ Running(w)
    /\ run' = [run EXCEPT ![w] = IdleRun]
    /\ UNCHANGED <<chainVars, syncState, lock, tables, snapshot>>

-----------------------------------------------------------------------------
Step(w) ==
    \/ AcquireLease(w) \/ ReadState(w) \/ ReadHead(w) \/ LoadChunk(w) \/ LoopEnds(w)
    \/ WriteChunk(w) \/ RecordSnapshot(w) \/ VerifyArtifacts(w) \/ Touch(w) \/ Quiet(w)
    \/ FinishRun(w) \/ ReleaseLease(w)

Next ==
    \/ Mine
    \/ Tick
    \/ \E w \in Slots : Start(w) \/ Step(w) \/ Fails(w) \/ Crashes(w)

Spec == Init /\ [][Next]_vars

(* The platform keeps firing the trigger and running what it started, and  *)
(* time passes; faults are never forced.                                   *)
Fairness ==
    /\ WF_vars(Mine) /\ WF_vars(Tick)
    /\ \A w \in Slots : WF_vars(Start(w)) /\ WF_vars(Step(w))

FairSpec == Spec /\ Fairness
=============================================================================
