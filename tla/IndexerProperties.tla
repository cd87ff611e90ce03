------------------------- MODULE IndexerProperties -------------------------
(***************************************************************************)
(* What must be true of the indexer of module Indexer.                     *)
(***************************************************************************)
EXTENDS Indexer

Working == Control \ {"idle", "started"}

-----------------------------------------------------------------------------
(* The contract's own state, by a definition independent of the projection *)

ChainEvents == {chain[i] : i \in DOMAIN chain}
UpTo(b) == {e \in ChainEvents : e.block <= b}
Happened(t, b) == {e \in UpTo(b) : e.task = t}

(* The row a set of events of one task amounts to. *)
TruthOf(es) ==
    LET names == {e.name : e \in es}
        the(n) == CHOOSE e \in es : e.name = n
    IN IF es = {} THEN NoRow
       ELSE [status |-> IF "TaskCancelled" \in names THEN "Cancelled"
                        ELSE IF "TaskCompleted" \in names THEN "Completed"
                        ELSE IF "WorkSubmitted" \in names THEN "Submitted"
                        ELSE IF "TaskAccepted" \in names THEN "InProgress"
                        ELSE "Open",
             worker |-> IF "TaskAccepted" \in names THEN the("TaskAccepted").who ELSE Nobody,
             at |-> [n \in EventName |-> IF n \in names THEN the(n).block ELSE 0],
             updated |-> (CHOOSE e \in es : \A f \in es : f.block <= e.block).block]

TruthAt(t, b) == TruthOf(Happened(t, b))

(* GET /v1/health answers "healthy". *)
Healthy ==
    /\ ~lastError
    /\ snapshot >= StartBlock
    /\ snapshot = checkpoint
    /\ Larger(0, finalized - checkpoint) = 0

-----------------------------------------------------------------------------
\* The lease of acquireLease lets one run at a time do the sync (backend/README.md:65).
LeaseExcludes ==
    \A v, w \in Slots : run[v].pc \in Working /\ run[w].pc \in Working => v = w

\* The milestones the task rows show: an event's time is NULL (0) or its block.
Milestones ==
    UNION {{<<t, n, rows[t].at[n]>> : n \in {m \in EventName : rows[t].at[m] # 0}} :
               t \in {u \in Tasks : rows[u] # NoRow}}

\* The event that each status is the mark of.
MarkOf(status) ==
    CASE status = "Open"       -> "TaskCreated"
      [] status = "InProgress" -> "TaskAccepted"
      [] status = "Submitted"  -> "WorkSubmitted"
      [] status = "Completed"  -> "TaskCompleted"
      [] status = "Cancelled"  -> "TaskCancelled"
      [] OTHER                 -> "none"

Stages == [t \in Tasks |-> MarkOf(rows[t].status)]

Mirror == INSTANCE MirrorPromise WITH
    Subjects <- Tasks, First <- StartBlock, Depth <- Confirmations, Nothing <- "none",
    history <- chain, newest <- head, upto <- checkpoint,
    shown <- Milestones, stage <- Stages

\* The indexer implements module MirrorPromise: whatever runs do, the timelines a
\* reader finds are those of the contract's log up to the checkpoint, each task's status
\* is the one its last event up to there brings about, the checkpoint
\* never goes back (what was indexed stays indexed) and moves over final blocks only,
\* rows and checkpoint in one step.
KeepsMirror == Mirror!Spec

\* Rows, events and checkpoint always agree: the task rows are exactly what the
\* contract's events up to the checkpoint amount to, and indexed_events holds
\* exactly those events, at every point of every run and after every failure.
ProjectionExact ==
    /\ events = UpTo(checkpoint)
    /\ \A t \in Tasks : rows[t] = TruthAt(t, checkpoint)

\* Nothing is read from blocks that could still be reorganised: what is indexed is
\* Confirmations deep, and the three block numbers of sync_state are in order,
\* although they are written by different statements from what a run remembers.
OnlyFinal ==
    /\ checkpoint <= finalized /\ finalized <= Larger(StartBlock - 1, headSeen)
    /\ headSeen <= Larger(head, StartBlock - 1)
    /\ checkpoint >= StartBlock => checkpoint + Confirmations <= head

\* Projecting events that are indexed already leaves the task rows as they are
\* (backend/README.md:12, "Project them idempotently").
ReplayIdempotent ==
    [][(\E w \in Slots :
           /\ run[w].pc = "write" /\ run'[w].pc = "load"
           /\ \A i \in DOMAIN run[w].loaded : run[w].loaded[i] \in events)
       => rows' = rows]_vars

\* No step of a run takes the lease from another run before it has expired.
LeaseNotStolen ==
    [][\A w \in Slots :
        lockOwner = w /\ lockOwner' # w =>
            \/ lockLeft < 0
            \/ run[w].pc = "release" /\ run'[w].pc = "idle"]_vars

\* Even when runs overlap no event is lost: each event up to the checkpoint is
\* recorded, and so is its block in the timeline of its task's row.
NoEventLost ==
    /\ UpTo(checkpoint) \subseteq events
    /\ \A e \in events : /\ e \in ChainEvents
                         /\ rows[e.task] # NoRow
                         /\ rows[e.task].at[e.name] = e.block

\* Even when the explorer leaves events out, each task row is exactly what the
\* recorded events of the task amount to, and an event without a task row is
\* never recorded (the foreign key fails the batch, the checkpoint stays).
RowsMatchEvents ==
    \A t \in Tasks : rows[t] = TruthOf({e \in events : e.task = t})

\* The indexer catches up: once the chain stands still and faults end, it is
\* healthy for good at the newest final block.
CatchesUp == <>[](Healthy /\ checkpoint = FinalBlock(MaxBlock))

\* A lease never outlives the run that took it for good: a crashed run's lease
\* is taken over or released, and the sync goes on.
LeaseComesFree == \A w \in Slots : (lockOwner = w /\ ~Running(w)) ~> (lockOwner # w)

\* Health notices that nothing is indexed any more: it does not for ever answer
\* "healthy" while confirmed blocks wait (docs/read-layer-architecture.md:67,
\* "only when the protocol snapshot and durable checkpoint both reach the current
\* finalized target with zero lag").
HealthNotices == []<>(Healthy => checkpoint = FinalBlock(head))

(* Runs in flight go on and the chain grows, but the Cron trigger may stop. *)
CronMayStop == Spec /\ WF_vars(Mine) /\ WF_vars(Tick) /\ \A w \in Slots : WF_vars(Step(w))
=============================================================================
