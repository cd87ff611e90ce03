------------------------ MODULE TaskBountyProperties ------------------------
(***************************************************************************)
(* What must be true of the escrow contract of module TaskBounty.          *)
(***************************************************************************)
EXTENDS TaskBounty

Live(t) == t.exists /\ t.status \in {"Open", "InProgress", "Submitted"}
Owed(t) == IF Live(t) THEN t.reward ELSE 0

Idle == stack = <<>>

EventName == {"TaskCreated", "TaskAccepted", "WorkSubmitted",
              "TaskCompleted", "TaskCancelled"}

Payment == [to : Accounts, amount : Nat]
Event == [name : EventName, who : Accounts]

WorldType ==
    [nextTaskId : 1 .. MaxTasks + 1, totalEscrowed : Nat,
     tasks : [TaskIds -> Task], entered : BOOLEAN, balance : [Holders -> Nat],
     paid : [TaskIds -> Seq(Payment)], log : [TaskIds -> Seq(Event)]]

Frame == [op : {"createTask", "approveTask", "cancelTask"}, id : 0 .. MaxTasks,
          metadata : Artifact, payer : Holders, payee : Holders, amount : Nat,
          balanceBefore : Nat, moved : BOOLEAN, world : WorldType]

\* The variables of the contract, the token and the pending calls have their
\* types; in particular the checked subtractions never leave the naturals.
TypeOK == World \in WorldType /\ stack \in Seq(Frame)

-----------------------------------------------------------------------------
\* Between transactions the contract holds at least what it owes to the
\* unfinished tasks, whatever the token withholds or its callbacks do
\* (createTask's balance check and the nonReentrant modifiers).
Solvent == Idle => balance[Escrow] >= totalEscrowed

\* When approveTask or cancelTask asks for its transfer, the contract can pay
\* it and still owe nothing it does not hold: no payout fails for want of funds.
PayoutFunded ==
    \A i \in 1 .. Len(stack) :
        stack[i].payer = Escrow =>
            balance[Escrow] >= totalEscrowed
                               + (IF stack[i].moved THEN 0 ELSE stack[i].amount)

\* totalEscrowed is the sum of the rewards of the tasks that are neither
\* completed nor cancelled, also in the middle of a call: run[i] is the total
\* over the tasks 1..i.  The health snapshot of the indexer relies on it.
BooksBalance ==
    \E run \in [0 .. MaxTasks -> 0 .. totalEscrowed] :
        /\ run[0] = 0 /\ run[MaxTasks] = totalEscrowed
        /\ \A i \in TaskIds : run[i] = run[i - 1] + Owed(tasks[i])
        /\ \A i, j \in 0 .. MaxTasks : i <= j => run[i] <= run[j]

\* What must have left escrow for a task.
Due(t) == CASE t.status = "Completed" -> <<[to |-> t.worker, amount |-> t.reward]>>
            [] t.status = "Cancelled" -> <<[to |-> t.creator, amount |-> t.reward]>>
            [] OTHER -> <<>>

\* Between transactions a task's reward has left escrow exactly once if the
\* task is final, to its worker if completed and to its creator if cancelled,
\* and not at all before.
PaidOnce == Idle => \A id \in TaskIds : paid[id] = Due(tasks[id])

\* The events one reads of a task between transactions: one per transition
\* the task has made, in the order of the lifecycle, naming who made it.
Story(t) ==
    LET said(name, who, cond) ==
            IF cond THEN <<[name |-> name, who |-> who]>> ELSE <<>>
    IN said("TaskCreated", t.creator, t.exists)
       \o said("TaskAccepted", t.worker, t.worker # NoOne)
       \o said("WorkSubmitted", t.worker, t.result # NoArtifact)
       \o said("TaskCompleted", t.worker, t.status = "Completed")
       \o said("TaskCancelled", t.creator, t.status = "Cancelled")

\* Whoever replays the events of a task, as the indexer does, gets its storage:
\* no transition goes unreported, is reported twice or out of order, although
\* approveTask and cancelTask emit only after the token's callback.
LogTellsTheStory == Idle => \A id \in TaskIds : log[id] = Story(tasks[id])

\* Storage of one task is coherent: it exists iff its id was handed out, it has
\* a worker other than its creator iff it was accepted, and a valid result iff
\* one was submitted.
TaskCoherent ==
    \A id \in TaskIds :
        LET t == tasks[id]
        IN /\ t.exists <=> id < nextTaskId
           /\ t.exists => /\ t.reward > 0 /\ ValidateArtifact(t.metadata)
                          /\ t.creator \in Accounts /\ t.worker # t.creator
           /\ t.worker \in Accounts <=>
                  t.status \in {"InProgress", "Submitted", "Completed"}
           /\ t.status \in {"Submitted", "Completed"} => ValidateArtifact(t.result)
           /\ t.status \notin {"Submitted", "Completed"} => t.result = NoArtifact

-----------------------------------------------------------------------------
(* The world as of the last finished transaction. *)
Committed == IF Idle THEN World ELSE stack[1].world

\* A document hash once committed is never replaced: neither the task document
\* of an existing task nor the result document of submitted work.
CommitmentsAreFixed ==
    [][\A id \in TaskIds :
        LET old == Committed.tasks[id]
            new == Committed'.tasks[id]
        IN /\ old.exists => new.metadata = old.metadata
           /\ old.result # NoArtifact => new.result = old.result]_vars

Stage(t) ==
    IF ~t.exists THEN "none"
    ELSE CASE t.status = "Open"       -> "open"
           [] t.status = "InProgress" -> "taken"
           [] t.status = "Submitted"  -> "delivered"
           [] t.status = "Completed"  -> "paid"
           [] t.status = "Cancelled"  -> "refunded"

(* The deal a task is, and what the transactions so far have made of both. *)
DealOf(t) ==
    [stage |-> Stage(t), funder |-> t.creator, worker |-> t.worker, amount |-> t.reward]
Deals == [id \in TaskIds |-> DealOf(Committed.tasks[id])]
Vault == Committed.balance[Escrow]

Promise == INSTANCE EscrowPromise WITH
    Ids <- TaskIds, Parties <- Accounts, Nobody <- NoOne, MaxAmount <- MaxReward,
    deals <- Deals, vault <- Vault

\* Seen transaction by transaction the contract implements module EscrowPromise:
\* money enters with a funded task and leaves once, to the party due, and
\* nothing else ever lowers what the contract holds.
KeepsPromise == Promise!Spec
=============================================================================
