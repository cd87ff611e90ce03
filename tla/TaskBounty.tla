----------------------------- MODULE TaskBounty -----------------------------
(***************************************************************************)
(* The escrow contract contracts/src/TaskBounty.sol together with the      *)
(* reward token it calls.                                                  *)
(*                                                                         *)
(* A transaction is atomic unless the contract calls the token:            *)
(* createTask, approveTask and cancelTask therefore take two or more       *)
(* steps, between which the token may move the money, run a callback that  *)
(* calls the contract again, or revert.  A pending call is a frame of      *)
(* `stack'; a frame keeps the world before the call, which a revert        *)
(* restores.  A call whose require fails reverts at once and is not a step.*)
(***************************************************************************)
EXTENDS Integers, Sequences

CONSTANTS
    Accounts,        \* externally owned accounts and contracts that call in
    Escrow,          \* the TaskBounty contract's own address
    NoOne,           \* address(0)
    Metadata,        \* task documents offered to createTask
    Results,         \* result documents offered to submitWork
    EmptyURI,        \* the empty string
    ZeroHash,        \* bytes32(0)
    MaxTasks,        \* bound: tasks ever created
    MaxReward,       \* bound: largest reward asked for
    InitialBalance,  \* reward tokens each account starts with
    MaxUint,         \* the largest uint256
    Skims,           \* what the token may withhold of a transfer; 0 if exact
    MaxDepth         \* bound: pending guarded calls, were they not excluded

NoArtifact == [uri |-> EmptyURI, hash |-> ZeroHash]

ASSUME AddressAssumption == Escrow \notin Accounts /\ NoOne \notin Accounts
ASSUME BoundAssumption ==
    /\ MaxTasks \in Nat /\ MaxReward \in Nat /\ InitialBalance \in Nat
    /\ MaxUint \in Nat /\ InitialBalance <= MaxUint
    /\ MaxDepth \in Nat
ASSUME SkimAssumption == Skims \subseteq Int

TaskIds == 1 .. MaxTasks
Holders == Accounts \cup {Escrow}
Status == {"Open", "InProgress", "Submitted", "Completed", "Cancelled"}

Artifact == Metadata \cup Results \cup {NoArtifact}
Task == [creator : Accounts \cup {NoOne}, worker : Accounts \cup {NoOne},
         reward : Nat, metadata : Artifact, result : Artifact,
         status : Status, exists : BOOLEAN]

\* What an unwritten entry of a Solidity mapping reads as.
NoTask == [creator |-> NoOne, worker |-> NoOne, reward |-> 0,
           metadata |-> NoArtifact, result |-> NoArtifact,
           status |-> "Open", exists |-> FALSE]

VARIABLES
    nextTaskId, totalEscrowed, tasks,   \* the contract's storage
    entered,                            \* ReentrancyGuard's status
    balance,                            \* the token's balances
    paid,       \* per task, what the token moved out of escrow for it
    log,        \* per task, the events of the contract in order
    stack       \* the pending calls into the token, innermost last

storage == <<nextTaskId, totalEscrowed, tasks>>
vars == <<nextTaskId, totalEscrowed, tasks, entered, balance, paid, log, stack>>

World == [nextTaskId |-> nextTaskId, totalEscrowed |-> totalEscrowed,
          tasks |-> tasks, entered |-> entered, balance |-> balance,
          paid |-> paid, log |-> log]

Restore(w) ==
    /\ nextTaskId' = w.nextTaskId /\ totalEscrowed' = w.totalEscrowed
    /\ tasks' = w.tasks /\ entered' = w.entered /\ balance' = w.balance
    /\ paid' = w.paid /\ log' = w.log

Init ==
    /\ nextTaskId = 1
    /\ totalEscrowed = 0
    /\ tasks = [id \in TaskIds |-> NoTask]
    /\ entered = FALSE
    /\ balance = [h \in Holders |-> IF h = Escrow THEN 0 ELSE InitialBalance]
    /\ paid = [id \in TaskIds |-> <<>>]
    /\ log = [id \in TaskIds |-> <<>>]
    /\ stack = <<>>

-----------------------------------------------------------------------------
(* Modifiers and internal checks *)

(* Definitions named Bad... are variants of the code with one plausible bug *)
(* each; nothing below refers to them.  They show what the properties see.  *)

BadNonReentrant == TRUE                      \* the modifier is missing

NonReentrant == ~entered

ValidateArtifact(artifact) ==
    artifact.uri # EmptyURI /\ artifact.hash # ZeroHash

GetTask(id) == tasks[id].exists

RequireStatus(id, expected) == tasks[id].status = expected

Emit(id, name, who) ==
    log' = [log EXCEPT ![id] = Append(@, [name |-> name, who |-> who])]

(* The guarded functions stop at their call of the token. *)
CallToken(frame) ==
    /\ Len(stack) < MaxDepth
    /\ stack' = Append(stack, frame)

Top == stack[Len(stack)]
Pop == stack' = SubSeq(stack, 1, Len(stack) - 1)

-----------------------------------------------------------------------------
(* The token, external to the repository *)

CanMove(from, to, amount, arrives) ==
    /\ balance[from] >= amount
    /\ balance[to] + arrives \in 0 .. MaxUint

\* transferFrom and transfer: the payer is debited what was asked for, the
\* payee credited what the token does not withhold.
TokenMoves(skim) ==
    /\ stack # <<>> /\ ~Top.moved
    /\ LET frame == Top
           arrives == frame.amount - skim
       IN /\ CanMove(frame.payer, frame.payee, frame.amount, arrives)
          /\ frame.payer = Escrow => skim \in 0 .. frame.amount
          /\ balance' = [balance EXCEPT ![frame.payer] = @ - frame.amount,
                                        ![frame.payee] = @ + arrives]
          /\ paid' = IF frame.payer = Escrow
                     THEN [paid EXCEPT ![frame.id] =
                               Append(@, [to |-> frame.payee,
                                          amount |-> frame.amount])]
                     ELSE paid
    /\ stack' = [stack EXCEPT ![Len(stack)].moved = TRUE]
    /\ UNCHANGED <<storage, entered, log>>

\* The token reverts or returns false, or the callback reverts: SafeERC20
\* reverts the whole call.
TokenReverts ==
    /\ stack # <<>>
    /\ Restore(Top.world)
    /\ Pop

\* Anyone may send tokens to the contract without calling it.
Donate(from, amount) ==
    /\ amount > 0 /\ CanMove(from, Escrow, amount, amount)
    /\ balance' = [balance EXCEPT ![from] = @ - amount, ![Escrow] = @ + amount]
    /\ UNCHANGED <<storage, entered, paid, log, stack>>

-----------------------------------------------------------------------------
(* createTask *)

CreateTask(caller, reward, metadata) ==
    /\ nextTaskId + Len(stack) <= MaxTasks
    /\ NonReentrant
    /\ reward # 0
    /\ ValidateArtifact(metadata)
    /\ CallToken([op |-> "createTask", id |-> 0, metadata |-> metadata,
                  payer |-> caller, payee |-> Escrow, amount |-> reward,
                  balanceBefore |-> balance[Escrow], moved |-> FALSE,
                  world |-> World])
    /\ entered' = TRUE
    /\ UNCHANGED <<storage, balance, paid, log>>

BadReceived(frame) == frame.amount           \* trusts the token's transfer

Received(frame) ==
    IF balance[Escrow] >= frame.balanceBefore
    THEN balance[Escrow] - frame.balanceBefore
    ELSE 0

\* The amount check, and the checked addition to totalEscrowed.
EscrowAccepted(frame) ==
    /\ Received(frame) = frame.amount
    /\ totalEscrowed + frame.amount <= MaxUint

CreateReturns ==
    /\ stack # <<>> /\ Top.op = "createTask" /\ Top.moved
    /\ EscrowAccepted(Top)
    /\ LET taskId == nextTaskId
           frame == Top
       IN /\ nextTaskId' = taskId + 1
          /\ tasks' = [tasks EXCEPT ![taskId] =
                 [creator |-> frame.payer, worker |-> NoOne,
                  reward |-> frame.amount, metadata |-> frame.metadata,
                  result |-> NoArtifact, status |-> "Open", exists |-> TRUE]]
          /\ totalEscrowed' = totalEscrowed + frame.amount
          /\ Emit(taskId, "TaskCreated", frame.payer)
    /\ entered' = FALSE
    /\ Pop
    /\ UNCHANGED <<balance, paid>>

CreateRejects ==
    /\ stack # <<>> /\ Top.op = "createTask" /\ Top.moved
    /\ ~EscrowAccepted(Top)
    /\ Restore(Top.world)
    /\ Pop

-----------------------------------------------------------------------------
(* acceptTask and submitWork are not guarded: a callback may run them. *)

BadAcceptRevives(caller, id) ==              \* no status check
    /\ GetTask(id)
    /\ caller # tasks[id].creator
    /\ tasks' = [tasks EXCEPT ![id].worker = caller, ![id].status = "InProgress"]
    /\ Emit(id, "TaskAccepted", caller)
    /\ UNCHANGED <<nextTaskId, totalEscrowed, entered, balance, paid, stack>>

BadAcceptTaken(caller, id) ==                \* a second worker may take over
    /\ GetTask(id)
    /\ RequireStatus(id, "Open") \/ RequireStatus(id, "InProgress")
    /\ caller # tasks[id].creator
    /\ tasks' = [tasks EXCEPT ![id].worker = caller, ![id].status = "InProgress"]
    /\ Emit(id, "TaskAccepted", caller)
    /\ UNCHANGED <<nextTaskId, totalEscrowed, entered, balance, paid, stack>>

AcceptTask(caller, id) ==
    /\ GetTask(id)
    /\ RequireStatus(id, "Open")
    /\ caller # tasks[id].creator
    /\ tasks' = [tasks EXCEPT ![id].worker = caller, ![id].status = "InProgress"]
    /\ Emit(id, "TaskAccepted", caller)
    /\ UNCHANGED <<nextTaskId, totalEscrowed, entered, balance, paid, stack>>

BadSubmitAgain(caller, id, result) ==        \* work may be resubmitted
    /\ GetTask(id)
    /\ RequireStatus(id, "InProgress") \/ RequireStatus(id, "Submitted")
    /\ caller = tasks[id].worker
    /\ ValidateArtifact(result)
    /\ tasks' = [tasks EXCEPT ![id].result = result, ![id].status = "Submitted"]
    /\ Emit(id, "WorkSubmitted", caller)
    /\ UNCHANGED <<nextTaskId, totalEscrowed, entered, balance, paid, stack>>

SubmitWork(caller, id, result) ==
    /\ GetTask(id)
    /\ RequireStatus(id, "InProgress")
    /\ caller = tasks[id].worker
    /\ ValidateArtifact(result)
    /\ tasks' = [tasks EXCEPT ![id].result = result, ![id].status = "Submitted"]
    /\ Emit(id, "WorkSubmitted", caller)
    /\ UNCHANGED <<nextTaskId, totalEscrowed, entered, balance, paid, stack>>

-----------------------------------------------------------------------------
(* approveTask and cancelTask: effects, then the token, then the event. *)

Settle(op, caller, id, from, to, payee) ==
    /\ NonReentrant
    /\ GetTask(id)
    /\ RequireStatus(id, from)
    /\ caller = tasks[id].creator
    /\ totalEscrowed >= tasks[id].reward
    /\ CallToken([op |-> op, id |-> id, metadata |-> NoArtifact,
                  payer |-> Escrow, payee |-> payee,
                  amount |-> tasks[id].reward,
                  balanceBefore |-> balance[Escrow], moved |-> FALSE,
                  world |-> World])
    /\ tasks' = [tasks EXCEPT ![id].status = to]
    /\ totalEscrowed' = totalEscrowed - tasks[id].reward
    /\ entered' = TRUE
    /\ UNCHANGED <<nextTaskId, balance, paid, log>>

BadApproveUnsubmitted(caller, id) ==         \* no status check
    Settle("approveTask", caller, id, tasks[id].status, "Completed", tasks[id].worker)

ApproveTask(caller, id) ==
    Settle("approveTask", caller, id, "Submitted", "Completed", tasks[id].worker)

BadCancelTwice(caller, id) ==                \* no status check
    Settle("cancelTask", caller, id, tasks[id].status, "Cancelled", tasks[id].creator)

BadCancelTaken(caller, id) ==                \* cancels what a worker has taken
    Settle("cancelTask", caller, id, "InProgress", "Cancelled", tasks[id].creator)

CancelTask(caller, id) ==
    Settle("cancelTask", caller, id, "Open", "Cancelled", tasks[id].creator)

SettleReturns ==
    /\ stack # <<>> /\ Top.op \in {"approveTask", "cancelTask"} /\ Top.moved
    /\ Emit(Top.id,
            IF Top.op = "approveTask" THEN "TaskCompleted" ELSE "TaskCancelled",
            Top.payee)
    /\ entered' = FALSE
    /\ Pop
    /\ UNCHANGED <<storage, balance, paid>>

-----------------------------------------------------------------------------
Next ==
    \/ \E a \in Accounts, r \in 0 .. MaxReward, m \in Metadata : CreateTask(a, r, m)
    \/ \E skim \in Skims : TokenMoves(skim)
    \/ TokenReverts
    \/ \E a \in Accounts, n \in 1 .. MaxReward : Donate(a, n)
    \/ CreateReturns
    \/ CreateRejects
    \/ \E a \in Accounts, id \in TaskIds : AcceptTask(a, id)
    \/ \E a \in Accounts, id \in TaskIds, r \in Results : SubmitWork(a, id, r)
    \/ \E a \in Accounts, id \in TaskIds : ApproveTask(a, id)
    \/ \E a \in Accounts, id \in TaskIds : CancelTask(a, id)
    \/ SettleReturns

Spec == Init /\ [][Next]_vars
=============================================================================
