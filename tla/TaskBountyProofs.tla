-------------------------- MODULE TaskBountyProofs --------------------------
(***************************************************************************)
(* Theorems about the escrow contract, for every set of accounts, every    *)
(* bound and every quirk of the token.                                     *)
(***************************************************************************)
EXTENDS TaskBountyProperties, TLAPS

(* TaskCoherent of any tasks and counter, so that it can be said of the    *)
(* world a revert would restore.                                           *)
Coherent(ts, next) ==
    \A id \in TaskIds :
        LET t == ts[id]
        IN /\ t.exists <=> id < next
           /\ t.exists => /\ t.reward > 0 /\ ValidateArtifact(t.metadata)
                          /\ t.creator \in Accounts /\ t.worker # t.creator
           /\ t.worker \in Accounts <=>
                  t.status \in {"InProgress", "Submitted", "Completed"}
           /\ t.status \in {"Submitted", "Completed"} => ValidateArtifact(t.result)
           /\ t.status \notin {"Submitted", "Completed"} => t.result = NoArtifact

(* A pending createTask: nothing is booked yet, and what the escrow held   *)
(* before the transfer covered its debts.                                  *)
CreateFrame(f) ==
    /\ f.payer \in Accounts /\ f.payee = Escrow
    /\ f.amount > 0 /\ ValidateArtifact(f.metadata)
    /\ nextTaskId <= MaxTasks
    /\ f.balanceBefore >= totalEscrowed

(* A pending payout: already booked, and still covered if not yet moved. *)
PayoutFrame(f) ==
    /\ f.id \in TaskIds /\ f.payer = Escrow /\ f.payee \in Accounts
    /\ balance[Escrow] >= totalEscrowed + (IF f.moved THEN 0 ELSE f.amount)

(* What a revert of the call would restore. *)
WorldOK(w) ==
    /\ w \in WorldType /\ ~w.entered
    /\ w.balance[Escrow] >= w.totalEscrowed
    /\ Coherent(w.tasks, w.nextTaskId)

FrameOK(f) ==
    /\ f \in Frame
    /\ WorldOK(f.world)
    /\ f.op = "createTask" => CreateFrame(f)
    /\ f.op # "createTask" => PayoutFrame(f)

(* The guard keeps the stack at one call. *)
StackOK ==
    \/ stack = <<>> /\ ~entered /\ balance[Escrow] >= totalEscrowed
    \/ entered /\ \E f \in Frame : stack = <<f>> /\ FrameOK(f)

IInv == World \in WorldType /\ TaskCoherent /\ StackOK

-----------------------------------------------------------------------------
LEMMA InitIInv == Init => IInv
<1> SUFFICES ASSUME Init PROVE IInv
  OBVIOUS
<1> USE AddressAssumption, BoundAssumption DEF Init
<1>1. NoTask \in Task
  BY DEF NoTask, Task, Artifact, Status
<1>2. World \in WorldType
  <2>1. nextTaskId \in 1 .. MaxTasks + 1 /\ totalEscrowed \in Nat
    OBVIOUS
  <2>5. entered \in BOOLEAN
    OBVIOUS
  <2>2. tasks \in [TaskIds -> Task]
    BY <1>1
  <2>3. balance \in [Holders -> Nat]
    BY DEF Holders
  <2>4. paid \in [TaskIds -> Seq(Payment)] /\ log \in [TaskIds -> Seq(Event)]
    OBVIOUS
  <2> QED
    BY <2>1, <2>2, <2>3, <2>4, <2>5 DEF World, WorldType
<1>3. TaskCoherent
  BY DEF TaskCoherent, NoTask, TaskIds
<1>4. StackOK
  BY DEF StackOK, Holders
<1> QED
  BY <1>2, <1>3, <1>4 DEF IInv

(* The invariant is enough for the properties. *)
LEMMA IInvImplies == IInv => TypeOK /\ TaskCoherent /\ Solvent /\ PayoutFunded
<1> SUFFICES ASSUME IInv PROVE TypeOK /\ TaskCoherent /\ Solvent /\ PayoutFunded
  OBVIOUS
<1>1. CASE stack = <<>>
  BY <1>1 DEF IInv, StackOK, TypeOK, Solvent, PayoutFunded, Idle
<1>2. CASE stack # <<>>
  <2>1. PICK f \in Frame : stack = <<f>> /\ FrameOK(f)
    BY <1>2 DEF IInv, StackOK
  <2>2. TypeOK /\ TaskCoherent /\ Solvent
    BY <2>1 DEF IInv, TypeOK, Solvent, Idle
  <2>3. PayoutFunded
    BY <2>1, AddressAssumption DEF PayoutFunded, FrameOK, CreateFrame, PayoutFrame
  <2> QED
    BY <2>2, <2>3
<1> QED
  BY <1>1, <1>2

-----------------------------------------------------------------------------
(* What the steps need to know of the stack. *)
LEMMA StackFacts ==
    ASSUME IInv, stack # <<>>
    PROVE  /\ Len(stack) = 1 /\ stack = <<Top>> /\ Top \in Frame /\ FrameOK(Top)
           /\ entered
           /\ SubSeq(stack, 1, Len(stack) - 1) = <<>>
<1>1. PICK f \in Frame : stack = <<f>> /\ FrameOK(f)
  BY DEF IInv, StackOK
<1>2. Top = f /\ Len(stack) = 1
  BY <1>1 DEF Top
<1>3. SubSeq(stack, 1, Len(stack) - 1) = <<>>
  BY <1>2
<1>4. entered
  BY DEF IInv, StackOK
<1> QED
  BY <1>1, <1>2, <1>3, <1>4

LEMMA NotEntered == ASSUME IInv, ~entered PROVE stack = <<>> /\ balance[Escrow] >= totalEscrowed
  BY DEF IInv, StackOK

LEMMA Fields ==
    ASSUME IInv
    PROVE  /\ nextTaskId \in 1 .. MaxTasks + 1 /\ totalEscrowed \in Nat
           /\ tasks \in [TaskIds -> Task] /\ entered \in BOOLEAN
           /\ balance \in [Holders -> Nat]
           /\ paid \in [TaskIds -> Seq(Payment)] /\ log \in [TaskIds -> Seq(Event)]
  BY DEF IInv, World, WorldType

(* A call that reverts restores a world that was between transactions. *)
LEMMA RestoreIInv ==
    ASSUME IInv, stack # <<>>, Restore(Top.world), Pop PROVE IInv'
<1> DEFINE w == Top.world
<1>1. WorldOK(w) /\ stack' = <<>>
  BY StackFacts DEF FrameOK, Pop
<1>2. World' = w
  BY <1>1 DEF Restore, World, WorldOK, WorldType
<1>3. World' \in WorldType
  BY <1>1, <1>2 DEF WorldOK
<1>4. TaskCoherent'
  BY <1>1 DEF WorldOK, Coherent, TaskCoherent, Restore
<1>5. StackOK'
  BY <1>1 DEF WorldOK, StackOK, Restore
<1> QED
  BY <1>3, <1>4, <1>5 DEF IInv

-----------------------------------------------------------------------------
(* One lemma per action. *)

(* The world before a guarded call can be restored. *)
LEMMA WorldIsOK == ASSUME IInv, ~entered PROVE WorldOK(World)
<1>1. balance[Escrow] >= totalEscrowed
  BY NotEntered
<1>2. Coherent(tasks, nextTaskId)
  BY DEF IInv, TaskCoherent, Coherent
<1> QED
  BY <1>1, <1>2 DEF IInv, WorldOK, World

LEMMA CreateStep ==
    ASSUME IInv, NEW caller \in Accounts, NEW reward \in 0 .. MaxReward,
           NEW metadata \in Metadata, CreateTask(caller, reward, metadata)
    PROVE IInv'
\* g is the frame as a value, the same before and after the step.
<1>0. PICK g : g = [op |-> "createTask", id |-> 0, metadata |-> metadata,
                    payer |-> caller, payee |-> Escrow, amount |-> reward,
                    balanceBefore |-> balance[Escrow], moved |-> FALSE,
                    world |-> World]
  OBVIOUS
<1> USE BoundAssumption
<1>1. stack = <<>> /\ ~entered /\ balance[Escrow] >= totalEscrowed
  BY NotEntered DEF CreateTask, NonReentrant
<1>2. g \in Frame
  <2>1. balance[Escrow] \in Nat
    BY Fields DEF Holders
  <2>2. World \in WorldType
    BY DEF IInv
  <2>3. reward \in Nat /\ 0 \in 0 .. MaxTasks
    OBVIOUS
  <2>4. metadata \in Artifact /\ caller \in Holders /\ Escrow \in Holders
    BY DEF Artifact, Holders
  <2> QED
    BY <1>0, <2>1, <2>2, <2>3, <2>4 DEF Frame
<1>3. stack' = <<g>>
  BY <1>0, <1>1 DEF CreateTask, CallToken
<1>4. World' \in WorldType
  <2>1. entered' \in BOOLEAN
    BY DEF CreateTask
  <2> QED
    BY <2>1, Fields DEF CreateTask, storage, World, WorldType
<1>5. TaskCoherent'
  BY DEF IInv, TaskCoherent, CreateTask, storage
<1>6. CreateFrame(g)'
  <2>1. nextTaskId <= MaxTasks
    BY <1>1, Fields DEF CreateTask
  <2>2. g.amount > 0
    BY <1>0 DEF CreateTask
  <2>3. g.balanceBefore >= totalEscrowed
    BY <1>0, <1>1
  <2> QED
    BY <1>0, <2>1, <2>2, <2>3 DEF CreateFrame, CreateTask, storage
<1>7. FrameOK(g)'
  BY <1>0, <1>1, <1>2, <1>6, WorldIsOK DEF FrameOK
<1>8. StackOK'
  <2>1. entered'
    BY DEF CreateTask
  <2> QED
    BY <1>2, <1>3, <1>7, <2>1 DEF StackOK
<1> QED
  BY <1>4, <1>5, <1>8 DEF IInv

LEMMA SettleStep ==
    ASSUME IInv, NEW caller \in Accounts, NEW id \in TaskIds, NEW payee \in Accounts,
           NEW op \in {"approveTask", "cancelTask"}, NEW from, NEW to,
           \/ from = "Submitted" /\ to = "Completed"
           \/ from = "Open" /\ to = "Cancelled",
           Settle(op, caller, id, from, to, payee)
    PROVE IInv'
<1>0. PICK g : g = [op |-> op, id |-> id, metadata |-> NoArtifact,
                    payer |-> Escrow, payee |-> payee, amount |-> tasks[id].reward,
                    balanceBefore |-> balance[Escrow], moved |-> FALSE,
                    world |-> World]
  OBVIOUS
<1> USE BoundAssumption
<1>1. stack = <<>> /\ ~entered /\ balance[Escrow] >= totalEscrowed
  BY NotEntered DEF Settle, NonReentrant
<1>t. tasks[id] \in Task /\ tasks[id].reward \in Nat
  BY Fields DEF Task
<1>2. g \in Frame
  <2>1. balance[Escrow] \in Nat
    BY Fields DEF Holders
  <2>2. World \in WorldType
    BY DEF IInv
  <2>3. id \in 0 .. MaxTasks
    BY DEF TaskIds
  <2>4. NoArtifact \in Artifact /\ payee \in Holders /\ Escrow \in Holders
    BY DEF Artifact, Holders
  <2> QED
    BY <1>0, <1>t, <2>1, <2>2, <2>3, <2>4 DEF Frame
<1>3. stack' = <<g>>
  BY <1>0, <1>1 DEF Settle, CallToken
<1>5. tasks' = [tasks EXCEPT ![id].status = to] /\ tasks[id].status = from /\ tasks[id].exists
  BY DEF Settle, RequireStatus, GetTask
<1>6. tasks' \in [TaskIds -> Task]
  BY <1>5, <1>t, Fields DEF Task, Status
<1>7. totalEscrowed' = totalEscrowed - tasks[id].reward /\ totalEscrowed' \in Nat
  BY <1>t, Fields DEF Settle
<1>8. World' \in WorldType
  <2>1. entered' \in BOOLEAN
    BY DEF Settle
  <2> QED
    BY <1>6, <1>7, <2>1, Fields DEF Settle, World, WorldType
<1>9. TaskCoherent'
  <2> SUFFICES Coherent(tasks, nextTaskId) => Coherent(tasks', nextTaskId')
    BY DEF IInv, TaskCoherent, Coherent
  <2>1. nextTaskId' = nextTaskId
    BY DEF Settle
  <2>2. CASE from = "Submitted" /\ to = "Completed"
    BY <1>5, <1>t, <2>1, <2>2, Fields DEF Coherent
  <2>3. CASE from = "Open" /\ to = "Cancelled"
    BY <1>5, <1>t, <2>1, <2>3, Fields DEF Coherent
  <2> QED
    BY <2>2, <2>3
<1>10. PayoutFrame(g)'
  <2>1. balance[Escrow] \in Nat /\ totalEscrowed \in Nat
    BY Fields DEF Holders
  <2>2. balance[Escrow] >= totalEscrowed' + g.amount
    BY <1>0, <1>1, <1>7, <1>t, <2>1
  <2>3. balance' = balance
    BY DEF Settle
  <2> QED
    BY <1>0, <2>2, <2>3 DEF PayoutFrame
<1>11. FrameOK(g)'
  BY <1>0, <1>1, <1>2, <1>10, WorldIsOK DEF FrameOK
<1>12. StackOK'
  <2>1. entered'
    BY DEF Settle
  <2> QED
    BY <1>2, <1>3, <1>11, <2>1 DEF StackOK
<1> QED
  BY <1>8, <1>9, <1>12 DEF IInv

LEMMA ApproveStep ==
    ASSUME IInv, NEW caller \in Accounts, NEW id \in TaskIds, ApproveTask(caller, id)
    PROVE IInv'
<1>1. tasks[id].worker \in Accounts
  BY DEF ApproveTask, Settle, RequireStatus, IInv, TaskCoherent
<1> QED
  BY <1>1, SettleStep DEF ApproveTask

LEMMA CancelStep ==
    ASSUME IInv, NEW caller \in Accounts, NEW id \in TaskIds, CancelTask(caller, id)
    PROVE IInv'
<1>1. tasks[id].creator \in Accounts
  BY DEF CancelTask, Settle
<1> QED
  BY <1>1, SettleStep DEF CancelTask

-----------------------------------------------------------------------------
(* Steps that leave the contract's storage and the pending call's books    *)
(* alone, or change them only in ways a pending call does not notice.      *)
LEMMA WorkKeepsStack ==
    ASSUME IInv, UNCHANGED <<nextTaskId, totalEscrowed, entered, balance, stack>>
    PROVE StackOK'
<1>1. CASE stack = <<>>
  BY <1>1 DEF IInv, StackOK
<1>2. CASE stack # <<>>
  <2>1. PICK f \in Frame : stack = <<f>> /\ FrameOK(f)
    BY <1>2 DEF IInv, StackOK
  <2>2. FrameOK(f)'
    BY <2>1 DEF FrameOK, CreateFrame, PayoutFrame
  <2> QED
    BY <1>2, <2>1, <2>2 DEF IInv, StackOK
<1> QED
  BY <1>1, <1>2

LEMMA EmitType ==
    ASSUME IInv, NEW id \in TaskIds, NEW name \in EventName, NEW who \in Accounts,
           Emit(id, name, who)
    PROVE log' \in [TaskIds -> Seq(Event)]
<1>1. [name |-> name, who |-> who] \in Event
  BY DEF Event
<1>2. Append(log[id], [name |-> name, who |-> who]) \in Seq(Event)
  BY <1>1, Fields
<1> QED
  BY <1>2, Fields DEF Emit

LEMMA AcceptStep ==
    ASSUME IInv, NEW caller \in Accounts, NEW id \in TaskIds, AcceptTask(caller, id)
    PROVE IInv'
<1> USE DEF AcceptTask
<1>1. tasks[id] \in Task
  BY Fields
<1>2. tasks' \in [TaskIds -> Task]
  BY <1>1, Fields DEF Task, Status
<1>3. World' \in WorldType
  BY <1>2, EmitType, Fields DEF World, WorldType, EventName
<1>4. TaskCoherent'
  BY <1>1, Fields DEF IInv, TaskCoherent, RequireStatus, GetTask
<1> QED
  BY <1>3, <1>4, WorkKeepsStack DEF IInv

LEMMA SubmitStep ==
    ASSUME IInv, NEW caller \in Accounts, NEW id \in TaskIds, NEW result \in Results,
           SubmitWork(caller, id, result)
    PROVE IInv'
<1> USE DEF SubmitWork
<1>1. tasks[id] \in Task /\ result \in Artifact
  BY Fields DEF Artifact
<1>2. tasks' \in [TaskIds -> Task]
  BY <1>1, Fields DEF Task, Status
<1>3. World' \in WorldType
  BY <1>2, EmitType, Fields DEF World, WorldType, EventName
<1>4. TaskCoherent'
  BY <1>1, Fields DEF IInv, TaskCoherent, RequireStatus, GetTask
<1> QED
  BY <1>3, <1>4, WorkKeepsStack DEF IInv

(* Tokens that arrive from outside can only help. *)
LEMMA DonateStep ==
    ASSUME IInv, NEW from \in Accounts, NEW amount \in 1 .. MaxReward, Donate(from, amount)
    PROVE IInv'
<1> USE AddressAssumption, BoundAssumption
<1>1. /\ balance[from] \in Nat /\ balance[from] >= amount /\ amount \in Nat
      /\ balance[Escrow] \in Nat /\ totalEscrowed \in Nat
  BY Fields DEF Holders, Donate, CanMove
<1>2. /\ balance' \in [Holders -> Nat]
      /\ balance'[Escrow] = balance[Escrow] + amount
  <2>1. balance' = [balance EXCEPT ![from] = @ - amount, ![Escrow] = @ + amount]
    BY DEF Donate
  <2>2. from \in Holders /\ Escrow \in Holders /\ from # Escrow
    BY DEF Holders
  <2>3. balance \in [Holders -> Nat]
    BY Fields
  <2>4. balance[from] - amount \in Nat /\ balance[Escrow] + amount \in Nat
    BY <1>1
  <2>5. balance' \in [Holders -> Nat]
    BY <2>1, <2>2, <2>3, <2>4
  <2>6. balance'[Escrow] = balance[Escrow] + amount
    BY <2>1, <2>2, <2>3
  <2> QED
    BY <2>5, <2>6
<1>3. World' \in WorldType
  BY <1>2, Fields DEF Donate, storage, World, WorldType
<1>4. TaskCoherent'
  BY DEF IInv, TaskCoherent, Donate, storage
<1>5. StackOK'
  <2>1. CASE stack = <<>>
    BY <1>1, <1>2, <2>1 DEF IInv, StackOK, Donate, storage
  <2>2. CASE stack # <<>>
    <3>1. PICK f \in Frame : stack = <<f>> /\ FrameOK(f)
      BY <2>2 DEF IInv, StackOK
    <3>2. f.amount \in Nat
      BY DEF Frame
    <3>3. CreateFrame(f) => CreateFrame(f)'
      BY DEF CreateFrame, Donate, storage
    <3>4. PayoutFrame(f) => PayoutFrame(f)'
      BY <1>1, <1>2, <3>2 DEF PayoutFrame, Donate, storage
    <3>5. FrameOK(f)'
      BY <3>1, <3>3, <3>4 DEF FrameOK
    <3> QED
      BY <2>2, <3>1, <3>5 DEF IInv, StackOK, Donate
  <2> QED
    BY <2>1, <2>2
<1> QED
  BY <1>3, <1>4, <1>5 DEF IInv

(* The token moves: a payout debits what is due, and a deposit, whatever it *)
(* does to the escrow's balance, is judged only when createTask returns.    *)
LEMMA MovesStep == ASSUME IInv, NEW skim \in Skims, TokenMoves(skim) PROVE IInv'
<1> DEFINE arrives == Top.amount - skim
<1> USE AddressAssumption, BoundAssumption, SkimAssumption
<1>1. PICK f \in Frame : stack = <<f>> /\ FrameOK(f) /\ f = Top
  BY StackFacts DEF TokenMoves
<1>2. /\ f.amount \in Nat /\ f.payer \in Holders /\ f.payee \in Holders
      /\ f.moved \in BOOLEAN /\ f.id \in 0 .. MaxTasks /\ skim \in Int
      /\ f.op \in {"createTask", "approveTask", "cancelTask"}
  BY DEF Frame
<1>3. /\ balance[f.payer] \in Nat /\ balance[f.payee] \in Nat
      /\ balance[Escrow] \in Nat /\ totalEscrowed \in Nat
  BY <1>2, Fields DEF Holders
<1>4. /\ ~f.moved /\ balance[f.payer] >= f.amount
      /\ balance[f.payee] + (f.amount - skim) \in Nat
      /\ f.payer = Escrow => skim \in 0 .. f.amount
      /\ balance' = [balance EXCEPT ![f.payer] = @ - f.amount,
                                    ![f.payee] = @ + (f.amount - skim)]
      /\ UNCHANGED <<nextTaskId, totalEscrowed, tasks, entered, log>>
  BY <1>1 DEF TokenMoves, CanMove, storage
<1>5. f.payer # f.payee
  BY <1>1 DEF FrameOK, CreateFrame, PayoutFrame
<1>6. balance' \in [Holders -> Nat]
  BY <1>2, <1>3, <1>4, <1>5, Fields
<1>7. PICK g : g = [f EXCEPT !.moved = TRUE]
  OBVIOUS
<1>8. stack' = <<g>> /\ g \in Frame
  <2>1. Len(stack) = 1 /\ stack[1] = f
    BY <1>1
  <2>2. stack' = [stack EXCEPT ![1].moved = TRUE]
    BY <2>1 DEF TokenMoves
  <2>3. g \in Frame
    BY <1>7 DEF Frame
  <2>4. stack' = [stack EXCEPT ![1] = g]
    BY <1>7, <2>1, <2>2
  <2>5. [<<f>> EXCEPT ![1] = g] = <<g>>
    OBVIOUS
  <2> QED
    BY <1>1, <2>3, <2>4, <2>5
<1>9. paid' \in [TaskIds -> Seq(Payment)]
  <2>1. CASE f.payer = Escrow
    <3>1. f.id \in TaskIds /\ f.payee \in Accounts
      BY <1>1, <2>1 DEF FrameOK, CreateFrame, PayoutFrame
    <3>2. [to |-> f.payee, amount |-> f.amount] \in Payment
      BY <1>2, <3>1 DEF Payment
    <3>3. Append(paid[f.id], [to |-> f.payee, amount |-> f.amount]) \in Seq(Payment)
      BY <3>1, <3>2, Fields
    <3>4. paid' = [paid EXCEPT ![f.id] = Append(@, [to |-> f.payee, amount |-> f.amount])]
      BY <1>1, <2>1 DEF TokenMoves
    <3> QED
      BY <3>1, <3>3, <3>4, Fields
  <2>2. CASE f.payer # Escrow
    BY <1>1, <2>2, Fields DEF TokenMoves
  <2> QED
    BY <2>1, <2>2
<1>10. World' \in WorldType
  BY <1>4, <1>6, <1>9, Fields DEF World, WorldType
<1>11. TaskCoherent'
  BY <1>4 DEF IInv, TaskCoherent
<1>12. FrameOK(g)'
  <2>1. CASE f.op = "createTask"
    BY <1>1, <1>4, <1>7, <1>8, <2>1 DEF FrameOK, CreateFrame, Frame
  <2>2. CASE f.op # "createTask"
    <3>1. PayoutFrame(f) /\ f.payer = Escrow /\ f.payee # Escrow
      BY <1>1, <2>2 DEF FrameOK, PayoutFrame
    <3>2. balance'[Escrow] = balance[Escrow] - f.amount
      BY <1>2, <1>3, <1>4, <3>1, Fields DEF Holders
    <3>3. g.moved /\ g.amount = f.amount /\ g.payer = f.payer /\ g.payee = f.payee
          /\ g.id = f.id /\ g.op = f.op /\ g.world = f.world
      BY <1>7, <1>8 DEF Frame
    <3>4. balance'[Escrow] >= totalEscrowed'
      BY <1>2, <1>3, <1>4, <3>1, <3>2 DEF PayoutFrame
    <3>5. PayoutFrame(g)'
      BY <3>1, <3>3, <3>4 , <1>4, <1>3 DEF PayoutFrame
    <3> QED
      BY <1>1, <1>8, <2>2, <3>3, <3>5 DEF FrameOK
  <2> QED
    BY <2>1, <2>2
<1>13. StackOK'
  <2>1. entered'
    BY <1>1, <1>4, StackFacts DEF TokenMoves
  <2> QED
    BY <1>8, <1>12, <2>1 DEF StackOK
<1> QED
  BY <1>10, <1>11, <1>13 DEF IInv

(* The balance check makes the booked reward one the escrow really got. *)
LEMMA CreateReturnsStep == ASSUME IInv, CreateReturns PROVE IInv'
<1> USE BoundAssumption
<1>1. PICK f \in Frame : stack = <<f>> /\ FrameOK(f) /\ f = Top
  BY StackFacts DEF CreateReturns
<1>2. /\ f.amount \in Nat /\ f.balanceBefore \in Nat /\ f.payer \in Accounts
      /\ f.amount > 0 /\ ValidateArtifact(f.metadata) /\ f.metadata \in Artifact
      /\ nextTaskId <= MaxTasks /\ f.balanceBefore >= totalEscrowed
  BY <1>1 DEF CreateReturns, FrameOK, CreateFrame, Frame
<1>3. /\ balance[Escrow] \in Nat /\ totalEscrowed \in Nat
      /\ nextTaskId \in TaskIds
  BY <1>2, Fields DEF Holders, TaskIds
<1>4. balance[Escrow] = f.balanceBefore + f.amount
  BY <1>1, <1>2, <1>3 DEF CreateReturns, EscrowAccepted, Received
<1>5. PICK t : t = [creator |-> f.payer, worker |-> NoOne, reward |-> f.amount,
                    metadata |-> f.metadata, result |-> NoArtifact,
                    status |-> "Open", exists |-> TRUE]
  OBVIOUS
<1>6. /\ nextTaskId' = nextTaskId + 1
      /\ tasks' = [tasks EXCEPT ![nextTaskId] = t]
      /\ totalEscrowed' = totalEscrowed + f.amount
      /\ Emit(nextTaskId, "TaskCreated", f.payer)
      /\ entered' = FALSE /\ UNCHANGED <<balance, paid>>
  BY <1>1, <1>5 DEF CreateReturns
<1>7. t \in Task
  <2>1. NoArtifact \in Artifact
    BY DEF Artifact
  <2> QED
    BY <1>2, <1>5, <2>1 DEF Task, Status
<1>8. tasks' \in [TaskIds -> Task]
  BY <1>3, <1>6, <1>7, Fields
<1>9. log' \in [TaskIds -> Seq(Event)]
  BY <1>2, <1>3, <1>6, EmitType DEF EventName
<1>10. nextTaskId' \in 1 .. MaxTasks + 1 /\ totalEscrowed' \in Nat
  BY <1>2, <1>3, <1>6, Fields
<1>11. World' \in WorldType
  <2>1. entered' \in BOOLEAN
    BY <1>6
  <2> QED
    BY <1>6, <1>8, <1>9, <1>10, <2>1, Fields DEF World, WorldType
<1>12. TaskCoherent'
  <2>1. t.exists /\ t.reward > 0 /\ ValidateArtifact(t.metadata) /\ t.creator \in Accounts
        /\ t.worker # t.creator /\ t.worker \notin Accounts /\ t.status = "Open"
        /\ t.result = NoArtifact
    BY <1>2, <1>5, AddressAssumption
  <2> SUFFICES ASSUME NEW id \in TaskIds, Coherent(tasks, nextTaskId)
               PROVE  Coherent(tasks', nextTaskId')
    BY <1>3 DEF IInv, TaskCoherent, Coherent
  <2>2. nextTaskId \in 1 .. MaxTasks
    BY <1>3 DEF TaskIds
  <2> QED
    BY <1>6, <2>1, <2>2, Fields DEF Coherent, TaskIds
<1>13. StackOK'
  <2>1. stack' = <<>>
    BY StackFacts DEF CreateReturns, Pop
  <2>2. balance'[Escrow] >= totalEscrowed'
    BY <1>2, <1>3, <1>4, <1>6
  <2> QED
    BY <1>6, <2>1, <2>2 DEF StackOK
<1> QED
  BY <1>11, <1>12, <1>13 DEF IInv

LEMMA SettleReturnsStep == ASSUME IInv, SettleReturns PROVE IInv'
<1> USE BoundAssumption
<1>1. PICK f \in Frame : stack = <<f>> /\ FrameOK(f) /\ f = Top
  BY StackFacts DEF SettleReturns
<1>2. PayoutFrame(f) /\ f.moved
  BY <1>1 DEF SettleReturns, FrameOK
<1>3. log' \in [TaskIds -> Seq(Event)]
  <2>1. f.id \in TaskIds /\ f.payee \in Accounts
    BY <1>2 DEF PayoutFrame
  <2>2. \E name \in EventName : Emit(f.id, name, f.payee)
    BY <1>1 DEF SettleReturns, EventName
  <2> QED
    BY <2>1, <2>2, EmitType
<1>4. World' \in WorldType
  <2>1. entered' \in BOOLEAN
    BY DEF SettleReturns
  <2> QED
    BY <1>3, <2>1, Fields DEF SettleReturns, storage, World, WorldType
<1>5. TaskCoherent'
  BY DEF IInv, TaskCoherent, SettleReturns, storage
<1>6. StackOK'
  <2>1. stack' = <<>>
    BY StackFacts DEF SettleReturns, Pop
  <2>2. balance[Escrow] >= totalEscrowed
    BY <1>2, Fields DEF PayoutFrame, Holders
  <2> QED
    BY <2>1, <2>2 DEF StackOK, SettleReturns, storage
<1> QED
  BY <1>4, <1>5, <1>6 DEF IInv

LEMMA StutterStep == ASSUME IInv, UNCHANGED vars PROVE IInv'
<1>1. World' = World /\ UNCHANGED <<nextTaskId, totalEscrowed, tasks, entered, balance, stack>>
  BY DEF vars, World
<1>2. TaskCoherent'
  BY <1>1 DEF IInv, TaskCoherent
<1> QED
  BY <1>1, <1>2, WorkKeepsStack DEF IInv

LEMMA NextIInv == IInv /\ [Next]_vars => IInv'
<1> SUFFICES ASSUME IInv, [Next]_vars PROVE IInv'
  OBVIOUS
<1>1. CASE \E a \in Accounts, r \in 0 .. MaxReward, m \in Metadata : CreateTask(a, r, m)
  BY <1>1, CreateStep
<1>2. CASE \E skim \in Skims : TokenMoves(skim)
  BY <1>2, MovesStep
<1>3. CASE TokenReverts
  BY <1>3, RestoreIInv DEF TokenReverts
<1>4. CASE \E a \in Accounts, n \in 1 .. MaxReward : Donate(a, n)
  BY <1>4, DonateStep
<1>5. CASE CreateReturns
  BY <1>5, CreateReturnsStep
<1>6. CASE CreateRejects
  BY <1>6, RestoreIInv DEF CreateRejects
<1>7. CASE \E a \in Accounts, id \in TaskIds : AcceptTask(a, id)
  BY <1>7, AcceptStep
<1>8. CASE \E a \in Accounts, id \in TaskIds, r \in Results : SubmitWork(a, id, r)
  BY <1>8, SubmitStep
<1>9. CASE \E a \in Accounts, id \in TaskIds : ApproveTask(a, id)
  BY <1>9, ApproveStep
<1>10. CASE \E a \in Accounts, id \in TaskIds : CancelTask(a, id)
  BY <1>10, CancelStep
<1>11. CASE SettleReturns
  BY <1>11, SettleReturnsStep
<1>12. CASE UNCHANGED vars
  BY <1>12, StutterStep
<1> QED
  BY <1>1, <1>2, <1>3, <1>4, <1>5, <1>6, <1>7, <1>8, <1>9, <1>10, <1>11, <1>12 DEF Next

\* The strengthened invariant holds of every behaviour of the contract.
THEOREM Inductive == Spec => []IInv
  BY InitIInv, NextIInv, PTL DEF Spec

\* The contract, the token and the pending calls keep their types, whatever
\* callbacks and reverts do: no checked subtraction of TaskBounty.sol underflows.
THEOREM TypeCorrect == Spec => []TypeOK
  BY Inductive, IInvImplies, PTL

\* Between transactions the contract can pay everything it owes, for every token
\* that debits what it is asked to move, whatever it withholds or calls back.
THEOREM AlwaysSolvent == Spec => []Solvent
  BY Inductive, IInvImplies, PTL

\* No approveTask or cancelTask fails because the contract lacks the funds.
THEOREM PayoutsFunded == Spec => []PayoutFunded
  BY Inductive, IInvImplies, PTL

\* The stored status, worker, artifacts and existence of a task always fit
\* together, also in the worlds that callbacks see.
THEOREM TasksCoherent == Spec => []TaskCoherent
  BY Inductive, IInvImplies, PTL

-----------------------------------------------------------------------------
(* The books.  Library theorems about sums need induction; the running     *)
(* totals of BooksBalance make it enough to shift the totals from the      *)
(* changed task on.                                                        *)
Totals(ts, total, run) ==
    /\ run \in [0 .. MaxTasks -> 0 .. total]
    /\ run[0] = 0 /\ run[MaxTasks] = total
    /\ \A i \in TaskIds : run[i] = run[i - 1] + Owed(ts[i])
    /\ \A i, j \in 0 .. MaxTasks : i <= j => run[i] <= run[j]

Books(ts, total) == \E run \in [0 .. MaxTasks -> 0 .. total] : Totals(ts, total, run)

LEMMA BooksDef == BooksBalance <=> Books(tasks, totalEscrowed)
  BY DEF BooksBalance, Books, Totals

LEMMA OwedType == ASSUME NEW t \in Task PROVE Owed(t) \in Nat
  BY DEF Owed, Task

\* Changing what one task is owed by d changes the total by d.
LEMMA BooksShift ==
    ASSUME NEW ts, NEW us, NEW total \in Nat, NEW d \in Int, NEW id \in TaskIds,
           Books(ts, total),
           \A i \in TaskIds : Owed(ts[i]) \in Nat /\ Owed(us[i]) \in Nat,
           \A i \in TaskIds \ {id} : Owed(us[i]) = Owed(ts[i]),
           Owed(us[id]) = Owed(ts[id]) + d
    PROVE  Books(us, total + d) /\ total + d \in Nat
<1> USE BoundAssumption DEF TaskIds
<1>1. PICK run \in [0 .. MaxTasks -> 0 .. total] : Totals(ts, total, run)
  BY DEF Books
<1> DEFINE new == [i \in 0 .. MaxTasks |-> IF i >= id THEN run[i] + d ELSE run[i]]
<1>2. \A i \in 0 .. MaxTasks : run[i] \in Nat /\ run[i] <= total
  BY <1>1 DEF Totals
<1>3. id \in 0 .. MaxTasks /\ id - 1 \in 0 .. MaxTasks
  OBVIOUS
<1>4. run[id] + d = run[id - 1] + Owed(us[id])
  <2>1. run[id] = run[id - 1] + Owed(ts[id])
    BY <1>1 DEF Totals
  <2> QED
    BY <1>2, <1>3, <2>1
<1>5. \A i, j \in 0 .. MaxTasks : i <= j => run[i] <= run[j]
  BY <1>1 DEF Totals
<1>6. \A i \in 0 .. MaxTasks : i >= id => run[i] + d >= run[id - 1]
  BY <1>2, <1>3, <1>4, <1>5
<1>7. \A i \in 0 .. MaxTasks : new[i] \in Nat
  BY <1>2, <1>3, <1>6
<1>8. \A i, j \in 0 .. MaxTasks : i <= j => new[i] <= new[j]
  <2> SUFFICES ASSUME NEW i \in 0 .. MaxTasks, NEW j \in 0 .. MaxTasks, i <= j
               PROVE  new[i] <= new[j]
    OBVIOUS
  <2>1. CASE i >= id
    BY <2>1, <1>2, <1>5
  <2>2. CASE j < id
    BY <2>2, <1>2, <1>5
  <2>3. CASE i < id /\ j >= id
    <3>1. run[i] <= run[id - 1]
      BY <2>3, <1>3, <1>5
    <3>2. run[j] + d >= run[id - 1]
      BY <2>3, <1>6
    <3> QED
      BY <2>3, <3>1, <3>2, <1>2, <1>3
  <2> QED
    BY <2>1, <2>2, <2>3
<1>9. new[0] = 0 /\ new[MaxTasks] = total + d
  <2>1. run[0] = 0 /\ run[MaxTasks] = total
    BY <1>1 DEF Totals
  <2> QED
    BY <2>1
<1>10. \A i \in TaskIds : new[i] = new[i - 1] + Owed(us[i])
  <2> SUFFICES ASSUME NEW i \in TaskIds PROVE new[i] = new[i - 1] + Owed(us[i])
    OBVIOUS
  <2>1. run[i] = run[i - 1] + Owed(ts[i])
    BY <1>1 DEF Totals
  <2>2. i \in 0 .. MaxTasks /\ i - 1 \in 0 .. MaxTasks
    OBVIOUS
  <2>3. CASE i = id
    BY <2>2, <2>3, <1>4
  <2>4. CASE i # id
    BY <2>1, <2>2, <2>4, <1>2
  <2> QED
    BY <2>3, <2>4
<1>11. total + d \in Nat
  BY <1>7, <1>9
<1>12. new \in [0 .. MaxTasks -> 0 .. total + d]
  <2>1. \A i \in 0 .. MaxTasks : new[i] <= new[MaxTasks]
    BY <1>8
  <2> QED
    BY <1>7, <1>9, <1>11, <2>1
<1>13. Totals(us, total + d, new)
  BY <1>8, <1>9, <1>10, <1>12 DEF Totals
<1> QED
  BY <1>11, <1>12, <1>13 DEF Books

(* The books balance now and in the world a revert would restore. *)
BInv ==
    /\ Books(tasks, totalEscrowed)
    /\ stack # <<>> => Books(Top.world.tasks, Top.world.totalEscrowed)

LEMMA InitBInv == Init => BInv
<1> SUFFICES ASSUME Init PROVE Books(tasks, totalEscrowed)
  BY DEF BInv, Init
<1> USE BoundAssumption
<1> DEFINE run == [i \in 0 .. MaxTasks |-> 0]
<1>1. \A i \in TaskIds : Owed(tasks[i]) = 0
  BY DEF Init, Owed, Live, NoTask
<1>2. Totals(tasks, 0, run)
  BY <1>1 DEF Totals, TaskIds
<1>3. run \in [0 .. MaxTasks -> 0 .. 0]
  OBVIOUS
<1> QED
  BY <1>2, <1>3 DEF Books, Init

(* Nobody is owed more or less by a step of a worker. *)
LEMMA SameOwed ==
    ASSUME IInv, BInv, NEW id \in TaskIds, NEW t \in Task, Owed(t) = Owed(tasks[id]),
           tasks' = [tasks EXCEPT ![id] = t], UNCHANGED <<totalEscrowed, stack>>
    PROVE BInv'
<1>0. PICK d \in Int : d = 0
  OBVIOUS
<1>1. \A i \in TaskIds : Owed(tasks[i]) \in Nat /\ Owed(tasks'[i]) \in Nat
  BY OwedType, Fields
<1>2. Owed(tasks'[id]) = Owed(tasks[id]) + d
  BY <1>0, <1>1, Fields
<1>3. \A i \in TaskIds \ {id} : Owed(tasks'[i]) = Owed(tasks[i])
  BY Fields
<1>4. totalEscrowed \in Nat /\ totalEscrowed + d = totalEscrowed
  BY <1>0, Fields
<1>5. Books(tasks', totalEscrowed + d)
  BY <1>1, <1>2, <1>3, <1>4, BooksShift DEF BInv
<1> QED
  BY <1>4, <1>5 DEF BInv, Top

LEMMA WorkBInv ==
    ASSUME IInv, BInv, NEW caller \in Accounts, NEW id \in TaskIds,
           \/ AcceptTask(caller, id)
           \/ \E r \in Results : SubmitWork(caller, id, r)
    PROVE BInv'
<1>t. tasks[id] \in Task
  BY Fields
<1>1. CASE AcceptTask(caller, id)
  <2> DEFINE t == [tasks[id] EXCEPT !.worker = caller, !.status = "InProgress"]
  <2>1. t \in Task /\ Owed(t) = Owed(tasks[id])
    BY <1>1, <1>t DEF AcceptTask, RequireStatus, Task, Status, Owed, Live
  <2>2. tasks' = [tasks EXCEPT ![id] = t] /\ UNCHANGED <<totalEscrowed, stack>>
    BY <1>1, Fields DEF AcceptTask
  <2> QED
    BY <2>1, <2>2, SameOwed
<1>2. CASE \E r \in Results : SubmitWork(caller, id, r)
  <2>0. PICK r \in Results : SubmitWork(caller, id, r)
    BY <1>2
  <2> DEFINE t == [tasks[id] EXCEPT !.result = r, !.status = "Submitted"]
  <2>1. t \in Task /\ Owed(t) = Owed(tasks[id])
    BY <2>0, <1>t DEF SubmitWork, RequireStatus, Task, Status, Owed, Live, Artifact
  <2>2. tasks' = [tasks EXCEPT ![id] = t] /\ UNCHANGED <<totalEscrowed, stack>>
    BY <2>0, Fields DEF SubmitWork
  <2> QED
    BY <2>1, <2>2, SameOwed
<1> QED
  BY <1>1, <1>2

LEMMA RestoreBInv == ASSUME IInv, BInv, stack # <<>>, Restore(Top.world), Pop PROVE BInv'
<1>1. stack' = <<>>
  BY StackFacts DEF Pop
<1> QED
  BY <1>1 DEF BInv, Restore

(* A guarded call begins: the present world becomes the one to restore. *)
LEMMA CallBInv ==
    ASSUME IInv, BInv, stack = <<>>, NEW f, f.world = World, CallToken(f),
           Books(tasks', totalEscrowed')
    PROVE BInv'
<1>1. stack' = <<f>>
  BY DEF CallToken
<1>2. Top' = f
  BY <1>1 DEF Top
<1> QED
  BY <1>1, <1>2 DEF BInv, World

LEMMA CreateBInv ==
    ASSUME IInv, BInv, NEW caller \in Accounts, NEW reward \in 0 .. MaxReward,
           NEW metadata \in Metadata, CreateTask(caller, reward, metadata)
    PROVE BInv'
<1>1. stack = <<>>
  BY NotEntered DEF CreateTask, NonReentrant
<1>2. Books(tasks', totalEscrowed')
  BY DEF BInv, CreateTask, storage
<1> QED
  BY <1>1, <1>2, CallBInv DEF CreateTask

LEMMA SettleBInv ==
    ASSUME IInv, BInv, NEW op, NEW caller, NEW id \in TaskIds, NEW payee,
           NEW from \in {"Open", "Submitted"}, NEW to \in {"Completed", "Cancelled"},
           Settle(op, caller, id, from, to, payee)
    PROVE BInv'
<1>1. stack = <<>>
  BY NotEntered DEF Settle, NonReentrant
<1> DEFINE t == [tasks[id] EXCEPT !.status = to]
           d == -tasks[id].reward
<1>2. tasks[id] \in Task /\ tasks[id].reward \in Nat /\ totalEscrowed \in Nat
  BY Fields DEF Task
<1>3. t \in Task
  BY <1>2 DEF Task, Status
<1>4. Owed(tasks[id]) = tasks[id].reward /\ Owed(t) = 0
  BY <1>2 DEF Settle, GetTask, RequireStatus, Owed, Live, Task
<1>5. tasks' = [tasks EXCEPT ![id] = t] /\ tasks'[id] = t
  BY Fields DEF Settle
<1>6. \A i \in TaskIds : Owed(tasks[i]) \in Nat /\ Owed(tasks'[i]) \in Nat
  BY <1>3, <1>5, OwedType, Fields
<1>7. \A i \in TaskIds \ {id} : Owed(tasks'[i]) = Owed(tasks[i])
  BY <1>5, Fields
<1>8. d \in Int /\ Owed(tasks'[id]) = Owed(tasks[id]) + d
  BY <1>2, <1>4, <1>5
<1>9. Books(tasks', totalEscrowed + d)
  BY <1>2, <1>6, <1>7, <1>8, BooksShift DEF BInv
<1>10. totalEscrowed' = totalEscrowed + d
  BY <1>2 DEF Settle
<1> QED
  BY <1>1, <1>9, <1>10, CallBInv DEF Settle

LEMMA CreateReturnsBInv == ASSUME IInv, BInv, CreateReturns PROVE BInv'
<1>1. PICK f \in Frame : stack = <<f>> /\ FrameOK(f) /\ f = Top
  BY StackFacts DEF CreateReturns
<1>2. /\ f.amount \in Nat /\ f.payer \in Accounts /\ f.metadata \in Artifact
      /\ nextTaskId <= MaxTasks
  BY <1>1 DEF CreateReturns, FrameOK, CreateFrame, Frame
<1>3. totalEscrowed \in Nat /\ nextTaskId \in TaskIds
  BY <1>2, Fields, BoundAssumption DEF TaskIds
<1> DEFINE t == [creator |-> f.payer, worker |-> NoOne, reward |-> f.amount,
                 metadata |-> f.metadata, result |-> NoArtifact,
                 status |-> "Open", exists |-> TRUE]
           id == nextTaskId
<1>4. tasks' = [tasks EXCEPT ![id] = t] /\ totalEscrowed' = totalEscrowed + f.amount
  BY <1>1 DEF CreateReturns
<1>5. t \in Task
  BY <1>2 DEF Task, Status, Artifact
<1>6. Owed(tasks[id]) = 0
  BY <1>3, Fields DEF IInv, TaskCoherent, Owed, Live
<1>7. Owed(t) = f.amount
  BY DEF Owed, Live
<1>8. \A i \in TaskIds : Owed(tasks[i]) \in Nat /\ Owed(tasks'[i]) \in Nat
  BY <1>3, <1>4, <1>5, OwedType, Fields
<1>9. Owed(tasks'[id]) = Owed(tasks[id]) + f.amount
  BY <1>2, <1>3, <1>4, <1>6, <1>7, Fields
<1>10. \A i \in TaskIds \ {id} : Owed(tasks'[i]) = Owed(tasks[i])
  BY <1>4, Fields
<1>11. Books(tasks', totalEscrowed')
  <2>1. f.amount \in Int
    BY <1>2
  <2>2. Books(tasks, totalEscrowed)
    BY DEF BInv
  <2> HIDE DEF t
  <2>3. Books(tasks', totalEscrowed + f.amount)
    BY <1>3, <1>8, <1>9, <1>10, <2>1, <2>2, BooksShift
  <2> QED
    BY <1>4, <2>3
<1>12. stack' = <<>>
  BY StackFacts DEF CreateReturns, Pop
<1> QED
  BY <1>11, <1>12 DEF BInv

LEMMA NextBInv == IInv /\ BInv /\ [Next]_vars => BInv'
<1> SUFFICES ASSUME IInv, BInv, [Next]_vars PROVE BInv'
  OBVIOUS
<1>1. CASE \E a \in Accounts, r \in 0 .. MaxReward, m \in Metadata : CreateTask(a, r, m)
  BY <1>1, CreateBInv
<1>2. CASE \E skim \in Skims : TokenMoves(skim)
  <2>1. PICK f \in Frame : stack = <<f>>
    BY <1>2, StackFacts DEF TokenMoves
  <2>2. stack' = [stack EXCEPT ![1].moved = TRUE] /\ UNCHANGED storage /\ Top = f
    BY <1>2, <2>1 DEF TokenMoves, Top
  <2>3. PICK g : g = [f EXCEPT !.moved = TRUE]
    OBVIOUS
  <2>4. stack' = [<<f>> EXCEPT ![1] = g]
    BY <2>1, <2>2, <2>3
  <2>5. [<<f>> EXCEPT ![1] = g] = <<g>>
    OBVIOUS
  <2>6. Top' = g /\ g.world = f.world
    BY <2>3, <2>4, <2>5 DEF Top, Frame
  <2> QED
    BY <2>1, <2>2, <2>6 DEF BInv, storage
<1>3. CASE TokenReverts \/ CreateRejects
  BY <1>3, RestoreBInv DEF TokenReverts, CreateRejects
<1>4. CASE \E a \in Accounts, n \in 1 .. MaxReward : Donate(a, n)
  BY <1>4 DEF Donate, storage, BInv, Top
<1>5. CASE CreateReturns
  BY <1>5, CreateReturnsBInv
<1>6. CASE \/ \E a \in Accounts, id \in TaskIds : AcceptTask(a, id)
           \/ \E a \in Accounts, id \in TaskIds, r \in Results : SubmitWork(a, id, r)
  BY <1>6, WorkBInv
<1>7. CASE \E a \in Accounts, id \in TaskIds : ApproveTask(a, id)
  BY <1>7, SettleBInv DEF ApproveTask
<1>8. CASE \E a \in Accounts, id \in TaskIds : CancelTask(a, id)
  BY <1>8, SettleBInv DEF CancelTask
<1>9. CASE SettleReturns
  <2>1. stack' = <<>>
    BY <1>9, StackFacts DEF SettleReturns, Pop
  <2> QED
    BY <1>9, <2>1 DEF SettleReturns, storage, BInv
<1>10. CASE UNCHANGED vars
  BY <1>10 DEF vars, BInv, Top
<1> QED
  BY <1>1, <1>2, <1>3, <1>4, <1>5, <1>6, <1>7, <1>8, <1>9, <1>10 DEF Next

\* totalEscrowed is at all times the sum of the rewards of the unfinished tasks,
\* in the middle of calls and after reverts too.
THEOREM BooksAlwaysBalance == Spec => []BooksBalance
<1>1. Spec => []BInv
  BY Inductive, InitBInv, NextBInv, PTL DEF Spec
<1>2. BInv => BooksBalance
  BY BooksDef DEF BInv
<1> QED
  BY <1>1, <1>2, PTL

-----------------------------------------------------------------------------
(* The history.  Between transactions a task has been paid what it is due  *)
(* and has told its story; a free id still reads as an unwritten entry.    *)
Told(t, payments, events) ==
    /\ payments = Due(t) /\ events = Story(t)
    /\ t.reward <= MaxReward
    /\ ~t.exists => t = NoTask

AllTold(ts, payments, events) ==
    \A id \in TaskIds : Told(ts[id], payments[id], events[id])

(* What callbacks may have made of a task: accepted, submitted, or both. *)
Worked(b, t) ==
    \/ t = b
    \/ /\ b.exists /\ t.exists /\ t.creator = b.creator /\ t.reward = b.reward
       /\ t.metadata = b.metadata
       /\ \/ /\ b.status = "Open" /\ t.status \in {"InProgress", "Submitted"}
             /\ t.worker \in Accounts \ {b.creator}
          \/ /\ b.status = "InProgress" /\ t.status = "Submitted"
             /\ t.worker = b.worker

(* What a pending payout has made of its task, and whom it pays. *)
Settling(f, b, t) ==
    /\ b.exists /\ t.exists /\ t.creator = b.creator /\ t.worker = b.worker
    /\ t.reward = b.reward /\ t.metadata = b.metadata /\ t.result = b.result
    /\ \/ /\ f.op = "approveTask" /\ b.status = "Submitted" /\ t.status = "Completed"
          /\ f.payee = b.worker
       \/ /\ f.op = "cancelTask" /\ b.status = "Open" /\ t.status = "Cancelled"
          /\ f.payee = b.creator
    /\ f.amount = b.reward

(* While a call is pending the history of every other task is complete,    *)
(* and the task of a payout lacks its payment, or its last event.          *)
Pending(f) ==
    LET w == f.world
        Outgoing == IF f.moved THEN f.amount ELSE 0
    IN  /\ AllTold(w.tasks, w.paid, w.log)
        /\ f.amount <= MaxReward
        /\ f.balanceBefore = w.balance[Escrow]
        /\ f.op = "createTask" => f.id = 0
        /\ f.op # "createTask" => balance[Escrow] >= w.balance[Escrow] - Outgoing
        /\ \A id \in TaskIds :
              IF id = f.id
              THEN /\ Settling(f, w.tasks[id], tasks[id])
                   /\ paid[id] = IF f.moved THEN Due(tasks[id]) ELSE <<>>
                   /\ log[id] = w.log[id]
              ELSE /\ Told(tasks[id], paid[id], log[id])
                   /\ Worked(w.tasks[id], tasks[id])

HInv ==
    /\ stack = <<>> => AllTold(tasks, paid, log)
    /\ stack # <<>> => Pending(Top)

-----------------------------------------------------------------------------
(* The stories of the stages of a task. *)
Said(name, who) == [name |-> name, who |-> who]

(* TaskCoherent of one task, without its id. *)
Sound(t) ==
    /\ t.exists => t.creator \in Accounts /\ t.worker # t.creator
    /\ t.worker \in Accounts <=> t.status \in {"InProgress", "Submitted", "Completed"}
    /\ t.status \in {"Submitted", "Completed"} => t.result # NoArtifact
    /\ t.status \notin {"Submitted", "Completed"} => t.result = NoArtifact

LEMMA CoherentSound ==
    ASSUME NEW ts, NEW next, Coherent(ts, next), NEW id \in TaskIds
    PROVE  Sound(ts[id])
  BY DEF Coherent, Sound, ValidateArtifact, NoArtifact

LEMMA Concatenations ==
    ASSUME NEW S, NEW s \in Seq(S), NEW e \in S
    PROVE  /\ s \o <<>> = s /\ s \o <<e>> = Append(s, e)
           /\ <<e>> \in Seq(S) /\ Append(s, e) \in Seq(S) /\ <<>> \in Seq(S)
           /\ <<>> \o <<e>> = <<e>> /\ Append(<<>>, e) = <<e>>
  OBVIOUS

(* An event that is said or not, as in Story. *)
SaidIf(name, who, cond) == IF cond THEN <<Said(name, who)>> ELSE <<>>

LEMMA StoryParts ==
    ASSUME NEW t
    PROVE  Story(t) = SaidIf("TaskCreated", t.creator, t.exists)
                      \o SaidIf("TaskAccepted", t.worker, t.worker # NoOne)
                      \o SaidIf("WorkSubmitted", t.worker, t.result # NoArtifact)
                      \o SaidIf("TaskCompleted", t.worker, t.status = "Completed")
                      \o SaidIf("TaskCancelled", t.creator, t.status = "Cancelled")
  BY DEF Story, SaidIf, Said

LEMMA Stories ==
    ASSUME NEW t \in Task, Sound(t)
    PROVE  LET c == Said("TaskCreated", t.creator)
               a == Said("TaskAccepted", t.worker)
               w == Said("WorkSubmitted", t.worker)
           IN  /\ t = NoTask => Story(t) = <<>>
               /\ t.exists /\ t.status = "Open" => Story(t) = <<c>>
               /\ t.exists /\ t.status = "InProgress" => Story(t) = Append(<<c>>, a)
               /\ t.exists /\ t.status = "Submitted" =>
                     Story(t) = Append(Append(<<c>>, a), w)
               /\ t.exists /\ t.status = "Completed" =>
                     Story(t) = Append(Append(Append(<<c>>, a), w),
                                       Said("TaskCompleted", t.worker))
               /\ t.exists /\ t.status = "Cancelled" =>
                     Story(t) = Append(<<c>>, Said("TaskCancelled", t.creator))
<1> DEFINE c == Said("TaskCreated", t.creator)
           a == Said("TaskAccepted", t.worker)
           w == Said("WorkSubmitted", t.worker)
           p == Said("TaskCompleted", t.worker)
           x == Said("TaskCancelled", t.creator)
           S == {c, a, w, p, x}
<1>1. t.worker \in Accounts <=> t.worker # NoOne
  BY AddressAssumption DEF Task
<1>2. c \in S /\ a \in S /\ w \in S /\ p \in S /\ x \in S
  OBVIOUS
<1>3. t = NoTask => Story(t) = <<>>
  <2> SUFFICES ASSUME t = NoTask PROVE Story(t) = <<>>
    OBVIOUS
  <2>1. ~t.exists /\ t.worker = NoOne /\ t.result = NoArtifact /\ t.status = "Open"
    BY DEF NoTask
  <2>2. Story(t) = <<>> \o <<>> \o <<>> \o <<>> \o <<>>
    BY <2>1, StoryParts DEF SaidIf
  <2>3. <<>> \in Seq(S)
    OBVIOUS
  <2> HIDE DEF S
  <2> QED
    BY <1>2, <2>2, <2>3, Concatenations
<1>4. <<c>> \in Seq(S) /\ Append(<<c>>, a) \in Seq(S)
      /\ Append(Append(<<c>>, a), w) \in Seq(S)
      /\ Append(Append(Append(<<c>>, a), w), p) \in Seq(S)
      /\ Append(<<c>>, x) \in Seq(S)
  <2> HIDE DEF S, c, a, w, p, x
  <2> QED
    BY <1>2, Concatenations
<1>5. CASE t.exists /\ t.status = "Open"
  <2>1. t.worker = NoOne /\ t.result = NoArtifact
    BY <1>1, <1>5 DEF Sound
  <2>2. Story(t) = <<c>> \o <<>> \o <<>> \o <<>> \o <<>>
    BY <1>5, <2>1, StoryParts DEF SaidIf
  <2> HIDE DEF S, c, a, w, p, x
  <2>3. Story(t) = <<c>>
    BY <1>2, <1>4, <2>2, Concatenations
  <2> QED
    BY <1>3, <1>5, <2>3 DEF c
<1>6. CASE t.exists /\ t.status = "InProgress"
  <2>1. t.worker # NoOne /\ t.result = NoArtifact
    BY <1>1, <1>6 DEF Sound
  <2>2. Story(t) = <<c>> \o <<a>> \o <<>> \o <<>> \o <<>>
    BY <1>6, <2>1, StoryParts DEF SaidIf
  <2> HIDE DEF S, c, a, w, p, x
  <2>3. Story(t) = Append(<<c>>, a)
    BY <1>2, <1>4, <2>2, Concatenations
  <2> QED
    BY <1>3, <1>6, <2>3 DEF c, a
<1>7. CASE t.exists /\ t.status = "Submitted"
  <2>1. t.worker # NoOne /\ t.result # NoArtifact
    BY <1>1, <1>7 DEF Sound
  <2>2. Story(t) = <<c>> \o <<a>> \o <<w>> \o <<>> \o <<>>
    BY <1>7, <2>1, StoryParts DEF SaidIf
  <2> HIDE DEF S, c, a, w, p, x
  <2>4. <<c>> \o <<a>> = Append(<<c>>, a)
    BY <1>2, <1>4, Concatenations
  <2>5. Append(<<c>>, a) \o <<w>> = Append(Append(<<c>>, a), w)
    BY <1>2, <1>4, Concatenations
  <2>3. Story(t) = Append(Append(<<c>>, a), w)
    BY <1>2, <1>4, <2>2, <2>4, <2>5, Concatenations
  <2> QED
    BY <1>3, <1>7, <2>3 DEF c, a, w
<1>8. CASE t.exists /\ t.status = "Completed"
  <2>1. t.worker # NoOne /\ t.result # NoArtifact
    BY <1>1, <1>8 DEF Sound
  <2>2. Story(t) = <<c>> \o <<a>> \o <<w>> \o <<p>> \o <<>>
    BY <1>8, <2>1, StoryParts DEF SaidIf
  <2> HIDE DEF S, c, a, w, p, x
  <2>4. <<c>> \o <<a>> = Append(<<c>>, a)
    BY <1>2, <1>4, Concatenations
  <2>5. Append(<<c>>, a) \o <<w>> = Append(Append(<<c>>, a), w)
    BY <1>2, <1>4, Concatenations
  <2>6. Append(Append(<<c>>, a), w) \o <<p>> = Append(Append(Append(<<c>>, a), w), p)
    BY <1>2, <1>4, Concatenations
  <2>3. Story(t) = Append(Append(Append(<<c>>, a), w), p)
    BY <1>2, <1>4, <2>2, <2>4, <2>5, <2>6, Concatenations
  <2> QED
    BY <1>3, <1>8, <2>3 DEF c, a, w, p
<1>9. CASE t.exists /\ t.status = "Cancelled"
  <2>1. t.worker = NoOne /\ t.result = NoArtifact
    BY <1>1, <1>9 DEF Sound
  <2>2. Story(t) = <<c>> \o <<>> \o <<>> \o <<>> \o <<x>>
    BY <1>9, <2>1, StoryParts DEF SaidIf
  <2> HIDE DEF S, c, a, w, p, x
  <2>3. Story(t) = Append(<<c>>, x)
    BY <1>2, <1>4, <2>2, Concatenations
  <2> QED
    BY <1>3, <1>9, <2>3 DEF c, x
<1> QED
  BY <1>3, <1>5, <1>6, <1>7, <1>8, <1>9

-----------------------------------------------------------------------------
(* What each transition of one task does to its history. *)

LEMMA TellsCreated ==
    ASSUME NEW t \in Task, Sound(t), NEW p, NEW l, Told(NoTask, p, l),
           t.exists, t.status = "Open", t.reward <= MaxReward
    PROVE  Told(t, p, Append(l, Said("TaskCreated", t.creator)))
<1>1. NoTask \in Task /\ Sound(NoTask)
  BY AddressAssumption DEF NoTask, Task, Artifact, Status, Sound
<1>2. l = <<>> /\ Story(t) = <<Said("TaskCreated", t.creator)>>
  BY <1>1, Stories DEF Told
<1>3. Due(t) = Due(NoTask)
  BY DEF Due, NoTask
<1>4. Append(<<>>, Said("TaskCreated", t.creator)) = <<Said("TaskCreated", t.creator)>>
  OBVIOUS
<1> QED
  BY <1>2, <1>3, <1>4 DEF Told

LEMMA TellsAccepted ==
    ASSUME NEW t \in Task, NEW u \in Task, Sound(t), Sound(u),
           NEW p, NEW l, Told(t, p, l), t.exists, u.exists,
           t.status = "Open", u.status = "InProgress",
           u.creator = t.creator, u.reward = t.reward
    PROVE  Told(u, p, Append(l, Said("TaskAccepted", u.worker)))
<1>1. Story(u) = Append(l, Said("TaskAccepted", u.worker))
  BY Stories DEF Told
<1>2. Due(u) = Due(t)
  BY DEF Due
<1> QED
  BY <1>1, <1>2 DEF Told

LEMMA TellsSubmitted ==
    ASSUME NEW t \in Task, NEW u \in Task, Sound(t), Sound(u),
           NEW p, NEW l, Told(t, p, l), t.exists, u.exists,
           t.status = "InProgress", u.status = "Submitted",
           u.creator = t.creator, u.reward = t.reward, u.worker = t.worker
    PROVE  Told(u, p, Append(l, Said("WorkSubmitted", u.worker)))
<1>1. Story(u) = Append(l, Said("WorkSubmitted", u.worker))
  BY Stories DEF Told
<1>2. Due(u) = Due(t)
  BY DEF Due
<1> QED
  BY <1>1, <1>2 DEF Told

Settlement(op) == IF op = "approveTask" THEN "TaskCompleted" ELSE "TaskCancelled"

LEMMA TellsSettled ==
    ASSUME NEW b \in Task, NEW t \in Task, Sound(b), Sound(t),
           NEW p, NEW l, Told(b, p, l), NEW f, Settling(f, b, t)
    PROVE  /\ p = <<>>
           /\ Append(p, [to |-> f.payee, amount |-> f.amount]) = Due(t)
           /\ Told(t, Due(t), Append(l, Said(Settlement(f.op), f.payee)))
<1>1. p = <<>>
  BY DEF Told, Settling, Due
<1>2. Due(t) = <<[to |-> f.payee, amount |-> f.amount]>>
  BY DEF Settling, Due
<1>3. Append(<<>>, [to |-> f.payee, amount |-> f.amount])
          = <<[to |-> f.payee, amount |-> f.amount]>>
  OBVIOUS
<1>4. CASE f.op = "approveTask"
  <2>1. b.status = "Submitted" /\ t.status = "Completed" /\ f.payee = t.worker
        /\ b.exists /\ t.exists /\ t.creator = b.creator /\ t.worker = b.worker
    BY <1>4 DEF Settling
  <2>2. Story(t) = Append(l, Said("TaskCompleted", t.worker))
    BY <2>1, Stories DEF Told
  <2> QED
    BY <1>1, <1>2, <1>3, <1>4, <2>1, <2>2 DEF Told, Settling, Settlement
<1>5. CASE f.op # "approveTask"
  <2>1. b.status = "Open" /\ t.status = "Cancelled" /\ f.payee = t.creator
        /\ b.exists /\ t.exists /\ t.creator = b.creator /\ f.op = "cancelTask"
    BY <1>5 DEF Settling
  <2>2. Story(t) = Append(l, Said("TaskCancelled", t.creator))
    BY <2>1, Stories DEF Told
  <2> QED
    BY <1>1, <1>2, <1>3, <1>5, <2>1, <2>2 DEF Told, Settling, Settlement
<1> QED
  BY <1>4, <1>5

-----------------------------------------------------------------------------
(* What the tasks are known to be, now and in the world to restore. *)
LEMMA TasksSound ==
    ASSUME IInv, NEW id \in TaskIds
    PROVE  tasks[id] \in Task /\ Sound(tasks[id])
<1>1. Coherent(tasks, nextTaskId)
  BY DEF IInv, TaskCoherent, Coherent
<1> QED
  BY <1>1, CoherentSound, Fields

LEMMA SavedSound ==
    ASSUME NEW w, WorldOK(w), NEW id \in TaskIds
    PROVE  w.tasks[id] \in Task /\ Sound(w.tasks[id])
<1>1. w.tasks \in [TaskIds -> Task]
  BY DEF WorldOK, WorldType
<1> QED
  BY <1>1, CoherentSound DEF WorldOK

LEMMA InitHInv == Init => HInv
<1> SUFFICES ASSUME Init PROVE AllTold(tasks, paid, log)
  BY DEF HInv, Init
<1>1. NoTask \in Task /\ Sound(NoTask)
  BY AddressAssumption DEF NoTask, Task, Artifact, Status, Sound
<1>2. Story(NoTask) = <<>>
  BY <1>1, Stories
<1>3. Due(NoTask) = <<>> /\ NoTask.reward <= MaxReward
  BY BoundAssumption DEF Due, NoTask
<1> QED
  BY <1>2, <1>3 DEF AllTold, Told, Init

LEMMA RestoreHInv == ASSUME IInv, HInv, stack # <<>>, Restore(Top.world), Pop PROVE HInv'
<1>1. stack' = <<>>
  BY StackFacts DEF Pop
<1>2. AllTold(Top.world.tasks, Top.world.paid, Top.world.log)
  BY DEF HInv, Pending
<1> QED
  BY <1>1, <1>2 DEF HInv, Restore

LEMMA WorkedSame == ASSUME NEW t PROVE Worked(t, t)
  BY DEF Worked

(* A guarded call begins. *)
LEMMA CreateHInv ==
    ASSUME IInv, HInv, NEW caller \in Accounts, NEW reward \in 0 .. MaxReward,
           NEW metadata \in Metadata, CreateTask(caller, reward, metadata)
    PROVE  HInv'
<1>0. PICK g : g = [op |-> "createTask", id |-> 0, metadata |-> metadata,
                    payer |-> caller, payee |-> Escrow, amount |-> reward,
                    balanceBefore |-> balance[Escrow], moved |-> FALSE,
                    world |-> World]
  OBVIOUS
<1>1. stack = <<>>
  BY NotEntered DEF CreateTask, NonReentrant
<1>2. stack' = <<g>>
  BY <1>0, <1>1 DEF CreateTask, CallToken
<1>3. AllTold(tasks, paid, log) /\ UNCHANGED <<tasks, paid, log>>
  BY <1>1 DEF HInv, CreateTask, storage
<1>4. \A id \in TaskIds : id # g.id
  BY <1>0 DEF TaskIds
<1>5. g.world.tasks = tasks /\ g.world.paid = paid /\ g.world.log = log
      /\ g.balanceBefore = g.world.balance[Escrow]
  BY <1>0 DEF World
<1>6. Pending(g)'
  <2>1. g.op = "createTask" /\ g.id = 0 /\ g.amount <= MaxReward
    BY <1>0, BoundAssumption
  <2>2. \A id \in TaskIds : Told(tasks'[id], paid'[id], log'[id])
                            /\ Worked(g.world.tasks[id], tasks'[id])
    BY <1>3, <1>5, WorkedSame DEF AllTold
  <2> QED
    BY <1>3, <1>4, <1>5, <2>1, <2>2 DEF Pending
<1>7. Top' = g
  BY <1>2 DEF Top
<1> QED
  BY <1>2, <1>6, <1>7 DEF HInv

LEMMA SettleHInv ==
    ASSUME IInv, HInv, NEW caller \in Accounts, NEW id \in TaskIds, NEW payee,
           NEW op, NEW from, NEW to,
           \/ /\ op = "approveTask" /\ from = "Submitted" /\ to = "Completed"
              /\ payee = tasks[id].worker
           \/ /\ op = "cancelTask" /\ from = "Open" /\ to = "Cancelled"
              /\ payee = tasks[id].creator,
           Settle(op, caller, id, from, to, payee)
    PROVE  HInv'
<1>0. PICK g : g = [op |-> op, id |-> id, metadata |-> NoArtifact,
                    payer |-> Escrow, payee |-> payee, amount |-> tasks[id].reward,
                    balanceBefore |-> balance[Escrow], moved |-> FALSE,
                    world |-> World]
  OBVIOUS
<1>1. stack = <<>>
  BY NotEntered DEF Settle, NonReentrant
<1>2. stack' = <<g>> /\ Top' = g
  BY <1>0, <1>1 DEF Settle, CallToken, Top
<1>3. AllTold(tasks, paid, log) /\ paid' = paid /\ log' = log
  BY <1>1 DEF HInv, Settle
<1>4. g.world.tasks = tasks /\ g.world.paid = paid /\ g.world.log = log
      /\ g.world.balance = balance
  BY <1>0 DEF World
<1>5. tasks[id] \in Task /\ tasks[id].exists /\ tasks[id].status = from
      /\ tasks' = [tasks EXCEPT ![id].status = to]
  BY TasksSound DEF Settle, RequireStatus, GetTask
<1>6. \A other \in TaskIds \ {id} : tasks'[other] = tasks[other]
  BY <1>5, Fields
<1>7. tasks'[id] = [tasks[id] EXCEPT !.status = to]
  BY <1>5, Fields
<1>8. Settling(g, tasks[id], tasks'[id])
  BY <1>0, <1>5, <1>7 DEF Settling, Task
<1>9. paid[id] = <<>> /\ tasks[id].reward <= MaxReward
  BY <1>3, <1>5 DEF AllTold, Told, Due
<1>10. balance' = balance /\ balance[Escrow] \in Nat
  BY Fields DEF Settle, Holders
<1>11. Pending(g)'
  <2>1. g.op # "createTask" /\ g.id = id /\ ~g.moved /\ g.amount <= MaxReward
        /\ g.balanceBefore = balance[Escrow]
    BY <1>0, <1>9
  <2>2. \A other \in TaskIds \ {id} :
            Told(tasks'[other], paid'[other], log'[other])
            /\ Worked(g.world.tasks[other], tasks'[other])
    BY <1>3, <1>4, <1>6, WorkedSame DEF AllTold
  <2>3. balance'[Escrow] >= g.world.balance[Escrow] - 0
    BY <1>4, <1>10
  <2> QED
    BY <1>3, <1>4, <1>8, <1>9, <2>1, <2>2, <2>3 DEF Pending
<1> QED
  BY <1>2, <1>11 DEF HInv

(* The token pays out what the pending task is due, and nothing else. *)
LEMMA MovesHInv == ASSUME IInv, HInv, NEW skim \in Skims, TokenMoves(skim) PROVE HInv'
<1>1. PICK f \in Frame : stack = <<f>> /\ FrameOK(f) /\ f = Top
  BY StackFacts DEF TokenMoves
<1>2. PICK g : g = [f EXCEPT !.moved = TRUE]
  OBVIOUS
<1>3. stack' = <<g>>
  <2>1. Len(stack) = 1 /\ stack[1] = f
    BY <1>1
  <2>2. stack' = [stack EXCEPT ![1] = g]
    BY <1>2, <2>1 DEF TokenMoves
  <2>3. [<<f>> EXCEPT ![1] = g] = <<g>>
    OBVIOUS
  <2> QED
    BY <1>1, <2>2, <2>3
<1>4. /\ g.moved /\ g.op = f.op /\ g.id = f.id /\ g.world = f.world /\ g.payee = f.payee
      /\ g.amount = f.amount /\ g.balanceBefore = f.balanceBefore
  BY <1>2 DEF Frame
<1>5. Pending(f) /\ ~f.moved /\ UNCHANGED <<tasks, log>>
  BY <1>1 DEF HInv, TokenMoves, storage
<1>6. \A id \in TaskIds \ {f.id} : paid'[id] = paid[id]
  BY <1>1, Fields DEF TokenMoves
<1>7. \A id \in TaskIds : id = f.id =>
          /\ Settling(g, f.world.tasks[id], tasks[id])
          /\ paid'[id] = Due(tasks[id])
  <2> SUFFICES ASSUME NEW id \in TaskIds, id = f.id
               PROVE  /\ Settling(g, f.world.tasks[id], tasks[id])
                      /\ paid'[id] = Due(tasks[id])
    OBVIOUS
  <2>1. Settling(f, f.world.tasks[id], tasks[id]) /\ paid[id] = <<>>
    BY <1>5 DEF Pending
  <2>2. Settling(g, f.world.tasks[id], tasks[id])
    BY <1>4, <2>1 DEF Settling
  <2>3. f.payer = Escrow
    BY <1>1, <2>1 DEF FrameOK, PayoutFrame, Settling
  <2>4. paid'[id] = Append(paid[id], [to |-> f.payee, amount |-> f.amount])
    BY <1>1, <2>3, Fields DEF TokenMoves
  <2>5. f.world.tasks[id] \in Task /\ Sound(f.world.tasks[id])
        /\ tasks[id] \in Task /\ Sound(tasks[id])
    BY <1>1, TasksSound, SavedSound DEF FrameOK
  <2>6. Told(f.world.tasks[id], f.world.paid[id], f.world.log[id])
    BY <1>5 DEF Pending, AllTold
  <2>7. f.world.paid[id] = <<>>
        /\ Append(f.world.paid[id], [to |-> f.payee, amount |-> f.amount]) = Due(tasks[id])
    BY <2>1, <2>5, <2>6, TellsSettled
  <2> QED
    BY <2>1, <2>2, <2>4, <2>7
<1>8. f.op # "createTask" => balance'[Escrow] >= f.world.balance[Escrow] - f.amount
  <2> SUFFICES ASSUME f.op # "createTask"
               PROVE  balance'[Escrow] >= f.world.balance[Escrow] - f.amount
    OBVIOUS
  <2>1. f.payer = Escrow /\ f.payee \in Accounts /\ f.payee # Escrow
    BY <1>1, AddressAssumption DEF FrameOK, PayoutFrame
  <2>2. balance'[Escrow] = balance[Escrow] - f.amount
    BY <1>1, <2>1, Fields DEF TokenMoves, Holders
  <2>3. balance[Escrow] >= f.world.balance[Escrow] - 0
    BY <1>5 DEF Pending
  <2>4. balance[Escrow] \in Nat /\ f.world.balance[Escrow] \in Nat /\ f.amount \in Nat
    BY <1>1, Fields DEF FrameOK, WorldOK, WorldType, Holders, Frame
  <2> QED
    BY <2>2, <2>3, <2>4
<1>9. Pending(g)'
  <2>1. \A id \in TaskIds : id # f.id =>
            Told(tasks'[id], paid'[id], log'[id]) /\ Worked(f.world.tasks[id], tasks'[id])
    BY <1>5, <1>6 DEF Pending
  <2>2. \A id \in TaskIds : id = f.id => log'[id] = f.world.log[id]
    BY <1>5 DEF Pending
  <2> QED
    BY <1>4, <1>5, <1>7, <1>8, <2>1, <2>2 DEF Pending
<1>10. Top' = g
  BY <1>3 DEF Top
<1> QED
  BY <1>3, <1>9, <1>10 DEF HInv

LEMMA DonateHInv ==
    ASSUME IInv, HInv, NEW from \in Accounts, NEW amount \in 1 .. MaxReward,
           Donate(from, amount)
    PROVE  HInv'
<1>1. UNCHANGED <<tasks, paid, log, stack>> /\ Top' = Top
  BY DEF Donate, storage, Top
<1>2. balance'[Escrow] >= balance[Escrow] /\ balance'[Escrow] \in Nat
      /\ balance[Escrow] \in Nat
  BY AddressAssumption, BoundAssumption, Fields DEF Donate, Holders
<1>3. CASE stack = <<>>
  BY <1>1, <1>3 DEF HInv
<1>4. CASE stack # <<>>
  <2>1. PICK f \in Frame : stack = <<f>> /\ FrameOK(f) /\ f = Top
    BY <1>4, StackFacts
  <2>2. f.world.balance[Escrow] \in Nat /\ f.amount \in Nat
    BY <2>1 DEF FrameOK, WorldOK, WorldType, Holders, Frame
  <2>3. Pending(f)
    BY <1>4, <2>1 DEF HInv
  <2>4. f.op # "createTask" => balance'[Escrow] >= f.world.balance[Escrow]
                                   - (IF f.moved THEN f.amount ELSE 0)
    BY <1>2, <2>2, <2>3 DEF Pending
  <2>5. Pending(f)'
    BY <1>1, <2>3, <2>4 DEF Pending
  <2> QED
    BY <1>1, <1>4, <2>1, <2>5 DEF HInv
<1> QED
  BY <1>3, <1>4

(* One step of a worker: from t to u, which also reports it. *)
WorkOf(caller, id, t, u, name) ==
    /\ t.exists /\ u.exists /\ u.creator = t.creator /\ u.reward = t.reward
    /\ u.metadata = t.metadata /\ u.worker = caller
    /\ \/ /\ name = "TaskAccepted" /\ t.status = "Open" /\ u.status = "InProgress"
          /\ caller # t.creator
       \/ /\ name = "WorkSubmitted" /\ t.status = "InProgress" /\ u.status = "Submitted"
          /\ t.worker = caller
    /\ t.result = NoArtifact
    /\ tasks' = [tasks EXCEPT ![id] = u]
    /\ log' = [log EXCEPT ![id] = Append(@, Said(name, caller))]
    /\ UNCHANGED <<nextTaskId, totalEscrowed, entered, balance, paid, stack>>

LEMMA AcceptIsWork ==
    ASSUME IInv, NEW caller \in Accounts, NEW id \in TaskIds, AcceptTask(caller, id)
    PROVE  \E u : WorkOf(caller, id, tasks[id], u, "TaskAccepted")
<1> DEFINE u == [tasks[id] EXCEPT !.worker = caller, !.status = "InProgress"]
<1>1. tasks[id] \in Task /\ tasks[id].result = NoArtifact
  BY TasksSound DEF AcceptTask, RequireStatus, Sound
<1>2. tasks' = [tasks EXCEPT ![id] = u]
  BY Fields DEF AcceptTask
<1>3. log' = [log EXCEPT ![id] = Append(@, Said("TaskAccepted", caller))]
  BY DEF AcceptTask, Emit, Said
<1>4. /\ u.exists = tasks[id].exists /\ u.creator = tasks[id].creator
      /\ u.reward = tasks[id].reward /\ u.metadata = tasks[id].metadata
      /\ u.worker = caller /\ u.status = "InProgress"
  BY <1>1 DEF Task
<1> HIDE DEF u
<1>5. WorkOf(caller, id, tasks[id], u, "TaskAccepted")
  BY <1>1, <1>2, <1>3, <1>4 DEF WorkOf, AcceptTask, RequireStatus, GetTask
<1> QED
  BY <1>5

LEMMA SubmitIsWork ==
    ASSUME IInv, NEW caller \in Accounts, NEW id \in TaskIds, NEW result \in Results,
           SubmitWork(caller, id, result)
    PROVE  \E u : WorkOf(caller, id, tasks[id], u, "WorkSubmitted")
<1> DEFINE u == [tasks[id] EXCEPT !.result = result, !.status = "Submitted"]
<1>1. tasks[id] \in Task /\ tasks[id].result = NoArtifact
  BY TasksSound DEF SubmitWork, RequireStatus, Sound
<1>2. tasks' = [tasks EXCEPT ![id] = u]
  BY Fields DEF SubmitWork
<1>3. log' = [log EXCEPT ![id] = Append(@, Said("WorkSubmitted", caller))]
  BY DEF SubmitWork, Emit, Said
<1>4. /\ u.exists = tasks[id].exists /\ u.creator = tasks[id].creator
      /\ u.reward = tasks[id].reward /\ u.metadata = tasks[id].metadata
      /\ u.worker = tasks[id].worker /\ u.status = "Submitted"
  BY <1>1 DEF Task
<1> HIDE DEF u
<1>5. WorkOf(caller, id, tasks[id], u, "WorkSubmitted")
  BY <1>1, <1>2, <1>3, <1>4 DEF WorkOf, SubmitWork, RequireStatus, GetTask
<1> QED
  BY <1>5

(* What a worker does to a task that no payout is settling. *)
LEMMA WorkTold ==
    ASSUME IInv, IInv', NEW caller \in Accounts, NEW id \in TaskIds, NEW u, NEW name,
           WorkOf(caller, id, tasks[id], u, name), Told(tasks[id], paid[id], log[id])
    PROVE  /\ Told(tasks'[id], paid'[id], log'[id])
           /\ Worked(tasks[id], tasks'[id])
           /\ \A b \in Task : Sound(b) /\ Worked(b, tasks[id]) => Worked(b, tasks'[id])
<1>1. tasks'[id] = u /\ log'[id] = Append(log[id], Said(name, caller)) /\ paid'[id] = paid[id]
  BY Fields DEF WorkOf
<1>2. tasks[id] \in Task /\ Sound(tasks[id]) /\ u \in Task /\ Sound(u)
  <2>1. Coherent(tasks', nextTaskId')
    BY DEF IInv, TaskCoherent, Coherent
  <2>2. tasks' \in [TaskIds -> Task]
    BY DEF IInv, World, WorldType
  <2> QED
    BY <1>1, <2>1, <2>2, TasksSound, CoherentSound
<1>3. Told(u, paid[id], Append(log[id], Said(name, caller)))
  BY <1>2, TellsAccepted, TellsSubmitted DEF WorkOf
<1>4. Worked(tasks[id], u)
  BY DEF WorkOf, Worked
<1>5. ASSUME NEW b \in Task, Sound(b), Worked(b, tasks[id]) PROVE Worked(b, u)
  BY <1>4, <1>5 DEF WorkOf, Worked
<1> QED
  BY <1>1, <1>3, <1>4, <1>5

LEMMA WorkHInv ==
    ASSUME IInv, IInv', HInv, NEW caller \in Accounts, NEW id \in TaskIds, NEW u, NEW name,
           WorkOf(caller, id, tasks[id], u, name)
    PROVE  HInv'
<1>1. \A other \in TaskIds \ {id} : tasks'[other] = tasks[other] /\ log'[other] = log[other]
  BY Fields DEF WorkOf
<1>2. paid' = paid /\ balance' = balance /\ stack' = stack /\ Top' = Top
  BY DEF WorkOf, Top
<1>3. CASE stack = <<>>
  <2>1. AllTold(tasks, paid, log)
    BY <1>3 DEF HInv
  <2>2. Told(tasks'[id], paid'[id], log'[id])
    BY <2>1, WorkTold DEF AllTold
  <2> QED
    BY <1>1, <1>2, <1>3, <2>1, <2>2 DEF AllTold, HInv
<1>4. CASE stack # <<>>
  <2>1. PICK f \in Frame : stack = <<f>> /\ FrameOK(f) /\ f = Top
    BY <1>4, StackFacts
  <2>2. Pending(f)
    BY <1>4, <2>1 DEF HInv
  <2>3. id # f.id
    BY <2>2 DEF Pending, Settling, WorkOf
  <2>4. Told(tasks[id], paid[id], log[id]) /\ Worked(f.world.tasks[id], tasks[id])
    BY <2>2, <2>3 DEF Pending
  <2>5. Told(tasks'[id], paid'[id], log'[id]) /\ Worked(f.world.tasks[id], tasks'[id])
    BY <2>1, <2>4, WorkTold, SavedSound DEF FrameOK
  <2>6. Pending(f)'
    BY <1>1, <1>2, <2>2, <2>3, <2>5 DEF Pending
  <2> QED
    BY <1>2, <1>4, <2>1, <2>6 DEF HInv
<1> QED
  BY <1>3, <1>4

(* createTask returns: the free id becomes the task that was funded. *)
LEMMA CreateReturnsHInv == ASSUME IInv, IInv', HInv, CreateReturns PROVE HInv'
<1>1. PICK f \in Frame : stack = <<f>> /\ FrameOK(f) /\ f = Top
  BY StackFacts DEF CreateReturns
<1>2. Pending(f) /\ f.op = "createTask" /\ stack' = <<>>
  BY <1>1, StackFacts DEF HInv, CreateReturns, Pop
<1>3. \A id \in TaskIds : Told(tasks[id], paid[id], log[id])
  BY <1>2 DEF Pending, TaskIds
<1>4. nextTaskId \in TaskIds
  BY <1>1, <1>2, Fields DEF FrameOK, CreateFrame, TaskIds
<1>5. PICK t : t = [creator |-> f.payer, worker |-> NoOne, reward |-> f.amount,
                    metadata |-> f.metadata, result |-> NoArtifact,
                    status |-> "Open", exists |-> TRUE]
  OBVIOUS
<1>6. /\ tasks' = [tasks EXCEPT ![nextTaskId] = t] /\ paid' = paid
      /\ log' = [log EXCEPT ![nextTaskId] = Append(@, Said("TaskCreated", t.creator))]
  BY <1>1, <1>5 DEF CreateReturns, Emit, Said
<1>7. tasks'[nextTaskId] = t /\ t \in Task /\ Sound(t)
  <2>1. tasks'[nextTaskId] = t
    BY <1>4, <1>6, Fields
  <2>2. Coherent(tasks', nextTaskId') /\ tasks' \in [TaskIds -> Task]
    BY DEF IInv, TaskCoherent, Coherent, World, WorldType
  <2> QED
    BY <1>4, <2>1, <2>2, CoherentSound
<1>8. tasks[nextTaskId] = NoTask
  <2>1. ~tasks[nextTaskId].exists
    BY <1>4, Fields DEF IInv, TaskCoherent
  <2> QED
    BY <1>3, <1>4, <2>1 DEF Told
<1>9. t.reward <= MaxReward /\ t.exists /\ t.status = "Open"
  BY <1>2, <1>5 DEF Pending
<1>10. Told(t, paid[nextTaskId], Append(log[nextTaskId], Said("TaskCreated", t.creator)))
  BY <1>3, <1>4, <1>7, <1>8, <1>9, TellsCreated
<1>11. \A id \in TaskIds : Told(tasks'[id], paid'[id], log'[id])
  BY <1>3, <1>4, <1>6, <1>7, <1>10, Fields
<1> QED
  BY <1>2, <1>11 DEF HInv, AllTold

(* approveTask or cancelTask returns: the missing event is emitted. *)
LEMMA SettleReturnsHInv == ASSUME IInv, HInv, SettleReturns PROVE HInv'
<1>1. PICK f \in Frame : stack = <<f>> /\ FrameOK(f) /\ f = Top
  BY StackFacts DEF SettleReturns
<1>2. Pending(f) /\ f.op \in {"approveTask", "cancelTask"} /\ f.moved /\ stack' = <<>>
  BY <1>1, StackFacts DEF HInv, SettleReturns, Pop
<1>3. f.id \in TaskIds
  BY <1>1, <1>2 DEF FrameOK, PayoutFrame
<1>4. /\ UNCHANGED <<tasks, paid>>
      /\ log' = [log EXCEPT ![f.id] = Append(@, Said(Settlement(f.op), f.payee))]
  BY <1>1 DEF SettleReturns, storage, Emit, Said, Settlement
<1>5. /\ Settling(f, f.world.tasks[f.id], tasks[f.id])
      /\ paid[f.id] = Due(tasks[f.id]) /\ log[f.id] = f.world.log[f.id]
      /\ Told(f.world.tasks[f.id], f.world.paid[f.id], f.world.log[f.id])
  BY <1>2, <1>3 DEF Pending, AllTold
<1>6. f.world.tasks[f.id] \in Task /\ Sound(f.world.tasks[f.id])
      /\ tasks[f.id] \in Task /\ Sound(tasks[f.id])
  BY <1>1, <1>3, TasksSound, SavedSound DEF FrameOK
<1>7. Told(tasks[f.id], paid[f.id], Append(log[f.id], Said(Settlement(f.op), f.payee)))
  <2>1. PICK b, t, p, l : b = f.world.tasks[f.id] /\ t = tasks[f.id]
                          /\ p = f.world.paid[f.id] /\ l = f.world.log[f.id]
    OBVIOUS
  <2>2. /\ b \in Task /\ t \in Task /\ Sound(b) /\ Sound(t)
        /\ Told(b, p, l) /\ Settling(f, b, t)
    BY <1>5, <1>6, <2>1
  <2>3. Told(t, Due(t), Append(l, Said(Settlement(f.op), f.payee)))
    BY <2>2, TellsSettled
  <2> QED
    BY <1>5, <2>1, <2>3
<1>8. \A id \in TaskIds : Told(tasks'[id], paid'[id], log'[id])
  BY <1>2, <1>3, <1>4, <1>7, Fields DEF Pending
<1> QED
  BY <1>2, <1>8 DEF HInv, AllTold

LEMMA NextHInv == IInv /\ IInv' /\ HInv /\ [Next]_vars => HInv'
<1> SUFFICES ASSUME IInv, IInv', HInv, [Next]_vars PROVE HInv'
  OBVIOUS
<1>1. CASE \E a \in Accounts, r \in 0 .. MaxReward, m \in Metadata : CreateTask(a, r, m)
  BY <1>1, CreateHInv
<1>2. CASE \E skim \in Skims : TokenMoves(skim)
  BY <1>2, MovesHInv
<1>3. CASE TokenReverts \/ CreateRejects
  BY <1>3, RestoreHInv DEF TokenReverts, CreateRejects
<1>4. CASE \E a \in Accounts, n \in 1 .. MaxReward : Donate(a, n)
  BY <1>4, DonateHInv
<1>5. CASE CreateReturns
  BY <1>5, CreateReturnsHInv
<1>6. CASE \E a \in Accounts, id \in TaskIds : AcceptTask(a, id)
  BY <1>6, AcceptIsWork, WorkHInv
<1>7. CASE \E a \in Accounts, id \in TaskIds, r \in Results : SubmitWork(a, id, r)
  BY <1>7, SubmitIsWork, WorkHInv
<1>8. CASE \E a \in Accounts, id \in TaskIds : ApproveTask(a, id)
  BY <1>8, SettleHInv DEF ApproveTask
<1>9. CASE \E a \in Accounts, id \in TaskIds : CancelTask(a, id)
  BY <1>9, SettleHInv DEF CancelTask
<1>10. CASE SettleReturns
  BY <1>10, SettleReturnsHInv
<1>11. CASE UNCHANGED vars
  <2>1. UNCHANGED <<tasks, paid, log, balance, stack>> /\ Top' = Top
    BY <1>11 DEF vars, Top
  <2>2. stack # <<>> => Pending(Top)'
    BY <2>1 DEF HInv, Pending
  <2> QED
    BY <2>1, <2>2 DEF HInv
<1> QED
  BY <1>1, <1>2, <1>3, <1>4, <1>5, <1>6, <1>7, <1>8, <1>9, <1>10, <1>11 DEF Next

\* The history of every task is complete between transactions, and in a pending
\* call it lacks exactly what that call has still to do.
THEOREM HistoryKept == Spec => []HInv
  BY Inductive, InitHInv, NextHInv, PTL DEF Spec

\* Between transactions a task's reward has left escrow exactly once, to the
\* worker if approveTask completed it and to the creator if cancelTask did, and
\* not at all before: no callback or revert makes approveTask or cancelTask pay twice.
THEOREM RewardsPaidOnce == Spec => []PaidOnce
<1>1. HInv => PaidOnce
  BY DEF HInv, AllTold, Told, PaidOnce, Idle
<1> QED
  BY <1>1, HistoryKept, PTL

\* Between transactions the events the contract emitted for a task are its
\* transitions, in order, each once, naming who made them: what the indexer replays.
THEOREM EventsTellTheStory == Spec => []LogTellsTheStory
<1>1. HInv => LogTellsTheStory
  BY DEF HInv, AllTold, Told, LogTellsTheStory, Idle
<1> QED
  BY <1>1, HistoryKept, PTL

-----------------------------------------------------------------------------
(* What the indexer takes for granted of the log: Before, Lawful and       *)
(* IdAssumption of modules Indexer and ReadApi, of the log of one task.    *)
Precedes(m, n) ==
    <<m, n>> \in {<<"TaskCreated", "TaskAccepted">>, <<"TaskCreated", "WorkSubmitted">>,
                  <<"TaskCreated", "TaskCompleted">>, <<"TaskCreated", "TaskCancelled">>,
                  <<"TaskAccepted", "WorkSubmitted">>, <<"TaskAccepted", "TaskCompleted">>,
                  <<"WorkSubmitted", "TaskCompleted">>}

LawfulStory(es) ==
    /\ \A i, j \in DOMAIN es : i < j => Precedes(es[i].name, es[j].name)
    /\ \A i \in DOMAIN es : \A m \in EventName \ {"TaskCancelled"} :
           Precedes(m, es[i].name) => \E j \in 1 .. i : es[j].name = m

LogsAreLawful ==
    Idle => \A id \in TaskIds : /\ LawfulStory(log[id])
                                /\ log[id] # <<>> <=> id < nextTaskId

LEMMA OneMore ==
    ASSUME NEW S, NEW es \in Seq(S), NEW e \in S
    PROVE  /\ Append(es, e) \in Seq(S) /\ Len(Append(es, e)) = Len(es) + 1
           /\ Append(es, e)[Len(es) + 1] = e
           /\ \A i \in 1 .. Len(es) : Append(es, e)[i] = es[i]
  OBVIOUS

(* An event that comes after those before it, and not without them. *)
LEMMA LawfulMore ==
    ASSUME NEW S, NEW es \in Seq(S), NEW e \in S, LawfulStory(es),
           \A i \in 1 .. Len(es) : Precedes(es[i].name, e.name),
           \A m \in EventName : Precedes(m, e.name) =>
               \E i \in 1 .. Len(es) : es[i].name = m
    PROVE  LawfulStory(Append(es, e))
<1>1. PICK more : more = Append(es, e)
  OBVIOUS
<1>2. PICK n : n = Len(es)
  OBVIOUS
<1>3. n \in Nat /\ DOMAIN es = 1 .. n
  BY <1>2
<1>4. /\ DOMAIN more = 1 .. n + 1 /\ more[n + 1] = e
      /\ \A i \in 1 .. n : more[i] = es[i]
  BY <1>1, <1>2, <1>3, OneMore
<1>5. ASSUME NEW i \in 1 .. n + 1, NEW j \in 1 .. n + 1, i < j
      PROVE  Precedes(more[i].name, more[j].name)
  <2>1. i \in 1 .. n /\ (j \in 1 .. n \/ j = n + 1)
    BY <1>3, <1>5
  <2> QED
    BY <1>2, <1>3, <1>4, <1>5, <2>1 DEF LawfulStory
<1>6. ASSUME NEW i \in 1 .. n + 1, NEW m \in EventName \ {"TaskCancelled"},
             Precedes(m, more[i].name)
      PROVE  \E j \in 1 .. i : more[j].name = m
  <2>1. CASE i \in 1 .. n
    <3>1. PICK j \in 1 .. i : es[j].name = m
      BY <1>3, <1>4, <1>6, <2>1 DEF LawfulStory
    <3>2. j \in 1 .. n
      BY <1>3, <2>1
    <3> QED
      BY <1>4, <3>1, <3>2
  <2>2. CASE i = n + 1
    <3>1. PICK j \in 1 .. n : es[j].name = m
      BY <1>2, <1>4, <1>6, <2>2
    <3>2. j \in 1 .. i
      BY <1>3, <2>2
    <3> QED
      BY <1>4, <3>1, <3>2
  <2> QED
    BY <1>3, <2>1, <2>2
<1> QED
  BY <1>1, <1>4, <1>5, <1>6 DEF LawfulStory

LEMMA StoryIsLawful ==
    ASSUME NEW t \in Task, Sound(t), ~t.exists => t = NoTask
    PROVE  LawfulStory(Story(t)) /\ (Story(t) # <<>> <=> t.exists)
<1> DEFINE c == Said("TaskCreated", t.creator)
           a == Said("TaskAccepted", t.worker)
           w == Said("WorkSubmitted", t.worker)
           p == Said("TaskCompleted", t.worker)
           x == Said("TaskCancelled", t.creator)
           S == {c, a, w, p, x}
           taken == Append(<<c>>, a)
           delivered == Append(taken, w)
           paidOut == Append(delivered, p)
           refunded == Append(<<c>>, x)
<1>1. /\ c.name = "TaskCreated" /\ a.name = "TaskAccepted" /\ w.name = "WorkSubmitted"
      /\ p.name = "TaskCompleted" /\ x.name = "TaskCancelled"
      /\ c \in S /\ a \in S /\ w \in S /\ p \in S /\ x \in S
  BY DEF Said
<1>2. /\ t = NoTask => Story(t) = <<>>
      /\ t.exists /\ t.status = "Open" => Story(t) = <<c>>
      /\ t.exists /\ t.status = "InProgress" => Story(t) = taken
      /\ t.exists /\ t.status = "Submitted" => Story(t) = delivered
      /\ t.exists /\ t.status = "Completed" => Story(t) = paidOut
      /\ t.exists /\ t.status = "Cancelled" => Story(t) = refunded
  BY Stories
<1>3. t.status \in {"Open", "InProgress", "Submitted", "Completed", "Cancelled"}
  BY DEF Task, Status
<1> HIDE DEF c, a, w, p, x, S
<1>4. <<c>> \in Seq(S) /\ Len(<<c>>) = 1 /\ <<c>>[1] = c /\ LawfulStory(<<c>>)
      /\ LawfulStory(<<>>)
  <2>1. <<c>> \in Seq(S) /\ Len(<<c>>) = 1 /\ <<c>>[1] = c /\ DOMAIN <<c>> = {1}
    BY <1>1
  <2>2. \A m \in EventName : ~Precedes(m, "TaskCreated")
    BY DEF Precedes, EventName
  <2> QED
    BY <1>1, <2>1, <2>2 DEF LawfulStory
<1>5. /\ taken \in Seq(S) /\ Len(taken) = 2 /\ taken[1] = c /\ taken[2] = a
      /\ refunded \in Seq(S) /\ Len(refunded) = 2
  BY <1>1, <1>4, OneMore
<1> HIDE DEF taken
<1>6. /\ delivered \in Seq(S) /\ Len(delivered) = 3
      /\ delivered[1] = c /\ delivered[2] = a /\ delivered[3] = w
  <2>1. /\ delivered \in Seq(S) /\ Len(delivered) = Len(taken) + 1
        /\ delivered[Len(taken) + 1] = w
        /\ \A i \in 1 .. Len(taken) : delivered[i] = taken[i]
    <3>1. w \in S /\ taken \in Seq(S)
      BY <1>1, <1>5
    <3> QED
      BY <3>1, OneMore
  <2> HIDE DEF delivered
  <2> QED
    BY <1>5, <2>1
<1> HIDE DEF delivered
<1>7. paidOut \in Seq(S) /\ Len(paidOut) = 4
  <2>1. paidOut \in Seq(S) /\ Len(paidOut) = Len(delivered) + 1
    <3>1. p \in S /\ delivered \in Seq(S)
      BY <1>1, <1>6
    <3> QED
      BY <3>1, OneMore
  <2> HIDE DEF paidOut
  <2> QED
    BY <1>6, <2>1
<1>8. LawfulStory(taken)
  <2>1. \A m \in EventName : Precedes(m, "TaskAccepted") <=> m = "TaskCreated"
    BY DEF Precedes, EventName
  <2>2. \A i \in 1 .. Len(<<c>>) : <<c>>[i].name = "TaskCreated"
    BY <1>1, <1>4
  <2>3. "TaskCreated" \in EventName /\ 1 \in 1 .. Len(<<c>>)
    BY <1>4 DEF EventName
  <2> QED
    BY <1>1, <1>4, <2>1, <2>2, <2>3, LawfulMore DEF taken
<1>9. LawfulStory(refunded)
  <2>1. \A m \in EventName : Precedes(m, "TaskCancelled") <=> m = "TaskCreated"
    BY DEF Precedes, EventName
  <2>2. \A i \in 1 .. Len(<<c>>) : <<c>>[i].name = "TaskCreated"
    BY <1>1, <1>4
  <2>3. "TaskCreated" \in EventName /\ 1 \in 1 .. Len(<<c>>)
    BY <1>4 DEF EventName
  <2> QED
    BY <1>1, <1>4, <2>1, <2>2, <2>3, LawfulMore
<1>10. LawfulStory(delivered)
  <2>1. \A m \in EventName :
            Precedes(m, "WorkSubmitted") <=> m \in {"TaskCreated", "TaskAccepted"}
    BY DEF Precedes, EventName
  <2>2. \A i \in 1 .. Len(taken) : Precedes(taken[i].name, w.name)
    BY <1>1, <1>5 DEF Precedes
  <2>3. ASSUME NEW m \in EventName, Precedes(m, w.name)
        PROVE  \E i \in 1 .. Len(taken) : taken[i].name = m
    BY <1>1, <1>5, <2>1, <2>3
  <2> QED
    BY <1>1, <1>5, <1>8, <2>2, <2>3, LawfulMore DEF delivered
<1>11. LawfulStory(paidOut)
  <2>1. \A m \in EventName : Precedes(m, "TaskCompleted") <=>
            m \in {"TaskCreated", "TaskAccepted", "WorkSubmitted"}
    BY DEF Precedes, EventName
  <2>2. \A i \in 1 .. Len(delivered) : Precedes(delivered[i].name, p.name)
    BY <1>1, <1>6 DEF Precedes
  <2>3. ASSUME NEW m \in EventName, Precedes(m, p.name)
        PROVE  \E i \in 1 .. Len(delivered) : delivered[i].name = m
    BY <1>1, <1>6, <2>1, <2>3
  <2> QED
    BY <1>1, <1>6, <1>10, <2>2, <2>3, LawfulMore
<1> HIDE DEF paidOut, refunded
<1>12. Len(<<>>) = 0
  OBVIOUS
<1>13. t = NoTask => ~t.exists
  BY DEF NoTask
<1>14. Story(t) # <<>> <=> t.exists
  <2>1. <<c>> # <<>> /\ taken # <<>> /\ refunded # <<>> /\ delivered # <<>> /\ paidOut # <<>>
    <3>1. \A q : Len(q) # 0 => q # <<>>
      BY <1>12
    <3>2. /\ Len(<<c>>) # 0 /\ Len(taken) # 0 /\ Len(refunded) # 0
          /\ Len(delivered) # 0 /\ Len(paidOut) # 0
      BY <1>4, <1>5, <1>6, <1>7
    <3> QED
      BY <3>1, <3>2, Zenon
  <2> QED
    BY <1>2, <1>3, <1>13, <2>1
<1> QED
  BY <1>2, <1>3, <1>4, <1>8, <1>9, <1>10, <1>11, <1>14

\* Between transactions the log of every task is one the indexer can replay: an event
\* never comes before one it presupposes nor without it, and the tasks that were announced
\* are the ones whose ids createTask has handed out, 1, 2, ..., whatever calls are nested.
THEOREM LogsLawful == Spec => []LogsAreLawful
<1>1. IInv /\ HInv => LogsAreLawful
  <2> SUFFICES ASSUME IInv, HInv, stack = <<>>, NEW id \in TaskIds
               PROVE  LawfulStory(log[id]) /\ (log[id] # <<>> <=> id < nextTaskId)
    BY DEF LogsAreLawful, Idle
  <2>1. Told(tasks[id], paid[id], log[id])
    BY DEF HInv, AllTold
  <2>2. tasks[id] \in Task
    BY DEF IInv, WorldType, World
  <2>3. Sound(tasks[id]) /\ (tasks[id].exists <=> id < nextTaskId)
    <3>1. Coherent(tasks, nextTaskId)
      BY DEF IInv, TaskCoherent, Coherent
    <3> QED
      BY <3>1, CoherentSound DEF Coherent
  <2>4. log[id] = Story(tasks[id]) /\ (~tasks[id].exists => tasks[id] = NoTask)
    BY <2>1 DEF Told
  <2> QED
    BY <2>2, <2>3, <2>4, StoryIsLawful
<1>2. Spec => []IInv
  BY Inductive, PTL DEF Spec
<1> QED
  BY <1>1, <1>2, HistoryKept, PTL

-----------------------------------------------------------------------------
(* One step seen from transaction to transaction. *)

(* What a finished transaction has made of one task. *)
FundedTask(b, t, amount) ==
    /\ b = NoTask /\ t.exists /\ t.status = "Open" /\ t.creator \in Accounts
    /\ t.worker = NoOne /\ t.reward = amount /\ amount \in 1 .. MaxReward

SettledTask(b, t, amount) ==
    /\ \E f \in Frame : Settling(f, b, t)
    /\ b.reward = amount /\ amount \in 1 .. MaxReward

OthersWorked(ts, us, ids) == \A id \in TaskIds \ ids : Worked(ts[id], us[id])

(* ts and us are the committed tasks before and after, v and w the vault.  *)
Advances(ts, us, v, w) ==
    \/ OthersWorked(ts, us, {}) /\ w >= v
    \/ \E id \in TaskIds, amount \in 1 .. MaxReward :
          /\ OthersWorked(ts, us, {id})
          /\ \/ FundedTask(ts[id], us[id], amount) /\ w >= v + amount
             \/ SettledTask(ts[id], us[id], amount) /\ w >= v - amount

(* The committed world is one between transactions. *)
LEMMA CommittedOK == IInv => WorldOK(Committed)
<1> SUFFICES ASSUME IInv PROVE WorldOK(Committed)
  OBVIOUS
<1>1. CASE stack = <<>>
  <2>1. ~entered /\ balance[Escrow] >= totalEscrowed
    BY <1>1 DEF IInv, StackOK
  <2> QED
    BY <1>1, <2>1, WorldIsOK DEF Committed, Idle
<1>2. CASE stack # <<>>
  <2>1. PICK f \in Frame : stack = <<f>> /\ FrameOK(f)
    BY <1>2, StackFacts
  <2> QED
    BY <2>1 DEF Committed, Idle, FrameOK
<1> QED
  BY <1>1, <1>2

(* A step inside a pending call, and one that begins or reverts a call,    *)
(* commits nothing.                                                        *)
LEMMA CallCommitsNothing ==
    ASSUME IInv, NEW f, f.world = World, stack = <<>>, stack' = <<f>>
    PROVE  Committed' = Committed
  BY DEF Committed, Idle

LEMMA PendingCommitsNothing ==
    ASSUME IInv, stack # <<>>, stack' = stack
    PROVE  Committed' = Committed
  BY DEF Committed, Idle

LEMMA RevertCommitsNothing ==
    ASSUME IInv, stack # <<>>, Restore(Top.world), Pop
    PROVE  Committed' = Committed
<1>1. PICK f \in Frame : stack = <<f>> /\ FrameOK(f) /\ f = Top
  BY StackFacts
<1>2. Committed = f.world /\ stack' = <<>>
  BY <1>1, StackFacts DEF Committed, Idle, Pop
<1>3. World' = f.world
  BY <1>1 DEF Restore, World, FrameOK, WorldOK, WorldType
<1> QED
  BY <1>2, <1>3 DEF Committed, Idle

(* Outside a call a worker's step and a donation are transactions.         *)
LEMMA WorkCommits ==
    ASSUME IInv, IInv', HInv, NEW caller \in Accounts, NEW id \in TaskIds, NEW u, NEW name,
           WorkOf(caller, id, tasks[id], u, name), stack = <<>>
    PROVE  Advances(Committed.tasks, Committed'.tasks,
                    Committed.balance[Escrow], Committed'.balance[Escrow])
<1>1. Committed.tasks = tasks /\ Committed'.tasks = tasks'
      /\ Committed.balance = balance /\ Committed'.balance = balance
  BY DEF Committed, Idle, World, WorkOf
<1>2. Told(tasks[id], paid[id], log[id])
  BY DEF HInv, AllTold
<1>3. Worked(tasks[id], tasks'[id])
  BY <1>2, WorkTold
<1>4. \A other \in TaskIds \ {id} : tasks'[other] = tasks[other]
  BY Fields DEF WorkOf
<1>5. balance[Escrow] \in Nat
  BY Fields DEF Holders
<1> QED
  BY <1>1, <1>3, <1>4, <1>5, WorkedSame DEF Advances, OthersWorked

LEMMA DonateCommits ==
    ASSUME IInv, NEW from \in Accounts, NEW amount \in 1 .. MaxReward,
           Donate(from, amount), stack = <<>>
    PROVE  Advances(Committed.tasks, Committed'.tasks,
                    Committed.balance[Escrow], Committed'.balance[Escrow])
<1>1. Committed.tasks = tasks /\ Committed'.tasks = tasks
      /\ Committed.balance = balance /\ Committed'.balance = balance'
  BY DEF Committed, Idle, World, Donate, storage
<1>2. balance'[Escrow] >= balance[Escrow]
  BY AddressAssumption, BoundAssumption, Fields DEF Donate, Holders
<1> QED
  BY <1>1, <1>2, WorkedSame DEF Advances, OthersWorked

LEMMA CreateCommits ==
    ASSUME IInv, IInv', HInv, CreateReturns
    PROVE  Advances(Committed.tasks, Committed'.tasks,
                    Committed.balance[Escrow], Committed'.balance[Escrow])
<1>1. PICK f \in Frame : stack = <<f>> /\ FrameOK(f) /\ f = Top
  BY StackFacts DEF CreateReturns
<1>2. Pending(f) /\ f.op = "createTask" /\ stack' = <<>>
  BY <1>1, StackFacts DEF HInv, CreateReturns, Pop
<1>3. /\ Committed.tasks = f.world.tasks /\ Committed'.tasks = tasks'
      /\ Committed.balance = f.world.balance /\ Committed'.balance = balance'
  BY <1>1, <1>2 DEF Committed, Idle, World
<1>4. nextTaskId \in TaskIds /\ f.payer \in Accounts /\ f.amount > 0
  BY <1>1, <1>2, Fields DEF FrameOK, CreateFrame, TaskIds
<1>5. f.amount \in 1 .. MaxReward
  BY <1>1, <1>2, <1>4, BoundAssumption DEF Pending, Frame
<1>6. PICK t : t = [creator |-> f.payer, worker |-> NoOne, reward |-> f.amount,
                    metadata |-> f.metadata, result |-> NoArtifact,
                    status |-> "Open", exists |-> TRUE]
  OBVIOUS
<1>7. tasks' = [tasks EXCEPT ![nextTaskId] = t] /\ balance' = balance
  BY <1>1, <1>6 DEF CreateReturns
<1>8. f.world.tasks[nextTaskId] = NoTask
  <2>1. Told(tasks[nextTaskId], paid[nextTaskId], log[nextTaskId])
        /\ Worked(f.world.tasks[nextTaskId], tasks[nextTaskId])
    BY <1>2, <1>4 DEF Pending, TaskIds
  <2>2. ~tasks[nextTaskId].exists
    BY <1>4, Fields DEF IInv, TaskCoherent
  <2> QED
    BY <2>1, <2>2 DEF Told, Worked
<1>9. FundedTask(f.world.tasks[nextTaskId], tasks'[nextTaskId], f.amount)
  <2>1. tasks'[nextTaskId] = t
    BY <1>4, <1>7, Fields
  <2> QED
    BY <1>4, <1>5, <1>6, <1>8, <2>1 DEF FundedTask
<1>10. OthersWorked(f.world.tasks, tasks', {nextTaskId})
  <2>1. \A id \in TaskIds : Worked(f.world.tasks[id], tasks[id])
    BY <1>2 DEF Pending, TaskIds
  <2> QED
    BY <1>7, <2>1, Fields DEF OthersWorked
<1>11. balance'[Escrow] >= f.world.balance[Escrow] + f.amount
  <2>1. balance[Escrow] \in Nat /\ f.balanceBefore \in Nat /\ f.amount \in Nat
    BY <1>1, Fields DEF Holders, Frame
  <2>2. f.balanceBefore = f.world.balance[Escrow]
    BY <1>2 DEF Pending
  <2>3. balance[Escrow] = f.balanceBefore + f.amount
    BY <1>1, <1>5, <2>1 DEF CreateReturns, EscrowAccepted, Received
  <2> QED
    BY <1>7, <2>1, <2>2, <2>3
<1> QED
  BY <1>3, <1>4, <1>5, <1>9, <1>10, <1>11 DEF Advances

LEMMA SettleCommits ==
    ASSUME IInv, HInv, SettleReturns
    PROVE  Advances(Committed.tasks, Committed'.tasks,
                    Committed.balance[Escrow], Committed'.balance[Escrow])
<1>1. PICK f \in Frame : stack = <<f>> /\ FrameOK(f) /\ f = Top
  BY StackFacts DEF SettleReturns
<1>2. Pending(f) /\ f.op # "createTask" /\ f.moved /\ stack' = <<>>
      /\ tasks' = tasks /\ balance' = balance
  BY <1>1, StackFacts DEF HInv, SettleReturns, Pop, storage
<1>3. /\ Committed.tasks = f.world.tasks /\ Committed'.tasks = tasks
      /\ Committed.balance = f.world.balance /\ Committed'.balance = balance
  BY <1>1, <1>2 DEF Committed, Idle, World
<1>4. f.id \in TaskIds
  BY <1>1, <1>2 DEF FrameOK, PayoutFrame
<1>5. Settling(f, f.world.tasks[f.id], tasks[f.id])
  BY <1>2, <1>4 DEF Pending
<1>6. f.amount = f.world.tasks[f.id].reward /\ f.amount \in 1 .. MaxReward
  <2>1. f.world.tasks[f.id].reward > 0
    BY <1>1, <1>4, <1>5 DEF FrameOK, WorldOK, Coherent, Settling
  <2> QED
    BY <1>1, <1>2, <1>5, <2>1, BoundAssumption DEF Settling, Pending, Frame
<1>7. SettledTask(f.world.tasks[f.id], tasks[f.id], f.amount)
  BY <1>5, <1>6 DEF SettledTask
<1>8. OthersWorked(f.world.tasks, tasks, {f.id})
  BY <1>2 DEF Pending, OthersWorked
<1>9. balance[Escrow] >= f.world.balance[Escrow] - f.amount
  BY <1>2 DEF Pending
<1> QED
  BY <1>3, <1>4, <1>6, <1>7, <1>8, <1>9 DEF Advances

LEMMA CommittedSteps ==
    ASSUME IInv, IInv', HInv, [Next]_vars
    PROVE  \/ Committed' = Committed
           \/ Advances(Committed.tasks, Committed'.tasks,
                       Committed.balance[Escrow], Committed'.balance[Escrow])
<1>1. CASE \E a \in Accounts, r \in 0 .. MaxReward, m \in Metadata : CreateTask(a, r, m)
  <2>1. PICK a \in Accounts, r \in 0 .. MaxReward, m \in Metadata : CreateTask(a, r, m)
    BY <1>1
  <2>2. stack = <<>>
    BY <2>1, NotEntered DEF CreateTask, NonReentrant
  <2>3. \E f : f.world = World /\ stack' = <<f>>
    BY <2>1, <2>2 DEF CreateTask, CallToken
  <2> QED
    BY <2>2, <2>3, CallCommitsNothing
<1>2. CASE \E skim \in Skims : TokenMoves(skim)
  <2>1. PICK f \in Frame : stack = <<f>> /\ FrameOK(f) /\ f = Top
    BY <1>2, StackFacts DEF TokenMoves
  <2>2. PICK g : g = [f EXCEPT !.moved = TRUE]
    OBVIOUS
  <2>3. stack' = <<g>>
    <3>1. Len(stack) = 1 /\ stack[1] = f
      BY <2>1
    <3>2. stack' = [stack EXCEPT ![1] = g]
      BY <1>2, <2>2, <3>1 DEF TokenMoves
    <3>3. [<<f>> EXCEPT ![1] = g] = <<g>>
      OBVIOUS
    <3> QED
      BY <2>1, <3>2, <3>3
  <2>4. g.world = f.world
    BY <2>2 DEF Frame
  <2> QED
    BY <2>1, <2>3, <2>4 DEF Committed, Idle
<1>3. CASE TokenReverts \/ CreateRejects
  BY <1>3, RevertCommitsNothing DEF TokenReverts, CreateRejects
<1>4. CASE \E a \in Accounts, n \in 1 .. MaxReward : Donate(a, n)
  BY <1>4, DonateCommits, PendingCommitsNothing DEF Donate
<1>5. CASE CreateReturns
  BY <1>5, CreateCommits
<1>6. CASE \/ \E a \in Accounts, id \in TaskIds : AcceptTask(a, id)
           \/ \E a \in Accounts, id \in TaskIds, r \in Results : SubmitWork(a, id, r)
  <2>1. stack' = stack
    BY <1>6 DEF AcceptTask, SubmitWork
  <2>2. CASE stack = <<>>
    BY <1>6, <2>2, AcceptIsWork, SubmitIsWork, WorkCommits
  <2> QED
    BY <2>1, <2>2, PendingCommitsNothing
<1>7. CASE \E a \in Accounts, id \in TaskIds : ApproveTask(a, id) \/ CancelTask(a, id)
  <2>1. PICK op, a, id, from, to, payee : Settle(op, a, id, from, to, payee)
    BY <1>7 DEF ApproveTask, CancelTask
  <2>2. stack = <<>>
    BY <2>1, NotEntered DEF Settle, NonReentrant
  <2>3. \E f : f.world = World /\ stack' = <<f>>
    BY <2>1, <2>2 DEF Settle, CallToken
  <2> QED
    BY <2>2, <2>3, CallCommitsNothing
<1>8. CASE SettleReturns
  BY <1>8, SettleCommits
<1>9. CASE UNCHANGED vars
  BY <1>9 DEF vars, Committed, Idle, World
<1> QED
  BY <1>1, <1>2, <1>3, <1>4, <1>5, <1>6, <1>7, <1>8, <1>9 DEF Next

-----------------------------------------------------------------------------
\* From transaction to transaction no step of the contract replaces the document
\* createTask committed a task to, nor the result submitWork committed it to.
THEOREM CommitmentsFixed == Spec => CommitmentsAreFixed
<1> DEFINE Fixed == \A id \in TaskIds :
        LET old == Committed.tasks[id]
            new == Committed'.tasks[id]
        IN /\ old.exists => new.metadata = old.metadata
           /\ old.result # NoArtifact => new.result = old.result
<1>1. ASSUME IInv, IInv', HInv, [Next]_vars PROVE Fixed
  <2>1. CASE Committed' = Committed
    BY <2>1
  <2>2. CASE Committed' # Committed
    <3> SUFFICES ASSUME NEW id \in TaskIds
                 PROVE  LET old == Committed.tasks[id]
                            new == Committed'.tasks[id]
                        IN /\ old.exists => new.metadata = old.metadata
                           /\ old.result # NoArtifact => new.result = old.result
      OBVIOUS
    <3>1. PICK b : b = Committed.tasks[id]
      OBVIOUS
    <3>2. PICK t : t = Committed'.tasks[id]
      OBVIOUS
    <3>3. Sound(b)
      <4>1. WorldOK(Committed)
        BY <1>1, CommittedOK
      <4> QED
        BY <3>1, <4>1, SavedSound
    <3>4. \/ Worked(b, t)
          \/ \E amount \in 1 .. MaxReward : FundedTask(b, t, amount) \/ SettledTask(b, t, amount)
      BY <1>1, <2>2, <3>1, <3>2, CommittedSteps DEF Advances, OthersWorked
    <3>5. CASE Worked(b, t)
      BY <3>1, <3>2, <3>3, <3>5 DEF Worked, Sound
    <3>6. CASE \E amount \in 1 .. MaxReward : FundedTask(b, t, amount) \/ SettledTask(b, t, amount)
      BY <3>1, <3>2, <3>6 DEF FundedTask, SettledTask, Settling, NoTask
    <3> QED
      BY <3>4, <3>5, <3>6
  <2> QED
    BY <2>1, <2>2
<1> QED
  BY <1>1, Inductive, HistoryKept, PTL DEF Spec, CommitmentsAreFixed

-----------------------------------------------------------------------------
(* The refinement: what a committed task does is what its deal may do.     *)
LEMMA DealExcept ==
    ASSUME NEW b, NEW t, t.creator = b.creator, t.reward = b.reward
    PROVE  DealOf(t) = [DealOf(b) EXCEPT !.stage = Stage(t), !.worker = t.worker]
<1>1. PICK r : r = DealOf(b)
  OBVIOUS
<1>2. PICK s : s = Stage(t)
  OBVIOUS
<1>3. PICK q : q = [r EXCEPT !.stage = s]
  OBVIOUS
<1>4. r = [stage |-> Stage(b), funder |-> b.creator, worker |-> b.worker, amount |-> b.reward]
  BY <1>1 DEF DealOf
<1>5. q = [stage |-> s, funder |-> b.creator, worker |-> b.worker, amount |-> b.reward]
  BY <1>3, <1>4
<1>6. [r EXCEPT !.stage = s, !.worker = t.worker] = [q EXCEPT !.worker = t.worker]
  BY <1>3, <1>4
<1>7. [q EXCEPT !.worker = t.worker]
          = [stage |-> s, funder |-> b.creator, worker |-> t.worker, amount |-> b.reward]
  BY <1>5
<1>8. DealOf(t) = [stage |-> s, funder |-> b.creator, worker |-> t.worker, amount |-> b.reward]
  BY <1>2 DEF DealOf
<1> QED
  BY <1>1, <1>2, <1>6, <1>7, <1>8

LEMMA WorkedDeal ==
    ASSUME NEW b \in Task, NEW t \in Task, Worked(b, t)
    PROVE  Promise!Works(DealOf(b), DealOf(t))
<1>1. CASE t = b
  BY <1>1 DEF Promise!Works
<1>2. CASE t # b
  <2>1. /\ b.exists /\ t.exists /\ t.creator = b.creator /\ t.reward = b.reward
        /\ \/ /\ b.status = "Open" /\ t.status \in {"InProgress", "Submitted"}
              /\ t.worker \in Accounts \ {b.creator}
           \/ /\ b.status = "InProgress" /\ t.status = "Submitted"
              /\ t.worker = b.worker
    BY <1>2 DEF Worked
  <2>2. CASE b.status = "Open"
    <3>1. Stage(b) = "open" /\ Stage(t) \in {"taken", "delivered"}
      BY <2>1, <2>2 DEF Stage
    <3>2. DealOf(t) = [DealOf(b) EXCEPT !.stage = Stage(t), !.worker = t.worker]
      BY <2>1, DealExcept
    <3>3. DealOf(t).stage = Stage(t) /\ DealOf(t).worker = t.worker
          /\ DealOf(b).stage = Stage(b) /\ DealOf(b).funder = b.creator
      BY DEF DealOf
    <3>4. Promise!Taken(DealOf(b), DealOf(t))
      BY <2>1, <2>2, <3>1, <3>2, <3>3 DEF Promise!Taken
    <3> QED
      BY <3>4 DEF Promise!Works
  <2>3. CASE b.status # "Open"
    <3>1. Stage(b) = "taken" /\ Stage(t) = "delivered"
      BY <2>1, <2>3 DEF Stage
    <3> QED
      BY <2>1, <2>3, <3>1 DEF DealOf, Promise!Works, Promise!Delivered
  <2> QED
    BY <2>2, <2>3
<1> QED
  BY <1>1, <1>2

LEMMA FundedDeal ==
    ASSUME NEW b, NEW t, NEW amount, FundedTask(b, t, amount)
    PROVE  Promise!Funded(DealOf(b), DealOf(t), amount)
<1>1. Stage(b) = "none" /\ Stage(t) = "open"
  BY DEF FundedTask, Stage, NoTask
<1>2. DealOf(b) = Promise!NoDeal
  BY <1>1 DEF DealOf, Promise!NoDeal, FundedTask, NoTask
<1> QED
  BY <1>1, <1>2 DEF DealOf, FundedTask, Promise!Funded

LEMMA SettledDeal ==
    ASSUME NEW b, NEW t, NEW amount, SettledTask(b, t, amount)
    PROVE  Promise!Settled(DealOf(b), DealOf(t), -amount)
<1>1. PICK f \in Frame : Settling(f, b, t)
  BY DEF SettledTask
<1>2. \/ Stage(b) = "delivered" /\ Stage(t) = "paid"
      \/ Stage(b) = "open" /\ Stage(t) = "refunded"
  BY <1>1 DEF Settling, Stage
<1> QED
  BY <1>1, <1>2 DEF SettledTask, Settling, DealOf, Promise!Settled

LEMMA PromiseInit == Init => Promise!Init
<1> SUFFICES ASSUME Init PROVE Promise!Init
  OBVIOUS
<1>1. Committed.tasks = [id \in TaskIds |-> NoTask] /\ Committed.balance[Escrow] = 0
  BY DEF Init, Committed, Idle, World, Holders
<1>2. DealOf(NoTask) = Promise!NoDeal
  BY DEF DealOf, NoTask, Stage, Promise!NoDeal
<1> QED
  BY <1>1, <1>2 DEF Promise!Init, Deals, Vault

LEMMA PromiseNext ==
    ASSUME IInv, IInv', HInv, [Next]_vars
    PROVE  Promise!Next \/ UNCHANGED <<Deals, Vault>>
<1>1. CASE Committed' = Committed
  BY <1>1 DEF Deals, Vault
<1>2. CASE Committed' # Committed
  <2>1. PICK ts : ts = Committed.tasks
    OBVIOUS
  <2>2. PICK us : us = Committed'.tasks
    OBVIOUS
  <2>3. PICK v : v = Committed.balance[Escrow]
    OBVIOUS
  <2>4. PICK w : w = Committed'.balance[Escrow]
    OBVIOUS
  <2>5. Advances(ts, us, v, w)
    BY <1>2, <2>1, <2>2, <2>3, <2>4, CommittedSteps
  <2>6. \A id \in TaskIds : ts[id] \in Task /\ us[id] \in Task
    <3>1. WorldOK(Committed)
      BY CommittedOK
    <3>2. WorldOK(Committed)'
      BY CommittedOK, PTL
    <3>3. WorldOK(Committed')
      BY <3>2 DEF WorldOK, Coherent
    <3>4. PICK x : x = Committed'
      OBVIOUS
    <3> QED
      BY <2>1, <2>2, <3>1, <3>3, <3>4, SavedSound
  <2>v. v \in Nat /\ w \in Nat
    <3>1. WorldOK(Committed) /\ WorldOK(Committed)'
      BY CommittedOK, PTL
    <3> QED
      BY <2>3, <2>4, <3>1 DEF WorldOK, WorldType, Holders
  <2>7. \A id \in TaskIds : Deals[id] = DealOf(ts[id]) /\ Deals'[id] = DealOf(us[id])
    BY <2>1, <2>2 DEF Deals
  <2>8. Vault = v /\ Vault' = w
    BY <2>3, <2>4 DEF Vault
  <2>9. CASE OthersWorked(ts, us, {}) /\ w >= v
    BY <2>6, <2>7, <2>8, <2>9, WorkedDeal DEF OthersWorked, Promise!Next, Promise!Work
  <2>10. CASE ~(OthersWorked(ts, us, {}) /\ w >= v)
    <3>1. PICK id \in TaskIds, amount \in 1 .. MaxReward :
              /\ OthersWorked(ts, us, {id})
              /\ \/ FundedTask(ts[id], us[id], amount) /\ w >= v + amount
                 \/ SettledTask(ts[id], us[id], amount) /\ w >= v - amount
      BY <2>5, <2>10 DEF Advances
    <3>2. \A other \in TaskIds \ {id} : Promise!Works(Deals[other], Deals'[other])
      BY <2>6, <2>7, <3>1, WorkedDeal DEF OthersWorked
    <3>3. CASE FundedTask(ts[id], us[id], amount) /\ w >= v + amount
      <4>1. Promise!Transaction(id, amount)
        BY <2>7, <2>8, <3>2, <3>3, FundedDeal DEF Promise!Transaction
      <4> QED
        BY <4>1 DEF Promise!Next
    <3>4. CASE SettledTask(ts[id], us[id], amount) /\ w >= v - amount
      <4>1. w >= v + (-amount)
        BY <2>v, <3>4, BoundAssumption
      <4>2. Promise!Transaction(id, -amount)
        BY <2>7, <2>8, <3>2, <3>4, <4>1, SettledDeal DEF Promise!Transaction
      <4> QED
        BY <4>2 DEF Promise!Next
    <3> QED
      BY <3>1, <3>3, <3>4
  <2> QED
    BY <2>9, <2>10
<1> QED
  BY <1>1, <1>2

\* Seen transaction by transaction the contract implements EscrowPromise: every
\* step commits nothing, or moves deals along, or funds or settles one of them with
\* exactly its money, whatever the token's callbacks do in between.
THEOREM PromiseKept == Spec => KeepsPromise
<1>1. IInv /\ IInv' /\ HInv /\ [Next]_vars => [Promise!Next]_<<Deals, Vault>>
  BY PromiseNext
<1> QED
  BY <1>1, PromiseInit, Inductive, HistoryKept, PTL DEF Spec, KeepsPromise, Promise!Spec
=============================================================================
