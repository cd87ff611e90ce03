--------------------------- MODULE IndexerProofs ---------------------------
(***************************************************************************)
(* Proofs about the indexer, and about the read API that answers from its  *)
(* tables, for every number of Worker instances, every chain and every     *)
(* setting of the parameters.                                              *)
(*                                                                         *)
(* What holds however long runs live is proved without an assumption:      *)
(* the lease is not stolen and no event is lost.  The rest assumes         *)
(* RunLimit <= Lease: no run is alive longer than the lease it takes.  The *)
(* code does not enforce it; the run replay_not_idempotent and             *)
(* MCIndexerOverlap.cfg show what happens without it.                      *)
(***************************************************************************)
EXTENDS ReadApi, WellFoundedInduction, FiniteSetTheorems, TLAPS

Fields == {"pc", "age", "cp", "head", "done", "seen", "loaded", "to"}

RunShape ==
    /\ DOMAIN run = Slots
    /\ \A w \in Slots : /\ DOMAIN run[w] = Fields
                        /\ run[w].pc \in Control
                        /\ run[w].age \in 0 .. RunLimit

LockShape == lockOwner \in Slots \cup {NoRun} /\ lockLeft \in Int

(* A run that works holds the lease, and no more of it is used up than the *)
(* run is old.                                                             *)
Holding ==
    \A w \in Slots : run[w].pc \in Working =>
        lockOwner = w /\ lockLeft = Lease - run[w].age

LInv == RunShape /\ LockShape /\ Holding

(* What a step of run w other than taking or releasing the lease leaves:   *)
(* the lease, the other runs, and the run's age.                           *)
Works(w) ==
    /\ UNCHANGED lock
    /\ DOMAIN run' = Slots
    /\ \A v \in Slots \ {w} : run'[v] = run[v]
    /\ DOMAIN run'[w] = Fields /\ run'[w].age = run[w].age
    /\ run[w].pc \in Working /\ run'[w].pc \in Working

LEMMA InitLInv == Init => LInv
BY ConfigAssumption DEF Init, LInv, RunShape, LockShape, Holding, Fields, IdleRun,
   Control, Working

LEMMA WorksKeeps ==
    ASSUME LInv, NEW w \in Slots, Works(w) PROVE LInv'
BY DEF LInv, RunShape, LockShape, Holding, Works, lock, Working

(* A run that ends without touching the lease. *)
LEMMA EndsKeeps ==
    ASSUME LInv, NEW w \in Slots, run' = [run EXCEPT ![w] = IdleRun], UNCHANGED lock
    PROVE  LInv'
BY ConfigAssumption
   DEF LInv, RunShape, LockShape, Holding, lock, Working, Control, IdleRun, Fields

-----------------------------------------------------------------------------
(* Each step of a run. *)

LEMMA GotoWorks ==
    ASSUME RunShape, NEW w \in Slots, NEW label \in Working, run[w].pc \in Working,
           Goto(w, label), UNCHANGED lock
    PROVE  Works(w)
BY DEF RunShape, Works, Goto, Fields

LEMMA StepWorks ==
    ASSUME RunShape, NEW w \in Slots
    PROVE  /\ ReadState(w) => Works(w)
           /\ ReadHead(w) => Works(w)
           /\ LoadChunk(w) => Works(w)
           /\ LoopEnds(w) => Works(w)
           /\ WriteChunk(w) => Works(w)
           /\ RecordSnapshot(w) => Works(w)
           /\ VerifyArtifacts(w) => Works(w)
           /\ Touch(w) => Works(w)
           /\ Quiet(w) => Works(w)
           /\ FinishRun(w) => Works(w)
<1> USE DEF Working, Control
<1>0. run[w].pc \in Working /\ Throw(w) => Works(w)
  BY GotoWorks DEF Throw
<1>1. AfterLoop(w) \in Working
  BY DEF AfterLoop
<1>2. ReadState(w) => Works(w)
  BY DEF RunShape, Works, ReadState, Fields
<1>3. ReadHead(w) => Works(w)
  <2> SUFFICES ASSUME ReadHead(w) PROVE Works(w)
    OBVIOUS
  <2>1. run[w].pc = "read"
    BY DEF ReadHead
  <2>2. PICK h \in Larger(0, head - RpcLag) .. head :
          IF FinalBlock(h) < run[w].cp
          THEN Throw(w)
          ELSE /\ run' = [run EXCEPT ![w].pc = "load", ![w].head = h]
               /\ UNCHANGED <<chainVars, syncState, lock, tables, snapshot>>
    BY DEF ReadHead
  <2>3. CASE FinalBlock(h) < run[w].cp
    BY <1>0, <2>1, <2>2, <2>3
  <2>4. CASE ~(FinalBlock(h) < run[w].cp)
    <3>1. run' = [run EXCEPT ![w].pc = "load", ![w].head = h] /\ UNCHANGED lock
      BY <2>2, <2>4
    <3> QED BY <2>1, <3>1 DEF RunShape, Works, Fields
  <2> QED BY <2>3, <2>4
<1>4. LoadChunk(w) => Works(w)
  <2> SUFFICES ASSUME LoadChunk(w) PROVE Works(w)
    OBVIOUS
  <2> DEFINE from == run[w].done + 1
             to == Smaller(RunTarget(w), from + ChunkSize - 1)
  <2>1. run[w].pc = "load"
    BY DEF LoadChunk
  <2>2. PICK found \in Answers(from, to) :
          IF Len(found) > MaxEvents
          THEN Throw(w)
          ELSE /\ run' = IF OverBudget(w, found)
                         THEN [run EXCEPT ![w].pc = AfterLoop(w)]
                         ELSE [run EXCEPT ![w].pc = "write",
                                          ![w].seen = @ + Len(found),
                                          ![w].loaded = found, ![w].to = to]
               /\ UNCHANGED <<chainVars, syncState, lock, tables, snapshot>>
    BY DEF LoadChunk
  <2> HIDE DEF to
  <2>3. CASE Len(found) > MaxEvents
    BY <1>0, <2>1, <2>2, <2>3
  <2>4. CASE ~(Len(found) > MaxEvents) /\ OverBudget(w, found)
    <3>1. Goto(w, AfterLoop(w)) /\ UNCHANGED lock
      BY <2>2, <2>4 DEF Goto
    <3> QED BY <1>1, <2>1, <3>1, GotoWorks
  <2>5. CASE ~(Len(found) > MaxEvents) /\ ~OverBudget(w, found)
    <3>1. /\ run' = [run EXCEPT ![w].pc = "write", ![w].seen = @ + Len(found),
                                ![w].loaded = found, ![w].to = to]
          /\ UNCHANGED lock
      BY <2>2, <2>5
    <3> QED BY <2>1, <3>1 DEF RunShape, Works, Fields
  <2> QED BY <2>3, <2>4, <2>5
<1>5. LoopEnds(w) => Works(w)
  BY <1>1, GotoWorks DEF LoopEnds
<1>6. WriteChunk(w) => Works(w)
  <2> SUFFICES ASSUME WriteChunk(w) PROVE Works(w)
    OBVIOUS
  <2>1. run[w].pc = "write"
    BY DEF WriteChunk
  <2>2. \/ Throw(w)
        \/ /\ run' = [run EXCEPT ![w].pc = "load", ![w].done = run[w].to,
                                 ![w].loaded = <<>>, ![w].to = 0]
           /\ UNCHANGED lock
    BY DEF WriteChunk
  <2> QED BY <1>0, <2>1, <2>2 DEF RunShape, Works, Fields
<1>7. RecordSnapshot(w) => Works(w)
  BY GotoWorks DEF RecordSnapshot
<1>8. VerifyArtifacts(w) => Works(w)
  BY GotoWorks DEF VerifyArtifacts
<1>9. Touch(w) => Works(w)
  BY GotoWorks DEF Touch
<1>10. Quiet(w) => Works(w)
  BY GotoWorks DEF Quiet
<1>11. FinishRun(w) => Works(w)
  BY GotoWorks DEF FinishRun
<1> QED BY <1>2, <1>3, <1>4, <1>5, <1>6, <1>7, <1>8, <1>9, <1>10, <1>11

LEMMA TickKeeps == ASSUME LInv, RunLimit <= Lease, Tick PROVE LInv'
<1>1. /\ DOMAIN run' = Slots
      /\ \A w \in Slots : /\ DOMAIN run'[w] = Fields
                          /\ run'[w].pc = run[w].pc
                          /\ run'[w].age = run[w].age + (IF Running(w) THEN 1 ELSE 0)
  BY DEF Tick, LInv, RunShape, Fields
<1>2. lockOwner' = lockOwner
  BY DEF Tick
<1>3. RunShape'
  BY <1>1, ConfigAssumption DEF Tick, LInv, RunShape, Running
<1>4. LockShape'
  BY <1>2, ConfigAssumption DEF Tick, LInv, LockShape, Larger
<1>5. ASSUME NEW w \in Slots, run'[w].pc \in Working
      PROVE  lockOwner' = w /\ lockLeft' = Lease - run'[w].age
  <2>1. Running(w) /\ run[w].pc \in Working
    BY <1>1, <1>5 DEF Running, Working
  <2>2. lockOwner = w /\ lockLeft = Lease - run[w].age /\ lockOwner # NoRun
    BY <2>1, ConfigAssumption DEF LInv, Holding
  <2>3. run[w].age \in Nat /\ run[w].age < RunLimit
    BY <2>1 DEF Tick, LInv, RunShape
  <2>4. lockLeft' = Larger(lockLeft - 1, -(RunLimit + 1))
    BY <2>2 DEF Tick
  <2> QED BY <1>1, <1>2, <2>1, <2>2, <2>3, <2>4, ConfigAssumption DEF Larger
<1> QED BY <1>3, <1>4, <1>5 DEF LInv, Holding

LEMMA StartKeeps == ASSUME LInv, NEW w \in Slots, Start(w) PROVE LInv'
BY ConfigAssumption
   DEF Start, LInv, RunShape, LockShape, Holding, lock, Working, Control, IdleRun, Fields

(* A free lease means nobody works: a working run's lease is not yet over. *)
LEMMA AcquireKeeps ==
    ASSUME LInv, RunLimit <= Lease, NEW w \in Slots, AcquireLease(w) PROVE LInv'
<1>1. CASE LeaseFree(w)
  <2>1. /\ run' = [run EXCEPT ![w].pc = "locked"]
        /\ lockOwner' = w /\ lockLeft' = Lease - run[w].age
    BY <1>1 DEF AcquireLease, Goto
  <2>2. ASSUME NEW v \in Slots, run[v].pc \in Working PROVE FALSE
    <3>1. lockOwner = v /\ lockLeft = Lease - run[v].age /\ lockOwner # NoRun
      BY <2>2, ConfigAssumption DEF LInv, Holding
    <3>2. run[v].age \in Nat /\ run[v].age <= RunLimit /\ run[w].age \in Nat
      BY DEF LInv, RunShape
    <3> QED BY <1>1, <3>1, <3>2, ConfigAssumption DEF LeaseFree
  <2> QED BY <2>1, <2>2, ConfigAssumption
          DEF LInv, RunShape, LockShape, Holding, Working, Control, Fields
<1>2. CASE ~LeaseFree(w)
  BY <1>2, EndsKeeps DEF AcquireLease
<1> QED BY <1>1, <1>2

LEMMA ReleaseKeeps == ASSUME LInv, NEW w \in Slots, ReleaseLease(w) PROVE LInv'
<1>1. CASE lockOwner = w
  BY <1>1, ConfigAssumption
     DEF ReleaseLease, LInv, RunShape, LockShape, Holding, Working, Control, IdleRun, Fields
<1>2. CASE lockOwner # w
  BY <1>2, EndsKeeps DEF ReleaseLease
<1> QED BY <1>1, <1>2

LEMMA FailsKeeps ==
    ASSUME LInv, NEW w \in Slots, Fails(w) \/ Crashes(w) PROVE LInv'
<1>1. CASE Fails(w)
  <2>1. run[w].pc \in Working
    BY <1>1 DEF Fails, LInv, RunShape, Working
  <2>2. Works(w)
    BY <1>1, <2>1, GotoWorks DEF Fails, Throw, Working, Control, LInv
  <2> QED BY <2>2, WorksKeeps
<1>2. CASE Crashes(w)
  BY <1>2, EndsKeeps DEF Crashes
<1> QED BY <1>1, <1>2

LEMMA NextLInv ==
    ASSUME LInv, RunLimit <= Lease, [Next]_vars PROVE LInv'
<1>1. CASE Mine
  BY <1>1 DEF Mine, LInv, RunShape, LockShape, Holding, lock
<1>2. CASE Tick
  BY <1>2, TickKeeps
<1>3. ASSUME NEW w \in Slots, Start(w) \/ Step(w) \/ Fails(w) \/ Crashes(w)
      PROVE  LInv'
  BY <1>3, StartKeeps, AcquireKeeps, ReleaseKeeps, FailsKeeps, StepWorks, WorksKeeps
     DEF Step, LInv
<1>4. CASE UNCHANGED vars
  BY <1>4 DEF vars, LInv, RunShape, LockShape, Holding
<1> QED BY <1>1, <1>2, <1>3, <1>4 DEF Next

(* While no run outlives the lease, a working run holds it. *)
THEOREM LeaseHeld == ASSUME RunLimit <= Lease PROVE Spec => []LInv
<1>1. Init => LInv
  BY InitLInv
<1>2. LInv /\ [Next]_vars => LInv'
  BY NextLInv
<1> QED BY <1>1, <1>2, PTL DEF Spec

(* While no run outlives the lease, at most one run works at a time. *)
THEOREM Exclusion == ASSUME RunLimit <= Lease PROVE Spec => []LeaseExcludes
<1>1. LInv => LeaseExcludes
  BY DEF LInv, Holding, LeaseExcludes
<1> QED BY <1>1, LeaseHeld, PTL

-----------------------------------------------------------------------------
(* The block numbers *)

(* What a working run remembers of sync_state is still true, because no    *)
(* other run works: it has processed exactly the blocks up to the          *)
(* checkpoint, and everything it goes on to write is final.                *)
Past == {"load", "write", "snapshot", "artifacts", "touch", "quiet"}

BlockShape ==
    /\ checkpoint \in Nat /\ headSeen \in Nat /\ finalized \in Nat /\ head \in Nat
    /\ \A w \in Slots : /\ run[w].cp \in Nat /\ run[w].done \in Nat
                        /\ run[w].head \in Nat /\ run[w].to \in Nat

RunsRemember ==
    \A w \in Slots :
        /\ run[w].pc = "read" => run[w].cp = checkpoint /\ run[w].done = checkpoint
        /\ run[w].pc \in Past =>
               /\ run[w].done = checkpoint
               /\ run[w].head <= head
               /\ checkpoint <= Target(w)
        /\ run[w].pc = "write" => checkpoint < run[w].to /\ run[w].to <= Target(w)

Ordered ==
    /\ checkpoint <= finalized
    /\ finalized = FinalBlock(headSeen)
    /\ headSeen <= head \/ headSeen = StartBlock - 1

BInv == LInv /\ BlockShape /\ RunsRemember /\ Ordered

LEMMA BInvOnlyFinal == BInv => OnlyFinal
BY ConfigAssumption DEF BInv, BlockShape, Ordered, OnlyFinal, FinalBlock, Larger

LEMMA InitBInv == Init => BInv
BY InitLInv, ConfigAssumption
   DEF Init, BInv, BlockShape, RunsRemember, Ordered, FinalBlock, Larger, IdleRun, Past

(* A step of run w that leaves sync_state and what w remembers. *)
LEMMA SameNumbers ==
    ASSUME BInv, LInv', NEW w \in Slots, head' = head,
           checkpoint' = checkpoint, headSeen' = headSeen, finalized' = finalized,
           \A v \in Slots \ {w} : run'[v] = run[v],
           \/ /\ run'[w].cp = run[w].cp /\ run'[w].done = run[w].done
              /\ run'[w].head = run[w].head /\ run'[w].to = run[w].to
              /\ \/ run[w].pc \in Past /\ run'[w].pc \in Past \ {"write"}
                 \/ run'[w].pc \notin Past \cup {"read"}
           \/ run'[w] = IdleRun
    PROVE  BInv'
<1>1. ASSUME NEW v \in Slots
      PROVE  /\ run'[v].cp \in Nat /\ run'[v].done \in Nat
             /\ run'[v].head \in Nat /\ run'[v].to \in Nat
  BY DEF BInv, BlockShape, IdleRun
<1>2. BlockShape'
  BY <1>1 DEF BInv, BlockShape
<1>3. RunsRemember'
  BY DEF BInv, RunsRemember, Target, FinalBlock, IdleRun, Past
<1>4. Ordered'
  BY DEF BInv, Ordered, FinalBlock
<1> QED BY <1>2, <1>3, <1>4 DEF BInv

(* A step of a working run: no other run remembers anything of sync_state. *)
LEMMA Alone ==
    ASSUME LInv, NEW w \in Slots, run[w].pc \in Working, NEW v \in Slots \ {w}
    PROVE  run[v].pc \notin Past \cup {"read"}
BY DEF LInv, Holding, Past, Working, Control

LEMMA MineBlocks == ASSUME BInv, LInv', Mine PROVE BInv'
BY ConfigAssumption
   DEF Mine, BInv, BlockShape, RunsRemember, Ordered, Target, FinalBlock, syncState, Larger

LEMMA TickBlocks == ASSUME BInv, LInv', Tick PROVE BInv'
<1>1. \A w \in Slots : /\ run'[w].pc = run[w].pc /\ run'[w].cp = run[w].cp
                       /\ run'[w].done = run[w].done /\ run'[w].head = run[w].head
                       /\ run'[w].to = run[w].to
  BY DEF Tick, BInv, LInv, RunShape, Fields
<1>2. UNCHANGED <<head, checkpoint, headSeen, finalized>>
  BY DEF Tick, chainVars, syncState
<1> QED BY <1>1, <1>2 DEF BInv, BlockShape, RunsRemember, Ordered, Target, FinalBlock

LEMMA ThrowBlocks ==
    ASSUME BInv, LInv', NEW w \in Slots, Throw(w) PROVE BInv'
<1>1. /\ UNCHANGED <<head, checkpoint, headSeen, finalized>>
      /\ \A v \in Slots \ {w} : run'[v] = run[v]
      /\ run'[w].cp = run[w].cp /\ run'[w].done = run[w].done
      /\ run'[w].head = run[w].head /\ run'[w].to = run[w].to
      /\ run'[w].pc = "release"
  BY DEF Throw, Goto, chainVars, BInv, LInv, RunShape, Fields
<1> QED BY <1>1, SameNumbers DEF Past

LEMMA GotoBlocks ==
    ASSUME BInv, LInv', NEW w \in Slots, NEW label \in Control, Goto(w, label),
           UNCHANGED <<chainVars, syncState>>,
           \/ run[w].pc \in Past /\ label \in Past \ {"write"}
           \/ label \notin Past \cup {"read"}
    PROVE  BInv'
<1>1. /\ UNCHANGED <<head, checkpoint, headSeen, finalized>>
      /\ \A v \in Slots \ {w} : run'[v] = run[v]
      /\ run'[w].cp = run[w].cp /\ run'[w].done = run[w].done
      /\ run'[w].head = run[w].head /\ run'[w].to = run[w].to
      /\ run'[w].pc = label
  BY DEF Goto, chainVars, syncState, BInv, LInv, RunShape, Fields
<1> QED BY <1>1, SameNumbers

LEMMA IdleBlocks ==
    ASSUME BInv, LInv', NEW w \in Slots, run' = [run EXCEPT ![w] = IdleRun],
           UNCHANGED <<chainVars, syncState>>
    PROVE  BInv'
<1>1. /\ UNCHANGED <<head, checkpoint, headSeen, finalized>>
      /\ \A v \in Slots \ {w} : run'[v] = run[v]
      /\ run'[w] = IdleRun
  BY DEF chainVars, syncState, BInv, LInv, RunShape
<1> QED BY <1>1, SameNumbers

-----------------------------------------------------------------------------
LEMMA ReadStateBlocks == ASSUME BInv, LInv', NEW w \in Slots, ReadState(w) PROVE BInv'
<1>1. /\ UNCHANGED <<head, checkpoint, headSeen, finalized>>
      /\ \A v \in Slots \ {w} : run'[v] = run[v]
      /\ run'[w].pc = "read" /\ run'[w].cp = checkpoint /\ run'[w].done = checkpoint
      /\ run'[w].head = run[w].head /\ run'[w].to = run[w].to
  BY DEF ReadState, chainVars, syncState, BInv, LInv, RunShape, Fields
<1> QED BY <1>1 DEF BInv, BlockShape, RunsRemember, Ordered, Target, FinalBlock, Past

LEMMA ReadHeadBlocks == ASSUME BInv, LInv', NEW w \in Slots, ReadHead(w) PROVE BInv'
<1>1. run[w].pc = "read" /\ run[w].cp = checkpoint /\ run[w].done = checkpoint
  BY DEF ReadHead, BInv, RunsRemember
<1>2. PICK h \in Larger(0, head - RpcLag) .. head :
        IF FinalBlock(h) < run[w].cp
        THEN Throw(w)
        ELSE /\ run' = [run EXCEPT ![w].pc = "load", ![w].head = h]
             /\ UNCHANGED <<chainVars, syncState, lock, tables, snapshot>>
  BY DEF ReadHead
<1>3. CASE FinalBlock(h) < run[w].cp
  BY <1>2, <1>3, ThrowBlocks
<1>4. CASE ~(FinalBlock(h) < run[w].cp)
  <2>1. h \in Nat /\ h <= head
    BY ConfigAssumption DEF Larger, BInv, BlockShape
  <2>2. FinalBlock(h) \in Int /\ checkpoint <= FinalBlock(h)
    BY <1>1, <1>4, <2>1, ConfigAssumption DEF BInv, BlockShape, FinalBlock, Larger
  <2>3. /\ UNCHANGED <<head, checkpoint, headSeen, finalized>>
        /\ \A v \in Slots \ {w} : run'[v] = run[v]
        /\ run'[w].pc = "load" /\ run'[w].head = h
        /\ run'[w].cp = run[w].cp /\ run'[w].done = checkpoint
        /\ run'[w].to = run[w].to
    BY <1>1, <1>2, <1>4 DEF chainVars, syncState, BInv, LInv, RunShape, Fields
  <2>4. BlockShape'
    BY <2>1, <2>3 DEF BInv, BlockShape
  <2>5. RunsRemember'
    BY <2>1, <2>2, <2>3 DEF BInv, RunsRemember, Target, FinalBlock, Past
  <2>6. Ordered'
    BY <2>3 DEF BInv, Ordered, FinalBlock
  <2> QED BY <2>4, <2>5, <2>6 DEF BInv
<1> QED BY <1>3, <1>4

LEMMA LoadChunkBlocks == ASSUME BInv, LInv', NEW w \in Slots, LoadChunk(w) PROVE BInv'
<1> DEFINE from == run[w].done + 1
           to == Smaller(RunTarget(w), from + ChunkSize - 1)
<1>1. run[w].pc = "load" /\ run[w].done < RunTarget(w)
  BY DEF LoadChunk
<1>2. PICK found \in Answers(from, to) :
        IF Len(found) > MaxEvents
        THEN Throw(w)
        ELSE /\ run' = IF OverBudget(w, found)
                       THEN [run EXCEPT ![w].pc = AfterLoop(w)]
                       ELSE [run EXCEPT ![w].pc = "write",
                                        ![w].seen = @ + Len(found),
                                        ![w].loaded = found, ![w].to = to]
             /\ UNCHANGED <<chainVars, syncState, lock, tables, snapshot>>
  BY DEF LoadChunk
<1>3. to \in Nat /\ run[w].done < to /\ to <= Target(w)
  <2>1. /\ run[w].done \in Nat /\ run[w].cp \in Nat /\ run[w].head \in Nat
        /\ ChunkSize \in Nat \ {0} /\ ChunkSize * MaxChunks \in Nat
    BY ConfigAssumption DEF BInv, BlockShape
  <2> QED BY <1>1, <2>1, ConfigAssumption
          DEF RunTarget, Target, FromBlock, FinalBlock, Smaller, Larger
<1> HIDE DEF to
<1>4. CASE Len(found) > MaxEvents
  BY <1>2, <1>4, ThrowBlocks
<1>5. CASE ~(Len(found) > MaxEvents) /\ OverBudget(w, found)
  <2>1. Goto(w, AfterLoop(w)) /\ UNCHANGED <<chainVars, syncState>>
    BY <1>2, <1>5 DEF Goto
  <2>2. AfterLoop(w) \in {"snapshot", "quiet"}
    BY DEF AfterLoop
  <2> QED BY <1>1, <2>1, <2>2, GotoBlocks DEF Past, Control
<1>6. CASE ~(Len(found) > MaxEvents) /\ ~OverBudget(w, found)
  <2>1. /\ run' = [run EXCEPT ![w].pc = "write", ![w].seen = @ + Len(found),
                              ![w].loaded = found, ![w].to = to]
        /\ UNCHANGED <<chainVars, syncState>>
    BY <1>2, <1>6
  <2>2. /\ UNCHANGED <<head, checkpoint, headSeen, finalized>>
        /\ \A v \in Slots \ {w} : run'[v] = run[v]
        /\ run'[w].pc = "write" /\ run'[w].to = to
        /\ run'[w].cp = run[w].cp /\ run'[w].done = run[w].done
        /\ run'[w].head = run[w].head
    BY <2>1 DEF chainVars, syncState, BInv, LInv, RunShape, Fields
  <2>3. BlockShape'
    BY <1>3, <2>2 DEF BInv, BlockShape
  <2>4. RunsRemember'
    BY <1>1, <1>3, <2>2 DEF BInv, RunsRemember, Target, FinalBlock, Past
  <2>5. Ordered'
    BY <2>2 DEF BInv, Ordered, FinalBlock
  <2> QED BY <2>3, <2>4, <2>5 DEF BInv
<1> QED BY <1>4, <1>5, <1>6

LEMMA WriteChunkBlocks ==
    ASSUME BInv, LInv', NEW w \in Slots, WriteChunk(w)
    PROVE  BInv' /\ checkpoint' >= checkpoint
<1>1. run[w].pc = "write"
  BY DEF WriteChunk
<1>2. CASE Throw(w)
  BY <1>2, ThrowBlocks DEF Throw, BInv, BlockShape
<1>3. CASE /\ checkpoint' = run[w].to
           /\ headSeen' = run[w].head
           /\ finalized' = Target(w)
           /\ run' = [run EXCEPT ![w].pc = "load", ![w].done = run[w].to,
                                 ![w].loaded = <<>>, ![w].to = 0]
           /\ UNCHANGED chainVars
  <2>1. checkpoint < run[w].to /\ run[w].to <= Target(w) /\ run[w].head <= head
    BY <1>1 DEF BInv, RunsRemember, Past
  <2>2. /\ head' = head
        /\ \A v \in Slots \ {w} : run'[v] = run[v]
        /\ run'[w].pc = "load" /\ run'[w].to = 0 /\ run'[w].done = run[w].to
        /\ run'[w].cp = run[w].cp /\ run'[w].head = run[w].head
    BY <1>3 DEF chainVars, BInv, LInv, RunShape, Fields
  <2>3. BlockShape'
    <3>1. run[w].head \in Nat /\ run[w].to \in Nat
      BY DEF BInv, BlockShape
    <3>2. Target(w) \in Nat
      BY <3>1, ConfigAssumption DEF Target, FinalBlock, Larger
    <3>3. /\ checkpoint' = run[w].to /\ headSeen' = run[w].head
          /\ finalized' = Target(w)
      BY <1>3
    <3>4. ASSUME NEW v \in Slots
          PROVE  /\ run'[v].cp \in Nat /\ run'[v].done \in Nat
                 /\ run'[v].head \in Nat /\ run'[v].to \in Nat
      BY <2>2, <3>1 DEF BInv, BlockShape
    <3> QED BY <2>2, <3>1, <3>2, <3>3, <3>4 DEF BInv, BlockShape
  <2>4. RunsRemember'
    <3>1. \A v \in Slots \ {w} : run[v].pc \notin Past \cup {"read"}
      BY <1>1, Alone DEF BInv, Working, Control
    <3> QED BY <1>3, <2>1, <2>2, <3>1 DEF BInv, RunsRemember, Target, FinalBlock, Past
  <2>5. Ordered'
    BY <1>3, <2>1, <2>2 DEF BInv, Ordered, Target
  <2>6. checkpoint' >= checkpoint
    BY <1>3, <2>1 DEF BInv, BlockShape
  <2> QED BY <2>3, <2>4, <2>5, <2>6 DEF BInv
<1> QED BY <1>2, <1>3 DEF WriteChunk

(* Touch and Quiet write the head and the target they remember. *)
LEMMA HeadBlocks ==
    ASSUME BInv, LInv', NEW w \in Slots, Touch(w) \/ Quiet(w) PROVE BInv'
<1>1. /\ run[w].pc \in {"touch", "quiet"}
      /\ headSeen' = run[w].head /\ finalized' = Target(w)
      /\ checkpoint' = checkpoint /\ Goto(w, "finish") /\ head' = head
  BY DEF Touch, Quiet, chainVars
<1>2. checkpoint <= Target(w) /\ run[w].head <= head
  BY <1>1 DEF BInv, RunsRemember, Past
<1>3. /\ \A v \in Slots \ {w} : run'[v] = run[v]
      /\ run'[w].pc = "finish" /\ run'[w].to = run[w].to
      /\ run'[w].done = run[w].done /\ run'[w].cp = run[w].cp
      /\ run'[w].head = run[w].head
  BY <1>1 DEF Goto, BInv, LInv, RunShape, Fields
<1>4. BlockShape'
  BY <1>1, <1>3, ConfigAssumption DEF BInv, BlockShape, Target, FinalBlock, Larger
<1>5. RunsRemember'
  BY <1>1, <1>3 DEF BInv, RunsRemember, Target, FinalBlock, Past
<1>6. Ordered'
  BY <1>1, <1>2 DEF BInv, Ordered, Target
<1> QED BY <1>4, <1>5, <1>6 DEF BInv

-----------------------------------------------------------------------------
LEMMA StepBlocks ==
    ASSUME BInv, LInv', NEW w \in Slots, Start(w) \/ Step(w) \/ Fails(w) \/ Crashes(w)
    PROVE  BInv' /\ checkpoint' >= checkpoint
<1> DEFINE Goal == BInv' /\ checkpoint' >= checkpoint
<1> USE DEF Past, Control
<1>1. UNCHANGED checkpoint => checkpoint' >= checkpoint
  BY DEF BInv, BlockShape
<1>2. ASSUME Start(w) PROVE Goal
  <2>1. /\ UNCHANGED <<head, checkpoint, headSeen, finalized>>
        /\ \A v \in Slots \ {w} : run'[v] = run[v]
        /\ run'[w].pc = "started" /\ run'[w].cp = 0 /\ run'[w].done = 0
        /\ run'[w].head = 0 /\ run'[w].to = 0
    BY <1>2 DEF Start, IdleRun, chainVars, syncState, BInv, LInv, RunShape
  <2> QED BY <1>1, <2>1 DEF BInv, BlockShape, RunsRemember, Ordered, Target, FinalBlock
<1>3. ASSUME AcquireLease(w) PROVE Goal
  <2>1. UNCHANGED <<chainVars, syncState>>
    BY <1>3 DEF AcquireLease
  <2>2. Goto(w, "locked") \/ run' = [run EXCEPT ![w] = IdleRun]
    BY <1>3 DEF AcquireLease
  <2>3. BInv'
    BY <2>1, <2>2, GotoBlocks, IdleBlocks
  <2> QED BY <1>1, <2>1, <2>3 DEF syncState
<1>4. ASSUME ReadState(w) PROVE Goal
  BY <1>1, <1>4, ReadStateBlocks DEF ReadState, syncState
<1>5. ASSUME ReadHead(w) PROVE Goal
  BY <1>1, <1>5, ReadHeadBlocks DEF ReadHead, Throw, syncState
<1>6. ASSUME LoadChunk(w) PROVE Goal
  BY <1>1, <1>6, LoadChunkBlocks DEF LoadChunk, Throw, syncState
<1>7. ASSUME LoopEnds(w) PROVE Goal
  BY <1>1, <1>7, GotoBlocks DEF LoopEnds, AfterLoop, syncState
<1>8. ASSUME WriteChunk(w) PROVE Goal
  BY <1>8, WriteChunkBlocks
<1>9. ASSUME RecordSnapshot(w) PROVE Goal
  BY <1>1, <1>9, GotoBlocks DEF RecordSnapshot, syncState
<1>10. ASSUME VerifyArtifacts(w) PROVE Goal
  BY <1>1, <1>10, GotoBlocks DEF VerifyArtifacts, syncState
<1>11. ASSUME Touch(w) \/ Quiet(w) PROVE Goal
  BY <1>1, <1>11, HeadBlocks DEF Touch, Quiet
<1>12. ASSUME ReleaseLease(w) PROVE Goal
  BY <1>1, <1>12, IdleBlocks DEF ReleaseLease, syncState
<1>13. ASSUME Fails(w) PROVE Goal
  BY <1>1, <1>13, ThrowBlocks, GotoBlocks DEF Fails, Throw, syncState
<1>14. ASSUME FinishRun(w) PROVE Goal
  BY <1>1, <1>14, GotoBlocks DEF FinishRun, syncState
<1>15. ASSUME Crashes(w) PROVE Goal
  BY <1>1, <1>15, IdleBlocks DEF Crashes, syncState
<1> QED
  BY <1>2, <1>3, <1>4, <1>5, <1>6, <1>7, <1>8, <1>9, <1>10, <1>11, <1>12, <1>13, <1>14,
     <1>15
  DEF Step

LEMMA NextBInv ==
    ASSUME BInv, RunLimit <= Lease, [Next]_vars
    PROVE  BInv' /\ checkpoint' >= checkpoint
<1>1. LInv'
  BY NextLInv DEF BInv
<1>2. CASE Mine
  BY <1>1, <1>2, MineBlocks DEF Mine, syncState, BInv, BlockShape
<1>3. CASE Tick
  BY <1>1, <1>3, TickBlocks DEF Tick, syncState, BInv, BlockShape
<1>4. ASSUME NEW w \in Slots, Start(w) \/ Step(w) \/ Fails(w) \/ Crashes(w)
      PROVE  BInv' /\ checkpoint' >= checkpoint
  BY <1>1, <1>4, StepBlocks
<1>5. CASE UNCHANGED vars
  BY <1>1, <1>5
     DEF vars, BInv, BlockShape, RunsRemember, Ordered, Target, FinalBlock
<1> QED BY <1>2, <1>3, <1>4, <1>5 DEF Next

(* While no run outlives the lease, BInv is invariant. *)
THEOREM BlocksInductive == ASSUME RunLimit <= Lease PROVE Spec => []BInv
<1>1. Init => BInv
  BY InitBInv
<1>2. BInv /\ [Next]_vars => BInv'
  BY NextBInv
<1> QED BY <1>1, <1>2, PTL DEF Spec

(* While no run outlives the lease, only final blocks are ever indexed and *)
(* the block numbers of sync_state stay in order.                          *)
THEOREM IndexedIsFinal == ASSUME RunLimit <= Lease PROVE Spec => []OnlyFinal
BY BInvOnlyFinal, BlocksInductive, PTL

(* While no run outlives the lease, the checkpoint never goes back. *)
THEOREM CheckpointNeverBack ==
    ASSUME RunLimit <= Lease PROVE Spec => [][checkpoint' >= checkpoint]_vars
<1>1. BInv /\ [Next]_vars => [checkpoint' >= checkpoint]_vars
  BY NextBInv
<1> QED BY <1>1, BlocksInductive, PTL DEF Spec

-----------------------------------------------------------------------------
(* The lease, whatever its length. *)

Formed == RunShape /\ LockShape

Stolen(w) ==
    /\ lockOwner = w /\ lockOwner' # w /\ ~(lockLeft < 0)
    /\ ~(run[w].pc = "release" /\ run'[w].pc = "idle")

LEMMA IdleFormed ==
    ASSUME Formed, NEW w \in Slots, run' = [run EXCEPT ![w] = IdleRun],
           LockShape'
    PROVE  Formed'
BY ConfigAssumption DEF Formed, RunShape, Control, IdleRun, Fields

LEMMA GotoFormed ==
    ASSUME Formed, NEW w \in Slots, NEW label \in Control, Goto(w, label), LockShape'
    PROVE  Formed'
BY ConfigAssumption DEF Formed, RunShape, Goto, Fields

LEMMA WorksFormed ==
    ASSUME Formed, NEW w \in Slots, Works(w) PROVE Formed'
BY DEF Formed, RunShape, LockShape, Works, lock, Working

LEMMA StepFormed ==
    ASSUME Formed, NEW w \in Slots, Start(w) \/ Step(w) \/ Fails(w) \/ Crashes(w)
    PROVE  Formed' /\ \A v \in Slots : ~Stolen(v)
<1> DEFINE Goal == Formed' /\ \A v \in Slots : ~Stolen(v)
<1>1. UNCHANGED lock => LockShape' /\ \A v \in Slots : ~Stolen(v)
  BY DEF lock, LockShape, Formed, Stolen
<1>2. ASSUME Start(w) PROVE Goal
  BY <1>1, <1>2, ConfigAssumption DEF Start, Formed, RunShape, Control, IdleRun, Fields
<1>3. ASSUME AcquireLease(w) PROVE Goal
  <2>1. CASE LeaseFree(w)
    <3>1. Goto(w, "locked") /\ lockOwner' = w /\ lockLeft' = Lease - run[w].age
      BY <1>3, <2>1 DEF AcquireLease
    <3>2. run[w].age \in Nat /\ Lease \in Nat
      BY ConfigAssumption DEF Formed, RunShape
    <3>3. LockShape'
      BY <3>1, <3>2 DEF LockShape
    <3>4. ASSUME NEW v \in Slots, lockOwner = v PROVE lockLeft < 0
      BY <2>1, <3>2, <3>4, ConfigAssumption DEF LeaseFree, Formed, LockShape
    <3> QED BY <3>1, <3>3, <3>4, GotoFormed DEF Control, Stolen
  <2>2. CASE ~LeaseFree(w)
    BY <1>1, <1>3, <2>2, IdleFormed DEF AcquireLease
  <2> QED BY <2>1, <2>2
<1>4. ASSUME ReleaseLease(w) PROVE Goal
  <2>1. run[w].pc = "release" /\ run'[w].pc = "idle"
    BY <1>4 DEF ReleaseLease, Formed, RunShape, IdleRun
  <2>2. LockShape'
    BY <1>1, <1>4 DEF ReleaseLease, LockShape
  <2>3. \A v \in Slots : ~Stolen(v)
    BY <1>1, <1>4, <2>1 DEF ReleaseLease, Stolen
  <2> QED BY <1>4, <2>2, <2>3, IdleFormed DEF ReleaseLease
<1>5. ASSUME Crashes(w) PROVE Goal
  BY <1>1, <1>5, IdleFormed DEF Crashes
<1>6. ASSUME Fails(w) PROVE Goal
  BY <1>1, <1>6, GotoFormed DEF Fails, Throw, Control
<1>7. ASSUME Works(w) PROVE Goal
  BY <1>1, <1>7, WorksFormed DEF Works
<1>8. RunShape
  BY DEF Formed
<1>9. Start(w) \/ AcquireLease(w) \/ ReleaseLease(w) \/ Crashes(w) \/ Fails(w) \/ Works(w)
  BY <1>8, StepWorks DEF Step
<1> QED BY <1>2, <1>3, <1>4, <1>5, <1>6, <1>7, <1>9

LEMMA TickFormed == ASSUME Formed, Tick PROVE Formed' /\ \A v \in Slots : ~Stolen(v)
<1>1. /\ DOMAIN run' = Slots
      /\ \A w \in Slots : /\ DOMAIN run'[w] = Fields
                          /\ run'[w].pc = run[w].pc
                          /\ run'[w].age = run[w].age + (IF Running(w) THEN 1 ELSE 0)
  BY DEF Tick, Formed, RunShape, Fields
<1>2. lockOwner' = lockOwner
  BY DEF Tick
<1>3. RunShape'
  BY <1>1, ConfigAssumption DEF Tick, Formed, RunShape, Running
<1>4. LockShape'
  BY <1>2, ConfigAssumption DEF Tick, Formed, LockShape, Larger
<1> QED BY <1>2, <1>3, <1>4 DEF Formed, Stolen

LEMMA NextFormed ==
    ASSUME Formed, [Next]_vars PROVE Formed' /\ \A v \in Slots : ~Stolen(v)
<1>1. CASE Mine
  BY <1>1 DEF Mine, Formed, RunShape, LockShape, lock, Stolen
<1>2. CASE UNCHANGED vars
  BY <1>2 DEF vars, Formed, RunShape, LockShape, Stolen
<1> QED BY <1>1, <1>2, TickFormed, StepFormed DEF Next

LEMMA InitFormed == Init => Formed
BY ConfigAssumption DEF Init, Formed, RunShape, LockShape, Fields, IdleRun, Control

(* The lease changes hands only when it has expired or its owner gives it  *)
(* back, however long runs live: no assumption is made on RunLimit.        *)
THEOREM LeaseKept == Spec => LeaseNotStolen
<1>1. Init => Formed
  BY InitFormed
<1>2. Formed /\ [Next]_vars => Formed'
  BY NextFormed
<1>3. Formed /\ [Next]_vars
      => [\A w \in Slots :
            lockOwner = w /\ lockOwner' # w =>
                \/ lockLeft < 0
                \/ run[w].pc = "release" /\ run'[w].pc = "idle"]_vars
  BY NextFormed DEF Stolen
<1> QED BY <1>1, <1>2, <1>3, PTL DEF Spec, LeaseNotStolen

-----------------------------------------------------------------------------
(* Induction over the log.  The library's induction theorems take the      *)
(* hypothesis as an operator, which the provers cannot instantiate; these  *)
(* lemmas take it as a set, and rest on the least element of a set.        *)

(* Every non-empty set of natural numbers has a least element. *)
LEMMA LeastNumber ==
    ASSUME NEW S, S \subseteq Nat, S # {} PROVE \E m \in S : \A k \in S : m <= k
<1> DEFINE R == {p \in Nat \X Nat : p[1] < p[2]}
<1>1. IsWellFoundedOn(R, Nat)
  BY NatLessThanWellFounded DEF OpToRel
<1>2. \A x, y \in Nat : y < x => <<y, x>> \in R
  OBVIOUS
<1> HIDE DEF R
<1>3. PICK x \in S : \A y \in S : ~(<<y, x>> \in R)
  BY <1>1, WFMin
<1>4. \A y \in S : ~(y < x)
  BY <1>2, <1>3
<1> QED BY <1>3, <1>4

(* Induction for a set of numbers: what holds of 0 and of every successor. *)
LEMMA Upwards ==
    ASSUME NEW n \in Nat, NEW P, 0 \in P,
           \A k \in 0 .. n - 1 : k \in P => k + 1 \in P
    PROVE  \A k \in 0 .. n : k \in P
<1> SUFFICES ASSUME NEW j \in 0 .. n, j \notin P PROVE FALSE
  OBVIOUS
<1> DEFINE Missing == {k \in 0 .. n : k \notin P}
<1>1. Missing \subseteq Nat /\ Missing # {}
  OBVIOUS
<1> HIDE DEF Missing
<1>2. PICK m \in Missing : \A k \in Missing : m <= k
  BY <1>1, LeastNumber
<1>3. m \in 0 .. n /\ m \notin P /\ m # 0
  BY DEF Missing
<1>4. m - 1 \in 0 .. n - 1 /\ m - 1 \notin Missing
  BY <1>2, <1>3
<1>5. m - 1 \in P
  BY <1>4 DEF Missing
<1> QED BY <1>3, <1>4, <1>5

(* The equation of the fold's recursive function, on some sets of places. *)
FoldEquation(g, sets, tb, es) ==
    g = [s \in sets |-> IF s = {} THEN tb ELSE Apply(g[s \ {Max(s)}], es[Max(s)])]

LEMMA MaxIs ==
    ASSUME NEW m \in Nat, NEW s \in SUBSET (1 .. m + 1), m + 1 \in s
    PROVE  Max(s) = m + 1
<1>1. \A x \in s : x \in Nat /\ x <= m + 1
  OBVIOUS
<1>2. (m + 1 \in s /\ \A y \in s : m + 1 >= y)
  BY <1>1
<1>3. \A x \in s : (\A y \in s : x >= y) => x = m + 1
  BY <1>1
<1> QED BY <1>2, <1>3 DEF Max

LEMMA FoldStep ==
    ASSUME NEW m \in Nat, NEW tb, NEW es, NEW g, FoldEquation(g, SUBSET (1 .. m), tb, es)
    PROVE  \E h : FoldEquation(h, SUBSET (1 .. m + 1), tb, es)
<1> DEFINE h == [s \in SUBSET (1 .. m + 1) |->
                    IF m + 1 \in s THEN Apply(g[s \ {m + 1}], es[m + 1]) ELSE g[s]]
<1>1. SUFFICES FoldEquation(h, SUBSET (1 .. m + 1), tb, es)
  <2> HIDE DEF h
  <2> QED OBVIOUS
<1> SUFFICES ASSUME NEW s \in SUBSET (1 .. m + 1)
             PROVE  h[s] = IF s = {} THEN tb ELSE Apply(h[s \ {Max(s)}], es[Max(s)])
  BY DEF FoldEquation
<1>2. CASE m + 1 \in s
  <2>1. Max(s) = m + 1
    BY <1>2, MaxIs
  <2>2. s \ {m + 1} \in SUBSET (1 .. m + 1) /\ m + 1 \notin s \ {m + 1}
    OBVIOUS
  <2>3. h[s \ {m + 1}] = g[s \ {m + 1}]
    BY <2>2
  <2> QED BY <1>2, <2>1, <2>3
<1>3. CASE m + 1 \notin s
  <2>1. s \in SUBSET (1 .. m)
    BY <1>3
  <2>2. g[s] = IF s = {} THEN tb ELSE Apply(g[s \ {Max(s)}], es[Max(s)])
    BY <2>1 DEF FoldEquation
  <2>3. /\ s \ {Max(s)} \in SUBSET (1 .. m + 1) /\ m + 1 \notin s \ {Max(s)}
    BY <1>3
  <2>4. h[s \ {Max(s)}] = g[s \ {Max(s)}] /\ h[s] = g[s]
    BY <1>3, <2>3
  <2> QED BY <2>2, <2>4
<1> QED BY <1>2, <1>3

LEMMA FoldExists ==
    ASSUME NEW n \in Nat, NEW tb, NEW es
    PROVE  \E g : FoldEquation(g, SUBSET (1 .. n), tb, es)
<1> DEFINE P == {m \in 0 .. n : \E g : FoldEquation(g, SUBSET (1 .. m), tb, es)}
<1>1. 0 \in P
  <2> DEFINE g == [s \in SUBSET (1 .. 0) |-> tb]
  <2>1. SUBSET (1 .. 0) = {{}}
    OBVIOUS
  <2>2. FoldEquation(g, SUBSET (1 .. 0), tb, es)
    BY <2>1, Zenon DEF FoldEquation
  <2> QED BY <2>2
<1>2. ASSUME NEW m \in 0 .. n - 1, m \in P PROVE m + 1 \in P
  <2>1. PICK g : FoldEquation(g, SUBSET (1 .. m), tb, es)
    BY <1>2
  <2>2. \E h : FoldEquation(h, SUBSET (1 .. m + 1), tb, es)
    BY <2>1, FoldStep, m \in Nat
  <2> QED BY <2>2
<1>3. n \in P
  <2> HIDE DEF P
  <2> QED BY <1>1, <1>2, Upwards
<1> QED BY <1>3

LEMMA ApplyAllFolds ==
    ASSUME NEW tb, NEW es
    PROVE  ApplyAll(tb, es) =
             (CHOOSE iter : iter =
                 [s \in SUBSET DOMAIN es |->
                     IF s = {} THEN tb ELSE Apply(iter[s \ {Max(s)}], es[Max(s)])])[DOMAIN es]
BY Zenon DEF ApplyAll, FoldLeft, MapThenFoldSet

(* ApplyAll takes the events of a chunk one after the other. *)
LEMMA ApplyInTurn ==
    ASSUME NEW tb, NEW n \in Nat, NEW es, DOMAIN es = 1 .. n
    PROVE  \E F : /\ F[0] = tb
                  /\ \A k \in 1 .. n : F[k] = Apply(F[k - 1], es[k])
                  /\ ApplyAll(tb, es) = F[n]
<1> DEFINE iter == CHOOSE g : FoldEquation(g, SUBSET (1 .. n), tb, es)
<1>1. FoldEquation(iter, SUBSET (1 .. n), tb, es)
  BY FoldExists, Zenon
<1>2. ApplyAll(tb, es) = iter[1 .. n]
  BY ApplyAllFolds, Zenon DEF FoldEquation
<1> HIDE DEF iter
<1> DEFINE F == [k \in 0 .. n |-> iter[1 .. k]]
<1>3. F[0] = tb
  <2>1. 1 .. 0 = {} /\ {} \in SUBSET (1 .. n)
    OBVIOUS
  <2> QED BY <1>1, <2>1 DEF FoldEquation
<1>4. ASSUME NEW k \in 1 .. n PROVE F[k] = Apply(F[k - 1], es[k])
  <2>1. 1 .. k \in SUBSET (1 .. n) /\ 1 .. k # {} /\ (1 .. k) \ {k} = 1 .. k - 1
    OBVIOUS
  <2>2. Max(1 .. k) = k
    BY MaxIs, k - 1 \in Nat, (k - 1) + 1 = k, k \in 1 .. k
  <2>3. iter[1 .. k] = Apply(iter[1 .. k - 1], es[k])
    BY <1>1, <2>1, <2>2 DEF FoldEquation
  <2> QED BY <2>3
<1>5. F[n] = iter[1 .. n]
  OBVIOUS
<1> QED BY <1>2, <1>3, <1>4, <1>5

-----------------------------------------------------------------------------
(* The events at some places of the log, in order *)

(* InOrder lists the events at the places by increasing place, all of them. *)
LEMMA Enumerated ==
    ASSUME NEW n \in Nat, NEW P, P \subseteq 1 .. n
    PROVE  \E g : /\ Cardinality(P) \in Nat
                  /\ \A k \in 1 .. Cardinality(P) : g[k] \in P
                  /\ \A j, k \in 1 .. Cardinality(P) : j < k => g[j] < g[k]
                  /\ \A i \in P : \E k \in 1 .. Cardinality(P) : g[k] = i
                  /\ InOrder(P) = [k \in 1 .. Cardinality(P) |-> chain[g[k]]]
<1> DEFINE upto(i) == {j \in P : j <= i}
           c == Cardinality(P)
           r == [i \in P |-> Cardinality(upto(i))]
           g == [k \in 1 .. c |-> CHOOSE i \in P : Cardinality(upto(i)) = k]
<1>1. IsFiniteSet(P) /\ c \in Nat
  <2>1. IsFiniteSet(1 .. n)
    BY FS_Interval, 1 \in Int, n \in Int
  <2> QED BY <2>1, FS_Subset, FS_CardinalityType
<1>2. ASSUME NEW i \in P
      PROVE  IsFiniteSet(upto(i)) /\ r[i] \in 1 .. c
  <2>1. upto(i) \subseteq P /\ i \in upto(i)
    OBVIOUS
  <2>2. IsFiniteSet(upto(i)) /\ Cardinality(upto(i)) <= c /\ Cardinality(upto(i)) \in Nat
    BY <1>1, <2>1, FS_Subset, FS_CardinalityType
  <2>3. Cardinality(upto(i)) # 0
    BY <2>1, <2>2, FS_EmptySet
  <2> QED BY <1>1, <2>2, <2>3
<1>3. ASSUME NEW i \in P, NEW j \in P, i < j PROVE r[i] < r[j]
  <2>1. upto(i) \subseteq upto(j) /\ j \in upto(j) /\ j \notin upto(i)
    <3>1. i \in Int /\ j \in Int /\ \A k \in P : k \in Int
      OBVIOUS
    <3>2. \A k \in P : k <= i => k <= j
      BY <1>3, <3>1
    <3>3. j <= j /\ ~(j <= i)
      BY <1>3, <3>1
    <3> QED BY <3>2, <3>3
  <2>2. Cardinality(upto(i)) < Cardinality(upto(j))
    BY <1>2, <2>1, FS_Subset
  <2> QED BY <2>2
<1>4. r \in Injection(P, 1 .. c)
  <2>1. \A i, j \in P : i = j \/ i < j \/ j < i
    OBVIOUS
  <2>2. \A i \in P : r[i] \in 1 .. c
    BY <1>2
  <2>3. \A i, j \in P : i < j => r[i] < r[j]
    BY <1>3
  <2>4. r \in [P -> 1 .. c]
    BY <2>2
  <2> HIDE DEF r, c
  <2>5. \A i, j \in P : r[i] = r[j] => i = j
    BY <2>1, <2>2, <2>3
  <2> QED BY <2>4, <2>5 DEF Injection, IsInjective
<1>5. r \in Surjection(P, 1 .. c)
  <2>1. IsFiniteSet(1 .. c) /\ Cardinality(1 .. c) = c
    BY <1>1, FS_Interval
  <2> QED BY <1>4, <2>1, FS_Injection
<1>6. ASSUME NEW k \in 1 .. c PROVE g[k] \in P /\ r[g[k]] = k
  <2>1. \E i \in P : r[i] = k
    BY <1>5 DEF Surjection
  <2> QED BY <2>1
<1>7. \A j, k \in 1 .. c : j < k => g[j] < g[k]
  <2>1. \A i, j \in P : i < j => r[i] < r[j]
    BY <1>3
  <2>2. \A i, j \in P : i = j \/ i < j \/ j < i
    OBVIOUS
  <2>3. \A k \in 1 .. c : g[k] \in P /\ r[g[k]] = k
    BY <1>6
  <2> HIDE DEF g, r, c
  <2> SUFFICES ASSUME NEW j \in 1 .. c, NEW k \in 1 .. c, j < k PROVE g[j] < g[k]
    OBVIOUS
  <2>4. g[j] \in P /\ g[k] \in P /\ r[g[j]] = j /\ r[g[k]] = k
    BY <2>3
  <2>5. g[j] = g[k] \/ g[j] < g[k] \/ g[k] < g[j]
    BY <2>2, <2>4
  <2>6. ~(g[k] < g[j])
    <3>1. g[k] < g[j] => k < j
      BY <2>1, <2>4
    <3> QED BY <1>1, <3>1
  <2> QED BY <1>1, <2>4, <2>5, <2>6
<1>8. \A i \in P : r[i] \in 1 .. c /\ g[r[i]] = i
  <2>1. \A i \in P : r[i] \in 1 .. c
    BY <1>2
  <2>2. \A i, j \in P : r[i] = r[j] => i = j
    BY <1>4 DEF Injection, IsInjective
  <2>3. \A k \in 1 .. c : g[k] \in P /\ r[g[k]] = k
    BY <1>6
  <2> HIDE DEF g, r
  <2> QED BY <2>1, <2>2, <2>3
<1>9. InOrder(P) = [k \in 1 .. c |-> chain[g[k]]]
  BY DEF InOrder
<1>10. \A k \in 1 .. c : g[k] \in P
  BY <1>6
<1> HIDE DEF g, r
<1> QED BY <1>1, <1>7, <1>8, <1>9, <1>10

-----------------------------------------------------------------------------
(* The row a set of events amounts to, part by part. *)

NamesOf(es) == {e.name : e \in es}
TheOne(es, n) == CHOOSE e \in es : e.name = n
Latest(es) == CHOOSE e \in es : \A f \in es : f.block <= e.block
StatusOf(names) ==
    IF "TaskCancelled" \in names THEN "Cancelled"
    ELSE IF "TaskCompleted" \in names THEN "Completed"
    ELSE IF "WorkSubmitted" \in names THEN "Submitted"
    ELSE IF "TaskAccepted" \in names THEN "InProgress"
    ELSE "Open"
WorkerOf(es) ==
    IF "TaskAccepted" \in NamesOf(es) THEN TheOne(es, "TaskAccepted").who ELSE Nobody
TimesOf(es) ==
    [n \in EventName |-> IF n \in NamesOf(es) THEN TheOne(es, n).block ELSE 0]

LEMMA TruthParts ==
    ASSUME NEW es, es # {}
    PROVE  TruthOf(es) = [status |-> StatusOf(NamesOf(es)), worker |-> WorkerOf(es),
                          at |-> TimesOf(es), updated |-> Latest(es).block]
BY Zenon DEF TruthOf, StatusOf, NamesOf, WorkerOf, TimesOf, TheOne, Latest

(* An event of a task that comes after the others in es of that task. *)
Follows(e, es) ==
    /\ e \in Event /\ es \subseteq Event
    /\ \A f \in es : f.block <= e.block /\ Before(f.name, e.name)
    /\ \A f, g \in es : f.name = g.name => f = g
    /\ es # {} => \E m \in es : \A f \in es : f.block <= m.block

LEMMA PartsGrow ==
    ASSUME NEW e, NEW es, Follows(e, es)
    PROVE  /\ NamesOf(es \cup {e}) = NamesOf(es) \cup {e.name}
           /\ e.name \notin NamesOf(es)
           /\ TheOne(es \cup {e}, e.name) = e
           /\ \A n \in NamesOf(es) : TheOne(es \cup {e}, n) = TheOne(es, n)
           /\ Latest(es \cup {e}).block = e.block
           /\ es # {} => Latest(es).block \in Nat /\ Latest(es).block <= e.block
<1>1. \A n \in EventName : ~Before(n, n)
  BY DEF Before, EventName
<1>2. /\ e.block \in Nat /\ e.name \in EventName
      /\ \A f \in es : f.block \in Nat /\ f.name \in EventName
  BY DEF Follows, Event
<1>3. \A f \in es : f.name # e.name
  BY <1>1, <1>2 DEF Follows
<1>4. NamesOf(es \cup {e}) = NamesOf(es) \cup {e.name} /\ e.name \notin NamesOf(es)
  BY <1>3 DEF NamesOf
<1>5. TheOne(es \cup {e}, e.name) = e
  BY <1>3 DEF TheOne
<1>6. ASSUME NEW n \in NamesOf(es) PROVE TheOne(es \cup {e}, n) = TheOne(es, n)
  <2>1. PICK f \in es : f.name = n
    BY <1>6 DEF NamesOf
  <2>2. \A g \in es : g.name = n => g = f
    BY <2>1 DEF Follows
  <2>3. TheOne(es, n) = f
    BY <2>1, <2>2 DEF TheOne
  <2>4. \A g \in es \cup {e} : g.name = n => g = f
    BY <1>3, <2>1, <2>2
  <2>5. TheOne(es \cup {e}, n) = f
    BY <2>1, <2>4 DEF TheOne
  <2> QED BY <2>3, <2>5
<1>7. Latest(es \cup {e}).block = e.block
  <2>1. \A f \in es \cup {e} : f.block <= e.block
    BY <1>2 DEF Follows
  <2>2. /\ Latest(es \cup {e}) \in es \cup {e}
        /\ \A f \in es \cup {e} : f.block <= Latest(es \cup {e}).block
    BY <2>1 DEF Latest
  <2> DEFINE m == Latest(es \cup {e})
  <2>3. e.block <= m.block /\ m.block <= e.block /\ m.block \in Nat
    <3> HIDE DEF m
    <3>1. m \in es \cup {e} /\ e.block <= m.block
      BY <2>2 DEF m
    <3> QED BY <1>2, <2>1, <3>1
  <2> HIDE DEF m
  <2> QED BY <1>2, <2>3 DEF m
<1>8. ASSUME es # {} PROVE Latest(es).block \in Nat /\ Latest(es).block <= e.block
  <2>1. Latest(es) \in es
    BY <1>8 DEF Latest, Follows
  <2> QED BY <1>2, <2>1 DEF Follows
<1> QED BY <1>4, <1>5, <1>6, <1>7, <1>8

LEMMA MovedRow ==
    ASSUME NEW st, NEW w, NEW at, NEW b \in Nat, NEW e, e.block \in Nat, b <= e.block,
           NEW row, row = [status |-> st, worker |-> w, at |-> at, updated |-> b]
    PROVE  Moved(row, e) = [status |-> st, worker |-> w,
                            at |-> [at EXCEPT ![e.name] = e.block], updated |-> e.block]
<1>1. ~(b > e.block) \/ b = e.block
  OBVIOUS
<1>2. (IF row.updated > e.block THEN row.updated ELSE e.block) = e.block
  BY <1>1
<1>3. Moved(row, e) = [row EXCEPT !.at[e.name] = e.block, !.updated = e.block]
  BY <1>2 DEF Moved
<1>4. PICK n, t : n = e.name /\ t = e.block
  OBVIOUS
<1>5. [row EXCEPT !.at[n] = t, !.updated = t] = [[row EXCEPT !.at[n] = t] EXCEPT !.updated = t]
  OBVIOUS
<1>6. [row EXCEPT !.at[n] = t] =
         [status |-> st, worker |-> w, at |-> [at EXCEPT ![n] = t], updated |-> b]
  OBVIOUS
<1> QED BY <1>3, <1>4, <1>5, <1>6

(* The statement for the next event of a task makes of the row the earlier *)
(* events amount to the row that they and it amount to, if there is one.   *)
LEMMA TruthGrows ==
    ASSUME NEW e, NEW es, Follows(e, es)
    PROVE  Projected(TruthOf(es), e) =
             IF es = {} /\ e.name # "TaskCreated" THEN NoRow ELSE TruthOf(es \cup {e})
<1> DEFINE after == es \cup {e}
<1>1. e.name \in EventName /\ e.block \in Nat
  BY DEF Follows, Event
<1>2. TruthOf({}) = NoRow
  BY DEF TruthOf
<1>3. TruthOf(after) = [status |-> StatusOf(NamesOf(after)), worker |-> WorkerOf(after),
                        at |-> TimesOf(after), updated |-> Latest(after).block]
  BY TruthParts, after # {}
<1>4. Latest(after).block = e.block
  BY PartsGrow
<1>5. TimesOf(after) = [TimesOf(es) EXCEPT ![e.name] = e.block]
  <2>1. ASSUME NEW n \in EventName
        PROVE  TimesOf(after)[n] = IF n = e.name THEN e.block ELSE TimesOf(es)[n]
    BY PartsGrow DEF TimesOf
  <2> QED BY <1>1, <2>1 DEF TimesOf
<1>6. CASE es = {} /\ e.name # "TaskCreated"
  BY <1>1, <1>2, <1>6 DEF Projected
<1>7. CASE es = {} /\ e.name = "TaskCreated"
  <2>1. NamesOf(after) = {"TaskCreated"}
    BY <1>7, PartsGrow DEF NamesOf
  <2>2. StatusOf(NamesOf(after)) = "Open" /\ WorkerOf(after) = Nobody
    BY <2>1 DEF StatusOf, WorkerOf
  <2>3. TimesOf(after) = [n \in EventName |-> IF n = "TaskCreated" THEN e.block ELSE 0]
    BY <1>7, <2>1, PartsGrow DEF TimesOf
  <2>4. Projected(NoRow, e) = NewRow(e)
    BY <1>7 DEF Projected
  <2> QED BY <1>2, <1>3, <1>4, <1>7, <2>2, <2>3, <2>4 DEF NewRow
<1>8. CASE es # {}
  <2>1. e.name # "TaskCreated"
    BY <1>8 DEF Follows, Before
  <2>2. PICK row : row = TruthOf(es)
    OBVIOUS
  <2>3. row = [status |-> StatusOf(NamesOf(es)), worker |-> WorkerOf(es),
               at |-> TimesOf(es), updated |-> Latest(es).block]
    BY <1>8, <2>2, TruthParts
  <2>4. row # NoRow
    <3>1. DOMAIN row # DOMAIN NoRow
      BY <2>3 DEF NoRow
    <3> QED BY <3>1
  <2>5. Moved(row, e) = [status |-> row.status, worker |-> row.worker,
                         at |-> TimesOf(after), updated |-> e.block]
    <3>1. PICK b : b = Latest(es).block
      OBVIOUS
    <3>2. b \in Nat /\ b <= e.block
      <4> HIDE DEF after
      <4> QED BY <1>8, <3>1, PartsGrow
    <3>3. PICK w, st, at0, at1 : /\ w = WorkerOf(es) /\ st = StatusOf(NamesOf(es))
                                 /\ at0 = TimesOf(es) /\ at1 = TimesOf(after)
      OBVIOUS
    <3>4. row = [status |-> st, worker |-> w, at |-> at0, updated |-> b]
      BY <2>3, <3>1, <3>3
    <3>5. [at0 EXCEPT ![e.name] = e.block] = at1
      BY <1>5, <3>3
    <3>6. Moved(row, e) = [status |-> st, worker |-> w, at |-> at1, updated |-> e.block]
      BY <1>1, <3>2, <3>4, <3>5, MovedRow
    <3> QED BY <3>3, <3>4, <3>6
  <2>6. NamesOf(after) = NamesOf(es) \cup {e.name}
    BY PartsGrow
  <2>7. \A n \in NamesOf(es) : Before(n, e.name)
    BY DEF NamesOf, Follows
  <2>8. CASE e.name = "TaskAccepted"
    <3>1. NamesOf(es) \subseteq {"TaskCreated"}
      BY <2>7, <2>8 DEF Before
    <3>2. StatusOf(NamesOf(after)) = "InProgress" /\ WorkerOf(after) = e.who
      BY <2>6, <2>8, <3>1, PartsGrow DEF StatusOf, WorkerOf
    <3>3. Projected(row, e) = [Moved(row, e) EXCEPT !.worker = e.who, !.status = "InProgress"]
      BY <2>4, <2>8 DEF Projected
    <3>4. Projected(row, e) = [status |-> "InProgress", worker |-> e.who,
                               at |-> TimesOf(after), updated |-> e.block]
      <4>1. PICK moved, st, w, at, t, a :
               /\ moved = Moved(row, e) /\ st = row.status /\ w = row.worker
               /\ at = TimesOf(after) /\ t = e.block /\ a = e.who
        OBVIOUS
      <4>2. moved = [status |-> st, worker |-> w, at |-> at, updated |-> t]
        BY <2>5, <4>1
      <4>3. [moved EXCEPT !.worker = a, !.status = "InProgress"] =
              [status |-> "InProgress", worker |-> a, at |-> at, updated |-> t]
        <5>1. PICK r : r = [moved EXCEPT !.worker = a]
          OBVIOUS
        <5>2. [moved EXCEPT !.worker = a, !.status = "InProgress"] =
                [r EXCEPT !.status = "InProgress"]
          BY <5>1
        <5>3. r = [status |-> st, worker |-> a, at |-> at, updated |-> t]
          BY <4>2, <5>1
        <5> QED BY <5>2, <5>3
      <4> QED BY <3>3, <4>1, <4>3
    <3> QED BY <1>3, <1>4, <1>8, <2>2, <3>2, <3>4
  <2>9. ASSUME e.name # "TaskAccepted" PROVE WorkerOf(after) = row.worker
    BY <2>3, <2>6, <2>9, PartsGrow DEF WorkerOf
  <2>10. CASE e.name = "WorkSubmitted"
    <3>1. NamesOf(es) \subseteq {"TaskCreated", "TaskAccepted"}
      BY <2>7, <2>10 DEF Before
    <3>2. StatusOf(NamesOf(after)) = "Submitted"
      BY <2>6, <2>10, <3>1 DEF StatusOf
    <3>3. Projected(row, e) = [Moved(row, e) EXCEPT !.status = "Submitted"]
      BY <2>4, <2>10 DEF Projected
    <3> QED BY <1>3, <1>4, <1>8, <2>2, <2>5, <2>9, <2>10, <3>2, <3>3
  <2>11. CASE e.name = "TaskCompleted"
    <3>1. NamesOf(es) \subseteq {"TaskCreated", "TaskAccepted", "WorkSubmitted"}
      BY <2>7, <2>11 DEF Before
    <3>2. StatusOf(NamesOf(after)) = "Completed"
      BY <2>6, <2>11, <3>1 DEF StatusOf
    <3>3. Projected(row, e) = [Moved(row, e) EXCEPT !.status = "Completed"]
      BY <2>4, <2>11 DEF Projected
    <3> QED BY <1>3, <1>4, <1>8, <2>2, <2>5, <2>9, <2>11, <3>2, <3>3
  <2>12. CASE e.name = "TaskCancelled"
    <3>1. StatusOf(NamesOf(after)) = "Cancelled"
      BY <2>6, <2>12 DEF StatusOf
    <3>2. Projected(row, e) = [Moved(row, e) EXCEPT !.status = "Cancelled"]
      BY <2>4, <2>12 DEF Projected
    <3> QED BY <1>3, <1>4, <1>8, <2>2, <2>5, <2>9, <2>12, <3>1, <3>2
  <2> QED BY <1>1, <2>1, <2>8, <2>10, <2>11, <2>12 DEF EventName
<1> QED BY <1>6, <1>7, <1>8

-----------------------------------------------------------------------------
(* What the statement of one event does to the row of its task. *)

LEMMA RowIsNoNoRow == \A row \in Row : row # NoRow
<1> SUFFICES ASSUME NEW row \in Row PROVE row # NoRow
  OBVIOUS
<1>1. DOMAIN row = {"status", "worker", "at", "updated"}
  BY DEF Row
<1>2. DOMAIN NoRow = {"status"}
  BY DEF NoRow
<1> QED BY <1>1, <1>2

LEMMA MovedParts ==
    ASSUME NEW row \in Row, NEW e \in Event
    PROVE  /\ Moved(row, e) \in Row
           /\ Moved(row, e).at = [row.at EXCEPT ![e.name] = e.block]
<1>1. PICK u : u = IF row.updated > e.block THEN row.updated ELSE e.block
  OBVIOUS
<1>2. u \in Nat /\ e.name \in EventName /\ e.block \in Nat
  BY <1>1 DEF Row, Event
<1>3. PICK n, b : n = e.name /\ b = e.block
  OBVIOUS
<1>4. Moved(row, e) = [row EXCEPT !.at[n] = b, !.updated = u]
  BY <1>1, <1>3 DEF Moved
<1>5. [row EXCEPT !.at[n] = b, !.updated = u] = [[row EXCEPT !.at[n] = b] EXCEPT !.updated = u]
  BY DEF Row
<1>6. PICK r : r = [row EXCEPT !.at[n] = b]
  OBVIOUS
<1>7. r \in Row /\ r.at = [row.at EXCEPT ![n] = b]
  BY <1>2, <1>3, <1>6 DEF Row
<1>8. [r EXCEPT !.updated = u] \in Row /\ [r EXCEPT !.updated = u].at = r.at
  BY <1>2, <1>7 DEF Row
<1> QED BY <1>3, <1>4, <1>5, <1>6, <1>7, <1>8

LEMMA ProjectedParts ==
    ASSUME NEW row \in Row \cup {NoRow}, NEW e \in Event
    PROVE  /\ Projected(row, e) \in Row \cup {NoRow}
           /\ row # NoRow => Projected(row, e) # NoRow
           /\ Projected(row, e) # NoRow =>
                 /\ Projected(row, e).at[e.name] = e.block
                 /\ row # NoRow => \A n \in EventName \ {e.name} :
                                       Projected(row, e).at[n] = row.at[n]
<1>1. e.name \in EventName /\ e.block \in Nat /\ e.who \in People
  BY DEF Event
<1>2. CASE row = NoRow
  <2>1. Projected(row, e) = IF e.name = "TaskCreated" THEN NewRow(e) ELSE NoRow
    BY <1>2 DEF Projected
  <2>2. NewRow(e) \in Row /\ NewRow(e).at["TaskCreated"] = e.block
    BY <1>1 DEF NewRow, Row, RowStatus, EventName
  <2> QED BY <1>2, <2>1, <2>2
<1>3. CASE row # NoRow
  <2>1. row \in Row
    BY <1>3
  <2>2. PICK moved : moved = Moved(row, e)
    OBVIOUS
  <2>3. moved \in Row /\ moved.at = [row.at EXCEPT ![e.name] = e.block]
    BY <2>1, <2>2, MovedParts
  <2>4. PICK next : next = Projected(row, e)
    OBVIOUS
  <2>5. next \in Row /\ next.at = [row.at EXCEPT ![e.name] = e.block]
    <3>1. CASE e.name = "TaskCreated"
      <4>1. next = [row EXCEPT !.at[e.name] = e.block]
        BY <1>3, <2>4, <3>1 DEF Projected
      <4> QED BY <1>1, <2>1, <4>1 DEF Row
    <3>2. CASE e.name = "TaskAccepted"
      <4>1. next = [moved EXCEPT !.worker = e.who, !.status = "InProgress"]
        BY <1>3, <2>2, <2>4, <3>2 DEF Projected
      <4>2. PICK who, r : who = e.who /\ r = [moved EXCEPT !.worker = e.who]
        OBVIOUS
      <4>3. next = [r EXCEPT !.status = "InProgress"]
        BY <2>3, <4>1, <4>2 DEF Row
      <4>4. r \in Row /\ r.at = moved.at
        BY <1>1, <2>3, <4>2 DEF Row
      <4>5. next \in Row /\ next.at = r.at
        BY <4>3, <4>4 DEF Row, RowStatus
      <4> QED BY <2>3, <4>4, <4>5
    <3>3. ASSUME e.name \notin {"TaskCreated", "TaskAccepted"}
          PROVE  \E s \in RowStatus : next = [moved EXCEPT !.status = s]
      <4>1. CASE e.name = "WorkSubmitted"
        <5>1. next = [moved EXCEPT !.status = "Submitted"]
          BY <1>3, <2>2, <2>4, <4>1 DEF Projected
        <5> QED BY <5>1 DEF RowStatus
      <4>2. CASE e.name = "TaskCompleted"
        <5>1. next = [moved EXCEPT !.status = "Completed"]
          BY <1>3, <2>2, <2>4, <4>2 DEF Projected
        <5> QED BY <5>1 DEF RowStatus
      <4>3. CASE e.name = "TaskCancelled"
        <5>1. next = [moved EXCEPT !.status = "Cancelled"]
          BY <1>3, <2>2, <2>4, <4>3 DEF Projected
        <5> QED BY <5>1 DEF RowStatus
      <4> QED BY <1>1, <3>3, <4>1, <4>2, <4>3 DEF EventName
    <3>4. CASE e.name \notin {"TaskCreated", "TaskAccepted"}
      <4>1. PICK s \in RowStatus : next = [moved EXCEPT !.status = s]
        BY <3>3, <3>4
      <4> QED BY <2>3, <4>1 DEF Row
    <3> QED BY <3>1, <3>2, <3>4
  <2>6. row.at \in [EventName -> Nat]
    BY <2>1 DEF Row
  <2>7. /\ next.at[e.name] = e.block
        /\ \A n \in EventName \ {e.name} : next.at[n] = row.at[n]
    BY <1>1, <2>5, <2>6
  <2>8. next # NoRow
    BY <2>5, RowIsNoNoRow
  <2> QED BY <2>4, <2>5, <2>7, <2>8
<1> QED BY <1>2, <1>3

-----------------------------------------------------------------------------
(* The contract's log *)

LEMMA ChainFacts ==
    ASSUME Lawful(chain)
    PROVE  /\ Len(chain) \in Nat /\ DOMAIN chain = 1 .. Len(chain)
           /\ \A i \in DOMAIN chain : /\ chain[i] \in Event /\ chain[i].block \in Nat
                                      /\ chain[i].block \in StartBlock .. MaxBlock
           /\ \A i, j \in DOMAIN chain : i < j =>
                  /\ chain[i].block <= chain[j].block
                  /\ chain[i].task = chain[j].task => Before(chain[i].name, chain[j].name)
<1>1. chain \in Seq(Event) /\ Len(chain) \in Nat /\ DOMAIN chain = 1 .. Len(chain)
  BY DEF Lawful
<1>2. \A i \in DOMAIN chain : chain[i] \in Event
  BY <1>1
<1>3. \A i \in DOMAIN chain : chain[i].block \in Nat
  BY <1>2 DEF Event
<1> QED BY <1>1, <1>2, <1>3 DEF Lawful

(* A task's event is told apart by its name. *)
LEMMA OneOfAName ==
    ASSUME Lawful(chain), NEW e \in ChainEvents, NEW f \in ChainEvents,
           e.task = f.task, e.name = f.name
    PROVE  e = f
<1>1. PICK i \in DOMAIN chain : chain[i] = e
  BY DEF ChainEvents
<1>2. PICK j \in DOMAIN chain : chain[j] = f
  BY DEF ChainEvents
<1>3. i < j \/ j < i \/ i = j
  BY <1>1, <1>2, ChainFacts
<1>4. e.name \in EventName
  BY <1>1, ChainFacts DEF Event
<1>5. ~Before(e.name, e.name)
  BY <1>4 DEF Before, EventName
<1> QED BY <1>1, <1>2, <1>3, <1>5, ChainFacts

LEMMA HasNewest ==
    ASSUME Lawful(chain), NEW es, es \subseteq ChainEvents, es # {}
    PROVE  \E m \in es : \A f \in es : f.block <= m.block
<1> DEFINE n == Len(chain)
           S == {k \in 0 .. n : \E i \in 1 .. n : k = n - i /\ chain[i] \in es}
<1>1. n \in Nat /\ DOMAIN chain = 1 .. n
  BY ChainFacts
<1>2. \A f \in es : \E i \in 1 .. n : chain[i] = f /\ n - i \in S
  BY <1>1 DEF ChainEvents
<1>3. S \subseteq Nat /\ S # {}
  <2>1. PICK f \in es : TRUE
    OBVIOUS
  <2>2. \E i \in 1 .. n : n - i \in S
    BY <1>2, <2>1
  <2>3. S \subseteq 0 .. n
    OBVIOUS
  <2> HIDE DEF S
  <2> QED BY <2>2, <2>3
<1>4. PICK k \in S : \A j \in S : k <= j
  <2> HIDE DEF S
  <2> QED BY <1>3, LeastNumber
<1>5. PICK i \in 1 .. n : k = n - i /\ chain[i] \in es
  OBVIOUS
<1>6. ASSUME NEW f \in es PROVE f.block <= chain[i].block
  <2>1. PICK j \in 1 .. n : chain[j] = f /\ n - j \in S
    BY <1>2
  <2>2. k <= n - j
    BY <1>4, <2>1
  <2> HIDE DEF S, n
  <2>3. j <= i
    BY <1>1, <1>5, <2>1, <2>2
  <2>4. j < i \/ j = i
    BY <1>1, <2>3
  <2>5. chain[i].block \in Nat
    BY <1>1, ChainFacts
  <2> QED BY <1>1, <2>1, <2>4, <2>5, ChainFacts
<1> QED BY <1>5, <1>6

(* An event later in the log than some others of its task follows them. *)
LEMMA LaterFollows ==
    ASSUME Lawful(chain), NEW i \in DOMAIN chain, NEW es, es \subseteq ChainEvents,
           \A f \in es : /\ f.task = chain[i].task
                         /\ \E j \in DOMAIN chain : j < i /\ chain[j] = f
    PROVE  Follows(chain[i], es)
<1>1. chain[i] \in Event /\ es \subseteq Event
  BY ChainFacts DEF ChainEvents
<1>2. \A f \in es : f.block <= chain[i].block /\ Before(f.name, chain[i].name)
  BY ChainFacts
<1>3. \A f, g \in es : f.name = g.name => f = g
  BY OneOfAName
<1> QED BY <1>1, <1>2, <1>3, HasNewest DEF Follows

-----------------------------------------------------------------------------
(* A chunk on the tables *)

Timed(tb) ==
    /\ tb.rows \in [Tasks -> Row \cup {NoRow}] /\ tb.events \subseteq ChainEvents
    /\ \A e \in tb.events : /\ tb.rows[e.task] # NoRow
                            /\ tb.rows[e.task].at[e.name] = e.block

Truthful(tb) == \A t \in Tasks : tb.rows[t] = TruthOf({e \in tb.events : e.task = t})

LEMMA ApplyParts ==
    ASSUME NEW tb, NEW e, NEW after, after = Apply(tb, e)
    PROVE  /\ after.rows = [tb.rows EXCEPT ![e.task] = Projected(tb.rows[e.task], e)]
           /\ after.events = tb.events \cup {e}
           /\ after.ok => tb.ok /\ after.rows[e.task] # NoRow
BY DEF Apply

LEMMA ApplyTimed ==
    ASSUME Lawful(chain), NEW tb, Timed(tb), NEW e \in ChainEvents, NEW after,
           after = Apply(tb, e), after.ok
    PROVE  Timed(after)
<1>1. e \in Event /\ e.task \in Tasks
  BY ChainFacts DEF ChainEvents, Event
<1>2. PICK row : row = tb.rows[e.task]
  OBVIOUS
<1>3. PICK next : next = Projected(row, e)
  OBVIOUS
<1>4. row \in Row \cup {NoRow}
  BY <1>1, <1>2 DEF Timed
<1>5. /\ next \in Row \cup {NoRow}
      /\ next # NoRow => /\ next.at[e.name] = e.block
                         /\ row # NoRow =>
                               \A n \in EventName \ {e.name} : next.at[n] = row.at[n]
  BY <1>1, <1>3, <1>4, ProjectedParts
<1>6. /\ after.rows = [tb.rows EXCEPT ![e.task] = next]
      /\ after.events = tb.events \cup {e} /\ after.rows[e.task] # NoRow
  BY <1>2, <1>3, ApplyParts
<1>7. next # NoRow /\ after.rows[e.task] = next
  BY <1>1, <1>6 DEF Timed
<1>8. after.rows \in [Tasks -> Row \cup {NoRow}] /\ after.events \subseteq ChainEvents
  BY <1>1, <1>5, <1>6 DEF Timed
<1>9. ASSUME NEW f \in after.events
      PROVE  after.rows[f.task] # NoRow /\ after.rows[f.task].at[f.name] = f.block
  <2>1. f \in ChainEvents /\ f \in Event /\ f.name \in EventName /\ f.task \in Tasks
    BY <1>8, ChainFacts DEF ChainEvents, Event
  <2>2. CASE f.task # e.task
    BY <1>6, <2>1, <2>2 DEF Timed
  <2>3. CASE f.task = e.task /\ f.name = e.name
    <3>1. f = e
      BY <2>1, <2>3, OneOfAName
    <3> QED BY <1>5, <1>7, <3>1
  <2>4. CASE f.task = e.task /\ f.name # e.name
    <3>1. f \in tb.events
      BY <1>6, <2>4
    <3>2. row # NoRow /\ row.at[f.name] = f.block
      BY <1>2, <2>4, <3>1 DEF Timed
    <3> QED BY <1>5, <1>7, <2>1, <2>4, <3>2
  <2> QED BY <2>2, <2>3, <2>4
<1> QED BY <1>8, <1>9 DEF Timed

(* An event that is later in the log than all those recorded. *)
LEMMA ApplyTruthful ==
    ASSUME Lawful(chain), NEW tb, Timed(tb), Truthful(tb), NEW i \in DOMAIN chain,
           \A f \in tb.events : \E j \in DOMAIN chain : j < i /\ chain[j] = f,
           NEW after, after = Apply(tb, chain[i]), after.ok
    PROVE  Truthful(after)
<1>1. PICK e : e = chain[i]
  OBVIOUS
<1>2. e \in Event /\ e.task \in Tasks
  BY <1>1, ChainFacts DEF Event
<1>3. PICK es : es = {f \in tb.events : f.task = e.task}
  OBVIOUS
<1>4. Follows(e, es)
  <2>1. es \subseteq ChainEvents
    BY <1>3 DEF Timed
  <2>2. \A f \in es : f.task = chain[i].task /\ \E j \in DOMAIN chain : j < i /\ chain[j] = f
    BY <1>1, <1>3
  <2> QED BY <1>1, <2>1, <2>2, LaterFollows
<1>5. PICK next : next = Projected(TruthOf(es), e)
  OBVIOUS
<1>6. tb.rows[e.task] = TruthOf(es)
  BY <1>2, <1>3 DEF Truthful
<1>7. /\ after.rows = [tb.rows EXCEPT ![e.task] = next]
      /\ after.events = tb.events \cup {e} /\ after.rows[e.task] # NoRow
  <2>1. after = Apply(tb, e) /\ after.ok
    BY <1>1
  <2>2. /\ after.rows = [tb.rows EXCEPT ![e.task] = Projected(tb.rows[e.task], e)]
        /\ after.events = tb.events \cup {e} /\ after.rows[e.task] # NoRow
    BY <2>1, ApplyParts
  <2> QED BY <1>5, <1>6, <2>2
<1>8. next # NoRow
  BY <1>2, <1>7 DEF Timed
<1>9. next = TruthOf(es \cup {e})
  BY <1>4, <1>5, <1>8, TruthGrows
<1>10. ASSUME NEW t \in Tasks
       PROVE  after.rows[t] = TruthOf({f \in after.events : f.task = t})
  <2>1. CASE t = e.task
    <3>1. {f \in after.events : f.task = t} = es \cup {e}
      BY <1>3, <1>7, <2>1
    <3>2. after.rows[t] = next
      BY <1>2, <1>7, <2>1 DEF Timed
    <3> QED BY <1>9, <3>1, <3>2
  <2>2. CASE t # e.task
    <3>1. {f \in after.events : f.task = t} = {f \in tb.events : f.task = t}
      BY <1>7, <2>2
    <3>2. after.rows[t] = tb.rows[t]
      BY <1>7, <2>2 DEF Timed
    <3> QED BY <3>1, <3>2 DEF Truthful
  <2> QED BY <2>1, <2>2
<1> QED BY <1>10 DEF Truthful

(* The events of a chunk, one after the other. *)
LEMMA ChunkTimed ==
    ASSUME Lawful(chain), NEW tb, Timed(tb), NEW P, P \subseteq DOMAIN chain,
           NEW after, after = ApplyAll(tb, InOrder(P)), after.ok
    PROVE  /\ Timed(after)
           /\ after.events = tb.events \cup {chain[i] : i \in P}
           /\ (Truthful(tb) /\ (\A f \in tb.events, i \in P :
                                  \E j \in DOMAIN chain : j < i /\ chain[j] = f))
              => Truthful(after)
<1> DEFINE c == Cardinality(P)
<1>1. PICK g : /\ c \in Nat
               /\ \A k \in 1 .. c : g[k] \in P
               /\ \A j, k \in 1 .. c : j < k => g[j] < g[k]
               /\ \A i \in P : \E k \in 1 .. c : g[k] = i
               /\ InOrder(P) = [k \in 1 .. c |-> chain[g[k]]]
  <2>1. Len(chain) \in Nat /\ P \subseteq 1 .. Len(chain)
    BY ChainFacts
  <2> QED BY <2>1, Enumerated
<1> HIDE DEF c
<1>2. PICK es : es = InOrder(P)
  OBVIOUS
<1>3. DOMAIN es = 1 .. c /\ \A k \in 1 .. c : es[k] = chain[g[k]]
  BY <1>1, <1>2
<1>4. PICK F : /\ F[0] = tb
               /\ \A k \in 1 .. c : F[k] = Apply(F[k - 1], es[k])
               /\ ApplyAll(tb, es) = F[c]
  <2>1. c \in Nat /\ DOMAIN es = 1 .. c
    BY <1>1, <1>3
  <2> QED BY <2>1, ApplyInTurn
<1> DEFINE done(k) == {chain[g[j]] : j \in 1 .. k}
           inorder == \A f \in tb.events, i \in P : \E j \in DOMAIN chain : j < i /\ chain[j] = f
           good(k) == F[k].ok => /\ Timed(F[k]) /\ F[k].events = tb.events \cup done(k)
                                 /\ Truthful(tb) /\ inorder => Truthful(F[k])
           G == {k \in 0 .. c : good(k)}
<1>5. 0 \in G
  <2>1. done(0) = {}
    OBVIOUS
  <2> QED BY <1>1, <1>4, <2>1
<1>6. ASSUME NEW k \in 0 .. c - 1, k \in G PROVE k + 1 \in G
  <2>1. k + 1 \in 1 .. c /\ (k + 1) - 1 = k /\ k \in Nat
    BY <1>1
  <2>2. PICK now, next : now = F[k] /\ next = F[k + 1]
    OBVIOUS
  <2>3. PICK i : i = g[k + 1]
    OBVIOUS
  <2>4. i \in P /\ i \in DOMAIN chain /\ es[k + 1] = chain[i]
    BY <1>1, <1>3, <2>1, <2>3
  <2>5. next = Apply(now, chain[i])
    BY <1>4, <2>1, <2>2, <2>4
  <2>6. done(k + 1) = done(k) \cup {chain[i]}
    <3>1. 1 .. k + 1 = (1 .. k) \cup {k + 1}
      BY <2>1
    <3> QED BY <2>3, <3>1
  <2>7. SUFFICES ASSUME next.ok PROVE good(k + 1)
    BY <2>1, <2>2
  <2>8. now.ok /\ next.events = now.events \cup {chain[i]}
    <3>1. PICK e : e = chain[i]
      OBVIOUS
    <3>2. next = Apply(now, e)
      BY <2>5, <3>1
    <3> QED BY <2>7, <3>1, <3>2, ApplyParts
  <2>9. Timed(now) /\ now.events = tb.events \cup done(k)
    BY <1>6, <2>2, <2>8
  <2>10. Timed(next)
    BY <2>4, <2>5, <2>7, <2>9, ApplyTimed DEF ChainEvents
  <2>11. next.events = tb.events \cup done(k + 1)
    BY <2>6, <2>8, <2>9
  <2>12. ASSUME Truthful(tb), inorder PROVE Truthful(next)
    <3>1. Truthful(now)
      BY <1>6, <2>2, <2>8, <2>12
    <3>2. ASSUME NEW f \in now.events PROVE \E j \in DOMAIN chain : j < i /\ chain[j] = f
      <4>1. CASE f \in tb.events
        BY <2>4, <2>12, <4>1
      <4>2. CASE f \in done(k)
        <5>1. PICK j \in 1 .. k : f = chain[g[j]]
          BY <4>2
        <5>2. j \in 1 .. c /\ j < k + 1
          <6> HIDE DEF done, inorder, good, G
          <6> QED BY <1>1, <2>1
        <5>3. g[j] < i /\ g[j] \in DOMAIN chain
          BY <1>1, <2>1, <2>3, <5>2
        <5> QED BY <5>1, <5>3
      <4> QED BY <2>9, <4>1, <4>2
    <3> QED BY <2>4, <2>5, <2>7, <2>9, <3>1, <3>2, ApplyTruthful
  <2> QED BY <2>2, <2>10, <2>11, <2>12
<1>7. good(c)
  <2>1. 0 \in G /\ \A k \in 0 .. c - 1 : k \in G => k + 1 \in G
    BY <1>5, <1>6
  <2>2. c \in G
    <3> HIDE DEF G
    <3>1. \A k \in 0 .. c : k \in G
      BY <1>1, <2>1, Upwards
    <3> QED BY <1>1, <3>1
  <2> QED BY <2>2
<1>8. after = F[c]
  BY <1>2, <1>4
<1>9. done(c) = {chain[i] : i \in P}
  BY <1>1
<1> QED BY <1>7, <1>8, <1>9

-----------------------------------------------------------------------------
(* The tables, whatever the length of the lease and however runs overlap. *)

Tables == [rows |-> rows, events |-> events, ok |-> TRUE]

Numbers ==
    /\ head \in Nat /\ checkpoint \in Nat
    /\ \A w \in Slots : /\ run[w].cp \in Nat /\ run[w].done \in Nat
                        /\ run[w].head \in Nat /\ run[w].to \in Nat

(* What a run is about to write is what it may have been answered. *)
InHand ==
    \A w \in Slots : run[w].pc = "write" =>
        run[w].loaded \in Answers(run[w].done + 1, run[w].to)

(* No event is missing of the blocks that some run has processed. *)
Covered ==
    MayOmit = FALSE =>
        /\ UpTo(checkpoint) \subseteq events
        /\ \A w \in Slots : UpTo(run[w].done) \subseteq events

DInv == Formed /\ Numbers /\ Lawful(chain) /\ Timed(Tables) /\ InHand /\ Covered

LEMMA InitDInv == Init => DInv
<1> SUFFICES ASSUME Init PROVE DInv
  OBVIOUS
<1>1. Formed /\ Numbers
  BY InitFormed, ConfigAssumption DEF Init, Numbers, IdleRun
<1>2. Lawful(chain)
  BY ChainAssumption DEF Init
<1>3. Timed(Tables)
  BY DEF Init, Timed, Tables, NoRows
<1>4. InHand
  BY DEF Init, InHand, IdleRun
<1>5. Covered
  <2>1. \A e \in ChainEvents : e.block \in Nat /\ e.block >= StartBlock
    BY <1>2, ChainFacts, ConfigAssumption DEF ChainEvents
  <2>2. UpTo(StartBlock - 1) = {} /\ UpTo(0) = {}
    BY <2>1, ConfigAssumption DEF UpTo
  <2> QED BY <2>2 DEF Init, Covered, IdleRun
<1> QED BY <1>1, <1>2, <1>3, <1>4, <1>5 DEF DInv

LEMMA UpToZero == ASSUME Lawful(chain) PROVE UpTo(0) = {}
<1>1. \A e \in ChainEvents : e.block \in Nat /\ e.block >= StartBlock
  BY ChainFacts, ConfigAssumption DEF ChainEvents
<1> QED BY <1>1, ConfigAssumption DEF UpTo

LEMMA SameLog ==
    ASSUME chain' = chain
    PROVE  /\ ChainEvents' = ChainEvents /\ \A b : UpTo(b)' = UpTo(b)
           /\ \A a, b : Answers(a, b)' = Answers(a, b)
           /\ Lawful(chain) => Lawful(chain)'
<1>1. ChainEvents' = ChainEvents /\ \A b : UpTo(b)' = UpTo(b)
  BY DEF ChainEvents, UpTo
<1>2. \A a, b : EventsIn(a, b)' = EventsIn(a, b)
  BY DEF EventsIn
<1>3. \A P : InOrder(P)' = InOrder(P)
  BY DEF InOrder
<1>4. \A a, b : Answers(a, b)' = Answers(a, b)
  BY <1>2, <1>3 DEF Answers
<1>5. Lawful(chain) => Lawful(chain)'
  OBVIOUS
<1> QED BY <1>1, <1>4, <1>5

LEMMA SameTables ==
    ASSUME DInv, chain' = chain, rows' = rows, events' = events
    PROVE  Lawful(chain)' /\ Timed(Tables)'
BY SameLog DEF DInv, Timed, Tables

LEMMA SameWork ==
    ASSUME DInv, Formed', Numbers', chain' = chain, rows' = rows, events' = events,
           checkpoint' = checkpoint,
           \A w \in Slots : /\ run'[w].pc = run[w].pc /\ run'[w].done = run[w].done
                            /\ run'[w].to = run[w].to /\ run'[w].loaded = run[w].loaded
    PROVE  DInv'
<1>1. InHand'
  BY SameLog DEF DInv, InHand
<1>2. Covered'
  BY SameLog DEF DInv, Covered
<1> QED BY <1>1, <1>2, SameTables DEF DInv

(* A step of run w that writes no table and does not get ready to. *)
LEMMA RestsKeeps ==
    ASSUME DInv, Formed', NEW w \in Slots, chain' = chain, rows' = rows, events' = events,
           checkpoint' = checkpoint, head' = head,
           \A v \in Slots \ {w} : run'[v] = run[v],
           run'[w].pc # "write", run'[w].done \in {run[w].done, checkpoint, 0},
           run'[w].cp \in Nat, run'[w].head \in Nat, run'[w].to \in Nat
    PROVE  DInv'
<1>1. Numbers'
  BY DEF DInv, Numbers
<1>2. Lawful(chain)' /\ Timed(Tables)'
  BY SameTables
<1>3. InHand'
  BY SameLog DEF DInv, InHand
<1>4. Covered'
  <2>1. UpTo(0) = {}
    BY UpToZero DEF DInv
  <2>2. \A b : UpTo(b)' = UpTo(b)
    BY SameLog
  <2> QED BY <2>1, <2>2 DEF DInv, Covered
<1> QED BY <1>1, <1>2, <1>3, <1>4 DEF DInv

LEMMA GotoRests ==
    ASSUME DInv, Formed', NEW w \in Slots, NEW label \in Control \ {"write"}, Goto(w, label),
           UNCHANGED <<chainVars, tables, checkpoint>>
    PROVE  DInv'
<1>1. /\ \A v \in Slots \ {w} : run'[v] = run[v]
      /\ run'[w].pc = label /\ run'[w].done = run[w].done /\ run'[w].cp = run[w].cp
      /\ run'[w].head = run[w].head /\ run'[w].to = run[w].to
  BY DEF Goto, DInv, Formed, RunShape, Fields
<1> QED BY <1>1, RestsKeeps DEF chainVars, tables, DInv, Numbers

LEMMA IdleRests ==
    ASSUME DInv, Formed', NEW w \in Slots, NEW label \in Control \ {"write"},
           run' = [run EXCEPT ![w] = [IdleRun EXCEPT !.pc = label]],
           UNCHANGED <<chainVars, tables, checkpoint>>
    PROVE  DInv'
<1>1. /\ \A v \in Slots \ {w} : run'[v] = run[v]
      /\ run'[w].pc = label /\ run'[w].done = 0 /\ run'[w].cp = 0
      /\ run'[w].head = 0 /\ run'[w].to = 0
  BY DEF DInv, Formed, RunShape, IdleRun
<1> QED BY <1>1, RestsKeeps DEF chainVars, tables

LEMMA ThrowRests ==
    ASSUME DInv, Formed', NEW w \in Slots, Throw(w) PROVE DInv'
BY GotoRests DEF Throw, Control

LEMMA MineKeepsTables == ASSUME DInv, Formed', Mine PROVE DInv'
<1>1. /\ chain' = chain /\ rows' = rows /\ events' = events /\ run' = run
      /\ checkpoint' = checkpoint /\ head' \in Nat
  BY DEF Mine, syncState, tables, DInv, Numbers
<1>2. Numbers'
  BY <1>1 DEF DInv, Numbers
<1> QED BY <1>1, <1>2, SameWork

LEMMA TickKeepsTables == ASSUME DInv, Formed', Tick PROVE DInv'
<1>1. \A w \in Slots : /\ run'[w].pc = run[w].pc /\ run'[w].cp = run[w].cp
                       /\ run'[w].done = run[w].done /\ run'[w].head = run[w].head
                       /\ run'[w].to = run[w].to /\ run'[w].loaded = run[w].loaded
  BY DEF Tick, DInv, Formed, RunShape, Fields
<1>2. UNCHANGED <<chain, head, checkpoint, rows, events>>
  BY DEF Tick, chainVars, syncState, tables
<1>3. Numbers'
  BY <1>1, <1>2 DEF DInv, Numbers
<1> QED BY <1>1, <1>2, <1>3, SameWork

LEMMA ReadHeadTables == ASSUME DInv, Formed', NEW w \in Slots, ReadHead(w) PROVE DInv'
<1>1. PICK h \in Larger(0, head - RpcLag) .. head :
        IF FinalBlock(h) < run[w].cp
        THEN Throw(w)
        ELSE /\ run' = [run EXCEPT ![w].pc = "load", ![w].head = h]
             /\ UNCHANGED <<chainVars, syncState, lock, tables, snapshot>>
  BY DEF ReadHead
<1>2. CASE FinalBlock(h) < run[w].cp
  BY <1>1, <1>2, ThrowRests
<1>3. CASE ~(FinalBlock(h) < run[w].cp)
  <2>1. h \in Nat
    BY ConfigAssumption DEF Larger, DInv, Numbers
  <2>2. /\ \A v \in Slots \ {w} : run'[v] = run[v]
        /\ run'[w].pc = "load" /\ run'[w].head = h
        /\ run'[w].cp = run[w].cp /\ run'[w].done = run[w].done /\ run'[w].to = run[w].to
        /\ UNCHANGED <<chain, head, checkpoint, rows, events>>
    BY <1>1, <1>3 DEF chainVars, syncState, tables, DInv, Formed, RunShape, Fields
  <2> QED BY <2>1, <2>2, RestsKeeps DEF DInv, Numbers
<1> QED BY <1>2, <1>3

LEMMA LoadChunkTables == ASSUME DInv, Formed', NEW w \in Slots, LoadChunk(w) PROVE DInv'
<1> DEFINE from == run[w].done + 1
           to == Smaller(RunTarget(w), from + ChunkSize - 1)
<1>1. PICK found \in Answers(from, to) :
        IF Len(found) > MaxEvents
        THEN Throw(w)
        ELSE /\ run' = IF OverBudget(w, found)
                       THEN [run EXCEPT ![w].pc = AfterLoop(w)]
                       ELSE [run EXCEPT ![w].pc = "write",
                                        ![w].seen = @ + Len(found),
                                        ![w].loaded = found, ![w].to = to]
             /\ UNCHANGED <<chainVars, syncState, lock, tables, snapshot>>
  BY DEF LoadChunk
<1>2. to \in Nat
  <2>1. /\ run[w].done \in Nat /\ run[w].cp \in Nat /\ run[w].head \in Nat
        /\ ChunkSize \in Nat \ {0} /\ ChunkSize * MaxChunks \in Nat
        /\ run[w].done < RunTarget(w)
    <3>1. ChunkSize \in Nat \ {0} /\ MaxChunks \in Nat
      BY ConfigAssumption
    <3>2. ChunkSize * MaxChunks \in Nat
      BY <3>1
    <3>3. run[w].done \in Nat /\ run[w].cp \in Nat /\ run[w].head \in Nat
      BY DEF DInv, Numbers
    <3>4. run[w].done < RunTarget(w)
      BY DEF LoadChunk
    <3> QED BY <3>1, <3>2, <3>3, <3>4
  <2>2. PICK d \in Nat, n \in Nat \ {0} : d = run[w].done /\ n = ChunkSize
    BY <2>1
  <2>3. RunTarget(w) \in Nat
    BY <2>1, ConfigAssumption DEF RunTarget, Target, FromBlock, FinalBlock, Smaller, Larger
  <2>4. d + 1 + n - 1 \in Nat
    BY <2>2
  <2> QED BY <2>2, <2>3, <2>4 DEF Smaller
<1> HIDE DEF to
<1>3. CASE Len(found) > MaxEvents
  BY <1>1, <1>3, ThrowRests
<1>4. CASE ~(Len(found) > MaxEvents) /\ OverBudget(w, found)
  <2>1. Goto(w, AfterLoop(w)) /\ UNCHANGED <<chainVars, tables, checkpoint>>
    BY <1>1, <1>4 DEF Goto, syncState
  <2>2. AfterLoop(w) \in Control \ {"write"}
    BY DEF AfterLoop, Control
  <2> QED BY <2>1, <2>2, GotoRests
<1>5. CASE ~(Len(found) > MaxEvents) /\ ~OverBudget(w, found)
  <2>1. /\ run' = [run EXCEPT ![w].pc = "write", ![w].seen = @ + Len(found),
                              ![w].loaded = found, ![w].to = to]
        /\ UNCHANGED <<chain, head, checkpoint, rows, events>>
    BY <1>1, <1>5 DEF chainVars, syncState, tables
  <2>2. /\ \A v \in Slots \ {w} : run'[v] = run[v]
        /\ run'[w].pc = "write" /\ run'[w].to = to /\ run'[w].loaded = found
        /\ run'[w].cp = run[w].cp /\ run'[w].done = run[w].done
        /\ run'[w].head = run[w].head
    BY <2>1 DEF DInv, Formed, RunShape, Fields
  <2>3. Numbers' /\ Lawful(chain)' /\ Timed(Tables)'
    <3>1. Numbers'
      BY <1>2, <2>1, <2>2 DEF DInv, Numbers
    <3> QED BY <2>1, <3>1, SameTables
  <2>4. \A a, b : Answers(a, b)' = Answers(a, b)
    BY <2>1, SameLog
  <2>5. InHand'
    BY <2>2, <2>4 DEF DInv, InHand
  <2>6. Covered'
    <3>1. \A b : UpTo(b)' = UpTo(b)
      BY <2>1, SameLog
    <3>2. \A v \in Slots : run'[v].done = run[v].done
      BY <2>2
    <3> QED BY <2>1, <3>1, <3>2 DEF DInv, Covered
  <2> QED BY <2>3, <2>5, <2>6 DEF DInv
<1> QED BY <1>3, <1>4, <1>5

(* What a batch that is not refused leaves in the tables. *)
LEMMA BatchTables ==
    ASSUME DInv, NEW w \in Slots, run[w].pc = "write",
           NEW after, after = ApplyAll(Tables, run[w].loaded), after.ok
    PROVE  \E P : /\ P \subseteq EventsIn(run[w].done + 1, run[w].to)
                  /\ MayOmit = FALSE => P = EventsIn(run[w].done + 1, run[w].to)
                  /\ Timed(after) /\ after.events = events \cup {chain[i] : i \in P}
                  /\ (Truthful(Tables) /\ (\A f \in events, i \in P :
                                  \E j \in DOMAIN chain : j < i /\ chain[j] = f))
                     => Truthful(after)
<1>1. run[w].loaded \in Answers(run[w].done + 1, run[w].to)
  BY DEF DInv, InHand
<1>2. PICK P : /\ P \subseteq EventsIn(run[w].done + 1, run[w].to)
               /\ MayOmit = FALSE => P = EventsIn(run[w].done + 1, run[w].to)
               /\ run[w].loaded = InOrder(P)
  BY <1>1 DEF Answers
<1>3. P \subseteq DOMAIN chain
  BY <1>2 DEF EventsIn
<1>4. after = ApplyAll(Tables, InOrder(P)) /\ Lawful(chain) /\ Timed(Tables)
  BY <1>2 DEF DInv
<1>5. PICK tb : tb = Tables
  OBVIOUS
<1>6. tb.events = events
  BY <1>5 DEF Tables
<1>7. /\ Timed(after) /\ after.events = tb.events \cup {chain[i] : i \in P}
      /\ (Truthful(tb) /\ (\A f \in tb.events, i \in P :
                              \E j \in DOMAIN chain : j < i /\ chain[j] = f))
         => Truthful(after)
  BY <1>3, <1>4, <1>5, ChunkTimed
<1> QED BY <1>2, <1>5, <1>6, <1>7

LEMMA WriteChunkTables == ASSUME DInv, Formed', NEW w \in Slots, WriteChunk(w) PROVE DInv'
<1>1. PICK after : after = ApplyAll(Tables, run[w].loaded)
  OBVIOUS
<1>2. run[w].pc = "write"
  BY DEF WriteChunk
<1>3. CASE ~after.ok
  BY <1>1, <1>3, ThrowRests DEF WriteChunk, Tables
<1>4. CASE after.ok
  <2>1. /\ rows' = after.rows /\ events' = after.events /\ checkpoint' = run[w].to
        /\ run' = [run EXCEPT ![w].pc = "load", ![w].done = run[w].to,
                              ![w].loaded = <<>>, ![w].to = 0]
        /\ UNCHANGED chainVars
    BY <1>1, <1>4 DEF WriteChunk, Tables
  <2>2. /\ \A v \in Slots \ {w} : run'[v] = run[v]
        /\ run'[w].pc = "load" /\ run'[w].to = 0 /\ run'[w].done = run[w].to
        /\ run'[w].cp = run[w].cp /\ run'[w].head = run[w].head
        /\ chain' = chain /\ head' = head
    BY <2>1 DEF chainVars, DInv, Formed, RunShape, Fields
  <2>3. PICK P : /\ P \subseteq EventsIn(run[w].done + 1, run[w].to)
                 /\ MayOmit = FALSE => P = EventsIn(run[w].done + 1, run[w].to)
                 /\ Timed(after) /\ after.events = events \cup {chain[i] : i \in P}
    BY <1>1, <1>2, <1>4, BatchTables
  <2>4. run[w].done \in Nat /\ run[w].to \in Nat
    BY DEF DInv, Numbers
  <2>5. Numbers' /\ Lawful(chain)'
    <3>1. ASSUME NEW v \in Slots
          PROVE  /\ run'[v].cp \in Nat /\ run'[v].done \in Nat
                 /\ run'[v].head \in Nat /\ run'[v].to \in Nat
      BY <2>2, <2>4 DEF DInv, Numbers
    <3>2. head' \in Nat /\ checkpoint' \in Nat
      BY <2>1, <2>2, <2>4 DEF DInv, Numbers
    <3> QED BY <2>2, <3>1, <3>2, SameLog DEF DInv, Numbers
  <2>6. Timed(Tables)'
    <3>1. ChainEvents' = ChainEvents
      BY <2>2, SameLog
    <3> QED BY <2>1, <2>3, <3>1 DEF Timed, Tables
  <2>7. InHand'
    <3>1. \A a, b : Answers(a, b)' = Answers(a, b)
      BY <2>2, SameLog
    <3> QED BY <2>2, <3>1 DEF DInv, InHand
  <2>8. Covered'
    <3>1. \A b : UpTo(b)' = UpTo(b)
      BY <2>2, SameLog
    <3>2. SUFFICES ASSUME MayOmit = FALSE
                   PROVE  UpTo(run[w].to) \subseteq after.events
      BY <2>1, <2>2, <2>3, <3>1 DEF DInv, Covered
    <3>3. ASSUME NEW e \in UpTo(run[w].to) PROVE e \in after.events
      <4>1. PICK i \in DOMAIN chain : chain[i] = e
        BY DEF UpTo, ChainEvents
      <4>2. e.block \in Nat /\ e.block <= run[w].to /\ e \in ChainEvents
        BY <4>1, ChainFacts DEF UpTo, DInv
      <4>3. CASE e.block <= run[w].done
        BY <2>3, <3>2, <4>2, <4>3 DEF DInv, Covered, UpTo
      <4>4. CASE ~(e.block <= run[w].done)
        <5>1. e.block \in run[w].done + 1 .. run[w].to
          BY <2>4, <4>2, <4>4
        <5>2. i \in P
          BY <2>3, <3>2, <4>1, <5>1 DEF EventsIn
        <5> QED BY <2>3, <4>1, <5>2
      <4> QED BY <4>3, <4>4
    <3> QED BY <3>3
  <2> QED BY <2>5, <2>6, <2>7, <2>8 DEF DInv
<1> QED BY <1>3, <1>4

LEMMA StepTables ==
    ASSUME DInv, Formed', NEW w \in Slots, Start(w) \/ Step(w) \/ Fails(w) \/ Crashes(w)
    PROVE  DInv'
<1> USE DEF Control, chainVars, syncState, tables
<1>1. IdleRun = [IdleRun EXCEPT !.pc = "idle"]
  BY DEF IdleRun
<1>2. ASSUME Start(w) PROVE DInv'
  BY <1>2, IdleRests DEF Start
<1>3. ASSUME AcquireLease(w) PROVE DInv'
  BY <1>1, <1>3, IdleRests, GotoRests DEF AcquireLease
<1>4. ASSUME ReadState(w) PROVE DInv'
  <2>1. /\ \A v \in Slots \ {w} : run'[v] = run[v]
        /\ run'[w].pc = "read" /\ run'[w].cp = checkpoint /\ run'[w].done = checkpoint
        /\ run'[w].head = run[w].head /\ run'[w].to = run[w].to
        /\ UNCHANGED <<chain, head, checkpoint, rows, events>>
    BY <1>4 DEF ReadState, DInv, Formed, RunShape, Fields
  <2> QED BY <2>1, RestsKeeps DEF DInv, Numbers
<1>5. ASSUME LoopEnds(w) PROVE DInv'
  BY <1>5, GotoRests DEF LoopEnds, AfterLoop
<1>6. ASSUME RecordSnapshot(w) \/ VerifyArtifacts(w) \/ FinishRun(w) PROVE DInv'
  BY <1>6, GotoRests DEF RecordSnapshot, VerifyArtifacts, FinishRun
<1>7. ASSUME Touch(w) \/ Quiet(w) PROVE DInv'
  BY <1>7, GotoRests DEF Touch, Quiet
<1>8. ASSUME ReleaseLease(w) \/ Crashes(w) PROVE DInv'
  BY <1>1, <1>8, IdleRests DEF ReleaseLease, Crashes
<1>9. ASSUME Fails(w) PROVE DInv'
  BY <1>9, ThrowRests, GotoRests DEF Fails
<1> QED BY <1>2, <1>3, <1>4, <1>5, <1>6, <1>7, <1>8, <1>9, ReadHeadTables, LoadChunkTables,
           WriteChunkTables
        DEF Step

LEMMA NextDInv == ASSUME DInv, [Next]_vars PROVE DInv'
<1>1. Formed'
  BY NextFormed DEF DInv
<1>2. CASE UNCHANGED vars
  <2>1. Numbers'
    BY <1>2 DEF vars, DInv, Numbers
  <2> QED BY <1>1, <1>2, <2>1, SameWork DEF vars
<1> QED BY <1>1, <1>2, MineKeepsTables, TickKeepsTables, StepTables DEF Next

(* The tables agree with the log and with what the runs have processed, in *)
(* every interleaving of runs, failures and crashes.                       *)
THEOREM TablesInductive == Spec => []DInv
<1>1. Init => DInv
  BY InitDInv
<1>2. DInv /\ [Next]_vars => DInv'
  BY NextDInv
<1> QED BY <1>1, <1>2, PTL DEF Spec

(* If the explorer leaves nothing out, no event up to the checkpoint is    *)
(* lost, although runs may overlap, fail and die anywhere.                 *)
THEOREM NothingLost == ASSUME MayOmit = FALSE PROVE Spec => []NoEventLost
<1>1. DInv => NoEventLost
  BY DEF DInv, Covered, Timed, Tables, NoEventLost
<1> QED BY <1>1, TablesInductive, PTL

-----------------------------------------------------------------------------
(* The rows, while no run outlives the lease: chunks then come one after   *)
(* the other, and every event is projected once, after those before it.    *)

OInv ==
    /\ BInv /\ DInv
    /\ events \subseteq UpTo(checkpoint)
    /\ Truthful(Tables)

LEMMA InitOInv == Init => OInv
<1> SUFFICES ASSUME Init PROVE OInv
  OBVIOUS
<1>1. rows = NoRows /\ events = {}
  BY DEF Init
<1>2. Truthful(Tables)
  <2>1. TruthOf({}) = NoRow
    BY DEF TruthOf
  <2>2. \A t \in Tasks : {e \in Tables.events : e.task = t} = {}
    BY <1>1 DEF Tables
  <2> QED BY <1>1, <2>1, <2>2 DEF Truthful, Tables, NoRows
<1> QED BY <1>1, <1>2, InitBInv, InitDInv DEF OInv

(* Only a batch that is not refused writes the tables. *)
LEMMA OnlyBatchesWrite ==
    ASSUME DInv, [Next]_vars
    PROVE  \/ rows' = rows /\ events' = events
           \/ \E w \in Slots : WriteChunk(w) /\ ~Throw(w)
<1> USE DEF tables
<1>1. CASE Mine \/ Tick
  BY <1>1 DEF Mine, Tick
<1>2. ASSUME NEW w \in Slots, Start(w) \/ Step(w) \/ Fails(w) \/ Crashes(w)
      PROVE  (rows' = rows /\ events' = events) \/ (WriteChunk(w) /\ ~Throw(w))
  <2>1. CASE Start(w) \/ Fails(w) \/ Crashes(w)
    BY <2>1 DEF Start, Fails, Crashes, Throw
  <2>2. CASE AcquireLease(w) \/ ReadState(w) \/ ReadHead(w) \/ LoadChunk(w) \/ LoopEnds(w)
    BY <2>2 DEF AcquireLease, ReadState, ReadHead, LoadChunk, LoopEnds, Throw
  <2>3. CASE RecordSnapshot(w) \/ VerifyArtifacts(w) \/ Touch(w) \/ Quiet(w)
             \/ FinishRun(w) \/ ReleaseLease(w)
    BY <2>3 DEF RecordSnapshot, VerifyArtifacts, Touch, Quiet, FinishRun, ReleaseLease
  <2>4. CASE WriteChunk(w)
    BY <2>4 DEF Throw
  <2> QED BY <1>2, <2>1, <2>2, <2>3, <2>4 DEF Step
<1>3. CASE UNCHANGED vars
  BY <1>3 DEF vars
<1> QED BY <1>1, <1>2, <1>3 DEF Next

LEMMA BatchTruthful ==
    ASSUME OInv, NEW w \in Slots, WriteChunk(w), ~Throw(w)
    PROVE  events' \subseteq UpTo(checkpoint)' /\ Truthful(Tables)'
<1>1. PICK after : after = ApplyAll(Tables, run[w].loaded)
  OBVIOUS
<1>2. run[w].pc = "write" /\ after.ok
  BY <1>1 DEF WriteChunk, Tables
<1>3. /\ rows' = after.rows /\ events' = after.events /\ checkpoint' = run[w].to
      /\ chain' = chain
  BY <1>1, <1>2 DEF WriteChunk, Tables, chainVars
<1>4. /\ run[w].done = checkpoint /\ checkpoint < run[w].to
      /\ checkpoint \in Nat /\ run[w].to \in Nat
  BY <1>2 DEF OInv, BInv, RunsRemember, BlockShape, Past
<1>5. PICK P : /\ P \subseteq EventsIn(run[w].done + 1, run[w].to)
               /\ Timed(after) /\ after.events = events \cup {chain[i] : i \in P}
               /\ (Truthful(Tables) /\ (\A f \in events, i \in P :
                               \E j \in DOMAIN chain : j < i /\ chain[j] = f))
                  => Truthful(after)
  BY <1>1, <1>2, BatchTables DEF OInv
<1>6. Lawful(chain)
  BY DEF OInv, DInv
<1>7. \A i \in P : /\ i \in DOMAIN chain /\ chain[i].block \in Nat
                   /\ checkpoint < chain[i].block /\ chain[i].block <= run[w].to
  <2>1. \A i \in P : i \in DOMAIN chain /\ chain[i].block \in checkpoint + 1 .. run[w].to
    BY <1>4, <1>5 DEF EventsIn
  <2> QED BY <1>4, <1>6, <2>1, ChainFacts
<1>8. \A f \in events : f \in ChainEvents /\ f.block <= checkpoint
  BY DEF OInv, UpTo
<1>9. ASSUME NEW f \in events, NEW i \in P PROVE \E j \in DOMAIN chain : j < i /\ chain[j] = f
  <2>1. PICK j \in DOMAIN chain : chain[j] = f
    BY <1>8 DEF ChainEvents
  <2>2. chain[j].block \in Nat /\ chain[j].block < chain[i].block
    BY <1>4, <1>6, <1>7, <1>8, <2>1, ChainFacts
  <2>3. i \in Nat /\ j \in Nat /\ i \in DOMAIN chain
    BY <1>6, <1>7, ChainFacts
  <2>4. i < j => chain[i].block <= chain[j].block
    BY <1>6, <2>3, ChainFacts
  <2>5. chain[i].block \in Nat
    BY <1>7
  <2>6. ~(i < j) /\ i # j
    BY <2>2, <2>4, <2>5
  <2> QED BY <2>1, <2>3, <2>6
<1>10. Truthful(after)
  BY <1>5, <1>9 DEF OInv
<1>11. Truthful(Tables)'
  BY <1>3, <1>10 DEF Truthful, Tables
<1>12. ASSUME NEW e \in after.events PROVE e \in ChainEvents /\ e.block <= run[w].to
  <2>1. CASE e \in events
    <3>1. e.block \in Nat
      BY <1>6, <1>8, <2>1, ChainFacts DEF ChainEvents
    <3> QED BY <1>4, <1>8, <2>1, <3>1
  <2>2. CASE e \in {chain[i] : i \in P}
    BY <1>7, <2>2 DEF ChainEvents
  <2> QED BY <1>5, <2>1, <2>2
<1>13. events' \subseteq UpTo(run[w].to)
  BY <1>3, <1>12 DEF UpTo
<1>14. UpTo(checkpoint)' = UpTo(run[w].to)
  BY <1>3 DEF UpTo, ChainEvents
<1> QED BY <1>11, <1>13, <1>14

LEMMA ChainStays == ASSUME [Next]_vars PROVE chain' = chain
<1>1. ASSUME NEW w \in Slots, Start(w) \/ Step(w) \/ Fails(w) \/ Crashes(w)
      PROVE  chain' = chain
  BY <1>1 DEF chainVars, Start, Fails, Crashes, Throw, Step, AcquireLease, ReadState, ReadHead,
              LoadChunk, LoopEnds, WriteChunk, RecordSnapshot, VerifyArtifacts, Touch, Quiet,
              FinishRun, ReleaseLease
<1> QED BY <1>1 DEF Next, Mine, Tick, chainVars, vars

LEMMA NextOInv == ASSUME OInv, RunLimit <= Lease, [Next]_vars PROVE OInv'
<1>1. BInv' /\ checkpoint' >= checkpoint
  BY NextBInv DEF OInv
<1>2. DInv'
  BY NextDInv DEF OInv
<1>3. CASE rows' = rows /\ events' = events
  <2>1. chain' = chain
    BY ChainStays
  <2>2. Truthful(Tables)'
    BY <1>3 DEF OInv, Truthful, Tables
  <2>3. checkpoint \in Nat /\ checkpoint' \in Nat /\ \A e \in ChainEvents : e.block \in Nat
    BY <1>1, ChainFacts DEF OInv, BInv, DInv, BlockShape, ChainEvents
  <2>4. UpTo(checkpoint) \subseteq UpTo(checkpoint')
    BY <1>1, <2>3 DEF UpTo
  <2>5. UpTo(checkpoint)' = UpTo(checkpoint')
    BY <2>1 DEF UpTo, ChainEvents
  <2>6. events' \subseteq UpTo(checkpoint)'
    BY <1>3, <2>4, <2>5 DEF OInv
  <2> QED BY <1>1, <1>2, <2>2, <2>6 DEF OInv
<1>4. CASE \E w \in Slots : WriteChunk(w) /\ ~Throw(w)
  BY <1>1, <1>2, <1>4, BatchTruthful DEF OInv
<1> QED BY <1>3, <1>4, OnlyBatchesWrite DEF OInv

(* While no run outlives the lease, OInv is invariant. *)
THEOREM RowsInductive == ASSUME RunLimit <= Lease PROVE Spec => []OInv
<1>1. Init => OInv
  BY InitOInv
<1>2. OInv /\ [Next]_vars => OInv'
  BY NextOInv
<1> QED BY <1>1, <1>2, PTL DEF Spec

(* While no run outlives the lease, each task row is what the recorded     *)
(* events of the task amount to, whatever the explorer leaves out.         *)
THEOREM RowsFromEvents == ASSUME RunLimit <= Lease PROVE Spec => []RowsMatchEvents
<1>1. OInv => RowsMatchEvents
  BY DEF OInv, Truthful, Tables, RowsMatchEvents
<1> QED BY <1>1, RowsInductive, PTL

(* While no run outlives the lease and the explorer leaves nothing out,    *)
(* rows, events and checkpoint agree at every point of every run.          *)
THEOREM ExactProjection ==
    ASSUME RunLimit <= Lease, MayOmit = FALSE PROVE Spec => []ProjectionExact
<1>1. OInv => ProjectionExact
  <2> SUFFICES ASSUME OInv PROVE ProjectionExact
    OBVIOUS
  <2>1. events = UpTo(checkpoint)
    BY DEF OInv, DInv, Covered
  <2>2. \A t \in Tasks : rows[t] = TruthOf({e \in events : e.task = t})
    BY DEF OInv, Truthful, Tables
  <2>3. \A t \in Tasks : Happened(t, checkpoint) = {e \in events : e.task = t}
    BY <2>1 DEF Happened
  <2> QED BY <2>1, <2>2, <2>3 DEF ProjectionExact, TruthAt
<1> QED BY <1>1, RowsInductive, PTL

-----------------------------------------------------------------------------
(* What "healthy" is worth: the database shows the contract as of the      *)
(* newest final block that the indexer has heard of, in every table.       *)
HealthIsEarned ==
    Healthy => /\ snapshot = checkpoint /\ checkpoint = FinalBlock(headSeen)
               /\ events = UpTo(FinalBlock(headSeen))
               /\ \A t \in Tasks : rows[t] = TruthAt(t, FinalBlock(headSeen))

(* GET /v1/health compares four numbers that different statements wrote.   *)
(* While no run outlives the lease and the explorer leaves nothing out,    *)
(* its "healthy" means what docs/read-layer-architecture.md:67 says: rows, *)
(* events and protocol snapshot have all reached the finalized target of   *)
(* the head seen last, also after a crash between two statements.          *)
THEOREM HealthyIsTrue ==
    ASSUME RunLimit <= Lease, MayOmit = FALSE PROVE Spec => []HealthIsEarned
<1>1. OInv /\ ProjectionExact => HealthIsEarned
  <2> SUFFICES ASSUME OInv, ProjectionExact, Healthy PROVE HealthIsEarned
    BY DEF HealthIsEarned
  <2>1. /\ checkpoint \in Nat /\ finalized \in Nat
        /\ checkpoint <= finalized /\ finalized = FinalBlock(headSeen)
    BY DEF OInv, BInv, BlockShape, Ordered
  <2>2. snapshot = checkpoint /\ Larger(0, finalized - checkpoint) = 0
    BY DEF Healthy
  <2>3. checkpoint = FinalBlock(headSeen)
    BY <2>1, <2>2 DEF Larger
  <2> QED BY <2>2, <2>3 DEF HealthIsEarned, ProjectionExact
<1> QED BY <1>1, RowsInductive, ExactProjection, PTL

-----------------------------------------------------------------------------
(* The refinement: the timelines and statuses in the rows are those of     *)
(* the log up to the checkpoint.                                           *)

\* What a task row shows of an event that is recorded, and nothing else.
LEMMA RowsShowEvents ==
    ASSUME OInv PROVE Milestones = {<<e.task, e.name, e.block>> : e \in events}
<1>1. /\ Lawful(chain) /\ events \subseteq ChainEvents
      /\ \A e \in events : rows[e.task] # NoRow /\ rows[e.task].at[e.name] = e.block
  BY DEF OInv, DInv, Timed, Tables
<1>2. ASSUME NEW e \in events PROVE <<e.task, e.name, e.block>> \in Milestones
  <2>1. e \in Event /\ e.block # 0
    BY <1>1, ChainFacts, ConfigAssumption DEF ChainEvents
  <2>2. e.task \in Tasks /\ e.name \in EventName
    BY <2>1 DEF Event
  <2> QED BY <1>1, <2>1, <2>2 DEF Milestones
<1>3. ASSUME NEW t \in Tasks, NEW n \in EventName, rows[t] # NoRow, rows[t].at[n] # 0
      PROVE  \E e \in events : e.task = t /\ e.name = n /\ e.block = rows[t].at[n]
  <2>1. PICK es : es = {e \in events : e.task = t}
    OBVIOUS
  <2>2. rows[t] = TruthOf(es)
    BY <2>1 DEF OInv, Truthful, Tables
  <2>3. es # {}
    BY <1>3, <2>2 DEF TruthOf
  <2>4. rows[t].at = TimesOf(es)
    BY <2>2, <2>3, TruthParts
  <2>5. n \in NamesOf(es) /\ rows[t].at[n] = TheOne(es, n).block
    BY <1>3, <2>4 DEF TimesOf
  <2>6. TheOne(es, n) \in es /\ TheOne(es, n).name = n
    BY <2>5, Zenon DEF NamesOf, TheOne
  <2> QED BY <2>1, <2>5, <2>6
<1>4. ASSUME NEW m \in Milestones PROVE m \in {<<e.task, e.name, e.block>> : e \in events}
  <2>1. PICK t \in Tasks, n \in EventName :
            rows[t] # NoRow /\ rows[t].at[n] # 0 /\ m = <<t, n, rows[t].at[n]>>
    BY DEF Milestones
  <2> QED BY <1>3, <2>1
<1> QED BY <1>2, <1>4

LEMMA MilestonesTold ==
    ASSUME OInv, MayOmit = FALSE PROVE Milestones = Mirror!Told(checkpoint)
<1>1. events = UpTo(checkpoint)
  BY DEF OInv, DInv, Covered
<1>2. \A m : m \in Mirror!Told(checkpoint) <=>
                 \E e \in events : m = <<e.task, e.name, e.block>>
  BY <1>1 DEF Mirror!Told, UpTo, ChainEvents
<1> QED BY <1>2, RowsShowEvents

\* What the status says is which of its events the task has had.
LEMMA StatusIsMark ==
    ASSUME NEW names, NEW last \in names, names \subseteq EventName,
           \A n \in names : n = last \/ Before(n, last)
    PROVE  MarkOf(StatusOf(names)) = last
<1>1. last \in EventName /\ names \subseteq {last} \cup {n \in EventName : Before(n, last)}
  OBVIOUS
<1>2. CASE last = "TaskCancelled"
  <2>1. StatusOf(names) = "Cancelled"
    BY <1>2 DEF StatusOf
  <2> QED BY <1>2, <2>1 DEF MarkOf
<1>3. CASE last = "TaskCompleted"
  <2>1. "TaskCancelled" \notin names
    BY <1>1, <1>3 DEF Before
  <2>2. StatusOf(names) = "Completed"
    BY <1>3, <2>1 DEF StatusOf
  <2> QED BY <1>3, <2>2 DEF MarkOf
<1>4. CASE last = "WorkSubmitted"
  <2>1. "TaskCancelled" \notin names /\ "TaskCompleted" \notin names
    BY <1>1, <1>4 DEF Before
  <2>2. StatusOf(names) = "Submitted"
    BY <1>4, <2>1 DEF StatusOf
  <2> QED BY <1>4, <2>2 DEF MarkOf
<1>5. CASE last = "TaskAccepted"
  <2>1. /\ "TaskCancelled" \notin names /\ "TaskCompleted" \notin names
        /\ "WorkSubmitted" \notin names
    BY <1>1, <1>5 DEF Before
  <2>2. StatusOf(names) = "InProgress"
    BY <1>5, <2>1 DEF StatusOf
  <2> QED BY <1>5, <2>2 DEF MarkOf
<1>6. CASE last = "TaskCreated"
  <2>1. /\ "TaskCancelled" \notin names /\ "TaskCompleted" \notin names
        /\ "WorkSubmitted" \notin names /\ "TaskAccepted" \notin names
    BY <1>1, <1>6 DEF Before
  <2>2. StatusOf(names) = "Open"
    BY <2>1 DEF StatusOf
  <2> QED BY <1>6, <2>2 DEF MarkOf
<1> QED BY <1>1, <1>2, <1>3, <1>4, <1>5, <1>6 DEF EventName

\* A task's last event up to a block is there if it has any.
LEMMA LastThere ==
    ASSUME Lawful(chain), NEW t, NEW b, Mirror!Of(t, b) # {}
    PROVE  /\ Mirror!LastOf(t, b) \in Mirror!Of(t, b)
           /\ \A j \in Mirror!Of(t, b) : j <= Mirror!LastOf(t, b)
<1> DEFINE n == Len(chain)
           S == {k \in 0 .. n : n - k \in Mirror!Of(t, b)}
<1>1. n \in Nat /\ Mirror!Of(t, b) \subseteq 1 .. n
  BY ChainFacts DEF Mirror!Of
<1>2. S \subseteq Nat /\ S # {}
  <2>1. PICK i \in 1 .. n : i \in Mirror!Of(t, b)
    BY <1>1
  <2>2. n - i \in 0 .. n /\ n - (n - i) = i
    BY <1>1, <2>1
  <2>3. n - i \in S
    BY <2>1, <2>2
  <2>4. S \subseteq 0 .. n
    OBVIOUS
  <2> HIDE DEF S
  <2> QED BY <1>1, <2>3, <2>4
<1>3. PICK k \in S : \A l \in S : k <= l
  <2> HIDE DEF S
  <2> QED BY <1>2, LeastNumber
<1>4. ASSUME NEW j \in Mirror!Of(t, b) PROVE j <= n - k
  <2>1. j \in 1 .. n /\ n - j \in 0 .. n /\ n - (n - j) = j
    BY <1>1
  <2>2. n - j \in S
    BY <2>1
  <2>3. k <= n - j /\ k \in Nat
    BY <1>2, <1>3, <2>2
  <2> QED BY <1>1, <2>1, <2>3
<1>5. n - k \in Mirror!Of(t, b)
  BY <1>3
<1>6. \E i \in Mirror!Of(t, b) : \A j \in Mirror!Of(t, b) : j <= i
  BY <1>4, <1>5
<1> QED BY <1>6, Zenon DEF Mirror!LastOf

LEMMA StagesStand ==
    ASSUME OInv, MayOmit = FALSE PROVE Stages = Mirror!Standing(checkpoint)
<1>1. events = UpTo(checkpoint) /\ Lawful(chain)
  BY DEF OInv, DInv, Covered
<1>2. ASSUME NEW t \in Tasks
      PROVE  MarkOf(rows[t].status) =
                 IF Mirror!Of(t, checkpoint) = {} THEN "none"
                 ELSE chain[Mirror!LastOf(t, checkpoint)].name
  <2>1. PICK es, of : es = {e \in events : e.task = t} /\ of = Mirror!Of(t, checkpoint)
    OBVIOUS
  <2>2. rows[t] = TruthOf(es)
    BY <2>1 DEF OInv, Truthful, Tables
  <2>3. es = {chain[i] : i \in of} /\ of \subseteq DOMAIN chain
    BY <1>1, <2>1 DEF Mirror!Of, UpTo, ChainEvents
  <2>4. CASE of = {}
    <3>1. rows[t] = NoRow
      BY <2>2, <2>3, <2>4 DEF TruthOf
    <3>2. MarkOf("none") = "none"
      BY DEF MarkOf
    <3> QED BY <2>1, <2>4, <3>1, <3>2 DEF NoRow
  <2>5. CASE of # {}
    <3>1. PICK last : last = Mirror!LastOf(t, checkpoint)
      OBVIOUS
    <3>2. last \in of /\ \A j \in of : j <= last
      BY <1>1, <2>1, <2>5, <3>1, LastThere
    <3>3. \A j \in of : j \in Nat /\ chain[j] \in Event /\ chain[j].task = t
      BY <1>1, <2>1, <2>3, ChainFacts DEF Mirror!Of
    <3>4. ASSUME NEW n \in NamesOf(es)
          PROVE  n \in EventName /\ (n = chain[last].name \/ Before(n, chain[last].name))
      <4>1. PICK j \in of : chain[j].name = n
        BY <2>3 DEF NamesOf
      <4>2. n \in EventName
        BY <3>3, <4>1 DEF Event
      <4>3. j = last \/ j < last
        BY <3>2, <3>3, <4>1
      <4>4. j < last => Before(n, chain[last].name)
        BY <1>1, <2>3, <3>2, <3>3, <4>1, ChainFacts
      <4> QED BY <4>1, <4>2, <4>3, <4>4
    <3>5. chain[last].name \in NamesOf(es)
      BY <2>3, <3>2 DEF NamesOf
    <3>6. PICK names, name : names = NamesOf(es) /\ name = chain[last].name
      OBVIOUS
    <3>7. MarkOf(StatusOf(names)) = name
      BY <3>4, <3>5, <3>6, StatusIsMark
    <3>8. es # {}
      BY <2>3, <2>5
    <3>9. rows[t].status = StatusOf(names)
      BY <2>2, <3>6, <3>8, TruthParts
    <3> QED BY <2>1, <2>5, <3>1, <3>6, <3>7, <3>9
  <2> QED BY <2>4, <2>5
<1> QED BY <1>2 DEF Stages, Mirror!Standing

\* Only the chain moves its head.
LEMMA HeadGrows ==
    ASSUME [Next]_vars
    PROVE  head' = head \/ (head' = head + 1 /\ UNCHANGED <<chain, checkpoint, rows>>)
<1>1. ASSUME NEW w \in Slots, Start(w) \/ Step(w) \/ Fails(w) \/ Crashes(w)
      PROVE  head' = head
  BY <1>1 DEF chainVars, Start, Fails, Crashes, Throw, Step, AcquireLease, ReadState, ReadHead,
              LoadChunk, LoopEnds, WriteChunk, RecordSnapshot, VerifyArtifacts, Touch, Quiet,
              FinishRun, ReleaseLease
<1> QED BY <1>1 DEF Next, Mine, Tick, chainVars, syncState, tables, vars

LEMMA InitMirror == Init => Mirror!Init
<1> SUFFICES ASSUME Init PROVE Mirror!Init
  OBVIOUS
<1>1. \A t \in Tasks : rows[t] = NoRow
  BY DEF Init, NoRows
<1>2. Milestones = {}
  BY <1>1 DEF Milestones
<1>3. Stages = [t \in Tasks |-> "none"]
  <2>1. MarkOf("none") = "none"
    BY DEF MarkOf
  <2> QED BY <1>1, <2>1 DEF Stages, NoRow
<1> QED BY <1>2, <1>3, ConfigAssumption DEF Init, Mirror!Init

Begun == checkpoint >= StartBlock - 1

(* What the rows show is the log up to the checkpoint. *)
Mirrored ==
    /\ Milestones = Mirror!Told(checkpoint) /\ Stages = Mirror!Standing(checkpoint)
    /\ Begun

LEMMA AlwaysMirrored ==
    ASSUME RunLimit <= Lease, MayOmit = FALSE PROVE Spec => []Mirrored
<1>1. Init => Begun
  BY ConfigAssumption DEF Init, Begun
<1>2. BInv /\ BInv' /\ [Next]_vars /\ Begun => Begun'
  <2> SUFFICES ASSUME BInv, BInv', [Next]_vars, Begun PROVE Begun'
    OBVIOUS
  <2>1. checkpoint' >= checkpoint /\ checkpoint \in Nat /\ checkpoint' \in Nat
    BY NextBInv DEF BInv, BlockShape
  <2> QED BY <2>1, ConfigAssumption DEF Begun
<1>3. Spec => []Begun
  BY <1>1, <1>2, BlocksInductive, PTL DEF Spec
<1>4. OInv /\ Begun => Mirrored
  BY MilestonesTold, StagesStand DEF Mirrored
<1> QED BY <1>3, <1>4, RowsInductive, PTL

LEMMA NextMirror ==
    ASSUME OInv, OInv', Mirrored, Mirrored', RunLimit <= Lease, [Next]_vars
    PROVE  [Mirror!Next]_<<chain, head, checkpoint, Milestones, Stages>>
<1>1. Milestones = Mirror!Told(checkpoint) /\ Stages = Mirror!Standing(checkpoint)
  BY DEF Mirrored
<1>2. chain' = chain
  BY ChainStays
<1>3. Milestones' = Mirror!Told(checkpoint') /\ Stages' = Mirror!Standing(checkpoint')
  BY <1>2 DEF Mirrored, Mirror!Told, Mirror!Standing, Mirror!Of, Mirror!LastOf
<1>4. /\ checkpoint' >= checkpoint /\ checkpoint >= StartBlock - 1
      /\ checkpoint \in Nat /\ checkpoint' \in Nat /\ head \in Nat /\ head' \in Nat
  BY NextBInv DEF OInv, BInv, BlockShape, Mirrored, Begun
<1>5. CASE checkpoint' = checkpoint
  <2>1. Milestones' = Milestones /\ Stages' = Stages
    BY <1>1, <1>3, <1>5
  <2>2. CASE head' = head
    BY <1>2, <1>5, <2>1, <2>2
  <2>3. CASE head' = head + 1
    BY <1>2, <1>5, <2>1, <2>3 DEF Mirror!Next, Mirror!Grow
  <2> QED BY <2>2, <2>3, HeadGrows
<1>6. CASE checkpoint' # checkpoint
  <2>1. head' = head
    BY <1>6, HeadGrows
  <2>2. checkpoint' >= checkpoint + 1
    BY <1>4, <1>6
  <2>3. checkpoint' + Confirmations <= head'
    <3>1. checkpoint' >= StartBlock
      BY <1>4, <2>2, ConfigAssumption
    <3>2. /\ checkpoint' <= finalized' /\ finalized' = FinalBlock(headSeen')
          /\ headSeen' <= head' \/ headSeen' = StartBlock - 1
          /\ headSeen' \in Nat
      BY DEF OInv, BInv, Ordered, BlockShape, FinalBlock, Larger
    <3>3. PICK s \in Nat, c \in Nat : s = StartBlock /\ c = Confirmations
      BY ConfigAssumption
    <3>4. PICK h \in Nat, n \in Nat, p \in Nat : h = head' /\ n = headSeen' /\ p = checkpoint'
      BY <1>4, <3>2
    <3>5. finalized' = IF s - 1 > n - c THEN s - 1 ELSE n - c
      BY <3>2, <3>3, <3>4 DEF FinalBlock, Larger
    <3>6. p >= s /\ p <= finalized' /\ (n <= h \/ n = s - 1)
      BY <3>1, <3>2, <3>3, <3>4
    <3>7. p + c <= h
      BY <3>5, <3>6
    <3> QED BY <3>3, <3>4, <3>7
  <2>4. checkpoint' \in checkpoint + 1 .. head - Confirmations
    <3>1. PICK c \in Nat, h \in Nat, p \in Nat, q \in Nat :
              c = Confirmations /\ h = head /\ p = checkpoint /\ q = checkpoint'
      BY <1>4, ConfigAssumption
    <3>2. q >= p + 1 /\ q + c <= h
      BY <2>1, <2>2, <2>3, <3>1
    <3>3. q \in p + 1 .. h - c
      BY <3>2
    <3> QED BY <3>1, <3>3
  <2> QED BY <1>2, <1>3, <2>1, <2>4 DEF Mirror!Next, Mirror!Follow
<1> QED BY <1>5, <1>6

\* While no run outlives the lease and the explorer leaves nothing out, the
\* indexer implements MirrorPromise: the timelines and statuses a reader finds
\* are at every moment those of the contract's log up to the checkpoint, and all move
\* together, forward, and over final blocks only.
THEOREM MirrorKept ==
    ASSUME RunLimit <= Lease, MayOmit = FALSE PROVE Spec => KeepsMirror
<1>1. Init => Mirror!Init
  BY InitMirror
<1>2. /\ OInv /\ OInv' /\ Mirrored /\ Mirrored' /\ [Next]_vars
      => [Mirror!Next]_<<chain, head, checkpoint, Milestones, Stages>>
  BY NextMirror
<1> QED BY <1>1, <1>2, RowsInductive, AlwaysMirrored, PTL
       DEF Spec, KeepsMirror, Mirror!Spec

-----------------------------------------------------------------------------
(***************************************************************************)
(* The read API                                                            *)
(***************************************************************************)

\* To the indexer a request is nothing: every step of the API is one of its steps or none.
LEMMA ApiSteps == [ApiNext]_apiVars => [Next]_vars
<1> SUFFICES ASSUME [ApiNext]_apiVars PROVE [Next]_vars
  OBVIOUS
<1>1. CASE IndexerStep
  BY <1>1 DEF IndexerStep
<1>2. CASE Protocol \/ FirstPage \/ NextPage \/ TaskDetail
  BY <1>2 DEF Protocol, FirstPage, NextPage, TaskDetail
<1>3. CASE UNCHANGED apiVars
  BY <1>3 DEF apiVars
<1> QED BY <1>1, <1>2, <1>3 DEF ApiNext

(* What holds of the indexer holds of it behind the API. *)
THEOREM ApiIndexes == ApiSpec => Spec
<1>1. ApiInit => Init
  BY DEF ApiInit
<1> QED BY <1>1, ApiSteps, PTL DEF ApiSpec, Spec

-----------------------------------------------------------------------------
(* GET /v1/tasks/:id: the row it read first stays proven by the events,    *)
(* which are only ever added.                                              *)

LEMMA EventsStay == ASSUME DInv, [Next]_vars PROVE events \subseteq events'
<1>1. ASSUME NEW w \in Slots, WriteChunk(w), ~Throw(w) PROVE events \subseteq events'
  <2>1. PICK after : after = ApplyAll(Tables, run[w].loaded)
    OBVIOUS
  <2>2. run[w].pc = "write" /\ after.ok /\ events' = after.events
    BY <1>1, <2>1 DEF WriteChunk, Tables
  <2>3. PICK P : after.events = events \cup {chain[i] : i \in P}
    BY <2>1, <2>2, BatchTables
  <2> QED BY <2>2, <2>3
<1> QED BY <1>1, OnlyBatchesWrite

\* Each step of the task that the row shows, and its worker, has its event in es.
Proven(row, es) ==
    \A n \in EventName : row.timeline[n] # 0 =>
        \E e \in es : /\ e.name = n /\ e.block = row.timeline[n]
                      /\ n = "TaskAccepted" => e.who = row.worker

DetailShape ==
    detail = [pc |-> detail.pc, task |-> detail.task, row |-> detail.row,
              events |-> detail.events]

DetailInv ==
    /\ DetailShape
    /\ detail.pc = "row" => Proven(detail.row, EventsOf(detail.task))
    /\ detail.pc = "answered" => Proven(detail.row, detail.events)

LEMMA ProvenMore ==
    ASSUME NEW row, NEW es, NEW more, Proven(row, es), es \subseteq more PROVE Proven(row, more)
BY DEF Proven

LEMMA RowProven ==
    ASSUME OInv, NEW t \in Tasks, rows[t] # NoRow PROVE Proven(TaskFromRow(t), EventsOf(t))
<1>1. PICK es : es = EventsOf(t)
  OBVIOUS
<1>2. rows[t] = TruthOf(es)
  BY <1>1 DEF OInv, Truthful, Tables, EventsOf
<1>3. es # {}
  BY <1>2 DEF TruthOf
<1>4. /\ rows[t].worker = WorkerOf(es)
      /\ rows[t].at = TimesOf(es)
  BY <1>2, <1>3, TruthParts
<1>5. ASSUME NEW n \in EventName, TaskFromRow(t).timeline[n] # 0
      PROVE  \E e \in es : /\ e.name = n /\ e.block = TaskFromRow(t).timeline[n]
                           /\ n = "TaskAccepted" => e.who = TaskFromRow(t).worker
  <2>1. TaskFromRow(t).timeline[n] = TimesOf(es)[n] /\ TaskFromRow(t).worker = WorkerOf(es)
    BY <1>4 DEF TaskFromRow
  <2>2. n \in NamesOf(es) /\ TimesOf(es)[n] = TheOne(es, n).block
    BY <1>5, <2>1 DEF TimesOf
  <2>3. TheOne(es, n) \in es /\ TheOne(es, n).name = n
    BY <2>2 DEF TheOne, NamesOf
  <2>4. n = "TaskAccepted" => WorkerOf(es) = TheOne(es, n).who
    BY <2>2 DEF WorkerOf
  <2> QED BY <2>1, <2>2, <2>3, <2>4
<1> QED BY <1>1, <1>5 DEF Proven

LEMMA NextDetailInv ==
    ASSUME OInv, DetailInv, [ApiNext]_apiVars PROVE DetailInv'
<1>1. [Next]_vars
  BY ApiSteps
<1>2. CASE detail' = detail
  <2>1. events \subseteq events'
    BY <1>1, EventsStay DEF OInv
  <2>2. PICK more : more = {e \in events' : e.task = detail.task}
    OBVIOUS
  <2>3. EventsOf(detail.task) \subseteq more
    BY <2>1, <2>2 DEF EventsOf
  <2>4. EventsOf(detail.task)' = more
    BY <1>2, <2>2 DEF EventsOf
  <2>5. detail.pc = "row" => Proven(detail.row, more)
    BY <2>3, ProvenMore DEF DetailInv
  <2>6. DetailShape'
    BY <1>2 DEF DetailInv, DetailShape
  <2>7. (Proven(detail.row, EventsOf(detail.task)))' = Proven(detail.row, more)
    BY <1>2, <2>4 DEF Proven
  <2>8. (Proven(detail.row, detail.events))' = Proven(detail.row, detail.events)
    BY <1>2 DEF Proven
  <2> QED BY <1>2, <2>5, <2>6, <2>7, <2>8 DEF DetailInv
<1>3. CASE TaskDetail
  <2>1. rows' = rows /\ events' = events
    BY <1>3 DEF TaskDetail, vars
  <2>2. ASSUME NEW t \in Tasks,
               detail' = IF rows[t] = NoRow
                         THEN [NoDetail EXCEPT !.pc = "missing", !.task = t]
                         ELSE [NoDetail EXCEPT !.pc = "row", !.task = t, !.row = TaskFromRow(t)]
        PROVE  DetailInv'
    <3>1. CASE rows[t] = NoRow
      <4>1. detail' = [pc |-> "missing", task |-> t, row |-> NoRow, events |-> {}]
        BY <2>2, <3>1 DEF NoDetail
      <4> QED BY <4>1 DEF DetailInv, DetailShape
    <3>2. CASE rows[t] # NoRow
      <4>1. PICK row : row = TaskFromRow(t)
        OBVIOUS
      <4>2. detail' = [pc |-> "row", task |-> t, row |-> row, events |-> {}]
        BY <2>2, <3>2, <4>1 DEF NoDetail
      <4>3. Proven(row, EventsOf(t))
        BY <3>2, <4>1, RowProven
      <4>4. EventsOf(detail.task)' = EventsOf(t)
        BY <2>1, <4>2 DEF EventsOf
      <4> QED BY <4>2, <4>3, <4>4 DEF DetailInv, DetailShape, Proven
    <3> QED BY <3>1, <3>2
  <2>3. ASSUME detail.pc = "row",
               detail' = [detail EXCEPT !.pc = "answered", !.events = EventsOf(detail.task)]
        PROVE  DetailInv'
    <3>1. PICK es : es = EventsOf(detail.task)
      OBVIOUS
    <3>2. detail' = [pc |-> "answered", task |-> detail.task, row |-> detail.row, events |-> es]
      BY <2>3, <3>1 DEF DetailInv, DetailShape
    <3>3. Proven(detail.row, es)
      BY <2>3, <3>1 DEF DetailInv
    <3> QED BY <3>2, <3>3 DEF DetailInv, DetailShape, Proven
  <2> QED BY <1>3, <2>2, <2>3 DEF TaskDetail
<1>4. detail' = detail \/ TaskDetail
  BY DEF ApiNext, IndexerStep, Protocol, FirstPage, NextPage, apiVars, client
<1> QED BY <1>2, <1>3, <1>4

(* While no run outlives the lease, an answer of GET /v1/tasks/:id shows   *)
(* no step of a task without the event that proves it, although the row    *)
(* and the events are two queries and the indexer works on between them.   *)
THEOREM DetailsProven == ASSUME RunLimit <= Lease PROVE ApiSpec => []DetailIsProven
<1>1. ApiInit => DetailInv
  BY DEF ApiInit, NoDetail, DetailInv, DetailShape
<1>2. DetailInv => DetailIsProven
  BY DEF DetailInv, DetailIsProven, Proven
<1>3. ApiSpec => []OInv
  BY ApiIndexes, RowsInductive, PTL
<1> QED BY <1>1, <1>2, <1>3, NextDetailInv, PTL DEF ApiSpec

-----------------------------------------------------------------------------
(* GET /v1/protocol and GET /v1/tasks: what latestTaskId counts has been   *)
(* created by the checkpoint, because the snapshot it is taken from is     *)
(* never ahead of it, and ids are handed out in turn.                      *)

(* The tasks created by block b are 1, 2, ... up to their number. *)
LEMMA CreatedInTurn ==
    ASSUME Lawful(chain), chain \in Chains, NEW b \in Nat, NEW t \in 1 .. NextTaskIdAt(b) - 1
    PROVE  \E e \in UpTo(b) : e.name = "TaskCreated" /\ e.task = t
<1> DEFINE created(i) == {j \in 1 .. i : chain[j].name = "TaskCreated"}
           P == {i \in DOMAIN chain : chain[i].name = "TaskCreated" /\ chain[i].block <= b}
           E == {e \in UpTo(b) : e.name = "TaskCreated"}
           f == [i \in P |-> chain[i].task]
           g == [i \in P |-> chain[i]]
<1>1. Len(chain) \in Nat /\ DOMAIN chain = 1 .. Len(chain)
  BY ChainFacts
<1>2. IsFiniteSet(P) /\ Cardinality(P) \in Nat
  <2>1. IsFiniteSet(1 .. Len(chain))
    BY <1>1, FS_Interval, 1 \in Int, Len(chain) \in Int
  <2>2. P \subseteq 1 .. Len(chain)
    BY <1>1
  <2> QED BY <2>1, <2>2, FS_Subset, FS_CardinalityType
<1>3. Cardinality(E) <= Cardinality(P) /\ Cardinality(E) \in Nat
  <2>1. g \in Surjection(P, E)
    <3>1. g \in [P -> E]
      BY DEF UpTo, ChainEvents
    <3>2. \A e \in E : \E i \in P : g[i] = e
      BY DEF UpTo, ChainEvents
    <3> QED BY <3>1, <3>2 DEF Surjection
  <2> HIDE DEF g, P, E
  <2> QED BY <1>2, <2>1, FS_Surjection, FS_CardinalityType
<1>4. ASSUME NEW i \in P PROVE chain[i].task \in 1 .. Cardinality(P)
  <2>1. i \in 1 .. Len(chain) /\ chain[i].name = "TaskCreated" /\ chain[i].block <= b
    BY <1>1
  <2>2. chain[i].task = Cardinality(created(i))
    BY <1>1, <2>1, IdAssumption
  <2>3. created(i) \subseteq P
    <3> SUFFICES ASSUME NEW j \in 1 .. i, chain[j].name = "TaskCreated" PROVE j \in P
      OBVIOUS
    <3>1. j \in DOMAIN chain /\ (j < i \/ j = i)
      BY <1>1, <2>1
    <3>2. chain[j].block <= chain[i].block
      BY <1>1, <2>1, <3>1, ChainFacts
    <3>3. chain[j].block <= b
      BY <1>1, <2>1, <3>1, <3>2, ChainFacts
    <3> QED BY <3>1, <3>3
  <2>4. i \in created(i)
    BY <2>1
  <2> HIDE DEF created, P
  <2>5. IsFiniteSet(created(i)) /\ Cardinality(created(i)) <= Cardinality(P)
    BY <1>2, <2>3, FS_Subset
  <2>6. Cardinality(created(i)) \in Nat /\ Cardinality(created(i)) # 0
    BY <2>4, <2>5, FS_CardinalityType, FS_EmptySet
  <2> QED BY <1>2, <2>2, <2>5, <2>6
<1>5. f \in Injection(P, 1 .. Cardinality(P))
  <2>1. f \in [P -> 1 .. Cardinality(P)]
    BY <1>4
  <2>2. ASSUME NEW i \in P, NEW j \in P, f[i] = f[j] PROVE i = j
    <3>1. i \in 1 .. Len(chain) /\ j \in 1 .. Len(chain)
      BY <1>1
    <3>2. chain[i].task = chain[j].task /\ chain[i].name = "TaskCreated"
          /\ chain[j].name = "TaskCreated"
      BY <2>2
    <3>3. ~Before("TaskCreated", "TaskCreated")
      BY DEF Before
    <3>4. i < j \/ j < i \/ i = j
      BY <1>1, <3>1
    <3> QED BY <1>1, <3>1, <3>2, <3>3, <3>4, ChainFacts
  <2> QED BY <2>1, <2>2 DEF Injection, IsInjective
<1>6. f \in Surjection(P, 1 .. Cardinality(P))
  <2>1. IsFiniteSet(1 .. Cardinality(P)) /\ Cardinality(1 .. Cardinality(P)) = Cardinality(P)
    BY <1>2, FS_Interval
  <2> HIDE DEF f, P
  <2> QED BY <1>5, <2>1, FS_Injection
<1>7. t \in 1 .. Cardinality(P)
  <2>1. NextTaskIdAt(b) = 1 + Cardinality(E)
    BY DEF NextTaskIdAt
  <2> HIDE DEF E, P
  <2> QED BY <1>2, <1>3, <2>1
<1>8. PICK i \in P : chain[i].task = t
  BY <1>6, <1>7 DEF Surjection
<1> QED BY <1>8 DEF UpTo, ChainEvents

KnownInv ==
    /\ chain \in Chains /\ Lawful(chain)
    /\ snapshot \in Nat /\ snapshot <= checkpoint
    /\ \A t \in 1 .. known : \E e \in UpTo(checkpoint) : e.name = "TaskCreated" /\ e.task = t

LEMMA SnapshotTaken ==
    ASSUME BInv, [Next]_vars
    PROVE  snapshot' = snapshot \/ snapshot' = checkpoint
<1>1. ASSUME NEW w \in Slots, RecordSnapshot(w) PROVE snapshot' = checkpoint
  BY <1>1 DEF RecordSnapshot, BInv, RunsRemember, Past
<1>2. ASSUME NEW w \in Slots, Start(w) \/ Step(w) \/ Fails(w) \/ Crashes(w),
             ~RecordSnapshot(w)
      PROVE  snapshot' = snapshot
  BY <1>2 DEF Start, Fails, Crashes, Throw, Step, AcquireLease, ReadState, ReadHead,
              LoadChunk, LoopEnds, WriteChunk, VerifyArtifacts, Touch, Quiet,
              FinishRun, ReleaseLease
<1> QED BY <1>1, <1>2 DEF Next, Mine, Tick, vars

LEMMA NextKnownInv ==
    ASSUME BInv, KnownInv, RunLimit <= Lease, [ApiNext]_apiVars PROVE KnownInv'
<1>1. [Next]_vars
  BY ApiSteps
<1>2. checkpoint \in Nat /\ checkpoint' \in Nat /\ checkpoint' >= checkpoint
  BY <1>1, NextBInv DEF BInv, BlockShape
<1>3. chain' = chain
  BY <1>1, ChainStays
<1>4. chain' \in Chains /\ Lawful(chain)'
  BY <1>3, SameLog DEF KnownInv
<1>5. snapshot' \in Nat /\ snapshot' <= checkpoint'
  BY <1>1, <1>2, SnapshotTaken DEF KnownInv
<1>6. UpTo(checkpoint)' = UpTo(checkpoint')
  BY <1>3 DEF UpTo, ChainEvents
<1>7. \A e \in ChainEvents : e.block \in Nat
  BY ChainFacts DEF ChainEvents, KnownInv
<1>8. UpTo(checkpoint) \subseteq UpTo(checkpoint')
  BY <1>2, <1>7 DEF UpTo
<1>9. CASE known' = known
  BY <1>4, <1>5, <1>6, <1>8, <1>9 DEF KnownInv
<1>10. CASE Protocol
  <2>1. known' = NextTaskIdAt(snapshot) - 1
    BY <1>10 DEF Protocol
  <2>2. UpTo(snapshot) \subseteq UpTo(checkpoint)
    BY <1>2, <1>7 DEF UpTo, KnownInv
  <2>3. \A t \in 1 .. known' :
            \E e \in UpTo(snapshot) : e.name = "TaskCreated" /\ e.task = t
    BY <2>1, CreatedInTurn DEF KnownInv
  <2> QED BY <1>4, <1>5, <1>6, <1>8, <2>2, <2>3 DEF KnownInv
<1>11. known' = known \/ Protocol
  BY DEF ApiNext, IndexerStep, FirstPage, NextPage, TaskDetail, apiVars, client
<1> QED BY <1>9, <1>10, <1>11

LEMMA InitKnownInv == ApiInit => KnownInv
<1> SUFFICES ASSUME ApiInit PROVE KnownInv
  OBVIOUS
<1>1. chain \in Chains /\ snapshot = StartBlock - 1 /\ checkpoint = StartBlock - 1 /\ known = 0
  BY DEF ApiInit, Init
<1>2. 1 .. known = {}
  BY <1>1
<1> QED BY <1>1, <1>2, ChainAssumption, ConfigAssumption DEF KnownInv

(* While no run outlives the lease, every task that latestTaskId counts    *)
(* has its row, unless the explorer has left out an event of it.           *)
THEOREM CountedHaveRows == ASSUME RunLimit <= Lease PROVE ApiSpec => []CountedIsListed
<1>1. OInv /\ KnownInv => CountedIsListed
  <2> SUFFICES ASSUME OInv, KnownInv, NEW t \in 1 .. known, rows[t] = NoRow
               PROVE  \E e \in UpTo(checkpoint) \ events : e.task = t
    BY DEF CountedIsListed
  <2>1. PICK e \in UpTo(checkpoint) : e.name = "TaskCreated" /\ e.task = t
    BY DEF KnownInv
  <2>2. t \in Tasks
    BY <2>1, ChainFacts DEF KnownInv, UpTo, ChainEvents, Event
  <2>3. PICK es : es = {x \in events : x.task = t}
    OBVIOUS
  <2>4. TruthOf(es) = NoRow
    BY <2>2, <2>3 DEF OInv, Truthful, Tables
  <2>5. es # {} => TruthOf(es).status = StatusOf(NamesOf(es))
    BY TruthParts
  <2>6. TruthOf(es).status = "none"
    BY <2>4 DEF NoRow
  <2>7. es = {}
    BY <2>5, <2>6 DEF StatusOf
  <2> QED BY <2>1, <2>3, <2>7
<1>2. ApiSpec => []OInv
  BY ApiIndexes, RowsInductive, PTL
<1>3. OInv => BInv
  BY DEF OInv
<1>4. BInv /\ KnownInv /\ [ApiNext]_apiVars => KnownInv'
  BY NextKnownInv
<1> QED BY <1>1, <1>2, <1>3, <1>4, InitKnownInv, PTL DEF ApiSpec

-----------------------------------------------------------------------------
(* GET /v1/tasks: a walk through the pages                                 *)

(* g counts ids down: its n first values are all of them, by decreasing id. *)
CountsDown(g, n, ids) ==
    /\ n \in Nat
    /\ \A k \in 1 .. n : g[k] \in ids
    /\ \A j, k \in 1 .. n : j < k => g[j] > g[k]
    /\ \A t \in ids : \E k \in 1 .. n : g[k] = t

(* ORDER BY task_id DESC. *)
LEMMA Downwards ==
    ASSUME NEW ids, ids \subseteq Nat, IsFiniteSet(ids)
    PROVE  \E n, g : CountsDown(g, n, ids) /\ Descending(ids) = [k \in 1 .. n |-> g[k]]
<1> DEFINE from(t) == {s \in ids : s >= t}
           n == Cardinality(ids)
           r == [t \in ids |-> Cardinality(from(t))]
           g == [k \in 1 .. n |-> CHOOSE t \in ids : Cardinality(from(t)) = k]
<1>1. n \in Nat
  BY FS_CardinalityType
<1>2. ASSUME NEW t \in ids PROVE IsFiniteSet(from(t)) /\ r[t] \in 1 .. n
  <2>1. from(t) \subseteq ids /\ t \in from(t)
    OBVIOUS
  <2>2. IsFiniteSet(from(t)) /\ Cardinality(from(t)) <= n /\ Cardinality(from(t)) \in Nat
    BY <2>1, FS_Subset, FS_CardinalityType
  <2>3. Cardinality(from(t)) # 0
    BY <2>1, <2>2, FS_EmptySet
  <2> QED BY <1>1, <2>2, <2>3
<1>3. ASSUME NEW s \in ids, NEW t \in ids, s < t PROVE r[t] < r[s]
  <2>1. s \in Nat /\ t \in Nat /\ \A x \in ids : x \in Nat
    OBVIOUS
  <2>2. \A x \in ids : x >= t => x >= s
    BY <1>3, <2>1
  <2>3. from(t) \subseteq from(s) /\ s \in from(s) /\ s \notin from(t)
    <3>1. s >= s /\ ~(s >= t)
      BY <1>3, <2>1
    <3> QED BY <2>2, <3>1
  <2>4. Cardinality(from(t)) < Cardinality(from(s))
    <3>1. /\ Cardinality(from(t)) <= Cardinality(from(s))
          /\ Cardinality(from(t)) # Cardinality(from(s))
      BY <1>2, <2>3, FS_Subset
    <3>2. Cardinality(from(t)) \in Nat /\ Cardinality(from(s)) \in Nat
      BY <1>2, FS_CardinalityType
    <3> QED BY <3>1, <3>2
  <2> QED BY <2>4
<1>4. \A s, t \in ids : s = t \/ s < t \/ t < s
  OBVIOUS
<1>5. \A t \in ids : r[t] \in 1 .. n
  BY <1>2
<1>6. \A s, t \in ids : s < t => r[t] < r[s]
  BY <1>3
<1>7. r \in Injection(ids, 1 .. n)
  <2>1. r \in [ids -> 1 .. n]
    BY <1>5
  <2> HIDE DEF r, n
  <2>2. \A s, t \in ids : r[s] = r[t] => s = t
    BY <1>1, <1>4, <1>5, <1>6
  <2> QED BY <2>1, <2>2 DEF Injection, IsInjective
<1>8. r \in Surjection(ids, 1 .. n)
  <2>1. IsFiniteSet(1 .. n) /\ Cardinality(1 .. n) = n
    BY <1>1, FS_Interval
  <2> QED BY <1>7, <2>1, FS_Injection
<1>9. \A k \in 1 .. n : g[k] \in ids /\ r[g[k]] = k
  <2> SUFFICES ASSUME NEW k \in 1 .. n PROVE g[k] \in ids /\ r[g[k]] = k
    OBVIOUS
  <2>1. \E t \in ids : r[t] = k
    <3> HIDE DEF r, n
    <3> QED BY <1>8, Zenon DEF Surjection
  <2>2. PICK x : x = CHOOSE t \in ids : Cardinality(from(t)) = k
    OBVIOUS
  <2>3. x \in ids /\ Cardinality(from(x)) = k
    <3> HIDE DEF from
    <3>1. \E t \in ids : Cardinality(from(t)) = k
      BY <2>1
    <3> QED BY <2>2, <3>1, Zenon
  <2>4. g[k] = x
    BY <2>2
  <2>5. r[x] = Cardinality(from(x))
    BY <2>3
  <2> QED BY <2>3, <2>4, <2>5
<1>10. Descending(ids) = [k \in 1 .. n |-> g[k]]
  BY DEF Descending
<1> HIDE DEF g, r, n
<1>11. ASSUME NEW j \in 1 .. n, NEW k \in 1 .. n, j < k PROVE g[j] > g[k]
  <2>1. g[j] \in Nat /\ g[k] \in Nat
    BY <1>9
  <2>2. g[j] # g[k]
    BY <1>1, <1>9, <1>11
  <2>3. ~(g[j] < g[k])
    <3>1. g[j] < g[k] => k < j
      BY <1>6, <1>9
    <3> QED BY <1>1, <1>11, <3>1
  <2> QED BY <2>1, <2>2, <2>3
<1>12. ASSUME NEW t \in ids PROVE \E k \in 1 .. n : g[k] = t
  <2>1. r[t] \in 1 .. n
    BY <1>5
  <2>2. g[r[t]] \in ids /\ r[g[r[t]]] = r[t]
    BY <1>9, <2>1
  <2>3. g[r[t]] = t
    BY <1>7, <2>2 DEF Injection, IsInjective
  <2> QED BY <2>1, <2>3
<1>13. CountsDown(g, n, ids)
  BY <1>1, <1>9, <1>11, <1>12 DEF CountsDown
<1> QED BY <1>10, <1>13

(* A page holds the newest of what is selected: all of it, or the limit,   *)
(* with the last id as nextCursor.                                         *)
IsPage(page, f, cursor, n, m, g) ==
    /\ CountsDown(g, n, Selected(f, cursor))
    /\ m \in 0 .. n
    /\ page.items = [k \in 1 .. m |-> g[k]]
    /\ \/ page.next = <<>> /\ m = n
       \/ page.next = <<g[m]>> /\ m >= 1

LEMMA PageIs ==
    ASSUME NEW f, NEW cursor, NEW limit \in Nat \ {0}
    PROVE  \E n, m, g : IsPage(Page(f, cursor, limit), f, cursor, n, m, g)
<1>1. PICK ids : ids = Selected(f, cursor)
  OBVIOUS
<1>2. ids \subseteq Tasks
  BY <1>1 DEF Selected
<1>3. ids \subseteq Nat /\ IsFiniteSet(ids)
  BY <1>2, RequestAssumption, FS_Subset
<1>4. PICK n, g : CountsDown(g, n, ids) /\ Descending(ids) = [k \in 1 .. n |-> g[k]]
  BY <1>3, Downwards
<1>5. PICK found : found = Descending(ids)
  OBVIOUS
<1>6. found = [k \in 1 .. n |-> g[k]] /\ found \in Seq(ids) /\ Len(found) = n
         /\ n \in Nat
  BY <1>4, <1>5 DEF CountsDown
<1>7. ASSUME NEW m \in 0 .. n PROVE SubSeq(found, 1, m) = [k \in 1 .. m |-> g[k]]
  BY <1>6
<1>8. Page(f, cursor, limit) =
          [items |-> SubSeq(found, 1, IF n > limit THEN limit ELSE n),
           next  |-> IF n > limit THEN <<found[limit]>> ELSE <<>>]
  BY <1>1, <1>5, <1>6 DEF Page
<1>9. CASE n > limit
  <2>1. limit \in 0 .. n /\ limit \in 1 .. n /\ limit \in Nat
    BY <1>6, <1>9
  <2>2. SubSeq(found, 1, limit) = [k \in 1 .. limit |-> g[k]] /\ found[limit] = g[limit]
    BY <1>6, <1>7, <2>1
  <2>3. /\ Page(f, cursor, limit).items = [k \in 1 .. limit |-> g[k]]
        /\ Page(f, cursor, limit).next = <<g[limit]>>
    BY <1>8, <1>9, <2>2
  <2>4. limit >= 1
    BY <1>9
  <2>5. IsPage(Page(f, cursor, limit), f, cursor, n, limit, g)
    BY <1>1, <1>4, <2>1, <2>3, <2>4 DEF IsPage
  <2> QED BY <2>5
<1>10. CASE ~(n > limit)
  <2>1. SubSeq(found, 1, n) = [k \in 1 .. n |-> g[k]]
    BY <1>6, <1>7
  <2>2. /\ Page(f, cursor, limit).items = [k \in 1 .. n |-> g[k]]
        /\ Page(f, cursor, limit).next = <<>>
    BY <1>8, <1>10, <2>1
  <2>3. n \in 0 .. n
    BY <1>6
  <2>4. IsPage(Page(f, cursor, limit), f, cursor, n, n, g)
    BY <1>1, <1>4, <2>2, <2>3 DEF IsPage
  <2> QED BY <2>4
<1> QED BY <1>9, <1>10

Falling(s) == \A i, j \in DOMAIN s : i < j => s[i] > s[j]

(* No more is listed than there are tasks, so all of it is remembered. *)
LEMMA AllRemembered ==
    ASSUME NEW s \in Seq(Tasks), Falling(s) PROVE Remembered(s) = s
<1>1. Len(s) \in Nat /\ DOMAIN s = 1 .. Len(s) /\ \A i \in 1 .. Len(s) : s[i] \in Nat
  <2>1. Len(s) \in Nat /\ DOMAIN s = 1 .. Len(s) /\ \A i \in 1 .. Len(s) : s[i] \in Tasks
    OBVIOUS
  <2> QED BY <2>1, RequestAssumption
<1>2. s \in Injection(1 .. Len(s), Tasks)
  <2>1. s \in [1 .. Len(s) -> Tasks]
    OBVIOUS
  <2>2. ASSUME NEW i \in 1 .. Len(s), NEW j \in 1 .. Len(s), s[i] = s[j] PROVE i = j
    <3>1. ~(i < j) /\ ~(j < i)
      BY <1>1, <2>2 DEF Falling
    <3> QED BY <3>1
  <2> QED BY <2>1, <2>2 DEF Injection, IsInjective
<1>3. Cardinality(1 .. Len(s)) <= Cardinality(Tasks) /\ Cardinality(Tasks) \in Nat
  BY <1>2, RequestAssumption, FS_Injection, FS_CardinalityType
<1>4. Cardinality(1 .. Len(s)) = Len(s)
  BY <1>1, FS_Interval
<1>5. Smaller(Len(s), 1 + Cardinality(Tasks)) = Len(s)
  BY <1>1, <1>3, <1>4 DEF Smaller
<1> QED BY <1>5 DEF Remembered

Listed(t, s) == \E i \in DOMAIN s : s[i] = t

(* A walk that is ready to ask for its next page: what it has listed lies  *)
(* at or above the cursor, and what it has kept is listed or still below.  *)
Ready(w) ==
    /\ w = [pc |-> w.pc, filter |-> w.filter, limit |-> w.limit, cursor |-> w.cursor,
            listed |-> w.listed, kept |-> w.kept]
    /\ w.limit \in Nat \ {0}
    /\ w.listed \in Seq(Tasks) /\ Falling(w.listed)
    /\ w.cursor = <<>> => w.listed = <<>>
    /\ w.cursor # <<>> => /\ w.cursor[1] \in Nat
                          /\ \A i \in DOMAIN w.listed : w.listed[i] >= w.cursor[1]
    /\ w.kept \subseteq Tasks
    /\ \A t \in w.kept : Matches(t, w.filter, rows, events)
    /\ w.cursor # <<>> => \A t \in w.kept : t < w.cursor[1] \/ Listed(t, w.listed)

(* A walk after a page: to be continued, or complete. *)
Going(w) ==
    /\ w = [pc |-> w.pc, filter |-> w.filter, limit |-> w.limit, cursor |-> w.cursor,
            listed |-> w.listed, kept |-> w.kept]
    /\ Falling(w.listed)
    /\ w.kept \subseteq Tasks
    /\ w.pc = "walking" => Ready(w)
    /\ w.pc = "done" => \A t \in w.kept : Listed(t, w.listed)

LEMMA WalkedParts ==
    ASSUME NEW w, Ready(w), NEW page, page = Page(w.filter, w.cursor, w.limit)
    PROVE  Walked(w) = [pc |-> IF page.next = <<>> THEN "done" ELSE "walking",
                        filter |-> w.filter, limit |-> w.limit, cursor |-> page.next,
                        listed |-> Remembered(w.listed \o page.items), kept |-> w.kept]
<1>1. PICK pc, filter, limit, cursor, listed, kept :
          w = [pc |-> pc, filter |-> filter, limit |-> limit, cursor |-> cursor,
               listed |-> listed, kept |-> kept]
  BY DEF Ready
<1>2. PICK more : more = Remembered(listed \o page.items)
  OBVIOUS
<1>3. PICK next : next = page.next
  OBVIOUS
<1>4. PICK label : label = IF page.next = <<>> THEN "done" ELSE "walking"
  OBVIOUS
<1>5. w.filter = filter /\ w.limit = limit /\ w.cursor = cursor /\ w.listed = listed
      /\ w.kept = kept
  BY <1>1
<1>6. Walked(w) = [w EXCEPT !.pc = label, !.cursor = next, !.listed = more]
  BY <1>2, <1>3, <1>4, <1>5 DEF Walked
<1> QED BY <1>1, <1>2, <1>3, <1>4, <1>5, <1>6

(* What is appended: m of the n ids that g counts down below all of s. *)
Below(g, n, s) == \A i \in DOMAIN s : \A k \in 1 .. n : s[i] > g[k]

Appends(more, s, m, g) ==
    /\ more \in Seq(Tasks) /\ Falling(more)
    /\ \A t : Listed(t, s) => Listed(t, more)
    /\ \A k \in 1 .. m : Listed(g[k], more)
    /\ \A x \in Nat : (\A t : Listed(t, s) => t >= x) /\ (\A k \in 1 .. m : g[k] >= x)
           => \A i \in DOMAIN more : more[i] >= x

LEMMA Appended ==
    ASSUME NEW s \in Seq(Tasks), Falling(s), NEW ids, ids \subseteq Tasks,
           NEW n, NEW m \in 0 .. n, NEW g, CountsDown(g, n, ids), Below(g, n, s),
           NEW more, more = s \o [k \in 1 .. m |-> g[k]]
    PROVE  Appends(more, s, m, g)
<1> DEFINE page == [k \in 1 .. m |-> g[k]]
           l == Len(s)
<1>1. /\ l \in Nat /\ DOMAIN s = 1 .. l /\ n \in Nat /\ m \in Nat /\ m <= n
      /\ \A k \in 1 .. n : g[k] \in Tasks
      /\ \A j, k \in 1 .. n : j < k => g[j] > g[k]
  BY DEF CountsDown
<1>2. page \in Seq(Tasks) /\ Len(page) = m
  BY <1>1
<1>3. more \in Seq(Tasks) /\ Len(more) = l + m /\ DOMAIN more = 1 .. l + m
  BY <1>1, <1>2
<1>4. \A i \in 1 .. l : i \in DOMAIN more /\ more[i] = s[i]
  BY <1>1, <1>2, <1>3
<1>5. \A k \in 1 .. m : l + k \in DOMAIN more /\ more[l + k] = g[k]
  BY <1>1, <1>2, <1>3
<1>6. \A i \in DOMAIN more : i \in 1 .. l \/ \E k \in 1 .. m : i = l + k
  <2> SUFFICES ASSUME NEW i \in DOMAIN more, i \notin 1 .. l PROVE \E k \in 1 .. m : i = l + k
    OBVIOUS
  <2>1. i - l \in 1 .. m /\ i = l + (i - l)
    BY <1>1, <1>3
  <2> QED BY <2>1
<1> HIDE DEF page
<1>7. Falling(more)
  <2> SUFFICES ASSUME NEW i \in DOMAIN more, NEW j \in DOMAIN more, i < j
               PROVE  more[i] > more[j]
    BY DEF Falling
  <2>1. CASE i \in 1 .. l /\ j \in 1 .. l
    BY <1>1, <1>4, <2>1 DEF Falling
  <2>2. ASSUME i \in 1 .. l, NEW k \in 1 .. m, j = l + k PROVE more[i] > more[j]
    <3>1. k \in 1 .. n
      BY <1>1
    <3> QED BY <1>1, <1>4, <1>5, <2>2, <3>1 DEF Below
  <2>3. ASSUME NEW k \in 1 .. m, i = l + k PROVE more[i] > more[j]
    <3>1. j \notin 1 .. l
      BY <1>1, <2>3
    <3>2. PICK h \in 1 .. m : j = l + h
      BY <1>6, <3>1
    <3>3. k \in 1 .. n /\ h \in 1 .. n /\ k < h
      BY <1>1, <2>3, <3>2
    <3> QED BY <1>1, <1>5, <2>3, <3>2, <3>3
  <2> QED BY <1>6, <2>1, <2>2, <2>3
<1>8. \A t : Listed(t, s) => Listed(t, more)
  BY <1>1, <1>4 DEF Listed
<1>9. \A k \in 1 .. m : Listed(g[k], more)
  BY <1>5 DEF Listed
<1>10. ASSUME NEW x \in Nat, \A t : Listed(t, s) => t >= x, \A k \in 1 .. m : g[k] >= x,
              NEW i \in DOMAIN more
       PROVE  more[i] >= x
  <2>1. CASE i \in 1 .. l
    <3>1. Listed(s[i], s)
      BY <1>1, <2>1 DEF Listed
    <3> QED BY <1>4, <1>10, <2>1, <3>1
  <2>2. ASSUME NEW k \in 1 .. m, i = l + k PROVE more[i] >= x
    BY <1>5, <1>10, <2>2
  <2> QED BY <1>6, <2>1, <2>2
<1> QED BY <1>3, <1>7, <1>8, <1>9, <1>10 DEF Appends

LEMMA WalkedGoes == ASSUME NEW w, Ready(w) PROVE Going(Walked(w))
<1>1. PICK page : page = Page(w.filter, w.cursor, w.limit)
  OBVIOUS
<1>2. PICK n, m, g : IsPage(page, w.filter, w.cursor, n, m, g)
  <2>1. w.limit \in Nat \ {0}
    BY DEF Ready
  <2> QED BY <1>1, <2>1, PageIs, Zenon
<1>3. /\ n \in Nat
      /\ \A k \in 1 .. n : g[k] \in Selected(w.filter, w.cursor)
      /\ \A j, k \in 1 .. n : j < k => g[j] > g[k]
      /\ \A t \in Selected(w.filter, w.cursor) : \E k \in 1 .. n : g[k] = t
  BY <1>2 DEF IsPage, CountsDown
<1>4. \A k \in 1 .. n : g[k] \in Tasks /\ g[k] \in Nat
  BY <1>3, RequestAssumption DEF Selected
<1>5. PICK s : s = w.listed
  OBVIOUS
<1>6. s \in Seq(Tasks) /\ Falling(s) /\ \A i \in DOMAIN s : s[i] \in Nat
  <2>1. s \in Seq(Tasks) /\ Falling(s)
    BY <1>5 DEF Ready
  <2>2. \A i \in DOMAIN s : s[i] \in Tasks
    BY <2>1
  <2> QED BY <2>1, <2>2, RequestAssumption
<1>7. \A i \in DOMAIN s : \A k \in 1 .. n : s[i] > g[k]
  <2>1. CASE w.cursor = <<>>
    <3>1. s = <<>>
      BY <1>5, <2>1 DEF Ready
    <3> QED BY <3>1
  <2>2. CASE w.cursor # <<>>
    <3>1. w.cursor[1] \in Nat /\ \A i \in DOMAIN s : s[i] >= w.cursor[1]
      BY <1>5, <2>2 DEF Ready
    <3>2. \A k \in 1 .. n : g[k] < w.cursor[1]
      BY <1>3, <2>2 DEF Selected
    <3> QED BY <1>4, <1>6, <3>1, <3>2
  <2> QED BY <2>1, <2>2
<1>8. PICK more : more = s \o [k \in 1 .. m |-> g[k]]
  OBVIOUS
<1>9. /\ more \in Seq(Tasks) /\ Falling(more)
      /\ \A t : Listed(t, s) => Listed(t, more)
      /\ \A k \in 1 .. m : Listed(g[k], more)
      /\ \A x \in Nat : (\A t : Listed(t, s) => t >= x) /\ (\A k \in 1 .. m : g[k] >= x)
             => \A i \in DOMAIN more : more[i] >= x
  <2>1. Below(g, n, s)
    BY <1>7 DEF Below
  <2>2. Selected(w.filter, w.cursor) \subseteq Tasks
    BY DEF Selected
  <2>3. CountsDown(g, n, Selected(w.filter, w.cursor)) /\ m \in 0 .. n
    BY <1>2 DEF IsPage
  <2>4. Appends(more, s, m, g)
    BY <1>6, <1>8, <2>1, <2>2, <2>3, Appended, Zenon
  <2> QED BY <2>4 DEF Appends
<1>10. PICK u : u = Walked(w)
  OBVIOUS
<1>11. u = [pc |-> IF page.next = <<>> THEN "done" ELSE "walking",
            filter |-> w.filter, limit |-> w.limit, cursor |-> page.next,
            listed |-> more, kept |-> w.kept]
  BY <1>1, <1>2, <1>5, <1>8, <1>9, <1>10, WalkedParts, AllRemembered DEF IsPage
<1>12. \A t \in w.kept : Listed(t, s) \/ \E k \in 1 .. n : g[k] = t
  <2> SUFFICES ASSUME NEW t \in w.kept, ~Listed(t, s) PROVE \E k \in 1 .. n : g[k] = t
    OBVIOUS
  <2>1. t \in Tasks /\ Matches(t, w.filter, rows, events)
    BY DEF Ready
  <2>2. w.cursor # <<>> => t < w.cursor[1]
    BY <1>5 DEF Ready
  <2>3. t \in Selected(w.filter, w.cursor)
    BY <2>1, <2>2 DEF Selected
  <2> QED BY <1>3, <2>3
<1>13. CASE page.next = <<>> /\ m = n
  <2>1. u.pc = "done" /\ u.listed = more /\ u.kept = w.kept
    BY <1>11, <1>13
  <2>2. \A t \in w.kept : Listed(t, more)
    BY <1>9, <1>12, <1>13
  <2>3. w.kept \subseteq Tasks
    BY DEF Ready
  <2>4. u = [pc |-> u.pc, filter |-> u.filter, limit |-> u.limit, cursor |-> u.cursor,
             listed |-> u.listed, kept |-> u.kept]
    BY <1>11
  <2> QED BY <1>9, <1>10, <2>1, <2>2, <2>3, <2>4 DEF Going
<1>14. CASE page.next = <<g[m]>> /\ m >= 1
  <2>1. PICK c : c = g[m]
    OBVIOUS
  <2>2. m \in 1 .. n /\ c \in Nat
    <3>1. m \in 1 .. n
      BY <1>2, <1>3, <1>14 DEF IsPage
    <3> QED BY <1>4, <2>1, <3>1
  <2>3. page.next # <<>> /\ page.next[1] = c /\ page.next = <<c>>
    BY <1>14, <2>1
  <2>4. /\ u.pc = "walking" /\ u.filter = w.filter /\ u.limit = w.limit /\ u.cursor = <<c>>
        /\ u.listed = more /\ u.kept = w.kept
    BY <1>11, <2>3
  <2>5. u = [pc |-> u.pc, filter |-> u.filter, limit |-> u.limit, cursor |-> u.cursor,
             listed |-> u.listed, kept |-> u.kept]
    BY <1>11
  <2>6. \A k \in 1 .. m : g[k] >= c
    <3> SUFFICES ASSUME NEW k \in 1 .. m PROVE g[k] >= c
      OBVIOUS
    <3>1. k \in 1 .. n /\ (k < m \/ k = m)
      BY <1>2, <1>3, <2>2 DEF IsPage
    <3> QED BY <1>3, <1>4, <2>1, <2>2, <3>1
  <2>7. \A t : Listed(t, s) => t >= c
    BY <1>4, <1>6, <1>7, <2>1, <2>2 DEF Listed
  <2>8. \A i \in DOMAIN more : more[i] >= c
    BY <1>9, <2>2, <2>6, <2>7
  <2>9. ASSUME NEW t \in w.kept PROVE t < c \/ Listed(t, more)
    <3>1. CASE Listed(t, s)
      BY <1>9, <3>1
    <3>2. ASSUME NEW k \in 1 .. n, g[k] = t PROVE t < c \/ Listed(t, more)
      <4>1. k \in 1 .. m \/ m < k
        BY <2>2
      <4>2. m < k => g[m] > g[k]
        BY <1>3, <2>2
      <4> QED BY <1>4, <1>9, <2>1, <2>2, <3>2, <4>1, <4>2
    <3> QED BY <1>12, <3>1, <3>2
  <2>10. /\ w.limit \in Nat \ {0} /\ w.kept \subseteq Tasks
         /\ \A t \in w.kept : Matches(t, w.filter, rows, events)
    BY DEF Ready
  <2>11. <<c>> # <<>> /\ <<c>>[1] = c
    OBVIOUS
  <2>12. Ready(u)
    BY <1>9, <2>2, <2>4, <2>5, <2>8, <2>9, <2>10, <2>11 DEF Ready
  <2> QED BY <1>9, <1>10, <2>4, <2>5, <2>10, <2>12 DEF Going
<1> QED BY <1>2, <1>13, <1>14 DEF IsPage

WalkInv == Going(walk)

LEMMA FirstReady ==
    ASSUME NEW r \in Served("tasks"), NEW w,
           w = [NoWalk EXCEPT !.filter = r.filter, !.cursor = ParseCursor(r.cursor),
                              !.limit = ParseLimit(r.limit)[1],
                              !.kept = Selected(r.filter, ParseCursor(r.cursor))]
    PROVE  Ready(w)
<1>1. PICK filter, cursor, limit, kept :
          /\ filter = r.filter /\ cursor = r.cursor /\ limit = ParseLimit(r.limit)[1]
          /\ kept = Selected(r.filter, ParseCursor(r.cursor))
  OBVIOUS
<1>2. w = [pc |-> "idle", filter |-> filter, limit |-> limit, cursor |-> cursor,
           listed |-> <<>>, kept |-> kept]
  BY <1>1 DEF NoWalk, ParseCursor
<1>3. r \in RequestType /\ r.path = "tasks" /\ ~InvalidList(r)
  BY RequestAssumption DEF Served, Refusal
<1>4. r.limit \in Param /\ r.cursor \in Param
  BY <1>3 DEF RequestType
<1>5. limit \in Nat \ {0}
  <2>1. ParseLimit(r.limit) # <<0>>
    BY <1>3 DEF InvalidList
  <2>2. \/ ParseLimit(r.limit) = <<DefaultLimit>>
        \/ ParseLimit(r.limit)[1] \in 1 .. MaxLimit
    BY <2>1 DEF ParseLimit
  <2>3. <<DefaultLimit>>[1] = DefaultLimit
    OBVIOUS
  <2> QED BY <1>1, <2>2, <2>3, RequestAssumption
<1>6. cursor # <<>> => cursor[1] \in Nat
  BY <1>1, <1>4 DEF Param
<1>7. kept = Selected(filter, cursor)
  BY <1>1 DEF ParseCursor
<1>8. /\ kept \subseteq Tasks
      /\ \A t \in kept : Matches(t, filter, rows, events)
      /\ cursor # <<>> => \A t \in kept : t < cursor[1]
  BY <1>7 DEF Selected
<1>9. <<>> \in Seq(Tasks) /\ DOMAIN <<>> = {}
  OBVIOUS
<1>10. /\ w.pc = "idle" /\ w.filter = filter /\ w.limit = limit /\ w.cursor = cursor
       /\ w.listed = <<>> /\ w.kept = kept
  <2>1. PICK v : v = [pc |-> "idle", filter |-> filter, limit |-> limit, cursor |-> cursor,
                      listed |-> <<>>, kept |-> kept]
    OBVIOUS
  <2>2. /\ v.pc = "idle" /\ v.filter = filter /\ v.limit = limit /\ v.cursor = cursor
        /\ v.listed = <<>> /\ v.kept = kept
    BY <2>1
  <2>3. w = v
    BY <1>2, <2>1
  <2> QED BY <2>2, <2>3
<1>11. Falling(<<>>)
  BY <1>9 DEF Falling
<1>12. w = [pc |-> w.pc, filter |-> w.filter, limit |-> w.limit, cursor |-> w.cursor,
            listed |-> w.listed, kept |-> w.kept]
  BY <1>2, <1>10
<1>13. w.cursor # <<>> => /\ w.cursor[1] \in Nat
                          /\ \A i \in DOMAIN w.listed : w.listed[i] >= w.cursor[1]
  BY <1>6, <1>9, <1>10
<1>14. w.cursor # <<>> => \A t \in w.kept : t < w.cursor[1] \/ Listed(t, w.listed)
  BY <1>8, <1>10
<1>15. w.kept \subseteq Tasks /\ \A t \in w.kept : Matches(t, w.filter, rows, events)
  BY <1>8, <1>10
<1>16. w.listed \in Seq(Tasks) /\ Falling(w.listed) /\ w.limit \in Nat \ {0}
       /\ (w.cursor = <<>> => w.listed = <<>>)
  BY <1>5, <1>9, <1>10, <1>11
<1> QED BY <1>12, <1>13, <1>14, <1>15, <1>16, Zenon DEF Ready

(* The indexer may take tasks out of what the walk has kept, no more. *)
LEMMA FewerKept ==
    ASSUME WalkInv, IndexerStep PROVE WalkInv'
<1>1. PICK K : K = {t \in walk.kept : Matches(t, walk.filter, rows', events')}
  OBVIOUS
<1>2. walk' = [walk EXCEPT !.kept = K]
  BY <1>1 DEF IndexerStep
<1>3. PICK pc, filter, limit, cursor, listed, kept :
          walk = [pc |-> pc, filter |-> filter, limit |-> limit, cursor |-> cursor,
                  listed |-> listed, kept |-> kept]
  BY DEF WalkInv, Going
<1>4. walk' = [pc |-> pc, filter |-> filter, limit |-> limit, cursor |-> cursor,
               listed |-> listed, kept |-> K]
  BY <1>2, <1>3
<1>5. K \subseteq kept /\ \A t \in K : Matches(t, filter, rows', events')
  BY <1>1, <1>3
<1>6. Falling(listed) /\ kept \subseteq Tasks
  BY <1>3 DEF WalkInv, Going
<1>7. pc = "done" => \A t \in kept : Listed(t, listed)
  BY <1>3 DEF WalkInv, Going
<1>8. pc = "walking" =>
          /\ limit \in Nat \ {0}
          /\ listed \in Seq(Tasks)
          /\ cursor = <<>> => listed = <<>>
          /\ cursor # <<>> => /\ cursor[1] \in Nat
                              /\ \A i \in DOMAIN listed : listed[i] >= cursor[1]
                              /\ \A t \in kept : t < cursor[1] \/ Listed(t, listed)
  BY <1>3 DEF WalkInv, Going, Ready
<1>9. pc = "walking" => Ready(walk)'
  BY <1>4, <1>5, <1>6, <1>8 DEF Ready, Falling, Listed
<1> QED BY <1>4, <1>5, <1>6, <1>7, <1>9 DEF WalkInv, Going, Falling, Listed

LEMMA NextWalkInv == ASSUME WalkInv, [ApiNext]_apiVars PROVE WalkInv'
<1>1. CASE IndexerStep
  BY <1>1, FewerKept
<1>2. ASSUME NEW w, Ready(w), walk' = Walked(w), rows' = rows, events' = events
      PROVE  WalkInv'
  <2>1. PICK u : u = Walked(w)
    OBVIOUS
  <2>2. Going(u) /\ walk' = u
    BY <1>2, <2>1, WalkedGoes
  <2> QED BY <1>2, <2>2 DEF WalkInv, Going, Ready, Falling, Listed
<1>3. CASE FirstPage
  <2>1. PICK r \in Served("tasks") :
            walk' = Walked([NoWalk EXCEPT !.filter = r.filter, !.cursor = ParseCursor(r.cursor),
                                !.limit = ParseLimit(r.limit)[1],
                                !.kept = Selected(r.filter, ParseCursor(r.cursor))])
    BY <1>3 DEF FirstPage
  <2>2. PICK w : w = [NoWalk EXCEPT !.filter = r.filter, !.cursor = ParseCursor(r.cursor),
                                    !.limit = ParseLimit(r.limit)[1],
                                    !.kept = Selected(r.filter, ParseCursor(r.cursor))]
    OBVIOUS
  <2>3. Ready(w) /\ walk' = Walked(w)
    BY <2>1, <2>2, FirstReady
  <2>4. rows' = rows /\ events' = events
    BY <1>3 DEF FirstPage, vars
  <2> QED BY <1>2, <2>3, <2>4
<1>4. CASE NextPage
  <2>1. Ready(walk) /\ walk' = Walked(walk)
    BY <1>4 DEF NextPage, WalkInv, Going
  <2>2. rows' = rows /\ events' = events
    BY <1>4 DEF NextPage, vars
  <2> QED BY <1>2, <2>1, <2>2
<1>5. CASE walk' = walk /\ rows' = rows /\ events' = events
  BY <1>5 DEF WalkInv, Going, Ready, Falling, Listed
<1>6. Protocol \/ TaskDetail \/ UNCHANGED apiVars =>
          walk' = walk /\ rows' = rows /\ events' = events
  BY DEF Protocol, TaskDetail, apiVars, client, vars
<1> QED BY <1>1, <1>3, <1>4, <1>5, <1>6 DEF ApiNext

(* However the indexer works on in between, a walk through the pages lists *)
(* no task twice, and when it ends none is missing that has matched the    *)
(* filter all along.  Nothing is assumed of the runs of the indexer.       *)
THEOREM WalksAreExact == ApiSpec => []WalkIsExact
<1>1. ApiInit => WalkInv
  BY DEF ApiInit, NoWalk, WalkInv, Going, Falling
<1>2. WalkInv => WalkIsExact
  BY DEF WalkInv, Going, Falling, Listed, WalkIsExact
<1> QED BY <1>1, <1>2, NextWalkInv, PTL DEF ApiSpec
=============================================================================
