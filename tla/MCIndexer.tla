----------------------------- MODULE MCIndexer -----------------------------
(* Small instances of Indexer for TLC. *)
EXTENDS IndexerProperties

CONSTANTS ann, bea    \* a creator and a worker

Ev(b, t, n, a) == [block |-> b, task |-> t, name |-> n, who |-> a]

(* One task through its whole life, two events in one block, while another *)
(* is created and cancelled.                                               *)
Busy == <<Ev(1, 1, "TaskCreated", ann), Ev(2, 1, "TaskAccepted", bea),
          Ev(2, 2, "TaskCreated", bea), Ev(3, 1, "WorkSubmitted", bea),
          Ev(4, 2, "TaskCancelled", bea), Ev(5, 1, "TaskCompleted", bea)>>

(* Everything happens late and at once. *)
Burst == <<Ev(3, 1, "TaskCreated", ann), Ev(3, 1, "TaskAccepted", bea),
           Ev(4, 1, "WorkSubmitted", bea), Ev(4, 1, "TaskCompleted", bea)>>

(* One block with more events than a run may index. *)
Dense == <<Ev(1, 1, "TaskCreated", ann), Ev(2, 1, "TaskAccepted", bea),
           Ev(2, 1, "WorkSubmitted", bea), Ev(2, 1, "TaskCompleted", ann),
           Ev(2, 2, "TaskCreated", ann)>>

(* One task, accepted in the block that creates it, with a late second event. *)
Short == <<Ev(1, 1, "TaskCreated", ann), Ev(1, 1, "TaskAccepted", bea),
           Ev(3, 1, "WorkSubmitted", bea)>>
ShortChain == {Short}

MCChains == {Busy, Burst, <<>>}
BusyChain == {Busy}
DenseChain == {Dense}
=============================================================================
