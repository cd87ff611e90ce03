----------------------------- MODULE MCTaskPage -----------------------------
(* Small instances of the task page for TLC. *)
EXTENDS TaskPageProperties, TLC

CONSTANTS ann, bea,   \* the creator and a worker
          doc1, doc2  \* two results

At(status, worker, result) == [status |-> status, worker |-> worker, result |-> result]

AcceptedTask == {At(InProgress, bea, NoArtifact)}
SubmittedTask == {At(Submitted, bea, doc1)}
TakenTask == AcceptedTask \cup SubmittedTask
=============================================================================
