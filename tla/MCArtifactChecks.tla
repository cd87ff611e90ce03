-------------------------- MODULE MCArtifactChecks --------------------------
(* Small instances of ArtifactChecks for TLC. *)
EXTENDS ArtifactChecks

Doc(t, k) == [task |-> t, kind |-> k]

(* One task with both documents. *)
OneTask == {Doc(1, "metadata"), Doc(1, "result")}

(* The one that every other document comes before: the result of task 1. *)
Oldest == {Doc(1, "result")}
=============================================================================
