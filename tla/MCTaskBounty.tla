---------------------------- MODULE MCTaskBounty ----------------------------
(* Small instances of TaskBounty for TLC. *)
EXTENDS TaskBountyProperties

CONSTANTS u1, h1, h2   \* a URI and two document hashes

Doc1 == [uri |-> u1, hash |-> h1]
Doc2 == [uri |-> u1, hash |-> h2]
NoUri == [uri |-> EmptyURI, hash |-> h1]
NoHash == [uri |-> u1, hash |-> ZeroHash]

MCMetadata == {Doc1, NoUri}
MCResults == {Doc1, Doc2, NoHash}

(* Exact delivery; a fee of one; everything withheld of a reward of two; more *)
(* withheld than sent, so that the escrow's own balance falls; a bonus of one. *)
MCSkims == {-1, 0, 1, 2, 3}
=============================================================================
