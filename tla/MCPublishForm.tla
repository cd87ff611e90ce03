--------------------------- MODULE MCPublishForm ---------------------------
(* Small instances of PublishForm for TLC. *)
EXTENDS PublishForm, TLC

CONSTANTS me,      \* the user
          d,       \* a document
          nodoc    \* no document

(* d commits to a reward of one and is what the form drafts for it; the draft for a *)
(* reward of two, another document, is left out.                                    *)
OneManifest == d :> [parses |-> TRUE, here |-> TRUE, reward |-> 1]
OneDraft == [n \in Rewards |-> IF n = 1 THEN d ELSE nodoc]
=============================================================================
