--------------------------- MODULE MirrorPromise ---------------------------
(***************************************************************************)
(* What an index of a chain promises its readers, without runs, leases,    *)
(* chunks or tables: the milestones it shows are at every moment exactly   *)
(* those of the log up to one block, each subject stands where the last of *)
(* its events up to there has put it, and that block only moves forward,   *)
(* never closer to the newest block than a given depth.                    *)
(***************************************************************************)
EXTENDS Integers, Sequences

CONSTANTS Subjects, \* what the events are about
          First,    \* the first block to index
          Depth,    \* blocks that may still be reorganised
          Nothing   \* where a subject without events stands

VARIABLES history,  \* the log, a sequence of events in blocks
          newest,   \* the newest block of the chain
          upto,     \* the block up to which the log is shown
          shown,    \* the milestones shown: subject, name of the event, block
          stage     \* per subject, the name of the event that counts

(* The milestones of the log up to block b. *)
Told(b) ==
    {<<history[i].task, history[i].name, history[i].block>> :
        i \in {j \in DOMAIN history : history[j].block <= b}}

(* The places in the log of t's events up to block b. *)
Of(t, b) == {i \in DOMAIN history : history[i].task = t /\ history[i].block <= b}

LastOf(t, b) == CHOOSE i \in Of(t, b) : \A j \in Of(t, b) : j <= i

Standing(b) ==
    [t \in Subjects |-> IF Of(t, b) = {} THEN Nothing ELSE history[LastOf(t, b)].name]

Init ==
    /\ newest \in Nat
    /\ upto = First - 1 /\ shown = {} /\ stage = [t \in Subjects |-> Nothing]

Grow ==
    /\ newest' = newest + 1
    /\ UNCHANGED <<history, upto, shown, stage>>

(* More of the log is shown, all at once. *)
Follow ==
    /\ upto' \in upto + 1 .. newest - Depth
    /\ shown' = Told(upto') /\ stage' = Standing(upto')
    /\ UNCHANGED <<history, newest>>

Next == Grow \/ Follow

Spec == Init /\ [][Next]_<<history, newest, upto, shown, stage>>
=============================================================================
