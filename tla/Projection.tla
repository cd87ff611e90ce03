----------------------------- MODULE Projection -----------------------------
(***************************************************************************)
(* The query rows the indexer keeps: backend/src/database.ts on the schema *)
(* of backend/migrations/0001_initial.sql.                                 *)
(*                                                                         *)
(* Each lifecycle event is applied by an SQL statement to the row of its   *)
(* task and then recorded in indexed_events, whose foreign key makes the   *)
(* whole batch fail when the task has no row.                              *)
(***************************************************************************)
EXTENDS Naturals, Sequences, SequencesExt

CONSTANTS Tasks,     \* task ids
          People,    \* accounts that act on tasks
          Nobody     \* the zero address

EventName == {"TaskCreated", "TaskAccepted", "WorkSubmitted",
              "TaskCompleted", "TaskCancelled"}

Event == [block : Nat, task : Tasks, name : EventName, who : People]

RowStatus == {"Open", "InProgress", "Submitted", "Completed", "Cancelled"}

(* at[name] is the block of the event of that name, 0 for NULL. *)
Row == [status : RowStatus, worker : People \cup {Nobody},
        at : [EventName -> Nat], updated : Nat]

NoRow == [status |-> "none"]

NoRows == [t \in Tasks |-> NoRow]

(* The row after the statement for e; an UPDATE of no row changes nothing. *)
NewRow(e) == [status |-> "Open", worker |-> Nobody, updated |-> e.block,
              at |-> [n \in EventName |-> IF n = "TaskCreated" THEN e.block ELSE 0]]

Moved(row, e) ==
    [row EXCEPT !.at[e.name] = e.block,
                !.updated = IF @ > e.block THEN @ ELSE e.block]

(* Definitions named Bad... are variants of the code with one plausible bug *)
(* each; nothing refers to them.  They show what the properties see.       *)

BadProjected(row, e) ==              \* the conflict clause resets the row
    IF e.name = "TaskCreated" THEN NewRow(e)
    ELSE IF row = NoRow THEN NoRow
    ELSE CASE e.name = "TaskAccepted"  -> [Moved(row, e) EXCEPT !.worker = e.who,
                                                                !.status = "InProgress"]
           [] e.name = "WorkSubmitted" -> [Moved(row, e) EXCEPT !.status = "Submitted"]
           [] e.name = "TaskCompleted" -> [Moved(row, e) EXCEPT !.status = "Completed"]
           [] e.name = "TaskCancelled" -> [Moved(row, e) EXCEPT !.status = "Cancelled"]

Projected(row, e) ==
    IF e.name = "TaskCreated"
    THEN IF row = NoRow THEN NewRow(e) ELSE [row EXCEPT !.at[e.name] = e.block]
    ELSE IF row = NoRow THEN NoRow
    ELSE CASE e.name = "TaskAccepted"  -> [Moved(row, e) EXCEPT !.worker = e.who,
                                                                !.status = "InProgress"]
           [] e.name = "WorkSubmitted" -> [Moved(row, e) EXCEPT !.status = "Submitted"]
           [] e.name = "TaskCompleted" -> [Moved(row, e) EXCEPT !.status = "Completed"]
           [] e.name = "TaskCancelled" -> [Moved(row, e) EXCEPT !.status = "Cancelled"]

BadApply(tables, e) ==               \* no foreign key on indexed_events
    [rows   |-> [tables.rows EXCEPT ![e.task] = Projected(@, e)],
     events |-> tables.events \cup {e},
     ok     |-> TRUE]

(* The statements of one event on the tables [rows, events, ok]; ok says    *)
(* whether every foreign key so far was satisfied.                         *)
Apply(tables, e) ==
    LET rows == [tables.rows EXCEPT ![e.task] = Projected(@, e)]
    IN [rows   |-> rows,
        events |-> tables.events \cup {e},
        ok     |-> tables.ok /\ rows[e.task] # NoRow]

ApplyAll(tables, es) == FoldLeft(Apply, tables, es)
=============================================================================
