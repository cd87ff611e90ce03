----------------------------- MODULE TaskDetail -----------------------------
(***************************************************************************)
(* The page of one task: components/task-detail.tsx with lib/task-reader.ts *)
(* and lib/artifact-verification.ts of the frontend.                       *)
(*                                                                         *)
(* A load reads the task, from the read API or from RPC, and then checks   *)
(* the bytes of its two documents.  The contract's task and the indexer's  *)
(* copy of it change at any time; an answer tells the task as it was when *)
(* the node read it, and arrives later.                                    *)
(***************************************************************************)
EXTENDS Naturals, FiniteSets

CONSTANTS
    Accounts,     \* accounts that may act on the task
    Creator,      \* the one that created it
    Nobody,       \* the zero address, also: no connected account
    Artifacts,    \* pairs of a result URI and a content hash
    NoArtifact,   \* the empty URI, the zero hash
    NoTask,       \* no task read yet, or no such task
    LoadIds,      \* names for the loads in progress
    Starts        \* the contract's task when the page is opened

Open == 0
InProgress == 1
Submitted == 2
Completed == 3
Cancelled == 4

\* The fields of a task that the page reads and that may change.
ChainTask == [status : Open .. Cancelled, worker : Accounts \cup {Nobody},
              result : Artifacts \cup {NoArtifact}]

Lawful(t) ==
    /\ t.status \in {Open, Cancelled} <=> t.worker = Nobody
    /\ t.status \in {Submitted, Completed} <=> t.result # NoArtifact
    /\ t.worker # Creator

ASSUME PageAssumption ==
    /\ Creator \in Accounts /\ Nobody \notin Accounts /\ NoArtifact \notin Artifacts
    /\ Starts \subseteq {t \in ChainTask : Lawful(t)} /\ NoTask \notin ChainTask

VARIABLES
    task,      \* the contract's storage
    indexed,   \* the indexer's row, NoTask before it has one
    page,      \* the state of the component
    loads      \* the calls of load in progress

pageVars == <<task, indexed, page, loads>>

(* result is the artifact whose bytes were shown to match, NoArtifact for   *)
(* none.  The verdict on the brief, whose commitment never changes, is left *)
(* out.                                                                     *)
PageType == [loading : BOOLEAN, error : BOOLEAN, view : ChainTask \cup {NoTask},
             result : Artifacts \cup {NoArtifact}, opened : BOOLEAN]

LoadType == [pc : {"idle", "task", "read", "metadata", "result"}, rpc : BOOLEAN,
             got : ChainTask \cup {NoTask}]

IdleLoad == [pc |-> "idle", rpc |-> FALSE, got |-> NoTask]

PageInit ==
    /\ task \in Starts
    /\ indexed \in {NoTask, task}
    /\ page = [loading |-> TRUE, error |-> FALSE, view |-> NoTask,
               result |-> NoArtifact, opened |-> FALSE]
    /\ loads = [i \in LoadIds |-> IdleLoad]

-----------------------------------------------------------------------------
(* The contract, as module TaskBounty has it, for this task *)

Accepts(t, a, action) ==
    CASE action = "accept"  -> t.status = Open /\ a # Creator
      [] action = "cancel"  -> t.status = Open /\ a = Creator
      [] action = "submit"  -> t.status = InProgress /\ a = t.worker
      [] action = "approve" -> t.status = Submitted /\ a = Creator

After(t, a, action, artifact) ==
    CASE action = "accept"  -> [t EXCEPT !.status = InProgress, !.worker = a]
      [] action = "cancel"  -> [t EXCEPT !.status = Cancelled]
      [] action = "submit"  -> [t EXCEPT !.status = Submitted, !.result = artifact]
      [] action = "approve" -> [t EXCEPT !.status = Completed]

Actions == {"accept", "cancel", "submit", "approve"}

\* Some account acts on the task by other means than this page.
OthersAct ==
    /\ \E a \in Accounts, k \in Actions, w \in Artifacts :
          Accepts(task, a, k) /\ task' = After(task, a, k, w)
    /\ UNCHANGED <<indexed, page, loads>>

Index ==
    /\ indexed # task
    /\ indexed' = task
    /\ UNCHANGED <<task, page, loads>>

-----------------------------------------------------------------------------
(* lib/task-reader.ts *)

(* Definitions named Bad... are variants of the code with one plausible bug *)
(* each; nothing refers to them.  They show what the properties see.       *)

\* What readTask may return: the API's answer unless RPC is preferred, and RPC's
\* when the API does not answer, has no such task or is of another deployment.
ReadTask(preferRpc) ==
    {task} \cup (IF preferRpc \/ indexed = NoTask THEN {} ELSE {indexed})

-----------------------------------------------------------------------------
(* The component *)

\* The page shows the task, its documents' verdicts and the action panel.
Shown(p) == ~p.loading /\ ~p.error /\ p.view # NoTask

Load(i, preferRpc) ==
    /\ loads[i].pc = "idle"
    /\ page' = [page EXCEPT !.loading = TRUE, !.opened = TRUE]
    /\ loads' = [loads EXCEPT ![i] = [IdleLoad EXCEPT !.pc = "task", !.rpc = preferRpc]]

\* The effect of the first rendering; the address may name no task id.
FirstLoad ==
    /\ ~page.opened
    /\ \/ \E i \in LoadIds : Load(i, FALSE)
       \/ /\ page' = [page EXCEPT !.opened = TRUE, !.error = TRUE, !.loading = FALSE]
          /\ UNCHANGED loads
    /\ UNCHANGED <<task, indexed>>

BadRefresh ==                        \* the button stays while a load is going on
    /\ ~page.error /\ page.view # NoTask
    /\ \E i \in LoadIds : Load(i, TRUE)
    /\ UNCHANGED <<task, indexed>>

\* "Refresh chain and artifacts"
Refresh ==
    /\ Shown(page)
    /\ \E i \in LoadIds : Load(i, TRUE)
    /\ UNCHANGED <<task, indexed>>

\* The node or the API reads the task; or readTask throws, and the catch and
\* finally clauses run.
TaskIsRead(i) ==
    /\ loads[i].pc = "task"
    /\ \/ /\ \E t \in ReadTask(loads[i].rpc) :
                loads' = [loads EXCEPT ![i].pc = "read", ![i].got = t]
          /\ UNCHANGED page
       \/ /\ page' = [page EXCEPT !.error = TRUE, !.loading = FALSE]
          /\ loads' = [loads EXCEPT ![i] = IdleLoad]
    /\ UNCHANGED <<task, indexed>>

\* The answer arrives: setTask.
TaskAnswers(i) ==
    /\ loads[i].pc = "read"
    /\ page' = [page EXCEPT !.view = loads[i].got]
    /\ loads' = [loads EXCEPT ![i].pc = "metadata"]
    /\ UNCHANGED <<task, indexed>>

\* The artifact that fetchAndVerifyArtifact shows to match: the expected one, or
\* none when the bytes differ, are too many, late or do not arrive.
Verified(expected) == {expected, NoArtifact}

\* The brief has been checked; without a committed result the load ends here.
MetadataAnswers(i) ==
    /\ loads[i].pc = "metadata"
    /\ IF loads[i].got.result # NoArtifact
       THEN /\ loads' = [loads EXCEPT ![i].pc = "result"]
            /\ UNCHANGED page
       ELSE /\ page' = [page EXCEPT !.result = NoArtifact, !.error = FALSE, !.loading = FALSE]
            /\ loads' = [loads EXCEPT ![i] = IdleLoad]
    /\ UNCHANGED <<task, indexed>>

ResultAnswers(i) ==
    /\ loads[i].pc = "result"
    /\ \E found \in Verified(loads[i].got.result) :
          page' = [page EXCEPT !.result = found, !.error = FALSE, !.loading = FALSE]
    /\ loads' = [loads EXCEPT ![i] = IdleLoad]
    /\ UNCHANGED <<task, indexed>>

LoadStep ==
    \E i \in LoadIds : TaskIsRead(i) \/ TaskAnswers(i) \/ MetadataAnswers(i) \/ ResultAnswers(i)
=============================================================================
