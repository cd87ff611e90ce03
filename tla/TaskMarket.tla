----------------------------- MODULE TaskMarket -----------------------------
(***************************************************************************)
(* components/task-market.tsx with lib/task-reader.ts and lib/task-api.ts: *)
(* the page of recent tasks is read from the indexer, or from the public   *)
(* RPC when the indexer does not answer well.  Meanwhile tasks are created *)
(* and the indexer follows; the explorer may keep a TaskCreated event from *)
(* it (backend/src/indexer.ts), and the browser's HTTP cache may answer in *)
(* its place (backend/src/api.ts: max-age=15, stale-while-revalidate=45).  *)
(*                                                                         *)
(* A task is its id: what else a row has is shown as it was answered.      *)
(* Left out: the filters, which select among what is shown, and the age at *)
(* which the HTTP cache gives a response up: it may answer at any age.     *)
(*                                                                         *)
(* Definitions named Bad... are variants of the code with one plausible    *)
(* bug each; nothing refers to them.  They show what the properties see.   *)
(***************************************************************************)
EXTENDS Naturals, Sequences, SequencesExt, FiniteSetsExt

CONSTANTS
    MaxTasks,   \* bound: tasks that are created
    MayOmit,    \* tasks whose TaskCreated event the explorer may omit
    Limit       \* tasks on the page

ASSUME MarketAssumption ==
    MaxTasks \in Nat /\ MayOmit \subseteq Nat /\ Limit \in Nat \ {0}

VARIABLES
    created,  \* the tasks of the chain are 1 .. created
    scanned,  \* the indexer has projected the blocks of 1 .. scanned
    rows,     \* the tasks the indexer has rows of
    counted,  \* the tasks of the indexer's protocol snapshot
    kept,     \* the HTTP cache: the last response of each request, or none
    load,     \* the load in flight
    page      \* what the page shows

chainAndIndexer == <<created, scanned, rows, counted>>
vars == <<chainAndIndexer, kept, load, page>>

Sources == {"indexer", "rpc"}
NoOverview == [source |-> "none", latest |-> 0]
IdleLoad == [stage |-> "idle"]

\* from is the source of the tasks; to tell "cache" from "indexer" is history, no code can.
EmptyPage == [overview |-> NoOverview, tasks |-> <<>>, from |-> "none", briefs |-> "none",
              loading |-> TRUE, enriching |-> FALSE, error |-> FALSE]

Init ==
    /\ created = 0 /\ scanned = 0 /\ rows = {} /\ counted = 0
    /\ kept = [overview |-> {}, tasks |-> {}]
    /\ load = IdleLoad
    /\ page = EmptyPage

-----------------------------------------------------------------------------
(* The chain and the indexer (modelled in detail by the module Indexer) *)

TaskIsCreated ==
    /\ created < MaxTasks /\ created' = created + 1
    /\ UNCHANGED <<scanned, rows, counted, kept, load, page>>

\* The batch with the next TaskCreated event, or without it.
IndexerScans ==
    /\ scanned < created /\ scanned' = scanned + 1
    /\ \/ rows' = rows \cup {scanned'}
       \/ scanned' \in MayOmit /\ UNCHANGED rows
    /\ UNCHANGED <<created, counted, kept, load, page>>

\* A run that lost its lease replays a chunk, with an event that was omitted before.
IndexerReplays ==
    /\ \E id \in (1 .. scanned) \ rows : rows' = rows \cup {id}
    /\ UNCHANGED <<created, scanned, counted, kept, load, page>>

BadIndexerCounts ==                      \* the snapshot is of the latest block
    /\ counted' = created
    /\ UNCHANGED <<created, scanned, rows, kept, load, page>>

\* recordProtocolSnapshot: nextTaskId by the RPC, at a block that has been projected; the
\* snapshot of a late run replaces a newer one.
IndexerCounts ==
    /\ counted' \in 0 .. scanned
    /\ UNCHANGED <<created, scanned, rows, kept, load, page>>

-----------------------------------------------------------------------------
(* backend/src/api.ts and lib/task-api.ts *)

(* Answers: timely and with status 200, well formed, and from this deployment. *)
Answers == [arrives : BOOLEAN, parses : BOOLEAN, here : BOOLEAN]

\* requestData, the parsers, and for the overview the identity of the deployment.
Accepted(answer, identity) ==
    answer.arrives /\ answer.parses /\ (identity => answer.here)

\* ORDER BY task_id DESC LIMIT: the newest rows, the newest first.
NewestFirst(list) ==
    /\ \A i, j \in DOMAIN list : i < j => list[i] > list[j]
    /\ \A id \in rows : id \in Range(list)
                            \/ (Len(list) = Limit /\ \A i \in DOMAIN list : list[i] > id)

\* The tasks the read API answers with: there is one such list.
IndexedPages == {list \in BoundedSeq(rows, Limit) : NewestFirst(list)}

\* The HTTP cache asks again behind an answer it gave; other pages ask for the overview.
HttpCacheRevalidates ==
    /\ \/ kept' = [kept EXCEPT !.overview = {counted}]
       \/ /\ kept.tasks # {}
          /\ \E list \in IndexedPages : kept' = [kept EXCEPT !.tasks = {list}]
    /\ UNCHANGED <<chainAndIndexer, load, page>>

-----------------------------------------------------------------------------
(* lib/task-reader.ts: readRecentTasks, one wait after another *)

\* The overview of the indexer, and without it that of the RPC.
OverviewAnswers(answer) ==
    /\ load.stage = "overview"
    /\ \E count \in {counted} \cup kept.overview :
          /\ load' = IF Accepted(answer, TRUE)
                     THEN [stage |-> "tasks", overview |-> [source |-> "indexer", latest |-> count]]
                     ELSE [stage |-> "rpcOverview"]
          /\ kept' = IF answer.arrives THEN [kept EXCEPT !.overview = {count}] ELSE kept
    /\ UNCHANGED <<chainAndIndexer, page>>

BadRpcOverviewAnswers ==                 \* nextTaskId is taken for the latest task
    /\ load.stage = "rpcOverview"
    /\ load' = [stage |-> "rpcTasks", overview |-> [source |-> "rpc", latest |-> created + 1]]
    /\ UNCHANGED <<chainAndIndexer, kept, page>>

\* The node that answers may lag behind the chain.
RpcOverviewAnswers ==
    /\ load.stage = "rpcOverview"
    /\ \E latest \in 0 .. created :
          load' = [stage |-> "rpcTasks", overview |-> [source |-> "rpc", latest |-> latest]]
    /\ UNCHANGED <<chainAndIndexer, kept, page>>

Ready(overview, tasks, from) ==
    [stage |-> "ready", overview |-> overview, tasks |-> tasks, from |-> from]

\* The page of the indexer or of the HTTP cache; without it everything is read from
\* the RPC, the overview again.
TasksAnswer(answer) ==
    /\ load.stage = "tasks"
    /\ \E from \in {"indexer", "cache"} :
       \E list \in IF from = "cache" THEN kept.tasks ELSE IndexedPages :
          /\ load' = IF Accepted(answer, FALSE) THEN Ready(load.overview, list, from)
                     ELSE [stage |-> "rpcOverview"]
          /\ kept' = IF answer.arrives THEN [kept EXCEPT !.tasks = {list}] ELSE kept
    /\ UNCHANGED <<chainAndIndexer, page>>

Newest(count) == Min({count, Limit})

\* The RPC is asked for each task of the ids the overview gives, and all are awaited.
RpcTasksAnswer ==
    /\ load.stage = "rpcTasks"
    /\ LET latest == load.overview.latest
           list == [i \in 1 .. Newest(latest) |-> latest - i + 1]
       IN  load' = Ready(load.overview, list, "rpc")
    /\ UNCHANGED <<chainAndIndexer, kept, page>>

-----------------------------------------------------------------------------
(* The page *)

\* The first load of the page, or the button, which is disabled during a load.
Load ==
    /\ load = IdleLoad /\ ~page.enriching
    /\ load' = [stage |-> "overview"]
    /\ page' = [page EXCEPT !.loading = TRUE]
    /\ UNCHANGED <<chainAndIndexer, kept>>

\* The tasks are shown while their briefs are fetched and verified.
TasksArrive ==
    /\ load.stage = "ready"
    /\ page' = [overview |-> load.overview, tasks |-> load.tasks, from |-> load.from,
                briefs |-> "checking", loading |-> FALSE, enriching |-> TRUE, error |-> FALSE]
    /\ load' = [stage |-> "briefs"]
    /\ UNCHANGED <<chainAndIndexer, kept>>

\* Every brief is verified, differs, or is unavailable.
BriefsArrive ==
    /\ load.stage = "briefs"
    /\ page' = [page EXCEPT !.briefs = "checked", !.enriching = FALSE]
    /\ load' = IdleLoad
    /\ UNCHANGED <<chainAndIndexer, kept>>

\* The RPC does not answer either: the page keeps what it showed.
LoadFails ==
    /\ load.stage \in {"rpcOverview", "rpcTasks"}
    /\ page' = [page EXCEPT !.error = TRUE, !.loading = FALSE]
    /\ load' = IdleLoad
    /\ UNCHANGED <<chainAndIndexer, kept>>

\* The user leaves and comes back; the load in flight no longer counts.
Remount ==
    /\ page # EmptyPage \/ load # IdleLoad
    /\ page' = EmptyPage /\ load' = IdleLoad
    /\ UNCHANGED <<chainAndIndexer, kept>>

IndexerStep == IndexerScans \/ IndexerReplays \/ IndexerCounts

LoadStep ==
    \/ \E answer \in Answers : OverviewAnswers(answer) \/ TasksAnswer(answer)
    \/ RpcOverviewAnswers \/ RpcTasksAnswer
    \/ TasksArrive \/ BriefsArrive \/ LoadFails

Next ==
    TaskIsCreated \/ IndexerStep \/ HttpCacheRevalidates \/ Load \/ Remount \/ LoadStep

Spec == Init /\ [][Next]_vars

-----------------------------------------------------------------------------
Tasks == Seq(Nat)

TypeOK ==
    /\ {created, scanned, counted} \subseteq Nat /\ rows \subseteq Nat
    /\ kept.overview \subseteq Nat /\ kept.tasks \subseteq Tasks
    /\ page \in [overview : [source : Sources \cup {"none"}, latest : Nat], tasks : Tasks,
                 from : {"indexer", "cache", "rpc", "none"},
                 briefs : {"none", "checking", "checked"},
                 loading : BOOLEAN, enriching : BOOLEAN, error : BOOLEAN]

\* The overview and the tasks the page shows come from one source, although the
\* indexer may fail between the two requests.
SourcesAgree == page.from = "rpc" <=> page.overview.source = "rpc"

ListedIds == Range(page.tasks)

\* Tasks the page may miss for good: the indexer never heard of them.
Missable == IF page.overview.source = "indexer" THEN MayOmit ELSE {}

\* Every task the page counts is listed, or the list is full of newer ones, although count
\* and list are read one after the other while tasks are created, from an indexer that
\* follows or from the RPC in its place.  Two exceptions, which the code has: a task whose
\* event the explorer omitted, and a list that the HTTP cache kept.
CountedAreListed ==
    page.from # "cache" =>
        \A id \in (1 .. page.overview.latest) \ Missable :
            id \in ListedIds \/ (Len(page.tasks) = Limit /\ \A n \in ListedIds : n > id)

\* The list, cached or not, has tasks that exist, the newest first and each once.  Between
\* two of them only a task is missing whose event the explorer omitted, and from the RPC none.
ListIsExact ==
    \A i \in DOMAIN page.tasks :
        /\ page.tasks[i] \in 1 .. created
        /\ i > 1 => /\ page.tasks[i] < page.tasks[i - 1]
                    /\ (page.tasks[i] + 1) .. (page.tasks[i - 1] - 1) \subseteq Missable
=============================================================================
