------------------------------ MODULE ReadApi ------------------------------
(***************************************************************************)
(* The read API of backend/src/api.ts, answering from the tables that the  *)
(* runs of module Indexer write at the same time.                          *)
(*                                                                         *)
(* A request is one D1 query and therefore one step, except the task       *)
(* detail, which takes two.  A client of the API walks through the pages   *)
(* of the list, asks for task details and remembers the newest             *)
(* latestTaskId; the indexer works on between any two of these steps.      *)
(*                                                                         *)
(* Refused requests read and change nothing, so they are only a guard.     *)
(* HTTP headers, the columns no property tells apart (addresses, hashes,   *)
(* transactions) and the joined artifact_checks are left out.              *)
(***************************************************************************)
EXTENDS IndexerProperties

CONSTANTS
    Requests,      \* the requests clients send, see RequestType
    DefaultLimit,  \* page size when the request names none
    MaxLimit       \* largest page size

\* <<>> is an absent parameter, <<0>> one that is no number in range.
Param == {<<>>} \cup [1 .. 1 -> Nat]
Filter == [status : {"any", "invalid"} \cup RowStatus, who : {"any", "invalid"} \cup People,
           as : {"creator", "worker"}]

RequestType == [origin : {"none", "listed", "foreign"}, method : {"GET", "OPTIONS", "POST"},
                path : {"health", "protocol", "tasks", "task", "other"},
                limit : Param, cursor : Param, filter : Filter, id : Param]

ASSUME RequestAssumption ==
    /\ DefaultLimit \in Nat \ {0} /\ MaxLimit \in Nat \ {0} /\ DefaultLimit <= MaxLimit
    /\ Requests \subseteq RequestType /\ Tasks \subseteq Nat \ {0} /\ IsFiniteSet(Tasks)

\* createTask hands out ids in turn, which module TaskBounty establishes.
ASSUME IdAssumption ==
    \A c \in Chains : \A i \in DOMAIN c : c[i].name = "TaskCreated" =>
        c[i].task = Cardinality({j \in 1 .. i : c[j].name = "TaskCreated"})

VARIABLES
    detail,    \* the handler of a detail request, and its last answer
    walk,      \* the client's walk through the pages
    known      \* latestTaskId as the client heard it, 0 for never

client == <<detail, walk, known>>
apiVars == <<vars, client>>

NoDetail == [pc |-> "idle", task |-> 0, row |-> NoRow, events |-> {}]
NoWalk == [pc |-> "idle", filter |-> [status |-> "any", who |-> "any", as |-> "worker"],
           limit |-> DefaultLimit, cursor |-> <<>>, listed |-> <<>>, kept |-> {}]

ApiInit == Init /\ detail = NoDetail /\ walk = NoWalk /\ known = 0

-----------------------------------------------------------------------------
(* handleApiRequest and the parsing of parameters *)

(* Definitions named Bad... are variants of the code with one plausible bug *)
(* each; nothing refers to them.  They show what the properties see.       *)

ParseLimit(p) ==
    IF p = <<>> THEN <<DefaultLimit>> ELSE IF p[1] \in 1 .. MaxLimit THEN p ELSE <<0>>

ParseCursor(p) == p

InvalidList(r) ==
    \/ ParseLimit(r.limit) = <<0>> \/ ParseCursor(r.cursor) = <<0>>
    \/ r.filter.status = "invalid"
    \/ r.filter.who = "invalid"

\* The HTTP status of a request that is refused before any query, or 0.
Refusal(r) ==
    IF r.origin = "foreign" THEN 403
    ELSE IF r.method = "OPTIONS" THEN 204
    ELSE IF r.method # "GET" THEN 405
    ELSE IF r.path = "tasks" /\ InvalidList(r) THEN 400
    ELSE IF r.path = "task" /\ r.id = <<0>> THEN 400
    ELSE IF r.path = "other" \/ (r.path = "task" /\ r.id = <<>>) THEN 404
    ELSE 0

Served(path) == {r \in Requests : r.path = path /\ Refusal(r) = 0}

-----------------------------------------------------------------------------
(* GET /v1/protocol *)

NextTaskIdAt(b) == 1 + Cardinality({e \in UpTo(b) : e.name = "TaskCreated"})

\* One query joins protocol_state with sync_state; 503 before the first snapshot.
Protocol ==
    /\ Served("protocol") # {} /\ snapshot >= StartBlock
    /\ known' = NextTaskIdAt(snapshot) - 1
    /\ UNCHANGED <<vars, detail, walk>>

-----------------------------------------------------------------------------
(* GET /v1/tasks *)

CreatedBy(t, a, es) == \E e \in es : e.task = t /\ e.name = "TaskCreated" /\ e.who = a

\* The WHERE clauses of a list request on the tables rs and es; filters that are
\* absent say "any".
Matches(t, f, rs, es) ==
    /\ rs[t] # NoRow
    /\ f.status \in {"any", rs[t].status}
    /\ \/ f.who = "any"
       \/ f.as = "worker" /\ f.who = rs[t].worker
       \/ f.as = "creator" /\ CreatedBy(t, f.who, es)

BadSelected(f, cursor) ==            \* the page starts with the cursor itself
    {t \in Tasks : Matches(t, f, rows, events) /\ (cursor # <<>> => t <= cursor[1])}

Selected(f, cursor) ==
    {t \in Tasks : Matches(t, f, rows, events) /\ (cursor # <<>> => t < cursor[1])}

\* ORDER BY task_id DESC
Descending(ids) ==
    [k \in 1 .. Cardinality(ids) |->
        CHOOSE t \in ids : Cardinality({s \in ids : s >= t}) = k]

BadPage(f, cursor, limit) ==         \* the cursor is the extra row that was read
    LET found == Descending(Selected(f, cursor))
        more  == Len(found) > limit
    IN [items |-> SubSeq(found, 1, IF more THEN limit ELSE Len(found)),
        next  |-> IF more THEN <<found[limit + 1]>> ELSE <<>>]

\* The page and its nextCursor.
Page(f, cursor, limit) ==
    LET found == Descending(Selected(f, cursor))
        more  == Len(found) > limit
    IN [items |-> SubSeq(found, 1, IF more THEN limit ELSE Len(found)),
        next  |-> IF more THEN <<found[limit]>> ELSE <<>>]

\* Bound: what is listed is remembered up to one item more than there are tasks.
Remembered(items) == SubSeq(items, 1, Smaller(Len(items), 1 + Cardinality(Tasks)))

\* The walk after one more page; it ends with the page without nextCursor.
Walked(w) ==
    LET page == Page(w.filter, w.cursor, w.limit)
    IN [w EXCEPT !.pc = IF page.next = <<>> THEN "done" ELSE "walking",
                 !.cursor = page.next, !.listed = Remembered(@ \o page.items)]

FirstPage ==
    /\ walk.pc # "walking"
    /\ \E r \in Served("tasks") :
          walk' = Walked([NoWalk EXCEPT !.filter = r.filter, !.cursor = ParseCursor(r.cursor),
                              !.limit = ParseLimit(r.limit)[1],
                              !.kept = Selected(r.filter, ParseCursor(r.cursor))])
    /\ UNCHANGED <<vars, detail, known>>

NextPage ==
    /\ walk.pc = "walking"
    /\ walk' = Walked(walk)
    /\ UNCHANGED <<vars, detail, known>>

-----------------------------------------------------------------------------
(* GET /v1/tasks/:id *)

\* taskFromRow of the task's row, with its artifact fields left out.
TaskFromRow(t) == [id |-> t, status |-> rows[t].status, worker |-> rows[t].worker,
                   timeline |-> rows[t].at]

EventsOf(t) == {e \in events : e.task = t}

BadTaskDetail ==                     \* the events are read before the row
    \/ /\ detail.pc # "row"
       /\ \E r \in Served("task") : \E t \in Tasks :
             /\ r.id = <<t>>
             /\ detail' = [NoDetail EXCEPT !.pc = "row", !.task = t, !.events = EventsOf(t)]
       /\ UNCHANGED <<vars, walk, known>>
    \/ /\ detail.pc = "row"
       /\ detail' = IF rows[detail.task] = NoRow
                    THEN [NoDetail EXCEPT !.pc = "missing", !.task = detail.task]
                    ELSE [detail EXCEPT !.pc = "answered", !.row = TaskFromRow(detail.task)]
       /\ UNCHANGED <<vars, walk, known>>

\* The first query reads the row of the task, or answers 404; the second reads
\* the events, and answers.
TaskDetail ==
    \/ /\ detail.pc # "row"
       /\ \E r \in Served("task") : \E t \in Tasks :
             /\ r.id = <<t>>
             /\ detail' = IF rows[t] = NoRow THEN [NoDetail EXCEPT !.pc = "missing", !.task = t]
                          ELSE [NoDetail EXCEPT !.pc = "row", !.task = t, !.row = TaskFromRow(t)]
       /\ UNCHANGED <<vars, walk, known>>
    \/ /\ detail.pc = "row"
       /\ detail' = [detail EXCEPT !.pc = "answered", !.events = EventsOf(detail.task)]
       /\ UNCHANGED <<vars, walk, known>>

-----------------------------------------------------------------------------
(* The indexer goes on; kept is what has matched the filter all along. *)
IndexerStep ==
    /\ Next
    /\ walk' = [walk EXCEPT !.kept = {t \in @ : Matches(t, walk.filter, rows', events')}]
    /\ UNCHANGED <<detail, known>>

ApiNext == IndexerStep \/ Protocol \/ FirstPage \/ NextPage \/ TaskDetail

\* The client goes on with a walk it has begun.
ApiSpec == ApiInit /\ [][ApiNext]_apiVars /\ WF_apiVars(NextPage)

-----------------------------------------------------------------------------
\* A detail answer never shows a step of a task (a timeline entry, its worker)
\* without the event that proves it, although row and events are two queries.
DetailIsProven ==
    detail.pc = "answered" =>
        \A n \in EventName : detail.row.timeline[n] # 0 =>
            \E e \in detail.events :
                /\ e.name = n /\ e.block = detail.row.timeline[n]
                /\ n = "TaskAccepted" => e.who = detail.row.worker

\* While the indexer inserts tasks and moves them between filters, a walk through
\* the pages lists no task twice and misses none that matches all along.
WalkIsExact ==
    /\ \A i, j \in DOMAIN walk.listed : i < j => walk.listed[i] > walk.listed[j]
    /\ walk.pc = "done" => \A t \in walk.kept : \E i \in DOMAIN walk.listed : walk.listed[i] = t

\* Every task that latestTaskId of /v1/protocol counts can be read from /v1/tasks,
\* unless the explorer has left out an event of it.
CountedIsListed ==
    \A t \in 1 .. known : rows[t] = NoRow => \E e \in UpTo(checkpoint) \ events : e.task = t

\* A walk comes to its last page, however fast tasks are created.
WalkEnds == (walk.pc = "walking") ~> (walk.pc = "done")
=============================================================================
