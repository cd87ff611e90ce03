-------------------------- MODULE TaskMarketProofs --------------------------
(***************************************************************************)
(* Proofs about the list of recent tasks, for any number of tasks, any     *)
(* page length, any lag of the indexer, any omissions of the explorer and  *)
(* any age of what the HTTP cache keeps: what is counted is listed         *)
(* (CountedAreListed), the list is exact (ListIsExact), and count and list *)
(* are of one source (SourcesAgree), each with the exceptions it states.   *)
(*                                                                         *)
(* The invariant MInv follows a list from where it is read to the page.    *)
(* It is seldom that of the present moment: what stays true of it is that  *)
(* it misses no task up to one it goes through, and that this one comes    *)
(* no earlier than the count, unless the HTTP cache has kept the list.     *)
(***************************************************************************)
EXTENDS TaskMarket, TLAPS

Overviews == [source : Sources, latest : Nat]

(* The indexer's rows are the tasks of the blocks it has projected, but for omitted *)
(* ones, and its snapshot is of such a block.                                       *)
RowsInv ==
    /\ created \in Nat /\ scanned \in 0 .. created /\ counted \in 0 .. scanned
    /\ rows \subseteq 1 .. scanned
    /\ (1 .. scanned) \ MayOmit \subseteq rows

Exempt(source) == IF source = "indexer" THEN MayOmit ELSE {}

(* Tasks of n existing ones, the newest first: every task up to the given one is *)
(* listed, or exempt, or below a full page.                                      *)
Listed(n, list, source, through) ==
    /\ list \in Seq(Nat)
    /\ \A i \in 1 .. Len(list) : list[i] \in 1 .. n /\ list[i] <= through
    /\ \A i, j \in 1 .. Len(list) : i < j => list[i] > list[j]
    /\ \A id \in 1 .. through :
           \/ id \in Exempt(source)
           \/ \E i \in 1 .. Len(list) : list[i] = id
           \/ Len(list) = Limit /\ \A i \in 1 .. Len(list) : list[i] > id

(* A list that goes with an overview: it goes through the tasks that one counted, *)
(* unless the HTTP cache kept the list.                                           *)
Complete(n, list, overview, from) ==
    /\ overview \in Overviews /\ from \in {"indexer", "cache", "rpc"}
    /\ from = "rpc" <=> overview.source = "rpc"
    /\ \E through \in Nat : /\ from # "cache" => through >= overview.latest
                            /\ Listed(n, list, overview.source, through)

(* What the HTTP cache keeps has once been the answer. *)
KeptInv ==
    /\ kept = [overview |-> kept.overview, tasks |-> kept.tasks]
    /\ kept.overview \subseteq 0 .. scanned
    /\ \A list \in kept.tasks : \E through \in Nat : Listed(created, list, "indexer", through)

(* What the load has so far. *)
LoadInv ==
    \/ load.stage \in {"idle", "overview", "rpcOverview", "briefs"}
    \/ /\ load.stage = "tasks"
       /\ load.overview \in Overviews
       /\ load.overview.source = "indexer" /\ load.overview.latest <= scanned
    \/ /\ load.stage = "rpcTasks"
       /\ load.overview \in Overviews
       /\ load.overview.source = "rpc" /\ load.overview.latest <= created
    \/ load.stage = "ready" /\ Complete(created, load.tasks, load.overview, load.from)

Pages == [overview : [source : Sources \cup {"none"}, latest : Nat], tasks : Seq(Nat),
          from : {"indexer", "cache", "rpc", "none"},
          briefs : {"none", "checking", "checked"},
          loading : BOOLEAN, enriching : BOOLEAN, error : BOOLEAN]

PageInv ==
    /\ page \in Pages
    /\ \/ page.tasks = <<>> /\ page.overview = NoOverview /\ page.from = "none"
       \/ Complete(created, page.tasks, page.overview, page.from)

MInv == RowsInv /\ KeptInv /\ LoadInv /\ PageInv

-----------------------------------------------------------------------------
(* The smaller of the count and the page's length *)
LEMMA NewestIs ==
    ASSUME NEW c \in Nat
    PROVE  Newest(c) \in Nat /\ Newest(c) <= c /\ Newest(c) <= Limit /\ Newest(c) \in {c, Limit}
<1>1. Limit \in Nat
  BY MarketAssumption
<1>2. \E x \in {c, Limit} : \A y \in {c, Limit} : x <= y
  BY <1>1
<1> QED
  BY <1>1, <1>2 DEF Newest, Min

(* What was listed stays listed while tasks are created. *)
LEMMA ListedLasts ==
    ASSUME NEW m \in Nat, NEW n \in Nat, m <= n, NEW list, NEW source, NEW through,
           Listed(m, list, source, through)
    PROVE  Listed(n, list, source, through)
<1>1. ASSUME NEW i \in 1 .. Len(list) PROVE list[i] \in 1 .. n
  <2>1. list[i] \in 1 .. m
    BY DEF Listed
  <2>2. PICK id : id = list[i]
    OBVIOUS
  <2> QED
    BY <2>1, <2>2
<1> QED
  BY <1>1, Zenon DEF Listed

LEMMA CompleteLasts ==
    ASSUME NEW m \in Nat, NEW n \in Nat, m <= n, NEW list, NEW overview, NEW from,
           Complete(m, list, overview, from)
    PROVE  Complete(n, list, overview, from)
<1>1. PICK through \in Nat : /\ from # "cache" => through >= overview.latest
                             /\ Listed(m, list, overview.source, through)
  BY DEF Complete
<1>2. Listed(n, list, overview.source, through)
  BY <1>1, ListedLasts
<1> QED
  BY <1>1, <1>2 DEF Complete

(* The page the indexer answers with goes through all that has been projected. *)
LEMMA IndexedPageListed ==
    ASSUME RowsInv, NEW list \in IndexedPages
    PROVE  Listed(created, list, "indexer", scanned)
<1>1. PICK m \in 0 .. Limit : list \in [1 .. m -> rows]
  BY DEF IndexedPages, BoundedSeq, SeqOf
<1>2. m \in Nat /\ rows \subseteq Nat /\ scanned \in Nat /\ created \in Nat
  BY <1>1, MarketAssumption DEF RowsInv
<1>3. list \in Seq(Nat) /\ Len(list) = m /\ DOMAIN list = 1 .. m
  <2>1. list \in [1 .. m -> Nat]
    BY <1>1, <1>2
  <2> QED
    BY <1>2, <2>1
<1>4. ASSUME NEW i \in 1 .. m PROVE list[i] \in 1 .. created /\ list[i] <= scanned
  <2>1. PICK id \in rows : id = list[i]
    BY <1>1
  <2> QED
    BY <1>2, <2>1 DEF RowsInv
<1>5. NewestFirst(list)
  BY DEF IndexedPages
<1>6. \A i, j \in 1 .. m : i < j => list[i] > list[j]
  BY <1>3, <1>5 DEF NewestFirst
<1>7. ASSUME NEW id \in 1 .. scanned, id \notin Exempt("indexer")
      PROVE  \/ \E i \in 1 .. m : list[i] = id
             \/ m = Limit /\ \A i \in 1 .. m : list[i] > id
  <2>1. id \in rows
    BY <1>7 DEF RowsInv, Exempt
  <2> QED
    BY <1>3, <1>5, <2>1 DEF NewestFirst, Range
<1> QED
  BY <1>3, <1>4, <1>6, <1>7 DEF Listed

(* The tasks read from the RPC go through all that its overview counted. *)
LEMMA RpcPageListed ==
    ASSUME RowsInv, NEW latest \in Nat, latest <= created,
           NEW list, list = [i \in 1 .. Newest(latest) |-> latest - i + 1]
    PROVE  Listed(created, list, "rpc", latest)
<1>1. PICK k \in Nat : k = Newest(latest)
  BY NewestIs
<1>2. k <= latest /\ (k = latest \/ k = Limit) /\ created \in Nat
  BY <1>1, NewestIs DEF RowsInv
<1>3. list = [i \in 1 .. k |-> latest - i + 1]
  BY <1>1
<1>4. \A i \in 1 .. k : latest - i + 1 \in Nat
  BY <1>1, <1>2
<1>5. list \in Seq(Nat) /\ Len(list) = k /\ \A i \in 1 .. k : list[i] = latest - i + 1
  BY <1>1, <1>3, <1>4
<1>6. \A i \in 1 .. k : list[i] \in 1 .. created /\ list[i] <= latest
  BY <1>1, <1>2, <1>5
<1>7. \A i, j \in 1 .. k : i < j => list[i] > list[j]
  BY <1>1, <1>5
<1>8. ASSUME NEW id \in 1 .. latest
      PROVE  \/ \E i \in 1 .. k : list[i] = id
             \/ k = Limit /\ \A i \in 1 .. k : list[i] > id
  <2>1. CASE latest - id + 1 <= k
    <3>1. latest - id + 1 \in 1 .. k /\ list[latest - id + 1] = id
      BY <1>1, <1>5, <2>1
    <3> QED
      BY <3>1
  <2>2. CASE ~(latest - id + 1 <= k)
    BY <1>1, <1>2, <1>5, <2>2
  <2> QED
    BY <2>1, <2>2
<1> QED
  BY <1>5, <1>6, <1>7, <1>8 DEF Listed

-----------------------------------------------------------------------------
LEMMA InitHolds ==
    Init => MInv
<1> SUFFICES ASSUME Init PROVE MInv
  OBVIOUS
<1>1. RowsInv
  BY DEF Init, RowsInv
<1>2. LoadInv
  BY DEF Init, LoadInv, IdleLoad
<1>3. PageInv
  BY DEF Init, PageInv, Pages, EmptyPage, NoOverview
<1>4. KeptInv
  BY DEF Init, KeptInv
<1> QED
  BY <1>1, <1>2, <1>3, <1>4 DEF MInv

(* While tasks are created and the indexer follows, what was read stays true of them. *)
LEMMA GrowthKeeps ==
    ASSUME MInv, RowsInv', created <= created', scanned <= scanned',
           UNCHANGED <<kept, load, page>>
    PROVE  MInv'
<1>1. created \in Nat /\ created' \in Nat /\ scanned \in Nat /\ scanned' \in Nat
  BY DEF MInv, RowsInv
<1>2. kept' = kept /\ load' = load /\ page' = page
  OBVIOUS
<1>3. KeptInv'
  <2>1. KeptInv
    BY DEF MInv
  <2>2. kept.overview \subseteq 0 .. scanned'
    BY <1>1, <2>1 DEF KeptInv
  <2>3. ASSUME NEW list \in kept.tasks
        PROVE  \E through \in Nat : Listed(created', list, "indexer", through)
    <3>1. PICK through \in Nat : Listed(created, list, "indexer", through)
      BY <2>1 DEF KeptInv
    <3>2. Listed(created', list, "indexer", through)
      BY <1>1, <3>1, ListedLasts
    <3> QED
      BY <3>2
  <2> QED
    BY <1>2, <2>1, <2>2, <2>3 DEF KeptInv
<1>4. LoadInv'
  <2>1. CASE load.stage \in {"idle", "overview", "rpcOverview", "briefs"}
    BY <1>2, <2>1 DEF LoadInv
  <2>2. CASE load.stage = "tasks"
    <3>1. /\ load.overview \in Overviews
          /\ load.overview.source = "indexer" /\ load.overview.latest <= scanned
      BY <2>2 DEF LoadInv, MInv
    <3>2. PICK latest \in Nat : latest = load.overview.latest
      BY <3>1 DEF Overviews
    <3>3. latest <= scanned'
      BY <1>1, <3>1, <3>2
    <3> QED
      BY <1>2, <2>2, <3>1, <3>2, <3>3 DEF LoadInv
  <2>3. CASE load.stage = "rpcTasks"
    <3>1. /\ load.overview \in Overviews
          /\ load.overview.source = "rpc" /\ load.overview.latest <= created
      BY <2>3 DEF LoadInv, MInv
    <3>2. PICK latest \in Nat : latest = load.overview.latest
      BY <3>1 DEF Overviews
    <3>3. latest <= created'
      BY <1>1, <3>1, <3>2
    <3> QED
      BY <1>2, <2>3, <3>1, <3>2, <3>3 DEF LoadInv
  <2>4. CASE load.stage = "ready"
    <3>1. Complete(created, load.tasks, load.overview, load.from)
      BY <2>4 DEF LoadInv, MInv
    <3>2. Complete(created', load.tasks, load.overview, load.from)
      BY <1>1, <3>1, CompleteLasts
    <3> QED
      BY <1>2, <2>4, <3>2 DEF LoadInv
  <2> QED
    BY <2>1, <2>2, <2>3, <2>4 DEF LoadInv, MInv
<1>5. PageInv'
  <2>1. CASE page.tasks = <<>> /\ page.overview = NoOverview /\ page.from = "none"
    BY <1>2, <2>1 DEF PageInv, MInv
  <2>2. CASE Complete(created, page.tasks, page.overview, page.from)
    <3>1. Complete(created', page.tasks, page.overview, page.from)
      BY <1>1, <2>2, CompleteLasts
    <3> QED
      BY <1>2, <3>1 DEF PageInv, MInv
  <2> QED
    BY <2>1, <2>2 DEF PageInv, MInv
<1> QED
  BY <1>3, <1>4, <1>5 DEF MInv

LEMMA ChainAndIndexerKeep ==
    ASSUME MInv, TaskIsCreated \/ IndexerStep
    PROVE  MInv'
<1>1. RowsInv
  BY DEF MInv
<1>2. created \in Nat /\ scanned \in Nat /\ counted \in Nat
  BY <1>1 DEF RowsInv
<1>3. kept' = kept /\ load' = load /\ page' = page
  BY DEF TaskIsCreated, IndexerStep, IndexerScans, IndexerReplays, IndexerCounts
<1>4. CASE TaskIsCreated
  BY <1>1, <1>2, <1>3, <1>4, GrowthKeeps DEF TaskIsCreated, RowsInv
<1>5. CASE IndexerScans
  <2>1. /\ scanned' = scanned + 1 /\ scanned < created
        /\ created' = created /\ counted' = counted
        /\ rows' = rows \cup {scanned'} \/ (scanned' \in MayOmit /\ rows' = rows)
    BY <1>5 DEF IndexerScans
  <2>2. ASSUME NEW id \in rows' PROVE id \in 1 .. scanned'
    <3>1. id \in rows \/ id = scanned'
      BY <2>1
    <3>2. id \in 1 .. scanned \/ id = scanned'
      BY <1>1, <3>1 DEF RowsInv
    <3> QED
      BY <1>2, <2>1, <3>2
  <2>3. ASSUME NEW id \in 1 .. scanned', id \notin MayOmit PROVE id \in rows'
    <3>1. id \in 1 .. scanned \/ id = scanned'
      BY <1>2, <2>1
    <3> QED
      BY <1>1, <2>1, <2>3, <3>1 DEF RowsInv
  <2>4. RowsInv'
    BY <1>1, <1>2, <2>1, <2>2, <2>3 DEF RowsInv
  <2> QED
    BY <1>2, <1>3, <2>1, <2>4, GrowthKeeps
<1>6. CASE IndexerReplays
  <2>1. RowsInv' /\ created' = created /\ scanned' = scanned
    BY <1>1, <1>6 DEF IndexerReplays, RowsInv
  <2> QED
    BY <1>2, <1>3, <2>1, GrowthKeeps
<1>7. CASE IndexerCounts
  <2>1. RowsInv' /\ created' = created /\ scanned' = scanned
    BY <1>1, <1>7 DEF IndexerCounts, RowsInv
  <2> QED
    BY <1>2, <1>3, <2>1, GrowthKeeps
<1> QED
  BY <1>4, <1>5, <1>6, <1>7 DEF IndexerStep

(* The HTTP cache holds what the read API has answered. *)
LEMMA KeptCount ==
    ASSUME MInv, UNCHANGED chainAndIndexer, NEW count \in 0 .. scanned,
           kept' = [kept EXCEPT !.overview = {count}]
    PROVE  KeptInv'
<1>1. KeptInv /\ created' = created /\ scanned' = scanned
  BY DEF MInv, chainAndIndexer
<1>2. kept' = [overview |-> {count}, tasks |-> kept.tasks]
  BY <1>1 DEF KeptInv
<1> QED
  BY <1>1, <1>2 DEF KeptInv

LEMMA KeptList ==
    ASSUME MInv, UNCHANGED chainAndIndexer,
           NEW list, NEW through \in Nat, Listed(created, list, "indexer", through),
           kept' = [kept EXCEPT !.tasks = {list}]
    PROVE  KeptInv'
<1>1. KeptInv /\ created' = created /\ scanned' = scanned
  BY DEF MInv, chainAndIndexer
<1>2. kept' = [overview |-> kept.overview, tasks |-> {list}]
  BY <1>1 DEF KeptInv
<1> QED
  BY <1>1, <1>2 DEF KeptInv

LEMMA KeptStays ==
    ASSUME MInv, UNCHANGED chainAndIndexer, kept' = kept
    PROVE  KeptInv'
BY DEF MInv, KeptInv, chainAndIndexer

LEMMA RowsStay ==
    ASSUME MInv, UNCHANGED chainAndIndexer
    PROVE  RowsInv' /\ created' = created /\ scanned' = scanned
BY DEF MInv, RowsInv, chainAndIndexer

LEMMA PageStays ==
    ASSUME MInv, UNCHANGED chainAndIndexer, page' = page
    PROVE  PageInv'
BY DEF MInv, PageInv, chainAndIndexer

LEMMA RevalidationKeeps ==
    ASSUME MInv, HttpCacheRevalidates
    PROVE  MInv'
<1>1. UNCHANGED chainAndIndexer /\ load' = load /\ page' = page
  BY DEF HttpCacheRevalidates
<1>2. KeptInv'
  <2>1. CASE kept' = [kept EXCEPT !.overview = {counted}]
    <3>1. counted \in 0 .. scanned
      BY DEF MInv, RowsInv
    <3> QED
      BY <1>1, <2>1, <3>1, KeptCount
  <2>2. CASE \E list \in IndexedPages : kept' = [kept EXCEPT !.tasks = {list}]
    <3>1. PICK list \in IndexedPages : kept' = [kept EXCEPT !.tasks = {list}]
      BY <2>2
    <3>2. Listed(created, list, "indexer", scanned) /\ scanned \in Nat
      BY IndexedPageListed DEF MInv, RowsInv
    <3> QED
      BY <1>1, <3>1, <3>2, KeptList
  <2> QED
    BY <2>1, <2>2 DEF HttpCacheRevalidates
<1>3. RowsInv' /\ created' = created /\ scanned' = scanned /\ PageInv'
  BY <1>1, RowsStay, PageStays
<1>4. LoadInv'
  BY <1>1, <1>3 DEF MInv, LoadInv
<1> QED
  BY <1>2, <1>3, <1>4 DEF MInv

(* The page: a load begins, is shown, or ends. *)
LEMMA PageStepKeeps ==
    ASSUME MInv, Load \/ TasksArrive \/ BriefsArrive \/ LoadFails \/ Remount
    PROVE  MInv'
<1>1. UNCHANGED chainAndIndexer /\ kept' = kept
  BY DEF Load, TasksArrive, BriefsArrive, LoadFails, Remount
<1>2. RowsInv' /\ KeptInv' /\ created' = created
  BY <1>1, RowsStay, KeptStays
<1>3. page \in Pages
  BY DEF MInv, PageInv
<1>4. ASSUME page' \in Pages, page'.tasks = page.tasks, page'.overview = page.overview,
             page'.from = page.from
      PROVE  PageInv'
  BY <1>2, <1>4 DEF MInv, PageInv
<1>5. CASE Load
  <2>1. LoadInv'
    BY <1>5 DEF Load, LoadInv
  <2>2. /\ page' \in Pages /\ page'.tasks = page.tasks /\ page'.overview = page.overview
        /\ page'.from = page.from
    BY <1>3, <1>5 DEF Load, Pages
  <2> QED
    BY <1>2, <1>4, <2>1, <2>2 DEF MInv
<1>6. CASE TasksArrive
  <2>1. Complete(created, load.tasks, load.overview, load.from)
    BY <1>6 DEF TasksArrive, LoadInv, MInv
  <2>2. /\ load.overview \in Overviews /\ load.tasks \in Seq(Nat)
        /\ load.from \in {"indexer", "cache", "rpc"}
    BY <2>1 DEF Complete, Listed
  <2>3. /\ page' \in Pages /\ page'.tasks = load.tasks /\ page'.overview = load.overview
        /\ page'.from = load.from
    BY <1>6, <2>2 DEF TasksArrive, Pages, Overviews
  <2>4. PageInv'
    BY <1>2, <2>1, <2>3 DEF PageInv
  <2>5. LoadInv'
    BY <1>6 DEF TasksArrive, LoadInv
  <2> QED
    BY <1>2, <2>4, <2>5 DEF MInv
<1>7. CASE BriefsArrive \/ LoadFails
  <2>1. LoadInv'
    BY <1>7 DEF BriefsArrive, LoadFails, LoadInv, IdleLoad
  <2>2. /\ page' \in Pages /\ page'.tasks = page.tasks /\ page'.overview = page.overview
        /\ page'.from = page.from
    <3>1. CASE BriefsArrive
      BY <1>3, <3>1 DEF BriefsArrive, Pages
    <3>2. CASE LoadFails
      BY <1>3, <3>2 DEF LoadFails, Pages
    <3> QED
      BY <1>7, <3>1, <3>2
  <2> QED
    BY <1>2, <1>4, <2>1, <2>2 DEF MInv
<1>8. CASE Remount
  <2>1. LoadInv'
    BY <1>8 DEF Remount, LoadInv, IdleLoad
  <2>2. PageInv'
    BY <1>8 DEF Remount, PageInv, Pages, EmptyPage, NoOverview
  <2> QED
    BY <1>2, <2>1, <2>2 DEF MInv
<1> QED
  BY <1>5, <1>6, <1>7, <1>8

(* The indexer's answers, or those the HTTP cache kept. *)
LEMMA OverviewAnswerKeeps ==
    ASSUME MInv, NEW answer \in Answers, OverviewAnswers(answer)
    PROVE  MInv'
<1>1. UNCHANGED chainAndIndexer /\ page' = page
  BY DEF OverviewAnswers
<1>2. RowsInv' /\ PageInv' /\ created' = created /\ scanned' = scanned
  BY <1>1, RowsStay, PageStays
<1>3. PICK count \in {counted} \cup kept.overview :
         /\ \/ load' = [stage |-> "rpcOverview"]
            \/ load' = [stage |-> "tasks", overview |-> [source |-> "indexer", latest |-> count]]
         /\ kept' = [kept EXCEPT !.overview = {count}] \/ kept' = kept
  BY DEF OverviewAnswers
<1>4. count \in 0 .. scanned /\ scanned \in Nat
  BY <1>3 DEF MInv, RowsInv, KeptInv
<1>5. KeptInv'
  BY <1>1, <1>3, <1>4, KeptCount, KeptStays
<1>6. LoadInv'
  <2>1. CASE load' = [stage |-> "rpcOverview"]
    BY <2>1 DEF LoadInv
  <2>2. CASE load' = [stage |-> "tasks", overview |-> [source |-> "indexer", latest |-> count]]
    <3>1. /\ load'.stage = "tasks" /\ load'.overview.source = "indexer"
          /\ load'.overview.latest = count /\ load'.overview \in Overviews
      BY <1>4, <2>2 DEF Overviews, Sources
    <3> QED
      BY <1>2, <1>4, <3>1 DEF LoadInv
  <2> QED
    BY <1>3, <2>1, <2>2
<1> QED
  BY <1>2, <1>5, <1>6 DEF MInv

LEMMA TasksAnswerKeeps ==
    ASSUME MInv, NEW answer \in Answers, TasksAnswer(answer)
    PROVE  MInv'
<1>1. UNCHANGED chainAndIndexer /\ page' = page /\ load.stage = "tasks"
  BY DEF TasksAnswer
<1>2. RowsInv' /\ PageInv' /\ created' = created /\ scanned' = scanned
  BY <1>1, RowsStay, PageStays
<1>3. PICK from \in {"indexer", "cache"} :
         \E list \in IF from = "cache" THEN kept.tasks ELSE IndexedPages :
            /\ load' = Ready(load.overview, list, from) \/ load' = [stage |-> "rpcOverview"]
            /\ kept' = [kept EXCEPT !.tasks = {list}] \/ kept' = kept
  BY DEF TasksAnswer
<1>4. PICK list \in IF from = "cache" THEN kept.tasks ELSE IndexedPages :
         /\ load' = Ready(load.overview, list, from) \/ load' = [stage |-> "rpcOverview"]
         /\ kept' = [kept EXCEPT !.tasks = {list}] \/ kept' = kept
  BY <1>3
<1>5. /\ load.overview \in Overviews
      /\ load.overview.source = "indexer" /\ load.overview.latest <= scanned
  BY <1>1 DEF MInv, LoadInv
<1>6. \E through \in Nat : /\ from # "cache" => through >= load.overview.latest
                           /\ Listed(created, list, "indexer", through)
  <2>1. CASE from = "cache"
    BY <1>4, <2>1 DEF MInv, KeptInv
  <2>2. CASE from # "cache"
    <3>1. Listed(created, list, "indexer", scanned)
      BY <1>4, <2>2, IndexedPageListed DEF MInv
    <3>2. scanned \in Nat /\ load.overview.latest \in Nat /\ scanned >= load.overview.latest
      BY <1>5 DEF MInv, RowsInv, Overviews
    <3> QED
      BY <3>1, <3>2
  <2> QED
    BY <2>1, <2>2
<1>7. KeptInv'
  <2>1. PICK through \in Nat : Listed(created, list, "indexer", through)
    BY <1>6
  <2>2. CASE kept' = [kept EXCEPT !.tasks = {list}]
    BY <1>1, <2>1, <2>2, KeptList
  <2>3. CASE kept' = kept
    BY <1>1, <2>3, KeptStays
  <2> QED
    BY <1>4, <2>2, <2>3
<1>8. LoadInv'
  <2>1. CASE load' = [stage |-> "rpcOverview"]
    BY <2>1 DEF LoadInv
  <2>2. CASE load' = Ready(load.overview, list, from)
    <3>1. Complete(created, list, load.overview, from)
      BY <1>3, <1>5, <1>6 DEF Complete
    <3>2. /\ load'.stage = "ready" /\ load'.tasks = list /\ load'.from = from
          /\ load'.overview = load.overview
      BY <2>2 DEF Ready
    <3> QED
      BY <1>2, <3>1, <3>2 DEF LoadInv
  <2> QED
    BY <1>4, <2>1, <2>2
<1> QED
  BY <1>2, <1>7, <1>8 DEF MInv

(* The RPC's answers. *)
LEMMA RpcAnswerKeeps ==
    ASSUME MInv, RpcOverviewAnswers \/ RpcTasksAnswer
    PROVE  MInv'
<1>1. UNCHANGED chainAndIndexer /\ page' = page /\ kept' = kept
  BY DEF RpcOverviewAnswers, RpcTasksAnswer
<1>2. RowsInv' /\ PageInv' /\ KeptInv' /\ created' = created /\ created \in Nat
  BY <1>1, RowsStay, PageStays, KeptStays DEF MInv, RowsInv
<1>3. CASE RpcOverviewAnswers
  <2>1. PICK latest \in 0 .. created :
           load' = [stage |-> "rpcTasks", overview |-> [source |-> "rpc", latest |-> latest]]
    BY <1>3 DEF RpcOverviewAnswers
  <2>2. /\ load'.stage = "rpcTasks" /\ load'.overview.source = "rpc"
        /\ load'.overview.latest = latest /\ load'.overview \in Overviews
    BY <2>1 DEF Overviews, Sources
  <2>3. latest <= created'
    BY <1>2, <2>1
  <2>4. LoadInv'
    BY <2>2, <2>3 DEF LoadInv
  <2> QED
    BY <1>2, <2>4 DEF MInv
<1>4. CASE RpcTasksAnswer
  <2>1. /\ load.overview \in Overviews
        /\ load.overview.source = "rpc" /\ load.overview.latest <= created
    BY <1>4 DEF RpcTasksAnswer, MInv, LoadInv
  <2>2. PICK latest \in Nat : latest = load.overview.latest
    BY <2>1 DEF Overviews
  <2>3. PICK list : list = [i \in 1 .. Newest(latest) |-> latest - i + 1]
    OBVIOUS
  <2>4. load' = Ready(load.overview, list, "rpc")
    BY <1>4, <2>2, <2>3 DEF RpcTasksAnswer
  <2>5. Listed(created, list, "rpc", latest)
    BY <2>1, <2>2, <2>3, RpcPageListed DEF MInv
  <2>6. Complete(created, list, load.overview, "rpc")
    BY <2>1, <2>2, <2>5 DEF Complete
  <2>7. /\ load'.stage = "ready" /\ load'.tasks = list /\ load'.from = "rpc"
        /\ load'.overview = load.overview
    BY <2>4 DEF Ready
  <2>8. LoadInv'
    BY <1>2, <2>6, <2>7 DEF LoadInv
  <2> QED
    BY <1>2, <2>8 DEF MInv
<1> QED
  BY <1>3, <1>4

LEMMA StepKeeps ==
    MInv /\ [Next]_vars => MInv'
<1> SUFFICES ASSUME MInv, [Next]_vars PROVE MInv'
  OBVIOUS
<1>1. CASE UNCHANGED vars
  <2>1. UNCHANGED chainAndIndexer /\ kept' = kept /\ load' = load /\ page' = page
    BY <1>1 DEF vars
  <2>2. RowsInv' /\ PageInv' /\ KeptInv' /\ created' = created /\ scanned' = scanned
    BY <2>1, RowsStay, PageStays, KeptStays
  <2>3. LoadInv'
    BY <2>1, <2>2 DEF MInv, LoadInv
  <2> QED
    BY <2>2, <2>3 DEF MInv
<1>2. CASE Next
  BY <1>2, ChainAndIndexerKeep, RevalidationKeeps, PageStepKeeps, OverviewAnswerKeeps,
     TasksAnswerKeeps, RpcAnswerKeeps DEF Next, LoadStep
<1> QED
  BY <1>1, <1>2

LEMMA Market ==
    Spec => []MInv
<1> QED
  BY InitHolds, StepKeeps, PTL DEF Spec

-----------------------------------------------------------------------------
(* The page, the HTTP cache and the indexer keep their types. *)
THEOREM MarketTyped ==
    Spec => []TypeOK
<1>1. MInv => TypeOK
  BY DEF MInv, RowsInv, KeptInv, PageInv, Pages, Listed, Tasks, TypeOK
<1> QED
  BY <1>1, Market, PTL

(* The count and the list are of one source, however the indexer fails in between *)
(* (lib/task-reader.ts, readRecentTasks).                                         *)
THEOREM OneSource ==
    Spec => []SourcesAgree
<1>1. MInv => SourcesAgree
  BY DEF MInv, PageInv, Complete, NoOverview, SourcesAgree
<1> QED
  BY <1>1, Market, PTL

(* What the page counts it lists, up to the length of the page, but for tasks whose *)
(* event the explorer omitted, unless the HTTP cache kept the list.                 *)
THEOREM CountedListed ==
    Spec => []CountedAreListed
<1>1. MInv => CountedAreListed
  <2> SUFFICES ASSUME MInv, page.from # "cache",
                      NEW id \in (1 .. page.overview.latest) \ Missable
               PROVE  \/ id \in ListedIds
                      \/ Len(page.tasks) = Limit /\ \A n \in ListedIds : n > id
    BY DEF CountedAreListed
  <2>1. page \in Pages
    BY DEF MInv, PageInv
  <2>2. PICK latest \in Nat : latest = page.overview.latest
    BY <2>1 DEF Pages
  <2>3. Complete(created, page.tasks, page.overview, page.from)
    <3>1. ASSUME page.overview = NoOverview PROVE FALSE
      BY <3>1 DEF NoOverview
    <3> QED
      BY <3>1 DEF MInv, PageInv
  <2>4. PICK through \in Nat : /\ through >= latest
                               /\ Listed(created, page.tasks, page.overview.source, through)
    BY <2>2, <2>3 DEF Complete
  <2>5. id \in 1 .. through
    BY <2>2, <2>4
  <2>6. id \notin Exempt(page.overview.source)
    BY DEF Exempt, Missable
  <2>7. page.tasks \in Seq(Nat) /\ DOMAIN page.tasks = 1 .. Len(page.tasks)
    BY <2>1 DEF Pages
  <2> QED
    BY <2>4, <2>5, <2>6, <2>7 DEF Listed, ListedIds, Range
<1> QED
  BY <1>1, Market, PTL

(* The list has existing tasks, newest first and each once, and between two of them *)
(* only a task is missing whose event the explorer omitted.                         *)
THEOREM ListExact ==
    Spec => []ListIsExact
<1>1. MInv => ListIsExact
  <2> SUFFICES ASSUME MInv, NEW i \in DOMAIN page.tasks
               PROVE  /\ page.tasks[i] \in 1 .. created
                      /\ i > 1 => /\ page.tasks[i] < page.tasks[i - 1]
                                  /\ (page.tasks[i] + 1) .. (page.tasks[i - 1] - 1)
                                         \subseteq Missable
    BY DEF ListIsExact
  <2>1. page.tasks \in Seq(Nat)
    BY DEF MInv, PageInv, Pages
  <2>2. i \in 1 .. Len(page.tasks) /\ Len(page.tasks) \in Nat
    BY <2>1
  <2>3. PICK through \in Nat : Listed(created, page.tasks, page.overview.source, through)
    BY <2>2 DEF MInv, PageInv, Complete
  <2>4. page.tasks[i] \in 1 .. created
    BY <2>2, <2>3 DEF Listed
  <2>5. ASSUME i > 1
        PROVE  /\ page.tasks[i] < page.tasks[i - 1]
               /\ (page.tasks[i] + 1) .. (page.tasks[i - 1] - 1) \subseteq Missable
    <3>1. i - 1 \in 1 .. Len(page.tasks) /\ i - 1 < i
      BY <2>2, <2>5
    <3>2. PICK low \in Nat, high \in Nat : low = page.tasks[i] /\ high = page.tasks[i - 1]
      BY <2>1, <2>2, <3>1
    <3>3. low < high /\ high <= through
      BY <2>2, <2>3, <3>1, <3>2 DEF Listed
    <3>4. ASSUME NEW id \in (low + 1) .. (high - 1) PROVE id \in Missable
      <4>1. id \in 1 .. through /\ low < id /\ id < high
        BY <3>3, <3>4
      <4>2. ASSUME NEW j \in 1 .. Len(page.tasks), page.tasks[j] = id PROVE FALSE
        <5>1. CASE j < i - 1
          <6>1. page.tasks[j] > page.tasks[i - 1]
            BY <2>3, <3>1, <4>2, <5>1 DEF Listed
          <6> QED
            BY <3>2, <4>1, <4>2, <6>1
        <5>2. CASE j > i
          <6>1. page.tasks[i] > page.tasks[j]
            BY <2>2, <2>3, <4>2, <5>2 DEF Listed
          <6> QED
            BY <3>2, <4>1, <4>2, <6>1
        <5>3. CASE j = i \/ j = i - 1
          BY <3>2, <4>1, <4>2, <5>3
        <5> QED
          BY <2>2, <4>2, <5>1, <5>2, <5>3
      <4>3. ~(\A j \in 1 .. Len(page.tasks) : page.tasks[j] > id)
        BY <2>2, <3>2, <4>1
      <4>4. id \in Exempt(page.overview.source)
        BY <2>3, <4>1, <4>2, <4>3 DEF Listed
      <4> QED
        BY <4>4 DEF Exempt, Missable
    <3> QED
      BY <3>2, <3>3, <3>4
  <2> QED
    BY <2>4, <2>5
<1> QED
  BY <1>1, Market, PTL
=============================================================================
