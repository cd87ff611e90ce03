-------------------------- MODULE DashboardProofs --------------------------
(***************************************************************************)
(* Proofs about the dashboard, for any results, number of blocks and loads *)
(* in flight.                                                              *)
(***************************************************************************)
EXTENDS Dashboard, TLAPS

Results == Hashes \cup {NoHash}

Blocks == [block : Nat, status : 0 .. 3, resultHash : Results, escrowed : Nat, contract : Nat,
           worker : Nat]

(* The chain has a newest block; results are what the contract stores. *)
ChainInv ==
    /\ blocks \subseteq Blocks
    /\ \E b \in blocks : \A c \in blocks : b.block >= c.block

(* What a load has read so far. *)
DataInv(l) ==
    /\ DOMAIN loads[l].data \subseteq Values
    /\ "resultHash" \in DOMAIN loads[l].data => loads[l].data["resultHash"] \in Results

(* At most one load, and the page waits for it; when it checks the bytes, the page *)
(* has its data.                                                                   *)
LoadInv ==
    /\ DOMAIN loads = Loads
    /\ \A k, l \in InFlight : k = l
    /\ InFlight # {} => page.loading
    /\ \A l \in InFlight : loads[l].stage \in {"reading", "checking"} /\ DataInv(l)
    /\ \A l \in InFlight : loads[l].stage = "checking" =>
           page.data = loads[l].data /\ DOMAIN page.data = Values

(* No verdict is shown while a load goes on. *)
PageInv ==
    /\ page.loading => page.check = NoCheck
    /\ page.check \in {NoCheck, "unavailable"} \cup Results
    /\ DOMAIN page.data \in {{}, Values}
    /\ VerdictFitsTask

DInv == ChainInv /\ LoadInv /\ PageInv

LEMMA ValuesNamed == "resultHash" \in Values /\ DOMAIN NoData = {}
BY DEF NoData, Values, FirstRound

LEMMA LatestThere == ChainInv => Latest \in blocks /\ \A c \in blocks : Latest.block >= c.block
BY DEF ChainInv, Latest

LEMMA InitDInv == Init => DInv
<1> SUFFICES ASSUME Init PROVE DInv
  OBVIOUS
<1>1. ChainInv
  BY DashboardAssumption DEF Init, Genesis, ChainInv, Blocks, Results
<1>2. InFlight = {}
  BY DEF Init, InFlight
<1>3. LoadInv
  BY <1>2 DEF Init, LoadInv
<1>4. PageInv
  BY ValuesNamed DEF Init, PageInv, VerdictFitsTask
<1> QED
  BY <1>1, <1>3, <1>4 DEF DInv

LEMMA MineKeeps == DInv /\ Mine => DInv'
<1> SUFFICES ASSUME DInv, Mine PROVE DInv'
  OBVIOUS
<1>1. LoadInv' /\ PageInv'
  <2>1. loads' = loads /\ page' = page
    BY DEF Mine
  <2>2. LoadInv'
    BY <2>1 DEF DInv, LoadInv, DataInv, InFlight
  <2>3. PageInv'
    BY <2>1 DEF DInv, PageInv, VerdictFitsTask, InFlight
  <2> QED
    BY <2>2, <2>3
<1>2. PICK b \in Blocks : blocks' = blocks \cup {b} /\ b.block = Latest.block + 1
  <2> DEFINE next == [Latest EXCEPT !.block = @ + 1]
  <2>1. next \in Blocks /\ next.block = Latest.block + 1
    BY LatestThere DEF DInv, ChainInv, Blocks
  <2> HIDE DEF next
  <2>2. ASSUME NEW h \in Hashes
        PROVE  LET b == [next EXCEPT !.status = 2, !.resultHash = h]
               IN  b \in Blocks /\ b.block = next.block
    <3> DEFINE c == [next EXCEPT !.status = 2]
    <3>1. c \in Blocks /\ c.block = next.block
      BY <2>1 DEF Blocks
    <3> HIDE DEF c
    <3>2. [c EXCEPT !.resultHash = h] \in Blocks /\ [c EXCEPT !.resultHash = h].block = c.block
      BY <3>1 DEF Blocks, Results
    <3> QED
      BY <3>1, <3>2 DEF c
  <2>3. LET b == [next EXCEPT !.status = 3, !.escrowed = 0, !.contract = 0, !.worker = Reward]
        IN  b \in Blocks /\ b.block = next.block
    <3> DEFINE c == [next EXCEPT !.status = 3]
               d == [c EXCEPT !.escrowed = 0]
    <3>1. c \in Blocks /\ c.block = next.block
      BY <2>1 DEF Blocks
    <3> HIDE DEF c
    <3>2. d \in Blocks /\ d.block = c.block
      BY <3>1 DEF Blocks
    <3> HIDE DEF d
    <3>3. [d EXCEPT !.contract = 0, !.worker = Reward] \in Blocks
          /\ [d EXCEPT !.contract = 0, !.worker = Reward].block = d.block
      BY <3>2, DashboardAssumption DEF Blocks
    <3> QED
      BY <3>1, <3>2, <3>3 DEF c, d
  <2> QED
    BY <2>1, <2>2, <2>3 DEF Mine, next
<1>3. \A c \in blocks : b.block >= c.block
  BY <1>2, LatestThere DEF DInv, ChainInv, Blocks
<1>4. b.block \in Nat
  BY <1>2, LatestThere DEF DInv, ChainInv, Blocks
<1>5. ChainInv'
  BY <1>2, <1>3, <1>4 DEF DInv, ChainInv
<1> QED
  BY <1>1, <1>5 DEF DInv

(* A load that starts, on a page that shows no verdict. *)
LEMMA StartKeeps ==
    ASSUME DInv, NEW l \in Loads, Start(l), InFlight = {}, UNCHANGED blocks,
           page'.loading, page'.check = NoCheck, page'.data = page.data
    PROVE  DInv'
<1>1. InFlight' = {l} /\ loads'[l] = [stage |-> "reading", data |-> NoData]
  BY DEF Start, InFlight, DInv, LoadInv, Idle
<1>2. LoadInv'
  BY <1>1, ValuesNamed DEF LoadInv, DataInv, Start, DInv
<1>3. PageInv'
  BY DEF DInv, PageInv, VerdictFitsTask
<1> QED
  BY <1>2, <1>3 DEF DInv, ChainInv

LEMMA AnswerKeeps ==
    ASSUME DInv, NEW l \in Loads, NEW n \in Values, CallAnswers(l, n) PROVE DInv'
<1> DEFINE d == [k \in DOMAIN loads[l].data \cup {n} |->
                     IF k = n THEN Latest[n] ELSE loads[l].data[k]]
<1>1. loads' = [loads EXCEPT ![l].data = d] /\ page' = page /\ loads[l].stage = "reading"
  BY DEF CallAnswers
<1>2. l \in InFlight /\ DataInv(l)
  BY <1>1 DEF InFlight, Idle, DInv, LoadInv
<1>3. Latest.resultHash \in Results
  BY LatestThere DEF DInv, ChainInv, Blocks
<1>4. DOMAIN d \subseteq Values /\ ("resultHash" \in DOMAIN d => d["resultHash"] \in Results)
  BY <1>2, <1>3 DEF DataInv
<1> HIDE DEF d
<1>5. /\ loads'[l].data = d /\ loads'[l].stage = "reading"
      /\ \A k \in Loads \ {l} : loads'[k] = loads[k]
  BY <1>1 DEF DInv, LoadInv
<1>6. InFlight' = InFlight
  BY <1>2, <1>5 DEF InFlight, Idle
<1>7. LoadInv'
  BY <1>1, <1>2, <1>4, <1>5, <1>6 DEF DInv, LoadInv, DataInv, InFlight
<1> QED
  BY <1>1, <1>7 DEF CallAnswers, DInv, ChainInv, PageInv, VerdictFitsTask

LEMMA DataKeeps ==
    ASSUME DInv, NEW l \in Loads, DataArrives(l) PROVE DInv'
<1>1. loads[l].stage = "reading" /\ DOMAIN loads[l].data = Values
      /\ page' = [page EXCEPT !.data = loads[l].data]
      /\ loads' = [loads EXCEPT ![l].stage = "checking"]
  BY DEF DataArrives
<1>2. l \in InFlight /\ DataInv(l) /\ page.loading
  BY <1>1 DEF InFlight, Idle, DInv, LoadInv
<1>3. page'.data = loads[l].data /\ page'.check = page.check /\ page'.loading = page.loading
  BY <1>1
<1>4. /\ loads'[l].data = loads[l].data /\ loads'[l].stage = "checking"
      /\ \A k \in Loads \ {l} : loads'[k] = loads[k]
  BY <1>1 DEF DInv, LoadInv
<1>5. InFlight' = InFlight
  BY <1>2, <1>4 DEF InFlight, Idle
<1>6. LoadInv'
  BY <1>1, <1>2, <1>3, <1>4, <1>5 DEF DInv, LoadInv, DataInv, InFlight
<1>7. PageInv'
  BY <1>1, <1>2, <1>3 DEF DInv, PageInv, VerdictFitsTask
<1> QED
  BY <1>6, <1>7 DEF DataArrives, DInv, ChainInv

(* A load that ends. *)
LEMMA EndKeeps ==
    ASSUME DInv, NEW l \in Loads, loads[l] # Idle, loads' = [loads EXCEPT ![l] = Idle],
           UNCHANGED blocks, page'.data = page.data, PageInv'
    PROVE  DInv'
<1>1. InFlight = {l}
  BY DEF InFlight, DInv, LoadInv
<1>2. InFlight' = {}
  BY <1>1 DEF InFlight, DInv, LoadInv
<1>3. LoadInv'
  BY <1>2 DEF DInv, LoadInv
<1> QED
  BY <1>3 DEF DInv, ChainInv

LEMMA ChecksKeep ==
    ASSUME DInv, NEW l \in Loads, ChecksArrive(l) PROVE DInv'
<1>1. PICK verdict \in {"unavailable", loads[l].data["resultHash"]} :
          page' = [page EXCEPT !.check = verdict, !.loading = FALSE]
  BY DEF ChecksArrive
<1>2. loads[l] # Idle /\ loads[l].stage = "checking" /\ loads' = [loads EXCEPT ![l] = Idle]
  BY DEF ChecksArrive, Idle
<1>3. page.data = loads[l].data /\ DOMAIN page.data = Values
      /\ loads[l].data["resultHash"] \in Results
  BY <1>2, ValuesNamed DEF InFlight, DInv, LoadInv, DataInv
<1>4. page'.check = verdict /\ ~page'.loading /\ page'.data = page.data
  BY <1>1
<1>5. PageInv'
  BY <1>3, <1>4, ValuesNamed DEF PageInv, VerdictFitsTask
<1> QED
  BY <1>2, <1>4, <1>5, EndKeeps DEF ChecksArrive

LEMMA FailureKeeps ==
    ASSUME DInv, NEW l \in Loads, LoadFails(l) PROVE DInv'
<1>1. loads[l] # Idle /\ loads' = [loads EXCEPT ![l] = Idle]
      /\ page' = [page EXCEPT !.error = TRUE, !.loading = FALSE]
  BY DEF LoadFails, Idle
<1>2. page'.check = page.check /\ ~page'.loading /\ page'.data = page.data
  BY <1>1
<1>3. PageInv'
  BY <1>2 DEF DInv, PageInv, VerdictFitsTask
<1> QED
  BY <1>1, <1>2, <1>3, EndKeeps DEF LoadFails

LEMMA DInvKeeps == DInv /\ [Next]_vars => DInv'
<1> SUFFICES ASSUME DInv, [Next]_vars PROVE DInv'
  OBVIOUS
<1>1. CASE Mine
  BY <1>1, MineKeeps
<1>2. ASSUME NEW l \in Loads, Mount(l) PROVE DInv'
  <2>1. InFlight = {} /\ page.loading /\ page' = page
    BY <1>2 DEF Mount, InFlight
  <2> QED
    BY <1>2, <2>1, StartKeeps DEF Mount, DInv, PageInv
<1>3. ASSUME NEW l \in Loads, Refresh(l) PROVE DInv'
  <2>1. InFlight = {}
    BY <1>3 DEF Refresh, DInv, LoadInv
  <2>2. page'.loading /\ page'.check = NoCheck /\ page'.data = page.data
    BY <1>3 DEF Refresh
  <2> QED
    BY <1>3, <2>1, <2>2, StartKeeps DEF Refresh
<1>4. ASSUME NEW l \in Loads, LoadStep(l) PROVE DInv'
  BY <1>4, AnswerKeeps, DataKeeps, ChecksKeep, FailureKeeps DEF LoadStep
<1>5. CASE UNCHANGED vars
  BY <1>5 DEF vars, DInv, ChainInv, LoadInv, DataInv, InFlight, PageInv, VerdictFitsTask
<1> QED
  BY <1>1, <1>2, <1>3, <1>4, <1>5 DEF Next

LEMMA DInvHolds == Spec => []DInv
BY InitDInv, DInvKeeps, PTL DEF Spec

\* A verdict on the result is only shown with the commitment it was reached for,
\* whatever the worker submits while the page is loaded (task-dashboard.tsx:92).
THEOREM VerdictsFitTask == Spec => []VerdictFitsTask
<1>1. DInv => VerdictFitsTask
  BY DEF DInv, PageInv
<1> QED
  BY <1>1, DInvHolds, PTL

\* At most one load is in flight, and the page says so (task-dashboard.tsx:92).
THEOREM OneLoadAtATime == Spec => []TypeOK
<1>1. DInv => TypeOK
  BY DEF DInv, LoadInv, PageInv, TypeOK, Results
<1> QED
  BY <1>1, DInvHolds, PTL
=============================================================================
