----------------------------- MODULE Dashboard -----------------------------
(***************************************************************************)
(* components/task-dashboard.tsx with lib/read-dashboard.ts: task 1, the   *)
(* escrow and the balances are read from the public RPC in two rounds of   *)
(* calls, and the two artifacts the task commits to are verified.          *)
(*                                                                         *)
(* Left out: chain id, token symbol and decimals, which never change.      *)
(*                                                                         *)
(* Definitions named Bad... are variants of the code with one plausible    *)
(* bug each; nothing refers to them.  They show what the properties see.   *)
(***************************************************************************)
EXTENDS Naturals

CONSTANTS
    Reward,     \* of task 1, in escrow until the worker is paid
    Hashes,     \* results the worker may submit
    NoHash,     \* none yet
    MaxBlock,   \* bound: blocks
    Loads       \* bound: loads in flight

ASSUME DashboardAssumption == Reward \in Nat \ {0} /\ MaxBlock \in Nat /\ NoHash \notin Hashes

VARIABLES
    blocks,   \* every block's state of the contract and the token
    loads,    \* the loads in flight
    page      \* what the page shows

vars == <<blocks, loads, page>>

FirstRound == {"block", "status", "resultHash", "escrowed"}
SecondRound == {"contract", "worker"}
Values == FirstRound \cup SecondRound

NoData == [n \in {} |-> 0]
NoCheck == "loading"
Idle == [stage |-> "idle"]

(* Task 1 is in progress. *)
Genesis == [block |-> 0, status |-> 1, resultHash |-> NoHash, escrowed |-> Reward,
            contract |-> Reward, worker |-> 0]

Init ==
    /\ blocks = {Genesis}
    /\ loads = [l \in Loads |-> Idle]
    /\ page = [data |-> NoData, check |-> NoCheck, loading |-> TRUE, error |-> FALSE]

Latest == CHOOSE b \in blocks : \A c \in blocks : b.block >= c.block

\* A block: the worker submits, the creator approves, or something else happens.
Mine ==
    /\ Latest.block < MaxBlock
    /\ LET next == [Latest EXCEPT !.block = @ + 1]
       IN  \/ blocks' = blocks \cup {next}
           \/ Latest.status = 1 /\ \E h \in Hashes :
                 blocks' = blocks \cup {[next EXCEPT !.status = 2, !.resultHash = h]}
           \/ Latest.status = 2 /\
                 blocks' = blocks \cup {[next EXCEPT !.status = 3, !.escrowed = 0,
                                                     !.contract = 0, !.worker = Reward]}
    /\ UNCHANGED <<loads, page>>

-----------------------------------------------------------------------------
(* load: each call answers from the block that is the latest then *)

Start(l) ==
    /\ loads[l] = Idle
    /\ loads' = [loads EXCEPT ![l] = [stage |-> "reading", data |-> NoData]]

\* The first load of the page.
Mount(l) ==
    /\ page.loading /\ loads = [k \in Loads |-> Idle]
    /\ Start(l) /\ UNCHANGED <<blocks, page>>

BadRefresh(l) ==                         \* the button is not disabled during a load
    /\ page' = [page EXCEPT !.loading = TRUE, !.error = FALSE, !.check = NoCheck]
    /\ Start(l) /\ UNCHANGED blocks

Refresh(l) ==
    /\ ~page.loading
    /\ page' = [page EXCEPT !.loading = TRUE, !.error = FALSE, !.check = NoCheck]
    /\ Start(l) /\ UNCHANGED blocks

\* readDashboardData: the balances are read once the whole first round has answered.
CallAnswers(l, n) ==
    /\ loads[l].stage = "reading" /\ n \notin DOMAIN loads[l].data
    /\ n \in SecondRound => FirstRound \subseteq DOMAIN loads[l].data
    /\ loads' = [loads EXCEPT ![l].data =
                     [k \in DOMAIN @ \cup {n} |-> IF k = n THEN Latest[n] ELSE @[k]]]
    /\ UNCHANGED <<blocks, page>>

DataArrives(l) ==
    /\ loads[l].stage = "reading" /\ DOMAIN loads[l].data = Values
    /\ page' = [page EXCEPT !.data = loads[l].data]
    /\ loads' = [loads EXCEPT ![l].stage = "checking"]
    /\ UNCHANGED blocks

\* The bytes of the result match what the loaded task commits to, or they are
\* unavailable; both settle, and the load ends.
ChecksArrive(l) ==
    /\ loads[l].stage = "checking"
    /\ \E verdict \in {"unavailable", loads[l].data["resultHash"]} :
          page' = [page EXCEPT !.check = verdict, !.loading = FALSE]
    /\ loads' = [loads EXCEPT ![l] = Idle]
    /\ UNCHANGED blocks

BadLoadFails(l) ==                       \* a failed load is repeated until one answers
    /\ loads[l].stage = "reading"
    /\ page' = [page EXCEPT !.error = TRUE]
    /\ loads' = [loads EXCEPT ![l].data = NoData]
    /\ UNCHANGED blocks

LoadFails(l) ==
    /\ loads[l].stage = "reading"
    /\ page' = [page EXCEPT !.error = TRUE, !.loading = FALSE]
    /\ loads' = [loads EXCEPT ![l] = Idle]
    /\ UNCHANGED blocks

LoadStep(l) ==
    \/ \E n \in Values : CallAnswers(l, n)
    \/ DataArrives(l) \/ ChecksArrive(l) \/ LoadFails(l)

Next == Mine \/ \E l \in Loads : Mount(l) \/ Refresh(l) \/ LoadStep(l)

Spec == Init /\ [][Next]_vars

(* The page starts its first load, and calls are answered or time out. *)
FairSpec == Spec /\ WF_vars(\E l \in Loads : Mount(l)) /\ \A l \in Loads : WF_vars(LoadStep(l))

-----------------------------------------------------------------------------
\* A verdict on the result is shown with the commitment it was reached for, although
\* the worker may submit while the page is loaded.
VerdictFitsTask ==
    page.check \in {NoCheck, "unavailable"}
        \/ (page.data # NoData /\ page.check = page.data["resultHash"])

InFlight == {l \in Loads : loads[l] # Idle}

\* The page has its type; at most one load is in flight, and the page says so.
TypeOK ==
    /\ page.check \in {NoCheck, "unavailable", NoHash} \cup Hashes
    /\ DOMAIN page.data \in {{}, Values}
    /\ InFlight # {} => page.loading
    /\ \A k, l \in InFlight : k = l

\* Every load ends.
LoadEnds == []<>~page.loading

\* "Values below are read from the configured Coston2 deployment at the latest block"
\* (components/task-dashboard.tsx:176): what is shown is the state of one block.
ShowsOneBlock == page.data # NoData => page.data \in blocks
=============================================================================
