------------------------------ MODULE LabPage ------------------------------
(***************************************************************************)
(* What the two panels of the lab page (app/lab/page.tsx) share: the chain *)
(* they act on, the wallet, the query cache and the wallet requests.       *)
(* lib/wallet-identity.ts gives the role and the network.                  *)
(*                                                                         *)
(* Both panels open for the Creator account alone, so the reads and the    *)
(* simulations are the Creator's.  Of the token balance of the contract    *)
(* only whether its read fails matters: the number is displayed alone.     *)
(*                                                                         *)
(* Definitions named Bad... are variants of the code with one plausible    *)
(* bug each; nothing refers to them.  They show what the properties see.   *)
(***************************************************************************)
EXTENDS Integers, Sequences, FiniteSetsExt

CONSTANTS
    Creator, Stranger, Nobody,  \* accounts of the wallet; no connected account
    Chains, Coston2,            \* chains the wallet may be on, and the deployment's
    NoChain,                    \* the chain of a wallet that is not connected
    Funds,                      \* tokens of the Creator at the start
    Allowances,                 \* bound: allowances at the start
    Elsewhere,                  \* bound: allowances that are set outside this page
    MaxId,                      \* bound: task ids handed out
    Fallible,                   \* bound: reads that may fail
    RequestIds,                 \* bound: wallet requests; once used up nothing is prepared
    NoId, NoIntent              \* null

ASSUME LabAssumption ==
    /\ Creator # Nobody /\ Stranger # Nobody /\ Creator # Stranger
    /\ Coston2 \in Chains /\ NoChain \notin Chains /\ NoId \notin RequestIds
    /\ Funds \in Nat /\ {Elsewhere, Allowances} \subseteq SUBSET Nat /\ MaxId \in Nat
    /\ Fallible \subseteq {"balance", "allowance", "nextTaskId", "totalEscrowed",
                            "contractBalance"}

VARIABLES
    ledger,    \* token and contract, and who created the expected task
    wallet,    \* the connected account and chain
    reads,     \* the query cache: what was last read of the chain
    failed,    \* reads whose last attempt failed
    asked,     \* reads that a panel has asked for again
    sims,      \* the query cache: what the simulation of each panel answered
    requests   \* transactions handed to the wallet

shared == <<ledger, wallet, reads, failed, asked, sims, requests>>

Panels == {"approval", "creation"}
Reads == {"balance", "allowance", "nextTaskId", "totalEscrowed"}
Queries == Reads \cup {"contractBalance"}
Unknown == -1
One == 1               \* exactApprovalAmount and task2Manifest.reward
ExpectedTaskId == 2

(* The deployment has handed out task 1, or not yet. *)
SharedInit ==
    /\ ledger \in [balance : {Funds}, allowance : Allowances, nextTaskId : 1 .. ExpectedTaskId,
                   totalEscrowed : {0}, expected : {Nobody}]
    /\ wallet = [account |-> Nobody, chain |-> NoChain]
    /\ reads = [n \in Reads |-> Unknown]
    /\ failed = {} /\ asked = {}
    /\ sims = [p \in Panels |-> Unknown]
    /\ requests = [r \in RequestIds |-> [state |-> "none"]]

Connected == wallet.account # Nobody

WalletRole == IF wallet.account = Creator THEN "task-1-creator" ELSE "new-participant"

NetworkState == CASE wallet.chain = NoChain -> "disconnected"
                  [] wallet.chain = Coston2 -> "coston2"
                  [] OTHER                  -> "wrong-network"

\* The first guard that stops a panel, of pairs <<stops, its name>>.
Readiness(guards) ==
    LET stopping == {i \in DOMAIN guards : guards[i][1]}
    IN  IF stopping = {} THEN "ready" ELSE guards[Min(stopping)][2]

\* The guards both panels begin with; they look at some of the queries.
WalletGuards(names) ==
    << <<~Connected,                       "disconnected">>,
       <<NetworkState # "coston2",         "wrong-network">>,
       <<WalletRole # "task-1-creator",    "wrong-role">>,
       <<failed \cap names # {},           "chain-read-error">>,
       <<\E n \in names \cap Reads : reads[n] = Unknown,
                                           "reading-chain-state">> >>

-----------------------------------------------------------------------------
(* The chain *)

Accepts(p) == p = "creation" => ledger.balance >= One /\ ledger.allowance >= One

\* What a call of the Creator returns: createTask the id, approve true.
Result(p) == IF p = "creation" THEN ledger.nextTaskId ELSE 1

Created(l, a) ==
    [l EXCEPT !.nextTaskId = @ + 1, !.totalEscrowed = @ + One,
              !.expected = IF l.nextTaskId = ExpectedTaskId THEN a ELSE @]

Executed(p) ==
    IF p = "approval" THEN [ledger EXCEPT !.allowance = One]
    ELSE [Created(ledger, Creator) EXCEPT !.allowance = @ - One, !.balance = @ - One]

\* Other creators create tasks, tasks are settled, and the Creator's allowance is
\* set outside this page.
OthersAct ==
    /\ \/ ledger.nextTaskId < MaxId /\ ledger' = Created(ledger, Stranger)
       \/ ledger.totalEscrowed > 0 /\ ledger' = [ledger EXCEPT !.totalEscrowed = @ - One]
       \/ \E n \in Elsewhere : ledger' = [ledger EXCEPT !.allowance = n]
    /\ UNCHANGED <<wallet, reads, failed, asked, sims, requests>>

Mined(r) ==
    /\ requests[r].state = "pending"
    /\ (requests[r].panel = "creation" => ledger.nextTaskId <= MaxId)
    /\ IF Accepts(requests[r].panel)
       THEN /\ ledger' = Executed(requests[r].panel)
            /\ requests' = [requests EXCEPT ![r].state = "success",
                                            ![r].made = Result(requests[r].panel)]
       ELSE requests' = [requests EXCEPT ![r].state = "reverted"] /\ UNCHANGED ledger
    /\ UNCHANGED <<wallet, reads, failed, asked, sims>>

-----------------------------------------------------------------------------
(* The query cache *)

\* The reads a panel asks for again after its receipt, each by a request of its own.
Refetched(p) == IF p = "approval" THEN {"allowance"} ELSE Queries

\* Whether a query is enabled: allowance and balance have the account in their key.
Enabled(n) == IF n \in {"allowance", "balance"} THEN wallet.account = Creator ELSE Connected

InFlight(n) == n \in asked

\* A read answers: asked for by a panel, by a button, or by the query client.  Each read
\* is of the block that is the latest when it answers.
ReadAnswers(n) ==
    /\ Enabled(n) \/ InFlight(n)
    /\ reads' = [m \in Reads |-> IF m = n THEN ledger[m] ELSE reads[m]]
    /\ failed' = failed \ {n} /\ asked' = asked \ {n}
    /\ UNCHANGED <<ledger, wallet, sims, requests>>

\* A read fails when its retries are used up; it keeps the data of the one before.
ReadFails(n) ==
    /\ Enabled(n) \/ InFlight(n)
    /\ n \in Fallible
    /\ failed' = failed \cup {n} /\ asked' = asked \ {n}
    /\ UNCHANGED <<ledger, wallet, reads, sims, requests>>

\* What a panel has asked for again is over.
RefetchEnds(n) == InFlight(n) /\ (ReadAnswers(n) \/ ReadFails(n))

RequestsLeft == \E r \in RequestIds : requests[r].state = "none"

\* A requested simulation answers what the call returns, or fails.
SimulationAnswers(p) ==
    /\ RequestsLeft
    /\ \E answer \in {Unknown} \cup (IF Accepts(p) THEN {Result(p)} ELSE {}) :
          sims' = [sims EXCEPT ![p] = answer] /\ sims' # sims
    /\ UNCHANGED <<ledger, wallet, reads, failed, asked, requests>>

-----------------------------------------------------------------------------
(* The wallet *)

\* useWriteContract: the request, and whether the panel still waits for its answer.
Opens(p) == \E r \in RequestIds :
    /\ requests[r].state = "none"
    /\ requests' = [requests EXCEPT ![r] =
           [state |-> "wallet", panel |-> p, awaited |-> TRUE, seen |-> FALSE, made |-> 0]]

WritePending(p) == \E r \in RequestIds :
    requests[r].state = "wallet" /\ requests[r].panel = p /\ requests[r].awaited

\* reset: the panel no longer waits for what the wallet still shows.
Abandoned(p) == [r \in RequestIds |->
    IF requests[r].state = "wallet" /\ requests[r].panel = p
    THEN [requests[r] EXCEPT !.awaited = FALSE] ELSE requests[r]]

WalletRejects(r) ==
    /\ requests[r].state = "wallet"
    /\ requests' = [requests EXCEPT ![r] = [state |-> "none"]]
    /\ UNCHANGED <<ledger, wallet, reads, failed, asked, sims>>
=============================================================================
