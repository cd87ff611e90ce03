--------------------------- MODULE ApprovalPanel ---------------------------
(***************************************************************************)
(* components/approval-panel.tsx with lib/approval-flow.ts: the Creator    *)
(* approves exactly one token for the next escrow.  The gas estimate       *)
(* repeats the simulated call and is one step with it.                     *)
(***************************************************************************)
EXTENDS LabPage

VARIABLE approval   \* simulated and reviewed intents, and the submission

FreshPanel == [simulated |-> NoIntent, reviewed |-> NoIntent, submission |-> NoId]

\* getApprovalReadiness
ApprovalReadiness == Readiness(WalletGuards({"allowance", "balance"}) \o
    << <<reads["allowance"] = One,  "allowance-satisfied">>,
       <<reads["balance"] < One,    "insufficient-balance">> >>)

\* getApprovalIntentKey
ApprovalIntent ==
    [account |-> wallet.account, chain |-> wallet.chain, allowance |-> reads["allowance"]]

ApprovalSimulationRequested ==
    ApprovalReadiness = "ready" /\ approval.simulated = ApprovalIntent

\* The query of the simulation, whose key has the account.
ApprovalSimulationPassed == wallet.account = Creator /\ sims["approval"] = 1

\* canOpenApprovalWallet
CanOpenApprovalWallet ==
    /\ ApprovalReadiness = "ready" /\ ApprovalSimulationPassed
    /\ approval.reviewed = ApprovalIntent
    /\ ~WritePending("approval") /\ approval.submission = NoId

RequestApprovalSimulation ==
    /\ ApprovalReadiness = "ready"
    /\ approval' = [simulated |-> ApprovalIntent, reviewed |-> NoIntent, submission |-> NoId]
    /\ requests' = Abandoned("approval")
    /\ UNCHANGED <<ledger, wallet, reads, failed, asked, sims>>

ApprovalSimulationAnswers ==
    ApprovalSimulationRequested /\ SimulationAnswers("approval") /\ UNCHANGED approval

ReviewApproval ==
    /\ RequestsLeft /\ ApprovalSimulationPassed /\ ApprovalReadiness = "ready"
    /\ approval' = [approval EXCEPT !.reviewed =
                        IF @ = ApprovalIntent THEN NoIntent ELSE ApprovalIntent]
    /\ UNCHANGED shared

RequestWalletApproval ==
    /\ CanOpenApprovalWallet /\ Opens("approval")
    /\ UNCHANGED <<ledger, wallet, reads, failed, asked, sims, approval>>

\* The Approval event of the submitting account, this spender and this amount.
ApprovalEventConfirmed ==
    approval.submission # NoId /\ requests[approval.submission].seen

ApprovalStep ==
    RequestApprovalSimulation \/ ApprovalSimulationAnswers \/ ReviewApproval
        \/ RequestWalletApproval
=============================================================================
