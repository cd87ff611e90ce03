--------------------------- MODULE CreationPanel ---------------------------
(***************************************************************************)
(* components/task-creation-panel.tsx with lib/task-creation-flow.ts: the  *)
(* Creator creates task 2 from a pinned manifest, once.  The gas estimate  *)
(* repeats the simulated call and is one step with it.                     *)
(***************************************************************************)
EXTENDS LabPage

VARIABLES
    creation,   \* simulated and reviewed intents, and the submission
    manifest    \* what is known of the pinned manifest

CreationInit ==
    /\ creation = [simulated |-> NoIntent, reviewed |-> NoIntent, submission |-> NoId]
    /\ manifest = "checking"

BadFundGuards ==                     \* an allowance that is too large does not stop it
    << <<reads["balance"] < One,    "insufficient-balance">>,
       <<reads["allowance"] < One,  "allowance-required">> >>

FundGuards ==
    << <<reads["balance"] < One,    "insufficient-balance">>,
       <<reads["allowance"] < One,  "allowance-required">>,
       <<reads["allowance"] > One,  "allowance-excessive">> >>

BadTaskGuards ==                     \* a task id that has been handed out does not stop it
    << <<reads["nextTaskId"] < ExpectedTaskId,  "unexpected-task-id">>,
       <<reads["totalEscrowed"] # 0,            "unexpected-escrow">> >>

TaskGuards ==
    << <<reads["nextTaskId"] > ExpectedTaskId,  "task-created">>,
       <<reads["nextTaskId"] < ExpectedTaskId,  "unexpected-task-id">>,
       <<reads["totalEscrowed"] # 0,            "unexpected-escrow">> >>

\* getTaskCreationReadiness; the manifest's own state names what stops it.
CreationReadiness == Readiness(WalletGuards(Queries) \o TaskGuards
                               \o << <<manifest # "verified", manifest>> >> \o FundGuards)

\* getTaskCreationIntentKey
CreationIntent == [account |-> wallet.account, chain |-> wallet.chain, reads |-> reads]

CreationSimulationRequested ==
    CreationReadiness = "ready" /\ creation.simulated = CreationIntent

\* It succeeded for this account and predicts the expected task.
CreationSimulationPassed == wallet.account = Creator /\ sims["creation"] = ExpectedTaskId

\* canOpenTaskCreationWallet
CanOpenCreationWallet ==
    /\ CreationReadiness = "ready" /\ CreationSimulationPassed
    /\ creation.reviewed = CreationIntent
    /\ ~WritePending("creation") /\ creation.submission = NoId

\* verifyManifest, run once by the page and again by a button.
RecheckManifest ==
    /\ manifest # "checking" /\ manifest' = "checking"
    /\ UNCHANGED shared /\ UNCHANGED creation

\* The bytes match, or they differ or cannot be retrieved.
ManifestAnswers ==
    /\ manifest = "checking" /\ manifest' \in {"verified", "unverified"}
    /\ UNCHANGED shared /\ UNCHANGED creation

RequestCreationSimulation ==
    /\ CreationReadiness = "ready"
    /\ creation' = [simulated |-> CreationIntent, reviewed |-> NoIntent, submission |-> NoId]
    /\ requests' = Abandoned("creation")
    /\ UNCHANGED <<ledger, wallet, reads, failed, asked, sims, manifest>>

CreationSimulationAnswers ==
    /\ CreationSimulationRequested /\ SimulationAnswers("creation")
    /\ UNCHANGED <<creation, manifest>>

ReviewCreation ==
    /\ RequestsLeft /\ CreationSimulationPassed /\ CreationReadiness = "ready"
    /\ creation' = [creation EXCEPT !.reviewed =
                        IF @ = CreationIntent THEN NoIntent ELSE CreationIntent]
    /\ UNCHANGED shared /\ UNCHANGED manifest

RequestWalletCreation ==
    /\ CanOpenCreationWallet /\ Opens("creation")
    /\ UNCHANGED <<ledger, wallet, reads, failed, asked, sims, creation, manifest>>

BadTaskCreatedEventConfirmed ==      \* the event's task id is not compared
    creation.submission # NoId /\ requests[creation.submission].seen

\* A TaskCreated event of the expected task by the submitting account.
TaskCreatedEventConfirmed ==
    /\ creation.submission # NoId /\ requests[creation.submission].seen
    /\ requests[creation.submission].made = ExpectedTaskId

CreationStep ==
    \/ RecheckManifest \/ ManifestAnswers
    \/ RequestCreationSimulation \/ CreationSimulationAnswers
    \/ ReviewCreation \/ RequestWalletCreation
=============================================================================
