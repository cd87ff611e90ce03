------------------------- MODULE TaskPageProperties -------------------------
(***************************************************************************)
(* What must be true of a task's page and its action panel.                *)
(***************************************************************************)
EXTENDS TaskActionPanel

\* The component's state, the cache and the requests have their types, and what is
\* noted as submitted has been broadcast.
TypeOK ==
    /\ task \in ChainTask /\ indexed \in ChainTask \cup {NoTask}
    /\ page \in PageType /\ loads \in [LoadIds -> LoadType]
    /\ wallet \in [account : Accounts \cup {Nobody}, chain : Chains]
    /\ panel \in PanelType /\ checks \in SUBSET Artifacts
    /\ sims \in [Queries -> {"none", "passed", "failed"}]
    /\ requests \in [RequestIds -> RequestType]
    /\ panel.submission # NoId =>
           requests[panel.submission].state \in {"pending", "success", "reverted"}
    /\ proven \in SUBSET Artifacts /\ confirmed \in Open .. Cancelled

\* A result handed to the wallet for submitWork is one whose bytes this page has
\* seen to match, although answers arrive after the form has been edited.
SubmittedWasVerified ==
    \A r \in RequestIds :
        requests[r].state # "none" /\ requests[r].query.action = "submit" =>
            requests[r].query.artifact \in proven

\* Nobody approves unseen work: an approval handed to the wallet is about a result
\* whose bytes this page has seen to match (frontend/README.md:126).
ApprovedWasVerified ==
    \A r \in RequestIds :
        requests[r].state # "none" /\ requests[r].query.action = "approve" =>
            task.result \in proven

\* The page never replaces a task by an older one, although the read API lags
\* behind the chain and answers arrive late.
PageNeverGoesBack ==
    [][page.view # NoTask => page'.view.status >= page.view.status]_allVars

\* What the account did is shown: after its transaction is confirmed the page comes
\* back with the task at least as far, or with an error.
ConfirmedIsShown ==
    (confirmed # Open) ~> (page.error \/ (Shown(page) /\ page.view.status >= confirmed))

\* Account, chain and task changes invalidate the simulated intent: the wallet is
\* opened only for an intent that was prepared and simulated as it stands
\* (frontend/README.md:113, "Account, chain, allowance, task state, reward, URI, or
\* hash changes invalidate the corresponding simulated/reviewed intent").
SendIsPrepared ==
    [][\A r \in RequestIds :
          requests[r].state = "none" /\ requests'[r].state = "wallet"
              => SimulationRequested]_allVars
=============================================================================
