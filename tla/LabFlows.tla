------------------------------ MODULE LabFlows ------------------------------
(***************************************************************************)
(* The lab page: both panels over one wallet and one query cache, with the *)
(* receipts that make them read the chain again.                           *)
(***************************************************************************)
EXTENDS ApprovalPanel, CreationPanel

vars == <<shared, approval, creation, manifest>>

Init == SharedInit /\ approval = FreshPanel /\ CreationInit

Submission(p) == IF p = "approval" THEN approval.submission ELSE creation.submission

HasReceipt(p) == Submission(p) # NoId /\ requests[Submission(p)].seen

\* Both panels have the effect: once its receipt is there and the account of the
\* submission is connected, the panel asks for its reads again.
RefreshesFor(p, account) == HasReceipt(p) /\ account = Creator

\* onSuccess notes the hash, if the panel still waits for it.
WalletConfirms(r) ==
    /\ requests[r].state = "wallet" /\ wallet.chain = Coston2
    /\ requests' = [requests EXCEPT ![r].state = "pending", ![r].awaited = FALSE]
    /\ LET noted(p, panel) == IF requests[r].awaited /\ requests[r].panel = p
                              THEN [panel EXCEPT !.submission = r] ELSE panel
       IN  approval' = noted("approval", approval) /\ creation' = noted("creation", creation)
    /\ UNCHANGED <<ledger, wallet, reads, failed, asked, sims, manifest>>

SeesReceipt(p) ==
    /\ Submission(p) # NoId
    /\ requests[Submission(p)].state = "success" /\ ~requests[Submission(p)].seen
    /\ requests' = [requests EXCEPT ![Submission(p)].seen = TRUE]
    /\ asked' = IF wallet.account = Creator THEN asked \cup Refetched(p) ELSE asked
    /\ UNCHANGED <<ledger, wallet, reads, failed, sims, approval, creation, manifest>>

Wallets == {[account |-> Nobody, chain |-> NoChain]} \cup
           [account : {Creator, Stranger}, chain : Chains]

BadConnect ==                        \* the effect does not depend on the account
    /\ wallet' \in Wallets \ {wallet}
    /\ UNCHANGED <<ledger, reads, failed, asked, sims, requests, approval, creation, manifest>>

\* The effects depend on the account: they run again when it comes back.
Connect ==
    /\ wallet' \in Wallets \ {wallet}
    /\ asked' = IF wallet'.account = wallet.account THEN asked
                ELSE asked \cup UNION {Refetched(p) : p \in
                                {q \in Panels : RefreshesFor(q, wallet'.account)}}
    /\ UNCHANGED <<ledger, reads, failed, sims, requests, approval, creation, manifest>>

Next ==
    \/ (OthersAct \/ \E r \in RequestIds : Mined(r) \/ WalletRejects(r))
           /\ UNCHANGED <<approval, creation, manifest>>
    \/ (\E n \in Queries : ReadAnswers(n) \/ ReadFails(n))
           /\ UNCHANGED <<approval, creation, manifest>>
    \/ ApprovalStep /\ UNCHANGED <<creation, manifest>>
    \/ CreationStep /\ UNCHANGED approval
    \/ Connect
    \/ \E r \in RequestIds : WalletConfirms(r)
    \/ \E p \in Panels : SeesReceipt(p)

Spec == Init /\ [][Next]_vars

(* The receipts the page polls for come, and what it asks for again answers or     *)
(* fails, one read after the other.  Users, the wallet and the other parties owe   *)
(* nothing.                                                                        *)
FairSpec ==
    /\ Spec
    /\ WF_vars(\E p \in Panels : SeesReceipt(p))
    /\ WF_vars((\E n \in Queries : RefetchEnds(n)) /\ UNCHANGED <<approval, creation, manifest>>)

-----------------------------------------------------------------------------
\* A panel that is ready on current reads offers what the chain would do: approving
\* changes the allowance; createTask makes task 2 and takes the whole allowance.
ReadyIsAccepted ==
    reads = [n \in Reads |-> ledger[n]] =>
        /\ ApprovalReadiness = "ready" => Executed("approval").allowance # ledger.allowance
        /\ CreationReadiness = "ready" =>
               /\ Accepts("creation") /\ Result("creation") = ExpectedTaskId
               /\ Executed("creation").allowance = 0

\* "TaskCreated event verified" is shown only when the Creator made task 2, although
\* another creator may take its id after the review.
VerifiedIsTaskTwo ==
    TaskCreatedEventConfirmed => ledger.expected = Creator

\* Once the page has read that task 2 exists the creation panel never opens the wallet
\* again, although its simulation still predicts task 2 (lib/task-creation-flow.ts:134).
LocksForGood ==
    [][ reads["nextTaskId"] > ExpectedTaskId =>
        ~\E r \in RequestIds : /\ requests[r].state = "none" /\ requests'[r].state = "wallet"
                               /\ requests'[r].panel = "creation" ]_vars

\* After a success each read of a panel that keeps its submission comes to hold what the
\* chain holds, or its failure is shown, even if the Creator was away when the receipt
\* came, once the Creator stays.  The reads do so one by one, each at a block of its own:
\* together they need not be of any one block.
ReceiptIsShown ==
    \A p \in Panels, r \in RequestIds : \A n \in Refetched(p) \cap Reads :
        <>[](Submission(p) = r /\ wallet.account = Creator) =>
            ( ( /\ Submission(p) = r /\ requests[r].state = "success"
                /\ wallet.account # Creator \/ ~requests[r].seen )
              ~> (reads[n] = ledger[n] \/ n \in failed) )

\* "No transaction from the panel has already been submitted"
\* (docs/frontend-task-creation-flow.md:61): the wallet is not asked to create a task
\* while a creation of this panel is on its way or done.
SubmittedOnce ==
    [][ (\E r \in RequestIds : requests[r].state \in {"pending", "success"}
                               /\ requests[r].panel = "creation") =>
        ~\E r \in RequestIds : /\ requests[r].state = "none" /\ requests'[r].state = "wallet"
                               /\ requests'[r].panel = "creation" ]_vars
=============================================================================
