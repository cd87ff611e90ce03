-------------------------- MODULE TaskActionPanel --------------------------
(***************************************************************************)
(* components/task-action-panel.tsx of the frontend on the page of module  *)
(* TaskDetail: the connected account prepares, simulates, reviews and      *)
(* sends the one action its role allows, and the wallet, the chain and     *)
(* other accounts act in between.                                          *)
(*                                                                         *)
(* The panel exists only while the page is shown; a load unmounts it.      *)
(* Simulations live in the query cache, which outlives the panel: a query  *)
(* that is disabled still shows the answer cached for its key.             *)
(***************************************************************************)
EXTENDS TaskDetail

CONSTANTS
    Users,                \* the accounts of this browser's wallet
    Chains, Coston2,      \* chains the wallet may be on, and the deployment's
    RequestIds,           \* bound: wallet requests
    NoId,                 \* no request
    NoIntent              \* null

ASSUME PanelAssumption ==
    Users \subseteq Accounts /\ Coston2 \in Chains /\ NoId \notin RequestIds /\ IsFiniteSet(RequestIds)

VARIABLES
    wallet,      \* the connected account and chain
    panel,       \* the state of the component
    checks,      \* verifications of result bytes in flight
    sims,        \* the query cache: what simulations answered
    requests,    \* transactions handed to the wallet
    proven,      \* history: artifacts whose bytes this page has seen to match
    confirmed    \* history: status after the newest confirmed transaction of the panel

panelVars == <<wallet, panel, checks, sims, requests>>
history == <<proven, confirmed>>
allVars == <<pageVars, panelVars, history>>

NoAction == "none"
Queries == [account : Accounts, action : Actions, artifact : Artifacts \cup {NoArtifact}]

Intents == [account : Accounts \cup {Nobody}, chain : Chains,
            status : Open .. Cancelled, action : Actions \cup {NoAction},
            artifact : Artifacts \cup {NoArtifact}]

(* artifact is the content of the two inputs, NoArtifact when they do not  *)
(* parse; simulated and reviewed are simulationKey and reviewedKey.        *)
PanelType == [artifact : Artifacts \cup {NoArtifact},
              verification : {"idle", "checking", "verified", "failed"},
              verified : Artifacts \cup {NoArtifact},
              simulated : Intents \cup {NoIntent}, reviewed : Intents \cup {NoIntent},
              submission : RequestIds \cup {NoId}]

FreshPanel == [artifact |-> NoArtifact, verification |-> "idle", verified |-> NoArtifact,
               simulated |-> NoIntent, reviewed |-> NoIntent, submission |-> NoId]

(* awaited: the panel that sent the request still waits for its hash. *)
RequestType == [state : {"none", "wallet", "pending", "success", "reverted"},
                query : Queries \cup {NoIntent}, awaited : BOOLEAN]
NoRequest == [state |-> "none", query |-> NoIntent, awaited |-> FALSE]

Init ==
    /\ PageInit
    /\ wallet = [account |-> Nobody, chain |-> Coston2]
    /\ panel = FreshPanel /\ checks = {}
    /\ sims = [q \in Queries |-> "none"]
    /\ requests = [r \in RequestIds |-> NoRequest]
    /\ proven = {} /\ confirmed = Open

-----------------------------------------------------------------------------
(* What a rendering computes: lib/task-role.ts, lib/task-action.ts and the  *)
(* constants at the top of the component                                    *)

Role(t, a) ==
    IF a = Creator THEN "creator"
    ELSE IF a # Nobody /\ a = t.worker THEN "worker" ELSE "participant"

Available(t, a) ==
    IF a = Nobody THEN NoAction
    ELSE IF t.status = Open THEN (IF Role(t, a) = "creator" THEN "cancel" ELSE "accept")
    ELSE IF t.status = InProgress /\ Role(t, a) = "worker" THEN "submit"
    ELSE IF t.status = Submitted /\ Role(t, a) = "creator" THEN "approve"
    ELSE NoAction

Action == Available(page.view, wallet.account)

Intent == [account |-> wallet.account, chain |-> wallet.chain, status |-> page.view.status,
           action |-> Action, artifact |-> panel.artifact]

\* The key of the simulation's query: chain and status are not part of it.
Query == [account |-> wallet.account, action |-> Action,
          artifact |-> IF Action = "submit" THEN panel.artifact ELSE NoArtifact]

ResultVerified == page.result # NoArtifact

BadEvidenceReady == TRUE             \* approval without checked bytes
EvidenceReady == Action = "approve" => ResultVerified

BaseReady == Action # NoAction /\ wallet.chain = Coston2 /\ EvidenceReady

SubmitArtifactReady ==
    Action = "submit" =>
        panel.verification = "verified" /\ panel.verified = panel.artifact

SimulationRequested == BaseReady /\ SubmitArtifactReady /\ panel.simulated = Intent

Waiting == \E r \in RequestIds : requests[r].state = "wallet" /\ requests[r].awaited

CanSend ==
    /\ sims[Query] = "passed"
    /\ panel.reviewed = Intent
    /\ panel.submission = NoId
    /\ ~Waiting

\* The panel is rendered with an action.
Offered == Shown(page) /\ Action # NoAction

-----------------------------------------------------------------------------
(* The user and the wallet *)

Connect ==
    /\ \E a \in Users \cup {Nobody}, c \in Chains :
          /\ wallet' = [account |-> a, chain |-> c]
          /\ wallet' # wallet
    /\ UNCHANGED <<pageVars, panel, checks, sims, requests, history>>

Edit ==
    /\ Offered /\ Action = "submit"
    /\ \E w \in Artifacts \cup {NoArtifact} :
          /\ w # panel.artifact
          /\ panel' = [panel EXCEPT !.artifact = w, !.verification = "idle"]
    /\ UNCHANGED <<pageVars, wallet, checks, sims, requests, history>>

VerifyResult ==
    /\ Offered /\ Action = "submit"
    /\ panel.artifact # NoArtifact /\ panel.verification # "checking"
    /\ panel' = [panel EXCEPT !.verification = "checking"]
    /\ checks' = checks \cup {panel.artifact}
    /\ UNCHANGED <<pageVars, wallet, sims, requests, history>>

BadVerificationAnswers ==            \* vouches for what the form says now
    \E w \in checks :
        /\ checks' = checks \ {w}
        /\ \/ /\ panel' = [panel EXCEPT !.verification = "verified", !.verified = panel.artifact]
              /\ proven' = proven \cup {w}
           \/ /\ panel' = [panel EXCEPT !.verification = "failed", !.verified = NoArtifact]
              /\ UNCHANGED proven
        /\ UNCHANGED <<pageVars, wallet, sims, requests, confirmed>>

\* The bytes match the hash that was checked, or do not, or do not arrive.
VerificationAnswers ==
    \E w \in checks :
        /\ checks' = checks \ {w}
        /\ \/ /\ panel' = [panel EXCEPT !.verification = "verified", !.verified = w]
              /\ proven' = proven \cup {w}
           \/ /\ panel' = [panel EXCEPT !.verification = "failed", !.verified = NoArtifact]
              /\ UNCHANGED proven
        /\ UNCHANGED <<pageVars, wallet, sims, requests, confirmed>>

Abandoned == [r \in RequestIds |-> [requests[r] EXCEPT !.awaited = FALSE]]

\* write.reset() lets go of a request the wallet still shows.
RequestSimulation ==
    /\ Offered /\ BaseReady /\ SubmitArtifactReady
    /\ ~(SimulationRequested /\ sims[Query] = "none")
    /\ panel' = [panel EXCEPT !.simulated = Intent, !.reviewed = NoIntent, !.submission = NoId]
    /\ requests' = Abandoned
    /\ UNCHANGED <<pageVars, wallet, checks, sims, history>>

\* The enabled query is answered, for the first time or again.
SimulationAnswers ==
    /\ Offered /\ SimulationRequested
    /\ \E answer \in {"failed"} \cup
                     (IF Accepts(task, wallet.account, Action) THEN {"passed"} ELSE {}) :
          sims' = [sims EXCEPT ![Query] = answer]
    /\ UNCHANGED <<pageVars, wallet, panel, checks, requests, history>>

\* The cache forgets an answer that nothing shows.
CacheExpires ==
    \E q \in Queries :
        /\ sims[q] # "none" /\ ~(Offered /\ q = Query)
        /\ sims' = [sims EXCEPT ![q] = "none"]
        /\ UNCHANGED <<pageVars, wallet, panel, checks, requests, history>>

Review ==
    /\ Offered /\ sims[Query] = "passed"
    /\ \E key \in {Intent, NoIntent} :
          /\ panel.reviewed # key
          /\ panel' = [panel EXCEPT !.reviewed = key]
    /\ UNCHANGED <<pageVars, wallet, checks, sims, requests, history>>

\* sendTransaction hands the simulated request to the wallet.
Send ==
    /\ Offered /\ CanSend
    /\ \E r \in RequestIds :
          /\ requests[r].state = "none"
          /\ requests' = [requests EXCEPT ![r] = [state |-> "wallet", query |-> Query,
                                                  awaited |-> TRUE]]
    /\ UNCHANGED <<pageVars, wallet, panel, checks, sims, history>>

\* onSuccess runs only in the panel that still waits.
WalletConfirms(r) ==
    /\ requests[r].state = "wallet" /\ wallet.chain = Coston2
    /\ requests' = [requests EXCEPT ![r].state = "pending", ![r].awaited = FALSE]
    /\ panel' = IF requests[r].awaited THEN [panel EXCEPT !.submission = r] ELSE panel
    /\ UNCHANGED <<pageVars, wallet, checks, sims, history>>

\* The user rejects it, or the client finds the wallet on another chain.
WalletRejects(r) ==
    /\ requests[r].state = "wallet"
    /\ requests' = [requests EXCEPT ![r] = NoRequest]
    /\ UNCHANGED <<pageVars, wallet, panel, checks, sims, history>>

Mined(r) ==
    /\ requests[r].state = "pending"
    /\ LET asked == requests[r].query IN
       IF Accepts(task, asked.account, asked.action)
       THEN /\ task' = After(task, asked.account, asked.action, asked.artifact)
            /\ requests' = [requests EXCEPT ![r].state = "success"]
       ELSE /\ requests' = [requests EXCEPT ![r].state = "reverted"]
            /\ UNCHANGED task
    /\ UNCHANGED <<indexed, page, loads, wallet, panel, checks, sims, history>>

-----------------------------------------------------------------------------
(* The page around the panel *)

\* A page that is not shown has no panel: its state is lost, and so is what it
\* waited for.
PanelFollows ==
    /\ IF Shown(page') THEN UNCHANGED <<panel, checks, requests>>
       ELSE panel' = FreshPanel /\ checks' = {} /\ requests' = Abandoned
    /\ UNCHANGED <<wallet, sims>>

StatusAfter(action) ==
    CASE action = "accept" -> InProgress [] action = "cancel" -> Cancelled
      [] action = "submit" -> Submitted [] action = "approve" -> Completed

BadConfirmed ==                      \* the reload may be answered by the indexer
    /\ Shown(page) /\ panel.submission # NoId
    /\ requests[panel.submission].state = "success"
    /\ \E i \in LoadIds : Load(i, FALSE)
    /\ PanelFollows
    /\ confirmed' = StatusAfter(requests[panel.submission].query.action)
    /\ UNCHANGED <<task, indexed, proven>>

\* The receipt arrives and onConfirmed loads the page again.
Confirmed ==
    /\ Shown(page) /\ panel.submission # NoId
    /\ requests[panel.submission].state = "success"
    /\ \E i \in LoadIds : Load(i, TRUE)
    /\ PanelFollows
    /\ confirmed' = StatusAfter(requests[panel.submission].query.action)
    /\ UNCHANGED <<task, indexed, proven>>

PageStep ==
    /\ \/ OthersAct \/ Index \/ FirstLoad \/ Refresh
       \/ LoadStep
    /\ PanelFollows
    /\ proven' = proven \cup ({page'.result} \ {NoArtifact})
    /\ UNCHANGED confirmed

Next ==
    \/ PageStep \/ Confirmed
    \/ Connect \/ Edit \/ VerifyResult \/ VerificationAnswers
    \/ RequestSimulation \/ SimulationAnswers \/ CacheExpires \/ Review \/ Send
    \/ \E r \in RequestIds : WalletConfirms(r) \/ WalletRejects(r) \/ Mined(r)

Spec == Init /\ [][Next]_allVars

(* Reads end: RPC calls, API calls and downloads have timeouts. *)
FairSpec == Spec /\ WF_allVars(LoadStep /\ PageStep)
=============================================================================
