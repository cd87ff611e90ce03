---------------------------- MODULE PublishForm ----------------------------
(***************************************************************************)
(* components/create-bounty-form.tsx of the frontend with the functions of *)
(* lib/task-publishing.ts and lib/task-manifest.ts: a user drafts and      *)
(* verifies a manifest, approves exactly its reward and creates the task.  *)
(*                                                                         *)
(* The two transactions run through the same flow: simulate, review, send, *)
(* wait for the receipt.  Meanwhile the form is edited, verifications      *)
(* answer late, reads are stale, the wallet changes, the allowance changes *)
(* elsewhere and other creators take the next task id.                     *)
(*                                                                         *)
(* The gas estimate repeats the simulated call and is one step with it.    *)
(***************************************************************************)
EXTENDS Integers, FiniteSets

CONSTANTS
    Users,            \* the accounts of this browser's wallet
    Nobody,           \* no connected account, zeroAddress
    Chains, Coston2,  \* chains the wallet may be on, and the deployment's
    Rewards,          \* rewards that can be entered, in units
    Docs, NoDoc,      \* URIs with a content hash; inputs that are incomplete
    ManifestOf,       \* what the committed bytes of a document say
    DraftOf,          \* the document generated for a reward; bound: NoDoc for none
    Funds,            \* tokens of each user at the start
    Allowances,       \* bound: allowances of a user at the start
    Elsewhere,        \* bound: allowances that are set outside this form
    MaxChecks,        \* bound: verifications in flight
    MaxId,            \* bound: task ids handed out
    RequestIds,       \* bound: wallet requests; once they are used up nothing is prepared
    NoId, NoIntent    \* null

Kinds == {"approve", "create"}

(* here: schema, token, network and contract are this deployment's. *)
Manifest == [parses : BOOLEAN, here : BOOLEAN, reward : Nat]

ASSUME PublishAssumption ==
    /\ Nobody \notin Users /\ Coston2 \in Chains /\ NoDoc \notin Docs /\ NoId \notin RequestIds
    /\ Rewards \subseteq Nat \ {0} /\ MaxId \in Nat \ {0} /\ MaxChecks \in Nat
    /\ Elsewhere \subseteq Nat /\ Allowances \subseteq Nat /\ Funds \in Nat
    /\ ManifestOf \in [Docs -> Manifest] /\ DraftOf \in [Rewards -> Docs \cup {NoDoc}]

VARIABLES
    ledger,     \* token and contract
    wallet,     \* the connected account and chain
    form,       \* the inputs and the verdict on the manifest
    checks,     \* verifications in flight
    reads,      \* what the form last read of the chain
    refetch,    \* accounts whose reads have been asked for again
    flow,       \* the state of the two transactions
    sims,       \* the query cache: what simulations answered
    requests    \* transactions handed to the wallet

vars == <<ledger, wallet, form, checks, reads, refetch, flow, sims, requests>>

Unknown == -1
Reads == {"balance", "allowance", "nextTaskId"}
Keys == [doc : Docs \cup {NoDoc}, reward : Rewards \cup {0}]
NoKey == [doc |-> NoDoc, reward |-> 0]
Queries == [kind : Kinds, account : Users, reward : Rewards, doc : Docs \cup {NoDoc}]

(* creator "other" stands for any creator but the users of this browser. *)
Init ==
    /\ ledger \in [allowance : [Users -> Allowances], balance : {[a \in Users |-> Funds]},
                   nextTaskId : {1}, task : {[n \in {} |-> NoIntent]}]
    /\ wallet = [account |-> Nobody, chain |-> Coston2]
    /\ form = [reward |-> 0, doc |-> NoDoc, generated |-> NoDoc, check |-> "idle",
               verified |-> NoKey]
    /\ checks = {}
    /\ reads = [balance |-> [a \in Users |-> Unknown], allowance |-> [a \in Users |-> Unknown],
                nextTaskId |-> Unknown]
    /\ refetch = {}
    /\ flow = [k \in Kinds |-> [simulated |-> NoIntent, reviewed |-> NoIntent,
                                submission |-> NoId]]
    /\ sims = [q \in Queries |-> Unknown]
    /\ requests = [r \in RequestIds |-> [state |-> "none"]]

-----------------------------------------------------------------------------
(* What a rendering computes *)

Connected == wallet.account # Nobody
Account == wallet.account

(* Definitions named Bad... are variants of the code with one plausible bug *)
(* each; nothing refers to them.  They show what the properties see.       *)

BadArtifactKey == [doc |-> form.doc, reward |-> 0]      \* the reward is not part of it
ArtifactKey == [doc |-> form.doc, reward |-> form.reward]

FormReady ==
    /\ form.reward # 0 /\ form.doc # NoDoc
    /\ form.check = "verified" /\ form.verified = ArtifactKey

PublicStateReady ==
    /\ Connected /\ wallet.chain = Coston2
    /\ reads.balance[Account] # Unknown /\ reads.allowance[Account] # Unknown
    /\ reads.nextTaskId # Unknown

EnoughBalance == reads.balance[Account] >= form.reward
ExactAllowance == reads.allowance[Account] = form.reward

\* createPublishingIntentKey; "invalid-intent" while the inputs do not parse.
Intent ==
    IF form.reward = 0 \/ form.doc = NoDoc \/ ~Connected THEN NoIntent
    ELSE [account |-> Account, chain |-> wallet.chain, reward |-> form.reward,
          doc |-> form.doc, allowance |-> reads.allowance[Account],
          nextTaskId |-> reads.nextTaskId]

\* Whether everything a transaction of this kind needs is there.
Ready(k) ==
    /\ FormReady /\ PublicStateReady /\ EnoughBalance
    /\ (k = "create") <=> ExactAllowance

Requested(k) == Ready(k) /\ flow[k].simulated = Intent

\* The key of the simulation's query.
Query(k) == [kind |-> k, account |-> Account, reward |-> form.reward,
             doc |-> IF k = "create" THEN form.doc ELSE NoDoc]

\* The simulation succeeded and, for createTask, predicts the id the form shows.
SimulationReady(k) ==
    /\ Connected /\ form.reward # 0 /\ (k = "create" => form.doc # NoDoc)
    /\ sims[Query(k)] > 0
    /\ k = "create" => sims[Query(k)] = reads.nextTaskId

Waiting(k) == \E r \in RequestIds :
    requests[r].state = "wallet" /\ requests[r].query.kind = k /\ requests[r].awaited

RequestsLeft == \E r \in RequestIds : requests[r].state = "none"

\* canSendReviewedTransaction
CanSend(k) ==
    /\ SimulationReady(k)
    /\ flow[k].reviewed = Intent
    /\ flow[k].submission = NoId
    /\ ~Waiting(k)

-----------------------------------------------------------------------------
(* The chain *)

Accepts(q) ==
    q.kind = "create" => /\ ledger.balance[q.account] >= q.reward
                         /\ ledger.allowance[q.account] >= q.reward
                         /\ ledger.nextTaskId <= MaxId

WithTask(l, t) ==
    [l EXCEPT !.nextTaskId = @ + 1,
              !.task = [n \in DOMAIN @ \cup {l.nextTaskId} |->
                            IF n = l.nextTaskId THEN t ELSE @[n]]]

Executed(q) ==
    IF q.kind = "approve" THEN [ledger EXCEPT !.allowance[q.account] = q.reward]
    ELSE [WithTask(ledger, [creator |-> q.account, reward |-> q.reward, doc |-> q.doc])
             EXCEPT !.allowance[q.account] = @ - q.reward, !.balance[q.account] = @ - q.reward]

OthersCreate ==
    /\ ledger.nextTaskId < MaxId
    /\ ledger' = WithTask(ledger, [creator |-> "other", reward |-> 0, doc |-> NoDoc])
    /\ UNCHANGED <<wallet, form, checks, reads, refetch, flow, sims, requests>>

ElsewhereApproves ==
    /\ \E a \in Users, n \in Elsewhere : ledger' = [ledger EXCEPT !.allowance[a] = n]
    /\ UNCHANGED <<wallet, form, checks, reads, refetch, flow, sims, requests>>

Mined(r) ==
    /\ requests[r].state = "pending"
    /\ IF Accepts(requests[r].query)
       THEN /\ ledger' = Executed(requests[r].query)
            /\ requests' = [requests EXCEPT ![r].state = "success", ![r].made = ledger.nextTaskId]
       ELSE requests' = [requests EXCEPT ![r].state = "reverted"] /\ UNCHANGED ledger
    /\ UNCHANGED <<wallet, form, checks, reads, refetch, flow, sims>>

-----------------------------------------------------------------------------
(* The form *)

\* The reads of an account that appears are asked for, unless they are recent.
Connect ==
    /\ \E a \in Users \cup {Nobody}, c \in Chains :
          /\ wallet' = [account |-> a, chain |-> c] /\ wallet' # wallet
          /\ refetch' \in {refetch, refetch \cup ({a} \ {Nobody, Account})}
    /\ UNCHANGED <<ledger, form, checks, reads, flow, sims, requests>>

\* The hash input is emptied if it still holds the hash of the generated draft.
Ungenerated(f) ==
    [f EXCEPT !.generated = NoDoc,
              !.doc = IF @ = f.generated THEN NoDoc ELSE @]

EditReward ==
    /\ \E n \in Rewards \cup {0} :
          /\ n # form.reward
          /\ form' = Ungenerated([form EXCEPT !.reward = n, !.check = "idle", !.verified = NoKey])
    /\ UNCHANGED <<ledger, wallet, checks, reads, refetch, flow, sims, requests>>

EditDraft ==
    /\ form.generated # NoDoc
    /\ form' = Ungenerated(form)
    /\ UNCHANGED <<ledger, wallet, checks, reads, refetch, flow, sims, requests>>

EditDocument ==
    /\ \E d \in Docs \cup {NoDoc} :
          d # form.doc /\ form' = [form EXCEPT !.doc = d, !.check = "idle", !.verified = NoKey]
    /\ UNCHANGED <<ledger, wallet, checks, reads, refetch, flow, sims, requests>>

\* The generated bytes are taken to be published at the URI that is entered.
BuildDraft ==
    /\ form.reward # 0 /\ DraftOf[form.reward] # NoDoc
    /\ form' = [form EXCEPT !.generated = DraftOf[form.reward], !.doc = DraftOf[form.reward],
                            !.check = "idle", !.verified = NoKey]
    /\ UNCHANGED <<ledger, wallet, checks, reads, refetch, flow, sims, requests>>

VerifyManifest ==
    /\ RequestsLeft /\ form.doc # NoDoc /\ form.check # "checking"
    /\ Cardinality(checks) < MaxChecks
    /\ form' = [form EXCEPT !.check = "checking", !.verified = NoKey]
    /\ checks' = checks \cup {[key |-> ArtifactKey, reward |-> form.reward]}
    /\ UNCHANGED <<ledger, wallet, reads, refetch, flow, sims, requests>>

\* parseTaskManifest does not throw and getManifestPublishingError is null.
Publishable(d, reward) ==
    ManifestOf[d].parses /\ ManifestOf[d].here /\ ManifestOf[d].reward = reward

\* The bytes are compared, parsed and judged by the reward of the asking form; or
\* they differ, or do not arrive.
ManifestAnswers ==
    /\ \E c \in checks :
          /\ checks' = checks \ {c}
          /\ \/ /\ c.reward # 0 /\ Publishable(c.key.doc, c.reward)
                /\ form' = [form EXCEPT !.check = "verified", !.verified = c.key]
             \/ form' = [form EXCEPT !.check = "idle", !.verified = NoKey]
    /\ UNCHANGED <<ledger, wallet, reads, refetch, flow, sims, requests>>

-----------------------------------------------------------------------------
(* Reads of the chain *)

Answered(n, a) ==
    CASE n = "nextTaskId" -> [reads EXCEPT !.nextTaskId = ledger.nextTaskId]
      [] n = "balance"    -> [reads EXCEPT !.balance[a] = ledger.balance[a]]
      [] n = "allowance"  -> [reads EXCEPT !.allowance[a] = ledger.allowance[a]]

\* One of the reads that were asked for answers, or one the query client repeats.
ReadAnswers(n, a) ==
    /\ a \in {Account} \cup refetch
    /\ reads' = Answered(n, a)
    /\ UNCHANGED <<ledger, wallet, form, checks, refetch, flow, sims, requests>>

\* The last of them has answered.
Refreshed(a) ==
    /\ a \in refetch
    /\ refetch' = refetch \ {a}
    /\ reads' = [balance    |-> [reads.balance EXCEPT ![a] = ledger.balance[a]],
                 allowance  |-> [reads.allowance EXCEPT ![a] = ledger.allowance[a]],
                 nextTaskId |-> ledger.nextTaskId]
    /\ UNCHANGED <<ledger, wallet, form, checks, flow, sims, requests>>

Noted(r) == \E k \in Kinds : flow[k].submission = r

BadSeesReceipt(r) ==                 \* only creations refresh the reads
    /\ Noted(r) /\ requests[r].state = "success" /\ ~requests[r].seen
    /\ requests' = [requests EXCEPT ![r].seen = TRUE]
    /\ refetch' = IF requests[r].query.kind = "create" /\ Connected
                  THEN refetch \cup {Account} ELSE refetch
    /\ UNCHANGED <<ledger, wallet, form, checks, reads, flow, sims>>

\* A receipt arrives, and the effect asks for all reads once.
SeesReceipt(r) ==
    /\ Noted(r) /\ requests[r].state = "success" /\ ~requests[r].seen
    /\ requests' = [requests EXCEPT ![r].seen = TRUE]
    /\ refetch' = IF Connected THEN refetch \cup {Account} ELSE refetch
    /\ UNCHANGED <<ledger, wallet, form, checks, reads, flow, sims>>

-----------------------------------------------------------------------------
(* The flow of a transaction *)

RequestSimulation(k) ==
    /\ Ready(k)
    /\ flow' = [flow EXCEPT ![k] = [simulated |-> Intent, reviewed |-> NoIntent,
                                    submission |-> NoId]]
    /\ requests' = [r \in RequestIds |->
                        IF requests[r].state = "wallet" /\ requests[r].query.kind = k
                        THEN [requests[r] EXCEPT !.awaited = FALSE] ELSE requests[r]]
    /\ UNCHANGED <<ledger, wallet, form, checks, reads, refetch, sims>>

\* The simulation returns the id the task would get, 1 stands for approve's TRUE; or
\* it fails, and nothing is known.  It can be requested again either way.
SimulationAnswers(k) ==
    /\ RequestsLeft /\ Requested(k)
    /\ \E answer \in {Unknown} \cup (IF ~Accepts(Query(k)) THEN {}
                                    ELSE {IF k = "create" THEN ledger.nextTaskId ELSE 1}) :
          sims' = [sims EXCEPT ![Query(k)] = answer] /\ sims' # sims
    /\ UNCHANGED <<ledger, wallet, form, checks, reads, refetch, flow, requests>>

Review(k) ==
    /\ RequestsLeft /\ SimulationReady(k) /\ (k = "approve" => ~ExactAllowance)
    /\ \E key \in {Intent, NoIntent} :
          key # flow[k].reviewed /\ flow' = [flow EXCEPT ![k].reviewed = key]
    /\ UNCHANGED <<ledger, wallet, form, checks, reads, refetch, sims, requests>>

\* sendApproval and sendCreation; expects is the id the submission will note.
Send(k) ==
    /\ CanSend(k)
    /\ \E r \in RequestIds :
          /\ requests[r].state = "none"
          /\ requests' = [requests EXCEPT ![r] =
                 [state |-> "wallet", query |-> Query(k), expects |-> reads.nextTaskId,
                  made |-> 0, awaited |-> TRUE, seen |-> FALSE]]
    /\ UNCHANGED <<ledger, wallet, form, checks, reads, refetch, flow, sims>>

WalletConfirms(r) ==
    /\ requests[r].state = "wallet" /\ wallet.chain = Coston2
    /\ requests' = [requests EXCEPT ![r].state = "pending", ![r].awaited = FALSE]
    /\ flow' = IF requests[r].awaited
               THEN [flow EXCEPT ![requests[r].query.kind].submission = r] ELSE flow
    /\ UNCHANGED <<ledger, wallet, form, checks, reads, refetch, sims>>

WalletRejects(r) ==
    /\ requests[r].state = "wallet"
    /\ requests' = [requests EXCEPT ![r] = [state |-> "none"]]
    /\ UNCHANGED <<ledger, wallet, form, checks, reads, refetch, flow, sims>>

BadAnnounces(r) ==                   \* the event's task id is not compared
    requests[r].query.kind = "create" /\ requests[r].seen

\* creationEventConfirmed: the form links to the task of the id it noted.
Announces(r) ==
    /\ requests[r].query.kind = "create" /\ requests[r].seen
    /\ requests[r].made = requests[r].expects

-----------------------------------------------------------------------------
Next ==
    \/ OthersCreate \/ ElsewhereApproves \/ Connect
    \/ EditReward \/ EditDraft \/ EditDocument \/ BuildDraft
    \/ VerifyManifest \/ ManifestAnswers
    \/ \E a \in Users : Refreshed(a) \/ \E n \in Reads : ReadAnswers(n, a)
    \/ \E k \in Kinds : RequestSimulation(k) \/ SimulationAnswers(k) \/ Review(k) \/ Send(k)
    \/ \E r \in RequestIds :
          SeesReceipt(r) \/ WalletConfirms(r) \/ WalletRejects(r) \/ Mined(r)

Spec == Init /\ [][Next]_vars

(* Nodes answer reads, and receipts of mined transactions are found: the form polls *)
(* for them.  Users, the wallet and the other parties owe nothing.                   *)
FairSpec ==
    /\ Spec
    /\ \A a \in Users : WF_vars(Refreshed(a))
    /\ \A r \in RequestIds : WF_vars(SeesReceipt(r))

-----------------------------------------------------------------------------
Asked(r, k) == requests[r].state # "none" /\ requests[r].query.kind = k

\* The form, the reads, the cache and the requests have their types; what is noted
\* as submitted has been broadcast.
TypeOK ==
    /\ wallet \in [account : Users \cup {Nobody}, chain : Chains]
    /\ form \in [reward : Rewards \cup {0}, doc : Docs \cup {NoDoc},
                 generated : Docs \cup {NoDoc}, verified : Keys,
                 check : {"idle", "checking", "verified"}]
    /\ checks \in SUBSET [key : Keys, reward : Rewards \cup {0}]
    /\ refetch \subseteq Users
    /\ sims \in [Queries -> Unknown .. MaxId]
    /\ {ledger.allowance, ledger.balance} \subseteq [Users -> Nat]
    /\ DOMAIN flow = Kinds
    /\ \A k \in Kinds : flow[k].submission # NoId =>
           /\ flow[k].submission \in RequestIds
           /\ requests[flow[k].submission].state \in {"pending", "success", "reverted"}

\* A manifest that is handed to createTask says the reward that is paid and this
\* deployment, although verdicts arrive after the reward has been edited.
PublishedSaysReward ==
    \A r \in RequestIds : Asked(r, "create") =>
        ManifestOf[requests[r].query.doc] =
            [parses |-> TRUE, here |-> TRUE, reward |-> requests[r].query.reward]

\* The task the form announces and links to is the one it created, although
\* another creator may have taken the predicted id.
AnnouncedIsOwn ==
    \A r \in RequestIds : Asked(r, "create") /\ Announces(r) =>
        ledger.task[requests[r].expects] =
            [creator |-> requests[r].query.account, reward |-> requests[r].query.reward,
             doc |-> requests[r].query.doc]

\* After an approval or a creation succeeds, a form that still follows it comes to
\* show the allowance as it is, so that the next step is not prepared from the old
\* one for ever; unless the account is switched or the allowance keeps changing.
ReceiptRefreshes ==
    \A r \in RequestIds, a \in Users, n \in 0 .. Funds :
        ( /\ requests[r].state = "success" /\ Noted(r) /\ ~requests[r].seen
          /\ [](Noted(r) /\ wallet.account = a /\ ledger.allowance[a] = n) )
            ~> (reads.allowance[a] = n)

\* createTask is handed to the wallet only with an exact allowance, enough tokens
\* and a verified manifest, on Coston2 (frontend/README.md:110, "Generic task
\* creation requires Coston2, a sufficient token balance, an exact selected
\* allowance, a verified manifest").
CreationIsReady ==
    [][\A r \in RequestIds :
          requests[r].state = "none" /\ requests'[r].state = "wallet"
              /\ requests'[r].query.kind = "create" => Ready("create")]_vars
=============================================================================
