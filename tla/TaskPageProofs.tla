--------------------------- MODULE TaskPageProofs ---------------------------
(***************************************************************************)
(* Proofs about the page of one task and its action panel, for any         *)
(* accounts, results, chains, number of loads and wallet requests.         *)
(***************************************************************************)
EXTENDS TaskPageProperties, TLAPS

(* A reading of the task: the contract was in this state before. *)
Old(t) ==
    /\ t \in ChainTask /\ Lawful(t) /\ t.status <= task.status
    /\ t.result # NoArtifact => t.result = task.result

Active(i) == loads[i].pc # "idle"

(* A load has read what it is about to show, not older than what is shown. *)
LoadInv(i) ==
    /\ loads[i].got = NoTask \/ Old(loads[i].got)
    /\ loads[i].pc \in {"task", "read"} /\ page.view # NoTask => loads[i].rpc
    /\ loads[i].pc \in {"read", "metadata", "result"} => loads[i].got # NoTask
    /\ loads[i].pc = "read" /\ page.view # NoTask => loads[i].got.status >= page.view.status
    /\ loads[i].pc \in {"metadata", "result"} => loads[i].got = page.view

(* At most one load is going on, and none while the page is shown. *)
OneLoad ==
    /\ \A i, j \in LoadIds : Active(i) /\ Active(j) => i = j
    /\ ~page.loading => \A i \in LoadIds : ~Active(i)
    /\ ~page.opened => page.loading /\ page.view = NoTask /\ \A i \in LoadIds : ~Active(i)

(* The verdict that is shown is about the result that is shown. *)
PageInv ==
    /\ Lawful(task)
    /\ indexed = NoTask \/ Old(indexed)
    /\ page.view = NoTask \/ Old(page.view)
    /\ \A i \in LoadIds : LoadInv(i)
    /\ OneLoad
    /\ Shown(page) => page.result \in {page.view.result, NoArtifact}
    /\ page.result # NoArtifact => page.result \in proven

(* What a simulation passed and what the wallet was given has been seen. *)
Seen(q) ==
    /\ q.action = "submit" => q.artifact \in proven
    /\ q.action = "approve" => task.result \in proven

PanelInv ==
    /\ panel.verification = "verified" => panel.verified \in proven
    /\ \A q \in Queries : sims[q] = "passed" => Seen(q)
    /\ \A r \in RequestIds :
           requests[r].state # "none" => requests[r].query \in Queries /\ Seen(requests[r].query)

IInv == TypeOK /\ PageInv /\ PanelInv

USE PageAssumption, PanelAssumption

-----------------------------------------------------------------------------
(* The contract's task *)

\* On a lawful task every account is offered exactly the action that the contract
\* would accept from it, and at most one (lib/task-action.ts:11).
THEOREM OffersFit ==
    ASSUME NEW t \in ChainTask, Lawful(t), NEW a \in Accounts, NEW k \in Actions
    PROVE  Available(t, a) = k <=> Accepts(t, a, k)
<1>1. t.status \in Open .. Cancelled /\ a # Nobody
  BY DEF ChainTask
<1>2. CASE k = "accept"
  BY <1>1, <1>2 DEF Available, Accepts, Role, NoAction, Open, InProgress, Submitted
<1>3. CASE k = "cancel"
  BY <1>1, <1>3 DEF Available, Accepts, Role, NoAction, Open, InProgress, Submitted
<1>4. CASE k = "submit"
  BY <1>1, <1>4 DEF Available, Accepts, Role, NoAction, Open, InProgress, Submitted, Lawful
<1>5. CASE k = "approve"
  BY <1>1, <1>5 DEF Available, Accepts, Role, NoAction, Open, InProgress, Submitted, Lawful
<1> QED
  BY <1>2, <1>3, <1>4, <1>5 DEF Actions

LEMMA ActedLawful ==
    ASSUME NEW t \in ChainTask, Lawful(t), NEW a \in Accounts, NEW k \in Actions,
           NEW w \in Artifacts \cup {NoArtifact}, k = "submit" => w # NoArtifact,
           Accepts(t, a, k), NEW u, u = After(t, a, k, w)
    PROVE  /\ u \in ChainTask /\ Lawful(u) /\ t.status <= u.status
           /\ t.result # NoArtifact => u.result = t.result
<1>1. CASE k = "accept"
  <2>1. t.status = Open /\ a # Creator /\ t.result = NoArtifact
    BY <1>1 DEF Accepts, Lawful, Open, InProgress, Submitted, Completed, Cancelled
  <2>2. u = [t EXCEPT !.status = InProgress, !.worker = a] /\ InProgress \in Open .. Cancelled
    BY <1>1 DEF After, InProgress, Open, Cancelled
  <2>3. u \in ChainTask /\ u.status = InProgress /\ u.worker = a /\ u.result = t.result
    BY <2>2 DEF ChainTask
  <2> QED
    BY <2>1, <2>3 DEF Lawful, Open, InProgress, Submitted, Completed, Cancelled
<1>2. CASE k = "cancel"
  BY <1>2 DEF Accepts, After, Lawful, ChainTask, Open, InProgress, Submitted, Completed, Cancelled
<1>3. CASE k = "submit"
  <2>1. t.status = InProgress /\ t.worker # Nobody /\ t.worker # Creator /\ t.result = NoArtifact
    BY <1>3 DEF Accepts, Lawful, Open, InProgress, Submitted, Completed, Cancelled
  <2>2. u = [t EXCEPT !.status = Submitted, !.result = w] /\ Submitted \in Open .. Cancelled
    BY <1>3 DEF After, Submitted, Open, Cancelled
  <2>3. u \in ChainTask /\ u.status = Submitted /\ u.worker = t.worker /\ u.result = w
    BY <1>3, <2>2 DEF ChainTask
  <2> QED
    BY <1>3, <2>1, <2>3 DEF Lawful, Open, InProgress, Submitted, Completed, Cancelled
<1>4. CASE k = "approve"
  BY <1>4 DEF Accepts, After, Lawful, ChainTask, Open, InProgress, Submitted, Completed, Cancelled
<1> QED
  BY <1>1, <1>2, <1>3, <1>4 DEF Actions

(* The task as the contract has it advances, and keeps what is committed. *)
Advances ==
    /\ task' \in ChainTask /\ Lawful(task') /\ task.status <= task'.status
    /\ task.result # NoArtifact => task'.result = task.result

LEMMA TaskAdvances == IInv /\ [Next]_allVars => Advances
<1> SUFFICES ASSUME IInv, [Next]_allVars PROVE Advances
  OBVIOUS
<1>1. task \in ChainTask /\ Lawful(task) /\ task.status \in Nat
  BY DEF IInv, TypeOK, PageInv, ChainTask, Open, Cancelled
<1>2. CASE OthersAct
  BY <1>1, <1>2, ActedLawful DEF OthersAct, Advances
<1>3. ASSUME NEW r \in RequestIds, Mined(r) PROVE Advances
  <2> DEFINE q == requests[r].query
  <2>1. q \in Queries /\ Seen(q) /\ proven \subseteq Artifacts
    BY <1>3 DEF Mined, IInv, PanelInv, TypeOK
  <2>2. /\ q.account \in Accounts /\ q.action \in Actions
        /\ q.artifact \in Artifacts \cup {NoArtifact}
        /\ q.action = "submit" => q.artifact # NoArtifact
    BY <2>1 DEF Queries, Seen
  <2>3. \/ Accepts(task, q.account, q.action)
           /\ task' = After(task, q.account, q.action, q.artifact)
        \/ task' = task
    BY <1>3 DEF Mined
  <2> HIDE DEF q
  <2> QED
    BY <1>1, <2>2, <2>3, ActedLawful DEF Advances
<1>4. CASE UNCHANGED task
  BY <1>1, <1>4 DEF Advances
<1> QED
  BY <1>2, <1>3, <1>4
     DEF Next, allVars, pageVars, PageStep, LoadStep, Index, FirstLoad, Refresh, TaskIsRead,
         TaskAnswers, MetadataAnswers, ResultAnswers, Confirmed, Connect, Edit, VerifyResult,
         VerificationAnswers, RequestSimulation, SimulationAnswers, CacheExpires, Review, Send,
         WalletConfirms, WalletRejects

-----------------------------------------------------------------------------
(* Types *)

LEMMA InitIInv == Init => IInv
<1> SUFFICES ASSUME Init PROVE IInv
  OBVIOUS
<1> USE DEF Init, PageInit
<1>1. task \in ChainTask /\ Lawful(task) /\ task.status \in Nat
  BY DEF ChainTask, Open, Cancelled
<1>2. Old(task)
  BY <1>1 DEF Old
<1>3. page \in PageType /\ loads \in [LoadIds -> LoadType]
  BY DEF PageType, LoadType, IdleLoad
<1>4. panel \in PanelType /\ requests \in [RequestIds -> RequestType]
  BY DEF PanelType, FreshPanel, RequestType, NoRequest
<1>5. TypeOK
  BY <1>1, <1>3, <1>4 DEF TypeOK, FreshPanel, Open, Cancelled
<1>6. PageInv
  BY <1>1, <1>2 DEF PageInv, LoadInv, OneLoad, Active, IdleLoad, Shown
<1>7. PanelInv
  BY DEF PanelInv, FreshPanel, NoRequest
<1> QED
  BY <1>5, <1>6, <1>7 DEF IInv

LEMMA PageTypeKeeps ==
    ASSUME IInv, [Next]_allVars, task' \in ChainTask
    PROVE  /\ indexed' \in ChainTask \cup {NoTask}
           /\ page' \in PageType /\ loads' \in [LoadIds -> LoadType]
<1> USE DEF IInv, TypeOK
<1>1. ASSUME NEW i \in LoadIds, NEW p \in BOOLEAN, Load(i, p)
      PROVE  page' \in PageType /\ loads' \in [LoadIds -> LoadType]
  BY <1>1 DEF Load, PageType, LoadType, IdleLoad
<1>2. CASE FirstLoad
  BY <1>1, <1>2 DEF FirstLoad, PageType
<1>3. CASE Refresh \/ Confirmed
  BY <1>1, <1>3 DEF Refresh, Confirmed
<1>4. ASSUME NEW i \in LoadIds, TaskIsRead(i)
      PROVE  page' \in PageType /\ loads' \in [LoadIds -> LoadType]
  <2>1. CASE page' = [page EXCEPT !.error = TRUE, !.loading = FALSE]
               /\ loads' = [loads EXCEPT ![i] = IdleLoad]
    BY <2>1 DEF PageType, LoadType, IdleLoad
  <2>2. ASSUME NEW t \in ReadTask(loads[i].rpc), UNCHANGED page,
               loads' = [loads EXCEPT ![i].pc = "read", ![i].got = t]
        PROVE  page' \in PageType /\ loads' \in [LoadIds -> LoadType]
    <3>1. t \in ChainTask
      BY <2>2 DEF ReadTask
    <3> DEFINE load == [loads[i] EXCEPT !.pc = "read", !.got = t]
    <3>2. load \in LoadType
      <4>1. loads[i] \in LoadType
        OBVIOUS
      <4> DEFINE reading == [loads[i] EXCEPT !.pc = "read"]
      <4>2. reading \in LoadType
        BY <4>1 DEF LoadType
      <4>3. load = [reading EXCEPT !.got = t]
        OBVIOUS
      <4> HIDE DEF reading, load
      <4> QED
        BY <3>1, <4>2, <4>3 DEF LoadType
    <3>3. loads' = [loads EXCEPT ![i] = load]
      BY <2>2
    <3> HIDE DEF load
    <3> QED
      BY <2>2, <3>2, <3>3
  <2> QED
    BY <1>4, <2>1, <2>2 DEF TaskIsRead
<1>5. ASSUME NEW i \in LoadIds, TaskAnswers(i)
      PROVE  page' \in PageType /\ loads' \in [LoadIds -> LoadType]
  BY <1>5 DEF TaskAnswers, PageType, LoadType
<1>6. ASSUME NEW i \in LoadIds, MetadataAnswers(i)
      PROVE  page' \in PageType /\ loads' \in [LoadIds -> LoadType]
  <2>1. CASE loads' = [loads EXCEPT ![i].pc = "result"] /\ UNCHANGED page
    BY <2>1 DEF LoadType
  <2>2. CASE /\ page' = [page EXCEPT !.result = NoArtifact, !.error = FALSE, !.loading = FALSE]
             /\ loads' = [loads EXCEPT ![i] = IdleLoad]
    BY <2>2 DEF PageType, LoadType, IdleLoad
  <2> QED
    BY <1>6, <2>1, <2>2 DEF MetadataAnswers
<1>7. ASSUME NEW i \in LoadIds, ResultAnswers(i)
      PROVE  page' \in PageType /\ loads' \in [LoadIds -> LoadType]
  <2>1. loads[i].got \in ChainTask
    BY <1>7 DEF ResultAnswers, PageInv, LoadInv, LoadType
  <2> QED
    BY <1>7, <2>1 DEF ResultAnswers, Verified, PageType, LoadType, IdleLoad, ChainTask
<1>8. CASE OthersAct \/ Index
  BY <1>8 DEF OthersAct, Index
<1>9. CASE UNCHANGED <<indexed, page, loads>>
  BY <1>9
<1> QED
  BY <1>2, <1>3, <1>4, <1>5, <1>6, <1>7, <1>8, <1>9
     DEF Next, allVars, pageVars, PageStep, LoadStep, FirstLoad, Refresh, TaskIsRead, TaskAnswers,
         MetadataAnswers, ResultAnswers, Confirmed, Connect, Edit, VerifyResult,
         VerificationAnswers, RequestSimulation, SimulationAnswers, CacheExpires, Review, Send,
         WalletConfirms, WalletRejects, Mined

LEMMA OfferedTyped ==
    ASSUME IInv, Offered
    PROVE  /\ page.view \in ChainTask /\ Old(page.view) /\ wallet.account \in Accounts
           /\ Action \in Actions /\ Intent \in Intents /\ Query \in Queries
<1>1. page.view \in ChainTask /\ Old(page.view)
  BY DEF IInv, TypeOK, PageInv, PageType, Offered, Shown
<1>2. Action \in Actions /\ wallet.account # Nobody
  BY DEF Offered, Action, Available, Actions, NoAction
<1>3. wallet.account \in Accounts /\ wallet.chain \in Chains
      /\ panel.artifact \in Artifacts \cup {NoArtifact}
  BY <1>2 DEF IInv, TypeOK, PanelType
<1>4. page.view.status \in Open .. Cancelled
  BY <1>1 DEF ChainTask
<1>5. Intent \in Intents
  BY <1>2, <1>3, <1>4 DEF Intent, Intents
<1>6. Query \in Queries
  BY <1>2, <1>3 DEF Query, Queries
<1> QED
  BY <1>1, <1>2, <1>3, <1>5, <1>6

(* The part of the type invariant that is about the panel and the wallet. *)
PanelTypes ==
    /\ wallet \in [account : Accounts \cup {Nobody}, chain : Chains]
    /\ panel \in PanelType /\ checks \in SUBSET Artifacts
    /\ sims \in [Queries -> {"none", "passed", "failed"}]
    /\ requests \in [RequestIds -> RequestType]
    /\ panel.submission # NoId =>
           requests[panel.submission].state \in {"pending", "success", "reverted"}

LEMMA AbandonedTyped ==
    ASSUME PanelTypes
    PROVE  /\ Abandoned \in [RequestIds -> RequestType]
           /\ \A r \in RequestIds : /\ Abandoned[r].state = requests[r].state
                                    /\ Abandoned[r].query = requests[r].query
BY DEF PanelTypes, Abandoned, RequestType

LEMMA FreshTyped == FreshPanel \in PanelType /\ FreshPanel.submission = NoId
BY DEF FreshPanel, PanelType

LEMMA PanelTypeKeeps ==
    ASSUME IInv, [Next]_allVars PROVE PanelTypes'
<1>1. PanelTypes
  BY DEF IInv, TypeOK, PanelTypes
<1> USE DEF PanelTypes
<1>2. CASE PanelFollows
  BY <1>1, <1>2, AbandonedTyped, FreshTyped DEF PanelFollows
<1>3. CASE Connect
  BY <1>1, <1>3 DEF Connect
<1>4. CASE Edit
  <2>1. PICK w \in Artifacts \cup {NoArtifact} :
            panel' = [panel EXCEPT !.artifact = w, !.verification = "idle"]
    BY <1>4 DEF Edit
  <2>2. panel' \in PanelType /\ panel'.submission = panel.submission
    BY <1>1, <2>1 DEF PanelType
  <2> QED
    BY <1>1, <1>4, <2>2 DEF Edit
<1>5. CASE VerifyResult
  <2>1. panel' \in PanelType /\ panel'.submission = panel.submission
    BY <1>1, <1>5 DEF VerifyResult, PanelType
  <2>2. panel.artifact \in Artifacts
    BY <1>1, <1>5 DEF VerifyResult, PanelType
  <2> QED
    BY <1>1, <1>5, <2>1, <2>2 DEF VerifyResult
<1>6. CASE VerificationAnswers
  <2>1. PICK w \in checks :
            /\ checks' = checks \ {w}
            /\ \/ panel' = [panel EXCEPT !.verification = "verified", !.verified = w]
               \/ panel' = [panel EXCEPT !.verification = "failed", !.verified = NoArtifact]
    BY <1>6 DEF VerificationAnswers
  <2>2. w \in Artifacts
    BY <1>1
  <2>3. panel' \in PanelType /\ panel'.submission = panel.submission
    <3>1. CASE panel' = [panel EXCEPT !.verification = "verified", !.verified = w]
      BY <1>1, <2>2, <3>1 DEF PanelType
    <3>2. CASE panel' = [panel EXCEPT !.verification = "failed", !.verified = NoArtifact]
      BY <1>1, <3>2 DEF PanelType
    <3> QED
      BY <2>1, <3>1, <3>2
  <2> QED
    BY <1>1, <1>6, <2>1, <2>3 DEF VerificationAnswers
<1>7. CASE RequestSimulation
  <2>1. Intent \in Intents
    BY <1>7, OfferedTyped DEF RequestSimulation
  <2>2. panel' \in PanelType /\ panel'.submission = NoId
    BY <1>1, <1>7, <2>1 DEF RequestSimulation, PanelType
  <2> QED
    BY <1>1, <1>7, <2>2, AbandonedTyped DEF RequestSimulation
<1>8. CASE SimulationAnswers \/ CacheExpires
  BY <1>1, <1>8 DEF SimulationAnswers, CacheExpires
<1>9. CASE Review
  <2>1. PICK key \in {Intent, NoIntent} : panel' = [panel EXCEPT !.reviewed = key]
    BY <1>9 DEF Review
  <2>2. key \in Intents \cup {NoIntent}
    BY <1>9, OfferedTyped DEF Review
  <2>3. panel' \in PanelType /\ panel'.submission = panel.submission
    BY <1>1, <2>1, <2>2 DEF PanelType
  <2> QED
    BY <1>1, <1>9, <2>3 DEF Review
<1>10. CASE Send
  <2>1. PICK r \in RequestIds :
            /\ requests[r].state = "none"
            /\ requests' = [requests EXCEPT ![r] = [state |-> "wallet", query |-> Query,
                                                    awaited |-> TRUE]]
    BY <1>10 DEF Send
  <2>2. [state |-> "wallet", query |-> Query, awaited |-> TRUE] \in RequestType
    BY <1>10, OfferedTyped DEF Send, RequestType
  <2>3. requests' \in [RequestIds -> RequestType]
        /\ \A s \in RequestIds \ {r} : requests'[s] = requests[s]
    BY <1>1, <2>1, <2>2
  <2>4. panel.submission # r /\ panel.submission \in RequestIds \cup {NoId}
    BY <1>1, <2>1 DEF PanelType
  <2> QED
    BY <1>1, <1>10, <2>3, <2>4 DEF Send
<1>11. ASSUME NEW r \in RequestIds, WalletConfirms(r) PROVE PanelTypes'
  <2>1. requests' \in [RequestIds -> RequestType] /\ requests'[r].state = "pending"
        /\ \A s \in RequestIds \ {r} : requests'[s] = requests[s]
    BY <1>1, <1>11 DEF WalletConfirms, RequestType
  <2>2. panel' \in PanelType /\ panel'.submission \in {panel.submission, r}
    BY <1>1, <1>11 DEF WalletConfirms, PanelType
  <2>3. panel.submission \in RequestIds \cup {NoId}
    BY <1>1 DEF PanelType
  <2> QED
    BY <1>1, <1>11, <2>1, <2>2, <2>3 DEF WalletConfirms
<1>12. ASSUME NEW r \in RequestIds, WalletRejects(r) PROVE PanelTypes'
  <2>1. requests' \in [RequestIds -> RequestType] /\ requests[r].state = "wallet"
        /\ \A s \in RequestIds \ {r} : requests'[s] = requests[s]
    BY <1>1, <1>12 DEF WalletRejects, RequestType, NoRequest
  <2>2. panel.submission # r /\ panel.submission \in RequestIds \cup {NoId}
    BY <1>1, <2>1 DEF PanelType
  <2> QED
    BY <1>1, <1>12, <2>1, <2>2 DEF WalletRejects
<1>13. ASSUME NEW r \in RequestIds, Mined(r) PROVE PanelTypes'
  <2>1. \/ requests' = [requests EXCEPT ![r].state = "success"]
        \/ requests' = [requests EXCEPT ![r].state = "reverted"]
    BY <1>13 DEF Mined
  <2>2. requests' \in [RequestIds -> RequestType]
        /\ requests'[r].state \in {"success", "reverted"}
        /\ \A s \in RequestIds \ {r} : requests'[s] = requests[s]
    BY <1>1, <2>1 DEF RequestType
  <2>3. panel.submission \in RequestIds \cup {NoId}
    BY <1>1 DEF PanelType
  <2> QED
    BY <1>1, <1>13, <2>2, <2>3 DEF Mined
<1>14. CASE UNCHANGED panelVars
  BY <1>1, <1>14 DEF panelVars
<1> QED
  BY <1>2, <1>3, <1>4, <1>5, <1>6, <1>7, <1>8, <1>9, <1>10, <1>11, <1>12, <1>13, <1>14
     DEF Next, allVars, PageStep, Confirmed

LEMMA TypeKeeps == IInv /\ [Next]_allVars => TypeOK'
<1> SUFFICES ASSUME IInv, [Next]_allVars PROVE TypeOK'
  OBVIOUS
<1>1. task' \in ChainTask
  BY TaskAdvances DEF Advances
<1>2. page' \in PageType /\ loads' \in [LoadIds -> LoadType]
      /\ indexed' \in ChainTask \cup {NoTask}
  BY <1>1, PageTypeKeeps
<1>3. PanelTypes'
  BY PanelTypeKeeps
<1>4. proven \in SUBSET Artifacts /\ confirmed \in Open .. Cancelled /\ checks \in SUBSET Artifacts
  BY DEF IInv, TypeOK
<1>5. proven' \in SUBSET Artifacts
  <2>1. CASE PageStep
    BY <1>2, <1>4, <2>1 DEF PageStep, PageType
  <2>2. CASE VerificationAnswers
    BY <1>4, <2>2 DEF VerificationAnswers
  <2> QED
    BY <1>4, <2>1, <2>2
       DEF Next, allVars, history, Confirmed, Connect, Edit, VerifyResult, RequestSimulation,
           SimulationAnswers, CacheExpires, Review, Send, WalletConfirms, WalletRejects, Mined
<1>6. confirmed' \in Open .. Cancelled
  <2>1. CASE Confirmed
    <3>1. panel.submission \in RequestIds
          /\ requests[panel.submission].state = "success"
      BY <2>1 DEF Confirmed, IInv, TypeOK, PanelType
    <3>2. requests[panel.submission].query.action \in Actions
      BY <3>1 DEF IInv, PanelInv, Queries
    <3> QED
      BY <2>1, <3>2 DEF Confirmed, StatusAfter, Actions, Open, InProgress, Submitted, Completed,
                        Cancelled
  <2> QED
    BY <1>4, <2>1
       DEF Next, allVars, history, PageStep, Connect, Edit, VerifyResult, VerificationAnswers,
           RequestSimulation, SimulationAnswers, CacheExpires, Review, Send, WalletConfirms,
           WalletRejects, Mined
<1> QED
  BY <1>1, <1>2, <1>3, <1>5, <1>6 DEF TypeOK, PanelTypes

-----------------------------------------------------------------------------
(* The page *)

LEMMA OldStays ==
    ASSUME Advances, NEW t, Old(t), task.status \in Nat
    PROVE  /\ t \in ChainTask /\ Lawful(t) /\ t.status <= task'.status
           /\ t.result # NoArtifact => t.result = task'.result
<1>1. t.status \in Nat /\ task'.status \in Nat
  BY DEF Advances, Old, ChainTask, Open, Cancelled
<1> QED
  BY <1>1 DEF Advances, Old

LEMMA ProvenGrows == [Next]_allVars => proven \subseteq proven'
BY DEF Next, allVars, history, PageStep, Confirmed, Connect, Edit, VerifyResult,
       VerificationAnswers, RequestSimulation, SimulationAnswers, CacheExpires, Review, Send,
       WalletConfirms, WalletRejects, Mined

LEMMA LoadStarts ==
    ASSUME IInv, [Next]_allVars, NEW i \in LoadIds, NEW p \in BOOLEAN, Load(i, p),
           UNCHANGED indexed, \A j \in LoadIds : ~Active(j), p \/ page.view = NoTask
    PROVE  PageInv'
<1>1. Advances /\ task.status \in Nat /\ proven \subseteq proven'
  BY TaskAdvances, ProvenGrows DEF IInv, TypeOK, ChainTask, Open, Cancelled
<1>2. /\ page'.view = page.view /\ page'.result = page.result
      /\ page'.loading /\ page'.opened
  BY DEF Load, IInv, TypeOK, PageType
<1>3. /\ loads'[i].pc = "task" /\ loads'[i].rpc = p /\ loads'[i].got = NoTask
      /\ \A j \in LoadIds \ {i} : loads'[j] = loads[j]
  BY DEF Load, IInv, TypeOK, IdleLoad
<1>4. \A j \in LoadIds : LoadInv(j)'
  BY <1>1, <1>2, <1>3, OldStays DEF IInv, PageInv, LoadInv, Old, Active
<1>5. OneLoad'
  BY <1>2, <1>3 DEF OneLoad, Active
<1> QED
  BY <1>1, <1>2, <1>4, <1>5, OldStays DEF IInv, PageInv, Old, Advances, Shown

LEMMA ReadingKeeps ==
    ASSUME IInv, [Next]_allVars, NEW i \in LoadIds, TaskIsRead(i), UNCHANGED task
    PROVE  PageInv'
<1>1. Advances /\ task.status \in Nat /\ proven \subseteq proven'
  BY TaskAdvances, ProvenGrows DEF IInv, TypeOK, ChainTask, Open, Cancelled
<1>2. Active(i) /\ (page.view # NoTask => loads[i].rpc) /\ \A j \in LoadIds \ {i} : ~Active(j)
  BY DEF TaskIsRead, Active, IInv, PageInv, LoadInv, OneLoad
<1>3. ASSUME NEW t \in ReadTask(loads[i].rpc), page' = page,
             loads' = [loads EXCEPT ![i].pc = "read", ![i].got = t]
      PROVE  PageInv'
  <2>1. t # NoTask /\ Old(t) /\ (page.view # NoTask => t = task)
    BY <1>2, <1>3 DEF ReadTask, IInv, TypeOK, PageInv, Old, ChainTask, Open, Cancelled
  <2>2. /\ loads'[i].pc = "read" /\ loads'[i].got = t /\ loads'[i].rpc = loads[i].rpc
        /\ page' = page /\ \A j \in LoadIds \ {i} : loads'[j] = loads[j]
    BY <1>3 DEF IInv, TypeOK, LoadType
  <2>3. \A j \in LoadIds : LoadInv(j)'
    BY <1>1, <1>2, <2>1, <2>2, OldStays DEF IInv, PageInv, LoadInv, Old, Active
  <2>4. OneLoad'
    BY <1>2, <2>2 DEF IInv, PageInv, OneLoad, Active
  <2> QED
    BY <1>1, <1>3, <2>3, <2>4, OldStays DEF TaskIsRead, IInv, PageInv, Old, Advances, Shown
<1>4. ASSUME page' = [page EXCEPT !.error = TRUE, !.loading = FALSE],
             loads' = [loads EXCEPT ![i] = IdleLoad]
      PROVE  PageInv'
  <2>1. /\ page'.view = page.view /\ page'.result = page.result /\ page'.error
        /\ page'.opened = page.opened
    BY <1>4 DEF IInv, TypeOK, PageType
  <2>2. /\ loads'[i].pc = "idle" /\ loads'[i].got = NoTask
        /\ \A j \in LoadIds \ {i} : loads'[j] = loads[j]
    BY <1>4 DEF IInv, TypeOK, IdleLoad
  <2>3. \A j \in LoadIds : LoadInv(j)'
    BY <1>1, <1>2, <2>1, <2>2, OldStays DEF IInv, PageInv, LoadInv, Old, Active
  <2>4. OneLoad'
    BY <1>2, <2>1, <2>2 DEF IInv, PageInv, OneLoad, Active
  <2> QED
    BY <1>1, <2>1, <2>3, <2>4, OldStays DEF TaskIsRead, IInv, PageInv, Old, Advances, Shown
<1> QED
  BY <1>3, <1>4 DEF TaskIsRead

LEMMA AnsweringKeeps ==
    ASSUME IInv, [Next]_allVars, NEW i \in LoadIds, UNCHANGED task,
           TaskAnswers(i) \/ MetadataAnswers(i) \/ ResultAnswers(i),
           proven' = proven \cup ({page'.result} \ {NoArtifact})
    PROVE  PageInv'
<1>1. Advances /\ task.status \in Nat /\ proven \subseteq proven'
  BY TaskAdvances, ProvenGrows DEF IInv, TypeOK, ChainTask, Open, Cancelled
<1>2. Active(i) /\ (\A j \in LoadIds \ {i} : ~Active(j)) /\ page.loading /\ page.opened
      /\ loads[i].got # NoTask /\ Old(loads[i].got)
  BY DEF TaskAnswers, MetadataAnswers, ResultAnswers, Active, IInv, PageInv, LoadInv, OneLoad
<1>3. CASE TaskAnswers(i)
  <2>1. page'.view = loads[i].got /\ page'.result = page.result /\ page'.loading /\ page'.opened
    BY <1>2, <1>3 DEF TaskAnswers, IInv, TypeOK, PageType
  <2>2. /\ loads'[i].pc = "metadata" /\ loads'[i].got = loads[i].got
        /\ \A j \in LoadIds \ {i} : loads'[j] = loads[j]
    BY <1>3 DEF TaskAnswers, IInv, TypeOK, LoadType
  <2>3. \A j \in LoadIds : LoadInv(j)'
    BY <1>1, <1>2, <2>1, <2>2, OldStays DEF IInv, PageInv, LoadInv, Old, Active
  <2>4. OneLoad'
    BY <1>2, <2>1, <2>2 DEF IInv, PageInv, OneLoad, Active
  <2> QED
    BY <1>1, <1>2, <1>3, <2>1, <2>3, <2>4, OldStays
       DEF TaskAnswers, IInv, PageInv, Old, Advances, Shown
<1>4. CASE MetadataAnswers(i) /\ loads[i].got.result # NoArtifact
  <2>1. page' = page
    BY <1>4 DEF MetadataAnswers
  <2>2. /\ loads[i].pc = "metadata"
        /\ loads'[i].pc = "result" /\ loads'[i].got = loads[i].got
        /\ \A j \in LoadIds \ {i} : loads'[j] = loads[j]
    BY <1>4 DEF MetadataAnswers, IInv, TypeOK, LoadType
  <2>3. \A j \in LoadIds : LoadInv(j)'
    BY <1>1, <1>2, <2>1, <2>2, OldStays DEF IInv, PageInv, LoadInv, Old, Active
  <2>4. OneLoad'
    BY <1>2, <2>1, <2>2 DEF IInv, PageInv, OneLoad, Active
  <2> QED
    BY <1>1, <1>2, <1>4, <2>1, <2>3, <2>4, OldStays
       DEF MetadataAnswers, IInv, PageInv, Old, Advances, Shown
<1>5. ASSUME NEW found \in {loads[i].got.result, NoArtifact}, UNCHANGED indexed,
             loads[i].pc \in {"metadata", "result"},
             page' = [page EXCEPT !.result = found, !.error = FALSE, !.loading = FALSE],
             loads' = [loads EXCEPT ![i] = IdleLoad]
      PROVE  PageInv'
  <2>1. page'.view = page.view /\ page'.result = found /\ page'.opened
    BY <1>2, <1>5 DEF IInv, TypeOK, PageType
  <2>2. /\ loads'[i].pc = "idle" /\ loads'[i].got = NoTask
        /\ \A j \in LoadIds \ {i} : loads'[j] = loads[j]
    BY <1>5 DEF IInv, TypeOK, IdleLoad
  <2>3. page.view = loads[i].got
    BY <1>5 DEF IInv, PageInv, LoadInv
  <2>4. \A j \in LoadIds : LoadInv(j)'
    BY <1>1, <1>2, <2>1, <2>2, OldStays DEF IInv, PageInv, LoadInv, Old, Active
  <2>5. OneLoad'
    BY <1>2, <2>1, <2>2 DEF IInv, PageInv, OneLoad, Active
  <2> QED
    BY <1>1, <1>2, <1>5, <2>1, <2>3, <2>4, <2>5, OldStays DEF IInv, PageInv, Old, Advances, Shown
<1> QED
  BY <1>3, <1>4, <1>5 DEF MetadataAnswers, ResultAnswers, Verified

LEMMA PageKeeps == IInv /\ [Next]_allVars => PageInv'
<1> SUFFICES ASSUME IInv, [Next]_allVars PROVE PageInv'
  OBVIOUS
<1>1. Advances /\ task.status \in Nat /\ proven \subseteq proven'
  BY TaskAdvances, ProvenGrows DEF IInv, TypeOK, ChainTask, Open, Cancelled
<1>2. ASSUME page' = page, loads' = loads, indexed' \in {indexed, task} PROVE PageInv'
  <2>1. Old(task)
    BY DEF IInv, TypeOK, PageInv, Old, ChainTask, Open, Cancelled
  <2>2. ASSUME NEW j \in LoadIds PROVE LoadInv(j)'
    <3>1. LoadInv(j) /\ (loads[j].got # NoTask => Old(loads[j].got))
      BY DEF IInv, PageInv, LoadInv
    <3> QED
      BY <1>1, <1>2, <3>1, OldStays DEF LoadInv, Old
  <2>3. OneLoad'
    BY <1>2 DEF IInv, PageInv, OneLoad, Active
  <2> QED
    BY <1>1, <1>2, <2>1, <2>2, <2>3, OldStays DEF IInv, PageInv, Old, Advances, Shown
<1>3. CASE FirstLoad /\ PageStep
  <2>1. page.view = NoTask /\ \A j \in LoadIds : ~Active(j)
    BY <1>3 DEF FirstLoad, IInv, PageInv, OneLoad
  <2>2. ASSUME NEW i \in LoadIds, Load(i, FALSE) PROVE PageInv'
    BY <1>3, <2>1, <2>2, LoadStarts DEF FirstLoad
  <2>3. ASSUME page' = [page EXCEPT !.opened = TRUE, !.error = TRUE, !.loading = FALSE],
               UNCHANGED loads
        PROVE  PageInv'
    <3>1. /\ page'.view = page.view /\ page'.result = page.result /\ page'.error
          /\ page'.opened
      BY <2>3 DEF IInv, TypeOK, PageType
    <3>2. \A j \in LoadIds : LoadInv(j)'
      BY <1>1, <2>1, <2>3, <3>1, OldStays DEF IInv, PageInv, LoadInv, Old, Active
    <3>3. OneLoad'
      BY <2>1, <2>3, <3>1 DEF OneLoad, Active
    <3> QED
      BY <1>1, <1>3, <2>1, <3>1, <3>2, <3>3, OldStays
         DEF FirstLoad, IInv, PageInv, Old, Advances, Shown
  <2> QED
    BY <1>3, <2>2, <2>3 DEF FirstLoad
<1>4. CASE (Refresh /\ PageStep) \/ Confirmed
  <2>1. \A j \in LoadIds : ~Active(j)
    BY <1>4 DEF Refresh, Confirmed, Shown, IInv, PageInv, OneLoad
  <2>2. PICK i \in LoadIds : Load(i, TRUE)
    BY <1>4 DEF Refresh, Confirmed
  <2>3. UNCHANGED indexed
    BY <1>4 DEF Refresh, Confirmed
  <2> QED
    BY <2>1, <2>2, <2>3, LoadStarts
<1>5. CASE LoadStep /\ PageStep
  BY <1>5, ReadingKeeps, AnsweringKeeps
     DEF LoadStep, PageStep, TaskIsRead, TaskAnswers, MetadataAnswers, ResultAnswers
<1> QED
  BY <1>2, <1>3, <1>4, <1>5
     DEF Next, allVars, pageVars, PageStep, OthersAct, Index, Connect, Edit, VerifyResult,
         VerificationAnswers, RequestSimulation, SimulationAnswers, CacheExpires, Review, Send,
         WalletConfirms, WalletRejects, Mined

-----------------------------------------------------------------------------
(* The panel *)

LEMMA SeenStays ==
    ASSUME IInv, [Next]_allVars, NEW q, Seen(q)
    PROVE  /\ q.action = "submit" => q.artifact \in proven'
           /\ q.action = "approve" => task'.result \in proven'
<1>1. Advances /\ proven \subseteq proven' /\ proven \subseteq Artifacts
  BY TaskAdvances, ProvenGrows DEF IInv, TypeOK
<1> QED
  BY <1>1 DEF Advances, Seen

LEMMA PassedSeen ==
    ASSUME IInv, Offered, SimulationRequested PROVE Seen(Query)
<1>1. CASE Action = "submit"
  BY <1>1 DEF SimulationRequested, SubmitArtifactReady, IInv, PanelInv, Seen, Query
<1>2. CASE Action = "approve"
  <2>1. page.result # NoArtifact
    BY <1>2 DEF SimulationRequested, BaseReady, EvidenceReady, ResultVerified
  <2>2. page.result \in proven /\ page.result = page.view.result
    BY <2>1 DEF Offered, IInv, PageInv
  <2>3. page.view.result = task.result
    BY <2>1, <2>2, OfferedTyped DEF Old
  <2> QED
    BY <1>2, <2>2, <2>3 DEF Seen, Query
<1>3. CASE Action \notin {"submit", "approve"}
  BY <1>3 DEF Seen, Query
<1> QED
  BY <1>1, <1>2, <1>3

LEMMA SimsKeep ==
    ASSUME IInv, [Next]_allVars, NEW q \in Queries, sims'[q] = "passed" PROVE Seen(q)'
<1>1. ASSUME Seen(q) PROVE Seen(q)'
  BY <1>1, SeenStays DEF Seen
<1>2. CASE SimulationAnswers
  <2>1. PICK answer : sims' = [sims EXCEPT ![Query] = answer]
    BY <1>2 DEF SimulationAnswers
  <2>2. q = Query \/ sims'[q] = sims[q]
    BY <2>1 DEF IInv, TypeOK
  <2>3. q = Query => Seen(q)
    BY <1>2, PassedSeen DEF SimulationAnswers
  <2> QED
    BY <1>1, <2>2, <2>3 DEF IInv, PanelInv
<1>3. CASE CacheExpires
  <2>1. sims'[q] = sims[q]
    BY <1>3 DEF CacheExpires, IInv, TypeOK
  <2> QED
    BY <1>1, <2>1 DEF IInv, PanelInv
<1>4. CASE UNCHANGED sims
  BY <1>1, <1>4 DEF IInv, PanelInv
<1> QED
  BY <1>2, <1>3, <1>4
     DEF Next, allVars, panelVars, PageStep, PanelFollows, Confirmed, Connect, Edit, VerifyResult,
         VerificationAnswers, RequestSimulation, Review, Send, WalletConfirms, WalletRejects, Mined

(* A request that is not new keeps its query. *)
LEMMA RequestsStay ==
    ASSUME IInv, [Next]_allVars, NEW r \in RequestIds, requests'[r].state # "none"
    PROVE  \/ requests[r].state # "none" /\ requests'[r].query = requests[r].query
           \/ Send /\ requests'[r].query = Query
<1>1. requests \in [RequestIds -> RequestType]
  BY DEF IInv, TypeOK
<1>2. CASE requests' = Abandoned
  BY <1>1, <1>2 DEF Abandoned, RequestType
<1>3. CASE Send
  <2>1. PICK s \in RequestIds :
            requests' = [requests EXCEPT ![s] = [state |-> "wallet", query |-> Query,
                                                 awaited |-> TRUE]]
    BY <1>3 DEF Send
  <2>2. requests'[s].query = Query /\ (r # s => requests'[r] = requests[r])
    BY <1>1, <2>1
  <2> QED
    BY <1>3, <2>2
<1>4. ASSUME NEW s \in RequestIds, WalletConfirms(s) \/ WalletRejects(s) \/ Mined(s)
      PROVE  requests[r].state # "none" /\ requests'[r].query = requests[r].query
  <2>1. requests[s].state # "none"
    BY <1>4 DEF WalletConfirms, WalletRejects, Mined
  <2>2. CASE r = s
    BY <1>1, <1>4, <2>1, <2>2 DEF WalletConfirms, WalletRejects, Mined, RequestType, NoRequest
  <2>3. CASE r # s
    BY <1>1, <1>4, <2>3 DEF WalletConfirms, WalletRejects, Mined
  <2> QED
    BY <2>2, <2>3
<1>5. CASE UNCHANGED requests
  BY <1>5
<1> QED
  BY <1>2, <1>3, <1>4, <1>5
     DEF Next, allVars, panelVars, PageStep, PanelFollows, Confirmed, Connect, Edit, VerifyResult,
         VerificationAnswers, RequestSimulation, SimulationAnswers, CacheExpires, Review

LEMMA PanelKeeps == IInv /\ [Next]_allVars => PanelInv'
<1> SUFFICES ASSUME IInv, [Next]_allVars PROVE PanelInv'
  OBVIOUS
<1>1. panel'.verification = "verified" => panel'.verified \in proven'
  <2>1. panel \in PanelType /\ proven \subseteq proven'
        /\ (panel.verification = "verified" => panel.verified \in proven)
    BY ProvenGrows DEF IInv, TypeOK, PanelInv
  <2>2. CASE panel' = FreshPanel
    BY <2>2 DEF FreshPanel
  <2>3. CASE VerificationAnswers
    BY <2>1, <2>3 DEF VerificationAnswers, PanelType
  <2>4. CASE Edit \/ VerifyResult
    BY <2>1, <2>4 DEF Edit, VerifyResult, PanelType
  <2>5. CASE RequestSimulation \/ Review \/ \E r \in RequestIds : WalletConfirms(r)
    BY <2>1, <2>5 DEF RequestSimulation, Review, WalletConfirms, PanelType
  <2>6. CASE UNCHANGED panel
    BY <2>1, <2>6
  <2> QED
    BY <2>2, <2>3, <2>4, <2>5, <2>6
       DEF Next, allVars, panelVars, PageStep, PanelFollows, Confirmed, Connect, SimulationAnswers,
           CacheExpires, Send, WalletRejects, Mined
<1>2. \A q \in Queries : sims'[q] = "passed" => Seen(q)'
  BY SimsKeep
<1>3. ASSUME NEW r \in RequestIds, requests'[r].state # "none"
      PROVE  /\ requests'[r].query \in Queries
             /\ requests'[r].query.action = "submit" => requests'[r].query.artifact \in proven'
             /\ requests'[r].query.action = "approve" => task'.result \in proven'
  <2>1. CASE requests[r].state # "none" /\ requests'[r].query = requests[r].query
    BY <2>1, SeenStays DEF IInv, PanelInv
  <2>2. CASE Send /\ requests'[r].query = Query
    <3>1. Query \in Queries /\ Seen(Query)
      BY <2>2, OfferedTyped DEF Send, CanSend, IInv, PanelInv
    <3> QED
      BY <2>2, <3>1, SeenStays
  <2> QED
    BY <1>3, <2>1, <2>2, RequestsStay
<1> QED
  BY <1>1, <1>2, <1>3 DEF PanelInv, Seen

LEMMA IInvHolds == Spec => []IInv
<1>1. IInv /\ [Next]_allVars => IInv'
  BY TypeKeeps, PageKeeps, PanelKeeps DEF IInv
<1> QED
  BY <1>1, InitIInv, PTL DEF Spec

-----------------------------------------------------------------------------
(* The theorems *)

\* The page, the panel, the cache and the requests have their types, and a noted
\* submission has been broadcast, however loads and rendering interleave
\* (task-action-panel.tsx:72).
THEOREM PageTyped == Spec => []TypeOK
<1>1. IInv => TypeOK
  BY DEF IInv
<1> QED
  BY <1>1, IInvHolds, PTL

\* A submission is of a result whose bytes were seen to match, although answers come
\* after the form was edited and simulations outlive the panel (task-action-panel.tsx:212).
THEOREM SubmissionsVerified == Spec => []SubmittedWasVerified
<1>1. IInv => SubmittedWasVerified
  BY DEF IInv, PanelInv, Seen, SubmittedWasVerified
<1> QED
  BY <1>1, IInvHolds, PTL

\* An approval is of the result whose bytes this page has seen to match: what the
\* contract will pay for is what was checked, although the page may show an older
\* reading of the task (task-action-panel.tsx:116).
THEOREM ApprovalsVerified == Spec => []ApprovedWasVerified
<1>1. IInv => ApprovedWasVerified
  BY DEF IInv, PanelInv, Seen, ApprovedWasVerified
<1> QED
  BY <1>1, IInvHolds, PTL

\* The page never replaces a task by an older one: every load after the first asks
\* RPC, and there is one load at a time (task-detail.tsx:55).
THEOREM PageAdvances == Spec => PageNeverGoesBack
<1>1. ASSUME IInv, [Next]_allVars, page.view # NoTask
      PROVE  page'.view.status >= page.view.status
  <2>1. page \in PageType /\ page.view.status \in Nat
    BY <1>1 DEF IInv, TypeOK, PageType, ChainTask, Open, Cancelled
  <2>2. CASE \E i \in LoadIds : TaskAnswers(i)
    BY <2>1, <2>2, <1>1 DEF TaskAnswers, IInv, PageInv, LoadInv, PageType
  <2>3. page'.view = page.view => page'.view.status >= page.view.status
    BY <2>1
  <2>4. CASE ~\E i \in LoadIds : TaskAnswers(i)
    <3>1. page'.view = page.view
      BY <1>1, <2>1, <2>4
         DEF Next, allVars, pageVars, PageStep, LoadStep, OthersAct, Index, FirstLoad, Refresh,
             Load, TaskIsRead, MetadataAnswers, ResultAnswers, Confirmed, Connect, Edit, VerifyResult,
             VerificationAnswers, RequestSimulation, SimulationAnswers, CacheExpires, Review, Send,
             WalletConfirms, WalletRejects, Mined, PageType
    <3> QED
      BY <2>3, <3>1
  <2> QED
    BY <2>2, <2>4
<1>2. IInv /\ [Next]_allVars
          => [page.view # NoTask => page'.view.status >= page.view.status]_allVars
  BY <1>1
<1> QED
  BY <1>2, IInvHolds, PTL DEF Spec, PageNeverGoesBack
=============================================================================
