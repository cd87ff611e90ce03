--------------------------- MODULE PublishProofs ---------------------------
(***************************************************************************)
(* Proofs about the publish form, for any users, rewards, documents and    *)
(* any number of verifications and wallet requests in flight.              *)
(***************************************************************************)
EXTENDS PublishForm, TLAPS

Says(d, reward) == d \in Docs /\ reward # 0 /\ Publishable(d, reward)

(* Types, and no more of them than the proofs need. *)
Forms == [reward : Rewards \cup {0}, doc : Docs \cup {NoDoc}, generated : Docs \cup {NoDoc},
          verified : Keys, check : {"idle", "checking", "verified"}]

FormShape ==
    /\ form \in Forms
    /\ wallet.account \in Users \cup {Nobody}

(* A verification judges by the reward that is in its key. *)
ChecksShape == \A c \in checks : c.key \in Keys /\ c.key.doc \in Docs /\ c.reward = c.key.reward

(* A verdict is about a document that says the reward of its key. *)
Judged == form.check = "verified" => Says(form.verified.doc, form.verified.reward)

(* A simulation of createTask was only asked for with such a verdict. *)
Simulated ==
    /\ DOMAIN sims = Queries
    /\ \A q \in Queries : q.kind = "create" /\ sims[q] > 0 => Says(q.doc, q.reward)

(* So is a request of the wallet, which takes its query from a simulation. *)
RequestsSay ==
    /\ DOMAIN requests = RequestIds
    /\ \A r \in RequestIds : Asked(r, "create") =>
           Says(requests[r].query.doc, requests[r].query.reward)

FInv == FormShape /\ ChecksShape /\ Judged
PInv == FInv /\ Simulated /\ RequestsSay

LEMMA InitPInv == Init => PInv
BY PublishAssumption
   DEF Init, PInv, FInv, FormShape, ChecksShape, Judged, Simulated, RequestsSay, Asked,
       Unknown, NoKey, Keys, Forms

-----------------------------------------------------------------------------
(* The form *)

LEMMA UngeneratedForm ==
    ASSUME NEW f \in Forms
    PROVE  /\ Ungenerated(f) \in Forms
           /\ Ungenerated(f).check = f.check /\ Ungenerated(f).verified = f.verified
BY DEF Ungenerated, Forms

LEMMA FormKeeps == FInv /\ [Next]_vars => FInv'
<1> SUFFICES ASSUME FInv, [Next]_vars PROVE FInv'
  OBVIOUS
<1> USE DEF FInv, FormShape, Forms
<1>1. CASE Connect
  BY <1>1 DEF Connect, ChecksShape, Judged
<1>2. CASE EditReward
  <2>1. PICK n \in Rewards \cup {0} :
            form' = Ungenerated([form EXCEPT !.reward = n, !.check = "idle", !.verified = NoKey])
    BY <1>2 DEF EditReward
  <2> DEFINE f == [form EXCEPT !.reward = n, !.check = "idle", !.verified = NoKey]
  <2>2. f \in Forms /\ f.check = "idle"
    BY DEF NoKey, Keys, Forms
  <2> HIDE DEF f
  <2>3. form' = Ungenerated(f)
    BY <2>1 DEF f
  <2> QED
    BY <1>2, <2>2, <2>3, UngeneratedForm DEF EditReward, ChecksShape, Judged
<1>3. CASE EditDraft
  BY <1>3, UngeneratedForm DEF EditDraft, ChecksShape, Judged
<1>4. CASE EditDocument
  <2>1. PICK d \in Docs \cup {NoDoc} :
            form' = [form EXCEPT !.doc = d, !.check = "idle", !.verified = NoKey]
    BY <1>4 DEF EditDocument
  <2>2. NoKey \in Keys
    BY DEF NoKey, Keys
  <2>3. form'.check = "idle" /\ FormShape'
    BY <1>4, <2>1, <2>2 DEF EditDocument
  <2> QED
    BY <1>4, <2>3 DEF EditDocument, ChecksShape, Judged
<1>5. CASE BuildDraft
  BY <1>5, PublishAssumption DEF BuildDraft, ChecksShape, Judged, NoKey, Keys
<1>6. CASE VerifyManifest
  <2> DEFINE c == [key |-> ArtifactKey, reward |-> form.reward]
  <2>1. c.key \in Keys /\ c.key.doc \in Docs /\ c.reward = c.key.reward
    BY <1>6 DEF VerifyManifest, ArtifactKey, Keys
  <2>2. checks' = checks \cup {c} /\ wallet' = wallet
        /\ form' = [form EXCEPT !.check = "checking", !.verified = NoKey]
    BY <1>6 DEF VerifyManifest
  <2> HIDE DEF c
  <2>3. ChecksShape'
    BY <2>1, <2>2 DEF ChecksShape
  <2>4. form'.check = "checking" /\ FormShape'
    BY <2>2 DEF NoKey, Keys
  <2> QED
    BY <2>3, <2>4 DEF Judged
<1>7. CASE ManifestAnswers
  <2>1. PICK c \in checks :
            /\ checks' = checks \ {c}
            /\ \/ /\ c.reward # 0 /\ Publishable(c.key.doc, c.reward)
                  /\ form' = [form EXCEPT !.check = "verified", !.verified = c.key]
               \/ form' = [form EXCEPT !.check = "idle", !.verified = NoKey]
    BY <1>7 DEF ManifestAnswers
  <2>2. ChecksShape' /\ wallet' = wallet
    BY <1>7, <2>1 DEF ChecksShape, ManifestAnswers
  <2>3. c.key \in Keys /\ c.key.doc \in Docs /\ c.reward = c.key.reward /\ NoKey \in Keys
    BY DEF ChecksShape, Keys, NoKey
  <2>4. CASE c.reward # 0 /\ Publishable(c.key.doc, c.reward)
             /\ form' = [form EXCEPT !.check = "verified", !.verified = c.key]
    <3>1. form'.verified = c.key /\ FormShape'
      BY <2>2, <2>3, <2>4
    <3>2. Judged'
      BY <2>3, <2>4, <3>1 DEF Judged, Says, Publishable
    <3> QED
      BY <2>2, <3>1, <3>2
  <2>5. CASE form' = [form EXCEPT !.check = "idle", !.verified = NoKey]
    <3>1. form'.check = "idle" /\ FormShape'
      BY <2>2, <2>3, <2>5
    <3> QED
      BY <2>2, <3>1 DEF Judged
  <2> QED
    BY <2>1, <2>4, <2>5
<1>8. CASE UNCHANGED <<form, checks, wallet>>
  BY <1>8 DEF ChecksShape, Judged
<1> QED
  BY <1>1, <1>2, <1>3, <1>4, <1>5, <1>6, <1>7, <1>8
     DEF Next, vars, OthersCreate, ElsewhereApproves, Refreshed, ReadAnswers, RequestSimulation,
         SimulationAnswers, Review, Send, SeesReceipt, WalletConfirms, WalletRejects, Mined

-----------------------------------------------------------------------------
(* Simulations and requests *)

LEMMA ReadySays ==
    ASSUME FInv, Requested("create")
    PROVE  Query("create") \in Queries /\ Says(form.doc, form.reward)
BY DEF FInv, FormShape, Forms, Judged, Requested, Ready, FormReady, PublicStateReady, Connected,
       Account, ArtifactKey, Query, Queries, Kinds

LEMMA SimulatedKeeps == FInv /\ Simulated /\ [Next]_vars => Simulated'
<1> SUFFICES ASSUME FInv, Simulated, [Next]_vars PROVE Simulated'
  OBVIOUS
<1>1. CASE \E k \in Kinds : SimulationAnswers(k)
  <2>1. PICK k \in Kinds : SimulationAnswers(k)
    BY <1>1
  <2>2. PICK answer : sims' = [sims EXCEPT ![Query(k)] = answer]
    BY <2>1 DEF SimulationAnswers
  <2>3. DOMAIN sims' = Queries
    BY <2>2 DEF Simulated
  <2>4. ASSUME NEW q \in Queries, q.kind = "create", sims'[q] > 0
        PROVE  Says(q.doc, q.reward)
    <3>1. CASE q = Query(k)
      <4>1. k = "create" /\ q.doc = form.doc /\ q.reward = form.reward
        BY <2>4, <3>1 DEF Query
      <4>2. Requested("create")
        BY <2>1, <4>1 DEF SimulationAnswers
      <4> QED
        BY <4>1, <4>2, ReadySays
    <3>2. CASE q # Query(k)
      <4>1. sims'[q] = sims[q]
        BY <2>2, <3>2 DEF Simulated
      <4> QED
        BY <2>4, <4>1 DEF Simulated
    <3> QED
      BY <3>1, <3>2
  <2> QED
    BY <2>3, <2>4 DEF Simulated
<1>2. CASE UNCHANGED sims
  BY <1>2 DEF Simulated
<1> QED
  BY <1>1, <1>2
     DEF Next, vars, OthersCreate, ElsewhereApproves, Connect, EditReward, EditDraft, EditDocument,
         BuildDraft, VerifyManifest, ManifestAnswers, Refreshed, ReadAnswers, RequestSimulation,
         Review, Send, SeesReceipt, WalletConfirms, WalletRejects, Mined

LEMMA RequestsKeep == PInv /\ [Next]_vars => RequestsSay'
<1> SUFFICES ASSUME PInv, [Next]_vars PROVE RequestsSay'
  OBVIOUS
<1> USE DEF PInv, RequestsSay, Asked
<1>1. CASE \E k \in Kinds : Send(k)
  <2>1. PICK k \in Kinds : Send(k)
    BY <1>1
  <2>2. PICK r \in RequestIds :
            requests' = [requests EXCEPT ![r] =
               [state |-> "wallet", query |-> Query(k), expects |-> reads.nextTaskId,
                made |-> 0, awaited |-> TRUE, seen |-> FALSE]]
    BY <2>1 DEF Send
  <2>3. ASSUME k = "create" PROVE Says(form.doc, form.reward)
    <3>1. Query("create") \in Queries /\ sims[Query("create")] > 0
      BY <2>1, <2>3 DEF Send, CanSend, SimulationReady, FInv, FormShape, Forms, Connected, Account, Query,
                        Queries, Kinds
    <3>2. Query("create").kind = "create" /\ Query("create").doc = form.doc
          /\ Query("create").reward = form.reward
      BY DEF Query
    <3> QED
      BY <3>1, <3>2 DEF Simulated
  <2>4. requests'[r].query = Query(k) /\ \A s \in RequestIds \ {r} : requests'[s] = requests[s]
    BY <2>2
  <2>5. Query(k).kind = k /\ Query(k).reward = form.reward /\ (k = "create" => Query(k).doc = form.doc)
    BY DEF Query
  <2>6. DOMAIN requests' = RequestIds
    BY <2>2
  <2> QED
    BY <2>3, <2>4, <2>5, <2>6
<1>2. ASSUME NEW k \in Kinds, RequestSimulation(k) PROVE RequestsSay'
  BY <1>2 DEF RequestSimulation
<1>3. ASSUME NEW r \in RequestIds, Mined(r) \/ SeesReceipt(r) \/ WalletConfirms(r) \/ WalletRejects(r)
      PROVE  RequestsSay'
  <2>1. CASE Mined(r)
    <3>1. /\ requests[r].state = "pending" /\ DOMAIN requests' = RequestIds
          /\ \A s \in RequestIds : /\ requests'[s].query = requests[s].query
                                   /\ s # r => requests'[s] = requests[s]
      <4>1. CASE requests' = [requests EXCEPT ![r].state = "success", ![r].made = ledger.nextTaskId]
        BY <2>1, <4>1 DEF Mined
      <4>2. CASE requests' = [requests EXCEPT ![r].state = "reverted"]
        BY <2>1, <4>2 DEF Mined
      <4> QED
        BY <2>1, <4>1, <4>2 DEF Mined
    <3> QED
      BY <3>1
  <2>2. CASE SeesReceipt(r)
    BY <2>2 DEF SeesReceipt
  <2>3. CASE WalletConfirms(r)
    BY <2>3 DEF WalletConfirms
  <2>4. CASE WalletRejects(r)
    BY <2>4 DEF WalletRejects
  <2> QED
    BY <1>3, <2>1, <2>2, <2>3, <2>4
<1>4. CASE UNCHANGED requests
  BY <1>4
<1> QED
  BY <1>1, <1>2, <1>3, <1>4
     DEF Next, vars, OthersCreate, ElsewhereApproves, Connect, EditReward, EditDraft, EditDocument,
         BuildDraft, VerifyManifest, ManifestAnswers, Refreshed, ReadAnswers, SimulationAnswers,
         Review

(* A document that says the reward: its manifest is the record the property names. *)
LEMMA SaysManifest ==
    ASSUME NEW d, NEW n, Says(d, n)
    PROVE  ManifestOf[d] = [parses |-> TRUE, here |-> TRUE, reward |-> n]
<1>1. ManifestOf[d] \in Manifest /\ ManifestOf[d].reward = n
      /\ ManifestOf[d].parses /\ ManifestOf[d].here
  BY PublishAssumption DEF Says, Publishable
<1>2. ManifestOf[d].parses = TRUE /\ ManifestOf[d].here = TRUE
  BY <1>1 DEF Manifest
<1> QED
  BY <1>1, <1>2 DEF Manifest

-----------------------------------------------------------------------------
(* The ledger and what was made *)

Tasks == [creator : Users \cup {"other"}, reward : Nat, doc : Docs \cup {NoDoc}]
Histories == UNION {[1 .. n -> Tasks] : n \in Nat}
Ledgers == [allowance : [Users -> Nat], balance : [Users -> Nat], nextTaskId : Nat,
            task : Histories]

(* The ids handed out are those below the next one. *)
Booked(l) == l \in Ledgers /\ l.nextTaskId > 0 /\ DOMAIN l.task = 1 .. l.nextTaskId - 1

TaskOf(q) == [creator |-> q.account, reward |-> q.reward, doc |-> q.doc]

(* A creation that succeeded made the task its receipt tells. *)
RequestsMade ==
    \A r \in RequestIds :
        /\ requests[r].state # "none" =>
               requests[r].query \in Queries /\ (requests[r].seen => requests[r].state = "success")
        /\ requests[r].state = "success" /\ requests[r].query.kind = "create" =>
               /\ requests[r].made \in DOMAIN ledger.task
               /\ ledger.task[requests[r].made] = TaskOf(requests[r].query)

LInv == PInv /\ Booked(ledger) /\ RequestsMade

LEMMA InitLInv == Init => Booked(ledger) /\ RequestsMade
<1> SUFFICES ASSUME Init PROVE Booked(ledger) /\ RequestsMade
  OBVIOUS
<1>1. ledger.task = [n \in {} |-> NoIntent] /\ ledger.nextTaskId = 1
      /\ ledger.allowance \in [Users -> Nat] /\ ledger.balance \in [Users -> Nat]
  BY PublishAssumption DEF Init
<1>2. [n \in {} |-> NoIntent] \in [1 .. 0 -> Tasks]
  OBVIOUS
<1>3. ledger.task \in Histories
  BY <1>1, <1>2 DEF Histories
<1>4. ledger \in Ledgers
  BY <1>1, <1>3 DEF Init, Ledgers
<1>5. DOMAIN ledger.task = 1 .. ledger.nextTaskId - 1
  BY <1>1
<1> QED
  BY <1>1, <1>4, <1>5 DEF Booked, Init, RequestsMade

LEMMA BookedGrows ==
    ASSUME NEW l, Booked(l), NEW t \in Tasks, NEW u, u = WithTask(l, t)
    PROVE  /\ Booked(u) /\ u.allowance = l.allowance /\ u.balance = l.balance
           /\ l.nextTaskId \in DOMAIN u.task /\ u.task[l.nextTaskId] = t
           /\ \A n \in DOMAIN l.task : n \in DOMAIN u.task /\ u.task[n] = l.task[n]
<1> DEFINE k == l.nextTaskId
           h == [n \in DOMAIN l.task \cup {k} |-> IF n = k THEN t ELSE l.task[n]]
<1>1. k \in Nat \ {0} /\ DOMAIN l.task = 1 .. k - 1 /\ l \in Ledgers
  BY DEF Booked, Ledgers
<1>2. l.task \in [1 .. k - 1 -> Tasks]
  BY <1>1 DEF Ledgers, Histories
<1>3. DOMAIN l.task \cup {k} = 1 .. k
  BY <1>1
<1>4. h \in [1 .. k -> Tasks] /\ h[k] = t /\ \A n \in DOMAIN l.task : h[n] = l.task[n]
  BY <1>1, <1>2, <1>3
<1>5. h \in Histories
  BY <1>1, <1>4 DEF Histories
<1> HIDE DEF h
<1>6. u = [l EXCEPT !.nextTaskId = k + 1, !.task = h]
  BY DEF WithTask, h
<1>7. u.nextTaskId = k + 1 /\ u.task = h /\ u.allowance = l.allowance /\ u.balance = l.balance
  BY <1>1, <1>6 DEF Ledgers
<1>8. u \in Ledgers
  <2>1. u = [allowance |-> l.allowance, balance |-> l.balance, nextTaskId |-> k + 1, task |-> h]
    BY <1>1, <1>6 DEF Ledgers
  <2>2. l.allowance \in [Users -> Nat] /\ l.balance \in [Users -> Nat] /\ k + 1 \in Nat
    BY <1>1 DEF Ledgers
  <2> QED
    BY <1>5, <2>1, <2>2 DEF Ledgers
<1>9. DOMAIN h = 1 .. k
  BY <1>4
<1> QED
  BY <1>1, <1>4, <1>7, <1>8, <1>9 DEF Booked

(* What is made is kept. *)
Keeps == /\ Booked(ledger')
         /\ \A n \in DOMAIN ledger.task : n \in DOMAIN ledger'.task
                                          /\ ledger'.task[n] = ledger.task[n]

LEMMA CallKeeps ==
    ASSUME Booked(ledger), NEW q \in Queries, Accepts(q), ledger' = Executed(q)
    PROVE  /\ Keeps
           /\ q.kind = "create" => /\ ledger.nextTaskId \in DOMAIN ledger'.task
                                   /\ ledger'.task[ledger.nextTaskId] = TaskOf(q)
<1>1. q.account \in Users /\ q.reward \in Nat /\ q.kind \in Kinds /\ ledger \in Ledgers
  BY PublishAssumption DEF Queries, Booked
<1>2. CASE q.kind = "approve"
  <2>1. ledger' = [ledger EXCEPT !.allowance[q.account] = q.reward]
    BY <1>2 DEF Executed
  <2>2. ledger' \in Ledgers /\ ledger'.task = ledger.task
        /\ ledger'.nextTaskId = ledger.nextTaskId
    BY <1>1, <2>1 DEF Ledgers
  <2> QED
    BY <1>2, <2>2 DEF Keeps, Booked
<1>3. CASE q.kind = "create"
  <2> DEFINE u == WithTask(ledger, TaskOf(q))
  <2>1. TaskOf(q) \in Tasks
    BY <1>1 DEF TaskOf, Tasks, Queries
  <2>2. /\ Booked(u) /\ u.allowance = ledger.allowance /\ u.balance = ledger.balance
        /\ ledger.nextTaskId \in DOMAIN u.task /\ u.task[ledger.nextTaskId] = TaskOf(q)
        /\ \A n \in DOMAIN ledger.task : n \in DOMAIN u.task /\ u.task[n] = ledger.task[n]
    BY <2>1, BookedGrows
  <2>3. ledger' = [u EXCEPT !.allowance[q.account] = @ - q.reward,
                            !.balance[q.account] = @ - q.reward]
    BY <1>3 DEF Executed, TaskOf
  <2> HIDE DEF u
  <2>4. u.allowance[q.account] - q.reward \in Nat /\ u.balance[q.account] - q.reward \in Nat
    BY <1>1, <1>3, <2>2 DEF Accepts, Ledgers
  <2> DEFINE v == [u EXCEPT !.allowance[q.account] = @ - q.reward]
  <2>5. v \in Ledgers /\ v.task = u.task /\ v.nextTaskId = u.nextTaskId /\ v.balance = u.balance
    BY <1>1, <2>2, <2>4 DEF Booked, Ledgers
  <2>6. ledger' = [v EXCEPT !.balance[q.account] = @ - q.reward]
    BY <2>3
  <2> HIDE DEF v
  <2>7. ledger' \in Ledgers /\ ledger'.task = u.task /\ ledger'.nextTaskId = u.nextTaskId
    BY <1>1, <2>2, <2>4, <2>5, <2>6 DEF Ledgers
  <2> QED
    BY <2>2, <2>7 DEF Keeps, Booked
<1> QED
  BY <1>1, <1>2, <1>3 DEF Kinds

LEMMA LedgerKeeps == LInv /\ [Next]_vars => Keeps
<1> SUFFICES ASSUME LInv, [Next]_vars PROVE Keeps
  OBVIOUS
<1> USE DEF LInv
<1>1. CASE OthersCreate
  <2> DEFINE t == [creator |-> "other", reward |-> 0, doc |-> NoDoc]
  <2>1. t \in Tasks /\ ledger' = WithTask(ledger, t)
    BY <1>1 DEF OthersCreate, Tasks
  <2> HIDE DEF t
  <2> QED
    BY <2>1, BookedGrows DEF Keeps
<1>2. CASE ElsewhereApproves
  <2>1. PICK a \in Users, n \in Elsewhere : ledger' = [ledger EXCEPT !.allowance[a] = n]
    BY <1>2 DEF ElsewhereApproves
  <2>2. ledger' \in Ledgers /\ ledger'.task = ledger.task
        /\ ledger'.nextTaskId = ledger.nextTaskId
    BY <2>1, PublishAssumption DEF Booked, Ledgers
  <2> QED
    BY <2>2 DEF Keeps, Booked
<1>3. ASSUME NEW r \in RequestIds, Mined(r) PROVE Keeps
  <2>1. requests[r].query \in Queries
    BY <1>3 DEF Mined, RequestsMade
  <2>2. CASE Accepts(requests[r].query) /\ ledger' = Executed(requests[r].query)
    BY <2>1, <2>2, CallKeeps
  <2>3. CASE UNCHANGED ledger
    BY <2>3 DEF Keeps, Booked
  <2> QED
    BY <1>3, <2>2, <2>3 DEF Mined
<1>4. CASE UNCHANGED ledger
  BY <1>4 DEF Keeps, Booked
<1> QED
  BY <1>1, <1>2, <1>3, <1>4
     DEF Next, vars, Connect, EditReward, EditDraft, EditDocument, BuildDraft, VerifyManifest,
         ManifestAnswers, Refreshed, ReadAnswers, RequestSimulation, SimulationAnswers, Review,
         Send, SeesReceipt, WalletConfirms, WalletRejects

(* What RequestsMade says of one request. *)
Made(r) ==
    /\ requests[r].state # "none" =>
           requests[r].query \in Queries /\ (requests[r].seen => requests[r].state = "success")
    /\ requests[r].state = "success" /\ requests[r].query.kind = "create" =>
           /\ requests[r].made \in DOMAIN ledger.task
           /\ ledger.task[requests[r].made] = TaskOf(requests[r].query)

(* A request that a step leaves alone, or only marks, tells the same. *)
LEMMA MadeStays ==
    ASSUME LInv, Keeps, NEW r \in RequestIds, Made(r),
           requests'[r].state = requests[r].state, requests'[r].query = requests[r].query,
           requests'[r].made = requests[r].made,
           requests'[r].seen => requests[r].seen \/ requests[r].state = "success"
    PROVE  Made(r)'
BY DEF Keeps, Made

LEMMA SendsQuery ==
    ASSUME PInv, NEW k \in Kinds, SimulationReady(k) PROVE Query(k) \in Queries
BY PublishAssumption
   DEF PInv, FInv, FormShape, Forms, SimulationReady, Connected, Account, Query, Queries, Kinds

LEMMA MadeKeeps == LInv /\ [Next]_vars => RequestsMade'
<1> SUFFICES ASSUME LInv, [Next]_vars, NEW s \in RequestIds PROVE Made(s)'
  BY DEF RequestsMade, Made
<1>1. Keeps /\ Made(s) /\ DOMAIN requests = RequestIds
  BY LedgerKeeps DEF LInv, PInv, RequestsSay, RequestsMade, Made
<1>2. ASSUME NEW k \in Kinds, Send(k) PROVE Made(s)'
  <2>1. PICK r \in RequestIds :
            requests' = [requests EXCEPT ![r] =
               [state |-> "wallet", query |-> Query(k), expects |-> reads.nextTaskId,
                made |-> 0, awaited |-> TRUE, seen |-> FALSE]]
    BY <1>2 DEF Send
  <2>2. Query(k) \in Queries
    BY <1>2, SendsQuery DEF Send, CanSend, LInv
  <2>3. CASE s = r
    BY <1>1, <2>1, <2>2, <2>3 DEF Made
  <2>4. CASE s # r
    BY <1>1, <2>1, <2>4, MadeStays
  <2> QED
    BY <2>3, <2>4
<1>3. ASSUME NEW k \in Kinds, RequestSimulation(k) PROVE Made(s)'
  <2>1. \/ requests'[s] = requests[s]
        \/ requests'[s] = [requests[s] EXCEPT !.awaited = FALSE]
    BY <1>3 DEF RequestSimulation
  <2>2. /\ requests'[s].state = requests[s].state /\ requests'[s].query = requests[s].query
        /\ requests'[s].made = requests[s].made /\ requests'[s].seen = requests[s].seen
    <3>1. CASE requests'[s] = [requests[s] EXCEPT !.awaited = FALSE]
      BY <3>1
    <3> QED
      BY <2>1, <3>1
  <2> QED
    BY <1>1, <2>2, MadeStays
<1>4. ASSUME NEW r \in RequestIds, Mined(r) PROVE Made(s)'
  <2>1. CASE s # r
    <3>1. requests'[s] = requests[s]
      BY <1>1, <1>4, <2>1 DEF Mined
    <3> QED
      BY <1>1, <3>1, MadeStays
  <2>2. CASE s = r
    <3>1. requests[r].query \in Queries /\ requests[r].state = "pending" /\ ~requests[r].seen
      BY <1>1, <1>4, <2>2 DEF Mined, Made
    <3>2. CASE /\ Accepts(requests[r].query) /\ ledger' = Executed(requests[r].query)
               /\ requests' = [requests EXCEPT ![r].state = "success",
                                               ![r].made = ledger.nextTaskId]
      <4>1. /\ requests'[r].state = "success" /\ requests'[r].made = ledger.nextTaskId
            /\ requests'[r].query = requests[r].query
        BY <1>1, <3>2
      <4>2. requests[r].query.kind = "create" =>
                /\ ledger.nextTaskId \in DOMAIN ledger'.task
                /\ ledger'.task[ledger.nextTaskId] = TaskOf(requests[r].query)
        BY <3>1, <3>2, CallKeeps DEF LInv
      <4> QED
        BY <2>2, <3>1, <4>1, <4>2 DEF Made
    <3>3. CASE requests' = [requests EXCEPT ![r].state = "reverted"]
      <4>1. /\ requests'[r].state = "reverted" /\ requests'[r].query = requests[r].query
            /\ requests'[r].seen = requests[r].seen
        BY <1>1, <3>3
      <4> QED
        BY <2>2, <3>1, <4>1 DEF Made
    <3> QED
      BY <1>4, <3>2, <3>3 DEF Mined
  <2> QED
    BY <2>1, <2>2
<1>5. ASSUME NEW r \in RequestIds, SeesReceipt(r) PROVE Made(s)'
  <2>1. \/ requests'[s] = requests[s]
        \/ requests[s].state = "success" /\ requests'[s] = [requests[s] EXCEPT !.seen = TRUE]
    BY <1>1, <1>5 DEF SeesReceipt
  <2>2. /\ requests'[s].state = requests[s].state /\ requests'[s].query = requests[s].query
        /\ requests'[s].made = requests[s].made
        /\ requests'[s].seen => requests[s].seen \/ requests[s].state = "success"
    <3>1. CASE requests[s].state = "success" /\ requests'[s] = [requests[s] EXCEPT !.seen = TRUE]
      BY <3>1
    <3> QED
      BY <2>1, <3>1
  <2> QED
    BY <1>1, <2>2, MadeStays
<1>6. ASSUME NEW r \in RequestIds, WalletConfirms(r) PROVE Made(s)'
  <2>1. requests[r].state = "wallet"
        /\ requests' = [requests EXCEPT ![r].state = "pending", ![r].awaited = FALSE]
    BY <1>6 DEF WalletConfirms
  <2>2. CASE s # r
    BY <1>1, <2>1, <2>2, MadeStays
  <2>3. CASE s = r
    <3>1. /\ requests'[r].state = "pending" /\ requests'[r].query = requests[r].query
          /\ requests'[r].seen = requests[r].seen
      BY <1>1, <2>1
    <3> QED
      BY <1>1, <2>1, <2>3, <3>1 DEF Made
  <2> QED
    BY <2>2, <2>3
<1>7. ASSUME NEW r \in RequestIds, WalletRejects(r) PROVE Made(s)'
  <2>1. requests' = [requests EXCEPT ![r] = [state |-> "none"]]
    BY <1>7 DEF WalletRejects
  <2>2. CASE s # r
    BY <1>1, <2>1, <2>2, MadeStays
  <2>3. CASE s = r
    BY <1>1, <2>1, <2>3 DEF Made
  <2> QED
    BY <2>2, <2>3
<1>8. CASE UNCHANGED requests
  BY <1>1, <1>8, MadeStays
<1> QED
  BY <1>2, <1>3, <1>4, <1>5, <1>6, <1>7, <1>8
     DEF Next, vars, OthersCreate, ElsewhereApproves, Connect, EditReward, EditDraft, EditDocument,
         BuildDraft, VerifyManifest, ManifestAnswers, Refreshed, ReadAnswers, SimulationAnswers,
         Review

LEMMA LInvHolds == Spec => []LInv
<1>1. LInv /\ [Next]_vars => LInv'
  BY FormKeeps, SimulatedKeeps, RequestsKeep, LedgerKeeps, MadeKeeps DEF LInv, PInv, Keeps
<1>2. Init => LInv
  BY InitPInv, InitLInv DEF LInv
<1> QED
  BY <1>1, <1>2, PTL DEF Spec

-----------------------------------------------------------------------------
(* Types *)

LEMMA InitTypes == Init => TypeOK
<1> SUFFICES ASSUME Init PROVE TypeOK
  OBVIOUS
<1>1. Unknown \in Unknown .. MaxId
  BY PublishAssumption DEF Unknown
<1>2. {ledger.allowance, ledger.balance} \subseteq [Users -> Nat]
  BY InitLInv DEF Booked, Ledgers
<1> QED
  BY <1>1, <1>2, PublishAssumption DEF Init, TypeOK, Keys, NoKey

LEMMA WalletTyped ==
    TypeOK /\ [Next]_vars => wallet' \in [account : Users \cup {Nobody}, chain : Chains]
<1> SUFFICES ASSUME TypeOK, [Next]_vars
             PROVE  wallet' \in [account : Users \cup {Nobody}, chain : Chains]
  OBVIOUS
<1>1. CASE Connect
  BY <1>1 DEF Connect
<1>2. CASE UNCHANGED wallet
  BY <1>2 DEF TypeOK
<1> QED
  BY <1>1, <1>2
     DEF Next, vars, OthersCreate, ElsewhereApproves, EditReward, EditDraft, EditDocument,
         BuildDraft, VerifyManifest, ManifestAnswers, Refreshed, ReadAnswers, RequestSimulation,
         SimulationAnswers, Review, Send, SeesReceipt, WalletConfirms, WalletRejects, Mined

LEMMA ChecksTyped ==
    FInv /\ TypeOK /\ [Next]_vars => checks' \subseteq [key : Keys, reward : Rewards \cup {0}]
<1> SUFFICES ASSUME FInv, TypeOK, [Next]_vars
             PROVE  checks' \subseteq [key : Keys, reward : Rewards \cup {0}]
  OBVIOUS
<1>1. CASE VerifyManifest
  BY <1>1 DEF VerifyManifest, TypeOK, ArtifactKey, Keys
<1>2. CASE ManifestAnswers
  BY <1>2 DEF ManifestAnswers, TypeOK
<1>3. CASE UNCHANGED checks
  BY <1>3 DEF TypeOK
<1> QED
  BY <1>1, <1>2, <1>3
     DEF Next, vars, OthersCreate, ElsewhereApproves, Connect, EditReward, EditDraft, EditDocument,
         BuildDraft, Refreshed, ReadAnswers, RequestSimulation,
         SimulationAnswers, Review, Send, SeesReceipt, WalletConfirms, WalletRejects, Mined

LEMMA RefetchTyped == FInv /\ TypeOK /\ [Next]_vars => refetch' \subseteq Users
<1> SUFFICES ASSUME FInv, TypeOK, [Next]_vars PROVE refetch' \subseteq Users
  OBVIOUS
<1>1. refetch \subseteq Users /\ wallet.account \in Users \cup {Nobody}
  BY DEF TypeOK
<1>2. CASE Connect
  BY <1>1, <1>2 DEF Connect
<1>3. ASSUME NEW r \in RequestIds, SeesReceipt(r) PROVE refetch' \subseteq Users
  BY <1>1, <1>3 DEF SeesReceipt, Connected, Account
<1>4. ASSUME NEW a \in Users, Refreshed(a) PROVE refetch' \subseteq Users
  BY <1>1, <1>4 DEF Refreshed
<1>5. CASE UNCHANGED refetch
  BY <1>1, <1>5
<1> QED
  BY <1>2, <1>3, <1>4, <1>5
     DEF Next, vars, OthersCreate, ElsewhereApproves, EditReward, EditDraft, EditDocument,
         BuildDraft, VerifyManifest, ManifestAnswers, ReadAnswers, RequestSimulation,
         SimulationAnswers, Review, Send, WalletConfirms, WalletRejects, Mined

\* An answer is the next id, which createTask is only accepted with up to MaxId.
LEMMA SimsTyped == LInv /\ TypeOK /\ [Next]_vars => sims' \in [Queries -> Unknown .. MaxId]
<1> SUFFICES ASSUME LInv, TypeOK, [Next]_vars PROVE sims' \in [Queries -> Unknown .. MaxId]
  OBVIOUS
<1>1. sims \in [Queries -> Unknown .. MaxId]
  BY DEF TypeOK
<1>2. ASSUME NEW k \in Kinds, SimulationAnswers(k) PROVE sims' \in [Queries -> Unknown .. MaxId]
  <2>1. PICK answer \in {Unknown} \cup (IF ~Accepts(Query(k)) THEN {}
                                        ELSE {IF k = "create" THEN ledger.nextTaskId ELSE 1}) :
            sims' = [sims EXCEPT ![Query(k)] = answer]
    BY <1>2 DEF SimulationAnswers
  <2>2. ledger.nextTaskId \in Nat \ {0}
    BY DEF LInv, Booked, Ledgers
  <2>3. Query(k).kind = k
    BY DEF Query
  <2>4. answer \in Unknown .. MaxId
    BY <2>1, <2>2, <2>3, PublishAssumption DEF Unknown, Accepts
  <2> QED
    BY <1>1, <2>1, <2>4
<1>3. CASE UNCHANGED sims
  BY <1>1, <1>3
<1> QED
  BY <1>2, <1>3
     DEF Next, vars, OthersCreate, ElsewhereApproves, Connect, EditReward, EditDraft, EditDocument,
         BuildDraft, VerifyManifest, ManifestAnswers, Refreshed, ReadAnswers, RequestSimulation,
         Review, Send, SeesReceipt, WalletConfirms, WalletRejects, Mined

(* What one flow has noted as submitted has left the wallet. *)
Sent == {"pending", "success", "reverted"}
NotedWell(k) ==
    flow[k].submission # NoId =>
        flow[k].submission \in RequestIds /\ requests[flow[k].submission].state \in Sent
FlowTyped == DOMAIN flow = Kinds /\ \A k \in Kinds : NotedWell(k)

LEMMA FlowKeeps == LInv /\ FlowTyped /\ [Next]_vars => FlowTyped'
<1> SUFFICES ASSUME LInv, FlowTyped, [Next]_vars PROVE FlowTyped'
  OBVIOUS
<1>1. DOMAIN flow = Kinds /\ DOMAIN requests = RequestIds
  BY DEF FlowTyped, LInv, PInv, RequestsSay
\* A request that has left the wallet never returns to it.
<1>2. ASSUME NEW r \in RequestIds, requests[r].state \in Sent PROVE requests'[r].state \in Sent
  <2>1. ASSUME NEW k \in Kinds, Send(k) PROVE requests'[r].state \in Sent
    BY <1>1, <1>2, <2>1 DEF Send, Sent
  <2>2. ASSUME NEW k \in Kinds, RequestSimulation(k) PROVE requests'[r].state \in Sent
    <3>1. requests'[r] = requests[r]
      BY <1>2, <2>2 DEF RequestSimulation, Sent
    <3> QED
      BY <1>2, <3>1
  <2>3. ASSUME NEW q \in RequestIds, Mined(q) PROVE requests'[r].state \in Sent
    <3>1. \/ requests' = [requests EXCEPT ![q].state = "reverted"]
          \/ requests' = [requests EXCEPT ![q].state = "success", ![q].made = ledger.nextTaskId]
      BY <2>3 DEF Mined
    <3>2. r # q => requests'[r] = requests[r]
      BY <1>1, <3>1
    <3>3. ASSUME r = q PROVE requests'[r].state \in {"reverted", "success"}
      <4>1. CASE requests' = [requests EXCEPT ![q].state = "reverted"]
        BY <1>1, <3>3, <4>1
      <4>2. CASE requests' = [requests EXCEPT ![q].state = "success", ![q].made = ledger.nextTaskId]
        BY <1>1, <3>3, <4>2
      <4> QED
        BY <3>1, <4>1, <4>2
    <3> QED
      BY <1>2, <3>2, <3>3 DEF Sent
  <2>4. ASSUME NEW q \in RequestIds, SeesReceipt(q) PROVE requests'[r].state \in Sent
    BY <1>1, <1>2, <2>4 DEF SeesReceipt, Sent
  <2>5. ASSUME NEW q \in RequestIds, WalletConfirms(q) PROVE requests'[r].state \in Sent
    BY <1>1, <1>2, <2>5 DEF WalletConfirms, Sent
  <2>6. ASSUME NEW q \in RequestIds, WalletRejects(q) PROVE requests'[r].state \in Sent
    BY <1>1, <1>2, <2>6 DEF WalletRejects, Sent
  <2>7. CASE UNCHANGED requests
    BY <1>2, <2>7
  <2> QED
    BY <2>1, <2>2, <2>3, <2>4, <2>5, <2>6, <2>7
       DEF Next, vars, OthersCreate, ElsewhereApproves, Connect, EditReward, EditDraft,
           EditDocument, BuildDraft, VerifyManifest, ManifestAnswers, Refreshed, ReadAnswers,
           SimulationAnswers, Review
<1>3. ASSUME NEW k \in Kinds, RequestSimulation(k) PROVE FlowTyped'
  <2>1. flow' = [flow EXCEPT ![k] = [simulated |-> Intent, reviewed |-> NoIntent,
                                     submission |-> NoId]]
    BY <1>3 DEF RequestSimulation
  <2>2. ASSUME NEW j \in Kinds PROVE NotedWell(j)'
    <3>1. flow'[j].submission \in {NoId, flow[j].submission}
      BY <1>1, <2>1
    <3> QED
      BY <1>2, <3>1 DEF FlowTyped, NotedWell
  <2> QED
    BY <1>1, <2>1, <2>2 DEF FlowTyped
<1>4. ASSUME NEW k \in Kinds, Review(k) PROVE FlowTyped'
  <2>1. PICK key \in {Intent, NoIntent} : flow' = [flow EXCEPT ![k].reviewed = key]
    BY <1>4 DEF Review
  <2>2. ASSUME NEW j \in Kinds PROVE NotedWell(j)'
    <3>1. flow'[j].submission = flow[j].submission
      BY <1>1, <2>1
    <3> QED
      BY <1>2, <3>1 DEF FlowTyped, NotedWell
  <2> QED
    BY <1>1, <2>1, <2>2 DEF FlowTyped
<1>5. ASSUME NEW r \in RequestIds, WalletConfirms(r) PROVE FlowTyped'
  <2>1. requests'[r].state \in Sent
    BY <1>1, <1>5 DEF WalletConfirms, Sent
  <2>2. ASSUME NEW j \in Kinds PROVE NotedWell(j)' /\ DOMAIN flow' = Kinds
    <3>1. CASE UNCHANGED flow
      BY <1>1, <1>2, <3>1 DEF FlowTyped, NotedWell
    <3>2. CASE flow' = [flow EXCEPT ![requests[r].query.kind].submission = r]
      <4>1. flow'[j].submission \in {r, flow[j].submission} /\ DOMAIN flow' = Kinds
        BY <1>1, <3>2
      <4> QED
        BY <1>2, <2>1, <4>1 DEF FlowTyped, NotedWell
    <3> QED
      BY <1>5, <3>1, <3>2 DEF WalletConfirms
  <2> QED
    BY <2>2 DEF FlowTyped, Kinds
<1>6. CASE UNCHANGED flow
  BY <1>2, <1>6 DEF FlowTyped, NotedWell
<1> QED
  BY <1>3, <1>4, <1>5, <1>6
     DEF Next, vars, OthersCreate, ElsewhereApproves, Connect, EditReward, EditDraft, EditDocument,
         BuildDraft, VerifyManifest, ManifestAnswers, Refreshed, ReadAnswers, SimulationAnswers,
         Send, SeesReceipt, WalletRejects, Mined

LEMMA TypesKeep == LInv /\ TypeOK /\ [Next]_vars => TypeOK'
<1> SUFFICES ASSUME LInv, TypeOK, [Next]_vars PROVE TypeOK'
  OBVIOUS
<1>1. FInv' /\ Booked(ledger')
  BY FormKeeps, LedgerKeeps DEF LInv, PInv, Keeps
<1>2. FlowTyped'
  BY FlowKeeps DEF TypeOK, FlowTyped, NotedWell, Sent
<1>3. form' \in Forms /\ {ledger'.allowance, ledger'.balance} \subseteq [Users -> Nat]
  BY <1>1 DEF FInv, FormShape, Booked, Ledgers
<1>4. /\ wallet' \in [account : Users \cup {Nobody}, chain : Chains]
      /\ checks' \subseteq [key : Keys, reward : Rewards \cup {0}]
      /\ refetch' \subseteq Users /\ sims' \in [Queries -> Unknown .. MaxId]
  BY WalletTyped, ChecksTyped, RefetchTyped, SimsTyped DEF LInv, PInv
<1> QED
  BY <1>2, <1>3, <1>4 DEF TypeOK, FlowTyped, NotedWell, Sent, Forms

-----------------------------------------------------------------------------
(* The theorems *)

\* The form, its reads and its requests keep their types, and what a flow has noted as
\* submitted has left the wallet (lib/task-publishing.ts).
THEOREM FormTyped == Spec => []TypeOK
<1> QED
  BY InitTypes, TypesKeep, LInvHolds, PTL DEF Spec

\* The form never hands createTask a document that says another reward than the one
\* it pays, is of another deployment, or was not read (create-bounty-form.tsx:336),
\* although verdicts come late and sending does not look at the verdict again.
THEOREM PublishedAsSaid == Spec => []PublishedSaysReward
<1>1. LInv => PublishedSaysReward
  BY SaysManifest DEF LInv, PInv, RequestsSay, PublishedSaysReward
<1> QED
  BY <1>1, LInvHolds, PTL

\* The task the form links to is the one it created, whoever took the id that the
\* user reviewed (create-bounty-form.tsx:456).
THEOREM AnnouncesOwn == Spec => []AnnouncedIsOwn
<1>1. LInv => AnnouncedIsOwn
  BY DEF LInv, RequestsMade, AnnouncedIsOwn, Announces, Asked, TaskOf
<1> QED
  BY <1>1, LInvHolds, PTL
=============================================================================
