----------------------------- MODULE LabProofs -----------------------------
(***************************************************************************)
(* Proofs about the lab page: what a ready panel offers, what a verified   *)
(* creation stands for and what a created task locks, for any number of    *)
(* wallet requests, task ids and amounts.                                  *)
(***************************************************************************)
EXTENDS LabFlows, SequenceTheorems, WellFoundedInduction, TLAPS

(***************************************************************************)
(* Readiness                                                               *)
(***************************************************************************)

\* What stops a panel: "ready" is not among the names.
Told == {"disconnected", "wrong-network", "wrong-role", "chain-read-error",
         "reading-chain-state", "allowance-satisfied", "insufficient-balance",
         "task-created", "unexpected-task-id", "unexpected-escrow", "checking", "verified",
         "unverified", "allowance-required", "allowance-excessive"}

Guards == Seq(BOOLEAN \X Told)

LEMMA LeastPlace ==
    ASSUME NEW S, S \subseteq Nat, S # {} PROVE Min(S) \in S
<1> DEFINE R == {p \in Nat \X Nat : p[1] < p[2]}
<1>1. IsWellFoundedOn(R, Nat)
  BY NatLessThanWellFounded DEF OpToRel
<1>2. \A x, y \in Nat : y < x => <<y, x>> \in R
  OBVIOUS
<1> HIDE DEF R
<1>3. PICK m \in S : \A k \in S : ~(<<k, m>> \in R)
  BY <1>1, WFMin
<1>4. \A k \in S : ~(k < m)
  BY <1>2, <1>3
<1>5. \A k \in S : m =< k
  BY <1>4
<1> QED
  BY <1>5 DEF Min

\* "ready" is not the name of a guard: a ready panel is stopped by none of them.
LEMMA NothingStops ==
    ASSUME NEW guards \in Guards, Readiness(guards) = "ready"
    PROVE  \A i \in 1 .. Len(guards) : ~guards[i][1]
<1> DEFINE stopping == {i \in DOMAIN guards : guards[i][1]}
<1>1. DOMAIN guards = 1 .. Len(guards)
  BY LenProperties DEF Guards
<1>2. SUFFICES ASSUME stopping # {} PROVE FALSE
  BY <1>1, <1>2
<1>3. stopping \subseteq Nat
  BY <1>1, LenProperties DEF Guards
<1>4. PICK m \in stopping : m = Min(stopping)
  BY <1>2, <1>3, LeastPlace
<1>5. guards[m] \in BOOLEAN \X Told
  BY <1>1, <1>4, ElementOfSeq DEF Guards
<1>6. Readiness(guards) = guards[m][2]
  BY <1>2, <1>4 DEF Readiness
<1> QED
  BY <1>5, <1>6 DEF Told

LEMMA JoinedGuards ==
    ASSUME NEW s \in Guards, NEW t \in Guards
    PROVE  /\ s \o t \in Guards
           /\ (\A i \in 1 .. Len(s \o t) : ~(s \o t)[i][1])
                  => /\ \A i \in 1 .. Len(s) : ~s[i][1]
                     /\ \A i \in 1 .. Len(t) : ~t[i][1]
<1>1. /\ s \o t \in Guards /\ Len(s) \in Nat /\ Len(t) \in Nat
      /\ Len(s \o t) = Len(s) + Len(t)
      /\ \A i \in 1 .. Len(s) + Len(t) :
             (s \o t)[i] = IF i <= Len(s) THEN s[i] ELSE t[i - Len(s)]
  BY ConcatProperties, LenProperties DEF Guards
<1>2. ASSUME \A i \in 1 .. Len(s \o t) : ~(s \o t)[i][1], NEW i \in 1 .. Len(s)
      PROVE  ~s[i][1]
  <2>1. i \in 1 .. Len(s) + Len(t) /\ i <= Len(s)
    BY <1>1
  <2>2. (s \o t)[i] = s[i]
    BY <1>1, <2>1
  <2> QED
    BY <1>1, <1>2, <2>1, <2>2
<1>3. ASSUME \A i \in 1 .. Len(s \o t) : ~(s \o t)[i][1], NEW i \in 1 .. Len(t)
      PROVE  ~t[i][1]
  <2> DEFINE j == i + Len(s)
  <2>1. j \in 1 .. Len(s) + Len(t) /\ ~(j <= Len(s)) /\ j - Len(s) = i
    BY <1>1
  <2>2. (s \o t)[j] = t[i]
    BY <1>1, <2>1
  <2> QED
    BY <1>1, <1>3, <2>1, <2>2
<1> QED
  BY <1>1, <1>2, <1>3

\* Lists of guards as they are written down.
LEMMA OneGuard ==
    ASSUME NEW a \in BOOLEAN, NEW n1 \in Told,
           NEW s, s = << <<a, n1>> >>
    PROVE  /\ s \in Guards
           /\ (\A i \in 1 .. Len(s) : ~s[i][1]) => ~a
<1>1. /\ s \in Guards /\ Len(s) = 1
      /\ s[1] = <<a, n1>>
  BY DEF Guards
<1> QED
  BY <1>1

LEMMA TwoGuards ==
    ASSUME NEW a \in BOOLEAN, NEW n1 \in Told, NEW b \in BOOLEAN, NEW n2 \in Told,
           NEW s, s = << <<a, n1>>, <<b, n2>> >>
    PROVE  /\ s \in Guards
           /\ (\A i \in 1 .. Len(s) : ~s[i][1]) => ~a /\ ~b
<1>1. /\ s \in Guards /\ Len(s) = 2
      /\ s[1] = <<a, n1>> /\ s[2] = <<b, n2>>
  BY DEF Guards
<1> QED
  BY <1>1

LEMMA ThreeGuards ==
    ASSUME NEW a \in BOOLEAN, NEW n1 \in Told, NEW b \in BOOLEAN, NEW n2 \in Told,
           NEW c \in BOOLEAN, NEW n3 \in Told,
           NEW s, s = << <<a, n1>>, <<b, n2>>, <<c, n3>> >>
    PROVE  /\ s \in Guards
           /\ (\A i \in 1 .. Len(s) : ~s[i][1]) => ~a /\ ~b /\ ~c
<1>1. /\ s \in Guards /\ Len(s) = 3
      /\ s[1] = <<a, n1>> /\ s[2] = <<b, n2>> /\ s[3] = <<c, n3>>
  BY DEF Guards
<1> QED
  BY <1>1

\* What no ready panel is stopped by.
WalletReady(names) ==
    /\ Connected /\ NetworkState = "coston2" /\ WalletRole = "task-1-creator"
    /\ failed \cap names = {} /\ \A n \in names \cap Reads : reads[n] # Unknown

LEMMA WalletGuardsShape ==
    ASSUME NEW names, NEW s, s = WalletGuards(names)
    PROVE  s \in Guards /\ ((\A i \in 1 .. Len(s) : ~s[i][1]) => WalletReady(names))
<1>1. PICK a \in BOOLEAN : a = ~Connected
  BY DEF Connected
<1>2. PICK b \in BOOLEAN : b = (NetworkState # "coston2")
  OBVIOUS
<1>3. PICK c \in BOOLEAN : c = (WalletRole # "task-1-creator")
  OBVIOUS
<1>4. PICK d \in BOOLEAN : d = (failed \cap names # {})
  OBVIOUS
<1>5. PICK e \in BOOLEAN : e = (\E n \in names \cap Reads : reads[n] = Unknown)
  OBVIOUS
<1>6. s = << <<a, "disconnected">>, <<b, "wrong-network">>, <<c, "wrong-role">>,
             <<d, "chain-read-error">>, <<e, "reading-chain-state">> >>
  BY <1>1, <1>2, <1>3, <1>4, <1>5, Zenon DEF WalletGuards
<1>7. /\ "disconnected" \in Told /\ "wrong-network" \in Told /\ "wrong-role" \in Told
      /\ "chain-read-error" \in Told /\ "reading-chain-state" \in Told
  BY DEF Told
<1>8. /\ s \in Guards /\ Len(s) = 5
      /\ s[1] = <<a, "disconnected">> /\ s[2] = <<b, "wrong-network">>
      /\ s[3] = <<c, "wrong-role">> /\ s[4] = <<d, "chain-read-error">>
      /\ s[5] = <<e, "reading-chain-state">>
  BY <1>6, <1>7 DEF Guards
<1>9. (\A i \in 1 .. Len(s) : ~s[i][1]) => ~a /\ ~b /\ ~c /\ ~d /\ ~e
  BY <1>8
<1>10. ~a /\ ~b /\ ~c /\ ~d /\ ~e => WalletReady(names)
  BY <1>1, <1>2, <1>3, <1>4, <1>5 DEF WalletReady
<1> QED
  BY <1>8, <1>9, <1>10

ReadsTyped == reads \in [Reads -> Int]

LEMMA Comparisons ==
    ASSUME NEW x \in Int, NEW y \in Int PROVE (x < y) \in BOOLEAN /\ (x > y) \in BOOLEAN
OBVIOUS

LEMMA NumbersRead ==
    ReadsTyped => /\ reads["balance"] \in Int /\ reads["allowance"] \in Int
                  /\ reads["nextTaskId"] \in Int /\ reads["totalEscrowed"] \in Int
                  /\ One \in Int /\ ExpectedTaskId \in Int
BY DEF ReadsTyped, Reads, One, ExpectedTaskId

\* An approval panel is ready for a connected Creator with a token and another allowance.
LEMMA ApprovalReady ==
    ASSUME ApprovalReadiness = "ready", ReadsTyped
    PROVE  /\ WalletReady({"allowance", "balance"})
           /\ reads["allowance"] # One /\ ~(reads["balance"] < One)
<1>1. PICK a \in BOOLEAN : a = (reads["allowance"] = One)
  BY Comparisons, NumbersRead, Zenon
<1>2. PICK b \in BOOLEAN : b = (reads["balance"] < One)
  BY Comparisons, NumbersRead, Zenon
<1>3. PICK s : s = WalletGuards({"allowance", "balance"})
  OBVIOUS
<1>4. PICK t : t = << <<a, "allowance-satisfied">>, <<b, "insufficient-balance">> >>
  OBVIOUS
<1>5. PICK all : all = s \o t
  OBVIOUS
<1>6. ApprovalReadiness = Readiness(all)
  BY <1>1, <1>2, <1>3, <1>4, <1>5, Zenon DEF ApprovalReadiness
<1>7. "allowance-satisfied" \in Told /\ "insufficient-balance" \in Told
  BY DEF Told
<1>8. t \in Guards /\ ((\A i \in 1 .. Len(t) : ~t[i][1]) => ~a /\ ~b)
  BY <1>4, <1>7, TwoGuards
<1>9. /\ s \in Guards
      /\ (\A i \in 1 .. Len(s) : ~s[i][1]) => WalletReady({"allowance", "balance"})
  BY <1>3, WalletGuardsShape
<1>10. all \in Guards
  BY <1>5, <1>8, <1>9, JoinedGuards
<1>11. \A i \in 1 .. Len(all) : ~all[i][1]
  BY <1>6, <1>10, NothingStops
<1>12. ~a /\ ~b /\ WalletReady({"allowance", "balance"})
  BY <1>5, <1>8, <1>9, <1>11, JoinedGuards
<1> QED
  BY <1>1, <1>2, <1>12

\* A creation panel is ready for a connected Creator, a contract that hands out task 2
\* next and holds nothing, a verified manifest, and a token with exactly its allowance.
Offered ==
    /\ WalletReady(Queries)
    /\ ~(reads["nextTaskId"] > ExpectedTaskId) /\ ~(reads["nextTaskId"] < ExpectedTaskId)
    /\ reads["totalEscrowed"] = 0
    /\ manifest = "verified"
    /\ ~(reads["balance"] < One) /\ ~(reads["allowance"] < One) /\ ~(reads["allowance"] > One)

ManifestTold == manifest \in {"checking", "verified", "unverified"}

LEMMA TaskGuardsShape ==
    ASSUME ReadsTyped, NEW s, s = TaskGuards
    PROVE  /\ s \in Guards
           /\ (\A i \in 1 .. Len(s) : ~s[i][1]) =>
                  /\ ~(reads["nextTaskId"] > ExpectedTaskId)
                  /\ ~(reads["nextTaskId"] < ExpectedTaskId)
                  /\ reads["totalEscrowed"] = 0
<1>1. PICK a \in BOOLEAN : a = (reads["nextTaskId"] > ExpectedTaskId)
  BY Comparisons, NumbersRead, Zenon
<1>2. PICK b \in BOOLEAN : b = (reads["nextTaskId"] < ExpectedTaskId)
  BY Comparisons, NumbersRead, Zenon
<1>3. PICK c \in BOOLEAN : c = (reads["totalEscrowed"] # 0)
  BY Comparisons, NumbersRead, Zenon
<1>4. s = << <<a, "task-created">>, <<b, "unexpected-task-id">>, <<c, "unexpected-escrow">> >>
  BY <1>1, <1>2, <1>3, Zenon DEF TaskGuards
<1>5. "task-created" \in Told /\ "unexpected-task-id" \in Told /\ "unexpected-escrow" \in Told
  BY DEF Told
<1>6. s \in Guards /\ ((\A i \in 1 .. Len(s) : ~s[i][1]) => ~a /\ ~b /\ ~c)
  BY <1>4, <1>5, ThreeGuards
<1> QED
  BY <1>1, <1>2, <1>3, <1>6

LEMMA FundGuardsShape ==
    ASSUME ReadsTyped, NEW s, s = FundGuards
    PROVE  /\ s \in Guards
           /\ (\A i \in 1 .. Len(s) : ~s[i][1]) =>
                  /\ ~(reads["balance"] < One)
                  /\ ~(reads["allowance"] < One) /\ ~(reads["allowance"] > One)
<1>1. PICK a \in BOOLEAN : a = (reads["balance"] < One)
  BY Comparisons, NumbersRead, Zenon
<1>2. PICK b \in BOOLEAN : b = (reads["allowance"] < One)
  BY Comparisons, NumbersRead, Zenon
<1>3. PICK c \in BOOLEAN : c = (reads["allowance"] > One)
  BY Comparisons, NumbersRead, Zenon
<1>4. s = << <<a, "insufficient-balance">>, <<b, "allowance-required">>,
             <<c, "allowance-excessive">> >>
  BY <1>1, <1>2, <1>3, Zenon DEF FundGuards
<1>5. /\ "insufficient-balance" \in Told /\ "allowance-required" \in Told
      /\ "allowance-excessive" \in Told
  BY DEF Told
<1>6. s \in Guards /\ ((\A i \in 1 .. Len(s) : ~s[i][1]) => ~a /\ ~b /\ ~c)
  BY <1>4, <1>5, ThreeGuards
<1> QED
  BY <1>1, <1>2, <1>3, <1>6

LEMMA CreationReady ==
    ASSUME CreationReadiness = "ready", ReadsTyped, ManifestTold PROVE Offered
<1>1. PICK d \in BOOLEAN : d = (manifest # "verified")
  OBVIOUS
<1>2. PICK m : m = << <<d, manifest>> >>
  OBVIOUS
<1>3. PICK w : w = WalletGuards(Queries)
  OBVIOUS
<1>4. PICK k : k = TaskGuards
  OBVIOUS
<1>5. PICK f : f = FundGuards
  OBVIOUS
<1>6. PICK wk : wk = w \o k
  OBVIOUS
<1>7. PICK wkm : wkm = wk \o m
  OBVIOUS
<1>8. PICK all : all = wkm \o f
  OBVIOUS
<1>9. CreationReadiness = Readiness(all)
  BY <1>1, <1>2, <1>3, <1>4, <1>5, <1>6, <1>7, <1>8, Zenon DEF CreationReadiness
<1>10. manifest \in Told
  BY DEF ManifestTold, Told
<1>11. m \in Guards /\ ((\A i \in 1 .. Len(m) : ~m[i][1]) => ~d)
  BY <1>2, <1>10, OneGuard
<1>12. w \in Guards /\ ((\A i \in 1 .. Len(w) : ~w[i][1]) => WalletReady(Queries))
  BY <1>3, WalletGuardsShape
<1>13. k \in Guards /\ f \in Guards
  BY <1>4, <1>5, TaskGuardsShape, FundGuardsShape
<1>14. wk \in Guards
  BY <1>6, <1>12, <1>13, JoinedGuards
<1>15. wkm \in Guards
  BY <1>7, <1>11, <1>14, JoinedGuards
<1>16. all \in Guards
  BY <1>8, <1>13, <1>15, JoinedGuards
<1>17. \A i \in 1 .. Len(all) : ~all[i][1]
  BY <1>9, <1>16, NothingStops
<1>18. /\ \A i \in 1 .. Len(wkm) : ~wkm[i][1]
       /\ \A i \in 1 .. Len(f) : ~f[i][1]
  BY <1>8, <1>13, <1>15, <1>17, JoinedGuards
<1>19. /\ \A i \in 1 .. Len(wk) : ~wk[i][1]
       /\ \A i \in 1 .. Len(m) : ~m[i][1]
  BY <1>7, <1>11, <1>14, <1>18, JoinedGuards
<1>20. /\ \A i \in 1 .. Len(w) : ~w[i][1]
       /\ \A i \in 1 .. Len(k) : ~k[i][1]
  BY <1>6, <1>12, <1>13, <1>19, JoinedGuards
<1>21. manifest = "verified"
  BY <1>1, <1>11, <1>19
<1> QED
  BY <1>4, <1>5, <1>12, <1>18, <1>20, <1>21, TaskGuardsShape, FundGuardsShape DEF Offered

(***************************************************************************)
(* The inductive invariant                                                 *)
(***************************************************************************)

Numbered == [balance : Nat, allowance : Nat, nextTaskId : Nat, totalEscrowed : Nat,
             expected : {Creator, Stranger, Nobody}]

Free == [state |-> "none"]

Submitted == {"pending", "success", "reverted"}

Asked == [state : Submitted \cup {"wallet"}, panel : Panels, awaited : BOOLEAN,
          seen : BOOLEAN, made : Nat]

LedgerTyped == ledger \in Numbered

RequestsTyped == requests \in [RequestIds -> {Free} \cup Asked]

\* A call that made task 2 is the Creator's, and the id is gone.
MadeByCreator ==
    \A r \in RequestIds :
        requests[r].state # "none" /\ requests[r].made = ExpectedTaskId =>
            ledger.expected = Creator /\ ledger.nextTaskId > ExpectedTaskId

\* What a panel notes as its submission has left the wallet and does not come back.
NotedSubmissions ==
    \A s \in {approval.submission, creation.submission} :
        s # NoId => s \in RequestIds /\ requests[s].state \in Submitted

\* The parts of the panels whose fields the steps update.
PanelsTyped ==
    /\ approval = [simulated |-> approval.simulated, reviewed |-> approval.reviewed,
                   submission |-> approval.submission]
    /\ creation = [simulated |-> creation.simulated, reviewed |-> creation.reviewed,
                   submission |-> creation.submission]

LabInv == /\ LedgerTyped /\ ReadsTyped /\ ManifestTold /\ RequestsTyped /\ PanelsTyped
          /\ MadeByCreator /\ NotedSubmissions

LEMMA InitLabInv == Init => LabInv
<1> SUFFICES ASSUME Init PROVE LabInv
  OBVIOUS
<1> USE LabAssumption
<1>1. LedgerTyped
  BY DEF Init, SharedInit, LedgerTyped, Numbered, ExpectedTaskId
<1>2. ReadsTyped
  BY DEF Init, SharedInit, ReadsTyped, Unknown
<1>3. ManifestTold
  BY DEF Init, CreationInit, ManifestTold
<1>4. RequestsTyped /\ MadeByCreator
  BY DEF Init, SharedInit, RequestsTyped, Free, MadeByCreator
<1>5. PanelsTyped /\ NotedSubmissions
  BY DEF Init, CreationInit, FreshPanel, PanelsTyped, NotedSubmissions
<1> QED
  BY <1>1, <1>2, <1>3, <1>4, <1>5 DEF LabInv

(***************************************************************************)
(* The chain                                                               *)
(***************************************************************************)

\* A creation counts an id, and names its creator if it is task 2's.
LEMMA CreatedCounts ==
    ASSUME NEW l \in Numbered, NEW a \in {Creator, Stranger}
    PROVE  /\ Created(l, a) \in Numbered
           /\ Created(l, a).balance = l.balance /\ Created(l, a).allowance = l.allowance
           /\ Created(l, a).nextTaskId = l.nextTaskId + 1
           /\ Created(l, a).expected =
                  IF l.nextTaskId = ExpectedTaskId THEN a ELSE l.expected
<1>1. PICK b : b = IF l.nextTaskId = ExpectedTaskId THEN a ELSE l.expected
  OBVIOUS
<1>2. b \in {Creator, Stranger, Nobody}
  BY <1>1 DEF Numbered
<1>3. Created(l, a) = [[[l EXCEPT !.nextTaskId = l.nextTaskId + 1]
                           EXCEPT !.totalEscrowed = l.totalEscrowed + One]
                           EXCEPT !.expected = b]
  BY <1>1 DEF Created
<1>4. PICK k : k = [l EXCEPT !.nextTaskId = l.nextTaskId + 1]
  OBVIOUS
<1>5. PICK m : m = [k EXCEPT !.totalEscrowed = l.totalEscrowed + One]
  OBVIOUS
<1>6. /\ k \in Numbered /\ k.nextTaskId = l.nextTaskId + 1 /\ k.balance = l.balance
      /\ k.allowance = l.allowance
  BY <1>4 DEF Numbered
<1>7. /\ m \in Numbered /\ m.nextTaskId = k.nextTaskId /\ m.balance = k.balance
      /\ m.allowance = k.allowance
  BY <1>5, <1>6 DEF Numbered, One
<1>8. Created(l, a) = [m EXCEPT !.expected = b]
  BY <1>3, <1>4, <1>5
<1> QED
  BY <1>1, <1>2, <1>6, <1>7, <1>8 DEF Numbered

LEMMA ExecutedCounts ==
    ASSUME LedgerTyped, NEW p \in Panels, Accepts(p)
    PROVE  /\ Executed(p) \in Numbered
           /\ p = "approval" => /\ Executed(p).nextTaskId = ledger.nextTaskId
                                /\ Executed(p).expected = ledger.expected
                                /\ Executed(p).allowance = One
           /\ p = "creation" => /\ Executed(p).nextTaskId = ledger.nextTaskId + 1
                                /\ Executed(p).allowance = ledger.allowance - One
                                /\ Executed(p).expected = IF ledger.nextTaskId = ExpectedTaskId
                                                          THEN Creator ELSE ledger.expected
<1>1. CASE p = "approval"
  <2>1. Executed(p) = [ledger EXCEPT !.allowance = One]
    BY <1>1 DEF Executed
  <2> QED
    BY <1>1, <2>1 DEF LedgerTyped, Numbered, One
<1>2. CASE p = "creation"
  <2>1. PICK l : l = Created(ledger, Creator)
    OBVIOUS
  <2>2. /\ l \in Numbered /\ l.balance = ledger.balance /\ l.allowance = ledger.allowance
        /\ l.nextTaskId = ledger.nextTaskId + 1
        /\ l.expected = IF ledger.nextTaskId = ExpectedTaskId THEN Creator ELSE ledger.expected
    BY <2>1, CreatedCounts DEF LedgerTyped
  <2>3. Executed(p) = [[l EXCEPT !.allowance = @ - One] EXCEPT !.balance = @ - One]
    BY <1>2, <2>1 DEF Executed
  <2>4. ledger.balance >= One /\ ledger.allowance >= One
    BY <1>2 DEF Accepts
  <2>5. PICK k : k = [l EXCEPT !.allowance = @ - One]
    OBVIOUS
  <2>6. /\ k \in Numbered /\ k.allowance = ledger.allowance - One /\ k.balance = ledger.balance
        /\ k.nextTaskId = l.nextTaskId /\ k.expected = l.expected
    BY <2>2, <2>4, <2>5 DEF Numbered, One
  <2>7. Executed(p) = [k EXCEPT !.balance = @ - One]
    BY <2>3, <2>5
  <2>8. /\ Executed(p) \in Numbered /\ Executed(p).allowance = k.allowance
        /\ Executed(p).nextTaskId = k.nextTaskId /\ Executed(p).expected = k.expected
    BY <2>4, <2>6, <2>7 DEF Numbered, One
  <2> QED
    BY <1>2, <2>2, <2>6, <2>8
<1> QED
  BY <1>1, <1>2 DEF Panels

\* The id of task 2 is handed out once: who made it stays.
LEMMA StaysMade ==
    ASSUME LabInv, LedgerTyped', requests' = requests,
           \/ ledger'.nextTaskId = ledger.nextTaskId /\ ledger'.expected = ledger.expected
           \/ /\ ledger'.nextTaskId = ledger.nextTaskId + 1
              /\ ledger.nextTaskId # ExpectedTaskId => ledger'.expected = ledger.expected
    PROVE  MadeByCreator'
<1> SUFFICES ASSUME NEW r \in RequestIds, requests[r].state # "none",
                    requests[r].made = ExpectedTaskId
             PROVE  ledger'.expected = Creator /\ ledger'.nextTaskId > ExpectedTaskId
  BY DEF MadeByCreator
<1>1. ledger.expected = Creator /\ ledger.nextTaskId > ExpectedTaskId
  BY DEF LabInv, MadeByCreator
<1>2. ledger.nextTaskId \in Nat
  BY DEF LabInv, LedgerTyped, Numbered
<1> QED
  BY <1>1, <1>2 DEF ExpectedTaskId

LEMMA OthersActKeeps ==
    ASSUME LabInv, OthersAct, UNCHANGED <<approval, creation, manifest>> PROVE LabInv'
<1>1. ledger \in Numbered
  BY DEF LabInv, LedgerTyped
<1>2. /\ LedgerTyped'
      /\ \/ ledger'.nextTaskId = ledger.nextTaskId /\ ledger'.expected = ledger.expected
         \/ /\ ledger'.nextTaskId = ledger.nextTaskId + 1
            /\ ledger.nextTaskId # ExpectedTaskId => ledger'.expected = ledger.expected
  <2>1. CASE ledger' = Created(ledger, Stranger)
    BY <1>1, <2>1, CreatedCounts DEF LedgerTyped
  <2>2. CASE ledger.totalEscrowed > 0 /\ ledger' = [ledger EXCEPT !.totalEscrowed = @ - One]
    BY <1>1, <2>2 DEF LedgerTyped, Numbered, One
  <2>3. ASSUME NEW n \in Elsewhere, ledger' = [ledger EXCEPT !.allowance = n]
        PROVE  /\ LedgerTyped'
               /\ ledger'.nextTaskId = ledger.nextTaskId /\ ledger'.expected = ledger.expected
    <3>1. n \in Nat
      BY LabAssumption
    <3> QED
      BY <1>1, <2>3, <3>1 DEF LedgerTyped, Numbered
  <2> QED
    BY <2>1, <2>2, <2>3 DEF OthersAct
<1>3. requests' = requests /\ reads' = reads
  BY DEF OthersAct
<1>4. MadeByCreator'
  BY <1>2, <1>3, StaysMade
<1> QED
  BY <1>2, <1>3, <1>4 DEF LabInv, ReadsTyped, ManifestTold, RequestsTyped, PanelsTyped,
                          NotedSubmissions

(***************************************************************************)
(* The wallet requests                                                     *)
(***************************************************************************)

\* What one step may do to a request: nothing, take it to the wallet, change it while the
\* wallet shows it, or carry it on from there; a call is made once.
LEMMA MinedKeeps ==
    ASSUME LabInv, NEW r \in RequestIds, Mined(r), UNCHANGED <<approval, creation, manifest>>
    PROVE  LabInv'
<1> USE DEF LabInv
<1>1. requests[r] \in Asked /\ requests[r].panel \in Panels /\ requests[r].state = "pending"
  BY DEF RequestsTyped, Mined, Free, Asked
<1>2. ledger.nextTaskId \in Nat
  BY DEF LedgerTyped, Numbered
<1>3. PICK p \in Panels : p = requests[r].panel
  BY <1>1
<1>4. CASE Accepts(p)
  <2>1. PICK m \in Nat : m = Result(p)
    BY <1>2 DEF Result
  <2>2. /\ ledger' = Executed(p)
        /\ requests' = [requests EXCEPT ![r].state = "success", ![r].made = m]
    BY <1>3, <1>4, <2>1 DEF Mined
  <2>3. LedgerTyped'
    BY <1>4, <2>2, ExecutedCounts DEF LedgerTyped
  <2>4. PICK w : w = [requests[r] EXCEPT !.state = "success"]
    OBVIOUS
  <2>5. w \in Asked /\ w.state = "success" /\ w.panel = p
    BY <1>1, <1>3, <2>4 DEF Asked, Submitted
  <2>6. PICK v : v = [w EXCEPT !.made = m]
    OBVIOUS
  <2>7. v \in Asked /\ v.state = "success" /\ v.made = m
    BY <2>1, <2>5, <2>6 DEF Asked, Submitted
  <2>8. requests' = [requests EXCEPT ![r] = v]
    BY <2>2, <2>4, <2>6 DEF RequestsTyped
  <2>9. RequestsTyped'
    BY <2>7, <2>8 DEF RequestsTyped
  <2>10. NotedSubmissions'
    BY <2>7, <2>8 DEF RequestsTyped, NotedSubmissions, Submitted
  <2>11. \A q \in RequestIds : requests'[q] = IF q = r THEN v ELSE requests[q]
    BY <2>8 DEF RequestsTyped
  <2>12. m = ExpectedTaskId => p = "creation" /\ ledger.nextTaskId = ExpectedTaskId
    BY <2>1 DEF Result, ExpectedTaskId
  <2>13. /\ ledger'.nextTaskId >= ledger.nextTaskId
         /\ ledger.nextTaskId # ExpectedTaskId => ledger'.expected = ledger.expected
         /\ m = ExpectedTaskId =>
                ledger'.expected = Creator /\ ledger'.nextTaskId = ledger.nextTaskId + 1
    BY <1>2, <1>4, <2>2, <2>12, ExecutedCounts DEF Panels
  <2>14. ledger'.nextTaskId \in Nat
    BY <2>3 DEF LedgerTyped, Numbered
  <2>15. ASSUME NEW q \in RequestIds, requests'[q].state # "none",
                requests'[q].made = ExpectedTaskId
         PROVE  ledger'.expected = Creator /\ ledger'.nextTaskId > ExpectedTaskId
    <3>1. CASE q = r
      BY <1>2, <2>7, <2>11, <2>12, <2>13, <2>15, <3>1 DEF ExpectedTaskId
    <3>2. CASE q # r
      <4>1. ledger.expected = Creator /\ ledger.nextTaskId > ExpectedTaskId
        BY <2>11, <2>15, <3>2 DEF MadeByCreator
      <4> QED
        BY <1>2, <2>13, <2>14, <4>1 DEF ExpectedTaskId
    <3> QED
      BY <3>1, <3>2
  <2>16. MadeByCreator'
    BY <2>15 DEF MadeByCreator
  <2> QED
    BY <2>3, <2>9, <2>10, <2>16 DEF Mined, ReadsTyped, ManifestTold, PanelsTyped
<1>5. CASE ~Accepts(p)
  <2>1. PICK v : v = [requests[r] EXCEPT !.state = "reverted"]
    OBVIOUS
  <2>2. v \in Asked /\ v.state = "reverted" /\ v.made = requests[r].made
    BY <1>1, <2>1 DEF Asked, Submitted
  <2>3. ledger' = ledger /\ requests' = [requests EXCEPT ![r] = v]
    BY <1>3, <1>5, <2>1 DEF Mined, RequestsTyped
  <2>4. RequestsTyped'
    BY <2>2, <2>3 DEF RequestsTyped
  <2>5. NotedSubmissions'
    BY <2>2, <2>3 DEF RequestsTyped, NotedSubmissions, Submitted
  <2>6. MadeByCreator'
    BY <1>1, <2>2, <2>3 DEF RequestsTyped, MadeByCreator
  <2> QED
    BY <2>3, <2>4, <2>5, <2>6 DEF Mined, LedgerTyped, ReadsTyped, ManifestTold, PanelsTyped
<1> QED
  BY <1>4, <1>5

\* A request keeps what it made, and a new one has made nothing.
LEMMA MadeStays ==
    ASSUME LabInv, ledger' = ledger,
           \A r \in RequestIds : requests'[r].state # "none" =>
               \/ requests[r].state # "none" /\ requests'[r].made = requests[r].made
               \/ requests'[r].made = 0
    PROVE  MadeByCreator'
BY DEF LabInv, MadeByCreator, ExpectedTaskId

\* What the wallet still shows is not a submission yet.
LEMMA NotedStay ==
    ASSUME LabInv, RequestsTyped',
           \A r \in RequestIds : requests[r].state \in Submitted =>
               requests'[r].state \in Submitted,
           \A s \in {approval'.submission, creation'.submission} :
               \/ s \in {NoId, approval.submission, creation.submission}
               \/ s \in RequestIds /\ requests'[s].state \in Submitted
    PROVE  NotedSubmissions'
<1> SUFFICES ASSUME NEW s \in {approval'.submission, creation'.submission}, s # NoId
             PROVE  s \in RequestIds /\ requests'[s].state \in Submitted
  BY DEF NotedSubmissions
<1> QED
  BY DEF LabInv, NotedSubmissions

LEMMA AbandonedKeeps ==
    ASSUME LabInv, NEW p \in Panels, requests' = Abandoned(p)
    PROVE  /\ RequestsTyped'
           /\ \A r \in RequestIds : requests[r].state \in Submitted =>
                  requests'[r].state \in Submitted
           /\ \A r \in RequestIds : requests'[r].state # "none" =>
                  requests[r].state # "none" /\ requests'[r].made = requests[r].made
<1>1. ASSUME NEW r \in RequestIds
      PROVE  /\ requests'[r] \in {Free} \cup Asked
             /\ requests'[r].state = requests[r].state
             /\ requests'[r].state # "none" => requests'[r].made = requests[r].made
  <2>1. CASE requests[r].state = "wallet" /\ requests[r].panel = p
    <3>1. requests[r] \in Asked
      BY <2>1 DEF LabInv, RequestsTyped, Free
    <3>2. PICK w : w = [requests[r] EXCEPT !.awaited = FALSE]
      OBVIOUS
    <3>3. w \in Asked /\ w.state = requests[r].state /\ w.made = requests[r].made
      BY <3>1, <3>2 DEF Asked
    <3> QED
      BY <2>1, <3>2, <3>3 DEF Abandoned
  <2>2. CASE ~(requests[r].state = "wallet" /\ requests[r].panel = p)
    BY <2>2 DEF Abandoned, LabInv, RequestsTyped
  <2> QED
    BY <2>1, <2>2
<1>2. requests' = [r \in RequestIds |-> requests'[r]]
  BY DEF Abandoned
<1>3. RequestsTyped'
  BY <1>1, <1>2 DEF RequestsTyped
<1> QED
  BY <1>1, <1>3

LEMMA OpensKeeps ==
    ASSUME LabInv, NEW p \in Panels, Opens(p)
    PROVE  /\ RequestsTyped'
           /\ \A r \in RequestIds : requests[r].state \in Submitted =>
                  requests'[r].state \in Submitted
           /\ \A r \in RequestIds : requests'[r].state # "none" =>
                  \/ requests[r].state # "none" /\ requests'[r].made = requests[r].made
                  \/ requests'[r].made = 0
<1>1. PICK w \in Asked : w = [state |-> "wallet", panel |-> p, awaited |-> TRUE,
                              seen |-> FALSE, made |-> 0]
  BY DEF Asked
<1>2. PICK r \in RequestIds : requests[r].state = "none" /\ requests' = [requests EXCEPT ![r] = w]
  BY <1>1 DEF Opens
<1>3. requests \in [RequestIds -> {Free} \cup Asked] /\ w.state = "wallet" /\ w.made = 0
  BY <1>1 DEF LabInv, RequestsTyped
<1> HIDE <1>1
<1>4. \A q \in RequestIds : requests'[q] = IF q = r THEN w ELSE requests[q]
  BY <1>2, <1>3
<1>5. RequestsTyped'
  BY <1>2, <1>3 DEF RequestsTyped
<1> QED
  BY <1>2, <1>3, <1>4, <1>5 DEF Submitted

LEMMA WalletRejectsKeeps ==
    ASSUME LabInv, NEW r \in RequestIds, WalletRejects(r),
           UNCHANGED <<approval, creation, manifest>>
    PROVE  LabInv'
<1>1. requests \in [RequestIds -> {Free} \cup Asked]
  BY DEF LabInv, RequestsTyped
<1>2. requests[r].state = "wallet" /\ requests' = [requests EXCEPT ![r] = Free]
  BY DEF WalletRejects, Free
<1>3. RequestsTyped'
  BY <1>1, <1>2 DEF RequestsTyped
<1>4. \A q \in RequestIds : requests'[q] = IF q = r THEN Free ELSE requests[q]
  BY <1>1, <1>2
<1>5. MadeByCreator'
  BY <1>4, MadeStays DEF WalletRejects, Free
<1>6. NotedSubmissions'
  BY <1>2, <1>3, <1>4, NotedStay DEF Submitted
<1> QED
  BY <1>3, <1>5, <1>6
     DEF WalletRejects, LabInv, LedgerTyped, ReadsTyped, ManifestTold, PanelsTyped

LEMMA WalletConfirmsKeeps ==
    ASSUME LabInv, NEW r \in RequestIds, WalletConfirms(r) PROVE LabInv'
<1>1. requests \in [RequestIds -> {Free} \cup Asked]
  BY DEF LabInv, RequestsTyped
<1>2. requests[r] \in Asked /\ requests[r].state = "wallet"
  BY <1>1 DEF WalletConfirms, Free
<1>3. PICK w : w = [requests[r] EXCEPT !.state = "pending"]
  OBVIOUS
<1>4. w \in Asked /\ w.state = "pending" /\ w.made = requests[r].made
  BY <1>2, <1>3 DEF Asked, Submitted
<1>5. PICK v : v = [w EXCEPT !.awaited = FALSE]
  OBVIOUS
<1>6. v \in Asked /\ v.state = "pending" /\ v.made = requests[r].made
  BY <1>4, <1>5 DEF Asked
<1>7. requests' =
          [requests EXCEPT ![r] = [[@ EXCEPT !.state = "pending"] EXCEPT !.awaited = FALSE]]
  BY <1>1 DEF WalletConfirms
<1>8. requests' = [requests EXCEPT ![r] = v]
  BY <1>1, <1>3, <1>5, <1>7
<1>9. RequestsTyped'
  BY <1>1, <1>6, <1>8 DEF RequestsTyped
<1>10. \A q \in RequestIds : requests'[q] = IF q = r THEN v ELSE requests[q]
  BY <1>1, <1>8
<1>11. ledger' = ledger /\ reads' = reads /\ manifest' = manifest
  BY DEF WalletConfirms
<1>12. MadeByCreator'
  BY <1>2, <1>6, <1>10, <1>11, MadeStays
<1>13. PanelsTyped /\ approval' \in {approval, [approval EXCEPT !.submission = r]}
                   /\ creation' \in {creation, [creation EXCEPT !.submission = r]}
  BY DEF WalletConfirms, LabInv
<1>14. /\ PanelsTyped' /\ approval'.submission \in {approval.submission, r}
       /\ creation'.submission \in {creation.submission, r}
  BY <1>13 DEF PanelsTyped
<1>15. \A q \in RequestIds : requests[q].state \in Submitted => requests'[q].state \in Submitted
  BY <1>2, <1>10 DEF Submitted
<1>16. requests'[r].state \in Submitted
  BY <1>6, <1>10 DEF Submitted
<1>17. NotedSubmissions'
  BY <1>9, <1>14, <1>15, <1>16, NotedStay
<1> QED
  BY <1>9, <1>11, <1>12, <1>14, <1>17 DEF LabInv, LedgerTyped, ReadsTyped, ManifestTold

LEMMA SeesReceiptKeeps ==
    ASSUME LabInv, NEW p \in Panels, SeesReceipt(p) PROVE LabInv'
<1>1. requests \in [RequestIds -> {Free} \cup Asked]
  BY DEF LabInv, RequestsTyped
<1>2. PICK r : r = Submission(p)
  OBVIOUS
<1>3. r # NoId /\ r \in {approval.submission, creation.submission}
  BY <1>2 DEF SeesReceipt, Submission
<1>4. r \in RequestIds /\ requests[r].state \in Submitted
  BY <1>3 DEF LabInv, NotedSubmissions
<1>5. requests[r] \in Asked
  BY <1>1, <1>4 DEF Free, Submitted
<1>6. PICK w : w = [requests[r] EXCEPT !.seen = TRUE]
  OBVIOUS
<1>7. w \in Asked /\ w.state = requests[r].state /\ w.made = requests[r].made
  BY <1>5, <1>6 DEF Asked
<1>8. requests' = [requests EXCEPT ![r] = w]
  BY <1>1, <1>2, <1>6 DEF SeesReceipt
<1>9. RequestsTyped'
  BY <1>1, <1>7, <1>8 DEF RequestsTyped
<1>10. \A q \in RequestIds : requests'[q] = IF q = r THEN w ELSE requests[q]
  BY <1>1, <1>8
<1>11. ledger' = ledger /\ reads' = reads /\ manifest' = manifest /\ approval' = approval
       /\ creation' = creation
  BY DEF SeesReceipt
<1>12. MadeByCreator'
  BY <1>4, <1>7, <1>10, <1>11, MadeStays
<1>13. NotedSubmissions'
  BY <1>7, <1>9, <1>10, <1>11, NotedStay
<1> QED
  BY <1>9, <1>11, <1>12, <1>13 DEF LabInv, LedgerTyped, ReadsTyped, ManifestTold, PanelsTyped

(***************************************************************************)
(* The panels                                                              *)
(***************************************************************************)

\* A panel that prepares a transaction forgets its submission; the others keep it.
LEMMA ApprovalKeeps ==
    ASSUME LabInv, ApprovalStep, UNCHANGED <<creation, manifest>> PROVE LabInv'
<1>1. ledger' = ledger /\ reads' = reads
  BY DEF ApprovalStep, RequestApprovalSimulation, ApprovalSimulationAnswers, SimulationAnswers,
         ReviewApproval, RequestWalletApproval, shared
<1>2. /\ PanelsTyped' /\ approval'.submission \in {NoId, approval.submission}
  <2>1. PanelsTyped
    BY DEF LabInv
  <2>2. CASE RequestApprovalSimulation
    BY <2>1, <2>2 DEF RequestApprovalSimulation, PanelsTyped
  <2>3. CASE ReviewApproval
    <3>1. PICK i : approval' = [approval EXCEPT !.reviewed = i]
      BY <2>3 DEF ReviewApproval
    <3> QED
      BY <2>1, <3>1 DEF PanelsTyped
  <2>4. CASE ApprovalSimulationAnswers \/ RequestWalletApproval
    BY <2>1, <2>4 DEF ApprovalSimulationAnswers, RequestWalletApproval, PanelsTyped
  <2> QED
    BY <2>2, <2>3, <2>4 DEF ApprovalStep
<1>3. \/ requests' = Abandoned("approval") \/ Opens("approval") \/ requests' = requests
  BY DEF ApprovalStep, RequestApprovalSimulation, ApprovalSimulationAnswers, SimulationAnswers,
         ReviewApproval, RequestWalletApproval, shared
<1>4. /\ RequestsTyped'
      /\ \A r \in RequestIds : requests[r].state \in Submitted =>
             requests'[r].state \in Submitted
      /\ \A r \in RequestIds : requests'[r].state # "none" =>
             \/ requests[r].state # "none" /\ requests'[r].made = requests[r].made
             \/ requests'[r].made = 0
  BY <1>3, AbandonedKeeps, OpensKeeps DEF Panels, LabInv, RequestsTyped
<1>5. MadeByCreator'
  BY <1>1, <1>4, MadeStays
<1>6. NotedSubmissions'
  BY <1>2, <1>4, NotedStay
<1> QED
  BY <1>1, <1>2, <1>4, <1>5, <1>6 DEF LabInv, LedgerTyped, ReadsTyped, ManifestTold

LEMMA CreationKeeps ==
    ASSUME LabInv, CreationStep, UNCHANGED approval PROVE LabInv'
<1>1. ledger' = ledger /\ reads' = reads
  BY DEF CreationStep, RecheckManifest, ManifestAnswers, RequestCreationSimulation,
         CreationSimulationAnswers, SimulationAnswers, ReviewCreation, RequestWalletCreation,
         shared
<1>2. /\ PanelsTyped' /\ creation'.submission \in {NoId, creation.submission}
  <2>1. PanelsTyped
    BY DEF LabInv
  <2>2. CASE RequestCreationSimulation
    BY <2>1, <2>2 DEF RequestCreationSimulation, PanelsTyped
  <2>3. CASE ReviewCreation
    <3>1. PICK i : creation' = [creation EXCEPT !.reviewed = i]
      BY <2>3 DEF ReviewCreation
    <3> QED
      BY <2>1, <3>1 DEF PanelsTyped
  <2>4. CASE creation' = creation
    BY <2>1, <2>4 DEF PanelsTyped
  <2> QED
    BY <2>2, <2>3, <2>4 DEF CreationStep, RecheckManifest, ManifestAnswers,
                            CreationSimulationAnswers, RequestWalletCreation
<1>3. \/ requests' = Abandoned("creation") \/ Opens("creation") \/ requests' = requests
  BY DEF CreationStep, RecheckManifest, ManifestAnswers, RequestCreationSimulation,
         CreationSimulationAnswers, SimulationAnswers, ReviewCreation, RequestWalletCreation,
         shared
<1>4. /\ RequestsTyped'
      /\ \A r \in RequestIds : requests[r].state \in Submitted =>
             requests'[r].state \in Submitted
      /\ \A r \in RequestIds : requests'[r].state # "none" =>
             \/ requests[r].state # "none" /\ requests'[r].made = requests[r].made
             \/ requests'[r].made = 0
  BY <1>3, AbandonedKeeps, OpensKeeps DEF Panels, LabInv, RequestsTyped
<1>5. MadeByCreator'
  BY <1>1, <1>4, MadeStays
<1>6. NotedSubmissions'
  BY <1>2, <1>4, NotedStay
<1>7. ManifestTold'
  BY DEF LabInv, ManifestTold, CreationStep, RecheckManifest, ManifestAnswers,
         RequestCreationSimulation, CreationSimulationAnswers, ReviewCreation,
         RequestWalletCreation
<1> QED
  BY <1>1, <1>2, <1>4, <1>5, <1>6, <1>7 DEF LabInv, LedgerTyped, ReadsTyped

(***************************************************************************)
(* The query cache                                                         *)
(***************************************************************************)

\* The cache holds numbers, and nothing else depends on it.
LEMMA CacheKeeps ==
    ASSUME LabInv, UNCHANGED <<approval, creation, manifest>>,
           \E n \in Queries : ReadAnswers(n) \/ ReadFails(n)
    PROVE  LabInv'
<1>1. \A n \in Reads : ledger[n] \in Int
  BY DEF LabInv, LedgerTyped, Numbered, Reads
<1>2. ReadsTyped'
  <2>1. ASSUME NEW n \in Queries, ReadAnswers(n) PROVE ReadsTyped'
    BY <1>1, <2>1 DEF LabInv, ReadsTyped, ReadAnswers
  <2>2. ASSUME NEW n \in Queries, ReadFails(n) PROVE ReadsTyped'
    BY <2>2 DEF LabInv, ReadsTyped, ReadFails
  <2> QED
    BY <2>1, <2>2
<1>3. ledger' = ledger /\ requests' = requests
  BY DEF ReadAnswers, ReadFails
<1> QED
  BY <1>2, <1>3 DEF LabInv, LedgerTyped, ManifestTold, RequestsTyped, PanelsTyped,
                    MadeByCreator, NotedSubmissions

LEMMA NextLabInv == LabInv /\ [Next]_vars => LabInv'
<1> SUFFICES ASSUME LabInv, [Next]_vars PROVE LabInv'
  OBVIOUS
<1>1. CASE OthersAct /\ UNCHANGED <<approval, creation, manifest>>
  BY <1>1, OthersActKeeps
<1>2. ASSUME NEW r \in RequestIds, Mined(r) \/ WalletRejects(r),
             UNCHANGED <<approval, creation, manifest>>
      PROVE  LabInv'
  BY <1>2, MinedKeeps, WalletRejectsKeeps
<1>3. CASE /\ \E n \in Queries : ReadAnswers(n) \/ ReadFails(n)
           /\ UNCHANGED <<approval, creation, manifest>>
  BY <1>3, CacheKeeps
<1>4. CASE ApprovalStep /\ UNCHANGED <<creation, manifest>>
  BY <1>4, ApprovalKeeps
<1>5. CASE CreationStep /\ UNCHANGED approval
  BY <1>5, CreationKeeps
<1>6. CASE Connect \/ UNCHANGED vars
  BY <1>6 DEF Connect, vars, shared, LabInv, LedgerTyped, ReadsTyped, ManifestTold,
              RequestsTyped, PanelsTyped, MadeByCreator, NotedSubmissions
<1>7. ASSUME NEW r \in RequestIds, WalletConfirms(r) PROVE LabInv'
  BY <1>7, WalletConfirmsKeeps
<1>8. ASSUME NEW p \in Panels, SeesReceipt(p) PROVE LabInv'
  BY <1>8, SeesReceiptKeeps
<1> QED
  BY <1>1, <1>2, <1>3, <1>4, <1>5, <1>6, <1>7, <1>8 DEF Next

(***************************************************************************)
(* Theorems                                                                *)
(***************************************************************************)

\* Every reachable state of the lab page: the ledger's numbers never go below zero, a
\* submission stands for a request that has left the wallet, and a call that made task 2
\* was the Creator's.
THEOREM LabInductive == Spec => []LabInv
BY InitLabInv, NextLabInv, PTL DEF Spec

LEMMA ReadyIsAcceptedHolds == LabInv => ReadyIsAccepted
<1> SUFFICES ASSUME LabInv, reads = [n \in Reads |-> ledger[n]]
             PROVE  /\ ApprovalReadiness = "ready" =>
                           Executed("approval").allowance # ledger.allowance
                    /\ CreationReadiness = "ready" =>
                           /\ Accepts("creation") /\ Result("creation") = ExpectedTaskId
                           /\ Executed("creation").allowance = 0
  BY DEF ReadyIsAccepted
<1>1. /\ reads["allowance"] = ledger.allowance /\ reads["balance"] = ledger.balance
      /\ reads["nextTaskId"] = ledger.nextTaskId
  BY DEF Reads
<1>2. LedgerTyped /\ ReadsTyped /\ ManifestTold
  BY DEF LabInv
<1>3. /\ ledger.allowance \in Nat /\ ledger.balance \in Nat /\ ledger.nextTaskId \in Nat
  BY <1>2 DEF LedgerTyped, Numbered
<1>4. ASSUME ApprovalReadiness = "ready"
      PROVE  Executed("approval").allowance # ledger.allowance
  <2>1. Executed("approval").allowance = One
    BY <1>2, ExecutedCounts DEF Panels, Accepts
  <2> QED
    BY <1>1, <1>2, <1>4, <2>1, ApprovalReady
<1>5. ASSUME CreationReadiness = "ready"
      PROVE  /\ Accepts("creation") /\ Result("creation") = ExpectedTaskId
             /\ Executed("creation").allowance = 0
  <2>1. Offered
    BY <1>2, <1>5, CreationReady
  <2>2. /\ ledger.nextTaskId = ExpectedTaskId /\ ledger.balance >= One
        /\ ledger.allowance = One
    BY <1>1, <1>3, <2>1 DEF Offered, One, ExpectedTaskId
  <2>3. Accepts("creation")
    BY <2>2 DEF Accepts, One
  <2>4. Executed("creation").allowance = ledger.allowance - One
    BY <1>2, <2>3, ExecutedCounts DEF Panels
  <2> QED
    BY <2>2, <2>3, <2>4 DEF Result, One
<1> QED
  BY <1>4, <1>5

\* The two panels offer only what the chain would do: approval-flow.ts and
\* task-creation-flow.ts let a panel be ready, on current reads, only when the approval
\* changes the allowance, and when createTask is accepted, makes task 2 and leaves no
\* allowance behind; for any funds, allowances and other parties.
THEOREM ReadyPanelsAccepted == Spec => []ReadyIsAccepted
BY LabInductive, ReadyIsAcceptedHolds, PTL

\* "TaskCreated event verified" (task-creation-panel.tsx) is never shown for a task that
\* someone else made, however many creators compete for its id and however many requests
\* the wallet holds.
THEOREM VerifiedIsCreators == Spec => []VerifiedIsTaskTwo
<1>1. LabInv => VerifiedIsTaskTwo
  BY DEF LabInv, VerifiedIsTaskTwo, TaskCreatedEventConfirmed, NotedSubmissions, MadeByCreator,
         Submitted
<1> QED
  BY <1>1, LabInductive, PTL

\* A request is brought to the wallet by the button of its panel alone, and the button is
\* there only while the panel is ready.
LEMMA OnlyReadyOpens ==
    ASSUME LabInv, [Next]_vars, NEW r \in RequestIds,
           requests[r].state = "none", requests'[r].state = "wallet"
    PROVE  \/ requests'[r].panel = "approval" /\ ApprovalReadiness = "ready"
           \/ requests'[r].panel = "creation" /\ CreationReadiness = "ready"
<1>1. requests \in [RequestIds -> {Free} \cup Asked]
  BY DEF LabInv, RequestsTyped
<1>2. requests'[r] # requests[r]
  OBVIOUS
<1>3. ASSUME NEW q \in RequestIds, NEW w, requests[q].state # "none",
             requests' = [requests EXCEPT ![q] = w]
      PROVE  FALSE
  BY <1>1, <1>2, <1>3
<1>4. ASSUME NEW q \in RequestIds, Mined(q) PROVE FALSE
  <2>1. PICK w : requests' = [requests EXCEPT ![q] = w]
    BY <1>1, <1>4 DEF Mined
  <2> QED
    BY <1>3, <1>4, <2>1 DEF Mined
<1>5. ASSUME NEW q \in RequestIds, WalletRejects(q) PROVE FALSE
  BY <1>3, <1>5 DEF WalletRejects
<1>6. ASSUME NEW q \in RequestIds, WalletConfirms(q) PROVE FALSE
  <2>1. PICK w : requests' = [requests EXCEPT ![q] = w]
    BY <1>1, <1>6 DEF WalletConfirms
  <2> QED
    BY <1>3, <1>6, <2>1 DEF WalletConfirms
<1>7. ASSUME NEW p \in Panels, SeesReceipt(p) PROVE FALSE
  <2>1. PICK q : q = Submission(p)
    OBVIOUS
  <2>2. q \in RequestIds
    BY <1>7, <2>1 DEF SeesReceipt, Submission, LabInv, NotedSubmissions
  <2>3. PICK w : requests' = [requests EXCEPT ![q] = w]
    BY <1>1, <1>7, <2>1 DEF SeesReceipt
  <2> QED
    BY <1>3, <1>7, <2>1, <2>2, <2>3 DEF SeesReceipt
<1>8. requests' # requests
  BY <1>2
<1>9. ASSUME NEW p \in Panels, requests' = Abandoned(p) PROVE FALSE
  BY <1>2, <1>9 DEF Abandoned
<1>10. ASSUME NEW p \in Panels, Opens(p) PROVE requests'[r].panel = p
  <2>1. PICK w : w = [state |-> "wallet", panel |-> p, awaited |-> TRUE,
                      seen |-> FALSE, made |-> 0]
    OBVIOUS
  <2>2. PICK q \in RequestIds : requests' = [requests EXCEPT ![q] = w]
    BY <1>10, <2>1 DEF Opens
  <2>3. requests'[r] = w
    BY <1>1, <1>2, <2>2
  <2> QED
    BY <2>1, <2>3
<1>11. CASE ApprovalStep
  <2>1. Opens("approval") /\ ApprovalReadiness = "ready"
    BY <1>8, <1>9, <1>11 DEF ApprovalStep, RequestApprovalSimulation,
       ApprovalSimulationAnswers, SimulationAnswers, ReviewApproval, RequestWalletApproval,
       CanOpenApprovalWallet, Panels, shared
  <2> QED
    BY <1>10, <2>1 DEF Panels
<1>12. CASE CreationStep
  <2>1. Opens("creation") /\ CreationReadiness = "ready"
    BY <1>8, <1>9, <1>12 DEF CreationStep, RecheckManifest, ManifestAnswers,
       RequestCreationSimulation, CreationSimulationAnswers, SimulationAnswers,
       ReviewCreation, RequestWalletCreation, CanOpenCreationWallet, Panels, shared
  <2> QED
    BY <1>10, <2>1 DEF Panels
<1>13. /\ ~OthersAct /\ ~UNCHANGED vars /\ ~Connect
       /\ \A n \in Queries : ~ReadAnswers(n) /\ ~ReadFails(n)
  BY <1>8 DEF OthersAct, vars, shared, Connect, ReadAnswers, ReadFails
<1> QED
  BY <1>4, <1>5, <1>6, <1>7, <1>11, <1>12, <1>13 DEF Next

\* Once the page has read that task 2 exists no step of it brings a creation to the
\* wallet, whatever the simulation, the review and the manifest still say: "this one-shot
\* control is now locked" (task-creation-flow.ts:134) is for good.
THEOREM CreationLocked == Spec => LocksForGood
<1> DEFINE Opened == \E r \in RequestIds :
               /\ requests[r].state = "none" /\ requests'[r].state = "wallet"
               /\ requests'[r].panel = "creation"
<1>1. ASSUME LabInv, [Next]_vars, reads["nextTaskId"] > ExpectedTaskId PROVE ~Opened
  <2>1. SUFFICES ASSUME Opened PROVE FALSE
    OBVIOUS
  <2>2. CreationReadiness = "ready"
    BY <1>1, <2>1, OnlyReadyOpens
  <2>3. Offered
    BY <1>1, <2>2, CreationReady DEF LabInv
  <2> QED
    BY <1>1, <2>3 DEF Offered
<1>2. LabInv /\ [Next]_vars =>
          [reads["nextTaskId"] > ExpectedTaskId => ~Opened]_vars
  BY <1>1
<1> QED
  BY <1>2, LabInductive, PTL DEF Spec, LocksForGood
=============================================================================
