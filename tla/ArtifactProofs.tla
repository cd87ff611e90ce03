--------------------------- MODULE ArtifactProofs ---------------------------
(***************************************************************************)
(* Proofs about the check of documents, for every number of documents and  *)
(* instances and every setting.                                            *)
(*                                                                         *)
(* VerdictFits is proved for overlapping runs when commitments do not      *)
(* change, and for runs that do not overlap when they do.  RequestsBounded *)
(* needs neither: how much a run asks is its own affair.                   *)
(***************************************************************************)
EXTENDS ArtifactChecks, WellFoundedInduction, FiniteSetTheorems, TLAPS

AtWork == {"request", "body", "record", "failed"}

(* What a run remembers of a row still stands in the table. *)
WorkCurrent ==
    \A w \in Slots : \A t \in run[w].todo :
        Present(t.doc) /\ check[t.doc].expects = t.expects

WorkShape ==
    \A w \in Slots : /\ run[w].pc \in {"idle", "select"} => run[w].todo = {}
                     /\ run[w].pc = "record" => run[w].body \in Contents \cup {Garbage}

AInv == TypeOK /\ WorkShape /\ WorkCurrent /\ VerdictFits

Alone == \A v, w \in Slots : v = w

-----------------------------------------------------------------------------
(* The document at hand exists: Before orders documents like this number.  *)
Rank(d) == 2 * (MaxTasks - d.task) + IF d.kind = "metadata" THEN 0 ELSE 1

LEMMA FirstExists ==
    ASSUME NEW S, \A t \in S : t.doc \in Docs, S # {}, \A t, u \in S : t.doc = u.doc => t = u
    PROVE  \E t \in S : \A u \in S : u = t \/ Before(t.doc, u.doc)
<1> DEFINE T == {Rank(t.doc) : t \in S}
<1>1. \A d \in Docs : /\ d \in [task : 1 .. MaxTasks, kind : Kind]
                      /\ Rank(d) \in Nat
  BY ArtifactAssumption DEF Rank, Kind
<1>2. T \subseteq Nat /\ T # {}
  BY <1>1
<1> HIDE DEF T
<1>3. PICK x \in T : \A y \in T : ~(<<y, x>> \in OpToRel(<, Nat))
  BY <1>2, WFMin, NatLessThanWellFounded, Zenon
<1>4. \A y \in T : ~(y < x)
  BY <1>2, <1>3 DEF OpToRel
<1>5. PICK t \in S : x = Rank(t.doc)
  BY DEF T
<1>6. ASSUME NEW u \in S, u # t PROVE Before(t.doc, u.doc)
  <2>1. t.doc \in Docs /\ u.doc \in Docs /\ t.doc # u.doc
    BY <1>6
  <2>2. ~(Rank(u.doc) < Rank(t.doc))
    BY <1>4, <1>5 DEF T
  <2>3. /\ t.doc.task \in 1 .. MaxTasks /\ t.doc.kind \in Kind
        /\ u.doc.task \in 1 .. MaxTasks /\ u.doc.kind \in Kind
        /\ t.doc.task # u.doc.task \/ t.doc.kind # u.doc.kind
    BY <1>1, <2>1
  <2> QED BY <2>2, <2>3, ArtifactAssumption DEF Rank, Before, Kind
<1> QED BY <1>6

LEMMA CurrentIsWork ==
    ASSUME TypeOK, NEW w \in Slots, run[w].pc \in AtWork
    PROVE  Current(w) \in run[w].todo
<1>1. run[w].todo \in SUBSET Work /\ run[w].todo # {}
  BY DEF TypeOK, AtWork, RunType
<1>2. \A t, u \in run[w].todo : t.doc = u.doc => t = u
  BY DEF TypeOK
<1>3. \A t \in run[w].todo : t.doc \in Docs
  BY <1>1 DEF Work
<1> QED BY <1>1, <1>2, <1>3, FirstExists DEF Current

-----------------------------------------------------------------------------
LEMMA InitAInv == Init => AInv
<1> SUFFICES ASSUME Init PROVE AInv
  OBVIOUS
<1>1. IdleRun \in RunType /\ IdleRun.todo = {} /\ IdleRun.pc = "idle"
  BY ArtifactAssumption DEF IdleRun, RunType, Control
<1>2. run = [w \in Slots |-> IdleRun] /\ check = [d \in Docs |-> NoCheck]
  BY DEF Init
<1>3. TypeOK
  BY <1>1, <1>2 DEF Init, TypeOK
<1>4. WorkShape /\ WorkCurrent
  BY <1>1, <1>2 DEF WorkShape, WorkCurrent
<1>5. VerdictFits
  BY <1>2 DEF VerdictFits, Present
<1> QED BY <1>3, <1>4, <1>5 DEF AInv

(* Steps that only move the run w between the steps of one document. *)
LEMMA FetchingKeeps ==
    ASSUME AInv, NEW w \in Slots, run[w].pc \in AtWork,
           check' = check, fired' \in BOOLEAN, faults' \in Nat,
           NEW r \in RunType, run' = [run EXCEPT ![w] = r],
           r.todo = run[w].todo, r.pc \in AtWork,
           r.pc = "record" => r.body \in Contents \cup {Garbage}
    PROVE  AInv'
<1>1. run \in [Slots -> RunType]
  BY DEF AInv, TypeOK
<1>2. /\ run' \in [Slots -> RunType] /\ run'[w] = r
      /\ \A v \in Slots : v # w => run'[v] = run[v]
      /\ \A v \in Slots : run'[v].todo = run[v].todo
  BY <1>1
<1>3. TypeOK'
  BY <1>2 DEF AInv, TypeOK, AtWork
<1>4. WorkShape'
  BY <1>2 DEF AInv, WorkShape, AtWork
<1>5. WorkCurrent'
  BY <1>2 DEF AInv, WorkCurrent, Present
<1>6. VerdictFits'
  BY DEF AInv, VerdictFits, Present
<1> QED BY <1>3, <1>4, <1>5, <1>6 DEF AInv

LEMMA FetchingSteps ==
    ASSUME AInv, NEW w \in Slots
    PROVE  /\ FollowRedirect(w) => AInv'
           /\ Respond(w) => AInv'
           /\ (\E n \in 1 .. MaxBytes + 1 : ReadChunk(w, n)) => AInv'
           /\ EndOfBody(w) => AInv'
           /\ GiveUp(w) => AInv'
<1>1. run \in [Slots -> RunType] /\ run[w] \in RunType
  BY DEF AInv, TypeOK
<1>2. fired \in BOOLEAN /\ faults \in Nat
  BY DEF AInv, TypeOK
<1>3. ASSUME FollowRedirect(w) PROVE AInv'
  <2> DEFINE r == [run[w] EXCEPT !.hops = @ + 1, !.asked = @ + 1]
  <2>1. run' = [run EXCEPT ![w] = r]
    BY <1>1, <1>3 DEF FollowRedirect, RunType
  <2>2. r \in RunType /\ r.todo = run[w].todo /\ r.pc = "request"
    BY <1>1, <1>3 DEF FollowRedirect, RunType
  <2> QED BY <1>2, <1>3, <2>1, <2>2, FetchingKeeps DEF FollowRedirect, AtWork
<1>4. ASSUME Respond(w) PROVE AInv'
  <2> DEFINE r == [run[w] EXCEPT !.pc = "body"]
  <2>1. r \in RunType /\ r.todo = run[w].todo /\ r.pc = "body"
    BY <1>1 DEF RunType, Control
  <2>2. run' = [run EXCEPT ![w] = r]
    BY <1>1, <1>4 DEF Respond, RunType
  <2> QED BY <1>2, <1>4, <2>1, <2>2, FetchingKeeps DEF Respond, AtWork
<1>5. ASSUME NEW n \in 1 .. MaxBytes + 1, ReadChunk(w, n) PROVE AInv'
  <2> DEFINE r == IF run[w].size + n > MaxBytes THEN [run[w] EXCEPT !.pc = "failed"]
                  ELSE [run[w] EXCEPT !.size = @ + n]
  <2>1. r \in RunType /\ r.todo = run[w].todo /\ r.pc \in {"body", "failed"}
    BY <1>1, <1>5, ArtifactAssumption DEF RunType, Control, ReadChunk
  <2>2. run' = [run EXCEPT ![w] = r]
    BY <1>1, <1>5 DEF ReadChunk, RunType
  <2> QED BY <1>2, <1>5, <2>1, <2>2, FetchingKeeps DEF ReadChunk, AtWork
<1>6. ASSUME EndOfBody(w) PROVE AInv'
  <2>0. run[w].pc = "body" /\ UNCHANGED <<check, fired, faults>>
    BY <1>6 DEF EndOfBody
  <2>1. PICK c \in IF Current(w).doc \in Reliable THEN {Current(w).expects}
                   ELSE Contents \cup {Garbage} :
           run' = [run EXCEPT ![w].pc = "record", ![w].body = c]
    BY <1>6 DEF EndOfBody
  <2>2. Current(w).expects \in Contents
    <3>1. Current(w) \in run[w].todo
      BY <2>0, CurrentIsWork DEF AInv, AtWork
    <3> QED BY <1>1, <3>1 DEF RunType, Work
  <2>3. c \in Contents \cup {Garbage}
    BY <2>1, <2>2
  <2> DEFINE r == [run[w] EXCEPT !.pc = "record", !.body = c]
  <2>4. r \in RunType /\ r.todo = run[w].todo /\ r.pc = "record" /\ r.body = c
    BY <1>1, <2>3 DEF RunType, Control
  <2>5. run' = [run EXCEPT ![w] = r]
    BY <1>1, <2>1 DEF RunType
  <2> QED BY <1>2, <2>0, <2>3, <2>4, <2>5, FetchingKeeps DEF AtWork
<1>7. ASSUME GiveUp(w) PROVE AInv'
  <2> DEFINE r == [run[w] EXCEPT !.pc = "failed"]
  <2>1. r \in RunType /\ r.todo = run[w].todo /\ r.pc = "failed"
    BY <1>1 DEF RunType, Control
  <2>2. run' = [run EXCEPT ![w] = r]
    BY <1>1, <1>7 DEF GiveUp, RunType
  <2> QED BY <1>2, <1>7, <2>1, <2>2, FetchingKeeps DEF GiveUp, AtWork
<1> QED BY <1>3, <1>4, <1>5, <1>6, <1>7

(* Steps after which run w has other rows to work on, all of them as they  *)
(* stand in the table, and the other runs' rows still stand there.         *)
LEMMA GoingOnKeeps ==
    ASSUME AInv, NEW w \in Slots, fired' \in BOOLEAN, faults' \in Nat,
           check' \in [Docs -> CheckRow \cup {NoCheck}], VerdictFits',
           \A v \in Slots : \A t \in run[v].todo :
               check'[t.doc] # NoCheck /\ check'[t.doc].expects = t.expects,
           NEW todo \in SUBSET Work, run' = [run EXCEPT ![w] = GoOn(run[w], todo)],
           \A t, u \in todo : t.doc = u.doc => t = u,
           \A t \in todo : check'[t.doc] # NoCheck /\ check'[t.doc].expects = t.expects
    PROVE  AInv'
<1>1. run \in [Slots -> RunType] /\ run[w] \in RunType
  BY DEF AInv, TypeOK
<1> DEFINE r == GoOn(run[w], todo)
<1>2. /\ r \in RunType /\ r.todo = todo /\ r.pc \in {"idle", "request"}
      /\ (r.pc = "idle") <=> (todo = {})
  <2>1. CASE todo = {}
    BY <2>1, ArtifactAssumption DEF GoOn, RunType, Control, IdleRun
  <2>2. CASE todo # {}
    <3>1. r = [run[w] EXCEPT !.pc = "request", !.todo = todo, !.hops = 0,
                             !.asked = @ + 1, !.size = 0, !.body = NoHash]
      BY <2>2 DEF GoOn
    <3>2. r = [pc |-> "request", todo |-> todo, hops |-> 0, asked |-> run[w].asked + 1,
               size |-> 0, body |-> NoHash, age |-> run[w].age]
      <4> HIDE DEF r
      <4> QED BY <1>1, <3>1 DEF RunType
    <3>3. r.todo = todo /\ r.pc = "request" /\ r \in RunType
      <4> HIDE DEF r
      <4> QED BY <1>1, <3>2 DEF RunType, Control
    <3> QED BY <2>2, <3>3
  <2> QED BY <2>1, <2>2
<1>3. /\ run' \in [Slots -> RunType] /\ run'[w] = r
      /\ \A v \in Slots : v # w => run'[v] = run[v]
  BY <1>1, <1>2
<1> HIDE DEF r
<1>4. TypeOK'
  BY <1>2, <1>3 DEF AInv, TypeOK
<1>5. WorkShape'
  BY <1>2, <1>3 DEF AInv, WorkShape
<1>6. WorkCurrent'
  BY <1>2, <1>3 DEF AInv, WorkCurrent, Present
<1> QED BY <1>4, <1>5, <1>6 DEF AInv

LEMMA SelectKeeps == ASSUME AInv, NEW w \in Slots, Select(w) PROVE AInv'
<1>1. /\ UNCHANGED <<check, fired, faults>>
      /\ run' = [run EXCEPT ![w] = GoOn(run[w], Taken(w))]
  BY DEF Select, AInv, TypeOK
<1>2. \A t \in Taken(w) : /\ t.doc \in Docs /\ Present(t.doc)
                          /\ t = [doc |-> t.doc, expects |-> check[t.doc].expects]
  <2> SUFFICES ASSUME NEW t \in Taken(w)
               PROVE  /\ t.doc \in Docs /\ Present(t.doc)
                      /\ t = [doc |-> t.doc, expects |-> check[t.doc].expects]
    OBVIOUS
  <2>1. PICK d \in Pending(w) : t = [doc |-> d, expects |-> check[d].expects]
    BY Zenon DEF Taken
  <2> QED BY <2>1 DEF Pending
<1>3. Taken(w) \in SUBSET Work
  <2>1. \A d \in Docs : Present(d) => check[d].expects \in Contents
    BY DEF AInv, TypeOK, Present, CheckRow
  <2> QED BY <1>2, <2>1 DEF Work
<1>4. \A t \in Taken(w) : check[t.doc] # NoCheck /\ check[t.doc].expects = t.expects
  BY <1>2 DEF Present
<1>5. \A t, u \in Taken(w) : t.doc = u.doc => t = u
  BY <1>2
<1>6. \A v \in Slots : \A t \in run[v].todo :
          check[t.doc] # NoCheck /\ check[t.doc].expects = t.expects
  BY DEF AInv, WorkCurrent, Present
<1>7. VerdictFits' /\ check \in [Docs -> CheckRow \cup {NoCheck}]
      /\ fired \in BOOLEAN /\ faults \in Nat
  BY <1>1 DEF AInv, TypeOK, VerdictFits, Present
<1> QED BY <1>1, <1>3, <1>4, <1>5, <1>6, <1>7, GoingOnKeeps

-----------------------------------------------------------------------------
(* What VerdictFits says of one row, and the rows the two UPDATEs write. *)
Fits(row) ==
    /\ row.verified => row.actual = row.expects
    /\ row.ago = Never => ~row.verified
    /\ row.ago # Never /\ row.error = "none" => row.verified
    /\ row.ago # Never /\ row.error = "mismatch" => row.actual # row.expects

LEMMA UpdatedRows ==
    ASSUME NEW row \in CheckRow, Fits(row), NEW r \in RunType
    PROVE  /\ r.body \in Contents \cup {Garbage} =>
                  /\ Verdict(row, r, row.expects) \in CheckRow
                  /\ Verdict(row, r, row.expects).expects = row.expects
                  /\ Fits(Verdict(row, r, row.expects))
           /\ Excuse(row, r) \in CheckRow
           /\ Excuse(row, r).expects = row.expects
           /\ Fits(Excuse(row, r))
<1>1. /\ r.age \in Never .. AgeCap /\ r.age # Never
      /\ r.body \in Contents \cup {Garbage, NoHash}
  BY ArtifactAssumption DEF RunType, Never, AgeCap
<1>2. ASSUME r.body \in Contents \cup {Garbage}
      PROVE  /\ Verdict(row, r, row.expects) \in CheckRow
             /\ Verdict(row, r, row.expects).expects = row.expects
             /\ Fits(Verdict(row, r, row.expects))
  BY <1>1, <1>2 DEF Verdict, CheckRow, Fits
<1>3. /\ Excuse(row, r) \in CheckRow
      /\ Excuse(row, r).expects = row.expects
      /\ Fits(Excuse(row, r))
  BY <1>1 DEF Excuse, CheckRow, Fits
<1> QED BY <1>2, <1>3

(* The table after the row of the document at hand is replaced by such a   *)
(* row: every run's rows still stand there.                                *)
LEMMA TableAfterUpdate ==
    ASSUME AInv, NEW w \in Slots, run[w].pc \in AtWork,
           NEW row \in CheckRow, Fits(row),
           row.expects = check[Current(w).doc].expects,
           check' = [check EXCEPT ![Current(w).doc] = row]
    PROVE  /\ check' \in [Docs -> CheckRow \cup {NoCheck}]
           /\ VerdictFits'
           /\ \A v \in Slots : \A t \in run[v].todo :
                  check'[t.doc] # NoCheck /\ check'[t.doc].expects = t.expects
<1>1. Current(w) \in run[w].todo
  BY CurrentIsWork DEF AInv
<1>2. \A v \in Slots : \A t \in run[v].todo :
          /\ t.doc \in Docs
          /\ check[t.doc] # NoCheck /\ check[t.doc].expects = t.expects
  BY DEF AInv, TypeOK, RunType, Work, WorkCurrent, Present
<1>3. check \in [Docs -> CheckRow \cup {NoCheck}]
  BY DEF AInv, TypeOK
<1>4. row # NoCheck
  BY ArtifactAssumption DEF CheckRow, NoCheck, Unchecked
<1>5. /\ check' \in [Docs -> CheckRow \cup {NoCheck}]
      /\ check'[Current(w).doc] = row
      /\ \A d \in Docs : d # Current(w).doc => check'[d] = check[d]
  BY <1>1, <1>2, <1>3
<1>6. VerdictFits'
  BY <1>5 DEF AInv, VerdictFits, Present, Fits
<1> QED BY <1>1, <1>2, <1>4, <1>5, <1>6

LEMMA RecordKeeps ==
    ASSUME AInv, NEW w \in Slots
    PROVE  /\ Record(w) => AInv'
           /\ RecordFailure(w) => AInv'
           /\ RecordFails(w) => AInv'
<1> DEFINE t == Current(w)
           marked == Verdict(check[t.doc], run[w], t.expects)
           excused == Excuse(check[t.doc], run[w])
<1>1. /\ run \in [Slots -> RunType] /\ run[w] \in RunType
      /\ check \in [Docs -> CheckRow \cup {NoCheck}]
      /\ fired \in BOOLEAN /\ faults \in Nat
  BY DEF AInv, TypeOK
<1>2. ASSUME run[w].pc \in AtWork
      PROVE  /\ t \in run[w].todo /\ t.doc \in Docs
             /\ check[t.doc] \in CheckRow /\ Fits(check[t.doc])
             /\ check[t.doc].expects = t.expects
  <2>1. t \in run[w].todo
    BY <1>2, CurrentIsWork DEF AInv
  <2>2. t.doc \in Docs
    BY <1>1, <2>1 DEF RunType, Work
  <2>3. Present(t.doc) /\ check[t.doc].expects = t.expects
    BY <2>1 DEF AInv, WorkCurrent
  <2> QED BY <1>1, <2>1, <2>2, <2>3 DEF AInv, VerdictFits, Present, Fits
<1>3. ASSUME run[w].pc = "record"
      PROVE  marked \in CheckRow /\ marked.expects = check[t.doc].expects /\ Fits(marked)
  BY <1>1, <1>2, <1>3, UpdatedRows DEF AtWork, AInv, WorkShape
<1>4. ASSUME run[w].pc \in AtWork
      PROVE  excused \in CheckRow /\ excused.expects = check[t.doc].expects /\ Fits(excused)
  BY <1>1, <1>2, <1>4, UpdatedRows
<1>5. ASSUME NEW row \in CheckRow, Fits(row), run[w].pc \in AtWork,
             row.expects = check[t.doc].expects,
             check' = [check EXCEPT ![t.doc] = row], Done(w), UNCHANGED <<fired, faults>>
      PROVE  AInv'
  <2>1. /\ check' \in [Docs -> CheckRow \cup {NoCheck}] /\ VerdictFits'
        /\ \A v \in Slots : \A u \in run[v].todo :
               check'[u.doc] # NoCheck /\ check'[u.doc].expects = u.expects
    BY <1>5, TableAfterUpdate
  <2> DEFINE todo == run[w].todo \ {t}
  <2>2. /\ todo \in SUBSET Work /\ todo \subseteq run[w].todo
        /\ run' = [run EXCEPT ![w] = GoOn(run[w], todo)]
    BY <1>1, <1>5 DEF Done, RunType
  <2>3. \A u, v \in todo : u.doc = v.doc => u = v
    BY <2>2 DEF AInv, TypeOK
  <2>4. fired' \in BOOLEAN /\ faults' \in Nat
    BY <1>1, <1>5
  <2> HIDE DEF todo
  <2>5. \A u \in todo : check'[u.doc] # NoCheck /\ check'[u.doc].expects = u.expects
    BY <2>1, <2>2
  <2> QED BY <2>1, <2>2, <2>3, <2>4, <2>5, GoingOnKeeps
<1>6. Record(w) => AInv'
  BY <1>2, <1>3, <1>5 DEF Record, AtWork
<1>7. RecordFailure(w) => AInv'
  BY <1>2, <1>4, <1>5 DEF RecordFailure, AtWork
<1>8. ASSUME RecordFails(w) PROVE AInv'
  <2> DEFINE r == [run[w] EXCEPT !.pc = "failed"]
  <2>0. run[w].pc = "record" /\ fired' \in BOOLEAN /\ faults' \in Nat
    BY <1>1, <1>8 DEF RecordFails
  <2>1. r \in RunType /\ r.todo = run[w].todo /\ r.pc = "failed"
    BY <1>1 DEF RunType, Control
  <2>2. run' = [run EXCEPT ![w] = r]
    BY <1>1, <1>8 DEF RecordFails
  <2> HIDE DEF r
  <2>3. CASE check' = check
    BY <2>0, <2>1, <2>2, <2>3, FetchingKeeps DEF AtWork
  <2>4. CASE check' = [check EXCEPT ![t.doc] = marked]
    <3>1. /\ check' \in [Docs -> CheckRow \cup {NoCheck}] /\ VerdictFits'
          /\ \A v \in Slots : \A u \in run[v].todo :
                 check'[u.doc] # NoCheck /\ check'[u.doc].expects = u.expects
      BY <1>3, <2>0, <2>4, TableAfterUpdate DEF AtWork
    <3>2. /\ run' \in [Slots -> RunType] /\ run'[w] = r
          /\ \A v \in Slots : v # w => run'[v] = run[v]
          /\ \A v \in Slots : run'[v].todo = run[v].todo
      BY <1>1, <2>1, <2>2
    <3>3. run'[w].todo # {}
      BY <2>0, <3>2 DEF AInv, TypeOK
    <3>4. TypeOK'
      BY <2>0, <2>1, <3>1, <3>2, <3>3 DEF AInv, TypeOK
    <3>5. WorkShape'
      BY <2>1, <3>2 DEF AInv, WorkShape
    <3>6. WorkCurrent'
      BY <3>1, <3>2 DEF WorkCurrent, Present
    <3> QED BY <3>1, <3>4, <3>5, <3>6 DEF AInv
  <2> QED BY <1>8, <2>3, <2>4 DEF RecordFails
<1> QED BY <1>6, <1>7, <1>8

-----------------------------------------------------------------------------
(* Cron, the clock, the projection and the death of an instance. *)

(* A step that leaves the table alone and after which run w has no rows.   *)
LEMMA EmptyHandedKeeps ==
    ASSUME AInv, NEW w \in Slots, check' = check, fired' \in BOOLEAN, faults' \in Nat,
           NEW pc \in {"idle", "select"}, run' = [run EXCEPT ![w] = [IdleRun EXCEPT !.pc = pc]]
    PROVE  AInv'
<1> DEFINE r == [IdleRun EXCEPT !.pc = pc]
<1>1. r \in RunType /\ r.todo = {} /\ r.pc = pc
  BY ArtifactAssumption DEF IdleRun, RunType, Control
<1>2. run \in [Slots -> RunType]
  BY DEF AInv, TypeOK
<1> HIDE DEF r
<1>3. /\ run' \in [Slots -> RunType] /\ run'[w] = r
      /\ \A v \in Slots : v # w => run'[v] = run[v]
  BY <1>1, <1>2 DEF r
<1>4. TypeOK'
  BY <1>1, <1>3 DEF AInv, TypeOK
<1>5. WorkShape'
  BY <1>1, <1>3 DEF AInv, WorkShape
<1>6. WorkCurrent'
  BY <1>1, <1>3 DEF AInv, WorkCurrent, Present
<1>7. VerdictFits'
  BY DEF AInv, VerdictFits, Present
<1> QED BY <1>4, <1>5, <1>6, <1>7 DEF AInv

LEMMA ProjectKeeps ==
    ASSUME AInv, ~MayReplace \/ Alone, NEW w \in Slots, NEW d \in Docs, NEW c \in Contents,
           Project(w, d, c)
    PROVE  AInv'
<1>1. check \in [Docs -> CheckRow \cup {NoCheck}]
  BY DEF AInv, TypeOK
<1>2. /\ check' = [check EXCEPT ![d] = Upsert(check[d], c)]
      /\ run' = run /\ fired' = fired /\ faults' = faults
      /\ run[w].pc = "idle"
      /\ check[d] = NoCheck \/ check[d].expects = c \/ MayReplace
  BY <1>1 DEF Project, Running, Present
<1> DEFINE row == Upsert(check[d], c)
<1>3. Unchecked(c) \in CheckRow /\ Fits(Unchecked(c))
  BY ArtifactAssumption DEF Unchecked, CheckRow, Fits, Never, AgeCap
<1>4. check[d] # NoCheck => check[d] \in CheckRow /\ Fits(check[d])
  BY <1>1 DEF AInv, VerdictFits, Present, Fits
<1>5. row \in CheckRow /\ Fits(row) /\ row.expects = c
  <2>1. CASE check[d] = NoCheck
    BY <1>3, <2>1 DEF Upsert, Unchecked
  <2>2. CASE check[d] # NoCheck /\ check[d].expects = c
    BY <1>4, <2>2 DEF Upsert
  <2>3. CASE check[d] # NoCheck /\ check[d].expects # c
    <3>1. row = [check[d] EXCEPT !.expects = c, !.verified = FALSE, !.ago = Never]
      BY <2>3 DEF Upsert
    <3> HIDE DEF row
    <3>2. Never \in Never .. AgeCap
      BY ArtifactAssumption DEF Never, AgeCap
    <3> QED BY <1>4, <2>3, <3>1, <3>2 DEF CheckRow, Fits
  <2> QED BY <2>1, <2>2, <2>3
<1>6. row # NoCheck
  BY <1>5, ArtifactAssumption DEF NoCheck, Unchecked
<1>7. /\ check' \in [Docs -> CheckRow \cup {NoCheck}] /\ check'[d] = row
      /\ \A e \in Docs : e # d => check'[e] = check[e]
  <2> HIDE DEF row
  <2> QED BY <1>1, <1>2, <1>5 DEF row
<1> HIDE DEF row
<1>8. VerdictFits'
  BY <1>5, <1>7 DEF AInv, VerdictFits, Present, Fits
<1>9. ASSUME NEW v \in Slots, NEW t \in run[v].todo
      PROVE  check'[t.doc] # NoCheck /\ check'[t.doc].expects = t.expects
  <2>1. t.doc \in Docs /\ check[t.doc] # NoCheck /\ check[t.doc].expects = t.expects
    BY DEF AInv, TypeOK, RunType, Work, WorkCurrent, Present
  <2>2. CASE t.doc # d
    BY <1>7, <2>1, <2>2
  <2>3. CASE t.doc = d
    <3>1. ~Alone
      BY <1>2 DEF Alone, AInv, WorkShape
    <3>2. check[d].expects = c
      BY <1>2, <2>1, <2>3, <3>1
    <3> QED BY <1>5, <1>6, <1>7, <2>1, <2>3, <3>2
  <2> QED BY <2>2, <2>3
<1>10. TypeOK' /\ WorkShape'
  BY <1>2, <1>7 DEF AInv, TypeOK, WorkShape
<1>11. WorkCurrent'
  BY <1>2, <1>9 DEF WorkCurrent, Present
<1> QED BY <1>8, <1>10, <1>11 DEF AInv

LEMMA TickKeeps == ASSUME AInv, Tick PROVE AInv'
<1>1. /\ check \in [Docs -> CheckRow \cup {NoCheck}] /\ run \in [Slots -> RunType]
      /\ \A w \in Slots : run[w].pc # "idle" => run[w].age < RunLimit
      /\ check' = [d \in Docs |-> Older(check[d])]
      /\ run' = [w \in Slots |-> IF run[w].pc # "idle"
                                 THEN [run[w] EXCEPT !.age = @ + 1] ELSE run[w]]
      /\ fired' = FALSE /\ faults' = faults
  BY DEF AInv, TypeOK, Tick, Running
<1>2. Older(NoCheck) = NoCheck
  BY DEF Older, NoCheck, Unchecked
<1>3. ASSUME NEW row \in CheckRow
      PROVE  /\ Older(row) \in CheckRow /\ Older(row).expects = row.expects
             /\ Fits(row) => Fits(Older(row))
  BY ArtifactAssumption DEF Older, CheckRow, Fits, Never, AgeCap
<1>4. \A row \in CheckRow : row # NoCheck
  BY ArtifactAssumption DEF CheckRow, NoCheck, Unchecked
<1>5. ASSUME NEW w \in Slots
      PROVE  /\ run'[w] \in RunType /\ run'[w].todo = run[w].todo
             /\ run'[w].pc = run[w].pc /\ run'[w].body = run[w].body
  <2>1. CASE run[w].pc = "idle"
    BY <1>1, <2>1
  <2>2. CASE run[w].pc # "idle"
    <3>1. run[w] \in RunType /\ run[w].age < RunLimit /\ run'[w] = [run[w] EXCEPT !.age = @ + 1]
      BY <1>1, <2>2
    <3> QED BY <3>1, ArtifactAssumption DEF RunType
  <2> QED BY <2>1, <2>2
<1>6. check' \in [Docs -> CheckRow \cup {NoCheck}]
  BY <1>1, <1>2, <1>3
<1>7. TypeOK'
  <2>1. run' \in [Slots -> RunType]
    BY <1>1, <1>5
  <2> QED BY <1>1, <1>5, <1>6, <2>1 DEF AInv, TypeOK
<1>8. WorkShape'
  BY <1>5 DEF AInv, WorkShape
<1>9. WorkCurrent'
  <2> SUFFICES ASSUME NEW w \in Slots, NEW t \in run[w].todo
               PROVE  check'[t.doc] # NoCheck /\ check'[t.doc].expects = t.expects
    BY <1>5 DEF WorkCurrent, Present
  <2>1. t.doc \in Docs /\ check[t.doc] # NoCheck /\ check[t.doc].expects = t.expects
    BY DEF AInv, TypeOK, RunType, Work, WorkCurrent, Present
  <2> QED BY <1>1, <1>3, <1>4, <2>1
<1>10. VerdictFits'
  <2> SUFFICES ASSUME NEW d \in Docs, check'[d] # NoCheck PROVE Fits(check'[d])
    BY DEF VerdictFits, Present, Fits
  <2>1. check'[d] = Older(check[d]) /\ check[d] # NoCheck
    BY <1>1, <1>2
  <2>2. check[d] \in CheckRow /\ Fits(check[d])
    BY <1>1, <2>1 DEF AInv, VerdictFits, Present, Fits
  <2> QED BY <1>3, <2>1, <2>2
<1> QED BY <1>7, <1>8, <1>9, <1>10 DEF AInv

LEMMA NextKeeps == ASSUME AInv, ~MayReplace \/ Alone, [Next]_vars PROVE AInv'
<1>0. run \in [Slots -> RunType] /\ fired \in BOOLEAN /\ faults \in Nat
  BY DEF AInv, TypeOK
<1>1. ASSUME Tick PROVE AInv'
  BY <1>1, TickKeeps
<1>2. ASSUME Skip PROVE AInv'
  BY <1>2 DEF Skip, AInv, TypeOK, WorkShape, WorkCurrent, VerdictFits, Present
<1>3. ASSUME NEW w \in Slots, NEW d \in Docs, NEW c \in Contents, Project(w, d, c) PROVE AInv'
  BY <1>3, ProjectKeeps
<1>4. ASSUME NEW w \in Slots, Begin(w) PROVE AInv'
  BY <1>0, <1>4, EmptyHandedKeeps DEF Begin
<1>5. ASSUME NEW w \in Slots, Step(w) PROVE AInv'
  BY <1>5, SelectKeeps, FetchingSteps, RecordKeeps DEF Step
<1>6. ASSUME NEW w \in Slots, RecordFails(w) PROVE AInv'
  BY <1>6, RecordKeeps
<1>7. ASSUME NEW w \in Slots, Dies(w) PROVE AInv'
  <2>1. IdleRun = [IdleRun EXCEPT !.pc = "idle"]
    BY DEF IdleRun
  <2>2. run' = [run EXCEPT ![w] = IdleRun] /\ check' = check
    BY <1>7 DEF Dies
  <2>3. fired' \in BOOLEAN /\ faults' \in Nat
    BY <1>0, <1>7 DEF Dies
  <2>4. run' = [run EXCEPT ![w] = [IdleRun EXCEPT !.pc = "idle"]]
    BY <2>1, <2>2, Zenon
  <2> QED BY <2>2, <2>3, <2>4, EmptyHandedKeeps
<1>8. ASSUME UNCHANGED vars PROVE AInv'
  BY <1>8 DEF vars, AInv, TypeOK, WorkShape, WorkCurrent, VerdictFits, Present
<1> QED BY <1>1, <1>2, <1>3, <1>4, <1>5, <1>6, <1>7, <1>8 DEF Next

\* The inductive invariant, and with it the types, hold in every state: when runs do
\* not overlap, or when commitments are fixed as the contract fixes them.
THEOREM ChecksInductive == ASSUME ~MayReplace \/ Alone PROVE Spec => []AInv
<1>1. Init => AInv
  BY InitAInv
<1>2. AInv /\ [Next]_vars => AInv'
  BY NextKeeps
<1> QED BY <1>1, <1>2, PTL DEF Spec

\* Rows, runs and what a run has in hand keep their types, however often a run fails
\* or is restarted between two requests (verifyPendingArtifacts).
THEOREM ChecksTyped == ASSUME ~MayReplace \/ Alone PROVE Spec => []TypeOK
<1>1. AInv => TypeOK
  BY DEF AInv
<1> QED BY <1>1, ChecksInductive, PTL

\* Every verdict in artifact_checks belongs to the commitment in its row, also when
\* overlapping runs answer out of order (verifyPendingArtifacts).
THEOREM VerdictsFit == ASSUME ~MayReplace \/ Alone PROVE Spec => []VerdictFits
<1>1. AInv => VerdictFits
  BY DEF AInv
<1> QED BY <1>1, ChecksInductive, PTL

-----------------------------------------------------------------------------
(* No run has a verified document in hand, except the one whose verdict it *)
(* has just written without getting an answer.                             *)
Unmarked ==
    \A w \in Slots : \A t \in run[w].todo :
        check[t.doc].verified => run[w].pc = "failed" /\ t = Current(w)

(* What a step does to verified documents. *)
Stays == \A d \in Docs : check[d].verified /\ check'[d].expects = check[d].expects
                           => check'[d].verified

LEMMA FetchingUnmarked ==
    ASSUME AInv, Unmarked, Alone, NEW w \in Slots, check' = check,
           run[w].pc # "failed", run'[w].todo = run[w].todo
    PROVE  Unmarked' /\ Stays
BY DEF Unmarked, Alone, Stays

LEMMA EmptyHandedUnmarked ==
    ASSUME Alone, NEW w \in Slots, check' = check, run'[w].todo = {}
    PROVE  Unmarked' /\ Stays
BY DEF Unmarked, Alone, Stays

(* The row of the document at hand is updated; the rows left are others.   *)
LEMMA UpdateUnmarked ==
    ASSUME AInv, Unmarked, Alone, NEW w \in Slots, run[w].pc \in AtWork, NEW row,
           check' = [check EXCEPT ![Current(w).doc] = row],
           check[Current(w).doc].verified => row.verified,
           \/ run'[w].todo = run[w].todo \ {Current(w)}
           \/ run'[w].todo = run[w].todo /\ run'[w].pc = "failed"
    PROVE  Unmarked' /\ Stays
<1>1. Current(w) \in run[w].todo
  BY CurrentIsWork DEF AInv
<1>2. /\ check \in [Docs -> CheckRow \cup {NoCheck}]
      /\ \A t \in run[w].todo : t.doc \in Docs
      /\ \A t, u \in run[w].todo : t.doc = u.doc => t = u
  BY DEF AInv, TypeOK, RunType, Work
<1>3. /\ check'[Current(w).doc] = row
      /\ \A d \in Docs : d # Current(w).doc => check'[d] = check[d]
  BY <1>1, <1>2
<1>4. Stays
  BY <1>3 DEF Stays
<1>5. ASSUME NEW t \in run[w].todo, t # Current(w) PROVE ~check'[t.doc].verified
  <2>1. t.doc # Current(w).doc /\ t.doc \in Docs
    BY <1>1, <1>2, <1>5
  <2> QED BY <1>3, <1>5, <2>1 DEF Unmarked
<1>6. run'[w].todo = run[w].todo => Current(w)' = Current(w)
  BY DEF Current
<1>7. ASSUME NEW t \in run'[w].todo, check'[t.doc].verified
      PROVE  run'[w].pc = "failed" /\ t = Current(w)'
  BY <1>5, <1>6, <1>7
<1> QED BY <1>4, <1>7 DEF Unmarked, Alone

LEMMA NextUnmarked ==
    ASSUME AInv, Unmarked, Alone, [Next]_vars PROVE Unmarked' /\ Stays
<1>0. run \in [Slots -> RunType] /\ check \in [Docs -> CheckRow \cup {NoCheck}]
  BY DEF AInv, TypeOK
<1>1. ASSUME Tick PROVE Unmarked' /\ Stays
  <2>1. \A row : Older(row).verified = row.verified
    BY DEF Older
  <2>2. \A w \in Slots : run'[w].todo = run[w].todo /\ run'[w].pc = run[w].pc
    BY <1>0, <1>1 DEF Tick, RunType
  <2>3. \A d \in Docs : check'[d].verified = check[d].verified
    BY <1>1, <2>1 DEF Tick
  <2>4. \A w \in Slots : \A t \in run[w].todo : t.doc \in Docs
    BY <1>0 DEF RunType, Work
  <2>5. \A w \in Slots : Current(w)' = Current(w)
    BY <2>2 DEF Current
  <2> QED BY <2>2, <2>3, <2>4, <2>5 DEF Unmarked, Stays
<1>2. ASSUME Skip \/ UNCHANGED vars PROVE Unmarked' /\ Stays
  <2>1. check' = check /\ run' = run
    BY <1>2 DEF Skip, vars
  <2>2. \A w \in Slots : Current(w)' = Current(w)
    BY <2>1 DEF Current
  <2> QED BY <2>1, <2>2 DEF Unmarked, Stays
<1>3. ASSUME NEW w \in Slots, NEW d \in Docs, NEW c \in Contents, Project(w, d, c)
      PROVE  Unmarked' /\ Stays
  <2>1. run' = run /\ run[w].todo = {}
    BY <1>3 DEF Project, Running, AInv, WorkShape
  <2>2. Unmarked'
    BY <2>1 DEF Unmarked, Alone
  <2>3. /\ check' = [check EXCEPT ![d] = Upsert(check[d], c)]
        /\ \A e \in Docs : e # d => check'[e] = check[e]
        /\ check'[d] = Upsert(check[d], c)
    BY <1>0, <1>3 DEF Project
  <2>4. check[d].expects # Upsert(check[d], c).expects \/ Upsert(check[d], c) = check[d]
    <3>1. CASE check[d] = NoCheck
      BY <3>1, ArtifactAssumption DEF Upsert, Unchecked, NoCheck
    <3>2. CASE check[d] # NoCheck
      <4>1. check[d] \in CheckRow
        BY <1>0, <3>2
      <4> QED BY <3>2, <4>1 DEF Upsert, CheckRow
    <3> QED BY <3>1, <3>2
  <2> QED BY <2>2, <2>3, <2>4 DEF Stays
<1>4. ASSUME NEW w \in Slots, Begin(w) \/ Dies(w) PROVE Unmarked' /\ Stays
  <2>1. check' = check /\ run'[w].todo = {}
    BY <1>0, <1>4 DEF Begin, Dies, IdleRun
  <2> QED BY <2>1, EmptyHandedUnmarked
<1>5. ASSUME NEW w \in Slots, Select(w) PROVE Unmarked' /\ Stays
  <2>1. check' = check /\ run'[w] = GoOn(run[w], Taken(w))
    BY <1>0, <1>5 DEF Select
  <2>2. GoOn(run[w], Taken(w)).todo \subseteq Taken(w)
    BY <1>0 DEF GoOn, IdleRun, RunType
  <2>3. ASSUME NEW t \in Taken(w) PROVE ~check[t.doc].verified
    <3>1. PICK d \in Pending(w) : t = [doc |-> d, expects |-> check[d].expects]
      BY Zenon DEF Taken
    <3> QED BY <3>1 DEF Pending
  <2> QED BY <2>1, <2>2, <2>3 DEF Unmarked, Alone, Stays
<1>6. ASSUME NEW w \in Slots,
             \/ FollowRedirect(w) \/ Respond(w) \/ EndOfBody(w) \/ GiveUp(w)
             \/ \E n \in 1 .. MaxBytes + 1 : ReadChunk(w, n)
      PROVE  Unmarked' /\ Stays
  <2>1. /\ check' = check /\ run[w].pc # "failed"
        /\ run'[w].todo = run[w].todo
    BY <1>0, <1>6 DEF FollowRedirect, Respond, EndOfBody, GiveUp, ReadChunk, RunType
  <2> QED BY <2>1, FetchingUnmarked
<1> DEFINE done(w) == \/ run'[w].todo = run[w].todo \ {Current(w)}
                      \/ run'[w].todo = run[w].todo /\ run'[w].pc = "failed"
<1>7. ASSUME NEW w \in Slots, Done(w) PROVE done(w)
  BY <1>0, <1>7 DEF Done, GoOn, IdleRun, RunType
<1>8. ASSUME NEW w \in Slots, Record(w) \/ RecordFails(w) PROVE Unmarked' /\ Stays
  <2>1. run[w].pc = "record" /\ done(w)
    BY <1>0, <1>7, <1>8 DEF Record, RecordFails, RunType
  <2>2. ~check[Current(w).doc].verified
    BY <2>1, CurrentIsWork DEF AInv, Unmarked, AtWork
  <2> DEFINE row == Verdict(check[Current(w).doc], run[w], Current(w).expects)
  <2>3. CASE check' = [check EXCEPT ![Current(w).doc] = row]
    <3> HIDE DEF row
    <3> QED BY <2>1, <2>2, <2>3, UpdateUnmarked DEF AtWork
  <2>4. CASE check' = check /\ RecordFails(w)
    <3>1. run'[w].todo = run[w].todo
      BY <1>0, <2>4 DEF RecordFails, RunType
    <3> QED BY <2>1, <2>4, <3>1, FetchingUnmarked
  <2> QED BY <1>8, <2>3, <2>4 DEF Record, RecordFails
<1>9. ASSUME NEW w \in Slots, RecordFailure(w) PROVE Unmarked' /\ Stays
  <2> DEFINE row == Excuse(check[Current(w).doc], run[w])
  <2>1. /\ run[w].pc = "failed" /\ done(w)
        /\ check' = [check EXCEPT ![Current(w).doc] = row]
    BY <1>7, <1>9 DEF RecordFailure
  <2>2. row.verified = check[Current(w).doc].verified
    BY DEF Excuse
  <2> HIDE DEF row
  <2> QED BY <2>1, <2>2, UpdateUnmarked DEF AtWork
<1> QED BY <1>1, <1>2, <1>3, <1>4, <1>5, <1>6, <1>8, <1>9 DEF Next, Step

\* When runs do not overlap, a verified document stays verified while its
\* commitment stays, whatever its host serves and whichever calls fail.
THEOREM VerifiedForGood == ASSUME Alone PROVE Spec => VerifiedStays
<1>1. Init => Unmarked
  BY DEF Init, Unmarked, IdleRun
<1>2. AInv /\ Unmarked /\ [Next]_vars => Unmarked' /\ Stays
  BY NextUnmarked
<1>3. Spec => []AInv
  BY ChecksInductive
<1>4. AInv /\ Unmarked /\ [Next]_vars =>
          [\A d \in Docs : check[d].verified /\ check'[d].expects = check[d].expects
                             => check'[d].verified]_vars
  BY <1>2 DEF Stays
<1> QED BY <1>1, <1>2, <1>3, <1>4, PTL DEF Spec, VerifiedStays

-----------------------------------------------------------------------------
(* How many requests a run makes: those of the documents it has finished,  *)
(* at most MaxRedirects + 1 for each, and those of the one at hand.        *)

Whole(r) == r = [pc |-> r.pc, todo |-> r.todo, hops |-> r.hops, asked |-> r.asked,
                 size |-> r.size, body |-> r.body, age |-> r.age]

\* Documents taken, one entry for each.
Distinct(todo) == /\ \A t \in todo : t.doc \in Docs
                  /\ \A t, u \in todo : t.doc = u.doc => t = u

Counted(r) ==
    /\ Whole(r) /\ Distinct(r.todo) /\ r.pc \in Control
    /\ r.size \in 0 .. MaxBytes /\ r.hops \in 0 .. MaxRedirects /\ r.asked \in Nat
    /\ IF r.pc \in AtWork
       THEN /\ IsFiniteSet(r.todo) /\ Cardinality(r.todo) \in 1 .. Limit
            /\ r.asked <= (Limit - Cardinality(r.todo)) * (MaxRedirects + 1) + r.hops + 1
       ELSE r.asked = 0

CInv == run = [w \in Slots |-> run[w]] /\ \A w \in Slots : Counted(run[w])

LEMMA DocsFinite == IsFiniteSet(Docs)
<1> DEFINE f == [d \in Docs |-> Rank(d)]
<1>1. \A d \in Docs : /\ d = [task |-> d.task, kind |-> d.kind]
                      /\ d.task \in 1 .. MaxTasks /\ d.kind \in Kind
  BY ArtifactAssumption
<1>2. \A d \in Docs : Rank(d) \in 0 .. 2 * MaxTasks
  BY <1>1, ArtifactAssumption DEF Rank, Kind
<1>3. ASSUME NEW d \in Docs, NEW e \in Docs, Rank(d) = Rank(e)
      PROVE  d.task = e.task /\ d.kind = e.kind
  <2>1. /\ d.task \in 1 .. MaxTasks /\ e.task \in 1 .. MaxTasks
        /\ d.kind \in {"metadata", "result"} /\ e.kind \in {"metadata", "result"}
    BY <1>1 DEF Kind
  <2> QED BY <1>3, <2>1, ArtifactAssumption DEF Rank
<1>4. f \in Injection(Docs, 0 .. 2 * MaxTasks)
  <2>1. \A d, e \in Docs : Rank(d) = Rank(e) => d = e
    BY <1>1, <1>3
  <2> QED BY <1>2, <2>1 DEF Injection, IsInjective
<1>5. IsFiniteSet(0 .. 2 * MaxTasks)
  BY FS_Interval, ArtifactAssumption
<1> QED BY <1>4, <1>5, FS_Injection

LEMMA BeforeOrders ==
    ASSUME NEW d \in Docs, NEW e \in Docs, d # e
    PROVE  /\ Before(d, e) \/ Before(e, d)
           /\ ~Before(d, d)
           /\ \A c \in Docs : Before(c, d) /\ Before(d, e) => Before(c, e)
<1>1. \A c \in Docs : /\ c = [task |-> c.task, kind |-> c.kind]
                      /\ c.task \in 1 .. MaxTasks /\ c.kind \in Kind
  BY ArtifactAssumption
<1>2. d.task # e.task \/ d.kind # e.kind
  BY <1>1
<1> QED BY <1>1, <1>2, ArtifactAssumption DEF Before, Kind

\* The LIMIT of the SELECT: those with fewer than Limit ahead are at most Limit.
LEMMA TakenLimited ==
    ASSUME NEW w \in Slots
    PROVE  /\ IsFiniteSet(Taken(w)) /\ Cardinality(Taken(w)) \in 0 .. Limit
           /\ Distinct(Taken(w))
<1> DEFINE P == Pending(w)
           ahead(d) == {e \in P : Before(e, d)}
           D == {p \in P : Cardinality(ahead(p)) < Limit}
           f == [d \in D |-> Cardinality(ahead(d))]
           entry == [d \in D |-> [doc |-> d, expects |-> check[d].expects]]
<1>1. P \subseteq Docs /\ IsFiniteSet(P) /\ D \subseteq P
  BY DocsFinite, FS_Subset DEF Pending
<1>2. Taken(w) = {entry[d] : d \in D}
  BY DEF Taken
<1>3. \A d \in P : IsFiniteSet(ahead(d)) /\ Cardinality(ahead(d)) \in Nat
  BY <1>1, FS_Subset, FS_CardinalityType
<1>4. ASSUME NEW d \in P, NEW e \in P, Before(d, e), d # e
      PROVE  Cardinality(ahead(d)) < Cardinality(ahead(e))
  <2>1. ahead(d) \subseteq ahead(e) /\ d \in ahead(e) /\ d \notin ahead(d)
    BY <1>1, <1>4, BeforeOrders
  <2>2. Cardinality(ahead(d)) <= Cardinality(ahead(e))
        /\ Cardinality(ahead(d)) # Cardinality(ahead(e))
    BY <1>3, <2>1, FS_Subset
  <2> QED BY <1>3, <2>2
<1> HIDE DEF P, ahead
<1>5. \A d \in D : Cardinality(ahead(d)) \in 0 .. Limit - 1
  BY <1>1, <1>3, ArtifactAssumption
<1>6. \A d, e \in D : Cardinality(ahead(d)) = Cardinality(ahead(e)) => d = e
  <2>1. SUFFICES ASSUME NEW d \in D, NEW e \in D, d # e,
                        Cardinality(ahead(d)) = Cardinality(ahead(e))
                 PROVE  FALSE
    OBVIOUS
  <2>2. d \in P /\ e \in P /\ d \in Docs /\ e \in Docs
    BY <1>1
  <2>3. Before(d, e) \/ Before(e, d)
    BY <2>1, <2>2, BeforeOrders
  <2> QED BY <1>3, <1>4, <2>1, <2>2, <2>3
<1>7. f \in Injection(D, 0 .. Limit - 1)
  <2> HIDE DEF D
  <2> QED BY <1>5, <1>6 DEF Injection, IsInjective
<1>8. IsFiniteSet(0 .. Limit - 1) /\ Cardinality(0 .. Limit - 1) = Limit
  BY FS_Interval, ArtifactAssumption
<1>9. IsFiniteSet(D) /\ Cardinality(D) <= Limit /\ Cardinality(D) \in Nat
  BY <1>7, <1>8, FS_Injection, FS_CardinalityType
<1> HIDE DEF D
<1>10. entry \in Surjection(D, Taken(w))
  BY <1>2 DEF Surjection
<1>11. IsFiniteSet(Taken(w)) /\ Cardinality(Taken(w)) <= Cardinality(D)
       /\ Cardinality(Taken(w)) \in Nat
  BY <1>9, <1>10, FS_Surjection, FS_CardinalityType
<1>12. Distinct(Taken(w))
  <2>1. D \subseteq Docs
    BY <1>1
  <2> QED BY <1>2, <2>1 DEF Distinct
<1> QED BY <1>9, <1>11, <1>12, ArtifactAssumption

LEMMA Times ==
    ASSUME NEW a \in Nat, NEW b \in Nat, NEW m \in Nat
    PROVE  /\ a * m \in Nat
           /\ (a + 1) * m = a * m + m
           /\ a <= b => a * m <= b * m
OBVIOUS

\* A document more, or the end of the run.
LEMMA GoingOnCounts ==
    ASSUME NEW r, Whole(r), NEW todo, Distinct(todo), IsFiniteSet(todo),
           Cardinality(todo) \in 0 .. Limit, r.asked \in Nat,
           r.asked <= (Limit - Cardinality(todo)) * (MaxRedirects + 1)
    PROVE  Counted(GoOn(r, todo))
<1>1. CASE todo = {}
  <2>1. GoOn(r, todo) = IdleRun
    BY <1>1 DEF GoOn
  <2> QED
    BY <2>1, ArtifactAssumption DEF IdleRun, Counted, Whole, Distinct, AtWork, Control
<1>2. CASE todo # {}
  <2>1. GoOn(r, todo) = [pc |-> "request", todo |-> todo, hops |-> 0, asked |-> r.asked + 1,
                         size |-> 0, body |-> NoHash, age |-> r.age]
    BY <1>2 DEF GoOn, Whole
  <2>2. Cardinality(todo) \in 1 .. Limit
    BY <1>2, FS_EmptySet
  <2>3. (Limit - Cardinality(todo)) * (MaxRedirects + 1) \in Nat
    <3>1. PICK a \in Nat : a = Limit - Cardinality(todo)
      BY <2>2, ArtifactAssumption
    <3>2. MaxRedirects + 1 \in Nat
      BY ArtifactAssumption
    <3> QED BY <3>1, <3>2, Times
  <2> QED
    BY <2>1, <2>2, <2>3, ArtifactAssumption DEF Counted, Whole, AtWork, Control
<1> QED BY <1>1, <1>2

LEMMA CInvStep ==
    ASSUME CInv, NEW w \in Slots, NEW r, Counted(r), run' = [run EXCEPT ![w] = r]
    PROVE  CInv'
<1>1. run' = [v \in Slots |-> run'[v]] /\ \A v \in Slots : run'[v] = IF v = w THEN r ELSE run[v]
  BY DEF CInv
<1>2. \A v \in Slots : Counted(run'[v])
  BY <1>1 DEF CInv
<1> QED BY <1>1, <1>2 DEF CInv

\* What the steps write of a run.
LEMMA WithPc ==
    ASSUME NEW r, Whole(r), NEW x, NEW q, q = [r EXCEPT !.pc = x]
    PROVE  /\ Whole(q) /\ q.pc = x /\ q.todo = r.todo /\ q.hops = r.hops
           /\ q.asked = r.asked /\ q.size = r.size
BY DEF Whole

LEMMA WithHops ==
    ASSUME NEW r, Whole(r), NEW x, NEW q, q = [r EXCEPT !.hops = x]
    PROVE  /\ Whole(q) /\ q.pc = r.pc /\ q.todo = r.todo /\ q.hops = x
           /\ q.asked = r.asked /\ q.size = r.size
BY DEF Whole

LEMMA WithAsked ==
    ASSUME NEW r, Whole(r), NEW x, NEW q, q = [r EXCEPT !.asked = x]
    PROVE  /\ Whole(q) /\ q.pc = r.pc /\ q.todo = r.todo /\ q.hops = r.hops
           /\ q.asked = x /\ q.size = r.size
BY DEF Whole

LEMMA WithSize ==
    ASSUME NEW r, Whole(r), NEW x, NEW q, q = [r EXCEPT !.size = x]
    PROVE  /\ Whole(q) /\ q.pc = r.pc /\ q.todo = r.todo /\ q.hops = r.hops
           /\ q.asked = r.asked /\ q.size = x
BY DEF Whole

LEMMA WithBody ==
    ASSUME NEW r, Whole(r), NEW x, NEW q, q = [r EXCEPT !.body = x]
    PROVE  /\ Whole(q) /\ q.pc = r.pc /\ q.todo = r.todo /\ q.hops = r.hops
           /\ q.asked = r.asked /\ q.size = r.size
BY DEF Whole

LEMMA DoneCounts ==
    ASSUME CInv, NEW w \in Slots, run[w].pc \in {"record", "failed"}, Done(w)
    PROVE  CInv'
<1> DEFINE m == MaxRedirects + 1
<1>1. PICK r : r = run[w]
  OBVIOUS
<1>2. Counted(r) /\ r.pc \in AtWork
  BY <1>1 DEF CInv, AtWork
<1>3. PICK t : t = Current(w)
  OBVIOUS
<1>4. t \in r.todo
  <2>1. r.todo # {} /\ Distinct(r.todo)
    BY <1>2, FS_EmptySet DEF Counted
  <2> QED BY <1>1, <1>3, <2>1, FirstExists DEF Current, Distinct
<1>5. PICK k \in 1 .. Limit : k = Cardinality(r.todo)
  BY <1>2 DEF Counted
<1>6. /\ IsFiniteSet(r.todo \ {t}) /\ Cardinality(r.todo \ {t}) = k - 1
      /\ Distinct(r.todo \ {t})
  BY <1>2, <1>4, <1>5, FS_RemoveElement DEF Counted, Distinct
<1>7. r.asked <= (Limit - (k - 1)) * m
  <2>1. PICK a \in Nat : a = Limit - k
    BY ArtifactAssumption
  <2>2. m \in Nat /\ r.hops <= MaxRedirects /\ r.hops \in Nat /\ r.asked \in Nat
    BY <1>2, ArtifactAssumption DEF Counted
  <2>3. r.asked <= a * m + r.hops + 1
    BY <1>2, <1>5, <2>1 DEF Counted
  <2>4. a * m \in Nat /\ (a + 1) * m = a * m + m
    BY <2>2, Times
  <2>5. r.asked <= (a + 1) * m
    BY <2>2, <2>3, <2>4, ArtifactAssumption
  <2> QED BY <2>1, <2>5, ArtifactAssumption
<1>8. Counted(GoOn(r, r.todo \ {t}))
  BY <1>2, <1>6, <1>7, GoingOnCounts, ArtifactAssumption DEF Counted
<1>9. run' = [run EXCEPT ![w] = GoOn(r, r.todo \ {t})]
  BY <1>1, <1>3 DEF Done, CInv
<1> QED BY <1>8, <1>9, CInvStep

LEMMA FetchingCounts ==
    ASSUME CInv, NEW w \in Slots, run[w].pc \in AtWork,
           NEW r, Whole(r), run' = [run EXCEPT ![w] = r],
           r.todo = run[w].todo, r.pc \in AtWork, r.size \in 0 .. MaxBytes,
           \/ r.hops = run[w].hops /\ r.asked = run[w].asked
           \/ /\ run[w].hops < MaxRedirects
              /\ r.hops = run[w].hops + 1 /\ r.asked = run[w].asked + 1
    PROVE  CInv'
<1>1. Counted(run[w])
  BY DEF CInv
<1>2. PICK n \in Int : n = (Limit - Cardinality(r.todo)) * (MaxRedirects + 1)
  <2>1. Limit - Cardinality(r.todo) \in Int /\ MaxRedirects + 1 \in Int
    BY <1>1, ArtifactAssumption DEF Counted
  <2> QED BY <2>1
<1>3. /\ run[w].asked \in Nat /\ run[w].hops \in 0 .. MaxRedirects
      /\ run[w].asked <= n + run[w].hops + 1
  BY <1>1, <1>2 DEF Counted
<1>4. /\ r.asked \in Nat /\ r.hops \in 0 .. MaxRedirects /\ r.asked <= n + r.hops + 1
  BY <1>3, ArtifactAssumption
<1>5. r.pc \in Control
  BY DEF AtWork, Control
<1>6. Counted(r)
  BY <1>1, <1>2, <1>4, <1>5 DEF Counted
<1> QED BY <1>6, CInvStep

\* A run that has nothing in hand has asked for nothing.
LEMMA BlankCounts ==
    ASSUME NEW pc \in {"idle", "select"}
    PROVE  Counted([pc |-> pc, todo |-> {}, hops |-> 0, asked |-> 0, size |-> 0,
                    body |-> NoHash, age |-> 0])
<1>1. PICK r : r = [pc |-> pc, todo |-> {}, hops |-> 0, asked |-> 0, size |-> 0,
                    body |-> NoHash, age |-> 0]
  OBVIOUS
<1>2. r.pc = pc /\ r.pc \in Control /\ r.pc \notin AtWork
  BY <1>1 DEF Control, AtWork
<1>3. Whole(r) /\ Distinct(r.todo)
  BY <1>1 DEF Whole, Distinct
<1>4. r.size \in 0 .. MaxBytes /\ r.hops \in 0 .. MaxRedirects /\ r.asked = 0
  BY <1>1, ArtifactAssumption
<1>5. Counted(r)
  BY <1>2, <1>3, <1>4 DEF Counted
<1> QED BY <1>1, <1>5

LEMMA NextCounts == CInv /\ [Next]_vars => CInv'
<1> SUFFICES ASSUME CInv, [Next]_vars PROVE CInv'
  OBVIOUS
<1>1. \A w \in Slots : Counted(run[w]) /\ Whole(run[w])
  BY DEF CInv, Counted
<1>2. Counted(IdleRun) /\ Counted([IdleRun EXCEPT !.pc = "select"])
  BY BlankCounts DEF IdleRun
<1>3. CASE run' = run
  BY <1>3 DEF CInv
<1>4. CASE Tick
  <2>1. run' = [w \in Slots |-> IF Running(w) THEN [run[w] EXCEPT !.age = @ + 1] ELSE run[w]]
    BY <1>4 DEF Tick
  <2>2. ASSUME NEW w \in Slots PROVE Counted(run'[w])
    <3>1. PICK r : r = run[w]
      OBVIOUS
    <3>2. Counted(r) /\ Whole(r)
      BY <1>1, <3>1
    <3>3. PICK q : q = [r EXCEPT !.age = @ + 1]
      OBVIOUS
    <3>4. /\ Whole(q) /\ q.pc = r.pc /\ q.todo = r.todo /\ q.hops = r.hops
          /\ q.asked = r.asked /\ q.size = r.size
      BY <3>2, <3>3 DEF Whole
    <3>5. Counted(q)
      BY <3>2, <3>4 DEF Counted
    <3>6. run'[w] \in {r, q}
      BY <2>1, <3>1, <3>3
    <3> QED BY <3>2, <3>5, <3>6
  <2> QED BY <2>1, <2>2 DEF CInv
<1>5. ASSUME NEW w \in Slots, Begin(w) \/ Dies(w) PROVE CInv'
  BY <1>2, <1>5, CInvStep DEF Begin, Dies
<1>6. ASSUME NEW w \in Slots, Select(w) PROVE CInv'
  <2>1. Whole(run[w]) /\ run[w].asked = 0
    BY <1>1, <1>6 DEF Select, Counted, AtWork
  <2>2. Distinct(Taken(w)) /\ IsFiniteSet(Taken(w)) /\ Cardinality(Taken(w)) \in 0 .. Limit
    BY TakenLimited
  <2>3. 0 <= (Limit - Cardinality(Taken(w))) * (MaxRedirects + 1)
    <3>1. PICK a \in Nat : a = Limit - Cardinality(Taken(w))
      BY <2>2, ArtifactAssumption
    <3>2. MaxRedirects + 1 \in Nat
      BY ArtifactAssumption
    <3> QED BY <3>1, <3>2, Times
  <2>4. Counted(GoOn(run[w], Taken(w)))
    BY <2>1, <2>2, <2>3, GoingOnCounts
  <2>5. run' = [run EXCEPT ![w] = GoOn(run[w], Taken(w))]
    BY <1>6 DEF Select, CInv
  <2> QED BY <2>4, <2>5, CInvStep
<1>7. ASSUME NEW w \in Slots, FollowRedirect(w) PROVE CInv'
  <2>1. PICK q : q = [run[w] EXCEPT !.hops = run[w].hops + 1]
    OBVIOUS
  <2>2. PICK r : r = [q EXCEPT !.asked = run[w].asked + 1]
    OBVIOUS
  <2>3. /\ Whole(q) /\ q.pc = run[w].pc /\ q.todo = run[w].todo /\ q.size = run[w].size
        /\ q.hops = run[w].hops + 1
    BY <1>1, <2>1, WithHops
  <2>4. /\ Whole(r) /\ r.pc = run[w].pc /\ r.todo = run[w].todo /\ r.size = run[w].size
        /\ r.hops = run[w].hops + 1 /\ r.asked = run[w].asked + 1
    BY <2>2, <2>3, WithAsked
  <2>5. run' = [run EXCEPT ![w] = [[run[w] EXCEPT !.hops = run[w].hops + 1]
                                   EXCEPT !.asked = run[w].asked + 1]]
    BY <1>7 DEF FollowRedirect, CInv
  <2>6. run' = [run EXCEPT ![w] = r]
    BY <2>1, <2>2, <2>5
  <2>7. run[w].pc = "request" /\ run[w].hops < MaxRedirects /\ r.size \in 0 .. MaxBytes
    BY <1>1, <1>7, <2>4 DEF FollowRedirect, Counted
  <2> QED BY <2>4, <2>6, <2>7, FetchingCounts DEF AtWork
<1>8. ASSUME NEW w \in Slots, run[w].pc \in AtWork, NEW c \in AtWork,
             run' = [run EXCEPT ![w].pc = c]
      PROVE  CInv'
  <2>1. PICK r : r = [run[w] EXCEPT !.pc = c]
    OBVIOUS
  <2>2. /\ Whole(r) /\ r.pc = c /\ r.todo = run[w].todo /\ r.size = run[w].size
        /\ r.hops = run[w].hops /\ r.asked = run[w].asked
    BY <1>1, <2>1, WithPc
  <2>3. run' = [run EXCEPT ![w] = r]
    BY <1>8, <2>1 DEF CInv
  <2>4. r.size \in 0 .. MaxBytes
    BY <1>1, <2>2 DEF Counted
  <2> QED BY <1>8, <2>2, <2>3, <2>4, FetchingCounts
<1>9. ASSUME NEW w \in Slots, Respond(w) \/ GiveUp(w) PROVE CInv'
  BY <1>8, <1>9 DEF Respond, GiveUp, AtWork
<1>10. ASSUME NEW w \in Slots, NEW n \in 1 .. MaxBytes + 1, ReadChunk(w, n) PROVE CInv'
  <2>1. CASE run[w].size + n > MaxBytes
    BY <1>8, <1>10, <2>1 DEF ReadChunk, AtWork
  <2>2. CASE ~(run[w].size + n > MaxBytes)
    <3>1. PICK r : r = [run[w] EXCEPT !.size = run[w].size + n]
      OBVIOUS
    <3>2. /\ Whole(r) /\ r.pc = run[w].pc /\ r.todo = run[w].todo
          /\ r.size = run[w].size + n /\ r.hops = run[w].hops /\ r.asked = run[w].asked
      BY <1>1, <3>1, WithSize
    <3>3. run' = [run EXCEPT ![w] = r] /\ run[w].pc = "body"
      BY <1>10, <2>2, <3>1 DEF ReadChunk, CInv
    <3>4. r.size \in 0 .. MaxBytes
      BY <1>1, <2>2, <3>2, ArtifactAssumption DEF Counted
    <3> QED BY <3>2, <3>3, <3>4, FetchingCounts DEF AtWork
  <2> QED BY <2>1, <2>2
<1>11. ASSUME NEW w \in Slots, EndOfBody(w) PROVE CInv'
  <2>1. PICK c : run' = [run EXCEPT ![w].pc = "record", ![w].body = c]
    BY <1>11 DEF EndOfBody
  <2>2. PICK q : q = [run[w] EXCEPT !.pc = "record"]
    OBVIOUS
  <2>3. PICK r : r = [q EXCEPT !.body = c]
    OBVIOUS
  <2>4. /\ Whole(q) /\ q.pc = "record" /\ q.todo = run[w].todo /\ q.size = run[w].size
        /\ q.hops = run[w].hops /\ q.asked = run[w].asked
    BY <1>1, <2>2, WithPc
  <2>5. /\ Whole(r) /\ r.pc = "record" /\ r.todo = run[w].todo /\ r.size = run[w].size
        /\ r.hops = run[w].hops /\ r.asked = run[w].asked
    BY <2>3, <2>4, WithBody
  <2>6. run' = [run EXCEPT ![w] = [[run[w] EXCEPT !.pc = "record"] EXCEPT !.body = c]]
    BY <2>1 DEF CInv
  <2>7. run' = [run EXCEPT ![w] = r]
    BY <2>2, <2>3, <2>6
  <2>8. r.size \in 0 .. MaxBytes /\ run[w].pc = "body"
    BY <1>1, <1>11, <2>5 DEF Counted, EndOfBody
  <2> QED BY <2>5, <2>7, <2>8, FetchingCounts DEF AtWork
<1>12. ASSUME NEW w \in Slots, Record(w) \/ RecordFailure(w) PROVE CInv'
  BY <1>12, DoneCounts DEF Record, RecordFailure
<1>13. ASSUME NEW w \in Slots, RecordFails(w) PROVE CInv'
  BY <1>8, <1>13 DEF RecordFails, AtWork
<1>14. ASSUME NEW w \in Slots, NEW d \in Docs, NEW c \in Contents, Project(w, d, c) PROVE CInv'
  BY <1>3, <1>14 DEF Project
<1>15. CASE Skip \/ UNCHANGED vars
  BY <1>3, <1>15 DEF Skip, vars
<1> QED
  BY <1>4, <1>5, <1>6, <1>7, <1>9, <1>10, <1>11, <1>12, <1>13, <1>14, <1>15 DEF Next, Step

\* A run of verifyPendingArtifacts makes at most MaxRedirects + 1 requests for each of at
\* most Limit documents and never holds more than MaxBytes of one, whatever hosts answer,
\* calls fail, commitments change and other runs do: for every setting, with no
\* assumption about overlapping.
THEOREM RunsAreBounded == Spec => []RequestsBounded
<1>1. Init => CInv
  <2>1. Counted(IdleRun)
    BY BlankCounts DEF IdleRun
  <2> QED BY <2>1 DEF Init, CInv
<1>2. CInv => RequestsBounded
  <2> SUFFICES ASSUME CInv, NEW w \in Slots
               PROVE  run[w].asked <= Limit * (MaxRedirects + 1) /\ run[w].size <= MaxBytes
    BY DEF RequestsBounded
  <2> DEFINE m == MaxRedirects + 1
  <2>1. Counted(run[w]) /\ m \in Nat
    BY ArtifactAssumption DEF CInv
  <2>2. Limit * m \in Nat
    BY <2>1, Times, ArtifactAssumption
  <2>3. CASE run[w].pc \in AtWork
    <3>1. PICK k \in 1 .. Limit : k = Cardinality(run[w].todo)
      BY <2>1, <2>3 DEF Counted
    <3>2. PICK a \in Nat : a = Limit - k
      BY ArtifactAssumption
    <3>3. run[w].asked <= a * m + run[w].hops + 1
      BY <2>1, <2>3, <3>1, <3>2 DEF Counted
    <3>4. /\ a * m \in Nat /\ (a + 1) * m = a * m + m /\ a + 1 <= Limit
      BY <2>1, <3>2, Times, ArtifactAssumption
    <3>5. (a + 1) * m <= Limit * m
      BY <2>1, <3>2, <3>4, Times, ArtifactAssumption
    <3>6. run[w].hops \in 0 .. MaxRedirects /\ run[w].asked \in Nat
      BY <2>1 DEF Counted
    <3>7. run[w].asked <= a * m + m
      BY <3>3, <3>4, <3>6, ArtifactAssumption
    <3>8. PICK x, y : x = a * m + m /\ y = Limit * m
      OBVIOUS
    <3>9. x \in Int /\ y \in Int /\ x <= y /\ run[w].asked <= x
      BY <2>1, <2>2, <3>4, <3>5, <3>7, <3>8
    <3>10. run[w].asked <= y
      BY <3>6, <3>9
    <3> QED BY <2>1, <3>8, <3>10 DEF Counted
  <2>4. CASE run[w].pc \notin AtWork
    BY <2>1, <2>2, <2>4 DEF Counted
  <2> QED BY <2>3, <2>4
<1> QED BY <1>1, <1>2, NextCounts, PTL DEF Spec
=============================================================================
