--------------------------- MODULE ArtifactChecks ---------------------------
(***************************************************************************)
(* verifyPendingArtifacts of backend/src/indexer.ts with the download of   *)
(* backend/src/artifact.ts, over the table artifact_checks that the event  *)
(* projection of backend/src/database.ts fills.                            *)
(*                                                                         *)
(* It is the step VerifyArtifacts of module Indexer in detail.  With one   *)
(* slot the lease excludes other runs; with two a run has outlived it.     *)
(*                                                                         *)
(* A document is the pair of a task and a kind; a content stands for its   *)
(* bytes, their hash and the uri committed with it.  The clock ticks once  *)
(* a minute and is kept relative: ago is how long ago checked_at is.       *)
(***************************************************************************)
EXTENDS Integers, FiniteSets

CONSTANTS
    Slots,         \* Worker instances that may be checking documents at once
    Docs,          \* documents, records of a task and a kind
    MaxTasks,      \* bound: the last task
    Contents,      \* what a commitment may name
    Garbage,       \* anything else a host may serve
    NoHash,        \* NULL in a column of hashes
    Reliable,      \* documents whose host serves them as committed
    Limit,         \* documents taken per run, four in the code
    BackOff,       \* one hour, in ticks
    RunLimit,      \* longest a run is busy here, in ticks
    MaxRedirects,  \* redirects followed, three in the code
    MaxBytes,      \* ARTIFACT_MAX_BYTES
    MayReplace,    \* whether a commitment may change, by a very deep reorganisation
    MaxFaults      \* bound: failures of the database and deaths of instances

Kind == {"metadata", "result"}

ASSUME ArtifactAssumption ==
    /\ MaxTasks \in Nat /\ Docs \subseteq [task : 1 .. MaxTasks, kind : Kind]
    /\ Reliable \subseteq Docs
    /\ Garbage \notin Contents /\ NoHash \notin Contents \cup {Garbage}
    /\ Limit \in Nat /\ BackOff \in Nat /\ RunLimit \in Nat
    /\ MaxRedirects \in Nat /\ MaxBytes \in Nat /\ MaxFaults \in Nat
    /\ MayReplace \in BOOLEAN

VARIABLES
    check,    \* artifact_checks
    run,      \* the local variables of each run
    fired,    \* whether Cron has fired in this minute
    faults    \* failures so far

vars == <<check, run, fired, faults>>

Never == -1                          \* checked_at IS NULL
AgeCap == BackOff + RunLimit + 1     \* older than this is all the same

\* A row of artifact_checks.  Size, title and description are left out.
CheckRow == [expects : Contents, verified : BOOLEAN, actual : Contents \cup {Garbage, NoHash},
             error : {"none", "mismatch", "failed"}, ago : Never .. AgeCap]

Unchecked(c) == [expects |-> c, verified |-> FALSE, actual |-> NoHash,
                 error |-> "none", ago |-> Never]
NoCheck == Unchecked(NoHash)         \* no row

(* A run: todo are the rows it selected and has not finished, hops the     *)
(* redirects followed for the current one, asked all its requests, size    *)
(* the bytes it holds, body what they turned out to be.                    *)
Work == [doc : Docs, expects : Contents]
Control == {"idle", "select", "request", "body", "record", "failed"}
IdleRun == [pc |-> "idle", todo |-> {}, hops |-> 0, asked |-> 0, size |-> 0,
            body |-> NoHash, age |-> 0]

Init ==
    /\ check = [d \in Docs |-> NoCheck]
    /\ run = [w \in Slots |-> IdleRun]
    /\ fired = FALSE /\ faults = 0

Present(d) == check[d] # NoCheck
Running(w) == run[w].pc # "idle"

-----------------------------------------------------------------------------
(* The event projection, the clock and Cron *)

BadUpsert(row, c) == [row EXCEPT !.expects = c]      \* the old verdict stays

\* ON CONFLICT DO UPDATE: a verdict is kept only for the commitment it is about.
Upsert(row, c) ==
    IF row = NoCheck THEN Unchecked(c)
    ELSE IF row.expects = c THEN row
    ELSE [row EXCEPT !.expects = c, !.verified = FALSE, !.ago = Never]

\* An instance that is not checking documents writes a chunk with the event that
\* commits d to c, for the first time or again.
Project(w, d, c) ==
    /\ ~Running(w)
    /\ \/ ~Present(d)
       \/ check[d].expects = c
       \/ MayReplace
    /\ d.kind = "result" => \A e \in Docs : e.task = d.task /\ e.kind = "metadata" => Present(e)
    /\ check' = [check EXCEPT ![d] = Upsert(@, c)]
    /\ UNCHANGED <<run, fired, faults>>

Older(row) ==
    [row EXCEPT !.ago = IF @ = Never \/ @ = AgeCap THEN @ ELSE @ + 1]

\* A minute passes; Cron has fired in it.
Tick ==
    /\ fired
    /\ \A w \in Slots : Running(w) => run[w].age < RunLimit
    /\ check' = [d \in Docs |-> Older(check[d])]
    /\ run' = [w \in Slots |-> IF Running(w) THEN [run[w] EXCEPT !.age = @ + 1] ELSE run[w]]
    /\ fired' = FALSE
    /\ UNCHANGED faults

\* The run that Cron starts comes to the check of documents and reads the clock.
Begin(w) ==
    /\ ~fired
    /\ ~Running(w)
    /\ run' = [run EXCEPT ![w] = [IdleRun EXCEPT !.pc = "select"]]
    /\ fired' = TRUE
    /\ UNCHANGED <<check, faults>>

\* The run that Cron starts finds the lease taken.
Skip ==
    /\ ~fired
    /\ \A w \in Slots : Running(w)
    /\ fired' = TRUE
    /\ UNCHANGED <<check, run, faults>>

-----------------------------------------------------------------------------
(* Which documents are taken: ORDER BY task_id DESC, kind ASC LIMIT 4 *)

Before(d, e) ==
    \/ d.task > e.task
    \/ d.task = e.task /\ d.kind = "metadata" /\ e.kind = "result"

BadDue(row, age) == TRUE                             \* no back-off
Due(row, age) == row.ago = Never \/ row.ago > BackOff + age

BadPending(w) ==                                     \* verified ones again
    {d \in Docs : Present(d) /\ Due(check[d], run[w].age)}
Pending(w) ==
    {d \in Docs : Present(d) /\ ~check[d].verified /\ Due(check[d], run[w].age)}

Taken(w) ==
    LET ahead(d) == {e \in Pending(w) : Before(e, d)}
    IN {[doc |-> d, expects |-> check[d].expects] :
            d \in {p \in Pending(w) : Cardinality(ahead(p)) < Limit}}

\* The document at hand is the first of todo.
Current(w) ==
    CHOOSE t \in run[w].todo : \A u \in run[w].todo : u = t \/ Before(t.doc, u.doc)

\* The run r goes on to the documents in todo, or is done.
GoOn(r, todo) ==
    IF todo = {} THEN IdleRun
    ELSE [r EXCEPT !.pc = "request", !.todo = todo, !.hops = 0, !.asked = @ + 1,
                   !.size = 0, !.body = NoHash]

Select(w) ==
    /\ run[w].pc = "select"
    /\ run' = [run EXCEPT ![w] = GoOn(@, Taken(w))]
    /\ UNCHANGED <<check, fired, faults>>

-----------------------------------------------------------------------------
(* fetchAndVerifyArtifact *)

BadFollowRedirect(w) ==                              \* off by one
    /\ run[w].pc = "request"
    /\ run[w].hops <= MaxRedirects
    /\ run' = [run EXCEPT ![w].hops = @ + 1, ![w].asked = @ + 1]
    /\ UNCHANGED <<check, fired, faults>>

\* A redirect to an allowed host.
FollowRedirect(w) ==
    /\ run[w].pc = "request"
    /\ run[w].hops < MaxRedirects
    /\ run' = [run EXCEPT ![w].hops = @ + 1, ![w].asked = @ + 1]
    /\ UNCHANGED <<check, fired, faults>>

\* A successful answer whose declared length, if any, is not too long.
Respond(w) ==
    /\ run[w].pc = "request"
    /\ run' = [run EXCEPT ![w].pc = "body"]
    /\ UNCHANGED <<check, fired, faults>>

\* One turn of the loop of readBoundedBytes, n bytes of the stream.
ReadChunk(w, n) ==
    /\ run[w].pc = "body"
    /\ IF run[w].size + n > MaxBytes
       THEN /\ Current(w).doc \notin Reliable
            /\ run' = [run EXCEPT ![w].pc = "failed"]
       ELSE run' = [run EXCEPT ![w].size = @ + n]
    /\ UNCHANGED <<check, fired, faults>>

\* The stream ends; the bytes are hashed.
EndOfBody(w) ==
    /\ run[w].pc = "body"
    /\ \E c \in IF Current(w).doc \in Reliable THEN {Current(w).expects}
                ELSE Contents \cup {Garbage} :
           run' = [run EXCEPT ![w].pc = "record", ![w].body = c]
    /\ UNCHANGED <<check, fired, faults>>

\* An unsupported URI, a redirect too many or to a foreign host, a status that is
\* not a success, a declared length too long, a broken connection, the timeout.
GiveUp(w) ==
    /\ run[w].pc \in {"request", "body"}
    /\ Current(w).doc \notin Reliable
    /\ run' = [run EXCEPT ![w].pc = "failed"]
    /\ UNCHANGED <<check, fired, faults>>

-----------------------------------------------------------------------------
(* The two UPDATEs, each by task and kind only *)

Verdict(row, r, expects) ==
    [row EXCEPT !.verified = (r.body = expects), !.actual = r.body,
                !.error = IF r.body = expects THEN "none" ELSE "mismatch", !.ago = r.age]

Excuse(row, r) == [row EXCEPT !.error = "failed", !.ago = r.age]

Done(w) == run' = [run EXCEPT ![w] = GoOn(@, run[w].todo \ {Current(w)})]

Record(w) ==
    /\ run[w].pc = "record"
    /\ check' = [check EXCEPT ![Current(w).doc] = Verdict(@, run[w], Current(w).expects)]
    /\ Done(w)
    /\ UNCHANGED <<fired, faults>>

RecordFailure(w) ==
    /\ run[w].pc = "failed"
    /\ check' = [check EXCEPT ![Current(w).doc] = Excuse(@, run[w])]
    /\ Done(w)
    /\ UNCHANGED <<fired, faults>>

\* The first UPDATE fails, or takes effect and its answer is lost: either way the
\* catch block records a failure.
RecordFails(w) ==
    /\ faults < MaxFaults /\ faults' = faults + 1
    /\ run[w].pc = "record"
    /\ \/ UNCHANGED check
       \/ check' = [check EXCEPT ![Current(w).doc] = Verdict(@, run[w], Current(w).expects)]
    /\ run' = [run EXCEPT ![w].pc = "failed"]
    /\ UNCHANGED fired

\* The instance dies, or the SELECT or the second UPDATE fails and ends the run.
Dies(w) ==
    /\ faults < MaxFaults /\ faults' = faults + 1
    /\ Running(w)
    /\ run' = [run EXCEPT ![w] = IdleRun]
    /\ UNCHANGED <<check, fired>>

-----------------------------------------------------------------------------
Step(w) ==
    \/ Select(w) \/ FollowRedirect(w) \/ Respond(w) \/ EndOfBody(w) \/ GiveUp(w)
    \/ \E n \in 1 .. MaxBytes + 1 : ReadChunk(w, n)
    \/ Record(w) \/ RecordFailure(w)

Next ==
    \/ Tick
    \/ Skip
    \/ \E w \in Slots :
        \/ \E d \in Docs, c \in Contents : Project(w, d, c)
        \/ Begin(w) \/ Step(w) \/ RecordFails(w) \/ Dies(w)

Spec == Init /\ [][Next]_vars

(* Cron fires every minute, the lease comes free, what was started goes on *)
(* and a host that neither answers nor fails is cut off by the timeout.    *)
FairSpec ==
    /\ Spec
    /\ WF_vars(Tick) /\ WF_vars(Skip)
    /\ \A w \in Slots : WF_vars(Begin(w)) /\ WF_vars(Step(w))

-----------------------------------------------------------------------------
RunType == [pc : Control, todo : SUBSET Work, hops : Nat, asked : Nat, size : Nat,
            body : Contents \cup {Garbage, NoHash}, age : 0 .. RunLimit]

\* The table and the runs' variables have their types.
TypeOK ==
    /\ check \in [Docs -> CheckRow \cup {NoCheck}]
    /\ run \in [Slots -> RunType]
    /\ \A w \in Slots :
        /\ run[w].pc \in {"request", "body", "record", "failed"} => run[w].todo # {}
        /\ \A t, u \in run[w].todo : t.doc = u.doc => t = u
    /\ fired \in BOOLEAN /\ faults \in Nat

\* A verdict always belongs to the commitment beside it, although the UPDATE names
\* only task and kind, the projection may have replaced the commitment, and answers
\* of overlapping runs arrive in any order: bytes of a verified document have the
\* committed hash, those of a mismatch another, and an unchecked one is not verified.
VerdictFits ==
    \A d \in Docs : Present(d) =>
        /\ check[d].verified => check[d].actual = check[d].expects
        /\ check[d].ago = Never => ~check[d].verified
        /\ check[d].ago # Never /\ check[d].error = "none" => check[d].verified
        /\ check[d].ago # Never /\ check[d].error = "mismatch" =>
               check[d].actual # check[d].expects

\* A verified document stays verified while its commitment stays, whatever its
\* host serves later and whichever calls fail: it is not even asked for again.
VerifiedStays ==
    [][\A d \in Docs : check[d].verified /\ check'[d].expects = check[d].expects
                         => check'[d].verified]_vars

\* A run makes at most four requests for each of at most four documents and never
\* holds more than ARTIFACT_MAX_BYTES (backend/README.md:62 and :67).
RequestsBounded ==
    \A w \in Slots : /\ run[w].asked <= Limit * (MaxRedirects + 1)
                     /\ run[w].size <= MaxBytes

(* From some time on no commitment is replaced. *)
Settles == <>[][\A d \in Docs : Present(d) => check'[d].expects = check[d].expects]_vars

\* A document whose host serves it is eventually verified, however often newer
\* documents, which come first in every run, fail and fall due again.
ServedIsVerified == Settles => \A d \in Reliable : Present(d) ~> check[d].verified
=============================================================================
