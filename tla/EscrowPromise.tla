--------------------------- MODULE EscrowPromise ---------------------------
(***************************************************************************)
(* What the escrow promises its users, without functions, tokens' quirks   *)
(* or callbacks: every deal is funded once and settled once, to one party, *)
(* and the vault always holds what the unsettled deals are worth.          *)
(*                                                                         *)
(* One step is one transaction.  It may move several deals along, because  *)
(* a token callback may accept and submit other tasks inside it, but it    *)
(* funds or settles at most one of them.                                   *)
(***************************************************************************)
EXTENDS Integers

CONSTANTS Ids, Parties, Nobody, MaxAmount

Deal == [stage : {"none", "open", "taken", "delivered", "paid", "refunded"},
         funder : Parties \cup {Nobody}, worker : Parties \cup {Nobody},
         amount : 0 .. MaxAmount]

VARIABLES deals,   \* per id, the deal
          vault    \* tokens the escrow holds

NoDeal == [stage |-> "none", funder |-> Nobody, worker |-> Nobody, amount |-> 0]

Init ==
    /\ deals = [id \in Ids |-> NoDeal]
    /\ vault = 0

(* The moves of one deal that involve no money: someone other than the     *)
(* funder takes it, and the one who took it delivers.                      *)
Taken(d, e) ==
    /\ d.stage = "open" /\ e.stage \in {"taken", "delivered"}
    /\ e.worker \in Parties \ {d.funder}
    /\ e = [d EXCEPT !.stage = e.stage, !.worker = e.worker]

Delivered(d, e) ==
    /\ d.stage = "taken"
    /\ e = [d EXCEPT !.stage = "delivered"]

Works(d, e) == e = d \/ Taken(d, e) \/ Delivered(d, e)

(* The moves with money; delta is what the vault gains. *)
Funded(d, e, delta) ==
    /\ d = NoDeal /\ e.stage = "open" /\ e.funder \in Parties
    /\ e.worker = Nobody /\ e.amount > 0 /\ delta = e.amount

Settled(d, e, delta) ==
    /\ \/ d.stage = "delivered" /\ e = [d EXCEPT !.stage = "paid"]
       \/ d.stage = "open" /\ e = [d EXCEPT !.stage = "refunded"]
    /\ delta = -d.amount

Transaction(id, delta) ==
    /\ \/ Funded(deals[id], deals'[id], delta)
       \/ Settled(deals[id], deals'[id], delta)
    /\ \A other \in Ids \ {id} : Works(deals[other], deals'[other])
    /\ vault' >= vault + delta          \* more if someone donates

Work ==
    /\ \A id \in Ids : Works(deals[id], deals'[id])
    /\ vault' >= vault

Next ==
    \/ Work
    \/ \E id \in Ids, amount \in 1 .. MaxAmount : Transaction(id, amount)
    \/ \E id \in Ids, amount \in 1 .. MaxAmount : Transaction(id, -amount)

Spec == Init /\ [][Next]_<<deals, vault>>
=============================================================================
