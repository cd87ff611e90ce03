----------------------------- MODULE MCReadApi -----------------------------
(* Small instances of ReadApi for TLC. *)
EXTENDS ReadApi, TLC

CONSTANTS ann, bea    \* a creator and a worker

Ev(b, t, n, a) == [block |-> b, task |-> t, name |-> n, who |-> a]

(* Three tasks; the middle one moves on while the others stay. *)
Moving == <<Ev(1, 1, "TaskCreated", ann), Ev(1, 2, "TaskCreated", ann),
            Ev(2, 2, "TaskAccepted", bea), Ev(3, 3, "TaskCreated", bea),
            Ev(4, 2, "WorkSubmitted", bea)>>
MovingChain == {Moving}

Get(path) == [origin |-> "listed", method |-> "GET", path |-> path, limit |-> <<>>,
              cursor |-> <<>>, id |-> <<>>,
              filter |-> [status |-> "any", who |-> "any", as |-> "worker"]]

ListOf(limit, cursor, status, who, as) ==
    [Get("tasks") EXCEPT !.limit = limit, !.cursor = cursor,
                         !.filter = [status |-> status, who |-> who, as |-> as]]

(* Lists of all, of one status, of one creator and of one worker, with page *)
(* sizes of one and two, and requests that must be refused.                 *)
MCRequests ==
    {Get("protocol"), Get("health"), [Get("other") EXCEPT !.origin = "none"],
     [Get("task") EXCEPT !.id = <<2>>], [Get("task") EXCEPT !.id = <<3>>],
     [Get("task") EXCEPT !.id = <<0>>],
     ListOf(<<>>, <<>>, "any", "any", "worker"), ListOf(<<1>>, <<>>, "any", "any", "worker"),
     ListOf(<<1>>, <<>>, "Open", "any", "worker"), ListOf(<<1>>, <<3>>, "any", ann, "creator"),
     ListOf(<<>>, <<>>, "any", bea, "worker"),
     ListOf(<<3>>, <<>>, "any", "any", "worker"), ListOf(<<1>>, <<0>>, "any", "any", "worker"),
     ListOf(<<>>, <<>>, "invalid", "any", "worker"),
     [Get("tasks") EXCEPT !.origin = "foreign"], [Get("protocol") EXCEPT !.method = "POST"],
     [Get("task") EXCEPT !.method = "OPTIONS", !.id = <<2>>]}
=============================================================================
