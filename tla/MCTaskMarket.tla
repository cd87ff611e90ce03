---------------------------- MODULE MCTaskMarket ----------------------------
(* Small instances of TaskMarket for TLC. *)
EXTENDS TaskMarket
=============================================================================
