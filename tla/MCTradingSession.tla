-------------------------- MODULE MCTradingSession --------------------------
(* Instances of TradingSession for TLC. *)
EXTENDS TradingSession
=============================================================================
