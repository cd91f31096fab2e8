----------------------------- MODULE MCWsSource -----------------------------
(* Small instances of WsSource for TLC. *)
EXTENDS WsSource
=============================================================================
