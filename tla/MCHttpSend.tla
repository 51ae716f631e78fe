------------------------------ MODULE MCHttpSend ------------------------------
(* Small instances of HttpSend for TLC. *)
EXTENDS HttpSend
=============================================================================
