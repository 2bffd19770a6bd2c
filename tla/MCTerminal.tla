------------------------------ MODULE MCTerminal -------------------------------
(* The terminal on a few sockets. *)
EXTENDS Terminal
===============================================================================
