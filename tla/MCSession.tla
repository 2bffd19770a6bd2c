------------------------------- MODULE MCSession -------------------------------
(* A few users and requests. *)
EXTENDS Session
===============================================================================
