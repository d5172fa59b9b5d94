------------------------------- MODULE MCScope -------------------------------
(***************************************************************************)
(* The scope on its own, for what it does not do: with a thread as its     *)
(* owner (MCScopeAdd.cfg), and with a coroutine (MCScopeCoroutine.cfg).    *)
(***************************************************************************)
EXTENDS Scope
=============================================================================
