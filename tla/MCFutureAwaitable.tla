-------------------------- MODULE MCFutureAwaitable --------------------------
(* Three suspensions: the worker of the first can still be returning from   *)
(* h.resume() while the second resumes the coroutine.                       *)
EXTENDS FutureAwaitable
=============================================================================
