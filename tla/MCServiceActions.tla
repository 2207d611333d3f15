-------------------------- MODULE MCServiceActions --------------------------
(* Requests are interchangeable.  Once two of them, or one and a rollout,  *)
(* have overlapped, the properties say nothing any more: such states are   *)
(* reached and checked, and not explored further.                          *)
EXTENDS ServiceActions, TLC

HandlerSymmetry == Permutations(Handlers)
Apart == ~overlap
=============================================================================
