------------------------------ MODULE MCManaged ------------------------------
(* Requests are interchangeable.  Once requests have overlapped, a crash   *)
(* counts as one of the MaxOps requests: what goes beyond them is reached  *)
(* and checked, and not explored further.                                  *)
EXTENDS ManagedServices, TLC

HandlerSymmetry == Permutations(Handlers)
RaceOrCrash == raced => ops + crashes <= MaxOps
=============================================================================
