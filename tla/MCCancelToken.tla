----------------------------- MODULE MCCancelToken -----------------------------
(* Two calls on one token and two threads that cancel it.                  *)
EXTENDS CancelToken

CONSTANTS t1, f1, f2

SharedToken == [f \in Tasks |-> t1]

===============================================================================
