------------------------------- MODULE ErrorCodes -------------------------------
(***************************************************************************)
(* The codes of an error domain.  A code of the domain is neither success, *)
(* which is 0, nor one of the codes that every callable may report.        *)
(***************************************************************************)
EXTENDS Naturals

CONSTANTS Codes,     \* the codes, with fields, of the error domain
          MaxLost    \* bound on the panics that lose a run

None == "none"
Other == "other"     \* any code that is not of the domain, a trap's too

ASSUME CodesAssumption == Codes \cap {None, Other} = {} /\ MaxLost \in Nat

===============================================================================
