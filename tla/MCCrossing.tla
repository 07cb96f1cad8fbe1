------------------------------- MODULE MCCrossing -------------------------------
(* Argument lists in which arguments that fail come before, between and      *)
(* after arguments that carry references.                                    *)
EXTENDS Crossing, TLC

Borrowing == <<<<"borrow">>, <<"callback">>>>
Owning == <<<<"arc">>, <<"token">>, <<"callback">>>>
Failing == <<<<"token", "reject", "token">>, <<"callback">>>>
NullFirst == <<<<"reject">>, <<"callback">>, <<"token">>>>
Panicking == <<<<"arc">>, <<"panic">>, <<"callback">>>>

All == {Borrowing, Owning, Failing, NullFirst, Panicking}
CallSymmetry == Permutations(Calls)

===============================================================================
