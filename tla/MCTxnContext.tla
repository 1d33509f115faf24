---------------------------- MODULE MCTxnContext ----------------------------
(* Instances of TxnContext for TLC.                                        *)
EXTENDS TxnContext, TLC

CONSTANTS create, vote, NoOpCall, OptIn

\* create: create="require"; vote: an ordinary method.
MCCreate == [m \in Methods |-> IF m = create THEN "require" ELSE "disallow"]

MCAllowActions == [m \in Methods |-> IF m = create THEN {NoOpCall} ELSE Actions]

\* No overrides, or one that is not the default.
MCNoOverrides == {NoOverrides}
MCOverrides == {o \in Overrides : o.oc # NoOp /\ Unset \in {o.oc, o.app}}

\* Contracts of one class are interchangeable.
MCSymmetry == Permutations(Apps)
=============================================================================
