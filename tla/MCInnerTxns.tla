---------------------------- MODULE MCInnerTxns ----------------------------
(* Instances of InnerTxns for TLC.                                         *)
EXTENDS InnerTxns

CONSTANTS app, other

Input(type, create) == [type |-> type, create |-> create, sender |-> app]

\* An asset created, a transfer, a type without a handler.
MCInputs == {Input(AssetConfig, TRUE), Input(AssetTransfer, TRUE),
             Input(NoHandler, TRUE)}
=============================================================================
