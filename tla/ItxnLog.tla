------------------------------ MODULE ItxnLog ------------------------------
(***************************************************************************)
(* What a test may rely on when it looks at TransactionGroup.itxn_groups:  *)
(* the groups submitted so far, in order, that never change, and for every *)
(* transaction in them that created an asset, an asset nothing else in the *)
(* log created.                                                            *)
(***************************************************************************)
EXTENDS Integers, Sequences

CONSTANT MaxGroupSize \* most transactions of a group

VARIABLES
  log,    \* groups of entries: the fields, and the id of the asset created
  assets  \* assets are numbered 1..assets

NoAsset == 0

Created(group) == {group[i].asset : i \in DOMAIN group} \ {NoAsset}

AllCreated == UNION {Created(log[i]) : i \in DOMAIN log}

Init == log = <<>> /\ assets = 0

\* The asset of a transaction that is still to be logged, or never will be.
CreateAsset == assets' = assets + 1 /\ UNCHANGED log

Record(group) ==
  /\ log' = Append(log, group)
  /\ Len(group) <= MaxGroupSize
  /\ \A i, j \in DOMAIN group :
       group[i].asset = group[j].asset /\ group[i].asset # NoAsset => i = j
  /\ Created(group) \subseteq 1..assets
  /\ Created(group) \cap AllCreated = {}
  /\ UNCHANGED assets

Next == CreateAsset \/ (Len(log') > 0 /\ Record(log'[Len(log')]))

Spec == Init /\ [][Next]_<<log, assets>>
=============================================================================
