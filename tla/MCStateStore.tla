--------------------------- MODULE MCStateStore ---------------------------
EXTENDS StateStore

CONSTANTS alice, blob

OneAddress == {alice}
OneLetter == {"a"}
Numbers == {0}
OneBlob == {blob}
OnlyNumbers == {Numbers}

\* Accounts and assets share nothing with state but the ids of applications: a
\* behaviour is followed while it has touched one of the two.
OneSide ==
  \/ known = {} /\ assets = {} /\ nextAsset = FirstId
  \/ held = NoObject /\ Entries = {}
=============================================================================
