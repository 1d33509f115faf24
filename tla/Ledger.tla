------------------------------ MODULE Ledger ------------------------------
(***************************************************************************)
(* The ids, accounts and assets of LedgerContext                           *)
(* (context_helpers/ledger_context.py), the generators that add to them    *)
(* (value_generators/avm.py), what the models (models/account.py,          *)
(* models/asset.py, models/application.py) and op functions (op/misc.py)   *)
(* read, and the resets of the test context (context.py).                  *)
(*                                                                         *)
(* An operator that reads is a state function. Error stands for a read     *)
(* that raises. Which transaction group is active is the choice of the     *)
(* caller, so what it contributes, the active application and the array of *)
(* foreign ones, are parameters.                                           *)
(***************************************************************************)
EXTENDS Integers, Sequences

CONSTANTS
  FirstId, LastId,  \* 1001; bound: the last id in use
  Addresses,
  Balances,         \* bound: balances of accounts and holdings, 0 among them
  MaxWanted,        \* bound: assets an account is made with
  Missing, Error    \* no value; a read that raises

ASSUME LedgerAssumption ==
  /\ FirstId \in Nat \ {0} /\ LastId \in Nat /\ FirstId <= LastId
  /\ 0 \in Balances /\ Balances \subseteq Nat
  /\ MaxWanted \in Nat
  /\ Missing \notin Nat /\ Error \notin Nat /\ Missing # Error

VARIABLES
  apps, nextApp,     \* keys of _app_data; where _app_id stands
  assets, nextAsset, \* keys of _asset_data; where _asset_id stands
  known,             \* keys of _account_data
  accounts           \* AccountContextData, the defaults for an unknown address

ledgerVars == <<apps, nextApp, assets, nextAsset, known, accounts>>
accountVars == <<assets, nextAsset, known, accounts>>

Ids == FirstId..LastId

Account == [balance  : Balances,
            holdings : [Ids -> Balances \cup {Missing}], \* opted_assets
            apps     : SUBSET Ids]                       \* opted_apps

\* get_empty_account; of its fields only the balance is kept.
EmptyAccount == [balance |-> 0, holdings |-> [x \in Ids |-> Missing], apps |-> {}]

LedgerInit ==
  /\ apps = {} /\ nextApp = FirstId
  /\ assets = {} /\ nextAsset = FirstId
  /\ known = {} /\ accounts = [a \in Addresses |-> EmptyAccount]

-----------------------------------------------------------------------------
(* Ids.                                                                    *)

\* Mutant: the counter does not pass over ids that were given explicitly.
NextCounted(counter, taken) == counter

\* _get_next_app_id, _get_next_asset_id: counted past every id in use.
NextId(counter, taken) ==
  CHOOSE i \in counter..(LastId + 1) :
    /\ i \notin taken
    /\ \A j \in counter..(i - 1) : j \in taken

\* any.application: the id is drawn before the fields are looked at, so a call
\* with a field that does not fit uses it up. Bound: ids up to LastId.
AnyApplication(fits) ==
  LET id == NextId(nextApp, apps)
  IN  /\ id <= LastId
      /\ nextApp' = id + 1
      /\ apps' = IF fits THEN apps \cup {id} ELSE apps
      /\ UNCHANGED accountVars

AnyApplicationWithId(id) ==
  /\ id \notin apps
  /\ apps' = apps \cup {id}
  /\ UNCHANGED <<nextApp, accountVars>>

\* any.asset: the fields are looked at first. An id of 0 is no id.
AnyAsset ==
  LET id == NextId(nextAsset, assets)
  IN  /\ id <= LastId
      /\ nextAsset' = id + 1
      /\ assets' = assets \cup {id}
      /\ UNCHANGED <<apps, nextApp, known, accounts>>

AnyAssetWithId(id) ==
  /\ id \notin assets
  /\ assets' = assets \cup {id}
  /\ UNCHANGED <<apps, nextApp, nextAsset, known, accounts>>

-----------------------------------------------------------------------------
(* Accounts. Looking an address up in _account_data adds it.               *)

Opt(holdings, wanted) ==
  [x \in Ids |-> IF x \in DOMAIN wanted THEN wanted[x] ELSE holdings[x]]

\* The assets of opted_asset_balances before the first that does not exist.
Reached(wanted) == {i \in DOMAIN wanted : \A j \in 1..i : wanted[j].asset \in assets}

Gained(wanted) ==
  [x \in {wanted[i].asset : i \in Reached(wanted)} |->
     wanted[CHOOSE i \in DOMAIN wanted : wanted[i].asset = x].balance]

\* any.account, whatever was known of the address: an asset or application that
\* does not exist raises and leaves what was done before it.
FillAccount(a, balance, wanted, chosen) ==
  /\ known' = known \cup {a}
  /\ accounts' = [accounts EXCEPT ![a] =
       [balance  |-> balance,
        holdings |-> Opt(@.holdings, Gained(wanted)),
        apps     |-> IF Reached(wanted) = DOMAIN wanted /\ chosen \subseteq apps
                     THEN chosen ELSE @.apps]]
  /\ UNCHANGED <<apps, nextApp, assets, nextAsset>>

\* any.account raises for an address that was used before.
AnyAccount(a, balance, wanted, chosen) ==
  a \notin known /\ FillAccount(a, balance, wanted, chosen)

\* Account.data, account_is_funded, Asset.balance, update_account.
ReadAccount(a) ==
  /\ known' = known \cup {a}
  /\ UNCHANGED <<apps, nextApp, assets, nextAsset, accounts>>

UpdateAccount(a, balance) ==
  /\ known' = known \cup {a}
  /\ accounts' = [accounts EXCEPT ![a].balance = balance]
  /\ UNCHANGED <<apps, nextApp, assets, nextAsset>>

\* Mutant: the account is opted in before the asset is looked up.
HoldAnyway(a, x, balance) ==
  /\ known' = known \cup {a}
  /\ accounts' = [accounts EXCEPT ![a].holdings[x] =
       IF balance # Missing THEN balance ELSE IF @ = Missing THEN 0 ELSE @]
  /\ UNCHANGED <<apps, nextApp, assets, nextAsset>>

\* update_asset_holdings. No balance is Missing: the account is opted in only.
\* An unknown asset raises, but only after the account was looked up.
UpdateHoldings(a, x, balance) ==
  /\ known' = known \cup {a}
  /\ accounts' = [accounts EXCEPT ![a].holdings[x] =
       IF x \notin assets THEN @
       ELSE IF balance # Missing THEN balance
       ELSE IF @ = Missing THEN 0 ELSE @]
  /\ UNCHANGED <<apps, nextApp, assets, nextAsset>>

\* AlgopyTestContext.reset: a new ledger, whose ids start again.
LedgerReset ==
  /\ apps' = {} /\ nextApp' = FirstId
  /\ assets' = {} /\ nextAsset' = FirstId
  /\ known' = {} /\ accounts' = [a \in Addresses |-> EmptyAccount]

\* Values of opted_asset_balances, in the order of the dictionary.
Wanted ==
  {w \in UNION {[1..n -> [asset : Ids, balance : Balances]] : n \in 0..MaxWanted} :
     \A i, j \in DOMAIN w : w[i].asset = w[j].asset => i = j}

AccountNext ==
  \/ AnyAsset
  \/ \E id \in Ids : AnyAssetWithId(id)
  \/ \E a \in Addresses :
       \/ \E b \in Balances, w \in Wanted, chosen \in SUBSET Ids : AnyAccount(a, b, w, chosen)
       \/ ReadAccount(a)
       \/ \E b \in Balances : UpdateAccount(a, b)
       \/ \E x \in Ids, b \in Balances \cup {Missing} : UpdateHoldings(a, x, b)

-----------------------------------------------------------------------------
(* Reads: a value and whether it was found.                                *)

NotFound == <<0, FALSE>>

\* resolve_app_index, resolve_asset_index: a small number is an index of the
\* array in the active transaction.
Resolved(ref, array) ==
  IF ref >= FirstId THEN ref
  ELSE IF ref < Len(array) THEN array[ref + 1] ELSE Error

\* _get_app: raises if there is no such application. _get_asset likewise.
FoundIn(ref, array, ids) == LET id == Resolved(ref, array)
                            IN  IF id \in ids THEN id ELSE Error

\* Account.is_opted_in.
HoldsAsset(a, x) == accounts[a].holdings[x] # Missing
OptedInApp(a, app) == app \in accounts[a].apps

\* Asset.balance, and frozen: never asks whether the asset exists.
AssetBalance(a, x) == IF HoldsAsset(a, x) THEN accounts[a].holdings[x] ELSE Error

\* op.AssetHoldingGet.
AssetHoldingGet(a, ref, array) ==
  LET x == FoundIn(ref, array, assets)
  IN  IF x = Error THEN NotFound
      ELSE IF HoldsAsset(a, x) THEN <<accounts[a].holdings[x], TRUE>> ELSE NotFound

\* op.AssetParamsGet, op.AppParamsGet, for any parameter: the one of the id.
AssetParamsGet(ref, array) ==
  LET x == FoundIn(ref, array, assets) IN IF x = Error THEN NotFound ELSE <<x, TRUE>>

AppParamsGet(ref, array) ==
  LET app == FoundIn(ref, array, apps) IN IF app = Error THEN NotFound ELSE <<app, TRUE>>

\* op.AcctParamsGet, for any field: an account without a balance is not found.
AcctParamsGet(a) == <<accounts[a].balance, accounts[a].balance # 0>>

AccountIsFunded(a) == accounts[a].balance > 0

\* op.app_opted_in.
AppOptedIn(a, ref, array) ==
  LET app == FoundIn(ref, array, apps)
  IN  IF app = Error THEN Error ELSE OptedInApp(a, app)

-----------------------------------------------------------------------------
(* Properties.                                                             *)

LedgerTypeOK ==
  /\ apps \subseteq Ids /\ assets \subseteq Ids
  /\ nextApp \in FirstId..(LastId + 1) /\ nextAsset \in FirstId..(LastId + 1)
  /\ known \subseteq Addresses
  /\ accounts \in [Addresses -> Account]

\* Every way to ask about a holding gives one answer, though Asset.balance looks
\* at the account alone (models/asset.py:32) and op.AssetHoldingGet at the asset
\* first (op/misc.py:318): nothing ever opts an account in to what does not exist.
HoldingsAgree ==
  \A a \in Addresses, x \in Ids :
    /\ HoldsAsset(a, x) => AssetParamsGet(x, <<>>) = <<x, TRUE>>
    /\ AssetHoldingGet(a, x, <<>>) =
         (IF AssetBalance(a, x) = Error THEN NotFound ELSE <<AssetBalance(a, x), TRUE>>)
    /\ AssetHoldingGet(a, 0, <<x>>) = AssetHoldingGet(a, x, <<>>)
    /\ OptedInApp(a, x) => /\ AppParamsGet(x, <<>>) = <<x, TRUE>>
                           /\ AppOptedIn(a, x, <<>>) = TRUE
                           /\ AppOptedIn(a, 0, <<x>>) = TRUE
    /\ AcctParamsGet(a)[2] = AccountIsFunded(a)

\* Until the context is reset nothing opts an account out again: making an
\* account that was used before, or one that fails half way, loses no opt-in.
OptInsKept ==
  [][known' # {} =>
       \A a \in Addresses :
         /\ accounts[a].apps \subseteq accounts'[a].apps
         /\ \A x \in Ids : accounts[a].holdings[x] # Missing
                             => accounts'[a].holdings[x] # Missing]_ledgerVars
=============================================================================
