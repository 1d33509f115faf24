------------------------- MODULE StateStoreProofs -------------------------
(* Proofs about the ledger and the state of applications, for every number *)
(* of ids, every set of addresses and keys, and programs of any length.    *)
EXTENDS StateStore, SequenceTheorems, WellFoundedInduction, TLAPS

-----------------------------------------------------------------------------
(* Ids.                                                                    *)

LEMMA IdsAreNumbers ==
  /\ FirstId \in Nat /\ LastId \in Nat /\ FirstId \in Ids
  /\ \A x \in Ids : x \in Nat /\ x >= FirstId /\ x > 0
BY LedgerAssumption DEF Ids

\* The id that is counted to is a new one, and the counter only goes up.
LEMMA NextIdIsFree ==
  ASSUME NEW counter \in FirstId..(LastId + 1), NEW taken \in SUBSET Ids
  PROVE  /\ NextId(counter, taken) \in counter..(LastId + 1)
         /\ NextId(counter, taken) \notin taken
<1> DEFINE free == {i \in counter..(LastId + 1) : i \notin taken}
<1>1. LastId + 1 \in free /\ free \subseteq Nat
  BY IdsAreNumbers DEF Ids
<1>2. PICK i \in free : \A j \in free : ~(<<j, i>> \in OpToRel(<, Nat))
  BY <1>1, WFMin, NatLessThanWellFounded
<1>3. \A j \in counter..(i - 1) : j \in taken
  <2> SUFFICES ASSUME NEW j \in counter..(i - 1), j \notin taken PROVE FALSE
    OBVIOUS
  <2>1. j \in free /\ j < i
    BY <1>1, IdsAreNumbers
  <2>2. <<j, i>> \in OpToRel(<, Nat)
    BY <1>1, <2>1 DEF OpToRel
  <2> QED
    BY <1>2, <2>1, <2>2
<1> QED
  BY <1>3 DEF NextId

-----------------------------------------------------------------------------
(* The inductive invariant. Nobody is opted in to what does not exist, an  *)
(* address that was never looked up has the defaults, an application that  *)
(* does not exist has no state, and only global state waits for a key.     *)

OptedInv ==
  \A a \in Addresses :
    /\ accounts[a].apps \subseteq apps
    /\ \A x \in Ids : accounts[a].holdings[x] # Missing => x \in assets

UnknownInv == \A a \in Addresses \ known : accounts[a] = EmptyAccount

NoStateInv == \A a \in Ids \ apps : store[a] = NoState

PendingInv ==
  held # NoObject /\ held.pending # Missing => held.kind = "GlobalState"

IInv == TypeOK /\ OptedInv /\ UnknownInv /\ NoStateInv /\ PendingInv

LEMMA EmptyAccountType == EmptyAccount \in Account /\ EmptyAccount.apps = {}
BY LedgerAssumption DEF EmptyAccount, Account

LEMMA NoStateType == NoState \in [Slots -> Values \cup {Missing}]
BY DEF NoState

LEMMA InitInv == Init => IInv
<1> SUFFICES ASSUME Init PROVE IInv
  OBVIOUS
<1> USE DEF Init, LedgerInit
<1>1. LedgerTypeOK
  BY IdsAreNumbers, EmptyAccountType, LedgerAssumption DEF LedgerTypeOK
<1>2. TypeOK
  BY <1>1, NoStateType DEF TypeOK
<1>3. OptedInv
  BY EmptyAccountType DEF OptedInv, EmptyAccount
<1>4. UnknownInv /\ NoStateInv /\ PendingInv
  BY DEF UnknownInv, NoStateInv, PendingInv
<1> QED
  BY <1>2, <1>3, <1>4 DEF IInv

-----------------------------------------------------------------------------
(* Accounts.                                                               *)

OptedHoldings == [Ids -> Balances \cup {Missing}]

LEMMA WantedType ==
  ASSUME NEW w \in Wanted, NEW i \in DOMAIN w
  PROVE  w[i].asset \in Ids /\ w[i].balance \in Balances /\ i \in 1..i
<1>1. PICK n \in 0..MaxWanted : w \in [1..n -> [asset : Ids, balance : Balances]]
  BY DEF Wanted
<1>2. i \in 1..n /\ n \in Nat
  BY <1>1, LedgerAssumption
<1> QED
  BY <1>1, <1>2

LEMMA GainedType ==
  ASSUME NEW w \in Wanted, NEW x \in DOMAIN Gained(w)
  PROVE  x \in Ids /\ x \in assets /\ Gained(w)[x] \in Balances
<1>1. PICK i \in Reached(w) : x = w[i].asset
  BY DEF Gained
<1>2. i \in DOMAIN w /\ x \in Ids
  BY <1>1, WantedType DEF Reached
<1>3. x \in assets
  BY <1>1, <1>2, WantedType DEF Reached
<1>4. Gained(w)[x] = w[CHOOSE j \in DOMAIN w : w[j].asset = x].balance
  BY DEF Gained
<1>5. PICK j \in DOMAIN w : Gained(w)[x] = w[j].balance
  BY <1>1, <1>2, <1>4
<1> QED
  BY <1>2, <1>3, <1>5, WantedType

\* What the four operations on accounts do to one of them.
AccountStep(a, new) ==
  /\ known' = known \cup {a}
  /\ accounts' = [accounts EXCEPT ![a] = new]
  /\ UNCHANGED <<apps, nextApp, assets, nextAsset>>

LEMMA FillAccountStep ==
  ASSUME LedgerTypeOK, OptedInv, NEW a \in Addresses, NEW b \in Balances, NEW w \in Wanted,
         NEW chosen \in SUBSET Ids, FillAccount(a, b, w, chosen)
  PROVE  \E new \in Account :
           /\ AccountStep(a, new)
           /\ new.apps \subseteq apps
           /\ \A x \in Ids : new.holdings[x] # Missing => x \in assets
<1> DEFINE h == Opt(accounts[a].holdings, Gained(w))
           c == IF Reached(w) = DOMAIN w /\ chosen \subseteq apps
                THEN chosen ELSE accounts[a].apps
           new == [balance |-> b, holdings |-> h, apps |-> c]
<1>1. accounts[a] \in Account /\ apps \subseteq Ids
  BY DEF LedgerTypeOK
<1>2. h \in OptedHoldings
  <2>1. ASSUME NEW x \in Ids
        PROVE  (IF x \in DOMAIN Gained(w) THEN Gained(w)[x] ELSE accounts[a].holdings[x])
                 \in Balances \cup {Missing}
    BY <1>1, GainedType DEF Account
  <2> QED
    BY <2>1 DEF Opt, OptedHoldings
<1>3. \A x \in Ids : h[x] # Missing => x \in assets
  BY GainedType DEF Opt, OptedInv
<1>4. c \subseteq apps
  BY DEF OptedInv
<1>5. AccountStep(a, new)
  <2> HIDE DEF h, c
  <2>1. accounts' = [accounts EXCEPT ![a] = new]
    BY DEF FillAccount, h, c
  <2> QED
    BY <2>1 DEF FillAccount, AccountStep
<1>6. new \in Account
  <2> HIDE DEF h, c
  <2> QED
    BY <1>1, <1>2, <1>4 DEF Account, OptedHoldings
<1> HIDE DEF h, c
<1>7. new.apps = c /\ new.holdings = h
  OBVIOUS
<1> QED
  BY <1>3, <1>4, <1>5, <1>6, <1>7

LEMMA UpdateAccountStep ==
  ASSUME LedgerTypeOK, NEW a \in Addresses, NEW b \in Balances, UpdateAccount(a, b)
  PROVE  \E new \in Account :
           /\ AccountStep(a, new)
           /\ new.apps = accounts[a].apps /\ new.holdings = accounts[a].holdings
<1> DEFINE new == [accounts[a] EXCEPT !.balance = b]
<1>1. accounts[a] \in Account
  BY DEF LedgerTypeOK
<1>2. new \in Account /\ new.apps = accounts[a].apps /\ new.holdings = accounts[a].holdings
  BY <1>1 DEF Account
<1>3. AccountStep(a, new)
  BY DEF UpdateAccount, AccountStep
<1> QED
  BY <1>2, <1>3

LEMMA UpdateHoldingsStep ==
  ASSUME LedgerTypeOK, NEW a \in Addresses, NEW x \in Ids, NEW b \in Balances \cup {Missing},
         UpdateHoldings(a, x, b)
  PROVE  \E new \in Account :
           /\ AccountStep(a, new)
           /\ new.apps = accounts[a].apps
           /\ \A y \in Ids : y # x => new.holdings[y] = accounts[a].holdings[y]
           /\ x \in assets => new.holdings[x] # Missing
           /\ x \notin assets => new.holdings[x] = accounts[a].holdings[x]
<1> DEFINE old == accounts[a].holdings[x]
           v == IF x \notin assets THEN old
                ELSE IF b # Missing THEN b ELSE IF old = Missing THEN 0 ELSE old
           new == [accounts[a] EXCEPT !.holdings[x] = v]
<1>1. accounts[a] \in Account /\ accounts[a].holdings \in OptedHoldings
  BY DEF LedgerTypeOK, Account, OptedHoldings
<1>2. /\ v \in Balances \cup {Missing}
      /\ x \in assets => v # Missing
      /\ x \notin assets => v = old
  BY <1>1, LedgerAssumption DEF OptedHoldings
<1>3. accounts' = [accounts EXCEPT ![a] = new]
  BY DEF UpdateHoldings
<1> HIDE DEF v
<1>4. /\ new \in Account /\ new.apps = accounts[a].apps /\ new.holdings[x] = v
      /\ \A y \in Ids : y # x => new.holdings[y] = accounts[a].holdings[y]
  BY <1>1, <1>2 DEF Account, OptedHoldings
<1>5. AccountStep(a, new)
  BY <1>3 DEF UpdateHoldings, AccountStep
<1> QED
  BY <1>2, <1>4, <1>5

\* Every step of the accounts and assets, as one of five kinds.
LEMMA AccountEffect ==
  ASSUME LedgerTypeOK, OptedInv, UnknownInv, AccountNext
  PROVE  \/ \E id \in Ids : /\ assets' = assets \cup {id}
                            /\ nextAsset' \in FirstId..(LastId + 1)
                            /\ UNCHANGED <<apps, nextApp, known, accounts>>
         \/ \E a \in Addresses, new \in Account :
              /\ AccountStep(a, new)
              /\ new.apps \subseteq apps
              /\ \A x \in Ids : new.holdings[x] # Missing => x \in assets
              /\ accounts[a].apps \subseteq new.apps
              /\ \A x \in Ids : accounts[a].holdings[x] # Missing => new.holdings[x] # Missing
         \/ \E a \in Addresses : /\ known' = known \cup {a}
                                 /\ UNCHANGED <<apps, nextApp, assets, nextAsset, accounts>>
<1> DEFINE Made == \E id \in Ids : /\ assets' = assets \cup {id}
                                   /\ nextAsset' \in FirstId..(LastId + 1)
                                   /\ UNCHANGED <<apps, nextApp, known, accounts>>
           Good(a, new) == /\ new.apps \subseteq apps
                           /\ \A x \in Ids : new.holdings[x] # Missing => x \in assets
                           /\ accounts[a].apps \subseteq new.apps
                           /\ \A x \in Ids : accounts[a].holdings[x] # Missing
                                               => new.holdings[x] # Missing
           Changed == \E a \in Addresses, new \in Account : AccountStep(a, new) /\ Good(a, new)
           Read == \E a \in Addresses :
                     /\ known' = known \cup {a}
                     /\ UNCHANGED <<apps, nextApp, assets, nextAsset, accounts>>
<1>1. CASE AnyAsset
  <2> DEFINE id == NextId(nextAsset, assets)
  <2>1. id \in nextAsset..(LastId + 1) /\ nextAsset \in FirstId..(LastId + 1)
    BY NextIdIsFree DEF LedgerTypeOK
  <2>2. /\ id <= LastId /\ nextAsset' = id + 1 /\ assets' = assets \cup {id}
        /\ UNCHANGED <<apps, nextApp, known, accounts>>
    BY <1>1 DEF AnyAsset
  <2> HIDE DEF id
  <2>3. id \in Ids /\ nextAsset' \in FirstId..(LastId + 1)
    BY <2>1, <2>2, LedgerAssumption DEF Ids
  <2>4. Made
    BY <2>2, <2>3
  <2> QED
    BY <2>4
<1>2. CASE \E id \in Ids : AnyAssetWithId(id)
  BY <1>2 DEF AnyAssetWithId, LedgerTypeOK
<1>3. ASSUME NEW a \in Addresses, NEW b \in Balances, NEW w \in Wanted,
             NEW chosen \in SUBSET Ids, AnyAccount(a, b, w, chosen)
      PROVE  Changed
  <2>1. a \notin known /\ FillAccount(a, b, w, chosen)
    BY <1>3 DEF AnyAccount
  <2>2. PICK new \in Account :
          /\ AccountStep(a, new)
          /\ new.apps \subseteq apps
          /\ \A x \in Ids : new.holdings[x] # Missing => x \in assets
    BY <2>1, FillAccountStep
  <2>3. accounts[a].apps = {} /\ \A x \in Ids : accounts[a].holdings[x] = Missing
    BY <2>1 DEF UnknownInv, EmptyAccount
  <2>4. Good(a, new)
    BY <2>2, <2>3
  <2> QED
    BY <2>2, <2>4
<1>4. ASSUME NEW a \in Addresses, ReadAccount(a) PROVE Read
  BY <1>4 DEF ReadAccount
<1>5. ASSUME NEW a \in Addresses, NEW b \in Balances, UpdateAccount(a, b) PROVE Changed
  <2>1. PICK new \in Account :
          /\ AccountStep(a, new)
          /\ new.apps = accounts[a].apps /\ new.holdings = accounts[a].holdings
    BY <1>5, UpdateAccountStep
  <2>2. Good(a, new)
    BY <2>1 DEF OptedInv
  <2> QED
    BY <2>1, <2>2
<1>6. ASSUME NEW a \in Addresses, NEW x \in Ids, NEW b \in Balances \cup {Missing},
             UpdateHoldings(a, x, b)
      PROVE  Changed
  <2>1. PICK new \in Account :
           /\ AccountStep(a, new)
           /\ new.apps = accounts[a].apps
           /\ \A y \in Ids : y # x => new.holdings[y] = accounts[a].holdings[y]
           /\ x \in assets => new.holdings[x] # Missing
           /\ x \notin assets => new.holdings[x] = accounts[a].holdings[x]
    BY <1>6, UpdateHoldingsStep
  <2>2. \A y \in Ids : accounts[a].holdings[y] # Missing => y \in assets
    BY DEF OptedInv
  <2>3. new.apps \subseteq apps /\ accounts[a].apps \subseteq new.apps
    BY <2>1 DEF OptedInv
  <2>4. ASSUME NEW y \in Ids
        PROVE  /\ new.holdings[y] # Missing => y \in assets
               /\ accounts[a].holdings[y] # Missing => new.holdings[y] # Missing
    <3>1. CASE y = x
      BY <2>1, <2>2, <3>1
    <3>2. CASE y # x
      BY <2>1, <2>2, <3>2
    <3> QED
      BY <3>1, <3>2
  <2>5. Good(a, new)
    BY <2>3, <2>4
  <2> QED
    BY <2>1, <2>5
<1>7. Made \/ Changed \/ Read
  <2> HIDE DEF Made, Changed, Read
  <2>1. \/ AnyAsset \/ \E id \in Ids : AnyAssetWithId(id)
        \/ \E a \in Addresses, b \in Balances, w \in Wanted, chosen \in SUBSET Ids :
             AnyAccount(a, b, w, chosen)
        \/ \E a \in Addresses : ReadAccount(a)
        \/ \E a \in Addresses, b \in Balances : UpdateAccount(a, b)
        \/ \E a \in Addresses, x \in Ids, b \in Balances \cup {Missing} :
             UpdateHoldings(a, x, b)
    BY DEF AccountNext
  <2>2. CASE \/ AnyAsset \/ \E id \in Ids : AnyAssetWithId(id)
    BY <1>1, <1>2, <2>2 DEF Made, Changed, Read
  <2> QED
    BY <2>1, <2>2, <1>3, <1>4, <1>5, <1>6
<1> QED
  BY <1>7

\* What is asked of a ledger is kept by each of them.
LEMMA AccountInv ==
  ASSUME LedgerTypeOK, OptedInv, UnknownInv, AccountNext
  PROVE  /\ LedgerTypeOK' /\ OptedInv' /\ UnknownInv'
         /\ apps' = apps /\ nextApp' = nextApp
<1>1. ASSUME NEW id \in Ids, assets' = assets \cup {id},
             nextAsset' \in FirstId..(LastId + 1),
             UNCHANGED <<apps, nextApp, known, accounts>>
      PROVE  /\ LedgerTypeOK' /\ OptedInv' /\ UnknownInv'
             /\ apps' = apps /\ nextApp' = nextApp
  <2>1. LedgerTypeOK'
    BY <1>1 DEF LedgerTypeOK
  <2>2. OptedInv'
    BY <1>1 DEF OptedInv
  <2>3. UnknownInv'
    BY <1>1 DEF UnknownInv
  <2> QED
    BY <1>1, <2>1, <2>2, <2>3
<1>2. ASSUME NEW a \in Addresses, NEW new \in Account, AccountStep(a, new),
             new.apps \subseteq apps,
             \A x \in Ids : new.holdings[x] # Missing => x \in assets
      PROVE  /\ LedgerTypeOK' /\ OptedInv' /\ UnknownInv'
             /\ apps' = apps /\ nextApp' = nextApp
  <2>1. /\ known' = known \cup {a}
        /\ UNCHANGED <<apps, nextApp, assets, nextAsset>>
        /\ accounts' = [accounts EXCEPT ![a] = new]
    BY <1>2 DEF AccountStep
  <2>2. /\ accounts' \in [Addresses -> Account] /\ accounts'[a] = new
        /\ \A c \in Addresses : c # a => accounts'[c] = accounts[c]
    BY <2>1 DEF LedgerTypeOK
  <2>3. LedgerTypeOK'
    BY <2>1, <2>2 DEF LedgerTypeOK
  <2>4. OptedInv'
    <3> SUFFICES ASSUME NEW c \in Addresses
                 PROVE  /\ accounts'[c].apps \subseteq apps
                        /\ \A x \in Ids : accounts'[c].holdings[x] # Missing => x \in assets
      BY <2>1 DEF OptedInv
    <3>1. CASE c = a
      BY <1>2, <2>2, <3>1
    <3>2. CASE c # a
      BY <2>2, <3>2 DEF OptedInv
    <3> QED
      BY <3>1, <3>2
  <2>5. UnknownInv'
    BY <2>1, <2>2 DEF UnknownInv
  <2> QED
    BY <2>1, <2>3, <2>4, <2>5
<1>3. ASSUME NEW a \in Addresses, known' = known \cup {a},
             UNCHANGED <<apps, nextApp, assets, nextAsset, accounts>>
      PROVE  /\ LedgerTypeOK' /\ OptedInv' /\ UnknownInv'
             /\ apps' = apps /\ nextApp' = nextApp
  <2>1. LedgerTypeOK'
    BY <1>3 DEF LedgerTypeOK
  <2>2. OptedInv' /\ UnknownInv'
    BY <1>3 DEF OptedInv, UnknownInv
  <2> QED
    BY <1>3, <2>1, <2>2
<1> QED
  BY AccountEffect, <1>1, <1>2, <1>3

-----------------------------------------------------------------------------
(* Keys and slots.                                                         *)

LEMMA KeysAreSeqs == Keys \subseteq Seq(Letters) /\ <<>> \in Keys
<1>1. ASSUME NEW k \in Keys PROVE k \in Seq(Letters)
  <2>1. PICK n \in 0..MaxKey : k \in [1..n -> Letters]
    BY DEF Keys
  <2>2. n \in Nat
    BY StateAssumption
  <2> QED
    BY <2>1, <2>2, SeqDef
<1>2. <<>> \in [1..0 -> Letters] /\ 0 \in 0..MaxKey
  BY StateAssumption
<1>3. <<>> \in Keys
  BY <1>2 DEF Keys
<1> QED
  BY <1>1, <1>3

LEMMA KeyAlone == \A k \in Keys : k \o <<>> = k
BY KeysAreSeqs, ConcatEmptySeq

\* The objects that can be held.
HeldType ==
  /\ held \in Object \cup {NoObject}
  /\ held # NoObject /\ held.key = NoKey => held.kind \in Maps

LEMMA SlotType ==
  ASSUME HeldType, held # NoObject, NEW place \in PlacesOf(held), NEW k \in SubKeys(held)
  PROVE  /\ k \in Keys /\ held.key \in Keys /\ held.key \o k \in Keys
         /\ SlotOf(held, place, k) \in Slots
         /\ held.kind \notin Maps => k = <<>> /\ held.key \o k = held.key
<1>1. held \in Object /\ held.key # NoKey /\ held.key \in Keys
  BY DEF HeldType, Object, SubKeys
<1>2. held.kind \in Maps => k \in Keys /\ held.key \o k \in Keys
  BY <1>1 DEF SubKeys
<1>3. held.kind \notin Maps => k = <<>> /\ held.key \o k = held.key
  BY <1>1, KeyAlone DEF SubKeys
<1>4. place \in Places
  BY DEF PlacesOf, Places
<1>5. k \in Keys /\ held.key \o k \in Keys
  BY <1>1, <1>2, <1>3, KeysAreSeqs
<1> QED
  BY <1>1, <1>3, <1>4, <1>5 DEF SlotOf, Slots

-----------------------------------------------------------------------------
(* Steps. Each makes an application, changes the accounts, resets, or      *)
(* writes one slot and changes the object that is held.                    *)

StoreType == store \in [Ids -> [Slots -> Values \cup {Missing}]]

LEMMA TypeParts == TypeOK <=> LedgerTypeOK /\ StoreType /\ HeldType
BY DEF TypeOK, StoreType, HeldType

Written ==
  \E a \in apps, s \in Slots, v \in Values \cup {Missing} :
    store' = [store EXCEPT ![a][s] = v]

\* A held object with the type and the restriction on what waits.
GoodObject(o) ==
  /\ o \in Object
  /\ o.key = NoKey => o.kind \in Maps
  /\ o.pending # Missing => o.kind = "GlobalState"

Still == UNCHANGED ledgerVars /\ (UNCHANGED store \/ Written)

LEMMA WriteEffect ==
  ASSUME NEW a \in Ids, NEW slot \in Slots, NEW v \in Values \cup {Missing}, Write(a, slot, v)
  PROVE  Still
BY DEF Write, Still, Written

LEMMA GlobalSlot == \A key \in Keys : <<Global, key>> \in Slots
BY DEF Slots, Places

LEMMA LocalSlot == \A a \in Addresses, key \in Keys : <<a, key>> \in Slots
BY DEF Slots, Places

\* Giving an object its key writes what waits for it.
LEMMA SetKeyEffect ==
  ASSUME NEW o, GoodObject(o), o.kind = "GlobalState", NEW key \in Keys, SetKey(o, key)
  PROVE  /\ Still /\ GoodObject(held') /\ held'.key = key /\ held'.app = o.app
         /\ key # <<>> /\ o.pending # Missing /\ o.app \in apps
              => /\ held'.pending = Missing
                 /\ store' = [store EXCEPT ![o.app][<<Global, key>>] = o.pending]
<1> DEFINE written == key # <<>> /\ o.pending # Missing /\ o.app \in apps
<1>0. /\ o \in Object /\ o.app \in Ids /\ o.pending \in Values \cup {Missing}
      /\ key # NoKey
  BY StateAssumption DEF GoodObject, Object
<1>1. CASE /\ written
           /\ SetGlobalState(o.app, key, o.pending)
           /\ held' = [o EXCEPT !.key = key, !.pending = Missing]
  <2>1. Still
    BY <1>0, <1>1, GlobalSlot, WriteEffect DEF SetGlobalState
  <2>2. store' = [store EXCEPT ![o.app][<<Global, key>>] = o.pending]
    BY <1>1 DEF SetGlobalState, Write
  <2>3. held' \in Object /\ held'.key = key /\ held'.app = o.app /\ held'.pending = Missing
    BY <1>0, <1>1 DEF Object
  <2>4. GoodObject(held')
    BY <1>0, <2>3 DEF GoodObject
  <2> QED
    BY <2>1, <2>2, <2>3, <2>4
<1>2. CASE ~written /\ Holds([o EXCEPT !.key = key])
  <2>1. Still
    BY <1>2 DEF Still, Holds
  <2>2. held' = [o EXCEPT !.key = key]
    BY <1>2 DEF Holds
  <2>3. /\ held' \in Object /\ held'.key = key /\ held'.app = o.app
        /\ held'.pending = o.pending /\ held'.kind = o.kind
    BY <1>0, <2>2 DEF Object
  <2>4. GoodObject(held')
    BY <1>0, <2>3 DEF GoodObject
  <2> QED
    BY <1>2, <2>1, <2>3, <2>4
<1> QED
  BY <1>1, <1>2 DEF SetKey

LEMMA NewObjectGood ==
  ASSUME NEW kind \in Kinds, NEW under \in Ids, NEW type \in Types, NEW key \in Keys \cup {NoKey},
         key = NoKey => kind \in Maps
  PROVE  GoodObject(NewObject(kind, under, type, key))
BY DEF GoodObject, NewObject, Object

\* The object that is held changes only in these ways.
HeldStep == held' = held \/ held' = NoObject \/ GoodObject(held')

LEMMA MakeEffect ==
  ASSUME NEW under \in Ids, NEW type \in Types,
         \/ \E key \in Keys, v \in type \cup {Missing} : NewGlobalState(under, type, key, v)
         \/ \E key \in Keys : NewLocalState(under, type, key)
         \/ \E kind \in Maps, key \in Keys \cup {NoKey} : NewMap(kind, under, type, key)
  PROVE  Still /\ GoodObject(held')
<1>0. type \subseteq Values
  BY StateAssumption DEF Values
<1>1. ASSUME NEW key \in Keys, NEW v \in type \cup {Missing}, NewGlobalState(under, type, key, v)
      PROVE  Still /\ GoodObject(held')
  <2> DEFINE o == [NewObject("GlobalState", under, type, <<>>) EXCEPT !.pending = v]
  <2>1. o \in Object /\ o.kind = "GlobalState" /\ o.key = <<>>
    BY <1>0, KeysAreSeqs DEF NewObject, Object, Kinds
  <2>2. GoodObject(o)
    BY <2>1, KeysAreSeqs, StateAssumption DEF GoodObject
  <2>3. SetKey(o, key)
    BY <1>1 DEF NewGlobalState
  <2> HIDE DEF o
  <2> QED
    BY <2>1, <2>2, <2>3, SetKeyEffect
<1>2. ASSUME NEW key \in Keys, NewLocalState(under, type, key)
      PROVE  Still /\ GoodObject(held')
  <2>1. key # NoKey /\ "LocalState" \in Kinds
    BY StateAssumption DEF Kinds
  <2>2. GoodObject(NewObject("LocalState", under, type, key))
    BY <2>1, NewObjectGood
  <2> QED
    BY <1>2, <2>2 DEF NewLocalState, Holds, Still
<1>3. ASSUME NEW kind \in Maps, NEW key \in Keys \cup {NoKey}, NewMap(kind, under, type, key)
      PROVE  Still /\ GoodObject(held')
  <2>1. GoodObject(NewObject(kind, under, type, key))
    BY NewObjectGood DEF Kinds, Maps
  <2> QED
    BY <1>3, <2>1 DEF NewMap, Holds, Still
<1> QED
  BY <1>1, <1>2, <1>3

LEMMA BindEffect ==
  ASSUME HeldType, PendingInv, NEW c \in Ids, NEW name \in Names, Bind(c, name)
  PROVE  /\ Still /\ GoodObject(held') /\ held'.app = c /\ held'.key \in {held.key, name}
         /\ held.kind = "GlobalState" /\ held.pending # Missing /\ c \in apps
              /\ held'.key # held.key
              => /\ held'.pending = Missing
                 /\ store' = [store EXCEPT ![c][<<Global, held'.key>>] = held.pending]
<1> DEFINE o == [held EXCEPT !.app = c]
<1>1. held \in Object /\ held # NoObject /\ name \in Keys /\ name # <<>> /\ name # NoKey
  BY StateAssumption DEF Bind, HeldType, Names
<1>2. /\ o \in Object /\ o.app = c /\ o.kind = held.kind /\ o.key = held.key
      /\ o.pending = held.pending
  BY <1>1 DEF Object
<1>3. GoodObject(o)
  BY <1>1, <1>2 DEF GoodObject, HeldType, PendingInv
<1>4. \/ ~Unkeyed(o) /\ Holds(o)
      \/ Unkeyed(o) /\ o.kind = "GlobalState" /\ SetKey(o, name)
      \/ Unkeyed(o) /\ o.kind # "GlobalState" /\ Holds([o EXCEPT !.key = name])
  BY DEF Bind
<1> HIDE DEF o
<1>5. CASE Holds(o)
  BY <1>2, <1>3, <1>5 DEF Holds, Still
<1>6. CASE o.kind = "GlobalState" /\ SetKey(o, name)
  <2>1. /\ Still /\ GoodObject(held') /\ held'.key = name /\ held'.app = o.app
        /\ name # <<>> /\ o.pending # Missing /\ o.app \in apps
              => /\ held'.pending = Missing
                 /\ store' = [store EXCEPT ![o.app][<<Global, name>>] = o.pending]
    BY <1>1, <1>3, <1>6, SetKeyEffect
  <2> QED
    BY <1>1, <1>2, <2>1
<1>7. CASE o.kind # "GlobalState" /\ Holds([o EXCEPT !.key = name])
  <2>1. /\ held' = [o EXCEPT !.key = name] /\ Still
    BY <1>7 DEF Holds, Still
  <2>2. /\ held' \in Object /\ held'.key = name /\ held'.app = c /\ held'.kind = o.kind
        /\ held'.pending = o.pending
    BY <1>1, <1>2, <2>1 DEF Object
  <2>3. GoodObject(held')
    BY <1>1, <1>3, <2>2 DEF GoodObject
  <2> QED
    BY <1>2, <1>7, <2>1, <2>2, <2>3
<1> QED
  BY <1>4, <1>5, <1>6, <1>7

LEMMA RekeyEffect ==
  ASSUME HeldType, PendingInv, NEW key \in Keys, Rekey(key)
  PROVE  /\ Still /\ GoodObject(held') /\ held'.key = key /\ held'.app = held.app
         /\ key # <<>> /\ held.pending # Missing /\ held.app \in apps
              => /\ held'.pending = Missing
                 /\ store' = [store EXCEPT ![held.app][<<Global, key>>] = held.pending]
<1>1. GoodObject(held) /\ held.kind = "GlobalState" /\ SetKey(held, key)
  BY DEF Rekey, GoodObject, HeldType, PendingInv
<1> QED
  BY <1>1, SetKeyEffect

LEMMA AssignEffect ==
  ASSUME HeldType, held # NoObject, NEW v \in held.type \cup {Missing},
         \/ AssignGlobal(v)
         \/ \E address \in Addresses : AssignLocal(address, v)
         \/ \E place \in PlacesOf(held), k \in SubKeys(held) : AssignItem(place, k, v)
  PROVE  Still /\ held' = held
<1>1. held \in Object /\ held.app \in Ids /\ v \in Values \cup {Missing}
  BY StateAssumption DEF HeldType, Object, Values
<1>2. held.kind \notin Maps => held.key \in Keys
  BY <1>1 DEF HeldType, Object
<1>3. CASE AssignGlobal(v)
  <2>1. held.key \in Keys /\ Write(held.app, <<Global, held.key>>, v) /\ held' = held
    BY <1>2, <1>3 DEF AssignGlobal, SetGlobalState, Maps
  <2> QED
    BY <1>1, <2>1, GlobalSlot, WriteEffect
<1>4. ASSUME NEW address \in Addresses, AssignLocal(address, v) PROVE Still /\ held' = held
  <2>1. held.key \in Keys /\ Write(held.app, <<address, held.key>>, v) /\ held' = held
    BY <1>2, <1>4 DEF AssignLocal, SetLocalState, Maps
  <2> QED
    BY <1>1, <2>1, LocalSlot, WriteEffect
<1>5. ASSUME NEW place \in PlacesOf(held), NEW k \in SubKeys(held), AssignItem(place, k, v)
      PROVE  Still /\ held' = held
  <2>1. Write(held.app, SlotOf(held, place, k), v) /\ held' = held
    BY <1>5 DEF AssignItem
  <2> QED
    BY <1>1, <2>1, SlotType, WriteEffect
<1> QED
  BY <1>3, <1>4, <1>5

LEMMA TakeEntryEffect ==
  ASSUME HeldType, held # NoObject, held.kind \in Maps,
         NEW k \in SubKeys(held), NEW under \in Ids, TakeEntry(k, under)
  PROVE  Still /\ GoodObject(held') /\ held'.pending = Missing
<1> DEFINE o == NewObject(EntryKind(held), under, held.type, held.key \o k)
<1>1. held.key \o k \in Keys
  BY DEF SubKeys
<1>2. held.app \in Ids /\ held.type \in Types /\ EntryKind(held) \in Kinds /\ held.key \o k # NoKey
  BY <1>1, StateAssumption DEF HeldType, Object, EntryKind, Kinds
<1>3. held' = [o EXCEPT !.app = held.app] /\ Still
  BY DEF TakeEntry, EntryOf, Holds, Still
<1>4. o \in Object /\ o.key # NoKey /\ o.pending = Missing
  BY <1>1, <1>2 DEF NewObject, Object
<1> HIDE DEF o
<1>5. held' \in Object /\ held'.key = o.key /\ held'.pending = Missing
  BY <1>2, <1>3, <1>4 DEF Object
<1> QED
  BY <1>3, <1>4, <1>5 DEF GoodObject

\* The calls that write state without a state object.
Directly ==
  \E a \in Ids, v \in Values \cup {Missing} :
    \/ \E key \in Keys : OpGlobal(a, key, v)
    \/ \E address \in Addresses, key \in Keys : OpLocal(a, address, key, v)
    \/ \E name \in Names : v # Missing /\ SetAttribute(a, name, v)

LEMMA DirectEffect ==
  ASSUME Directly
  PROVE  Still /\ held' = held
<1>1. ASSUME NEW a \in Ids, NEW v \in Values \cup {Missing}, NEW key \in Keys,
             OpGlobal(a, key, v) \/ SetAttribute(a, key, v)
      PROVE  Still /\ held' = held
  <2>1. Write(a, <<Global, key>>, v) /\ held' = held
    BY <1>1 DEF OpGlobal, SetAttribute, SetGlobalState
  <2> QED
    BY <2>1, GlobalSlot, WriteEffect
<1>2. ASSUME NEW a \in Ids, NEW v \in Values \cup {Missing}, NEW address \in Addresses,
             NEW key \in Keys, OpLocal(a, address, key, v)
      PROVE  Still /\ held' = held
  <2>1. Write(a, <<address, key>>, v) /\ held' = held
    BY <1>2 DEF OpLocal, SetLocalState
  <2> QED
    BY <2>1, LocalSlot, WriteEffect
<1> QED
  BY <1>1, <1>2 DEF Directly, Names

LEMMA StepEffect ==
  ASSUME IInv, Next
  PROVE  \/ \E fits \in BOOLEAN : NewApp(fits)
         \/ \E id \in Ids : NewAppWithId(id)
         \/ AccountNext /\ UNCHANGED <<store, held>>
         \/ Reset
         \/ Still /\ HeldStep
<1>0. HeldType /\ PendingInv
  BY TypeParts DEF IInv
<1>1. CASE Directly
  BY <1>1, DirectEffect DEF HeldStep
<1>2. ASSUME NEW under \in Ids, NEW type \in Types,
             \/ \E key \in Keys, v \in type \cup {Missing} : NewGlobalState(under, type, key, v)
             \/ \E key \in Keys : NewLocalState(under, type, key)
             \/ \E kind \in Maps, key \in Keys \cup {NoKey} : NewMap(kind, under, type, key)
      PROVE  Still /\ HeldStep
  BY <1>2, MakeEffect DEF HeldStep
<1>3. CASE held # NoObject /\ Holds(NoObject)
  BY <1>3 DEF Holds, Still, HeldStep
<1>4. ASSUME NEW c \in Ids, NEW name \in Names, Bind(c, name) PROVE Still /\ HeldStep
  BY <1>0, <1>4, BindEffect DEF HeldStep
<1>5. ASSUME NEW key \in Keys, Rekey(key) PROVE Still /\ HeldStep
  BY <1>0, <1>5, RekeyEffect DEF HeldStep
<1>6. ASSUME held # NoObject, NEW v \in held.type \cup {Missing},
             \/ AssignGlobal(v)
             \/ \E address \in Addresses : AssignLocal(address, v)
             \/ \E place \in PlacesOf(held), k \in SubKeys(held) : AssignItem(place, k, v)
      PROVE  Still /\ HeldStep
  BY <1>0, <1>6, AssignEffect DEF HeldStep
<1>7. ASSUME held # NoObject, held.kind \in Maps,
             NEW k \in SubKeys(held), NEW under \in Ids, TakeEntry(k, under)
      PROVE  Still /\ HeldStep
  BY <1>0, <1>7, TakeEntryEffect DEF HeldStep
<1> HIDE DEF Still, HeldStep
<1> QED
  BY <1>1, <1>2, <1>3, <1>4, <1>5, <1>6, <1>7 DEF Next, Directly

-----------------------------------------------------------------------------
(* Types, and the invariant.                                               *)

\* What making an application does; one that does not fit only uses up an id.
Making(id) ==
  /\ id \in Ids \ apps
  /\ apps' = apps \cup {id}
  /\ store' = [store EXCEPT ![id] = NoState]

LEMMA NewAppEffect ==
  ASSUME IInv, (\E fits \in BOOLEAN : NewApp(fits)) \/ (\E id \in Ids : NewAppWithId(id))
  PROVE  /\ nextApp' \in FirstId..(LastId + 1) /\ UNCHANGED <<accountVars, held>>
         /\ \/ \E id \in Ids : Making(id)
            \/ UNCHANGED <<apps, store>>
<1>1. apps \subseteq Ids /\ nextApp \in FirstId..(LastId + 1)
  BY DEF IInv, TypeOK, LedgerTypeOK
<1>2. ASSUME NEW fits \in BOOLEAN, NewApp(fits)
      PROVE  /\ nextApp' \in FirstId..(LastId + 1) /\ UNCHANGED <<accountVars, held>>
             /\ \/ \E id \in Ids : Making(id)
                \/ UNCHANGED <<apps, store>>
  <2> DEFINE id == NextId(nextApp, apps)
  <2>1. id \in nextApp..(LastId + 1) /\ id \notin apps
    BY <1>1, NextIdIsFree
  <2>2. /\ id <= LastId /\ nextApp' = id + 1
        /\ apps' = IF fits THEN apps \cup {id} ELSE apps
        /\ store' = IF fits THEN [store EXCEPT ![id] = NoState] ELSE store
        /\ UNCHANGED <<accountVars, held>>
    BY <1>2 DEF NewApp, AnyApplication
  <2> HIDE DEF id
  <2>3. id \in Ids /\ nextApp' \in FirstId..(LastId + 1)
    BY <1>1, <2>1, <2>2, LedgerAssumption DEF Ids
  <2> QED
    BY <2>1, <2>2, <2>3 DEF Making
<1>3. ASSUME NEW id \in Ids, NewAppWithId(id)
      PROVE  /\ nextApp' \in FirstId..(LastId + 1) /\ UNCHANGED <<accountVars, held>>
             /\ Making(id)
  BY <1>1, <1>3 DEF NewAppWithId, AnyApplicationWithId, Making
<1> QED
  BY <1>2, <1>3

LEMMA InvStep == IInv /\ [Next]_vars => IInv'
<1> SUFFICES ASSUME IInv, [Next]_vars PROVE IInv'
  OBVIOUS
<1>0. LedgerTypeOK /\ StoreType /\ HeldType /\ OptedInv /\ UnknownInv /\ NoStateInv /\ PendingInv
  BY TypeParts DEF IInv
<1>h. /\ LedgerTypeOK' /\ StoreType' /\ HeldType' /\ OptedInv' /\ UnknownInv'
      /\ NoStateInv' /\ PendingInv'
      => IInv'
  BY DEF IInv, TypeOK, StoreType, HeldType
<1>s. ASSUME held' = held PROVE HeldType' /\ PendingInv'
  BY <1>0, <1>s DEF HeldType, PendingInv
<1>1. CASE (\E fits \in BOOLEAN : NewApp(fits)) \/ (\E id \in Ids : NewAppWithId(id))
  <2>1. /\ nextApp' \in FirstId..(LastId + 1) /\ UNCHANGED <<accountVars, held>>
        /\ \/ \E id \in Ids : Making(id)
           \/ UNCHANGED <<apps, store>>
    BY <1>1, NewAppEffect
  <2>2. apps' \subseteq Ids /\ apps \subseteq apps' /\ StoreType' /\ NoStateInv'
    <3>1. ASSUME NEW id \in Ids, Making(id)
          PROVE  apps' \subseteq Ids /\ apps \subseteq apps' /\ StoreType' /\ NoStateInv'
      <4>1. /\ apps' = apps \cup {id} /\ store' = [store EXCEPT ![id] = NoState]
        BY <3>1 DEF Making
      <4>2. /\ StoreType' /\ \A a \in Ids : store'[a] = IF a = id THEN NoState ELSE store[a]
        BY <1>0, <4>1, NoStateType DEF StoreType
      <4> QED
        BY <1>0, <4>1, <4>2 DEF LedgerTypeOK, NoStateInv
    <3>2. CASE UNCHANGED <<apps, store>>
      BY <1>0, <3>2 DEF LedgerTypeOK, StoreType, NoStateInv
    <3> QED
      BY <2>1, <3>1, <3>2
  <2>3. LedgerTypeOK'
    BY <1>0, <2>1, <2>2 DEF LedgerTypeOK, accountVars
  <2>4. OptedInv' /\ UnknownInv'
    BY <1>0, <2>1, <2>2 DEF OptedInv, UnknownInv, accountVars
  <2> QED
    BY <1>h, <1>s, <2>1, <2>2, <2>3, <2>4
<1>2. CASE AccountNext /\ UNCHANGED <<store, held>>
  <2>1. LedgerTypeOK' /\ OptedInv' /\ UnknownInv' /\ apps' = apps
    BY <1>0, <1>2, AccountInv
  <2>2. StoreType' /\ NoStateInv'
    BY <1>0, <1>2, <2>1 DEF StoreType, NoStateInv
  <2> QED
    BY <1>2, <1>h, <1>s, <2>1, <2>2
<1>3. CASE Reset
  <2>1. /\ apps' = {} /\ nextApp' = FirstId /\ assets' = {} /\ nextAsset' = FirstId
        /\ known' = {} /\ accounts' = [a \in Addresses |-> EmptyAccount]
        /\ store' = [a \in Ids |-> NoState] /\ held' = held
    BY <1>3 DEF Reset, LedgerReset
  <2>2. LedgerTypeOK'
    BY <2>1, IdsAreNumbers, EmptyAccountType, LedgerAssumption DEF LedgerTypeOK
  <2>3. StoreType' /\ NoStateInv' /\ UnknownInv'
    BY <2>1, NoStateType DEF StoreType, NoStateInv, UnknownInv
  <2>4. OptedInv'
    BY <2>1, EmptyAccountType DEF OptedInv, EmptyAccount
  <2> QED
    BY <1>h, <1>s, <2>1, <2>2, <2>3, <2>4
<1>4. CASE Still /\ HeldStep
  <2>1. LedgerTypeOK' /\ OptedInv' /\ UnknownInv' /\ apps' = apps
    BY <1>0, <1>4 DEF Still, ledgerVars, LedgerTypeOK, OptedInv, UnknownInv
  <2>2. StoreType' /\ NoStateInv'
    <3>1. CASE UNCHANGED store
      BY <1>0, <2>1, <3>1 DEF StoreType, NoStateInv
    <3>2. ASSUME NEW a \in apps, NEW s \in Slots, NEW v \in Values \cup {Missing},
                 store' = [store EXCEPT ![a][s] = v]
          PROVE  StoreType' /\ NoStateInv'
      <4>1. a \in Ids
        BY <1>0 DEF LedgerTypeOK
      <4>2. StoreType' /\ \A b \in Ids : b # a => store'[b] = store[b]
        BY <1>0, <3>2, <4>1 DEF StoreType
      <4> QED
        BY <1>0, <2>1, <4>2 DEF NoStateInv
    <3> QED
      BY <1>4, <3>1, <3>2 DEF Still, Written
  <2>3. HeldType' /\ PendingInv'
    <3>1. CASE held' = held
      BY <1>s, <3>1
    <3>2. CASE held' = NoObject
      BY <3>2 DEF HeldType, PendingInv
    <3>3. CASE GoodObject(held')
      BY <3>3 DEF HeldType, PendingInv, GoodObject
    <3> QED
      BY <1>4, <3>1, <3>2, <3>3 DEF HeldStep
  <2> QED
    BY <1>h, <2>1, <2>2, <2>3
<1>5. CASE UNCHANGED vars
  <2>1. /\ UNCHANGED ledgerVars /\ store' = store /\ held' = held
    BY <1>5 DEF vars
  <2>2. LedgerTypeOK' /\ OptedInv' /\ UnknownInv' /\ apps' = apps
    BY <1>0, <2>1 DEF ledgerVars, LedgerTypeOK, OptedInv, UnknownInv
  <2>3. StoreType' /\ NoStateInv'
    BY <1>0, <2>1, <2>2 DEF StoreType, NoStateInv
  <2> QED
    BY <1>h, <1>s, <2>1, <2>2, <2>3
<1> QED
  BY <1>1, <1>2, <1>3, <1>4, <1>5, StepEffect

LEMMA Invariant == Spec => []IInv
  BY InitInv, InvStep, PTL DEF Spec

\* Every state is well typed, with any number of ids, addresses and keys.
THEOREM TypeCorrect == Spec => []TypeOK
<1>1. IInv => TypeOK
  BY DEF IInv
<1> QED
  BY <1>1, Invariant, PTL

-----------------------------------------------------------------------------
(* The ledger.                                                             *)

LEMMA FoundById ==
  ASSUME NEW x \in Ids, NEW ids \in SUBSET Ids
  PROVE  /\ FoundIn(x, <<>>, ids) = (IF x \in ids THEN x ELSE Error)
         /\ FoundIn(0, <<x>>, ids) = (IF x \in ids THEN x ELSE Error)
         /\ x # Error
<1>1. /\ Resolved(x, <<>>) = x /\ x # Error
  BY IdsAreNumbers, LedgerAssumption DEF Resolved
<1>2. ~(0 >= FirstId) /\ 0 < Len(<<x>>) /\ <<x>>[0 + 1] = x
  BY LedgerAssumption
<1>3. Resolved(0, <<x>>) = x
  BY <1>2 DEF Resolved
<1> QED
  BY <1>1, <1>3 DEF FoundIn

\* Every way to ask about a holding gives one answer, in every state of the
\* ledger (models/asset.py:32, op/misc.py:318).
THEOREM HoldingsCorrect == Spec => []HoldingsAgree
<1>1. ASSUME IInv PROVE HoldingsAgree
  <2> SUFFICES ASSUME NEW a \in Addresses, NEW x \in Ids
               PROVE  /\ HoldsAsset(a, x) => AssetParamsGet(x, <<>>) = <<x, TRUE>>
                      /\ AssetHoldingGet(a, x, <<>>) =
                           (IF AssetBalance(a, x) = Error THEN NotFound
                            ELSE <<AssetBalance(a, x), TRUE>>)
                      /\ AssetHoldingGet(a, 0, <<x>>) = AssetHoldingGet(a, x, <<>>)
                      /\ OptedInApp(a, x) => /\ AppParamsGet(x, <<>>) = <<x, TRUE>>
                                             /\ AppOptedIn(a, x, <<>>) = TRUE
                                             /\ AppOptedIn(a, 0, <<x>>) = TRUE
                      /\ AcctParamsGet(a)[2] = AccountIsFunded(a)
    BY DEF HoldingsAgree
  <2>1. /\ accounts[a] \in Account /\ apps \subseteq Ids /\ assets \subseteq Ids
        /\ HoldsAsset(a, x) => x \in assets
        /\ OptedInApp(a, x) => x \in apps
    BY <1>1 DEF IInv, TypeOK, LedgerTypeOK, OptedInv, HoldsAsset, OptedInApp
  <2>2. /\ accounts[a].balance \in Nat
        /\ HoldsAsset(a, x) => accounts[a].holdings[x] \in Nat
    BY <2>1, LedgerAssumption DEF Account, HoldsAsset
  <2>3. /\ FoundIn(x, <<>>, assets) = (IF x \in assets THEN x ELSE Error)
        /\ FoundIn(0, <<x>>, assets) = (IF x \in assets THEN x ELSE Error)
        /\ x # Error
    BY <2>1, FoundById
  <2>4. /\ FoundIn(x, <<>>, apps) = (IF x \in apps THEN x ELSE Error)
        /\ FoundIn(0, <<x>>, apps) = (IF x \in apps THEN x ELSE Error)
    BY <2>1, FoundById
  <2>5. HoldsAsset(a, x) => AssetParamsGet(x, <<>>) = <<x, TRUE>>
    BY <2>1, <2>3 DEF AssetParamsGet
  <2>6. AssetHoldingGet(a, x, <<>>) =
          (IF AssetBalance(a, x) = Error THEN NotFound ELSE <<AssetBalance(a, x), TRUE>>)
    <3>1. CASE HoldsAsset(a, x)
      <4>1. AssetBalance(a, x) = accounts[a].holdings[x] /\ AssetBalance(a, x) # Error
        BY <3>1, <2>2, LedgerAssumption DEF AssetBalance
      <4> QED
        BY <3>1, <4>1, <2>1, <2>3 DEF AssetHoldingGet
    <3>2. CASE ~HoldsAsset(a, x)
      BY <3>2, <2>3 DEF AssetHoldingGet, AssetBalance
    <3> QED
      BY <3>1, <3>2
  <2>7. AssetHoldingGet(a, 0, <<x>>) = AssetHoldingGet(a, x, <<>>)
    BY <2>3 DEF AssetHoldingGet
  <2>8. OptedInApp(a, x) => /\ AppParamsGet(x, <<>>) = <<x, TRUE>>
                            /\ AppOptedIn(a, x, <<>>) = TRUE
                            /\ AppOptedIn(a, 0, <<x>>) = TRUE
    <3> SUFFICES ASSUME OptedInApp(a, x)
                 PROVE  /\ AppParamsGet(x, <<>>) = <<x, TRUE>>
                        /\ AppOptedIn(a, x, <<>>) = TRUE
                        /\ AppOptedIn(a, 0, <<x>>) = TRUE
      OBVIOUS
    <3>1. FoundIn(x, <<>>, apps) = x /\ FoundIn(0, <<x>>, apps) = x /\ x # Error
      BY <2>1, <2>3, <2>4
    <3>2. OptedInApp(a, x) = TRUE
      BY Zenon DEF OptedInApp
    <3>3. AppOptedIn(a, x, <<>>) = TRUE /\ AppOptedIn(a, 0, <<x>>) = TRUE
      BY <3>1, <3>2, Zenon DEF AppOptedIn
    <3> QED
      BY <3>1, <3>3 DEF AppParamsGet
  <2>9. AcctParamsGet(a)[2] = AccountIsFunded(a)
    BY <2>2 DEF AcctParamsGet, AccountIsFunded
  <2> QED
    BY <2>5, <2>6, <2>7, <2>8, <2>9
<1> QED
  BY <1>1, Invariant, PTL

\* No step but a reset opts an account out: one that was looked up cannot be
\* made again, and what fails half way only adds (value_generators/avm.py:84).
THEOREM OptInsCorrect == Spec => OptInsKept
<1> DEFINE Kept == \A a \in Addresses :
                     /\ accounts[a].apps \subseteq accounts'[a].apps
                     /\ \A x \in Ids : accounts[a].holdings[x] # Missing
                                         => accounts'[a].holdings[x] # Missing
<1>1. ASSUME IInv, [Next]_vars, known' # {} PROVE Kept
  <2>1. CASE UNCHANGED accounts
    BY <2>1
  <2>2. CASE (\E fits \in BOOLEAN : NewApp(fits)) \/ (\E id \in Ids : NewAppWithId(id))
    BY <1>1, <2>1, <2>2, NewAppEffect DEF accountVars
  <2>3. CASE AccountNext
    <3>1. ASSUME NEW a \in Addresses, NEW new \in Account, AccountStep(a, new),
                 accounts[a].apps \subseteq new.apps,
                 \A x \in Ids : accounts[a].holdings[x] # Missing => new.holdings[x] # Missing
          PROVE  Kept
      <4>1. /\ accounts'[a] = new
            /\ \A c \in Addresses : c # a => accounts'[c] = accounts[c]
        BY <1>1, <3>1 DEF AccountStep, IInv, TypeOK, LedgerTypeOK
      <4> SUFFICES ASSUME NEW c \in Addresses
                   PROVE  /\ accounts[c].apps \subseteq accounts'[c].apps
                          /\ \A x \in Ids : accounts[c].holdings[x] # Missing
                                              => accounts'[c].holdings[x] # Missing
        OBVIOUS
      <4>2. CASE c = a
        BY <3>1, <4>1, <4>2
      <4>3. CASE c # a
        BY <4>1, <4>3
      <4> QED
        BY <4>2, <4>3
    <3>2. LedgerTypeOK /\ OptedInv /\ UnknownInv
      BY <1>1, TypeParts DEF IInv
    <3> HIDE DEF Kept
    <3> QED
      BY <2>1, <2>3, <3>1, <3>2, AccountEffect
  <2>4. CASE Reset
    BY <1>1, <2>4 DEF Reset, LedgerReset
  <2>5. CASE Still
    BY <2>1, <2>5 DEF Still, ledgerVars
  <2>6. CASE UNCHANGED vars
    BY <2>1, <2>6 DEF vars, ledgerVars
  <2> QED
    BY <1>1, <2>2, <2>3, <2>4, <2>5, <2>6, StepEffect
<1>2. IInv /\ [Next]_vars => [known' # {} => Kept]_ledgerVars
  BY <1>1
<1> QED
  BY <1>2, Invariant, PTL DEF Spec, OptInsKept

-----------------------------------------------------------------------------
(* State objects.                                                          *)

\* A map and the object it makes for one entry stand for the same slots.
THEOREM EntriesCorrect == Spec => []EntriesOfMaps
<1>1. ASSUME TypeOK PROVE EntriesOfMaps
  <2> SUFFICES ASSUME held # NoObject, held.kind \in Maps,
                      NEW k \in SubKeys(held), NEW under \in Ids, NEW place \in PlacesOf(held)
               PROVE  LET o == EntryOf(held, k, under)
                      IN  /\ o.app = held.app
                          /\ SlotOf(o, place, <<>>) = SlotOf(held, place, k)
                          /\ PlacesOf(o) = PlacesOf(held)
    BY DEF EntriesOfMaps
  <2> DEFINE o == EntryOf(held, k, under)
  <2>1. held.key \o k \in Keys
    BY <1>1, TypeParts, SlotType
  <2>2. o.app = held.app /\ o.key = held.key \o k /\ o.kind = EntryKind(held)
    BY DEF EntryOf, NewObject
  <2> HIDE DEF o
  <2>3. SlotOf(o, place, <<>>) = SlotOf(held, place, k)
    BY <2>1, <2>2, KeyAlone DEF SlotOf
  <2>4. PlacesOf(o) = PlacesOf(held)
    BY <2>2 DEF PlacesOf, EntryKind, Maps
  <2> QED
    BY <2>2, <2>3, <2>4 DEF o
<1> QED
  BY <1>1, TypeCorrect, PTL

\* In every state each interface finds what op.AppGlobal.get_ex and
\* op.AppLocal.get_ex find, whatever the values are.
THEOREM ReadsCorrect == Spec => []ReadsAgree
<1>1. ASSUME TypeOK PROVE ReadsAgree
  <2> SUFFICES ASSUME held # NoObject, held.app \in apps,
                      NEW k \in SubKeys(held), NEW place \in PlacesOf(held), NEW d \in Values
               PROVE
      LET op    == OpGetEx(held.app, <<>>, SlotOf(held, place, k))
          value == IF op[2] THEN Deserialized(held.type, op[1]) ELSE Error
          maybe == IF op[2] THEN <<value, TRUE>> ELSE NotFound
          get   == IF op[2] THEN value ELSE d
      IN  /\ op = OpGetEx(0, <<held.app>>, SlotOf(held, place, k))
          /\ held.kind = "GlobalState" =>
               <<value, maybe, get>> = <<GlobalValue(held), GlobalMaybe(held), GlobalGet(held, d)>>
          /\ held.kind = "LocalState" =>
               /\ <<value, maybe>> = <<LocalItem(held, place), LocalMaybe(held, place)>>
               /\ <<get, op[2]>> = <<LocalGet(held, place, d), LocalContains(held, place)>>
          /\ held.kind \in Maps =>
               /\ <<value, maybe>> = <<MapItem(held, place, k), MapMaybe(held, place, k)>>
               /\ <<get, op[2]>> = <<MapGet(held, place, k, d), MapContains(held, place, k)>>
    BY DEF ReadsAgree
  <2> DEFINE slot  == SlotOf(held, place, k)
             op    == OpGetEx(held.app, <<>>, slot)
             value == IF op[2] THEN Deserialized(held.type, op[1]) ELSE Error
             maybe == IF op[2] THEN <<value, TRUE>> ELSE NotFound
             get   == IF op[2] THEN value ELSE d
             v     == store[held.app][slot]
  <2>1. /\ slot \in Slots /\ apps \subseteq Ids /\ held \in Object
        /\ store \in [Ids -> [Slots -> Values \cup {Missing}]]
        /\ held.kind \notin Maps => k = <<>> /\ held.key \o k = held.key
    BY <1>1, TypeParts, SlotType DEF TypeOK, LedgerTypeOK, HeldType
  <2>2. v \in Values \cup {Missing} /\ v # Error /\ Missing \notin held.type
    BY <2>1, StateAssumption, LedgerAssumption DEF Object, Values
  <2>3. Lookup(held.app, slot) = v
    BY DEF Lookup
  <2>4. /\ FoundIn(held.app, <<>>, apps) = held.app
        /\ FoundIn(0, <<held.app>>, apps) = held.app
    BY <2>1, FoundById
  <2>5. /\ op = (IF v = Missing THEN NotFound ELSE <<v, TRUE>>)
        /\ OpGetEx(0, <<held.app>>, slot) = op
    BY <2>2, <2>3, <2>4 DEF OpGetEx
  <2> DEFINE des == Deserialized(held.type, v)
  <2>6. /\ value = (IF v = Missing THEN Error ELSE des)
        /\ maybe = (IF v = Missing THEN NotFound ELSE <<des, TRUE>>)
        /\ get = (IF v = Missing THEN d ELSE des)
        /\ op[2] = (v # Missing)
    <3> HIDE DEF op, v
    <3>1. CASE v = Missing
      <4>1. op[2] = FALSE
        BY <3>1, <2>5 DEF NotFound
      <4> QED
        BY <3>1, <4>1, Zenon
    <3>2. CASE v # Missing
      <4>1. op[2] = TRUE /\ op[1] = v
        BY <3>2, <2>5
      <4> QED
        BY <3>2, <4>1, Zenon
    <3> QED
      BY <3>1, <3>2
  <2>7. v = Missing => des = Error
    BY <2>2 DEF Deserialized
  <2> HIDE DEF op, value, maybe, get, v, des, slot
  <2>8. ASSUME held.kind = "GlobalState"
        PROVE  <<value, maybe, get>> = <<GlobalValue(held), GlobalMaybe(held), GlobalGet(held, d)>>
    <3>1. place = Global /\ k = <<>> /\ slot = <<Global, held.key>>
      BY <2>1, <2>8 DEF PlacesOf, Maps, SlotOf, slot
    <3>2. InGlobal(held) = v /\ GlobalValue(held) = des
      BY <2>3, <3>1 DEF InGlobal, GlobalValue, des
    <3>3. /\ GlobalMaybe(held) = (IF v = Missing THEN NotFound ELSE <<des, TRUE>>)
          /\ GlobalGet(held, d) = (IF v = Missing THEN d ELSE des)
      BY <2>2, <3>2 DEF GlobalMaybe, GlobalGet
    <3> QED
      BY <2>6, <2>7, <3>2, <3>3
  <2>9. ASSUME held.kind = "LocalState"
        PROVE  /\ <<value, maybe>> = <<LocalItem(held, place), LocalMaybe(held, place)>>
               /\ <<get, op[2]>> = <<LocalGet(held, place, d), LocalContains(held, place)>>
    <3>1. k = <<>> /\ slot = <<place, held.key>>
      BY <2>1, <2>9 DEF Maps, SlotOf, slot
    <3>2. InLocal(held, place) = v /\ LocalItem(held, place) = des
      BY <2>3, <3>1 DEF InLocal, LocalItem, des
    <3>3. /\ LocalMaybe(held, place) = (IF v = Missing THEN NotFound ELSE <<des, TRUE>>)
          /\ LocalGet(held, place, d) = (IF v = Missing THEN d ELSE des)
          /\ LocalContains(held, place) = (v # Missing)
      BY <2>2, <3>2 DEF LocalMaybe, LocalGet, LocalContains
    <3> QED
      BY <2>6, <2>7, <3>2, <3>3
  <2>10. ASSUME held.kind \in Maps
         PROVE  /\ <<value, maybe>> = <<MapItem(held, place, k), MapMaybe(held, place, k)>>
                /\ <<get, op[2]>> = <<MapGet(held, place, k, d), MapContains(held, place, k)>>
    <3>1. InMap(held, place, k) = v
      BY <2>3 DEF InMap, slot
    <3>2. MapMaybe(held, place, k) = (IF v = Missing THEN NotFound ELSE <<des, TRUE>>)
      BY <3>1 DEF MapMaybe, des
    <3>3. /\ MapItem(held, place, k) = (IF v = Missing THEN Error ELSE des)
          /\ MapGet(held, place, k, d) = (IF v = Missing THEN d ELSE des)
      <4>1. CASE v = Missing
        BY <3>2, <4>1 DEF MapItem, MapGet, NotFound
      <4>2. CASE v # Missing
        BY <3>2, <4>2 DEF MapItem, MapGet
      <4> QED
        BY <4>1, <4>2
    <3>4. MapContains(held, place, k) = (v # Missing)
      BY <2>2, <3>1 DEF MapContains
    <3> QED
      BY <2>6, <3>2, <3>3, <3>4
  <2> QED
    BY <2>5, <2>8, <2>9, <2>10 DEF op, value, maybe, get, slot
<1> QED
  BY <1>1, TypeCorrect, PTL

\* A value given before the key reaches the ledger with the key, for whichever
\* application the object belongs to by then (state/global_state.py:78).
THEOREM PendingCorrect == Spec => PendingIsWritten
<1> DEFINE Keyed == /\ held # NoObject /\ held' # NoObject
                    /\ held.pending # Missing
                    /\ held'.key # held.key /\ held'.key # <<>> /\ held'.app \in apps
           Arrived == /\ held'.pending = Missing
                      /\ store'[held'.app][<<Global, held'.key>>] = held.pending
<1>1. ASSUME IInv, [Next]_vars, Keyed PROVE Arrived
  <2>0. /\ HeldType /\ PendingInv /\ StoreType /\ apps \subseteq Ids
        /\ held \in Object /\ held.kind = "GlobalState"
    BY <1>1, TypeParts DEF IInv, PendingInv, HeldType, LedgerTypeOK
  <2>h. held' # held
    BY <1>1
  <2>w. ASSUME NEW a \in Ids, NEW key \in Keys, a = held'.app, key = held'.key,
               held'.pending = Missing,
               store' = [store EXCEPT ![a][<<Global, key>>] = held.pending]
        PROVE  Arrived
    BY <2>0, <2>w, GlobalSlot DEF StoreType
  <2>1. ASSUME NEW c \in Ids, NEW name \in Names, Bind(c, name) PROVE Arrived
    <3>1. /\ held'.app = c /\ held'.key \in {held.key, name}
          /\ c \in apps => /\ held'.pending = Missing
                           /\ store' = [store EXCEPT ![c][<<Global, held'.key>>] = held.pending]
      BY <1>1, <2>0, <2>1, BindEffect
    <3>2. held'.key \in Keys
      BY <1>1, <3>1 DEF Names
    <3> QED
      BY <1>1, <2>w, <3>1, <3>2
  <2>2. ASSUME NEW key \in Keys, Rekey(key) PROVE Arrived
    <3>1. /\ held'.key = key /\ held'.app = held.app
          /\ key # <<>> /\ held.app \in apps
               => /\ held'.pending = Missing
                  /\ store' = [store EXCEPT ![held.app][<<Global, key>>] = held.pending]
      BY <1>1, <2>0, <2>2, RekeyEffect
    <3>2. held.app \in Ids
      BY <2>0 DEF Object
    <3> QED
      BY <1>1, <2>w, <3>1, <3>2
  <2>3. CASE \/ \E fits \in BOOLEAN : NewApp(fits)
             \/ \E id \in Ids : NewAppWithId(id)
             \/ AccountNext /\ UNCHANGED <<store, held>>
             \/ Reset
             \/ UNCHANGED vars
    BY <2>3, <2>h DEF NewApp, NewAppWithId, Reset, vars
  <2>4. CASE Directly
    BY <2>4, <2>h, DirectEffect
  <2>5. CASE held # NoObject /\ Holds(NoObject)
    BY <1>1, <2>5 DEF Holds
  <2>6. ASSUME NEW v \in held.type \cup {Missing},
             \/ AssignGlobal(v)
             \/ \E address \in Addresses : AssignLocal(address, v)
             \/ \E place \in PlacesOf(held), k \in SubKeys(held) : AssignItem(place, k, v)
        PROVE FALSE
    BY <1>1, <2>0, <2>6, <2>h, AssignEffect
  <2>7. held.kind \notin Maps
    BY <2>0 DEF Maps
  <2> HIDE DEF Arrived
  <2> QED
    BY <1>1, <2>1, <2>2, <2>3, <2>4, <2>5, <2>6, <2>7 DEF Next, Directly
<1>2. IInv /\ [Next]_vars =>
        [held # NoObject /\ held' # NoObject
         /\ held.pending # Missing
         /\ held'.key # held.key /\ held'.key # <<>> /\ held'.app \in apps
         => /\ held'.pending = Missing
            /\ store'[held'.app][<<Global, held'.key>>] = held.pending]_vars
  BY <1>1
<1> QED
  BY <1>2, Invariant, PTL DEF Spec, PendingIsWritten

-----------------------------------------------------------------------------
(* One dictionary per application.                                         *)

\* Every program of state objects, op functions, attributes and resets is a
\* program of the dictionaries that AppStates has: the refinement.
THEOREM ImplementsDictionaries == Spec => OneDictionary
<1>1. Init => Dictionaries!Init
  BY DEF Init, LedgerInit, Dictionaries!Init, Dictionaries!Empty, NoState
<1>2. ASSUME IInv, [Next]_vars PROVE [Dictionaries!Next]_<<apps, store>>
  <2>0. apps \subseteq Ids /\ StoreType
    BY <1>2, TypeParts DEF IInv, LedgerTypeOK
  <2>1. ASSUME NEW id \in Ids, Making(id) PROVE Dictionaries!Make(id)
    <3>1. id \in Ids \ apps /\ store[id] = NoState
      BY <1>2, <2>1 DEF Making, IInv, NoStateInv
    <3>2. [store EXCEPT ![id] = NoState] = store
      BY <2>0, <3>1 DEF StoreType
    <3> QED
      BY <2>1, <3>2 DEF Making, Dictionaries!Make
  <2>2. CASE (\E fits \in BOOLEAN : NewApp(fits)) \/ (\E id \in Ids : NewAppWithId(id))
    BY <1>2, <2>1, <2>2, NewAppEffect DEF Dictionaries!Next
  <2>3. CASE AccountNext /\ UNCHANGED <<store, held>>
    <3>1. apps' = apps
      BY <1>2, <2>3, TypeParts, AccountInv DEF IInv
    <3> QED
      BY <2>3, <3>1
  <2>4. CASE Reset
    BY <2>4 DEF Reset, LedgerReset, Dictionaries!Next, Dictionaries!Forget,
                Dictionaries!Empty, NoState
  <2>5. CASE Still
    <3>1. ASSUME NEW a \in apps, NEW s \in Slots, NEW v \in Values \cup {Missing},
                 store' = [store EXCEPT ![a][s] = v], apps' = apps
          PROVE  Dictionaries!Next
      BY <2>0, <3>1 DEF Dictionaries!Next, Dictionaries!Put
    <3> QED
      BY <2>5, <3>1 DEF Still, Written, ledgerVars
  <2>6. CASE UNCHANGED vars
    BY <2>6 DEF vars, ledgerVars
  <2> QED
    BY <1>2, <2>2, <2>3, <2>4, <2>5, <2>6, StepEffect
<1> QED
  BY <1>1, <1>2, Invariant, PTL DEF Spec, OneDictionary, Dictionaries!Spec
=============================================================================
