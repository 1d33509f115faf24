----------------------------- MODULE AppStates -----------------------------
(***************************************************************************)
(* What global and local state promise: an application that exists has one *)
(* dictionary from slots to values, empty when it is made, and a step      *)
(* changes one slot of one of them, or forgets every application.          *)
(***************************************************************************)
CONSTANTS Ids, Slots, Values, Missing

VARIABLES existing, \* the applications there are
          dict      \* their dictionaries

Empty == [s \in Slots |-> Missing]

Init == existing = {} /\ dict = [a \in Ids |-> Empty]

Make(a) ==
  /\ a \notin existing
  /\ existing' = existing \cup {a}
  /\ UNCHANGED dict

Put(a, s, v) ==
  /\ a \in existing
  /\ dict' = [dict EXCEPT ![a][s] = v]
  /\ UNCHANGED existing

Forget == existing' = {} /\ dict' = [a \in Ids |-> Empty]

Next ==
  \/ \E a \in Ids : Make(a)
  \/ \E a \in Ids, s \in Slots, v \in Values \cup {Missing} : Put(a, s, v)
  \/ Forget

Spec == Init /\ [][Next]_<<existing, dict>>
=============================================================================
