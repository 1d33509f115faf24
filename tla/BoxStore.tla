----------------------------- MODULE BoxStore -----------------------------
(***************************************************************************)
(* Box storage: state/box.py (Box, _BoxRef, BoxMap), op.Box (op/misc.py)   *)
(* and the boxes of LedgerContext (context_helpers/ledger_context.py).     *)
(*                                                                         *)
(* All of them read and write the ledger's dictionary of boxes. What they  *)
(* differ in is the application they address, the one a Box or BoxMap was  *)
(* made under or the active one, and what they take for a missing box.     *)
(* Names are the keys of boxes, never empty.                               *)
(***************************************************************************)
EXTENDS Integers, Sequences

CONSTANTS
  Apps, NoApp,  \* applications; no transaction group is active
  Names,        \* box keys, a BoxMap's prefix included
  Missing,      \* no box
  Bytes,        \* bound: byte values in use, zero among them
  MaxBoxSize    \* MAX_BOX_SIZE

ASSUME ConstantsAssumption ==
  /\ NoApp \notin Apps
  /\ 0 \in Bytes /\ Bytes \subseteq Nat
  /\ Missing \notin Seq(Bytes)
  /\ MaxBoxSize \in Nat

VARIABLES
  boxes,   \* ApplicationContextData.boxes of every application
  active,  \* lazy_context.active_app_id
  handles, \* Box, BoxMap and BoxRef objects: the application made under, a key
  reply    \* the last call: who was asked to do what, and its outcome

vars == <<boxes, active, handles, reply>>

Contents == UNION {[1..n -> Bytes] : n \in 0..MaxBoxSize}

Zeros(n) == [i \in 1..n |-> 0]

\* Bound: a value handed to a call fits a box, or is the one zero byte too long.
Values == Contents \cup {Zeros(MaxBoxSize + 1)}

Sizes == 0..(MaxBoxSize + 1)

-----------------------------------------------------------------------------
(* Contents.                                                               *)

Take(s, n) == SubSeq(s, 1, n)
Drop(s, n) == SubSeq(s, n + 1, Len(s))

Resized(s, n) == IF n > Len(s) THEN s \o Zeros(n - Len(s)) ELSE Take(s, n)

\* The bytes before a position, a value, and the rest from another position.
Joined(s, start, v, from) == Take(s, start) \o v \o Drop(s, from)

Replaced(s, start, v) == Joined(s, start, v, start + Len(v))

\* Mutant: what is deleted is counted from the end of what is inserted.
SplicedAfter(s, start, count, v) ==
  LET end == IF start + Len(v) + count < Len(s) THEN start + Len(v) + count ELSE Len(s)
  IN  Resized(Joined(s, start, v, end), Len(s))

\* Cut off or padded to the size the box had.
Spliced(s, start, count, v) ==
  LET end == IF start + count < Len(s) THEN start + count ELSE Len(s)
  IN  Resized(Joined(s, start, v, end), Len(s))

-----------------------------------------------------------------------------
(* The ledger. A write of more than MAX_BOX_SIZE bytes raises.             *)

Exists(a, k) == boxes[a][k] # Missing

\* get_box: a missing box reads as an empty one.
Content(a, k) == IF Exists(a, k) THEN boxes[a][k] ELSE <<>>

\* Mutant: as_bytes does not check the size.
WriteAny(a, k, s) == boxes' = [boxes EXCEPT ![a][k] = s]

Write(a, k, s) ==
  Len(s) <= MaxBoxSize /\ boxes' = [boxes EXCEPT ![a][k] = s]

Remove(a, k) == boxes' = [boxes EXCEPT ![a][k] = Missing]

Reply(by, box, op, is) == reply' = [by |-> by, box |-> box, op |-> op, is |-> is]

\* A call that raises, or only reads, writes nothing.
Says(by, box, op, is) == Reply(by, box, op, is) /\ UNCHANGED boxes

\* A write, or the error of one that is too large.
Put(by, box, op, a, k, s) ==
  \/ Write(a, k, s) /\ Reply(by, box, op, "done")
  \/ Len(s) > MaxBoxSize /\ Says(by, box, op, "size")

\* LedgerContext.set_box and delete_box, called by the test.
SetBox(a, k, s) ==
  /\ Put("ledger", <<a, k>>, "set", a, k, s)
  /\ UNCHANGED <<active, handles>>

DeleteBox(a, k) ==
  /\ Remove(a, k)
  /\ Reply("ledger", <<a, k>>, "delete", IF Exists(a, k) THEN "true" ELSE "false")
  /\ UNCHANGED <<active, handles>>

-----------------------------------------------------------------------------
(* _BoxRef. The box called for is `box', the one used is that of app a.    *)

RefCreate(by, box, a, k, n) ==
  \/ n > MaxBoxSize /\ Says(by, box, "create", "size")
  \/ /\ n <= MaxBoxSize /\ Exists(a, k)
     /\ Says(by, box, "create", IF Len(Content(a, k)) = n THEN "false" ELSE "size")
  \/ /\ n <= MaxBoxSize /\ ~Exists(a, k)
     /\ Write(a, k, Zeros(n)) /\ Reply(by, box, "create", "true")

RefDelete(by, box, a, k) ==
  /\ Remove(a, k)
  /\ Reply(by, box, "delete", IF Exists(a, k) THEN "true" ELSE "false")

RefExtract(by, box, a, k, start, length) ==
  Says(by, box, "extract",
       IF ~Exists(a, k) THEN "missing"
       ELSE IF start + length > Len(Content(a, k)) THEN "bounds" ELSE "done")

RefResize(by, box, a, k, n) ==
  \/ n > MaxBoxSize /\ Says(by, box, "resize", "size")
  \/ n <= MaxBoxSize /\ ~Exists(a, k) /\ Says(by, box, "resize", "missing")
  \/ /\ n <= MaxBoxSize /\ Exists(a, k)
     /\ Put(by, box, "resize", a, k, Resized(Content(a, k), n))

RefReplace(by, box, a, k, start, v) ==
  \/ ~Exists(a, k) /\ Says(by, box, "replace", "missing")
  \/ /\ Exists(a, k) /\ start + Len(v) > Len(Content(a, k))
     /\ Says(by, box, "replace", "bounds")
  \/ /\ Exists(a, k) /\ start + Len(v) <= Len(Content(a, k))
     /\ Put(by, box, "replace", a, k, Replaced(Content(a, k), start, v))

RefSplice(by, box, a, k, start, count, v) ==
  \/ ~Exists(a, k) /\ Says(by, box, "splice", "missing")
  \/ Exists(a, k) /\ start > Len(Content(a, k)) /\ Says(by, box, "splice", "bounds")
  \/ /\ Exists(a, k) /\ start <= Len(Content(a, k))
     /\ Put(by, box, "splice", a, k, Spliced(Content(a, k), start, count, v))

\* Mutant: put writes whatever it is given.
PutAny(by, box, a, k, v) == Put(by, box, "put", a, k, v)

RefPut(by, box, a, k, v) ==
  \/ /\ Exists(a, k) /\ Len(Content(a, k)) # Len(v)
     /\ Says(by, box, "put", "size")
  \/ /\ Exists(a, k) => Len(Content(a, k)) = Len(v)
     /\ Put(by, box, "put", a, k, v)

\* A BoxRef object, under the application it was made under.
BoxRefCall(h) ==
  LET a == h[1]
      k == h[2]
  IN  /\ \/ \E n \in Sizes : RefCreate("BoxRef", h, a, k, n) \/ RefResize("BoxRef", h, a, k, n)
         \/ RefDelete("BoxRef", h, a, k)
         \/ \E start \in Sizes, n \in Sizes : RefExtract("BoxRef", h, a, k, start, n)
         \/ \E v \in Values : RefPut("BoxRef", h, a, k, v)
         \/ \E v \in Values, start \in Sizes : RefReplace("BoxRef", h, a, k, start, v)
         \/ \E v \in Values, start, n \in Sizes : RefSplice("BoxRef", h, a, k, start, n, v)
      /\ UNCHANGED <<active, handles>>

-----------------------------------------------------------------------------
(* Box and BoxMap.                                                         *)

\* An object belongs to the application that is active when it is made.
NewHandle(k) ==
  /\ active # NoApp
  /\ handles' = handles \cup {<<active, k>>}
  /\ UNCHANGED <<boxes, active, reply>>

\* value = v and map[key] = v, whatever size the box had; del value, del map[key].
Assign(h, v) == Put("Box", h, "assign", h[1], h[2], v)

Unassign(h) == Remove(h[1], h[2]) /\ Reply("Box", h, "delete", "done")

ReadValue(h) ==
  Says("Box", h, "value", IF Exists(h[1], h[2]) THEN "done" ELSE "missing")

\* extract, resize, replace and splice go through a new _BoxRef, of the
\* application that is active now.
ThroughRef(h) ==
  \/ active = NoApp /\ Says("Box", h, "ref", "inactive")
  \/ /\ active # NoApp
     /\ \/ \E start, n \in Sizes : RefExtract("Box", h, active, h[2], start, n)
        \/ \E n \in Sizes : RefResize("Box", h, active, h[2], n)
        \/ \E v \in Values, start \in Sizes : RefReplace("Box", h, active, h[2], start, v)
        \/ \E v \in Values, start, n \in Sizes : RefSplice("Box", h, active, h[2], start, n, v)

BoxCall(h) ==
  /\ \/ \E n \in Sizes : RefCreate("Box", h, h[1], h[2], n)
     \/ \E v \in Values : Assign(h, v)
     \/ Unassign(h) \/ ReadValue(h) \/ ThroughRef(h)
  /\ UNCHANGED <<active, handles>>

-----------------------------------------------------------------------------
(* op.Box. An empty box counts as missing.                                 *)

OpCreate(k, n) ==
  LET box == <<active, k>>
  IN  \/ n > MaxBoxSize /\ Says("op", box, "create", "size")
      \/ /\ n <= MaxBoxSize /\ Content(active, k) # <<>>
         /\ Says("op", box, "create", "false")
      \/ /\ n <= MaxBoxSize /\ Content(active, k) = <<>>
         /\ Write(active, k, Zeros(n)) /\ Reply("op", box, "create", "true")

OpDelete(k) ==
  \/ /\ Content(active, k) # <<>> /\ Remove(active, k)
     /\ Reply("op", <<active, k>>, "delete", "true")
  \/ /\ Content(active, k) = <<>>
     /\ Says("op", <<active, k>>, "delete", "false")

\* A slice: a range past the end is cut off.
OpExtract(k) ==
  Says("op", <<active, k>>, "extract",
       IF Content(active, k) = <<>> THEN "missing" ELSE "done")

OpPut(k, v) ==
  LET s == Content(active, k)
  IN  \/ s # <<>> /\ Len(s) # Len(v) /\ Says("op", <<active, k>>, "put", "size")
      \/ (s # <<>> => Len(s) = Len(v)) /\ Put("op", <<active, k>>, "put", active, k, v)

\* replace, resize and splice, when the box has content.
OpEdit(k, op, inBounds, s) ==
  LET box == <<active, k>>
  IN  \/ Content(active, k) = <<>> /\ Says("op", box, op, "missing")
      \/ Content(active, k) # <<>> /\ ~inBounds /\ Says("op", box, op, "bounds")
      \/ Content(active, k) # <<>> /\ inBounds /\ Put("op", box, op, active, k, s)

OpReplace(k, start, v) ==
  OpEdit(k, "replace", start + Len(v) <= Len(Content(active, k)),
         Replaced(Content(active, k), start, v))

OpResize(k, n) == OpEdit(k, "resize", TRUE, Resized(Content(active, k), n))

OpSplice(k, start, count, v) ==
  OpEdit(k, "splice", start <= Len(Content(active, k)),
         Spliced(Content(active, k), start, count, v))

OpCall(k) ==
  /\ active # NoApp
  /\ \/ \E n \in Sizes : OpCreate(k, n) \/ OpResize(k, n)
     \/ OpDelete(k) \/ OpExtract(k)
     \/ \E v \in Values : OpPut(k, v)
     \/ \E v \in Values, start \in Sizes : OpReplace(k, start, v)
     \/ \E v \in Values, start, n \in Sizes : OpSplice(k, start, n, v)
  /\ UNCHANGED <<active, handles>>

-----------------------------------------------------------------------------
Replies == [by: {"ledger", "BoxRef", "Box", "op"}, box: Apps \X Names,
            op: {"set", "delete", "create", "extract", "resize", "replace", "splice",
                 "put", "assign", "value", "ref"},
            is: {"done", "true", "false", "missing", "size", "bounds", "inactive"}]

NoReply == [by |-> "none"]

\* A transaction group of another application, or none, becomes active.
Activate(a) == active' = a /\ UNCHANGED <<boxes, handles, reply>>

Init ==
  /\ boxes = [a \in Apps |-> [k \in Names |-> Missing]]
  /\ active = NoApp /\ handles = {} /\ reply = NoReply

Next ==
  \/ \E a \in Apps \cup {NoApp} : Activate(a)
  \/ \E k \in Names : NewHandle(k) \/ OpCall(k)
  \/ \E h \in handles : BoxCall(h) \/ BoxRefCall(h)
  \/ \E a \in Apps, k \in Names : DeleteBox(a, k) \/ \E v \in Values : SetBox(a, k, v)

Spec == Init /\ [][Next]_vars

-----------------------------------------------------------------------------
(* Properties.                                                             *)

\* Type correctness: no box is larger than MAX_BOX_SIZE, whoever wrote it.
TypeOK ==
  /\ boxes \in [Apps -> [Names -> Contents \cup {Missing}]]
  /\ active \in Apps \cup {NoApp}
  /\ handles \subseteq Apps \X Names
  /\ reply \in Replies \cup {NoReply}

\* resize, replace and splice do to every byte of a box what they are documented
\* to do (box.py:123-158): the bytes before the range stay, those of the value
\* follow, then the rest, cut off or padded with zeros.
EditsAreBytewise ==
  \A a \in Apps, k \in Names :
    LET s == Content(a, k)
    IN  /\ \A n \in 0..MaxBoxSize :
             Resized(s, n) = [i \in 1..n |-> IF i <= Len(s) THEN s[i] ELSE 0]
        /\ \A v \in Values, start \in 0..MaxBoxSize :
             start + Len(v) <= Len(s) =>
               Replaced(s, start, v) =
                 [i \in 1..Len(s) |-> IF i \in (start + 1)..(start + Len(v))
                                      THEN v[i - start] ELSE s[i]]
        /\ \A v \in Values, start \in 0..MaxBoxSize, count \in Sizes :
             start <= Len(s) =>
               Spliced(s, start, count, v) =
                 [i \in 1..Len(s) |->
                    IF i <= start THEN s[i]
                    ELSE IF i <= start + Len(v) THEN v[i - start]
                    ELSE IF i - Len(v) + count <= Len(s) THEN s[i - Len(v) + count]
                    ELSE 0]

\* Whichever of the three interfaces is used, and in any mix: a box with
\* content only changes its size by a resize, that keeps the bytes there is
\* room for, or by an assignment of a whole value; put, replace and splice keep
\* its size, create never touches it, and only delete removes it.
ContentsAreKept ==
  [][\A a \in Apps, k \in Names :
       LET s == boxes[a][k]
           t == boxes'[a][k]
           op == reply'.op
       IN  s # Missing /\ s # <<>> /\ t # s =>
             \/ t = Missing /\ op = "delete"
             \/ t # Missing /\ op \in {"set", "assign"}
             \/ t # Missing /\ op \in {"put", "replace", "splice"} /\ Len(t) = Len(s)
             \/ /\ t # Missing /\ op = "resize"
                /\ \A i \in 1..Len(t) : t[i] = IF i <= Len(s) THEN s[i] ELSE 0]_vars

\* box.py:115 and 132, of Box.extract and Box.replace: "Fails if the box does
\* not exist".
FailsIfAbsent ==
  reply.by = "Box" /\ reply.op \in {"extract", "replace"} /\ reply.is = "done" =>
    Exists(reply.box[1], reply.box[2])
=============================================================================
