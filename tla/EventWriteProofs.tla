-------------------------- MODULE EventWriteProofs --------------------------
(***************************************************************************)
(* EventWrite, proved for every number of writes, events, titles, edits,   *)
(* losses and crashes, and for every kind of calendar server: the agenda   *)
(* agrees with the calendar once all has settled (Agreed), what is retried *)
(* or done on two roads happens once (OnceEach), and an invitation that    *)
(* was accepted by mail is filed (AcceptedIsFiled).                        *)
(*                                                                         *)
(* None of the three is inductive: each speaks of the end.  The invariant  *)
(* IInv says what holds on the way.  Agreed rests on Explained: where the  *)
(* token stands for what the server has of an event, the index has the     *)
(* same, or a write still waits that Tells the server something else and   *)
(* so, when it is let, gives the event a version beyond the token.         *)
(* OnceEach rests on Paid and Heard, which count what was made and told    *)
(* against the answers that were lost, and AcceptedIsFiled on FilingSound. *)
(***************************************************************************)
EXTENDS EventWrite, FiniteSetTheorems, WellFoundedInduction, TLAPS

Objects == [st : {"none", "live", "gone"}, uid : UIDs, title : AllTitles, resp : Replies, ver : Nat]
Rows == [st : {"none", "live", "deleted"}, uid : UIDs, title : AllTitles, resp : Replies,
         raw : Nat, base : AllTitles]
Kinds == {"none", "create", "update", "delete", "respond", "reply"}

Writes == [kind : Kinds, key : Keys \cup {0}, row : Rows]
Undos == [key : Keys \cup {0}, was : Rows, put : Rows]

\* The variables have their types.
Typed ==
    /\ backend \in Backends /\ mailed \in BOOLEAN
    /\ objects \in [Ids -> Objects] /\ clock \in Nat
    /\ index \in [Keys -> Rows] /\ shown \subseteq Keys
    /\ token \in Nat /\ recorded \in Replies
    /\ row \in [Ops -> {"none", "pending", "done", "failed"}]
    /\ op \in [Ops -> Writes]
    /\ at \in [Ops -> {"no", "call", "write", "answered", "after"}]
    /\ by \in [Ops -> {"asker", "daemon"}] /\ out \in [Ops -> {"ok", "refused", "offline"}]
    /\ got \in [Ops -> Ids \cup {0}] /\ seen \in [Ops -> Objects]
    /\ undo \in [Ops -> Undos]
    /\ filing \in Replies /\ pc \in {"idle", "store"}
    /\ snap \in [objects : [Ids -> Objects], clock : Nat]
    /\ spoiled \in BOOLEAN /\ told \in Nat /\ given \in Nat /\ lost \in Nat
    /\ made \in [Ops -> Nat] /\ spent \in [edits : Nat, losses : Nat, crashes : Nat]

\* What the server has is no newer than its clock, and what a pass has read is so
\* as far as nothing has changed since.
Timed ==
    /\ token <= clock
    /\ \A k \in Ids : objects[k].ver <= clock
    /\ pc = "store" =>
        /\ token <= snap.clock /\ snap.clock <= clock
        /\ \A k \in Ids : objects[k].ver <= snap.clock => snap.objects[k] = objects[k]

\* A write and its row, its key, where its push is and what its asker can undo.
OpSound(i) ==
    /\ row[i] = "none" <=> op[i].kind = "none"
    /\ row[i] = "none" => at[i] = "no"
    /\ at[i] \notin {"no", "after"} => row[i] = "pending"
    /\ at[i] = "after" => row[i] = "done" /\ out[i] = "ok"
    /\ at[i] \in {"no", "call", "write"} => out[i] = "ok"
    /\ op[i].kind = "create" => op[i].key = -i /\ Live(op[i].row) /\ op[i].row.raw = NoRaw
    /\ op[i].kind \in {"update", "delete", "respond"} => op[i].key \in Keys
    /\ op[i].kind = "reply" => op[i].key = 0
    /\ undo[i].key = IF at[i] # "no" /\ by[i] = "asker" THEN op[i].key ELSE 0
    /\ op[i].kind = "create" => undo[i].was = NoRow
    /\ op[i].kind = "respond" /\ at[i] = "write" => op[i].key \in Ids
    /\ op[i].kind = "create" /\ (at[i] = "after" \/ (at[i] = "answered" /\ out[i] = "ok")) =>
            got[i] \in Ids

\* What a write is about the server has had; and JMAP refuses only for what is gone.
Touched(i) ==
    /\ op[i].key \in Ids => objects[op[i].key].st # "none"
    /\ got[i] \in Ids => objects[got[i]].st # "none"
    /\ backend = "jmap" /\ at[i] = "answered" /\ out[i] = "refused"
       /\ op[i].kind \in {"update", "delete", "respond"} /\ op[i].key \in Ids =>
            ~Live(objects[op[i].key])

\* So has it what the index has, and what a pass has read.
Known(k) == Live(index[k]) \/ snap.objects[k].st # "none" => objects[k].st # "none"

\* A placeholder is that of a create, as long as it is under way.
Placed(i) ==
    /\ op[i].kind # "create" => index[-i] = NoRow /\ \A j \in Ops : op[j].key # -i
    /\ Live(index[-i]) /\ ~spoiled => row[i] = "pending" \/ at[i] = "after"

Answered(i) == at[i] = "answered" /\ out[i] = "ok"

\* A write that waits, and will change what the server holds of k when it is let.
Tells(i, k) ==
    /\ op[i].key = k /\ row[i] = "pending" /\ ~Answered(i)
    /\ op[i].kind \in {"update", "delete", "respond"}
    /\ backend = "jmap" /\ op[i].kind = "update" =>
        /\ op[i].row.title # objects[k].title
        /\ op[i].row.raw # NoRaw => op[i].row.base = objects[k].title
        /\ at[i] = "write" => seen[i].title = objects[k].title

\* What the token stands for the index has, but for a write that waits; and a row
\* with a version knows its title.
Explained(k) ==
    ~spoiled /\ objects[k].ver <= token =>
        /\ Same(index[k], objects[k]) \/ (Live(objects[k]) /\ \E i \in Ops : Tells(i, k))
        /\ backend = "jmap" /\ Live(index[k]) /\ index[k].raw # NoRaw =>
                index[k].base = objects[k].title

\* Occurrences are drawn of what is live, and of every event that is the server's.
Drawn ==
    /\ \A k \in shown : Live(index[k])
    /\ \A k \in Ids : Live(index[k]) => k \in shown

\* A write has made its event, or none but for lost answers.
Paid(i) ==
    made[i] <= lost + IF row[i] = "done" \/ Answered(i) THEN 1 ELSE 0

\* The calendar holds the invitation once.
OneInvited == \A j, k \in Ids : Live(objects[j]) /\ objects[j].uid = "inv"
                             /\ Live(objects[k]) /\ objects[k].uid = "inv" => j = k

\* Answers the organizer has not heard.
Waits(i) ==
    /\ op[i].kind \in {"reply", "respond"} /\ row[i] = "pending"
    /\ ~(at[i] = "answered" /\ (out[i] = "ok" \/ (op[i].kind = "reply" /\ out[i] = "refused")))
Unheard == {i \in Ops : Waits(i)}
Heard == told + Cardinality(Unheard) <= given + lost

\* An accepted invitation is filed, or going to be.
Undisturbed == /\ backend \in Importers /\ spent.crashes = 0 /\ spent.edits = 0
               /\ \A i \in Ops : op[i].kind # "delete"
Invited(k) == Live(objects[k]) /\ objects[k].uid = "inv"
Files(i) == op[i].kind = "create" /\ op[i].row.uid = "inv"
FilingSound == Undisturbed =>
    /\ recorded = "accepted" => \/ filing = "accepted" \/ \E k \in Ids : Invited(k)
                                \/ \E i \in Ops : Files(i) /\ row[i] = "pending"
    /\ \A i \in Ops : Files(i) => /\ row[i] # "failed" /\ out[i] # "refused"
                                  /\ row[i] = "done" \/ Answered(i) => \E k \in Ids : Invited(k)

IInv == /\ Typed /\ Timed /\ \A i \in Ops : OpSound(i) /\ Touched(i) /\ Placed(i) /\ Paid(i)
        /\ \A k \in Ids : Known(k) /\ Explained(k)
        /\ Drawn /\ OneInvited /\ Heard /\ FilingSound
-----------------------------------------------------------------------------
(* Keys, and counting.                                                     *)

\* A set of numbers that is not empty has a least one.
LEMMA Least == \A S \in SUBSET Nat : S # {} => \E x \in S : \A y \in S : x <= y
  <1> SUFFICES ASSUME NEW S \in SUBSET Nat, S # {} PROVE \E x \in S : \A y \in S : x <= y
    OBVIOUS
  <1>1. PICK x \in S : \A y \in S : ~(<<y, x>> \in OpToRel(<, Nat))
    BY NatLessThanWellFounded, WFMin
  <1>2. ASSUME NEW y \in S PROVE x <= y
    <2>1. <<y, x>> \in Nat \X Nat /\ <<y, x>>[1] = y /\ <<y, x>>[2] = x
      OBVIOUS
    <2>2. ~(y < x)
      BY <1>1, <2>1 DEF OpToRel
    <2>3. QED
      BY <2>2
  <1>3. QED
    BY <1>2

\* A placeholder is nobody's id, and that of one write.
LEMMA Keyed ==
    /\ Ids \subseteq Keys /\ 0 \notin Keys /\ 1 \in Ids
    /\ \A k \in Ids : k \in Nat /\ k > 0
    /\ \A i \in Ops : i \in Nat /\ -i \in Keys /\ -i \notin Ids /\ -(-i) = i
    /\ \A i, j \in Ops : -i = -j => i = j
    /\ \A k \in Keys \ Ids : -k \in Ops /\ -(-k) = k
  <1>1. MaxObjects \in Nat \ {0} /\ MaxWrites \in Nat
    BY EventAssumption
  <1>2. \A k \in Ids : k \in Nat /\ k > 0
    BY <1>1 DEF Ids
  <1>3. \A i \in Ops : i \in Nat /\ i > 0
    BY <1>1 DEF Ops
  <1>4. \A i \in Ops : -i < 0 /\ -(-i) = i
    BY <1>3
  <1>5. \A k \in Placeholders : \E i \in Ops : k = -i
    BY DEF Placeholders
  <1>6. 1 \in Ids
    BY <1>1 DEF Ids
  <1>7. \A i, j \in Ops : -i = -j => i = j
    BY <1>3
  <1>8. \A i \in Ops : -i \in Placeholders
    BY DEF Placeholders
  <1>9. Ids \subseteq Keys /\ Keys \ Ids \subseteq Placeholders /\ Placeholders \subseteq Keys
    BY DEF Keys
  <1>10. \A i \in Ops : -i \in Keys /\ -i \notin Ids
    <2> SUFFICES ASSUME NEW i \in Ops PROVE -i \in Keys /\ -i \notin Ids
      OBVIOUS
    <2>1. -i < 0 /\ i \in Nat
      BY <1>3, <1>4
    <2>2. ~(-i > 0)
      BY <2>1
    <2>3. QED
      BY <1>2, <1>8, <1>9, <2>2
  <1>11. \A k \in Keys \ Ids : -k \in Ops /\ -(-k) = k
    BY <1>3, <1>4, <1>5, <1>9
  <1>12. 0 \notin Keys
    <2>1. ASSUME 0 \in Placeholders PROVE FALSE
      <3>1. PICK i \in Ops : 0 = -i
        BY <1>5, <2>1
      <3>2. QED
        BY <1>3, <3>1
    <2>2. 0 \notin Ids
      BY <1>2
    <2>3. QED
      BY <2>1, <2>2 DEF Keys
  <1>13. QED
    BY <1>2, <1>3, <1>4, <1>6, <1>7, <1>9, <1>10, <1>11, <1>12

\* Writes are finitely many.
LEMMA OpsFinite == \A S \in SUBSET Ops : IsFiniteSet(S) /\ Cardinality(S) \in Nat
  <1>1. IsFiniteSet(Ops)
    BY EventAssumption, FS_Interval DEF Ops
  <1>2. QED
    BY <1>1, FS_Subset, FS_CardinalityType

\* One write more, or all of a set more.
LEMMA CountUnion ==
    ASSUME NEW S \in SUBSET Ops, NEW U \in SUBSET Ops, NEW V \in SUBSET Ops, S \subseteq U \cup V
    PROVE  Cardinality(S) <= Cardinality(U) + Cardinality(V)
  <1>1. U \cup V \in SUBSET Ops /\ U \cap V \in SUBSET Ops
    OBVIOUS
  <1>2. Cardinality(U \cup V) = Cardinality(U) + Cardinality(V) - Cardinality(U \cap V)
    BY OpsFinite, FS_Union
  <1>3. Cardinality(S) <= Cardinality(U \cup V)
    BY <1>1, OpsFinite, FS_Subset
  <1>4. /\ Cardinality(S) \in Nat /\ Cardinality(U) \in Nat /\ Cardinality(V) \in Nat
        /\ Cardinality(U \cap V) \in Nat /\ Cardinality(U \cup V) \in Nat
    BY <1>1, OpsFinite
  <1>5. QED
    BY ONLY <1>2, <1>3, <1>4

\* One write less.
LEMMA CountLess ==
    ASSUME NEW S \in SUBSET Ops, NEW U \in SUBSET Ops, NEW i \in U, S \subseteq U \ {i}
    PROVE  Cardinality(S) + 1 <= Cardinality(U)
  <1>1. U \ {i} \in SUBSET Ops
    OBVIOUS
  <1>2. Cardinality(U \ {i}) = Cardinality(U) - 1
    BY OpsFinite, FS_RemoveElement
  <1>3. Cardinality(S) <= Cardinality(U \ {i})
    BY <1>1, OpsFinite, FS_Subset
  <1>4. Cardinality(S) \in Nat /\ Cardinality(U) \in Nat /\ Cardinality(U \ {i}) \in Nat
    BY <1>1, OpsFinite
  <1>5. QED
    BY ONLY <1>2, <1>3, <1>4
-----------------------------------------------------------------------------
(* What a step leaves alone.                                               *)

\* Nothing is heard that was not, and at most one write waits to be that did not.
LEMMA HeardSame ==
    ASSUME Typed, Heard, told' = told, given' \in Nat, given' >= given, lost' \in Nat, lost' >= lost,
           \A i \in Ops : Waits(i)' => Waits(i)
    PROVE  Heard'
  <1>1. Unheard' \subseteq Unheard /\ Unheard \subseteq Ops /\ Unheard' \subseteq Ops
    BY DEF Unheard
  <1>2. Cardinality(Unheard') <= Cardinality(Unheard)
    BY <1>1, OpsFinite, FS_Subset
  <1>3. Cardinality(Unheard') \in Nat /\ Cardinality(Unheard) \in Nat
    BY <1>1, OpsFinite
  <1>4. told \in Nat /\ given \in Nat /\ lost \in Nat /\ told' = told /\ given' \in Nat /\ lost' \in Nat
        /\ told + Cardinality(Unheard) <= given + lost /\ given' >= given /\ lost' >= lost
    BY DEF Typed, Heard
  <1>5. told' + Cardinality(Unheard') <= given' + lost'
    BY ONLY <1>2, <1>3, <1>4
  <1>6. QED
    BY <1>5 DEF Heard

\* An answer is asked for.
LEMMA HeardAsked ==
    ASSUME Typed, Heard, told' = told, given' = given + 1, lost' = lost, NEW i \in Ops,
           \A j \in Ops \ {i} : Waits(j)' => Waits(j)
    PROVE  Heard'
  <1>1. /\ Unheard' \subseteq Unheard \cup {i} /\ Unheard \subseteq Ops /\ Unheard' \subseteq Ops
        /\ {i} \subseteq Ops
    BY DEF Unheard
  <1>2. Cardinality(Unheard') <= Cardinality(Unheard) + Cardinality({i})
    BY <1>1, CountUnion
  <1>3. Cardinality(Unheard') \in Nat /\ Cardinality(Unheard) \in Nat /\ Cardinality({i}) = 1
    BY <1>1, OpsFinite, FS_Singleton
  <1>4. told \in Nat /\ given \in Nat /\ lost \in Nat /\ told' = told /\ given' = given + 1
        /\ lost' = lost /\ told + Cardinality(Unheard) <= given + lost
    BY DEF Typed, Heard
  <1>5. told' + Cardinality(Unheard') <= given' + lost'
    BY ONLY <1>2, <1>3, <1>4
  <1>6. QED
    BY <1>5 DEF Heard

\* An answer is heard that was waited for, or that was lost.
LEMMA HeardTold ==
    ASSUME Typed, Heard, told' = told + 1, given' = given, lost' \in {lost, lost + 1}, NEW i \in Ops,
           Waits(i), lost' = lost => ~Waits(i)', \A j \in Ops \ {i} : Waits(j)' => Waits(j)
    PROVE  Heard'
  <1>1. Unheard \subseteq Ops /\ Unheard' \subseteq Ops /\ i \in Unheard /\ Unheard' \subseteq Unheard
    BY DEF Unheard
  <1>2. Cardinality(Unheard') \in Nat /\ Cardinality(Unheard) \in Nat
    BY <1>1, OpsFinite
  <1>3. told \in Nat /\ given \in Nat /\ lost \in Nat /\ told' = told + 1 /\ given' = given
        /\ told + Cardinality(Unheard) <= given + lost
    BY DEF Typed, Heard
  <1>4. CASE lost' = lost
    <2>1. Unheard' \subseteq Unheard \ {i}
      BY <1>1, <1>4 DEF Unheard
    <2>2. Cardinality(Unheard') + 1 <= Cardinality(Unheard)
      BY <1>1, <2>1, CountLess
    <2>3. told' + Cardinality(Unheard') <= given' + lost'
      BY ONLY <1>2, <1>3, <1>4, <2>2
    <2>4. QED
      BY <2>3 DEF Heard
  <1>5. CASE lost' = lost + 1
    <2>1. Cardinality(Unheard') <= Cardinality(Unheard)
      BY <1>1, OpsFinite, FS_Subset
    <2>2. told' + Cardinality(Unheard') <= given' + lost'
      BY ONLY <1>2, <1>3, <1>5, <2>1
    <2>3. QED
      BY <2>2 DEF Heard
  <1>6. QED
    BY <1>4, <1>5

\* Answers are forgotten.
LEMMA HeardForgotten ==
    ASSUME Typed, Heard, told' = told, given' = given, NEW U \in SUBSET Ops,
           lost' = lost + Cardinality(U), \A j \in Ops \ U : Waits(j)' => Waits(j)
    PROVE  Heard'
  <1>1. Unheard \subseteq Ops /\ Unheard' \subseteq Ops /\ Unheard' \subseteq Unheard \cup U
    BY DEF Unheard
  <1>2. Cardinality(Unheard') <= Cardinality(Unheard) + Cardinality(U)
    BY <1>1, CountUnion
  <1>3. Cardinality(Unheard') \in Nat /\ Cardinality(Unheard) \in Nat /\ Cardinality(U) \in Nat
    BY <1>1, OpsFinite
  <1>4. told \in Nat /\ given \in Nat /\ lost \in Nat /\ told' = told /\ given' = given
        /\ told + Cardinality(Unheard) <= given + lost /\ lost' = lost + Cardinality(U)
    BY DEF Typed, Heard
  <1>5. told' + Cardinality(Unheard') <= given' + lost'
    BY ONLY <1>2, <1>3, <1>4
  <1>6. QED
    BY <1>5 DEF Heard

\* A write that a step does not touch.
SameOp(j) ==
    /\ row'[j] = row[j] /\ op'[j] = op[j] /\ at'[j] = at[j] /\ by'[j] = by[j] /\ out'[j] = out[j]
    /\ got'[j] = got[j] /\ seen'[j] = seen[j] /\ undo'[j] = undo[j] /\ made'[j] = made[j]

\* It stays what it is.
LEMMA OthersKeep ==
    ASSUME IInv, NEW j \in Ops, SameOp(j), lost' \in Nat, lost' >= lost, backend' = backend
    PROVE  /\ OpSound(j)' /\ Paid(j)' /\ (Waits(j)' <=> Waits(j))
           /\ \A k : objects'[k].title = objects[k].title => (Tells(j, k)' <=> Tells(j, k))
  <1>1. OpSound(j) /\ Paid(j) /\ made[j] \in Nat /\ lost \in Nat
    BY DEF IInv, Typed
  <1>2. OpSound(j)'
    BY <1>1 DEF SameOp, OpSound
  <1>3. Waits(j)' <=> Waits(j)
    BY DEF SameOp, Waits
  <1>4. Paid(j)'
    BY <1>1 DEF SameOp, Paid, Answered
  <1>5. \A k : objects'[k].title = objects[k].title => (Tells(j, k)' <=> Tells(j, k))
    BY DEF SameOp, Tells, Answered
  <1>6. QED
    BY <1>2, <1>3, <1>4, <1>5

\* What an invitation owes is not owed less by a step that touches no event, and ends
\* no write but one that was carried out.
LEMMA FilingSame ==
    ASSUME FilingSound, UNCHANGED <<backend, objects, op>>,
           spent'.crashes = 0 => spent.crashes = 0, spent'.edits = 0 => spent.edits = 0,
           recorded' = "accepted" => filing' = "accepted" \/ (recorded = "accepted" /\ filing' = filing),
           \A i \in Ops : Files(i) /\ Undisturbed =>
                                      /\ row'[i] = row[i] \/ (row'[i] = "done" /\ Answered(i))
                                      /\ out'[i] = "refused" => out[i] = "refused"
                                      /\ Answered(i)' => Answered(i)
    PROVE  FilingSound'
  <1> SUFFICES ASSUME Undisturbed' PROVE FilingSound'
    BY DEF FilingSound
  <1>1. Undisturbed /\ \A i \in Ops : Files(i)' <=> Files(i)
    BY DEF Undisturbed, Files
  <1>2. \A i \in Ops : Files(i) => /\ row[i] # "failed" /\ out[i] # "refused"
                                   /\ row[i] = "done" \/ Answered(i) => \E k \in Ids : Invited(k)
    BY <1>1 DEF FilingSound
  <1>3. (\E k \in Ids : Invited(k))' <=> \E k \in Ids : Invited(k)
    BY DEF Invited
  <1>4. recorded' = "accepted" =>
            \/ filing' = "accepted" \/ \E k \in Ids : Invited(k)
            \/ \E i \in Ops : Files(i) /\ row'[i] = "pending"
    BY <1>1, <1>2 DEF FilingSound
  <1>5. \A i \in Ops : Files(i) => /\ row'[i] # "failed" /\ out'[i] # "refused"
                                   /\ row'[i] = "done" \/ Answered(i)' => \E k \in Ids : Invited(k)
    BY <1>1, <1>2
  <1>6. QED
    BY <1>1, <1>3, <1>4, <1>5 DEF FilingSound

\* A step of one push that touches neither the calendar nor the index.
LEMMA QuietKeeps ==
    ASSUME IInv, NEW i \in Ops, \A j \in Ops \ {i} : SameOp(j),
           UNCHANGED <<backend, objects, clock, index, token, pc, snap, op>>,
           spoiled => spoiled', lost' >= lost,
           Typed', OpSound(i)', Touched(i)', Paid(i)', Drawn', Heard', FilingSound',
           row'[i] = "pending" \/ at'[i] = "after" \/ spoiled' \/ (row[i] # "pending" /\ at[i] # "after")
             \/ ~Live(index[-i]),
           \A k \in Ids : Tells(i, k) /\ Live(objects[k]) => Tells(i, k)'
    PROVE  IInv'
  <1>1. \A j \in Ops \ {i} : OpSound(j)' /\ Paid(j)' /\ \A k : Tells(j, k)' <=> Tells(j, k)
    BY OthersKeep DEF Typed
  <1>2. \A j \in Ops : OpSound(j)' /\ Paid(j)' /\ \A k \in Ids : Tells(j, k) /\ Live(objects[k]) => Tells(j, k)'
    BY <1>1
  <1>7. \A j \in Ops : Touched(j)'
    BY DEF IInv, Touched, SameOp
  <1>8. \A k \in Ids : Known(k)'
    BY DEF IInv, Known
  <1>3. ASSUME NEW j \in Ops PROVE Placed(j)'
    <2>1. Placed(j)
      BY DEF IInv
    <2>2. Live(index[-j]) /\ ~spoiled' => row'[j] = "pending" \/ at'[j] = "after"
      BY <2>1 DEF Placed, SameOp
    <2>3. QED
      BY <2>1, <2>2 DEF Placed
  <1>4. ASSUME NEW k \in Ids PROVE Explained(k)'
    <2>1. Explained(k)
      BY DEF IInv
    <2>2. Live(objects[k]) /\ (\E j \in Ops : Tells(j, k)) => \E j \in Ops : Tells(j, k)'
      BY <1>2
    <2>3. QED
      BY <2>1, <2>2 DEF Explained
  <1>5. Timed' /\ OneInvited'
    BY DEF IInv, Timed, OneInvited
  <1>6. QED
    BY <1>2, <1>3, <1>4, <1>5, <1>7, <1>8 DEF IInv
-----------------------------------------------------------------------------
(* The call.                                                               *)

\* A call reads before it writes, or has what it needs; what is not there is refused.
LEMMA ReadKeeps == ASSUME IInv, NEW i \in Ops, Read(i) PROVE IInv'
  <1> DEFINE o == op[i]
  <1>1. /\ UNCHANGED <<backend, mailed, objects, clock, index, shown, token, recorded, row, op, by, got,
                       undo, filing, pc, snap, spoiled, told, given, lost, made, spent>>
        /\ at[i] = "call"
    BY DEF Read, server, database, outbox, pass, history
  <1>2. Typed /\ OpSound(i) /\ Paid(i) /\ Drawn /\ Heard /\ FilingSound
    BY DEF IInv
  <1>3. /\ op \in [Ops -> Writes] /\ at \in [Ops -> {"no", "call", "write", "answered", "after"}]
        /\ out \in [Ops -> {"ok", "refused", "offline"}] /\ seen \in [Ops -> Objects]
        /\ objects \in [Ids -> Objects]
    BY <1>2 DEF Typed
  <1>4. [NoObject EXCEPT !.ver = o.row.raw, !.title = o.row.base] \in Objects
    BY <1>3 DEF NoObject, Objects, Writes, Rows, UIDs, Replies
  <1>5. \/ /\ ~Reads(o) /\ at' = [at EXCEPT ![i] = "write"] /\ out' = out
           /\ seen' = [seen EXCEPT ![i] = [NoObject EXCEPT !.ver = o.row.raw, !.title = o.row.base]]
        \/ /\ Reads(o) /\ o.key \in Ids /\ Live(objects[o.key]) /\ at' = [at EXCEPT ![i] = "write"]
           /\ out' = out /\ seen' = [seen EXCEPT ![i] = objects[o.key]]
        \/ /\ Reads(o) /\ at' = [at EXCEPT ![i] = "answered"] /\ out' = [out EXCEPT ![i] = "refused"]
           /\ seen' = seen
    BY DEF Read
  <1>6. \A j \in Ops \ {i} : SameOp(j)
    BY <1>1, <1>3, <1>5 DEF SameOp
  <1>7. Typed'
    <2>1. seen' \in [Ops -> Objects]
      BY <1>3, <1>4, <1>5
    <2>2. /\ at' \in [Ops -> {"no", "call", "write", "answered", "after"}]
          /\ out' \in [Ops -> {"ok", "refused", "offline"}]
      BY <1>3, <1>5
    <2>3. QED
      BY <1>1, <1>2, <2>1, <2>2 DEF Typed
  <1>8. \/ at'[i] = "write" /\ out'[i] = out[i]
        \/ at'[i] = "answered" /\ out'[i] = "refused" /\ o.kind \in {"respond", "update"}
    BY <1>3, <1>5 DEF Reads
  <1>9. OpSound(i)'
    <2>1. o.kind = "respond" /\ at'[i] = "write" => o.key \in Ids
      BY <1>3, <1>5 DEF Reads
    <2>2. QED
      BY <1>1, <1>2, <1>8, <2>1 DEF OpSound
  <1>16. Touched(i)'
    <2>1. Touched(i)
      BY DEF IInv
    <2>2. at'[i] = "answered" => ~(o.key \in Ids /\ Live(objects[o.key]))
      BY <1>1, <1>3 DEF Read
    <2>3. QED
      BY <1>1, <1>8, <2>1, <2>2 DEF Touched
  <1>10. Paid(i)'
    BY <1>1, <1>2, <1>8 DEF Paid, Answered
  <1>11. Heard'
    <2>1. \A j \in Ops : Waits(j)' => Waits(j)
      BY <1>1, <1>6 DEF Waits, SameOp
    <2>2. given \in Nat /\ lost \in Nat
      BY <1>2 DEF Typed
    <2>3. QED
      BY <1>1, <1>2, <2>1, <2>2, HeardSame
  <1>12. FilingSound'
    <2>1. \A j \in Ops : Files(j) => /\ row'[j] = row[j]
                                     /\ out'[j] = "refused" => out[j] = "refused"
                                     /\ Answered(j)' => Answered(j)
      BY <1>1, <1>6, <1>8 DEF Files, SameOp, Answered
    <2>2. QED
      BY <1>1, <1>2, <2>1, FilingSame
  <1>13. ASSUME NEW k \in Ids, Tells(i, k) PROVE Tells(i, k)'
    <2>1. CASE backend = "jmap" /\ o.kind = "update" /\ at'[i] = "write"
      <3>1. seen'[i].title = objects[k].title
        <4>1. CASE Reads(o)
          BY <1>3, <1>5, <1>13, <2>1, <4>1 DEF Tells
        <4>2. CASE ~Reads(o)
          <5>1. o.row.base = objects[k].title
            BY <1>13, <2>1, <4>2 DEF Tells, Reads
          <5>2. [NoObject EXCEPT !.ver = o.row.raw, !.title = o.row.base].title = o.row.base
            BY DEF NoObject
          <5>3. QED
            BY <1>3, <1>5, <4>2, <5>1, <5>2
        <4>3. QED
          BY <4>1, <4>2
      <3>2. QED
        BY <1>1, <1>8, <1>13, <2>1, <3>1 DEF Tells, Answered
    <2>2. CASE ~(backend = "jmap" /\ o.kind = "update" /\ at'[i] = "write")
      BY <1>1, <1>8, <1>13, <2>2 DEF Tells, Answered
    <2>3. QED
      BY <2>1, <2>2
  <1>14. Drawn' /\ lost' >= lost /\ row'[i] = "pending"
    BY <1>1, <1>2 DEF Drawn, Typed, OpSound
  <1>15. QED
    BY <1>1, <1>6, <1>7, <1>9, <1>10, <1>11, <1>12, <1>13, <1>14, <1>16, QuietKeeps
\* The types of what a push keeps of itself.
PushTyped == /\ row \in [Ops -> {"none", "pending", "done", "failed"}]
             /\ at \in [Ops -> {"no", "call", "write", "answered", "after"}]
             /\ by \in [Ops -> {"asker", "daemon"}] /\ out \in [Ops -> {"ok", "refused", "offline"}]
             /\ got \in [Ops -> Ids \cup {0}] /\ seen \in [Ops -> Objects] /\ undo \in [Ops -> Undos]
             /\ made \in [Ops -> Nat] /\ op \in [Ops -> Writes]

\* Nothing is still something with a type.
LEMMA Nothing == NoRow \in Rows /\ NoUndo \in Undos /\ NoObject \in Objects /\ NoOp \in Writes
  <1>1. NoRow \in Rows
    BY DEF NoRow, NoRaw, Rows, UIDs, AllTitles, Replies
  <1>2. NoObject \in Objects
    BY DEF NoObject, Objects, UIDs, AllTitles, Replies
  <1>3. QED
    BY <1>1, <1>2 DEF NoUndo, Undos, NoOp, Writes, Kinds

\* A push that is over, in full.
LEMMA Ended ==
    ASSUME PushTyped, NEW i \in Ops, Ends(i)
    PROVE  /\ at'[i] = "no" /\ undo'[i] = NoUndo /\ out'[i] = "ok" /\ got'[i] = 0 /\ seen'[i] = NoObject
           /\ \A j \in Ops \ {i} : /\ at'[j] = at[j] /\ undo'[j] = undo[j] /\ out'[j] = out[j]
                                   /\ got'[j] = got[j] /\ seen'[j] = seen[j]
           /\ at' \in [Ops -> {"no", "call", "write", "answered", "after"}]
           /\ out' \in [Ops -> {"ok", "refused", "offline"}] /\ undo' \in [Ops -> Undos]
           /\ got' \in [Ops -> Ids \cup {0}] /\ seen' \in [Ops -> Objects]
  BY Nothing DEF PushTyped, Ends

\* The server cannot be reached.
LEMMA NotConnectedKeeps == ASSUME IInv, NEW i \in Ops, NotConnected(i) PROVE IInv'
  <1>1. /\ UNCHANGED <<backend, mailed, objects, clock, index, shown, token, recorded, row, op, by, got, seen,
                       undo, filing, pc, snap, spoiled, told, given, lost, made>>
        /\ at[i] \in {"call", "write"} /\ Spend("losses", MaxLosses)
        /\ at' = [at EXCEPT ![i] = "answered"] /\ out' = [out EXCEPT ![i] = "offline"]
    BY DEF NotConnected, server, database, outbox, pass
  <1>2. Typed /\ OpSound(i) /\ Touched(i) /\ Paid(i) /\ Drawn /\ Heard /\ FilingSound
    BY DEF IInv
  <1>3. PushTyped /\ spent \in [edits : Nat, losses : Nat, crashes : Nat]
    BY <1>2 DEF Typed, PushTyped
  <1>4. at'[i] = "answered" /\ out'[i] = "offline"
    BY <1>1, <1>3 DEF PushTyped
  <1>5. /\ spent' \in [edits : Nat, losses : Nat, crashes : Nat]
        /\ spent'.crashes = spent.crashes /\ spent'.edits = spent.edits
    BY <1>1, <1>3 DEF Spend
  <1>6. \A j \in Ops \ {i} : SameOp(j)
    BY <1>1, <1>3 DEF SameOp, PushTyped
  <1>7. Typed'
    <2>1. /\ at' \in [Ops -> {"no", "call", "write", "answered", "after"}]
          /\ out' \in [Ops -> {"ok", "refused", "offline"}]
      BY <1>1, <1>3 DEF PushTyped
    <2>2. QED
      BY <1>1, <1>2, <1>5, <2>1 DEF Typed
  <1>8. OpSound(i)' /\ Touched(i)' /\ Paid(i)'
    BY <1>1, <1>2, <1>4 DEF OpSound, Touched, Paid, Answered
  <1>9. Heard'
    <2>1. \A j \in Ops : Waits(j)' => Waits(j)
      BY <1>1, <1>4, <1>6 DEF Waits, SameOp
    <2>2. given \in Nat /\ lost \in Nat
      BY <1>2 DEF Typed
    <2>3. QED
      BY <1>1, <1>2, <2>1, <2>2, HeardSame
  <1>10. FilingSound'
    <2>1. \A j \in Ops : Files(j) => /\ row'[j] = row[j]
                                     /\ out'[j] = "refused" => out[j] = "refused"
                                     /\ Answered(j)' => Answered(j)
      BY <1>1, <1>4, <1>6 DEF Files, SameOp, Answered
    <2>2. QED
      BY <1>1, <1>2, <1>5, <2>1, FilingSame
  <1>11. ASSUME NEW k \in Ids, Tells(i, k) PROVE Tells(i, k)'
    BY <1>1, <1>4, <1>11 DEF Tells, Answered
  <1>12. Drawn' /\ lost' >= lost /\ row'[i] = "pending"
    BY <1>1, <1>2 DEF Drawn, Typed, OpSound
  <1>13. QED
    BY <1>1, <1>6, <1>7, <1>8, <1>9, <1>10, <1>11, <1>12, QuietKeeps

\* The answer is written down.
LEMMA RetireKeeps == ASSUME IInv, NEW i \in Ops, Retire(i) PROVE IInv'
  <1>1. /\ UNCHANGED <<backend, mailed, objects, clock, index, shown, token, recorded, op, by, out, got, seen,
                       undo, filing, pc, snap, spoiled, told, given, lost, made, spent>>
        /\ at[i] = "answered" /\ out[i] = "ok"
        /\ at' = [at EXCEPT ![i] = "after"] /\ row' = [row EXCEPT ![i] = "done"]
    BY DEF Retire, server, database, pass, history
  <1>2. Typed /\ OpSound(i) /\ Touched(i) /\ Paid(i) /\ Drawn /\ Heard /\ FilingSound
    BY DEF IInv
  <1>3. PushTyped
    BY <1>2 DEF Typed, PushTyped
  <1>4. at'[i] = "after" /\ row'[i] = "done"
    BY <1>1, <1>3 DEF PushTyped
  <1>5. \A j \in Ops \ {i} : SameOp(j)
    BY <1>1, <1>3 DEF SameOp, PushTyped
  <1>6. Typed'
    <2>1. /\ at' \in [Ops -> {"no", "call", "write", "answered", "after"}]
          /\ row' \in [Ops -> {"none", "pending", "done", "failed"}]
      BY <1>1, <1>3 DEF PushTyped
    <2>2. QED
      BY <1>1, <1>2, <2>1 DEF Typed
  <1>7. OpSound(i)' /\ Touched(i)' /\ Paid(i)'
    BY <1>1, <1>2, <1>4 DEF OpSound, Touched, Paid, Answered
  <1>8. Heard'
    <2>1. \A j \in Ops : Waits(j)' => Waits(j)
      BY <1>1, <1>4, <1>5 DEF Waits, SameOp
    <2>2. given \in Nat /\ lost \in Nat
      BY <1>2 DEF Typed
    <2>3. QED
      BY <1>1, <1>2, <2>1, <2>2, HeardSame
  <1>9. FilingSound'
    <2>1. \A j \in Ops : Files(j) => /\ row'[j] = row[j] \/ (row'[j] = "done" /\ Answered(j))
                                     /\ out'[j] = "refused" => out[j] = "refused"
                                     /\ Answered(j)' => Answered(j)
      BY <1>1, <1>4, <1>5 DEF Files, SameOp, Answered
    <2>2. QED
      BY <1>1, <1>2, <2>1, FilingSame
  <1>10. \A k \in Ids : ~Tells(i, k)
    BY <1>1 DEF Tells, Answered
  <1>11. Drawn' /\ lost' >= lost
    BY <1>1, <1>2 DEF Drawn, Typed
  <1>12. QED
    BY <1>1, <1>4, <1>5, <1>6, <1>7, <1>8, <1>9, <1>10, <1>11, QuietKeeps

\* The write waits for another time.
LEMMA QueueKeeps == ASSUME IInv, NEW i \in Ops, Queue(i) PROVE IInv'
  <1>1. /\ UNCHANGED <<backend, mailed, objects, clock, index, shown, token, row, op, by,
                       pc, snap, spoiled, told, given, lost, made, spent>>
        /\ at[i] = "answered" /\ out[i] = "offline" /\ Ends(i)
        /\ \/ recorded' = recorded /\ filing' = filing
           \/ recorded' = op[i].row.resp /\ filing' = op[i].row.resp
    BY DEF Queue, server, outbox, pass, history
  <1>2. Typed /\ OpSound(i) /\ Touched(i) /\ Paid(i) /\ Drawn /\ Heard /\ FilingSound
    BY DEF IInv
  <1>3. PushTyped /\ op[i].row.resp \in Replies /\ recorded \in Replies /\ filing \in Replies
    BY <1>2 DEF Typed, PushTyped, Writes, Rows
  <1>4. /\ at'[i] = "no" /\ undo'[i] = NoUndo /\ out'[i] = "ok" /\ got'[i] = 0
        /\ \A j \in Ops \ {i} : SameOp(j)
    BY <1>1, <1>3, Ended DEF SameOp
  <1>5. Typed'
    <2>1. /\ at' \in [Ops -> {"no", "call", "write", "answered", "after"}]
          /\ out' \in [Ops -> {"ok", "refused", "offline"}] /\ undo' \in [Ops -> Undos]
          /\ got' \in [Ops -> Ids \cup {0}] /\ seen' \in [Ops -> Objects]
      BY <1>1, <1>3, Ended
    <2>2. recorded' \in Replies /\ filing' \in Replies
      BY <1>1, <1>3
    <2>3. QED
      BY <1>1, <1>2, <2>1, <2>2 DEF Typed
  <1>6. OpSound(i)' /\ Touched(i)' /\ Paid(i)'
    <2>1. NoUndo.key = 0 /\ NoUndo.was = NoRow
      BY DEF NoUndo
    <2>2. OpSound(i)'
      BY <1>1, <1>2, <1>4, <2>1 DEF OpSound
    <2>3. Touched(i)'
      BY <1>1, <1>2, <1>4, Keyed DEF Touched
    <2>4. QED
      BY <1>1, <1>2, <1>4, <2>2, <2>3 DEF Paid, Answered
  <1>7. Heard'
    <2>1. \A j \in Ops : Waits(j)' => Waits(j)
      BY <1>1, <1>4 DEF Waits, SameOp
    <2>2. given \in Nat /\ lost \in Nat
      BY <1>2 DEF Typed
    <2>3. QED
      BY <1>1, <1>2, <2>1, <2>2, HeardSame
  <1>8. FilingSound'
    <2>1. \A j \in Ops : Files(j) => /\ row'[j] = row[j]
                                     /\ out'[j] = "refused" => out[j] = "refused"
                                     /\ Answered(j)' => Answered(j)
      BY <1>1, <1>4 DEF Files, SameOp, Answered
    <2>2. QED
      BY <1>1, <1>2, <2>1, FilingSame
  <1>9. ASSUME NEW k \in Ids, Tells(i, k) PROVE Tells(i, k)'
    BY <1>1, <1>4, <1>9 DEF Tells, Answered
  <1>10. Drawn' /\ lost' >= lost /\ row'[i] = "pending"
    BY <1>1, <1>2 DEF Drawn, Typed, OpSound
  <1>11. QED
    BY <1>1, <1>4, <1>5, <1>6, <1>7, <1>8, <1>9, <1>10, QuietKeeps

\* The daemon takes it up again.
LEMMA RetryKeeps == ASSUME IInv, NEW i \in Ops, RetryOutbox(i) PROVE IInv'
  <1>1. /\ UNCHANGED <<backend, mailed, objects, clock, index, shown, token, recorded, row, op, out, got, seen,
                       undo, filing, pc, snap, spoiled, told, given, lost, made, spent>>
        /\ row[i] = "pending" /\ at[i] = "no"
        /\ at' = [at EXCEPT ![i] = "call"] /\ by' = [by EXCEPT ![i] = "daemon"]
    BY DEF RetryOutbox, server, database, outbox, pass, history
  <1>2. Typed /\ OpSound(i) /\ Touched(i) /\ Paid(i) /\ Drawn /\ Heard /\ FilingSound
    BY DEF IInv
  <1>3. PushTyped
    BY <1>2 DEF Typed, PushTyped
  <1>4. at'[i] = "call" /\ by'[i] = "daemon" /\ \A j \in Ops \ {i} : SameOp(j)
    BY <1>1, <1>3 DEF SameOp, PushTyped
  <1>5. Typed'
    <2>1. /\ at' \in [Ops -> {"no", "call", "write", "answered", "after"}]
          /\ by' \in [Ops -> {"asker", "daemon"}]
      BY <1>1, <1>3 DEF PushTyped
    <2>2. QED
      BY <1>1, <1>2, <2>1 DEF Typed
  <1>6. OpSound(i)' /\ Touched(i)' /\ Paid(i)'
    BY <1>1, <1>2, <1>4 DEF OpSound, Touched, Paid, Answered
  <1>7. Heard'
    <2>1. \A j \in Ops : Waits(j)' => Waits(j)
      BY <1>1, <1>4 DEF Waits, SameOp
    <2>2. given \in Nat /\ lost \in Nat
      BY <1>2 DEF Typed
    <2>3. QED
      BY <1>1, <1>2, <2>1, <2>2, HeardSame
  <1>8. FilingSound'
    <2>1. \A j \in Ops : Files(j) => /\ row'[j] = row[j]
                                     /\ out'[j] = "refused" => out[j] = "refused"
                                     /\ Answered(j)' => Answered(j)
      BY <1>1, <1>4 DEF Files, SameOp, Answered
    <2>2. QED
      BY <1>1, <1>2, <2>1, FilingSame
  <1>9. ASSUME NEW k \in Ids, Tells(i, k) PROVE Tells(i, k)'
    BY <1>1, <1>4, <1>9 DEF Tells, Answered
  <1>10. Drawn' /\ lost' >= lost /\ row'[i] = "pending"
    BY <1>1, <1>2 DEF Drawn, Typed, OpSound
  <1>11. QED
    BY <1>1, <1>4, <1>5, <1>6, <1>7, <1>8, <1>9, <1>10, QuietKeeps
\* What is done with an answer that makes no event.
LEMMA AfterOthersKeeps ==
    ASSUME IInv, NEW i \in Ops, AfterExecute(i), op[i].kind # "create" PROVE IInv'
  <1>1. /\ UNCHANGED <<backend, mailed, objects, clock, index, token, row, op, by,
                       pc, snap, spoiled, told, given, lost, made, spent>>
        /\ at[i] = "after" /\ Ends(i)
        /\ \/ recorded' = recorded /\ filing' = filing
           \/ recorded' = op[i].row.resp /\ filing' = op[i].row.resp
        /\ \/ shown' = shown
           \/ op[i].kind \in {"update", "respond"} /\ Live(index[op[i].key]) /\ shown' = shown \cup {op[i].key}
    BY DEF AfterExecute, server, outbox, pass
  <1>2. Typed /\ OpSound(i) /\ Touched(i) /\ Placed(i) /\ Paid(i) /\ Drawn /\ Heard /\ FilingSound
    BY DEF IInv
  <1>3. PushTyped /\ op[i].row.resp \in Replies /\ recorded \in Replies /\ filing \in Replies
    BY <1>2 DEF Typed, PushTyped, Writes, Rows
  <1>4. /\ at'[i] = "no" /\ undo'[i] = NoUndo /\ out'[i] = "ok" /\ got'[i] = 0
        /\ \A j \in Ops \ {i} : SameOp(j)
    BY <1>1, <1>3, Ended DEF SameOp
  <1>5. Drawn' /\ shown' \subseteq Keys
    <2>1. op[i].kind \in {"update", "respond"} => op[i].key \in Keys
      BY <1>2 DEF OpSound
    <2>2. QED
      BY <1>1, <1>2, <2>1 DEF Drawn, Typed
  <1>6. Typed'
    <2>1. /\ at' \in [Ops -> {"no", "call", "write", "answered", "after"}]
          /\ out' \in [Ops -> {"ok", "refused", "offline"}] /\ undo' \in [Ops -> Undos]
          /\ got' \in [Ops -> Ids \cup {0}] /\ seen' \in [Ops -> Objects]
      BY <1>1, <1>3, Ended
    <2>2. recorded' \in Replies /\ filing' \in Replies
      BY <1>1, <1>3
    <2>3. QED
      BY <1>1, <1>2, <1>5, <2>1, <2>2 DEF Typed
  <1>7. OpSound(i)' /\ Touched(i)' /\ Paid(i)'
    <2>1. NoUndo.key = 0 /\ NoUndo.was = NoRow
      BY DEF NoUndo
    <2>2. OpSound(i)'
      BY <1>1, <1>2, <1>4, <2>1 DEF OpSound
    <2>3. Touched(i)'
      BY <1>1, <1>2, <1>4, Keyed DEF Touched
    <2>4. QED
      BY <1>1, <1>2, <1>4, <2>2, <2>3 DEF Paid, Answered
  <1>8. row[i] = "done"
    BY <1>1, <1>2 DEF OpSound
  <1>9. Heard'
    <2>1. \A j \in Ops : Waits(j)' => Waits(j)
      BY <1>1, <1>4 DEF Waits, SameOp
    <2>2. given \in Nat /\ lost \in Nat
      BY <1>2 DEF Typed
    <2>3. QED
      BY <1>1, <1>2, <2>1, <2>2, HeardSame
  <1>10. FilingSound'
    <2>1. \A j \in Ops : Files(j) => /\ row'[j] = row[j]
                                     /\ out'[j] = "refused" => out[j] = "refused"
                                     /\ Answered(j)' => Answered(j)
      BY <1>1, <1>4 DEF Files, SameOp, Answered
    <2>2. QED
      BY <1>1, <1>2, <2>1, FilingSame
  <1>11. \A k \in Ids : ~Tells(i, k)
    BY <1>8 DEF Tells
  <1>12. ~Live(index[-i]) /\ lost' >= lost
    BY <1>1, <1>2 DEF Placed, Live, NoRow, Typed
  <1>13. QED
    BY <1>1, <1>4, <1>5, <1>6, <1>7, <1>9, <1>10, <1>11, <1>12, QuietKeeps
-----------------------------------------------------------------------------
(* What writes the index.                                                  *)

\* A step of one push that does not touch the calendar.
LEMMA PatchKeeps ==
    ASSUME IInv, NEW i \in Ops, \A j \in Ops \ {i} : SameOp(j),
           UNCHANGED <<backend, objects, clock, token, pc, snap>>,
           spoiled => spoiled', lost' >= lost,
           Typed', OpSound(i)', Touched(i)', Paid(i)', Drawn', Heard', FilingSound',
           \A j \in Ops : Placed(j)',
           \A k \in Ids : Live(index'[k]) => objects[k].st # "none",
           \A k \in Ids : ~spoiled' /\ objects[k].ver <= token =>
              /\ \/ Same(index'[k], objects[k])
                 \/ Live(objects[k]) /\ (Tells(i, k)' \/ \E j \in Ops \ {i} : Tells(j, k))
              /\ backend = "jmap" /\ Live(index'[k]) /\ index'[k].raw # NoRaw =>
                      index'[k].base = objects[k].title
    PROVE  IInv'
  <1>1. \A j \in Ops \ {i} : OpSound(j)' /\ Paid(j)' /\ \A k : Tells(j, k)' <=> Tells(j, k)
    BY OthersKeep DEF Typed
  <1>2. \A j \in Ops : OpSound(j)' /\ Paid(j)'
    BY <1>1
  <1>3. \A j \in Ops : Touched(j)'
    BY DEF IInv, Touched, SameOp
  <1>4. \A k \in Ids : Known(k)'
    BY DEF IInv, Known
  <1>5. ASSUME NEW k \in Ids PROVE Explained(k)'
    <2>1. (\E j \in Ops \ {i} : Tells(j, k)) \/ Tells(i, k)' => \E j \in Ops : Tells(j, k)'
      BY <1>1
    <2>2. QED
      BY <2>1 DEF Explained
  <1>6. Timed' /\ OneInvited'
    BY DEF IInv, Timed, OneInvited
  <1>7. QED
    BY <1>2, <1>3, <1>4, <1>5, <1>6 DEF IInv

\* A write that is given up: its asker takes the patch back, a retry has nothing to
\* take back with.
LEMMA FailKeeps == ASSUME IInv, NEW i \in Ops, FailPermanently(i) PROVE IInv'
  <1> DEFINE o == op[i]
             u == undo[i]
  <1>1. /\ UNCHANGED <<backend, mailed, objects, clock, token, recorded, op, by, filing, pc, snap,
                       told, given, lost, made, spent>>
        /\ at[i] = "answered" /\ out[i] = "refused" /\ row' = [row EXCEPT ![i] = "failed"] /\ Ends(i)
    BY DEF FailPermanently, server, pass
  <1>2. \/ /\ by[i] = "asker" /\ u.key # 0 /\ index' = [index EXCEPT ![u.key] = u.was]
           /\ shown' = IF Live(u.was) THEN shown \cup {u.key} ELSE shown \ {u.key}
           /\ spoiled' = (spoiled \/ Spoils(u.key, u.was))
        \/ /\ index' = index /\ shown' = shown
           /\ \/ by[i] = "asker" /\ u.key = 0 /\ spoiled' = spoiled
              \/ by[i] = "daemon" /\ spoiled' = (spoiled \/ o.kind # "reply")
    <2>1. by[i] \in {"asker", "daemon"}
      BY DEF IInv, Typed
    <2>2. CASE by[i] = "asker"
      BY <2>2 DEF FailPermanently, Rollback
    <2>3. CASE by[i] = "daemon"
      BY <2>3 DEF FailPermanently
    <2>4. QED
      BY <2>1, <2>2, <2>3
  <1>3. Typed /\ OpSound(i) /\ Touched(i) /\ Placed(i) /\ Paid(i) /\ Drawn /\ Heard /\ FilingSound
    BY DEF IInv
  <1>4. PushTyped /\ index \in [Keys -> Rows] /\ u.was \in Rows /\ shown \subseteq Keys /\ spoiled \in BOOLEAN
    BY <1>3 DEF Typed, PushTyped, Undos
  <1>5. u.key = (IF by[i] = "asker" THEN o.key ELSE 0) /\ row[i] = "pending"
    BY <1>1, <1>3 DEF OpSound
  <1>6. u.key # 0 => u.key \in Keys /\ o.kind \in {"create", "update", "delete", "respond"}
    <2>1. o.kind \in Kinds
      BY <1>4 DEF PushTyped, Writes
    <2>2. QED
      BY <1>3, <1>5, <2>1, Keyed DEF OpSound, Kinds
  <1>7. /\ at'[i] = "no" /\ undo'[i] = NoUndo /\ out'[i] = "ok" /\ got'[i] = 0 /\ row'[i] = "failed"
        /\ \A j \in Ops \ {i} : SameOp(j)
    BY <1>1, <1>4, Ended DEF SameOp, PushTyped
  <1>8. index' \in [Keys -> Rows] /\ shown' \subseteq Keys /\ spoiled' \in BOOLEAN /\ (spoiled => spoiled')
    <2>1. spoiled' \in BOOLEAN /\ (spoiled => spoiled')
      BY <1>2, <1>4 DEF Spoils
    <2>2. index' \in [Keys -> Rows] /\ shown' \subseteq Keys
      BY <1>2, <1>4, <1>6
    <2>3. QED
      BY <2>1, <2>2
  <1>9. Typed'
    <2>1. /\ at' \in [Ops -> {"no", "call", "write", "answered", "after"}]
          /\ row' \in [Ops -> {"none", "pending", "done", "failed"}]
          /\ out' \in [Ops -> {"ok", "refused", "offline"}] /\ undo' \in [Ops -> Undos]
          /\ got' \in [Ops -> Ids \cup {0}] /\ seen' \in [Ops -> Objects]
      BY <1>1, <1>4, Ended DEF PushTyped
    <2>2. QED
      BY <1>1, <1>3, <1>8, <2>1 DEF Typed
  <1>10. OpSound(i)' /\ Touched(i)' /\ Paid(i)'
    <2>1. NoUndo.key = 0 /\ NoUndo.was = NoRow
      BY DEF NoUndo
    <2>2. OpSound(i)'
      BY <1>1, <1>3, <1>5, <1>7, <2>1 DEF OpSound
    <2>3. Touched(i)'
      BY <1>1, <1>3, <1>7, Keyed DEF Touched
    <2>4. QED
      BY <1>1, <1>3, <1>5, <1>7, <2>2, <2>3 DEF Paid, Answered
  <1>11. Drawn'
    <2>1. \A k \in Keys : index'[k] = IF u.key # 0 /\ k = u.key THEN u.was ELSE index[k]
      BY <1>2, <1>4, <1>5
    <2>2. \A k \in Keys : k \in shown' <=> IF u.key # 0 /\ k = u.key THEN Live(u.was) ELSE k \in shown
      BY <1>2, <1>5
    <2>3. QED
      BY <1>3, <1>8, <2>1, <2>2, Keyed DEF Drawn
  <1>12. Heard'
    <2>1. \A j \in Ops : Waits(j)' => Waits(j)
      BY <1>1, <1>7 DEF Waits, SameOp
    <2>2. given \in Nat /\ lost \in Nat
      BY <1>3 DEF Typed
    <2>3. QED
      BY <1>1, <1>3, <2>1, <2>2, HeardSame
  <1>13. FilingSound'
    <2>1. Undisturbed => ~Files(i)
      BY <1>1, <1>3 DEF FilingSound
    <2>2. \A j \in Ops : Files(j) /\ Undisturbed =>
                                     /\ row'[j] = row[j]
                                     /\ out'[j] = "refused" => out[j] = "refused"
                                     /\ Answered(j)' => Answered(j)
      BY <1>1, <1>7, <2>1 DEF Files, SameOp, Answered
    <2>3. QED
      BY <1>1, <1>3, <2>2, FilingSame
  <1>14. ASSUME NEW j \in Ops PROVE Placed(j)'
    <2>1. Placed(j) /\ -j \in Keys /\ -j \notin Ids /\ -(-j) = j
      BY Keyed DEF IInv
    <2>2. CASE index'[-j] = index[-j]
      <3>1. ASSUME j = i, Live(index[-i]), ~spoiled' PROVE FALSE
        <4>1. o.kind = "create" /\ o.key = -i /\ u.was = NoRow
          BY <1>3, <3>1, Keyed DEF Placed, OpSound, Live, NoRow
        <4>2. by[i] = "asker" /\ u.key = -i
          BY <1>2, <1>5, <1>6, <3>1, <4>1
        <4>3. index'[-i] = NoRow
          BY <1>2, <1>4, <2>1, <3>1, <4>1, <4>2, Keyed
        <4>4. QED
          BY <2>2, <3>1, <4>3 DEF Live, NoRow
      <3>2. j # i => (row'[j] = row[j] /\ at'[j] = at[j])
        BY <1>7 DEF SameOp
      <3>3. QED
        BY <1>1, <1>8, <2>1, <2>2, <3>1, <3>2 DEF Placed
    <2>3. CASE index'[-j] # index[-j]
      <3>1. u.key = -j /\ u.key = o.key /\ index'[-j] = u.was /\ spoiled' = (spoiled \/ Spoils(-j, u.was))
        BY <1>2, <1>4, <1>5, <2>1, <2>3
      <3>2. op[j].kind = "create"
        BY <2>1, <3>1 DEF Placed
      <3>3. j = i => ~Live(u.was)
        BY <1>3, <3>2 DEF OpSound, Live, NoRow
      <3>4. j # i => row'[j] = row[j]
        BY <1>7 DEF SameOp
      <3>5. Live(u.was) /\ ~spoiled' => row[j] = "pending"
        BY <2>1, <3>1 DEF Spoils
      <3>6. QED
        BY <1>1, <3>1, <3>2, <3>3, <3>4, <3>5 DEF Placed
    <2>4. QED
      BY <2>2, <2>3
  <1>15. ASSUME NEW k \in Ids, Live(index'[k]) PROVE objects[k].st # "none"
    <2>1. CASE index'[k] = index[k]
      BY <1>15, <2>1 DEF IInv, Known
    <2>2. CASE index'[k] # index[k]
      BY <1>2, <1>3, <1>4, <1>5, <2>2, Keyed DEF Touched
    <2>3. QED
      BY <2>1, <2>2
  <1>16. ASSUME NEW k \in Ids, ~spoiled', objects[k].ver <= token
         PROVE  /\ \/ Same(index'[k], objects[k])
                   \/ Live(objects[k]) /\ \E j \in Ops \ {i} : Tells(j, k)
                /\ backend = "jmap" /\ Live(index'[k]) /\ index'[k].raw # NoRaw =>
                        index'[k].base = objects[k].title
    <2>1. Explained(k) /\ ~spoiled /\ k \in Keys
      BY <1>8, <1>16, Keyed DEF IInv
    <2>2. CASE o.key = k
      <3>1. o.kind \in {"update", "delete", "respond"}
        <4>1. o.kind \in Kinds /\ (o.kind = "create" => o.key \notin Ids) /\ (o.kind = "reply" => o.key \notin Ids)
          BY <1>3, <1>4, Keyed DEF OpSound, PushTyped, Writes
        <4>2. o.kind # "none"
          BY <1>3, <1>5 DEF OpSound
        <4>3. QED
          BY <2>2, <4>1, <4>2 DEF Kinds
      <3>2. by[i] = "asker" /\ u.key = k /\ index'[k] = u.was /\ ~Spoils(k, u.was)
        <4>1. k # 0
          BY Keyed
        <4>2. QED
          BY <1>2, <1>4, <1>5, <1>16, <2>1, <2>2, <3>1, <4>1
      <3>3. Same(index'[k], objects[k])
        BY <1>16, <3>2 DEF Spoils
      <3>4. backend = "jmap" => ~Live(objects[k])
        BY <1>1, <1>3, <2>2, <3>1 DEF Touched
      <3>5. QED
        BY <3>3, <3>4 DEF Same
    <2>3. CASE o.key # k
      <3>1. index'[k] = index[k]
        BY <1>2, <1>4, <1>5, <2>1, <2>3
      <3>2. ~Tells(i, k)
        BY <2>3 DEF Tells
      <3>3. QED
        BY <1>16, <2>1, <3>1, <3>2 DEF Explained
    <2>4. QED
      BY <2>2, <2>3
  <1>17. lost' >= lost
    BY <1>1, <1>3 DEF Typed
  <1>18. QED
    BY <1>1, <1>7, <1>8, <1>9, <1>10, <1>11, <1>12, <1>13, <1>14, <1>15, <1>16, <1>17, PatchKeeps
\* The event that was created takes the place of its placeholder.
LEMMA AfterCreateKeeps ==
    ASSUME IInv, NEW i \in Ops, AfterExecute(i), op[i].kind = "create" PROVE IInv'
  <1> DEFINE o == op[i]
             k == got[i]
  <1>1. /\ UNCHANGED <<backend, mailed, objects, clock, token, recorded, row, op, by, filing,
                       pc, snap, told, given, lost, made, spent>>
        /\ at[i] = "after" /\ Ends(i) /\ AfterCreate(i)
    BY DEF AfterExecute, server, outbox, pass
  <1>2. Typed /\ OpSound(i) /\ Touched(i) /\ Placed(i) /\ Paid(i) /\ Drawn /\ Heard /\ FilingSound
    BY DEF IInv
  <1>3. /\ PushTyped /\ index \in [Keys -> Rows] /\ shown \subseteq Keys /\ spoiled \in BOOLEAN
        /\ o.row \in Rows /\ by[i] \in {"asker", "daemon"}
    BY <1>2 DEF Typed, PushTyped, Writes
  <1>4. /\ k \in Ids /\ k \in Keys /\ o.key = -i /\ -i \in Keys /\ -i \notin Ids /\ k # -i
        /\ Live(o.row) /\ o.row.raw = NoRaw /\ objects[k].st # "none" /\ row[i] = "done"
    BY <1>1, <1>2, Keyed DEF OpSound, Touched
  <1>5. /\ index' \in [Keys -> Rows] /\ index'[k] = o.row
        /\ \A j \in Keys : j # k /\ j # -i => index'[j] = index[j]
        /\ index'[-i] = index[-i] \/ ~Live(index'[-i])
        /\ by[i] = "asker" => ~Live(index'[-i])
    <2>1. index' = [j \in Keys |-> IF j = k THEN o.row
                       ELSE IF j = o.key /\ by[i] = "asker" /\ index[j].st # "none"
                            THEN [index[j] EXCEPT !.st = "deleted"] ELSE index[j]]
      BY <1>1 DEF AfterCreate
    <2>2. \A r \in Rows : [r EXCEPT !.st = "deleted"] \in Rows /\ [r EXCEPT !.st = "deleted"].st = "deleted"
      BY DEF Rows
    <2>3. index' \in [Keys -> Rows]
      BY <1>3, <2>1, <2>2
    <2>4. index'[-i] = IF by[i] = "asker" /\ index[-i].st # "none"
                       THEN [index[-i] EXCEPT !.st = "deleted"] ELSE index[-i]
      BY <1>4, <2>1
    <2>5. by[i] = "asker" => ~Live(index'[-i])
      BY <1>3, <1>4, <2>2, <2>4 DEF Live
    <2>6. by[i] # "asker" => index'[-i] = index[-i]
      BY <2>4
    <2>7. index'[k] = o.row /\ \A j \in Keys : j # k /\ j # -i => index'[j] = index[j]
      BY <1>4, <2>1
    <2>8. QED
      BY <2>3, <2>5, <2>6, <2>7
  <1>6. /\ shown' = (shown \cup {k}) \ (IF by[i] = "asker" THEN {-i} ELSE {})
        /\ spoiled' = (spoiled \/ Spoils(k, o.row) \/ by[i] # "asker")
    BY <1>1, <1>4 DEF AfterCreate
  <1>7. /\ at'[i] = "no" /\ undo'[i] = NoUndo /\ out'[i] = "ok" /\ got'[i] = 0
        /\ \A j \in Ops \ {i} : SameOp(j)
    BY <1>1, <1>3, Ended DEF SameOp
  <1>8. shown' \subseteq Keys /\ spoiled' \in BOOLEAN /\ (spoiled => spoiled')
    <2>1. spoiled' \in BOOLEAN
      BY <1>3, <1>6 DEF Spoils
    <2>2. shown' \subseteq Keys
      BY <1>3, <1>4, <1>6
    <2>3. QED
      BY <1>6, <2>1, <2>2
  <1>9. Drawn'
    <2>1. \A j \in shown' : Live(index'[j])
      <3>1. TAKE j \in shown'
      <3>2. j \in Keys /\ (j = k \/ j \in shown) /\ (by[i] = "asker" => j # -i)
        BY <1>6, <1>8
      <3>3. CASE j = k
        BY <1>4, <1>5, <3>3
      <3>4. CASE j # k
        <4>1. Live(index[j])
          BY <1>2, <3>2, <3>4 DEF Drawn
        <4>2. j = -i => index'[j] = index[j]
          <5>1. ASSUME j = -i PROVE by[i] = "daemon"
            BY <1>3, <3>2, <5>1
          <5>2. by[i] = "daemon" => index'[-i] = index[-i]
            BY <1>1, <1>4 DEF AfterCreate
          <5>3. QED
            BY <5>1, <5>2
        <4>3. QED
          BY <1>5, <3>2, <3>4, <4>1, <4>2
      <3>5. QED
        BY <3>3, <3>4
    <2>2. \A j \in Ids : Live(index'[j]) => j \in shown'
      BY <1>2, <1>4, <1>5, <1>6, Keyed DEF Drawn
    <2>3. QED
      BY <2>1, <2>2 DEF Drawn
  <1>10. Typed'
    <2>1. /\ at' \in [Ops -> {"no", "call", "write", "answered", "after"}]
          /\ out' \in [Ops -> {"ok", "refused", "offline"}] /\ undo' \in [Ops -> Undos]
          /\ got' \in [Ops -> Ids \cup {0}] /\ seen' \in [Ops -> Objects]
      BY <1>1, <1>3, Ended
    <2>2. QED
      BY <1>1, <1>2, <1>5, <1>8, <2>1 DEF Typed
  <1>11. OpSound(i)' /\ Touched(i)' /\ Paid(i)'
    <2>1. NoUndo.key = 0 /\ NoUndo.was = NoRow
      BY DEF NoUndo
    <2>2. OpSound(i)'
      BY <1>1, <1>2, <1>4, <1>7, <2>1 DEF OpSound
    <2>3. Touched(i)'
      BY <1>1, <1>2, <1>7, Keyed DEF Touched
    <2>4. QED
      BY <1>1, <1>2, <1>4, <1>7, <2>2, <2>3 DEF Paid, Answered
  <1>12. Heard'
    <2>1. \A j \in Ops : Waits(j)' => Waits(j)
      BY <1>1, <1>7 DEF Waits, SameOp
    <2>2. given \in Nat /\ lost \in Nat
      BY <1>2 DEF Typed
    <2>3. QED
      BY <1>1, <1>2, <2>1, <2>2, HeardSame
  <1>13. FilingSound'
    <2>1. \A j \in Ops : Files(j) => /\ row'[j] = row[j]
                                     /\ out'[j] = "refused" => out[j] = "refused"
                                     /\ Answered(j)' => Answered(j)
      BY <1>1, <1>7 DEF Files, SameOp, Answered
    <2>2. QED
      BY <1>1, <1>2, <2>1, FilingSame
  <1>14. ASSUME NEW j \in Ops PROVE Placed(j)'
    <2>1. Placed(j) /\ -j \in Keys /\ -j \notin Ids /\ -j # k
      BY <1>4, Keyed DEF IInv
    <2>2. CASE j = i
      <3>1. ~Live(index'[-i]) \/ spoiled'
        BY <1>3, <1>5, <1>6
      <3>2. QED
        BY <1>1, <2>2, <3>1 DEF Placed
    <2>3. CASE j # i
      <3>1. index'[-j] = index[-j]
        BY <1>5, <2>1, <2>3, Keyed
      <3>2. row'[j] = row[j] /\ at'[j] = at[j]
        BY <1>7, <2>3 DEF SameOp
      <3>3. QED
        BY <1>1, <1>8, <2>1, <3>1, <3>2 DEF Placed
    <2>4. QED
      BY <2>2, <2>3
  <1>15. ASSUME NEW m \in Ids, Live(index'[m]) PROVE objects[m].st # "none"
    <2>1. CASE m = k
      BY <1>4, <2>1
    <2>2. CASE m # k
      BY <1>4, <1>5, <1>15, <2>2, Keyed DEF IInv, Known
    <2>3. QED
      BY <2>1, <2>2
  <1>16. ASSUME NEW m \in Ids, ~spoiled', objects[m].ver <= token
         PROVE  /\ \/ Same(index'[m], objects[m])
                   \/ Live(objects[m]) /\ \E j \in Ops \ {i} : Tells(j, m)
                /\ backend = "jmap" /\ Live(index'[m]) /\ index'[m].raw # NoRaw =>
                        index'[m].base = objects[m].title
    <2>1. CASE m = k
      <3>1. Same(index'[m], objects[m])
        BY <1>5, <1>6, <1>16, <2>1 DEF Spoils
      <3>2. QED
        BY <1>4, <1>5, <2>1, <3>1
    <2>2. CASE m # k
      <3>1. index'[m] = index[m] /\ Explained(m) /\ ~spoiled
        BY <1>4, <1>5, <1>8, <1>16, <2>2, Keyed DEF IInv
      <3>2. ~Tells(i, m)
        BY DEF Tells
      <3>3. QED
        BY <1>16, <3>1, <3>2 DEF Explained
    <2>3. QED
      BY <2>1, <2>2
  <1>17. lost' >= lost
    BY <1>1, <1>2 DEF Typed
  <1>18. QED
    BY <1>1, <1>7, <1>8, <1>9, <1>10, <1>11, <1>12, <1>13, <1>14, <1>15, <1>16, <1>17, PatchKeeps
-----------------------------------------------------------------------------
(* Asking.                                                                 *)

\* A row of the outbox that nobody has written.
LEMMA Unwritten ==
    ASSUME IInv, NEW i \in Next1
    PROVE  /\ i \in Ops /\ row[i] = "none" /\ op[i].kind = "none" /\ at[i] = "no" /\ out[i] = "ok"
           /\ undo[i].key = 0 /\ index[-i] = NoRow /\ \A j \in Ops : op[j].key # -i
  <1>1. i \in Ops /\ row[i] = "none" /\ OpSound(i) /\ Placed(i)
    BY DEF Next1, IInv
  <1>2. op[i].kind = "none" /\ at[i] = "no"
    BY <1>1 DEF OpSound
  <1>3. QED
    BY <1>1, <1>2 DEF OpSound, Placed

\* The row that is written, in full.
LEMMA Enqueued ==
    ASSUME IInv, NEW i \in Next1, NEW o \in Writes, Enqueue(i, o)
    PROVE  /\ UNCHANGED <<backend, mailed, objects, clock, token, pc, snap, out, got, seen,
                          spoiled, told, lost, made, spent>>
           /\ row' \in [Ops -> {"none", "pending", "done", "failed"}] /\ op' \in [Ops -> Writes]
           /\ at' \in [Ops -> {"no", "call", "write", "answered", "after"}]
           /\ by' \in [Ops -> {"asker", "daemon"}]
           /\ row'[i] = "pending" /\ op'[i] = o /\ at'[i] = "call" /\ by'[i] = "asker"
           /\ \A j \in Ops \ {i} : row'[j] = row[j] /\ op'[j] = op[j] /\ at'[j] = at[j] /\ by'[j] = by[j]
  <1>1. /\ row' = [row EXCEPT ![i] = "pending"] /\ op' = [op EXCEPT ![i] = o]
        /\ at' = [at EXCEPT ![i] = "call"] /\ by' = [by EXCEPT ![i] = "asker"]
        /\ UNCHANGED <<backend, mailed, objects, clock, token, pc, snap, out, got, seen,
                       spoiled, told, lost, made, spent>>
    BY DEF Enqueue, server, pass
  <1>2. i \in Ops /\ PushTyped
    BY Unwritten DEF IInv, Typed, PushTyped
  <1>3. QED
    BY <1>1, <1>2 DEF PushTyped

\* An invitation is owed no less for what is asked, and its filing may be what is.
LEMMA FilingAsked ==
    ASSUME IInv, NEW i \in Next1, NEW o \in Writes, Enqueue(i, o), recorded' = recorded,
           filing' = filing \/ (o.kind = "create" /\ o.row.uid = "inv")
    PROVE  FilingSound'
  <1> SUFFICES ASSUME Undisturbed' PROVE FilingSound'
    BY DEF FilingSound
  <1>1. i \in Ops /\ op[i].kind = "none" /\ row[i] = "none" /\ out[i] = "ok" /\ FilingSound
    BY Unwritten DEF IInv
  <1>2. /\ UNCHANGED <<backend, objects, out, spent>>
        /\ row'[i] = "pending" /\ op'[i] = o /\ at'[i] = "call"
        /\ \A j \in Ops \ {i} : row'[j] = row[j] /\ op'[j] = op[j] /\ at'[j] = at[j]
    BY Enqueued
  <1>3. Undisturbed
    BY <1>1, <1>2 DEF Undisturbed
  <1>4. (\E k \in Ids : Invited(k))' <=> \E k \in Ids : Invited(k)
    BY <1>2 DEF Invited
  <1>5. \A j \in Ops : Files(j) => row'[j] = row[j] /\ Files(j)' /\ (Answered(j)' <=> Answered(j))
    BY <1>1, <1>2 DEF Files, Answered
  <1>6. \A j \in Ops : Files(j)' => j = i \/ Files(j)
    BY <1>2 DEF Files
  <1>7. recorded' = "accepted" =>
            \/ filing' = "accepted" \/ \E k \in Ids : Invited(k)
            \/ \E j \in Ops : Files(j)' /\ row'[j] = "pending"
    <2>1. CASE filing' = filing
      BY <1>1, <1>3, <1>5, <2>1 DEF FilingSound
    <2>2. CASE o.kind = "create" /\ o.row.uid = "inv"
      BY <1>1, <1>2, <2>2 DEF Files
    <2>3. QED
      BY <2>1, <2>2
  <1>8. ASSUME NEW j \in Ops, Files(j)'
        PROVE  /\ row'[j] # "failed" /\ out'[j] # "refused"
               /\ row'[j] = "done" \/ Answered(j)' => \E k \in Ids : Invited(k)
    <2>1. CASE j = i
      BY <1>1, <1>2, <2>1 DEF Answered
    <2>2. CASE j # i
      BY <1>1, <1>2, <1>3, <1>5, <1>6, <1>8, <2>2 DEF FilingSound
    <2>3. QED
      BY <2>1, <2>2
  <1>9. QED
    BY <1>4, <1>7, <1>8 DEF FilingSound

\* A row that patches the index with what it asks for.
LEMMA AskKeeps ==
    ASSUME IInv, NEW i \in Next1, NEW o \in Writes, PatchEvent(i, o), Enqueue(i, o),
           o.kind \in {"create", "update", "delete", "respond"},
           o.kind = "create" => o.key = -i /\ o.row.raw = NoRaw,
           o.kind # "create" => o.key \in Keys /\ Live(index[o.key]),
           o.kind # "delete" => Live(o.row),
           o.kind \in {"update", "respond"} =>
                o.row.raw = index[o.key].raw /\ o.row.base = index[o.key].base,
           o.kind = "update" => o.row.resp = index[o.key].resp,
           recorded' \in Replies, filing' \in Replies, given' \in Nat, Heard', FilingSound'
    PROVE  IInv'
  <1> DEFINE put == IF o.kind = "delete" THEN [index[o.key] EXCEPT !.st = "deleted"] ELSE o.row
             k == o.key
  <1>1. /\ i \in Ops /\ row[i] = "none" /\ op[i].kind = "none" /\ at[i] = "no" /\ out[i] = "ok"
        /\ index[-i] = NoRow /\ \A j \in Ops : op[j].key # -i
    BY Unwritten
  <1>2. /\ UNCHANGED <<backend, mailed, objects, clock, token, pc, snap, out, got, seen,
                       spoiled, told, lost, made, spent>>
        /\ row' \in [Ops -> {"none", "pending", "done", "failed"}] /\ op' \in [Ops -> Writes]
        /\ at' \in [Ops -> {"no", "call", "write", "answered", "after"}]
        /\ by' \in [Ops -> {"asker", "daemon"}]
        /\ row'[i] = "pending" /\ op'[i] = o /\ at'[i] = "call" /\ by'[i] = "asker"
        /\ \A j \in Ops \ {i} : row'[j] = row[j] /\ op'[j] = op[j] /\ at'[j] = at[j] /\ by'[j] = by[j]
    BY Enqueued
  <1>3. Typed /\ OpSound(i) /\ Touched(i) /\ Placed(i) /\ Paid(i) /\ Drawn
    BY <1>1 DEF IInv
  <1>4. PushTyped /\ index \in [Keys -> Rows] /\ shown \subseteq Keys /\ o.row \in Rows
    BY <1>3 DEF Typed, PushTyped, Writes
  <1>5. k \in Keys /\ index[k] \in Rows
    BY <1>1, <1>4, Keyed
  <1>6. put \in Rows /\ (Live(put) <=> o.kind # "delete") /\ (o.kind # "delete" => put = o.row)
    BY <1>4, <1>5 DEF Rows, Live
  <1>7. /\ index' = [index EXCEPT ![k] = put]
        /\ shown' = IF o.kind = "delete" THEN shown \ {k} ELSE shown
        /\ undo' = [undo EXCEPT ![i] = [key |-> k, was |-> index[k], put |-> put]]
    BY DEF PatchEvent
  <1> HIDE DEF put
  <1>8. /\ index' \in [Keys -> Rows] /\ index'[k] = put /\ \A j \in Keys \ {k} : index'[j] = index[j]
        /\ shown' \subseteq Keys
    BY <1>4, <1>5, <1>6, <1>7
  <1>9. /\ undo' \in [Ops -> Undos] /\ undo'[i].key = k /\ undo'[i].was = index[k]
        /\ \A j \in Ops \ {i} : undo'[j] = undo[j]
    <2>1. [key |-> k, was |-> index[k], put |-> put] \in Undos
      BY <1>5, <1>6 DEF Undos
    <2>2. QED
      BY <1>1, <1>4, <1>7, <2>1 DEF PushTyped
  <1>10. \A j \in Ops \ {i} : SameOp(j)
    BY <1>2, <1>9 DEF SameOp
  <1>11. Typed'
    BY <1>2, <1>3, <1>8, <1>9 DEF Typed
  <1>12. OpSound(i)' /\ Paid(i)'
    <2>1. OpSound(i)'
      BY <1>1, <1>2, <1>9 DEF OpSound
    <2>2. QED
      BY <1>1, <1>2, <1>3, <2>1 DEF Paid, Answered
  <1>13. o.kind # "create" /\ k \in Ids => objects[k].st # "none"
    BY DEF IInv, Known
  <1>14. Touched(i)'
    <2>1. o.kind = "create" => k \notin Ids
      BY <1>1, Keyed
    <2>2. QED
      BY <1>2, <1>3, <1>13, <2>1 DEF Touched
  <1>15. Drawn'
    <2>1. o.kind = "create" => k \notin Ids
      BY <1>1, Keyed
    <2>2. \A j \in shown' : j \in shown /\ (o.kind = "delete" => j # k)
      BY <1>7
    <2>3. \A j \in shown' : Live(index'[j])
      BY <1>3, <1>4, <1>6, <1>8, <2>2 DEF Drawn
    <2>4. \A j \in Ids : Live(index'[j]) => j \in shown'
      BY <1>3, <1>6, <1>7, <1>8, <2>1, Keyed DEF Drawn
    <2>5. QED
      BY <2>3, <2>4 DEF Drawn
  <1>16. ASSUME NEW j \in Ops PROVE Placed(j)'
    <2>1. Placed(j) /\ -j \in Keys /\ -j \notin Ids /\ (-j = -i => j = i)
      BY <1>1, Keyed DEF IInv
    <2>2. CASE k = -j
      <3>1. (op'[j].kind = "create" /\ row'[j] = "pending") \/ (j # i /\ Live(index[-j]) /\ op[j].kind = "create")
        <4>1. CASE o.kind = "create"
          BY <1>2, <2>1, <2>2, <4>1
        <4>2. CASE o.kind # "create"
          BY <1>1, <2>1, <2>2, <4>2 DEF Placed, Live, NoRow
        <4>3. QED
          BY <4>1, <4>2
      <3>2. QED
        BY <1>2, <2>1, <3>1 DEF Placed
    <2>3. CASE k # -j
      <3>1. index'[-j] = index[-j]
        BY <1>8, <2>1, <2>3
      <3>2. CASE j = i
        BY <1>1, <1>2, <2>3, <3>1, <3>2 DEF Placed
      <3>3. CASE j # i
        BY <1>2, <2>1, <2>3, <3>1, <3>3 DEF Placed
      <3>4. QED
        BY <3>2, <3>3
    <2>4. QED
      BY <2>2, <2>3
  <1>17. ASSUME NEW m \in Ids, Live(index'[m]) PROVE objects[m].st # "none"
    <2>1. CASE m = k
      BY <1>1, <1>13, <2>1, Keyed
    <2>2. CASE m # k
      BY <1>8, <1>17, <2>2, Keyed DEF IInv, Known
    <2>3. QED
      BY <2>1, <2>2
  <1>18. ASSUME NEW m \in Ids, ~spoiled', objects[m].ver <= token
         PROVE  /\ \/ Same(index'[m], objects[m])
                   \/ Live(objects[m]) /\ (Tells(i, m)' \/ \E j \in Ops \ {i} : Tells(j, m))
                /\ backend = "jmap" /\ Live(index'[m]) /\ index'[m].raw # NoRaw =>
                        index'[m].base = objects[m].title
    <2>1. Explained(m) /\ ~spoiled /\ m \in Keys /\ ~Tells(i, m)
      BY <1>1, <1>2, <1>18, Keyed DEF IInv, Tells
    <2>2. CASE m # k
      BY <1>8, <1>18, <2>1, <2>2 DEF Explained
    <2>3. CASE m = k
      <3>1. o.kind \in {"update", "delete", "respond"} /\ Live(index[m])
        BY <1>1, <2>3, Keyed
      <3>2. backend = "jmap" /\ index[m].raw # NoRaw => index[m].base = objects[m].title
        BY <1>18, <2>1, <3>1 DEF Explained
      <3>3. backend = "jmap" /\ Live(index'[m]) /\ index'[m].raw # NoRaw => index'[m].base = objects[m].title
        BY <1>6, <1>8, <2>3, <3>1, <3>2
      <3>4. CASE ~Same(index[m], objects[m])
        BY <1>18, <2>1, <3>3, <3>4 DEF Explained
      <3>5. CASE Same(index[m], objects[m]) /\ o.kind = "update" /\ o.row.title = objects[m].title
        <4>1. Same(index'[m], objects[m])
          BY <1>6, <1>8, <2>3, <3>1, <3>5 DEF Same
        <4>2. QED
          BY <3>3, <4>1
      <3>6. CASE Same(index[m], objects[m]) /\ ~(o.kind = "update" /\ o.row.title = objects[m].title)
        <4>1. Live(objects[m])
          BY <3>1, <3>6 DEF Same
        <4>2. Tells(i, m)'
          BY <1>2, <2>3, <3>1, <3>2, <3>6 DEF Tells, Answered
        <4>3. QED
          BY <3>3, <4>1, <4>2
      <3>7. QED
        BY <3>4, <3>5, <3>6
    <2>4. QED
      BY <2>2, <2>3
  <1>19. lost' >= lost
    BY <1>2, <1>3 DEF Typed
  <1>20. QED
    BY <1>1, <1>2, <1>10, <1>11, <1>12, <1>14, <1>15, <1>16, <1>17, <1>18, <1>19, PatchKeeps
\* What is asked of an event that is no answer, no one waits to hear.
LEMMA HeardAlike ==
    ASSUME IInv, NEW i \in Next1, NEW o \in Writes, Enqueue(i, o), o.kind \notin {"reply", "respond"},
           given' = given
    PROVE  Heard'
  <1>1. /\ told' = told /\ lost' = lost /\ op'[i] = o /\ out' = out
        /\ \A j \in Ops \ {i} : row'[j] = row[j] /\ op'[j] = op[j] /\ at'[j] = at[j]
    BY Enqueued
  <1>2. \A j \in Ops : Waits(j)' => Waits(j)
    BY <1>1 DEF Waits
  <1>3. Typed /\ Heard /\ given \in Nat /\ lost \in Nat
    BY DEF IInv, Typed
  <1>4. QED
    BY <1>1, <1>2, <1>3, HeardSame

\* An answer that is asked for is one to be heard.
LEMMA HeardMore ==
    ASSUME IInv, NEW i \in Next1, NEW o \in Writes, Enqueue(i, o), given' = given + 1
    PROVE  Heard'
  <1>1. /\ told' = told /\ lost' = lost /\ out' = out /\ i \in Ops
        /\ \A j \in Ops \ {i} : row'[j] = row[j] /\ op'[j] = op[j] /\ at'[j] = at[j]
    BY Enqueued, Unwritten
  <1>2. \A j \in Ops \ {i} : Waits(j)' => Waits(j)
    BY <1>1 DEF Waits
  <1>3. Typed /\ Heard
    BY DEF IInv
  <1>4. QED
    BY <1>1, <1>2, <1>3, HeardAsked

\* A new event is a row.
LEMMA FreshTyped ==
    ASSUME NEW u \in UIDs, NEW t \in AllTitles, NEW r \in Replies
    PROVE  Fresh(u, t, r) \in Rows /\ Live(Fresh(u, t, r)) /\ Fresh(u, t, r).raw = NoRaw
           /\ Fresh(u, t, r).uid = u
  BY DEF Fresh, Rows, Live, NoRaw, AllTitles

\* An event is made.
LEMMA CreateKeeps == ASSUME IInv, NEW t \in Titles, CreateEvent(t) PROVE IInv'
  <1>1. PICK i \in Next1 : /\ PatchEvent(i, [kind |-> "create", key |-> -i, row |-> Fresh("own", t, "no")])
                           /\ Enqueue(i, [kind |-> "create", key |-> -i, row |-> Fresh("own", t, "no")])
                           /\ UNCHANGED <<recorded, filing, given>>
    BY DEF CreateEvent
  <1> DEFINE o == [kind |-> "create", key |-> -i, row |-> Fresh("own", t, "no")]
  <1>2. Fresh("own", t, "no") \in Rows /\ Live(Fresh("own", t, "no")) /\ Fresh("own", t, "no").raw = NoRaw
    BY FreshTyped DEF UIDs, AllTitles, Replies
  <1>3. i \in Ops /\ -i \in Keys
    BY Unwritten, Keyed
  <1>4. o \in Writes /\ o.kind = "create" /\ o.key = -i /\ o.row = Fresh("own", t, "no")
    BY <1>2, <1>3 DEF Writes, Kinds
  <1>5. PatchEvent(i, o) /\ Enqueue(i, o)
    BY <1>1
  <1> HIDE DEF o
  <1>6. Heard'
    BY <1>1, <1>4, <1>5, HeardAlike
  <1>7. FilingSound'
    BY <1>1, <1>4, <1>5, FilingAsked
  <1>8. recorded' \in Replies /\ filing' \in Replies /\ given' \in Nat
    BY <1>1 DEF IInv, Typed
  <1>9. QED
    BY <1>2, <1>4, <1>5, <1>6, <1>7, <1>8, AskKeeps

\* An event gets another title.
LEMMA UpdateKeeps == ASSUME IInv, NEW k \in Keys, NEW t \in Titles, UpdateEvent(k, t) PROVE IInv'
  <1>1. PICK i \in Next1 :
            /\ PatchEvent(i, [kind |-> "update", key |-> k, row |-> [index[k] EXCEPT !.title = t]])
            /\ Enqueue(i, [kind |-> "update", key |-> k, row |-> [index[k] EXCEPT !.title = t]])
            /\ Live(index[k]) /\ UNCHANGED <<recorded, filing, given>>
    BY DEF UpdateEvent
  <1> DEFINE r == [index[k] EXCEPT !.title = t]
             o == [kind |-> "update", key |-> k, row |-> r]
  <1>2. index[k] \in Rows /\ t \in AllTitles
    BY DEF IInv, Typed, AllTitles
  <1>3. /\ r \in Rows /\ r.st = index[k].st /\ r.raw = index[k].raw /\ r.base = index[k].base
        /\ r.resp = index[k].resp
    BY <1>2 DEF Rows
  <1>4. o \in Writes /\ o.kind = "update" /\ o.key = k /\ o.row = r
    BY <1>3 DEF Writes, Kinds
  <1>5. PatchEvent(i, o) /\ Enqueue(i, o)
    BY <1>1
  <1> HIDE DEF o, r
  <1>6. Heard'
    BY <1>1, <1>4, <1>5, HeardAlike
  <1>7. FilingSound'
    BY <1>1, <1>4, <1>5, FilingAsked
  <1>8. recorded' \in Replies /\ filing' \in Replies /\ given' \in Nat
    BY <1>1 DEF IInv, Typed
  <1>9. Live(o.row)
    BY <1>1, <1>3, <1>4 DEF Live
  <1>10. QED
    BY <1>1, <1>3, <1>4, <1>5, <1>6, <1>7, <1>8, <1>9, AskKeeps

\* An event is taken off the calendar.
LEMMA DeleteKeeps == ASSUME IInv, NEW k \in Keys, DeleteEvent(k) PROVE IInv'
  <1>1. PICK i \in Next1 :
            /\ PatchEvent(i, [kind |-> "delete", key |-> k, row |-> index[k]])
            /\ Enqueue(i, [kind |-> "delete", key |-> k, row |-> index[k]])
            /\ Live(index[k]) /\ UNCHANGED <<recorded, filing, given>>
    BY DEF DeleteEvent
  <1> DEFINE o == [kind |-> "delete", key |-> k, row |-> index[k]]
  <1>2. index[k] \in Rows
    BY DEF IInv, Typed
  <1>3. o \in Writes /\ o.kind = "delete" /\ o.key = k
    BY <1>2 DEF Writes, Kinds
  <1>4. PatchEvent(i, o) /\ Enqueue(i, o)
    BY <1>1
  <1> HIDE DEF o
  <1>5. Heard'
    BY <1>1, <1>3, <1>4, HeardAlike
  <1>6. FilingSound'
    BY <1>1, <1>3, <1>4, FilingAsked
  <1>7. recorded' \in Replies /\ filing' \in Replies /\ given' \in Nat
    BY <1>1 DEF IInv, Typed
  <1>8. QED
    BY <1>1, <1>3, <1>4, <1>5, <1>6, <1>7, AskKeeps

\* An invitation some calendar holds is answered.
LEMMA RespondKeeps ==
    ASSUME IInv, NEW k \in Keys, NEW a \in {"declined", "accepted"}, RespondEvent(k, a) PROVE IInv'
  <1>1. PICK i \in Next1 :
            /\ PatchEvent(i, [kind |-> "respond", key |-> k, row |-> [index[k] EXCEPT !.resp = a]])
            /\ Enqueue(i, [kind |-> "respond", key |-> k, row |-> [index[k] EXCEPT !.resp = a]])
            /\ Live(index[k]) /\ given' = given + 1 /\ UNCHANGED <<recorded, filing>>
    BY DEF RespondEvent
  <1> DEFINE r == [index[k] EXCEPT !.resp = a]
             o == [kind |-> "respond", key |-> k, row |-> r]
  <1>2. index[k] \in Rows /\ a \in Replies
    BY DEF IInv, Typed, Replies
  <1>3. r \in Rows /\ r.st = index[k].st /\ r.raw = index[k].raw /\ r.base = index[k].base
    BY <1>2 DEF Rows
  <1>4. o \in Writes /\ o.kind = "respond" /\ o.key = k /\ o.row = r
    BY <1>3 DEF Writes, Kinds
  <1>5. PatchEvent(i, o) /\ Enqueue(i, o)
    BY <1>1
  <1> HIDE DEF o, r
  <1>6. Heard'
    BY <1>1, <1>4, <1>5, HeardMore
  <1>7. FilingSound'
    BY <1>1, <1>4, <1>5, FilingAsked
  <1>8. recorded' \in Replies /\ filing' \in Replies /\ given' \in Nat
    BY <1>1 DEF IInv, Typed
  <1>9. Live(o.row)
    BY <1>1, <1>3, <1>4 DEF Live
  <1>10. QED
    BY <1>1, <1>3, <1>4, <1>5, <1>6, <1>7, <1>8, <1>9, AskKeeps

\* An invitation that has been accepted by mail is filed, and one declined is not.
LEMMA FileInvitedKeeps == ASSUME IInv, FileInvitedEvent PROVE IInv'
  <1>1. CASE filing = "declined" /\ filing' = "no"
              /\ UNCHANGED <<server, database, outbox, pushes, pass, history>>
    <2>1. UNCHANGED <<backend, mailed, objects, clock, index, shown, token, recorded, row, op, at, by, out,
                      got, seen, undo, pc, snap, spoiled, told, given, lost, made, spent>>
      BY <1>1 DEF server, database, outbox, pushes, pass, history
    <2>2. Typed'
      BY <1>1, <2>1 DEF IInv, Typed, Replies
    <2>3. Timed' /\ Drawn' /\ OneInvited' /\ Heard'
      BY <2>1 DEF IInv, Timed, Drawn, OneInvited, Heard, Unheard, Waits
    <2>4. \A i \in Ops : OpSound(i)' /\ Touched(i)' /\ Placed(i)' /\ Paid(i)'
      BY <2>1 DEF IInv, OpSound, Touched, Placed, Paid, Answered
    <2>5. \A k \in Ids : Known(k)' /\ Explained(k)'
      BY <2>1 DEF IInv, Known, Explained, Tells, Answered
    <2>6. FilingSound'
      BY <1>1, <2>1 DEF IInv, FilingSound, Undisturbed, Invited, Files, Answered
    <2>7. QED
      BY <2>2, <2>3, <2>4, <2>5, <2>6 DEF IInv
  <1>2. CASE filing = "accepted" /\ \E i \in Next1 :
            /\ PatchEvent(i, [kind |-> "create", key |-> -i, row |-> Fresh("inv", Given, filing)])
            /\ Enqueue(i, [kind |-> "create", key |-> -i, row |-> Fresh("inv", Given, filing)])
            /\ filing' = "no" /\ UNCHANGED <<recorded, given>>
    <2>1. PICK i \in Next1 :
            /\ PatchEvent(i, [kind |-> "create", key |-> -i, row |-> Fresh("inv", Given, filing)])
            /\ Enqueue(i, [kind |-> "create", key |-> -i, row |-> Fresh("inv", Given, filing)])
            /\ filing' = "no" /\ UNCHANGED <<recorded, given>>
      BY <1>2
    <2> DEFINE f == Fresh("inv", Given, filing)
               o == [kind |-> "create", key |-> -i, row |-> f]
    <2>2. f \in Rows /\ Live(f) /\ f.raw = NoRaw /\ f.uid = "inv"
      <3>1. filing \in Replies /\ Given \in AllTitles /\ "inv" \in UIDs
        BY DEF IInv, Typed, AllTitles, UIDs
      <3>2. QED
        BY <3>1, FreshTyped
    <2>3. i \in Ops /\ -i \in Keys
      BY Unwritten, Keyed
    <2> HIDE DEF f
    <2>4. o \in Writes /\ o.kind = "create" /\ o.key = -i /\ o.row = f
      BY <2>2, <2>3 DEF Writes, Kinds
    <2>5. PatchEvent(i, o) /\ Enqueue(i, o)
      BY <2>1 DEF f
    <2> HIDE DEF o
    <2>6. Heard'
      BY <2>1, <2>4, <2>5, HeardAlike
    <2>7. FilingSound'
      BY <2>1, <2>2, <2>4, <2>5, FilingAsked
    <2>8. recorded' \in Replies /\ filing' \in Replies /\ given' \in Nat
      BY <2>1 DEF IInv, Typed, Replies
    <2>9. QED
      BY <2>2, <2>4, <2>5, <2>6, <2>7, <2>8, AskKeeps
  <1>3. QED
    BY <1>1, <1>2 DEF FileInvitedEvent

\* An invitation that no calendar holds is answered by mail.
LEMMA RespondByMailKeeps ==
    ASSUME IInv, NEW a \in {"declined", "accepted"}, RespondByMail(a) PROVE IInv'
  <1>1. PICK i \in Next1 : /\ Enqueue(i, [kind |-> "reply", key |-> 0, row |-> Fresh("inv", Given, a)])
                           /\ given' = given + 1 /\ UNCHANGED <<index, shown, undo, recorded, filing>>
    BY DEF RespondByMail
  <1> DEFINE f == Fresh("inv", Given, a)
             o == [kind |-> "reply", key |-> 0, row |-> f]
  <1>2. f \in Rows
    BY FreshTyped DEF UIDs, AllTitles, Replies
  <1> HIDE DEF f
  <1>3. o \in Writes /\ o.kind = "reply" /\ o.key = 0
    BY <1>2 DEF Writes, Kinds
  <1>4. Enqueue(i, o)
    BY <1>1 DEF f
  <1> HIDE DEF o
  <1>5. /\ i \in Ops /\ row[i] = "none" /\ op[i].kind = "none" /\ at[i] = "no" /\ out[i] = "ok"
        /\ undo[i].key = 0 /\ index[-i] = NoRow /\ \A j \in Ops : op[j].key # -i
    BY Unwritten
  <1>6. /\ UNCHANGED <<backend, mailed, objects, clock, token, pc, snap, out, got, seen,
                       spoiled, told, lost, made, spent>>
        /\ row' \in [Ops -> {"none", "pending", "done", "failed"}] /\ op' \in [Ops -> Writes]
        /\ at' \in [Ops -> {"no", "call", "write", "answered", "after"}]
        /\ by' \in [Ops -> {"asker", "daemon"}]
        /\ row'[i] = "pending" /\ op'[i] = o /\ at'[i] = "call" /\ by'[i] = "asker"
        /\ \A j \in Ops \ {i} : row'[j] = row[j] /\ op'[j] = op[j] /\ at'[j] = at[j] /\ by'[j] = by[j]
    BY <1>3, <1>4, Enqueued
  <1>7. Typed /\ Touched(i) /\ Paid(i) /\ Drawn /\ given \in Nat
    BY <1>5 DEF IInv, Typed
  <1>8. Heard' /\ FilingSound'
    BY <1>1, <1>3, <1>4, HeardMore, FilingAsked
  <1>9. \A j \in Ops \ {i} : SameOp(j)
    BY <1>1, <1>6 DEF SameOp
  <1>10. Typed'
    BY <1>1, <1>6, <1>7 DEF Typed
  <1>11. OpSound(i)' /\ Touched(i)' /\ Paid(i)'
    <2>1. OpSound(i)'
      BY <1>1, <1>3, <1>5, <1>6 DEF OpSound
    <2>2. Touched(i)'
      BY <1>3, <1>6, <1>7, Keyed DEF Touched
    <2>3. QED
      BY <1>5, <1>6, <1>7, <2>1, <2>2 DEF Paid, Answered
  <1>12. ASSUME NEW j \in Ops PROVE Placed(j)'
    <2>1. Placed(j) /\ -j \in Keys
      BY Keyed DEF IInv
    <2>2. \A m \in Ops : op[m].key # -j => op'[m].key # -j
      BY <1>3, <1>6, <2>1, Keyed
    <2>3. CASE j = i
      BY <1>1, <1>5, <1>6, <2>2, <2>3 DEF Placed, Live, NoRow
    <2>4. CASE j # i
      BY <1>1, <1>6, <2>1, <2>2, <2>4 DEF Placed
    <2>5. QED
      BY <2>3, <2>4
  <1>13. Drawn' /\ lost' >= lost /\ (spoiled => spoiled')
    BY <1>1, <1>6, <1>7 DEF Drawn, Typed
  <1>14. \A k \in Ids : Live(index'[k]) => objects[k].st # "none"
    BY <1>1 DEF IInv, Known
  <1>15. \A k \in Ids : ~spoiled' /\ objects[k].ver <= token =>
              /\ \/ Same(index'[k], objects[k])
                 \/ Live(objects[k]) /\ \E j \in Ops \ {i} : Tells(j, k)
              /\ backend = "jmap" /\ Live(index'[k]) /\ index'[k].raw # NoRaw =>
                      index'[k].base = objects[k].title
    <2>1. \A k \in Ids : ~Tells(i, k)
      BY <1>5 DEF Tells
    <2>2. QED
      BY <1>1, <1>6, <2>1 DEF IInv, Explained
  <1>16. QED
    BY <1>5, <1>6, <1>8, <1>9, <1>10, <1>11, <1>12, <1>13, <1>14, <1>15, PatchKeeps
-----------------------------------------------------------------------------
(* What the calendar server does.                                          *)

\* A create makes an event, which for an invitation is the only one.
Makes(i, e) ==
    \E k \in Room, x \in Objects :
        /\ e = Said("ok", Changed(k, x), k) /\ op[i].kind = "create" /\ Live(x)
        /\ x.uid = op[i].row.uid /\ (x.uid = "inv" => Filed = {})

\* An invitation that is filed is found.
Finds(i, e) == Files(i) /\ \E k \in Filed : e = Said("ok", objects, k)

\* An event is changed: the one the write is about, or the invitation's.
Alters(i, e) ==
    \E k \in Ids, x \in Objects, id \in Ids \cup {0} :
        /\ e = Said("ok", Changed(k, x), id) /\ Live(objects[k]) /\ x.uid = objects[k].uid
        /\ Live(x) \/ (x.st = "gone" /\ op[i].kind = "delete")
        /\ id \in {0, k} /\ (op[i].kind = "create" => id = k)
        /\ op[i].key = k \/ (Files(i) /\ k \in Filed)

\* Nothing is to be done.
Leaves(i, e) ==
    \E id \in Ids \cup {0} :
        /\ e = Said("ok", objects, id) /\ op[i].kind # "create" /\ (id \in Ids => Live(objects[id]))
        /\ \A k \in Ids : Live(objects[k]) => ~Tells(i, k)

\* Or it is refused.
Refuses(i, e) ==
    /\ e = Refused /\ op[i].kind \in {"create", "update", "respond"}
    /\ op[i].kind = "create" => Files(i) /\ backend \notin Importers
    /\ backend = "jmap" /\ op[i].kind # "create" => ~(op[i].key \in Ids /\ Live(objects[op[i].key]))

\* An event with another title and answer is an event.
LEMMA Retitled ==
    ASSUME NEW x \in Objects, NEW r \in Rows
    PROVE  /\ [x EXCEPT !.title = r.title, !.resp = r.resp] \in Objects
           /\ [x EXCEPT !.title = r.title, !.resp = r.resp].uid = x.uid
           /\ [x EXCEPT !.title = r.title, !.resp = r.resp].st = x.st
           /\ [x EXCEPT !.title = r.title] \in Objects /\ [x EXCEPT !.title = r.title].uid = x.uid
           /\ [x EXCEPT !.title = r.title].st = x.st
           /\ [x EXCEPT !.resp = r.resp] \in Objects /\ [x EXCEPT !.resp = r.resp].uid = x.uid
           /\ [x EXCEPT !.resp = r.resp].st = x.st
           /\ [x EXCEPT !.st = "gone"] \in Objects /\ [x EXCEPT !.st = "gone"].uid = x.uid
           /\ [x EXCEPT !.st = "gone"].st = "gone"
  BY DEF Objects, Rows

\* A create.
LEMMA CreatedMakes ==
    ASSUME IInv, NEW i \in Ops, Room # {}, op[i].kind = "create",
           op[i].row.uid = "inv" => Filed = {}
    PROVE  Makes(i, Created(op[i]))
  <1> DEFINE k == CHOOSE k \in Room : \A j \in Room : k <= j
             x == [st |-> "live", uid |-> op[i].row.uid, title |-> op[i].row.title,
                   resp |-> op[i].row.resp, ver |-> 0]
  <1>1. k \in Room
    <2>1. Room \in SUBSET Nat
      BY Keyed DEF Room
    <2>2. \E l \in Room : \A j \in Room : l <= j
      BY <2>1, Least
    <2>3. QED
      BY <2>2
  <1>2. op[i].row \in Rows
    BY DEF IInv, Typed, Writes
  <1>3. x \in Objects /\ x.st = "live" /\ x.uid = op[i].row.uid
    BY <1>2 DEF Objects, Rows
  <1>4. Created(op[i]) = Said("ok", Changed(k, x), k)
    BY DEF Created
  <1> HIDE DEF k, x
  <1>5. QED
    BY <1>1, <1>3, <1>4 DEF Makes, Live

\* An invitation is filed, silently where the server can.
LEMMA ImportedOutcome ==
    ASSUME IInv, NEW i \in Ops, Room # {}, Files(i), NEW e, e = Imported(op[i])
    PROVE  Makes(i, e) \/ Finds(i, e) \/ Alters(i, e) \/ Refuses(i, e)
  <1>1. CASE backend \notin Importers
    BY <1>1 DEF Imported, Refuses, Files
  <1>2. CASE backend \in Importers /\ Filed = {}
    <2>1. e = Created(op[i])
      BY <1>2 DEF Imported, CalDAVImport, GoogleImport
    <2>2. QED
      BY <1>2, <2>1, CreatedMakes DEF Files
  <1>3. CASE backend \in Importers /\ Filed # {}
    <2> DEFINE k == CHOOSE k \in Filed : TRUE
    <2>1. k \in Filed
      BY <1>3
    <2>2. k \in Ids /\ Live(objects[k]) /\ objects[k] \in Objects /\ op[i].row \in Rows
      BY <2>1 DEF Filed, IInv, Typed, Writes
    <2>3. \/ e = Said("ok", objects, k)
          \/ e = Said("ok", Changed(k, [objects[k] EXCEPT !.title = op[i].row.title, !.resp = op[i].row.resp]), k)
      BY <1>3 DEF Imported, CalDAVImport, GoogleImport
    <2> HIDE DEF k
    <2>4. CASE e = Said("ok", objects, k)
      BY <2>1, <2>4 DEF Finds
    <2>5. CASE e = Said("ok", Changed(k, [objects[k] EXCEPT !.title = op[i].row.title, !.resp = op[i].row.resp]), k)
      <3> DEFINE x == [objects[k] EXCEPT !.title = op[i].row.title, !.resp = op[i].row.resp]
      <3>1. x \in Objects /\ x.uid = objects[k].uid /\ x.st = objects[k].st
        BY <2>2, Retitled
      <3>2. e = Said("ok", Changed(k, x), k)
        BY <2>5
      <3> HIDE DEF x
      <3>3. QED
        BY <2>1, <2>2, <3>1, <3>2 DEF Alters, Live
    <2>6. QED
      BY <2>3, <2>4, <2>5
  <1>4. QED
    BY <1>1, <1>2, <1>3

\* A change is compared with the version, laid over what is there, or reduced to the difference.
LEMMA UpdatedOutcome ==
    ASSUME IInv, NEW i \in Ops, op[i].kind = "update", at[i] = "write", NEW e, e = Updated(op[i], seen[i])
    PROVE  Alters(i, e) \/ Leaves(i, e) \/ Refuses(i, e)
  <1> DEFINE o == op[i]
             k == o.key
  <1>1. CASE k \notin Ids \/ ~Live(objects[k])
    BY <1>1 DEF Updated, Refuses
  <1>2. CASE k \in Ids /\ Live(objects[k])
    <2> DEFINE x == [objects[k] EXCEPT !.title = o.row.title, !.resp = o.row.resp]
               y == [objects[k] EXCEPT !.title = o.row.title]
    <2>1. objects[k] \in Objects /\ o.row \in Rows /\ k # 0
      BY <1>2, Keyed DEF IInv, Typed, Writes
    <2>2. /\ x \in Objects /\ x.uid = objects[k].uid /\ x.st = objects[k].st
          /\ y \in Objects /\ y.uid = objects[k].uid /\ y.st = objects[k].st
      BY <2>1, Retitled
    <2>3. \/ e = Said("ok", Changed(k, x), k) \/ e = Said("ok", Changed(k, y), k)
          \/ e = Refused /\ backend # "jmap"
          \/ backend = "jmap" /\ o.row.title = seen[i].title /\ e = Said("ok", objects, k)
      <3>1. backend \in {"caldav", "google", "jmap"}
        BY EventAssumption DEF IInv, Typed
      <3>2. QED
        BY <1>2, <3>1 DEF Updated, CalDAVUpdate, GoogleUpdate, JMAPUpdate
    <2> HIDE DEF x, y
    <2>4. CASE e = Said("ok", Changed(k, x), k)
      BY <1>2, <2>2, <2>4 DEF Alters, Live
    <2>5. CASE e = Said("ok", Changed(k, y), k)
      BY <1>2, <2>2, <2>5 DEF Alters, Live
    <2>6. CASE e = Refused /\ backend # "jmap"
      BY <2>6 DEF Refuses
    <2>7. CASE backend = "jmap" /\ o.row.title = seen[i].title /\ e = Said("ok", objects, k)
      <3>1. \A m \in Ids : ~Tells(i, m)
        BY <2>7 DEF Tells
      <3>2. QED
        BY <1>2, <2>7, <3>1 DEF Leaves
    <2>8. QED
      BY <2>3, <2>4, <2>5, <2>6, <2>7
  <1>3. QED
    BY <1>1, <1>2

\* An answer is compared with the version, or laid over what is there.
LEMMA RespondedOutcome ==
    ASSUME IInv, NEW i \in Ops, op[i].kind = "respond", at[i] = "write", NEW e, e = Responded(op[i], seen[i])
    PROVE  Alters(i, e) \/ Refuses(i, e)
  <1> DEFINE o == op[i]
             k == o.key
  <1>1. k \in Ids
    BY DEF IInv, OpSound
  <1>2. CASE ~Live(objects[k])
    BY <1>2 DEF Responded, Refuses
  <1>3. CASE Live(objects[k])
    <2> DEFINE x == [objects[k] EXCEPT !.resp = o.row.resp]
    <2>1. objects[k] \in Objects /\ o.row \in Rows
      BY <1>1 DEF IInv, Typed, Writes
    <2>2. x \in Objects /\ x.uid = objects[k].uid /\ x.st = objects[k].st
      BY <2>1, Retitled
    <2>3. e = Said("ok", Changed(k, x), k) \/ (e = Refused /\ backend # "jmap")
      <3>1. backend \in {"caldav", "google", "jmap"}
        BY EventAssumption DEF IInv, Typed
      <3>2. QED
        BY <1>3, <3>1 DEF Responded, CalDAVRespond, GoogleRespond, JMAPRespond
    <2> HIDE DEF x
    <2>4. CASE e = Said("ok", Changed(k, x), k)
      BY <1>1, <1>3, <2>2, <2>4 DEF Alters, Live
    <2>5. CASE e = Refused /\ backend # "jmap"
      BY <2>5 DEF Refuses
    <2>6. QED
      BY <2>3, <2>4, <2>5
  <1>4. QED
    BY <1>2, <1>3

\* What is gone is gone already.
LEMMA DeletedOutcome ==
    ASSUME IInv, NEW i \in Ops, op[i].kind = "delete", NEW e, e = Deleted(op[i])
    PROVE  Alters(i, e) \/ Leaves(i, e)
  <1> DEFINE o == op[i]
             k == o.key
             x == [objects[k] EXCEPT !.st = "gone"]
  <1>1. CASE k \in Ids /\ Live(objects[k])
    <2>1. NoRow \in Rows /\ objects[k] \in Objects
      BY <1>1, Nothing DEF IInv, Typed
    <2>2. x \in Objects /\ x.uid = objects[k].uid /\ x.st = "gone"
      BY <2>1, Retitled
    <2>3. e = Said("ok", Changed(k, x), 0)
      BY <1>1 DEF Deleted
    <2> HIDE DEF x
    <2>4. QED
      BY <1>1, <2>2, <2>3 DEF Alters
  <1>2. CASE ~(k \in Ids /\ Live(objects[k]))
    <2>1. e = Said("ok", objects, 0)
      BY <1>2 DEF Deleted
    <2>2. \A m \in Ids : Live(objects[m]) => ~Tells(i, m)
      BY <1>2 DEF Tells
    <2>3. QED
      BY <2>1, <2>2, Keyed DEF Leaves
  <1>3. QED
    BY <1>1, <1>2

\* What a call does, whatever it is.
LEMMA Outcomes ==
    ASSUME IInv, NEW i \in Ops, at[i] = "write", op[i].kind = "create" => Room # {}, NEW e, e = Executed(i)
    PROVE  Makes(i, e) \/ Finds(i, e) \/ Alters(i, e) \/ Leaves(i, e) \/ Refuses(i, e)
  <1>1. op[i].kind \in Kinds /\ op[i].row.uid \in UIDs
    BY DEF IInv, Typed, Writes, Rows
  <1>2. CASE op[i].kind = "create" /\ op[i].row.uid = "own"
    <2>1. e = Created(op[i])
      BY <1>2 DEF Executed
    <2>2. QED
      BY <1>2, <2>1, CreatedMakes
  <1>3. CASE op[i].kind = "create" /\ op[i].row.uid = "inv"
    <2>1. e = Imported(op[i])
      BY <1>3 DEF Executed
    <2>2. QED
      BY <1>3, <2>1, ImportedOutcome DEF Files
  <1>4. CASE op[i].kind = "update"
    <2>1. e = Updated(op[i], seen[i])
      BY <1>4 DEF Executed
    <2>2. QED
      BY <1>4, <2>1, UpdatedOutcome
  <1>5. CASE op[i].kind = "respond"
    <2>1. e = Responded(op[i], seen[i])
      BY <1>5 DEF Executed
    <2>2. QED
      BY <1>5, <2>1, RespondedOutcome
  <1>6. CASE op[i].kind = "delete"
    <2>1. e = Deleted(op[i])
      BY <1>6 DEF Executed
    <2>2. QED
      BY <1>6, <2>1, DeletedOutcome
  <1>7. CASE op[i].kind \in {"none", "reply"}
    <2>1. e = Said("ok", objects, 0)
      BY <1>7 DEF Executed
    <2>2. \A k \in Ids : ~Tells(i, k)
      BY <1>7 DEF Tells
    <2>3. QED
      BY <1>7, <2>1, <2>2, Keyed DEF Leaves
  <1>8. QED
    BY <1>1, <1>2, <1>3, <1>4, <1>5, <1>6, <1>7 DEF Kinds, UIDs
-----------------------------------------------------------------------------
(* A change of the calendar.                                               *)

\* One event is made or changed, by a write or by another client.
LEMMA CalendarChanges ==
    ASSUME IInv, NEW k \in Ids, NEW x \in Objects, objects' = Changed(k, x), clock' = clock + 1,
           x.st # "none", objects[k].st # "gone", Live(objects[k]) => x.uid = objects[k].uid,
           objects[k].st = "none" /\ x.uid = "inv" => Filed = {},
           UNCHANGED <<backend, index, shown, token, pc, snap>>
    PROVE  /\ objects' \in [Ids -> Objects] /\ clock' \in Nat
           /\ objects'[k].st = x.st /\ objects'[k].uid = x.uid /\ ~(objects'[k].ver <= token)
           /\ \A m \in Ids \ {k} : objects'[m] = objects[m]
           /\ Timed' /\ OneInvited' /\ Drawn' /\ \A m \in Ids : Known(m)'
  <1>1. /\ objects \in [Ids -> Objects] /\ clock \in Nat /\ token \in Nat /\ token <= clock
        /\ snap.clock \in Nat
    BY DEF IInv, Typed, Timed
  <1>2. [x EXCEPT !.ver = clock + 1] \in Objects
    BY <1>1 DEF Objects
  <1>3. /\ objects' \in [Ids -> Objects] /\ objects'[k] = [x EXCEPT !.ver = clock + 1]
        /\ \A m \in Ids \ {k} : objects'[m] = objects[m]
    BY <1>1, <1>2 DEF Changed
  <1>4. objects'[k].st = x.st /\ objects'[k].uid = x.uid /\ objects'[k].ver = clock + 1
    BY <1>3 DEF Objects
  <1>5. clock' \in Nat /\ ~(objects'[k].ver <= token)
    BY <1>1, <1>4
  <1>6. Timed'
    <2>1. Timed /\ \A m \in Ids : objects[m].ver \in Nat
      BY <1>1 DEF IInv, Objects
    <2>2. \A m \in Ids : objects'[m].ver <= clock'
      <3>1. \A m \in Ids \ {k} : objects'[m].ver <= clock + 1
        BY <1>1, <1>3, <2>1 DEF Timed
      <3>2. QED
        BY <1>1, <1>4, <3>1
    <2>3. pc = "store" => /\ token <= snap.clock /\ snap.clock <= clock'
                          /\ \A m \in Ids : objects'[m].ver <= snap.clock => snap.objects[m] = objects'[m]
      <3> SUFFICES ASSUME pc = "store"
                   PROVE  /\ token <= snap.clock /\ snap.clock <= clock'
                          /\ \A m \in Ids : objects'[m].ver <= snap.clock => snap.objects[m] = objects'[m]
        OBVIOUS
      <3>1. /\ token <= snap.clock /\ snap.clock <= clock
            /\ \A m \in Ids : objects[m].ver <= snap.clock => snap.objects[m] = objects[m]
        BY <2>1 DEF Timed
      <3>2. snap.clock <= clock' /\ ~(objects'[k].ver <= snap.clock)
        BY <1>1, <1>4, <3>1
      <3>3. QED
        BY <1>3, <3>1, <3>2
    <2>4. token <= clock'
      BY <1>1
    <2>5. QED
      BY <2>2, <2>3, <2>4 DEF Timed
  <1>7. OneInvited'
    <2>1. OneInvited /\ objects[k].st \in {"none", "live", "gone"}
      BY <1>1 DEF IInv, Objects
    <2>2. \A m \in Ids \ {k} : Live(objects'[m]) /\ objects'[m].uid = "inv" =>
                Live(objects[m]) /\ objects[m].uid = "inv" /\ m \in Filed
      BY <1>3 DEF Filed
    <2>3. Live(objects'[k]) /\ objects'[k].uid = "inv" =>
                (Live(objects[k]) /\ objects[k].uid = "inv") \/ Filed = {}
      BY <1>4, <2>1 DEF Live
    <2>4. QED
      BY <2>1, <2>2, <2>3 DEF OneInvited
  <1>8. Drawn'
    BY DEF IInv, Drawn
  <1>9. \A m \in Ids : Known(m)'
    BY <1>3, <1>4 DEF IInv, Known
  <1>10. QED
    BY <1>3, <1>4, <1>5, <1>6, <1>7, <1>8, <1>9

\* What a write is about stays known, and what was gone stays gone.
LEMMA TouchedKeeps ==
    ASSUME IInv, NEW j \in Ops, SameOp(j), backend' = backend,
           \A m \in Ids : objects[m].st # "none" =>
                objects'[m].st # "none" /\ (~Live(objects[m]) => ~Live(objects'[m]))
    PROVE  Touched(j)'
  <1>1. Touched(j)
    BY DEF IInv
  <1>2. QED
    BY <1>1 DEF Touched, SameOp

\* What a write has not changed is still explained.
LEMMA ExplainedKeeps ==
    ASSUME IInv, NEW m \in Ids, NEW i \in Ops, \A j \in Ops \ {i} : SameOp(j), lost' \in Nat, lost' >= lost,
           UNCHANGED <<backend, index, token, spoiled>>, objects'[m] = objects[m],
           Live(objects[m]) /\ Tells(i, m) => Tells(i, m)'
    PROVE  Explained(m)'
  <1>1. Explained(m)
    BY DEF IInv
  <1>2. \A j \in Ops \ {i} : Tells(j, m)' <=> Tells(j, m)
    BY OthersKeep
  <1>3. Live(objects[m]) /\ (\E j \in Ops : Tells(j, m)) => \E j \in Ops : Tells(j, m)'
    BY <1>2
  <1>4. QED
    BY <1>1, <1>3 DEF Explained

\* Another client of the calendar.
LEMMA ElsewhereKeeps ==
    ASSUME IInv, NEW k \in Ids, NEW x \in Objects, Elsewhere(k, x),
           x.st # "none", objects[k].st # "gone", Live(objects[k]) => x.uid = objects[k].uid,
           objects[k].st = "none" /\ x.uid = "inv" => Filed = {}
    PROVE  IInv'
  <1>1. /\ UNCHANGED <<backend, mailed, index, shown, token, recorded, row, op, at, by, out, got, seen, undo,
                       filing, pc, snap, spoiled, told, given, lost, made>>
        /\ objects' = Changed(k, x) /\ clock' = clock + 1 /\ Spend("edits", MaxEdits)
    BY DEF Elsewhere, database, outbox, pushes, pass
  <1>2. Typed /\ spent \in [edits : Nat, losses : Nat, crashes : Nat]
    BY DEF IInv, Typed
  <1>3. /\ objects' \in [Ids -> Objects] /\ clock' \in Nat
        /\ objects'[k].st = x.st /\ objects'[k].uid = x.uid /\ ~(objects'[k].ver <= token)
        /\ \A m \in Ids \ {k} : objects'[m] = objects[m]
        /\ Timed' /\ OneInvited' /\ Drawn' /\ \A m \in Ids : Known(m)'
    BY <1>1, CalendarChanges
  <1>4. spent' \in [edits : Nat, losses : Nat, crashes : Nat] /\ spent'.edits # 0
    BY <1>1, <1>2 DEF Spend
  <1>5. Typed'
    BY <1>1, <1>2, <1>3, <1>4 DEF Typed
  <1>6. \A j \in Ops : SameOp(j)
    BY <1>1 DEF SameOp
  <1>7. lost' \in Nat /\ lost' >= lost
    BY <1>1, <1>2 DEF Typed
  <1>8. \A j \in Ops : OpSound(j)' /\ Paid(j)' /\ Placed(j)'
    BY <1>1, <1>6, <1>7, OthersKeep DEF IInv, Placed
  <1>9. objects[k].st \in {"none", "live", "gone"}
    BY <1>2 DEF Typed, Objects
  <1>10. \A m \in Ids : objects[m].st # "none" =>
                objects'[m].st # "none" /\ (~Live(objects[m]) => ~Live(objects'[m]))
    BY <1>3, <1>9 DEF Live
  <1>11. \A j \in Ops : Touched(j)'
    BY <1>1, <1>6, <1>10, TouchedKeeps
  <1>12. ASSUME NEW m \in Ids PROVE Explained(m)'
    <2>1. CASE m = k
      BY <1>1, <1>3, <2>1 DEF Explained
    <2>2. CASE m # k
      <3>1. objects'[m] = objects[m] /\ Explained(m)
        BY <1>3, <2>2 DEF IInv
      <3>2. \A j \in Ops : Tells(j, m)' <=> Tells(j, m)
        BY <1>1, <1>6, <1>7, <3>1, OthersKeep
      <3>3. QED
        BY <1>1, <3>1, <3>2 DEF Explained
    <2>3. QED
      BY <2>1, <2>2
  <1>13. Heard' /\ FilingSound'
    BY <1>1, <1>4 DEF IInv, Heard, Unheard, Waits, FilingSound, Undisturbed
  <1>14. QED
    BY <1>3, <1>5, <1>8, <1>11, <1>12, <1>13 DEF IInv

\* Whatever it does.
LEMMA OtherClientsKeep ==
    ASSUME IInv, EditElsewhere \/ RespondElsewhere \/ DeleteElsewhere \/ FileElsewhere
    PROVE  IInv'
  <1>1. objects \in [Ids -> Objects]
    BY DEF IInv, Typed
  <1>2. CASE EditElsewhere
    <2>1. PICK k \in Ids, t \in Titles : Live(objects[k]) /\ Elsewhere(k, [objects[k] EXCEPT !.title = t])
      BY <1>2 DEF EditElsewhere
    <2> DEFINE x == [objects[k] EXCEPT !.title = t]
    <2>2. x \in Objects /\ x.st = objects[k].st /\ x.uid = objects[k].uid
      BY <1>1 DEF Objects, AllTitles
    <2>3. Elsewhere(k, x)
      BY <2>1
    <2> HIDE DEF x
    <2>4. QED
      BY <2>1, <2>2, <2>3, ElsewhereKeeps DEF Live
  <1>3. CASE RespondElsewhere
    <2>1. PICK k \in Ids : Live(objects[k]) /\ Elsewhere(k, [objects[k] EXCEPT !.resp = "accepted"])
      BY <1>3 DEF RespondElsewhere
    <2> DEFINE x == [objects[k] EXCEPT !.resp = "accepted"]
    <2>2. x \in Objects /\ x.st = objects[k].st /\ x.uid = objects[k].uid
      BY <1>1 DEF Objects, Replies
    <2>3. Elsewhere(k, x)
      BY <2>1
    <2> HIDE DEF x
    <2>4. QED
      BY <2>1, <2>2, <2>3, ElsewhereKeeps DEF Live
  <1>4. CASE DeleteElsewhere
    <2>1. PICK k \in Ids : Live(objects[k]) /\ Elsewhere(k, [objects[k] EXCEPT !.st = "gone"])
      BY <1>4 DEF DeleteElsewhere
    <2> DEFINE x == [objects[k] EXCEPT !.st = "gone"]
    <2>2. x \in Objects /\ x.st = "gone" /\ x.uid = objects[k].uid
      BY <1>1 DEF Objects
    <2>3. Elsewhere(k, x)
      BY <2>1
    <2> HIDE DEF x
    <2>4. QED
      BY <2>1, <2>2, <2>3, ElsewhereKeeps DEF Live
  <1>5. CASE FileElsewhere
    <2>1. PICK k \in Room : /\ \A j \in Ids : objects[j].uid # "inv"
                            /\ Elsewhere(k, First("inv"))
      BY <1>5 DEF FileElsewhere
    <2>2. k \in Ids /\ objects[k].st = "none" /\ Filed = {}
      BY <2>1 DEF Room, Filed
    <2>3. First("inv") \in Objects /\ First("inv").st = "live"
      BY DEF First, Objects, UIDs, AllTitles, Replies
    <2>4. QED
      BY <2>1, <2>2, <2>3, ElsewhereKeeps DEF Live
  <1>6. QED
    BY <1>2, <1>3, <1>4, <1>5
\* An event that a call may make or change, and what it becomes.
Changes(i, k, x) ==
    /\ x.st # "none" /\ objects[k].st # "gone" /\ (Live(objects[k]) => x.uid = objects[k].uid)
    /\ objects[k].st = "none" /\ x.uid = "inv" => Filed = {}
    /\ op[i].kind # "create" => op[i].key = k
    /\ x.st = "gone" => op[i].kind = "delete"

\* What is known of a call by its outcome.
Sound(i, e) ==
    /\ e.said \in {"ok", "refused"} /\ e.id \in Ids \cup {0}
    /\ \/ e.objects = objects /\ \A k \in Ids : Live(objects[k]) /\ Tells(i, k) => e.said = "refused"
       \/ e.said = "ok" /\ \E k \in Ids, x \in Objects : e.objects = Changed(k, x) /\ Changes(i, k, x)
    /\ e.said = "refused" => Refuses(i, e) /\ e.objects = objects
    /\ op[i].kind = "create" /\ e.said = "ok" => e.id \in Ids
    /\ e.id \in Ids => e.objects[e.id].st # "none"
    /\ Files(i) /\ e.said = "ok" => Live(e.objects[e.id]) /\ e.objects[e.id].uid = "inv"

\* An event that is changed, in full.
LEMMA ChangedOne ==
    ASSUME IInv, NEW k \in Ids, NEW x \in Objects
    PROVE  /\ Changed(k, x)[k].st = x.st /\ Changed(k, x)[k].uid = x.uid
           /\ Changed(k, x) # objects /\ \A m \in Ids \ {k} : Changed(k, x)[m] = objects[m]
  <1>1. objects \in [Ids -> Objects] /\ clock \in Nat /\ objects[k].ver <= clock
    BY DEF IInv, Typed, Timed
  <1>2. Changed(k, x)[k] = [x EXCEPT !.ver = clock + 1]
    BY <1>1 DEF Changed
  <1>3. Changed(k, x)[k].st = x.st /\ Changed(k, x)[k].uid = x.uid /\ Changed(k, x)[k].ver = clock + 1
    BY <1>2 DEF Objects
  <1>4. objects[k].ver \in Nat
    BY <1>1 DEF Objects
  <1>5. Changed(k, x)[k].ver # objects[k].ver
    BY <1>1, <1>3, <1>4
  <1>6. QED
    BY <1>1, <1>3, <1>5 DEF Changed

\* The outcomes are sound.
LEMMA SoundOutcome ==
    ASSUME IInv, NEW i \in Ops, NEW e,
           Makes(i, e) \/ Finds(i, e) \/ Alters(i, e) \/ Leaves(i, e) \/ Refuses(i, e)
    PROVE  Sound(i, e)
  <1>1. \A k : k \in Filed => k \in Ids /\ Live(objects[k]) /\ objects[k].uid = "inv"
    BY DEF Filed
  <1>2. objects \in [Ids -> Objects] /\ 0 \notin Ids
    BY Keyed DEF IInv, Typed
  <1>3. CASE Makes(i, e)
    <2>1. PICK k \in Room, x \in Objects :
            /\ e = Said("ok", Changed(k, x), k) /\ op[i].kind = "create" /\ Live(x)
            /\ x.uid = op[i].row.uid /\ (x.uid = "inv" => Filed = {})
      BY <1>3 DEF Makes
    <2>2. k \in Ids /\ objects[k].st = "none"
      BY DEF Room
    <2>3. e.said = "ok" /\ e.objects = Changed(k, x) /\ e.id = k
      BY <2>1 DEF Said
    <2>4. Changes(i, k, x)
      BY <2>1, <2>2 DEF Changes, Live
    <2>5. Changed(k, x)[k].st = x.st /\ Changed(k, x)[k].uid = x.uid
      BY <2>2, ChangedOne
    <2>6. QED
      BY <2>1, <2>2, <2>3, <2>4, <2>5 DEF Sound, Live, Files
  <1>4. CASE Finds(i, e)
    <2>1. PICK k \in Filed : e = Said("ok", objects, k)
      BY <1>4 DEF Finds
    <2>2. e.said = "ok" /\ e.objects = objects /\ e.id = k
      BY <2>1 DEF Said
    <2>3. \A m : ~Tells(i, m)
      BY <1>4 DEF Finds, Files, Tells
    <2>4. QED
      BY <1>1, <2>2, <2>3 DEF Sound, Live
  <1>5. CASE Alters(i, e)
    <2>1. PICK k \in Ids, x \in Objects, id \in Ids \cup {0} :
            /\ e = Said("ok", Changed(k, x), id) /\ Live(objects[k]) /\ x.uid = objects[k].uid
            /\ Live(x) \/ (x.st = "gone" /\ op[i].kind = "delete")
            /\ id \in {0, k} /\ (op[i].kind = "create" => id = k)
            /\ op[i].key = k \/ (Files(i) /\ k \in Filed)
      BY <1>5 DEF Alters
    <2>2. e.said = "ok" /\ e.objects = Changed(k, x) /\ e.id = id
      BY <2>1 DEF Said
    <2>3. Changes(i, k, x)
      BY <2>1 DEF Changes, Live, Files
    <2>4. Changed(k, x)[k].st = x.st /\ Changed(k, x)[k].uid = x.uid
      BY ChangedOne
    <2>5. Files(i) => Live(x) /\ x.uid = "inv"
      <3>1. Files(i) => op[i].key \notin Ids
        BY Keyed DEF IInv, OpSound, Files
      <3>2. QED
        BY <1>1, <2>1, <3>1 DEF Files
    <2>6. QED
      BY <1>2, <2>1, <2>2, <2>3, <2>4, <2>5 DEF Sound, Live, Files
  <1>6. CASE Leaves(i, e)
    <2>1. PICK id \in Ids \cup {0} : /\ e = Said("ok", objects, id) /\ op[i].kind # "create"
                                     /\ (id \in Ids => Live(objects[id]))
                                     /\ \A k \in Ids : Live(objects[k]) => ~Tells(i, k)
      BY <1>6 DEF Leaves
    <2>2. e.said = "ok" /\ e.objects = objects /\ e.id = id
      BY <2>1 DEF Said
    <2>3. QED
      BY <2>1, <2>2 DEF Sound, Live, Files
  <1>7. CASE Refuses(i, e)
    <2>1. e.said = "refused" /\ e.objects = objects /\ e.id = 0
      BY <1>7 DEF Refuses, Refused, Said
    <2>2. QED
      BY <1>2, <1>7, <2>1 DEF Sound
  <1>8. QED
    BY <1>3, <1>4, <1>5, <1>6, <1>7

\* The events a call makes.
New(objs) == {k \in Ids : objects[k].st = "none" /\ Live(objs[k])}

\* It makes one at most, and none when it is refused, or is no create.
LEMMA NewOnes ==
    ASSUME IInv, NEW i \in Ops, NEW e, Sound(i, e)
    PROVE  /\ Cardinality(New(e.objects)) \in {0, 1}
           /\ e.said = "refused" \/ op[i].kind = "reply" => Cardinality(New(e.objects)) = 0
  <1>1. CASE e.objects = objects
    <2>1. New(e.objects) = {}
      BY <1>1 DEF New, Live
    <2>2. QED
      BY <2>1, FS_EmptySet
  <1>2. CASE e.objects # objects
    <2>1. PICK k \in Ids, x \in Objects : e.said = "ok" /\ e.objects = Changed(k, x) /\ Changes(i, k, x)
      BY <1>2 DEF Sound
    <2>2. \A m \in Ids \ {k} : e.objects[m] = objects[m]
      BY <2>1, ChangedOne
    <2>3. New(e.objects) = {} \/ New(e.objects) = {k}
      BY <2>2 DEF New, Live
    <2>4. op[i].kind # "reply"
      BY <2>1, Keyed DEF Changes, IInv, OpSound
    <2>5. QED
      BY <2>1, <2>3, <2>4, FS_EmptySet, FS_Singleton
  <1>3. QED
    BY <1>1, <1>2
\* The server does what it is called for, and the answer arrives or is lost.
LEMMA ExecuteKeeps ==
    ASSUME IInv, NEW i \in Ops, NEW arrives \in BOOLEAN, ExecuteEvent(i, arrives)
    PROVE  IInv'
  <1> DEFINE e == Executed(i)
             o == op[i]
             n == Cardinality(New(e.objects))
  <1>1. /\ UNCHANGED <<backend, mailed, index, shown, token, recorded, row, op, by, seen, undo, filing,
                       pc, snap, spoiled, given>>
        /\ at[i] = "write" /\ (o.kind = "create" => Room # {})
        /\ IF arrives THEN spent' = spent ELSE Spend("losses", MaxLosses)
        /\ objects' = e.objects /\ clock' = IF e.objects = objects THEN clock ELSE clock + 1
        /\ at' = [at EXCEPT ![i] = "answered"]
        /\ out' = [out EXCEPT ![i] = IF arrives THEN e.said ELSE Lossy(o)]
        /\ got' = [got EXCEPT ![i] = e.id]
        /\ lost' = IF ~arrives /\ o.kind # "reply" THEN lost + 1 ELSE lost
        /\ made' = [made EXCEPT ![i] = @ + n]
        /\ told' = IF e.said = "ok" /\ o.kind \in {"reply", "respond"} THEN told + 1 ELSE told
    BY DEF ExecuteEvent, New, database, outbox, pass
  <1>2. Sound(i, e) /\ n \in {0, 1} /\ (e.said = "refused" \/ o.kind = "reply" => n = 0)
    <2>1. Makes(i, e) \/ Finds(i, e) \/ Alters(i, e) \/ Leaves(i, e) \/ Refuses(i, e)
      BY <1>1, Outcomes
    <2> HIDE DEF e
    <2>2. Sound(i, e)
      BY <2>1, SoundOutcome
    <2>3. QED
      BY <2>2, NewOnes
  <1> HIDE DEF e, n
  <1>3. Typed /\ OpSound(i) /\ Touched(i) /\ Paid(i) /\ Drawn /\ Heard /\ FilingSound /\ Timed
    BY DEF IInv
  <1>4. PushTyped /\ spent \in [edits : Nat, losses : Nat, crashes : Nat] /\ lost \in Nat /\ told \in Nat
    BY <1>3 DEF Typed, PushTyped
  <1>5. e.said \in {"ok", "refused"} /\ e.id \in Ids \cup {0} /\ (e.said = "refused" => Refuses(i, e))
    BY <1>2 DEF Sound
  <1>6. Lossy(o) = IF o.kind = "reply" THEN "refused" ELSE "offline"
    BY DEF Lossy
  <1>7. /\ at'[i] = "answered" /\ out'[i] = (IF arrives THEN e.said ELSE Lossy(o)) /\ got'[i] = e.id
        /\ made'[i] = made[i] + n /\ row[i] = "pending" /\ row'[i] = "pending"
        /\ \A j \in Ops \ {i} : SameOp(j)
    <2>1. row[i] = "pending"
      BY <1>1, <1>3 DEF OpSound
    <2>2. QED
      BY <1>1, <1>4, <2>1 DEF SameOp, PushTyped
  <1>8. lost' \in Nat /\ lost' >= lost /\ told' \in Nat
    BY <1>1, <1>4
  <1>9. /\ spent' \in [edits : Nat, losses : Nat, crashes : Nat]
        /\ spent'.crashes = spent.crashes /\ spent'.edits = spent.edits
    BY <1>1, <1>4 DEF Spend
  <1>10. /\ at' \in [Ops -> {"no", "call", "write", "answered", "after"}]
         /\ out' \in [Ops -> {"ok", "refused", "offline"}]
         /\ got' \in [Ops -> Ids \cup {0}] /\ made' \in [Ops -> Nat]
    BY <1>1, <1>2, <1>4, <1>5, <1>6 DEF PushTyped
  <1>11. OpSound(i)'
    <2>1. o.kind = "create" /\ out'[i] = "ok" => got'[i] \in Ids
      BY <1>2, <1>6, <1>7 DEF Sound
    <2>2. QED
      BY <1>1, <1>3, <1>7, <2>1 DEF OpSound
  <1>12. Paid(i)'
    <2>1. made[i] \in Nat /\ made[i] <= lost
      BY <1>1, <1>3, <1>4, <1>7 DEF Paid, Answered, PushTyped
    <2>2. CASE n = 0
      BY <1>7, <1>8, <2>1, <2>2, <1>4 DEF Paid, Answered
    <2>3. CASE n = 1
      <3>1. e.said = "ok" /\ o.kind # "reply"
        BY <1>2, <1>5, <2>3
      <3>2. CASE arrives
        BY <1>1, <1>4, <1>7, <2>1, <2>3, <3>1, <3>2 DEF Paid, Answered
      <3>3. CASE ~arrives
        BY <1>1, <1>4, <1>7, <2>1, <2>3, <3>1, <3>3 DEF Paid, Answered
      <3>4. QED
        BY <3>2, <3>3
    <2>4. QED
      BY <1>2, <2>2, <2>3
  <1>13. Heard'
    <2>1. \A j \in Ops \ {i} : Waits(j)' => Waits(j)
      BY <1>7 DEF Waits, SameOp
    <2>2. o.kind \in {"reply", "respond"} => Waits(i)
      BY <1>1, <1>7 DEF Waits
    <2>3. Waits(i)' => o.kind \in {"reply", "respond"}
      BY <1>1 DEF Waits
    <2>4. CASE e.said = "ok" /\ o.kind \in {"reply", "respond"}
      <3>1. told' = told + 1 /\ given' = given /\ lost' \in {lost, lost + 1}
        BY <1>1, <2>4
      <3>2. ASSUME lost' = lost PROVE ~Waits(i)'
        <4>1. arrives \/ o.kind = "reply"
          BY <1>1, <1>4, <3>2
        <4>2. out'[i] = "ok" \/ (o.kind = "reply" /\ out'[i] = "refused")
          BY <1>6, <1>7, <2>4, <4>1
        <4>3. QED
          BY <1>1, <1>7, <4>2 DEF Waits
      <3>3. QED
        BY <1>3, <2>1, <2>2, <2>4, <3>1, <3>2, HeardTold
    <2>5. CASE ~(e.said = "ok" /\ o.kind \in {"reply", "respond"})
      <3>1. given \in Nat /\ given' = given /\ told' = told
        BY <1>1, <1>3, <2>5 DEF Typed
      <3>2. \A j \in Ops : Waits(j)' => Waits(j)
        BY <2>1, <2>2, <2>3
      <3>3. QED
        BY <1>3, <1>8, <3>1, <3>2, HeardSame
    <2>6. QED
      BY <2>4, <2>5
  <1>14. \A m \in Ids : objects[m].st # "none" =>
                objects'[m].st # "none" /\ (~Live(objects[m]) => ~Live(objects'[m]))
    <2>1. CASE e.objects = objects
      BY <1>1, <2>1
    <2>2. CASE e.objects # objects
      <3>1. PICK k \in Ids, x \in Objects : e.objects = Changed(k, x) /\ Changes(i, k, x)
        BY <1>2, <2>2 DEF Sound
      <3>2. objects'[k].st = x.st /\ \A m \in Ids \ {k} : objects'[m] = objects[m]
        BY <1>1, <3>1, ChangedOne
      <3>3. objects[k].st \in {"none", "live"} /\ x.st # "none"
        BY <1>3, <3>1 DEF Changes, Typed, Objects
      <3>4. QED
        BY <3>2, <3>3 DEF Live
    <2>3. QED
      BY <2>1, <2>2
  <1>15. Touched(i)'
    <2>1. e.id \in Ids => objects'[e.id].st # "none"
      BY <1>1, <1>2 DEF Sound
    <2>2. out'[i] = "refused" /\ o.kind \in {"update", "delete", "respond"} => e.said = "refused"
      BY <1>6, <1>7
    <2>3. e.said = "refused" /\ backend = "jmap" /\ o.kind \in {"update", "delete", "respond"} =>
                ~(o.key \in Ids /\ Live(objects'[o.key]))
      BY <1>1, <1>2 DEF Sound, Refuses
    <2>4. QED
      BY <1>1, <1>3, <1>7, <1>14, <2>1, <2>2, <2>3 DEF Touched
  <1>16. FilingSound'
    <2> SUFFICES ASSUME Undisturbed' PROVE FilingSound'
      BY DEF FilingSound
    <2>1. Undisturbed /\ (\A j \in Ops : Files(j)' <=> Files(j)) /\ \A j \in Ops : op[j].kind # "delete"
      BY <1>1, <1>9 DEF Undisturbed, Files
    <2>2. (\E k \in Ids : Invited(k)) => (\E k \in Ids : Invited(k))'
      <3>1. CASE e.objects = objects
        BY <1>1, <3>1 DEF Invited
      <3>2. CASE e.objects # objects
        <4>1. PICK k \in Ids, x \in Objects : e.objects = Changed(k, x) /\ Changes(i, k, x)
          BY <1>2, <3>2 DEF Sound
        <4>2. /\ objects'[k].st = x.st /\ objects'[k].uid = x.uid
              /\ \A m \in Ids \ {k} : objects'[m] = objects[m]
          BY <1>1, <4>1, ChangedOne
        <4>3. Live(objects[k]) => Live(objects'[k]) /\ objects'[k].uid = objects[k].uid
          <5>1. x.st # "gone"
            BY <2>1, <4>1 DEF Changes
          <5>2. x.st = "live"
            BY <4>1, <5>1 DEF Changes, Objects
          <5>3. QED
            BY <4>1, <4>2, <5>2 DEF Changes, Live
        <4>4. QED
          BY <4>2, <4>3 DEF Invited
      <3>3. QED
        BY <3>1, <3>2
    <2>3. Files(i) => e.said = "ok" /\ o.kind = "create" /\ \E k \in Ids : Invited(k)'
      <3> SUFFICES ASSUME Files(i) PROVE e.said = "ok" /\ o.kind = "create" /\ \E k \in Ids : Invited(k)'
        OBVIOUS
      <3>1. o.kind = "create" /\ e.said = "ok"
        BY <1>5, <2>1 DEF Refuses, Files, Undisturbed
      <3>2. e.id \in Ids /\ Live(objects'[e.id]) /\ objects'[e.id].uid = "inv"
        BY <1>1, <1>2, <3>1 DEF Sound
      <3>3. QED
        BY <3>1, <3>2 DEF Invited
    <2>4. \A j \in Ops : Files(j) => /\ row[j] # "failed" /\ out[j] # "refused"
                                     /\ row[j] = "done" \/ Answered(j) => \E k \in Ids : Invited(k)
      BY <1>3, <2>1 DEF FilingSound
    <2>5. ASSUME NEW j \in Ops, Files(j)
          PROVE  /\ row'[j] # "failed" /\ out'[j] # "refused"
                 /\ row'[j] = "done" \/ Answered(j)' => (\E k \in Ids : Invited(k))'
      <3>1. CASE j = i
        BY <1>6, <1>7, <2>3, <2>5, <3>1
      <3>2. CASE j # i
        BY <1>7, <2>2, <2>4, <2>5, <3>2 DEF SameOp, Answered
      <3>3. QED
        BY <3>1, <3>2
    <2>6. recorded' = "accepted" => \/ filing' = "accepted" \/ (\E k \in Ids : Invited(k))'
                                    \/ \E j \in Ops : Files(j)' /\ row'[j] = "pending"
      BY <1>1, <1>3, <2>1, <2>2 DEF FilingSound
    <2>7. QED
      BY <2>1, <2>5, <2>6 DEF FilingSound
  <1>17. CASE e.objects = objects
    <2>1. UNCHANGED <<objects, clock>>
      BY <1>1, <1>17
    <2>2. Typed'
      BY <1>1, <1>3, <1>8, <1>9, <1>10, <2>1 DEF Typed
    <2>3. ASSUME NEW k \in Ids, Tells(i, k), Live(objects[k]) PROVE Tells(i, k)'
      <3>1. e.said = "refused"
        BY <1>2, <1>17, <2>3, ChangedOne DEF Sound
      <3>2. out'[i] # "ok"
        BY <1>6, <1>7, <3>1
      <3>3. QED
        BY <1>1, <1>7, <2>1, <2>3, <3>2 DEF Tells, Answered
    <2>4. Drawn'
      BY <1>1, <1>3 DEF Drawn
    <2>5. QED
      BY <1>1, <1>7, <1>8, <1>11, <1>12, <1>13, <1>15, <1>16, <2>1, <2>2, <2>3, <2>4, QuietKeeps
  <1>18. CASE e.objects # objects
    <2>1. PICK k \in Ids, x \in Objects : e.said = "ok" /\ e.objects = Changed(k, x) /\ Changes(i, k, x)
      BY <1>2, <1>18 DEF Sound
    <2>2. objects' = Changed(k, x) /\ clock' = clock + 1
      BY <1>1, <1>18, <2>1
    <2>3. /\ objects' \in [Ids -> Objects] /\ clock' \in Nat /\ ~(objects'[k].ver <= token)
          /\ \A m \in Ids \ {k} : objects'[m] = objects[m]
          /\ Timed' /\ OneInvited' /\ Drawn' /\ \A m \in Ids : Known(m)'
      BY <1>1, <2>1, <2>2, CalendarChanges DEF Changes
    <2>4. Typed'
      BY <1>1, <1>3, <1>8, <1>9, <1>10, <2>3 DEF Typed
    <2>5. \A j \in Ops : OpSound(j)' /\ Paid(j)'
      BY <1>1, <1>7, <1>8, <1>11, <1>12, OthersKeep
    <2>6. \A j \in Ops : Touched(j)'
      BY <1>1, <1>7, <1>14, <1>15, TouchedKeeps
    <2>7. \A j \in Ops : Placed(j)'
      BY <1>1, <1>7 DEF IInv, Placed, SameOp
    <2>8. ASSUME NEW m \in Ids PROVE Explained(m)'
      <3>1. CASE m = k
        BY <1>1, <2>3, <3>1 DEF Explained
      <3>2. CASE m # k
        <4>1. ~Tells(i, m)
          BY <2>1, <3>2 DEF Changes, Tells
        <4>2. QED
          BY <1>1, <1>7, <1>8, <2>3, <3>2, <4>1, ExplainedKeeps
      <3>3. QED
        BY <3>1, <3>2
    <2>9. QED
      BY <1>13, <1>16, <2>3, <2>4, <2>5, <2>6, <2>7, <2>8 DEF IInv
  <1>19. QED
    BY <1>17, <1>18
-----------------------------------------------------------------------------
(* Crashes, the pass, and the whole.                                       *)

\* A set that has a member counts one at least.
LEMMA CountSome == \A U \in SUBSET Ops : \A i \in U : 1 <= Cardinality(U)
  <1> SUFFICES ASSUME NEW U \in SUBSET Ops, NEW i \in U PROVE 1 <= Cardinality(U)
    OBVIOUS
  <1>1. {} \in SUBSET Ops /\ {} \subseteq U \ {i}
    OBVIOUS
  <1>2. Cardinality({}) + 1 <= Cardinality(U)
    BY <1>1, CountLess
  <1>3. QED
    BY <1>2, FS_EmptySet

\* Every process dies.
LEMMA CrashKeeps == ASSUME IInv, Crash PROVE IInv'
  <1> DEFINE unheard == {i \in Ops : at[i] = "answered" /\ (out[i] = "ok" \/ op[i].kind = "reply")}
             undone == {i \in Ops : at[i] = "after" /\ op[i].kind = "create"}
  <1>1. /\ UNCHANGED <<backend, mailed, objects, clock, index, shown, token, recorded, row, op, by,
                       told, given, made>>
        /\ Spend("crashes", MaxCrashes)
        /\ at' = [i \in Ops |-> "no"] /\ undo' = [i \in Ops |-> NoUndo] /\ filing' = "no"
        /\ out' = [i \in Ops |-> "ok"] /\ got' = [i \in Ops |-> 0] /\ seen' = [i \in Ops |-> NoObject]
        /\ lost' = lost + Cardinality(unheard) /\ spoiled' = (spoiled \/ undone # {})
        /\ pc' = "idle" /\ snap' = NoSnap
    BY DEF Crash, server, database, outbox
  <1>2. unheard \in SUBSET Ops /\ \A i \in Ops : i \in unheard <=>
            at[i] = "answered" /\ (out[i] = "ok" \/ op[i].kind = "reply")
    OBVIOUS
  <1>3. \A i \in Ops : at[i] = "after" /\ op[i].kind = "create" => spoiled'
    BY <1>1
  <1> HIDE DEF unheard
  <1>4. Typed /\ lost \in Nat /\ Cardinality(unheard) \in Nat
    BY <1>2, OpsFinite DEF IInv, Typed
  <1>5. lost' \in Nat /\ lost' >= lost /\ (spoiled => spoiled') /\ spoiled' \in BOOLEAN
    BY <1>1, <1>4 DEF Typed
  <1>6. spent' \in [edits : Nat, losses : Nat, crashes : Nat] /\ spent'.crashes # 0
    BY <1>1, <1>4 DEF Typed, Spend
  <1>7. NoSnap \in [objects : [Ids -> Objects], clock : Nat] /\ \A k \in Ids : NoSnap.objects[k].st = "none"
    BY Nothing DEF NoSnap, NoObject
  <1>8. Typed'
    <2>1. /\ at' \in [Ops -> {"no", "call", "write", "answered", "after"}]
          /\ out' \in [Ops -> {"ok", "refused", "offline"}] /\ undo' \in [Ops -> Undos]
          /\ got' \in [Ops -> Ids \cup {0}] /\ seen' \in [Ops -> Objects]
          /\ filing' \in Replies /\ pc' \in {"idle", "store"}
      BY <1>1, Nothing DEF Replies
    <2>2. QED
      BY <1>1, <1>4, <1>5, <1>6, <1>7, <2>1 DEF Typed
  <1>9. ASSUME NEW i \in Ops PROVE OpSound(i)' /\ Touched(i)' /\ Placed(i)' /\ Paid(i)'
    <2>1. OpSound(i) /\ Touched(i) /\ Placed(i) /\ Paid(i) /\ made[i] \in Nat
      BY <1>4 DEF IInv, Typed
    <2>2. at'[i] = "no" /\ undo'[i] = NoUndo /\ out'[i] = "ok" /\ got'[i] = 0
      BY <1>1
    <2>3. NoUndo.key = 0 /\ NoUndo.was = NoRow
      BY DEF NoUndo
    <2>4. OpSound(i)'
      BY <1>1, <2>1, <2>2, <2>3 DEF OpSound
    <2>5. Touched(i)'
      BY <1>1, <2>1, <2>2, Keyed DEF Touched
    <2>6. Placed(i)'
      BY <1>1, <1>3, <1>5, <2>1 DEF Placed, Live, NoRow
    <2>7. Paid(i)'
      <3>1. CASE Answered(i) /\ row[i] # "done"
        <4>1. 1 <= Cardinality(unheard)
          BY <1>2, <3>1, CountSome DEF Answered
        <4>2. made[i] <= lost + 1
          BY <2>1, <3>1 DEF Paid
        <4>3. made'[i] <= lost'
          BY <1>1, <1>4, <2>1, <4>1, <4>2
        <4>4. QED
          BY <1>1, <2>2, <3>1, <4>3, <1>5 DEF Paid, Answered
      <3>2. CASE ~(Answered(i) /\ row[i] # "done")
        BY <1>1, <1>4, <1>5, <2>1, <2>2, <3>2 DEF Paid, Answered
      <3>3. QED
        BY <3>1, <3>2
    <2>8. QED
      BY <2>4, <2>5, <2>6, <2>7
  <1>10. ASSUME NEW k \in Ids PROVE Known(k)' /\ Explained(k)'
    <2>1. Known(k)'
      BY <1>1, <1>7 DEF IInv, Known
    <2>2. \A i \in Ops : Tells(i, k) => Tells(i, k)'
      BY <1>1 DEF Tells, Answered
    <2>3. Explained(k)'
      BY <1>1, <1>5, <2>2 DEF IInv, Explained
    <2>4. QED
      BY <2>1, <2>3
  <1>11. Timed' /\ OneInvited' /\ Drawn'
    BY <1>1 DEF IInv, Timed, OneInvited, Drawn
  <1>12. Heard'
    <2>1. \A i \in Ops \ unheard : Waits(i)' => Waits(i)
      BY <1>1, <1>2 DEF Waits
    <2>2. QED
      BY <1>1, <1>2, <1>4, <2>1, HeardForgotten DEF IInv
  <1>13. FilingSound'
    BY <1>6 DEF FilingSound, Undisturbed
  <1>14. QED
    BY <1>8, <1>9, <1>10, <1>11, <1>12, <1>13 DEF IInv

\* A pass reads what the server holds.
LEMMA FetchKeeps == ASSUME IInv, Fetch PROVE IInv'
  <1>1. /\ UNCHANGED <<backend, mailed, objects, clock, index, shown, token, recorded, row, op, at, by, out,
                       got, seen, undo, filing, spoiled, told, given, lost, made, spent>>
        /\ pc' = "store" /\ snap' = [objects |-> objects, clock |-> clock]
    BY DEF Fetch, server, database, outbox, pushes, history
  <1>2. Typed'
    BY <1>1 DEF IInv, Typed
  <1>3. Timed'
    <2>1. clock <= clock
      BY DEF IInv, Typed
    <2>2. QED
      BY <1>1, <2>1 DEF IInv, Timed
  <1>4. \A i \in Ops : OpSound(i)' /\ Touched(i)' /\ Placed(i)' /\ Paid(i)'
    BY <1>1 DEF IInv, OpSound, Touched, Placed, Paid, Answered
  <1>5. \A k \in Ids : Known(k)' /\ Explained(k)'
    BY <1>1 DEF IInv, Known, Explained, Tells, Answered
  <1>6. OneInvited' /\ Drawn' /\ Heard' /\ FilingSound'
    BY <1>1 DEF IInv, OneInvited, Drawn, Heard, Unheard, Waits, FilingSound, Undisturbed, Invited, Files, Answered
  <1>7. QED
    BY <1>2, <1>3, <1>4, <1>5, <1>6 DEF IInv

\* It writes what has changed, whatever the index has become.
LEMMA StoreKeeps == ASSUME IInv, StoreEvents PROVE IInv'
  <1> DEFINE new == {k \in Ids : snap.objects[k].ver > token}
  <1>1. /\ UNCHANGED <<backend, mailed, objects, clock, recorded, row, op, at, by, out,
                       got, seen, undo, filing, spoiled, told, given, lost, made, spent>>
        /\ pc = "store" /\ token' = snap.clock /\ pc' = "idle" /\ snap' = NoSnap
        /\ shown' = (shown \ new) \cup {k \in new : Live(snap.objects[k])}
        /\ index' = [k \in Keys |->
             IF k \notin new THEN index[k]
             ELSE IF Live(snap.objects[k]) THEN Indexed(snap.objects[k])
             ELSE IF index[k].st = "none" THEN NoRow ELSE [index[k] EXCEPT !.st = "deleted"]]
    BY DEF StoreEvents, server, outbox, pushes, history
  <1>2. new \subseteq Ids /\ new \subseteq Keys /\ \A k \in Ids : k \in new <=> snap.objects[k].ver > token
    BY Keyed
  <1> HIDE DEF new
  <1>3. /\ Typed /\ snap.objects \in [Ids -> Objects] /\ snap.clock \in Nat /\ token \in Nat /\ clock \in Nat
        /\ objects \in [Ids -> Objects] /\ index \in [Keys -> Rows] /\ shown \subseteq Keys
    BY DEF IInv, Typed
  <1>4. /\ token <= snap.clock /\ snap.clock <= clock
        /\ \A k \in Ids : objects[k].ver <= snap.clock => snap.objects[k] = objects[k]
    BY <1>1 DEF IInv, Timed
  <1>5. NoSnap \in [objects : [Ids -> Objects], clock : Nat] /\ \A k \in Ids : NoSnap.objects[k].st = "none"
    BY Nothing DEF NoSnap, NoObject
  <1>6. \A x \in Objects : Live(x) => /\ Indexed(x) \in Rows /\ Live(Indexed(x)) /\ Same(Indexed(x), x)
                                      /\ Indexed(x).base = x.title
    BY DEF Objects, Rows, Indexed, Live, Same
  <1>7. /\ index' \in [Keys -> Rows] /\ \A k \in Keys \ new : index'[k] = index[k]
        /\ \A k \in new : /\ Live(snap.objects[k]) => index'[k] = Indexed(snap.objects[k])
                          /\ ~Live(snap.objects[k]) => ~Live(index'[k])
    <2>1. \A r \in Rows : [r EXCEPT !.st = "deleted"] \in Rows /\ [r EXCEPT !.st = "deleted"].st = "deleted"
      BY DEF Rows
    <2>2. index' \in [Keys -> Rows]
      <3> SUFFICES ASSUME NEW k \in Keys
                   PROVE  (IF k \notin new THEN index[k]
                           ELSE IF Live(snap.objects[k]) THEN Indexed(snap.objects[k])
                           ELSE IF index[k].st = "none" THEN NoRow ELSE [index[k] EXCEPT !.st = "deleted"]) \in Rows
        BY <1>1
      <3>1. k \in new => snap.objects[k] \in Objects
        BY <1>2, <1>3
      <3>2. index[k] \in Rows /\ [index[k] EXCEPT !.st = "deleted"] \in Rows /\ NoRow \in Rows
        BY <1>3, <2>1, Nothing
      <3>3. k \in new /\ Live(snap.objects[k]) => Indexed(snap.objects[k]) \in Rows
        BY <1>6, <3>1
      <3>4. QED
        BY <3>2, <3>3
    <2>3. \A k \in Keys \ new : index'[k] = index[k]
      BY <1>1
    <2>4. ASSUME NEW k \in new, Live(snap.objects[k]) PROVE index'[k] = Indexed(snap.objects[k])
      BY <1>1, <1>2, <2>4
    <2>5. ASSUME NEW k \in new, ~Live(snap.objects[k]) PROVE ~Live(index'[k])
      <3>1. index'[k] = IF index[k].st = "none" THEN NoRow ELSE [index[k] EXCEPT !.st = "deleted"]
        BY <1>1, <1>2, <2>5
      <3>2. index[k] \in Rows
        BY <1>2, <1>3
      <3>3. QED
        BY <2>1, <3>1, <3>2 DEF Live, NoRow
    <2>6. QED
      BY <2>2, <2>3, <2>4, <2>5
  <1>8. shown' \subseteq Keys /\ Drawn'
    <2>1. \A k \in new : Live(index'[k]) <=> Live(snap.objects[k])
      <3>1. \A k \in new : snap.objects[k] \in Objects
        BY <1>2, <1>3
      <3>2. QED
        BY <1>6, <1>7, <3>1
    <2>2. \A k : k \in shown' <=> (k \in shown /\ k \notin new) \/ (k \in new /\ Live(snap.objects[k]))
      BY <1>1
    <2>3. shown' \subseteq Keys
      BY <1>2, <1>3, <2>2
    <2>4. QED
      BY <1>7, <2>1, <2>2, <2>3, Keyed DEF IInv, Drawn
  <1>9. Typed'
    BY <1>1, <1>3, <1>5, <1>7, <1>8 DEF Typed
  <1>10. Timed' /\ OneInvited' /\ Heard' /\ FilingSound'
    BY <1>1, <1>4 DEF IInv, Timed, OneInvited, Heard, Unheard, Waits, FilingSound, Undisturbed, Invited, Files,
                      Answered
  <1>11. ASSUME NEW i \in Ops PROVE OpSound(i)' /\ Touched(i)' /\ Placed(i)' /\ Paid(i)'
    <2>1. -i \in Keys \ new
      BY <1>2, Keyed
    <2>2. index'[-i] = index[-i]
      BY <1>7, <2>1
    <2>3. Placed(i)'
      BY <1>1, <2>2 DEF IInv, Placed
    <2>4. QED
      BY <1>1, <2>3 DEF IInv, OpSound, Touched, Paid, Answered
  <1>12. ASSUME NEW k \in Ids PROVE Known(k)' /\ Explained(k)'
    <2>1. Known(k) /\ Explained(k) /\ k \in Keys /\ snap.objects[k] \in Objects /\ objects[k].ver \in Nat
      BY <1>3, Keyed DEF IInv, Objects
    <2>2. Known(k)'
      <3>1. Live(index'[k]) => objects[k].st # "none"
        BY <1>7, <2>1 DEF Known, Live
      <3>2. QED
        BY <1>1, <1>5, <3>1 DEF Known
    <2>3. \A i \in Ops : Tells(i, k)' <=> Tells(i, k)
      BY <1>1 DEF Tells, Answered
    <2>4. Explained(k)'
      <3> SUFFICES ASSUME ~spoiled, objects[k].ver <= snap.clock
                   PROVE  /\ Same(index'[k], objects[k]) \/ (Live(objects[k]) /\ \E i \in Ops : Tells(i, k))
                          /\ backend = "jmap" /\ Live(index'[k]) /\ index'[k].raw # NoRaw =>
                                index'[k].base = objects[k].title
        BY <1>1, <2>3 DEF Explained
      <3>1. snap.objects[k] = objects[k]
        BY <1>4
      <3>2. CASE k \in new
        <4>1. CASE Live(objects[k])
          BY <1>6, <1>7, <2>1, <3>1, <3>2, <4>1
        <4>2. CASE ~Live(objects[k])
          BY <1>7, <3>1, <3>2, <4>2 DEF Same
        <4>3. QED
          BY <4>1, <4>2
      <3>3. CASE k \notin new
        <4>1. objects[k].ver <= token
          BY <1>2, <1>3, <2>1, <3>1, <3>3
        <4>2. index'[k] = index[k]
          BY <1>7, <2>1, <3>3
        <4>3. QED
          BY <2>1, <4>1, <4>2 DEF Explained
      <3>4. QED
        BY <3>2, <3>3
    <2>5. QED
      BY <2>2, <2>4
  <1>13. QED
    BY <1>8, <1>9, <1>10, <1>11, <1>12 DEF IInv
\* A step of somebody.
LEMMA StepKeeps == ASSUME IInv, Next PROVE IInv'
  <1>1. CASE Asks
    BY <1>1, CreateKeeps, UpdateKeeps, DeleteKeeps, RespondKeeps, RespondByMailKeeps DEF Asks
  <1>2. CASE Pushes
    <2>1. PICK i \in Ops : \/ Read(i) \/ ExecuteEvent(i, TRUE) \/ ExecuteEvent(i, FALSE) \/ NotConnected(i)
                           \/ Retire(i) \/ Queue(i) \/ FailPermanently(i) \/ AfterExecute(i)
                           \/ RetryOutbox(i)
      BY <1>2 DEF Pushes
    <2>2. CASE Read(i)
      BY <2>2, ReadKeeps
    <2>3. CASE ExecuteEvent(i, TRUE) \/ ExecuteEvent(i, FALSE)
      BY <2>3, ExecuteKeeps
    <2>4. CASE NotConnected(i)
      BY <2>4, NotConnectedKeeps
    <2>5. CASE Retire(i)
      BY <2>5, RetireKeeps
    <2>6. CASE Queue(i)
      BY <2>6, QueueKeeps
    <2>7. CASE FailPermanently(i)
      BY <2>7, FailKeeps
    <2>8. CASE AfterExecute(i)
      BY <2>8, AfterCreateKeeps, AfterOthersKeeps
    <2>9. CASE RetryOutbox(i)
      BY <2>9, RetryKeeps
    <2>10. QED
      BY <2>1, <2>2, <2>3, <2>4, <2>5, <2>6, <2>7, <2>8, <2>9
  <1>3. CASE FileInvitedEvent
    BY <1>3, FileInvitedKeeps
  <1>4. CASE Fetch
    BY <1>4, FetchKeeps
  <1>5. CASE StoreEvents
    BY <1>5, StoreKeeps
  <1>6. CASE Crash
    BY <1>6, CrashKeeps
  <1>7. CASE EditElsewhere \/ RespondElsewhere \/ DeleteElsewhere \/ FileElsewhere
    BY <1>7, OtherClientsKeep
  <1>8. QED
    BY <1>1, <1>2, <1>3, <1>4, <1>5, <1>6, <1>7 DEF Next

\* A step of nobody.
LEMMA StutterKeeps == ASSUME IInv, UNCHANGED vars PROVE IInv'
  <1>1. UNCHANGED <<backend, mailed, objects, clock, index, shown, token, recorded, row, op, at, by, out,
                    got, seen, undo, filing, pc, snap, spoiled, told, given, lost, made, spent>>
    BY DEF vars, server, database, outbox, pushes, pass, history
  <1>2. Typed' /\ Timed' /\ Drawn' /\ OneInvited' /\ Heard'
    BY <1>1 DEF IInv, Typed, Timed, Drawn, OneInvited, Heard, Unheard, Waits
  <1>3. \A i \in Ops : OpSound(i)' /\ Touched(i)' /\ Placed(i)' /\ Paid(i)'
    BY <1>1 DEF IInv, OpSound, Touched, Placed, Paid, Answered
  <1>4. \A k \in Ids : Known(k)' /\ Explained(k)'
    BY <1>1 DEF IInv, Known, Explained, Tells, Answered
  <1>5. FilingSound'
    BY <1>1 DEF IInv, FilingSound, Undisturbed, Invited, Files, Answered
  <1>6. QED
    BY <1>2, <1>3, <1>4, <1>5 DEF IInv

\* What the account starts with.
LEMMA InitHolds == ASSUME Init PROVE IInv
  <1>1. PICK story \in Stories :
            /\ mailed = (story \in {"invited", "filed"})
            /\ objects = [i \in Ids |-> IF i = 1 /\ story \in {"own", "filed"}
                             THEN First(IF story = "own" THEN "own" ELSE "inv") ELSE NoObject]
    BY DEF Init
  <1>2. /\ backend \in Backends /\ clock = 1 /\ token = 1
        /\ index = [k \in Keys |-> IF k \in Ids /\ Live(objects[IF k > 0 THEN k ELSE 1])
                                   THEN Indexed(objects[k]) ELSE NoRow]
        /\ shown = {k \in Ids : Live(index[k])} /\ recorded = "no"
        /\ row = [i \in Ops |-> "none"] /\ op = [i \in Ops |-> NoOp]
        /\ at = [i \in Ops |-> "no"] /\ by = [i \in Ops |-> "asker"]
        /\ out = [i \in Ops |-> "ok"] /\ got = [i \in Ops |-> 0] /\ seen = [i \in Ops |-> NoObject]
        /\ undo = [i \in Ops |-> NoUndo] /\ filing = "no" /\ pc = "idle" /\ snap = NoSnap
        /\ spoiled = FALSE /\ told = 0 /\ given = 0 /\ lost = 0
        /\ made = [i \in Ops |-> 0] /\ spent = [edits |-> 0, losses |-> 0, crashes |-> 0]
    BY DEF Init
  <1>3. \A u \in UIDs : /\ First(u) \in Objects /\ First(u).st = "live" /\ First(u).ver = 1
    BY DEF First, Objects, AllTitles, Replies
  <1>4. NoObject.st = "none" /\ NoObject.ver = 0 /\ NoOp.kind = "none" /\ NoOp.key = 0
        /\ NoUndo.key = 0 /\ NoUndo.was = NoRow /\ ~Live(NoRow)
    BY DEF NoObject, NoOp, NoUndo, Live, NoRow
  <1>5. /\ objects \in [Ids -> Objects] /\ \A k \in Ids : objects[k].ver <= 1
        /\ \A k \in Ids : Live(objects[k]) => k = 1
    BY <1>1, <1>3, <1>4, Nothing DEF UIDs, Live
  <1>6. \A k \in Ids : index[k] = IF Live(objects[k]) THEN Indexed(objects[k]) ELSE NoRow
    BY <1>2, Keyed
  <1>7. \A k \in Keys \ Ids : index[k] = NoRow
    BY <1>2
  <1>8. \A x \in Objects : Live(x) => /\ Indexed(x) \in Rows /\ Live(Indexed(x)) /\ Same(Indexed(x), x)
                                      /\ Indexed(x).base = x.title
    BY DEF Objects, Rows, Indexed, Live, Same
  <1>9. index \in [Keys -> Rows]
    <2>1. \A k \in Keys : index[k] \in Rows
      BY <1>5, <1>6, <1>7, <1>8, Nothing
    <2>2. QED
      BY <1>2, <2>1
  <1>10. NoSnap \in [objects : [Ids -> Objects], clock : Nat] /\ \A k \in Ids : NoSnap.objects[k].st = "none"
    BY <1>4, Nothing DEF NoSnap
  <1>11. shown \subseteq Keys
    BY <1>2, Keyed
  <1>12. Typed
    <2>1. /\ op \in [Ops -> Writes] /\ seen \in [Ops -> Objects] /\ undo \in [Ops -> Undos]
          /\ got \in [Ops -> Ids \cup {0}] /\ made \in [Ops -> Nat]
      BY <1>2, Nothing
    <2>2. mailed \in BOOLEAN /\ recorded \in Replies /\ filing \in Replies
      BY <1>1, <1>2 DEF Replies
    <2>3. spent \in [edits : Nat, losses : Nat, crashes : Nat]
      BY <1>2
    <2>4. QED
      BY <1>2, <1>5, <1>9, <1>10, <1>11, <2>1, <2>2, <2>3 DEF Typed
  <1>13. Timed
    BY <1>2, <1>5 DEF Timed
  <1>14. ASSUME NEW i \in Ops PROVE OpSound(i) /\ Touched(i) /\ Placed(i) /\ Paid(i)
    <2>1. /\ row[i] = "none" /\ op[i] = NoOp /\ at[i] = "no" /\ out[i] = "ok" /\ got[i] = 0
          /\ undo[i] = NoUndo /\ made[i] = 0
      BY <1>2
    <2>2. OpSound(i)
      BY <1>4, <2>1 DEF OpSound
    <2>3. Touched(i)
      BY <1>4, <2>1, Keyed DEF Touched
    <2>4. Placed(i)
      <3>1. index[-i] = NoRow
        BY <1>7, Keyed
      <3>2. \A j \in Ops : op[j].key # -i
        BY <1>2, <1>4, Keyed
      <3>3. QED
        BY <1>4, <3>1, <3>2 DEF Placed
    <2>5. Paid(i)
      BY <1>2, <2>1 DEF Paid, Answered
    <2>6. QED
      BY <2>2, <2>3, <2>4, <2>5
  <1>15. ASSUME NEW k \in Ids PROVE Known(k) /\ Explained(k)
    <2>1. CASE Live(objects[k])
      BY <1>2, <1>5, <1>6, <1>8, <1>10, <2>1 DEF Known, Explained, Live
    <2>2. CASE ~Live(objects[k])
      BY <1>2, <1>4, <1>6, <1>10, <2>2 DEF Known, Explained, Same
    <2>3. QED
      BY <2>1, <2>2
  <1>16. Drawn /\ OneInvited
    BY <1>2, <1>5 DEF Drawn, OneInvited
  <1>17. Heard
    <2>1. Unheard = {}
      BY <1>2 DEF Unheard, Waits
    <2>2. QED
      BY <1>2, <2>1, FS_EmptySet DEF Heard
  <1>18. FilingSound
    BY <1>2, <1>4 DEF FilingSound, Files
  <1>19. QED
    BY <1>12, <1>13, <1>14, <1>15, <1>16, <1>17, <1>18 DEF IInv

\* What the proofs rest on holds all along.
THEOREM Invariant == Spec => []IInv
  <1>1. Init => IInv
    BY InitHolds
  <1>2. IInv /\ [Next]_vars => IInv'
    BY StepKeeps, StutterKeeps
  <1>3. QED
    BY <1>1, <1>2, PTL DEF Spec
-----------------------------------------------------------------------------
(* What it shows.                                                          *)

\* Once every write has settled and a pass has read what they did, the agenda shows
\* what the calendar holds, with its titles and answers, and no placeholder is left,
\* unless a rollback, a late afterExecute or a retry has put there what nothing heals
\* (outbox.go patchEvent, rollback, afterExecute, RetryOutbox).
THEOREM AgendaAgrees == Spec => []Agreed
  <1>1. ASSUME IInv PROVE TypeOK
    <2>1. /\ backend \in Backends /\ shown \subseteq Keys /\ token <= clock /\ filing \in Replies
          /\ \A k \in Ids : objects[k].ver <= clock
      BY <1>1 DEF IInv, Typed, Timed
    <2>2. \A k \in Ids : objects[k].st \in {"none", "live", "gone"}
      BY <1>1 DEF IInv, Typed, Objects
    <2>3. \A k \in Keys : index[k].st \in {"none", "live", "deleted"} /\ index[k].resp \in Replies
      BY <1>1 DEF IInv, Typed, Rows
    <2>4. \A i \in Ops : /\ row[i] \in {"none", "pending", "done", "failed"}
                         /\ at[i] \in {"no", "call", "write", "answered", "after"}
                         /\ at[i] \notin {"no", "after"} => row[i] = "pending"
      BY <1>1 DEF IInv, Typed, OpSound
    <2>5. QED
      BY <2>1, <2>2, <2>3, <2>4 DEF TypeOK
  <1>2. ASSUME IInv, Settled, ~spoiled, NEW k \in Ids
        PROVE  Same(index[k], objects[k]) /\ (k \in shown <=> Live(objects[k]))
    <2>1. objects[k].ver <= token
      BY <1>2 DEF IInv, Timed, Settled
    <2>2. \A i \in Ops : ~Tells(i, k)
      BY <1>2 DEF Settled, Tells
    <2>3. Same(index[k], objects[k])
      BY <1>2, <2>1, <2>2 DEF IInv, Explained
    <2>4. QED
      BY <1>2, <2>3 DEF IInv, Drawn, Same
  <1>3. ASSUME IInv, Settled, ~spoiled, NEW k \in Placeholders
        PROVE  ~Live(index[k]) /\ k \notin shown
    <2>1. PICK i \in Ops : k = -i
      BY DEF Placeholders
    <2>2. ~Live(index[k])
      BY <1>3, <2>1 DEF IInv, Placed, Settled
    <2>3. QED
      BY <1>3, <2>2 DEF IInv, Drawn
  <1>4. IInv => Agreed
    BY <1>1, <1>2, <1>3 DEF Agreed
  <1>5. QED
    BY <1>4, Invariant, PTL

\* A write makes its event once, and once more for each answer that was lost; filing an
\* invitation never makes a second event of it; and the organizer hears each answer once,
\* by mail or from the calendar server and never by both (executeEvent, ImportEvent,
\* rsvp.go RespondByMail, outbox.go retryable).
THEOREM DoneOnce == Spec => []OnceEach
  <1>1. ASSUME IInv PROVE CreatedOnce
    <2>1. ASSUME NEW i \in Ops PROVE made[i] <= 1 + lost
      <3>1. made[i] \in Nat /\ lost \in Nat /\ Paid(i)
        BY <1>1 DEF IInv, Typed
      <3>2. QED
        BY <3>1 DEF Paid
    <2> DEFINE F == {k \in Ids : Live(objects[k]) /\ objects[k].uid = "inv"}
    <2>2. F = {} \/ \E k \in F : F = {k}
      BY <1>1 DEF IInv, OneInvited
    <2>3. Cardinality(F) <= 1
      <3> HIDE DEF F
      <3>1. Cardinality(F) = 0 \/ Cardinality(F) = 1
        BY <2>2, FS_EmptySet, FS_Singleton
      <3>2. QED
        BY <3>1
    <2>4. QED
      BY <2>1, <2>3 DEF CreatedOnce
  <1>2. ASSUME IInv PROVE ToldOnce
    <2>1. told \in Nat /\ given \in Nat /\ lost \in Nat /\ told + Cardinality(Unheard) <= given + lost
      BY <1>2 DEF IInv, Typed, Heard
    <2>2. Cardinality(Unheard) \in Nat
      BY OpsFinite DEF Unheard
    <2>3. QED
      BY <2>1, <2>2 DEF ToldOnce
  <1>3. IInv => OnceEach
    BY <1>1, <1>2 DEF OnceEach
  <1>4. QED
    BY <1>3, Invariant, PTL

\* An invitation accepted by mail is on the calendar in the end, offline or not, where the
\* server can file it silently and nobody dies between the reply and the filing or takes
\* the event off again (rsvp.go RespondByMail, fileInvitedEvent).
THEOREM AcceptedFiled == Spec => []AcceptedIsFiled
  <1>1. ASSUME IInv, Settled, filing = "no", recorded = "accepted", Undisturbed
        PROVE  \E k \in Ids : Live(objects[k]) /\ objects[k].uid = "inv"
    <2>1. \A i \in Ops : row[i] # "pending"
      BY <1>1 DEF Settled
    <2>2. \E k \in Ids : Invited(k)
      BY <1>1, <2>1 DEF IInv, FilingSound
    <2>3. QED
      BY <2>2 DEF Invited
  <1>2. IInv => AcceptedIsFiled
    BY <1>1 DEF AcceptedIsFiled, Undisturbed
  <1>3. QED
    BY <1>2, Invariant, PTL
=============================================================================
