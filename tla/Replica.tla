-------------------------------- MODULE Replica --------------------------------
(***************************************************************************)
(* What a copy of somebody else's data promises, whatever protocol keeps   *)
(* it: every item has a history there, from unknown (0) through its        *)
(* versions to gone (Gone), and the copy of an item only ever moves        *)
(* forward along that history, never past where the item itself is.  A     *)
(* copy may skip versions and may lag for as long as it likes.             *)
(*                                                                         *)
(* MailSync is shown to implement it for the message index of one account. *)
(***************************************************************************)
EXTENDS Naturals

CONSTANTS
    Items,
    Gone      \* the last point of every history

VARIABLES
    truth,    \* where the item is
    copy      \* how far the copy has followed it

vars == <<truth, copy>>

Init == /\ truth \in [Items -> 0..Gone]
        /\ copy = [i \in Items |-> 0]

\* The owner moves an item on: creates it, changes it or destroys it.
Move(i) == \E v \in truth[i] + 1 .. Gone :
              /\ truth' = [truth EXCEPT ![i] = v]
              /\ UNCHANGED copy

\* The copy catches up with some of the items, each as far as it has read.
Follow == /\ copy' \in [Items -> 0..Gone]
          /\ \A i \in Items : copy'[i] \in copy[i] .. truth[i]
          /\ UNCHANGED truth

Next == Follow \/ \E i \in Items : Move(i)

Spec == Init /\ [][Next]_vars

================================================================================
