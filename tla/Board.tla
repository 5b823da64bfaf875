------------------------------- MODULE Board -------------------------------
(***************************************************************************)
(* What the shift screen promises: of every evening it shows the room as   *)
(* it stood after one of the changes made to it, and from one moment to    *)
(* the next only a later room, until it forgets the evening.               *)
(***************************************************************************)
EXTENDS Naturals, Sequences

CONSTANT Evenings

VARIABLES
  changed,   \* the sets of evenings the room's changes were about, in order
  shown      \* [Evenings -> Blank or a room and its version]

board == <<changed, shown>>

Blank == [version |-> 0, rows |-> {}]

\* The room of evening e after the first v changes: which of them made it.
Contents(e, v) == {i \in 1 .. v : e \in changed[i]}

Change(es) ==
  /\ changed' = Append(changed, es)
  /\ UNCHANGED shown

Later(e) ==
  {[version |-> v, rows |-> Contents(e, v)] : v \in shown[e].version .. Len(changed)}

Look ==
  /\ shown' \in [Evenings -> {Blank} \cup UNION {Later(e) : e \in Evenings}]
  /\ \A e \in Evenings : shown'[e] \in {Blank} \cup Later(e)
  /\ UNCHANGED changed

Init ==
  /\ changed = <<>>
  /\ shown = [e \in Evenings |-> Blank]

Next == Look \/ \E es \in SUBSET Evenings : Change(es)

Spec == Init /\ [][Next]_board
=============================================================================
