------------------------------ MODULE MCOutbox ------------------------------
(***************************************************************************)
(* Values of the constants of Outbox for TLC: one booking, a reminder, a   *)
(* notice of each kind and a staff message; two workers.                   *)
(***************************************************************************)
EXTENDS Outbox, TLC

CONSTANTS reminder, moved, cancelled, staff

MCKind == (reminder :> "reminder") @@ (moved :> "moved") @@ (cancelled :> "cancelled")
          @@ (staff :> "staff_message")
MCAbout == [m \in {reminder, moved, cancelled, staff} |-> 1]
MCBackoff == [n \in 1 .. 2 |-> n]
=============================================================================
