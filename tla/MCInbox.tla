------------------------------ MODULE MCInbox ------------------------------
(***************************************************************************)
(* Values of the constants of Inbox for TLC.                               *)
(***************************************************************************)
EXTENDS Inbox

MCKind == [u \in Updates |-> IF u = 1 THEN "tap" ELSE "text"]

Sends(u) == sent[u].state = "unsent" /\ sent'[u].state = "kept"

StaffChange == booking' # booking /\ UNCHANGED pollers

(***************************************************************************)
(* What guests, staff and time do, the bot being free to do as it likes.   *)
(* The second update comes with the first one or after a quiet week;       *)
(* staff change the booking while its tap is under way and nothing else    *)
(* is; time passes only as long as something is still to come.             *)
(***************************************************************************)
Eventful ==
  /\ Sends(2) => clock \in {0, QuietFor} /\ booking \in {"plan", "cancelled"}
  /\ StaffChange => clock = 0 /\ StillHere(1) /\ sent[2].state = "unsent"
  /\ clock' # clock => /\ sent[1].state # "unsent"
                       /\ \E u \in Updates : sent[u].state = "unsent" \/ StillHere(u)
=============================================================================
