----------------------------- MODULE MCEditing -----------------------------
(***************************************************************************)
(* Two settings, one read with the version and one after it.  The server   *)
(* stores " 1" as 1.                                                       *)
(***************************************************************************)
EXTENDS Editing, TLC

Trimmed == (0 :> 0) @@ (1 :> 1) @@ (2 :> 1)
AllZero == [f \in Fields |-> 0]
=============================================================================
