------------------------------ MODULE Mailbox ------------------------------
(***************************************************************************)
(* What the inbox promises the guests: whatever they send the bot is open  *)
(* for some time and then closed for good.  While it is open it may be     *)
(* answered, once.  If it is late, it may be answered again before it is   *)
(* closed; once closed it is never answered any more.                      *)
(***************************************************************************)
EXTENDS Naturals

CONSTANT Updates

VARIABLES
  letters,   \* [Updates -> "unsent", "open", "late" or "closed"]
  answers    \* [Updates -> how often it was answered]

mailbox == <<letters, answers>>

Send(u) ==
  /\ letters[u] = "unsent"
  /\ letters' = [letters EXCEPT ![u] = "open"]
  /\ UNCHANGED answers

\* The letters of one set get late, those of another are closed.
Age(late, closed) ==
  /\ \A u \in late : letters[u] = "open"
  /\ \A u \in closed : letters[u] \in {"open", "late"}
  /\ letters' = [u \in Updates |-> IF u \in closed THEN "closed"
                                  ELSE IF u \in late THEN "late" ELSE letters[u]]

Answer(u) ==
  /\ letters[u] = "late" \/ (letters[u] = "open" /\ answers[u] = 0)
  /\ answers' = [answers EXCEPT ![u] = @ + 1]
  /\ Age({}, {}) \/ Age({}, {u})

Init ==
  /\ letters = [u \in Updates |-> "unsent"]
  /\ answers = [u \in Updates |-> 0]

Next ==
  \/ \E u \in Updates : Send(u) \/ Answer(u)
  \/ \E late, closed \in SUBSET Updates : Age(late, closed) /\ UNCHANGED answers

Spec == Init /\ [][Next]_mailbox

=============================================================================
