------------------------------- MODULE Ledger -------------------------------
(***************************************************************************)
(* The one rule for every read of the app: which answers reach the screen  *)
(* and which failures show.  A call is numbered when it is sent; each      *)
(* question keeps an entry of its own: the answer on record and the call   *)
(* that brought it, the newest number among the answers heard, and the     *)
(* newest failure (0 for none of these).                                   *)
(***************************************************************************)
EXTENDS Integers, FiniteSets

Larger(a, b) == IF a < b THEN b ELSE a

Nothing == [number |-> 0, version |-> 0, rows |-> {}, heard |-> 0, failure |-> 0]

\* Mutant: of two answers of one version, or of none, the first stays.
ReplacesIfNewer(entry, number, answer, versioned) ==
  entry.number = 0 \/ (versioned /\ answer.version > entry.version)

\* Answers the server versions go by their version, the others and equals by
\* the order they were asked in.
Replaces(entry, number, answer, versioned) ==
  LET said == IF versioned THEN answer.version - entry.version ELSE 0
  IN entry.number = 0 \/ said > 0 \/ (said = 0 /\ number > entry.number)

\* An answer too old to show still proves that the question can be answered.
HeardAt(entry, number) ==
  [entry EXCEPT !.heard = Larger(@, number),
                !.failure = IF @ <= number THEN 0 ELSE @]

Applied(entry, number, answer) ==
  [HeardAt(entry, number) EXCEPT
     !.number = number, !.version = answer.version, !.rows = answer.rows]

Answered(entry, number, answer, versioned) ==
  IF Replaces(entry, number, answer, versioned)
  THEN Applied(entry, number, answer)
  ELSE HeardAt(entry, number)

\* Mutant: what was heard since does not matter.
FailedAnyway(entry, number) ==
  IF number >= entry.failure THEN [entry EXCEPT !.failure = number] ELSE entry

Failed(entry, number) ==
  IF number > entry.heard /\ number >= entry.failure
  THEN [entry EXCEPT !.failure = number]
  ELSE entry

LastHeard(entry) == Larger(entry.heard, entry.failure)

\* Which questions are dropped: neither on screen nor in flight, and not one of
\* the keep last heard of.
Dropped(entries, onScreen, pending, keep) ==
  LET idle == {key \in DOMAIN entries :
                 entries[key] # Nothing /\ key # onScreen /\ key \notin pending}
  IN {key \in idle :
        Cardinality({other \in idle : LastHeard(entries[other]) > LastHeard(entries[key])}) >= keep}

Pruned(entries, dropped) ==
  [key \in DOMAIN entries |-> IF key \in dropped THEN Nothing ELSE entries[key]]
=============================================================================
