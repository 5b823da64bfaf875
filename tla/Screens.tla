------------------------------ MODULE Screens ------------------------------
(***************************************************************************)
(* One member of staff looks at the shift of an evening while colleagues   *)
(* and guests change the room.                                             *)
(*                                                                         *)
(* The app reads the evening on screen again and again and answers come    *)
(* back in any order or not at all.  A write answers with the room as its  *)
(* own transaction left it; one write is under way at a time.  The server  *)
(* numbers the room's changes: a read takes the rows and then the version  *)
(* on one snapshot, a write changes the room under the bar lock and reads  *)
(* both before it commits.  The room of an evening is here the set of the  *)
(* changes that made it.                                                   *)
(*                                                                         *)
(* The same rule serves questions the server does not version (the day's   *)
(* free times); versioned tells which kind this screen asks.               *)
(***************************************************************************)
EXTENDS Ledger, Sequences

CONSTANTS
  Evenings,
  KeptAside,    \* KEPT_ASIDE
  MaxAsked,     \* bound: calls the app makes
  MaxChanges    \* bound: changes of the room

ASSUME ScreensAssumption ==
  /\ KeptAside \in Nat /\ MaxAsked \in Nat /\ MaxChanges \in Nat

VARIABLES
  changed,     \* the evenings each change of the room was about, in order
  lock,        \* the write that holds the bar lock, 0 if none
  calls,       \* the app's calls that are still under way, by number
  asked,       \* number of the newest call
  entries,     \* [Evenings -> entry of the ledger]
  onScreen,    \* the evening the app shows
  versioned,   \* never changes
  told         \* history: what the answers and failures heard should amount to

vars == <<changed, lock, calls, asked, entries, onScreen, versioned, told>>

Numbers == 1 .. MaxAsked
Untold == [version |-> 0, answered |-> 0, failed |-> 0]

Contents(e, v) == {i \in 1 .. v : e \in changed[i]}

\* since is history: the room's version when the read was asked.
Call(kind, e) ==
  [kind |-> kind, evening |-> e, stage |-> "sent", rows |-> {}, version |-> 0,
   waiting |-> TRUE, since |-> IF kind = "read" THEN Len(changed) ELSE 0]

Without(cs, n) == [m \in DOMAIN cs \ {n} |-> cs[m]]

Pending(cs) == {cs[n].evening : n \in {m \in DOMAIN cs : cs[m].kind = "read" /\ cs[m].waiting}}

Busy == \E n \in DOMAIN calls : calls[n].kind = "write" /\ calls[n].waiting

\* Every change of the ledger prunes it.
Commit(es, ts, cs) ==
  LET dropped == Dropped(es, onScreen, Pending(cs), KeptAside)
  IN /\ entries' = Pruned(es, dropped)
     /\ told' = [e \in Evenings |-> IF e \in dropped THEN Untold ELSE ts[e]]
     /\ calls' = cs

-----------------------------------------------------------------------------
\* The app.

Show(e) ==
  /\ e # onScreen
  /\ onScreen' = e
  /\ UNCHANGED <<changed, lock, calls, asked, entries, versioned, told>>

Ask(call) ==
  /\ asked < MaxAsked
  /\ asked' = asked + 1
  /\ Commit(entries, told, [n \in DOMAIN calls \cup {asked + 1} |->
                              IF n = asked + 1 THEN call ELSE calls[n]])
  /\ UNCHANGED <<changed, lock, onScreen, versioned>>

Load == Ask(Call("read", onScreen))

\* The undo of a toast may be about an evening no longer on screen.
WriteShift(e) == versioned /\ ~Busy /\ Ask(Call("write", e))

AnswerOf(call) == [version |-> call.version, rows |-> call.rows]

Hear(n) ==
  LET call == calls[n]
      e == call.evening
      known == IF call.kind = "write" THEN call.version ELSE call.since
  IN /\ call.waiting /\ call.stage = "done"
     /\ Commit([entries EXCEPT ![e] = Answered(@, n, AnswerOf(call), versioned)],
               [told EXCEPT ![e].version = IF @ < known THEN known ELSE @,
                            ![e].answered = IF @ < n THEN n ELSE @],
               Without(calls, n))
     /\ UNCHANGED <<changed, lock, asked, onScreen, versioned>>

\* The call is refused, or its reply does not come: then a write may still be
\* carried out.
Fail(n) ==
  LET call == calls[n]
      e == call.evening
      gone == call.kind = "read" \/ call.stage \in {"done", "refused"}
      rest == IF gone THEN Without(calls, n) ELSE [calls EXCEPT ![n].waiting = FALSE]
  IN /\ call.waiting
     /\ IF call.kind = "read"
        THEN Commit([entries EXCEPT ![e] = Failed(@, n)],
                    [told EXCEPT ![e].failed = IF @ < n THEN n ELSE @],
                    rest)
        ELSE calls' = rest /\ UNCHANGED <<entries, told>>
     /\ UNCHANGED <<changed, lock, asked, onScreen, versioned>>

-----------------------------------------------------------------------------
\* The server.

Carried(n, kind, stage) == calls[n].kind = kind /\ calls[n].stage = stage

Room(e) == Contents(e, Len(changed))

ReadRows(n) ==
  /\ Carried(n, "read", "sent")
  /\ calls' = [calls EXCEPT ![n].stage = "rows", ![n].rows = Room(calls[n].evening),
                            ![n].version = Len(changed)]
  /\ UNCHANGED <<changed, lock, asked, entries, onScreen, versioned, told>>

\* Mutants.  The version read once the snapshot is over, and one too many.
VersionAfterRows(call) == Len(changed)
VersionAhead(call) == call.version + 1

\* The one of the snapshot the rows were read on.
VersionRead(call) == call.version

ReadVersion(n) ==
  /\ Carried(n, "read", "rows")
  /\ calls' = [calls EXCEPT ![n].stage = "done", ![n].version = VersionRead(calls[n])]
  /\ UNCHANGED <<changed, lock, asked, entries, onScreen, versioned, told>>

\* Under the bar lock the write reads the room its own change goes on top of.
LockBar(n) ==
  /\ Carried(n, "write", "sent") /\ lock = 0
  /\ lock' = n
  /\ calls' = [calls EXCEPT ![n].stage = "rows", ![n].rows = Room(calls[n].evening)]
  /\ UNCHANGED <<changed, asked, entries, onScreen, versioned, told>>

\* The calls after the server is done with write n, which ended as done.
Ended(n, done) ==
  IF calls[n].waiting THEN [calls EXCEPT ![n] = done] ELSE Without(calls, n)

CommitWrite(n) ==
  LET version == Len(changed) + 1
  IN /\ Carried(n, "write", "rows") /\ version <= MaxChanges
     /\ changed' = Append(changed, {calls[n].evening})
     /\ lock' = 0
     /\ calls' = Ended(n, [calls[n] EXCEPT !.stage = "done", !.version = version,
                                            !.rows = @ \cup {version}])
     /\ UNCHANGED <<asked, entries, onScreen, versioned, told>>

Rollback(n) ==
  /\ Carried(n, "write", "rows")
  /\ lock' = 0
  /\ calls' = Ended(n, [calls[n] EXCEPT !.stage = "refused", !.rows = {}])
  /\ UNCHANGED <<changed, asked, entries, onScreen, versioned, told>>

BarIsFree == lock = 0

\* Somebody else's transaction; a save of the settings may change every evening.
OthersChange(es) ==
  /\ BarIsFree /\ Len(changed) < MaxChanges
  /\ changed' = Append(changed, es)
  /\ UNCHANGED <<lock, calls, asked, entries, onScreen, versioned, told>>

-----------------------------------------------------------------------------
Init ==
  /\ changed = <<>>
  /\ lock = 0
  /\ calls = [n \in {} |-> 0]
  /\ asked = 0
  /\ entries = [e \in Evenings |-> Nothing]
  /\ onScreen \in Evenings
  /\ versioned \in BOOLEAN
  /\ told = [e \in Evenings |-> Untold]

Next ==
  \/ Load
  \/ \E e \in Evenings : Show(e) \/ WriteShift(e)
  \/ \E n \in DOMAIN calls :
       \/ Hear(n) \/ Fail(n)
       \/ ReadRows(n) \/ ReadVersion(n)
       \/ LockBar(n) \/ CommitWrite(n) \/ Rollback(n)
  \/ \E es \in SUBSET Evenings \ {{}} : OthersChange(es)

Spec == Init /\ [][Next]_vars

-----------------------------------------------------------------------------
CallType ==
  [kind : {"read", "write"}, evening : Evenings, stage : {"sent", "rows", "done", "refused"},
   rows : SUBSET (1 .. MaxChanges), version : 0 .. MaxChanges,
   waiting : BOOLEAN, since : 0 .. MaxChanges]

TypeOK ==
  /\ changed \in Seq(SUBSET Evenings) /\ Len(changed) <= MaxChanges
  /\ lock \in {0} \cup DOMAIN calls
  /\ asked \in 0 .. MaxAsked
  /\ DOMAIN calls \subseteq 1 .. asked
  /\ \A n \in DOMAIN calls : calls[n] \in CallType
  /\ entries \in [Evenings -> [number : 0 .. asked, version : 0 .. MaxChanges,
                               rows : SUBSET (1 .. MaxChanges),
                               heard : 0 .. asked, failure : 0 .. asked]]
  /\ onScreen \in Evenings
  /\ versioned \in BOOLEAN

Shown ==
  [e \in Evenings |->
     IF versioned THEN [version |-> entries[e].version, rows |-> entries[e].rows]
     ELSE [version |-> 0, rows |-> {}]]

B == INSTANCE Board WITH shown <- Shown

(***************************************************************************)
(* The screen keeps the promise of Board: whatever order answers come in,  *)
(* each evening's room is one that really was, and never an older one      *)
(* after a newer (evening.rs, evening and read_evening; page.tsx,          *)
(* roomOrder).                                                             *)
(***************************************************************************)
KeepsBoard == B!Spec

(***************************************************************************)
(* What is on record is at least as new as the room was when any read that *)
(* has been answered was asked, and holds every write of one's own that    *)
(* was answered; also where only the order of asking tells answers apart   *)
(* (reads.ts, replaces; page.tsx, writeShift).                             *)
(***************************************************************************)
ScreenKeepsUp == \A e \in Evenings : entries[e].version >= told[e].version

(***************************************************************************)
(* A failure shows exactly if the newest read that failed was asked after  *)
(* every call that was answered: no late failure hides an answer, no late  *)
(* answer swallows a newer failure (reads.ts, failed and heardAt).         *)
(***************************************************************************)
FailuresAreNews ==
  \A e \in Evenings :
    entries[e].failure # 0 <=> told[e].failed > told[e].answered
=============================================================================
