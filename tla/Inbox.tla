------------------------------- MODULE Inbox -------------------------------
(***************************************************************************)
(* The inbox: what becomes of a message or a tap a guest sends the bot.    *)
(*                                                                         *)
(* Telegram keeps updates until a poll confirms them with an offset, or a  *)
(* day is over.  A process fetches what is kept and settles it in order:   *)
(* it claims an update by its id in the database, answers it, and moves    *)
(* its offset past it.  The claim is what keeps the answer from happening  *)
(* again, for the offset is only in memory: the process may die between    *)
(* any two steps, two processes may poll at once while one replaces the    *)
(* other, and after a quiet week Telegram starts its ids anew, so that an  *)
(* id in the table of claims may name another update.  A claim proves      *)
(* something for a day, as long as Telegram keeps the update.              *)
(*                                                                         *)
(* Updates are numbered as guests send them, which is not their id.  All   *)
(* taps here press the button under one booking's reminder.                *)
(***************************************************************************)
EXTENDS Integers

CONSTANTS
  LastUpdate,     \* the guests send updates 1..LastUpdate
  Kind,           \* what each of them is
  LastId,         \* Telegram numbers them with ids of 1..LastId
  Places,         \* bound: how many processes run at a time
  LastProcess,    \* bound: how many processes are ever started
  AnswerRetries,  \* ANSWER_RETRIES
  KeptFor,        \* how long Telegram keeps an update nobody fetches
  Remembered,     \* UPDATE_RETENTION: how long a claim is proof
  SweepEvery,     \* SWEEP_EVERY
  QuietFor,       \* after so long without updates Telegram starts its ids anew
  Patience,       \* the longest a batch is in hand (see Tick)
  MaxTime,        \* bound: the clock stops here
  MaxFaults       \* bound: calls that fail or whose reply is lost

Updates == 1 .. LastUpdate
Ids == 1 .. LastId
Processes == 1 .. LastProcess
Pollers == 1 .. Places
Kinds == {"tap", "start", "text", "group"}

ASSUME InboxAssumption ==
  /\ LastUpdate \in Nat /\ LastId \in Nat \ {0}
  /\ Kind \in [Updates -> Kinds]
  /\ Places \in Nat \ {0} /\ LastProcess \in Nat \ {0}
  /\ AnswerRetries \in Nat
  /\ KeptFor \in Nat /\ Remembered \in Nat /\ SweepEvery \in Nat /\ Patience \in Nat
  \* A day, a day, a week, and the minutes a batch takes.
  /\ QuietFor \in Nat /\ KeptFor + Patience + Remembered < QuietFor /\ Patience <= Remembered
  /\ MaxTime \in Nat /\ MaxFaults \in Nat

VARIABLES
  sent,       \* [Updates -> what Telegram has of the update]
  claims,     \* [Ids -> row of bot_update]
  pollers,    \* [Pollers -> the process that runs there]
  booking,    \* of the reminder, see Bookings
  button,     \* the reminder still has its button
  reachable,  \* of the guest who sends /start
  answers,    \* [Updates -> how often it was answered]
  clock, born, faults

vars == <<sent, claims, pollers, booking, button, reachable, answers, clock, born, faults>>

Claims == [owner : {0} \cup Processes, attempts : Nat, at : Nat]
NoClaim == [owner |-> 0, attempts |-> 0, at |-> 0]

\* A plan ever since its reminder; marked as arrived, gone or not shown up, or
\* with its window over; a plan anew; cancelled.
Bookings == {"plan", "marked", "again", "cancelled"}

Phases == {"polling", "settling", "claimed", "done", "not_done", "read", "sweeping"}

\* Inbox and the locals of run: an offset of 0 stands for none.
PollerType ==
  [owner : {0} \cup Processes, offset : 0 .. LastId + 1, confirmed : 0 .. LastId + 1,
   batch : SUBSET Updates, fetched_at : Nat, phase : Phases, attempt : Nat, swept : Int]

-----------------------------------------------------------------------------
(***************************************************************************)
(* Telegram.                                                               *)
(***************************************************************************)

Kept == {u \in Updates : sent[u].state = "kept"}

\* An offset past what Telegram numbers now confirms nothing.
Stale(offset) == \A u \in Kept : sent[u].id + 1 < offset

Below(offset) == {u \in Kept : ~Stale(offset) /\ sent[u].id < offset}

Without(updates) ==
  [u \in Updates |-> IF u \in updates THEN [sent[u] EXCEPT !.state = "gone"] ELSE sent[u]]

NextIds(u) ==
  IF u = 1 \/ sent[u - 1].at + QuietFor <= clock THEN Ids ELSE {sent[u - 1].id + 1} \cap Ids

Arrive(u) ==
  /\ sent[u].state = "unsent"
  /\ u > 1 => sent[u - 1].state # "unsent"
  /\ \E id \in NextIds(u) : sent' = [sent EXCEPT ![u] = [state |-> "kept", id |-> id, at |-> clock]]
  /\ UNCHANGED <<claims, pollers, booking, button, reachable, answers, clock, born, faults>>

-----------------------------------------------------------------------------
(***************************************************************************)
(* The loop of a process.                                                  *)
(***************************************************************************)

\* The first update of the batch that is not settled.
InHand(p) ==
  CHOOSE u \in pollers[p].batch : \A v \in pollers[p].batch : u <= v

Goes(p, phase) == pollers' = [pollers EXCEPT ![p].phase = phase]

\* get_updates answers; or its answer is lost after Telegram has confirmed.
Poll(p) ==
  /\ pollers[p].owner # 0 /\ pollers[p].phase = "polling"
  /\ sent' = Without(Below(pollers[p].offset))
  /\ LET fetched == Kept \ Below(pollers[p].offset) IN
     \/ /\ pollers' = [pollers EXCEPT ![p].confirmed = pollers[p].offset,
                                      ![p].batch = fetched,
                                      ![p].fetched_at = IF fetched = {} THEN 0 ELSE clock,
                                      ![p].phase = IF fetched = {} THEN @ ELSE "settling"]
        /\ UNCHANGED faults
     \/ faults < MaxFaults /\ faults' = faults + 1 /\ UNCHANGED pollers
  /\ UNCHANGED <<claims, booking, button, reachable, answers, clock, born>>

\* The batch is halted at the update in hand, and fetched again.
Halt(p) ==
  pollers' = [pollers EXCEPT ![p].phase = "polling", ![p].batch = {}, ![p].fetched_at = 0,
                             ![p].attempt = 0]

SweepDue(p) == pollers[p].swept + SweepEvery <= clock

\* The offset goes past the update in hand.  After a whole batch old claims
\* are swept away, once in a while.
Settle(p) ==
  LET rest == pollers[p].batch \ {InHand(p)}
      sweeps == rest = {} /\ SweepDue(p)
  IN
  pollers' = [pollers EXCEPT ![p].offset = sent[InHand(p)].id + 1,
                             ![p].batch = rest,
                             ![p].fetched_at = IF rest = {} THEN 0 ELSE @,
                             ![p].attempt = 0,
                             ![p].swept = IF sweeps THEN clock ELSE @,
                             ![p].phase = IF sweeps THEN "sweeping"
                                          ELSE IF rest = {} THEN "polling" ELSE "settling"]

\* A claim too old to prove anything.
Forgotten(claim) == claim.at < clock - Remembered

\* A mutation: whoever asks is given the update.
EveryoneMayTake(claim, owner) == claim.owner >= 0

MayTake(claim, owner) == claim.owner \in {0, owner} \/ Forgotten(claim)

\* A mutation: a claim taken again starts counting anew.
TakenAnew(claim, owner) == [owner |-> owner, attempts |-> 1, at |-> clock]

Taken(claim, owner) ==
  [owner |-> owner,
   attempts |-> IF Forgotten(claim) THEN 1 ELSE claim.attempts + 1,
   at |-> clock]

\* claim_update.  It may fail, before or after it is committed.
Claim(p) ==
  LET id == sent[InHand(p)].id
      claim == Taken(claims[id], pollers[p].owner)
  IN
  /\ pollers[p].phase = "settling"
  /\ \/ /\ MayTake(claims[id], pollers[p].owner)
        /\ claims' = [claims EXCEPT ![id] = claim]
        /\ \/ /\ pollers' = [pollers EXCEPT ![p].phase = "claimed", ![p].attempt = claim.attempts]
              /\ UNCHANGED faults
           \/ faults < MaxFaults /\ faults' = faults + 1 /\ Halt(p)
     \/ faults < MaxFaults /\ faults' = faults + 1 /\ Halt(p) /\ UNCHANGED claims
     \/ /\ ~MayTake(claims[id], pollers[p].owner)
        /\ Settle(p)
        /\ UNCHANGED <<claims, faults>>
  /\ UNCHANGED <<sent, booking, button, reachable, answers, clock, born>>

\* Only a plan is cancelled from its reminder; else there is nothing to cancel.
CalledOff == IF booking \in {"plan", "again"} THEN "cancelled" ELSE booking

\* A tap, first half: cancel_reminded_booking, which cancels, finds nothing to
\* cancel, or fails, before or after it is committed.
CancelReminded(p) ==
  /\ pollers[p].phase = "claimed" /\ Kind[InHand(p)] = "tap"
  /\ \/ booking' = CalledOff /\ Goes(p, "done") /\ UNCHANGED faults
     \/ faults < MaxFaults /\ faults' = faults + 1
        /\ booking' \in {booking, CalledOff} /\ Goes(p, "not_done")
  /\ UNCHANGED <<sent, claims, button, reachable, answers, clock, born>>

\* A mutation: the button goes even when the cancellation failed.
ButtonSpent(p) == pollers[p].phase # "polling"

Spent(p) == pollers[p].phase = "done"

\* The reply, if nothing goes wrong: a failure to send is only logged.
Answered(u) ==
  \/ answers' = [answers EXCEPT ![u] = @ + 1] /\ UNCHANGED faults
  \/ faults < MaxFaults /\ faults' = faults + 1 /\ UNCHANGED answers

\* A tap, second half.
AnswerTap(p) ==
  /\ pollers[p].phase \in {"done", "not_done"}
  /\ Answered(InHand(p))
  /\ button' \in IF Spent(p) THEN {button, FALSE} ELSE {button}
  /\ Settle(p)
  /\ UNCHANGED <<sent, claims, booking, reachable, clock, born>>

\* A mutation: a failing update is tried for ever.
NeverLetGo(attempt) == attempt < 0

LetGo(attempt) == attempt > AnswerRetries

\* A message outside a private chat is not answered.  Of one inside, this is
\* the first step of the answer, which may fail again and again: the
\* update is tried anew until it is let go.
ReadConfig(p) ==
  /\ pollers[p].phase = "claimed" /\ Kind[InHand(p)] # "tap"
  /\ IF Kind[InHand(p)] = "group" THEN Settle(p)
     ELSE Goes(p, "read") \/ (IF LetGo(pollers[p].attempt) THEN Settle(p) ELSE Halt(p))
  /\ UNCHANGED <<sent, claims, booking, button, reachable, answers, clock, born, faults>>

AnswerMessage(p) ==
  /\ pollers[p].phase = "read"
  /\ reachable' \in IF Kind[InHand(p)] = "start" THEN {reachable, TRUE} ELSE {reachable}
  /\ Answered(InHand(p))
  /\ Settle(p)
  /\ UNCHANGED <<sent, claims, booking, button, clock, born>>

\* A sweep that fails is not made up for.
ForgetOldClaims(p) ==
  /\ pollers[p].phase = "sweeping"
  /\ claims' \in {claims, [id \in Ids |-> IF Forgotten(claims[id]) THEN NoClaim ELSE claims[id]]}
  /\ Goes(p, "polling")
  /\ UNCHANGED <<sent, booking, button, reachable, answers, clock, born, faults>>

-----------------------------------------------------------------------------
(***************************************************************************)
(* Processes end and are replaced; the guest, the staff and time go on.    *)
(***************************************************************************)

Newborn(owner) ==
  [owner |-> owner, offset |-> 0, confirmed |-> 0, batch |-> {}, fetched_at |-> 0,
   phase |-> "polling", attempt |-> 0, swept |-> -SweepEvery]

\* A mutation: the process that comes back is taken for the one that died.
OwnerAgain(p) == pollers[p].owner

NextOwner(p) == born + 1

\* A process comes to run at p.
Replaced(p) ==
  /\ born < LastProcess
  /\ born' = born + 1
  /\ pollers' = [pollers EXCEPT ![p] = Newborn(NextOwner(p))]

Start(p) ==
  /\ pollers[p].owner = 0
  /\ Replaced(p)
  /\ UNCHANGED <<sent, claims, booking, button, reachable, answers, clock, faults>>

\* A stop lets the batch in hand settle, then confirms what it settled.
Stop(p) ==
  /\ pollers[p].owner # 0 /\ pollers[p].phase = "polling"
  /\ Replaced(p)
  /\ \/ UNCHANGED sent
     \/ /\ pollers[p].offset \notin {0, pollers[p].confirmed}
        /\ sent' = Without(Below(pollers[p].offset))
  /\ UNCHANGED <<claims, booking, button, reachable, answers, clock, faults>>

Crash(p) ==
  /\ pollers[p].owner # 0
  /\ Replaced(p)
  /\ UNCHANGED <<sent, claims, booking, button, reachable, answers, clock, faults>>

\* Staff mark the booking, undo the mark or move the party, or its evening is
\* cancelled elsewhere.
ChangeBooking ==
  /\ \/ booking \in {"plan", "again"} /\ booking' = "marked"
     \/ booking = "marked" /\ booking' = "again"
     \/ booking # "cancelled" /\ booking' = "cancelled"
  /\ UNCHANGED <<sent, claims, pollers, button, reachable, answers, clock, born, faults>>

\* Time passes: Telegram drops what it has kept for long enough.  Every call
\* has a timeout, so a batch is not in hand longer than Patience.
Tick ==
  /\ clock < MaxTime
  /\ \A p \in Pollers : pollers[p].batch # {} => clock < pollers[p].fetched_at + Patience
  /\ clock' = clock + 1
  /\ sent' = Without({u \in Kept : sent[u].at + KeptFor < clock'})
  /\ UNCHANGED <<claims, pollers, booking, button, reachable, answers, born, faults>>

Init ==
  /\ sent = [u \in Updates |-> [state |-> "unsent", id |-> 1, at |-> 0]]
  /\ claims = [id \in Ids |-> NoClaim]
  /\ pollers = [p \in Pollers |-> Newborn(IF p = 1 THEN 1 ELSE 0)]
  /\ booking = "plan"
  /\ button = TRUE
  /\ reachable = FALSE
  /\ answers = [u \in Updates |-> 0]
  /\ clock = 0
  /\ born = 1
  /\ faults = 0

Handle(p) ==
  Claim(p) \/ CancelReminded(p) \/ AnswerTap(p) \/ ReadConfig(p)
  \/ AnswerMessage(p) \/ ForgetOldClaims(p)

Next ==
  \/ \E u \in Updates : Arrive(u)
  \/ \E p \in Pollers : Poll(p) \/ Handle(p) \/ Start(p) \/ Stop(p) \/ Crash(p)
  \/ ChangeBooking \/ Tick

Spec == Init /\ [][Next]_vars

\* A running process polls and handles for ever; guests, staff and time need
\* not act.
Fairness == \A p \in Pollers : WF_vars(Poll(p)) /\ WF_vars(Handle(p))

FairSpec == Spec /\ Fairness

-----------------------------------------------------------------------------
TypeOK ==
  /\ sent \in [Updates -> [state : {"unsent", "kept", "gone"}, id : Ids, at : Nat]]
  /\ claims \in [Ids -> Claims]
  /\ pollers \in [Pollers -> PollerType]
  /\ \A p \in Pollers : pollers[p].attempt <= AnswerRetries + 1 + MaxFaults
  /\ booking \in Bookings
  /\ button \in BOOLEAN
  /\ reachable \in BOOLEAN
  /\ answers \in [Updates -> Nat]
  /\ clock \in Nat
  /\ born \in Processes
  /\ faults \in Nat

(***************************************************************************)
(* Whatever dies, is fetched again or is numbered like an old one, an      *)
(* update is answered once at the most until it is so old that the claim   *)
(* on it may be forgotten (updates.rs, UPDATE_RETENTION).                  *)
(***************************************************************************)
OnceWhileRemembered ==
  \A u \in Updates : clock <= sent[u].at + Remembered => answers[u] <= 1

(***************************************************************************)
(* What the code says of it: at most once, however old (inbox.rs, handle). *)
(***************************************************************************)
AtMostOnce == \A u \in Updates : answers[u] <= 1

(***************************************************************************)
(* As long as the booking has been a plan ever since its reminder, the     *)
(* button to call it off is there, although a cancellation fails half-way  *)
(* (inbox.rs, answer_tap: keep buttons when cancel failed).                *)
(***************************************************************************)
ButtonUnlessMarked == booking = "plan" => button

\* An update is in the bot's hands as long as Telegram or a process has it.
StillHere(u) == sent[u].state = "kept" \/ \E p \in Pollers : u \in pollers[p].batch

Letters ==
  [u \in Updates |->
     IF sent[u].state = "unsent" THEN "unsent"
     ELSE IF ~StillHere(u) THEN "closed"
     ELSE IF clock <= sent[u].at + Remembered THEN "open" ELSE "late"]

M == INSTANCE Mailbox WITH letters <- Letters

(***************************************************************************)
(* The inbox keeps the promise of Mailbox: an update is answered once at   *)
(* the most while it is young, again only if it is still in hand when its  *)
(* claim may be forgotten, and never after it has been settled or dropped. *)
(***************************************************************************)
KeepsMailbox == M!Spec

(***************************************************************************)
(* No update blocks those behind it: every one Telegram keeps is settled   *)
(* and confirmed, though its answer fails every time and no day passes     *)
(* (inbox.rs, ANSWER_RETRIES).                                             *)
(***************************************************************************)
NoneBlocks == \A u \in Updates : sent[u].state = "kept" ~> sent[u].state = "gone"
=============================================================================
