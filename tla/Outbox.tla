------------------------------- MODULE Outbox -------------------------------
(***************************************************************************)
(* The outbox and the workers that drain it: what becomes of a message     *)
(* between the transaction that decides to send it and the guest.          *)
(*                                                                         *)
(* Workers do not take the bar's lock.  A claim copies a due row and pushes*)
(* its due moment a lease ahead; the copy is sent by a call to Telegram    *)
(* outside any transaction, and only then is the outcome written, to the   *)
(* row if it is still the one that was claimed.  In between the bar may    *)
(* move or cancel the booking, another worker may look at the queue, and   *)
(* the process may die.                                                    *)
(*                                                                         *)
(* The bar's side is what the operations of module Room do to the outbox,  *)
(* each in a transaction of its own.  Every booking here is of a guest of  *)
(* its own who has an account.                                             *)
(***************************************************************************)
EXTENDS Integers, FiniteSets

CONSTANTS
  Bookings,
  Messages,     \* identities of notification rows
  Kind,         \* what each message is for
  About,        \* the booking it is about
  Workers,
  Turn,         \* the length of a booking's window
  RemindAhead,  \* remind_hours
  Lease,        \* CLAIM_LEASE
  Patience,     \* the longest a delivery takes (see Tick)
  Backoff,      \* [1 .. MaxAttempts -> how long a failed attempt waits]
  RetryAfter,   \* waits Telegram may ask for
  MaxAttempts,  \* MAX_ATTEMPTS
  Batch,        \* BATCH
  Starts,       \* moments a booking may start at
  MaxTime,      \* bound: the clock stops here
  LastCall,     \* bound: the bar and the guests act until then
  MaxVersion,   \* bound: how often a booking changes
  MaxFaults,    \* bound: crashes, lost replies and lost records
  MaxWaits,     \* bound: how often Telegram asks to wait
  MaxActs       \* bound: how often the bar and the guests act

Kinds == {"reminder", "cancelled", "staff_message", "moved"}

ASSUME OutboxAssumption ==
  /\ Kind \in [Messages -> Kinds]
  /\ About \in [Messages -> Bookings]
  /\ \A m, k \in Messages : Kind[m] = "reminder" /\ Kind[k] = "reminder"
                            /\ About[m] = About[k] => m = k
  /\ Turn \in Nat \ {0} /\ RemindAhead \in Nat
  /\ Lease \in Nat /\ Patience \in Nat /\ Patience < Lease
  /\ MaxAttempts \in Nat \ {0}
  /\ Backoff \in [1 .. MaxAttempts -> Nat \ {0}]
  /\ RetryAfter \subseteq Nat
  /\ Batch \in Nat \ {0}
  /\ Starts \subseteq Nat
  /\ MaxTime \in Nat /\ LastCall \in Nat /\ MaxVersion \in Nat
  /\ MaxFaults \in Nat /\ MaxWaits \in Nat /\ MaxActs \in Nat

VARIABLES
  rows,       \* [Messages -> row of the notification table]
  bookings,   \* [Bookings -> what the outbox asks of a booking]
  guests,     \* [Bookings -> the account of its guest]
  hands,      \* [Workers -> the claims it is delivering]
  clock,
  told,       \* [Messages -> how often each version of its words arrived]
  faults, waits, acts

vars == <<rows, bookings, guests, hands, clock, told, faults, waits, acts>>

Versions == 0 .. MaxVersion

\* What a message says: the hour it names, and which of the booking's
\* changes (hour or party) it tells of.
Words == [version : Versions, start : Nat]

RowStates == {"absent", "waiting", "sent", "gave_up"}

\* What a crash or a lost record interrupts is tried once more.
Attempts == 0 .. MaxAttempts + MaxFaults

Rows == [state : RowStates, due : Int, attempts : Attempts, words : Words]

Phases == {"claimed", "accepted", "reached", "unreachable", "noted",
           "limited", "failed", "refused"}

\* PendingNotification, with how far its delivery has come and, for the
\* clock's bound only, the moment it was claimed.
Claims == [message : Messages, lease : Nat, attempts : Attempts \ {0}, words : Words,
           phase : Phases, at : Nat]

-----------------------------------------------------------------------------
(***************************************************************************)
(* The bar's side of the queue.                                            *)
(***************************************************************************)

WordsNow(b) == [version |-> b.version, start |-> b.start]

Queued(words, moment) ==
  [state |-> "waiting", due |-> moment, attempts |-> 0, words |-> words]

\* abandon_reminder, for the booking's reminder r.
Abandoned(r) == IF r.state = "waiting" THEN [r EXCEPT !.state = "gave_up"] ELSE r

\* plan_reminder, for the reminder row r of booking b.
Planned(r, b) ==
  LET due == b.start - RemindAhead IN
  IF due <= clock THEN Abandoned(r)
  ELSE IF r.state = "sent" THEN r ELSE Queued(WordsNow(b), due)

\* The queue once booking i has become b, with the reminder as `upon` leaves
\* it and a notice queued in each of the free rows `notices`.
QueueAfter(i, b, upon(_), notices) ==
  [m \in Messages |-> IF m \in notices THEN Queued(WordsNow(b), clock)
                      ELSE IF About[m] = i /\ Kind[m] = "reminder" THEN upon(rows[m])
                      ELSE rows[m]]

Free(i, kind) == {m \in Messages : About[m] = i /\ Kind[m] = kind /\ rows[m].state = "absent"}

Upcoming(b) == b.status = "live" /\ clock < b.start

\* The booking is live and its table still held.
StillHeld(b) == b.status = "live" /\ clock < b.start + Turn

TakeBooking(i, start) ==
  LET b == [bookings[i] EXCEPT !.status = "live", !.start = start] IN
  /\ bookings[i].status = "none"
  /\ clock < start
  /\ bookings' = [bookings EXCEPT ![i] = b]
  /\ rows' = QueueAfter(i, b, LAMBDA r : Planned(r, b), {})
  /\ UNCHANGED <<guests, hands, clock, told, faults, waits>>

\* Another hour, or (at the same hour) another party; the guest is told of a
\* new hour.  Either way the party gets a table.
MoveBooking(i, start) ==
  LET b == [bookings[i] EXCEPT !.start = start, !.version = @ + 1, !.table = TRUE] IN
  /\ StillHeld(bookings[i])
  /\ bookings[i].version < MaxVersion
  /\ start # bookings[i].start => Upcoming(bookings[i]) /\ clock < start
  /\ \E notices \in IF start = bookings[i].start THEN {{}}
                    ELSE {{m} : m \in Free(i, "moved")} :
       rows' = QueueAfter(i, b, LAMBDA r : Planned(r, b), notices)
  /\ bookings' = [bookings EXCEPT ![i] = b]
  /\ UNCHANGED <<guests, hands, clock, told, faults, waits>>

\* By staff who give a reason, or by the guest, who needs no notice.
CancelBooking(i, noticed) ==
  LET b == [bookings[i] EXCEPT !.status = "cancelled"] IN
  /\ StillHeld(bookings[i])
  /\ \E notices \in IF noticed THEN {{m} : m \in Free(i, "cancelled")} ELSE {{}} :
       rows' = QueueAfter(i, b, Abandoned, notices)
  /\ bookings' = [bookings EXCEPT ![i] = b]
  /\ UNCHANGED <<guests, hands, clock, told, faults, waits>>

\* Reseating takes the party's table away or finds it one.
Reseat(i) ==
  /\ StillHeld(bookings[i])
  /\ bookings' = [bookings EXCEPT ![i].table = ~@]
  /\ UNCHANGED <<rows, guests, hands, clock, told, faults, waits>>

SendTemplate(i) ==
  /\ bookings[i].status # "none"
  /\ guests[i].reachable
  /\ \E m \in Free(i, "staff_message") :
       rows' = [rows EXCEPT ![m] = Queued(WordsNow(bookings[i]), clock)]
  /\ UNCHANGED <<bookings, guests, hands, clock, told, faults, waits>>

\* choose_reminders
OptIn(i) ==
  /\ guests' = [guests EXCEPT ![i].opted_in = TRUE]
  /\ UNCHANGED <<rows, bookings, hands, clock, told, faults, waits>>

\* /start, answered by the inbox: proof that the bot reaches the guest.
StartBot(i) ==
  /\ guests' = [guests EXCEPT ![i].reachable = TRUE]
  /\ UNCHANGED <<rows, bookings, hands, clock, told, faults, waits>>

-----------------------------------------------------------------------------
(***************************************************************************)
(* The worker.                                                             *)
(***************************************************************************)

Due(m) == rows[m].state = "waiting" /\ rows[m].due <= clock

\* A mutation: what is never worth sending is only withheld.
AlwaysWorthSending(m) == FALSE

\* Settled by the claim before anything is claimed.
NeverWorthSending(m) ==
  LET b == bookings[About[m]] IN
  \/ Kind[m] # "staff_message" /\ b.start + Turn <= clock
  \/ Kind[m] = "reminder" /\ (b.status = "cancelled" \/ b.start <= clock)

\* Not withheld.
Deliverable(m) ==
  Kind[m] = "reminder" => /\ bookings[About[m]].table
                          /\ guests[About[m]].opted_in
                          /\ guests[About[m]].reachable

InHand(m) == {c \in UNION {hands[w] : w \in Workers} : c.message = m}

\* None of the claims cs carries this moment: moments are microseconds, and
\* two of them written to one row by different workers are never the same.
Distinct(cs, moment) == \A c \in cs : c.lease # moment

\* A mutation: the row stays in the due window while it is delivered.
LeaseAtOnce(now) == now

LeaseEnd(now) == now + Lease

Claimed(m) ==
  [message |-> m, lease |-> LeaseEnd(clock), attempts |-> rows[m].attempts + 1,
   words |-> rows[m].words, phase |-> "claimed", at |-> clock]

Settled == {m \in Messages : Due(m) /\ NeverWorthSending(m)}

Ready == {m \in Messages : Due(m) /\ ~NeverWorthSending(m) /\ Deliverable(m)}

\* claim_due: one statement, which settles and claims.
Claim(w) ==
  /\ hands[w] = {}
  /\ Settled \cup Ready # {}
  /\ \E taken \in SUBSET Ready :
       /\ Cardinality(taken) = IF Cardinality(Ready) < Batch THEN Cardinality(Ready) ELSE Batch
       /\ \A m \in taken, k \in Ready \ taken : rows[m].due <= rows[k].due
       /\ \A m \in taken : Distinct(InHand(m), LeaseEnd(clock))
       /\ rows' = [m \in Messages |->
                     IF m \in Settled THEN [rows[m] EXCEPT !.state = "gave_up"]
                     ELSE IF m \in taken
                          THEN [rows[m] EXCEPT !.attempts = @ + 1, !.due = LeaseEnd(clock)]
                     ELSE rows[m]]
       /\ hands' = [hands EXCEPT ![w] = {Claimed(m) : m \in taken}]
  /\ UNCHANGED <<bookings, guests, clock, told, faults, waits, acts>>

\* The claim c of worker w goes on in another phase, or is let go.
Goes(w, c, phase) ==
  hands' = [hands EXCEPT ![w] = (@ \ {c}) \cup {[c EXCEPT !.phase = phase]}]

LetGo(w, c) == hands' = [hands EXCEPT ![w] = @ \ {c}]

Arrives(c) == told' = [told EXCEPT ![c.message][c.words.version] = @ + 1]

\* The call to Telegram and the answer, which may get lost on its way.
Send(w, c) ==
  /\ c.phase = "claimed"
  /\ \/ Arrives(c) /\ Goes(w, c, "accepted") /\ UNCHANGED <<faults, waits>>
     \/ /\ faults < MaxFaults
        /\ faults' = faults + 1
        /\ Arrives(c) /\ Goes(w, c, "failed") /\ UNCHANGED waits
     \/ /\ \E phase \in {"failed", "refused", "unreachable"} : Goes(w, c, phase)
        /\ UNCHANGED <<told, faults, waits>>
     \/ /\ waits < MaxWaits
        /\ waits' = waits + 1
        /\ Goes(w, c, "limited") /\ UNCHANGED <<told, faults>>
  /\ UNCHANGED <<rows, bookings, guests, clock, acts>>

\* A mutation: the outcome is written to the row whatever became of it.
ClaimOfRow(c) == rows[c.message].state = "waiting"

StillClaimed(c) ==
  LET r == rows[c.message] IN
  r.state = "waiting" /\ r.due = c.lease /\ r.attempts = c.attempts

\* The outcome of c is written only to the row c was claimed from.
Recorded(c, row) ==
  rows' = [rows EXCEPT ![c.message] = IF StillClaimed(c) THEN row ELSE @]

MarkSent(w, c) ==
  /\ c.phase = "accepted"
  /\ Recorded(c, [rows[c.message] EXCEPT !.state = "sent"])
  /\ Goes(w, c, "reached")
  /\ UNCHANGED <<bookings, guests, clock, told, faults, waits, acts>>

NoteReachable(w, c) ==
  /\ c.phase = "reached"
  /\ guests' = [guests EXCEPT ![About[c.message]].reachable = TRUE]
  /\ LetGo(w, c)
  /\ UNCHANGED <<rows, bookings, clock, told, faults, waits, acts>>

NoteUnreachable(w, c) ==
  /\ c.phase = "unreachable"
  /\ guests' = [guests EXCEPT ![About[c.message]].reachable = FALSE]
  /\ Goes(w, c, "noted")
  /\ UNCHANGED <<rows, bookings, clock, told, faults, waits, acts>>

\* A mutation: one attempt too many.
AttemptsUsedUp(c) == c.attempts > MaxAttempts

LastAttempt(c) == c.attempts >= MaxAttempts

GiveUp(w, c) ==
  /\ c.phase \in {"noted", "refused"} \/ (c.phase = "failed" /\ LastAttempt(c))
  /\ Recorded(c, [rows[c.message] EXCEPT !.state = "gave_up"])
  /\ LetGo(w, c)
  /\ UNCHANGED <<bookings, guests, clock, told, faults, waits, acts>>

Defer(w, c) ==
  /\ c.phase = "failed" /\ ~LastAttempt(c)
  /\ Distinct(InHand(c.message) \ {c}, clock + Backoff[c.attempts])
  /\ Recorded(c, [rows[c.message] EXCEPT !.due = clock + Backoff[c.attempts]])
  /\ LetGo(w, c)
  /\ UNCHANGED <<bookings, guests, clock, told, faults, waits, acts>>

\* A wait Telegram asked for does not count as an attempt.
Postpone(w, c) ==
  /\ c.phase = "limited"
  /\ \E wait \in RetryAfter :
       /\ Distinct(InHand(c.message) \ {c}, clock + wait)
       /\ Recorded(c, [rows[c.message] EXCEPT !.due = clock + wait,
                                              !.attempts = IF @ > 0 THEN @ - 1 ELSE 0])
  /\ LetGo(w, c)
  /\ UNCHANGED <<bookings, guests, clock, told, faults, waits, acts>>

\* The delivery panics or its outcome cannot be written: the worker goes on
\* without it.
LoseRecord(w, c) ==
  /\ c.phase # "claimed"
  /\ faults < MaxFaults
  /\ faults' = faults + 1
  /\ LetGo(w, c)
  /\ UNCHANGED <<rows, bookings, guests, clock, told, waits, acts>>

\* The process dies with all it had in hand; another is started.
Crash(w) ==
  /\ hands[w] # {}
  /\ faults < MaxFaults
  /\ faults' = faults + 1
  /\ hands' = [hands EXCEPT ![w] = {}]
  /\ UNCHANGED <<rows, bookings, guests, clock, told, waits, acts>>

\* A delivery takes at most Patience: a batch of twenty, five at a time,
\* twenty seconds each, is over long before its lease of five minutes.  The workers may stand
\* still while the bar acts; afterwards, for the clock's bound, they keep up.
Tick ==
  /\ clock < MaxTime
  /\ clock > LastCall /\ Settled \cup Ready # {} => \A w \in Workers : hands[w] # {}
  /\ \A w \in Workers : \A c \in hands[w] : clock < c.at + Patience
  /\ clock' = clock + 1
  /\ UNCHANGED <<rows, bookings, guests, hands, told, faults, waits, acts>>

-----------------------------------------------------------------------------

NoWords == [version |-> 0, start |-> 0]

Init ==
  /\ rows = [m \in Messages |-> [state |-> "absent", due |-> 0, attempts |-> 0, words |-> NoWords]]
  /\ bookings = [i \in Bookings |-> [status |-> "none", start |-> 0, version |-> 0, table |-> TRUE]]
  /\ guests \in [Bookings -> [opted_in : BOOLEAN, reachable : {TRUE}]]
  /\ hands = [w \in Workers |-> {}]
  /\ clock = 0
  /\ told = [m \in Messages |-> [v \in Versions |-> 0]]
  /\ faults = 0
  /\ waits = 0
  /\ acts = 0

BarActs(i) ==
  /\ clock <= LastCall
  /\ acts < MaxActs
  /\ acts' = acts + 1
  /\ \/ \E start \in Starts : TakeBooking(i, start) \/ MoveBooking(i, start)
     \/ \E noticed \in BOOLEAN : CancelBooking(i, noticed)
     \/ Reseat(i) \/ SendTemplate(i) \/ OptIn(i) \/ StartBot(i)

Delivers(w, c) ==
  \/ Send(w, c) \/ MarkSent(w, c) \/ NoteReachable(w, c) \/ NoteUnreachable(w, c)
  \/ GiveUp(w, c) \/ Defer(w, c) \/ Postpone(w, c)

Deliver(w) == \E c \in hands[w] : Delivers(w, c)

Fails(w) == Crash(w) \/ \E c \in hands[w] : LoseRecord(w, c)

Next ==
  \/ \E i \in Bookings : BarActs(i)
  \/ \E w \in Workers : Claim(w) \/ Deliver(w) \/ Fails(w)
  \/ Tick

Spec == Init /\ [][Next]_vars

\* The worker's loop runs for ever and comes back after a crash; every call
\* has a timeout; time passes.  Nobody at the bar has to do anything.
Fairness ==
  /\ WF_vars(Tick)
  /\ \A w \in Workers : WF_vars(Claim(w)) /\ WF_vars(Deliver(w))

FairSpec == Spec /\ Fairness

-----------------------------------------------------------------------------
BookingType == [status : {"none", "live", "cancelled"}, start : Nat,
                version : Versions, table : BOOLEAN]

TypeOK ==
  /\ rows \in [Messages -> Rows]
  /\ bookings \in [Bookings -> BookingType]
  /\ guests \in [Bookings -> [opted_in : BOOLEAN, reachable : BOOLEAN]]
  /\ hands \in [Workers -> SUBSET Claims]
  /\ clock \in Nat
  /\ told \in [Messages -> [Versions -> Nat]]
  /\ faults \in Nat
  /\ waits \in Nat
  /\ acts \in Nat

(***************************************************************************)
(* A message marked as sent reached the guest with the words it has: the   *)
(* outcome of old words never settles new ones, although the row is        *)
(* rewritten under a delivery (notifications.rs, PendingNotification.lease)*)
(***************************************************************************)
SentMeansDelivered ==
  \A m \in Messages : rows[m].state = "sent" => told[m][rows[m].words.version] > 0

(***************************************************************************)
(* A reminder is not sent before its hour: the failure of an earlier       *)
(* delivery never pulls a rewritten reminder forward (decisions.md, the    *)
(* outcome of a delivery is bound to its claim).                           *)
(***************************************************************************)
NoReminderEarly ==
  \A w \in Workers : \A c \in hands[w] :
     Kind[c.message] = "reminder" => c.words.start - RemindAhead <= c.at

(***************************************************************************)
(* The guest reads the same words twice only if something broke: a worker  *)
(* died, an answer or a record was lost.  Two workers never send one       *)
(* message because one of them is slow (CLAIM_LEASE).                      *)
(***************************************************************************)
TwiceOnlyAfterFault ==
  \A m \in Messages, v \in Versions : told[m][v] <= 1 + faults

(***************************************************************************)
(* The queue drains: every message is at last sent or given up, a reminder *)
(* nobody asked for included, as long as Telegram does not ask to wait for *)
(* ever (decisions.md: reminders of guests who never asked used to pile up)*)
(***************************************************************************)
QueueDrains ==
  \A m \in Messages : rows[m].state = "waiting" ~> rows[m].state \in {"sent", "gave_up"}

(***************************************************************************)
(* What a comment promises and the code does not keep (see the README).    *)
(***************************************************************************)

\* bookings.rs, cancel_booking: the worker refuses to send a reminder for a
\* booking that no longer holds a table, which guarantees that the guest is
\* not reminded about a cancelled evening.
NotRemindedOfCancelled ==
  [][\A m \in Messages : Kind[m] = "reminder" /\ told'[m] # told[m]
                         => bookings[About[m]].status = "live"]_vars
=============================================================================
