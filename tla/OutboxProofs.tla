---------------------------- MODULE OutboxProofs ----------------------------
(***************************************************************************)
(* What is proved of the outbox, for every number of workers, messages and *)
(* bookings, every bound and every lease: the outcome of a delivery is     *)
(* only ever recorded on the words that were delivered, no reminder goes   *)
(* out before its hour, and nothing arrives or is tried more often than    *)
(* faults explain.                                                         *)
(***************************************************************************)
EXTENDS Outbox, TLAPS

(***************************************************************************)
(* The inductive invariant.  SentMeansDelivered alone is not inductive: the*)
(* step that marks a row as sent looks at lease and attempts only, so it   *)
(* has to be known that these tell the words apart, and that a delivery    *)
(* Telegram accepted did arrive.                                           *)
(***************************************************************************)
RowType == [state : RowStates, due : Int, attempts : Nat, words : Words]

ClaimType == [message : Messages, lease : Int, attempts : Nat \ {0}, words : Words,
              phase : Phases, at : Nat]

Typed ==
  /\ rows \in [Messages -> RowType]
  /\ bookings \in [Bookings -> BookingType]
  /\ hands \in [Workers -> SUBSET ClaimType]
  /\ clock \in Nat
  /\ told \in [Messages -> [Versions -> Nat]]

\* A claim that still matches its row has the words of the row.
ClaimsHaveTheWords ==
  \A w \in Workers : \A c \in hands[w] : StillClaimed(c) => rows[c.message].words = c.words

\* What Telegram accepted has arrived.
AcceptedArrived ==
  \A w \in Workers : \A c \in hands[w] :
     c.phase = "accepted" => told[c.message][c.words.version] > 0

Inv == Typed /\ ClaimsHaveTheWords /\ AcceptedArrived /\ SentMeansDelivered

LEMMA InitHolds == Init => Inv
<1> SUFFICES ASSUME Init PROVE Inv
  OBVIOUS
<1>1. NoWords \in Words
  BY OutboxAssumption DEF NoWords, Words, Versions
<1>2. rows \in [Messages -> RowType]
  <2>1. [state |-> "absent", due |-> 0, attempts |-> 0, words |-> NoWords] \in RowType
    BY <1>1 DEF RowType, RowStates
  <2> QED
    BY <2>1 DEF Init
<1>3. bookings \in [Bookings -> BookingType] /\ told \in [Messages -> [Versions -> Nat]]
  BY OutboxAssumption DEF Init, BookingType, Versions
<1>4. Typed
  BY <1>2, <1>3 DEF Init, Typed
<1> QED
  BY <1>4 DEF Inv, Init, ClaimsHaveTheWords, AcceptedArrived, SentMeansDelivered

-----------------------------------------------------------------------------
(***************************************************************************)
(* The bar's side.                                                         *)
(***************************************************************************)

\* What a transaction of the bar may make of a row: leave it, settle it, or
\* open it afresh, with no attempt made.
Refreshed(old, new) ==
  \/ new = old
  \/ new.state = "gave_up"
  \/ new.state = "waiting" /\ new.attempts = 0

\* A row the bar has opened afresh matches no claim: claims have attempts.
LEMMA RefreshingKeeps ==
  ASSUME Inv,
         rows' \in [Messages -> RowType],
         \A m \in Messages : Refreshed(rows[m], rows'[m]),
         bookings' \in [Bookings -> BookingType],
         UNCHANGED <<hands, clock, told>>
  PROVE  Inv'
<1>1. Typed'
  BY DEF Inv, Typed
<1>2. ClaimsHaveTheWords'
  <2> SUFFICES ASSUME NEW w \in Workers, NEW c \in hands[w], StillClaimed(c)'
               PROVE  (rows')[c.message].words = c.words
    BY DEF ClaimsHaveTheWords
  <2>1. c \in ClaimType
    BY DEF Inv, Typed
  <2>2. c.message \in Messages /\ c.attempts # 0
    BY <2>1 DEF ClaimType
  <2>3. rows'[c.message] = rows[c.message]
    BY <2>2 DEF StillClaimed, Refreshed
  <2> QED
    BY <2>3 DEF Inv, ClaimsHaveTheWords, StillClaimed
<1>3. AcceptedArrived'
  BY DEF Inv, AcceptedArrived
<1>4. SentMeansDelivered'
  BY DEF Inv, SentMeansDelivered, Refreshed
<1> QED
  BY <1>1, <1>2, <1>3, <1>4 DEF Inv

LEMMA OpenedAfresh ==
  ASSUME NEW words \in Words, NEW moment \in Int
  PROVE  /\ Queued(words, moment) \in RowType
         /\ Queued(words, moment).state = "waiting"
         /\ Queued(words, moment).attempts = 0
BY DEF Queued, RowType, RowStates

LEMMA WordsOfBooking ==
  ASSUME NEW b \in BookingType
  PROVE  WordsNow(b) \in Words /\ b.start \in Nat
BY DEF WordsNow, BookingType, Words

LEMMA AbandonedRow ==
  ASSUME NEW r \in RowType
  PROVE  Abandoned(r) \in RowType /\ Refreshed(r, Abandoned(r))
BY DEF Abandoned, RowType, RowStates, Refreshed

LEMMA PlannedRow ==
  ASSUME NEW r \in RowType, NEW b \in BookingType, clock \in Nat
  PROVE  Planned(r, b) \in RowType /\ Refreshed(r, Planned(r, b))
<1>1. b.start - RemindAhead \in Int /\ WordsNow(b) \in Words
  BY WordsOfBooking, OutboxAssumption
<1> QED
  BY <1>1, OpenedAfresh, AbandonedRow DEF Planned, Refreshed

LEMMA PlanningKeeps ==
  ASSUME Inv, NEW i \in Bookings, NEW b \in BookingType, NEW notices,
         rows' = QueueAfter(i, b, LAMBDA r : Planned(r, b), notices),
         bookings' = [bookings EXCEPT ![i] = b],
         UNCHANGED <<hands, clock, told>>
  PROVE  Inv'
<1>1. \A m \in Messages : rows[m] \in RowType
  BY DEF Inv, Typed
<1>2. WordsNow(b) \in Words /\ clock \in Nat
  BY WordsOfBooking DEF Inv, Typed
<1>3. \A m \in Messages : rows'[m] \in RowType /\ Refreshed(rows[m], rows'[m])
  <2> SUFFICES ASSUME NEW m \in Messages
               PROVE  rows'[m] \in RowType /\ Refreshed(rows[m], rows'[m])
    OBVIOUS
  <2>1. \/ rows'[m] = Queued(WordsNow(b), clock)
        \/ rows'[m] = Planned(rows[m], b)
        \/ rows'[m] = rows[m]
    BY DEF QueueAfter
  <2> QED
    BY <2>1, <1>1, <1>2, OpenedAfresh, PlannedRow DEF Refreshed
<1>4. rows' \in [Messages -> RowType]
  <2>1. rows' = [m \in Messages |-> rows'[m]]
    BY DEF QueueAfter
  <2> QED
    BY <2>1, <1>3
<1>5. bookings' \in [Bookings -> BookingType]
  BY DEF Inv, Typed
<1> QED
  BY <1>3, <1>4, <1>5, RefreshingKeeps

LEMMA TakeBookingKeeps ==
  ASSUME Inv, NEW i \in Bookings, NEW start \in Starts, TakeBooking(i, start)
  PROVE  Inv'
<1> DEFINE b == [bookings[i] EXCEPT !.status = "live", !.start = start]
<1>1. b \in BookingType
  BY OutboxAssumption DEF Inv, Typed, BookingType
<1> QED
  BY <1>1, PlanningKeeps DEF TakeBooking

LEMMA MoveBookingKeeps ==
  ASSUME Inv, NEW i \in Bookings, NEW start \in Starts, MoveBooking(i, start)
  PROVE  Inv'
<1> DEFINE b == [bookings[i] EXCEPT !.start = start, !.version = @ + 1, !.table = TRUE]
<1>1. b \in BookingType
  <2>1. bookings[i] \in BookingType /\ bookings[i].version < MaxVersion
    BY DEF Inv, Typed, MoveBooking
  <2>2. bookings[i].version + 1 \in Versions /\ start \in Nat
    BY <2>1, OutboxAssumption DEF BookingType, Versions
  <2> QED
    BY <2>1, <2>2 DEF BookingType
<1>2. PICK notices : rows' = QueueAfter(i, b, LAMBDA r : Planned(r, b), notices)
  BY DEF MoveBooking
<1> QED
  BY <1>1, <1>2, PlanningKeeps DEF MoveBooking

LEMMA CancelBookingKeeps ==
  ASSUME Inv, NEW i \in Bookings, NEW noticed, CancelBooking(i, noticed)
  PROVE  Inv'
<1> DEFINE b == [bookings[i] EXCEPT !.status = "cancelled"]
<1>1. b \in BookingType
  BY DEF Inv, Typed, BookingType
<1>2. PICK notices : rows' = QueueAfter(i, b, Abandoned, notices)
  BY DEF CancelBooking
<1>3. \A m \in Messages : rows[m] \in RowType
  BY DEF Inv, Typed
<1>4. WordsNow(b) \in Words /\ clock \in Nat
  BY <1>1, WordsOfBooking DEF Inv, Typed
<1>5. \A m \in Messages : rows'[m] \in RowType /\ Refreshed(rows[m], rows'[m])
  <2> SUFFICES ASSUME NEW m \in Messages
               PROVE  rows'[m] \in RowType /\ Refreshed(rows[m], rows'[m])
    OBVIOUS
  <2>1. \/ rows'[m] = Queued(WordsNow(b), clock)
        \/ rows'[m] = Abandoned(rows[m])
        \/ rows'[m] = rows[m]
    BY <1>2 DEF QueueAfter
  <2> QED
    BY <2>1, <1>3, <1>4, OpenedAfresh, AbandonedRow DEF Refreshed
<1>6. rows' \in [Messages -> RowType]
  <2>1. rows' = [m \in Messages |-> rows'[m]]
    BY <1>2 DEF QueueAfter
  <2> QED
    BY <2>1, <1>5
<1>7. bookings' \in [Bookings -> BookingType]
  BY <1>1 DEF Inv, Typed, CancelBooking
<1> QED
  BY <1>5, <1>6, <1>7, RefreshingKeeps DEF CancelBooking

LEMMA SendTemplateKeeps ==
  ASSUME Inv, NEW i \in Bookings, SendTemplate(i)
  PROVE  Inv'
<1>1. PICK k \in Messages :
         rows' = [rows EXCEPT ![k] = Queued(WordsNow(bookings[i]), clock)]
  BY DEF SendTemplate, Free
<1>2. bookings[i] \in BookingType /\ clock \in Nat /\ rows \in [Messages -> RowType]
  BY DEF Inv, Typed
<1>3. WordsNow(bookings[i]) \in Words
  BY <1>2, WordsOfBooking
<1>4. rows' \in [Messages -> RowType] /\ \A m \in Messages : Refreshed(rows[m], rows'[m])
  BY <1>1, <1>2, <1>3, OpenedAfresh DEF Refreshed
<1> QED
  BY <1>4, RefreshingKeeps DEF Inv, Typed, SendTemplate

\* Steps that touch neither rows nor claims nor what arrived.
LEMMA ElsewhereKeeps ==
  ASSUME Inv, UNCHANGED <<rows, hands, told>>,
         bookings' \in [Bookings -> BookingType], clock' \in Nat
  PROVE  Inv'
BY DEF Inv, Typed, ClaimsHaveTheWords, StillClaimed, AcceptedArrived, SentMeansDelivered

LEMMA BarActsKeeps ==
  ASSUME Inv, NEW i \in Bookings, BarActs(i)
  PROVE  Inv'
<1>1. CASE \E start \in Starts : TakeBooking(i, start) \/ MoveBooking(i, start)
  BY <1>1, TakeBookingKeeps, MoveBookingKeeps
<1>2. CASE \E noticed \in BOOLEAN : CancelBooking(i, noticed)
  BY <1>2, CancelBookingKeeps
<1>3. CASE Reseat(i)
  <2>1. bookings' \in [Bookings -> BookingType]
    BY <1>3 DEF Reseat, Inv, Typed, BookingType
  <2> QED
    BY <2>1, <1>3, ElsewhereKeeps DEF Reseat, Inv, Typed
<1>4. CASE SendTemplate(i)
  BY <1>4, SendTemplateKeeps
<1>5. CASE OptIn(i) \/ StartBot(i)
  BY <1>5, ElsewhereKeeps DEF OptIn, StartBot, Inv, Typed
<1> QED
  BY <1>1, <1>2, <1>3, <1>4, <1>5 DEF BarActs

-----------------------------------------------------------------------------
(***************************************************************************)
(* The worker.                                                             *)
(***************************************************************************)

LEMMA GoingMoves ==
  ASSUME Inv, NEW w \in Workers, NEW c \in hands[w], NEW phase \in Phases, Goes(w, c, phase)
  PROVE  /\ hands' \in [Workers -> SUBSET ClaimType]
         /\ \A v \in Workers : \A d \in hands'[v] :
               d \in hands[v] \/ d = [c EXCEPT !.phase = phase]
<1>1. c \in ClaimType /\ hands \in [Workers -> SUBSET ClaimType]
  BY DEF Inv, Typed
<1>2. [c EXCEPT !.phase = phase] \in ClaimType
  BY <1>1 DEF ClaimType
<1> QED
  BY <1>1, <1>2 DEF Goes

LEMMA LettingGoMoves ==
  ASSUME Inv, NEW w \in Workers, NEW c, LetGo(w, c)
  PROVE  /\ hands' \in [Workers -> SUBSET ClaimType]
         /\ \A v \in Workers : hands'[v] \subseteq hands[v]
         /\ c \notin hands'[w]
<1>1. hands \in [Workers -> SUBSET ClaimType]
  BY DEF Inv, Typed
<1> QED
  BY <1>1 DEF LetGo

\* Letting claims go breaks nothing.
LEMMA FewerClaimsKeep ==
  ASSUME Inv, UNCHANGED <<rows, bookings, clock, told>>,
         hands' \in [Workers -> SUBSET ClaimType],
         \A v \in Workers : hands'[v] \subseteq hands[v]
  PROVE  Inv'
BY DEF Inv, Typed, ClaimsHaveTheWords, StillClaimed, AcceptedArrived, SentMeansDelivered

LEMMA ClaimKeeps ==
  ASSUME Inv, NEW w \in Workers, Claim(w)
  PROVE  Inv'
<1>1. PICK taken \in SUBSET Ready :
        /\ \A m \in taken : Distinct(InHand(m), LeaseEnd(clock))
        /\ rows' = [m \in Messages |->
                      IF m \in Settled THEN [rows[m] EXCEPT !.state = "gave_up"]
                      ELSE IF m \in taken
                           THEN [rows[m] EXCEPT !.attempts = @ + 1, !.due = LeaseEnd(clock)]
                      ELSE rows[m]]
        /\ hands' = [hands EXCEPT ![w] = {Claimed(m) : m \in taken}]
  BY DEF Claim
<1>2. UNCHANGED <<bookings, clock, told>>
  BY DEF Claim
<1>3. /\ rows \in [Messages -> RowType] /\ hands \in [Workers -> SUBSET ClaimType]
      /\ clock \in Nat /\ LeaseEnd(clock) \in Int
  BY OutboxAssumption DEF Inv, Typed, LeaseEnd
<1>4. /\ taken \subseteq Messages
      /\ \A m \in taken : m \notin Settled /\ rows[m].state = "waiting"
  BY <1>1 DEF Ready, Settled, Due
<1>5. \A m \in Messages : rows'[m] \in RowType /\ rows'[m].words = rows[m].words
  <2> SUFFICES ASSUME NEW m \in Messages
               PROVE  rows'[m] \in RowType /\ rows'[m].words = rows[m].words
    OBVIOUS
  <2>1. rows[m] \in RowType
    BY <1>3
  <2>2. CASE m \in Settled
    BY <2>1, <2>2, <1>1 DEF RowType, RowStates
  <2>3. CASE m \notin Settled /\ m \in taken
    <3>1. rows'[m] = [rows[m] EXCEPT !.attempts = @ + 1, !.due = LeaseEnd(clock)]
      BY <2>3, <1>1
    <3>2. rows[m].attempts + 1 \in Nat /\ LeaseEnd(clock) \in Int
      BY <2>1, <1>3 DEF RowType
    <3> QED
      BY <3>1, <3>2, <2>1 DEF RowType
  <2>4. CASE m \notin Settled /\ m \notin taken
    BY <2>1, <2>4, <1>1
  <2> QED
    BY <2>2, <2>3, <2>4
<1>6. rows' \in [Messages -> RowType]
  BY <1>1, <1>5
<1>7. \A m \in taken : Claimed(m) \in ClaimType
  BY <1>3, <1>4 DEF Claimed, ClaimType, RowType, Phases
<1>8. hands' \in [Workers -> SUBSET ClaimType]
  BY <1>1, <1>3, <1>7
<1>9. \A v \in Workers : \A d \in hands'[v] :
        d \in hands[v] \/ \E m \in taken : d = Claimed(m)
  BY <1>1, <1>3
<1>10. Typed'
  BY <1>2, <1>6, <1>8 DEF Inv, Typed
<1>11. ClaimsHaveTheWords'
  <2> SUFFICES ASSUME NEW v \in Workers, NEW d \in hands'[v], StillClaimed(d)'
               PROVE  (rows')[d.message].words = d.words
    BY DEF ClaimsHaveTheWords
  <2>1. CASE \E m \in taken : d = Claimed(m)
    BY <2>1, <1>4, <1>5 DEF Claimed
  <2>2. CASE d \in hands[v]
    <3>1. d \in ClaimType /\ d.message \in Messages
      BY <2>2, <1>3 DEF ClaimType
    <3>2. d.message \notin taken
      <4> SUFFICES ASSUME d.message \in taken PROVE FALSE
        OBVIOUS
      <4>1. d \in InHand(d.message)
        BY <2>2 DEF InHand
      <4>2. d.lease # LeaseEnd(clock)
        BY <4>1, <1>1 DEF Distinct
      <4>3. rows'[d.message].due = LeaseEnd(clock)
        BY <3>1, <1>1, <1>3, <1>4 DEF RowType
      <4> QED
        BY <4>2, <4>3 DEF StillClaimed
    <3>3. d.message \notin Settled
      BY <3>1, <1>1, <1>3 DEF StillClaimed, RowType
    <3>4. rows'[d.message] = rows[d.message]
      BY <3>1, <3>2, <3>3, <1>1
    <3>5. StillClaimed(d)
      BY <3>4 DEF StillClaimed
    <3> QED
      BY <3>4, <3>5, <2>2 DEF Inv, ClaimsHaveTheWords
  <2> QED
    BY <2>1, <2>2, <1>9
<1>12. AcceptedArrived'
  BY <1>2, <1>9 DEF Inv, AcceptedArrived, Claimed
<1>13. SentMeansDelivered'
  <2>1. \A m \in Messages : rows'[m].state = "sent" => rows[m].state = "sent"
    BY <1>1, <1>3, <1>4 DEF RowType
  <2> QED
    BY <2>1, <1>2, <1>5 DEF Inv, SentMeansDelivered
<1> QED
  BY <1>10, <1>11, <1>12, <1>13 DEF Inv

\* What arrives was not there before, and nothing that arrived goes away.
LEMMA ArrivalsAdd ==
  ASSUME Inv, NEW c \in ClaimType, Arrives(c)
  PROVE  /\ told' \in [Messages -> [Versions -> Nat]]
         /\ told'[c.message][c.words.version] > 0
         /\ \A m \in Messages, v \in Versions : told[m][v] > 0 => told'[m][v] > 0
<1>1. c.message \in Messages /\ c.words.version \in Versions
  BY DEF ClaimType, Words
<1>2. told \in [Messages -> [Versions -> Nat]]
  BY DEF Inv, Typed
<1> QED
  BY <1>1, <1>2 DEF Arrives

\* A call that leaves the rows alone: c goes on, as accepted only if it arrived.
LEMMA CallKeeps ==
  ASSUME Inv, NEW w \in Workers, NEW c \in hands[w], NEW phase \in Phases,
         Goes(w, c, phase),
         Arrives(c) \/ (told' = told /\ phase # "accepted"),
         UNCHANGED <<rows, bookings, clock>>
  PROVE  Inv'
<1>1. c \in ClaimType /\ \A v \in Workers : \A d \in hands[v] : d \in ClaimType
  BY DEF Inv, Typed
<1>2. /\ told' \in [Messages -> [Versions -> Nat]]
      /\ phase = "accepted" => told'[c.message][c.words.version] > 0
      /\ \A m \in Messages, v \in Versions : told[m][v] > 0 => told'[m][v] > 0
  BY <1>1, ArrivalsAdd DEF Inv, Typed
<1>3. /\ hands' \in [Workers -> SUBSET ClaimType]
      /\ \A v \in Workers : \A d \in hands'[v] :
            d \in hands[v] \/ d = [c EXCEPT !.phase = phase]
  BY GoingMoves
<1>4. LET e == [c EXCEPT !.phase = phase] IN
      /\ e.message = c.message /\ e.words = c.words /\ e.phase = phase
      /\ e.lease = c.lease /\ e.attempts = c.attempts
  BY <1>1 DEF ClaimType
<1>5. Typed'
  BY <1>2, <1>3 DEF Inv, Typed
<1>6. ClaimsHaveTheWords'
  <2> SUFFICES ASSUME NEW v \in Workers, NEW d \in hands'[v], StillClaimed(d)
               PROVE  rows[d.message].words = d.words
    BY DEF ClaimsHaveTheWords, StillClaimed
  <2>1. CASE d \in hands[v]
    BY <2>1 DEF Inv, ClaimsHaveTheWords
  <2>2. CASE d = [c EXCEPT !.phase = phase]
    <3>1. StillClaimed(c)
      BY <2>2, <1>4 DEF StillClaimed
    <3>2. rows[c.message].words = c.words
      BY <3>1 DEF Inv, ClaimsHaveTheWords
    <3> QED
      BY <3>2, <2>2, <1>4
  <2> QED
    BY <2>1, <2>2, <1>3
<1>7. AcceptedArrived'
  <2> SUFFICES ASSUME NEW v \in Workers, NEW d \in hands'[v], d.phase = "accepted"
               PROVE  (told')[d.message][d.words.version] > 0
    BY DEF AcceptedArrived
  <2>1. CASE d \in hands[v]
    <3>1. d.message \in Messages /\ d.words.version \in Versions
      BY <2>1, <1>1 DEF ClaimType, Words
    <3> QED
      BY <3>1, <2>1, <1>2 DEF Inv, AcceptedArrived
  <2>2. CASE d = [c EXCEPT !.phase = phase]
    BY <2>2, <1>2, <1>4
  <2> QED
    BY <2>1, <2>2, <1>3
<1>8. SentMeansDelivered'
  <2>1. \A m \in Messages : rows[m].words.version \in Versions
    BY DEF Inv, Typed, RowType, Words
  <2> QED
    BY <2>1, <1>2 DEF Inv, SentMeansDelivered
<1> QED
  BY <1>5, <1>6, <1>7, <1>8 DEF Inv

LEMMA SendKeeps ==
  ASSUME Inv, NEW w \in Workers, NEW c \in hands[w], Send(w, c)
  PROVE  Inv'
<1>1. CASE Arrives(c) /\ (Goes(w, c, "accepted") \/ Goes(w, c, "failed"))
  BY <1>1, CallKeeps DEF Send, Phases
<1>2. CASE /\ told' = told
           /\ \E phase \in {"failed", "refused", "unreachable", "limited"} : Goes(w, c, phase)
  <2>1. PICK phase \in {"failed", "refused", "unreachable", "limited"} : Goes(w, c, phase)
    BY <1>2
  <2>2. phase \in Phases /\ phase # "accepted"
    BY DEF Phases
  <2> QED
    BY <2>1, <2>2, <1>2, CallKeeps DEF Send
<1> QED
  BY <1>1, <1>2 DEF Send

(***************************************************************************)
(* Recording an outcome.  A row that is opened again gets a moment that no *)
(* other claim of it carries, so what matched it before matches it no more;*)
(* a row that is settled matches nothing; and it is marked as sent only    *)
(* from a claim that was accepted, whose words are the row's.              *)
(***************************************************************************)
LEMMA RecordingKeeps ==
  ASSUME Inv, NEW w \in Workers, NEW c \in hands[w], NEW row \in RowType,
         Recorded(c, row),
         row.words = rows[c.message].words,
         row.state = "sent" => c.phase = "accepted",
         row.state = "waiting" => Distinct(InHand(c.message) \ {c}, row.due),
         hands' \in [Workers -> SUBSET ClaimType],
         \A v \in Workers : \A d \in hands'[v] :
            d \in hands[v] \/ (row.state = "sent" /\ d = [c EXCEPT !.phase = "reached"]),
         UNCHANGED <<bookings, clock, told>>
  PROVE  Inv'
<1>1. /\ c \in ClaimType /\ c.message \in Messages
      /\ rows \in [Messages -> RowType]
      /\ \A v \in Workers : \A d \in hands[v] : d \in ClaimType /\ d.message \in Messages
  BY DEF Inv, Typed, ClaimType
<1>2. /\ rows' \in [Messages -> RowType]
      /\ \A m \in Messages : rows'[m].words = rows[m].words
      /\ ~StillClaimed(c) => rows' = rows
      /\ StillClaimed(c) => rows'[c.message] = row
      /\ \A m \in Messages : m # c.message => rows'[m] = rows[m]
  BY <1>1 DEF Recorded
<1>3. Typed'
  BY <1>2 DEF Inv, Typed
<1>4. ClaimsHaveTheWords'
  <2> SUFFICES ASSUME NEW v \in Workers, NEW d \in hands'[v], StillClaimed(d)'
               PROVE  (rows')[d.message].words = d.words
    BY DEF ClaimsHaveTheWords
  <2>1. CASE rows'[d.message] = rows[d.message] /\ d \in hands[v]
    BY <2>1 DEF Inv, ClaimsHaveTheWords, StillClaimed
  <2>2. CASE rows'[d.message] # rows[d.message] /\ d \in hands[v]
    <3>1. d.message = c.message /\ StillClaimed(c) /\ rows'[c.message] = row
      BY <2>2, <1>1, <1>2
    <3>2. rows[c.message].words = c.words
      BY <3>1 DEF Inv, ClaimsHaveTheWords
    <3>3. row.state = "waiting" /\ row.due = d.lease
      BY <3>1 DEF StillClaimed
    <3>4. d \in InHand(c.message)
      BY <2>2, <3>1 DEF InHand
    <3>5. d = c
      BY <3>3, <3>4 DEF Distinct
    <3> QED
      BY <3>1, <3>2, <3>5
  <2>3. CASE row.state = "sent" /\ d = [c EXCEPT !.phase = "reached"]
    <3>1. /\ d.message = c.message /\ d.words = c.words
          /\ d.lease = c.lease /\ d.attempts = c.attempts
      BY <2>3, <1>1 DEF ClaimType
    <3>2. ~StillClaimed(c)
      BY <3>1, <2>3, <1>2 DEF StillClaimed
    <3>3. StillClaimed(c)
      BY <3>1, <3>2, <1>2 DEF StillClaimed
    <3> QED
      BY <3>2, <3>3
  <2> QED
    BY <2>1, <2>2, <2>3
<1>5. AcceptedArrived'
  <2>1. [c EXCEPT !.phase = "reached"].phase # "accepted"
    BY <1>1 DEF ClaimType
  <2> QED
    BY <2>1 DEF Inv, AcceptedArrived
<1>6. SentMeansDelivered'
  <2> SUFFICES ASSUME NEW m \in Messages, rows'[m].state = "sent"
               PROVE  told[m][rows[m].words.version] > 0
    BY <1>2 DEF SentMeansDelivered
  <2>1. CASE rows'[m] = rows[m]
    BY <2>1 DEF Inv, SentMeansDelivered
  <2>2. CASE rows'[m] # rows[m]
    <3>1. m = c.message /\ StillClaimed(c) /\ c.phase = "accepted"
      BY <2>2, <1>1, <1>2
    <3>2. rows[c.message].words = c.words
      BY <3>1 DEF Inv, ClaimsHaveTheWords
    <3> QED
      BY <3>1, <3>2 DEF Inv, AcceptedArrived
  <2> QED
    BY <2>1, <2>2
<1> QED
  BY <1>3, <1>4, <1>5, <1>6 DEF Inv

LEMMA MarkSentKeeps ==
  ASSUME Inv, NEW w \in Workers, NEW c \in hands[w], MarkSent(w, c)
  PROVE  Inv'
<1> DEFINE row == [rows[c.message] EXCEPT !.state = "sent"]
<1>1. rows[c.message] \in RowType
  BY DEF Inv, Typed, ClaimType
<1>2. row \in RowType /\ row.words = rows[c.message].words /\ row.state = "sent"
  BY <1>1 DEF RowType, RowStates
<1>3. "reached" \in Phases
  BY DEF Phases
<1>4. /\ Recorded(c, row) /\ Goes(w, c, "reached") /\ c.phase = "accepted"
      /\ UNCHANGED <<bookings, clock, told>>
  BY DEF MarkSent
<1>5. /\ hands' \in [Workers -> SUBSET ClaimType]
      /\ \A v \in Workers : \A d \in hands'[v] :
            d \in hands[v] \/ d = [c EXCEPT !.phase = "reached"]
  BY <1>3, <1>4, GoingMoves
<1> HIDE DEF row
<1> QED
  BY <1>2, <1>4, <1>5, RecordingKeeps

LEMMA GiveUpKeeps ==
  ASSUME Inv, NEW w \in Workers, NEW c \in hands[w], GiveUp(w, c)
  PROVE  Inv'
<1> DEFINE row == [rows[c.message] EXCEPT !.state = "gave_up"]
<1>1. rows[c.message] \in RowType
  BY DEF Inv, Typed, ClaimType
<1>2. row \in RowType /\ row.words = rows[c.message].words /\ row.state = "gave_up"
  BY <1>1 DEF RowType, RowStates
<1> QED
  BY <1>2, LettingGoMoves, RecordingKeeps DEF GiveUp

LEMMA DeferKeeps ==
  ASSUME Inv, NEW w \in Workers, NEW c \in hands[w], Defer(w, c)
  PROVE  Inv'
<1> DEFINE moment == clock + Backoff[c.attempts]
           row    == [rows[c.message] EXCEPT !.due = moment]
<1>1. rows[c.message] \in RowType /\ c \in ClaimType /\ clock \in Nat
  BY DEF Inv, Typed, ClaimType
<1>2. moment \in Int
  <2>1. c.attempts \in 1 .. MaxAttempts
    BY <1>1, OutboxAssumption DEF Defer, LastAttempt, ClaimType
  <2> QED
    BY <2>1, <1>1, OutboxAssumption
<1>3. row \in RowType /\ row.words = rows[c.message].words /\ row.due = moment
  BY <1>1, <1>2 DEF RowType
<1>4. CASE StillClaimed(c)
  <2>1. row.state # "sent"
    BY <1>1, <1>4 DEF StillClaimed, RowType
  <2> HIDE DEF row, moment
  <2>2. Recorded(c, row) /\ Distinct(InHand(c.message) \ {c}, row.due) /\ LetGo(w, c)
        /\ UNCHANGED <<bookings, clock, told>>
    BY <1>3 DEF Defer, row, moment
  <2> QED
    BY <1>3, <2>1, <2>2, LettingGoMoves, RecordingKeeps
<1>5. CASE ~StillClaimed(c)
  <2>1. rows' = rows
    BY <1>1, <1>5 DEF Defer, Recorded, Inv, Typed
  <2> QED
    BY <2>1, LettingGoMoves, FewerClaimsKeep DEF Defer
<1> QED
  BY <1>4, <1>5

LEMMA PostponeKeeps ==
  ASSUME Inv, NEW w \in Workers, NEW c \in hands[w], Postpone(w, c)
  PROVE  Inv'
<1>1. PICK wait \in RetryAfter :
        /\ Distinct(InHand(c.message) \ {c}, clock + wait)
        /\ Recorded(c, [rows[c.message] EXCEPT !.due = clock + wait,
                                               !.attempts = IF @ > 0 THEN @ - 1 ELSE 0])
  BY DEF Postpone
<1> DEFINE row == [rows[c.message] EXCEPT !.due = clock + wait,
                                          !.attempts = IF @ > 0 THEN @ - 1 ELSE 0]
<1>2. rows[c.message] \in RowType /\ c \in ClaimType /\ clock + wait \in Int
  BY OutboxAssumption DEF Inv, Typed, ClaimType
<1>3. /\ row \in RowType /\ row.words = rows[c.message].words /\ row.due = clock + wait
      /\ row.state = rows[c.message].state
  <2> DEFINE n == IF rows[c.message].attempts > 0 THEN rows[c.message].attempts - 1 ELSE 0
  <2>1. n \in Nat
    BY <1>2 DEF RowType
  <2>2. row = [rows[c.message] EXCEPT !.due = clock + wait, !.attempts = n]
    OBVIOUS
  <2> HIDE DEF n, row
  <2> QED
    BY <2>1, <2>2, <1>2 DEF RowType
<1>4. CASE StillClaimed(c)
  <2>1. row.state # "sent"
    BY <1>3, <1>4 DEF StillClaimed
  <2>2. Recorded(c, row) /\ Distinct(InHand(c.message) \ {c}, row.due)
    BY <1>1, <1>3
  <2>3. LetGo(w, c) /\ UNCHANGED <<bookings, clock, told>>
    BY DEF Postpone
  <2> HIDE DEF row
  <2> QED
    BY <1>3, <2>1, <2>2, <2>3, LettingGoMoves, RecordingKeeps
<1>5. CASE ~StillClaimed(c)
  <2>1. rows' = rows
    BY <1>1, <1>2, <1>5 DEF Recorded, Inv, Typed
  <2> QED
    BY <2>1, LettingGoMoves, FewerClaimsKeep DEF Postpone
<1> QED
  BY <1>4, <1>5

LEMMA NotesKeep ==
  ASSUME Inv, NEW w \in Workers, NEW c \in hands[w],
         NoteReachable(w, c) \/ NoteUnreachable(w, c)
  PROVE  Inv'
<1>1. CASE NoteReachable(w, c)
  BY <1>1, LettingGoMoves, FewerClaimsKeep DEF NoteReachable
<1>2. CASE NoteUnreachable(w, c)
  <2>1. "noted" \in Phases /\ "noted" # "accepted"
    BY DEF Phases
  <2> QED
    BY <2>1, <1>2, CallKeeps DEF NoteUnreachable
<1> QED
  BY <1>1, <1>2

LEMMA FailsKeeps ==
  ASSUME Inv, NEW w \in Workers, Fails(w)
  PROVE  Inv'
<1>1. CASE Crash(w)
  <2>1. hands' = [hands EXCEPT ![w] = {}] /\ UNCHANGED <<rows, bookings, clock, told>>
    BY <1>1 DEF Crash
  <2>2. hands' \in [Workers -> SUBSET ClaimType] /\ \A v \in Workers : hands'[v] \subseteq hands[v]
    BY <2>1 DEF Inv, Typed
  <2> QED
    BY <2>1, <2>2, FewerClaimsKeep
<1>2. CASE \E c \in hands[w] : LoseRecord(w, c)
  BY <1>2, LettingGoMoves, FewerClaimsKeep DEF LoseRecord
<1> QED
  BY <1>1, <1>2 DEF Fails

-----------------------------------------------------------------------------
LEMMA StepKeeps == Inv /\ [Next]_vars => Inv'
<1> SUFFICES ASSUME Inv, [Next]_vars PROVE Inv'
  OBVIOUS
<1>1. CASE \E i \in Bookings : BarActs(i)
  BY <1>1, BarActsKeeps
<1>2. CASE \E w \in Workers : Claim(w)
  BY <1>2, ClaimKeeps
<1>3. CASE \E w \in Workers : Deliver(w)
  BY <1>3, SendKeeps, MarkSentKeeps, NotesKeep, GiveUpKeeps, DeferKeeps, PostponeKeeps
     DEF Deliver, Delivers
<1>4. CASE \E w \in Workers : Fails(w)
  BY <1>4, FailsKeeps
<1>5. CASE Tick
  <2>1. UNCHANGED <<rows, hands, told, bookings>> /\ clock' = clock + 1
    BY <1>5 DEF Tick
  <2> QED
    BY <2>1, ElsewhereKeeps DEF Inv, Typed
<1>6. CASE UNCHANGED vars
  BY <1>6, ElsewhereKeeps DEF vars, Inv, Typed
<1> QED
  BY <1>1, <1>2, <1>3, <1>4, <1>5, <1>6 DEF Next

(***************************************************************************)
(* A message marked as sent was delivered with the words it has, whatever  *)
(* was moved, cancelled, retried, postponed or lost under its delivery, by *)
(* however many workers.                                                   *)
(***************************************************************************)
THEOREM SentWasDelivered == Spec => []SentMeansDelivered
<1>1. Spec => []Inv
  BY InitHolds, StepKeeps, PTL DEF Spec
<1>2. Inv => SentMeansDelivered
  BY DEF Inv
<1> QED
  BY <1>1, <1>2, PTL

-----------------------------------------------------------------------------
(***************************************************************************)
(* How often, how early and with how many attempts.  The invariant on top  *)
(* of Inv: a claim in hand has a lease that has not run out, so its row is *)
(* not claimed again; no words come twice from the bar, so there is one    *)
(* claim of them at most; and whatever may arrive once more without a      *)
(* fault has so far arrived no more often than there were faults.          *)
(***************************************************************************)

\* The row would be sent with this version of its words.
Open(m, v) == rows[m].state = "waiting" /\ rows[m].words.version = v

IsOf(c, m, v) == c.message = m /\ c.words.version = v

Same(c, d) == c.message = d.message /\ c.words.version = d.words.version

ClaimHolds(c) ==
  /\ c.lease = c.at + Lease /\ c.at <= clock /\ clock <= c.at + Patience
  /\ rows[c.message].state # "absent"
  /\ c.words.version <= bookings[About[c.message]].version
  /\ Open(c.message, c.words.version) => StillClaimed(c) /\ c.phase # "reached"
  /\ c.attempts <= MaxAttempts + faults
  /\ Kind[c.message] = "reminder" => c.words.start - RemindAhead <= c.at

ClaimsHold == \A w \in Workers : \A c \in hands[w] : ClaimHolds(c)

OneClaimEach ==
  \A w, u \in Workers : \A c \in hands[w], d \in hands[u] : Same(c, d) => w = u /\ c = d

Unclaimed(m) == \A w \in Workers : \A c \in hands[w] : c.message = m => ~StillClaimed(c)

\* A row is of a booking that was taken, and no newer than it; a row that
\* nobody has in hand has an attempt left, or somebody failed.
RowHolds(m) ==
  LET r == rows[m]
      b == bookings[About[m]]
  IN /\ r.state # "absent" => b.status # "none" /\ r.words.version <= b.version
     /\ Kind[m] = "reminder" /\ r.state = "waiting" => r.words.start - RemindAhead <= r.due
     /\ r.attempts <= MaxAttempts + faults
     /\ r.state = "waiting" /\ Unclaimed(m) => r.attempts < MaxAttempts + faults

RowsHold == \A m \in Messages : RowHolds(m)

\* The words may arrive once more although nothing breaks.
MayArrive(m, v) ==
  \/ \E w \in Workers : \E c \in hands[w] : IsOf(c, m, v) /\ c.phase = "claimed"
  \/ /\ Open(m, v)
     /\ \A w \in Workers : \A c \in hands[w] : IsOf(c, m, v) => c.phase # "accepted"

Counted ==
  \A m \in Messages, v \in Versions :
    /\ told[m][v] <= 1 + faults
    /\ MayArrive(m, v) => told[m][v] <= faults
    /\ told[m][v] # 0 => rows[m].state # "absent" /\ v <= bookings[About[m]].version

MoreTyped ==
  /\ guests \in [Bookings -> [opted_in : BOOLEAN, reachable : BOOLEAN]]
  /\ faults \in 0 .. MaxFaults /\ waits \in Nat /\ acts \in Nat

Delivering == MoreTyped /\ ClaimsHold /\ OneClaimEach /\ RowsHold /\ Counted

LEMMA InitDelivers == Init => Delivering
<1> SUFFICES ASSUME Init PROVE Delivering
  OBVIOUS
<1>1. MoreTyped
  <2>1. [opted_in : BOOLEAN, reachable : {TRUE}] \subseteq [opted_in : BOOLEAN, reachable : BOOLEAN]
    OBVIOUS
  <2>2. guests \in [Bookings -> [opted_in : BOOLEAN, reachable : BOOLEAN]]
    BY <2>1 DEF Init
  <2> QED
    BY <2>2, OutboxAssumption DEF Init, MoreTyped
<1>2. /\ \A w \in Workers : hands[w] = {}
      /\ \A m \in Messages : rows[m].state = "absent" /\ rows[m].attempts = 0
      /\ \A m \in Messages, v \in Versions : told[m][v] = 0
      /\ faults = 0
  BY DEF Init
<1>3. ClaimsHold /\ OneClaimEach
  BY <1>2 DEF ClaimsHold, OneClaimEach
<1>4. RowsHold
  BY <1>2, OutboxAssumption DEF RowsHold, RowHolds
<1>5. Counted
  BY <1>2 DEF Counted, MayArrive, Open
<1> QED
  BY <1>1, <1>3, <1>4, <1>5 DEF Delivering

LEMMA ClaimIsTyped ==
  ASSUME Inv, NEW w \in Workers, NEW c \in hands[w]
  PROVE  /\ c \in ClaimType
         /\ c.message \in Messages /\ About[c.message] \in Bookings
         /\ c.lease \in Int /\ c.attempts \in Nat \ {0} /\ c.at \in Nat
         /\ c.words.version \in Versions /\ c.words.version \in Nat /\ c.words.start \in Nat
BY OutboxAssumption DEF Inv, Typed, ClaimType, Words, Versions

LEMMA RowIsTyped ==
  ASSUME Inv, NEW m \in Messages
  PROVE  /\ rows[m] \in RowType /\ About[m] \in Bookings
         /\ rows[m].due \in Int /\ rows[m].attempts \in Nat
         /\ rows[m].words.version \in Versions /\ rows[m].words.version \in Nat
         /\ rows[m].words.start \in Nat
         /\ bookings[About[m]] \in BookingType /\ bookings[About[m]].version \in Nat
         /\ bookings[About[m]].start \in Nat
BY OutboxAssumption DEF Inv, Typed, RowType, Words, Versions, BookingType

-----------------------------------------------------------------------------
(***************************************************************************)
(* The bar: what it opens afresh has words nobody has had yet.             *)
(***************************************************************************)

Renewed(m, old, new, was, is) ==
  \/ new = old
  \/ /\ old.state = "waiting" /\ new.state = "gave_up"
     /\ new.words = old.words /\ new.attempts = old.attempts
  \/ /\ new.state = "waiting" /\ new.attempts = 0 /\ new.words = WordsNow(is)
     /\ old.state = "absent" \/ was.version < is.version
     /\ Kind[m] = "reminder" => is.start - RemindAhead <= new.due
     /\ is.status # "none"

LEMMA RenewingDelivers ==
  ASSUME Inv, Inv', Delivering, UNCHANGED <<hands, clock, told, faults>>,
         MoreTyped',
         \A i \in Bookings : /\ bookings[i].version <= bookings'[i].version
                             /\ bookings[i].status # "none" => bookings'[i].status # "none",
         \A m \in Messages :
           Renewed(m, rows[m], rows'[m], bookings[About[m]], bookings'[About[m]])
  PROVE  Delivering'
<1>1. \A m \in Messages :
        /\ rows[m].words.version \in Nat /\ rows'[m].words.version \in Nat
        /\ About[m] \in Bookings
        /\ bookings[About[m]].version \in Nat /\ bookings'[About[m]].version \in Nat
        /\ rows'[m].state # "absent" \/ rows'[m] = rows[m]
  <2> SUFFICES ASSUME NEW m \in Messages
               PROVE  /\ rows[m].words.version \in Nat /\ rows'[m].words.version \in Nat
                      /\ About[m] \in Bookings
                      /\ bookings[About[m]].version \in Nat /\ bookings'[About[m]].version \in Nat
                      /\ rows'[m].state # "absent" \/ rows'[m] = rows[m]
    OBVIOUS
  <2>1. About[m] \in Bookings
    BY OutboxAssumption
  <2>2. rows'[m] \in RowType /\ bookings'[About[m]] \in BookingType
    BY <2>1 DEF Inv, Typed
  <2>3. rows'[m].words.version \in Nat /\ bookings'[About[m]].version \in Nat
    BY <2>2 DEF RowType, Words, Versions, BookingType
  <2>4. rows'[m].state # "absent" \/ rows'[m] = rows[m]
    BY DEF Renewed
  <2> QED
    BY <2>1, <2>3, <2>4, RowIsTyped
<1>2. \A w \in Workers : \A c \in hands[w] :
        c.message \in Messages /\ c.words.version \in Nat /\ ClaimHolds(c)
  BY ClaimIsTyped DEF Delivering, ClaimsHold
<1>3. \A m \in Messages : rows[m].state # "absent" => rows'[m].state # "absent"
  BY DEF Renewed
\* A row that is open for words somebody had was not touched.
<1>4. ASSUME NEW m \in Messages, NEW v \in Nat,
             v <= bookings[About[m]].version, rows[m].state # "absent", Open(m, v)'
      PROVE  rows'[m] = rows[m] /\ Open(m, v)
  <2>1. CASE rows'[m] = rows[m]
    BY <2>1, <1>4 DEF Open
  <2>2. CASE rows'[m] # rows[m]
    <3>1. /\ rows'[m].words = WordsNow(bookings'[About[m]])
          /\ bookings[About[m]].version < bookings'[About[m]].version
      BY <2>2, <1>4 DEF Open, Renewed
    <3> QED
      BY <3>1, <1>1, <1>4 DEF Open, WordsNow
  <2> QED
    BY <2>1, <2>2
<1>5. ClaimsHold'
  <2> SUFFICES ASSUME NEW w \in Workers, NEW c \in hands[w]
               PROVE  ClaimHolds(c)'
    BY DEF ClaimsHold
  <2>1. About[c.message] \in Bookings
    BY <1>1, <1>2
  <2>2. Open(c.message, c.words.version)' => StillClaimed(c)' /\ c.phase # "reached"
    BY <1>2, <1>4 DEF ClaimHolds, StillClaimed
  <2> QED
    BY <2>1, <2>2, <1>1, <1>2, <1>3 DEF ClaimHolds
<1>6. OneClaimEach'
  BY DEF Delivering, OneClaimEach, Same
<1>7. RowsHold'
  <2> SUFFICES ASSUME NEW m \in Messages
               PROVE  RowHolds(m)'
    BY DEF RowsHold
  <2>1. RowHolds(m) /\ MaxAttempts + faults \in Nat /\ 0 < MaxAttempts + faults
    BY OutboxAssumption DEF Delivering, RowsHold, MoreTyped
  <2>2. /\ bookings[About[m]].version <= bookings'[About[m]].version
        /\ bookings[About[m]].status # "none" => bookings'[About[m]].status # "none"
    BY <1>1
  <2>3. CASE rows'[m] = rows[m]
    <3>1. Unclaimed(m)' => Unclaimed(m)
      BY <2>3 DEF Unclaimed, StillClaimed
    <3> QED
      BY <3>1, <2>1, <2>2, <2>3, <1>1 DEF RowHolds
  <2>4. CASE rows[m].state = "waiting" /\ rows'[m].state = "gave_up"
             /\ rows'[m].words = rows[m].words /\ rows'[m].attempts = rows[m].attempts
    BY <2>1, <2>2, <2>4, <1>1 DEF RowHolds
  <2>5. CASE /\ rows'[m].state = "waiting" /\ rows'[m].attempts = 0
             /\ rows'[m].words = WordsNow(bookings'[About[m]])
             /\ Kind[m] = "reminder" => bookings'[About[m]].start - RemindAhead <= rows'[m].due
             /\ bookings'[About[m]].status # "none"
    BY <2>1, <2>5, <1>1 DEF RowHolds, WordsNow
  <2> QED
    BY <2>3, <2>4, <2>5 DEF Renewed
<1>8. Counted'
  <2> SUFFICES ASSUME NEW m \in Messages, NEW v \in Versions
               PROVE  /\ told[m][v] <= 1 + faults
                      /\ MayArrive(m, v)' => told[m][v] <= faults
                      /\ told[m][v] # 0 => /\ rows'[m].state # "absent"
                                           /\ v <= bookings'[About[m]].version
    BY DEF Counted
  <2>1. /\ told[m][v] <= 1 + faults
        /\ MayArrive(m, v) => told[m][v] <= faults
        /\ told[m][v] # 0 => rows[m].state # "absent" /\ v <= bookings[About[m]].version
        /\ faults \in Nat /\ told[m][v] \in Nat /\ v \in Nat
    BY OutboxAssumption DEF Delivering, Counted, MoreTyped, Inv, Typed, Versions
  <2>2. told[m][v] # 0 => /\ rows'[m].state # "absent"
                          /\ v <= bookings'[About[m]].version
    BY <2>1, <1>1, <1>3
  <2>3. ASSUME MayArrive(m, v)', told[m][v] # 0
        PROVE  MayArrive(m, v)
    <3>1. Open(m, v)' => Open(m, v)
      BY <2>1, <2>3, <1>4
    <3> QED
      BY <3>1, <2>3 DEF MayArrive
  <2> QED
    BY <2>1, <2>2, <2>3
<1> QED
  BY <1>5, <1>6, <1>7, <1>8 DEF Delivering

LEMMA AbandoningRenews ==
  ASSUME NEW m, NEW r \in RowType, NEW was, NEW is
  PROVE  Renewed(m, r, Abandoned(r), was, is)
BY DEF Abandoned, Renewed, RowType

LEMMA PlanningRenews ==
  ASSUME NEW m, NEW r \in RowType, NEW was, NEW b \in BookingType, b.status # "none",
         r.state = "absent" \/ was.version < b.version
  PROVE  Renewed(m, r, Planned(r, b), was, b)
<1> DEFINE due == b.start - RemindAhead
<1>1. due \in Int
  BY OutboxAssumption DEF BookingType
<1>2. \/ Planned(r, b) = Abandoned(r) \/ Planned(r, b) = r
      \/ Planned(r, b) = Queued(WordsNow(b), due)
  BY DEF Planned
<1>3. Renewed(m, r, Queued(WordsNow(b), due), was, b)
  BY <1>1 DEF Queued, Renewed
<1>4. Renewed(m, r, r, was, b)
  BY DEF Renewed
<1> QED
  BY <1>2, <1>3, <1>4, AbandoningRenews

\* A row nobody has used yet may be opened for any booking that was taken.
LEMMA QueueingRenews ==
  ASSUME NEW m, NEW r, r.state = "absent", Kind[m] # "reminder", NEW was,
         NEW is \in BookingType, is.status # "none", NEW moment
  PROVE  Renewed(m, r, Queued(WordsNow(is), moment), was, is)
BY DEF Queued, Renewed

\* A booking that becomes b, and its messages with it.
LEMMA BookingRenews ==
  ASSUME Inv, Inv', Delivering, NEW i \in Bookings, NEW b \in BookingType, b.status # "none",
         bookings[i].version <= b.version,
         \A m \in Messages :
           \/ rows'[m] = rows[m]
           \/ About[m] = i /\ Renewed(m, rows[m], rows'[m], bookings[i], b),
         bookings' = [bookings EXCEPT ![i] = b],
         UNCHANGED <<guests, hands, clock, told, faults, waits>>, acts' \in Nat
  PROVE  Delivering'
<1>1. /\ bookings \in [Bookings -> BookingType]
      /\ \A j \in Bookings : bookings'[j] = IF j = i THEN b ELSE bookings[j]
  BY DEF Inv, Typed
<1>2. \A j \in Bookings : /\ bookings[j].version <= bookings'[j].version
                          /\ bookings[j].status # "none" => bookings'[j].status # "none"
  BY <1>1 DEF BookingType, Versions
<1>3. ASSUME NEW m \in Messages
      PROVE  Renewed(m, rows[m], rows'[m], bookings[About[m]], bookings'[About[m]])
  <2>1. About[m] \in Bookings
    BY OutboxAssumption
  <2>2. About[m] = i => bookings'[About[m]] = b
    BY <1>1
  <2> QED
    BY <2>1, <2>2 DEF Renewed
<1>4. MoreTyped'
  BY DEF Delivering, MoreTyped
<1> QED
  BY <1>2, <1>3, <1>4, RenewingDelivers

LEMMA TakingDelivers ==
  ASSUME Inv, Inv', Delivering, NEW i \in Bookings, NEW start \in Starts,
         TakeBooking(i, start), acts' \in Nat
  PROVE  Delivering'
<1> DEFINE b == [bookings[i] EXCEPT !.status = "live", !.start = start]
<1>1. bookings[i] \in BookingType /\ start \in Nat
  BY OutboxAssumption DEF Inv, Typed
<1>2. b \in BookingType /\ b.status = "live" /\ b.version = bookings[i].version
  BY <1>1 DEF BookingType
<1>3. /\ bookings[i].status = "none" /\ bookings' = [bookings EXCEPT ![i] = b]
      /\ rows' = [m \in Messages |->
                    IF About[m] = i /\ Kind[m] = "reminder" THEN Planned(rows[m], b)
                    ELSE rows[m]]
      /\ UNCHANGED <<guests, hands, clock, told, faults, waits>>
  BY DEF TakeBooking, QueueAfter
<1> HIDE DEF b
<1>4. ASSUME NEW m \in Messages, rows'[m] # rows[m]
      PROVE  About[m] = i /\ Renewed(m, rows[m], rows'[m], bookings[i], b)
  <2>1. About[m] = i /\ rows'[m] = Planned(rows[m], b)
    BY <1>3, <1>4
  <2>2. rows[m] \in RowType /\ rows[m].state = "absent"
    BY <2>1, <1>3, RowIsTyped DEF Delivering, RowsHold, RowHolds
  <2> QED
    BY <2>1, <2>2, <1>2, PlanningRenews
<1>5. bookings[i].version <= b.version /\ b.status # "none"
  BY <1>1, <1>2 DEF BookingType, Versions
<1> QED
  BY <1>2, <1>3, <1>4, <1>5, BookingRenews

LEMMA MovingDelivers ==
  ASSUME Inv, Inv', Delivering, NEW i \in Bookings, NEW start \in Starts,
         MoveBooking(i, start), acts' \in Nat
  PROVE  Delivering'
<1> DEFINE b == [bookings[i] EXCEPT !.start = start, !.version = @ + 1, !.table = TRUE]
<1>1. /\ bookings[i] \in BookingType /\ start \in Nat
      /\ bookings[i].status = "live" /\ bookings[i].version < MaxVersion
  BY OutboxAssumption DEF Inv, Typed, MoveBooking, StillHeld
<1>2. /\ b \in BookingType /\ b.status = "live"
      /\ bookings[i].version < b.version /\ bookings[i].version <= b.version
  <2>1. bookings[i].version \in Nat /\ bookings[i].version + 1 \in Versions
    BY <1>1, OutboxAssumption DEF BookingType, Versions
  <2>2. b \in BookingType
    BY <2>1, <1>1 DEF BookingType
  <2>3. b.status = "live" /\ b.version = bookings[i].version + 1
    BY <1>1 DEF BookingType
  <2> QED
    BY <2>1, <2>2, <2>3
<1>3. PICK notices :
        /\ notices \subseteq Free(i, "moved")
        /\ rows' = QueueAfter(i, b, LAMBDA r : Planned(r, b), notices)
  BY DEF MoveBooking
<1>4. /\ bookings' = [bookings EXCEPT ![i] = b]
      /\ UNCHANGED <<guests, hands, clock, told, faults, waits>>
  BY DEF MoveBooking
<1> HIDE DEF b
<1>5. ASSUME NEW m \in Messages, rows'[m] # rows[m]
      PROVE  About[m] = i /\ Renewed(m, rows[m], rows'[m], bookings[i], b)
  <2>1. \/ m \in notices /\ rows'[m] = Queued(WordsNow(b), clock)
        \/ About[m] = i /\ rows'[m] = Planned(rows[m], b)
    BY <1>3, <1>5 DEF QueueAfter
  <2>2. rows[m] \in RowType
    BY RowIsTyped
  <2>3. m \in notices => About[m] = i /\ Kind[m] # "reminder" /\ rows[m].state = "absent"
    BY <1>3 DEF Free
  <2> QED
    BY <2>1, <2>2, <2>3, <1>2, PlanningRenews, QueueingRenews
<1> QED
  BY <1>2, <1>4, <1>5, BookingRenews

LEMMA CancellingDelivers ==
  ASSUME Inv, Inv', Delivering, NEW i \in Bookings, NEW noticed,
         CancelBooking(i, noticed), acts' \in Nat
  PROVE  Delivering'
<1> DEFINE b == [bookings[i] EXCEPT !.status = "cancelled"]
<1>1. bookings[i] \in BookingType
  BY DEF Inv, Typed
<1>2. /\ b \in BookingType /\ b.status = "cancelled"
      /\ bookings[i].version <= b.version
  BY <1>1 DEF BookingType, Versions
<1>3. PICK notices :
        /\ notices \subseteq Free(i, "cancelled")
        /\ rows' = QueueAfter(i, b, Abandoned, notices)
  BY DEF CancelBooking
<1>4. /\ bookings' = [bookings EXCEPT ![i] = b]
      /\ UNCHANGED <<guests, hands, clock, told, faults, waits>>
  BY DEF CancelBooking
<1> HIDE DEF b
<1>5. ASSUME NEW m \in Messages, rows'[m] # rows[m]
      PROVE  About[m] = i /\ Renewed(m, rows[m], rows'[m], bookings[i], b)
  <2>1. \/ m \in notices /\ rows'[m] = Queued(WordsNow(b), clock)
        \/ About[m] = i /\ rows'[m] = Abandoned(rows[m])
    BY <1>3, <1>5 DEF QueueAfter
  <2>2. rows[m] \in RowType
    BY RowIsTyped
  <2>3. m \in notices => About[m] = i /\ Kind[m] # "reminder" /\ rows[m].state = "absent"
    BY <1>3 DEF Free
  <2> QED
    BY <2>1, <2>2, <2>3, <1>2, AbandoningRenews, QueueingRenews
<1> QED
  BY <1>2, <1>4, <1>5, BookingRenews

LEMMA BarDelivers ==
  ASSUME Inv, Inv', Delivering, NEW i \in Bookings, BarActs(i)
  PROVE  Delivering'
<1>1. acts' \in Nat /\ acts \in Nat
  BY DEF BarActs, Delivering, MoreTyped
<1>2. CASE \E start \in Starts : TakeBooking(i, start) \/ MoveBooking(i, start)
  BY <1>1, <1>2, TakingDelivers, MovingDelivers
<1>3. CASE \E noticed \in BOOLEAN : CancelBooking(i, noticed)
  BY <1>1, <1>3, CancellingDelivers
<1>4. CASE Reseat(i)
  <2> DEFINE b == [bookings[i] EXCEPT !.table = ~@]
  <2>1. bookings[i] \in BookingType /\ bookings[i].status = "live"
    BY <1>4 DEF Reseat, StillHeld, Inv, Typed
  <2>2. /\ bookings' = [bookings EXCEPT ![i] = b] /\ rows' = rows
        /\ UNCHANGED <<guests, hands, clock, told, faults, waits>>
    BY <1>4 DEF Reseat
  <2>3. b \in BookingType
    BY <2>1, <2>2 DEF Inv, Typed
  <2>4. b.status = bookings[i].status /\ b.version = bookings[i].version
    BY <2>1 DEF BookingType
  <2>5. b.status # "none" /\ bookings[i].version <= b.version
    BY <2>1, <2>4 DEF BookingType, Versions
  <2> HIDE DEF b
  <2> QED
    BY <2>2, <2>3, <2>5, <1>1, BookingRenews
<1>5. CASE SendTemplate(i)
  <2>1. PICK k \in Free(i, "staff_message") :
          rows' = [rows EXCEPT ![k] = Queued(WordsNow(bookings[i]), clock)]
    BY <1>5 DEF SendTemplate
  <2>2. /\ bookings[i] \in BookingType /\ bookings[i].status # "none"
        /\ UNCHANGED <<bookings, guests, hands, clock, told, faults, waits>>
    BY <1>5 DEF SendTemplate, Inv, Typed
  <2>3. /\ k \in Messages /\ About[k] = i /\ Kind[k] # "reminder" /\ rows[k].state = "absent"
        /\ rows \in [Messages -> RowType]
    BY DEF Free, Inv, Typed
  <2>4. Renewed(k, rows[k], rows'[k], bookings[i], bookings[i])
    BY <2>1, <2>2, <2>3, QueueingRenews
  <2>5. \A m \in Messages :
          Renewed(m, rows[m], rows'[m], bookings[About[m]], bookings'[About[m]])
    BY <2>1, <2>2, <2>3, <2>4 DEF Renewed
  <2>6. \A j \in Bookings : bookings[j].version <= bookings[j].version
    BY DEF Inv, Typed, BookingType, Versions
  <2>7. MoreTyped'
    BY <2>2, <1>1 DEF Delivering, MoreTyped
  <2> QED
    BY <2>2, <2>5, <2>6, <2>7, RenewingDelivers
<1>6. CASE OptIn(i) \/ StartBot(i)
  <2>1. MoreTyped'
    BY <1>1, <1>6 DEF OptIn, StartBot, Delivering, MoreTyped
  <2>2. UNCHANGED <<rows, bookings, hands, clock, told, faults>>
    BY <1>6 DEF OptIn, StartBot
  <2>3. \A j \in Bookings : bookings[j].version <= bookings[j].version
    BY DEF Inv, Typed, BookingType, Versions
  <2> QED
    BY <2>1, <2>2, <2>3, RenewingDelivers DEF Renewed
<1> QED
  BY <1>2, <1>3, <1>4, <1>5, <1>6 DEF BarActs

-----------------------------------------------------------------------------
(***************************************************************************)
(* The worker.  What is due is in nobody's hand: a lease outlasts the      *)
(* delivery it was given for.                                              *)
(***************************************************************************)
LEMMA DueIsInNoHand ==
  ASSUME Inv, Delivering, NEW m \in Messages, Due(m),
         NEW w \in Workers, NEW c \in hands[w], c.message = m
  PROVE  ~StillClaimed(c) /\ ~Open(m, c.words.version)
<1>1. ClaimHolds(c) /\ c.lease \in Int /\ c.at \in Nat /\ clock \in Nat
  BY ClaimIsTyped DEF Delivering, ClaimsHold, Inv, Typed
<1>2. clock < c.lease
  BY <1>1, OutboxAssumption DEF ClaimHolds
<1>3. rows[m].due # c.lease
  BY <1>1, <1>2, RowIsTyped DEF Due
<1> QED
  BY <1>1, <1>3 DEF StillClaimed, ClaimHolds

LEMMA ClaimDelivers ==
  ASSUME Inv, Inv', Delivering, NEW w \in Workers, Claim(w)
  PROVE  Delivering'
<1>1. PICK taken \in SUBSET Ready :
        /\ rows' = [m \in Messages |->
                      IF m \in Settled THEN [rows[m] EXCEPT !.state = "gave_up"]
                      ELSE IF m \in taken
                           THEN [rows[m] EXCEPT !.attempts = @ + 1, !.due = LeaseEnd(clock)]
                      ELSE rows[m]]
        /\ hands' = [hands EXCEPT ![w] = {Claimed(m) : m \in taken}]
  BY DEF Claim
<1>2. hands[w] = {} /\ UNCHANGED <<bookings, guests, clock, told, faults, waits, acts>>
  BY DEF Claim
<1>3. /\ hands \in [Workers -> SUBSET ClaimType] /\ clock \in Nat /\ faults \in Nat
      /\ LeaseEnd(clock) = clock + Lease
      /\ Lease \in Nat /\ Patience \in Nat /\ MaxAttempts + faults \in Nat
  BY OutboxAssumption DEF Inv, Typed, LeaseEnd, Delivering, MoreTyped
<1>4. \A m \in Messages : m \in Settled \/ m \in taken => Due(m)
  BY DEF Ready, Settled
<1>5. taken \subseteq Messages /\ \A m \in taken : m \notin Settled
  BY DEF Ready, Settled
<1>6. \A v \in Workers : \A d \in hands'[v] :
        \/ v = w /\ \E m \in taken : d = Claimed(m)
        \/ v # w /\ d \in hands[v]
  BY <1>1, <1>3
<1>7. \A v \in Workers : hands[v] \subseteq hands'[v]
  BY <1>1, <1>2, <1>3
<1>8. \A m \in taken : Claimed(m) \in hands'[w]
  BY <1>1, <1>3
<1> DEFINE Left(m) == rows'[m] = rows[m] /\ m \notin Settled /\ m \notin taken
           Gone(m) == /\ m \in Settled /\ rows'[m].state = "gave_up"
                      /\ rows'[m].words = rows[m].words /\ rows'[m].attempts = rows[m].attempts
           Had(m)  == /\ m \in taken /\ rows'[m].state = "waiting" /\ rows[m].state = "waiting"
                      /\ rows'[m].words = rows[m].words
                      /\ rows'[m].attempts = rows[m].attempts + 1
                      /\ rows'[m].due = clock + Lease
<1>9. ASSUME NEW m \in Messages
      PROVE  Left(m) \/ Gone(m) \/ Had(m)
  <2>1. rows[m] \in RowType
    BY RowIsTyped
  <2>2. CASE m \in Settled
    BY <2>1, <2>2, <1>1 DEF RowType
  <2>3. CASE m \in taken
    BY <2>1, <2>3, <1>1, <1>3, <1>4, <1>5 DEF RowType, Due
  <2> QED
    BY <2>2, <2>3, <1>1
<1>10. \A m \in Messages : /\ rows'[m].words = rows[m].words
                           /\ rows'[m].state = "waiting" => rows[m].state = "waiting"
                           /\ rows[m].state # "absent" => rows'[m].state # "absent"
  BY <1>9
<1>11. \A m \in taken :
         /\ Claimed(m).message = m /\ Claimed(m).words = rows[m].words
         /\ Claimed(m).attempts = rows[m].attempts + 1 /\ Claimed(m).lease = clock + Lease
         /\ Claimed(m).at = clock /\ Claimed(m).phase = "claimed"
  BY <1>3 DEF Claimed
<1>12. \A m \in taken : Due(m) /\ Unclaimed(m) /\ RowHolds(m)
  BY <1>4, <1>5, DueIsInNoHand DEF Unclaimed, Delivering, RowsHold
<1> HIDE DEF Left, Gone, Had
<1>13. \A m \in taken : Had(m)
  BY <1>5, <1>9 DEF Left, Gone
\* Words that somebody has in hand are not claimed again.
<1>14. \A m \in taken, v \in Workers : \A d \in hands[v] : ~IsOf(d, m, rows[m].words.version)
  BY <1>12, <1>5, DueIsInNoHand DEF IsOf, Open, Due
<1>15. ClaimsHold'
  <2> SUFFICES ASSUME NEW v \in Workers, NEW d \in hands'[v]
               PROVE  ClaimHolds(d)'
    BY DEF ClaimsHold
  <2>1. CASE \E m \in taken : d = Claimed(m)
    <3>1. PICK m \in taken : d = Claimed(m)
      BY <2>1
    <3>2. /\ m \in Messages /\ rows[m].attempts \in Nat /\ rows[m].due \in Int
          /\ rows[m].words.start \in Nat
      BY <1>5, RowIsTyped
    <3>3. RowHolds(m) /\ Unclaimed(m) /\ rows[m].state = "waiting" /\ rows[m].due <= clock
      BY <1>12 DEF Due
    <3>4. rows[m].attempts + 1 <= MaxAttempts + faults
      BY <3>2, <3>3, <1>3 DEF RowHolds
    <3>5. Kind[m] = "reminder" => rows[m].words.start - RemindAhead <= clock
      BY <3>2, <3>3, <1>3, OutboxAssumption DEF RowHolds
    <3>6. rows[m].words.version <= bookings[About[m]].version
      BY <3>3 DEF RowHolds
    <3>7. /\ rows'[m].state = "waiting" /\ rows'[m].due = clock + Lease
          /\ rows'[m].attempts = rows[m].attempts + 1
      BY <1>13 DEF Had
    <3>8. StillClaimed(d)'
      BY <3>1, <3>7, <1>11 DEF StillClaimed
    <3> QED
      BY <3>1, <3>4, <3>5, <3>6, <3>7, <3>8, <1>2, <1>3, <1>11 DEF ClaimHolds
  <2>2. CASE d \in hands[v]
    <3>1. ClaimHolds(d) /\ d.message \in Messages
      BY <2>2, ClaimIsTyped DEF Delivering, ClaimsHold
    <3>2. CASE Left(d.message)
      BY <3>1, <3>2, <1>2 DEF ClaimHolds, Left, Open, StillClaimed
    <3>3. CASE ~Left(d.message)
      <4>1. Due(d.message)
        BY <3>1, <3>3, <1>4, <1>9 DEF Gone, Had
      <4>2. ~Open(d.message, d.words.version)'
        BY <4>1, <3>1, <2>2, <1>10, DueIsInNoHand DEF Open
      <4> QED
        BY <4>2, <3>1, <1>2, <1>10 DEF ClaimHolds
    <3> QED
      BY <3>2, <3>3
  <2> QED
    BY <2>1, <2>2, <1>6
<1>16. OneClaimEach'
  <2> SUFFICES ASSUME NEW v \in Workers, NEW u \in Workers,
                      NEW c \in hands'[v], NEW d \in hands'[u], Same(c, d)
               PROVE  v = u /\ c = d
    BY DEF OneClaimEach
  <2>1. CASE c \in hands[v] /\ d \in hands[u]
    BY <2>1 DEF Delivering, OneClaimEach
  <2>2. CASE v = w /\ u = w /\ (\E m \in taken : c = Claimed(m)) /\ \E m \in taken : d = Claimed(m)
    BY <2>2, <1>11 DEF Same
  <2>3. CASE (\E m \in taken : c = Claimed(m)) /\ d \in hands[u]
    BY <2>3, <1>11, <1>14 DEF Same, IsOf
  <2>4. CASE c \in hands[v] /\ \E m \in taken : d = Claimed(m)
    BY <2>4, <1>11, <1>14 DEF Same, IsOf
  <2> QED
    BY <2>1, <2>2, <2>3, <2>4, <1>6
<1>17. RowsHold'
  <2> SUFFICES ASSUME NEW m \in Messages PROVE RowHolds(m)'
    BY DEF RowsHold
  <2>1. /\ RowHolds(m) /\ rows[m].attempts \in Nat /\ rows[m].due \in Int
        /\ rows[m].words.start \in Nat
    BY RowIsTyped DEF Delivering, RowsHold
  <2>2. CASE Left(m)
    <3>1. Unclaimed(m)' => Unclaimed(m)
      BY <2>2, <1>7 DEF Left, Unclaimed, StillClaimed
    <3> QED
      BY <3>1, <2>1, <2>2, <1>2 DEF Left, RowHolds
  <2>3. CASE Gone(m)
    BY <2>1, <2>3, <1>2, <1>4 DEF Gone, RowHolds, Due
  <2>4. CASE Had(m)
    <3>1. m \in taken /\ Due(m) /\ Unclaimed(m)
      BY <2>4, <1>12 DEF Had
    <3>2. rows[m].attempts + 1 <= MaxAttempts + faults
      BY <2>1, <3>1, <1>3 DEF RowHolds, Due
    <3>3. ~Unclaimed(m)'
      BY <2>4, <3>1, <1>8, <1>11 DEF Had, Unclaimed, StillClaimed
    <3>4. Kind[m] = "reminder" => rows'[m].words.start - RemindAhead <= rows'[m].due
      <4>1. Kind[m] = "reminder" => rows[m].words.start - RemindAhead <= rows[m].due
        BY <2>1, <3>1 DEF Due, RowHolds
      <4>2. rows[m].due <= clock + Lease /\ rows[m].words.start - RemindAhead \in Int
        BY <2>1, <3>1, <1>3, OutboxAssumption DEF Due
      <4> QED
        BY <4>1, <4>2, <2>1, <2>4, <1>3 DEF Had
    <3> QED
      BY <2>1, <2>4, <3>2, <3>3, <3>4, <1>2 DEF Had, RowHolds
  <2> QED
    BY <2>2, <2>3, <2>4, <1>9
<1>18. Counted'
  <2> SUFFICES ASSUME NEW m \in Messages, NEW v \in Versions, MayArrive(m, v)'
               PROVE  MayArrive(m, v)
    BY <1>2, <1>10 DEF Delivering, Counted
  <2>1. CASE \E u \in Workers : \E d \in hands'[u] : IsOf(d, m, v) /\ d.phase = "claimed"
    <3>1. PICK u \in Workers : \E d \in hands'[u] : IsOf(d, m, v) /\ d.phase = "claimed"
      BY <2>1
    <3> PICK d \in hands'[u] : IsOf(d, m, v) /\ d.phase = "claimed"
      BY <3>1
    <3>2. CASE d \in hands[u]
      BY <3>2 DEF MayArrive
    <3>3. CASE \E k \in taken : d = Claimed(k)
      <4>1. m \in taken /\ v = rows[m].words.version
        BY <3>3, <1>11 DEF IsOf
      <4> QED
        BY <4>1, <1>12, <1>14 DEF MayArrive, Open, Due
    <3> QED
      BY <3>2, <3>3, <1>6
  <2>2. CASE /\ Open(m, v)'
             /\ \A u \in Workers : \A d \in hands'[u] : IsOf(d, m, v) => d.phase # "accepted"
    BY <2>2, <1>7, <1>10 DEF MayArrive, Open
  <2> QED
    BY <2>1, <2>2 DEF MayArrive
<1>19. MoreTyped'
  BY <1>2 DEF Delivering, MoreTyped
<1> QED
  BY <1>15, <1>16, <1>17, <1>18, <1>19 DEF Delivering

\* The claims in hand once c has become e, or has been let go.
Swapped(w, c, e) ==
  \A v \in Workers : \A d \in hands'[v] :
     (v = w /\ d = e) \/ (d \in hands[v] /\ ~(v = w /\ d = c))

Others(w, c) ==
  \A v \in Workers : \A d \in hands[v] : (v = w /\ d = c) \/ d \in hands'[v]

\* The claim itself, in another phase.
Moved(c, e) == /\ e.message = c.message /\ e.words = c.words /\ e.lease = c.lease
               /\ e.attempts = c.attempts /\ e.at = c.at

LEMMA GoingSwaps ==
  ASSUME Inv, NEW w \in Workers, NEW c \in hands[w], NEW phase, Goes(w, c, phase)
  PROVE  LET e == [c EXCEPT !.phase = phase] IN
         /\ Swapped(w, c, e) /\ Others(w, c) /\ e \in hands'[w]
         /\ Moved(c, e) /\ e.phase = phase
<1>1. c \in ClaimType /\ hands \in [Workers -> SUBSET ClaimType]
  BY DEF Inv, Typed
<1>2. LET e == [c EXCEPT !.phase = phase] IN Moved(c, e) /\ e.phase = phase
  BY <1>1 DEF ClaimType, Moved
<1>3. hands' = [hands EXCEPT ![w] = (@ \ {c}) \cup {[c EXCEPT !.phase = phase]}]
  BY DEF Goes
<1> QED
  BY <1>1, <1>2, <1>3 DEF Swapped, Others

LEMMA LettingGoSwaps ==
  ASSUME Inv, NEW w \in Workers, NEW c \in hands[w], LetGo(w, c), NEW e
  PROVE  Swapped(w, c, e) /\ Others(w, c)
<1>1. hands \in [Workers -> SUBSET ClaimType]
  BY DEF Inv, Typed
<1> QED
  BY <1>1 DEF LetGo, Swapped, Others

LEMMA SwappingKeepsOne ==
  ASSUME OneClaimEach, NEW w \in Workers, NEW c \in hands[w], NEW e,
         Moved(c, e), Swapped(w, c, e)
  PROVE  OneClaimEach'
<1> SUFFICES ASSUME NEW v \in Workers, NEW u \in Workers,
                    NEW a \in hands'[v], NEW d \in hands'[u], Same(a, d)
             PROVE  v = u /\ a = d
  BY DEF OneClaimEach
<1>1. CASE (v = w /\ a = e) /\ (u = w /\ d = e)
  BY <1>1
<1>2. CASE (v = w /\ a = e) /\ (d \in hands[u] /\ ~(u = w /\ d = c))
  <2>1. Same(c, d)
    BY <1>2 DEF Moved, Same
  <2> QED
    BY <2>1, <1>2 DEF OneClaimEach
<1>3. CASE (a \in hands[v] /\ ~(v = w /\ a = c)) /\ (u = w /\ d = e)
  <2>1. Same(a, c)
    BY <1>3 DEF Moved, Same
  <2> QED
    BY <2>1, <1>3 DEF OneClaimEach
<1>4. CASE a \in hands[v] /\ d \in hands[u]
  BY <1>4 DEF OneClaimEach
<1> QED
  BY <1>1, <1>2, <1>3, <1>4 DEF Swapped

\* A call to Telegram, or what is noted of its answer: the rows are left alone.
Calls(w, c, e) ==
  \/ /\ told' = told /\ faults' = faults
     /\ c.phase # "accepted" /\ e.phase # "claimed"
  \/ /\ Arrives(c) /\ faults' = faults
     /\ c.phase = "claimed" /\ e.phase = "accepted"
  \/ /\ Arrives(c) /\ faults' = faults + 1
     /\ c.phase = "claimed" /\ e.phase = "failed"

LEMMA CallDelivers ==
  ASSUME Inv, Inv', Delivering, NEW w \in Workers, NEW c \in hands[w], NEW e,
         Moved(c, e), e.phase # "reached", e \in hands'[w], Swapped(w, c, e), Others(w, c),
         Calls(w, c, e), UNCHANGED <<rows, bookings, clock>>, MoreTyped'
  PROVE  Delivering'
<1>1. faults \in Nat /\ (faults' = faults \/ faults' = faults + 1) /\ MaxAttempts \in Nat
  BY OutboxAssumption DEF Calls, Delivering, MoreTyped
<1>2. /\ c.message \in Messages /\ c.words.version \in Versions
      /\ \A v \in Workers : \A d \in hands[v] : d.attempts \in Nat /\ ClaimHolds(d)
  BY ClaimIsTyped DEF Delivering, ClaimsHold
<1>3. ClaimsHold'
  <2> SUFFICES ASSUME NEW v \in Workers, NEW d \in hands'[v] PROVE ClaimHolds(d)'
    BY DEF ClaimsHold
  <2>1. CASE d \in hands[v]
    <3>1. ClaimHolds(d) /\ d.attempts \in Nat
      BY <2>1, <1>2
    <3>2. d.attempts <= MaxAttempts + faults'
      BY <3>1, <1>1 DEF ClaimHolds
    <3> QED
      BY <3>1, <3>2 DEF ClaimHolds, Open, StillClaimed
  <2>2. CASE d = e
    <3>1. ClaimHolds(c) /\ c.attempts \in Nat
      BY <1>2
    <3>2. e.attempts <= MaxAttempts + faults'
      BY <3>1, <1>1 DEF ClaimHolds, Moved
    <3> QED
      BY <3>1, <3>2, <2>2 DEF ClaimHolds, Open, StillClaimed, Moved
  <2> QED
    BY <2>1, <2>2 DEF Swapped
<1>4. OneClaimEach'
  BY SwappingKeepsOne DEF Delivering
<1>5. RowsHold'
  <2> SUFFICES ASSUME NEW m \in Messages PROVE RowHolds(m)'
    BY DEF RowsHold
  <2>1. RowHolds(m) /\ rows[m].attempts \in Nat
    BY RowIsTyped DEF Delivering, RowsHold
  <2>2. Unclaimed(m)' => Unclaimed(m)
    BY DEF Unclaimed, Others, Moved, StillClaimed
  <2>3. /\ rows[m].attempts <= MaxAttempts + faults'
        /\ rows[m].attempts < MaxAttempts + faults => rows[m].attempts < MaxAttempts + faults'
    BY <2>1, <1>1 DEF RowHolds
  <2> QED
    BY <2>1, <2>2, <2>3 DEF RowHolds
<1>6. \A m \in Messages, v \in Versions :
        /\ told[m][v] \in Nat /\ told[m][v] <= 1 + faults
        /\ MayArrive(m, v) => told[m][v] <= faults
        /\ told[m][v] # 0 => rows[m].state # "absent" /\ v <= bookings[About[m]].version
  BY DEF Delivering, Counted, Inv, Typed
<1>7. told \in [Messages -> [Versions -> Nat]]
  BY DEF Inv, Typed
\* Nothing may arrive that might not have before.
<1>8. ASSUME NEW m \in Messages, NEW v \in Versions, c.phase # "accepted", e.phase # "claimed",
             MayArrive(m, v)'
      PROVE  MayArrive(m, v)
  <2>1. CASE \E u \in Workers : \E d \in hands'[u] : IsOf(d, m, v) /\ d.phase = "claimed"
    BY <2>1, <1>8 DEF MayArrive, Swapped
  <2>2. CASE /\ Open(m, v)'
             /\ \A u \in Workers : \A d \in hands'[u] : IsOf(d, m, v) => d.phase # "accepted"
    <3>1. ASSUME NEW u \in Workers, NEW d \in hands[u], IsOf(d, m, v) PROVE d.phase # "accepted"
      BY <2>2, <3>1, <1>8 DEF Others
    <3>2. Open(m, v)
      BY <2>2 DEF Open
    <3> QED
      BY <3>1, <3>2 DEF MayArrive
  <2> QED
    BY <2>1, <2>2, <1>8 DEF MayArrive
<1>9. Counted'
  <2> SUFFICES ASSUME NEW m \in Messages, NEW v \in Versions
               PROVE  /\ told'[m][v] <= 1 + faults'
                      /\ MayArrive(m, v)' => told'[m][v] <= faults'
                      /\ told'[m][v] # 0 => /\ rows[m].state # "absent"
                                            /\ v <= bookings[About[m]].version
    BY DEF Counted
  <2>1. CASE told' = told /\ faults' = faults /\ c.phase # "accepted" /\ e.phase # "claimed"
    BY <2>1, <1>6, <1>8
  <2>2. CASE Arrives(c) /\ c.phase = "claimed" /\ ~IsOf(c, m, v)
    <3>1. told'[m][v] = told[m][v]
      BY <2>2, <1>2, <1>7 DEF Arrives, IsOf
    <3>2. e.phase # "claimed"
      BY <2>2 DEF Calls, Arrives
    <3> QED
      BY <3>1, <3>2, <2>2, <1>1, <1>6, <1>8
  <2>3. CASE Arrives(c) /\ c.phase = "claimed" /\ IsOf(c, m, v)
    <3>1. told'[m][v] = told[m][v] + 1 /\ told[m][v] <= faults
      BY <2>3, <1>6, <1>7 DEF Arrives, IsOf, MayArrive
    <3>2. rows[m].state # "absent" /\ v <= bookings[About[m]].version
      BY <2>3, <1>2 DEF IsOf, ClaimHolds
    <3>3. CASE faults' = faults + 1
      BY <3>1, <3>2, <3>3, <1>1, <1>6
    <3>4. CASE faults' = faults /\ e.phase = "accepted"
      <4>1. \A u \in Workers : \A d \in hands'[u] : IsOf(d, m, v) => d = e
        BY <2>3 DEF IsOf, Swapped, Same, Delivering, OneClaimEach
      <4>2. IsOf(e, m, v)
        BY <2>3 DEF IsOf, Moved
      <4>3. ~MayArrive(m, v)'
        BY <4>1, <4>2, <3>4 DEF MayArrive
      <4> QED
        BY <4>3, <3>1, <3>2, <3>4, <1>1, <1>6
    <3> QED
      BY <3>3, <3>4, <2>3, <3>1, <1>6 DEF Calls
  <2> QED
    BY <2>1, <2>2, <2>3 DEF Calls
<1> QED
  BY <1>3, <1>4, <1>5, <1>9 DEF Delivering

LEMMA SendDelivers ==
  ASSUME Inv, Inv', Delivering, NEW w \in Workers, NEW c \in hands[w], Send(w, c)
  PROVE  Delivering'
<1>1. c.phase = "claimed" /\ UNCHANGED <<rows, bookings, guests, clock, acts>>
  BY DEF Send
<1>2. MoreTyped'
  BY OutboxAssumption DEF Send, Delivering, MoreTyped
<1>3. PICK phase \in {"accepted", "failed", "refused", "unreachable", "limited"} :
        /\ Goes(w, c, phase)
        /\ \/ told' = told /\ faults' = faults
           \/ Arrives(c) /\ faults' = faults /\ phase = "accepted"
           \/ Arrives(c) /\ faults' = faults + 1 /\ phase = "failed"
  BY DEF Send
<1> DEFINE e == [c EXCEPT !.phase = phase]
<1>4. Swapped(w, c, e) /\ Others(w, c) /\ e \in hands'[w] /\ Moved(c, e) /\ e.phase = phase
  BY <1>3, GoingSwaps
<1> HIDE DEF e
<1>5. Calls(w, c, e) /\ e.phase # "reached"
  BY <1>1, <1>3, <1>4 DEF Calls
<1> QED
  BY <1>1, <1>2, <1>4, <1>5, CallDelivers

LEMMA NotingDelivers ==
  ASSUME Inv, Inv', Delivering, NEW w \in Workers, NEW c \in hands[w], NoteUnreachable(w, c)
  PROVE  Delivering'
<1>1. /\ c.phase = "unreachable" /\ Goes(w, c, "noted")
      /\ UNCHANGED <<rows, bookings, clock, told, faults, waits, acts>>
  BY DEF NoteUnreachable
<1>2. MoreTyped'
  BY <1>1 DEF NoteUnreachable, Delivering, MoreTyped
<1> DEFINE e == [c EXCEPT !.phase = "noted"]
<1>3. Swapped(w, c, e) /\ Others(w, c) /\ e \in hands'[w] /\ Moved(c, e) /\ e.phase = "noted"
  BY <1>1, GoingSwaps
<1> HIDE DEF e
<1>4. Calls(w, c, e) /\ e.phase # "reached"
  BY <1>1, <1>3 DEF Calls
<1> QED
  BY <1>1, <1>2, <1>3, <1>4, CallDelivers

(***************************************************************************)
(* Recording an outcome.  What is opened once more has an attempt left, no *)
(* earlier hour than its words allow, and nobody else has it in hand.      *)
(***************************************************************************)

\* The row as an outcome of c leaves it.
Outcome(c, row) ==
  /\ row.words = rows[c.message].words /\ row.state # "absent" /\ row.due \in Int
  /\ row.attempts \in Nat /\ row.attempts <= MaxAttempts + faults
  /\ row.state = "waiting" => row.attempts < MaxAttempts + faults /\ clock <= row.due
  /\ c.phase = "accepted" => row.state = "sent"

LEMMA OutcomeDelivers ==
  ASSUME Inv, Inv', Delivering, NEW w \in Workers, NEW c \in hands[w], NEW e, NEW row,
         Recorded(c, row), StillClaimed(c) => Outcome(c, row),
         Moved(c, e), Swapped(w, c, e), Others(w, c), e.phase = "reached",
         e \in hands'[w] /\ StillClaimed(c) => row.state = "sent",
         UNCHANGED <<bookings, clock, told, faults, waits, acts>>,
         guests' \in [Bookings -> [opted_in : BOOLEAN, reachable : BOOLEAN]]
  PROVE  Delivering'
<1>1. /\ c.message \in Messages /\ c.words.version \in Versions /\ c.words.start \in Nat
      /\ c.at \in Nat /\ clock \in Nat /\ RemindAhead \in Nat
      /\ \A v \in Workers : \A d \in hands[v] : d.message \in Messages /\ ClaimHolds(d)
      /\ rows \in [Messages -> RowType]
  BY ClaimIsTyped, OutboxAssumption DEF Delivering, ClaimsHold, Inv, Typed
<1>2. /\ \A m \in Messages : m # c.message => rows'[m] = rows[m]
      /\ ~StillClaimed(c) => rows' = rows
      /\ StillClaimed(c) => rows'[c.message] = row
  BY <1>1 DEF Recorded
\* What is claimed still is open for the words of the claim, and only for them.
<1>3. StillClaimed(c) => /\ rows[c.message].words = c.words
                         /\ Open(c.message, c.words.version) /\ c.phase # "reached"
  BY <1>1 DEF Inv, ClaimsHaveTheWords, StillClaimed, Open, ClaimHolds
\* A row is opened for no words it was not open for.
<1>4. ASSUME NEW m \in Messages, NEW v, Open(m, v)'
      PROVE  /\ Open(m, v)
             /\ rows'[m] # rows[m] => m = c.message /\ v = c.words.version /\ StillClaimed(c)
                                      /\ rows'[m] = row /\ Outcome(c, row)
  BY <1>2, <1>3, <1>4 DEF Open, Outcome
<1>5. ClaimsHold'
  <2> SUFFICES ASSUME NEW v \in Workers, NEW d \in hands'[v] PROVE ClaimHolds(d)'
    BY DEF ClaimsHold
  <2> DEFINE o == IF d \in hands[v] /\ ~(v = w /\ d = c) THEN d ELSE c
  <2>1. ClaimHolds(o) /\ o.message \in Messages /\ Moved(o, d)
    BY <1>1 DEF Moved, Swapped
  <2>2. rows'[d.message].state # "absent"
    BY <2>1, <1>2 DEF ClaimHolds, Outcome, Moved
  <2>3. ASSUME Open(d.message, d.words.version)'
        PROVE  StillClaimed(d)' /\ d.phase # "reached"
    <3>1. CASE d \in hands[v] /\ ~(v = w /\ d = c)
      <4>1. d.message \in Messages /\ ClaimHolds(d)
        BY <3>1, <1>1
      <4>2. ~(d.message = c.message /\ d.words.version = c.words.version)
        BY <3>1 DEF Delivering, OneClaimEach, Same
      <4>3. Open(d.message, d.words.version) /\ rows'[d.message] = rows[d.message]
        BY <4>1, <4>2, <2>3, <1>4
      <4> QED
        BY <4>1, <4>3 DEF ClaimHolds, StillClaimed
    <3>2. CASE v = w /\ d = e
      <4>1. d.message = c.message /\ d.words.version = c.words.version
        BY <3>2 DEF Moved
      <4>2. Open(c.message, c.words.version)
        BY <4>1, <2>3, <1>1, <1>4
      <4>3. StillClaimed(c)
        BY <4>2, <1>1 DEF ClaimHolds
      <4>4. rows'[c.message].state = "sent"
        BY <4>3, <3>2, <1>2
      <4> QED
        BY <4>1, <4>4, <2>3 DEF Open
    <3> QED
      BY <3>1, <3>2 DEF Swapped
  <2> HIDE DEF o
  <2> QED
    BY <2>1, <2>2, <2>3 DEF ClaimHolds, Moved
<1>6. OneClaimEach'
  BY SwappingKeepsOne DEF Delivering
<1>7. RowsHold'
  <2> SUFFICES ASSUME NEW m \in Messages PROVE RowHolds(m)'
    BY DEF RowsHold
  <2>1. RowHolds(m)
    BY DEF Delivering, RowsHold
  <2>2. CASE rows'[m] = rows[m]
    <3>1. Unclaimed(m)' => Unclaimed(m) \/ (m = c.message /\ StillClaimed(c))
      BY <2>2 DEF Unclaimed, Others, StillClaimed
    <3>2. Unclaimed(m)' /\ rows[m].state = "waiting" => rows[m].attempts < MaxAttempts + faults
      BY <3>1, <2>1, <2>2, <1>2 DEF RowHolds, Outcome
    <3> QED
      BY <3>2, <2>1, <2>2 DEF RowHolds
  <2>3. CASE rows'[m] # rows[m]
    <3>1. m = c.message /\ StillClaimed(c) /\ rows'[m] = row /\ Outcome(c, row)
      BY <2>3, <1>2
    <3>2. /\ rows[m].words = c.words /\ rows[m].state = "waiting"
          /\ Kind[m] = "reminder" => c.words.start - RemindAhead <= c.at
          /\ c.at <= clock
      BY <3>1, <1>1, <1>3 DEF StillClaimed, ClaimHolds
    <3>3. Kind[m] = "reminder" /\ row.state = "waiting" => c.words.start - RemindAhead <= row.due
      BY <3>1, <3>2, <1>1 DEF Outcome
    <3> QED
      BY <3>1, <3>2, <3>3, <2>1 DEF RowHolds, Outcome
  <2> QED
    BY <2>2, <2>3
<1>8. Counted'
  <2> SUFFICES ASSUME NEW m \in Messages, NEW v \in Versions
               PROVE  /\ MayArrive(m, v)' => MayArrive(m, v)
                      /\ rows[m].state # "absent" => rows'[m].state # "absent"
    BY DEF Delivering, Counted
  <2>1. rows[m].state # "absent" => rows'[m].state # "absent"
    BY <1>2 DEF Outcome
  <2>2. CASE \E u \in Workers : \E d \in hands'[u] : IsOf(d, m, v) /\ d.phase = "claimed"
    BY <2>1, <2>2 DEF MayArrive, Swapped
  <2>3. CASE /\ Open(m, v)'
             /\ \A u \in Workers : \A d \in hands'[u] : IsOf(d, m, v) => d.phase # "accepted"
    <3>1. Open(m, v)
      BY <2>3, <1>4
    <3>2. ASSUME NEW u \in Workers, NEW d \in hands[u], IsOf(d, m, v) PROVE d.phase # "accepted"
      <4>1. CASE d \in hands'[u]
        BY <4>1, <3>2, <2>3
      <4>2. CASE d = c
        <5>1. StillClaimed(c)
          BY <4>2, <3>1, <3>2, <1>1 DEF IsOf, ClaimHolds
        <5>2. rows'[c.message] = row /\ row.state = "waiting"
          BY <5>1, <4>2, <3>2, <2>3, <1>2 DEF IsOf, Open
        <5> QED
          BY <5>1, <5>2, <4>2 DEF Outcome
      <4> QED
        BY <4>1, <4>2 DEF Others
    <3> QED
      BY <3>1, <3>2, <2>1 DEF MayArrive
  <2> QED
    BY <2>1, <2>2, <2>3 DEF MayArrive
<1>9. MoreTyped'
  BY DEF Delivering, MoreTyped
<1> QED
  BY <1>5, <1>6, <1>7, <1>8, <1>9 DEF Delivering

LEMMA LetGoDelivers ==
  ASSUME Inv, Inv', Delivering, NEW w \in Workers, NEW c \in hands[w], NEW row,
         Recorded(c, row), StillClaimed(c) => Outcome(c, row), LetGo(w, c),
         UNCHANGED <<bookings, clock, told, faults, waits, acts>>,
         guests' \in [Bookings -> [opted_in : BOOLEAN, reachable : BOOLEAN]]
  PROVE  Delivering'
<1> DEFINE e == [c EXCEPT !.phase = "reached"]
<1>1. Moved(c, e) /\ e.phase = "reached"
  BY ClaimIsTyped DEF Moved, ClaimType
<1> HIDE DEF e
<1>2. Swapped(w, c, e) /\ Others(w, c)
  BY LettingGoSwaps
<1>3. e \notin hands'[w]
  <2>1. hands'[w] = hands[w] \ {c}
    BY DEF LetGo, Inv, Typed
  <2>2. e \in hands[w] => e = c
    BY <1>1 DEF Moved, Same, Delivering, OneClaimEach
  <2> QED
    BY <2>1, <2>2
<1> QED
  BY <1>1, <1>2, <1>3, OutcomeDelivers

LEMMA MarkingDelivers ==
  ASSUME Inv, Inv', Delivering, NEW w \in Workers, NEW c \in hands[w], MarkSent(w, c)
  PROVE  Delivering'
<1> DEFINE e   == [c EXCEPT !.phase = "reached"]
           row == [rows[c.message] EXCEPT !.state = "sent"]
<1>1. /\ Recorded(c, row) /\ Goes(w, c, "reached")
      /\ UNCHANGED <<bookings, guests, clock, told, faults, waits, acts>>
  BY DEF MarkSent
<1>2. Swapped(w, c, e) /\ Others(w, c) /\ Moved(c, e) /\ e.phase = "reached"
  BY <1>1, GoingSwaps
<1>3. rows[c.message] \in RowType /\ RowHolds(c.message)
  BY ClaimIsTyped, RowIsTyped DEF Delivering, RowsHold
<1>4. row.state = "sent" /\ Outcome(c, row)
  BY <1>3 DEF RowType, RowHolds, Outcome
<1>5. guests' \in [Bookings -> [opted_in : BOOLEAN, reachable : BOOLEAN]]
  BY <1>1 DEF Delivering, MoreTyped
<1> HIDE DEF e, row
<1> QED
  BY <1>1, <1>2, <1>4, <1>5, OutcomeDelivers

\* A claim of the row is of the words the row has, so a delivery that has
\* reached the guest is of a row that was settled or rewritten since.
LEMMA ReachingDelivers ==
  ASSUME Inv, Inv', Delivering, NEW w \in Workers, NEW c \in hands[w], NoteReachable(w, c)
  PROVE  Delivering'
<1>1. /\ c.phase = "reached" /\ LetGo(w, c)
      /\ UNCHANGED <<rows, bookings, clock, told, faults, waits, acts>>
  BY DEF NoteReachable
<1>2. ~StillClaimed(c)
  BY <1>1 DEF Inv, ClaimsHaveTheWords, Delivering, ClaimsHold, ClaimHolds, Open, StillClaimed
<1>3. Recorded(c, rows[c.message])
  BY <1>1 DEF Recorded, Inv, Typed
<1>4. guests' \in [Bookings -> [opted_in : BOOLEAN, reachable : BOOLEAN]]
  BY DEF NoteReachable, Delivering, MoreTyped
<1> QED
  BY <1>1, <1>2, <1>3, <1>4, LetGoDelivers

LEMMA GivingUpDelivers ==
  ASSUME Inv, Inv', Delivering, NEW w \in Workers, NEW c \in hands[w], GiveUp(w, c)
  PROVE  Delivering'
<1> DEFINE row == [rows[c.message] EXCEPT !.state = "gave_up"]
<1>1. /\ Recorded(c, row) /\ LetGo(w, c) /\ c.phase # "accepted"
      /\ UNCHANGED <<bookings, guests, clock, told, faults, waits, acts>>
  BY DEF GiveUp
<1>2. rows[c.message] \in RowType /\ RowHolds(c.message)
  BY ClaimIsTyped, RowIsTyped DEF Delivering, RowsHold
<1>3. Outcome(c, row)
  BY <1>1, <1>2 DEF RowType, RowHolds, Outcome
<1>4. guests' \in [Bookings -> [opted_in : BOOLEAN, reachable : BOOLEAN]]
  BY <1>1 DEF Delivering, MoreTyped
<1> HIDE DEF row
<1> QED
  BY <1>1, <1>3, <1>4, LetGoDelivers

LEMMA DeferringDelivers ==
  ASSUME Inv, Inv', Delivering, NEW w \in Workers, NEW c \in hands[w], Defer(w, c)
  PROVE  Delivering'
<1> DEFINE moment == clock + Backoff[c.attempts]
           row    == [rows[c.message] EXCEPT !.due = moment]
<1>1. /\ Recorded(c, row) /\ LetGo(w, c) /\ c.phase = "failed" /\ c.attempts < MaxAttempts
      /\ UNCHANGED <<bookings, guests, clock, told, faults, waits, acts>>
  BY OutboxAssumption, ClaimIsTyped DEF Defer, LastAttempt
<1>2. /\ rows[c.message] \in RowType /\ RowHolds(c.message) /\ clock \in Nat
      /\ c.attempts \in 1 .. MaxAttempts /\ MaxAttempts \in Nat /\ faults \in Nat
  <2>1. c.message \in Messages /\ c.attempts \in Nat \ {0} /\ MaxAttempts \in Nat
    BY ClaimIsTyped, OutboxAssumption
  <2>2. c.attempts \in 1 .. MaxAttempts
    BY <2>1, <1>1
  <2>3. rows[c.message] \in RowType /\ RowHolds(c.message)
    BY <2>1, RowIsTyped DEF Delivering, RowsHold
  <2> QED
    BY <2>1, <2>2, <2>3 DEF Delivering, MoreTyped, Inv, Typed
<1>3. moment \in Int /\ clock <= moment
  BY <1>2, OutboxAssumption
<1> HIDE DEF moment
<1>4. /\ row.words = rows[c.message].words /\ row.state = rows[c.message].state
      /\ row.attempts = rows[c.message].attempts /\ row.due = moment
  BY <1>2 DEF RowType
<1> HIDE DEF row
<1>5. ASSUME StillClaimed(c) PROVE Outcome(c, row)
  <2>1. row.attempts \in Nat /\ row.attempts < MaxAttempts /\ row.state = "waiting"
    BY <1>1, <1>2, <1>4, <1>5 DEF StillClaimed
  <2> QED
    BY <2>1, <1>1, <1>2, <1>3, <1>4 DEF Outcome
<1>6. guests' \in [Bookings -> [opted_in : BOOLEAN, reachable : BOOLEAN]]
  BY <1>1 DEF Delivering, MoreTyped
<1> QED
  BY <1>1, <1>5, <1>6, LetGoDelivers

LEMMA PostponingDelivers ==
  ASSUME Inv, Inv', Delivering, NEW w \in Workers, NEW c \in hands[w], Postpone(w, c)
  PROVE  Delivering'
<1>1. PICK wait \in RetryAfter :
        Recorded(c, [rows[c.message] EXCEPT !.due = clock + wait,
                                            !.attempts = IF @ > 0 THEN @ - 1 ELSE 0])
  BY DEF Postpone
<1> DEFINE n   == IF rows[c.message].attempts > 0 THEN rows[c.message].attempts - 1 ELSE 0
           row == [rows[c.message] EXCEPT !.due = clock + wait, !.attempts = n]
<1>2. /\ Recorded(c, row) /\ LetGo(w, c) /\ c.phase = "limited"
      /\ UNCHANGED <<bookings, guests, clock, told, faults, waits, acts>>
  BY <1>1 DEF Postpone
<1>3. /\ rows[c.message] \in RowType /\ RowHolds(c.message) /\ clock \in Nat /\ wait \in Nat
      /\ MaxAttempts \in Nat \ {0} /\ faults \in Nat /\ rows[c.message].attempts \in Nat
  <2>1. c.message \in Messages
    BY ClaimIsTyped
  <2>2. /\ rows[c.message] \in RowType /\ rows[c.message].attempts \in Nat
        /\ RowHolds(c.message)
    BY <2>1, RowIsTyped DEF Delivering, RowsHold
  <2> QED
    BY <2>2, OutboxAssumption DEF Delivering, MoreTyped, Inv, Typed
<1>4. /\ n \in Nat /\ n <= rows[c.message].attempts
      /\ 0 < rows[c.message].attempts => n < rows[c.message].attempts
  BY <1>3
<1> HIDE DEF n
<1>5. /\ row.words = rows[c.message].words /\ row.state = rows[c.message].state
      /\ row.attempts = n /\ row.due = clock + wait
  BY <1>3 DEF RowType
<1> HIDE DEF row
<1>6. ASSUME StillClaimed(c) PROVE Outcome(c, row)
  <2>1. rows[c.message].state = "waiting" /\ 0 < rows[c.message].attempts
    BY <1>6, ClaimIsTyped DEF StillClaimed
  <2>2. n < MaxAttempts + faults
    BY <2>1, <1>3, <1>4 DEF RowHolds
  <2> QED
    BY <2>1, <2>2, <1>2, <1>3, <1>4, <1>5 DEF Outcome
<1>7. guests' \in [Bookings -> [opted_in : BOOLEAN, reachable : BOOLEAN]]
  BY <1>2 DEF Delivering, MoreTyped
<1> QED
  BY <1>2, <1>6, <1>7, LetGoDelivers

\* A failure allows one attempt and one arrival more.
LEMMA FailingDelivers ==
  ASSUME Inv, Inv', Delivering, NEW w \in Workers, Fails(w)
  PROVE  Delivering'
<1>1. /\ faults < MaxFaults /\ faults' = faults + 1
      /\ UNCHANGED <<rows, bookings, guests, clock, told, waits, acts>>
  BY DEF Fails, Crash, LoseRecord
<1>2. \A v \in Workers : hands'[v] \subseteq hands[v]
  BY DEF Fails, Crash, LoseRecord, LetGo, Inv, Typed
<1>3. /\ faults \in Nat /\ MaxAttempts \in Nat /\ MoreTyped'
      /\ \A n \in Nat : n <= MaxAttempts + faults
                        => n <= MaxAttempts + faults' /\ n < MaxAttempts + faults'
  BY <1>1, OutboxAssumption DEF Delivering, MoreTyped
<1>4. ClaimsHold'
  <2> SUFFICES ASSUME NEW v \in Workers, NEW d \in hands'[v] PROVE ClaimHolds(d)'
    BY DEF ClaimsHold
  <2>1. ClaimHolds(d) /\ d.attempts \in Nat
    BY <1>2, ClaimIsTyped DEF Delivering, ClaimsHold
  <2> QED
    BY <2>1, <1>1, <1>3 DEF ClaimHolds, Open, StillClaimed
<1>5. OneClaimEach'
  BY <1>2 DEF Delivering, OneClaimEach, Same
<1>6. RowsHold'
  <2> SUFFICES ASSUME NEW m \in Messages PROVE RowHolds(m)'
    BY DEF RowsHold
  <2>1. RowHolds(m) /\ rows[m].attempts \in Nat
    BY RowIsTyped DEF Delivering, RowsHold
  <2> QED
    BY <2>1, <1>1, <1>3 DEF RowHolds
<1>7. Counted'
  <2> SUFFICES ASSUME NEW m \in Messages, NEW v \in Versions
               PROVE  /\ told[m][v] <= faults'
                      /\ told[m][v] # 0 => /\ rows[m].state # "absent"
                                           /\ v <= bookings[About[m]].version
    BY <1>1, <1>3 DEF Counted, Inv, Typed
  <2>1. told[m][v] \in Nat
    BY DEF Inv, Typed
  <2> QED
    BY <2>1, <1>1, <1>3 DEF Delivering, Counted
<1> QED
  BY <1>3, <1>4, <1>5, <1>6, <1>7 DEF Delivering

LEMMA TickDelivers ==
  ASSUME Inv, Inv', Delivering, Tick
  PROVE  Delivering'
<1>1. /\ clock' = clock + 1 /\ clock \in Nat
      /\ UNCHANGED <<rows, bookings, guests, hands, told, faults, waits, acts>>
      /\ \A w \in Workers : \A c \in hands[w] : clock < c.at + Patience
  BY DEF Tick, Inv, Typed
<1>2. ClaimsHold'
  <2> SUFFICES ASSUME NEW w \in Workers, NEW c \in hands[w] PROVE ClaimHolds(c)'
    BY <1>1 DEF ClaimsHold
  <2>1. ClaimHolds(c) /\ c.at \in Nat /\ clock < c.at + Patience /\ Patience \in Nat
    BY <1>1, ClaimIsTyped, OutboxAssumption DEF Delivering, ClaimsHold
  <2>2. c.at <= clock + 1 /\ clock + 1 <= c.at + Patience
    BY <2>1, <1>1 DEF ClaimHolds
  <2> QED
    BY <2>1, <2>2, <1>1 DEF ClaimHolds, Open, StillClaimed
<1>3. OneClaimEach' /\ RowsHold' /\ Counted' /\ MoreTyped'
  BY <1>1 DEF Delivering, OneClaimEach, Same, RowsHold, RowHolds, Unclaimed, StillClaimed,
              Counted, MayArrive, Open, IsOf, MoreTyped
<1> QED
  BY <1>2, <1>3 DEF Delivering

LEMMA StepDelivers == Inv /\ Inv' /\ Delivering /\ [Next]_vars => Delivering'
<1> SUFFICES ASSUME Inv, Inv', Delivering, [Next]_vars PROVE Delivering'
  OBVIOUS
<1>1. CASE \E i \in Bookings : BarActs(i)
  BY <1>1, BarDelivers
<1>2. CASE \E w \in Workers : Claim(w)
  BY <1>2, ClaimDelivers
<1>3. CASE \E w \in Workers : Deliver(w)
  BY <1>3, SendDelivers, MarkingDelivers, ReachingDelivers, NotingDelivers, GivingUpDelivers,
     DeferringDelivers, PostponingDelivers DEF Deliver, Delivers
<1>4. CASE \E w \in Workers : Fails(w)
  BY <1>4, FailingDelivers
<1>5. CASE Tick
  BY <1>5, TickDelivers
<1>6. CASE UNCHANGED vars
  BY <1>6 DEF vars, Delivering, ClaimsHold, ClaimHolds, OneClaimEach, Same, RowsHold, RowHolds,
              Unclaimed, StillClaimed, Counted, MayArrive, Open, IsOf, MoreTyped
<1> QED
  BY <1>1, <1>2, <1>3, <1>4, <1>5, <1>6 DEF Next

LEMMA AllHolds == Spec => [](Inv /\ Delivering)
<1>1. Init => Inv /\ Delivering
  BY InitHolds, InitDelivers
<1>2. Inv /\ Delivering /\ [Next]_vars => (Inv /\ Delivering)'
  BY StepKeeps, StepDelivers
<1> QED
  BY <1>1, <1>2, PTL DEF Spec

(***************************************************************************)
(* Every row and every claim stays in its type: with every crash and every *)
(* lost answer a row is tried at most once more than MAX_ATTEMPTS, however *)
(* often it is postponed, deferred or claimed again (notifications.rs,     *)
(* claim_due and the outcomes of a delivery).                              *)
(***************************************************************************)
THEOREM OutboxIsTyped == Spec => []TypeOK
<1>1. Inv /\ Delivering => TypeOK
  <2> SUFFICES ASSUME Inv, Delivering PROVE TypeOK
    OBVIOUS
  <2>1. /\ MaxAttempts \in Nat /\ MaxFaults \in Nat /\ Lease \in Nat
        /\ faults \in Nat /\ faults <= MaxFaults
    BY OutboxAssumption DEF Delivering, MoreTyped
  <2>2. rows \in [Messages -> Rows]
    <3>1. ASSUME NEW m \in Messages PROVE rows[m] \in Rows
      <4>1. rows[m] \in RowType /\ rows[m].attempts <= MaxAttempts + faults
        BY RowIsTyped DEF Delivering, RowsHold, RowHolds
      <4>2. rows[m].attempts \in Attempts
        BY <4>1, <2>1 DEF RowType, Attempts
      <4> QED
        BY <4>1, <4>2 DEF RowType, Rows
    <3> QED
      BY <3>1 DEF Inv, Typed
  <2>3. hands \in [Workers -> SUBSET Claims]
    <3>1. ASSUME NEW w \in Workers, NEW c \in hands[w] PROVE c \in Claims
      <4>1. /\ c \in ClaimType /\ c.attempts \in Nat \ {0}
            /\ c.attempts <= MaxAttempts + faults /\ c.lease = c.at + Lease /\ c.at \in Nat
        BY ClaimIsTyped DEF Delivering, ClaimsHold, ClaimHolds
      <4>2. c.attempts \in Attempts \ {0} /\ c.lease \in Nat
        BY <4>1, <2>1 DEF Attempts
      <4> QED
        BY <4>1, <4>2 DEF ClaimType, Claims
    <3> QED
      BY <3>1 DEF Inv, Typed
  <2> QED
    BY <2>1, <2>2, <2>3 DEF TypeOK, Inv, Typed, Delivering, MoreTyped
<1> QED
  BY <1>1, AllHolds, PTL

(***************************************************************************)
(* No reminder is sent before its hour, whatever an earlier delivery of it *)
(* comes to after the bar moved its booking (notifications.rs, claim_due   *)
(* and the outcomes bound to a claim).                                     *)
(***************************************************************************)
THEOREM RemindersWait == Spec => []NoReminderEarly
<1>1. Delivering => NoReminderEarly
  BY DEF Delivering, ClaimsHold, ClaimHolds, NoReminderEarly
<1> QED
  BY <1>1, AllHolds, PTL

(***************************************************************************)
(* No words reach a guest more often than once and once for every fault,   *)
(* with however many workers, as long as a delivery is over before its     *)
(* lease is (notifications.rs, CLAIM_LEASE).                               *)
(***************************************************************************)
THEOREM WordsArriveOnce == Spec => []TwiceOnlyAfterFault
<1>1. Delivering => TwiceOnlyAfterFault
  BY DEF Delivering, Counted, TwiceOnlyAfterFault
<1> QED
  BY <1>1, AllHolds, PTL
=============================================================================
