------------------------------- MODULE MCRoom -------------------------------
(***************************************************************************)
(* Values of the constants of Room for TLC.                                *)
(***************************************************************************)
EXTENDS Room, TLC

\* One evening: open from 1 to 4, a turn of 2, an arrival every unit.
OneMidnight == [d \in 0 .. 0 |-> 0]

\* No clock jumps; they skip the third unit of the evening; they repeat the second
\* of the first evening.
Steady == [d \in Days |-> [at |-> 1, by |-> 0]]
Spring == [d \in Days |-> [at |-> 3, by |-> 1]]
Autumn == [d \in Days |-> [at |-> 3, by |-> IF d = 0 THEN -1 ELSE 0]]

Evening(open, close) == [open_minutes |-> open, close_minutes |-> close, closed |-> FALSE]

Rules(tables, week, max) ==
  [tables |-> tables, week |-> week, turn_minutes |-> 2, slot_step_minutes |-> 1,
   max_party |-> max, horizon_days |-> 1, remind_hours |-> 1, grace_minutes |-> 1]

Room12 == [t \in {1, 2} |-> [seats |-> t, retired |-> FALSE]]
OneWeek == [d \in 0 .. 0 |-> Evening(1, 4)]

SeatingConfig == Rules(Room12, OneWeek, 2)

\* The table for one is taken out of the room, or brought back with closing an
\* hour earlier; no seat is ever taken from a table.
WholeRoom == (1 :> 1) @@ (2 :> 2)
SettingDrafts == {Rules(2 :> 2, OneWeek, 2),
                  Rules(WholeRoom, [d \in 0 .. 0 |-> Evening(1, 3)], 2)}
\* Also the larger table loses a seat.
ShrinkingDrafts == SettingDrafts \cup {Rules((1 :> 1) @@ (2 :> 1), OneWeek, 1)}

\* Two tables for one.
TwinRoom == [t \in {1, 2} |-> [seats |-> 1, retired |-> FALSE]]

\* Two evenings, of two arrivals and of one, at two tables; a turn of one unit;
\* no reminders.
TwoMidnights == [d \in 0 .. 1 |-> 4 * d]
HoldingConfig ==
  [Rules(TwinRoom, [d \in 0 .. 1 |-> Evening(1, 3 - d)], 1)
     EXCEPT !.turn_minutes = 1, !.horizon_days = 2, !.remind_hours = 9]

\* One evening of three arrivals, the second of which the clocks skip, reminders
\* one unit ahead, a table for two.
MessageConfig ==
  [Rules([t \in {1} |-> [seats |-> 2, retired |-> FALSE]], [d \in 0 .. 0 |-> Evening(2, 5)], 2)
     EXCEPT !.turn_minutes = 1]

\* Identities are random and only break ties, so rows may be inserted in
\* their order: the other orders are the same states under other names.
InOrder ==
  \A i, j \in Ids : i < j /\ bookings[i].status = "absent" => bookings[j].status = "absent"

OpenInOrder == InOrder /\ blocks = {}

\* Only the larger table is ever closed for the evening, and not when the clock stops.
OneClosed == InOrder /\ blocks \subseteq IF clock = MaxTime THEN {} ELSE {<<2, 0>>}

\* Every row is a guest's.
OnlyGuests == \A i \in Ids : bookings[i].status = "absent" \/ bookings[i].user \in Guests
GuestsInOrder == InOrder /\ OnlyGuests
GuestsUnblocked == GuestsInOrder /\ blocks = {}
\* The room without its outbox, which no action of the room reads: states
\* that differ in it alone have the same future.
WithoutMessages == <<bookings, blocks, config, clock, promise, lost>>

\* Nobody reads a cancelled row again: states that differ in its columns alone
\* have the same future.
WithoutCancelled ==
  <<[i \in Ids |-> IF bookings[i].status = "cancelled" THEN "cancelled" ELSE bookings[i]],
    blocks, config, clock, lost>>

\* Before anything is marked: plans and cancellations of guests and, on the first
\* evening, of the staff, who may close the second table then, and also the first
\* one while there are two bookings at the most.
PlansOnly ==
  /\ clock = 0
  /\ \A i \in Ids : bookings[i].status \in {"absent", "confirmed", "cancelled"}
  /\ blocks \subseteq {<<1, 0>>, <<2, 0>>}
  /\ <<1, 0>> \in blocks => <<2, 0>> \in blocks /\ bookings[3].status = "absent"
  /\ \A i \in Ids : bookings[i].status = "confirmed" /\ bookings[i].user \notin Guests =>
                      bookings[i].service_day = 0

\* Everything a guest's bookings go through, at the first table, the second being
\* closed; one of them at the most is marked at a time.
Marked(i) == bookings[i].status \notin {"absent", "confirmed", "cancelled"}
AtOneTable ==
  /\ OnlyGuests /\ blocks = {2} \X Days
  /\ \A i \in Ids : bookings[i].status = "absent" \/ bookings[i].table = 1
  /\ \A i, j \in Ids : Marked(i) /\ Marked(j) => i = j

\* The way there.
ClosingSecond ==
  clock = 0 /\ blocks \subseteq {2} \X Days /\ \A i \in Ids : bookings[i].status = "absent"

PlansOrGuest == InOrder /\ (PlansOnly \/ AtOneTable \/ ClosingSecond)
=============================================================================
