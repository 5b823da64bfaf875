----------------------------- MODULE Allocation -----------------------------
(***************************************************************************)
(* The pure rules of the room: what a booking holds, which tables are      *)
(* free, which one the room picks, what becomes of bookings whose table    *)
(* went away, and what a guest's new booking does to the ones they hold.   *)
(* This is the Rust crate pustol-domain without its calendar (module       *)
(* ServiceDays) and without the settings screen (module Settings).         *)
(*                                                                         *)
(* A booking row is a record.  Rows live in a function from booking        *)
(* identities to records; a row that was never inserted has the status     *)
(* "absent".  Identities are naturals: a uuid is only ever compared.       *)
(***************************************************************************)
EXTENDS Integers

CONSTANT Tables    \* printed numbers of all tables the bar may ever have

ASSUME TablesAssumption == Tables \subseteq Nat \ {0}

NoTable == 0         \* table_id is null: an orphan
NotReleased == -1    \* left_at is null
NoGuest == "nobody"  \* telegram_user_id is null: taken by staff, or walked in

Statuses == {"absent", "confirmed", "arrived", "no_show", "left", "cancelled"}

Seats == Tables \cup {NoTable}

-----------------------------------------------------------------------------
(***************************************************************************)
(* Occupancy: the one rule from which everything below is derived.         *)
(***************************************************************************)

IsLive(b) == b.status \notin {"absent", "cancelled"}

HeldUntil(b) == IF b.released_at = NotReleased THEN b.window.end ELSE b.released_at

\* occupancy() is Some: a live booking whose range is not empty.
Occupies(b) == IsLive(b) /\ b.window.start < HeldUntil(b)

Held(b) == [start |-> b.window.start, end |-> HeldUntil(b)]

Overlaps(v, w) == v.start < w.end /\ w.start < v.end

HasStarted(b, now) == b.window.start <= now

HasFinished(b, now) == ~Occupies(b) \/ HeldUntil(b) <= now

Holds(b, t, w) == b.table = t /\ Occupies(b) /\ Overlaps(Held(b), w)

-----------------------------------------------------------------------------
(***************************************************************************)
(* Which tables are free for a request, and which one the room picks.  A   *)
(* request is a record with the fields of the code's Request: party_size,  *)
(* window, service_day, tables, bookings, blocks, ignoring.                *)
(***************************************************************************)

FreeDuring(t, w, book, ignoring) ==
  \A i \in DOMAIN book \ ignoring : ~Holds(book[i], t, w)

OpenTables(q) ==
  {t \in Tables : /\ ~q.tables[t].retired
                  /\ <<t, q.service_day>> \notin q.blocks
                  /\ FreeDuring(t, q.window, q.bookings, q.ignoring)}

FreeTables(q) == {t \in OpenTables(q) : q.party_size <= q.tables[t].seats}

\* Smallest first, ties by printed number.
PickedBefore(t, u, tables) ==
  \/ tables[t].seats < tables[u].seats
  \/ tables[t].seats = tables[u].seats /\ t < u

\* The answer of assign: the first free table, or none.
Assigned(q, t) ==
  LET free == FreeTables(q) IN
  \/ t \in free /\ \A u \in free \ {t} : PickedBefore(t, u, q.tables)
  \/ free = {} /\ t = NoTable

\* seat_of: the table staff chose when it is free, else the room's own pick.
SeatOf(q, chosen, t) ==
  /\ t \in FreeTables(q)
  /\ IF chosen = NoTable THEN Assigned(q, t) ELSE t = chosen

SeatingIsSound(b, tables, blocks) ==
  /\ b.table # NoTable
  /\ ~tables[b.table].retired
  /\ b.party_size <= tables[b.table].seats
  /\ <<b.table, b.service_day>> \notin blocks

-----------------------------------------------------------------------------
(***************************************************************************)
(* Reconciliation.  Candidates are handled one after another in order of   *)
(* arrival; each is assigned against a working copy in which the earlier   *)
(* candidates already sit at their new tables and the later ones still sit *)
(* at their old ones.  The loop is given by what it satisfies: a seating   *)
(* of all candidates in which every one has the table assign picks for it. *)
(***************************************************************************)

\* A mutation: bookings whose table went back to the room are moved too.
CandidatesEvenFinished(book, tables, blocks, now) ==
  {i \in DOMAIN book : IsLive(book[i]) /\ ~SeatingIsSound(book[i], tables, blocks)}

Candidates(book, tables, blocks, now) ==
  {i \in DOMAIN book : /\ IsLive(book[i])
                       /\ ~HasFinished(book[i], now)
                       /\ ~SeatingIsSound(book[i], tables, blocks)}

Earlier(i, j, book) ==
  \/ book[i].window.start < book[j].window.start
  \/ book[i].window.start = book[j].window.start /\ i < j

\* `book` with the bookings in `who` at the tables `seat` gives them.
Reseated(book, seat, who) ==
  [i \in DOMAIN book |->
     IF i \in who THEN [book[i] EXCEPT !.table = seat[i]] ELSE book[i]]

\* A mutation: the working copy is never written, so two candidates may be
\* given one table.
RequestAgainstOldSeats(i, seat, book, tables, blocks) ==
  [party_size  |-> book[i].party_size,
   window      |-> book[i].window,
   service_day |-> book[i].service_day,
   tables      |-> tables,
   bookings    |-> book,
   blocks      |-> blocks,
   ignoring    |-> {i}]

\* What the loop asks of assign when it comes to candidate i.
ReseatRequest(i, seat, book, tables, blocks) ==
  [party_size  |-> book[i].party_size,
   window      |-> book[i].window,
   service_day |-> book[i].service_day,
   tables      |-> tables,
   bookings    |-> Reseated(book, seat, {j \in DOMAIN seat : Earlier(j, i, book)}),
   blocks      |-> blocks,
   ignoring    |-> {i}]

\* The seatings reconcile may answer with (it answers with exactly one).
Reseatings(book, tables, blocks, now) ==
  {seat \in [Candidates(book, tables, blocks, now) -> Seats] :
     \A i \in DOMAIN seat :
        Assigned(ReseatRequest(i, seat, book, tables, blocks), seat[i])}

(***************************************************************************)
(* The exclusion constraint of the booking table: one table, one party,    *)
(* one moment, judged on the range each row really occupies.               *)
(***************************************************************************)
Exclusive(book) ==
  \A i, j \in DOMAIN book :
     i # j /\ book[i].table = book[j].table /\ book[i].table # NoTable
     => ~(Occupies(book[i]) /\ Occupies(book[j]) /\ Overlaps(Held(book[i]), Held(book[j])))

-----------------------------------------------------------------------------
(***************************************************************************)
(* Rebooking: what a new booking by the same guest does to one they hold.  *)
(* In the operators below `mine` is the set of bookings the guest holds.   *)
(***************************************************************************)

Rebooking(b, now) ==
  CASE HasFinished(b, now) -> "none"
    [] ~HasFinished(b, now) /\ b.status = "confirmed" /\ ~HasStarted(b, now) -> "any_evening"
    [] ~HasFinished(b, now) /\ b.status = "no_show" -> "same_evening"
    [] OTHER -> "none"

\* Confirmed and not yet begun.
IsPlan(b, now) == Rebooking(b, now) = "any_evening"

HoldsEvening(b, now) == ~HasFinished(b, now) /\ Rebooking(b, now) = "none"

ReplacedOn(mine, book, day, now) ==
  {i \in mine : \/ Rebooking(book[i], now) = "any_evening"
                \/ Rebooking(book[i], now) = "same_evening" /\ book[i].service_day = day}

RefusedOn(mine, book, day, now) ==
  \E i \in mine : book[i].service_day = day /\ HoldsEvening(book[i], now)

\* A mutation: only a second evening is refused, never a second plan.
ConflictOnSameEvening(mine, book, i, now) ==
  /\ i \in mine
  /\ \E j \in mine \ {i} : book[j].service_day = book[i].service_day

\* A mutation: only a second plan is refused, never a second evening.
ConflictOfPlans(mine, book, i, now) ==
  /\ i \in mine
  /\ \E j \in mine \ {i} : IsPlan(book[i], now) /\ IsPlan(book[j], now)

\* The rule booking i breaks among the running bookings `mine` of its guest.
HoldingConflict(mine, book, i, now) ==
  /\ i \in mine
  /\ \E j \in mine \ {i} :
        \/ book[j].service_day = book[i].service_day
        \/ IsPlan(book[i], now) /\ IsPlan(book[j], now)
=============================================================================
