----------------------------- MODULE RoomProofs -----------------------------
(***************************************************************************)
(* Two theorems about the room, for every set of tables, rows, guests,     *)
(* settings and drafts, every calendar that keeps shifts apart, and every  *)
(* clock reading: the type invariant, and that no table ever holds two     *)
(* parties at one moment.                                                  *)
(*                                                                         *)
(* The invariant is inductive only together with the type invariant: an    *)
(* operation compares the row it writes with the rows of its own evening   *)
(* and the neighbouring ones, and every other row is out of the way just   *)
(* because rows lie within their shifts and shifts do not overlap.         *)
(***************************************************************************)
EXTENDS Room, TLAPS, WellFoundedInduction

InShift(book) == \A i \in DOMAIN book : book[i].status # "absent" => InItsShift(book[i])

\* What every operation keeps true of the booking table.
Orderly(book) == book \in [Ids -> Row] /\ InShift(book) /\ Exclusive(book)

\* The rows with `replacing` cancelled and row written as id.
Written(book, id, row, replacing) ==
  [i \in Ids |-> IF i = id THEN row
                 ELSE IF i \in replacing THEN [book[i] EXCEPT !.status = "cancelled"]
                 ELSE book[i]]

IInv == TypeOK /\ NoDoubleBooking

-----------------------------------------------------------------------------
(***************************************************************************)
(* Rows and windows.                                                       *)
(***************************************************************************)

\* The constants as the arithmetic below needs them.
LEMMA ClockTypes ==
  /\ \A d \in Days : /\ d \in Int
                     /\ Midnight[d] \in Nat
                     /\ Jump[d].at \in Nat \ {0} /\ Jump[d].by \in Int
  /\ FirstOpen \in Nat /\ LastClose \in Nat
BY CalendarAssumption DEF Days

\* A boundary is an instant of its day, and boundaries come in order, however
\* the clocks jump.
LEMMA BoundariesInOrder ==
  ASSUME NEW d \in Days, NEW m \in Nat, NEW n \in Nat, m <= n
  PROVE  /\ ResolveBoundary(d, m) \in Nat
         /\ ResolveBoundary(d, m) <= ResolveBoundary(d, n)
BY ClockTypes DEF ResolveBoundary, PassedOn, FirstPass, Happens, Before, After

\* An arrival is shown by the clocks, and its sitting ends in the day's shift.
LEMMA ArrivalsInShift ==
  ASSUME NEW d \in Days, NEW m \in Nat, Happens(d, m),
         NEW turn \in Nat, m + turn <= LastClose
  PROVE  /\ FirstPass(d, m) = ResolveBoundary(d, m)
         /\ FirstPass(d, m) + turn <= Ends(d)
BY ClockTypes DEF ResolveBoundary, PassedOn, FirstPass, Happens, Before, After, Ends

\* So does the shift itself.
LEMMA ClosingInShift ==
  ASSUME NEW d \in Days, NEW m \in Nat, m <= LastClose
  PROVE  ResolveEnd(d, m) \in Nat /\ ResolveEnd(d, m) <= Ends(d)
<1>1. PassedOn(d, m, LastPass(d, m)) \in Nat /\ PassedOn(d, m, LastPass(d, m)) <= Ends(d)
  BY ClockTypes DEF PassedOn, LastPass, Happens, Before, After, Ends
<1>2. ResolveBoundary(d, m) \in Nat /\ ResolveBoundary(d, m) <= Ends(d)
  BY ClockTypes DEF ResolveBoundary, PassedOn, FirstPass, Happens, Before, After, Ends
<1> QED
  BY <1>1, <1>2 DEF ResolveEnd

LEMMA ShiftTypes ==
  ASSUME NEW d \in Days
  PROVE  Begins(d) \in Nat /\ Ends(d) \in Int
<1>1. Begins(d) \in Nat
  BY BoundariesInOrder, ClockTypes DEF Begins
<1>2. Ends(d) \in Int
  BY ClockTypes DEF Ends
<1> QED
  BY <1>1, <1>2

\* What a row holds lies within its window.
LEMMA HeldWithinWindow ==
  ASSUME NEW b \in Row, InItsShift(b)
  PROVE  /\ Held(b).start = b.window.start
         /\ Held(b).end <= b.window.end
         /\ Held(b).end \in Nat /\ b.window.start \in Nat /\ b.window.end \in Nat
<1>1. b.released_at = NotReleased \/ (b.released_at \in Nat /\ b.released_at <= b.window.end)
  BY DEF Row, InItsShift, NotReleased
<1>2. b.window.start \in Nat /\ b.window.end \in Nat
  BY DEF Row, Windows
<1> QED
  BY <1>1, <1>2 DEF Held, HeldUntil, NotReleased

\* Rows of different evenings are never in each other's way.
LEMMA EveningsApart ==
  ASSUME NEW a \in Row, NEW b \in Row, InItsShift(a), InItsShift(b),
         a.service_day # b.service_day
  PROVE  ~Overlaps(Held(a), Held(b))
<1> DEFINE d == a.service_day
           e == b.service_day
<1>1. d \in Days /\ e \in Days /\ d \in Int /\ e \in Int
  BY ClockTypes DEF Row
<1>2. /\ Begins(d) <= a.window.start /\ a.window.end <= Ends(d)
      /\ Begins(e) <= b.window.start /\ b.window.end <= Ends(e)
  BY DEF InItsShift
<1>3. /\ Held(a).start = a.window.start /\ Held(a).end <= a.window.end
      /\ Held(a).end \in Nat /\ a.window.start \in Nat /\ a.window.end \in Nat
  BY HeldWithinWindow
<1>4. /\ Held(b).start = b.window.start /\ Held(b).end <= b.window.end
      /\ Held(b).end \in Nat /\ b.window.start \in Nat /\ b.window.end \in Nat
  BY HeldWithinWindow
<1>5. Begins(d) \in Int /\ Ends(d) \in Int /\ Begins(e) \in Int /\ Ends(e) \in Int
  BY <1>1, ShiftTypes
<1> HIDE DEF d, e
<1>6. CASE d < e
  <2>1. Ends(d) <= Begins(e)
    BY <1>1, <1>6, ShiftsApartAssumption
  <2> QED
    BY <2>1, <1>2, <1>3, <1>4, <1>5 DEF Overlaps
<1>7. CASE e < d
  <2>1. Ends(e) <= Begins(d)
    BY <1>1, <1>7, ShiftsApartAssumption
  <2> QED
    BY <2>1, <1>2, <1>3, <1>4, <1>5 DEF Overlaps
<1>8. d # e
  BY DEF d, e
<1> QED
  BY <1>1, <1>6, <1>7, <1>8

\* A window that a row's held range lies in overlaps all that the range does.
LEMMA WiderOverlaps ==
  ASSUME NEW b \in Row, InItsShift(b), NEW v, v.start \in Int, v.end \in Int,
         Overlaps(v, Held(b))
  PROVE  Overlaps(v, b.window)
BY HeldWithinWindow DEF Overlaps

LEMMA OverlapsIsSymmetric ==
  ASSUME NEW v, NEW w
  PROVE  Overlaps(v, w) <=> Overlaps(w, v)
BY DEF Overlaps

\* A live row is a row that was inserted.
LEMMA OccupantsExist ==
  ASSUME NEW b, Occupies(b)
  PROVE  IsLive(b) /\ b.status # "absent"
BY DEF Occupies, IsLive

-----------------------------------------------------------------------------
(***************************************************************************)
(* Reconciliation keeps the booking table orderly: a candidate is assigned *)
(* against the new seats of the earlier candidates and the old seats of    *)
(* everybody else, so of any two rows at one table the later one was       *)
(* compared with the earlier one where it now sits.                        *)
(***************************************************************************)

\* Changing the tables of some rows changes nothing else about them.
LEMMA ReseatedRow ==
  ASSUME NEW book, book \in [Ids -> Row],
         NEW seat, NEW who, who \subseteq Ids, seat \in [who -> Seats],
         NEW new, new = Reseated(book, seat, DOMAIN seat),
         NEW i, i \in Ids
  PROVE  /\ new[i] \in Row
         /\ new[i].table = IF i \in who THEN seat[i] ELSE book[i].table
         /\ new[i].status = book[i].status
         /\ new[i].service_day = book[i].service_day
         /\ new[i].window = book[i].window
         /\ Held(new[i]) = Held(book[i])
         /\ Occupies(new[i]) <=> Occupies(book[i])
         /\ InItsShift(new[i]) <=> InItsShift(book[i])
<1>1. CASE i \in who
  <2>1. new[i] = [book[i] EXCEPT !.table = seat[i]] /\ seat[i] \in Seats /\ book[i] \in Row
    BY <1>1 DEF Reseated
  <2>2. /\ new[i] \in Row /\ new[i].table = seat[i]
        /\ new[i].status = book[i].status
        /\ new[i].service_day = book[i].service_day
        /\ new[i].window = book[i].window
        /\ new[i].released_at = book[i].released_at
    BY <2>1 DEF Row
  <2> QED
    BY <1>1, <2>2 DEF Held, HeldUntil, Occupies, IsLive, InItsShift
<1>2. CASE i \notin who
  BY <1>2 DEF Reseated
<1> QED
  BY <1>1, <1>2

LEMMA ReseatedRows ==
  ASSUME NEW book, book \in [Ids -> Row], InShift(book),
         NEW seat, NEW who, who \subseteq Ids, seat \in [who -> Seats]
  PROVE  /\ Reseated(book, seat, DOMAIN seat) \in [Ids -> Row]
         /\ InShift(Reseated(book, seat, DOMAIN seat))
<1> SUFFICES ASSUME NEW new, new = Reseated(book, seat, DOMAIN seat)
             PROVE  new \in [Ids -> Row] /\ InShift(new)
  OBVIOUS
<1>1. \A i \in Ids : new[i] \in Row
  BY ReseatedRow
<1>2. \A i \in Ids : /\ new[i].status = book[i].status
                     /\ InItsShift(new[i]) <=> InItsShift(book[i])
  BY ReseatedRow
<1>3. new \in [Ids -> Row]
  BY <1>1 DEF Reseated
<1> QED
  BY <1>2, <1>3 DEF InShift

\* The row of an earlier party, or of one that was not moved, does not share
\* a table with the row of a candidate.
LEMMA CandidateApart ==
  ASSUME NEW book \in [Ids -> Row], InShift(book),
         NEW loaded \in SUBSET Ids,
         \A i \in loaded : \A j \in Ids :
            IsLive(book[j]) /\ book[j].service_day = book[i].service_day => j \in loaded,
         NEW tables, NEW closed, NEW now,
         NEW seat \in Reseatings([i \in loaded |-> book[i]], tables, closed, now),
         NEW i \in Ids, NEW j \in DOMAIN seat, i # j,
         i \in DOMAIN seat => Earlier(i, j, book),
         NEW new, new = Reseated(book, seat, DOMAIN seat),
         new[i].table = new[j].table, new[j].table # NoTable,
         Occupies(new[i]), Occupies(new[j]), Overlaps(Held(new[i]), Held(new[j]))
  PROVE  FALSE
<1> DEFINE sub == [k \in loaded |-> book[k]]
           who == Candidates(sub, tables, closed, now)
           q == ReseatRequest(j, seat, sub, tables, closed)
           sat == {k \in DOMAIN seat : Earlier(k, j, sub)}
           working == Reseated(sub, seat, sat)
<1>1. seat \in [who -> Seats] /\ who \subseteq loaded /\ DOMAIN seat = who
  BY DEF Reseatings, Candidates
<1>2. j \in loaded /\ j \in Ids
  BY <1>1
<1>3. /\ new \in [Ids -> Row] /\ InShift(new)
      /\ \A k \in Ids : /\ new[k].table = IF k \in who THEN seat[k] ELSE book[k].table
                        /\ Held(new[k]) = Held(book[k])
                        /\ Occupies(new[k]) <=> Occupies(book[k])
                        /\ new[k].service_day = book[k].service_day
                        /\ new[k].window = book[k].window
  <2>1. who \subseteq Ids
    BY <1>1
  <2> HIDE DEF who
  <2> QED
    BY <2>1, <1>1, ReseatedRow, ReseatedRows
<1>4. InItsShift(new[i]) /\ InItsShift(new[j]) /\ InItsShift(book[i]) /\ InItsShift(book[j])
  <2>1. DOMAIN new = Ids /\ DOMAIN book = Ids
    BY <1>3
  <2>2. new[i].status # "absent" /\ new[j].status # "absent"
    BY OccupantsExist
  <2>3. book[i].status # "absent" /\ book[j].status # "absent"
    BY <1>2, <1>3, OccupantsExist
  <2> QED
    BY <2>1, <2>2, <2>3, <1>2, <1>3 DEF InShift
<1>5. new[i].service_day = new[j].service_day
  <2>1. new[i] \in Row /\ new[j] \in Row
    BY <1>2, <1>3
  <2> QED
    BY <2>1, <1>4, EveningsApart
<1>6. i \in loaded
  <2>1. IsLive(book[i])
    BY <1>3, OccupantsExist
  <2> QED
    BY <2>1, <1>2, <1>3, <1>5
<1>7. seat[j] = new[j].table /\ seat[j] # NoTable
  BY <1>1, <1>2, <1>3
<1>8. seat[j] \in FreeTables(q)
  <2>1. Assigned(q, seat[j])
    BY DEF Reseatings
  <2> QED
    BY <2>1, <1>7 DEF Assigned
<1>9. FreeDuring(seat[j], sub[j].window, working, {j})
  BY <1>8 DEF FreeTables, OpenTables, ReseatRequest
<1>10. working[i].table = new[i].table
  <2>1. CASE i \in who
    <3>1. Earlier(i, j, sub)
      BY <2>1, <1>1, <1>2, <1>6 DEF Earlier
    <3>2. working[i] = [book[i] EXCEPT !.table = seat[i]] /\ book[i] \in Row
      BY <3>1, <2>1, <1>1, <1>6 DEF Reseated
    <3> QED
      BY <3>2, <2>1, <1>3 DEF Row
  <2>2. CASE i \notin who
    BY <2>2, <1>1, <1>3, <1>6 DEF Reseated
  <2> QED
    BY <2>1, <2>2
<1>11. Held(working[i]) = Held(book[i]) /\ (Occupies(working[i]) <=> Occupies(book[i]))
  <2>1. working[i] = book[i] \/ working[i] = [book[i] EXCEPT !.table = seat[i]]
    BY <1>1, <1>6 DEF Reseated
  <2>2. book[i] \in Row
    OBVIOUS
  <2>3. /\ working[i].window = book[i].window
        /\ working[i].released_at = book[i].released_at
        /\ working[i].status = book[i].status
    BY <2>1, <2>2 DEF Row
  <2> QED
    BY <2>3 DEF Held, HeldUntil, Occupies, IsLive
<1>12. ~Holds(working[i], seat[j], sub[j].window)
  <2>1. i \in DOMAIN working \ {j}
    BY <1>6 DEF Reseated
  <2> QED
    BY <2>1, <1>9 DEF FreeDuring
<1>13. Overlaps(Held(book[i]), book[j].window)
  <2>1. book[i] \in Row /\ book[j] \in Row
    BY <1>2
  <2>2. Overlaps(Held(book[i]), Held(book[j]))
    BY <1>2, <1>3
  <2>3. Held(book[i]).start \in Int /\ Held(book[i]).end \in Int
    BY <2>1, <1>4, HeldWithinWindow
  <2> QED
    BY <2>1, <2>2, <2>3, <1>4, WiderOverlaps
<1> QED
  BY <1>2, <1>3, <1>7, <1>10, <1>11, <1>12, <1>13 DEF Holds


LEMMA ReseatingKeepsOrder ==
  ASSUME NEW book, Orderly(book),
         NEW loaded \in SUBSET Ids,
         \A i \in loaded : \A j \in Ids :
            IsLive(book[j]) /\ book[j].service_day = book[i].service_day => j \in loaded,
         NEW tables, NEW closed, NEW now,
         NEW seat \in Reseatings([i \in loaded |-> book[i]], tables, closed, now)
  PROVE  Orderly(Reseated(book, seat, DOMAIN seat))
<1> DEFINE sub == [k \in loaded |-> book[k]]
           who == Candidates(sub, tables, closed, now)
<1> SUFFICES ASSUME NEW new, new = Reseated(book, seat, DOMAIN seat)
             PROVE  Orderly(new)
  OBVIOUS
<1>0. book \in [Ids -> Row] /\ InShift(book) /\ Exclusive(book)
  BY DEF Orderly
<1>1. seat \in [who -> Seats] /\ who \in SUBSET Ids /\ DOMAIN seat = who
  BY DEF Reseatings, Candidates
<1>2. /\ new \in [Ids -> Row] /\ InShift(new)
      /\ \A k \in Ids : /\ new[k].table = IF k \in who THEN seat[k] ELSE book[k].table
                        /\ Held(new[k]) = Held(book[k])
                        /\ Occupies(new[k]) <=> Occupies(book[k])
  <2>1. who \subseteq Ids
    BY <1>1
  <2> HIDE DEF who
  <2> QED
    BY <1>0, <1>1, <2>1, ReseatedRow, ReseatedRows
<1>3. Exclusive(new)
  <2> SUFFICES ASSUME NEW i \in Ids, NEW j \in Ids, i # j,
                      new[i].table = new[j].table, new[i].table # NoTable,
                      Occupies(new[i]), Occupies(new[j]), Overlaps(Held(new[i]), Held(new[j]))
               PROVE  FALSE
    BY <1>2 DEF Exclusive
  <2>1. CASE i \notin who /\ j \notin who
    <3>1. book[i].table = book[j].table /\ book[i].table # NoTable
      BY <2>1, <1>2
    <3>2. Occupies(book[i]) /\ Occupies(book[j]) /\ Overlaps(Held(book[i]), Held(book[j]))
      BY <1>2
    <3> QED
      BY <3>1, <3>2, <1>0 DEF Exclusive
  <2>2. CASE j \in who /\ (i \in who => Earlier(i, j, book))
    <3>1. j \in DOMAIN seat /\ (i \in DOMAIN seat => Earlier(i, j, book))
      BY <2>2, <1>1
    <3> HIDE DEF who
    <3> QED
      BY <3>1, <1>0, CandidateApart
  <2>3. CASE i \in who /\ (j \in who => Earlier(j, i, book))
    <3>1. i \in DOMAIN seat /\ (j \in DOMAIN seat => Earlier(j, i, book))
      BY <2>3, <1>1
    <3>2. Overlaps(Held(new[j]), Held(new[i]))
      BY OverlapsIsSymmetric
    <3> HIDE DEF who
    <3> QED
      BY <3>1, <3>2, <1>0, CandidateApart
  <2>4. Earlier(i, j, book) \/ Earlier(j, i, book)
    <3>1. i \in Nat /\ j \in Nat
      BY RoomAssumption
    <3>2. book[i].window.start \in Nat /\ book[j].window.start \in Nat
      BY <1>0 DEF Row, Windows
    <3> QED
      BY <3>1, <3>2 DEF Earlier
  <2> QED
    BY <2>1, <2>2, <2>3, <2>4
<1> QED
  BY <1>2, <1>3 DEF Orderly

\* reconcile_shift loads whole evenings.
LEMMA ReconciledShiftKeepsOrder ==
  ASSUME NEW book, Orderly(book), NEW day, NEW tables, NEW closed, NEW now,
         NEW new \in ReconciledShift(book, day, tables, closed, now)
  PROVE  Orderly(new)
<1> DEFINE loaded == {j \in Ids : IsLive(book[j]) /\ book[j].service_day \in Neighbours(day)}
           blk == BlocksAround(closed, day)
<1>1. \A i \in loaded : \A j \in Ids :
         IsLive(book[j]) /\ book[j].service_day = book[i].service_day => j \in loaded
  OBVIOUS
<1>2. PICK seat \in Reseatings([i \in loaded |-> book[i]], tables, blk, now) :
        new = Reseated(book, seat, DOMAIN seat)
  BY DEF ReconciledShift, Around
<1>3. loaded \in SUBSET Ids
  OBVIOUS
<1> HIDE DEF loaded, blk
<1> QED
  BY <1>1, <1>2, <1>3, ReseatingKeepsOrder

-----------------------------------------------------------------------------
(***************************************************************************)
(* Writing one row that was compared with the rows around it keeps the     *)
(* booking table orderly.                                                  *)
(***************************************************************************)
LEMMA WritingKeepsOrder ==
  ASSUME NEW book, Orderly(book), NEW id \in Ids, NEW replacing \in SUBSET Ids,
         \A i \in replacing : book[i].status # "absent",
         NEW row \in Row, InItsShift(row),
         NEW ignoring, ignoring \subseteq replacing \cup {id},
         NEW sub, sub = Around(book, row.service_day),
         NEW window, window.start = row.window.start,
         window.end \in Nat, Held(row).end <= window.end,
         row.table # NoTable /\ Occupies(row) => FreeDuring(row.table, window, sub, ignoring)
  PROVE  Orderly(Written(book, id, row, replacing))
<1> DEFINE new == Written(book, id, row, replacing)
<1> USE DEF Orderly
<1>1. DOMAIN new = Ids /\ DOMAIN book = Ids
  BY DEF Written
<1>2. ASSUME NEW i \in Ids, i # id
      PROVE  /\ new[i] \in Row
             /\ new[i].table = book[i].table /\ new[i].window = book[i].window
             /\ new[i].released_at = book[i].released_at
             /\ new[i].service_day = book[i].service_day
             /\ new[i].status = IF i \in replacing THEN "cancelled" ELSE book[i].status
  <2>1. CASE i \in replacing
    <3>1. new[i] = [book[i] EXCEPT !.status = "cancelled"] /\ book[i] \in Row
      BY <1>2, <2>1 DEF Written
    <3> QED
      BY <2>1, <3>1 DEF Row, Statuses
  <2>2. CASE i \notin replacing
    <3>1. new[i] = book[i] /\ book[i] \in Row
      BY <1>2, <2>2 DEF Written
    <3> QED
      BY <2>2, <3>1
  <2> QED
    BY <2>1, <2>2
<1>3. new[id] = row
  BY DEF Written
<1>4. new \in [Ids -> Row]
  BY <1>2, <1>3 DEF Written
<1>5. ASSUME NEW i \in Ids, i # id, Occupies(new[i])
      PROVE  /\ i \notin replacing /\ new[i] = book[i] /\ IsLive(book[i])
             /\ Occupies(book[i]) /\ InItsShift(book[i])
  <2>1. i \notin replacing
    BY <1>2, <1>5 DEF Occupies, IsLive
  <2>2. new[i] = book[i]
    BY <2>1, <1>5 DEF Written
  <2> QED
    BY <2>1, <2>2, <1>1, <1>5 DEF Occupies, IsLive, InShift
<1>6. ASSUME NEW i \in Ids, i # id, new[i].table = row.table, row.table # NoTable,
             Occupies(new[i]), Occupies(row), Overlaps(Held(new[i]), Held(row))
      PROVE  FALSE
  <2>1. /\ i \notin replacing /\ new[i] = book[i] /\ IsLive(book[i])
        /\ Occupies(book[i]) /\ InItsShift(book[i])
    BY <1>5, <1>6
  <2>2. book[i] \in Row
    OBVIOUS
  <2>3. book[i].service_day = row.service_day
    BY <2>1, <2>2, <1>6, EveningsApart
  <2>4. i \in DOMAIN sub \ ignoring /\ sub[i] = book[i]
    <3>1. row.service_day \in Days
      BY DEF Row
    <3>2. row.service_day \in Neighbours(row.service_day)
      BY <3>1, ClockTypes DEF Neighbours
    <3> QED
      BY <2>1, <2>3, <3>2, <1>6 DEF Around
  <2>5. ~Holds(book[i], row.table, window)
    BY <2>4, <1>6 DEF FreeDuring
  <2>6. Overlaps(Held(book[i]), window)
    <3>1. /\ Held(book[i]).start \in Nat /\ Held(book[i]).end \in Nat
          /\ Held(row).start = row.window.start /\ Held(row).end \in Nat
          /\ row.window.start \in Nat
      BY <2>1, <2>2, HeldWithinWindow
    <3>2. Overlaps(Held(book[i]), Held(row))
      BY <2>1, <1>6
    <3> QED
      BY <3>1, <3>2 DEF Overlaps
  <2> QED
    BY <2>1, <2>5, <2>6, <1>6 DEF Holds
<1>7. Exclusive(new)
  <2> SUFFICES ASSUME NEW i \in Ids, NEW j \in Ids, i # j,
                      new[i].table = new[j].table, new[i].table # NoTable,
                      Occupies(new[i]), Occupies(new[j]), Overlaps(Held(new[i]), Held(new[j]))
               PROVE  FALSE
    BY <1>1 DEF Exclusive
  <2>1. CASE i = id
    BY <2>1, <1>3, <1>6, OverlapsIsSymmetric
  <2>2. CASE j = id
    BY <2>2, <1>3, <1>6
  <2>3. CASE i # id /\ j # id
    <3>1. new[i] = book[i] /\ new[j] = book[j]
      BY <2>3, <1>5
    <3> QED
      BY <3>1, <1>1 DEF Exclusive
  <2> QED
    BY <2>1, <2>2, <2>3
<1>8. InShift(new)
  <2>1. ASSUME NEW i \in Ids, i # id, new[i].status # "absent", i \notin replacing
        PROVE  InItsShift(new[i])
    BY <2>1, <1>1 DEF Written, InShift
  <2>2. ASSUME NEW i \in Ids, i # id, i \in replacing
        PROVE  InItsShift(new[i])
    BY <2>2, <1>1, <1>2 DEF InShift, InItsShift
  <2> QED
    BY <2>1, <2>2, <1>1, <1>3 DEF InShift
<1> QED
  BY <1>4, <1>7, <1>8

-----------------------------------------------------------------------------
(***************************************************************************)
(* The windows the operations write lie within the shift of their evening. *)
(***************************************************************************)

LEMMA InvariantParts ==
  /\ IInv <=> Typed /\ HoursInForce /\ Orderly(bookings)
  /\ IInv' <=> Typed' /\ HoursInForce' /\ Orderly(bookings')
<1>1. ASSUME bookings \in [Ids -> Row]
      PROVE  RowsInTheirShift <=> InShift(bookings)
  BY <1>1 DEF RowsInTheirShift, InShift
<1>2. ASSUME bookings' \in [Ids -> Row]
      PROVE  RowsInTheirShift' <=> InShift(bookings')
  BY <1>2 DEF RowsInTheirShift, InShift
<1>3. Typed => bookings \in [Ids -> Row]
  BY DEF Typed
<1>4. Typed' => bookings' \in [Ids -> Row]
  BY DEF Typed
<1>5. IInv <=> Typed /\ HoursInForce /\ Orderly(bookings)
  BY <1>1, <1>3 DEF IInv, TypeOK, NoDoubleBooking, Orderly
<1>6. IInv' <=> Typed' /\ HoursInForce' /\ Orderly(bookings')
  BY <1>2, <1>4 DEF IInv, TypeOK, NoDoubleBooking, Orderly
<1> QED
  BY <1>5, <1>6

\* A window that a row of `day` may have.
Fits(window, day) ==
  /\ window \in Windows
  /\ Begins(day) <= window.start
  /\ window.start < window.end
  /\ window.end <= Ends(day)

\* The hours in force, and where an arrival of the grid lies in them.
LEMMA HoursTypes ==
  ASSUME config \in ConfigType, HoursInForce, NEW day \in Days
  PROVE  /\ config.week[day].open_minutes \in Nat /\ config.week[day].close_minutes \in Nat
         /\ config.turn_minutes \in Nat \ {0}
         /\ FirstOpen <= config.week[day].open_minutes
         /\ config.week[day].close_minutes <= LastClose
         /\ \A m \in Arrivals(config, day) :
              /\ m \in Nat /\ Happens(day, m) /\ ~config.week[day].closed
              /\ config.week[day].open_minutes <= m
              /\ m <= config.week[day].close_minutes - config.turn_minutes
              /\ m + config.turn_minutes <= LastClose
<1>1. /\ config.week[day].open_minutes \in Nat /\ config.week[day].close_minutes \in Nat
      /\ config.turn_minutes \in Nat \ {0}
  BY DEF ConfigType, HoursType
<1>2. /\ FirstOpen <= config.week[day].open_minutes
      /\ config.week[day].close_minutes <= LastClose
  BY DEF HoursInForce, HoursAreLegal
<1>3. ASSUME NEW m \in Arrivals(config, day)
      PROVE  /\ m \in config.week[day].open_minutes ..
                        config.week[day].close_minutes - config.turn_minutes
             /\ Happens(day, m) /\ ~config.week[day].closed
  BY DEF Arrivals, ArrivalMinutes
<1>4. LastClose \in Nat
  BY ClockTypes
<1> QED
  BY <1>1, <1>2, <1>3, <1>4

\* A sitting of the grid starts after opening and ends by the latest closing.
LEMMA GridWindowFits ==
  ASSUME config \in ConfigType, HoursInForce,
         NEW day \in Days, NEW minutes \in Arrivals(config, day)
  PROVE  Fits(WindowOf(config, day, minutes), day)
<1> DEFINE start == FirstPass(day, minutes)
<1>1. /\ minutes \in Nat /\ FirstOpen \in Nat /\ FirstOpen <= minutes
      /\ config.turn_minutes \in Nat \ {0}
      /\ minutes + config.turn_minutes <= LastClose /\ Happens(day, minutes)
  BY HoursTypes, ClockTypes
<1>2. start = ResolveBoundary(day, minutes) /\ start + config.turn_minutes <= Ends(day)
  BY <1>1, ArrivalsInShift
<1>3. start \in Nat
  BY <1>1, <1>2, BoundariesInOrder
<1>4. Begins(day) <= start
  BY <1>1, <1>2, BoundariesInOrder DEF Begins
<1>5. WindowOf(config, day, minutes) = [start |-> start, end |-> start + config.turn_minutes]
  BY DEF WindowOf
<1> HIDE DEF start
<1> QED
  BY <1>1, <1>2, <1>3, <1>4, <1>5 DEF Fits, Windows

\* A walk-in begins while the bar is open and ends by closing.
LEMMA WalkInWindowFits ==
  ASSUME config \in ConfigType, HoursInForce,
         NEW day \in Days, NEW now \in Nat, IsOpen(config, day, now)
  PROVE  Fits(WalkInWindow(config, day, now), day)
<1>1. config.turn_minutes \in Nat \ {0}
  BY HoursTypes
<1>2. Opening(config, day) <= now /\ now < Closing(config, day)
  BY DEF IsOpen
<1>3. Closing(config, day) \in Nat /\ Closing(config, day) <= Ends(day)
  BY HoursTypes, ClosingInShift DEF Closing
<1>4. Begins(day) <= Opening(config, day) /\ Begins(day) \in Nat /\ Opening(config, day) \in Nat
  BY HoursTypes, ClockTypes, BoundariesInOrder DEF Begins, Opening
<1>5. Ends(day) \in Int
  BY ShiftTypes
<1> QED
  BY <1>1, <1>2, <1>3, <1>4, <1>5 DEF Fits, WalkInWindow, Windows

\* A table is given back within the window.
LEMMA ReleasedWithinWindow ==
  ASSUME config \in ConfigType, NEW window \in Windows, window.start < window.end,
         NEW now \in Nat, NEW attendance
  PROVE  LET r == ReleasedAt(attendance, window, now) IN
         \/ r = NotReleased
         \/ r \in Nat /\ window.start <= r /\ r <= window.end
<1>1. window.start \in Nat /\ window.end \in Nat /\ config.grace_minutes \in Nat
  BY DEF Windows, ConfigType
<1>2. ASSUME NEW moment \in Nat
      PROVE  LET r == Clamp(moment, window) IN
             r \in Nat /\ window.start <= r /\ r <= window.end
  BY <1>1, <1>2 DEF Clamp
<1>3. CASE attendance = "left"
  BY <1>2, <1>3 DEF ReleasedAt
<1>4. CASE attendance = "no_show"
  <2> DEFINE graced == window.start + config.grace_minutes
             moment == IF now < graced THEN graced ELSE now
  <2>1. moment \in Nat
    BY <1>1
  <2>2. ReleasedAt(attendance, window, now) = Clamp(moment, window)
    BY <1>4 DEF ReleasedAt
  <2> HIDE DEF moment
  <2> QED
    BY <2>1, <2>2, <1>2
<1>5. CASE attendance # "left" /\ attendance # "no_show"
  BY <1>5 DEF ReleasedAt
<1> QED
  BY <1>3, <1>4, <1>5

\* A new row is a row, holds its whole window and lies in its shift.
LEMMA NewRowFits ==
  ASSUME NEW table \in Seats, NEW day \in Days, NEW window, Fits(window, day),
         NEW party \in Nat, NEW user \in Guests \cup {NoGuest}, NEW status \in Statuses
  PROVE  LET row == NewRow(table, day, window, party, user, status) IN
         /\ row \in Row /\ InItsShift(row)
         /\ row.service_day = day /\ row.window = window /\ row.table = table
         /\ Held(row).end = window.end /\ window.end \in Nat
BY DEF NewRow, Row, Fits, InItsShift, Held, HeldUntil, Windows, NotReleased

-----------------------------------------------------------------------------
(***************************************************************************)
(* The outbox keeps its type.                                              *)
(***************************************************************************)

LEMMA SettledType ==
  ASSUME NEW m \in Outbox, NEW outcome \in {"sent", "gave_up"}
  PROVE  Settled(m, outcome) \in Outbox
<1> DEFINE said == IF outcome = "sent" THEN m.hour ELSE 0
           none == 0
           settled == [m EXCEPT !.reminder = outcome, !.due = none, !.party = none, !.hour = said]
<1>1. said \in Nat /\ none \in Nat /\ none \in Int
  BY DEF Outbox
<1>2. Settled(m, outcome) = settled
  BY DEF Settled
<1>3. settled \in Outbox
  <2> HIDE DEF said, none
  <2> QED
    BY <1>1 DEF Outbox
<1> HIDE DEF settled
<1> QED
  BY <1>2, <1>3

LEMMA AbandonedType ==
  ASSUME NEW m \in Outbox
  PROVE  Abandoned(m) \in Outbox
<1>1. Settled(m, "gave_up") \in Outbox
  BY SettledType
<1> QED
  BY <1>1 DEF Abandoned

LEMMA PlannedType ==
  ASSUME config \in ConfigType, NEW m \in Outbox, NEW window \in Windows,
         NEW party \in Nat, NEW now \in Nat
  PROVE  Planned(m, window, party, now) \in Outbox
<1>1. config.remind_hours \in Nat /\ window.start \in Nat
  BY DEF ConfigType, Windows
<1>2. Abandoned(m) \in Outbox
  BY AbandonedType
<1> DEFINE due == window.start - config.remind_hours
<1>3. due \in Int
  BY <1>1
<1>4. [m EXCEPT !.reminder = "pending", !.due = due,
                !.hour = window.start, !.party = party] \in Outbox
  BY <1>1, <1>3 DEF Outbox
<1> QED
  BY <1>2, <1>4 DEF Planned

LEMMA MoveMessagesType ==
  ASSUME config \in ConfigType, NEW m \in Outbox, NEW b, NEW window \in Windows,
         NEW party \in Nat, NEW now \in Nat
  PROVE  MoveMessages(m, b, window, party, now) \in Outbox
<1> DEFINE told == IF window # b.window THEN [m EXCEPT !.moved = window.start] ELSE m
<1>1. told \in Outbox
  BY DEF Outbox, Windows
<1> HIDE DEF told
<1>2. Planned(told, window, party, now) \in Outbox
  BY <1>1, PlannedType
<1> USE DEF told
<1> QED
  BY <1>1, <1>2 DEF MoveMessages

-----------------------------------------------------------------------------
(***************************************************************************)
(* Induction over a number of evenings, and over the days of the calendar. *)
(***************************************************************************)
LEMMA Below == OpToRel(<, Nat) = {ss \in Nat \X Nat : ss[1] < ss[2]}
BY DEF OpToRel

\* Every set of naturals has a least element.
LEMMA Least ==
  ASSUME NEW T \in SUBSET Nat, T # {}
  PROVE  \E x \in T : \A y \in T : x <= y
<1>1. PICK x \in T : \A y \in T : ~(<<y, x>> \in OpToRel(<, Nat))
  BY NatLessThanWellFounded, WFMin
<1>2. \A y \in T : ~(<<y, x>> \in {ss \in Nat \X Nat : ss[1] < ss[2]})
  BY <1>1, Below
<1>3. ASSUME NEW y \in T PROVE x <= y
  <2>1. x \in Nat /\ y \in Nat
    OBVIOUS
  <2>2. y < x => <<y, x>> \in {ss \in Nat \X Nat : ss[1] < ss[2]}
    BY <2>1
  <2> QED
    BY <2>1, <2>2, <1>2
<1> QED
  BY <1>3

LEMMA OneByOne ==
  ASSUME NEW S, 0 \in S, \A n \in Nat : n \in S => n + 1 \in S
  PROVE  Nat \subseteq S
<1> SUFFICES ASSUME Nat \ S # {} PROVE FALSE
  OBVIOUS
<1>1. PICK x \in Nat \ S : \A y \in Nat \ S : x <= y
  BY Least
<1>2. x # 0 /\ x - 1 \in Nat
  BY <1>1
<1>3. x - 1 \in S
  BY <1>1, <1>2
<1> QED
  BY <1>1, <1>2, <1>3

\* The day of an instant is one of the calendar: the last that has begun.
LEMMA TodayIsADay ==
  ASSUME NEW now \in Nat
  PROVE  Today(now) \in Days /\ Midnight[Today(now)] <= now
<1> DEFINE Begun == {d \in Days : Midnight[d] <= now}
           T == {n \in Nat : LastDay - n \in Begun}
<1>1. LastDay \in Nat /\ 0 \in Begun
  BY CalendarAssumption DEF Days
<1>2. LastDay \in T
  BY <1>1
<1>3. PICK n \in T : \A m \in T : n <= m
  BY <1>2, Least
<1>4. LastDay - n \in Begun
  BY <1>3
<1>5. ASSUME NEW e \in Begun PROVE e <= LastDay - n
  <2>1. e \in Int /\ LastDay - e \in Nat /\ LastDay - (LastDay - e) = e
    BY <1>1 DEF Days
  <2>2. LastDay - e \in T
    BY <2>1
  <2> QED
    BY <1>1, <1>3, <2>1, <2>2
<1> HIDE DEF T
<1>6. \E d \in Days : Midnight[d] <= now /\ \A e \in Days : Midnight[e] <= now => e <= d
  BY <1>4, <1>5
<1> QED
  BY <1>6 DEF Today

\* What holds of the rows before the first of the evenings, and of what every
\* evening leaves, holds of what they all leave.
LEMMA EveningByEvening ==
  ASSUME NEW book, NEW evenings, NEW now, NEW S,
         book \in S[0],
         \A d \in Days : \A b \in S[d] :
            /\ d \notin evenings => b \in S[d + 1]
            /\ d \in evenings =>
                 ReconciledShift(b, d, config.tables, blocks, now) \subseteq S[d + 1],
         NEW new \in AfterReplacing(book, evenings, now)
  PROVE  new \in S[LastDay + 1]
<1> DEFINE Pass(f, d) == IF d \in evenings
                         THEN UNION {ReconciledShift(b, d, config.tables, blocks, now) : b \in f[d]}
                         ELSE f[d]
           Rec(f, n) == f = [d \in 0 .. n |->
                               IF d = 0 THEN {book}
                               ELSE IF d - 1 \in evenings
                               THEN UNION {ReconciledShift(b, d - 1, config.tables, blocks, now) :
                                             b \in f[d - 1]}
                               ELSE f[d - 1]]
<1>0. LastDay \in Nat
  BY CalendarAssumption
<1>1. \E f : Rec(f, LastDay + 1)
  <2> DEFINE N == {n \in Nat : \E f : Rec(f, n)}
  <2>1. 0 \in N
    <3>1. Rec([d \in 0 .. 0 |-> {book}], 0)
      OBVIOUS
    <3> QED
      BY <3>1
  <2>2. ASSUME NEW n \in Nat, n \in N PROVE n + 1 \in N
    <3>1. PICK g : Rec(g, n)
      BY <2>2
    <3> DEFINE last == Pass(g, n)
               f == [d \in 0 .. n + 1 |-> IF d = n + 1 THEN last ELSE g[d]]
    <3>2. \A d \in 0 .. n : f[d] = g[d]
      OBVIOUS
    <3>3. ASSUME NEW d \in 0 .. n + 1
          PROVE  f[d] = IF d = 0 THEN {book}
                        ELSE IF d - 1 \in evenings
                        THEN UNION {ReconciledShift(b, d - 1, config.tables, blocks, now) :
                                      b \in f[d - 1]}
                        ELSE f[d - 1]
      <4>1. CASE d = n + 1
        <5>1. f[d] = last /\ d - 1 = n /\ f[n] = g[n] /\ d # 0
          BY <4>1
        <5>2. last = Pass(f, n)
          BY <5>1
        <5> HIDE DEF f, last
        <5> QED
          BY <5>1, <5>2
      <4>2. CASE d # n + 1
        <5>1. d \in 0 .. n /\ f[d] = g[d] /\ (d # 0 => d - 1 \in 0 .. n)
          BY <4>2
        <5>2. d # 0 => f[d - 1] = g[d - 1]
          BY <5>1, <3>2
        <5> HIDE DEF f
        <5> QED
          BY <5>1, <5>2, <3>1
      <4> QED
        BY <4>1, <4>2
    <3>4. Rec(f, n + 1)
      BY <3>3
    <3> HIDE DEF f, Rec
    <3> QED
      BY <3>4
  <2> HIDE DEF N
  <2>3. LastDay + 1 \in N
    BY <2>1, <2>2, <1>0, OneByOne
  <2> QED
    BY <2>3 DEF N
<1> DEFINE after == CHOOSE f : Rec(f, LastDay + 1)
<1>2. Rec(after, LastDay + 1)
  BY <1>1
<1>3. AfterReplacing(book, evenings, now) = after[LastDay + 1]
  BY DEF AfterReplacing
<1> HIDE DEF after
<1> DEFINE N == {n \in Nat : n <= LastDay + 1 => after[n] \subseteq S[n]}
<1>4. 0 \in N
  BY <1>0, <1>2
<1>5. ASSUME NEW n \in Nat, n \in N PROVE n + 1 \in N
  <2> SUFFICES ASSUME n <= LastDay PROVE after[n + 1] \subseteq S[n + 1]
    BY <1>0
  <2>1. n \in Days /\ after[n] \subseteq S[n]
    BY <1>0, <1>5 DEF Days
  <2>2. after[n + 1] = Pass(after, n)
    <3>1. n + 1 \in 0 .. LastDay + 1 /\ n + 1 # 0 /\ (n + 1) - 1 = n
      BY <1>0
    <3>2. after[n + 1] = IF n + 1 = 0 THEN {book}
                         ELSE IF (n + 1) - 1 \in evenings
                         THEN UNION {ReconciledShift(b, (n + 1) - 1, config.tables, blocks, now) :
                                       b \in after[(n + 1) - 1]}
                         ELSE after[(n + 1) - 1]
      BY <3>1, <1>2
    <3> QED
      BY <3>1, <3>2
  <2>3. CASE n \in evenings
    BY <2>1, <2>2, <2>3
  <2>4. CASE n \notin evenings
    BY <2>1, <2>2, <2>4
  <2> QED
    BY <2>3, <2>4
<1> HIDE DEF N
<1>6. LastDay + 1 \in N
  BY <1>0, <1>4, <1>5, OneByOne
<1> QED
  BY <1>0, <1>3, <1>6 DEF N

-----------------------------------------------------------------------------
(***************************************************************************)
(* One lemma for each operation that writes bookings.                      *)
(***************************************************************************)

LEMMA AfterReplacingKeepsOrder ==
  ASSUME NEW book, Orderly(book), NEW evenings, NEW now,
         NEW new \in AfterReplacing(book, evenings, now)
  PROVE  Orderly(new)
<1> DEFINE S == [d \in 0 .. LastDay + 1 |-> {b \in [Ids -> Row] : Orderly(b)}]
<1>1. book \in S[0] /\ LastDay \in Nat
  BY CalendarAssumption DEF Orderly
<1>2. ASSUME NEW d \in Days, NEW b \in S[d]
      PROVE  /\ b \in S[d + 1]
             /\ ReconciledShift(b, d, config.tables, blocks, now) \subseteq S[d + 1]
  <2>1. d \in 0 .. LastDay + 1 /\ d + 1 \in 0 .. LastDay + 1
    BY <1>1 DEF Days
  <2>2. Orderly(b)
    BY <2>1
  <2>3. \A c \in ReconciledShift(b, d, config.tables, blocks, now) : Orderly(c)
    BY <2>2, ReconciledShiftKeepsOrder
  <2> QED
    BY <2>1, <2>2, <2>3 DEF Orderly
<1> HIDE DEF S
<1>3. new \in S[LastDay + 1]
  BY <1>1, <1>2, EveningByEvening
<1> QED
  BY <1>1, <1>3 DEF S

\* The bookings of an account that still hold their table were inserted.
LEMMA RunningExist ==
  ASSUME NEW user, NEW now, NEW i \in Running(bookings, user, now)
  PROVE  i \in Ids /\ bookings[i].status # "absent"
BY OccupantsExist DEF Running, HasFinished

\* What a booking does once the room found it a table.
BookingWrites(id, user, day, minutes, party, now, table) ==
  LET replacing == ReplacedOn(Running(bookings, user, now), bookings, day, now)
      row == NewRow(table, day, WindowOf(config, day, minutes), party, user, "confirmed")
  IN /\ row \in Row /\ replacing \subseteq Ids /\ WindowOf(config, day, minutes) \in Windows
     /\ Orderly(Taken(id, row, replacing))
     /\ table \in FreeTables([party_size |-> party, window |-> row.window, service_day |-> day,
                               tables |-> config.tables, bookings |-> Around(bookings, day),
                               blocks |-> BlocksAround(blocks, day), ignoring |-> replacing])
     /\ bookings' \in AfterReplacing(Taken(id, row, replacing),
                                     {bookings[i].service_day : i \in replacing}, now)

LEMMA BookingWritten ==
  ASSUME IInv, NEW id \in Ids, NEW user \in Guests \cup {NoGuest}, NEW day \in Days,
         NEW minutes, NEW party \in Nat, NEW chosen, NEW now \in Nat,
         CreateBooking(id, user, day, minutes, party, chosen, now)
  PROVE  \E table : BookingWrites(id, user, day, minutes, party, now, table)
<1> DEFINE mine == Running(bookings, user, now)
           replacing == ReplacedOn(mine, bookings, day, now)
           window == WindowOf(config, day, minutes)
           request == [party_size |-> party, window |-> window, service_day |-> day,
                       tables |-> config.tables, bookings |-> Around(bookings, day),
                       blocks |-> BlocksAround(blocks, day), ignoring |-> replacing]
           evenings == {bookings[i].service_day : i \in replacing}
<1>1. Typed /\ HoursInForce /\ Orderly(bookings)
  BY InvariantParts
<1>2. PICK table \in Tables :
        /\ SeatOf(request, chosen, table)
        /\ bookings' \in
             AfterReplacing(Taken(id, NewRow(table, day, window, party, user, "confirmed"),
                                  replacing), evenings, now)
  BY DEF CreateBooking
<1> DEFINE row == NewRow(table, day, window, party, user, "confirmed")
<1>3. Fits(window, day)
  BY <1>1, GridWindowFits DEF CreateBooking, Typed
<1>4. replacing \subseteq Ids /\ \A i \in replacing : bookings[i].status # "absent"
  BY RunningExist DEF ReplacedOn
<1>5. /\ row \in Row /\ InItsShift(row)
      /\ row.service_day = day /\ row.window = window /\ row.table = table
      /\ Held(row).end = window.end /\ window.end \in Nat
  <2>1. table \in Seats /\ "confirmed" \in Statuses
    BY DEF Seats, Statuses
  <2> HIDE DEF window
  <2> QED
    BY <1>3, <2>1, NewRowFits
<1>6. FreeDuring(table, window, Around(bookings, day), replacing)
  BY <1>2 DEF SeatOf, FreeTables, OpenTables
<1>7. Orderly(Written(bookings, id, row, replacing))
  <2>1. /\ Around(bookings, day) = Around(bookings, row.service_day)
        /\ window.start = row.window.start /\ window.end \in Nat
        /\ Held(row).end <= window.end
        /\ FreeDuring(row.table, window, Around(bookings, day), replacing)
    BY <1>5, <1>6
  <2>2. replacing \in SUBSET Ids /\ replacing \subseteq replacing \cup {id}
    BY <1>4
  <2> HIDE DEF row, window, replacing
  <2> QED
    BY <2>1, <2>2, <1>1, <1>4, <1>5, WritingKeepsOrder
<1>8. Orderly(Taken(id, row, replacing))
  BY <1>7 DEF Taken, Written
<1>9. window \in Windows
  BY <1>3 DEF Fits
<1>10. row \in Row /\ replacing \subseteq Ids
  BY <1>4, <1>5
<1>12. table \in FreeTables([party_size |-> party, window |-> row.window, service_day |-> day,
                               tables |-> config.tables, bookings |-> Around(bookings, day),
                               blocks |-> BlocksAround(blocks, day), ignoring |-> replacing])
  BY <1>2, <1>5 DEF SeatOf
<1> HIDE DEF row, window, replacing, mine, request, evenings
<1>11. bookings' \in AfterReplacing(Taken(id, row, replacing), evenings, now)
  BY <1>2 DEF row
<1> QED
  BY <1>8, <1>9, <1>10, <1>11, <1>12 DEF row, window, replacing, mine, evenings, BookingWrites

LEMMA CreateBookingKeeps ==
  ASSUME IInv, NEW id \in Ids, NEW user \in Guests \cup {NoGuest}, NEW day \in Days,
         NEW minutes, NEW party \in Nat, NEW chosen, NEW now \in Nat,
         CreateBooking(id, user, day, minutes, party, chosen, now)
  PROVE  IInv'
<1> DEFINE replacing == ReplacedOn(Running(bookings, user, now), bookings, day, now)
           window == WindowOf(config, day, minutes)
<1>1. Typed /\ HoursInForce /\ Orderly(bookings)
  BY InvariantParts
<1>2. window \in Windows /\ replacing \subseteq Ids /\ Orderly(bookings')
  <2>1. PICK table : BookingWrites(id, user, day, minutes, party, now, table)
    BY BookingWritten
  <2> HIDE DEF window, replacing
  <2> QED
    BY <2>1, AfterReplacingKeepsOrder DEF BookingWrites, window, replacing
<1>3. messages' \in [Ids -> Outbox]
  <2>1. messages \in [Ids -> Outbox] /\ config \in ConfigType
    BY <1>1 DEF Typed
  <2>2. messages' = [i \in Ids |->
                       IF i = id /\ user # NoGuest
                       THEN Planned(messages[i], window, party, now)
                       ELSE IF i \in replacing THEN Abandoned(messages[i])
                       ELSE messages[i]]
    BY DEF CreateBooking
  <2> HIDE DEF window, replacing
  <2>4. ASSUME NEW i \in Ids
        PROVE  /\ Planned(messages[i], window, party, now) \in Outbox
               /\ Abandoned(messages[i]) \in Outbox
    BY <2>1, <1>2, PlannedType, AbandonedType
  <2> QED
    BY <2>1, <2>2, <2>4
<1>4. UNCHANGED <<blocks, config, clock, promise, lost>>
  BY DEF CreateBooking
<1>5. Typed' /\ HoursInForce'
  BY <1>1, <1>2, <1>3, <1>4 DEF Typed, HoursInForce, Orderly
<1> QED
  BY <1>2, <1>5, InvariantParts

\* What an attendance does.
AttendanceWrites(i, attendance, now) ==
  LET changed == [bookings[i] EXCEPT
                    !.status = attendance,
                    !.released_at = ReleasedAt(attendance, bookings[i].window, now)]
      written == [bookings EXCEPT ![i] = changed]
  IN /\ bookings[i] \in Row /\ changed \in Row
     /\ Orderly(written)
     /\ bookings' \in ReconciledShift(written, changed.service_day, config.tables, blocks, now)
     /\ UNCHANGED <<blocks, config, clock, messages, promise, lost>>

LEMMA AttendanceWritten ==
  ASSUME IInv, NEW i \in Ids, NEW attendance \in Statuses \ {"absent"}, NEW now \in Nat,
         SetAttendance(i, attendance, now)
  PROVE  AttendanceWrites(i, attendance, now)
<1> DEFINE b == bookings[i]
           changed == [b EXCEPT !.status = attendance,
                                !.released_at = ReleasedAt(attendance, b.window, now)]
           written == [bookings EXCEPT ![i] = changed]
<1>1. Typed /\ HoursInForce /\ Orderly(bookings)
  BY InvariantParts
<1>2. /\ IsLive(b) /\ TableStillFree(i, changed)
      /\ bookings' \in
           ReconciledShift(written, changed.service_day, config.tables, blocks, now)
      /\ UNCHANGED <<blocks, config, clock, messages, promise, lost>>
  BY DEF SetAttendance
<1>3. b \in Row /\ InItsShift(b) /\ bookings \in [Ids -> Row]
  BY <1>1, <1>2 DEF Orderly, InShift, IsLive
<1> DEFINE released == ReleasedAt(attendance, b.window, now)
<1>4. \/ released = NotReleased
      \/ released \in Nat /\ b.window.start <= released /\ released <= b.window.end
  <2>1. b.window \in Windows /\ b.window.start < b.window.end
    BY <1>3 DEF Row, InItsShift
  <2>2. config \in ConfigType
    BY <1>1 DEF Typed
  <2> QED
    BY <2>1, <2>2, ReleasedWithinWindow
<1>5. /\ changed \in Row /\ changed.window = b.window
      /\ changed.service_day = b.service_day /\ changed.released_at = released
      /\ changed.status = attendance
  <2> HIDE DEF released
  <2>1. changed = [b EXCEPT !.status = attendance, !.released_at = released]
    BY DEF released
  <2>2. released \in Nat \cup {NotReleased} /\ attendance \in Statuses
    BY <1>4
  <2> QED
    BY <1>3, <2>1, <2>2 DEF Row
<1>6. InItsShift(changed)
  BY <1>3, <1>4, <1>5 DEF InItsShift
<1>7. Orderly(Written(bookings, i, changed, {}))
  <2> DEFINE held == Held(changed)
  <2>1. held.start = changed.window.start /\ held.end \in Nat
    BY <1>5, <1>6, HeldWithinWindow DEF Held
  <2>2. changed.table # NoTable /\ Occupies(changed)
        => FreeDuring(changed.table, held, Around(bookings, changed.service_day), {i})
    BY <1>2 DEF TableStillFree
  <2>3. {i} \subseteq {} \cup {i} /\ held.end <= held.end
    BY <2>1
  <2> HIDE DEF changed
  <2> QED
    BY <1>1, <1>5, <1>6, <2>1, <2>2, <2>3, WritingKeepsOrder
<1>8. written = Written(bookings, i, changed, {})
  BY <1>3 DEF Written
<1> HIDE DEF written
<1>9. Orderly(written)
  BY <1>7, <1>8
<1> QED
  BY <1>2, <1>3, <1>5, <1>9 DEF written, AttendanceWrites

LEMMA SetAttendanceKeeps ==
  ASSUME IInv, NEW i \in Ids, NEW attendance \in Statuses \ {"absent"}, NEW now \in Nat,
         SetAttendance(i, attendance, now)
  PROVE  IInv'
<1>1. Typed /\ HoursInForce /\ Orderly(bookings)
  BY InvariantParts
<1>2. /\ Orderly(bookings')
      /\ UNCHANGED <<blocks, config, clock, messages, promise, lost>>
  BY AttendanceWritten, ReconciledShiftKeepsOrder DEF AttendanceWrites
<1>3. Typed' /\ HoursInForce'
  BY <1>1, <1>2 DEF Typed, HoursInForce, Orderly
<1> QED
  BY <1>2, <1>3, InvariantParts

\* What a move does once it found a window and a table.
MoveWrites(i, minutes, party, now, window, table) ==
  LET b == bookings[i]
      written == [bookings EXCEPT ![i] = Moved(b, table, window, party)]
  IN /\ WindowOffered(i, minutes, window, now) /\ window \in Windows
     /\ HoldingsAllowed(written, i, now)
     /\ table \in FreeTables(MoveRequest(b, i, window, party))
     /\ Moved(b, table, window, party) \in Row
     /\ Orderly(written)
     /\ bookings' \in ReconciledShift(written, b.service_day, config.tables, blocks, now)
     /\ messages' = IF b.user = NoGuest THEN messages
                    ELSE [messages EXCEPT ![i] =
                            MoveMessages(messages[i], b, window, party, now)]

LEMMA MoveWritten ==
  ASSUME IInv, NEW i \in Ids, NEW minutes, NEW party \in Nat, NEW chosen, NEW now \in Nat,
         MoveBooking(i, minutes, party, chosen, now)
  PROVE  /\ bookings[i] \in Row /\ bookings[i].status # "absent"
         /\ \E window, table : MoveWrites(i, minutes, party, now, window, table)
<1> DEFINE b == bookings[i]
<1>1. Typed /\ HoursInForce /\ Orderly(bookings)
  BY InvariantParts
<1>2. b \in Row /\ InItsShift(b) /\ bookings \in [Ids -> Row] /\ config \in ConfigType
  <2>1. b.status # "absent"
    BY OccupantsExist DEF MoveBooking, StillHeld, HasFinished
  <2> QED
    BY <2>1, <1>1 DEF Typed, Orderly, InShift
<1>3. PICK window \in {b.window, WindowOf(config, b.service_day, minutes)}, table \in Tables :
        /\ WindowOffered(i, minutes, window, now)
        /\ SeatOf(MoveRequest(b, i, window, party), chosen, table)
        /\ HoldingsAllowed([bookings EXCEPT ![i] = Moved(b, table, window, party)], i, now)
        /\ bookings' \in
             ReconciledShift([bookings EXCEPT ![i] = Moved(b, table, window, party)],
                             b.service_day, config.tables, blocks, now)
        /\ messages' = IF b.user = NoGuest THEN messages
                       ELSE [messages EXCEPT ![i] =
                               MoveMessages(messages[i], b, window, party, now)]
  BY DEF MoveBooking
<1>4. Fits(window, b.service_day)
  <2>1. CASE window = b.window
    <3>1. b.window \in Windows
      BY <1>2 DEF Row
    <3> QED
      BY <2>1, <3>1, <1>2 DEF Fits, InItsShift
  <2>2. CASE window # b.window
    <3>1. minutes \in Arrivals(config, b.service_day)
      BY <2>2, <1>3 DEF WindowOffered
    <3>2. window = WindowOf(config, b.service_day, minutes) /\ b.service_day \in Days
      BY <2>2, <1>2, <1>3 DEF Row
    <3> QED
      BY <3>1, <3>2, <1>1, <1>2, GridWindowFits
  <2> QED
    BY <2>1, <2>2
<1> DEFINE row == Moved(b, table, window, party)
<1>5. /\ row \in Row /\ InItsShift(row)
      /\ row.service_day = b.service_day /\ row.window = window /\ row.table = table
  <2>1. table \in Seats /\ "confirmed" \in Statuses /\ window \in Windows
    BY <1>4 DEF Seats, Statuses, Fits
  <2>2. CASE window = b.window
    <3>1. row = [b EXCEPT !.table = table, !.party_size = party]
      BY <2>2 DEF Moved
    <3>2. /\ row \in Row /\ row.service_day = b.service_day /\ row.window = b.window
          /\ row.table = table /\ row.released_at = b.released_at
      BY <3>1, <2>1, <1>2 DEF Row
    <3> QED
      BY <3>2, <2>2, <1>2 DEF InItsShift
  <2>3. CASE window # b.window
    <3>1. row = [b EXCEPT !.table = table, !.party_size = party, !.window = window,
                          !.status = "confirmed", !.released_at = NotReleased]
      BY <2>3 DEF Moved
    <3>2. /\ row \in Row /\ row.service_day = b.service_day /\ row.window = window
          /\ row.table = table /\ row.released_at = NotReleased
      BY <3>1, <2>1, <1>2 DEF Row
    <3> QED
      BY <3>2, <1>4 DEF InItsShift, Fits
  <2> QED
    BY <2>2, <2>3
<1>6. FreeDuring(table, window, Around(bookings, b.service_day), {i})
  BY <1>3 DEF SeatOf, FreeTables, OpenTables, MoveRequest
<1>7. Orderly(Written(bookings, i, row, {}))
  <2>1. Held(row).end <= window.end /\ window.end \in Nat
    BY <1>5, HeldWithinWindow
  <2>2. {i} \subseteq {} \cup {i}
    OBVIOUS
  <2> HIDE DEF row
  <2> QED
    BY <2>1, <2>2, <1>1, <1>5, <1>6, WritingKeepsOrder
<1>8. [bookings EXCEPT ![i] = row] = Written(bookings, i, row, {})
  BY <1>2 DEF Written
<1>9. Orderly([bookings EXCEPT ![i] = row])
  <2> HIDE DEF row
  <2> QED
    BY <1>7, <1>8
<1>10. window \in Windows
  BY <1>4 DEF Fits
<1>11. row \in Row
  BY <1>5
<1>12. MoveWrites(i, minutes, party, now, window, table)
  BY <1>3, <1>9, <1>10, <1>11 DEF MoveWrites, SeatOf
<1>13. b.status # "absent"
  BY OccupantsExist DEF MoveBooking, StillHeld, HasFinished
<1> QED
  BY <1>2, <1>12, <1>13

LEMMA MoveBookingKeeps ==
  ASSUME IInv, NEW i \in Ids, NEW minutes, NEW party \in Nat, NEW chosen, NEW now \in Nat,
         MoveBooking(i, minutes, party, chosen, now)
  PROVE  IInv'
<1> DEFINE b == bookings[i]
<1>1. Typed /\ HoursInForce /\ Orderly(bookings)
  BY InvariantParts
<1>0. PICK window, table : MoveWrites(i, minutes, party, now, window, table)
  BY MoveWritten
<1>2. b \in Row /\ Orderly(bookings')
  <2>1. b \in Row
    BY MoveWritten
  <2> QED
    BY <2>1, <1>0, ReconciledShiftKeepsOrder DEF MoveWrites
<1>3. messages' \in [Ids -> Outbox]
  <2>1. /\ window \in Windows
        /\ messages' = IF b.user = NoGuest THEN messages
                       ELSE [messages EXCEPT ![i] =
                               MoveMessages(messages[i], b, window, party, now)]
    BY <1>0 DEF MoveWrites
  <2>2. messages \in [Ids -> Outbox] /\ messages[i] \in Outbox /\ config \in ConfigType
    BY <1>1 DEF Typed
  <2>3. MoveMessages(messages[i], b, window, party, now) \in Outbox
    BY <2>1, <2>2, <1>2, MoveMessagesType
  <2> QED
    BY <2>1, <2>2, <2>3
<1>4. UNCHANGED <<blocks, config, clock, promise, lost>>
  BY DEF MoveBooking
<1>5. Typed' /\ HoursInForce'
  BY <1>1, <1>2, <1>3, <1>4 DEF Typed, HoursInForce, Orderly
<1> QED
  BY <1>2, <1>5, InvariantParts

LEMMA SeatWalkInKeeps ==
  ASSUME IInv, NEW id \in Ids, NEW day \in Days, NEW party \in Nat, NEW chosen,
         NEW now \in Nat, SeatWalkIn(id, day, party, chosen, now)
  PROVE  IInv'
<1> DEFINE window == WalkInWindow(config, day, now)
           request == [party_size |-> party, window |-> window, service_day |-> day,
                       tables |-> config.tables, bookings |-> Around(bookings, day),
                       blocks |-> BlocksAround(blocks, day), ignoring |-> {}]
<1>1. Typed /\ HoursInForce /\ Orderly(bookings)
  BY InvariantParts
<1>2. PICK table \in Tables :
        /\ SeatOf(request, chosen, table)
        /\ bookings' = [bookings EXCEPT ![id] =
                          NewRow(table, day, window, party, NoGuest, "arrived")]
  BY DEF SeatWalkIn
<1> DEFINE row == NewRow(table, day, window, party, NoGuest, "arrived")
<1>3. Fits(window, day)
  BY <1>1, WalkInWindowFits DEF SeatWalkIn, Typed
<1>4. /\ row \in Row /\ InItsShift(row)
      /\ row.service_day = day /\ row.window = window /\ row.table = table
      /\ Held(row).end = window.end /\ window.end \in Nat
  <2>1. table \in Seats /\ "arrived" \in Statuses /\ NoGuest \in Guests \cup {NoGuest}
    BY DEF Seats, Statuses
  <2> HIDE DEF window
  <2> QED
    BY <1>3, <2>1, NewRowFits
<1>5. FreeDuring(table, window, Around(bookings, day), {})
  BY <1>2 DEF SeatOf, FreeTables, OpenTables
<1>6. Orderly(Written(bookings, id, row, {}))
  <2>1. {} \subseteq {} \cup {id} /\ Held(row).end <= window.end
    BY <1>4
  <2> HIDE DEF row, window
  <2> QED
    BY <2>1, <1>1, <1>4, <1>5, WritingKeepsOrder
<1>7. Orderly(bookings')
  <2>1. bookings' = Written(bookings, id, row, {})
    BY <1>1, <1>2 DEF Written, Orderly
  <2> QED
    BY <2>1, <1>6
<1>8. UNCHANGED <<blocks, config, clock, messages, promise, lost>>
  BY DEF SeatWalkIn
<1>9. Typed' /\ HoursInForce'
  BY <1>1, <1>7, <1>8 DEF Typed, HoursInForce, Orderly
<1> QED
  BY <1>7, <1>9, InvariantParts

\* A cancelled row stands in nobody's way.
LEMMA CancelWritten ==
  ASSUME IInv, NEW i \in Ids, NEW now, StillHeld(i, now)
  PROVE  Orderly([bookings EXCEPT ![i].status = "cancelled"])
<1> DEFINE b == bookings[i]
           row == [b EXCEPT !.status = "cancelled"]
<1>1. Typed /\ HoursInForce /\ Orderly(bookings)
  BY InvariantParts
<1>2. b \in Row /\ InItsShift(b) /\ bookings \in [Ids -> Row]
  <2>1. b.status # "absent"
    BY OccupantsExist DEF StillHeld, HasFinished
  <2> QED
    BY <2>1, <1>1 DEF Orderly, InShift
<1>3. /\ row \in Row /\ InItsShift(row) /\ ~Occupies(row)
  <2>1. /\ row \in Row /\ row.status = "cancelled" /\ row.window = b.window
        /\ row.service_day = b.service_day /\ row.released_at = b.released_at
    BY <1>2 DEF Row, Statuses
  <2> QED
    BY <2>1, <1>2 DEF InItsShift, Occupies, IsLive
<1>4. Orderly(Written(bookings, i, row, {}))
  <2> DEFINE held == Held(row)
  <2>1. held.start = row.window.start /\ held.end \in Nat /\ held.end <= held.end
    BY <1>3, HeldWithinWindow DEF Held
  <2>2. {i} \subseteq {} \cup {i}
    OBVIOUS
  <2> HIDE DEF row
  <2> QED
    BY <2>1, <2>2, <1>1, <1>3, WritingKeepsOrder
<1>5. [bookings EXCEPT ![i].status = "cancelled"] = Written(bookings, i, row, {})
  BY <1>2 DEF Written
<1> QED
  BY <1>4, <1>5

LEMMA CancelLockedKeeps ==
  ASSUME IInv, NEW i \in Ids, NEW noticed \in BOOLEAN, NEW now \in Nat,
         CancelLocked(i, noticed, now)
  PROVE  IInv'
<1> DEFINE written == [bookings EXCEPT ![i].status = "cancelled"]
<1>1. Typed /\ HoursInForce
  BY InvariantParts
<1>2. /\ StillHeld(i, now)
      /\ bookings' \in ReconciledShift(written, bookings[i].service_day,
                                       config.tables, blocks, now)
      /\ messages' = [messages EXCEPT ![i] =
                        [Abandoned(messages[i]) EXCEPT !.cancelled = noticed]]
      /\ UNCHANGED <<blocks, config, clock, promise, lost>>
  BY DEF CancelLocked
<1>3. Orderly(written)
  BY <1>2, CancelWritten
<1> HIDE DEF written
<1>4. Orderly(bookings')
  BY <1>2, <1>3, ReconciledShiftKeepsOrder
<1>5. messages' \in [Ids -> Outbox]
  <2>1. messages \in [Ids -> Outbox] /\ messages[i] \in Outbox
    BY <1>1 DEF Typed
  <2>2. Abandoned(messages[i]) \in Outbox
    BY <2>1, AbandonedType
  <2>3. [Abandoned(messages[i]) EXCEPT !.cancelled = noticed] \in Outbox
    BY <2>2 DEF Outbox
  <2> QED
    BY <2>1, <2>3, <1>2
<1>6. Typed' /\ HoursInForce'
  BY <1>1, <1>2, <1>4, <1>5 DEF Typed, HoursInForce, Orderly
<1> QED
  BY <1>4, <1>6, InvariantParts

\* The operations that only reconcile an evening.
LEMMA ReconcilingKeeps ==
  ASSUME IInv, NEW day, NEW now, NEW closed,
         bookings' \in ReconciledShift(bookings, day, config.tables, closed, now),
         blocks' \subseteq Tables \X Days,
         UNCHANGED <<config, clock, messages, promise, lost>>
  PROVE  IInv'
<1>1. Typed /\ HoursInForce /\ Orderly(bookings)
  BY InvariantParts
<1>2. Orderly(bookings')
  BY <1>1, ReconciledShiftKeepsOrder
<1>3. Typed' /\ HoursInForce'
  BY <1>1, <1>2 DEF Typed, HoursInForce, Orderly
<1> QED
  BY <1>2, <1>3, InvariantParts

LEMMA ReconcileShiftKeeps ==
  ASSUME IInv, NEW day, NEW now, ReconcileShift(day, now)
  PROVE  IInv'
<1>1. blocks \subseteq Tables \X Days
  BY DEF IInv, TypeOK, Typed
<1> QED
  BY <1>1, ReconcilingKeeps DEF ReconcileShift

LEMMA BlockTablesKeeps ==
  ASSUME IInv, NEW day \in Days, NEW asked \in SUBSET Tables, NEW now,
         BlockTables(day, asked, now)
  PROVE  IInv'
<1>1. blocks \subseteq Tables \X Days
  BY DEF IInv, TypeOK, Typed
<1>2. blocks' \subseteq Tables \X Days
  BY <1>1 DEF BlockTables
<1> QED
  BY <1>2, ReconcilingKeeps DEF BlockTables

LEMMA UnblockTablesKeeps ==
  ASSUME IInv, NEW day \in Days, NEW asked \in SUBSET Tables, NEW now,
         UnblockTables(day, asked, now)
  PROVE  IInv'
<1>1. blocks \subseteq Tables \X Days
  BY DEF IInv, TypeOK, Typed
<1>2. blocks' \subseteq Tables \X Days
  BY <1>1 DEF UnblockTables
<1> QED
  BY <1>2, ReconcilingKeeps DEF UnblockTables

\* A settled draft is a config whose hours are legal.
LEMMA ResolvedConfig ==
  ASSUME config \in ConfigType, NEW draft \in Drafts, NEW now, MaySave(draft, now)
  PROVE  /\ Resolve(draft, config) \in ConfigType
         /\ \A d \in Days : HoursAreLegal(Resolve(draft, config).week[d],
                                          Resolve(draft, config).turn_minutes)
<1>1. IsDraft(draft)
  BY RoomAssumption
<1>2. config.tables \in [Tables -> [seats : Nat, retired : BOOLEAN]]
  BY DEF ConfigType
<1>3. ASSUME NEW t \in Tables
      PROVE  ResolveTables(draft, config)[t] \in [seats : Nat, retired : BOOLEAN]
  <2>1. CASE t \in DOMAIN draft.tables
    <3>1. ResolveTables(draft, config)[t] = [seats |-> draft.tables[t], retired |-> FALSE]
      BY <2>1 DEF ResolveTables
    <3>2. draft.tables[t] \in Nat
      BY <2>1, <1>1 DEF IsDraft
    <3> QED
      BY <3>1, <3>2
  <2>2. CASE t \notin DOMAIN draft.tables
    <3>1. ResolveTables(draft, config)[t] = [config.tables[t] EXCEPT !.retired = TRUE]
      BY <2>2 DEF ResolveTables
    <3> QED
      BY <3>1, <1>2
  <2> QED
    BY <2>1, <2>2
<1>4. ResolveTables(draft, config) \in [Tables -> [seats : Nat, retired : BOOLEAN]]
  BY <1>3 DEF ResolveTables
<1>5. Resolve(draft, config) \in ConfigType
  BY <1>1, <1>4 DEF Resolve, IsDraft, ConfigType
<1>6. ValidConfig(Resolve(draft, config))
  BY DEF MaySave
<1> QED
  BY <1>5, <1>6 DEF ValidConfig

\* The exclusion constraint judges what a save writes; the rest of the
\* invariant holds of it anyway.
LEMMA SaveSettingsKeeps ==
  ASSUME IInv, NEW draft \in Drafts, NEW now, SaveSettings(draft, now)
  PROVE  IInv'
<1> DEFINE cfg == Resolve(draft, config)
           loaded == {j \in Ids : IsLive(bookings[j]) /\ now < bookings[j].window.end}
           sub == [i \in loaded |-> bookings[i]]
           closed == {k \in blocks : CurrentServiceDay(cfg, now) - 1 <= k[2]}
<1>1. Typed /\ HoursInForce /\ Orderly(bookings)
  BY InvariantParts
<1>2. PICK seat \in Reseatings(sub, cfg.tables, closed, now) :
        bookings' = Reseated(bookings, seat, DOMAIN seat)
  BY DEF SaveSettings, SavedRooms, ReconciledFrom, Unfinished
<1> DEFINE who == Candidates(sub, cfg.tables, closed, now)
<1>3. who \subseteq Ids /\ seat \in [who -> Seats]
  BY DEF Reseatings, Candidates
<1>4. bookings' \in [Ids -> Row] /\ InShift(bookings')
  <2>1. bookings \in [Ids -> Row] /\ InShift(bookings)
    BY <1>1 DEF Orderly
  <2> HIDE DEF who
  <2> QED
    BY <2>1, <1>2, <1>3, ReseatedRows
<1>5. Orderly(bookings')
  BY <1>4 DEF SaveSettings, Orderly
<1>6. config' \in ConfigType /\ HoursInForce'
  <2>1. config' = cfg /\ MaySave(draft, now) /\ config \in ConfigType
    BY <1>1 DEF SaveSettings, Typed
  <2> QED
    BY <2>1, ResolvedConfig DEF HoursInForce
<1>7. Typed'
  BY <1>1, <1>4, <1>6 DEF SaveSettings, Typed
<1> QED
  BY <1>5, <1>6, <1>7, InvariantParts

LEMMA DeliverReminderKeeps ==
  ASSUME IInv, NEW i \in Ids, NEW now, DeliverReminder(i, now)
  PROVE  IInv'
<1>1. Typed /\ HoursInForce /\ Orderly(bookings)
  BY InvariantParts
<1>2. PICK outcome \in {"sent", "gave_up"} :
        messages' = [messages EXCEPT ![i] = Settled(messages[i], outcome)]
  BY DEF DeliverReminder
<1>3. messages' \in [Ids -> Outbox]
  <2>1. messages[i] \in Outbox /\ messages \in [Ids -> Outbox]
    BY <1>1 DEF Typed
  <2> QED
    BY <2>1, <1>2, SettledType
<1>4. UNCHANGED <<bookings, blocks, config, clock, promise, lost>>
  BY DEF DeliverReminder
<1>5. Typed' /\ HoursInForce' /\ Orderly(bookings')
  BY <1>1, <1>3, <1>4 DEF Typed, HoursInForce
<1> QED
  BY <1>5, InvariantParts

LEMMA ReadOfferKeeps ==
  ASSUME IInv, NEW g \in Guests, NEW day \in Days, NEW now, ReadOffer(g, day, now)
  PROVE  IInv'
<1>1. Typed /\ HoursInForce /\ Orderly(bookings)
  BY InvariantParts
<1>2. ReplacedOn(Running(bookings, g, now), bookings, day, now) \in SUBSET Ids
  BY DEF ReplacedOn, Running
<1>3. promise' \in [Guests -> [day : Days, replacing : SUBSET Ids]]
  BY <1>1, <1>2 DEF ReadOffer, Typed
<1>4. Typed' /\ HoursInForce' /\ Orderly(bookings')
  BY <1>1, <1>3 DEF ReadOffer, Typed, HoursInForce
<1> QED
  BY <1>4, InvariantParts

-----------------------------------------------------------------------------
(***************************************************************************)
(* The inductive invariant.                                                *)
(***************************************************************************)

LEMMA InitHolds ==
  ASSUME Init
  PROVE  IInv
<1>1. NoRow \in Row /\ ~Occupies(NoRow) /\ NoRow.status = "absent"
  <2>1. 0 \in Days
    BY CalendarAssumption DEF Days
  <2> QED
    BY <2>1 DEF NoRow, Row, Windows, Seats, Statuses, Occupies, IsLive
<1>2. NoMessages \in Outbox
  BY DEF NoMessages, Outbox, NoHour
<1>3. NoPromise \in [day : Days, replacing : SUBSET Ids]
  BY CalendarAssumption DEF NoPromise, Days
<1>4. Typed
  BY <1>1, <1>2, <1>3, RoomAssumption DEF Init, Typed
<1>5. HoursInForce
  BY RoomAssumption DEF Init, HoursInForce, ValidConfig
<1>6. Orderly(bookings)
  BY <1>1 DEF Init, Orderly, InShift, Exclusive
<1> QED
  BY <1>4, <1>5, <1>6, InvariantParts

LEMMA StepKeeps ==
  ASSUME IInv, [Next]_vars
  PROVE  IInv'
<1>1. Typed /\ clock \in Nat /\ Moments \subseteq Nat
  BY DEF IInv, TypeOK, Typed, Moments
<1>2. Unused \subseteq Ids /\ Live \subseteq Ids /\ Parties \subseteq Nat /\ NoGuest \in {NoGuest}
  BY RoomAssumption DEF Unused, Live
<1>3. CASE StaffBooks
  BY <1>1, <1>2, <1>3, CreateBookingKeeps DEF StaffBooks, StaffBook
<1>4. CASE GuestBooks
  <2>1. \A g \in Guests : promise[g].day \in Days
    BY <1>1 DEF Typed
  <2> QED
    BY <2>1, <1>1, <1>2, <1>4, CreateBookingKeeps DEF GuestBooks, GuestBook
<1>5. CASE GuestReads
  BY <1>5, ReadOfferKeeps DEF GuestReads
<1>6. CASE WalksIn
  BY <1>1, <1>2, <1>6, SeatWalkInKeeps DEF WalksIn
<1>7. CASE StaffMark
  <2>1. {"confirmed", "arrived", "no_show", "left"} \subseteq Statuses \ {"absent"}
    BY DEF Statuses
  <2> QED
    BY <2>1, <1>1, <1>2, <1>7, SetAttendanceKeeps DEF StaffMark
<1>8. CASE StaffMove
  BY <1>1, <1>2, <1>8, MoveBookingKeeps DEF StaffMove
<1>9. CASE StaffCancels
  <2>1. PICK now \in Moments, i \in Live, reason \in BOOLEAN : StaffCancel(i, reason, now)
    BY <1>9 DEF StaffCancels
  <2>2. (reason /\ bookings[i].user # NoGuest) \in BOOLEAN
    OBVIOUS
  <2> QED
    BY <2>1, <2>2, <1>1, <1>2, CancelLockedKeeps DEF StaffCancel
<1>10. CASE GuestCancels
  BY <1>1, <1>2, <1>10, CancelLockedKeeps DEF GuestCancels, GuestCancel
<1>11. CASE GuestTapsReminder
  BY <1>1, <1>2, <1>11, CancelLockedKeeps DEF GuestTapsReminder, CancelReminded
<1>12. CASE StaffReconcile
  BY <1>12, ReconcileShiftKeeps DEF StaffReconcile
<1>13. CASE StaffClose
  BY <1>13, BlockTablesKeeps DEF StaffClose
<1>14. CASE StaffReopen
  BY <1>14, UnblockTablesKeeps DEF StaffReopen
<1>15. CASE ManagerSaves
  BY <1>15, SaveSettingsKeeps DEF ManagerSaves
<1>16. CASE SaveIsLost
  <2>1. /\ UNCHANGED <<bookings, blocks, config, clock, messages, promise>>
        /\ lost' \in BOOLEAN
    BY <1>16 DEF SaveIsLost, SaveSettingsLost
  <2> QED
    BY <2>1, InvariantParts DEF Typed, HoursInForce
<1>17. CASE WorkerDelivers
  BY <1>17, DeliverReminderKeeps DEF WorkerDelivers
<1>18. CASE Tick
  <2>1. UNCHANGED <<bookings, blocks, config, messages, promise, lost>> /\ clock' \in Nat
    BY <1>1, <1>18 DEF Tick
  <2> QED
    BY <2>1, InvariantParts DEF Typed, HoursInForce
<1>19. CASE UNCHANGED vars
  BY <1>19, InvariantParts DEF vars, Typed, HoursInForce
<1> QED
  BY <1>3, <1>4, <1>5, <1>6, <1>7, <1>8, <1>9, <1>10, <1>11, <1>12, <1>13, <1>14, <1>15,
     <1>16, <1>17, <1>18, <1>19 DEF Next

LEMMA InvariantHolds == Spec => []IInv
BY InitHolds, StepKeeps, PTL DEF Spec

(***************************************************************************)
(* Every row keeps its type, the check constraints of its table and the    *)
(* hours of its own shift, and the hours in force stay within LIMITS,      *)
(* whatever the store is asked to do and however old the clock readings.   *)
(***************************************************************************)
THEOREM TypeCorrect == Spec => []TypeOK
<1>1. IInv => TypeOK
  BY DEF IInv
<1> QED
  BY <1>1, InvariantHolds, PTL

(***************************************************************************)
(* No two parties are ever at one table at one moment: taking, moving,     *)
(* seating, restoring and reconciling never write what the exclusion       *)
(* constraint of the booking table would refuse, so it never has to speak  *)
(* for them; for a save, which can run into it, the transaction is lost.   *)
(***************************************************************************)
THEOREM OneTableOneParty == Spec => []NoDoubleBooking
<1>1. IInv => NoDoubleBooking
  BY DEF IInv
<1> QED
  BY <1>1, InvariantHolds, PTL
=============================================================================
