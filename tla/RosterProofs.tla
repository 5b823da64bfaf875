---------------------------- MODULE RosterProofs ----------------------------
(***************************************************************************)
(* What is proved of the roster, for every set of accounts and usernames,  *)
(* every length of a second, skew and drift of the clocks, and every       *)
(* number of payloads and of requests at a time: who holds a seat, what a  *)
(* stored profile is worth, and that every instant on record has been.     *)
(***************************************************************************)
EXTENDS Roster, TLAPS

(***************************************************************************)
(* The inductive invariant.  That a profile is the last one signed follows *)
(* from what the store does know: stamps grow with the order of signing, a *)
(* row has the newest stamp that came, and of two names in that second it  *)
(* says so.                                                                *)
(***************************************************************************)
PayloadType == [account : Accounts, username : Names, stamp : Int, at : Int]
SeatRowType == [invited_at : Int, holder : Accounts \cup {None}]
ProfileType == [seen : BOOLEAN, username : Names, stamp : Int, signed : BOOLEAN,
                contested : BOOLEAN, number : Int]

Typed ==
  /\ signed \in Seq(PayloadType)
  /\ seats \in [Usernames -> SeatRowType]
  /\ rows \in [Accounts -> ProfileType]
  /\ visits \subseteq [payload : DOMAIN signed, offered : BOOLEAN]
  /\ clock \in Int
  /\ handled \subseteq DOMAIN signed

\* No stamp is later than now, nor later than its moment by more than the skew.
StampsAreSound ==
  /\ \A n \in DOMAIN signed :
       signed[n].stamp <= Stamp /\ signed[n].stamp - ClockSkew <= signed[n].at
  /\ \A n, m \in DOMAIN signed : n < m => signed[n].stamp <= signed[m].stamp

\* A signed row is that of one of its account's payloads.
RowsAreOfPayloads ==
  \A a \in Accounts : rows[a].signed =>
    /\ rows[a].seen
    /\ rows[a].number \in DOMAIN signed
    /\ rows[a].stamp = signed[rows[a].number].stamp

\* Of what has come nothing is newer than the row, and nothing of its second
\* has another name unless the row says so.
NothingIsNewer ==
  \A n \in handled :
    LET row == rows[signed[n].account]
    IN /\ row.signed
       /\ signed[n].stamp <= row.stamp
       /\ signed[n].stamp = row.stamp /\ signed[n].username # row.username => row.contested

Inv ==
  /\ Typed /\ StampsAreSound /\ RowsAreOfPayloads /\ NothingIsNewer
  /\ SeatsForTheInvited /\ OneSeatEach

-----------------------------------------------------------------------------
\* Seconds.

LEMMA SecondsGrow ==
  ASSUME NEW p \in Nat \ {0}, NEW x \in Int, NEW y \in Int, x <= y
  PROVE  (x \div p) * p <= (y \div p) * p
<1> DEFINE q == x \div p
           r == y \div p
<1>1. q \in Int /\ r \in Int
  OBVIOUS
<1>2. q * p <= x /\ y < r * p + p
  OBVIOUS
<1>3. q <= r
  <2> SUFFICES ASSUME r + 1 <= q PROVE FALSE
    BY <1>1
  <2>1. (r + 1) * p <= q * p
    BY <1>1
  <2>2. (r + 1) * p = r * p + p
    BY <1>1
  <2> QED
    BY <2>1, <2>2, <1>1, <1>2
<1> HIDE DEF q, r
<1> QED
  BY <1>1, <1>3

LEMMA SecondsBegin ==
  ASSUME NEW p \in Nat \ {0}, NEW x \in Int
  PROVE  (x \div p) * p \in Int /\ (x \div p) * p <= x
OBVIOUS

LEMMA InitHolds == Init => Inv
<1> SUFFICES ASSUME Init PROVE Inv
  OBVIOUS
<1>1. signed = <<>> /\ DOMAIN signed = {} /\ visits = {} /\ handled = {} /\ clock = 0
  BY DEF Init
<1>2. seats \in [Usernames -> SeatRowType] /\ rows \in [Accounts -> ProfileType]
  BY DEF Init, SeatRowType, ProfileType, NoSeat, Unseen, Names
<1>3. \A u \in Usernames : seats[u].holder = None
  BY DEF Init, NoSeat
<1>4. \A a \in Accounts : ~rows[a].signed
  BY DEF Init, Unseen
<1> QED
  BY <1>1, <1>2, <1>3, <1>4 DEF Inv, Typed, StampsAreSound, RowsAreOfPayloads, NothingIsNewer,
     SeatsForTheInvited, OneSeatEach

-----------------------------------------------------------------------------
(***************************************************************************)
(* Telegram, managers and time.                                            *)
(***************************************************************************)

LEMMA Payloads ==
  ASSUME Inv, NEW n \in DOMAIN signed
  PROVE  /\ signed[n].account \in Accounts /\ signed[n].username \in Names
         /\ signed[n].stamp \in Int /\ signed[n].at \in Int
<1>1. signed[n] \in PayloadType
  BY DEF Inv, Typed
<1> QED
  BY <1>1 DEF PayloadType

LEMMA StampIsNow ==
  ASSUME clock \in Int
  PROVE  Stamp \in Int /\ Stamp <= clock + Drift
<1>1. clock + Drift \in Int /\ PerSecond \in Nat \ {0}
  BY RosterAssumption
<1> QED
  BY <1>1, SecondsBegin DEF Stamp

LEMMA SignKeeps ==
  ASSUME Inv, NEW a \in Accounts, NEW u \in Names, Sign(a, u)
  PROVE  Inv'
<1> DEFINE payload == [account |-> a, username |-> u, stamp |-> Stamp, at |-> clock]
<1>1. /\ signed' = Append(signed, payload)
      /\ UNCHANGED <<seats, rows, visits, clock, handled>>
  BY DEF Sign
<1>2. payload \in PayloadType /\ signed \in Seq(PayloadType)
  BY StampIsNow DEF PayloadType, Inv, Typed
<1>3. /\ signed' \in Seq(PayloadType)
      /\ DOMAIN signed' = DOMAIN signed \cup {Len(signed) + 1}
      /\ \A n \in DOMAIN signed : signed'[n] = signed[n] /\ n < Len(signed) + 1
      /\ signed'[Len(signed) + 1] = payload
  BY <1>1, <1>2
<1>4. Stamp' = Stamp /\ Stamp - ClockSkew <= clock
  BY <1>1, StampIsNow, RosterAssumption DEF Stamp, Inv, Typed
<1>5. Typed'
  BY <1>1, <1>3 DEF Inv, Typed
<1>6. StampsAreSound'
  <2>1. \A n \in DOMAIN signed' :
          signed'[n].stamp <= Stamp' /\ signed'[n].stamp - ClockSkew <= signed'[n].at
    BY <1>3, <1>4, StampIsNow DEF Inv, Typed, StampsAreSound
  <2>2. \A n, m \in DOMAIN signed' : n < m => signed'[n].stamp <= signed'[m].stamp
    BY <1>2, <1>3 DEF Inv, StampsAreSound
  <2> QED
    BY <2>1, <2>2 DEF StampsAreSound
<1>7. RowsAreOfPayloads' /\ NothingIsNewer'
  BY <1>1, <1>3 DEF Inv, Typed, RowsAreOfPayloads, NothingIsNewer
<1>8. SeatsForTheInvited' /\ OneSeatEach'
  BY <1>1, <1>3 DEF Inv, Typed, SeatsForTheInvited, OneSeatEach
<1> QED
  BY <1>5, <1>6, <1>7, <1>8 DEF Inv

LEMMA SaveRosterKeeps ==
  ASSUME Inv, NEW us \in SUBSET Usernames, SaveRoster(us)
  PROVE  Inv'
<1>1. seats' = WriteStaff(us) /\ UNCHANGED <<signed, rows, visits, clock, handled>>
  BY DEF SaveRoster
<1>2. \A u \in Usernames :
        /\ seats'[u] \in SeatRowType
        /\ seats'[u].holder # None => seats'[u] = seats[u]
  BY <1>1 DEF WriteStaff, SeatRowType, NoSeat, Inv, Typed
<1>3. Typed'
  BY <1>1, <1>2 DEF WriteStaff, Inv, Typed
<1>4. StampsAreSound' /\ RowsAreOfPayloads' /\ NothingIsNewer'
  BY <1>1 DEF Inv, StampsAreSound, Stamp, RowsAreOfPayloads, NothingIsNewer
<1>5. SeatsForTheInvited' /\ OneSeatEach'
  BY <1>1, <1>2 DEF Inv, SeatsForTheInvited, OneSeatEach
<1> QED
  BY <1>3, <1>4, <1>5 DEF Inv

LEMMA TickKeeps ==
  ASSUME Inv, Tick
  PROVE  Inv'
<1>1. clock \in Int /\ clock' = clock + 1 /\ UNCHANGED <<signed, seats, rows, visits, handled>>
  BY DEF Tick, Inv, Typed
<1>2. Stamp <= Stamp' /\ Stamp \in Int /\ Stamp' \in Int
  <2>1. clock + Drift <= clock' + Drift /\ clock + Drift \in Int /\ clock' + Drift \in Int
    BY <1>1, RosterAssumption
  <2> QED
    BY <2>1, SecondsGrow, SecondsBegin, RosterAssumption DEF Stamp
<1>3. \A n \in DOMAIN signed : signed[n].stamp \in Int
  BY Payloads
<1>4. Typed' /\ StampsAreSound'
  BY <1>1, <1>2, <1>3 DEF Inv, Typed, StampsAreSound
<1> QED
  BY <1>1, <1>4 DEF Inv, RowsAreOfPayloads, NothingIsNewer, SeatsForTheInvited, OneSeatEach

-----------------------------------------------------------------------------
(***************************************************************************)
(* Requests.                                                               *)
(***************************************************************************)

LEMMA VisitsKeep ==
  ASSUME Inv, UNCHANGED <<signed, seats, rows, clock, handled>>,
         visits' \subseteq [payload : DOMAIN signed, offered : BOOLEAN]
  PROVE  Inv'
BY DEF Inv, Typed, StampsAreSound, Stamp, RowsAreOfPayloads, NothingIsNewer, SeatsForTheInvited,
   OneSeatEach

LEMMA RecogniseKeeps ==
  ASSUME Inv, NEW n \in DOMAIN signed, Recognise(n)
  PROVE  Inv'
<1> DEFINE a == signed[n].account
<1>1. /\ ~rows[a].seen
      /\ rows' = [rows EXCEPT ![a].seen = TRUE, ![a].username = signed[n].username]
      /\ UNCHANGED <<signed, seats, visits, clock, handled>>
  BY DEF Recognise
<1>2. a \in Accounts /\ signed[n].username \in Names
  BY Payloads
<1>3. ~rows[a].signed /\ \A m \in handled : signed[m].account # a
  BY <1>1, <1>2 DEF Inv, RowsAreOfPayloads, NothingIsNewer
<1>4. rows' \in [Accounts -> ProfileType] /\ ~rows'[a].signed
      /\ \A b \in Accounts \ {a} : rows'[b] = rows[b]
  <2> DEFINE row == [rows[a] EXCEPT !.seen = TRUE, !.username = signed[n].username]
  <2>1. rows' = [rows EXCEPT ![a] = row]
    BY <1>1
  <2>2. rows[a] \in ProfileType /\ rows \in [Accounts -> ProfileType]
    BY <1>2 DEF Inv, Typed
  <2>3. row \in ProfileType /\ row.signed = rows[a].signed
    BY <1>2, <2>2 DEF ProfileType
  <2> HIDE DEF a, row
  <2> QED
    BY <1>2, <1>3, <2>1, <2>2, <2>3
<1>5. Typed' /\ StampsAreSound'
  BY <1>1, <1>4 DEF Inv, Typed, StampsAreSound, Stamp
<1>6. RowsAreOfPayloads'
  BY <1>1, <1>4 DEF Inv, RowsAreOfPayloads
<1>7. NothingIsNewer'
  <2>1. \A m \in handled : signed[m].account \in Accounts \ {a}
    BY <1>3, Payloads DEF Inv, Typed
  <2> QED
    BY <1>1, <1>4, <2>1 DEF Inv, NothingIsNewer
<1>8. SeatsForTheInvited' /\ OneSeatEach'
  BY <1>1 DEF Inv, SeatsForTheInvited, OneSeatEach
<1> QED
  BY <1>5, <1>6, <1>7, <1>8 DEF Inv

(***************************************************************************)
(* The transaction, row by row.                                            *)
(***************************************************************************)

\* A payload that rewrites its account's row is the newest of those that came,
\* and those of its second have its name.
LEMMA RewritingIsNewest ==
  ASSUME Inv, NEW n \in DOMAIN signed, Rewritten(rows[signed[n].account], signed[n])
  PROVE  \A m \in handled : signed[m].account = signed[n].account =>
           /\ signed[m].stamp <= signed[n].stamp
           /\ m > n \/ signed[m].stamp = signed[n].stamp =>
                signed[m].username = signed[n].username
<1> DEFINE row == rows[signed[n].account]
<1> SUFFICES ASSUME NEW m \in handled, signed[m].account = signed[n].account
             PROVE  /\ signed[m].stamp <= signed[n].stamp
                    /\ m > n \/ signed[m].stamp = signed[n].stamp =>
                         signed[m].username = signed[n].username
  OBVIOUS
<1>1. m \in DOMAIN signed /\ DOMAIN signed \subseteq Int
  BY DEF Inv, Typed
<1>2. /\ signed[m].stamp \in Int /\ signed[n].stamp \in Int
      /\ signed[n].account \in Accounts
  BY <1>1, Payloads
<1>3. row.stamp \in Int
  BY <1>2 DEF Inv, Typed, ProfileType
<1>4. /\ row.signed /\ signed[m].stamp <= row.stamp
      /\ signed[m].stamp = row.stamp /\ signed[m].username # row.username => row.contested
  BY DEF Inv, NothingIsNewer
<1>5. m > n => signed[n].stamp <= signed[m].stamp
  BY <1>1 DEF Inv, StampsAreSound
<1>6. row.stamp < signed[n].stamp
      \/ (row.stamp = signed[n].stamp /\ row.username = signed[n].username /\ ~row.contested)
  BY <1>4 DEF Rewritten
<1> HIDE DEF row
<1> QED
  BY <1>2, <1>3, <1>4, <1>5, <1>6

LEMMA IdentifyRecords ==
  ASSUME Inv, NEW v \in visits, Identify(v)
  PROVE  RowsAreOfPayloads' /\ NothingIsNewer' /\ rows' \in [Accounts -> ProfileType]
<1> DEFINE n == v.payload
           payload == signed[n]
           a == payload.account
           row == rows[a]
           new == RecordProfile(row, n)
<1>1. /\ rows' = [rows EXCEPT ![a] = new] /\ handled' = handled \cup {n}
      /\ signed' = signed
  BY DEF Identify
<1>2. n \in DOMAIN signed /\ DOMAIN signed \subseteq Int /\ handled \subseteq DOMAIN signed
  BY DEF Inv, Typed
<1>3. a \in Accounts /\ payload.username \in Names /\ payload.stamp \in Int
  BY <1>2, Payloads
<1>4. row \in ProfileType /\ rows \in [Accounts -> ProfileType]
  BY <1>3 DEF Inv, Typed
<1>5. rows'[a] = new /\ \A b \in Accounts \ {a} : rows'[b] = rows[b]
  BY <1>1, <1>3, <1>4
<1>6. new \in ProfileType
  <2>1. CASE Rewritten(row, payload)
    BY <2>1, <1>2, <1>3 DEF RecordProfile, ProfileType
  <2>2. CASE ~Rewritten(row, payload)
    BY <2>2, <1>4 DEF RecordProfile, ProfileType
  <2> QED
    BY <2>1, <2>2
<1>7. new.signed /\ payload.stamp <= new.stamp
      /\ (payload.stamp = new.stamp /\ payload.username # new.username => new.contested)
  <2>1. CASE Rewritten(row, payload)
    BY <2>1, <1>3 DEF RecordProfile
  <2>2. CASE ~Rewritten(row, payload)
    <3>1. /\ new.signed = row.signed /\ new.stamp = row.stamp /\ new.username = row.username
          /\ row.stamp = payload.stamp /\ row.username # payload.username => new.contested
      BY <2>2, <1>4 DEF RecordProfile, ProfileType
    <3>2. row.signed /\ ~(row.stamp < payload.stamp) /\ row.stamp \in Int
      BY <2>2, <1>4 DEF Rewritten, ProfileType
    <3> HIDE DEF new, row, payload
    <3> QED
      BY <3>1, <3>2, <1>3
  <2> QED
    BY <2>1, <2>2
<1>8. \A m \in handled : signed[m].account = a =>
        /\ signed[m].stamp <= new.stamp
        /\ signed[m].stamp = new.stamp /\ signed[m].username # new.username => new.contested
  <2> SUFFICES ASSUME NEW m \in handled, signed[m].account = a
               PROVE  /\ signed[m].stamp <= new.stamp
                      /\ signed[m].stamp = new.stamp /\ signed[m].username # new.username
                           => new.contested
    OBVIOUS
  <2>1. CASE Rewritten(row, payload)
    <3>1. new.stamp = payload.stamp /\ new.username = payload.username
      BY <2>1 DEF RecordProfile
    <3> QED
      BY <3>1, <2>1, <1>2, RewritingIsNewest
  <2>2. CASE ~Rewritten(row, payload)
    <3>1. /\ new.stamp = row.stamp /\ new.username = row.username
          /\ row.contested => new.contested
      BY <2>2, <1>4 DEF RecordProfile, ProfileType
    <3>2. /\ signed[m].stamp <= row.stamp
          /\ signed[m].stamp = row.stamp /\ signed[m].username # row.username => row.contested
      BY DEF Inv, NothingIsNewer
    <3> HIDE DEF new, row
    <3> QED
      BY <3>1, <3>2
  <2> QED
    BY <2>1, <2>2
<1>9. new.seen /\ new.number \in DOMAIN signed /\ new.stamp = signed[new.number].stamp
  <2>1. CASE Rewritten(row, payload)
    BY <2>1, <1>2 DEF RecordProfile
  <2>2. CASE ~Rewritten(row, payload)
    <3>1. /\ new.seen = row.seen /\ new.number = row.number /\ new.stamp = row.stamp
          /\ row.signed
      BY <2>2, <1>4 DEF RecordProfile, Rewritten, ProfileType
    <3> HIDE DEF new
    <3> QED
      BY <3>1, <1>3 DEF Inv, RowsAreOfPayloads
  <2> QED
    BY <2>1, <2>2
<1> HIDE DEF new
<1>10. RowsAreOfPayloads'
  BY <1>1, <1>5, <1>9 DEF Inv, RowsAreOfPayloads
<1>11. NothingIsNewer'
  <2> SUFFICES ASSUME NEW m \in handled \cup {n}
               PROVE  /\ rows'[signed[m].account].signed
                      /\ signed[m].stamp <= rows'[signed[m].account].stamp
                      /\ (signed[m].stamp = rows'[signed[m].account].stamp
                           /\ signed[m].username # rows'[signed[m].account].username
                             => rows'[signed[m].account].contested)
    BY <1>1 DEF NothingIsNewer
  <2>1. CASE m = n
    BY <2>1, <1>5, <1>7
  <2>2. CASE m # n /\ signed[m].account = a
    BY <2>2, <1>5, <1>7, <1>8
  <2>3. CASE m # n /\ signed[m].account # a
    <3>1. signed[m].account \in Accounts \ {a}
      BY <2>3, <1>2, Payloads
    <3> QED
      BY <2>3, <3>1, <1>5 DEF Inv, NothingIsNewer
  <2> QED
    BY <2>1, <2>2, <2>3
<1>12. rows' \in [Accounts -> ProfileType]
  BY <1>1, <1>3, <1>4, <1>6
<1> QED
  BY <1>10, <1>11, <1>12

LEMMA IdentifyBinds ==
  ASSUME Inv, NEW v \in visits, Identify(v)
  PROVE  SeatsForTheInvited' /\ OneSeatEach' /\ seats' \in [Usernames -> SeatRowType]
<1> DEFINE n == v.payload
           payload == signed[n]
<1>1. /\ handled' = handled \cup {n} /\ signed' = signed
      /\ seats' \in {seats, BindStaffSeat(payload)}
  BY DEF Identify
<1>2. n \in DOMAIN signed
  BY DEF Inv, Typed
<1>3. payload.account \in Accounts /\ payload.stamp \in Int /\ payload.at \in Int
  BY <1>2, Payloads
<1>4. CASE seats' = seats
  BY <1>1, <1>4 DEF Inv, Typed, SeatsForTheInvited, OneSeatEach
<1>5. CASE seats' # seats
  <2> DEFINE u == payload.username
  <2>1. MayClaim(payload) /\ seats' = [seats EXCEPT ![u].holder = payload.account]
    BY <1>1, <1>5 DEF BindStaffSeat
  <2>2. u \in Usernames
    <3>1. u \in Names /\ u # None
      BY <2>1, <1>2, Payloads DEF MayClaim, Offered
    <3> QED
      BY <3>1 DEF Names
  <2>3. /\ seats'[u] = [seats[u] EXCEPT !.holder = payload.account]
        /\ \A w \in Usernames \ {u} : seats'[w] = seats[w]
    BY <2>1, <2>2 DEF Inv, Typed
  <2>4. seats[u] \in SeatRowType
    BY <2>2 DEF Inv, Typed
  <2>5. /\ seats'[u] \in SeatRowType /\ seats'[u].holder = payload.account
        /\ seats'[u].invited_at = seats[u].invited_at
    BY <2>3, <2>4, <1>3 DEF SeatRowType
  <2>6. payload.at >= seats[u].invited_at
    <3>1. seats[u].invited_at <= payload.stamp - ClockSkew /\ seats[u].invited_at \in Int
      BY <2>1, <2>4 DEF MayClaim, SeatRowType
    <3>2. payload.stamp - ClockSkew <= payload.at
      BY <1>2 DEF Inv, StampsAreSound
    <3> QED
      BY <3>1, <3>2, <1>3, RosterAssumption
  <2>7. SeatsForTheInvited'
    <3> SUFFICES ASSUME NEW w \in Usernames, seats'[w].holder # None
                 PROVE  \E m \in handled \cup {n} :
                          /\ signed[m].account = seats'[w].holder /\ signed[m].username = w
                          /\ signed[m].at >= seats'[w].invited_at
      BY <1>1 DEF SeatsForTheInvited
    <3>1. CASE w = u
      BY <3>1, <2>5, <2>6
    <3>2. CASE w # u
      <4>1. seats'[w] = seats[w]
        BY <3>2, <2>3
      <4> QED
        BY <4>1 DEF Inv, SeatsForTheInvited
    <3> QED
      BY <3>1, <3>2
  <2>8. OneSeatEach'
    BY <2>1, <2>3, <2>5 DEF MayClaim, Inv, OneSeatEach
  <2>9. seats' \in [Usernames -> SeatRowType]
    <3>1. seats' = [seats EXCEPT ![u] = [seats[u] EXCEPT !.holder = payload.account]]
      BY <2>1
    <3>2. [seats[u] EXCEPT !.holder = payload.account] \in SeatRowType
      BY <2>3, <2>5
    <3> QED
      BY <3>1, <3>2, <2>2 DEF Inv, Typed
  <2> QED
    BY <2>7, <2>8, <2>9
<1> QED
  BY <1>4, <1>5

LEMMA IdentifyKeeps ==
  ASSUME Inv, NEW v \in visits, Identify(v)
  PROVE  Inv'
<1>1. /\ visits' = visits \ {v} /\ handled' = handled \cup {v.payload}
      /\ UNCHANGED <<signed, clock>>
  BY DEF Identify
<1>2. v.payload \in DOMAIN signed
  BY DEF Inv, Typed
<1>3. Typed'
  BY <1>1, <1>2, IdentifyRecords, IdentifyBinds DEF Inv, Typed
<1>4. StampsAreSound'
  BY <1>1 DEF Inv, StampsAreSound, Stamp
<1> QED
  BY <1>3, <1>4, IdentifyRecords, IdentifyBinds DEF Inv

-----------------------------------------------------------------------------
LEMMA StepKeeps == Inv /\ [Next]_vars => Inv'
<1> SUFFICES ASSUME Inv, [Next]_vars PROVE Inv'
  OBVIOUS
<1>1. CASE \E a \in Accounts, u \in Names : Sign(a, u)
  BY <1>1, SignKeeps
<1>2. CASE \E us \in SUBSET Usernames : SaveRoster(us)
  BY <1>2, SaveRosterKeeps
<1>3. CASE \E n \in DOMAIN signed : SeatOffered(n)
  <2>1. PICK n \in DOMAIN signed : SeatOffered(n)
    BY <1>3
  <2>2. Offered(signed[n].username) \in BOOLEAN
    BY DEF Offered
  <2>3. visits' \subseteq [payload : DOMAIN signed, offered : BOOLEAN]
    BY <2>1, <2>2 DEF SeatOffered, Inv, Typed
  <2> QED
    BY <2>1, <2>3, VisitsKeep DEF SeatOffered
<1>4. CASE \E n \in DOMAIN signed : Recognise(n)
  BY <1>4, RecogniseKeeps
<1>5. CASE \E v \in visits : Identify(v)
  BY <1>5, IdentifyKeeps
<1>6. CASE \E v \in visits : Abandon(v)
  <2>1. visits' \subseteq [payload : DOMAIN signed, offered : BOOLEAN]
    BY <1>6 DEF Abandon, Inv, Typed
  <2> QED
    BY <1>6, <2>1, VisitsKeep DEF Abandon
<1>7. CASE Tick
  BY <1>7, TickKeeps
<1>8. CASE UNCHANGED vars
  BY <1>8, VisitsKeep DEF vars, Inv, Typed
<1> QED
  BY <1>1, <1>2, <1>3, <1>4, <1>5, <1>6, <1>7, <1>8 DEF Next

LEMMA InvAlways == Spec => []Inv
BY InitHolds, StepKeeps, PTL DEF Spec

(***************************************************************************)
(* Whoever holds a seat went by its username at or after the moment it was *)
(* offered, whatever was withdrawn, renamed or delayed meanwhile: because  *)
(* a stamp is never more than the skew ahead of its moment.                *)
(***************************************************************************)
THEOREM SeatIsOfTheInvited == Spec => []SeatsForTheInvited
<1>1. Inv => SeatsForTheInvited
  BY DEF Inv
<1> QED
  BY <1>1, InvAlways, PTL

(***************************************************************************)
(* No account ever holds two seats.                                        *)
(***************************************************************************)
THEOREM SeatIsTheOnlyOne == Spec => []OneSeatEach
<1>1. Inv => OneSeatEach
  BY DEF Inv
<1> QED
  BY <1>1, InvAlways, PTL

(***************************************************************************)
(* The stored profile is the last one signed of those that came, or shares *)
(* its second with it and is marked, in whatever order payloads come.      *)
(***************************************************************************)
THEOREM ProfileIsTheLast == Spec => []ProfileIsLastSigned
<1>1. Inv => ProfileIsLastSigned
  <2> SUFFICES ASSUME Inv, NEW n \in handled,
                      n > rows[signed[n].account].number,
                      signed[n].username # rows[signed[n].account].username
               PROVE  /\ signed[n].stamp = rows[signed[n].account].stamp
                      /\ rows[signed[n].account].contested
    BY DEF ProfileIsLastSigned
  <2> DEFINE row == rows[signed[n].account]
  <2>1. n \in DOMAIN signed /\ DOMAIN signed \subseteq Int
    BY DEF Inv, Typed
  <2>2. /\ row.signed /\ signed[n].stamp <= row.stamp
        /\ signed[n].stamp = row.stamp => row.contested
    BY DEF Inv, NothingIsNewer
  <2>3. signed[n].account \in Accounts /\ signed[n].stamp \in Int
    BY <2>1, Payloads
  <2>4. row.number \in DOMAIN signed /\ row.stamp = signed[row.number].stamp
    BY <2>2, <2>3 DEF Inv, RowsAreOfPayloads
  <2>5. row.stamp <= signed[n].stamp /\ row.stamp \in Int
    BY <2>1, <2>4, Payloads DEF Inv, StampsAreSound
  <2> QED
    BY <2>2, <2>3, <2>5
<1> QED
  BY <1>1, InvAlways, PTL

(***************************************************************************)
(* A payload claims a seat only if no payload signed after it that shows   *)
(* its account under another name has come before.                         *)
(***************************************************************************)
THEOREM ClaimIsOfTheNewest == Spec => ClaimedByNewestName
<1>1. Inv /\ [Next]_vars =>
        [\A v \in visits : LET payload == signed[v.payload]
         IN Identify(v) /\ seats' # seats =>
              \A n \in handled : signed[n].account = payload.account /\ n > v.payload =>
                                   signed[n].username = payload.username]_vars
  <2> SUFFICES ASSUME Inv, NEW v \in visits, Identify(v), seats' # seats
               PROVE  \A n \in handled :
                        signed[n].account = signed[v.payload].account /\ n > v.payload =>
                          signed[n].username = signed[v.payload].username
    OBVIOUS
  <2>1. v.payload \in DOMAIN signed
    BY DEF Inv, Typed
  <2>2. Rewritten(rows[signed[v.payload].account], signed[v.payload])
    BY DEF Identify
  <2> QED
    BY <2>1, <2>2, RewritingIsNewest
<1> QED
  BY <1>1, InvAlways, PTL DEF Spec, ClaimedByNewestName

-----------------------------------------------------------------------------
(***************************************************************************)
(* The type invariant.  That every instant stored is one that has passed,  *)
(* and every stamp a whole second, leans on what is known of the rows.     *)
(***************************************************************************)
PayloadsBounded ==
  /\ Len(signed) <= MaxSigned
  /\ \A n \in DOMAIN signed : signed[n].stamp \in Seconds /\ signed[n].at \in 0 .. MaxTime

SeatsBounded ==
  \A u \in Usernames :
    seats[u].invited_at \in -1 .. MaxTime /\ (seats[u].invited_at = -1 => seats[u] = NoSeat)

RowsBounded ==
  \A a \in Accounts :
    rows[a].stamp \in Seconds \cup {-1} /\ rows[a].number \in 0 .. MaxSigned

Bounded == clock \in 0 .. MaxTime /\ PayloadsBounded /\ SeatsBounded /\ RowsBounded

LEMMA SecondsAreWhole ==
  ASSUME NEW p \in Nat \ {0}, NEW k \in Int
  PROVE  (k * p) % p = 0
OBVIOUS

LEMMA SecondsEnd ==
  ASSUME NEW p \in Nat \ {0}, NEW x \in Int
  PROVE  x - p < (x \div p) * p
OBVIOUS

LEMMA StampIsWhole ==
  ASSUME clock \in 0 .. MaxTime
  PROVE  Stamp \in Seconds
<1> DEFINE x == clock + Drift
<1>1. /\ PerSecond \in Nat \ {0} /\ ClockSkew \in Nat /\ MaxTime \in Nat
      /\ x \in -ClockSkew .. MaxTime + ClockSkew
  BY RosterAssumption
<1>2. x \in Int /\ x \div PerSecond \in Int
  BY <1>1
<1> HIDE DEF x
<1>3. (x \div PerSecond) * PerSecond \in Int /\ (x \div PerSecond) * PerSecond <= x
  BY <1>1, <1>2, SecondsBegin
<1>4. x - PerSecond < (x \div PerSecond) * PerSecond
  BY <1>1, <1>2, SecondsEnd
<1>5. ((x \div PerSecond) * PerSecond) % PerSecond = 0
  BY <1>1, <1>2, SecondsAreWhole
<1>6. Stamp = (x \div PerSecond) * PerSecond
  BY DEF Stamp, x
<1>7. Stamp \in -(ClockSkew + PerSecond) .. MaxTime + ClockSkew
  BY <1>1, <1>2, <1>3, <1>4, <1>6
<1> QED
  BY <1>5, <1>6, <1>7 DEF Seconds

LEMMA InitBounded == Init => Bounded
<1> SUFFICES ASSUME Init PROVE Bounded
  OBVIOUS
<1>1. clock \in 0 .. MaxTime /\ PayloadsBounded
  BY RosterAssumption DEF Init, PayloadsBounded
<1>2. SeatsBounded
  BY RosterAssumption DEF Init, SeatsBounded, NoSeat
<1>3. RowsBounded
  BY RosterAssumption DEF Init, RowsBounded, Unseen
<1> QED
  BY <1>1, <1>2, <1>3 DEF Bounded

LEMMA SignBounded ==
  ASSUME Inv, Bounded, NEW a \in Accounts, NEW u \in Names, Sign(a, u)
  PROVE  Bounded'
<1> DEFINE payload == [account |-> a, username |-> u, stamp |-> Stamp, at |-> clock]
<1>1. /\ Len(signed) < MaxSigned /\ signed' = Append(signed, payload)
      /\ UNCHANGED <<seats, rows, visits, clock, handled>>
  BY DEF Sign
<1>2. payload.stamp \in Seconds /\ payload.at \in 0 .. MaxTime
  BY StampIsWhole DEF Bounded
<1>3. payload \in PayloadType /\ signed \in Seq(PayloadType)
  BY StampIsNow DEF PayloadType, Inv, Typed
<1> HIDE DEF payload
<1>4. /\ Len(signed') = Len(signed) + 1 /\ Len(signed) \in Nat
      /\ DOMAIN signed' = DOMAIN signed \cup {Len(signed) + 1}
      /\ \A n \in DOMAIN signed : signed'[n] = signed[n]
      /\ signed'[Len(signed) + 1] = payload
  BY <1>1, <1>3
<1>5. PayloadsBounded'
  BY <1>1, <1>2, <1>4, RosterAssumption DEF Bounded, PayloadsBounded
<1> QED
  BY <1>1, <1>5 DEF Bounded, SeatsBounded, RowsBounded

LEMMA SaveRosterBounded ==
  ASSUME Inv, Bounded, NEW us \in SUBSET Usernames, SaveRoster(us)
  PROVE  Bounded'
<1>1. seats' = WriteStaff(us) /\ UNCHANGED <<signed, rows, visits, clock, handled>>
  BY DEF SaveRoster
<1>2. SeatsBounded'
  <2> SUFFICES ASSUME NEW u \in Usernames
               PROVE  /\ seats'[u].invited_at \in -1 .. MaxTime
                      /\ seats'[u].invited_at = -1 => seats'[u] = NoSeat
    BY DEF SeatsBounded
  <2>1. CASE u \notin us
    BY <1>1, <2>1, RosterAssumption DEF WriteStaff, NoSeat
  <2>2. CASE u \in us /\ seats[u] = NoSeat
    BY <1>1, <2>2, RosterAssumption DEF WriteStaff, Bounded
  <2>3. CASE u \in us /\ seats[u] # NoSeat
    BY <1>1, <2>3 DEF WriteStaff, Bounded, SeatsBounded
  <2> QED
    BY <2>1, <2>2, <2>3
<1> QED
  BY <1>1, <1>2 DEF Bounded, PayloadsBounded, RowsBounded

LEMMA RecogniseBounded ==
  ASSUME Inv, Bounded, NEW n \in DOMAIN signed, Recognise(n)
  PROVE  Bounded'
<1> DEFINE a == signed[n].account
           row == [rows[a] EXCEPT !.seen = TRUE, !.username = signed[n].username]
<1>1. rows' = [rows EXCEPT ![a] = row] /\ UNCHANGED <<signed, seats, visits, clock, handled>>
  BY DEF Recognise
<1>2. a \in Accounts
  BY Payloads
<1>3. rows[a] \in ProfileType /\ rows \in [Accounts -> ProfileType]
  BY <1>2 DEF Inv, Typed
<1>4. row.stamp = rows[a].stamp /\ row.number = rows[a].number
  BY <1>3 DEF ProfileType
<1> HIDE DEF a, row
<1>5. rows'[a] = row /\ \A b \in Accounts \ {a} : rows'[b] = rows[b]
  BY <1>1, <1>2, <1>3
<1>6. RowsBounded'
  BY <1>2, <1>4, <1>5 DEF Bounded, RowsBounded
<1> QED
  BY <1>1, <1>6 DEF Bounded, PayloadsBounded, SeatsBounded

LEMMA IdentifyBounded ==
  ASSUME Inv, Bounded, NEW v \in visits, Identify(v)
  PROVE  Bounded'
<1> DEFINE n == v.payload
           payload == signed[n]
           a == payload.account
           row == rows[a]
           new == RecordProfile(row, n)
<1>1. /\ rows' = [rows EXCEPT ![a] = new] /\ UNCHANGED <<signed, clock>>
      /\ seats' \in {seats, BindStaffSeat(payload)}
  BY DEF Identify
<1>2. n \in DOMAIN signed /\ DOMAIN signed = 1 .. Len(signed) /\ Len(signed) \in Nat
  BY DEF Inv, Typed
<1>3. a \in Accounts /\ payload.stamp \in Seconds /\ payload.username \in Names
  BY <1>2, Payloads DEF Bounded, PayloadsBounded
<1>4. row \in ProfileType /\ rows \in [Accounts -> ProfileType]
  BY <1>3 DEF Inv, Typed
<1>5. n \in 0 .. MaxSigned
  BY <1>2, RosterAssumption DEF Bounded, PayloadsBounded
<1>6. new.stamp \in Seconds \cup {-1} /\ new.number \in 0 .. MaxSigned
  <2>1. CASE Rewritten(row, payload)
    BY <2>1, <1>3, <1>5 DEF RecordProfile
  <2>2. CASE ~Rewritten(row, payload)
    <3>1. new.stamp = row.stamp /\ new.number = row.number
      BY <2>2, <1>4 DEF RecordProfile, ProfileType
    <3> HIDE DEF new
    <3> QED
      BY <3>1, <1>3 DEF Bounded, RowsBounded
  <2> QED
    BY <2>1, <2>2
<1>7. RowsBounded'
  <2> HIDE DEF new, a
  <2>1. rows'[a] = new /\ \A b \in Accounts \ {a} : rows'[b] = rows[b]
    BY <1>1, <1>3, <1>4
  <2> QED
    BY <1>6, <2>1 DEF Bounded, RowsBounded
<1>8. SeatsBounded'
  <2>1. CASE seats' = seats
    BY <2>1 DEF Bounded, SeatsBounded
  <2>2. CASE seats' # seats
    <3> DEFINE u == payload.username
               bound == [seats[u] EXCEPT !.holder = a]
    <3>1. /\ Offered(u) /\ seats' = [seats EXCEPT ![u] = bound]
      BY <1>1, <2>2 DEF BindStaffSeat, MayClaim
    <3>2. u \in Usernames
      BY <1>3, <3>1 DEF Names, Offered
    <3>3. seats[u] \in SeatRowType /\ seats \in [Usernames -> SeatRowType]
      BY <3>2 DEF Inv, Typed
    <3>4. bound.invited_at = seats[u].invited_at
      BY <3>3 DEF SeatRowType
    <3>5. seats[u].invited_at \in -1 .. MaxTime /\ seats[u].invited_at # -1
      BY <3>1, <3>2 DEF Offered, Bounded, SeatsBounded
    <3> HIDE DEF u, bound
    <3>6. seats'[u] = bound /\ \A w \in Usernames \ {u} : seats'[w] = seats[w]
      BY <3>1, <3>2, <3>3
    <3> QED
      BY <3>4, <3>5, <3>6 DEF Bounded, SeatsBounded
  <2> QED
    BY <2>1, <2>2
<1> QED
  BY <1>1, <1>7, <1>8 DEF Bounded, PayloadsBounded

LEMMA StepBounded == Inv /\ Bounded /\ [Next]_vars => Bounded'
<1> SUFFICES ASSUME Inv, Bounded, [Next]_vars PROVE Bounded'
  OBVIOUS
<1>1. CASE \E a \in Accounts, u \in Names : Sign(a, u)
  BY <1>1, SignBounded
<1>2. CASE \E us \in SUBSET Usernames : SaveRoster(us)
  BY <1>2, SaveRosterBounded
<1>3. CASE UNCHANGED <<signed, seats, rows, clock>>
  BY <1>3 DEF Bounded, PayloadsBounded, SeatsBounded, RowsBounded
<1>4. CASE \E n \in DOMAIN signed : SeatOffered(n)
  BY <1>3, <1>4 DEF SeatOffered
<1>5. CASE \E n \in DOMAIN signed : Recognise(n)
  BY <1>5, RecogniseBounded
<1>6. CASE \E v \in visits : Identify(v)
  BY <1>6, IdentifyBounded
<1>7. CASE \E v \in visits : Abandon(v)
  BY <1>3, <1>7 DEF Abandon
<1>8. CASE Tick
  <2>1. clock' \in 0 .. MaxTime /\ UNCHANGED <<signed, seats, rows>>
    BY <1>8, RosterAssumption DEF Tick, Bounded
  <2> QED
    BY <2>1 DEF Bounded, PayloadsBounded, SeatsBounded, RowsBounded
<1>9. CASE UNCHANGED vars
  BY <1>3, <1>9 DEF vars
<1> QED
  BY <1>1, <1>2, <1>4, <1>5, <1>6, <1>7, <1>8, <1>9 DEF Next

(***************************************************************************)
(* Rows, seats and payloads have their types: no instant is one to come,   *)
(* every stamp is a whole second, and a seat without an instant is none.   *)
(***************************************************************************)
THEOREM RosterIsTyped == Spec => []TypeOK
<1>1. Inv /\ Bounded => TypeOK
  <2> SUFFICES ASSUME Inv, Bounded PROVE TypeOK
    OBVIOUS
  <2>1. signed \in Seq([account : Accounts, username : Names, stamp : Seconds, at : 0 .. MaxTime])
    <3> DEFINE T == [account : Accounts, username : Names, stamp : Seconds, at : 0 .. MaxTime]
    <3>1. signed \in Seq(PayloadType)
      BY DEF Inv, Typed
    <3>2. ASSUME NEW n \in DOMAIN signed PROVE signed[n] \in T
      <4>1. signed[n] \in PayloadType
        BY <3>1
      <4>2. signed[n].stamp \in Seconds /\ signed[n].at \in 0 .. MaxTime
        BY DEF Bounded, PayloadsBounded
      <4> QED
        BY <4>1, <4>2 DEF PayloadType
    <3> HIDE DEF T
    <3>3. signed = [n \in 1 .. Len(signed) |-> signed[n]] /\ Len(signed) \in Nat
      BY <3>1
    <3>4. signed \in [1 .. Len(signed) -> T]
      BY <3>1, <3>2, <3>3
    <3>5. signed \in Seq(T)
      BY <3>3, <3>4
    <3> QED
      BY <3>5 DEF T
  <2>2. seats \in [Usernames -> SeatType]
        /\ \A u \in Usernames : seats[u].invited_at = -1 => seats[u] = NoSeat
    BY DEF Inv, Typed, SeatRowType, Bounded, SeatsBounded, SeatType
  <2>3. rows \in [Accounts -> RowType]
    BY DEF Inv, Typed, ProfileType, Bounded, RowsBounded, RowType
  <2>4. \A a \in Accounts : rows[a].signed => rows[a].seen
    BY DEF Inv, RowsAreOfPayloads
  <2> QED
    BY <2>1, <2>2, <2>3, <2>4 DEF TypeOK, Inv, Typed, Bounded
<1> QED
  BY <1>1, InvAlways, InitBounded, StepBounded, PTL DEF Spec
=============================================================================
