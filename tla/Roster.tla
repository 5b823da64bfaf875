------------------------------- MODULE Roster -------------------------------
(***************************************************************************)
(* Accounts, their profiles, and the seats of the staff.                   *)
(*                                                                         *)
(* Managers offer seats to usernames, and usernames change hands: only a   *)
(* payload Telegram signed tells who goes by one, as of its signing.       *)
(* Payloads arrive late, in any order, again and again, and two at a time; *)
(* Telegram stamps them with whole seconds of a clock that is not the      *)
(* server's.  A payload rewrites the stored profile of its account unless  *)
(* a later one did, and then may claim the seat offered to its username.   *)
(* Whether there is such a seat is read before the bar lock is taken; from *)
(* the lock to the commit the transaction is one step, for the roster is   *)
(* written under that lock only and the account's row is locked.           *)
(***************************************************************************)
EXTENDS Integers, FiniteSets, Sequences

CONSTANTS
  Accounts,
  Usernames,
  None,          \* no username, no account
  PerSecond,     \* units of time in a second
  ClockSkew,     \* CLOCK_SKEW
  Drift,         \* how far Telegram's clock is ahead of the server's
  MaxTime,       \* bound: the clock stops here
  MaxSigned,     \* bound: payloads signed
  MaxVisits      \* bound: requests under way at a time

Names == Usernames \cup {None}
Seconds == {s \in -(ClockSkew + PerSecond) .. MaxTime + ClockSkew : s % PerSecond = 0}

ASSUME RosterAssumption ==
  /\ None \notin Accounts /\ None \notin Usernames
  /\ PerSecond \in Nat \ {0} /\ ClockSkew \in Nat
  /\ Drift \in -ClockSkew .. ClockSkew
  /\ MaxTime \in Nat /\ MaxSigned \in Nat /\ MaxVisits \in Nat

VARIABLES
  signed,    \* the payloads Telegram signed, in the order it did
  seats,     \* [Usernames -> row of bar_staff, or NoSeat]
  rows,      \* [Accounts -> row of telegram_user, or Unseen]
  visits,    \* requests between the look for a seat and the transaction's end
  clock,     \* the server's
  handled    \* history: the payloads the store has settled, by number

vars == <<signed, seats, rows, visits, clock, handled>>

NoSeat == [invited_at |-> -1, holder |-> None]
Unseen == [seen |-> FALSE, username |-> None, stamp |-> -1, signed |-> FALSE, contested |-> FALSE,
           number |-> 0]

Offered(u) == u # None /\ seats[u] # NoSeat /\ seats[u].holder = None

-----------------------------------------------------------------------------
\* Telegram.

Stamp == ((clock + Drift) \div PerSecond) * PerSecond

\* Account a goes by u at this moment, whatever it did before; at is history.
Sign(a, u) ==
  /\ Len(signed) < MaxSigned
  /\ signed' = Append(signed, [account |-> a, username |-> u, stamp |-> Stamp, at |-> clock])
  /\ UNCHANGED <<seats, rows, visits, clock, handled>>

-----------------------------------------------------------------------------
\* Managers.

\* Seats not proposed are deleted; those there stay as they are.
WriteStaff(us) ==
  [u \in Usernames |->
     CASE u \notin us -> NoSeat
       [] u \in us /\ seats[u] = NoSeat -> [invited_at |-> clock, holder |-> None]
       [] OTHER -> seats[u]]

SaveRoster(us) ==
  /\ seats' = WriteStaff(us)
  /\ seats' # seats
  /\ UNCHANGED <<signed, rows, visits, clock, handled>>

-----------------------------------------------------------------------------
\* A request with payload n.

SeatOffered(n) ==
  /\ Cardinality(visits) < MaxVisits
  /\ visits' = visits \cup {[payload |-> n, offered |-> Offered(signed[n].username)]}
  /\ UNCHANGED <<signed, seats, rows, clock, handled>>

\* Mutants: of one second the last counts; a contested second is as good as
\* any.
RewrittenBySecond(row, payload) == ~row.signed \/ row.stamp <= payload.stamp
RewrittenAgain(row, payload) ==
  \/ ~row.signed
  \/ row.stamp < payload.stamp
  \/ row.stamp = payload.stamp /\ row.username = payload.username

Rewritten(row, payload) ==
  \/ ~row.signed
  \/ row.stamp < payload.stamp
  \/ row.stamp = payload.stamp /\ row.username = payload.username /\ ~row.contested

\* The row of the payload's account once payload n is recorded.
RecordProfile(row, n) ==
  LET payload == signed[n]
  IN IF Rewritten(row, payload)
     THEN [seen |-> TRUE, username |-> payload.username, stamp |-> payload.stamp,
           signed |-> TRUE, contested |-> FALSE, number |-> n]
     ELSE [row EXCEPT !.contested =
             @ \/ (row.stamp = payload.stamp /\ row.username # payload.username)]

\* Mutants: the offer compared with the stamp; a second seat for one account.
MayClaimAtStamp(payload) ==
  /\ Offered(payload.username)
  /\ seats[payload.username].invited_at <= payload.stamp
  /\ \A u \in Usernames : seats[u].holder # payload.account
MayClaimMore(payload) ==
  Offered(payload.username) /\ seats[payload.username].invited_at <= payload.stamp - ClockSkew
\* Mutant: the seat looked at before the lock is taken for free.
MayClaimAsRead(payload) ==
  /\ payload.username # None
  /\ \A u \in Usernames : seats[u].holder # payload.account

MayClaim(payload) ==
  /\ Offered(payload.username)
  /\ seats[payload.username].invited_at <= payload.stamp - ClockSkew
  /\ \A u \in Usernames : seats[u].holder # payload.account

BindStaffSeat(payload) ==
  IF MayClaim(payload)
  THEN [seats EXCEPT ![payload.username].holder = payload.account]
  ELSE seats

Identify(v) ==
  LET payload == signed[v.payload]
      row == rows[payload.account]
  IN /\ visits' = visits \ {v}
     /\ rows' = [rows EXCEPT ![payload.account] = RecordProfile(row, v.payload)]
     /\ seats' = IF v.offered /\ Rewritten(row, payload) THEN BindStaffSeat(payload) ELSE seats
     /\ handled' = handled \cup {v.payload}
     /\ UNCHANGED <<signed, clock>>

\* The request dies, or its transaction is rolled back.
Abandon(v) ==
  /\ visits' = visits \ {v}
  /\ UNCHANGED <<signed, seats, rows, clock, handled>>

\* A request with the session that payload n was exchanged for: it records an
\* account the store does not know, and nothing else.
Recognise(n) ==
  LET a == signed[n].account
  IN /\ ~rows[a].seen
     /\ rows' = [rows EXCEPT ![a].seen = TRUE, ![a].username = signed[n].username]
     /\ UNCHANGED <<signed, seats, visits, clock, handled>>

Tick ==
  /\ clock < MaxTime
  /\ clock' = clock + 1
  /\ UNCHANGED <<signed, seats, rows, visits, handled>>

-----------------------------------------------------------------------------
Init ==
  /\ signed = <<>>
  /\ seats = [u \in Usernames |-> NoSeat]
  /\ rows = [a \in Accounts |-> Unseen]
  /\ visits = {}
  /\ clock = 0
  /\ handled = {}

Next ==
  \/ \E a \in Accounts, u \in Names : Sign(a, u)
  \/ \E us \in SUBSET Usernames : SaveRoster(us)
  \/ \E n \in DOMAIN signed : SeatOffered(n) \/ Recognise(n)
  \/ \E v \in visits : Identify(v) \/ Abandon(v)
  \/ Tick

Spec == Init /\ [][Next]_vars

-----------------------------------------------------------------------------
SeatType == [invited_at : -1 .. MaxTime, holder : Accounts \cup {None}]
RowType == [seen : BOOLEAN, username : Names, stamp : Seconds \cup {-1}, signed : BOOLEAN,
            contested : BOOLEAN, number : 0 .. MaxSigned]

TypeOK ==
  /\ signed \in Seq([account : Accounts, username : Names, stamp : Seconds,
                     at : 0 .. MaxTime])
  /\ seats \in [Usernames -> SeatType]
  /\ \A u \in Usernames : seats[u].invited_at = -1 => seats[u] = NoSeat
  /\ rows \in [Accounts -> RowType]
  /\ \A a \in Accounts : rows[a].signed => rows[a].seen
  /\ visits \subseteq [payload : DOMAIN signed, offered : BOOLEAN]
  /\ clock \in 0 .. MaxTime
  /\ handled \subseteq DOMAIN signed

(***************************************************************************)
(* A seat is held only by an account that went by the seat's username at   *)
(* or after the moment the seat was offered, although seats are withdrawn  *)
(* and offered anew between the look and the lock, names change hands, and *)
(* payloads come late (identity.rs, bind_staff_seat).                      *)
(***************************************************************************)
SeatsForTheInvited ==
  \A u \in Usernames : seats[u].holder # None =>
    \E n \in handled : /\ signed[n].account = seats[u].holder /\ signed[n].username = u
                        /\ signed[n].at >= seats[u].invited_at

(***************************************************************************)
(* No account holds two seats (identity.rs, bind_staff_seat).              *)
(***************************************************************************)
OneSeatEach ==
  \A u, w \in Usernames : seats[u].holder # None /\ seats[u].holder = seats[w].holder => u = w

(***************************************************************************)
(* The stored profile is the last one of its account signed, of those that *)
(* came, unless Telegram signed different ones in that second: and then it *)
(* is marked so (identity.rs, record_profile).                             *)
(***************************************************************************)
ProfileIsLastSigned ==
  \A n \in handled :
    LET row == rows[signed[n].account]
    IN n > row.number /\ signed[n].username # row.username =>
         signed[n].stamp = row.stamp /\ row.contested

(***************************************************************************)
(* A payload claims a seat only if no payload that shows its account under *)
(* another name, signed after it, has come before (identity.rs,            *)
(* record_profile: contested).                                             *)
(***************************************************************************)
ClaimedByNewestName ==
  [][\A v \in visits : LET payload == signed[v.payload]
     IN Identify(v) /\ seats' # seats =>
          \A n \in handled : signed[n].account = payload.account /\ n > v.payload =>
                               signed[n].username = payload.username]_vars
=============================================================================
