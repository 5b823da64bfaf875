---------------------------- MODULE ScreensProofs ----------------------------
(***************************************************************************)
(* What is proved of the shift screen, for any evenings, any number of     *)
(* calls and changes, and however little of the past the ledger keeps:     *)
(* that Screens implements Board, and what an entry of the ledger is worth.*)
(***************************************************************************)
EXTENDS Screens, TLAPS

(***************************************************************************)
(* The inductive invariant.  Every answer under way, and every answer on   *)
(* record, is the room as it was after so many changes; a write that has   *)
(* the lock has read the room its change will go on top of.  Where answers *)
(* are told apart by the order of asking alone, a later call never knows   *)
(* less than an earlier one.                                               *)
(***************************************************************************)
CallRecord ==
  [kind : {"read", "write"}, evening : Evenings, stage : {"sent", "rows", "done", "refused"},
   rows : SUBSET Nat, version : Nat, waiting : BOOLEAN, since : Nat]
EntryRecord == [number : Nat, version : Nat, rows : SUBSET Nat, heard : Nat, failure : Nat]
ToldRecord == [version : Nat, answered : Nat, failed : Nat]

Typed ==
  /\ changed \in Seq(SUBSET Evenings)
  /\ asked \in Nat
  /\ DOMAIN calls \subseteq 1 .. asked
  /\ \A n \in DOMAIN calls : calls[n] \in CallRecord
  /\ entries \in [Evenings -> EntryRecord]
  /\ told \in [Evenings -> ToldRecord]
  /\ onScreen \in Evenings
  /\ versioned \in BOOLEAN

\* Has what the server answers with: rows, version, or both.
HasRead(c) == (c.kind = "read" /\ c.stage \in {"rows", "done"}) \/ c.stage = "done"

RoomAfter(ch, e, v) == {i \in 1 .. v : e \in ch[i]}

CallHolds(ch, lk, n, c) ==
  /\ c.version <= Len(ch) /\ c.since <= Len(ch)
  /\ HasRead(c) => c.rows = RoomAfter(ch, c.evening, c.version)
  /\ HasRead(c) /\ c.kind = "read" => c.since <= c.version
  /\ c.kind = "write" /\ c.stage = "rows" => lk = n /\ c.rows = RoomAfter(ch, c.evening, Len(ch))

CallsHold == \A n \in DOMAIN calls : CallHolds(changed, lock, n, calls[n])

OnlyReads(cs) ==
  \A n \in DOMAIN cs :
    cs[n].kind = "read" /\ \A m \in DOMAIN cs : n < m => cs[n].since <= cs[m].since

EntryHolds(ch, last, e, entry, t) ==
  /\ entry.number <= last
  /\ entry.number = 0 => entry.version = 0
  /\ entry.version <= Len(ch) /\ entry.rows = RoomAfter(ch, e, entry.version)
  /\ t.version <= entry.version
  /\ entry.heard = t.answered
  /\ entry.failure = IF t.answered < t.failed THEN t.failed ELSE 0

\* What is asked later than the answer on record knows more, what earlier less.
Between(entry, t, cs) ==
  \A n \in DOMAIN cs :
    /\ entry.number < n => t.version <= cs[n].since
    /\ n <= entry.number => cs[n].since <= entry.version

EntriesHold ==
  \A e \in Evenings : /\ EntryHolds(changed, asked, e, entries[e], told[e])
                      /\ ~versioned => Between(entries[e], told[e], calls)

Inv == Typed /\ CallsHold /\ (~versioned => OnlyReads(calls)) /\ EntriesHold

-----------------------------------------------------------------------------
\* The room's past does not change.

LEMMA PastStands ==
  ASSUME NEW ch \in Seq(SUBSET Evenings), NEW es \in SUBSET Evenings
  PROVE  /\ Append(ch, es) \in Seq(SUBSET Evenings)
         /\ Len(ch) \in Nat /\ Len(Append(ch, es)) = Len(ch) + 1
         /\ \A e : \A v \in 0 .. Len(ch) : RoomAfter(Append(ch, es), e, v) = RoomAfter(ch, e, v)
         /\ \A e \in es : RoomAfter(Append(ch, es), e, Len(ch) + 1)
                            = RoomAfter(ch, e, Len(ch)) \cup {Len(ch) + 1}
<1> DEFINE new == Append(ch, es)
<1>1. /\ new \in Seq(SUBSET Evenings)
      /\ Len(ch) \in Nat /\ Len(new) = Len(ch) + 1
      /\ \A i \in 1 .. Len(ch) : new[i] = ch[i]
      /\ new[Len(ch) + 1] = es
  OBVIOUS
<1> HIDE DEF new
<1>2. \A e : \A v \in 0 .. Len(ch) : RoomAfter(new, e, v) = RoomAfter(ch, e, v)
  BY <1>1 DEF RoomAfter
<1>3. ASSUME NEW e \in es
      PROVE  RoomAfter(new, e, Len(ch) + 1) = RoomAfter(ch, e, Len(ch)) \cup {Len(ch) + 1}
  <2>1. RoomAfter(new, e, Len(ch) + 1)
          = {i \in 1 .. Len(ch) : e \in new[i]} \cup {i \in {Len(ch) + 1} : e \in new[i]}
    BY <1>1 DEF RoomAfter
  <2>2. {i \in {Len(ch) + 1} : e \in new[i]} = {Len(ch) + 1}
    BY <1>1
  <2>3. {i \in 1 .. Len(ch) : e \in new[i]} = RoomAfter(ch, e, Len(ch))
    BY <1>1 DEF RoomAfter
  <2> QED
    BY <2>1, <2>2, <2>3
<1> QED
  BY <1>1, <1>2, <1>3 DEF new

\* A step that leaves the room and the app alone, but for call n and the lock.
LEMMA CommitIs ==
  ASSUME NEW es \in [Evenings -> EntryRecord], NEW ts \in [Evenings -> ToldRecord], NEW cs,
         Commit(es, ts, cs)
  PROVE  /\ calls' = cs
         /\ entries' \in [Evenings -> EntryRecord]
         /\ told' \in [Evenings -> ToldRecord]
         /\ \A e \in Evenings : \/ entries'[e] = Nothing /\ told'[e] = Untold
                                \/ entries'[e] = es[e] /\ told'[e] = ts[e]
<1> DEFINE dropped == Dropped(es, onScreen, Pending(cs), KeptAside)
<1>1. /\ entries' = Pruned(es, dropped)
      /\ told' = [e \in Evenings |-> IF e \in dropped THEN Untold ELSE ts[e]]
      /\ calls' = cs
  BY DEF Commit
<1>2. Nothing \in EntryRecord /\ Untold \in ToldRecord
  BY DEF Nothing, Untold, EntryRecord, ToldRecord
<1> HIDE DEF dropped
<1> QED
  BY <1>1, <1>2 DEF Pruned

\* Every entry holds after a step of the app that leaves es, ts and cs.
LEMMA CommitKeeps ==
  ASSUME changed \in Seq(SUBSET Evenings), asked' \in Nat,
         NEW es \in [Evenings -> EntryRecord], NEW ts \in [Evenings -> ToldRecord],
         NEW cs, DOMAIN cs \subseteq 1 .. asked', \A n \in DOMAIN cs : cs[n] \in CallRecord,
         Commit(es, ts, cs), UNCHANGED <<changed, versioned>>,
         \A e \in Evenings : /\ EntryHolds(changed, asked', e, es[e], ts[e])
                             /\ ~versioned => Between(es[e], ts[e], cs)
  PROVE  /\ calls' = cs
         /\ entries' \in [Evenings -> EntryRecord] /\ told' \in [Evenings -> ToldRecord]
         /\ EntriesHold'
<1>1. /\ calls' = cs
      /\ entries' \in [Evenings -> EntryRecord] /\ told' \in [Evenings -> ToldRecord]
      /\ \A e \in Evenings : \/ entries'[e] = Nothing /\ told'[e] = Untold
                             \/ entries'[e] = es[e] /\ told'[e] = ts[e]
  BY CommitIs
<1>2. ASSUME NEW e \in Evenings
      PROVE  EntryHolds(changed, asked', e, Nothing, Untold) /\ Between(Nothing, Untold, cs)
  <2>1. Len(changed) \in Nat
    OBVIOUS
  <2>2. \A n \in DOMAIN cs : n \in Nat \ {0} /\ cs[n].since \in Nat
    BY DEF CallRecord
  <2> QED
    BY <2>1, <2>2 DEF EntryHolds, Between, Nothing, Untold, RoomAfter
<1>3. ASSUME NEW e \in Evenings
      PROVE  /\ EntryHolds(changed, asked', e, entries'[e], told'[e])
             /\ ~versioned => Between(entries'[e], told'[e], cs)
  BY <1>1, <1>2
<1> QED
  BY <1>1, <1>3 DEF EntriesHold
-----------------------------------------------------------------------------
\* A step that leaves the app alone: the calls are at most fewer or further.
LEMMA CallsKeep ==
  ASSUME Inv, UNCHANGED <<asked, entries, onScreen, versioned, told>>,
         changed' \in Seq(SUBSET Evenings), Len(changed) <= Len(changed'),
         \A e : \A v \in 0 .. Len(changed) : RoomAfter(changed', e, v) = RoomAfter(changed, e, v),
         DOMAIN calls' \subseteq DOMAIN calls,
         \A m \in DOMAIN calls' : /\ calls'[m] \in CallRecord
                                  /\ CallHolds(changed', lock', m, calls'[m])
                                  /\ calls'[m].since = calls[m].since
                                  /\ calls'[m].kind = calls[m].kind
  PROVE  Inv'
<1>1. Typed'
  BY DEF Inv, Typed
<1>2. CallsHold'
  BY DEF CallsHold
<1>3. (~versioned => OnlyReads(calls))'
  BY DEF Inv, OnlyReads
<1>4. EntriesHold'
  <2> SUFFICES ASSUME NEW e \in Evenings
               PROVE  /\ EntryHolds(changed', asked, e, entries[e], told[e])
                      /\ ~versioned => Between(entries[e], told[e], calls')
    BY DEF EntriesHold
  <2>1. /\ EntryHolds(changed, asked, e, entries[e], told[e])
        /\ ~versioned => Between(entries[e], told[e], calls)
    BY DEF Inv, EntriesHold
  <2>2. entries[e].version \in Nat /\ Len(changed) \in Nat /\ Len(changed') \in Nat
    BY DEF Inv, Typed, EntryRecord
  <2>3. EntryHolds(changed', asked, e, entries[e], told[e])
    BY <2>1, <2>2 DEF EntryHolds
  <2> QED
    BY <2>1, <2>3 DEF Between
<1> QED
  BY <1>1, <1>2, <1>3, <1>4 DEF Inv

\* No write has read the room while nobody has the lock.
LEMMA CallGoesOn ==
  ASSUME Inv, UNCHANGED <<changed, asked, entries, onScreen, versioned, told>>,
         lock' = lock \/ lock = 0, NEW n \in DOMAIN calls, NEW c \in CallRecord,
         calls' = [calls EXCEPT ![n] = c], c.since = calls[n].since, c.kind = calls[n].kind,
         CallHolds(changed, lock', n, c)
  PROVE  Inv'
<1>1. ASSUME NEW m \in DOMAIN calls'
      PROVE  /\ calls'[m] \in CallRecord
             /\ CallHolds(changed', lock', m, calls'[m])
             /\ calls'[m].since = calls[m].since
             /\ calls'[m].kind = calls[m].kind
  <2>1. m \in DOMAIN calls /\ m # 0 /\ calls[m] \in CallRecord
    BY DEF Inv, Typed
  <2>2. CallHolds(changed, lock, m, calls[m])
    BY <2>1 DEF Inv, CallsHold
  <2>3. CASE m = n
    BY <2>1, <2>3
  <2>4. CASE m # n
    <3>1. calls'[m] = calls[m]
      BY <2>1, <2>4
    <3> QED
      BY <2>1, <2>2, <3>1 DEF CallHolds
  <2> QED
    BY <2>3, <2>4
<1>2. changed' \in Seq(SUBSET Evenings) /\ Len(changed) <= Len(changed')
  BY DEF Inv, Typed
<1> QED
  BY <1>1, <1>2, CallsKeep

LEMMA ReadRowsKeeps ==
  ASSUME Inv, NEW n \in DOMAIN calls, ReadRows(n)
  PROVE  Inv'
<1> DEFINE c == [calls[n] EXCEPT !.stage = "rows", !.rows = Room(calls[n].evening),
                                 !.version = Len(changed)]
<1>1. /\ Len(changed) \in Nat /\ calls[n] \in CallRecord /\ calls[n].since <= Len(changed)
      /\ calls[n].kind = "read"
  BY DEF Inv, Typed, CallsHold, CallHolds, ReadRows, Carried
<1>2. Room(calls[n].evening) = RoomAfter(changed, calls[n].evening, Len(changed))
  BY DEF Room, Contents, RoomAfter
<1>3. Room(calls[n].evening) \in SUBSET Nat
  BY <1>1, <1>2 DEF RoomAfter
<1>4. c \in CallRecord /\ c.since = calls[n].since /\ c.kind = calls[n].kind
  BY <1>1, <1>3 DEF CallRecord
<1>5. CallHolds(changed, lock', n, c)
  BY <1>1, <1>2 DEF CallHolds, CallRecord, HasRead
<1>6. calls' = [calls EXCEPT ![n] = c]
  BY DEF ReadRows
<1> HIDE DEF c
<1> QED
  BY <1>4, <1>5, <1>6, CallGoesOn DEF ReadRows

LEMMA ReadVersionKeeps ==
  ASSUME Inv, NEW n \in DOMAIN calls, ReadVersion(n)
  PROVE  Inv'
<1> DEFINE c == [calls[n] EXCEPT !.stage = "done", !.version = VersionRead(calls[n])]
<1>1. /\ calls[n] \in CallRecord /\ calls[n].kind = "read" /\ calls[n].stage = "rows"
      /\ CallHolds(changed, lock, n, calls[n])
  BY DEF Inv, Typed, CallsHold, ReadVersion, Carried
<1>2. c \in CallRecord /\ c.since = calls[n].since /\ c.kind = calls[n].kind
  BY <1>1 DEF CallRecord, VersionRead
<1>3. CallHolds(changed, lock', n, c)
  BY <1>1 DEF CallHolds, CallRecord, HasRead, VersionRead
<1>4. calls' = [calls EXCEPT ![n] = c]
  BY DEF ReadVersion
<1> HIDE DEF c
<1> QED
  BY <1>2, <1>3, <1>4, CallGoesOn DEF ReadVersion

LEMMA LockBarKeeps ==
  ASSUME Inv, NEW n \in DOMAIN calls, LockBar(n)
  PROVE  Inv'
<1> DEFINE c == [calls[n] EXCEPT !.stage = "rows", !.rows = Room(calls[n].evening)]
<1>1. /\ Len(changed) \in Nat /\ calls[n] \in CallRecord /\ calls[n].kind = "write"
      /\ CallHolds(changed, lock, n, calls[n])
  BY DEF Inv, Typed, CallsHold, LockBar, Carried
<1>2. Room(calls[n].evening) = RoomAfter(changed, calls[n].evening, Len(changed))
  BY DEF Room, Contents, RoomAfter
<1>3. Room(calls[n].evening) \in SUBSET Nat
  BY <1>1, <1>2 DEF RoomAfter
<1>4. c \in CallRecord /\ c.since = calls[n].since /\ c.kind = calls[n].kind
  BY <1>1, <1>3 DEF CallRecord
<1>5. CallHolds(changed, lock', n, c)
  BY <1>1, <1>2 DEF CallHolds, CallRecord, HasRead, LockBar
<1>6. calls' = [calls EXCEPT ![n] = c] /\ lock = 0
  BY DEF LockBar
<1> HIDE DEF c
<1> QED
  BY <1>4, <1>5, <1>6, CallGoesOn DEF LockBar

\* A write ends with the lock: no other has read the room.
LEMMA WriteEnds ==
  ASSUME Inv, UNCHANGED <<asked, entries, onScreen, versioned, told>>,
         changed' \in Seq(SUBSET Evenings), Len(changed) <= Len(changed'),
         \A e : \A v \in 0 .. Len(changed) : RoomAfter(changed', e, v) = RoomAfter(changed, e, v),
         NEW n \in DOMAIN calls, calls[n].kind = "write", calls[n].stage = "rows",
         NEW c \in CallRecord, calls' = Ended(n, c),
         c.since = calls[n].since, c.kind = "write",
         c.stage # "rows", CallHolds(changed', lock', n, c)
  PROVE  Inv'
<1>1. ASSUME NEW m \in DOMAIN calls'
      PROVE  /\ m \in DOMAIN calls
             /\ calls'[m] \in CallRecord
             /\ CallHolds(changed', lock', m, calls'[m])
             /\ calls'[m].since = calls[m].since
             /\ calls'[m].kind = calls[m].kind
  <2>1. /\ m \in DOMAIN calls
        /\ m # n => calls'[m] = calls[m]
        /\ m = n => calls'[m] = c
    BY DEF Ended, Without
  <2>2. /\ calls[m] \in CallRecord
        /\ CallHolds(changed, lock, m, calls[m]) /\ CallHolds(changed, lock, n, calls[n])
    BY <2>1 DEF Inv, Typed, CallsHold
  <2>3. CASE m = n
    BY <2>1, <2>3
  <2>4. CASE m # n
    <3>1. lock = n /\ ~(calls[m].kind = "write" /\ calls[m].stage = "rows")
      BY <2>2, <2>4 DEF CallHolds
    <3>2. calls[m].version \in 0 .. Len(changed)
      BY <2>2 DEF CallHolds, CallRecord, Inv, Typed
    <3>3. Len(changed) \in Nat /\ Len(changed') \in Nat /\ calls[m].since \in Nat
      BY <2>2 DEF Inv, Typed, CallRecord
    <3>4. CallHolds(changed', lock', m, calls[m])
      BY <2>2, <3>1, <3>2, <3>3 DEF CallHolds
    <3> QED
      BY <2>1, <2>2, <2>4, <3>4
  <2> QED
    BY <2>3, <2>4
<1>2. DOMAIN calls' \subseteq DOMAIN calls
  BY <1>1
<1> QED
  BY <1>1, <1>2, CallsKeep

LEMMA CommitWriteKeeps ==
  ASSUME Inv, NEW n \in DOMAIN calls, CommitWrite(n)
  PROVE  Inv'
<1> DEFINE e == calls[n].evening
           room == Append(changed, {e})
           c == [calls[n] EXCEPT !.stage = "done", !.version = Len(changed) + 1,
                                 !.rows = @ \cup {Len(changed) + 1}]
<1>1. /\ calls[n] \in CallRecord /\ calls[n].kind = "write" /\ calls[n].stage = "rows"
      /\ CallHolds(changed, lock, n, calls[n])
  BY DEF Inv, Typed, CallsHold, CommitWrite, Carried
<1>2. changed \in Seq(SUBSET Evenings) /\ {e} \in SUBSET Evenings /\ e \in {e}
  BY <1>1 DEF Inv, Typed, CallRecord
<1>3. changed' = room /\ calls' = Ended(n, c)
  BY DEF CommitWrite
<1>grows. /\ room \in Seq(SUBSET Evenings)
          /\ Len(changed) \in Nat /\ Len(room) = Len(changed) + 1
          /\ \A ev : \A v \in 0 .. Len(changed) :
               RoomAfter(room, ev, v) = RoomAfter(changed, ev, v)
          /\ \A day \in {e} : RoomAfter(room, day, Len(changed) + 1)
                               = RoomAfter(changed, day, Len(changed)) \cup {Len(changed) + 1}
  <2> HIDE DEF e
  <2> QED
    BY <1>2, PastStands
<1>4. /\ changed' \in Seq(SUBSET Evenings)
      /\ Len(changed) \in Nat /\ Len(changed') = Len(changed) + 1
      /\ \A ev : \A v \in 0 .. Len(changed) : RoomAfter(changed', ev, v) = RoomAfter(changed, ev, v)
      /\ RoomAfter(changed', e, Len(changed) + 1)
           = RoomAfter(changed, e, Len(changed)) \cup {Len(changed) + 1}
  <2> HIDE DEF e, c, room
  <2> QED
    BY <1>2, <1>3, <1>grows
<1>5. calls[n].rows = RoomAfter(changed, e, Len(changed)) /\ calls[n].since <= Len(changed)
  BY <1>1 DEF CallHolds
<1>6. c \in CallRecord /\ c.since = calls[n].since /\ c.kind = "write" /\ c.stage # "rows"
  <2>1. calls[n].rows \cup {Len(changed) + 1} \in SUBSET Nat /\ Len(changed) + 1 \in Nat
    BY <1>1, <1>4 DEF CallRecord
  <2> QED
    BY <1>1, <2>1 DEF CallRecord
<1>7. CallHolds(changed', lock', n, c)
  <2>1. c.version = Len(changed') /\ c.rows = RoomAfter(changed', c.evening, c.version)
    BY <1>1, <1>4, <1>5 DEF CallRecord
  <2>2. c.since <= Len(changed')
    BY <1>1, <1>4, <1>5, <1>6 DEF CallRecord
  <2> HIDE DEF c
  <2> QED
    BY <1>6, <2>1, <2>2, <1>4 DEF CallHolds
<1>8. UNCHANGED <<asked, entries, onScreen, versioned, told>>
  BY DEF CommitWrite
<1>9. Len(changed) <= Len(changed')
  BY <1>4
<1> HIDE DEF c, e, room
<1> QED
  BY <1>1, <1>3, <1>4, <1>6, <1>7, <1>8, <1>9, WriteEnds

LEMMA RollbackKeeps ==
  ASSUME Inv, NEW n \in DOMAIN calls, Rollback(n)
  PROVE  Inv'
<1> DEFINE c == [calls[n] EXCEPT !.stage = "refused", !.rows = {}]
<1>1. /\ calls[n] \in CallRecord /\ calls[n].kind = "write" /\ calls[n].stage = "rows"
      /\ CallHolds(changed, lock, n, calls[n])
  BY DEF Inv, Typed, CallsHold, Rollback, Carried
<1>2. c \in CallRecord /\ c.since = calls[n].since /\ c.kind = "write" /\ c.stage # "rows"
  BY <1>1 DEF CallRecord
<1>3. CallHolds(changed', lock', n, c)
  BY <1>1, <1>2 DEF CallHolds, CallRecord, HasRead, Rollback
<1>4. calls' = Ended(n, c) /\ changed' = changed
  BY DEF Rollback
<1>5. changed' \in Seq(SUBSET Evenings) /\ Len(changed) <= Len(changed')
  BY <1>4 DEF Inv, Typed
<1> HIDE DEF c
<1> QED
  BY <1>1, <1>2, <1>3, <1>4, <1>5, WriteEnds DEF Rollback

LEMMA OthersChangeKeeps ==
  ASSUME Inv, NEW es \in SUBSET Evenings, OthersChange(es)
  PROVE  Inv'
<1>1. changed \in Seq(SUBSET Evenings) /\ changed' = Append(changed, es) /\ lock = 0
  BY DEF Inv, Typed, OthersChange, BarIsFree
<1>2. /\ changed' \in Seq(SUBSET Evenings)
      /\ Len(changed) \in Nat /\ Len(changed') = Len(changed) + 1
      /\ \A e : \A v \in 0 .. Len(changed) : RoomAfter(changed', e, v) = RoomAfter(changed, e, v)
  BY <1>1, PastStands
<1>3. ASSUME NEW m \in DOMAIN calls
      PROVE  CallHolds(changed', lock', m, calls[m])
  <2>1. calls[m] \in CallRecord /\ m # 0 /\ CallHolds(changed, lock, m, calls[m])
    BY DEF Inv, Typed, CallsHold
  <2>2. calls[m].version \in 0 .. Len(changed) /\ calls[m].since \in Nat
    BY <2>1, <1>2 DEF CallHolds, CallRecord
  <2> QED
    BY <2>1, <2>2, <1>1, <1>2 DEF CallHolds
<1> QED
  BY <1>2, <1>3, CallsKeep DEF OthersChange, Inv, Typed

-----------------------------------------------------------------------------
\* The app.

LEMMA ShowKeeps ==
  ASSUME Inv, NEW e \in Evenings, Show(e)
  PROVE  Inv'
BY DEF Inv, Typed, CallsHold, OnlyReads, EntriesHold, Show

\* A call is the newest there is.
LEMMA AskKeeps ==
  ASSUME Inv, NEW call \in CallRecord, Ask(call),
         call.stage = "sent" /\ call.version = 0 /\ call.since <= Len(changed),
         ~versioned => call.kind = "read" /\ call.since = Len(changed)
  PROVE  Inv'
<1> DEFINE last == asked + 1
           cs == [n \in DOMAIN calls \cup {last} |-> IF n = last THEN call ELSE calls[n]]
<1>1. /\ Commit(entries, told, cs) /\ asked' = last
      /\ UNCHANGED <<changed, lock, onScreen, versioned>>
  BY DEF Ask
<1>2. /\ asked \in Nat /\ last \in Nat /\ changed \in Seq(SUBSET Evenings) /\ Len(changed) \in Nat
      /\ entries \in [Evenings -> EntryRecord] /\ told \in [Evenings -> ToldRecord]
      /\ versioned \in BOOLEAN /\ onScreen \in Evenings
  BY DEF Inv, Typed
<1>3. /\ DOMAIN cs \subseteq 1 .. last
      /\ \A n \in DOMAIN cs : cs[n] \in CallRecord
      /\ \A n \in DOMAIN calls : n < last
  BY <1>2 DEF Inv, Typed
<1>4. ASSUME NEW n \in DOMAIN cs
      PROVE  CallHolds(changed, lock, n, cs[n])
  <2>1. CASE n = last
    BY <2>1, <1>2 DEF CallHolds, HasRead
  <2>2. CASE n # last
    BY <2>2 DEF Inv, CallsHold
  <2> QED
    BY <2>1, <2>2
<1>5. ASSUME ~versioned
      PROVE  OnlyReads(cs)
  <2>1. \A n \in DOMAIN calls : calls[n].since <= Len(changed)
    BY DEF Inv, CallsHold, CallHolds
  <2> QED
    BY <1>3, <1>5, <2>1 DEF Inv, OnlyReads
<1>6. ASSUME NEW e \in Evenings
      PROVE  /\ EntryHolds(changed, asked', e, entries[e], told[e])
             /\ ~versioned => Between(entries[e], told[e], cs)
  <2>1. /\ EntryHolds(changed, asked, e, entries[e], told[e])
        /\ ~versioned => Between(entries[e], told[e], calls)
    BY DEF Inv, EntriesHold
  <2>2. entries[e] \in EntryRecord /\ told[e] \in ToldRecord
    BY <1>2
  <2>3. entries[e].number < last /\ told[e].version <= Len(changed)
    BY <2>1, <2>2, <1>2 DEF EntryHolds, EntryRecord, ToldRecord
  <2>4. EntryHolds(changed, asked', e, entries[e], told[e])
    BY <2>1, <2>2, <2>3, <1>1, <1>2 DEF EntryHolds, EntryRecord
  <2>5. ASSUME ~versioned
        PROVE  Between(entries[e], told[e], cs)
    BY <2>1, <2>2, <2>3, <2>5, <1>2 DEF Between, EntryRecord
  <2> QED
    BY <2>4, <2>5
<1>7. calls' = cs /\ entries' \in [Evenings -> EntryRecord] /\ told' \in [Evenings -> ToldRecord]
      /\ EntriesHold'
  <2> HIDE DEF cs, last
  <2> QED
    BY <1>1, <1>2, <1>3, <1>6, CommitKeeps
<1> HIDE DEF cs, last
<1> QED
  BY <1>1, <1>2, <1>3, <1>4, <1>5, <1>7 DEF Inv, Typed, CallsHold

LEMMA LoadKeeps ==
  ASSUME Inv, Load
  PROVE  Inv'
<1>1. Len(changed) \in Nat /\ onScreen \in Evenings
  BY DEF Inv, Typed
<1>2. Call("read", onScreen) \in CallRecord
  BY <1>1 DEF Call, CallRecord
<1> QED
  BY <1>1, <1>2, AskKeeps DEF Load, Call

LEMMA WriteShiftKeeps ==
  ASSUME Inv, NEW e \in Evenings, WriteShift(e)
  PROVE  Inv'
<1>1. Len(changed) \in Nat
  BY DEF Inv, Typed
<1>2. Call("write", e) \in CallRecord
  BY <1>1 DEF Call, CallRecord
<1> QED
  BY <1>1, <1>2, AskKeeps DEF WriteShift, Call
-----------------------------------------------------------------------------
\* One call is no longer heard of.

LEMMA CallsWithout ==
  ASSUME Inv, NEW n \in DOMAIN calls, NEW cs, cs = Without(calls, n)
  PROVE  /\ DOMAIN cs = DOMAIN calls \ {n}
         /\ \A m \in DOMAIN cs : cs[m] = calls[m]
         /\ DOMAIN cs \subseteq 1 .. asked
         /\ \A m \in DOMAIN cs : cs[m] \in CallRecord /\ CallHolds(changed, lock, m, cs[m])
         /\ ~versioned => OnlyReads(cs)
<1>1. DOMAIN cs = DOMAIN calls \ {n} /\ \A m \in DOMAIN cs : cs[m] = calls[m]
  BY DEF Without
<1> QED
  BY <1>1 DEF Inv, Typed, CallsHold, OnlyReads

LEMMA CommitEnds ==
  ASSUME Inv, NEW cs, DOMAIN cs \subseteq DOMAIN calls,
         NEW es \in [Evenings -> EntryRecord], NEW ts \in [Evenings -> ToldRecord],
         Commit(es, ts, cs), UNCHANGED <<changed, lock, asked, onScreen, versioned>>,
         \A m \in DOMAIN cs : cs[m] \in CallRecord /\ CallHolds(changed, lock, m, cs[m]),
         ~versioned => OnlyReads(cs),
         \A e \in Evenings : /\ EntryHolds(changed, asked, e, es[e], ts[e])
                             /\ ~versioned => Between(es[e], ts[e], cs)
  PROVE  Inv'
<1>1. /\ changed \in Seq(SUBSET Evenings) /\ asked \in Nat /\ DOMAIN cs \subseteq 1 .. asked
      /\ onScreen \in Evenings /\ versioned \in BOOLEAN
  BY DEF Inv, Typed
<1>2. /\ calls' = cs
      /\ entries' \in [Evenings -> EntryRecord] /\ told' \in [Evenings -> ToldRecord]
      /\ EntriesHold'
  BY <1>1, CommitKeeps
<1> QED
  BY <1>1, <1>2 DEF Inv, Typed, CallsHold

-----------------------------------------------------------------------------
\* Failures.

FailedNow(t, n) == [t EXCEPT !.failed = IF @ < n THEN n ELSE @]

\* A failure is news if no answer was heard since it was asked.
LEMMA FailedHolds ==
  ASSUME NEW ch, NEW last \in Nat, NEW e, NEW entry \in EntryRecord, NEW t \in ToldRecord,
         EntryHolds(ch, last, e, entry, t), NEW n \in Nat,
         NEW failed, failed = FailedNow(t, n)
  PROVE  /\ Failed(entry, n) \in EntryRecord /\ failed \in ToldRecord
         /\ EntryHolds(ch, last, e, Failed(entry, n), failed)
         /\ Failed(entry, n).number = entry.number
         /\ Failed(entry, n).version = entry.version
         /\ failed.version = t.version
<1>1. /\ failed \in ToldRecord /\ failed.version = t.version /\ failed.answered = t.answered
      /\ failed.failed = IF t.failed < n THEN n ELSE t.failed
  BY DEF ToldRecord, FailedNow
<1>2. /\ Failed(entry, n) \in EntryRecord
      /\ Failed(entry, n).number = entry.number /\ Failed(entry, n).version = entry.version
      /\ Failed(entry, n).rows = entry.rows /\ Failed(entry, n).heard = entry.heard
      /\ Failed(entry, n).failure
           = IF n > entry.heard /\ n >= entry.failure THEN n ELSE entry.failure
  BY DEF Failed, EntryRecord
<1>3. Failed(entry, n).failure = IF failed.answered < failed.failed THEN failed.failed ELSE 0
  BY <1>1, <1>2 DEF EntryHolds, EntryRecord, ToldRecord
<1>4. EntryHolds(ch, last, e, Failed(entry, n), failed)
  BY <1>1, <1>2, <1>3 DEF EntryHolds
<1> QED
  BY <1>1, <1>2, <1>4

LEMMA FailReadKeeps ==
  ASSUME Inv, NEW n \in DOMAIN calls, Fail(n), calls[n].kind = "read"
  PROVE  Inv'
<1> DEFINE e == calls[n].evening
           cs == Without(calls, n)
           es == [entries EXCEPT ![e] = Failed(@, n)]
           ts == [told EXCEPT ![e].failed = IF @ < n THEN n ELSE @]
<1>1. Commit(es, ts, cs) /\ UNCHANGED <<changed, lock, asked, onScreen, versioned>>
  BY DEF Fail
<1>2. /\ asked \in Nat /\ n \in Nat /\ e \in Evenings
      /\ entries \in [Evenings -> EntryRecord] /\ told \in [Evenings -> ToldRecord]
  BY DEF Inv, Typed, CallRecord
<1>3. /\ EntryHolds(changed, asked, e, entries[e], told[e])
      /\ entries[e] \in EntryRecord /\ told[e] \in ToldRecord
  BY <1>2 DEF Inv, EntriesHold
<1>4. ts = [told EXCEPT ![e] = FailedNow(told[e], n)]
  BY DEF FailedNow
<1>5. /\ es[e] = Failed(entries[e], n)
      /\ ts[e] = FailedNow(told[e], n)
      /\ \A o \in Evenings : o # e => es[o] = entries[o] /\ ts[o] = told[o]
  BY <1>2, <1>4
<1>6. /\ es[e] \in EntryRecord /\ ts[e] \in ToldRecord
      /\ EntryHolds(changed, asked, e, es[e], ts[e])
      /\ es[e].number = entries[e].number /\ es[e].version = entries[e].version
      /\ ts[e].version = told[e].version
  <2> HIDE DEF e, es, ts
  <2> QED
    BY <1>2, <1>3, <1>5, FailedHolds
<1>7. es \in [Evenings -> EntryRecord] /\ ts \in [Evenings -> ToldRecord]
  BY <1>2, <1>3, <1>4, <1>5, <1>6
<1>8. /\ DOMAIN cs = DOMAIN calls \ {n}
      /\ \A m \in DOMAIN cs : cs[m] = calls[m]
      /\ \A m \in DOMAIN cs : cs[m] \in CallRecord /\ CallHolds(changed, lock, m, cs[m])
      /\ ~versioned => OnlyReads(cs)
  BY CallsWithout
<1>9. ASSUME NEW o \in Evenings
      PROVE  /\ EntryHolds(changed, asked, o, es[o], ts[o])
             /\ ~versioned => Between(es[o], ts[o], cs)
  <2> HIDE DEF e, es, ts, cs
  <2>1. /\ EntryHolds(changed, asked, o, entries[o], told[o])
        /\ ~versioned => Between(entries[o], told[o], calls)
    BY DEF Inv, EntriesHold
  <2>2. EntryHolds(changed, asked, o, es[o], ts[o])
    BY <2>1, <1>5, <1>6
  <2>3. /\ es[o].number = entries[o].number /\ es[o].version = entries[o].version
        /\ ts[o].version = told[o].version
    BY <1>5, <1>6
  <2> QED
    BY <2>1, <2>2, <2>3, <1>8 DEF Between
<1> HIDE DEF e, es, ts, cs
<1> QED
  BY <1>1, <1>7, <1>8, <1>9, CommitEnds

LEMMA FailWriteKeeps ==
  ASSUME Inv, NEW n \in DOMAIN calls, Fail(n), calls[n].kind # "read"
  PROVE  Inv'
<1>1. /\ UNCHANGED <<changed, lock, asked, entries, onScreen, versioned, told>>
      /\ calls' \in {Without(calls, n), [calls EXCEPT ![n].waiting = FALSE]}
  BY DEF Fail
<1>2. calls[n] \in CallRecord /\ CallHolds(changed, lock, n, calls[n])
  BY DEF Inv, Typed, CallsHold
<1>3. CASE calls' = Without(calls, n)
  <2>1. DOMAIN calls' \subseteq DOMAIN calls
        /\ \A m \in DOMAIN calls' : calls'[m] = calls[m] /\ calls'[m] \in CallRecord
                                    /\ CallHolds(changed, lock, m, calls'[m])
    BY <1>3, CallsWithout
  <2>2. changed' \in Seq(SUBSET Evenings) /\ Len(changed) <= Len(changed')
    BY <1>1 DEF Inv, Typed
  <2> QED
    BY <1>1, <2>1, <2>2, CallsKeep
<1>4. CASE calls' = [calls EXCEPT ![n].waiting = FALSE]
  <2> DEFINE c == [calls[n] EXCEPT !.waiting = FALSE]
  <2>1. c \in CallRecord /\ c.since = calls[n].since /\ c.kind = calls[n].kind
    BY <1>2 DEF CallRecord
  <2>2. CallHolds(changed, lock', n, c)
    BY <1>1, <1>2 DEF CallHolds, CallRecord, HasRead
  <2>3. calls' = [calls EXCEPT ![n] = c]
    BY <1>4
  <2> HIDE DEF c
  <2> QED
    BY <1>1, <2>1, <2>2, <2>3, CallGoesOn
<1> QED
  BY <1>1, <1>3, <1>4
-----------------------------------------------------------------------------
\* Answers.

HeardNow(t, n, known) ==
  [t EXCEPT !.version = IF @ < known THEN known ELSE @,
            !.answered = IF @ < n THEN n ELSE @]

\* Which answer is on record after answer number n.
LEMMA AnsweredIs ==
  ASSUME NEW entry \in EntryRecord, NEW n \in Nat \ {0}, NEW answer, answer.version \in Nat,
         answer.rows \in SUBSET Nat, versioned \in BOOLEAN, NEW new, new = Answered(entry, n, answer, versioned)
  PROVE  /\ new \in EntryRecord
         /\ new.heard = IF entry.heard < n THEN n ELSE entry.heard
         /\ new.failure = IF entry.failure <= n THEN 0 ELSE entry.failure
         /\ \/ /\ new.number = n /\ new.version = answer.version /\ new.rows = answer.rows
               /\ \/ entry.number = 0
                  \/ versioned /\ entry.version <= answer.version
                  \/ ~versioned /\ entry.number < n
            \/ /\ new.number = entry.number /\ new.version = entry.version /\ new.rows = entry.rows
               /\ IF versioned THEN answer.version <= entry.version ELSE n <= entry.number
<1> DEFINE heard == HeardAt(entry, n)
<1>1. /\ heard \in EntryRecord
      /\ heard.heard = IF entry.heard < n THEN n ELSE entry.heard
      /\ heard.failure = IF entry.failure <= n THEN 0 ELSE entry.failure
      /\ heard.number = entry.number /\ heard.version = entry.version /\ heard.rows = entry.rows
  BY DEF HeardAt, Larger, EntryRecord
<1>2. new = IF Replaces(entry, n, answer, versioned)
            THEN [heard EXCEPT !.number = n, !.version = answer.version, !.rows = answer.rows]
            ELSE heard
  BY DEF Answered, Applied
<1> HIDE DEF heard
<1>3. CASE Replaces(entry, n, answer, versioned)
  <2>1. \/ entry.number = 0
        \/ versioned /\ entry.version <= answer.version
        \/ ~versioned /\ entry.number < n
    BY <1>3 DEF Replaces, EntryRecord
  <2>2. new = [heard EXCEPT !.number = n, !.version = answer.version, !.rows = answer.rows]
    BY <1>2, <1>3
  <2> QED
    BY <1>1, <2>1, <2>2 DEF EntryRecord
<1>4. CASE ~Replaces(entry, n, answer, versioned)
  <2>1. IF versioned THEN answer.version <= entry.version ELSE n <= entry.number
    BY <1>4 DEF Replaces, EntryRecord
  <2> QED
    BY <1>1, <1>2, <1>4, <2>1
<1> QED
  BY <1>3, <1>4

\* An answer number n, which is about room ch and knows as much as known, to
\* the question of entry e.
MayBeHeard(ch, last, e, entry, t, n, answer, known) ==
  /\ ch \in Seq(SUBSET Evenings) /\ last \in Nat /\ n \in 1 .. last
  /\ entry \in EntryRecord /\ t \in ToldRecord /\ EntryHolds(ch, last, e, entry, t)
  /\ answer.version \in 0 .. Len(ch) /\ answer.rows = RoomAfter(ch, e, answer.version)
  /\ versioned \in BOOLEAN /\ known \in Nat /\ known <= answer.version
  /\ ~versioned /\ n <= entry.number => known <= entry.version
  /\ ~versioned /\ entry.number < n => t.version <= known

\* What the entry and its history are then.
WellHeard(ch, last, e, entry, t, n, answer, known, new, now) ==
  /\ new \in EntryRecord /\ now \in ToldRecord
  /\ EntryHolds(ch, last, e, new, now)
  /\ now.version = IF t.version < known THEN known ELSE t.version
  /\ versioned => entry.version <= new.version
  /\ ~versioned =>
       \/ entry.number < n /\ new.number = n /\ new.version = answer.version
       \/ n <= entry.number /\ new.number = entry.number /\ new.version = entry.version

LEMMA AnsweredHolds ==
  ASSUME NEW ch, NEW last, NEW e, NEW entry, NEW t, NEW n, NEW answer, NEW known,
         MayBeHeard(ch, last, e, entry, t, n, answer, known)
  PROVE  WellHeard(ch, last, e, entry, t, n, answer, known,
                   Answered(entry, n, answer, versioned), HeardNow(t, n, known))
<1> USE DEF MayBeHeard
<1> DEFINE new == Answered(entry, n, answer, versioned)
           now == HeardNow(t, n, known)
<1>1. answer.version \in Nat /\ answer.rows \in SUBSET Nat /\ n \in Nat \ {0}
  BY DEF RoomAfter
<1>2. /\ new \in EntryRecord
      /\ new.heard = IF entry.heard < n THEN n ELSE entry.heard
      /\ new.failure = IF entry.failure <= n THEN 0 ELSE entry.failure
      /\ \/ /\ new.number = n /\ new.version = answer.version /\ new.rows = answer.rows
            /\ \/ entry.number = 0
               \/ versioned /\ entry.version <= answer.version
               \/ ~versioned /\ entry.number < n
         \/ /\ new.number = entry.number /\ new.version = entry.version /\ new.rows = entry.rows
            /\ IF versioned THEN answer.version <= entry.version ELSE n <= entry.number
  BY <1>1, AnsweredIs
<1>3. /\ now \in ToldRecord
      /\ now.version = IF t.version < known THEN known ELSE t.version
      /\ now.answered = IF t.answered < n THEN n ELSE t.answered
      /\ now.failed = t.failed
  BY <1>1 DEF HeardNow, ToldRecord
<1> HIDE DEF new, now
<1>4. new.heard = now.answered
  BY <1>2, <1>3 DEF EntryHolds
<1>5. new.failure = IF now.answered < now.failed THEN now.failed ELSE 0
  BY <1>1, <1>2, <1>3 DEF EntryHolds, ToldRecord, EntryRecord
<1>6. entry.number \in Nat /\ entry.version \in Nat /\ t.version \in Nat /\ Len(ch) \in Nat
  BY DEF EntryRecord, ToldRecord
<1>7. now.version <= new.version /\ (versioned => entry.version <= new.version)
  BY <1>1, <1>2, <1>3, <1>6 DEF EntryHolds
<1>8. /\ new.number <= last /\ (new.number = 0 => new.version = 0)
      /\ new.version <= Len(ch) /\ new.rows = RoomAfter(ch, e, new.version)
  BY <1>1, <1>2, <1>6 DEF EntryHolds
<1>9. EntryHolds(ch, last, e, new, now)
  BY <1>4, <1>5, <1>7, <1>8 DEF EntryHolds
<1>10. ~versioned =>
              \/ entry.number < n /\ new.number = n /\ new.version = answer.version
              \/ n <= entry.number /\ new.number = entry.number /\ new.version = entry.version
  BY <1>1, <1>2, <1>6
<1> QED
  BY <1>2, <1>3, <1>7, <1>9, <1>10 DEF new, now, WellHeard

LEMMA HearKeeps ==
  ASSUME Inv, NEW n \in DOMAIN calls, Hear(n)
  PROVE  /\ Inv'
         /\ \A o \in Evenings : \/ entries'[o] = Nothing
                                \/ versioned => entries[o].version <= entries'[o].version
<1> DEFINE call == calls[n]
           e == call.evening
           known == IF call.kind = "write" THEN call.version ELSE call.since
           answer == AnswerOf(call)
           cs == Without(calls, n)
           es == [entries EXCEPT ![e] = Answered(@, n, answer, versioned)]
           ts == [told EXCEPT ![e] = HeardNow(@, n, known)]
<1>1. /\ Commit(es, ts, cs) /\ UNCHANGED <<changed, lock, asked, onScreen, versioned>>
      /\ call.stage = "done"
  <2>1. ts = [told EXCEPT ![e].version = IF @ < known THEN known ELSE @,
                          ![e].answered = IF @ < n THEN n ELSE @]
    BY DEF HeardNow, Inv, Typed, ToldRecord
  <2> QED
    BY <2>1 DEF Hear
<1>2. /\ asked \in Nat /\ n \in 1 .. asked /\ call \in CallRecord /\ e \in Evenings
      /\ changed \in Seq(SUBSET Evenings) /\ Len(changed) \in Nat /\ versioned \in BOOLEAN
      /\ entries \in [Evenings -> EntryRecord] /\ told \in [Evenings -> ToldRecord]
  BY DEF Inv, Typed, CallRecord
<1>3. /\ answer.version = call.version /\ answer.version \in 0 .. Len(changed)
      /\ answer.rows = RoomAfter(changed, e, answer.version)
      /\ known \in Nat /\ known <= answer.version
      /\ ~versioned => call.kind = "read" /\ known = call.since
  BY <1>1, <1>2 DEF Inv, CallsHold, CallHolds, HasRead, CallRecord, AnswerOf, OnlyReads
<1>4. /\ EntryHolds(changed, asked, e, entries[e], told[e])
      /\ entries[e] \in EntryRecord /\ told[e] \in ToldRecord
      /\ ~versioned => Between(entries[e], told[e], calls)
  BY <1>2 DEF Inv, EntriesHold
<1>5. /\ es[e] = Answered(entries[e], n, answer, versioned)
      /\ ts[e] = HeardNow(told[e], n, known)
      /\ \A o \in Evenings : o # e => es[o] = entries[o] /\ ts[o] = told[o]
  BY <1>2
<1>6. /\ ~versioned /\ n <= entries[e].number => known <= entries[e].version
      /\ ~versioned /\ entries[e].number < n => told[e].version <= known
  BY <1>3, <1>4 DEF Between
<1> HIDE DEF answer, known
<1>7. /\ es[e] \in EntryRecord /\ ts[e] \in ToldRecord
      /\ EntryHolds(changed, asked, e, es[e], ts[e])
      /\ ts[e].version = IF told[e].version < known THEN known ELSE told[e].version
      /\ versioned => entries[e].version <= es[e].version
      /\ ~versioned =>
           \/ /\ entries[e].number < n /\ es[e].number = n
              /\ es[e].version = answer.version
           \/ /\ n <= entries[e].number /\ es[e].number = entries[e].number
              /\ es[e].version = entries[e].version
  <2>1. /\ changed \in Seq(SUBSET Evenings) /\ asked \in Nat /\ n \in 1 .. asked
        /\ versioned \in BOOLEAN
    BY <1>2
  <2>2. /\ answer.version \in 0 .. Len(changed)
        /\ answer.rows = RoomAfter(changed, e, answer.version)
        /\ known \in Nat /\ known <= answer.version
    BY <1>3
  <2>3. /\ es[e] = Answered(entries[e], n, answer, versioned)
        /\ ts[e] = HeardNow(told[e], n, known)
    BY <1>5
  <2>4. /\ EntryHolds(changed, asked, e, entries[e], told[e])
        /\ entries[e] \in EntryRecord /\ told[e] \in ToldRecord
    BY <1>4
  <2> HIDE DEF e, es, ts, call
  <2>5. MayBeHeard(changed, asked, e, entries[e], told[e], n, answer, known)
    BY <2>1, <2>2, <2>4, <1>6 DEF MayBeHeard
  <2>6. WellHeard(changed, asked, e, entries[e], told[e], n, answer, known,
                  Answered(entries[e], n, answer, versioned), HeardNow(told[e], n, known))
    BY <2>5, AnsweredHolds
  <2> QED
    BY <2>3, <2>6 DEF WellHeard
<1>8. es \in [Evenings -> EntryRecord] /\ ts \in [Evenings -> ToldRecord]
  BY <1>2, <1>5, <1>7
<1>9. /\ DOMAIN cs = DOMAIN calls \ {n}
      /\ \A m \in DOMAIN cs : cs[m] = calls[m]
      /\ \A m \in DOMAIN cs : cs[m] \in CallRecord /\ CallHolds(changed, lock, m, cs[m])
      /\ ~versioned => OnlyReads(cs)
  BY CallsWithout
<1> HIDE DEF e, es, ts, cs
<1>10. ASSUME ~versioned
       PROVE  Between(es[e], ts[e], cs)
  <2> SUFFICES ASSUME NEW m \in DOMAIN cs
               PROVE  /\ es[e].number < m => ts[e].version <= cs[m].since
                      /\ m <= es[e].number => cs[m].since <= es[e].version
    BY DEF Between
  <2>1. /\ cs[m] = calls[m] /\ m \in DOMAIN calls /\ m # n /\ m \in Nat
        /\ calls[m] \in CallRecord
    BY <1>9 DEF Inv, Typed
  <2>2. /\ entries[e].number < m => told[e].version <= calls[m].since
        /\ m <= entries[e].number => calls[m].since <= entries[e].version
    BY <2>1, <1>4, <1>10 DEF Between
  <2>3. /\ n < m => known <= calls[m].since
        /\ m < n => calls[m].since <= known
    BY <2>1, <1>3, <1>10 DEF Inv, OnlyReads
  <2>4. /\ known \in Nat /\ answer.version \in Nat /\ calls[m].since \in Nat /\ n \in Nat
        /\ entries[e].number \in Nat /\ entries[e].version \in Nat /\ told[e].version \in Nat
    BY <2>1, <1>2, <1>3, <1>4 DEF CallRecord, EntryRecord, ToldRecord
  <2> QED
    BY <2>1, <2>2, <2>3, <2>4, <1>3, <1>7, <1>10
<1>11. ASSUME NEW o \in Evenings
       PROVE  /\ EntryHolds(changed, asked, o, es[o], ts[o])
              /\ ~versioned => Between(es[o], ts[o], cs)
              /\ versioned => entries[o].version <= es[o].version
  <2>1. /\ EntryHolds(changed, asked, o, entries[o], told[o])
        /\ ~versioned => Between(entries[o], told[o], calls)
        /\ entries[o].version <= entries[o].version
    BY <1>2 DEF Inv, EntriesHold, EntryRecord
  <2>2. CASE o = e
    BY <2>2, <1>7, <1>10
  <2>3. CASE o # e
    BY <2>1, <2>3, <1>5, <1>9 DEF Between
  <2> QED
    BY <2>2, <2>3
<1>12. Inv'
  BY <1>1, <1>8, <1>9, <1>11, CommitEnds
<1>13. \A o \in Evenings : entries'[o] = Nothing \/ entries'[o] = es[o]
  BY <1>1, <1>8, CommitIs
<1> QED
  BY <1>11, <1>12, <1>13
-----------------------------------------------------------------------------
\* Whatever the app does, an evening's room only gets later, or is forgotten.

OnlyLater ==
  /\ UNCHANGED <<changed, versioned>>
  /\ \A o \in Evenings : \/ entries'[o] = Nothing
                         \/ versioned => entries[o].version <= entries'[o].version

LEMMA CommitIsLater ==
  ASSUME Inv, NEW es \in [Evenings -> EntryRecord], NEW ts \in [Evenings -> ToldRecord], NEW cs,
         Commit(es, ts, cs), UNCHANGED <<changed, versioned>>,
         \A o \in Evenings : es[o].version = entries[o].version
  PROVE  OnlyLater
<1>1. \A o \in Evenings : entries'[o] = Nothing \/ entries'[o] = es[o]
  BY CommitIs
<1>2. \A o \in Evenings : entries[o].version \in Nat
  BY DEF Inv, Typed, EntryRecord
<1> QED
  BY <1>1, <1>2 DEF OnlyLater

LEMMA SameIsLater ==
  ASSUME Inv, UNCHANGED <<changed, versioned, entries>>
  PROVE  OnlyLater
<1>1. \A o \in Evenings : entries[o].version \in Nat
  BY DEF Inv, Typed, EntryRecord
<1> QED
  BY <1>1 DEF OnlyLater

LEMMA AskIsLater ==
  ASSUME Inv, NEW call, Ask(call)
  PROVE  OnlyLater
<1>1. PICK cs : Commit(entries, told, cs) /\ UNCHANGED <<changed, versioned>>
  BY DEF Ask
<1>2. entries \in [Evenings -> EntryRecord] /\ told \in [Evenings -> ToldRecord]
  BY DEF Inv, Typed
<1> QED
  BY <1>1, <1>2, CommitIsLater

LEMMA FailIsLater ==
  ASSUME Inv, NEW n \in DOMAIN calls, Fail(n)
  PROVE  OnlyLater
<1>1. CASE calls[n].kind # "read"
  BY <1>1, SameIsLater DEF Fail
<1>2. CASE calls[n].kind = "read"
  <2> DEFINE e == calls[n].evening
             es == [entries EXCEPT ![e] = Failed(@, n)]
             ts == [told EXCEPT ![e].failed = IF @ < n THEN n ELSE @]
  <2>1. /\ entries \in [Evenings -> EntryRecord] /\ told \in [Evenings -> ToldRecord]
        /\ n \in Nat /\ e \in Evenings
    BY DEF Inv, Typed, CallRecord
  <2>2. /\ Failed(entries[e], n) \in EntryRecord
        /\ Failed(entries[e], n).version = entries[e].version
    BY <2>1 DEF Failed, EntryRecord
  <2>3. es \in [Evenings -> EntryRecord] /\ \A o \in Evenings : es[o].version = entries[o].version
    <3> HIDE DEF e
    <3> QED
      BY <2>1, <2>2
  <2>4. ts \in [Evenings -> ToldRecord]
    BY <2>1 DEF ToldRecord
  <2>5. /\ Commit(es, ts, Without(calls, n)) /\ UNCHANGED <<changed, versioned>>
    BY <1>2 DEF Fail
  <2> HIDE DEF e, es, ts
  <2> QED
    BY <2>3, <2>4, <2>5, CommitIsLater
<1> QED
  BY <1>1, <1>2

-----------------------------------------------------------------------------
\* Every step keeps the invariant.

LEMMA InitHolds == Init => Inv
<1> SUFFICES ASSUME Init PROVE Inv
  OBVIOUS
<1>1. Typed
  BY DEF Init, Typed, Nothing, Untold, EntryRecord, ToldRecord
<1>2. CallsHold /\ OnlyReads(calls)
  BY DEF Init, CallsHold, OnlyReads
<1>3. EntriesHold
  <2>1. Len(changed) = 0
    BY DEF Init
  <2> QED
    BY <2>1 DEF Init, EntriesHold, EntryHolds, Between, Nothing, Untold, RoomAfter
<1> QED
  BY <1>1, <1>2, <1>3 DEF Inv

\* A step changes what is on record, or the room, or neither of them.
LEMMA StepIs ==
  ASSUME Inv, [Next]_vars
  PROVE  /\ Inv'
         /\ \/ OnlyLater
            \/ \E es \in SUBSET Evenings : changed' = Append(changed, es)
                                           /\ UNCHANGED <<entries, versioned>>
<1>1. CASE Load
  BY <1>1, LoadKeeps, AskIsLater DEF Load
<1>2. ASSUME NEW e \in Evenings, Show(e)
      PROVE  Inv' /\ OnlyLater
  BY <1>2, ShowKeeps, SameIsLater DEF Show
<1>3. ASSUME NEW e \in Evenings, WriteShift(e)
      PROVE  Inv' /\ OnlyLater
  BY <1>3, WriteShiftKeeps, AskIsLater DEF WriteShift
<1>4. ASSUME NEW n \in DOMAIN calls, Hear(n)
      PROVE  Inv' /\ OnlyLater
  BY <1>4, HearKeeps DEF OnlyLater, Hear
<1>5. ASSUME NEW n \in DOMAIN calls, Fail(n)
      PROVE  Inv' /\ OnlyLater
  BY <1>5, FailReadKeeps, FailWriteKeeps, FailIsLater
<1>6. ASSUME NEW n \in DOMAIN calls, ReadRows(n)
      PROVE  Inv' /\ OnlyLater
  BY <1>6, ReadRowsKeeps, SameIsLater DEF ReadRows
<1>7. ASSUME NEW n \in DOMAIN calls, ReadVersion(n)
      PROVE  Inv' /\ OnlyLater
  BY <1>7, ReadVersionKeeps, SameIsLater DEF ReadVersion
<1>8. ASSUME NEW n \in DOMAIN calls, LockBar(n)
      PROVE  Inv' /\ OnlyLater
  BY <1>8, LockBarKeeps, SameIsLater DEF LockBar
<1>9. ASSUME NEW n \in DOMAIN calls, CommitWrite(n)
      PROVE  /\ Inv'
             /\ \E es \in SUBSET Evenings : changed' = Append(changed, es)
                                            /\ UNCHANGED <<entries, versioned>>
  <2>1. {calls[n].evening} \in SUBSET Evenings
    BY DEF Inv, Typed, CallRecord
  <2> QED
    BY <1>9, <2>1, CommitWriteKeeps DEF CommitWrite
<1>10. ASSUME NEW n \in DOMAIN calls, Rollback(n)
       PROVE  Inv' /\ OnlyLater
  BY <1>10, RollbackKeeps, SameIsLater DEF Rollback
<1>11. ASSUME NEW es \in SUBSET Evenings, OthersChange(es)
       PROVE  /\ Inv'
              /\ changed' = Append(changed, es) /\ UNCHANGED <<entries, versioned>>
  BY <1>11, OthersChangeKeeps DEF OthersChange
<1>12. CASE UNCHANGED vars
  <2>1. UNCHANGED <<changed, lock, calls, asked, entries, onScreen, versioned, told>>
    BY <1>12 DEF vars
  <2>2. Inv'
    BY <2>1 DEF Inv, Typed, CallsHold, OnlyReads, EntriesHold
  <2> QED
    BY <2>1, <2>2, SameIsLater
<1> QED
  BY <1>1, <1>2, <1>3, <1>4, <1>5, <1>6, <1>7, <1>8, <1>9, <1>10, <1>11, <1>12 DEF Next

LEMMA InvAlways == Spec => []Inv
<1>1. Inv /\ [Next]_vars => Inv'
  BY StepIs
<1> QED
  BY InitHolds, <1>1, PTL DEF Spec

-----------------------------------------------------------------------------
\* Screens implements Board.

LEMMA RoomIs ==
  ASSUME Inv, NEW e \in Evenings
  PROVE  /\ Len(changed) \in Nat /\ entries[e].version \in 0 .. Len(changed)
         /\ entries[e].rows = B!Contents(e, entries[e].version)
<1>1. entries[e] \in EntryRecord /\ changed \in Seq(SUBSET Evenings)
  BY DEF Inv, Typed
<1>2. EntryHolds(changed, asked, e, entries[e], told[e])
  BY DEF Inv, EntriesHold
<1> QED
  BY <1>1, <1>2 DEF EntryHolds, EntryRecord, RoomAfter, B!Contents

LEMMA LaterIsLook ==
  ASSUME Inv, Inv', OnlyLater
  PROVE  B!Look
<1>1. UNCHANGED <<changed, versioned>>
  BY DEF OnlyLater
<1>2. ASSUME NEW e \in Evenings
      PROVE  Shown'[e] \in {B!Blank} \cup B!Later(e)
  <2>1. Shown'[e] = IF versioned THEN [version |-> entries'[e].version, rows |-> entries'[e].rows]
                    ELSE [version |-> 0, rows |-> {}]
    BY <1>1 DEF Shown
  <2>2. CASE ~versioned \/ entries'[e] = Nothing
    BY <2>1, <2>2 DEF Nothing, B!Blank
  <2>3. CASE versioned /\ entries'[e] # Nothing
    <3>1. entries[e].version <= entries'[e].version
      BY <2>3 DEF OnlyLater
    <3>2. /\ Len(changed') \in Nat /\ entries'[e].version \in 0 .. Len(changed')
          /\ entries'[e].rows = {i \in 1 .. entries'[e].version : e \in changed'[i]}
      <4>1. entries'[e] \in EntryRecord /\ changed' \in Seq(SUBSET Evenings)
        BY DEF Inv, Typed
      <4>2. EntryHolds(changed', asked', e, entries'[e], told'[e])
        BY DEF Inv, EntriesHold
      <4> QED
        BY <4>1, <4>2 DEF EntryHolds, EntryRecord, RoomAfter
    <3>3. entries[e].version \in Nat /\ Shown[e].version = entries[e].version
      BY <2>3, RoomIs DEF Shown
    <3>4. entries'[e].version \in Shown[e].version .. Len(changed)
      BY <1>1, <3>1, <3>2, <3>3
    <3>5. entries'[e].rows = B!Contents(e, entries'[e].version)
      BY <1>1, <3>2 DEF B!Contents
    <3> QED
      BY <2>1, <2>3, <3>4, <3>5 DEF B!Later
  <2> QED
    BY <2>2, <2>3
<1>3. Shown' \in [Evenings -> {B!Blank} \cup UNION {B!Later(e) : e \in Evenings}]
  <2>1. Shown' = [e \in Evenings |-> Shown'[e]]
    BY DEF Shown
  <2>2. \A e \in Evenings : Shown'[e] \in {B!Blank} \cup UNION {B!Later(o) : o \in Evenings}
    BY <1>2
  <2> QED
    BY <2>1, <2>2
<1> QED
  BY <1>1, <1>2, <1>3 DEF B!Look

(***************************************************************************)
(* Whatever order answers come in, each evening shows a room that really   *)
(* was, and from one moment to the next only a later one.                  *)
(***************************************************************************)
THEOREM ScreensImplementBoard == Spec => KeepsBoard
<1>1. Init => B!Init
  BY DEF Init, B!Init, Shown, Nothing, B!Blank
<1>2. Inv /\ Inv' /\ [Next]_vars => [B!Next]_(B!board)
  <2> SUFFICES ASSUME Inv, Inv', [Next]_vars
               PROVE  [B!Next]_(B!board)
    OBVIOUS
  <2>1. CASE OnlyLater
    BY <2>1, LaterIsLook DEF B!Next
  <2>2. ASSUME NEW es \in SUBSET Evenings, changed' = Append(changed, es),
               UNCHANGED <<entries, versioned>>
        PROVE  B!Change(es)
    <3>1. Shown' = Shown
      BY <2>2 DEF Shown
    <3> QED
      BY <2>2, <3>1 DEF B!Change
  <2> QED
    BY <2>1, <2>2, StepIs DEF B!Next
<1> QED
  BY <1>1, <1>2, InvAlways, PTL DEF Spec, KeepsBoard, B!Spec

(***************************************************************************)
(* What is on record holds every write of one's own that was answered, and *)
(* all that had happened when any read that was answered was asked.        *)
(***************************************************************************)
THEOREM RecordKeepsUp == Spec => []ScreenKeepsUp
<1>1. Inv => ScreenKeepsUp
  <2> SUFFICES ASSUME Inv, NEW e \in Evenings
               PROVE  entries[e].version >= told[e].version
    BY DEF ScreenKeepsUp
  <2>1. entries[e] \in EntryRecord /\ told[e] \in ToldRecord
    BY DEF Inv, Typed
  <2>2. EntryHolds(changed, asked, e, entries[e], told[e])
    BY DEF Inv, EntriesHold
  <2> QED
    BY <2>1, <2>2 DEF EntryHolds, EntryRecord, ToldRecord
<1> QED
  BY <1>1, InvAlways, PTL

(***************************************************************************)
(* A failure shows exactly if it is newer than every answer heard.         *)
(***************************************************************************)
THEOREM FailuresAreTold == Spec => []FailuresAreNews
<1>1. Inv => FailuresAreNews
  <2> SUFFICES ASSUME Inv, NEW e \in Evenings
               PROVE  entries[e].failure # 0 <=> told[e].failed > told[e].answered
    BY DEF FailuresAreNews
  <2>1. entries[e] \in EntryRecord /\ told[e] \in ToldRecord
    BY DEF Inv, Typed
  <2>2. EntryHolds(changed, asked, e, entries[e], told[e])
    BY DEF Inv, EntriesHold
  <2> QED
    BY <2>1, <2>2 DEF EntryHolds, EntryRecord, ToldRecord
<1> QED
  BY <1>1, InvAlways, PTL

-----------------------------------------------------------------------------
(***************************************************************************)
(* Types: besides Inv, whoever has the lock is a write that has read its   *)
(* room, and the app was told of no call it has not made.                  *)
(***************************************************************************)
Bounded ==
  /\ Len(changed) <= MaxChanges /\ asked <= MaxAsked
  /\ lock # 0 => lock \in DOMAIN calls /\ Carried(lock, "write", "rows")
  /\ \A n \in DOMAIN calls : calls[n].stage \in {"sent", "refused"} => calls[n].rows = {}
  /\ \A e \in Evenings : told[e].answered <= asked /\ told[e].failed <= asked

\* Call n goes on or ends, the others stay.
LEMMA BoundedGoes ==
  ASSUME Bounded, NEW n \in DOMAIN calls, DOMAIN calls' \subseteq DOMAIN calls,
         \A m \in DOMAIN calls \ {n} : m \in DOMAIN calls' /\ calls'[m] = calls[m],
         n \in DOMAIN calls' /\ calls'[n].stage \in {"sent", "refused"} => calls'[n].rows = {},
         \/ lock' = 0
         \/ lock' = lock /\ (lock = n => n \in DOMAIN calls' /\ Carried(n, "write", "rows")')
         \/ lock' = n /\ n \in DOMAIN calls' /\ Carried(n, "write", "rows")',
         UNCHANGED asked, Len(changed') <= MaxChanges,
         \A e \in Evenings : told'[e].answered <= asked /\ told'[e].failed <= asked
  PROVE  Bounded'
<1>1. lock' # 0 => lock' \in DOMAIN calls' /\ Carried(lock, "write", "rows")'
  BY DEF Bounded, Carried
<1>2. \A m \in DOMAIN calls' : calls'[m].stage \in {"sent", "refused"} => calls'[m].rows = {}
  BY DEF Bounded
<1> QED
  BY <1>1, <1>2 DEF Bounded

LEMMA AskBounded ==
  ASSUME Inv, Bounded, NEW call, call.stage = "sent", call.rows = {}, Ask(call)
  PROVE  Bounded'
<1> DEFINE cs == [n \in DOMAIN calls \cup {asked + 1} |->
                    IF n = asked + 1 THEN call ELSE calls[n]]
<1>1. /\ asked < MaxAsked /\ asked' = asked + 1 /\ Commit(entries, told, cs)
      /\ UNCHANGED <<changed, lock>>
  BY DEF Ask
<1>2. /\ asked \in Nat /\ DOMAIN calls \subseteq 1 .. asked /\ MaxAsked \in Nat
      /\ entries \in [Evenings -> EntryRecord] /\ told \in [Evenings -> ToldRecord]
  BY ScreensAssumption DEF Inv, Typed
<1>3. /\ calls' = cs
      /\ \A e \in Evenings : told'[e] = Untold \/ told'[e] = told[e]
  <2> HIDE DEF cs
  <2> QED
    BY <1>1, <1>2, CommitIs
<1>4. \A n \in DOMAIN calls : n # asked + 1
  BY <1>2
<1>5. /\ DOMAIN calls' = DOMAIN calls \cup {asked + 1} /\ calls'[asked + 1] = call
      /\ \A n \in DOMAIN calls : calls'[n] = calls[n]
  BY <1>3, <1>4
<1> HIDE DEF cs
<1>6. lock' # 0 => lock' \in DOMAIN calls' /\ Carried(lock, "write", "rows")'
  BY <1>1, <1>5 DEF Bounded, Carried
<1>7. \A n \in DOMAIN calls' : calls'[n].stage \in {"sent", "refused"} => calls'[n].rows = {}
  BY <1>5 DEF Bounded
<1>8. ASSUME NEW e \in Evenings
      PROVE  told'[e].answered <= asked' /\ told'[e].failed <= asked'
  <2>1. told[e].answered \in Nat /\ told[e].failed \in Nat
    BY <1>2 DEF ToldRecord
  <2>2. Untold.answered = 0 /\ Untold.failed = 0
    BY DEF Untold
  <2> QED
    BY <1>1, <1>2, <1>3, <2>1, <2>2 DEF Bounded
<1> QED
  BY <1>1, <1>2, <1>6, <1>7, <1>8 DEF Bounded

\* What the app hears of call n, which is over with that.
LEMMA HeardBounded ==
  ASSUME Inv, Bounded, NEW n \in DOMAIN calls, lock # n,
         NEW es \in [Evenings -> EntryRecord], NEW ts \in [Evenings -> ToldRecord],
         Commit(es, ts, Without(calls, n)), UNCHANGED <<changed, lock, asked>>,
         \A e \in Evenings : ts[e].answered <= asked /\ ts[e].failed <= asked
  PROVE  Bounded'
<1>1. /\ calls' = Without(calls, n)
      /\ \A e \in Evenings : told'[e] = Untold \/ told'[e] = ts[e]
  BY CommitIs
<1>2. /\ DOMAIN calls' = DOMAIN calls \ {n}
      /\ \A m \in DOMAIN calls \ {n} : calls'[m] = calls[m]
  BY <1>1 DEF Without
<1>3. Untold.answered = 0 /\ Untold.failed = 0 /\ asked \in Nat
  BY DEF Untold, Inv, Typed
<1>4. \A e \in Evenings : told'[e].answered <= asked /\ told'[e].failed <= asked
  BY <1>1, <1>3
<1>5. Len(changed') <= MaxChanges
  BY DEF Bounded
<1> QED
  BY <1>2, <1>4, <1>5, BoundedGoes

LEMMA HearBounded ==
  ASSUME Inv, Bounded, NEW n \in DOMAIN calls, Hear(n)
  PROVE  Bounded'
<1> DEFINE call == calls[n]
           e == call.evening
           known == IF call.kind = "write" THEN call.version ELSE call.since
           answer == AnswerOf(call)
           es == [entries EXCEPT ![e] = Answered(@, n, answer, versioned)]
           ts == [told EXCEPT ![e] = HeardNow(@, n, known)]
<1>1. /\ Commit(es, ts, Without(calls, n)) /\ UNCHANGED <<changed, lock, asked>>
      /\ call.stage = "done"
  <2>1. ts = [told EXCEPT ![e].version = IF @ < known THEN known ELSE @,
                          ![e].answered = IF @ < n THEN n ELSE @]
    BY DEF HeardNow, Inv, Typed, ToldRecord
  <2> QED
    BY <2>1 DEF Hear
<1>2. /\ asked \in Nat /\ n \in 1 .. asked /\ call \in CallRecord /\ e \in Evenings
      /\ versioned \in BOOLEAN /\ known \in Nat
      /\ entries \in [Evenings -> EntryRecord] /\ told \in [Evenings -> ToldRecord]
  BY DEF Inv, Typed, CallRecord
<1>3. answer.version \in Nat /\ answer.rows \in SUBSET Nat
  BY <1>2 DEF AnswerOf, CallRecord
<1>4. entries[e] \in EntryRecord /\ told[e] \in ToldRecord
  BY <1>2
<1> HIDE DEF call, e, known, answer
<1>5. Answered(entries[e], n, answer, versioned) \in EntryRecord
  BY <1>2, <1>3, <1>4, AnsweredIs
<1>6. /\ HeardNow(told[e], n, known) \in ToldRecord
      /\ HeardNow(told[e], n, known).answered \in {n, told[e].answered}
      /\ HeardNow(told[e], n, known).failed = told[e].failed
  <2> DEFINE t == told[e]
             version == IF t.version < known THEN known ELSE t.version
             answered == IF t.answered < n THEN n ELSE t.answered
  <2>1. HeardNow(t, n, known) = [t EXCEPT !.version = version, !.answered = answered]
    BY <1>4 DEF HeardNow, ToldRecord
  <2>2. version \in Nat /\ answered \in Nat /\ answered \in {n, t.answered}
    BY <1>2, <1>4 DEF ToldRecord
  <2> HIDE DEF version, answered
  <2> QED
    BY <1>4, <2>1, <2>2 DEF ToldRecord
<1>7. es \in [Evenings -> EntryRecord] /\ ts \in [Evenings -> ToldRecord]
  BY <1>2, <1>5, <1>6
<1>8. \A o \in Evenings : ts[o].answered <= asked /\ ts[o].failed <= asked
  BY <1>2, <1>6 DEF Bounded
<1>9. lock # n
  BY <1>1, <1>2 DEF Bounded, Carried, call
<1> HIDE DEF es, ts
<1> QED
  BY <1>1, <1>7, <1>8, <1>9, HeardBounded

LEMMA FailBounded ==
  ASSUME Inv, Bounded, NEW n \in DOMAIN calls, Fail(n)
  PROVE  Bounded'
<1>1. /\ calls[n] \in CallRecord /\ asked \in Nat /\ n \in 1 .. asked
      /\ entries \in [Evenings -> EntryRecord] /\ told \in [Evenings -> ToldRecord]
  BY DEF Inv, Typed
<1>2. CASE calls[n].kind = "read"
  <2> DEFINE e == calls[n].evening
             es == [entries EXCEPT ![e] = Failed(@, n)]
             ts == [told EXCEPT ![e].failed = IF @ < n THEN n ELSE @]
  <2>1. Commit(es, ts, Without(calls, n)) /\ UNCHANGED <<changed, lock, asked>>
    BY <1>2 DEF Fail
  <2>2. e \in Evenings /\ entries[e] \in EntryRecord /\ told[e] \in ToldRecord
    BY <1>1 DEF CallRecord
  <2>3. ts = [told EXCEPT ![e] = FailedNow(told[e], n)]
    BY DEF FailedNow
  <2> HIDE DEF e
  <2>4. Failed(entries[e], n) \in EntryRecord
    BY <1>1, <2>2 DEF Failed, EntryRecord
  <2>5. /\ FailedNow(told[e], n) \in ToldRecord
        /\ FailedNow(told[e], n).answered = told[e].answered
        /\ FailedNow(told[e], n).failed \in {n, told[e].failed}
    BY <1>1, <2>2 DEF FailedNow, ToldRecord
  <2>6. es \in [Evenings -> EntryRecord]
    BY <1>1, <2>4
  <2>7. /\ ts \in [Evenings -> ToldRecord]
        /\ \A o \in Evenings : ts[o].answered <= asked /\ ts[o].failed <= asked
    <3> HIDE DEF ts
    <3> QED
      BY <1>1, <2>2, <2>3, <2>5 DEF Bounded
  <2>8. lock # n
    BY <1>1, <1>2 DEF Bounded, Carried
  <2> HIDE DEF es, ts
  <2> QED
    BY <2>1, <2>6, <2>7, <2>8, HeardBounded
<1>3. CASE calls[n].kind # "read"
  <2>1. /\ UNCHANGED <<changed, lock, asked, told>>
        /\ \/ calls' = Without(calls, n) /\ calls[n].stage \in {"done", "refused"}
           \/ calls' = [calls EXCEPT ![n].waiting = FALSE]
    BY <1>3 DEF Fail
  <2>2. CASE calls' = Without(calls, n) /\ calls[n].stage \in {"done", "refused"}
    <3>1. /\ DOMAIN calls' = DOMAIN calls \ {n}
          /\ \A m \in DOMAIN calls \ {n} : calls'[m] = calls[m]
          /\ lock # n
      BY <1>1, <2>2 DEF Without, Bounded, Carried
    <3> QED
      BY <2>1, <3>1, BoundedGoes DEF Bounded
  <2>3. CASE calls' = [calls EXCEPT ![n].waiting = FALSE]
    <3>1. /\ DOMAIN calls' = DOMAIN calls
          /\ \A m \in DOMAIN calls \ {n} : calls'[m] = calls[m]
          /\ calls'[n].stage = calls[n].stage /\ calls'[n].rows = calls[n].rows
          /\ calls'[n].kind = calls[n].kind
      BY <1>1, <2>3 DEF CallRecord
    <3>2. lock = n => Carried(n, "write", "rows")'
      BY <1>1, <3>1 DEF Bounded, Carried
    <3> QED
      BY <2>1, <3>1, <3>2, BoundedGoes DEF Bounded
  <2> QED
    BY <2>1, <2>2, <2>3
<1> QED
  BY <1>2, <1>3

LEMMA ServerBounded ==
  ASSUME Inv, Bounded, NEW n \in DOMAIN calls,
         \/ ReadRows(n) \/ ReadVersion(n) \/ LockBar(n) \/ CommitWrite(n) \/ Rollback(n)
  PROVE  Bounded'
<1>1. /\ calls[n] \in CallRecord /\ n # 0 /\ Len(changed) \in Nat
      /\ changed \in Seq(SUBSET Evenings)
      /\ Len(changed) <= MaxChanges
      /\ \A e \in Evenings : told[e].answered <= asked /\ told[e].failed <= asked
  BY DEF Inv, Typed, Bounded
<1>2. CASE ReadRows(n) \/ ReadVersion(n)
  <2>1. /\ UNCHANGED <<changed, lock, asked, told>> /\ lock # n
        /\ DOMAIN calls' = DOMAIN calls
        /\ \A m \in DOMAIN calls \ {n} : calls'[m] = calls[m]
        /\ calls'[n].stage \in {"rows", "done"}
    BY <1>1, <1>2 DEF ReadRows, ReadVersion, Carried, Bounded, CallRecord
  <2> QED
    BY <1>1, <2>1, BoundedGoes
<1>3. CASE LockBar(n)
  <2>1. /\ UNCHANGED <<changed, asked, told>> /\ lock' = n
        /\ DOMAIN calls' = DOMAIN calls
        /\ \A m \in DOMAIN calls \ {n} : calls'[m] = calls[m]
        /\ calls'[n].stage = "rows" /\ calls'[n].kind = "write"
    BY <1>1, <1>3 DEF LockBar, Carried, CallRecord
  <2> QED
    BY <1>1, <2>1, BoundedGoes DEF Carried
<1>4. ASSUME NEW c, c.stage = "done" \/ c.rows = {}, calls' = Ended(n, c)
      PROVE  /\ DOMAIN calls' \subseteq DOMAIN calls
             /\ \A m \in DOMAIN calls \ {n} : m \in DOMAIN calls' /\ calls'[m] = calls[m]
             /\ n \in DOMAIN calls' /\ calls'[n].stage \in {"sent", "refused"} =>
                  calls'[n].rows = {}
  BY <1>4 DEF Ended, Without
<1>5. CASE CommitWrite(n)
  <2> DEFINE c == [calls[n] EXCEPT !.stage = "done", !.version = Len(changed) + 1,
                                   !.rows = @ \cup {Len(changed) + 1}]
  <2>1. /\ UNCHANGED <<asked, told>> /\ lock' = 0 /\ calls' = Ended(n, c)
        /\ changed' = Append(changed, {calls[n].evening}) /\ Len(changed) + 1 <= MaxChanges
    BY <1>5 DEF CommitWrite
  <2>2. c.stage = "done"
    BY <1>1 DEF CallRecord
  <2>3. Len(changed') = Len(changed) + 1
    BY <1>1, <2>1 DEF CallRecord
  <2> HIDE DEF c
  <2> QED
    BY <1>1, <1>4, <2>1, <2>2, <2>3, BoundedGoes
<1>6. CASE Rollback(n)
  <2> DEFINE c == [calls[n] EXCEPT !.stage = "refused", !.rows = {}]
  <2>1. UNCHANGED <<changed, asked, told>> /\ lock' = 0 /\ calls' = Ended(n, c)
    BY <1>6 DEF Rollback
  <2>2. c.rows = {}
    BY <1>1 DEF CallRecord
  <2> HIDE DEF c
  <2> QED
    BY <1>1, <1>4, <2>1, <2>2, BoundedGoes
<1> QED
  BY <1>2, <1>3, <1>5, <1>6

LEMMA StepBounded ==
  ASSUME Inv, Bounded, [Next]_vars
  PROVE  Bounded'
<1>1. ASSUME NEW kind, NEW e
      PROVE  Call(kind, e).stage = "sent" /\ Call(kind, e).rows = {}
  BY DEF Call
<1>2. CASE Load
  BY <1>1, <1>2, AskBounded DEF Load
<1>3. ASSUME NEW e \in Evenings, Show(e) \/ WriteShift(e)
      PROVE  Bounded'
  <2>1. CASE Show(e)
    BY <2>1 DEF Show, Bounded, Carried
  <2> QED
    BY <1>1, <1>3, <2>1, AskBounded DEF WriteShift
<1>4. ASSUME NEW es \in SUBSET Evenings, OthersChange(es)
      PROVE  Bounded'
  <2>1. Len(changed') = Len(changed) + 1 /\ Len(changed) \in Nat /\ MaxChanges \in Nat
        /\ Len(changed) < MaxChanges
    BY <1>4, ScreensAssumption DEF OthersChange, Inv, Typed
  <2> QED
    BY <1>4, <2>1 DEF OthersChange, Bounded, Carried
<1>5. CASE UNCHANGED vars
  BY <1>5 DEF vars, Bounded, Carried
<1> QED
  BY <1>2, <1>3, <1>4, <1>5, HearBounded, FailBounded, ServerBounded DEF Next

(***************************************************************************)
(* The screen is well-typed: what is under way, on record or failed is a   *)
(* call that was made and a room that was, and the bar lock is held by a   *)
(* write that is under way, if by any (evening.rs, lock_bar).              *)
(***************************************************************************)
THEOREM ScreenIsTyped == Spec => []TypeOK
<1>1. Init => Bounded
  <2> SUFFICES ASSUME Init PROVE Bounded
    OBVIOUS
  <2>1. Len(changed) = 0 /\ asked = 0 /\ lock = 0 /\ DOMAIN calls = {}
        /\ \A e \in Evenings : told[e].answered = 0 /\ told[e].failed = 0
    BY DEF Init, Untold
  <2> QED
    BY <2>1, ScreensAssumption DEF Bounded
<1>2. Inv /\ Bounded => TypeOK
  <2> SUFFICES ASSUME Inv, Bounded PROVE TypeOK
    OBVIOUS
  <2>1. /\ Len(changed) \in Nat /\ Len(changed) <= MaxChanges /\ MaxChanges \in Nat
        /\ asked \in Nat /\ asked <= MaxAsked /\ MaxAsked \in Nat
    BY ScreensAssumption DEF Inv, Typed, Bounded
  <2>2. \A e, v : v \in Nat /\ v <= Len(changed) =>
          v \in 0 .. MaxChanges /\ RoomAfter(changed, e, v) \in SUBSET (1 .. MaxChanges)
    BY <2>1 DEF RoomAfter
  <2>3. ASSUME NEW n \in DOMAIN calls
        PROVE  calls[n] \in CallType
    <3>1. calls[n] \in CallRecord /\ CallHolds(changed, lock, n, calls[n])
      BY DEF Inv, Typed, CallsHold
    <3>2. calls[n].version \in 0 .. MaxChanges /\ calls[n].since \in 0 .. MaxChanges
      BY <2>1, <3>1 DEF CallRecord, CallHolds
    <3>3. calls[n].rows \in SUBSET (1 .. MaxChanges)
      <4>1. CASE calls[n].stage \in {"sent", "refused"}
        BY <4>1 DEF Bounded
      <4>2. CASE HasRead(calls[n])
        BY <2>2, <3>1, <4>2 DEF CallHolds, CallRecord
      <4>3. CASE calls[n].kind = "write" /\ calls[n].stage = "rows"
        BY <2>1, <2>2, <3>1, <4>3 DEF CallHolds
      <4> QED
        BY <3>1, <4>1, <4>2, <4>3 DEF CallRecord, HasRead
    <3> QED
      BY <3>1, <3>2, <3>3 DEF CallRecord, CallType
  <2>4. ASSUME NEW e \in Evenings
        PROVE  entries[e] \in [number : 0 .. asked, version : 0 .. MaxChanges,
                               rows : SUBSET (1 .. MaxChanges),
                               heard : 0 .. asked, failure : 0 .. asked]
    <3>1. /\ entries[e] \in EntryRecord /\ told[e] \in ToldRecord
          /\ EntryHolds(changed, asked, e, entries[e], told[e])
          /\ told[e].answered <= asked /\ told[e].failed <= asked
      BY DEF Inv, Typed, EntriesHold, Bounded
    <3>2. /\ entries[e].version \in 0 .. MaxChanges
          /\ entries[e].rows \in SUBSET (1 .. MaxChanges)
      BY <2>2, <3>1 DEF EntryHolds, EntryRecord
    <3>3. /\ entries[e].number \in 0 .. asked /\ entries[e].heard \in 0 .. asked
          /\ entries[e].failure \in 0 .. asked
      BY <2>1, <3>1 DEF EntryHolds, EntryRecord, ToldRecord
    <3> QED
      BY <3>1, <3>2, <3>3 DEF EntryRecord
  <2>5. entries = [e \in Evenings |-> entries[e]]
    BY DEF Inv, Typed
  <2>6. lock \in {0} \cup DOMAIN calls
    BY DEF Bounded
  <2>7. entries \in [Evenings -> [number : 0 .. asked, version : 0 .. MaxChanges,
                                  rows : SUBSET (1 .. MaxChanges),
                                  heard : 0 .. asked, failure : 0 .. asked]]
    BY <2>4, <2>5
  <2> QED
    BY <2>1, <2>3, <2>6, <2>7 DEF Inv, Typed, TypeOK
<1> QED
  BY <1>1, <1>2, InvAlways, StepBounded, PTL DEF Spec
=============================================================================
