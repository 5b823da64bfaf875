---------------------------- MODULE EditingProofs ----------------------------
(***************************************************************************)
(* What is proved of the settings under edits, for any fields and values,  *)
(* any form the server stores them in, and any number of calls and saves:  *)
(* whose values a save changes, what becomes of what was typed, whom a     *)
(* notice names, and that what was dropped is made up for.                 *)
(***************************************************************************)
EXTENDS Editing, TLAPS

(***************************************************************************)
(* The inductive invariant.  The settings of version v are what the save   *)
(* before it stored.  What a read brings, torn as it may be, is of its own *)
(* version or of later ones, and so is everything a save sends that its    *)
(* manager has not set.                                                    *)
(***************************************************************************)
SavedType == [mine : BOOLEAN, fields : SUBSET Fields, to : Settings]
EntryType == [number : Nat, version : Nat, rows : {{}}, heard : Nat, failure : Nat]
PairType == [settings : Settings, version : Nat, draft : Settings]

\* The settings of version v.
At(log, v) == IF v = 1 THEN Initial ELSE log[v - 1].to

\* All are in the form of storage; where two differ, a save in between made it
\* what the later one has.
Connected(log) ==
  /\ \A v \in 1 .. Len(log) + 1 :
       At(log, v) \in Settings /\ \A f \in Fields : Stored[At(log, v)[f]] = At(log, v)[f]
  /\ \A f \in Fields : \A u, w \in 1 .. Len(log) + 1 :
       u < w /\ At(log, u)[f] # At(log, w)[f] =>
         \E v \in u .. w - 1 : f \in log[v].fields /\ log[v].to[f] = At(log, w)[f]

HistoryHolds ==
  /\ saved \in Seq(SavedType) /\ version = Len(saved) + 1
  /\ stored = At(saved, version) /\ Connected(saved)

\* These fields are of version v or of later ones.
Since(log, fields, rows, v) ==
  \A f \in fields : \E u \in v .. Len(log) + 1 : rows[f] = At(log, u)[f]

ReadHolds(log, read) ==
  read.stage # "sent" =>
    read.version \in 1 .. Len(log) + 1 /\ Since(log, Fields, read.rows, read.version)

ReadsHold ==
  /\ asked \in Nat
  /\ \A n \in DOMAIN reads :
       n \in 1 .. asked /\ reads[n] \in ReadType /\ ReadHolds(saved, reads[n])

SaveHolds(log, save) ==
  /\ save.version \in 1 .. Len(log) + 1
  /\ save.stage = "sent" => Since(log, Fields \ save.typed, save.rows, save.version)
  /\ save.stage = "saved" => Since(log, Fields, save.rows, save.version)

SavesHold ==
  \A n \in DOMAIN saves :
    n \in 1 .. asked /\ saves[n] \in SaveType /\ SaveHolds(saved, saves[n])

\* What differs from the settings on screen was typed.
PairHolds ==
  /\ pair \in PairType /\ pair.version <= version
  /\ typed \subseteq Fields /\ folded \subseteq Fields
  /\ IF pair.version = 0 THEN pair.settings = Initial
     ELSE Since(saved, Fields, pair.settings, pair.version)
  /\ \A f \in Fields \ typed : pair.draft[f] = pair.settings[f]

\* The draft is what was sent, but for what was typed since or reverted.
SavingHolds(p, save, since, e, want) ==
  /\ p.version # 0
  /\ save.stage = "sent" => save.version = p.version
  /\ save.stage = "saved" /\ ~want => e.version <= save.version
  /\ save.stage = "saved" => p.version < save.version
  /\ \A f \in DOMAIN since : since[f] = p.draft[f]
  /\ \A f \in Fields \ DOMAIN since :
       \/ p.draft[f] = p.settings[f]
       \/ /\ save.stage = "sent" => save.rows[f] = p.draft[f]
          /\ save.stage = "saved" => save.rows[f] = Stored[p.draft[f]]

ScreenHolds ==
  /\ wanted \in BOOLEAN /\ saving \in {0} \cup DOMAIN saves
  /\ DOMAIN during \subseteq Fields
  /\ saving = 0 => during = Nowhere /\ ~wanted
  /\ saving # 0 => SavingHolds(pair, saves[saving], during, entry, wanted)

EntryHolds ==
  /\ entry \in EntryType
  /\ pair.version <= entry.version /\ entry.version <= version
  /\ pair.version # 0 => entry.number # 0
  /\ entry.number <= entry.heard /\ entry.heard <= asked /\ entry.failure <= asked
  /\ entry.failure # 0 => entry.heard < entry.failure

\* Read n is under way or has failed, and nothing asked since then can bring
\* what is older than the record.
MakesUp(n, e, rs) ==
  /\ n \in DOMAIN rs \/ n = e.failure
  /\ e.heard < n
  /\ \A m \in DOMAIN rs : n <= m /\ rs[m].stage # "sent" => e.version <= rs[m].version

MadeUp == pair.version # entry.version /\ ~wanted => \E n \in 1 .. asked : MakesUp(n, entry, reads)

Inv == HistoryHolds /\ ReadsHold /\ SavesHold /\ PairHolds /\ ScreenHolds /\ EntryHolds /\ MadeUp

LEMMA InvIsTyped ==
  ASSUME Inv
  PROVE  TypeOK
<1>1. HistoryHolds /\ ReadsHold /\ SavesHold /\ PairHolds /\ ScreenHolds
  BY DEF Inv
<1>2. version = Len(saved) + 1 /\ version \in Nat
  BY <1>1 DEF HistoryHolds
<1>3. stored \in Settings
  BY <1>1, <1>2 DEF HistoryHolds, Connected
<1>4. pair \in [settings : Settings, version : 0 .. version, draft : Settings]
  BY <1>1, <1>2 DEF PairHolds, PairType
<1> QED
  BY <1>1, <1>2, <1>3, <1>4 DEF TypeOK, ReadsHold, SavesHold, PairHolds, ScreenHolds

-----------------------------------------------------------------------------
\* The past of the settings.

LEMMA PastStands ==
  ASSUME NEW log \in Seq(SavedType), NEW s \in SavedType
  PROVE  /\ Len(log) \in Nat /\ Len(Append(log, s)) = Len(log) + 1
         /\ Append(log, s) \in Seq(SavedType)
         /\ \A v \in 1 .. Len(log) : Append(log, s)[v] = log[v]
         /\ Append(log, s)[Len(log) + 1] = s
         /\ \A v \in 1 .. Len(log) + 1 : At(Append(log, s), v) = At(log, v)
         /\ At(Append(log, s), Len(log) + 2) = s.to
<1> DEFINE new == Append(log, s)
<1>1. /\ Len(log) \in Nat /\ Len(new) = Len(log) + 1
      /\ new \in Seq(SavedType)
      /\ \A v \in 1 .. Len(log) : new[v] = log[v]
      /\ new[Len(log) + 1] = s
  OBVIOUS
<1> HIDE DEF new
<1>2. \A v \in 1 .. Len(log) + 1 : At(new, v) = At(log, v)
  BY <1>1 DEF At
<1>3. At(new, Len(log) + 2) = s.to
  BY <1>1 DEF At
<1> QED
  BY <1>1, <1>2, <1>3 DEF new

LEMMA SinceStands ==
  ASSUME NEW log \in Seq(SavedType), NEW s \in SavedType, NEW fields, NEW rows,
         NEW v \in 1 .. Len(log) + 1, Since(log, fields, rows, v)
  PROVE  Since(Append(log, s), fields, rows, v)
<1> DEFINE new == Append(log, s)
<1>1. /\ Len(log) \in Nat /\ Len(new) = Len(log) + 1
      /\ \A u \in 1 .. Len(log) + 1 : At(new, u) = At(log, u)
  BY PastStands
<1> HIDE DEF new
<1>2. Since(new, fields, rows, v)
  BY <1>1 DEF Since
<1> QED
  BY <1>2 DEF new

LEMMA StaysConnected ==
  ASSUME NEW log \in Seq(SavedType), NEW s \in SavedType, Connected(log),
         s.fields = Changed(At(log, Len(log) + 1), s.to),
         \A f \in Fields : Stored[s.to[f]] = s.to[f]
  PROVE  Connected(Append(log, s))
<1> DEFINE new == Append(log, s)
           last == Len(log) + 1
<1>1. /\ Len(log) \in Nat /\ Len(new) = last
      /\ \A v \in 1 .. Len(log) : new[v] = log[v]
      /\ new[last] = s
      /\ \A v \in 1 .. last : At(new, v) = At(log, v)
      /\ At(new, last + 1) = s.to
  BY PastStands
<1>2. s.to \in Settings
  BY DEF SavedType
<1> HIDE DEF new
<1>3. \A v \in 1 .. last + 1 :
        At(new, v) \in Settings /\ \A f \in Fields : Stored[At(new, v)[f]] = At(new, v)[f]
  BY <1>1, <1>2 DEF Connected
<1>4. ASSUME NEW f \in Fields, NEW u \in 1 .. last + 1, NEW w \in 1 .. last + 1,
             u < w, At(new, u)[f] # At(new, w)[f]
      PROVE  \E v \in u .. w - 1 : f \in new[v].fields /\ new[v].to[f] = At(new, w)[f]
  <2>1. CASE w # last + 1
    <3>1. w \in 1 .. last /\ u \in 1 .. last
      BY <2>1, <1>1, <1>4
    <3>2. PICK v \in u .. w - 1 : f \in log[v].fields /\ log[v].to[f] = At(log, w)[f]
      BY <3>1, <1>1, <1>4 DEF Connected
    <3>3. v \in 1 .. Len(log)
      BY <3>1, <1>1
    <3> QED
      BY <3>1, <3>2, <3>3, <1>1
  <2>2. CASE w = last + 1 /\ At(log, last)[f] # s.to[f]
    <3>1. f \in s.fields
      BY <2>2 DEF Changed
    <3>2. last \in u .. w - 1
      BY <2>2, <1>1, <1>4
    <3> QED
      BY <3>1, <3>2, <2>2, <1>1
  <2>3. CASE w = last + 1 /\ At(log, last)[f] = s.to[f]
    <3>1. u \in 1 .. last /\ u # last /\ At(log, u)[f] # At(log, last)[f]
      BY <2>3, <1>1, <1>4
    <3>2. PICK v \in u .. last - 1 : f \in log[v].fields /\ log[v].to[f] = At(log, last)[f]
      BY <3>1, <1>1 DEF Connected
    <3>3. v \in 1 .. Len(log) /\ v \in u .. w - 1
      BY <3>1, <2>3, <1>1
    <3> QED
      BY <3>2, <3>3, <2>3, <1>1
  <2> QED
    BY <2>1, <2>2, <2>3
<1>5. Connected(new)
  BY <1>1, <1>3, <1>4 DEF Connected
<1> QED
  BY <1>5 DEF new

\* Where a setting of one version differs from a later one, somebody made it so.
LEMMA SomebodyChanged ==
  ASSUME NEW log \in Seq(SavedType), Connected(log), NEW f \in Fields,
         NEW first \in 1 .. Len(log) + 1,
         NEW u \in first .. Len(log) + 1, NEW w \in first .. Len(log) + 1,
         At(log, u)[f] # At(log, w)[f]
  PROVE  \E v \in first .. Len(log) :
           f \in log[v].fields /\ log[v].to[f] \in {At(log, u)[f], At(log, w)[f]}
<1>1. Len(log) \in Nat
  OBVIOUS
<1>2. CASE u < w
  <2>1. PICK v \in u .. w - 1 : f \in log[v].fields /\ log[v].to[f] = At(log, w)[f]
    BY <1>1, <1>2 DEF Connected
  <2> QED
    BY <2>1, <1>1
<1>3. CASE w < u
  <2>1. PICK v \in w .. u - 1 : f \in log[v].fields /\ log[v].to[f] = At(log, u)[f]
    BY <1>1, <1>3 DEF Connected
  <2> QED
    BY <2>1, <1>1
<1> QED
  BY <1>1, <1>2, <1>3

-----------------------------------------------------------------------------
\* The entry of the ledger.

\* An answer goes on record by its version, or by its number in that version.
Prevails(e, n, v) == e.number = 0 \/ e.version < v \/ (e.version = v /\ e.number < n)

LEMMA ReplacesIf ==
  ASSUME NEW e \in EntryType, NEW n \in Nat, NEW a, a.version \in Nat
  PROVE  Replaces(e, n, a, TRUE) <=> Prevails(e, n, a.version)
BY DEF Replaces, Prevails, EntryType

\* The entry after answer number n, of version v.
AfterAnswer(e, n, v, new) ==
  /\ new \in EntryType
  /\ new.heard = Larger(e.heard, n)
  /\ new.failure = IF e.failure <= n THEN 0 ELSE e.failure
  /\ IF Prevails(e, n, v) THEN new.number = n /\ new.version = v
     ELSE new.number = e.number /\ new.version = e.version

LEMMA AnsweredIs ==
  ASSUME NEW e, NEW n, NEW a, e \in EntryType, n \in Nat, a.version \in Nat, a.rows = {}
  PROVE  AfterAnswer(e, n, a.version, Answered(e, n, a, TRUE))
BY ReplacesIf DEF AfterAnswer, Answered, Applied, HeardAt, EntryType, Larger

\* The entry after the failure of call n.
AfterFailure(e, n, new) ==
  /\ new \in EntryType
  /\ new.number = e.number /\ new.version = e.version /\ new.heard = e.heard
  /\ new.failure = IF e.heard < n /\ e.failure <= n THEN n ELSE e.failure

LEMMA FailedIs ==
  ASSUME NEW e, NEW n, e \in EntryType, n \in Nat
  PROVE  AfterFailure(e, n, Failed(e, n))
BY DEF AfterFailure, Failed, EntryType

-----------------------------------------------------------------------------
(***************************************************************************)
(* Every action keeps the invariant: first those that the past stands in.  *)
(***************************************************************************)

Past == <<stored, version, saved>>

LEMMA PastKeeps ==
  ASSUME Inv, UNCHANGED Past
  PROVE  HistoryHolds'
BY DEF Inv, Past, HistoryHolds

\* One more read may be asked for at any time.
LEMMA AskingKeepsReads ==
  ASSUME Inv, asked' = asked + 1, reads' = Asked(reads, asked + 1), UNCHANGED Past
  PROVE  /\ ReadsHold'
         /\ \A n \in 1 .. asked : MakesUp(n, entry, reads) => MakesUp(n, entry, reads')
<1>1. asked \in Nat /\ Initial \in Settings
  BY EditingAssumption DEF Inv, ReadsHold, Settings
<1>2. Read \in ReadType /\ Read.stage = "sent"
  BY <1>1 DEF Read, ReadType
<1>3. /\ DOMAIN reads' = DOMAIN reads \cup {asked + 1}
      /\ reads'[asked + 1] = Read
      /\ \A m \in DOMAIN reads : m \in 1 .. asked /\ reads'[m] = reads[m]
  <2>1. \A m \in DOMAIN reads : m \in 1 .. asked /\ m # asked + 1
    BY <1>1 DEF Inv, ReadsHold
  <2> QED
    BY <2>1 DEF Asked
<1>4. ReadsHold'
  BY <1>1, <1>2, <1>3 DEF Inv, ReadsHold, ReadHolds, Past
<1>5. ASSUME NEW n \in 1 .. asked, MakesUp(n, entry, reads)
      PROVE  MakesUp(n, entry, reads')
  BY <1>1, <1>2, <1>3, <1>5 DEF MakesUp
<1> QED
  BY <1>4, <1>5

LEMMA LoadKeeps ==
  ASSUME Inv, Load
  PROVE  Inv'
<1>1. UNCHANGED Past /\ UNCHANGED <<pair, saves, saving, during, entry, folded, typed>>
  BY DEF Load, Past
<1>2. asked \in Nat
  BY DEF Inv, ReadsHold
<1>3. HistoryHolds' /\ SavesHold'
  <2>1. asked' = asked \/ asked' = asked + 1
    BY DEF Load
  <2> QED
    BY <2>1, <1>1, <1>2, PastKeeps DEF Inv, SavesHold, Past
<1>4. PairHolds'
  BY <1>1 DEF Inv, PairHolds, Past
<1>5. CASE saving # 0
  <2>1. wanted' = TRUE /\ UNCHANGED <<reads, asked>>
    BY <1>5 DEF Load
  <2>2. ReadsHold'
    BY <2>1, <1>1 DEF Inv, ReadsHold, Past
  <2>3. ScreenHolds'
    BY <2>1, <1>1, <1>5 DEF Inv, ScreenHolds, SavingHolds
  <2>4. EntryHolds' /\ MadeUp'
    BY <2>1, <1>1 DEF Inv, EntryHolds, MadeUp, Past
  <2> QED
    BY <1>3, <1>4, <2>2, <2>3, <2>4 DEF Inv
<1>6. CASE saving = 0
  <2>1. reads' = Asked(reads, asked + 1) /\ asked' = asked + 1 /\ wanted' = wanted
    BY <1>6 DEF Load
  <2>2. /\ ReadsHold'
        /\ \A n \in 1 .. asked : MakesUp(n, entry, reads) => MakesUp(n, entry, reads')
    BY <2>1, <1>1, AskingKeepsReads
  <2>3. ScreenHolds'
    BY <2>1, <1>1 DEF Inv, ScreenHolds
  <2>4. EntryHolds'
    BY <2>1, <1>1, <1>2 DEF Inv, EntryHolds, EntryType, Past
  <2>5. MadeUp'
    BY <2>1, <2>2, <1>1, <1>2 DEF Inv, MadeUp
  <2> QED
    BY <1>3, <1>4, <2>2, <2>3, <2>4, <2>5 DEF Inv
<1> QED
  BY <1>5, <1>6

LEMMA EditKeeps ==
  ASSUME Inv, NEW f \in Fields, NEW x \in Values, Edit(f, x)
  PROVE  Inv'
<1>1. /\ UNCHANGED Past /\ UNCHANGED <<reads, saves, saving, wanted, asked, entry>>
      /\ pair' = [pair EXCEPT !.draft[f] = x]
      /\ typed' = typed \cup {f} /\ folded' = {}
      /\ pair.version # 0
  BY DEF Edit, Past
<1>2. /\ pair' \in PairType
      /\ pair'.settings = pair.settings /\ pair'.version = pair.version
      /\ pair'.draft[f] = x
      /\ \A g \in Fields \ {f} : pair'.draft[g] = pair.draft[g]
  BY <1>1 DEF Inv, PairHolds, PairType, Settings
<1>3. HistoryHolds' /\ ReadsHold' /\ SavesHold'
  BY <1>1, PastKeeps DEF Inv, ReadsHold, SavesHold, Past
<1>4. PairHolds'
  BY <1>1, <1>2 DEF Inv, PairHolds, Past
<1>5. EntryHolds' /\ MadeUp'
  BY <1>1, <1>2 DEF Inv, EntryHolds, MadeUp, Past
<1>6. ScreenHolds'
  <2>1. CASE saving = 0
    BY <2>1, <1>1 DEF Inv, ScreenHolds, Edit
  <2>2. CASE saving # 0
    <3>1. during' = [g \in DOMAIN during \cup {f} |-> IF g = f THEN x ELSE during[g]]
      BY <2>2 DEF Edit
    <3>2. SavingHolds(pair', saves'[saving'], during', entry', wanted')
      BY <3>1, <2>2, <1>1, <1>2 DEF Inv, ScreenHolds, SavingHolds
    <3> QED
      BY <3>1, <3>2, <2>2, <1>1 DEF Inv, ScreenHolds
  <2> QED
    BY <2>1, <2>2
<1> QED
  BY <1>3, <1>4, <1>5, <1>6 DEF Inv

LEMMA RevertKeeps ==
  ASSUME Inv, Revert
  PROVE  Inv'
<1>1. /\ UNCHANGED Past /\ UNCHANGED <<reads, saves, saving, wanted, asked, entry>>
      /\ pair' = [pair EXCEPT !.draft = pair.settings]
      /\ typed' = {} /\ folded' = {} /\ during' = Nowhere
      /\ pair.version # 0
  BY DEF Revert, Past
<1>2. /\ pair' \in PairType
      /\ pair'.settings = pair.settings /\ pair'.version = pair.version
      /\ pair'.draft = pair.settings
  BY <1>1 DEF Inv, PairHolds, PairType
<1>3. HistoryHolds' /\ ReadsHold' /\ SavesHold'
  BY <1>1, PastKeeps DEF Inv, ReadsHold, SavesHold, Past
<1>4. PairHolds'
  BY <1>1, <1>2 DEF Inv, PairHolds, Past
<1>5. EntryHolds' /\ MadeUp'
  BY <1>1, <1>2 DEF Inv, EntryHolds, MadeUp, Past
<1>6. ScreenHolds'
  BY <1>1, <1>2 DEF Inv, ScreenHolds, SavingHolds, Nowhere
<1> QED
  BY <1>3, <1>4, <1>5, <1>6 DEF Inv

LEMMA SaveSettingsKeeps ==
  ASSUME Inv, SaveSettings
  PROVE  Inv'
<1> DEFINE n == asked + 1
           sent == [stage |-> "sent", version |-> pair.version, rows |-> pair.draft,
                    typed |-> typed]
<1>1. /\ UNCHANGED Past /\ UNCHANGED <<pair, reads, wanted, entry, typed>>
      /\ asked' = n /\ saving' = n
      /\ saves' = [m \in DOMAIN saves \cup {n} |-> IF m = n THEN sent ELSE saves[m]]
      /\ during' = Nowhere /\ folded' = {}
      /\ saving = 0 /\ pair.version # 0
  BY DEF SaveSettings, Past
<1>2. asked \in Nat /\ version \in Nat /\ version = Len(saved) + 1
  BY DEF Inv, ReadsHold, HistoryHolds
<1>3. /\ sent \in SaveType
      /\ sent.version \in 1 .. Len(saved) + 1
      /\ sent.stage = "sent" /\ sent.version = pair.version /\ sent.rows = pair.draft
      /\ Since(saved, Fields \ typed, sent.rows, sent.version)
      /\ sent.typed = typed
  BY <1>1, <1>2 DEF Inv, PairHolds, PairType, SaveType, Since
<1>4. /\ DOMAIN saves' = DOMAIN saves \cup {n}
      /\ saves'[n] = sent
      /\ \A m \in DOMAIN saves : m \in 1 .. asked /\ saves'[m] = saves[m]
  BY <1>1, <1>2 DEF Inv, SavesHold
<1> HIDE DEF sent
<1>5. HistoryHolds' /\ ReadsHold'
  BY <1>1, <1>2, PastKeeps DEF Inv, ReadsHold, Past
<1>6. SavesHold'
  <2>1. SaveHolds(saved, sent)
    BY <1>3 DEF SaveHolds
  <2>2. \A m \in DOMAIN saves : saves[m] \in SaveType /\ SaveHolds(saved, saves[m])
    BY DEF Inv, SavesHold
  <2>3. saved' = saved
    BY <1>1 DEF Past
  <2> QED
    BY <2>1, <2>2, <2>3, <1>1, <1>2, <1>3, <1>4 DEF SavesHold
<1>7. PairHolds'
  BY <1>1 DEF Inv, PairHolds, Past
<1>8. EntryHolds' /\ MadeUp'
  <2>1. EntryHolds'
    BY <1>1, <1>2 DEF Inv, EntryHolds, EntryType, Past
  <2> QED
    BY <2>1, <1>1, <1>2 DEF Inv, MadeUp
<1>9. ScreenHolds'
  <2>1. \A f \in Fields : sent.rows[f] = pair.draft[f]
    BY <1>3
  <2>2. SavingHolds(pair', saves'[saving'], during', entry', wanted')
    BY <2>1, <1>1, <1>3, <1>4 DEF SavingHolds, Nowhere
  <2>3. n # 0
    BY <1>2
  <2> QED
    BY <2>2, <2>3, <1>1, <1>4 DEF Inv, ScreenHolds, Nowhere
<1> QED
  BY <1>5, <1>6, <1>7, <1>8, <1>9 DEF Inv

\* What was wanted during a save is asked for with a number of its own.
LEMMA EndingAsks ==
  ASSUME Inv, NEW want \in BOOLEAN, EndSave(want), UNCHANGED Past
  PROVE  /\ saving' = 0 /\ during' = Nowhere /\ wanted' = FALSE
         /\ ReadsHold'
         /\ asked \in Nat /\ asked' \in {asked, asked + 1}
         /\ \A n \in 1 .. asked : MakesUp(n, entry, reads) => MakesUp(n, entry, reads')
         /\ wanted \/ want =>
              /\ asked' = asked + 1
              /\ \A e \in EntryType : e.heard <= asked => MakesUp(asked', e, reads')
         /\ ~(wanted \/ want) => reads' = reads
<1>1. saving' = 0 /\ during' = Nowhere /\ wanted' = FALSE
  BY DEF EndSave
<1>2. asked \in Nat
  BY DEF Inv, ReadsHold
<1>3. CASE wanted \/ want
  <2>1. asked' = asked + 1 /\ reads' = Asked(reads, asked + 1)
    BY <1>3 DEF EndSave
  <2>2. /\ ReadsHold'
        /\ \A n \in 1 .. asked : MakesUp(n, entry, reads) => MakesUp(n, entry, reads')
    BY <2>1, AskingKeepsReads
  <2>3. DOMAIN reads' = DOMAIN reads \cup {asked + 1} /\ reads'[asked + 1].stage = "sent"
    BY <2>1 DEF Asked, Read
  <2>4. \A m \in DOMAIN reads' : asked' <= m => m = asked'
    BY <2>1, <2>2, <1>2 DEF ReadsHold
  <2>5. \A e \in EntryType : e.heard <= asked => MakesUp(asked', e, reads')
    BY <2>1, <2>3, <2>4, <1>2 DEF MakesUp, EntryType
  <2> QED
    BY <2>1, <2>2, <2>5, <1>1, <1>2, <1>3
<1>4. CASE ~(wanted \/ want)
  <2>1. UNCHANGED <<reads, asked>>
    BY <1>4 DEF EndSave
  <2>2. ReadsHold'
    BY <2>1 DEF Inv, ReadsHold, Past
  <2> QED
    BY <2>1, <2>2, <1>1, <1>2, <1>4
<1> QED
  BY <1>3, <1>4

\* A save that ends without its answer.
LEMMA GivingUpKeeps ==
  ASSUME Inv, NEW want \in BOOLEAN, EndSave(want), saves' \in {saves, Without(saves, saving)},
         UNCHANGED Past, UNCHANGED <<pair, entry, folded, typed>>
  PROVE  Inv'
<1>1. /\ saving' = 0 /\ during' = Nowhere /\ wanted' = FALSE
      /\ ReadsHold'
      /\ asked \in Nat /\ asked' \in {asked, asked + 1}
      /\ \A n \in 1 .. asked : MakesUp(n, entry, reads) => MakesUp(n, entry, reads')
      /\ wanted =>
           /\ asked' = asked + 1
           /\ \A e \in EntryType : e.heard <= asked => MakesUp(asked', e, reads')
  BY EndingAsks
<1>2. HistoryHolds' /\ PairHolds'
  BY PastKeeps DEF Inv, PairHolds, Past
<1>3. SavesHold'
  <2>1. DOMAIN saves' \subseteq DOMAIN saves /\ \A n \in DOMAIN saves' : saves'[n] = saves[n]
    BY DEF Without
  <2> QED
    BY <2>1, <1>1 DEF Inv, SavesHold, Past
<1>4. ScreenHolds'
  BY <1>1 DEF ScreenHolds, Nowhere
<1>5. EntryHolds'
  BY <1>1 DEF Inv, EntryHolds, EntryType, Past
<1>6. MadeUp'
  <2>1. CASE wanted
    <3>1. MakesUp(asked', entry, reads')
      BY <2>1, <1>1 DEF Inv, EntryHolds
    <3> QED
      BY <3>1, <2>1, <1>1 DEF MadeUp
  <2>2. CASE ~wanted
    BY <2>2, <1>1 DEF Inv, MadeUp
  <2> QED
    BY <2>1, <2>2
<1> QED
  BY <1>1, <1>2, <1>3, <1>4, <1>5, <1>6 DEF Inv

LEMMA HearRefusalKeeps ==
  ASSUME Inv, HearRefusal
  PROVE  Inv'
<1>1. (saves[saving].stage = "changed") \in BOOLEAN
  OBVIOUS
<1> QED
  BY <1>1, GivingUpKeeps DEF HearRefusal, Past

LEMMA LoseSaveKeeps ==
  ASSUME Inv, LoseSave
  PROVE  Inv'
BY GivingUpKeeps DEF LoseSave, Past

LEMMA HearSavedKeeps ==
  ASSUME Inv, HearSaved
  PROVE  Inv'
<1> DEFINE save == saves[saving]
           next == [rows |-> save.rows, version |-> save.version]
           answer == [next EXCEPT !.rows = {}]
<1>1. /\ UNCHANGED Past /\ folded' = folded
      /\ saving # 0 /\ save.stage = "saved"
      /\ pair' = SavedInto(next, during)
      /\ entry' = Answered(entry, saving, answer, TRUE)
      /\ saves' = Without(saves, saving)
      /\ typed' = DOMAIN during
      /\ EndSave(FALSE)
  BY DEF HearSaved, Past
<1>2. /\ saving \in DOMAIN saves /\ saving \in 1 .. asked
      /\ save \in SaveType /\ SaveHolds(saved, save)
      /\ DOMAIN during \subseteq Fields
      /\ SavingHolds(pair, save, during, entry, wanted)
  BY <1>1 DEF Inv, ScreenHolds, SavesHold
<1>3. /\ version = Len(saved) + 1 /\ version \in Nat /\ Len(saved) \in Nat
      /\ pair \in PairType /\ entry \in EntryType /\ wanted \in BOOLEAN
  BY DEF Inv, HistoryHolds, PairHolds, EntryHolds, ScreenHolds
<1>4. /\ save.rows \in Settings /\ save.version \in 1 .. version
      /\ Since(saved, Fields, save.rows, save.version)
  BY <1>1, <1>2, <1>3 DEF SaveType, SaveHolds
<1>5. /\ saving' = 0 /\ during' = Nowhere /\ wanted' = FALSE
      /\ ReadsHold'
      /\ asked \in Nat /\ asked' \in {asked, asked + 1}
      /\ wanted =>
           /\ asked' = asked + 1
           /\ \A e \in EntryType : e.heard <= asked => MakesUp(asked', e, reads')
  BY <1>1, EndingAsks
<1>6. /\ pair'.settings = save.rows /\ pair'.version = save.version
      /\ pair'.draft = Over(during, save.rows)
      /\ pair' = [settings |-> save.rows, version |-> save.version,
                  draft |-> Over(during, save.rows)]
  BY <1>1 DEF SavedInto
<1>7. /\ Over(during, save.rows) \in Settings
      /\ \A f \in Fields \ DOMAIN during : Over(during, save.rows)[f] = save.rows[f]
  <2>1. pair.draft \in Settings /\ \A f \in DOMAIN during : during[f] = pair.draft[f]
    BY <1>2, <1>3 DEF SavingHolds, PairType
  <2> QED
    BY <2>1, <1>2, <1>4 DEF Over, Settings
<1>8. /\ answer.version = save.version /\ answer.rows = {} /\ save.version \in Nat
      /\ saving \in Nat
  BY <1>2, <1>3, <1>4, <1>5
<1> HIDE DEF save, next, answer
<1>9. AfterAnswer(entry, saving, save.version, entry')
  <2>1. answer.version \in Nat /\ answer.rows = {} /\ saving \in Nat /\ entry \in EntryType
    BY <1>3, <1>8
  <2>2. AfterAnswer(entry, saving, answer.version, Answered(entry, saving, answer, TRUE))
    BY <2>1, AnsweredIs
  <2> QED
    BY <2>2, <1>1, <1>8
<1>10. HistoryHolds'
  BY <1>1, PastKeeps
<1>11. SavesHold'
  <2>1. DOMAIN saves' \subseteq DOMAIN saves /\ \A n \in DOMAIN saves' : saves'[n] = saves[n]
    BY <1>1 DEF Without
  <2> QED
    BY <2>1, <1>1, <1>5 DEF Inv, SavesHold, Past
<1>12. PairHolds'
  <2>1. pair' \in PairType
    BY <1>4, <1>6, <1>7, <1>8 DEF PairType
  <2>2. saved' = saved /\ version' = version
    BY <1>1 DEF Past
  <2> QED
    BY <2>1, <2>2, <1>1, <1>2, <1>3, <1>4, <1>6, <1>7 DEF Inv, PairHolds
<1>13. ScreenHolds'
  BY <1>5 DEF ScreenHolds, Nowhere
<1>14. EntryHolds'
  <2>1. version' = version /\ pair'.version = save.version
    BY <1>1, <1>6 DEF Past
  <2> QED
    BY <2>1, <1>2, <1>3, <1>4, <1>5, <1>9 DEF Inv, EntryHolds, EntryType, Larger,
       Prevails, AfterAnswer
<1>15. MadeUp'
  <2>1. CASE wanted
    <3>1. entry'.heard <= asked
      BY <1>2, <1>3, <1>5, <1>9 DEF Inv, EntryHolds, EntryType, Larger, AfterAnswer
    <3> QED
      BY <3>1, <2>1, <1>5, <1>9 DEF MadeUp, AfterAnswer
  <2>2. CASE ~wanted
    <3>1. entry.version <= save.version
      BY <2>2, <1>1, <1>2 DEF SavingHolds
    <3>2. entry'.version = save.version
      BY <3>1, <1>3, <1>4, <1>9 DEF EntryType, Prevails, AfterAnswer
    <3> QED
      BY <3>2, <1>6 DEF MadeUp
  <2> QED
    BY <2>1, <2>2
<1> QED
  BY <1>5, <1>10, <1>11, <1>12, <1>13, <1>14, <1>15 DEF Inv

\* A read fails, and nothing else.
LEMMA FailReadKeeps ==
  ASSUME Inv, NEW n \in DOMAIN reads, FailRead(n)
  PROVE  Inv'
<1>1. /\ UNCHANGED Past
      /\ UNCHANGED <<pair, saves, saving, during, wanted, asked, folded, typed>>
      /\ reads' = Without(reads, n) /\ entry' = Failed(entry, n)
  BY DEF FailRead, Past
<1>2. /\ \A m \in DOMAIN reads : m \in 1 .. asked
      /\ n \in 1 .. asked /\ asked \in Nat /\ entry \in EntryType
  BY DEF Inv, ReadsHold, EntryHolds
<1>3. AfterFailure(entry, n, entry')
  BY <1>1, <1>2, FailedIs
<1>4. DOMAIN reads' = DOMAIN reads \ {n} /\ \A m \in DOMAIN reads' : reads'[m] = reads[m]
  BY <1>1 DEF Without
<1>5. HistoryHolds' /\ SavesHold' /\ PairHolds'
  BY <1>1, PastKeeps DEF Inv, SavesHold, PairHolds, Past
<1>6. ReadsHold'
  BY <1>1, <1>4 DEF Inv, ReadsHold, Past
<1>7. ScreenHolds'
  BY <1>1, <1>3 DEF Inv, ScreenHolds, SavingHolds, AfterFailure
<1>8. EntryHolds'
  BY <1>1, <1>2, <1>3 DEF Inv, EntryHolds, EntryType, AfterFailure, Past
<1>9. MadeUp'
  <2>1. SUFFICES ASSUME pair.version # entry.version, ~wanted
                 PROVE  \E m \in 1 .. asked : MakesUp(m, entry', reads')
    BY <1>1, <1>3 DEF MadeUp, AfterFailure
  <2>2. PICK k \in 1 .. asked : MakesUp(k, entry, reads)
    BY <2>1 DEF Inv, MadeUp
  <2>3. CASE k \in DOMAIN reads'
    BY <2>2, <2>3, <1>2, <1>3, <1>4 DEF MakesUp, AfterFailure
  <2>4. CASE k \notin DOMAIN reads' /\ entry'.failure = entry.failure
    <3>1. entry'.failure \in 1 .. asked /\ k <= entry'.failure /\ entry.heard < entry'.failure
      BY <2>2, <2>4, <1>2, <1>3, <1>4 DEF MakesUp, AfterFailure, EntryType, Inv, EntryHolds
    <3>2. MakesUp(entry'.failure, entry', reads')
      BY <3>1, <2>2, <1>2, <1>3, <1>4 DEF MakesUp, AfterFailure
    <3> QED
      BY <3>1, <3>2
  <2>5. CASE k \notin DOMAIN reads' /\ entry'.failure # entry.failure
    <3>1. entry'.failure = n /\ k <= n /\ entry.heard < n
      BY <2>2, <2>5, <1>2, <1>3, <1>4 DEF MakesUp, AfterFailure, EntryType
    <3>2. MakesUp(n, entry', reads')
      BY <3>1, <2>2, <1>2, <1>3, <1>4 DEF MakesUp, AfterFailure
    <3> QED
      BY <3>2, <1>2
  <2> QED
    BY <2>3, <2>4, <2>5
<1> QED
  BY <1>5, <1>6, <1>7, <1>8, <1>9 DEF Inv

\* A read on its way is two looks at what is stored.
LEMMA ReadRowKeeps ==
  ASSUME Inv, NEW n \in DOMAIN reads, ReadRow(n)
  PROVE  Inv'
<1> DEFINE row == [stage |-> "row", rows |-> stored, version |-> version]
<1>1. /\ UNCHANGED Past
      /\ UNCHANGED <<pair, saves, saving, during, wanted, asked, entry, folded, typed>>
      /\ reads' = [reads EXCEPT ![n] = row]
  BY DEF ReadRow, Past
<1>2. /\ version = Len(saved) + 1 /\ version \in Nat
      /\ stored = At(saved, version) /\ stored \in Settings
  BY DEF Inv, HistoryHolds, Connected
<1>3. row \in ReadType /\ row.version = version /\ ReadHolds(saved, row)
  BY <1>2 DEF ReadType, ReadHolds, Since
<1> HIDE DEF row
<1>4. /\ DOMAIN reads' = DOMAIN reads
      /\ \A m \in DOMAIN reads : reads'[m] = IF m = n THEN row ELSE reads[m]
  BY <1>1
<1>5. HistoryHolds' /\ SavesHold' /\ PairHolds' /\ ScreenHolds' /\ EntryHolds'
  BY <1>1, PastKeeps DEF Inv, SavesHold, PairHolds, ScreenHolds, EntryHolds, Past
<1>6. ReadsHold'
  BY <1>1, <1>3, <1>4 DEF Inv, ReadsHold, Past
<1>7. \A k \in 1 .. asked : MakesUp(k, entry, reads) => MakesUp(k, entry', reads')
  BY <1>1, <1>3, <1>4 DEF Inv, MakesUp, EntryHolds
<1>8. MadeUp'
  BY <1>1, <1>7 DEF Inv, MadeUp
<1> QED
  BY <1>5, <1>6, <1>8 DEF Inv

LEMMA ReadRestKeeps ==
  ASSUME Inv, NEW n \in DOMAIN reads, ReadRest(n)
  PROVE  Inv'
<1> DEFINE rows == [f \in Fields |-> IF f \in RowFields THEN reads[n].rows[f] ELSE stored[f]]
           done == [stage |-> "done", rows |-> rows, version |-> reads[n].version]
<1>1. /\ UNCHANGED Past
      /\ UNCHANGED <<pair, saves, saving, during, wanted, asked, entry, folded, typed>>
      /\ reads' = [reads EXCEPT ![n] = done]
      /\ reads[n].stage = "row"
  BY DEF ReadRest, VersionOfRead, Past
<1>2. /\ version = Len(saved) + 1 /\ version \in Nat
      /\ stored = At(saved, version) /\ stored \in Settings
  BY DEF Inv, HistoryHolds, Connected
<1>3. /\ reads[n] \in ReadType /\ reads[n].version \in 1 .. Len(saved) + 1
      /\ Since(saved, Fields, reads[n].rows, reads[n].version)
  BY <1>1 DEF Inv, ReadsHold, ReadHolds
<1>4. rows \in Settings
  BY <1>2, <1>3 DEF ReadType, Settings
<1>5. Since(saved, Fields, rows, reads[n].version)
  BY <1>2, <1>3 DEF Since
<1> HIDE DEF rows
<1>6. done \in ReadType /\ done.version = reads[n].version /\ ReadHolds(saved, done)
  BY <1>3, <1>4, <1>5 DEF ReadType, ReadHolds
<1> HIDE DEF done
<1>7. /\ DOMAIN reads' = DOMAIN reads
      /\ \A m \in DOMAIN reads : reads'[m] = IF m = n THEN done ELSE reads[m]
  BY <1>1
<1>8. HistoryHolds' /\ SavesHold' /\ PairHolds' /\ ScreenHolds' /\ EntryHolds'
  BY <1>1, PastKeeps DEF Inv, SavesHold, PairHolds, ScreenHolds, EntryHolds, Past
<1>9. ReadsHold'
  BY <1>1, <1>6, <1>7 DEF Inv, ReadsHold, Past
<1>10. \A k \in 1 .. asked : MakesUp(k, entry, reads) => MakesUp(k, entry', reads')
  BY <1>1, <1>6, <1>7 DEF MakesUp
<1>11. MadeUp'
  BY <1>1, <1>10 DEF Inv, MadeUp
<1> QED
  BY <1>8, <1>9, <1>11 DEF Inv

\* What was typed outlives what arrives, but where the two agree.
LEMMA ReceivedIs ==
  ASSUME NEW p \in PairType, NEW next, next.rows \in Settings, next.version \in Nat,
         \A f \in Fields : Stored[p.settings[f]] = p.settings[f],
         NEW new, new = Received(p, next)
  PROVE  /\ new \in PairType /\ new.version = next.version
         /\ new.settings = next.rows \/ (next.version = p.version /\ new.settings = p.settings)
         /\ \A f \in Fields :
              Stored[p.draft[f]] = p.settings[f] =>
                new.draft[f] = new.settings[f] \/ (new = p /\ next.version = p.version)
         /\ \A f \in Fields :
              p.version # 0 /\ Stored[p.draft[f]] # p.settings[f] =>
                new.draft[f] \in {p.draft[f], Stored[p.draft[f]]}
<1>1. CASE p.version # 0 /\ next.version = p.version
  BY <1>1 DEF Received, PairType
<1>2. CASE p.version = 0 \/ (next.version # p.version /\ ~IsDirty(p))
  <2>1. new = [settings |-> next.rows, version |-> next.version, draft |-> next.rows]
    BY <1>2 DEF Received, Fresh
  <2>2. p.version # 0 => \A f \in Fields : Stored[p.draft[f]] = p.settings[f]
    BY <1>2 DEF IsDirty
  <2> QED
    BY <2>1, <2>2 DEF PairType
<1>3. CASE p.version # 0 /\ next.version # p.version /\ IsDirty(p)
  <2> DEFINE draft == [f \in Fields |-> IF f \in Mine(p, next) THEN p.draft[f] ELSE next.rows[f]]
  <2>1. new = [settings |-> next.rows, version |-> next.version, draft |-> draft]
    BY <1>3 DEF Received, Merged
  <2>2. draft \in Settings
    BY DEF PairType, Settings
  <2>3. \A f \in Fields : f \in Mine(p, next) <=>
          Stored[p.draft[f]] # p.settings[f] /\ Stored[p.draft[f]] # next.rows[f]
    BY DEF Mine, AsStored
  <2> QED
    BY <2>1, <2>2, <2>3, <1>3 DEF PairType
<1> QED
  BY <1>1, <1>2, <1>3

LEMMA SettingsAreStored ==
  ASSUME Inv
  PROVE  /\ pair.settings \in Settings
         /\ \A f \in Fields : Stored[pair.settings[f]] = pair.settings[f]
<1>1. pair.settings \in Settings /\ Len(saved) \in Nat /\ pair.version \in Nat
  BY DEF Inv, PairHolds, PairType, HistoryHolds
<1>2. CASE pair.version = 0
  BY <1>1, <1>2, EditingAssumption DEF Inv, PairHolds
<1>3. CASE pair.version # 0
  BY <1>1, <1>3 DEF Inv, PairHolds, Since, HistoryHolds, Connected
<1> QED
  BY <1>1, <1>2, <1>3

\* What a read brings, and what it does to the entry.
LEMMA ReadBrings ==
  ASSUME Inv, NEW n \in DOMAIN reads, HearRead(n)
  PROVE  LET next == [rows |-> reads[n].rows, version |-> reads[n].version]
         IN /\ n \in 1 .. asked /\ asked \in Nat /\ entry \in EntryType
            /\ next.rows \in Settings /\ next.rows = reads[n].rows
            /\ next.version = reads[n].version /\ reads[n].version \in 1 .. version
            /\ version = Len(saved) + 1 /\ version \in Nat
            /\ Since(saved, Fields, reads[n].rows, reads[n].version)
            /\ AfterAnswer(entry, n, reads[n].version, entry')
            /\ Replaces(entry, n, next, TRUE) <=> Prevails(entry, n, reads[n].version)
<1> DEFINE next == [rows |-> reads[n].rows, version |-> reads[n].version]
           answer == [next EXCEPT !.rows = {}]
<1>1. /\ n \in 1 .. asked /\ asked \in Nat /\ entry \in EntryType
      /\ reads[n] \in ReadType /\ ReadHolds(saved, reads[n])
      /\ version = Len(saved) + 1 /\ version \in Nat
  BY DEF Inv, ReadsHold, EntryHolds, HistoryHolds
<1>2. reads[n].stage = "done" /\ entry' = Answered(entry, n, answer, TRUE)
  BY DEF HearRead
<1>3. /\ next.rows = reads[n].rows /\ next.version = reads[n].version
      /\ answer.rows = {} /\ answer.version = reads[n].version
      /\ next.rows \in Settings /\ next.version \in Nat /\ answer.version \in Nat
  BY <1>1 DEF ReadType
<1>4. reads[n].version \in 1 .. version /\ Since(saved, Fields, reads[n].rows, reads[n].version)
  BY <1>1, <1>2 DEF ReadHolds
<1> HIDE DEF next, answer
<1>5. n \in Nat
  BY <1>1
<1>6. AfterAnswer(entry, n, answer.version, Answered(entry, n, answer, TRUE))
  BY <1>1, <1>3, <1>5, AnsweredIs
<1>7. Replaces(entry, n, next, TRUE) <=> Prevails(entry, n, next.version)
  BY <1>1, <1>3, <1>5, ReplacesIf
<1> QED
  BY <1>1, <1>2, <1>3, <1>4, <1>6, <1>7 DEF next

LEMMA HearReadKeeps ==
  ASSUME Inv, NEW n \in DOMAIN reads, HearRead(n)
  PROVE  Inv'
<1> DEFINE next == [rows |-> reads[n].rows, version |-> reads[n].version]
           prevails == Prevails(entry, n, reads[n].version)
<1>1. /\ n \in 1 .. asked /\ asked \in Nat /\ entry \in EntryType
      /\ next.rows \in Settings /\ next.rows = reads[n].rows
      /\ next.version = reads[n].version /\ reads[n].version \in 1 .. version
      /\ version = Len(saved) + 1 /\ version \in Nat
      /\ Since(saved, Fields, reads[n].rows, reads[n].version)
      /\ AfterAnswer(entry, n, reads[n].version, entry')
      /\ Replaces(entry, n, next, TRUE) <=> prevails
  BY ReadBrings
<1>2. /\ UNCHANGED Past /\ UNCHANGED <<saves, saving, during, asked>>
      /\ reads' = Without(reads, n)
      /\ IF prevails /\ saving = 0
         THEN /\ pair' = Received(pair, next)
              /\ folded' = folded \cup Named(pair, next)
              /\ typed' = {f \in typed : pair'.draft[f] # pair'.settings[f]}
         ELSE UNCHANGED <<pair, folded, typed>>
      /\ wanted' = (wanted \/ (prevails /\ saving # 0))
  BY <1>1 DEF HearRead, Untimely, Past
<1>3. /\ pair \in PairType /\ wanted \in BOOLEAN /\ entry' \in EntryType
      /\ \A m \in DOMAIN reads : m \in 1 .. asked
      /\ typed \subseteq Fields /\ folded \subseteq Fields
  BY <1>1 DEF Inv, PairHolds, ScreenHolds, ReadsHold, AfterAnswer
<1>4. DOMAIN reads' = DOMAIN reads \ {n} /\ \A m \in DOMAIN reads' : reads'[m] = reads[m]
  BY <1>2 DEF Without
<1> HIDE DEF next, prevails
<1>5. HistoryHolds' /\ SavesHold'
  BY <1>2, PastKeeps DEF Inv, SavesHold, Past
<1>6. ReadsHold'
  BY <1>2, <1>4 DEF Inv, ReadsHold, Past
<1>7. CASE prevails /\ saving = 0
  <2>1. pair' = Received(pair, next)
    BY <1>2, <1>7
  <2>2. next.version \in Nat
    BY <1>1
  <2>3. /\ pair' \in PairType /\ pair'.version = next.version
        /\ \/ pair'.settings = next.rows
           \/ next.version = pair.version /\ pair'.settings = pair.settings
        /\ \A f \in Fields :
             Stored[pair.draft[f]] = pair.settings[f] =>
               pair'.draft[f] = pair'.settings[f] \/ (pair' = pair /\ next.version = pair.version)
    BY <2>1, <2>2, <1>1, <1>3, ReceivedIs, SettingsAreStored
  <2>4. /\ PairHolds'
    <3>1. \A f \in Fields \ typed' : pair'.draft[f] = pair'.settings[f]
      <4>1. \A f \in Fields \ typed : pair.draft[f] = pair.settings[f]
        BY DEF Inv, PairHolds
      <4>2. \A f \in Fields \ typed : Stored[pair.draft[f]] = pair.settings[f]
        BY <4>1, SettingsAreStored
      <4> QED
        BY <4>1, <4>2, <2>3, <1>2, <1>7
    <3>2. typed' \subseteq Fields /\ folded' \subseteq Fields
      BY <1>2, <1>3, <1>7 DEF Named, Conflicts, Mine
    <3>3. pair'.version # 0 /\ pair'.version <= version
      BY <2>3, <1>1
    <3>4. Since(saved, Fields, pair'.settings, pair'.version)
      BY <2>3, <3>3, <1>1 DEF Inv, PairHolds
    <3>5. version' = version /\ saved' = saved
      BY <1>2 DEF Past
    <3> QED
      BY <3>1, <3>2, <3>3, <3>4, <3>5, <2>3 DEF PairHolds
  <2>5. entry'.version = next.version /\ entry'.number = n
    BY <1>1, <1>7 DEF AfterAnswer, prevails
  <2>6. ScreenHolds'
    BY <1>2, <1>7 DEF Inv, ScreenHolds
  <2>7. EntryHolds'
    <3>1. version' = version
      BY <1>2 DEF Past
    <3> QED
      BY <3>1, <2>3, <2>5, <1>1, <1>2, <1>3 DEF Inv, EntryHolds, EntryType, AfterAnswer, Larger
  <2>8. MadeUp'
    BY <2>3, <2>5 DEF MadeUp
  <2> QED
    BY <1>5, <1>6, <2>4, <2>6, <2>7, <2>8 DEF Inv
<1>8. CASE prevails /\ saving # 0
  <2>1. wanted' = TRUE /\ UNCHANGED <<pair, folded, typed>>
    BY <1>2, <1>8
  <2>2. PairHolds' /\ ScreenHolds' /\ MadeUp'
    BY <2>1, <1>2, <1>8 DEF Inv, PairHolds, ScreenHolds, SavingHolds, MadeUp, Past
  <2>3. EntryHolds'
    <3>1. version' = version /\ entry'.version = reads[n].version /\ entry'.number = n
      BY <1>1, <1>2, <1>8 DEF Past, AfterAnswer, prevails
    <3>2. pair.version <= reads[n].version
      BY <1>1, <1>3, <1>8 DEF Inv, EntryHolds, EntryType, PairType, prevails, Prevails
    <3> QED
      BY <3>1, <3>2, <2>1, <1>1, <1>2, <1>3 DEF Inv, EntryHolds, EntryType, AfterAnswer, Larger
  <2> QED
    BY <1>5, <1>6, <2>2, <2>3 DEF Inv
<1>9. CASE ~prevails
  <2>1. /\ wanted' = wanted /\ UNCHANGED <<pair, folded, typed>>
        /\ entry'.version = entry.version /\ entry'.number = entry.number
    BY <1>1, <1>2, <1>3, <1>9 DEF AfterAnswer, prevails
  <2>2. PairHolds' /\ ScreenHolds'
    BY <2>1, <1>2 DEF Inv, PairHolds, ScreenHolds, SavingHolds, Past
  <2>3. EntryHolds'
    <3>1. version' = version
      BY <1>2 DEF Past
    <3> QED
      BY <3>1, <2>1, <1>1, <1>2, <1>3 DEF Inv, EntryHolds, EntryType, AfterAnswer, Larger
  <2>4. MadeUp'
    <3>1. SUFFICES ASSUME pair.version # entry.version, ~wanted
                   PROVE  \E m \in 1 .. asked : MakesUp(m, entry', reads')
      BY <2>1, <1>2 DEF MadeUp
    <3>2. PICK k \in 1 .. asked : MakesUp(k, entry, reads)
      BY <3>1 DEF Inv, MadeUp
    <3>3. reads[n].stage # "sent"
      BY DEF HearRead
    <3>4. n < k
      BY <3>2, <3>3, <1>1, <1>9 DEF MakesUp, Inv, EntryHolds, EntryType, prevails, Prevails
    <3>5. MakesUp(k, entry', reads')
      BY <3>2, <3>4, <2>1, <1>1, <1>3, <1>4 DEF MakesUp, AfterAnswer, EntryType, Larger
    <3> QED
      BY <3>5
  <2> QED
    BY <1>5, <1>6, <2>2, <2>3, <2>4 DEF Inv
<1> QED
  BY <1>7, <1>8, <1>9

\* Whoever saves: what holds of calls under way and of the screen still does.
LEMMA PastGrows ==
  ASSUME Inv, NEW s, s \in SavedType, s.fields = Changed(stored, s.to),
         \A f \in Fields : Stored[s.to[f]] = s.to[f],
         stored' = s.to, version' = version + 1, saved' = Append(saved, s)
  PROVE  /\ HistoryHolds'
         /\ version \in Nat /\ version = Len(saved) + 1
         /\ Len(saved) \in Nat /\ Len(saved') = Len(saved) + 1
         /\ At(saved', version + 1) = s.to
         /\ \A read : ReadHolds(saved, read) => ReadHolds(saved', read)
         /\ \A save : SaveHolds(saved, save) => SaveHolds(saved', save)
         /\ \A fields, rows : \A v \in 1 .. version :
              Since(saved, fields, rows, v) => Since(saved', fields, rows, v)
<1>1. /\ saved \in Seq(SavedType) /\ Connected(saved)
      /\ version = Len(saved) + 1 /\ stored = At(saved, Len(saved) + 1)
  BY DEF Inv, HistoryHolds
<1>2. /\ Len(saved) \in Nat /\ Len(saved') = Len(saved) + 1
      /\ saved' \in Seq(SavedType)
      /\ At(saved', Len(saved) + 2) = s.to
  BY <1>1, PastStands
<1>3. Connected(saved')
  BY <1>1, StaysConnected
<1>4. \A fields, rows : \A v \in 1 .. version :
        Since(saved, fields, rows, v) => Since(saved', fields, rows, v)
  BY <1>1, SinceStands
<1>5. HistoryHolds' /\ version \in Nat /\ At(saved', version + 1) = s.to
  BY <1>1, <1>2, <1>3 DEF HistoryHolds
<1>6. ASSUME NEW read, ReadHolds(saved, read)
      PROVE  ReadHolds(saved', read)
  BY <1>1, <1>2, <1>4, <1>6 DEF ReadHolds
<1>7. ASSUME NEW save, SaveHolds(saved, save)
      PROVE  SaveHolds(saved', save)
  BY <1>1, <1>2, <1>4, <1>7 DEF SaveHolds
<1> QED
  BY <1>1, <1>2, <1>4, <1>5, <1>6, <1>7

\* What the server does leaves the screen as it was.
LEMMA ScreenWaits ==
  ASSUME Inv, version' \in {version, version + 1}, HistoryHolds',
         \A fields, rows : \A v \in 1 .. version :
           Since(saved, fields, rows, v) => Since(saved', fields, rows, v),
         \A read : ReadHolds(saved, read) => ReadHolds(saved', read),
         UNCHANGED <<pair, reads, saving, during, wanted, asked, entry, folded, typed>>
  PROVE  ReadsHold' /\ PairHolds' /\ EntryHolds' /\ MadeUp'
<1>1. version \in Nat /\ pair \in PairType /\ pair.version \in Nat
  BY DEF Inv, HistoryHolds, PairHolds, PairType
<1>2. ReadsHold'
  BY DEF Inv, ReadsHold
<1>3. PairHolds'
  BY <1>1 DEF Inv, PairHolds
<1>4. EntryHolds' /\ MadeUp'
  BY <1>1 DEF Inv, EntryHolds, EntryType, MadeUp
<1> QED
  BY <1>2, <1>3, <1>4

LEMMA OthersSaveKeeps ==
  ASSUME Inv, NEW f \in Fields, NEW x \in Values, OthersSave(f, x)
  PROVE  Inv'
<1> DEFINE to == [stored EXCEPT ![f] = Stored[x]]
           s == [mine |-> FALSE, fields |-> Changed(stored, to), to |-> to]
<1>1. /\ UNCHANGED <<pair, reads, saves, saving, during, wanted, asked, entry, folded, typed>>
      /\ stored' = to /\ version' = version + 1 /\ saved' = Append(saved, s)
  BY DEF OthersSave
<1>2. /\ stored \in Settings /\ \A g \in Fields : Stored[stored[g]] = stored[g]
  BY DEF Inv, HistoryHolds, Connected
<1>3. to \in Settings /\ \A g \in Fields : Stored[to[g]] = to[g]
  BY <1>2, EditingAssumption DEF Settings
<1>4. s \in SavedType /\ s.fields = Changed(stored, s.to) /\ s.to = to
  BY <1>3 DEF SavedType, Changed
<1> HIDE DEF to, s
<1>5. /\ HistoryHolds' /\ version \in Nat
      /\ \A read : ReadHolds(saved, read) => ReadHolds(saved', read)
      /\ \A save : SaveHolds(saved, save) => SaveHolds(saved', save)
      /\ \A fields, rows : \A v \in 1 .. version :
           Since(saved, fields, rows, v) => Since(saved', fields, rows, v)
  BY <1>1, <1>3, <1>4, PastGrows
<1>6. ReadsHold' /\ PairHolds' /\ EntryHolds' /\ MadeUp'
  BY <1>1, <1>5, ScreenWaits
<1>7. SavesHold' /\ ScreenHolds'
  BY <1>1, <1>5 DEF Inv, SavesHold, ScreenHolds
<1> QED
  BY <1>5, <1>6, <1>7 DEF Inv

LEMMA RefuseSaveKeeps ==
  ASSUME Inv, NEW n \in DOMAIN saves, RefuseSave(n)
  PROVE  Inv'
<1> DEFINE stage == IF MaySave(saves[n]) THEN "refused" ELSE "changed"
           ended == [saves[n] EXCEPT !.stage = stage]
<1>1. /\ UNCHANGED <<stored, version, saved>>
      /\ UNCHANGED <<pair, reads, saving, during, wanted, asked, entry, folded, typed>>
      /\ saves' = Ended(n, ended) /\ UNCHANGED Past
  BY DEF RefuseSave, Past
<1>2. saves[n] \in SaveType /\ SaveHolds(saved, saves[n])
  BY DEF Inv, SavesHold
<1>3. ended \in SaveType /\ ended.stage \in {"refused", "changed"} /\ SaveHolds(saved, ended)
  BY <1>2 DEF SaveType, SaveHolds
<1> HIDE DEF ended
<1>4. /\ DOMAIN saves' \subseteq DOMAIN saves
      /\ saving # 0 => saving \in DOMAIN saves'
      /\ \A m \in DOMAIN saves' : saves'[m] = saves[m] \/ (m = n /\ saves'[m] = ended)
  BY <1>1 DEF Ended, Without, Inv, ScreenHolds
<1>5. HistoryHolds'
  BY <1>1, PastKeeps
<1>6. ReadsHold' /\ PairHolds' /\ EntryHolds' /\ MadeUp'
  BY <1>1, <1>5, ScreenWaits
<1>7. SavesHold'
  BY <1>1, <1>3, <1>4 DEF Inv, SavesHold
<1>8. ScreenHolds'
  <2>1. saving # 0 => SavingHolds(pair, saves'[saving], during, entry, wanted)
    BY <1>3, <1>4 DEF Inv, ScreenHolds, SavingHolds
  <2> QED
    BY <2>1, <1>1, <1>4 DEF Inv, ScreenHolds
<1> QED
  BY <1>5, <1>6, <1>7, <1>8 DEF Inv

IsAccepted(save, v, rows) ==
  save \in SaveType /\ save.stage = "saved" /\ save.version = v /\ save.rows = rows

LEMMA AcceptedIs ==
  ASSUME NEW save, NEW v, NEW rows, save \in SaveType, v \in Nat, rows \in Settings
  PROVE  IsAccepted([save EXCEPT !.stage = "saved", !.version = v, !.rows = rows], v, rows)
BY DEF SaveType, IsAccepted

\* The version lets through what was made from all that is stored.
LEMMA AcceptSaveKeeps ==
  ASSUME Inv, NEW n \in DOMAIN saves, AcceptSave(n)
  PROVE  Inv'
<1> DEFINE to == AsStored(saves[n].rows)
           ended == [saves[n] EXCEPT !.stage = "saved", !.version = version + 1, !.rows = to]
           s == [mine |-> TRUE, fields |-> Changed(stored, to), to |-> to]
<1>1. /\ UNCHANGED <<pair, reads, saving, during, wanted, asked, entry, folded, typed>>
      /\ stored' = to /\ version' = version + 1 /\ saved' = Append(saved, s)
      /\ saves' = Ended(n, ended)
      /\ saves[n].stage = "sent"
  BY DEF AcceptSave
<1>2. /\ saves[n] \in SaveType /\ saves[n].rows \in Settings
      /\ \A m \in DOMAIN saves :
           m \in 1 .. asked /\ saves[m] \in SaveType /\ SaveHolds(saved, saves[m])
  BY DEF Inv, SavesHold, SaveType
<1>3. /\ to \in Settings /\ \A g \in Fields : Stored[to[g]] = to[g]
      /\ \A g \in Fields : to[g] = Stored[saves[n].rows[g]]
  BY <1>2, EditingAssumption DEF Settings, AsStored
<1>4. s \in SavedType /\ s.fields = Changed(stored, s.to) /\ s.to = to
  BY <1>3 DEF SavedType, Changed
<1>5. version \in Nat
  BY DEF Inv, HistoryHolds
<1> HIDE DEF to, s
<1>6. IsAccepted(ended, version + 1, to)
  <2> DEFINE save == saves[n]
             next == version + 1
  <2>1. save \in SaveType /\ next \in Nat /\ to \in Settings
    BY <1>2, <1>3, <1>5
  <2>2. ended = [save EXCEPT !.stage = "saved", !.version = next, !.rows = to]
    OBVIOUS
  <2> HIDE DEF save, next, ended
  <2>3. IsAccepted([save EXCEPT !.stage = "saved", !.version = next, !.rows = to], next, to)
    BY <2>1, AcceptedIs
  <2>4. IsAccepted(ended, next, to)
    BY <2>2, <2>3
  <2> QED
    BY <2>4 DEF next
<1> HIDE DEF ended
<1>7. /\ HistoryHolds' /\ version = Len(saved) + 1
      /\ Len(saved) \in Nat /\ Len(saved') = Len(saved) + 1
      /\ At(saved', version + 1) = to
      /\ \A read : ReadHolds(saved, read) => ReadHolds(saved', read)
      /\ \A save : SaveHolds(saved, save) => SaveHolds(saved', save)
      /\ \A fields, rows : \A v \in 1 .. version :
           Since(saved, fields, rows, v) => Since(saved', fields, rows, v)
  BY <1>1, <1>3, <1>4, PastGrows
<1>8. SaveHolds(saved', ended)
  BY <1>6, <1>7 DEF SaveHolds, Since, IsAccepted
<1>9. /\ DOMAIN saves' \subseteq DOMAIN saves
      /\ saving # 0 => saving \in DOMAIN saves'
      /\ \A m \in DOMAIN saves' :
           (m # n /\ saves'[m] = saves[m]) \/ (m = n /\ saves'[m] = ended)
  BY <1>1 DEF Ended, Without, Inv, ScreenHolds
<1>10. ReadsHold' /\ PairHolds' /\ EntryHolds' /\ MadeUp'
  BY <1>1, <1>7, ScreenWaits
<1>11. SavesHold'
  BY <1>1, <1>2, <1>6, <1>7, <1>8, <1>9 DEF SavesHold, IsAccepted
<1>12. ScreenHolds'
  <2>1. CASE saving = 0
    BY <2>1, <1>1 DEF Inv, ScreenHolds
  <2>2. CASE saving # 0 /\ saving # n
    BY <2>2, <1>1, <1>9 DEF Inv, ScreenHolds
  <2>3. CASE saving = n /\ saving # 0
    <3>1. SavingHolds(pair, saves[n], during, entry, wanted) /\ saves'[n] = ended
      BY <2>3, <1>9 DEF Inv, ScreenHolds
    <3>2. entry.version <= version + 1 /\ pair.version < version + 1
      BY <1>5 DEF Inv, EntryHolds, EntryType, PairHolds, PairType
    <3>3. \A f \in Fields \ DOMAIN during :
            pair.draft[f] = pair.settings[f] \/ ended.rows[f] = Stored[pair.draft[f]]
      BY <3>1, <1>1, <1>3, <1>6 DEF SavingHolds, IsAccepted
    <3>4. SavingHolds(pair, ended, during, entry, wanted)
      BY <3>1, <3>2, <3>3, <1>6 DEF SavingHolds, IsAccepted
    <3> QED
      BY <3>1, <3>4, <2>3, <1>1, <1>9 DEF Inv, ScreenHolds
  <2> QED
    BY <2>1, <2>2, <2>3
<1> QED
  BY <1>7, <1>10, <1>11, <1>12 DEF Inv

LEMMA InitHolds == Init => Inv
<1> SUFFICES ASSUME Init PROVE Inv
  OBVIOUS
<1>1. /\ stored = Initial /\ version = 1 /\ saved = <<>>
      /\ pair = [settings |-> Initial, version |-> 0, draft |-> Initial]
      /\ DOMAIN reads = {} /\ DOMAIN saves = {} /\ saving = 0 /\ asked = 0
      /\ during = Nowhere /\ wanted = FALSE /\ entry = Nothing
      /\ folded = {} /\ typed = {}
  BY DEF Init, Nowhere
<1>2. Initial \in Settings /\ \A f \in Fields : Stored[Initial[f]] = Initial[f]
  BY EditingAssumption DEF Settings
<1>3. saved \in Seq(SavedType) /\ Len(saved) = 0
  BY <1>1
<1>4. HistoryHolds
  BY <1>1, <1>2, <1>3 DEF HistoryHolds, Connected, At
<1>5. ReadsHold /\ SavesHold
  BY <1>1 DEF ReadsHold, SavesHold
<1>6. PairHolds
  BY <1>1, <1>2 DEF PairHolds, PairType
<1>7. ScreenHolds
  BY <1>1 DEF ScreenHolds, Nowhere
<1>8. EntryHolds /\ MadeUp
  BY <1>1 DEF EntryHolds, EntryType, MadeUp, Nothing
<1> QED
  BY <1>4, <1>5, <1>6, <1>7, <1>8 DEF Inv

LEMMA StepKeeps == Inv /\ [Next]_vars => Inv'
<1> SUFFICES ASSUME Inv, [Next]_vars PROVE Inv'
  OBVIOUS
<1>1. CASE Load \/ Revert \/ SaveSettings
  BY <1>1, LoadKeeps, RevertKeeps, SaveSettingsKeeps
<1>2. CASE \E f \in Fields, x \in Values : Edit(f, x)
  BY <1>2, EditKeeps
<1>3. CASE HearSaved \/ HearRefusal \/ LoseSave
  BY <1>3, HearSavedKeeps, HearRefusalKeeps, LoseSaveKeeps
<1>4. CASE \E n \in DOMAIN reads : HearRead(n) \/ FailRead(n) \/ ReadRow(n) \/ ReadRest(n)
  BY <1>4, HearReadKeeps, FailReadKeeps, ReadRowKeeps, ReadRestKeeps
<1>5. CASE \E n \in DOMAIN saves : AcceptSave(n) \/ RefuseSave(n)
  BY <1>5, AcceptSaveKeeps, RefuseSaveKeeps
<1>6. CASE \E f \in Fields, x \in Values : OthersSave(f, x)
  BY <1>6, OthersSaveKeeps
<1>7. CASE UNCHANGED vars
  BY <1>7 DEF vars, Inv, HistoryHolds, ReadsHold, SavesHold, PairHolds, ScreenHolds, EntryHolds,
     MadeUp
<1> QED
  BY <1>1, <1>2, <1>3, <1>4, <1>5, <1>6, <1>7 DEF Next

LEMMA InvAlways == Spec => []Inv
BY InitHolds, StepKeeps, PTL DEF Spec

-----------------------------------------------------------------------------
(***************************************************************************)
(* Every variable keeps its type; a screen that waits for a save waits for *)
(* one that is under way, and has nothing typed or wanted otherwise.       *)
(***************************************************************************)
THEOREM EditingIsTyped == Spec => []TypeOK
<1>1. Inv => TypeOK
  BY InvIsTyped
<1> QED
  BY <1>1, InvAlways, PTL

(***************************************************************************)
(* With nothing under way the draft is measured against the newest         *)
(* settings any answer brought, or a failure shows (page.tsx,              *)
(* settingsWanted).                                                        *)
(***************************************************************************)
THEOREM DroppedIsMadeUpFor == Spec => []NothingStaysDropped
<1>1. Inv => NothingStaysDropped
  <2> SUFFICES ASSUME Inv, reads = Nowhere, saving = 0, pair.version # entry.version
               PROVE  entry.failure # 0
    BY DEF NothingStaysDropped
  <2>1. DOMAIN reads = {}
    BY DEF Nowhere
  <2>2. PICK n \in 1 .. asked : MakesUp(n, entry, reads)
    BY DEF Inv, ScreenHolds, MadeUp
  <2> QED
    BY <2>1, <2>2 DEF MakesUp, Inv, ReadsHold
<1> QED
  BY <1>1, InvAlways, PTL

(***************************************************************************)
(* A save changes only what its manager set: it never reverts what another *)
(* save stored since (bar.rs, save_settings; settingsSync.ts,              *)
(* mergeDrafts).                                                           *)
(***************************************************************************)
THEOREM SavesKeepOthersEdits == Spec => SavesOnlyEdits
<1>1. Inv /\ [Next]_vars =>
        [\A n \in DOMAIN saves :
           AcceptSave(n) => Changed(stored, stored') \subseteq saves[n].typed]_vars
  <2> SUFFICES ASSUME Inv, NEW n \in DOMAIN saves, AcceptSave(n),
                      NEW f \in Fields \ saves[n].typed
               PROVE  stored[f] = stored'[f]
    BY DEF Changed
  <2>1. /\ saves[n].stage = "sent" /\ saves[n].version = version
        /\ stored' = AsStored(saves[n].rows)
    BY DEF AcceptSave, MaySave
  <2>2. /\ version = Len(saved) + 1 /\ Len(saved) \in Nat
        /\ stored = At(saved, version) /\ Stored[stored[f]] = stored[f]
    BY DEF Inv, HistoryHolds, Connected
  <2>3. saves[n].rows[f] = At(saved, version)[f]
    BY <2>1, <2>2 DEF Inv, SavesHold, SaveHolds, Since
  <2> QED
    BY <2>1, <2>2, <2>3 DEF AsStored
<1> QED
  BY <1>1, InvAlways, PTL DEF Spec, SavesOnlyEdits

LEMMA EditsSurviveAnswers ==
  ASSUME Inv, Next, NEW f \in Fields, pair.version # 0, Stored[pair.draft[f]] # pair.settings[f],
         ~Revert, ~\E x \in Values : Edit(f, x)
  PROVE  pair'.draft[f] \in {pair.draft[f], Stored[pair.draft[f]]}
<1>1. CASE \E n \in DOMAIN reads : HearRead(n)
  <2>1. PICK n \in DOMAIN reads : HearRead(n)
    BY <1>1
  <2> DEFINE next == [rows |-> reads[n].rows, version |-> reads[n].version]
  <2>2. pair' = Received(pair, next) \/ pair' = pair
    BY <2>1 DEF HearRead
  <2>3. next.rows \in Settings /\ next.version \in Nat /\ pair \in PairType
    BY <2>1 DEF Inv, ReadsHold, ReadType, PairHolds
  <2> HIDE DEF next
  <2>4. pair' = Received(pair, next) => pair'.draft[f] \in {pair.draft[f], Stored[pair.draft[f]]}
    BY <2>3, ReceivedIs, SettingsAreStored
  <2> QED
    BY <2>2, <2>4
<1>2. CASE HearSaved
  <2> DEFINE save == saves[saving]
             next == [rows |-> save.rows, version |-> save.version]
  <2>1. /\ saving # 0 /\ save.stage = "saved"
        /\ pair' = SavedInto(next, during)
    BY <1>2 DEF HearSaved
  <2>2. pair'.draft = Over(during, save.rows)
    BY <2>1 DEF SavedInto
  <2>3. SavingHolds(pair, save, during, entry, wanted)
    BY <2>1 DEF Inv, ScreenHolds
  <2>4. pair.draft[f] # pair.settings[f]
    BY SettingsAreStored
  <2> HIDE DEF save
  <2> QED
    BY <2>1, <2>2, <2>3, <2>4 DEF SavingHolds, Over
<1>3. CASE \E g \in Fields, x \in Values : Edit(g, x)
  <2>1. PICK g \in Fields, x \in Values : Edit(g, x)
    BY <1>3
  <2>2. g # f
    BY <2>1
  <2>3. pair' = [pair EXCEPT !.draft[g] = x] /\ pair \in PairType
    BY <2>1 DEF Edit, Inv, PairHolds
  <2> QED
    BY <2>2, <2>3 DEF PairType, Settings
<1>4. CASE pair' = pair
  BY <1>4
<1>5. \/ \E n \in DOMAIN reads : HearRead(n) \/ HearSaved
      \/ HearSaved \/ (\E g \in Fields, x \in Values : Edit(g, x))
      \/ pair' = pair
  BY DEF Next, Load, SaveSettings, HearRefusal, LoseSave, FailRead, ReadRow, ReadRest,
     AcceptSave, RefuseSave, OthersSave
<1> QED
  BY <1>1, <1>2, <1>3, <1>4, <1>5

(***************************************************************************)
(* What the manager has set in the draft stays as it was typed, or becomes *)
(* the server's form of it, until they set it anew or revert               *)
(* (settingsSync.ts, received and savedInto).                              *)
(***************************************************************************)
THEOREM EditsAreKept == Spec => EditsSurvive
<1>1. Inv /\ [Next]_vars =>
        [\A f \in Fields :
           pair.version # 0 /\ Stored[pair.draft[f]] # pair.settings[f] =>
             \/ pair'.draft[f] \in {pair.draft[f], Stored[pair.draft[f]]}
             \/ Revert \/ \E x \in Values : Edit(f, x)]_vars
  BY EditsSurviveAnswers
<1> QED
  BY <1>1, InvAlways, PTL DEF Spec, EditsSurvive

LEMMA NamedIsTrue ==
  ASSUME Inv, NEW n \in DOMAIN reads, HearRead(n), NEW f \in folded' \ folded
  PROVE  \E v \in pair.version .. Len(saved) :
           /\ f \in saved[v].fields
           /\ ~saved[v].mine \/ saved[v].to[f] # Stored[pair.draft[f]]
<1> DEFINE next == [rows |-> reads[n].rows, version |-> reads[n].version]
<1>1. /\ n \in 1 .. asked /\ asked \in Nat /\ entry \in EntryType
      /\ next.rows = reads[n].rows /\ next.version = reads[n].version
      /\ reads[n].version \in 1 .. version
      /\ version = Len(saved) + 1 /\ version \in Nat
      /\ Since(saved, Fields, reads[n].rows, reads[n].version)
      /\ Replaces(entry, n, next, TRUE) <=> Prevails(entry, n, reads[n].version)
  BY ReadBrings
<1>2. Prevails(entry, n, reads[n].version) /\ f \in Named(pair, next)
  BY <1>1 DEF HearRead
<1> HIDE DEF next
<1>3. /\ pair.version # 0 /\ reads[n].version # pair.version /\ f \in Fields
      /\ Stored[pair.draft[f]] # pair.settings[f]
      /\ Stored[pair.draft[f]] # reads[n].rows[f]
      /\ reads[n].rows[f] # pair.settings[f]
  BY <1>1, <1>2 DEF Named, Conflicts, Mine, AsStored
<1>4. /\ pair.version \in 1 .. Len(saved) + 1 /\ pair.version < reads[n].version
      /\ Since(saved, Fields, pair.settings, pair.version)
      /\ saved \in Seq(SavedType) /\ Connected(saved)
  <2>1. pair.version \in Nat /\ pair.version <= version
    BY DEF Inv, PairHolds, PairType
  <2> QED
    BY <2>1, <1>1, <1>2, <1>3 DEF Inv, PairHolds, EntryHolds, EntryType, HistoryHolds, Prevails
<1>5. PICK u \in pair.version .. Len(saved) + 1 : pair.settings[f] = At(saved, u)[f]
  BY <1>3, <1>4 DEF Since
<1>6. PICK w \in reads[n].version .. Len(saved) + 1 : reads[n].rows[f] = At(saved, w)[f]
  BY <1>1, <1>3 DEF Since
<1>7. w \in pair.version .. Len(saved) + 1
  BY <1>1, <1>4, <1>6
<1>8. PICK v \in pair.version .. Len(saved) :
        f \in saved[v].fields /\ saved[v].to[f] \in {At(saved, u)[f], At(saved, w)[f]}
  BY <1>3, <1>4, <1>5, <1>6, <1>7, SomebodyChanged
<1> QED
  BY <1>3, <1>5, <1>6, <1>8

(***************************************************************************)
(* A field is named as changed by somebody else only if somebody else      *)
(* changed it since the settings on screen, or an own save whose answer    *)
(* was lost stored another value than the draft has by now                 *)
(* (settingsSync.ts, asStored).                                            *)
(***************************************************************************)
THEOREM NoticesAreTrue == Spec => NoticeIsTrue
<1>1. Inv /\ [Next]_vars =>
        [\A f \in folded' \ folded : \E v \in pair.version .. Len(saved) :
           /\ f \in saved[v].fields
           /\ ~saved[v].mine \/ saved[v].to[f] # Stored[pair.draft[f]]]_vars
  <2> SUFFICES ASSUME Inv, Next, NEW f \in folded' \ folded
               PROVE  \E v \in pair.version .. Len(saved) :
                        /\ f \in saved[v].fields
                        /\ ~saved[v].mine \/ saved[v].to[f] # Stored[pair.draft[f]]
    OBVIOUS
  <2>1. \E n \in DOMAIN reads : HearRead(n)
    BY DEF Next, Load, Revert, Edit, SaveSettings, HearSaved, HearRefusal, LoseSave, FailRead,
       ReadRow, ReadRest, AcceptSave, RefuseSave, OthersSave
  <2> QED
    BY <2>1, NamedIsTrue
<1> QED
  BY <1>1, InvAlways, PTL DEF Spec, NoticeIsTrue
=============================================================================
