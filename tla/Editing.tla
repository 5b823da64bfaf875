------------------------------ MODULE Editing ------------------------------
(***************************************************************************)
(* A manager edits the settings while others save theirs.                  *)
(*                                                                         *)
(* The screen holds the settings as last received and the manager's draft  *)
(* of what they shall be.  Whatever arrives is folded into the draft field *)
(* by field; what arrives during a save is dropped and asked for again.    *)
(* The server takes a save only if it was made from the version stored,    *)
(* under the bar lock; it stores every value in a form of its own          *)
(* (Stored).  A read is not locked: the version comes with the fields of   *)
(* the bar's own row, the other fields are read after, and a save may land *)
(* in between.                                                             *)
(***************************************************************************)
EXTENDS Ledger, Sequences

CONSTANTS
  RowFields,     \* settings in the row of the bar, read with its version
  OtherFields,   \* hours, tables, staff: read after it
  Values,        \* what a field may be set to
  Stored,        \* [Values -> Values]: trimmed, in the order of storage
  Initial,       \* [Fields -> Values]: the settings at first
  MaxAsked,      \* bound: calls before no more are begun
  MaxSaves       \* bound: saves that are accepted

Fields == RowFields \cup OtherFields

ASSUME EditingAssumption ==
  /\ RowFields \cap OtherFields = {}
  /\ Stored \in [Values -> Values]
  /\ \A x \in Values : Stored[Stored[x]] = Stored[x]
  /\ Initial \in [Fields -> Values]
  /\ \A f \in Fields : Stored[Initial[f]] = Initial[f]
  /\ MaxAsked \in Nat /\ MaxSaves \in Nat

VARIABLES
  stored,    \* the settings, [Fields -> Values]
  version,   \* settings_version
  pair,      \* [settings, version, draft]; version 0: nothing received yet
  reads,     \* reads of the settings under way, by number
  saves,     \* saves under way, by number
  saving,    \* number of the save the screen waits for, 0 if none
  during,    \* editsDuringSave: what was typed since, by field
  wanted,    \* settingsWanted: read again once the save is over
  asked,     \* number of the newest call
  entry,     \* the ledger's entry about the settings (reads.ts)
  folded,    \* fields the screen names as changed by somebody else
  saved,     \* history: of each save whose it was, what changed and to what
  typed      \* history: fields of the draft that the manager has set

vars == <<stored, version, pair, reads, saves, saving, during, wanted, asked, entry, folded,
          saved, typed>>

Settings == [Fields -> Values]
Nowhere == [n \in {} |-> 0]
Without(cs, n) == [m \in DOMAIN cs \ {n} |-> cs[m]]
Over(typing, base) == [f \in Fields |-> IF f \in DOMAIN typing THEN typing[f] ELSE base[f]]
Changed(old, new) == {f \in Fields : old[f] # new[f]}

AsStored(values) == [f \in Fields |-> Stored[values[f]]]

-----------------------------------------------------------------------------
\* settingsSync.ts

Fresh(next) == [settings |-> next.rows, version |-> next.version, draft |-> next.rows]

IsDirty(p) == p.draft # p.settings

\* Mutant: compared as typed, not as stored.
MineAsTyped(p, next) == {f \in Fields : p.draft[f] \notin {p.settings[f], next.rows[f]}}

\* Mine only where I changed something, and not to what they have now.
Mine(p, next) ==
  {f \in Fields : /\ AsStored(p.draft)[f] # p.settings[f]
                  /\ AsStored(p.draft)[f] # next.rows[f]}

Conflicts(p, next) == {f \in Mine(p, next) : next.rows[f] # p.settings[f]}

Merged(p, next) ==
  [settings |-> next.rows, version |-> next.version,
   draft |-> [f \in Fields |-> IF f \in Mine(p, next) THEN p.draft[f] ELSE next.rows[f]]]

Received(p, next) ==
  CASE p.version = 0 -> Fresh(next)
    [] p.version # 0 /\ next.version = p.version -> p
    [] p.version # 0 /\ next.version # p.version /\ ~IsDirty(p) -> Fresh(next)
    [] OTHER -> Merged(p, next)

Named(p, next) ==
  IF p.version # 0 /\ next.version # p.version THEN Conflicts(p, next) ELSE {}

\* Mutant: what was typed during the save is not replayed.
SavedOnly(next, typing) ==
  [settings |-> next.rows, version |-> next.version, draft |-> next.rows]

SavedInto(next, typing) ==
  [settings |-> next.rows, version |-> next.version, draft |-> Over(typing, next.rows)]

-----------------------------------------------------------------------------
\* The screen.

Read == [stage |-> "sent", rows |-> Initial, version |-> 0]

Asked(rs, n) == [m \in DOMAIN rs \cup {n} |-> IF m = n THEN Read ELSE rs[m]]

Load ==
  /\ asked < MaxAsked
  /\ IF saving # 0
     THEN wanted' = TRUE /\ UNCHANGED <<reads, asked>>
     ELSE reads' = Asked(reads, asked + 1) /\ asked' = asked + 1 /\ UNCHANGED wanted
  /\ UNCHANGED <<stored, version, pair, saves, saving, during, entry, folded, saved, typed>>

Edit(f, x) ==
  /\ pair.version # 0 /\ pair.draft[f] # x
  /\ pair' = [pair EXCEPT !.draft[f] = x]
  /\ during' = IF saving # 0 THEN [g \in DOMAIN during \cup {f} |-> IF g = f THEN x ELSE during[g]]
               ELSE during
  /\ folded' = {}
  /\ typed' = typed \cup {f}
  /\ UNCHANGED <<stored, version, reads, saves, saving, wanted, asked, entry, saved>>

Revert ==
  /\ pair.version # 0 /\ IsDirty(pair)
  /\ pair' = [pair EXCEPT !.draft = pair.settings]
  /\ during' = Nowhere
  /\ folded' = {}
  /\ typed' = {}
  /\ UNCHANGED <<stored, version, reads, saves, saving, wanted, asked, entry, saved>>

\* A read that lands during a save may or may not include it.
Untimely == saving # 0

HearRead(n) ==
  LET next == [rows |-> reads[n].rows, version |-> reads[n].version]
      applies == Replaces(entry, n, next, TRUE)
  IN /\ reads[n].stage = "done"
     /\ reads' = Without(reads, n)
     /\ entry' = Answered(entry, n, [next EXCEPT !.rows = {}], TRUE)
     /\ IF applies /\ ~Untimely
        THEN /\ pair' = Received(pair, next)
             /\ folded' = folded \cup Named(pair, next)
             /\ typed' = {f \in typed : pair'.draft[f] # pair'.settings[f]}
        ELSE UNCHANGED <<pair, folded, typed>>
     /\ wanted' = (wanted \/ (applies /\ Untimely))
     /\ UNCHANGED <<stored, version, saves, saving, during, asked, saved>>

FailRead(n) ==
  /\ reads' = Without(reads, n)
  /\ entry' = Failed(entry, n)
  /\ UNCHANGED <<stored, version, pair, saves, saving, during, wanted, asked, folded, saved, typed>>

SaveSettings ==
  /\ asked < MaxAsked
  /\ saving = 0 /\ pair.version # 0 /\ IsDirty(pair)
  /\ asked' = asked + 1
  /\ saving' = asked + 1
  /\ saves' = [n \in DOMAIN saves \cup {asked + 1} |->
                 IF n = asked + 1
                 THEN [stage |-> "sent", version |-> pair.version, rows |-> pair.draft,
                       typed |-> typed]
                 ELSE saves[n]]
  /\ during' = Nowhere
  /\ folded' = {}
  /\ UNCHANGED <<stored, version, pair, reads, wanted, entry, saved, typed>>

\* Mutants: nothing is read again; what was typed is kept for the next save.
EndSaveOnly(want) ==
  saving' = 0 /\ during' = Nowhere /\ wanted' = FALSE /\ UNCHANGED <<reads, asked>>
EndSaveKeepingEdits(want) ==
  saving' = 0 /\ wanted' = FALSE /\ UNCHANGED <<during, reads, asked>>

\* The save is over: what was wanted meanwhile is read now.
EndSave(want) ==
  /\ saving' = 0
  /\ during' = Nowhere
  /\ wanted' = FALSE
  /\ IF wanted \/ want
     THEN reads' = Asked(reads, asked + 1) /\ asked' = asked + 1
     ELSE UNCHANGED <<reads, asked>>

HearSaved ==
  LET save == saves[saving]
      next == [rows |-> save.rows, version |-> save.version]
  IN /\ saving # 0 /\ save.stage = "saved"
     /\ pair' = SavedInto(next, during)
     /\ entry' = Answered(entry, saving, [next EXCEPT !.rows = {}], TRUE)
     /\ saves' = Without(saves, saving)
     /\ typed' = DOMAIN during
     /\ EndSave(FALSE)
     /\ UNCHANGED <<stored, version, folded, saved>>

\* Refused for another save, or for what it asks.
HearRefusal ==
  /\ saving # 0 /\ saves[saving].stage \in {"changed", "refused"}
  /\ saves' = Without(saves, saving)
  /\ EndSave(saves[saving].stage = "changed")
  /\ UNCHANGED <<stored, version, pair, entry, folded, saved, typed>>

\* No answer comes; what was sent may still be carried out.
LoseSave ==
  /\ saving # 0
  /\ saves' = IF saves[saving].stage = "sent" THEN saves ELSE Without(saves, saving)
  /\ EndSave(FALSE)
  /\ UNCHANGED <<stored, version, pair, entry, folded, saved, typed>>

-----------------------------------------------------------------------------
\* The server.

ReadRow(n) ==
  /\ reads[n].stage = "sent"
  /\ reads' = [reads EXCEPT ![n] =
                 [stage |-> "row", rows |-> stored, version |-> version]]
  /\ UNCHANGED <<stored, version, pair, saves, saving, during, wanted, asked, entry, folded,
                 saved, typed>>

\* Mutant: the version comes with the last of the reads.
VersionLast(read) == version

VersionOfRead(read) == read.version

ReadRest(n) ==
  /\ reads[n].stage = "row"
  /\ reads' = [reads EXCEPT ![n] =
                 [stage |-> "done",
                  rows |-> [f \in Fields |-> IF f \in RowFields THEN reads[n].rows[f] ELSE stored[f]],
                  version |-> VersionOfRead(reads[n])]]
  /\ UNCHANGED <<stored, version, pair, saves, saving, during, wanted, asked, entry, folded,
                 saved, typed>>

\* What the screen is told of save n, if it still waits.
Ended(n, outcome) ==
  IF n = saving THEN [saves EXCEPT ![n] = outcome] ELSE Without(saves, n)

MaySave(save) == save.version = version

AcceptSave(n) ==
  /\ saves[n].stage = "sent" /\ MaySave(saves[n]) /\ version <= MaxSaves
  /\ stored' = AsStored(saves[n].rows)
  /\ version' = version + 1
  /\ saves' = Ended(n, [saves[n] EXCEPT !.stage = "saved", !.version = version',
                                         !.rows = stored'])
  /\ saved' = Append(saved,
                     [mine |-> TRUE, fields |-> Changed(stored, stored'), to |-> stored'])
  /\ UNCHANGED <<pair, reads, saving, during, wanted, asked, entry, folded, typed>>

\* Also for a proposal that is unusable, illegal or would strand bookings.
RefuseSave(n) ==
  /\ saves[n].stage = "sent"
  /\ saves' = Ended(n, [saves[n] EXCEPT !.stage = IF MaySave(saves[n]) THEN "refused" ELSE "changed"])
  /\ UNCHANGED <<stored, version, pair, reads, saving, during, wanted, asked, entry, folded,
                 saved, typed>>

\* Somebody else saves; one field of theirs differs from what is stored.
OthersSave(f, x) ==
  /\ version <= MaxSaves /\ stored[f] # Stored[x]
  /\ stored' = [stored EXCEPT ![f] = Stored[x]]
  /\ version' = version + 1
  /\ saved' = Append(saved,
                     [mine |-> FALSE, fields |-> Changed(stored, stored'), to |-> stored'])
  /\ UNCHANGED <<pair, reads, saves, saving, during, wanted, asked, entry, folded, typed>>

-----------------------------------------------------------------------------
Init ==
  /\ stored = Initial
  /\ version = 1
  /\ pair = [settings |-> Initial, version |-> 0, draft |-> Initial]
  /\ reads = Nowhere
  /\ saves = Nowhere
  /\ saving = 0
  /\ during = Nowhere
  /\ wanted = FALSE
  /\ asked = 0
  /\ entry = Nothing
  /\ folded = {}
  /\ saved = <<>>
  /\ typed = {}

Next ==
  \/ Load \/ Revert \/ SaveSettings
  \/ \E f \in Fields, x \in Values : Edit(f, x)
  \/ HearSaved \/ HearRefusal \/ LoseSave
  \/ \E n \in DOMAIN reads : HearRead(n) \/ FailRead(n) \/ ReadRow(n) \/ ReadRest(n)
  \/ \E n \in DOMAIN saves : AcceptSave(n) \/ RefuseSave(n)
  \/ \E f \in Fields, x \in Values : OthersSave(f, x)

Spec == Init /\ [][Next]_vars

-----------------------------------------------------------------------------
ReadType == [stage : {"sent", "row", "done"}, rows : Settings, version : Nat]
SaveType == [stage : {"sent", "saved", "changed", "refused"}, version : Nat, rows : Settings,
             typed : SUBSET Fields]

TypeOK ==
  /\ stored \in Settings
  /\ version = Len(saved) + 1
  /\ pair \in [settings : Settings, version : 0 .. version, draft : Settings]
  /\ \A n \in DOMAIN reads : n \in 1 .. asked /\ reads[n] \in ReadType
  /\ \A n \in DOMAIN saves : n \in 1 .. asked /\ saves[n] \in SaveType
  /\ saving \in {0} \cup DOMAIN saves
  /\ DOMAIN during \subseteq Fields
  /\ saving = 0 => during = Nowhere /\ ~wanted
  /\ asked \in Nat
  /\ folded \subseteq Fields /\ typed \subseteq Fields

(***************************************************************************)
(* A save changes only what its manager set: it never reverts what another *)
(* save stored since, be the settings it was made from old, torn between   *)
(* two reads, or merged (bar.rs, save_settings and load_settings;          *)
(* settingsSync.ts, mergeDrafts).                                          *)
(***************************************************************************)
SavesOnlyEdits ==
  [][\A n \in DOMAIN saves :
       AcceptSave(n) => Changed(stored, stored') \subseteq saves[n].typed]_vars

(***************************************************************************)
(* What the manager has set in the draft stays as it was typed, or becomes *)
(* the server's form of it, until they set it anew or revert: whatever     *)
(* arrives, before, during or after a save (settingsSync.ts, received and  *)
(* savedInto).                                                             *)
(***************************************************************************)
EditsSurvive ==
  [][\A f \in Fields :
       pair.version # 0 /\ Stored[pair.draft[f]] # pair.settings[f] =>
         \/ pair'.draft[f] \in {pair.draft[f], Stored[pair.draft[f]]}
         \/ Revert \/ \E x \in Values : Edit(f, x)]_vars

(***************************************************************************)
(* A field is named as changed by somebody else only if somebody else      *)
(* changed it since the settings on screen, or an own save whose answer    *)
(* was lost stored another value than the draft has by now                 *)
(* (settingsSync.ts, asStored: own save is never taken for someone else's).*)
(***************************************************************************)
NoticeIsTrue ==
  [][\A f \in folded' \ folded : \E v \in pair.version .. Len(saved) :
       /\ f \in saved[v].fields
       /\ ~saved[v].mine \/ saved[v].to[f] # Stored[pair.draft[f]]]_vars

(***************************************************************************)
(* With nothing under way the draft is measured against the newest         *)
(* settings any answer brought, or a failure shows: what was dropped       *)
(* during a save is made up for (page.tsx, settingsWanted).                *)
(***************************************************************************)
NothingStaysDropped ==
  reads = Nowhere /\ saving = 0 => pair.version = entry.version \/ entry.failure # 0
=============================================================================
