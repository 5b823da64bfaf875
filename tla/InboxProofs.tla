---------------------------- MODULE InboxProofs ----------------------------
(***************************************************************************)
(* What is proved of the inbox, for any updates, ids and processes.        *)
(*                                                                         *)
(*  - While a claim on it is remembered no update is answered twice, and   *)
(*    Inbox implements Mailbox.                                            *)
(*  - A booking that has been a plan ever since its reminder has its       *)
(*    button.                                                              *)
(*  - No update is tried more often than it may be.                        *)
(***************************************************************************)
EXTENDS Inbox, WellFoundedInduction, TLAPS

(***************************************************************************)
(* The inductive invariant, part by part, of what Telegram has (s), the    *)
(* claims (c), the pollers (ps), the answers that count (a), the clock     *)
(* (now) and the processes born (b).                                       *)
(***************************************************************************)
SentRecord == [state : {"unsent", "kept", "gone"}, id : Nat, at : Nat]
ClaimRecord == [owner : Nat, attempts : Nat, at : Nat]
PollerRecord ==
  [owner : Nat, offset : Nat, confirmed : Nat, batch : SUBSET Updates, fetched_at : Nat,
   phase : Phases, attempt : Nat, swept : Int]

Typed(s, c, ps, a, now, b) ==
  /\ s \in [Updates -> SentRecord]
  /\ c \in [Ids -> ClaimRecord]
  /\ ps \in [Pollers -> PollerRecord]
  /\ a \in [Updates -> Nat]
  /\ now \in Nat /\ b \in Nat

IsSent(s, u) == s[u].state # "unsent"
IsKept(s, u) == s[u].state = "kept"

\* Later updates have later ids, unless a quiet week lies between them.
Numbered(s, u, v) ==
  /\ IsSent(s, u)
  /\ s[u].at <= s[v].at
  /\ s[u].id < s[v].id \/ s[u].at + QuietFor <= s[v].at
  /\ IsKept(s, u) => IsKept(s, v)

Ordered(s, now) ==
  /\ \A u \in Updates : IsSent(s, u) => s[u].at <= now /\ s[u].id \in Ids
  /\ \A u, v \in Updates : u < v /\ IsSent(s, v) => Numbered(s, u, v)
  /\ \A u \in Updates : IsKept(s, u) => now <= s[u].at + KeptFor

\* An update in a batch was kept when the batch was fetched.
Fetched(s, r, now, u) ==
  /\ IsSent(s, u)
  /\ s[u].at <= r.fetched_at /\ r.fetched_at <= s[u].at + KeptFor
  /\ r.fetched_at <= now /\ now <= r.fetched_at + Patience

InHands(s, r, now) ==
  /\ r.batch = {} <=> r.phase \in {"polling", "sweeping"}
  /\ r.batch # {} => r.owner # 0
  /\ \A u \in r.batch : Fetched(s, r, now, u)

Distinguished(c, ps, b) ==
  /\ \A p \in Pollers : ps[p].owner <= b
  /\ \A p, q \in Pollers : ps[p].owner = ps[q].owner /\ ps[p].owner # 0 => p = q
  /\ \A i \in Ids : c[i].owner <= b

First(batch) == CHOOSE u \in batch : \A v \in batch : u <= v

Answering == {"claimed", "done", "not_done", "read"}

\* What is being answered was claimed since it was fetched.
HasClaim(s, c, r) ==
  r.phase \in Answering =>
    /\ c[s[First(r.batch)].id].owner = r.owner
    /\ r.fetched_at <= c[s[First(r.batch)].id].at
    /\ c[s[First(r.batch)].id].at <= r.fetched_at + Patience

\* The claim on an update, taken while it could be in hand, is still proof.
Backed(s, c, now, u) ==
  /\ c[s[u].id].owner # 0
  /\ s[u].at <= c[s[u].id].at /\ c[s[u].id].at <= s[u].at + KeptFor + Patience
  /\ now <= c[s[u].id].at + Remembered

\* What was answered was claimed, and still is.
Proven(s, c, a, now) ==
  \A u \in Updates : a[u] # 0 => IsSent(s, u) /\ Backed(s, c, now, u)

\* A process that has an answered update in its batch has not claimed it; one
\* that has claimed it confirms it with its next poll.
NotAgain(s, c, r, a) ==
  \A u \in r.batch : a[u] # 0 => c[s[u].id].owner # r.owner

Confirms(s, c, r, a) ==
  \A u \in Updates : a[u] # 0 /\ IsKept(s, u) /\ r.owner # 0 /\ c[s[u].id].owner = r.owner =>
    /\ \E w \in Updates : u <= w /\ IsSent(s, w) /\ r.offset = s[w].id + 1
    /\ \A x \in r.batch : u < x

Once(a) == \A u \in Updates : a[u] <= 1

Good(s, c, ps, a, now, b) ==
  /\ Typed(s, c, ps, a, now, b)
  /\ Ordered(s, now)
  /\ Distinguished(c, ps, b)
  /\ Proven(s, c, a, now)
  /\ Once(a)
  /\ \A p \in Pollers : /\ InHands(s, ps[p], now)
                        /\ HasClaim(s, c, ps[p])
                        /\ NotAgain(s, c, ps[p], a)
                        /\ Confirms(s, c, ps[p], a)

\* The answers to updates so young that the claims on them are remembered.
Young ==
  [u \in Updates |-> IF clock <= sent[u].at + Remembered THEN answers[u] ELSE 0]

Counted ==
  /\ answers \in [Updates -> Nat]
  /\ \A u \in Updates : answers[u] # 0 => IsSent(sent, u)

Inv == Counted /\ Good(sent, claims, pollers, Young, clock, born)
-----------------------------------------------------------------------------
\* Facts about the updates that matter.

Earlier == {uv \in Nat \X Nat : uv[1] < uv[2]}

LEMMA FirstIs ==
  ASSUME NEW batch \in SUBSET Updates, batch # {}
  PROVE  First(batch) \in batch /\ \A v \in batch : First(batch) <= v
<1>1. batch \in SUBSET Nat
  BY InboxAssumption DEF Updates
<1>2. IsWellFoundedOn(Earlier, Nat)
  BY NatLessThanWellFounded DEF OpToRel, Earlier
<1>3. PICK u \in batch : \A v \in batch : ~(<<v, u>> \in Earlier)
  BY <1>1, <1>2, WFMin
<1>4. ASSUME NEW v \in batch
      PROVE  u <= v
  <2>1. u \in Nat /\ v \in Nat /\ ~(<<v, u>> \in Earlier)
    BY <1>1, <1>3
  <2>2. v < u => <<v, u>> \in Earlier
    <3>1. \A uv : uv \in Earlier <=> uv \in Nat \X Nat /\ uv[1] < uv[2]
      BY DEF Earlier
    <3>2. <<v, u>> \in Nat \X Nat /\ <<v, u>>[1] = v /\ <<v, u>>[2] = u
      BY <2>1
    <3> QED
      BY <3>1, <3>2
  <2> QED
    BY <2>1, <2>2
<1> QED
  BY <1>3, <1>4 DEF First

\* Since it was sent no quiet week can have passed: its id is its own.
Recent(s, now, u) == IsSent(s, u) /\ now < s[u].at + QuietFor

LEMMA KeptIsRecent ==
  ASSUME NEW s \in [Updates -> SentRecord], NEW now \in Nat, Ordered(s, now),
         NEW u \in Updates, IsKept(s, u)
  PROVE  Recent(s, now, u)
<1>1. now <= s[u].at + KeptFor /\ s[u].at \in Nat
  BY DEF Ordered, SentRecord
<1> QED
  BY <1>1, InboxAssumption DEF Recent, IsKept, IsSent

LEMMA InBatchIsRecent ==
  ASSUME NEW s \in [Updates -> SentRecord], NEW now \in Nat,
         NEW r \in PollerRecord, InHands(s, r, now), NEW u \in r.batch
  PROVE  Recent(s, now, u)
<1>1. u \in Updates /\ r.fetched_at \in Nat /\ s[u].at \in Nat
  BY DEF PollerRecord, SentRecord
<1>2. Fetched(s, r, now, u)
  BY DEF InHands
<1> QED
  BY <1>1, <1>2, InboxAssumption DEF Recent, Fetched

LEMMA BackedIsRecent ==
  ASSUME NEW s \in [Updates -> SentRecord], NEW now \in Nat, NEW c \in [Ids -> ClaimRecord],
         Ordered(s, now), NEW u \in Updates, IsSent(s, u), Backed(s, c, now, u)
  PROVE  /\ Recent(s, now, u) /\ s[u].id \in Ids /\ c[s[u].id].at \in Nat
         /\ now - Remembered <= c[s[u].id].at
<1>1. s[u].id \in Ids /\ s[u].at \in Nat
  BY DEF Ordered, SentRecord
<1>2. c[s[u].id].at \in Nat
  BY <1>1 DEF ClaimRecord
<1> QED
  BY <1>1, <1>2, InboxAssumption DEF Backed, Recent

LEMMA RecentInOrder ==
  ASSUME NEW s \in [Updates -> SentRecord], NEW now \in Nat, Ordered(s, now),
         NEW u \in Updates, NEW v \in Updates, u < v, Recent(s, now, u), IsSent(s, v)
  PROVE  s[u].id < s[v].id
<1>1. Numbered(s, u, v) /\ s[v].at <= now
  BY DEF Ordered
<1>2. s[u].at \in Nat /\ s[v].at \in Nat
  BY DEF SentRecord
<1> QED
  BY <1>1, <1>2, InboxAssumption DEF Numbered, Recent

\* Of one id only one is recent.
LEMMA RecentIsOne ==
  ASSUME NEW s \in [Updates -> SentRecord], NEW now \in Nat, Ordered(s, now),
         NEW u \in Updates, NEW v \in Updates, Recent(s, now, u), Recent(s, now, v),
         s[u].id = s[v].id
  PROVE  u = v
<1>1. IsSent(s, u) /\ IsSent(s, v) /\ s[u].id \in Nat /\ u \in Nat /\ v \in Nat
  BY InboxAssumption DEF Recent, SentRecord, Updates
<1>2. ~(u < v)
  BY <1>1, RecentInOrder
<1>3. ~(v < u)
  BY <1>1, RecentInOrder
<1> QED
  BY <1>1, <1>2, <1>3

\* What is being answered is claimed for good, and was not answered before.
LEMMA AnsweringIsClaimed ==
  ASSUME NEW s, NEW c, NEW ps, NEW a, NEW now, NEW b, Good(s, c, ps, a, now, b),
         NEW p \in Pollers, ps[p].phase \in Answering
  PROVE  /\ First(ps[p].batch) \in ps[p].batch /\ First(ps[p].batch) \in Updates
         /\ \A v \in ps[p].batch : First(ps[p].batch) <= v
         /\ s[First(ps[p].batch)].id \in Ids /\ Recent(s, now, First(ps[p].batch))
         /\ IsSent(s, First(ps[p].batch)) /\ Backed(s, c, now, First(ps[p].batch))
         /\ ps[p].owner # 0 /\ c[s[First(ps[p].batch)].id].owner = ps[p].owner
         /\ now - Remembered <= c[s[First(ps[p].batch)].id].at
         /\ a[First(ps[p].batch)] = 0
<1> DEFINE f == First(ps[p].batch)
<1>1. /\ Typed(s, c, ps, a, now, b) /\ Ordered(s, now) /\ Proven(s, c, a, now)
      /\ InHands(s, ps[p], now) /\ HasClaim(s, c, ps[p]) /\ NotAgain(s, c, ps[p], a)
  BY DEF Good
<1>2. ps[p] \in PollerRecord /\ ps[p].batch \in SUBSET Updates /\ ps[p].batch # {}
      /\ ps[p].fetched_at \in Nat
  BY <1>1 DEF Typed, InHands, PollerRecord, Answering
<1>3. f \in ps[p].batch /\ f \in Updates /\ \A v \in ps[p].batch : f <= v
  BY <1>2, FirstIs
<1>4. Recent(s, now, f) /\ IsSent(s, f) /\ s[f].id \in Ids /\ s[f].at \in Nat /\ now \in Nat
      /\ Fetched(s, ps[p], now, f)
  BY <1>1, <1>2, <1>3, InBatchIsRecent DEF Typed, Ordered, Recent, SentRecord, InHands
<1>5. /\ c[s[f].id].owner = ps[p].owner /\ ps[p].owner # 0
      /\ ps[p].fetched_at <= c[s[f].id].at /\ c[s[f].id].at <= ps[p].fetched_at + Patience
      /\ c[s[f].id].at \in Nat
  BY <1>1, <1>2, <1>4 DEF HasClaim, InHands, Typed, ClaimRecord
<1>6. Backed(s, c, now, f)
  BY <1>2, <1>4, <1>5, InboxAssumption DEF Backed, Fetched
<1>7. now - Remembered <= c[s[f].id].at
  BY <1>4, <1>5, <1>6, InboxAssumption DEF Backed
<1>8. a[f] = 0
  BY <1>1, <1>3, <1>5 DEF NotAgain
<1> QED
  BY <1>3, <1>4, <1>5, <1>6, <1>7, <1>8

\* The same holds of fewer answers.
LEMMA FewerGood ==
  ASSUME NEW s, NEW c, NEW ps, NEW a, NEW now, NEW b, Good(s, c, ps, a, now, b),
         NEW e \in [Updates -> Nat], \A u \in Updates : e[u] <= a[u]
  PROVE  Good(s, c, ps, e, now, b)
<1>1. Typed(s, c, ps, a, now, b) /\ Ordered(s, now) /\ Distinguished(c, ps, b)
      /\ Proven(s, c, a, now) /\ Once(a)
  BY DEF Good
<1>2. \A u \in Updates : e[u] \in Nat /\ a[u] \in Nat
  BY <1>1 DEF Typed
<1>3. \A u \in Updates : /\ e[u] # 0 => a[u] # 0
                         /\ a[u] <= 1 => e[u] <= 1
  BY <1>2
<1>4. Typed(s, c, ps, e, now, b) /\ Proven(s, c, e, now) /\ Once(e)
  BY <1>1, <1>3 DEF Typed, Proven, Once
<1>5. ASSUME NEW p \in Pollers
      PROVE  /\ InHands(s, ps[p], now) /\ HasClaim(s, c, ps[p])
             /\ NotAgain(s, c, ps[p], e) /\ Confirms(s, c, ps[p], e)
  <2>1. /\ InHands(s, ps[p], now) /\ HasClaim(s, c, ps[p])
        /\ NotAgain(s, c, ps[p], a) /\ Confirms(s, c, ps[p], a)
        /\ ps[p].batch \in SUBSET Updates
    BY <1>1 DEF Good, Typed, PollerRecord
  <2>2. NotAgain(s, c, ps[p], e)
    BY <1>3, <2>1 DEF NotAgain
  <2>3. Confirms(s, c, ps[p], e)
    BY <1>3, <2>1 DEF Confirms
  <2> QED
    BY <2>1, <2>2, <2>3
<1> QED
  BY <1>1, <1>4, <1>5 DEF Good
-----------------------------------------------------------------------------
\* What a step may do to the claims, to one poller, to what Telegram has.

\* Claims change that matter to nobody's answers.
LEMMA ClaimsChange ==
  ASSUME NEW s, NEW c, NEW ps, NEW a, NEW now, NEW b, Good(s, c, ps, a, now, b),
         NEW d \in [Ids -> ClaimRecord], \A i \in Ids : d[i].owner <= b,
         \A u \in Updates : a[u] # 0 => d[s[u].id] = c[s[u].id],
         \A p \in Pollers : ps[p].phase \in Answering =>
           d[s[First(ps[p].batch)].id] = c[s[First(ps[p].batch)].id]
  PROVE  Good(s, d, ps, a, now, b)
<1>1. /\ Typed(s, c, ps, a, now, b) /\ Ordered(s, now)
      /\ Distinguished(c, ps, b) /\ Proven(s, c, a, now) /\ Once(a)
  BY DEF Good
<1>2. Typed(s, d, ps, a, now, b) /\ Distinguished(d, ps, b) /\ Proven(s, d, a, now)
  BY <1>1 DEF Typed, Distinguished, Proven, Backed
<1>3. ASSUME NEW p \in Pollers
      PROVE  /\ InHands(s, ps[p], now) /\ HasClaim(s, d, ps[p])
             /\ NotAgain(s, d, ps[p], a) /\ Confirms(s, d, ps[p], a)
  <2>1. /\ InHands(s, ps[p], now) /\ HasClaim(s, c, ps[p])
        /\ NotAgain(s, c, ps[p], a) /\ Confirms(s, c, ps[p], a)
    BY DEF Good
  <2>2. /\ ps[p] \in PollerRecord /\ ps[p].batch \in SUBSET Updates
        /\ s \in [Updates -> SentRecord] /\ now \in Nat
    BY <1>1 DEF Typed, PollerRecord
  <2>3. HasClaim(s, d, ps[p])
    BY <2>1 DEF HasClaim
  <2>4. NotAgain(s, d, ps[p], a)
    BY <2>1, <2>2 DEF NotAgain
  <2>5. Confirms(s, d, ps[p], a)
    BY <2>1 DEF Confirms
  <2> QED
    BY <2>1, <2>3, <2>4, <2>5
<1> QED
  BY <1>1, <1>2, <1>3 DEF Good

\* Nobody takes the claim of what another one is answering.
LEMMA OthersAreSafe ==
  ASSUME NEW s, NEW c, NEW ps, NEW a, NEW now, NEW b, Good(s, c, ps, a, now, b),
         NEW p \in Pollers, NEW q \in Pollers, p # q, ps[q].phase \in Answering,
         NEW id \in Ids, c[id].owner \in {0, ps[p].owner} \/ c[id].at < now - Remembered
  PROVE  s[First(ps[q].batch)].id # id
<1> DEFINE g == First(ps[q].batch)
<1>1. /\ ps[q].owner # 0 /\ c[s[g].id].owner = ps[q].owner
      /\ now - Remembered <= c[s[g].id].at
  BY AnsweringIsClaimed
<1>2. Distinguished(c, ps, b) /\ c \in [Ids -> ClaimRecord] /\ now \in Nat
  BY DEF Good, Typed
<1>3. ps[q].owner # ps[p].owner
  BY <1>1, <1>2 DEF Distinguished
<1>4. c[id].at \in Nat
  BY <1>2 DEF ClaimRecord
<1> HIDE DEF g
<1>5. s[g].id # id
  BY <1>1, <1>2, <1>3, <1>4, InboxAssumption
<1> QED
  BY <1>5 DEF g

\* A process takes a claim it may take.
LEMMA ClaimTaken ==
  ASSUME NEW s, NEW c, NEW ps, NEW a, NEW now, NEW b, Good(s, c, ps, a, now, b),
         NEW p \in Pollers, ps[p].phase = "settling",
         NEW f, f = First(ps[p].batch), NEW claim \in ClaimRecord,
         claim.owner = ps[p].owner, claim.at = now,
         c[s[f].id].owner \in {0, ps[p].owner} \/ c[s[f].id].at < now - Remembered
  PROVE  /\ f \in ps[p].batch /\ s[f].id \in Ids
         /\ Good(s, [c EXCEPT ![s[f].id] = claim], ps, a, now, b)
<1> DEFINE id == s[f].id
           d == [c EXCEPT ![id] = claim]
<1>1. /\ Typed(s, c, ps, a, now, b) /\ Ordered(s, now) /\ Distinguished(c, ps, b)
      /\ Proven(s, c, a, now) /\ InHands(s, ps[p], now) /\ NotAgain(s, c, ps[p], a)
  BY DEF Good
<1>2. /\ s \in [Updates -> SentRecord] /\ c \in [Ids -> ClaimRecord] /\ now \in Nat
      /\ a \in [Updates -> Nat] /\ ps \in [Pollers -> PollerRecord]
      /\ ps[p] \in PollerRecord /\ ps[p].batch \in SUBSET Updates /\ ps[p].batch # {}
  BY <1>1 DEF Typed, InHands, PollerRecord
<1>3. f \in ps[p].batch /\ f \in Updates
  BY <1>2, FirstIs
<1>4. Recent(s, now, f) /\ id \in Ids /\ ps[p].owner # 0
  BY <1>1, <1>2, <1>3, InBatchIsRecent DEF InHands, Ordered, Recent
<1>5. c[id].at \in Nat
  BY <1>2, <1>4 DEF ClaimRecord
<1>6. ASSUME NEW u \in Updates, a[u] # 0
      PROVE  s[u].id # id /\ s[u].id \in Ids
  <2>1. IsSent(s, u) /\ Backed(s, c, now, u)
    BY <1>1, <1>6 DEF Proven
  <2>2. Recent(s, now, u) /\ s[u].id \in Ids /\ now - Remembered <= c[s[u].id].at
    BY <1>1, <1>2, <2>1, BackedIsRecent
  <2> SUFFICES ASSUME s[u].id = id
               PROVE  FALSE
    BY <2>2
  <2>3. u = f
    BY <1>1, <1>2, <1>3, <1>4, <2>2, RecentIsOne
  <2>4. c[id].owner # 0 /\ now - Remembered <= c[id].at
    BY <2>1, <2>2 DEF Backed
  <2>5. c[id].owner = ps[p].owner
    BY <1>2, <1>5, <2>4, InboxAssumption
  <2> QED
    BY <1>1, <1>3, <1>6, <2>3, <2>5 DEF NotAgain
<1>7. ASSUME NEW q \in Pollers, ps[q].phase \in Answering
      PROVE  s[First(ps[q].batch)].id # id
  <2>1. q # p
    BY <1>7 DEF Answering
  <2> QED
    BY <1>4, <1>7, <2>1, OthersAreSafe
<1>8. /\ d \in [Ids -> ClaimRecord] /\ d[id] = claim
      /\ \A i \in Ids : i # id => d[i] = c[i]
  BY <1>2, <1>4
<1> HIDE DEF d
<1>9. \A i \in Ids : d[i].owner <= b
  BY <1>1, <1>8 DEF Distinguished
<1>10. \A u \in Updates : a[u] # 0 => d[s[u].id] = c[s[u].id]
  BY <1>6, <1>8
<1>11. \A q \in Pollers : ps[q].phase \in Answering =>
         d[s[First(ps[q].batch)].id] = c[s[First(ps[q].batch)].id]
  <2> SUFFICES ASSUME NEW q \in Pollers, ps[q].phase \in Answering
               PROVE  d[s[First(ps[q].batch)].id] = c[s[First(ps[q].batch)].id]
    OBVIOUS
  <2>1. s[First(ps[q].batch)].id \in Ids
    BY AnsweringIsClaimed
  <2> QED
    BY <1>7, <1>8, <2>1
<1>12. Good(s, d, ps, a, now, b)
  BY <1>8, <1>9, <1>10, <1>11, ClaimsChange
<1> QED
  BY <1>3, <1>4, <1>12 DEF d

LEMMA ClaimsForgotten ==
  ASSUME NEW s, NEW c, NEW ps, NEW a, NEW now, NEW b, Good(s, c, ps, a, now, b),
         NEW d, d = [i \in Ids |-> IF c[i].at < now - Remembered THEN NoClaim ELSE c[i]]
  PROVE  Good(s, d, ps, a, now, b)
<1>1. /\ Typed(s, c, ps, a, now, b) /\ Ordered(s, now) /\ Distinguished(c, ps, b)
      /\ Proven(s, c, a, now)
  BY DEF Good
<1>2. /\ s \in [Updates -> SentRecord] /\ c \in [Ids -> ClaimRecord] /\ now \in Nat /\ b \in Nat
      /\ a \in [Updates -> Nat] /\ Remembered \in Nat
  BY <1>1, InboxAssumption DEF Typed
<1>3. \A i \in Ids : c[i].at \in Nat /\ c[i].owner \in Nat
  BY <1>2 DEF ClaimRecord
<1>4. NoClaim \in ClaimRecord /\ NoClaim.owner = 0
  BY DEF NoClaim, ClaimRecord
<1>5. /\ d \in [Ids -> ClaimRecord]
      /\ \A i \in Ids : \/ d[i] = c[i]
                        \/ d[i] = NoClaim /\ c[i].at < now - Remembered
  BY <1>2, <1>4
<1>6. \A i \in Ids : d[i].owner <= b
  BY <1>1, <1>2, <1>4, <1>5 DEF Distinguished
<1>7. \A i \in Ids : now - Remembered <= c[i].at => d[i] = c[i]
  BY <1>2, <1>3, <1>5
<1>8. ASSUME NEW u \in Updates, a[u] # 0
       PROVE  d[s[u].id] = c[s[u].id]
  <2>1. now - Remembered <= c[s[u].id].at /\ s[u].id \in Ids
    BY <1>1, <1>2, <1>8, BackedIsRecent DEF Proven
  <2> QED
    BY <1>7, <2>1
<1>9. ASSUME NEW p \in Pollers, ps[p].phase \in Answering
       PROVE  d[s[First(ps[p].batch)].id] = c[s[First(ps[p].batch)].id]
  <2>1. s[First(ps[p].batch)].id \in Ids /\ now - Remembered <= c[s[First(ps[p].batch)].id].at
    BY <1>9, AnsweringIsClaimed
  <2> QED
    BY <1>7, <2>1
<1> QED
  BY <1>5, <1>6, <1>8, <1>9, ClaimsChange
\* One poller changes, and the number of processes born.
LEMMA PollerChange ==
  ASSUME NEW s, NEW c, NEW ps, NEW a, NEW now, NEW b, Good(s, c, ps, a, now, b),
         NEW p \in Pollers, NEW r \in PollerRecord, NEW n \in Nat, b <= n,
         r.owner <= n, r.owner = ps[p].owner \/ b < r.owner,
         InHands(s, r, now), HasClaim(s, c, r), NotAgain(s, c, r, a), Confirms(s, c, r, a)
  PROVE  Good(s, c, [ps EXCEPT ![p] = r], a, now, n)
<1> DEFINE new == [ps EXCEPT ![p] = r]
<1>1. /\ Typed(s, c, ps, a, now, b) /\ Ordered(s, now) /\ Distinguished(c, ps, b)
      /\ Proven(s, c, a, now) /\ Once(a)
      /\ \A q \in Pollers : /\ InHands(s, ps[q], now) /\ HasClaim(s, c, ps[q])
                            /\ NotAgain(s, c, ps[q], a) /\ Confirms(s, c, ps[q], a)
  BY DEF Good
<1>2. /\ ps \in [Pollers -> PollerRecord] /\ b \in Nat
      /\ \A q \in Pollers : ps[q].owner \in Nat
      /\ \A i \in Ids : c[i].owner \in Nat
  BY <1>1 DEF Typed, PollerRecord, ClaimRecord
<1>3. /\ new \in [Pollers -> PollerRecord] /\ new[p] = r
      /\ \A q \in Pollers : q # p => new[q] = ps[q]
  BY <1>2
<1> HIDE DEF new
<1>4. Typed(s, c, new, a, now, n)
  BY <1>1, <1>3 DEF Typed
<1>5. Distinguished(c, new, n)
  <2>1. \A q \in Pollers : new[q].owner <= n
    BY <1>1, <1>2, <1>3 DEF Distinguished
  <2>2. ASSUME NEW q \in Pollers, new[q].owner = r.owner, r.owner # 0
        PROVE  q = p
    <3> SUFFICES ASSUME q # p
                 PROVE  FALSE
      OBVIOUS
    <3>1. ps[q].owner = r.owner /\ ps[q].owner <= b
      BY <1>1, <1>3, <2>2 DEF Distinguished
    <3>2. r.owner = ps[p].owner
      BY <1>2, <3>1
    <3> QED
      BY <1>1, <2>2, <3>1, <3>2 DEF Distinguished
  <2>3. ASSUME NEW q \in Pollers, NEW o \in Pollers, new[q].owner = new[o].owner,
               new[q].owner # 0
        PROVE  q = o
    <3>1. CASE q = p
      BY <1>3, <2>2, <2>3, <3>1
    <3>2. CASE o = p
      BY <1>3, <2>2, <2>3, <3>2
    <3>3. CASE q # p /\ o # p
      BY <1>1, <1>3, <2>3, <3>3 DEF Distinguished
    <3> QED
      BY <3>1, <3>2, <3>3
  <2>4. \A i \in Ids : c[i].owner <= n
    BY <1>1, <1>2 DEF Distinguished
  <2> QED
    BY <2>1, <2>3, <2>4 DEF Distinguished
<1>6. ASSUME NEW q \in Pollers
      PROVE  /\ InHands(s, new[q], now) /\ HasClaim(s, c, new[q])
             /\ NotAgain(s, c, new[q], a) /\ Confirms(s, c, new[q], a)
  <2>1. CASE q = p
    BY <1>3, <2>1
  <2>2. CASE q # p
    BY <1>1, <1>3, <2>2
  <2> QED
    BY <2>1, <2>2
<1>7. Good(s, c, new, a, now, n)
  BY <1>1, <1>4, <1>5, <1>6 DEF Good
<1> QED
  BY <1>7 DEF new

\* A poller goes on with what is in its hands, or lets go of some of it; its
\* offset stays or goes past the first of it.
LEMMA PollerGoes ==
  ASSUME NEW s, NEW c, NEW ps, NEW a, NEW now, NEW b, Good(s, c, ps, a, now, b),
         NEW p \in Pollers, NEW r \in PollerRecord,
         r.owner = ps[p].owner, r.batch \subseteq ps[p].batch,
         r.batch = {} <=> r.phase \in {"polling", "sweeping"},
         r.batch # {} => r.fetched_at = ps[p].fetched_at,
         HasClaim(s, c, r),
         \/ r.offset = ps[p].offset
         \/ ps[p].batch # {} /\ r.offset = s[First(ps[p].batch)].id + 1
  PROVE  Good(s, c, [ps EXCEPT ![p] = r], a, now, b)
<1>1. /\ Typed(s, c, ps, a, now, b) /\ Distinguished(c, ps, b)
      /\ InHands(s, ps[p], now) /\ NotAgain(s, c, ps[p], a) /\ Confirms(s, c, ps[p], a)
  BY DEF Good
<1>2. ps[p] \in PollerRecord /\ ps[p].batch \in SUBSET Updates /\ b \in Nat
  BY <1>1 DEF Typed, PollerRecord
<1>3. InHands(s, r, now)
  BY <1>1 DEF InHands, Fetched
<1>4. NotAgain(s, c, r, a)
  BY <1>1 DEF NotAgain
<1>5. Confirms(s, c, r, a)
  <2> SUFFICES ASSUME NEW u \in Updates, a[u] # 0, IsKept(s, u), r.owner # 0,
                      c[s[u].id].owner = r.owner
               PROVE  /\ \E w \in Updates : u <= w /\ IsSent(s, w) /\ r.offset = s[w].id + 1
                      /\ \A x \in r.batch : u < x
    BY DEF Confirms
  <2>1. /\ \E w \in Updates : u <= w /\ IsSent(s, w) /\ ps[p].offset = s[w].id + 1
        /\ \A x \in ps[p].batch : u < x
    BY <1>1 DEF Confirms
  <2>2. CASE r.offset = ps[p].offset
    BY <2>1, <2>2
  <2>3. CASE ps[p].batch # {} /\ r.offset = s[First(ps[p].batch)].id + 1
    <3>1. First(ps[p].batch) \in ps[p].batch
      BY <1>2, <2>3, FirstIs
    <3>2. u < First(ps[p].batch) /\ First(ps[p].batch) \in Updates /\ u \in Nat
          /\ First(ps[p].batch) \in Nat
      BY <1>2, <2>1, <3>1, InboxAssumption DEF Updates
    <3>3. IsSent(s, First(ps[p].batch))
      BY <1>1, <3>1 DEF InHands, Fetched
    <3> QED
      BY <2>1, <2>3, <3>2, <3>3
  <2> QED
    BY <2>2, <2>3
<1>6. r.owner <= b
  BY <1>1 DEF Distinguished
<1> QED
  BY <1>2, <1>3, <1>4, <1>5, <1>6, PollerChange

\* What is in hand is answered.
LEMMA FirstAnswered ==
  ASSUME NEW s, NEW c, NEW ps, NEW a, NEW now, NEW b, Good(s, c, ps, a, now, b),
         NEW p \in Pollers, ps[p].phase \in Answering,
         NEW f, f = First(ps[p].batch),
         NEW r \in PollerRecord, r.phase \notin Answering,
         r.owner = ps[p].owner, r.batch = ps[p].batch \ {f},
         r.batch = {} <=> r.phase \in {"polling", "sweeping"},
         r.batch # {} => r.fetched_at = ps[p].fetched_at,
         r.offset = s[f].id + 1
  PROVE  Good(s, c, [ps EXCEPT ![p] = r], [a EXCEPT ![f] = @ + 1], now, b)
<1> DEFINE new == [ps EXCEPT ![p] = r]
           ans == [a EXCEPT ![f] = @ + 1]
<1>1. /\ f \in ps[p].batch /\ f \in Updates
      /\ \A v \in ps[p].batch : f <= v
      /\ s[f].id \in Ids /\ IsSent(s, f) /\ Backed(s, c, now, f)
      /\ ps[p].owner # 0 /\ c[s[f].id].owner = ps[p].owner
      /\ a[f] = 0
  BY AnsweringIsClaimed
<1>2. HasClaim(s, c, r)
  BY DEF HasClaim
<1>3. Good(s, c, new, a, now, b)
  BY <1>1, <1>2, PollerGoes
<1>4. /\ Typed(s, c, new, a, now, b) /\ Ordered(s, now) /\ Distinguished(c, new, b)
      /\ Proven(s, c, a, now) /\ Once(a)
      /\ \A q \in Pollers : /\ InHands(s, new[q], now) /\ HasClaim(s, c, new[q])
                            /\ NotAgain(s, c, new[q], a) /\ Confirms(s, c, new[q], a)
  <2> HIDE DEF new
  <2> QED
    BY <1>3 DEF Good
<1>5. /\ ps \in [Pollers -> PollerRecord] /\ a \in [Updates -> Nat]
      /\ ps[p].batch \in SUBSET Updates /\ Updates \subseteq Nat
  <2>1. ps \in [Pollers -> PollerRecord] /\ a \in [Updates -> Nat]
    BY DEF Good, Typed
  <2>2. Updates \subseteq Nat
    BY InboxAssumption DEF Updates
  <2> QED
    BY <2>1, <2>2 DEF PollerRecord
<1>6. /\ new[p] = r
      /\ \A q \in Pollers : q # p => new[q] = ps[q]
      /\ ans \in [Updates -> Nat] /\ ans[f] = 1
      /\ \A u \in Updates : u # f => ans[u] = a[u]
  BY <1>1, <1>5
<1>7. ASSUME NEW u \in r.batch
      PROVE  f < u
  <2>1. u \in ps[p].batch /\ u # f /\ u \in Nat /\ f \in Nat /\ f <= u
    BY <1>1, <1>5
  <2> QED
    BY <2>1
<1> HIDE DEF new, ans
<1>8. Typed(s, c, new, ans, now, b) /\ Once(ans)
  BY <1>4, <1>6 DEF Typed, Once
<1>9. Proven(s, c, ans, now)
  <2> SUFFICES ASSUME NEW u \in Updates, ans[u] # 0
               PROVE  IsSent(s, u) /\ Backed(s, c, now, u)
    BY DEF Proven
  <2>1. CASE u = f
    BY <1>1, <2>1
  <2>2. CASE u # f
    BY <1>4, <1>6, <2>2 DEF Proven
  <2> QED
    BY <2>1, <2>2
<1>10. ASSUME NEW q \in Pollers
       PROVE  NotAgain(s, c, new[q], ans) /\ Confirms(s, c, new[q], ans)
  <2>1. NotAgain(s, c, new[q], a) /\ Confirms(s, c, new[q], a)
    BY <1>4
  <2>2. CASE q # p
    <3>1. new[q].owner # c[s[f].id].owner
      BY <1>1, <1>4, <1>6, <2>2 DEF Distinguished
    <3> QED
      BY <1>6, <2>1, <3>1, <1>4 DEF NotAgain, Confirms, Typed, PollerRecord
  <2>3. CASE q = p
    <3>1. NotAgain(s, c, r, ans)
      BY <1>5, <1>6, <1>7, <2>1, <2>3 DEF NotAgain
    <3>2. ASSUME NEW u \in Updates, ans[u] # 0, IsKept(s, u), r.owner # 0,
                 c[s[u].id].owner = r.owner
          PROVE  /\ \E w \in Updates : u <= w /\ IsSent(s, w) /\ r.offset = s[w].id + 1
                 /\ \A x \in r.batch : u < x
      <4>1. CASE u = f
        BY <1>1, <1>5, <1>7, <4>1
      <4>2. CASE u # f
        BY <1>6, <2>1, <2>3, <3>2, <4>2 DEF Confirms
      <4> QED
        BY <4>1, <4>2
    <3>3. Confirms(s, c, r, ans)
      BY <3>2 DEF Confirms
    <3> QED
      BY <1>6, <2>3, <3>1, <3>3
  <2> QED
    BY <2>2, <2>3
<1>11. Good(s, c, new, ans, now, b)
  BY <1>4, <1>8, <1>9, <1>10 DEF Good
<1> QED
  BY <1>11 DEF new, ans
\* Telegram drops the oldest of what it keeps.
LEMMA OldestDropped ==
  ASSUME NEW s, NEW c, NEW ps, NEW a, NEW now, NEW b, Good(s, c, ps, a, now, b),
         NEW d \in [Updates -> SentRecord],
         \A u \in Updates : \/ d[u] = s[u]
                            \/ IsKept(s, u) /\ d[u] = [s[u] EXCEPT !.state = "gone"],
         \A u, v \in Updates : u < v /\ IsKept(d, u) /\ IsKept(s, v) => IsKept(d, v)
  PROVE  Good(d, c, ps, a, now, b)
<1>1. /\ Typed(s, c, ps, a, now, b) /\ Ordered(s, now) /\ Distinguished(c, ps, b)
      /\ Proven(s, c, a, now) /\ Once(a)
  BY DEF Good
<1>2. s \in [Updates -> SentRecord]
  BY <1>1 DEF Typed
<1>3. \A u \in Updates : /\ d[u].id = s[u].id /\ d[u].at = s[u].at
                         /\ IsSent(d, u) <=> IsSent(s, u)
                         /\ IsKept(d, u) => IsKept(s, u)
  BY <1>2 DEF SentRecord, IsSent, IsKept
<1>4. Typed(d, c, ps, a, now, b)
  BY <1>1 DEF Typed
<1>5. Ordered(d, now)
  <2>1. ASSUME NEW u \in Updates, NEW v \in Updates, u < v, IsSent(d, v)
        PROVE  Numbered(d, u, v)
    <3>1. Numbered(s, u, v)
      BY <1>1, <1>3, <2>1 DEF Ordered
    <3>2. IsKept(d, u) => IsKept(d, v)
      BY <1>3, <2>1, <3>1 DEF Numbered
    <3> QED
      BY <1>3, <3>1, <3>2 DEF Numbered
  <2>2. \A u \in Updates : IsSent(d, u) => d[u].at <= now /\ d[u].id \in Ids
    BY <1>1, <1>3 DEF Ordered
  <2>3. \A u \in Updates : IsKept(d, u) => now <= d[u].at + KeptFor
    BY <1>1, <1>3 DEF Ordered
  <2> QED
    BY <2>1, <2>2, <2>3 DEF Ordered
<1>6. Proven(d, c, a, now)
  BY <1>1, <1>3 DEF Proven, Backed
<1>7. ASSUME NEW p \in Pollers
      PROVE  /\ InHands(d, ps[p], now) /\ HasClaim(d, c, ps[p])
             /\ NotAgain(d, c, ps[p], a) /\ Confirms(d, c, ps[p], a)
  <2>1. /\ InHands(s, ps[p], now) /\ HasClaim(s, c, ps[p])
        /\ NotAgain(s, c, ps[p], a) /\ Confirms(s, c, ps[p], a)
    BY DEF Good
  <2>2. ps[p].batch \in SUBSET Updates
    BY <1>1 DEF Typed, PollerRecord
  <2>3. InHands(d, ps[p], now)
    BY <1>3, <2>1, <2>2 DEF InHands, Fetched
  <2>4. HasClaim(d, c, ps[p])
    <3> SUFFICES ASSUME ps[p].phase \in Answering
                 PROVE  HasClaim(d, c, ps[p])
      BY DEF HasClaim
    <3>1. ps[p].batch # {}
      BY <2>1 DEF InHands, Answering
    <3>2. First(ps[p].batch) \in Updates
      BY <2>2, <3>1, FirstIs
    <3> QED
      BY <1>3, <2>1, <3>2 DEF HasClaim
  <2>5. NotAgain(d, c, ps[p], a)
    BY <1>3, <2>1, <2>2 DEF NotAgain
  <2>6. Confirms(d, c, ps[p], a)
    BY <1>3, <2>1 DEF Confirms
  <2> QED
    BY <2>3, <2>4, <2>5, <2>6
<1> QED
  BY <1>1, <1>4, <1>5, <1>6, <1>7 DEF Good

LEMMA TimePasses ==
  ASSUME NEW s, NEW c, NEW ps, NEW a, NEW now, NEW b, Good(s, c, ps, a, now, b),
         \A u \in Updates : IsKept(s, u) => now + 1 <= s[u].at + KeptFor,
         \A u \in Updates : a[u] # 0 => now + 1 <= c[s[u].id].at + Remembered,
         \A p \in Pollers : ps[p].batch # {} => now < ps[p].fetched_at + Patience
  PROVE  Good(s, c, ps, a, now + 1, b)
<1>1. /\ Typed(s, c, ps, a, now, b) /\ Ordered(s, now) /\ Distinguished(c, ps, b)
      /\ Proven(s, c, a, now) /\ Once(a)
  BY DEF Good
<1>2. now \in Nat /\ now + 1 \in Nat /\ s \in [Updates -> SentRecord]
      /\ \A u \in Updates : s[u].at \in Nat
  BY <1>1 DEF Typed, SentRecord
<1>3. Typed(s, c, ps, a, now + 1, b)
  BY <1>1, <1>2 DEF Typed
<1>4. Ordered(s, now + 1)
  BY <1>1, <1>2 DEF Ordered
<1>5. Proven(s, c, a, now + 1)
  BY <1>1 DEF Proven, Backed
<1>6. ASSUME NEW p \in Pollers
      PROVE  InHands(s, ps[p], now + 1)
  <2>1. InHands(s, ps[p], now) /\ ps[p].fetched_at \in Nat
    BY <1>1 DEF Good, Typed, PollerRecord
  <2>2. /\ ps[p].batch # {} => now + 1 <= ps[p].fetched_at + Patience
        /\ ps[p].fetched_at <= now => ps[p].fetched_at <= now + 1
    BY <1>2, <2>1, InboxAssumption
  <2> QED
    BY <2>1, <2>2 DEF InHands, Fetched
<1>7. \A p \in Pollers : /\ HasClaim(s, c, ps[p]) /\ NotAgain(s, c, ps[p], a)
                         /\ Confirms(s, c, ps[p], a)
  BY DEF Good
<1> QED
  BY <1>1, <1>3, <1>4, <1>5, <1>6, <1>7 DEF Good

\* Update u arrives.
LEMMA UpdateArrives ==
  ASSUME NEW s, NEW c, NEW ps, NEW a, NEW now, NEW b, Good(s, c, ps, a, now, b),
         NEW u \in Updates, ~IsSent(s, u), u > 1 => IsSent(s, u - 1),
         NEW id \in Ids,
         u > 1 => s[u - 1].at + QuietFor <= now \/ id = s[u - 1].id + 1
  PROVE  Good([s EXCEPT ![u] = [state |-> "kept", id |-> id, at |-> now]], c, ps, a, now, b)
<1> DEFINE d == [s EXCEPT ![u] = [state |-> "kept", id |-> id, at |-> now]]
<1>1. /\ Typed(s, c, ps, a, now, b) /\ Ordered(s, now) /\ Distinguished(c, ps, b)
      /\ Proven(s, c, a, now) /\ Once(a)
  BY DEF Good
<1>2. /\ s \in [Updates -> SentRecord] /\ now \in Nat /\ id \in Nat
      /\ Updates = 1 .. LastUpdate /\ LastUpdate \in Nat
  BY <1>1, InboxAssumption DEF Typed, Ids, Updates
<1>3. [state |-> "kept", id |-> id, at |-> now] \in SentRecord
  BY <1>2 DEF SentRecord
<1>4. /\ d \in [Updates -> SentRecord]
      /\ d[u].state = "kept" /\ d[u].id = id /\ d[u].at = now
      /\ \A v \in Updates : v # u => d[v] = s[v]
  BY <1>2, <1>3
<1> HIDE DEF d
<1>5. Typed(d, c, ps, a, now, b)
  BY <1>1, <1>4 DEF Typed
<1>6. \A v \in Updates : s[v].at \in Nat /\ s[v].id \in Nat
  BY <1>2 DEF SentRecord
<1>7. Ordered(d, now)
  <2>1. ASSUME NEW v \in Updates, IsSent(d, v)
        PROVE  d[v].at <= now /\ d[v].id \in Ids
    <3>1. CASE v = u
      BY <1>2, <1>4, <3>1
    <3>2. CASE v # u
      BY <1>1, <1>4, <2>1, <3>2 DEF Ordered, IsSent
    <3> QED
      BY <3>1, <3>2
  <2>2. ASSUME NEW v \in Updates, NEW w \in Updates, v < w, IsSent(d, w)
        PROVE  Numbered(d, v, w)
    <3>1. CASE w # u
      <4>1. IsSent(s, w) /\ d[w] = s[w] /\ Numbered(s, v, w)
        BY <1>1, <1>4, <2>2, <3>1 DEF Ordered, IsSent
      <4>2. v # u
        BY <4>1 DEF Numbered
      <4> QED
        BY <1>4, <4>1, <4>2 DEF Numbered, IsSent, IsKept
    <3>2. CASE w = u
      <4>1. /\ v \in Nat /\ u \in Nat /\ u > 1 /\ u - 1 \in Updates /\ v <= u - 1
            /\ IsSent(s, u - 1) /\ s[u - 1].at <= now
        BY <1>1, <1>2, <2>2, <3>2 DEF Ordered
      <4>2. /\ IsSent(s, v) /\ s[v].at <= s[u - 1].at
            /\ s[v].id <= s[u - 1].id \/ s[v].at + QuietFor <= s[u - 1].at
        <5>1. CASE v = u - 1
          BY <1>6, <4>1, <5>1
        <5>2. CASE v < u - 1
          <6>1. Numbered(s, v, u - 1)
            BY <1>1, <4>1, <5>2 DEF Ordered
          <6> QED
            BY <1>6, <4>1, <6>1 DEF Numbered
        <5> QED
          BY <4>1, <5>1, <5>2
      <4>3. s[v].at <= now /\ (s[v].id < id \/ s[v].at + QuietFor <= now)
        <5>1. s[u - 1].at \in Nat /\ s[u - 1].id \in Nat /\ s[v].at \in Nat /\ s[v].id \in Nat
          BY <1>6, <4>1
        <5>2. s[u - 1].at + QuietFor <= now \/ id = s[u - 1].id + 1
          BY <4>1
        <5>3. QuietFor \in Nat
          BY InboxAssumption
        <5>4. s[v].at <= s[u - 1].at /\ s[u - 1].at <= now
          BY <4>1, <4>2
        <5> DEFINE at == s[u - 1].at
                   before == s[u - 1].id
        <5> HIDE DEF at, before
        <5>5. /\ at \in Nat /\ before \in Nat /\ s[v].at <= at /\ at <= now
              /\ at + QuietFor <= now \/ id = before + 1
              /\ s[v].id <= before \/ s[v].at + QuietFor <= at
          BY <4>2, <5>1, <5>2, <5>4 DEF at, before
        <5> QED
          BY <1>2, <5>1, <5>3, <5>5
      <4>4. d[v] = s[v]
        BY <1>4, <4>1
      <4> QED
        BY <1>4, <3>2, <4>2, <4>3, <4>4 DEF Numbered, IsSent, IsKept
    <3> QED
      BY <3>1, <3>2
  <2>3. ASSUME NEW v \in Updates, IsKept(d, v)
        PROVE  now <= d[v].at + KeptFor
    <3>1. CASE v = u
      BY <1>2, <1>4, <3>1, InboxAssumption
    <3>2. CASE v # u
      BY <1>1, <1>4, <2>3, <3>2 DEF Ordered, IsKept
    <3> QED
      BY <3>1, <3>2
  <2> QED
    BY <2>1, <2>2, <2>3 DEF Ordered
<1>8. a[u] = 0
  BY <1>1 DEF Proven
<1>9. \A v \in Updates : a[v] # 0 => d[v] = s[v]
  BY <1>4, <1>8
<1>10. Proven(d, c, a, now)
  BY <1>1, <1>9 DEF Proven, Backed, IsSent
<1>11. ASSUME NEW p \in Pollers
       PROVE  /\ InHands(d, ps[p], now) /\ HasClaim(d, c, ps[p])
              /\ NotAgain(d, c, ps[p], a) /\ Confirms(d, c, ps[p], a)
  <2>1. /\ InHands(s, ps[p], now) /\ HasClaim(s, c, ps[p])
        /\ NotAgain(s, c, ps[p], a) /\ Confirms(s, c, ps[p], a)
    BY DEF Good
  <2>2. ps[p].batch \in SUBSET Updates
    BY <1>1 DEF Typed, PollerRecord
  <2>3. \A v \in ps[p].batch : d[v] = s[v]
    BY <1>4, <2>1, <2>2 DEF InHands, Fetched
  <2>4. InHands(d, ps[p], now)
    BY <2>1, <2>3 DEF InHands, Fetched, IsSent
  <2>5. HasClaim(d, c, ps[p])
    <3> SUFFICES ASSUME ps[p].phase \in Answering
                 PROVE  HasClaim(d, c, ps[p])
      BY DEF HasClaim
    <3>1. ps[p].batch # {}
      BY <2>1 DEF InHands, Answering
    <3>2. First(ps[p].batch) \in ps[p].batch
      BY <2>2, <3>1, FirstIs
    <3> QED
      BY <2>1, <2>3, <3>2 DEF HasClaim
  <2>6. NotAgain(d, c, ps[p], a)
    BY <2>1, <2>3 DEF NotAgain
  <2>7. Confirms(d, c, ps[p], a)
    <3> SUFFICES ASSUME NEW v \in Updates, a[v] # 0, IsKept(d, v), ps[p].owner # 0,
                        c[d[v].id].owner = ps[p].owner
                 PROVE  /\ \E w \in Updates : /\ v <= w /\ IsSent(d, w)
                                              /\ ps[p].offset = d[w].id + 1
                        /\ \A x \in ps[p].batch : v < x
      BY DEF Confirms
    <3>1. IsKept(s, v) /\ c[s[v].id].owner = ps[p].owner
      BY <1>9 DEF IsKept
    <3>2. PICK w \in Updates : v <= w /\ IsSent(s, w) /\ ps[p].offset = s[w].id + 1
      BY <2>1, <3>1 DEF Confirms
    <3>3. w # u /\ IsSent(d, w) /\ d[w] = s[w]
      BY <1>4, <3>2 DEF IsSent
    <3> QED
      BY <2>1, <3>1, <3>2, <3>3 DEF Confirms
  <2> QED
    BY <2>4, <2>5, <2>6, <2>7
<1>12. Good(d, c, ps, a, now, b)
  BY <1>1, <1>5, <1>7, <1>10, <1>11 DEF Good
<1> QED
  BY <1>12 DEF d
-----------------------------------------------------------------------------
\* What the steps of a process do to its poller.

LEMMA PollerIs ==
  ASSUME NEW c, NEW a, NEW now, NEW b, Good(sent, c, pollers, a, now, b), NEW p \in Pollers
  PROVE  /\ pollers \in [Pollers -> PollerRecord] /\ pollers[p] \in PollerRecord
         /\ pollers[p].batch \in SUBSET Updates
         /\ sent \in [Updates -> SentRecord]
         /\ InHands(sent, pollers[p], now)
         /\ InHand(p) = First(pollers[p].batch)
         /\ pollers[p].batch # {} => InHand(p) \in pollers[p].batch /\ InHand(p) \in Updates
<1>1. /\ pollers \in [Pollers -> PollerRecord] /\ sent \in [Updates -> SentRecord]
      /\ InHands(sent, pollers[p], now)
  BY DEF Good, Typed
<1>2. pollers[p] \in PollerRecord /\ pollers[p].batch \in SUBSET Updates
  BY <1>1 DEF PollerRecord
<1>3. InHand(p) = First(pollers[p].batch)
  BY DEF InHand, First
<1> QED
  BY <1>1, <1>2, <1>3, FirstIs

LEMMA HaltGoes ==
  ASSUME NEW c, NEW a, NEW now, NEW b, Good(sent, c, pollers, a, now, b),
         NEW p \in Pollers, Halt(p)
  PROVE  Good(sent, c, pollers', a, now, b)
<1> DEFINE r == [pollers[p] EXCEPT !.phase = "polling", !.batch = {}, !.fetched_at = 0,
                                   !.attempt = 0]
<1>1. pollers \in [Pollers -> PollerRecord] /\ pollers[p] \in PollerRecord
  BY PollerIs
<1>2. pollers' = [pollers EXCEPT ![p] = r]
  BY <1>1 DEF Halt
<1>3. /\ r \in PollerRecord /\ r.owner = pollers[p].owner /\ r.offset = pollers[p].offset
      /\ r.batch = {} /\ r.phase = "polling"
  BY <1>1 DEF PollerRecord, Phases
<1> HIDE DEF r
<1>4. HasClaim(sent, c, r)
  BY <1>3 DEF HasClaim, Answering
<1> QED
  BY <1>2, <1>3, <1>4, PollerGoes

LEMMA SettleIs ==
  ASSUME NEW c, NEW a, NEW now, NEW b, Good(sent, c, pollers, a, now, b), now = clock,
         NEW p \in Pollers, pollers[p].batch # {}, Settle(p)
  PROVE  \E r \in PollerRecord :
           /\ pollers' = [pollers EXCEPT ![p] = r]
           /\ r.owner = pollers[p].owner /\ r.batch = pollers[p].batch \ {InHand(p)}
           /\ r.batch = {} <=> r.phase \in {"polling", "sweeping"}
           /\ r.batch # {} => r.fetched_at = pollers[p].fetched_at
           /\ r.phase \notin Answering
           /\ r.offset = sent[InHand(p)].id + 1
<1> DEFINE rest == pollers[p].batch \ {InHand(p)}
           sweeps == rest = {} /\ SweepDue(p)
           offset == sent[InHand(p)].id + 1
           phase == IF sweeps THEN "sweeping" ELSE IF rest = {} THEN "polling" ELSE "settling"
           r == [pollers[p] EXCEPT !.offset = offset, !.batch = rest,
                                   !.fetched_at = IF rest = {} THEN 0 ELSE @,
                                   !.attempt = 0,
                                   !.swept = IF sweeps THEN clock ELSE @,
                                   !.phase = phase]
<1>1. /\ pollers \in [Pollers -> PollerRecord] /\ pollers[p] \in PollerRecord
      /\ pollers[p].batch \in SUBSET Updates /\ sent \in [Updates -> SentRecord]
      /\ InHand(p) \in Updates
  BY PollerIs
<1>2. clock \in Int /\ offset \in Nat /\ rest \in SUBSET Updates
  BY <1>1 DEF Good, Typed, SentRecord
<1>3. /\ phase \in Phases /\ phase \notin Answering
      /\ rest = {} <=> phase \in {"polling", "sweeping"}
  BY DEF Phases, Answering
<1>4. pollers' = [pollers EXCEPT ![p] = r]
  BY <1>1 DEF Settle
<1> HIDE DEF rest, sweeps, offset, phase
<1>5. /\ r \in PollerRecord /\ r.owner = pollers[p].owner /\ r.batch = rest
      /\ r.phase = phase /\ r.offset = offset
      /\ rest # {} => r.fetched_at = pollers[p].fetched_at
  BY <1>1, <1>2, <1>3 DEF PollerRecord
<1> HIDE DEF r
<1> QED
  BY <1>3, <1>4, <1>5 DEF rest, offset

LEMMA SettleGoes ==
  ASSUME NEW c, NEW a, NEW now, NEW b, Good(sent, c, pollers, a, now, b), now = clock,
         NEW p \in Pollers, pollers[p].batch # {}, Settle(p)
  PROVE  /\ Good(sent, c, pollers', a, now, b)
         /\ pollers[p].phase \in Answering =>
              Good(sent, c, pollers', [a EXCEPT ![InHand(p)] = @ + 1], now, b)
<1>1. PICK r \in PollerRecord :
           /\ pollers' = [pollers EXCEPT ![p] = r]
           /\ r.owner = pollers[p].owner /\ r.batch = pollers[p].batch \ {InHand(p)}
           /\ r.batch = {} <=> r.phase \in {"polling", "sweeping"}
           /\ r.batch # {} => r.fetched_at = pollers[p].fetched_at
           /\ r.phase \notin Answering
           /\ r.offset = sent[InHand(p)].id + 1
  BY SettleIs
<1>2. InHand(p) = First(pollers[p].batch)
  BY PollerIs
<1>3. HasClaim(sent, c, r)
  BY <1>1 DEF HasClaim
<1>4. Good(sent, c, pollers', a, now, b)
  BY <1>1, <1>2, <1>3, PollerGoes
<1>5. ASSUME pollers[p].phase \in Answering
      PROVE  Good(sent, c, pollers', [a EXCEPT ![InHand(p)] = @ + 1], now, b)
  BY <1>1, <1>2, <1>5, FirstAnswered
<1> QED
  BY <1>4, <1>5

\* Only the phase changes.
LEMMA PhaseGoes ==
  ASSUME NEW c, NEW a, NEW now, NEW b, Good(sent, c, pollers, a, now, b),
         NEW p \in Pollers, NEW phase \in Phases, Goes(p, phase),
         phase \in {"polling", "sweeping"} <=> pollers[p].phase \in {"polling", "sweeping"},
         phase \in Answering =>
           /\ c[sent[InHand(p)].id].owner = pollers[p].owner
           /\ pollers[p].fetched_at <= c[sent[InHand(p)].id].at
           /\ c[sent[InHand(p)].id].at <= pollers[p].fetched_at + Patience
  PROVE  Good(sent, c, pollers', a, now, b)
<1> DEFINE r == [pollers[p] EXCEPT !.phase = phase]
<1>1. /\ pollers \in [Pollers -> PollerRecord] /\ pollers[p] \in PollerRecord
      /\ InHands(sent, pollers[p], now) /\ InHand(p) = First(pollers[p].batch)
  BY PollerIs
<1>2. pollers' = [pollers EXCEPT ![p] = r]
  BY <1>1 DEF Goes
<1>3. /\ r \in PollerRecord /\ r.owner = pollers[p].owner /\ r.offset = pollers[p].offset
      /\ r.batch = pollers[p].batch /\ r.phase = phase /\ r.fetched_at = pollers[p].fetched_at
  BY <1>1 DEF PollerRecord
<1> HIDE DEF r
<1>4. HasClaim(sent, c, r)
  BY <1>1, <1>3 DEF HasClaim
<1>5. r.batch = {} <=> r.phase \in {"polling", "sweeping"}
  BY <1>1, <1>3 DEF InHands
<1> QED
  BY <1>2, <1>3, <1>4, <1>5, PollerGoes
-----------------------------------------------------------------------------
\* Every action but an answer keeps Good of the answers there are; this holds
\* of any count of the updates in their place, and is used of another below.

LEMMA TypesAre ==
  ASSUME NEW a, Good(sent, claims, pollers, a, clock, born)
  PROVE  /\ sent \in [Updates -> SentRecord] /\ claims \in [Ids -> ClaimRecord]
         /\ pollers \in [Pollers -> PollerRecord] /\ a \in [Updates -> Nat]
         /\ clock \in Nat /\ born \in Nat
BY DEF Good, Typed

LEMMA ArriveKeeps ==
  ASSUME NEW a, Good(sent, claims, pollers, a, clock, born),
         NEW u \in Updates, Arrive(u)
  PROVE  Good(sent', claims', pollers', a, clock', born')
<1>1. PICK id \in NextIds(u) :
        sent' = [sent EXCEPT ![u] = [state |-> "kept", id |-> id, at |-> clock]]
  BY DEF Arrive
<1>2. /\ ~IsSent(sent, u) /\ (u > 1 => IsSent(sent, u - 1))
      /\ UNCHANGED <<claims, pollers, clock, born>>
  BY DEF Arrive, IsSent
<1>3. /\ id \in Ids
      /\ u > 1 => sent[u - 1].at + QuietFor <= clock \/ id = sent[u - 1].id + 1
  BY <1>1 DEF NextIds
<1> QED
  BY <1>1, <1>2, <1>3, TypesAre, UpdateArrives

LEMMA BelowDropped ==
  ASSUME NEW c, NEW ps, NEW a, NEW now, NEW b, Good(sent, c, ps, a, now, b),
         NEW offset \in Nat
  PROVE  Good(Without(Below(offset)), c, ps, a, now, b)
<1> DEFINE d == Without(Below(offset))
<1>1. sent \in [Updates -> SentRecord] /\ now \in Nat /\ Ordered(sent, now)
  BY DEF Good, Typed
<1>2. /\ Below(offset) \subseteq Updates
      /\ \A u \in Below(offset) : IsKept(sent, u) /\ sent[u].id < offset
      /\ \A u, v \in Updates : IsKept(sent, u) /\ v \in Below(offset) /\ sent[u].id < offset
                                 => u \in Below(offset)
  BY DEF Below, Kept, IsKept
<1>3. /\ d \in [Updates -> SentRecord]
      /\ \A u \in Updates : IF u \in Below(offset) THEN d[u] = [sent[u] EXCEPT !.state = "gone"]
                                                   ELSE d[u] = sent[u]
  BY <1>1 DEF Without, SentRecord
<1> HIDE DEF d
<1>4. \A u \in Updates : IsKept(d, u) => IsKept(sent, u) /\ u \notin Below(offset)
  BY <1>1, <1>3 DEF IsKept, SentRecord
<1>5. ASSUME NEW u \in Updates, NEW v \in Updates, u < v, IsKept(d, u), IsKept(sent, v)
      PROVE  IsKept(d, v)
  <2>1. IsKept(sent, u) /\ u \notin Below(offset)
    BY <1>4, <1>5
  <2>2. sent[u].id < sent[v].id
    BY <1>1, <1>5, <2>1, KeptIsRecent, RecentInOrder DEF IsKept, IsSent
  <2>3. v \notin Below(offset)
    <3>1. sent[u].id \in Nat /\ sent[v].id \in Nat
      BY <1>1 DEF SentRecord
    <3> QED
      BY <1>2, <2>1, <2>2, <3>1
  <2> QED
    BY <1>3, <1>5, <2>3 DEF IsKept
<1>6. Good(d, c, ps, a, now, b)
  BY <1>2, <1>3, <1>5, OldestDropped
<1> QED
  BY <1>6 DEF d

\* A process that has answered an update is not given it again.
LEMMA FetchGoes ==
  ASSUME NEW a, Good(sent, claims, pollers, a, clock, born),
         NEW p \in Pollers, pollers[p].owner # 0,
         NEW fetched, fetched = Kept \ Below(pollers[p].offset),
         NEW r \in PollerRecord, r.owner = pollers[p].owner, r.offset = pollers[p].offset,
         r.batch = fetched, fetched # {} => r.fetched_at = clock,
         r.phase = IF fetched = {} THEN "polling" ELSE "settling"
  PROVE  Good(sent, claims, [pollers EXCEPT ![p] = r], a, clock, born)
<1>1. /\ Good(sent, claims, pollers, a, clock, born)
      /\ sent \in [Updates -> SentRecord] /\ clock \in Nat /\ Ordered(sent, clock)
      /\ born \in Nat /\ pollers[p].owner <= born
      /\ Confirms(sent, claims, pollers[p], a) /\ pollers[p] \in PollerRecord
  BY TypesAre DEF Good, Typed, Distinguished
<1>2. \A u \in Updates : /\ sent[u].at \in Nat /\ sent[u].id \in Nat /\ u \in Nat
                         /\ u \in Kept <=> IsKept(sent, u)
  <2>1. \A u \in Updates : sent[u].at \in Nat /\ sent[u].id \in Nat
    BY <1>1 DEF SentRecord
  <2>2. \A u \in Updates : u \in Nat
    BY InboxAssumption DEF Updates
  <2>3. \A u \in Updates : u \in Kept <=> IsKept(sent, u)
    BY DEF Kept, IsKept
  <2> QED
    BY <2>1, <2>2, <2>3
<1>3. \A u \in fetched : u \in Updates /\ IsKept(sent, u) /\ u \notin Below(r.offset)
  BY DEF Kept, IsKept
<1>4. InHands(sent, r, clock)
  <2>1. \A u \in fetched : /\ IsSent(sent, u) /\ sent[u].at <= clock
                           /\ clock <= sent[u].at + KeptFor
    BY <1>1, <1>3 DEF Ordered, IsKept, IsSent
  <2>2. clock <= clock + Patience /\ clock <= clock
    BY <1>1, InboxAssumption
  <2>3. \A u \in r.batch : Fetched(sent, r, clock, u)
    BY <2>1, <2>2 DEF Fetched
  <2> QED
    BY <2>3 DEF InHands
<1>5. HasClaim(sent, claims, r)
  BY DEF HasClaim, Answering
\* What it has answered and is kept it confirms, and all before it.
<1>6. ASSUME NEW u \in Updates, a[u] # 0, IsKept(sent, u),
             claims[sent[u].id].owner = r.owner
      PROVE  /\ \E w \in Updates : u <= w /\ IsSent(sent, w) /\ r.offset = sent[w].id + 1
             /\ \A x \in r.batch : u < x
  <2>1. PICK w \in Updates : u <= w /\ IsSent(sent, w) /\ r.offset = sent[w].id + 1
    BY <1>1, <1>6 DEF Confirms
  <2>2. IsKept(sent, w)
    BY <1>1, <1>2, <1>6, <2>1 DEF Ordered, Numbered
  <2>3. ~Stale(r.offset)
    BY <1>2, <2>1, <2>2 DEF Stale
  <2>4. ASSUME NEW x \in r.batch
        PROVE  u < x
    <3>1. x \in Updates /\ IsKept(sent, x) /\ x \notin Below(r.offset)
      BY <1>3
    <3>2. ~(sent[x].id < r.offset)
      BY <1>2, <2>3, <3>1 DEF Below
    <3>3. x < w => sent[x].id < sent[w].id
      BY <1>1, <2>1, <3>1, KeptIsRecent, RecentInOrder
    <3>4. ~(x < w) /\ x # w
      BY <1>2, <2>1, <3>1, <3>2, <3>3
    <3> QED
      BY <1>2, <2>1, <3>1, <3>4
  <2> QED
    BY <2>1, <2>4
<1>7. NotAgain(sent, claims, r, a)
  <2> SUFFICES ASSUME NEW u \in r.batch, a[u] # 0, claims[sent[u].id].owner = r.owner
               PROVE  FALSE
    BY DEF NotAgain
  <2>1. u \in Updates /\ IsKept(sent, u) /\ u \in Nat
    BY <1>2, <1>3
  <2>2. u < u
    BY <1>6, <2>1
  <2> QED
    BY <2>1, <2>2
<1>8. Confirms(sent, claims, r, a)
  BY <1>6 DEF Confirms
<1> QED
  BY <1>1, <1>4, <1>5, <1>7, <1>8, PollerChange

LEMMA PollKeeps ==
  ASSUME NEW a, Good(sent, claims, pollers, a, clock, born),
         NEW p \in Pollers, Poll(p)
  PROVE  Good(sent', claims', pollers', a, clock', born')
<1> DEFINE offset == pollers[p].offset
           fetched == Kept \ Below(offset)
           r == [pollers[p] EXCEPT !.confirmed = offset, !.batch = fetched,
                                   !.fetched_at = IF fetched = {} THEN 0 ELSE clock,
                                   !.phase = IF fetched = {} THEN @ ELSE "settling"]
<1>1. /\ pollers[p].owner # 0 /\ pollers[p].phase = "polling"
      /\ sent' = Without(Below(offset)) /\ UNCHANGED <<claims, clock, born>>
      /\ \/ pollers' = [pollers EXCEPT ![p] = r]
         \/ pollers' = pollers
  <2>1. pollers \in [Pollers -> PollerRecord]
    BY TypesAre
  <2>2. /\ pollers[p].owner # 0 /\ pollers[p].phase = "polling"
        /\ sent' = Without(Below(offset)) /\ UNCHANGED <<claims, clock, born>>
        /\ \/ pollers' = [pollers EXCEPT ![p].confirmed = offset, ![p].batch = fetched,
                                         ![p].fetched_at = IF fetched = {} THEN 0 ELSE clock,
                                         ![p].phase = IF fetched = {} THEN @ ELSE "settling"]
           \/ pollers' = pollers
    BY DEF Poll
  <2> HIDE DEF offset, fetched
  <2> QED
    BY <2>1, <2>2
<1>2. /\ Good(sent, claims, pollers, a, clock, born)
      /\ pollers[p] \in PollerRecord /\ offset \in Nat /\ clock \in Nat
  BY TypesAre DEF PollerRecord
<1>3. fetched \in SUBSET Updates
  BY DEF Kept
<1> HIDE DEF fetched
<1>4. /\ r \in PollerRecord /\ r.owner = pollers[p].owner /\ r.offset = pollers[p].offset
      /\ r.batch = fetched /\ (fetched # {} => r.fetched_at = clock)
      /\ r.phase = IF fetched = {} THEN "polling" ELSE "settling"
  BY <1>1, <1>2, <1>3 DEF PollerRecord, Phases
<1> HIDE DEF r
<1>5. Good(sent, claims, [pollers EXCEPT ![p] = r], a, clock, born)
  BY <1>1, <1>4, FetchGoes DEF fetched
<1>6. Good(sent, claims, pollers', a, clock, born)
  BY <1>1, <1>2, <1>5
<1>7. Good(sent', claims, pollers', a, clock, born)
  BY <1>1, <1>2, <1>6, BelowDropped
<1> QED
  BY <1>1, <1>2, <1>7

LEMMA ClaimKeeps ==
  ASSUME NEW a, Good(sent, claims, pollers, a, clock, born),
         NEW p \in Pollers, Claim(p)
  PROVE  Good(sent', claims', pollers', a, clock', born')
<1> DEFINE f == InHand(p)
           id == sent[f].id
           claim == Taken(claims[id], pollers[p].owner)
<1>1. /\ Good(sent, claims, pollers, a, clock, born)
      /\ claims \in [Ids -> ClaimRecord] /\ clock \in Nat
      /\ pollers[p].phase = "settling" /\ pollers[p] \in PollerRecord
      /\ f = First(pollers[p].batch) /\ InHands(sent, pollers[p], clock)
      /\ Ordered(sent, clock)
      /\ UNCHANGED <<sent, clock, born>>
  BY TypesAre, PollerIs DEF Claim, Good
<1>2. pollers[p].batch # {} /\ f \in pollers[p].batch /\ f \in Updates
  BY <1>1, PollerIs DEF InHands
<1>3. id \in Ids /\ pollers[p].fetched_at <= clock /\ clock <= pollers[p].fetched_at + Patience
  BY <1>1, <1>2 DEF InHands, Fetched, Ordered
<1>4. claim \in ClaimRecord /\ claim.owner = pollers[p].owner /\ claim.at = clock
  <2>1. claims[id] \in ClaimRecord
    BY <1>1, <1>3
  <2> QED
    BY <1>1, <2>1 DEF Taken, ClaimRecord, PollerRecord
<1>5. CASE /\ MayTake(claims[id], pollers[p].owner)
           /\ claims' = [claims EXCEPT ![id] = claim]
           /\ \/ pollers' = [pollers EXCEPT ![p].phase = "claimed",
                                            ![p].attempt = claim.attempts]
              \/ Halt(p)
  <2> HIDE DEF claim, f
  <2>1. Good(sent, claims', pollers, a, clock, born)
    BY <1>1, <1>4, <1>5, ClaimTaken DEF MayTake, Forgotten
  <2>2. CASE Halt(p)
    <3>1. Good(sent, claims', pollers', a, clock, born)
      BY <1>1, <2>1, <2>2, HaltGoes
    <3> QED
      BY <1>1, <3>1
  <2>3. CASE pollers' = [pollers EXCEPT ![p].phase = "claimed", ![p].attempt = claim.attempts]
    <3> DEFINE r == [pollers[p] EXCEPT !.phase = "claimed", !.attempt = claim.attempts]
    <3>1. /\ r \in PollerRecord /\ r.owner = pollers[p].owner /\ r.batch = pollers[p].batch
          /\ r.fetched_at = pollers[p].fetched_at /\ r.offset = pollers[p].offset
          /\ r.phase = "claimed"
      BY <1>1, <1>4 DEF PollerRecord, ClaimRecord, Phases
    <3>2. pollers' = [pollers EXCEPT ![p] = r]
      BY <2>3, TypesAre
    <3> HIDE DEF r
    <3>3. claims'[id] = claim
      BY <1>1, <1>3, <1>5
    <3>4. HasClaim(sent, claims', r)
      BY <1>1, <1>3, <1>4, <3>1, <3>3 DEF HasClaim
    <3>5. r.batch = {} <=> r.phase \in {"polling", "sweeping"}
      BY <1>2, <3>1
    <3>6. Good(sent, claims', pollers', a, clock, born)
      BY <1>1, <2>1, <3>1, <3>2, <3>4, <3>5, PollerGoes
    <3> QED
      BY <1>1, <3>6
  <2> QED
    BY <1>5, <2>2, <2>3
<1>6. CASE Halt(p) /\ UNCHANGED claims
  <2>1. Good(sent, claims, pollers', a, clock, born)
    BY <1>1, <1>6, HaltGoes
  <2> QED
    BY <1>1, <1>6, <2>1
<1>7. CASE Settle(p) /\ UNCHANGED claims
  <2>1. Good(sent, claims, pollers', a, clock, born)
    BY <1>1, <1>2, <1>7, SettleGoes
  <2> QED
    BY <1>1, <1>7, <2>1
<1> QED
  BY <1>5, <1>6, <1>7 DEF Claim

\* What a process does in hand, up to the answer.
LEMMA InHandIs ==
  ASSUME NEW a, Good(sent, claims, pollers, a, clock, born),
         NEW p \in Pollers, pollers[p].phase \in Answering
  PROVE  /\ Good(sent, claims, pollers, a, clock, born)
         /\ pollers[p].batch # {}
         /\ claims[sent[InHand(p)].id].owner = pollers[p].owner
         /\ pollers[p].fetched_at <= claims[sent[InHand(p)].id].at
         /\ claims[sent[InHand(p)].id].at <= pollers[p].fetched_at + Patience
         /\ a[InHand(p)] = 0
<1>1. Good(sent, claims, pollers, a, clock, born)
  BY TypesAre
<1>2. InHand(p) = First(pollers[p].batch)
  BY <1>1, PollerIs
<1>3. HasClaim(sent, claims, pollers[p])
  BY <1>1 DEF Good
<1> QED
  BY <1>1, <1>2, <1>3, AnsweringIsClaimed DEF HasClaim

LEMMA CancelRemindedKeeps ==
  ASSUME NEW a, Good(sent, claims, pollers, a, clock, born),
         NEW p \in Pollers, CancelReminded(p)
  PROVE  Good(sent', claims', pollers', a, clock', born')
<1>1. pollers[p].phase = "claimed" /\ UNCHANGED <<sent, claims, clock, born>>
  BY DEF CancelReminded
<1>2. PICK phase \in {"done", "not_done"} : Goes(p, phase)
  BY DEF CancelReminded
<1>3. phase \in Phases /\ phase \notin {"polling", "sweeping"} /\ pollers[p].phase \in Answering
  BY <1>1 DEF Phases, Answering
<1>4. Good(sent, claims, pollers', a, clock, born)
  BY <1>1, <1>2, <1>3, InHandIs, PhaseGoes
<1> QED
  BY <1>1, <1>3, <1>4, InHandIs

LEMMA AnswerKeeps ==
  ASSUME NEW a, Good(sent, claims, pollers, a, clock, born),
         NEW p \in Pollers, pollers[p].phase \in Answering, Settle(p),
         UNCHANGED <<sent, claims, clock, born>>
  PROVE  /\ Good(sent', claims', pollers', a, clock', born')
         /\ Good(sent', claims', pollers', [a EXCEPT ![InHand(p)] = @ + 1], clock', born')
<1>1. pollers[p].batch # {}
  BY InHandIs
<1>2. /\ Good(sent, claims, pollers', a, clock, born)
      /\ Good(sent, claims, pollers', [a EXCEPT ![InHand(p)] = @ + 1], clock, born)
  BY <1>1, SettleGoes
<1> QED
  BY <1>2

LEMMA ReadConfigKeeps ==
  ASSUME NEW a, Good(sent, claims, pollers, a, clock, born),
         NEW p \in Pollers, ReadConfig(p)
  PROVE  Good(sent', claims', pollers', a, clock', born')
<1>1. pollers[p].phase = "claimed" /\ UNCHANGED <<sent, claims, clock, born>>
  BY DEF ReadConfig
<1>2. pollers[p].phase \in Answering
  BY <1>1 DEF Answering
<1>3. /\ Good(sent, claims, pollers, a, clock, born)
      /\ pollers[p].batch # {}
      /\ claims[sent[InHand(p)].id].owner = pollers[p].owner
      /\ pollers[p].fetched_at <= claims[sent[InHand(p)].id].at
      /\ claims[sent[InHand(p)].id].at <= pollers[p].fetched_at + Patience
  BY <1>2, InHandIs
<1>4. Goes(p, "read") \/ Settle(p) \/ Halt(p)
  BY DEF ReadConfig
<1>5. Good(sent, claims, pollers', a, clock, born)
  <2>1. CASE Goes(p, "read")
    <3>1. "read" \in Phases /\ "read" \notin {"polling", "sweeping"}
          /\ pollers[p].phase \notin {"polling", "sweeping"}
      BY <1>1 DEF Phases
    <3> QED
      BY <1>3, <2>1, <3>1, PhaseGoes
  <2>2. CASE Settle(p)
    BY <1>3, <2>2, SettleGoes
  <2>3. CASE Halt(p)
    BY <1>3, <2>3, HaltGoes
  <2> QED
    BY <1>4, <2>1, <2>2, <2>3
<1> QED
  BY <1>1, <1>3, <1>5

LEMMA ForgetKeeps ==
  ASSUME NEW a, Good(sent, claims, pollers, a, clock, born),
         NEW p \in Pollers, ForgetOldClaims(p)
  PROVE  Good(sent', claims', pollers', a, clock', born')
<1>1. /\ pollers[p].phase = "sweeping" /\ Goes(p, "polling")
      /\ UNCHANGED <<sent, clock, born>>
  BY DEF ForgetOldClaims
<1>2. Good(sent, claims, pollers, a, clock, born)
  BY TypesAre
<1>3. /\ "polling" \in Phases /\ "polling" \notin Answering
      /\ pollers[p].phase \in {"polling", "sweeping"}
  BY <1>1 DEF Phases, Answering
<1>4. Good(sent, claims', pollers, a, clock, born)
  <2> DEFINE d == [i \in Ids |-> IF claims[i].at < clock - Remembered THEN NoClaim
                                 ELSE claims[i]]
  <2>1. claims' = claims \/ claims' = d
    BY DEF ForgetOldClaims, Forgotten
  <2>2. Good(sent, d, pollers, a, clock, born)
    BY <1>2, ClaimsForgotten
  <2> HIDE DEF d
  <2> QED
    BY <1>2, <2>1, <2>2
<1>5. Good(sent, claims', pollers', a, clock, born)
  BY <1>1, <1>2, <1>3, <1>4, PhaseGoes
<1> QED
  BY <1>1, <1>2, <1>5

\* A process that has just come to run has claimed nothing.
LEMMA ReplacedGoes ==
  ASSUME NEW a, Good(sent, claims, pollers, a, clock, born),
         NEW p \in Pollers, Replaced(p)
  PROVE  Good(sent, claims, pollers', a, clock, born')
<1> DEFINE r == Newborn(born + 1)
<1>1. /\ Good(sent, claims, pollers, a, clock, born)
      /\ sent \in [Updates -> SentRecord]
      /\ born \in Nat /\ born' = born + 1 /\ Distinguished(claims, pollers, born)
      /\ Ordered(sent, clock)
  BY TypesAre DEF Replaced, Good
<1>2. pollers' = [pollers EXCEPT ![p] = r]
  BY DEF Replaced, NextOwner
<1>3. /\ r \in PollerRecord /\ r.owner = born + 1 /\ r.batch = {} /\ r.phase = "polling"
  BY <1>1, InboxAssumption DEF Newborn, PollerRecord, Phases
<1> HIDE DEF r
<1>4. InHands(sent, r, clock) /\ HasClaim(sent, claims, r) /\ NotAgain(sent, claims, r, a)
  BY <1>3 DEF InHands, HasClaim, Answering, NotAgain
<1>5. Confirms(sent, claims, r, a)
  <2>1. \A u \in Updates : IsKept(sent, u) => claims[sent[u].id].owner # r.owner
    <3> SUFFICES ASSUME NEW u \in Updates, IsKept(sent, u)
                 PROVE  claims[sent[u].id].owner # r.owner
      OBVIOUS
    <3>1. sent[u].id \in Ids
      BY <1>1 DEF Ordered, IsKept, IsSent
    <3>2. claims[sent[u].id].owner <= born /\ claims[sent[u].id].owner \in Nat
      BY <1>1, <3>1, TypesAre DEF Distinguished, ClaimRecord
    <3> QED
      BY <1>1, <1>3, <3>2
  <2> QED
    BY <2>1 DEF Confirms
<1>6. born + 1 \in Nat /\ born <= born + 1 /\ r.owner <= born + 1 /\ born < r.owner
  BY <1>1, <1>3
<1>7. Good(sent, claims, pollers', a, clock, born + 1)
  BY <1>1, <1>2, <1>3, <1>4, <1>5, <1>6, PollerChange
<1> QED
  BY <1>1, <1>7

LEMMA StartKeeps ==
  ASSUME NEW a, Good(sent, claims, pollers, a, clock, born),
         NEW p \in Pollers, Start(p) \/ Crash(p)
  PROVE  Good(sent', claims', pollers', a, clock', born')
BY ReplacedGoes DEF Start, Crash

LEMMA StopKeeps ==
  ASSUME NEW a, Good(sent, claims, pollers, a, clock, born),
         NEW p \in Pollers, Stop(p)
  PROVE  Good(sent', claims', pollers', a, clock', born')
<1>1. /\ Good(sent, claims, pollers', a, clock, born')
      /\ UNCHANGED <<claims, clock>>
  BY ReplacedGoes DEF Stop
<1>2. sent' = sent \/ sent' = Without(Below(pollers[p].offset))
  BY DEF Stop
<1>3. pollers[p].offset \in Nat
  BY TypesAre DEF PollerRecord
<1>4. Good(sent', claims, pollers', a, clock, born')
  BY <1>1, <1>2, <1>3, BelowDropped
<1> QED
  BY <1>1, <1>4

LEMMA TickKeeps ==
  ASSUME NEW a, Good(sent, claims, pollers, a, clock, born), Tick,
         \A u \in Updates : a[u] # 0 => clock + 1 <= claims[sent[u].id].at + Remembered
  PROVE  Good(sent', claims', pollers', a, clock', born')
<1> DEFINE old == {u \in Kept : sent[u].at + KeptFor < clock + 1}
           d == Without(old)
<1>1. /\ sent' = d /\ clock' = clock + 1 /\ UNCHANGED <<claims, pollers, born>>
      /\ \A p \in Pollers : pollers[p].batch # {} => clock < pollers[p].fetched_at + Patience
  BY DEF Tick
<1>2. /\ Good(sent, claims, pollers, a, clock, born)
      /\ sent \in [Updates -> SentRecord] /\ clock \in Nat /\ Ordered(sent, clock)
      /\ \A u \in Updates : sent[u].at \in Nat
  BY TypesAre DEF Good, SentRecord
<1>3. /\ d \in [Updates -> SentRecord]
      /\ \A u \in Updates : IF u \in old THEN d[u] = [sent[u] EXCEPT !.state = "gone"]
                                         ELSE d[u] = sent[u]
  BY <1>2 DEF Without, SentRecord
<1>4. \A u \in Updates : u \in old <=> IsKept(sent, u) /\ sent[u].at + KeptFor < clock + 1
  BY DEF Kept, IsKept
<1> HIDE DEF old, d
<1>5. \A u \in Updates : IsKept(d, u) => IsKept(sent, u) /\ u \notin old /\ d[u] = sent[u]
  BY <1>2, <1>3 DEF IsKept, SentRecord
<1>6. ASSUME NEW u \in Updates, NEW v \in Updates, u < v, IsKept(d, u), IsKept(sent, v)
      PROVE  IsKept(d, v)
  <2>1. sent[u].at <= sent[v].at
    BY <1>2, <1>6 DEF Ordered, Numbered, IsKept, IsSent
  <2>2. v \notin old
    <3>1. IsKept(sent, u) /\ ~(sent[u].at + KeptFor < clock + 1)
      BY <1>4, <1>5, <1>6
    <3> QED
      BY <1>2, <1>4, <2>1, <3>1, InboxAssumption
  <2> QED
    BY <1>3, <1>6, <2>2 DEF IsKept
<1>7. Good(d, claims, pollers, a, clock, born)
  BY <1>2, <1>3, <1>4, <1>6, OldestDropped
<1>8. \A u \in Updates : IsKept(d, u) => clock + 1 <= d[u].at + KeptFor
  BY <1>2, <1>4, <1>5, InboxAssumption
<1>9. \A u \in Updates : d[u].id = sent[u].id
  BY <1>2, <1>3 DEF SentRecord
<1>10. Good(d, claims, pollers, a, clock + 1, born)
  BY <1>1, <1>7, <1>8, <1>9, TimePasses
<1> QED
  BY <1>1, <1>2, <1>10
-----------------------------------------------------------------------------
\* What was sent stays what it was.
LettersStay ==
  \A u \in Updates : IsSent(sent, u) =>
    IsSent(sent', u) /\ sent'[u].id = sent[u].id /\ sent'[u].at = sent[u].at

\* Telegram loses or drops updates, but forgets of none what it was.
SameLetters ==
  \A u \in Updates : /\ IsSent(sent', u) <=> IsSent(sent, u)
                     /\ sent'[u].id = sent[u].id /\ sent'[u].at = sent[u].at

LEMMA WithoutIsSame ==
  ASSUME sent \in [Updates -> SentRecord], NEW us \in SUBSET Kept,
         sent' = Without(us) \/ UNCHANGED sent
  PROVE  SameLetters
<1>1. CASE UNCHANGED sent
  BY <1>1 DEF SameLetters, IsSent
<1>2. CASE sent' = Without(us)
  <2> SUFFICES ASSUME NEW u \in Updates
               PROVE  /\ IsSent(sent', u) <=> IsSent(sent, u)
                      /\ sent'[u].id = sent[u].id /\ sent'[u].at = sent[u].at
    BY DEF SameLetters
  <2>1. sent[u] \in SentRecord
    OBVIOUS
  <2>2. sent'[u] = IF u \in us THEN [sent[u] EXCEPT !.state = "gone"] ELSE sent[u]
    BY <1>2 DEF Without
  <2>3. u \in us => sent[u].state = "kept"
    BY DEF Kept
  <2> QED
    BY <2>1, <2>2, <2>3 DEF IsSent, SentRecord
<1> QED
  BY <1>1, <1>2

LEMMA SentStays ==
  ASSUME sent \in [Updates -> SentRecord], [Next]_vars
  PROVE  LettersStay
<1>1. CASE \E u \in Updates : Arrive(u)
  <2>1. PICK u \in Updates : Arrive(u)
    BY <1>1
  <2>2. ~IsSent(sent, u) /\ \A v \in Updates : v # u => sent'[v] = sent[v]
    BY <2>1 DEF Arrive, IsSent
  <2> QED
    BY <2>2 DEF LettersStay, IsSent
<1>2. CASE \E us \in SUBSET Kept : sent' = Without(us) \/ UNCHANGED sent
  BY <1>2, WithoutIsSame DEF SameLetters, LettersStay
<1>3. {} \in SUBSET Kept /\ \A offset : Below(offset) \in SUBSET Kept
  BY DEF Below
<1>4. CASE UNCHANGED vars \/ ChangeBooking
  BY <1>2, <1>3, <1>4 DEF vars, ChangeBooking
<1>5. ASSUME NEW p \in Pollers, Poll(p) \/ Handle(p) \/ Start(p) \/ Stop(p) \/ Crash(p)
      PROVE  LettersStay
  <2>1. sent' = Without(Below(pollers[p].offset)) \/ UNCHANGED sent
    BY <1>5 DEF Poll, Handle, Claim, CancelReminded, AnswerTap, ReadConfig, AnswerMessage,
                ForgetOldClaims, Start, Stop, Crash
  <2> QED
    BY <1>2, <1>3, <2>1
<1>6. CASE Tick
  <2>1. {u \in Kept : sent[u].at + KeptFor < clock'} \in SUBSET Kept
    OBVIOUS
  <2> QED
    BY <1>2, <1>6, <2>1 DEF Tick
<1> QED
  BY <1>1, <1>4, <1>5, <1>6 DEF Next

LEMMA InvIs ==
  ASSUME Inv
  PROVE  /\ Counted /\ Good(sent, claims, pollers, Young, clock, born)
         /\ sent \in [Updates -> SentRecord] /\ claims \in [Ids -> ClaimRecord]
         /\ pollers \in [Pollers -> PollerRecord]
         /\ clock \in Nat /\ born \in Nat
BY DEF Inv, Good, Typed

\* Nothing counts that did not count before.
LEMMA YoungStays ==
  ASSUME Inv, LettersStay, answers' = answers, clock' \in Nat, clock <= clock'
  PROVE  /\ Counted' /\ Young' \in [Updates -> Nat]
         /\ \A u \in Updates : Young'[u] <= Young[u]
         /\ \A u \in Updates : Young'[u] # 0 => clock' <= sent[u].at + Remembered
<1>1. /\ answers \in [Updates -> Nat] /\ sent \in [Updates -> SentRecord] /\ clock \in Nat
      /\ \A u \in Updates : answers[u] # 0 => IsSent(sent, u)
  BY InvIs DEF Counted
<1>2. Counted'
  BY <1>1 DEF Counted, LettersStay
<1>3. /\ Young = [u \in Updates |-> IF clock <= sent[u].at + Remembered THEN answers[u] ELSE 0]
      /\ Young' = [u \in Updates |->
                     IF clock' <= sent'[u].at + Remembered THEN answers[u] ELSE 0]
  BY DEF Young
<1>4. ASSUME NEW u \in Updates
      PROVE  /\ Young'[u] \in Nat /\ Young'[u] <= Young[u]
             /\ Young'[u] # 0 => clock' <= sent[u].at + Remembered
  <2>1. sent[u].at \in Nat /\ answers[u] \in Nat
    BY <1>1 DEF SentRecord
  <2>2. /\ Young[u] = IF clock <= sent[u].at + Remembered THEN answers[u] ELSE 0
        /\ Young'[u] = IF clock' <= sent'[u].at + Remembered THEN answers[u] ELSE 0
    BY <1>3
  <2>3. answers[u] = 0 \/ sent'[u].at = sent[u].at
    BY <1>1 DEF LettersStay
  <2> QED
    BY <1>1, <2>1, <2>2, <2>3, InboxAssumption
<1>5. Young' \in [Updates -> Nat]
  BY <1>3, <1>4
<1> QED
  BY <1>2, <1>4, <1>5

LEMMA YoungNext ==
  ASSUME Counted', Young' \in [Updates -> Nat],
         NEW a, Good(sent', claims', pollers', a, clock', born'),
         \A u \in Updates : Young'[u] <= a[u]
  PROVE  Inv'
<1>1. Good(sent', claims', pollers', Young', clock', born')
  BY FewerGood
<1> QED
  BY <1>1 DEF Inv

LEMMA InitGood ==
  ASSUME Init, NEW a \in [Updates -> Nat], \A u \in Updates : a[u] = 0
  PROVE  Good(sent, claims, pollers, a, clock, born)
<1>1. Typed(sent, claims, pollers, a, clock, born)
  <2>1. sent \in [Updates -> SentRecord]
    BY DEF Init, SentRecord
  <2>2. claims \in [Ids -> ClaimRecord]
    BY DEF Init, NoClaim, ClaimRecord
  <2>3. \A owner \in Nat : Newborn(owner) \in PollerRecord
    BY InboxAssumption DEF Newborn, PollerRecord, Phases
  <2>4. pollers \in [Pollers -> PollerRecord]
    BY <2>3 DEF Init
  <2> QED
    BY <2>1, <2>2, <2>4 DEF Init, Typed
<1>2. Ordered(sent, clock)
  BY DEF Init, Ordered, IsSent, IsKept
<1>3. /\ \A p \in Pollers : pollers[p] = Newborn(IF p = 1 THEN 1 ELSE 0)
      /\ \A i \in Ids : claims[i].owner = 0
      /\ born = 1
  BY DEF Init, NoClaim
<1>4. \A p \in Pollers : /\ pollers[p].owner = IF p = 1 THEN 1 ELSE 0
                         /\ pollers[p].batch = {} /\ pollers[p].phase = "polling"
  <2>1. ASSUME NEW owner
        PROVE  /\ Newborn(owner).owner = owner /\ Newborn(owner).batch = {}
               /\ Newborn(owner).phase = "polling"
    BY DEF Newborn
  <2> QED
    BY <1>3, <2>1
<1>5. Distinguished(claims, pollers, born)
  BY <1>3, <1>4 DEF Distinguished
<1>6. Proven(sent, claims, a, clock) /\ Once(a)
  BY DEF Proven, Once
<1>7. ASSUME NEW p \in Pollers
      PROVE  /\ InHands(sent, pollers[p], clock) /\ HasClaim(sent, claims, pollers[p])
             /\ NotAgain(sent, claims, pollers[p], a) /\ Confirms(sent, claims, pollers[p], a)
  BY <1>4 DEF InHands, HasClaim, Answering, NotAgain, Confirms
<1> QED
  BY <1>1, <1>2, <1>5, <1>6, <1>7 DEF Good

LEMMA InitHolds == Init => Inv
<1> SUFFICES ASSUME Init
             PROVE  Inv
  OBVIOUS
<1>1. answers = [u \in Updates |-> 0]
  BY DEF Init
<1>2. Counted
  BY <1>1 DEF Counted
<1>3. Young \in [Updates -> Nat] /\ \A u \in Updates : Young[u] = 0
  BY <1>1 DEF Young
<1>4. Good(sent, claims, pollers, Young, clock, born)
  BY <1>3, InitGood
<1> QED
  BY <1>2, <1>4 DEF Inv

\* An answer is one more to an update that is in hand.
LEMMA AnswerKeepsInv ==
  ASSUME Inv, NEW p \in Pollers, pollers[p].phase \in Answering, Answered(InHand(p)), Settle(p),
         UNCHANGED <<sent, claims, clock, born>>
  PROVE  Inv'
<1> DEFINE f == InHand(p)
           more == [Young EXCEPT ![f] = @ + 1]
<1>1. /\ Good(sent, claims, pollers, Young, clock, born) /\ Counted /\ clock \in Nat
      /\ sent \in [Updates -> SentRecord]
  BY InvIs
<1>2. /\ Good(sent', claims', pollers', Young, clock', born')
      /\ Good(sent', claims', pollers', more, clock', born')
  BY <1>1, AnswerKeeps
<1>3. f \in Updates /\ IsSent(sent, f)
  BY <1>1, PollerIs, AnsweringIsClaimed
<1>4. CASE answers' = answers
  <2>1. LettersStay /\ clock' \in Nat /\ clock <= clock'
    BY <1>1 DEF LettersStay, IsSent
  <2>2. /\ Counted' /\ Young' \in [Updates -> Nat]
        /\ \A u \in Updates : Young'[u] <= Young[u]
    BY <1>4, <2>1, YoungStays
  <2> QED
    BY <1>2, <2>2, YoungNext
<1>5. CASE answers' = [answers EXCEPT ![f] = @ + 1]
  <2>1. answers \in [Updates -> Nat] /\ \A u \in Updates : answers[u] # 0 => IsSent(sent, u)
    BY <1>1 DEF Counted
  <2> HIDE DEF f
  <2>2. /\ answers' \in [Updates -> Nat] /\ answers'[f] = answers[f] + 1
        /\ \A u \in Updates : u # f => answers'[u] = answers[u]
    BY <1>3, <1>5, <2>1
  <2>3. \A u \in Updates : answers'[u] # 0 => IsSent(sent, u)
    BY <1>3, <2>1, <2>2
  <2>4. Counted'
    BY <2>2, <2>3 DEF Counted, IsSent
  <2>5. /\ Young = [u \in Updates |->
                      IF clock <= sent[u].at + Remembered THEN answers[u] ELSE 0]
        /\ Young' = [u \in Updates |->
                       IF clock <= sent[u].at + Remembered THEN answers'[u] ELSE 0]
    BY DEF Young
  <2>6. Young \in [Updates -> Nat] /\ Young' \in [Updates -> Nat]
    BY <2>1, <2>2, <2>5
  <2>7. /\ more[f] = Young[f] + 1
        /\ \A u \in Updates : u # f => more[u] = Young[u]
    BY <1>3, <2>6
  <2> HIDE DEF more
  <2>8. ASSUME NEW u \in Updates
        PROVE  Young'[u] <= more[u]
    <3>1. answers[u] \in Nat /\ Young[u] \in Nat
      BY <2>1, <2>6
    <3>2. Young[u] = IF clock <= sent[u].at + Remembered THEN answers[u] ELSE 0
      BY <2>5
    <3>3. Young'[u] = IF clock <= sent[u].at + Remembered THEN answers'[u] ELSE 0
      BY <2>5
    <3>4. CASE u = f
      BY <2>2, <2>7, <3>1, <3>2, <3>3, <3>4
    <3>5. CASE u # f
      BY <2>2, <2>7, <3>1, <3>2, <3>3, <3>5
    <3> QED
      BY <3>4, <3>5
  <2> QED
    BY <1>2, <2>4, <2>6, <2>8, YoungNext
<1> QED
  BY <1>4, <1>5 DEF Answered

LEMMA TickKeepsInv ==
  ASSUME Inv, Tick
  PROVE  Inv'
<1>1. /\ Good(sent, claims, pollers, Young, clock, born) /\ clock \in Nat
      /\ sent \in [Updates -> SentRecord] /\ claims \in [Ids -> ClaimRecord]
      /\ Ordered(sent, clock)
  BY InvIs DEF Good
<1>2. LettersStay
  BY <1>1, SentStays DEF Next
<1>3. answers' = answers /\ clock' = clock + 1 /\ clock' \in Nat /\ clock <= clock'
  BY <1>1 DEF Tick
<1>4. /\ Counted' /\ Young' \in [Updates -> Nat]
      /\ \A u \in Updates : Young'[u] <= Young[u]
      /\ \A u \in Updates : Young'[u] # 0 => clock' <= sent[u].at + Remembered
  BY <1>2, <1>3, YoungStays
<1>5. PICK e : e = Young'
  OBVIOUS
<1>6. Good(sent, claims, pollers, e, clock, born)
  BY <1>1, <1>4, <1>5, FewerGood
<1>7. ASSUME NEW u \in Updates, e[u] # 0
      PROVE  clock + 1 <= claims[sent[u].id].at + Remembered
  <2>1. IsSent(sent, u) /\ Backed(sent, claims, clock, u)
    BY <1>6, <1>7 DEF Good, Proven
  <2>2. clock + 1 <= sent[u].at + Remembered /\ sent[u].at <= claims[sent[u].id].at
    BY <1>3, <1>4, <1>5, <1>7, <2>1 DEF Backed
  <2>3. sent[u].at \in Nat /\ claims[sent[u].id].at \in Nat
    BY <1>1, <2>1, BackedIsRecent DEF SentRecord
  <2> QED
    BY <1>1, <2>2, <2>3, InboxAssumption
<1>8. Good(sent', claims', pollers', e, clock', born')
  BY <1>6, <1>7, TickKeeps
<1>9. \A u \in Updates : Young'[u] <= e[u]
  BY <1>4, <1>5
<1> QED
  BY <1>4, <1>8, <1>9, YoungNext

LEMMA StepKeeps ==
  ASSUME Inv, [Next]_vars
  PROVE  Inv'
<1>1. Good(sent, claims, pollers, Young, clock, born) /\ LettersStay /\ clock \in Nat
      /\ clock <= clock
  BY InvIs, SentStays
\* Of a step that answers nothing at a standing clock Good is left to show.
<1>2. ASSUME UNCHANGED <<answers, clock>>,
             Good(sent', claims', pollers', Young, clock', born')
      PROVE  Inv'
  <2>1. /\ Counted' /\ Young' \in [Updates -> Nat]
        /\ \A u \in Updates : Young'[u] <= Young[u]
    BY <1>1, <1>2, YoungStays
  <2> QED
    BY <1>2, <2>1, YoungNext
<1>3. CASE UNCHANGED vars \/ ChangeBooking
  BY <1>1, <1>2, <1>3 DEF vars, ChangeBooking
<1>4. CASE \E u \in Updates : Arrive(u)
  BY <1>1, <1>2, <1>4, ArriveKeeps DEF Arrive
<1>5. ASSUME NEW p \in Pollers, Poll(p) \/ Handle(p) \/ Start(p) \/ Stop(p) \/ Crash(p)
      PROVE  Inv'
  <2>1. CASE Poll(p)
    BY <1>1, <1>2, <2>1, PollKeeps DEF Poll
  <2>2. CASE Claim(p)
    BY <1>1, <1>2, <2>2, ClaimKeeps DEF Claim
  <2>3. CASE CancelReminded(p)
    BY <1>1, <1>2, <2>3, CancelRemindedKeeps DEF CancelReminded
  <2>4. CASE AnswerTap(p) \/ AnswerMessage(p)
    <3>1. /\ pollers[p].phase \in Answering /\ Answered(InHand(p)) /\ Settle(p)
          /\ UNCHANGED <<sent, claims, clock, born>>
      BY <2>4 DEF AnswerTap, AnswerMessage, Answering
    <3> QED
      BY <3>1, AnswerKeepsInv
  <2>5. CASE ReadConfig(p)
    BY <1>1, <1>2, <2>5, ReadConfigKeeps DEF ReadConfig
  <2>6. CASE ForgetOldClaims(p)
    BY <1>1, <1>2, <2>6, ForgetKeeps DEF ForgetOldClaims
  <2>7. CASE Start(p) \/ Crash(p)
    BY <1>1, <1>2, <2>7, StartKeeps DEF Start, Crash
  <2>8. CASE Stop(p)
    BY <1>1, <1>2, <2>8, StopKeeps DEF Stop
  <2> QED
    BY <1>5, <2>1, <2>2, <2>3, <2>4, <2>5, <2>6, <2>7, <2>8 DEF Handle
<1>6. CASE Tick
  BY <1>6, TickKeepsInv
<1> QED
  BY <1>3, <1>4, <1>5, <1>6 DEF Next

LEMMA InvAlways == Spec => []Inv
<1>1. Inv /\ [Next]_vars => Inv'
  BY StepKeeps
<1> QED
  BY <1>1, InitHolds, PTL DEF Spec

(***************************************************************************)
(* While the claim on it is remembered no update is answered twice,        *)
(* whatever dies, is fetched again or carries the id of an old one         *)
(* (inbox.rs, handle and claim_update).                                    *)
(***************************************************************************)
THEOREM AnsweredOnceWhileRemembered == Spec => []OnceWhileRemembered
<1>1. Inv => OnceWhileRemembered
  <2> SUFFICES ASSUME Inv, NEW u \in Updates, clock <= sent[u].at + Remembered
               PROVE  answers[u] <= 1
    BY DEF OnceWhileRemembered
  <2>1. Young[u] = answers[u]
    BY DEF Young
  <2> QED
    BY <2>1 DEF Inv, Good, Once
<1> QED
  BY <1>1, InvAlways, PTL
-----------------------------------------------------------------------------
\* An update is in the bot's hands as long as it is kept or in a batch.
Open(s, ps, u) == IsKept(s, u) \/ \E p \in Pollers : u \in ps[p].batch

LetterOf(s, ps, now, u) ==
  IF ~IsSent(s, u) THEN "unsent"
  ELSE IF ~Open(s, ps, u) THEN "closed"
  ELSE IF now <= s[u].at + Remembered THEN "open" ELSE "late"

LEMMA LetterIs ==
  /\ Letters = [u \in Updates |-> Letters[u]]
  /\ Letters' = [u \in Updates |-> Letters'[u]]
  /\ \A u \in Updates : /\ Letters[u] = LetterOf(sent, pollers, clock, u)
                         /\ Letters'[u] = LetterOf(sent', pollers', clock', u)
<1>1. Letters = [u \in Updates |-> Letters[u]]
  BY DEF Letters
<1>2. Letters' = [u \in Updates |-> Letters'[u]]
  BY DEF Letters
<1>3. ASSUME NEW u \in Updates
      PROVE  Letters[u] = LetterOf(sent, pollers, clock, u)
  BY DEF Letters, StillHere, LetterOf, IsSent, IsKept, Open
<1>4. ASSUME NEW u \in Updates
      PROVE  Letters'[u] = LetterOf(sent', pollers', clock', u)
  BY DEF Letters, StillHere, LetterOf, IsSent, IsKept, Open
<1> QED
  BY <1>1, <1>2, <1>3, <1>4

LEMMA ClockGoes ==
  ASSUME Inv, [Next]_vars
  PROVE  clock \in Nat /\ clock' \in Nat /\ clock <= clock' /\ LettersStay
<1>1. clock \in Nat /\ LettersStay
  BY InvIs, SentStays
<1>2. clock' = clock \/ clock' = clock + 1
  <2>1. CASE UNCHANGED vars
    BY <2>1 DEF vars
  <2>2. CASE Next
    BY <2>2 DEF Next, Arrive, Poll, Handle, Claim, CancelReminded, AnswerTap, ReadConfig,
                AnswerMessage, ForgetOldClaims, Start, Stop, Crash, ChangeBooking, Tick
  <2> QED
    BY <2>1, <2>2
<1> QED
  BY <1>1, <1>2

\* By a step that answers and opens nothing some updates get late or are closed.
LEMMA StepAges ==
  ASSUME Inv, [Next]_vars, answers' = answers,
         \A u \in Updates : /\ IsSent(sent', u) <=> IsSent(sent, u)
                            /\ Open(sent', pollers', u) => Open(sent, pollers, u)
  PROVE  M!Next
<1> DEFINE late == {u \in Updates : Letters[u] = "open" /\ Letters'[u] = "late"}
           closed == {u \in Updates : Letters[u] # "closed" /\ Letters'[u] = "closed"}
<1>1. clock \in Nat /\ clock' \in Nat /\ clock <= clock' /\ LettersStay
      /\ sent \in [Updates -> SentRecord]
  BY ClockGoes, InvIs
<1>2. ASSUME NEW u \in Updates
      PROVE  /\ Letters'[u] = Letters[u] \/ Letters[u] \in {"open", "late"}
             /\ Letters'[u] \in {Letters[u], "late", "closed"}
  <2>1. /\ Letters[u] = LetterOf(sent, pollers, clock, u)
        /\ Letters'[u] = LetterOf(sent', pollers', clock', u)
    BY LetterIs
  <2>2. CASE ~IsSent(sent, u)
    BY <2>1, <2>2 DEF LetterOf
  <2>3. CASE IsSent(sent, u)
    <3>1. sent'[u].at = sent[u].at /\ sent[u].at \in Nat
      BY <1>1, <2>3 DEF LettersStay, SentRecord
    <3>2. clock' <= sent[u].at + Remembered => clock <= sent[u].at + Remembered
      BY <1>1, <3>1, InboxAssumption
    <3> QED
      BY <2>1, <2>3, <3>1, <3>2 DEF LetterOf
  <2> QED
    BY <2>2, <2>3
<1>3. \A u \in Updates : Letters'[u] = IF u \in closed THEN "closed"
                                       ELSE IF u \in late THEN "late" ELSE Letters[u]
  BY <1>2
<1>4. /\ late \in SUBSET Updates /\ closed \in SUBSET Updates
      /\ \A u \in late : Letters[u] = "open"
      /\ \A u \in closed : Letters[u] \in {"open", "late"}
  BY <1>2
<1> HIDE DEF late, closed
<1>5. Letters' = [u \in Updates |-> IF u \in closed THEN "closed"
                                    ELSE IF u \in late THEN "late" ELSE Letters[u]]
  BY <1>3, LetterIs
<1>6. PICK ls \in SUBSET Updates : ls = late
  BY <1>4
<1>7. PICK cs \in SUBSET Updates : cs = closed
  BY <1>4
<1>8. M!Age(ls, cs)
  BY <1>4, <1>5, <1>6, <1>7 DEF M!Age
<1> QED
  BY <1>8 DEF M!Next

LEMMA BatchesShrink ==
  ASSUME Inv, NEW p \in Pollers,
         Settle(p) \/ Halt(p) \/ Replaced(p) \/ (\E phase \in Phases : Goes(p, phase))
         \/ (\E n \in Nat : pollers' = [pollers EXCEPT ![p].phase = "claimed", ![p].attempt = n])
  PROVE  \A q \in Pollers : pollers'[q].batch \subseteq pollers[q].batch
<1>1. pollers \in [Pollers -> PollerRecord] /\ pollers[p] \in PollerRecord
  BY InvIs
<1>2. pollers'[p].batch \in {pollers[p].batch, pollers[p].batch \ {InHand(p)}, {}}
  <2>1. CASE Settle(p)
    BY <1>1, <2>1 DEF Settle, PollerRecord
  <2>2. CASE Halt(p)
    BY <1>1, <2>2 DEF Halt, PollerRecord
  <2>3. CASE Replaced(p)
    BY <1>1, <2>3 DEF Replaced, Newborn
  <2>4. CASE \E phase \in Phases : Goes(p, phase)
    BY <1>1, <2>4 DEF Goes, PollerRecord
  <2>5. CASE \E n \in Nat :
               pollers' = [pollers EXCEPT ![p].phase = "claimed", ![p].attempt = n]
    BY <1>1, <2>5 DEF PollerRecord
  <2> QED
    BY <2>1, <2>2, <2>3, <2>4, <2>5
<1>3. \A q \in Pollers : q # p => pollers'[q] = pollers[q]
  BY <1>1 DEF Settle, Halt, Replaced, Goes
<1> QED
  BY <1>2, <1>3

\* What Telegram drops was sent, and is kept no more.
LEMMA DroppedIs ==
  ASSUME Inv, NEW updates, sent' = Without(updates), updates \subseteq Kept
  PROVE  \A u \in Updates : /\ IsSent(sent', u) <=> IsSent(sent, u)
                            /\ IsKept(sent', u) => IsKept(sent, u)
<1>1. sent \in [Updates -> SentRecord]
  BY InvIs
<1>2. \A u \in Updates : IF u \in updates THEN sent'[u] = [sent[u] EXCEPT !.state = "gone"]
                                          ELSE sent'[u] = sent[u]
  BY DEF Without
<1>3. \A u \in Updates : IF u \in updates THEN sent'[u].state = "gone" /\ sent[u].state = "kept"
                                          ELSE sent'[u] = sent[u]
  BY <1>1, <1>2 DEF SentRecord, Kept
<1> QED
  BY <1>3 DEF IsSent, IsKept

LEMMA ArriveSends ==
  ASSUME Inv, NEW u \in Updates, Arrive(u)
  PROVE  M!Next
<1>1. PICK id \in Ids :
        sent' = [sent EXCEPT ![u] = [state |-> "kept", id |-> id, at |-> clock]]
  BY DEF Arrive, NextIds
<1>2. /\ ~IsSent(sent, u) /\ answers' = answers /\ pollers' = pollers
      /\ sent \in [Updates -> SentRecord] /\ clock' = clock /\ clock \in Nat
  BY InvIs DEF Arrive, IsSent
<1>3. IsSent(sent', u) /\ IsKept(sent', u) /\ sent'[u].at = clock
      /\ \A v \in Updates : v # u => sent'[v] = sent[v]
  BY <1>1, <1>2 DEF IsSent, IsKept
<1>4. /\ \A v \in Updates : v # u => (IsSent(sent', v) <=> IsSent(sent, v))
      /\ \A v \in Updates : v # u => (Open(sent', pollers', v) <=> Open(sent, pollers, v))
      /\ Open(sent', pollers', u)
  BY <1>2, <1>3 DEF IsSent, IsKept, Open
<1>5. Letters[u] = "unsent" /\ \A v \in Updates : Letters'[v] = IF v = u THEN "open" ELSE Letters[v]
  <2>1. clock <= clock + Remembered
    BY <1>2, InboxAssumption
  <2>2. Letters[u] = "unsent" /\ Letters'[u] = "open"
    BY <1>2, <1>3, <1>4, <2>1, LetterIs DEF LetterOf
  <2>3. ASSUME NEW v \in Updates, v # u
        PROVE  Letters'[v] = Letters[v]
    BY <1>2, <1>3, <1>4, <2>3, LetterIs DEF LetterOf
  <2> QED
    BY <2>2, <2>3
<1>6. Letters' = [Letters EXCEPT ![u] = "open"]
  BY <1>5, LetterIs
<1> QED
  BY <1>2, <1>5, <1>6 DEF M!Next, M!Send

\* An answer to what is not late is the first one; an answer closes at the
\* most the update it answers.
LEMMA AnswerAnswers ==
  ASSUME Inv, [Next]_vars, NEW p \in Pollers, pollers[p].phase \in Answering,
         Answered(InHand(p)), Settle(p), sent' = sent, clock' = clock
  PROVE  M!Next
<1> DEFINE u == InHand(p)
<1>1. /\ Good(sent, claims, pollers, Young, clock, born) /\ Young[u] = 0
      /\ pollers[p].batch # {} /\ answers \in [Updates -> Nat]
      /\ pollers \in [Pollers -> PollerRecord]
  BY InHandIs, InvIs DEF Counted
<1>2. u \in pollers[p].batch /\ u \in Updates /\ InHands(sent, pollers[p], clock)
  BY <1>1, PollerIs
<1>3. PICK r \in PollerRecord :
        /\ pollers' = [pollers EXCEPT ![p] = r] /\ r.batch = pollers[p].batch \ {u}
  BY <1>1, SettleIs
<1> HIDE DEF u
<1>4. /\ \A q \in Pollers : pollers'[q].batch \subseteq pollers[q].batch
      /\ \A q \in Pollers : pollers[q].batch \subseteq pollers'[q].batch \cup {u}
  BY <1>1, <1>3
<1>5. \A v \in Updates : Open(sent', pollers', v) => Open(sent, pollers, v)
  BY <1>4 DEF Open
<1>6. \A v \in Updates : v # u /\ Open(sent, pollers, v) => Open(sent', pollers', v)
  BY <1>4 DEF Open
<1>7. CASE answers' = answers
  BY <1>5, <1>7, StepAges
<1>8. CASE answers' = [answers EXCEPT ![u] = @ + 1]
  <2>1. IsSent(sent, u) /\ Open(sent, pollers, u)
    BY <1>2 DEF InHands, Fetched, Open
  <2>2. /\ Letters[u] \in {"open", "late"} /\ Letters'[u] \in {Letters[u], "closed"}
        /\ Letters[u] = "open" => clock <= sent[u].at + Remembered
    BY <1>2, <2>1, LetterIs DEF LetterOf
  <2>3. Letters[u] = "late" \/ (Letters[u] = "open" /\ answers[u] = 0)
    BY <1>1, <1>2, <2>2 DEF Young
  <2>4. \A v \in Updates : v # u => Letters'[v] = Letters[v]
    BY <1>5, <1>6, LetterIs DEF LetterOf
  <2>5. M!Age({}, {}) \/ M!Age({}, {u})
    <3>1. CASE Letters'[u] = Letters[u]
      <4>1. Letters' = [v \in Updates |-> IF v \in {} THEN "closed"
                                         ELSE IF v \in {} THEN "late" ELSE Letters[v]]
        BY <2>4, <3>1, LetterIs
      <4> QED
        BY <4>1 DEF M!Age
    <3>2. CASE Letters'[u] = "closed"
      <4>1. Letters' = [v \in Updates |-> IF v \in {u} THEN "closed"
                                         ELSE IF v \in {} THEN "late" ELSE Letters[v]]
        BY <2>4, <3>2, LetterIs
      <4> QED
        BY <2>2, <4>1 DEF M!Age
    <3> QED
      BY <2>2, <3>1, <3>2
  <2>6. M!Answer(u)
    BY <1>8, <2>3, <2>5 DEF M!Answer
  <2> QED
    BY <1>2, <2>6 DEF M!Next
<1> QED
  BY <1>7, <1>8 DEF Answered, u

LEMMA StepIsOfMailbox ==
  ASSUME Inv, [Next]_vars
  PROVE  [M!Next]_(M!mailbox)
<1>1. ASSUME UNCHANGED <<sent, pollers, answers>>
      PROVE  M!Next
  BY <1>1, StepAges
<1>2. ASSUME UNCHANGED <<sent, answers>>,
             \A q \in Pollers : pollers'[q].batch \subseteq pollers[q].batch
      PROVE  M!Next
  <2>1. \A u \in Updates : Open(sent', pollers', u) => Open(sent, pollers, u)
    BY <1>2 DEF Open
  <2> QED
    BY <1>2, <2>1, StepAges
<1>3. ASSUME NEW updates, updates \subseteq Kept, sent' = Without(updates), answers' = answers,
             \A q \in Pollers : pollers'[q].batch \subseteq pollers[q].batch \cup Kept
      PROVE  M!Next
  <2>1. \A u \in Updates : /\ IsSent(sent', u) <=> IsSent(sent, u)
                           /\ IsKept(sent', u) => IsKept(sent, u)
    BY <1>3, DroppedIs
  <2>2. \A u \in Updates : Open(sent', pollers', u) => Open(sent, pollers, u)
    BY <1>3, <2>1 DEF Open, Kept, IsKept
  <2> QED
    BY <1>3, <2>1, <2>2, StepAges
<1>4. CASE UNCHANGED vars
  BY <1>1, <1>4 DEF vars
<1>5. CASE \E u \in Updates : Arrive(u)
  BY <1>5, ArriveSends
<1>6. ASSUME NEW p \in Pollers, Poll(p) \/ Handle(p) \/ Start(p) \/ Stop(p) \/ Crash(p)
      PROVE  M!Next
  <2>1. CASE Poll(p)
    <3>1. Below(pollers[p].offset) \subseteq Kept
      BY DEF Below
    <3>2. pollers \in [Pollers -> PollerRecord]
      BY InvIs
    <3>3. pollers'[p].batch \subseteq pollers[p].batch \cup Kept
      <4> DEFINE fetched == Kept \ Below(pollers[p].offset)
                 phase == IF fetched = {} THEN pollers[p].phase ELSE "settling"
                 fetched_at == IF fetched = {} THEN 0 ELSE clock
                 offset == pollers[p].offset
      <4>1. \/ pollers' = pollers
            \/ pollers' = [pollers EXCEPT
                            ![p] = [pollers[p] EXCEPT !.confirmed = offset, !.batch = fetched,
                                                      !.fetched_at = fetched_at,
                                                      !.phase = phase]]
        BY <2>1, <3>2 DEF Poll
      <4>2. fetched \subseteq Kept /\ pollers[p] \in PollerRecord
        BY <3>2
      <4> HIDE DEF fetched, phase, fetched_at, offset
      <4> QED
        BY <3>2, <4>1, <4>2 DEF PollerRecord
    <3>4. \A q \in Pollers : q # p => pollers'[q] = pollers[q]
      BY <2>1, <3>2 DEF Poll
    <3> QED
      BY <1>3, <2>1, <3>1, <3>3, <3>4 DEF Poll
  <2>2. CASE Claim(p)
    <3>1. claims[sent[InHand(p)].id].attempts \in Nat
      <4>1. /\ Good(sent, claims, pollers, Young, clock, born) /\ pollers[p].batch # {}
            /\ claims \in [Ids -> ClaimRecord]
        BY <2>2, InvIs, PollerIs DEF Claim, InHands
      <4>2. sent[InHand(p)].id \in Ids
        BY <4>1, PollerIs DEF Good, Ordered, InHands, Fetched
      <4> QED
        BY <4>1, <4>2 DEF ClaimRecord
    <3>2. \A owner : Taken(claims[sent[InHand(p)].id], owner).attempts \in Nat
      BY <3>1 DEF Taken
    <3>3. \A q \in Pollers : pollers'[q].batch \subseteq pollers[q].batch
      BY <2>2, <3>2, BatchesShrink DEF Claim
    <3> QED
      BY <1>2, <2>2, <3>3 DEF Claim
  <2>3. CASE CancelReminded(p) \/ ForgetOldClaims(p)
    <3>1. \E phase \in Phases : Goes(p, phase)
      BY <2>3 DEF CancelReminded, ForgetOldClaims, Phases
    <3> QED
      BY <1>2, <2>3, <3>1, BatchesShrink DEF CancelReminded, ForgetOldClaims
  <2>4. CASE AnswerTap(p) \/ AnswerMessage(p)
    <3>1. /\ pollers[p].phase \in Answering /\ Answered(InHand(p)) /\ Settle(p)
          /\ sent' = sent /\ clock' = clock
      BY <2>4 DEF AnswerTap, AnswerMessage, Answering
    <3> QED
      BY <3>1, AnswerAnswers
  <2>5. CASE ReadConfig(p)
    <3>1. (\E phase \in Phases : Goes(p, phase)) \/ Settle(p) \/ Halt(p)
      BY <2>5 DEF ReadConfig, Phases
    <3> QED
      BY <1>2, <2>5, <3>1, BatchesShrink DEF ReadConfig
  <2>6. CASE Start(p) \/ Crash(p)
    BY <1>2, <2>6, BatchesShrink DEF Start, Crash
  <2>7. CASE Stop(p)
    <3>1. \A q \in Pollers : pollers'[q].batch \subseteq pollers[q].batch
      BY <2>7, BatchesShrink DEF Stop
    <3>2. Below(pollers[p].offset) \subseteq Kept
      BY DEF Below
    <3>3. CASE sent' = sent
      BY <1>2, <2>7, <3>1, <3>3 DEF Stop
    <3>4. CASE sent' = Without(Below(pollers[p].offset))
      BY <1>3, <2>7, <3>1, <3>2, <3>4 DEF Stop
    <3> QED
      BY <2>7, <3>3, <3>4 DEF Stop
  <2> QED
    BY <1>6, <2>1, <2>2, <2>3, <2>4, <2>5, <2>6, <2>7 DEF Handle
<1>7. CASE ChangeBooking
  BY <1>1, <1>7 DEF ChangeBooking
<1>8. CASE Tick
  BY <1>3, <1>8 DEF Tick
<1> QED
  BY <1>4, <1>5, <1>6, <1>7, <1>8 DEF Next

(***************************************************************************)
(* The inbox implements Mailbox: whatever dies, is fetched again or        *)
(* renumbered, an update is answered once at the most while the claim on   *)
(* it is remembered, again only if it is in hand for longer than that, and *)
(* never after it was closed (inbox.rs, handle and run).                   *)
(***************************************************************************)
THEOREM InboxImplementsMailbox == Spec => KeepsMailbox
<1>1. Init => M!Init
  <2> SUFFICES ASSUME Init
               PROVE  M!Init
    OBVIOUS
  <2>1. \A u \in Updates : Letters[u] = "unsent"
    BY LetterIs DEF Init, IsSent, LetterOf
  <2>2. Letters = [u \in Updates |-> "unsent"]
    BY <2>1, LetterIs
  <2> QED
    BY <2>2 DEF Init, M!Init
<1>2. Inv /\ [Next]_vars => [M!Next]_(M!mailbox)
  BY StepIsOfMailbox
<1> QED
  BY <1>1, <1>2, InvAlways, PTL DEF Spec, KeepsMailbox, M!Spec
-----------------------------------------------------------------------------
(***************************************************************************)
(* Types and the button.                                                   *)
(***************************************************************************)
SentType == [state : {"unsent", "kept", "gone"}, id : Ids, at : Nat]

Whole(r) == r.batch = {} <=> r.phase \in {"polling", "sweeping"}

PollersWhole == pollers \in [Pollers -> PollerType] /\ \A p \in Pollers : Whole(pollers[p])

Shaped ==
  /\ sent \in [Updates -> SentType]
  /\ claims \in [Ids -> Claims]
  /\ PollersWhole
  /\ booking \in Bookings /\ button \in BOOLEAN /\ reachable \in BOOLEAN
  /\ answers \in [Updates -> Nat]
  /\ clock \in Nat /\ born \in Processes /\ faults \in 0 .. MaxFaults

\* A cancellation is done when the booking is none that has been a plan ever
\* since its reminder; only then the button goes.
Held == \A p \in Pollers : pollers[p].phase = "done" => booking # "plan"

Shape == Shaped /\ Held /\ ButtonUnlessMarked

\* What the process at p does to its poller, which is in one of phases then.
Turns(p, phases) ==
  \E r \in PollerType : /\ pollers' = [pollers EXCEPT ![p] = r]
                        /\ Whole(r) /\ r.phase \in phases

LEMMA TurnedIs ==
  ASSUME PollersWhole, NEW p \in Pollers, NEW phases, Turns(p, phases)
  PROVE  /\ PollersWhole'
         /\ pollers'[p].phase \in phases
         /\ \A q \in Pollers : q # p => pollers'[q] = pollers[q]
<1>1. PICK r \in PollerType : /\ pollers' = [pollers EXCEPT ![p] = r]
                              /\ Whole(r) /\ r.phase \in phases
  BY DEF Turns
<1>2. /\ pollers' \in [Pollers -> PollerType] /\ pollers'[p] = r
      /\ \A q \in Pollers : q # p => pollers'[q] = pollers[q]
  BY <1>1 DEF PollersWhole
<1>3. \A q \in Pollers : Whole(pollers'[q])
  BY <1>1, <1>2 DEF PollersWhole
<1> QED
  BY <1>1, <1>2, <1>3 DEF PollersWhole

LEMMA HaltTurns ==
  ASSUME PollersWhole, NEW p \in Pollers, Halt(p)
  PROVE  Turns(p, {"polling"})
<1> DEFINE r == [pollers[p] EXCEPT !.phase = "polling", !.batch = {}, !.fetched_at = 0,
                                   !.attempt = 0]
<1>1. pollers \in [Pollers -> PollerType] /\ pollers[p] \in PollerType
  BY DEF PollersWhole
<1>2. pollers' = [pollers EXCEPT ![p] = r]
  BY <1>1 DEF Halt
<1>3. r \in PollerType
  BY <1>1 DEF PollerType, Phases
<1>4. r.phase = "polling" /\ r.batch = {}
  BY <1>1 DEF PollerType
<1> HIDE DEF r
<1> QED
  BY <1>2, <1>3, <1>4 DEF Turns, Whole

LEMMA InHandIsKnown ==
  ASSUME PollersWhole, NEW p \in Pollers, pollers[p].phase \notin {"polling", "sweeping"}
  PROVE  InHand(p) \in pollers[p].batch /\ InHand(p) \in Updates
<1>1. pollers[p].batch \in SUBSET Updates /\ pollers[p].batch # {}
  BY DEF PollersWhole, PollerType, Whole
<1> QED
  BY <1>1, FirstIs DEF InHand, First

LEMMA SettleTurns ==
  ASSUME Shaped, NEW p \in Pollers, pollers[p].phase \notin {"polling", "sweeping"}, Settle(p)
  PROVE  Turns(p, {"polling", "settling", "sweeping"})
<1> DEFINE rest == pollers[p].batch \ {InHand(p)}
           sweeps == rest = {} /\ SweepDue(p)
           offset == sent[InHand(p)].id + 1
           phase == IF sweeps THEN "sweeping" ELSE IF rest = {} THEN "polling" ELSE "settling"
           fetched == IF rest = {} THEN 0 ELSE pollers[p].fetched_at
           swept == IF sweeps THEN clock ELSE pollers[p].swept
           r == [pollers[p] EXCEPT !.offset = offset, !.batch = rest, !.fetched_at = fetched,
                                   !.attempt = 0, !.swept = swept, !.phase = phase]
<1>1. /\ pollers \in [Pollers -> PollerType] /\ pollers[p] \in PollerType
      /\ pollers[p].batch \in SUBSET Updates
      /\ pollers[p].fetched_at \in Nat /\ pollers[p].swept \in Int
  BY DEF Shaped, PollersWhole, PollerType
<1>2. sent[InHand(p)] \in SentType
  BY InHandIsKnown DEF Shaped
<1>3. sent[InHand(p)].id \in 1 .. LastId /\ LastId \in Nat
  BY <1>2, InboxAssumption DEF SentType, Ids
<1>4. offset \in 0 .. LastId + 1 /\ rest \in SUBSET Updates /\ fetched \in Nat /\ swept \in Int
  BY <1>1, <1>3 DEF Shaped
<1>5. phase \in Phases /\ (rest = {} <=> phase \in {"polling", "sweeping"})
      /\ phase \in {"polling", "settling", "sweeping"}
  BY DEF Phases
<1>6. pollers' = [pollers EXCEPT ![p] = r]
  BY <1>1 DEF Settle
<1> HIDE DEF rest, sweeps, offset, phase, fetched, swept
<1>7. r \in PollerType
  BY <1>1, <1>4, <1>5 DEF PollerType
<1>8. r.batch = rest /\ r.phase = phase
  BY <1>1 DEF PollerType
<1> HIDE DEF r
<1> QED
  BY <1>5, <1>6, <1>7, <1>8 DEF Turns, Whole

LEMMA GoesTurns ==
  ASSUME PollersWhole, NEW p \in Pollers, NEW phase \in Phases, Goes(p, phase),
         phase \in {"polling", "sweeping"} <=> pollers[p].phase \in {"polling", "sweeping"}
  PROVE  Turns(p, {phase})
<1> DEFINE r == [pollers[p] EXCEPT !.phase = phase]
<1>1. pollers \in [Pollers -> PollerType] /\ pollers[p] \in PollerType /\ Whole(pollers[p])
  BY DEF PollersWhole
<1>2. pollers' = [pollers EXCEPT ![p] = r]
  BY <1>1 DEF Goes
<1>3. r \in PollerType /\ r.phase = phase /\ r.batch = pollers[p].batch
  BY <1>1 DEF PollerType
<1> HIDE DEF r
<1> QED
  BY <1>1, <1>2, <1>3 DEF Turns, Whole

LEMMA ReplacedTurns ==
  ASSUME Shaped, NEW p \in Pollers, Replaced(p)
  PROVE  Turns(p, {"polling"}) /\ born' \in Processes
<1> DEFINE r == Newborn(born + 1)
<1>1. born + 1 \in Processes
  BY InboxAssumption DEF Shaped, Replaced, Processes
<1>2. pollers' = [pollers EXCEPT ![p] = r]
  BY DEF Replaced, NextOwner
<1>3. r \in PollerType
  BY <1>1, InboxAssumption DEF Newborn, PollerType, Phases
<1>4. r.phase = "polling" /\ r.batch = {}
  BY DEF Newborn
<1> HIDE DEF r
<1> QED
  BY <1>1, <1>2, <1>3, <1>4 DEF Turns, Whole, Replaced

LEMMA FetchTurns ==
  ASSUME Shaped, NEW p \in Pollers, pollers[p].phase = "polling", Poll(p)
  PROVE  Turns(p, {"polling", "settling"}) \/ UNCHANGED pollers
<1> DEFINE fetched == Kept \ Below(pollers[p].offset)
           at == IF fetched = {} THEN 0 ELSE clock
           phase == IF fetched = {} THEN "polling" ELSE "settling"
           r == [pollers[p] EXCEPT !.confirmed = pollers[p].offset, !.batch = fetched,
                                   !.fetched_at = at, !.phase = phase]
<1>1. /\ pollers \in [Pollers -> PollerType] /\ pollers[p] \in PollerType
      /\ pollers[p].offset \in 0 .. LastId + 1
  BY DEF Shaped, PollersWhole, PollerType
<1>2. fetched \in SUBSET Updates
  BY DEF Kept
<1>3. at \in Nat /\ phase \in Phases /\ phase \in {"polling", "settling"}
      /\ (fetched = {} <=> phase \in {"polling", "sweeping"})
  BY DEF Shaped, Phases
<1>4. pollers' = [pollers EXCEPT ![p] = r] \/ UNCHANGED pollers
  BY <1>1 DEF Poll
<1> HIDE DEF fetched, at, phase
<1>5. r \in PollerType
  BY <1>1, <1>2, <1>3 DEF PollerType
<1>6. r.batch = fetched /\ r.phase = phase
  BY <1>1 DEF PollerType
<1> HIDE DEF r
<1> QED
  BY <1>3, <1>4, <1>5, <1>6 DEF Turns, Whole

\* The part of Shape that is about the pollers and the booking follows from
\* how one poller turned; the rest is about what it leaves alone.
LEMMA TurnKeeps ==
  ASSUME Shape, NEW p \in Pollers, NEW phases, Turns(p, phases),
         booking' = "plan" => booking = "plan", "done" \in phases => booking' # "plan"
  PROVE  PollersWhole' /\ Held'
<1>1. /\ PollersWhole' /\ pollers'[p].phase \in phases
      /\ \A q \in Pollers : q # p => pollers'[q] = pollers[q]
  BY TurnedIs DEF Shape, Shaped
<1>2. \A q \in Pollers : pollers'[q].phase = "done" => booking' # "plan"
  BY <1>1 DEF Shape, Held
<1> QED
  BY <1>1, <1>2 DEF Held

LEMMA SentKeepsType ==
  ASSUME sent \in [Updates -> SentType], NEW us
  PROVE  Without(us) \in [Updates -> SentType]
BY DEF Without, SentType

LEMMA ArriveShape ==
  ASSUME Shape, NEW u \in Updates, Arrive(u)
  PROVE  Shape'
<1>1. PICK id \in NextIds(u) :
        sent' = [sent EXCEPT ![u] = [state |-> "kept", id |-> id, at |-> clock]]
  BY DEF Arrive
<1>2. id \in Ids
  BY <1>1 DEF NextIds
<1>3. sent' \in [Updates -> SentType]
  BY <1>1, <1>2 DEF Shape, Shaped, SentType
<1> QED
  BY <1>3 DEF Arrive, Shape, Shaped, PollersWhole, Held, ButtonUnlessMarked

LEMMA PollShape ==
  ASSUME Shape, NEW p \in Pollers, Poll(p)
  PROVE  Shape'
<1>1. /\ sent' = Without(Below(pollers[p].offset))
      /\ UNCHANGED <<claims, booking, button, reachable, answers, clock, born>>
      /\ pollers[p].phase = "polling"
  BY DEF Poll
<1>2. faults' \in 0 .. MaxFaults
  <2>1. faults' = faults \/ (faults < MaxFaults /\ faults' = faults + 1)
    BY DEF Poll
  <2> QED
    BY <2>1, InboxAssumption DEF Shape, Shaped
<1>3. Turns(p, {"polling", "settling"}) \/ UNCHANGED pollers
  BY <1>1, FetchTurns DEF Shape
<1>4. PollersWhole' /\ Held'
  BY <1>1, <1>3, TurnKeeps DEF Shape, Shaped, PollersWhole, Held
<1>5. sent' \in [Updates -> SentType]
  BY <1>1, SentKeepsType DEF Shape, Shaped
<1> QED
  BY <1>1, <1>4, <1>5, <1>2 DEF Shape, Shaped, ButtonUnlessMarked

LEMMA ClaimShape ==
  ASSUME Shape, NEW p \in Pollers, Claim(p)
  PROVE  Shape'
<1> DEFINE id == sent[InHand(p)].id
           claim == Taken(claims[id], pollers[p].owner)
<1>1. /\ pollers[p].phase = "settling" /\ faults' \in 0 .. MaxFaults
      /\ UNCHANGED <<sent, booking, button, reachable, answers, clock, born>>
  BY InboxAssumption DEF Claim, Shape, Shaped
<1>2. /\ pollers \in [Pollers -> PollerType] /\ pollers[p] \in PollerType /\ Whole(pollers[p])
      /\ claims \in [Ids -> Claims] /\ clock \in Nat /\ PollersWhole /\ Shaped
  BY DEF Shape, Shaped, PollersWhole
<1>3. sent[InHand(p)] \in SentType
  BY <1>1, <1>2, InHandIsKnown DEF Shaped
<1>4. id \in Ids
  BY <1>3 DEF SentType
<1>5. claim \in Claims
  BY <1>2, <1>4 DEF Taken, Claims, PollerType
<1>6. claim.attempts \in Nat
  BY <1>5 DEF Claims
<1>7. claims' \in {claims, [claims EXCEPT ![id] = claim]}
  BY DEF Claim
<1>8. \/ pollers' = [pollers EXCEPT ![p].phase = "claimed", ![p].attempt = claim.attempts]
      \/ Halt(p) \/ Settle(p)
  BY DEF Claim
<1> HIDE DEF id, claim
<1>9. claims' \in [Ids -> Claims]
  BY <1>2, <1>4, <1>5, <1>7
<1>10. Turns(p, {"claimed", "polling", "settling", "sweeping"})
  <2>1. CASE Halt(p)
    BY <1>2, <2>1, HaltTurns DEF Turns
  <2>2. CASE Settle(p)
    BY <1>1, <1>2, <2>2, SettleTurns DEF Turns
  <2>3. CASE pollers' = [pollers EXCEPT ![p].phase = "claimed", ![p].attempt = claim.attempts]
    <3> DEFINE r == [pollers[p] EXCEPT !.phase = "claimed", !.attempt = claim.attempts]
    <3>1. pollers' = [pollers EXCEPT ![p] = r]
      BY <1>2, <2>3
    <3>2. r \in PollerType
      BY <1>2, <1>6 DEF PollerType, Phases
    <3>3. r.phase = "claimed" /\ r.batch = pollers[p].batch
      BY <1>2 DEF PollerType
    <3> HIDE DEF r
    <3> QED
      BY <1>1, <1>2, <3>1, <3>2, <3>3 DEF Turns, Whole
  <2> QED
    BY <1>8, <2>1, <2>2, <2>3
<1>11. PollersWhole' /\ Held'
  BY <1>1, <1>10, TurnKeeps
<1> QED
  BY <1>1, <1>9, <1>11 DEF Shape, Shaped, ButtonUnlessMarked

LEMMA CancelShape ==
  ASSUME Shape, NEW p \in Pollers, CancelReminded(p)
  PROVE  Shape'
<1>1. /\ pollers[p].phase = "claimed" /\ faults' \in 0 .. MaxFaults
      /\ UNCHANGED <<sent, claims, button, reachable, answers, clock, born>>
      /\ booking' = "plan" => booking = "plan"
      /\ booking' \in Bookings
  BY InboxAssumption DEF CancelReminded, CalledOff, Bookings, Shape, Shaped
<1>2. PICK phase \in {"done", "not_done"} :
        Goes(p, phase) /\ (phase = "done" => booking' # "plan")
  BY DEF CancelReminded, CalledOff
<1>3. Turns(p, {phase})
  BY <1>1, <1>2, GoesTurns DEF Shape, Shaped, Phases
<1>4. PollersWhole' /\ Held'
  BY <1>1, <1>2, <1>3, TurnKeeps
<1> QED
  BY <1>1, <1>4 DEF Shape, Shaped, ButtonUnlessMarked

\* A button that goes was that of an evening that is off.
LEMMA AnswerShape ==
  ASSUME Shape, NEW p \in Pollers, AnswerTap(p) \/ AnswerMessage(p)
  PROVE  Shape'
<1>1. /\ pollers[p].phase \in {"done", "not_done", "read"} /\ Answered(InHand(p)) /\ Settle(p)
      /\ UNCHANGED <<sent, claims, booking, clock, born>>
      /\ reachable' \in BOOLEAN
      /\ button' = button \/ (pollers[p].phase = "done" /\ button' = FALSE)
  BY DEF AnswerTap, AnswerMessage, Spent, Shape, Shaped
<1>2. answers' \in [Updates -> Nat] /\ faults' \in 0 .. MaxFaults
  BY <1>1, InboxAssumption DEF Answered, Shape, Shaped
<1>3. Turns(p, {"polling", "settling", "sweeping"})
  BY <1>1, SettleTurns DEF Shape
<1>4. PollersWhole' /\ Held'
  BY <1>1, <1>3, TurnKeeps
<1>5. button' \in BOOLEAN /\ ButtonUnlessMarked'
  <2>1. CASE button' = button
    BY <1>1, <2>1 DEF Shape, Shaped, ButtonUnlessMarked
  <2>2. CASE pollers[p].phase = "done" /\ button' = FALSE
    <3>1. booking' # "plan"
      BY <1>1, <2>2 DEF Shape, Held
    <3> QED
      BY <2>2, <3>1 DEF ButtonUnlessMarked
  <2> QED
    BY <1>1, <2>1, <2>2
<1> QED
  BY <1>1, <1>2, <1>4, <1>5 DEF Shape, Shaped

LEMMA ReadConfigShape ==
  ASSUME Shape, NEW p \in Pollers, ReadConfig(p)
  PROVE  Shape'
<1>1. /\ pollers[p].phase = "claimed"
      /\ UNCHANGED <<sent, claims, booking, button, reachable, answers, clock, born, faults>>
      /\ Settle(p) \/ Halt(p) \/ Goes(p, "read")
  BY DEF ReadConfig
<1>2. Turns(p, {"polling", "settling", "sweeping"}) \/ Turns(p, {"polling"}) \/ Turns(p, {"read"})
  BY <1>1, SettleTurns, HaltTurns, GoesTurns DEF Shape, Shaped, Phases
<1>3. PollersWhole' /\ Held'
  BY <1>1, <1>2, TurnKeeps
<1> QED
  BY <1>1, <1>3 DEF Shape, Shaped, ButtonUnlessMarked

LEMMA ForgetShape ==
  ASSUME Shape, NEW p \in Pollers, ForgetOldClaims(p)
  PROVE  Shape'
<1>1. /\ pollers[p].phase = "sweeping" /\ Goes(p, "polling")
      /\ UNCHANGED <<sent, booking, button, reachable, answers, clock, born, faults>>
  BY DEF ForgetOldClaims
<1>2. NoClaim \in Claims
  BY DEF NoClaim, Claims
<1>3. claims' \in [Ids -> Claims]
  BY <1>2 DEF ForgetOldClaims, Shape, Shaped
<1>4. Turns(p, {"polling"})
  BY <1>1, GoesTurns DEF Shape, Shaped, Phases
<1>5. PollersWhole' /\ Held'
  BY <1>1, <1>4, TurnKeeps
<1> QED
  BY <1>1, <1>3, <1>5 DEF Shape, Shaped, ButtonUnlessMarked

LEMMA ReplacedShape ==
  ASSUME Shape, NEW p \in Pollers, Start(p) \/ Stop(p) \/ Crash(p)
  PROVE  Shape'
<1>1. /\ Replaced(p) /\ UNCHANGED <<claims, booking, button, reachable, answers, clock, faults>>
      /\ sent' \in {sent, Without(Below(pollers[p].offset))}
  BY DEF Start, Stop, Crash
<1>2. Turns(p, {"polling"}) /\ born' \in Processes
  BY <1>1, ReplacedTurns DEF Shape
<1>3. PollersWhole' /\ Held'
  BY <1>1, <1>2, TurnKeeps
<1>4. sent' \in [Updates -> SentType]
  BY <1>1, SentKeepsType DEF Shape, Shaped
<1> QED
  BY <1>1, <1>2, <1>3, <1>4 DEF Shape, Shaped, ButtonUnlessMarked

LEMMA TickShape ==
  ASSUME Shape, Tick
  PROVE  Shape'
<1>1. sent' \in [Updates -> SentType] /\ clock' \in Nat
  BY SentKeepsType DEF Tick, Shape, Shaped
<1> QED
  BY <1>1 DEF Tick, Shape, Shaped, PollersWhole, Held, ButtonUnlessMarked

LEMMA InitShape ==
  ASSUME Init
  PROVE  Shape
<1>1. sent \in [Updates -> SentType]
  BY InboxAssumption DEF Init, SentType, Ids
<1>2. claims \in [Ids -> Claims]
  BY DEF Init, NoClaim, Claims
<1>3. ASSUME NEW owner \in {0} \cup Processes
      PROVE  /\ Newborn(owner) \in PollerType /\ Newborn(owner).batch = {}
             /\ Newborn(owner).phase = "polling"
  BY InboxAssumption DEF Newborn, PollerType, Phases
<1>4. 1 \in Processes
  BY InboxAssumption DEF Processes
<1>5. PollersWhole /\ Held
  BY <1>3, <1>4 DEF Init, PollersWhole, Whole, Held
<1>6. /\ booking \in Bookings /\ button \in BOOLEAN /\ reachable \in BOOLEAN
      /\ answers \in [Updates -> Nat]
      /\ clock \in Nat /\ born \in Processes /\ faults \in 0 .. MaxFaults
  <2>1. answers \in [Updates -> Nat]
    BY DEF Init
  <2>2. booking = "plan" /\ button = TRUE /\ reachable = FALSE /\ clock = 0 /\ born = 1
    BY DEF Init
  <2>3. faults \in 0 .. MaxFaults
    BY InboxAssumption DEF Init
  <2> QED
    BY <1>4, <2>1, <2>2, <2>3 DEF Bookings
<1>7. ButtonUnlessMarked
  BY DEF Init, ButtonUnlessMarked
<1> QED
  BY <1>1, <1>2, <1>5, <1>6, <1>7 DEF Shape, Shaped

LEMMA StepShape ==
  ASSUME Shape, [Next]_vars
  PROVE  Shape'
<1>1. CASE UNCHANGED vars
  BY <1>1 DEF vars, Shape, Shaped, PollersWhole, Held, ButtonUnlessMarked
<1>2. CASE ChangeBooking
  <2>1. booking' \in Bookings /\ booking' # "plan"
    BY <1>2 DEF ChangeBooking, Bookings
  <2> QED
    BY <1>2, <2>1 DEF ChangeBooking, Shape, Shaped, PollersWhole, Held, ButtonUnlessMarked
<1>3. CASE \E u \in Updates : Arrive(u)
  BY <1>3, ArriveShape
<1>4. ASSUME NEW p \in Pollers, Poll(p) \/ Handle(p) \/ Start(p) \/ Stop(p) \/ Crash(p)
      PROVE  Shape'
  BY <1>4, PollShape, ClaimShape, CancelShape, AnswerShape, ReadConfigShape, ForgetShape,
     ReplacedShape DEF Handle
<1> QED
  BY <1>1, <1>2, <1>3, <1>4, TickShape DEF Next

(***************************************************************************)
(* As long as the booking has been a plan ever since its reminder, the     *)
(* reminder has the button to call it off (inbox.rs, answer_tap), whoever  *)
(* dies between the cancellation and the edit of the message.              *)
(***************************************************************************)
THEOREM ButtonStaysUnlessMarked == Spec => []ButtonUnlessMarked
<1>1. Init => Shape
  BY InitShape
<1>2. Shape /\ [Next]_vars => Shape'
  BY StepShape
<1>3. Shape => ButtonUnlessMarked
  BY DEF Shape
<1> QED
  BY <1>1, <1>2, <1>3, PTL DEF Spec

-----------------------------------------------------------------------------
(***************************************************************************)
(* How often an update is tried.  Its claim counts the attempts, and a     *)
(* process lets go of what has failed too often; but the count would not   *)
(* be bounded if the update could come into hand again after that.  That   *)
(* it cannot is Good once more, of the updates let go in the place of the  *)
(* updates answered.                                                       *)
(***************************************************************************)

\* A claim was taken when an update of its id was in hand.
SourceOf(s, claim, i) ==
  /\ claim.owner = 0 => claim.attempts = 0
  /\ claim.owner # 0 =>
       \E f \in Updates : /\ IsSent(s, f) /\ s[f].id = i /\ s[f].at <= claim.at
                          /\ claim.at <= s[f].at + KeptFor + Patience

Sourced == \A i \in Ids : SourceOf(sent, claims[i], i)

Bounded ==
  /\ \A i \in Ids : claims[i].attempts <= AnswerRetries + 1 + faults
  /\ \A p \in Pollers :
       /\ pollers[p].attempt <= AnswerRetries + 1 + faults
       /\ pollers[p].phase = "claimed" =>
            pollers[p].attempt = claims[sent[First(pollers[p].batch)].id].attempts

\* An update a living process has let go.
Exhausted(u) ==
  /\ IsSent(sent, u) /\ Backed(sent, claims, clock, u)
  /\ claims[sent[u].id].attempts > AnswerRetries + faults
  /\ \E q \in Pollers : pollers[q].owner # 0 /\ pollers[q].owner = claims[sent[u].id].owner
  /\ \A q \in Pollers : pollers[q].phase \in Answering => First(pollers[q].batch) # u

Tried == [u \in Updates |-> IF Exhausted(u) THEN 1 ELSE 0]

TriedInv ==
  /\ Shape
  /\ Good(sent, claims, pollers, Tried, clock, born)
  /\ Sourced /\ Bounded

LEMMA TriedIs ==
  /\ Tried \in [Updates -> Nat]
  /\ \A u \in Updates : Tried[u] = IF Exhausted(u) THEN 1 ELSE 0
BY DEF Tried

\* After a step no more updates are let go than a says.
LEMMA TriedNext ==
  ASSUME NEW a, Good(sent', claims', pollers', a, clock', born'),
         \A u \in Updates : Exhausted(u)' => a[u] # 0
  PROVE  Good(sent', claims', pollers', Tried', clock', born')
<1>1. a \in [Updates -> Nat]
  BY DEF Good, Typed
<1>2. /\ Tried' \in [Updates -> Nat]
      /\ \A u \in Updates : Tried'[u] = IF Exhausted(u)' THEN 1 ELSE 0
  BY DEF Tried
<1>3. \A u \in Updates : Tried'[u] <= a[u]
  BY <1>1, <1>2
<1> QED
  BY <1>2, <1>3, FewerGood

LEMMA TriedFacts ==
  ASSUME TriedInv
  PROVE  /\ Good(sent, claims, pollers, Tried, clock, born)
         /\ sent \in [Updates -> SentRecord] /\ claims \in [Ids -> ClaimRecord]
         /\ pollers \in [Pollers -> PollerRecord]
         /\ clock \in Nat /\ born \in Nat /\ faults \in Nat
         /\ Ordered(sent, clock) /\ Distinguished(claims, pollers, born)
         /\ Sourced /\ Bounded
<1>1. faults \in Nat
  BY InboxAssumption DEF TriedInv, Shape, Shaped
<1> QED
  BY <1>1 DEF TriedInv, Good, Typed

\* A step that leaves an update, its claim and whoever answers it alone does
\* not let it go.
LEMMA ExhaustedWas ==
  ASSUME TriedInv, NEW u \in Updates, Exhausted(u)',
         IsSent(sent, u), sent'[u].id = sent[u].id, sent'[u].at = sent[u].at,
         clock' \in Nat, clock <= clock', faults' \in Nat, faults <= faults',
         claims'[sent[u].id] = claims[sent[u].id],
         \A q \in Pollers : pollers'[q].owner \in {pollers[q].owner, born + 1},
         \A q \in Pollers : pollers[q].phase \in Answering /\ First(pollers[q].batch) = u =>
           \/ pollers'[q].phase \in Answering /\ First(pollers'[q].batch) = u
           \/ pollers'[q].owner = born + 1
  PROVE  Exhausted(u)
<1> DEFINE claim == claims[sent[u].id]
<1>1. /\ Good(sent, claims, pollers, Tried, clock, born)
      /\ clock \in Nat /\ born \in Nat /\ faults \in Nat
      /\ Distinguished(claims, pollers, born) /\ Ordered(sent, clock)
      /\ sent[u].at \in Nat
  BY TriedFacts DEF SentRecord
<1>2. sent[u].id \in Ids
  BY <1>1 DEF Ordered
<1>3. /\ claim.attempts \in Nat /\ claim.at \in Nat /\ claim.owner \in Nat
      /\ claim.owner <= born
  BY <1>1, <1>2, TriedFacts DEF ClaimRecord, Distinguished
<1>4. /\ claim.owner # 0 /\ sent[u].at <= claim.at
      /\ claim.at <= sent[u].at + KeptFor + Patience /\ clock' <= claim.at + Remembered
      /\ claim.attempts > AnswerRetries + faults'
      /\ \A q \in Pollers : pollers'[q].phase \in Answering => First(pollers'[q].batch) # u
  BY DEF Exhausted, Backed
<1>5. PICK q \in Pollers : pollers'[q].owner # 0 /\ pollers'[q].owner = claim.owner
  BY DEF Exhausted
<1> HIDE DEF claim
<1>6. Backed(sent, claims, clock, u)
  <2>1. clock <= claim.at + Remembered
    BY <1>1, <1>3, <1>4, InboxAssumption
  <2> QED
    BY <1>4, <2>1 DEF Backed, claim
<1>7. claim.attempts > AnswerRetries + faults
  BY <1>1, <1>3, <1>4, InboxAssumption
<1>8. pollers[q].owner # 0 /\ pollers[q].owner = claim.owner /\ pollers'[q].owner # born + 1
  BY <1>1, <1>3, <1>5
<1>9. ASSUME NEW o \in Pollers, pollers[o].phase \in Answering, First(pollers[o].batch) = u
      PROVE  FALSE
  <2>1. pollers[o].owner # 0 /\ pollers[o].owner = claim.owner
    BY <1>1, <1>9, AnsweringIsClaimed DEF claim
  <2>2. o = q
    BY <1>1, <1>8, <2>1 DEF Distinguished
  <2> QED
    BY <1>4, <1>8, <1>9, <2>2
<1> QED
  BY <1>4, <1>6, <1>7, <1>8, <1>9 DEF Exhausted, claim

LEMMA SourceStays ==
  ASSUME Sourced, \A u \in Updates : IsSent(sent, u) =>
                    IsSent(sent', u) /\ sent'[u].id = sent[u].id /\ sent'[u].at = sent[u].at,
         NEW i \in Ids, claims'[i] \in {claims[i], NoClaim}
  PROVE  SourceOf(sent', claims'[i], i)
<1>1. CASE claims'[i] = claims[i]
  BY <1>1 DEF Sourced, SourceOf
<1>2. CASE claims'[i] = NoClaim
  BY <1>2 DEF SourceOf, NoClaim
<1> QED
  BY <1>1, <1>2
\* One process moves; the claims others answer with stay.
LEMMA BoundedNext ==
  ASSUME TriedInv, NEW p \in Pollers, \A q \in Pollers : q # p => pollers'[q] = pollers[q],
         SameLetters, faults' \in Nat, faults <= faults',
         \A i \in Ids : claims'[i].attempts <= AnswerRetries + 1 + faults',
         pollers'[p].attempt <= AnswerRetries + 1 + faults',
         pollers'[p].phase = "claimed" =>
           pollers'[p].attempt = claims'[sent[First(pollers'[p].batch)].id].attempts,
         First(pollers'[p].batch) \in Updates \/ pollers'[p].phase # "claimed",
         \A q \in Pollers : q # p /\ pollers[q].phase \in Answering =>
           claims'[sent[First(pollers[q].batch)].id] = claims[sent[First(pollers[q].batch)].id]
  PROVE  Bounded'
<1>1. /\ Bounded /\ faults \in Nat /\ AnswerRetries \in Nat
      /\ pollers \in [Pollers -> PollerRecord]
      /\ Good(sent, claims, pollers, Tried, clock, born)
  BY TriedFacts, InboxAssumption
<1>2. ASSUME NEW q \in Pollers
      PROVE  /\ pollers'[q].attempt <= AnswerRetries + 1 + faults'
             /\ pollers'[q].phase = "claimed" =>
                  pollers'[q].attempt = claims'[sent'[First(pollers'[q].batch)].id].attempts
  <2>1. CASE q = p
    BY <2>1 DEF SameLetters
  <2>2. CASE q # p
    <3>1. pollers'[q] = pollers[q] /\ pollers[q].attempt \in Nat
      BY <1>1, <2>2 DEF PollerRecord
    <3>2. pollers[q].attempt <= AnswerRetries + 1 + faults'
      BY <1>1, <3>1 DEF Bounded
    <3>3. ASSUME pollers[q].phase = "claimed"
          PROVE  pollers[q].attempt = claims'[sent'[First(pollers[q].batch)].id].attempts
      <4>1. pollers[q].phase \in Answering
        BY <3>3 DEF Answering
      <4>2. First(pollers[q].batch) \in Updates
        BY <1>1, <4>1, AnsweringIsClaimed
      <4>3. sent'[First(pollers[q].batch)].id = sent[First(pollers[q].batch)].id
        BY <4>2 DEF SameLetters
      <4> QED
        BY <1>1, <2>2, <3>3, <4>1, <4>3 DEF Bounded
    <3> QED
      BY <3>1, <3>2, <3>3
  <2> QED
    BY <2>1, <2>2
<1> QED
  BY <1>2 DEF Bounded

\* What a process does to its poller.
Moved(p, owner, attempts, phases) ==
  /\ pollers'[p].owner = owner
  /\ pollers'[p].attempt \in attempts
  /\ pollers'[p].phase \in phases
  /\ \A q \in Pollers : q # p => pollers'[q] = pollers[q]

LEMMA HaltMoves ==
  ASSUME pollers \in [Pollers -> PollerRecord], NEW p \in Pollers, Halt(p)
  PROVE  Moved(p, pollers[p].owner, {0}, {"polling"})
<1>1. pollers[p] \in PollerRecord
  OBVIOUS
<1> QED
  BY <1>1 DEF Halt, Moved, PollerRecord

LEMMA SettleMoves ==
  ASSUME pollers \in [Pollers -> PollerRecord], NEW p \in Pollers, Settle(p)
  PROVE  Moved(p, pollers[p].owner, {0}, {"polling", "settling", "sweeping"})
<1>1. pollers[p] \in PollerRecord
  OBVIOUS
<1> QED
  BY <1>1 DEF Settle, Moved, PollerRecord

LEMMA GoesMoves ==
  ASSUME pollers \in [Pollers -> PollerRecord], NEW p \in Pollers, NEW phase, Goes(p, phase)
  PROVE  /\ Moved(p, pollers[p].owner, {pollers[p].attempt}, {phase})
         /\ pollers'[p].batch = pollers[p].batch
<1>1. pollers[p] \in PollerRecord
  OBVIOUS
<1> QED
  BY <1>1 DEF Goes, Moved, PollerRecord

LEMMA ReplacedMoves ==
  ASSUME pollers \in [Pollers -> PollerRecord], NEW p \in Pollers, Replaced(p)
  PROVE  Moved(p, born + 1, {0}, {"polling"})
BY DEF Replaced, NextOwner, Newborn, Moved

LEMMA PollMoves ==
  ASSUME pollers \in [Pollers -> PollerRecord], NEW p \in Pollers, Poll(p)
  PROVE  Moved(p, pollers[p].owner, {pollers[p].attempt}, {"polling", "settling"})
<1> DEFINE fetched == Kept \ Below(pollers[p].offset)
           at == IF fetched = {} THEN 0 ELSE clock
<1>1. pollers[p] \in PollerRecord /\ pollers[p].phase = "polling"
  BY DEF Poll
<1>2. \/ UNCHANGED pollers
      \/ pollers' = [pollers EXCEPT ![p].confirmed = pollers[p].offset, ![p].batch = fetched,
                                    ![p].fetched_at = at,
                                    ![p].phase = IF fetched = {} THEN @ ELSE "settling"]
  BY DEF Poll
<1> HIDE DEF fetched, at
<1>3. CASE UNCHANGED pollers
  BY <1>1, <1>3 DEF Moved
<1> QED
  BY <1>1, <1>2, <1>3 DEF Moved, PollerRecord

\* A process moves, nothing is claimed or let go: the tries stay bounded.
LEMMA MoveKeeps ==
  ASSUME TriedInv, NEW p \in Pollers, NEW owner \in {pollers[p].owner, born + 1},
         NEW attempts, attempts \subseteq {0, pollers[p].attempt}, NEW phases,
         Moved(p, owner, attempts, phases), "claimed" \notin phases,
         UNCHANGED <<claims, clock>>, SameLetters, faults' \in Nat, faults <= faults'
  PROVE  /\ Sourced' /\ Bounded'
         /\ \A u \in Updates :
              /\ Exhausted(u)'
              /\ pollers[p].phase \in Answering /\ First(pollers[p].batch) = u =>
                   \/ pollers'[p].phase \in Answering /\ First(pollers'[p].batch) = u
                   \/ owner = born + 1
              => Exhausted(u)
<1>1. /\ Bounded /\ Sourced /\ faults \in Nat /\ AnswerRetries \in Nat /\ clock \in Nat
      /\ pollers \in [Pollers -> PollerRecord] /\ claims \in [Ids -> ClaimRecord]
  BY TriedFacts, InboxAssumption
<1>2. Sourced'
  BY <1>1, SourceStays DEF SameLetters, Sourced
<1>3. \A i \in Ids : claims'[i].attempts <= AnswerRetries + 1 + faults'
  BY <1>1 DEF Bounded, ClaimRecord
<1>4. pollers'[p].attempt <= AnswerRetries + 1 + faults'
  <2>1. pollers[p].attempt \in Nat /\ pollers[p].attempt <= AnswerRetries + 1 + faults
    BY <1>1 DEF Bounded, PollerRecord
  <2>2. pollers'[p].attempt \in {0, pollers[p].attempt}
    BY DEF Moved
  <2> QED
    BY <1>1, <2>1, <2>2
<1>5. Bounded'
  BY <1>3, <1>4, BoundedNext DEF Moved
<1>6. ASSUME NEW u \in Updates, Exhausted(u)',
             pollers[p].phase \in Answering /\ First(pollers[p].batch) = u =>
               \/ pollers'[p].phase \in Answering /\ First(pollers'[p].batch) = u
               \/ owner = born + 1
      PROVE  Exhausted(u)
  <2>1. IsSent(sent, u) /\ sent'[u].id = sent[u].id /\ sent'[u].at = sent[u].at
    BY <1>6 DEF Exhausted, SameLetters
  <2>2. clock' \in Nat /\ clock <= clock'
    BY <1>1
  <2>3. \A q \in Pollers : pollers'[q].owner \in {pollers[q].owner, born + 1}
    BY DEF Moved
  <2>4. \A q \in Pollers : pollers[q].phase \in Answering /\ First(pollers[q].batch) = u =>
          \/ pollers'[q].phase \in Answering /\ First(pollers'[q].batch) = u
          \/ pollers'[q].owner = born + 1
    BY <1>6 DEF Moved
  <2> QED
    BY <1>6, <2>1, <2>2, <2>3, <2>4, ExhaustedWas
<1> QED
  BY <1>2, <1>5, <1>6

TriesKept ==
  Good(sent', claims', pollers', Tried', clock', born') /\ Sourced' /\ Bounded'

LEMMA PollTries ==
  ASSUME TriedInv, NEW p \in Pollers, Poll(p)
  PROVE  TriesKept
<1>1. /\ pollers[p].phase = "polling" /\ sent' = Without(Below(pollers[p].offset))
      /\ UNCHANGED <<claims, clock, born>>
      /\ faults' = faults \/ faults' = faults + 1
  BY DEF Poll
<1>2. faults' \in Nat /\ faults <= faults'
  BY <1>1, TriedFacts
<1>3. SameLetters
  BY <1>1, TriedFacts, WithoutIsSame DEF Below
<1>4. Moved(p, pollers[p].owner, {pollers[p].attempt}, {"polling", "settling"})
  BY TriedFacts, PollMoves
<1>5. /\ Sourced' /\ Bounded'
      /\ \A u \in Updates : Exhausted(u)' => Exhausted(u)
  BY <1>1, <1>2, <1>3, <1>4, MoveKeeps DEF Answering
<1>6. Good(sent', claims', pollers', Tried, clock', born')
  BY TriedFacts, PollKeeps
<1> QED
  BY <1>5, <1>6, TriedIs, TriedNext DEF TriesKept

LEMMA GoesTries ==
  ASSUME TriedInv, NEW p \in Pollers, NEW phase \in Phases, phase # "claimed", Goes(p, phase),
         pollers[p].phase \in Answering => phase \in Answering,
         Good(sent', claims', pollers', Tried, clock', born'),
         UNCHANGED <<sent, claims, clock, born>>, faults' = faults \/ faults' = faults + 1
  PROVE  TriesKept
<1>1. faults' \in Nat /\ faults <= faults'
  BY TriedFacts
<1>2. SameLetters
  BY DEF SameLetters
<1>3. /\ Moved(p, pollers[p].owner, {pollers[p].attempt}, {phase})
      /\ pollers'[p].batch = pollers[p].batch
  BY TriedFacts, GoesMoves
<1>4. pollers[p].phase \in Answering => pollers'[p].phase \in Answering
  BY <1>3 DEF Moved
<1>5. /\ Sourced' /\ Bounded'
      /\ \A u \in Updates : Exhausted(u)' => Exhausted(u)
  BY <1>1, <1>2, <1>3, <1>4, MoveKeeps
<1> QED
  BY <1>5, TriedIs, TriedNext DEF TriesKept

LEMMA CancelTries ==
  ASSUME TriedInv, NEW p \in Pollers, CancelReminded(p)
  PROVE  TriesKept
<1>1. /\ UNCHANGED <<sent, claims, clock, born>>
      /\ faults' = faults \/ faults' = faults + 1
  BY DEF CancelReminded
<1>2. PICK phase \in {"done", "not_done"} : Goes(p, phase)
  BY DEF CancelReminded
<1>3. Good(sent', claims', pollers', Tried, clock', born')
  BY TriedFacts, CancelRemindedKeeps
<1>4. phase \in Phases /\ phase # "claimed" /\ phase \in Answering
  BY DEF Phases, Answering
<1> QED
  BY <1>1, <1>2, <1>3, <1>4, GoesTries

\* What was being answered is let go for good.
LEMMA SettledTries ==
  ASSUME TriedInv, NEW p \in Pollers, pollers[p].phase \in Answering, Settle(p),
         UNCHANGED <<sent, claims, clock, born>>, faults' = faults \/ faults' = faults + 1
  PROVE  TriesKept
<1> DEFINE f == InHand(p)
           a == [Tried EXCEPT ![f] = @ + 1]
<1>1. faults' \in Nat /\ faults <= faults'
  BY TriedFacts
<1>2. SameLetters
  BY DEF SameLetters
<1>3. Moved(p, pollers[p].owner, {0}, {"polling", "settling", "sweeping"})
  BY TriedFacts, SettleMoves
<1>4. f = First(pollers[p].batch)
  BY DEF InHand, First
<1>5. /\ Sourced' /\ Bounded'
      /\ \A u \in Updates : Exhausted(u)' => u = f \/ Exhausted(u)
  BY <1>1, <1>2, <1>3, <1>4, MoveKeeps
<1>6. Good(sent', claims', pollers', a, clock', born')
  BY TriedFacts, AnswerKeeps
<1>7. ASSUME NEW u \in Updates, u = f \/ Exhausted(u)
      PROVE  a[u] # 0
  BY <1>7, TriedIs
<1> HIDE DEF a, f
<1> QED
  BY <1>5, <1>6, <1>7, TriedNext DEF TriesKept

\* An update that failed too seldom to be let go has tries left.
LEMMA ReadConfigTries ==
  ASSUME TriedInv, NEW p \in Pollers, ReadConfig(p)
  PROVE  TriesKept
<1>1. /\ pollers[p].phase = "claimed" /\ UNCHANGED <<sent, claims, clock, born, faults>>
      /\ Goes(p, "read") \/ Settle(p) \/ (Halt(p) /\ ~LetGo(pollers[p].attempt))
  BY DEF ReadConfig
<1>2. pollers[p].phase \in Answering
  BY <1>1 DEF Answering
<1>3. Good(sent', claims', pollers', Tried, clock', born')
  BY TriedFacts, ReadConfigKeeps
<1>4. CASE Goes(p, "read")
  BY <1>1, <1>3, <1>4, GoesTries DEF Phases, Answering
<1>5. CASE Settle(p)
  BY <1>1, <1>2, <1>5, SettledTries
<1>6. CASE Halt(p) /\ ~LetGo(pollers[p].attempt)
  <2> DEFINE f == First(pollers[p].batch)
  <2>1. faults' \in Nat /\ faults <= faults' /\ SameLetters
    BY <1>1, TriedFacts DEF SameLetters
  <2>2. Moved(p, pollers[p].owner, {0}, {"polling"})
    BY <1>6, TriedFacts, HaltMoves
  <2>3. /\ Sourced' /\ Bounded'
        /\ \A u \in Updates : u # f /\ Exhausted(u)' => Exhausted(u)
    BY <1>1, <2>1, <2>2, MoveKeeps
  <2>4. ASSUME NEW u \in Updates, u = f
        PROVE  ~Exhausted(u)'
    <3>1. sent[u].id \in Ids
      BY <1>2, <2>4, TriedFacts, AnsweringIsClaimed
    <3>2. pollers[p].attempt = claims[sent[u].id].attempts
      BY <1>1, <2>4, TriedFacts DEF Bounded
    <3>3. claims[sent[u].id].attempts \in Nat
      BY <3>1, TriedFacts DEF ClaimRecord
    <3>4. claims'[sent'[u].id].attempts <= AnswerRetries
      BY <1>1, <1>6, <3>2, <3>3, InboxAssumption DEF LetGo
    <3>5. claims'[sent'[u].id].attempts \in Nat
      BY <1>1, <3>3
    <3> QED
      BY <3>4, <3>5, <2>1, InboxAssumption DEF Exhausted
  <2>5. \A u \in Updates : Exhausted(u)' => Exhausted(u)
    BY <2>3, <2>4
  <2> QED
    BY <1>3, <2>3, <2>5, TriedIs, TriedNext DEF TriesKept
<1> QED
  BY <1>1, <1>4, <1>5, <1>6

LEMMA ReplacedTries ==
  ASSUME TriedInv, NEW p \in Pollers, Start(p) \/ Stop(p) \/ Crash(p)
  PROVE  TriesKept
<1>1. /\ Replaced(p) /\ UNCHANGED <<claims, clock, faults>>
      /\ UNCHANGED sent \/ sent' = Without(Below(pollers[p].offset))
  BY DEF Start, Stop, Crash
<1>2. SameLetters /\ faults' \in Nat /\ faults <= faults'
  BY <1>1, TriedFacts, WithoutIsSame DEF Below
<1>3. Moved(p, born + 1, {0}, {"polling"})
  BY <1>1, TriedFacts, ReplacedMoves
<1>4. /\ Sourced' /\ Bounded'
      /\ \A u \in Updates : Exhausted(u)' => Exhausted(u)
  BY <1>1, <1>2, <1>3, MoveKeeps
<1>5. Good(sent', claims', pollers', Tried, clock', born')
  BY TriedFacts, StartKeeps, StopKeeps
<1> QED
  BY <1>4, <1>5, TriedIs, TriedNext DEF TriesKept

LEMMA ForgetTries ==
  ASSUME TriedInv, NEW p \in Pollers, ForgetOldClaims(p)
  PROVE  TriesKept
<1>1. /\ pollers[p].phase = "sweeping" /\ Goes(p, "polling")
      /\ UNCHANGED <<sent, clock, born, faults>>
  BY DEF ForgetOldClaims
<1>2. ASSUME NEW i \in Ids
      PROVE  \/ claims'[i] = claims[i]
             \/ claims'[i] = NoClaim /\ claims[i].at < clock - Remembered
  BY DEF ForgetOldClaims, Forgotten
<1>3. /\ clock \in Nat /\ faults \in Nat /\ claims \in [Ids -> ClaimRecord]
      /\ pollers \in [Pollers -> PollerRecord] /\ Bounded /\ Sourced
      /\ sent \in [Updates -> SentRecord] /\ Ordered(sent, clock)
  BY TriedFacts
<1>4. SameLetters /\ faults' \in Nat /\ faults <= faults'
  BY <1>1, <1>3 DEF SameLetters
<1>5. Moved(p, pollers[p].owner, {pollers[p].attempt}, {"polling"})
  BY <1>1, <1>3, GoesMoves
<1>6. Sourced'
  BY <1>2, <1>3, <1>4, SourceStays DEF SameLetters, Sourced
<1>7. Bounded'
  <2>1. ASSUME NEW i \in Ids
        PROVE  claims'[i].attempts <= AnswerRetries + 1 + faults'
    <3>1. claims[i].attempts <= AnswerRetries + 1 + faults'
      BY <1>1, <1>3 DEF Bounded
    <3>2. NoClaim.attempts = 0
      BY DEF NoClaim
    <3>3. 0 <= AnswerRetries + 1 + faults
      BY <1>3, InboxAssumption
    <3> QED
      BY <1>1, <1>2, <3>1, <3>2, <3>3
  <2>2. ASSUME NEW q \in Pollers, pollers[q].phase \in Answering
        PROVE  claims'[sent[First(pollers[q].batch)].id]
                 = claims[sent[First(pollers[q].batch)].id]
    <3> DEFINE i == sent[First(pollers[q].batch)].id
    <3>1. i \in Ids /\ clock - Remembered <= claims[i].at
      BY <2>2, TriedFacts, AnsweringIsClaimed
    <3>2. claims[i].at \in Nat
      BY <1>3, <3>1 DEF ClaimRecord
    <3> HIDE DEF i
    <3>3. ~(claims[i].at < clock - Remembered)
      BY <1>3, <3>1, <3>2, InboxAssumption
    <3>4. claims'[i] = claims[i]
      BY <1>2, <3>1, <3>3
    <3> QED
      BY <3>4 DEF i
  <2>3. pollers'[p].attempt <= AnswerRetries + 1 + faults' /\ pollers'[p].phase # "claimed"
    BY <1>1, <1>3, <1>5 DEF Moved, Bounded
  <2>4. \A q \in Pollers : q # p => pollers'[q] = pollers[q]
    BY <1>5 DEF Moved
  <2> QED
    BY <1>4, <2>1, <2>2, <2>3, <2>4, BoundedNext
<1>8. ASSUME NEW u \in Updates, Exhausted(u)'
      PROVE  Exhausted(u)
  <2>1. IsSent(sent, u) /\ sent'[u].id = sent[u].id /\ sent'[u].at = sent[u].at
        /\ claims'[sent[u].id].attempts > AnswerRetries + faults
    BY <1>1, <1>8 DEF Exhausted, IsSent
  <2>2. sent[u].id \in Ids
    BY <1>3, <2>1 DEF Ordered
  <2>3. claims'[sent[u].id] = claims[sent[u].id]
    BY <1>2, <1>3, <2>1, <2>2, InboxAssumption DEF NoClaim
  <2>4. clock' \in Nat /\ clock <= clock'
    BY <1>1, <1>3
  <2>5. \A q \in Pollers : pollers'[q].owner \in {pollers[q].owner, born + 1}
    BY <1>5 DEF Moved
  <2>6. \A q \in Pollers : pollers[q].phase \in Answering /\ First(pollers[q].batch) = u =>
          \/ pollers'[q].phase \in Answering /\ First(pollers'[q].batch) = u
          \/ pollers'[q].owner = born + 1
    BY <1>1, <1>5 DEF Moved, Answering
  <2> QED
    BY <1>4, <1>8, <2>1, <2>3, <2>4, <2>5, <2>6, ExhaustedWas
<1>9. Good(sent', claims', pollers', Tried, clock', born')
  BY TriedFacts, ForgetKeeps
<1> QED
  BY <1>6, <1>7, <1>8, <1>9, TriedIs, TriedNext DEF TriesKept

LEMMA TickTries ==
  ASSUME TriedInv, Tick
  PROVE  TriesKept
<1>1. /\ sent' = Without({u \in Kept : sent[u].at + KeptFor < clock'}) /\ clock' = clock + 1
      /\ UNCHANGED <<claims, pollers, born, faults>>
  BY DEF Tick
<1>2. /\ clock \in Nat /\ faults \in Nat /\ Bounded /\ Sourced
      /\ sent \in [Updates -> SentRecord]
      /\ Good(sent, claims, pollers, Tried, clock, born)
  BY TriedFacts
<1>3. SameLetters
  BY <1>1, <1>2, WithoutIsSame
<1>4. Sourced'
  BY <1>1, <1>2, <1>3, SourceStays DEF SameLetters, Sourced
<1>5. ASSUME NEW p \in Pollers, pollers[p].phase = "claimed"
      PROVE  sent'[First(pollers[p].batch)].id = sent[First(pollers[p].batch)].id
  <2>1. First(pollers[p].batch) \in Updates
    BY <1>2, <1>5, AnsweringIsClaimed DEF Answering
  <2> QED
    BY <1>3, <2>1 DEF SameLetters
<1>6. Bounded'
  BY <1>1, <1>2, <1>5 DEF Bounded
<1>7. ASSUME NEW u \in Updates, Exhausted(u)'
      PROVE  Exhausted(u)
  <2>1. IsSent(sent, u) /\ sent'[u].id = sent[u].id /\ sent'[u].at = sent[u].at
    BY <1>3, <1>7 DEF Exhausted, SameLetters
  <2>2. clock' \in Nat /\ clock <= clock' /\ faults' \in Nat /\ faults <= faults'
    BY <1>1, <1>2
  <2>3. claims'[sent[u].id] = claims[sent[u].id] /\ pollers' = pollers
    BY <1>1
  <2> QED
    BY <1>7, <2>1, <2>2, <2>3, ExhaustedWas
\* What is let go after the step has a claim that outlives it.
<1>8. PICK e : e = Tried'
  OBVIOUS
<1>9. /\ e \in [Updates -> Nat]
      /\ \A u \in Updates : e[u] = IF Exhausted(u)' THEN 1 ELSE 0
  BY <1>8 DEF Tried
<1>10. Good(sent, claims, pollers, e, clock, born)
  <2>1. \A u \in Updates : e[u] <= Tried[u]
    BY <1>7, <1>9, TriedIs
  <2> QED
    BY <1>2, <1>9, <2>1, FewerGood
<1>11. ASSUME NEW u \in Updates, e[u] # 0
       PROVE  clock + 1 <= claims[sent[u].id].at + Remembered
  BY <1>1, <1>3, <1>9, <1>11 DEF Exhausted, Backed, SameLetters
<1>12. Good(sent', claims', pollers', e, clock', born')
  BY <1>10, <1>11, TickKeeps
<1>13. \A u \in Updates : Exhausted(u)' => e[u] # 0
  BY <1>9
<1> QED
  BY <1>4, <1>6, <1>12, <1>13, TriedNext DEF TriesKept

\* A new update is not let go, for a claim of its id is an old one's.
LEMMA ArriveTries ==
  ASSUME TriedInv, NEW u \in Updates, Arrive(u)
  PROVE  TriesKept
<1>1. PICK id \in NextIds(u) :
           sent' = [sent EXCEPT ![u] = [state |-> "kept", id |-> id, at |-> clock]]
  BY DEF Arrive
<1>2. ~IsSent(sent, u) /\ UNCHANGED <<claims, pollers, clock, born, faults>>
  BY DEF Arrive, IsSent
<1>3. /\ clock \in Nat /\ faults \in Nat /\ Bounded /\ Sourced
      /\ sent \in [Updates -> SentRecord] /\ claims \in [Ids -> ClaimRecord]
      /\ Ordered(sent, clock)
      /\ Good(sent, claims, pollers, Tried, clock, born)
  BY TriedFacts
<1>4. /\ sent'[u].id = id /\ sent'[u].at = clock /\ IsSent(sent', u)
      /\ \A v \in Updates : v # u => sent'[v] = sent[v]
  BY <1>1, <1>3 DEF IsSent
<1>5. \A v \in Updates : IsSent(sent, v) => IsSent(sent', v) /\ sent'[v] = sent[v]
  BY <1>2, <1>4 DEF IsSent
<1>6. Sourced'
  BY <1>2, <1>3, <1>5, SourceStays DEF Sourced
<1>7. ASSUME NEW p \in Pollers, pollers[p].phase = "claimed"
      PROVE  sent'[First(pollers[p].batch)].id = sent[First(pollers[p].batch)].id
  <2>1. Recent(sent, clock, First(pollers[p].batch)) /\ First(pollers[p].batch) \in Updates
    BY <1>3, <1>7, AnsweringIsClaimed DEF Answering
  <2> QED
    BY <1>5, <2>1 DEF Recent
<1>8. Bounded'
  BY <1>2, <1>3, <1>7 DEF Bounded
<1>9. Good(sent', claims', pollers', Tried, clock', born')
  BY TriedFacts, ArriveKeeps
<1>10. ~Exhausted(u)'
  <2> SUFFICES ASSUME Exhausted(u)'
               PROVE  FALSE
    OBVIOUS
  <2>1. Ordered(sent', clock)
    BY <1>2, <1>9 DEF Good
  <2>2. id \in Ids /\ id \in Nat
    BY <1>4, <2>1, InboxAssumption DEF Ordered, Ids
  <2>3. clock <= claims[id].at /\ claims[id].attempts > AnswerRetries + faults
    BY <1>2, <1>4 DEF Exhausted, Backed
  <2>4. claims[id].attempts \in Nat /\ claims[id].attempts # 0 /\ claims[id].at \in Nat
    BY <1>3, <2>2, <2>3, InboxAssumption DEF ClaimRecord
  <2>5. PICK f \in Updates : /\ IsSent(sent, f) /\ sent[f].id = id
                             /\ claims[id].at <= sent[f].at + KeptFor + Patience
    BY <1>3, <2>2, <2>4 DEF Sourced, SourceOf
  <2>6. f \in Nat /\ u \in Nat /\ f # u /\ sent[f].at \in Nat
    BY <1>2, <1>3, <2>5, InboxAssumption DEF Updates, SentRecord
  <2>7. ~(u < f)
    BY <1>2, <1>3, <2>5 DEF Ordered, Numbered
  <2>8. Numbered(sent', f, u)
    BY <1>4, <2>1, <2>6, <2>7 DEF Ordered
  <2>9. sent[f].at + QuietFor <= clock
    BY <1>4, <1>5, <2>2, <2>5, <2>8 DEF Numbered
  <2> QED
    BY <1>3, <2>3, <2>4, <2>5, <2>6, <2>9, InboxAssumption
<1>11. ASSUME NEW v \in Updates, Exhausted(v)'
       PROVE  Exhausted(v)
  <2>1. v # u
    BY <1>10, <1>11
  <2>2. IsSent(sent, v) /\ sent'[v] = sent[v]
    BY <1>4, <1>11, <2>1 DEF Exhausted, IsSent
  <2>3. clock' \in Nat /\ clock <= clock' /\ faults' \in Nat /\ faults <= faults'
    BY <1>2, <1>3
  <2>4. claims'[sent[v].id] = claims[sent[v].id] /\ pollers' = pollers
    BY <1>2
  <2> QED
    BY <1>11, <2>2, <2>3, <2>4, ExhaustedWas
<1> QED
  BY <1>6, <1>8, <1>9, <1>11, TriedIs, TriedNext DEF TriesKept

\* A claim that may be taken has a try left.
LEMMA TriesLeft ==
  ASSUME TriedInv, NEW p \in Pollers, pollers[p].phase = "settling",
         NEW f, f = First(pollers[p].batch),
         MayTake(claims[sent[f].id], pollers[p].owner)
  PROVE  LET claim == Taken(claims[sent[f].id], pollers[p].owner) IN
         /\ claim \in ClaimRecord
         /\ claim.attempts <= AnswerRetries + 1 + faults
         /\ SourceOf(sent, claim, sent[f].id)
<1> DEFINE id == sent[f].id
           old == claims[id]
           claim == Taken(old, pollers[p].owner)
<1>1. /\ Good(sent, claims, pollers, Tried, clock, born)
      /\ sent \in [Updates -> SentRecord] /\ claims \in [Ids -> ClaimRecord]
      /\ clock \in Nat /\ faults \in Nat /\ pollers[p] \in PollerRecord
      /\ Ordered(sent, clock) /\ Distinguished(claims, pollers, born) /\ Sourced
      /\ InHands(sent, pollers[p], clock) /\ NotAgain(sent, claims, pollers[p], Tried)
  BY TriedFacts DEF Good
<1>2. pollers[p].batch # {} /\ pollers[p].batch \in SUBSET Updates /\ pollers[p].owner # 0
  BY <1>1 DEF InHands, PollerRecord
<1>3. f \in pollers[p].batch /\ f \in Updates
  BY <1>2, FirstIs
<1>4. Recent(sent, clock, f) /\ Fetched(sent, pollers[p], clock, f)
  BY <1>1, <1>3, InBatchIsRecent DEF InHands
<1>5. id \in Ids /\ sent[f].at \in Nat /\ sent[f].at <= clock /\ IsSent(sent, f)
  BY <1>1, <1>3, <1>4 DEF Ordered, Recent, SentRecord
<1>6. clock <= sent[f].at + KeptFor + Patience
  <2>1. pollers[p].fetched_at \in Nat
    BY <1>1 DEF PollerRecord
  <2> QED
    BY <1>1, <1>4, <1>5, <2>1, InboxAssumption DEF Fetched
<1>7. old \in ClaimRecord /\ old.attempts \in Nat /\ old.at \in Nat /\ pollers[p].owner \in Nat
  BY <1>1, <1>5 DEF ClaimRecord, PollerRecord
<1>8. /\ claim = [owner |-> pollers[p].owner, at |-> clock,
                  attempts |-> IF Forgotten(old) THEN 1 ELSE old.attempts + 1]
      /\ MayTake(old, pollers[p].owner)
      /\ SourceOf(sent, old, id)
  BY <1>1, <1>5 DEF Taken, Sourced
<1> HIDE DEF old, claim
<1>9. /\ claim \in ClaimRecord /\ claim.owner = pollers[p].owner /\ claim.at = clock
      /\ claim.attempts = IF Forgotten(old) THEN 1 ELSE old.attempts + 1
  BY <1>1, <1>7, <1>8 DEF ClaimRecord
<1>10. SourceOf(sent, claim, id)
  BY <1>2, <1>3, <1>5, <1>6, <1>9 DEF SourceOf
<1>11. ASSUME ~Forgotten(old)
       PROVE  old.attempts <= AnswerRetries + faults
  <2> SUFFICES ASSUME old.attempts > AnswerRetries + faults
               PROVE  FALSE
    BY <1>1, <1>7, InboxAssumption
  <2>1. old.owner # 0
    BY <1>1, <1>7, <1>8, InboxAssumption DEF SourceOf
  <2>2. old.owner = pollers[p].owner
    BY <1>8, <1>11, <2>1 DEF MayTake
  <2>3. PICK g \in Updates : /\ IsSent(sent, g) /\ sent[g].id = id /\ sent[g].at <= old.at
                             /\ old.at <= sent[g].at + KeptFor + Patience
    BY <1>8, <2>1 DEF SourceOf
  <2>4. f \in Nat /\ g \in Nat /\ sent[g].at \in Nat /\ id \in Nat
    <3>1. f \in Nat /\ g \in Nat
      BY <1>3, InboxAssumption DEF Updates
    <3>2. sent[g] \in SentRecord /\ sent[f] \in SentRecord
      BY <1>1, <1>3
    <3> QED
      BY <3>1, <3>2 DEF SentRecord
  <2>5. g = f
    <3>1. ~(f < g)
      BY <1>1, <1>3, <1>4, <2>3, <2>4, RecentInOrder
    \* The update of that claim is a quiet week older: it is forgotten.
    <3>2. ASSUME g < f
          PROVE  FALSE
      <4>1. sent[g].at + QuietFor <= sent[f].at
        BY <1>1, <1>3, <1>5, <2>3, <2>4, <3>2 DEF Ordered, Numbered
      <4>2. old.at < clock - Remembered
        BY <1>1, <1>5, <1>7, <2>3, <2>4, <4>1, InboxAssumption
      <4> QED
        BY <1>11, <4>2 DEF Forgotten
    <3> QED
      BY <2>4, <3>1, <3>2
  <2>6. \A q \in Pollers : pollers[q].phase \in Answering => First(pollers[q].batch) # f
    <3> SUFFICES ASSUME NEW q \in Pollers, pollers[q].phase \in Answering,
                        First(pollers[q].batch) = f
                 PROVE  FALSE
      OBVIOUS
    <3>1. old.owner = pollers[q].owner
      <4>1. claims[sent[First(pollers[q].batch)].id].owner = pollers[q].owner
        BY <1>1, AnsweringIsClaimed
      <4> QED
        BY <4>1 DEF old
    <3>2. q = p
      BY <1>1, <1>2, <2>2, <3>1 DEF Distinguished
    <3> QED
      BY <3>2 DEF Answering
  <2>7. Backed(sent, claims, clock, f)
    <3>1. clock <= old.at + Remembered
      BY <1>1, <1>7, <1>11, InboxAssumption DEF Forgotten
    <3> QED
      BY <2>1, <2>3, <2>5, <3>1 DEF Backed, old
  <2>8. Exhausted(f)
    BY <1>2, <1>5, <2>2, <2>6, <2>7 DEF Exhausted, old
  <2>9. Tried[f] # 0
    BY <1>3, <2>8, TriedIs
  <2> QED
    BY <1>1, <1>3, <2>2, <2>9 DEF NotAgain, old
<1>12. claim.attempts <= AnswerRetries + 1 + faults
  BY <1>1, <1>7, <1>9, <1>11, InboxAssumption
<1> QED
  BY <1>9, <1>10, <1>12 DEF claim, old

LEMMA ClaimTries ==
  ASSUME TriedInv, NEW p \in Pollers, Claim(p)
  PROVE  TriesKept
<1> DEFINE f == First(pollers[p].batch)
           id == sent[f].id
           claim == Taken(claims[id], pollers[p].owner)
<1>1. /\ pollers[p].phase = "settling" /\ UNCHANGED <<sent, clock, born>>
      /\ \/ /\ MayTake(claims[id], pollers[p].owner)
            /\ claims' = [claims EXCEPT ![id] = claim]
            /\ \/ /\ pollers' = [pollers EXCEPT ![p].phase = "claimed",
                                                ![p].attempt = claim.attempts]
                  /\ faults' = faults
               \/ Halt(p) /\ faults' = faults + 1
         \/ /\ claims' = claims /\ (Halt(p) \/ Settle(p))
            /\ faults' = faults \/ faults' = faults + 1
  BY DEF Claim, InHand, First
<1>2. /\ clock \in Nat /\ faults \in Nat /\ claims \in [Ids -> ClaimRecord]
      /\ pollers \in [Pollers -> PollerRecord] /\ pollers[p] \in PollerRecord
      /\ Bounded /\ Sourced /\ sent \in [Updates -> SentRecord] /\ Ordered(sent, clock)
      /\ Good(sent, claims, pollers, Tried, clock, born)
  BY TriedFacts
<1>3. SameLetters /\ faults' \in Nat /\ faults <= faults'
  BY <1>1, <1>2 DEF SameLetters
<1>4. Good(sent', claims', pollers', Tried, clock', born')
  BY TriedFacts, ClaimKeeps
<1>5. f \in Updates /\ Recent(sent, clock, f) /\ id \in Ids
  <2>1. InHands(sent, pollers[p], clock)
    BY <1>2 DEF Good
  <2>2. pollers[p].batch # {} /\ pollers[p].batch \in SUBSET Updates
    BY <1>1, <1>2, <2>1 DEF InHands, PollerRecord
  <2>3. f \in pollers[p].batch /\ f \in Updates
    BY <2>2, FirstIs
  <2>4. Recent(sent, clock, f)
    BY <1>2, <2>1, <2>3, InBatchIsRecent
  <2> QED
    BY <1>2, <2>3, <2>4 DEF Recent, Ordered
<1>6. CASE claims' = claims /\ (Halt(p) \/ Settle(p))
  <2>1. \/ Moved(p, pollers[p].owner, {0}, {"polling"})
        \/ Moved(p, pollers[p].owner, {0}, {"polling", "settling", "sweeping"})
    BY <1>2, <1>6, HaltMoves, SettleMoves
  <2>2. /\ Sourced' /\ Bounded'
        /\ \A u \in Updates : Exhausted(u)' => Exhausted(u)
    BY <1>1, <1>3, <1>6, <2>1, MoveKeeps DEF Answering
  <2> QED
    BY <1>4, <2>2, TriedIs, TriedNext DEF TriesKept
<1>7. CASE /\ MayTake(claims[id], pollers[p].owner)
           /\ claims' = [claims EXCEPT ![id] = claim]
           /\ \/ /\ pollers' = [pollers EXCEPT ![p].phase = "claimed",
                                               ![p].attempt = claim.attempts]
                 /\ faults' = faults
              \/ Halt(p) /\ faults' = faults + 1
  <2>1. /\ claim \in ClaimRecord /\ claim.attempts <= AnswerRetries + 1 + faults
        /\ SourceOf(sent, claim, id)
    BY <1>1, <1>7, TriesLeft
  <2>2. /\ claims'[id] = claim /\ claim.attempts \in Nat
        /\ \A i \in Ids : i # id => claims'[i] = claims[i]
    BY <1>2, <1>5, <1>7, <2>1 DEF ClaimRecord
  <2>3. ASSUME NEW q \in Pollers, pollers[q].phase \in Answering
        PROVE  /\ claims'[sent[First(pollers[q].batch)].id]
                    = claims[sent[First(pollers[q].batch)].id]
               /\ First(pollers[q].batch) # f /\ q # p
    <3>1. q # p
      BY <1>1, <2>3 DEF Answering
    <3>2. claims[id].owner \in {0, pollers[p].owner} \/ claims[id].at < clock - Remembered
      BY <1>7 DEF MayTake, Forgotten
    <3>3. sent[First(pollers[q].batch)].id # id
      BY <1>2, <1>5, <2>3, <3>1, <3>2, OthersAreSafe
    <3>4. sent[First(pollers[q].batch)].id \in Ids
      BY <1>2, <2>3, AnsweringIsClaimed
    <3> QED
      BY <2>2, <3>1, <3>3, <3>4
  <2>4. /\ pollers'[p].owner = pollers[p].owner
        /\ \A q \in Pollers : q # p => pollers'[q] = pollers[q]
        /\ \/ /\ pollers'[p].phase = "claimed" /\ pollers'[p].attempt = claim.attempts
              /\ pollers'[p].batch = pollers[p].batch /\ faults' = faults
           \/ /\ pollers'[p].phase = "polling" /\ pollers'[p].attempt = 0
              /\ faults' = faults + 1
    <3> HIDE DEF claim, f
    <3>1. CASE Halt(p) /\ faults' = faults + 1
      BY <1>2, <3>1, HaltMoves DEF Moved
    <3>2. CASE /\ pollers' = [pollers EXCEPT ![p].phase = "claimed",
                                             ![p].attempt = claim.attempts]
               /\ faults' = faults
      BY <1>2, <3>2 DEF PollerRecord
    <3> QED
      BY <1>7, <3>1, <3>2
  <2> HIDE DEF claim
  <2>5. Sourced'
    <3>1. ASSUME NEW i \in Ids
          PROVE  SourceOf(sent, claims'[i], i)
      BY <1>2, <2>1, <2>2 DEF Sourced
    <3> QED
      BY <1>1, <3>1 DEF Sourced
  <2>6. \A i \in Ids : claims'[i].attempts <= AnswerRetries + 1 + faults'
    <3>1. ASSUME NEW i \in Ids
          PROVE  /\ claims'[i].attempts \in Nat
                 /\ claims'[i].attempts <= AnswerRetries + 1 + faults
      BY <1>2, <2>1, <2>2 DEF Bounded, ClaimRecord
    <3>2. AnswerRetries \in Nat
      BY InboxAssumption
    <3> QED
      BY <1>2, <1>3, <3>1, <3>2
  <2>7. Bounded'
    <3>1. pollers'[p].attempt <= AnswerRetries + 1 + faults'
      <4>1. CASE pollers'[p].attempt = claim.attempts /\ faults' = faults
        BY <2>1, <4>1
      <4>2. CASE pollers'[p].attempt = 0 /\ faults' = faults + 1
        <5>1. 0 <= AnswerRetries + 1 + (faults + 1)
          BY <1>2, InboxAssumption
        <5> QED
          BY <4>2, <5>1
      <4> QED
        BY <2>4, <4>1, <4>2
    <3>2. pollers'[p].phase = "claimed" =>
            /\ pollers'[p].attempt = claims'[sent[First(pollers'[p].batch)].id].attempts
            /\ First(pollers'[p].batch) \in Updates
      BY <1>5, <2>2, <2>4
    <3> QED
      BY <1>3, <2>3, <2>4, <2>6, <3>1, <3>2, BoundedNext
  <2>8. ASSUME NEW u \in Updates, Exhausted(u)'
        PROVE  Exhausted(u)
    <3>1. IsSent(sent, u) /\ Backed(sent, claims', clock, u) /\ claims' \in [Ids -> ClaimRecord]
      BY <1>1, <1>4, <2>8 DEF Exhausted, Good, Typed
    <3>2. Recent(sent, clock, u)
      BY <1>2, <3>1, BackedIsRecent
    <3>3. /\ claims'[sent[u].id].attempts > AnswerRetries + faults'
          /\ \A q \in Pollers : pollers'[q].phase \in Answering =>
                                  First(pollers'[q].batch) # u
      BY <1>1, <2>8 DEF Exhausted
    <3>4. sent[u].id # id
      <4> SUFFICES ASSUME sent[u].id = id
                   PROVE  FALSE
        OBVIOUS
      <4>1. u = f
        BY <1>2, <1>5, <3>2, RecentIsOne
      <4>2. pollers'[p].phase # "claimed"
        BY <2>4, <3>3, <4>1 DEF Answering
      <4>3. faults' = faults + 1 /\ claim.attempts > AnswerRetries + faults'
        BY <2>2, <2>4, <3>3, <4>2
      <4> QED
        BY <1>2, <2>1, <2>2, <4>3, InboxAssumption
    <3>5. claims'[sent[u].id] = claims[sent[u].id] /\ IsSent(sent, u)
      BY <1>2, <2>2, <3>1, <3>4 DEF Ordered
    <3>6. \A q \in Pollers : pollers'[q].owner \in {pollers[q].owner, born + 1}
      BY <2>4
    <3>7. \A q \in Pollers : pollers[q].phase \in Answering /\ First(pollers[q].batch) = u =>
            pollers'[q].phase \in Answering /\ First(pollers'[q].batch) = u
      BY <2>3, <2>4
    <3>8. /\ clock' \in Nat /\ clock <= clock'
          /\ sent'[u].id = sent[u].id /\ sent'[u].at = sent[u].at
      BY <1>1, <1>2
    <3> QED
      BY <1>3, <2>8, <3>5, <3>6, <3>7, <3>8, ExhaustedWas
  <2> QED
    BY <1>4, <2>5, <2>7, <2>8, TriedIs, TriedNext DEF TriesKept
<1> HIDE DEF claim, id
<1> QED
  BY <1>1, <1>6, <1>7

LEMMA InitTries ==
  ASSUME Init
  PROVE  TriedInv
<1>1. Shape
  BY InitShape
<1>2. /\ \A i \in Ids : claims[i] = NoClaim
      /\ \A p \in Pollers : /\ pollers[p].attempt = 0 /\ pollers[p].phase = "polling"
      /\ faults = 0
  BY DEF Init, Newborn
<1>3. NoClaim.owner = 0 /\ NoClaim.attempts = 0
  BY DEF NoClaim
<1>4. ASSUME NEW u \in Updates
      PROVE  ~Exhausted(u)
  BY DEF Init, Exhausted, IsSent
<1>5. Tried \in [Updates -> Nat] /\ \A u \in Updates : Tried[u] = 0
  BY <1>4, TriedIs
<1>6. Good(sent, claims, pollers, Tried, clock, born)
  BY <1>5, InitGood
<1>7. Sourced
  BY <1>2, <1>3 DEF Sourced, SourceOf
<1>8. Bounded
  <2>1. 0 <= AnswerRetries + 1 + 0
    BY InboxAssumption
  <2> QED
    BY <1>2, <1>3, <2>1 DEF Bounded
<1> QED
  BY <1>1, <1>6, <1>7, <1>8 DEF TriedInv

LEMMA StepTries ==
  ASSUME TriedInv, [Next]_vars
  PROVE  TriedInv'
<1>1. Shape'
  BY StepShape DEF TriedInv
<1>2. CASE UNCHANGED <<sent, claims, pollers, clock, born, faults>>
  <2>1. Tried' = Tried
    BY <1>2 DEF Tried, Exhausted, Backed
  <2> QED
    BY <1>1, <1>2, <2>1 DEF TriedInv, Sourced, Bounded
<1>3. CASE TriesKept
  BY <1>1, <1>3 DEF TriedInv, TriesKept
<1>4. ASSUME NEW p \in Pollers, Poll(p) \/ Handle(p) \/ Start(p) \/ Stop(p) \/ Crash(p)
      PROVE  TriesKept
  <2>1. CASE AnswerTap(p) \/ AnswerMessage(p)
    <3>1. /\ pollers[p].phase \in Answering /\ Settle(p)
          /\ UNCHANGED <<sent, claims, clock, born>>
          /\ faults' = faults \/ faults' = faults + 1
      BY <2>1 DEF AnswerTap, AnswerMessage, Answered, Answering
    <3> QED
      BY <3>1, SettledTries
  <2> QED
    BY <1>4, <2>1, PollTries, ClaimTries, CancelTries, ReadConfigTries, ForgetTries,
       ReplacedTries DEF Handle
<1>5. CASE UNCHANGED vars \/ ChangeBooking
  BY <1>2, <1>5 DEF vars, ChangeBooking
<1>6. CASE \E u \in Updates : Arrive(u)
  BY <1>3, <1>6, ArriveTries
<1>7. CASE Tick
  BY <1>3, <1>7, TickTries
<1> QED
  BY <1>3, <1>4, <1>5, <1>6, <1>7 DEF Next

(***************************************************************************)
(* The inbox is well-typed; above all no update is ever tried more often   *)
(* than ANSWER_RETRIES allows, but for calls that were lost after they     *)
(* were committed (inbox.rs, handle).                                      *)
(***************************************************************************)
THEOREM InboxIsTyped == Spec => []TypeOK
<1>1. Init => TriedInv
  BY InitTries
<1>2. TriedInv /\ [Next]_vars => TriedInv'
  BY StepTries
<1>3. TriedInv => TypeOK
  <2> SUFFICES ASSUME TriedInv
               PROVE  TypeOK
    OBVIOUS
  <2>1. Shape /\ Bounded
    BY DEF TriedInv
  <2>2. ASSUME NEW p \in Pollers
        PROVE  pollers[p].attempt <= AnswerRetries + 1 + MaxFaults
    <3>1. pollers[p].attempt <= AnswerRetries + 1 + faults /\ pollers[p].attempt \in Nat
      BY <2>1 DEF Bounded, Shape, Shaped, PollersWhole, PollerType
    <3>2. faults \in Nat /\ faults <= MaxFaults
      BY <2>1, InboxAssumption DEF Shape, Shaped
    <3> QED
      BY <3>1, <3>2, InboxAssumption
  <2>3. faults \in Nat
    BY <2>1, InboxAssumption DEF Shape, Shaped
  <2> QED
    BY <2>1, <2>2, <2>3 DEF Shape, Shaped, PollersWhole, SentType, TypeOK
<1> QED
  BY <1>1, <1>2, <1>3, PTL DEF Spec
=============================================================================
