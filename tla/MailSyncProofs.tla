---------------------------- MODULE MailSyncProofs ----------------------------
(***************************************************************************)
(* What MailSync promises, proved for any number of messages and changes,  *)
(* any page and batch size, and any budget of interruptions, expired       *)
(* journals, forced passes, readers and messages destroyed behind an open  *)
(* cursor.                                                                 *)
(***************************************************************************)
EXTENDS MailSync, FiniteSetTheorems, NaturalsInduction, WellFoundedInduction, TLAPS

-----------------------------------------------------------------------------
(* The parts of the invariant.  First what is true of the books.           *)

Mentions(l, m, s) == \E i \in s + 1 .. Len(l) : l[i].id = m
Creates(l, m, s) == \E i \in s + 1 .. Len(l) : l[i].id = m /\ l[i].what = "created"

\* The journal: nothing precedes a message's creation, and nothing follows its
\* destruction, after which it is not there.
Ledger ==
    /\ Len(log) <= MaxLog
    /\ \A m \in Msgs : ver[m] <= Len(log) + 1 /\ (m \in here => ver[m] > 0)
    /\ \A i \in 1..Len(log) :
         /\ ver[log[i].id] > 0
         /\ log[i].what = "destroyed" => log[i].id \notin here
         /\ log[i].id \notin here =>
              \E j \in i..Len(log) : log[j].id = log[i].id /\ log[j].what = "destroyed"
         /\ log[i].what = "created" => \A j \in 1..Len(log) : log[j].id = log[i].id => i <= j

\* No position lies in the future.
Positions ==
    /\ kept <= Len(log) /\ state <= Len(log) /\ token <= Len(log)
    /\ bf.st = "open" => bf.start <= Len(log)

\* Nothing is known of a message before it exists, or before its time.
Known ==
    /\ \A m \in Msgs : rows[m].ver <= ver[m] /\ (Exists(m) => ver[m] > 0)
    /\ \A e \in refile \cup stubs \cup got \cup updated : ver[e.id] > 0 /\ e.ver <= ver[e.id]
    /\ \A m \in fetch \cup refresh \cup removed \cup local \cup remote : ver[m] > 0
    /\ reader # NoReader =>
         /\ reader.id \in Msgs /\ Exists(reader.id) /\ reader.ver <= ver[reader.id]
         /\ reader.ver = 0 => reader.id \notin here

\* What a pass is at, and what it has left to do there.
Phased ==
    /\ pc \in {"begin", "cursor", "finish"} => kind = "backfill"
    /\ pc \in {"list", "missing", "settle", "supersede"} => kind = "reconcile"
    /\ pc \in {"changes", "profile", "envelopes", "apply", "advance"} => kind = "delta"
    /\ pc \in {"enum", "refile"} => kind # "delta"
    /\ pc \in {"refresh", "reapply"} => kind # "backfill"
    /\ refile # {} => pc = "refile" \/ (pc = "enum" /\ kind = "reconcile")
    /\ stubs # {} => pc \in {"refile", "stubs"} \/ (pc = "enum" /\ kind = "reconcile")
    /\ fetch # {} => pc \in {"refile", "stubs", "fetch"} \/ (pc = "enum" /\ kind = "reconcile")
    /\ got # {} => pc \in {"fetch", "reapply"}
    /\ removed # {} => \/ pc \in {"stubs", "fetch", "missing", "drop"}
                       \/ kind = "delta" /\ pc \in {"refresh", "reapply", "apply"}
    /\ refresh # {} => /\ kind # "backfill"
                       /\ \/ pc \in {"enum", "refile", "stubs", "fetch", "refresh", "reapply"}
                          \/ kind = "reconcile" /\ pc \in {"missing", "drop"}
    /\ updated # {} => kind = "delta" /\ pc \in {"stubs", "fetch", "refresh", "reapply", "apply"}

\* The three kinds of pass and the rows of sync_state and backfill_progress.
Paging == kind = "backfill" /\ pc \in {"enum", "refile", "stubs", "fetch", "drop", "cursor", "finish"}

Stated ==
    /\ OpenMeansNoState
    /\ state = NoState <=> bf.st \in {"none", "open"}
    /\ pc = "begin" => bf.st = "none"
    /\ Paging => bf.st = "open"
    /\ pc # "idle" /\ kind # "backfill" => state # NoState
    /\ kind # "backfill" /\ pc \notin {"idle", "list", "changes", "profile"} => state <= token
    /\ pc = "profile" /\ sound = "yes" => state = Len(log)
    /\ sound = "yes" => clean = "yes"

-----------------------------------------------------------------------------
(* The enumeration: a cursor that has passed a message has listed it, or   *)
(* the index counts as spoiled.                                            *)

Above(H, c) == {m \in H : m >= c.anchor}

\* A JMAP cursor counts what lies above it, but for what was destroyed there;
\* and it was, if the anchor is gone.
Counts(c, H, l, thin) ==
    /\ c = Fresh \/ (c.anchor \in Msgs /\ c.n \in Nat)
    /\ ~thin /\ c.anchor # 0 =>
         /\ Cardinality(Above(H, c)) + l >= c.n
         /\ c.anchor \in H \/ l > 0
Counted(c) == Counts(c, here, lost, Thin)

Enumerating ==
    /\ cursor # Fresh => (Paging /\ pc # "finish") \/ (kind = "reconcile" /\ pc = "enum")
    /\ Counted(cursor) /\ (bf.st = "open" => Counted(bf.cursor))

\* The enumeration of this pass has still to come to m.
Unlisted(m) ==
    /\ m \in here /\ ~Behind(cursor, m)
    /\ pc = "enum" \/ (Paging /\ cursor # Fresh)

-----------------------------------------------------------------------------
(* What a pass has not done yet it has planned.                            *)

\* The token this pass will leave behind.
Base == IF kind = "backfill" THEN bf.start ELSE token

Working == pc \in {"enum", "refile", "stubs", "fetch", "missing", "drop", "refresh", "reapply",
                   "apply", "cursor", "finish", "settle", "advance"}

\* Everything planned was read after that token.
ReadSince == Working =>
    /\ \A e \in stubs \cup got \cup updated :
         Mentions(log, e.id, Base) \/ (e.id \in here /\ e.ver = ver[e.id])
    /\ \A m \in fetch \cup refresh \cup Ids(refile) : Mentions(log, m, Base) \/ m \in here

\* Row m is going to be written, whatever it holds.
Due(m) == m \in fetch \cup Ids(stubs) \/ (m \in Ids(got) /\ pc = "fetch")

\* Row m shows what the provider has, or is going to.
Mended(m) ==
    IF m \in here
    THEN \/ Agrees(m)
         \/ Due(m)
         \/ Live(m) /\ m \in Ids(got) \cup Ids(updated)
         \/ m \in refresh /\ (Live(m) \/ m \in Ids(refile))
    ELSE \/ ~Live(m)
         \/ m \in removed \cup fetch
         \/ m \in local \ remote /\ pc \in {"enum", "refile", "stubs", "fetch", "missing"}
            /\ kind = "reconcile"

Trusted == IF kind = "reconcile" THEN clean = "yes" ELSE sound = "yes"

\* A message the index does not show was created lately, or is going to be.
Filing == Working /\ ((kind = "backfill" /\ StepsBack) \/ Trusted) =>
    \A m \in here : Live(m) \/ Due(m) \/ m \in Ids(refile) \/ Creates(log, m, Base) \/ Unlisted(m)

Mending == Working /\ Trusted =>
    \A m \in Msgs : Mentions(log, m, Base) \/ Mended(m) \/ Unlisted(m)

\* Only what is gone is dropped.  A reconcile whose listing jumped over nothing finds
\* all it had and that is still there on the list.
Dropping ==
    /\ (kind = "reconcile" => clean = "yes") => removed \cap here = {}
    /\ kind = "reconcile" /\ clean = "yes"
         /\ pc \in {"enum", "refile", "stubs", "fetch", "missing"} =>
         \A m \in local \cap here : m \in remote \/ Unlisted(m)
    /\ kind = "reconcile" /\ pc = "enum" => \A m \in local \cap here : Live(m)
    /\ kind = "reconcile" /\ Working => Ids(refile) \subseteq refresh

\* Nothing that is there is marked deleted, in an index that was not spoiled; nor,
\* by a reconcile that was not disturbed, what was created since it began.
Undeleted ==
    /\ \A e \in refile : Exists(e.id)
    /\ Working /\ kind = "reconcile" /\ clean = "yes" =>
         \A m \in here : Creates(log, m, token) => rows[m].st # "deleted"
    /\ sound = "yes" => \A m \in here : rows[m].st # "deleted"
    /\ sound = "yes" => refile = {}
    /\ sound = "yes" /\ kind = "reconcile" /\ pc = "enum" => \A m \in here : Exists(m) => m \in local
    /\ sound = "yes" /\ state = NoState /\ bf.st = "none" => \A m \in Msgs : ~Exists(m)

-----------------------------------------------------------------------------
(* What is stored: the two promises, from a position on.                   *)

GapAt(s) == \A m \in Msgs : Agrees(m) \/ Mentions(log, m, s)
FiledAt(s) == \A m \in here : Live(m) \/ Creates(log, m, s)

Stored ==
    /\ sound = "yes" /\ state # NoState => GapAt(state) /\ FiledAt(state)
    /\ bf.st = "open" /\ (StepsBack \/ sound = "yes") =>
         \A m \in here : Behind(bf.cursor, m) => Live(m) \/ Creates(log, m, bf.start)
    /\ bf.st = "open" /\ sound = "yes" =>
         \A m \in Msgs : Live(m) => Agrees(m) \/ Mentions(log, m, bf.start)

IInv == /\ TypeOK /\ Ledger /\ Positions /\ Known /\ Phased /\ Stated /\ Enumerating
        /\ ReadSince /\ Filing /\ Mending /\ Dropping /\ Undeleted /\ Stored /\ LimitRespected

-----------------------------------------------------------------------------
(* What keeps the copy from going back.                                    *)

\* Only a reconcile asks twice, and what it asks for twice it was told of twice.
Asked ==
    /\ \A m \in Msgs : again[m] > 0 => kind = "reconcile" /\ m \in fetch \cup refresh
    /\ \A m \in fetch : again[m] > 0 => m \in twice
    /\ kind = "reconcile" => fetch \cap refresh = {}
    /\ kind = "reconcile" /\ pc = "enum" =>
         /\ \A m \in fetch : ~Exists(m)
         /\ \A m \in refresh : Exists(m)

\* An index that was never spoiled has no reader, misses nothing and has only fresh
\* envelopes, but for a message that is downloaded twice.
Forward == spent["spoil"] = 0 =>
    /\ sound = "yes" /\ clean = "yes" /\ reader = NoReader /\ StepsBack
    /\ \A e \in stubs \cup got \cup updated :
         e.id \notin twice /\ Live(e.id) => rows[e.id].ver <= e.ver
    /\ \A e \in stubs \cup got : pc = "reapply" \/ rows[e.id].st # "deleted"
    /\ \A e \in updated : e.id \notin fetch \cup refresh /\ \A f \in stubs \cup got : f.id # e.id
    /\ \A e \in got : e.id \notin twice =>
         e.id \notin fetch /\ \A f \in got : f.id = e.id => f = e

\* A stub is written over no row, but for a message that is listed twice.
Bare ==
    /\ \A m \in Msgs : ~Exists(m) => rows[m].raw = "stub"
    /\ \A e \in stubs : ~Thin
    /\ \A e \in stubs : e.id \notin twice =>
         ~Exists(e.id) /\ \A f \in stubs : f.id = e.id => f = e
    /\ kind = "reconcile" /\ pc = "enum" => Ids(stubs) \subseteq remote

-----------------------------------------------------------------------------
(* Finite sets of numbers: the least, the largest, and the largest few.    *)

\* A set of numbers that is not empty has a least one.
LEMMA Least == \A S \in SUBSET Nat : S # {} => \E x \in S : \A y \in S : x <= y
  <1> SUFFICES ASSUME NEW S \in SUBSET Nat, S # {} PROVE \E x \in S : \A y \in S : x <= y
    OBVIOUS
  <1>1. PICK x \in S : \A y \in S : ~(<<y, x>> \in OpToRel(<, Nat))
    BY NatLessThanWellFounded, WFMin
  <1>2. ASSUME NEW y \in S PROVE x <= y
    <2>1. <<y, x>> \in Nat \X Nat /\ <<y, x>>[1] = y /\ <<y, x>>[2] = x
      OBVIOUS
    <2>2. ~(y < x)
      BY <1>1, <2>1 DEF OpToRel
    <2>3. QED
      BY <2>2
  <1>3. QED
    BY <1>2

\* A bounded set of numbers that is not empty has a greatest one.
LEMMA Greatest ==
    ASSUME NEW S \in SUBSET Nat, S # {}, NEW b \in Nat, \A x \in S : x <= b
    PROVE  \E x \in S : \A y \in S : y <= x
  <1> DEFINE T == {b - x : x \in S}
  <1>1. T \in SUBSET Nat /\ T # {}
    <2>1. \A x \in S : b - x \in Nat
      OBVIOUS
    <2>2. QED
      BY <2>1
  <1>2. PICK t \in T : \A u \in T : t <= u
    <2> HIDE DEF T
    <2>1. QED
      BY <1>1, Least
  <1>3. PICK x \in S : t = b - x
    BY <1>2
  <1>4. \A y \in S : y <= x
    <2> SUFFICES ASSUME NEW y \in S PROVE y <= x
      OBVIOUS
    <2>1. b - y \in T
      OBVIOUS
    <2>2. t <= b - y
      BY <1>2, <2>1
    <2>3. QED
      BY <1>3, <2>2
  <1>5. QED
    BY <1>4

\* Of several envelopes of one message OfId takes the newest.
LEMMA OfIdNewest ==
    ASSUME NEW S, NEW m \in Ids(S),
           NEW b \in Nat, \A e \in S : e.ver \in Nat /\ e.ver <= b
    PROVE  /\ OfId(S, m) \in S /\ OfId(S, m).id = m
           /\ \A f \in S : f.id = m => f.ver <= OfId(S, m).ver
  <1> DEFINE V == {e.ver : e \in {f \in S : f.id = m}}
  <1>1. V \in SUBSET Nat /\ V # {} /\ \A v \in V : v <= b
    BY DEF Ids
  <1>2. PICK v \in V : \A u \in V : u <= v
    <2> HIDE DEF V
    <2>1. QED
      BY <1>1, Greatest
  <1>3. PICK e \in S : e.id = m /\ e.ver = v
    BY <1>2
  <1>4. \A f \in S : f.id = m => f.ver <= e.ver
    BY <1>2, <1>3
  <1>5. QED
    BY <1>3, <1>4 DEF OfId

\* There are finitely many messages.
LEMMA MsgsFinite ==
    /\ IsFiniteSet(Msgs) /\ Msgs \subseteq Nat /\ \A m \in Msgs : m <= N /\ m # 0
    /\ \A S \in SUBSET Msgs : IsFiniteSet(S) /\ Cardinality(S) \in Nat
  <1>1. Msgs \subseteq Nat /\ \A m \in Msgs : m <= N /\ m # 0
    BY ListAssumption DEF Msgs
  <1>2. IsFiniteSet(1..N)
    <2>1. 1 \in Int /\ N \in Int
      BY ListAssumption
    <2>2. QED
      BY <2>1, FS_Interval
  <1>3. QED
    BY <1>1, <1>2, FS_Subset, FS_CardinalityType DEF Msgs

\* A part of a set of messages is no larger, and as large only if it is the whole.
LEMMA Smaller ==
    ASSUME NEW T \in SUBSET Msgs, NEW S \in SUBSET T
    PROVE  Cardinality(S) <= Cardinality(T) /\ (Cardinality(S) = Cardinality(T) => S = T)
  BY MsgsFinite, FS_Subset

\* Lowest picks the least of a set.
LEMMA LowestIsLeast ==
    ASSUME NEW S \in SUBSET Msgs, S # {}
    PROVE  Lowest(S) \in S /\ \A k \in S : Lowest(S) <= k
  <1>1. \E m \in S : \A k \in S : m <= k
    BY MsgsFinite, Least
  <1>2. QED
    BY <1>1 DEF Lowest

\* A page that is not full is all there is.
LEMMA ShortPage ==
    ASSUME NEW S \in SUBSET Msgs, Cardinality(PageOf(S)) < PageSize
    PROVE  PageOf(S) = S
  <1> DEFINE P == PageOf(S)
             R == S \ P
  <1>1. P \subseteq S
    BY DEF PageOf
  <1>2. ASSUME R # {} PROVE FALSE
    <2>1. PICK m \in R : \A k \in R : k <= m
      <3>1. R \in SUBSET Nat /\ N \in Nat /\ \A x \in R : x <= N
        BY MsgsFinite, ListAssumption
      <3> HIDE DEF R
      <3>2. QED
        BY <1>2, <3>1, Greatest
    <2>2. {k \in S : k > m} \subseteq P
      <3>1. m \in Nat /\ \A k \in S : k \in Nat
        BY MsgsFinite
      <3>2. ASSUME NEW k \in S, k > m, k \notin P PROVE FALSE
        <4>1. k \in R
          BY <3>2
        <4>2. k <= m
          BY <2>1, <4>1
        <4>3. QED
          BY <3>1, <3>2, <4>2
      <3>3. QED
        BY <3>2
    <2>3. Cardinality({k \in S : k > m}) <= Cardinality(P)
      BY <1>1, <2>2, Smaller
    <2>4. Cardinality({k \in S : k > m}) < PageSize
      BY <1>1, <2>3, MsgsFinite, ListAssumption
    <2>5. QED
      BY <2>1, <2>4 DEF PageOf
  <1>3. QED
    BY <1>1, <1>2

\* A page reaches down to its lowest message without a hole, and is empty only
\* when there is nothing left.
LEMMA PageIsTop ==
    ASSUME NEW S \in SUBSET Msgs
    PROVE  /\ PageOf(S) \subseteq S
           /\ \A m \in S : \A l \in PageOf(S) : l <= m => m \in PageOf(S)
           /\ PageOf(S) = {} => S = {}
  <1>1. PageOf(S) \subseteq S
    BY DEF PageOf
  <1>2. ASSUME NEW m \in S, NEW l \in PageOf(S), l <= m PROVE m \in PageOf(S)
    <2>1. {k \in S : k > m} \subseteq {k \in S : k > l}
      <3>1. m \in Nat /\ l \in Nat /\ l <= m
        BY <1>1, <1>2, MsgsFinite
      <3>2. ASSUME NEW k \in S, k > m PROVE k > l
        <4>1. k \in Nat
          BY MsgsFinite
        <4>2. QED
          BY <3>1, <3>2, <4>1
      <3>3. QED
        BY <3>2
    <2>2. /\ Cardinality({k \in S : k > m}) <= Cardinality({k \in S : k > l})
          /\ Cardinality({k \in S : k > m}) \in Nat /\ Cardinality({k \in S : k > l}) \in Nat
      BY <2>1, Smaller, MsgsFinite
    <2>3. Cardinality({k \in S : k > l}) < PageSize
      BY DEF PageOf
    <2>4. QED
      BY <2>2, <2>3, ListAssumption DEF PageOf
  <1>3. ASSUME PageOf(S) = {} PROVE S = {}
    BY <1>3, ShortPage, FS_EmptySet, ListAssumption
  <1>4. QED
    BY <1>1, <1>2, <1>3

-----------------------------------------------------------------------------
(* What a step does: to the journal, and to the rows.                      *)

\* What the log mentioned it mentions still, and its last entry besides.
LEMMA MentionsGrow ==
    ASSUME TypeOK, NEW e \in [id : Msgs, what : {"created", "updated", "destroyed"}],
           log' = Append(log, e)
    PROVE  /\ Len(log') = Len(log) + 1 /\ log'[Len(log) + 1] = e
           /\ \A i \in 1..Len(log) : log'[i] = log[i]
           /\ \A s \in Int : s <= Len(log) => Mentions(log', e.id, s)
           /\ \A m, s : Mentions(log, m, s) /\ s \in Nat => Mentions(log', m, s)
           /\ \A m, s : Creates(log, m, s) /\ s \in Nat => Creates(log', m, s)
           /\ e.what = "created" => \A s \in Int : s <= Len(log) => Creates(log', e.id, s)
  <1>1. /\ Len(log') = Len(log) + 1 /\ log'[Len(log) + 1] = e /\ Len(log) \in Nat
        /\ \A i \in 1..Len(log) : log'[i] = log[i]
    BY DEF TypeOK
  <1>2. QED
    BY <1>1 DEF Mentions, Creates

\* OfId finds an envelope of what has been read.
LEMMA Newest ==
    ASSUME TypeOK, Ledger, Known,
           NEW S, S \subseteq refile \/ S \subseteq stubs \/ S \subseteq got \/ S \subseteq updated,
           NEW m \in Ids(S)
    PROVE  /\ m \in Msgs /\ OfId(S, m) \in S /\ OfId(S, m).ver \in Nat
           /\ OfId(S, m).id = m /\ OfId(S, m).ver <= ver[m] /\ ver[m] > 0
           /\ \A f \in S : f.id = m => f.ver <= OfId(S, m).ver
  <1>1. /\ \A e \in S : e.id \in Msgs /\ e.ver \in Nat
        /\ \A e \in S : e.ver <= ver[e.id] /\ ver[e.id] > 0
    BY DEF TypeOK, Known
  <1>2. Len(log) + 1 \in Nat /\ \A e \in S : e.ver <= Len(log) + 1
    <2>1. \A e \in S : e.ver \in Nat /\ ver[e.id] \in Nat /\ ver[e.id] <= Len(log) + 1
      BY <1>1 DEF TypeOK, Ledger
    <2>2. Len(log) \in Nat
      BY DEF TypeOK
    <2>3. QED
      BY <1>1, <2>1, <2>2
  <1>3. /\ OfId(S, m) \in S /\ OfId(S, m).id = m
        /\ \A f \in S : f.id = m => f.ver <= OfId(S, m).ver
    <2>1. \A e \in S : e.ver \in Nat /\ e.ver <= Len(log) + 1
      BY <1>1, <1>2
    <2>2. QED
      BY <1>2, <2>1, OfIdNewest
  <1>4. QED
    BY <1>1, <1>3

\* The four ways rows are written, message by message.
Filed(S) == \A m \in Msgs :
    IF m \in Ids(S)
    THEN /\ rows'[m].st = "live" /\ rows'[m].raw \in {"stub", "full"}
         /\ \E e \in S : e.id = m /\ rows'[m].ver = e.ver
    ELSE rows'[m] = rows[m]

Applied(S) == \A m \in Msgs :
    IF m \in Ids(S) /\ Exists(m)
    THEN /\ rows'[m].st = rows[m].st /\ rows'[m].raw = rows[m].raw
         /\ \E e \in S : e.id = m /\ rows'[m].ver = e.ver /\ \A f \in S : f.id = m => f.ver <= e.ver
    ELSE rows'[m] = rows[m]

Dropped(S) == \A m \in Msgs :
    IF m \in S /\ Live(m)
    THEN rows'[m].st = "deleted" /\ rows'[m].raw = rows[m].raw /\ rows'[m].ver = 0
    ELSE rows'[m] = rows[m]

Revived(S) == \A m \in Msgs :
    \/ m \in Ids(S) /\ Exists(m) /\ rows'[m].st = "live" /\ rows'[m].raw = rows[m].raw
         /\ \E e \in S : e.id = m /\ rows'[m].ver = e.ver /\ \A f \in S : f.id = m => f.ver <= e.ver
    \/ rows'[m] = rows[m] /\ (m \in Ids(S) => rows[m].st # "deleted")

RowType == [st : {"none", "live", "deleted"}, raw : {"stub", "full"}, ver : Nat]

\* What each way of filing a set of entries does to the rows.
LEMMA RowEffects ==
    ASSUME TypeOK, Ledger, Known,
           NEW S, S \subseteq refile \/ S \subseteq stubs \/ S \subseteq got \/ S \subseteq updated
    PROVE  /\ UpsertMessage(S) => Filed(S) /\ rows' \in [Msgs -> RowType]
           /\ UpsertStub(S) => Filed(S) /\ rows' \in [Msgs -> RowType]
           /\ ApplyRemoteState(S) => Applied(S) /\ rows' \in [Msgs -> RowType]
           /\ Undelete(S) => Revived(S) /\ rows' \in [Msgs -> RowType]
  <1> DEFINE Good(m) == /\ m \in Msgs /\ OfId(S, m) \in S /\ OfId(S, m).id = m
                        /\ OfId(S, m).ver \in Nat
                        /\ \A f \in S : f.id = m => f.ver <= OfId(S, m).ver
  <1>1. \A m \in Ids(S) : Good(m)
    BY Newest
  <1>2. rows \in [Msgs -> RowType]
    BY DEF TypeOK, RowType
  <1> HIDE DEF Good
  <1>3. ASSUME UpsertMessage(S) PROVE Filed(S) /\ rows' \in [Msgs -> RowType]
    <2>1. \A m \in Msgs :
             /\ m \notin Ids(S) => rows'[m] = rows[m]
             /\ m \in Ids(S) => rows'[m] = [st |-> "live", raw |-> "full", ver |-> OfId(S, m).ver]
      BY <1>3 DEF UpsertMessage
    <2>2. ASSUME NEW m \in Msgs
          PROVE  /\ rows'[m] \in RowType
                 /\ m \in Ids(S) => /\ rows'[m].st = "live" /\ rows'[m].raw = "full"
                                    /\ rows'[m].ver = OfId(S, m).ver
      <3>1. CASE m \in Ids(S)
        <4>1. OfId(S, m).ver \in Nat
          BY <1>1, <3>1 DEF Good
        <4>2. rows'[m] = [st |-> "live", raw |-> "full", ver |-> OfId(S, m).ver]
          BY <2>1, <3>1
        <4>3. QED
          BY <4>1, <4>2 DEF RowType
      <3>2. CASE m \notin Ids(S)
        BY <1>2, <2>1, <3>2
      <3>3. QED
        BY <3>1, <3>2
    <2>3. rows' \in [Msgs -> RowType]
      BY <1>3, <2>2 DEF UpsertMessage
    <2>4. Filed(S)
      <3> SUFFICES ASSUME NEW m \in Msgs, m \in Ids(S)
                   PROVE  \E e \in S : e.id = m /\ rows'[m].ver = e.ver
        BY <2>1, <2>2 DEF Filed
      <3>1. QED
        BY <1>1, <2>2 DEF Good
    <2>5. QED
      BY <2>3, <2>4
  <1>4. ASSUME UpsertStub(S) PROVE Filed(S) /\ rows' \in [Msgs -> RowType]
    <2>1. \A m \in Msgs :
             /\ m \notin Ids(S) => rows'[m] = rows[m]
             /\ m \in Ids(S) => rows'[m] = [st |-> "live", raw |-> "stub", ver |-> OfId(S, m).ver]
      BY <1>4 DEF UpsertStub
    <2>2. ASSUME NEW m \in Msgs
          PROVE  /\ rows'[m] \in RowType
                 /\ m \in Ids(S) => /\ rows'[m].st = "live" /\ rows'[m].raw = "stub"
                                    /\ rows'[m].ver = OfId(S, m).ver
      <3>1. CASE m \in Ids(S)
        <4>1. OfId(S, m).ver \in Nat
          BY <1>1, <3>1 DEF Good
        <4>2. rows'[m] = [st |-> "live", raw |-> "stub", ver |-> OfId(S, m).ver]
          BY <2>1, <3>1
        <4>3. QED
          BY <4>1, <4>2 DEF RowType
      <3>2. CASE m \notin Ids(S)
        BY <1>2, <2>1, <3>2
      <3>3. QED
        BY <3>1, <3>2
    <2>3. rows' \in [Msgs -> RowType]
      BY <1>4, <2>2 DEF UpsertStub
    <2>4. Filed(S)
      <3> SUFFICES ASSUME NEW m \in Msgs, m \in Ids(S)
                   PROVE  \E e \in S : e.id = m /\ rows'[m].ver = e.ver
        BY <2>1, <2>2 DEF Filed
      <3>1. QED
        BY <1>1, <2>2 DEF Good
    <2>5. QED
      BY <2>3, <2>4
  <1>5. ASSUME ApplyRemoteState(S) PROVE Applied(S) /\ rows' \in [Msgs -> RowType]
    <2>1. \A m \in Msgs : rows'[m] = IF m \in Ids(S) /\ Exists(m)
               THEN [rows[m] EXCEPT !.ver = OfId(S, m).ver] ELSE rows[m]
      BY <1>5 DEF ApplyRemoteState
    <2>2. ASSUME NEW m \in Msgs PROVE rows'[m] \in RowType
      BY <1>1, <1>2, <2>1 DEF Good, RowType
    <2>3. rows' \in [Msgs -> RowType]
      BY <1>5, <2>2 DEF ApplyRemoteState
    <2>4. Applied(S)
      <3>1. SUFFICES ASSUME NEW m \in Msgs, m \in Ids(S), Exists(m)
                     PROVE  /\ rows'[m].st = rows[m].st /\ rows'[m].raw = rows[m].raw
                            /\ rows'[m].ver = OfId(S, m).ver
        BY <1>1, <2>1 DEF Applied, Good
      <3>2. rows[m] \in RowType
        BY <1>2
      <3>3. QED
        BY <2>1, <3>1, <3>2 DEF RowType
    <2>5. QED
      BY <2>3, <2>4
  <1>6. ASSUME Undelete(S) PROVE Revived(S) /\ rows' \in [Msgs -> RowType]
    <2>1. \A m \in Msgs : rows'[m] = IF m \in Ids(S) /\ Revivable(OfId(S, m))
               THEN [rows[m] EXCEPT !.st = "live", !.ver = OfId(S, m).ver] ELSE rows[m]
      BY <1>6 DEF Undelete
    <2>2. ASSUME NEW m \in Msgs PROVE rows'[m] \in RowType
      BY <1>1, <1>2, <2>1 DEF Good, RowType
    <2>3. rows' \in [Msgs -> RowType]
      BY <1>6, <2>2 DEF Undelete
    <2>4. Revived(S)
      <3> SUFFICES ASSUME NEW m \in Msgs
                   PROVE  \/ /\ m \in Ids(S) /\ Exists(m) /\ rows'[m].st = "live"
                             /\ rows'[m].raw = rows[m].raw
                             /\ \E e \in S : /\ e.id = m /\ rows'[m].ver = e.ver
                                             /\ \A f \in S : f.id = m => f.ver <= e.ver
                          \/ rows'[m] = rows[m] /\ (m \in Ids(S) => rows[m].st # "deleted")
        BY DEF Revived
      <3>1. rows[m] \in RowType
        BY <1>2
      <3>2. CASE m \in Ids(S) /\ Revivable(OfId(S, m))
        <4>1. /\ rows'[m].st = "live" /\ rows'[m].raw = rows[m].raw
              /\ rows'[m].ver = OfId(S, m).ver
          BY <2>1, <3>1, <3>2 DEF RowType
        <4>2. Exists(m)
          BY <1>1, <3>2 DEF Revivable, Exists, Good
        <4>3. QED
          BY <1>1, <3>2, <4>1, <4>2 DEF Good
      <3>3. CASE ~(m \in Ids(S) /\ Revivable(OfId(S, m)))
        BY <1>1, <2>1, <3>1, <3>3 DEF Revivable, Exists, Good, RowType
      <3>4. QED
        BY <3>2, <3>3
    <2>5. QED
      BY <2>3, <2>4
  <1>7. QED
    BY <1>3, <1>4, <1>5, <1>6

\* What dropping rows leaves of them.
LEMMA DroppedRows ==
    ASSUME TypeOK, NEW S, MarkDeleted(S)
    PROVE  Dropped(S) /\ rows' \in [Msgs -> RowType]
  <1>1. rows \in [Msgs -> RowType]
    BY DEF TypeOK, RowType
  <1>2. \A m \in Msgs : rows'[m] = IF m \in S /\ Live(m)
               THEN [rows[m] EXCEPT !.st = "deleted", !.ver = 0] ELSE rows[m]
    BY DEF MarkDeleted
  <1>3. ASSUME NEW m \in Msgs
        PROVE  /\ rows'[m] \in RowType
               /\ m \in S /\ Live(m) => /\ rows'[m].st = "deleted" /\ rows'[m].ver = 0
                                        /\ rows'[m].raw = rows[m].raw
    <2>1. rows[m] \in RowType
      BY <1>1
    <2>2. CASE m \in S /\ Live(m)
      <3>1. rows'[m] = [rows[m] EXCEPT !.st = "deleted", !.ver = 0]
        BY <1>2, <2>2
      <3>2. rows'[m] = [st |-> "deleted", raw |-> rows[m].raw, ver |-> 0]
        BY <2>1, <3>1 DEF RowType
      <3>3. QED
        BY <2>1, <3>2 DEF RowType
    <2>3. CASE ~(m \in S /\ Live(m))
      BY <1>2, <2>1, <2>3
    <2>4. QED
      BY <2>2, <2>3
  <1>4. rows' \in [Msgs -> RowType]
    BY <1>3 DEF MarkDeleted
  <1>5. QED
    BY <1>2, <1>3, <1>4 DEF Dropped

\* What a reader of a body leaves of the rows.
LEMMA ReaderRows ==
    ASSUME TypeOK, Known, EnsureRawWrite
    PROVE  /\ reader.id \in Msgs /\ rows' \in [Msgs -> RowType]
           /\ reader.ver # 0 => /\ rows'[reader.id] = [st |-> "live", raw |-> "full", ver |-> reader.ver]
                                /\ \A m \in Msgs : m # reader.id => rows'[m] = rows[m]
           /\ reader.ver = 0 => Dropped({reader.id})
  <1>1. /\ reader.id \in Msgs /\ reader.ver \in Nat
    BY DEF EnsureRawWrite, Known, TypeOK
  <1>2. CASE reader.ver = 0
    BY <1>1, <1>2, DroppedRows DEF EnsureRawWrite
  <1>3. CASE reader.ver # 0
    <2>1. Ids({reader}) = {reader.id} /\ OfId({reader}, reader.id) = reader
      <3>1. reader.ver <= reader.ver
        BY <1>1
      <3>2. QED
        BY <3>1 DEF Ids, OfId
    <2>2. rows \in [Msgs -> RowType]
      BY DEF TypeOK, RowType
    <2>3. rows' = [m \in Msgs |-> IF m = reader.id
                      THEN [st |-> "live", raw |-> "full", ver |-> reader.ver] ELSE rows[m]]
      <3>1. UpsertMessage({reader})
        BY <1>3 DEF EnsureRawWrite
      <3>2. \A m \in Msgs : m \in Ids({reader}) <=> m = reader.id
        BY <2>1
      <3>3. QED
        BY <2>1, <3>1, <3>2 DEF UpsertMessage
    <2>4. rows' \in [Msgs -> RowType]
      BY <1>1, <2>2, <2>3 DEF RowType
    <2>5. QED
      BY <1>1, <1>3, <2>3, <2>4
  <1>4. QED
    BY <1>2, <1>3

-----------------------------------------------------------------------------
(* One page after the other covers the list.                               *)

\* Disjoint parts of a set of messages have no more messages between them than it has.
LEMMA Disjoint ==
    ASSUME NEW T \in SUBSET Msgs, NEW A \in SUBSET T, NEW B \in SUBSET T, A \cap B = {}
    PROVE  /\ Cardinality(A) \in Nat /\ Cardinality(B) \in Nat /\ Cardinality(T) \in Nat
           /\ Cardinality(A) + Cardinality(B) <= Cardinality(T)
  <1>1. /\ IsFiniteSet(A) /\ IsFiniteSet(B) /\ Cardinality(A) \in Nat
        /\ Cardinality(B) \in Nat /\ Cardinality(T) \in Nat
    BY MsgsFinite
  <1>2. Cardinality(A \cup B) = Cardinality(A) + Cardinality(B) - Cardinality(A \cap B)
    BY <1>1, FS_Union
  <1>3. Cardinality(A \cap B) = 0
    BY FS_EmptySet
  <1>4. Cardinality(A \cup B) <= Cardinality(T)
    BY Smaller
  <1>5. QED
    BY <1>1, <1>2, <1>3, <1>4

\* What the cursor has not passed is in the rest of the list or has been jumped over;
\* and nothing is, even when the anchor is gone, as long as the step back makes up
\* for all that was destroyed behind it.
LEMMA RestIsAll ==
    ASSUME TypeOK, NEW c, Counted(c)
    PROVE  /\ Rest(c) \subseteq here
           /\ \A m \in here : m \in Rest(c) \/ Behind(c, m) \/ m \in Missed(c)
           /\ StepsBack => Missed(c) = {}
  <1>1. here \subseteq Msgs /\ lost \in Nat
    BY DEF TypeOK
  <1>2. Rest(c) \subseteq here
    BY DEF Rest, FromPosition
  <1>3. StepsBack /\ ~Thin => lost <= 1
    BY DEF StepsBack
  <1>4. ASSUME StepsBack, NEW m \in here, ~Behind(c, m) PROVE m \in Rest(c)
    <2>1. CASE c.anchor = 0
      BY <2>1 DEF Rest
    <2>2. CASE c.anchor # 0
      <3>1. c.anchor \in Msgs /\ c.n \in Nat
        BY <2>2 DEF Counted, Counts, Fresh
      <3>2. m \in Nat /\ c.anchor \in Nat /\ m < c.anchor
        <4>1. m \in Nat /\ c.anchor \in Nat
          BY <1>1, <3>1, MsgsFinite
        <4>2. ~(m >= c.anchor)
          BY <1>4, <2>2 DEF Behind
        <4>3. QED
          BY <4>1, <4>2
      <3>3. CASE Thin \/ c.anchor \in here
        BY <2>2, <3>2, <3>3 DEF Rest
      <3>4. CASE ~(Thin \/ c.anchor \in here)
        <4> DEFINE H == {k \in here : k > m}
        <4>1. Above(here, c) \subseteq H /\ H \subseteq Msgs
          <5>1. \A k \in here : k \in Nat
            BY <1>1, MsgsFinite
          <5>2. \A k \in here : k >= c.anchor => k > m
            BY <3>2, <5>1
          <5>3. QED
            BY <1>1, <5>2 DEF Above
        <4>2. /\ Cardinality(Above(here, c)) <= Cardinality(H)
              /\ Cardinality(Above(here, c)) \in Nat /\ Cardinality(H) \in Nat
          <5> HIDE DEF H
          <5>1. QED
            BY <4>1, Smaller, MsgsFinite
        <4>3. Cardinality(Above(here, c)) + lost >= c.n
          BY <2>2, <3>4 DEF Counted, Counts
        <4>4. Cardinality(H) >= c.n - 1
          BY <1>1, <1>3, <1>4, <3>1, <3>4, <4>2, <4>3
        <4>5. Rest(c) = FromPosition(c.n - 1)
          BY <2>2, <3>4 DEF Rest
        <4>6. QED
          BY <4>4, <4>5 DEF FromPosition
      <3>5. QED
        BY <3>3, <3>4
    <2>3. QED
      BY <2>1, <2>2
  <1>5. StepsBack => Missed(c) = {}
    BY <1>4 DEF Missed
  <1>6. QED
    BY <1>2, <1>5 DEF Missed

\* A page lists what lies between the old cursor and the new one, the last page
\* all that is left; and the new cursor is a good one.
LEMMA NextPage ==
    ASSUME TypeOK, NEW c, Counted(c),
           NEW P, P = PageOf(Rest(c)), NEW d, d = NextCursor(c, P)
    PROVE  /\ P \subseteq here
           /\ \A m \in here : m \in P \/ Behind(c, m) \/ m \in Missed(c)
                                \/ (d # Fresh /\ ~Behind(d, m))
           /\ Counted(d) /\ d \in Cursors
  <1> DEFINE R == Rest(c)
  <1>1. /\ here \subseteq Msgs /\ R \subseteq here /\ lost \in Nat
        /\ \A m \in here : m \in R \/ Behind(c, m) \/ m \in Missed(c)
    BY RestIsAll DEF TypeOK
  <1>2. /\ P \subseteq R /\ (P = {} => R = {}) /\ R \in SUBSET Msgs
        /\ \A m \in R : \A l \in P : l <= m => m \in P
        /\ Cardinality(P) < PageSize => P = R
        /\ Cardinality(P) \in Nat
    <2> HIDE DEF R
    <2>1. R \in SUBSET Msgs
      BY <1>1
    <2>2. PageOf(R) = P
      BY DEF R
    <2>3. /\ P \subseteq R /\ (P = {} => R = {})
          /\ \A m \in R : \A l \in P : l <= m => m \in P
      BY <2>1, <2>2, PageIsTop
    <2>4. Cardinality(P) < PageSize => P = R
      BY <2>1, <2>2, ShortPage
    <2>5. Cardinality(P) \in Nat
      BY <2>1, <2>3, MsgsFinite
    <2>6. QED
      BY <2>1, <2>3, <2>4, <2>5
  <1>3. c = Fresh \/ (c.anchor \in Msgs /\ c.n \in Nat /\ c.anchor # 0)
    BY MsgsFinite DEF Counted, Counts
  <1>4. c.anchor = 0 => c = Fresh
    BY <1>3
  <1>5. c.n \in Nat
    BY <1>3 DEF Fresh
  <1> DEFINE n == c.n + Cardinality(P)
             over == \/ P = {}
                     \/ ~Thin /\ Cardinality(P) < PageSize
                     \/ ~Thin /\ c.anchor = 0 /\ n >= Cardinality(here)
                     \/ Thin /\ P = Rest(c)
  <1>6. d = IF over THEN Fresh ELSE [anchor |-> Lowest(P), n |-> n]
    BY DEF NextCursor
  <1>7. CASE over
    <2>1. P = R
      <3>1. CASE ~Thin /\ c.anchor = 0 /\ n >= Cardinality(here)
        <4>1. Cardinality(P) >= Cardinality(here)
          BY <1>2, <1>4, <3>1 DEF Fresh
        <4>2. P \in SUBSET here /\ here \in SUBSET Msgs
          BY <1>1, <1>2
        <4>3. Cardinality(P) <= Cardinality(here) /\ Cardinality(here) \in Nat
          BY <4>2, Smaller, MsgsFinite
        <4>4. Cardinality(P) = Cardinality(here)
          BY <1>2, <4>1, <4>3
        <4>5. P = here
          BY <4>2, <4>4, Smaller
        <4>6. QED
          BY <1>1, <1>2, <4>5
      <3>2. QED
        BY <1>2, <1>7, <3>1
    <2>2. d = Fresh
      BY <1>6, <1>7
    <2>3. Counted(d) /\ d \in Cursors
      BY <2>2 DEF Counted, Counts, Fresh, Cursors
    <2>4. QED
      BY <1>1, <1>2, <2>1, <2>2, <2>3
  <1>8. CASE ~over
    <2> DEFINE l == Lowest(P)
    <2>1. d.anchor = l /\ d.n = n /\ d = [anchor |-> l, n |-> n]
      BY <1>6, <1>8
    <2>2. P # {} /\ P \in SUBSET Msgs
      BY <1>2, <1>8
    <2>3. l \in P /\ \A k \in P : l <= k
      BY <2>2, LowestIsLeast
    <2>4. l \in Msgs /\ l # 0 /\ l \in here /\ l \in Nat
      BY <1>1, <1>2, <2>2, <2>3, MsgsFinite
    <2>5. d # Fresh /\ d \in Cursors
      BY <1>2, <1>5, <2>1, <2>4 DEF Fresh, Cursors
    <2>6. \A m \in here : m \in P \/ Behind(c, m) \/ m \in Missed(c) \/ ~Behind(d, m)
      <3> SUFFICES ASSUME NEW m \in here, m \in R, l <= m PROVE m \in P
        BY <1>1, <2>1, MsgsFinite DEF Behind
      <3>1. QED
        BY <1>2, <2>3
    <2>7. ASSUME ~Thin PROVE Cardinality(Above(here, d)) + lost >= n
      <3>1. Above(here, d) \in SUBSET Msgs /\ P \subseteq Above(here, d)
        <4>1. \A k \in P : k \in here /\ k >= d.anchor
          BY <1>1, <1>2, <2>1, <2>2, <2>3, <2>4, MsgsFinite
        <4>2. QED
          BY <1>1, <4>1 DEF Above
      <3>2. CASE c.anchor = 0
        <4>1. n = Cardinality(P)
          BY <1>2, <1>4, <3>2 DEF Fresh
        <4>2. Cardinality(P) <= Cardinality(Above(here, d)) /\ Cardinality(Above(here, d)) \in Nat
          BY <3>1, Smaller, MsgsFinite
        <4>3. QED
          BY <1>1, <1>2, <4>1, <4>2
      <3>3. CASE c.anchor # 0 /\ c.anchor \in here
        <4>1. c.anchor \in Nat /\ R = {m \in here : m < c.anchor}
          <5>1. R = {m \in here : m < c.anchor}
            BY <3>3 DEF Rest
          <5>2. c.anchor \in Nat
            BY <1>1, <3>3, MsgsFinite
          <5>3. QED
            BY <5>1, <5>2
        <4>2. Above(here, c) \subseteq Above(here, d)
          <5>1. l < c.anchor
            BY <1>2, <2>3, <4>1
          <5>2. \A k \in here : k \in Nat
            BY <1>1, MsgsFinite
          <5>3. \A k \in here : k >= c.anchor => k >= l
            BY <2>4, <4>1, <5>1, <5>2
          <5>4. QED
            BY <2>1, <5>3 DEF Above
        <4>3. Above(here, c) \cap P = {}
          <5>1. \A k \in P : k \in here /\ k \in Nat /\ k < c.anchor
            BY <1>1, <1>2, <4>1, MsgsFinite
          <5>2. QED
            BY <4>1, <5>1 DEF Above
        <4>4. /\ Cardinality(Above(here, c)) + Cardinality(P) <= Cardinality(Above(here, d))
              /\ Cardinality(Above(here, c)) \in Nat /\ Cardinality(Above(here, d)) \in Nat
          BY <3>1, <4>2, <4>3, Disjoint
        <4>5. Cardinality(Above(here, c)) + lost >= c.n
          BY <2>7, <3>3 DEF Counted, Counts
        <4>6. QED
          BY <1>1, <1>2, <1>5, <4>4, <4>5
      <3>4. CASE c.anchor # 0 /\ c.anchor \notin here
        <4>1. R = FromPosition(c.n - 1)
          BY <2>7, <3>4 DEF Rest
        <4>2. lost >= 1
          BY <1>1, <2>7, <3>4 DEF Counted, Counts
        <4>3. PICK h \in P : \A k \in P : k <= h
          <5>1. P \in SUBSET Nat /\ N \in Nat /\ \A k \in P : k <= N
            BY <2>2, MsgsFinite, ListAssumption
          <5>2. QED
            BY <2>2, <5>1, Greatest
        <4> DEFINE H == {k \in here : k > h}
        <4>4. Cardinality(H) >= c.n - 1
          BY <1>2, <4>1, <4>3 DEF FromPosition
        <4>5. H \subseteq Above(here, d) /\ H \cap P = {}
          <5>1. h \in Nat /\ \A k \in here : k \in Nat
            BY <1>1, <2>2, <4>3, MsgsFinite
          <5>2. \A k \in here : k > h => k >= l
            BY <2>3, <2>4, <4>3, <5>1
          <5>3. \A k \in P : ~(k > h)
            BY <1>1, <1>2, <4>3, <5>1
          <5>4. QED
            BY <2>1, <5>2, <5>3 DEF Above
        <4>6. /\ Cardinality(H) + Cardinality(P) <= Cardinality(Above(here, d))
              /\ Cardinality(H) \in Nat /\ Cardinality(Above(here, d)) \in Nat
          <5> HIDE DEF H
          <5>1. QED
            BY <3>1, <4>5, Disjoint
        <4>7. QED
          BY <1>1, <1>2, <1>5, <4>2, <4>4, <4>6
      <3>5. QED
        BY <3>2, <3>3, <3>4
    <2>8. Counted(d)
      <3>1. d.anchor \in Msgs /\ d.n \in Nat /\ d.anchor \in here
        BY <1>2, <1>5, <2>1, <2>4
      <3>2. QED
        BY <2>1, <2>7, <3>1 DEF Counted, Counts
    <2>9. QED
      BY <1>1, <1>2, <2>5, <2>6, <2>8
  <1>9. QED
    BY <1>7, <1>8

-----------------------------------------------------------------------------
(* The variables keep their types.                                         *)

\* A step is one of these.
LEMMA Steps ==
    ASSUME [Next]_vars
    PROVE  \/ UNCHANGED vars
           \/ Forget
           \/ \E m \in Msgs : Deliver(m) \/ Change(m) \/ Destroy(m)
           \/ \E full \in {"no", "full"} : SyncMail(full)
           \/ BeginBackfill \/ BeginReconcile \/ EnumerateBackfill \/ EnumerateReconcile
           \/ ReadChanges \/ ReadProfile \/ ReadEnvelopes \/ Resurrect \/ WriteStubs \/ WriteBatch
           \/ (\E m \in Msgs : FetchOne(m))
           \/ FindMissing \/ RefreshEnvelopes \/ Reapply \/ ApplyUpdates \/ Drop \/ Advance
           \/ SaveCursor \/ FinishBackfill \/ FinishReconcile \/ SupersedeBackfill
           \/ Proceed \/ Abort \/ EnsureRawWrite
           \/ \E m \in Msgs : EnsureRawFetch(m)
  BY DEF Next, Provider, Pass

\* A batch of downloads files the messages it names.
LEMMA Batch ==
    ASSUME TypeOK, Ledger, Known, WriteBatch
    PROVE  /\ rows' \in [Msgs -> RowType]
           /\ \E S \in SUBSET got : Filed(S) /\ got' = got \ S
  <1>1. PICK S \in Part(got, IndexBatch) :
           (\E T \in Lasts(S) : UpsertMessage(T)) /\ got' = got \ S
    BY DEF WriteBatch
  <1>2. PICK T \in Lasts(S) : UpsertMessage(T)
    BY <1>1
  <1>3. S \in SUBSET got /\ T \subseteq S /\ Ids(T) = Ids(S)
    BY DEF Part, Lasts
  <1>4. Filed(T) /\ rows' \in [Msgs -> RowType]
    BY <1>2, <1>3, RowEffects
  <1>5. Filed(S)
    BY <1>3, <1>4 DEF Filed
  <1>6. QED
    BY <1>1, <1>3, <1>4, <1>5

\* Rows are written in one of these ways or not at all.
LEMMA RowSteps ==
    ASSUME TypeOK, Ledger, Known, [Next]_vars
    PROVE  /\ rows' \in [Msgs -> RowType]
           /\ \/ UNCHANGED rows
              \/ Resurrect /\ \E S \in SUBSET refile : Revived(S) /\ refile' = refile \ S
              \/ WriteStubs /\ \E S \in SUBSET stubs :
                    /\ Filed(S) /\ stubs' = stubs \ S
                    /\ \A e \in S, f \in stubs \ S : e.id = f.id => e.ver <= f.ver
              \/ WriteBatch /\ \E S \in SUBSET got : Filed(S) /\ got' = got \ S
              \/ Reapply /\ Applied(got)
              \/ ApplyUpdates /\ \E S \in SUBSET updated :
                    /\ Applied(S) /\ updated' = updated \ S
                    /\ (S = updated /\ removed = {} /\ state' = token /\ pc' = "idle")
                         \/ UNCHANGED <<state, pc>>
              \/ Drop /\ Dropped(removed)
              \/ EnsureRawWrite
  <1>1. rows \in [Msgs -> RowType]
    BY DEF TypeOK, RowType
  <1>2. CASE UNCHANGED rows
    BY <1>1, <1>2
  <1>3. CASE Resurrect
    <2>1. PICK S \in Chunk(refile, IndexBatch) : Undelete(S) /\ refile' = refile \ S
      BY <1>3 DEF Resurrect
    <2>2. QED
      BY <1>3, <2>1, RowEffects DEF Chunk, Part
  <1>4. CASE WriteStubs
    <2>1. PICK S \in Chunk(stubs, IF kind = "delta" THEN 1 ELSE IndexBatch) : UpsertStub(S) /\ stubs' = stubs \ S
      BY <1>4 DEF WriteStubs
    <2>2. QED
      BY <1>4, <2>1, RowEffects DEF Chunk, Part
  <1>5. CASE WriteBatch
    BY <1>5, Batch
  <1>6. CASE Reapply
    BY <1>6, RowEffects DEF Reapply
  <1>7. CASE ApplyUpdates
    <2>1. PICK S \in Chunk(updated, IndexBatch) :
            /\ ApplyRemoteState(S) /\ updated' = updated \ S
            /\ IF S = updated /\ removed = {}
                 THEN state' = token /\ pc' = "idle"
                 ELSE UNCHANGED <<state, pc>>
      BY <1>7 DEF ApplyUpdates
    <2>2. QED
      BY <1>7, <2>1, RowEffects DEF Chunk, Part
  <1>8. CASE Drop
    BY <1>8, DroppedRows DEF Drop
  <1>9. CASE EnsureRawWrite
    BY <1>9, ReaderRows
  <1>10. QED
    <2>1. Forget \/ (\E m \in Msgs : Deliver(m) \/ Change(m) \/ Destroy(m)) => UNCHANGED rows
      BY DEF Forget, Deliver, Change, Destroy, Journal, index
    <2>2. (\E full \in {"no", "full"} : SyncMail(full)) => UNCHANGED rows
      BY DEF SyncMail
    <2>3. BeginBackfill \/ BeginReconcile \/ EnumerateBackfill \/ EnumerateReconcile => UNCHANGED rows
      BY DEF BeginBackfill, BeginReconcile, EnumerateBackfill, EnumerateReconcile, index
    <2>4. ReadChanges \/ ReadProfile \/ ReadEnvelopes \/ (\E m \in Msgs : FetchOne(m)) => UNCHANGED rows
      BY DEF ReadChanges, ReadProfile, ReadEnvelopes, FetchOne, index
    <2>5. FindMissing \/ RefreshEnvelopes \/ Advance \/ SaveCursor \/ FinishBackfill => UNCHANGED rows
      BY DEF FindMissing, RefreshEnvelopes, Advance, SaveCursor, FinishBackfill, index
    <2>6. FinishReconcile \/ SupersedeBackfill \/ Proceed \/ Abort => UNCHANGED rows
      BY DEF FinishReconcile, SupersedeBackfill, Proceed, Abort, index
    <2>7. (\E m \in Msgs : EnsureRawFetch(m)) \/ UNCHANGED vars => UNCHANGED rows
      BY DEF EnsureRawFetch, vars, index
    <2>8. QED
      BY Steps, <1>2, <1>3, <1>4, <1>5, <1>6, <1>7, <1>8, <1>9,
         <2>1, <2>2, <2>3, <2>4, <2>5, <2>6, <2>7

\* Spending a fault keeps the budget's type.
LEMMA SpendTyped ==
    ASSUME TypeOK, NEW f \in Faults, Spend(f)
    PROVE  /\ spent' \in [Faults -> Nat] /\ spent'[f] = spent[f] + 1 /\ spent'[f] <= Budget[f]
           /\ \A g \in Faults \ {f} : spent'[g] = spent[g]
  <1>1. spent \in [Faults -> Nat] /\ Budget \in [Faults -> Nat]
    BY ListAssumption DEF TypeOK
  <1>2. spent' = [spent EXCEPT ![f] = @ + 1] /\ spent[f] < Budget[f]
    BY DEF Spend
  <1>3. QED
    BY <1>1, <1>2

\* An envelope, and what a listing says of a message, name it and no later version than it has.
LEMMA EnvelopeTyped ==
    ASSUME TypeOK, NEW m \in Msgs
    PROVE  /\ Envelope(m) \in [id : Msgs, ver : Nat]
           /\ Listed(m) \in [id : Msgs, ver : Nat, at : Nat]
           /\ Envelope(m).id = m /\ Listed(m).id = m
           /\ Envelope(m).ver = ver[m] /\ (~Thin => Listed(m).ver = ver[m])
           /\ Listed(m).ver <= ver[m]
  <1>1. ver[m] \in Nat /\ cursor.n \in Nat
    BY DEF TypeOK, Cursors, Fresh
  <1>2. QED
    BY <1>1 DEF Envelope, Listed

\* What the log holds, entry by entry.
LEMMA Entries ==
    ASSUME TypeOK
    PROVE  /\ Len(log) \in Nat
           /\ \A i \in 1..Len(log) : /\ log[i] \in [id : Msgs, what : {"created", "updated", "destroyed"}]
                                    /\ log[i].id \in Msgs
                                    /\ log[i].what \in {"created", "updated", "destroyed"}
  <1> DEFINE Entry == [id : Msgs, what : {"created", "updated", "destroyed"}]
  <1>1. log \in Seq(Entry)
    BY DEF TypeOK
  <1>2. /\ Len(log) \in Nat
        /\ \A i \in 1..Len(log) : log[i] \in Entry
    <2> HIDE DEF Entry
    <2>1. QED
      BY <1>1
  <1>3. QED
    BY <1>2

\* A window of the log names the messages that its entries name.
LEMMA WindowIds ==
    ASSUME TypeOK, Positions, state # NoState
    PROVE  \A what \in {"created", "updated", "destroyed"} :
             /\ Window(what) \subseteq Msgs
             /\ \A m : m \in Window(what) <=>
                  \E i \in state + 1 .. token : log[i].id = m /\ log[i].what = what
  <1> SUFFICES ASSUME NEW what \in {"created", "updated", "destroyed"}
               PROVE  /\ Window(what) \subseteq Msgs
                      /\ \A m : m \in Window(what) <=>
                           \E i \in state + 1 .. token : log[i].id = m /\ log[i].what = what
    OBVIOUS
  <1>1. state \in Nat /\ token <= Len(log) /\ token \in Nat /\ Len(log) \in Nat
    BY DEF TypeOK, Positions
  <1>2. ASSUME NEW i \in state + 1 .. token PROVE i \in 1..Len(log) /\ log[i].id \in Msgs
    <2>1. i \in 1..Len(log)
      BY <1>1
    <2>2. log[i] \in [id : Msgs, what : {"created", "updated", "destroyed"}]
      BY <2>1, Entries
    <2>3. QED
      BY <2>1, <2>2
  <1>3. QED
    BY <1>2 DEF Window

\* Every step keeps the types.
LEMMA TypesKept ==
    ASSUME TypeOK, Ledger, Known, Positions, Phased, Stated, Enumerating, [Next]_vars
    PROVE  TypeOK'
  <1> DEFINE Env == [id : Msgs, ver : Nat]
             Line == [id : Msgs, ver : Nat, at : Nat]
             Entry == [id : Msgs, what : {"created", "updated", "destroyed"}]
  <1>1. rows' \in [Msgs -> RowType]
    BY RowSteps
  <1>2. Fresh \in Cursors
    BY DEF Cursors
  <1>3. Len(log) \in Nat
    BY DEF TypeOK
  <1>4. CASE UNCHANGED vars
    BY <1>4, <1>1 DEF TypeOK, vars, RowType, Phases, server, index, plan, pass, outer
  <1>5. CASE Forget
    <2>1. spent' \in [Faults -> Nat]
      BY <1>5, SpendTyped DEF Forget, Faults
    <2>2. kept' \in Nat
      BY <1>3, <1>5 DEF Forget, TypeOK
    <2>3. QED
      BY <1>5, <2>1, <2>2 DEF Forget, TypeOK, index, plan, pass, outer
  <1>6. ASSUME NEW m \in Msgs, Deliver(m) \/ Change(m) \/ Destroy(m) PROVE TypeOK'
    <2>1. /\ spent' \in [Faults -> Nat] /\ sound' \in {"yes", "no"}
          /\ lost' \in Nat /\ UNCHANGED <<backend, kept, index, pass, reader, clean, twice>>
          /\ \E what \in {"created", "updated", "destroyed"} : log' = Append(log, [id |-> m, what |-> what])
      <3>1. \E what \in {"created", "updated", "destroyed"}, hit \in {TRUE, FALSE} : Journal(m, what, hit)
        <4>1. BehindCursor(m) \in {TRUE, FALSE}
          BY DEF BehindCursor, Behind
        <4>2. QED
          BY <1>6, <4>1 DEF Deliver, Change, Destroy
      <3>2. Spend("quiet") \/ Spend("loss") \/ Spend("skip") => spent' \in [Faults -> Nat]
        BY SpendTyped DEF Faults
      <3>3. spent \in [Faults -> Nat] /\ sound \in {"yes", "no"} /\ lost \in Nat
        BY DEF TypeOK
      <3>4. QED
        BY <3>1, <3>2, <3>3 DEF Journal
    <2>2. log' \in Seq(Entry)
      BY <2>1 DEF TypeOK
    <2>3. here' \subseteq Msgs /\ ver' \in [Msgs -> Nat]
      <3>1. here \subseteq Msgs /\ ver \in [Msgs -> Nat] /\ ver[m] \in Nat
        BY DEF TypeOK
      <3>2. CASE Deliver(m)
        BY <3>1, <3>2 DEF Deliver
      <3>3. CASE Change(m)
        BY <3>1, <3>3 DEF Change
      <3>4. CASE Destroy(m)
        BY <3>1, <3>4 DEF Destroy
      <3>5. QED
        BY <1>6, <3>2, <3>3, <3>4
    <2>4. QED
      BY <2>1, <2>2, <2>3 DEF TypeOK, index, plan, pass
  <1>7. ASSUME NEW full \in {"no", "full"}, SyncMail(full) PROVE TypeOK'
    <2>1. spent' \in [Faults -> Nat]
      <3>1. Spend("restart") \/ Spend("full") => spent' \in [Faults -> Nat]
        BY SpendTyped DEF Faults
      <3>2. spent \in [Faults -> Nat]
        BY DEF TypeOK
      <3>3. QED
        BY <1>7, <3>1, <3>2 DEF SyncMail
    <2>2. /\ bf' \in [st : {"none", "open", "finished"}, cursor : Cursors, start : Nat]
          /\ cursor' \in Cursors
      BY <1>7 DEF SyncMail, TypeOK
    <2>3. sound' \in {"yes", "no"} /\ kind' \in {"backfill", "delta", "reconcile"} /\ pc' \in Phases
      BY <1>7 DEF SyncMail, TypeOK, Phases
    <2>4. QED
      BY <1>7, <2>1, <2>2, <2>3 DEF SyncMail, TypeOK, server, plan
  <1>8. CASE BeginBackfill
    BY <1>8, <1>2, <1>3, <1>1 DEF TypeOK, BeginBackfill, RowType, Phases, server, index,
       plan, pass, outer
  <1>9. CASE BeginReconcile
    BY <1>9, <1>3, <1>1 DEF TypeOK, BeginReconcile, RowType, Phases, server, index,
       plan, pass, outer
  <1>10. CASE EnumerateBackfill
    <2> DEFINE P == PageOf(Rest(cursor))
    <2>1. P \subseteq Msgs /\ cursor' \in Cursors
      <3>1. Counted(cursor)
        BY DEF Enumerating
      <3>2. QED
        BY <1>10, <3>1, NextPage DEF EnumerateBackfill, TypeOK
    <2>2. refile' \subseteq Line /\ stubs' \subseteq Line /\ fetch' \subseteq Msgs
      BY <1>10, <2>1, EnvelopeTyped DEF EnumerateBackfill
    <2>3. QED
      BY <1>10, <2>1, <2>2 DEF EnumerateBackfill, TypeOK, server, index, outer, Phases
  <1>11. CASE EnumerateReconcile
    <2> DEFINE P == PageOf(Rest(cursor))
    <2>1. P \subseteq Msgs /\ cursor' \in Cursors
      <3>1. Counted(cursor)
        BY DEF Enumerating
      <3>2. QED
        BY <1>11, <3>1, NextPage DEF EnumerateReconcile, TypeOK
    <2>2. /\ refile' \subseteq Line /\ stubs' \subseteq Line /\ fetch' \subseteq Msgs
          /\ remote' \subseteq Msgs /\ refresh' \subseteq Msgs
          /\ again' \in [Msgs -> Nat] /\ twice' \subseteq Msgs
      <3>1. /\ refile \subseteq Line /\ stubs \subseteq Line /\ fetch \subseteq Msgs
            /\ remote \subseteq Msgs /\ refresh \subseteq Msgs
            /\ again \in [Msgs -> Nat] /\ twice \subseteq Msgs
        BY DEF TypeOK
      <3>2. QED
        BY <1>11, <2>1, <3>1, EnvelopeTyped DEF EnumerateReconcile
    <2>3. QED
      BY <1>11, <2>1, <2>2 DEF EnumerateReconcile, TypeOK, server, index, outer, Phases
  <1>12. CASE ReadChanges
    BY <1>12, <1>3, <1>1 DEF TypeOK, ReadChanges, RowType, Phases, server, index, plan,
       pass, outer
  <1>13. CASE ReadProfile
    BY <1>13, <1>3, <1>1 DEF TypeOK, ReadProfile, RowType, Phases, server, index, plan,
       pass, outer
  <1>14. CASE ReadEnvelopes
    <2>1. Window("destroyed") \subseteq Msgs /\ Window("created") \subseteq Msgs /\ Window("updated") \subseteq Msgs
      <3>1. state # NoState
        BY <1>14 DEF ReadEnvelopes, Phased, Stated
      <3>2. QED
        BY <3>1, WindowIds
    <2>2. /\ stubs' \subseteq Line /\ fetch' \subseteq Msgs /\ refresh' \subseteq Msgs
          /\ updated' \subseteq Env /\ removed' \subseteq Msgs
      BY <1>14, <2>1, EnvelopeTyped DEF ReadEnvelopes
    <2>3. QED
      BY <1>14, <2>2 DEF ReadEnvelopes, TypeOK, server, index, outer, Phases
  <1>15. CASE Resurrect
    BY <1>15, <1>1 DEF TypeOK, Resurrect, Chunk, Part, RowType, Phases, server, index, plan,
       pass, outer
  <1>16. CASE WriteStubs
    BY <1>16, <1>1 DEF TypeOK, WriteStubs, Chunk, Part, RowType, Phases, server, index, plan,
       pass, outer
  <1>17. CASE WriteBatch
    BY <1>17, <1>1 DEF TypeOK, WriteBatch, Chunk, Part, RowType, Phases, server, index, plan,
       pass, outer
  <1>18. ASSUME NEW m \in Msgs, FetchOne(m) PROVE TypeOK'
    <2>1. /\ got' \subseteq Env /\ removed' \subseteq Msgs /\ fetch' \subseteq Msgs
          /\ again' \in [Msgs -> Nat]
      <3>1. /\ got \subseteq Env /\ removed \subseteq Msgs /\ Envelope(m) \in Env
            /\ again \in [Msgs -> Nat] /\ fetch \subseteq Msgs
        BY EnvelopeTyped DEF TypeOK
      <3>2. QED
        BY <1>18, <3>1 DEF FetchOne
    <2>2. QED
      BY <1>18, <2>1 DEF FetchOne, TypeOK, server, index, outer
  <1>19. CASE FindMissing
    BY <1>19, <1>1 DEF TypeOK, FindMissing, RowType, Phases, server, index, plan, pass,
       outer
  <1>20. CASE RefreshEnvelopes
    <2>1. got' \subseteq Env /\ again' \in [Msgs -> Nat] /\ refresh' \subseteq Msgs
      <3>1. /\ \A m \in refresh \cap here : Envelope(m) \in Env
            /\ again \in [Msgs -> Nat] /\ refresh \subseteq Msgs
        BY EnvelopeTyped DEF TypeOK
      <3>2. QED
        BY <1>20, <3>1 DEF RefreshEnvelopes, Part
    <2>2. QED
      BY <1>20, <2>1 DEF RefreshEnvelopes, TypeOK, server, index, outer, Phases
  <1>21. CASE Reapply
    BY <1>21, <1>1 DEF TypeOK, Reapply, RowType, Phases, server, index, plan, pass,
       outer
  <1>22. CASE ApplyUpdates
    BY <1>22, <1>1 DEF TypeOK, ApplyUpdates, RowType, Phases, server, index, plan, pass,
       outer
  <1>23. CASE Drop
    BY <1>23, <1>1 DEF TypeOK, Drop, RowType, Phases, server, index, plan, pass, outer
  <1>24. CASE Advance
    BY <1>24, <1>1 DEF TypeOK, Advance, RowType, Phases, server, index, plan, pass,
       outer
  <1>25. CASE SaveCursor
    BY <1>25, <1>1 DEF TypeOK, SaveCursor, RowType, Phases, server, index, plan, pass,
       outer
  <1>26. CASE FinishBackfill
    BY <1>26, <1>1 DEF TypeOK, FinishBackfill, RowType, Phases, server, index, plan,
       pass, outer
  <1>27. CASE FinishReconcile
    BY <1>27, <1>1 DEF TypeOK, FinishReconcile, RowType, Phases, server, index, plan,
       pass, outer
  <1>28. CASE SupersedeBackfill
    BY <1>28, <1>2, <1>1 DEF TypeOK, SupersedeBackfill, RowType, Phases, server, index,
       plan, pass, outer
  <1>29. CASE Proceed
    <2>1. pc' \in Phases
      <3>1. pc' = After(pc) /\ ~Todo(pc) /\ pc \in Phases /\ kind \in {"backfill", "delta", "reconcile"}
        BY <1>29 DEF Proceed, TypeOK
      <3>2. pc \in {"refile", "stubs", "fetch", "drop", "refresh", "reapply", "apply"}
        BY <3>1 DEF Todo, Phases
      <3>3. pc \in {"refresh", "reapply"} => kind # "backfill"
        BY DEF Phased
      <3>4. After(pc) \in Phases
        BY <3>1, <3>2, <3>3 DEF After, Phases
      <3>5. QED
        BY <3>1, <3>4
    <2>2. QED
      BY <1>29, <2>1 DEF Proceed, TypeOK, server, index, plan, outer
  <1>30. CASE Abort
    <2>1. spent' \in [Faults -> Nat]
      BY <1>30, SpendTyped DEF Abort, Faults
    <2>2. QED
      BY <1>2, <1>30, <2>1 DEF Abort, TypeOK, server, index, outer, Phases
  <1>31. CASE EnsureRawWrite
    BY <1>31, <1>1 DEF TypeOK, EnsureRawWrite, NoReader, RowType, Phases, server, index,
       plan, pass, outer
  <1>32. ASSUME NEW m \in Msgs, EnsureRawFetch(m) PROVE TypeOK'
    <2>1. spent' \in [Faults -> Nat]
      BY <1>32, SpendTyped DEF EnsureRawFetch, Faults
    <2>2. reader' \in [id : Msgs \cup {0}, ver : Nat]
      BY <1>32 DEF EnsureRawFetch, TypeOK
    <2>3. QED
      BY <1>32, <2>1, <2>2 DEF EnsureRawFetch, TypeOK, server, index, pass, plan
  <1>33. QED
    BY Steps, <1>4, <1>5, <1>6, <1>7, <1>8, <1>9, <1>10, <1>11, <1>12, <1>13, <1>14,
       <1>15, <1>16, <1>17, <1>18, <1>19, <1>20, <1>21, <1>22, <1>23, <1>24, <1>25,
       <1>26, <1>27, <1>28, <1>29, <1>30, <1>31, <1>32

-----------------------------------------------------------------------------
(* The books: the journal, and what is known of a message.                 *)

\* Only a delivery, a change or a destruction alters the server.
LEMMA ServerSteps ==
    ASSUME [Next]_vars
    PROVE  \/ UNCHANGED <<here, ver, log>>
           \/ \E m \in Msgs : Deliver(m) \/ Change(m) \/ Destroy(m)
  <1>1. Forget \/ UNCHANGED vars => UNCHANGED <<here, ver, log>>
    BY DEF Forget, vars, server
  <1>2. (\E full \in {"no", "full"} : SyncMail(full)) => UNCHANGED <<here, ver, log>>
    BY DEF SyncMail, server
  <1>3. BeginBackfill \/ BeginReconcile \/ EnumerateBackfill \/ EnumerateReconcile
          => UNCHANGED <<here, ver, log>>
    BY DEF BeginBackfill, BeginReconcile, EnumerateBackfill, EnumerateReconcile, server
  <1>4. ReadChanges \/ ReadProfile \/ ReadEnvelopes \/ (\E m \in Msgs : FetchOne(m))
          => UNCHANGED <<here, ver, log>>
    BY DEF ReadChanges, ReadProfile, ReadEnvelopes, FetchOne, server
  <1>5. FindMissing \/ RefreshEnvelopes \/ Advance \/ SaveCursor \/ FinishBackfill
          => UNCHANGED <<here, ver, log>>
    BY DEF FindMissing, RefreshEnvelopes, Advance, SaveCursor, FinishBackfill, server
  <1>6. FinishReconcile \/ SupersedeBackfill \/ Proceed \/ Abort => UNCHANGED <<here, ver, log>>
    BY DEF FinishReconcile, SupersedeBackfill, Proceed, Abort, server
  <1>7. Resurrect \/ WriteStubs \/ WriteBatch \/ Reapply => UNCHANGED <<here, ver, log>>
    BY DEF Resurrect, WriteStubs, WriteBatch, Reapply, server
  <1>8. ApplyUpdates \/ Drop => UNCHANGED <<here, ver, log>>
    BY DEF ApplyUpdates, Drop, server
  <1>9. EnsureRawWrite \/ (\E m \in Msgs : EnsureRawFetch(m)) => UNCHANGED <<here, ver, log>>
    BY DEF EnsureRawWrite, EnsureRawFetch, server
  <1>10. QED
    BY Steps, <1>1, <1>2, <1>3, <1>4, <1>5, <1>6, <1>7, <1>8, <1>9

\* The provider moves one message, and says so.
LEMMA Moves ==
    ASSUME TypeOK, Ledger, NEW m \in Msgs, Deliver(m) \/ Change(m) \/ Destroy(m)
    PROVE  /\ UNCHANGED <<backend, kept, index, pass, reader, clean, twice>>
           /\ StepsBack' => StepsBack
           /\ sound' = IF pc = "profile" THEN "no" ELSE sound
           /\ \A k \in Msgs \ {m} : ver'[k] = ver[k] /\ (k \in here' <=> k \in here)
           /\ ver[m] <= ver'[m] /\ ver'[m] <= Len(log) + 2 /\ ver'[m] > 0 /\ ver'[m] \in Nat
           /\ m \in here' /\ m \notin here => ver[m] = 0
           /\ Len(log) < MaxLog /\ Len(log') = Len(log) + 1
           /\ log'[Len(log) + 1].id = m /\ log'[Len(log) + 1].what \in {"created", "updated", "destroyed"}
           /\ log'[Len(log) + 1].what = "created" <=> Deliver(m)
           /\ log'[Len(log) + 1].what = "destroyed" <=> Destroy(m)
           /\ \A i \in 1..Len(log) : log'[i] = log[i]
           /\ \A s \in Int : s <= Len(log) => Mentions(log', m, s)
           /\ \A k, s : Mentions(log, k, s) /\ s \in Nat => Mentions(log', k, s)
           /\ \A k, s : Creates(log, k, s) /\ s \in Nat => Creates(log', k, s)
           /\ m \in here' /\ m \notin here => \A s \in Int : s <= Len(log) => Creates(log', m, s)
  <1>1. /\ here \subseteq Msgs /\ ver \in [Msgs -> Nat] /\ ver[m] \in Nat
        /\ ver[m] <= Len(log) + 1 /\ Len(log) \in Nat /\ (m \in here => ver[m] > 0)
        /\ spent["spoil"] \in Nat /\ MaxLog \in Nat
    <2>1. here \subseteq Msgs /\ ver \in [Msgs -> Nat] /\ spent["spoil"] \in Nat
      BY DEF TypeOK, Faults
    <2>2. Len(log) \in Nat /\ MaxLog \in Nat
      BY Entries, ListAssumption
    <2>3. QED
      BY <2>1, <2>2 DEF Ledger
  <1>2. PICK what \in {"created", "updated", "destroyed"}, hit \in {TRUE, FALSE} :
            /\ Journal(m, what, hit) /\ (what = "created" <=> Deliver(m))
            /\ (what = "destroyed" <=> Destroy(m))
    <2>1. BehindCursor(m) \in {TRUE, FALSE}
      BY DEF BehindCursor, Behind
    <2>2. CASE Deliver(m)
      <3>1. ~Destroy(m)
        BY <1>1, <2>2 DEF Deliver, Destroy
      <3>2. QED
        BY <2>2, <3>1 DEF Deliver
    <2>3. CASE Change(m)
      <3>1. m \in here /\ m \in here' /\ ver[m] # 0
        BY <1>1, <2>3 DEF Change
      <3>2. ~Deliver(m) /\ ~Destroy(m)
        BY <3>1 DEF Deliver, Destroy
      <3>3. QED
        BY <2>3, <3>2 DEF Change
    <2>4. CASE Destroy(m)
      <3>1. ~Deliver(m)
        BY <1>1, <2>4 DEF Deliver, Destroy
      <3>2. QED
        BY <2>1, <2>4, <3>1 DEF Destroy
    <2>5. QED
      BY <2>2, <2>3, <2>4
  <1> DEFINE e == [id |-> m, what |-> what]
  <1>3. e \in [id : Msgs, what : {"created", "updated", "destroyed"}] /\ log' = Append(log, e)
    BY <1>2 DEF Journal
  <1>4. /\ Len(log') = Len(log) + 1 /\ log'[Len(log) + 1] = e
        /\ \A i \in 1..Len(log) : log'[i] = log[i]
        /\ \A s \in Int : s <= Len(log) => Mentions(log', m, s)
        /\ \A k, s : Mentions(log, k, s) /\ s \in Nat => Mentions(log', k, s)
        /\ \A k, s : Creates(log, k, s) /\ s \in Nat => Creates(log', k, s)
        /\ what = "created" => \A s \in Int : s <= Len(log) => Creates(log', m, s)
    <2> HIDE DEF e
    <2>1. e.id = m /\ e.what = what
      BY DEF e
    <2>2. QED
      BY <1>3, <2>1, MentionsGrow
  <1>5. /\ \A k \in Msgs \ {m} : ver'[k] = ver[k] /\ (k \in here' <=> k \in here)
        /\ ver[m] <= ver'[m] /\ ver'[m] <= ver[m] + 1 /\ ver'[m] > 0 /\ ver'[m] \in Nat
        /\ m \in here' /\ m \notin here => ver[m] = 0 /\ Deliver(m)
    <2>1. CASE Deliver(m)
      <3>1. ver' = [ver EXCEPT ![m] = 1] /\ here' = here \cup {m} /\ ver[m] = 0
        BY <2>1 DEF Deliver
      <3>2. ver'[m] = 1 /\ \A k \in Msgs \ {m} : ver'[k] = ver[k]
        BY <1>1, <3>1
      <3>3. QED
        BY <1>1, <2>1, <3>1, <3>2
    <2>2. CASE Change(m)
      BY <1>1, <2>2 DEF Change
    <2>3. CASE Destroy(m)
      BY <1>1, <2>3 DEF Destroy
    <2>4. QED
      BY <2>1, <2>2, <2>3
  <1>6. /\ UNCHANGED <<backend, kept, index, pass, reader, clean, twice>>
        /\ sound' = IF pc = "profile" THEN "no" ELSE sound
        /\ Len(log) < MaxLog
    BY <1>1, <1>2 DEF Journal
  <1>7. StepsBack' => StepsBack
    <2>1. lost \in Nat /\ lost' \in {lost, lost + 1} /\ backend' = backend
      BY <1>2 DEF Journal, TypeOK
    <2>2. QED
      BY <2>1 DEF StepsBack, Thin
  <1>8. QED
    BY <1>1, <1>2, <1>4, <1>5, <1>6, <1>7

\* Every step keeps the ledger: log, mailbox and versions agree.
LEMMA LedgerKept ==
    ASSUME TypeOK, Ledger, [Next]_vars
    PROVE  Ledger'
  <1>1. CASE UNCHANGED <<here, ver, log>>
    BY <1>1 DEF Ledger
  <1>2. ASSUME NEW m \in Msgs, Deliver(m) \/ Change(m) \/ Destroy(m) PROVE Ledger'
    <2> DEFINE n == Len(log) + 1
    <2>1. /\ Len(log) \in Nat /\ MaxLog \in Nat /\ ver \in [Msgs -> Nat]
          /\ \A i \in 1..Len(log) : log[i].id \in Msgs
      BY Entries, ListAssumption DEF TypeOK
    <2>2. /\ Len(log) < MaxLog /\ Len(log') = n /\ log'[n].id = m
          /\ \A i \in 1..Len(log) : log'[i] = log[i]
          /\ \A k \in Msgs \ {m} : ver'[k] = ver[k] /\ (k \in here' <=> k \in here)
          /\ ver'[m] <= Len(log) + 2 /\ ver'[m] > 0 /\ ver'[m] \in Nat
          /\ log'[n].what = "created" <=> Deliver(m)
          /\ log'[n].what = "destroyed" <=> Destroy(m)
          /\ m \in here' /\ m \notin here => ver[m] = 0
      BY <1>2, Moves
    <2>3. \A i \in 1..n : i \in 1..Len(log) \/ i = n
      BY <2>1
    <2>4. Len(log') <= MaxLog
      BY <2>1, <2>2
    <2>5. \A k \in Msgs : ver'[k] <= Len(log') + 1 /\ (k \in here' => ver'[k] > 0)
      BY <2>1, <2>2 DEF Ledger
    <2>6. \A i \in 1..n : ver'[log'[i].id] > 0
      BY <2>1, <2>2, <2>3 DEF Ledger
    <2>7. m \in here' <=> ~Destroy(m)
      <3>1. CASE Deliver(m)
        BY <2>2, <3>1 DEF Deliver, Destroy
      <3>2. CASE Change(m)
        BY <3>2 DEF Change, Destroy
      <3>3. CASE Destroy(m)
        BY <3>3 DEF Destroy
      <3>4. QED
        BY <1>2, <3>1, <3>2, <3>3
    <2>8. Deliver(m) => \A i \in 1..Len(log) : log[i].id # m
      BY <2>1 DEF Deliver, Ledger
    <2>9. ASSUME NEW i \in 1..n, log'[i].what = "destroyed" PROVE log'[i].id \notin here'
      <3>1. CASE i = n
        BY <2>2, <2>7, <2>9, <3>1
      <3>2. CASE i \in 1..Len(log) /\ log[i].id # m
        <4>1. log[i].id \notin here
          BY <2>2, <2>9, <3>2 DEF Ledger
        <4>2. QED
          BY <2>1, <2>2, <3>2, <4>1
      <3>3. CASE i \in 1..Len(log) /\ log[i].id = m
        <4>1. m \notin here /\ ~Deliver(m)
          BY <2>2, <2>8, <2>9, <3>3 DEF Ledger
        <4>2. FALSE
          BY <1>2, <4>1 DEF Change, Destroy
        <4>3. QED
          BY <4>2
      <3>4. QED
        BY <2>3, <3>1, <3>2, <3>3
    <2>10. ASSUME NEW i \in 1..n, log'[i].id \notin here'
           PROVE  \E j \in i..n : log'[j].id = log'[i].id /\ log'[j].what = "destroyed"
      <3>1. CASE log'[i].id = m
        BY <2>1, <2>2, <2>7, <2>10, <3>1
      <3>2. CASE log'[i].id # m
        <4>1. i \in 1..Len(log) /\ log'[i] = log[i] /\ log[i].id \notin here
          BY <2>1, <2>2, <2>3, <2>10, <3>2
        <4>2. PICK j \in i..Len(log) : log[j].id = log[i].id /\ log[j].what = "destroyed"
          BY <4>1 DEF Ledger
        <4>3. j \in i..n /\ j \in 1..Len(log)
          BY <2>1, <4>1
        <4>4. QED
          BY <2>2, <4>1, <4>2, <4>3
      <3>3. QED
        BY <3>1, <3>2
    <2>11. ASSUME NEW i \in 1..n, log'[i].what = "created", NEW j \in 1..n, log'[j].id = log'[i].id
           PROVE  i <= j
      <3>1. CASE i \in 1..Len(log) /\ j \in 1..Len(log)
        BY <2>2, <2>11, <3>1 DEF Ledger
      <3>2. CASE j = n
        BY <2>1, <3>2
      <3>3. CASE i = n /\ j \in 1..Len(log)
        BY <2>2, <2>8, <2>11, <3>3
      <3>4. QED
        BY <2>3, <3>1, <3>2, <3>3
    <2>12. QED
      BY <2>2, <2>4, <2>5, <2>6, <2>9, <2>10, <2>11 DEF Ledger
  <1>3. QED
    BY ServerSteps, <1>1, <1>2

\* Every step keeps every position of the pass within the log.
LEMMA PositionsKept ==
    ASSUME TypeOK, Ledger, Positions, Phased, Stated, [Next]_vars
    PROVE  Positions'
  <1>1. /\ Len(log) \in Nat /\ kept \in Nat /\ token \in Nat /\ state \in Int
        /\ bf.st = "open" => bf.start \in Nat
    BY DEF TypeOK, NoState
  <1>2. ASSUME NEW m \in Msgs, Deliver(m) \/ Change(m) \/ Destroy(m) PROVE Positions'
    <2>1. UNCHANGED <<kept, index, pass>> /\ Len(log') = Len(log) + 1
      BY <1>2, Moves
    <2>2. QED
      BY <1>1, <2>1 DEF Positions, index, pass
  <1>3. CASE UNCHANGED vars
    BY <1>3 DEF Positions, vars, server, index, pass
  <1>4. CASE Forget
    BY <1>1, <1>4 DEF Forget, Positions, index, pass
  <1>5. ASSUME NEW full \in {"no", "full"}, SyncMail(full) PROVE Positions'
    <2>1. UNCHANGED <<kept, log, state, token>> /\ (bf' = bf \/ bf'.st = "none")
      <3>1. bf' = [bf EXCEPT !.st = "none"] => bf'.st = "none"
        BY DEF TypeOK
      <3>2. QED
        BY <1>5, <3>1 DEF SyncMail, server
    <2>2. QED
      BY <2>1 DEF Positions
  <1>6. CASE BeginBackfill
    BY <1>1, <1>6 DEF BeginBackfill, Positions, server
  <1>7. CASE BeginReconcile \/ ReadProfile
    BY <1>1, <1>7 DEF BeginReconcile, ReadProfile, Positions, server, index
  <1>8. CASE ReadChanges
    BY <1>1, <1>8 DEF ReadChanges, Positions, server, index
  <1>9. CASE ApplyUpdates
    BY <1>9 DEF ApplyUpdates, Positions, server
  <1>10. CASE Drop \/ Advance
    BY <1>10 DEF Drop, Advance, Positions, server
  <1>11. CASE SaveCursor
    <2>1. bf'.st = bf.st /\ bf'.start = bf.start
      BY <1>11 DEF SaveCursor, TypeOK
    <2>2. QED
      BY <1>11, <2>1 DEF SaveCursor, Positions, server
  <1>12. CASE FinishBackfill
    <2>1. bf.st = "open" /\ bf'.st = "finished"
      BY <1>12 DEF FinishBackfill, Stated, Paging, Phased, TypeOK
    <2>2. QED
      BY <1>12, <2>1 DEF FinishBackfill, Positions, server
  <1>13. CASE FinishReconcile
    BY <1>13 DEF FinishReconcile, Positions, server
  <1>14. CASE SupersedeBackfill
    <2>1. bf' = bf \/ bf'.st = "finished"
      BY <1>14 DEF SupersedeBackfill, TypeOK
    <2>2. QED
      BY <1>14, <2>1 DEF SupersedeBackfill, Positions, server
  <1>15. CASE EnumerateBackfill \/ EnumerateReconcile \/ ReadEnvelopes
    BY <1>15 DEF EnumerateBackfill, EnumerateReconcile, ReadEnvelopes, Positions, server, index
  <1>16. CASE Resurrect \/ WriteStubs \/ WriteBatch \/ \E m \in Msgs : FetchOne(m)
    BY <1>16 DEF Resurrect, WriteStubs, WriteBatch, FetchOne, Positions, server, index
  <1>17. CASE FindMissing \/ RefreshEnvelopes \/ Reapply \/ Proceed \/ Abort
    BY <1>17 DEF FindMissing, RefreshEnvelopes, Reapply, Proceed, Abort, Positions, server, index
  <1>18. CASE EnsureRawWrite \/ \E m \in Msgs : EnsureRawFetch(m)
    BY <1>18 DEF EnsureRawWrite, EnsureRawFetch, Positions, server, index, pass
  <1>19. QED
    BY Steps, <1>2, <1>3, <1>4, <1>5, <1>6, <1>7, <1>8, <1>9, <1>10, <1>11, <1>12, <1>13,
       <1>14, <1>15, <1>16, <1>17, <1>18

\* A row that exists goes on existing, and no row is ahead of its message.
LEMMA RowsKnown ==
    ASSUME TypeOK, Ledger, Known, [Next]_vars
    PROVE  \A m \in Msgs : /\ rows'[m].ver <= ver'[m] /\ (rows'[m].st # "none" => ver'[m] > 0)
                           /\ Exists(m) => rows'[m].st # "none"
                           /\ Exists(m) \/ rows'[m].st = rows[m].st \/ WriteStubs \/ WriteBatch
  <1>1. /\ rows \in [Msgs -> RowType] /\ ver \in [Msgs -> Nat] /\ rows' \in [Msgs -> RowType]
        /\ \A m \in Msgs : rows[m].ver <= ver[m] /\ (rows[m].st # "none" => ver[m] > 0)
    BY RowSteps DEF TypeOK, RowType, Known, Exists
  <1>2. /\ \A m \in Msgs : ver[m] <= ver'[m] /\ ver'[m] \in Nat
    <2>1. ASSUME NEW m \in Msgs, Deliver(m) \/ Change(m) \/ Destroy(m)
          PROVE  \A k \in Msgs : ver[k] <= ver'[k] /\ ver'[k] \in Nat
      BY <1>1, <2>1, Moves
    <2>2. QED
      BY <1>1, <2>1, ServerSteps
  <1> DEFINE Good(m) == /\ rows'[m].ver <= ver'[m] /\ (rows'[m].st # "none" => ver'[m] > 0)
                        /\ rows[m].st # "none" => rows'[m].st # "none"
                        /\ rows[m].st # "none" \/ rows'[m].st = rows[m].st \/ WriteStubs \/ WriteBatch
  <1>3. ASSUME NEW m \in Msgs, rows'[m] = rows[m] PROVE Good(m)
    <2>1. rows[m].ver \in Nat /\ ver[m] \in Nat /\ ver'[m] \in Nat
      BY <1>1, <1>2 DEF RowType
    <2>2. QED
      BY <1>1, <1>2, <1>3, <2>1
  <1>4. ASSUME NEW S, S \subseteq refile \/ S \subseteq stubs \/ S \subseteq got \/ S \subseteq updated,
               NEW m \in Msgs,
               \E e \in S : e.id = m /\ rows'[m].ver = e.ver, rows'[m].st # "none",
               rows[m].st # "none" \/ rows'[m].st = rows[m].st \/ WriteStubs \/ WriteBatch
        PROVE  Good(m)
    <2>1. PICK e \in S : e.id = m /\ rows'[m].ver = e.ver
      BY <1>4
    <2>2. e.ver <= ver[m] /\ ver[m] > 0 /\ e.ver \in Nat /\ ver[m] \in Nat
      BY <1>4, <2>1 DEF Known, TypeOK
    <2>3. QED
      BY <1>2, <1>4, <2>1, <2>2
  <1>5. ASSUME NEW S, Dropped(S), NEW m \in Msgs PROVE Good(m)
    <2>1. CASE rows'[m] = rows[m]
      BY <1>3, <2>1
    <2>2. CASE rows[m].st = "live" /\ rows'[m].st = "deleted" /\ rows'[m].ver = 0
      BY <1>1, <1>2, <2>2
    <2>3. QED
      BY <1>5, <2>1, <2>2 DEF Dropped, Live
  <1>6. ASSUME NEW m \in Msgs PROVE Good(m)
    <2>1. CASE UNCHANGED rows
      BY <1>3, <2>1
    <2>2. CASE Resurrect /\ \E S \in SUBSET refile : Revived(S)
      BY <1>3, <1>4, <2>2 DEF Revived, Exists
    <2>3. CASE WriteStubs /\ \E S \in SUBSET stubs : Filed(S)
      BY <1>3, <1>4, <2>3 DEF Filed
    <2>4. CASE WriteBatch /\ \E S \in SUBSET got : Filed(S)
      BY <1>3, <1>4, <2>4 DEF Filed
    <2>5. CASE Reapply /\ Applied(got)
      BY <1>3, <1>4, <2>5 DEF Applied, Exists
    <2>6. CASE ApplyUpdates /\ \E S \in SUBSET updated : Applied(S)
      BY <1>3, <1>4, <2>6 DEF Applied, Exists
    <2>7. CASE Drop /\ Dropped(removed)
      BY <1>5, <2>7
    <2>8. CASE EnsureRawWrite
      <3>1. reader.id \in Msgs /\ reader.ver <= ver[reader.id] /\ rows[reader.id].st # "none"
        BY <2>8 DEF EnsureRawWrite, Known, Exists
      <3>2. CASE reader.ver = 0
        BY <1>5, <2>8, <3>2, ReaderRows
      <3>3. CASE reader.ver # 0 /\ m # reader.id
        BY <1>3, <2>8, <3>3, ReaderRows
      <3>4. CASE reader.ver # 0 /\ m = reader.id
        <4>1. rows'[m].ver = reader.ver /\ rows'[m].st = "live" /\ reader.ver \in Nat
          <5>1. rows'[m] = [st |-> "live", raw |-> "full", ver |-> reader.ver]
            BY <2>8, <3>4, ReaderRows
          <5>2. reader.ver \in Nat
            BY DEF TypeOK
          <5>3. QED
            BY <5>1, <5>2
        <4>2. ver[m] > 0 /\ ver[m] \in Nat /\ ver[m] <= ver'[m] /\ ver'[m] \in Nat
          BY <1>1, <1>2, <3>1, <3>4
        <4>3. reader.ver <= ver[m] /\ rows[m].st # "none"
          BY <3>1, <3>4
        <4>4. rows'[m].ver <= ver'[m] /\ ver'[m] > 0
          BY <4>1, <4>2, <4>3
        <4>5. rows[m].st # "none" /\ rows'[m].st = "live"
          BY <4>1, <4>3
        <4>6. QED
          BY <4>4, <4>5
      <3>5. QED
        BY <3>2, <3>3, <3>4
    <2>9. QED
      BY RowSteps, <2>1, <2>2, <2>3, <2>4, <2>5, <2>6, <2>7, <2>8
  <1>7. QED
    BY <1>6 DEF Exists

\* Every step keeps that whatever the pass holds was once served.
LEMMA KnownKept ==
    ASSUME TypeOK, Ledger, Positions, Known, Phased, Stated, Enumerating, [Next]_vars
    PROVE  Known'
  <1> DEFINE Env(T) == \A e \in T : ver'[e.id] > 0 /\ e.ver <= ver'[e.id]
             Seen(T) == \A m \in T : ver'[m] > 0
             Open == reader' # NoReader =>
                        /\ reader'.id \in Msgs /\ rows'[reader'.id].st # "none"
                        /\ reader'.ver <= ver'[reader'.id]
                        /\ reader'.ver = 0 => reader'.id \notin here'
  <1>1. /\ here \subseteq Msgs /\ ver \in [Msgs -> Nat] /\ rows \in [Msgs -> RowType]
        /\ \A m \in Msgs : (m \in here => ver[m] > 0) /\ (rows[m].st # "none" => ver[m] > 0)
    BY DEF TypeOK, RowType, Ledger, Known, Exists
  <1>2. \A m \in Msgs : ver[m] <= ver'[m] /\ ver'[m] \in Nat /\ ver[m] \in Nat
    <2>1. ASSUME NEW m \in Msgs, Deliver(m) \/ Change(m) \/ Destroy(m)
          PROVE  \A k \in Msgs : ver[k] <= ver'[k] /\ ver'[k] \in Nat
      BY <1>1, <2>1, Moves
    <2>2. QED
      BY <1>1, <2>1, ServerSteps
  <1>3. /\ Env(refile) /\ Env(stubs) /\ Env(got) /\ Env(updated)
    <2>1. \A S \in {refile, stubs, got, updated} : \A e \in S :
              e.id \in Msgs /\ e.ver \in Nat /\ ver[e.id] > 0 /\ e.ver <= ver[e.id]
      BY DEF TypeOK, Known
    <2>2. QED
      BY <1>2, <2>1
  <1>4. /\ Seen(fetch) /\ Seen(refresh) /\ Seen(removed) /\ Seen(local) /\ Seen(remote)
        /\ Seen(here)
        /\ \A m \in Msgs : rows[m].st # "none" => ver'[m] > 0
    <2>1. \A S \in {fetch, refresh, removed, local, remote, here} : \A m \in S : m \in Msgs /\ ver[m] > 0
      BY <1>1 DEF TypeOK, Known
    <2>2. QED
      BY <1>1, <1>2, <2>1
  <1>5. \A m \in Msgs : rows'[m].ver <= ver'[m] /\ (rows'[m].st # "none" => ver'[m] > 0)
    BY RowsKnown
  <1> DEFINE Goal == /\ Env(refile') /\ Env(stubs') /\ Env(got') /\ Env(updated')
                     /\ Seen(fetch') /\ Seen(refresh') /\ Seen(removed') /\ Seen(local') /\ Seen(remote')
  <1>6. SUFFICES Goal /\ Open
    BY <1>5 DEF Known, Exists
  <1>7. UNCHANGED reader => Open
    <2> SUFFICES ASSUME UNCHANGED reader, reader # NoReader PROVE Open
      OBVIOUS
    <2>1. /\ reader.id \in Msgs /\ rows[reader.id].st # "none" /\ reader.ver <= ver[reader.id]
          /\ reader.ver = 0 => reader.id \notin here
          /\ reader.ver \in Nat
      BY DEF Known, Exists, TypeOK
    <2>2. rows'[reader.id].st # "none"
      BY <2>1, RowsKnown DEF Exists
    <2>3. reader.ver <= ver'[reader.id]
      BY <1>2, <2>1
    <2>4. reader.ver = 0 => reader.id \notin here'
      <3>1. ASSUME NEW m \in Msgs, Deliver(m) \/ Change(m) \/ Destroy(m), reader.ver = 0
            PROVE  reader.id \notin here'
        <4>1. ver[reader.id] # 0
          BY <1>1, <2>1
        <4>2. QED
          BY <2>1, <3>1, <4>1, Moves
      <3>2. QED
        BY <2>1, <3>1, ServerSteps
    <2>5. QED
      BY <2>1, <2>2, <2>3, <2>4
  <1> HIDE DEF Open
  <1>8. CASE UNCHANGED vars \/ Forget
    BY <1>8, <1>3, <1>4, <1>7 DEF Forget, vars, pass, plan, outer
  <1>9. ASSUME NEW m \in Msgs, Deliver(m) \/ Change(m) \/ Destroy(m) PROVE Goal /\ Open
    <2>1. UNCHANGED <<pass, reader>>
      BY <1>9, Moves
    <2>2. QED
      BY <1>3, <1>4, <1>7, <2>1 DEF pass, plan
  <1>10. ASSUME NEW full \in {"no", "full"}, SyncMail(full) PROVE Goal /\ Open
    BY <1>10, <1>3, <1>4, <1>7 DEF SyncMail, plan, outer
  <1>11. CASE BeginBackfill \/ ReadChanges \/ ReadProfile
    BY <1>11, <1>3, <1>4, <1>7 DEF BeginBackfill, ReadChanges, ReadProfile, plan, outer
  <1>12. CASE BeginReconcile
    BY <1>12, <1>3, <1>4, <1>7 DEF BeginReconcile, plan, Live
  <1>13. CASE EnumerateBackfill
    <2> DEFINE P == PageOf(Rest(cursor))
    <2>1. P \subseteq here
      <3>1. Counted(cursor)
        BY DEF Enumerating
      <3>2. QED
        BY <3>1, NextPage
    <2>2. \A m \in P : m \in Msgs /\ ver'[m] > 0 /\ Listed(m).id = m /\ Listed(m).ver <= ver'[m]
      <3> SUFFICES ASSUME NEW m \in P PROVE m \in Msgs /\ ver'[m] > 0 /\ Listed(m).id = m /\ Listed(m).ver <= ver'[m]
        OBVIOUS
      <3>1. m \in Msgs /\ ver[m] > 0
        BY <1>1, <2>1
      <3>2. Listed(m).id = m /\ Listed(m).ver <= ver[m] /\ Listed(m).ver \in Nat
        BY <3>1, EnvelopeTyped
      <3>3. QED
        BY <1>2, <3>1, <3>2
    <2> HIDE DEF P
    <2>3. QED
      BY <1>13, <1>3, <1>4, <1>7, <2>2 DEF EnumerateBackfill, P, outer
  <1>14. CASE EnumerateReconcile
    <2> DEFINE P == PageOf(Rest(cursor))
    <2>1. P \subseteq here
      <3>1. Counted(cursor)
        BY DEF Enumerating
      <3>2. QED
        BY <3>1, NextPage
    <2>2. \A m \in P : m \in Msgs /\ ver'[m] > 0 /\ Listed(m).id = m /\ Listed(m).ver <= ver'[m]
      <3> SUFFICES ASSUME NEW m \in P PROVE m \in Msgs /\ ver'[m] > 0 /\ Listed(m).id = m /\ Listed(m).ver <= ver'[m]
        OBVIOUS
      <3>1. m \in Msgs /\ ver[m] > 0
        BY <1>1, <2>1
      <3>2. Listed(m).id = m /\ Listed(m).ver <= ver[m] /\ Listed(m).ver \in Nat
        BY <3>1, EnvelopeTyped
      <3>3. QED
        BY <1>2, <3>1, <3>2
    <2> HIDE DEF P
    <2>3. QED
      BY <1>14, <1>3, <1>4, <1>7, <2>2 DEF EnumerateReconcile, P, outer
  <1>15. CASE ReadEnvelopes
    <2>1. \A what \in {"created", "updated", "destroyed"} : \A m \in Window(what) :
              m \in Msgs /\ ver'[m] > 0
      <3> SUFFICES ASSUME NEW what \in {"created", "updated", "destroyed"}, NEW m \in Window(what)
                   PROVE  m \in Msgs /\ ver'[m] > 0
        OBVIOUS
      <3>1. state # NoState /\ state \in Nat /\ token <= Len(log) /\ token \in Nat /\ Len(log) \in Nat
        BY <1>15 DEF ReadEnvelopes, Phased, Stated, TypeOK, Positions, NoState
      <3>2. PICK i \in state + 1 .. token : log[i].id = m
        BY <3>1, WindowIds
      <3>3. m \in Msgs /\ ver[m] > 0
        BY <3>1, <3>2, Entries DEF Ledger
      <3>4. QED
        BY <1>2, <3>3
    <2>2. \A m \in Msgs : /\ Envelope(m).id = m /\ Envelope(m).ver <= ver'[m]
                           /\ Listed(m).id = m /\ Listed(m).ver <= ver'[m]
      <3> SUFFICES ASSUME NEW m \in Msgs
                   PROVE  /\ Envelope(m).id = m /\ Envelope(m).ver <= ver'[m]
                          /\ Listed(m).id = m /\ Listed(m).ver <= ver'[m]
        OBVIOUS
      <3>1. QED
        BY <1>2, EnvelopeTyped
    <2>3. QED
      BY <1>15, <1>3, <1>4, <1>7, <2>1, <2>2 DEF ReadEnvelopes, outer
  <1>16. CASE Resurrect \/ WriteStubs \/ WriteBatch
    BY <1>16, <1>3, <1>4, <1>7 DEF Resurrect, WriteStubs, WriteBatch, outer
  <1>17. ASSUME NEW m \in Msgs, FetchOne(m) PROVE Goal /\ Open
    <2>1. \A k \in here : k \in Msgs /\ ver'[k] > 0 /\ Envelope(k).id = k /\ Envelope(k).ver <= ver'[k]
      <3> SUFFICES ASSUME NEW k \in here
                   PROVE  k \in Msgs /\ ver'[k] > 0 /\ Envelope(k).id = k /\ Envelope(k).ver <= ver'[k]
        OBVIOUS
      <3>1. k \in Msgs /\ Envelope(k).id = k /\ Envelope(k).ver = ver[k]
        BY <1>1, EnvelopeTyped
      <3>2. QED
        BY <1>2, <1>4, <3>1
    <2>2. QED
      BY <1>17, <1>3, <1>4, <1>7, <2>1 DEF FetchOne, outer
  <1>18. CASE RefreshEnvelopes
    <2>1. \A k \in here : k \in Msgs /\ ver'[k] > 0 /\ Envelope(k).id = k /\ Envelope(k).ver <= ver'[k]
      <3> SUFFICES ASSUME NEW k \in here
                   PROVE  k \in Msgs /\ ver'[k] > 0 /\ Envelope(k).id = k /\ Envelope(k).ver <= ver'[k]
        OBVIOUS
      <3>1. k \in Msgs /\ Envelope(k).id = k /\ Envelope(k).ver = ver[k]
        BY <1>1, EnvelopeTyped
      <3>2. QED
        BY <1>2, <1>4, <3>1
    <2>2. QED
      BY <1>18, <1>3, <1>4, <1>7, <2>1 DEF RefreshEnvelopes, outer
  <1>19. CASE FindMissing \/ Reapply \/ ApplyUpdates \/ Drop
    BY <1>19, <1>3, <1>4, <1>7 DEF FindMissing, Reapply, ApplyUpdates, Drop, outer
  <1>20. CASE Advance \/ SaveCursor \/ FinishBackfill \/ FinishReconcile
    BY <1>20, <1>3, <1>4, <1>7 DEF Advance, SaveCursor, FinishBackfill, FinishReconcile,
       plan, outer
  <1>21. CASE SupersedeBackfill \/ Proceed \/ Abort
    BY <1>21, <1>3, <1>4, <1>7 DEF SupersedeBackfill, Proceed, Abort, plan, outer
  <1>22. CASE EnsureRawWrite
    <2>1. Open
      BY <1>22 DEF EnsureRawWrite, Open
    <2>2. QED
      BY <1>22, <1>3, <1>4, <2>1 DEF EnsureRawWrite, pass, plan
  <1>23. ASSUME NEW m \in Msgs, EnsureRawFetch(m) PROVE Goal /\ Open
    <2>1. Open
      <3>1. /\ reader' = [id |-> m, ver |-> IF m \in here THEN ver[m] ELSE 0]
            /\ rows[m].st # "none" /\ rows' = rows /\ ver' = ver /\ here' = here
        BY <1>23 DEF EnsureRawFetch, Exists, server, index
      <3>2. ver[m] \in Nat /\ ver[m] > 0
        BY <1>1, <3>1
      <3>3. QED
        BY <3>1, <3>2 DEF Open
    <2>2. QED
      BY <1>23, <1>3, <1>4, <2>1 DEF EnsureRawFetch, pass, plan
  <1>24. QED
    BY Steps, <1>8, <1>9, <1>10, <1>11, <1>12, <1>13, <1>14, <1>15, <1>16, <1>17, <1>18, <1>19, <1>20, <1>21, <1>22, <1>23

-----------------------------------------------------------------------------
(* Where a pass is, what it has in hand there, and where the cursor is.    *)

\* Every step keeps what each phase says of the kind of pass.
LEMMA PhasedKept ==
    ASSUME TypeOK, Ledger, Phased, [Next]_vars
    PROVE  Phased'
  <1>1. kind \in {"backfill", "delta", "reconcile"} /\ pc \in Phases
    BY DEF TypeOK
  <1>2. CASE UNCHANGED vars \/ Forget
    BY <1>2 DEF Phased, Forget, vars, pass, plan
  <1>3. ASSUME NEW m \in Msgs, Deliver(m) \/ Change(m) \/ Destroy(m) PROVE Phased'
    <2>1. UNCHANGED pass
      BY <1>3, Moves
    <2>2. QED
      BY <2>1 DEF Phased, pass, plan
  <1>4. ASSUME NEW full \in {"no", "full"}, SyncMail(full) PROVE Phased'
    BY <1>4 DEF Phased, SyncMail, plan
  <1>5. CASE BeginBackfill
    BY <1>5 DEF Phased, BeginBackfill, plan
  <1>6. CASE BeginReconcile
    BY <1>6 DEF Phased, BeginReconcile, plan
  <1>7. CASE EnumerateBackfill
    BY <1>7 DEF Phased, EnumerateBackfill
  <1>8. CASE EnumerateReconcile
    BY <1>8 DEF Phased, EnumerateReconcile
  <1>9. CASE ReadChanges
    BY <1>9 DEF Phased, ReadChanges, plan
  <1>10. CASE ReadProfile
    BY <1>10 DEF Phased, ReadProfile, plan
  <1>11. CASE ReadEnvelopes
    BY <1>11 DEF Phased, ReadEnvelopes
  <1>12. CASE Resurrect
    BY <1>12 DEF Phased, Resurrect
  <1>13. CASE WriteStubs
    BY <1>13 DEF Phased, WriteStubs
  <1>14. CASE WriteBatch
    BY <1>14 DEF Phased, WriteBatch
  <1>15. ASSUME NEW m \in Msgs, FetchOne(m) PROVE Phased'
    BY <1>15 DEF Phased, FetchOne
  <1>16. CASE FindMissing
    BY <1>16 DEF Phased, FindMissing
  <1>17. CASE RefreshEnvelopes
    BY <1>17 DEF Phased, RefreshEnvelopes
  <1>18. CASE Reapply
    BY <1>18 DEF Phased, Reapply
  <1>19. CASE ApplyUpdates
    BY <1>19 DEF Phased, ApplyUpdates
  <1>20. CASE Drop
    BY <1>20 DEF Phased, Drop
  <1>21. CASE Advance
    BY <1>21 DEF Phased, Advance, plan
  <1>22. CASE SaveCursor
    BY <1>22 DEF Phased, SaveCursor, plan
  <1>23. CASE FinishBackfill
    BY <1>23 DEF Phased, FinishBackfill, plan
  <1>24. CASE FinishReconcile
    BY <1>24 DEF Phased, FinishReconcile, plan
  <1>25. CASE SupersedeBackfill
    BY <1>25 DEF Phased, SupersedeBackfill, plan
  <1>26. CASE Proceed
    <2>1. pc' = After(pc) /\ ~Todo(pc) /\ UNCHANGED <<kind, plan>>
      BY <1>26 DEF Proceed
    <2>2. pc \in {"refile", "stubs", "fetch", "drop", "refresh", "reapply", "apply"}
      BY <1>1, <2>1 DEF Todo, Phases
    <2>3. CASE pc = "refile"
      BY <1>1, <2>1, <2>3 DEF Phased, After, Todo, plan
    <2>4. CASE pc = "stubs"
      BY <1>1, <2>1, <2>4 DEF Phased, After, Todo, plan
    <2>5. CASE pc = "fetch"
      BY <1>1, <2>1, <2>5 DEF Phased, After, Todo, plan
    <2>6. CASE pc = "drop"
      BY <1>1, <2>1, <2>6 DEF Phased, After, Todo, plan
    <2>7. CASE pc = "refresh"
      BY <1>1, <2>1, <2>7 DEF Phased, After, Todo, plan
    <2>8. CASE pc = "reapply"
      BY <1>1, <2>1, <2>8 DEF Phased, After, Todo, plan
    <2>9. CASE pc = "apply"
      BY <1>1, <2>1, <2>9 DEF Phased, After, Todo, plan
    <2>10. QED
      BY <2>2, <2>3, <2>4, <2>5, <2>6, <2>7, <2>8, <2>9
  <1>27. CASE Abort
    BY <1>27 DEF Phased, Abort
  <1>28. CASE EnsureRawWrite
    BY <1>28 DEF Phased, EnsureRawWrite, pass, plan
  <1>29. ASSUME NEW m \in Msgs, EnsureRawFetch(m) PROVE Phased'
    BY <1>29 DEF Phased, EnsureRawFetch, pass, plan
  <1>30. QED
    BY Steps, <1>2, <1>3, <1>4, <1>5, <1>6, <1>7, <1>8, <1>9, <1>10, <1>11, <1>12,
       <1>13, <1>14, <1>15, <1>16, <1>17, <1>18, <1>19, <1>20, <1>21, <1>22, <1>23,
       <1>24, <1>25, <1>26, <1>27, <1>28, <1>29

\* Every step keeps what is known of the stored state and of the token.
LEMMA StatedKept ==
    ASSUME TypeOK, Ledger, Positions, Phased, Stated, [Next]_vars
    PROVE  Stated'
  <1>1. /\ kind \in {"backfill", "delta", "reconcile"} /\ pc \in Phases /\ Len(log) \in Nat
        /\ state \in Nat \cup {NoState} /\ token \in Nat /\ state <= Len(log)
        /\ NoState \notin Nat /\ state \in Int
        /\ bf.st \in {"none", "open", "finished"} /\ (bf.st = "open" => bf.start \in Nat)
    BY DEF TypeOK, NoState, Positions
  <1>2. CASE UNCHANGED vars \/ Forget
    BY <1>2, <1>1 DEF Stated, OpenMeansNoState, Paging, Forget, vars, pass, server,
       index, outer
  <1>3. ASSUME NEW m \in Msgs, Deliver(m) \/ Change(m) \/ Destroy(m) PROVE Stated'
    <2>1. /\ UNCHANGED <<index, pass, clean>>
          /\ sound' = IF pc = "profile" THEN "no" ELSE sound
      BY <1>3, Moves
    <2>2. QED
      BY <1>1, <2>1 DEF Stated, OpenMeansNoState, Paging, index, pass
  <1>4. ASSUME NEW full \in {"no", "full"}, SyncMail(full) PROVE Stated'
    <2>1. bf' = [bf EXCEPT !.st = "none"] => bf'.st = "none"
      BY DEF TypeOK
    <2>2. QED
      BY <1>1, <1>4, <2>1 DEF Stated, OpenMeansNoState, Paging, SyncMail, server
  <1>5. CASE BeginBackfill
    BY <1>5, <1>1 DEF Stated, OpenMeansNoState, Paging, Phased, BeginBackfill, server,
       outer
  <1>6. CASE BeginReconcile
    BY <1>6, <1>1 DEF Stated, OpenMeansNoState, Paging, Phased, BeginReconcile, server,
       index
  <1>7. CASE EnumerateBackfill
    BY <1>7, <1>1 DEF Stated, OpenMeansNoState, Paging, Phased, EnumerateBackfill,
       server, index, outer
  <1>8. CASE EnumerateReconcile
    BY <1>8, <1>1 DEF Stated, OpenMeansNoState, Paging, Phased, EnumerateReconcile,
       server, index, outer
  <1>9. CASE ReadChanges
    BY <1>9, <1>1 DEF Stated, OpenMeansNoState, Paging, Phased, ReadChanges, server,
       index, outer
  <1>10. CASE ReadProfile
    BY <1>10, <1>1 DEF Stated, OpenMeansNoState, Paging, Phased, ReadProfile, server,
       index, outer
  <1>11. CASE ReadEnvelopes
    BY <1>11, <1>1 DEF Stated, OpenMeansNoState, Paging, Phased, ReadEnvelopes, server,
       index, outer
  <1>12. CASE Resurrect \/ WriteStubs \/ WriteBatch
    BY <1>12, <1>1 DEF Stated, OpenMeansNoState, Paging, Resurrect, WriteStubs,
       WriteBatch, server, outer
  <1>13. ASSUME NEW m \in Msgs, FetchOne(m) PROVE Stated'
    BY <1>13, <1>1 DEF Stated, OpenMeansNoState, Paging, FetchOne, server, index, outer
  <1>14. CASE FindMissing \/ RefreshEnvelopes \/ Reapply
    BY <1>14, <1>1 DEF Stated, OpenMeansNoState, Paging, Phased, FindMissing,
       RefreshEnvelopes, Reapply, server, index, outer
  <1>15. CASE ApplyUpdates
    BY <1>15, <1>1 DEF Stated, OpenMeansNoState, Paging, Phased, ApplyUpdates, server,
       outer
  <1>16. CASE Drop
    BY <1>16, <1>1 DEF Stated, OpenMeansNoState, Paging, Phased, Drop, server, outer
  <1>17. CASE Advance
    BY <1>17, <1>1 DEF Stated, OpenMeansNoState, Paging, Phased, Advance, server, outer
  <1>18. CASE SaveCursor
    <2>1. bf'.st = bf.st
      BY <1>18 DEF SaveCursor, TypeOK
    <2>2. QED
      BY <1>1, <1>18, <2>1 DEF Stated, OpenMeansNoState, Paging, Phased, SaveCursor, server, outer
  <1>19. CASE FinishBackfill
    <2>1. bf'.st = "finished" /\ bf.st = "open"
      BY <1>19 DEF FinishBackfill, TypeOK, Stated, Paging, Phased
    <2>2. QED
      BY <1>1, <1>19, <2>1 DEF Stated, OpenMeansNoState, Paging, FinishBackfill, server, outer
  <1>20. CASE FinishReconcile
    BY <1>20, <1>1 DEF Stated, OpenMeansNoState, Paging, Phased, FinishReconcile, server
  <1>21. CASE SupersedeBackfill
    <2>1. bf.st # "open" /\ bf' = bf
      BY <1>1, <1>21 DEF SupersedeBackfill, Phased, Stated
    <2>2. QED
      BY <1>1, <1>21, <2>1 DEF Stated, OpenMeansNoState, Paging, Phased, SupersedeBackfill, server, outer
  <1>22. CASE Proceed
    <2>1. pc' = After(pc) /\ ~Todo(pc) /\ UNCHANGED <<kind, index, log, token, sound, clean>>
      BY <1>22 DEF Proceed, server, outer
    <2>2. pc \in {"refile", "stubs", "fetch", "drop", "refresh", "reapply", "apply"}
      BY <1>1, <2>1 DEF Todo, Phases
    <2>3. /\ pc' \notin {"idle", "begin", "profile", "list", "changes"}
          /\ kind = "backfill" => pc \in {"refile", "stubs", "fetch", "drop"}
      BY <1>1, <2>1, <2>2 DEF After, Phased
    <2>4. QED
      BY <1>1, <2>1, <2>2, <2>3 DEF Stated, OpenMeansNoState, Paging, index
  <1>23. CASE Abort
    BY <1>23, <1>1 DEF Stated, OpenMeansNoState, Paging, Abort, server, index, outer
  <1>24. CASE EnsureRawWrite
    BY <1>24, <1>1 DEF Stated, OpenMeansNoState, Paging, EnsureRawWrite, pass, server
  <1>25. ASSUME NEW m \in Msgs, EnsureRawFetch(m) PROVE Stated'
    BY <1>25, <1>1 DEF Stated, OpenMeansNoState, Paging, EnsureRawFetch, pass, index,
       server
  <1>26. QED
    BY Steps, <1>2, <1>3, <1>4, <1>5, <1>6, <1>7, <1>8, <1>9, <1>10, <1>11, <1>12,
       <1>13, <1>14, <1>15, <1>16, <1>17, <1>18, <1>19, <1>20, <1>21, <1>22, <1>23,
       <1>24, <1>25

\* A cursor stays a good one when mail arrives, and when a message it has passed
\* goes and is counted.
LEMMA CountsKept ==
    ASSUME NEW H \in SUBSET Msgs, NEW G \in SUBSET Msgs, NEW c, NEW l \in Nat, NEW more \in Nat,
           NEW thin, Counts(c, H, l, thin), l <= more,
           H \subseteq G \/ \E m \in H : G = H \ {m} /\ (Behind(c, m) => more = l + 1)
    PROVE  Counts(c, G, more, thin)
  <1> SUFFICES ASSUME ~thin, c.anchor # 0
               PROVE  /\ Cardinality(Above(G, c)) + more >= c.n
                      /\ c.anchor \in G \/ more > 0
    BY DEF Counts
  <1>1. /\ c.anchor \in Msgs /\ c.n \in Nat /\ c.anchor \in Nat
        /\ Cardinality(Above(H, c)) + l >= c.n
        /\ c.anchor \in H \/ l > 0
    <2>1. /\ c.anchor \in Msgs /\ c.n \in Nat
          /\ Cardinality(Above(H, c)) + l >= c.n
          /\ c.anchor \in H \/ l > 0
      BY DEF Counts, Fresh
    <2>2. QED
      BY <2>1, MsgsFinite
  <1>2. /\ Above(H, c) \in SUBSET Msgs /\ Above(G, c) \in SUBSET Msgs
        /\ IsFiniteSet(Above(H, c))
        /\ Cardinality(Above(H, c)) \in Nat /\ Cardinality(Above(G, c)) \in Nat
    <2>1. Above(H, c) \in SUBSET Msgs /\ Above(G, c) \in SUBSET Msgs
      BY DEF Above
    <2>2. QED
      BY <2>1, MsgsFinite
  <1>3. CASE H \subseteq G
    <2>1. Above(H, c) \subseteq Above(G, c)
      BY <1>3 DEF Above
    <2>2. Cardinality(Above(H, c)) <= Cardinality(Above(G, c))
      BY <1>2, <2>1, Smaller
    <2>3. QED
      BY <1>1, <1>2, <1>3, <2>2
  <1>4. ASSUME NEW m \in H, G = H \ {m}, Behind(c, m) => more = l + 1
        PROVE  /\ Cardinality(Above(G, c)) + more >= c.n
               /\ c.anchor \in G \/ more > 0
    <2>1. CASE m >= c.anchor
      <3>1. more = l + 1
        BY <1>4, <2>1 DEF Behind
      <3>2. Above(G, c) = Above(H, c) \ {m}
        BY <1>4 DEF Above
      <3>3. Cardinality(Above(G, c)) >= Cardinality(Above(H, c)) - 1
        <4>1. Cardinality(Above(H, c) \ {m}) = IF m \in Above(H, c) THEN Cardinality(Above(H, c)) - 1
                                                ELSE Cardinality(Above(H, c))
          BY <1>2, FS_RemoveElement
        <4>2. QED
          BY <1>2, <3>2, <4>1
      <3>4. QED
        BY <1>1, <1>2, <3>1, <3>3
    <2>2. CASE ~(m >= c.anchor)
      <3>1. Above(G, c) = Above(H, c)
        BY <1>4, <2>2 DEF Above
      <3>2. m # c.anchor
        BY <1>1, <2>2
      <3>3. QED
        BY <1>1, <1>2, <1>4, <3>1, <3>2
    <2>3. QED
      BY <2>1, <2>2
  <1>5. QED
    BY <1>3, <1>4

\* Every step keeps the count behind the cursor of a listing.
LEMMA EnumeratingKept ==
    ASSUME TypeOK, Ledger, Known, Positions, Phased, Stated, Enumerating, [Next]_vars
    PROVE  Enumerating'
  <1>1. /\ here \subseteq Msgs /\ lost \in Nat
        /\ Counts(cursor, here, lost, Thin)
        /\ bf.st = "open" => Counts(bf.cursor, here, lost, Thin)
        /\ cursor # Fresh => (Paging /\ pc # "finish") \/ (kind = "reconcile" /\ pc = "enum")
        /\ pc \in Phases /\ kind \in {"backfill", "delta", "reconcile"}
    BY DEF Enumerating, Counted, TypeOK, Faults
  <1>2. \A c, l : c = Fresh => Counts(c, here, l, Thin)
    BY DEF Counts, Fresh
  <1>3. bf.st = "open" => state = NoState
    BY DEF Stated, OpenMeansNoState
  <1>4. CASE UNCHANGED vars
    BY <1>4, <1>1, <1>2 DEF Enumerating, Counted, Thin, Paging, vars, pass, server, outer,
       index
  <1>5. CASE Forget
    BY <1>5, <1>1, <1>2 DEF Enumerating, Counted, Thin, Paging, Forget, Faults,
       pass, server, outer, index
  <1>6. ASSUME NEW m \in Msgs, Deliver(m) \/ Change(m) \/ Destroy(m) PROVE Enumerating'
    <2>1. /\ UNCHANGED <<backend, index, pass>>
          /\ \A k \in Msgs \ {m} : k \in here' <=> k \in here
      BY <1>6, Moves
    <2>2. here' \in SUBSET Msgs
      <3>1. TypeOK'
        BY TypesKept
      <3>2. QED
        BY <3>1 DEF TypeOK
    <2>3. /\ lost' \in Nat /\ lost <= lost'
          /\ Destroy(m) /\ BehindCursor(m) => lost' = lost + 1
      <3>1. PICK what \in {"created", "updated", "destroyed"}, hit \in {TRUE, FALSE} :
                /\ Journal(m, what, hit) /\ (Destroy(m) => hit = BehindCursor(m))
        <4>1. BehindCursor(m) \in {TRUE, FALSE}
          BY DEF BehindCursor, Behind
        <4>2. CASE Destroy(m)
          BY <4>1, <4>2 DEF Destroy
        <4>3. CASE ~Destroy(m)
          BY <1>6, <4>3 DEF Deliver, Change
        <4>4. QED
          BY <4>2, <4>3
      <3>2. lost' = IF hit THEN lost + 1 ELSE lost
        BY <3>1 DEF Journal
      <3>3. QED
        BY <1>1, <3>1, <3>2
    <2>5. Destroy(m) => m \in here /\ here' = here \ {m}
      BY DEF Destroy
    <2>6. ~Destroy(m) => here \subseteq here'
      BY <1>6 DEF Deliver, Change
    <2>7. ASSUME NEW c, c = cursor \/ (bf.st = "open" /\ c = bf.cursor)
          PROVE  Counts(c, here', lost', Thin)
      <3>1. Counts(c, here, lost, Thin)
        BY <1>1, <2>7
      <3>2. CASE ~Destroy(m)
        BY <1>1, <2>2, <2>3, <2>6, <3>1, <3>2, CountsKept
      <3>3. CASE Destroy(m)
        <4>1. Behind(c, m) => lost' = lost + 1
          BY <2>3, <2>7, <3>3 DEF BehindCursor
        <4>2. m \in here /\ here' = here \ {m}
          BY <2>5, <3>3
        <4>3. QED
          BY <1>1, <2>2, <2>3, <3>1, <4>1, <4>2, CountsKept
      <3>4. QED
        BY <3>2, <3>3
    <2>8. Counts(cursor, here', lost', Thin)
      BY <2>7
    <2>9. bf.st = "open" => Counts(bf.cursor, here', lost', Thin)
      BY <2>7
    <2>10. QED
      BY <1>1, <2>1, <2>3, <2>8, <2>9 DEF Enumerating, Counted, Thin, Paging, index, pass
  <1>7. ASSUME NEW full \in {"no", "full"}, SyncMail(full) PROVE Enumerating'
    <2>1. UNCHANGED <<here, backend, lost>>
      BY <1>7 DEF SyncMail, server, outer
    <2>2. bf' = [bf EXCEPT !.st = "none"] => bf'.st = "none"
      BY DEF TypeOK
    <2>3. cursor = Fresh
      BY <1>1, <1>7 DEF SyncMail, Paging
    <2>4. /\ cursor' # Fresh => kind' = "backfill" /\ pc' = "enum"
          /\ Counts(cursor', here, lost, Thin)
          /\ bf'.st = "open" => Counts(bf'.cursor, here, lost, Thin)
      BY <1>1, <1>2, <1>7, <2>2, <2>3 DEF SyncMail
    <2>5. QED
      BY <1>1, <2>1, <2>4 DEF Enumerating, Counted, Thin, Paging
  <1>8. CASE BeginBackfill
    BY <1>8, <1>1, <1>2 DEF Enumerating, Counted, Thin, Paging, Phased, BeginBackfill,
       server, outer
  <1>9. CASE BeginReconcile
    <2>1. cursor = Fresh /\ bf.st # "open"
      BY <1>1, <1>3, <1>9 DEF BeginReconcile, Paging, Phased, Stated
    <2>2. QED
      BY <1>2, <1>9, <2>1 DEF Enumerating, Counted, Thin, BeginReconcile, server, outer, index
  <1>10. CASE EnumerateBackfill
    <2>1. Counts(cursor', here, lost, Thin)
      <3>1. Counted(cursor)
        BY <1>1 DEF Counted
      <3>2. QED
        BY <1>1, <1>10, <3>1, NextPage DEF EnumerateBackfill, Counted
    <2>2. QED
      BY <1>1, <1>10, <2>1 DEF EnumerateBackfill, Enumerating, Counted, Thin, Paging, server, outer, index
  <1>11. CASE EnumerateReconcile
    <2>1. Counts(cursor', here, lost, Thin)
      <3>1. Counted(cursor)
        BY <1>1 DEF Counted
      <3>2. QED
        BY <1>1, <1>11, <3>1, NextPage DEF EnumerateReconcile, Counted
    <2>2. QED
      BY <1>1, <1>11, <2>1 DEF EnumerateReconcile, Enumerating, Counted, Thin, Paging, server, outer, index
  <1>12. CASE ReadChanges \/ ReadProfile
    BY <1>12, <1>1, <1>2 DEF Enumerating, Counted, Thin, Paging, Phased, ReadChanges,
       ReadProfile, server, outer, index
  <1>13. CASE ReadEnvelopes
    BY <1>13, <1>1, <1>2 DEF Enumerating, Counted, Thin, Paging, Phased, ReadEnvelopes,
       server, outer, index
  <1>14. CASE Resurrect \/ WriteStubs \/ WriteBatch
    BY <1>14, <1>1, <1>2 DEF Enumerating, Counted, Thin, Paging, Resurrect, WriteStubs,
       WriteBatch, server, outer
  <1>15. ASSUME NEW m \in Msgs, FetchOne(m) PROVE Enumerating'
    BY <1>15, <1>1, <1>2 DEF Enumerating, Counted, Thin, Paging, FetchOne, server, outer, index
  <1>16. CASE FindMissing \/ RefreshEnvelopes \/ Reapply
    BY <1>16, <1>1, <1>2 DEF Enumerating, Counted, Thin, Paging, Phased, FindMissing,
       RefreshEnvelopes, Reapply, server, outer, index
  <1>17. CASE ApplyUpdates
    BY <1>17, <1>1, <1>2 DEF Enumerating, Counted, Thin, Paging, Phased, ApplyUpdates,
       server, outer
  <1>18. CASE Drop
    BY <1>18, <1>1, <1>2 DEF Enumerating, Counted, Thin, Paging, Phased, Drop, server, outer
  <1>19. CASE Advance
    BY <1>19, <1>1, <1>2 DEF Enumerating, Counted, Thin, Paging, Phased, Advance, server, outer
  <1>20. CASE SaveCursor
    <2>1. bf'.st = bf.st /\ bf'.cursor = cursor
      BY <1>20 DEF SaveCursor, TypeOK
    <2>2. QED
      BY <1>1, <1>2, <1>20, <2>1 DEF SaveCursor, Enumerating, Counted, Thin, Paging, Phased, server, outer
  <1>21. CASE FinishBackfill
    <2>1. bf'.st = "finished"
      BY <1>21 DEF FinishBackfill, TypeOK
    <2>2. QED
      BY <1>1, <1>2, <1>21, <2>1 DEF FinishBackfill, Enumerating, Counted, Thin, Paging, Phased, server, outer
  <1>22. CASE FinishReconcile
    BY <1>22, <1>1, <1>2 DEF Enumerating, Counted, Thin, Paging, Phased,
       FinishReconcile, server, outer
  <1>23. CASE SupersedeBackfill
    <2>1. bf' = bf \/ bf'.st = "finished"
      BY <1>23 DEF SupersedeBackfill, TypeOK
    <2>2. QED
      BY <1>1, <1>2, <1>23, <2>1 DEF SupersedeBackfill, Enumerating, Counted, Thin, Paging, Phased, server, outer
  <1>24. CASE Proceed
    <2>1. pc' = After(pc) /\ ~Todo(pc) /\ UNCHANGED <<kind, index, server, cursor, lost>>
      BY <1>24 DEF Proceed, outer
    <2>2. pc \in {"refile", "stubs", "fetch", "drop", "refresh", "reapply", "apply"}
      BY <1>1, <2>1 DEF Todo, Phases
    <2>3. kind = "backfill" => pc' \in {"stubs", "fetch", "drop", "cursor"}
      BY <1>1, <2>1, <2>2 DEF After, Phased
    <2>4. QED
      BY <1>1, <2>1, <2>2, <2>3 DEF Enumerating, Counted, Thin, Paging, index, server, outer
  <1>25. CASE Abort
    BY <1>25, <1>1, <1>2 DEF Enumerating, Counted, Thin, Paging, Abort, Faults,
       server, outer, index
  <1>26. CASE EnsureRawWrite
    BY <1>26, <1>1, <1>2 DEF Enumerating, Counted, Thin, Paging, EnsureRawWrite, pass,
       server, outer
  <1>27. ASSUME NEW m \in Msgs, EnsureRawFetch(m) PROVE Enumerating'
    BY <1>27, <1>1, <1>2 DEF Enumerating, Counted, Thin, Paging, EnsureRawFetch,
       Faults, pass, index, server, outer
  <1>28. QED
    BY Steps, <1>4, <1>5, <1>6, <1>7, <1>8, <1>9, <1>10, <1>11, <1>12, <1>13, <1>14,
       <1>15, <1>16, <1>17, <1>18, <1>19, <1>20, <1>21, <1>22, <1>23, <1>24, <1>25,
       <1>26, <1>27

-----------------------------------------------------------------------------
(* What a pass plans was read after its token.                             *)

\* The position a pass started from is in the past of the log, and what it is in each kind of pass.
LEMMA BaseIsPast ==
    ASSUME TypeOK, Positions, Phased, Stated
    PROVE  /\ kind = "backfill" /\ Working => Paging
           /\ Paging => kind = "backfill" /\ bf.st = "open" /\ state = NoState
           /\ Working => /\ Base \in Nat /\ Base \in Int /\ Base <= Len(log)
                         /\ kind # "backfill" => Base = token /\ state \in Nat /\ state <= token
  <1>1. /\ kind \in {"backfill", "delta", "reconcile"} /\ token \in Nat
        /\ state \in Nat \cup {NoState} /\ bf.start \in Nat
    BY DEF TypeOK
  <1>2. kind = "backfill" /\ Working => Paging
    BY DEF Working, Paging, Phased
  <1>3. Paging => kind = "backfill" /\ bf.st = "open" /\ state = NoState
    BY DEF Paging, Stated, OpenMeansNoState
  <1>4. Working => pc \notin {"idle", "list", "changes", "profile"}
    BY DEF Working
  <1>5. Working /\ kind # "backfill" => state \in Nat /\ state <= token
    BY <1>1, <1>4 DEF Stated
  <1>6. Working => Base \in Nat /\ Base <= Len(log)
    BY <1>1, <1>2, <1>3 DEF Base, Positions
  <1>7. QED
    BY <1>2, <1>3, <1>5, <1>6 DEF Base

\* What a delta makes of the journal between the old token and the new one.
LEMMA WindowsCover ==
    ASSUME TypeOK, Ledger, Positions, Phased, Stated, pc = "envelopes"
    PROVE  /\ state \in Nat /\ token \in Nat /\ state <= token
           /\ Window("destroyed") \cap here = {}
           /\ \A what \in {"created", "updated", "destroyed"} : Window(what) \subseteq Msgs
           /\ \A what \in {"created", "updated"} : \A m \in Window(what) :
                 m \in Window("destroyed") \/ m \in here \/ Mentions(log, m, token)
           /\ \A m \in Msgs : Mentions(log, m, state) =>
                 \/ Mentions(log, m, token)
                 \/ \E what \in {"created", "updated", "destroyed"} : m \in Window(what)
           /\ \A m \in Msgs : Creates(log, m, state) =>
                 \/ m \in Window("created")
                 \/ Creates(log, m, token) /\ m \notin Window("updated")
  <1> DEFINE Whats == {"created", "updated", "destroyed"}
  <1>1. /\ state # NoState /\ state \in Nat /\ token \in Nat /\ token <= Len(log) /\ Len(log) \in Nat
        /\ state <= token
    BY Entries DEF TypeOK, Phased, Stated, Positions, NoState
  <1>2. \A what \in Whats :
             /\ Window(what) \subseteq Msgs
             /\ \A m : m \in Window(what) <=>
                  \E i \in state + 1 .. token : log[i].id = m /\ log[i].what = what
    BY <1>1, WindowIds
  <1>3. \A i \in state + 1 .. Len(log) : i \in 1..Len(log) /\ log[i].what \in Whats
    BY <1>1, Entries
  <1>4. \A i \in state + 1 .. token : i \in state + 1 .. Len(log)
    BY <1>1
  <1>5. Window("destroyed") \cap here = {}
    BY <1>2, <1>3, <1>4 DEF Ledger
  <1>6. ASSUME NEW what \in {"created", "updated"}, NEW m \in Window(what), m \notin here,
               m \notin Window("destroyed")
        PROVE  Mentions(log, m, token)
    <2>1. PICK i \in state + 1 .. token : log[i].id = m
      BY <1>2
    <2>2. PICK j \in i..Len(log) : log[j].id = m /\ log[j].what = "destroyed"
      BY <1>3, <1>4, <1>6, <2>1 DEF Ledger
    <2>3. ~(j \in state + 1 .. token)
      BY <1>2, <1>6, <2>2
    <2>4. j \in token + 1 .. Len(log)
      BY <1>1, <2>1, <2>3
    <2>5. QED
      BY <2>2, <2>4 DEF Mentions
  <1>7. ASSUME NEW m \in Msgs, NEW i \in state + 1 .. Len(log), log[i].id = m
        PROVE  /\ i \in token + 1 .. Len(log) \/ m \in Window(log[i].what)
               /\ log[i].what \in Whats
    <2>1. i \in token + 1 .. Len(log) \/ i \in state + 1 .. token
      BY <1>1
    <2>2. QED
      BY <1>2, <1>3, <1>7, <2>1
  <1>8. ASSUME NEW m \in Msgs, Creates(log, m, state), m \notin Window("created")
        PROVE  Creates(log, m, token) /\ m \notin Window("updated")
    <2>1. PICK i \in state + 1 .. Len(log) : log[i].id = m /\ log[i].what = "created"
      BY <1>8 DEF Creates
    <2>2. i \in token + 1 .. Len(log)
      BY <1>7, <1>8, <2>1
    <2>3. ASSUME m \in Window("updated") PROVE FALSE
      <3>1. PICK j \in state + 1 .. token : log[j].id = m
        BY <1>2, <2>3
      <3>2. i <= j
        BY <1>3, <1>4, <2>1, <3>1 DEF Ledger
      <3>3. QED
        BY <1>1, <2>2, <3>1, <3>2
    <2>4. QED
      BY <2>1, <2>2, <2>3 DEF Creates
  <1>9. \A m \in Msgs : Mentions(log, m, state) =>
                 \/ Mentions(log, m, token)
                 \/ \E what \in Whats : m \in Window(what)
    BY <1>7 DEF Mentions
  <1>10. QED
    BY <1>1, <1>2, <1>5, <1>6, <1>8, <1>9

\* Every step keeps that the pass reads only what changed since its base, or is here.
LEMMA ReadSinceKept ==
    ASSUME TypeOK, Ledger, Positions, Known, Phased, Stated, Enumerating,
           ReadSince, [Next]_vars
    PROVE  ReadSince'
  <1> DEFINE Late(e) == Mentions(log, e.id, Base) \/ (e.id \in here /\ e.ver = ver[e.id])
             Near(m) == Mentions(log, m, Base) \/ m \in here
             None == /\ \A S \in {stubs, got, updated, fetch, refresh, refile} : S = {}
  <1>1. /\ Working => /\ \A e \in stubs \cup got \cup updated : Late(e)
                      /\ \A m \in fetch \cup refresh \cup Ids(refile) : Near(m)
        /\ pc \in Phases /\ kind \in {"backfill", "delta", "reconcile"} /\ here \subseteq Msgs
    BY DEF ReadSince, TypeOK
  <1>2. pc \in {"idle", "begin", "list", "changes", "profile", "envelopes", "settle", "supersede"} => None
    BY DEF Phased
  <1>3. CASE UNCHANGED vars \/ Forget
    BY <1>3, <1>1 DEF ReadSince, Working, Base, Forget, vars, server, index, pass, plan
  <1>4. ASSUME NEW m \in Msgs, Deliver(m) \/ Change(m) \/ Destroy(m) PROVE ReadSince'
    <2>1. /\ UNCHANGED <<index, pass>>
          /\ \A k \in Msgs \ {m} : ver'[k] = ver[k] /\ (k \in here' <=> k \in here)
          /\ \A s \in Int : s <= Len(log) => Mentions(log', m, s)
          /\ \A k, s : Mentions(log, k, s) /\ s \in Nat => Mentions(log', k, s)
      BY <1>4, Moves
    <2>2. Working' <=> Working
      BY <2>1 DEF Working, pass
    <2>3. Base' = Base
      BY <2>1 DEF Base, pass, index
    <2>4. SUFFICES ASSUME Working
                   PROVE  /\ \A e \in stubs \cup got \cup updated :
                                Mentions(log', e.id, Base) \/ (e.id \in here' /\ e.ver = ver'[e.id])
                          /\ \A k \in fetch \cup refresh \cup Ids(refile) :
                                Mentions(log', k, Base) \/ k \in here'
      BY <2>1, <2>2, <2>3 DEF ReadSince, pass, plan, Ids
    <2>5. Base \in Nat /\ Base \in Int /\ Base <= Len(log)
      BY <2>4, BaseIsPast
    <2>6. \A e \in stubs \cup got \cup updated : e.id \in Msgs
      BY DEF TypeOK
    <2>7. \A k \in fetch \cup refresh \cup Ids(refile) : k \in Msgs
      BY DEF TypeOK, Ids
    <2>8. QED
      BY <1>1, <2>1, <2>4, <2>5, <2>6, <2>7
  <1>5. ASSUME NEW full \in {"no", "full"}, SyncMail(full) PROVE ReadSince'
    BY <1>5, <1>1, <1>2 DEF ReadSince, SyncMail, plan, Ids
  <1>6. CASE BeginBackfill \/ BeginReconcile
    BY <1>6, <1>1, <1>2 DEF ReadSince, BeginBackfill, BeginReconcile, plan, Ids
  <1>7. CASE EnumerateBackfill
    <2> DEFINE P == PageOf(Rest(cursor))
    <2>1. P \subseteq here
      <3>1. Counted(cursor)
        BY DEF Enumerating
      <3>2. QED
        BY <3>1, NextPage
    <2>2. \A m \in P : /\ m \in here /\ Listed(m).id = m
                       /\ ~Thin => Listed(m).ver = ver[m]
      <3> SUFFICES ASSUME NEW m \in P
                   PROVE  m \in here /\ Listed(m).id = m /\ (~Thin => Listed(m).ver = ver[m])
        OBVIOUS
      <3>1. m \in Msgs
        BY <1>1, <2>1
      <3>2. QED
        BY <2>1, <3>1, EnvelopeTyped
    <2>3. Base' = Base /\ Working /\ UNCHANGED <<log, here, ver>>
      BY <1>7 DEF EnumerateBackfill, Base, Working, index, server
    <2> HIDE DEF P
    <2>4. \A e \in stubs' : e \in stubs \/ (e.id \in here /\ e.ver = ver[e.id])
      BY <1>7, <2>2 DEF EnumerateBackfill, P, Oversize
    <2>5. \A m \in fetch' \cup refresh' \cup Ids(refile') : m \in fetch \cup refresh \cup Ids(refile) \cup here
      BY <1>7, <2>2 DEF EnumerateBackfill, P, Ids
    <2>6. got' = got /\ updated' = updated
      BY <1>7 DEF EnumerateBackfill
    <2>7. QED
      BY <1>1, <2>3, <2>4, <2>5, <2>6 DEF ReadSince, Ids
  <1>8. CASE EnumerateReconcile
    <2> DEFINE P == PageOf(Rest(cursor))
    <2>1. P \subseteq here
      <3>1. Counted(cursor)
        BY DEF Enumerating
      <3>2. QED
        BY <3>1, NextPage
    <2>2. \A m \in P : /\ m \in here /\ Listed(m).id = m
                       /\ ~Thin => Listed(m).ver = ver[m]
      <3> SUFFICES ASSUME NEW m \in P
                   PROVE  m \in here /\ Listed(m).id = m /\ (~Thin => Listed(m).ver = ver[m])
        OBVIOUS
      <3>1. m \in Msgs
        BY <1>1, <2>1
      <3>2. QED
        BY <2>1, <3>1, EnvelopeTyped
    <2>3. Base' = Base /\ Working /\ UNCHANGED <<log, here, ver>>
      BY <1>8 DEF EnumerateReconcile, Base, Working, index, server
    <2> HIDE DEF P
    <2>4. \A e \in stubs' : e \in stubs \/ (e.id \in here /\ e.ver = ver[e.id])
      BY <1>8, <2>2 DEF EnumerateReconcile, P, Oversize
    <2>5. \A m \in fetch' \cup refresh' \cup Ids(refile') : m \in fetch \cup refresh \cup Ids(refile) \cup here
      BY <1>8, <2>2 DEF EnumerateReconcile, P, Ids
    <2>6. got' = got /\ updated' = updated
      BY <1>8 DEF EnumerateReconcile
    <2>7. QED
      BY <1>1, <2>3, <2>4, <2>5, <2>6 DEF ReadSince, Ids
  <1>9. CASE ReadChanges \/ ReadProfile
    BY <1>9, <1>1, <1>2 DEF ReadSince, ReadChanges, ReadProfile, plan, Ids
  <1>10. CASE ReadEnvelopes
    <2>1. pc = "envelopes" /\ kind = "delta" /\ UNCHANGED <<log, here, ver, token, kind>>
      BY <1>10 DEF ReadEnvelopes, server, Phased
    <2>2. Base' = token
      BY <2>1 DEF Base
    <2>3. /\ \A what \in {"created", "updated", "destroyed"} : Window(what) \subseteq Msgs
          /\ \A what \in {"created", "updated"} : \A m \in Window(what) :
                 m \in Window("destroyed") \/ m \in here \/ Mentions(log, m, token)
      BY <2>1, WindowsCover
    <2>4. \A m \in Msgs : /\ Envelope(m).id = m /\ Envelope(m).ver = ver[m]
                           /\ Listed(m).id = m /\ (~Thin => Listed(m).ver = ver[m])
      BY EnvelopeTyped
    <2>5. \A e \in stubs' : e.id \in here /\ e.ver = ver[e.id]
      BY <1>10, <2>3, <2>4 DEF ReadEnvelopes, Oversize
    <2>6. \A e \in updated' : e.id \in here /\ e.ver = ver[e.id]
      BY <1>10, <2>3, <2>4 DEF ReadEnvelopes
    <2>7. \A m \in fetch' \cup refresh' : m \in here \/ Mentions(log, m, token)
      BY <1>10, <2>3 DEF ReadEnvelopes
    <2>8. got' = {} /\ refile' = {}
      BY <1>2, <1>10, <2>1 DEF ReadEnvelopes
    <2>9. QED
      BY <2>1, <2>2, <2>5, <2>6, <2>7, <2>8 DEF ReadSince, Ids
  <1>11. CASE Resurrect \/ WriteStubs \/ WriteBatch
    BY <1>11, <1>1 DEF ReadSince, Working, Base, Ids, Resurrect, WriteStubs, WriteBatch,
       server
  <1>12. ASSUME NEW m \in Msgs, FetchOne(m) PROVE ReadSince'
    <2>1. \A k \in here : Envelope(k).id = k /\ Envelope(k).ver = ver[k]
      BY <1>1, EnvelopeTyped
    <2>2. QED
      BY <1>1, <1>12, <2>1 DEF ReadSince, Working, Base, Ids, FetchOne, server, index
  <1>13. CASE RefreshEnvelopes
    <2>1. \A k \in here : Envelope(k).id = k /\ Envelope(k).ver = ver[k]
      BY <1>1, EnvelopeTyped
    <2>2. QED
      BY <1>1, <1>13, <2>1 DEF ReadSince, Working, Base, Ids, RefreshEnvelopes, server, index
  <1>14. CASE FindMissing \/ Reapply
    BY <1>14, <1>1 DEF ReadSince, Working, Base, Ids, FindMissing, Reapply, server,
       index
  <1>15. CASE ApplyUpdates
    BY <1>15, <1>1 DEF ReadSince, Working, Base, Ids, ApplyUpdates, server
  <1>16. CASE Drop \/ Advance
    BY <1>16, <1>1 DEF ReadSince, Working, Base, Ids, Drop, Advance, server, plan
  <1>17. CASE SaveCursor
    <2>1. bf'.start = bf.start
      BY <1>17 DEF SaveCursor, TypeOK
    <2>2. QED
      BY <1>1, <1>17, <2>1 DEF ReadSince, Working, Base, Ids, SaveCursor, server, plan
  <1>18. CASE FinishBackfill \/ FinishReconcile \/ SupersedeBackfill \/ Abort
    BY <1>18, <1>1 DEF ReadSince, Working, FinishBackfill, FinishReconcile,
       SupersedeBackfill, Abort
  <1>19. CASE Proceed
    <2>1. pc \in {"refile", "stubs", "fetch", "drop", "refresh", "reapply", "apply"}
      BY <1>1, <1>19 DEF Proceed, Todo, Phases
    <2>2. Working
      BY <2>1 DEF Working
    <2>3. QED
      BY <1>1, <1>19, <2>2 DEF ReadSince, Base, Ids, Proceed, server, index, plan
  <1>20. CASE EnsureRawWrite
    BY <1>20, <1>1 DEF ReadSince, Working, Base, Ids, EnsureRawWrite, server, pass, plan
  <1>21. ASSUME NEW m \in Msgs, EnsureRawFetch(m) PROVE ReadSince'
    BY <1>21, <1>1 DEF ReadSince, Working, Base, Ids, EnsureRawFetch, server, index,
       pass, plan
  <1>22. QED
    BY Steps, <1>3, <1>4, <1>5, <1>6, <1>7, <1>8, <1>9, <1>10, <1>11, <1>12, <1>13,
       <1>14, <1>15, <1>16, <1>17, <1>18, <1>19, <1>20, <1>21

-----------------------------------------------------------------------------
(* Nothing that is there is dropped.                                       *)

\* A page of either enumeration, and what its cursor has passed.
LEMMA Paged ==
    ASSUME TypeOK, Enumerating, EnumerateBackfill \/ EnumerateReconcile
    PROVE  \E P : /\ P = PageOf(Rest(cursor)) /\ P \subseteq here
                  /\ Missed(cursor) = {} => \A m \in here :
                        m \in P \/ Behind(cursor, m) \/ (cursor' # Fresh /\ ~Behind(cursor', m))
                  /\ StepsBack => Missed(cursor) = {}
                  /\ Missed(cursor) # {} =>
                        sound' = "no" /\ (kind = "reconcile" => clean' = "no")
                  /\ \A m \in P : m \in Msgs /\ Listed(m).id = m /\ (~Thin => Listed(m).ver = ver[m])
  <1>1. Counted(cursor)
    BY DEF Enumerating
  <1> DEFINE P == PageOf(Rest(cursor))
  <1>2. cursor' = NextCursor(cursor, P)
    BY DEF EnumerateBackfill, EnumerateReconcile
  <1>3. /\ P \subseteq here
        /\ Missed(cursor) = {} => \A m \in here :
              m \in P \/ Behind(cursor, m) \/ (cursor' # Fresh /\ ~Behind(cursor', m))
        /\ StepsBack => Missed(cursor) = {}
        /\ Missed(cursor) # {} => sound' = "no" /\ (kind = "reconcile" => clean' = "no")
    <2>1. /\ P \subseteq here
          /\ Missed(cursor) = {} => \A m \in here :
                m \in P \/ Behind(cursor, m) \/ (cursor' # Fresh /\ ~Behind(cursor', m))
      BY <1>1, <1>2, NextPage
    <2>2. StepsBack => Missed(cursor) = {}
      BY <1>1, RestIsAll
    <2>3. Missed(cursor) # {} => sound' = "no" /\ (kind = "reconcile" => clean' = "no")
      BY DEF EnumerateBackfill, EnumerateReconcile
    <2>4. QED
      BY <2>1, <2>2, <2>3
  <1>4. \A m \in P : m \in Msgs /\ Listed(m).id = m /\ (~Thin => Listed(m).ver = ver[m])
    <2> SUFFICES ASSUME NEW m \in P
                 PROVE  m \in Msgs /\ Listed(m).id = m /\ (~Thin => Listed(m).ver = ver[m])
      OBVIOUS
    <2>1. m \in Msgs
      BY <1>3 DEF TypeOK
    <2>2. QED
      BY <2>1, EnvelopeTyped
  <1>5. QED
    BY <1>3, <1>4

\* Every step keeps what is known of the rows a reconciliation may drop.
LEMMA DroppingKept ==
    ASSUME TypeOK, Ledger, Positions, Known, Phased, Stated, Enumerating,
           Dropping, [Next]_vars
    PROVE  Dropping'
  <1> DEFINE Matching == kind = "reconcile" /\ clean = "yes" /\ pc \in {"enum", "refile", "stubs", "fetch", "missing"}
  <1> DEFINE Tidy == kind = "reconcile" => clean = "yes"
  <1>1. /\ Tidy => removed \cap here = {}
        /\ Matching => \A m \in local \cap here : m \in remote \/ (pc = "enum" /\ ~Behind(cursor, m))
        /\ kind = "reconcile" /\ pc = "enum" => \A m \in local \cap here : rows[m].st = "live"
        /\ kind = "reconcile" /\ Working => Ids(refile) \subseteq refresh
        /\ pc \in Phases /\ kind \in {"backfill", "delta", "reconcile"} /\ here \subseteq Msgs
        /\ removed \subseteq Msgs /\ local \subseteq Msgs
    BY DEF Dropping, TypeOK, Unlisted, Paging, Live
  <1>2. pc \in {"idle", "begin", "list", "changes", "profile", "envelopes", "settle", "supersede"} =>
            refile = {} /\ removed = {}
    BY DEF Phased
  <1> DEFINE Goal ==
               /\ Tidy' => removed' \cap here' = {}
               /\ Matching' => \A m \in local' \cap here' : m \in remote' \/ (pc' = "enum" /\ ~Behind(cursor', m))
               /\ kind' = "reconcile" /\ pc' = "enum" => \A m \in local' \cap here' : rows'[m].st = "live"
               /\ kind' = "reconcile" /\ Working' => \A e \in refile' : e.id \in refresh'
  <1>3. SUFFICES Goal
    BY DEF Dropping, Unlisted, Paging, Live, Ids
  <1>4. \A e \in refile : e.id \in Ids(refile)
    BY DEF Ids
  <1>5. CASE UNCHANGED vars \/ Forget
    BY <1>5, <1>1, <1>4 DEF Working, Forget, vars, server, outer, index, pass, plan
  <1>6. ASSUME NEW m \in Msgs, Deliver(m) \/ Change(m) \/ Destroy(m) PROVE Goal
    <2>1. /\ UNCHANGED <<index, pass, clean>>
          /\ \A k \in Msgs \ {m} : k \in here' <=> k \in here
          /\ m \in here' /\ m \notin here => ver[m] = 0
      BY <1>6, Moves
    <2>2. \A k \in removed \cup local : ver[k] # 0
      BY DEF Known, TypeOK
    <2>3. \A k \in removed \cup local : k \in here' => k \in here
      BY <1>1, <2>1, <2>2
    <2>4. QED
      BY <1>1, <1>4, <2>1, <2>3 DEF Working, index, pass, plan
  <1>7. ASSUME NEW full \in {"no", "full"}, SyncMail(full) PROVE Goal
    BY <1>7, <1>1, <1>4, <1>2 DEF SyncMail, server, outer, plan
  <1>8. CASE BeginBackfill
    BY <1>8, <1>1, <1>4, <1>2 DEF BeginBackfill, server, outer, plan, Phased
  <1>9. CASE BeginReconcile
    <2>1. removed = {} /\ refile = {} /\ cursor = Fresh
      BY <1>2, <1>9 DEF BeginReconcile, Enumerating, Paging
    <2>2. \A m : ~Behind(Fresh, m)
      BY DEF Behind, Fresh
    <2>3. QED
      BY <1>9, <2>1, <2>2 DEF BeginReconcile, server, outer, index, plan, Live
  <1>10. CASE EnumerateBackfill
    BY <1>10, <1>1, <1>4 DEF EnumerateBackfill, server, outer
  <1>11. CASE EnumerateReconcile
    <2>1. PICK P : /\ P = PageOf(Rest(cursor)) /\ P \subseteq here
                   /\ Missed(cursor) = {} => \A m \in here :
                         m \in P \/ Behind(cursor, m) \/ (cursor' # Fresh /\ ~Behind(cursor', m))
                   /\ Missed(cursor) # {} => (kind = "reconcile" => clean' = "no")
                   /\ \A m \in P : Listed(m).id = m
      BY <1>11, Paged
    <2>2. /\ kind = "reconcile" /\ pc = "enum" /\ UNCHANGED <<removed, here, rows, local, kind>>
          /\ remote' = remote \cup P
          /\ pc' = IF cursor' = Fresh THEN "refile" ELSE "enum"
          /\ refile' = refile \cup {Listed(m) : m \in {k \in P : Exists(k)} \ local}
          /\ refresh' = refresh \cup {k \in P : Exists(k)}
      BY <1>11, <2>1 DEF EnumerateReconcile, server, outer, index
    <2>3. \A e \in refile' : e.id \in refresh'
      BY <1>1, <1>4, <2>1, <2>2 DEF Working
    <2>4. clean' = "yes" =>
            /\ clean = "yes" /\ Missed(cursor) = {}
            /\ \A m \in local \cap here : m \in remote' \/ (pc' = "enum" /\ ~Behind(cursor', m))
      <3>1. clean' = "yes" => clean = "yes" /\ Missed(cursor) = {}
        BY <1>11, <2>1, <2>2 DEF EnumerateReconcile
      <3>2. QED
        BY <1>1, <2>1, <2>2, <3>1
    <2>5. QED
      BY <1>1, <2>2, <2>3, <2>4
  <1>12. CASE ReadChanges \/ ReadProfile
    BY <1>12, <1>1, <1>4, <1>2 DEF ReadChanges, ReadProfile, server, outer, plan, Phased
  <1>13. CASE ReadEnvelopes
    <2>1. pc = "envelopes" /\ kind = "delta" /\ UNCHANGED <<here, kind>>
      BY <1>13 DEF ReadEnvelopes, server, outer, Phased
    <2>2. Window("destroyed") \cap here = {}
      BY <2>1, WindowsCover
    <2>3. removed' \cap here' = {}
      BY <1>13, <2>1, <2>2 DEF ReadEnvelopes
    <2>4. QED
      BY <2>1, <2>3
  <1>14. CASE Resurrect
    BY <1>14, <1>1, <1>4 DEF Resurrect, Working, server, outer
  <1>15. CASE WriteStubs \/ WriteBatch
    BY <1>15, <1>1, <1>4 DEF WriteStubs, WriteBatch, Working, server, outer
  <1>16. ASSUME NEW m \in Msgs, FetchOne(m) PROVE Goal
    BY <1>16, <1>1, <1>4 DEF FetchOne, Working, server, outer, index
  <1>17. CASE FindMissing
    <2>1. /\ pc = "missing" /\ kind = "reconcile" /\ removed' = removed \cup (local \ remote)
          /\ UNCHANGED <<here, kind, local, remote, refile, refresh, clean>> /\ pc' = "drop"
      BY <1>17 DEF FindMissing, Phased, server, outer
    <2>2. clean = "yes" => (local \ remote) \cap here = {}
      BY <1>1, <2>1
    <2>3. QED
      BY <1>1, <1>4, <2>1, <2>2 DEF Working
  <1>18. CASE RefreshEnvelopes
    <2>1. refile = {}
      BY <1>18 DEF RefreshEnvelopes, Phased
    <2>2. QED
      BY <1>1, <1>18, <2>1 DEF RefreshEnvelopes, Working, server, outer, index
  <1>19. CASE Reapply \/ ApplyUpdates
    BY <1>19, <1>1, <1>4, <1>4 DEF Reapply, ApplyUpdates, Working, server, outer, Phased
  <1>20. CASE Drop \/ Advance
    BY <1>20, <1>1, <1>4 DEF Drop, Advance, Working, server, outer, plan, Phased
  <1>21. CASE SaveCursor \/ FinishBackfill
    BY <1>21, <1>1, <1>4 DEF SaveCursor, FinishBackfill, server, outer, plan, Phased
  <1>22. CASE FinishReconcile \/ SupersedeBackfill \/ Abort
    BY <1>22, <1>1, <1>4 DEF FinishReconcile, SupersedeBackfill, Abort, Working, server, outer,
       plan
  <1>23. CASE Proceed
    <2>1. /\ pc \in {"refile", "stubs", "fetch", "drop", "refresh", "reapply", "apply"}
          /\ pc' = After(pc) /\ UNCHANGED <<here, kind, local, remote, removed, refile, refresh, clean>>
      BY <1>1, <1>23 DEF Proceed, Todo, Phases, plan, server, outer
    <2>2. Working /\ pc' # "enum" /\ (Matching' => Matching)
      BY <1>1, <2>1 DEF Working, After, Phased
    <2>3. QED
      BY <1>1, <1>4, <2>1, <2>2
  <1>24. CASE EnsureRawWrite
    <2>1. UNCHANGED <<here, pass>> /\ (clean' = "yes" => clean = "yes")
      BY <1>24 DEF EnsureRawWrite, server, outer
    <2>2. \A k \in here : rows[k].st = "live" => rows'[k].st = "live"
      <3>1. reader.ver = 0 => reader.id \notin here
        BY <1>24 DEF EnsureRawWrite, Known
      <3>2. QED
        BY <1>1, <1>24, <3>1, ReaderRows DEF Dropped
    <2>3. QED
      BY <1>1, <1>4, <2>1, <2>2 DEF Working, pass, plan
  <1>25. ASSUME NEW m \in Msgs, EnsureRawFetch(m) PROVE Goal
    BY <1>25, <1>1, <1>4 DEF EnsureRawFetch, Working, server, outer, index, pass, plan
  <1>26. QED
    BY Steps, <1>5, <1>6, <1>7, <1>8, <1>9, <1>10, <1>11, <1>12, <1>13, <1>14, <1>15,
       <1>16, <1>17, <1>18, <1>19, <1>20, <1>21, <1>22, <1>23, <1>24, <1>25

-----------------------------------------------------------------------------
(* What a pass has listed and not filed it is going to file.               *)

\* A full page of either kind of pass, and of what has been written of a list.
LEMMA IdsSplit ==
    ASSUME NEW S, NEW T
    PROVE  /\ \A m : m \in Ids(S) => m \in Ids(T) \/ m \in Ids(S \ T)
           /\ \A m : m \in Ids(S \cup T) <=> m \in Ids(S) \/ m \in Ids(T)
           /\ \A m : m \in Ids(S \ T) => m \in Ids(S)
           /\ \A e \in S : e.id \in Ids(S)
           /\ \A m : m \in Ids(S) => \E e \in S : e.id = m
           /\ Ids({}) = {}
  BY DEF Ids

\* A listing that has lost too much to make up for it stays one.
LEMMA Steady ==
    ASSUME TypeOK, Ledger, [Next]_vars, ~BeginBackfill, ~BeginReconcile
    PROVE  StepsBack' => StepsBack
  <1>1. CASE \E m \in Msgs : Deliver(m) \/ Change(m) \/ Destroy(m)
    BY <1>1, Moves
  <1>2. CASE UNCHANGED <<backend, lost>>
    BY <1>2 DEF StepsBack, Thin
  <1>3. Forget \/ UNCHANGED vars => UNCHANGED <<backend, lost>>
    BY DEF Forget, vars, server, outer
  <1>4. (\E full \in {"no", "full"} : SyncMail(full)) => UNCHANGED <<backend, lost>>
    BY DEF SyncMail, server
  <1>5. EnumerateBackfill \/ EnumerateReconcile => UNCHANGED <<backend, lost>>
    BY DEF EnumerateBackfill, EnumerateReconcile, server
  <1>6. ReadChanges \/ ReadProfile \/ ReadEnvelopes \/ (\E m \in Msgs : FetchOne(m))
          => UNCHANGED <<backend, lost>>
    BY DEF ReadChanges, ReadProfile, ReadEnvelopes, FetchOne, server, outer
  <1>7. FindMissing \/ RefreshEnvelopes \/ Advance \/ SaveCursor \/ FinishBackfill
          => UNCHANGED <<backend, lost>>
    BY DEF FindMissing, RefreshEnvelopes, Advance, SaveCursor, FinishBackfill, server, outer
  <1>8. FinishReconcile \/ SupersedeBackfill \/ Proceed \/ Abort => UNCHANGED <<backend, lost>>
    BY DEF FinishReconcile, SupersedeBackfill, Proceed, Abort, server, outer
  <1>9. Resurrect \/ WriteStubs \/ WriteBatch \/ Reapply => UNCHANGED <<backend, lost>>
    BY DEF Resurrect, WriteStubs, WriteBatch, Reapply, server, outer
  <1>10. ApplyUpdates \/ Drop => UNCHANGED <<backend, lost>>
    BY DEF ApplyUpdates, Drop, server, outer
  <1>11. EnsureRawWrite \/ (\E m \in Msgs : EnsureRawFetch(m)) => UNCHANGED <<backend, lost>>
    BY DEF EnsureRawWrite, EnsureRawFetch, server
  <1>12. QED
    BY Steps, <1>1, <1>2, <1>3, <1>4, <1>5, <1>6, <1>7, <1>8, <1>9, <1>10, <1>11

\* Every step keeps that a message that is here has its row, or one on its way.
LEMMA FilingKept ==
    ASSUME TypeOK, Ledger, Positions, Known, Phased, Stated, Enumerating,
           Filing, Dropping, Undeleted, Stored, [Next]_vars
    PROVE  Filing'
  <1> DEFINE On == Working /\ ((kind = "backfill" /\ StepsBack) \/ Trusted)
             Coming(m) == ~Behind(cursor, m) /\ (pc = "enum" \/ (Paging /\ cursor # Fresh))
             F(m) == \/ rows[m].st = "live" \/ m \in fetch \/ m \in Ids(stubs)
                     \/ (m \in Ids(got) /\ pc = "fetch") \/ m \in Ids(refile)
                     \/ Creates(log, m, Base) \/ Coming(m)
             Goal == On' => \A m \in here' : F(m)'
  <1>1. /\ On => \A m \in here : F(m)
        /\ pc \in Phases /\ kind \in {"backfill", "delta", "reconcile"} /\ here \subseteq Msgs
        /\ here' = here \/ \E m \in Msgs : Deliver(m) \/ Change(m) \/ Destroy(m)
    BY ServerSteps DEF Filing, TypeOK, Unlisted, Live, Due
  <1>0. pc \notin {"begin", "list"} => (StepsBack' => StepsBack)
    BY Steady DEF BeginBackfill, BeginReconcile
  <1>2. SUFFICES Goal
    BY DEF Filing, Unlisted, Live, Due
  <1>3. ~Working => pc \in {"idle", "begin", "list", "changes", "profile", "envelopes", "supersede"}
    BY <1>1 DEF Working, Phases
  <1>4. CASE UNCHANGED vars \/ Forget
    BY <1>4, <1>1 DEF Working, StepsBack, Thin, Trusted, Paging, Base, Forget, vars, server, index, pass,
       plan, outer
  <1>5. ASSUME NEW m \in Msgs, Deliver(m) \/ Change(m) \/ Destroy(m) PROVE Goal
    <2>1. /\ UNCHANGED <<index, pass, clean>>
          /\ \A k \in Msgs \ {m} : k \in here' <=> k \in here
          /\ \A k, s : Creates(log, k, s) /\ s \in Nat => Creates(log', k, s)
          /\ m \in here' /\ m \notin here => \A s \in Int : s <= Len(log) => Creates(log', m, s)
          /\ sound' = "yes" => sound = "yes"
          /\ here' \subseteq Msgs /\ (StepsBack' => StepsBack)
      <3>1. TypeOK'
        BY TypesKept
      <3>2. here' \subseteq Msgs
        BY <3>1 DEF TypeOK
      <3>3. QED
        BY <1>5, <3>2, Moves
    <2>2. (Working' <=> Working) /\ (On' => On) /\ Base' = Base
      BY <2>1 DEF Working, Trusted, Base, pass, index
    <2>3. ASSUME On', NEW k \in here' PROVE F(k)'
      <3>1. Working /\ On
        BY <2>2, <2>3
      <3>2. Base \in Nat /\ Base \in Int /\ Base <= Len(log)
        BY <3>1, BaseIsPast
      <3>3. CASE k \notin here
        <4>1. Creates(log', k, Base)
          BY <2>1, <2>3, <3>2, <3>3
        <4>2. Creates(log', k, Base')
          BY <2>2, <4>1
        <4>3. QED
          BY <4>2
      <3>4. CASE k \in here
        <4>1. F(k)
          BY <1>1, <3>1, <3>4
        <4>2. CASE Creates(log, k, Base)
          <5>1. Creates(log', k, Base')
            BY <2>1, <2>2, <3>2, <4>2
          <5>2. QED
            BY <5>1
        <4>3. CASE ~Creates(log, k, Base)
          BY <2>1, <4>1, <4>3 DEF Paging, index, pass, plan
        <4>4. QED
          BY <4>2, <4>3
      <3>5. QED
        BY <3>3, <3>4
    <2>4. QED
      BY <2>3
  <1>6. ASSUME NEW full \in {"no", "full"}, SyncMail(full) PROVE Goal
    <2>1. cursor = Fresh /\ refile = {} /\ pc = "idle"
      BY <1>6 DEF SyncMail, Enumerating, Paging, Phased
    <2>2. CASE pc' = "enum"
      <3>1. /\ kind' = "backfill" /\ cursor' = bf.cursor /\ bf.st = "open"
            /\ UNCHANGED <<here, rows, log, bf>>
        BY <1>6, <2>1, <2>2 DEF SyncMail, server
      <3>2. On' => \A m \in here :
              rows[m].st = "live" \/ Creates(log, m, bf.start) \/ ~Behind(bf.cursor, m)
        <4>1. On' => StepsBack \/ sound = "yes"
          BY <1>0, <1>6, <2>1, <3>1 DEF SyncMail, Trusted
        <4>2. QED
          BY <3>1, <4>1 DEF Stored, Live
      <3>3. QED
        BY <2>2, <3>1, <3>2 DEF Base
    <2>3. CASE pc' # "enum"
      BY <1>6, <2>1, <2>3 DEF SyncMail, Working
    <2>4. QED
      BY <2>2, <2>3
  <1>7. CASE BeginBackfill \/ BeginReconcile
    <2>1. cursor = Fresh
      BY <1>1, <1>7 DEF BeginBackfill, BeginReconcile, Enumerating, Paging
    <2>2. \A m : ~Behind(Fresh, m)
      BY DEF Behind, Fresh
    <2>3. QED
      BY <1>7, <2>1, <2>2 DEF BeginBackfill, BeginReconcile
  <1>8. CASE EnumerateBackfill
    <2>1. PICK P : /\ P = PageOf(Rest(cursor)) /\ P \subseteq here
                   /\ Missed(cursor) = {} => \A m \in here :
                         m \in P \/ Behind(cursor, m) \/ (cursor' # Fresh /\ ~Behind(cursor', m))
                   /\ StepsBack => Missed(cursor) = {}
                   /\ Missed(cursor) # {} => sound' = "no" /\ (kind = "reconcile" => clean' = "no")
                   /\ \A m \in P : m \in Msgs /\ Listed(m).id = m
      BY <1>8, Paged
    <2>2. /\ pc = "enum" /\ kind = "backfill" /\ UNCHANGED <<here, rows, log, bf, token, kind, got>>
          /\ On' => On /\ Missed(cursor) = {}
      BY <1>8, <2>1 DEF EnumerateBackfill, server, index, Working, Trusted, StepsBack, Thin
    <2>3. Base' = Base
      BY <2>2 DEF Base
    <2>4. ASSUME On', NEW m \in here PROVE F(m)'
      <3>1. F(m) /\ Working
        BY <1>1, <2>2, <2>4
      <3>2. CASE Behind(cursor, m)
        BY <1>8, <2>2, <2>3, <3>1, <3>2, IdsSplit DEF EnumerateBackfill, Phased
      <3>3. CASE m \in P
        <4>1. rows[m].st \in {"live", "deleted", "none"}
          BY <2>1, <3>3 DEF TypeOK
        <4>2. CASE rows[m].st = "deleted"
          <5>1. CASE Thin
            BY <1>8, <2>1, <3>3, <4>2, <5>1 DEF EnumerateBackfill
          <5>2. CASE ~Thin
            <6>1. Listed(m) \in refile'
              BY <1>8, <2>1, <3>3, <4>2, <5>2 DEF EnumerateBackfill
            <6>2. m \in Ids(refile')
              BY <2>1, <3>3, <6>1 DEF Ids
            <6>3. QED
              BY <6>2
          <5>3. QED
            BY <5>1, <5>2
        <4>3. CASE rows[m].st = "none"
          <5>1. CASE Oversize(m)
            <6>1. Listed(m) \in stubs'
              BY <1>8, <2>1, <3>3, <4>3, <5>1 DEF EnumerateBackfill, Exists
            <6>2. m \in Ids(stubs')
              BY <2>1, <3>3, <6>1 DEF Ids
            <6>3. QED
              BY <6>2
          <5>2. CASE ~Oversize(m)
            BY <1>8, <2>1, <3>3, <4>3, <5>2 DEF EnumerateBackfill, Exists
          <5>3. QED
            BY <5>1, <5>2
        <4>4. QED
          BY <2>2, <4>1, <4>2, <4>3
      <3>4. CASE cursor' # Fresh /\ ~Behind(cursor', m)
        BY <1>8, <2>2, <3>4 DEF EnumerateBackfill, Paging
      <3>5. QED
        BY <2>1, <2>2, <2>4, <3>2, <3>3, <3>4
    <2>5. QED
      BY <2>2, <2>4
  <1>9. CASE EnumerateReconcile
    <2>1. PICK P : /\ P = PageOf(Rest(cursor)) /\ P \subseteq here
                   /\ Missed(cursor) = {} => \A m \in here :
                         m \in P \/ Behind(cursor, m) \/ (cursor' # Fresh /\ ~Behind(cursor', m))
                   /\ StepsBack => Missed(cursor) = {}
                   /\ Missed(cursor) # {} => sound' = "no" /\ (kind = "reconcile" => clean' = "no")
                   /\ \A m \in P : m \in Msgs /\ Listed(m).id = m
      BY <1>9, Paged
    <2>2. /\ pc = "enum" /\ kind = "reconcile" /\ UNCHANGED <<here, rows, log, bf, token, kind, got>>
          /\ On' => On /\ Missed(cursor) = {}
      BY <1>9, <2>1 DEF EnumerateReconcile, server, index, Working, Trusted
    <2>3. Base' = Base
      BY <2>2 DEF Base
    <2>4. ASSUME On', NEW m \in here PROVE F(m)'
      <3>1. F(m) /\ Working
        BY <1>1, <2>2, <2>4
      <3>2. CASE Behind(cursor, m)
        <4>1. m \in Ids(stubs) => m \in Ids(stubs')
          BY <1>9 DEF EnumerateReconcile, Ids
        <4>2. m \in Ids(refile) => m \in Ids(refile')
          BY <1>9 DEF EnumerateReconcile, Ids
        <4>3. m \in fetch => m \in fetch'
          BY <1>9 DEF EnumerateReconcile
        <4>4. ~Coming(m)
          BY <3>2
        <4>5. QED
          BY <2>2, <2>3, <3>1, <4>1, <4>2, <4>3, <4>4
      <3>3. CASE m \in P
        <4>1. rows[m].st \in {"live", "deleted", "none"}
          BY <2>1, <3>3 DEF TypeOK
        <4>2. CASE rows[m].st = "deleted"
          <5>1. m \notin local
            BY <2>1, <2>2, <3>3, <4>2 DEF Dropping, Live
          <5>2. Listed(m) \in refile'
            BY <1>9, <2>1, <3>3, <4>2, <5>1 DEF EnumerateReconcile, Exists
          <5>3. m \in Ids(refile')
            BY <2>1, <3>3, <5>2 DEF Ids
          <5>4. QED
            BY <5>3
        <4>3. CASE rows[m].st = "none"
          <5>1. CASE Oversize(m)
            <6>1. Listed(m) \in stubs'
              BY <1>9, <2>1, <3>3, <4>3, <5>1 DEF EnumerateReconcile, Exists
            <6>2. m \in Ids(stubs')
              BY <2>1, <3>3, <6>1 DEF Ids
            <6>3. QED
              BY <6>2
          <5>2. CASE ~Oversize(m)
            BY <1>9, <2>1, <3>3, <4>3, <5>2 DEF EnumerateReconcile, Exists
          <5>3. QED
            BY <5>1, <5>2
        <4>4. QED
          BY <2>2, <4>1, <4>2, <4>3
      <3>4. CASE cursor' # Fresh /\ ~Behind(cursor', m)
        BY <1>9, <2>2, <3>4 DEF EnumerateReconcile, Paging
      <3>5. QED
        BY <2>1, <2>2, <2>4, <3>2, <3>3, <3>4
    <2>5. QED
      BY <2>2, <2>4
  <1>10. CASE ReadChanges
    BY <1>10, <1>1 DEF ReadChanges, Working
  <1>11. CASE ReadProfile
    <2>1. kind = "delta" /\ pc = "profile" /\ UNCHANGED <<here, rows, log, sound, kind, state>>
      BY <1>11 DEF ReadProfile, server, index, outer, Phased
    <2>2. ASSUME On', NEW m \in here PROVE F(m)'
      <3>1. sound = "yes" /\ state # NoState /\ state = Len(log) /\ token' = Len(log)
        BY <1>11, <2>1, <2>2 DEF Trusted, Stated, ReadProfile
      <3>2. rows[m].st = "live" \/ Creates(log, m, state)
        BY <3>1 DEF Stored, FiledAt, Live
      <3>3. QED
        BY <2>1, <3>1, <3>2 DEF Base
    <2>3. QED
      BY <2>1, <2>2
  <1>12. CASE ReadEnvelopes
    <2>1. kind = "delta" /\ pc = "envelopes" /\ UNCHANGED <<here, rows, log, sound, kind, token, backend>>
      BY <1>12 DEF ReadEnvelopes, server, index, outer, Phased
    <2>2. ASSUME On', NEW m \in here PROVE F(m)'
      <3>1. sound = "yes" /\ state # NoState
        BY <2>1, <2>2 DEF Trusted, Stated
      <3>2. rows[m].st = "live" \/ Creates(log, m, state)
        BY <3>1 DEF Stored, FiledAt, Live
      <3>3. rows[m].st \in {"none", "live"}
        BY <1>1, <3>1 DEF Undeleted, TypeOK
      <3>4. CASE Creates(log, m, token)
        BY <2>1, <3>4 DEF Base
      <3>5. CASE rows[m].st = "none" /\ ~Creates(log, m, token)
        <4>1. m \in Window("created") /\ m \notin Window("destroyed")
          BY <1>1, <2>1, <3>2, <3>5, WindowsCover
        <4>2. CASE ~Thin /\ Oversize(m)
          <5>1. Listed(m) \in stubs'
            BY <1>12, <2>2, <3>5, <4>1, <4>2 DEF ReadEnvelopes, Exists
          <5>2. m \in Ids(stubs')
            BY <5>1 DEF Listed, Ids
          <5>3. QED
            BY <5>2
        <4>3. CASE Thin \/ ~Oversize(m)
          <5>1. ~Oversize(m) /\ ~Exists(m)
            BY <3>5, <4>3 DEF Oversize, Exists
          <5>2. m \in fetch'
            BY <1>12, <2>2, <4>1, <5>1 DEF ReadEnvelopes
          <5>3. QED
            BY <5>2
        <4>4. QED
          BY <4>2, <4>3
      <3>6. QED
        BY <2>1, <3>3, <3>4, <3>5
    <2>3. QED
      BY <2>1, <2>2
  <1>13. CASE Resurrect
    <2>1. PICK S : S \subseteq refile /\ Revived(S) /\ refile' = refile \ S
      <3>1. PICK S \in Chunk(refile, IndexBatch) : Undelete(S) /\ refile' = refile \ S
        BY <1>13 DEF Resurrect
      <3>2. S \subseteq refile
        BY DEF Chunk, Part
      <3>3. Revived(S)
        BY <3>1, <3>2, RowEffects
      <3>4. QED
        BY <3>1, <3>2, <3>3
    <2>2. /\ UNCHANGED <<here, log, bf, token, kind, pc, cursor, sound, clean, stubs, fetch, got>>
          /\ pc = "refile" /\ (On' => On)
      BY <1>13, <1>0 DEF Resurrect, server, outer, Working, Trusted
    <2>3. Base' = Base
      BY <2>2 DEF Base
    <2>4. ASSUME On', NEW m \in here PROVE F(m)'
      <3>1. F(m) /\ m \in Msgs
        BY <1>1, <2>2, <2>4
      <3>2. CASE m \in Ids(S)
        <4>0. PICK e \in refile : e.id = m
          BY <2>1, <3>2 DEF Ids
        <4>1. rows[m].st # "none"
          BY <4>0 DEF Undeleted, Exists
        <4>2. rows'[m].st = "live"
          BY <2>1, <3>1, <3>2, <4>1 DEF Revived, TypeOK
        <4>3. QED
          BY <4>2
      <3>3. CASE m \notin Ids(S)
        <4>1. rows'[m] = rows[m]
          BY <2>1, <3>1, <3>3 DEF Revived
        <4>2. m \in Ids(refile) => m \in Ids(refile')
          BY <2>1, <3>3, IdsSplit
        <4>3. QED
          BY <2>2, <2>3, <3>1, <4>1, <4>2 DEF Paging
      <3>4. QED
        BY <3>2, <3>3
    <2>5. QED
      BY <2>2, <2>4
  <1>14. CASE WriteStubs
    <2>1. PICK S : S \subseteq stubs /\ Filed(S) /\ stubs' = stubs \ S
      <3>1. PICK S \in Chunk(stubs, IF kind = "delta" THEN 1 ELSE IndexBatch) : UpsertStub(S) /\ stubs' = stubs \ S
        BY <1>14 DEF WriteStubs
      <3>2. S \subseteq stubs
        BY DEF Chunk, Part
      <3>3. Filed(S)
        BY <3>1, <3>2, RowEffects
      <3>4. QED
        BY <3>1, <3>2, <3>3
    <2>2. /\ UNCHANGED <<here, log, bf, token, kind, pc, cursor, sound, clean, refile, fetch, got>>
          /\ pc = "stubs" /\ (On' => On)
      BY <1>14, <1>0 DEF WriteStubs, server, outer, Working, Trusted
    <2>3. Base' = Base
      BY <2>2 DEF Base
    <2>4. ASSUME On', NEW m \in here PROVE F(m)'
      <3>1. F(m) /\ m \in Msgs
        BY <1>1, <2>2, <2>4
      <3>2. CASE m \in Ids(S)
        <4>1. rows'[m].st = "live"
          BY <2>1, <3>1, <3>2 DEF Filed
        <4>2. QED
          BY <4>1
      <3>3. CASE m \notin Ids(S)
        <4>1. rows'[m] = rows[m]
          BY <2>1, <3>1, <3>3 DEF Filed
        <4>2. m \in Ids(stubs) => m \in Ids(stubs')
          BY <2>1, <3>3, IdsSplit
        <4>3. QED
          BY <2>2, <2>3, <3>1, <4>1, <4>2 DEF Paging
      <3>4. QED
        BY <3>2, <3>3
    <2>5. QED
      BY <2>2, <2>4
  <1>15. CASE WriteBatch
    <2>1. PICK S : S \subseteq got /\ Filed(S) /\ got' = got \ S
      BY <1>15, Batch
    <2>2. /\ UNCHANGED <<here, log, bf, token, kind, pc, cursor, sound, clean, refile, stubs, fetch>>
          /\ pc = "fetch" /\ (On' => On)
      BY <1>15, <1>0 DEF WriteBatch, server, outer, Working, Trusted
    <2>3. Base' = Base
      BY <2>2 DEF Base
    <2>4. ASSUME On', NEW m \in here PROVE F(m)'
      <3>1. F(m) /\ m \in Msgs
        BY <1>1, <2>2, <2>4
      <3>2. CASE m \in Ids(S)
        <4>1. rows'[m].st = "live"
          BY <2>1, <3>1, <3>2 DEF Filed
        <4>2. QED
          BY <4>1
      <3>3. CASE m \notin Ids(S)
        <4>1. rows'[m] = rows[m]
          BY <2>1, <3>1, <3>3 DEF Filed
        <4>2. m \in Ids(got) => m \in Ids(got')
          BY <2>1, <3>3, IdsSplit
        <4>3. QED
          BY <2>2, <2>3, <3>1, <4>1, <4>2 DEF Paging
      <3>4. QED
        BY <3>2, <3>3
    <2>5. QED
      BY <2>2, <2>4
  <1>16. ASSUME NEW m \in Msgs, FetchOne(m) PROVE Goal
    <2>1. /\ UNCHANGED <<here, log, bf, rows, token, kind, pc, cursor, sound, clean, refile, stubs>>
          /\ pc = "fetch" /\ (On' => On) /\ fetch \ {m} \subseteq fetch'
          /\ m \in here => got' = got \cup {Envelope(m)}
          /\ m \notin here => got' = got
      BY <1>16, <1>0 DEF FetchOne, server, index, outer, Working, Trusted
    <2>2. Base' = Base /\ Envelope(m).id = m
      BY <2>1 DEF Base, Envelope
    <2>3. ASSUME On', NEW k \in here PROVE F(k)'
      <3>1. F(k)
        BY <1>1, <2>1, <2>3
      <3>2. /\ k \in Ids(got) => k \in Ids(got')
            /\ m \in here => m \in Ids(got')
        BY <2>1, <2>2 DEF Ids
      <3>3. QED
        BY <2>1, <2>2, <2>3, <3>1, <3>2 DEF Paging
    <2>4. QED
      BY <2>1, <2>3
  <1>17. CASE FindMissing
    BY <1>17, <1>0, <1>1 DEF Working, Trusted, Paging, Base, FindMissing, server, index,
       outer, Ids
  <1>18. CASE RefreshEnvelopes
    BY <1>18, <1>0, <1>1 DEF Working, Trusted, Paging, Base, RefreshEnvelopes, server, index,
       outer, Ids
  <1>19. CASE Reapply
    <2>1. \A m \in here : rows'[m].st = rows[m].st
      <3>1. Applied(got)
        BY <1>19, RowEffects DEF Reapply
      <3>2. QED
        BY <1>1, <3>1 DEF Applied
    <2>2. QED
      BY <1>0, <1>1, <1>19, <2>1 DEF Working, Trusted, Paging, Base, Reapply, server, outer
  <1>20. CASE ApplyUpdates
    <2>1. \A m \in here : rows'[m].st = rows[m].st
      <3>1. PICK S \in SUBSET updated : ApplyRemoteState(S)
        BY <1>20 DEF ApplyUpdates, Chunk, Part
      <3>2. Applied(S)
        BY <3>1, RowEffects
      <3>3. QED
        BY <1>1, <3>2 DEF Applied
    <2>2. QED
      BY <1>0, <1>1, <1>20, <2>1 DEF Working, Trusted, Paging, Base, ApplyUpdates, server, outer
  <1>21. CASE Drop
    <2>0. On' => On
      BY <1>0, <1>21 DEF Drop, Working, Trusted, outer
    <2>1. On => \A m \in here : rows'[m] = rows[m]
      <3>1. Dropped(removed)
        BY <1>21, DroppedRows DEF Drop
      <3>2. On => removed \cap here = {}
        BY <1>1 DEF Dropping, Trusted
      <3>3. QED
        BY <1>1, <3>1, <3>2 DEF Dropped
    <2>2. QED
      BY <1>1, <1>21, <2>0, <2>1 DEF Working, Trusted, Paging, Base, Drop, server, outer
  <1>22. CASE SaveCursor
    <2>1. bf'.start = bf.start
      BY <1>22 DEF SaveCursor, TypeOK
    <2>2. QED
      BY <1>0, <1>1, <1>22, <2>1 DEF Working, Trusted, Paging, Base, Phased, SaveCursor, server, outer, plan
  <1>23. CASE Advance \/ FinishBackfill \/ FinishReconcile \/ SupersedeBackfill \/ Abort
    BY <1>23, <1>1 DEF Advance, FinishBackfill, FinishReconcile, SupersedeBackfill,
       Abort, Working
  <1>24. CASE Proceed
    <2>1. /\ pc \in {"refile", "stubs", "fetch", "drop", "refresh", "reapply", "apply"}
          /\ pc' = After(pc) /\ ~Todo(pc)
          /\ UNCHANGED <<here, log, rows, bf, token, kind, cursor, sound, clean, fetch, stubs, got, refile>>
      BY <1>1, <1>24 DEF Proceed, Todo, Phases, plan, server, index, outer
    <2>2. Working /\ (On' => On) /\ Base' = Base
      BY <1>0, <1>24, <2>1 DEF Working, Trusted, Base, Proceed
    <2>3. pc = "fetch" => got = {}
      BY <2>1 DEF Todo
    <2>4. \A m : Coming(m) => Coming(m)'
      BY <1>1, <2>1 DEF Paging, After, Phased
    <2>5. QED
      BY <1>1, <2>1, <2>2, <2>3, <2>4, IdsSplit
  <1>25. CASE EnsureRawWrite
    <2>1. UNCHANGED <<here, log, bf, pass>> /\ (On' => On)
      BY <1>25, <1>0 DEF EnsureRawWrite, server, index, Working, Trusted, pass
    <2>2. \A k \in here : rows[k].st = "live" => rows'[k].st = "live"
      <3>1. reader.ver = 0 => reader.id \notin here
        BY <1>25 DEF EnsureRawWrite, Known
      <3>2. QED
        BY <1>1, <1>25, <3>1, ReaderRows DEF Dropped
    <2>3. QED
      BY <1>1, <2>1, <2>2 DEF Paging, Base, pass, plan
  <1>26. ASSUME NEW m \in Msgs, EnsureRawFetch(m) PROVE Goal
    BY <1>26, <1>0, <1>1 DEF Working, Trusted, Paging, Base, EnsureRawFetch, server, index,
       pass, plan
  <1>27. QED
    BY Steps, <1>4, <1>5, <1>6, <1>7, <1>8, <1>9, <1>10, <1>11, <1>12, <1>13, <1>14,
       <1>15, <1>16, <1>17, <1>18, <1>19, <1>20, <1>21, <1>22, <1>23, <1>24, <1>25,
       <1>26

-----------------------------------------------------------------------------
(* Nothing that is there is marked deleted.                                *)

\* Which steps write sync_state and the backfill, make a spoiled index sound, or
\* have rows to bring back.
LEMMA Reasons ==
    ASSUME TypeOK, Phased, [Next]_vars
    PROVE  /\ sound' = sound \/ sound' = "no" \/ (FinishReconcile /\ clean = "yes")
           /\ \/ UNCHANGED state \/ FinishBackfill \/ FinishReconcile
              \/ Advance \/ ApplyUpdates \/ Drop
           /\ \/ UNCHANGED bf \/ SyncMail("full") \/ BeginBackfill \/ SaveCursor \/ FinishBackfill
              \/ SupersedeBackfill
           /\ refile' \subseteq refile \/ EnumerateBackfill \/ EnumerateReconcile
           /\ pc' = "enum" /\ kind' = "reconcile" =>
                BeginReconcile \/ (pc = "enum" /\ kind = "reconcile" /\ UNCHANGED local)
                \/ SaveCursor
           /\ Working' /\ kind' = "reconcile" /\ clean' = "yes" =>
                BeginReconcile \/ (Working /\ kind = "reconcile" /\ clean = "yes" /\ UNCHANGED token)
  <1> DEFINE S == sound' = sound \/ sound' = "no" \/ (FinishReconcile /\ clean = "yes")
             T == \/ UNCHANGED state \/ FinishBackfill \/ FinishReconcile
                  \/ Advance \/ ApplyUpdates \/ Drop
             B == \/ UNCHANGED bf \/ SyncMail("full") \/ BeginBackfill \/ SaveCursor \/ FinishBackfill
                  \/ SupersedeBackfill
             R == refile' \subseteq refile \/ EnumerateBackfill \/ EnumerateReconcile
             E == pc' = "enum" /\ kind' = "reconcile" =>
                    BeginReconcile \/ (pc = "enum" /\ kind = "reconcile" /\ UNCHANGED local)
                    \/ SaveCursor
             W == Working' /\ kind' = "reconcile" /\ clean' = "yes" =>
                    BeginReconcile \/ (Working /\ kind = "reconcile" /\ clean = "yes" /\ UNCHANGED token)
             All == S /\ T /\ B /\ R /\ E /\ W
  <1>1. CASE UNCHANGED vars \/ Forget
    BY <1>1 DEF Working, Forget, vars, index, pass, plan, outer
  <1>2. ASSUME NEW m \in Msgs, Deliver(m) \/ Change(m) \/ Destroy(m) PROVE All
    BY <1>2 DEF Working, Deliver, Change, Destroy, Journal, index, pass, plan, outer
  <1>3. CASE SyncMail("no")
    BY <1>3 DEF Working, SyncMail, index, pass, plan, outer
  <1>4. CASE SyncMail("full")
    BY <1>4 DEF Working, SyncMail, index, pass, plan, outer
  <1>5. CASE BeginBackfill \/ BeginReconcile
    BY <1>5 DEF Working, BeginBackfill, BeginReconcile, index, pass, plan, outer, Phased
  <1>6. CASE EnumerateBackfill
    <2>1. pc' = "refile" /\ kind' = "backfill" /\ UNCHANGED <<state, bf>> /\ sound' \in {sound, "no"}
      BY <1>6 DEF Working, EnumerateBackfill, index
    <2>2. QED
      BY <1>6, <2>1
  <1>7. CASE EnumerateReconcile
    <2>1. pc = "enum" /\ kind = "reconcile" /\ UNCHANGED <<state, bf, local, token>>
          /\ clean' \in {clean, "no"}
          /\ sound' \in {sound, "no"}
      BY <1>7 DEF Working, EnumerateReconcile, index
    <2>2. QED
      BY <1>7, <2>1 DEF Working
  <1>8. CASE ReadChanges \/ ReadProfile \/ ReadEnvelopes
    BY <1>8 DEF Working, Phased, ReadChanges, ReadProfile, ReadEnvelopes, index, pass, plan,
       outer
  <1>9. CASE Resurrect \/ WriteStubs \/ WriteBatch
    BY <1>9 DEF Working, Resurrect, WriteStubs, WriteBatch, index, pass, plan, outer
  <1>10. CASE FindMissing \/ RefreshEnvelopes \/ Reapply
    BY <1>10 DEF Working, FindMissing, RefreshEnvelopes, Reapply, index, pass, plan, outer
  <1>11. CASE ApplyUpdates \/ Drop \/ Advance
    BY <1>11 DEF Working, ApplyUpdates, Drop, Advance, index, pass, plan, outer
  <1>12. CASE SaveCursor \/ FinishBackfill
    BY <1>12 DEF Working, SaveCursor, FinishBackfill, index, pass, plan, outer
  <1>13. CASE FinishReconcile \/ SupersedeBackfill
    BY <1>13 DEF Working, FinishReconcile, SupersedeBackfill, index, pass, plan, outer
  <1>14. CASE Abort
    BY <1>14 DEF Working, Abort, index, pass, plan, outer
  <1>15. CASE Proceed
    <2>1. /\ pc \in {"refile", "stubs", "fetch", "drop", "refresh", "reapply", "apply"}
          /\ pc' = After(pc) /\ kind \in {"backfill", "delta", "reconcile"}
          /\ UNCHANGED <<state, bf, sound, refile, kind, token, clean>>
      BY <1>15 DEF Working, Proceed, Todo, Phases, TypeOK, plan, index, outer
    <2>2. pc' # "enum"
      BY <2>1 DEF After, Phased
    <2>3. QED
      BY <2>1, <2>2 DEF Working
  <1>16. ASSUME NEW m \in Msgs, FetchOne(m) PROVE All
    BY <1>16 DEF Working, FetchOne, index, pass, plan, outer
  <1>17. CASE EnsureRawWrite
    BY <1>17 DEF Working, EnsureRawWrite, index, pass, plan, outer
  <1>18. ASSUME NEW m \in Msgs, EnsureRawFetch(m) PROVE All
    BY <1>18 DEF Working, EnsureRawFetch, index, pass, plan, outer
  <1>19. QED
    BY Steps, <1>1, <1>2, <1>3, <1>4, <1>5, <1>6, <1>7, <1>8, <1>9, <1>10, <1>11, <1>12,
       <1>13, <1>14, <1>15, <1>16, <1>17, <1>18

\* Only what the provider no longer has is marked deleted, but by a reconcile that was
\* disturbed.
LEMMA OnlyGoneDeleted ==
    ASSUME TypeOK, Ledger, Known, Dropping, [Next]_vars, kind = "reconcile" => clean = "yes"
    PROVE  \A m \in Msgs : rows'[m].st = "deleted" =>
             rows[m].st = "deleted" \/ m \notin here
  <1> SUFFICES ASSUME NEW m \in Msgs, rows'[m].st = "deleted", m \in here
               PROVE  rows[m].st = "deleted"
    OBVIOUS
  <1>1. CASE UNCHANGED rows
    BY <1>1
  <1>2. CASE \E S : Revived(S) \/ Filed(S) \/ Applied(S)
    BY <1>2 DEF Revived, Filed, Applied
  <1>3. CASE Drop /\ Dropped(removed)
    <2>1. m \notin removed
      BY DEF Dropping
    <2>2. QED
      BY <1>3, <2>1 DEF Dropped
  <1>4. CASE EnsureRawWrite
    <2>1. reader.ver = 0 => reader.id \notin here
      BY <1>4 DEF EnsureRawWrite, Known
    <2>2. CASE reader.ver = 0
      BY <1>4, <2>1, <2>2, ReaderRows DEF Dropped
    <2>3. CASE reader.ver # 0
      <3>1. rows'[m].st = "live" \/ rows'[m] = rows[m]
        BY <1>4, <2>3, ReaderRows
      <3>2. QED
        BY <3>1
    <2>4. QED
      BY <2>2, <2>3
  <1>5. QED
    BY RowSteps, <1>1, <1>2, <1>3, <1>4

\* A reconcile that was clean has put everything into the index.
LEMMA SettledFiled ==
    ASSUME TypeOK, Phased, Filing, FinishReconcile, clean = "yes"
    PROVE  FiledAt(token) /\ refile = {}
  <1>1. pc = "settle" /\ kind = "reconcile"
    BY DEF FinishReconcile, Phased
  <1>2. Working /\ Trusted /\ Base = token
    BY <1>1 DEF Working, Trusted, Base
  <1>3. refile = {} /\ stubs = {} /\ fetch = {} /\ got = {}
    BY <1>1 DEF Phased
  <1>4. \A m : m \notin Ids({})
    BY DEF Ids
  <1>5. \A m \in here : ~Unlisted(m) /\ ~Due(m) /\ m \notin Ids(refile)
    BY <1>1, <1>3, <1>4 DEF Unlisted, Due, Paging
  <1>6. QED
    BY <1>2, <1>3, <1>5 DEF Filing, FiledAt

\* Every step keeps what is known of rows that were deleted on the server.
LEMMA UndeletedKept ==
    ASSUME TypeOK, Ledger, Positions, Known, Phased, Stated, Enumerating,
           Filing, Dropping, Undeleted, [Next]_vars
    PROVE  Undeleted'
  <1>1. /\ here \subseteq Msgs /\ here' \subseteq Msgs /\ rows \in [Msgs -> RowType]
        /\ rows' \in [Msgs -> RowType] /\ kind \in {"backfill", "delta", "reconcile"}
        /\ \A e \in refile : e.id \in Msgs
        /\ state \in Nat \cup {NoState} /\ token \in Nat
    <2>1. TypeOK'
      BY TypesKept
    <2>2. QED
      BY <2>1 DEF TypeOK, RowType
  <1>2. (kind = "reconcile" => clean = "yes") =>
           \A m \in Msgs : rows'[m].st = "deleted" => rows[m].st = "deleted" \/ m \notin here
    BY OnlyGoneDeleted
  <1>3. \A m \in here' : m \in here \/ (Deliver(m) /\ ver[m] = 0 /\ rows[m].st = "none" /\ rows' = rows)
    <2>1. ASSUME NEW k \in Msgs, Deliver(k) \/ Change(k) \/ Destroy(k), NEW m \in here', m \notin here
          PROVE  Deliver(m) /\ ver[m] = 0 /\ rows[m].st = "none" /\ rows' = rows
      <3>1. m = k /\ ver[m] = 0 /\ rows' = rows
        BY <1>1, <2>1, Moves DEF index
      <3>2. Deliver(m)
        BY <2>1, <3>1 DEF Change, Destroy
      <3>3. rows[m].st = "none"
        BY <1>1, <2>1, <3>1 DEF Known, Exists
      <3>4. QED
        BY <3>1, <3>2, <3>3
    <2>2. QED
      BY <2>1, ServerSteps
  <1>4. \A m \in Msgs : Exists(m) => rows'[m].st # "none"
    BY RowsKnown
  <1>5. sound' = "yes" => sound = "yes" \/ (FinishReconcile /\ clean = "yes")
    BY Reasons
  <1>6. \A e \in refile' : rows'[e.id].st # "none"
    <2>1. CASE refile' \subseteq refile
      BY <1>1, <1>4, <2>1 DEF Undeleted, Exists
    <2>2. CASE EnumerateBackfill \/ EnumerateReconcile
      <3>1. PICK P : P = PageOf(Rest(cursor)) /\ \A m \in P : m \in Msgs /\ Listed(m).id = m
        BY <2>2, Paged
      <3>2. rows' = rows /\ \A e \in refile' : e \in refile \/ \E m \in P : Exists(m) /\ e = Listed(m)
        BY <2>2, <3>1 DEF EnumerateBackfill, EnumerateReconcile, Exists, index
      <3>3. QED
        BY <1>1, <3>1, <3>2 DEF Undeleted, Exists
    <2>3. QED
      BY Reasons, <2>1, <2>2
  <1>7. Working' /\ kind' = "reconcile" /\ clean' = "yes" =>
           \A m \in here' : Creates(log', m, token') => rows'[m].st # "deleted"
    <2> SUFFICES ASSUME Working', kind' = "reconcile", clean' = "yes", NEW m \in here',
                        Creates(log', m, token')
                 PROVE  rows'[m].st # "deleted"
      OBVIOUS
    <2>1. CASE BeginReconcile
      <3>1. token' = Len(log) /\ log' = log /\ Len(log) \in Nat
        BY <2>1, Entries DEF BeginReconcile, server
      <3>2. ~Creates(log', m, token')
        BY <3>1 DEF Creates
      <3>3. QED
        BY <3>2
    <2>2. CASE Working /\ kind = "reconcile" /\ clean = "yes" /\ UNCHANGED token
      <3>1. CASE m \notin here
        BY <1>3, <3>1
      <3>2. CASE m \in here /\ UNCHANGED <<here, ver, log>>
        <4>1. rows[m].st # "deleted"
          BY <2>2, <3>2 DEF Undeleted
        <4>2. QED
          BY <1>1, <1>2, <2>2, <3>2, <4>1
      <3>3. ASSUME NEW k \in Msgs, Deliver(k) \/ Change(k) \/ Destroy(k), m \in here
            PROVE  rows'[m].st # "deleted"
        <4>1. /\ rows' = rows /\ Len(log') = Len(log) + 1 /\ log'[Len(log) + 1].id = k
              /\ log'[Len(log) + 1].what = "created" <=> Deliver(k)
              /\ \A i \in 1..Len(log) : log'[i] = log[i]
          BY <3>3, Moves DEF index
        <4>2. CASE Creates(log, m, token)
          BY <2>2, <3>3, <4>1, <4>2 DEF Undeleted
        <4>3. CASE ~Creates(log, m, token)
          <5>1. Deliver(m)
            <6>1. PICK i \in token + 1 .. Len(log') : log'[i].id = m /\ log'[i].what = "created"
              BY <2>2 DEF Creates
            <6>2. Len(log) \in Nat /\ token \in Nat
              BY <1>1, Entries
            <6>3. i \in token + 1 .. Len(log) => i \in 1..Len(log)
              BY <6>2
            <6>4. i \notin token + 1 .. Len(log)
              BY <4>1, <4>3, <6>1, <6>3 DEF Creates
            <6>5. i = Len(log) + 1
              BY <4>1, <6>1, <6>2, <6>4
            <6>6. QED
              BY <4>1, <6>1, <6>5
          <5>2. ver[m] = 0
            BY <5>1 DEF Deliver
          <5>3. rows[m].st # "none" => ver[m] > 0
            BY <1>1, <3>3 DEF Known, Exists
          <5>4. rows[m].st = "none"
            BY <5>2, <5>3
          <5>5. QED
            BY <4>1, <5>4
        <4>4. QED
          BY <4>2, <4>3
      <3>4. QED
        BY <3>1, <3>2, <3>3, ServerSteps
    <2>3. QED
      BY Reasons, <2>1, <2>2
  <1>8. sound' = "yes" => \A m \in here' : rows'[m].st # "deleted"
    <2> SUFFICES ASSUME sound' = "yes", NEW m \in here' PROVE rows'[m].st # "deleted"
      OBVIOUS
    <2>1. CASE m \notin here
      BY <1>3, <2>1
    <2>2. CASE m \in here /\ sound = "yes"
      BY <1>1, <1>2, <2>2 DEF Undeleted, Stated
    <2>3. CASE m \in here /\ FinishReconcile /\ clean = "yes"
      <3>1. Live(m) \/ Creates(log, m, token)
        BY <2>3, SettledFiled DEF FiledAt
      <3>2. Working /\ kind = "reconcile"
        BY <2>3 DEF FinishReconcile, Working, Phased
      <3>3. rows[m].st # "deleted"
        BY <2>3, <3>1, <3>2 DEF Undeleted, Live
      <3>4. QED
        BY <1>1, <1>2, <2>3, <3>3
    <2>4. QED
      BY <1>5, <2>1, <2>2, <2>3
  <1>9. sound' = "yes" => refile' = {}
    <2>1. CASE FinishReconcile /\ clean = "yes"
      <3>1. refile' = refile
        BY <2>1 DEF FinishReconcile, plan
      <3>2. QED
        BY <2>1, <3>1, SettledFiled
    <2>2. CASE sound = "yes" /\ refile' \subseteq refile
      BY <2>2 DEF Undeleted
    <2>3. CASE sound = "yes" /\ (EnumerateBackfill \/ EnumerateReconcile)
      <3>1. PICK P : P = PageOf(Rest(cursor)) /\ P \subseteq here
        BY <2>3, Paged
      <3>2. \A m \in P : rows[m].st # "deleted"
        BY <2>3, <3>1 DEF Undeleted
      <3>3. CASE EnumerateBackfill
        <4>1. {m \in P : rows[m].st = "deleted"} = {}
          BY <3>2
        <4>2. refile' = IF Thin THEN {} ELSE {Listed(m) : m \in {m \in P : rows[m].st = "deleted"}}
          BY <3>1, <3>3 DEF EnumerateBackfill
        <4>3. QED
          BY <4>1, <4>2
      <3>4. CASE EnumerateReconcile
        <4>1. \A m \in P : Exists(m) => m \in local
          BY <2>3, <3>1, <3>4 DEF Undeleted, EnumerateReconcile
        <4>2. refile' = refile \cup {Listed(m) : m \in (P \ {m \in P : ~Exists(m)}) \ local}
          BY <3>1, <3>4 DEF EnumerateReconcile
        <4>3. (P \ {m \in P : ~Exists(m)}) \ local = {}
          BY <4>1
        <4>4. refile = {}
          BY <2>3 DEF Undeleted
        <4>5. QED
          BY <4>2, <4>3, <4>4
      <3>5. QED
        BY <2>3, <3>3, <3>4
    <2>4. QED
      BY Reasons, <1>5, <2>1, <2>2, <2>3
  <1>10. sound' = "yes" /\ kind' = "reconcile" /\ pc' = "enum" =>
            \A m \in here' : rows'[m].st # "none" => m \in local'
    <2> SUFFICES ASSUME sound' = "yes", kind' = "reconcile", pc' = "enum", NEW m \in here',
                        rows'[m].st # "none"
                 PROVE  m \in local'
      OBVIOUS
    <2>1. m \in here /\ m \in Msgs
      BY <1>1, <1>3
    <2>2. ~FinishReconcile /\ ~WriteStubs
      BY DEF FinishReconcile, WriteStubs
    <2>3. ~SaveCursor
      BY DEF SaveCursor, Phased
    <2>4. ~WriteBatch
      BY DEF WriteBatch
    <2>5. CASE BeginReconcile
      <3>1. rows' = rows /\ local' = {k \in Msgs : Live(k)}
        BY <2>5 DEF BeginReconcile, index
      <3>2. rows[m].st # "deleted"
        BY <1>5, <2>1, <2>2 DEF Undeleted
      <3>3. rows[m].st \in {"none", "live", "deleted"}
        BY <1>1, <2>1 DEF RowType
      <3>4. QED
        BY <2>1, <3>1, <3>2, <3>3 DEF Live
    <2>6. CASE pc = "enum" /\ kind = "reconcile" /\ UNCHANGED local
      <3>1. ~WriteStubs /\ ~WriteBatch
        BY <2>6 DEF WriteStubs, WriteBatch
      <3>2. Exists(m)
        BY <2>1, <3>1, RowsKnown DEF Exists
      <3>3. QED
        BY <1>5, <2>1, <2>2, <2>6, <3>2 DEF Undeleted
    <2>7. QED
      BY Reasons, <2>3, <2>5, <2>6
  <1>11. sound' = "yes" /\ state' = NoState /\ bf'.st = "none" => \A m \in Msgs : rows'[m].st = "none"
    <2> SUFFICES ASSUME sound' = "yes", state' = NoState, bf'.st = "none", NEW m \in Msgs
                 PROVE  rows'[m].st = "none"
      OBVIOUS
    <2>1. ~FinishReconcile
      BY <1>1 DEF FinishReconcile, NoState
    <2>2. sound = "yes"
      BY <1>5, <2>1
    <2>3. state = NoState
      <3>1. ~FinishBackfill
        BY DEF FinishBackfill, TypeOK, NoState
      <3>2. CASE UNCHANGED state
        BY <3>2
      <3>3. CASE ApplyUpdates \/ Drop \/ Advance
        <4>1. state' = token \/ state' = state
          BY <3>3 DEF ApplyUpdates, Drop, Advance
        <4>2. QED
          BY <1>1, <4>1 DEF NoState
      <3>4. QED
        BY Reasons, <2>1, <3>1, <3>2, <3>3
    <2>4. bf.st = "none"
      <3>1. bf.st \in {"none", "open", "finished"}
        BY DEF TypeOK
      <3>2. bf.st \in {"none", "open"}
        BY <2>3 DEF Stated
      <3>3. CASE UNCHANGED bf
        BY <3>3
      <3>4. CASE SyncMail("full")
        <4>1. bf.st # "open"
          BY <3>4 DEF SyncMail
        <4>2. QED
          BY <3>2, <4>1
      <3>5. ~BeginBackfill /\ ~FinishBackfill
        BY DEF BeginBackfill, FinishBackfill, TypeOK
      <3>6. CASE SaveCursor
        <4>1. bf'.st = bf.st
          BY <3>6 DEF SaveCursor, TypeOK
        <4>2. QED
          BY <4>1
      <3>7. CASE SupersedeBackfill
        <4>1. bf.st = "open" => bf'.st = "finished"
          BY <3>7 DEF SupersedeBackfill, TypeOK
        <4>2. QED
          BY <3>2, <4>1
      <3>8. QED
        BY Reasons, <3>3, <3>4, <3>5, <3>6, <3>7
    <2>5. ~Exists(m)
      BY <2>2, <2>3, <2>4 DEF Undeleted
    <2>6. ~WriteStubs /\ ~WriteBatch
      <3>1. WriteStubs \/ WriteBatch => pc \in {"stubs", "fetch"}
        BY DEF WriteStubs, WriteBatch
      <3>2. pc \notin {"stubs", "fetch"}
        BY <1>1, <2>3, <2>4 DEF Stated, Paging
      <3>3. QED
        BY <3>1, <3>2
    <2>7. QED
      BY <2>5, <2>6, RowsKnown DEF Exists
  <1>12. QED
    BY <1>6, <1>7, <1>8, <1>9, <1>10, <1>11 DEF Undeleted, Exists

-----------------------------------------------------------------------------
(* What the index shows wrongly is going to be put right.                  *)

\* Every step keeps that a row that is shown is true, or about to be read again.
LEMMA MendingKept ==
    ASSUME TypeOK, Ledger, Positions, Known, Phased, Stated, Enumerating,
           ReadSince, Mending, Dropping, Undeleted, Stored, [Next]_vars
    PROVE  Mending'
  <1> DEFINE On == Working /\ Trusted
             Coming(m) == ~Behind(cursor, m) /\ (pc = "enum" \/ (Paging /\ cursor # Fresh))
             Shown(m) == /\ m \in here
                         /\ \/ rows[m].st = "live" /\ rows[m].ver = ver[m]
                            \/ m \in fetch \/ m \in Ids(stubs) \/ (m \in Ids(got) /\ pc = "fetch")
                            \/ rows[m].st = "live" /\ (m \in Ids(got) \/ m \in Ids(updated))
                            \/ m \in refresh /\ (rows[m].st = "live" \/ m \in Ids(refile))
                            \/ Coming(m)
             Hidden(m) == /\ m \notin here
                          /\ \/ rows[m].st # "live" \/ m \in removed \/ m \in fetch
                             \/ m \in local /\ m \notin remote /\ kind = "reconcile"
                                  /\ pc \in {"enum", "refile", "stubs", "fetch", "missing"}
             F(m) == Shown(m) \/ Hidden(m) \/ Mentions(log, m, Base)
             Goal == On' => \A m \in Msgs : F(m)'
  <1>1. /\ On => \A m \in Msgs : F(m)
        /\ pc \in Phases /\ kind \in {"backfill", "delta", "reconcile"} /\ here \subseteq Msgs
        /\ rows \in [Msgs -> RowType]
    <2>1. On => \A m \in Msgs : F(m)
      BY DEF Mending, Mended, Unlisted, Live, Due, Agrees
    <2>2. QED
      BY <2>1 DEF TypeOK, RowType
  <1>2. SUFFICES Goal
    <2>1. (\A m \in Msgs : F(m)') => \A m \in Msgs : (Mentions(log, m, Base) \/ Mended(m) \/ Unlisted(m))'
      BY DEF Mended, Unlisted, Live, Due, Agrees
    <2>2. QED
      BY <2>1 DEF Mending
  <1>3. /\ ~Working => pc \in {"idle", "begin", "list", "changes", "profile", "envelopes", "supersede"}
        /\ Ids({}) = {} /\ \A m : m \notin Ids({})
    BY <1>1 DEF Working, Phases, Ids
  <1>4. CASE UNCHANGED vars \/ Forget
    BY <1>4, <1>1 DEF Working, Trusted, Paging, Base, Forget, vars, server, index, pass,
       plan, outer
  <1>5. ASSUME NEW m \in Msgs, Deliver(m) \/ Change(m) \/ Destroy(m) PROVE Goal
    <2>1. /\ UNCHANGED <<index, pass, clean>>
          /\ \A k \in Msgs \ {m} : ver'[k] = ver[k] /\ (k \in here' <=> k \in here)
          /\ \A k, s : Mentions(log, k, s) /\ s \in Nat => Mentions(log', k, s)
          /\ \A s \in Int : s <= Len(log) => Mentions(log', m, s)
          /\ sound' = "yes" => sound = "yes"
      BY <1>5, Moves
    <2>2. (Working' <=> Working) /\ (On' => On) /\ Base' = Base
      BY <2>1 DEF Working, Trusted, Base, pass, index
    <2>3. ASSUME On', NEW k \in Msgs PROVE F(k)'
      <3>1. Working /\ On
        BY <2>2, <2>3
      <3>2. Base \in Nat /\ Base \in Int /\ Base <= Len(log)
        BY <3>1, BaseIsPast
      <3>3. CASE k = m \/ Mentions(log, k, Base)
        <4>1. Mentions(log', k, Base)
          BY <2>1, <3>2, <3>3
        <4>2. Mentions(log', k, Base')
          BY <2>2, <4>1
        <4>3. QED
          BY <4>2
      <3>4. CASE k # m /\ ~Mentions(log, k, Base)
        <4>1. Shown(k) \/ Hidden(k)
          BY <1>1, <3>1, <3>4
        <4>2. ver'[k] = ver[k] /\ (k \in here' <=> k \in here)
          BY <2>1, <3>4
        <4>3. Shown(k)' \/ Hidden(k)'
          BY <2>1, <4>1, <4>2 DEF Paging, index, pass, plan
        <4>4. QED
          BY <4>3
      <3>5. QED
        BY <3>3, <3>4
    <2>4. QED
      BY <2>3
  <1>6. ASSUME NEW full \in {"no", "full"}, SyncMail(full) PROVE Goal
    <2>1. cursor = Fresh /\ refile = {} /\ pc = "idle"
      BY <1>6 DEF SyncMail, Enumerating, Paging, Phased
    <2>2. CASE pc' = "enum"
      <3>1. /\ kind' = "backfill" /\ cursor' = bf.cursor /\ bf.st = "open" /\ (sound' = "yes" => sound = "yes")
            /\ UNCHANGED <<here, ver, rows, log, bf>>
        BY <1>6, <2>1, <2>2 DEF SyncMail, server
      <3>2. ASSUME On', NEW m \in Msgs PROVE F(m)'
        <4>1. sound = "yes" /\ Base' = bf.start
          BY <3>1, <3>2 DEF Trusted, Base
        <4>2. rows[m].st = "live" => Agrees(m) \/ Mentions(log, m, bf.start)
          BY <3>1, <4>1 DEF Stored, Live
        <4>3. m \in here => rows[m].st = "live" \/ Mentions(log, m, bf.start) \/ ~Behind(bf.cursor, m)
          BY <3>1, <4>1 DEF Stored, Live, Creates, Mentions
        <4>4. QED
          BY <2>2, <3>1, <4>1, <4>2, <4>3 DEF Agrees, Live
      <3>3. QED
        BY <3>2
    <2>3. CASE pc' # "enum"
      BY <1>6, <2>1, <2>3 DEF SyncMail, Working
    <2>4. QED
      BY <2>2, <2>3
  <1>7. CASE BeginBackfill
    <2>1. cursor = Fresh /\ pc = "begin" /\ kind = "backfill"
      BY <1>1, <1>7 DEF BeginBackfill, Enumerating, Paging, Phased
    <2>2. \A m : ~Behind(Fresh, m)
      BY DEF Behind, Fresh
    <2>3. bf.st = "none" /\ state = NoState
      BY <2>1 DEF Stated
    <2>4. sound = "yes" => \A m \in Msgs : rows[m].st = "none"
      BY <2>3 DEF Undeleted, Exists
    <2>5. UNCHANGED <<here, rows, kind, sound, cursor>> /\ pc' = "enum"
      BY <1>7 DEF BeginBackfill, server
    <2>6. QED
      BY <2>1, <2>2, <2>4, <2>5 DEF Trusted
  <1>8. CASE BeginReconcile
    <2>1. cursor = Fresh /\ pc = "list" /\ kind = "reconcile"
      BY <1>1, <1>8 DEF BeginReconcile, Enumerating, Paging, Phased
    <2>2. \A m : ~Behind(Fresh, m)
      BY DEF Behind, Fresh
    <2>3. /\ UNCHANGED <<here, rows, kind, cursor>> /\ pc' = "enum" /\ remote' = {}
          /\ local' = {m \in Msgs : rows[m].st = "live"}
      BY <1>8 DEF BeginReconcile, server, index, Live
    <2>4. QED
      BY <2>1, <2>2, <2>3
  <1>9. CASE EnumerateBackfill
    <2>1. PICK P : /\ P = PageOf(Rest(cursor)) /\ P \subseteq here
                   /\ Missed(cursor) = {} => \A m \in here :
                         m \in P \/ Behind(cursor, m) \/ (cursor' # Fresh /\ ~Behind(cursor', m))
                   /\ Missed(cursor) # {} => sound' = "no" /\ (kind = "reconcile" => clean' = "no")
                   /\ \A m \in P : m \in Msgs /\ Listed(m).id = m
      BY <1>9, Paged
    <2>2. /\ pc = "enum" /\ kind = "backfill"
          /\ UNCHANGED <<here, ver, rows, log, bf, token, kind, got, removed, updated, local>>
          /\ On' => On /\ Missed(cursor) = {}
      BY <1>9, <2>1 DEF EnumerateBackfill, server, index, Working, Trusted
    <2>3. Base' = Base
      BY <2>2 DEF Base
    <2>4. ASSUME On', NEW m \in Msgs PROVE F(m)'
      <3>1. F(m) /\ Working /\ On
        BY <1>1, <2>2, <2>4
      <3>2. CASE m \notin here
        <4>1. removed = {} /\ fetch = {}
          BY <2>2 DEF Phased
        <4>2. QED
          BY <2>2, <2>3, <3>1, <3>2, <4>1
      <3>3. CASE m \in here /\ m \notin P /\ Behind(cursor, m)
        <4>1. /\ fetch = {} /\ stubs = {} /\ got = {} /\ updated = {} /\ refresh = {}
          BY <2>2 DEF Phased
        <4>2. (m \in here /\ rows[m].st = "live" /\ rows[m].ver = ver[m]) \/ Mentions(log, m, Base)
          BY <1>3, <3>1, <3>3, <4>1
        <4>3. QED
          BY <2>2, <2>3, <4>2
      <3>4. CASE m \in here /\ cursor' # Fresh /\ ~Behind(cursor', m)
        BY <1>9, <2>2, <3>4 DEF EnumerateBackfill, Paging
      <3>5. CASE m \in P
        <4>1. rows[m].st \in {"live", "deleted", "none"}
          BY <1>1 DEF RowType
        <4>2. CASE rows[m].st = "live"
          <5>1. sound = "yes" /\ bf.st = "open" /\ Base = bf.start
            BY <2>2, <3>1, BaseIsPast DEF Trusted, Base
          <5>2. Agrees(m) \/ Mentions(log, m, bf.start)
            BY <4>2, <5>1 DEF Stored, Live
          <5>3. QED
            BY <2>1, <2>2, <2>3, <3>5, <5>1, <5>2 DEF Agrees, Live
        <4>3. CASE rows[m].st = "deleted"
          <5>1. sound = "yes"
            BY <2>2, <3>1 DEF Trusted
          <5>2. QED
            BY <2>1, <3>5, <4>3, <5>1 DEF Undeleted
        <4>4. CASE rows[m].st = "none"
          <5>1. CASE Oversize(m)
            <6>1. Listed(m) \in stubs'
              BY <1>9, <2>1, <3>5, <4>4, <5>1 DEF EnumerateBackfill, Exists
            <6>2. m \in Ids(stubs') /\ m \in here'
              BY <2>1, <2>2, <3>5, <6>1 DEF Ids
            <6>3. QED
              BY <6>2
          <5>2. CASE ~Oversize(m)
            <6>1. m \in fetch' /\ m \in here'
              BY <1>9, <2>1, <2>2, <3>5, <4>4, <5>2 DEF EnumerateBackfill, Exists
            <6>2. QED
              BY <6>1
          <5>3. QED
            BY <5>1, <5>2
        <4>5. QED
          BY <4>1, <4>2, <4>3, <4>4
      <3>6. QED
        BY <2>1, <2>2, <2>4, <3>2, <3>3, <3>4, <3>5
    <2>5. QED
      BY <2>4
  <1>10. CASE EnumerateReconcile
    <2>1. PICK P : /\ P = PageOf(Rest(cursor)) /\ P \subseteq here
                   /\ Missed(cursor) = {} => \A m \in here :
                         m \in P \/ Behind(cursor, m) \/ (cursor' # Fresh /\ ~Behind(cursor', m))
                   /\ Missed(cursor) # {} => sound' = "no" /\ (kind = "reconcile" => clean' = "no")
                   /\ \A m \in P : m \in Msgs /\ Listed(m).id = m
      BY <1>10, Paged
    <2>2. /\ pc = "enum" /\ kind = "reconcile"
          /\ UNCHANGED <<here, ver, rows, log, bf, token, kind, got, removed, updated, local>>
          /\ On' => On /\ Missed(cursor) = {}
      BY <1>10, <2>1 DEF EnumerateReconcile, server, index, Working, Trusted
    <2>3. Base' = Base
      BY <2>2 DEF Base
    <2>4. ASSUME On', NEW m \in Msgs PROVE F(m)'
      <3>1. F(m) /\ Working /\ On
        BY <1>1, <2>2, <2>4
      <3>2. CASE m \notin here
        <4>1. /\ m \notin P /\ remote' = remote \cup P /\ fetch \subseteq fetch' /\ pc' \in {"enum", "refile"}
          BY <1>10, <2>1, <3>2 DEF EnumerateReconcile
        <4>2. CASE Mentions(log, m, Base)
          BY <2>2, <2>3, <4>2
        <4>3. CASE Hidden(m)
          BY <2>2, <4>1, <4>3
        <4>4. QED
          BY <3>1, <3>2, <4>2, <4>3
      <3>3. CASE m \in here /\ m \notin P /\ Behind(cursor, m)
        <4>1. m \in Ids(stubs) => m \in Ids(stubs')
          BY <1>10 DEF EnumerateReconcile, Ids
        <4>2. m \in Ids(refile) => m \in Ids(refile')
          BY <1>10 DEF EnumerateReconcile, Ids
        <4>3. (m \in fetch => m \in fetch') /\ (m \in refresh => m \in refresh')
          BY <1>10 DEF EnumerateReconcile
        <4>4. ~Coming(m)
          BY <3>3
        <4>5. CASE Mentions(log, m, Base)
          BY <2>2, <2>3, <4>5
        <4>6. CASE Shown(m)
          BY <2>2, <4>1, <4>2, <4>3, <4>4, <4>6
        <4>7. QED
          BY <3>1, <3>3, <4>5, <4>6
      <3>4. CASE m \in here /\ cursor' # Fresh /\ ~Behind(cursor', m)
        BY <1>10, <2>2, <3>4 DEF EnumerateReconcile, Paging
      <3>5. CASE m \in P
        <4>1. rows[m].st \in {"live", "deleted", "none"}
          BY <1>1 DEF RowType
        <4> m \in here' /\ (rows[m].st # "none" => m \in refresh') /\ rows' = rows
          BY <1>10, <2>1, <2>2, <3>5 DEF EnumerateReconcile, Exists
        <4>2. CASE rows[m].st = "live"
          BY <4>2
        <4>3. CASE rows[m].st = "deleted"
          <5>1. m \notin local
            BY <2>1, <2>2, <3>5, <4>3 DEF Dropping, Live
          <5>2. Listed(m) \in refile'
            BY <1>10, <2>1, <3>5, <4>3, <5>1 DEF EnumerateReconcile, Exists
          <5>3. m \in Ids(refile')
            BY <2>1, <3>5, <5>2 DEF Ids
          <5>4. QED
            BY <4>3, <5>3
        <4>4. CASE rows[m].st = "none"
          <5>1. CASE Oversize(m)
            <6>1. Listed(m) \in stubs'
              BY <1>10, <2>1, <3>5, <4>4, <5>1 DEF EnumerateReconcile, Exists
            <6>2. m \in Ids(stubs') /\ m \in here'
              BY <2>1, <2>2, <3>5, <6>1 DEF Ids
            <6>3. QED
              BY <6>2
          <5>2. CASE ~Oversize(m)
            <6>1. m \in fetch' /\ m \in here'
              BY <1>10, <2>1, <2>2, <3>5, <4>4, <5>2 DEF EnumerateReconcile, Exists
            <6>2. QED
              BY <6>1
          <5>3. QED
            BY <5>1, <5>2
        <4>5. QED
          BY <4>1, <4>2, <4>3, <4>4
      <3>6. QED
        BY <2>1, <2>2, <2>4, <3>2, <3>3, <3>4, <3>5
    <2>5. QED
      BY <2>4
  <1>11. CASE ReadChanges
    BY <1>11, <1>1 DEF ReadChanges, Working
  <1>12. CASE ReadProfile
    <2>1. /\ kind = "delta" /\ pc = "profile" /\ UNCHANGED <<here, ver, rows, log, sound, kind, state>>
          /\ token' = Len(log)
      BY <1>12 DEF ReadProfile, server, index, outer, Phased
    <2>2. ASSUME On', NEW m \in Msgs PROVE F(m)'
      <3>1. sound = "yes" /\ state # NoState /\ state = Len(log) /\ Base' = state
        BY <2>1, <2>2 DEF Trusted, Stated, Base
      <3>2. Agrees(m) \/ Mentions(log, m, state)
        BY <3>1 DEF Stored, GapAt
      <3>3. QED
        BY <2>1, <3>1, <3>2 DEF Agrees, Live
    <2>3. QED
      BY <2>2
  <1>13. CASE ReadEnvelopes
    <2>1. /\ kind = "delta" /\ pc = "envelopes"
          /\ UNCHANGED <<here, ver, rows, log, sound, kind, token, state, backend>>
      BY <1>13 DEF ReadEnvelopes, server, index, outer, Phased
    <2>2. ASSUME On', NEW m \in Msgs PROVE F(m)'
      <3>1. sound = "yes" /\ state # NoState /\ Base' = token
        BY <2>1, <2>2 DEF Trusted, Stated, Base
      <3>2. Agrees(m) \/ Mentions(log, m, state)
        BY <3>1 DEF Stored, GapAt
      <3>3. CASE Agrees(m)
        BY <2>1, <3>3 DEF Agrees, Live
      <3>4. CASE Mentions(log, m, token)
        BY <2>1, <3>1, <3>4
      <3> DEFINE gone == Window("destroyed")
                 new == Window("created") \ gone
                 touched == Window("updated") \ (gone \cup new)
      <3>5. /\ gone \cap here = {}
            /\ Mentions(log, m, state) =>
                 Mentions(log, m, token) \/ m \in gone \/ m \in new \/ m \in touched
            /\ m \in new \cup touched => m \in here \/ Mentions(log, m, token)
        BY <2>1, WindowsCover
      <3>6. CASE m \notin here /\ m \in gone
        <4>1. m \in removed'
          BY <1>13, <3>6 DEF ReadEnvelopes
        <4>2. QED
          BY <2>1, <3>6, <4>1
      <3>7. CASE m \in here /\ m \in new
        <4>1. rows[m].st \in {"none", "live"}
          BY <1>1, <3>1, <3>7 DEF Undeleted, RowType
        <4> DEFINE large == Oversize(m) \/ (Exists(m) /\ rows[m].raw = "stub")
        <4>2. CASE ~large
          <5>1. m \in fetch'
            BY <1>13, <3>7, <4>2 DEF ReadEnvelopes
          <5>2. QED
            BY <2>1, <3>7, <5>1
        <4>3. CASE large /\ ~Exists(m)
          <5>1. Listed(m) \in stubs'
            BY <1>13, <3>7, <4>3 DEF ReadEnvelopes
          <5>2. m \in Ids(stubs')
            BY <5>1 DEF Listed, Ids
          <5>3. QED
            BY <2>1, <3>7, <5>2
        <4>4. CASE large /\ Exists(m) /\ Thin
          <5>1. m \in refresh'
            BY <1>13, <3>7, <4>4 DEF ReadEnvelopes
          <5>2. QED
            BY <2>1, <3>7, <4>1, <4>4, <5>1 DEF Exists
        <4>5. CASE large /\ Exists(m) /\ ~Thin
          <5>1. Envelope(m) \in updated'
            BY <1>13, <3>7, <4>5 DEF ReadEnvelopes
          <5>2. m \in Ids(updated')
            BY <5>1 DEF Envelope, Ids
          <5>3. QED
            BY <2>1, <3>7, <4>1, <4>5, <5>2 DEF Exists
        <4>6. QED
          BY <4>2, <4>3, <4>4, <4>5
      <3>8. CASE m \in here /\ m \in touched
        <4>1. rows[m].st \in {"none", "live"}
          BY <1>1, <3>1, <3>8 DEF Undeleted, RowType
        <4>2. CASE ~Exists(m)
          <5>1. m \in fetch'
            BY <1>13, <3>8, <4>2 DEF ReadEnvelopes
          <5>2. QED
            BY <2>1, <3>8, <5>1
        <4>3. CASE Exists(m)
          <5>1. Envelope(m) \in updated'
            BY <1>13, <3>8, <4>3 DEF ReadEnvelopes
          <5>2. m \in Ids(updated')
            BY <5>1 DEF Envelope, Ids
          <5>3. QED
            BY <2>1, <3>8, <4>1, <4>3, <5>2 DEF Exists
        <4>4. QED
          BY <4>2, <4>3
      <3> HIDE DEF gone, new, touched
      <3>9. QED
        BY <3>2, <3>3, <3>4, <3>5, <3>6, <3>7, <3>8
    <2>3. QED
      BY <2>2
  <1>14. CASE Resurrect
    <2>1. PICK S : S \subseteq refile /\ Revived(S) /\ refile' = refile \ S
      <3>1. PICK S \in Chunk(refile, IndexBatch) : Undelete(S) /\ refile' = refile \ S
        BY <1>14 DEF Resurrect
      <3>2. S \subseteq refile
        BY DEF Chunk, Part
      <3>3. Revived(S)
        BY <3>1, <3>2, RowEffects
      <3>4. QED
        BY <3>1, <3>2, <3>3
    <2>2. /\ UNCHANGED <<here, ver, log, bf, token, kind, pc, cursor, sound, clean, local, remote>>
          /\ UNCHANGED <<stubs, fetch, got, removed, refresh, updated>>
          /\ pc = "refile" /\ (On' => On)
      BY <1>14 DEF Resurrect, server, outer, Working, Trusted
    <2>3. Base' = Base
      BY <2>2 DEF Base
    <2>4. ASSUME On', NEW m \in Msgs PROVE F(m)'
      <3>1. F(m) /\ On
        BY <1>1, <2>2, <2>4
      <3> m \in Ids(refile) => Exists(m)
        BY DEF Undeleted, Ids
      <3>2. CASE m \in Ids(S)
        <4>1. m \in Ids(refile)
          BY <2>1, <3>2 DEF Ids
        <4>2. sound # "yes" /\ kind = "reconcile"
          <5>1. refile # {}
            BY <4>1, <1>3
          <5>2. sound # "yes"
            BY <5>1 DEF Undeleted
          <5>3. kind = "reconcile"
            BY <1>1, <3>1, <5>2 DEF Trusted
          <5>4. QED
            BY <5>2, <5>3
        <4>3. m \in refresh /\ (Mentions(log, m, Base) \/ m \in here)
          BY <3>1, <4>1, <4>2 DEF Dropping, ReadSince
        <4>4. rows[m].st # "none"
          BY <4>1 DEF Exists
        <4>5. CASE rows'[m].st = "live"
          BY <2>2, <2>3, <4>3, <4>5
        <4>6. CASE rows'[m] = rows[m] /\ rows[m].st # "deleted"
          <5>1. rows[m].st = "live"
            BY <1>1, <4>4, <4>6 DEF RowType
          <5>2. QED
            BY <2>2, <2>3, <4>3, <4>6, <5>1
        <4>7. QED
          BY <2>1, <3>2, <4>5, <4>6 DEF Revived
      <3>3. CASE m \notin Ids(S)
        <4>1. rows'[m] = rows[m]
          BY <2>1, <3>1, <3>3 DEF Revived
        <4>2. m \in Ids(refile) => m \in Ids(refile')
          BY <2>1, <3>3, IdsSplit
        <4>3. CASE Mentions(log, m, Base)
          BY <2>2, <2>3, <4>3
        <4>4. CASE Shown(m)
          BY <2>2, <4>1, <4>2, <4>4 DEF Paging
        <4>5. CASE Hidden(m)
          BY <2>2, <4>1, <4>5
        <4>6. QED
          BY <3>1, <4>3, <4>4, <4>5
      <3>4. QED
        BY <3>2, <3>3
    <2>5. QED
      BY <2>4
  <1>15. CASE WriteStubs
    <2>1. PICK S : S \subseteq stubs /\ Filed(S) /\ stubs' = stubs \ S
      <3>1. PICK S \in Chunk(stubs, IF kind = "delta" THEN 1 ELSE IndexBatch) : UpsertStub(S) /\ stubs' = stubs \ S
        BY <1>15 DEF WriteStubs
      <3>2. S \subseteq stubs
        BY DEF Chunk, Part
      <3>3. Filed(S)
        BY <3>1, <3>2, RowEffects
      <3>4. QED
        BY <3>1, <3>2, <3>3
    <2>2. /\ UNCHANGED <<here, ver, log, bf, token, kind, pc, cursor, sound, clean, local, remote>>
          /\ UNCHANGED <<refile, fetch, got, removed, refresh, updated>>
          /\ pc = "stubs" /\ (On' => On)
      BY <1>15 DEF WriteStubs, server, outer, Working, Trusted
    <2>3. Base' = Base
      BY <2>2 DEF Base
    <2>4. ASSUME On', NEW m \in Msgs PROVE F(m)'
      <3>1. F(m) /\ On
        BY <1>1, <2>2, <2>4
      <3>2. CASE m \in Ids(S)
        <4>1. PICK e \in S : e.id = m /\ rows'[m].ver = e.ver
          BY <2>1, <3>2 DEF Filed
        <4>2. rows'[m].st = "live"
          BY <2>1, <3>2 DEF Filed
        <4>3. Mentions(log, m, Base) \/ (m \in here /\ e.ver = ver[m])
          BY <2>1, <3>1, <4>1 DEF ReadSince
        <4>4. QED
          BY <2>2, <2>3, <4>1, <4>2, <4>3
      <3>3. CASE m \notin Ids(S)
        <4>1. rows'[m] = rows[m]
          BY <2>1, <3>1, <3>3 DEF Filed
        <4>2. m \in Ids(stubs) => m \in Ids(stubs')
          BY <2>1, <3>3, IdsSplit
        <4>3. CASE Mentions(log, m, Base)
          BY <2>2, <2>3, <4>3
        <4>4. CASE Shown(m)
          BY <2>2, <4>1, <4>2, <4>4 DEF Paging
        <4>5. CASE Hidden(m)
          BY <2>2, <4>1, <4>5
        <4>6. QED
          BY <3>1, <4>3, <4>4, <4>5
      <3>4. QED
        BY <3>2, <3>3
    <2>5. QED
      BY <2>4
  <1>16. CASE WriteBatch
    <2>1. PICK S : S \subseteq got /\ Filed(S) /\ got' = got \ S
      BY <1>16, Batch
    <2>2. /\ UNCHANGED <<here, ver, log, bf, token, kind, pc, cursor, sound, clean, local, remote>>
          /\ UNCHANGED <<refile, stubs, fetch, removed, refresh, updated>>
          /\ pc = "fetch" /\ (On' => On)
      BY <1>16 DEF WriteBatch, server, outer, Working, Trusted
    <2>3. Base' = Base
      BY <2>2 DEF Base
    <2>4. ASSUME On', NEW m \in Msgs PROVE F(m)'
      <3>1. F(m) /\ On
        BY <1>1, <2>2, <2>4
      <3>2. CASE m \in Ids(S)
        <4>1. PICK e \in S : e.id = m /\ rows'[m].ver = e.ver
          BY <2>1, <3>2 DEF Filed
        <4>2. rows'[m].st = "live"
          BY <2>1, <3>2 DEF Filed
        <4>3. Mentions(log, m, Base) \/ (m \in here /\ e.ver = ver[m])
          BY <2>1, <3>1, <4>1 DEF ReadSince
        <4>4. QED
          BY <2>2, <2>3, <4>1, <4>2, <4>3
      <3>3. CASE m \notin Ids(S)
        <4>1. rows'[m] = rows[m]
          BY <2>1, <3>1, <3>3 DEF Filed
        <4>2. m \in Ids(got) => m \in Ids(got')
          BY <2>1, <3>3, IdsSplit
        <4>3. CASE Mentions(log, m, Base)
          BY <2>2, <2>3, <4>3
        <4>4. CASE Shown(m)
          BY <2>2, <4>1, <4>2, <4>4 DEF Paging
        <4>5. CASE Hidden(m)
          BY <2>2, <4>1, <4>5
        <4>6. QED
          BY <3>1, <4>3, <4>4, <4>5
      <3>4. QED
        BY <3>2, <3>3
    <2>5. QED
      BY <2>4
  <1>17. ASSUME NEW m \in Msgs, FetchOne(m) PROVE Goal
    <2>1. /\ UNCHANGED <<here, ver, log, bf, rows, token, kind, pc, cursor, sound, clean, local, remote>>
          /\ UNCHANGED <<refile, stubs, refresh, updated>>
          /\ pc = "fetch" /\ (On' => On) /\ fetch \ {m} \subseteq fetch'
          /\ m \in here => got' = got \cup {Envelope(m)} /\ removed' = removed
          /\ m \notin here => got' = got /\ removed \subseteq removed'
          /\ m \in fetch
      BY <1>17 DEF FetchOne, server, index, outer, Working, Trusted
    <2>2. Base' = Base /\ Envelope(m).id = m
      BY <2>1 DEF Base, Envelope
    <2>3. ASSUME On', NEW k \in Msgs PROVE F(k)'
      <3>1. F(k)
        BY <1>1, <2>1, <2>3
      <3>2. /\ k \in Ids(got) => k \in Ids(got')
            /\ m \in here => m \in Ids(got')
            /\ k \in removed => k \in removed'
        BY <2>1, <2>2 DEF Ids
      <3>3. CASE Mentions(log, k, Base)
        BY <2>1, <2>2, <3>3
      <3>4. CASE k = m
        <4>1. m \in here \/ Mentions(log, m, Base)
          BY <2>1, <2>3 DEF ReadSince
        <4>2. QED
          BY <2>1, <2>2, <3>2, <3>3, <3>4, <4>1
      <3>5. CASE Shown(k) /\ k # m
        BY <2>1, <3>2, <3>5 DEF Paging
      <3>6. CASE Hidden(k) /\ k # m
        BY <2>1, <3>2, <3>6
      <3>7. QED
        BY <3>1, <3>3, <3>4, <3>5, <3>6
    <2>4. QED
      BY <2>3
  <1>18. CASE FindMissing
    <2>1. /\ UNCHANGED <<here, ver, log, bf, rows, token, kind, cursor, sound, clean, local, remote>>
          /\ UNCHANGED <<refile, stubs, fetch, got, refresh, updated>>
          /\ pc = "missing" /\ pc' = "drop" /\ (On' => On) /\ removed' = removed \cup (local \ remote)
      BY <1>18 DEF FindMissing, server, index, outer, Working, Trusted
    <2>2. Base' = Base /\ kind = "reconcile"
      BY <2>1 DEF Base, Phased
    <2>3. QED
      BY <1>1, <2>1, <2>2 DEF Paging
  <1>19. CASE RefreshEnvelopes
    <2>1. /\ UNCHANGED <<here, ver, log, bf, rows, token, kind, cursor, sound, clean, local, remote>>
          /\ UNCHANGED <<refile, stubs, fetch, removed, updated>>
          /\ pc = "refresh" /\ pc' = "reapply" /\ (On' => On)
          /\ \E S : /\ got' = {Envelope(m) : m \in S \cap here}
                    /\ refresh \ S \subseteq refresh'
      BY <1>19 DEF RefreshEnvelopes, server, index, outer, Working, Trusted
    <2>2. Base' = Base /\ refile = {} /\ got = {} /\ kind # "backfill" /\ fetch = {} /\ stubs = {}
      BY <2>1 DEF Base, Phased
    <2>3. \A m \in refresh \cap here : m \in Ids(got') \/ m \in refresh'
      <3>1. \A m \in refresh \cap here :
                m \in refresh' \/ (Envelope(m) \in got' /\ Envelope(m).id = m)
        BY <2>1 DEF Envelope
      <3>2. QED
        BY <3>1 DEF Ids
    <2>4. ASSUME On', NEW m \in Msgs PROVE F(m)'
      <3>1. F(m)
        BY <1>1, <2>1, <2>4
      <3>2. CASE Mentions(log, m, Base)
        BY <2>1, <2>2, <3>2
      <3>3. CASE Shown(m)
        BY <1>3, <2>1, <2>2, <2>3, <3>3 DEF Paging
      <3>4. CASE Hidden(m)
        BY <2>1, <3>4
      <3>5. QED
        BY <3>1, <3>2, <3>3, <3>4
    <2>5. QED
      BY <2>4
  <1>20. CASE Reapply
    <2>1. PICK S : S \subseteq got /\ Applied(S) /\ got' = got \ S
      <3>1. Applied(got)
        BY <1>20, RowEffects DEF Reapply
      <3>2. got' = got \ got
        BY <1>20 DEF Reapply
      <3>3. QED
        BY <3>1, <3>2
    <2>2. /\ UNCHANGED <<here, ver, log, bf, token, kind, pc, cursor, sound, clean, local, remote>>
          /\ UNCHANGED <<refile, stubs, fetch, removed, refresh, updated>>
          /\ pc = "reapply" /\ (On' => On)
      BY <1>20 DEF Reapply, server, outer, Working, Trusted
    <2>3. Base' = Base /\ refile = {} /\ fetch = {} /\ stubs = {} /\ kind # "backfill"
      BY <2>2 DEF Base, Phased
    <2>4. ASSUME On', NEW m \in Msgs PROVE F(m)'
      <3>1. F(m) /\ On
        BY <1>1, <2>2, <2>4
      <3>2. rows'[m].st = rows[m].st
        BY <2>1 DEF Applied
      <3>3. CASE Mentions(log, m, Base)
        BY <2>2, <2>3, <3>3
      <3>4. CASE Hidden(m)
        BY <2>2, <3>2, <3>4
      <3>5. CASE Shown(m) /\ m \in Ids(S) /\ rows[m].st = "live"
        <4>1. PICK e \in S : e.id = m /\ rows'[m].ver = e.ver
          BY <2>1, <3>5 DEF Applied, Exists
        <4>2. Mentions(log, m, Base) \/ (m \in here /\ e.ver = ver[m])
          BY <2>1, <3>1, <4>1 DEF ReadSince
        <4>3. QED
          BY <2>2, <2>3, <3>2, <3>5, <4>1, <4>2
      <3>6. CASE Shown(m) /\ m \in Ids(S) /\ rows[m].st # "live"
        BY <1>3, <2>2, <2>3, <3>6 DEF Paging
      <3>7. CASE Shown(m) /\ m \notin Ids(S)
        <4>1. rows'[m] = rows[m]
          BY <2>1, <3>7 DEF Applied
        <4>2. m \in Ids(got) => m \in Ids(got')
          BY <2>1, <3>7, IdsSplit
        <4>3. QED
          BY <1>3, <2>2, <2>3, <3>7, <4>1, <4>2 DEF Paging
      <3>8. QED
        BY <3>1, <3>3, <3>4, <3>5, <3>6, <3>7
    <2>5. QED
      BY <2>4
  <1>21. CASE ApplyUpdates
    <2>1. PICK S : S \subseteq updated /\ Applied(S) /\ updated' = updated \ S
      <3>1. PICK S \in Chunk(updated, IndexBatch) : ApplyRemoteState(S) /\ updated' = updated \ S
        BY <1>21 DEF ApplyUpdates
      <3>2. S \subseteq updated
        BY DEF Chunk, Part
      <3>3. Applied(S)
        BY <3>1, <3>2, RowEffects
      <3>4. QED
        BY <3>1, <3>2, <3>3
    <2>2. /\ UNCHANGED <<here, ver, log, bf, token, kind, cursor, sound, clean, local, remote>>
          /\ UNCHANGED <<refile, stubs, fetch, got, removed, refresh>>
          /\ pc = "apply" /\ (On' => On) /\ (On' => pc' = pc)
      BY <1>21 DEF ApplyUpdates, server, outer, Working, Trusted
    <2>3. Base' = Base /\ refile = {} /\ fetch = {} /\ stubs = {} /\ kind # "backfill" /\ got = {}
      BY <2>2 DEF Base, Phased
    <2>4. ASSUME On', NEW m \in Msgs PROVE F(m)'
      <3>1. F(m) /\ On
        BY <1>1, <2>2, <2>4
      <3>2. rows'[m].st = rows[m].st
        BY <2>1 DEF Applied
      <3>3. CASE Mentions(log, m, Base)
        BY <2>2, <2>3, <3>3
      <3>4. CASE Hidden(m)
        BY <2>2, <3>2, <3>4
      <3>5. CASE Shown(m) /\ m \in Ids(S) /\ rows[m].st = "live"
        <4>1. PICK e \in S : e.id = m /\ rows'[m].ver = e.ver
          BY <2>1, <3>5 DEF Applied, Exists
        <4>2. Mentions(log, m, Base) \/ (m \in here /\ e.ver = ver[m])
          BY <2>1, <3>1, <4>1 DEF ReadSince
        <4>3. QED
          BY <2>2, <2>3, <3>2, <3>5, <4>1, <4>2
      <3>6. CASE Shown(m) /\ m \in Ids(S) /\ rows[m].st # "live"
        BY <1>3, <2>2, <2>3, <3>6 DEF Paging
      <3>7. CASE Shown(m) /\ m \notin Ids(S)
        <4>1. rows'[m] = rows[m]
          BY <2>1, <3>7 DEF Applied
        <4>2. m \in Ids(updated) => m \in Ids(updated')
          BY <2>1, <3>7, IdsSplit
        <4>3. QED
          BY <1>3, <2>2, <2>3, <3>7, <4>1, <4>2 DEF Paging
      <3>8. QED
        BY <3>1, <3>3, <3>4, <3>5, <3>6, <3>7
    <2>5. QED
      BY <2>4
  <1>22. CASE Drop
    <2>1. Dropped(removed)
      BY <1>22, DroppedRows DEF Drop
    <2>2. /\ UNCHANGED <<here, ver, log, bf, token, kind, cursor, sound, clean, local, remote>>
          /\ UNCHANGED <<refile, stubs, fetch, got, refresh, updated>>
          /\ pc = "drop" /\ (On' => On) /\ (On' => pc' = pc)
      BY <1>22 DEF Drop, server, outer, Working, Trusted
    <2>3. Base' = Base /\ fetch = {} /\ (On => removed \cap here = {})
      BY <2>2 DEF Base, Phased, Dropping, Trusted
    <2>4. ASSUME On', NEW m \in Msgs PROVE F(m)'
      <3>1. F(m)
        BY <1>1, <2>2, <2>4
      <3>2. m \in here => rows'[m] = rows[m]
        BY <2>1, <2>2, <2>3, <2>4 DEF Dropped
      <3>3. m \in removed \/ rows[m].st # "live" => rows'[m].st # "live"
        BY <2>1 DEF Dropped, Live
      <3>4. CASE Mentions(log, m, Base)
        BY <2>2, <2>3, <3>4
      <3>5. CASE Hidden(m)
        BY <2>2, <2>3, <3>3, <3>5
      <3>6. CASE Shown(m)
        BY <2>2, <2>4, <3>2, <3>6 DEF Paging
      <3>7. QED
        BY <3>1, <3>4, <3>5, <3>6
    <2>5. QED
      BY <2>4
  <1>23. CASE SaveCursor
    <2>1. bf'.start = bf.start /\ bf'.st = bf.st
      BY <1>23 DEF SaveCursor, TypeOK
    <2>2. /\ UNCHANGED <<here, ver, log, rows, token, kind, cursor, sound, clean, local, remote>>
          /\ UNCHANGED <<refile, stubs, fetch, got, removed, refresh, updated>>
          /\ pc = "cursor" /\ (On' => On) /\ kind = "backfill"
          /\ pc' = IF cursor = Fresh THEN "finish" ELSE "enum"
      BY <1>23 DEF SaveCursor, server, outer, Working, Trusted, Phased, plan
    <2>3. Base' = Base
      BY <2>1, <2>2 DEF Base
    <2>4. QED
      BY <1>1, <2>1, <2>2, <2>3 DEF Paging
  <1>24. CASE Advance \/ FinishBackfill \/ FinishReconcile \/ SupersedeBackfill \/ Abort
    BY <1>24, <1>1 DEF Advance, FinishBackfill, FinishReconcile, SupersedeBackfill,
       Abort, Working
  <1>25. CASE Proceed
    <2>1. /\ pc \in {"refile", "stubs", "fetch", "drop", "refresh", "reapply", "apply"}
          /\ pc' = After(pc) /\ ~Todo(pc)
          /\ UNCHANGED <<here, ver, log, rows, bf, token, kind, cursor, sound, clean, local, remote>>
          /\ UNCHANGED <<refile, stubs, fetch, got, removed, refresh, updated>>
      BY <1>1, <1>25 DEF Proceed, Todo, Phases, plan, server, index, outer
    <2>2. Working /\ (On' => On) /\ Base' = Base
      BY <2>1 DEF Working, Trusted, Base
    <2>3. pc = "fetch" => got = {}
      BY <2>1 DEF Todo
    <2>4. \A m : Coming(m) => Coming(m)'
      BY <1>1, <2>1 DEF Paging, After, Phased
    <2>5. kind = "reconcile" /\ pc \in {"enum", "refile", "stubs", "fetch", "missing"} =>
            pc' \in {"enum", "refile", "stubs", "fetch", "missing"}
      BY <2>1 DEF After
    <2>6. ASSUME On', NEW m \in Msgs PROVE F(m)'
      <3>1. F(m)
        BY <1>1, <2>2, <2>6
      <3>2. CASE Mentions(log, m, Base)
        BY <2>1, <2>2, <3>2
      <3>3. CASE Shown(m)
        BY <1>3, <2>1, <2>3, <2>4, <3>3
      <3>4. CASE Hidden(m)
        BY <2>1, <2>5, <3>4
      <3>5. QED
        BY <3>1, <3>2, <3>3, <3>4
    <2>7. QED
      BY <2>6
  <1>26. CASE EnsureRawWrite
    <2>1. UNCHANGED <<here, ver, log, bf, pass>>
      BY <1>26 DEF EnsureRawWrite, server
    <2>2. ASSUME On', NEW m \in Msgs PROVE F(m)'
      <3>1. /\ reader.ver = (IF reader.id \in here THEN ver[reader.id] ELSE 0)
            /\ UNCHANGED <<sound, clean>>
        BY <1>26, <2>1, <2>2 DEF EnsureRawWrite, Trusted
      <3>2. On /\ Base' = Base
        BY <2>1, <2>2, <3>1 DEF Working, Trusted, Base, pass
      <3>3. F(m)
        BY <1>1, <3>2
      <3>4. reader.id \in here => reader.ver # 0 /\ reader.ver = ver[reader.id]
        <4>1. reader.id \in here => ver[reader.id] > 0
          BY <1>1 DEF Ledger
        <4>2. QED
          BY <3>1, <4>1
      <3>5. reader.id \notin here => reader.ver = 0
        BY <3>1
      <3>6. CASE reader.id \in here
        <4>1. /\ rows'[reader.id] = [st |-> "live", raw |-> "full", ver |-> reader.ver]
              /\ \A k \in Msgs : k # reader.id => rows'[k] = rows[k]
          BY <1>26, <3>4, <3>6, ReaderRows
        <4>2. CASE m = reader.id
          <5>1. rows'[m].st = "live" /\ rows'[m].ver = ver[m]
            BY <3>4, <3>6, <4>1, <4>2
          <5>2. QED
            BY <2>1, <3>6, <4>2, <5>1
        <4>3. CASE m # reader.id
          <5>1. rows'[m] = rows[m]
            BY <4>1, <4>3
          <5>2. QED
            BY <2>1, <3>2, <3>3, <5>1 DEF Paging, pass, plan
        <4>4. QED
          BY <4>2, <4>3
      <3>7. CASE reader.id \notin here
        <4>1. Dropped({reader.id})
          BY <1>26, <3>5, <3>7, ReaderRows
        <4>2. CASE m = reader.id
          <5>1. rows'[m].st # "live"
            BY <4>1, <4>2 DEF Dropped, Live
          <5>2. QED
            BY <2>1, <3>7, <4>2, <5>1
        <4>3. CASE m # reader.id
          <5>1. rows'[m] = rows[m]
            BY <4>1, <4>3 DEF Dropped
          <5>2. QED
            BY <2>1, <3>2, <3>3, <5>1 DEF Paging, pass, plan
        <4>4. QED
          BY <4>2, <4>3
      <3>8. QED
        BY <3>6, <3>7
    <2>3. QED
      BY <2>2
  <1>27. ASSUME NEW m \in Msgs, EnsureRawFetch(m) PROVE Goal
    BY <1>27, <1>1 DEF Working, Trusted, Paging, Base, EnsureRawFetch, server, index,
       pass, plan
  <1>28. QED
    BY Steps, <1>4, <1>5, <1>6, <1>7, <1>8, <1>9, <1>10, <1>11, <1>12, <1>13, <1>14,
       <1>15, <1>16, <1>17, <1>18, <1>19, <1>20, <1>21, <1>22, <1>23, <1>24, <1>25,
       <1>26, <1>27

-----------------------------------------------------------------------------
(* What is stored keeps its promise.                                       *)

\* What a step writes into a row that is there stays in it; and in an index that
\* was not spoiled it is what the provider shows now, or was read after the token.
LEMMA Written ==
    ASSUME TypeOK, Ledger, Known, Stated, ReadSince, Dropping, Undeleted, [Next]_vars
    PROVE  /\ pc = "idle" \/ (kind = "reconcile" => clean = "yes") =>
                \A m \in here : Live(m) => rows'[m].st = "live"
           /\ sound = "yes" /\ sound' = "yes" => \A m \in Msgs :
                \/ rows'[m] = rows[m]
                \/ Working /\ Mentions(log, m, Base)
                \/ m \in here /\ rows'[m].ver = ver[m] /\ (rows'[m].st = "live" \/ rows'[m].st = rows[m].st)
                \/ m \notin here /\ rows'[m].st # "live"
  <1> DEFINE Safe(m) == m \in here /\ Live(m) /\ (pc = "idle" \/ (kind = "reconcile" => clean = "yes")) =>
                            rows'[m].st = "live"
             Right(m) == \/ rows'[m] = rows[m]
                         \/ Working /\ Mentions(log, m, Base)
                         \/ m \in here /\ rows'[m].ver = ver[m]
                              /\ (rows'[m].st = "live" \/ rows'[m].st = rows[m].st)
                         \/ m \notin here /\ rows'[m].st # "live"
             Goal == \A m \in Msgs : Safe(m) /\ (sound = "yes" /\ sound' = "yes" => Right(m))
  <1>1. SUFFICES Goal
    BY DEF TypeOK
  <1>2. CASE UNCHANGED rows
    BY <1>2 DEF Live
  <1>3. CASE Resurrect /\ \E S \in SUBSET refile : Revived(S)
    <2>1. PICK S \in SUBSET refile : Revived(S)
      BY <1>3
    <2>2. sound = "yes" => Ids(S) = {}
      BY DEF Undeleted, Ids
    <2>3. QED
      BY <2>1, <2>2 DEF Revived, Live
  <1>4. CASE (WriteStubs \/ WriteBatch) /\ \E S : (S \in SUBSET stubs \/ S \in SUBSET got) /\ Filed(S)
    <2>1. PICK S : S \subseteq stubs \cup got /\ Filed(S)
      BY <1>4
    <2>2. Working
      BY <1>4 DEF Working, WriteStubs, WriteBatch
    <2>3. ASSUME NEW m \in Msgs PROVE Safe(m) /\ Right(m)
      <3>1. CASE m \in Ids(S)
        <4>1. rows'[m].st = "live" /\ \E e \in S : e.id = m /\ rows'[m].ver = e.ver
          BY <2>1, <3>1 DEF Filed
        <4>2. PICK e \in S : e.id = m /\ rows'[m].ver = e.ver
          BY <4>1
        <4>3. Mentions(log, m, Base) \/ (m \in here /\ e.ver = ver[m])
          BY <2>1, <2>2, <4>2 DEF ReadSince
        <4>4. QED
          BY <2>2, <4>1, <4>2, <4>3
      <3>2. CASE m \notin Ids(S)
        <4>1. rows'[m] = rows[m]
          BY <2>1, <3>2 DEF Filed
        <4>2. QED
          BY <4>1 DEF Live
      <3>3. QED
        BY <3>1, <3>2
    <2>4. QED
      BY <2>3
  <1>5. CASE (Reapply \/ ApplyUpdates) /\ \E S : (S \in SUBSET got \/ S \in SUBSET updated) /\ Applied(S)
    <2>1. PICK S : S \subseteq got \cup updated /\ Applied(S)
      BY <1>5
    <2>2. Working
      BY <1>5 DEF Working, Reapply, ApplyUpdates
    <2>3. ASSUME NEW m \in Msgs PROVE Safe(m) /\ Right(m)
      <3>1. CASE m \in Ids(S) /\ Exists(m)
        <4>1. rows'[m].st = rows[m].st /\ \E e \in S : e.id = m /\ rows'[m].ver = e.ver
          BY <2>1, <3>1 DEF Applied
        <4>2. PICK e \in S : e.id = m /\ rows'[m].ver = e.ver
          BY <4>1
        <4>3. Mentions(log, m, Base) \/ (m \in here /\ e.ver = ver[m])
          BY <2>1, <2>2, <4>2 DEF ReadSince
        <4>4. QED
          BY <2>2, <4>1, <4>2, <4>3 DEF Live
      <3>2. CASE ~(m \in Ids(S) /\ Exists(m))
        <4>1. rows'[m] = rows[m]
          BY <2>1, <3>2 DEF Applied
        <4>2. QED
          BY <4>1 DEF Live
      <3>3. QED
        BY <3>1, <3>2
    <2>4. QED
      BY <2>3
  <1>6. CASE Drop /\ Dropped(removed)
    <2>1. sound = "yes" => clean = "yes"
      BY DEF Stated
    <2>2. (kind = "reconcile" => clean = "yes") => removed \cap here = {}
      BY DEF Dropping
    <2>3. pc # "idle"
      BY <1>6 DEF Drop
    <2>4. QED
      BY <1>6, <2>1, <2>2, <2>3 DEF Dropped, Live
  <1>7. CASE EnsureRawWrite
    <2>1. reader.ver = 0 => reader.id \notin here
      BY <1>7 DEF EnsureRawWrite, Known
    <2>2. sound = "yes" /\ sound' = "yes" =>
            reader.ver = (IF reader.id \in here THEN ver[reader.id] ELSE 0)
      BY <1>7 DEF EnsureRawWrite
    <2>3. CASE reader.ver = 0
      BY <1>7, <2>1, <2>3, ReaderRows DEF Dropped, Live
    <2>4. CASE reader.ver # 0
      <3>1. /\ rows'[reader.id] = [st |-> "live", raw |-> "full", ver |-> reader.ver]
            /\ \A m \in Msgs : m # reader.id => rows'[m] = rows[m]
        BY <1>7, <2>4, ReaderRows
      <3>2. rows'[reader.id].st = "live" /\ rows'[reader.id].ver = reader.ver
        BY <3>1
      <3>3. QED
        BY <2>2, <2>4, <3>1, <3>2 DEF Live
    <2>5. QED
      BY <2>3, <2>4
  <1>8. QED
    BY RowSteps, <1>2, <1>3, <1>4, <1>5, <1>6, <1>7

\* A row that agrees goes on agreeing, or the journal holds why not.
LEMMA PromiseKept ==
    ASSUME TypeOK, Ledger, Positions, Known, Phased, Stated, ReadSince, Dropping, Undeleted,
           [Next]_vars, sound = "yes", sound' = "yes",
           NEW s \in Nat, s <= Len(log), Working => s <= Base,
           NEW m \in Msgs
    PROVE  /\ Agrees(m) \/ Mentions(log, m, s) => Agrees(m)' \/ Mentions(log', m, s)
           /\ (Live(m) => Agrees(m) \/ Mentions(log, m, s)) =>
                (Live(m)' => Agrees(m)' \/ Mentions(log', m, s))
  <1>1. CASE UNCHANGED <<here, ver, log>>
    <2>1. Working /\ Mentions(log, m, Base) => Mentions(log, m, s)
      <3>1. Working => Base \in Int
        BY BaseIsPast
      <3>2. Len(log) \in Nat
        BY Entries
      <3>3. Working => \A i \in Base + 1 .. Len(log) : i \in s + 1 .. Len(log)
        BY <3>1, <3>2
      <3>4. QED
        BY <3>3 DEF Mentions
    <2>2. CASE rows'[m] = rows[m]
      BY <1>1, <2>2 DEF Agrees, Live
    <2>3. CASE Working /\ Mentions(log, m, Base)
      BY <1>1, <2>1, <2>3
    <2>4. CASE m \in here /\ rows'[m].ver = ver[m] /\ (rows'[m].st = "live" \/ rows'[m].st = rows[m].st)
      BY <1>1, <2>4 DEF Agrees, Live
    <2>5. CASE m \notin here /\ rows'[m].st # "live"
      BY <1>1, <2>5 DEF Agrees, Live
    <2>6. QED
      BY <2>2, <2>3, <2>4, <2>5, Written
  <1>2. ASSUME NEW k \in Msgs, Deliver(k) \/ Change(k) \/ Destroy(k)
        PROVE  /\ Agrees(m) \/ Mentions(log, m, s) => Agrees(m)' \/ Mentions(log', m, s)
               /\ (Live(m) => Agrees(m) \/ Mentions(log, m, s)) =>
                    (Live(m)' => Agrees(m)' \/ Mentions(log', m, s))
    <2>1. /\ UNCHANGED rows /\ (Mentions(log, m, s) => Mentions(log', m, s))
          /\ m # k => ver'[m] = ver[m] /\ (m \in here' <=> m \in here)
          /\ m = k => Mentions(log', m, s)
      BY <1>2, Moves DEF index
    <2>2. QED
      BY <2>1 DEF Agrees, Live
  <1>3. QED
    BY <1>1, <1>2, ServerSteps

\* And one that was filed stays filed.
LEMMA FiledKept ==
    ASSUME TypeOK, Ledger, Positions, Known, Phased, Stated, Enumerating, ReadSince,
           Dropping, Undeleted, [Next]_vars,
           pc = "idle" \/ (kind = "reconcile" => clean = "yes"),
           NEW s \in Nat, s <= Len(log), NEW m \in here'
    PROVE  /\ m \notin here => Creates(log', m, s)
           /\ Live(m) \/ Creates(log, m, s) => Live(m)' \/ Creates(log', m, s)
  <1>1. CASE UNCHANGED <<here, ver, log>>
    BY <1>1, Written DEF Live
  <1>2. ASSUME NEW k \in Msgs, Deliver(k) \/ Change(k) \/ Destroy(k)
        PROVE  /\ m \notin here => Creates(log', m, s)
               /\ Live(m) \/ Creates(log, m, s) => Live(m)' \/ Creates(log', m, s)
    <2>1. /\ UNCHANGED rows /\ (Creates(log, m, s) => Creates(log', m, s))
          /\ k \in here' /\ k \notin here => \A t \in Int : t <= Len(log) => Creates(log', k, t)
      BY <1>2, Moves DEF index
    <2>2. m \notin here => m = k
      <3>1. m \in Msgs
        <4>1. TypeOK'
          BY TypesKept
        <4>2. QED
          BY <4>1 DEF TypeOK
      <3>2. QED
        BY <1>2, <3>1, Moves
    <2>3. QED
      BY <2>1, <2>2 DEF Live
  <1>3. QED
    BY <1>1, <1>2, ServerSteps

\* When there is nothing left to do, everything is done.
LEMMA DoneMeansDone ==
    ASSUME TypeOK, Phased, Stated, Enumerating, Filing, Mending, Working,
           pc \in {"finish", "settle", "advance", "apply", "drop"},
           pc = "drop" => kind = "delta", refresh = {}
    PROVE  /\ (kind = "backfill" /\ StepsBack) \/ Trusted => \A m \in here : Live(m) \/ Creates(log, m, Base)
           /\ Trusted => \A m \in Msgs : \/ Mentions(log, m, Base) \/ Agrees(m)
                                         \/ m \notin here /\ m \in removed
                                         \/ m \in here /\ Live(m) /\ m \in Ids(updated)
  <1>1. refile = {} /\ stubs = {} /\ fetch = {} /\ got = {} /\ \A m : m \notin Ids({})
    BY DEF Phased, Ids
  <1>2. \A m \in Msgs : ~Unlisted(m)
    BY DEF Unlisted, Paging, Enumerating
  <1>3. \A m \in here : ~Due(m) /\ m \notin Ids(refile)
    BY <1>1 DEF Due
  <1>4. here \subseteq Msgs
    BY DEF TypeOK
  <1>5. (kind = "backfill" /\ StepsBack) \/ Trusted => \A m \in here : Live(m) \/ Creates(log, m, Base)
    BY <1>2, <1>3, <1>4 DEF Filing
  <1>6. ASSUME Trusted, NEW m \in Msgs
        PROVE  \/ Mentions(log, m, Base) \/ Agrees(m)
               \/ m \notin here /\ m \in removed
               \/ m \in here /\ Live(m) /\ m \in Ids(updated)
    <2>1. Mentions(log, m, Base) \/ Mended(m) \/ Unlisted(m)
      BY <1>6 DEF Mending
    <2>2. CASE Mended(m) /\ m \in here
      BY <1>1, <1>3, <2>2 DEF Mended
    <2>3. CASE Mended(m) /\ m \notin here
      BY <1>1, <2>3 DEF Mended, Agrees
    <2>4. QED
      BY <1>2, <2>1, <2>2, <2>3
  <1>7. QED
    BY <1>5, <1>6

\* Every step keeps what the stored state promises.
LEMMA StoredKept ==
    ASSUME TypeOK, Ledger, Positions, Known, Phased, Stated, Enumerating, ReadSince,
           Filing, Mending, Dropping, Undeleted, Stored, [Next]_vars
    PROVE  Stored'
  <1>1. /\ here \subseteq Msgs /\ here' \subseteq Msgs /\ rows \in [Msgs -> RowType]
        /\ kind \in {"backfill", "delta", "reconcile"} /\ bf.start \in Nat
        /\ state \in Nat \cup {NoState} /\ token \in Nat
        /\ bf.st \in {"none", "open", "finished"} /\ {sound, clean} \subseteq {"yes", "no"}
    <2>1. TypeOK'
      BY TypesKept
    <2>2. QED
      BY <2>1 DEF TypeOK, RowType
  <1>2. ASSUME sound' = "yes", state' # NoState PROVE GapAt(state)' /\ FiledAt(state)'
    <2>1. ASSUME state' = state, sound = "yes"
          PROVE  GapAt(state)' /\ FiledAt(state)'
      <3>1. state \in Nat /\ state <= Len(log) /\ (Working => state <= Base)
        <4>1. state \in Nat /\ state # NoState
          BY <1>1, <1>2, <2>1
        <4>2. Working => state <= Base
          <5>1. Working => kind # "backfill"
            BY <4>1, BaseIsPast
          <5>2. QED
            BY <5>1, BaseIsPast
        <4>3. QED
          BY <4>1, <4>2 DEF Positions
      <3>2. \A m \in Msgs : Agrees(m) \/ Mentions(log, m, state)
        BY <1>2, <2>1 DEF Stored, GapAt
      <3>3. \A m \in here : Live(m) \/ Creates(log, m, state)
        BY <1>2, <2>1 DEF Stored, FiledAt
      <3>4. ASSUME NEW m \in Msgs PROVE Agrees(m)' \/ Mentions(log', m, state)
        BY <1>2, <2>1, <3>1, <3>2, PromiseKept
      <3>5. ASSUME NEW m \in here' PROVE Live(m)' \/ Creates(log', m, state)
        <4>1. clean = "yes"
          BY <2>1 DEF Stated
        <4>2. QED
          BY <3>1, <3>3, <4>1, FiledKept
      <3>6. QED
        BY <2>1, <3>4, <3>5 DEF GapAt, FiledAt
    <2>2. CASE FinishBackfill
      <3>1. /\ pc = "finish" /\ state' = bf.start /\ UNCHANGED <<here, ver, log, rows, sound>>
        BY <2>2 DEF FinishBackfill, server, outer
      <3>2. kind = "backfill" /\ Working /\ Trusted /\ refresh = {} /\ removed = {} /\ updated = {} /\ Base = bf.start
        BY <1>2, <3>1 DEF Phased, Working, Trusted, Base
      <3>3. \A m \in here : Live(m) \/ Creates(log, m, bf.start)
        BY <3>1, <3>2, DoneMeansDone
      <3>4. \A m \in Msgs : Agrees(m) \/ Mentions(log, m, bf.start)
        BY <3>1, <3>2, DoneMeansDone DEF Ids
      <3>5. QED
        BY <3>1, <3>3, <3>4 DEF GapAt, FiledAt, Agrees, Live
    <2>3. CASE FinishReconcile
      <3>1. pc = "settle" /\ state' = token /\ UNCHANGED <<here, ver, log, rows>>
        BY <2>3 DEF FinishReconcile, server
      <3>2. clean = "yes"
        <4>1. clean # "yes" => sound' = sound
          BY <2>3 DEF FinishReconcile
        <4>2. QED
          BY <1>2, <4>1 DEF Stated
      <3>3. kind = "reconcile" /\ Working /\ Trusted /\ refresh = {} /\ removed = {} /\ updated = {} /\ Base = token
        BY <3>1, <3>2 DEF Phased, Working, Trusted, Base
      <3>4. \A m \in here : Live(m) \/ Creates(log, m, token)
        BY <3>1, <3>3, DoneMeansDone
      <3>5. \A m \in Msgs : Agrees(m) \/ Mentions(log, m, token)
        BY <3>1, <3>3, DoneMeansDone DEF Ids
      <3>6. QED
        BY <3>1, <3>4, <3>5 DEF GapAt, FiledAt, Agrees, Live
    <2>4. CASE Advance
      <3>1. pc = "advance" /\ state' = token /\ UNCHANGED <<here, ver, log, rows, sound>>
        BY <2>4 DEF Advance, server, outer
      <3>2. kind = "delta" /\ Working /\ Trusted /\ refresh = {} /\ removed = {} /\ updated = {} /\ Base = token
        BY <1>2, <3>1 DEF Phased, Working, Trusted, Base
      <3>3. \A m \in here : Live(m) \/ Creates(log, m, token)
        BY <3>1, <3>2, DoneMeansDone
      <3>4. \A m \in Msgs : Agrees(m) \/ Mentions(log, m, token)
        BY <3>1, <3>2, DoneMeansDone DEF Ids
      <3>5. QED
        BY <3>1, <3>3, <3>4 DEF GapAt, FiledAt, Agrees, Live
    <2>5. CASE ApplyUpdates /\ state' # state
      <3>1. PICK S \in Chunk(updated, IndexBatch) : /\ ApplyRemoteState(S)
                                        /\ IF S = updated /\ removed = {}
                                             THEN state' = token /\ pc' = "idle"
                                             ELSE UNCHANGED <<state, pc>>
        BY <2>5 DEF ApplyUpdates
      <3>2. S = updated /\ removed = {} /\ state' = token
        BY <2>5, <3>1
      <3>3. Applied(updated)
        BY <3>1, <3>2, RowEffects
      <3>4. pc = "apply" /\ UNCHANGED <<here, ver, log, sound>>
        BY <2>5 DEF ApplyUpdates, server, outer
      <3>5. kind = "delta" /\ Working /\ Trusted /\ refresh = {} /\ Base = token
        BY <1>2, <3>4 DEF Phased, Working, Trusted, Base
      <3>6. \A m \in here : Live(m) \/ Creates(log, m, token)
        BY <3>4, <3>5, DoneMeansDone
      <3>7. \A m \in here : Live(m) => rows'[m].st = "live"
        BY <3>5, Written
      <3>8. ASSUME NEW m \in Msgs PROVE Agrees(m)' \/ Mentions(log', m, token)
        <4>1. \/ Mentions(log, m, token) \/ Agrees(m)
              \/ m \in here /\ Live(m) /\ m \in Ids(updated)
          BY <3>2, <3>4, <3>5, DoneMeansDone
        <4>2. CASE Mentions(log, m, token)
          BY <3>4, <4>2
        <4>3. CASE m \notin here /\ Agrees(m)
          BY <3>3, <3>4, <4>3 DEF Applied, Agrees, Live
        <4>4. CASE m \in here /\ Agrees(m) /\ m \notin Ids(updated)
          BY <3>3, <3>4, <4>4 DEF Applied, Agrees, Live
        <4>5. CASE m \in here /\ Live(m) /\ m \in Ids(updated)
          <5>1. PICK e \in updated : e.id = m /\ rows'[m].ver = e.ver
            BY <3>3, <4>5 DEF Applied, Exists, Live
          <5>2. Mentions(log, m, token) \/ e.ver = ver[m]
            BY <3>5, <5>1 DEF ReadSince
          <5>3. QED
            BY <3>4, <3>7, <4>5, <5>1, <5>2 DEF Agrees, Live
        <4>6. QED
          BY <4>1, <4>2, <4>3, <4>4, <4>5 DEF Agrees
      <3>9. QED
        BY <3>2, <3>4, <3>6, <3>7, <3>8 DEF GapAt, FiledAt, Live
    <2>6. CASE Drop /\ state' # state
      <3>1. Dropped(removed)
        BY <2>6, DroppedRows DEF Drop
      <3>2. pc = "drop" /\ kind = "delta" /\ state' = token /\ UNCHANGED <<here, ver, log, sound>>
        BY <2>6 DEF Drop, server, outer
      <3>3. Working /\ Trusted /\ refresh = {} /\ updated = {} /\ Base = token
        BY <1>2, <3>2 DEF Phased, Working, Trusted, Base
      <3>4. \A m \in here : Live(m) \/ Creates(log, m, token)
        BY <3>2, <3>3, DoneMeansDone
      <3>5. \A m \in here : rows'[m] = rows[m]
        <4>1. removed \cap here = {}
          BY <3>2 DEF Dropping
        <4>2. QED
          BY <1>1, <3>1, <4>1 DEF Dropped
      <3>6. ASSUME NEW m \in Msgs PROVE Agrees(m)' \/ Mentions(log', m, token)
        <4>1. Mentions(log, m, token) \/ Agrees(m) \/ (m \notin here /\ m \in removed)
          BY <3>2, <3>3, DoneMeansDone DEF Ids
        <4>2. m \notin here /\ (m \in removed \/ ~Live(m)) => rows'[m].st # "live"
          BY <3>1 DEF Dropped, Live
        <4>3. QED
          BY <3>2, <3>5, <4>1, <4>2 DEF Agrees, Live
      <3>7. QED
        BY <3>2, <3>4, <3>5, <3>6 DEF GapAt, FiledAt, Live
    <2>7. QED
      <3>1. sound = "yes" \/ FinishReconcile
        BY <1>2, Reasons
      <3>2. state' = state \/ FinishBackfill \/ FinishReconcile \/ Advance \/ ApplyUpdates \/ Drop
        BY Reasons
      <3>3. QED
        BY <2>1, <2>2, <2>3, <2>4, <2>5, <2>6, <3>1, <3>2
  <1>3. ASSUME bf'.st = "open"
        PROVE  \/ UNCHANGED bf
               \/ BeginBackfill
               \/ SaveCursor /\ bf.st = "open" /\ bf'.start = bf.start /\ bf'.cursor = cursor
    <2>1. ~SyncMail("full") \/ UNCHANGED bf
      <3>1. SyncMail("full") => UNCHANGED bf \/ bf'.st = "none"
        BY DEF SyncMail, TypeOK
      <3>2. QED
        BY <1>3, <3>1
    <2>2. ~FinishBackfill
      BY <1>3 DEF FinishBackfill, TypeOK
    <2>3. ~SupersedeBackfill \/ UNCHANGED bf
      <3>1. SupersedeBackfill => UNCHANGED bf \/ bf'.st = "finished"
        BY DEF SupersedeBackfill, TypeOK
      <3>2. QED
        BY <1>3, <3>1
    <2>4. SaveCursor => bf'.st = bf.st /\ bf'.start = bf.start /\ bf'.cursor = cursor
      BY DEF SaveCursor, TypeOK
    <2>5. QED
      BY <1>3, <2>1, <2>2, <2>3, <2>4, Reasons
  <1>4. ASSUME bf.st = "open" PROVE bf.start \in Nat /\ bf.start <= Len(log) /\ (Working => bf.start <= Base)
    <2>1. state = NoState
      BY <1>4 DEF Stated, OpenMeansNoState
    <2>2. Working => kind = "backfill"
      BY <2>1, BaseIsPast DEF NoState
    <2>3. QED
      BY <1>1, <1>4, <2>2 DEF Base, Positions
  <1>5. bf'.st = "open" /\ (StepsBack' \/ sound' = "yes") =>
           \A m \in here' : Behind(bf.cursor, m)' => Live(m)' \/ Creates(log', m, bf'.start)
    <2> SUFFICES ASSUME bf'.st = "open", StepsBack' \/ sound' = "yes",
                        NEW m \in here', Behind(bf.cursor, m)'
                 PROVE  Live(m)' \/ Creates(log', m, bf'.start)
      OBVIOUS
    <2>1. CASE UNCHANGED bf
      <3>1. pc = "idle" \/ (kind = "backfill" /\ state = NoState)
        BY <2>1 DEF Stated, OpenMeansNoState
      <3>2. ~FinishReconcile /\ ~BeginReconcile
        BY <3>1 DEF FinishReconcile, BeginReconcile, Phased
      <3>3. sound' = "yes" => sound = "yes"
        BY <3>2, Reasons
      <3>4. BeginBackfill => bf'.cursor.anchor = 0
        BY DEF BeginBackfill, Fresh
      <3>5. ~BeginBackfill
        BY <3>4 DEF Behind
      <3>6. StepsBack \/ sound = "yes"
        BY <3>2, <3>3, <3>5, Steady
      <3>7. m \in here => Live(m) \/ Creates(log, m, bf.start)
        BY <2>1, <3>6 DEF Stored, Behind
      <3>8. QED
        BY <1>4, <2>1, <3>1, <3>7, FiledKept
    <2>2. CASE BeginBackfill
      BY <2>2 DEF BeginBackfill, Behind, Fresh
    <2>3. CASE SaveCursor /\ bf.st = "open" /\ bf'.start = bf.start /\ bf'.cursor = cursor
      <3>1. /\ pc = "cursor" /\ kind = "backfill" /\ UNCHANGED <<here, log, rows>>
        BY <2>3 DEF SaveCursor, server, Phased
      <3>2. Working /\ Base = bf.start /\ ~Unlisted(m)
        BY <2>3, <3>1 DEF Working, Base, Unlisted, Behind
      <3>3. refile = {} /\ stubs = {} /\ fetch = {} /\ got = {}
        BY <3>1 DEF Phased
      <3>4. ~Due(m) /\ m \notin Ids(refile)
        BY <3>3 DEF Due, Ids
      <3>5. (StepsBack' => StepsBack) /\ sound' = sound
        BY <2>3 DEF SaveCursor, StepsBack, Thin, server, outer
      <3>6. Live(m) \/ Creates(log, m, bf.start)
        BY <3>1, <3>2, <3>4, <3>5 DEF Filing, Trusted
      <3>7. QED
        BY <2>3, <3>1, <3>6 DEF Live
    <2>4. QED
      BY <1>3, <2>1, <2>2, <2>3
  <1>6. bf'.st = "open" /\ sound' = "yes" =>
           \A m \in Msgs : Live(m)' => Agrees(m)' \/ Mentions(log', m, bf'.start)
    <2> SUFFICES ASSUME bf'.st = "open", sound' = "yes", NEW m \in Msgs, Live(m)'
                 PROVE  Agrees(m)' \/ Mentions(log', m, bf'.start)
      OBVIOUS
    <2>1. CASE UNCHANGED bf
      <3>1. ~FinishReconcile
        BY <2>1 DEF FinishReconcile, Phased, Stated, OpenMeansNoState
      <3>2. sound = "yes"
        BY <3>1, Reasons
      <3>3. Live(m) => Agrees(m) \/ Mentions(log, m, bf.start)
        BY <2>1, <3>2 DEF Stored
      <3>4. QED
        BY <1>4, <2>1, <3>2, <3>3, PromiseKept
    <2>2. CASE BeginBackfill
      <3>1. pc = "begin" /\ kind = "backfill" /\ UNCHANGED <<rows, sound>>
        BY <2>2 DEF BeginBackfill, Phased, outer
      <3>2. bf.st = "none" /\ state = NoState
        BY <3>1 DEF Stated
      <3>3. QED
        BY <3>1, <3>2 DEF Undeleted, Exists, Live
    <2>3. CASE SaveCursor /\ bf.st = "open" /\ bf'.start = bf.start
      <3>1. UNCHANGED <<rows, here, ver, log, sound>>
        BY <2>3 DEF SaveCursor, server, outer
      <3>2. QED
        BY <2>3, <3>1 DEF Stored, Agrees, Live
    <2>4. QED
      BY <1>3, <2>1, <2>2, <2>3
  <1>7. QED
    BY <1>2, <1>5, <1>6 DEF Stored

\* Who decides what is downloaded.
LEMMA Downloads ==
    ASSUME [Next]_vars
    PROVE  /\ backend' = backend
           /\ fetch' \subseteq fetch \/ EnumerateBackfill \/ EnumerateReconcile \/ ReadEnvelopes
  <1> DEFINE All == /\ backend' = backend
                    /\ fetch' \subseteq fetch \/ EnumerateBackfill \/ EnumerateReconcile \/ ReadEnvelopes
  <1>1. CASE UNCHANGED vars \/ Forget
    BY <1>1 DEF Forget, vars, server, pass, plan
  <1>2. ASSUME NEW m \in Msgs, Deliver(m) \/ Change(m) \/ Destroy(m) PROVE All
    BY <1>2 DEF Deliver, Change, Destroy, Journal, server, pass, plan
  <1>3. ASSUME NEW full \in {"no", "full"}, SyncMail(full) PROVE All
    BY <1>3 DEF SyncMail, server, pass, plan
  <1>4. CASE BeginBackfill \/ BeginReconcile
    BY <1>4 DEF BeginBackfill, BeginReconcile, server, pass, plan
  <1>5. CASE ReadChanges \/ ReadProfile
    BY <1>5 DEF ReadChanges, ReadProfile, server, pass, plan
  <1>6. CASE Resurrect \/ WriteStubs \/ WriteBatch
    BY <1>6 DEF Resurrect, WriteStubs, WriteBatch, server, pass, plan
  <1>7. CASE FindMissing \/ RefreshEnvelopes \/ Reapply
    BY <1>7 DEF FindMissing, RefreshEnvelopes, Reapply, server, pass, plan
  <1>8. CASE ApplyUpdates \/ Drop \/ Advance
    BY <1>8 DEF ApplyUpdates, Drop, Advance, server, pass, plan
  <1>9. CASE SaveCursor \/ FinishBackfill
    BY <1>9 DEF SaveCursor, FinishBackfill, server, pass, plan
  <1>10. CASE FinishReconcile \/ SupersedeBackfill
    BY <1>10 DEF FinishReconcile, SupersedeBackfill, server, pass, plan
  <1>11. CASE Proceed \/ Abort
    BY <1>11 DEF Proceed, Abort, server, pass, plan
  <1>12. CASE EnumerateBackfill
    <2>1. backend' = backend
      BY <1>12 DEF EnumerateBackfill, server
    <2>2. QED
      BY <1>12, <2>1
  <1>13. CASE EnumerateReconcile
    <2>1. backend' = backend
      BY <1>13 DEF EnumerateReconcile, server
    <2>2. QED
      BY <1>13, <2>1
  <1>14. CASE ReadEnvelopes
    <2>1. backend' = backend
      BY <1>14 DEF ReadEnvelopes, server
    <2>2. QED
      BY <1>14, <2>1
  <1>15. ASSUME NEW m \in Msgs, FetchOne(m) PROVE All
    BY <1>15 DEF FetchOne, server, pass, plan
  <1>16. CASE EnsureRawWrite
    BY <1>16 DEF EnsureRawWrite, server, pass, plan
  <1>17. ASSUME NEW m \in Msgs, EnsureRawFetch(m) PROVE All
    BY <1>17 DEF EnsureRawFetch, server, pass, plan
  <1>18. QED
    BY Steps, <1>1, <1>2, <1>3, <1>4, <1>5, <1>6, <1>7, <1>8, <1>9, <1>10, <1>11, <1>12,
       <1>13, <1>14, <1>15, <1>16, <1>17

\* Every step keeps the limit on what is downloaded.
LEMMA LimitKept ==
    ASSUME TypeOK, Ledger, Positions, Phased, Stated, Stored, LimitRespected, [Next]_vars
    PROVE  LimitRespected'
  <1>1. (Thin' <=> Thin) /\ backend' = backend
    BY Downloads DEF Thin
  <1> SUFFICES ASSUME ~Thin, sound' = "yes", NEW m \in fetch', m \in Big
               PROVE  FALSE
    BY <1>1 DEF LimitRespected
  <1>2. \A k \in Big : Oversize(k)
    BY DEF Oversize
  <1>3. CASE FinishReconcile
    <2>1. pc = "settle" /\ fetch' = fetch
      BY <1>3 DEF FinishReconcile, plan
    <2>2. QED
      BY <2>1 DEF Phased
  <1>4. CASE sound = "yes" /\ fetch' \subseteq fetch
    BY <1>4 DEF LimitRespected
  <1>5. CASE sound = "yes" /\ EnumerateBackfill
    BY <1>2, <1>5 DEF EnumerateBackfill
  <1>6. CASE sound = "yes" /\ EnumerateReconcile
    BY <1>2, <1>6 DEF EnumerateReconcile, LimitRespected
  <1>7. CASE sound = "yes" /\ ReadEnvelopes
    <2>1. pc = "envelopes" /\ kind = "delta" /\ state # NoState
      BY <1>7 DEF ReadEnvelopes, Phased, Stated
    <2> DEFINE gone == Window("destroyed")
               new == Window("created") \ gone
               touched == Window("updated") \ (gone \cup new)
    <2>2. m \in touched /\ m \in here /\ ~Exists(m)
      <3>1. m \in fetch' => \/ m \in new \cap here /\ ~Oversize(m)
                            \/ m \in touched \cap here /\ ~Exists(m)
        BY <1>7 DEF ReadEnvelopes
      <3>2. QED
        BY <1>2, <3>1
    <2>3. Creates(log, m, state)
      BY <1>7, <2>1, <2>2 DEF Stored, FiledAt, Live, Exists
    <2>4. m \in Window("created") \/ m \notin Window("updated")
      <3>1. m \in Msgs
        BY <2>2 DEF TypeOK
      <3>2. QED
        BY <2>1, <2>3, <3>1, WindowsCover
    <2>5. QED
      BY <2>2, <2>4
  <1>8. QED
    <2>1. sound = "yes" \/ FinishReconcile
      BY Reasons
    <2>2. QED
      BY <2>1, <1>3, <1>4, <1>5, <1>6, <1>7, Downloads

-----------------------------------------------------------------------------
(* The theorems.                                                           *)

\* The initial states have the invariant.
LEMMA InitHolds == Init => IInv
  <1> SUFFICES ASSUME Init PROVE IInv
    OBVIOUS
  <1>1. /\ ver = [m \in Msgs |-> IF m \in Old THEN 1 ELSE 0] /\ log = <<>> /\ kept = 0
        /\ kind = "backfill" /\ pc = "idle" /\ cursor = Fresh /\ token = 0
        /\ local = {} /\ remote = {} /\ refile = {} /\ stubs = {} /\ fetch = {} /\ got = {}
        /\ removed = {} /\ refresh = {} /\ updated = {} /\ reader = NoReader /\ clean = "yes"
        /\ again = [m \in Msgs |-> 0] /\ lost = 0 /\ twice = {}
        /\ backend \in Backends
    BY DEF Init
  <1>2. /\ Len(log) = 0 /\ 1..Len(log) = {} /\ log \in Seq([id : Msgs, what : {"created", "updated", "destroyed"}])
        /\ \A m \in Msgs : ver[m] \in {0, 1} /\ (m \in Old => ver[m] = 1)
        /\ ver \in [Msgs -> Nat] /\ Old \subseteq Msgs
    BY <1>1, ListAssumption
  <1>3. PICK spoil \in {0, 1} :
            /\ spent = [[f \in Faults |-> 0] EXCEPT !["spoil"] = spoil]
            /\ NewIndex \/ DamagedIndex
    BY DEF Init
  <1>4. spent \in [Faults -> Nat]
    BY <1>3 DEF Faults
  <1>5. /\ rows \in [Msgs -> RowType] /\ here \subseteq Old /\ sound \in {"yes", "no"}
        /\ \A m \in Msgs : rows[m].ver \in {0, 1} /\ (m \notin Old => rows[m] = Absent)
        /\ \/ /\ state = NoState /\ bf = [st |-> "none", cursor |-> Fresh, start |-> 0]
              /\ \A m \in Msgs : rows[m] = Absent
           \/ /\ state = 0 /\ bf = [st |-> "finished", cursor |-> Fresh, start |-> 0]
              /\ sound = "no"
    <2>1. CASE NewIndex
      <3>1. /\ \A m \in Msgs : rows[m] = Absent
            /\ rows = [m \in Msgs |-> Absent]
        BY <2>1 DEF NewIndex
      <3>2. Absent \in RowType /\ Absent.ver = 0
        BY DEF Absent, RowType
      <3>3. QED
        BY <2>1, <3>1, <3>2 DEF NewIndex
    <2>2. CASE DamagedIndex
      <3> DEFINE Row == {Absent} \cup [st : {"live"}, raw : {"stub", "full"}, ver : {0, 1}] \cup
                          [st : {"deleted"}, raw : {"stub", "full"}, ver : {0}]
      <3>1. rows \in [Msgs -> Row]
        BY <2>2 DEF DamagedIndex
      <3>2. \A r \in Row : r \in RowType /\ r.ver \in {0, 1}
        BY DEF Absent, RowType
      <3> HIDE DEF Row
      <3>3. rows \in [Msgs -> RowType] /\ \A m \in Msgs : rows[m].ver \in {0, 1}
        BY <3>1, <3>2
      <3>4. \A m \in Msgs : m \notin Old => rows[m] = Absent
        BY <2>2 DEF DamagedIndex
      <3>5. QED
        BY <2>2, <3>3, <3>4 DEF DamagedIndex
    <2>3. QED
      BY <1>3, <2>1, <2>2
  <1>6. /\ Fresh \in Cursors /\ Fresh.anchor = 0
        /\ bf.cursor = Fresh /\ bf.start = 0 /\ bf.st \in {"none", "finished"}
        /\ bf \in [st : {"none", "open", "finished"}, cursor : Cursors, start : Nat]
    BY <1>5 DEF Fresh, Cursors
  <1>7. TypeOK
    <2>1. reader \in [id : Msgs \cup {0}, ver : Nat] /\ pc \in Phases
      BY <1>1 DEF NoReader, Phases
    <2>2. QED
      BY <1>1, <1>2, <1>4, <1>5, <1>6, <2>1 DEF TypeOK, RowType
  <1>8. Ledger
    <2>1. MaxLog \in Nat
      BY ListAssumption
    <2>2. QED
      BY <1>2, <1>5, <2>1 DEF Ledger
  <1>9. Positions /\ Phased
    BY <1>1, <1>2, <1>5, <1>6 DEF Positions, Phased, NoState
  <1>10. Known
    <2>1. \A m \in Msgs : rows[m].ver <= ver[m] /\ (Exists(m) => ver[m] > 0)
      <3>1. Absent.ver = 0 /\ Absent.st = "none"
        BY DEF Absent
      <3>2. QED
        BY <1>2, <1>5, <3>1 DEF Exists
    <2>2. QED
      BY <1>1, <2>1 DEF Known
  <1>11. Stated /\ Enumerating
    BY <1>1, <1>4, <1>5, <1>6 DEF Stated, OpenMeansNoState, Paging, Enumerating, Counted, Counts, NoState
  <1>12. ReadSince /\ Filing /\ Mending /\ LimitRespected
    BY <1>1 DEF ReadSince, Filing, Mending, Working, LimitRespected
  <1>13. Dropping
    BY <1>1 DEF Dropping, Working
  <1>14. Undeleted
    BY <1>1, <1>2, <1>5 DEF Undeleted, Exists, Absent
  <1>15. Stored
    BY <1>5, <1>6 DEF Stored
  <1>16. QED
    BY <1>7, <1>8, <1>9, <1>10, <1>11, <1>12, <1>13, <1>14, <1>15 DEF IInv

\* Every step keeps the invariant.
LEMMA StepHolds == ASSUME IInv, [Next]_vars PROVE IInv'
  <1>1. /\ TypeOK /\ Ledger /\ Positions /\ Known /\ Phased /\ Stated /\ Enumerating
        /\ ReadSince /\ Filing /\ Mending /\ Dropping /\ Undeleted /\ Stored /\ LimitRespected
    BY DEF IInv
  <1>2. TypeOK' /\ Ledger' /\ Positions' /\ Known' /\ Phased' /\ Stated' /\ Enumerating'
    BY <1>1, TypesKept, LedgerKept, PositionsKept, KnownKept, PhasedKept, StatedKept, EnumeratingKept
  <1>3. ReadSince' /\ Filing' /\ Mending'
    BY <1>1, ReadSinceKept, FilingKept, MendingKept
  <1>4. Dropping' /\ Undeleted' /\ Stored' /\ LimitRespected'
    BY <1>1, DroppingKept, UndeletedKept, StoredKept, LimitKept
  <1>5. QED
    BY <1>2, <1>3, <1>4 DEF IInv

\* Whatever interrupts the passes and whatever a reader writes: once there is a
\* state token, a message on which index and provider disagree is in the journal
\* after it, unless the index was spoiled (mail.go, "the state may only be advanced
\* by the last write of the pass").
THEOREM NothingIsLost == Spec => []NoGap
  <1>1. Init => IInv
    BY InitHolds
  <1>2. IInv /\ [Next]_vars => IInv'
    BY StepHolds
  <1>3. IInv => NoGap
    <2> SUFFICES ASSUME IInv, state # NoState, sound = "yes", NEW m \in Msgs
                 PROVE  Agrees(m) \/ ChangedSince(m, state)
      BY DEF NoGap
    <2>1. Agrees(m) \/ Mentions(log, m, state)
      BY DEF IInv, Stored, GapAt
    <2>2. QED
      BY <2>1 DEF Mentions, ChangedSince
  <1>4. QED
    BY <1>1, <1>2, <1>3, PTL DEF Spec

\* What the cursor of an open backfill has passed is in the index or in the journal
\* after its token, unless its listing jumped over something; an open backfill has no
\* state beside it; and nothing above raw_max_size is downloaded (mail.go, backfill
\* and syncMail).
THEOREM BackfillSkipsNothing == Spec => []BackfillSound
  <1>1. Init => IInv
    BY InitHolds
  <1>2. IInv /\ [Next]_vars => IInv'
    BY StepHolds
  <1>3. IInv => BackfillSound
    <2> SUFFICES ASSUME IInv PROVE BackfillSound
      OBVIOUS
    <2>1. TypeOK /\ OpenMeansNoState /\ LimitRespected
      BY DEF IInv, Stated
    <2>2. bf.st = "open" /\ (StepsBack \/ sound = "yes") =>
             \A m \in here : Behind(bf.cursor, m) => Live(m) \/ Creates(log, m, bf.start)
      BY DEF IInv, Stored
    <2>3. CursorBehindWork
      BY <2>2 DEF CursorBehindWork, Creates, ChangedSince
    <2>4. QED
      BY <2>1, <2>3 DEF BackfillSound
  <1>4. QED
    BY <1>1, <1>2, <1>3, PTL DEF Spec

\* A listing that is resumed jumps over a message only when a second one has been
\* destroyed behind its cursor, and over none at Gmail (jmap/mail.go, Enumerate:
\* of a destroyed anchor it steps back by one).
THEOREM OneStepBackIsEnough == Spec => [](pc = "enum" /\ StepsBack => Missed(cursor) = {})
  <1>1. Init => IInv
    BY InitHolds
  <1>2. IInv /\ [Next]_vars => IInv'
    BY StepHolds
  <1>3. IInv => (pc = "enum" /\ StepsBack => Missed(cursor) = {})
    BY RestIsAll DEF IInv, Enumerating
  <1>4. QED
    BY <1>1, <1>2, <1>3, PTL DEF Spec

-----------------------------------------------------------------------------
(* The copy never goes back.                                               *)

\* An index that was not to be spoiled is not: a reader, a listing that jumps over
\* something and the rest of what does it all draw on that budget.
LEMMA Unspoiled ==
    ASSUME TypeOK, [Next]_vars
    PROVE  /\ spent'["spoil"] = spent["spoil"]
           /\ spent["spoil"] = 0 /\ sound = "yes" /\ clean = "yes" /\ reader = NoReader
                /\ StepsBack /\ Enumerating =>
                sound' = "yes" /\ clean' = "yes" /\ reader' = NoReader /\ StepsBack'
  <1> DEFINE All == /\ spent'["spoil"] = spent["spoil"]
                    /\ spent["spoil"] = 0 /\ sound = "yes" /\ clean = "yes" /\ reader = NoReader
                         /\ StepsBack /\ Enumerating =>
                         sound' = "yes" /\ clean' = "yes" /\ reader' = NoReader /\ StepsBack'
  <1>1. ASSUME NEW f \in Faults \ {"spoil"}, Spend(f)
        PROVE  /\ spent'["spoil"] = spent["spoil"]
               /\ f \in Spoilers => spent["spoil"] = 1
               /\ spent[f] < Budget[f] /\ spent[f] \in Nat /\ Budget[f] \in Nat
    BY <1>1, ListAssumption DEF Spend, TypeOK, Faults, Spoilers
  <1>2. /\ {"abort", "forget", "full", "restart", "loss", "skip", "quiet", "read"} \subseteq Faults \ {"spoil"}
        /\ {"restart", "skip", "quiet", "read"} \subseteq Spoilers
    BY DEF Faults, Spoilers
  <1>3. UNCHANGED <<backend, lost>> => (StepsBack' <=> StepsBack)
    BY DEF StepsBack, Thin
  <1>4. CASE UNCHANGED vars
    BY <1>3, <1>4 DEF vars, server, outer
  <1>5. CASE Forget
    BY <1>1, <1>2, <1>3, <1>5 DEF Forget, outer
  <1>6. ASSUME NEW m \in Msgs, Deliver(m) \/ Change(m) \/ Destroy(m) PROVE All
    <2>1. PICK what, hit : Journal(m, what, hit)
      BY <1>6 DEF Deliver, Change, Destroy
    <2>2. UNCHANGED <<backend, reader, clean>>
      BY <2>1 DEF Journal
    <2>3. CASE pc = "profile"
      <3>1. Spend("quiet")
        BY <2>1, <2>3 DEF Journal
      <3>2. spent["spoil"] = 1 /\ spent'["spoil"] = spent["spoil"]
        BY <1>1, <1>2, <3>1
      <3>3. QED
        BY <3>2
    <2>4. CASE pc # "profile" /\ hit
      <3>1. sound' = sound /\ lost' = lost + 1 /\ Spend(IF Thin \/ lost = 0 THEN "loss" ELSE "skip")
        BY <2>1, <2>4 DEF Journal
      <3>2. CASE Thin \/ lost = 0
        <4>1. Spend("loss")
          BY <3>1, <3>2
        <4>2. spent'["spoil"] = spent["spoil"]
          BY <1>1, <1>2, <4>1
        <4>3. StepsBack'
          BY <2>2, <3>1, <3>2 DEF StepsBack, Thin
        <4>4. QED
          BY <2>2, <3>1, <4>2, <4>3
      <3>3. CASE ~(Thin \/ lost = 0)
        <4>1. Spend("skip")
          BY <3>1, <3>3
        <4>2. spent["spoil"] = 1 /\ spent'["spoil"] = spent["spoil"]
          BY <1>1, <1>2, <4>1
        <4>3. QED
          BY <4>2
      <3>4. QED
        BY <3>2, <3>3
    <2>5. CASE pc # "profile" /\ ~hit
      <3>1. sound' = sound /\ lost' = lost /\ UNCHANGED spent
        BY <2>1, <2>5 DEF Journal
      <3>2. QED
        BY <1>3, <2>2, <3>1
    <2>6. QED
      BY <2>3, <2>4, <2>5
  <1>7. ASSUME NEW full \in {"no", "full"}, SyncMail(full) PROVE All
    <2>1. UNCHANGED <<backend, lost, reader, clean>>
      BY <1>7 DEF SyncMail, server
    <2>2. CASE UNCHANGED <<spent, sound>>
      BY <1>3, <2>1, <2>2
    <2>3. CASE Spend("restart")
      BY <1>1, <1>2, <2>3
    <2>4. CASE Spend("full") /\ UNCHANGED sound
      BY <1>1, <1>2, <1>3, <2>1, <2>4
    <2>5. QED
      BY <1>7, <2>2, <2>3, <2>4 DEF SyncMail
  <1>8. CASE BeginBackfill \/ BeginReconcile
    <2>1. UNCHANGED <<spent, sound, reader>> /\ lost' = 0 /\ (clean' = clean \/ clean' = "yes")
      BY <1>8 DEF BeginBackfill, BeginReconcile
    <2>2. StepsBack'
      BY <2>1 DEF StepsBack
    <2>3. QED
      BY <2>1, <2>2
  <1>9. CASE EnumerateBackfill \/ EnumerateReconcile
    <2>1. UNCHANGED <<backend, lost, spent, reader>>
      BY <1>9 DEF EnumerateBackfill, EnumerateReconcile, server
    <2>2. StepsBack /\ Enumerating => Missed(cursor) = {}
      BY RestIsAll DEF Enumerating
    <2>3. Missed(cursor) = {} => UNCHANGED <<sound, clean>>
      BY <1>9 DEF EnumerateBackfill, EnumerateReconcile
    <2>4. QED
      BY <1>3, <2>1, <2>2, <2>3
  <1>10. CASE ReadChanges \/ ReadProfile \/ ReadEnvelopes
    BY <1>3, <1>10 DEF ReadChanges, ReadProfile, ReadEnvelopes, server, outer
  <1>11. CASE Resurrect \/ WriteStubs \/ WriteBatch
    BY <1>3, <1>11 DEF Resurrect, WriteStubs, WriteBatch, server, outer
  <1>12. CASE FindMissing \/ RefreshEnvelopes \/ Reapply
    BY <1>3, <1>12 DEF FindMissing, RefreshEnvelopes, Reapply, server, outer
  <1>13. CASE ApplyUpdates \/ Drop \/ Advance
    BY <1>3, <1>13 DEF ApplyUpdates, Drop, Advance, server, outer
  <1>14. CASE SaveCursor \/ FinishBackfill
    BY <1>3, <1>14 DEF SaveCursor, FinishBackfill, server, outer
  <1>15. CASE FinishReconcile \/ SupersedeBackfill
    BY <1>3, <1>15 DEF FinishReconcile, SupersedeBackfill, server, outer
  <1>16. CASE Proceed
    BY <1>3, <1>16 DEF Proceed, server, outer
  <1>17. ASSUME NEW m \in Msgs, FetchOne(m) PROVE All
    BY <1>3, <1>17 DEF FetchOne, server, outer
  <1>18. CASE Abort
    BY <1>1, <1>2, <1>3, <1>18 DEF Abort, server, outer
  <1>19. CASE EnsureRawWrite
    BY <1>19 DEF EnsureRawWrite
  <1>20. ASSUME NEW m \in Msgs, EnsureRawFetch(m) PROVE All
    <2>1. Spend("read")
      BY <1>20 DEF EnsureRawFetch
    <2>2. spent["spoil"] = 1 /\ spent'["spoil"] = spent["spoil"]
      BY <1>1, <1>2, <2>1
    <2>3. QED
      BY <2>2
  <1>21. QED
    BY Steps, <1>4, <1>5, <1>6, <1>7, <1>8, <1>9, <1>10, <1>11, <1>12, <1>13,
       <1>14, <1>15, <1>16, <1>17, <1>18, <1>19, <1>20

\* Only a reconcile is told of a message twice that it has yet to file.
LEMMA TwiceSteps ==
    ASSUME TypeOK, [Next]_vars
    PROVE  /\ UNCHANGED twice \/ EnumerateReconcile
           /\ twice \subseteq twice' /\ \A m \in twice' : m \in twice \/ ~Exists(m)
  <1>1. CASE EnumerateReconcile
    BY <1>1 DEF EnumerateReconcile
  <1>2. (\E m \in Msgs : Deliver(m) \/ Change(m) \/ Destroy(m)) => UNCHANGED twice
    BY DEF Deliver, Change, Destroy, Journal
  <1>3. Forget \/ UNCHANGED vars \/ (\E full \in {"no", "full"} : SyncMail(full)) => UNCHANGED twice
    BY DEF Forget, vars, SyncMail, outer
  <1>4. BeginBackfill \/ BeginReconcile \/ EnumerateBackfill \/ EnsureRawWrite => UNCHANGED twice
    BY DEF BeginBackfill, BeginReconcile, EnumerateBackfill, EnsureRawWrite
  <1>5. ReadChanges \/ ReadProfile \/ ReadEnvelopes \/ (\E m \in Msgs : FetchOne(m)) => UNCHANGED twice
    BY DEF ReadChanges, ReadProfile, ReadEnvelopes, FetchOne, outer
  <1>6. FindMissing \/ RefreshEnvelopes \/ Advance \/ SaveCursor \/ FinishBackfill => UNCHANGED twice
    BY DEF FindMissing, RefreshEnvelopes, Advance, SaveCursor, FinishBackfill, outer
  <1>7. FinishReconcile \/ SupersedeBackfill \/ Proceed \/ Abort => UNCHANGED twice
    BY DEF FinishReconcile, SupersedeBackfill, Proceed, Abort, outer
  <1>8. Resurrect \/ WriteStubs \/ WriteBatch \/ Reapply => UNCHANGED twice
    BY DEF Resurrect, WriteStubs, WriteBatch, Reapply, outer
  <1>9. ApplyUpdates \/ Drop \/ (\E m \in Msgs : EnsureRawFetch(m)) => UNCHANGED twice
    BY DEF ApplyUpdates, Drop, EnsureRawFetch, outer
  <1>10. QED
    BY Steps, <1>1, <1>2, <1>3, <1>4, <1>5, <1>6, <1>7, <1>8, <1>9

\* Every step keeps that what is asked for twice was told of twice.
LEMMA AskedKept ==
    ASSUME TypeOK, Ledger, Positions, Known, Phased, Stated, Enumerating, Asked, [Next]_vars
    PROVE  Asked'
  <1>1. /\ again \in [Msgs -> Nat] /\ fetch \subseteq Msgs /\ refresh \subseteq Msgs
        /\ twice \subseteq twice' /\ fetch' \subseteq Msgs
    <2>1. TypeOK'
      BY TypesKept
    <2>2. QED
      BY <2>1, TwiceSteps DEF TypeOK
  <1>2. ASSUME UNCHANGED <<fetch, refresh, again>>, fetch = {}, refresh = {} PROVE Asked'
    BY <1>2 DEF Asked
  <1>3. pc = "enum" => \A m \in Msgs : Exists(m)' <=> Exists(m)
    <2>1. pc = "enum" => ~WriteStubs /\ ~WriteBatch
      BY DEF WriteStubs, WriteBatch
    <2>2. QED
      BY <2>1, RowsKnown DEF Exists
  <1>4. ASSUME fetch' = fetch, refresh' = refresh, again' = again, kind' = kind,
               pc' = "enum" /\ kind = "reconcile" => pc = "enum"
        PROVE  Asked'
    <2>1. /\ \A m \in Msgs : again'[m] > 0 => kind' = "reconcile" /\ m \in fetch' \cup refresh'
          /\ \A m \in fetch' : again'[m] > 0 => m \in twice'
          /\ kind' = "reconcile" => fetch' \cap refresh' = {}
      BY <1>1, <1>4 DEF Asked
    <2>2. ASSUME kind' = "reconcile", pc' = "enum"
          PROVE  (\A m \in fetch' : ~Exists(m)') /\ \A m \in refresh' : Exists(m)'
      <3>1. kind = "reconcile" /\ pc = "enum"
        BY <1>4, <2>2
      <3>2. (\A m \in fetch : ~Exists(m)) /\ \A m \in refresh : Exists(m)
        BY <3>1 DEF Asked
      <3>3. QED
        BY <1>1, <1>3, <1>4, <3>1, <3>2
    <2>3. QED
      BY <2>1, <2>2 DEF Asked
  <1>5. ASSUME again' = again, kind # "reconcile", kind' = kind PROVE Asked'
    BY <1>1, <1>5 DEF Asked
  <1>6. CASE UNCHANGED vars \/ Forget
    BY <1>4, <1>6 DEF Forget, vars, pass, plan
  <1>7. ASSUME NEW m \in Msgs, Deliver(m) \/ Change(m) \/ Destroy(m) PROVE Asked'
    BY <1>4, <1>7 DEF Deliver, Change, Destroy, Journal, pass, plan
  <1>8. ASSUME NEW full \in {"no", "full"}, SyncMail(full) PROVE Asked'
    <2>1. UNCHANGED <<fetch, refresh, again>> /\ pc = "idle"
      BY <1>8 DEF SyncMail, plan
    <2>2. fetch = {} /\ refresh = {}
      BY <2>1 DEF Phased
    <2>3. QED
      BY <1>2, <2>1, <2>2
  <1>9. CASE BeginBackfill \/ BeginReconcile \/ ReadChanges \/ ReadProfile \/ FinishBackfill
    <2>1. UNCHANGED <<fetch, refresh, again>> /\ pc \in {"begin", "list", "changes", "profile", "finish"}
      BY <1>9 DEF BeginBackfill, BeginReconcile, ReadChanges, ReadProfile, FinishBackfill, plan
    <2>2. fetch = {} /\ refresh = {}
      BY <2>1 DEF Phased
    <2>3. QED
      BY <1>2, <2>1, <2>2
  <1>10. CASE EnumerateBackfill
    BY <1>5, <1>10 DEF EnumerateBackfill
  <1>11. CASE ReadEnvelopes
    <2>1. kind = "delta"
      BY <1>11 DEF ReadEnvelopes, Phased
    <2>2. QED
      BY <1>5, <1>11, <2>1 DEF ReadEnvelopes
  <1>12. CASE EnumerateReconcile
    <2> DEFINE P == PageOf(Rest(cursor))
               new == {m \in P : ~Exists(m)}
               large == {m \in new : Oversize(m)}
               second == P \cap remote
    <2>1. /\ kind = "reconcile" /\ pc = "enum" /\ kind' = kind
          /\ fetch' = fetch \cup (new \ large) /\ refresh' = refresh \cup (P \ new)
          /\ again' = [m \in Msgs |-> IF m \in second \ large THEN again[m] + 1 ELSE again[m]]
          /\ twice' = twice \cup (second \cap new)
      BY <1>12 DEF EnumerateReconcile
    <2>2. /\ large \subseteq new /\ new \subseteq P /\ second \subseteq P
          /\ \A m \in new : ~Exists(m)
          /\ \A m \in P \ new : Exists(m)
      OBVIOUS
    <2>3. /\ \A m \in fetch : ~Exists(m) /\ (again[m] > 0 => m \in twice)
          /\ \A m \in refresh : Exists(m)
          /\ \A m \in Msgs : again[m] > 0 => m \in fetch \cup refresh
      BY <2>1 DEF Asked
    <2>4. P \subseteq Msgs
      <3>1. P \subseteq here
        BY DEF PageOf, Rest, FromPosition
      <3>2. QED
        BY <3>1 DEF TypeOK
    <2> HIDE DEF P, new, large, second
    <2>5. /\ \A m \in fetch' : ~Exists(m)
          /\ \A m \in refresh' : Exists(m)
      BY <2>1, <2>2, <2>3
    <2>6. ASSUME NEW m \in Msgs, again'[m] > 0
          PROVE  m \in fetch' \cup refresh' /\ (m \in fetch' => m \in twice')
      <3>1. CASE m \in second \ large
        <4>1. m \in P /\ m \notin large
          BY <2>2, <3>1
        <4>2. m \in fetch' \cup refresh'
          BY <2>1, <4>1
        <4>3. m \in fetch' => m \in new
          BY <2>2, <2>5, <4>1
        <4>4. QED
          BY <2>1, <3>1, <4>2, <4>3
      <3>2. CASE m \notin second \ large
        <4>1. again'[m] = again[m]
          BY <2>1, <3>2
        <4>2. m \in fetch \cup refresh
          BY <2>3, <2>6, <4>1
        <4>3. m \in fetch' => m \in fetch
          BY <2>3, <2>5, <4>2
        <4>4. QED
          BY <2>1, <2>3, <2>6, <4>1, <4>2, <4>3
      <3>3. QED
        BY <3>1, <3>2
    <2>7. \A m \in Msgs : Exists(m)' <=> Exists(m)
      BY <1>3, <2>1
    <2>8. fetch' \subseteq Msgs /\ refresh' \subseteq Msgs
      BY <1>1, <2>1, <2>2, <2>4
    <2>9. QED
      BY <2>1, <2>5, <2>6, <2>7, <2>8 DEF Asked
  <1>13. CASE Resurrect \/ WriteStubs \/ WriteBatch
    BY <1>4, <1>13 DEF Resurrect, WriteStubs, WriteBatch
  <1>14. ASSUME NEW m \in Msgs, FetchOne(m) PROVE Asked'
    <2>1. /\ UNCHANGED <<kind, refresh>> /\ pc' = pc /\ pc = "fetch" /\ m \in fetch
          /\ IF again[m] > 0
               THEN again' = [again EXCEPT ![m] = @ - 1] /\ UNCHANGED fetch
               ELSE fetch' = fetch \ {m} /\ UNCHANGED again
      BY <1>14 DEF FetchOne
    <2>2. CASE again[m] > 0
      <3>1. fetch' = fetch /\ \A k \in Msgs : again'[k] > 0 => again[k] > 0
        BY <1>1, <2>1, <2>2
      <3>2. QED
        BY <1>1, <2>1, <3>1 DEF Asked
    <2>3. CASE ~(again[m] > 0)
      <3>1. fetch' = fetch \ {m} /\ again' = again
        BY <2>1, <2>3
      <3>2. QED
        BY <1>1, <2>1, <2>3, <3>1 DEF Asked
    <2>4. QED
      BY <2>2, <2>3
  <1>15. CASE RefreshEnvelopes
    <2>1. PICK S \in Part(refresh, EnvelopeChunk) :
             /\ refresh' = refresh \ {m \in S : again[m] = 0}
             /\ again' = [m \in Msgs |-> IF m \in S /\ again[m] > 0 THEN again[m] - 1 ELSE again[m]]
      BY <1>15 DEF RefreshEnvelopes
    <2>2. UNCHANGED <<kind, fetch>> /\ pc' = "reapply"
      BY <1>15 DEF RefreshEnvelopes
    <2>3. \A k \in Msgs : again'[k] > 0 => again[k] > 0
      BY <1>1, <2>1
    <2>4. \A k \in Msgs : again[k] > 0 /\ k \in refresh => k \in refresh'
      BY <1>1, <2>1
    <2>5. QED
      BY <1>1, <2>1, <2>2, <2>3, <2>4 DEF Asked
  <1>16. CASE FindMissing \/ Reapply
    BY <1>4, <1>16 DEF FindMissing, Reapply
  <1>17. CASE ApplyUpdates
    BY <1>4, <1>17 DEF ApplyUpdates
  <1>18. CASE Drop
    BY <1>4, <1>18 DEF Drop
  <1>19. CASE Advance \/ FinishReconcile \/ SupersedeBackfill
    BY <1>4, <1>19 DEF Advance, FinishReconcile, SupersedeBackfill, plan
  <1>20. CASE SaveCursor
    BY <1>4, <1>20 DEF SaveCursor, plan, Phased
  <1>21. CASE Proceed
    <2>1. /\ pc \in {"refile", "stubs", "fetch", "drop", "refresh", "reapply", "apply"}
          /\ pc' = After(pc) /\ kind \in {"backfill", "delta", "reconcile"} /\ UNCHANGED <<kind, plan>>
      BY <1>21 DEF Proceed, Todo, Phases, TypeOK
    <2>2. pc' # "enum"
      BY <2>1 DEF After, Phased
    <2>3. QED
      BY <1>4, <2>1, <2>2 DEF plan
  <1>22. CASE Abort
    BY <1>22 DEF Abort, Asked
  <1>23. CASE EnsureRawWrite
    BY <1>4, <1>23 DEF EnsureRawWrite, pass, plan
  <1>24. ASSUME NEW m \in Msgs, EnsureRawFetch(m) PROVE Asked'
    BY <1>4, <1>24 DEF EnsureRawFetch, pass, plan
  <1>25. QED
    BY Steps, <1>6, <1>7, <1>8, <1>9, <1>10, <1>11, <1>12, <1>13, <1>14, <1>15, <1>16,
       <1>17, <1>18, <1>19, <1>20, <1>21, <1>22, <1>23, <1>24

\* Every step keeps that no row goes back to an older version.
LEMMA ForwardKept ==
    ASSUME TypeOK, Ledger, Positions, Known, Phased, Stated, Enumerating,
           Undeleted, Asked, Forward, [Next]_vars
    PROVE  Forward'
  <1> DEFINE Young(e) == e.id \notin twice /\ rows[e.id].st = "live" => rows[e.id].ver <= e.ver
             Open(e) == pc = "reapply" \/ rows[e.id].st # "deleted"
             Alone(e) == /\ e.id \notin fetch /\ e.id \notin refresh
                         /\ \A f \in stubs : f.id # e.id
                         /\ \A f \in got : f.id # e.id
             Sole(e) == e.id \notin twice =>
                          e.id \notin fetch /\ \A f \in got : f.id = e.id => f = e
             Goal == /\ \A e \in stubs' : Young(e)' /\ Open(e)'
                     /\ \A e \in got' : Young(e)' /\ Open(e)' /\ Sole(e)'
                     /\ \A e \in updated' : Young(e)' /\ Alone(e)'
  <1>1. SUFFICES ASSUME spent["spoil"] = 0 PROVE Goal
    <2>1. Goal => /\ \A e \in stubs' \cup got' \cup updated' :
                        e.id \notin twice' /\ Live(e.id)' => rows'[e.id].ver <= e.ver
                  /\ \A e \in stubs' \cup got' : pc' = "reapply" \/ rows'[e.id].st # "deleted"
                  /\ \A e \in updated' : e.id \notin fetch' \cup refresh' /\ \A f \in stubs' \cup got' : f.id # e.id
                  /\ \A e \in got' : e.id \notin twice' =>
                        e.id \notin fetch' /\ \A f \in got' : f.id = e.id => f = e
      BY DEF Live
    <2>2. spent'["spoil"] = spent["spoil"]
      BY Unspoiled
    <2>3. spent["spoil"] = 0 => sound' = "yes" /\ clean' = "yes" /\ reader' = NoReader /\ StepsBack'
      BY Unspoiled DEF Forward
    <2>4. QED
      BY <1>1, <2>1, <2>2, <2>3 DEF Forward
  <1>2. /\ sound = "yes" /\ reader = NoReader
        /\ \A e \in stubs : Young(e) /\ Open(e)
        /\ \A e \in got : Young(e) /\ Open(e) /\ Sole(e)
        /\ \A e \in updated : Young(e) /\ Alone(e)
        /\ twice \subseteq twice'
    BY <1>1, TwiceSteps DEF Forward, Live
  <1>3. /\ rows \in [Msgs -> RowType] /\ ver \in [Msgs -> Nat] /\ here \subseteq Msgs
        /\ fetch \subseteq Msgs /\ refresh \subseteq Msgs /\ pc \in Phases
        /\ \A m \in Msgs : rows[m].ver <= ver[m]
        /\ \A e \in stubs \cup got \cup updated : e.id \in Msgs /\ e.ver \in Nat
        /\ \A m \in Msgs : Envelope(m).id = m /\ Envelope(m).ver = ver[m]
    <2>1. \A e \in got \cup updated : e \in [id : Msgs, ver : Nat]
      BY DEF TypeOK
    <2>2. \A e \in stubs : e \in [id : Msgs, ver : Nat, at : Nat]
      BY DEF TypeOK
    <2>3. QED
      BY <2>1, <2>2 DEF TypeOK, RowType, Known, Envelope
  <1>4. CASE UNCHANGED vars \/ Forget
    BY <1>4, <1>2 DEF Forget, vars, index, pass, plan, outer
  <1>5. ASSUME NEW m \in Msgs, Deliver(m) \/ Change(m) \/ Destroy(m) PROVE Goal
    BY <1>5, <1>2 DEF Deliver, Change, Destroy, Journal, index, pass, plan
  <1>6. ASSUME NEW full \in {"no", "full"}, SyncMail(full) PROVE Goal
    <2>1. UNCHANGED <<rows, plan>> /\ pc = "idle"
      BY <1>6 DEF SyncMail
    <2>2. QED
      BY <1>2, <2>1 DEF plan, Phased
  <1>7. CASE BeginBackfill \/ BeginReconcile \/ ReadChanges \/ ReadProfile \/ Advance \/ SaveCursor \/ FinishBackfill \/ FinishReconcile \/ SupersedeBackfill
    <2>1. UNCHANGED <<rows, plan>> /\ pc # "reapply"
      BY <1>7 DEF BeginBackfill, BeginReconcile, ReadChanges, ReadProfile,
         Advance, SaveCursor, FinishBackfill, FinishReconcile, SupersedeBackfill, index
    <2>2. QED
      BY <1>2, <2>1 DEF plan
  <1>8. CASE FindMissing
    BY <1>8, <1>2 DEF FindMissing, index
  <1>9. CASE EnumerateBackfill
    <2>1. updated' = {} /\ got' = {} /\ UNCHANGED rows
      BY <1>9 DEF EnumerateBackfill, Phased, index
    <2>2. \A e \in stubs' : rows[e.id].st = "none"
      <3>1. PICK P : P = PageOf(Rest(cursor)) /\ \A m \in P : m \in Msgs /\ Listed(m).id = m
        BY <1>9, Paged
      <3>2. \A e \in stubs' : \E m \in P : e = Listed(m) /\ rows[m].st = "none"
        BY <1>9, <3>1 DEF EnumerateBackfill, Exists
      <3>3. QED
        BY <3>1, <3>2
    <2>3. QED
      BY <2>1, <2>2
  <1>10. CASE EnumerateReconcile
    <2>1. updated' = {} /\ got' = {} /\ UNCHANGED rows /\ pc # "reapply"
      BY <1>10 DEF EnumerateReconcile, Phased, index
    <2>2. \A e \in stubs' : e \in stubs \/ rows[e.id].st = "none"
      <3>1. PICK P : P = PageOf(Rest(cursor)) /\ \A m \in P : m \in Msgs /\ Listed(m).id = m
        BY <1>10, Paged
      <3>2. \A e \in stubs' : e \in stubs \/ \E m \in P : e = Listed(m) /\ rows[m].st = "none"
        BY <1>10, <3>1 DEF EnumerateReconcile, Exists
      <3>3. QED
        BY <3>1, <3>2
    <2>3. QED
      BY <1>2, <2>1, <2>2
  <1>11. CASE ReadEnvelopes
    <2> DEFINE gone == Window("destroyed")
               new == Window("created") \ gone
               touched == Window("updated") \ (gone \cup new)
               added == IF Thin THEN new ELSE new \cap here
               changed == touched \cap here
               large == {m \in added : Oversize(m) \/ (Exists(m) /\ rows[m].raw = "stub")}
    <2>1. /\ got' = {} /\ UNCHANGED rows
          /\ stubs' = {Listed(m) : m \in {k \in large : ~Exists(k)}}
          /\ fetch' = (added \ large) \cup {m \in changed : ~Exists(m)}
          /\ refresh' = IF Thin THEN {m \in large : Exists(m)} ELSE {}
          /\ updated' = {Envelope(m) : m \in {k \in changed : Exists(k)} \cup
                           (IF Thin THEN {} ELSE {k \in large : Exists(k)})}
      BY <1>11 DEF ReadEnvelopes, Phased, index
    <2>2. /\ large \subseteq added /\ added \subseteq new /\ changed \cap new = {}
          /\ changed \subseteq here
      OBVIOUS
    <2>3. new \subseteq Msgs /\ changed \subseteq Msgs
      <3>1. state # NoState
        BY <1>11 DEF ReadEnvelopes, Phased, Stated
      <3>2. Window("created") \subseteq Msgs /\ Window("updated") \subseteq Msgs
        BY <3>1, WindowIds
      <3>3. QED
        BY <3>2
    <2> HIDE DEF gone, new, touched, added, changed, large
    <2>4. ASSUME NEW e \in stubs' PROVE rows[e.id].st = "none"
      <3>1. PICK m \in large : ~Exists(m) /\ e = Listed(m)
        BY <2>1
      <3>2. e.id = m
        BY <3>1 DEF Listed
      <3>3. QED
        BY <3>1, <3>2 DEF Exists
    <2>5. ASSUME NEW e \in updated' PROVE Young(e)' /\ Alone(e)'
      <3>1. PICK m \in Msgs : /\ e = Envelope(m) /\ Exists(m)
                              /\ m \in changed \/ (m \in large /\ ~Thin)
        BY <2>1, <2>2, <2>3
      <3>2. e.id = m /\ e.ver = ver[m] /\ rows[m].ver <= ver[m] /\ rows[m].st # "none"
        BY <1>3, <3>1 DEF Exists
      <3>3. m \notin fetch' /\ m \notin refresh'
        BY <2>1, <2>2, <3>1
      <3>4. \A f \in stubs' : f.id # m
        BY <2>4, <3>2
      <3>5. QED
        BY <2>1, <3>2, <3>3, <3>4
    <2>6. QED
      BY <2>1, <2>4, <2>5
  <1>12. CASE Resurrect
    <2>1. refile # {}
      BY <1>12 DEF Resurrect
    <2>2. QED
      BY <1>2, <2>1 DEF Undeleted
  <1>13. CASE WriteStubs
    <2>1. PICK S : /\ S \subseteq stubs /\ Filed(S) /\ stubs' = stubs \ S
                   /\ \A e \in S, f \in stubs \ S : e.id = f.id => e.ver <= f.ver
      <3>1. PICK S \in Chunk(stubs, IF kind = "delta" THEN 1 ELSE IndexBatch) : UpsertStub(S) /\ stubs' = stubs \ S
        BY <1>13 DEF WriteStubs
      <3>2. S \subseteq stubs /\ \A e \in S, f \in stubs \ S : e.id = f.id => e.ver <= f.ver
        BY DEF Chunk, Part
      <3>3. Filed(S)
        BY <3>1, <3>2, RowEffects
      <3>4. QED
        BY <3>1, <3>2, <3>3
    <2>2. got = {} /\ UNCHANGED <<got, updated, fetch, refresh>>
      BY <1>13 DEF WriteStubs, Phased
    <2>3. ASSUME NEW e \in stubs' PROVE Young(e)' /\ Open(e)'
      <3>1. e \in stubs /\ e \notin S /\ e.id \in Msgs /\ e.ver \in Nat
        BY <1>3, <2>1
      <3>2. CASE e.id \in Ids(S)
        <4>1. rows'[e.id].st = "live" /\ \E f \in S : f.id = e.id /\ rows'[e.id].ver = f.ver
          BY <2>1, <3>1, <3>2 DEF Filed
        <4>2. PICK f \in S : f.id = e.id /\ rows'[e.id].ver = f.ver
          BY <4>1
        <4>3. f.ver <= e.ver /\ f.ver \in Nat
          BY <1>3, <2>1, <3>1, <4>2
        <4>4. QED
          BY <3>1, <4>1, <4>2, <4>3
      <3>3. CASE e.id \notin Ids(S)
        <4>1. rows'[e.id] = rows[e.id]
          BY <2>1, <3>1, <3>3 DEF Filed
        <4>2. Young(e) /\ Open(e) /\ pc # "reapply"
          BY <1>2, <1>13, <3>1 DEF WriteStubs
        <4>3. QED
          BY <1>2, <4>1, <4>2
      <3>4. QED
        BY <3>2, <3>3
    <2>4. ASSUME NEW e \in updated' PROVE Young(e)' /\ Alone(e)'
      <3>1. e \in updated /\ Young(e) /\ Alone(e) /\ e.id \in Msgs
        BY <1>2, <1>3, <2>2
      <3>2. e.id \notin Ids(S)
        BY <2>1, <3>1 DEF Ids
      <3>3. rows'[e.id] = rows[e.id]
        BY <2>1, <3>1, <3>2 DEF Filed
      <3>4. QED
        BY <1>2, <2>1, <2>2, <3>1, <3>3
    <2>5. QED
      BY <2>2, <2>3, <2>4
  <1>14. CASE WriteBatch
    <2>1. PICK S : S \subseteq got /\ Filed(S) /\ got' = got \ S
      BY <1>14, Batch
    <2>2. stubs = {} /\ UNCHANGED <<stubs, updated, fetch, refresh>>
      BY <1>14 DEF WriteBatch, Phased
    <2>3. ASSUME NEW e \in got' PROVE Young(e)' /\ Open(e)' /\ Sole(e)'
      <3>1. e \in got /\ e \notin S /\ e.id \in Msgs /\ Sole(e)
        BY <1>2, <1>3, <2>1
      <3>2. Sole(e)'
        BY <1>2, <2>1, <2>2, <3>1
      <3>3. CASE e.id \in Ids(S)
        <4>1. rows'[e.id].st = "live"
          BY <2>1, <3>1, <3>3 DEF Filed
        <4>2. PICK f \in S : f.id = e.id
          BY <3>3 DEF Ids
        <4>3. e.id \in twice
          BY <2>1, <3>1, <4>2
        <4>4. QED
          BY <1>2, <3>2, <4>1, <4>3
      <3>4. CASE e.id \notin Ids(S)
        <4>1. rows'[e.id] = rows[e.id]
          BY <2>1, <3>1, <3>4 DEF Filed
        <4>2. Young(e) /\ Open(e) /\ pc # "reapply"
          BY <1>2, <1>14, <3>1 DEF WriteBatch
        <4>3. QED
          BY <1>2, <3>2, <4>1, <4>2
      <3>5. QED
        BY <3>3, <3>4
    <2>4. ASSUME NEW e \in updated' PROVE Young(e)' /\ Alone(e)'
      <3>1. e \in updated /\ Young(e) /\ Alone(e) /\ e.id \in Msgs
        BY <1>2, <1>3, <2>2
      <3>2. e.id \notin Ids(S)
        BY <2>1, <3>1 DEF Ids
      <3>3. rows'[e.id] = rows[e.id]
        BY <2>1, <3>1, <3>2 DEF Filed
      <3>4. QED
        BY <1>2, <2>1, <2>2, <3>1, <3>3
    <2>5. QED
      BY <2>2, <2>3, <2>4
  <1>15. ASSUME NEW m \in Msgs, FetchOne(m) PROVE Goal
    <2>1. /\ UNCHANGED <<rows, stubs, refresh, updated, pc>> /\ pc = "fetch"
          /\ m \in fetch /\ fetch' \subseteq fetch
          /\ again[m] = 0 => fetch' = fetch \ {m}
          /\ m \in here => got' = got \cup {Envelope(m)}
          /\ m \notin here => got' = got
      BY <1>15 DEF FetchOne, index
    <2>2. m \in here => rows[m].st # "deleted" /\ rows[m].ver <= ver[m]
      BY <1>2, <1>3 DEF Undeleted
    <2>3. m \notin twice => m \notin fetch' /\ \A f \in got : f.id # m
      <3>1. m \notin twice => again[m] = 0
        BY <2>1 DEF Asked, TypeOK
      <3>2. QED
        BY <1>2, <2>1, <3>1
    <2>4. \A e \in got' : Sole(e)'
      BY <1>2, <1>3, <2>1, <2>3
    <2>5. QED
      BY <1>2, <1>3, <2>1, <2>2, <2>4
  <1>16. CASE RefreshEnvelopes
    <2>1. /\ UNCHANGED <<rows, stubs, fetch, updated>> /\ pc' = "reapply" /\ stubs = {}
          /\ refresh' \subseteq refresh /\ fetch = {}
      BY <1>16 DEF RefreshEnvelopes, index, Phased
    <2>2. \A e \in got' : \E m \in refresh : e = Envelope(m)
      BY <1>16 DEF RefreshEnvelopes, Part
    <2>3. \A e \in got' : e.id \in refresh /\ rows[e.id].ver <= e.ver
      BY <1>3, <2>2
    <2>4. \A e \in got' : Sole(e)'
      BY <1>3, <2>1, <2>2
    <2>5. QED
      BY <1>2, <2>1, <2>3, <2>4
  <1>17. CASE Reapply
    <2>1. Applied(got)
      BY <1>17, RowEffects DEF Reapply
    <2>2. got' = {} /\ stubs' = {} /\ UNCHANGED <<updated, fetch, refresh>>
      BY <1>17 DEF Reapply, Phased
    <2>3. ASSUME NEW e \in updated PROVE rows'[e.id] = rows[e.id]
      <3>1. e.id \in Msgs /\ Alone(e)
        BY <1>2, <1>3
      <3>2. e.id \notin Ids(got)
        BY <3>1 DEF Ids
      <3>3. QED
        BY <2>1, <3>1, <3>2 DEF Applied
    <2>4. QED
      BY <1>2, <2>2, <2>3
  <1>18. CASE ApplyUpdates
    <2>1. PICK S : /\ S \subseteq updated /\ Applied(S) /\ updated' = updated \ S
                   /\ \A e \in S, f \in updated \ S : e.id = f.id => e.ver <= f.ver
      <3>1. PICK S \in Chunk(updated, IndexBatch) : ApplyRemoteState(S) /\ updated' = updated \ S
        BY <1>18 DEF ApplyUpdates
      <3>2. S \subseteq updated /\ \A e \in S, f \in updated \ S : e.id = f.id => e.ver <= f.ver
        BY DEF Chunk, Part
      <3>3. Applied(S)
        BY <3>1, <3>2, RowEffects
      <3>4. QED
        BY <3>1, <3>2, <3>3
    <2>2. stubs' = {} /\ got' = {} /\ UNCHANGED <<fetch, refresh>>
      BY <1>18 DEF ApplyUpdates, Phased
    <2>3. ASSUME NEW e \in updated' PROVE Young(e)'
      <3>1. e \in updated /\ e \notin S /\ e.id \in Msgs /\ e.ver \in Nat /\ Young(e)
        BY <1>2, <1>3, <2>1
      <3>2. CASE e.id \in Ids(S) /\ Exists(e.id)
        <4>1. PICK f \in S : f.id = e.id /\ rows'[e.id].ver = f.ver
          BY <2>1, <3>1, <3>2 DEF Applied
        <4>2. f.ver <= e.ver /\ f.ver \in Nat
          BY <1>3, <2>1, <3>1, <4>1
        <4>3. QED
          BY <3>1, <4>1, <4>2
      <3>3. CASE ~(e.id \in Ids(S) /\ Exists(e.id))
        BY <1>2, <2>1, <3>1, <3>3 DEF Applied
      <3>4. QED
        BY <3>2, <3>3
    <2>4. QED
      BY <1>2, <2>1, <2>2, <2>3
  <1>19. CASE Drop
    BY <1>19, <1>2 DEF Drop, Phased
  <1>20. CASE Proceed
    <2>1. UNCHANGED <<rows, plan>>
      BY <1>20 DEF Proceed, index
    <2>2. pc = "reapply" => got = {} /\ stubs = {}
      BY <1>20 DEF Proceed, Todo, Phased
    <2>3. QED
      BY <1>2, <2>1, <2>2 DEF plan
  <1>21. CASE Abort
    BY <1>21, <1>2 DEF Abort
  <1>22. CASE EnsureRawWrite
    BY <1>22, <1>2 DEF EnsureRawWrite
  <1>23. ASSUME NEW m \in Msgs, EnsureRawFetch(m) PROVE Goal
    BY <1>23, <1>2 DEF EnsureRawFetch, index, pass, plan
  <1>24. QED
    BY Steps, <1>4, <1>5, <1>6, <1>7, <1>8, <1>9, <1>10, <1>11, <1>12, <1>13, <1>14,
       <1>15, <1>16, <1>17, <1>18, <1>19, <1>20, <1>21, <1>22, <1>23

\* Which steps change what is archived of a message.
LEMMA RawSteps ==
    ASSUME TypeOK, Ledger, Known, [Next]_vars
    PROVE  \A m \in Msgs :
             /\ \/ rows'[m].raw = rows[m].raw
                \/ rows'[m].raw = "full" /\ rows'[m].st = "live" /\
                     (WriteBatch \/ (EnsureRawWrite /\ m = reader.id))
                \/ WriteStubs /\ rows'[m].raw = "stub" /\ m \in Ids(stubs)
             /\ rows'[m].st = "none" => rows'[m] = rows[m]
  <1> DEFINE G(m) == /\ \/ rows'[m].raw = rows[m].raw
                        \/ rows'[m].raw = "full" /\ rows'[m].st = "live" /\
                             (WriteBatch \/ (EnsureRawWrite /\ m = reader.id))
                        \/ WriteStubs /\ rows'[m].raw = "stub" /\ m \in Ids(stubs)
                     /\ rows'[m].st = "none" => rows'[m] = rows[m]
  <1>1. CASE \E S : Revived(S) \/ Dropped(S)
    BY <1>1 DEF Revived, Dropped
  <1>2. CASE \E S : Applied(S)
    BY <1>2 DEF Applied, Exists
  <1>3. CASE WriteStubs
    <2>1. PICK S \in Chunk(stubs, IF kind = "delta" THEN 1 ELSE IndexBatch) : UpsertStub(S)
      BY <1>3 DEF WriteStubs
    <2>2. \A m \in Ids(S) : m \in Ids(stubs)
      BY DEF Chunk, Part, Ids
    <2>3. ASSUME NEW m \in Msgs PROVE G(m)
      <3>1. m \in Ids(S) => rows'[m] = [st |-> "live", raw |-> "stub", ver |-> OfId(S, m).ver]
        BY <2>1 DEF UpsertStub
      <3>2. m \notin Ids(S) => rows'[m] = rows[m]
        BY <2>1 DEF UpsertStub
      <3>3. QED
        BY <1>3, <2>2, <3>1, <3>2
    <2>4. QED
      BY <2>3
  <1>4. CASE WriteBatch
    <2>1. PICK S : \E T \in Lasts(S) : UpsertMessage(T)
      BY <1>4 DEF WriteBatch
    <2> PICK T \in Lasts(S) : UpsertMessage(T)
      BY <2>1
    <2>2. ASSUME NEW m \in Msgs PROVE G(m)
      <3>1. m \in Ids(T) => rows'[m] = [st |-> "live", raw |-> "full", ver |-> OfId(T, m).ver]
        BY <2>1 DEF UpsertMessage
      <3>2. m \notin Ids(T) => rows'[m] = rows[m]
        BY <2>1 DEF UpsertMessage
      <3>3. QED
        BY <1>4, <3>1, <3>2
    <2>3. QED
      BY <2>2
  <1>5. CASE EnsureRawWrite
    <2>1. CASE reader.ver = 0
      <3>1. Dropped({reader.id})
        BY <1>5, <2>1, ReaderRows
      <3>2. QED
        BY <1>1, <3>1
    <2>2. CASE reader.ver # 0
      <3>1. /\ rows'[reader.id] = [st |-> "live", raw |-> "full", ver |-> reader.ver]
            /\ \A m \in Msgs : m # reader.id => rows'[m] = rows[m]
        BY <1>5, <2>2, ReaderRows
      <3>2. rows'[reader.id].st = "live" /\ rows'[reader.id].raw = "full"
        BY <3>1
      <3>3. QED
        BY <1>5, <3>1, <3>2
    <2>3. QED
      BY <2>1, <2>2
  <1>6. QED
    BY RowSteps, <1>1, <1>2, <1>3, <1>4, <1>5

\* Which steps plan stubs, and which add to what a reconcile was told of.
LEMMA StubSteps ==
    ASSUME TypeOK, Phased, [Next]_vars
    PROVE  /\ stubs' \subseteq stubs \/ EnumerateBackfill \/ EnumerateReconcile \/ ReadEnvelopes
           /\ pc' = "enum" /\ kind' = "reconcile" =>
                \/ BeginReconcile \/ EnumerateReconcile
                \/ pc = "enum" /\ kind = "reconcile" /\ UNCHANGED remote
  <1> DEFINE All == /\ stubs' \subseteq stubs \/ EnumerateBackfill \/ EnumerateReconcile \/ ReadEnvelopes
                    /\ pc' = "enum" /\ kind' = "reconcile" =>
                         \/ BeginReconcile \/ EnumerateReconcile
                         \/ pc = "enum" /\ kind = "reconcile" /\ UNCHANGED remote
  <1>1. CASE UNCHANGED vars \/ Forget
    BY <1>1 DEF Forget, vars, pass, plan
  <1>2. ASSUME NEW m \in Msgs, Deliver(m) \/ Change(m) \/ Destroy(m) PROVE All
    BY <1>2 DEF Deliver, Change, Destroy, Journal, pass, plan
  <1>3. ASSUME NEW full \in {"no", "full"}, SyncMail(full) PROVE All
    BY <1>3 DEF SyncMail, pass, plan
  <1>4. CASE BeginBackfill \/ BeginReconcile
    BY <1>4 DEF BeginBackfill, BeginReconcile, Phased, pass, plan
  <1>5. CASE ReadChanges \/ ReadProfile
    BY <1>5 DEF ReadChanges, ReadProfile, Phased, pass, plan
  <1>6. CASE Resurrect \/ WriteStubs \/ WriteBatch
    BY <1>6 DEF Resurrect, WriteStubs, WriteBatch, Phased, pass, plan
  <1>7. CASE FindMissing \/ RefreshEnvelopes \/ Reapply
    BY <1>7 DEF FindMissing, RefreshEnvelopes, Reapply, Phased, pass, plan
  <1>8. CASE ApplyUpdates \/ Drop \/ Advance
    BY <1>8 DEF ApplyUpdates, Drop, Advance, Phased, pass, plan
  <1>9. CASE SaveCursor \/ FinishBackfill
    BY <1>9 DEF SaveCursor, FinishBackfill, Phased, pass, plan
  <1>10. CASE FinishReconcile \/ SupersedeBackfill
    BY <1>10 DEF FinishReconcile, SupersedeBackfill, Phased, pass, plan
  <1>11. CASE Abort
    BY <1>11 DEF Abort, Phased, pass, plan
  <1>12. CASE Proceed
    <2>1. /\ pc \in {"refile", "stubs", "fetch", "drop", "refresh", "reapply", "apply"}
          /\ pc' = After(pc) /\ kind \in {"backfill", "delta", "reconcile"} /\ UNCHANGED stubs
      BY <1>12 DEF Proceed, Todo, Phases, TypeOK, plan
    <2>2. pc' # "enum"
      BY <2>1 DEF After, Phased
    <2>3. QED
      BY <2>1, <2>2
  <1>13. CASE EnumerateBackfill
    <2>1. pc' = "refile"
      BY <1>13 DEF EnumerateBackfill
    <2>2. QED
      BY <1>13, <2>1
  <1>14. CASE ReadEnvelopes
    <2>1. pc' = "stubs"
      BY <1>14 DEF ReadEnvelopes
    <2>2. QED
      BY <1>14, <2>1
  <1>15. CASE EnumerateReconcile
    BY <1>15
  <1>16. ASSUME NEW m \in Msgs, FetchOne(m) PROVE All
    BY <1>16 DEF FetchOne, pass, plan
  <1>17. CASE EnsureRawWrite
    BY <1>17 DEF EnsureRawWrite, pass, plan
  <1>18. ASSUME NEW m \in Msgs, EnsureRawFetch(m) PROVE All
    BY <1>18 DEF EnsureRawFetch, pass, plan
  <1>19. QED
    BY Steps, <1>1, <1>2, <1>3, <1>4, <1>5, <1>6, <1>7, <1>8, <1>9, <1>10, <1>11, <1>12,
       <1>13, <1>14, <1>15, <1>16, <1>17, <1>18

\* Every step keeps that a stub is planned for a row that is not there, unless its
\* message was listed twice.
LEMMA BareKept ==
    ASSUME TypeOK, Ledger, Positions, Known, Phased, Stated, Enumerating,
           Bare, [Next]_vars
    PROVE  Bare'
  <1>1. /\ Thin' <=> Thin
        /\ twice \subseteq twice'
        /\ \A e \in stubs : e.id \in Msgs
    <2>1. \A e \in stubs : e \in [id : Msgs, ver : Nat, at : Nat]
      BY DEF TypeOK
    <2>2. QED
      BY <2>1, Downloads, TwiceSteps DEF Thin
  <1>2. /\ \A m \in Msgs : rows[m].st = "none" => rows[m].raw = "stub"
        /\ \A e \in stubs : ~Thin
        /\ \A e \in stubs : e.id \notin twice =>
             rows[e.id].st = "none" /\ \A f \in stubs : f.id = e.id => f = e
        /\ kind = "reconcile" /\ pc = "enum" => Ids(stubs) \subseteq remote
    BY DEF Bare, Exists
  <1>3. \A m \in Msgs : rows'[m].st = "none" => rows'[m].raw = "stub"
    BY <1>2, RawSteps
  <1>4. SUFFICES /\ \A e \in stubs' : ~Thin
                 /\ \A e \in stubs' : e.id \notin twice' =>
                      rows'[e.id].st = "none" /\ \A f \in stubs' : f.id = e.id => f = e
                 /\ kind' = "reconcile" /\ pc' = "enum" => Ids(stubs') \subseteq remote'
    BY <1>1, <1>3 DEF Bare, Exists, Ids
  <1>5. CASE stubs' \subseteq stubs
    <2>1. ASSUME NEW e \in stubs', e.id \notin twice'
          PROVE  rows'[e.id].st = "none" /\ \A f \in stubs' : f.id = e.id => f = e
      <3>1. /\ e \in stubs /\ e.id \in Msgs /\ rows[e.id].st = "none"
            /\ \A f \in stubs : f.id = e.id => f = e
        BY <1>1, <1>2, <1>5, <2>1
      <3>2. CASE WriteStubs
        <4>1. PICK S \in Chunk(stubs, IF kind = "delta" THEN 1 ELSE IndexBatch) :
                 UpsertStub(S) /\ stubs' = stubs \ S
          BY <3>2 DEF WriteStubs
        <4>2. S \subseteq stubs /\ e \notin S
          BY <4>1 DEF Chunk, Part
        <4>3. e.id \notin Ids(S)
          BY <3>1, <4>2 DEF Ids
        <4>4. rows'[e.id] = rows[e.id]
          BY <3>1, <4>1, <4>3 DEF UpsertStub
        <4>5. QED
          BY <1>5, <3>1, <4>4
      <3>3. CASE ~WriteStubs
        <4>1. ~WriteBatch
          BY <3>1 DEF WriteBatch, Phased
        <4>2. QED
          BY <1>5, <3>1, <3>3, <4>1, RowsKnown DEF Exists
      <3>4. QED
        BY <3>2, <3>3
    <2>2. ASSUME kind' = "reconcile", pc' = "enum" PROVE Ids(stubs') \subseteq remote'
      <3>1. Ids(stubs') \subseteq Ids(stubs)
        BY <1>5 DEF Ids
      <3>2. BeginReconcile => Ids(stubs) = {}
        BY DEF BeginReconcile, Phased, Ids
      <3>3. EnumerateReconcile => pc = "enum" /\ kind = "reconcile" /\ remote \subseteq remote'
        BY DEF EnumerateReconcile
      <3>4. QED
        BY <1>2, <2>2, <3>1, <3>2, <3>3, StubSteps
    <2>3. QED
      BY <1>2, <1>5, <2>1, <2>2
  <1>6. CASE EnumerateBackfill
    <2>1. UNCHANGED rows /\ pc' # "enum"
      BY <1>6 DEF EnumerateBackfill, index
    <2>2. PICK P : P = PageOf(Rest(cursor)) /\ \A m \in P : m \in Msgs /\ Listed(m).id = m
      BY <1>6, Paged
    <2>3. \A e \in stubs' : \E m \in P : e = Listed(m) /\ rows[m].st = "none" /\ ~Thin
      BY <1>6, <2>2 DEF EnumerateBackfill, Exists, Oversize
    <2>4. /\ \A e \in stubs' : rows[e.id].st = "none" /\ ~Thin
          /\ \A e, f \in stubs' : e.id = f.id => e = f
      BY <2>2, <2>3
    <2>5. QED
      BY <2>1, <2>4
  <1>7. CASE EnumerateReconcile
    <2>1. UNCHANGED rows /\ kind = "reconcile" /\ pc = "enum"
      BY <1>7 DEF EnumerateReconcile, index
    <2>2. PICK P : P = PageOf(Rest(cursor)) /\ \A m \in P : m \in Msgs /\ Listed(m).id = m
      BY <1>7, Paged
    <2>3. /\ \A e \in stubs' : e \in stubs \/ \E m \in P : e = Listed(m) /\ rows[m].st = "none" /\ ~Thin
          /\ remote' = remote \cup P
          /\ \A m \in P \cap remote : rows[m].st = "none" => m \in twice'
      BY <1>7, <2>2 DEF EnumerateReconcile, Exists, Oversize
    <2>4. /\ \A e \in stubs : e.id \in remote
          /\ \A e \in stubs' : ~Thin /\ e.id \in remote'
      BY <1>2, <2>1, <2>2, <2>3 DEF Ids
    <2>5. ASSUME NEW e \in stubs', e.id \notin twice'
          PROVE  rows'[e.id].st = "none" /\ \A f \in stubs' : f.id = e.id => f = e
      <3>1. CASE e \in stubs
        <4>1. rows[e.id].st = "none" /\ (\A f \in stubs : f.id = e.id => f = e) /\ e.id \in remote
          BY <1>1, <1>2, <2>4, <2>5, <3>1
        <4>2. e.id \notin P
          BY <2>3, <2>5, <4>1
        <4>3. QED
          BY <2>1, <2>2, <2>3, <4>1, <4>2
      <3>2. CASE e \notin stubs
        <4>1. e.id \in P /\ e = Listed(e.id) /\ rows[e.id].st = "none"
          BY <2>2, <2>3, <3>2
        <4>2. e.id \notin remote
          BY <2>3, <2>5, <4>1
        <4>3. QED
          BY <2>1, <2>2, <2>3, <2>4, <4>1, <4>2
      <3>3. QED
        BY <3>1, <3>2
    <2>6. QED
      BY <2>4, <2>5 DEF Ids
  <1>8. CASE ReadEnvelopes
    <2>1. UNCHANGED rows /\ pc' # "enum"
      BY <1>8 DEF ReadEnvelopes, index
    <2>2. \A e \in stubs' : \E m \in Window("created") : e = Listed(m) /\ rows[m].st = "none" /\ ~Thin
      BY <1>8 DEF ReadEnvelopes, Exists, Oversize
    <2>3. \A m : Listed(m).id = m
      BY DEF Listed
    <2>4. /\ \A e \in stubs' : rows[e.id].st = "none" /\ ~Thin
          /\ \A e, f \in stubs' : e.id = f.id => e = f
      BY <2>2, <2>3
    <2>5. QED
      BY <2>1, <2>4
  <1>9. QED
    BY StubSteps, <1>5, <1>6, <1>7, <1>8

-----------------------------------------------------------------------------
(* The index is a copy of the account.                                     *)

\* Where a message is in its history, and how far the index has followed it.
LEMMA Histories ==
    ASSUME TypeOK, Ledger, Known
    PROVE  /\ Last \in Nat /\ DOMAIN Truth = Msgs /\ DOMAIN Copy = Msgs
           /\ \A m \in Msgs : /\ Truth[m] \in 0..Last /\ Copy[m] \in 0..Last /\ ver[m] < Last
                              /\ ver[m] \in Nat /\ rows[m].ver \in Nat
                              /\ rows[m].ver <= Truth[m]
  <1>1. Last \in Nat /\ MaxLog \in Nat /\ Len(log) \in Nat /\ Last = MaxLog + 2
    BY ListAssumption, Entries DEF Last
  <1>2. \A m \in Msgs : ver[m] \in Nat /\ rows[m].ver \in Nat /\ rows[m].ver <= ver[m]
    BY DEF TypeOK, Known
  <1>3. \A m \in Msgs : ver[m] <= Len(log) + 1 /\ Len(log) <= MaxLog
    BY DEF Ledger
  <1>4. \A m \in Msgs : ver[m] < Last /\ rows[m].ver < Last
    BY <1>1, <1>2, <1>3
  <1>5. QED
    BY <1>1, <1>2, <1>4 DEF Truth, Copy

\* The provider moves one item of the abstract copy on, by its own steps.
LEMMA MovesOn ==
    ASSUME IInv, IInv', NEW m \in Msgs, Deliver(m) \/ Change(m) \/ Destroy(m)
    PROVE  Account!Move(m)
  <1>1. TypeOK /\ Ledger /\ Known /\ TypeOK' /\ Ledger' /\ Known'
    BY DEF IInv
  <1>2. /\ \A k \in Msgs : Truth[k] = IF k \in here \/ ver[k] = 0 THEN ver[k] ELSE Last
        /\ \A k \in Msgs : Truth'[k] = IF k \in here' \/ ver'[k] = 0 THEN ver'[k] ELSE Last
        /\ DOMAIN Truth = Msgs /\ DOMAIN Truth' = Msgs
        /\ Truth = [k \in Msgs |-> Truth[k]] /\ Truth' = [k \in Msgs |-> Truth'[k]]
    BY DEF Truth
  <1>3. /\ \A k \in Msgs \ {m} : ver'[k] = ver[k] /\ (k \in here' <=> k \in here)
        /\ UNCHANGED <<rows, twice>>
    BY <1>1, Moves DEF index
  <1>4. spent'["spoil"] = spent["spoil"]
    <2>1. [Next]_vars
      BY DEF Next, Provider
    <2>2. QED
      BY <1>1, <2>1, Unspoiled
  <1>5. Copy' = Copy
    BY <1>3, <1>4 DEF Copy, Live, Exists
  <1>6. Truth'[m] \in Truth[m] + 1 .. Last
    <2>1. /\ ver[m] \in Nat /\ ver[m] < Last /\ Last \in Nat /\ (m \in here => ver[m] > 0)
      BY <1>1, Histories DEF Ledger
    <2>2. ver'[m] \in Nat /\ ver'[m] < Last
      <3>1. ver'[m] <= Len(log) + 2 /\ ver'[m] \in Nat /\ Len(log) < MaxLog
        BY <1>1, Moves
      <3>2. Len(log) \in Nat /\ MaxLog \in Nat
        BY <1>1, Entries, ListAssumption
      <3>3. ver'[m] <= Len(log') + 1 /\ Len(log') <= MaxLog /\ Len(log') = Len(log) + 1
        BY <1>1, Moves DEF Ledger
      <3>4. QED
        BY <3>1, <3>2, <3>3 DEF Last
    <2>3. CASE Deliver(m)
      <3>1. ver[m] = 0 /\ ver'[m] = 1
        BY <1>1, <2>3 DEF Deliver, TypeOK
      <3>2. QED
        BY <1>2, <2>1, <2>2, <2>3, <3>1 DEF Deliver
    <2>4. CASE Change(m)
      <3>1. m \in here /\ m \in here' /\ ver'[m] = ver[m] + 1
        BY <1>1, <2>4 DEF Change, TypeOK
      <3>2. QED
        BY <1>2, <2>1, <2>2, <3>1
    <2>5. CASE Destroy(m)
      <3>1. m \in here /\ m \notin here' /\ ver'[m] = ver[m]
        BY <2>5 DEF Destroy
      <3>2. QED
        BY <1>2, <2>1, <3>1
    <2>6. QED
      BY <2>3, <2>4, <2>5
  <1>7. Truth' = [Truth EXCEPT ![m] = Truth'[m]]
    <2>1. \A k \in Msgs \ {m} : Truth'[k] = Truth[k]
      BY <1>2, <1>3
    <2>2. QED
      BY <1>2, <2>1
  <1>8. QED
    BY <1>5, <1>6, <1>7 DEF Account!Move

\* What a step writes into the index is as new as what was there, and no newer than
\* the message.
LEMMA CatchesUp ==
    ASSUME IInv, IInv', Forward, spent["spoil"] \in {0, 1}, [Next]_vars,
           UNCHANGED <<here, ver, log>>
    PROVE  Account!Follow
  <1>1. /\ TypeOK /\ Ledger /\ Known /\ TypeOK' /\ Ledger' /\ Known'
        /\ Dropping /\ Undeleted
    BY DEF IInv
  <1>2. Truth' = Truth /\ spent'["spoil"] = spent["spoil"]
    BY <1>1, Unspoiled DEF Truth, Last
  <1>3. Last' = Last /\ Copy' = [m \in Msgs |-> Copy'[m]] /\ DOMAIN Copy' = Msgs
    BY DEF Last, Copy
  <1>4. /\ Last \in Nat
        /\ \A m \in Msgs : /\ Truth[m] \in 0..Last /\ Copy[m] \in 0..Last
                           /\ rows[m].ver \in Nat /\ rows[m].ver <= Truth[m]
                           /\ rows[m].ver <= ver[m] /\ ver[m] \in Nat /\ ver[m] < Last
    <2>1. \A m \in Msgs : rows[m].ver <= ver[m]
      BY <1>1 DEF Known
    <2>2. QED
      BY <1>1, <2>1, Histories
  <1>5. \A m \in Msgs : /\ Copy'[m] \in 0..Last /\ rows'[m].ver \in Nat
                        /\ rows'[m].ver <= Truth[m] /\ rows'[m].ver < Last
    <2>1. \A m \in Msgs : /\ rows'[m].ver \in Nat /\ rows'[m].ver <= ver[m]
                          /\ ver[m] \in Nat /\ ver[m] < Last /\ Last \in Nat
      BY <1>1, <1>4 DEF TypeOK, Known
    <2>2. \A m \in Msgs : rows'[m].ver < Last
      BY <2>1
    <2>3. \A m \in Msgs : Truth[m] = ver[m] \/ Truth[m] = Last
      BY DEF Truth
    <2>4. \A m \in Msgs : Copy'[m] = 0 \/ Copy'[m] = Last \/ Copy'[m] = rows'[m].ver
      BY <1>3 DEF Copy
    <2>5. QED
      BY <2>1, <2>2, <2>3, <2>4
  <1>6. ASSUME NEW m \in Msgs PROVE Copy'[m] \in Copy[m] .. Truth[m]
    <2>1. /\ spent["spoil"] = 1 \/ m \in twice => Copy[m] = 0
          /\ spent["spoil"] = 1 \/ m \in twice' => Copy'[m] = 0
          /\ spent["spoil"] = 0 /\ m \notin twice =>
               /\ rows[m].st = "live" => Copy[m] = rows[m].ver
               /\ rows[m].st = "none" => Copy[m] = 0
               /\ rows[m].st = "deleted" => Copy[m] = Last
          /\ spent["spoil"] = 0 /\ m \notin twice' =>
               /\ rows'[m].st = "live" => Copy'[m] = rows'[m].ver
               /\ rows'[m].st = "none" => Copy'[m] = 0
               /\ rows'[m].st = "deleted" => Copy'[m] = Last
      BY <1>2, <1>3 DEF Copy, Live, Exists
    <2>2. CASE spent["spoil"] = 1
      BY <1>4, <2>1, <2>2
    <2>3. CASE m \in twice'
      <3>1. Copy'[m] = 0 /\ Copy[m] = 0
        BY <1>1, <2>1, <2>3, TwiceSteps DEF Exists, TypeOK
      <3>2. QED
        BY <1>4, <3>1
    <2>4. CASE spent["spoil"] = 0 /\ m \notin twice'
      <3>1. /\ m \notin twice /\ sound = "yes" /\ clean = "yes" /\ reader = NoReader
            /\ \A e \in stubs \cup got : pc = "reapply" \/ rows[e.id].st # "deleted"
            /\ \A e \in stubs \cup got \cup updated :
                 e.id = m /\ rows[m].st = "live" => rows[m].ver <= e.ver
        <4>1. m \notin twice
          BY <1>1, <2>4, TwiceSteps
        <4>2. QED
          BY <2>4, <4>1 DEF Forward, Live
      <3>2. /\ Truth[m] \in 0..Last /\ Copy[m] \in 0..Last /\ Last \in Nat
            /\ rows[m].ver \in Nat /\ rows'[m].ver \in Nat
            /\ rows'[m].ver <= Truth[m]
            /\ rows[m].st \in {"none", "live", "deleted"}
        BY <1>1, <1>4, <1>5 DEF TypeOK
      <3>3. rows[m].st = "deleted" => Truth[m] = Last
        BY <1>1, <2>4, <3>1 DEF Undeleted, Truth, Known, Exists
      <3>4. CASE rows'[m] = rows[m]
        <4>1. Copy'[m] = Copy[m]
          BY <2>1, <2>4, <3>1, <3>2, <3>4
        <4>2. Copy[m] <= Truth[m]
          BY <2>1, <2>4, <3>1, <3>2, <3>3, <3>4
        <4>3. QED
          BY <3>2, <4>1, <4>2
      <3>5. CASE \/ WriteStubs /\ \E S \in SUBSET stubs : Filed(S)
                 \/ WriteBatch /\ \E S \in SUBSET got : Filed(S)
        <4>1. PICK S : Filed(S) /\ (S \subseteq stubs \/ S \subseteq got) /\ pc # "reapply"
          BY <3>5 DEF WriteStubs, WriteBatch
        <4>2. CASE m \in Ids(S)
          <5>1. PICK e \in S : e.id = m /\ rows'[m].ver = e.ver /\ rows'[m].st = "live"
            BY <4>1, <4>2 DEF Filed
          <5>2. rows[m].st # "deleted" /\ (rows[m].st = "live" => rows[m].ver <= rows'[m].ver)
            BY <3>1, <4>1, <5>1
          <5>3. QED
            BY <2>1, <2>4, <3>2, <5>1, <5>2
        <4>3. CASE m \notin Ids(S)
          BY <3>4, <4>1, <4>3 DEF Filed
        <4>4. QED
          BY <4>2, <4>3
      <3>6. CASE \/ Applied(got)
                 \/ \E S \in SUBSET updated : Applied(S)
        <4>1. PICK S : Applied(S) /\ (S \subseteq got \/ S \subseteq updated)
          BY <3>6
        <4>2. CASE m \in Ids(S) /\ Exists(m)
          <5>1. PICK e \in S : e.id = m /\ rows'[m].ver = e.ver /\ rows'[m].st = rows[m].st
            BY <4>1, <4>2 DEF Applied
          <5>2. rows[m].st = "live" => rows[m].ver <= rows'[m].ver
            BY <3>1, <4>1, <5>1
          <5>3. QED
            BY <2>1, <2>4, <3>2, <3>3, <5>1, <5>2
        <4>3. CASE ~(m \in Ids(S) /\ Exists(m))
          BY <3>4, <4>1, <4>3 DEF Applied
        <4>4. QED
          BY <4>2, <4>3
      <3>7. CASE Dropped(removed)
        <4>1. CASE m \in removed /\ Live(m)
          <5>1. rows'[m].st = "deleted"
            BY <3>7, <4>1 DEF Dropped
          <5>2. m \notin here /\ ver[m] > 0
            BY <1>1, <3>1, <4>1 DEF Dropping, Known
          <5>3. Truth[m] = Last
            BY <1>4, <5>2 DEF Truth
          <5>4. QED
            BY <2>1, <2>4, <3>2, <5>1, <5>3
        <4>2. CASE ~(m \in removed /\ Live(m))
          BY <3>4, <3>7, <4>2 DEF Dropped
        <4>3. QED
          BY <4>1, <4>2
      <3>8. ~EnsureRawWrite
        BY <3>1 DEF EnsureRawWrite
      <3>9. CASE Resurrect
        <4>1. refile = {}
          BY <1>1, <3>1 DEF Undeleted
        <4>2. QED
          BY <3>4, <3>9, <4>1, <1>1, RowSteps DEF Revived, Ids, Resurrect
      <3>10. QED
        BY <1>1, <3>4, <3>5, <3>6, <3>7, <3>8, <3>9, RowSteps
    <2>5. QED
      BY <2>2, <2>3, <2>4
  <1>7. QED
    BY <1>2, <1>3, <1>5, <1>6 DEF Account!Follow

\* The index is empty, or it is damaged and the run is one of those that say so.
LEMMA CopyStarts == Init => Account!Init /\ Asked /\ Forward /\ Bare /\ spent["spoil"] \in {0, 1}
  <1> SUFFICES ASSUME Init PROVE Account!Init /\ Asked /\ Forward /\ Bare /\ spent["spoil"] \in {0, 1}
    OBVIOUS
  <1>1. IInv
    BY InitHolds
  <1>2. PICK spoil \in {0, 1} :
            /\ spent = [[f \in Faults |-> 0] EXCEPT !["spoil"] = spoil]
            /\ NewIndex \/ (spoil = 1 /\ DamagedIndex)
    BY DEF Init
  <1>3. spent["spoil"] = spoil
    BY <1>2 DEF Faults
  <1>4. /\ \A m \in Msgs : rows[m].st = "none" => rows[m].raw = "stub"
        /\ spoil = 0 => sound = "yes" /\ \A m \in Msgs : rows[m].st = "none"
    <2>1. CASE NewIndex
      BY <2>1 DEF NewIndex, Absent
    <2>2. CASE spoil = 1 /\ DamagedIndex
      <3> DEFINE Row == {Absent} \cup [st : {"live"}, raw : {"stub", "full"}, ver : {0, 1}] \cup
                          [st : {"deleted"}, raw : {"stub", "full"}, ver : {0}]
      <3>1. rows \in [Msgs -> Row]
        BY <2>2 DEF DamagedIndex
      <3>2. \A r \in Row : r.st = "none" => r.raw = "stub"
        BY DEF Absent
      <3> HIDE DEF Row
      <3>3. QED
        BY <2>2, <3>1, <3>2
    <2>3. QED
      BY <1>2, <2>1, <2>2
  <1>5. /\ stubs = {} /\ got = {} /\ updated = {} /\ fetch = {} /\ refresh = {}
        /\ again = [m \in Msgs |-> 0] /\ lost = 0
        /\ reader = NoReader /\ clean = "yes" /\ pc = "idle"
    BY DEF Init
  <1>6. Asked /\ Forward
    BY <1>3, <1>4, <1>5 DEF Asked, Forward, StepsBack
  <1>7. Bare
    BY <1>4, <1>5 DEF Bare, Exists
  <1>8. Account!Init
    <2>1. Truth = [m \in Msgs |-> Truth[m]] /\ \A m \in Msgs : Truth[m] \in 0..Last
      <3>1. DOMAIN Truth = Msgs /\ \A m \in Msgs : Truth[m] \in 0..Last
        BY <1>1, Histories DEF IInv
      <3>2. QED
        BY <3>1 DEF Truth
    <2>2. Copy = [m \in Msgs |-> 0]
      BY <1>3, <1>4 DEF Copy, Live, Exists
    <2>3. QED
      BY <2>1, <2>2 DEF Account!Init
  <1>9. QED
    BY <1>3, <1>6, <1>7, <1>8

\* A step of the program or of the provider moves an item on, catches up, or changes
\* neither where the items are nor how far the copy is.
LEMMA CopySteps ==
    ASSUME IInv, IInv', Forward, spent["spoil"] \in {0, 1}, [Next]_vars
    PROVE  [Account!Next]_(Account!vars)
  <1>1. CASE UNCHANGED <<here, ver, log>>
    <2>1. Account!Follow
      BY <1>1, CatchesUp
    <2>2. QED
      BY <2>1 DEF Account!Next
  <1>2. CASE \E m \in Msgs : Deliver(m) \/ Change(m) \/ Destroy(m)
    <2>1. PICK m \in Msgs : Deliver(m) \/ Change(m) \/ Destroy(m)
      BY <1>2
    <2>2. Account!Move(m)
      BY <2>1, MovesOn
    <2>3. QED
      BY <2>2 DEF Account!Next
  <1>3. QED
    BY <1>1, <1>2, ServerSteps

\* The index of one account is a copy of that account: of no message does it show a
\* version older than one it showed before, or one the provider never had, and a
\* message it has marked deleted was deleted there and stays deleted.  But for an index
\* that was spoiled, and for a message that a reconcile was told of twice before it
\* had it: two workers may read that one, and the one that has the older version may
\* be written last.
THEOREM CopyFollows == Spec => Follows
  <1> DEFINE FInv == IInv /\ Asked /\ Forward /\ spent["spoil"] \in {0, 1}
  <1>1. Init => FInv /\ Account!Init
    BY InitHolds, CopyStarts
  <1>2. FInv /\ [Next]_vars => FInv'
    <2> SUFFICES ASSUME FInv, [Next]_vars PROVE FInv'
      OBVIOUS
    <2>1. IInv'
      BY StepHolds
    <2>2. Asked' /\ Forward'
      BY AskedKept, ForwardKept DEF IInv
    <2>3. spent["spoil"]' \in {0, 1}
      BY Unspoiled DEF IInv
    <2>4. QED
      BY <2>1, <2>2, <2>3
  <1>3. FInv /\ FInv' /\ [Next]_vars => [Account!Next]_(Account!vars)
    BY CopySteps
  <1> HIDE DEF FInv
  <1>4. QED
    BY <1>1, <1>2, <1>3, PTL DEF Spec, Follows, Account!Spec

\* The bytes do not go backwards either: what has been downloaded in full, by a pass
\* or a reader, is never made a stub again; but for a message that a reconcile was
\* told of twice before it had it.
THEOREM CopyKeepsBytes == Spec => Replicates
  <1> DEFINE BInv == IInv /\ Bare
  <1>1. Init => BInv
    BY InitHolds, CopyStarts
  <1>2. BInv /\ [Next]_vars => BInv'
    <2> SUFFICES ASSUME BInv, [Next]_vars PROVE BInv'
      OBVIOUS
    <2>1. IInv'
      BY StepHolds
    <2>2. Bare'
      BY BareKept DEF IInv
    <2>3. QED
      BY <2>1, <2>2
  <1>3. BInv /\ [Next]_vars => [\A m \in Msgs \ twice : rows[m].raw = "full" => rows'[m].raw = "full"]_vars
    <2> SUFFICES ASSUME BInv, [Next]_vars, NEW m \in Msgs \ twice, rows[m].raw = "full"
                 PROVE  rows'[m].raw = "full"
      OBVIOUS
    <2>1. m \notin Ids(stubs)
      BY DEF Bare, Ids
    <2>2. QED
      BY <2>1, RawSteps DEF IInv
  <1> HIDE DEF BInv
  <1>4. Spec => ArchivedStays
    BY <1>1, <1>2, <1>3, PTL DEF Spec, ArchivedStays
  <1>5. QED
    BY <1>4, CopyFollows, PTL DEF Replicates
=============================================================================
