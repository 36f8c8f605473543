--------------------------- MODULE ArchiveProofs ----------------------------
(***************************************************************************)
(* Archive proved about: bytes stay, what the provider said stands, and    *)
(* what is derived from the rows is what they make it, for any number of   *)
(* messages, any headers and any budget of events.                         *)
(*                                                                         *)
(* The invariant has a part for each.  A thread is named by the root of a  *)
(* message of its conversation, and conversations are the smallest sets    *)
(* closed under shared references, so a thread never holds two.  Bytes     *)
(* that a row has, or a writer counts on, are on what the collector        *)
(* spares: a row it reads, or their youth.  A page of the reindexer is     *)
(* written row by row; that each row leaves what is derived right is shown *)
(* of the least step that would not.                                       *)
(***************************************************************************)
EXTENDS Archive, FiniteSetTheorems, WellFoundedInduction, TLAPS

\* Where the provider files messages, and tables of rows.
Boxes == {"inbox", "sent"}
Table(f) == DOMAIN f \subseteq Msgs /\ f \in [DOMAIN f -> RowType]

\* Of the messages of a conversation one has the root that names it.
Named(m, t) == \E k \in Msgs : Root(k) = t /\ <<m, k>> \in Connected

\* A row has its bytes or none; one whose headers are known has the thread of
\* its conversation, and any other its own, or none after ClearThreading.
RowSound(d, m) ==
    LET r == d.rows[m]
    IN  /\ r.blob = IF Full(r) THEN Sha[m] ELSE NoBlob
        /\ IF m \in d.reffed THEN Full(r) /\ r.thread \in 0..N /\ Named(m, r.thread)
                             ELSE r.thread = NoThread \/ (~Full(r) /\ r.thread = N + m)

IndexTyped(d) ==
    /\ d = [rows |-> d.rows, reffed |-> d.reffed, threads |-> d.threads, addr |-> d.addr,
            book |-> d.book]
    /\ Table(d.rows) /\ d.reffed \subseteq DOMAIN d.rows
    /\ d.threads \in [ThreadIds -> SUBSET Msgs]
    /\ d.addr \in [Msgs -> SUBSET (People \X Boxes)]
    /\ d.book \in [People -> SUBSET (Msgs \X Boxes)]

Sound(d) == IndexTyped(d) /\ \A m \in DOMAIN d.rows : RowSound(d, m)

\* A row as it is handed to UpsertMessage: a stub is a new row without a thread,
\* and a thread is one that the message may have.
Fits(d, m, r) ==
    /\ r \in RowType /\ r.blob = IF Full(r) THEN Sha[m] ELSE NoBlob
    /\ Full(r) \/ m \notin DOMAIN d.rows
    /\ r.thread = NoThread \/ (Full(r) /\ r.thread \in 0..N /\ Named(m, r.thread))

\* The thread of a new row may be its own, and takes over others of its
\* conversation.
Joins(d, m, r, a) ==
    /\ a.thread \in ThreadIds /\ a.losers \subseteq 0..N /\ a.thread \notin a.losers
    /\ Full(r) => a.thread \in 0..N /\ Named(m, a.thread)
    /\ ~Full(r) => a.thread = N + m
    /\ \A l \in a.losers : \A k \in Msgs : Named(k, l) => Full(r) /\ Named(k, a.thread)

\* Messages that share a reference are of one thread, unless put back since.
Together(d, old) ==
    \A m, n \in d.reffed : Related(m, n) /\ {m, n} \cap old = {} => d.rows[m].thread = d.rows[n].thread

\* What is derived of one message, one thread, one person.
Listed(d, m) == {a[1] : a \in d.addr[m]} = IF m \in DOMAIN d.rows THEN To[m] ELSE {}

Summarised(d, t) == d.threads[t] = Members(d.rows, t)
Reckoned(d, p) == d.book[p] = Contact(d.addr, p)

\* A page is of rows with their bytes and a thread they may have.
PageSound ==
    /\ Table(re.page)
    /\ \A m \in DOMAIN re.page :
        /\ Full(re.page[m]) /\ re.page[m].blob = Sha[m]
        /\ re.page[m].thread = NoThread \/ (re.page[m].thread \in 0..N /\ Named(m, re.page[m].thread))

\* A row that is changed where it stands, in no one's thread but its own.
Changed(d, m, row) ==
    /\ Sound(d) /\ m \in DOMAIN d.rows /\ row \in RowType
    /\ row.thread = d.rows[m].thread /\ row.raw = d.rows[m].raw /\ row.blob = d.rows[m].blob

\* The bytes are there and no collection under way takes them.
Backed(s) ==
    /\ s \in files
    /\ gc.pc = "walk" => s \in gc.refs \/ s \in young \ gc.purged
    /\ gc.pc = "delete" => s \notin gc.orphans

\* The bytes of rows, and those that a writer is about to give a row: a row that
\* has them already, or their youth, keeps them from the collector.
RowsBacked == \A m \in Rows \ stale : Full(db.rows[m]) /\ Sha[m] \notin exposed => Backed(Sha[m])

WritersBacked ==
    \A w \in Writers : at[w] = "row" /\ Sha[job[w]] \notin exposed =>
        /\ Backed(Sha[job[w]])
        /\ \/ \E m \in Rows : db.rows[m].blob = Sha[job[w]]
           \/ Sha[job[w]] \in young /\ (gc.pc = "idle" \/ Sha[job[w]] \notin gc.purged)

\* Every thread is on the list that RebuildThreads works from, or fresh.
ThreadsKnown == gc.pc = "threads" =>
    \A m \in Rows : db.rows[m].thread \in gc.ids \cup fresh \cup {NoThread}

\* The variables have their types.
Typed ==
    /\ there \subseteq Msgs /\ filed \in [Msgs -> Boxes]
    /\ young \subseteq files /\ files \subseteq Shas /\ temp \subseteq Writers
    /\ at \in [Writers -> {"idle", "link", "row"}] /\ job \in [Writers -> Msgs]
    /\ seen \in [Writers -> Boxes]
    /\ gc \in [pc : {"idle", "doomed", "spared", "purge", "ids", "threads", "contacts", "refs", "walk", "delete"},
               purged : SUBSET Shas, refs : SUBSET Shas, ids : SUBSET ThreadIds,
               orphans : SUBSET Shas]
    /\ re = [pc |-> re.pc, offset |-> re.offset, page |-> re.page, more |-> re.more,
             rethread |-> re.rethread]
    /\ re.rethread \in {"no", "yes"}
    /\ exposed \subseteq Shas /\ stale \subseteq Msgs
    /\ fresh \subseteq ThreadIds /\ unlisted \subseteq ThreadIds
    /\ owed \subseteq People /\ wrote \in [Msgs -> Boxes \X {"no", "yes"}]
    /\ spent \in [Events -> Nat]

\* The inductive invariant, in parts: bytes; what is derived from rows; all of it.
Bytes == RowsBacked /\ WritersBacked /\ (gc.pc = "delete" => gc.orphans \subseteq files)

Derived ==
    /\ ThreadsKnown /\ Together(db, stale)
    /\ \A t \in ThreadIds \ unlisted : Summarised(db, t)
    /\ \A p \in People \ owed : Reckoned(db, p)
    /\ \A m \in Msgs : Listed(db, m)

IInv == Typed /\ Sound(db) /\ PageSound /\ Bytes /\ FactsStand /\ Derived

-----------------------------------------------------------------------------
(* Identifiers, conversations and the threads they are given.              *)

\* A set of numbers that is not empty has a least one.
LEMMA Least == \A S \in SUBSET Nat : S # {} => \E x \in S : \A y \in S : x <= y
  <1> SUFFICES ASSUME NEW S \in SUBSET Nat, S # {} PROVE \E x \in S : \A y \in S : x <= y
    OBVIOUS
  <1>1. PICK x \in S : \A y \in S : ~(<<y, x>> \in OpToRel(<, Nat))
    BY NatLessThanWellFounded, WFMin
  <1>2. ASSUME NEW y \in S PROVE x <= y
    <2>1. <<y, x>> \in Nat \X Nat /\ <<y, x>>[1] = y /\ <<y, x>>[2] = x
      OBVIOUS
    <2>2. ~(y < x)
      BY <1>1, <2>1 DEF OpToRel
    <2>3. QED
      BY <2>2
  <1>3. QED
    BY <1>2

\* Min picks it.
LEMMA MinIn ==
    ASSUME NEW S \in SUBSET Nat, S # {}
    PROVE  Min(S) \in S
  BY Least DEF Min

\* Numbers of messages, threads and ids.
LEMMA Numbers == /\ N \in Nat /\ Msgs \subseteq Nat /\ NoThread \notin Nat
                 /\ 0..N \subseteq ThreadIds /\ ThreadIds \subseteq Nat
                 /\ \A m \in Msgs : N + m \in ThreadIds \ 0..N /\ m \in 0..N
                 /\ \A m \in Msgs : Sha[m] \in Shas /\ Sha[m] # NoBlob
  BY ContentsAssumption DEF Msgs, NoThread, ThreadIds, Shas

\* The first of the ids of a message is known, and one it refers to.
LEMMA RootKnown ==
    ASSUME NEW m \in Msgs
    PROVE  Root(m) \in 0..N /\ Root(m) \in Refs[m]
  <1> DEFINE ids == Ids(m)
             before == References[m] \o InReplyTo[m]
  <1>1. ids \in Seq(0..N) /\ Len(ids) >= 1
    <2>1. References[m] \in Seq(0..N) /\ InReplyTo[m] \in Seq(0..N)
      BY RefsAssumption
    <2>2. before \in Seq(0..N)
      BY <2>1
    <2>3. m \in 0..N
      BY Numbers
    <2>4. <<m>> \in Seq(0..N) /\ Len(<<m>>) = 1
      BY <2>3
    <2>5. ids = before \o <<m>>
      BY DEF Ids
    <2> HIDE DEF before, ids
    <2>6. Len(before) \in Nat
      BY <2>2
    <2>7. QED
      BY <2>2, <2>4, <2>5, <2>6
  <1>2. 1 \in DOMAIN ids /\ Head(ids) = ids[1] /\ ids[1] \in 0..N
    <2> HIDE DEF ids
    <2>1. ids # <<>> /\ DOMAIN ids = 1..Len(ids) /\ Len(ids) \in Nat
      BY <1>1
    <2>2. 1 \in DOMAIN ids
      BY <1>1, <2>1
    <2>3. ids[1] \in 0..N
      <3> DEFINE S == 0..N
      <3>1. ids \in Seq(S)
        BY <1>1
      <3> HIDE DEF S
      <3>2. ids[1] \in S
        BY <1>1, <2>1, <3>1
      <3>3. QED
        BY <3>2 DEF S
    <2>4. Head(ids) = ids[1]
      BY <1>1, <2>1
    <2>5. QED
      BY <2>2, <2>3, <2>4
  <1>3. {ids[j] : j \in 1..1} = {ids[1]}
    OBVIOUS
  <1>4. Cardinality({ids[j] : j \in 1..1}) <= MaxRefs
    <2>1. Cardinality({ids[1]}) = 1
      BY FS_Singleton
    <2>2. MaxRefs \in Nat /\ 1 <= MaxRefs
      BY RefsAssumption
    <2> HIDE DEF ids
    <2>3. QED
      BY <1>3, <2>1, <2>2
  <1>5. QED
    BY <1>2, <1>4 DEF Root, Refs

\* Messages that refer to one id refer to it both.
LEMMA RelatedSymmetric ==
    ASSUME NEW m, NEW n, Related(m, n)
    PROVE  Related(n, m)
  BY DEF Related

\* Being of one conversation is an equivalence that contains it.
LEMMA Connections ==
    /\ \A m \in Msgs : <<m, m>> \in Connected
    /\ \A m, n \in Msgs : Related(m, n) => <<m, n>> \in Connected
    /\ \A m, n, k \in Msgs : <<m, n>> \in Connected /\ <<n, k>> \in Connected => <<m, k>> \in Connected
    /\ \A m, n \in Msgs : <<m, n>> \in Connected => <<n, m>> \in Connected
  <1>1. \A m, n \in Msgs : <<m, n>> \in Connected <=> \A S \in Closed : m \in S => n \in S
    <2> SUFFICES ASSUME NEW m \in Msgs, NEW n \in Msgs
                 PROVE  <<m, n>> \in Connected <=> \A S \in Closed : m \in S => n \in S
      OBVIOUS
    <2>1. <<m, n>>[1] = m /\ <<m, n>>[2] = n /\ <<m, n>> \in Msgs \X Msgs
      OBVIOUS
    <2>2. QED
      BY <2>1 DEF Connected
  <1>2. \A m \in Msgs : <<m, m>> \in Connected
    BY <1>1
  <1>3. \A m, n \in Msgs : Related(m, n) => <<m, n>> \in Connected
    BY <1>1 DEF Closed
  <1>4. \A m, n, k \in Msgs : <<m, n>> \in Connected /\ <<n, k>> \in Connected => <<m, k>> \in Connected
    BY <1>1
  <1>5. ASSUME NEW m \in Msgs, NEW n \in Msgs, <<m, n>> \in Connected,
               NEW S \in Closed, n \in S, m \notin S
        PROVE  FALSE
    <2>1. Msgs \ S \in Closed
      <3> SUFFICES ASSUME NEW i \in Msgs \ S, NEW j \in Msgs, Related(i, j), j \in S PROVE FALSE
        BY DEF Closed
      <3>1. Related(j, i)
        BY RelatedSymmetric
      <3>2. QED
        BY <3>1 DEF Closed
    <2>2. QED
      BY <1>1, <1>5, <2>1
  <1>6. \A m, n \in Msgs : <<m, n>> \in Connected => <<n, m>> \in Connected
    BY <1>1, <1>5
  <1>7. QED
    BY <1>2, <1>3, <1>4, <1>6

\* A name is that of one conversation, which every message of it may have.
LEMMA Names ==
    /\ \A m \in Msgs : Named(m, Root(m))
    /\ \A m, n \in Msgs : \A t : <<m, n>> \in Connected /\ Named(n, t) => Named(m, t)
    /\ \A m, n \in Msgs : \A t : Named(m, t) /\ Named(n, t) => <<m, n>> \in Connected
  <1>1. \A m \in Msgs : Named(m, Root(m))
    BY Connections DEF Named
  <1>2. \A m, n \in Msgs : \A t : <<m, n>> \in Connected /\ Named(n, t) => Named(m, t)
    BY Connections DEF Named
  <1>3. ASSUME NEW m \in Msgs, NEW n \in Msgs, NEW t, Named(m, t), Named(n, t)
        PROVE  <<m, n>> \in Connected
    <2>1. PICK j \in Msgs : Root(j) = t /\ <<m, j>> \in Connected
      BY <1>3 DEF Named
    <2>2. PICK k \in Msgs : Root(k) = t /\ <<n, k>> \in Connected
      BY <1>3 DEF Named
    <2>3. Related(j, k)
      BY <2>1, <2>2, RootKnown DEF Related
    <2>4. <<j, k>> \in Connected /\ <<k, n>> \in Connected
      BY <2>2, <2>3, Connections
    <2>5. QED
      BY <2>1, <2>4, Connections
  <1>4. QED
    BY <1>1, <1>2, <1>3
-----------------------------------------------------------------------------
(* What UpsertMessage does to the index.                                   *)

\* resolveThreadID finds a name of the conversation, and all the others it has.
LEMMA Resolves ==
    ASSUME NEW d, Sound(d), NEW m \in Msgs, NEW r, Full(r)
    PROVE  /\ Joins(d, m, r, ResolveThread(d, m))
           /\ \A n \in d.reffed : Related(m, n) =>
                d.rows[n].thread \in ResolveThread(d, m).losers \cup {ResolveThread(d, m).thread}
  <1> DEFINE related == {k \in d.reffed : Refs[k] \cap Refs[m] # {}}
             hits == {d.rows[n].thread : n \in related} \ {NoThread}
             a == ResolveThread(d, m)
  <1>1. \A n \in d.reffed : /\ n \in Msgs /\ d.rows[n].thread \in 0..N
                            /\ Named(n, d.rows[n].thread)
    BY DEF Sound, IndexTyped, Table, RowSound
  <1>2. ASSUME NEW t \in hits PROVE t \in 0..N /\ Named(m, t)
    <2>1. PICK n \in related : t = d.rows[n].thread
      OBVIOUS
    <2>2. Related(m, n)
      BY <2>1 DEF Related
    <2>3. n \in Msgs /\ t \in 0..N /\ Named(n, t)
      BY <1>1, <2>1
    <2>4. <<m, n>> \in Connected
      BY <2>2, <2>3, Connections
    <2>5. QED
      BY <2>3, <2>4, Names
  <1>3. hits \in SUBSET Nat /\ 0..N \subseteq ThreadIds
    BY <1>2, Numbers
  <1>4. \A n \in d.reffed : Related(m, n) => d.rows[n].thread \in hits
    BY <1>1, Numbers DEF Related
  <1>5. CASE hits = {}
    <2>1. a = [thread |-> Root(m), losers |-> {}]
      BY <1>5 DEF ResolveThread
    <2> HIDE DEF hits, a
    <2>2. QED
      BY <1>3, <1>4, <1>5, <2>1, RootKnown, Names DEF Joins, a
  <1>6. CASE hits # {}
    <2>1. a = [thread |-> Min(hits), losers |-> hits \ {Min(hits)}]
      BY <1>6 DEF ResolveThread
    <2> HIDE DEF hits, a
    <2>2. Min(hits) \in hits
      BY <1>3, <1>6, MinIn
    <2>3. \A l \in hits : \A k \in Msgs : Named(k, l) => Named(k, Min(hits))
      BY <1>2, <2>2, Names
    <2>4. a.thread = Min(hits) /\ a.losers = hits \ {Min(hits)}
      BY <2>1
    <2>5. Joins(d, m, r, a)
      BY <1>2, <1>3, <2>2, <2>3, <2>4 DEF Joins
    <2>6. QED
      BY <1>4, <2>4, <2>5 DEF a
  <1>7. QED
    BY <1>5, <1>6

\* The thread of a row that is written.
LEMMA Assigns ==
    ASSUME NEW d, Sound(d), NEW m \in Msgs, NEW r, Fits(d, m, r)
    PROVE  /\ Joins(d, m, r, Assigned(d, m, r))
           /\ r.thread # NoThread => Assigned(d, m, r) = [thread |-> r.thread, losers |-> {}]
           /\ r.thread = NoThread /\ Full(r) => Assigned(d, m, r) = ResolveThread(d, m)
  <1>1. CASE r.thread # NoThread
    BY <1>1, Numbers DEF Fits, Assigned, Joins
  <1>2. CASE r.thread = NoThread /\ Full(r)
    <2>1. Assigned(d, m, r) = ResolveThread(d, m)
      BY <1>2 DEF Assigned
    <2>2. QED
      BY <1>2, <2>1, Resolves
  <1>3. CASE r.thread = NoThread /\ ~Full(r)
    <2>1. Assigned(d, m, r) = [thread |-> N + m, losers |-> {}]
      BY <1>3 DEF Assigned, Solo
    <2>2. QED
      BY <1>3, <2>1, Numbers DEF Joins
  <1>4. QED
    BY <1>1, <1>2, <1>3
\* Whom a row is addressed to, and where it is filed.
LEMMA AddressesTyped ==
    ASSUME NEW m \in Msgs, NEW row, row.box \in Boxes
    PROVE  /\ Addresses(m, row) \in SUBSET (People \X Boxes)
           /\ {a[1] : a \in Addresses(m, row)} = To[m]
  <1>1. To[m] \subseteq People
    BY ContentsAssumption DEF People
  <1>2. Addresses(m, row) \in SUBSET (People \X Boxes)
    BY <1>1 DEF Addresses
  <1>3. \A p \in To[m] : <<p, row.box>>[1] = p
    OBVIOUS
  <1>4. {a[1] : a \in Addresses(m, row)} = To[m]
    BY <1>3 DEF Addresses
  <1>5. QED
    BY <1>2, <1>4

\* Contacts are of messages and boxes.
LEMMA ContactTyped == \A addr, p : Contact(addr, p) \in SUBSET (Msgs \X Boxes)
  BY DEF Contact, Boxes

\* The members of a thread are rows.
LEMMA MembersTyped ==
    ASSUME NEW rows, DOMAIN rows \subseteq Msgs, NEW t
    PROVE  Members(rows, t) \in SUBSET Msgs
  BY DEF Members

\* UpsertMessage writes its row, moves those of the threads it takes over, and
\* makes the summaries of all these threads and the people on the message anew.
Written(d, m, r, a, e) ==
    /\ DOMAIN e.rows = DOMAIN d.rows \cup {m}
    /\ e.rows[m] = [r EXCEPT !.thread = a.thread]
    /\ \A n \in DOMAIN d.rows \ {m} :
        e.rows[n] = IF d.rows[n].thread \in a.losers THEN [d.rows[n] EXCEPT !.thread = a.thread]
                                                    ELSE d.rows[n]
    /\ e.reffed = IF Full(r) THEN d.reffed \cup {m} ELSE d.reffed
    /\ \A t \in ThreadIds : e.threads[t] =
        IF t \in a.losers \cup {a.thread} \/ (m \in DOMAIN d.rows /\ d.rows[m].thread = t)
        THEN Members(e.rows, t) ELSE d.threads[t]
    /\ e.addr = [d.addr EXCEPT ![m] = Addresses(m, e.rows[m])]
    /\ e.book = [p \in People |-> IF p \in To[m] THEN Contact(e.addr, p) ELSE d.book[p]]

\* UpsertMessage does what Written says.
LEMMA Upserted ==
    ASSUME NEW d, Sound(d), NEW m \in Msgs, NEW r, Fits(d, m, r)
    PROVE  /\ IndexTyped(UpsertMessage(d, m, r))
           /\ Written(d, m, r, Assigned(d, m, r), UpsertMessage(d, m, r))
  <1> DEFINE a == Assigned(d, m, r)
             e == UpsertMessage(d, m, r)
             old == m \in DOMAIN d.rows
             blob == IF r.blob = NoBlob /\ old THEN d.rows[m].blob ELSE r.blob
             row == [r EXCEPT !.thread = a.thread, !.blob = blob]
             flat == [n \in DOMAIN d.rows \cup {m} |-> IF n = m THEN row ELSE d.rows[n]]
             rows == MergeThreads(flat, a.thread, a.losers)
             before == IF old THEN {d.rows[m].thread} ELSE {}
             ids == (a.losers \cup before \cup {a.thread}) \ {NoThread}
             addr == [d.addr EXCEPT ![m] = Addresses(m, row)]
             book == [p \in People |-> IF p \in To[m] THEN Contact(addr, p) ELSE d.book[p]]
             reffed == IF Full(r) THEN d.reffed \cup {m} ELSE d.reffed
             threads == RefreshThreads(rows, d.threads, ids)
  <1>1. e = [rows |-> rows, reffed |-> reffed, threads |-> threads, addr |-> addr, book |-> book]
    BY DEF UpsertMessage, ReplaceAddresses
  <1>2. Joins(d, m, r, a)
    BY Assigns
  <1> HIDE DEF a
  <1>3. row = [r EXCEPT !.thread = a.thread] /\ row \in RowType
    <2>1. r \in RowType /\ blob = r.blob
      BY Numbers DEF Fits
    <2>2. row = [r EXCEPT !.thread = a.thread]
      BY <2>1 DEF RowType
    <2> HIDE DEF row
    <2>3. QED
      BY <1>2, <2>1, <2>2 DEF Joins, RowType
  <1> HIDE DEF row
  <1>4. DOMAIN d.rows \subseteq Msgs /\ d.rows \in [DOMAIN d.rows -> RowType]
    BY DEF Sound, IndexTyped, Table
  <1>5. flat \in [DOMAIN d.rows \cup {m} -> RowType]
    BY <1>3, <1>4
  <1>6. DOMAIN rows = DOMAIN d.rows \cup {m} /\ DOMAIN rows \subseteq Msgs
    BY <1>4 DEF MergeThreads
  <1>7. row.thread = a.thread /\ a.thread \notin a.losers
    BY <1>2, <1>3 DEF Joins, Fits, RowType
  <1>8. rows[m] = row
    BY <1>7 DEF MergeThreads
  <1>9. \A n \in DOMAIN d.rows \ {m} :
            rows[n] = IF d.rows[n].thread \in a.losers THEN [d.rows[n] EXCEPT !.thread = a.thread]
                                                      ELSE d.rows[n]
    BY DEF MergeThreads
  <1>10. \A n \in DOMAIN rows : rows[n] \in RowType
    <2> SUFFICES ASSUME NEW n \in DOMAIN d.rows, n # m PROVE rows[n] \in RowType
      BY <1>3, <1>6, <1>8
    <2>1. d.rows[n] \in RowType /\ a.thread \in ThreadIds
      BY <1>2, <1>4 DEF Joins
    <2> HIDE DEF rows
    <2>2. QED
      BY <1>9, <2>1 DEF RowType
  <1>11. rows = [n \in DOMAIN rows |-> rows[n]]
    BY DEF MergeThreads
  <1> HIDE DEF rows
  <1>12. Table(rows)
    BY <1>6, <1>10, <1>11 DEF Table
  <1>13. threads \in [ThreadIds -> SUBSET Msgs]
    <2>1. d.threads \in [ThreadIds -> SUBSET Msgs]
      BY DEF Sound, IndexTyped
    <2>2. QED
      BY <1>6, <2>1, MembersTyped DEF RefreshThreads
  <1>14. \A t \in ThreadIds : threads[t] =
            IF t \in a.losers \cup {a.thread} \/ (old /\ d.rows[m].thread = t)
            THEN Members(rows, t) ELSE d.threads[t]
    BY Numbers DEF RefreshThreads
  <1>15. addr \in [Msgs -> SUBSET (People \X Boxes)]
    <2>1. d.addr \in [Msgs -> SUBSET (People \X Boxes)]
      BY DEF Sound, IndexTyped
    <2>2. row.box \in Boxes
      BY <1>3 DEF RowType, Boxes
    <2>3. QED
      BY <2>1, <2>2, AddressesTyped
  <1>16. book \in [People -> SUBSET (Msgs \X Boxes)]
    <2>1. d.book \in [People -> SUBSET (Msgs \X Boxes)]
      BY DEF Sound, IndexTyped
    <2> HIDE DEF addr
    <2>2. QED
      BY <2>1, ContactTyped
  <1>17. d.reffed \subseteq DOMAIN d.rows
    BY DEF Sound, IndexTyped
  <1>18. reffed \subseteq DOMAIN rows
    BY <1>6, <1>17
  <1> HIDE DEF threads, addr, book, reffed, e
  <1>19. IndexTyped(e)
    BY <1>1, <1>12, <1>13, <1>15, <1>16, <1>18 DEF IndexTyped
  <1>20. e.rows = rows /\ e.threads = threads /\ e.addr = addr /\ e.book = book /\ e.reffed = reffed
    BY <1>1
  <1>21. Written(d, m, r, a, e)
    BY <1>3, <1>6, <1>8, <1>9, <1>14, <1>20 DEF Written, addr, book, reffed
  <1>22. QED
    BY <1>19, <1>21 DEF a, e
\* Rows stay sound, whatever is written of one.
LEMMA UpsertSound ==
    ASSUME NEW d, Sound(d), NEW m \in Msgs, NEW r, Fits(d, m, r)
    PROVE  Sound(UpsertMessage(d, m, r))
  <1> DEFINE a == Assigned(d, m, r)
             e == UpsertMessage(d, m, r)
  <1>1. IndexTyped(e) /\ Written(d, m, r, a, e)
    BY Upserted
  <1>2. Joins(d, m, r, a)
    BY Assigns
  <1> HIDE DEF a, e
  <1>3. d.reffed \subseteq DOMAIN d.rows /\ DOMAIN d.rows \subseteq Msgs
    BY DEF Sound, IndexTyped, Table
  <1>4. RowSound(e, m)
    <2>1. e.rows[m] = [r EXCEPT !.thread = a.thread] /\ r \in RowType
      BY <1>1 DEF Written, Fits
    <2>2. e.rows[m].thread = a.thread /\ e.rows[m].blob = r.blob /\ e.rows[m].raw = r.raw
      BY <2>1 DEF RowType
    <2>3. m \in e.reffed <=> Full(r)
      BY <1>1, <1>3 DEF Written, Fits
    <2>4. QED
      BY <1>2, <2>2, <2>3 DEF RowSound, Fits, Full, Joins
  <1>5. ASSUME NEW n \in DOMAIN d.rows, n # m PROVE RowSound(e, n)
    <2>1. RowSound(d, n) /\ d.rows[n] \in RowType /\ n \in Msgs
      BY <1>3 DEF Sound, IndexTyped, Table
    <2>2. n \in e.reffed <=> n \in d.reffed
      BY <1>1, <1>5 DEF Written
    <2>3. CASE d.rows[n].thread \notin a.losers
      <3>1. e.rows[n] = d.rows[n]
        BY <1>1, <1>5, <2>3 DEF Written
      <3>2. QED
        BY <2>1, <2>2, <3>1 DEF RowSound
    <2>4. CASE d.rows[n].thread \in a.losers
      <3>1. e.rows[n] = [d.rows[n] EXCEPT !.thread = a.thread]
        BY <1>1, <1>5, <2>4 DEF Written
      <3>2. /\ e.rows[n].thread = a.thread /\ e.rows[n].blob = d.rows[n].blob
            /\ e.rows[n].raw = d.rows[n].raw
        BY <2>1, <3>1 DEF RowType
      <3>3. d.rows[n].thread \in 0..N
        BY <1>2, <2>4 DEF Joins
      <3>4. n \in d.reffed /\ Full(d.rows[n]) /\ Named(n, d.rows[n].thread)
        BY <2>1, <3>3, Numbers DEF RowSound
      <3>5. Full(r) /\ Named(n, a.thread)
        BY <1>2, <2>1, <2>4, <3>4 DEF Joins
      <3>6. a.thread \in 0..N
        BY <1>2, <3>5 DEF Joins
      <3>7. QED
        BY <2>1, <2>2, <3>2, <3>4, <3>5, <3>6 DEF RowSound, Full
    <2>5. QED
      BY <2>3, <2>4
  <1>6. DOMAIN e.rows = DOMAIN d.rows \cup {m}
    BY <1>1 DEF Written
  <1>7. QED
    BY <1>1, <1>4, <1>5, <1>6 DEF Sound, e

\* Messages that refer to one id stay in one thread, and a message that is given
\* no thread joins those it is related to; one that is given the thread it has
\* not, is out of date.
LEMMA UpsertTogether ==
    ASSUME NEW d, Sound(d), NEW m \in Msgs, NEW r, Fits(d, m, r), NEW old, Together(d, old),
           r.thread # NoThread => m \in old \/ (m \in d.reffed /\ d.rows[m].thread = r.thread)
    PROVE  Together(UpsertMessage(d, m, r), old)
  <1> DEFINE a == Assigned(d, m, r)
             e == UpsertMessage(d, m, r)
  <1>1. Written(d, m, r, a, e)
    BY Upserted
  <1>2. /\ Joins(d, m, r, a)
        /\ r.thread # NoThread => a = [thread |-> r.thread, losers |-> {}]
        /\ r.thread = NoThread /\ Full(r) => a = ResolveThread(d, m)
    BY Assigns
  <1>3. r.thread = NoThread /\ Full(r) => \A n \in d.reffed : Related(m, n) =>
            d.rows[n].thread \in a.losers \cup {a.thread}
    BY <1>2, Resolves
  <1> HIDE DEF a, e
  <1>4. d.reffed \subseteq DOMAIN d.rows /\ DOMAIN d.rows \subseteq Msgs
    BY DEF Sound, IndexTyped, Table
  <1>5. e.rows[m].thread = a.thread
    BY <1>1 DEF Written, Fits, RowType
  <1>6. \A n \in DOMAIN d.rows \ {m} :
            e.rows[n].thread = IF d.rows[n].thread \in a.losers THEN a.thread ELSE d.rows[n].thread
    <2>1. \A n \in DOMAIN d.rows : d.rows[n] \in RowType
      BY DEF Sound, IndexTyped, Table
    <2>2. QED
      BY <1>1, <2>1 DEF Written, RowType
  <1>7. ASSUME NEW n \in d.reffed, n # m, Full(r), Related(m, n), m \notin old, n \notin old
        PROVE  e.rows[n].thread = a.thread
    <2>1. CASE r.thread = NoThread
      BY <1>3, <1>4, <1>6, <1>7, <2>1
    <2>2. CASE r.thread # NoThread
      <3>1. a.thread = r.thread /\ a.losers = {} /\ d.rows[m].thread = r.thread /\ m \in d.reffed
        BY <1>2, <1>7, <2>2
      <3>2. d.rows[n].thread = d.rows[m].thread
        BY <1>7, <3>1 DEF Together
      <3>3. QED
        BY <1>4, <1>6, <1>7, <3>1, <3>2
    <2>3. QED
      BY <2>1, <2>2
  <1>8. ASSUME NEW k \in e.reffed, NEW n \in e.reffed, Related(k, n), {k, n} \cap old = {}
        PROVE  e.rows[k].thread = e.rows[n].thread
    <2>1. e.reffed \subseteq d.reffed \cup {m} /\ (~Full(r) => e.reffed = d.reffed)
      BY <1>1 DEF Written
    <2>2. ~Full(r) => m \notin d.reffed
      BY <1>4 DEF Fits
    <2>3. CASE k # m /\ n # m
      <3>1. k \in d.reffed /\ n \in d.reffed
        BY <2>1, <2>3
      <3>2. d.rows[k].thread = d.rows[n].thread
        BY <1>8, <3>1 DEF Together
      <3>3. QED
        BY <1>4, <1>6, <2>3, <3>1, <3>2
    <2>4. CASE k = m /\ n # m
      <3>1. n \in d.reffed /\ Full(r) /\ m \notin old /\ n \notin old
        BY <1>8, <2>1, <2>2, <2>4
      <3>2. QED
        BY <1>5, <1>7, <1>8, <2>4, <3>1
    <2>5. CASE k # m /\ n = m
      <3>1. k \in d.reffed /\ Full(r) /\ m \notin old /\ k \notin old
        BY <1>8, <2>1, <2>2, <2>5
      <3>2. Related(m, k)
        BY <1>8, <2>5, RelatedSymmetric
      <3>3. QED
        BY <1>5, <1>7, <2>5, <3>1, <3>2
    <2>6. QED
      BY <2>3, <2>4, <2>5
  <1>9. QED
    BY <1>8 DEF Together, e
\* A summary that was right is right, whichever threads a row has come from or
\* gone to.
LEMMA UpsertSummarised ==
    ASSUME NEW d, Sound(d), NEW m \in Msgs, NEW r, Fits(d, m, r), NEW t \in ThreadIds,
           Summarised(d, t)
    PROVE  Summarised(UpsertMessage(d, m, r), t)
  <1> DEFINE a == Assigned(d, m, r)
             e == UpsertMessage(d, m, r)
  <1>1. Written(d, m, r, a, e)
    BY Upserted
  <1> HIDE DEF a, e
  <1>2. \A n \in DOMAIN d.rows : d.rows[n] \in RowType
    BY DEF Sound, IndexTyped, Table
  <1> DEFINE named == t \in a.losers \cup {a.thread} \/ (m \in DOMAIN d.rows /\ d.rows[m].thread = t)
  <1>3. CASE named
    BY <1>1, <1>3 DEF Written, Summarised, e
  <1>4. CASE ~named
    <2>1. e.threads[t] = d.threads[t]
      BY <1>1, <1>4 DEF Written
    <2>2. e.rows[m].thread # t /\ (m \in DOMAIN d.rows => d.rows[m].thread # t)
      BY <1>1, <1>4 DEF Written, Fits, RowType
    <2>3. ASSUME NEW n \in DOMAIN d.rows, n # m
          PROVE  e.rows[n].thread = t /\ Live(e.rows[n]) <=> d.rows[n].thread = t /\ Live(d.rows[n])
      <3>1. CASE d.rows[n].thread \in a.losers
        <4>1. e.rows[n] = [d.rows[n] EXCEPT !.thread = a.thread]
          BY <1>1, <2>3, <3>1 DEF Written
        <4>2. e.rows[n].thread = a.thread
          BY <1>2, <4>1 DEF RowType
        <4>3. QED
          BY <1>4, <3>1, <4>2
      <3>2. CASE d.rows[n].thread \notin a.losers
        BY <1>1, <2>3, <3>2 DEF Written
      <3>3. QED
        BY <3>1, <3>2
    <2>4. DOMAIN e.rows = DOMAIN d.rows \cup {m}
      BY <1>1 DEF Written
    <2>5. \A n \in DOMAIN e.rows : e.rows[n].thread = t /\ Live(e.rows[n]) <=>
              n \in DOMAIN d.rows /\ d.rows[n].thread = t /\ Live(d.rows[n])
      BY <2>2, <2>3, <2>4
    <2>6. Members(e.rows, t) = Members(d.rows, t)
      BY <2>4, <2>5 DEF Members
    <2>7. QED
      BY <2>1, <2>6 DEF Summarised, e
  <1>5. QED
    BY <1>3, <1>4

\* Contacts of people who are on none of the messages that differ are the same.
LEMMA SameContact ==
    ASSUME NEW f, NEW g, NEW p,
           \A m \in Msgs : f[m] = g[m] \/ \A b \in Boxes : <<p, b>> \notin f[m] /\ <<p, b>> \notin g[m]
    PROVE  Contact(f, p) = Contact(g, p)
  <1>1. \A x \in Msgs \X Boxes : <<p, x[2]>> \in f[x[1]] <=> <<p, x[2]>> \in g[x[1]]
    <2> SUFFICES ASSUME NEW x \in Msgs \X Boxes
                 PROVE  <<p, x[2]>> \in f[x[1]] <=> <<p, x[2]>> \in g[x[1]]
      OBVIOUS
    <2>1. x[1] \in Msgs /\ x[2] \in Boxes
      OBVIOUS
    <2>2. QED
      BY <2>1
  <1>2. QED
    BY <1>1 DEF Contact, Boxes

\* Nobody is on a message that it is not addressed to.
LEMMA NotOn ==
    ASSUME NEW d, NEW m \in Msgs, Listed(d, m), NEW p, p \notin To[m], NEW b
    PROVE  <<p, b>> \notin d.addr[m]
  <1>1. \A a \in d.addr[m] : a[1] \in To[m]
    BY DEF Listed
  <1>2. QED
    BY <1>1

\* The messages and the people on them agree, before and after.
LEMMA UpsertListed ==
    ASSUME NEW d, Sound(d), NEW m \in Msgs, NEW r, Fits(d, m, r), NEW n \in Msgs, Listed(d, n)
    PROVE  Listed(UpsertMessage(d, m, r), n)
  <1> DEFINE a == Assigned(d, m, r)
             e == UpsertMessage(d, m, r)
  <1>1. Written(d, m, r, a, e)
    BY Upserted
  <1>2. d.addr \in [Msgs -> SUBSET (People \X Boxes)]
    BY DEF Sound, IndexTyped
  <1>3. e.rows[m].box \in Boxes
    BY <1>1 DEF Written, Fits, RowType, Boxes
  <1> HIDE DEF a, e
  <1>4. CASE n = m
    <2>1. e.addr[m] = Addresses(m, e.rows[m]) /\ m \in DOMAIN e.rows
      BY <1>1, <1>2 DEF Written
    <2>2. QED
      BY <1>3, <1>4, <2>1, AddressesTyped DEF Listed, e
  <1>5. CASE n # m
    <2>1. e.addr[n] = d.addr[n] /\ (n \in DOMAIN e.rows <=> n \in DOMAIN d.rows)
      BY <1>1, <1>2, <1>5 DEF Written
    <2>2. QED
      BY <2>1 DEF Listed, e
  <1>6. QED
    BY <1>4, <1>5

\* What is known of the people on the message is made anew, and of others it
\* does not change.
LEMMA UpsertReckoned ==
    ASSUME NEW d, Sound(d), NEW m \in Msgs, NEW r, Fits(d, m, r), \A n \in Msgs : Listed(d, n),
           NEW p \in People, p \in To[m] \/ Reckoned(d, p)
    PROVE  Reckoned(UpsertMessage(d, m, r), p)
  <1> DEFINE a == Assigned(d, m, r)
             e == UpsertMessage(d, m, r)
  <1>1. Written(d, m, r, a, e)
    BY Upserted
  <1>2. d.addr \in [Msgs -> SUBSET (People \X Boxes)]
    BY DEF Sound, IndexTyped
  <1>3. e.rows[m].box \in Boxes
    BY <1>1 DEF Written, Fits, RowType, Boxes
  <1> HIDE DEF a
  <1>4. CASE p \in To[m]
    BY <1>1, <1>4 DEF Written, Reckoned
  <1>5. CASE p \notin To[m]
    <2>1. \A b \in Boxes : <<p, b>> \notin d.addr[m] /\ <<p, b>> \notin e.addr[m]
      <3>1. Listed(e, m)
        BY UpsertListed
      <3> HIDE DEF e
      <3>2. QED
        BY <1>5, <3>1, NotOn
    <2> HIDE DEF e
    <2>2. \A n \in Msgs : e.addr[n] = d.addr[n] \/
              \A b \in Boxes : <<p, b>> \notin e.addr[n] /\ <<p, b>> \notin d.addr[n]
      BY <1>1, <1>2, <2>1 DEF Written
    <2>3. Contact(e.addr, p) = Contact(d.addr, p)
      BY <2>2, SameContact
    <2>4. e.book[p] = d.book[p]
      BY <1>1, <1>5 DEF Written
    <2>5. QED
      BY <1>5, <2>3, <2>4 DEF Reckoned, e
  <1>6. QED
    BY <1>4, <1>5
\* The row that is written says what it was given to say; the others keep all but
\* their threads, and are in the one they were in or in its; those of one thread stay in one.
LEMMA UpsertRows ==
    ASSUME NEW d, Sound(d), NEW m \in Msgs, NEW r, Fits(d, m, r)
    PROVE  /\ DOMAIN UpsertMessage(d, m, r).rows = DOMAIN d.rows \cup {m}
           /\ LET row == UpsertMessage(d, m, r).rows[m]
              IN  row.raw = r.raw /\ row.blob = r.blob /\ Facts(row) = Facts(r)
           /\ \A n \in DOMAIN d.rows \ {m} :
                LET row == UpsertMessage(d, m, r).rows[n]
                IN  /\ row.raw = d.rows[n].raw /\ row.blob = d.rows[n].blob
                    /\ Facts(row) = Facts(d.rows[n])
                    /\ \/ row.thread = d.rows[n].thread
                       \/ row.thread = UpsertMessage(d, m, r).rows[m].thread
           /\ \A n, k \in DOMAIN d.rows \ {m} : d.rows[n].thread = d.rows[k].thread =>
                UpsertMessage(d, m, r).rows[n].thread = UpsertMessage(d, m, r).rows[k].thread
  <1> DEFINE a == Assigned(d, m, r)
             e == UpsertMessage(d, m, r)
  <1>1. Written(d, m, r, a, e) /\ Joins(d, m, r, a)
    BY Upserted, Assigns
  <1>2. \A n \in DOMAIN d.rows : d.rows[n] \in RowType
    BY DEF Sound, IndexTyped, Table
  <1> HIDE DEF a, e
  <1>3. DOMAIN e.rows = DOMAIN d.rows \cup {m}
    BY <1>1 DEF Written
  <1>4. /\ e.rows[m].raw = r.raw /\ e.rows[m].blob = r.blob /\ Facts(e.rows[m]) = Facts(r)
        /\ e.rows[m].thread = a.thread
    BY <1>1 DEF Written, Fits, RowType, Facts
  <1>5. ASSUME NEW n \in DOMAIN d.rows \ {m}
        PROVE  /\ e.rows[n].raw = d.rows[n].raw /\ e.rows[n].blob = d.rows[n].blob
               /\ Facts(e.rows[n]) = Facts(d.rows[n])
               /\ e.rows[n].thread = d.rows[n].thread \/ e.rows[n].thread = e.rows[m].thread
    <2>1. \/ e.rows[n] = d.rows[n]
          \/ e.rows[n] = [d.rows[n] EXCEPT !.thread = a.thread]
      BY <1>1 DEF Written
    <2>2. d.rows[n] \in RowType
      BY <1>2
    <2>3. QED
      BY <1>4, <2>1, <2>2 DEF RowType, Facts
  <1>6. ASSUME NEW n \in DOMAIN d.rows \ {m}
        PROVE  e.rows[n].thread = IF d.rows[n].thread \in a.losers THEN a.thread
                                                                 ELSE d.rows[n].thread
    BY <1>1, <1>2 DEF Written, RowType
  <1>7. QED
    BY <1>3, <1>4, <1>5, <1>6 DEF e

-----------------------------------------------------------------------------
(* What MarkDeleted and ApplyRemoteState do to it.                         *)

\* A row that is changed in place changes no thread, no one's bytes and nobody's
\* contacts, and the summary of its thread follows.
LEMMA SetRowSound ==
    ASSUME NEW d, NEW m \in Msgs, NEW row, Changed(d, m, row)
    PROVE  /\ Sound(SetRow(d, m, row))
           /\ SetRow(d, m, row).rows = [d.rows EXCEPT ![m] = row]
           /\ SetRow(d, m, row).addr = d.addr /\ SetRow(d, m, row).book = d.book
           /\ SetRow(d, m, row).reffed = d.reffed
           /\ \A t \in ThreadIds : Summarised(d, t) => Summarised(SetRow(d, m, row), t)
           /\ \A old : Together(d, old) => Together(SetRow(d, m, row), old)
  <1> DEFINE rows == [d.rows EXCEPT ![m] = row]
             ids == {row.thread} \ {NoThread}
             threads == RefreshThreads(rows, d.threads, ids)
             e == SetRow(d, m, row)
  <1>1. e = [d EXCEPT !.rows = rows, !.threads = threads]
    BY DEF SetRow
  <1>2. IndexTyped(d) /\ Table(d.rows) /\ DOMAIN d.rows \subseteq Msgs
    BY DEF Changed, Sound, IndexTyped, Table
  <1>3. e = [rows |-> rows, reffed |-> d.reffed, threads |-> threads, addr |-> d.addr, book |-> d.book]
    BY <1>1, <1>2 DEF IndexTyped
  <1>4. Table(rows) /\ DOMAIN rows = DOMAIN d.rows
    BY <1>2 DEF Table, Changed
  <1>5. rows[m] = row /\ \A n \in DOMAIN d.rows \ {m} : rows[n] = d.rows[n]
    BY <1>2 DEF Changed
  <1> HIDE DEF rows
  <1>6. threads \in [ThreadIds -> SUBSET Msgs]
    BY <1>2, <1>4, MembersTyped DEF RefreshThreads, IndexTyped
  <1>7. \A t \in ThreadIds : threads[t] = IF t \in ids THEN Members(rows, t) ELSE d.threads[t]
    BY DEF RefreshThreads
  <1> HIDE DEF threads, e
  <1>8. /\ e.rows = rows /\ e.reffed = d.reffed /\ e.threads = threads /\ e.addr = d.addr
        /\ e.book = d.book
    BY <1>3
  <1>9. IndexTyped(e)
    BY <1>2, <1>3, <1>4, <1>6, <1>8 DEF IndexTyped
  <1>10. \A n \in DOMAIN d.rows : /\ e.rows[n].thread = d.rows[n].thread
                                 /\ e.rows[n].raw = d.rows[n].raw /\ e.rows[n].blob = d.rows[n].blob
    BY <1>5, <1>8 DEF Changed
  <1>11. \A n \in DOMAIN e.rows : RowSound(e, n)
    BY <1>4, <1>8, <1>10 DEF Changed, Sound, RowSound, Full
  <1>12. ASSUME NEW t \in ThreadIds, Summarised(d, t) PROVE Summarised(e, t)
    <2>1. CASE t = row.thread
      <3>1. t \in ids
        BY <2>1, Numbers
      <3>2. QED
        BY <1>7, <1>8, <3>1 DEF Summarised
    <2>2. CASE t # row.thread
      <3>1. Members(rows, t) = Members(d.rows, t)
        BY <1>4, <1>5, <2>2 DEF Members, Changed
      <3>2. QED
        BY <1>7, <1>8, <1>12, <2>2, <3>1 DEF Summarised
    <2>3. QED
      BY <2>1, <2>2
  <1>13. ASSUME NEW old, Together(d, old) PROVE Together(e, old)
    <2>1. d.reffed \subseteq DOMAIN d.rows
      BY <1>2 DEF IndexTyped
    <2>2. QED
      BY <1>8, <1>10, <1>13, <2>1 DEF Together
  <1>14. QED
    BY <1>8, <1>9, <1>11, <1>12, <1>13 DEF Sound, e, rows

\* A row that is taken out of its mailboxes, or filed elsewhere, is changed in place.
LEMMA ChangesRow ==
    ASSUME NEW d, Sound(d), NEW m \in DOMAIN d.rows, NEW b \in Boxes, NEW g \in {"no", "yes"}
    PROVE  Changed(d, m, [d.rows[m] EXCEPT !.gone = g, !.box = b])
  <1>1. d.rows[m] \in RowType
    BY DEF Sound, IndexTyped, Table
  <1>2. QED
    BY <1>1 DEF Changed, RowType, Boxes
-----------------------------------------------------------------------------
(* A page that is written back.                                            *)

\* There is a function that Rewritten says what it is.
LEMMA RewrittenIs ==
    /\ Rewritten[0] = [db |-> db, stale |-> stale]
    /\ \A i \in 1..N : Rewritten[i] = Rewrite(Rewritten[i - 1], N + 1 - i)
  <1> DEFINE s0 == [db |-> db, stale |-> stale]
             Upto(f, n) == f = [i \in 0..n |-> IF i = 0 THEN s0 ELSE Rewrite(f[i - 1], N + 1 - i)]
             bad == {n \in 0..N : ~\E f : Upto(f, n)}
  <1>1. N \in Nat
    BY Numbers
  <1>2. ASSUME bad # {} PROVE FALSE
    <2>1. PICK x \in bad : \A y \in bad : x <= y
      <3>1. bad \in SUBSET Nat
        OBVIOUS
      <3> HIDE DEF bad
      <3>2. QED
        BY <1>2, <3>1, Least
    <2>2. CASE x = 0
      <3> DEFINE f == [i \in 0..0 |-> s0]
      <3>1. Upto(f, 0)
        <4>1. \A i \in 0..0 : i = 0
          OBVIOUS
        <4> HIDE DEF s0
        <4>2. QED
          BY <4>1
      <3>2. QED
        BY <2>1, <2>2, <3>1
    <2>3. CASE x # 0
      <3>1. x \in 1..N /\ x - 1 \in 0..N /\ x - 1 \notin bad
        BY <1>1, <2>1, <2>3
      <3>2. PICK g : Upto(g, x - 1)
        BY <3>1
      <3> DEFINE f == [i \in 0..x |-> IF i < x THEN g[i] ELSE Rewrite(g[x - 1], N + 1 - x)]
      <3>3. ASSUME NEW i \in 0..x
            PROVE  f[i] = IF i = 0 THEN s0 ELSE Rewrite(f[i - 1], N + 1 - i)
        <4>1. CASE i = 0
          <5>1. g[0] = s0
            BY <3>1, <3>2
          <5>2. QED
            BY <3>1, <4>1, <5>1
        <4>2. CASE i # 0 /\ i < x
          <5>1. i \in 0..(x - 1) /\ i - 1 \in 0..(x - 1) /\ i - 1 < x
            BY <3>1, <4>2
          <5>2. g[i] = Rewrite(g[i - 1], N + 1 - i)
            BY <3>2, <4>2, <5>1
          <5>3. f[i] = g[i] /\ f[i - 1] = g[i - 1]
            BY <3>1, <4>2, <5>1
          <5>4. QED
            BY <4>2, <5>2, <5>3
        <4>3. CASE i = x
          <5>1. x - 1 \in 0..x /\ x - 1 < x
            BY <3>1
          <5>2. f[x - 1] = g[x - 1] /\ f[x] = Rewrite(g[x - 1], N + 1 - x)
            BY <3>1, <5>1
          <5>3. QED
            BY <2>3, <4>3, <5>2
        <4>4. QED
          BY <3>1, <4>1, <4>2, <4>3
      <3>4. f = [i \in 0..x |-> f[i]]
        OBVIOUS
      <3> HIDE DEF f, s0
      <3>5. Upto(f, x)
        BY <3>3, <3>4
      <3>6. QED
        BY <2>1, <3>5
    <2>4. QED
      BY <2>2, <2>3
  <1>3. \E f : Upto(f, N)
    BY <1>1, <1>2
  <1>4. Upto(Rewritten, N)
    BY <1>3 DEF Rewritten
  <1>5. QED
    BY <1>1, <1>4
\* The rows of the page that are written after i steps.
Done(i) == {m \in DOMAIN re.page : m > N - i}

\* What is so of the index, and of the rows written over newer ones, by then.
Redone(i, d, old) ==
    /\ Sound(d) /\ Together(d, old) /\ stale \subseteq old /\ old \subseteq Msgs
    /\ \A t \in ThreadIds : Summarised(db, t) => Summarised(d, t)
    /\ \A n \in Msgs : Listed(d, n)
    /\ \A p \in People : Reckoned(db, p) \/ (\E m \in Done(i) : p \in To[m]) => Reckoned(d, p)
    /\ DOMAIN d.rows = Rows \cup Done(i)
    /\ \A n \in DOMAIN d.rows \ old :
        /\ n \in Rows /\ d.rows[n].raw = db.rows[n].raw /\ d.rows[n].blob = db.rows[n].blob
        /\ Facts(d.rows[n]) = Facts(db.rows[n])
    /\ \A n \in Rows : Full(db.rows[n]) => Full(d.rows[n])
    /\ \A n \in DOMAIN d.rows :
        \/ \E k \in Rows : d.rows[n].thread = db.rows[k].thread
        \/ \E k \in Done(i) : d.rows[n].thread = d.rows[k].thread

\* The row that Reindexed writes.
Again(m) == [re.page[m] EXCEPT !.thread = IF re.rethread = "yes" THEN NoThread ELSE @]

\* A row of the page fits, and unless it is out of date its message has its thread.
LEMMA PageFits ==
    ASSUME PageSound, re.rethread \in {"no", "yes"}, NEW m \in DOMAIN re.page, NEW d, Sound(d)
    PROVE  /\ m \in Msgs /\ Fits(d, m, Again(m)) /\ Full(Again(m)) /\ Again(m).blob = Sha[m]
           /\ Facts(Again(m)) = Facts(re.page[m])
           /\ Again(m).thread # NoThread /\ ~Outdated(d, m) =>
                m \in d.reffed /\ d.rows[m].thread = Again(m).thread
  <1> DEFINE r == Again(m)
  <1>1. re.page[m] \in RowType /\ m \in Msgs
    BY DEF PageSound, Table
  <1>2. Full(re.page[m]) /\ re.page[m].blob = Sha[m]
    BY DEF PageSound
  <1>3. /\ r \in RowType /\ r.raw = re.page[m].raw /\ r.blob = re.page[m].blob
        /\ Facts(r) = Facts(re.page[m])
        /\ r.thread = IF re.rethread = "yes" THEN NoThread ELSE re.page[m].thread
    BY <1>1 DEF RowType, Facts, Again
  <1> HIDE DEF r
  <1>4. \/ re.page[m].thread = NoThread
        \/ re.page[m].thread \in 0..N /\ Named(m, re.page[m].thread)
    BY DEF PageSound
  <1>5. Fits(d, m, r)
    BY <1>2, <1>3, <1>4 DEF Fits, Full
  <1>6. ASSUME r.thread # NoThread, ~Outdated(d, m)
        PROVE  m \in d.reffed /\ d.rows[m].thread = r.thread
    <2>1. re.rethread = "no" /\ r.thread = re.page[m].thread /\ r.thread \in 0..N
      BY <1>3, <1>4, <1>6
    <2>2. m \in DOMAIN d.rows /\ d.rows[m].thread = r.thread
      BY <1>6, <2>1 DEF Outdated
    <2>3. RowSound(d, m)
      BY <2>2 DEF Sound
    <2>4. QED
      BY <1>1, <1>6, <2>1, <2>2, <2>3, Numbers DEF RowSound
  <1>7. QED
    BY <1>1, <1>2, <1>3, <1>5, <1>6 DEF Full, r

\* One row of the page is written.
LEMMA RewriteStep ==
    ASSUME PageSound, re.rethread \in {"no", "yes"}, NEW i \in 1..N, NEW b,
           Redone(i - 1, b.db, b.stale)
    PROVE  Redone(i, Rewrite(b, N + 1 - i).db, Rewrite(b, N + 1 - i).stale)
  <1> DEFINE m == N + 1 - i
             d == b.db
             f == Rewrite(b, m)
  <1>1. DOMAIN re.page \subseteq Msgs /\ N \in Nat /\ m \in Msgs
    BY Numbers DEF PageSound, Table, Msgs
  <1>2. CASE m \notin DOMAIN re.page
    <2>1. Done(i) = Done(i - 1)
      <3>1. \A n \in DOMAIN re.page : n \in Nat /\ n # m
        BY <1>1, <1>2, Numbers
      <3>2. \A n \in Nat : n # m => (n > N - i <=> n > N - (i - 1))
        BY ONLY <1>1, i \in 1..N
      <3>3. QED
        BY <3>1, <3>2 DEF Done
    <2>2. f = b
      BY <1>2 DEF Rewrite
    <2>3. QED
      BY <2>1, <2>2 DEF Redone
  <1>3. CASE m \in DOMAIN re.page
    <2> DEFINE r == Again(m)
               e == UpsertMessage(d, m, r)
               old == IF Outdated(d, m) THEN b.stale \cup {m} ELSE b.stale
    <2>1. f = [db |-> e, stale |-> old]
      BY <1>3 DEF Rewrite, Reindexed, Again
    <2>2. Done(i) = Done(i - 1) \cup {m}
      <3>1. \A n \in DOMAIN re.page : n \in Nat
        BY <1>1, Numbers
      <3>2. \A n \in Nat : n > N - i <=> n > N - (i - 1) \/ n = m
        BY ONLY <1>1, i \in 1..N
      <3> HIDE DEF m
      <3>3. QED
        BY <1>3, <3>1, <3>2 DEF Done
    <2>3. /\ Sound(d) /\ Fits(d, m, r) /\ Full(r) /\ r.blob = Sha[m] /\ Facts(r) = Facts(re.page[m])
          /\ r.thread # NoThread /\ ~Outdated(d, m) => m \in d.reffed /\ d.rows[m].thread = r.thread
      <3>1. Sound(d)
        BY DEF Redone
      <3> HIDE DEF d, m
      <3>2. QED
        BY <1>3, <3>1, PageFits
    <2> HIDE DEF m, d, r
    <2>4. /\ DOMAIN e.rows = DOMAIN d.rows \cup {m}
          /\ e.rows[m].raw = r.raw /\ e.rows[m].blob = r.blob /\ Facts(e.rows[m]) = Facts(r)
          /\ \A n \in DOMAIN d.rows \ {m} :
               /\ e.rows[n].raw = d.rows[n].raw /\ e.rows[n].blob = d.rows[n].blob
               /\ Facts(e.rows[n]) = Facts(d.rows[n])
               /\ e.rows[n].thread = d.rows[n].thread \/ e.rows[n].thread = e.rows[m].thread
          /\ \A n, k \in DOMAIN d.rows \ {m} :
               d.rows[n].thread = d.rows[k].thread => e.rows[n].thread = e.rows[k].thread
      BY <1>1, <2>3, UpsertRows
    <2>5. Redone(i - 1, d, b.stale)
      BY DEF d
    <2>6. b.stale \subseteq old /\ old \subseteq Msgs /\ stale \subseteq old
      BY <1>1, <2>5 DEF Redone
    <2>7. Together(d, old)
      BY <2>5, <2>6 DEF Redone, Together
    <2>8. r.thread # NoThread => m \in old \/ (m \in d.reffed /\ d.rows[m].thread = r.thread)
      BY <2>3
    <2> HIDE DEF old
    <2>9. Sound(e) /\ Together(e, old)
      BY <1>1, <2>3, <2>7, <2>8, UpsertSound, UpsertTogether
    <2>10. \A t \in ThreadIds : Summarised(db, t) => Summarised(e, t)
      BY <1>1, <2>3, <2>5, UpsertSummarised DEF Redone
    <2>11. \A n \in Msgs : Listed(d, n)
      BY <2>5 DEF Redone
    <2>12. \A n \in Msgs : Listed(e, n)
      BY <1>1, <2>3, <2>11, UpsertListed
    <2>13. \A p \in People : Reckoned(db, p) \/ (\E k \in Done(i) : p \in To[k]) => Reckoned(e, p)
      <3> SUFFICES ASSUME NEW p \in People, Reckoned(db, p) \/ (\E k \in Done(i) : p \in To[k])
                   PROVE  Reckoned(e, p)
        OBVIOUS
      <3>1. p \in To[m] \/ Reckoned(d, p)
        BY <2>2, <2>5 DEF Redone
      <3>2. QED
        BY <1>1, <2>3, <2>11, <3>1, UpsertReckoned
    <2> HIDE DEF e
    <2>14. DOMAIN e.rows = Rows \cup Done(i)
      BY <2>2, <2>4, <2>5 DEF Redone
    <2>15. ASSUME NEW n \in DOMAIN e.rows \ old
           PROVE  /\ n \in Rows /\ e.rows[n].raw = db.rows[n].raw /\ e.rows[n].blob = db.rows[n].blob
                  /\ Facts(e.rows[n]) = Facts(db.rows[n])
      <3>1. CASE n # m
        BY <2>4, <2>5, <2>6, <2>15, <3>1 DEF Redone
      <3>2. CASE n = m
        <4>1. ~Outdated(d, m)
          BY <2>15, <3>2 DEF old
        <4>2. /\ m \in DOMAIN d.rows /\ Facts(d.rows[m]) = Facts(re.page[m])
              /\ d.rows[m].blob = re.page[m].blob
          BY <4>1 DEF Outdated
        <4>3. re.page[m].blob = Sha[m] /\ Sha[m] # NoBlob
          BY <1>1, <1>3, Numbers DEF PageSound
        <4>4. Full(d.rows[m])
          BY <2>3, <4>2, <4>3 DEF Sound, RowSound
        <4>5. m \in DOMAIN d.rows \ b.stale
          BY <2>6, <2>15, <3>2, <4>2
        <4>6. /\ m \in Rows /\ d.rows[m].raw = db.rows[m].raw /\ d.rows[m].blob = db.rows[m].blob
              /\ Facts(d.rows[m]) = Facts(db.rows[m])
          BY <2>5, <4>5 DEF Redone
        <4>7. QED
          BY <2>3, <2>4, <3>2, <4>2, <4>3, <4>4, <4>6 DEF Full
      <3>3. QED
        BY <3>1, <3>2
    <2>16. ASSUME NEW n \in Rows, Full(db.rows[n]) PROVE Full(e.rows[n])
      <3>1. n \in DOMAIN d.rows /\ Full(d.rows[n])
        BY <2>5, <2>16 DEF Redone
      <3>2. QED
        BY <2>3, <2>4, <3>1 DEF Full
    <2>17. ASSUME NEW n \in DOMAIN e.rows
           PROVE  \/ \E k \in Rows : e.rows[n].thread = db.rows[k].thread
                  \/ \E k \in Done(i) : e.rows[n].thread = e.rows[k].thread
      <3>1. CASE n = m \/ e.rows[n].thread = e.rows[m].thread
        BY <2>2, <3>1
      <3>2. CASE n # m /\ e.rows[n].thread # e.rows[m].thread
        <4>1. n \in DOMAIN d.rows /\ e.rows[n].thread = d.rows[n].thread
          BY <2>4, <2>17, <3>2
        <4>2. CASE \E k \in Rows : d.rows[n].thread = db.rows[k].thread
          BY <4>1, <4>2
        <4>3. CASE \E k \in Done(i - 1) : d.rows[n].thread = d.rows[k].thread
          <5>1. PICK k \in Done(i - 1) : d.rows[n].thread = d.rows[k].thread
            BY <4>3
          <5>2. k \in DOMAIN d.rows /\ k \in Done(i) /\ k # m
            <6>1. k > N - (i - 1) /\ k \in DOMAIN re.page
              BY <5>1 DEF Done
            <6>2. k # m
              BY <1>1, <6>1, Numbers DEF m
            <6>3. QED
              BY <2>2, <2>5, <5>1, <6>2 DEF Redone
          <5>3. e.rows[n].thread = e.rows[k].thread
            BY <2>4, <3>2, <4>1, <5>1, <5>2
          <5>4. QED
            BY <5>2, <5>3
        <4>4. QED
          BY <2>5, <4>1, <4>2, <4>3 DEF Redone
      <3>3. QED
        BY <3>1, <3>2
    <2>18. Redone(i, e, old)
      BY <2>6, <2>9, <2>10, <2>12, <2>13, <2>14, <2>15, <2>16, <2>17 DEF Redone
    <2>19. Rewrite(b, m) = [db |-> e, stale |-> old]
      BY <2>1 DEF e, old, m
    <2>20. Rewrite(b, m).db = e /\ Rewrite(b, m).stale = old
      BY <2>19
    <2>21. QED
      BY <2>18, <2>20 DEF m
  <1>4. QED
    BY <1>2, <1>3
\* The whole page is.
LEMMA PageRewritten ==
    ASSUME IInv
    PROVE  Redone(N, Rewritten[N].db, Rewritten[N].stale)
  <1> DEFINE bad == {i \in 0..N : ~Redone(i, Rewritten[i].db, Rewritten[i].stale)}
  <1>1. N \in Nat /\ PageSound /\ re.rethread \in {"no", "yes"}
    BY Numbers DEF IInv, Typed
  <1>2. Redone(0, Rewritten[0].db, Rewritten[0].stale)
    <2>1. Rewritten[0].db = db /\ Rewritten[0].stale = stale
      BY RewrittenIs
    <2>2. Done(0) = {}
      BY <1>1 DEF Done, PageSound, Table, Msgs
    <2>3. Sound(db) /\ Together(db, stale) /\ stale \subseteq Msgs /\ \A n \in Msgs : Listed(db, n)
      BY DEF IInv, Typed, Derived
    <2>4. Redone(0, db, stale)
      BY <2>2, <2>3 DEF Redone, Rows
    <2>5. QED
      BY <2>1, <2>4
  <1>3. ASSUME bad # {} PROVE FALSE
    <2>1. PICK x \in bad : \A y \in bad : x <= y
      <3>1. bad \in SUBSET Nat
        OBVIOUS
      <3> HIDE DEF bad
      <3>2. QED
        BY <1>3, <3>1, Least
    <2>2. x \in 1..N /\ x - 1 \in 0..N /\ x - 1 \notin bad
      BY <1>1, <1>2, <2>1
    <2>3. Redone(x - 1, Rewritten[x - 1].db, Rewritten[x - 1].stale)
      BY <2>2
    <2>4. Redone(x, Rewrite(Rewritten[x - 1], N + 1 - x).db, Rewrite(Rewritten[x - 1], N + 1 - x).stale)
      BY <1>1, <2>2, <2>3, RewriteStep
    <2>5. Redone(x, Rewritten[x].db, Rewritten[x].stale)
      BY <2>2, <2>4, RewrittenIs
    <2>6. QED
      BY <2>1, <2>5
  <1>4. QED
    BY <1>1, <1>3

-----------------------------------------------------------------------------
(* Transactions.                                                           *)

\* What a transaction that writes the rows ms owes to what is derived.
Settles(ms, d) ==
    /\ Sound(d) /\ ms \subseteq DOMAIN d.rows /\ \A n \in Msgs : Listed(d, n)
    /\ \A t \in ThreadIds : Summarised(db, t) => Summarised(d, t)
    /\ \A p \in People : Reckoned(db, p) \/ (d.addr # db.addr /\ \E m \in ms : p \in To[m]) =>
            Reckoned(d, p)
    /\ \A n \in DOMAIN d.rows :
        \/ \E k \in Rows : d.rows[n].thread = db.rows[k].thread
        \/ \E k \in ms : d.rows[n].thread = d.rows[k].thread

\* A transaction that settles what it owes leaves what is derived right.
LEMMA StoreKeeps ==
    ASSUME IInv, NEW ms, NEW d, Settles(ms, d), Store(ms, d), gc' = gc, Together(d, stale')
    PROVE  /\ db' = d /\ Sound(db)' /\ Derived'
           /\ (fresh \subseteq ThreadIds /\ unlisted \subseteq ThreadIds /\ owed \subseteq People)'
  <1>1. db' = d
    BY DEF Store
  <1>2. Sound(db)'
    BY <1>1 DEF Settles
  <1>3. \A n \in DOMAIN d.rows : n \in Msgs /\ d.rows[n] \in RowType
    BY DEF Settles, Sound, IndexTyped, Table
  <1>4. /\ fresh' = IF gc.pc = "threads" THEN fresh \cup ({d.rows[m].thread : m \in ms} \ {NoThread})
                                        ELSE fresh
        /\ ms \subseteq DOMAIN d.rows
    BY DEF Store, Settles
  <1>5. fresh' \subseteq ThreadIds /\ unlisted' \subseteq ThreadIds /\ owed' \subseteq People
    <2>1. fresh \subseteq ThreadIds /\ unlisted \subseteq ThreadIds /\ owed \subseteq People
      BY DEF IInv, Typed
    <2>2. unlisted' \subseteq unlisted /\ owed' \subseteq owed
      BY DEF Store
    <2>3. QED
      BY <1>3, <1>4, <2>1, <2>2 DEF RowType
  <1>6. ThreadsKnown'
    <2> SUFFICES ASSUME gc.pc = "threads", NEW n \in DOMAIN d.rows
                 PROVE  d.rows[n].thread \in gc.ids \cup fresh' \cup {NoThread}
      BY <1>1 DEF ThreadsKnown, Rows
    <2>1. \A k \in Rows : db.rows[k].thread \in gc.ids \cup fresh \cup {NoThread}
      BY DEF IInv, Derived, ThreadsKnown
    <2>2. fresh \subseteq fresh' /\ \A k \in ms : d.rows[k].thread \in fresh' \cup {NoThread}
      BY <1>4
    <2>3. QED
      BY <2>1, <2>2 DEF Settles
  <1>7. \A t \in ThreadIds \ unlisted' : Summarised(d, t)
    BY DEF IInv, Derived, Settles, Store, Summarised
  <1>8. ASSUME NEW p \in People \ owed' PROVE Reckoned(d, p)
    <2>1. p \notin owed \/ (d.addr # db.addr /\ \E m \in ms : p \in To[m])
      BY <1>8 DEF Store
    <2>2. QED
      BY <2>1 DEF IInv, Derived, Settles
  <1>9. \A n \in Msgs : Listed(d, n)
    BY DEF Settles
  <1>10. Derived'
    BY <1>1, <1>6, <1>7, <1>8, <1>9 DEF Derived
  <1>11. QED
    BY <1>1, <1>2, <1>5, <1>10

\* A transaction of UpsertMessage or of a change in place settles what it owes.
LEMMA UpsertSettles ==
    ASSUME IInv, NEW m \in Msgs, NEW r, Fits(db, m, r), r.thread = NoThread
    PROVE  /\ Settles({m}, UpsertMessage(db, m, r)) /\ Together(UpsertMessage(db, m, r), stale)
  <1> DEFINE d == UpsertMessage(db, m, r)
  <1>1. Sound(db) /\ Together(db, stale) /\ \A n \in Msgs : Listed(db, n)
    BY DEF IInv, Derived
  <1>2. Sound(d) /\ Together(d, stale)
    BY <1>1, UpsertSound, UpsertTogether
  <1>3. \A n \in Msgs : Listed(d, n)
    BY <1>1, UpsertListed
  <1>4. \A t \in ThreadIds : Summarised(db, t) => Summarised(d, t)
    BY <1>1, UpsertSummarised
  <1>5. \A p \in People : p \in To[m] \/ Reckoned(db, p) => Reckoned(d, p)
    BY <1>1, UpsertReckoned
  <1>6. /\ DOMAIN d.rows = DOMAIN db.rows \cup {m}
        /\ \A n \in DOMAIN db.rows \ {m} :
             d.rows[n].thread = db.rows[n].thread \/ d.rows[n].thread = d.rows[m].thread
    BY <1>1, UpsertRows
  <1> HIDE DEF d
  <1>7. Settles({m}, d)
    BY <1>2, <1>3, <1>4, <1>5, <1>6 DEF Settles, Rows
  <1>8. QED
    BY <1>2, <1>7 DEF d

\* A change in place does, too.
LEMMA SetRowSettles ==
    ASSUME IInv, NEW m \in Msgs, NEW row, Changed(db, m, row)
    PROVE  Settles({m}, SetRow(db, m, row)) /\ Together(SetRow(db, m, row), stale)
  <1> DEFINE d == SetRow(db, m, row)
  <1>1. /\ Sound(d) /\ d.rows = [db.rows EXCEPT ![m] = row] /\ d.addr = db.addr /\ d.book = db.book
        /\ d.reffed = db.reffed
        /\ \A t \in ThreadIds : Summarised(db, t) => Summarised(d, t)
        /\ \A old : Together(db, old) => Together(d, old)
    BY SetRowSound
  <1> HIDE DEF d
  <1>2. \A n \in Msgs : Listed(db, n)
    BY DEF IInv, Derived
  <1>3. \A n \in Msgs : Listed(d, n)
    BY <1>1, <1>2 DEF Listed
  <1>4. \A p \in People : Reckoned(db, p) => Reckoned(d, p)
    BY <1>1 DEF Reckoned
  <1>5. \A n \in DOMAIN d.rows : d.rows[n].thread = db.rows[n].thread
    BY <1>1 DEF Changed
  <1>6. DOMAIN d.rows = Rows /\ m \in Rows
    BY <1>1 DEF Changed, Rows
  <1>7. Together(d, stale)
    BY <1>1 DEF IInv, Derived
  <1>8. Settles({m}, d)
    BY <1>1, <1>3, <1>4, <1>5, <1>6 DEF Settles
  <1>9. QED
    BY <1>7, <1>8 DEF d
\* A pass or a reader has committed: what is derived is settled, and the row says
\* what was written of it.
Commits(m) ==
    /\ (Sound(db) /\ Derived /\ FactsStand)'
    /\ (/\ fresh \subseteq ThreadIds /\ unlisted \subseteq ThreadIds /\ owed \subseteq People
        /\ wrote \in [Msgs -> Boxes \X {"no", "yes"}])'
    /\ Rows \cup {m} = Rows'
    /\ \A n \in Rows \ {m} : db.rows[n].raw = db'.rows[n].raw

\* A transaction of a pass or a reader that settles what it owes is such a commit.
LEMMA CommitKeeps ==
    ASSUME IInv, NEW m \in Msgs, NEW d, Settles({m}, d), Together(d, stale), Commit(m, d),
           gc' = gc, stale' = stale, DOMAIN d.rows = Rows \cup {m},
           \A n \in Rows \ {m} : d.rows[n].raw = db.rows[n].raw /\ Facts(d.rows[n]) = Facts(db.rows[n])
    PROVE  Commits(m) /\ db' = d
  <1>1. Store({m}, d) /\ wrote' = [wrote EXCEPT ![m] = Facts(d.rows[m])]
    BY DEF Commit
  <1>2. /\ db' = d /\ Sound(db)' /\ Derived'
        /\ (fresh \subseteq ThreadIds /\ unlisted \subseteq ThreadIds /\ owed \subseteq People)'
    BY <1>1, StoreKeeps
  <1>3. wrote \in [Msgs -> Boxes \X {"no", "yes"}] /\ FactsStand
    BY DEF IInv, Typed
  <1>4. d.rows[m] \in RowType
    BY DEF Settles, Sound, IndexTyped, Table
  <1>5. wrote' \in [Msgs -> Boxes \X {"no", "yes"}]
    BY <1>1, <1>3, <1>4 DEF Facts, RowType, Boxes
  <1>6. Rows' = Rows \cup {m}
    BY <1>2 DEF Rows
  <1>7. FactsStand'
    <2> SUFFICES ASSUME NEW n \in (Rows \cup {m}) \ stale PROVE Facts(d.rows[n]) = wrote'[n]
      BY <1>2, <1>6 DEF FactsStand
    <2>1. n \in Msgs
      BY DEF IInv, Sound, IndexTyped, Table, Rows
    <2>2. QED
      BY <1>1, <1>3, <2>1 DEF FactsStand
  <1>8. QED
    BY <1>2, <1>5, <1>6, <1>7 DEF Commits

\* UpsertMessage does.
LEMMA CommitUpsert ==
    ASSUME IInv, NEW m \in Msgs, NEW r, Fits(db, m, r), r.thread = NoThread,
           Commit(m, UpsertMessage(db, m, r)), gc' = gc, stale' = stale
    PROVE  Commits(m) /\ db'.rows[m].raw = r.raw
  <1> DEFINE d == UpsertMessage(db, m, r)
  <1>1. Settles({m}, d) /\ Together(d, stale) /\ Sound(db)
    BY UpsertSettles DEF IInv
  <1>2. /\ DOMAIN d.rows = Rows \cup {m} /\ d.rows[m].raw = r.raw
        /\ \A n \in Rows \ {m} :
             d.rows[n].raw = db.rows[n].raw /\ Facts(d.rows[n]) = Facts(db.rows[n])
    BY <1>1, UpsertRows DEF Rows
  <1> HIDE DEF d
  <1>3. Commits(m) /\ db' = d
    BY <1>1, <1>2, CommitKeeps DEF d
  <1>4. QED
    BY <1>2, <1>3

\* MarkDeleted and ApplyRemoteState do.
LEMMA CommitChange ==
    ASSUME IInv, NEW m \in Rows, NEW b \in Boxes, NEW g \in {"no", "yes"},
           Commit(m, SetRow(db, m, [db.rows[m] EXCEPT !.gone = g, !.box = b])), gc' = gc,
           stale' = stale
    PROVE  Commits(m) /\ db'.rows[m].raw = db.rows[m].raw
  <1> DEFINE row == [db.rows[m] EXCEPT !.gone = g, !.box = b]
             d == SetRow(db, m, row)
  <1>1. Sound(db) /\ m \in Msgs /\ m \in DOMAIN db.rows
    BY DEF IInv, Sound, IndexTyped, Table, Rows
  <1>2. Changed(db, m, row)
    BY <1>1, ChangesRow
  <1> HIDE DEF row
  <1>3. Settles({m}, d) /\ Together(d, stale) /\ d.rows = [db.rows EXCEPT ![m] = row]
    BY <1>1, <1>2, SetRowSettles, SetRowSound
  <1>4. /\ DOMAIN d.rows = Rows \cup {m} /\ d.rows[m].raw = db.rows[m].raw
        /\ \A n \in Rows \ {m} :
             d.rows[n].raw = db.rows[n].raw /\ Facts(d.rows[n]) = Facts(db.rows[n])
    BY <1>1, <1>2, <1>3 DEF Rows, Changed
  <1> HIDE DEF d
  <1>5. Commits(m) /\ db' = d
    BY <1>1, <1>3, <1>4, CommitKeeps DEF d, row
  <1>6. QED
    BY <1>4, <1>5

\* So does writing a row as it is.
LEMMA CommitSame ==
    ASSUME IInv, NEW m \in Rows, Commit(m, db), gc' = gc, stale' = stale
    PROVE  Commits(m) /\ db'.rows[m].raw = db.rows[m].raw
  <1>1. m \in Msgs /\ Together(db, stale)
    BY DEF IInv, Derived, Sound, IndexTyped, Table, Rows
  <1>2. Settles({m}, db)
    BY DEF IInv, Derived, Settles, Rows
  <1>3. Commits(m) /\ db' = db
    BY <1>1, <1>2, CommitKeeps DEF Rows
  <1>4. QED
    BY <1>3

-----------------------------------------------------------------------------
(* Bytes.                                                                  *)

\* A row has the bytes of its message, or none.
LEMMA FullRow ==
    ASSUME Sound(db), NEW m \in Rows
    PROVE  /\ m \in Msgs
           /\ Full(db.rows[m]) => db.rows[m].blob = Sha[m]
           /\ \A s \in Shas : db.rows[m].blob = s => Full(db.rows[m]) /\ Sha[m] = s
  BY ContentsAssumption DEF Sound, IndexTyped, Table, RowSound, Rows

\* A file that a Put finds belongs to a row whose bytes are safe, or is exposed.
LEMMA CountedOn ==
    ASSUME IInv, NEW s \in Shas, Counted(s)
    PROVE  /\ exposed \subseteq exposed' /\ exposed' \subseteq Shas
           /\ s \in exposed' \/ (Backed(s) /\ \E m \in Rows : db.rows[m].blob = s)
  <1>1. exposed \subseteq Shas /\ Sound(db) /\ RowsBacked
    BY DEF IInv, Typed, Bytes
  <1>2. CASE \E m \in Rows \ stale : db.rows[m].blob = s /\ Live(db.rows[m])
    <2>1. PICK m \in Rows \ stale : db.rows[m].blob = s
      BY <1>2
    <2>2. Full(db.rows[m]) /\ Sha[m] = s
      BY <1>1, <2>1, FullRow
    <2>3. QED
      BY <1>1, <1>2, <2>1, <2>2 DEF Counted, RowsBacked
  <1>3. CASE ~\E m \in Rows \ stale : db.rows[m].blob = s /\ Live(db.rows[m])
    BY <1>1, <1>3 DEF Counted
  <1>4. QED
    BY <1>2, <1>3

\* A writer has its blob.
HasBlob(s) ==
    \/ s \in exposed
    \/ /\ Backed(s)
       /\ \/ \E m \in Rows : db.rows[m].blob = s
          \/ s \in young /\ (gc.pc = "idle" \/ s \notin gc.purged)

\* The invariant of writers, in these words.
LEMMA WriterHas == WritersBacked <=> \A w \in Writers : at[w] = "row" => HasBlob(Sha[job[w]])
  BY DEF WritersBacked, HasBlob

\* Files, the collector and rows with their bytes stay as they are; a new row with
\* bytes is one whose writer had them.
LEMMA BytesKept ==
    ASSUME IInv, Sound(db)', files' = files, young' = young, gc' = gc, stale \subseteq stale',
           exposed \subseteq exposed',
           \A n \in Rows' \ stale' : Full(db'.rows[n]) =>
               (n \in Rows /\ Full(db.rows[n])) \/ HasBlob(Sha[n]),
           \A n \in Rows : Full(db.rows[n]) => n \in Rows' /\ Full(db'.rows[n]),
           \A w \in Writers : at'[w] = "row" => HasBlob(Sha[job'[w]]) \/ Sha[job'[w]] \in exposed',
           job' \in [Writers -> Msgs]
    PROVE  Bytes'
  <1>1. \A s : Backed(s)' <=> Backed(s)
    BY DEF Backed
  <1>2. Sound(db) /\ Bytes
    BY DEF IInv
  <1>3. RowsBacked'
    <2> SUFFICES ASSUME NEW n \in Rows' \ stale', Full(db'.rows[n]), Sha[n] \notin exposed'
                 PROVE  Backed(Sha[n])
      BY <1>1 DEF RowsBacked
    <2>1. CASE n \in Rows /\ Full(db.rows[n])
      BY <1>2, <2>1 DEF Bytes, RowsBacked
    <2>2. CASE HasBlob(Sha[n])
      BY <2>2 DEF HasBlob
    <2>3. QED
      BY <2>1, <2>2
  <1>4. ASSUME NEW s \in Shas, \E m \in Rows : db.rows[m].blob = s
        PROVE  \E m \in Rows' : db'.rows[m].blob = s
    <2>1. PICK m \in Rows : db.rows[m].blob = s
      BY <1>4
    <2>2. Full(db.rows[m]) /\ Sha[m] = s
      BY <1>2, <2>1, FullRow
    <2>3. m \in Rows' /\ Full(db'.rows[m])
      BY <2>2
    <2>4. db'.rows[m].blob = Sha[m]
      BY <2>3 DEF Sound, RowSound, Rows
    <2>5. QED
      BY <2>2, <2>3, <2>4
  <1>5. WritersBacked'
    <2> SUFFICES ASSUME NEW w \in Writers, at'[w] = "row", Sha[job'[w]] \notin exposed'
                 PROVE  /\ Backed(Sha[job'[w]])
                        /\ \/ \E m \in Rows' : db'.rows[m].blob = Sha[job'[w]]
                           \/ Sha[job'[w]] \in young /\ (gc.pc = "idle" \/ Sha[job'[w]] \notin gc.purged)
      BY <1>1 DEF WritersBacked
    <2>1. HasBlob(Sha[job'[w]])
      OBVIOUS
    <2>2. Sha[job'[w]] \in Shas
      BY Numbers
    <2>3. QED
      BY <1>4, <2>1, <2>2 DEF HasBlob
  <1>6. QED
    BY <1>2, <1>3, <1>5 DEF Bytes
-----------------------------------------------------------------------------
(* A pass and a reader.                                                    *)

\* What is derived depends on the index and the collector's list alone.
LEMMA SameDerived ==
    ASSUME IInv, UNCHANGED <<db, gc, stale, fresh, unlisted, owed>>
    PROVE  Sound(db)' /\ Derived'
  <1>1. Sound(db) /\ Derived
    BY DEF IInv
  <1>2. Sound(db)' /\ Together(db, stale)' /\ ThreadsKnown'
    BY <1>1 DEF Derived, ThreadsKnown, Rows
  <1>3. (\A t \in ThreadIds \ unlisted : Summarised(db, t))'
    BY <1>1 DEF Derived
  <1>4. (\A p \in People \ owed : Reckoned(db, p))'
    BY <1>1 DEF Derived
  <1>5. (\A m \in Msgs : Listed(db, m))'
    BY <1>1 DEF Derived
  <1>6. QED
    BY <1>2, <1>3, <1>4, <1>5 DEF Derived

\* The facts, too, and those of the page.
LEMMA SameFacts ==
    ASSUME FactsStand, UNCHANGED <<db, stale, wrote>>
    PROVE  FactsStand'
  BY DEF FactsStand, Rows

\* A page is sound as long as it stays.
LEMMA SamePage ==
    ASSUME PageSound, re' = re
    PROVE  PageSound'
  BY DEF PageSound

\* Rows are messages.
LEMMA RowsTyped ==
    ASSUME Sound(db)
    PROVE  Rows \subseteq Msgs /\ db.rows \in [Rows -> RowType]
  BY DEF Sound, IndexTyped, Table, Rows

\* A writer with a file to count on, and one that has to write it first.
LEMMA PrepareKeeps ==
    ASSUME IInv, NEW w \in Writers, NEW m \in Msgs, at[w] = "idle", Prepare(w, m),
           UNCHANGED <<provider, files, young, db, gc, stale>>
    PROVE  /\ Bytes'
           /\ (/\ temp \subseteq Writers /\ at \in [Writers -> {"idle", "link", "row"}]
               /\ job \in [Writers -> Msgs] /\ seen \in [Writers -> Boxes] /\ exposed \subseteq Shas)'
  <1>1. /\ temp \subseteq Writers /\ at \in [Writers -> {"idle", "link", "row"}]
        /\ job \in [Writers -> Msgs] /\ seen \in [Writers -> Boxes] /\ exposed \subseteq Shas
        /\ filed \in [Msgs -> Boxes] /\ Sha[m] \in Shas
    BY Numbers DEF IInv, Typed
  <1>2. job' = [job EXCEPT ![w] = m] /\ seen' = [seen EXCEPT ![w] = filed[m]]
    BY DEF Prepare
  <1>3. /\ exposed \subseteq exposed' /\ exposed' \subseteq Shas
        /\ at' \in [Writers -> {"idle", "link", "row"}] /\ temp' \subseteq Writers
        /\ \A v \in Writers : at'[v] = "row" => v = w \/ at[v] = "row"
        /\ at'[w] = "row" => HasBlob(Sha[m]) \/ Sha[m] \in exposed'
    <2>1. CASE Sha[m] \in files /\ Counted(Sha[m]) /\ Step(w, "row") /\ UNCHANGED temp
      <3>1. /\ exposed \subseteq exposed' /\ exposed' \subseteq Shas
            /\ Sha[m] \in exposed' \/ (Backed(Sha[m]) /\ \E k \in Rows : db.rows[k].blob = Sha[m])
        BY <1>1, <2>1, CountedOn
      <3>2. QED
        BY <1>1, <2>1, <3>1 DEF Step, HasBlob
    <2>2. CASE Step(w, "link") /\ temp' = temp \cup {w} /\ UNCHANGED exposed
      BY <1>1, <2>2 DEF Step
    <2>3. QED
      BY <2>1, <2>2 DEF Prepare
  <1>4. job' \in [Writers -> Msgs] /\ seen' \in [Writers -> Boxes]
    BY <1>1, <1>2
  <1>5. \A v \in Writers : at'[v] = "row" => HasBlob(Sha[job'[v]]) \/ Sha[job'[v]] \in exposed'
    <2> SUFFICES ASSUME NEW v \in Writers, at'[v] = "row"
                 PROVE  HasBlob(Sha[job'[v]]) \/ Sha[job'[v]] \in exposed'
      OBVIOUS
    <2>1. CASE v = w
      BY <1>1, <1>2, <1>3, <2>1
    <2>2. CASE v # w
      <3>1. at[v] = "row" /\ job'[v] = job[v]
        BY <1>1, <1>2, <1>3, <2>2
      <3>2. QED
        BY <3>1, WriterHas DEF IInv, Bytes
    <2>3. QED
      BY <2>1, <2>2
  <1>6. Bytes'
    <2>1. Sound(db)' /\ Rows' = Rows
      BY DEF IInv, Rows
    <2>2. QED
      BY <1>3, <1>4, <1>5, <2>1, BytesKept
  <1>7. QED
    BY <1>1, <1>3, <1>4, <1>6

\* A pass prepares a message that the index has not.
LEMMA BeginFetchKeeps == ASSUME IInv, NEW m \in Msgs, BeginFetch(m) PROVE IInv'
  <1>1. /\ UNCHANGED <<provider, files, young, db, gc, stale, fresh, unlisted, owed, re, wrote, spent>>
        /\ at["sync"] = "idle" /\ Prepare("sync", m) /\ "sync" \in Writers
    BY DEF BeginFetch, Idle, Writers
  <1>2. /\ Bytes'
        /\ (/\ temp \subseteq Writers /\ at \in [Writers -> {"idle", "link", "row"}]
            /\ job \in [Writers -> Msgs] /\ seen \in [Writers -> Boxes] /\ exposed \subseteq Shas)'
    BY <1>1, PrepareKeeps
  <1>3. Sound(db)' /\ Derived' /\ FactsStand' /\ PageSound'
    BY <1>1, SameDerived, SameFacts, SamePage DEF IInv
  <1>4. Typed'
    BY <1>1, <1>2 DEF IInv, Typed, provider
  <1>5. QED
    BY <1>2, <1>3, <1>4 DEF IInv

\* A pass writes a stub for a message that is too big.
LEMMA WriteStubKeeps == ASSUME IInv, NEW m \in Msgs, WriteStub(m) PROVE IInv'
  <1> DEFINE r == [blob |-> NoBlob, raw |-> "stub", box |-> filed[m], gone |-> "no", thread |-> NoThread]
  <1>1. /\ UNCHANGED <<there, filed, files, young, temp, at, job, seen, gc, re, exposed, stale, spent>>
        /\ m \notin Rows /\ Commit(m, UpsertMessage(db, m, r))
    BY DEF WriteStub, provider, store, writers
  <1>2. Fits(db, m, r) /\ r.thread = NoThread /\ r.raw = "stub"
    BY <1>1 DEF Fits, RowType, Full, Rows, IInv, Typed, Boxes
  <1> HIDE DEF r
  <1>3. Commits(m) /\ db'.rows[m].raw = "stub"
    BY <1>1, <1>2, CommitUpsert
  <1>4. Bytes'
    <2>1. \A n \in Rows' : Full(db'.rows[n]) => n \in Rows /\ Full(db.rows[n])
      BY <1>3 DEF Commits, Full
    <2>2. \A n \in Rows : Full(db.rows[n]) => n \in Rows' /\ Full(db'.rows[n])
      BY <1>1, <1>3 DEF Commits, Full
    <2>3. \A w \in Writers : at'[w] = "row" => HasBlob(Sha[job'[w]])
      BY <1>1, WriterHas DEF IInv, Bytes
    <2>4. Sound(db)' /\ job' \in [Writers -> Msgs]
      BY <1>1, <1>3 DEF Commits, IInv, Typed
    <2>5. QED
      BY <1>1, <2>1, <2>2, <2>3, <2>4, BytesKept
  <1>5. Typed'
    BY <1>1, <1>3 DEF IInv, Typed, Commits
  <1>6. PageSound'
    BY <1>1, SamePage DEF IInv
  <1>7. QED
    BY <1>3, <1>4, <1>5, <1>6 DEF IInv, Commits

\* A commit that gives no row its bytes.
LEMMA CommitKeepsBytes ==
    ASSUME IInv, NEW m \in Rows, Commits(m), db'.rows[m].raw = db.rows[m].raw,
           UNCHANGED <<files, young, gc, at, job, exposed, stale>>
    PROVE  Bytes'
  <1>1. m \in Msgs /\ m \in Rows
    BY RowsTyped DEF IInv
  <1>2. \A n \in Rows' : n \in Rows /\ (Full(db'.rows[n]) => Full(db.rows[n]))
    BY <1>1 DEF Commits, Full
  <1>3. \A n \in Rows : Full(db.rows[n]) => n \in Rows' /\ Full(db'.rows[n])
    BY <1>1 DEF Commits, Full
  <1>4. \A w \in Writers : at'[w] = "row" => HasBlob(Sha[job'[w]])
    BY WriterHas DEF IInv, Bytes
  <1>5. Sound(db)' /\ job' \in [Writers -> Msgs]
    BY DEF Commits, IInv, Typed
  <1>6. QED
    BY <1>2, <1>3, <1>4, <1>5, BytesKept

\* MarkDeleted is a change in place.
LEMMA MarkKeeps ==
    ASSUME IInv, NEW m \in Rows, NEW b \in Boxes,
           Commit(m, MarkDeleted(db, m)) \/ Commit(m, ApplyRemoteState(db, m, b)),
           gc' = gc, stale' = stale
    PROVE  Commits(m) /\ db'.rows[m].raw = db.rows[m].raw
  <1>1. db.rows[m] \in RowType /\ m \in Msgs
    BY RowsTyped DEF IInv
  <1>2. CASE Commit(m, MarkDeleted(db, m))
    BY <1>2, CommitChange DEF MarkDeleted, Boxes
  <1>3. CASE Commit(m, ApplyRemoteState(db, m, b))
    <2>1. [db.rows[m] EXCEPT !.box = b] = [db.rows[m] EXCEPT !.gone = db.rows[m].gone, !.box = b]
      BY <1>1 DEF RowType
    <2>2. db.rows[m].gone \in {"no", "yes"}
      BY <1>1 DEF RowType
    <2>3. QED
      BY <1>3, <2>1, <2>2, CommitChange DEF ApplyRemoteState
  <1>4. QED
    BY <1>2, <1>3

\* A pass marks what is gone and moves what was filed elsewhere.
LEMMA ApplyDeltaKeeps == ASSUME IInv, NEW m \in Msgs, ApplyDelta(m) PROVE IInv'
  <1>1. /\ UNCHANGED <<there, filed, files, young, temp, at, job, seen, gc, re, exposed, stale, spent>>
        /\ m \in Rows /\ (Commit(m, MarkDeleted(db, m)) \/ Commit(m, ApplyRemoteState(db, m, filed[m])))
    BY DEF ApplyDelta, provider, store, writers
  <1>2. filed[m] \in Boxes
    BY DEF IInv, Typed
  <1>3. Commits(m) /\ db'.rows[m].raw = db.rows[m].raw
    BY <1>1, <1>2, MarkKeeps
  <1>4. Bytes'
    BY <1>1, <1>3, CommitKeepsBytes
  <1>5. Typed'
    BY <1>1, <1>3 DEF IInv, Typed, Commits
  <1>6. PageSound'
    BY <1>1, SamePage DEF IInv
  <1>7. QED
    BY <1>3, <1>4, <1>5, <1>6 DEF IInv, Commits

\* What is spent is a number of each event.
LEMMA SpendTyped == ASSUME IInv, NEW e \in Events, Spend(e) PROVE spent' \in [Events -> Nat]
  BY DEF IInv, Typed, Spend

\* A reader fetches the bytes it misses, or marks the message deleted.
LEMMA EnsureRawKeeps == ASSUME IInv, NEW m \in Msgs, EnsureRaw(m) PROVE IInv'
  <1>1. /\ UNCHANGED <<there, filed, files, young, gc, re, stale>>
        /\ m \in Rows /\ at["reader"] = "idle" /\ "reader" \in Writers
        /\ spent' \in [Events -> Nat]
    BY SpendTyped DEF EnsureRaw, provider, Idle, Writers, Events
  <1>2. PageSound'
    BY <1>1, SamePage DEF IInv
  <1>3. CASE m \in there /\ Prepare("reader", m) /\ UNCHANGED <<db, fresh, unlisted, owed, wrote>>
    <2>1. /\ Bytes'
          /\ (/\ temp \subseteq Writers /\ at \in [Writers -> {"idle", "link", "row"}]
              /\ job \in [Writers -> Msgs] /\ seen \in [Writers -> Boxes] /\ exposed \subseteq Shas)'
      BY <1>1, <1>3, PrepareKeeps DEF provider
    <2>2. Sound(db)' /\ Derived' /\ FactsStand'
      BY <1>1, <1>3, SameDerived, SameFacts DEF IInv
    <2>3. Typed'
      BY <1>1, <1>3, <2>1 DEF IInv, Typed
    <2>4. QED
      BY <1>2, <2>1, <2>2, <2>3 DEF IInv
  <1>4. CASE /\ Commit(m, IF Live(db.rows[m]) THEN MarkDeleted(db, m) ELSE db)
             /\ UNCHANGED <<writers, temp, exposed>>
    <2>1. UNCHANGED <<at, job, seen, temp, exposed>>
      BY <1>4 DEF writers
    <2>2. Commits(m) /\ db'.rows[m].raw = db.rows[m].raw
      <3>1. CASE Live(db.rows[m])
        BY <1>1, <1>4, <3>1, MarkKeeps DEF Boxes
      <3>2. CASE ~Live(db.rows[m])
        BY <1>1, <1>4, <3>2, CommitSame
      <3>3. QED
        BY <3>1, <3>2
    <2>3. Bytes'
      BY <1>1, <2>1, <2>2, CommitKeepsBytes
    <2>4. Typed'
      BY <1>1, <2>1, <2>2 DEF IInv, Typed, Commits
    <2>5. QED
      BY <1>2, <2>2, <2>3, <2>4 DEF IInv, Commits
  <1>5. QED
    BY <1>3, <1>4 DEF EnsureRaw

\* A writer commits the row of bytes that it has.
LEMMA WriteRowKeeps == ASSUME IInv, NEW w \in Writers, WriteRow(w) PROVE IInv'
  <1> DEFINE m == job[w]
             r == [blob |-> Sha[m], raw |-> "full", box |-> seen[w], gone |-> "no", thread |-> NoThread]
  <1>1. /\ UNCHANGED <<there, filed, files, young, temp, job, seen, gc, re, exposed, stale, spent>>
        /\ at[w] = "row" /\ Commit(m, UpsertMessage(db, m, r)) /\ at' = [at EXCEPT ![w] = "idle"]
    BY DEF WriteRow, provider, store, Step
  <1>2. m \in Msgs /\ seen[w] \in Boxes /\ at \in [Writers -> {"idle", "link", "row"}]
    BY DEF IInv, Typed
  <1> HIDE DEF m
  <1>3. Fits(db, m, r) /\ r.thread = NoThread /\ r.raw = "full"
    BY <1>2, Numbers DEF Fits, RowType, Full, Boxes
  <1> HIDE DEF r
  <1>4. Commits(m) /\ db'.rows[m].raw = "full"
    BY <1>1, <1>2, <1>3, CommitUpsert
  <1>5. Bytes'
    <2>1. \A v \in Writers : at[v] = "row" => HasBlob(Sha[job[v]])
      BY WriterHas DEF IInv, Bytes
    <2>2. \A n \in Rows' : Full(db'.rows[n]) => (n \in Rows /\ Full(db.rows[n])) \/ HasBlob(Sha[n])
      BY <1>1, <1>4, <2>1 DEF Commits, Full, m
    <2>3. \A n \in Rows : Full(db.rows[n]) => n \in Rows' /\ Full(db'.rows[n])
      BY <1>4 DEF Commits, Full
    <2>4. \A v \in Writers : at'[v] = "row" => HasBlob(Sha[job'[v]])
      BY <1>1, <1>2, <2>1
    <2>5. Sound(db)' /\ job' \in [Writers -> Msgs]
      BY <1>1, <1>4 DEF Commits, IInv, Typed
    <2>6. QED
      BY <1>1, <2>2, <2>3, <2>4, <2>5, BytesKept
  <1>6. Typed'
    BY <1>1, <1>2, <1>4 DEF IInv, Typed, Commits
  <1>7. PageSound'
    BY <1>1, SamePage DEF IInv
  <1>8. QED
    BY <1>4, <1>5, <1>6, <1>7 DEF IInv, Commits

\* A writer puts its file in place, finds another's, or finds its own swept away.
LEMMA PutLinkKeeps == ASSUME IInv, NEW w \in Writers, PutLink(w) PROVE IInv'
  <1> DEFINE s == Sha[job[w]]
  <1>1. /\ UNCHANGED <<there, filed, db, job, seen, gc, re, stale, fresh, unlisted, owed, wrote, spent>>
        /\ at[w] = "link" /\ temp' = temp \ {w}
    BY DEF PutLink, provider
  <1>2. /\ job[w] \in Msgs /\ s \in Shas /\ temp \subseteq Writers
        /\ at \in [Writers -> {"idle", "link", "row"}] /\ job' \in [Writers -> Msgs]
        /\ young \subseteq files /\ files \subseteq Shas /\ exposed \subseteq Shas
    BY <1>1, Numbers DEF IInv, Typed
  <1>3. Sound(db)' /\ Derived' /\ FactsStand' /\ PageSound' /\ Rows' = Rows
    BY <1>1, SameDerived, SameFacts, SamePage DEF IInv, Rows
  <1>4. \A v \in Writers : at[v] = "row" => HasBlob(Sha[job[v]])
    BY WriterHas DEF IInv, Bytes
  <1> HIDE DEF s
  <1>5. ASSUME files' = files, young' = young, at' \in [Writers -> {"idle", "link", "row"}],
               exposed \subseteq exposed', exposed' \subseteq Shas,
               \A v \in Writers \ {w} : at'[v] = at[v],
               at'[w] = "row" => s \in exposed' \/ HasBlob(s)
        PROVE  IInv'
    <2>1. \A v \in Writers : at'[v] = "row" => HasBlob(Sha[job'[v]]) \/ Sha[job'[v]] \in exposed'
      BY <1>1, <1>4, <1>5 DEF s
    <2>2. Bytes'
      BY <1>1, <1>2, <1>3, <1>5, <2>1, BytesKept
    <2>3. Typed'
      BY <1>1, <1>2, <1>5 DEF IInv, Typed
    <2>4. QED
      BY <1>3, <2>2, <2>3 DEF IInv
  <1>6. CASE s \in files /\ Counted(s) /\ Step(w, "row") /\ UNCHANGED <<files, young>>
    <2>1. /\ exposed \subseteq exposed' /\ exposed' \subseteq Shas
          /\ s \in exposed' \/ (Backed(s) /\ \E m \in Rows : db.rows[m].blob = s)
      BY <1>2, <1>6, CountedOn
    <2>2. at' = [at EXCEPT ![w] = "row"]
      BY <1>6 DEF Step
    <2>3. QED
      BY <1>2, <1>5, <1>6, <2>1, <2>2 DEF HasBlob
  <1>7. CASE /\ s \notin files /\ files' = files \cup {s} /\ young' = young \cup {s}
             /\ exposed' = IF gc.pc # "idle" /\ s \in gc.purged THEN exposed \cup {s} ELSE exposed
             /\ Step(w, "row")
    <2>1. at' = [at EXCEPT ![w] = "row"]
      BY <1>7 DEF Step
    <2>2. \A c : Backed(c) => Backed(c)'
      BY <1>1, <1>7 DEF Backed
    <2>3. RowsBacked'
      BY <1>1, <1>3, <1>7, <2>2 DEF IInv, Bytes, RowsBacked
    <2>4. ASSUME NEW v \in Writers, NEW c \in Shas, c = Sha[job'[v]], at'[v] = "row", c \notin exposed'
          PROVE  /\ Backed(c)'
                 /\ \/ \E m \in Rows' : db'.rows[m].blob = c
                    \/ c \in young' /\ (gc'.pc = "idle" \/ c \notin gc'.purged)
      <3>1. CASE v # w
        <4>1. at[v] = "row" /\ c \notin exposed /\ Sha[job[v]] = c
          BY <1>1, <1>2, <1>7, <2>1, <2>4, <3>1
        <4>2. HasBlob(c)
          BY <1>4, <4>1
        <4>3. QED
          BY <1>1, <1>3, <1>7, <2>2, <4>1, <4>2 DEF HasBlob
      <3>2. CASE v = w
        <4>1. c = s /\ s \in young' /\ s \in files'
          BY <1>1, <1>7, <2>4, <3>2 DEF s
        <4>2. gc.pc = "idle" \/ s \notin gc.purged
          BY <1>7, <2>4, <4>1
        <4>3. gc.pc = "delete" => s \notin gc.orphans
          BY <1>7 DEF IInv, Bytes
        <4>4. QED
          BY <1>1, <4>1, <4>2, <4>3 DEF Backed
      <3>3. QED
        BY <3>1, <3>2
    <2>5. WritersBacked'
      <3>1. \A v \in Writers : Sha[job'[v]] \in Shas
        BY <1>2, Numbers
      <3>2. QED
        BY <2>4, <3>1 DEF WritersBacked, Backed
    <2>6. (gc.pc = "delete" => gc.orphans \subseteq files)'
      BY <1>1, <1>7 DEF IInv, Bytes
    <2>7. Typed'
      BY <1>1, <1>2, <1>7, <2>1 DEF IInv, Typed
    <2>8. QED
      BY <1>3, <2>3, <2>5, <2>6, <2>7 DEF IInv, Bytes
  <1>8. CASE Step(w, "idle") /\ UNCHANGED <<files, young, exposed>>
    <2>1. at' = [at EXCEPT ![w] = "idle"]
      BY <1>8 DEF Step
    <2>2. QED
      BY <1>2, <1>5, <1>8, <2>1
  <1>9. QED
    BY <1>6, <1>7, <1>8 DEF PutLink, s

\* A writer stops between its file and its row.
LEMMA CrashWriterKeeps == ASSUME IInv, NEW w \in Writers, CrashWriter(w) PROVE IInv'
  <1>1. /\ UNCHANGED <<there, filed, files, young, temp, db, job, seen, gc, re, exposed, stale, fresh,
                       unlisted, owed, wrote>>
        /\ at' = [at EXCEPT ![w] = "idle"] /\ spent' \in [Events -> Nat]
    BY SpendTyped DEF CrashWriter, provider, store, history, Step, Events
  <1>2. at \in [Writers -> {"idle", "link", "row"}] /\ job' \in [Writers -> Msgs]
    BY <1>1 DEF IInv, Typed
  <1>3. Sound(db)' /\ Derived' /\ FactsStand' /\ PageSound' /\ Rows' = Rows
    BY <1>1, SameDerived, SameFacts, SamePage DEF IInv, Rows
  <1>4. \A v \in Writers : at'[v] = "row" => HasBlob(Sha[job'[v]])
    BY <1>1, <1>2, WriterHas DEF IInv, Bytes
  <1>5. Bytes'
    BY <1>1, <1>2, <1>3, <1>4, BytesKept
  <1>6. Typed'
    BY <1>1, <1>2 DEF IInv, Typed
  <1>7. QED
    BY <1>3, <1>5, <1>6 DEF IInv
-----------------------------------------------------------------------------
(* The collector.                                                          *)

\* The places of the collector and what it reads.
GcTypes == [pc : {"idle", "doomed", "spared", "purge", "ids", "threads", "contacts", "refs", "walk", "delete"},
            purged : SUBSET Shas, refs : SUBSET Shas, ids : SUBSET ThreadIds, orphans : SUBSET Shas]

\* While the collector does not walk or delete, bytes are safe where they are; a
\* writer needs a row or a young file that is not to be purged.
LEMMA BytesAtRest ==
    ASSUME IInv, UNCHANGED <<files, young, stale, at, job>>, exposed \subseteq exposed',
           gc'.pc \notin {"walk", "delete"},
           \A n \in Rows' : n \in Rows /\ db'.rows[n].raw = db.rows[n].raw,
           \A w \in Writers, s \in Shas : at[w] = "row" /\ s = Sha[job[w]] /\ s \notin exposed' =>
               \/ \E m \in Rows' : db'.rows[m].blob = s
               \/ s \in young /\ (gc'.pc = "idle" \/ s \notin gc'.purged)
    PROVE  Bytes'
  <1>1. \A s : Backed(s)' <=> s \in files
    BY DEF Backed
  <1>2. RowsBacked'
    BY <1>1 DEF RowsBacked, IInv, Bytes, Backed, Full
  <1>3. \A w \in Writers : Sha[job[w]] \in Shas
    BY Numbers DEF IInv, Typed
  <1>4. \A w \in Writers : at[w] = "row" /\ Sha[job[w]] \notin exposed => Sha[job[w]] \in files
    BY DEF IInv, Bytes, WritersBacked, Backed
  <1>5. WritersBacked'
    BY <1>3, <1>4 DEF WritersBacked, Backed
  <1>6. QED
    BY <1>2, <1>5 DEF Bytes

\* What is derived when the index is the same, whatever the collector does.
LEMMA DerivedAfter ==
    ASSUME IInv, UNCHANGED <<db, stale, unlisted, owed>>, ThreadsKnown'
    PROVE  Sound(db)' /\ Derived' /\ Rows' = Rows
  <1>1. Sound(db) /\ Derived
    BY DEF IInv
  <1>2. Sound(db)' /\ Together(db, stale)' /\ Rows' = Rows
    BY <1>1 DEF Derived, Rows
  <1>3. (\A t \in ThreadIds \ unlisted : Summarised(db, t))'
    BY <1>1 DEF Derived
  <1>4. (\A p \in People \ owed : Reckoned(db, p))'
    BY <1>1 DEF Derived
  <1>5. (\A m \in Msgs : Listed(db, m))'
    BY <1>1 DEF Derived
  <1>6. QED
    BY <1>2, <1>3, <1>4, <1>5 DEF Derived

\* A step of the collector that leaves the index and the store alone.
LEMMA CollectorKeeps ==
    ASSUME IInv, UNCHANGED <<provider, files, young, db, writers, re, exposed, stale, unlisted, owed, wrote>>,
           temp' \subseteq Writers, fresh' \subseteq ThreadIds, spent' \in [Events -> Nat],
           gc' \in GcTypes, ThreadsKnown', Bytes'
    PROVE  IInv'
  <1>1. Sound(db)' /\ Derived'
    BY DerivedAfter
  <1>2. FactsStand' /\ PageSound'
    BY SameFacts, SamePage DEF IInv
  <1>3. Typed'
    BY DEF IInv, Typed, provider, writers, GcTypes
  <1>4. QED
    BY <1>1, <1>2, <1>3 DEF IInv

\* The collector has a place and sets of contents and of threads.
LEMMA GcTyped == ASSUME IInv PROVE gc \in GcTypes
  BY DEF IInv, Typed, GcTypes

\* Where the collector is does not touch what it has read.
LEMMA GcSet ==
    ASSUME gc \in GcTypes,
           NEW pc \in {"idle", "doomed", "spared", "purge", "ids", "threads", "contacts", "refs", "walk", "delete"}
    PROVE  /\ GcAt(pc) \in GcTypes /\ GcAt(pc).pc = pc
           /\ GcAt(pc).purged = gc.purged /\ GcAt(pc).refs = gc.refs /\ GcAt(pc).ids = gc.ids
           /\ GcAt(pc).orphans = gc.orphans
  BY DEF GcTypes, GcAt

\* The blobs of rows are contents of messages.
LEMMA BlobsTyped ==
    ASSUME Sound(db)
    PROVE  \A m \in Rows : db.rows[m].blob \in Shas \cup {NoBlob}
  BY DEF Sound, IndexTyped, Table, Rows, RowType

\* A collection begins, with nothing listed yet.
LEMMA BeginGCKeeps == ASSUME IInv, BeginGC PROVE IInv'
  <1>1. /\ UNCHANGED <<provider, files, young, temp, db, writers, re, exposed, stale, fresh, unlisted, owed, wrote>>
        /\ UNCHANGED <<at, job>>
    BY DEF BeginGC, store, history, writers
  <1>2. gc \in GcTypes /\ Sound(db) /\ Rows' = Rows
    BY <1>1, GcTyped DEF IInv, Rows
  <1>3. PICK pc \in {"refs", "doomed", "spared"} :
           /\ gc' = [GcAt(pc) EXCEPT !.purged = {}]
           /\ Spend("gc") \/ Spend("purge")
    BY DEF BeginGC
  <1>4. spent' \in [Events -> Nat]
    BY <1>3, SpendTyped DEF Events
  <1>5. GcAt(pc) \in GcTypes /\ GcAt(pc).pc = pc
    BY <1>2, GcSet
  <1>6. gc' \in GcTypes /\ gc'.pc = pc /\ gc'.purged = {}
    BY <1>3, <1>5 DEF GcTypes
  <1>7. Bytes'
    <2>1. \A w \in Writers, s \in Shas : at[w] = "row" /\ s = Sha[job[w]] /\ s \notin exposed' =>
               (\E m \in Rows' : db'.rows[m].blob = s) \/ (s \in young /\ s \notin gc'.purged)
      BY <1>1, <1>2, <1>6 DEF IInv, Bytes, WritersBacked
    <2>2. QED
      BY <1>1, <1>2, <1>6, <2>1, BytesAtRest
  <1>8. ThreadsKnown'
    BY <1>6 DEF ThreadsKnown
  <1>9. temp' \subseteq Writers /\ fresh' \subseteq ThreadIds
    BY <1>1 DEF IInv, Typed
  <1>10. QED
    BY <1>1, <1>4, <1>6, <1>7, <1>8, <1>9, CollectorKeeps

\* A purge lists the bytes that are to go: all of them still have a row.
LEMMA ListDoomedKeeps == ASSUME IInv, ListDoomed PROVE IInv'
  <1> DEFINE shas == {db.rows[m].blob : m \in Doomed} \ {NoBlob}
             to == IF gc.pc = "doomed" THEN "purge" ELSE "refs"
  <1>1. /\ UNCHANGED <<provider, files, young, temp, db, writers, re, exposed, stale, fresh, unlisted, owed, wrote, spent>>
        /\ UNCHANGED <<at, job>>
        /\ gc' = [GcAt(to) EXCEPT !.purged = shas] /\ to \in {"refs", "purge"}
    BY DEF ListDoomed, store, history, writers
  <1>2. gc \in GcTypes /\ Sound(db) /\ Rows' = Rows
    BY <1>1, GcTyped DEF IInv, Rows
  <1>3. shas \subseteq Shas /\ \A s \in shas : \E m \in Rows : db.rows[m].blob = s
    BY <1>2, BlobsTyped DEF Doomed
  <1> HIDE DEF shas, to
  <1>4. GcAt(to) \in GcTypes /\ GcAt(to).pc = to
    BY <1>1, <1>2, GcSet
  <1>5. gc' \in GcTypes /\ gc'.pc = to /\ gc'.purged = shas
    BY <1>1, <1>3, <1>4 DEF GcTypes
  <1>6. Bytes'
    <2>1. \A w \in Writers, s \in Shas : at[w] = "row" /\ s = Sha[job[w]] /\ s \notin exposed' =>
               (\E m \in Rows' : db'.rows[m].blob = s) \/ (s \in young /\ s \notin gc'.purged)
      BY <1>1, <1>2, <1>3, <1>5 DEF IInv, Bytes, WritersBacked
    <2>2. QED
      BY <1>1, <1>2, <1>5, <2>1, BytesAtRest
  <1>7. ThreadsKnown'
    BY <1>1, <1>5 DEF ThreadsKnown
  <1>8. temp' \subseteq Writers /\ fresh' \subseteq ThreadIds /\ spent' \in [Events -> Nat]
    BY <1>1 DEF IInv, Typed
  <1>9. QED
    BY <1>1, <1>5, <1>6, <1>7, <1>8, CollectorKeeps

\* RebuildThreads lists every thread there is; those of later rows are fresh.
LEMMA ListThreadIdsKeeps == ASSUME IInv, ListThreadIds PROVE IInv'
  <1> DEFINE ids == {db.rows[m].thread : m \in Rows} \ {NoThread}
  <1>1. /\ UNCHANGED <<provider, files, young, temp, db, writers, re, exposed, stale, unlisted, owed, wrote, spent>>
        /\ UNCHANGED <<at, job>>
        /\ gc.pc = "ids" /\ fresh' = {} /\ gc' = [GcAt("threads") EXCEPT !.ids = ids]
    BY DEF ListThreadIds, store, writers
  <1>2. gc \in GcTypes /\ Sound(db) /\ Rows' = Rows
    BY <1>1, GcTyped DEF IInv, Rows
  <1>3. ids \subseteq ThreadIds
    BY <1>2, RowsTyped DEF RowType
  <1>4. GcAt("threads") \in GcTypes /\ GcAt("threads").pc = "threads" /\ GcAt("threads").purged = gc.purged
    BY <1>2, GcSet
  <1>5. \A m \in Rows : db.rows[m].thread \in ids \cup {NoThread}
    OBVIOUS
  <1> HIDE DEF ids
  <1>6. gc' \in GcTypes /\ gc'.pc = "threads" /\ gc'.ids = ids /\ gc'.purged = gc.purged
    BY <1>1, <1>3, <1>4 DEF GcTypes
  <1>7. ThreadsKnown'
    BY <1>1, <1>2, <1>5, <1>6 DEF ThreadsKnown
  <1>8. Bytes'
    <2>1. \A w \in Writers, s \in Shas : at[w] = "row" /\ s = Sha[job[w]] /\ s \notin exposed' =>
               (\E m \in Rows' : db'.rows[m].blob = s) \/ (s \in young /\ s \notin gc'.purged)
      BY <1>1, <1>2, <1>6 DEF IInv, Bytes, WritersBacked
    <2>2. QED
      BY <1>1, <1>2, <1>6, <2>1, BytesAtRest
  <1>9. temp' \subseteq Writers /\ fresh' \subseteq ThreadIds /\ spent' \in [Events -> Nat]
    BY <1>1 DEF IInv, Typed
  <1>10. QED
    BY <1>1, <1>6, <1>7, <1>8, <1>9, CollectorKeeps

\* Every blob that a row has is spared from here on, and so is a young one.
LEMMA ReadReferencedKeeps == ASSUME IInv, ReadReferenced PROVE IInv'
  <1> DEFINE refs == {db.rows[m].blob : m \in Rows} \ {NoBlob}
  <1>1. /\ UNCHANGED <<provider, files, young, temp, db, writers, re, exposed, stale, fresh, unlisted, owed, wrote, spent>>
        /\ UNCHANGED <<at, job>>
        /\ gc.pc = "refs" /\ gc' = [GcAt("walk") EXCEPT !.refs = refs]
    BY DEF ReadReferenced, store, writers, history
  <1>2. gc \in GcTypes /\ Sound(db) /\ Rows' = Rows
    BY <1>1, GcTyped DEF IInv, Rows
  <1>3. refs \subseteq Shas
    BY <1>2, BlobsTyped
  <1>4. GcAt("walk") \in GcTypes /\ GcAt("walk").pc = "walk" /\ GcAt("walk").purged = gc.purged
    BY <1>2, GcSet
  <1>5. \A m \in Rows : \A s \in Shas : db.rows[m].blob = s => s \in refs
    BY ContentsAssumption
  <1> HIDE DEF refs
  <1>6. gc' \in GcTypes /\ gc'.pc = "walk" /\ gc'.refs = refs /\ gc'.purged = gc.purged
    BY <1>1, <1>3, <1>4 DEF GcTypes
  <1>7. \A s \in Shas : s \in files /\ (s \in refs \/ s \in young \ gc.purged) => Backed(s)'
    BY <1>1, <1>6 DEF Backed
  <1>8. RowsBacked'
    <2> SUFFICES ASSUME NEW n \in Rows \ stale, Full(db.rows[n]), Sha[n] \notin exposed
                 PROVE  Backed(Sha[n])'
      BY <1>1, <1>2 DEF RowsBacked
    <2>1. Sha[n] \in files /\ db.rows[n].blob = Sha[n] /\ Sha[n] \in Shas
      BY <1>2, FullRow, Numbers DEF IInv, Bytes, RowsBacked, Backed
    <2>2. QED
      BY <1>5, <1>7, <2>1
  <1>9. WritersBacked'
    <2> SUFFICES ASSUME NEW w \in Writers, at[w] = "row", NEW s \in Shas, s = Sha[job[w]], s \notin exposed
                 PROVE  /\ Backed(s)'
                        /\ (\E m \in Rows : db.rows[m].blob = s) \/ (s \in young /\ s \notin gc.purged)
      <3>1. \A w \in Writers : Sha[job[w]] \in Shas
        BY Numbers DEF IInv, Typed
      <3>2. QED
        BY <1>1, <1>2, <1>6, <3>1 DEF WritersBacked, Backed
    <2>1. s \in files /\ ((\E m \in Rows : db.rows[m].blob = s) \/ (s \in young /\ s \notin gc.purged))
      BY <1>1 DEF IInv, Bytes, WritersBacked, Backed
    <2>2. QED
      BY <1>5, <1>7, <2>1
  <1>10. Bytes' /\ ThreadsKnown'
    BY <1>6, <1>8, <1>9 DEF Bytes, ThreadsKnown
  <1>11. temp' \subseteq Writers /\ fresh' \subseteq ThreadIds /\ spent' \in [Events -> Nat]
    BY <1>1 DEF IInv, Typed
  <1>12. QED
    BY <1>1, <1>6, <1>10, <1>11, CollectorKeeps

\* Nothing that has to stay is an orphan.
LEMMA WalkKeeps == ASSUME IInv, Walk PROVE IInv'
  <1> DEFINE orphans == {s \in files : Orphan(s)}
  <1>1. /\ UNCHANGED <<provider, files, young, temp, db, writers, re, exposed, stale, fresh, unlisted, owed, wrote, spent>>
        /\ UNCHANGED <<at, job>>
        /\ gc.pc = "walk" /\ gc' = [GcAt("delete") EXCEPT !.orphans = orphans]
    BY DEF Walk, store, writers, history
  <1>2. gc \in GcTypes /\ Rows' = Rows /\ files \subseteq Shas
    BY <1>1, GcTyped DEF IInv, Rows, Typed
  <1>3. GcAt("delete") \in GcTypes /\ GcAt("delete").pc = "delete" /\ GcAt("delete").purged = gc.purged
    BY <1>2, GcSet
  <1>4. \A s : Backed(s) => s \notin orphans
    BY <1>1 DEF Backed, Orphan
  <1>5. orphans \subseteq files
    OBVIOUS
  <1> HIDE DEF orphans
  <1>6. gc' \in GcTypes /\ gc'.pc = "delete" /\ gc'.orphans = orphans /\ gc'.purged = gc.purged
    BY <1>1, <1>2, <1>3, <1>5 DEF GcTypes
  <1>7. \A s : Backed(s) => Backed(s)'
    BY <1>1, <1>4, <1>6 DEF Backed
  <1>8. RowsBacked' /\ WritersBacked'
    <2>1. RowsBacked'
      BY <1>1, <1>2, <1>7 DEF RowsBacked, IInv, Bytes
    <2>2. \A w \in Writers : at[w] = "row" /\ Sha[job[w]] \notin exposed =>
            /\ Sha[job[w]] \in files /\ Sha[job[w]] \notin orphans
            /\ \/ \E m \in Rows : db.rows[m].blob = Sha[job[w]]
               \/ Sha[job[w]] \in young /\ Sha[job[w]] \notin gc.purged
      BY <1>1, <1>4 DEF IInv, Bytes, WritersBacked, Backed
    <2>3. WritersBacked'
      BY <1>1, <1>2, <1>6, <2>2 DEF WritersBacked, Backed
    <2>4. QED
      BY <2>1, <2>3
  <1>9. Bytes' /\ ThreadsKnown'
    BY <1>1, <1>5, <1>6, <1>8 DEF Bytes, ThreadsKnown
  <1>10. temp' \subseteq Writers /\ fresh' \subseteq ThreadIds /\ spent' \in [Events -> Nat]
    BY <1>1 DEF IInv, Typed
  <1>11. QED
    BY <1>1, <1>6, <1>9, <1>10, CollectorKeeps
\* One file goes that no row, and no writer under way, has to keep.
LEMMA DeleteBlobKeeps == ASSUME IInv, NEW s \in Shas, DeleteBlob(s) PROVE IInv'
  <1>1. /\ UNCHANGED <<there, filed, temp, db, at, job, seen, re, exposed, stale, fresh, unlisted, owed,
                       wrote, spent>>
        /\ gc.pc = "delete" /\ s \in gc.orphans
        /\ gc' = [gc EXCEPT !.orphans = @ \ {s}]
        /\ files' = files \ {s} /\ young' = young \ {s}
    BY DEF DeleteBlob, provider, writers, history
  <1>2. gc \in GcTypes /\ Rows' = Rows
    BY <1>1, GcTyped DEF Rows
  <1>3. /\ gc' \in GcTypes /\ gc'.pc = "delete" /\ gc'.orphans = gc.orphans \ {s}
        /\ gc'.purged = gc.purged
    BY <1>1, <1>2 DEF GcTypes
  <1>4. \A c : Backed(c) => c # s /\ Backed(c)'
    BY <1>1, <1>3 DEF Backed
  <1>5. RowsBacked'
    BY <1>1, <1>2, <1>4 DEF RowsBacked, IInv, Bytes
  <1>6. WritersBacked'
    <2>1. \A w \in Writers : at[w] = "row" /\ Sha[job[w]] \notin exposed =>
            /\ Sha[job[w]] \in files /\ Sha[job[w]] \notin gc.orphans
            /\ \/ \E m \in Rows : db.rows[m].blob = Sha[job[w]]
               \/ Sha[job[w]] \in young /\ Sha[job[w]] \notin gc.purged
      BY <1>1 DEF IInv, Bytes, WritersBacked, Backed
    <2>2. QED
      BY <1>1, <1>2, <1>3, <2>1 DEF WritersBacked, Backed
  <1>7. Bytes'
    BY <1>1, <1>3, <1>5, <1>6 DEF Bytes, IInv
  <1>8. ThreadsKnown'
    BY <1>3 DEF ThreadsKnown
  <1>9. Sound(db)' /\ Derived' /\ FactsStand' /\ PageSound'
    BY <1>1, <1>8, DerivedAfter, SameFacts, SamePage DEF IInv
  <1>10. Typed'
    BY <1>1, <1>3 DEF IInv, Typed, GcTypes
  <1>11. QED
    BY <1>7, <1>9, <1>10 DEF IInv

\* The collector comes to rest, or is stopped.
LEMMA RestKeeps ==
    ASSUME IInv, UNCHANGED <<provider, files, young, db, writers, re, history>>, gc' = GcAt("idle"),
           temp' \subseteq Writers, spent' \in [Events -> Nat]
    PROVE  IInv'
  <1>1. UNCHANGED <<at, job, exposed, stale, fresh, unlisted, owed, wrote>>
    BY DEF writers, history
  <1>2. gc' \in GcTypes /\ gc'.pc = "idle" /\ Rows' = Rows
    BY GcTyped, GcSet DEF Rows
  <1>3. \A w \in Writers, s \in Shas : at[w] = "row" /\ s = Sha[job[w]] /\ s \notin exposed' =>
            (\E m \in Rows' : db'.rows[m].blob = s) \/ s \in young
    BY <1>1, <1>2 DEF IInv, Bytes, WritersBacked
  <1>4. Bytes'
    BY <1>1, <1>2, <1>3, BytesAtRest
  <1>5. ThreadsKnown' /\ fresh' \subseteq ThreadIds
    BY <1>1, <1>2 DEF ThreadsKnown, IInv, Typed
  <1>6. QED
    BY <1>1, <1>2, <1>4, <1>5, CollectorKeeps

\* A collection ends with the temporary files of every writer.
LEMMA CleanTempKeeps == ASSUME IInv, CleanTemp PROVE IInv'
  <1>1. spent \in [Events -> Nat]
    BY DEF IInv, Typed
  <1>2. QED
    BY <1>1, RestKeeps DEF CleanTemp

\* A collection is interrupted at any point.
LEMMA CrashGCKeeps == ASSUME IInv, CrashGC PROVE IInv'
  <1>1. temp \subseteq Writers /\ spent' \in [Events -> Nat]
    BY SpendTyped DEF IInv, Typed, CrashGC, Events
  <1>2. QED
    BY <1>1, RestKeeps DEF CrashGC, store
\* The rows a purge keeps, and the index it leaves.
Kept == {m \in Rows : Live(db.rows[m])}
Purged == [db EXCEPT !.rows = [m \in Kept |-> db.rows[m]], !.reffed = @ \cap Kept,
                     !.addr = [m \in Msgs |-> IF m \in Kept THEN @[m] ELSE {}]]

\* The deleted rows go.  No summary has them, and only the people on them have
\* contacts that are not right yet.
LEMMA PurgeSettles ==
    ASSUME IInv, NEW d, d = Purged, NEW kept, kept = Kept
    PROVE  /\ Sound(d) /\ Together(d, stale) /\ \A m \in Msgs : Listed(d, m)
           /\ d.rows = [m \in kept |-> db.rows[m]]
           /\ \A t \in ThreadIds : Summarised(db, t) => Summarised(d, t)
           /\ \A p \in People : Reckoned(db, p) /\ (\A m \in Rows \ kept : p \notin To[m]) =>
                    Reckoned(d, p)
  <1>1. IndexTyped(db) /\ kept \subseteq Rows /\ Rows \subseteq Msgs
    BY RowsTyped DEF IInv, Sound, Kept
  <1>2. /\ d = [rows |-> d.rows, reffed |-> d.reffed, threads |-> d.threads, addr |-> d.addr,
                book |-> d.book]
        /\ d.rows = [m \in kept |-> db.rows[m]] /\ d.reffed = db.reffed \cap kept
        /\ d.threads = db.threads /\ d.book = db.book
        /\ d.addr = [m \in Msgs |-> IF m \in kept THEN db.addr[m] ELSE {}]
    <2>1. db = [rows |-> db.rows, reffed |-> db.reffed, threads |-> db.threads, addr |-> db.addr,
                book |-> db.book]
      BY <1>1 DEF IndexTyped
    <2>2. QED
      BY <2>1 DEF Purged
  <1>3. IndexTyped(d)
    <2>1. Table(d.rows)
      BY <1>1, <1>2 DEF IndexTyped, Table, Rows
    <2>2. d.addr \in [Msgs -> SUBSET (People \X Boxes)]
      BY <1>1, <1>2 DEF IndexTyped
    <2>3. d.threads \in [ThreadIds -> SUBSET Msgs] /\ d.book \in [People -> SUBSET (Msgs \X Boxes)]
      BY <1>1, <1>2 DEF IndexTyped
    <2>4. d.reffed \subseteq DOMAIN d.rows
      BY <1>2
    <2>5. QED
      BY <1>2, <2>1, <2>2, <2>3, <2>4 DEF IndexTyped
  <1>4. \A m \in kept : d.rows[m] = db.rows[m] /\ (m \in d.reffed <=> m \in db.reffed)
    BY <1>2
  <1>5. \A m \in DOMAIN d.rows : RowSound(d, m)
    BY <1>1, <1>2, <1>4 DEF IInv, Sound, RowSound, Rows
  <1>6. Together(d, stale)
    BY <1>2, <1>4 DEF IInv, Derived, Together
  <1>7. \A m \in Msgs : Listed(db, m)
    BY DEF IInv, Derived
  <1>8. \A m \in Msgs : Listed(d, m)
    BY <1>1, <1>2, <1>7 DEF Listed, Rows
  <1>9. \A t : Members(d.rows, t) = Members(db.rows, t)
    BY <1>1, <1>2, <1>4 DEF Members, Rows, Kept
  <1>10. \A t \in ThreadIds : Summarised(db, t) => Summarised(d, t)
    BY <1>2, <1>9 DEF Summarised
  <1>11. ASSUME NEW p \in People, Reckoned(db, p), \A m \in Rows \ kept : p \notin To[m]
         PROVE  Reckoned(d, p)
    <2>1. ASSUME NEW m \in Msgs, m \notin kept, NEW b \in Boxes PROVE <<p, b>> \notin db.addr[m]
      <3>1. CASE m \in Rows
        BY <1>7, <1>11, <2>1, <3>1, NotOn
      <3>2. CASE m \notin Rows
        <4>1. {a[1] : a \in db.addr[m]} = {}
          BY <1>7, <3>2 DEF Listed, Rows
        <4>2. QED
          BY <4>1
      <3>3. QED
        BY <3>1, <3>2
    <2>2. \A m \in Msgs : \/ d.addr[m] = db.addr[m]
                          \/ \A b \in Boxes : <<p, b>> \notin d.addr[m] /\ <<p, b>> \notin db.addr[m]
      BY <1>2, <2>1
    <2>3. Contact(d.addr, p) = Contact(db.addr, p)
      BY <2>2, SameContact
    <2>4. QED
      BY <1>2, <1>11, <2>3 DEF Reckoned
  <1>12. QED
    BY <1>2, <1>3, <1>5, <1>6, <1>8, <1>10, <1>11 DEF Sound

\* What a purge owes is the contacts of the people on purged messages; a writer
\* that counts on bytes of purged rows is exposed.
LEMMA PurgeRowsKeeps == ASSUME IInv, PurgeRows PROVE IInv'
  <1> DEFINE kept == Kept
             spared == {db.rows[m].blob : m \in kept} \cup (young \ gc.purged)
             gone == UNION {To[m] : m \in Rows \ kept}
             d == Purged
  <1>1. /\ UNCHANGED <<there, filed, files, young, temp, at, job, seen, re, stale, fresh, unlisted,
                       wrote, spent>>
        /\ gc.pc = "purge" /\ gc' = GcAt("ids") /\ db' = d /\ owed' = owed \cup gone
        /\ exposed' = exposed \cup ({Sha[job[w]] : w \in {v \in Writers : at[v] = "row"}} \ spared)
    BY DEF PurgeRows, provider, store, writers, Kept, Purged
  <1>2. /\ Sound(d) /\ Together(d, stale) /\ \A m \in Msgs : Listed(d, m)
        /\ d.rows = [m \in kept |-> db.rows[m]]
        /\ \A t \in ThreadIds : Summarised(db, t) => Summarised(d, t)
        /\ \A p \in People : Reckoned(db, p) /\ (\A m \in Rows \ kept : p \notin To[m]) => Reckoned(d, p)
    BY PurgeSettles
  <1>3. \A p \in People \ owed' : Reckoned(d, p)
    <2>1. \A p \in People \ owed : Reckoned(db, p)
      BY DEF IInv, Derived
    <2>2. QED
      BY <1>1, <1>2, <2>1
  <1>4. gone \subseteq People
    <2>1. Rows \subseteq Msgs
      BY RowsTyped DEF IInv
    <2>2. QED
      BY <2>1 DEF People
  <1>5. Rows \subseteq Msgs /\ Rows' = kept /\ kept \subseteq Rows
    BY <1>1, <1>2, RowsTyped DEF Rows, IInv, Kept
  <1>6. \A m \in kept : db'.rows[m] = db.rows[m]
    BY <1>1, <1>2
  <1>7. \A w \in Writers, s \in Shas : at[w] = "row" /\ s = Sha[job[w]] /\ s \notin exposed' =>
            (\E m \in kept : db.rows[m].blob = s) \/ (s \in young /\ s \notin gc.purged)
    BY <1>1
  <1>8. exposed' \subseteq Shas /\ exposed \subseteq exposed'
    <2>1. \A w \in Writers : Sha[job[w]] \in Shas
      BY Numbers DEF IInv, Typed
    <2>2. exposed \subseteq Shas
      BY DEF IInv, Typed
    <2>3. QED
      BY <1>1, <2>1, <2>2
  <1> HIDE DEF d, kept, spared, gone
  <1>9. gc' \in GcTypes /\ gc'.pc = "ids" /\ gc'.purged = gc.purged
    BY <1>1, GcTyped, GcSet
  <1>10. Bytes'
    <2>1. \A n \in Rows' : n \in Rows /\ db'.rows[n].raw = db.rows[n].raw
      BY <1>5, <1>6
    <2>2. \A w \in Writers, s \in Shas : at[w] = "row" /\ s = Sha[job[w]] /\ s \notin exposed' =>
            (\E m \in Rows' : db'.rows[m].blob = s) \/ (s \in young /\ s \notin gc'.purged)
      BY <1>5, <1>6, <1>7, <1>9
    <2>3. QED
      BY <1>1, <1>8, <1>9, <2>1, <2>2, BytesAtRest
  <1>11. FactsStand'
    BY <1>1, <1>5, <1>6 DEF IInv, FactsStand
  <1>12. Sound(db)' /\ Derived'
    <2>1. ThreadsKnown'
      BY <1>9 DEF ThreadsKnown
    <2>2. \A t \in ThreadIds \ unlisted : Summarised(d, t)
      BY <1>2 DEF IInv, Derived
    <2>3. QED
      BY <1>1, <1>2, <1>3, <2>1, <2>2 DEF Derived
  <1>13. PageSound'
    BY <1>1, SamePage DEF IInv
  <1>14. Typed'
    BY <1>1, <1>4, <1>8, <1>9 DEF IInv, Typed, GcTypes
  <1>15. QED
    BY <1>10, <1>11, <1>12, <1>13, <1>14 DEF IInv
\* Every summary is right but those of threads that began since they were listed.
LEMMA RebuildThreadsKeeps == ASSUME IInv, RebuildThreads PROVE IInv'
  <1> DEFINE made == [t \in ThreadIds |-> IF t \in gc.ids THEN Members(db.rows, t) ELSE {}]
  <1>1. /\ UNCHANGED <<there, filed, files, young, temp, at, job, seen, re, exposed, stale, fresh, owed,
                       wrote, spent>>
        /\ gc.pc = "threads" /\ gc' = GcAt("contacts")
        /\ db' = [db EXCEPT !.threads = made] /\ unlisted' = (unlisted \cup fresh) \ gc.ids
    BY DEF RebuildThreads, provider, store, writers
  <1>2. Sound(db) /\ Rows \subseteq Msgs /\ IndexTyped(db)
    BY RowsTyped DEF IInv, Sound
  <1>3. /\ db' = [rows |-> db.rows, reffed |-> db.reffed, threads |-> made, addr |-> db.addr,
                  book |-> db.book]
    <2>1. db = [rows |-> db.rows, reffed |-> db.reffed, threads |-> db.threads, addr |-> db.addr,
                book |-> db.book]
      BY <1>2 DEF IndexTyped
    <2> HIDE DEF made
    <2>2. QED
      BY <1>1, <2>1
  <1>4. made \in [ThreadIds -> SUBSET Msgs]
    BY <1>2, MembersTyped DEF Rows
  <1>5. ASSUME NEW t \in ThreadIds \ unlisted' PROVE made[t] = Members(db.rows, t)
    <2>1. CASE t \in gc.ids
      BY <2>1
    <2>2. CASE t \notin gc.ids
      <3>1. t \notin unlisted /\ t \notin fresh /\ t # NoThread
        BY <1>1, <1>5, <2>2, Numbers
      <3>2. \A m \in Rows : db.rows[m].thread # t
        BY <1>1, <2>2, <3>1 DEF IInv, Derived, ThreadsKnown
      <3>3. Members(db.rows, t) = {}
        BY <3>2 DEF Members, Rows
      <3>4. QED
        BY <2>2, <3>3
    <2>3. QED
      BY <2>1, <2>2
  <1> HIDE DEF made
  <1>6. /\ db'.rows = db.rows /\ db'.reffed = db.reffed /\ db'.threads = made /\ db'.addr = db.addr
        /\ db'.book = db.book /\ Rows' = Rows
    BY <1>3 DEF Rows
  <1>7. Sound(db)'
    <2>1. IndexTyped(db)'
      BY <1>2, <1>3, <1>4, <1>6 DEF IndexTyped
    <2>2. (\A m \in DOMAIN db.rows : RowSound(db, m))'
      BY <1>2, <1>6 DEF Sound, RowSound
    <2>3. QED
      BY <2>1, <2>2 DEF Sound
  <1>8. gc' \in GcTypes /\ gc'.pc = "contacts" /\ gc'.purged = gc.purged
    BY <1>1, GcTyped, GcSet
  <1>9. Bytes'
    <2>1. \A w \in Writers, s \in Shas : at[w] = "row" /\ s = Sha[job[w]] /\ s \notin exposed' =>
            (\E m \in Rows' : db'.rows[m].blob = s) \/ (s \in young /\ s \notin gc'.purged)
      BY <1>1, <1>6, <1>8 DEF IInv, Bytes, WritersBacked
    <2>2. QED
      BY <1>1, <1>6, <1>8, <2>1, BytesAtRest
  <1>10. Derived'
    <2>1. ThreadsKnown'
      BY <1>8 DEF ThreadsKnown
    <2>2. Together(db, stale)'
      BY <1>1, <1>6 DEF IInv, Derived, Together
    <2>3. (\A t \in ThreadIds \ unlisted : Summarised(db, t))'
      BY <1>5, <1>6 DEF Summarised
    <2>4. (\A p \in People \ owed : Reckoned(db, p))'
      BY <1>1, <1>6 DEF IInv, Derived, Reckoned
    <2>5. (\A m \in Msgs : Listed(db, m))'
      BY <1>6 DEF IInv, Derived, Listed
    <2>6. QED
      BY <2>1, <2>2, <2>3, <2>4, <2>5 DEF Derived
  <1>11. FactsStand' /\ PageSound'
    BY <1>1, <1>6, SamePage DEF IInv, FactsStand
  <1>12. unlisted' \subseteq ThreadIds
    BY <1>1 DEF IInv, Typed
  <1>13. Typed'
    BY <1>1, <1>8, <1>12 DEF IInv, Typed, GcTypes
  <1>14. QED
    BY <1>7, <1>9, <1>10, <1>11, <1>13 DEF IInv

\* The address book is made anew from every row, and nothing is owed any more.
LEMMA RebuildContactsKeeps == ASSUME IInv, RebuildContacts PROVE IInv'
  <1> DEFINE addr == [m \in Msgs |-> IF m \in Rows THEN Addresses(m, db.rows[m]) ELSE {}]
             book == [p \in People |-> Contact(addr, p)]
  <1>1. /\ UNCHANGED <<there, filed, files, young, temp, at, job, seen, re, exposed, stale, fresh,
                       unlisted, wrote, spent>>
        /\ gc.pc = "contacts" /\ gc' = GcAt("refs") /\ owed' = {}
        /\ db' = [db EXCEPT !.addr = addr, !.book = book]
    BY DEF RebuildContacts, provider, store, writers
  <1>2. Sound(db) /\ Rows \subseteq Msgs /\ IndexTyped(db)
    BY RowsTyped DEF IInv, Sound
  <1>3. /\ db' = [rows |-> db.rows, reffed |-> db.reffed, threads |-> db.threads, addr |-> addr,
                  book |-> book]
    <2>1. db = [rows |-> db.rows, reffed |-> db.reffed, threads |-> db.threads, addr |-> db.addr,
                book |-> db.book]
      BY <1>2 DEF IndexTyped
    <2> HIDE DEF addr, book
    <2>2. QED
      BY <1>1, <2>1
  <1>4. \A m \in Rows : db.rows[m].box \in Boxes
    BY <1>2, RowsTyped DEF RowType, Boxes
  <1>5. /\ addr \in [Msgs -> SUBSET (People \X Boxes)]
        /\ \A m \in Msgs : {a[1] : a \in addr[m]} = IF m \in Rows THEN To[m] ELSE {}
    <2> SUFFICES ASSUME NEW m \in Msgs
                 PROVE  /\ addr[m] \in SUBSET (People \X Boxes)
                        /\ {a[1] : a \in addr[m]} = IF m \in Rows THEN To[m] ELSE {}
      OBVIOUS
    <2>1. CASE m \in Rows
      BY <1>4, <2>1, AddressesTyped
    <2>2. CASE m \notin Rows
      BY <2>2
    <2>3. QED
      BY <2>1, <2>2
  <1> HIDE DEF addr
  <1>6. book \in [People -> SUBSET (Msgs \X Boxes)] /\ \A p \in People : book[p] = Contact(addr, p)
    BY ContactTyped
  <1> HIDE DEF book
  <1>7. /\ db'.rows = db.rows /\ db'.reffed = db.reffed /\ db'.threads = db.threads /\ db'.addr = addr
        /\ db'.book = book /\ Rows' = Rows
    BY <1>3 DEF Rows
  <1>8. Sound(db)'
    <2>1. IndexTyped(db)'
      BY <1>2, <1>3, <1>5, <1>6, <1>7 DEF IndexTyped
    <2>2. (\A m \in DOMAIN db.rows : RowSound(db, m))'
      BY <1>2, <1>7 DEF Sound, RowSound
    <2>3. QED
      BY <2>1, <2>2 DEF Sound
  <1>9. gc' \in GcTypes /\ gc'.pc = "refs" /\ gc'.purged = gc.purged
    BY <1>1, GcTyped, GcSet
  <1>10. Bytes'
    <2>1. \A w \in Writers, s \in Shas : at[w] = "row" /\ s = Sha[job[w]] /\ s \notin exposed' =>
            (\E m \in Rows' : db'.rows[m].blob = s) \/ (s \in young /\ s \notin gc'.purged)
      BY <1>1, <1>7, <1>9 DEF IInv, Bytes, WritersBacked
    <2>2. QED
      BY <1>1, <1>7, <1>9, <2>1, BytesAtRest
  <1>11. Derived'
    <2>1. ThreadsKnown'
      BY <1>9 DEF ThreadsKnown
    <2>2. Together(db, stale)'
      BY <1>1, <1>7 DEF IInv, Derived, Together
    <2>3. (\A t \in ThreadIds \ unlisted : Summarised(db, t))'
      BY <1>1, <1>7 DEF IInv, Derived, Summarised
    <2>4. (\A p \in People \ owed : Reckoned(db, p))'
      BY <1>6, <1>7 DEF Reckoned
    <2>5. (\A m \in Msgs : Listed(db, m))'
      BY <1>5, <1>7 DEF Listed, Rows
    <2>6. QED
      BY <2>1, <2>2, <2>3, <2>4, <2>5 DEF Derived
  <1>12. FactsStand' /\ PageSound'
    BY <1>1, <1>7, SamePage DEF IInv, FactsStand
  <1>13. Typed'
    BY <1>1, <1>9 DEF IInv, Typed, GcTypes
  <1>14. QED
    BY <1>8, <1>10, <1>11, <1>12, <1>13 DEF IInv
-----------------------------------------------------------------------------
(* The reindexer.                                                          *)

\* A step of the reindexer that leaves the index and the store alone.
LEMMA ReindexerKeeps ==
    ASSUME IInv, UNCHANGED <<provider, store, db, writers, gc, history>>, spent' \in [Events -> Nat],
           re' = [pc |-> re'.pc, offset |-> re'.offset, page |-> re'.page, more |-> re'.more,
                  rethread |-> re'.rethread],
           re'.rethread \in {"no", "yes"}, PageSound'
    PROVE  IInv'
  <1>1. UNCHANGED <<there, filed, files, young, temp, at, job, seen, exposed, stale, fresh, unlisted,
                    owed, wrote, gc, db>>
    BY DEF provider, store, writers, history
  <1>2. Sound(db)' /\ Derived' /\ FactsStand' /\ Rows' = Rows
    BY <1>1, SameDerived, SameFacts DEF IInv, Rows
  <1>3. \A v \in Writers : at'[v] = "row" => HasBlob(Sha[job'[v]])
    BY <1>1, WriterHas DEF IInv, Bytes
  <1>4. job' \in [Writers -> Msgs]
    BY <1>1 DEF IInv, Typed
  <1>5. Bytes'
    BY <1>1, <1>2, <1>3, <1>4, BytesKept
  <1>6. Typed'
    BY <1>1 DEF IInv, Typed
  <1>7. QED
    BY <1>2, <1>5, <1>6 DEF IInv

\* An empty page is a sound one.
LEMMA EmptyPage == ASSUME re'.page = NoPage PROVE PageSound'
  BY DEF PageSound, Table, NoPage

\* ClearThreading takes the thread of every row, and all that follows from it.
LEMMA ClearThreadingKeeps ==
    ASSUME IInv, UNCHANGED <<provider, store, writers, gc, history>>, spent' \in [Events -> Nat],
           re' = [pc |-> "read", offset |-> 0, page |-> NoPage, more |-> TRUE, rethread |-> "yes"],
           db' = [db EXCEPT !.reffed = {}, !.threads = [t \in ThreadIds |-> {}],
                            !.rows = [m \in Rows |-> [@[m] EXCEPT !.thread = NoThread]]]
    PROVE  IInv'
  <1> DEFINE rows == [m \in Rows |-> [db.rows[m] EXCEPT !.thread = NoThread]]
             threads == [t \in ThreadIds |-> {}]
  <1>1. UNCHANGED <<there, filed, files, young, temp, at, job, seen, exposed, stale, fresh, unlisted,
                    owed, wrote, gc>>
    BY DEF provider, store, writers, history
  <1>2. Sound(db) /\ IndexTyped(db) /\ Rows \subseteq Msgs /\ db.rows \in [Rows -> RowType]
    BY RowsTyped DEF IInv, Sound
  <1>3. db' = [db EXCEPT !.reffed = {}, !.threads = threads, !.rows = rows]
    BY <1>2
  <1>4. threads \in [ThreadIds -> SUBSET Msgs] /\ \A t \in ThreadIds : threads[t] = {}
    OBVIOUS
  <1>5. /\ rows \in [Rows -> RowType]
        /\ \A m \in Rows : /\ rows[m].thread = NoThread /\ rows[m].raw = db.rows[m].raw
                           /\ rows[m].blob = db.rows[m].blob /\ Facts(rows[m]) = Facts(db.rows[m])
    BY <1>2 DEF RowType, Facts
  <1> HIDE DEF rows, threads
  <1>6. db' = [rows |-> rows, reffed |-> {}, threads |-> threads, addr |-> db.addr, book |-> db.book]
    <2>1. db = [rows |-> db.rows, reffed |-> db.reffed, threads |-> db.threads, addr |-> db.addr,
                book |-> db.book]
      BY <1>2 DEF IndexTyped
    <2>2. QED
      BY <1>3, <2>1
  <1>7. /\ db'.rows = rows /\ db'.reffed = {} /\ db'.threads = threads /\ db'.addr = db.addr
        /\ db'.book = db.book /\ Rows' = Rows
    <2>1. /\ db'.rows = rows /\ db'.reffed = {} /\ db'.threads = threads /\ db'.addr = db.addr
          /\ db'.book = db.book
      BY ONLY <1>6
    <2>2. DOMAIN rows = Rows
      BY <1>5
    <2>3. QED
      BY <2>1, <2>2 DEF Rows
  <1>8. Sound(db)'
    <2>1. IndexTyped(db)'
      <3>1. Table(rows)
        BY <1>2, <1>5 DEF Table
      <3>2. QED
        BY <1>2, <1>4, <1>6, <1>7, <3>1 DEF IndexTyped
    <2>2. \A m \in Rows : RowSound(db, m)
      BY <1>2 DEF Sound, Rows
    <2>3. (\A m \in DOMAIN db.rows : RowSound(db, m))'
      BY <1>5, <1>7, <2>2 DEF RowSound, Full, Rows
    <2>4. QED
      BY <2>1, <2>3 DEF Sound
  <1>9. Derived'
    <2>1. ThreadsKnown'
      BY <1>5, <1>7 DEF ThreadsKnown
    <2>2. Together(db, stale)'
      BY <1>7 DEF Together
    <2>3. \A t \in ThreadIds : Members(rows, t) = {}
      BY <1>5, Numbers DEF Members
    <2>4. (\A t \in ThreadIds \ unlisted : Summarised(db, t))'
      BY <1>4, <1>7, <2>3 DEF Summarised
    <2>5. (\A p \in People \ owed : Reckoned(db, p))'
      BY <1>1, <1>7 DEF IInv, Derived, Reckoned
    <2>6. (\A m \in Msgs : Listed(db, m))'
      BY <1>7 DEF IInv, Derived, Listed, Rows
    <2>7. QED
      BY <2>1, <2>2, <2>4, <2>5, <2>6 DEF Derived
  <1>10. FactsStand'
    BY <1>1, <1>5, <1>7 DEF IInv, FactsStand
  <1>11. Bytes'
    <2>1. \A m \in Rows : Full(db'.rows[m]) <=> Full(db.rows[m])
      BY <1>5, <1>7 DEF Full
    <2>2. \A v \in Writers : at'[v] = "row" => HasBlob(Sha[job'[v]])
      BY <1>1, WriterHas DEF IInv, Bytes
    <2>3. job' \in [Writers -> Msgs]
      BY <1>1 DEF IInv, Typed
    <2>4. QED
      BY <1>1, <1>7, <1>8, <2>1, <2>2, <2>3, BytesKept
  <1>12. PageSound'
    BY EmptyPage
  <1>13. Typed'
    BY <1>1 DEF IInv, Typed
  <1>14. QED
    BY <1>8, <1>9, <1>10, <1>11, <1>12, <1>13 DEF IInv

\* A reindex begins, with or without the threads there are.
LEMMA BeginReindexKeeps == ASSUME IInv, BeginReindex PROVE IInv'
  <1>1. spent' \in [Events -> Nat]
    BY SpendTyped DEF BeginReindex, Events
  <1>2. CASE re' = [pc |-> "read", offset |-> 0, page |-> NoPage, more |-> TRUE, rethread |-> "no"]
             /\ UNCHANGED db
    <2>1. PageSound'
      BY <1>2, EmptyPage
    <2>2. QED
      BY <1>1, <1>2, <2>1, ReindexerKeeps DEF BeginReindex
  <1>3. CASE /\ re' = [pc |-> "read", offset |-> 0, page |-> NoPage, more |-> TRUE, rethread |-> "yes"]
             /\ db' = [db EXCEPT !.reffed = {}, !.threads = [t \in ThreadIds |-> {}],
                                 !.rows = [m \in Rows |-> [@[m] EXCEPT !.thread = NoThread]]]
    BY <1>1, <1>3, ClearThreadingKeeps DEF BeginReindex
  <1>4. QED
    BY <1>2, <1>3 DEF BeginReindex

\* A page is of rows with their bytes, as they are when it is read.
LEMMA ReadPageKeeps == ASSUME IInv, ReadPage PROVE IInv'
  <1> DEFINE some == {n \in Listing : Readable(n)}
             page == [m \in some |-> db.rows[m]]
             pc == IF Listing = {} THEN "idle" ELSE "write"
             offset == re.offset + Cardinality(Listing)
             more == Cardinality(Listing) = Page
  <1>1. re' = [re EXCEPT !.pc = pc, !.offset = offset, !.more = more, !.page = page]
    BY DEF ReadPage
  <1>2. re = [pc |-> re.pc, offset |-> re.offset, page |-> re.page, more |-> re.more,
              rethread |-> re.rethread] /\ re.rethread \in {"no", "yes"}
    BY DEF IInv, Typed
  <1>3. Sound(db) /\ Rows \subseteq Msgs /\ db.rows \in [Rows -> RowType]
    BY RowsTyped DEF IInv
  <1>4. some \subseteq Rows /\ \A m \in some : Full(db.rows[m])
    BY DEF Listing, Readable
  <1>5. page \in [some -> RowType] /\ DOMAIN page = some /\ \A m \in some : page[m] = db.rows[m]
    BY <1>3, <1>4
  <1> HIDE DEF page, some, pc, offset, more
  <1>6. re' = [pc |-> pc, offset |-> offset, page |-> page, more |-> more, rethread |-> re.rethread]
    BY <1>1, <1>2
  <1>7. PageSound'
    <2>1. Table(page)
      BY <1>3, <1>4, <1>5 DEF Table
    <2>2. \A m \in some : /\ db.rows[m].blob = Sha[m]
                          /\ \/ db.rows[m].thread = NoThread
                             \/ db.rows[m].thread \in 0..N /\ Named(m, db.rows[m].thread)
      BY <1>3, <1>4 DEF Sound, RowSound, Rows
    <2>3. re'.page = page
      BY <1>6
    <2>4. QED
      BY <1>4, <1>5, <2>1, <2>2, <2>3 DEF PageSound
  <1>8. spent' \in [Events -> Nat]
    BY DEF ReadPage, IInv, Typed
  <1>9. QED
    BY <1>2, <1>6, <1>7, <1>8, ReindexerKeeps DEF ReadPage
\* The transaction of a page leaves what is derived right; a row that it writes
\* over a newer one is counted as such.
LEMMA WritePageKeeps == ASSUME IInv, WritePage PROVE IInv'
  <1> DEFINE d == Rewritten[N].db
             old == Rewritten[N].stale
             ms == DOMAIN re.page
  <1>1. /\ UNCHANGED <<there, filed, files, young, temp, at, job, seen, gc, exposed, wrote, spent>>
        /\ Store(ms, d) /\ stale' = old
        /\ re' = [re EXCEPT !.pc = IF re.more THEN "read" ELSE "idle", !.page = NoPage]
    BY DEF WritePage, provider, store, writers
  <1>2. Redone(N, d, old)
    BY PageRewritten
  <1>3. Done(N) = ms
    <2>1. ms \subseteq 1..N /\ N \in Nat
      BY Numbers DEF IInv, PageSound, Table, Msgs
    <2>2. \A m \in ms : m > N - N
      BY <2>1
    <2>3. QED
      BY <2>2 DEF Done
  <1> HIDE DEF d, old, ms
  <1>4. Sound(d) /\ Together(d, old) /\ stale \subseteq old /\ old \subseteq Msgs
    BY <1>2 DEF Redone
  <1>5. Settles(ms, d)
    <2>1. \A t \in ThreadIds : Summarised(db, t) => Summarised(d, t)
      BY <1>2 DEF Redone
    <2>2. \A p \in People : Reckoned(db, p) \/ (\E m \in ms : p \in To[m]) => Reckoned(d, p)
      BY <1>2, <1>3 DEF Redone
    <2>3. ms \subseteq DOMAIN d.rows /\ \A n \in Msgs : Listed(d, n)
      BY <1>2, <1>3 DEF Redone
    <2>4. \A n \in DOMAIN d.rows : \/ \E k \in Rows : d.rows[n].thread = db.rows[k].thread
                                   \/ \E k \in ms : d.rows[n].thread = d.rows[k].thread
      BY <1>2, <1>3 DEF Redone
    <2>5. QED
      BY <1>4, <2>1, <2>2, <2>3, <2>4 DEF Settles
  <1>6. /\ db' = d /\ Sound(db)' /\ Derived'
        /\ (fresh \subseteq ThreadIds /\ unlisted \subseteq ThreadIds /\ owed \subseteq People)'
    <2>1. Together(d, stale')
      BY <1>1, <1>4
    <2>2. QED
      BY <1>1, <1>5, <2>1, StoreKeeps
  <1>7. Rows' = DOMAIN d.rows /\ \A n \in Rows : n \in DOMAIN d.rows
    BY <1>2, <1>6 DEF Rows, Redone
  <1>8. \A n \in DOMAIN d.rows \ old : /\ n \in Rows \ stale /\ d.rows[n].raw = db.rows[n].raw
                                       /\ Facts(d.rows[n]) = Facts(db.rows[n])
    BY <1>2, <1>4 DEF Redone
  <1>9. FactsStand'
    BY <1>1, <1>6, <1>7, <1>8 DEF IInv, FactsStand
  <1>10. Bytes'
    <2>1. \A n \in Rows' \ stale' : Full(db'.rows[n]) => n \in Rows /\ Full(db.rows[n])
      BY <1>1, <1>6, <1>7, <1>8 DEF Full
    <2>2. \A n \in Rows : Full(db.rows[n]) => n \in Rows' /\ Full(db'.rows[n])
      BY <1>2, <1>6, <1>7 DEF Redone
    <2>3. \A v \in Writers : at'[v] = "row" => HasBlob(Sha[job'[v]])
      BY <1>1, WriterHas DEF IInv, Bytes
    <2>4. job' \in [Writers -> Msgs] /\ stale \subseteq stale'
      BY <1>1, <1>4 DEF IInv, Typed
    <2>5. QED
      BY <1>1, <1>6, <2>1, <2>2, <2>3, <2>4, BytesKept
  <1>11. /\ re' = [pc |-> re'.pc, offset |-> re'.offset, page |-> re'.page, more |-> re'.more,
                   rethread |-> re'.rethread]
         /\ re'.rethread \in {"no", "yes"} /\ re'.page = NoPage
    BY <1>1 DEF IInv, Typed
  <1>12. PageSound'
    BY <1>11, EmptyPage
  <1>13. Typed'
    BY <1>1, <1>4, <1>6, <1>11 DEF IInv, Typed
  <1>14. QED
    BY <1>6, <1>9, <1>10, <1>12, <1>13 DEF IInv

\* A reindex is interrupted; the pages it has written stay.
LEMMA CrashReindexKeeps == ASSUME IInv, CrashReindex PROVE IInv'
  <1>1. re' = [re EXCEPT !.pc = "idle", !.page = NoPage] /\ spent' \in [Events -> Nat]
    BY SpendTyped DEF CrashReindex, Events
  <1>2. /\ re' = [pc |-> re'.pc, offset |-> re'.offset, page |-> re'.page, more |-> re'.more,
                  rethread |-> re'.rethread]
        /\ re'.rethread \in {"no", "yes"} /\ re'.page = NoPage
    BY <1>1 DEF IInv, Typed
  <1>3. PageSound'
    BY <1>2, EmptyPage
  <1>4. QED
    BY <1>1, <1>2, <1>3, ReindexerKeeps DEF CrashReindex

-----------------------------------------------------------------------------
(* The provider and the clock.                                             *)

\* What the provider does changes nothing here until a writer asks.
LEMMA ProviderKeeps ==
    ASSUME IInv, NEW m \in Msgs, File(m) \/ Destroy(m)
    PROVE  IInv'
  <1>1. UNCHANGED <<files, young, temp, at, job, seen, exposed, stale, fresh, unlisted, owed, wrote, gc,
                    re, db>>
    BY DEF File, Destroy, store, writers, history
  <1>2. Sound(db)' /\ Derived' /\ FactsStand' /\ PageSound' /\ Rows' = Rows
    BY <1>1, SameDerived, SameFacts, SamePage DEF IInv, Rows
  <1>3. \A v \in Writers : at'[v] = "row" => HasBlob(Sha[job'[v]])
    BY <1>1, WriterHas DEF IInv, Bytes
  <1>4. job' \in [Writers -> Msgs]
    BY <1>1 DEF IInv, Typed
  <1>5. Bytes'
    BY <1>1, <1>2, <1>3, <1>4, BytesKept
  <1>6. there' \subseteq Msgs /\ filed' \in [Msgs -> Boxes] /\ spent' \in [Events -> Nat]
    BY SpendTyped DEF IInv, Typed, File, Destroy, Boxes, Events
  <1>7. Typed'
    BY <1>1, <1>6 DEF IInv, Typed
  <1>8. QED
    BY <1>2, <1>5, <1>7 DEF IInv

\* A file that comes of age belongs to no batch under way, and the collector has
\* either not looked yet or has made up its mind.
LEMMA AgeKeeps == ASSUME IInv, NEW s \in Shas, Age(s) PROVE IInv'
  <1>1. /\ UNCHANGED <<there, filed, files, temp, db, at, job, seen, gc, re, exposed, stale, fresh,
                       unlisted, owed, wrote, spent>>
        /\ gc.pc # "walk" /\ young' = young \ {s}
        /\ \A w \in Writers : at[w] = "row" => Sha[job[w]] # s
    BY DEF Age, provider, writers, history
  <1>2. Sound(db)' /\ Derived' /\ FactsStand' /\ PageSound' /\ Rows' = Rows
    BY <1>1, SameDerived, SameFacts, SamePage DEF IInv, Rows
  <1>3. \A c : Backed(c)' <=> Backed(c)
    BY <1>1 DEF Backed
  <1>4. RowsBacked'
    BY <1>1, <1>2, <1>3 DEF IInv, Bytes, RowsBacked
  <1>5. WritersBacked'
    BY <1>1, <1>2, <1>3 DEF IInv, Bytes, WritersBacked
  <1>6. Bytes'
    BY <1>1, <1>4, <1>5 DEF IInv, Bytes
  <1>7. Typed'
    BY <1>1 DEF IInv, Typed
  <1>8. QED
    BY <1>2, <1>6, <1>7 DEF IInv
-----------------------------------------------------------------------------
(* The specification.                                                      *)

\* An empty index is sound, and nothing has been derived from it.
LEMMA EmptySound ==
    /\ Sound(Empty) /\ DOMAIN Empty.rows = {} /\ Empty.reffed = {}
    /\ \A t \in ThreadIds : Summarised(Empty, t)
    /\ \A p \in People : Reckoned(Empty, p)
    /\ \A m \in Msgs : Listed(Empty, m)
  <1> DEFINE none == [m \in {} |-> 0]
             addr == [m \in Msgs |-> {}]
  <1>1. /\ Empty.rows = none /\ Empty.reffed = {} /\ Empty.threads = [t \in ThreadIds |-> {}]
        /\ Empty.addr = addr /\ Empty.book = [p \in People |-> {}]
    BY DEF Empty
  <1>2. Table(none) /\ DOMAIN none = {}
    BY DEF Table
  <1>3. \A p : Contact(addr, p) = {}
    BY DEF Contact
  <1>4. \A t : Members(none, t) = {}
    BY DEF Members
  <1>5. \A m \in Msgs : {a[1] : a \in addr[m]} = {}
    OBVIOUS
  <1>6. addr \in [Msgs -> SUBSET (People \X Boxes)]
    OBVIOUS
  <1> HIDE DEF none, addr
  <1>7. IndexTyped(Empty)
    <2>1. Empty = [rows |-> Empty.rows, reffed |-> Empty.reffed, threads |-> Empty.threads,
                   addr |-> Empty.addr, book |-> Empty.book]
      BY DEF Empty
    <2>2. [t \in ThreadIds |-> {}] \in [ThreadIds -> SUBSET Msgs]
      OBVIOUS
    <2>3. [p \in People |-> {}] \in [People -> SUBSET (Msgs \X Boxes)]
      OBVIOUS
    <2>4. QED
      BY <1>1, <1>2, <1>6, <2>1, <2>2, <2>3 DEF IndexTyped
  <1>8. Sound(Empty)
    BY <1>1, <1>2, <1>7 DEF Sound
  <1>9. \A t \in ThreadIds : Summarised(Empty, t)
    BY <1>1, <1>4 DEF Summarised
  <1>10. \A p \in People : Reckoned(Empty, p)
    BY <1>1, <1>3 DEF Reckoned
  <1>11. \A m \in Msgs : Listed(Empty, m)
    BY <1>1, <1>2, <1>5 DEF Listed
  <1>12. QED
    BY <1>1, <1>2, <1>8, <1>9, <1>10, <1>11

\* The invariant holds at first, with whatever files a crash left behind.
LEMMA InitHolds == Init => IInv
  <1> SUFFICES ASSUME Init PROVE IInv
    OBVIOUS
  <1>1. /\ db = Empty /\ re.page = NoPage /\ gc.pc = "idle" /\ at = [w \in Writers |-> "idle"]
        /\ files \in {{}, Orphans} /\ young = {} /\ stale = {} /\ exposed = {}
    BY DEF Init
  <1>2. Rows = {}
    BY <1>1, EmptySound DEF Rows
  <1>3. Typed
    <2>1. N \in Msgs /\ Orphans \subseteq Shas
      BY ContentsAssumption DEF Msgs
    <2>2. files \subseteq Shas /\ young \subseteq files
      BY <1>1, <2>1
    <2>3. there \subseteq Msgs /\ filed \in [Msgs -> Boxes] /\ temp \subseteq Writers
      BY DEF Init, Boxes
    <2>4. /\ at \in [Writers -> {"idle", "link", "row"}] /\ job \in [Writers -> Msgs]
          /\ seen \in [Writers -> Boxes]
      BY <2>1 DEF Init, Boxes
    <2>5. gc \in GcTypes
      BY DEF Init, GcTypes
    <2>6. re = [pc |-> re.pc, offset |-> re.offset, page |-> re.page, more |-> re.more,
                rethread |-> re.rethread] /\ re.rethread \in {"no", "yes"}
      BY DEF Init
    <2>7. /\ exposed \subseteq Shas /\ stale \subseteq Msgs /\ fresh \subseteq ThreadIds
          /\ unlisted \subseteq ThreadIds /\ owed \subseteq People
      BY DEF Init
    <2>8. wrote \in [Msgs -> Boxes \X {"no", "yes"}] /\ spent \in [Events -> Nat]
      BY DEF Init, Boxes
    <2>9. QED
      BY <2>2, <2>3, <2>4, <2>5, <2>6, <2>7, <2>8 DEF Typed, GcTypes
  <1>4. PageSound
    BY <1>1 DEF PageSound, Table, NoPage
  <1>5. Bytes
    BY <1>1, <1>2 DEF Bytes, RowsBacked, WritersBacked
  <1>6. Derived
    BY <1>1, <1>2, EmptySound DEF Derived, ThreadsKnown, Together
  <1>7. QED
    BY <1>1, <1>2, <1>3, <1>4, <1>5, <1>6, EmptySound DEF IInv, FactsStand

\* A step that changes nothing keeps it.
LEMMA StutterKeeps == ASSUME IInv, UNCHANGED vars PROVE IInv'
  <1>1. UNCHANGED <<provider, store, db, writers, gc, re, history, spent>>
    BY DEF vars
  <1>2. PageSound'
    BY <1>1, SamePage DEF IInv
  <1>3. QED
    BY <1>1, <1>2, ReindexerKeeps DEF IInv, Typed

\* So does every step that the archive may take.
LEMMA StepKeeps == IInv /\ [Next]_vars => IInv'
  <1> SUFFICES ASSUME IInv, [Next]_vars PROVE IInv'
    OBVIOUS
  <1>1. CASE \E m \in Msgs : BeginFetch(m) \/ WriteStub(m) \/ EnsureRaw(m) \/ ApplyDelta(m)
    BY <1>1, BeginFetchKeeps, WriteStubKeeps, EnsureRawKeeps, ApplyDeltaKeeps
  <1>2. CASE \E w \in Writers : PutLink(w) \/ WriteRow(w) \/ CrashWriter(w)
    BY <1>2, PutLinkKeeps, WriteRowKeeps, CrashWriterKeeps
  <1>3. CASE Collect
    BY <1>3, BeginGCKeeps, ListDoomedKeeps, PurgeRowsKeeps, ListThreadIdsKeeps, RebuildThreadsKeeps,
       RebuildContactsKeeps, ReadReferencedKeeps, WalkKeeps, CleanTempKeeps, CrashGCKeeps DEF Collect
  <1>4. CASE \E s \in Shas : DeleteBlob(s) \/ Age(s)
    BY <1>4, DeleteBlobKeeps, AgeKeeps
  <1>5. CASE BeginReindex \/ ReadPage \/ WritePage \/ CrashReindex
    BY <1>5, BeginReindexKeeps, ReadPageKeeps, WritePageKeeps, CrashReindexKeeps
  <1>6. CASE \E m \in Msgs : File(m) \/ Destroy(m)
    BY <1>6, ProviderKeeps
  <1>7. CASE UNCHANGED vars
    BY <1>7, StutterKeeps
  <1>8. QED
    BY <1>1, <1>2, <1>3, <1>4, <1>5, <1>6, <1>7 DEF Next

\* The invariant holds throughout.
THEOREM Invariant == Spec => []IInv
  BY InitHolds, StepKeeps, PTL DEF Spec

\* A row whose bytes are gone is one that a reindex put back over a newer one, or
\* is exposed: its writer made do with a file that only deleted rows had, or a purge
\* took it.
LEMMA IntactHolds == IInv => Intact
  <1> SUFFICES ASSUME IInv PROVE Intact
    OBVIOUS
  <1>1. Sound(db) /\ IndexTyped(db) /\ Rows \subseteq Msgs /\ db.rows \in [Rows -> RowType]
    BY RowsTyped DEF IInv, Sound
  <1>2. db.reffed \subseteq Rows /\ db.threads \in [ThreadIds -> SUBSET Msgs]
    BY <1>1 DEF IndexTyped, Rows
  <1>3. gc.purged \cup gc.refs \cup gc.orphans \subseteq Shas /\ gc.ids \subseteq ThreadIds
    BY GcTyped DEF GcTypes
  <1>4. TypeOK
    BY <1>1, <1>2, <1>3 DEF TypeOK, IInv, Typed, Boxes
  <1>5. \A m \in Rows : Full(db.rows[m]) /\ db.rows[m].blob \notin files =>
            m \in stale \/ db.rows[m].blob \in exposed
    <2> SUFFICES ASSUME NEW m \in Rows, Full(db.rows[m]), m \notin stale, Sha[m] \notin exposed
                 PROVE  Sha[m] \in files
      BY <1>1, FullRow
    <2>1. QED
      BY DEF IInv, Bytes, RowsBacked, Backed
  <1>6. QED
    BY <1>4, <1>5 DEF Intact

\* Of the messages whose references are known, those of one thread are of one
\* conversation and, but for rows put back over newer ones, those that share a
\* reference are of one thread; summaries, contacts and people are those of the rows.
LEMMA DerivedHolds == IInv => DerivedTrue
  <1> SUFFICES ASSUME IInv PROVE DerivedTrue
    OBVIOUS
  <1>1. Sound(db) /\ Derived /\ Rows \subseteq Msgs /\ db.reffed \subseteq Rows
    BY RowsTyped DEF IInv, Sound, IndexTyped, Rows
  <1>2. ASSUME NEW m \in db.reffed, NEW n \in db.reffed, db.rows[m].thread = db.rows[n].thread
        PROVE  <<m, n>> \in Connected
    <2>1. m \in Msgs /\ n \in Msgs /\ Named(m, db.rows[m].thread) /\ Named(n, db.rows[n].thread)
      BY <1>1 DEF Sound, RowSound, Rows
    <2>2. QED
      BY <1>2, <2>1, Names
  <1>3. Threaded
    BY <1>1, <1>2 DEF Threaded, Derived, Together
  <1>4. SummariesTrue
    BY <1>1 DEF SummariesTrue, Derived, Summarised, Reckoned, Listed, Rows
  <1>5. QED
    BY <1>3, <1>4 DEF DerivedTrue

\* The bytes of a row stay where they are: whatever passes, readers, collections,
\* purges and reindexes run at once, and wherever any of them is interrupted, a row
\* loses its bytes only where Intact says that the code may lose them.
THEOREM BytesStay == Spec => []Intact
  BY Invariant, IntactHolds, PTL

\* What the provider said of a message stands: a row says what a pass or a reader
\* last wrote of it, unless a reindex has put back an older reading of it.
THEOREM FactsKept == Spec => []FactsStand
  <1>1. IInv => FactsStand
    BY DEF IInv
  <1>2. QED
    BY <1>1, Invariant, PTL

\* What is derived from the rows is right after every transaction: threads are
\* conversations in whatever order their messages came and were merged, and
\* summaries and contacts are those of the rows.
THEOREM DerivedKept == Spec => []DerivedTrue
  BY Invariant, DerivedHolds, PTL
=============================================================================
