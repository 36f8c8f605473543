------------------------- MODULE CalendarSyncProofs -------------------------
(***************************************************************************)
(* Proofs about CalendarSync: the token of a calendar is earned (NoGap),   *)
(* and once the passes have caught up in peace the agenda shows what the   *)
(* provider holds (AgendaMatches).                                         *)
(*                                                                         *)
(* Nothing of the invariant depends on how many dates, changes, deaths or  *)
(* re-expansions there are, or on the calendars one starts with.           *)
(***************************************************************************)
EXTENDS CalendarSync, TLAPS

-----------------------------------------------------------------------------
(* The parts of the invariant.                                             *)

Excs == UNION {[S -> Stored] : S \in SUBSET Exceptions}
RunType == [at : {"idle", "masters", "exceptions", "write"}, day : Nat, found : {"yes", "no"},
            exc : Excs, left : SUBSET ({Master} \cup Exceptions)]

Typed == TypeOK /\ run \in [Workers -> RunType]

\* What the provider holds is possible, and it stamped everything it holds.
Stamped ==
    /\ Possible(kind, srv) /\ clock > 0
    /\ \A i \in Items : stamp[i] <= clock /\ (OnServer(i) => stamp[i] > 0)
    /\ kind = "google" => \A s \in Slots : stamp[Inst(s)] > 0 => OnServer(Inst(s))

\* What a pass has in hand, step by step.
Reading == {"fetch", "upsert", "remove", "state"}
Phased ==
    /\ pc # "fetch" => ids = {}
    /\ pc \notin {"fetch", "upsert", "remove"} => gone = {}
    /\ pc # "upsert" => todo = {}
    /\ pc \in {"idle", "changes", "fetch"} => batch = Empty /\ touched = {}
    /\ pc \in {"idle", "changes"} => upto = 0 /\ full = "no"
    /\ pc \in Reading => token <= upto
    /\ pc # "state" => run["pass"].at = "idle"
    /\ ids \cap gone = {} /\ gone \cap DOMAIN batch = {}

\* Rows carry the date they are named after; instances are never marked deleted, and
\* what a pass holds is what it will store, or has stored.
DatedIn(f) == \A r \in DOMAIN f : /\ r \in Exceptions => f[r].date = r[2]
                                  /\ r = Single => f[r].date \in Slots
Filed ==
    /\ DatedIn(rows) /\ DatedIn(batch) /\ \A w \in Workers : DatedIn(run[w].exc)
    /\ \A r \in DOMAIN batch : batch[r].state = "live"
    /\ \A r \in DOMAIN rows : r \in Exceptions => rows[r].state = "live"
    /\ pc \in {"upsert", "remove", "state"} => DOMAIN batch \subseteq todo \cup DOMAIN rows
    /\ "single" \in touched =>
         Single \in DOMAIN batch /\ Single \in DOMAIN rows /\ rows[Single] = batch[Single]

\* What was listed is true as long as it has not changed since the position that the
\* pass took.
ListedTrue ==
    /\ \A i \in ids : stamp[i] <= upto => OnServer(i)
    /\ \A i \in gone : stamp[i] <= upto => ~OnServer(i)
    /\ \A r \in DOMAIN batch : stamp[Carrier(r)] <= upto =>
           /\ OnServer(r) /\ batch[r] = Event(r)
           /\ RowsOf(Carrier(r)) \subseteq DOMAIN batch

\* What the next token will stand for is applied, or the pass is about to apply it.
Ahead(i) == \/ i \in ids \cup gone
            \/ i \in DOMAIN batch /\ \A r \in RowsOf(i) : r \in todo \/ Current(r)
Owed == pc \in Reading /\ (whole = "yes" \/ full = "yes") =>
          \A i \in Items : stamp[i] > 0 /\ stamp[i] <= upto =>
             Applied(i) \/ (pc # "state" /\ Ahead(i) /\ (i \in DOMAIN batch => pc = "upsert"))

Earned == whole = "yes" => TokenIsEarned

IInv == /\ Typed /\ Stamped /\ Phased /\ Filed /\ ListedTrue /\ Owed /\ Earned

\* While passes and re-expansions keep out of each other's way, the rows that are not
\* expanded as they are stored are those that the pass has still to expand.
Held(f) == {q[2] : q \in DOMAIN f \cap Exceptions}
Most(f, r) == IF r = Master THEN Slots \ Held(f)
              ELSE IF r = Single \/ f[r].status = "confirmed" THEN {f[r].date} ELSE {}
Fits(f, o, r) == o[r] \subseteq Most(f, r) /\ \A d \in Most(f, r) : InWindow(d, 0) => d \in o[r]
SeriesOff == "series" \in touched /\ (pc \in {"upsert", "remove"} \/ run["pass"].at \in {"masters", "exceptions"})
Undone(r) == \/ r = Single /\ "single" \in touched /\ pc \in {"upsert", "remove"}
             \/ r # Single /\ SeriesOff
             \/ r = Master /\ Master \in gone /\ pc = "remove"
             \/ run["pass"].at = "write" /\ r \in run["pass"].left
Apart == run["daily"].at # "idle" => pc = "idle"
InSight(w) == /\ run[w].at \in {"exceptions", "write"} => run[w].found = FoundIn(rows)
              /\ run[w].at = "write" => run[w].exc = ExceptionsIn(rows)
Expanded == \A r \in DOMAIN rows : rows[r].state = "live" => Fits(rows, occ, r) \/ Undone(r)
Fitting == calm = "yes" =>
    /\ Apart /\ Expanded /\ \A w \in Workers : InSight(w)
    /\ run["pass"].at # "idle" => "series" \in touched

-----------------------------------------------------------------------------
(* Names of rows, and what the provider makes of its calendar.             *)

\* The rows by name: the master, the single event, the exceptions and, among them, those made up
\* from an excluded date.
LEMMA Names ==
    /\ Rows = {Master, Single} \cup Exceptions /\ Derived \subseteq Exceptions
    /\ Master # Single /\ Master \notin Exceptions /\ Single \notin Exceptions
    /\ \A s \in Slots : /\ Inst(s) \in Exceptions \ Derived /\ Exdate(s) \in Derived
                        /\ Inst(s)[2] = s /\ Exdate(s)[2] = s
    /\ \A r \in Exceptions : /\ r[2] \in Slots
                             /\ r \in Derived => r = Exdate(r[2])
                             /\ r \notin Derived => r = Inst(r[2])
  BY SlotsAssumption DEF Rows, Exceptions, Derived, Master, Single, Inst, Exdate

\* The objects the journal speaks of, and the rows made of each.
LEMMA Objects ==
    /\ {Master, Single} \subseteq Items /\ Items \subseteq Rows
    /\ \A i \in Items : i # Master => i \notin Derived
    /\ \A i \in Items \ {Master, Single} : kind = "google" /\ \E s \in Slots : i = Inst(s)
    /\ \A r \in Rows : /\ Carrier(r) \in Items
                       /\ r \in Items => Carrier(r) = r
                       /\ r \notin Items => Carrier(r) = Master
                       /\ r \in Derived => r \notin Items
                       /\ r \in Exceptions \ Derived => (r \in Items <=> kind = "google")
  <1>1. \A i \in Items : i \in {Master, Single} \/ (kind = "google" /\ \E s \in Slots : i = Inst(s))
    BY DEF Items
  <1>2. /\ {Master, Single} \subseteq Items
        /\ kind = "google" => \A s \in Slots : Inst(s) \in Items
    BY DEF Items
  <1>3. \A r \in Rows : Carrier(r) = IF r \in Items THEN r ELSE Master
    BY DEF Carrier
  <1>4. QED
    BY <1>1, <1>2, <1>3, Names

On(k, v, r) ==
    \/ r = Master /\ v.series = "live"
    \/ r = Single /\ v.single # 0
    \/ r \in Derived /\ k = "google" /\ v.series = "live" /\ r[2] \in v.excl
    \/ r \in Exceptions \ Derived /\ (v.inst[r[2]] # "none" \/ (k = "inline" /\ r[2] \in v.excl))

\* What is on the server, said of the server's contents alone, before and after a step.
LEMMA Served ==
    ASSUME NEW r \in Rows
    PROVE  (OnServer(r) <=> On(kind, srv, r)) /\ (OnServer(r)' <=> On(kind', srv', r))
  BY Names DEF OnServer, On

\* What a change to the calendar leaves alone: the objects it does not stamp.
Steady(i) == /\ OnServer(i)' <=> OnServer(i)
             /\ RowsOf(i)' = RowsOf(i)
             /\ \A r \in RowsOf(i) : Event(r)' = Event(r)

\* An object that an edit does not stamp, and whose part of the calendar it leaves alone, is steady.
LEMMA Steadfast ==
    ASSUME UNCHANGED kind, NEW i \in Items, stamp'[i] = stamp[i],
           \/ i = Single /\ srv'.single = srv.single
           \/ /\ i = Master /\ srv'.series = srv.series /\ srv'.excl = srv.excl
              /\ kind = "inline" => srv'.inst = srv.inst
           \/ \E s \in Slots : i = Inst(s) /\ kind = "google" /\ srv'.inst[s] = srv.inst[s],
           kind \in {"google", "inline"}
    PROVE  Steady(i)
  <1>1. Items' = Items
    BY DEF Items
  <1>2. \A r \in Rows : Carrier(r)' = Carrier(r)
    BY <1>1 DEF Carrier
  <1>3. ASSUME NEW r \in Rows, Carrier(r) = i
        PROVE  (OnServer(r)' <=> OnServer(r)) /\ Event(r)' = Event(r)
    <2>1. OnServer(r)' <=> OnServer(r)
      <3>1. On(kind', srv', r) <=> On(kind, srv, r)
        BY <1>3, Names, Objects DEF On
      <3>2. QED
        BY <3>1, Served
    <2>2. stamp'[Carrier(r)] = stamp[Carrier(r)]
      BY <1>3
    <2>3. r = Single => srv'.single = srv.single
      BY <1>3, Names, Objects
    <2>4. r \in Exceptions \ Derived => srv'.inst[r[2]] = srv.inst[r[2]]
      BY <1>3, Names, Objects
    <2>5. r \in Exceptions \ Derived /\ kind = "inline" => srv'.excl = srv.excl
      BY <1>3, Names, Objects
    <2>6. QED
      BY <1>2, <2>1, <2>2, <2>3, <2>4, <2>5, Names DEF Event
  <1>4. Carrier(i) = i /\ i \in Rows
    BY Objects
  <1>5. QED
    BY <1>2, <1>3, <1>4 DEF Steady, RowsOf

\* An edit of the calendar stamps what it changes and leaves every other object steady.
LEMMA Edits ==
    ASSUME TypeOK, Stamped, Edit
    PROVE  /\ UNCHANGED <<kind, wanted, database, pass, run, now, history>>
           /\ srv' \in Servers /\ Possible(kind, srv') /\ clock' = clock + 1 /\ Room
           /\ DOMAIN stamp' = DOMAIN stamp /\ stamp' \in [DOMAIN stamp -> Nat]
           /\ \A i \in Items : stamp'[i] = stamp[i] \/ stamp'[i] = clock + 1
           /\ \A i \in Items : stamp'[i] = stamp[i] => Steady(i)
           /\ kind = "google" => \A s \in Slots :
                OnServer(Inst(s)) \/ stamp'[Inst(s)] # stamp[Inst(s)] => OnServer(Inst(s))'
  <1> DEFINE Same(i) ==
           \/ i = Single /\ srv'.single = srv.single
           \/ /\ i = Master /\ srv'.series = srv.series /\ srv'.excl = srv.excl
              /\ kind = "inline" => srv'.inst = srv.inst
           \/ \E s \in Slots : i = Inst(s) /\ kind = "google" /\ srv'.inst[s] = srv.inst[s]
         Goal ==
             /\ UNCHANGED <<kind, wanted, database, pass, run, now, history>>
             /\ srv' \in Servers /\ Possible(kind, srv') /\ clock' = clock + 1 /\ Room
             /\ DOMAIN stamp' = DOMAIN stamp /\ stamp' \in [DOMAIN stamp -> Nat]
             /\ \A i \in Items : stamp'[i] = stamp[i] \/ stamp'[i] = clock + 1
             /\ \A i \in Items : stamp'[i] = stamp[i] => Steady(i)
             /\ kind = "google" => \A s \in Slots :
                OnServer(Inst(s)) \/ stamp'[Inst(s)] # stamp[Inst(s)] => OnServer(Inst(s))'
  <1> SUFFICES Goal
    OBVIOUS
  <1>1. /\ kind \in {"google", "inline"} /\ srv \in Servers /\ clock \in Nat
        /\ stamp \in [{Master, Single} \cup {Inst(s) : s \in Slots} -> Nat]
        /\ Items \subseteq DOMAIN stamp /\ \A i \in Items : stamp[i] <= clock /\ stamp[i] \in Nat
        /\ srv.inst \in [Slots -> {"none", "moved", "cancelled"}] /\ srv.excl \subseteq Slots
    BY ProvidersAssumption DEF TypeOK, Stamped, Items, Servers
  <1>2. ASSUME NEW v, NEW items, Change(v, items), v \in Servers,
               \A i \in Items : i \in items \/ Same(i),
               kind = "google" => \A s \in Slots : srv.inst[s] # "none" \/ Inst(s) \in items => v.inst[s] # "none"
        PROVE  Goal
    <2>1. /\ UNCHANGED <<kind, wanted, database, pass, run, now, history>>
          /\ srv' = v /\ Possible(kind, v) /\ clock' = clock + 1 /\ Room
          /\ stamp' = [i \in DOMAIN stamp |-> IF i \in items THEN clock + 1 ELSE stamp[i]]
      BY <1>2 DEF Change
    <2>2. /\ DOMAIN stamp' = DOMAIN stamp /\ stamp' \in [DOMAIN stamp -> Nat]
          /\ \A i \in Items : stamp'[i] = IF i \in items THEN clock + 1 ELSE stamp[i]
      BY <1>1, <2>1
    <2>3. ASSUME NEW i \in Items, stamp'[i] = stamp[i] PROVE Steady(i)
      <3>1. i \notin items
        BY <1>1, <2>2, <2>3
      <3>2. Same(i)
        BY <1>2, <3>1
      <3>3. QED
        BY <1>1, <2>1, <2>3, <3>2, Steadfast
    <2>4. kind = "google" => \A s \in Slots :
                OnServer(Inst(s)) \/ stamp'[Inst(s)] # stamp[Inst(s)] => OnServer(Inst(s))'
      <3> SUFFICES ASSUME kind = "google", NEW s \in Slots,
                          OnServer(Inst(s)) \/ stamp'[Inst(s)] # stamp[Inst(s)]
                   PROVE  OnServer(Inst(s))'
        OBVIOUS
      <3>1. Inst(s) \in Rows /\ Inst(s) \in Items
        BY Names DEF Items
      <3>2. On(kind, srv, Inst(s)) => srv.inst[s] # "none"
        BY Names DEF On
      <3>3. srv.inst[s] # "none" \/ Inst(s) \in items
        BY <2>2, <3>1, <3>2, Served
      <3>4. On(kind', srv', Inst(s))
        BY <1>2, <2>1, <3>3, Names DEF On
      <3>5. QED
        BY <3>1, <3>4, Served
    <2>5. QED
      BY <2>1, <2>2, <2>3, <2>4, <1>2
  <1>3. \A i \in Items : i = Master \/ i = Single \/ (kind = "google" /\ \E s \in Slots : i = Inst(s))
    BY Objects
  <1>4. Master \in Items /\ \A s \in Slots : Carrier(Inst(s)) = IF kind = "google" THEN Inst(s) ELSE Master
    BY <1>1, Names, Objects
  <1>5. ASSUME NEW s \in Slots, Exclude(s) PROVE \E v, items :
               /\ Change(v, items) /\ v \in Servers
               /\ \A i \in Items : i \in items \/ Same(i)
               /\ kind = "google" => \A t \in Slots : srv.inst[t] # "none" \/ Inst(t) \in items => v.inst[t] # "none"
    <2> DEFINE v == [srv EXCEPT !.excl = IF s \in @ THEN @ \ {s} ELSE @ \cup {s}]
    <2>1. Change(v, {Master})
      BY <1>5 DEF Exclude
    <2>2. v \in Servers /\ v.inst = srv.inst /\ v.single = srv.single /\ v.series = srv.series
      BY <1>1 DEF Servers
    <2>3. srv' = v
      BY <2>1 DEF Change
    <2> HIDE DEF v
    <2>4. \A i \in Items : i \in {Master} \/ Same(i)
      BY <1>3, <2>2, <2>3
    <2>5. QED
      BY <2>1, <2>2, <2>4, Names
  <1>6. ASSUME NEW s \in Slots, NEW w \in {"none", "moved", "cancelled"}, ChangeInstance(s, w)
        PROVE \E v, items :
               /\ Change(v, items) /\ v \in Servers
               /\ \A i \in Items : i \in items \/ Same(i)
               /\ kind = "google" => \A t \in Slots : srv.inst[t] # "none" \/ Inst(t) \in items => v.inst[t] # "none"
    <2> DEFINE v == [srv EXCEPT !.inst[s] = w]
    <2>1. Change(v, {Carrier(Inst(s))}) /\ (kind = "google" => w # "none")
      BY <1>6 DEF ChangeInstance
    <2>2. v \in Servers /\ v.excl = srv.excl /\ v.single = srv.single /\ v.series = srv.series
      BY <1>1 DEF Servers
    <2>3. \A t \in Slots : v.inst[t] = IF t = s THEN w ELSE srv.inst[t]
      BY <1>1 DEF Servers
    <2>4. srv' = v
      BY <2>1 DEF Change
    <2> HIDE DEF v
    <2>5. \A i \in Items : i \in {Carrier(Inst(s))} \/ Same(i)
      BY <1>1, <1>3, <1>4, <2>2, <2>3, <2>4, Names
    <2>6. QED
      BY <1>1, <1>4, <2>1, <2>2, <2>3, <2>5, Names
  <1>7. ASSUME DeleteSeries
        PROVE \E v, items :
               /\ Change(v, items) /\ v \in Servers
               /\ \A i \in Items : i \in items \/ Same(i)
               /\ kind = "google" => \A t \in Slots : srv.inst[t] # "none" \/ Inst(t) \in items => v.inst[t] # "none"
    <2> DEFINE moved == {s \in Slots : srv.inst[s] = "moved"}
               v == [srv EXCEPT !.series = "gone", !.excl = {},
                                !.inst = [s \in Slots |->
                                   IF s \notin moved THEN srv.inst[s]
                                   ELSE IF kind = "google" THEN "cancelled" ELSE "none"]]
               items == {Master} \cup {Carrier(Inst(s)) : s \in moved}
    <2>1. Change(v, items)
      BY <1>7 DEF DeleteSeries
    <2>2. v \in Servers /\ v.single = srv.single
      BY <1>1 DEF Servers
    <2>3. \A t \in Slots : v.inst[t] = IF t \notin moved THEN srv.inst[t]
                                       ELSE IF kind = "google" THEN "cancelled" ELSE "none"
      BY <1>1 DEF Servers
    <2>4. srv' = v
      BY <2>1 DEF Change
    <2> HIDE DEF v
    <2>5. \A i \in Items : i \in items \/ Same(i)
      BY <1>1, <1>3, <1>4, <2>2, <2>3, <2>4, Names
    <2>6. QED
      BY <1>1, <1>4, <2>1, <2>2, <2>3, <2>5, Names
  <1>8. ASSUME RestoreSeries
        PROVE \E v, items :
               /\ Change(v, items) /\ v \in Servers
               /\ \A i \in Items : i \in items \/ Same(i)
               /\ kind = "google" => \A t \in Slots : srv.inst[t] # "none" \/ Inst(t) \in items => v.inst[t] # "none"
    <2> DEFINE v == [srv EXCEPT !.series = "live"]
    <2>1. Change(v, {Master})
      BY <1>8 DEF RestoreSeries
    <2>2. v \in Servers /\ v.inst = srv.inst /\ v.single = srv.single
      BY <1>1 DEF Servers
    <2>3. srv' = v
      BY <2>1 DEF Change
    <2> HIDE DEF v
    <2>4. \A i \in Items : i \in {Master} \/ Same(i)
      BY <1>3, <2>2, <2>3
    <2>5. QED
      BY <2>1, <2>2, <2>4, Names
  <1>9. ASSUME NEW d \in Slots \cup {0}, ChangeSingle(d)
        PROVE \E v, items :
               /\ Change(v, items) /\ v \in Servers
               /\ \A i \in Items : i \in items \/ Same(i)
               /\ kind = "google" => \A t \in Slots : srv.inst[t] # "none" \/ Inst(t) \in items => v.inst[t] # "none"
    <2> DEFINE v == [srv EXCEPT !.single = d]
    <2>1. Change(v, {Single})
      BY <1>9 DEF ChangeSingle
    <2>2. v \in Servers /\ v.inst = srv.inst /\ v.excl = srv.excl /\ v.series = srv.series
      BY <1>1 DEF Servers
    <2>3. srv' = v
      BY <2>1 DEF Change
    <2> HIDE DEF v
    <2>4. \A i \in Items : i \in {Single} \/ Same(i)
      BY <1>3, <2>2, <2>3
    <2>5. QED
      BY <2>1, <2>2, <2>4, Names
  <1>10. \E v, items :
               /\ Change(v, items) /\ v \in Servers
               /\ \A i \in Items : i \in items \/ Same(i)
               /\ kind = "google" => \A t \in Slots : srv.inst[t] # "none" \/ Inst(t) \in items => v.inst[t] # "none"
    BY <1>5, <1>6, <1>7, <1>8, <1>9, CalendarBounds DEF Edit
  <1> HIDE DEF Same, Goal
  <1>11. PICK v, items :
               /\ Change(v, items) /\ v \in Servers
               /\ \A i \in Items : i \in items \/ Same(i)
               /\ kind = "google" => \A t \in Slots : srv.inst[t] # "none" \/ Inst(t) \in items => v.inst[t] # "none"
    BY <1>10
  <1>12. QED
    BY <1>2, <1>11

-----------------------------------------------------------------------------
(* Types.                                                                  *)

\* What the steps of Next are, once.
LEMMA Steps ==
    ASSUME [Next]_vars
    PROVE  \/ UNCHANGED vars
           \/ ReplaceCalendars
           \/ \E f \in {"yes", "no"} : EventChanges(f)
           \/ FetchObjects
           \/ \E r \in Rows : UpsertEvent(r)
           \/ \E r \in Rows : MarkEventDeleted(r)
           \/ PruneEventRows
           \/ ExpandSingle
           \/ SetState
           \/ Abort
           \/ \E w \in Workers : ListRecurringEvents(w)
           \/ \E w \in Workers : ListEventExceptions(w)
           \/ \E w \in Workers, r \in Rows : ReplaceOccurrences(w, r)
           \/ ReexpandAll
           \/ ReexpandDies
           \/ Edit
           \/ Unlist \/ Relist \/ NextDay
  BY DEF Next, Pass, Expand

\* A row as the provider has it.
LEMMA Events ==
    ASSUME TypeOK, NEW r \in Rows
    PROVE  /\ Event(r) \in Stored /\ Event(r).state = "live"
           /\ r \in Exceptions => Event(r).date = r[2]
           /\ r = Single /\ OnServer(r) => Event(r).date \in Slots
           /\ r # Single => Event(r).date = r[2]
  <1>1. stamp[Carrier(r)] \in Nat
    BY Objects, Names DEF TypeOK, Items
  <1>2. srv.single \in Slots \cup {0} /\ r \in Exceptions => r[2] \in Slots /\ Master[2] = 0
    BY Names DEF TypeOK, Servers, Master
  <1>3. r = Single /\ OnServer(r) => srv.single # 0
    BY Names, Served DEF On
  <1>4. Event(r).date = (IF r = Single THEN srv.single ELSE r[2]) /\ Event(r).state = "live"
    BY DEF Event
  <1>5. (IF r = Single THEN srv.single ELSE r[2]) \in Slots \cup {0}
    BY Names DEF TypeOK, Servers, Master
  <1>6. Event(r) \in Stored
    BY <1>1, <1>5 DEF Event, Stored
  <1>7. QED
    BY <1>3, <1>4, <1>5, <1>6, Names DEF TypeOK, Servers

\* The empty set of exceptions, and the idle run, are typed.
LEMMA Exceptional ==
    /\ Empty \in Excs /\ DOMAIN Empty = {}
    /\ \A f \in Excs : DOMAIN f \subseteq Exceptions /\ \A r \in DOMAIN f : f[r] \in Stored
    /\ Idle \in RunType /\ Idle.at = "idle" /\ Idle.day = 0 /\ Idle.exc = Empty /\ Idle.left = {}
  <1>1. Empty \in [{} -> Stored] /\ DOMAIN Empty = {}
    BY DEF Empty
  <1>2. Empty \in Excs
    BY <1>1 DEF Excs
  <1>3. QED
    BY <1>1, <1>2 DEF Excs, Idle, RunType

\* What a run is after each of its steps, field by field.
LEMMA Started ==
    ASSUME NEW d
    PROVE  /\ [Idle EXCEPT !.day = d] = [at |-> "idle", day |-> d, found |-> "no", exc |-> Empty, left |-> {}]
           /\ [Idle EXCEPT !.at = "masters", !.day = d]
                = [at |-> "masters", day |-> d, found |-> "no", exc |-> Empty, left |-> {}]
  <1> DEFINE z == [at |-> "masters", day |-> 0, found |-> "no", exc |-> Empty, left |-> {}]
  <1>1. [Idle EXCEPT !.at = "masters"] = z
    BY DEF Idle
  <1>2. [z EXCEPT !.day = d] = [at |-> "masters", day |-> d, found |-> "no", exc |-> Empty, left |-> {}]
    OBVIOUS
  <1>3. [Idle EXCEPT !.day = d] = [at |-> "idle", day |-> d, found |-> "no", exc |-> Empty, left |-> {}]
    BY DEF Idle
  <1>4. [Idle EXCEPT !.at = "masters", !.day = d] = [[Idle EXCEPT !.at = "masters"] EXCEPT !.day = d]
    OBVIOUS
  <1> HIDE DEF z
  <1>5. QED
    BY <1>1, <1>2, <1>3, <1>4

\* Listing the masters: what the worker's record is after it.
LEMMA MastersListed ==
    ASSUME Typed, NEW w \in Workers, ListRecurringEvents(w)
    PROVE  run' = [run EXCEPT ![w] = [at |-> "exceptions", day |-> run[w].day, found |-> FoundIn(rows),
                                      exc |-> run[w].exc, left |-> run[w].left]]
  <1> DEFINE y == run[w]
             z == [at |-> y.at, day |-> y.day, found |-> FoundIn(rows), exc |-> y.exc, left |-> y.left]
  <1>1. y \in RunType
    BY DEF Typed
  <1>2. [y EXCEPT !.found = FoundIn(rows)] = z
    <2>1. y = [at |-> y.at, day |-> y.day, found |-> y.found, exc |-> y.exc, left |-> y.left]
      BY <1>1 DEF RunType
    <2> HIDE DEF y
    <2>2. QED
      BY <2>1
  <1>3. [z EXCEPT !.at = "exceptions"]
           = [at |-> "exceptions", day |-> y.day, found |-> FoundIn(rows), exc |-> y.exc, left |-> y.left]
    OBVIOUS
  <1>4. run' = [run EXCEPT ![w].found = FoundIn(rows), ![w].at = "exceptions"]
    BY DEF ListRecurringEvents
  <1>5. run' = [run EXCEPT ![w] = [[run[w] EXCEPT !.found = FoundIn(rows)] EXCEPT !.at = "exceptions"]]
    BY <1>4 DEF Typed
  <1> HIDE DEF z
  <1>6. QED
    BY <1>2, <1>3, <1>5

\* Listing the exceptions: what the worker's record is after it.
LEMMA ExceptionsListed ==
    ASSUME Typed, NEW w \in Workers, ListEventExceptions(w),
           NEW exc, exc = ExceptionsIn(rows),
           NEW left, left = DOMAIN exc \cup (IF run[w].found = "yes" THEN {Master} ELSE {})
    PROVE  /\ left = {} => run' = [run EXCEPT ![w] = Idle]
           /\ left # {} => run' = [run EXCEPT ![w] =
                [at |-> "write", day |-> run[w].day, found |-> run[w].found, exc |-> exc, left |-> left]]
  <1> DEFINE y == run[w]
             z1 == [at |-> y.at, day |-> y.day, found |-> y.found, exc |-> exc, left |-> y.left]
             z2 == [at |-> y.at, day |-> y.day, found |-> y.found, exc |-> exc, left |-> left]
  <1>1. y \in RunType
    BY DEF Typed
  <1>2. [y EXCEPT !.exc = exc] = z1
    <2>1. y = [at |-> y.at, day |-> y.day, found |-> y.found, exc |-> y.exc, left |-> y.left]
      BY <1>1 DEF RunType
    <2> HIDE DEF y
    <2>2. QED
      BY <2>1
  <1>3. [z1 EXCEPT !.left = left] = z2
    OBVIOUS
  <1>4. [z2 EXCEPT !.at = "write"]
           = [at |-> "write", day |-> y.day, found |-> y.found, exc |-> exc, left |-> left]
    OBVIOUS
  <1>5. run' = [run EXCEPT ![w] = IF left = {} THEN Idle ELSE
                                    [run[w] EXCEPT !.exc = exc, !.left = left, !.at = "write"]]
    BY DEF ListEventExceptions
  <1>6. [run[w] EXCEPT !.exc = exc, !.left = left, !.at = "write"]
           = [[[run[w] EXCEPT !.exc = exc] EXCEPT !.left = left] EXCEPT !.at = "write"]
    OBVIOUS
  <1> HIDE DEF z1, z2
  <1>7. [run[w] EXCEPT !.exc = exc, !.left = left, !.at = "write"]
           = [at |-> "write", day |-> y.day, found |-> y.found, exc |-> exc, left |-> left]
    BY <1>2, <1>3, <1>4, <1>6
  <1>8. QED
    BY <1>5, <1>7

\* Writing the occurrences of one row: what the worker's record is after it.
LEMMA RowWritten ==
    ASSUME Typed, NEW w \in Workers, NEW r, ReplaceOccurrences(w, r)
    PROVE  /\ run[w].left = {r} => run' = [run EXCEPT ![w] = Idle]
           /\ run[w].left # {r} => run' = [run EXCEPT ![w] =
                [at |-> run[w].at, day |-> run[w].day, found |-> run[w].found,
                 exc |-> run[w].exc, left |-> run[w].left \ {r}]]
  <1> DEFINE y == run[w]
  <1>1. y \in RunType
    BY DEF Typed
  <1>2. y = [at |-> y.at, day |-> y.day, found |-> y.found, exc |-> y.exc, left |-> y.left]
    BY <1>1 DEF RunType
  <1>3. run' = [run EXCEPT ![w] = IF run[w].left = {r} THEN Idle
                                  ELSE [run[w] EXCEPT !.left = @ \ {r}]]
    BY DEF ReplaceOccurrences
  <1> HIDE DEF y
  <1>4. [y EXCEPT !.left = y.left \ {r}]
           = [at |-> y.at, day |-> y.day, found |-> y.found, exc |-> y.exc, left |-> y.left \ {r}]
    BY <1>2
  <1>5. QED
    BY <1>3, <1>4 DEF y

RunOK(x, day) == /\ x \in RunType /\ x.day \in 0..day /\ DatedIn(x.exc)
                 /\ x.left \subseteq DOMAIN x.exc \cup {Master}

\* The exceptions the database holds are its rows that are exceptions, as they are.
LEMMA ExceptionRows ==
    ASSUME TypeOK, Filed
    PROVE  /\ ExceptionsIn(rows) \in Excs /\ DatedIn(ExceptionsIn(rows))
           /\ DOMAIN ExceptionsIn(rows) = DOMAIN rows \cap Exceptions
           /\ \A r \in DOMAIN rows \cap Exceptions : ExceptionsIn(rows)[r] = rows[r]
  <1>1. /\ DOMAIN ExceptionsIn(rows) = DOMAIN rows \ {Master, Single}
        /\ \A r \in DOMAIN rows \ {Master, Single} : ExceptionsIn(rows)[r] = rows[r]
        /\ ExceptionsIn(rows) = [r \in DOMAIN rows \ {Master, Single} |-> rows[r]]
    BY DEF ExceptionsIn, Without
  <1>2. DOMAIN rows \ {Master, Single} = DOMAIN rows \cap Exceptions
    BY Names DEF TypeOK
  <1>3. ExceptionsIn(rows) \in [DOMAIN rows \cap Exceptions -> Stored]
    BY <1>1, <1>2 DEF TypeOK
  <1>4. QED
    BY <1>1, <1>2, <1>3, Names DEF Excs, Filed, DatedIn

\* At most one of the two runs takes a step, and stays well formed.
LEMMA RunSteps ==
    ASSUME Typed, Filed, [Next]_vars
    PROVE  \/ UNCHANGED run
           \/ \E w \in Workers : \E x : run' = [run EXCEPT ![w] = x] /\ RunOK(x, now')
  <1> DEFINE Goal == \/ UNCHANGED run
                     \/ \E w \in Workers : \E x : run' = [run EXCEPT ![w] = x] /\ RunOK(x, now')
  <1>1. /\ run \in [Workers -> RunType] /\ now \in Nat /\ {"pass", "daily"} = Workers
        /\ \A w \in Workers : RunOK(run[w], now)
    BY DEF Typed, TypeOK, RunOK, Workers, Filed
  <1>2. RunOK(Idle, now) /\ RunOK([Idle EXCEPT !.day = now], now)
        /\ RunOK([Idle EXCEPT !.at = "masters", !.day = now], now)
    <2>1. /\ [Idle EXCEPT !.day = now] = [at |-> "idle", day |-> now, found |-> "no", exc |-> Empty, left |-> {}]
          /\ [Idle EXCEPT !.at = "masters", !.day = now]
               = [at |-> "masters", day |-> now, found |-> "no", exc |-> Empty, left |-> {}]
          /\ Idle = [at |-> "idle", day |-> 0, found |-> "no", exc |-> Empty, left |-> {}]
      BY Started DEF Idle
    <2>2. DatedIn(Empty)
      BY Exceptional DEF DatedIn
    <2>3. \A a \in {"idle", "masters"} : \A d \in 0..now :
             RunOK([at |-> a, day |-> d, found |-> "no", exc |-> Empty, left |-> {}], now)
      BY <1>1, <2>2, Exceptional DEF RunOK, RunType
    <2>4. 0 \in 0..now /\ now \in 0..now
      BY <1>1
    <2>5. QED
      BY <2>1, <2>3, <2>4
  <1>3. CASE ReplaceCalendars
    BY <1>1, <1>2, <1>3 DEF ReplaceCalendars
  <1>4. CASE FetchObjects
    BY <1>1, <1>2, <1>4 DEF FetchObjects
  <1>5. CASE ExpandSingle
    <2>1. CASE "series" \in touched
      <3> DEFINE x == [at |-> "masters", day |-> run["pass"].day, found |-> run["pass"].found,
                       exc |-> run["pass"].exc, left |-> run["pass"].left]
      <3>1. run' = [run EXCEPT !["pass"].at = "masters"] /\ now' = now
        BY <1>5, <2>1 DEF ExpandSingle
      <3>2. run["pass"] \in RunType /\ "pass" \in Workers /\ RunOK(run["pass"], now)
        BY <1>1
      <3>3. [run["pass"] EXCEPT !.at = "masters"] = x
        BY <3>2 DEF RunType
      <3>4. run' = [run EXCEPT !["pass"] = x]
        BY <1>1, <3>1, <3>3
      <3>5. RunOK(x, now)
        BY <3>2 DEF RunOK, RunType
      <3> HIDE DEF x
      <3>6. QED
        BY <3>1, <3>2, <3>4, <3>5
    <2>2. CASE "series" \notin touched
      BY <1>5, <2>2 DEF ExpandSingle
    <2>3. QED
      BY <2>1, <2>2
  <1>6. CASE SetState \/ Abort
    BY <1>1, <1>2, <1>6 DEF SetState, Abort
  <1>7. ASSUME NEW w \in Workers, ListRecurringEvents(w) PROVE Goal
    <2> DEFINE x == [at |-> "exceptions", day |-> run[w].day, found |-> FoundIn(rows),
                     exc |-> run[w].exc, left |-> run[w].left]
    <2>1. run' = [run EXCEPT ![w] = x] /\ now' = now
      BY <1>7, MastersListed DEF ListRecurringEvents
    <2>2. run[w] \in RunType /\ RunOK(run[w], now) /\ FoundIn(rows) \in {"yes", "no"}
      BY <1>1 DEF FoundIn
    <2>3. RunOK(x, now)
      BY <2>2 DEF RunOK, RunType
    <2> HIDE DEF x
    <2>4. QED
      BY <2>1, <2>3
  <1>8. ASSUME NEW w \in Workers, ListEventExceptions(w) PROVE Goal
    <2>1. PICK exc : exc = ExceptionsIn(rows)
      OBVIOUS
    <2>2. PICK left : left = DOMAIN exc \cup (IF run[w].found = "yes" THEN {Master} ELSE {})
      OBVIOUS
    <2> DEFINE x == [at |-> "write", day |-> run[w].day, found |-> run[w].found,
                     exc |-> exc, left |-> left]
    <2>3. /\ left = {} => run' = [run EXCEPT ![w] = Idle]
          /\ left # {} => run' = [run EXCEPT ![w] = x]
          /\ now' = now
      BY <1>8, <2>1, <2>2, ExceptionsListed DEF ListEventExceptions
    <2>4. run[w] \in RunType /\ RunOK(run[w], now) /\ exc \in Excs /\ DatedIn(exc)
          /\ DOMAIN exc \subseteq Exceptions
      BY <1>1, <2>1, ExceptionRows, Exceptional DEF Typed
    <2>5. RunOK(x, now)
      BY <2>2, <2>4 DEF RunOK, RunType
    <2> HIDE DEF x
    <2>6. QED
      BY <1>2, <2>3, <2>5
  <1>9. ASSUME NEW w \in Workers, NEW r \in Rows, ReplaceOccurrences(w, r) PROVE Goal
    <2> DEFINE x == [at |-> run[w].at, day |-> run[w].day, found |-> run[w].found,
                     exc |-> run[w].exc, left |-> run[w].left \ {r}]
    <2>1. /\ run[w].left = {r} => run' = [run EXCEPT ![w] = Idle]
          /\ run[w].left # {r} => run' = [run EXCEPT ![w] = x]
          /\ now' = now
      BY <1>9, RowWritten DEF ReplaceOccurrences
    <2>2. run[w] \in RunType /\ RunOK(run[w], now)
      BY <1>1
    <2>3. RunOK(x, now)
      BY <2>2 DEF RunOK, RunType
    <2> HIDE DEF x
    <2>4. QED
      BY <1>2, <2>1, <2>3
  <1>10. CASE ReexpandAll \/ ReexpandDies
    BY <1>1, <1>2, <1>10 DEF ReexpandAll, ReexpandDies
  <1>11. CASE \/ UNCHANGED vars \/ (\E f \in {"yes", "no"} : EventChanges(f))
              \/ (\E r \in Rows : UpsertEvent(r)) \/ (\E r \in Rows : MarkEventDeleted(r))
              \/ PruneEventRows \/ Unlist \/ Relist \/ NextDay
    BY <1>11 DEF vars, EventChanges, UpsertEvent, MarkEventDeleted, PruneEventRows, Unlist,
                 Relist, NextDay
  <1>12. CASE Edit
    BY <1>12 DEF Edit, Exclude, ChangeInstance, DeleteSeries, RestoreSeries, ChangeSingle, Change
  <1>13. QED
    BY <1>3, <1>4, <1>5, <1>6, <1>7, <1>8, <1>9, <1>10, <1>11, <1>12, Steps

\* What each step does to the rows and their occurrences.
LEMMA StoreSteps ==
    ASSUME TypeOK, [Next]_vars
    PROVE  \/ UNCHANGED <<rows, occ>>
           \/ ReplaceCalendars /\ rows' = Empty /\ occ' = Empty
           \/ \E r \in Rows : UpsertEvent(r)
           \/ \E r \in Rows : MarkEventDeleted(r)
           \/ PruneEventRows
           \/ ExpandSingle
           \/ \E w \in Workers, r \in Rows : ReplaceOccurrences(w, r)
  <1>1. CASE UNCHANGED vars \/ (\E f \in {"yes", "no"} : EventChanges(f)) \/ FetchObjects
             \/ SetState \/ Abort
    BY <1>1 DEF vars, database, EventChanges, FetchObjects, SetState, Abort
  <1>2. CASE \/ \E w \in Workers : ListRecurringEvents(w)
             \/ \E w \in Workers : ListEventExceptions(w)
             \/ ReexpandAll \/ ReexpandDies \/ Unlist \/ Relist \/ NextDay
    BY <1>2 DEF database, ListRecurringEvents, ListEventExceptions, ReexpandAll, ReexpandDies,
                Unlist, Relist, NextDay
  <1>3. CASE Edit
    BY <1>3 DEF Edit, Exclude, ChangeInstance, DeleteSeries, RestoreSeries, ChangeSingle, Change,
                database
  <1>4. CASE ReplaceCalendars
    BY <1>4 DEF ReplaceCalendars
  <1>5. QED
    BY <1>1, <1>2, <1>3, <1>4, Steps

\* What each step does to the pass in hand.
LEMMA PassSteps ==
    ASSUME [Next]_vars
    PROVE  \/ UNCHANGED <<pc, upto, ids, gone, batch, todo, touched, full>>
           \/ ReplaceCalendars
           \/ \E f \in {"yes", "no"} : EventChanges(f)
           \/ FetchObjects
           \/ \E r \in Rows : UpsertEvent(r)
           \/ \E r \in Rows : MarkEventDeleted(r)
           \/ PruneEventRows
           \/ ExpandSingle
           \/ SetState
           \/ Abort
  <1>1. CASE UNCHANGED vars \/ ReexpandAll \/ ReexpandDies \/ Unlist \/ Relist \/ NextDay
    BY <1>1 DEF vars, pass, ReexpandAll, ReexpandDies, Unlist, Relist, NextDay
  <1>2. CASE \/ \E w \in Workers : ListRecurringEvents(w)
             \/ \E w \in Workers : ListEventExceptions(w)
             \/ \E w \in Workers, r \in Rows : ReplaceOccurrences(w, r)
    BY <1>2 DEF pass, ListRecurringEvents, ListEventExceptions, ReplaceOccurrences
  <1>3. CASE Edit
    BY <1>3 DEF Edit, Exclude, ChangeInstance, DeleteSeries, RestoreSeries, ChangeSingle, Change, pass
  <1>4. QED
    BY <1>1, <1>2, <1>3, Steps

\* Only an edit moves the provider, and only the end of a pass the token.
LEMMA ServerSteps ==
    ASSUME TypeOK, Stamped, [Next]_vars
    PROVE  /\ kind' = kind
           /\ Edit \/ UNCHANGED <<srv, stamp, clock>>
           /\ token' = token \/ SetState
           /\ Edit => UNCHANGED <<pc, upto, ids, gone, batch, todo, touched, full, rows, occ, token,
                                  run, now, calm, whole, relisted, aborts, drops, wanted>>
           /\ \/ UNCHANGED <<whole, relisted>>
              \/ ReplaceCalendars
              \/ SetState
              \/ \E f \in {"yes", "no"} : EventChanges(f)
           /\ relisted = "yes" => relisted' = "yes"
  <1>1. Edit => UNCHANGED <<pc, upto, ids, gone, batch, todo, touched, full, rows, occ, token,
                            run, now, calm, whole, relisted, aborts, drops, wanted, kind>>
    BY Edits DEF database, pass, history
  <1>2. CASE \/ UNCHANGED vars \/ FetchObjects \/ PruneEventRows \/ ExpandSingle \/ Abort
             \/ (\E r \in Rows : UpsertEvent(r)) \/ (\E r \in Rows : MarkEventDeleted(r))
    <2>1. UNCHANGED <<kind, srv, stamp, clock, token, whole, relisted>>
      BY <1>2 DEF vars, provider, database, history, FetchObjects, PruneEventRows,
                  ExpandSingle, Abort, UpsertEvent, MarkEventDeleted
    <2>2. QED
      BY <1>1, <2>1
  <1>3. CASE \/ \E w \in Workers : ListRecurringEvents(w)
             \/ \E w \in Workers : ListEventExceptions(w)
             \/ \E w \in Workers, r \in Rows : ReplaceOccurrences(w, r)
             \/ ReexpandAll \/ ReexpandDies \/ Unlist \/ Relist \/ NextDay
    <2>1. UNCHANGED <<kind, srv, stamp, clock, token, whole, relisted>>
      BY <1>3 DEF provider, database, history, ListRecurringEvents, ListEventExceptions,
              ReplaceOccurrences, ReexpandAll, ReexpandDies, Unlist, Relist, NextDay
    <2>2. QED
      BY <1>1, <2>1
  <1>4. CASE ReplaceCalendars
    <2>1. UNCHANGED <<kind, srv, stamp, clock, token, relisted>>
      BY <1>4 DEF provider, ReplaceCalendars
    <2>2. QED
      BY <1>1, <1>4, <2>1
  <1>5. CASE \E f \in {"yes", "no"} : EventChanges(f)
    <2>1. UNCHANGED <<kind, srv, stamp, clock, token>> /\ (relisted = "yes" => relisted' = "yes")
      BY <1>5 DEF provider, database, EventChanges
    <2>2. QED
      BY <1>1, <1>5, <2>1
  <1>6. CASE SetState
    <2>1. UNCHANGED <<kind, srv, stamp, clock, relisted>>
      BY <1>6 DEF provider, SetState
    <2>2. QED
      BY <1>1, <1>6, <2>1
  <1>7. QED
    BY <1>1, <1>2, <1>3, <1>4, <1>5, <1>6, Steps

\* Every step keeps the types.
LEMMA TypesKept ==
    ASSUME Typed, Stamped, Phased, Filed, [Next]_vars
    PROVE  Typed'
  <1>1. /\ TypeOK /\ run \in [Workers -> RunType] /\ Workers = {"pass", "daily"}
        /\ DOMAIN rows \subseteq Rows /\ (\A r \in DOMAIN rows : rows[r] \in Stored)
        /\ occ \in [DOMAIN rows -> SUBSET Slots]
        /\ DOMAIN batch \subseteq Rows /\ (\A r \in DOMAIN batch : batch[r] \in Stored)
        /\ todo \subseteq DOMAIN batch
    BY DEF Typed, TypeOK, Workers
  <1>2. /\ DOMAIN rows' \subseteq Rows /\ \A r \in DOMAIN rows' : rows'[r] \in Stored
        /\ occ' \in [DOMAIN rows' -> SUBSET Slots]
    <2> DEFINE Good == /\ DOMAIN rows' \subseteq Rows /\ \A r \in DOMAIN rows' : rows'[r] \in Stored
                       /\ occ' \in [DOMAIN rows' -> SUBSET Slots]
    <2>1. CASE UNCHANGED <<rows, occ>>
      BY <1>1, <2>1
    <2>2. CASE rows' = Empty /\ occ' = Empty
      BY <2>2 DEF Empty
    <2>3. ASSUME NEW r \in Rows, UpsertEvent(r) PROVE Good
      <3>1. r \in todo /\ rows' = Put(rows, r, batch[r])
            /\ occ' = IF r \in DOMAIN rows THEN occ ELSE Put(occ, r, {})
        BY <2>3 DEF UpsertEvent, First
      <3>2. DOMAIN rows' = DOMAIN rows \cup {r} /\ \A q \in DOMAIN rows' : rows'[q] \in Stored
        BY <1>1, <3>1 DEF Put
      <3>3. occ' \in [DOMAIN rows' -> SUBSET Slots]
        <4>1. CASE r \in DOMAIN rows
          BY <1>1, <3>1, <3>2, <4>1
        <4>2. CASE r \notin DOMAIN rows
          BY <1>1, <3>1, <3>2, <4>2 DEF Put
        <4>3. QED
          BY <4>1, <4>2
      <3>4. QED
        BY <1>1, <2>3, <3>2, <3>3
    <2>4. ASSUME NEW r \in Rows, MarkEventDeleted(r) PROVE Good
      <3>1. CASE r \in DOMAIN rows
        <4>1. /\ rows' = [rows EXCEPT ![r].state = "deleted"]
              /\ occ' = [occ EXCEPT ![r] = {}]
          BY <2>4, <3>1 DEF MarkEventDeleted
        <4>2. [rows[r] EXCEPT !.state = "deleted"] \in Stored
          BY <1>1, <3>1 DEF Stored
        <4>3. QED
          BY <1>1, <4>1, <4>2
      <3>2. CASE r \notin DOMAIN rows
        BY <1>1, <2>4, <3>2 DEF MarkEventDeleted
      <3>3. QED
        BY <3>1, <3>2
    <2>5. CASE PruneEventRows
      <3>1. PICK S : rows' = Without(rows, S) /\ occ' = Without(occ, S)
        BY <2>5 DEF PruneEventRows
      <3>2. QED
        BY <1>1, <3>1 DEF Without
    <2>6. CASE ExpandSingle
      <3>1. rows' = rows /\ \/ occ' = occ
                            \/ /\ "single" \in touched
                               /\ occ' = [occ EXCEPT ![Single] =
                                            {d \in {batch[Single].date} : InWindow(d, run["pass"].day)}]
        BY <2>6 DEF ExpandSingle
      <3>2. "single" \in touched => batch[Single].date \in Slots
        BY DEF Filed, DatedIn
      <3>3. "single" \in touched => {d \in {batch[Single].date} : InWindow(d, run["pass"].day)} \subseteq Slots
        BY <3>2
      <3>4. QED
        BY <1>1, <3>1, <3>3
    <2>7. ASSUME NEW w \in Workers, NEW r \in Rows, ReplaceOccurrences(w, r) PROVE Good
      <3>1. rows' = rows /\ r \in run[w].left
            /\ occ' = IF r \in DOMAIN rows THEN [occ EXCEPT ![r] = Shows(run[w], r)] ELSE occ
        BY <2>7 DEF ReplaceOccurrences, First
      <3>2. r # Master => r \in DOMAIN run[w].exc /\ r \in Exceptions
        <4>1. run[w].left \subseteq DOMAIN run[w].exc \cup {Master} /\ DOMAIN run[w].exc \subseteq Exceptions
          BY <1>1 DEF TypeOK
        <4>2. QED
          BY <3>1, <4>1
      <3>3. r # Master => run[w].exc[r].date \in Slots
        <4>1. DatedIn(run[w].exc)
          BY DEF Filed
        <4>2. QED
          BY <3>2, <4>1, Names DEF DatedIn
      <3>4. Shows(run[w], r) \subseteq Slots
        BY <3>3 DEF Shows
      <3>5. QED
        BY <1>1, <3>1, <3>4
    <2>8. QED
      BY <1>1, <2>1, <2>2, <2>3, <2>4, <2>5, <2>6, <2>7, StoreSteps
  <1>3. /\ run' \in [Workers -> RunType] /\ now \in Nat /\ now' \in 0..Days /\ now <= now'
        /\ \A w \in Workers : RunOK(run'[w], now')
    <2>1. now' \in 0..Days /\ now \in 0..Days /\ now <= now'
      <3>1. now' = now \/ NextDay
        BY Steps DEF vars, provider, ReplaceCalendars, EventChanges, FetchObjects, UpsertEvent,
             MarkEventDeleted, PruneEventRows, ExpandSingle, SetState, Abort, ListRecurringEvents,
             ListEventExceptions, ReplaceOccurrences, ReexpandAll, ReexpandDies, Unlist, Relist,
             Edit, Exclude, ChangeInstance, DeleteSeries, RestoreSeries, ChangeSingle, Change
      <3>2. Days \in Nat /\ now \in 0..Days
        BY <1>1, CalendarBounds DEF TypeOK
      <3>3. QED
        BY <3>1, <3>2 DEF NextDay
    <2>2. \A w \in Workers : RunOK(run[w], now')
      BY <1>1, <2>1 DEF TypeOK, RunOK, Filed
    <2>3. QED
      <3>1. CASE UNCHANGED run
        BY <1>1, <2>1, <2>2, <3>1
      <3>2. CASE \E w \in Workers : \E x : run' = [run EXCEPT ![w] = x] /\ RunOK(x, now')
        <4>1. PICK w, x : w \in Workers /\ run' = [run EXCEPT ![w] = x] /\ RunOK(x, now')
          BY <3>2
        <4>2. x \in RunType
          BY <4>1 DEF RunOK
        <4>3. run' \in [Workers -> RunType] /\ \A u \in Workers : run'[u] = IF u = w THEN x ELSE run[u]
          BY <1>1, <4>1, <4>2
        <4>4. QED
          BY <2>1, <2>2, <4>1, <4>3
      <3>3. QED
        BY <3>1, <3>2, RunSteps
  <1>4. /\ kind' \in Providers /\ srv' \in Servers /\ clock' \in Nat /\ clock <= clock' /\ clock \in Nat
        /\ stamp' \in [{Master, Single} \cup {Inst(s) : s \in Slots} -> Nat] /\ Items' = Items
    BY <1>1, ServerSteps, Edits DEF TypeOK, Items
  <1>5. /\ token' \in 0..clock' /\ upto' \in 0..clock'
        /\ pc' \in {"idle", "changes", "fetch", "upsert", "remove", "state"}
        /\ ids' \subseteq Items /\ gone' \subseteq {Master, Single}
        /\ touched' \subseteq {"single", "series"} /\ full' \in {"yes", "no"}
    <2>1. token' \in 0..clock'
      BY <1>1, <1>4, ServerSteps DEF TypeOK, SetState
    <2>2. /\ upto \in 0..clock /\ pc \in {"idle", "changes", "fetch", "upsert", "remove", "state"}
          /\ ids \subseteq Items /\ gone \subseteq {Master, Single}
          /\ touched \subseteq {"single", "series"} /\ full \in {"yes", "no"}
      BY <1>1 DEF TypeOK
    <2>3. CASE UNCHANGED <<pc, upto, ids, gone, batch, todo, touched, full>>
      BY <1>4, <2>1, <2>2, <2>3
    <2>4. CASE ReplaceCalendars \/ FetchObjects \/ PruneEventRows \/ ExpandSingle \/ SetState \/ Abort
      BY <1>4, <2>1, <2>2, <2>4 DEF ReplaceCalendars, FetchObjects, PruneEventRows, ExpandSingle,
                                    SetState, Abort
    <2>5. CASE \E f \in {"yes", "no"} : EventChanges(f)
      BY <1>4, <2>1, <2>2, <2>5 DEF EventChanges
    <2>6. CASE (\E r \in Rows : UpsertEvent(r)) \/ (\E r \in Rows : MarkEventDeleted(r))
      BY <1>4, <2>1, <2>2, <2>6 DEF UpsertEvent, MarkEventDeleted
    <2>7. QED
      BY <2>3, <2>4, <2>5, <2>6, PassSteps
  <1>6. /\ DOMAIN batch' \subseteq Rows /\ (\A r \in DOMAIN batch' : batch'[r] \in Stored)
        /\ todo' \subseteq DOMAIN batch'
    <2>1. CASE UNCHANGED <<pc, upto, ids, gone, batch, todo, touched, full>>
      BY <1>1, <2>1
    <2>2. CASE \/ ReplaceCalendars \/ PruneEventRows \/ ExpandSingle
               \/ (\E f \in {"yes", "no"} : EventChanges(f))
               \/ (\E r \in Rows : UpsertEvent(r)) \/ (\E r \in Rows : MarkEventDeleted(r))
      BY <1>1, <2>2 DEF ReplaceCalendars, PruneEventRows, ExpandSingle, EventChanges, UpsertEvent,
                        MarkEventDeleted
    <2>3. CASE FetchObjects
      <3> DEFINE found == UNION {RowsOf(i) : i \in ids}
      <3>1. batch' = [r \in found |-> Event(r)] /\ todo' = found
        BY <2>3 DEF FetchObjects
      <3>2. found \subseteq Rows
        BY DEF RowsOf
      <3> HIDE DEF found
      <3>3. QED
        BY <1>1, <3>1, <3>2, Events
    <2>4. CASE SetState \/ Abort
      <3>1. DOMAIN batch' = {} /\ (todo' = todo \/ todo' = {}) /\ (SetState => pc = "state" /\ todo' = todo)
        BY <2>4, Exceptional DEF SetState, Abort
      <3>2. todo' = {}
        BY <2>4, <3>1 DEF Phased, Abort
      <3>3. QED
        BY <3>1, <3>2
    <2>5. QED
      BY <2>1, <2>2, <2>3, <2>4, PassSteps
  <1>7. /\ wanted' \in {"yes", "no"} /\ calm' \in {"yes", "no"} /\ whole' \in {"yes", "no"}
        /\ relisted' \in {"yes", "no"} /\ aborts' \in 0..MaxAborts /\ drops' \in 0..MaxDrops
    <2>1. /\ wanted \in {"yes", "no"} /\ calm \in {"yes", "no"} /\ whole \in {"yes", "no"}
          /\ relisted \in {"yes", "no"} /\ aborts \in 0..MaxAborts /\ drops \in 0..MaxDrops
          /\ MaxAborts \in Nat /\ MaxDrops \in Nat
      BY <1>1, CalendarBounds DEF TypeOK
    <2>2. CASE Edit
      BY <1>1, <2>1, <2>2, ServerSteps
    <2>3. CASE \/ UNCHANGED vars \/ ReplaceCalendars \/ (\E f \in {"yes", "no"} : EventChanges(f))
               \/ FetchObjects \/ SetState \/ Abort \/ ReexpandAll \/ ReexpandDies
      BY <2>1, <2>3 DEF vars, provider, history, ReplaceCalendars, EventChanges, FetchObjects,
                        SetState, Abort, ReexpandAll, ReexpandDies
    <2>4. CASE \/ (\E r \in Rows : UpsertEvent(r)) \/ (\E r \in Rows : MarkEventDeleted(r))
               \/ PruneEventRows \/ ExpandSingle
      <3>1. UNCHANGED <<wanted, calm, whole, relisted, aborts, drops>>
        BY <2>4 DEF provider, history, UpsertEvent, MarkEventDeleted, PruneEventRows, ExpandSingle
      <3>2. QED
        BY <2>1, <3>1
    <2>5. CASE Unlist \/ Relist \/ NextDay
      BY <2>1, <2>5 DEF history, provider, Unlist, Relist, NextDay
    <2>6. CASE \/ (\E w \in Workers : ListRecurringEvents(w))
               \/ (\E w \in Workers : ListEventExceptions(w))
               \/ (\E w \in Workers, r \in Rows : ReplaceOccurrences(w, r))
      <3>1. UNCHANGED <<wanted, calm, whole, relisted, aborts, drops>>
        BY <2>6 DEF provider, history, ListRecurringEvents, ListEventExceptions, ReplaceOccurrences
      <3>2. QED
        BY <2>1, <3>1
    <2>7. QED
      BY <2>2, <2>3, <2>4, <2>5, <2>6, Steps
  <1>8. \A w \in Workers :
         /\ run'[w].at \in {"idle", "masters", "exceptions", "write"}
         /\ run'[w].day \in 0..now' /\ run'[w].found \in {"yes", "no"}
         /\ DOMAIN run'[w].exc \subseteq Exceptions
         /\ \A r \in DOMAIN run'[w].exc : run'[w].exc[r] \in Stored
         /\ run'[w].left \subseteq DOMAIN run'[w].exc \cup {Master}
    <2> TAKE w \in Workers
    <2>1. run'[w] \in RunType /\ RunOK(run'[w], now')
      BY <1>3
    <2>2. run'[w].exc \in Excs
      BY <2>1 DEF RunType
    <2>3. QED
      BY <2>1, <2>2, Exceptional DEF RunOK, RunType
  <1>9. TypeOK'
    BY <1>2, <1>3, <1>4, <1>5, <1>6, <1>7, <1>8 DEF TypeOK
  <1>10. QED
    BY <1>3, <1>9 DEF Typed

-----------------------------------------------------------------------------
(* The books of the provider and of the pass.                              *)

\* Every step keeps Stamped.
LEMMA StampedKept ==
    ASSUME Typed, Stamped, [Next]_vars
    PROVE  Stamped'
  <1>1. TypeOK /\ Items' = Items /\ kind' = kind
    BY ServerSteps DEF Typed, Items
  <1>2. CASE Edit
    <2>1. /\ Possible(kind', srv') /\ clock' > 0 /\ clock \in Nat /\ clock' = clock + 1
          /\ \A i \in Items : /\ stamp'[i] = stamp[i] \/ stamp'[i] = clock + 1
                              /\ stamp'[i] = stamp[i] => (OnServer(i)' <=> OnServer(i))
                              /\ stamp[i] \in Nat /\ stamp[i] <= clock /\ (OnServer(i) => stamp[i] > 0)
      BY <1>1, <1>2, Edits DEF TypeOK, Stamped, Steady, Items
    <2>2. \A i \in Items : stamp'[i] <= clock' /\ (OnServer(i)' => stamp'[i] > 0)
      BY <2>1
    <2>3. kind = "google" => \A s \in Slots : stamp'[Inst(s)] > 0 => OnServer(Inst(s))'
      <3> SUFFICES ASSUME kind = "google", NEW s \in Slots, stamp'[Inst(s)] > 0
                   PROVE  OnServer(Inst(s))'
        OBVIOUS
      <3>1. OnServer(Inst(s)) \/ stamp'[Inst(s)] # stamp[Inst(s)] => OnServer(Inst(s))'
        BY <1>1, <1>2, Edits
      <3>2. stamp[Inst(s)] > 0 => OnServer(Inst(s))
        BY DEF Stamped
      <3>3. QED
        BY <3>1, <3>2
    <2>4. QED
      BY <1>1, <2>1, <2>2, <2>3 DEF Stamped
  <1>3. CASE UNCHANGED <<srv, stamp, clock>>
    <2>1. \A r \in Rows : OnServer(r)' <=> OnServer(r)
      BY <1>1, <1>3, Served
    <2>2. \A i \in Items : OnServer(i)' <=> OnServer(i)
      BY <2>1, Objects
    <2>3. \A s \in Slots : OnServer(Inst(s))' <=> OnServer(Inst(s))
      BY <2>1, Names
    <2>4. QED
      BY <1>1, <1>3, <2>2, <2>3 DEF Stamped
  <1>4. QED
    BY <1>1, <1>2, <1>3, ServerSteps

\* What is not stamped anew is as it was.
LEMMA Unmoved ==
    ASSUME Typed, Stamped, [Next]_vars
    PROVE  /\ Items' = Items /\ kind' = kind /\ clock \in Nat
           /\ \A r \in Rows : Carrier(r)' = Carrier(r)
           /\ \A i \in Items : /\ stamp[i] \in Nat /\ stamp[i] <= clock
                               /\ stamp'[i] = stamp[i] => Steady(i)
                               /\ stamp'[i] # stamp[i] => Edit /\ stamp'[i] = clock + 1
  <1>1. TypeOK /\ Items' = Items /\ kind' = kind
    BY ServerSteps DEF Typed, Items
  <1>2. \A r \in Rows : Carrier(r)' = Carrier(r)
    BY <1>1 DEF Carrier
  <1>3. \A i \in Items : stamp[i] \in Nat /\ stamp[i] <= clock
    BY <1>1 DEF TypeOK, Stamped, Items
  <1>4. CASE Edit
    BY <1>1, <1>2, <1>3, <1>4, Edits DEF TypeOK
  <1>5. CASE UNCHANGED <<srv, stamp, clock>>
    <2>1. \A r \in Rows : (OnServer(r)' <=> OnServer(r)) /\ Event(r)' = Event(r)
      BY <1>1, <1>2, <1>5, Served DEF Event
    <2>2. \A i \in Items : Steady(i)
      BY <1>2, <2>1, Objects DEF Steady, RowsOf
    <2>3. QED
      BY <1>1, <1>2, <1>3, <1>5, <2>2 DEF TypeOK
  <1>6. QED
    BY <1>1, <1>4, <1>5, ServerSteps

\* Who moves which run.
LEMMA Movers ==
    ASSUME Typed, [Next]_vars
    PROVE  /\ \/ run'["pass"] = run["pass"]
              \/ FetchObjects /\ run'["pass"].at = "idle"
              \/ ExpandSingle
              \/ (SetState \/ Abort) /\ run'["pass"] = Idle
              \/ ListRecurringEvents("pass") \/ ListEventExceptions("pass")
              \/ \E r \in Rows : ReplaceOccurrences("pass", r)
           /\ \/ run'["daily"] = run["daily"]
              \/ ReplaceCalendars /\ run'["daily"] = Idle
              \/ ReexpandDies /\ run'["daily"] = Idle
              \/ ReexpandAll /\ run'["daily"].at = "masters"
              \/ ListRecurringEvents("daily") \/ ListEventExceptions("daily")
              \/ \E r \in Rows : ReplaceOccurrences("daily", r)
  <1>1. run \in [Workers -> RunType] /\ Workers = {"pass", "daily"} /\ "pass" # "daily"
    BY DEF Typed, Workers
  <1>2. CASE \/ UNCHANGED vars \/ (\E f \in {"yes", "no"} : EventChanges(f))
             \/ (\E r \in Rows : UpsertEvent(r)) \/ (\E r \in Rows : MarkEventDeleted(r))
             \/ PruneEventRows \/ Unlist \/ Relist \/ NextDay
    <2>1. run' = run
      BY <1>2 DEF vars, EventChanges, UpsertEvent, MarkEventDeleted, PruneEventRows, Unlist, Relist,
                  NextDay
    <2>2. QED
      BY <2>1
  <1>3. CASE Edit
    <2>1. run' = run
      BY <1>3 DEF Edit, Exclude, ChangeInstance, DeleteSeries, RestoreSeries, ChangeSingle, Change
    <2>2. QED
      BY <2>1
  <1>4. CASE ReplaceCalendars
    <2>1. run' = run \/ run' = [run EXCEPT !["daily"] = Idle]
      BY <1>4 DEF ReplaceCalendars
    <2>2. QED
      BY <1>1, <1>4, <2>1
  <1>5. CASE FetchObjects
    <2>1. run' = [run EXCEPT !["pass"] = [Idle EXCEPT !.day = now]]
      BY <1>5 DEF FetchObjects
    <2>2. [Idle EXCEPT !.day = now].at = "idle"
      BY Started
    <2>3. QED
      BY <1>1, <1>5, <2>1, <2>2
  <1>6. CASE ExpandSingle
    <2>1. run' = run \/ run' = [run EXCEPT !["pass"].at = "masters"]
      BY <1>6 DEF ExpandSingle
    <2>2. QED
      BY <1>1, <1>6, <2>1
  <1>7. CASE SetState \/ Abort
    <2>1. run' = [run EXCEPT !["pass"] = Idle]
      BY <1>7 DEF SetState, Abort
    <2>2. QED
      BY <1>1, <1>7, <2>1
  <1>8. ASSUME NEW w \in Workers, \/ ListRecurringEvents(w) \/ ListEventExceptions(w)
                                  \/ \E r \in Rows : ReplaceOccurrences(w, r)
        PROVE  \A u \in Workers : u # w => run'[u] = run[u]
    <2>1. \E x : run' = [run EXCEPT ![w] = x]
      <3>1. CASE ListRecurringEvents(w)
        BY <3>1, MastersListed
      <3>2. CASE ListEventExceptions(w)
        BY <3>2, ExceptionsListed
      <3>3. CASE \E r \in Rows : ReplaceOccurrences(w, r)
        BY <3>3, RowWritten
      <3>4. QED
        BY <1>8, <3>1, <3>2, <3>3
    <2>2. QED
      BY <1>1, <2>1
  <1>9. CASE ReexpandAll
    <2>1. run' = [run EXCEPT !["daily"] = [Idle EXCEPT !.at = "masters", !.day = now]]
      BY <1>9 DEF ReexpandAll
    <2>2. [Idle EXCEPT !.at = "masters", !.day = now].at = "masters"
      BY Started
    <2>3. QED
      BY <1>1, <1>9, <2>1, <2>2
  <1>10. CASE ReexpandDies
    <2>1. run' = [run EXCEPT !["daily"] = Idle]
      BY <1>10 DEF ReexpandDies
    <2>2. QED
      BY <1>1, <1>10, <2>1
  <1>11. QED
    BY <1>1, <1>2, <1>3, <1>4, <1>5, <1>6, <1>7, <1>8, <1>9, <1>10, Steps

\* Every step keeps Phased.
LEMMA PhasedKept ==
    ASSUME Typed, Phased, [Next]_vars
    PROVE  Phased'
  <1>1. TypeOK /\ Workers = {"pass", "daily"} /\ run \in [Workers -> RunType]
        /\ DOMAIN Empty = {} /\ Idle.at = "idle"
    BY Exceptional DEF Typed, Workers
  <1>2. \A w \in Workers :
           /\ ListRecurringEvents(w) => run[w].at = "masters" /\ pc' = pc
           /\ ListEventExceptions(w) => run[w].at = "exceptions" /\ pc' = pc
           /\ \A r \in Rows : ReplaceOccurrences(w, r) => run[w].at = "write" /\ pc' = pc
    BY DEF ListRecurringEvents, ListEventExceptions, ReplaceOccurrences, pass
  <1>3. pc' # "state" => run'["pass"].at = "idle"
    <2>1. CASE run'["pass"] = run["pass"]
      <3>1. pc = "state" => pc' = "state" \/ SetState \/ Abort
        <4>1. CASE UNCHANGED <<pc, upto, ids, gone, batch, todo, touched, full>>
          BY <4>1
        <4>2. CASE \/ ReplaceCalendars \/ FetchObjects \/ PruneEventRows \/ ExpandSingle
                   \/ (\E f \in {"yes", "no"} : EventChanges(f))
                   \/ (\E r \in Rows : UpsertEvent(r)) \/ (\E r \in Rows : MarkEventDeleted(r))
          BY <4>2 DEF ReplaceCalendars, FetchObjects, PruneEventRows, ExpandSingle, EventChanges,
                      UpsertEvent, MarkEventDeleted
        <4>3. QED
          BY <4>1, <4>2, PassSteps
      <3>2. SetState \/ Abort => run'["pass"].at = "idle"
        BY <1>1 DEF SetState, Abort
      <3>3. QED
        BY <2>1, <3>1, <3>2 DEF Phased
    <2>2. ExpandSingle => pc' = "state"
      BY DEF ExpandSingle
    <2>3. ListRecurringEvents("pass") \/ ListEventExceptions("pass")
            \/ (\E r \in Rows : ReplaceOccurrences("pass", r)) => pc' = "state"
      BY <1>1, <1>2 DEF Phased
    <2>4. QED
      BY <1>1, <2>1, <2>2, <2>3, Movers
  <1>4. /\ pc' # "fetch" => ids' = {}
        /\ pc' \notin {"fetch", "upsert", "remove"} => gone' = {}
        /\ pc' # "upsert" => todo' = {}
        /\ pc' \in {"idle", "changes", "fetch"} => batch' = Empty /\ touched' = {}
        /\ pc' \in {"idle", "changes"} => upto' = 0 /\ full' = "no"
        /\ ids' \cap gone' = {} /\ gone' \cap DOMAIN batch' = {}
    <2>1. CASE UNCHANGED <<pc, upto, ids, gone, batch, todo, touched, full>>
      BY <2>1 DEF Phased
    <2>2. CASE ReplaceCalendars \/ SetState \/ Abort
      BY <1>1, <2>2 DEF Phased, ReplaceCalendars, SetState, Abort
    <2>3. CASE \E f \in {"yes", "no"} : EventChanges(f)
      <3>1. \A i \in ids' : OnServer(i)
        BY <2>3 DEF EventChanges
      <3>2. \A i \in gone' : ~OnServer(i)
        BY <2>3 DEF EventChanges
      <3>3. QED
        BY <1>1, <2>3, <3>1, <3>2 DEF Phased, EventChanges
    <2>4. CASE FetchObjects
      <3>1. /\ DOMAIN batch' = UNION {RowsOf(i) : i \in ids} /\ UNCHANGED gone /\ ids' = {}
            /\ pc' = "upsert" /\ pc = "fetch"
        BY <2>4 DEF FetchObjects
      <3>2. \A r \in DOMAIN batch' : Carrier(r) \in ids /\ r \in Rows
        BY <3>1 DEF RowsOf
      <3>3. gone \subseteq Items /\ \A r \in gone : Carrier(r) = r
        BY <1>1, Objects DEF TypeOK
      <3>4. gone \cap DOMAIN batch' = {}
        BY <3>2, <3>3 DEF Phased
      <3>5. QED
        BY <3>1, <3>4 DEF Phased
    <2>5. CASE PruneEventRows \/ ExpandSingle
      BY <2>5 DEF Phased, PruneEventRows, ExpandSingle
    <2>6. CASE (\E r \in Rows : UpsertEvent(r)) \/ (\E r \in Rows : MarkEventDeleted(r))
      BY <2>6 DEF Phased, UpsertEvent, MarkEventDeleted
    <2>7. QED
      BY <2>1, <2>2, <2>3, <2>4, <2>5, <2>6, PassSteps
  <1>5. pc' \in Reading => token' <= upto'
    <2>1. CASE UNCHANGED <<pc, upto, ids, gone, batch, todo, touched, full>>
      <3>1. SetState => pc' = "idle"
        BY DEF SetState
      <3>2. token' = token \/ SetState
        BY Steps DEF vars, provider, database, ReplaceCalendars, EventChanges, FetchObjects,
             UpsertEvent, MarkEventDeleted, PruneEventRows, ExpandSingle, Abort,
             ListRecurringEvents, ListEventExceptions, ReplaceOccurrences, ReexpandAll,
             ReexpandDies, Unlist, Relist, NextDay, Edit, Exclude, ChangeInstance, DeleteSeries,
             RestoreSeries, ChangeSingle, Change
      <3>3. QED
        BY <2>1, <3>1, <3>2 DEF Phased, Reading
    <2>2. CASE \E f \in {"yes", "no"} : EventChanges(f)
      BY <1>1, <2>2 DEF EventChanges, TypeOK, database
    <2>3. CASE ReplaceCalendars \/ SetState \/ Abort
      BY <2>3 DEF ReplaceCalendars, SetState, Abort, Reading
    <2>4. CASE FetchObjects \/ PruneEventRows \/ ExpandSingle
      BY <2>4 DEF FetchObjects, PruneEventRows, ExpandSingle, Phased, Reading, database
    <2>5. CASE (\E r \in Rows : UpsertEvent(r)) \/ (\E r \in Rows : MarkEventDeleted(r))
      BY <2>5 DEF UpsertEvent, MarkEventDeleted, Phased, Reading
    <2>6. QED
      BY <2>1, <2>2, <2>3, <2>4, <2>5, PassSteps
  <1>6. QED
    BY <1>3, <1>4, <1>5 DEF Phased

\* Every step keeps Filed.
LEMMA FiledKept ==
    ASSUME Typed, Stamped, Phased, Filed, [Next]_vars
    PROVE  Filed'
  <1>1. /\ TypeOK /\ Workers = {"pass", "daily"} /\ run \in [Workers -> RunType]
        /\ DOMAIN rows \subseteq Rows /\ DOMAIN batch \subseteq Rows /\ todo \subseteq DOMAIN batch
        /\ DOMAIN Empty = {}
    BY Exceptional DEF Typed, TypeOK, Workers
  <1>2. \A w \in Workers : DatedIn(run'[w].exc)
    <2>1. CASE UNCHANGED run
      BY <2>1 DEF Filed
    <2>2. CASE \E w \in Workers : \E x : run' = [run EXCEPT ![w] = x] /\ RunOK(x, now')
      <3>1. PICK w, x : w \in Workers /\ run' = [run EXCEPT ![w] = x] /\ RunOK(x, now')
        BY <2>2
      <3>2. \A u \in Workers : run'[u] = IF u = w THEN x ELSE run[u]
        BY <1>1, <3>1
      <3>3. QED
        BY <3>1, <3>2 DEF Filed, RunOK
    <2>3. QED
      BY <2>1, <2>2, RunSteps
  <1>3. DatedIn(batch') /\ \A r \in DOMAIN batch' : batch'[r].state = "live"
    <2>1. CASE UNCHANGED batch
      BY <2>1 DEF Filed
    <2>2. CASE batch' = Empty
      BY <1>1, <2>2 DEF DatedIn
    <2>3. CASE FetchObjects
      <3>1. DOMAIN batch' = UNION {RowsOf(i) : i \in ids} /\ \A r \in DOMAIN batch' : batch'[r] = Event(r)
        BY <2>3 DEF FetchObjects
      <3>2. \A r \in DOMAIN batch' : r \in Rows /\ OnServer(r)
        BY <3>1 DEF RowsOf
      <3>3. QED
        BY <1>1, <3>1, <3>2, Events, Names DEF DatedIn
    <2>4. batch' = batch \/ batch' = Empty \/ FetchObjects
      <3>1. CASE ReplaceCalendars \/ PruneEventRows \/ ExpandSingle \/ SetState \/ Abort
        BY <3>1 DEF ReplaceCalendars, PruneEventRows, ExpandSingle, SetState, Abort
      <3>2. CASE \/ (\E f \in {"yes", "no"} : EventChanges(f))
                 \/ (\E r \in Rows : UpsertEvent(r)) \/ (\E r \in Rows : MarkEventDeleted(r))
        BY <3>2 DEF EventChanges, UpsertEvent, MarkEventDeleted
      <3>3. QED
        BY <3>1, <3>2, PassSteps
    <2>5. QED
      BY <2>1, <2>2, <2>3, <2>4
  <1>4. DatedIn(rows') /\ \A r \in DOMAIN rows' : r \in Exceptions => rows'[r].state = "live"
    <2>1. CASE UNCHANGED rows
      BY <2>1 DEF Filed
    <2>2. CASE rows' = Empty
      BY <1>1, <2>2 DEF DatedIn
    <2>3. ASSUME NEW r \in Rows, UpsertEvent(r)
          PROVE  DatedIn(rows') /\ \A q \in DOMAIN rows' : q \in Exceptions => rows'[q].state = "live"
      <3>1. /\ DOMAIN rows' = DOMAIN rows \cup {r} /\ r \in DOMAIN batch
            /\ \A q \in DOMAIN rows' : rows'[q] = IF q = r THEN batch[r] ELSE rows[q]
        BY <1>1, <2>3 DEF UpsertEvent, First, Put
      <3>2. QED
        BY <3>1 DEF Filed, DatedIn
    <2>4. ASSUME NEW r \in Rows, MarkEventDeleted(r), r \in DOMAIN rows
          PROVE  DatedIn(rows') /\ \A q \in DOMAIN rows' : q \in Exceptions => rows'[q].state = "live"
      <3>1. r \in gone /\ r \notin Exceptions
        BY <1>1, <2>4, Names DEF MarkEventDeleted, First, TypeOK
      <3>2. rows' = [rows EXCEPT ![r].state = "deleted"]
        BY <2>4 DEF MarkEventDeleted
      <3>3. /\ DOMAIN rows' = DOMAIN rows
            /\ \A q \in DOMAIN rows : q # r => rows'[q] = rows[q]
            /\ rows'[r] = [rows[r] EXCEPT !.state = "deleted"]
        BY <1>1, <2>4, <3>2
      <3>4. rows'[r].date = rows[r].date
        BY <1>1, <2>4, <3>3 DEF TypeOK, Stored
      <3>5. QED
        BY <3>1, <3>3, <3>4 DEF Filed, DatedIn
    <2>5. CASE PruneEventRows
      BY <2>5 DEF PruneEventRows, Without, Filed, DatedIn
    <2>6. ExpandSingle \/ (\E w \in Workers, r \in Rows : ReplaceOccurrences(w, r)) => UNCHANGED rows
      BY DEF ExpandSingle, ReplaceOccurrences
    <2>7. \A r \in Rows : MarkEventDeleted(r) /\ r \notin DOMAIN rows => UNCHANGED rows
      BY DEF MarkEventDeleted
    <2>8. QED
      BY <1>1, <2>1, <2>2, <2>3, <2>4, <2>5, <2>6, <2>7, StoreSteps
  <1>5. pc' \in {"upsert", "remove", "state"} => DOMAIN batch' \subseteq todo' \cup DOMAIN rows'
    <2>1. CASE FetchObjects
      BY <2>1 DEF FetchObjects
    <2>2. ASSUME NEW r \in Rows, UpsertEvent(r) PROVE DOMAIN batch' \subseteq todo' \cup DOMAIN rows'
      BY <2>2 DEF UpsertEvent, First, Put, Filed
    <2>3. ASSUME NEW r \in Rows, MarkEventDeleted(r) PROVE DOMAIN batch' \subseteq todo' \cup DOMAIN rows'
      <3>1. UNCHANGED <<batch, todo>> /\ DOMAIN rows' = DOMAIN rows /\ pc = "remove"
        BY <1>1, <2>3 DEF MarkEventDeleted
      <3>2. QED
        BY <3>1 DEF Filed
    <2>4. CASE PruneEventRows
      <3>1. UNCHANGED <<batch, todo>> /\ DOMAIN batch \cap DOMAIN rows \subseteq DOMAIN rows' /\ pc = "upsert"
        BY <2>4 DEF PruneEventRows, Without
      <3>2. QED
        BY <3>1 DEF Filed
    <2>5. CASE ExpandSingle
      BY <2>5 DEF ExpandSingle, Filed
    <2>6. CASE ReplaceCalendars \/ SetState \/ Abort \/ (\E f \in {"yes", "no"} : EventChanges(f))
      BY <2>6 DEF ReplaceCalendars, SetState, Abort, EventChanges
    <2>7. CASE UNCHANGED <<pc, upto, ids, gone, batch, todo, touched, full>>
      <3>0. ExpandSingle \/ (\E w \in Workers, r \in Rows : ReplaceOccurrences(w, r)) => UNCHANGED rows
        BY DEF ExpandSingle, ReplaceOccurrences
      <3>1. UNCHANGED rows \/ ReplaceCalendars \/ PruneEventRows
              \/ (\E r \in Rows : UpsertEvent(r)) \/ (\E r \in Rows : MarkEventDeleted(r))
        BY <3>0, StoreSteps, <1>1
      <3>2. CASE UNCHANGED rows
        BY <2>7, <3>2 DEF Filed
      <3>3. QED
        BY <2>2, <2>3, <2>4, <2>6, <3>1, <3>2
    <2>8. QED
      BY <2>1, <2>2, <2>3, <2>4, <2>5, <2>6, <2>7, PassSteps
  <1>6. "single" \in touched' =>
         Single \in DOMAIN batch' /\ Single \in DOMAIN rows' /\ rows'[Single] = batch'[Single]
    <2>1. ASSUME NEW r \in Rows, UpsertEvent(r), "single" \in touched'
          PROVE  Single \in DOMAIN batch' /\ Single \in DOMAIN rows' /\ rows'[Single] = batch'[Single]
      <3>1. /\ DOMAIN rows' = DOMAIN rows \cup {r} /\ r \in DOMAIN batch /\ batch' = batch
            /\ \A q \in DOMAIN rows' : rows'[q] = IF q = r THEN batch[r] ELSE rows[q]
            /\ r = Single \/ "single" \in touched
        BY <1>1, <2>1 DEF UpsertEvent, First, Put
      <3>2. QED
        BY <3>1 DEF Filed
    <2>2. ASSUME NEW r \in Rows, MarkEventDeleted(r), "single" \in touched'
          PROVE  Single \in DOMAIN batch' /\ Single \in DOMAIN rows' /\ rows'[Single] = batch'[Single]
      <3>1. "single" \in touched /\ r \in gone /\ batch' = batch
        BY <2>2 DEF MarkEventDeleted, First
      <3>2. r # Single
        BY <3>1 DEF Filed, Phased
      <3>3. Single \in DOMAIN rows => Single \in DOMAIN rows' /\ rows'[Single] = rows[Single]
        BY <1>1, <2>2, <3>2 DEF MarkEventDeleted
      <3>4. QED
        BY <3>1, <3>3 DEF Filed
    <2>3. CASE PruneEventRows
      <3>1. PICK S : S \subseteq Derived /\ rows' = Without(rows, S)
        BY <2>3 DEF PruneEventRows
      <3>2. ("single" \in touched' => "single" \in touched) /\ batch' = batch
        BY <2>3 DEF PruneEventRows
      <3>3. QED
        BY <3>1, <3>2, Names DEF Without, Filed
    <2>4. CASE ExpandSingle \/ FetchObjects
      BY <2>4 DEF ExpandSingle, FetchObjects, Filed, database, Phased
    <2>5. CASE SetState \/ Abort \/ ReplaceCalendars \/ (\E f \in {"yes", "no"} : EventChanges(f))
      BY <2>5 DEF SetState, Abort, ReplaceCalendars, EventChanges, Phased
    <2>6. CASE UNCHANGED <<pc, upto, ids, gone, batch, todo, touched, full>>
      <3>0. ExpandSingle \/ (\E w \in Workers, r \in Rows : ReplaceOccurrences(w, r)) => UNCHANGED rows
        BY DEF ExpandSingle, ReplaceOccurrences
      <3>1. UNCHANGED rows \/ ReplaceCalendars \/ PruneEventRows
              \/ (\E r \in Rows : UpsertEvent(r)) \/ (\E r \in Rows : MarkEventDeleted(r))
        BY <3>0, StoreSteps, <1>1
      <3>2. CASE UNCHANGED rows
        BY <2>6, <3>2 DEF Filed
      <3>3. QED
        BY <2>1, <2>2, <2>3, <2>5, <3>1, <3>2
    <2>7. QED
      BY <2>1, <2>2, <2>3, <2>4, <2>5, <2>6, PassSteps
  <1>7. QED
    BY <1>2, <1>3, <1>4, <1>5, <1>6 DEF Filed

\* Every step keeps what is known of a listing.
LEMMA ListedTrueKept ==
    ASSUME Typed, Stamped, Phased, ListedTrue, [Next]_vars
    PROVE  ListedTrue'
  <1>1. /\ TypeOK /\ ids \subseteq Items /\ gone \subseteq Items /\ DOMAIN batch \subseteq Rows
        /\ upto \in Nat /\ clock \in Nat /\ upto <= clock /\ DOMAIN Empty = {}
    BY Exceptional, Objects DEF Typed, TypeOK
  <1>2. /\ Items' = Items /\ \A r \in Rows : Carrier(r)' = Carrier(r) /\ Carrier(r) \in Items
        /\ \A i \in Items : /\ stamp[i] \in Nat /\ stamp[i] <= clock
                            /\ stamp'[i] = stamp[i] => Steady(i)
                            /\ stamp'[i] # stamp[i] => Edit /\ stamp'[i] = clock + 1
    BY Unmoved, Objects
  <1>3. CASE /\ ids' \subseteq ids /\ gone' \subseteq gone
             /\ batch' = batch \/ batch' = Empty
             /\ upto' = upto \/ (ids' = {} /\ gone' = {} /\ batch' = Empty)
    <2>1. ASSUME upto' = upto, NEW i \in Items, stamp'[i] <= upto'
          PROVE  stamp[i] <= upto /\ Steady(i)
      <3>1. stamp'[i] = stamp[i]
        BY <1>1, <1>2, <2>1
      <3>2. QED
        BY <1>2, <2>1, <3>1
    <2>2. \A i \in ids' : stamp'[i] <= upto' => OnServer(i)'
      <3> SUFFICES ASSUME NEW i \in ids', stamp'[i] <= upto' PROVE OnServer(i)'
        OBVIOUS
      <3>1. i \in ids /\ i \in Items /\ upto' = upto
        BY <1>1, <1>3
      <3>2. QED
        BY <2>1, <3>1 DEF Steady, ListedTrue
    <2>3. \A i \in gone' : stamp'[i] <= upto' => ~OnServer(i)'
      <3> SUFFICES ASSUME NEW i \in gone', stamp'[i] <= upto' PROVE ~OnServer(i)'
        OBVIOUS
      <3>1. i \in gone /\ i \in Items /\ upto' = upto
        BY <1>1, <1>3
      <3>2. QED
        BY <2>1, <3>1 DEF Steady, ListedTrue
    <2>4. \A r \in DOMAIN batch' : stamp'[Carrier(r)'] <= upto' =>
           /\ OnServer(r)' /\ batch'[r] = Event(r)' /\ RowsOf(Carrier(r))' \subseteq DOMAIN batch'
      <3> SUFFICES ASSUME NEW r \in DOMAIN batch', stamp'[Carrier(r)'] <= upto'
                   PROVE  /\ OnServer(r)' /\ batch'[r] = Event(r)'
                          /\ RowsOf(Carrier(r))' \subseteq DOMAIN batch'
        OBVIOUS
      <3>1. r \in DOMAIN batch /\ r \in Rows /\ batch' = batch /\ upto' = upto /\ Carrier(r)' = Carrier(r)
        BY <1>1, <1>2, <1>3
      <3>2. PICK i \in Items : i = Carrier(r)
        BY <1>2, <3>1
      <3>3. stamp[i] <= upto /\ Steady(i)
        BY <2>1, <3>1, <3>2
      <3>4. OnServer(r) /\ batch[r] = Event(r) /\ RowsOf(i) \subseteq DOMAIN batch /\ r \in RowsOf(i)
        BY <3>1, <3>2, <3>3 DEF ListedTrue, RowsOf
      <3>5. r \in RowsOf(i)' /\ Event(r)' = Event(r)
        BY <3>3, <3>4 DEF Steady
      <3>6. RowsOf(Carrier(r))' = RowsOf(i)
        BY <3>1, <3>2, <3>3 DEF Steady, RowsOf
      <3>7. QED
        BY <3>1, <3>4, <3>5, <3>6 DEF RowsOf
    <2>5. QED
      BY <2>2, <2>3, <2>4 DEF ListedTrue
  <1>4. CASE \E f \in {"yes", "no"} : EventChanges(f)
    <2>1. /\ ids' \subseteq Items /\ gone' \subseteq Items /\ DOMAIN batch' = {} /\ stamp' = stamp
          /\ (\A i \in ids' : OnServer(i)) /\ (\A i \in gone' : ~OnServer(i))
      BY <1>1, <1>4, Objects DEF EventChanges, provider, Phased
    <2>2. \A i \in Items : OnServer(i)' <=> OnServer(i)
      BY <1>2, <2>1 DEF Steady
    <2>3. /\ \A i \in ids' : OnServer(i)
          /\ \A i \in gone' : ~OnServer(i)
      BY <1>4 DEF EventChanges
    <2>4. QED
      BY <2>1, <2>2, <2>3 DEF ListedTrue
  <1>5. CASE FetchObjects
    <2>1. /\ ids' = {} /\ gone' = gone /\ stamp' = stamp /\ upto' = upto
          /\ DOMAIN batch' = UNION {RowsOf(i) : i \in ids}
          /\ \A r \in DOMAIN batch' : batch'[r] = Event(r)
      BY <1>5 DEF FetchObjects, provider
    <2>2. \A i \in Items : Steady(i)
      BY <1>2, <2>1
    <2>3. \A i \in gone' : stamp'[i] <= upto' => ~OnServer(i)'
      BY <1>1, <2>1, <2>2 DEF Steady, ListedTrue
    <2>4. ASSUME NEW r \in DOMAIN batch'
          PROVE  OnServer(r)' /\ batch'[r] = Event(r)' /\ RowsOf(Carrier(r))' \subseteq DOMAIN batch'
      <3>1. PICK i \in ids : r \in RowsOf(i)
        BY <2>1
      <3>2. i \in Items /\ Carrier(r) = i /\ Carrier(r)' = i /\ r \in Rows
        BY <1>1, <1>2, <3>1 DEF RowsOf
      <3>3. r \in RowsOf(i)' /\ Event(r)' = Event(r) /\ RowsOf(i)' = RowsOf(i)
        BY <2>2, <3>1, <3>2 DEF Steady
      <3>4. RowsOf(Carrier(r))' = RowsOf(i)'
        BY <3>2 DEF RowsOf
      <3>5. QED
        BY <2>1, <3>1, <3>3, <3>4 DEF RowsOf
    <2>5. QED
      BY <2>1, <2>3, <2>4 DEF ListedTrue
  <1>6. \/ \E f \in {"yes", "no"} : EventChanges(f)
        \/ FetchObjects
        \/ /\ ids' \subseteq ids /\ gone' \subseteq gone
           /\ batch' = batch \/ batch' = Empty
           /\ upto' = upto \/ (ids' = {} /\ gone' = {} /\ batch' = Empty)
    <2>1. CASE UNCHANGED <<pc, upto, ids, gone, batch, todo, touched, full>>
      BY <2>1
    <2>2. CASE ReplaceCalendars \/ PruneEventRows \/ ExpandSingle \/ SetState \/ Abort
      BY <2>2 DEF ReplaceCalendars, PruneEventRows, ExpandSingle, SetState, Abort, Phased
    <2>3. CASE (\E r \in Rows : UpsertEvent(r)) \/ (\E r \in Rows : MarkEventDeleted(r))
      BY <2>3 DEF UpsertEvent, MarkEventDeleted
    <2>4. QED
      BY <2>1, <2>2, <2>3, PassSteps
  <1>7. QED
    BY <1>3, <1>4, <1>5, <1>6


\* What the provider holds of an object that did not change is still stored after
\* each step, unless the calendar left the list.
LEMMA RowsStand ==
    ASSUME Typed, Filed, ListedTrue, [Next]_vars, NEW i \in Items, Applied(i),
           pc \in {"upsert", "remove"} => stamp[i] <= upto,
           ~(ReplaceCalendars /\ rows' = Empty)
    PROVE  /\ OnServer(i) => /\ \A q \in RowsOf(i) : q \in DOMAIN rows' /\ rows'[q] = Event(q)
                             /\ i = Master => Derived \cap DOMAIN rows' \subseteq RowsOf(i)
           /\ ~OnServer(i) /\ Gone(i) => Gone(i)'
  <1> DEFINE Goal == /\ OnServer(i) => /\ \A q \in RowsOf(i) : q \in DOMAIN rows' /\ rows'[q] = Event(q)
                                       /\ i = Master => Derived \cap DOMAIN rows' \subseteq RowsOf(i)
                     /\ ~OnServer(i) /\ Gone(i) => (i \in DOMAIN rows' => rows'[i].state = "deleted")
  <1>1. /\ TypeOK /\ todo \subseteq DOMAIN batch /\ DOMAIN batch \subseteq Rows
        /\ DOMAIN rows \subseteq Rows /\ gone \subseteq {Master, Single} /\ i \in Rows
        /\ gone \subseteq Items
    BY Objects DEF Typed, TypeOK
  <1>2. /\ OnServer(i) => /\ \A q \in RowsOf(i) : q \in DOMAIN rows /\ rows[q] = Event(q)
                          /\ i = Master => Derived \cap DOMAIN rows \subseteq RowsOf(i)
        /\ \A q \in RowsOf(i) : q \in Rows /\ Carrier(q) = i /\ OnServer(q)
    BY DEF Applied, Current, RowsOf
  <1>3. /\ Carrier(i) = i /\ i \notin Derived
        /\ \A r \in Rows : r \in Items => Carrier(r) = r
        /\ \A r \in Rows : r \in Derived => Carrier(r) = Master
    BY Objects, Names
  <1>4. ASSUME UNCHANGED rows PROVE Goal
    BY <1>2, <1>4 DEF Gone
  <1>5. ASSUME NEW r \in Rows, UpsertEvent(r) PROVE Goal
    <2>1. /\ DOMAIN rows' = DOMAIN rows \cup {r} /\ r \in DOMAIN batch /\ stamp[i] <= upto
          /\ \A q \in DOMAIN rows' : rows'[q] = IF q = r THEN batch[r] ELSE rows[q]
      BY <1>1, <1>5 DEF UpsertEvent, First, Put
    <2>2. Carrier(r) = i => OnServer(r) /\ batch[r] = Event(r) /\ r \in RowsOf(i)
      BY <1>5, <2>1 DEF ListedTrue, RowsOf
    <2>3. \A q \in RowsOf(i) : OnServer(i) => q \in DOMAIN rows' /\ rows'[q] = Event(q)
      BY <1>2, <2>1, <2>2
    <2>4. OnServer(i) /\ i = Master => Derived \cap DOMAIN rows' \subseteq RowsOf(i)
      BY <1>2, <1>3, <2>1, <2>2
    <2>5. r = i => OnServer(i)
      BY <1>3, <2>2
    <2>6. QED
      BY <2>1, <2>3, <2>4, <2>5 DEF Gone
  <1>6. ASSUME NEW r \in Rows, MarkEventDeleted(r) PROVE Goal
    <2>1. r \in gone /\ pc = "remove" /\ DOMAIN rows' = DOMAIN rows
          /\ \A q \in DOMAIN rows : q # r => rows'[q] = rows[q]
      BY <1>6 DEF MarkEventDeleted, First
    <2>2. r \in DOMAIN rows => rows'[r].state = "deleted"
      <3>1. r \in DOMAIN rows => rows[r] \in Stored
        BY <1>1 DEF TypeOK
      <3>2. r \in DOMAIN rows => rows'[r] = [rows[r] EXCEPT !.state = "deleted"]
        BY <1>6 DEF MarkEventDeleted
      <3>3. QED
        BY <3>1, <3>2 DEF Stored
    <2>3. r = i => ~OnServer(i)
      BY <2>1 DEF ListedTrue
    <2>4. \A q \in RowsOf(i) : OnServer(i) => q # r
      BY <1>1, <1>2, <1>3, <2>1, <2>3
    <2>5. QED
      BY <1>2, <2>1, <2>2, <2>4 DEF Gone
  <1>7. ASSUME PruneEventRows PROVE Goal
    <2>1. PICK S : /\ S \subseteq Derived /\ rows' = Without(rows, S)
                   /\ S # {} => Master \in DOMAIN batch \cup gone /\ S \cap DOMAIN batch = {}
      <3> DEFINE S == IF Master \in DOMAIN batch \cup gone
                      THEN (Derived \cap DOMAIN rows) \ DOMAIN batch ELSE {}
      <3>1. rows' = Without(rows, S)
        BY <1>7 DEF PruneEventRows
      <3>2. S \subseteq Derived /\ (S # {} => Master \in DOMAIN batch \cup gone /\ S \cap DOMAIN batch = {})
        OBVIOUS
      <3>3. QED
        BY <3>1, <3>2
    <2>2. /\ DOMAIN rows' = DOMAIN rows \ S /\ \A q \in DOMAIN rows' : rows'[q] = rows[q]
          /\ stamp[i] <= upto
      BY <1>7, <2>1 DEF Without, PruneEventRows
    <2>3. ASSUME OnServer(i), NEW q \in RowsOf(i) PROVE q \notin S
      <3> SUFFICES ASSUME q \in S PROVE FALSE
        OBVIOUS
      <3>1. i = Master /\ Master \in DOMAIN batch \cup gone
        BY <1>2, <1>3, <2>1, <2>3
      <3>2. Master \notin gone
        BY <2>2, <2>3, <3>1 DEF ListedTrue
      <3>3. RowsOf(Master) \subseteq DOMAIN batch
        BY <1>3, <2>2, <3>1, <3>2 DEF ListedTrue
      <3>4. QED
        BY <2>1, <2>3, <3>1, <3>3
    <2>4. QED
      BY <1>2, <2>2, <2>3 DEF Gone
  <1>8. ExpandSingle \/ (\E w \in Workers, r \in Rows : ReplaceOccurrences(w, r)) => UNCHANGED rows
    BY DEF ExpandSingle, ReplaceOccurrences
  <1> HIDE DEF Goal
  <1>9. Goal
    BY <1>1, <1>4, <1>5, <1>6, <1>7, <1>8, StoreSteps
  <1>10. QED
    BY <1>9 DEF Gone, Goal

\* An object that is applied stays so while it does not change, whatever a pass does.
LEMMA AppliedKept ==
    ASSUME Typed, Stamped, Filed, ListedTrue, [Next]_vars, NEW i \in Items, Applied(i),
           pc \in {"upsert", "remove"} => stamp[i] <= upto,
           ~(ReplaceCalendars /\ rows' = Empty), stamp'[i] = stamp[i]
    PROVE  Applied(i)'
  <1>1. /\ OnServer(i) => /\ \A q \in RowsOf(i) : q \in DOMAIN rows' /\ rows'[q] = Event(q)
                          /\ i = Master => Derived \cap DOMAIN rows' \subseteq RowsOf(i)
        /\ ~OnServer(i) /\ Gone(i) => Gone(i)'
    BY RowsStand
  <1>2. Steady(i) /\ kind' = kind /\ (relisted = "yes" => relisted' = "yes")
    BY Unmoved, ServerSteps DEF Typed
  <1>3. OnServer(i)' <=> OnServer(i)
    BY <1>2 DEF Steady
  <1>4. RowsOf(i)' = RowsOf(i) /\ \A q \in RowsOf(i) : Event(q)' = Event(q)
    BY <1>2 DEF Steady
  <1>5. ASSUME OnServer(i) PROVE Applied(i)'
    <2>1. \A q \in RowsOf(i)' : q \in DOMAIN rows' /\ rows'[q] = Event(q)'
      BY <1>1, <1>4, <1>5
    <2>2. \A q \in RowsOf(i)' : Current(q)'
      BY <2>1 DEF Current
    <2>3. i = Master => Derived \cap DOMAIN rows' \subseteq RowsOf(i)'
      BY <1>1, <1>4, <1>5
    <2>4. OnServer(i)'
      BY <1>3, <1>5
    <2>5. QED
      BY <2>2, <2>3, <2>4 DEF Applied
  <1>6. ASSUME ~OnServer(i) PROVE Applied(i)'
    <2>1. Gone(i) \/ (kind = "inline" /\ relisted = "yes")
      BY <1>6 DEF Applied
    <2>2. Gone(i)' \/ (kind' = "inline" /\ relisted' = "yes")
      BY <1>1, <1>2, <1>6, <2>1
    <2>3. ~OnServer(i)'
      BY <1>3, <1>6
    <2>4. QED
      BY <2>2, <2>3 DEF Applied
  <1>7. QED
    BY <1>5, <1>6


\* A row that a pass has stored stays as it is stored, and so do the rows of an object
\* that the pass is still storing.
LEMMA CurrentKept ==
    ASSUME Typed, Stamped, ListedTrue, [Next]_vars, NEW i \in Items,
           stamp[i] <= upto, stamp'[i] = stamp[i], OnServer(i),
           \/ UNCHANGED rows
           \/ \E r \in Rows : UpsertEvent(r),
           NEW q \in RowsOf(i), Current(q)
    PROVE  Current(q)'
  <1>1. Event(q)' = Event(q)
    BY Unmoved DEF Steady
  <1>2. q \in DOMAIN rows /\ rows[q] = Event(q) /\ Carrier(q) = i
    BY DEF Current, RowsOf
  <1>3. q \in DOMAIN rows' /\ rows'[q] = Event(q)
    <2>1. CASE UNCHANGED rows
      BY <1>2, <2>1
    <2>2. ASSUME NEW r \in Rows, UpsertEvent(r) PROVE q \in DOMAIN rows' /\ rows'[q] = Event(q)
      <3>1. /\ DOMAIN rows' = DOMAIN rows \cup {r} /\ r \in DOMAIN batch
            /\ \A p \in DOMAIN rows' : rows'[p] = IF p = r THEN batch[r] ELSE rows[p]
        BY <2>2 DEF UpsertEvent, First, Put, Typed, TypeOK
      <3>2. q = r => batch[r] = Event(q)
        BY <1>2, <3>1 DEF ListedTrue
      <3>3. QED
        BY <1>2, <3>1, <3>2
    <2>3. QED
      BY <2>1, <2>2
  <1>4. QED
    BY <1>1, <1>3 DEF Current

\* Every step keeps what is still owed.
LEMMA OwedKept ==
    ASSUME Typed, Stamped, Phased, Filed, ListedTrue, Owed, Earned, [Next]_vars
    PROVE  Owed'
  <1>1. /\ TypeOK /\ todo \subseteq DOMAIN batch /\ DOMAIN batch \subseteq Rows
        /\ gone \subseteq Items /\ ids \subseteq Items /\ Items \subseteq Rows
        /\ upto \in Nat /\ token \in Nat /\ clock \in Nat /\ upto <= clock /\ DOMAIN Empty = {}
        /\ {Master, Single} \subseteq Items /\ \A i \in Items : Carrier(i) = i
        /\ kind \in {"google", "inline"} /\ gone \subseteq {Master, Single}
    BY Exceptional, Objects, ProvidersAssumption DEF Typed, TypeOK
  <1>2. /\ Items' = Items /\ kind' = kind
        /\ \A i \in Items : /\ stamp[i] \in Nat /\ stamp[i] <= clock
                            /\ stamp'[i] = stamp[i] => Steady(i)
                            /\ stamp'[i] # stamp[i] => Edit /\ stamp'[i] = clock + 1
    BY Unmoved
  <1> DEFINE Left(i) == pc # "state" /\ Ahead(i) /\ (i \in DOMAIN batch => pc = "upsert")
  <1>3. SUFFICES ASSUME pc' \in Reading, whole' = "yes" \/ full' = "yes",
                        NEW i \in Items, stamp'[i] > 0, stamp'[i] <= upto'
                 PROVE  Applied(i)' \/ Left(i)'
    BY <1>2 DEF Owed
  <1> HIDE DEF Left
  <1>4. CASE \E f \in {"yes", "no"} : EventChanges(f)
    <2>1. PICK f \in {"yes", "no"} : EventChanges(f)
      BY <1>4
    <2>2. /\ pc = "changes" /\ pc' = "fetch" /\ (token = 0 => f = "yes") /\ full' = f
          /\ UNCHANGED <<kind, srv, stamp, rows, batch, whole>>
      BY <2>1 DEF EventChanges, provider, database
    <2>3. Steady(i) /\ stamp[i] > 0 /\ DOMAIN batch' = {}
      BY <1>1, <1>2, <1>3, <2>2 DEF Phased
    <2>4. DEFINE since == IF f = "yes" THEN 0 ELSE token
    <2>5. /\ ids' = {j \in Items : stamp[j] > since /\ OnServer(j)}
          /\ gone' = IF kind = "inline" /\ since = 0 THEN {}
                     ELSE {j \in {Master, Single} : stamp[j] > since /\ ~OnServer(j)}
      BY <2>1 DEF EventChanges
    <2>6. relisted' = IF kind = "inline" /\ f = "yes" /\ rows # Empty THEN "yes" ELSE relisted
      BY <2>1 DEF EventChanges
    <2>7. i \in ids' \cup gone' => Left(i)'
      BY <2>2, <2>3 DEF Left, Ahead
    <2>8. stamp[i] <= since => Applied(i)'
      <3> SUFFICES ASSUME stamp[i] <= since PROVE Applied(i)'
        OBVIOUS
      <3>1. f = "no" /\ stamp[i] <= token /\ whole = "yes"
        BY <1>2, <1>3, <2>2, <2>3
      <3>2. Applied(i)
        BY <2>3, <3>1 DEF Earned, TokenIsEarned
      <3>3. ~(ReplaceCalendars /\ rows' = Empty)
        BY <2>2 DEF ReplaceCalendars
      <3>4. QED
        BY <2>2, <3>2, <3>3, AppliedKept
    <2>9. stamp[i] > since /\ OnServer(i) => i \in ids'
      BY <2>5
    <2>10. stamp[i] > since /\ ~OnServer(i) => i \in gone' \/ Applied(i)'
      <3> SUFFICES ASSUME stamp[i] > since, ~OnServer(i), i \notin gone' PROVE Applied(i)'
        OBVIOUS
      <3>1. i \in {Master, Single}
        <4>1. i \notin {Master, Single} => kind = "google" /\ \E s \in Slots : i = Inst(s)
          BY Objects
        <4>2. QED
          BY <2>3, <4>1 DEF Stamped
      <3>2. kind = "inline" /\ since = 0
        BY <2>5, <3>1
      <3>3. f = "yes"
        BY <2>2, <3>2
      <3>4. ~OnServer(i)'
        BY <2>3 DEF Steady
      <3>5. CASE rows = Empty
        <4>1. Gone(i)'
          BY <1>1, <2>2, <3>5 DEF Gone
        <4>2. QED
          BY <3>4, <4>1 DEF Applied
      <3>6. CASE rows # Empty
        <4>1. kind' = "inline" /\ relisted' = "yes"
          BY <1>2, <2>6, <3>2, <3>3, <3>6
        <4>2. QED
          BY <3>4, <4>1 DEF Applied
      <3>7. QED
        BY <3>5, <3>6
    <2>11. since \in Nat
      BY <1>1
    <2>12. stamp[i] > since \/ stamp[i] <= since
      BY <1>2, <2>11
    <2> QED
      BY <2>7, <2>8, <2>9, <2>10, <2>12
  <1>5. ASSUME pc \in Reading, upto' = upto, full' = full, whole' = whole PROVE
          /\ stamp'[i] = stamp[i] /\ stamp[i] <= upto /\ Steady(i)
          /\ Applied(i) \/ Left(i)
          /\ Applied(i) => Applied(i)'
    <2>1. stamp'[i] = stamp[i] /\ stamp[i] <= upto
      BY <1>1, <1>2, <1>3, <1>5
    <2>2. Applied(i) \/ Left(i)
      BY <1>3, <1>5, <2>1 DEF Owed, Left
    <2>3. ~(ReplaceCalendars /\ rows' = Empty)
      BY <1>5 DEF ReplaceCalendars, Reading
    <2>4. Applied(i) => Applied(i)'
      BY <2>1, <2>3, AppliedKept
    <2>5. QED
      BY <1>2, <2>1, <2>2, <2>4
  <1>6. CASE FetchObjects
    <2>1. /\ pc = "fetch" /\ pc' = "upsert" /\ ids' = {}
          /\ UNCHANGED <<upto, full, whole, gone, rows, srv, kind, stamp>>
          /\ DOMAIN batch' = UNION {RowsOf(j) : j \in ids} /\ todo' = DOMAIN batch'
      BY <1>6 DEF FetchObjects, provider, database, history
    <2>2. /\ stamp'[i] = stamp[i] /\ stamp[i] <= upto /\ Steady(i)
          /\ (Applied(i) \/ Left(i)) /\ (Applied(i) => Applied(i)')
      BY <1>5, <2>1 DEF Reading
    <2>3. CASE i \in gone
      BY <2>1, <2>3 DEF Left, Ahead
    <2>4. CASE i \in ids
      <3>1. OnServer(i)
        BY <2>2, <2>4 DEF ListedTrue
      <3>2. i \in RowsOf(i)
        BY <1>1, <3>1 DEF RowsOf
      <3>3. i \in DOMAIN batch' /\ RowsOf(i) \subseteq todo'
        BY <2>1, <2>4, <3>2
      <3>4. RowsOf(i)' = RowsOf(i)
        BY <2>2 DEF Steady
      <3>5. QED
        BY <2>1, <3>3, <3>4 DEF Left, Ahead
    <2>5. i \in DOMAIN batch => Applied(i)
      BY <1>1, <2>1 DEF Phased
    <2>6. QED
      BY <2>2, <2>3, <2>4, <2>5 DEF Left, Ahead
  <1>7. ASSUME NEW r \in Rows, UpsertEvent(r) PROVE Applied(i)' \/ Left(i)'
    <2>1. /\ pc = "upsert" /\ pc' = "upsert" /\ todo' = todo \ {r} /\ r \in todo
          /\ UNCHANGED <<upto, full, whole, gone, ids, batch>> /\ rows' = Put(rows, r, batch[r])
      BY <1>7 DEF UpsertEvent, First, history
    <2>2. /\ stamp'[i] = stamp[i] /\ stamp[i] <= upto /\ Steady(i)
          /\ (Applied(i) \/ Left(i)) /\ (Applied(i) => Applied(i)')
      BY <1>5, <2>1 DEF Reading
    <2>3. CASE i \in ids \cup gone
      BY <2>1, <2>3 DEF Left, Ahead, Phased
    <2>4. CASE i \in DOMAIN batch /\ \A q \in RowsOf(i) : q \in todo \/ Current(q)
      <3>1. OnServer(i)
        BY <1>1, <2>2, <2>4 DEF ListedTrue
      <3>2. ASSUME NEW q \in RowsOf(i) PROVE q \in todo' \/ Current(q)'
        <4>1. CASE Current(q)
          BY <1>7, <2>2, <3>1, <4>1, CurrentKept
        <4>2. CASE q = r
          <5>1. Carrier(q) = i
            BY DEF RowsOf
          <5>2. batch[r] = Event(q) /\ Event(q)' = Event(q)
            BY <1>1, <2>1, <2>2, <4>2, <5>1 DEF ListedTrue, Steady
          <5>3. q \in DOMAIN rows' /\ rows'[q] = batch[r]
            BY <2>1, <4>2 DEF Put
          <5>4. QED
            BY <5>2, <5>3 DEF Current
        <4>3. QED
          BY <2>1, <2>4, <4>1, <4>2
      <3>3. RowsOf(i)' = RowsOf(i)
        BY <2>2 DEF Steady
      <3>4. QED
        BY <2>1, <2>4, <3>2, <3>3 DEF Left, Ahead
    <2>5. QED
      BY <2>2, <2>3, <2>4 DEF Left, Ahead
  <1>8. CASE PruneEventRows
    <2>1. /\ pc = "upsert" /\ pc' = "remove" /\ todo = {}
          /\ UNCHANGED <<upto, full, whole, gone, ids, batch, stamp, srv, kind>>
      BY <1>8 DEF PruneEventRows, history, provider
    <2>2. /\ stamp'[i] = stamp[i] /\ stamp[i] <= upto /\ Steady(i)
          /\ (Applied(i) \/ Left(i)) /\ (Applied(i) => Applied(i)')
      BY <1>5, <2>1 DEF Reading
    <2>3. CASE i \in gone
      BY <2>1, <2>3 DEF Left, Ahead, Phased
    <2>4. CASE i \in DOMAIN batch /\ \A q \in RowsOf(i) : q \in todo \/ Current(q)
      <3>1. OnServer(i) /\ RowsOf(i) \subseteq DOMAIN batch
        BY <1>1, <2>2, <2>4 DEF ListedTrue
      <3>2. PICK S : /\ S \subseteq Derived /\ S \cap DOMAIN batch = {} /\ rows' = Without(rows, S)
                     /\ Master \in DOMAIN batch => Derived \cap DOMAIN rows \subseteq S \cup DOMAIN batch
        <4> DEFINE S == IF Master \in DOMAIN batch \cup gone
                        THEN (Derived \cap DOMAIN rows) \ DOMAIN batch ELSE {}
        <4>1. rows' = Without(rows, S)
          BY <1>8 DEF PruneEventRows
        <4>2. /\ S \subseteq Derived /\ S \cap DOMAIN batch = {}
              /\ Master \in DOMAIN batch => Derived \cap DOMAIN rows \subseteq S \cup DOMAIN batch
          OBVIOUS
        <4>3. QED
          BY <4>1, <4>2
      <3>3. DOMAIN rows' = DOMAIN rows \ S /\ \A q \in DOMAIN rows' : rows'[q] = rows[q]
        BY <3>2 DEF Without
      <3>4. \A q \in RowsOf(i) : q \in DOMAIN rows' /\ rows'[q] = Event(q)
        BY <2>1, <2>4, <3>1, <3>2, <3>3 DEF Current
      <3>5. i = Master => Derived \cap DOMAIN rows' \subseteq RowsOf(i)
        <4> SUFFICES ASSUME i = Master, NEW q \in Derived \cap DOMAIN rows' PROVE q \in RowsOf(i)
          OBVIOUS
        <4>1. q \in DOMAIN batch /\ q \in Rows
          BY <1>1, <2>4, <3>2, <3>3
        <4>2. Carrier(q) = Master
          BY <4>1, Objects
        <4>3. OnServer(q)
          BY <2>2, <4>1, <4>2 DEF ListedTrue
        <4>4. QED
          BY <4>1, <4>2, <4>3 DEF RowsOf
      <3>6. /\ RowsOf(i)' = RowsOf(i) /\ \A q \in RowsOf(i) : Event(q)' = Event(q)
            /\ OnServer(i)'
        BY <2>2, <3>1 DEF Steady
      <3>7. \A q \in RowsOf(i)' : Current(q)'
        BY <3>4, <3>6 DEF Current
      <3>8. i = Master => Derived \cap DOMAIN rows' \subseteq RowsOf(i)'
        BY <3>5, <3>6
      <3>9. QED
        BY <3>6, <3>7, <3>8 DEF Applied
    <2>5. QED
      BY <2>1, <2>2, <2>3, <2>4 DEF Left, Ahead, Phased
  <1>9. ASSUME NEW r \in Rows, MarkEventDeleted(r) PROVE Applied(i)' \/ Left(i)'
    <2>1. /\ pc = "remove" /\ pc' = "remove" /\ r \in gone /\ gone' = gone \ {r}
          /\ UNCHANGED <<upto, full, whole, ids, batch, stamp, srv, kind>>
      BY <1>9 DEF MarkEventDeleted, First, history, provider
    <2>2. /\ stamp'[i] = stamp[i] /\ stamp[i] <= upto /\ Steady(i)
          /\ (Applied(i) \/ Left(i)) /\ (Applied(i) => Applied(i)')
      BY <1>5, <2>1 DEF Reading
    <2>3. Left(i) => i \in gone /\ i \notin DOMAIN batch
      BY <2>1 DEF Left, Ahead, Phased
    <2>4. CASE i \in gone' /\ i \notin DOMAIN batch
      BY <2>1, <2>4 DEF Left, Ahead
    <2>5. CASE i = r
      <3>1. ~OnServer(i)'
        BY <2>1, <2>2, <2>5 DEF ListedTrue, Steady
      <3>2. Gone(i)'
        <4>1. r \in DOMAIN rows => rows[r] \in Stored
          BY <1>1 DEF TypeOK
        <4>2. r \in DOMAIN rows => rows' = [rows EXCEPT ![r].state = "deleted"]
          BY <1>9 DEF MarkEventDeleted
        <4>3. r \notin DOMAIN rows => rows' = rows
          BY <1>9 DEF MarkEventDeleted
        <4>4. r \in DOMAIN rows => rows'[r].state = "deleted"
          BY <4>1, <4>2 DEF Stored
        <4>5. QED
          BY <2>5, <4>3, <4>4 DEF Gone
      <3>3. QED
        BY <3>1, <3>2 DEF Applied
    <2>6. QED
      BY <2>1, <2>2, <2>3, <2>4, <2>5
  <1>10. CASE ExpandSingle
    <2>1. /\ pc = "remove" /\ gone = {} /\ UNCHANGED <<upto, full, whole>>
      BY <1>10 DEF ExpandSingle, history
    <2>2. (Applied(i) \/ Left(i)) /\ (Applied(i) => Applied(i)')
      BY <1>5, <2>1 DEF Reading
    <2>3. ~Left(i)
      BY <2>1 DEF Left, Ahead, Phased
    <2>4. QED
      BY <2>2, <2>3
  <1>11. CASE UNCHANGED <<pc, upto, ids, gone, batch, todo, touched, full>>
    <2>1. UNCHANGED rows \/ ReplaceCalendars \/ PruneEventRows
              \/ (\E r \in Rows : UpsertEvent(r)) \/ (\E r \in Rows : MarkEventDeleted(r))
      <3>1. ExpandSingle \/ (\E w \in Workers, r \in Rows : ReplaceOccurrences(w, r)) => UNCHANGED rows
        BY DEF ExpandSingle, ReplaceOccurrences
      <3>2. QED
        BY <1>1, <3>1, StoreSteps
    <2>2. ~ReplaceCalendars /\ ~SetState /\ ~(\E f \in {"yes", "no"} : EventChanges(f))
      BY <1>3, <1>11 DEF ReplaceCalendars, Reading, SetState, EventChanges
    <2>3. whole' = whole
      BY <1>1, <2>2, ServerSteps
    <2>4. /\ stamp'[i] = stamp[i] /\ stamp[i] <= upto /\ Steady(i)
          /\ (Applied(i) \/ Left(i)) /\ (Applied(i) => Applied(i)')
      BY <1>3, <1>5, <1>11, <2>3
    <2>5. ASSUME UNCHANGED rows, Left(i) PROVE Left(i)'
      <3>1. CASE i \in ids \cup gone
        BY <1>11, <2>5, <3>1 DEF Left, Ahead
      <3>2. CASE i \in DOMAIN batch /\ \A q \in RowsOf(i) : q \in todo \/ Current(q)
        <4>1. OnServer(i)
          BY <1>1, <2>4, <3>2 DEF ListedTrue
        <4>2. \A q \in RowsOf(i) : q \in todo' \/ Current(q)'
          BY <1>11, <2>4, <2>5, <3>2, <4>1, CurrentKept
        <4>3. RowsOf(i)' = RowsOf(i)
          BY <2>4 DEF Steady
        <4>4. QED
          BY <1>11, <2>5, <3>2, <4>2, <4>3 DEF Left, Ahead
      <3>3. QED
        BY <2>5, <3>1, <3>2 DEF Left, Ahead
    <2>6. QED
      BY <1>7, <1>8, <1>9, <2>1, <2>2, <2>4, <2>5
  <1>12. ReplaceCalendars \/ SetState \/ Abort => pc' \notin Reading
    BY DEF ReplaceCalendars, SetState, Abort, Reading
  <1>13. QED
    BY <1>3, <1>4, <1>6, <1>7, <1>8, <1>9, <1>10, <1>11, <1>12, PassSteps

\* Every step keeps that a token was earned.
LEMMA EarnedKept ==
    ASSUME Typed, Stamped, Phased, Filed, ListedTrue, Owed, Earned, [Next]_vars
    PROVE  Earned'
  <1>1. /\ TypeOK /\ token \in Nat /\ token <= clock /\ clock \in Nat /\ upto \in Nat /\ upto <= clock
    BY DEF Typed, TypeOK
  <1>2. /\ Items' = Items
        /\ \A i \in Items : /\ stamp[i] \in Nat /\ stamp[i] <= clock
                            /\ stamp'[i] # stamp[i] => Edit /\ stamp'[i] = clock + 1
    BY Unmoved
  <1>3. SUFFICES ASSUME whole' = "yes", NEW i \in Items, stamp'[i] <= token', stamp'[i] > 0
                 PROVE  Applied(i)'
    BY <1>2 DEF Earned, TokenIsEarned
  <1>4. CASE SetState
    <2>1. /\ pc = "state" /\ token' = upto /\ UNCHANGED <<stamp, rows>>
          /\ whole' = IF full = "yes" THEN "yes" ELSE whole
      BY <1>4 DEF SetState, provider
    <2>2. Applied(i)
      BY <1>3, <2>1 DEF Owed, Reading
    <2>3. ~(ReplaceCalendars /\ rows' = Empty)
      BY <2>1 DEF ReplaceCalendars
    <2>4. QED
      BY <2>1, <2>2, <2>3, AppliedKept
  <1>5. CASE ~SetState
    <2>1. token' = token
      BY <1>1, <1>5, ServerSteps
    <2>2. ReplaceCalendars => whole' = "no" \/ (whole' = whole /\ rows' = rows)
      BY DEF ReplaceCalendars
    <2>3. (\E f \in {"yes", "no"} : EventChanges(f)) => whole' = whole
      BY DEF EventChanges
    <2>4. whole = "yes"
      BY <1>1, <1>3, <1>5, <2>2, <2>3, ServerSteps
    <2>5. stamp'[i] = stamp[i]
      BY <1>1, <1>2, <1>3, <2>1
    <2>6. Applied(i)
      BY <1>3, <2>1, <2>4, <2>5 DEF Earned, TokenIsEarned
    <2>7. pc \in {"upsert", "remove"} => stamp[i] <= upto
      BY <1>1, <1>2, <1>3, <2>1, <2>5 DEF Phased, Reading
    <2>8. ReplaceCalendars /\ rows' = Empty => FALSE \/ rows' = rows
      BY <1>3, <2>2
    <2>9. CASE ~(ReplaceCalendars /\ rows' = Empty)
      BY <2>5, <2>6, <2>7, <2>9, AppliedKept
    <2>10. CASE ReplaceCalendars /\ rows' = Empty
      <3>1. UNCHANGED rows /\ whole' = whole
        BY <1>3, <2>2, <2>10
      <3>2. /\ kind' = kind /\ relisted' = relisted /\ Steady(i)
        BY <2>5, <2>10, Unmoved DEF ReplaceCalendars, provider
      <3>3. /\ RowsOf(i)' = RowsOf(i) /\ \A q \in RowsOf(i) : Event(q)' = Event(q)
            /\ (OnServer(i)' <=> OnServer(i))
        BY <3>2 DEF Steady
      <3>4. \A q \in RowsOf(i) : Current(q) => Current(q)'
        BY <3>1, <3>3 DEF Current
      <3>5. OnServer(i) => Applied(i)'
        BY <2>6, <3>1, <3>3, <3>4 DEF Applied
      <3>6. ~OnServer(i) => Applied(i)'
        BY <2>6, <3>1, <3>2, <3>3 DEF Applied, Gone
      <3>7. QED
        BY <3>5, <3>6
    <2>11. QED
      BY <2>9, <2>10
  <1>6. QED
    BY <1>4, <1>5


\* The initial states have the invariant.
LEMMA InitHolds ==
    ASSUME Init
    PROVE  IInv
  <1>1. /\ DOMAIN Empty = {} /\ Idle \in RunType /\ Idle.at = "idle" /\ Idle.day = 0
        /\ Idle.exc = Empty /\ Idle.left = {} /\ Idle.found = "no" /\ run \in [Workers -> RunType]
        /\ \A w \in Workers : run[w] = Idle
    BY Exceptional DEF Init, Idle
  <1>2. srv \in Servers /\ Possible(kind, srv) /\ kind \in Providers
    BY StartsAssumption DEF Init
  <1>3. /\ stamp \in [{Master, Single} \cup {Inst(s) : s \in Slots} -> Nat]
        /\ \A i \in {Master, Single} \cup {Inst(s) : s \in Slots} : stamp[i] = IF OnServer(i) THEN 1 ELSE 0
    BY DEF Init
  <1>4. TypeOK
    BY <1>1, <1>2, <1>3, CalendarBounds DEF Init, TypeOK
  <1>5. Stamped
    BY <1>2, <1>3 DEF Init, Stamped, Items
  <1>6. Phased
    BY <1>1 DEF Init, Phased, Reading, Workers
  <1>7. Filed
    BY <1>1 DEF Init, Filed, DatedIn
  <1>8. ListedTrue
    BY <1>1 DEF Init, ListedTrue
  <1>9. Owed
    BY DEF Init, Owed, Reading
  <1>10. Earned
    BY <1>3 DEF Init, Earned, TokenIsEarned, Items
  <1>11. QED
    BY <1>1, <1>4, <1>5, <1>6, <1>7, <1>8, <1>9, <1>10 DEF IInv, Typed

\* Every step keeps the invariant.
LEMMA IInvKept ==
    ASSUME IInv, [Next]_vars
    PROVE  IInv'
  BY TypesKept, StampedKept, PhasedKept, FiledKept, ListedTrueKept, OwedKept, EarnedKept DEF IInv

\* "State is advanced only after everything up to it is applied": whatever has not
\* changed since the token is stored as the provider has it, however passes and
\* re-expansions, changes, deaths and the days follow one another.
THEOREM TokenEarned == Spec => []NoGap
  <1>1. Init => IInv
    BY InitHolds
  <1>2. IInv /\ [Next]_vars => IInv'
    BY IInvKept
  <1>3. IInv => NoGap
    BY DEF IInv, Typed, Earned, NoGap
  <1>4. QED
    BY <1>1, <1>2, <1>3, PTL DEF Spec


-----------------------------------------------------------------------------
(* The agenda.                                                             *)

\* What costs the calm.
LEMMA CalmSteps ==
    ASSUME TypeOK, Stamped, [Next]_vars, calm' = "yes"
    PROVE  /\ calm = "yes"
           /\ ReplaceCalendars => run["daily"].at = "idle" \/ pc' = "idle"
           /\ ReexpandAll => pc = "idle"
           /\ Abort => pc \in {"changes", "fetch"}
  <1>1. calm \in {"yes", "no"}
    BY DEF TypeOK
  <1>2. CASE Edit
    <2>1. calm' = calm /\ pc' = pc
      BY <1>2, Edits DEF history, pass
    <2>2. ReplaceCalendars => pc' = "idle"
      BY <2>1 DEF ReplaceCalendars
    <2>3. ReexpandAll => pc = "idle"
      BY DEF ReexpandAll
    <2>4. Abort => pc \in {"changes", "fetch"}
      BY DEF Abort
    <2>5. QED
      BY <2>1, <2>2, <2>3, <2>4
  <1>3. (ReplaceCalendars => run["daily"].at = "idle" \/ pc' = "idle") /\ (ReexpandAll => pc = "idle")
        /\ (Abort => pc \in {"changes", "fetch"})
    BY DEF ReplaceCalendars, ReexpandAll, Abort
  <1>4. CASE ReplaceCalendars \/ ReexpandAll \/ Abort
    BY <1>1, <1>3, <1>4 DEF ReplaceCalendars, ReexpandAll, Abort
  <1>5. CASE \/ UNCHANGED vars \/ (\E f \in {"yes", "no"} : EventChanges(f)) \/ FetchObjects
             \/ (\E r \in Rows : UpsertEvent(r)) \/ (\E r \in Rows : MarkEventDeleted(r))
             \/ PruneEventRows \/ ExpandSingle \/ SetState
    <2>1. calm' = calm
      BY <1>5 DEF vars, history, EventChanges, FetchObjects, UpsertEvent, MarkEventDeleted,
                  PruneEventRows, ExpandSingle, SetState
    <2>2. QED
      BY <1>3, <2>1
  <1>6. CASE \/ (\E w \in Workers : ListRecurringEvents(w)) \/ (\E w \in Workers : ListEventExceptions(w))
             \/ (\E w \in Workers, r \in Rows : ReplaceOccurrences(w, r))
             \/ ReexpandDies \/ Unlist \/ Relist \/ NextDay
    <2>1. calm' = calm
      BY <1>6 DEF history, ListRecurringEvents, ListEventExceptions, ReplaceOccurrences,
                  ReexpandDies, Unlist, Relist, NextDay
    <2>2. QED
      BY <1>3, <2>1
  <1>7. QED
    BY <1>2, <1>3, <1>4, <1>5, <1>6, Steps

\* Every step keeps the daily run and a pass apart.
LEMMA ApartKept ==
    ASSUME IInv, Fitting, [Next]_vars, calm' = "yes"
    PROVE  Apart'
  <1>1. /\ TypeOK /\ calm = "yes" /\ Apart
        /\ ReplaceCalendars => run["daily"].at = "idle" \/ pc' = "idle"
        /\ ReexpandAll => pc = "idle"
    BY CalmSteps DEF IInv, Typed, Fitting
  <1>2. SUFFICES ASSUME run'["daily"].at # "idle" PROVE pc' = "idle"
    BY DEF Apart
  <1>3. CASE run["daily"].at # "idle" /\ run'["daily"] = run["daily"]
    <2>1. pc = "idle"
      BY <1>1, <1>3 DEF Apart
    <2>2. CASE UNCHANGED <<pc, upto, ids, gone, batch, todo, touched, full>> \/ ReplaceCalendars
      BY <1>1, <1>3, <2>1, <2>2
    <2>3. /\ \A f \in {"yes", "no"} : ~EventChanges(f)
          /\ ~FetchObjects /\ ~PruneEventRows /\ ~ExpandSingle /\ ~SetState /\ ~Abort
      BY <2>1 DEF EventChanges, FetchObjects, PruneEventRows, ExpandSingle, SetState, Abort
    <2>4. \A r \in Rows : ~UpsertEvent(r) /\ ~MarkEventDeleted(r)
      BY <2>1 DEF UpsertEvent, MarkEventDeleted
    <2>5. QED
      BY <2>2, <2>3, <2>4, PassSteps
  <1>4. CASE ReexpandAll
    BY <1>1, <1>4 DEF ReexpandAll, pass
  <1>5. CASE \/ ListRecurringEvents("daily") \/ ListEventExceptions("daily")
             \/ \E r \in Rows : ReplaceOccurrences("daily", r)
    <2>1. run["daily"].at # "idle" /\ pc' = pc
      BY <1>5 DEF ListRecurringEvents, ListEventExceptions, ReplaceOccurrences, pass
    <2>2. QED
      BY <1>1, <2>1 DEF Apart
  <1>6. Idle.at = "idle"
    BY Exceptional
  <1>7. QED
    BY <1>2, <1>3, <1>4, <1>5, <1>6, Movers DEF IInv

\* The pass expands only after it touched the series.
LEMMA SeriesKept ==
    ASSUME IInv, Fitting, [Next]_vars, calm' = "yes", run'["pass"].at # "idle"
    PROVE  "series" \in touched'
  <1>1. /\ TypeOK /\ calm = "yes" /\ (run["pass"].at # "idle" => "series" \in touched) /\ Phased
        /\ Workers = {"pass", "daily"} /\ run \in [Workers -> RunType] /\ Idle.at = "idle"
        /\ (pc # "state" => run["pass"].at = "idle")
    BY CalmSteps, Exceptional DEF IInv, Typed, Fitting, Workers, Phased
  <1>2. CASE run'["pass"] = run["pass"]
    <2>1. "series" \in touched /\ pc = "state"
      BY <1>1, <1>2
    <2>2. CASE UNCHANGED <<pc, upto, ids, gone, batch, todo, touched, full>>
      BY <2>1, <2>2
    <2>3. ~ReplaceCalendars /\ ~FetchObjects /\ ~PruneEventRows /\ ~ExpandSingle
          /\ \A f \in {"yes", "no"} : ~EventChanges(f)
      BY <2>1 DEF ReplaceCalendars, FetchObjects, PruneEventRows, ExpandSingle, EventChanges
    <2>4. \A r \in Rows : ~UpsertEvent(r) /\ ~MarkEventDeleted(r)
      BY <2>1 DEF UpsertEvent, MarkEventDeleted
    <2>5. ~SetState /\ ~Abort
      <3>1. SetState \/ Abort => run' = [run EXCEPT !["pass"] = Idle]
        BY DEF SetState, Abort
      <3>2. QED
        BY <1>1, <3>1
    <2>6. QED
      BY <2>2, <2>3, <2>4, <2>5, PassSteps
  <1>3. CASE ExpandSingle
    <2>1. "series" \notin touched => run' = run
      BY <1>3 DEF ExpandSingle
    <2>2. touched' = touched /\ run["pass"].at = "idle"
      BY <1>1, <1>3 DEF ExpandSingle
    <2>3. QED
      BY <2>1, <2>2
  <1>4. CASE \/ ListRecurringEvents("pass") \/ ListEventExceptions("pass")
             \/ \E r \in Rows : ReplaceOccurrences("pass", r)
    <2>1. run["pass"].at # "idle" /\ touched' = touched
      BY <1>4 DEF ListRecurringEvents, ListEventExceptions, ReplaceOccurrences, pass
    <2>2. QED
      BY <1>1, <2>1
  <1>5. QED
    BY <1>1, <1>2, <1>3, <1>4, Movers DEF IInv

\* What a run looks at does not change while it works.
LEMMA InSightKept ==
    ASSUME IInv, IInv', Fitting, [Next]_vars, calm' = "yes", NEW w \in Workers
    PROVE  InSight(w)'
  <1>1. /\ TypeOK /\ Typed /\ calm = "yes" /\ InSight(w) /\ Workers = {"pass", "daily"}
        /\ run \in [Workers -> RunType] /\ Idle.at = "idle"
    BY CalmSteps, Exceptional DEF IInv, Typed, Fitting, Workers
  <1>2. Apart' /\ (pc' # "state" => run'["pass"].at = "idle")
    BY ApartKept DEF IInv, Phased
  <1>3. SUFFICES ASSUME run'[w].at \in {"exceptions", "write"}
                 PROVE  /\ run'[w].found = FoundIn(rows')
                        /\ run'[w].at = "write" => run'[w].exc = ExceptionsIn(rows')
    BY DEF InSight
  <1>4. pc' \in {"idle", "state"} /\ (w = "pass" => pc' = "state")
    BY <1>1, <1>2, <1>3 DEF Apart
  <1>5. UNCHANGED rows
    <2>1. /\ \A r \in Rows : ~UpsertEvent(r) /\ ~MarkEventDeleted(r)
          /\ ~PruneEventRows
      <3>1. \A r \in Rows : ~UpsertEvent(r)
        BY <1>4 DEF UpsertEvent
      <3>2. \A r \in Rows : ~MarkEventDeleted(r)
        BY <1>4 DEF MarkEventDeleted
      <3>3. ~PruneEventRows
        BY <1>4 DEF PruneEventRows
      <3>4. QED
        BY <3>1, <3>2, <3>3
    <2>2. ReplaceCalendars => UNCHANGED rows
      <3>1. ReplaceCalendars => UNCHANGED rows \/ (pc' = "idle" /\ run' = [run EXCEPT !["daily"] = Idle])
        BY DEF ReplaceCalendars
      <3>2. run' # [run EXCEPT !["daily"] = Idle] \/ w = "pass"
        BY <1>1, <1>3
      <3>3. QED
        BY <1>4, <3>1, <3>2
    <2>3. ExpandSingle \/ (\E u \in Workers, r \in Rows : ReplaceOccurrences(u, r)) => UNCHANGED rows
      BY DEF ExpandSingle, ReplaceOccurrences
    <2>4. QED
      BY <1>1, <2>1, <2>2, <2>3, StoreSteps
  <1>6. CASE run'[w] = run[w]
    BY <1>1, <1>3, <1>5, <1>6 DEF InSight
  <1>7. CASE ListRecurringEvents(w)
    <2>1. run'[w] = [at |-> "exceptions", day |-> run[w].day, found |-> FoundIn(rows),
                                      exc |-> run[w].exc, left |-> run[w].left]
      BY <1>1, <1>7, MastersListed
    <2>2. QED
      BY <1>5, <2>1
  <1>8. CASE ListEventExceptions(w)
    <2>1. PICK exc, left : exc = ExceptionsIn(rows) /\ left = DOMAIN exc \cup (IF run[w].found = "yes" THEN {Master} ELSE {})
      OBVIOUS
    <2>2. /\ left = {} => run'[w] = Idle
          /\ left # {} => run'[w] =
                [at |-> "write", day |-> run[w].day, found |-> run[w].found, exc |-> exc, left |-> left]
      BY <1>1, <1>8, <2>1, ExceptionsListed
    <2>3. run[w].at = "exceptions"
      BY <1>8 DEF ListEventExceptions
    <2>4. QED
      BY <1>1, <1>3, <1>5, <2>1, <2>2, <2>3 DEF InSight
  <1>9. ASSUME NEW r \in Rows, ReplaceOccurrences(w, r)
        PROVE  /\ run'[w].found = FoundIn(rows')
               /\ run'[w].at = "write" => run'[w].exc = ExceptionsIn(rows')
    <2>1. /\ run[w].left = {r} => run'[w] = Idle
          /\ run[w].left # {r} => run'[w] =
                [at |-> run[w].at, day |-> run[w].day, found |-> run[w].found,
                 exc |-> run[w].exc, left |-> run[w].left \ {r}]
      <3>1. PICK z : z = [at |-> run[w].at, day |-> run[w].day, found |-> run[w].found,
                          exc |-> run[w].exc, left |-> run[w].left \ {r}]
        OBVIOUS
      <3>2. /\ run[w].left = {r} => run' = [run EXCEPT ![w] = Idle]
            /\ run[w].left # {r} => run' = [run EXCEPT ![w] = z]
        BY <1>1, <1>9, <3>1, RowWritten
      <3>3. /\ run[w].left = {r} => run'[w] = Idle
            /\ run[w].left # {r} => run'[w] = z
        BY <1>1, <3>2
      <3>4. QED
        BY <3>1, <3>3
    <2>2. run[w].at = "write"
      BY <1>9 DEF ReplaceOccurrences
    <2>3. QED
      BY <1>1, <1>3, <1>5, <2>1, <2>2 DEF InSight
  <1>10. ExpandSingle => run' = run \/ run'["pass"].at = "masters"
    <2>1. ExpandSingle => run' = run \/ run' = [run EXCEPT !["pass"].at = "masters"]
      BY DEF ExpandSingle
    <2>2. run["pass"] \in RunType
      BY <1>1
    <2>3. QED
      BY <1>1, <2>1, <2>2 DEF RunType
  <1>11. QED
    BY <1>1, <1>3, <1>6, <1>7, <1>8, <1>9, <1>10, Movers


\* A row that stays as it is still fits.
LEMMA StillFits ==
    ASSUME NEW f, NEW o, NEW g, NEW p, NEW q, Fits(f, o, q), g[q] = f[q], p[q] = o[q],
           q = Master => Held(g) = Held(f)
    PROVE  Fits(g, p, q)
  BY DEF Fits, Most

\* What a run writes of a row it looked at fits.
LEMMA WritesFit ==
    ASSUME IInv, Fitting, calm = "yes", NEW w \in Workers, NEW r \in DOMAIN rows,
           ReplaceOccurrences(w, r), rows[r].state = "live"
    PROVE  Fits(rows', occ', r) /\ r # Single
  <1>1. /\ TypeOK /\ Filed /\ InSight(w) /\ rows' = rows /\ run[w].day \in Nat /\ Reach \in Nat
        /\ run[w].at = "write" /\ r \in run[w].left /\ occ' = [occ EXCEPT ![r] = Shows(run[w], r)]
        /\ run[w] \in RunType
    BY SlotsAssumption DEF IInv, Typed, Fitting, ReplaceOccurrences, First, RunType
  <1>2. r \in DOMAIN run[w].exc \cup {Master} /\ DOMAIN run[w].exc \subseteq Exceptions
    BY <1>1 DEF TypeOK
  <1>3. run[w].exc = ExceptionsIn(rows)
    BY <1>1 DEF InSight
  <1>4. /\ DOMAIN run[w].exc = DOMAIN rows \cap Exceptions
        /\ \A q \in DOMAIN rows \cap Exceptions : run[w].exc[q] = rows[q]
    BY <1>1, <1>3, ExceptionRows
  <1>5. r \in DOMAIN occ
    BY <1>1 DEF TypeOK
  <1>6. occ'[r] = Shows(run[w], r)
    BY <1>1, <1>5
  <1>7. CASE r = Master
    <2>1. occ'[r] = {s \in Slots : InWindow(s, run[w].day)} \ Held(rows)
      BY <1>4, <1>6, <1>7 DEF Shows, Held
    <2>2. \A s \in Slots : s \in Nat /\ (InWindow(s, 0) => InWindow(s, run[w].day))
      BY <1>1, SlotsAssumption DEF InWindow
    <2>3. QED
      BY <1>1, <1>7, <2>1, <2>2, Names DEF Fits, Most
  <1>8. CASE r # Master
    <2>1. r \in Exceptions /\ r \in DOMAIN rows \cap Exceptions /\ r # Single
      BY <1>2, <1>4, <1>8, Names
    <2>2. occ'[r] = {d \in {rows[r].date} : /\ rows[r].status = "confirmed"
                                            /\ run[w].found = "yes" \/ InWindow(d, run[w].day)}
      BY <1>4, <1>6, <1>8, <2>1 DEF Shows
    <2>3. rows[r].date \in Slots
      BY <1>1, <2>1, Names DEF Filed, DatedIn
    <2>4. \A s \in Slots : s \in Nat /\ (InWindow(s, 0) => InWindow(s, run[w].day))
      BY <1>1, SlotsAssumption DEF InWindow
    <2>5. Most(rows, r) = IF rows[r].status = "confirmed" THEN {rows[r].date} ELSE {}
      BY <1>8, <2>1 DEF Most
    <2>6. QED
      BY <1>1, <2>1, <2>2, <2>3, <2>4, <2>5 DEF Fits
  <1>9. QED
    BY <1>7, <1>8

\* Every step keeps what is known of the expansion.
LEMMA ExpandedKept ==
    ASSUME IInv, Fitting, [Next]_vars, calm' = "yes"
    PROVE  Expanded'
  <1>1. /\ TypeOK /\ Phased /\ Filed /\ calm = "yes" /\ Workers = {"pass", "daily"}
        /\ run \in [Workers -> RunType] /\ Idle.at = "idle" /\ DOMAIN Empty = {} /\ Expanded
        /\ DOMAIN rows \subseteq Rows /\ occ \in [DOMAIN rows -> SUBSET Slots]
        /\ todo \subseteq DOMAIN batch /\ run["pass"] \in RunType /\ Typed /\ Stamped
        /\ Abort => pc \in {"changes", "fetch"}
        /\ (pc # "state" => run["pass"].at = "idle")
        /\ gone \subseteq {Master, Single}
    BY CalmSteps, Exceptional DEF IInv, Typed, TypeOK, Fitting, Workers, Phased
  <1> DEFINE Good(q) == rows'[q].state = "live" => Fits(rows', occ', q) \/ Undone(q)'
             Still == \A q \in DOMAIN rows' : Good(q)
  <1>2. ASSUME UNCHANGED <<rows, occ, pc, touched, gone>>, run'["pass"] = run["pass"] PROVE Still
    BY <1>1, <1>2 DEF Expanded, Undone, SeriesOff
  <1>3. ASSUME UNCHANGED <<rows, occ>>, \A q \in DOMAIN rows : ~Undone(q) PROVE Still
    BY <1>1, <1>3 DEF Expanded
  <1>4. pc \in {"idle", "changes", "fetch"} \/ (pc = "state" /\ run["pass"].at = "idle")
          => \A q \in DOMAIN rows : ~Undone(q)
    BY <1>1 DEF Undone, SeriesOff, Phased
  <1>5. ASSUME ReplaceCalendars PROVE Still
    <2>1. pc = "idle" /\ (UNCHANGED <<rows, occ>> \/ rows' = Empty)
      BY <1>5 DEF ReplaceCalendars
    <2>2. QED
      BY <1>1, <1>3, <1>4, <2>1
  <1>6. ASSUME (\E f \in {"yes", "no"} : EventChanges(f)) \/ FetchObjects \/ Abort PROVE Still
    <2>1. pc \in {"changes", "fetch"} /\ UNCHANGED <<rows, occ>>
      BY <1>1, <1>6 DEF EventChanges, FetchObjects, Abort, database
    <2>2. QED
      BY <1>3, <1>4, <2>1
  <1>7. ASSUME SetState PROVE Still
    <2>1. pc = "state" /\ run["pass"].at = "idle" /\ UNCHANGED <<rows, occ>>
      BY <1>7 DEF SetState
    <2>2. QED
      BY <1>3, <1>4, <2>1
  <1>8. ASSUME NEW r \in Rows, UpsertEvent(r) PROVE Still
    <2>1. /\ DOMAIN rows' = DOMAIN rows \cup {r} /\ r \in DOMAIN batch /\ pc = "upsert" /\ pc' = pc
          /\ \A q \in DOMAIN rows' : rows'[q] = IF q = r THEN batch[r] ELSE rows[q]
          /\ UNCHANGED <<gone, run>> /\ touched \subseteq touched'
      BY <1>1, <1>8 DEF UpsertEvent, First, Put
    <2>2. \A q \in DOMAIN rows : occ'[q] = occ[q]
      BY <1>1, <1>8 DEF UpsertEvent, Put
    <2>3. \A q \in DOMAIN rows : Undone(q) => Undone(q)'
      BY <2>1 DEF Undone, SeriesOff
    <2>4. CASE r \in DOMAIN rows /\ rows[r] = batch[r]
      <3>1. DOMAIN rows' = DOMAIN rows /\ \A q \in DOMAIN rows : rows'[q] = rows[q]
        BY <2>1, <2>4
      <3>2. Held(rows') = Held(rows)
        BY <3>1 DEF Held
      <3>3. QED
        BY <1>1, <2>2, <2>3, <3>1, <3>2, StillFits DEF Expanded
    <2>5. CASE ~(r \in DOMAIN rows /\ rows[r] = batch[r])
      <3>1. IF r = Single THEN "single" \in touched' ELSE "series" \in touched'
        BY <1>8, <2>5 DEF UpsertEvent
      <3>2. CASE r = Single
        <4>1. Undone(Single)'
          BY <2>1, <3>1, <3>2 DEF Undone
        <4>2. Held(rows') = Held(rows)
          BY <2>1, <3>2, Names DEF Held
        <4>3. ASSUME NEW q \in DOMAIN rows', q # Single PROVE Good(q)
          <5>1. q \in DOMAIN rows /\ rows'[q] = rows[q] /\ occ'[q] = occ[q]
            BY <2>1, <2>2, <3>2, <4>3
          <5>2. QED
            BY <1>1, <2>3, <4>2, <5>1, StillFits DEF Expanded
        <4>4. QED
          BY <4>1, <4>3
      <3>3. CASE r # Single
        <4>1. \A q \in DOMAIN rows' : q # Single => Undone(q)'
          BY <2>1, <3>1, <3>3 DEF Undone, SeriesOff
        <4>2. ASSUME Single \in DOMAIN rows' PROVE Good(Single)
          <5>1. /\ Single \in DOMAIN rows /\ rows'[Single] = rows[Single] /\ occ'[Single] = occ[Single]
                /\ Single # Master
            BY <2>1, <2>2, <3>3, <4>2, Names
          <5>2. QED
            BY <1>1, <2>3, <5>1, StillFits DEF Expanded
        <4>3. QED
          BY <4>1, <4>2
      <3>4. QED
        BY <3>2, <3>3
    <2>6. QED
      BY <2>4, <2>5
  <1>9. ASSUME NEW r \in Rows, MarkEventDeleted(r) PROVE Still
    <2>1. /\ pc = "remove" /\ pc' = "remove" /\ r \in gone /\ gone' = gone \ {r} /\ run' = run
          /\ touched \subseteq touched'
      BY <1>9 DEF MarkEventDeleted, First
    <2>2. CASE r \notin DOMAIN rows
      <3>1. UNCHANGED <<rows, occ, touched>>
        BY <1>9, <2>2 DEF MarkEventDeleted
      <3>2. \A q \in DOMAIN rows : Undone(q) => Undone(q)'
        BY <2>1, <2>2, <3>1 DEF Undone, SeriesOff
      <3>3. QED
        BY <1>1, <3>1, <3>2 DEF Expanded
    <2>3. CASE r \in DOMAIN rows
      <3>1. /\ rows' = [rows EXCEPT ![r].state = "deleted"] /\ occ' = [occ EXCEPT ![r] = {}]
            /\ (r # Single => "series" \in touched')
        BY <1>9, <2>3 DEF MarkEventDeleted
      <3>2. /\ DOMAIN rows' = DOMAIN rows /\ \A q \in DOMAIN rows : q # r => rows'[q] = rows[q] /\ occ'[q] = occ[q]
            /\ rows'[r] = [rows[r] EXCEPT !.state = "deleted"]
        BY <1>1, <2>3, <3>1
      <3>3. rows'[r].state # "live"
        BY <1>1, <2>3, <3>2 DEF TypeOK, Stored
      <3>4. Held(rows') = Held(rows)
        BY <3>2 DEF Held
      <3>5. ASSUME NEW q \in DOMAIN rows, q # r PROVE Good(q)
        <4>1. Fits(rows, occ, q) => Fits(rows', occ', q)
          BY <3>2, <3>4, <3>5, StillFits
        <4>2. Undone(q) => Undone(q)'
          BY <2>1, <3>5 DEF Undone, SeriesOff
        <4>3. QED
          BY <1>1, <3>2, <3>5, <4>1, <4>2 DEF Expanded
      <3>6. QED
        BY <3>2, <3>3, <3>5
    <2>4. QED
      BY <2>2, <2>3
  <1>10. ASSUME PruneEventRows PROVE Still
    <2>1. PICK S : /\ S \subseteq Derived /\ rows' = Without(rows, S) /\ occ' = Without(occ, S)
                   /\ S # {} => Master \in gone \/ "series" \in touched'
      <3> DEFINE S == IF Master \in DOMAIN batch \cup gone
                      THEN (Derived \cap DOMAIN rows) \ DOMAIN batch ELSE {}
      <3>1. /\ rows' = Without(rows, S) /\ occ' = Without(occ, S)
            /\ S # {} /\ Master \in DOMAIN batch => "series" \in touched'
        BY <1>10 DEF PruneEventRows
      <3>2. S \subseteq Derived /\ (S # {} => Master \in DOMAIN batch \cup gone)
        OBVIOUS
      <3>3. QED
        BY <3>1, <3>2
    <2>2. /\ pc = "upsert" /\ pc' = "remove" /\ UNCHANGED <<gone, run>> /\ touched \subseteq touched'
      BY <1>10 DEF PruneEventRows
    <2>3. DOMAIN rows' = DOMAIN rows \ S /\ \A q \in DOMAIN rows' : rows'[q] = rows[q] /\ occ'[q] = occ[q]
      BY <1>1, <2>1 DEF Without
    <2>4. \A q \in DOMAIN rows : Undone(q) => Undone(q)'
      BY <2>2 DEF Undone, SeriesOff
    <2>5. ASSUME NEW q \in DOMAIN rows', q # Master \/ S = {} PROVE Good(q)
      <3>1. q = Master => Held(rows') = Held(rows)
        BY <2>3, <2>5 DEF Held
      <3>2. Fits(rows, occ, q) => Fits(rows', occ', q)
        BY <2>3, <2>5, <3>1, StillFits
      <3>3. QED
        BY <1>1, <2>3, <2>4, <2>5, <3>2 DEF Expanded
    <2>6. S # {} => Undone(Master)'
      BY <2>1, <2>2, Names DEF Undone, SeriesOff
    <2>7. QED
      BY <2>5, <2>6
  <1>11. ASSUME ExpandSingle PROVE Still
    <2>1. /\ pc = "remove" /\ pc' = "state" /\ gone = {} /\ UNCHANGED <<rows, gone, touched>>
          /\ occ' = IF "single" \in touched
                    THEN [occ EXCEPT ![Single] = {d \in {batch[Single].date} : InWindow(d, run["pass"].day)}]
                    ELSE occ
          /\ ("series" \in touched => run'["pass"].at = "masters")
      <3>1. "series" \in touched => run' = [run EXCEPT !["pass"].at = "masters"]
        BY <1>11 DEF ExpandSingle
      <3>2. "series" \in touched => run'["pass"].at = "masters"
        BY <1>1, <3>1 DEF RunType
      <3>3. QED
        BY <1>11, <3>2 DEF ExpandSingle
    <2>2. \A q \in DOMAIN rows : q # Single => occ'[q] = occ[q]
      BY <1>1, <2>1
    <2>3. ASSUME NEW q \in DOMAIN rows, q # Single PROVE Good(q)
      <3>1. Fits(rows, occ, q) => Fits(rows', occ', q)
        BY <2>1, <2>2, <2>3, StillFits
      <3>2. Undone(q) => Undone(q)'
        BY <1>1, <2>1, <2>3 DEF Undone, SeriesOff
      <3>3. QED
        BY <1>1, <2>1, <3>1, <3>2 DEF Expanded
    <2>4. ASSUME Single \in DOMAIN rows PROVE Good(Single)
      <3>1. CASE "single" \in touched
        <4>1. rows[Single] = batch[Single] /\ rows[Single].date \in Slots
          BY <1>1, <2>4, <3>1 DEF Filed, DatedIn
        <4>2. occ'[Single] = {d \in {rows[Single].date} : InWindow(d, run["pass"].day)}
          BY <1>1, <2>1, <2>4, <3>1, <4>1
        <4>3. \A s \in Slots : InWindow(s, 0) => InWindow(s, run["pass"].day)
          BY <1>1, SlotsAssumption DEF InWindow, RunType
        <4>4. Most(rows', Single) = {rows[Single].date}
          BY <2>1, Names DEF Most
        <4>5. QED
          BY <4>1, <4>2, <4>3, <4>4 DEF Fits
      <3>2. CASE "single" \notin touched
        <4>1. ~Undone(Single)
          BY <1>1, <2>1, <3>2, Names DEF Undone
        <4>2. rows[Single].state = "live" => Fits(rows, occ, Single)
          BY <1>1, <2>4, <4>1 DEF Expanded
        <4>3. QED
          BY <2>1, <3>2, <4>2
      <3>3. QED
        BY <3>1, <3>2
    <2>5. QED
      BY <2>1, <2>3, <2>4
  <1>12. ASSUME ListRecurringEvents("pass") PROVE Still
    <2>1. /\ run["pass"].at = "masters" /\ UNCHANGED <<rows, occ, pc, touched, gone>>
      BY <1>12 DEF ListRecurringEvents, database, pass
    <2>2. run'["pass"].at = "exceptions"
      BY <1>1, <1>12, MastersListed
    <2>3. \A q \in DOMAIN rows : Undone(q) => Undone(q)'
      BY <2>1, <2>2 DEF Undone, SeriesOff
    <2>4. QED
      BY <1>1, <2>1, <2>3 DEF Expanded
  <1>13. ASSUME ListEventExceptions("pass") PROVE Still
    <2>1. /\ run["pass"].at = "exceptions" /\ UNCHANGED <<rows, occ, pc, touched, gone>>
      BY <1>13 DEF ListEventExceptions, database, pass
    <2>2. PICK exc, left : exc = ExceptionsIn(rows) /\ left = DOMAIN exc \cup (IF run["pass"].found = "yes" THEN {Master} ELSE {})
      OBVIOUS
    <2>3. /\ left = {} => run'["pass"] = Idle
          /\ left # {} => run'["pass"].at = "write" /\ run'["pass"].left = left
      <3>1. PICK z : z = [at |-> "write", day |-> run["pass"].day, found |-> run["pass"].found, exc |-> exc, left |-> left]
        OBVIOUS
      <3>2. /\ left = {} => run' = [run EXCEPT !["pass"] = Idle]
            /\ left # {} => run' = [run EXCEPT !["pass"] = z]
        BY <1>1, <1>13, <2>2, <3>1, ExceptionsListed
      <3>3. QED
        BY <1>1, <3>1, <3>2
    <2>4. InSight("pass")
      BY <1>1 DEF Fitting
    <2>5. \A q \in DOMAIN rows : q # Single /\ rows[q].state = "live" => q \in left
      <3>1. DOMAIN exc = DOMAIN rows \cap Exceptions
        BY <1>1, <2>2, ExceptionRows
      <3>2. Master \in DOMAIN rows /\ rows[Master].state = "live" => Master \in left
        BY <2>1, <2>2, <2>4 DEF InSight, FoundIn
      <3>3. QED
        BY <1>1, <2>2, <3>1, <3>2, Names
    <2>6. \A q \in DOMAIN rows : q # Single /\ rows[q].state = "live" => Undone(q)'
      BY <2>3, <2>5 DEF Undone
    <2>7. Undone(Single) => Undone(Single)'
      BY <2>1, Names DEF Undone
    <2>8. QED
      BY <1>1, <2>1, <2>6, <2>7 DEF Expanded
  <1>14. ASSUME NEW w \in Workers, NEW r \in Rows, ReplaceOccurrences(w, r) PROVE Still
    <2>1. /\ run[w].at = "write" /\ UNCHANGED <<rows, pc, touched, gone>>
          /\ \A q \in DOMAIN rows : q # r => occ'[q] = occ[q]
      BY <1>1, <1>14 DEF ReplaceOccurrences, pass
    <2>2. r \in DOMAIN rows /\ rows[r].state = "live" => Fits(rows', occ', r)
      BY <1>1, <1>14, WritesFit
    <2>3. ASSUME NEW q \in DOMAIN rows, q # r PROVE Undone(q) => Undone(q)'
      <3>1. CASE w = "pass"
        <4>1. PICK z : z = [at |-> run[w].at, day |-> run[w].day, found |-> run[w].found,
                            exc |-> run[w].exc, left |-> run[w].left \ {r}]
          OBVIOUS
        <4>2. /\ run[w].left = {r} => run' = [run EXCEPT ![w] = Idle]
              /\ run[w].left # {r} => run' = [run EXCEPT ![w] = z]
          BY <1>1, <1>14, <4>1, RowWritten
        <4>3. run[w].left # {r} => run'[w].at = "write" /\ run'[w].left = run[w].left \ {r}
          BY <1>1, <2>1, <4>1, <4>2
        <4>4. QED
          BY <2>1, <2>3, <3>1, <4>3 DEF Undone, SeriesOff
      <3>2. CASE w = "daily"
        <4>1. run' = [run EXCEPT !["daily"] = run'["daily"]]
          <5>1. \E z : run' = [run EXCEPT !["daily"] = z]
            BY <1>14, <3>2 DEF ReplaceOccurrences
          <5>2. QED
            BY <1>1, <5>1
        <4>2. run'["pass"] = run["pass"]
          BY <1>1, <4>1
        <4>3. QED
          BY <2>1, <4>2 DEF Undone, SeriesOff
      <3>3. QED
        BY <1>1, <3>1, <3>2
    <2>4. ASSUME NEW q \in DOMAIN rows, q # r PROVE Good(q)
      <3>1. Fits(rows, occ, q) => Fits(rows', occ', q)
        BY <2>1, <2>4, StillFits
      <3>2. QED
        BY <1>1, <2>1, <2>3, <2>4, <3>1 DEF Expanded
    <2>5. QED
      BY <2>1, <2>2, <2>4
  <1>15. ASSUME ListRecurringEvents("daily") \/ ListEventExceptions("daily") PROVE Still
    <2>1. UNCHANGED <<rows, occ, pc, touched, gone>>
      BY <1>15 DEF ListRecurringEvents, ListEventExceptions, database, pass
    <2>2. \E z : run' = [run EXCEPT !["daily"] = z]
      BY <1>15 DEF ListRecurringEvents, ListEventExceptions
    <2>3. run'["pass"] = run["pass"]
      BY <1>1, <2>2
    <2>4. QED
      BY <1>2, <2>1, <2>3
  <1>16. ASSUME UNCHANGED vars \/ Unlist \/ Relist \/ NextDay \/ Edit PROVE Still
    <2>1. CASE Edit
      <3>1. UNCHANGED <<rows, occ, pc, touched, gone, run>>
        BY <1>1, <2>1, Edits DEF database, pass
      <3>2. QED
        BY <1>2, <3>1
    <2>2. CASE UNCHANGED vars \/ Unlist \/ Relist \/ NextDay
      <3>1. UNCHANGED <<rows, occ, pc, touched, gone, run>>
        BY <2>2 DEF vars, Unlist, Relist, NextDay, database, pass
      <3>2. QED
        BY <1>2, <3>1
    <2>3. QED
      BY <1>16, <2>1, <2>2
  <1>17. ASSUME ReexpandAll \/ ReexpandDies PROVE Still
    <2>1. UNCHANGED <<rows, occ, pc, touched, gone>>
      BY <1>17 DEF ReexpandAll, ReexpandDies, database, pass
    <2>2. \E z : run' = [run EXCEPT !["daily"] = z]
      BY <1>17 DEF ReexpandAll, ReexpandDies
    <2>3. run'["pass"] = run["pass"]
      BY <1>1, <2>2
    <2>4. QED
      BY <1>2, <2>1, <2>3
  <1> HIDE DEF Still
  <1>18. Still
    BY <1>1, <1>5, <1>6, <1>7, <1>8, <1>9, <1>10, <1>11, <1>12, <1>13, <1>14, <1>15, <1>16, <1>17, Steps
  <1>19. QED
    BY <1>18 DEF Still, Expanded


\* Every step keeps the agenda fitting the rows.
LEMMA FittingKept ==
    ASSUME IInv, IInv', Fitting, [Next]_vars
    PROVE  Fitting'
  <1>1. SUFFICES ASSUME calm' = "yes"
                 PROVE  /\ Apart' /\ Expanded' /\ \A w \in Workers : InSight(w)'
                        /\ run'["pass"].at # "idle" => "series" \in touched'
    BY DEF Fitting, Workers
  <1>2. Apart' /\ Expanded' /\ \A w \in Workers : InSight(w)'
    BY <1>1, ApartKept, ExpandedKept, InSightKept
  <1>3. QED
    BY <1>1, <1>2, SeriesKept

\* Rows of the provider carry their dates, and those it makes of the series are there
\* only as long as the series is.
LEMMA Carried ==
    ASSUME IInv, NEW r \in Rows, OnServer(r)
    PROVE  /\ Carrier(r) \in Items /\ OnServer(Carrier(r)) /\ r \in RowsOf(Carrier(r))
           /\ stamp[Carrier(r)] > 0 /\ stamp[Carrier(r)] <= clock
  <1>1. /\ TypeOK /\ Stamped /\ Possible(kind, srv) /\ kind \in {"google", "inline"}
        /\ srv.inst \in [Slots -> {"none", "moved", "cancelled"}] /\ srv.series \in {"live", "gone"}
    BY ProvidersAssumption DEF IInv, Typed, Stamped, TypeOK, Servers
  <1>2. Carrier(r) \in Items /\ r \in RowsOf(Carrier(r)) /\ Carrier(r) \in Rows
    BY Objects DEF RowsOf
  <1>3. OnServer(Carrier(r))
    <2>1. CASE r \in Items
      BY <2>1, Objects
    <2>2. CASE r \notin Items
      <3>1. Carrier(r) = Master /\ r \in Exceptions
        BY <2>2, Objects, Names
      <3>2. r \in Exceptions \ Derived => kind = "inline"
        BY <1>1, <2>2, Objects
      <3>3. On(kind, srv, r) => srv.series = "live"
        BY <1>1, <3>1, <3>2, Names DEF On, Possible
      <3>4. On(kind, srv, Master)
        BY <3>3, Served DEF On
      <3>5. QED
        BY <3>1, <3>4, Served, Names
    <2>3. QED
      BY <2>1, <2>2
  <1>4. QED
    BY <1>1, <1>2, <1>3 DEF Stamped

\* exdate.go: an exclusion hides its meeting for as long as the master carries it, and
\* dropping it can never revive or discard an instance: once passes that nothing came
\* between have caught up, the agenda shows the provider's meetings and no others.
THEOREM AgendaTrue == Spec => []AgendaMatches
  <1>1. Init => Fitting
    <2> SUFFICES ASSUME Init PROVE Fitting
      OBVIOUS
    <2>1. DOMAIN rows = {} /\ \A w \in Workers : run[w].at = "idle"
      BY Exceptional DEF Init, Empty
    <2>2. {"pass", "daily"} = Workers
      BY DEF Workers
    <2>3. QED
      BY <2>1, <2>2 DEF Fitting, Apart, Expanded, InSight
  <1>2. Init => IInv
    BY InitHolds
  <1>3. IInv /\ Fitting /\ [Next]_vars => (IInv /\ Fitting)'
    BY IInvKept, FittingKept
  <1>4. IInv /\ Fitting => AgendaMatches
    <2>1. SUFFICES ASSUME IInv, Fitting, pc = "idle", run["daily"].at = "idle", token = clock,
                          calm = "yes", whole = "yes", Lingering = {}
                   PROVE  /\ Agenda \subseteq Meetings
                          /\ \A m \in Meetings : InWindow(m[2], 0) => m \in Agenda
      BY DEF AgendaMatches
    <2>2. /\ TypeOK /\ Filed /\ Phased /\ DOMAIN rows \subseteq Rows /\ kind \in {"google", "inline"}
          /\ srv.inst \in [Slots -> {"none", "moved", "cancelled"}] /\ srv.single \in Slots \cup {0}
          /\ srv.excl \subseteq Slots /\ Expanded /\ occ \in [DOMAIN rows -> SUBSET Slots]
      BY <2>1, ProvidersAssumption DEF IInv, Typed, TypeOK, Servers, Fitting
    <2>3. \A r \in Rows : OnServer(r) => Current(r)
      <3> SUFFICES ASSUME NEW r \in Rows, OnServer(r) PROVE Current(r)
        OBVIOUS
      <3>1. PICK i \in Items : i = Carrier(r)
        BY <2>1, Carried
      <3>2. OnServer(i) /\ r \in RowsOf(i) /\ stamp[i] > 0 /\ stamp[i] <= token
        BY <2>1, <3>1, Carried
      <3>3. Applied(i)
        BY <2>1, <3>2 DEF IInv, Earned, TokenIsEarned
      <3>4. QED
        BY <3>2, <3>3 DEF Applied
    <2>4. \A r \in DOMAIN rows : rows[r].state = "live" => OnServer(r) /\ rows[r] = Event(r) /\ Fits(rows, occ, r)
      <3> SUFFICES ASSUME NEW r \in DOMAIN rows, rows[r].state = "live"
                   PROVE  OnServer(r) /\ rows[r] = Event(r) /\ Fits(rows, occ, r)
        OBVIOUS
      <3>1. OnServer(r) /\ r \in Rows
        BY <2>1, <2>2 DEF Lingering
      <3>2. ~Undone(r)
        BY <2>1, <2>2 DEF Undone, SeriesOff, Phased
      <3>3. QED
        BY <2>2, <2>3, <3>1, <3>2 DEF Current, Expanded
    <2>5. \A r \in Rows : OnServer(r) => r \in DOMAIN rows /\ rows[r] = Event(r) /\ rows[r].state = "live" /\ Fits(rows, occ, r)
      <3> SUFFICES ASSUME NEW r \in Rows, OnServer(r)
                   PROVE  r \in DOMAIN rows /\ rows[r] = Event(r) /\ rows[r].state = "live" /\ Fits(rows, occ, r)
        OBVIOUS
      <3>1. r \in DOMAIN rows /\ rows[r] = Event(r)
        BY <2>3 DEF Current
      <3>2. Event(r).state = "live"
        BY <2>2, Events
      <3>3. QED
        BY <2>4, <3>1, <3>2
    <2>6. \A r \in Rows : Event(r).date = IF r = Single THEN srv.single ELSE r[2]
      BY DEF Event
    <2>7. \A r \in Exceptions : (Event(r).status = "confirmed") <=>
             /\ r \notin Derived /\ srv.inst[r[2]] # "cancelled"
             /\ ~(kind = "inline" /\ r[2] \in srv.excl)
      BY DEF Event
    <2>8. \A r \in Rows : OnServer(r) <=> On(kind, srv, r)
      BY Served
    <2>9. /\ Master[1] = "master" /\ Single[1] = "single" /\ Master \in Rows /\ Single \in Rows
          /\ \A r \in Exceptions \ Derived : r[1] = "inst" /\ r \in Rows
          /\ Exceptions \subseteq Rows
      BY Names DEF Master, Single, Inst
    <2>10. \A s \in Slots : s \in Held(rows) <=> (s \in srv.excl /\ (kind = "google" => srv.series = "live")) \/ srv.inst[s] # "none"
      <3> SUFFICES ASSUME NEW s \in Slots
                   PROVE  s \in Held(rows) <=> (s \in srv.excl /\ (kind = "google" => srv.series = "live"))
                                               \/ srv.inst[s] # "none"
        OBVIOUS
      <3>1. ASSUME s \in Held(rows) PROVE (s \in srv.excl /\ (kind = "google" => srv.series = "live")) \/ srv.inst[s] # "none"
        <4>1. PICK q \in DOMAIN rows \cap Exceptions : q[2] = s
          BY <3>1 DEF Held
        <4>2. OnServer(q)
          BY <2>2, <2>4, <4>1 DEF Filed
        <4>3. On(kind, srv, q)
          BY <2>8, <2>9, <4>1, <4>2
        <4>4. QED
          BY <2>2, <4>1, <4>3, Names DEF On
      <3>2. ASSUME s \in srv.excl, kind = "google" => srv.series = "live" PROVE s \in Held(rows)
        <4>1. kind = "google" => On(kind, srv, Exdate(s))
          BY <3>2, Names DEF On
        <4>2. kind = "inline" => On(kind, srv, Inst(s))
          BY <3>2, Names DEF On
        <4>3. Exdate(s) \in DOMAIN rows \/ Inst(s) \in DOMAIN rows
          BY <2>2, <2>5, <2>8, <2>9, <4>1, <4>2, Names
        <4>4. QED
          BY <4>3, Names DEF Held
      <3>3. ASSUME srv.inst[s] # "none" PROVE s \in Held(rows)
        <4>1. On(kind, srv, Inst(s))
          BY <3>3, Names DEF On
        <4>2. Inst(s) \in DOMAIN rows
          BY <2>5, <2>8, <2>9, <4>1, Names
        <4>3. QED
          BY <4>2, Names DEF Held
      <3>4. QED
        BY <3>1, <3>2, <3>3
    <2>11. Agenda \subseteq Meetings
      <3> SUFFICES ASSUME NEW r \in DOMAIN rows, rows[r].state = "live", NEW d \in occ[r]
                   PROVE  <<r[1], d>> \in Meetings
        BY DEF Agenda
      <3>1. r \in Rows /\ OnServer(r) /\ rows[r] = Event(r) /\ d \in Most(rows, r) /\ On(kind, srv, r)
        BY <2>2, <2>4, <2>8 DEF Fits
      <3>2. CASE r = Master
        <4>1. d \in Slots /\ d \notin Held(rows)
          BY <3>1, <3>2 DEF Most
        <4>2. srv.series = "live"
          BY <3>1, <3>2, Names DEF On
        <4>3. d \notin srv.excl /\ srv.inst[d] = "none"
          BY <2>10, <4>1, <4>2
        <4>4. QED
          BY <2>9, <3>2, <4>1, <4>2, <4>3 DEF Meetings
      <3>3. CASE r = Single
        <4>1. d = srv.single /\ srv.single # 0
          BY <2>6, <3>1, <3>3, Names DEF Most, On
        <4>2. QED
          BY <2>9, <3>3, <4>1 DEF Meetings
      <3>4. CASE r \in Exceptions
        <4>1. Event(r).status = "confirmed" /\ d = r[2]
          BY <2>6, <3>1, <3>4, Names DEF Most
        <4>2. r \notin Derived /\ srv.inst[d] = "moved" /\ (kind = "inline" => d \notin srv.excl) /\ d \in Slots
          BY <2>2, <2>7, <3>1, <3>4, <4>1, Names DEF On
        <4>3. QED
          BY <2>9, <3>4, <4>2 DEF Meetings
      <3>5. QED
        BY <3>1, <3>2, <3>3, <3>4, Names
    <2>12. ASSUME NEW m \in Meetings, InWindow(m[2], 0) PROVE m \in Agenda
      <3>1. ASSUME NEW r \in Rows, NEW d, OnServer(r), d \in Most(rows, r), InWindow(d, 0)
            PROVE  <<r[1], d>> \in Agenda
        <4>1. r \in DOMAIN rows /\ rows[r].state = "live" /\ d \in occ[r]
          BY <2>5, <3>1 DEF Fits
        <4>2. QED
          BY <4>1 DEF Agenda
      <3>2. ASSUME NEW s \in Slots, m = <<"master", s>>, srv.series = "live", s \notin srv.excl,
                   srv.inst[s] = "none"
            PROVE  m \in Agenda
        <4>1. On(kind, srv, Master)
          BY <3>2 DEF On
        <4>2. s \in Most(rows, Master)
          BY <2>10, <3>2 DEF Most
        <4>3. m[2] = s
          BY <3>2
        <4>4. QED
          BY <2>8, <2>9, <2>12, <3>1, <3>2, <4>1, <4>2, <4>3
      <3>3. ASSUME NEW s \in Slots, m = <<"inst", s>>, srv.inst[s] = "moved",
                   kind = "inline" => s \notin srv.excl
            PROVE  m \in Agenda
        <4>1. On(kind, srv, Inst(s)) /\ Inst(s) \in Exceptions \ Derived /\ Inst(s)[2] = s
          BY <3>3, Names DEF On
        <4>2. Event(Inst(s)).status = "confirmed" /\ Event(Inst(s)).date = s
          BY <2>6, <2>7, <2>9, <3>3, <4>1, Names
        <4>3. rows[Inst(s)] = Event(Inst(s)) /\ OnServer(Inst(s))
          BY <2>5, <2>8, <2>9, <4>1
        <4>4. s \in Most(rows, Inst(s))
          BY <4>1, <4>2, <4>3, Names DEF Most
        <4>5. m[2] = s /\ Inst(s)[1] = "inst"
          BY <2>9, <3>3, <4>1
        <4>6. QED
          BY <2>9, <2>12, <3>1, <3>3, <4>1, <4>3, <4>4, <4>5
      <3>4. ASSUME m = <<"single", srv.single>>, srv.single # 0 PROVE m \in Agenda
        <4>1. On(kind, srv, Single)
          BY <3>4 DEF On
        <4>2. rows[Single] = Event(Single) /\ Event(Single).date = srv.single
          BY <2>5, <2>6, <2>8, <2>9, <4>1
        <4>3. srv.single \in Most(rows, Single)
          BY <4>2, Names DEF Most
        <4>4. m[2] = srv.single
          BY <3>4
        <4>5. QED
          BY <2>8, <2>9, <2>12, <3>1, <3>4, <4>1, <4>3, <4>4
      <3>5. QED
        BY <3>2, <3>3, <3>4 DEF Meetings
    <2>13. QED
      BY <2>11, <2>12
  <1>5. QED
    BY <1>1, <1>2, <1>3, <1>4, PTL DEF Spec
=============================================================================
