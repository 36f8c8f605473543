----------------------------- MODULE CalendarSync -----------------------------
(***************************************************************************)
(* One calendar of one account: the passes that bring its events into the  *)
(* index and expand them into occurrences (internal/sync/calendar.go,      *)
(* internal/store/calendar.go, internal/calendar/expand.go), and the daily *)
(* re-expansion, which runs beside them without the account's lock         *)
(* (internal/sync/watch.go).                                               *)
(*                                                                         *)
(* The calendar holds a recurring event, with a meeting on each of Slots,  *)
(* and a single event on one of these dates.  An instance of the series    *)
(* may be moved (to another hour of its date), cancelled or excluded.      *)
(* Google gives instances rows of their own and the engine derives rows    *)
(* from exclusions; CalDAV and JMAP keep all of them inside the series     *)
(* and name the rows made of them after it.                                *)
(***************************************************************************)
EXTENDS Integers, FiniteSets

CONSTANTS
    Slots,      \* the dates of the calendar, numbered in order
    Reach,      \* dates up to this one are in the window on the first day
    Days,       \* bound: how many days pass
    Providers,  \* of {"google", "inline"}
    Starts,     \* the calendars there may be on the first day
    Edited,     \* bound: the dates whose instances change
    MaxEdits,   \* bound: changes made to the calendar after the first day
    MaxAborts,  \* bound: passes and re-expansions that die
    MaxDrops,   \* bound: how often the calendar leaves the list
    MaxAll      \* bound: how many of all these happen in one behaviour

ASSUME SlotsAssumption == Slots \subseteq Nat \ {0} /\ Reach \in Nat
ASSUME ProvidersAssumption ==
    Providers \subseteq {"google", "inline"}
ASSUME CalendarBounds ==
    /\ Edited \subseteq Slots
    /\ Days \in Nat /\ MaxEdits \in Nat /\ MaxAborts \in Nat /\ MaxDrops \in Nat
    /\ MaxAll \in Nat

\* Events by remote id, with the date they stand for; the date of the single
\* event is part of its content.
Master    == <<"master", 0>>
Single    == <<"single", 0>>
Inst(s)   == <<"inst", s>>          \* an instance with a row of its own
Exdate(s) == <<"exdate", s>>        \* DerivedRemoteID
Derived   == {Exdate(s) : s \in Slots}
Exceptions == {Inst(s) : s \in Slots} \cup Derived
Rows      == {Master, Single} \cup Exceptions
Workers   == {"pass", "daily"}

\* Rows are handled one after the other: the series, the single event, the
\* exceptions by date.  A provider may list events in another order, but until
\* the last of them is stored no step of a pass looks at two of them.
Rank(r) == CASE r = Master -> 0 [] r = Single -> 1
             [] r \in Derived -> 2 * r[2] + 1 [] OTHER -> 2 * r[2]
First(r, S) == r \in S /\ \A q \in S : Rank(r) <= Rank(q)

VARIABLES
    \* the provider
    kind,     \* which provider it is
    srv,      \* the calendar there
    stamp,    \* when each of its items changed last
    clock,    \* the number of changes so far
    wanted,   \* the provider lists the calendar and the account selects it
    \* the database
    rows,     \* events: the rows there are, by remote id
    occ,      \* event_occurrences of each row, by date
    token,    \* sync_state of the calendar, 0 when there is none
    \* the pass
    pc, upto, ids, gone, batch, todo, touched, full,
    \* calRun of the pass and of the daily re-expansion
    run,
    now,      \* the day
    \* bookkeeping of the model
    calm,     \* "no" once a pass died or met a re-expansion
    whole,    \* "no" since the calendar left the list, until listed in full
    relisted, \* "yes" once an inline calendar with events here was listed in full
    aborts, drops

provider == <<kind, srv, stamp, clock, wanted>>
database == <<rows, occ, token>>
pass     == <<pc, upto, ids, gone, batch, todo, touched, full>>
history  == <<calm, whole, relisted, aborts, drops>>
vars == <<provider, database, pass, run, now, history>>

Room == (clock - 1) + aborts + drops + now < MaxAll

Empty == [r \in {} |-> r]
Put(f, r, v) == [q \in DOMAIN f \cup {r} |-> IF q = r THEN v ELSE f[q]]
Without(f, S) == [q \in DOMAIN f \ S |-> f[q]]

-----------------------------------------------------------------------------
(* What the provider holds and how it names it.                            *)

Servers == [series : {"live", "gone"}, excl : SUBSET Slots,
            inst : [Slots -> {"none", "moved", "cancelled"}],
            single : Slots \cup {0}]            \* its date, 0 when gone
ASSUME StartsAssumption == Starts \subseteq Servers

\* A calendar a provider may hold: only Google keeps cancelled instances, and
\* a deleted series has nothing left but them.
Possible(k, v) ==
    /\ k = "inline" => \A s \in Slots : v.inst[s] # "cancelled"
    /\ v.series = "gone" => v.excl = {} /\ \A s \in Slots : v.inst[s] # "moved"

\* Objects the change journal speaks of.
Items == {Master, Single} \cup (IF kind = "google" THEN {Inst(s) : s \in Slots} ELSE {})

\* The rows a provider makes of the calendar it holds.
OnServer(r) ==
    CASE r = Master -> srv.series = "live"
      [] r = Single -> srv.single # 0
      [] r \in Derived -> kind = "google" /\ srv.series = "live" /\ r[2] \in srv.excl
      [] OTHER -> \/ srv.inst[r[2]] # "none"
                  \/ kind = "inline" /\ r[2] \in srv.excl

\* The object a row is made of.
Carrier(r) == IF r \in Items THEN r ELSE Master

\* A row as UpsertEventChanged compares it; rev stands for raw_json and
\* updated_utc, which change with the object.
Event(r) ==
    [rev |-> stamp[Carrier(r)],
     date |-> IF r = Single THEN srv.single ELSE r[2],
     status |-> IF \/ r \in Derived
                   \/ r \in Exceptions /\ srv.inst[r[2]] = "cancelled"
                   \/ r \in Exceptions /\ kind = "inline" /\ r[2] \in srv.excl
                THEN "cancelled" ELSE "confirmed",
     state |-> "live"]

\* parseObject, mapEvent with excludedInstances, toModelEvents.
RowsOf(i) == {r \in Rows : Carrier(r) = i /\ OnServer(r)}

-----------------------------------------------------------------------------
(* Expansion.                                                              *)

\* DefaultWindow: only its far end matters to the model.
InWindow(d, day) == d <= day + Reach

\* ApplyExceptions, and expandSeries without a master.  A row with a
\* recurrence id hides its slot, whatever its own state; it shows its own
\* date unless it is cancelled or deleted.
Shows(x, r) ==
    IF r = Master
    THEN {s \in Slots : InWindow(s, x.day)} \ {q[2] : q \in DOMAIN x.exc}
    ELSE {d \in {x.exc[r].date} :
            /\ x.exc[r].status = "confirmed" /\ x.exc[r].state = "live"
            /\ x.found = "yes" \/ InWindow(d, x.day)}

Idle == [at |-> "idle", day |-> 0, found |-> "no", exc |-> Empty, left |-> {}]

FoundIn(r) == IF Master \in DOMAIN r /\ r[Master].state = "live" THEN "yes" ELSE "no"
ExceptionsIn(r) == Without(r, {Master, Single})

-----------------------------------------------------------------------------
Init ==
    /\ kind \in Providers /\ srv \in {v \in Starts : Possible(kind, v)}
    /\ stamp = [i \in {Master, Single} \cup {Inst(s) : s \in Slots} |->
                  IF OnServer(i) THEN 1 ELSE 0]
    /\ clock = 1 /\ wanted = "yes"
    /\ rows = Empty /\ occ = Empty /\ token = 0
    /\ pc = "idle" /\ upto = 0 /\ ids = {} /\ gone = {} /\ batch = Empty
    /\ todo = {} /\ touched = {} /\ full = "no"
    /\ run = [w \in Workers |-> Idle] /\ now = 0
    /\ calm = "yes" /\ whole = "yes" /\ relisted = "no" /\ aborts = 0 /\ drops = 0

-----------------------------------------------------------------------------
(* The pass, syncCalendar and syncOneCalendar for this calendar.           *)

\* A calendar that is no longer wanted goes with its events and their
\* occurrences; a re-expansion at work on them has nothing left to write to.
ReplaceCalendars ==
    /\ pc = "idle"
    /\ \/ /\ wanted = "yes" /\ pc' = "changes"
          /\ calm' = IF run["daily"].at = "idle" THEN calm ELSE "no"
          /\ UNCHANGED <<rows, occ, run, whole>>
       \/ /\ wanted = "no" /\ pc' = "idle"
          /\ rows' = Empty /\ occ' = Empty
          /\ run' = [run EXCEPT !["daily"] = Idle]
          /\ whole' = "no" /\ calm' = calm
    /\ UNCHANGED <<provider, token, upto, ids, gone, batch, todo, touched, full, now,
                   relisted, aborts, drops>>

\* What has changed, and the position the next delta starts at.  A pass lists
\* everything when it has no token, when asked to and when its token expired;
\* Google's listings name the deleted events too, the others' do not.
EventChanges(f) ==
    /\ pc = "changes" /\ (token = 0 => f = "yes")
    /\ LET since == IF f = "yes" THEN 0 ELSE token
           New(i) == stamp[i] > since
       IN /\ ids' = {i \in Items : New(i) /\ OnServer(i)}
          /\ gone' = IF kind = "inline" /\ since = 0 THEN {}
                     ELSE {i \in {Master, Single} : New(i) /\ ~OnServer(i)}
    /\ upto' = clock /\ full' = f /\ pc' = "fetch"
    /\ relisted' = IF kind = "inline" /\ f = "yes" /\ rows # Empty
                 THEN "yes" ELSE relisted
    /\ UNCHANGED <<provider, database, batch, todo, touched, run, now, calm, whole, aborts, drops>>

\* Mutant of FetchObjects: the position is read after the listing.
FetchObjects_LateState ==
    /\ pc = "fetch"
    /\ batch' = [r \in UNION {RowsOf(i) : i \in ids} |-> Event(r)]
    /\ todo' = DOMAIN batch' /\ upto' = clock
    /\ run' = [run EXCEPT !["pass"] = [Idle EXCEPT !.day = now]]
    /\ pc' = "upsert" /\ ids' = {}
    /\ UNCHANGED <<provider, database, gone, touched, full, now, history>>

\* The events come after, and may be newer; one that is gone by then is left
\* to the next delta.
FetchObjects ==
    /\ pc = "fetch"
    /\ LET found == UNION {RowsOf(i) : i \in ids}
       IN batch' = [r \in found |-> Event(r)] /\ todo' = found
    /\ run' = [run EXCEPT !["pass"] = [Idle EXCEPT !.day = now]]
    /\ pc' = "upsert" /\ ids' = {}
    /\ UNCHANGED <<provider, database, upto, gone, touched, full, now, history>>

\* Mutant of UpsertEvent: only masters have their series expanded again.
UpsertEvent_MasterOnly(r) ==
    /\ pc = "upsert" /\ First(r, todo)
    /\ rows' = Put(rows, r, batch[r])
    /\ occ' = IF r \in DOMAIN rows THEN occ ELSE Put(occ, r, {})
    /\ touched' = IF r \in DOMAIN rows /\ rows[r] = batch[r] THEN touched
                  ELSE touched \cup (IF r = Master THEN {"series"}
                                     ELSE IF r = Single THEN {"single"} ELSE {})
    /\ todo' = todo \ {r}
    /\ UNCHANGED <<provider, token, pc, upto, ids, gone, batch, full, run, now, history>>

\* One event, in a transaction of its own.
UpsertEvent(r) ==
    /\ pc = "upsert" /\ First(r, todo)
    /\ LET changed == r \notin DOMAIN rows \/ rows[r] # batch[r]
       IN /\ rows' = Put(rows, r, batch[r])
          /\ occ' = IF r \in DOMAIN rows THEN occ ELSE Put(occ, r, {})
          /\ touched' = touched \cup (IF ~changed THEN {}
                                      ELSE IF r = Single THEN {"single"} ELSE {"series"})
    /\ todo' = todo \ {r}
    /\ UNCHANGED <<provider, token, pc, upto, ids, gone, batch, full, run, now, history>>

\* Rows derived from a master that came without them go, in one transaction.
PruneEventRows ==
    /\ pc = "upsert" /\ todo = {}
    /\ LET stale == IF Master \in DOMAIN batch \cup gone
                    THEN (Derived \cap DOMAIN rows) \ DOMAIN batch ELSE {}
       IN /\ rows' = Without(rows, stale) /\ occ' = Without(occ, stale)
          /\ touched' = IF stale # {} /\ Master \in DOMAIN batch
                        THEN touched \cup {"series"} ELSE touched
    /\ pc' = "remove"
    /\ UNCHANGED <<provider, token, upto, ids, gone, batch, todo, full, run, now, history>>

MarkEventDeleted(r) ==
    /\ pc = "remove" /\ First(r, gone)
    /\ IF r \in DOMAIN rows
       THEN /\ rows' = [rows EXCEPT ![r].state = "deleted"]
            /\ occ' = [occ EXCEPT ![r] = {}]
            /\ touched' = IF r = Single THEN touched ELSE touched \cup {"series"}
       ELSE UNCHANGED <<rows, occ, touched>>
    /\ gone' = gone \ {r}
    /\ UNCHANGED <<provider, token, pc, upto, ids, batch, todo, full, run, now, history>>

\* expandSingle, with the event as it came; then the series, if touched.
ExpandSingle ==
    /\ pc = "remove" /\ gone = {}
    /\ occ' = IF "single" \in touched
              THEN [occ EXCEPT ![Single] =
                      {d \in {batch[Single].date} : InWindow(d, run["pass"].day)}]
              ELSE occ
    /\ run' = IF "series" \in touched THEN [run EXCEPT !["pass"].at = "masters"] ELSE run
    /\ pc' = "state"
    /\ UNCHANGED <<provider, rows, token, upto, ids, gone, batch, todo, touched, full, now, history>>

SetState ==
    /\ pc = "state" /\ run["pass"].at = "idle"
    /\ token' = upto /\ pc' = "idle"
    /\ whole' = IF full = "yes" THEN "yes" ELSE whole
    /\ upto' = 0 /\ batch' = Empty /\ touched' = {} /\ full' = "no"
    /\ run' = [run EXCEPT !["pass"] = Idle]
    /\ UNCHANGED <<provider, rows, occ, ids, gone, todo, now, calm, relisted, aborts, drops>>

\* A provider's error, the daemon's end or a crash.
Abort ==
    /\ pc # "idle" /\ aborts < MaxAborts /\ Room
    /\ pc' = "idle" /\ upto' = 0 /\ ids' = {} /\ gone' = {} /\ batch' = Empty
    /\ todo' = {} /\ touched' = {} /\ full' = "no"
    /\ run' = [run EXCEPT !["pass"] = Idle]
    /\ calm' = IF pc \in {"changes", "fetch"} THEN calm ELSE "no"
    /\ aborts' = aborts + 1
    /\ UNCHANGED <<provider, database, now, whole, relisted, drops>>

-----------------------------------------------------------------------------
(* calRun, for the pass and for ReexpandAll: two reads, then a transaction *)
(* per row.                                                                *)

ListRecurringEvents(w) ==
    /\ run[w].at = "masters"
    /\ run' = [run EXCEPT ![w].found = FoundIn(rows), ![w].at = "exceptions"]
    /\ UNCHANGED <<provider, database, pass, now, history>>

ListEventExceptions(w) ==
    /\ run[w].at = "exceptions"
    /\ LET exc == ExceptionsIn(rows)
           left == DOMAIN exc \cup (IF run[w].found = "yes" THEN {Master} ELSE {})
       IN run' = [run EXCEPT ![w] = IF left = {} THEN Idle ELSE
                                    [@ EXCEPT !.exc = exc, !.left = left, !.at = "write"]]
    /\ UNCHANGED <<provider, database, pass, now, history>>

\* The master first.  A row that is gone by now was a derived one, and those
\* show nothing: replacing its occurrences does nothing and is no error.
ReplaceOccurrences(w, r) ==
    /\ run[w].at = "write" /\ First(r, run[w].left)
    /\ occ' = IF r \in DOMAIN rows THEN [occ EXCEPT ![r] = Shows(run[w], r)] ELSE occ
    /\ run' = [run EXCEPT ![w] = IF run[w].left = {r} THEN Idle
                                 ELSE [run[w] EXCEPT !.left = @ \ {r}]]
    /\ UNCHANGED <<provider, rows, token, pass, now, history>>

Expand(w) == \/ ListRecurringEvents(w) \/ ListEventExceptions(w)
             \/ \E r \in Rows : ReplaceOccurrences(w, r)

\* Mutant of ReexpandAll: the window stays where it was on the first day.
ReexpandAll_FixedWindow ==
    /\ run["daily"].at = "idle"
    /\ run' = [run EXCEPT !["daily"] = [Idle EXCEPT !.at = "masters"]]
    /\ calm' = IF pc = "idle" THEN calm ELSE "no"
    /\ UNCHANGED <<provider, database, pass, now, whole, relisted, aborts, drops>>

\* watch.go runs it on a ticker of its own, without the account's lock.
ReexpandAll ==
    /\ run["daily"].at = "idle"
    /\ run' = [run EXCEPT !["daily"] = [Idle EXCEPT !.at = "masters", !.day = now]]
    /\ calm' = IF pc = "idle" THEN calm ELSE "no"
    /\ UNCHANGED <<provider, database, pass, now, whole, relisted, aborts, drops>>

ReexpandDies ==
    /\ run["daily"].at # "idle" /\ aborts < MaxAborts /\ Room
    /\ run' = [run EXCEPT !["daily"] = Idle] /\ aborts' = aborts + 1
    /\ UNCHANGED <<provider, database, pass, now, calm, whole, relisted, drops>>

-----------------------------------------------------------------------------
(* The rest of the world.                                                  *)

Change(v, items) ==
    /\ clock <= MaxEdits /\ Room /\ v # srv /\ Possible(kind, v)
    /\ srv' = v /\ clock' = clock + 1
    /\ stamp' = [i \in DOMAIN stamp |-> IF i \in items THEN clock + 1 ELSE stamp[i]]
    /\ UNCHANGED <<kind, wanted, database, pass, run, now, history>>

\* An exclusion is set or lifted.
Exclude(s) ==
    /\ srv.series = "live"
    /\ Change([srv EXCEPT !.excl = IF s \in @ THEN @ \ {s} ELSE @ \cup {s}], {Master})

\* Google's instance objects stay once they are there.
ChangeInstance(s, v) ==
    /\ srv.series = "live" /\ (kind = "google" => v # "none")
    /\ Change([srv EXCEPT !.inst[s] = v], {Carrier(Inst(s))})

\* Google cancels the instances along with the series.
DeleteSeries ==
    /\ srv.series = "live"
    /\ LET moved == {s \in Slots : srv.inst[s] = "moved"}
       IN Change([srv EXCEPT !.series = "gone", !.excl = {},
                             !.inst = [s \in Slots |->
                                IF s \notin moved THEN srv.inst[s]
                                ELSE IF kind = "google" THEN "cancelled" ELSE "none"]],
                 {Master} \cup {Carrier(Inst(s)) : s \in moved})

RestoreSeries == srv.series = "gone" /\ Change([srv EXCEPT !.series = "live"], {Master})

ChangeSingle(d) == Change([srv EXCEPT !.single = d], {Single})

Edit == \/ \E s \in Edited : \/ Exclude(s)
                               \/ \E v \in {"none", "moved", "cancelled"} : ChangeInstance(s, v)
        \/ DeleteSeries \/ RestoreSeries
        \/ \E d \in Slots \cup {0} : ChangeSingle(d)

\* Shared no more, or left out of the configuration.
Unlist ==
    /\ wanted = "yes" /\ drops < MaxDrops /\ Room
    /\ wanted' = "no" /\ drops' = drops + 1
    /\ UNCHANGED <<kind, srv, stamp, clock, database, pass, run, now,
                   calm, whole, relisted, aborts>>

Relist ==
    /\ wanted = "no" /\ wanted' = "yes"
    /\ UNCHANGED <<kind, srv, stamp, clock, database, pass, run, now, history>>

NextDay ==
    /\ now < Days /\ Room /\ now' = now + 1
    /\ UNCHANGED <<provider, database, pass, run, history>>

Pass == \/ ReplaceCalendars
        \/ \E f \in {"yes", "no"} : EventChanges(f)
        \/ FetchObjects
        \/ \E r \in Rows : UpsertEvent(r) \/ MarkEventDeleted(r)
        \/ PruneEventRows \/ ExpandSingle \/ SetState

Next ==
    \/ Pass \/ Abort
    \/ \E w \in Workers : Expand(w)
    \/ ReexpandAll \/ ReexpandDies
    \/ Edit \/ Unlist \/ Relist \/ NextDay

Spec == Init /\ [][Next]_vars

\* The daemon polls, and re-expands once a day.
Fairness == WF_vars(Pass) /\ WF_vars(ReexpandAll) /\ \A w \in Workers : WF_vars(Expand(w))

FairSpec == Spec /\ Fairness

-----------------------------------------------------------------------------
(* Properties.                                                             *)

\* The variables have their types; every row has its occurrences.
Stored == [rev : Nat, date : Slots \cup {0}, status : {"confirmed", "cancelled"},
           state : {"live", "deleted"}]
TypeOK ==
    /\ kind \in Providers /\ srv \in Servers /\ clock \in Nat /\ wanted \in {"yes", "no"}
    /\ stamp \in [{Master, Single} \cup {Inst(s) : s \in Slots} -> Nat]
    /\ DOMAIN rows \subseteq Rows /\ \A r \in DOMAIN rows : rows[r] \in Stored
    /\ occ \in [DOMAIN rows -> SUBSET Slots] /\ token \in 0..clock
    /\ pc \in {"idle", "changes", "fetch", "upsert", "remove", "state"}
    /\ upto \in 0..clock /\ ids \subseteq Items /\ gone \subseteq {Master, Single}
    /\ DOMAIN batch \subseteq Rows /\ \A r \in DOMAIN batch : batch[r] \in Stored
    /\ todo \subseteq DOMAIN batch /\ touched \subseteq {"single", "series"}
    /\ full \in {"yes", "no"} /\ now \in 0..Days
    /\ \A w \in Workers :
         /\ run[w].at \in {"idle", "masters", "exceptions", "write"}
         /\ run[w].day \in 0..now /\ run[w].found \in {"yes", "no"}
         /\ DOMAIN run[w].exc \subseteq Exceptions
         /\ \A r \in DOMAIN run[w].exc : run[w].exc[r] \in Stored
         /\ run[w].left \subseteq DOMAIN run[w].exc \cup {Master}
    /\ calm \in {"yes", "no"} /\ whole \in {"yes", "no"} /\ relisted \in {"yes", "no"}
    /\ aborts \in 0..MaxAborts /\ drops \in 0..MaxDrops

\* "State is advanced only after everything up to it is applied": what has not
\* changed since the token is stored as the provider has it, derived rows
\* included, and what is gone is not.  CalDAV and JMAP name no deletions in a
\* full listing of a calendar that is stored already.
Current(r) == r \in DOMAIN rows /\ rows[r] = Event(r)
Gone(r) == r \in DOMAIN rows => rows[r].state = "deleted"
Applied(i) ==
    IF OnServer(i) THEN /\ \A r \in RowsOf(i) : Current(r)
                        /\ i = Master => Derived \cap DOMAIN rows \subseteq RowsOf(i)
    ELSE Gone(i) \/ (kind = "inline" /\ relisted = "yes")
TokenIsEarned == \A i \in Items : stamp[i] <= token /\ stamp[i] > 0 => Applied(i)

\* The same, except for what a calendar lost when it left the list.
NoGap == TypeOK /\ (whole = "yes" => TokenIsEarned)

\* Rows of things the provider has no more and will not mention again.
Lingering == {r \in DOMAIN rows : rows[r].state = "live" /\ ~OnServer(r)}

\* ListOccurrences leaves out deleted events.
Agenda == UNION {{<<r[1], d>> : d \in occ[r]} : r \in {q \in DOMAIN rows : rows[q].state = "live"}}

Meetings ==
    {<<"master", s>> : s \in {s \in Slots : /\ srv.series = "live" /\ s \notin srv.excl
                                            /\ srv.inst[s] = "none"}}
    \cup {<<"inst", s>> : s \in {s \in Slots : /\ srv.inst[s] = "moved"
                                               /\ kind = "inline" => s \notin srv.excl}}
    \cup {<<"single", d>> : d \in {srv.single} \ {0}}

\* exdate.go: an exclusion hides its meeting for as long as the master carries
\* it, and "dropping it can never revive or discard" an instance.  After
\* passes that ran to their end, the agenda shows the provider's meetings and
\* no others, and none of those that were in the window all along is missing.
AgendaMatches ==
    /\ pc = "idle" /\ run["daily"].at = "idle" /\ token = clock
    /\ calm = "yes" /\ whole = "yes" /\ Lingering = {}
    => /\ Agenda \subseteq Meetings
       /\ \A m \in Meetings : InWindow(m[2], 0) => m \in Agenda

\* Passes die between storing and expanding, re-expansions write what they read
\* before a pass changed it, the window moves: in the end a series is expanded
\* as it is stored, for the window of the day.
Fresh == [at |-> "idle", day |-> now, found |-> FoundIn(rows), exc |-> ExceptionsIn(rows),
          left |-> {}]
SeriesHeals ==
    <>[](\A r \in DOMAIN rows \ {Single} : rows[r].state = "live" => occ[r] = Shows(Fresh, r))
=============================================================================
