------------------------------- MODULE EventMap -------------------------------
(***************************************************************************)
(* An event on its way through emlcal: read from the calendar server,      *)
(* stored in the index, changed by a command and written back              *)
(* (internal/provider/gcal/map.go, caldav/map.go and write.go,             *)
(* jmap/jscalendar.go and calendar.go; internal/cli/cal_write.go).         *)
(*                                                                         *)
(* Time is counted in hours and a day has Day of them.  A zone has an      *)
(* offset from UTC, one hour more from Shift on when it is in Shifts.  A   *)
(* clock time of a zone becomes an instant and back; the index keeps the   *)
(* instant only.  MCEventWrite says what every update must keep, and           *)
(* MCEventMap what the long help of `cal update` says of it.               *)
(***************************************************************************)
EXTENDS Integers, FiniteSets

CONSTANTS
    Day,       \* hours in a day
    Offset0,   \* the offset of each zone before any change; "UTC" has none
    Shifts,    \* zones whose clocks go forward
    Shift,     \* the instant they do
    User,      \* the zone the commands are run in
    Calendar   \* the zone of a Google calendar

None == ""
Zones == DOMAIN Offset0
Offset(z, t) == Offset0[z] + (IF z \in Shifts /\ t >= Shift THEN 1 ELSE 0)
Local(t, z) == t + Offset(z, t)

\* time.Date: the offset is looked up at the clock time, then at the instant
\* that gives.
Instant(clock, z) ==
    LET guess == clock - Offset(z, clock)
    IN  IF Offset(z, guess) = Offset(z, clock) THEN guess ELSE clock - Offset(z, guess)

\* A time.Time is an instant and a zone to read it in.
At(t, z) == [t |-> t, z |-> z]
Clock(time) == Local(time.t, time.z)
Date(time) == Clock(time) \div Day
AddDate(time, days) == At(Instant(Clock(time) + days * Day, time.z), time.z)
Add(time, hours) == At(time.t + hours, time.z)
Midnight(t, z) == At(Instant((Local(t, z) \div Day) * Day, z), z)
ZoneOf(tz) == IF tz = None THEN "UTC" ELSE tz

\* The value of an optional part, or another.
Or(part, other) == IF part = {} THEN other ELSE CHOOSE v \in part : TRUE

-----------------------------------------------------------------------------
(* Objects on a server.  when: a DATE, or a time that is pinned to an instant,  *)
(* set by the clock of a zone, or floating.  An object has an end or a          *)
(* duration, of days that follow the calendar and of hours.                     *)

Span(days, hours) == [days |-> days, hours |-> hours]
When(kind, tz, from, end, duration) ==
    [kind |-> kind, tz |-> tz, from |-> from, end |-> end, duration |-> duration]

\* Readings: the instants a time means, the dates for an all-day event.  A
\* floating time is taken as the clock of UTC.
Starts(when) == IF when.kind = "pinned" THEN when.from ELSE Instant(when.from, ZoneOf(when.tz))
Ends(when) ==
    IF when.end # {}
      THEN IF when.kind = "pinned" THEN Or(when.end, 0) ELSE Instant(Or(when.end, 0), ZoneOf(when.tz))
      ELSE LET z == IF when.kind = "pinned" THEN "UTC" ELSE ZoneOf(when.tz)
               d == Or(when.duration, Span(0, 0))
           IN  AddDate(At(Starts(when), z), d.days).t + d.hours
Means(when) ==
    IF when.kind = "date"
      THEN [kind |-> "date", zone |-> None, from |-> when.from \div Day,
            to |-> IF when.end # {} THEN Or(when.end, 0) \div Day
                   ELSE when.from \div Day + Or(when.duration, Span(1, 0)).days]
      ELSE [kind |-> IF when.kind = "floating" THEN "floating" ELSE "timed", zone |-> when.tz,
            from |-> Starts(when), to |-> Ends(when)]

-----------------------------------------------------------------------------
(* Reading an object.  A rule that ends has the instant, or the date, of its end. *)

Event(start, end, allday, tz, w) ==
    [start |-> start, end |-> end, allday |-> allday, tz |-> tz, rule |-> w.rule,
     title |-> w.title, location |-> w.location.name, organized |-> w.organized,
     guests |-> {[who |-> g.who, says |-> g.says] : g \in w.guests}]

\* gcal.mapEvent, parseEventTime: a date is midnight in the calendar's zone.
ReadGoogle(w) ==
    LET tz == IF w.when.tz = None THEN Calendar ELSE w.when.tz
        T(v) == IF w.when.kind = "date" THEN At(Instant(v, tz), tz) ELSE At(v, tz)
    IN  Event(T(w.when.from), T(Or(w.when.end, 0)), w.when.kind = "date", tz, w)

\* caldav.mapVEvent, propTime, eventEnd: a DURATION is so many hours.
ReadCalDAV(w) ==
    LET z == IF w.when.kind = "zoned" THEN w.when.tz ELSE "UTC"
        T(v) == At(Instant(v, z), z)
        start == T(w.when.from)
        d == Or(w.when.duration, Span(0, 0))
        end == IF w.when.end # {} THEN T(Or(w.when.end, 0))
               ELSE IF w.when.duration # {} THEN Add(start, d.days * Day + d.hours)
               ELSE IF w.when.kind = "date" THEN AddDate(start, 1) ELSE start
    IN  Event(start, end, w.when.kind = "date", w.when.tz, w)

\* recurrenceToRRule: UNTIL is an instant, a date for an all-day event.
RuleText(rule, z, allday) ==
    {[r EXCEPT !.until =
        {IF allday THEN [kind |-> "date", at |-> Date(At(Instant(u.at, z), z))]
                   ELSE [kind |-> "pinned", at |-> Instant(u.at, z)] : u \in r.until}] : r \in rule}

\* jmap.toModelEvent: days of a duration follow the clock.
ReadJMAP(w) ==
    LET z == ZoneOf(w.when.tz)
        start == At(Instant(w.when.from, z), z)
        d == Or(w.when.duration, Span(0, 0))
    IN  [Event(start, Add(AddDate(start, d.days), d.hours), w.when.kind = "date", w.when.tz, w)
           EXCEPT !.rule = RuleText(w.rule, z, w.when.kind = "date")]

Read(w) == CASE w.backend = "google" -> ReadGoogle(w)
             [] w.backend = "caldav" -> ReadCalDAV(w)
             [] w.backend = "jmap"   -> ReadJMAP(w)

\* The index stores seconds and gives them back in UTC.
Indexed(ev) == [ev EXCEPT !.start.z = "UTC", !.end.z = "UTC"]

-----------------------------------------------------------------------------
(* `cal update`: a flag that is not given is the empty set. *)

NoFlags == [title |-> {}, location |-> {}, start |-> {}, end |-> {}, allday |-> {},
            rule |-> {}, guests |-> {}]

\* calNormalizeTimes for two times that are given.
Normalize(ev) ==
    IF ~ev.allday THEN ev
    ELSE LET start == Midnight(ev.start.t, User)
             end   == Midnight(ev.end.t, User)
         IN  [ev EXCEPT !.start = start,
                        !.end = IF end.t > start.t THEN end ELSE AddDate(start, 1)]

\* Mutant of Moved: the end stays where it was.
Moved_EndStays(ev, flags) == IF flags.start = {} THEN ev
                             ELSE [ev EXCEPT !.start = At(Or(flags.start, 0), User)]

\* The duration is kept when only the start moves.
Moved(ev, flags) ==
    LET t == Or(flags.start, 0)
        d == ev.end.t - ev.start.t
    IN  IF flags.start = {} THEN ev
        ELSE [ev EXCEPT !.start = At(t, User),
                        !.end = IF flags.end = {} /\ d > 0 THEN At(t + d, User) ELSE @]

Updated(ev, flags) ==
    LET named == [ev EXCEPT !.title = Or(flags.title, @), !.location = Or(flags.location, @),
                            !.guests = Or(flags.guests, @), !.allday = Or(flags.allday, @),
                            !.rule = Or(flags.rule, @)]
        moved == Moved(named, flags)
        ended == [moved EXCEPT !.end = IF flags.end = {} THEN @ ELSE At(Or(flags.end, 0), User)]
    IN  IF flags.start \cup flags.end = {} /\ flags.allday = {} THEN ended ELSE Normalize(ended)

\* The command refuses an event that would end before it starts.
Refused(ev, flags) ==
    LET to == Updated(ev, flags)
    IN  ~(flags.start \cup flags.end = {} /\ flags.allday = {}) /\ to.end.t <= to.start.t

-----------------------------------------------------------------------------
(* Writing an object: what the server holds afterwards, given what it held. *)

Guests(ev) == {[who |-> g.who, says |-> g.says, extra |-> FALSE] : g \in ev.guests}
Place(name) == [name |-> name, extra |-> FALSE]
Filled(text, other) == IF text = None THEN other ELSE text

\* gcal.toAPIPatch, toAPITime: the date is read off the time as it stands.
WriteGoogle(w, ev) ==
    [w EXCEPT
       !.when = IF ev.allday THEN When("date", None, Date(ev.start) * Day, {Date(ev.end) * Day}, {})
                ELSE When("pinned", ev.tz, ev.start.t, {ev.end.t}, {}),
       !.title = Filled(ev.title, @), !.location.name = Filled(ev.location, @),
       !.rule = ev.rule, !.guests = IF ev.guests = {} THEN @ ELSE Guests(ev)]

\* caldav.applyModel, setTimeProp.
WriteCalDAV(w, ev) ==
    LET T(time) == IF ev.tz = None THEN time.t ELSE Local(time.t, ev.tz)
    IN  [w EXCEPT
           !.when = IF ev.allday
                      THEN When("date", None, Date(ev.start) * Day, {Date(ev.end) * Day}, {})
                      ELSE When(IF ev.tz = None THEN "pinned" ELSE "zoned", ev.tz,
                                T(ev.start), {T(ev.end)}, {}),
           !.title = Filled(ev.title, @),
           !.location = IF ev.location = None THEN @ ELSE Place(ev.location),
           !.rule = ev.rule, !.guests = IF ev.guests = {} THEN @ ELSE Guests(ev)]

\* formatISODuration: hours of the clock that hangs on no wall.
Duration(hours, allday) ==
    IF hours <= 0 THEN Span(IF allday THEN 1 ELSE 0, 0)
    ELSE IF allday THEN Span((hours + Day - 1) \div Day, 0)
    ELSE Span(hours \div Day, hours % Day)

\* participantsUnchanged
Unchanged(w, ev) == {[who |-> g.who, says |-> g.says] : g \in w.guests} = ev.guests

\* rruleToRecurrence: UNTIL becomes a clock time of the event's zone.
RuleObject(rule, z) ==
    {[r EXCEPT !.until = {[kind |-> "clock", at |-> IF u.kind = "date" THEN u.at * Day
                                                    ELSE Local(u.at, z)] : u \in r.until}] : r \in rule}

\* What a Go struct of known fields keeps of an object.
Typed(set) == {[x EXCEPT !.extra = FALSE] : x \in set}

\* jmap.fromModelEvent, and UpdateEvent: the managed keys become what it gives,
\* the others stay.
WriteJMAP(w, ev) ==
    LET z == IF ev.allday THEN "UTC" ELSE IF ev.tz = None THEN ZoneOf(w.when.tz) ELSE ev.tz
        tz == IF ev.allday THEN None ELSE IF ev.tz = None THEN w.when.tz ELSE ev.tz
        kind == IF ev.allday THEN "date" ELSE IF tz = None THEN "floating" ELSE "zoned"
    IN  [w EXCEPT
           !.when = When(kind, tz, Local(ev.start.t, z), {},
                         {Duration(ev.end.t - ev.start.t, ev.allday)}),
           !.title = ev.title,
           !.location = Place(ev.location),
           !.rule = IF RuleText(@, z, ev.allday) = ev.rule THEN @ ELSE RuleObject(ev.rule, z),
           !.guests = IF Unchanged(w, ev) \/ (ev.guests = {} /\ ~ev.organized)
                       THEN Typed(@) ELSE Guests(ev)]

Write(w, ev) == CASE w.backend = "google" -> WriteGoogle(w, ev)
                  [] w.backend = "caldav" -> WriteCalDAV(w, ev)
                  [] w.backend = "jmap"   -> WriteJMAP(w, ev)

-----------------------------------------------------------------------------
(* The commands that are looked at: every kind of time on every server, and     *)
(* every flag, alone or two at a time.                                          *)

Clocks == 0 .. 2 * Day - 1
Spans == {Span(0, 1), Span(1, 0), Span(2, 0)}
Dates(duration) ==
    {When("date", None, d * Day, IF duration THEN {} ELSE {(d + n) * Day},
          IF duration THEN {Span(n, 0)} ELSE {}) : d \in 0 .. 1, n \in 1 .. 2}
\* No event starts or ends in the hour that a change skips.
Exists(clock, z) == Local(Instant(clock, z), z) = clock
Timed(zones, duration) ==
    {when \in {When("zoned", z, t, IF duration THEN {} ELSE {t + s.days * Day + s.hours},
                    IF duration THEN {s} ELSE {}) : z \in zones, t \in Clocks, s \in Spans} :
        /\ Exists(when.from, when.tz)
        /\ \A end \in when.end : Exists(end, when.tz)
        /\ \A d \in when.duration : Exists(when.from + d.days * Day, when.tz)}
Pinned(zones) ==
    {When("pinned", z, t, {t + n}, {}) : z \in zones, t \in Clocks, n \in {1, Day, 2 * Day - 1}}
Named == Zones \ {"UTC"}
Unzoned(set) == {[x EXCEPT !.kind = "floating", !.tz = None] : x \in set}
Whens(backend) ==
    CASE backend = "google" -> Dates(FALSE) \cup Pinned(Named)
      [] backend = "caldav" -> Dates(FALSE) \cup Dates(TRUE) \cup Pinned({None})
                               \cup Timed(Named, FALSE) \cup Timed(Named, TRUE)
                               \cup Unzoned(Timed({"UTC"}, FALSE))
      [] backend = "jmap"   -> Dates(TRUE) \cup Timed(Named, TRUE)
                               \cup Unzoned(Timed({"UTC"}, TRUE))

Weekly == [freq |-> "weekly", until |-> {}]
Rules(backend) == {{}, {Weekly}, {[Weekly EXCEPT !.until =
    {[kind |-> IF backend = "jmap" THEN "clock" ELSE "pinned", at |-> 3 * Day]}]}}
Invited == {[who |-> "ann", says |-> "accepted", extra |-> FALSE]}
Contents(backend) ==
    {[location |-> Place("hall"), rule |-> r, organized |-> FALSE, guests |-> {}]
       : r \in Rules(backend)}
    \cup {[location |-> [name |-> "hall", extra |-> x], rule |-> {}, organized |-> o,
           guests |-> {[g EXCEPT !.extra = x] : g \in Invited}] : x \in BOOLEAN, o \in BOOLEAN}

Objects(backend) ==
    {[backend |-> backend, when |-> w, title |-> "old", location |-> c.location, rule |-> c.rule,
      organized |-> c.organized, guests |-> c.guests] : w \in Whens(backend), c \in Contents(backend)}

Asked == {[who |-> "bob", says |-> "needs-action"]}
Flags ==
    {[NoFlags EXCEPT !.title = {"new"}], [NoFlags EXCEPT !.title = {None}],
     [NoFlags EXCEPT !.location = {"room"}], [NoFlags EXCEPT !.guests = {Asked}],
     [NoFlags EXCEPT !.guests = {{}}], [NoFlags EXCEPT !.rule = {{}}],
     [NoFlags EXCEPT !.rule = {{[Weekly EXCEPT !.freq = "daily"]}}],
     [NoFlags EXCEPT !.start = {Day + 1}], [NoFlags EXCEPT !.end = {3 * Day - 1}],
     [NoFlags EXCEPT !.allday = {TRUE}], [NoFlags EXCEPT !.allday = {FALSE}],
     [NoFlags EXCEPT !.allday = {TRUE}, !.start = {Day + 1}],
     [NoFlags EXCEPT !.start = {Day - 1}, !.end = {2 * Day + 1}]}

\* What a server holds, and the flags of an update that is not refused.
Commands(backend) ==
    {c \in [held : Objects(backend), flags : Flags] : ~Refused(Indexed(Read(c.held)), c.flags)}

-----------------------------------------------------------------------------
(* Properties *)

Result(w, flags) == Write(w, Updated(Indexed(Read(w)), flags))
TimeFlags(flags) == flags.start \cup flags.end # {} \/ flags.allday # {}

\* A span of days over which the clocks of a zone change.
Crosses(from, to, z) == Offset(z, from) # Offset(z, to)

\* What is known not to be kept.  An all-day event of Google is midnight of the
\* calendar's zone in the index, and its date is read off in UTC; one of JMAP is
\* midnight of the user's zone when a flag sets it, and is read off in UTC too.
\* A floating time of CalDAV is pinned.  Days are hours to a duration of CalDAV,
\* to one of JMAP that is written, and to an all-day event that is moved.
Shifted(w, flags) ==
    LET ev == Read(w)
        to == Updated(Indexed(ev), flags)
        z  == ZoneOf(ev.tz)
    IN  \/ w.backend = "google" /\ ev.allday /\ to.allday /\ Date(ev.start) # Date(At(ev.start.t, "UTC"))
        \/ w.backend = "jmap" /\ to.allday /\ TimeFlags(flags) /\ User # "UTC"
        \/ w.backend = "caldav" /\ w.when.kind = "floating"
        \/ w.when.duration # {} /\ Crosses(ev.start.t, ev.end.t, z)
        \/ w.backend = "jmap" /\ Crosses(to.start.t, to.end.t, z)
        \/ ev.allday /\ flags.start # {} /\ Crosses(to.start.t, to.end.t, User)

\* The time of an event after an update, as the server then shows it, when the
\* flags say nothing of it; and what they do say of it.
TimeKept(w, flags) ==
    LET is == Means(Result(w, flags).when)
        was == Means(w.when)
    IN  IF ~TimeFlags(flags) THEN is = was
        ELSE /\ (is.kind = "date") = Or(flags.allday, was.kind = "date")
             /\ flags.start # {} =>
                  is.from = IF is.kind = "date" THEN Date(At(Or(flags.start, 0), User))
                            ELSE Or(flags.start, 0)
             /\ (flags.start # {} /\ flags.end = {} /\ is.kind = was.kind)
                  => is.to - is.from = was.to - was.from
             /\ (flags.end # {} /\ is.kind # "date") => is.to = Or(flags.end, 0)

\* What is known not to be written: an empty value, where a write takes that for
\* "unchanged", and what a person or a place carries beyond the fields that the
\* index has.
Emptied(w, flags) ==
    \/ {None} \in {flags.title, flags.location} /\ w.backend # "jmap"
    \/ flags.guests = {{}} /\ ~(w.backend = "jmap" /\ w.organized)
Flattened(w, flags) ==
    \/ flags.location = {} /\ w.location.extra /\ w.backend # "google"
    \/ flags.guests = {} /\ \E g \in w.guests : g.extra

\* Everything else.
RestKept(w, flags) ==
    LET to == Result(w, flags)
    IN  /\ to.title = Or(flags.title, w.title)
        /\ IF flags.location = {} THEN to.location = w.location
           ELSE to.location.name = Or(flags.location, None)
        /\ IF flags.guests = {} THEN to.guests = w.guests
           ELSE {[who |-> g.who, says |-> g.says] : g \in to.guests} = Or(flags.guests, {})
        /\ IF flags.rule = {} THEN ~TimeFlags(flags) => to.rule = w.rule
           ELSE to.rule = Or(flags.rule, {})

\* What an update keeps, but for the cases above.
Kept(c) == /\ TimeKept(c.held, c.flags) \/ Shifted(c.held, c.flags)
           /\ RestKept(c.held, c.flags) \/ Emptied(c.held, c.flags) \/ Flattened(c.held, c.flags)
=============================================================================
