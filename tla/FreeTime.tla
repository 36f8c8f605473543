------------------------------- MODULE FreeTime -------------------------------
(***************************************************************************)
(* The gaps between meetings, and the dates a flag may name                *)
(* (internal/calendar/free.go and when.go; `cal free` of internal/cli).    *)
(*                                                                         *)
(* An interval is [from |-> instant, to |-> instant], without its end.     *)
(* Working hours are clock times of a zone on some days of a week of Week  *)
(* days; {} for none.                                                      *)
(***************************************************************************)
EXTENDS EventMap, Sequences, SequencesExt

CONSTANT Week \* days in a week

Weekday(date) == date % Week
AtClock(date, clock, z) == Instant(date * Day + clock, z)

-----------------------------------------------------------------------------
(* FreeSlots.                                                               *)

\* `cal free`: what is cancelled or declined keeps nobody busy.
Busy(occurrences) ==
    {[from |-> o.from, to |-> o.to] : o \in {x \in occurrences : ~x.cancelled /\ ~x.declined}}

Earlier(a, b) == a.from < b.from \/ (a.from = b.from /\ a.to < b.to)
Sorted(busy) == SetToSortSeq({b \in busy : b.from < b.to}, Earlier)

\* mergeBusy: meetings that overlap or touch are one.
MergeBusy(busy) ==
    LET Join(merged, s) ==
            IF merged # <<>> /\ s.from <= Last(merged).to
              THEN [merged EXCEPT ![Len(merged)].to = IF s.to > @ THEN s.to ELSE @]
              ELSE Append(merged, s)
    IN  FoldLeft(Join, <<>>, Sorted(busy))

\* The days whose windows are looked at: midnight of the first, and from each the
\* next day at the same clock.
RECURSIVE DaysTo(_, _)
DaysTo(day, to) == IF day.t > to THEN <<>> ELSE <<Date(day)>> \o DaysTo(AddDate(day, 1), to)

Windows(from, to, hours) ==
    IF hours = {} THEN <<[from |-> from, to |-> to]>>
    ELSE LET h == CHOOSE x \in hours : TRUE
             Window(date) == LET s == AtClock(date, h.start, h.z)
                                 e == AtClock(date, h.end, h.z)
                             IN  [from |-> IF s < from THEN from ELSE s,
                                  to |-> IF e > to THEN to ELSE e]
             days == SelectSeq(DaysTo(Midnight(from, h.z), to), LAMBDA d : Weekday(d) \in h.days)
         IN  IF h.end <= h.start THEN <<>>
             ELSE SelectSeq([i \in DOMAIN days |-> Window(days[i])], LAMBDA w : w.from < w.to)

\* One window less the meetings, from its start on.
Subtract(w, merged, min) ==
    LET Gap(got, to) == IF to > got.cur /\ to - got.cur >= min
                          THEN Append(got.out, [from |-> got.cur, to |-> to]) ELSE got.out
        Step(got, b) == IF b.to <= got.cur \/ b.from >= w.to THEN got
                        ELSE [out |-> Gap(got, b.from), cur |-> b.to]
        all == FoldLeft(Step, [out |-> <<>>, cur |-> w.from], merged)
    IN  Gap(all, w.to)

FreeSlots(busy, from, to, min, hours) ==
    IF from >= to THEN <<>>
    ELSE LET ws == Windows(from, to, hours)
             merged == MergeBusy(busy)
         IN  FlattenSeq([i \in DOMAIN ws |-> Subtract(ws[i], merged, min)])

-----------------------------------------------------------------------------
(* ParseWhen: a phrase is a day, by a keyword or a day of the week, and a   *)
(* clock.                                                                   *)

\* parseWeekday: days from today; one that is named is never today but for "this".
Delta(word, weekday, today) ==
    LET on == (weekday - today) % Week
        back == (today - weekday) % Week
    IN  CASE word = "last" -> -(IF back = 0 THEN Week ELSE back)
          [] word = "this" -> on
          [] word = "next" -> IF on = 0 THEN Week ELSE on

ParseWhen(phrase, now) ==
    LET today == Midnight(now.t, now.z)
        day == CASE phrase.word = "today" -> now
                 [] phrase.word = "tomorrow" -> AddDate(now, 1)
                 [] phrase.word = "yesterday" -> AddDate(now, -1)
                 [] phrase.word \in {"last", "this", "next"} ->
                      AddDate(today, Delta(phrase.word, phrase.weekday, Weekday(Date(today))))
    IN  AtClock(Date(day), phrase.clock, now.z)

-----------------------------------------------------------------------------
(* What they are for, said of every instant and every date.                 *)

\* The clock goes over this one.
Skipped(clock, z) == Local(Instant(clock, z), z) # clock

\* A day that begins at one o'clock, or a clock that is skipped on it, is not meant
\* here: time.Date then answers for the day before, and AddDate goes on from there.
Plain(dates, clocks, z) == \A d \in dates, c \in clocks : ~Skipped(d * Day + c, z)

FreeAt(t, busy, hours) ==
    /\ ~\E b \in busy : b.from <= t /\ t < b.to
    /\ \A h \in hours : LET clock == Local(t, h.z)
                        IN  /\ Weekday(clock \div Day) \in h.days
                            /\ clock % Day >= h.start /\ clock % Day < h.end

\* The longest stretches of free instants, each of one day when there are hours,
\* that are long enough, in their order.
FreeExact(busy, from, to, min, hours) ==
    LET slots == FreeSlots(busy, from, to, min, hours)
        Same(t, u) == \A h \in hours : Local(t, h.z) \div Day = Local(u, h.z) \div Day
        Is(t) == t >= from /\ t < to /\ FreeAt(t, busy, hours)
        Longest == {s \in [from : from .. to, to : from .. to] :
                      /\ s.to - s.from >= min
                      /\ \A t \in s.from .. s.to - 1 : Is(t) /\ Same(t, s.from)
                      /\ ~(Is(s.from - 1) /\ Same(s.from - 1, s.from))
                      /\ ~(Is(s.to) /\ Same(s.to, s.to - 1))}
    IN  (\A h \in hours : Plain((Local(from, h.z) \div Day) .. (Local(to, h.z) \div Day), {0}, h.z)) =>
          /\ ToSet(slots) = Longest
          /\ \A i, j \in DOMAIN slots : i < j => slots[i].to <= slots[j].from

\* The first such day after today, the last before, or the first from today on, at
\* that clock.
WhenMeant(phrase, now) ==
    LET today == Date(now)
        day == Local(ParseWhen(phrase, now), now.z) \div Day
        Wanted(d) == Weekday(d) = phrase.weekday
    IN  Plain(today - Week .. today + Week, {0, phrase.clock, Clock(now) % Day}, now.z) =>
          /\ Local(ParseWhen(phrase, now), now.z) % Day = phrase.clock
          /\ CASE phrase.word = "today" -> day = today
               [] phrase.word = "tomorrow" -> day = today + 1
               [] phrase.word = "yesterday" -> day = today - 1
               [] phrase.word = "next" -> day > today /\ Wanted(day) /\ \A d \in today + 1 .. day - 1 : ~Wanted(d)
               [] phrase.word = "this" -> day >= today /\ Wanted(day) /\ \A d \in today .. day - 1 : ~Wanted(d)
               [] phrase.word = "last" -> day < today /\ Wanted(day) /\ \A d \in day + 1 .. today - 1 : ~Wanted(d)
===============================================================================
