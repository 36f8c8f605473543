----------------------------- MODULE MCEventWrite -----------------------------
(* EventWrite on the three kinds of server, with an empty calendar, one event *)
(* of the account's own, an invitation in the mail, and one already filed;    *)
(* the mapping of events, for the updates of the calendar it starts with; and *)
(* the gaps in three days of that calendar, of a week of three days.            *)
EXTENDS EventWrite

CONSTANTS Day, Shift, LateShift, User, Calendar

MCBackends == {"caldav", "google", "jmap"}
MCImporters == {"caldav", "google"}
MCStories == {"own", "invited"}

\* Clocks go forward east of UTC.
Map == INSTANCE EventMap WITH
          Offset0 <- [z \in {"UTC", "east", "west"} |->
                         CASE z = "UTC" -> 0 [] z = "east" -> 1 [] z = "west" -> -1],
          Shifts <- {"east"}

\* The clocks of the western zone go forward at midnight.
Free == INSTANCE FreeTime WITH
          Offset0 <- [z \in {"UTC", "east", "west"} |->
                         CASE z = "UTC" -> 0 [] z = "east" -> 1 [] z = "west" -> -1],
          Shifts <- {"east", "west"}, Shift <- LateShift, Week <- 3

\* Any of: two that touch, one around them, and one that ends before it starts.
Meetings == {<<2, 5>>, <<5, 7>>, <<2, 10>>, <<6, 4>>}
BusyTimes == {{[from |-> m[1], to |-> m[2]] : m \in ms} : ms \in SUBSET Meetings}
Hours == [start : {0, 1}, end : {1, 3, 4}, days : {{1, 2}, {0, 1, 2}}, z : {"UTC", "east", "west"}]
Phrases == [word : {"today", "tomorrow", "yesterday", "last", "this", "next"},
            weekday : 0 .. 2, clock : 0 .. 3]

TimesTrue ==
    /\ \A busy \in BusyTimes, hours \in {{}} \cup {{h} : h \in Hours}, min \in 1 .. 2 :
          Free!FreeExact(busy, 0, 12, min, hours) /\ Free!FreeExact(busy, 3, 10, min, hours)
    /\ \A phrase \in Phrases, t \in 0 .. 16, z \in {"UTC", "east", "west"} :
          Free!WhenMeant(phrase, Free!At(t, z))

\* An event that was read from its server, changed by `cal update` and written
\* back is there with what the flags say and with everything else as it was (the
\* index keeps instants in UTC, and each backend has a notion of a day, of a zone and
\* of "not set" of its own), but for the cases EventMap names; a flag that names a
\* day gets that day, and `cal free` shows exactly the stretches nothing is in.
ValuesKept == Init => TimesTrue /\ \A c \in Map!Commands(backend) : Map!Kept(c)
=============================================================================
