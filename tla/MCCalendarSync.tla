---------------------------- MODULE MCCalendarSync ----------------------------
(* An instance of CalendarSync for TLC, and beside it the listings of its  *)
(* providers for every history of a few changes, and the ways to find the  *)
(* calendars of an account.                                                *)
EXTENDS CalendarSync, Sequences

CONSTANTS Objects, MaxHistory

\* A weekly meeting of two dates, the first excluded, and a single event.  The
\* second date enters the window on the second day.
Start(excl, single) == [series |-> "live", excl |-> excl, single |-> single,
                        inst |-> [s \in Slots |-> "none"]]
MCStarts == {Start({1}, 1)}

Feed == INSTANCE Feeds WITH Calendar <- "this", Other <- "other"
DAV  == INSTANCE Dav

Unmade == [made |-> 0, rev |-> 0, in |-> ""]
Filled(here) ==
    [o \in Objects |-> IF o \in here THEN [made |-> 1, rev |-> 1, in |-> "this"] ELSE Unmade]

Done(s, e, n) ==
    CASE e[1] = "put"    -> Feed!Put(s, e[2], n)
      [] e[1] = "ifmatch" -> Feed!PutIfMatch(s, e[2], 1, n)
      [] e[1] = "set"    -> Feed!Set(s, e[2], n)
      [] e[1] = "patch"  -> Feed!Patch(s, e[2], n)
      [] e[1] = "delete" -> Feed!Delete(s, e[2], n)

\* A calendar and what others do to it.
Stories(kinds) == (SUBSET Objects) \X UNION {[1 .. n -> kinds \X Objects] : n \in 0 .. MaxHistory}
After(story) ==
    LET s[i \in 1 .. Len(story[2]) + 1] ==
            IF i = 1 THEN Filled(story[1]) ELSE Done(s[i - 1], story[2][i - 1], i)
    IN  s

\* The moments a listing's requests may fall into, one after the other.
Moments(n) ==
    {at \in [list : 1 .. n, page : (1 .. n) \X (1 .. n), get : [Objects -> 1 .. n]] :
        /\ at.list <= at.page[1] /\ at.page[1] <= at.page[2]
        /\ \A o \in Objects : at.page[2] <= at.get[o]}
Unpaged(n) == {at \in Moments(n) : at.page = <<at.list, at.list>>}

ListingsHold ==
    /\ \A story \in Stories({"put", "ifmatch", "delete"}) : LET h == After(story) IN
          \A at \in Unpaged(Len(h)) :
             Feed!DAVHeals(h, at) /\ \A from \in 1 .. at.list : Feed!DAVFollows(h, from, at)
    /\ \A story \in Stories({"set", "patch", "delete"}) : LET h == After(story) IN
          /\ \A at \in Moments(Len(h)) : Feed!JMAPHeals(h, at)
          /\ \A at \in Unpaged(Len(h)), from \in 1 .. Len(h) :
                from <= at.list => Feed!JMAPFollows(h, from, at)

Networks == [1 .. 2 -> {"up", "down"}]

NoCalendars == [known |-> {}, primary |-> [u \in DAV!Capabilities |-> 0],
                has |-> [a \in DAV!Accounts |-> {}]]

DiscoveryHolds ==
    /\ \A w \in DAV!Servers, guess \in BOOLEAN :
          DAV!Reaches(w, guess) /\ \A nets \in Networks : DAV!NeverGuessed(w, nets, guess)
    /\ \A session \in DAV!Sessions :
          DAV!AccountFound(session, session) /\ DAV!AccountFound(NoCalendars, session)
    /\ \A vendor \in DOMAIN DAV!Presets, a, b \in DAV!Collections :
          a.segment # b.segment => DAV!OneMain(<<a, b>>, vendor)

\* However a provider's requests are interleaved with what others do to the calendar,
\* one delta later the rows are what the server holds, but for what Feeds names of JMAP;
\* and the calendars of an account are found on the host they live on, or not at all.
ListingsSound == Init /\ kind = "inline" => ListingsHold /\ DiscoveryHolds
=============================================================================
