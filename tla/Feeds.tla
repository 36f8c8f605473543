--------------------------------- MODULE Feeds ---------------------------------
(***************************************************************************)
(* What a CalDAV or JMAP server's journal and its listings say of one of   *)
(* its calendars while others go on changing it, and what a pass makes of  *)
(* several such answers (internal/provider/caldav/sync.go,                 *)
(* internal/provider/jmap/calendar.go).  The servers are the scripted ones *)
(* the repository keeps beside its providers (internal/provider/caldav/    *)
(* caldavfake, internal/testutil/jmapfake).                                *)
(*                                                                         *)
(* A server is a function from its objects, numbered in the order it lists *)
(* them; "made" and "rev" say which change made an object and which        *)
(* touched it last, 0 for never; "in" is its calendar, "" when it is gone. *)
(* A history is the sequence of its states; the position in it is what the *)
(* server hands out as state or sync token.                                *)
(***************************************************************************)
EXTENDS Integers, Sequences, FiniteSets, SequencesExt, FiniteSetsExt

CONSTANTS
    Objects,   \* numbers of the objects
    Calendar,  \* the calendar that is read
    Other      \* another one of the account

Live(s, o) == s[o].in # ""
Gone(s)    == {o \in Objects : ~Live(s, o) /\ s[o].rev > 0}

-----------------------------------------------------------------------------
(* What others do to a server whose n-th change this is.                   *)

\* put: an object that is there keeps its making.
Put(s, o, n) == [s EXCEPT ![o] = [made |-> IF Live(s, o) THEN @.made ELSE n,
                                  rev |-> n, in |-> IF Live(s, o) THEN @.in ELSE Calendar]]

\* A conditional put on a revision that is not the current one is refused.
PutIfMatch(s, o, rev, n) == IF Live(s, o) /\ s[o].rev = rev THEN Put(s, o, n) ELSE s

Delete(s, o, n) == IF Live(s, o) THEN [s EXCEPT ![o] = [made |-> 0, rev |-> n, in |-> ""]] ELSE s

\* CalendarEvent/set never gives an id to a second object.
Set(s, o, n) == IF o \in Gone(s) THEN s ELSE Put(s, o, n)

\* JMAP only: the object goes to the other calendar, or comes back.
Patch(s, o, n) ==
    IF ~Live(s, o) THEN s
    ELSE [s EXCEPT ![o].rev = n, ![o].in = IF @ = Calendar THEN Other ELSE Calendar]

-----------------------------------------------------------------------------
(* What they answer.  "since" is 0 for an empty token.                     *)

\* A first synchronisation is told of no deletions.
SyncCollection(s, since) ==
    LET new == {o \in Objects : s[o].rev > since}
    IN  [changed |-> {o \in new : Live(s, o)},
         removed |-> IF since = 0 THEN {} ELSE {o \in new : ~Live(s, o)}]

\* Which of the objects asked for there are, whatever calendar they are in now.
Multiget(s, asked) == {o \in asked : Live(s, o)}

\* One page of the objects in the calendar, by position.
Query(s, position, limit) ==
    LET all == SetToSortSeq({o \in Objects : s[o].in = Calendar}, LAMBDA a, b : a < b)
    IN  SubSeq(all, position + 1, IF position + limit < Len(all) THEN position + limit ELSE Len(all))

\* An object made since is created, one that was there and was touched updated.
Changes(s, since) ==
    [created   |-> {o \in Objects : Live(s, o) /\ s[o].made > since},
     updated   |-> {o \in Objects : Live(s, o) /\ s[o].made <= since /\ s[o].rev > since},
     destroyed |-> {o \in Gone(s) : s[o].rev > since}]

-----------------------------------------------------------------------------
(* What a provider hands the engine.  h is the history, at says at which   *)
(* moments of it the requests of the pass are answered: at.list the first  *)
(* one, at.page each page of a query, at.get each object that is fetched.  *)

Fetched(h, at, asked) == {o \in asked : o \in Multiget(h[at.get[o]], {o})}

\* Mutant of DAVChanges: the token is read again once the objects are here.
DAVChanges_LateToken(h, at, since) ==
    LET listed == SyncCollection(h[at.list], since)
        got == Fetched(h, at, listed.changed)
    IN  [upserted |-> [o \in got |-> h[at.get[o]][o].rev], removed |-> listed.removed,
         state |-> Max({at.get[o] : o \in Objects} \cup {at.list})]

\* caldav EventChanges: hrefs and a token from one REPORT, contents from others.
DAVChanges(h, at, since) ==
    LET listed == SyncCollection(h[at.list], since)
        got == Fetched(h, at, listed.changed)
    IN  [upserted |-> [o \in got |-> h[at.get[o]][o].rev], removed |-> listed.removed,
         state |-> at.list]

\* queryEventIDs with pages of two: a page that is not full is the last one.
QueryEventIDs(h, at) ==
    LET first == Query(h[at.page[1]], 0, 2)
        second == Query(h[at.page[2]], 2, 2)
    IN  ToSet(first) \cup (IF Len(first) < 2 THEN {} ELSE ToSet(second))

\* jmap EventChanges without a state: the state is read first, and what the query
\* named is stored wherever it is by now.
JMAPListing(h, at) ==
    LET got == Fetched(h, at, QueryEventIDs(h, at))
    IN  [upserted |-> [o \in got |-> h[at.get[o]][o].rev], removed |-> {}, state |-> at.list]

\* And from a state: an update that finds the object in another calendar removes it.
JMAPDelta(h, at, since) ==
    LET c == Changes(h[at.list], since)
        got == Fetched(h, at, (c.created \cup c.updated) \ c.destroyed)
        here == {o \in got : h[at.get[o]][o].in = Calendar}
    IN  [upserted |-> [o \in here |-> h[at.get[o]][o].rev],
         removed |-> c.destroyed \cup (c.updated \cap (got \ here)), state |-> at.list]

\* The rows there are once the engine has applied an answer, by object.
Applied(rows, answer) ==
    [o \in (DOMAIN rows \cup DOMAIN answer.upserted) \ answer.removed |->
        IF o \in DOMAIN answer.upserted THEN answer.upserted[o] ELSE rows[o]]

-----------------------------------------------------------------------------
(* Theorems of these listings, checked for every history of a few changes. *)

Blank == [o \in {} |-> 0]

\* The calendar at the end of a history.
Truth(h) == LET s == Last(h) IN [o \in {x \in Objects : s[x].in = Calendar} |-> s[o].rev]

\* The last pass meets a server that has come to rest.
AtRest(h) == [list |-> Len(h), page |-> <<Len(h), Len(h)>>, get |-> [o \in Objects |-> Len(h)]]

\* However a CalDAV listing is interleaved with changes, the next delta leaves what
\* the server holds.
DAVHeals(h, at) ==
    LET first == DAVChanges(h, at, 0)
        second == DAVChanges(h, AtRest(h), first.state)
    IN  Applied(Applied(Blank, first), second) = Truth(h)

\* And so does a delta that is itself interleaved, on rows that were in step at "from".
DAVFollows(h, from, at) ==
    LET rows == [o \in {x \in Objects : Live(h[from], x)} |-> h[from][o].rev]
        first == DAVChanges(h, at, from)
        second == DAVChanges(h, AtRest(h), first.state)
    IN  Applied(Applied(rows, first), second) = Truth(h)

\* Removals between two pages of a JMAP query move what follows onto the page that was
\* read already, and no later delta names it.
Skipped(h, at) ==
    {o \in Objects : /\ h[at.page[1]][o].in = Calendar /\ h[at.page[2]][o].in = Calendar
                     /\ o \notin QueryEventIDs(h, at)}

\* An object that was made while the listing ran and had left the calendar when it was
\* fetched, or at the delta, is stored; the delta calls it created, not updated.
Strayed(h, at) ==
    {o \in QueryEventIDs(h, at) : h[at.get[o]][o].made > at.list /\ Last(h)[o].in = Other}

JMAPHeals(h, at) ==
    LET first == JMAPListing(h, at)
        second == JMAPDelta(h, AtRest(h), first.state)
        rows == Applied(Applied(Blank, first), second)
        told == Objects \ (Skipped(h, at) \cup Strayed(h, at))
    IN  Restrict(rows, told \cap DOMAIN rows) = Restrict(Truth(h), told \cap DOMAIN Truth(h))

JMAPFollows(h, from, at) ==
    LET rows == [o \in {x \in Objects : h[from][x].in = Calendar} |-> h[from][o].rev]
        first == JMAPDelta(h, at, from)
        second == JMAPDelta(h, AtRest(h), first.state)
        then == Applied(Applied(rows, first), second)
    IN  then = Truth(h)
=============================================================================
