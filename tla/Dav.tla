---------------------------------- MODULE Dav ----------------------------------
(***************************************************************************)
(* How a CalDAV client finds the calendars of an account, and which it     *)
(* lists (internal/provider/caldav/caldav.go, dav.go and presets.go),      *)
(* against the repository's scripted server (caldavfake/server.go).        *)
(*                                                                         *)
(* An account starts at a front door; its calendars may live on a          *)
(* partition host that only an href of the discovery names.  A server is   *)
(*   [principal, home |-> the host each href names, "" for a bare path,    *)
(*    lives |-> the host the calendars are on,                             *)
(*    known |-> which of the two properties the front door answers for,    *)
(*    moved |-> the front door redirects everything, lets |-> the password *)
(*    is good, usual |-> the calendars' path is the vendor's usual one].   *)
(* Each request meets a network that is up or down.                        *)
(***************************************************************************)
EXTENDS Integers, Sequences, SequencesExt, FiniteSets

Hosts == {"front", "part"}
Servers ==
    [principal : Hosts \cup {""}, home : Hosts \cup {""}, lives : Hosts,
     known : SUBSET {"principal", "home"}, moved : BOOLEAN, lets : BOOLEAN, usual : BOOLEAN]

Failures == {"offline", "auth", "refused"}

-----------------------------------------------------------------------------
(* The server.                                                             *)

\* serve: a redirect comes before the password is looked at.
Serve(w, host, what) ==
    IF w.moved /\ host = "front" THEN "redirect"
    ELSE IF ~w.lets THEN "auth"
    ELSE what

\* propfind: the properties are the front door's to tell; the home is listed where it
\* lives, under its own path.
Propfind(w, host, what) ==
    CASE what \in {"principal", "home"} -> host = "front" /\ what \in w.known
      [] what = "listing" -> host = w.lives
      [] what = "usual"   -> host = w.lives /\ w.usual

-----------------------------------------------------------------------------
(* The client.                                                             *)

\* New: nothing is asked yet, and requests go to the front door.
New == [asked |-> FALSE, host |-> "front", home |-> "", err |-> ""]

\* do: what becomes of a request; a redirect is an error, as following it would turn
\* the request into a GET.
Do(w, net, host, what) ==
    IF net = "down" THEN "offline"
    ELSE LET answer == Serve(w, host, what)
         IN  CASE answer = "auth" -> "auth"
               [] answer = "redirect" -> "refused"
               [] OTHER -> IF Propfind(w, host, what) THEN "ok" ELSE "refused"

\* fallbackHome: only some vendors have a path that can be guessed.
FallbackHome(guess) == IF guess THEN "usual" ELSE ""

\* discoveryFallback: a bad password is fatal, and so is any failure without a usual path.
Fallback(c, cause, guess) ==
    IF cause = "auth" THEN [c EXCEPT !.err = "auth"]
    ELSE IF FallbackHome(guess) = "" THEN [c EXCEPT !.err = cause]
    ELSE [c EXCEPT !.home = FallbackHome(guess)]

\* doDiscover: both questions go to the front door; then the host of the home counts,
\* failing that the principal's.
DoDiscover(w, c, nets, guess) ==
    LET principal == Do(w, nets[1], c.host, "principal")
        home == Do(w, nets[2], c.host, "home")
        host == CASE w.home # "" -> w.home
                  [] w.home = "" /\ w.principal # "" -> w.principal
                  [] OTHER -> c.host
    IN  IF principal \in Failures THEN Fallback(c, principal, guess)
        ELSE IF home \in Failures THEN Fallback(c, home, guess)
        ELSE [c EXCEPT !.home = "listing", !.host = host]

\* discover: once in the life of the client, whatever comes of it.
Discover(w, c, nets, guess) ==
    IF c.asked THEN c ELSE [DoDiscover(w, c, nets, guess) EXCEPT !.asked = TRUE]

\* calendarHome and the PROPFIND of Calendars: the outcome of a call.
Listing(w, c, net) == IF c.err # "" THEN c.err ELSE Do(w, net, c.host, c.home)

-----------------------------------------------------------------------------
(* The collections of a home: [calendar |-> is it one, holds |-> the kinds *)
(* of component it advertises, segment, name, may |-> the privileges].     *)

\* propfindCalendars: the home's own entry, task lists and calendars.
Collections ==
    [calendar : BOOLEAN, holds : {{}, {"VEVENT"}, {"VTODO"}}, name : {"home", "calendar"},
     segment : {"default", "home", "x"}, may : {{}, {"read"}, {"read", "write"}}]

SupportsEvents(p) == p.holds = {} \/ "VEVENT" \in p.holds

AccessRole(may) ==
    CASE may = {} \/ "all" \in may -> "owner"
      [] "all" \notin may /\ may \cap {"write", "write-content", "bind"} # {} -> "writer"
      [] OTHER -> "reader"

\* PresetFor: where a vendor keeps the calendar it creates, and what it calls it.
Presets == [fastmail |-> [segments |-> <<"default">>, names |-> <<"calendar">>],
            icloud   |-> [segments |-> <<"home">>, names |-> <<"home", "calendar">>],
            other    |-> [segments |-> <<"default">>, names |-> <<>>]]

\* The first of the wanted values some calendar has, then the first such calendar.
FirstMatch(cals, field, wanted) ==
    LET Has(x) == {i \in DOMAIN cals : cals[i][field] = x}
        found == SelectSeq(wanted, LAMBDA x : Has(x) # {})
    IN  IF found = <<>> THEN {}
        ELSE {CHOOSE i \in Has(found[1]) : \A j \in Has(found[1]) : i <= j}

MarkPrimary(cals, vendor) ==
    LET bySegment == FirstMatch(cals, "segment", Presets[vendor].segments)
        byName == FirstMatch(cals, "name", Presets[vendor].names)
    IN  CASE bySegment # {} -> bySegment
          [] bySegment = {} /\ byName # {} -> byName
          [] OTHER -> {1} \cap DOMAIN cals

\* Calendars: the home itself and what holds no events are left out.
Calendars(collections, vendor) ==
    LET cals == SelectSeq(collections, LAMBDA p : p.calendar /\ SupportsEvents(p))
        primary == MarkPrimary(cals, vendor)
    IN  [i \in DOMAIN cals |-> [segment |-> cals[i].segment, role |-> AccessRole(cals[i].may),
                                primary |-> i \in primary]]

-----------------------------------------------------------------------------
(* JMAP: one session object says where everything is.                      *)

\* Three names of the calendars capability, sorted but for the standard one, which is
\* the last, and two accounts; a capability may name no primary account.
Capabilities == {1, 2, 3}
Standard == 3
Accounts == {1, 2}
Sessions == [known : SUBSET Capabilities, primary : [Capabilities -> Accounts \cup {0}],
             has : [Accounts -> SUBSET Capabilities]]

\* CalendarCapability: the standard name if it has a primary account, then another name
\* that has one, then the first account that lists any of them.
CalendarCapability(s) ==
    LET named == {u \in Capabilities : s.primary[u] # 0}
        listed == {p \in s.known \X Accounts : p[1] \in s.has[p[2]]}
        First(S) == CHOOSE x \in S : \A y \in S : x <= y
    IN  CASE Standard \in named -> <<Standard, s.primary[Standard]>>
          [] Standard \notin named /\ named # {} -> <<First(named), s.primary[First(named)]>>
          [] named = {} /\ listed # {} ->
                LET u == First({p[1] : p \in listed})
                IN  <<u, First({p[2] : p \in {q \in listed : q[1] = u}})>>
          [] OTHER -> <<>>

\* AccountID: resolved once, and only a success is remembered.
AccountID(memory, s) == IF memory # <<>> THEN memory ELSE CalendarCapability(s)

-----------------------------------------------------------------------------
(* What is promised.                                                       *)

\* The hrefs lead to where the calendars are.
Truthful(w) ==
    w.lives = CASE w.home # "" -> w.home
                [] w.home = "" /\ w.principal # "" -> w.principal
                [] OTHER -> "front"

\* A client whose first questions were answered reaches the calendars of a server that
\* tells the truth, whichever host they live on and however often it is asked.
Reaches(w, guess) ==
    Truthful(w) /\ w.lets /\ ~w.moved /\ w.known = {"principal", "home"} =>
        LET c == Discover(w, New, <<"up", "up">>, guess)
        IN  \A nets \in [1 .. 2 -> {"up", "down"}] :
               Listing(w, Discover(w, c, nets, guess), "up") = "ok"

\* A path is guessed only for a vendor that has one, and never in place of a wrong
\* password: no account looks empty because it was looked for in the wrong place.
NeverGuessed(w, nets, guess) ==
    LET c == Discover(w, New, nets, guess)
    IN  /\ ~guess => c.home \in {"", "listing"}
        /\ (c.err = "") = (c.home # "")
        /\ nets[1] = "up" /\ ~w.lets /\ ~w.moved => c.err = "auth"

\* A session that offers calendars under any name is used, with an account that has
\* them; one that cannot be read at first does not spoil a later one.
AccountFound(first, s) ==
    LET pair == AccountID(AccountID(<<>>, first), s)
        offered == \/ \E u \in Capabilities : s.primary[u] # 0
                   \/ \E u \in s.known, a \in Accounts : u \in s.has[a]
    IN  /\ offered => pair # <<>>
        /\ CalendarCapability(first) = <<>> /\ pair # <<>> =>
              s.primary[pair[1]] = pair[2] \/ pair[1] \in s.has[pair[2]]

\* Whatever the collections are called, one calendar of those listed is the main one,
\* the one the vendor made if it is there; and only events are listed.
OneMain(collections, vendor) ==
    LET cals == Calendars(collections, vendor)
        main == {i \in DOMAIN cals : cals[i].primary}
        made == {i \in DOMAIN cals : cals[i].segment \in ToSet(Presets[vendor].segments)}
    IN  /\ Cardinality(main) = IF cals = <<>> THEN 0 ELSE 1
        /\ made # {} => main \subseteq made
        /\ \A i \in DOMAIN cals :
              \E p \in ToSet(collections) : p.segment = cals[i].segment /\ p.holds # {"VTODO"}
=============================================================================
