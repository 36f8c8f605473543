-------------------------------- MODULE Config --------------------------------
(***************************************************************************)
(* config.toml as a value: what reading the file makes of it and what      *)
(* writing it keeps (internal/config: load.go, save.go, types.go).         *)
(*                                                                         *)
(* A key of the file is optional, so it is a set: empty when the key is    *)
(* absent, a singleton when it is present.  Reading gives an absent key a  *)
(* default that depends on the account's backends; writing leaves a key    *)
(* out exactly when it has that default.  Names, addresses and the keys    *)
(* read and written one by one like host are left out, except those that   *)
(* the defaults and the checks depend on.                                  *)
(***************************************************************************)
EXTENDS Integers, FiniteSets

MailBackends == {"jmap", "gmail", "imap"}
CalendarBackends == {"caldav", "gcal", "jmap"}
Vendors == {"google", "fastmail", "icloud"}
None == ""   \* an empty string

\* The value of an optional key, or its default.
Or(key, default) == IF key = {} THEN default ELSE CHOOSE v \in key : TRUE

\* An [[accounts]] table with nothing in it.
EmptyTable == [mail |-> {}, calendar |-> {}, poll |-> {}, push |-> {}, spam |-> {},
               raw |-> {}, calendars |-> {}, concurrency |-> {}]
EmptyMail == [backend |-> {}, vendor |-> {}, host |-> {}, security |-> {}]
EmptyCalendar == [backend |-> {}, vendor |-> {}, base_url |-> {}]

-----------------------------------------------------------------------------
(* Reading *)

\* The vendor a backend implies; IMAP and CalDAV are several vendors'.
DefaultVendor(backend) ==
    CASE backend = "jmap"              -> "fastmail"
      [] backend \in {"gmail", "gcal"} -> "google"
      [] OTHER                         -> None

MailBlock(table) ==
    LET backend == Or(table.backend, None)
        vendor  == Or(table.vendor, None)
        host    == Or(table.host, None)
    IN  [backend |-> backend, host |-> host, security |-> Or(table.security, None),
         vendor |-> IF vendor = None /\ host = None THEN DefaultVendor(backend) ELSE vendor]

CalendarBlock(table) ==
    LET backend == Or(table.backend, None)
        vendor  == Or(table.vendor, None)
        base    == Or(table.base_url, None)
    IN  [backend |-> backend, base_url |-> base,
         vendor |-> IF vendor = None /\ base = None THEN DefaultVendor(backend) ELSE vendor]

\* The poll, in seconds, and push of an account whose mail backends are these.
DefaultPoll(backends) == IF backends \in {{"jmap"}, {"imap"}, {}} THEN 300 ELSE 60
DefaultPush(backends) == backends \in {{"jmap"}, {"imap"}}

BackendOf(blocks) == {block.backend : block \in blocks}

Materialize(table) ==
    LET halves == {MailBlock(m) : m \in table.mail}
    IN  [mail        |-> halves,
         calendar    |-> {CalendarBlock(c) : c \in table.calendar},
         poll        |-> Or(table.poll, DefaultPoll(BackendOf(halves))),
         push        |-> Or(table.push, DefaultPush(BackendOf(halves))),
         spam        |-> Or(table.spam, TRUE),
         raw         |-> table.raw,
         calendars   |-> Or(table.calendars, {"*"}),
         concurrency |-> Or(table.concurrency, 4)]

MaterializeModel(table) ==
    LET backend == Or(table.backend, "ollama")
    IN  [backend |-> backend, model |-> Or(table.model, None),
         url     |-> Or(table.url \ {None}, IF backend = "ollama" THEN "local" ELSE None),
         timeout |-> Or(table.timeout \ {0}, 300)]

Load(file) ==
    [default  |-> Or(file.default, None),
     accounts |-> [n \in DOMAIN file.accounts |-> Materialize(file.accounts[n])],
     models   |-> [n \in DOMAIN file.models |-> MaterializeModel(file.models[n])],
     ai       |-> Or(file.ai, None)]

-----------------------------------------------------------------------------
(* Writing *)

\* A key that holds the default is left out.
Unless(value, default) == {value} \ {default}

\* The account a table that names only these backends would give.
DefaultsFor(account) ==
    LET With(table, backends) == {[table EXCEPT !.backend = {b}] : b \in backends}
    IN  Materialize([EmptyTable EXCEPT
            !.mail     = With(EmptyMail, BackendOf(account.mail)),
            !.calendar = With(EmptyCalendar, BackendOf(account.calendar))])

\* IMAP and CalDAV always write their vendor: it selects the server.
RenderMail(m) ==
    [backend  |-> {m.backend}, host |-> Unless(m.host, None),
     security |-> Unless(m.security, None),
     vendor   |-> {m.vendor} \ {None, IF m.backend = "imap" THEN None
                                                            ELSE DefaultVendor(m.backend)}]

RenderCalendar(c) ==
    [backend  |-> {c.backend}, base_url |-> Unless(c.base_url, None),
     vendor   |-> {c.vendor} \ {None, IF c.backend = "caldav" THEN None
                                                              ELSE DefaultVendor(c.backend)}]

RenderModel(m) ==
    [backend |-> Unless(m.backend, "ollama"), model |-> Unless(m.model, None),
     url     |-> {m.url} \ {None, IF m.backend = "ollama" THEN "local" ELSE None},
     timeout |-> {m.timeout} \ {0, 300}]

Render(account) ==
    LET def == DefaultsFor(account)
    IN  [mail        |-> {RenderMail(m) : m \in account.mail},
         calendar    |-> {RenderCalendar(c) : c \in account.calendar},
         poll        |-> Unless(account.poll, def.poll),
         push        |-> Unless(account.push, def.push),
         spam        |-> Unless(account.spam, def.spam),
         raw         |-> account.raw,
         calendars   |-> Unless(account.calendars, def.calendars),
         concurrency |-> Unless(account.concurrency, def.concurrency)]

\* The [ai] table is written when it has models in it.
Save(c) ==
    [default  |-> Unless(c.default, None),
     accounts |-> [n \in DOMAIN c.accounts |-> Render(c.accounts[n])],
     models   |-> [n \in DOMAIN c.models |-> RenderModel(c.models[n])],
     ai       |-> IF DOMAIN c.models = {} THEN {} ELSE Unless(c.ai, None)]

\* A configuration without what no command can keep of it: the default vendor of a
\* calendar with an address of its own is not written, and nothing implies it.
Unpinned(config) ==
    LET Kept(c) == [c EXCEPT !.vendor = IF c.base_url # None /\ c.vendor = DefaultVendor(c.backend)
                                        THEN None ELSE c.vendor]
    IN  [config EXCEPT !.accounts = [n \in DOMAIN config.accounts |->
            [config.accounts[n] EXCEPT !.calendar = {Kept(c) : c \in config.accounts[n].calendar}]]]

-----------------------------------------------------------------------------
(* Checking: a command refuses to run on a configuration with a mistake. *)

BadMail(m) ==
    \/ m.backend \notin MailBackends
    \/ m.vendor \notin Vendors \cup {None}
    \/ m.backend = "imap" /\ m.vendor = None /\ m.host = None
    \/ m.backend # "imap" /\ m.host # None
    \/ m.security \notin {None, "tls", "starttls", "none"}
    \/ m.vendor = "icloud" /\ m.backend # "imap"

BadCalendar(c) ==
    \/ c.backend \notin CalendarBackends
    \/ c.vendor \notin Vendors \cup {None}
    \/ c.backend = "caldav" /\ c.vendor = None /\ c.base_url = None

BadBackends(a) ==
    \/ a.mail = {} /\ a.calendar = {}
    \/ \E m \in a.mail : BadMail(m)
    \/ \E c \in a.calendar : BadCalendar(c)
    \/ a.push /\ ~ \E m \in a.mail : m.backend \in {"jmap", "imap"}

BadModel(m) ==
    \/ m.backend \notin {"ollama", "openai"}
    \/ m.backend = "openai" /\ m.url = None
    \/ m.backend # "openai" /\ m.model = None
    \/ m.timeout < 0

BadAI(c) ==
    \/ \E n \in DOMAIN c.models : BadModel(c.models[n])
    \/ c.ai # None /\ c.ai \notin DOMAIN c.models

Validate(c) ==
    /\ \A n \in DOMAIN c.accounts :
          LET a == c.accounts[n]
          IN  ~BadBackends(a) /\ a.poll >= 0 /\ a.concurrency >= 0 /\ \A r \in a.raw : r >= 0
    /\ c.default # None => c.default \in DOMAIN c.accounts
    /\ ~BadAI(c)

-----------------------------------------------------------------------------
(* The account `emlcal account add` writes for a vendor. *)

NewAccount(vendor) ==
    LET Mail(b) == {[backend |-> b, vendor |-> vendor, host |-> None, security |-> None]}
        Calendar(b) == {[backend |-> b, vendor |-> vendor, base_url |-> None]}
        new == [mail |-> {}, calendar |-> {}, poll |-> 0, push |-> FALSE, spam |-> TRUE,
                raw |-> {}, calendars |-> {"*"}, concurrency |-> 4]
    IN  CASE vendor = "google" ->
               [new EXCEPT !.mail = Mail("gmail"), !.calendar = Calendar("gcal"), !.poll = 60]
          [] vendor = "fastmail" ->
               [new EXCEPT !.mail = Mail("jmap"), !.calendar = Calendar("caldav"),
                           !.poll = 300, !.push = TRUE]
          [] vendor = "icloud" ->
               [new EXCEPT !.mail = Mail("imap"), !.calendar = Calendar("caldav"),
                           !.poll = 300, !.push = TRUE]
          [] OTHER -> new

\* The account `account add imap` writes: a server named by its host.
NewIMAPAccount(security) ==
    [NewAccount(None) EXCEPT !.poll = 300, !.push = TRUE,
        !.mail = {[backend |-> "imap", vendor |-> None, host |-> "host", security |-> security]}]

\* Account.Vendor: the mail half's, else the calendar's.
VendorOf(a) ==
    LET of == {m.vendor : m \in a.mail} \ {None}
    IN  Or(IF of # {} THEN of ELSE {c.vendor : c \in a.calendar}, None)
=============================================================================
