------------------------------ MODULE MCAccounts ------------------------------
(* Accounts for two names and two processes, from files as users have them;   *)
(* and, beside it, the reading of one account by IMAP: two folders and a name  *)
(* to rename to, and two kinds of server.                                      *)
EXTENDS Accounts

CONSTANTS Order, Present, Uids, MaxVal, Servers, Origins, SweepEvery, \* of Imap
          MaxEvents, MaxWrites, MaxPasses, MaxFaults
MCOrder == <<"INBOX", "Old", "New">>
MCPresent == {"INBOX", "Old"}
MCUids == 1 .. 3
MCServers == {[condstore |-> TRUE, move |-> FALSE, uidplus |-> TRUE],
              [condstore |-> FALSE, move |-> TRUE, uidplus |-> FALSE]}

VARIABLES part, \* which of the two happens
          server, boxes, born, index, token, walk, pc, todo, seenAs, delta, next, write,
          unreported, unheard, strays, misfired, fresh, spent
reading == <<server, boxes, born, index, token, walk, pc, todo, seenAs, delta, next,
             write, unreported, unheard, strays, misfired, fresh, spent>>

Imap == INSTANCE Imap
ASSUME Imap!ImapAssumption

\* What Imap says of the index after a pass and after every step.
Caught == Imap!Caught
RowsHold == Imap!RowsHold

Table(mail, calendar) ==
    [EmptyTable EXCEPT
       !.mail     = {[EmptyMail EXCEPT !.backend = {b}] : b \in mail},
       !.calendar = {[EmptyCalendar EXCEPT !.backend = {b}, !.vendor = {"icloud"}] : b \in calendar}]
File(tables) == [default |-> {}, accounts |-> tables, models |-> <<>>, ai |-> {}]
Only(n, table) == [m \in {n} |-> table]

MCFiles ==
    {File(<<>>),
     \* calendars only, as before emlcal spoke IMAP, with keys changed by hand
     [File(Only("a", [Table({}, {"caldav"}) EXCEPT !.poll = {600}, !.calendars = {{}}]))
        EXCEPT !.default = {"a"}, !.ai = {"m"},
               !.models = [m \in {"m"} |-> [backend |-> {"openai"}, model |-> {}, url |-> {"x"},
                                            timeout |-> {0}]]],
     \* a calendar with vendor and address
     File(Only("a", [Table({}, {}) EXCEPT
        !.calendar = {[backend |-> {"jmap"}, vendor |-> {"fastmail"}, base_url |-> {"x"}]}])),
     \* keys written that have their default, and keys that do not
     [File(Only("a", [Table({"gmail"}, {}) EXCEPT !.poll = {60}, !.push = {FALSE}, !.spam = {FALSE}]))
        EXCEPT !.default = {"a"}],
     File(Only("a", [Table({"jmap"}, {"caldav"}) EXCEPT !.push = {FALSE}, !.raw = {0}]))}

Symmetry == Permutations(Procs)

MCBudgets ==
    {[commands |-> 3, syncs |-> 0, tokens |-> 1, faults |-> 0],
     [commands |-> 2, syncs |-> 0, tokens |-> 1, faults |-> 1],
     [commands |-> 1, syncs |-> 1, tokens |-> 2, faults |-> 1],
     [commands |-> 0, syncs |-> 3, tokens |-> 3, faults |-> 1]}

\* Of the part that does not happen, one initial state. Three commands begin at no
\* file, as the first of them makes one.
MCInit ==
    /\ part \in {"accounts", "imap"} /\ Init /\ Imap!Init
    /\ left.commands = 3 => DOMAIN file.accounts = {}
    /\ part = "accounts" => server.condstore /\ index = {}
    /\ part = "imap" => DOMAIN file.accounts = {} /\ left.commands = 0
                        /\ (server.condstore <=> index # {})
MCNext ==
    /\ UNCHANGED part
    /\ \/ part = "accounts" /\ Next /\ UNCHANGED reading
       \/ part = "imap" /\ Imap!Next /\ UNCHANGED vars
MCSpec == MCInit /\ [][MCNext]_<<part, vars, reading>>
===============================================================================
