------------------------------- MODULE Accounts -------------------------------
(***************************************************************************)
(* The accounts: config.toml, the secrets beside it, what the index holds  *)
(* of each account, and the processes that change them                     *)
(* (internal/cli: account.go, account_imap.go, factory.go, app.go;         *)
(* internal/config: secrets.go; internal/provider/oauth).                  *)
(*                                                                         *)
(* A process reads config.toml once, when it starts, and works from that   *)
(* copy; a command that changes the configuration writes its whole copy    *)
(* back.  Nothing is locked, so two commands, or a command and the daemon, *)
(* see different files.  A Google login is a refresh token which each      *)
(* process holds in memory and writes back whenever it is refreshed.       *)
(***************************************************************************)
EXTENDS Config, Sequences, Functions, SequencesExt, FiniteSetsExt

CONSTANTS Names,      \* account names
          Procs,      \* processes that may run at once
          Files,      \* what config.toml may be at the start, as a user writes it
          Presets,    \* the vendors accounts are added for; None is `account add imap`
          Securities, \* what is given as --security
          Budgets     \* bound: how often each of Kinds may happen, one of these

Kinds == {"commands", \* commands that change an account
          "syncs",    \* processes that sync: the daemon, `sync`, the terminal interface
          "tokens",   \* refresh tokens issued
          "faults"}   \* crashes, saves and removals that fail, logins revoked
ASSUME AccountsAssumption ==
    /\ None \notin Names
    /\ \A file \in Files : Validate(Load(file)) /\ DOMAIN file.accounts \subseteq Names
    /\ Presets \subseteq Vendors \cup {None}
    /\ Budgets \subseteq [Kinds -> 0..4]

VARIABLES
    file,     \* config.toml
    secrets,  \* keys in the secrets directory
    tokens,   \* the refresh token in <name>.google.json; 0 when there is none
    rows,     \* accounts the index has rows of
    procs,    \* the processes
    kept,     \* keys, and rows, that a removal failed to delete
    live,     \* refresh tokens Google accepts
    minted,   \* how many it has issued
    raced,    \* accounts removed, or changed in the file, under another process
    shared,   \* logins two processes held at a time
    lost,     \* logins revoked, or whose refreshed token was never saved
    asked,    \* logins a process found refused
    left      \* of the budget
disk == <<file, secrets, tokens, rows, kept>>
google == <<live, minted, shared, lost, asked>>
vars == <<file, secrets, tokens, rows, kept, procs, live, minted, raced, shared,
          lost, asked, left>>

-----------------------------------------------------------------------------
(* The secrets of an account, by the protocol that presents them. *)

Key(n, kind) == <<n, kind>>
Protocols == {"jmap", "caldav", "imap", "smtp", "client"}

UsesGoogle(a) == {"gmail", "gcal"} \cap (BackendOf(a.mail) \cup BackendOf(a.calendar)) # {}
UsesJMAP(a) == "jmap" \in BackendOf(a.mail) \cup BackendOf(a.calendar)
UsesIMAP(a) == "imap" \in BackendOf(a.mail)
UsesCalDAV(a) == "caldav" \in BackendOf(a.calendar)

\* The keys that one app password fills.
AppPasswordKeys(n, a) ==
    {Key(n, kind) : kind \in {k \in {"imap", "caldav"} : (k = "imap" /\ UsesIMAP(a))
                                                      \/ (k = "caldav" /\ UsesCalDAV(a))}}

\* Mutant of SecretKeys: the keys of the mail half alone.
SecretKeys_MailOnly(n, a) ==
    {Key(n, IF m.backend = "gmail" THEN "client" ELSE m.backend) : m \in a.mail}

\* Every key the account may own (the token file of a Google account is beside
\* these).
SecretKeys(n, a) ==
    AppPasswordKeys(n, a)
    \cup {Key(n, kind) : kind \in {k \in {"jmap", "client", "smtp"} :
              \/ k = "jmap" /\ UsesJMAP(a)
              \/ k = "client" /\ UsesGoogle(a)
              \/ k = "smtp" /\ UsesIMAP(a)}}

-----------------------------------------------------------------------------
(* Processes *)

\* held: the refresh tokens of the providers it has built; unsaved: those
\* refreshed and not yet written back.
Off == [pc |-> "off", name |-> None, view |-> Load([default |-> {}, accounts |-> <<>>,
        models |-> <<>>, ai |-> {}]), todo |-> {}, removing |-> FALSE,
        held |-> [n \in Names |-> 0], unsaved |-> {}]

Running == {p \in Procs : procs[p].pc # "off"}
Knows(p, n) == p \in Running /\ n \in DOMAIN procs[p].view.accounts \cup {procs[p].name}
HeldElsewhere(p, n) == IF \E q \in Procs \ {p} : procs[q].held[n] # 0 THEN {n} ELSE {}
Become(p, q) == procs' = [procs EXCEPT ![p] = q]
Exits(p) == Become(p, Off)
Spend(kind) == left[kind] > 0 /\ left' = [left EXCEPT ![kind] = @ - 1]

\* App.Config: a configuration with a mistake stops every command here.
\* An account is raced when it is removed while another process knows it.
Starts(p, kind, q) ==
    LET proc  == [q EXCEPT !.view = Load(file)]
        under == {procs[o].name : o \in {o \in Running : procs[o].removing}}
    IN  /\ procs[p].pc = "off" /\ Spend(kind) /\ Validate(proc.view)
        /\ Become(p, proc)
        /\ raced' = raced \cup (under \cap (DOMAIN proc.view.accounts \cup {proc.name}))
                          \cup {n \in Names : /\ proc.removing /\ n = proc.name
                                              /\ \E o \in Procs : Knows(o, n)}

\* config.Save of p's whole copy in place of the file.  The accounts that the
\* file had otherwise than p's copy are raced.
Writes(p, view) ==
    LET loaded == Load(file)
        Of(c, m) == IF m \in DOMAIN c.accounts THEN {c.accounts[m]} ELSE {}
    IN  /\ file' = Save(view)
        /\ raced' = raced \cup {m \in Names : Of(loaded, m) # Of(procs[p].view, m)}

-----------------------------------------------------------------------------
(* account add *)

BeginAdd(p, n) ==
    /\ n \notin DOMAIN file.accounts   \* else "already exists"
    /\ Starts(p, "commands", [Off EXCEPT !.pc = "prompt", !.name = n])
    /\ UNCHANGED <<disk, google>>

\* Every credential is read before the account is written; a token that is not
\* given ends the command, an app password may be left for later unless the
\* account is nothing without it.
Given(n, a, keys) ==
    /\ keys \subseteq SecretKeys(n, a) \ {Key(n, "smtp")}
    /\ UsesJMAP(a) => Key(n, "jmap") \in keys
    /\ AppPasswordKeys(n, a) \cap keys \in {{}, AppPasswordKeys(n, a)}
    /\ (~UsesJMAP(a) /\ ~UsesGoogle(a)) => keys # {}

AddAccount(p) ==
    LET proc == procs[p]
        n    == proc.name
        With(a) == [proc.view EXCEPT !.accounts =
                      [m \in DOMAIN @ \cup {n} |-> IF m = n THEN a ELSE @[m]]]
        Adds(a) == \E keys \in SUBSET SecretKeys(n, a) :
                     /\ Given(n, a, keys)
                     /\ Writes(p, With(a))
                     /\ Become(p, [proc EXCEPT !.pc = "store", !.view = With(a), !.todo = keys])
    IN  /\ proc.pc = "prompt" /\ n \notin DOMAIN proc.view.accounts
        /\ \/ \E v \in Presets \ {None} : Adds(NewAccount(v))
           \/ None \in Presets /\ \E s \in Securities : Adds(NewIMAPAccount(s))
        /\ UNCHANGED <<secrets, tokens, rows, kept, google, left>>

\* A prompt left without an answer.
GivesUp(p) ==
    /\ procs[p].pc = "prompt" /\ Exits(p)
    /\ UNCHANGED <<disk, google, raced, left>>

StoreSecret(p) ==
    /\ procs[p].pc = "store" /\ ~procs[p].removing
    /\ \E key \in procs[p].todo :
          /\ secrets' = secrets \cup {key}
          /\ Become(p, [procs[p] EXCEPT !.todo = @ \ {key}])
    /\ UNCHANGED <<file, tokens, rows, kept, google, raced, left>>

\* The consent screen; its token is written to the token file, whoever else
\* holds a login of that account.
Login(p) ==
    LET proc == procs[p]
        n == proc.name
    IN  /\ proc.pc = "store" /\ ~proc.removing /\ proc.todo = {}
        /\ n \in DOMAIN proc.view.accounts /\ UsesGoogle(proc.view.accounts[n])
        /\ Spend("tokens")
        /\ minted' = minted + 1 /\ live' = live \cup {<<n, minted'>>}
        /\ tokens' = [tokens EXCEPT ![n] = minted']
        /\ shared' = shared \cup HeldElsewhere(p, n)
        /\ Become(p, [proc EXCEPT !.pc = "verify"])
        /\ UNCHANGED <<file, secrets, rows, kept, raced, lost, asked>>

\* The verification, whatever it finds, and a login that is denied.
Ends(p) ==
    /\ procs[p].pc \in {"store", "verify"} /\ ~procs[p].removing /\ procs[p].todo = {}
    /\ Exits(p)
    /\ UNCHANGED <<disk, google, raced, left>>

-----------------------------------------------------------------------------
(* account imap-password and caldav-password *)

\* --enable-mail writes the mail block before the password is read.
EnableMail(view, n) ==
    LET a == view.accounts[n]
        mail == [backend |-> "imap", vendor |-> VendorOf(a), host |-> None, security |-> None]
    IN  [view EXCEPT !.accounts[n] = [a EXCEPT !.mail = {mail}, !.push = TRUE]]

SetPassword(p, n) ==
    /\ n \in DOMAIN file.accounts
    /\ LET view == Load(file)
           a    == view.accounts[n]
       IN  \E key \in AppPasswordKeys(n, a) :
             Starts(p, "commands", [Off EXCEPT !.pc = "store", !.name = n, !.todo = {key}])
    /\ UNCHANGED <<disk, google>>

BeginEnable(p, n) ==
    /\ n \in DOMAIN file.accounts
    /\ LET a == Load(file).accounts[n]
       IN  a.mail = {} /\ VendorOf(a) \in {"icloud", "fastmail"}   \* else no preset
    /\ Starts(p, "commands", [Off EXCEPT !.pc = "enable", !.name = n])
    /\ UNCHANGED <<disk, google>>

Enable(p) ==
    LET proc == procs[p]
        view == EnableMail(proc.view, proc.name)
    IN  /\ proc.pc = "enable"
        /\ Writes(p, view)
        /\ \E keys \in {{}, {Key(proc.name, "imap")}} :   \* no password given, or one
             Become(p, [proc EXCEPT !.pc = "store", !.view = view, !.todo = keys])
        /\ UNCHANGED <<secrets, tokens, rows, kept, google, left>>

-----------------------------------------------------------------------------
(* account remove: the secrets, then the rows, then the configuration, so that *)
(* a command that stops half-way leaves an account that can be removed again.  *)
(* What cannot be deleted is passed over: only rows that are refused (and a    *)
(* configuration that cannot be saved) end the command, as a crash there does. *)

Removes(n, a) ==
    SecretKeys(n, a) \cup IF UsesGoogle(a) THEN {Key(n, "token")} ELSE {}

BeginRemove(p, n) ==
    /\ n \in DOMAIN file.accounts
    /\ Starts(p, "commands", [Off EXCEPT !.pc = "store", !.name = n, !.removing = TRUE,
                                         !.todo = Removes(n, Load(file).accounts[n])])
    /\ UNCHANGED <<disk, google>>

\* The error of a deletion is ignored, and so is that of opening the secrets,
\* with which every deletion is left out.
DeleteSecret(p) ==
    LET proc == procs[p]
        Done(keys) == Become(p, [proc EXCEPT !.todo = @ \ keys])
    IN  /\ proc.pc = "store" /\ proc.removing
        /\ \E key \in proc.todo :
              \/ /\ secrets' = secrets \ {key} /\ kept' = kept \ {key}
                 /\ tokens' = IF key = Key(proc.name, "token")
                                THEN [tokens EXCEPT ![proc.name] = 0] ELSE tokens
                 /\ Done({key}) /\ UNCHANGED left
              \/ \E failed \in {{key}, proc.todo} :
                    /\ Spend("faults") /\ kept' = kept \cup failed /\ Done(failed)
                    /\ UNCHANGED <<secrets, tokens>>
        /\ UNCHANGED <<file, rows, google, raced>>

\* The rows, unless the index cannot be opened.
DeleteAccount(p) ==
    LET proc == procs[p]
        row  == Key(proc.name, "rows")
    IN  /\ proc.pc = "store" /\ proc.removing /\ proc.todo = {}
        /\ \/ rows' = rows \ {proc.name} /\ kept' = kept \ {row} /\ UNCHANGED left
           \/ Spend("faults") /\ kept' = kept \cup {row} /\ UNCHANGED rows
        /\ Become(p, [proc EXCEPT !.pc = "drop"])
        /\ UNCHANGED <<file, secrets, tokens, google, raced>>

\* Mutant of Without: the removed account stays the default.
Without_KeepsDefault(view, n) == [view EXCEPT !.accounts = Restrict(@, DOMAIN @ \ {n})]

Without(view, n) ==
    [view EXCEPT !.accounts = Restrict(@, DOMAIN @ \ {n}),
                 !.default = IF @ = n THEN None ELSE @]

SaveRemoved(p) ==
    LET proc == procs[p]
    IN  /\ proc.pc = "drop"
        /\ Writes(p, Without(proc.view, proc.name))
        /\ Exits(p)
        /\ UNCHANGED <<secrets, tokens, rows, kept, google, left>>

-----------------------------------------------------------------------------
(* Processes that sync *)

BeginSync(p) ==
    /\ Starts(p, "syncs", [Off EXCEPT !.pc = "sync"])
    /\ UNCHANGED <<disk, google>>

\* The row every pass over an account starts from.
EnsureAccount(p, n) ==
    /\ procs[p].pc = "sync" /\ Knows(p, n) /\ n \notin rows
    /\ rows' = rows \cup {n}
    /\ UNCHANGED <<file, secrets, tokens, kept, procs, google, raced, left>>

\* Factory.googleClients: the provider is built once and keeps its token.
Build(p, n) ==
    /\ procs[p].pc = "sync" /\ n \in DOMAIN procs[p].view.accounts
    /\ UsesGoogle(procs[p].view.accounts[n])
    /\ procs[p].held[n] = 0 /\ tokens[n] # 0
    /\ Become(p, [procs[p] EXCEPT !.held[n] = tokens[n]])
    /\ shared' = shared \cup HeldElsewhere(p, n)
    /\ UNCHANGED <<disk, live, minted, raced, lost, asked, left>>

\* Mutant of Remembered: the token the process was built with.
Remembered_First(before, answer) == before

\* What a refresh leaves in memory: the token of the answer, when it has one.
Remembered(before, answer) == answer

\* The access token has expired.  Google issues a new refresh token now and
\* then, and the old one stops working.  An access token lives far longer than
\* a save takes: a process refreshes no token that it is still writing.
Refresh(p, n) ==
    LET proc == procs[p]
        old  == proc.held[n]
        Answers(answer) ==
            Become(p, [proc EXCEPT !.held[n] = Remembered(old, answer),
                                   !.unsaved = @ \cup {<<n, answer>>}])
    IN  /\ proc.pc = "sync" /\ old # 0 /\ ~ \E t \in proc.unsaved : t[1] = n
        /\ \/ /\ <<n, old>> \notin live
              /\ asked' = asked \cup {n}
              /\ UNCHANGED <<procs, live, minted, left>>
           \/ /\ <<n, old>> \in live /\ Answers(old)
              /\ UNCHANGED <<live, minted, asked, left>>
           \/ /\ <<n, old>> \in live /\ Spend("tokens")
              /\ minted' = minted + 1 /\ Answers(minted')
              /\ live' = (live \ {<<n, old>>}) \cup {<<n, minted'>>}
              /\ UNCHANGED asked
        /\ UNCHANGED <<disk, raced, shared, lost>>

\* persistingSource: the whole token is written back, whatever is there.
SaveToken(p) ==
    \E t \in procs[p].unsaved :
       /\ tokens' = [tokens EXCEPT ![t[1]] = t[2]]
       /\ Become(p, [procs[p] EXCEPT !.unsaved = @ \ {t}])
       /\ UNCHANGED <<file, secrets, rows, kept, google, raced, left>>

\* A token that cannot be written is only logged.
SaveFails(p) ==
    \E t \in procs[p].unsaved :
       /\ Spend("faults")
       /\ lost' = lost \cup {t[1]}
       /\ Become(p, [procs[p] EXCEPT !.unsaved = @ \ {t}])
       /\ UNCHANGED <<disk, live, minted, shared, asked, raced>>

Stop(p) ==
    /\ procs[p].pc = "sync" /\ procs[p].unsaved = {} /\ Exits(p)
    /\ UNCHANGED <<disk, google, raced, left>>

Crash(p) ==
    /\ p \in Running /\ Spend("faults") /\ Exits(p)
    /\ lost' = lost \cup {t[1] : t \in procs[p].unsaved}
    /\ UNCHANGED <<disk, live, minted, shared, asked, raced>>

\* The user withdraws the consent, or changes the password.
Revoke(t) ==
    /\ t \in live /\ Spend("faults")
    /\ live' = live \ {t}
    /\ lost' = lost \cup {t[1]}
    /\ UNCHANGED <<disk, procs, minted, shared, asked, raced>>

-----------------------------------------------------------------------------

Init ==
    /\ file \in Files
    /\ LET accounts == Load(file).accounts
       IN  /\ secrets = UNION {SecretKeys(n, accounts[n]) : n \in DOMAIN accounts}
           /\ tokens = [n \in Names |->
                          IF n \in DOMAIN accounts /\ UsesGoogle(accounts[n]) THEN 1 ELSE 0]
           /\ rows = DOMAIN accounts
    /\ live = {<<n, 1>> : n \in {n \in Names : tokens[n] = 1}} /\ minted = 1
    /\ procs = [p \in Procs |-> Off]
    /\ kept = {} /\ raced = {} /\ shared = {} /\ lost = {} /\ asked = {}
    /\ left \in Budgets

Next ==
    \/ \E p \in Procs :
          \/ AddAccount(p) \/ GivesUp(p) \/ StoreSecret(p) \/ Login(p) \/ Ends(p)
          \/ Enable(p) \/ DeleteSecret(p) \/ DeleteAccount(p) \/ SaveRemoved(p)
          \/ BeginSync(p) \/ SaveToken(p) \/ SaveFails(p) \/ Stop(p) \/ Crash(p)
          \/ \E n \in Names : \/ BeginAdd(p, n) \/ SetPassword(p, n) \/ BeginEnable(p, n)
                              \/ BeginRemove(p, n) \/ EnsureAccount(p, n)
                              \/ Build(p, n) \/ Refresh(p, n)
    \/ \E t \in live : Revoke(t)

Spec == Init /\ [][Next]_vars

-----------------------------------------------------------------------------
(* Properties *)

Respelled(c) ==
    LET Known(s) == IF s \in {None, "tls", "starttls", "none"} THEN s ELSE None
        Of(a) == [a EXCEPT !.mail = {[m EXCEPT !.security = Known(@)] : m \in @}]
    IN  [c EXCEPT !.accounts = [n \in DOMAIN @ |-> Of(@[n])]]

\* The configuration file never holds a mistake of a command -- one would stop
\* every command, `account remove` as well, and leave only an editor -- but the
\* one `account add imap` can write, since it saves what it was given as
\* --security unchecked: an encryption that no command accepts afterwards
\* (Respelled puts the default in its place).  And what a process wrote from its
\* copy is read back as that copy: no default written down or left out (render,
\* materialize) changes an account, but for a calendar's vendor (Unpinned).
ConfigWhole ==
    /\ Validate(Respelled(Load(file)))
    /\ \A p \in Running : Load(Save(procs[p].view)) = Unpinned(procs[p].view)

\* Whatever is stored for an account can be removed with it: every secret,
\* token and row is one that `account remove` would delete, or a command that
\* is under way will -- wherever a command was interrupted.  Not so for what a
\* removal failed to delete and passed over (kept), nor for an account another
\* process worked on while it was changed: the daemon brings back what it knows.
Traceable ==
    LET accounts == Load(file).accounts
        Named(n) == n \in DOMAIN accounts
    IN  \A n \in Names \ raced :
          /\ \A kind \in Protocols : Key(n, kind) \in secrets \ kept =>
                Named(n) /\ Key(n, kind) \in SecretKeys(n, accounts[n])
          /\ tokens[n] # 0 /\ Key(n, "token") \notin kept =>
                Named(n) /\ UsesGoogle(accounts[n])
          /\ n \in rows /\ Key(n, "rows") \notin kept => Named(n)

\* A Google login is not lost by using it.  A process that alone used it is not
\* asked for a new one (refresher.Token keeps the token it was given), and what
\* is on disk works once nothing is left to be saved; a login that was revoked,
\* or whose new token could not be saved, excepted.  Two processes that hold one
\* login have no such promise: the last to write wins, also with a dead token.
LoginKept ==
    \A n \in Names \ (lost \cup raced \cup shared) :
      /\ n \notin asked
      /\ (tokens[n] # 0 /\ ~ \E p \in Procs : \E t \in procs[p].unsaved : t[1] = n)
           => <<n, tokens[n]>> \in live
=============================================================================
