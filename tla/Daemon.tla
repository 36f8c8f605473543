------------------------------- MODULE Daemon -------------------------------
(***************************************************************************)
(* Who syncs an account, and when: the watch daemon of                     *)
(* internal/sync/watch.go and internal/cli/sync.go, the one-shot           *)
(* `emlcal sync`, and the account lock, pid file, signal and full-sync     *)
(* requests between them (internal/sync/engine.go, pidfile.go, offline.go).*)
(*                                                                         *)
(* A worker is one process looking after one account: a daemon's account   *)
(* loop or a one-shot sync.  What a pass does to the index is the business *)
(* of MailSync; here it runs, ends or fails.                               *)
(***************************************************************************)
EXTENDS Integers, FiniteSets

CONSTANTS
    Daemons,     \* processes that run `emlcal sync --watch`
    Supervised,  \* those of them the service manager restarts
    Shells,      \* processes that run `emlcal sync`, with or without --full
    Accounts,
    Pushed,      \* the resources a push stream reports changes of
    NoPid,       \* there is no pid file
    Stale,       \* the pid file names a process that is gone
    Free,        \* nobody holds the lock
    MaxSyncs,    \* bound: one-shot syncs the user starts
    MaxFailures, \* bound: passes that fail, of an outage or otherwise
    MaxStops,    \* bound: processes that are stopped or killed
    MaxHints,    \* bound: changes that a push stream tells of
    MaxFaults    \* bound: the last three together

Procs     == Daemons \cup Shells
Workers   == Procs \X Accounts
Loops     == Daemons \X Accounts
Resources == {"mail", "calendar"}
Firers    == {"push", "nudge"}

ASSUME ProcsAssumption ==
    /\ Daemons \cap Shells = {} /\ Supervised \subseteq Daemons
    /\ Pushed \subseteq Resources
    /\ {NoPid, Stale, Free} \cap Procs = {}
    /\ {MaxSyncs, MaxFailures, MaxStops, MaxFaults, MaxHints} \subseteq Nat

VARIABLES
    pidfile,   \* whose record it holds
    lock,      \* sync.<account>.lock: the process that holds it
    proc,      \* where each daemon is
    nudged,    \* daemons with a SIGUSR1 they have not acted on
    pc,        \* where each worker is
    opts,      \* SyncOptions: the resources its pass covers
    rest,      \* those it has not done yet
    forced,    \* "yes" when the user gave --full
    asked,     \* "yes" when it found a request for a full pass
    full,      \* "yes" when the next attempt is a full one
    pending,   \* accountWatch.pending: hints not taken yet
    sig,       \* accountWatch.sig: "full" or "empty"
    half,      \* firers that have merged a hint and not signalled yet
    req,       \* the "full:<resource>" rows of sync_state
    mail,      \* how far an account's mail is: "new", "synced", "open" (there
               \* is an unfinished backfill), or the process whose full pass
               \* has begun one and is still at it
    owed,      \* requests that found no full pass running and saw none end
    raced,     \* "yes" once two daemons have looked at the pid file together
    syncs, failures, stops, hints

wake   == <<pending, sig, half>>
start  == <<pidfile, proc, nudged, raced>>
job    == <<opts, rest, forced, asked, full>>
bounds == <<syncs, failures, stops, hints>>
vars   == <<start, lock, pc, job, wake, req, mail, owed, bounds>>

acct(w) == w[2]
Res(w) == IF "mail" \in rest[w] THEN "mail" ELSE "calendar"
Kept(w) == w[1] \in Daemons   \* the worker is a daemon's loop
InPass(w) == pc[w] \in {"begin", "attempt", "run", "retire", "offline"}

Init ==
    /\ pidfile = NoPid /\ raced = "no"
    /\ lock = [a \in Accounts |-> Free]
    /\ proc = [d \in Daemons |-> "down"]
    /\ nudged = {}
    /\ pc = [w \in Workers |-> "off"]
    /\ opts = [w \in Workers |-> {}] /\ rest = [w \in Workers |-> {}]
    /\ forced = [w \in Workers |-> "no"] /\ asked = [w \in Workers |-> "no"]
    /\ full = [w \in Workers |-> "no"]
    /\ pending = [l \in Loops |-> {}] /\ sig = [l \in Loops |-> "empty"]
    /\ half = {}
    /\ req = [a \in Accounts |-> {}]
    /\ mail = [a \in Accounts |-> "new"]
    /\ owed = {}
    /\ syncs = 0 /\ failures = 0 /\ stops = 0 /\ hints = 0

-----------------------------------------------------------------------------
(* Starting and stopping a daemon.                                         *)

\* Mutant of Alive: a daemon that is on its way out does not count.
Alive_Up(p) == p \in Daemons /\ proc[p] = "up"

\* The record carries boot id and start time, so a recycled pid is not taken
\* for the daemon: a record is stale from the moment its process is gone.
Alive(p) == p \in Daemons

CheckPid(d) ==
    /\ proc[d] = "down"
    /\ ~Alive(pidfile)
    /\ proc' = [proc EXCEPT ![d] = "checked"]
    /\ raced' = IF \E e \in Daemons : proc[e] = "checked" THEN "yes" ELSE raced
    /\ UNCHANGED <<pidfile, nudged, lock, pc, job, wake, req, mail, owed, bounds>>

\* The file is overwritten whatever it says by now.
WritePid(d) ==
    /\ proc[d] = "checked"
    /\ pidfile' = d
    /\ proc' = [proc EXCEPT ![d] = "written"]
    /\ UNCHANGED <<nudged, raced, lock, pc, job, wake, req, mail, owed, bounds>>

\* The signal is listened for from here on, and the loops start.
StartWatch(d) ==
    /\ proc[d] = "written"
    /\ proc' = [proc EXCEPT ![d] = "up"]
    /\ pc' = [w \in Workers |-> IF w[1] = d THEN "lock" ELSE pc[w]]
    /\ UNCHANGED <<pidfile, nudged, raced, lock, job, wake, req, mail, owed, bounds>>

\* SIGTERM, or an account loop that could not get its lock: the group's
\* context ends and every loop with it.
Stop(d) ==
    /\ proc[d] = "up" /\ stops < MaxStops /\ failures + stops + hints < MaxFaults
    /\ stops' = stops + 1
    /\ proc' = [proc EXCEPT ![d] = "leaving"]
    /\ UNCHANGED <<pidfile, nudged, raced, lock, pc, job, wake, req, mail, owed,
                   syncs, failures, hints>>

Idle(w) ==
    /\ rest' = [rest EXCEPT ![w] = {}] /\ opts' = [opts EXCEPT ![w] = {}]
    /\ forced' = [forced EXCEPT ![w] = "no"] /\ asked' = [asked EXCEPT ![w] = "no"]
    /\ full' = [full EXCEPT ![w] = "no"]

\* Mutant of Release: the release was deferred before the lock was had.
Release_Any(w) == lock' = [lock EXCEPT ![acct(w)] = Free]

\* What the process held, as the kernel or the deferred release gives it back.
Release(w) ==
    lock' = [lock EXCEPT ![acct(w)] = IF @ = w[1] THEN Free ELSE @]

\* A backfill outlives the pass that began it.
Abandon(w) ==
    mail' = [mail EXCEPT ![acct(w)] = IF @ = w[1] THEN "open" ELSE @]

\* A loop of a daemon that is leaving returns, wherever its pass was.
LeaveLoop(w) ==
    /\ Kept(w) /\ proc[w[1]] = "leaving" /\ pc[w] # "off"
    /\ pc' = [pc EXCEPT ![w] = "off"]
    /\ Release(w) /\ Idle(w) /\ Abandon(w)
    /\ UNCHANGED <<start, wake, req, owed, bounds>>

\* Watch has returned; the deferred Remove takes the pid file, whoever's it is.
Leave(d) ==
    /\ proc[d] = "leaving"
    /\ \A a \in Accounts : pc[<<d, a>>] = "off"
    /\ pidfile' = NoPid
    /\ proc' = [proc EXCEPT ![d] = "down"]
    /\ nudged' = nudged \ {d}
    /\ pending' = [l \in Loops |-> IF l[1] = d THEN {} ELSE pending[l]]
    /\ sig' = [l \in Loops |-> IF l[1] = d THEN "empty" ELSE sig[l]]
    /\ half' = {h \in half : h[2][1] # d}
    /\ UNCHANGED <<raced, lock, pc, job, req, mail, owed, bounds>>

\* SIGKILL, or the machine goes down.
Kill(d) ==
    /\ proc[d] # "down" /\ stops < MaxStops /\ failures + stops + hints < MaxFaults
    /\ stops' = stops + 1
    /\ proc' = [proc EXCEPT ![d] = "down"]
    /\ pidfile' = IF pidfile = d THEN Stale ELSE pidfile
    /\ nudged' = nudged \ {d}
    /\ lock' = [a \in Accounts |-> IF lock[a] = d THEN Free ELSE lock[a]]
    /\ pc' = [w \in Workers |-> IF w[1] = d THEN "off" ELSE pc[w]]
    /\ opts' = [w \in Workers |-> IF w[1] = d THEN {} ELSE opts[w]]
    /\ rest' = [w \in Workers |-> IF w[1] = d THEN {} ELSE rest[w]]
    /\ asked' = [w \in Workers |-> IF w[1] = d THEN "no" ELSE asked[w]]
    /\ full' = [w \in Workers |-> IF w[1] = d THEN "no" ELSE full[w]]
    /\ pending' = [l \in Loops |-> IF l[1] = d THEN {} ELSE pending[l]]
    /\ sig' = [l \in Loops |-> IF l[1] = d THEN "empty" ELSE sig[l]]
    /\ half' = {h \in half : h[2][1] # d}
    /\ mail' = [a \in Accounts |-> IF mail[a] = d THEN "open" ELSE mail[a]]
    /\ UNCHANGED <<forced, raced, req, owed, syncs, failures, hints>>

-----------------------------------------------------------------------------
(* The account loop: lock once, then a pass for every tick, hint or nudge. *)

BeginPass(w, S) ==
    /\ pc' = [pc EXCEPT ![w] = "begin"]
    /\ opts' = [opts EXCEPT ![w] = S] /\ rest' = [rest EXCEPT ![w] = S]

\* lockAccount does not wait.  The first pass covers everything.
LockLoop(w) ==
    /\ Kept(w) /\ pc[w] = "lock" /\ proc[w[1]] = "up"
    /\ \/ /\ lock[acct(w)] = Free
          /\ lock' = [lock EXCEPT ![acct(w)] = w[1]]
          /\ BeginPass(w, Resources)
          /\ UNCHANGED <<proc, forced, asked, full>>
       \/ /\ lock[acct(w)] # Free
          /\ pc' = [pc EXCEPT ![w] = "off"]
          /\ proc' = [proc EXCEPT ![w[1]] = "leaving"]
          /\ UNCHANGED <<lock, job>>
    /\ UNCHANGED <<pidfile, nudged, raced, wake, req, mail, owed, bounds>>

\* Mutant of Poll: a tick covers mail only, like most hints.
Poll_Mail(w) ==
    /\ Kept(w) /\ pc[w] = "wait" /\ proc[w[1]] = "up"
    /\ BeginPass(w, {"mail"})
    /\ UNCHANGED <<start, lock, forced, asked, full, wake, req, mail, owed, bounds>>

Poll(w) ==
    /\ Kept(w) /\ pc[w] = "wait" /\ proc[w[1]] = "up"
    /\ BeginPass(w, Resources)
    /\ UNCHANGED <<start, lock, forced, asked, full, wake, req, mail, owed, bounds>>

\* A wake-up starts the debounce, and those during it are swallowed.
Wake(w) ==
    /\ Kept(w) /\ pc[w] \in {"wait", "debounce"} /\ proc[w[1]] = "up"
    /\ sig[w] = "full"
    /\ sig' = [sig EXCEPT ![w] = "empty"]
    /\ pc' = [pc EXCEPT ![w] = "debounce"]
    /\ UNCHANGED <<start, lock, job, pending, half, req, mail, owed, bounds>>

\* take: what has been merged until now, or everything.
Debounced(w) ==
    /\ Kept(w) /\ pc[w] = "debounce" /\ proc[w[1]] = "up"
    /\ pending' = [pending EXCEPT ![w] = {}]
    /\ BeginPass(w, IF pending[w] = {} THEN Resources ELSE pending[w])
    /\ UNCHANGED <<start, lock, forced, asked, full, sig, half, req, mail, owed, bounds>>

\* fire, first half: the push stream, connected once the loop has its lock,
\* merges a hint under the mutex.
Hint(l, S) ==
    /\ proc[l[1]] = "up" /\ pc[l] \notin {"off", "lock"}
    /\ <<"push", l>> \notin half /\ hints < MaxHints /\ failures + stops + hints < MaxFaults
    /\ hints' = hints + 1
    /\ pending' = [pending EXCEPT ![l] = @ \cup S]
    /\ half' = half \cup {<<"push", l>>}
    /\ UNCHANGED <<start, lock, pc, job, sig, req, mail, owed, syncs, failures, stops>>

\* Mutant of Signal: the channel has no buffer, so only a receiver gets it.
Signal_Unbuffered(h) ==
    /\ h \in half
    /\ half' = half \ {h}
    /\ sig' = [sig EXCEPT ![h[2]] =
                 IF pc[h[2]] \in {"wait", "debounce"} THEN "full" ELSE @]
    /\ UNCHANGED <<start, lock, pc, job, pending, req, mail, owed, bounds>>

\* fire, second half: the non-blocking send.
Signal(h) ==
    /\ h \in half
    /\ half' = half \ {h}
    /\ sig' = [sig EXCEPT ![h[2]] = "full"]
    /\ UNCHANGED <<start, lock, pc, job, pending, req, mail, owed, bounds>>

\* SIGUSR1 reaches the daemon: Nudge fires at every account.
Nudge(d) ==
    /\ d \in nudged /\ proc[d] = "up"
    /\ nudged' = nudged \ {d}
    /\ pending' = [l \in Loops |-> IF l[1] = d THEN Resources ELSE pending[l]]
    /\ half' = half \cup {<<"nudge", <<d, a>>>> : a \in Accounts}
    /\ UNCHANGED <<pidfile, proc, raced, lock, pc, job, sig, req, mail, owed, bounds>>

-----------------------------------------------------------------------------
(* One pass, of a loop or of a one-shot sync: mail first, then calendars.  *)

YesNo(b) == IF b THEN "yes" ELSE "no"

\* fullRequested is read once per resource, before the first attempt.
Begin(w) ==
    /\ pc[w] = "begin" /\ rest[w] # {}
    /\ asked' = [asked EXCEPT ![w] = YesNo(Res(w) \in req[acct(w)])]
    /\ full' = [full EXCEPT ![w] = YesNo(forced[w] = "yes" \/ Res(w) \in req[acct(w)])]
    /\ pc' = [pc EXCEPT ![w] = "attempt"]
    /\ UNCHANGED <<start, lock, opts, rest, forced, wake, req, mail, owed, bounds>>

\* What syncMail makes of it: a full pass without a state throws an open
\* backfill away and begins its own.
Attempt(w) ==
    /\ pc[w] = "attempt"
    /\ pc' = [pc EXCEPT ![w] = "run"]
    /\ LET m == mail[acct(w)] IN
       mail' = [mail EXCEPT ![acct(w)] =
                  IF Res(w) = "calendar" \/ m = "synced" THEN m
                  ELSE IF full[w] = "yes" THEN w[1]
                  ELSE IF m = "new" THEN "open" ELSE m]
    /\ UNCHANGED <<start, lock, job, wake, req, owed, bounds>>

\* Mutant of Done: any pass that ends well retires the request it finds.
Done_Any(w) ==
    /\ pc[w] = "run"
    /\ mail' = [mail EXCEPT ![acct(w)] = IF Res(w) = "mail" THEN "synced" ELSE @]
    /\ owed' = IF asked[w] = "yes" \/ forced[w] = "yes"
               THEN owed \ {<<acct(w), Res(w)>>} ELSE owed
    /\ pc' = [pc EXCEPT ![w] = "retire"]
    /\ UNCHANGED <<start, lock, job, wake, req, bounds>>

\* The attempt ends well.
Done(w) ==
    /\ pc[w] = "run"
    /\ mail' = [mail EXCEPT ![acct(w)] = IF Res(w) = "mail" THEN "synced" ELSE @]
    /\ owed' = IF asked[w] = "yes" \/ forced[w] = "yes"
               THEN owed \ {<<acct(w), Res(w)>>} ELSE owed
    /\ IF asked[w] = "yes"
         THEN pc' = [pc EXCEPT ![w] = "retire"] /\ UNCHANGED rest
         ELSE /\ pc' = [pc EXCEPT ![w] = "begin"]
              /\ rest' = [rest EXCEPT ![w] = @ \ {Res(w)}]
    /\ UNCHANGED <<start, lock, opts, forced, asked, full, wake, req, bounds>>

\* fullDone.
Retire(w) ==
    /\ pc[w] = "retire"
    /\ req' = [req EXCEPT ![acct(w)] = @ \ {Res(w)}]
    /\ rest' = [rest EXCEPT ![w] = @ \ {Res(w)}]
    /\ pc' = [pc EXCEPT ![w] = "begin"]
    /\ UNCHANGED <<start, lock, opts, forced, asked, full, wake, mail, owed, bounds>>

EndPass(w) ==
    /\ pc[w] = "begin" /\ rest[w] = {}
    /\ Idle(w)
    /\ IF Kept(w) THEN pc' = [pc EXCEPT ![w] = "wait"] /\ UNCHANGED lock
                  ELSE pc' = [pc EXCEPT ![w] = "off"] /\ Release(w)
    /\ UNCHANGED <<start, wake, req, mail, owed, bounds>>

\* The retry of a one-shot sync: a backfill it has begun is resumed.
Retried(w) == IF Res(w) = "mail" /\ mail[acct(w)] # "synced" THEN "no" ELSE full[w]

\* The attempt fails and takes the pass with it: a daemon rides an outage out
\* and then runs the whole pass again; a one-shot sync tries the resource
\* again while its budget lasts.
Fail(w) ==
    /\ pc[w] = "run" /\ failures < MaxFailures /\ failures + stops + hints < MaxFaults
    /\ failures' = failures + 1
    /\ \/ /\ Kept(w)
          /\ pc' = [pc EXCEPT ![w] = "offline"]
          /\ UNCHANGED <<lock, job, mail>>
       \/ /\ Kept(w)
          /\ pc' = [pc EXCEPT ![w] = "wait"] /\ Idle(w) /\ Abandon(w)
          /\ UNCHANGED lock
       \/ /\ ~Kept(w)
          /\ pc' = [pc EXCEPT ![w] = "attempt"]
          /\ full' = [full EXCEPT ![w] = Retried(w)]
          /\ UNCHANGED <<lock, opts, rest, forced, asked, mail>>
       \/ /\ ~Kept(w)
          /\ pc' = [pc EXCEPT ![w] = "off"] /\ Release(w) /\ Idle(w) /\ Abandon(w)
    /\ UNCHANGED <<start, wake, req, owed, syncs, stops, hints>>

RideOut(w) ==
    /\ pc[w] = "offline" /\ proc[w[1]] = "up"
    /\ BeginPass(w, opts[w])
    /\ UNCHANGED <<start, lock, forced, asked, full, wake, req, mail, owed, bounds>>

-----------------------------------------------------------------------------
(* `emlcal sync`, one account of it.                                       *)

Sync(w, f) ==
    /\ ~Kept(w) /\ pc[w] = "off" /\ syncs < MaxSyncs
    /\ syncs' = syncs + 1
    /\ pc' = [pc EXCEPT ![w] = "lock"]
    /\ forced' = [forced EXCEPT ![w] = f]
    /\ UNCHANGED <<start, lock, opts, rest, asked, full, wake, req, mail, owed,
                   failures, stops, hints>>

\* Ctrl-C or a kill, anywhere.
Interrupt(w) ==
    /\ ~Kept(w) /\ pc[w] # "off" /\ stops < MaxStops /\ failures + stops + hints < MaxFaults
    /\ stops' = stops + 1
    /\ pc' = [pc EXCEPT ![w] = "off"]
    /\ Release(w) /\ Idle(w) /\ Abandon(w)
    /\ UNCHANGED <<start, wake, req, owed, syncs, failures, hints>>

LockSync(w) ==
    /\ ~Kept(w) /\ pc[w] = "lock"
    /\ \/ /\ lock[acct(w)] = Free
          /\ lock' = [lock EXCEPT ![acct(w)] = w[1]]
          /\ BeginPass(w, Resources)
       \/ /\ lock[acct(w)] # Free
          /\ pc' = [pc EXCEPT ![w] = IF forced[w] = "yes" THEN "request" ELSE "nudge"]
          /\ rest' = [rest EXCEPT ![w] = IF forced[w] = "yes" THEN Resources ELSE {}]
          /\ UNCHANGED <<lock, opts>>
    /\ UNCHANGED <<start, forced, asked, full, wake, req, mail, owed, bounds>>

\* Some full pass over the resource is under way and will retire requests.
FullRunning(a, r) ==
    \E w \in Workers : /\ acct(w) = a /\ asked[w] = "yes" /\ Res(w) = r
                       /\ pc[w] \in {"attempt", "run", "retire", "offline"}

\* RequestFull stores one row per resource.  A new --full is entitled to throw
\* an open backfill away.
RequestFull(w) ==
    /\ pc[w] = "request"
    /\ LET a == acct(w)
           r == Res(w)
       IN /\ req' = [req EXCEPT ![a] = @ \cup {r}]
          /\ owed' = IF FullRunning(a, r) THEN owed ELSE owed \cup {<<a, r>>}
          /\ mail' = [mail EXCEPT ![a] = IF r = "mail" /\ @ \in Procs THEN "open" ELSE @]
          /\ rest' = [rest EXCEPT ![w] = @ \ {r}]
          /\ pc' = [pc EXCEPT ![w] = IF rest[w] = {r} THEN "nudge" ELSE "request"]
    /\ UNCHANGED <<start, lock, opts, forced, asked, full, wake, bounds>>

\* NudgeDaemon: a signal sent before the daemon listens does nothing.
NudgeDaemon(w) ==
    /\ pc[w] = "nudge"
    /\ nudged' = IF Alive(pidfile) /\ proc[pidfile] = "up" THEN nudged \cup {pidfile}
                                                          ELSE nudged
    /\ pc' = [pc EXCEPT ![w] = "off"]
    /\ Idle(w)
    /\ UNCHANGED <<pidfile, proc, raced, lock, wake, req, mail, owed, bounds>>

-----------------------------------------------------------------------------
Pass(w) == Begin(w) \/ Attempt(w) \/ Done(w) \/ Retire(w) \/ EndPass(w) \/ RideOut(w)

Loop(w) == LockLoop(w) \/ Poll(w) \/ Wake(w) \/ Debounced(w) \/ LeaveLoop(w)

Command(w) == LockSync(w) \/ RequestFull(w) \/ NudgeDaemon(w)

Service(d) == WritePid(d) \/ StartWatch(d) \/ Leave(d)

Next ==
    \/ \E d \in Daemons : CheckPid(d) \/ Service(d) \/ Nudge(d) \/ Stop(d) \/ Kill(d)
    \/ \E w \in Workers : Pass(w) \/ Fail(w) \/ Loop(w) \/ Command(w) \/ Interrupt(w)
    \/ \E l \in Loops, r \in Pushed : Hint(l, {r})
    \/ \E h \in half : Signal(h)
    \/ \E w \in Workers, f \in {"yes", "no"} : Sync(w, f)

Spec == Init /\ [][Next]_vars

\* systemd restarts its service, the loops and commands that run get on with
\* it, and a tick of the poll timer stays in its channel until the loop's
\* select, which picks at random, takes it.  Nothing is assumed of users,
\* outages, push streams or signals: no nudge need ever arrive.
Step(w) == Pass(w) \/ Command(w) \/ LockLoop(w) \/ Debounced(w) \/ LeaveLoop(w)

Fairness ==
    /\ \A d \in Supervised : WF_vars(CheckPid(d))
    /\ \A d \in Daemons : WF_vars(Service(d))
    /\ \A w \in Workers : WF_vars(Step(w))
    /\ \A l \in Loops : SF_vars(Poll(l))

FairSpec == Spec /\ Fairness

-----------------------------------------------------------------------------
(* Properties.                                                             *)

PCs == {"off", "lock", "wait", "debounce", "begin", "attempt", "run", "retire",
        "offline", "request", "nudge"}

TypeOK ==
    /\ pidfile \in Daemons \cup {NoPid, Stale}
    /\ lock \in [Accounts -> Procs \cup {Free}]
    /\ proc \in [Daemons -> {"down", "checked", "written", "up", "leaving"}]
    /\ nudged \subseteq Daemons
    /\ pc \in [Workers -> PCs]
    /\ opts \in [Workers -> SUBSET Resources] /\ rest \in [Workers -> SUBSET Resources]
    /\ forced \in [Workers -> {"yes", "no"}] /\ asked \in [Workers -> {"yes", "no"}]
    /\ full \in [Workers -> {"yes", "no"}]
    /\ pending \in [Loops -> SUBSET Resources] /\ sig \in [Loops -> {"full", "empty"}]
    /\ half \subseteq Firers \X Loops
    /\ req \in [Accounts -> SUBSET Resources]
    /\ mail \in [Accounts -> {"new", "open", "synced"} \cup Procs]
    /\ owed \subseteq Accounts \X Resources
    /\ raced \in {"yes", "no"}
    /\ syncs \in 0..MaxSyncs /\ failures \in 0..MaxFailures /\ stops \in 0..MaxStops
    /\ hints \in 0..MaxHints

\* One pass per account at a time, over all processes, and through every way a
\* process can end (lockAccount; MailSync rests on it).
OnePass == \A v, w \in Workers : acct(v) = acct(w) /\ InPass(v) /\ InPass(w) => v = w

\* A hint or a nudge is never forgotten: while it waits to be taken, something
\* is on its way that will wake the loop (accountWatch: hints are merged).
HintWakes ==
    \A l \in Loops : pending[l] # {} /\ proc[l[1]] = "up" =>
        sig[l] = "full" \/ pc[l] = "debounce" \/ \E f \in Firers : <<f, l>> \in half

\* A stored request stays until a full pass over its resource has ended well
\* (RequestFull: whichever sync runs next honours it).
NoRequestLost == \A o \in owed : o[2] \in req[o[1]]

\* Whoever wants to nudge the daemon finds it: as long as no two daemons were
\* started together, the pid file names the one that is running.
PidNamesDaemon ==
    raced = "no" => \A d \in Daemons : proc[d] \in {"written", "up", "leaving"} => pidfile = d

\* syncAccount: --full only applies to the first attempt; once a backfill row
\* exists, a retry has to resume it rather than start over.  Here for one-shot
\* syncs.
Restarts(w) == pc[w] = "attempt" /\ Res(w) = "mail" /\ full[w] = "yes" /\ mail[acct(w)] = w[1]
ShellResumes == \A w \in Workers : ~Kept(w) => ~Restarts(w)

\* Every request for a full pass is honoured in the end.
RequestHonoured ==
    \A a \in Accounts, r \in Resources : r \in req[a] ~> r \notin req[a]

\* A request ends in a full pass, and a shell that retries one does not begin it again.
FullPasses == []ShellResumes /\ RequestHonoured
=============================================================================
