------------------------------- MODULE Outbox -------------------------------
(***************************************************************************)
(* The write queue of emlcal: internal/sync/outbox.go over the outbox      *)
(* table of internal/store/state.go.                                       *)
(*                                                                         *)
(* A write is recorded and leased in one transaction, then pushed to the   *)
(* provider by whoever enqueued it (Apply), by the drain goroutine of its  *)
(* process (ApplyLater), or by an outbox pass of any process (RetryOutbox).*)
(* The lease is the only thing that keeps two of them off one row.         *)
(*                                                                         *)
(* Time is counted down instead of up: a lease, a push's context deadline  *)
(* and a backoff are the minutes they still have to run, and Tick is one   *)
(* minute going by.  A write is an opaque value; what it does to the index *)
(* is LocalWrite's business.                                               *)
(***************************************************************************)
EXTENDS Integers, Sequences, FiniteSets

CONSTANTS
    Writes,       \* the writes users ask for, each at most once
    NoWrite,      \* stands for no write
    SingleShot,   \* those that must not run twice: sends and drafts
    Deferrable,   \* those ApplyLater may hand to the drain goroutine
    MaxId,        \* bound: row ids the table can hold
    Procs,        \* operating system processes: CLI commands, TUI, daemon
    Callers,      \* goroutines that call Apply or ApplyLater
    Laters,       \* the callers among them that use ApplyLater: the TUI's
    Deferrers,    \* drain goroutines of deferPush
    Passers,      \* goroutines that run RetryOutbox
    ProcOf,       \* the process a goroutine belongs to
    Deadlined,    \* callers whose own context can die before they are done
    Lease,        \* outboxLease
    PushMax,      \* outboxLease - leaseMargin, the cap of leaseCtx
    DeferMax,     \* deferTimeout
    QueueCap,     \* deferQueue
    MaxAttempts,  \* maxOutboxAttempts
    BackoffCap,   \* the longest backoff
    MaxCrashes,   \* bound: processes that die without warning
    MaxSuspends,  \* bound: times the machine sleeps through every lease
    MaxDrops      \* bound: rows the user drops

Workers == Callers \cup Deferrers \cup Passers
Ids == 1..MaxId

ASSUME WorkersAssumption ==
    /\ Laters \subseteq Callers
    /\ Callers \cap Deferrers = {}
    /\ Callers \cap Passers = {}
    /\ Deferrers \cap Passers = {}
    /\ ProcOf \in [Workers -> Procs]

ASSUME WritesAssumption ==
    /\ SingleShot \subseteq Writes
    /\ Deferrable \subseteq Writes
    /\ SingleShot \cap Deferrable = {}
    /\ NoWrite \notin Writes

ASSUME TimesAssumption ==
    /\ Lease \in Nat /\ PushMax \in Nat /\ DeferMax \in Nat
    /\ QueueCap \in Nat /\ BackoffCap \in Nat
    /\ MaxAttempts \in Nat \ {0} /\ MaxId \in Nat \ {0}
    /\ PushMax < Lease
    /\ DeferMax <= PushMax

ASSUME BoundsAssumption == 
    MaxCrashes \in Nat /\ MaxSuspends \in Nat /\ MaxDrops \in Nat

VARIABLES
    rows,      \* the outbox table
    pc,        \* where each goroutine is
    item,      \* the row a goroutine is pushing, as it read it
    left,      \* what is left of a push's context
    outcome,   \* what the provider call came back with
    todo,      \* the rows a pass has listed and not yet looked at
    listed,    \* the ids a pass found pending when it started
    deferQ,    \* each process's queue of handed-off pushes
    retryAt,   \* each process's backoff timers
    crashes, suspends, drops,
    applied,   \* how often the provider carried a write out
    told,      \* what the user last heard of a write
    lost       \* how often a push of a write ended without its bookkeeping

table    == <<rows>>
history  == <<applied, told, lost>>
bounds   == <<crashes, suspends, drops>>
passVars == <<todo, listed>>
pushVars == <<pc, item, left, outcome>>
vars == <<rows, pc, item, left, outcome, todo, listed, deferQ, retryAt,
          crashes, suspends, drops, applied, told, lost>>

-----------------------------------------------------------------------------
(* The table and the in-memory records.                                    *)

\* A row as the pass reads it: enough to decide whether and what to push.
Item == [id : Ids, write : Writes \cup {NoWrite}, attempts : Nat]

\* done_at and failed_at are never both set: MarkOutboxDone clears the one,
\* MarkOutboxPermanentlyFailed leaves a row that has the other alone.
Row == [status : {"absent", "pending", "done", "failed"},
        write : Writes \cup {NoWrite}, attempts : Nat, lease : 0..Lease]

NoRow == [status |-> "absent", write |-> NoWrite, attempts |-> 0, lease |-> 0]

NoItem == [id |-> 1, write |-> NoWrite, attempts |-> 0]

\* How a provider call can end.  "prerequest" and "offline" are IsOffline;
\* only "prerequest" proves that nothing reached the server.  "deadline" is
\* the push's own context running out, which no provider calls offline.
Outcomes == {"ok", "rejected", "prerequest", "offline", "deadline"}

Pending(r) == r.status = "pending"

Present(r) == r.status # "absent"

\* Mutant of Retryable: an ambiguous failure of a send is retried too.
Retryable_AnyOffline(w, o) == o \in {"prerequest", "offline"}

Retryable(w, o) ==
    IF w \in SingleShot THEN o = "prerequest" ELSE o \in {"prerequest", "offline"}

\* 1m * 2^(attempts - 1), capped.
Backoff(n) == IF 2^(n - 1) \in 1..BackoffCap THEN 2^(n - 1) ELSE BackoffCap

Enqueued == {w \in Writes : told[w] # "unasked"}

\* SQLite gives a rowid one above the largest in the table, so dropping the
\* newest row frees its id for the next write.
NextId(id) ==
    /\ \A j \in Ids : Present(rows[j]) => j < id
    /\ \A j \in Ids : j = id - 1 => Present(rows[j])

Holding(g) == pc[g] \in {"calling", "answered"}

-----------------------------------------------------------------------------
(* The statements of internal/store/state.go, one per operator.  Each says *)
(* what becomes of the row; a row that is gone is left alone and the       *)
(* statement reports that it matched nothing.                              *)

EnqueueOutbox(w) == [status |-> "pending", write |-> w, attempts |-> 0, lease |-> 0]

\* Mutants of Leasable: the running lease, or failed_at, is not looked at.
Leasable_AnyLease(r) == Pending(r)

Leasable_Retired(r) == r.status \in {"pending", "failed"} /\ r.lease = 0

Leasable(r) == Pending(r) /\ r.lease = 0

LeaseOutbox(r) == [r EXCEPT !.lease = Lease]

ReleaseOutbox(r) == IF Present(r) THEN [r EXCEPT !.lease = 0] ELSE r

MarkOutboxDone(r) == IF Present(r) THEN [r EXCEPT !.status = "done"] ELSE r

MarkOutboxFailed(r) ==
    IF Present(r) THEN [r EXCEPT !.attempts = @ + 1, !.lease = 0] ELSE r

MarkOutboxPermanentlyFailed(r) ==
    IF Present(r) /\ r.status # "done"
    THEN [r EXCEPT !.attempts = @ + 1, !.status = "failed"] ELSE r

-----------------------------------------------------------------------------
Init ==
    /\ rows = [i \in Ids |-> NoRow]
    /\ pc = [g \in Workers |-> "idle"]
    /\ item = [g \in Workers |-> NoItem]
    /\ left = [g \in Workers |-> 0]
    /\ outcome = [g \in Workers |-> "ok"]
    /\ todo = [g \in Passers |-> {}]
    /\ listed = [g \in Passers |-> {}]
    /\ deferQ = [p \in Procs |-> <<>>]
    /\ retryAt = [p \in Procs |-> [i \in Ids |-> 0]]
    /\ crashes = 0 /\ suspends = 0 /\ drops = 0
    /\ applied = [w \in Writes |-> 0]
    /\ told = [w \in Writes |-> "unasked"]
    /\ lost = [w \in Writes |-> 0]

-----------------------------------------------------------------------------
(* Apply, ApplyLater and the drain goroutine.                              *)

\* A goroutine starts the provider call for an item, with d minutes to live.
StartCall(g, it, d) ==
    /\ pc' = [pc EXCEPT ![g] = "calling"]
    /\ item' = [item EXCEPT ![g] = it]
    /\ left' = [left EXCEPT ![g] = d]

\* A goroutine is through with its item.
Rest(g, where) ==
    /\ pc' = [pc EXCEPT ![g] = where]
    /\ item' = [item EXCEPT ![g] = NoItem]
    /\ left' = [left EXCEPT ![g] = 0]
    /\ outcome' = [outcome EXCEPT ![g] = "ok"]

\* enqueue: the row is inserted and leased in one transaction.
Enqueue(c, w, id) ==
    /\ pc[c] = "idle"
    /\ w \in Writes \ Enqueued
    /\ NextId(id)
    /\ rows' = [rows EXCEPT ![id] = LeaseOutbox(EnqueueOutbox(w))]
    /\ told' = [told EXCEPT ![w] = "asked"]

Deferred(c, w) == c \in Laters /\ w \in Deferrable

Apply(c, w, id) ==
    /\ ~Deferred(c, w)
    /\ Enqueue(c, w, id)
    /\ StartCall(c, [id |-> id, write |-> w, attempts |-> 0], PushMax)
    /\ UNCHANGED <<outcome, passVars, deferQ, retryAt, bounds, applied, lost>>

ApplyLater(c, w, id) ==
    /\ Deferred(c, w)
    /\ Enqueue(c, w, id)
    /\ pc' = [pc EXCEPT ![c] = "handoff"]
    /\ item' = [item EXCEPT ![c] = [id |-> id, write |-> w, attempts |-> 0]]
    /\ UNCHANGED <<left, outcome, passVars, deferQ, retryAt, bounds, applied, lost>>

\* deferPush: the push joins the queue, or the lease is given back.
HandOff(c) ==
    LET p == ProcOf[c]
        it == item[c]
    IN /\ pc[c] = "handoff"
       /\ \/ /\ Len(deferQ[p]) < QueueCap
             /\ deferQ' = [deferQ EXCEPT ![p] = Append(@, it)]
             /\ UNCHANGED <<rows, told>>
          \/ /\ Len(deferQ[p]) >= QueueCap
             /\ rows' = [rows EXCEPT ![it.id] = ReleaseOutbox(@)]
             /\ told' = [told EXCEPT ![it.write] = "queued"]
             /\ UNCHANGED deferQ
       /\ Rest(c, "idle")
       /\ UNCHANGED <<passVars, retryAt, bounds, applied, lost>>

\* The drain goroutine takes the oldest push; its context starts only now.
Dequeue(d) ==
    LET p == ProcOf[d]
    IN /\ pc[d] = "idle"
       /\ deferQ[p] # <<>>
       /\ deferQ' = [deferQ EXCEPT ![p] = Tail(@)]
       /\ StartCall(d, Head(deferQ[p]), DeferMax)
       /\ UNCHANGED <<rows, outcome, passVars, retryAt, bounds, history>>

-----------------------------------------------------------------------------
(* The provider call and what push does with its answer.                   *)

\* execute returns.  A request that reached the server may have been carried
\* out even though its answer was lost; a refusal or a connection that never
\* opened changed nothing there.
Answer(g, o) ==
    /\ pc[g] = "calling"
    /\ o = "deadline" => left[g] = 0 \/ g \in Deadlined
    /\ pc' = [pc EXCEPT ![g] = "answered"]
    /\ outcome' = [outcome EXCEPT ![g] = o]
    /\ \E n \in CASE o = "ok" -> {1}
                  [] o \in {"offline", "deadline"} -> {0, 1}
                  [] OTHER -> {0} :
           applied' = [applied EXCEPT ![item[g].write] = @ + n]
    /\ UNCHANGED <<rows, item, left, passVars, deferQ, retryAt, bounds, told, lost>>

Pushers == Callers \cup Deferrers

\* The context that the bookkeeping runs under, too, is dead: a caller's own may
\* be at any time, the drain goroutine's is the one its call runs out of.
MayBeDead(g) == g \in Deadlined \/ (g \in Deferrers /\ left[g] = 0)

SurelyDead(g) == g \in Deferrers /\ outcome[g] = "deadline"

\* push's bookkeeping, one statement per branch of its switch.  told is what
\* the caller returns to the user: an error whenever the statement matched no
\* row, and always when the write was refused.
Settle(g) ==
    LET it == item[g]
        o  == outcome[g]
        r  == rows[it.id]
    IN /\ g \in Pushers
       /\ pc[g] = "answered"
       /\ ~SurelyDead(g)
       /\ \/ /\ o = "ok"
             /\ rows' = [rows EXCEPT ![it.id] = MarkOutboxDone(@)]
             /\ told' = [told EXCEPT ![it.write] = IF Present(r) THEN "done" ELSE "failed"]
          \/ /\ Retryable(it.write, o)
             /\ rows' = [rows EXCEPT ![it.id] = MarkOutboxFailed(@)]
             /\ told' = [told EXCEPT ![it.write] = IF Present(r) THEN "queued" ELSE "failed"]
          \/ /\ o # "ok" /\ ~Retryable(it.write, o)
             /\ rows' = [rows EXCEPT ![it.id] = MarkOutboxPermanentlyFailed(@)]
             /\ told' = [told EXCEPT ![it.write] = "failed"]
       /\ Rest(g, "idle")
       /\ UNCHANGED <<passVars, deferQ, retryAt, bounds, applied, lost>>

\* The same, when the context the statement runs under is already dead:
\* BeginTx refuses, nothing is recorded and the user is shown an error.
SettleUnderDeadContext(g) ==
    /\ g \in Pushers
    /\ pc[g] = "answered"
    /\ MayBeDead(g)
    /\ told' = [told EXCEPT ![item[g].write] = "failed"]
    /\ lost' = [lost EXCEPT ![item[g].write] = @ + 1]
    /\ Rest(g, "idle")
    /\ UNCHANGED <<rows, passVars, deferQ, retryAt, bounds, applied>>

-----------------------------------------------------------------------------
(* RetryOutbox.                                                            *)

\* The pass reads every pending row once, at its start.
StartPass(g) ==
    LET ids == {i \in Ids : Pending(rows[i])}
    IN /\ pc[g] = "idle"
       /\ ids # {}
       /\ todo' = [todo EXCEPT ![g] =
              {[id |-> i, write |-> rows[i].write, attempts |-> rows[i].attempts] : i \in ids}]
       /\ listed' = [listed EXCEPT ![g] = ids]
       /\ pc' = [pc EXCEPT ![g] = "passing"]
       /\ UNCHANGED <<rows, item, left, outcome, deferQ, retryAt, bounds, history>>

\* The oldest item the pass has not looked at yet.
Look(g, it) ==
    /\ pc[g] = "passing"
    /\ it \in todo[g]
    /\ \A other \in todo[g] : it.id <= other.id
    /\ todo' = [todo EXCEPT ![g] = @ \ {it}]

SetTimer(p, id, n) == retryAt' = [retryAt EXCEPT ![p] = [@ EXCEPT ![id] = n]]

\* An item whose budget is spent is retired without being claimed.
GiveUp(g, it) ==
    /\ Look(g, it)
    /\ it.attempts >= MaxAttempts
    /\ rows' = [rows EXCEPT ![it.id] = MarkOutboxPermanentlyFailed(@)]
    /\ SetTimer(ProcOf[g], it.id, 0)
    /\ UNCHANGED <<pushVars, listed, deferQ, bounds, history>>

\* An item that is not due, or whose row LeaseOutbox will not claim, is left.
Skip(g, it) ==
    /\ Look(g, it)
    /\ it.attempts < MaxAttempts
    /\ retryAt[ProcOf[g]][it.id] > 0 \/ ~Leasable(rows[it.id])
    /\ UNCHANGED <<rows, pushVars, listed, deferQ, retryAt, bounds, history>>

Claim(g, it) ==
    /\ Look(g, it)
    /\ it.attempts < MaxAttempts
    /\ retryAt[ProcOf[g]][it.id] = 0
    /\ Leasable(rows[it.id])
    /\ rows' = [rows EXCEPT ![it.id] = LeaseOutbox(@)]
    /\ StartCall(g, it, PushMax)
    /\ UNCHANGED <<outcome, listed, deferQ, retryAt, bounds, history>>

\* The pass's bookkeeping.  A statement that matches no row ends the pass,
\* except when it only retires one.
SettlePass(g) ==
    LET it == item[g]
        o  == outcome[g]
        n  == it.attempts + 1
        p  == ProcOf[g]
        going == Present(rows[it.id])
        dead  == o # "ok" /\ (~Retryable(it.write, o) \/ n >= MaxAttempts)
    IN /\ g \in Passers
       /\ pc[g] = "answered"
       /\ \/ /\ o = "ok"
             /\ rows' = [rows EXCEPT ![it.id] = MarkOutboxDone(@)]
             /\ SetTimer(p, it.id, IF going THEN 0 ELSE Backoff(n))
             /\ todo' = IF going THEN todo ELSE [todo EXCEPT ![g] = {}]
          \/ /\ dead
             /\ rows' = [rows EXCEPT ![it.id] = MarkOutboxPermanentlyFailed(@)]
             /\ SetTimer(p, it.id, 0)
             /\ UNCHANGED todo
          \/ /\ o # "ok" /\ ~dead
             /\ rows' = [rows EXCEPT ![it.id] = MarkOutboxFailed(@)]
             /\ SetTimer(p, it.id, Backoff(n))
             /\ todo' = IF going THEN todo ELSE [todo EXCEPT ![g] = {}]
       /\ Rest(g, "passing")
       /\ UNCHANGED <<listed, deferQ, bounds, history>>

\* pruneRetryAt forgets the timers of rows the pass did not list.
EndPass(g) ==
    LET p == ProcOf[g]
    IN /\ pc[g] = "passing"
       /\ todo[g] = {}
       /\ retryAt' = [retryAt EXCEPT ![p] =
              [i \in Ids |-> IF i \in listed[g] THEN retryAt[p][i] ELSE 0]]
       /\ listed' = [listed EXCEPT ![g] = {}]
       /\ Rest(g, "idle")
       /\ UNCHANGED <<rows, todo, deferQ, bounds, history>>

-----------------------------------------------------------------------------
(* Time, crashes, sleep and the user's drop.                               *)

\* Mutant of Less: no lease ever expires.
Less_Stands(n) == n

\* A deadline one minute nearer; 0 is expired (leased_until <= now).
Less(n) == IF n = 0 THEN 0 ELSE n - 1

\* A minute goes by.  A provider call has returned by the time its context
\* is spent, and the statement that follows a call takes no minute of its
\* own: that is what leaseMargin is for.  The drain goroutine starts the next
\* push as soon as it is free.
Tick ==
    /\ \A g \in Workers : pc[g] = "calling" => left[g] > 0
    /\ \A g \in Workers : pc[g] \notin {"answered", "handoff"}
    /\ \A d \in Deferrers : pc[d] = "idle" => deferQ[ProcOf[d]] = <<>>
    /\ rows' = [i \in Ids |-> [rows[i] EXCEPT !.lease = Less(@)]]
    /\ left' = [g \in Workers |-> Less(left[g])]
    /\ retryAt' = [p \in Procs |-> [i \in Ids |-> Less(retryAt[p][i])]]
    /\ UNCHANGED <<pc, item, outcome, passVars, deferQ, bounds, history>>

\* A process dies: its goroutines, its queue and its timers with it.
Crash(p) ==
    LET mine == {g \in Workers : ProcOf[g] = p}
        cut  == {w \in Writes : \E g \in mine : Holding(g) /\ item[g].write = w}
    IN /\ crashes < MaxCrashes
       /\ \E g \in mine : pc[g] # "idle"
       /\ crashes' = crashes + 1
       /\ pc' = [g \in Workers |-> IF g \in mine THEN "idle" ELSE pc[g]]
       /\ item' = [g \in Workers |-> IF g \in mine THEN NoItem ELSE item[g]]
       /\ left' = [g \in Workers |-> IF g \in mine THEN 0 ELSE left[g]]
       /\ outcome' = [g \in Workers |-> IF g \in mine THEN "ok" ELSE outcome[g]]
       /\ todo' = [g \in Passers |-> IF g \in mine THEN {} ELSE todo[g]]
       /\ listed' = [g \in Passers |-> IF g \in mine THEN {} ELSE listed[g]]
       /\ deferQ' = [deferQ EXCEPT ![p] = <<>>]
       /\ retryAt' = [retryAt EXCEPT ![p] = [i \in Ids |-> 0]]
       /\ lost' = [w \in Writes |-> IF w \in cut THEN lost[w] + 1 ELSE lost[w]]
       /\ UNCHANGED <<rows, suspends, drops, applied, told>>

\* The machine sleeps.  leased_until is wall-clock time and runs on; context
\* deadlines and backoffs are monotonic time and do not.
Suspend ==
    /\ suspends < MaxSuspends
    /\ suspends' = suspends + 1
    /\ \E i \in Ids : rows[i].lease > 0
    /\ rows' = [i \in Ids |-> [rows[i] EXCEPT !.lease = 0]]
    /\ UNCHANGED <<pushVars, passVars, deferQ, retryAt, crashes, drops, history>>

\* `emlcal outbox drop <id>`: the row goes, whoever is holding it.
DropOutbox(id) ==
    /\ drops < MaxDrops
    /\ Present(rows[id])
    /\ drops' = drops + 1
    /\ rows' = [rows EXCEPT ![id] = NoRow]
    /\ UNCHANGED <<pushVars, passVars, deferQ, retryAt, crashes, suspends, history>>

-----------------------------------------------------------------------------
Push(g) == (\E o \in Outcomes : Answer(g, o)) \/ Settle(g) \/ SettleUnderDeadContext(g)

Pass(g) ==
    \/ StartPass(g)
    \/ \E it \in todo[g] : GiveUp(g, it) \/ Skip(g, it) \/ Claim(g, it)
    \/ SettlePass(g)
    \/ EndPass(g)

Ask == \E c \in Callers, w \in Writes, id \in Ids : Apply(c, w, id) \/ ApplyLater(c, w, id)

System ==
    \/ \E g \in Workers : Push(g)
    \/ \E c \in Callers : HandOff(c)
    \/ \E d \in Deferrers : Dequeue(d)
    \/ \E g \in Passers : Pass(g)

Faults == (\E p \in Procs : Crash(p)) \/ Suspend

Next == Ask \/ System \/ Tick \/ Faults \/ \E id \in Ids : DropOutbox(id)

Spec == Init /\ [][Next]_vars

\* The engine's goroutines keep running, the daemon's ticker keeps firing and
\* time goes by.  Nothing is assumed of users, crashes or the machine's sleep.
Fairness ==
    /\ \A g \in Workers : WF_vars(Push(g))
    /\ \A c \in Callers : WF_vars(HandOff(c))
    /\ \A d \in Deferrers : WF_vars(Dequeue(d))
    /\ \A g \in Passers : WF_vars(Pass(g))
    /\ WF_vars(Tick)

FairSpec == Spec /\ Fairness

-----------------------------------------------------------------------------
(* Properties.                                                             *)

TypeOK ==
    /\ rows \in [Ids -> Row]
    /\ pc \in [Workers -> {"idle", "handoff", "calling", "answered", "passing"}]
    /\ item \in [Workers -> Item]
    /\ left \in [Workers -> 0..PushMax]
    /\ outcome \in [Workers -> Outcomes]
    /\ todo \in [Passers -> SUBSET Item]
    /\ listed \in [Passers -> SUBSET Ids]
    /\ deferQ \in [Procs -> Seq(Item)]
    /\ retryAt \in [Procs -> [Ids -> 0..BackoffCap]]
    /\ crashes \in 0..MaxCrashes /\ suspends \in 0..MaxSuspends /\ drops \in 0..MaxDrops
    /\ applied \in [Writes -> Nat]
    /\ told \in [Writes -> {"unasked", "asked", "done", "queued", "failed"}]
    /\ lost \in [Writes -> Nat]

\* No row has been dropped and the machine has not slept.
Quiet == drops = 0 /\ suspends = 0

\* Two goroutines never execute the same write at the same time (migration
\* 0010: a pending row with a live lease is somebody's, and every push ends
\* inside its lease), as long as no row is dropped and the clock does not
\* outrun the contexts.  Deferred writes are left out: their lease starts
\* when they are enqueued and their push only when the queue reaches them.
SingleHolder ==
    Quiet => \A g, h \in Workers :
        (Holding(g) /\ Holding(h) /\ item[g].write = item[h].write
            /\ item[g].write \notin Deferrable) => g = h

\* A send or a draft goes out once, and once more at most for every push of
\* it that ended without its bookkeeping (retryable in outbox.go), unless a
\* row was dropped or the machine slept through a lease.
OncePerLoss == Quiet => \A w \in SingleShot : applied[w] <= 1 + lost[w]

\* A row says done only if the provider carried its own write out
\* (state.go: MarkOutboxDone records a successful apply), as long as no drop
\* has freed an id that a push still holds.
DoneMeansApplied == drops = 0 => \A i \in Ids : rows[i].status = "done" => applied[rows[i].write] > 0

\* A write the user was told has failed is never carried out afterwards
\* (RetryOutbox: nothing here re-sends a message the server already refused),
\* unless the bookkeeping of one of its pushes was lost, when the user was told
\* of a failure that no row records, a row was dropped or the machine slept
\* through a lease, when another goroutine may be at it.  Deferred writes are
\* left out here too: when three of them use up their time in the queue, the
\* lease of the fourth is over and a pass may be at it already.
FailedUnlessLost ==
    [][\A w \in Writes \ Deferrable :
        told[w] = "failed" /\ lost[w] = 0 /\ Quiet => applied'[w] = applied[w]]_vars

\* Once a row has left the queue and its last push is over, nobody starts
\* another push of it, whatever an older listing of the table says.
Pushed(w) == \E g \in Workers : Holding(g) /\ item[g].write = w

RetiredIsFinal ==
    [][\A i \in Ids, w \in Writes :
        /\ rows[i].write = w
        /\ rows[i].status \in {"done", "failed"}
        /\ w \notin Deferrable
        /\ ~Pushed(w)
        => ~Pushed(w)']_vars

\* Some row of the write still waits to be executed.
Unsettled(w) == \E i \in Ids : rows[i].write = w /\ Pending(rows[i])

\* Every write leaves the queue: it goes through or it is given up on after a
\* bounded number of attempts (RetryOutbox).
EventuallySettled == \A w \in Writes : Unsettled(w) ~> ~Unsettled(w)

\* What a run shows of effects: no send too many, and none that is only said.
Accounted == OncePerLoss /\ DoneMeansApplied

\* What it shows of ends: a row that left the queue, and a failure that was told,
\* are never gone back on.
StaysEnded == RetiredIsFinal /\ FailedUnlessLost
=============================================================================
