------------------------------ MODULE LocalWrite ------------------------------
(***************************************************************************)
(* What a local write does to the index, beside the passes that bring it   *)
(* the provider's state: the optimistic patch and its rollback             *)
(* (internal/sync/outbox.go), the fence that protects it                   *)
(* (internal/store/messages.go) and the recheck of fences that expired     *)
(* (internal/sync/mail.go).                                                *)
(*                                                                         *)
(* One message, whose flags and memberships are the values of Fields, and  *)
(* any number of writes on it.  How rows of the outbox are leased, tried   *)
(* again and given up on is the business of Outbox: here a write is pushed *)
(* by one goroutine at a time.                                             *)
(***************************************************************************)
EXTENDS Integers, Sequences, FiniteSets

CONSTANTS
    Fields,     \* the flags of the message and its mailboxes
    Values,     \* what a field can be
    Origin,     \* the message as everybody knows it at the start
    Writes,     \* the writes users ask for, each at most once
    Shows,      \* what patchLocal puts in the index: some fields' values
    Does,       \* what the provider makes of the write
    Deferrable, \* writes ApplyLater may queue: none on IMAP
    QueueCap,   \* deferQueue
    Window,     \* localPatchWindow
    NoUndo,     \* nobody remembers what a write overwrote
    Budget,     \* bound: how often each of Faults may happen
    MaxKinds    \* bound: how many of them in one behaviour

States == [Fields -> Values]
Patches == UNION {[S -> Values] : S \in SUBSET Fields}
Faults == {"other",    \* another client changes the message
           "offline",  \* a push fails on the way
           "refuse",   \* the provider refuses a write
           "deadline", \* a push runs out of its context
           "crash",    \* a process dies
           "abort"}    \* a pass dies

ASSUME StatesAssumption == Origin \in States /\ NoUndo \notin States
ASSUME WritesAssumption ==
    /\ Shows \in [Writes -> Patches] /\ Does \in [Writes -> Patches]
    /\ Deferrable \subseteq Writes
ASSUME BoundsAssumption ==
    /\ QueueCap \in Nat /\ Window \in Nat \ {0}
    /\ Budget \in [Faults -> Nat] /\ MaxKinds \in Nat

VARIABLES
    \* the provider
    remote,   \* the message there
    rev,      \* how often it has changed, the journal's length
    \* the database
    index,    \* the message's row
    fence,    \* minutes until local_patch_at is too old, or NoFence
    row,      \* the outbox row of each write
    token,    \* sync_state: the position everything up to is applied
    \* the processes that push
    at,       \* where the push of each write is
    out,      \* how its call ended
    undo,     \* rollback: what the write overwrote, while its asker lives
    queue,    \* deferQ of the terminal interface
    \* the pass
    pc, upto, env,
    \* bookkeeping of the model
    order,    \* the writes in the order they were asked for
    loose,    \* those somebody else than the queue pushes or has pushed
    foreign,  \* fields other clients have touched
    sound,    \* "no" from a rollback that put back what the provider no longer
              \* has, and will not mention, until the next state applied
    spent     \* how often each fault happened

provider == <<remote, rev>>
database == <<index, fence, row, token>>
pushes   == <<at, out, undo, queue>>
pass     == <<pc, upto, env>>
history  == <<order, loose, foreign>>
vars == <<provider, database, pushes, pass, history, sound, spent>>

NoFence == -1          \* local_patch_at is NULL
Expired == 0

Live(f) == f > Expired

\* A state after a patch of some of its fields.
Patched(s, p) == [f \in Fields |-> IF f \in DOMAIN p THEN p[f] ELSE s[f]]

Pending(w) == row[w] = "pending"

Spend(f) == /\ spent[f] < Budget[f]
            /\ spent' = [spent EXCEPT ![f] = @ + 1]
            /\ Cardinality({g \in Faults : spent'[g] > 0}) <= MaxKinds

\* Every step of the message at the provider is one of its journal.
Move(s) == /\ remote' = s
           /\ rev' = IF s = remote THEN rev ELSE rev + 1

Init ==
    /\ remote = Origin /\ rev = 0
    /\ index = Origin /\ fence = NoFence /\ token = 0
    /\ row = [w \in Writes |-> "unasked"]
    /\ at = [w \in Writes |-> "no"] /\ out = [w \in Writes |-> "ok"]
    /\ undo = [w \in Writes |-> NoUndo] /\ queue = <<>>
    /\ pc = "idle" /\ upto = 0 /\ env = Origin
    /\ order = <<>> /\ loose = {} /\ foreign = {}
    /\ sound = "yes" /\ spent = [f \in Faults |-> 0]

-----------------------------------------------------------------------------
(* Asking for a write: the row, the patch and the fence in one transaction. *)

PatchLocal(w) ==
    /\ index' = Patched(index, Shows[w])
    /\ fence' = Window

\* Apply goes on to the provider; ApplyLater queues the push, or leaves it to
\* the outbox when the queue is full.
Ask(w) ==
    /\ row[w] = "unasked"
    /\ row' = [row EXCEPT ![w] = "pending"]
    /\ PatchLocal(w)
    /\ order' = Append(order, w)
    /\ \/ /\ at' = [at EXCEPT ![w] = "calling"]
          /\ undo' = [undo EXCEPT ![w] = index]
          /\ loose' = loose \cup {w}
          /\ UNCHANGED queue
       \/ /\ w \in Deferrable /\ Len(queue) < QueueCap
          /\ at' = [at EXCEPT ![w] = "queued"]
          /\ undo' = [undo EXCEPT ![w] = index]
          /\ queue' = Append(queue, w)
          /\ UNCHANGED loose
       \/ /\ w \in Deferrable /\ Len(queue) >= QueueCap
          /\ loose' = loose \cup {w}
          /\ UNCHANGED <<at, undo, queue>>
    /\ UNCHANGED <<provider, token, out, pass, foreign, sound, spent>>

-----------------------------------------------------------------------------
(* Pushing it.                                                             *)

\* One goroutine drains the queue: the next push starts when the last is over.
Dequeue ==
    /\ queue # <<>>
    /\ \A w \in Writes \ loose : at[w] \in {"no", "queued"}
    /\ at' = [at EXCEPT ![Head(queue)] = "calling"]
    /\ queue' = Tail(queue)
    /\ UNCHANGED <<provider, database, out, undo, pass, history, sound, spent>>

\* An outbox pass of any process takes a row nobody is at.
Claim(w) ==
    /\ Pending(w) /\ at[w] = "no"
    /\ at' = [at EXCEPT ![w] = "calling"]
    /\ loose' = loose \cup {w}
    /\ UNCHANGED <<provider, database, out, undo, queue, pass, order, foreign, sound, spent>>

\* The call returns.  One that failed on the way may have been carried out.
Answer(w) ==
    /\ at[w] = "calling"
    /\ at' = [at EXCEPT ![w] = "answered"]
    /\ \/ /\ out' = [out EXCEPT ![w] = "ok"]
          /\ Move(Patched(remote, Does[w]))
          /\ UNCHANGED spent
       \/ /\ out' = [out EXCEPT ![w] = "refuse"] /\ Spend("refuse")
          /\ UNCHANGED provider
       \/ \E o \in {"offline", "deadline"} :
             /\ out' = [out EXCEPT ![w] = o] /\ Spend(o)
             /\ Move(Patched(remote, Does[w])) \/ UNCHANGED provider
    /\ UNCHANGED <<database, undo, queue, pass, history, sound>>

\* A push of w is over, with the row in the given state.
Over(w, status) ==
    /\ row' = [row EXCEPT ![w] = status]
    /\ at' = [at EXCEPT ![w] = "no"]
    /\ out' = [out EXCEPT ![w] = "ok"]
    /\ undo' = [undo EXCEPT ![w] = NoUndo]

Done(w) ==
    /\ at[w] = "answered" /\ out[w] = "ok"
    /\ Over(w, "done")
    /\ UNCHANGED <<provider, index, fence, token, queue, pass, history, sound, spent>>

\* retryable: the row stays.  An outbox pass gives up on it one day, and then
\* leaves the index as it is.
Requeue(w) ==
    /\ at[w] = "answered" /\ out[w] = "offline"
    /\ Over(w, "pending") \/ (undo[w] = NoUndo /\ Over(w, "failed"))
    /\ loose' = loose \cup {w}
    /\ UNCHANGED <<provider, index, fence, token, queue, pass, order, foreign, sound, spent>>

Rejected(w) == at[w] = "answered" /\ out[w] \in {"refuse", "deadline"}

\* push puts the index back the way it was when the write was asked for, and
\* the fence goes with it.
Rollback(w) ==
    /\ Rejected(w) /\ undo[w] # NoUndo
    /\ index' = undo[w] /\ fence' = NoFence
    /\ sound' = IF undo[w] = remote \/ token < rev THEN sound ELSE "no"
    /\ at' = [at EXCEPT ![w] = "undone"]
    /\ UNCHANGED <<provider, row, token, out, undo, queue, pass, history, spent>>

\* After the rollback; at once in an outbox pass.
FailPermanently(w) ==
    /\ at[w] = "undone" \/ (Rejected(w) /\ undo[w] = NoUndo)
    /\ Over(w, "failed")
    /\ UNCHANGED <<provider, index, fence, token, queue, pass, history, sound, spent>>

\* The asker's own context is dead: neither of the two transactions runs.
LeaveUnrecorded(w) ==
    /\ Rejected(w) /\ out[w] = "deadline" /\ undo[w] # NoUndo
    /\ Over(w, "pending")
    /\ loose' = loose \cup {w}
    /\ UNCHANGED <<provider, index, fence, token, queue, pass, order, foreign, sound, spent>>

\* The goroutines of one process: the terminal interface with its queue, or
\* whoever is at a write.
Pushers == {Writes \ loose} \cup {{w} : w \in loose}

\* What it was at is anybody's from then on; what is asked for later has a queue again.
Crash(S) ==
    /\ \E w \in S : at[w] # "no"
    /\ Spend("crash")
    /\ at' = [w \in Writes |-> IF w \in S THEN "no" ELSE at[w]]
    /\ out' = [w \in Writes |-> IF w \in S THEN "ok" ELSE out[w]]
    /\ undo' = [w \in Writes |-> IF w \in S THEN NoUndo ELSE undo[w]]
    /\ queue' = IF \E w \in S : at[w] = "queued" THEN <<>> ELSE queue
    /\ loose' = loose \cup {w \in S : Pending(w)}
    /\ UNCHANGED <<provider, database, pass, order, foreign, sound>>

-----------------------------------------------------------------------------
(* What a pass does to the row (internal/store/messages.go).               *)

\* Mutant of Accepts: the fence is not looked at.
Accepts_Always(s) == TRUE

\* A live fence lets only that pass which agrees with it.
Accepts(s) == Live(fence) => index = s

\* Agreement drops the fence early, and so does the provider's word on an
\* expired one.
ApplyRemoteState(s) ==
    IF Accepts(s) THEN index' = s /\ fence' = NoFence /\ sound' = "yes"
                  ELSE UNCHANGED <<index, fence, sound>>

\* A message fetched whole: the rest of the row is written either way, and an
\* expired fence stays for the recheck.
UpsertMessage(s) ==
    IF Accepts(s) THEN /\ index' = s /\ sound' = "yes"
                       /\ fence' = IF Live(fence) THEN NoFence ELSE fence
                  ELSE UNCHANGED <<index, fence, sound>>

-----------------------------------------------------------------------------
(* The pass: a delta, and the recheck of expired fences that ends it.      *)

\* The ids that changed.
Changes ==
    /\ pc = "idle"
    /\ upto' = rev
    /\ pc' = IF token = rev THEN "stale" ELSE "read"
    /\ UNCHANGED <<provider, database, pushes, env, history, sound, spent>>

\* The envelopes of those.
ReadEnvelopes ==
    /\ pc = "read"
    /\ env' = remote /\ pc' = "apply"
    /\ UNCHANGED <<provider, database, pushes, upto, history, sound, spent>>

\* Updates are applied; what Gmail reports as added is fetched and indexed.
ApplyDelta ==
    /\ pc = "apply"
    /\ ApplyRemoteState(env) \/ UpsertMessage(env)
    /\ token' = upto /\ pc' = "stale"
    /\ UNCHANGED <<provider, row, pushes, upto, env, history, spent>>

\* StaleLocalPatches.
ListStale ==
    /\ pc = "stale"
    /\ pc' = IF fence = Expired THEN "queued" ELSE "idle"
    /\ UNCHANGED <<provider, database, pushes, upto, env, history, sound, spent>>

\* Mutant of SkipQueued: what has been given up on is skipped as well.
SkipQueued_Asked ==
    /\ pc = "queued"
    /\ pc' = IF \E w \in Writes : row[w] # "unasked" THEN "idle" ELSE "reread"
    /\ UNCHANGED <<provider, database, pushes, upto, env, history, sound, spent>>

\* queuedMessageIDs: the message is left alone while a write on it waits.
SkipQueued ==
    /\ pc = "queued"
    /\ pc' = IF \E w \in Writes : Pending(w) THEN "idle" ELSE "reread"
    /\ UNCHANGED <<provider, database, pushes, upto, env, history, sound, spent>>

\* refreshEnvelopes.
Reread ==
    /\ pc = "reread"
    /\ env' = remote /\ pc' = "reapply"
    /\ UNCHANGED <<provider, database, pushes, upto, history, sound, spent>>

Reapply ==
    /\ pc = "reapply"
    /\ ApplyRemoteState(env)
    /\ pc' = "clear"
    /\ UNCHANGED <<provider, row, token, pushes, upto, env, history, spent>>

\* Mutant of ClearStaleLocalPatches: the cutoff is left out.
ClearStaleLocalPatches_Any ==
    /\ pc = "clear"
    /\ fence' = NoFence /\ pc' = "idle"
    /\ UNCHANGED <<provider, index, row, token, pushes, upto, env, history, sound, spent>>

\* Messages the provider no longer returns keep no expired fence; a fence
\* raised since is left alone.
ClearStaleLocalPatches ==
    /\ pc = "clear"
    /\ fence' = IF fence = Expired THEN NoFence ELSE fence
    /\ pc' = "idle"
    /\ UNCHANGED <<provider, index, row, token, pushes, upto, env, history, sound, spent>>

Abort ==
    /\ pc # "idle" /\ Spend("abort")
    /\ pc' = "idle"
    /\ UNCHANGED <<provider, database, pushes, upto, env, history, sound>>

-----------------------------------------------------------------------------
(* The rest of the world.                                                  *)

OtherClient(f, v) ==
    /\ v # remote[f] /\ Spend("other")
    /\ Move([remote EXCEPT ![f] = v])
    /\ foreign' = foreign \cup {f}
    /\ UNCHANGED <<database, pushes, pass, order, loose, sound>>

\* A minute of a live fence.  Clearing follows reading back without a pause.
Tick ==
    /\ Live(fence) /\ pc # "clear"
    /\ fence' = fence - 1
    /\ UNCHANGED <<provider, index, row, token, pushes, pass, history, sound, spent>>

Settle(w) == Done(w) \/ Requeue(w) \/ Rollback(w) \/ FailPermanently(w) \/ LeaveUnrecorded(w)

Push(w) == Claim(w) \/ Answer(w) \/ Settle(w)

Pass == \/ Changes \/ ReadEnvelopes \/ ApplyDelta
        \/ ListStale \/ SkipQueued \/ Reread \/ Reapply \/ ClearStaleLocalPatches

Next ==
    \/ \E w \in Writes : Ask(w) \/ Push(w)
    \/ Dequeue
    \/ \E S \in Pushers : Crash(S)
    \/ Pass
    \/ Abort
    \/ \E f \in Fields, v \in Values : OtherClient(f, v)
    \/ Tick

Spec == Init /\ [][Next]_vars

\* The daemon polls and retries, goroutines go on, time passes.
Fairness ==
    /\ WF_vars(Pass) /\ WF_vars(Dequeue) /\ WF_vars(Tick)
    /\ \A w \in Writes : WF_vars(Push(w))

FairSpec == Spec /\ Fairness

-----------------------------------------------------------------------------
(* Properties.                                                             *)

\* The variables have their types.
TypeOK ==
    /\ remote \in States /\ rev \in Nat
    /\ index \in States /\ fence \in NoFence..Window
    /\ row \in [Writes -> {"unasked", "pending", "done", "failed"}] /\ token \in Nat
    /\ at \in [Writes -> {"no", "queued", "calling", "answered", "undone"}]
    /\ out \in [Writes -> {"ok", "refuse", "offline", "deadline"}]
    /\ undo \in [Writes -> States \cup {NoUndo}] /\ queue \in Seq(Writes)
    /\ pc \in {"idle", "read", "apply", "stale", "queued", "reread", "reapply", "clear"}
    /\ upto \in Nat /\ env \in States
    /\ order \in Seq(Writes) /\ loose \subseteq Writes /\ foreign \subseteq Fields
    /\ sound \in {"yes", "no"} /\ spent \in [Faults -> Nat]

\* StaleLocalPatches: "the row would keep the patched state for good" unless
\* somebody looks again.  Wherever index and provider differ, something will:
\* the journal has news, or a fence is up that a recheck will find.
WillBeSeen == index = remote \/ token < rev \/ fence # NoFence
Noticed == sound = "yes" => WillBeSeen

\* Migration 0007: while the fence is up the columns are the archive's own.
\* Only the user's next write, or the end of one, changes them.
FenceHolds ==
    [][Live(fence) /\ index' # index =>
          \/ order' # order
          \/ \E w \in Writes : at[w] = "answered" /\ at'[w] = "undone"]_vars

\* deferPush: writes reach the provider in the order they were made.  Once all
\* that touch a field have gone through the queue, the provider has what was
\* asked for last.
Touching(f) == {i \in 1..Len(order) : f \in DOMAIN Does[order[i]]}
LastWins ==
    \A f \in Fields \ foreign : \A last \in Touching(f) :
        /\ \A i \in Touching(f) : /\ i <= last
                                  /\ order[i] \notin loose
                                  /\ row[order[i]] = "done"
        => remote[f] = Does[order[last]][f]

\* When everybody has finished, the index is what the provider has, whatever
\* was patched, refused, guessed wrong or lost on the way.
Agreed == index = remote /\ token = rev
Converges == <>[](sound = "yes" => Agreed)

\* Writes go through in order, and in the end index and provider agree.
Settles == []LastWins /\ Converges
=============================================================================
