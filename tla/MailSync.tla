------------------------------- MODULE MailSync -------------------------------
(***************************************************************************)
(* The mail half of a sync pass: internal/sync/mail.go between a provider  *)
(* (internal/provider/jmap, internal/provider/gmail) and the message index *)
(* (internal/store/messages.go, the state and backfill rows of state.go).  *)
(*                                                                         *)
(* The provider keeps a journal of what happened to the messages; a state  *)
(* token is a position in it.  A first pass walks all messages page by     *)
(* page from a token it captured beforehand (backfill), later passes apply *)
(* what the journal holds since the stored token (delta), and a pass whose *)
(* token the provider no longer knows, or that the user forced, compares   *)
(* the complete id lists (reconcile).  An account has one pass at a time:  *)
(* it holds the account lock.                                              *)
(*                                                                         *)
(* A message is a number, its place in the provider's list (the highest    *)
(* comes first).  Its flags and mailboxes are a version number.  Local     *)
(* writes and their fence are left to another module, and so are mailbox   *)
(* lists and renames.                                                      *)
(***************************************************************************)
EXTENDS Integers, Sequences, FiniteSets, Functions

CONSTANTS
    N,          \* bound: messages that can ever exist
    Old,        \* those there before the first pass
    Big,        \* those larger than raw_max_size, which is set
    Backends,   \* the kinds of account: some of "jmap", "gmail"
    PageSize,   \* enumeratePage, or what the server makes of it
    IndexBatch, \* indexBatch
    EnvelopeChunk, \* envelopeChunk
    MaxLog,     \* bound: changes the provider makes, a spoiled index counting as one

    Budget,     \* bound: how often each of Faults may happen
    MaxFaults,  \* bound: how many of them happen in one behaviour
    MaxSpoiled  \* bound: how many rows are wrong at the start

Msgs == 1..N
Faults == {"spoil",   \* the index may be spoiled: before the passes start, or by one
                      \* of Spoilers later
           "abort",   \* a pass dies: an error, a cancel, a crash
           "forget",  \* the provider drops the start of its journal
           "full",    \* the user asks for --full
           "restart", \* the user does so while a backfill is open
           "loss",    \* a message is destroyed behind an open cursor
           "skip",    \* and another one behind the same cursor, of JMAP
           "quiet",   \* a change lands inside Gmail's quiet poll
           "read"}    \* a process reads a message that is not archived
Spoilers == {"restart", "skip", "quiet", "read"}

ASSUME ListAssumption ==
    /\ N \in Nat /\ Old \subseteq Msgs /\ Big \subseteq Msgs
    /\ Backends \subseteq {"jmap", "gmail"}
    /\ PageSize \in Nat \ {0} /\ IndexBatch \in Nat \ {0}
    /\ EnvelopeChunk \in Nat \ {0} /\ MaxLog \in Nat
    /\ Budget \in [Faults -> Nat] /\ {MaxFaults, MaxSpoiled} \subseteq Nat

VARIABLES
    \* the provider
    backend,   \* which it is, once and for all
    here,      \* the messages it has
    ver,       \* the version of each, 0 before it exists
    log,       \* the journal
    kept,      \* the oldest position changes can still be computed from
    \* the database
    rows,      \* the messages table
    state,     \* sync_state: the position everything up to is applied
    bf,        \* backfill_progress
    \* the pass
    kind, pc, cursor, token,
    local,     \* localLive, the ids a reconcile started from
    remote,    \* the ids it was told of
    refile,    \* resurrect: envelopes of rows to bring back
    stubs,     \* envelopes to file without their bytes
    fetch,     \* ids to download
    got,       \* downloads not written yet
    removed,   \* ids to mark deleted
    refresh,   \* ids to read envelopes of
    updated,   \* envelopes to apply
    again,     \* how often fetch or refresh names an id once more
    \* another process that opens a message, outside the account lock
    reader,
    \* bookkeeping of the model
    spent,     \* how often each fault happened
    sound,     \* "yes" unless the index was spoiled since the last reconcile, by
               \* a stale write of a reader, a backfill started over, a listing that
               \* jumped over a message or a change inside a quiet poll
    clean,     \* "yes" unless that happened during this reconcile
    lost,      \* messages destroyed behind the cursor of the last listing
    twice      \* messages a reconcile was told of twice before it had them

server == <<backend, here, ver, log, kept>>
index  == <<rows, state, bf>>
plan   == <<refile, stubs, fetch, got, removed, refresh, updated, again>>
pass   == <<kind, pc, cursor, token, local, remote, plan>>
outer  == <<reader, sound, clean, lost, twice>>
vars   == <<server, index, pass, outer, spent>>

NoState == -1          \* the empty state string
Fresh == [anchor |-> 0, n |-> 0]
NoReader == [id |-> 0, ver |-> 0]
Envelope(m) == [id |-> m, ver |-> ver[m]]
Ids(S) == {e.id : e \in S}
OfId(S, m) == CHOOSE e \in S : e.id = m /\ \A f \in S : f.id = m => f.ver <= e.ver

Absent == [st |-> "none", raw |-> "stub", ver |-> 0]
Exists(m) == rows[m].st # "none"
Live(m) == rows[m].st = "live"
\* Index and provider show the same message, or none.
Agrees(m) == IF m \in here THEN Live(m) /\ rows[m].ver = ver[m] ELSE ~Live(m)

Spend(f) == /\ f \in Spoilers => spent["spoil"] = 1
            /\ spent[f] < Budget[f]
            /\ SumFunction(spent) < MaxFaults
            /\ spent' = [spent EXCEPT ![f] = @ + 1]

--------------------------------------------------------------------------------
(* The provider.                                                           *)

\* Gmail's lists and "added" records carry an id and nothing else.
Thin == backend = "gmail"

\* A message the open enumeration has already listed, or jumped over.
Behind(c, m) == c.anchor # 0 /\ m >= c.anchor
BehindCursor(m) == Behind(cursor, m) \/ (bf.st = "open" /\ Behind(bf.cursor, m))

\* Every change is journalled.  The two that hit a window of the code draw on
\* its budget.
Journal(m, what, hit) ==
    /\ Len(log) + spent["spoil"] < MaxLog
    /\ log' = Append(log, [id |-> m, what |-> what])
    /\ IF pc = "profile" THEN Spend("quiet")
       ELSE IF hit THEN Spend(IF Thin \/ lost = 0 THEN "loss" ELSE "skip")
       ELSE UNCHANGED spent
    /\ lost' = IF hit THEN lost + 1 ELSE lost
    /\ sound' = IF pc = "profile" THEN "no" ELSE sound
    /\ UNCHANGED <<backend, kept, index, pass, reader, clean, twice>>

\* Mail arrives, possibly with an old date: anywhere in the list.
Deliver(m) ==
    /\ ver[m] = 0
    /\ here' = here \cup {m} /\ ver' = [ver EXCEPT ![m] = 1]
    /\ Journal(m, "created", FALSE)

\* Flags or mailboxes change, in the webmail or by another client.
Change(m) ==
    /\ m \in here
    /\ ver' = [ver EXCEPT ![m] = @ + 1]
    /\ Journal(m, "updated", FALSE)
    /\ UNCHANGED here

Destroy(m) ==
    /\ m \in here
    /\ here' = here \ {m}
    /\ Journal(m, "destroyed", BehindCursor(m))
    /\ UNCHANGED ver

\* cannotCalculateChanges, or a historyId past Gmail's retention.
Forget ==
    /\ Spend("forget")
    /\ \E k \in kept + 1 .. Len(log) : kept' = k
    /\ UNCHANGED <<backend, here, ver, log, index, pass, outer>>

Provider == Forget \/ \E m \in Msgs : Deliver(m) \/ Change(m) \/ Destroy(m)

--------------------------------------------------------------------------------
(* What the store does with a row.                                         *)

UpsertMessage(S) ==
    rows' = [m \in Msgs |-> IF m \in Ids(S)
               THEN [st |-> "live", raw |-> "full", ver |-> OfId(S, m).ver]
               ELSE rows[m]]

\* A stub goes through UpsertMessage too, with raw_complete off.
UpsertStub(S) ==
    rows' = [m \in Msgs |-> IF m \in Ids(S)
               THEN [st |-> "live", raw |-> "stub", ver |-> OfId(S, m).ver]
               ELSE rows[m]]

\* Flags and membership only: a deleted row stays deleted.
ApplyRemoteState(S) ==
    rows' = [m \in Msgs |-> IF m \in Ids(S) /\ Exists(m)
               THEN [rows[m] EXCEPT !.ver = OfId(S, m).ver]
               ELSE rows[m]]

\* Membership goes with deleted_at.
MarkDeleted(S) ==
    rows' = [m \in Msgs |-> IF m \in S /\ Live(m)
               THEN [rows[m] EXCEPT !.st = "deleted", !.ver = 0]
               ELSE rows[m]]

\* UndeleteWithState; MarkUndeleted when the envelope names no mailbox, which
\* leaves the row unfiled (version 0).
Revivable(e) == IF e.ver = 0 THEN rows[e.id].st = "deleted" ELSE Exists(e.id)
Undelete(S) ==
    rows' = [m \in Msgs |-> IF m \in Ids(S) /\ Revivable(OfId(S, m))
               THEN [rows[m] EXCEPT !.st = "live", !.ver = OfId(S, m).ver]
               ELSE rows[m]]

\* n of S, or what there is.
Part(S, n) == {T \in SUBSET S :
                 Cardinality(T) = IF Cardinality(S) < n THEN Cardinality(S) ELSE n}

\* One transaction's worth of a list, which is written in the order it was read:
\* of a message that was listed twice the older envelope goes first.
Chunk(S, n) == {T \in Part(S, n) :
                  \A e \in T, f \in S \ T : e.id = f.id => e.ver <= f.ver}

\* What is left in the rows of a transaction's worth of downloads, which several
\* workers bring in any order: of a message that was asked for twice the last.
Lasts(S) == {T \in SUBSET S : /\ Ids(T) = Ids(S)
                              /\ \A e, f \in T : e.id = f.id => e = f}

--------------------------------------------------------------------------------
(* What the two backends answer.                                           *)

Oversize(m) == ~Thin /\ m \in Big

\* An entry of a list: what it says of the message, and its place, for a message
\* may be listed more than once.
Listed(m) == [id |-> m, ver |-> IF Thin THEN 0 ELSE ver[m], at |-> cursor.n]

\* The list from position p on.
FromPosition(p) == {m \in here : Cardinality({k \in here : k > m}) >= p}

\* What is left of the list after the cursor.  A Gmail page token keeps its
\* place.  JMAP resumes after the anchor and, when that has been destroyed, at
\* one position less than the number of messages listed so far.
Rest(c) ==
    IF c.anchor = 0 THEN here
    ELSE IF Thin \/ c.anchor \in here THEN {m \in here : m < c.anchor}
    ELSE FromPosition(c.n - 1)

\* What a resumed listing jumps over.
Missed(c) == {m \in here : ~Behind(c, m)} \ Rest(c)

PageOf(S) == {m \in S : Cardinality({k \in S : k > m}) < PageSize}
Lowest(S) == CHOOSE m \in S : \A k \in S : m <= k

\* Mutant: a full page is taken for the last one.
NextCursor_OneShort(c, P) ==
    IF Cardinality(P) <= PageSize
    THEN Fresh ELSE [anchor |-> Lowest(P), n |-> c.n + Cardinality(P)]

\* The cursor after page P: the empty one after the last page, which is a
\* short one, or the first if the total says so; Gmail stops handing out a
\* token.
NextCursor(c, P) ==
    LET n == c.n + Cardinality(P) IN
    IF \/ P = {}
       \/ ~Thin /\ Cardinality(P) < PageSize
       \/ ~Thin /\ c.anchor = 0 /\ n >= Cardinality(here)
       \/ Thin /\ P = Rest(c)
    THEN Fresh ELSE [anchor |-> Lowest(P), n |-> n]

--------------------------------------------------------------------------------
(* Starting a pass.                                                        *)

\* syncMail: which of the three kinds of pass is due.  A forced one that finds
\* a backfill open starts it over, with a new token.
SyncMail(full) ==
    /\ pc = "idle"
    /\ IF full = "no" THEN UNCHANGED spent
       ELSE IF bf.st = "open" THEN Spend("restart") ELSE Spend("full")
    /\ sound' = IF full = "full" /\ bf.st = "open" THEN "no" ELSE sound
    /\ IF full = "full" /\ state # NoState
         THEN kind' = "reconcile" /\ pc' = "list" /\ UNCHANGED <<bf, cursor>>
       ELSE IF full = "full"
         THEN /\ kind' = "backfill" /\ pc' = "begin"
              /\ bf' = [bf EXCEPT !.st = "none"] /\ UNCHANGED cursor
       ELSE IF bf.st = "open"
         THEN /\ kind' = "backfill" /\ pc' = "enum"
              /\ cursor' = bf.cursor /\ UNCHANGED bf
       ELSE IF state = NoState
         THEN kind' = "backfill" /\ pc' = "begin" /\ UNCHANGED <<bf, cursor>>
       ELSE kind' = "delta" /\ pc' = "changes" /\ UNCHANGED <<bf, cursor>>
    /\ UNCHANGED <<server, rows, state, token, local, remote, plan, reader, clean, lost,
                   twice>>

\* The token is read before anything is listed.
BeginBackfill ==
    /\ pc = "begin"
    /\ bf' = [st |-> "open", cursor |-> Fresh, start |-> Len(log)]
    /\ pc' = "enum" /\ lost' = 0
    /\ UNCHANGED <<server, rows, state, kind, cursor, token, local, remote, plan,
                   reader, sound, clean, twice, spent>>

BeginReconcile ==
    /\ pc = "list"
    /\ token' = Len(log) /\ local' = {m \in Msgs : Live(m)} /\ remote' = {}
    /\ pc' = "enum" /\ clean' = "yes" /\ lost' = 0
    /\ UNCHANGED <<server, index, kind, cursor, plan, reader, sound, twice, spent>>

--------------------------------------------------------------------------------
(* Listing.                                                                *)

\* One page of a backfill, sorted into what has to be done about it.
EnumerateBackfill ==
    /\ pc = "enum" /\ kind = "backfill"
    /\ LET P == PageOf(Rest(cursor))
           gone == {m \in P : rows[m].st = "deleted"}
           partial == {m \in P : Live(m) /\ rows[m].raw = "stub"}
           new == {m \in P : ~Exists(m)}
       IN /\ cursor' = NextCursor(cursor, P)
          /\ refile' = IF Thin THEN {} ELSE {Listed(m) : m \in gone}
          /\ stubs' = {Listed(m) : m \in {k \in new : Oversize(k)}}
          /\ fetch' = {m \in new \cup partial : ~Oversize(m)}
                        \cup (IF Thin THEN gone ELSE {})
    /\ sound' = IF Missed(cursor) = {} THEN sound ELSE "no"
    /\ pc' = "refile"
    /\ UNCHANGED <<server, index, kind, token, local, remote, got, removed, refresh,
                   updated, again, reader, clean, lost, twice, spent>>

\* A reconcile walks all the pages first.  What it is told twice it will do twice.
EnumerateReconcile ==
    /\ pc = "enum" /\ kind = "reconcile"
    /\ LET P == PageOf(Rest(cursor))
           new == {m \in P : ~Exists(m)}
           large == {m \in new : Oversize(m)}
           second == P \cap remote
       IN /\ cursor' = NextCursor(cursor, P)
          /\ remote' = remote \cup P
          /\ refile' = refile \cup {Listed(m) : m \in (P \ new) \ local}
          /\ stubs' = stubs \cup {Listed(m) : m \in large}
          /\ fetch' = fetch \cup (new \ large)
          /\ refresh' = refresh \cup (P \ new)
          /\ again' = [m \in Msgs |-> IF m \in second \ large THEN again[m] + 1 ELSE again[m]]
          /\ twice' = twice \cup (second \cap new)
    /\ IF Missed(cursor) = {} THEN UNCHANGED <<sound, clean>>
       ELSE sound' = "no" /\ clean' = "no"
    /\ pc' = IF cursor' = Fresh THEN "refile" ELSE "enum"
    /\ UNCHANGED <<server, index, kind, token, local, got, removed, updated, reader,
                   lost, spent>>

--------------------------------------------------------------------------------
(* Reading the journal.                                                    *)

\* The ids that changed.  When Gmail reports nothing at all the new token is
\* read from the profile, in a call of its own.
ReadChanges ==
    /\ pc = "changes"
    /\ IF state < kept
         THEN kind' = "reconcile" /\ pc' = "list" /\ UNCHANGED token
       ELSE IF Thin /\ state = Len(log)
         THEN pc' = "profile" /\ UNCHANGED <<kind, token>>
       ELSE pc' = "envelopes" /\ token' = Len(log) /\ UNCHANGED kind
    /\ UNCHANGED <<server, index, cursor, local, remote, plan, outer, spent>>

ReadProfile ==
    /\ pc = "profile"
    /\ token' = Len(log) /\ pc' = "advance"
    /\ UNCHANGED <<server, index, kind, cursor, local, remote, plan, outer, spent>>

Window(what) == {log[i].id : i \in {j \in state + 1 .. token : log[j].what = what}}

\* The envelopes of those ids, read later than the ids, and what coalesce and
\* the loop after it make of them.
ReadEnvelopes ==
    /\ pc = "envelopes"
    /\ LET gone == Window("destroyed")
           new == Window("created") \ gone
           touched == Window("updated") \ (gone \cup new)
           added == IF Thin THEN new ELSE new \cap here
           changed == touched \cap here
           large == {m \in added : Oversize(m) \/ (Exists(m) /\ rows[m].raw = "stub")}
       IN /\ stubs' = {Listed(m) : m \in {k \in large : ~Exists(k)}}
          /\ fetch' = (added \ large) \cup {m \in changed : ~Exists(m)}
          /\ refresh' = IF Thin THEN {m \in large : Exists(m)} ELSE {}
          /\ updated' = {Envelope(m) : m \in {k \in changed : Exists(k)} \cup
                           (IF Thin THEN {} ELSE {k \in large : Exists(k)})}
          /\ removed' = gone \cup (IF Thin THEN touched \ here ELSE {})
    /\ pc' = "stubs"
    /\ UNCHANGED <<server, index, kind, cursor, token, local, remote, refile, got,
                   again, outer, spent>>

--------------------------------------------------------------------------------
(* Doing the work, one transaction at a time.                              *)

Resurrect ==
    /\ pc = "refile" /\ refile # {}
    /\ \E S \in Chunk(refile, IndexBatch) : Undelete(S) /\ refile' = refile \ S
    /\ UNCHANGED <<server, state, bf, kind, pc, cursor, token, local, remote, stubs,
                   fetch, got, removed, refresh, updated, again, outer, spent>>

\* A delta gives each stub a transaction of its own.
WriteStubs ==
    /\ pc = "stubs" /\ stubs # {}
    /\ \E S \in Chunk(stubs, IF kind = "delta" THEN 1 ELSE IndexBatch) :
          UpsertStub(S) /\ stubs' = stubs \ S
    /\ UNCHANGED <<server, state, bf, kind, pc, cursor, token, local, remote, refile,
                   fetch, got, removed, refresh, updated, again, outer, spent>>

\* Mutant: a message that is gone is asked for again.
FetchOne_Insists(m) ==
    /\ pc = "fetch" /\ m \in fetch
    /\ IF m \in here THEN got' = got \cup {Envelope(m)} /\ fetch' = fetch \ {m}
                     ELSE UNCHANGED <<got, fetch>>
    /\ UNCHANGED <<server, index, kind, pc, cursor, token, local, remote, refile,
                   stubs, removed, refresh, updated, again, outer, spent>>

\* One message comes back from FetchRaw, or turns out to be gone; but one that was
\* asked for twice and came once (`seen`) is not taken for gone.
FetchOne(m) ==
    /\ pc = "fetch" /\ m \in fetch
    /\ IF again[m] > 0
         THEN again' = [again EXCEPT ![m] = @ - 1] /\ UNCHANGED fetch
         ELSE fetch' = fetch \ {m} /\ UNCHANGED again
    /\ LET seen == kind = "reconcile" /\ (Exists(m) \/ m \in Ids(got))
       IN  IF m \in here THEN got' = got \cup {Envelope(m)} /\ UNCHANGED removed
           ELSE removed' = (IF seen THEN removed ELSE removed \cup {m}) /\ UNCHANGED got
    /\ UNCHANGED <<server, index, kind, pc, cursor, token, local, remote, refile,
                   stubs, refresh, updated, outer, spent>>

\* flush: a full batch, or what is left at the end.  Other workers may have
\* read messages by then that are not part of it.
WriteBatch ==
    /\ pc = "fetch" /\ got # {}
    /\ Cardinality(got) >= IndexBatch \/ fetch = {}
    /\ \E S \in Part(got, IndexBatch) :
          /\ \E T \in Lasts(S) : UpsertMessage(T)
          /\ got' = got \ S
    /\ UNCHANGED <<server, state, bf, kind, pc, cursor, token, local, remote, refile,
                   stubs, fetch, removed, refresh, updated, again, outer, spent>>

\* A reconcile adds what it had and was not told of.
FindMissing ==
    /\ pc = "missing"
    /\ removed' = removed \cup (local \ remote)
    /\ pc' = "drop"
    /\ UNCHANGED <<server, index, kind, cursor, token, local, remote, refile, stubs,
                   fetch, got, refresh, updated, again, outer, spent>>

\* refreshEnvelopes: read a chunk, then apply it.
RefreshEnvelopes ==
    /\ pc = "refresh" /\ refresh # {}
    /\ \E S \in Part(refresh, EnvelopeChunk) :
          /\ got' = {Envelope(m) : m \in S \cap here}
          /\ refresh' = refresh \ {m \in S : again[m] = 0}
          /\ again' = [m \in Msgs |-> IF m \in S /\ again[m] > 0 THEN again[m] - 1 ELSE again[m]]
    /\ pc' = "reapply"
    /\ UNCHANGED <<server, index, kind, cursor, token, local, remote, refile, stubs,
                   fetch, removed, updated, outer, spent>>

Reapply ==
    /\ pc = "reapply" /\ got # {}
    /\ ApplyRemoteState(got) /\ got' = {}
    /\ UNCHANGED <<server, state, bf, kind, pc, cursor, token, local, remote, refile,
                   stubs, fetch, removed, refresh, updated, again, outer, spent>>

\* The envelopes of a delta.  The state moves with the last transaction of
\* the pass and with no other.
ApplyUpdates ==
    /\ pc = "apply" /\ updated # {}
    /\ \E S \in Chunk(updated, IndexBatch) :
         /\ ApplyRemoteState(S) /\ updated' = updated \ S
         /\ IF S = updated /\ removed = {}
              THEN state' = token /\ pc' = "idle"
              ELSE UNCHANGED <<state, pc>>
    /\ UNCHANGED <<server, bf, kind, cursor, token, local, remote, refile, stubs,
                   fetch, got, removed, refresh, again, outer, spent>>

Drop ==
    /\ pc = "drop" /\ removed # {}
    /\ MarkDeleted(removed) /\ removed' = {}
    /\ IF kind = "delta" THEN state' = token /\ pc' = "idle" ELSE UNCHANGED <<state, pc>>
    /\ UNCHANGED <<server, bf, kind, cursor, token, local, remote, refile, stubs,
                   fetch, got, refresh, updated, again, outer, spent>>

\* A delta that wrote nothing with its state, or nothing at all.
Advance ==
    /\ pc = "advance"
    /\ state' = token /\ pc' = "idle"
    /\ UNCHANGED <<server, rows, bf, kind, cursor, token, local, remote, plan, outer,
                   spent>>

\* The page of a backfill is done.
SaveCursor ==
    /\ pc = "cursor"
    /\ bf' = [bf EXCEPT !.cursor = cursor]
    /\ pc' = IF cursor = Fresh THEN "finish" ELSE "enum"
    /\ UNCHANGED <<server, rows, state, kind, cursor, token, local, remote, plan,
                   outer, spent>>

\* One transaction; then whatever changed in the meantime.
FinishBackfill ==
    /\ pc = "finish"
    /\ bf' = [bf EXCEPT !.st = "finished"] /\ state' = bf.start
    /\ kind' = "delta" /\ pc' = "changes"
    /\ UNCHANGED <<server, rows, cursor, token, local, remote, plan, outer, spent>>

\* Mutant: the token of the end of the reconcile instead of its start.
FinishReconcile_LateToken ==
    /\ pc = "settle"
    /\ state' = Len(log) /\ pc' = "supersede"
    /\ sound' = IF clean = "yes" THEN "yes" ELSE sound
    /\ UNCHANGED <<server, rows, bf, kind, cursor, token, local, remote, plan, reader,
                   clean, lost, twice, spent>>

FinishReconcile ==
    /\ pc = "settle"
    /\ state' = token /\ pc' = "supersede"
    /\ sound' = IF clean = "yes" THEN "yes" ELSE sound
    /\ UNCHANGED <<server, rows, bf, kind, cursor, token, local, remote, plan, reader,
                   clean, lost, twice, spent>>

\* A reconcile ends a backfill that is still open.
SupersedeBackfill ==
    /\ pc = "supersede"
    /\ bf' = IF bf.st = "open" THEN [bf EXCEPT !.st = "finished", !.cursor = Fresh] ELSE bf
    /\ pc' = "idle"
    /\ UNCHANGED <<server, rows, state, kind, cursor, token, local, remote, plan,
                   outer, spent>>

\* The order of the work in each kind of pass.
After(p) ==
    CASE p = "refile" -> "stubs"
      [] p = "stubs" -> "fetch"
      [] p = "fetch" /\ kind = "backfill" -> "drop"
      [] p = "fetch" /\ kind = "delta" -> "refresh"
      [] p = "fetch" /\ kind = "reconcile" -> "missing"
      [] p = "refresh" /\ kind = "delta" -> "apply"
      [] p = "refresh" /\ kind = "reconcile" -> "settle"
      [] p = "reapply" -> "refresh"
      [] p = "apply" -> "drop"
      [] p = "drop" /\ kind = "backfill" -> "cursor"
      [] p = "drop" /\ kind = "delta" -> "advance"
      [] p = "drop" /\ kind = "reconcile" -> "refresh"

\* Mutant: a page counts as done before its downloads and stubs are written.
Todo_Impatient(p) ==
    CASE p \in {"refile", "stubs", "fetch"} -> FALSE
      [] p = "drop" -> removed # {}
      [] p = "refresh" -> refresh # {}
      [] p = "reapply" -> got # {}
      [] p = "apply" -> updated # {}
      [] OTHER -> TRUE

Todo(p) ==
    CASE p = "refile" -> refile # {}
      [] p = "stubs" -> stubs # {}
      [] p = "fetch" -> fetch # {} \/ got # {}
      [] p = "drop" -> removed # {}
      [] p = "refresh" -> refresh # {}
      [] p = "reapply" -> got # {}
      [] p = "apply" -> updated # {}
      [] OTHER -> TRUE

Proceed ==
    /\ ~Todo(pc)
    /\ pc' = After(pc)
    /\ UNCHANGED <<server, index, kind, cursor, token, local, remote, plan, outer, spent>>

\* An error or a crash anywhere.  What is committed stays.
Abort ==
    /\ pc # "idle" /\ Spend("abort")
    /\ pc' = "idle" /\ cursor' = Fresh
    /\ refile' = {} /\ stubs' = {} /\ fetch' = {} /\ got' = {}
    /\ removed' = {} /\ refresh' = {} /\ updated' = {} /\ again' = [m \in Msgs |-> 0]
    /\ UNCHANGED <<server, index, kind, token, local, remote, outer>>

Pass == \/ SyncMail("no")
        \/ BeginBackfill \/ BeginReconcile
        \/ EnumerateBackfill \/ EnumerateReconcile
        \/ ReadChanges \/ ReadProfile \/ ReadEnvelopes
        \/ Resurrect \/ WriteStubs \/ WriteBatch
        \/ \E m \in Msgs : FetchOne(m)
        \/ FindMissing \/ RefreshEnvelopes \/ Reapply \/ ApplyUpdates \/ Drop \/ Advance
        \/ SaveCursor \/ FinishBackfill \/ FinishReconcile \/ SupersedeBackfill
        \/ Proceed

--------------------------------------------------------------------------------
(* EnsureRaw: show, the TUI or an RSVP opens a message whose bytes are not *)
(* archived.  It holds no lock.                                            *)

EnsureRawFetch(m) ==
    /\ reader = NoReader /\ Exists(m) /\ rows[m].raw = "stub"
    /\ Spend("read")
    /\ reader' = [id |-> m, ver |-> IF m \in here THEN ver[m] ELSE 0]
    /\ UNCHANGED <<server, index, pass, sound, clean, lost, twice>>

\* The answer is written, or the message marked deleted, whatever a pass has
\* put in the row since it was read.
EnsureRawWrite ==
    /\ reader # NoReader
    /\ IF reader.ver # 0 THEN UpsertMessage({reader}) ELSE MarkDeleted({reader.id})
    /\ IF reader.ver = (IF reader.id \in here THEN ver[reader.id] ELSE 0)
         THEN UNCHANGED <<sound, clean>>
         ELSE sound' = "no" /\ clean' = "no"
    /\ reader' = NoReader
    /\ UNCHANGED <<server, state, bf, pass, lost, twice, spent>>

Next == \/ Provider
        \/ Pass
        \/ SyncMail("full")
        \/ Abort
        \/ EnsureRawWrite
        \/ \E m \in Msgs : EnsureRawFetch(m)

\* A new archive; or one that earlier stale writes have left in any shape, with
\* a token that claims everything is applied.
NewIndex ==
    /\ here = Old /\ rows = [m \in Msgs |-> Absent] /\ state = NoState
    /\ bf = [st |-> "none", cursor |-> Fresh, start |-> 0] /\ sound = "yes"

DamagedIndex ==
    /\ here \in SUBSET Old /\ state = 0
    /\ rows \in [Msgs -> {Absent} \cup
                    [st : {"live"}, raw : {"stub", "full"}, ver : {0, 1}] \cup
                    [st : {"deleted"}, raw : {"stub", "full"}, ver : {0}]]
    /\ \A m \in Msgs \ Old : rows[m] = Absent
    /\ Cardinality({m \in Old : ~Agrees(m)}) <= MaxSpoiled
    /\ bf = [st |-> "finished", cursor |-> Fresh, start |-> 0] /\ sound = "no"

Init ==
    /\ backend \in Backends
    /\ ver = [m \in Msgs |-> IF m \in Old THEN 1 ELSE 0]
    /\ log = <<>> /\ kept = 0
    /\ \E spoil \in {0, 1} :
          /\ spoil <= Budget["spoil"]
          /\ spent = [[f \in Faults |-> 0] EXCEPT !["spoil"] = spoil]
          /\ NewIndex \/ (spoil = 1 /\ DamagedIndex)
    /\ kind = "backfill" /\ pc = "idle" /\ cursor = Fresh /\ token = 0
    /\ local = {} /\ remote = {}
    /\ refile = {} /\ stubs = {} /\ fetch = {} /\ got = {}
    /\ removed = {} /\ refresh = {} /\ updated = {} /\ again = [m \in Msgs |-> 0]
    /\ reader = NoReader /\ clean = "yes" /\ lost = 0 /\ twice = {}

Spec == Init /\ [][Next]_vars

\* The daemon polls for ever, and a pass that runs gets on with it.
FairSpec == Spec /\ WF_vars(Pass)

--------------------------------------------------------------------------------
(* What it is for.                                                         *)

Phases == {"idle", "begin", "list", "enum", "changes", "profile", "envelopes",
           "refile", "stubs", "fetch", "missing", "drop", "refresh", "reapply",
           "apply", "advance", "cursor", "finish", "settle", "supersede"}
Cursors == {Fresh} \cup [anchor : Msgs, n : Nat]

\* The variables have their types.
TypeOK ==
    /\ backend \in Backends /\ here \subseteq Msgs /\ ver \in [Msgs -> Nat] /\ kept \in Nat
    /\ log \in Seq([id : Msgs, what : {"created", "updated", "destroyed"}])
    /\ rows \in [Msgs -> [st : {"none", "live", "deleted"}, raw : {"stub", "full"},
                          ver : Nat]]
    /\ state \in Nat \cup {NoState}
    /\ bf \in [st : {"none", "open", "finished"}, cursor : Cursors, start : Nat]
    /\ kind \in {"backfill", "delta", "reconcile"} /\ pc \in Phases
    /\ cursor \in Cursors /\ token \in Nat
    /\ local \subseteq Msgs /\ remote \subseteq Msgs
    /\ fetch \subseteq Msgs /\ removed \subseteq Msgs /\ refresh \subseteq Msgs
    /\ \A S \in {refile, stubs} : S \subseteq [id : Msgs, ver : Nat, at : Nat]
    /\ \A S \in {got, updated} : S \subseteq [id : Msgs, ver : Nat]
    /\ again \in [Msgs -> Nat] /\ lost \in Nat /\ twice \subseteq Msgs
    /\ reader \in [id : Msgs \cup {0}, ver : Nat]
    /\ spent \in [Faults -> Nat] /\ {sound, clean} \subseteq {"yes", "no"}

ChangedSince(m, s) == \E i \in s + 1 .. Len(log) : log[i].id = m

\* mail.go, "the state may only be advanced by the last write of the pass":
\* once there is a token, every message on which index and provider disagree
\* is mentioned in the journal after it, so the next delta will look at it.
\* It has to hold in the middle of every pass, after any crash, and across
\* the change from backfill to delta; a reconcile restores it whatever the
\* index looked like.
NoGap == state # NoState /\ sound = "yes" =>
            \A m \in Msgs : Agrees(m) \/ ChangedSince(m, state)

\* Of a destroyed anchor the listing steps back by one, which makes up for one
\* message destroyed behind it, and not for two.
StepsBack == Thin \/ lost <= 1

\* backfill and Enumerate, resuming: a message the stored cursor has passed is
\* in the index, or something has happened to it since the token the backfill
\* will hand to its first delta; as long as the listing jumped over none.
CursorBehindWork == bf.st = "open" /\ (StepsBack \/ sound = "yes") =>
    \A m \in here : Behind(bf.cursor, m) => Live(m) \/ ChangedSince(m, bf.start)

\* syncMail looks at the two rows in an order that is only right if an open
\* backfill and a state never exist together.
OpenMeansNoState == bf.st = "open" => state = NoState

\* raw_max_size: no pass downloads a message above it, not when it is listed
\* again, announced again, or changes.  Gmail's lists have no size to go by.
LimitRespected == ~Thin /\ sound = "yes" => fetch \cap Big = {}

\* The bytes once archived stay: no pass turns a complete row into a stub, or
\* loses the row.  Not so of a message that a reconcile files for the first time and
\* is told of twice: its second stub forgets what a reader has downloaded since the
\* first.
ArchivedStays == [][\A m \in Msgs \ twice : rows[m].raw = "full" => rows'[m].raw = "full"]_vars

\* When the provider falls silent the passes bring the index to it, whatever
\* was interrupted, forgotten or moved under the cursor before.
Synced == state = Len(log) /\ \A m \in Msgs : Agrees(m)
Converges == spent["spoil"] = 0 => <>[]Synced

\* The index as a copy of the account.  A message that was destroyed is at the
\* end of its history.  One that is downloaded twice (twice) may go back to what the
\* slower of two workers has read; what becomes of it is left out.
Last == MaxLog + 2
Truth == [m \in Msgs |-> IF m \in here \/ ver[m] = 0 THEN ver[m] ELSE Last]
Copy == [m \in Msgs |-> IF spent["spoil"] = 1 \/ m \in twice THEN 0
                        ELSE IF Live(m) THEN rows[m].ver
                        ELSE IF Exists(m) THEN Last ELSE 0]
Account == INSTANCE Replica WITH Items <- Msgs, Gone <- Last,
                                 truth <- Truth, copy <- Copy
Follows == Account!Spec

\* A backfill that is resumed, restarted or caught up with skips nothing, takes no
\* more than it may, and never lives beside a token.
BackfillSound == TypeOK /\ CursorBehindWork /\ OpenMeansNoState /\ LimitRespected

\* Neither a message nor its bytes go backwards, but for one that was listed twice.
Replicates == Follows /\ ArchivedStays
================================================================================
