--------------------------------- MODULE Imap ---------------------------------
(***************************************************************************)
(* Mail over IMAP (internal/provider/imap) and what a pass makes of it     *)
(* (internal/sync/mail.go).                                                *)
(*                                                                         *)
(* A message is named by the folder it is in, the folder's UIDVALIDITY and *)
(* its uid, so a move gives it another name, and a folder made anew gives  *)
(* old names other meanings.  The server keeps no log of changes: a pass   *)
(* compares every folder with what the sync state says it last reported.   *)
(* Between the commands of one comparison anything may happen.             *)
(*                                                                         *)
(* A flag is \Seen; bodies are what they are; sizes, thresholds and the    *)
(* fence of local writes (LocalWrite) are left out.                        *)
(***************************************************************************)
EXTENDS Integers, Sequences, FiniteSets

CONSTANTS
    Order,      \* the names folders may have, as they are walked
    Present,    \* those there are at the start
    Uids,       \* bound: uids of one folder, 1 .. n
    MaxVal,     \* bound: UIDVALIDITY counts folders made
    Servers,    \* what servers advertise: records [condstore, move, uidplus]
    Origins,     \* "backfill", "delta": whether the account has been synced
    SweepEvery, \* flagSweepEvery
    MaxEvents,  \* bound: what other clients and the user do
    MaxWrites,  \* bound: what the user does of it
    MaxPasses,  \* bound: passes
    MaxFaults   \* bound: folders that refuse once, processes that die

Folders == {Order[i] : i \in DOMAIN Order}
Vals == 1 .. MaxVal
Ids == [box : Folders, val : Vals, uid : Uids]

ImapAssumption ==
    /\ Present \subseteq Folders /\ Origins \subseteq {"backfill", "delta"}
    /\ Servers \subseteq [condstore : BOOLEAN, move : BOOLEAN, uidplus : BOOLEAN]
    /\ \A s \in Servers : s.move \/ s.uidplus
    /\ MaxVal \in Nat \ {0} /\ SweepEvery \in Nat \ {0}
    /\ MaxEvents \in Nat /\ MaxWrites \in Nat /\ MaxPasses \in Nat /\ MaxFaults \in Nat

VARIABLES
    server,     \* what it advertises
    boxes,      \* its folders
    born,       \* messages delivered so far, and folders made so far
    index,      \* rows of messages that are not deleted
    token,      \* sync_state: each folder as it was last reported
    walk,       \* backfill_progress: enumCursor and the state at its start
    pc, todo, seenAs, delta, next, \* a pass: the step, the folders left, the
                \* STATUS read, provider.Changes and the state so far
    write,      \* a move on its way
    unreported, \* history: arrivals recorded as known and never reported
    unheard,    \* history: flags that came back to what was last reported
    strays,     \* history: names rows got before any state had them
    misfired,   \* history: a move has gone to a folder made anew
    fresh,      \* history: nothing has happened since the last delta began
    spent
pass == <<pc, todo, seenAs, delta, next>>
claims == <<unreported, unheard, strays>>
vars == <<server, boxes, born, index, token, walk, pass, write, claims,
          misfired, fresh, spent>>

-----------------------------------------------------------------------------
(* Folders, and what the state says of them.                               *)

NoMail == [u \in Uids |-> 0]
NoFolder == [val |-> 0, uidnext |-> 1, mail |-> NoMail, seen |-> {}, mod |-> 0]
There(b) == boxes[b].val # 0
Held(f) == {u \in Uids : f.mail[u] # 0}

Unknown == [val |-> 0, uidnext |-> 1, count |-> 0, unseen |-> 0, mod |-> 0,
            uids |-> {}, seen |-> {}, scan |-> 0]

\* STATUS, and the same with every uid and flag.
Status(f) == [Unknown EXCEPT !.val = f.val, !.uidnext = f.uidnext,
                             !.mod = IF server.condstore THEN f.mod ELSE 0,
                             !.count = Cardinality(Held(f)),
                             !.unseen = Cardinality(Held(f) \ f.seen)]
Snapshot(f) == [Status(f) EXCEPT !.uids = Held(f), !.seen = f.seen]

Ref(b, v, u) == [box |-> b, val |-> v, uid |-> u]
RefsOf(b, k) == {Ref(b, k.val, u) : u \in k.uids}
Row(id) == [id |-> id, msg |-> boxes[id.box].mail[id.uid],
            seen |-> id.uid \in boxes[id.box].seen]
Indexed == {r.id : r \in index}
Served == {id \in Ids : There(id.box) /\ boxes[id.box].val = id.val
                        /\ boxes[id.box].mail[id.uid] # 0}

NoDelta == [added |-> {}, updated |-> {}, removed |-> {}, renamed |-> {}]
NoState == [b \in Folders |-> Unknown]
NoToken == [pass |-> -1, at |-> NoState]
NoWalk == [order |-> <<>>, uids |-> {}, val |-> 0, start |-> NoState]
NoWrite == [st |-> "none", box |-> Order[1], val |-> 1, uids |-> {}, dest |-> Order[1],
            pairs |-> {}]

\* No two folders made have one UIDVALIDITY.
Empty(v) == [NoFolder EXCEPT !.val = v, !.mod = 1]
Holding(f, m) == [f EXCEPT !.uidnext = 2, !.mail = [@ EXCEPT ![1] = m]]
Place(b) == CHOOSE i \in DOMAIN Order : Order[i] = b

Init ==
    /\ server \in Servers
    /\ boxes = [b \in Folders |-> IF b \notin Present THEN NoFolder
                               ELSE IF Place(b) = 1 THEN Holding(Empty(1), 1)
                               ELSE Empty(Place(b))]
    /\ born = [msg |-> 1, val |-> Len(Order)]
    /\ \E start \in Origins :
        IF start = "delta"
        THEN /\ index = {[id |-> Ref(Order[1], 1, 1), msg |-> 1, seen |-> FALSE]}
             /\ token = [pass |-> 0, at |-> [b \in Folders |-> IF b \in Present THEN Snapshot(boxes[b])
                                                            ELSE Unknown]]
        ELSE index = {} /\ token = NoToken
    /\ walk = NoWalk /\ pc = "idle" /\ todo = <<>> /\ seenAs = Unknown
    /\ delta = NoDelta /\ next = NoState /\ write = NoWrite
    /\ unreported = {} /\ unheard = {} /\ strays = {} /\ misfired = FALSE /\ fresh = FALSE
    /\ spent = [events |-> 0, writes |-> 0, passes |-> 0, faults |-> 0]

Synced == token.pass >= 0

\* Rows get these names; until a state has them, no delta will see them go.
Strays(ids) == strays' = strays \cup ids

-----------------------------------------------------------------------------
(* Other clients.                                                          *)

Elsewhere(new) ==
    /\ spent.events < MaxEvents /\ spent' = [spent EXCEPT !.events = @ + 1]
    /\ boxes' = new /\ fresh' = FALSE
    /\ UNCHANGED <<server, index, token, walk, pass, write, claims, misfired>>

\* A message gets the next uid of a folder.
Put(f, m) == [f EXCEPT !.mail = [@ EXCEPT ![f.uidnext] = m], !.uidnext = @ + 1, !.mod = @ + 1]
Room(f) == f.uidnext \in Uids
Without(f, u) == [f EXCEPT !.mail = [@ EXCEPT ![u] = 0], !.seen = @ \ {u}, !.mod = @ + 1]

Deliver(b) ==
    /\ There(b) /\ Room(boxes[b])
    /\ Elsewhere([boxes EXCEPT ![b] = Put(@, born.msg + 1)])
    /\ born' = [born EXCEPT !.msg = @ + 1]

Expunge(b, u) ==
    /\ u \in Held(boxes[b])
    /\ Elsewhere([boxes EXCEPT ![b] = Without(@, u)]) /\ UNCHANGED born

Flag(b, u) ==
    /\ u \in Held(boxes[b])
    /\ Elsewhere([boxes EXCEPT ![b].seen = IF u \in @ THEN @ \ {u} ELSE @ \cup {u},
                               ![b].mod = @ + 1])
    /\ UNCHANGED born

\* Made, or deleted and made again, with a message of its own as the first.
MakeFolder(b) ==
    /\ born.val < MaxVal
    /\ Elsewhere([boxes EXCEPT ![b] = Holding(Empty(born.val + 1), born.msg + 1)])
    /\ born' = [msg |-> born.msg + 1, val |-> born.val + 1]

RenameFolder(b, c) ==
    /\ There(b) /\ ~There(c) /\ c \notin Present
    /\ Elsewhere([boxes EXCEPT ![b] = NoFolder, ![c] = boxes[b]]) /\ UNCHANGED born

DeleteFolder(b) ==
    /\ There(b) /\ b # Order[1]
    /\ Elsewhere([boxes EXCEPT ![b] = NoFolder]) /\ UNCHANGED born

-----------------------------------------------------------------------------
(* The backfill: Enumerate, one uid a page, newest first.                  *)

Begins == /\ pc = "idle" /\ spent.passes < MaxPasses
          /\ spent' = [spent EXCEPT !.passes = @ + 1]

\* State: every folder measured before the walk, for the delta after it.
StartBackfill ==
    /\ Begins /\ ~Synced /\ walk = NoWalk
    /\ walk' = [NoWalk EXCEPT !.order = SelectSeq(Order, There),
                              !.start = [b \in Folders |-> IF There(b) THEN Snapshot(boxes[b]) ELSE Unknown]]
    /\ pc' = "walk"
    /\ UNCHANGED <<server, boxes, born, index, token, todo, seenAs, delta, next,
                   write, claims, misfired, fresh>>

ResumeBackfill ==
    /\ Begins /\ ~Synced /\ walk # NoWalk /\ pc' = "walk"
    /\ UNCHANGED <<server, boxes, born, index, token, walk, todo, seenAs, delta, next,
                   write, claims, misfired, fresh>>

Listed == walk.val # 0             \* the folder's uids are in the cursor
Skip == [walk EXCEPT !.order = Tail(@), !.uids = {}, !.val = 0]
Newest(us) == CHOOSE u \in us : \A v \in us : v <= u

\* The folder at the head: listed when it is come to, skipped when it is empty
\* or gone by then.
EnterFolder ==
    /\ pc = "walk" /\ walk.order # <<>> /\ ~Listed
    /\ LET f == boxes[Head(walk.order)] IN
       walk' = IF f.val = 0 \/ Held(f) = {} THEN Skip
               ELSE [walk EXCEPT !.uids = Held(f), !.val = f.val]
    /\ UNCHANGED <<server, boxes, born, index, token, pass, write, claims,
                   misfired, fresh, spent>>

\* One that refuses is skipped with all it holds: no delta tells of it later.
EnterRefused ==
    /\ pc = "walk" /\ walk.order # <<>> /\ ~Listed /\ spent.faults < MaxFaults
    /\ spent' = [spent EXCEPT !.faults = @ + 1]
    /\ walk' = Skip
    /\ unreported' = unreported \cup RefsOf(Head(walk.order), Snapshot(boxes[Head(walk.order)]))
    /\ UNCHANGED <<server, boxes, born, index, token, pass, write, unheard, strays, misfired, fresh>>

\* A page of a folder that is still the one that was listed.
EnumeratePage ==
    /\ pc = "walk" /\ walk.order # <<>> /\ Listed
    /\ LET b == Head(walk.order)
           u == Newest(walk.uids)
           id == Ref(b, walk.val, u) IN
       /\ boxes[b].val = walk.val /\ Strays({id})
       /\ index' = IF boxes[b].mail[u] = 0 THEN {r \in index : r.id # id}
                   ELSE {r \in index : r.id # id} \cup {Row(id)}
       /\ walk' = IF walk.uids = {u} THEN Skip ELSE [walk EXCEPT !.uids = @ \ {u}]
    /\ UNCHANGED <<server, boxes, born, token, pass, write, unreported, unheard, misfired,
                   fresh, spent>>

\* A folder gone, or made anew, after it was listed: the pass ends and the
\* cursor stays, here and in every pass after it.
EnumerateFails ==
    /\ pc = "walk" /\ walk.order # <<>> /\ Listed
    /\ boxes[Head(walk.order)].val # walk.val
    /\ pc' = "idle"
    /\ UNCHANGED <<server, boxes, born, index, token, walk, todo, seenAs, delta, next,
                   write, claims, misfired, fresh, spent>>

FinishBackfill ==
    /\ pc = "walk" /\ walk.order = <<>>
    /\ token' = [pass |-> 0, at |-> walk.start] /\ walk' = NoWalk /\ pc' = "idle"
    /\ UNCHANGED <<server, boxes, born, index, todo, seenAs, delta, next,
                   write, claims, misfired, fresh, spent>>

-----------------------------------------------------------------------------
(* A delta: Changes.                                                       *)

Pass == token.pass + 1
Prev(b) == token.at[b]
Known(b) == Prev(b).val # 0
SeenIn(r, k) == r.id.uid \in k.seen

\* Rows whose flags are not those of the folder as it is called again: a
\* comparison with what was last reported does not see that.
Off(b, k) == {r.id : r \in {x \in index : x.id \in RefsOf(b, k) /\ x.seen # SeenIn(x, k)}}

Called(b, ids) == {[id EXCEPT !.box = b] : id \in ids}

\* Mutant of SameFolder: whatever has as many messages.
SameFolder_BySize(k, now) == now.count = k.count /\ k.uids \subseteq now.uids
SameFolder(k, now) == now.val = k.val /\ now.count = k.count /\ k.uids \subseteq now.uids

\* Folders gone and new; one of each that look alike are one folder renamed.
BeginDelta ==
    /\ Begins /\ Synced /\ fresh' = TRUE /\ pc' = "status"
    /\ LET gone == {b \in Folders : Known(b) /\ ~There(b)}
           new == {b \in Folders : There(b) /\ ~Known(b)}
           moved == {m \in gone \X new : /\ Cardinality(gone) = 1 /\ Cardinality(new) = 1
                                        /\ SameFolder(Prev(m[1]), Snapshot(boxes[m[2]]))}
           from == {m[1] : m \in moved}
           to == {m[2] : m \in moved} IN
       /\ delta' = [NoDelta EXCEPT
              !.renamed = {[old |-> Ref(m[1], Prev(m[1]).val, u), new |-> Ref(m[2], boxes[m[2]].val, u)] :
                              <<m, u>> \in {x \in moved \X Uids : x[2] \in Prev(x[1][1]).uids}},
              !.removed = UNION {RefsOf(b, Prev(b)) : b \in gone \ from}]
       /\ next' = [b \in Folders |-> IF b \in to THEN Snapshot(boxes[b]) ELSE Unknown]
       /\ todo' = SelectSeq(Order, LAMBDA b : There(b) /\ b \notin to)
       /\ unheard' = unheard \cup UNION {LET now == Snapshot(boxes[m[2]]) IN Called(m[2], Off(m[1], now)) \cup Off(m[2], now) :
                     m \in moved}
       /\ unreported' = unreported \cup
              UNION {(RefsOf(m[2], Snapshot(boxes[m[2]])) \ Called(m[2], RefsOf(m[1], Prev(m[1])) \cap Indexed)) \ Indexed : m \in moved}
    /\ UNCHANGED <<server, boxes, born, index, token, walk, seenAs, write, strays, misfired>>

InPass == UNCHANGED <<server, boxes, born, index, token, walk, write, misfired, spent>>

\* A folder is done with: its state is k.
Done(b, k) == /\ next' = [next EXCEPT ![b] = k] /\ todo' = Tail(todo)
              /\ pc' = "status" /\ seenAs' = Unknown
Report(added, updated, removed) ==
    delta' = [delta EXCEPT !.added = @ \cup added, !.updated = @ \cup updated,
                           !.removed = @ \cup removed]

\* A folder that cannot be read, or is not there any more, keeps its state.
Unreadable(b) == Done(b, Prev(b)) /\ UNCHANGED <<delta, claims>>

FolderGone ==
    /\ pc \in {"status", "fetch", "search"} /\ todo # <<>> /\ ~There(Head(todo))
    /\ Unreadable(Head(todo)) /\ InPass /\ UNCHANGED fresh

FolderRefuses ==
    /\ pc \in {"status", "fetch", "search"} /\ todo # <<>> /\ spent.faults < MaxFaults
    /\ Unreadable(Head(todo)) /\ fresh' = FALSE
    /\ spent' = [spent EXCEPT !.faults = @ + 1]
    /\ UNCHANGED <<server, boxes, born, index, token, walk, write, misfired>>

At(b) == pc = "status" /\ todo # <<>> /\ b = Head(todo) /\ There(b)

\* One never seen, or made anew: everything in it is new.
FolderNew(b) ==
    /\ At(b) /\ boxes[b].val # Prev(b).val
    /\ Report({}, {}, RefsOf(b, Prev(b)))
    /\ LET now == Snapshot(boxes[b]) IN
       IF now.uids = {} THEN Done(b, now)
       ELSE next' = [next EXCEPT ![b] = now] /\ pc' = "envelopes" /\ UNCHANGED <<todo, seenAs>>
    /\ InPass /\ UNCHANGED <<claims, fresh>>

\* The envelopes of it are asked for after it was listed.
FolderEnvelopes ==
    /\ pc = "envelopes" /\ boxes[Head(todo)].val = next[Head(todo)].val
    /\ LET b == Head(todo)
           now == next[b] IN
       Report({Ref(b, now.val, u) : u \in now.uids \cap Held(boxes[b])}, {}, {}) /\ Done(b, now)
    /\ InPass /\ UNCHANGED <<claims, fresh>>

\* One made anew keeps its state, though its messages are reported gone; for
\* one never seen the pass fails.
EnvelopesFail ==
    /\ pc = "envelopes" /\ fresh' = FALSE
    /\ LET b == Head(todo) IN
       /\ \/ boxes[b].val # next[b].val /\ UNCHANGED spent
          \/ spent.faults < MaxFaults /\ spent' = [spent EXCEPT !.faults = @ + 1]
       /\ IF Known(b) THEN Unreadable(b)
          ELSE pc' = "idle" /\ UNCHANGED <<todo, seenAs, next, delta, claims>>
    /\ UNCHANGED <<server, boxes, born, index, token, walk, write, misfired>>

Condstore(k, st) == k.mod # 0 /\ st.mod # 0
Sweep(k, st) == ~Condstore(k, st) /\ Pass - k.scan >= SweepEvery
\* Mutant of Quiet: the counts say it all.
Quiet_Counts(k, st) == /\ st.count = k.count /\ st.unseen = k.unseen
                       /\ Condstore(k, st) => st.mod = k.mod
Quiet(k, st) == /\ st.uidnext = k.uidnext /\ st.count = k.count /\ st.unseen = k.unseen
                /\ Condstore(k, st) => st.mod = k.mod

\* STATUS: nothing arrived, nothing left; or the folder is compared.
FolderQuiet(b) ==
    /\ At(b) /\ boxes[b].val = Prev(b).val
    /\ LET st == Status(boxes[b]) IN Quiet(Prev(b), st) /\ ~Sweep(Prev(b), st)
    /\ Done(b, Prev(b)) /\ unheard' = unheard \cup Off(b, Prev(b))
    /\ InPass /\ UNCHANGED <<delta, unreported, strays, fresh>>

FolderChanged(b) ==
    /\ At(b) /\ boxes[b].val = Prev(b).val
    /\ LET st == Status(boxes[b]) IN ~Quiet(Prev(b), st) \/ Sweep(Prev(b), st)
    /\ seenAs' = Status(boxes[b]) /\ pc' = "fetch"
    /\ InPass /\ UNCHANGED <<todo, delta, next, claims, fresh>>

\* FETCH: what has come since, and whose flags are others than reported.
Arrivals(k, st, f) == IF st.uidnext > k.uidnext \/ st.count > k.count
                      THEN {u \in Held(f) : u >= k.uidnext} \ k.uids ELSE {}
Changed(k, st, f) == IF Condstore(k, st) /\ st.mod = k.mod THEN {}
                     ELSE {u \in k.uids \cap Held(f) : (u \in f.seen) # (u \in k.seen)}

FolderFetch ==
    /\ pc = "fetch" /\ There(Head(todo))
    /\ LET b == Head(todo)
           f == boxes[b]
           k == Prev(b)
           new == Arrivals(k, seenAs, f)
           changed == Changed(k, seenAs, f)
           told == [seenAs EXCEPT !.uids = k.uids \cup new,
                       !.seen = (k.seen \ changed) \cup ((new \cup changed) \cap f.seen),
                       !.scan = IF Sweep(k, seenAs) THEN Pass ELSE k.scan] IN
       /\ Report({Ref(b, f.val, u) : u \in new},
                 {[id |-> Ref(b, f.val, u), seen |-> u \in f.seen] : u \in changed}, {})
       /\ unheard' = unheard \cup {id \in Off(b, k) : id.uid \notin changed}
       /\ IF seenAs.count = Cardinality(told.uids) /\ ~Sweep(k, seenAs)
          THEN Done(b, told)
          ELSE next' = [next EXCEPT ![b] = told] /\ pc' = "search" /\ UNCHANGED <<todo, seenAs>>
    /\ InPass /\ UNCHANGED <<unreported, strays, fresh>>

\* SEARCH: what is not there is gone; what is there is taken as known, and
\* what came since the FETCH with it.
FolderSearch ==
    /\ pc = "search" /\ There(Head(todo))
    /\ LET b == Head(todo)
           f == boxes[b]
           told == next[b] IN
       /\ Report({}, {}, {Ref(b, Prev(b).val, u) : u \in Prev(b).uids \ Held(f)})
       /\ Done(b, [told EXCEPT !.uids = Held(f), !.seen = @ \cap Held(f)])
       /\ unreported' = unreported \cup {Ref(b, f.val, u) : u \in Held(f) \ told.uids}
    /\ InPass /\ UNCHANGED <<unheard, strays, fresh>>

-----------------------------------------------------------------------------
(* What the pass does with it: sync/mail.go, delta.                        *)

\* RenameRemoteID: where the new id has a row already, that row stands.
Renamed(rows, pairs) ==
    {IF \E p \in pairs : p.old = r.id
     THEN [r EXCEPT !.id = (CHOOSE p \in pairs : p.old = r.id).new] ELSE r :
        r \in {x \in rows : \A p \in pairs : p.old = x.id => p.new \notin {y.id : y \in rows}}}

ApplyRenames ==
    /\ pc = "status" /\ todo = <<>>
    /\ index' = Renamed(index, delta.renamed) /\ pc' = "index"
    /\ Strays({p.new : p \in delta.renamed})
    /\ UNCHANGED <<server, boxes, born, token, walk, todo, seenAs, delta, next, write,
                   unreported, unheard, misfired, fresh, spent>>

ToFetch == (delta.added \cup ({e.id : e \in delta.updated} \ Indexed)) \ delta.removed

\* FETCH of bodies names uids only: what comes has the validity of today.
Current(id) == Ref(id.box, boxes[id.box].val, id.uid)
Fetched == {Current(id) : id \in ToFetch} \cap Served

FetchIndex ==
    /\ pc = "index" /\ \A id \in ToFetch : There(id.box)
    /\ index' = {r \in index : r.id \notin Fetched} \cup {Row(id) : id \in Fetched}
    /\ delta' = [delta EXCEPT !.removed = @ \cup (ToFetch \ Fetched)]
    /\ pc' = "settle" /\ Strays(Fetched)
    /\ UNCHANGED <<server, boxes, born, token, walk, todo, seenAs, next, write, unreported,
                   unheard, misfired, fresh, spent>>

\* A folder that cannot be selected fails the pass, whatever others gave.
FetchFails ==
    /\ pc = "index" /\ \E id \in ToFetch : ~There(id.box)
    /\ \E got \in {{}, Fetched} :
        Strays(got) /\ index' = {r \in index : r.id \notin got} \cup {Row(id) : id \in got}
    /\ pc' = "idle" /\ fresh' = FALSE
    /\ UNCHANGED <<server, boxes, born, token, walk, todo, seenAs, delta, next, write,
                   unreported, unheard, misfired, spent>>

Updated(rows) == {IF \E e \in delta.updated : e.id = r.id
                  THEN [r EXCEPT !.seen = (CHOOSE e \in delta.updated : e.id = r.id).seen] ELSE r :
                     r \in rows}

SetState ==
    /\ pc = "settle"
    /\ index' = Updated({r \in index : r.id \notin delta.removed})
    /\ token' = [pass |-> Pass, at |-> next]
    /\ pc' = "idle"
    /\ strays' = {id \in strays : id \notin RefsOf(id.box, next[id.box])}
    /\ delta' = NoDelta /\ next' = NoState
    /\ UNCHANGED <<server, boxes, born, walk, todo, seenAs, write, unreported, unheard,
                   misfired, fresh, spent>>

\* The process dies: what was committed stands.
Die ==
    /\ pc # "idle" /\ spent.faults < MaxFaults
    /\ spent' = [spent EXCEPT !.faults = @ + 1]
    /\ pc' = "idle" /\ todo' = <<>> /\ seenAs' = Unknown /\ delta' = NoDelta /\ next' = NoState
    /\ fresh' = FALSE
    /\ UNCHANGED <<server, boxes, born, index, token, walk, write, claims, misfired>>

-----------------------------------------------------------------------------
(* The user's writes.                                                      *)

Writes == /\ write.st = "none" /\ spent.writes < MaxWrites /\ spent.events < MaxEvents
          /\ spent' = [spent EXCEPT !.events = @ + 1, !.writes = @ + 1] /\ fresh' = FALSE

\* SetFlags: the row is patched, then STORE names the uid only.
WriteFlag(r) ==
    /\ Writes /\ r.id \in Served
    /\ index' = (index \ {r}) \cup {[r EXCEPT !.seen = ~@]}
    /\ boxes' = [boxes EXCEPT ![r.id.box].seen = IF r.seen THEN @ \ {r.id.uid} ELSE @ \cup {r.id.uid},
                              ![r.id.box].mod = @ + 1]
    /\ UNCHANGED <<server, born, token, walk, pass, write, claims, misfired>>

\* SetMailboxesRemap, TrashRemap, RestoreRemap: messages of one folder.
AskMove(b, us, c) ==
    /\ Writes /\ us # {} /\ c # b /\ There(c)
    /\ \E v \in Vals :
        /\ \A u \in us : Ref(b, v, u) \in Indexed
        /\ write' = [NoWrite EXCEPT !.st = "asked", !.box = b, !.val = v, !.uids = us, !.dest = c]
    /\ UNCHANGED <<server, boxes, born, index, token, walk, pass, claims, misfired>>

Before(u, us) == Cardinality({v \in us : v < u})
Copied(f, from, us) ==
    [f EXCEPT !.uidnext = @ + Cardinality(us), !.mod = @ + 1,
              !.mail = [w \in Uids |-> IF \E u \in us : w = f.uidnext + Before(u, us)
                                       THEN from.mail[CHOOSE u \in us : w = f.uidnext + Before(u, us)]
                                       ELSE @[w]],
              !.seen = @ \cup {f.uidnext + Before(u, us) : u \in us \cap from.seen}]
Expunged(f, us) == [f EXCEPT !.mail = [w \in Uids |-> IF w \in us THEN 0 ELSE @[w]],
                             !.seen = @ \ us, !.mod = @ + 1]

\* COPYUID: the uids the server says it took, and those it gave them.
RenamesFrom(us, taken, f) ==
    {[old |-> Ref(write.box, write.val, u),
      new |-> Ref(write.dest, f.val, f.uidnext + Before(u, taken))] : u \in taken}

\* The server does what the uids say, whatever folder made anew they name.
MoveTo ==
    /\ write.st = "asked" /\ There(write.box) /\ There(write.dest)
    /\ LET src == boxes[write.box]
           dst == boxes[write.dest]
           taken == write.uids \cap Held(src) IN
       /\ dst.uidnext + Cardinality(taken) - 1 \in Uids \cup {0}
       /\ boxes' = [boxes EXCEPT ![write.dest] = Copied(@, src, taken),
                                 ![write.box] = IF server.move THEN Expunged(@, taken) ELSE @]
       /\ write' = [write EXCEPT !.st = IF server.move THEN "moved" ELSE "copied",
                        !.pairs = IF server.uidplus THEN RenamesFrom(write.uids, taken, dst) ELSE {}]
       /\ misfired' = (misfired \/ src.val # write.val)
    /\ fresh' = FALSE
    /\ UNCHANGED <<server, born, index, token, walk, pass, claims, spent>>

\* No MOVE: the originals go in a command of their own.
UIDExpunge ==
    /\ write.st = "copied" /\ There(write.box)
    /\ boxes' = [boxes EXCEPT ![write.box] = Expunged(@, write.uids \cap Held(@))]
    /\ write' = [write EXCEPT !.st = "moved"]
    /\ misfired' = (misfired \/ boxes[write.box].val # write.val)
    /\ fresh' = FALSE
    /\ UNCHANGED <<server, born, index, token, walk, pass, claims, spent>>

\* The rows follow, as the write is marked done.
SettleMove ==
    /\ write.st = "moved" /\ index' = Renamed(index, write.pairs) /\ write' = NoWrite
    /\ Strays({p.new : p \in write.pairs}) /\ fresh' = FALSE
    /\ UNCHANGED <<server, boxes, born, token, walk, pass, unreported, unheard, misfired, spent>>

\* A folder of it is not there: the write fails.
MoveFails ==
    /\ \/ write.st = "asked" /\ (~There(write.box) \/ ~There(write.dest))
       \/ write.st = "copied" /\ ~There(write.box)
    /\ write' = NoWrite /\ fresh' = FALSE
    /\ UNCHANGED <<server, boxes, born, index, token, walk, pass, claims, misfired, spent>>

\* The connection breaks before the answer: the queue asks again.
LoseAnswer ==
    /\ write.st \in {"copied", "moved"} /\ spent.faults < MaxFaults
    /\ spent' = [spent EXCEPT !.faults = @ + 1]
    /\ write' = [write EXCEPT !.st = "asked", !.pairs = {}] /\ fresh' = FALSE
    /\ UNCHANGED <<server, boxes, born, index, token, walk, pass, claims, misfired>>

-----------------------------------------------------------------------------
OtherClients ==
    \/ \E b \in Folders : Deliver(b) \/ MakeFolder(b) \/ DeleteFolder(b)
    \/ \E b \in Folders, u \in Uids : Expunge(b, u) \/ Flag(b, u)
    \/ \E b, c \in Folders : RenameFolder(b, c)
Backfill == StartBackfill \/ ResumeBackfill \/ EnterFolder \/ EnterRefused \/ EnumeratePage
            \/ EnumerateFails \/ FinishBackfill
Delta == \/ BeginDelta \/ FolderGone \/ FolderRefuses \/ FolderEnvelopes \/ EnvelopesFail
         \/ FolderFetch \/ FolderSearch
         \/ \E b \in Folders : FolderNew(b) \/ FolderQuiet(b) \/ FolderChanged(b)
         \/ ApplyRenames \/ FetchIndex \/ FetchFails \/ SetState
User == \/ \E r \in index : WriteFlag(r)
        \/ \E b, c \in Folders : \E us \in SUBSET Uids : AskMove(b, us, c)
        \/ MoveTo \/ UIDExpunge \/ SettleMove \/ MoveFails \/ LoseAnswer
Next == OtherClients \/ Backfill \/ Delta \/ Die \/ User
Spec == Init /\ [][Next]_vars

-----------------------------------------------------------------------------
TypeOK ==
    /\ \A r \in index : r.id \in Ids /\ r.msg \in 1 .. born.msg /\ r.seen \in BOOLEAN
    /\ \A r, x \in index : r.id = x.id => r = x
    /\ token.pass \in -1 .. MaxPasses
    /\ \A b \in Folders : token.at[b].val \in Vals \cup {0} /\ next[b].val \in Vals \cup {0}
    /\ pc \in {"idle", "walk", "status", "envelopes", "fetch", "search", "index", "settle"}
    /\ write.st \in {"none", "asked", "copied", "moved"}

\* After a pass that nothing came between, the index has the messages the
\* server has; and, of a folder that can say what changed or was swept, their
\* flags: though nothing on the server keeps a log of changes (changes.go, 30).
\* But not what a folder held that refused when the backfill came to it, or
\* was renamed by then (enumerate.go, 168); an arrival between the FETCH and
\* the SEARCH of an earlier comparison, which the state took as reported
\* (changes.go, 287); a row that went before any state had its name; a flag
\* that is again what was last reported though the row has another
\* (changes.go, 269).  Each stays until the server says otherwise.
Caught ==
    /\ TypeOK
    /\ (fresh /\ pc = "idle" /\ write = NoWrite) =>
        /\ Indexed \ Served \subseteq strays
        /\ Served \ Indexed \subseteq unreported
        /\ \A r \in {x \in index : x.id \in Served} :
            (server.condstore \/ token.at[r.id.box].scan = token.pass) =>
                r.seen = Row(r.id).seen \/ r.id \in unheard

\* A row is the message the server has under its id, through moves, renamed
\* folders and folders made anew (write.go, 215; fetch.go, 49; changes.go, 83),
\* as long as no move has gone to a folder made anew: the commands name uids
\* and nothing compares the validity they were minted under (write.go, 163).
RowsTrue ==
    misfired \/ \A r \in index : r.id \in Served => r.msg = Row(r.id).msg

\* A message leaves the index only when its id is gone from the server: a
\* folder that cannot be read is not an empty one (changes.go, 146).
RemovedIsGone == \A id \in Indexed \ Indexed' : id \notin Served'

\* A row stands for its message for as long as there is one, after every step.
RowsHold == [][RowsTrue' /\ RemovedIsGone]_vars
=============================================================================
