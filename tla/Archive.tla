------------------------------- MODULE Archive -------------------------------
(***************************************************************************)
(* The archive of one account: compressed files named by their content     *)
(* (internal/blob), the rows of the index that refer to them, and what is  *)
(* derived from the rows: threads and their summaries, the address book    *)
(* (internal/store).  Four kinds of process work on it at once, and only   *)
(* the first takes a lock: a pass that indexes what the provider has, a    *)
(* reader that fetches what it misses, the collector and the reindexer     *)
(* (internal/sync/maint.go).                                               *)
(*                                                                         *)
(* How a pass finds out what has changed is the business of MailSync.      *)
(* Messages are numbered by age; so are Message-IDs, that of message m     *)
(* being m and 0 one that nobody has.  The account threads by references,  *)
(* as IMAP accounts do.                                                    *)
(***************************************************************************)
EXTENDS Integers, Sequences, FiniteSets, FiniteSetsExt, Functions

CONSTANTS
    N,        \* messages are 1..N, a later one is newer
    Sha,      \* the content of each message, as the archive's key
    References, InReplyTo, \* the headers of each message: ids, oldest first
    MaxRefs,  \* maxMessageRefs
    To,       \* whom each message is addressed to
    Big,      \* messages above raw_max_size: a pass stores a stub
    Page,     \* reindexPage
    Orphans,  \* old files an earlier crash may have left behind
    Budget,   \* bound: how often each of Events happens,
    MaxEvents \* and all of them

Msgs == 1..N
Shas == {Sha[m] : m \in Msgs}
People == UNION {To[m] : m \in Msgs}
Events == {"gc", "purge", "reindex", "rethread", "read", "crash", "file", "destroy"}

NoBlob == "no blob"

ASSUME ContentsAssumption == /\ N \in Nat \ {0} /\ DOMAIN Sha = Msgs /\ DOMAIN To = Msgs /\ Big \subseteq Msgs
                          /\ Orphans \subseteq Shas /\ NoBlob \notin Shas
ASSUME RefsAssumption == /\ \A m \in Msgs : {References[m], InReplyTo[m]} \subseteq Seq(0..N)
                         /\ MaxRefs \in Nat \ {0}
ASSUME BoundsAssumption == /\ Page \in Nat \ {0} /\ Budget \in [Events -> Nat]
                          /\ MaxEvents \in Nat

\* messageRefs: the ids a message names, itself last, up to a cap of different
\* ones; the first of them is the root of its conversation.
Ids(m) == References[m] \o InReplyTo[m] \o <<m>>
Refs == [m \in Msgs |-> {Ids(m)[i] : i \in {k \in DOMAIN Ids(m) :
                              Cardinality({Ids(m)[j] : j \in 1..k}) <= MaxRefs}}]
Root(m) == Head(Ids(m))

Writers == {"sync", "reader"}
NoThread == -1               \* thread_id is empty
ThreadIds == 0..2 * N        \* of a Message-ID, or of a message without headers

VARIABLES
    there,    \* the provider: its messages and where it files them
    filed,
    files,    \* the blob store: its files, those younger than orphanGrace,
    young,    \* and the temporary files of writers
    temp,
    db,       \* the index: rows, message_refs, threads, message_addresses, contacts
    at, job, seen, \* a writer: where it is, its message, how the provider filed it
    gc,       \* the collector: where it is and what it has read
    re,       \* the reindexer: where it is, its offset and its page
    exposed,  \* contents a writer counts on that the collector does not spare
    stale,    \* rows the reindexer has written over newer ones
    fresh, unlisted, owed, \* what a purge may have left wrong: see below
    wrote,    \* what passes and readers last wrote of each row
    spent

provider == <<there, filed>>
store == <<files, young, temp>>
writers == <<at, job, seen>>
history == <<exposed, stale, fresh, unlisted, owed, wrote>>
vars == <<provider, store, db, writers, gc, re, history, spent>>

Spend(e) == /\ spent[e] < Budget[e] /\ SumFunction(spent) < MaxEvents
            /\ spent' = [spent EXCEPT ![e] = @ + 1]

Rows == DOMAIN db.rows
Full(r) == r.raw = "full"
Live(r) == r.gone = "no"

-----------------------------------------------------------------------------
(* The index (internal/store).                                             *)

\* refreshThread: a summary is made of the messages that are not deleted, and
\* dropped with the last of them.
Members(rows, t) == {m \in DOMAIN rows : rows[m].thread = t /\ Live(rows[m])}

RefreshThreads(rows, threads, ids) ==
    [t \in ThreadIds |-> IF t \in ids THEN Members(rows, t) ELSE threads[t]]

\* resolveThreadID: of the threads that share an id with the message the
\* smallest wins and takes over the others; without any, the root names it.
ResolveThread(d, m) ==
    LET hits == {d.rows[n].thread : n \in {k \in d.reffed : Refs[k] \cap Refs[m] # {}}}
                    \ {NoThread}
    IN  IF hits = {} THEN [thread |-> Root(m), losers |-> {}]
                     ELSE [thread |-> Min(hits), losers |-> hits \ {Min(hits)}]

\* mintThreadID has nothing to go by in a stub, whose headers are not parsed.
Solo(m) == [thread |-> N + m, losers |-> {}]

\* addressInserts: who is on a message, and whether it is the account's own.
Addresses(m, row) == {<<p, row.box>> : p \in To[m]}

\* contactInsert.
Contact(addr, p) == {x \in Msgs \X {"inbox", "sent"} : <<p, x[2]>> \in addr[x[1]]}

\* replaceAddresses: the contacts named before and now are computed anew.
ReplaceAddresses(d, m, row) ==
    LET addr == [d.addr EXCEPT ![m] = Addresses(m, row)]
        touched == To[m]
    IN  [addr |-> addr,
         book |-> [p \in People |-> IF p \in touched THEN Contact(addr, p) ELSE d.book[p]]]

\* mergeThreads.
MergeThreads(rows, winner, losers) ==
    [m \in DOMAIN rows |-> IF rows[m].thread \in losers THEN [rows[m] EXCEPT !.thread = winner]
                                                       ELSE rows[m]]

\* The thread the caller has, if any.
Assigned(d, m, r) == IF r.thread # NoThread THEN [thread |-> r.thread, losers |-> {}]
                     ELSE IF Full(r) THEN ResolveThread(d, m) ELSE Solo(m)

\* A stub keeps the blob of the row it replaces, and its message_refs.
UpsertMessage(d, m, r) ==
    LET old    == m \in DOMAIN d.rows
        thread == Assigned(d, m, r)
        blob   == IF r.blob = NoBlob /\ old THEN d.rows[m].blob ELSE r.blob
        row    == [r EXCEPT !.thread = thread.thread, !.blob = blob]
        rows   == MergeThreads([n \in DOMAIN d.rows \cup {m} |-> IF n = m THEN row ELSE d.rows[n]],
                               thread.thread, thread.losers)
        before == IF old THEN {d.rows[m].thread} ELSE {}
        people == ReplaceAddresses(d, m, row)
    IN  [rows |-> rows,
         reffed |-> IF Full(r) THEN d.reffed \cup {m} ELSE d.reffed,
         threads |-> RefreshThreads(rows, d.threads,
                         (thread.losers \cup before \cup {thread.thread}) \ {NoThread}),
         addr |-> people.addr, book |-> people.book]

SetRow(d, m, row) ==
    LET rows == [d.rows EXCEPT ![m] = row]
    IN  [d EXCEPT !.rows = rows,
                  !.threads = RefreshThreads(rows, d.threads, {row.thread} \ {NoThread})]

\* MarkDeleted takes the message out of its mailboxes; row and bytes stay.
MarkDeleted(d, m) == SetRow(d, m, [d.rows[m] EXCEPT !.gone = "yes", !.box = "inbox"])

ApplyRemoteState(d, m, box) == SetRow(d, m, [d.rows[m] EXCEPT !.box = box])

Empty == [rows |-> [m \in {} |-> 0], reffed |-> {},
          threads |-> [t \in ThreadIds |-> {}],
          addr |-> [m \in Msgs |-> {}], book |-> [p \in People |-> {}]]

Facts(r) == <<r.box, r.gone>>

\* Get: the bytes of a row are there to be read.
Readable(m) == Full(db.rows[m]) /\ db.rows[m].blob \in files

\* A transaction that has written the rows ms: a rebuild under way does not
\* know their threads, and what was left wrong of what it refreshes is right.
Store(ms, d) ==
    /\ db' = d
    /\ fresh' = IF gc.pc = "threads" THEN fresh \cup ({d.rows[m].thread : m \in ms} \ {NoThread})
                                      ELSE fresh
    /\ unlisted' = {t \in unlisted : d.threads[t] # Members(d.rows, t)}
    /\ owed' = owed \ UNION {To[m] : m \in {n \in ms : d.addr # db.addr}}

\* One of a pass or a reader.
Commit(m, d) == /\ Store({m}, d)
                /\ wrote' = [wrote EXCEPT ![m] = Facts(d.rows[m])]

-----------------------------------------------------------------------------
(* A pass and a reader: blob first, row second.                            *)

Idle(w) == at[w] = "idle"

Step(w, to) == at' = [at EXCEPT ![w] = to]

\* A Put makes do with the file that is there, whether a live row has it or not.
Counted(s) == exposed' = IF \E m \in Rows \ stale : db.rows[m].blob = s /\ Live(db.rows[m])
                      THEN exposed ELSE exposed \cup {s}

\* prepare: an identical blob is not written again (Put).
Prepare(w, m) ==
    /\ job' = [job EXCEPT ![w] = m]
    /\ seen' = [seen EXCEPT ![w] = filed[m]]
    /\ \/ Sha[m] \in files /\ Counted(Sha[m]) /\ Step(w, "row") /\ UNCHANGED temp
       \/ /\ Sha[m] \notin files
          /\ Step(w, "link") /\ temp' = temp \cup {w}
          /\ UNCHANGED exposed

\* fetchIndex: what the provider has and the index has not.
BeginFetch(m) ==
    /\ Idle("sync") /\ m \in there /\ m \notin Rows /\ m \notin Big
    /\ Prepare("sync", m)
    /\ UNCHANGED <<provider, files, young, db, gc, re, stale, fresh, unlisted, owed, wrote, spent>>

\* A stub is written without bytes; it keeps what an earlier row had.
WriteStub(m) ==
    /\ Idle("sync") /\ m \in there /\ m \notin Rows /\ m \in Big
    /\ Commit(m, UpsertMessage(db, m, [blob |-> NoBlob, raw |-> "stub", box |-> filed[m],
                                       gone |-> "no", thread |-> NoThread]))
    /\ UNCHANGED <<provider, store, writers, gc, re, exposed, stale, spent>>

\* EnsureRaw: a row whose bytes are there is read; otherwise they are fetched,
\* and a message the provider no longer has is marked deleted.
EnsureRaw(m) ==
    /\ Idle("reader") /\ m \in Rows /\ Spend("read")
    /\ ~Readable(m)
    /\ \/ m \in there /\ Prepare("reader", m) /\ UNCHANGED <<db, fresh, unlisted, owed, wrote>>
       \/ /\ m \notin there
          /\ Commit(m, IF Live(db.rows[m]) THEN MarkDeleted(db, m) ELSE db)
          /\ UNCHANGED <<writers, temp, exposed>>
    /\ UNCHANGED <<provider, files, young, gc, re, stale>>

\* The temporary file becomes the blob unless another writer was first; when a
\* collector has swept it away, the batch fails.
PutLink(w) ==
    /\ at[w] = "link"
    /\ temp' = temp \ {w}
    /\ LET s == Sha[job[w]] IN
       \/ /\ s \in files
          /\ Counted(s)
          /\ Step(w, "row") /\ UNCHANGED <<files, young>>
       \/ /\ s \notin files /\ w \in temp
          /\ files' = files \cup {s} /\ young' = young \cup {s}
          /\ exposed' = IF gc.pc # "idle" /\ s \in gc.purged THEN exposed \cup {s} ELSE exposed
          /\ Step(w, "row")
       \/ /\ s \notin files /\ w \notin temp
          /\ Step(w, "idle") /\ UNCHANGED <<files, young, exposed>>
    /\ UNCHANGED <<provider, db, job, seen, gc, re, stale, fresh, unlisted, owed, wrote, spent>>

\* writeBatch.
WriteRow(w) ==
    /\ at[w] = "row"
    /\ LET m == job[w] IN
       Commit(m, UpsertMessage(db, m, [blob |-> Sha[m], raw |-> "full", box |-> seen[w],
                                       gone |-> "no", thread |-> NoThread]))
    /\ Step(w, "idle")
    /\ UNCHANGED <<provider, store, job, seen, gc, re, exposed, stale, spent>>

\* What a delta brings of messages that are indexed.
ApplyDelta(m) ==
    /\ Idle("sync") /\ m \in Rows /\ Live(db.rows[m])
    /\ \/ m \notin there /\ Commit(m, MarkDeleted(db, m))
       \/ /\ m \in there /\ filed[m] # db.rows[m].box
          /\ Commit(m, ApplyRemoteState(db, m, filed[m]))
    /\ UNCHANGED <<provider, store, writers, gc, re, exposed, stale, spent>>

CrashWriter(w) ==
    /\ ~Idle(w) /\ Spend("crash")
    /\ Step(w, "idle")
    /\ UNCHANGED <<provider, store, db, job, seen, gc, re, history>>

-----------------------------------------------------------------------------
(* The collector.                                                          *)

GcAt(pc) == [gc EXCEPT !.pc = pc]

Doomed == {m \in Rows : ~Live(db.rows[m])}

\* GC; with --purge-deleted it first asks whether there is anything to purge ...
BeginGC ==
    /\ gc.pc = "idle"
    /\ \E pc \in {"refs", "doomed", "spared"} :
          /\ gc' = [GcAt(pc) EXCEPT !.purged = {}]
          /\ IF pc = "refs" THEN Spend("gc") ELSE Spend("purge") /\ (pc = "spared" <=> Doomed = {})
    /\ UNCHANGED <<provider, store, db, writers, re, history>>

\* ... and then which bytes are to go, by what is deleted now.
ListDoomed ==
    /\ gc.pc \in {"doomed", "spared"}
    /\ gc' = [GcAt(IF gc.pc = "doomed" THEN "purge" ELSE "refs")
                 EXCEPT !.purged = {db.rows[m].blob : m \in Doomed} \ {NoBlob}]
    /\ UNCHANGED <<provider, store, db, writers, re, history, spent>>

\* The rows that are deleted by now; message_refs and message_addresses follow
\* by cascade, summaries and contacts do not.  A writer may count on the last of
\* them for its bytes.
PurgeRows ==
    /\ gc.pc = "purge"
    /\ LET kept   == {m \in Rows : Live(db.rows[m])}
           spared == {db.rows[m].blob : m \in kept} \cup (young \ gc.purged)
       IN
       /\ db' = [db EXCEPT !.rows = [m \in kept |-> db.rows[m]],
                           !.reffed = @ \cap kept,
                           !.addr = [m \in Msgs |-> IF m \in kept THEN @[m] ELSE {}]]
       /\ owed' = owed \cup UNION {To[m] : m \in Rows \ kept}
       /\ exposed' = exposed \cup ({Sha[job[w]] : w \in {v \in Writers : at[v] = "row"}} \ spared)
    /\ gc' = GcAt("ids")
    /\ UNCHANGED <<provider, store, writers, re, stale, fresh, unlisted, wrote, spent>>

\* RebuildThreads lists the threads before its transaction ...
ListThreadIds ==
    /\ gc.pc = "ids"
    /\ gc' = [GcAt("threads") EXCEPT !.ids = {db.rows[m].thread : m \in Rows} \ {NoThread}]
    /\ fresh' = {}
    /\ UNCHANGED <<provider, store, db, writers, re, exposed, stale, unlisted, owed, wrote, spent>>

\* ... which drops every summary and makes those of the listed ones again.
RebuildThreads ==
    /\ gc.pc = "threads"
    /\ db' = [db EXCEPT !.threads =
                 [t \in ThreadIds |-> IF t \in gc.ids THEN Members(db.rows, t) ELSE {}]]
    /\ unlisted' = (unlisted \cup fresh) \ gc.ids
    /\ gc' = GcAt("contacts")
    /\ UNCHANGED <<provider, store, writers, re, exposed, stale, fresh, owed, wrote, spent>>

\* Mutant of RebuildContacts: the purge is thought to have left the book right.
RebuildContacts_None ==
    /\ gc.pc = "contacts"
    /\ owed' = {} /\ gc' = GcAt("refs")
    /\ UNCHANGED <<provider, store, db, writers, re, exposed, stale, fresh, unlisted, wrote, spent>>

RebuildContacts ==
    /\ gc.pc = "contacts"
    /\ LET addr == [m \in Msgs |-> IF m \in Rows THEN Addresses(m, db.rows[m]) ELSE {}] IN
       db' = [db EXCEPT !.addr = addr, !.book = [p \in People |-> Contact(addr, p)]]
    /\ owed' = {} /\ gc' = GcAt("refs")
    /\ UNCHANGED <<provider, store, writers, re, exposed, stale, fresh, unlisted, wrote, spent>>

\* ReferencedBlobs.
ReadReferenced ==
    /\ gc.pc = "refs"
    /\ gc' = [GcAt("walk") EXCEPT !.refs = {db.rows[m].blob : m \in Rows} \ {NoBlob}]
    /\ UNCHANGED <<provider, store, db, writers, re, history, spent>>

\* Mutant of Orphan: the grace is left out.
Orphan_NoGrace(s) == s \notin gc.refs

\* A file nobody refers to, unless it is young and was not just purged.
Orphan(s) == s \notin gc.refs /\ (s \in gc.purged \/ s \notin young)

Walk ==
    /\ gc.pc = "walk"
    /\ gc' = [GcAt("delete") EXCEPT !.orphans = {s \in files : Orphan(s)}]
    /\ UNCHANGED <<provider, store, db, writers, re, history, spent>>

DeleteBlob(s) ==
    /\ gc.pc = "delete" /\ s \in gc.orphans
    /\ gc' = [gc EXCEPT !.orphans = @ \ {s}]
    /\ files' = files \ {s} /\ young' = young \ {s}
    /\ UNCHANGED <<provider, temp, db, writers, re, history, spent>>

\* Anybody's temporary files.
CleanTemp ==
    /\ gc.pc = "delete" /\ gc.orphans = {}
    /\ temp' = {} /\ gc' = GcAt("idle")
    /\ UNCHANGED <<provider, files, young, db, writers, re, history, spent>>

CrashGC ==
    /\ gc.pc # "idle" /\ Spend("crash")
    /\ gc' = GcAt("idle")
    /\ UNCHANGED <<provider, store, db, writers, re, history>>

-----------------------------------------------------------------------------
(* The reindexer.                                                          *)

\* ListMessages: newest first, deleted ones included, a page by offset.
Place(m) == Cardinality({n \in Rows : n > m})
Listing == {m \in Rows : re.offset <= Place(m) /\ Place(m) < re.offset + Page}

NoPage == [m \in {} |-> 0]

\* ReindexWith; --rethread starts with ClearThreading.
BeginReindex ==
    /\ re.pc = "idle"
    /\ \/ /\ Spend("reindex")
          /\ re' = [pc |-> "read", offset |-> 0, page |-> NoPage, more |-> TRUE, rethread |-> "no"]
          /\ UNCHANGED db
       \/ /\ Spend("rethread")
          /\ re' = [pc |-> "read", offset |-> 0, page |-> NoPage, more |-> TRUE, rethread |-> "yes"]
          /\ db' = [db EXCEPT !.reffed = {}, !.threads = [t \in ThreadIds |-> {}],
                              !.rows = [m \in Rows |-> [@[m] EXCEPT !.thread = NoThread]]]
    /\ UNCHANGED <<provider, store, writers, gc, history>>

\* A page of rows, and the bytes of those that have any; a short one is the last.
ReadPage ==
    /\ re.pc = "read"
    /\ re' = [re EXCEPT !.pc = IF Listing = {} THEN "idle" ELSE "write",
                        !.offset = @ + Cardinality(Listing), !.more = Cardinality(Listing) = Page,
                        !.page = [m \in {n \in Listing : Readable(n)} |-> db.rows[m]]]
    /\ UNCHANGED <<provider, store, db, writers, gc, history, spent>>

\* Mutant of Reindexed: DeletedAt is left out.
Reindexed_Undeleted(d, m) ==
    UpsertMessage(d, m, [re.page[m] EXCEPT !.thread = IF re.rethread = "yes" THEN NoThread ELSE @,
                                          !.gone = "no"])

\* The row as it was read, its derived columns made anew.
Reindexed(d, m) ==
    UpsertMessage(d, m, [re.page[m] EXCEPT !.thread = IF re.rethread = "yes" THEN NoThread ELSE @])

\* The row has changed since the page was read, or is gone.
Outdated(d, m) ==
    \/ m \notin DOMAIN d.rows
    \/ Facts(d.rows[m]) # Facts(re.page[m]) \/ d.rows[m].blob # re.page[m].blob
    \/ re.rethread = "no" /\ d.rows[m].thread # re.page[m].thread

\* One row of the page, after those before it.
Rewrite(before, m) ==
    IF m \notin DOMAIN re.page THEN before
    ELSE [db |-> Reindexed(before.db, m),
          stale |-> IF Outdated(before.db, m) THEN before.stale \cup {m} ELSE before.stale]

Rewritten[i \in 0..N] == IF i = 0 THEN [db |-> db, stale |-> stale]
                         ELSE Rewrite(Rewritten[i - 1], N + 1 - i)

WritePage ==
    /\ re.pc = "write"
    /\ LET after == Rewritten[N]
       IN  Store(DOMAIN re.page, after.db) /\ stale' = after.stale
    /\ re' = [re EXCEPT !.pc = IF re.more THEN "read" ELSE "idle", !.page = NoPage]
    /\ UNCHANGED <<provider, store, writers, gc, exposed, wrote, spent>>

CrashReindex ==
    /\ re.pc # "idle" /\ Spend("crash")
    /\ re' = [re EXCEPT !.pc = "idle", !.page = NoPage]
    /\ UNCHANGED <<provider, store, db, writers, gc, history>>

-----------------------------------------------------------------------------
(* The provider and the clock.                                             *)

File(m) ==
    /\ m \in there /\ Spend("file")
    /\ filed' = [filed EXCEPT ![m] = IF @ = "inbox" THEN "sent" ELSE "inbox"]
    /\ UNCHANGED <<there, store, db, writers, gc, re, history>>

Destroy(m) ==
    /\ m \in there /\ Spend("destroy")
    /\ there' = there \ {m}
    /\ UNCHANGED <<filed, store, db, writers, gc, re, history>>

\* An hour passes over a blob.  Its batch has been committed by then, and the
\* collector does not take that long from reading the rows to its cutoff.
Age(s) ==
    /\ s \in young /\ gc.pc # "walk"
    /\ \A w \in Writers : at[w] = "row" => Sha[job[w]] # s
    /\ young' = young \ {s}
    /\ UNCHANGED <<provider, files, temp, db, writers, gc, re, history, spent>>

Init ==
    /\ there = Msgs /\ filed = [m \in Msgs |-> "inbox"]
    /\ files \in {{}, Orphans} /\ young = {} /\ temp = {}
    /\ db = Empty
    /\ at = [w \in Writers |-> "idle"] /\ job = [w \in Writers |-> N]
    /\ seen = [w \in Writers |-> "inbox"]
    /\ gc = [pc |-> "idle", purged |-> {}, refs |-> {}, ids |-> {}, orphans |-> {}]
    /\ re = [pc |-> "idle", offset |-> 0, page |-> NoPage, more |-> TRUE, rethread |-> "no"]
    /\ exposed = {} /\ stale = {} /\ fresh = {} /\ unlisted = {} /\ owed = {}
    /\ wrote = [m \in Msgs |-> <<"inbox", "no">>]
    /\ spent = [e \in Events |-> 0]

Collect == \/ BeginGC \/ ListDoomed \/ PurgeRows \/ ListThreadIds \/ RebuildThreads \/ RebuildContacts
           \/ ReadReferenced \/ Walk \/ CleanTemp \/ CrashGC

Next ==
    \/ \E m \in Msgs : BeginFetch(m) \/ WriteStub(m) \/ EnsureRaw(m) \/ ApplyDelta(m)
    \/ \E w \in Writers : PutLink(w) \/ WriteRow(w) \/ CrashWriter(w)
    \/ Collect
    \/ \E s \in Shas : DeleteBlob(s) \/ Age(s)
    \/ BeginReindex \/ ReadPage \/ WritePage \/ CrashReindex
    \/ \E m \in Msgs : File(m) \/ Destroy(m)

Spec == Init /\ [][Next]_vars

-----------------------------------------------------------------------------
(* Properties.                                                             *)

RowType == [blob : Shas \cup {NoBlob}, raw : {"full", "stub"}, box : {"inbox", "sent"},
            gone : {"no", "yes"}, thread : ThreadIds \cup {NoThread}]

\* The variables have their types.
TypeOK ==
    /\ there \subseteq Msgs /\ filed \in [Msgs -> {"inbox", "sent"}]
    /\ young \subseteq files /\ files \subseteq Shas /\ temp \subseteq Writers
    /\ Rows \subseteq Msgs /\ db.rows \in [Rows -> RowType]
    /\ db.reffed \subseteq Rows /\ db.threads \in [ThreadIds -> SUBSET Msgs]
    /\ at \in [Writers -> {"idle", "link", "row"}] /\ job \in [Writers -> Msgs]
    /\ gc.purged \cup gc.refs \cup gc.orphans \subseteq Shas /\ gc.ids \subseteq ThreadIds
    /\ exposed \subseteq Shas /\ stale \subseteq Msgs
    /\ fresh \cup unlisted \subseteq ThreadIds
    /\ owed \subseteq People /\ spent \in [Events -> Nat]

\* The variables have their types; and, as orphanGrace says, a blob "may simply
\* belong to a batch that has not committed yet", and no collection takes the
\* bytes of a row.  It may take bytes that a Put found on file, and left alone,
\* when no live row had them, and those a purge takes with their last row, or
\* still has on its list, while a writer counts on them; and a row that a reindex
\* puts back comes without its own.
Intact ==
    /\ TypeOK
    /\ \A m \in Rows : Full(db.rows[m]) /\ db.rows[m].blob \notin files =>
        m \in stale \/ db.rows[m].blob \in exposed

\* Reindex: "Provider-side facts (flags, mailbox membership, received time,
\* deletion) are preserved": a row says what the last pass or reader wrote,
\* unless it changed between a reindex's reading and writing of it.
FactsStand == \A m \in Rows \ stale : Facts(db.rows[m]) = wrote[m]

\* resolveThreadID: messages that share a reference are in one thread, in
\* whatever order they came; and nothing else is, whatever was merged.
Related(m, n) == Refs[m] \cap Refs[n] # {}
Closed == {S \in SUBSET Msgs : \A m \in S, n \in Msgs : Related(m, n) => n \in S}
Connected == {e \in Msgs \X Msgs : \A S \in Closed : e[1] \in S => e[2] \in S}
Threaded ==
    \A m, n \in db.reffed :
        LET t == db.rows[m].thread
            u == db.rows[n].thread
        IN  /\ Related(m, n) /\ {m, n} \cap stale = {} => t = u
            /\ t = u => <<m, n>> \in Connected

\* Summaries and contacts are what their messages make them, after every
\* transaction: but for a thread that began while a purge was listing them, and
\* the people on purged messages until the purge gets to them.
SummariesTrue ==
    /\ \A t \in ThreadIds \ unlisted : db.threads[t] = Members(db.rows, t)
    /\ \A p \in People \ owed : db.book[p] = Contact(db.addr, p)
    /\ \A m \in Msgs : {a[1] : a \in db.addr[m]} = IF m \in Rows THEN To[m] ELSE {}

\* What is derived from rows is what the rows make it: the conversations and
\* what is kept of each, who is on a message, and of a person the messages that
\* name them.  Whether one of these was sent by the user is as noted with the
\* address, which is not compared with the folder the row is in by now.
DerivedTrue == Threaded /\ SummariesTrue
=============================================================================
