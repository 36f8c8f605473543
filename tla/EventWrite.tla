------------------------------ MODULE EventWrite ------------------------------
(***************************************************************************)
(* Writing to a calendar: events created, changed, deleted and answered    *)
(* from the index, and invitations answered by mail and filed afterwards   *)
(* (internal/sync/outbox.go, rsvp.go, internal/provider/{caldav,gcal,jmap},*)
(* internal/itip).                                                         *)
(*                                                                         *)
(* One calendar of one account.  Unlike a message (LocalWrite) an event    *)
(* has no fence: its patch, the pass that reads the server, the answer of  *)
(* the server and the rollback write the same row in any order.  What the  *)
(* server does with a write depends on its kind: CalDAV compares versions, *)
(* Google patches whatever it is sent, JMAP is sent the difference to what *)
(* the index last saw.  Leases and attempts are the business of Outbox.    *)
(***************************************************************************)
EXTENDS Integers, Sequences, FiniteSets

CONSTANTS
    Backends,   \* kinds of calendar server
    Importers,  \* those that are a provider.EventImporter
    Stories,    \* what the account starts with, a subset of StoryNames
    Titles,     \* what a user can call an event
    MaxObjects, \* bound: events the server ever holds
    MaxWrites,  \* bound: rows of the outbox
    MaxEdits,   \* bound: changes by other clients of the calendar
    MaxLosses,  \* bound: calls that fail on the way
    MaxCrashes, \* bound: processes that die
    MaxFaults   \* bound: all three together

StoryNames == {"own",      \* an event of the account's own
               "invited",  \* a mail with an invitation, and no event
               "filed"}    \* one the calendar server has filed by itself

ASSUME EventAssumption ==
    /\ Backends \subseteq {"caldav", "google", "jmap"} /\ Importers \subseteq Backends
    /\ Stories \subseteq StoryNames
    /\ MaxObjects \in Nat \ {0} /\ MaxWrites \in Nat
    /\ MaxEdits \in Nat /\ MaxLosses \in Nat /\ MaxCrashes \in Nat
    /\ MaxFaults \in Nat

Ids == 1 .. MaxObjects
Ops == 1 .. MaxWrites
Placeholders == {-i : i \in Ops}          \* "pending:<nanoseconds>"
Keys == Ids \cup Placeholders
Given == "given"                          \* the title others chose
AllTitles == Titles \cup {Given}
Replies == {"no", "declined", "accepted"} \* model.Participation
UIDs == {"own", "inv"}                    \* minted here, or the invitation's

NoRaw == 0                                \* raw_json is '{}': no version known
NoRow == [st |-> "none", uid |-> "own", title |-> Given, resp |-> "no",
          raw |-> NoRaw, base |-> Given]
NoObject == [st |-> "none", uid |-> "own", title |-> Given, resp |-> "no", ver |-> 0]
NoOp == [kind |-> "none", key |-> 0, row |-> NoRow]
NoSnap == [objects |-> [k \in Ids |-> NoObject], clock |-> 0]
NoUndo == [key |-> 0, was |-> NoRow, put |-> NoRow]

VARIABLES
    backend, mailed, \* the server, and whether an invitation is in the mail
    objects, clock,  \* what the server holds, and its state token
    index, shown,    \* events, and the keys that have event_occurrences
    token,           \* sync_state of the calendar
    recorded,        \* itip_response of the invitation's message
    row, op,         \* the outbox: status and payload
    at, by, out, got, seen, \* each push: where it is, whose it is, how the
                     \* call ended, the id it returned, the version it read
    undo,            \* rollback of each push, while its asker lives
    filing,          \* RespondByMail, after its reply: what is left to file
    pc, snap,        \* the pass and what it has read
    spoiled,         \* a step has left the index with what nothing will heal
    told, given, lost, made, spent
server == <<backend, mailed, objects, clock>>
database == <<index, shown, token, recorded>>
outbox == <<row, op>>
pushes == <<at, by, out, got, seen, undo>>
pass == <<pc, snap>>
history == <<spoiled, told, given, lost, made, spent>>
vars == <<server, database, outbox, pushes, filing, pass, history>>

Spend(what, most) ==
    /\ spent[what] < most /\ spent.edits + spent.losses + spent.crashes < MaxFaults
    /\ spent' = [spent EXCEPT ![what] = @ + 1]

Live(r) == r.st = "live"
Indexed(o) == [st |-> o.st, uid |-> o.uid, title |-> o.title, resp |-> o.resp,
               raw |-> o.ver, base |-> o.title]
First(u) == [st |-> "live", uid |-> u, title |-> Given, resp |-> "no", ver |-> 1]

Init ==
    /\ backend \in Backends
    /\ \E story \in Stories :
        /\ mailed = (story \in {"invited", "filed"})
        /\ objects = [i \in Ids |-> IF i = 1 /\ story \in {"own", "filed"}
                         THEN First(IF story = "own" THEN "own" ELSE "inv") ELSE NoObject]
    /\ clock = 1 /\ token = 1
    /\ index = [k \in Keys |-> IF k \in Ids /\ Live(objects[IF k > 0 THEN k ELSE 1])
                               THEN Indexed(objects[k]) ELSE NoRow]
    /\ shown = {k \in Ids : Live(index[k])}
    /\ recorded = "no"
    /\ row = [i \in Ops |-> "none"] /\ op = [i \in Ops |-> NoOp]
    /\ at = [i \in Ops |-> "no"] /\ by = [i \in Ops |-> "asker"]
    /\ out = [i \in Ops |-> "ok"] /\ got = [i \in Ops |-> 0] /\ seen = [i \in Ops |-> NoObject]
    /\ undo = [i \in Ops |-> NoUndo] /\ filing = "no"
    /\ pc = "idle" /\ snap = NoSnap
    /\ spoiled = FALSE /\ told = 0 /\ given = 0 /\ lost = 0
    /\ made = [i \in Ops |-> 0] /\ spent = [edits |-> 0, losses |-> 0, crashes |-> 0]

-----------------------------------------------------------------------------
(* Asking: the row of the outbox and the patch, in one transaction.  The   *)
(* payload is written before the patch gives a new event its placeholder.  *)

Next1 == {i \in Ops : row[i] = "none" /\ \A j \in 1 .. i-1 : row[j] # "none"}

\* patchEvent: no patch draws occurrences, and a deletion clears them.
PatchEvent(i, o) ==
    LET put == IF o.kind = "delete" THEN [index[o.key] EXCEPT !.st = "deleted"] ELSE o.row
    IN  /\ index' = [index EXCEPT ![o.key] = put]
        /\ shown' = IF o.kind = "delete" THEN shown \ {o.key} ELSE shown
        /\ undo' = [undo EXCEPT ![i] = [key |-> o.key, was |-> index[o.key], put |-> put]]

Enqueue(i, o) ==
    /\ row' = [row EXCEPT ![i] = "pending"] /\ op' = [op EXCEPT ![i] = o]
    /\ at' = [at EXCEPT ![i] = "call"] /\ by' = [by EXCEPT ![i] = "asker"]
    /\ UNCHANGED <<server, token, pass, out, got, seen, spoiled, told, lost, made, spent>>

Fresh(u, t, r) == [st |-> "live", uid |-> u, title |-> t, resp |-> r,
                   raw |-> NoRaw, base |-> Given]

CreateEvent(t) ==
    \E i \in Next1 : LET o == [kind |-> "create", key |-> -i, row |-> Fresh("own", t, "no")] IN
        PatchEvent(i, o) /\ Enqueue(i, o) /\ UNCHANGED <<recorded, filing, given>>

UpdateEvent(k, t) ==
    \E i \in Next1 : LET o == [kind |-> "update", key |-> k, row |-> [index[k] EXCEPT !.title = t]] IN
        /\ Live(index[k])
        /\ PatchEvent(i, o) /\ Enqueue(i, o) /\ UNCHANGED <<recorded, filing, given>>

DeleteEvent(k) ==
    \E i \in Next1 : LET o == [kind |-> "delete", key |-> k, row |-> index[k]] IN
        /\ Live(index[k])
        /\ PatchEvent(i, o) /\ Enqueue(i, o) /\ UNCHANGED <<recorded, filing, given>>

\* The road of an invitation some calendar holds: the calendar server tells.
RespondEvent(k, r) ==
    \E i \in Next1 : LET o == [kind |-> "respond", key |-> k, row |-> [index[k] EXCEPT !.resp = r]] IN
        /\ Live(index[k]) /\ index[k].uid = "inv"
        /\ PatchEvent(i, o) /\ Enqueue(i, o)
        /\ given' = given + 1 /\ UNCHANGED <<recorded, filing>>

\* FindEventsByUID: what is filed is any live row with the invitation's UID.
FindEventsByUID == {k \in Keys : Live(index[k]) /\ index[k].uid = "inv"}

\* The road of one that none holds: a reply by mail, pushed once.
RespondByMail(r) ==
    \E i \in Next1 :
        /\ mailed /\ filing = "no" /\ FindEventsByUID = {}
        /\ ~ \E j \in Ops : op[j].kind = "reply" /\ at[j] # "no"
        /\ Enqueue(i, [kind |-> "reply", key |-> 0, row |-> Fresh("inv", Given, r)])
        /\ given' = given + 1
        /\ UNCHANGED <<index, shown, undo, recorded, filing>>

-----------------------------------------------------------------------------
(* The call.  A call that reads first does so in a step of its own.        *)

Reads(o) == \/ o.kind = "respond"
            \/ o.kind = "update" /\ o.row.raw = NoRaw /\ backend # "google"

Read(i) ==
    LET o == op[i] IN
    /\ at[i] = "call"
    /\ IF ~Reads(o)
       THEN /\ seen' = [seen EXCEPT ![i] = [NoObject EXCEPT !.ver = o.row.raw, !.title = o.row.base]]
            /\ at' = [at EXCEPT ![i] = "write"] /\ out' = out
       ELSE IF o.key \in Ids /\ Live(objects[o.key])
       THEN /\ seen' = [seen EXCEPT ![i] = objects[o.key]]
            /\ at' = [at EXCEPT ![i] = "write"] /\ out' = out
       ELSE /\ out' = [out EXCEPT ![i] = "refused"]
            /\ at' = [at EXCEPT ![i] = "answered"] /\ seen' = seen
    /\ UNCHANGED <<server, database, outbox, by, got, undo, filing, pass, history>>

Said(what, objs, id) == [said |-> what, objects |-> objs, id |-> id]
Refused == Said("refused", objects, 0)
Room == {k \in Ids : objects[k].st = "none"}
Changed(k, o) == [objects EXCEPT ![k] = [o EXCEPT !.ver = clock + 1]]

\* Every create is a new event: the server, or the client, mints its UID.
Created(o) ==
    LET k == CHOOSE k \in Room : \A j \in Room : k <= j IN
    Said("ok", Changed(k, [st |-> "live", uid |-> o.row.uid, title |-> o.row.title,
                           resp |-> o.row.resp, ver |-> 0]), k)

\* Mutant of Imported: a backend without a silent import creates the event instead.
Imported_Insert(o) == Created(o)

\* An import is keyed by the UID: on CalDAV its href is taken and the event
\* there is read back, Google takes it for the event it has.
Filed == {k \in Ids : Live(objects[k]) /\ objects[k].uid = "inv"}

CalDAVImport(o) ==
    IF Filed = {} THEN Created(o) ELSE Said("ok", objects, CHOOSE k \in Filed : TRUE)

GoogleImport(o) ==
    IF Filed = {} THEN Created(o)
    ELSE LET k == CHOOSE k \in Filed : TRUE IN
         Said("ok", Changed(k, [objects[k] EXCEPT !.title = o.row.title, !.resp = o.row.resp]), k)

Imported(o) ==
    IF backend \notin Importers THEN Refused
    ELSE IF backend = "caldav" THEN CalDAVImport(o) ELSE GoogleImport(o)

\* If-Match the version the index has, or else the one just read.
CalDAVUpdate(o, base) ==
    IF objects[o.key].ver # base.ver THEN Refused
    ELSE Said("ok", Changed(o.key, [objects[o.key] EXCEPT !.title = o.row.title,
                                                          !.resp = o.row.resp]), o.key)

\* Whatever is set, the attendees as the index has them included.
GoogleUpdate(o) ==
    Said("ok", Changed(o.key, [objects[o.key] EXCEPT !.title = o.row.title,
                                                     !.resp = o.row.resp]), o.key)

\* What differs from the base, and when nothing does, nothing.
JMAPUpdate(o, base) ==
    IF o.row.title = base.title THEN Said("ok", objects, o.key)
    ELSE Said("ok", Changed(o.key, [objects[o.key] EXCEPT !.title = o.row.title]), o.key)

Updated(o, base) ==
    IF o.key \notin Ids THEN Refused
    ELSE IF ~Live(objects[o.key]) THEN Refused
    ELSE CASE backend = "caldav" -> CalDAVUpdate(o, base)
           [] backend = "google" -> GoogleUpdate(o)
           [] OTHER -> JMAPUpdate(o, base)

CalDAVRespond(o, base) ==
    IF objects[o.key].ver # base.ver THEN Refused
    ELSE Said("ok", Changed(o.key, [objects[o.key] EXCEPT !.resp = o.row.resp]), o.key)

GoogleRespond(o) ==
    Said("ok", Changed(o.key, [objects[o.key] EXCEPT !.resp = o.row.resp]), o.key)

\* One path of one participant.
JMAPRespond(o) ==
    Said("ok", Changed(o.key, [objects[o.key] EXCEPT !.resp = o.row.resp]), o.key)

Responded(o, base) ==
    IF ~Live(objects[o.key]) THEN Refused
    ELSE CASE backend = "caldav" -> CalDAVRespond(o, base)
           [] backend = "google" -> GoogleRespond(o)
           [] OTHER -> JMAPRespond(o)

\* Gone already is gone, also for an id the server never gave out.
Deleted(o) ==
    Said("ok", IF o.key \in Ids /\ Live(objects[o.key])
               THEN Changed(o.key, [objects[o.key] EXCEPT !.st = "gone"]) ELSE objects, 0)

Executed(i) ==
    LET o == op[i] IN
    CASE o.kind = "create" /\ o.row.uid = "own" -> Created(o)
      [] o.kind = "create" /\ o.row.uid = "inv" -> Imported(o)
      [] o.kind = "update" -> Updated(o, seen[i])
      [] o.kind = "respond" -> Responded(o, seen[i])
      [] o.kind = "delete" -> Deleted(o)
      [] OTHER -> Said("ok", objects, 0)

\* Only a send that may have left is not tried again (retryable).
Lossy(o) == IF o.kind = "reply" THEN "refused" ELSE "offline"

\* The server answers, and the answer arrives or is lost.
ExecuteEvent(i, arrives) ==
    LET e == Executed(i)
        new == {k \in Ids : objects[k].st = "none" /\ Live(e.objects[k])} IN
    /\ at[i] = "write"
    /\ op[i].kind = "create" => Room # {}
    /\ IF arrives THEN spent' = spent ELSE Spend("losses", MaxLosses)
    /\ objects' = e.objects
    /\ clock' = IF e.objects = objects THEN clock ELSE clock + 1
    /\ at' = [at EXCEPT ![i] = "answered"]
    /\ out' = [out EXCEPT ![i] = IF arrives THEN e.said ELSE Lossy(op[i])]
    /\ got' = [got EXCEPT ![i] = e.id]
    /\ lost' = IF ~arrives /\ op[i].kind # "reply" THEN lost + 1 ELSE lost
    /\ made' = [made EXCEPT ![i] = @ + Cardinality(new)]
    /\ told' = IF e.said = "ok" /\ op[i].kind \in {"reply", "respond"} THEN told + 1 ELSE told
    /\ UNCHANGED <<backend, mailed, database, outbox, by, seen, undo, filing, pass,
                   spoiled, given>>

\* The provider cannot be reached: anything may be tried again, even a send.
NotConnected(i) ==
    /\ at[i] \in {"call", "write"}
    /\ Spend("losses", MaxLosses)
    /\ at' = [at EXCEPT ![i] = "answered"] /\ out' = [out EXCEPT ![i] = "offline"]
    /\ UNCHANGED <<server, database, outbox, by, got, seen, undo, filing, pass,
                   spoiled, told, given, lost, made>>

-----------------------------------------------------------------------------
(* What the push does with the answer.                                     *)

Same(r, o) == /\ Live(r) <=> Live(o)
              /\ Live(r) => r.title = o.title /\ r.resp = o.resp

\* A row put in the index that no later pass will put right.
Spoils(k, r) == IF k \in Ids THEN objects[k].ver <= token /\ ~Same(r, objects[k])
                ELSE Live(r) /\ row[-k] # "pending"

\* The goroutine is done with the row and forgets what it knew of it.
Ends(i) ==
    /\ at' = [at EXCEPT ![i] = "no"] /\ undo' = [undo EXCEPT ![i] = NoUndo]
    /\ out' = [out EXCEPT ![i] = "ok"] /\ got' = [got EXCEPT ![i] = 0]
    /\ seen' = [seen EXCEPT ![i] = NoObject]

Rollback(i) ==
    LET u == undo[i] IN
    IF u.key = 0 THEN UNCHANGED <<index, shown, spoiled>>
    ELSE /\ index' = [index EXCEPT ![u.key] = u.was]
         /\ shown' = IF Live(u.was) THEN shown \cup {u.key} ELSE shown \ {u.key}
         /\ spoiled' = (spoiled \/ Spoils(u.key, u.was))

Retire(i) ==
    /\ at[i] = "answered" /\ out[i] = "ok"
    /\ row' = [row EXCEPT ![i] = "done"] /\ at' = [at EXCEPT ![i] = "after"]
    /\ UNCHANGED <<server, database, op, by, out, got, seen, undo, filing, pass, history>>

\* Mutant of Queue: only a reply that has gone out is followed by filing the event.
Queue_Waits(i) ==
    /\ at[i] = "answered" /\ out[i] = "offline" /\ Ends(i)
    /\ recorded' = IF op[i].kind = "reply" /\ by[i] = "asker" THEN op[i].row.resp ELSE recorded
    /\ UNCHANGED <<server, index, shown, token, outbox, by, filing, pass, history>>

Queue(i) ==
    /\ at[i] = "answered" /\ out[i] = "offline"
    /\ Ends(i)
    /\ recorded' = IF op[i].kind = "reply" /\ by[i] = "asker" THEN op[i].row.resp ELSE recorded
    /\ filing' = IF op[i].kind = "reply" /\ by[i] = "asker" THEN op[i].row.resp ELSE filing
    /\ UNCHANGED <<server, index, shown, token, outbox, by, pass, history>>

\* The asker takes its patch back; a retry has nothing to take back with.
FailPermanently(i) ==
    /\ at[i] = "answered" /\ out[i] = "refused"
    /\ IF by[i] = "asker" THEN Rollback(i)
       ELSE /\ spoiled' = (spoiled \/ op[i].kind # "reply") /\ UNCHANGED <<index, shown>>
    /\ row' = [row EXCEPT ![i] = "failed"] /\ Ends(i)
    /\ UNCHANGED <<server, token, recorded, op, by, filing, pass,
                   told, given, lost, made, spent>>

\* Mutant of AfterCreate: the placeholder is left beside the event it stood for.
AfterCreate_Beside(i) ==
    /\ index' = [index EXCEPT ![got[i]] = op[i].row]
    /\ shown' = shown \cup {got[i]}
    /\ spoiled' = (spoiled \/ Spoils(got[i], op[i].row) \/ by[i] # "asker")

\* afterExecute: the event that was created takes its placeholder's place, but
\* a retry does not know which placeholder that was; the occurrences are drawn.
AfterCreate(i) ==
    LET k == got[i] IN
    /\ index' = [j \in Keys |-> IF j = k THEN op[i].row
                  ELSE IF j = op[i].key /\ by[i] = "asker" /\ index[j].st # "none"
                       THEN [index[j] EXCEPT !.st = "deleted"] ELSE index[j]]
    /\ shown' = (shown \cup {k}) \ (IF by[i] = "asker" THEN {op[i].key} ELSE {})
    /\ spoiled' = (spoiled \/ Spoils(k, op[i].row) \/ by[i] # "asker")

AfterExecute(i) ==
    LET o == op[i] IN
    /\ at[i] = "after"
    /\ CASE o.kind = "create" -> AfterCreate(i) /\ UNCHANGED <<recorded, filing>>
         [] o.kind \in {"update", "respond"} ->
                /\ shown' = IF Live(index[o.key]) THEN shown \cup {o.key} ELSE shown
                /\ UNCHANGED <<index, recorded, spoiled, filing>>
         [] o.kind = "reply" /\ by[i] = "asker" ->
                /\ recorded' = o.row.resp /\ filing' = o.row.resp
                /\ UNCHANGED <<index, shown, spoiled>>
         [] OTHER -> UNCHANGED <<index, shown, recorded, spoiled, filing>>
    /\ Ends(i)
    /\ UNCHANGED <<server, token, outbox, by, pass, told, given, lost, made, spent>>

\* The second half of RespondByMail.  Declining files nothing.
FileInvitedEvent ==
    \/ /\ filing = "declined" /\ filing' = "no"
       /\ UNCHANGED <<server, database, outbox, pushes, pass, history>>
    \/ /\ filing = "accepted"
       /\ \E i \in Next1 : LET o == [kind |-> "create", key |-> -i, row |-> Fresh("inv", Given, filing)] IN
            PatchEvent(i, o) /\ Enqueue(i, o) /\ filing' = "no" /\ UNCHANGED <<recorded, given>>

RetryOutbox(i) ==
    /\ row[i] = "pending" /\ at[i] = "no"
    /\ at' = [at EXCEPT ![i] = "call"] /\ by' = [by EXCEPT ![i] = "daemon"]
    /\ UNCHANGED <<server, database, outbox, out, got, seen, undo, filing, pass, history>>

\* Every process dies.  An answer nobody has written down is lost, and so is
\* what only its asker knew: which placeholder, and that an event is to be filed.
Crash ==
    LET unheard == {i \in Ops : at[i] = "answered" /\ (out[i] = "ok" \/ op[i].kind = "reply")}
        undone == {i \in Ops : at[i] = "after" /\ op[i].kind = "create"} IN
    /\ Spend("crashes", MaxCrashes)
    /\ \E i \in Ops : at[i] # "no" \/ filing # "no"
    /\ at' = [i \in Ops |-> "no"] /\ undo' = [i \in Ops |-> NoUndo] /\ filing' = "no"
    /\ out' = [i \in Ops |-> "ok"] /\ got' = [i \in Ops |-> 0] /\ seen' = [i \in Ops |-> NoObject]
    /\ lost' = lost + Cardinality(unheard)
    /\ spoiled' = (spoiled \/ undone # {})
    /\ pc' = "idle" /\ snap' = NoSnap
    /\ UNCHANGED <<server, database, outbox, by, told, given, made>>

-----------------------------------------------------------------------------
(* The pass, and the other clients of the calendar.                        *)

Fetch ==
    /\ pc = "idle" /\ token < clock
    /\ pc' = "store" /\ snap' = [objects |-> objects, clock |-> clock]
    /\ UNCHANGED <<server, database, outbox, pushes, filing, history>>

\* What changed since the token is written whatever the index has become.
StoreEvents ==
    LET new == {k \in Ids : snap.objects[k].ver > token} IN
    /\ pc = "store"
    /\ index' = [k \in Keys |->
         IF k \notin new THEN index[k]
         ELSE IF Live(snap.objects[k]) THEN Indexed(snap.objects[k])
         ELSE IF index[k].st = "none" THEN NoRow ELSE [index[k] EXCEPT !.st = "deleted"]]
    /\ shown' = (shown \ new) \cup {k \in new : Live(snap.objects[k])}
    /\ token' = snap.clock /\ pc' = "idle" /\ snap' = NoSnap
    /\ UNCHANGED <<server, recorded, outbox, pushes, filing, history>>

Elsewhere(k, o) ==
    /\ Spend("edits", MaxEdits)
    /\ objects' = Changed(k, o) /\ clock' = clock + 1
    /\ UNCHANGED <<backend, mailed, database, outbox, pushes, filing, pass,
                   spoiled, told, given, lost, made>>

EditElsewhere == \E k \in Ids, t \in Titles :
    Live(objects[k]) /\ objects[k].title # t /\ Elsewhere(k, [objects[k] EXCEPT !.title = t])
RespondElsewhere == \E k \in Ids :
    Live(objects[k]) /\ objects[k].uid = "inv"
    /\ Elsewhere(k, [objects[k] EXCEPT !.resp = "accepted"])
DeleteElsewhere == \E k \in Ids :
    Live(objects[k]) /\ Elsewhere(k, [objects[k] EXCEPT !.st = "gone"])
\* The calendar server files the invitation, later than the mail arrived.
FileElsewhere == \E k \in Room :
    /\ mailed /\ \A j \in Ids : objects[j].uid # "inv"
    /\ Elsewhere(k, First("inv"))

Asks ==
    \/ \E t \in Titles : CreateEvent(t)
    \/ \E k \in Keys, t \in Titles : UpdateEvent(k, t)
    \/ \E k \in Keys : DeleteEvent(k)
    \/ \E k \in Keys, r \in {"declined", "accepted"} : RespondEvent(k, r)
    \/ \E r \in {"declined", "accepted"} : RespondByMail(r)

Pushes == \E i \in Ops :
    \/ Read(i) \/ ExecuteEvent(i, TRUE) \/ ExecuteEvent(i, FALSE) \/ NotConnected(i)
    \/ Retire(i) \/ Queue(i) \/ FailPermanently(i) \/ AfterExecute(i) \/ RetryOutbox(i)

Next ==
    \/ Asks \/ Pushes \/ FileInvitedEvent \/ Fetch \/ StoreEvents \/ Crash
    \/ EditElsewhere \/ RespondElsewhere \/ DeleteElsewhere \/ FileElsewhere

Spec == Init /\ [][Next]_vars

-----------------------------------------------------------------------------
(* Properties.                                                             *)

TypeOK ==
    /\ backend \in Backends
    /\ \A k \in Ids : objects[k].st \in {"none", "live", "gone"} /\ objects[k].ver <= clock
    /\ \A k \in Keys : index[k].st \in {"none", "live", "deleted"} /\ index[k].resp \in Replies
    /\ shown \subseteq Keys /\ token <= clock /\ filing \in Replies
    /\ \A i \in Ops : /\ row[i] \in {"none", "pending", "done", "failed"}
                       /\ at[i] \in {"no", "call", "write", "answered", "after"}
                       /\ at[i] \notin {"no", "after"} => row[i] = "pending"

Settled == /\ \A i \in Ops : at[i] = "no" /\ row[i] # "pending"
           /\ pc = "idle" /\ token = clock

\* Once every write has settled and a pass has read what they did, the agenda
\* shows what the calendar holds, with the titles and answers it has there, and
\* no placeholder is left: through patches, answers, passes and rollbacks in any
\* order.  Excused is what nothing puts right: a rollback or a late afterExecute
\* over what a pass had already brought, and a retry, which knows neither what
\* its write overwrote nor which placeholder it stands for
\* (outbox.go patchEvent, rollback, afterExecute, RetryOutbox).
Agreed ==
    /\ TypeOK
    /\ Settled /\ ~spoiled =>
        /\ \A k \in Ids : Same(index[k], objects[k]) /\ (k \in shown <=> Live(objects[k]))
        /\ \A k \in Placeholders : ~Live(index[k]) /\ k \notin shown

\* A write that creates an event creates one, and one more for each answer that
\* was lost; filing an invitation never makes a second event of it, however often
\* it is tried and whoever else files it (executeEvent, ImportEvent).
CreatedOnce ==
    /\ \A i \in Ops : made[i] <= 1 + lost
    /\ Cardinality({k \in Ids : Live(objects[k]) /\ objects[k].uid = "inv"}) <= 1

\* The organizer hears each answer once, by mail or from the calendar server and
\* never by both, unless the answer of the server itself was lost: a reply that
\* may have left is not sent again (rsvp.go RespondByMail, outbox.go retryable).
ToldOnce == told <= given + lost

\* An invitation accepted by mail is on the calendar in the end, offline or not,
\* where the server can file it silently and nobody dies between the reply and
\* the filing or takes the event off again (fileInvitedEvent).
AcceptedIsFiled ==
    /\ Settled /\ filing = "no" /\ recorded = "accepted" /\ backend \in Importers
    /\ spent.crashes = 0 /\ spent.edits = 0
    /\ \A i \in Ops : op[i].kind # "delete"
    => \E k \in Ids : Live(objects[k]) /\ objects[k].uid = "inv"

\* Whatever is retried, replayed or done on two roads happens once.
OnceEach == CreatedOnce /\ ToldOnce
=============================================================================
