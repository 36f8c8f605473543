---------------------------------- MODULE Ui ----------------------------------
(***************************************************************************)
(* The terminal interface's mail screens and what they write (internal/tui:*)
(* root.go, maillist.go, thread.go, reader.go, actions.go, data.go).       *)
(*                                                                         *)
(* One event loop.  A screen asks for a load, which is queried and comes   *)
(* back later, and is told from older ones by a number; a key that files a *)
(* message away takes its row off at once, and what became of the write    *)
(* comes back twice: once when the index has been patched, and again when  *)
(* a provider that was asked behind the user's back has refused.  Between  *)
(* those the user opens and closes screens, and the daemon commits.        *)
(*                                                                         *)
(* The mail stack is the list, a conversation over it and a message over   *)
(* that.  One account with an inbox, an archive and a trash, whose list    *)
(* fits one page.  Flags, drafts and the other screens are left out.       *)
(***************************************************************************)
EXTENDS Integers, Sequences, FiniteSets, SequencesExt, FiniteSetsExt

CONSTANTS
    Conversations, \* Conversations[t]: the messages of thread t, newest first
    Views,         \* mailboxes the list can show, in the order it cycles them
    Homes,         \* where the messages are at the start
    Budgets        \* bound: how often each of Kinds may happen, one or the other
                   \* of these
Threads == 1 .. Len(Conversations)
Messages == UNION {Range(Conversations[t]) : t \in Threads}
Mailboxes == {"inbox", "archive", "trash"}

Kinds == {"triage",   \* keys that file something away
          "undo",     \* undo keys
          "opens",    \* conversations opened
          "reads",    \* messages opened
          "views",    \* changes of the list's mailbox
          "ticks",    \* looks at what was committed
          "moves",    \* messages other clients move
          "failures"} \* writes refused, at once or later

ASSUME UiAssumption ==
    /\ Messages \subseteq Nat /\ Homes \in [Messages -> SUBSET Mailboxes]
    /\ Range(Views) \subseteq {"inbox", "archive", "trash", "all"}
    /\ Budgets \subseteq [Kinds -> 0..2]

ThreadOf(m) == CHOOSE t \in Threads : m \in Range(Conversations[t])

NoUndo == [n |-> 0, ops |-> <<>>, drop |-> 0, key |-> 0]
NoMessage == [m |-> 0, in |-> {}]
NoThread == [id |-> 0, of |-> 0, msgs |-> <<>>, cursor |-> 1, placed |-> FALSE,
             gone |-> {}, removed |-> <<>>, from |-> [m \in Messages |-> {}]]
NoReader == [id |-> 0, remote |-> 0, msg |-> NoMessage, seq |-> 0]
NoClaim == [n |-> 0, was |-> {}, undone |-> FALSE]
TheList == -1                       \* names the list where a view is named

VARIABLES
    boxes,    \* the index: the mailboxes of each message
    deferred, \* whether the provider is asked behind the user's back
    ui,       \* the screens: list, thread, reader, expanded; seqs, which
              \* numbers the loads of every conversation opened; and loads
    undo,     \* root.undo: what z would take back
    todo,     \* commands under way that will write
    pushes,   \* writes waiting for the provider, oldest first
    replies,  \* "applied" messages on their way to the loop
    settled,  \* the channel of writes that did not go through
    changed,  \* dbWatcher: committed to since the last look
    away, claim, crossed, \* history: see the properties
    left      \* of the budget
vars == <<boxes, deferred, ui, undo, todo, pushes, replies, settled, changed,
          away, claim, crossed, left>>
writes == <<todo, pushes, replies, settled>>

Spend(what) == left[what] > 0 /\ left' = [left EXCEPT ![what] = @ - 1]

-----------------------------------------------------------------------------
(* Loads.                                                                  *)

\* ListThreads: a conversation is in a mailbox when one of its messages is.
Rows(view) ==
    SelectSeq([t \in Threads |-> t],
        LAMBDA t : \E m \in Range(Conversations[t]) : view = "all" \/ view \in boxes[m])

\* GetThread: all of its messages, wherever they are, as the index has them.
Loaded(t) == [i \in 1..Len(Conversations[t]) |->
    [m |-> Conversations[t][i], in |-> boxes[Conversations[t][i]]]]

\* Nothing is on its way: a load that starts now sees what every write did.
Still == todo = {} /\ replies = {} /\ settled = <<>>

\* The query is made at once, its answer takes its time.  An older load of the
\* same screen can no longer be taken, and is forgotten.
Ask(u, on, id, seq, rows, sure) ==
    [u EXCEPT !.loads = {l \in @ : l.on # on \/ l.id # id} \cup
        {[on |-> on, id |-> id, seq |-> seq, rows |-> rows, sure |-> sure]}]

ReloadList(u, reset) ==
    Ask([u EXCEPT !.list.seq = @ + 1, !.list.reset = reset],
        "list", TheList, u.list.seq + 1, Rows(u.list.view), Still')

\* A conversation that is no longer on the stack can still be told to reload.
ReloadThread(u, id) ==
    IF id = 0 THEN u
    ELSE Ask([u EXCEPT !.seqs[id].seq = @ + 1],
             "thread", id, u.seqs[id].seq + 1, Loaded(u.seqs[id].of), FALSE)

ReloadReader(u) ==
    Ask([u EXCEPT !.reader.seq = @ + 1], "reader", u.reader.id, u.reader.seq + 1,
        <<[m |-> u.reader.remote, in |-> boxes[u.reader.remote]]>>, FALSE)

Top(u) == IF u.reader.id # 0 THEN "reader" ELSE IF u.thread.id # 0 THEN "thread" ELSE "list"

ReloadTop(u) ==
    CASE Top(u) = "list" -> ReloadList(u, FALSE)
      [] Top(u) = "thread" -> ReloadThread(u, u.thread.id)
      [] Top(u) = "reader" -> ReloadReader(u)

ReloadScreen(u, drop) == IF drop = TheList THEN ReloadList(u, FALSE) ELSE ReloadThread(u, drop)

\* After a write or a commit nothing that was read before is sure.
Unsure(u) == [u EXCEPT !.list.sure = FALSE, !.loads = {[l EXCEPT !.sure = FALSE] : l \in @}]

Clamp(i, s) == IF i <= Len(s) THEN i ELSE IF s = <<>> THEN 1 ELSE Len(s)

-----------------------------------------------------------------------------
(* The list: rows filed away are hidden in gone until a load that started  *)
(* after the write was in the index has come back.                         *)

DropRow(u) ==
    LET l == u.list
        t == l.rows[l.cursor]
        rest == RemoveAt(l.rows, l.cursor)
    IN [u EXCEPT !.list = [l EXCEPT !.gone = @ \cup {t},
            !.removed = Append(@, [at |-> l.cursor, t |-> t]),
            !.rows = rest, !.cursor = Clamp(@, rest)]]

RemovedAt(l, key) == SelectInSeq(l.removed, LAMBDA r : r.t = key)

\* Mutant of CommitRow: nothing notes which load the write came before.
CommitRow_Forever(u, key) ==
    LET i == RemovedAt(u.list, key)
    IN IF i = 0 THEN u
       ELSE [u EXCEPT !.list.removed = RemoveAt(@, i)]

CommitRow(u, key) ==
    LET i == RemovedAt(u.list, key)
    IN IF i = 0 THEN u
       ELSE [u EXCEPT !.list.removed = RemoveAt(@, i), !.list.landed[key] = u.list.seq]

RestoreRow(u, key) ==
    LET l == u.list
        i == RemovedAt(l, key)
        at == IF l.removed[i].at > Len(l.rows) THEN Len(l.rows) + 1 ELSE l.removed[i].at
    IN IF i = 0 THEN u
       ELSE [u EXCEPT !.list = [l EXCEPT !.removed = RemoveAt(@, i), !.gone = @ \ {key},
                !.landed[key] = -1, !.rows = InsertAt(@, at, key), !.cursor = at]]

\* Mutant of ForgetLanded: any load that comes back after the write will do.
ForgetLanded_Any(l, seq) ==
    LET known == {t \in Threads : l.landed[t] # -1 /\ seq >= l.landed[t]}
    IN [l EXCEPT !.gone = @ \ known,
                 !.landed = [t \in Threads |-> IF t \in known THEN -1 ELSE @[t]]]

ForgetLanded(l, seq) ==
    LET known == {t \in Threads : l.landed[t] # -1 /\ seq > l.landed[t]}
    IN [l EXCEPT !.gone = @ \ known,
                 !.landed = [t \in Threads |-> IF t \in known THEN -1 ELSE @[t]]]

\* The cursor stays on the conversation it was on, or else where it was.
Reanchor(l, rows) ==
    LET at == IF l.cursor <= Len(l.rows)
              THEN SelectInSeq(rows, LAMBDA t : t = l.rows[l.cursor]) ELSE 0
    IN IF l.reset THEN 1 ELSE IF at # 0 THEN at ELSE Clamp(l.cursor, rows)

ShowList(u, load) ==
    LET l == ForgetLanded(u.list, load.seq)
        rows == SelectSeq(load.rows, LAMBDA t : t \notin l.gone)
    IN [u EXCEPT !.list = [l EXCEPT !.rows = rows, !.cursor = Reanchor(l, rows),
                                    !.sure = load.sure]]

-----------------------------------------------------------------------------
(* The conversation: what was filed away stays in gone, since its load has *)
(* every message, until it is taken out again.                             *)

DropMessage(u, i) ==
    LET v == u.thread
        rest == RemoveAt(v.msgs, i)
    IN [u EXCEPT !.thread = [v EXCEPT !.gone = @ \cup {v.msgs[i].m},
            !.from[v.msgs[i].m] = boxes[v.msgs[i].m],
            !.removed = Append(@, [at |-> i, rec |-> v.msgs[i]]),
            !.msgs = rest, !.cursor = Clamp(i, rest)]]

IndexOf(v, m) == SelectInSeq(v.msgs, LAMBDA r : r.m = m)

RemovedFrom(v, m) == SelectInSeq(v.removed, LAMBDA r : r.rec.m = m)

CommitMessage(u, m) ==
    LET i == RemovedFrom(u.thread, m)
    IN IF i = 0 THEN u ELSE [u EXCEPT !.thread.removed = RemoveAt(@, i)]

RestoreMessage(u, m) ==
    LET v == u.thread
        i == RemovedFrom(v, m)
        at == IF v.removed[i].at > Len(v.msgs) THEN Len(v.msgs) + 1 ELSE v.removed[i].at
    IN IF i = 0 THEN u
       ELSE [u EXCEPT !.thread = [v EXCEPT !.removed = RemoveAt(@, i), !.gone = @ \ {m},
                !.msgs = InsertAt(@, at, v.removed[i].rec), !.cursor = at]]

ShowThread(u, load) ==
    LET v == u.thread
        msgs == SelectSeq(load.rows, LAMBDA r : r.m \notin v.gone)
        anchor == IF v.cursor <= Len(v.msgs)
                  THEN SelectInSeq(msgs, LAMBDA r : r.m = v.msgs[v.cursor].m) ELSE 0
        cursor == IF ~v.placed THEN 1 ELSE IF anchor # 0 THEN anchor ELSE v.cursor
    IN [u EXCEPT !.thread = [v EXCEPT !.msgs = msgs, !.placed = TRUE, !.cursor = Clamp(cursor, msgs)]]

\* A result names the screen its row was taken from; if that conversation has
\* been closed since, nobody sees what it does.
Commit(u, drop, key) ==
    IF drop = TheList THEN CommitRow(u, key)
    ELSE IF drop = u.thread.id THEN CommitMessage(u, key) ELSE u

Restore(u, drop, key) ==
    IF drop = TheList THEN RestoreRow(u, key)
    ELSE IF drop = u.thread.id THEN RestoreMessage(u, key) ELSE u

Unhide(u, drop, key) ==
    IF drop # TheList /\ drop = u.thread.id THEN [u EXCEPT !.thread.gone = @ \ {key}] ELSE u

Hide(u, drop, key) ==
    IF drop # TheList /\ drop = u.thread.id /\ key # 0
    THEN [u EXCEPT !.thread.gone = @ \cup {key}] ELSE u

-----------------------------------------------------------------------------
(* What a write does, and the write that takes it back.  The inverse of a  *)
(* trash or a restore puts each message where the screen last saw it.      *)

Patch(op, in) ==
    CASE op.kind = "archive" -> (in \ {"inbox"}) \cup {"archive"}
      [] op.kind = "trash" -> {"trash"}
      [] op.kind = "restore" -> (in \cup {"inbox"}) \ {"archive", "trash"}
      [] op.kind = "mailboxes" -> (in \cup op.add) \ op.remove

Forward(kind, recs) == [kind |-> kind, ids |-> {r.m : r \in recs}, add |-> {}, remove |-> {}]
Backward(ids, add, remove) ==
    [kind |-> "mailboxes", ids |-> ids, add |-> add, remove |-> remove]

ArchiveOps(recs) == <<Backward({r.m : r \in recs}, {"inbox"}, {"archive"})>>

Ordered(recs) == SetToSortSeq(recs, LAMBDA a, b : a.m < b.m)

\* Mutant of TrashOps: what is taken out of the trash goes to the inbox.
TrashOps_Inbox(recs) ==
    [i \in 1..Cardinality(recs) |-> Backward({Ordered(recs)[i].m}, {"inbox"}, {"trash"})]

TrashOps(recs) ==
    [i \in 1..Cardinality(recs) |->
        LET r == Ordered(recs)[i] IN Backward({r.m}, r.in, {"trash"})]

RestoreOps(recs) ==
    [i \in 1..Cardinality(recs) |->
        LET r == Ordered(recs)[i] IN Backward({r.m}, r.in, {"inbox"})]

UndoOps(what, recs) ==
    CASE what = "archive" -> ArchiveOps(recs)
      [] what = "trash" -> TrashOps(recs)
      [] what = "restore" -> RestoreOps(recs)

\* Which of its targets such an inverse can put back exactly.
Exact(what, r) ==
    /\ r.in = boxes[r.m]
    /\ CASE what = "archive" -> "inbox" \in r.in /\ "archive" \notin r.in
         [] what = "trash" -> "trash" \notin r.in
         [] what = "restore" -> "inbox" \notin r.in

-----------------------------------------------------------------------------
(* Keys.                                                                   *)

Selected(l) == l.cursor <= Len(l.rows)
SelectedMessage(v) == v.cursor <= Len(v.msgs)

\* A row of the list is the conversation as the index has it now; on the other
\* screens a target is what that screen has loaded.
Targets(u) ==
    CASE Top(u) = "list" ->
            IF Selected(u.list) THEN Range(Loaded(u.list.rows[u.list.cursor])) ELSE {}
      [] Top(u) = "thread" ->
            IF u.expanded THEN Range(u.thread.msgs)
            ELSE IF SelectedMessage(u.thread) THEN {u.thread.msgs[u.thread.cursor]} ELSE {}
      [] Top(u) = "reader" -> IF u.reader.msg = NoMessage THEN {} ELSE {u.reader.msg}

PopThread(u) == [u EXCEPT !.thread = NoThread]
PopReader(u) == [u EXCEPT !.reader = NoReader]

\* [ui |-> the screens, drop |-> the screen a row was taken from, key |-> the row]
Dropped(u, drop, key) == [ui |-> u, drop |-> drop, key |-> key]

DropSelected(u) ==
    IF Selected(u.list) THEN Dropped(DropRow(u), TheList, u.list.rows[u.list.cursor])
    ELSE Dropped(u, TheList, 0)

\* The row that goes is the one the list's cursor is on.
CloseThread(u) == DropSelected(PopThread(u))

\* The reader takes the message now under the conversation's cursor.
FollowOn(u) ==
    LET i == IndexOf(u.thread, u.reader.remote)
        v == IF i = 0 THEN u ELSE DropMessage(u, i)
    IN IF SelectedMessage(v.thread)
       THEN Dropped(ReloadReader([v EXCEPT !.reader.msg = NoMessage,
                         !.reader.remote = v.thread.msgs[v.thread.cursor].m]),
                    v.thread.id, IF i = 0 THEN 0 ELSE u.reader.remote)
       ELSE CloseThread(PopReader(v))

DropFrom(u) ==
    CASE Top(u) = "list" -> DropSelected(u)
      [] Top(u) = "thread" ->
            IF u.expanded THEN CloseThread(u)
            ELSE LET m == u.thread.msgs[u.thread.cursor].m
                     v == DropMessage(u, u.thread.cursor)
                 IN IF v.thread.msgs = <<>> THEN CloseThread(v) ELSE Dropped(v, v.thread.id, m)
      [] Top(u) = "reader" -> FollowOn(u)

\* Nothing else on its way is about the conversation.
Alone(t) ==
    /\ \A c \in todo : \A i \in DOMAIN c.ops : c.ops[i].ids \cap Range(Conversations[t]) = {}
    /\ \A i \in DOMAIN pushes : pushes[i].ids \cap Range(Conversations[t]) = {}
    /\ \A r \in replies : r.key # t \/ r.drop # TheList

Leaves(what, view) == (view = "inbox" /\ what # "restore") \/ (view = "trash" /\ what = "restore")

Triage(what) ==
    LET recs == Targets(ui)
        d == DropFrom(ui)
        n == left.triage
    IN /\ recs # {}
       /\ Spend("triage")
       /\ todo' = todo \cup {[act |-> what, n |-> n, ops |-> <<Forward(what, recs)>>,
                              drop |-> d.drop, key |-> d.key, exact |-> {r \in recs : Exact(what, r)},
                              undo |-> [n |-> n, ops |-> UndoOps(what, recs),
                                        drop |-> d.drop, key |-> d.key]]}
       /\ away' = IF /\ d.drop = TheList /\ d.key # 0 /\ Leaves(what, ui.list.view)
                     /\ {r.m : r \in recs} = Range(Conversations[d.key]) /\ Alone(d.key)
                  THEN away \cup {d.key} ELSE away
       /\ UNCHANGED <<boxes, deferred, undo, pushes, replies, settled, changed, claim, crossed>>
       /\ ui' = Unsure([d.ui EXCEPT !.thread.from = [m \in Messages |->
                    IF \E r \in recs : r.m = m /\ Patch([kind |-> what], boxes[m]) = boxes[m]
                    THEN {} ELSE @[m]]])

\* z.  Offered only once the write it takes back was in the index.
ApplyUndo ==
    /\ undo # NoUndo /\ Spend("undo")
    /\ todo' = todo \cup {[act |-> "undo", n |-> undo.n, ops |-> undo.ops, drop |-> undo.drop,
                           key |-> undo.key, exact |-> {}, undo |-> NoUndo]}
    /\ undo' = NoUndo
    /\ ui' = Unsure(ui)
    /\ away' = away \ {ThreadOf(m) : m \in UNION {undo.ops[i].ids : i \in DOMAIN undo.ops}}
    /\ UNCHANGED <<boxes, deferred, pushes, replies, settled, changed, claim, crossed>>

Screens(u) ==
    /\ UNCHANGED <<boxes, deferred, undo, writes, changed, claim, crossed>>
    /\ ui' = u

OpenThread ==
    /\ Top(ui) = "list" /\ Selected(ui.list) /\ Spend("opens")
    /\ LET t == ui.list.rows[ui.list.cursor]
           id == left.opens
       IN Screens(ReloadThread([ui EXCEPT !.thread = [NoThread EXCEPT !.id = id, !.of = t],
                                          !.seqs[id] = [seq |-> 0, of |-> t]], id))
    /\ UNCHANGED away

OpenMessage ==
    /\ Top(ui) = "thread" /\ SelectedMessage(ui.thread) /\ Spend("reads")
    /\ Screens(ReloadReader([ui EXCEPT !.reader =
            [NoReader EXCEPT !.id = left.reads,
                             !.remote = ui.thread.msgs[ui.thread.cursor].m]]))
    /\ UNCHANGED away

Back ==
    /\ Top(ui) # "list"
    /\ Screens(IF Top(ui) = "reader" THEN PopReader(ui) ELSE PopThread(ui))
    /\ UNCHANGED <<away, left>>

Move ==
    /\ \/ /\ Top(ui) = "list"
          /\ \E i \in DOMAIN ui.list.rows \ {ui.list.cursor} : Screens([ui EXCEPT !.list.cursor = i])
       \/ /\ Top(ui) = "thread"
          /\ \E i \in DOMAIN ui.thread.msgs \ {ui.thread.cursor} :
                Screens([ui EXCEPT !.thread.cursor = i])
    /\ UNCHANGED <<away, left>>

\* The next mailbox: what was hidden from the old one is not from this one.
SwitchView ==
    /\ Top(ui) = "list" /\ Len(Views) > 1
    /\ LET i == SelectInSeq(Views, LAMBDA v : v = ui.list.view)
       IN Screens(ReloadList([ui EXCEPT !.list.view = Views[(i % Len(Views)) + 1],
                                        !.list.sure = FALSE,
                                        !.list.gone = {}, !.list.landed = [t \in Threads |-> -1]],
                             TRUE))
    /\ Spend("views")
    /\ away' = {}

-----------------------------------------------------------------------------
(* The commands and the engine behind them.                                *)

Claims(c, done) ==
    [m \in Messages |->
        IF m \notin done THEN claim[m]
        ELSE IF c.act = "undo"
             THEN IF claim[m].n = c.n THEN [claim[m] EXCEPT !.undone = TRUE] ELSE NoClaim
             ELSE IF \E r \in c.exact : r.m = m /\ r.in = boxes[m]
                  THEN [n |-> c.n, was |-> boxes[m], undone |-> FALSE] ELSE NoClaim]

\* apply: one operation after the other, until one of them fails.  Where the
\* provider mints new names (IMAP) each waits for it, and a failure is told on
\* both roads.
Run(c, n, queued) ==
    LET ids == UNION {c.ops[i].ids : i \in 1..n}
        failed == n < Len(c.ops)
        OpOf(m) == c.ops[CHOOSE i \in 1..n : m \in c.ops[i].ids]
        touched == {ThreadOf(m) : m \in UNION {c.ops[i].ids : i \in DOMAIN c.ops}}
    IN /\ c \in todo /\ todo' = todo \ {c}
       /\ IF failed THEN Spend("failures") ELSE UNCHANGED left
       /\ queued => ~deferred /\ ~failed
       /\ boxes' = [m \in Messages |-> IF m \in ids THEN Patch(OpOf(m), boxes[m]) ELSE boxes[m]]
       /\ pushes' = IF deferred
                    THEN pushes \o [i \in 1..n |-> [act |-> c.act, drop |-> c.drop, key |-> c.key,
                            ids |-> c.ops[i].ids, was |-> [m \in c.ops[i].ids |-> boxes[m]]]]
                    ELSE pushes
       /\ settled' = IF failed /\ ~deferred
                     THEN Append(settled, [act |-> c.act, drop |-> c.drop, key |-> c.key])
                     ELSE settled
       /\ replies' = replies \cup {[act |-> c.act, drop |-> c.drop, key |-> c.key, failed |-> failed,
                                    queued |-> queued, undo |-> IF failed THEN NoUndo ELSE c.undo]}
       /\ ui' = Unsure(ui) /\ changed' = (changed \/ boxes' # boxes)
       /\ away' = IF failed THEN away \ touched ELSE away
       /\ claim' = Claims(c, ids)
       /\ UNCHANGED <<deferred, undo, crossed>>

\* The provider's answer to the oldest write pushed to it.
Accept ==
    /\ pushes # <<>> /\ pushes' = Tail(pushes)
    /\ UNCHANGED <<boxes, deferred, ui, undo, todo, replies, settled, changed,
                   away, claim, crossed, left>>

\* A refusal rolls the index back and is told as settled.
Refuse ==
    /\ pushes # <<>> /\ Spend("failures")
    /\ LET p == Head(pushes)
       IN /\ boxes' = [m \in Messages |-> IF m \in p.ids THEN p.was[m] ELSE boxes[m]]
          /\ settled' = Append(settled, [act |-> p.act, drop |-> p.drop, key |-> p.key])
          /\ away' = away \ {ThreadOf(m) : m \in p.ids}
          /\ claim' = [m \in Messages |-> IF m \in p.ids THEN NoClaim ELSE claim[m]]
    /\ pushes' = Tail(pushes)
    /\ ui' = Unsure(ui) /\ changed' = TRUE
    /\ UNCHANGED <<deferred, undo, todo, replies, crossed>>

-----------------------------------------------------------------------------
(* What comes back to the loop.                                            *)

\* onApplied: the row is let go or put back, and the undo offered or dropped.
Applied(r) ==
    /\ r \in replies /\ replies' = replies \ {r}
    /\ undo' = IF r.failed THEN NoUndo
               ELSE IF r.queued \/ r.undo = NoUndo THEN undo ELSE r.undo
    /\ UNCHANGED <<boxes, deferred, todo, pushes, settled, changed, away, claim, crossed, left>>
    /\ ui' = CASE r.act # "undo" /\ r.failed -> Restore(ui, r.drop, r.key)
               [] r.act # "undo" /\ ~r.failed -> Commit(ui, r.drop, r.key)
               [] r.act = "undo" /\ r.failed -> ui
               [] r.act = "undo" /\ ~r.failed -> ReloadTop(Unhide(ui, r.drop, r.key))

\* onSettled, for a write that was refused: the screen that dropped the row
\* looks again.
Settled ==
    /\ settled # <<>> /\ settled' = Tail(settled)
    /\ undo' = NoUndo
    /\ UNCHANGED <<boxes, deferred, todo, pushes, replies, changed, away, claim, crossed, left>>
    /\ LET s == Head(settled)
           u == IF s.act = "undo" THEN Hide(ui, s.drop, s.key) ELSE Unhide(ui, s.drop, s.key)
       IN ui' = ReloadScreen(u, s.drop)

\* broadcast: every screen looks at the number, and none at whose load it was.
Deliver(l) ==
    /\ l \in ui.loads
    /\ LET u == [ui EXCEPT !.loads = @ \ {l}]
           mine == CASE l.on = "list" -> l.seq = ui.list.seq
                     [] l.on = "thread" -> ui.thread.id # 0 /\ l.seq = ui.seqs[ui.thread.id].seq
                     [] l.on = "reader" -> ui.reader.id # 0 /\ l.seq = ui.reader.seq
           other == \/ l.on = "thread" /\ l.id # ui.thread.id
                    \/ l.on = "reader" /\ l.id # ui.reader.id
       IN /\ ui' = IF ~mine THEN u
                   ELSE CASE l.on = "list" -> ShowList(u, l)
                          [] l.on = "thread" -> ShowThread(u, l)
                          [] l.on = "reader" -> [u EXCEPT !.reader.msg = l.rows[1]]
          /\ crossed' = (crossed \/ (mine /\ other))
    /\ UNCHANGED <<boxes, deferred, undo, writes, changed, away, claim, left>>

\* The screen on top looks again when anything was committed.
Tick ==
    /\ changed /\ changed' = FALSE /\ Spend("ticks")
    /\ UNCHANGED <<boxes, deferred, undo, writes, away, claim, crossed>>
    /\ ui' = ReloadTop(ui)

\* A pass brings in what another client did to a message that no write of
\* this one's still guards.
Elsewhere(m) ==
    /\ Spend("moves")
    /\ \A i \in DOMAIN pushes : m \notin pushes[i].ids
    /\ \E b \in Mailboxes : boxes[m] # {b} /\ boxes' = [boxes EXCEPT ![m] = {b}]
    /\ changed' = TRUE
    /\ away' = away \ {ThreadOf(m)}
    /\ claim' = [claim EXCEPT ![m] = NoClaim]
    /\ ui' = [Unsure(ui) EXCEPT !.thread.from[m] = {}]
    /\ UNCHANGED <<deferred, undo, writes, crossed>>

Init ==
    /\ boxes = Homes /\ deferred \in BOOLEAN
    /\ \E expanded \in BOOLEAN : ui = [list |-> [view |-> Views[1], rows |-> <<>>, cursor |-> 1, gone |-> {},
                       landed |-> [t \in Threads |-> -1], removed |-> <<>>, seq |-> 1,
                       reset |-> FALSE, sure |-> FALSE],
             thread |-> NoThread, reader |-> NoReader, expanded |-> expanded,
             seqs |-> [i \in 1..2 |-> [seq |-> 0, of |-> 0]],
             loads |-> {[on |-> "list", id |-> TheList, seq |-> 1,
                         rows |-> Rows(Views[1]), sure |-> TRUE]}]
    /\ undo = NoUndo /\ todo = {} /\ pushes = <<>> /\ replies = {} /\ settled = <<>>
    /\ changed = FALSE /\ away = {} /\ claim = [m \in Messages |-> NoClaim] /\ crossed = FALSE
    /\ left \in Budgets

Next ==
    \/ \E what \in {"archive", "trash", "restore"} : Triage(what)
    \/ ApplyUndo \/ OpenThread \/ OpenMessage \/ Back \/ Move \/ SwitchView
    \/ \E l \in ui.loads : Deliver(l)
    \/ \E c \in todo, queued \in BOOLEAN : \E n \in 0..Len(c.ops) : Run(c, n, queued)
    \/ Accept \/ Refuse
    \/ \E r \in replies : Applied(r)
    \/ Settled \/ Tick
    \/ \E m \in Messages : Elsewhere(m)

Spec == Init /\ [][Next]_vars

-----------------------------------------------------------------------------
(* Properties.                                                             *)

\* A row that was filed away does not come back: no load that was under way
\* brings it, whatever order the answers come in.  (maillist.go, gone)
NoFlicker ==
    ~crossed => \A t \in away : t \notin Range(ui.list.rows)

\* What a failed, refused or undone write left hidden is hidden no longer than
\* one look.  A list whose load was asked for after everything had been heard
\* shows what the index holds; a conversation does not hide a message that is
\* back where it was when it went.  (maillist.go, landed; thread.go, unhide)
ScreensHeal ==
    /\ ui.list.sure => ui.list.rows = Rows(ui.list.view)
    /\ Still /\ pushes = <<>> /\ ~crossed =>
          \A m \in ui.thread.gone : boxes[m] # ui.thread.from[m]

\* z puts every message back where it was before the key it takes back, unless
\* something else has moved it since.  (actions.go, undoRecord)
UndoExact ==
    \A m \in Messages : claim[m].undone => boxes[m] = claim[m].was

=============================================================================
