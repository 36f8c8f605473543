--------------------------------- MODULE Send ---------------------------------
(***************************************************************************)
(* Writing a message and sending it: the composers of the terminal         *)
(* interface (internal/tui: compose.go, data.go, actions.go, root.go), the *)
(* commands that compose (internal/cli/mail_write.go), the outbox's push   *)
(* and its replays (internal/sync/outbox.go), and what each provider does  *)
(* to submit (jmap/mail.go and client.go, gmail/write.go and errors.go,    *)
(* imap/smtp.go and write.go), one step for every call that can be lost.   *)
(*                                                                         *)
(* A send cannot be repeated safely, and every call can fail in ways that  *)
(* do not say whether it was carried out.  The outbox therefore repeats it *)
(* only when nothing can have left the machine; and what follows a send -- *)
(* the original marked answered, the draft it replaces put in the trash -- *)
(* only follows one that really went.                                      *)
(*                                                                         *)
(* Leases keep two processes from pushing one row (Outbox proves it), so   *)
(* here a row has one holder and loses it when its process dies.           *)
(***************************************************************************)
EXTENDS Integers, Sequences, FiniteSets, SequencesExt, FiniteSetsExt

CONSTANTS Backends, \* of the account: "jmap", "gmail", "imap"
          Budgets   \* bound: how often each of Kinds may happen, one or the
                    \* other of these

Kinds == {"loads",     \* replies begun and drafts opened
          "blanks",    \* new messages begun
          "submits",   \* send and save keys
          "deletes",   \* drafts deleted
          "commands",  \* mail send, reply, draft
          "drafts",    \* mail send --draft
          "syncs",     \* passes that refresh the index
          "faults",    \* calls that fail
          "deadlines", \* callers that stop waiting
          "crashes"}
ASSUME SendAssumption ==
    /\ Backends \subseteq {"jmap", "gmail", "imap"}
    /\ Budgets \subseteq [Kinds -> Nat]

VARIABLES
    setting,   \* the account: backend; whether what is written has blind
               \* recipients, and whether the stored draft has a Bcc header
    texts,     \* every message built: what it is made from
    mail,      \* the provider's messages, by id: text and box
    delivered, \* deliveries, in order
    index,     \* ids the local index has in the drafts mailbox
    rows,      \* the outbox
    calls,     \* pushes under way: 0 is the daemon's, the others the user's
    composers, \* composers open, the top one last
    opened,    \* how many there have been
    loads,     \* composers being loaded
    seq,       \* root.composeSeq
    crossed,   \* history: composers that were given another's answer
    answered,  \* texts whose original was marked answered
    deleted,   \* ids of drafts the user deleted
    left       \* of the budget
provider == <<mail, delivered>>
screen == <<composers, opened, loads, seq, crossed>>
vars == <<setting, texts, mail, delivered, index, rows, calls, composers, opened,
          loads, seq, crossed, answered, deleted, left>>

Callers == 0..2
NoCall == [row |-> 0, stage |-> "", id |-> 0, err |-> "", dead |-> FALSE,
           replaces |-> 0, reply |-> FALSE, by |-> 0, say |-> ""]
Spend(what) == left[what] > 0 /\ left' = [left EXCEPT ![what] = @ - 1]

-----------------------------------------------------------------------------
(* Who a message is for.                                                   *)

\* A built message leaves the blind recipients out; they travel in the
\* envelope.  A draft another client stored may name them in a header.
Envelope(text) == {"to"} \cup (IF texts[text].blind THEN {"bcc"} ELSE {})
Headers(text) == {"to"} \cup (IF texts[text].header THEN {"bcc"} ELSE {})

\* Mutant of Reached: the provider is left to find the recipients itself.
Reached_Headers(row) == IF setting.backend = "imap" THEN {"to"} ELSE Headers(row.text)

\* What a provider makes of it: JMAP and SMTP are told the envelope, Gmail
\* reads the recipients in the message, with the blind ones put back in and
\* taken out again before anybody sees them.  Without an envelope JMAP and
\* Gmail read all the headers, and the SMTP path only To and Cc.
Reached(row) ==
    IF row.env THEN Envelope(row.text)
    ELSE IF setting.backend = "imap" THEN {"to"}
    ELSE Headers(row.text)
Visible(row) == setting.backend = "imap" /\ texts[row.text].header

Deliver(r) == Append(delivered, [row |-> r, text |-> rows[r].text,
                                 to |-> Reached(rows[r]), seen |-> Visible(rows[r])])
Store(text, box) == Append(mail, [text |-> text, box |-> box])
Holding(text) == {i \in DOMAIN mail : mail[i].text = text}

-----------------------------------------------------------------------------
(* The calls of a push, in order.                                          *)

FirstStage(kind) ==
    IF kind = "trash" THEN "set"
    ELSE CASE setting.backend = "jmap" -> "prepare"
           [] setting.backend = "gmail" -> kind
           [] setting.backend = "imap" -> IF kind = "send" THEN "connect" ELSE "append"

AfterStored(call) == IF rows[call.row].kind = "send" THEN "submit" ELSE "record"

\* What a call does at the provider.
Effect(call) ==
    LET row == rows[call.row] IN
    CASE call.stage = "import" /\ Holding(row.text) = {} ->
           mail' = Store(row.text, "drafts") /\ UNCHANGED delivered
      [] call.stage = "adopt" ->
           mail' = [mail EXCEPT ![call.id].box = "drafts"] /\ UNCHANGED delivered
      [] call.stage = "submit" ->
           /\ mail' = [mail EXCEPT ![call.id].box = "sent"]
           /\ delivered' = Deliver(call.row)
      [] call.stage = "send" ->
           mail' = Store(row.text, "sent") /\ delivered' = Deliver(call.row)
      [] call.stage = "data" ->
           delivered' = Deliver(call.row) /\ UNCHANGED mail
      [] call.stage = "file" ->
           mail' = Store(row.text, "sent") /\ UNCHANGED delivered
      [] call.stage \in {"draft", "append"} ->
           mail' = Store(row.text, "drafts") /\ UNCHANGED delivered
      [] call.stage = "set" ->
           mail' = [mail EXCEPT ![row.id].box = "trash"] /\ UNCHANGED delivered
      [] OTHER -> UNCHANGED provider

\* The step after it, once it has been answered.  An import of bytes the
\* account already holds names the message that has them.
Answered(call) ==
    LET text == rows[call.row].text IN
    CASE call.stage = "prepare" -> [call EXCEPT !.stage = "import"]
      [] call.stage = "import" ->
           IF Holding(text) = {}
           THEN [call EXCEPT !.stage = AfterStored(call), !.id = Len(mail) + 1]
           ELSE [call EXCEPT !.stage = "adopt", !.id = Min(Holding(text))]
      [] call.stage = "adopt" -> [call EXCEPT !.stage = AfterStored(call)]
      [] call.stage = "connect" -> [call EXCEPT !.stage = "data"]
      [] call.stage = "data" -> [call EXCEPT !.stage = "file"]
      [] call.stage \in {"send", "draft", "file", "append"} ->
           [call EXCEPT !.stage = "record", !.id = Len(mail) + 1]
      [] OTHER -> [call EXCEPT !.stage = "record"]

\* How a call fails: whether the request went out, whether it was carried out
\* all the same, and what the error says of that.  JMAP repeats what can be
\* repeated and then calls anything offline; what never left the machine is not
\* told apart.
Unreachable(stage) ==
    IF stage \in {"prepare", "import", "adopt", "submit"} THEN "lost" ELSE "unsent"
\* Mutant of Lost: an answer that never came is taken for a request that never
\* went.
Lost_Unsent(stage) == "unsent"
Lost(stage) == IF stage = "connect" THEN "unsent" ELSE "lost"
Broken(stage) ==  \* a 5xx, or its like
    CASE stage \in {"prepare", "adopt"} -> "lost"
      [] stage = "set" /\ setting.backend = "jmap" -> "lost"
      [] OTHER -> "failed"

Failures(stage) ==
    {[out |-> TRUE, done |-> FALSE, err |-> "refused"]}
    \cup (IF stage \in {"data", "file"} THEN {}  \* the connection is open
          ELSE {[out |-> FALSE, done |-> FALSE, err |-> Unreachable(stage)]})
    \cup {[out |-> TRUE, done |-> d, err |-> Lost(stage)] : d \in BOOLEAN}
    \cup (IF setting.backend = "imap" THEN {}
          ELSE {[out |-> TRUE, done |-> d, err |-> Broken(stage)] : d \in BOOLEAN})

\* Once the message is gone nothing may fail the send: without a filed copy
\* there is just no id to report.
Failed(call, err) ==
    IF call.stage = "file" THEN [call EXCEPT !.stage = "record", !.id = 0]
    ELSE [call EXCEPT !.stage = "record", !.err = err]

Pushing == {"prepare", "import", "adopt", "submit", "send", "draft", "connect",
            "data", "file", "append", "set"}

\* The calls that hand the message itself over.
Carries(stage) == stage \notin {"prepare", "connect"}

Call(c) ==
    /\ calls[c].stage \in Pushing
    /\ Effect(calls[c])
    /\ calls' = [calls EXCEPT ![c] = Answered(@)]
    /\ rows' = [rows EXCEPT ![calls[c].row].left = @ \/ Carries(calls[c].stage)]
    /\ UNCHANGED <<setting, texts, index, screen, answered, deleted, left>>

CallFails(c) ==
    /\ calls[c].stage \in Pushing /\ Spend("faults")
    /\ \E f \in Failures(calls[c].stage) :
        /\ IF f.done THEN Effect(calls[c]) ELSE UNCHANGED provider
        /\ calls' = [calls EXCEPT ![c] = Failed(@, f.err)]
        /\ rows' = [rows EXCEPT ![calls[c].row].left =
                                @ \/ (f.out /\ Carries(calls[c].stage))]
    /\ UNCHANGED <<setting, texts, index, screen, answered, deleted>>

\* The caller stops waiting (the interface after a minute, a command when it
\* is interrupted), and nothing can be written with its context any more.  An
\* HTTP call in flight ends with it; SMTP does not look.
Deadline(c) ==
    /\ c # 0 /\ calls[c].stage \in Pushing /\ ~calls[c].dead /\ Spend("deadlines")
    /\ \E done \in BOOLEAN :
        /\ setting.backend = "imap" => ~done
        /\ IF done THEN Effect(calls[c]) ELSE UNCHANGED provider
        /\ calls' = [calls EXCEPT ![c].dead = TRUE,
                                  ![c].stage = IF setting.backend = "imap" THEN @ ELSE "record",
                                  ![c].err = IF setting.backend = "imap" THEN @ ELSE "expired"]
        /\ rows' = [rows EXCEPT ![calls[c].row].left =
                                @ \/ (done /\ Carries(calls[c].stage))]
    /\ UNCHANGED <<setting, texts, index, screen, answered, deleted>>

-----------------------------------------------------------------------------
(* The outbox.                                                             *)

NewRow(kind, text, env, id, by) ==
    [kind |-> kind, text |-> text, env |-> env, id |-> id, by |-> by,
     state |-> "pending", held |-> TRUE, told |-> "", err |-> "", cut |-> 0, left |-> FALSE]

\* Enqueue: the row and the patch are committed before the provider hears of
\* it.  Only the draft going to the trash patches anything here.
Enqueue(c, row, plan) ==
    /\ rows' = Append(rows, row)
    /\ calls' = [calls EXCEPT ![c] = [NoCall EXCEPT !.row = Len(rows) + 1,
           !.stage = FirstStage(row.kind), !.replaces = plan.replaces,
           !.reply = plan.reply, !.by = row.by, !.dead = plan.dead, !.say = plan.say]]
    /\ index' = IF row.kind = "trash" THEN index \ {row.id} ELSE index

\* Whether a failed write may be executed again: a send or a draft only when
\* nothing left the machine, anything else whenever it was the connection.
Retryable(kind, err) ==
    IF kind \in {"send", "draft"} THEN err = "unsent" ELSE err \in {"unsent", "lost"}

\* What became of the row.  A caller out of time cannot write it down: the row
\* is left as it was, for whoever comes when its lease has run out.
Recorded(row, call) ==
    IF call.dead THEN [row EXCEPT !.held = FALSE, !.cut = @ + 1]
    ELSE [row EXCEPT !.held = FALSE, !.err = call.err,
              !.state = IF call.err = "" THEN "done"
                        ELSE IF Retryable(row.kind, call.err) THEN "pending" ELSE "failed"]

RolledBack(row, call) ==
    IF row.kind = "trash" /\ ~call.dead /\ call.err # "" /\ ~Retryable(row.kind, call.err)
    THEN index \cup {row.id} ELSE index

\* What the user is told of it.
Outcome(row, call) ==
    IF call.dead THEN "error"
    ELSE IF call.err = "" THEN "done"
    ELSE IF Retryable(row.kind, call.err) THEN "queued"
    ELSE IF call.err = "lost" THEN "unsure" ELSE call.err

\* RetryOutbox: a pending row nobody holds is executed once more.
Replay(r) ==
    /\ calls[0] = NoCall /\ rows[r].state = "pending" /\ ~rows[r].held
    /\ rows' = [rows EXCEPT ![r].held = TRUE]
    /\ calls' = [calls EXCEPT ![0] = [NoCall EXCEPT !.row = r, !.stage = FirstStage(rows[r].kind)]]
    /\ UNCHANGED <<setting, texts, provider, index, screen, answered, deleted, left>>

\* The replay has no caller: nothing follows it.
ReplayEnds ==
    /\ calls[0].stage = "record"
    /\ rows' = [rows EXCEPT ![calls[0].row] = Recorded(@, calls[0])]
    /\ calls' = [calls EXCEPT ![0] = NoCall]
    /\ UNCHANGED <<setting, texts, provider, index, screen, answered, deleted, left>>

-----------------------------------------------------------------------------
(* The composers.                                                          *)

Composing == composers # <<>>
Top == Last(composers)
Drafts == {i \in DOMAIN mail : mail[i].box = "drafts"}

\* loadCompose: a reply to the conversation, or the draft in it if there is
\* one to continue.  The keys are not the list's while a composer is open.
Reply ==
    /\ ~Composing /\ Spend("loads")
    /\ seq' = seq + 1
    /\ \E d \in IF index = {} THEN {0} ELSE {Max(index)} :
        loads' = loads \cup {[seq |-> seq + 1, draft |-> d]}
    /\ UNCHANGED <<setting, texts, provider, index, rows, calls, composers, opened,
                   crossed, answered, deleted>>

Open(draft, reply) ==
    /\ opened' = opened + 1
    /\ composers' = Append(composers, [n |-> opened + 1, draft |-> draft,
                                       reply |-> reply, sending |-> FALSE])

\* The composer goes on top, whatever has been opened meanwhile.
ComposeLoaded ==
    \E load \in loads :
        /\ loads' = loads \ {load}
        /\ IF load.seq = seq THEN Open(load.draft, load.draft = 0)
           ELSE UNCHANGED <<composers, opened>>
        /\ UNCHANGED <<setting, texts, provider, index, rows, calls, seq, crossed, answered,
                       deleted, left>>

\* A message with nothing behind it opens at once.
Blank ==
    /\ ~Composing /\ Spend("blanks")
    /\ Open(0, FALSE)
    /\ UNCHANGED <<setting, texts, provider, index, rows, calls, loads, seq, crossed, answered,
                   deleted>>

Idle(c) == c # 0 /\ calls[c] = NoCall /\ \A d \in 1..(c - 1) : calls[d] # NoCall

Plan(replaces, reply) == [replaces |-> replaces, reply |-> reply, dead |-> FALSE, say |-> ""]
Locked == composers' = [composers EXCEPT ![Len(composers)].sending = TRUE]

\* Send or save: the message is built anew, so its bytes are like no other's.
\* A draft reopened has the blind recipients its own headers name.
Submit(c, kind) ==
    /\ Composing /\ ~Top.sending /\ Idle(c) /\ Spend("submits")
    /\ texts' = Append(texts, [of |-> Top.draft, header |-> FALSE,
           blind |-> IF Top.draft = 0 THEN setting.blind
                     ELSE texts[mail[Top.draft].text].header])
    /\ Enqueue(c, NewRow(kind, Len(texts) + 1, kind = "send", 0, Top.n),
               Plan(Top.draft, Top.reply /\ kind = "send"))
    /\ Locked
    /\ UNCHANGED <<setting, provider, opened, loads, seq, crossed, answered, deleted>>

\* Asked twice, the stored draft goes to the trash.
Delete(c) ==
    /\ Composing /\ ~Top.sending /\ Top.draft # 0 /\ Idle(c) /\ Spend("deletes")
    /\ Enqueue(c, NewRow("trash", mail[Top.draft].text, FALSE, Top.draft, Top.n), Plan(0, FALSE))
    /\ deleted' = deleted \cup {Top.draft}
    /\ Locked
    /\ UNCHANGED <<setting, texts, provider, opened, loads, seq, crossed, answered>>

\* Leaving it, asked twice when there is something to lose.
Cancel ==
    /\ Composing /\ ~Top.sending
    /\ composers' = Front(composers)
    /\ UNCHANGED <<setting, texts, provider, index, rows, calls, opened, loads, seq,
                   crossed, answered, deleted, left>>

\* mail send, reply and draft.
Command(c, kind) ==
    /\ Idle(c) /\ Spend("commands")
    /\ texts' = Append(texts, [of |-> 0, blind |-> setting.blind, header |-> FALSE])
    /\ Enqueue(c, NewRow(kind, Len(texts) + 1, kind = "send", 0, 0), Plan(0, kind = "send"))
    /\ UNCHANGED <<setting, provider, screen, answered, deleted>>

\* mail send --draft: the stored bytes as they are, and no envelope.
CommandDraft(c) ==
    /\ Idle(c) /\ Spend("drafts")
    /\ \E d \in index : Enqueue(c, NewRow("send", mail[d].text, FALSE, 0, 0), Plan(d, FALSE))
    /\ UNCHANGED <<setting, texts, provider, screen, answered, deleted>>

\* Apply returns.  What follows a send does so only when it really went, and
\* how that turns out is not told.
Applied(c) ==
    LET call == calls[c]
        row == rows[call.row]
        say == IF call.say # "" THEN call.say ELSE Outcome(row, call)
    IN  /\ c # 0 /\ call.stage = "record"
        /\ rows' = [rows EXCEPT ![call.row] = [Recorded(row, call) EXCEPT !.told = say]]
        /\ index' = RolledBack(row, call)
        /\ calls' = [calls EXCEPT ![c].say = say,
               ![c].stage = IF say = "done" /\ ~call.dead THEN "follow" ELSE "report"]
        /\ UNCHANGED <<setting, texts, provider, screen, answered, deleted, left>>

\* Mutant of Superseded: the draft goes to the trash even when it is the very
\* message that was sent.
Superseded_Always(call) == call.replaces # 0

\* The original is marked answered, and the draft the message replaces goes to
\* the trash, unless the message is that draft.
Superseded(call) == call.replaces \notin {0, call.id}
Follow(c) ==
    LET call == calls[c] IN
    /\ call.stage = "follow"
    /\ answered' = IF call.reply THEN answered \cup {rows[call.row].text} ELSE answered
    /\ IF Superseded(call)
       THEN Enqueue(c, NewRow("trash", mail[call.replaces].text, FALSE, call.replaces, call.by),
                    [Plan(0, FALSE) EXCEPT !.say = call.say])
       ELSE /\ calls' = [calls EXCEPT ![c].stage = "report"]
            /\ UNCHANGED <<rows, index>>
    /\ UNCHANGED <<setting, texts, provider, screen, deleted, left>>

\* onSubmitted: the composer on top is closed, or given back with the error,
\* whichever message the answer is of.
Report(c) ==
    /\ calls[c].stage = "report"
    /\ calls' = [calls EXCEPT ![c] = NoCall]
    /\ IF calls[c].by = 0 \/ ~Composing THEN UNCHANGED <<composers, crossed>>
       ELSE /\ composers' = IF calls[c].say \in {"done", "queued"} THEN Front(composers)
                            ELSE [composers EXCEPT ![Len(composers)].sending = FALSE]
            /\ crossed' = crossed \cup ({Top.n} \ {calls[c].by})
    /\ UNCHANGED <<setting, texts, provider, index, rows, opened, loads, seq,
                   answered, deleted, left>>

-----------------------------------------------------------------------------
\* A pass of the daemon brings the index up to date with the provider.
Sync ==
    /\ Spend("syncs") /\ index # Drafts
    /\ index' = Drafts
    /\ UNCHANGED <<setting, texts, provider, rows, calls, screen, answered, deleted>>

\* A process dies, its rows fall to whoever comes after their leases, and with
\* the interface go its composers.
Abandon(cs) ==
    /\ calls' = [c \in Callers |-> IF c \in cs THEN NoCall ELSE calls[c]]
    /\ rows' = [r \in DOMAIN rows |->
           IF \E c \in cs : calls[c].row = r /\ calls[c].stage \in Pushing \cup {"record"}
           THEN [rows[r] EXCEPT !.held = FALSE, !.cut = @ + 1] ELSE rows[r]]
Crash ==
    /\ Spend("crashes")
    /\ \/ \E c \in Callers : (c = 0 \/ calls[c].by = 0) /\ calls[c] # NoCall
                            /\ Abandon({c}) /\ UNCHANGED screen
       \/ /\ \E c \in Callers : calls[c].by # 0
          /\ Abandon({c \in Callers : calls[c].by # 0})
          /\ composers' = <<>> /\ loads' = {} /\ UNCHANGED <<opened, seq, crossed>>
    /\ UNCHANGED <<setting, texts, provider, index, answered, deleted>>

Init ==
    /\ setting \in [backend : Backends, blind : BOOLEAN]
    /\ \E header \in BOOLEAN : texts = <<[of |-> 0, blind |-> FALSE, header |-> header]>>
    /\ mail = <<[text |-> 1, box |-> "drafts"]>> /\ delivered = <<>>
    /\ index = {1} /\ rows = <<>> /\ calls = [c \in Callers |-> NoCall]
    /\ composers = <<>> /\ opened = 0 /\ loads = {} /\ seq = 0 /\ crossed = {}
    /\ answered = {} /\ deleted = {} /\ left \in Budgets

Next ==
    \/ \E c \in Callers : Call(c) \/ CallFails(c) \/ Deadline(c) \/ Applied(c)
                          \/ Follow(c) \/ Report(c)
    \/ \E r \in DOMAIN rows : Replay(r)
    \/ ReplayEnds \/ Reply \/ ComposeLoaded \/ Blank \/ Cancel \/ Sync \/ Crash
    \/ \E c \in Callers : Delete(c) \/ CommandDraft(c)
                          \/ \E kind \in {"send", "draft"} : Submit(c, kind) \/ Command(c, kind)

Spec == Init /\ [][Next]_vars

-----------------------------------------------------------------------------
Deliveries(r) == Cardinality({k \in DOMAIN delivered : delivered[k].row = r})

\* A message the user asked to send goes out once.  Only a push that was cut
\* short -- its process died, or its caller stopped waiting and could no longer
\* write down what came of it -- can send it a second time; and a composer that
\* got no answer but its own never asks again while it has not been told that
\* the last time failed (retryable and leaseCtx in sync/outbox.go, doOnce in jmap/client.go,
\* nonIdempotent in gmail/errors.go, submitSMTP in imap/smtp.go, sending in
\* tui/compose.go).
SentOnce ==
    /\ \A r \in DOMAIN rows : Deliveries(r) <= 1 + rows[r].cut
    /\ \A r, later \in DOMAIN rows :
        (r < later /\ rows[r].by \notin {0} \cup crossed /\ rows[later].by = rows[r].by
            /\ rows[r].kind = "send" /\ rows[later].kind = "send")
        => rows[r].told \in {"refused", "failed", "unsure", "error"}

\* While a message is on its way the composer it was written in is open and
\* takes no key: "the submission is in flight; nothing to type into"
\* (compose.go:402), until onSubmitted "closes the composer once the message is
\* away, and leaves it open with the error when it is not" (root.go:844).
LockedInFlight ==
    \A c \in Callers : calls[c].by # 0 =>
        \E i \in DOMAIN composers : composers[i].n = calls[c].by /\ composers[i].sending

\* What the user is told is so.  Sent: it reached everybody it was for, the
\* blind recipients among them, and showed those to nobody.  Stored: it is at
\* the provider.  Queued: it has not gone out, and is still there to go out.
\* Refused: it has not gone out.  And the original is marked answered only by
\* an answer that went (mailSubmit in cli/mail_write.go, submit in
\* tui/actions.go, Submit of each provider).
ToldTrue ==
    /\ \A r \in DOMAIN rows :
        LET row == rows[r] IN
        CASE row.told = "done" /\ row.kind = "send" ->
               \E k \in DOMAIN delivered : /\ delivered[k].row = r
                                           /\ row.env => /\ Envelope(row.text) \subseteq delivered[k].to
                                                         /\ ~delivered[k].seen
          [] row.told = "done" /\ row.kind = "draft" -> Holding(row.text) # {}
          [] row.told = "queued" /\ row.state = "pending" /\ ~row.held /\ row.cut = 0 ->
               Deliveries(r) = 0
          [] row.told = "refused" -> Deliveries(r) = 0
          [] OTHER -> TRUE
    /\ \A text \in answered : \E k \in DOMAIN delivered : delivered[k].text = text

\* A stored draft is in the trash only because the user put it there, or
\* because what replaces it really is at the provider or on its way to its
\* recipients; a message that was sent is never the thing thrown away
\* (mailSubmit in cli/mail_write.go, submit in tui/actions.go).
DraftKept ==
    \A i \in DOMAIN mail : mail[i].box = "trash" /\ i \notin deleted =>
        \/ \E j \in DOMAIN mail \ {i} :
               mail[j].text = mail[i].text \/ texts[mail[j].text].of = i
        \/ \E k \in DOMAIN delivered :
               /\ setting.backend = "imap"
               /\ delivered[k].text = mail[i].text \/ texts[delivered[k].text].of = i
===============================================================================
