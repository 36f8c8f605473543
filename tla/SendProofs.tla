------------------------------ MODULE SendProofs ------------------------------
(***************************************************************************)
(* For any account and any number of messages, faults, deadlines and       *)
(* crashes: a message goes out once unless a push was cut short, what the  *)
(* user is told is so, and a stored draft is thrown away only for what     *)
(* replaced it.                                                            *)
(***************************************************************************)
EXTENDS Send, FiniteSetTheorems, WellFoundedInduction, TLAPS

Errs == {"", "refused", "unsent", "lost", "failed", "expired"}
Bad == {"refused", "failed", "unsure", "error"}
Tolds == {"", "done", "queued", "expired"} \cup Bad
Stages == Pushing \cup {"", "record", "follow", "report"}

TextRecs == [of : Nat, blind : BOOLEAN, header : BOOLEAN]
MailRecs == [text : Nat, box : {"drafts", "sent", "trash"}]
DeliveryRecs == [row : Nat, text : Nat, to : SUBSET {"to", "bcc"}, seen : BOOLEAN]
RowRecs == [kind : {"send", "draft", "trash"}, text : Nat, env : BOOLEAN, id : Nat,
            by : Nat, state : {"pending", "done", "failed"}, held : BOOLEAN,
            told : Tolds, err : Errs, cut : Nat, left : BOOLEAN]
CallRecs == [row : Nat, stage : Stages, id : Nat, err : Errs, dead : BOOLEAN,
             replaces : Nat, reply : BOOLEAN, by : Nat, say : Tolds]
ComposerRecs == [n : Nat, draft : Nat, reply : BOOLEAN, sending : BOOLEAN]

Typed ==
    /\ setting \in [backend : {"jmap", "gmail", "imap"}, blind : BOOLEAN]
    /\ texts \in Seq(TextRecs) /\ mail \in Seq(MailRecs)
    /\ delivered \in Seq(DeliveryRecs) /\ rows \in Seq(RowRecs)
    /\ calls \in [Callers -> CallRecs] /\ composers \in Seq(ComposerRecs)
    /\ opened \in Nat /\ seq \in Nat
    /\ loads \subseteq [seq : Nat, draft : Nat]
    /\ index \subseteq DOMAIN mail

\* A push under way, or one whose outcome is not written yet.
Active(call) == call.stage \in Pushing \cup {"record"}

\* What a record names exists.
TextAt(t) == t \in DOMAIN texts
MailAt(i) == i \in DOMAIN mail
RowFits(row) == TextAt(row.text) /\ (row.kind = "trash" => MailAt(row.id))
CallFits(call) ==
    \/ call = NoCall
    \/ /\ call.stage # "" /\ call.row \in DOMAIN rows
       /\ call.id = 0 \/ MailAt(call.id)
       /\ call.replaces = 0 \/ MailAt(call.replaces)
Named ==
    /\ \A i \in DOMAIN mail : TextAt(mail[i].text)
    /\ \A r \in DOMAIN rows : RowFits(rows[r])
    /\ \A c \in Callers : CallFits(calls[c])
    /\ \A i \in DOMAIN composers : composers[i].draft = 0 \/ MailAt(composers[i].draft)
    /\ \A load \in loads : load.draft = 0 \/ MailAt(load.draft)

\* The daemon's call is a replay: nothing follows it, and it has no deadline.
\* A user's call pushes the row it enqueued, for the first time.
Replays(call) ==
    /\ call.stage \in Pushing \cup {"", "record"} /\ call.by = 0 /\ call.replaces = 0
    /\ ~call.reply /\ ~call.dead /\ call.say = ""
Owns(call, row) ==
    row.held /\ row.state = "pending"
Asks(call, row) ==
    row.told = "" /\ row.cut = 0 /\ row.by = call.by
Held ==
    /\ Replays(calls[0])
    /\ \A c \in Callers : Active(calls[c]) =>
          Owns(calls[c], rows[calls[c].row]) /\ (c # 0 => Asks(calls[c], rows[calls[c].row]))
    /\ \A c, d \in Callers :
          (c # d /\ Active(calls[c]) /\ Active(calls[d])) => calls[c].row # calls[d].row

\* The stages of a push, by what it pushes and where.
Path(kind) ==
    {"record"} \cup
    (IF kind = "trash" THEN {"set"}
     ELSE CASE setting.backend = "jmap" ->
                 {"prepare", "import", "adopt"} \cup (IF kind = "send" THEN {"submit"} ELSE {})
            [] setting.backend = "gmail" -> {kind}
            [] setting.backend = "imap" ->
                 IF kind = "send" THEN {"connect", "data", "file"} ELSE {"append"})
OnPath ==
    \A c \in Callers : Active(calls[c]) => calls[c].stage \in Path(rows[calls[c].row].kind)

\* An error is an answer: none before it, and "expired" only of a dead caller.
Errors ==
    \A c \in Callers :
        /\ calls[c].stage \in Pushing => calls[c].err = ""
        /\ calls[c].err = "expired" => calls[c].dead
        /\ calls[c].stage \in {"follow", "report"} => calls[c].say \in {"done", "queued"} \cup Bad
        /\ calls[c].stage = "follow" => calls[c].say = "done" /\ ~calls[c].dead
        /\ Active(calls[c]) => \/ calls[c].say = ""
                               \/ calls[c].say = "done" /\ rows[calls[c].row].kind = "trash"

\* How often a row is in a sequence of deliveries.
Count(s, r) == Cardinality({k \in DOMAIN s : s[k].row = r})

\* Whether row r has gone out since it was last cut short.
Unsent(r) == Count(delivered, r) <= rows[r].cut
Paid(r) == Count(delivered, r) <= 1 + rows[r].cut
Sends ==
    /\ \A r \in DOMAIN rows :
          /\ Paid(r)
          /\ rows[r].kind # "send" => Count(delivered, r) = 0
          /\ (rows[r].state = "pending" /\ ~rows[r].held) => Unsent(r)
          /\ rows[r].told = "refused" =>
                Count(delivered, r) = 0 /\ ~rows[r].held /\ rows[r].state = "failed"
    /\ \A c \in Callers :
          /\ calls[c].stage \in Pushing \ {"file"} => Unsent(calls[c].row)
          /\ (calls[c].stage = "record" /\ calls[c].err \in {"refused", "unsent"})
                => Unsent(calls[c].row)

-----------------------------------------------------------------------------
\* A delivery is of a row, as it was written.
OfRow(d) ==
    /\ d.row \in DOMAIN rows /\ d.text = rows[d.row].text
    /\ d.to = Reached(rows[d.row]) /\ d.seen = Visible(rows[d.row])
Carried == \A k \in DOMAIN delivered : OfRow(delivered[k])
Bare == \A r \in DOMAIN rows : rows[r].env => ~texts[rows[r].text].header

Went(r) == \E k \in DOMAIN delivered : delivered[k].row = r
Stands(text) == \E i \in DOMAIN mail : mail[i].text = text
Achieved(r) ==
    CASE rows[r].kind = "send" -> Went(r)
      [] rows[r].kind = "draft" -> Stands(rows[r].text)
      [] OTHER -> TRUE
Succeeded(call) == call.stage = "record" /\ call.err = "" /\ ~call.dead

\* Where the message of a push is.
Placed(call) ==
    IF call.id # 0 THEN mail[call.id].text = rows[call.row].text
    ELSE setting.backend = "imap" /\ Went(call.row)
Progress ==
    /\ \A r \in DOMAIN rows : rows[r].told = "done" => Achieved(r)
    /\ \A c \in Callers :
          /\ calls[c].stage = "file" => Went(calls[c].row)
          /\ calls[c].stage \in {"adopt", "submit"} => calls[c].id # 0 /\ Placed(calls[c])
          /\ Succeeded(calls[c]) => Achieved(calls[c].row)
          /\ (Succeeded(calls[c]) /\ rows[calls[c].row].kind # "trash") => Placed(calls[c])
          /\ calls[c].stage = "follow" =>
                rows[calls[c].row].told = "done"
                /\ (rows[calls[c].row].kind # "trash" => Placed(calls[c]))
          /\ calls[c].reply /\ calls[c].stage # "report" => rows[calls[c].row].kind = "send"
    /\ \A text \in answered : \E k \in DOMAIN delivered : delivered[k].text = text

-----------------------------------------------------------------------------
\* The draft i may go: the message stands elsewhere, or what replaces it does.
Copied(i) ==
    \/ \E j \in DOMAIN mail \ {i} :
           mail[j].text = mail[i].text \/ texts[mail[j].text].of = i
    \/ \E k \in DOMAIN delivered :
           /\ setting.backend = "imap"
           /\ delivered[k].text = mail[i].text \/ texts[delivered[k].text].of = i
Replaced(i) == i \in deleted \/ Copied(i)
Source(text, i) == text = mail[i].text \/ texts[text].of = i
Thrown ==
    /\ \A i \in DOMAIN mail : mail[i].box = "trash" => Replaced(i)
    /\ \A r \in DOMAIN rows : rows[r].kind = "trash" => Replaced(rows[r].id)
    /\ \A c \in Callers : (calls[c].replaces # 0 /\ calls[c].stage # "report") =>
          rows[calls[c].row].kind # "trash" /\ Source(rows[calls[c].row].text, calls[c].replaces)

-----------------------------------------------------------------------------
\* The composers, each with a number of its own.
Ordered ==
    /\ \A i \in DOMAIN composers : composers[i].n \in 1 .. opened
    /\ \A i, j \in DOMAIN composers : i # j => composers[i].n # composers[j].n
    /\ \A r \in DOMAIN rows : rows[r].by \in 0 .. opened
    /\ \A c \in Callers : calls[c].by \in 0 .. opened

\* One that got no answer but its own has one message on its way at a time, and
\* takes a key only when nothing of it is on its way and nothing went.
Own(n) == n \notin {0} \cup crossed
Heard(r, told, call) ==
    \/ told \in Bad
    \/ Active(call) /\ r = call.row
    \/ call.stage \in {"follow", "report"} /\ told = call.say
    \/ call.say = "done"
Guarded ==
    /\ \A i \in DOMAIN composers : (Own(composers[i].n) /\ ~composers[i].sending) =>
          /\ \A c \in Callers : calls[c].by # composers[i].n
          /\ \A r \in DOMAIN rows : (rows[r].by = composers[i].n /\ rows[r].kind = "send")
                => rows[r].told \in Bad
    /\ \A c, d \in Callers : (Own(calls[c].by) /\ calls[d].by = calls[c].by) => c = d
    /\ \A c \in Callers, r \in DOMAIN rows :
          (Own(calls[c].by) /\ rows[r].by = calls[c].by /\ rows[r].kind = "send")
             => Heard(r, rows[r].told, calls[c])
Asked ==
    \A r, later \in DOMAIN rows :
        (r < later /\ Own(rows[r].by) /\ rows[later].by = rows[r].by
            /\ rows[r].kind = "send" /\ rows[later].kind = "send")
        => rows[r].told \in Bad

IInv == /\ Typed /\ Named /\ Held /\ OnPath /\ Errors /\ Sends /\ Carried /\ Bare
        /\ Progress /\ Thrown /\ Ordered /\ Guarded /\ Asked
-----------------------------------------------------------------------------

(* Counting deliveries, and choosing among ids.                            *)

\* A row has gone out so many times, a number.
LEMMA CountType ==
    ASSUME NEW s \in Seq(DeliveryRecs), NEW r
    PROVE  /\ IsFiniteSet({k \in DOMAIN s : s[k].row = r})
           /\ Count(s, r) \in Nat
<1>1. IsFiniteSet(1 .. Len(s))
  BY FS_Interval
<1>2. {k \in DOMAIN s : s[k].row = r} \in SUBSET (1 .. Len(s))
  OBVIOUS
<1>3. QED
  BY <1>1, <1>2, FS_Subset, FS_CardinalityType DEF Count

\* One delivery more counts for its row, and for no other.
LEMMA CountAppend ==
    ASSUME NEW s \in Seq(DeliveryRecs), NEW d \in DeliveryRecs, NEW r
    PROVE  Count(Append(s, d), r) = IF d.row = r THEN Count(s, r) + 1 ELSE Count(s, r)
<1> DEFINE Of(q) == {k \in DOMAIN q : q[k].row = r}
           new == Len(s) + 1
           q == Append(s, d)
<1>1. /\ DOMAIN q = 1 .. new /\ q[new] = d /\ DOMAIN s = 1 .. Len(s)
      /\ \A k \in DOMAIN s : q[k] = s[k]
  OBVIOUS
<1>2. new \notin Of(s) /\ IsFiniteSet(Of(s)) /\ Count(s, r) \in Nat
  <2>1. new \notin DOMAIN s
    BY <1>1
  <2>2. QED
    BY <2>1, CountType
<1>3. CASE d.row = r
  <2>1. Of(q) = Of(s) \cup {new}
    BY <1>1, <1>3
  <2>2. Cardinality(Of(s) \cup {new}) = Cardinality(Of(s)) + 1
    BY <1>2, FS_AddElement
  <2>3. QED
    BY <1>3, <2>1, <2>2 DEF Count
<1>4. CASE d.row # r
  <2>1. Of(q) = Of(s)
    BY <1>1, <1>4
  <2>2. QED
    BY <1>4, <2>1 DEF Count
<1>5. QED
  BY <1>3, <1>4

\* A row that is in no delivery has not gone out.
LEMMA CountNone ==
    ASSUME NEW s, NEW r, \A k \in DOMAIN s : s[k].row # r
    PROVE  Count(s, r) = 0
<1>1. {k \in DOMAIN s : s[k].row = r} = {}
  OBVIOUS
<1>2. QED
  BY <1>1, FS_EmptySet DEF Count

\* Some numbers have a least one.
LEMMA Least ==
    ASSUME NEW S \in SUBSET Nat, S # {}
    PROVE  \E m \in S : \A y \in S : m <= y
<1>1. PICK m \in S : \A y \in S : ~(<<y, m>> \in OpToRel(<, Nat))
  BY NatLessThanWellFounded, WFMin
<1>2. ASSUME NEW y \in S PROVE m <= y
  <2>1. <<y, m>> \in Nat \X Nat /\ <<y, m>>[1] = y /\ <<y, m>>[2] = m
    OBVIOUS
  <2>2. ~(y < m)
    BY <1>1, <2>1 DEF OpToRel
  <2>3. QED
    BY <2>2
<1>3. QED
  BY <1>2

\* The first of some ids is one of them, and so is the last.
LEMMA MinIn ==
    ASSUME NEW S \in SUBSET Nat, S # {}
    PROVE  Min(S) \in S
BY Least DEF Min

\* The greatest element of a set of positions is one of them.
LEMMA MaxIn ==
    ASSUME NEW n \in Nat, NEW S \in SUBSET (1 .. n), S # {}
    PROVE  Max(S) \in S
<1> DEFINE T == {n - x : x \in S}
<1>1. T \in SUBSET Nat
  <2>1. ASSUME NEW x \in S PROVE n - x \in Nat
    <3>1. x \in 1 .. n
      OBVIOUS
    <3>2. QED
      BY <3>1
  <2>2. QED
    BY <2>1
<1>2. T # {}
  OBVIOUS
<1>3. PICK m \in T : \A y \in T : m <= y
  BY <1>1, <1>2, Least
<1>4. PICK x \in S : m = n - x
  BY <1>3
<1>5. \A y \in S : x >= y
  <2> TAKE y \in S
  <2>1. n - x <= n - y /\ x \in 1 .. n /\ y \in 1 .. n
    BY <1>3, <1>4
  <2>2. QED
    BY <2>1
<1>6. QED
  BY <1>5 DEF Max

\* There is no call in NoCall.
LEMMA NoCallTyped ==
    /\ NoCall \in CallRecs /\ ~Active(NoCall) /\ NoCall.stage = "" /\ NoCall.stage \notin Pushing
    /\ NoCall.by = 0 /\ NoCall.replaces = 0 /\ ~NoCall.reply /\ ~NoCall.dead /\ NoCall.say = ""
    /\ NoCall.id = 0 /\ NoCall.err = ""
BY DEF NoCall, CallRecs, Stages, Tolds, Errs, Active, Pushing

-----------------------------------------------------------------------------

(* What a call leaves behind.                                              *)

\* What a row is told to the provider is typed.
LEMMA DeliverTyped ==
    ASSUME Typed, Named, NEW r \in DOMAIN rows
    PROVE  /\ Deliver(r) \in Seq(DeliveryRecs) /\ Len(Deliver(r)) = Len(delivered) + 1
           /\ \A k \in DOMAIN delivered : k \in DOMAIN Deliver(r) /\ Deliver(r)[k] = delivered[k]
           /\ \E d \in DeliveryRecs :
                 /\ Deliver(r) = Append(delivered, d) /\ d.row = r /\ d.text = rows[r].text
                 /\ d.to = Reached(rows[r]) /\ d.seen = Visible(rows[r])
<1> DEFINE d == [row |-> r, text |-> rows[r].text, to |-> Reached(rows[r]),
                 seen |-> Visible(rows[r])]
<1>1. rows[r] \in RowRecs /\ texts[rows[r].text] \in TextRecs /\ r \in Nat
  BY DEF Typed, Named, RowFits, TextAt
<1>2. Reached(rows[r]) \in SUBSET {"to", "bcc"}
  BY <1>1 DEF Reached, Envelope, Headers, TextRecs
<1>3. Visible(rows[r]) \in BOOLEAN
  BY <1>1 DEF Visible, TextRecs
<1>4. d \in DeliveryRecs
  BY <1>1, <1>2, <1>3 DEF DeliveryRecs, RowRecs
<1>5. Deliver(r) = Append(delivered, d)
  BY DEF Deliver
<1>6. /\ d.row = r /\ d.text = rows[r].text
      /\ d.to = Reached(rows[r]) /\ d.seen = Visible(rows[r])
  OBVIOUS
<1>7. delivered \in Seq(DeliveryRecs)
  BY DEF Typed
<1> HIDE DEF d
<1>8. QED
  BY <1>4, <1>5, <1>6, <1>7

\* A call may store a message, or put one in another box, and no more.
LEMMA MailForm ==
    ASSUME Typed, Named, NEW call \in CallRecs, call.row \in DOMAIN rows,
           call.id = 0 \/ MailAt(call.id),
           call.stage \in {"adopt", "submit"} => call.id # 0,
           call.stage = "set" => rows[call.row].kind = "trash",
           Effect(call) \/ UNCHANGED provider
    PROVE  \/ UNCHANGED mail
           \/ \E box \in {"drafts", "sent"} : mail' = Store(rows[call.row].text, box)
           \/ \E i \in DOMAIN mail, box \in {"drafts", "sent", "trash"} :
                 /\ mail' = [mail EXCEPT ![i].box = box]
                 /\ box = "trash" => call.stage = "set" /\ i = rows[call.row].id
<1>1. RowFits(rows[call.row])
  BY DEF Named
<1>2. CASE UNCHANGED provider
  BY <1>2 DEF provider
<1>3. CASE Effect(call) /\ call.stage = "import"
  BY <1>3 DEF Effect, provider
<1>4. CASE Effect(call) /\ call.stage \in {"adopt", "submit"}
  BY <1>4 DEF Effect, MailAt
<1>5. CASE Effect(call) /\ call.stage \in {"send", "file", "draft", "append"}
  BY <1>5 DEF Effect
<1>6. CASE Effect(call) /\ call.stage = "data"
  BY <1>6 DEF Effect
<1>7. CASE Effect(call) /\ call.stage = "set"
  BY <1>1, <1>7 DEF Effect, RowFits, MailAt
<1>8. CASE /\ Effect(call)
           /\ call.stage \notin {"import", "adopt", "submit", "send", "file", "draft",
                                 "append", "data", "set"}
  BY <1>8 DEF Effect, provider
<1>9. QED
  BY <1>2, <1>3, <1>4, <1>5, <1>6, <1>7, <1>8

\* It may deliver the message of its row, once.
LEMMA DeliveryForm ==
    ASSUME NEW call, Effect(call) \/ UNCHANGED provider
    PROVE  \/ UNCHANGED delivered
           \/ call.stage \in {"submit", "send", "data"} /\ delivered' = Deliver(call.row)
BY DEF Effect, provider

\* What was delivered and stored stays, and what is new is of the call's row.
LEMMA EffectFrame ==
    ASSUME Typed, Named, NEW call \in CallRecs, call.row \in DOMAIN rows,
           call.id = 0 \/ MailAt(call.id),
           call.stage \in {"adopt", "submit"} => call.id # 0,
           call.stage = "set" => rows[call.row].kind = "trash",
           Effect(call) \/ UNCHANGED provider
    PROVE  /\ mail' \in Seq(MailRecs) /\ delivered' \in Seq(DeliveryRecs)
           /\ \A i \in DOMAIN mail : i \in DOMAIN mail' /\ mail'[i].text = mail[i].text
           /\ \A i \in DOMAIN mail' : i \notin DOMAIN mail =>
                 mail'[i].text = rows[call.row].text /\ mail'[i].box # "trash"
           /\ \A i \in DOMAIN mail : mail'[i].box = "trash" =>
                 \/ mail[i].box = "trash"
                 \/ call.stage = "set" /\ i = rows[call.row].id
<1>1. mail \in Seq(MailRecs) /\ delivered \in Seq(DeliveryRecs) /\ rows[call.row] \in RowRecs
  BY DEF Typed
<1>2. delivered' \in Seq(DeliveryRecs)
  BY <1>1, DeliveryForm, DeliverTyped
<1> DEFINE Kept == /\ mail' \in Seq(MailRecs)
                   /\ \A i \in DOMAIN mail : i \in DOMAIN mail' /\ mail'[i].text = mail[i].text
                   /\ \A i \in DOMAIN mail' : i \notin DOMAIN mail =>
                         mail'[i].text = rows[call.row].text /\ mail'[i].box # "trash"
                   /\ \A i \in DOMAIN mail : mail'[i].box = "trash" =>
                         \/ mail[i].box = "trash"
                         \/ call.stage = "set" /\ i = rows[call.row].id
<1>3. ASSUME UNCHANGED mail PROVE Kept
  BY <1>1, <1>3
<1>4. ASSUME NEW box \in {"drafts", "sent"}, mail' = Store(rows[call.row].text, box)
      PROVE  Kept
  <2> DEFINE m == [text |-> rows[call.row].text, box |-> box]
  <2>1. m \in MailRecs /\ m.text = rows[call.row].text /\ m.box # "trash"
    BY <1>1 DEF MailRecs, RowRecs
  <2>2. mail' = Append(mail, m)
    BY <1>4 DEF Store
  <2> HIDE DEF m
  <2>3. /\ mail' \in Seq(MailRecs) /\ DOMAIN mail' = 1 .. Len(mail) + 1
        /\ mail'[Len(mail) + 1] = m /\ DOMAIN mail = 1 .. Len(mail)
        /\ \A i \in DOMAIN mail : mail'[i] = mail[i]
    BY <1>1, <2>1, <2>2
  <2>4. \A i \in DOMAIN mail' : i \notin DOMAIN mail => i = Len(mail) + 1
    BY <2>3
  <2>5. QED
    BY <2>1, <2>3, <2>4
<1>5. ASSUME NEW j \in DOMAIN mail, NEW box \in {"drafts", "sent", "trash"},
             mail' = [mail EXCEPT ![j].box = box],
             box = "trash" => call.stage = "set" /\ j = rows[call.row].id
      PROVE  Kept
  <2>1. PICK m : m = [mail[j] EXCEPT !.box = box]
    OBVIOUS
  <2>2. m \in MailRecs /\ m.text = mail[j].text /\ m.box = box
    <3>1. mail[j] \in MailRecs
      BY <1>1
    <3>2. QED
      BY <2>1, <3>1 DEF MailRecs
  <2>3. mail' = [mail EXCEPT ![j] = m]
    BY <1>5, <2>1
  <2>4. /\ mail' \in Seq(MailRecs) /\ DOMAIN mail' = DOMAIN mail
        /\ mail'[j] = m /\ \A i \in DOMAIN mail : i # j => mail'[i] = mail[i]
    BY <1>1, <2>2, <2>3
  <2>5. QED
    BY <1>5, <2>2, <2>4
<1>6. Kept
  <2> HIDE DEF Kept
  <2>1. QED
    BY <1>3, <1>4, <1>5, MailForm
<1>7. QED
  BY <1>2, <1>6

\* What a call that is carried out does to the provider.
LEMMA EffectDone ==
    ASSUME Typed, NEW call, Effect(call)
    PROVE  /\ call.stage \in {"submit", "send", "data"} => delivered' = Deliver(call.row)
           /\ call.stage \notin {"submit", "send", "data"} => UNCHANGED delivered
           /\ (\/ call.stage \in {"send", "file", "draft", "append"}
               \/ call.stage = "import" /\ Holding(rows[call.row].text) = {}) =>
                 /\ Len(mail) + 1 \in DOMAIN mail'
                 /\ mail'[Len(mail) + 1].text = rows[call.row].text
<1>1. call.stage \in {"submit", "send", "data"} => delivered' = Deliver(call.row)
  BY DEF Effect
<1>2. call.stage \notin {"submit", "send", "data"} => UNCHANGED delivered
  BY DEF Effect, provider
<1>3. ASSUME \/ call.stage \in {"send", "file", "draft", "append"}
             \/ call.stage = "import" /\ Holding(rows[call.row].text) = {}
      PROVE  /\ Len(mail) + 1 \in DOMAIN mail'
             /\ mail'[Len(mail) + 1].text = rows[call.row].text
  <2>1. \E box \in {"drafts", "sent"} : mail' = Store(rows[call.row].text, box)
    BY <1>3 DEF Effect
  <2>2. mail \in Seq(MailRecs)
    BY DEF Typed
  <2>3. QED
    BY <2>1, <2>2 DEF Store
<1>4. QED
  BY <1>1, <1>2, <1>3

\* Which stages there are where, and for what.
LEMMA PathFacts ==
    ASSUME Typed, NEW kind \in {"send", "draft", "trash"}, NEW stage \in Path(kind)
    PROVE  /\ stage \in {"prepare", "import", "adopt"} =>
                 setting.backend = "jmap" /\ kind # "trash"
           /\ stage = "submit" => setting.backend = "jmap" /\ kind = "send"
           /\ stage = "send" => setting.backend = "gmail" /\ kind = "send"
           /\ stage = "draft" => setting.backend = "gmail" /\ kind = "draft"
           /\ stage \in {"connect", "data", "file"} => setting.backend = "imap" /\ kind = "send"
           /\ stage = "append" => setting.backend = "imap" /\ kind = "draft"
           /\ stage = "set" => kind = "trash"
<1>1. setting.backend \in {"jmap", "gmail", "imap"}
  BY DEF Typed
<1>2. CASE kind = "trash"
  BY <1>2 DEF Path
<1>3. CASE kind # "trash" /\ setting.backend = "jmap"
  BY <1>3 DEF Path
<1>4. CASE kind # "trash" /\ setting.backend = "gmail"
  BY <1>4 DEF Path
<1>5. CASE kind # "trash" /\ setting.backend = "imap"
  BY <1>5 DEF Path
<1>6. QED
  BY <1>1, <1>2, <1>3, <1>4, <1>5

\* Which steps lie on the path of a call of each kind, and that its first stage is one of them.
LEMMA PathSteps ==
    ASSUME Typed, NEW kind \in {"send", "draft", "trash"}
    PROVE  /\ "record" \in Path(kind)
           /\ (setting.backend = "jmap" /\ kind # "trash") => {"import", "adopt"} \subseteq Path(kind)
           /\ (setting.backend = "jmap" /\ kind = "send") => "submit" \in Path(kind)
           /\ (setting.backend = "imap" /\ kind = "send") => {"data", "file"} \subseteq Path(kind)
           /\ FirstStage(kind) \in Path(kind) /\ FirstStage(kind) \in Pushing \ {"file", "adopt", "submit"}
<1>1. setting.backend \in {"jmap", "gmail", "imap"}
  BY DEF Typed
<1>2. CASE kind = "trash"
  BY <1>2 DEF Path, FirstStage, Pushing
<1>3. CASE kind # "trash" /\ setting.backend = "jmap"
  BY <1>3 DEF Path, FirstStage, Pushing
<1>4. CASE kind # "trash" /\ setting.backend = "gmail"
  BY <1>4 DEF Path, FirstStage, Pushing
<1>5. CASE kind # "trash" /\ setting.backend = "imap"
  BY <1>5 DEF Path, FirstStage, Pushing
<1>6. QED
  BY <1>1, <1>2, <1>3, <1>4, <1>5

-----------------------------------------------------------------------------
(* A step of a push: what the call becomes, and how the provider answers   *)
(* for it.                                                                 *)

Keeps(call, z) ==
    /\ z \in CallRecs /\ Active(z)
    /\ z.row = call.row /\ z.replaces = call.replaces /\ z.reply = call.reply
    /\ z.by = call.by /\ z.say = call.say
    /\ z.stage \in Path(rows[call.row].kind)
    /\ z.stage \in Pushing => z.err = ""
    /\ z.err = "expired" => z.dead
Pushed(call, z) ==
    /\ z.id = 0 \/ z.id \in DOMAIN mail'
    /\ (\/ z.stage \in Pushing \ {"file"}
        \/ z.stage = "record" /\ z.err \in {"refused", "unsent"})
          => call.stage # "file" /\ UNCHANGED delivered
    /\ z.stage = "file" => call.stage = "file" \/ delivered' = Deliver(call.row)
    /\ z.stage \in {"adopt", "submit"} =>
          z.id # 0 /\ mail'[z.id].text = rows[call.row].text
    /\ Succeeded(z) =>
          /\ rows[call.row].kind = "send" =>
                call.stage = "file" \/ delivered' = Deliver(call.row)
          /\ rows[call.row].kind # "trash" =>
                IF z.id # 0 THEN mail'[z.id].text = rows[call.row].text
                ELSE setting.backend = "imap" /\ call.stage = "file"
RowsStand ==
    /\ rows' \in Seq(RowRecs) /\ DOMAIN rows' = DOMAIN rows
    /\ \A r \in DOMAIN rows :
          /\ rows'[r].kind = rows[r].kind /\ rows'[r].text = rows[r].text
          /\ rows'[r].env = rows[r].env /\ rows'[r].id = rows[r].id
          /\ rows'[r].by = rows[r].by /\ rows'[r].state = rows[r].state
          /\ rows'[r].held = rows[r].held /\ rows'[r].told = rows[r].told
          /\ rows'[r].cut = rows[r].cut
Push(c) ==
    /\ calls[c].stage \in Pushing
    /\ Effect(calls[c]) \/ UNCHANGED provider
    /\ \E z : /\ Keeps(calls[c], z) /\ Pushed(calls[c], z)
              /\ z.dead => c # 0 \/ calls[c].dead
              /\ calls' = [calls EXCEPT ![c] = z]
    /\ RowsStand
    /\ UNCHANGED <<setting, texts, index, screen, answered, deleted>>

\* What is known of a call before it steps.
LEMMA PushReady ==
    ASSUME IInv, NEW c \in Callers, calls[c].stage \in Pushing
    PROVE  /\ calls[c] \in CallRecs /\ calls[c].row \in DOMAIN rows
           /\ rows[calls[c].row] \in RowRecs
           /\ calls[c].id = 0 \/ MailAt(calls[c].id)
           /\ calls[c].stage \in Path(rows[calls[c].row].kind)
           /\ calls[c].err = ""
           /\ calls[c].stage \in {"adopt", "submit"} =>
                 calls[c].id # 0 /\ mail[calls[c].id].text = rows[calls[c].row].text
           /\ calls[c].stage = "set" => rows[calls[c].row].kind = "trash"
<1>1. calls[c] \in CallRecs
  BY DEF IInv, Typed
<1>2. calls[c] # NoCall
  BY NoCallTyped
<1>3. calls[c].row \in DOMAIN rows /\ (calls[c].id = 0 \/ MailAt(calls[c].id))
  BY <1>2 DEF IInv, Named, CallFits
<1>4. rows[calls[c].row] \in RowRecs
  BY <1>3 DEF IInv, Typed
<1>5. calls[c].stage \in Path(rows[calls[c].row].kind)
  BY DEF IInv, OnPath, Active
<1>6. calls[c].err = ""
  BY DEF IInv, Errors
<1>7. calls[c].stage \in {"adopt", "submit"} =>
          calls[c].id # 0 /\ mail[calls[c].id].text = rows[calls[c].row].text
  BY DEF IInv, Progress, Placed
<1>8. calls[c].stage = "set" => rows[calls[c].row].kind = "trash"
  BY <1>4, <1>5, PathFacts DEF IInv, RowRecs
<1>9. QED
  BY <1>1, <1>3, <1>4, <1>5, <1>6, <1>7, <1>8

\* Only whether something left is noted in the row.
LEMMA LeftNoted ==
    ASSUME Typed, NEW r \in DOMAIN rows, NEW e \in BOOLEAN, rows' = [rows EXCEPT ![r].left = e]
    PROVE  RowsStand
<1>1. PICK z : z = [rows[r] EXCEPT !.left = e]
  OBVIOUS
<1>2. rows[r] \in RowRecs /\ rows \in Seq(RowRecs)
  BY DEF Typed
<1>3. /\ z \in RowRecs /\ z.kind = rows[r].kind /\ z.text = rows[r].text /\ z.env = rows[r].env
      /\ z.id = rows[r].id /\ z.by = rows[r].by /\ z.state = rows[r].state
      /\ z.held = rows[r].held /\ z.told = rows[r].told /\ z.cut = rows[r].cut
  BY <1>1, <1>2 DEF RowRecs
<1>4. rows' = [rows EXCEPT ![r] = z]
  BY <1>1
<1>5. /\ rows' \in Seq(RowRecs) /\ DOMAIN rows' = DOMAIN rows /\ rows'[r] = z
      /\ \A q \in DOMAIN rows : q # r => rows'[q] = rows[q]
  BY <1>2, <1>3, <1>4
<1>6. QED
  BY <1>3, <1>5 DEF RowsStand

\* A call that is answered goes on to the next stage.
LEMMA CallPushes ==
    ASSUME IInv, NEW c \in Callers, Call(c)
    PROVE  Push(c)
<1> DEFINE call == calls[c]
           kind == rows[call.row].kind
           text == rows[call.row].text
<1>0. Typed /\ Named
  BY DEF IInv
<1>1. call.stage \in Pushing /\ Effect(call)
  BY DEF Call
<1>2. /\ call \in CallRecs /\ call.row \in DOMAIN rows
      /\ rows[call.row] \in RowRecs
      /\ call.id = 0 \/ call.id \in DOMAIN mail
      /\ call.stage \in Path(kind)
      /\ call.err = ""
      /\ call.stage \in {"adopt", "submit"} => call.id # 0 /\ mail[call.id].text = text
      /\ call.stage = "set" => kind = "trash"
  BY <1>1, PushReady DEF MailAt
<1>3. kind \in {"send", "draft", "trash"} /\ setting.backend \in {"jmap", "gmail", "imap"}
  BY <1>0, <1>2 DEF RowRecs, Typed
<1>4. /\ call.stage \in {"submit", "send", "data"} => delivered' = Deliver(call.row)
      /\ call.stage \notin {"submit", "send", "data"} => UNCHANGED delivered
      /\ (\/ call.stage \in {"send", "file", "draft", "append"}
          \/ call.stage = "import" /\ Holding(text) = {}) =>
            /\ Len(mail) + 1 \in DOMAIN mail' /\ mail'[Len(mail) + 1].text = text
  BY <1>0, <1>1, EffectDone
<1>5. /\ mail \in Seq(MailRecs) /\ Len(mail) \in Nat /\ DOMAIN mail = 1 .. Len(mail)
      /\ Len(mail) + 1 \in Nat /\ Len(mail) + 1 # 0
      /\ \A i \in DOMAIN mail : i \in DOMAIN mail' /\ mail'[i].text = mail[i].text
  <2>1. mail \in Seq(MailRecs)
    BY <1>0 DEF Typed
  <2>2. \A i \in DOMAIN mail : i \in DOMAIN mail' /\ mail'[i].text = mail[i].text
    BY <1>0, <1>1, <1>2, EffectFrame DEF MailAt
  <2>3. Len(mail) \in Nat /\ DOMAIN mail = 1 .. Len(mail)
    BY <2>1
  <2>4. QED
    BY <2>1, <2>2, <2>3
<1>6. PICK z : z = Answered(call)
  OBVIOUS
<1> HIDE DEF kind, text
<1>7. Keeps(call, z) /\ Pushed(call, z) /\ z.dead = call.dead
  <2> USE <1>0, <1>1, <1>2, <1>3, <1>4, <1>5, <1>6
  <2>1. CASE call.stage = "prepare"
    <3>1. z = [call EXCEPT !.stage = "import"]
      BY <2>1 DEF Answered
    <3>2. /\ z \in CallRecs /\ z.stage = "import" /\ z.err = "" /\ z.id = call.id /\ z.dead = call.dead
          /\ z.row = call.row /\ z.replaces = call.replaces /\ z.reply = call.reply
          /\ z.by = call.by /\ z.say = call.say
      BY <3>1 DEF CallRecs, Stages, Pushing
    <3>3. "import" \in Path(kind)
      BY <2>1, PathFacts, PathSteps
    <3>4. Keeps(call, z)
      BY <3>2, <3>3 DEF Keeps, Active, Pushing, kind
    <3>5. QED
      BY <2>1, <3>2, <3>4 DEF Pushed, Succeeded
  <2>2. CASE call.stage = "import" /\ Holding(text) = {}
    <3>1. z = [call EXCEPT !.stage = AfterStored(call), !.id = Len(mail) + 1]
      BY <2>2 DEF Answered, text
    <3>2. AfterStored(call) \in {"submit", "record"} /\ AfterStored(call) \in Path(kind)
          /\ (kind = "send" => AfterStored(call) = "submit")
      BY <2>2, PathFacts, PathSteps DEF AfterStored, kind
    <3>3. /\ z \in CallRecs /\ z.stage = AfterStored(call) /\ z.err = ""
          /\ z.id = Len(mail) + 1 /\ z.dead = call.dead
          /\ z.row = call.row /\ z.replaces = call.replaces /\ z.reply = call.reply
          /\ z.by = call.by /\ z.say = call.say
      BY <3>1, <3>2 DEF CallRecs, Stages, Pushing
    <3>4. Keeps(call, z)
      BY <3>2, <3>3 DEF Keeps, Active, Pushing, kind
    <3>5. QED
      BY <2>2, <3>2, <3>3, <3>4 DEF Pushed, Succeeded, kind, text
  <2>3. CASE call.stage = "import" /\ Holding(text) # {}
    <3>1. z = [call EXCEPT !.stage = "adopt", !.id = Min(Holding(text))]
      BY <2>3 DEF Answered, text
    <3>0. DOMAIN mail \subseteq Nat \ {0}
      <4>1. DOMAIN mail = 1 .. Len(mail) /\ Len(mail) \in Nat
        BY <1>5
      <4>2. QED
        BY ONLY <4>1
    <3>2. Holding(text) \in SUBSET Nat
      BY <3>0 DEF Holding
    <3>3. Min(Holding(text)) \in Holding(text)
      BY <2>3, <3>2, MinIn
    <3>4. PICK m : m = Min(Holding(text))
      OBVIOUS
    <3>5. m \in DOMAIN mail /\ mail[m].text = text /\ m \in Nat /\ m # 0
      BY <3>0, <3>3, <3>4 DEF Holding
    <3>6. z = [call EXCEPT !.stage = "adopt", !.id = m]
      BY <3>1, <3>4
    <3>7. /\ z \in CallRecs /\ z.stage = "adopt" /\ z.err = "" /\ z.id = m /\ z.dead = call.dead
          /\ z.row = call.row /\ z.replaces = call.replaces /\ z.reply = call.reply
          /\ z.by = call.by /\ z.say = call.say
      BY <3>5, <3>6 DEF CallRecs, Stages, Pushing
    <3>8. "adopt" \in Path(kind)
      BY <2>3, PathFacts, PathSteps
    <3>9. Keeps(call, z)
      BY <3>7, <3>8 DEF Keeps, Active, Pushing, kind
    <3>10. QED
      BY <2>3, <3>5, <3>7, <3>9 DEF Pushed, Succeeded, text
  <2>4. CASE call.stage = "adopt"
    <3>1. z = [call EXCEPT !.stage = AfterStored(call)]
      BY <2>4 DEF Answered
    <3>2. AfterStored(call) \in {"submit", "record"} /\ AfterStored(call) \in Path(kind)
          /\ (kind = "send" => AfterStored(call) = "submit")
      BY <2>4, PathFacts, PathSteps DEF AfterStored, kind
    <3>3. /\ z \in CallRecs /\ z.stage = AfterStored(call) /\ z.err = ""
          /\ z.id = call.id /\ z.dead = call.dead
          /\ z.row = call.row /\ z.replaces = call.replaces /\ z.reply = call.reply
          /\ z.by = call.by /\ z.say = call.say
      BY <3>1, <3>2 DEF CallRecs, Stages, Pushing
    <3>4. Keeps(call, z)
      BY <3>2, <3>3 DEF Keeps, Active, Pushing, kind
    <3>5. QED
      BY <2>4, <3>2, <3>3, <3>4 DEF Pushed, Succeeded, kind, text
  <2>5. CASE call.stage \in {"connect", "data"}
    <3>0. PICK s : s = IF call.stage = "connect" THEN "data" ELSE "file"
      OBVIOUS
    <3>1. z = [call EXCEPT !.stage = s]
      BY <2>5, <3>0 DEF Answered
    <3>2. s \in {"data", "file"} /\ s \in Path(kind)
      BY <2>5, <3>0, PathFacts, PathSteps
    <3>3. /\ z \in CallRecs /\ z.stage = s /\ z.err = "" /\ z.id = call.id /\ z.dead = call.dead
          /\ z.row = call.row /\ z.replaces = call.replaces /\ z.reply = call.reply
          /\ z.by = call.by /\ z.say = call.say
      BY <3>1, <3>2 DEF CallRecs, Stages, Pushing
    <3>4. Keeps(call, z)
      BY <3>2, <3>3 DEF Keeps, Active, Pushing, kind
    <3>5. QED
      BY <2>5, <3>0, <3>2, <3>3, <3>4 DEF Pushed, Succeeded
  <2>6. CASE call.stage \in {"send", "draft", "file", "append"}
    <3>1. z = [call EXCEPT !.stage = "record", !.id = Len(mail) + 1]
      BY <2>6 DEF Answered
    <3>2. /\ z \in CallRecs /\ z.stage = "record" /\ z.err = ""
          /\ z.id = Len(mail) + 1 /\ z.dead = call.dead
          /\ z.row = call.row /\ z.replaces = call.replaces /\ z.reply = call.reply
          /\ z.by = call.by /\ z.say = call.say
      BY <3>1 DEF CallRecs, Stages, Pushing
    <3>3. Keeps(call, z)
      BY <3>2, PathSteps DEF Keeps, Active, Pushing, kind
    <3>4. kind = "send" => call.stage \in {"send", "file"}
      BY <2>6, PathFacts
    <3>5. QED
      BY <2>6, <3>2, <3>3, <3>4 DEF Pushed, Succeeded, kind, text, Pushing
  <2>7. CASE call.stage \in {"submit", "set"}
    <3>1. z = [call EXCEPT !.stage = "record"]
      BY <2>7 DEF Answered
    <3>2. /\ z \in CallRecs /\ z.stage = "record" /\ z.err = "" /\ z.id = call.id
          /\ z.dead = call.dead
          /\ z.row = call.row /\ z.replaces = call.replaces /\ z.reply = call.reply
          /\ z.by = call.by /\ z.say = call.say
      BY <3>1 DEF CallRecs, Stages, Pushing
    <3>3. Keeps(call, z)
      BY <3>2, PathSteps DEF Keeps, Active, Pushing, kind
    <3>4. QED
      BY <2>7, <3>2, <3>3 DEF Pushed, Succeeded, kind, text, Pushing
  <2>8. QED
    BY <2>1, <2>2, <2>3, <2>4, <2>5, <2>6, <2>7 DEF Pushing
<1>8. calls' = [calls EXCEPT ![c] = z]
  BY <1>6 DEF Call
<1>9. RowsStand
  <2>1. Carries(call.stage) \in BOOLEAN /\ rows[call.row].left \in BOOLEAN
    BY <1>2 DEF Carries, RowRecs
  <2>2. rows' = [rows EXCEPT ![call.row].left = rows[call.row].left \/ Carries(call.stage)]
    BY DEF Call
  <2>3. QED
    BY <1>0, <1>2, <2>1, <2>2, LeftNoted
<1>10. UNCHANGED <<setting, texts, index, screen, answered, deleted>>
  BY DEF Call
<1>11. QED
  BY <1>1, <1>7, <1>8, <1>9, <1>10 DEF Push

\* An error that says nothing went out is told only of a call that was not
\* carried out, or that hands nothing over.
LEMMA FailureFacts ==
    ASSUME NEW stage, NEW f \in Failures(stage)
    PROVE  /\ f.done \in BOOLEAN /\ f.out \in BOOLEAN
           /\ f.err \in {"refused", "unsent", "lost", "failed"}
           /\ (f.done /\ f.err \in {"refused", "unsent"}) => stage = "connect"
<1>1. Unreachable(stage) \in {"lost", "unsent"}
  BY DEF Unreachable
<1>2. Lost(stage) \in {"lost", "unsent"} /\ (Lost(stage) = "unsent" => stage = "connect")
  BY DEF Lost
<1>3. Broken(stage) \in {"lost", "failed"}
  BY DEF Broken
<1>4. \/ f = [out |-> TRUE, done |-> FALSE, err |-> "refused"]
      \/ f = [out |-> FALSE, done |-> FALSE, err |-> Unreachable(stage)]
      \/ \E d \in BOOLEAN : f = [out |-> TRUE, done |-> d, err |-> Lost(stage)]
      \/ \E d \in BOOLEAN : f = [out |-> TRUE, done |-> d, err |-> Broken(stage)]
  BY DEF Failures
<1>5. \/ f.out = TRUE /\ f.done = FALSE /\ f.err = "refused"
      \/ f.out = FALSE /\ f.done = FALSE /\ f.err = Unreachable(stage)
      \/ \E d \in BOOLEAN : f.out = TRUE /\ f.done = d /\ f.err \in {Lost(stage), Broken(stage)}
  BY <1>4
<1>6. CASE f.out = TRUE /\ f.done = FALSE /\ f.err = "refused"
  BY <1>6
<1>7. CASE f.out = FALSE /\ f.done = FALSE /\ f.err = Unreachable(stage)
  BY <1>1, <1>7
<1>8. ASSUME NEW d \in BOOLEAN, f.out = TRUE, f.done = d, f.err \in {Lost(stage), Broken(stage)}
      PROVE  /\ f.done \in BOOLEAN /\ f.out \in BOOLEAN
             /\ f.err \in {"refused", "unsent", "lost", "failed"}
             /\ (f.done /\ f.err \in {"refused", "unsent"}) => stage = "connect"
  <2>1. f.done \in BOOLEAN /\ f.out \in BOOLEAN
    BY <1>8
  <2>2. /\ f.err \in {"refused", "unsent", "lost", "failed"}
        /\ f.err \in {"refused", "unsent"} => stage = "connect"
    BY <1>2, <1>3, <1>8
  <2>3. QED
    BY <2>1, <2>2
<1>9. QED
  BY <1>5, <1>6, <1>7, <1>8

\* A call that fails goes to be recorded, with its error.
LEMMA FailurePushes ==
    ASSUME IInv, NEW c \in Callers, CallFails(c)
    PROVE  Push(c)
<1> DEFINE call == calls[c]
           kind == rows[call.row].kind
           text == rows[call.row].text
<1>0. Typed /\ Named
  BY DEF IInv
<1>1. call.stage \in Pushing
  BY DEF CallFails
<1>2. /\ call \in CallRecs /\ call.row \in DOMAIN rows
      /\ rows[call.row] \in RowRecs
      /\ call.stage \in Path(kind)
      /\ call.err = ""
  BY <1>1, PushReady
<1>3. kind \in {"send", "draft", "trash"}
  BY <1>0, <1>2 DEF RowRecs
<1>4. PICK f \in Failures(call.stage) :
        /\ IF f.done THEN Effect(call) ELSE UNCHANGED provider
        /\ calls' = [calls EXCEPT ![c] = Failed(calls[c], f.err)]
        /\ rows' = [rows EXCEPT ![calls[c].row].left =
                        rows[calls[c].row].left \/ (f.out /\ Carries(calls[c].stage))]
  BY DEF CallFails
<1>5. /\ f.done \in BOOLEAN /\ f.out \in BOOLEAN
      /\ f.err \in {"refused", "unsent", "lost", "failed"}
      /\ (f.done /\ f.err \in {"refused", "unsent"}) => call.stage = "connect"
  BY FailureFacts
<1>6. f.err \in {"refused", "unsent"} => UNCHANGED delivered
  BY <1>0, <1>4, <1>5, EffectDone DEF provider
<1>7. PICK z : z = Failed(calls[c], f.err)
  OBVIOUS
<1>8. Effect(call) \/ UNCHANGED provider
  BY <1>4
<1> HIDE DEF kind, text
<1>9. Keeps(call, z) /\ Pushed(call, z) /\ z.dead = call.dead
  <2>1. CASE call.stage = "file"
    <3>1. z = [call EXCEPT !.stage = "record", !.id = 0]
      BY <1>7, <2>1 DEF Failed
    <3>2. /\ z \in CallRecs /\ z.stage = "record" /\ z.err = "" /\ z.id = 0
          /\ z.dead = call.dead
          /\ z.row = call.row /\ z.replaces = call.replaces /\ z.reply = call.reply
          /\ z.by = call.by /\ z.say = call.say
      BY <1>2, <3>1 DEF CallRecs, Stages, Pushing
    <3>3. Keeps(call, z)
      BY <1>0, <1>3, <3>2, PathSteps DEF Keeps, Active, Pushing, kind
    <3>4. setting.backend = "imap"
      BY <1>0, <1>2, <1>3, <2>1, PathFacts
    <3>5. QED
      BY <2>1, <3>2, <3>3, <3>4 DEF Pushed, Succeeded, Pushing
  <2>2. CASE call.stage # "file"
    <3>1. z = [call EXCEPT !.stage = "record", !.err = f.err]
      BY <1>7, <2>2 DEF Failed
    <3>2. /\ z \in CallRecs /\ z.stage = "record" /\ z.err = f.err /\ z.id = call.id
          /\ z.dead = call.dead
          /\ z.row = call.row /\ z.replaces = call.replaces /\ z.reply = call.reply
          /\ z.by = call.by /\ z.say = call.say
      BY <1>2, <1>5, <3>1 DEF CallRecs, Stages, Pushing, Errs
    <3>3. Keeps(call, z)
      BY <1>0, <1>3, <1>5, <3>2, PathSteps DEF Keeps, Active, Pushing, kind
    <3>4. z.id = 0 \/ z.id \in DOMAIN mail'
      <4>1. /\ call.id = 0 \/ MailAt(call.id)
            /\ call.stage \in {"adopt", "submit"} => call.id # 0
            /\ call.stage = "set" => rows[call.row].kind = "trash"
        BY <1>1, PushReady
      <4>2. \A i \in DOMAIN mail : i \in DOMAIN mail'
        BY <1>0, <1>2, <1>8, <4>1, EffectFrame
      <4>3. QED
        BY <3>2, <4>1, <4>2 DEF MailAt
    <3>5. QED
      BY <1>5, <1>6, <2>2, <3>2, <3>3, <3>4 DEF Pushed, Succeeded, Pushing
  <2>3. QED
    BY <2>1, <2>2
<1>10. calls' = [calls EXCEPT ![c] = z]
  BY <1>4, <1>7
<1>11. RowsStand
  <2>1. PICK e : e = (rows[call.row].left \/ (f.out /\ Carries(call.stage)))
    OBVIOUS
  <2>2. e \in BOOLEAN
    BY <2>1
  <2>3. rows' = [rows EXCEPT ![call.row].left = e]
    BY <1>4, <2>1
  <2>4. QED
    BY <1>0, <1>2, <2>2, <2>3, LeftNoted
<1>12. UNCHANGED <<setting, texts, index, screen, answered, deleted>>
  BY DEF CallFails
<1>13. QED
  BY <1>1, <1>8, <1>9, <1>10, <1>11, <1>12 DEF Push

\* So does one whose caller stops waiting, unless it does not look.
LEMMA DeadlinePushes ==
    ASSUME IInv, NEW c \in Callers, Deadline(c)
    PROVE  Push(c)
<1> DEFINE call == calls[c]
           kind == rows[call.row].kind
           text == rows[call.row].text
<1>0. Typed /\ Named
  BY DEF IInv
<1>1. call.stage \in Pushing /\ c # 0
  BY DEF Deadline
<1>2. /\ call \in CallRecs /\ call.row \in DOMAIN rows
      /\ rows[call.row] \in RowRecs
      /\ call.id = 0 \/ MailAt(call.id)
      /\ call.stage \in {"adopt", "submit"} => call.id # 0 /\ mail[call.id].text = text
      /\ call.stage = "set" => kind = "trash"
      /\ call.stage \in Path(kind)
      /\ call.err = ""
  BY <1>1, PushReady
<1>3. kind \in {"send", "draft", "trash"}
  BY <1>0, <1>2 DEF RowRecs
<1>4. PICK done \in BOOLEAN :
        /\ setting.backend = "imap" => ~done
        /\ IF done THEN Effect(call) ELSE UNCHANGED provider
        /\ calls' = [calls EXCEPT ![c].dead = TRUE,
                       ![c].stage = IF setting.backend = "imap" THEN @ ELSE "record",
                       ![c].err = IF setting.backend = "imap" THEN @ ELSE "expired"]
        /\ rows' = [rows EXCEPT ![calls[c].row].left =
                        rows[calls[c].row].left \/ (done /\ Carries(calls[c].stage))]
  BY DEF Deadline
<1>5. calls \in [Callers -> CallRecs]
  BY <1>0 DEF Typed
<1>6. PICK z : z = [call EXCEPT !.dead = TRUE,
                       !.stage = IF setting.backend = "imap" THEN call.stage ELSE "record",
                       !.err = IF setting.backend = "imap" THEN call.err ELSE "expired"]
  OBVIOUS
<1>7. calls' = [calls EXCEPT ![c] = z]
  BY <1>2, <1>4, <1>5, <1>6 DEF CallRecs
<1>8. Effect(call) \/ UNCHANGED provider
  BY <1>4
<1>9. /\ \A i \in DOMAIN mail : i \in DOMAIN mail' /\ mail'[i].text = mail[i].text
  BY <1>0, <1>2, <1>8, EffectFrame
<1> HIDE DEF kind, text
<1>10. Keeps(call, z) /\ Pushed(call, z)
  <2>1. CASE setting.backend = "imap"
    <3>1. /\ z \in CallRecs /\ z.stage = call.stage /\ z.err = "" /\ z.id = call.id
          /\ z.dead
          /\ z.row = call.row /\ z.replaces = call.replaces /\ z.reply = call.reply
          /\ z.by = call.by /\ z.say = call.say
      BY <1>2, <1>6, <2>1 DEF CallRecs
    <3>2. Keeps(call, z)
      BY <1>1, <1>2, <3>1 DEF Keeps, Active, kind
    <3>3. UNCHANGED provider
      BY <1>4, <2>1
    <3>4. QED
      BY <1>1, <1>2, <3>1, <3>2, <3>3 DEF Pushed, Succeeded, provider, MailAt, text, Pushing
  <2>2. CASE setting.backend # "imap"
    <3>1. /\ z \in CallRecs /\ z.stage = "record" /\ z.err = "expired" /\ z.id = call.id
          /\ z.dead
          /\ z.row = call.row /\ z.replaces = call.replaces /\ z.reply = call.reply
          /\ z.by = call.by /\ z.say = call.say
      BY <1>2, <1>6, <2>2 DEF CallRecs, Stages, Errs
    <3>2. Keeps(call, z)
      BY <1>0, <1>3, <3>1, PathSteps DEF Keeps, Active, kind, Pushing
    <3>3. QED
      BY <1>2, <1>9, <3>1, <3>2 DEF Pushed, Succeeded, MailAt, Pushing
  <2>3. QED
    BY <2>1, <2>2
<1>11. RowsStand
  <2>1. PICK e : e = (rows[call.row].left \/ (done /\ Carries(call.stage)))
    OBVIOUS
  <2>2. e \in BOOLEAN
    BY <2>1
  <2>3. rows' = [rows EXCEPT ![call.row].left = e]
    BY <1>4, <2>1
  <2>4. QED
    BY <1>0, <1>2, <2>2, <2>3, LeftNoted
<1>12. UNCHANGED <<setting, texts, index, screen, answered, deleted>>
  BY DEF Deadline
<1>13. QED
  BY <1>1, <1>7, <1>8, <1>10, <1>11, <1>12 DEF Push

-----------------------------------------------------------------------------
(* A step that writes a row into the outbox and begins to push it.         *)

Fresh(row, call) ==
    /\ row \in RowRecs /\ row.held /\ row.state = "pending" /\ row.told = "" /\ row.cut = 0
    /\ call \in CallRecs /\ call.row = Len(rows) + 1 /\ call.stage = FirstStage(row.kind)
    /\ call.id = 0 /\ call.err = "" /\ ~call.dead /\ call.by = row.by
    /\ call.say = "" \/ (call.say = "done" /\ row.kind = "trash")
    /\ call.reply => row.kind = "send"
    /\ row.text \in DOMAIN texts'
    /\ row.env => ~texts'[row.text].header
    /\ row.kind = "trash" => row.id \in DOMAIN mail /\ (row.id \in deleted' \/ Copied(row.id))
    /\ call.replaces # 0 =>
          /\ call.replaces \in DOMAIN mail /\ row.kind # "trash"
          /\ row.text = mail[call.replaces].text \/ texts'[row.text].of = call.replaces
Asker(c, row, say) ==
    \/ /\ calls[c].stage = "follow" /\ row.by = calls[c].by /\ row.kind = "trash" /\ say = "done"
       /\ UNCHANGED screen
    \/ calls[c] = NoCall /\ row.by = 0 /\ UNCHANGED screen
    \/ /\ calls[c] = NoCall /\ Composing /\ ~Top.sending /\ row.by = Top.n /\ Locked
       /\ UNCHANGED <<opened, loads, seq, crossed>>
TextsGrow == UNCHANGED texts \/ \E t \in TextRecs : texts' = Append(texts, t)
AnswersGrow ==
    \A text \in answered' : \/ text \in answered
                            \/ \E k \in DOMAIN delivered : delivered[k].text = text
Queue(c) ==
    /\ c # 0 /\ ~Active(calls[c])
    /\ \E row, z : /\ Fresh(row, z) /\ Asker(c, row, z.say)
                   /\ rows' = Append(rows, row) /\ calls' = [calls EXCEPT ![c] = z]
    /\ TextsGrow /\ AnswersGrow
    /\ index' \subseteq DOMAIN mail /\ deleted \subseteq deleted'
    /\ UNCHANGED <<setting, provider>>

\* How many there are.
LEMMA Lengths ==
    ASSUME Typed
    PROVE  /\ Len(rows) \in Nat /\ Len(rows) + 1 \in Nat /\ DOMAIN rows = 1 .. Len(rows)
           /\ Len(texts) \in Nat /\ Len(texts) + 1 \in Nat
           /\ Len(texts) + 1 \notin DOMAIN texts
<1>1. rows \in Seq(RowRecs) /\ texts \in Seq(TextRecs)
  BY DEF Typed
<1>2. QED
  BY <1>1

\* The call that pushes a new row.
Begun(c, row, plan) ==
    \E z \in CallRecs :
       /\ z.row = Len(rows) + 1 /\ z.stage = FirstStage(row.kind)
       /\ z.id = 0 /\ z.err = "" /\ ~z.dead /\ z.by = row.by /\ z.say = plan.say
       /\ z.reply = plan.reply /\ z.replaces = plan.replaces
       /\ calls' = [calls EXCEPT ![c] = z]

\* To enqueue is to write the row and to begin its call.
LEMMA EnqueueIs ==
    ASSUME Typed, NEW c \in Callers, NEW row \in RowRecs, NEW plan, plan.replaces \in Nat,
           plan.reply \in BOOLEAN, plan.dead = FALSE, plan.say \in {"", "done"},
           Enqueue(c, row, plan)
    PROVE  /\ rows' = Append(rows, row) /\ index' \subseteq index
           /\ Begun(c, row, plan)
<1>1. rows' = Append(rows, row) /\ index' \subseteq index
  BY DEF Enqueue
<1>2. PICK z : z = [NoCall EXCEPT !.row = Len(rows) + 1,
           !.stage = FirstStage(row.kind), !.replaces = plan.replaces,
           !.reply = plan.reply, !.by = row.by, !.dead = plan.dead, !.say = plan.say]
  OBVIOUS
<1>3. calls' = [calls EXCEPT ![c] = z]
  BY <1>2 DEF Enqueue
<1>4. PICK n \in Nat, s \in Stages, by \in Nat, reply \in BOOLEAN, replaces \in Nat, say \in Tolds :
        /\ n = Len(rows) + 1 /\ s = FirstStage(row.kind) /\ by = row.by
        /\ reply = plan.reply /\ replaces = plan.replaces /\ say = plan.say
  <2>1. Len(rows) + 1 \in Nat
    BY Lengths
  <2>2. FirstStage(row.kind) \in Stages /\ row.by \in Nat
    BY PathSteps DEF Stages, RowRecs
  <2>3. plan.say \in Tolds
    BY DEF Tolds
  <2>4. QED
    BY <2>1, <2>2, <2>3
<1>5. z = [NoCall EXCEPT !.row = n, !.stage = s, !.replaces = replaces,
                    !.reply = reply, !.by = by, !.dead = FALSE, !.say = say]
  BY <1>2, <1>4
<1>6. /\ z \in CallRecs /\ z.row = n /\ z.stage = s
      /\ z.id = 0 /\ z.err = "" /\ ~z.dead /\ z.by = by /\ z.say = say
      /\ z.reply = reply /\ z.replaces = replaces
  BY <1>4, <1>5, NoCallTyped DEF CallRecs, Errs
<1>7. QED
  BY <1>1, <1>3, <1>4, <1>6 DEF Begun

\* The composer on top is one of them, and the draft it continues a message.
LEMMA TopIs ==
    ASSUME Typed, Named, Composing
    PROVE  /\ Len(composers) \in DOMAIN composers /\ Top = composers[Len(composers)]
           /\ Top \in ComposerRecs
           /\ Top.draft # 0 => /\ Top.draft \in DOMAIN mail
                               /\ mail[Top.draft] \in MailRecs
                               /\ mail[Top.draft].text \in DOMAIN texts
                               /\ texts[mail[Top.draft].text] \in TextRecs
<1>1. composers \in Seq(ComposerRecs) /\ composers # <<>>
  BY DEF Typed, Composing
<1>2. Len(composers) \in DOMAIN composers
  BY <1>1
<1>3. Top = composers[Len(composers)]
  BY DEF Top, Last
<1>4. Top \in ComposerRecs
  BY <1>1, <1>2, <1>3
<1>5. Top.draft # 0 => Top.draft \in DOMAIN mail
  BY <1>2, <1>3 DEF Named, MailAt
<1>6. QED
  BY <1>2, <1>3, <1>4, <1>5 DEF Typed, Named, TextAt

\* Send and save.
LEMMA SubmitQueues ==
    ASSUME IInv, NEW c \in Callers, NEW kind \in {"send", "draft"}, Submit(c, kind)
    PROVE  Queue(c)
<1>0. Typed /\ Named
  BY DEF IInv
<1>1. Composing /\ ~Top.sending /\ c # 0 /\ calls[c] = NoCall
  BY DEF Submit, Idle
<1>2. /\ Top \in ComposerRecs
      /\ Top.draft # 0 => /\ Top.draft \in DOMAIN mail
                          /\ mail[Top.draft].text \in DOMAIN texts
                          /\ texts[mail[Top.draft].text] \in TextRecs
  BY <1>0, <1>1, TopIs
<1>3. PICK t : t = [of |-> Top.draft, header |-> FALSE,
           blind |-> IF Top.draft = 0 THEN setting.blind
                     ELSE texts[mail[Top.draft].text].header]
  OBVIOUS
<1>4. t \in TextRecs /\ t.of = Top.draft /\ t.header = FALSE
  BY <1>0, <1>2, <1>3 DEF TextRecs, ComposerRecs, Typed
<1>5. texts' = Append(texts, t)
  BY <1>3 DEF Submit
<1>6. texts \in Seq(TextRecs) /\ Len(texts) + 1 \in Nat
  BY <1>0 DEF Typed
<1>7. Len(texts) + 1 \in DOMAIN texts' /\ texts'[Len(texts) + 1] = t
  BY <1>4, <1>5, <1>6
<1>8. PICK reply : reply = (Top.reply /\ kind = "send")
  OBVIOUS
<1>9. Top.draft \in Nat /\ Top.n \in Nat /\ Top.reply \in BOOLEAN
  BY <1>2 DEF ComposerRecs
<1>10. reply \in BOOLEAN /\ (reply => kind = "send")
  BY <1>8, <1>9
<1>a. PICK e : e = (kind = "send")
  OBVIOUS
<1>b. e \in BOOLEAN /\ kind \in {"send", "draft", "trash"} /\ 0 \in Nat
  BY <1>a
<1>11. PICK row : row = NewRow(kind, Len(texts) + 1, e, 0, Top.n)
  OBVIOUS
<1>12. /\ row \in RowRecs /\ row.held /\ row.state = "pending" /\ row.told = ""
       /\ row.cut = 0 /\ row.kind = kind /\ row.text = Len(texts) + 1
       /\ row.id = 0 /\ row.by = Top.n
  BY <1>6, <1>9, <1>b, <1>11 DEF NewRow, RowRecs, Tolds, Errs
<1>13. PICK plan : plan = Plan(Top.draft, Top.reply /\ kind = "send")
  OBVIOUS
<1>14. /\ plan.replaces = Top.draft /\ plan.reply = reply /\ plan.dead = FALSE
       /\ plan.say = ""
  BY <1>8, <1>13 DEF Plan
<1>c. Enqueue(c, row, plan)
  BY <1>a, <1>11, <1>13 DEF Submit
<1>d. rows' = Append(rows, row) /\ index' \subseteq index /\ Begun(c, row, plan)
  BY <1>0, <1>9, <1>10, <1>12, <1>14, <1>c, EnqueueIs
<1>15. PICK z \in CallRecs :
                 /\ z.row = Len(rows) + 1 /\ z.stage = FirstStage(row.kind)
                 /\ z.id = 0 /\ z.err = "" /\ ~z.dead /\ z.by = row.by /\ z.say = plan.say
                 /\ z.reply = plan.reply /\ z.replaces = plan.replaces
                 /\ calls' = [calls EXCEPT ![c] = z]
  BY <1>d DEF Begun
<1>16. Fresh(row, z)
  BY <1>2, <1>4, <1>7, <1>10, <1>12, <1>14, <1>15 DEF Fresh
<1>17. Asker(c, row, z.say)
  BY <1>1, <1>12, <1>15 DEF Asker, Submit
<1>18. index' \subseteq DOMAIN mail /\ UNCHANGED <<setting, provider, answered, deleted>>
  BY <1>0, <1>d DEF Typed, Submit
<1>19. ~Active(calls[c])
  BY <1>1, NoCallTyped
<1>20. TextsGrow /\ AnswersGrow
  BY <1>4, <1>5, <1>18 DEF TextsGrow, AnswersGrow
<1>21. QED
  BY <1>1, <1>d, <1>15, <1>16, <1>17, <1>18, <1>19, <1>20 DEF Queue


\* mail send, reply and draft.
LEMMA CommandQueues ==
    ASSUME IInv, NEW c \in Callers, NEW kind \in {"send", "draft"}, Command(c, kind)
    PROVE  Queue(c)
<1>0. Typed /\ Named
  BY DEF IInv
<1>1. c # 0 /\ calls[c] = NoCall
  BY DEF Command, Idle
<1>2. PICK t : t = [of |-> 0, blind |-> setting.blind, header |-> FALSE]
  OBVIOUS
<1>3. t \in TextRecs /\ t.header = FALSE
  BY <1>0, <1>2 DEF TextRecs, Typed
<1>4. texts' = Append(texts, t)
  BY <1>2 DEF Command
<1>5. texts \in Seq(TextRecs) /\ Len(texts) + 1 \in Nat
  BY <1>0 DEF Typed
<1>6. Len(texts) + 1 \in DOMAIN texts' /\ texts'[Len(texts) + 1] = t
  BY <1>3, <1>4, <1>5
<1>7. PICK e : e = (kind = "send")
  OBVIOUS
<1>8. e \in BOOLEAN /\ (e => kind = "send") /\ 0 \in Nat
  BY <1>7
<1>9. PICK row : row = NewRow(kind, Len(texts) + 1, e, 0, 0)
  OBVIOUS
<1>10. /\ row \in RowRecs /\ row.held /\ row.state = "pending" /\ row.told = ""
       /\ row.cut = 0 /\ row.kind = kind /\ row.text = Len(texts) + 1 /\ row.by = 0
  BY <1>5, <1>8, <1>9 DEF NewRow, RowRecs, Tolds, Errs
<1>11. PICK plan : plan = Plan(0, kind = "send")
  OBVIOUS
<1>12. plan.replaces = 0 /\ plan.reply = e /\ plan.dead = FALSE /\ plan.say = ""
  BY <1>7, <1>11 DEF Plan
<1>13. Enqueue(c, row, plan)
  BY <1>7, <1>9, <1>11 DEF Command
<1>14. rows' = Append(rows, row) /\ index' \subseteq index /\ Begun(c, row, plan)
  BY <1>0, <1>8, <1>10, <1>12, <1>13, EnqueueIs
<1>15. PICK z \in CallRecs :
                 /\ z.row = Len(rows) + 1 /\ z.stage = FirstStage(row.kind)
                 /\ z.id = 0 /\ z.err = "" /\ ~z.dead /\ z.by = row.by /\ z.say = plan.say
                 /\ z.reply = plan.reply /\ z.replaces = plan.replaces
                 /\ calls' = [calls EXCEPT ![c] = z]
  BY <1>14 DEF Begun
<1>16. Fresh(row, z)
  BY <1>3, <1>6, <1>8, <1>10, <1>12, <1>15 DEF Fresh
<1>17. UNCHANGED <<setting, provider, screen, answered, deleted>>
  BY DEF Command
<1>18. Asker(c, row, z.say)
  BY <1>1, <1>10, <1>17 DEF Asker
<1>19. index' \subseteq DOMAIN mail /\ ~Active(calls[c])
  BY <1>0, <1>1, <1>14, NoCallTyped DEF Typed
<1>20. TextsGrow /\ AnswersGrow
  BY <1>3, <1>4, <1>17 DEF TextsGrow, AnswersGrow
<1>21. QED
  BY <1>1, <1>14, <1>15, <1>16, <1>17, <1>18, <1>19, <1>20 DEF Queue

\* A stored message, by its id, is typed, and so is its text.
LEMMA Stored ==
    ASSUME Typed, Named, NEW i \in DOMAIN mail
    PROVE  i \in Nat /\ i # 0 /\ mail[i].text \in DOMAIN texts /\ mail[i].text \in Nat
<1>1. mail \in Seq(MailRecs)
  BY DEF Typed
<1>2. DOMAIN mail = 1 .. Len(mail) /\ Len(mail) \in Nat
  BY <1>1
<1>3. mail[i] \in MailRecs
  BY <1>1
<1>4. i \in Nat /\ i # 0
  BY <1>2
<1>5. QED
  BY <1>3, <1>4 DEF Named, TextAt, MailRecs

\* mail send --draft.
LEMMA CommandDraftQueues ==
    ASSUME IInv, NEW c \in Callers, CommandDraft(c)
    PROVE  Queue(c)
<1>0. Typed /\ Named
  BY DEF IInv
<1>1. c # 0 /\ calls[c] = NoCall
  BY DEF CommandDraft, Idle
<1>2. PICK d \in index : Enqueue(c, NewRow("send", mail[d].text, FALSE, 0, 0), Plan(d, FALSE))
  BY DEF CommandDraft
<1>3. d \in DOMAIN mail
  BY <1>0 DEF Typed
<1>4. d \in Nat /\ mail[d].text \in DOMAIN texts /\ mail[d].text \in Nat
  BY <1>0, <1>3, Stored
<1>5. 0 \in Nat /\ FALSE \in BOOLEAN
  OBVIOUS
<1>6. PICK row : row = NewRow("send", mail[d].text, FALSE, 0, 0)
  OBVIOUS
<1>7. /\ row \in RowRecs /\ row.held /\ row.state = "pending" /\ row.told = ""
      /\ row.cut = 0 /\ row.kind = "send" /\ row.text = mail[d].text /\ row.by = 0 /\ ~row.env
  BY <1>4, <1>5, <1>6 DEF NewRow, RowRecs, Tolds, Errs
<1>8. PICK plan : plan = Plan(d, FALSE)
  OBVIOUS
<1>9. plan.replaces = d /\ plan.reply = FALSE /\ plan.dead = FALSE /\ plan.say = ""
  BY <1>8 DEF Plan
<1>10. Enqueue(c, row, plan)
  BY <1>2, <1>6, <1>8
<1>11. rows' = Append(rows, row) /\ index' \subseteq index /\ Begun(c, row, plan)
  BY <1>0, <1>4, <1>7, <1>9, <1>10, EnqueueIs
<1>12. PICK z \in CallRecs :
                 /\ z.row = Len(rows) + 1 /\ z.stage = FirstStage(row.kind)
                 /\ z.id = 0 /\ z.err = "" /\ ~z.dead /\ z.by = row.by /\ z.say = plan.say
                 /\ z.reply = plan.reply /\ z.replaces = plan.replaces
                 /\ calls' = [calls EXCEPT ![c] = z]
  BY <1>11 DEF Begun
<1>13. UNCHANGED <<setting, texts, provider, screen, answered, deleted>>
  BY DEF CommandDraft
<1>14. Fresh(row, z)
  BY <1>3, <1>4, <1>7, <1>9, <1>12, <1>13 DEF Fresh
<1>15. Asker(c, row, z.say)
  BY <1>1, <1>7, <1>13 DEF Asker
<1>16. index' \subseteq DOMAIN mail /\ ~Active(calls[c])
  BY <1>0, <1>1, <1>11, NoCallTyped DEF Typed
<1>17. TextsGrow /\ AnswersGrow
  BY <1>13 DEF TextsGrow, AnswersGrow
<1>18. QED
  BY <1>1, <1>11, <1>12, <1>13, <1>14, <1>15, <1>16, <1>17 DEF Queue

\* The stored draft deleted.
LEMMA DeleteQueues ==
    ASSUME IInv, NEW c \in Callers, Delete(c)
    PROVE  Queue(c)
<1>0. Typed /\ Named
  BY DEF IInv
<1>1. Composing /\ ~Top.sending /\ Top.draft # 0 /\ c # 0 /\ calls[c] = NoCall
  BY DEF Delete, Idle
<1>2. PICK d, n : d = Top.draft /\ n = Top.n
  OBVIOUS
<1>3. d \in DOMAIN mail /\ n \in Nat
  BY <1>0, <1>1, <1>2, TopIs DEF ComposerRecs
<1>4. d \in Nat /\ mail[d].text \in DOMAIN texts /\ mail[d].text \in Nat
  BY <1>0, <1>3, Stored
<1>5. PICK row : row = NewRow("trash", mail[d].text, FALSE, d, n)
  OBVIOUS
<1>6. /\ row \in RowRecs /\ row.held /\ row.state = "pending" /\ row.told = ""
      /\ row.cut = 0 /\ row.kind = "trash" /\ row.text = mail[d].text /\ row.by = n
      /\ row.id = d /\ ~row.env
  BY <1>3, <1>4, <1>5 DEF NewRow, RowRecs, Tolds, Errs
<1>7. PICK plan : plan = Plan(0, FALSE)
  OBVIOUS
<1>8. plan.replaces = 0 /\ plan.reply = FALSE /\ plan.dead = FALSE /\ plan.say = "" /\ 0 \in Nat
  BY <1>7 DEF Plan
<1>9. Enqueue(c, row, plan)
  BY <1>2, <1>5, <1>7 DEF Delete
<1>10. rows' = Append(rows, row) /\ index' \subseteq index /\ Begun(c, row, plan)
  BY <1>0, <1>6, <1>8, <1>9, EnqueueIs
<1>11. PICK z \in CallRecs :
                 /\ z.row = Len(rows) + 1 /\ z.stage = FirstStage(row.kind)
                 /\ z.id = 0 /\ z.err = "" /\ ~z.dead /\ z.by = row.by /\ z.say = plan.say
                 /\ z.reply = plan.reply /\ z.replaces = plan.replaces
                 /\ calls' = [calls EXCEPT ![c] = z]
  BY <1>10 DEF Begun
<1>12. /\ UNCHANGED <<setting, texts, provider, answered>> /\ deleted' = deleted \cup {d}
       /\ Locked /\ UNCHANGED <<opened, loads, seq, crossed>>
  BY <1>2 DEF Delete
<1>13. Fresh(row, z)
  BY <1>3, <1>4, <1>6, <1>8, <1>11, <1>12 DEF Fresh
<1>14. Asker(c, row, z.say)
  BY <1>1, <1>2, <1>6, <1>12 DEF Asker
<1>15. index' \subseteq DOMAIN mail /\ ~Active(calls[c])
  BY <1>0, <1>1, <1>10, NoCallTyped DEF Typed
<1>16. TextsGrow /\ AnswersGrow
  BY <1>12 DEF TextsGrow, AnswersGrow
<1>17. QED
  BY <1>1, <1>10, <1>11, <1>12, <1>13, <1>14, <1>15, <1>16 DEF Queue

-----------------------------------------------------------------------------
(* What follows a send.                                                    *)

\* What is known of a call when its push has been recorded.
LEMMA FollowReady ==
    ASSUME IInv, NEW c \in Callers, calls[c].stage = "follow"
    PROVE  /\ c # 0 /\ calls[c] \in CallRecs /\ calls[c].row \in DOMAIN rows
           /\ rows[calls[c].row] \in RowRecs
           /\ calls[c].say = "done" /\ ~Active(calls[c])
           /\ calls[c].reply => Went(calls[c].row)
<1>1. c # 0
  BY DEF IInv, Held, Replays, Pushing
<1>2. calls[c] \in CallRecs /\ calls[c] # NoCall
  BY NoCallTyped DEF IInv, Typed
<1>3. calls[c].row \in DOMAIN rows
  BY <1>2 DEF IInv, Named, CallFits
<1>4. rows[calls[c].row] \in RowRecs
  BY <1>3 DEF IInv, Typed
<1>5. calls[c].say = "done" /\ ~Active(calls[c])
  BY DEF IInv, Errors, Active, Pushing
<1>6. calls[c].reply => Went(calls[c].row)
  BY <1>3 DEF IInv, Progress, Achieved
<1>7. QED
  BY <1>1, <1>2, <1>3, <1>4, <1>5, <1>6

\* An original is marked answered by a text that went.
LEMMA FollowAnswers ==
    ASSUME IInv, NEW c \in Callers, Follow(c)
    PROVE  AnswersGrow
<1>1. calls[c].stage = "follow"
  BY DEF Follow
<1>2. answered' = IF calls[c].reply THEN answered \cup {rows[calls[c].row].text} ELSE answered
  BY DEF Follow
<1>3. CASE ~calls[c].reply
  BY <1>2, <1>3 DEF AnswersGrow
<1>4. CASE calls[c].reply
  <2>1. PICK k \in DOMAIN delivered : delivered[k].row = calls[c].row
    BY <1>1, <1>4, FollowReady DEF Went
  <2>2. delivered[k].text = rows[calls[c].row].text
    BY <2>1 DEF IInv, Carried, OfRow
  <2>3. QED
    BY <1>2, <1>4, <2>2 DEF AnswersGrow
<1>5. QED
  BY <1>3, <1>4

\* The draft a message replaces may go, when it is another message.
LEMMA SupersededIsCopied ==
    ASSUME IInv, NEW c \in Callers, calls[c].stage = "follow", Superseded(calls[c])
    PROVE  calls[c].replaces \in DOMAIN mail /\ Copied(calls[c].replaces)
<1> DEFINE call == calls[c]
           i == call.replaces
<1>1. call \in CallRecs /\ call.row \in DOMAIN rows
  BY FollowReady
<1>2. i # 0 /\ i # call.id
  BY DEF Superseded
<1>3. call # NoCall
  BY NoCallTyped
<1>4. i \in DOMAIN mail /\ (call.id = 0 \/ call.id \in DOMAIN mail)
  BY <1>2, <1>3 DEF IInv, Named, CallFits, MailAt
<1>5. rows[call.row].kind # "trash" /\ Source(rows[call.row].text, i)
  BY <1>2 DEF IInv, Thrown
<1>6. Placed(call)
  BY <1>5 DEF IInv, Progress
<1>7. CASE call.id # 0
  BY <1>2, <1>4, <1>5, <1>6, <1>7 DEF Placed, Source, Copied
<1>8. CASE call.id = 0
  <2>1. setting.backend = "imap" /\ Went(call.row)
    BY <1>6, <1>8 DEF Placed
  <2>2. PICK k \in DOMAIN delivered : delivered[k].row = call.row
    BY <2>1 DEF Went
  <2>3. delivered[k].text = rows[call.row].text
    BY <2>2 DEF IInv, Carried, OfRow
  <2>4. QED
    BY <1>4, <1>5, <2>1, <2>3 DEF Copied, Source
<1>9. QED
  BY <1>4, <1>7, <1>8

\* It goes to the trash by a row of its own.
LEMMA FollowQueues ==
    ASSUME IInv, NEW c \in Callers, Follow(c), Superseded(calls[c])
    PROVE  Queue(c)
<1>0. Typed /\ Named
  BY DEF IInv
<1>1. calls[c].stage = "follow"
  BY DEF Follow
<1>2. /\ c # 0 /\ calls[c] \in CallRecs /\ calls[c].say = "done" /\ ~Active(calls[c])
  BY <1>1, FollowReady
<1>3. PICK d, n : d = calls[c].replaces /\ n = calls[c].by
  OBVIOUS
<1>4. d \in DOMAIN mail /\ Copied(d) /\ n \in Nat
  BY <1>1, <1>2, <1>3, SupersededIsCopied DEF CallRecs
<1>5. d \in Nat /\ mail[d].text \in DOMAIN texts /\ mail[d].text \in Nat
  BY <1>0, <1>4, Stored
<1>6. PICK row : row = NewRow("trash", mail[d].text, FALSE, d, n)
  OBVIOUS
<1>7. /\ row \in RowRecs /\ row.held /\ row.state = "pending" /\ row.told = ""
      /\ row.cut = 0 /\ row.kind = "trash" /\ row.text = mail[d].text /\ row.by = n
      /\ row.id = d /\ ~row.env
  BY <1>4, <1>5, <1>6 DEF NewRow, RowRecs, Tolds, Errs
<1>8. PICK plan : plan = [Plan(0, FALSE) EXCEPT !.say = calls[c].say]
  OBVIOUS
<1>9. plan.replaces = 0 /\ plan.reply = FALSE /\ plan.dead = FALSE /\ plan.say = "done" /\ 0 \in Nat
  BY <1>2, <1>8 DEF Plan
<1>10. Enqueue(c, row, plan)
  BY <1>3, <1>6, <1>8 DEF Follow
<1>11. rows' = Append(rows, row) /\ index' \subseteq index /\ Begun(c, row, plan)
  BY <1>0, <1>7, <1>9, <1>10, EnqueueIs
<1>12. PICK z \in CallRecs :
                 /\ z.row = Len(rows) + 1 /\ z.stage = FirstStage(row.kind)
                 /\ z.id = 0 /\ z.err = "" /\ ~z.dead /\ z.by = row.by /\ z.say = plan.say
                 /\ z.reply = plan.reply /\ z.replaces = plan.replaces
                 /\ calls' = [calls EXCEPT ![c] = z]
  BY <1>11 DEF Begun
<1>13. UNCHANGED <<setting, texts, provider, screen, deleted>>
  BY DEF Follow
<1>14. Fresh(row, z)
  BY <1>4, <1>5, <1>7, <1>9, <1>12, <1>13 DEF Fresh
<1>15. Asker(c, row, z.say)
  BY <1>1, <1>3, <1>7, <1>9, <1>12, <1>13 DEF Asker
<1>16. index' \subseteq DOMAIN mail
  BY <1>0, <1>11 DEF Typed
<1>17. TextsGrow /\ AnswersGrow
  BY <1>13, FollowAnswers DEF TextsGrow
<1>18. QED
  BY <1>2, <1>11, <1>12, <1>13, <1>14, <1>15, <1>16, <1>17 DEF Queue


\* Nothing else follows: the call has only to be reported.
Rest(c) ==
    /\ calls[c].stage = "follow" /\ c # 0
    /\ \E z : /\ z \in CallRecs /\ z.stage = "report" /\ z.row = calls[c].row
              /\ z.id = calls[c].id /\ z.err = calls[c].err /\ z.dead = calls[c].dead
              /\ z.replaces = calls[c].replaces /\ z.reply = calls[c].reply
              /\ z.by = calls[c].by /\ z.say = calls[c].say
              /\ calls' = [calls EXCEPT ![c] = z]
    /\ AnswersGrow
    /\ UNCHANGED <<setting, texts, provider, index, rows, screen, deleted>>
\* A follow-up that nothing superseded changes no row: it has the shape Rest.
LEMMA FollowRests ==
    ASSUME IInv, NEW c \in Callers, Follow(c), ~Superseded(calls[c])
    PROVE  Rest(c)
<1>1. calls[c].stage = "follow"
  BY DEF Follow
<1>2. c # 0 /\ calls[c] \in CallRecs
  BY <1>1, FollowReady
<1>3. PICK z : z = [calls[c] EXCEPT !.stage = "report"]
  OBVIOUS
<1>4. calls' = [calls EXCEPT ![c] = z]
  BY <1>3 DEF Follow
<1>5. /\ z \in CallRecs /\ z.stage = "report" /\ z.row = calls[c].row
      /\ z.id = calls[c].id /\ z.err = calls[c].err /\ z.dead = calls[c].dead
      /\ z.replaces = calls[c].replaces /\ z.reply = calls[c].reply
      /\ z.by = calls[c].by /\ z.say = calls[c].say
  BY <1>2, <1>3 DEF CallRecs, Stages
<1>6. UNCHANGED <<setting, texts, provider, index, rows, screen, deleted>>
  BY DEF Follow
<1>7. QED
  BY <1>1, <1>2, <1>4, <1>5, <1>6, FollowAnswers DEF Rest

-----------------------------------------------------------------------------
(* A step that writes down what came of a push.                            *)

\* The row, and what the user is told of it.
Written(row, call, w) ==
    /\ w \in RowRecs /\ w.kind = row.kind /\ w.text = row.text /\ w.env = row.env
    /\ w.id = row.id /\ w.by = row.by /\ ~w.held
    /\ call.dead => w.cut = row.cut + 1
    /\ ~call.dead => /\ w.cut = row.cut
                     /\ w.state = "pending" => call.err \in {"unsent", "lost"}
                                               /\ (row.kind = "send" => call.err = "unsent")
Saying(row, call, w) ==
    /\ w.told \in {"done", "queued"} \cup Bad /\ (call.say # "" => w.told = call.say)
    /\ w.told = "done" => (~call.dead /\ call.err = "") \/ row.kind = "trash"
    /\ w.told = "refused" => ~call.dead /\ call.err = "refused" /\ w.state = "failed"
Note(c) ==
    /\ calls[c].stage = "record"
    /\ \E w, z :
         /\ Written(rows[calls[c].row], calls[c], w)
         /\ \/ c = 0 /\ z = NoCall /\ w.told = rows[calls[c].row].told
            \/ /\ c # 0 /\ Saying(rows[calls[c].row], calls[c], w)
               /\ z \in CallRecs /\ z.row = calls[c].row
               /\ z.id = calls[c].id /\ z.err = calls[c].err /\ z.dead = calls[c].dead
               /\ z.replaces = calls[c].replaces /\ z.reply = calls[c].reply
               /\ z.by = calls[c].by /\ z.say = w.told
               /\ z.stage \in {"follow", "report"}
               /\ z.stage = "follow" => w.told = "done" /\ ~calls[c].dead
         /\ rows' = [rows EXCEPT ![calls[c].row] = w]
         /\ calls' = [calls EXCEPT ![c] = z]
    /\ index' \subseteq DOMAIN mail
    /\ UNCHANGED <<setting, texts, provider, screen, answered, deleted>>

\* What is known of a call that is to be recorded.
LEMMA RecordReady ==
    ASSUME IInv, NEW c \in Callers, calls[c].stage = "record"
    PROVE  /\ calls[c] \in CallRecs /\ calls[c].row \in DOMAIN rows
           /\ rows[calls[c].row] \in RowRecs /\ RowFits(rows[calls[c].row])
           /\ Active(calls[c])
           /\ rows[calls[c].row].held /\ rows[calls[c].row].state = "pending"
           /\ c # 0 => rows[calls[c].row].told = "" /\ rows[calls[c].row].cut = 0
           /\ calls[c].err = "expired" => calls[c].dead
           /\ calls[c].say = "" \/ (calls[c].say = "done" /\ rows[calls[c].row].kind = "trash")
<1>1. calls[c] \in CallRecs /\ calls[c] # NoCall
  BY NoCallTyped DEF IInv, Typed
<1>2. calls[c].row \in DOMAIN rows
  BY <1>1 DEF IInv, Named, CallFits
<1>3. rows[calls[c].row] \in RowRecs /\ RowFits(rows[calls[c].row])
  BY <1>2 DEF IInv, Typed, Named
<1>4. Active(calls[c])
  BY DEF Active
<1>5. /\ rows[calls[c].row].held /\ rows[calls[c].row].state = "pending"
      /\ c # 0 => rows[calls[c].row].told = "" /\ rows[calls[c].row].cut = 0
  BY <1>4 DEF IInv, Held, Owns, Asks
<1>6. /\ calls[c].err = "expired" => calls[c].dead
      /\ calls[c].say = "" \/ (calls[c].say = "done" /\ rows[calls[c].row].kind = "trash")
  BY <1>4 DEF IInv, Errors
<1>7. QED
  BY <1>1, <1>2, <1>3, <1>4, <1>5, <1>6

\* What Recorded makes of a row.
LEMMA RecordedIs ==
    ASSUME NEW row \in RowRecs, NEW call \in CallRecs, row.state = "pending",
           NEW v, v = Recorded(row, call)
    PROVE  Written(row, call, v) /\ v.told = row.told
           /\ (~call.dead /\ call.err = "refused" => v.state = "failed")
<1>0. \A err \in Errs : Retryable(row.kind, err) =>
          err \in {"unsent", "lost"} /\ (row.kind = "send" => err = "unsent")
  BY DEF Retryable
<1>1. CASE call.dead
  <2>1. v = [row EXCEPT !.held = FALSE, !.cut = row.cut + 1]
    BY <1>1 DEF Recorded
  <2>2. row.cut + 1 \in Nat
    BY DEF RowRecs
  <2>3. QED
    BY <1>1, <2>1, <2>2 DEF Written, RowRecs
<1>2. CASE ~call.dead
  <2>1. PICK s \in {"pending", "done", "failed"} :
          s = IF call.err = "" THEN "done"
              ELSE IF Retryable(row.kind, call.err) THEN "pending" ELSE "failed"
    OBVIOUS
  <2>2. v = [row EXCEPT !.held = FALSE, !.err = call.err, !.state = s]
    BY <1>2, <2>1 DEF Recorded
  <2>3. call.err \in Errs
    BY DEF CallRecs
  <2>4. /\ s = "pending" => call.err \in {"unsent", "lost"} /\ (row.kind = "send" => call.err = "unsent")
        /\ call.err = "refused" => s = "failed"
    BY <1>0, <2>1, <2>3
  <2>5. QED
    BY <1>2, <2>2, <2>3, <2>4 DEF Written, RowRecs
<1>3. QED
  BY <1>1, <1>2

\* What the user is told.
LEMMA OutcomeIs ==
    ASSUME NEW row \in RowRecs, NEW call \in CallRecs, call.err = "expired" => call.dead
    PROVE  /\ Outcome(row, call) \in {"done", "queued"} \cup Bad
           /\ Outcome(row, call) = "done" => ~call.dead /\ call.err = ""
           /\ Outcome(row, call) = "refused" => ~call.dead /\ call.err = "refused"
<1>1. call.err \in Errs /\ call.dead \in BOOLEAN /\ row.kind \in {"send", "draft", "trash"}
  BY DEF CallRecs, RowRecs
<1>2. Retryable(row.kind, "unsent")
  BY DEF Retryable
<1>3. QED
  BY <1>1, <1>2 DEF Outcome, Bad, Errs

\* The end of a replay has the shape Note.
LEMMA ReplayEndNotes ==
    ASSUME IInv, ReplayEnds
    PROVE  0 \in Callers /\ Note(0)
<1>0. 0 \in Callers
  BY DEF Callers
<1>1. calls[0].stage = "record"
  BY DEF ReplayEnds
<1>2. PICK w : w = Recorded(rows[calls[0].row], calls[0])
  OBVIOUS
<1>3. Written(rows[calls[0].row], calls[0], w) /\ w.told = rows[calls[0].row].told
  <2>1. /\ calls[0] \in CallRecs /\ rows[calls[0].row] \in RowRecs
        /\ rows[calls[0].row].state = "pending"
    BY <1>0, <1>1, RecordReady
  <2>2. QED
    BY <1>2, <2>1, RecordedIs
<1>4. rows' = [rows EXCEPT ![calls[0].row] = w] /\ calls' = [calls EXCEPT ![0] = NoCall]
  BY <1>2 DEF ReplayEnds
<1>5. index' \subseteq DOMAIN mail /\ UNCHANGED <<setting, texts, provider, screen, answered, deleted>>
  BY DEF ReplayEnds, IInv, Typed
<1>6. QED
  BY <1>0, <1>1, <1>3, <1>4, <1>5 DEF Note

\* What the queue says of a call it applied has the shape Note.
LEMMA AppliedNotes ==
    ASSUME IInv, NEW c \in Callers, Applied(c)
    PROVE  Note(c)
<1> DEFINE call == calls[c]
           row == rows[call.row]
<1>1. c # 0 /\ call.stage = "record"
  BY DEF Applied
<1>2. /\ call \in CallRecs /\ call.row \in DOMAIN rows /\ row \in RowRecs /\ RowFits(row)
      /\ row.state = "pending"
      /\ call.err = "expired" => call.dead
      /\ call.say = "" \/ (call.say = "done" /\ row.kind = "trash")
  BY <1>1, RecordReady
<1>3. PICK say : say = IF call.say # "" THEN call.say ELSE Outcome(row, call)
  OBVIOUS
<1>4. /\ say \in {"done", "queued"} \cup Bad
      /\ say = "done" => (~call.dead /\ call.err = "") \/ row.kind = "trash"
      /\ say = "refused" => ~call.dead /\ call.err = "refused"
      /\ call.say # "" => say = call.say
  BY <1>2, <1>3, OutcomeIs
<1>5. PICK v : v = Recorded(row, call)
  OBVIOUS
<1>6. /\ Written(row, call, v)
      /\ (~call.dead /\ call.err = "refused" => v.state = "failed")
  BY <1>2, <1>5, RecordedIs
<1>7. PICK w : w = [v EXCEPT !.told = say]
  OBVIOUS
<1>8. say \in Tolds
  BY <1>4 DEF Tolds
<1>9. w.told = say /\ w.state = v.state /\ Written(row, call, w)
  BY <1>6, <1>7, <1>8 DEF Written, RowRecs
<1>10. Saying(row, call, w)
  BY <1>4, <1>6, <1>9 DEF Saying
<1>11. rows' = [rows EXCEPT ![call.row] = w]
  BY <1>3, <1>5, <1>7 DEF Applied
<1>12. PICK s \in {"follow", "report"} :
         s = IF say = "done" /\ ~call.dead THEN "follow" ELSE "report"
  OBVIOUS
<1>13. PICK z : z = [call EXCEPT !.say = say, !.stage = s]
  OBVIOUS
<1>14. /\ z \in CallRecs /\ z.row = call.row
       /\ z.id = call.id /\ z.err = call.err /\ z.dead = call.dead
       /\ z.replaces = call.replaces /\ z.reply = call.reply
       /\ z.by = call.by /\ z.say = say /\ z.stage = s
  BY <1>2, <1>8, <1>13 DEF CallRecs, Stages
<1>15. calls \in [Callers -> CallRecs]
  BY DEF IInv, Typed
<1>16. calls' = [calls EXCEPT ![c] = z]
  <2>1. calls' = [calls EXCEPT ![c].say = say, ![c].stage = s]
    BY <1>3, <1>12 DEF Applied
  <2>2. QED
    BY <1>2, <1>13, <1>15, <2>1 DEF CallRecs
<1>17. index' \subseteq DOMAIN mail
  <2>1. index' = RolledBack(row, call) /\ index \subseteq DOMAIN mail
    BY DEF Applied, IInv, Typed
  <2>2. QED
    BY <1>2, <2>1 DEF RolledBack, RowFits, MailAt
<1>18. UNCHANGED <<setting, texts, provider, screen, answered, deleted>>
  BY DEF Applied
<1>19. QED
  BY <1>1, <1>9, <1>10, <1>11, <1>12, <1>14, <1>16, <1>17, <1>18 DEF Note


-----------------------------------------------------------------------------
(* What every step leaves as it was.                                       *)

Past ==
    /\ UNCHANGED setting
    /\ \A t \in DOMAIN texts : t \in DOMAIN texts' /\ texts'[t] = texts[t]
    /\ \A i \in DOMAIN mail : i \in DOMAIN mail' /\ mail'[i].text = mail[i].text
    /\ \A k \in DOMAIN delivered : k \in DOMAIN delivered' /\ delivered'[k] = delivered[k]
    /\ \A r \in DOMAIN rows :
          /\ r \in DOMAIN rows' /\ rows'[r].kind = rows[r].kind
          /\ rows'[r].text = rows[r].text /\ rows'[r].env = rows[r].env
          /\ rows'[r].id = rows[r].id /\ rows'[r].by = rows[r].by
    /\ deleted \subseteq deleted'

\* What went and what stands did so for good.
LEMMA WentStays ==
    ASSUME Past, NEW r, Went(r)
    PROVE  Went(r)'
BY DEF Past, Went

\* A text the account holds stays held.
LEMMA StandsStays ==
    ASSUME Past, NEW text, Stands(text)
    PROVE  Stands(text)'
BY DEF Past, Stands

\* What a row asked for and got, it has got for good.
LEMMA AchievedStays ==
    ASSUME Past, NEW r \in DOMAIN rows, Achieved(r)
    PROVE  Achieved(r)'
<1>1. /\ rows'[r].kind = rows[r].kind /\ rows'[r].text = rows[r].text
  BY DEF Past
<1>2. CASE rows[r].kind = "send"
  BY <1>1, <1>2, WentStays DEF Achieved
<1>3. CASE rows[r].kind = "draft"
  BY <1>1, <1>3, StandsStays DEF Achieved
<1>4. CASE rows[r].kind \notin {"send", "draft"}
  BY <1>1, <1>4 DEF Achieved
<1>5. QED
  BY <1>2, <1>3, <1>4

\* So did what may be thrown away.
LEMMA CopiedStays ==
    ASSUME Named, Carried, Past, NEW i \in DOMAIN mail, Copied(i)
    PROVE  Copied(i)'
<1>0. /\ \A j \in DOMAIN mail : mail[j].text \in DOMAIN texts
      /\ \A k \in DOMAIN delivered : delivered[k].text \in DOMAIN texts
  BY DEF Named, TextAt, Carried, OfRow, RowFits
<1>1. CASE \E j \in DOMAIN mail \ {i} : mail[j].text = mail[i].text \/ texts[mail[j].text].of = i
  <2>1. PICK j \in DOMAIN mail \ {i} : mail[j].text = mail[i].text \/ texts[mail[j].text].of = i
    BY <1>1
  <2>2. /\ j \in DOMAIN mail' \ {i} /\ mail'[j].text = mail[j].text /\ mail'[i].text = mail[i].text
        /\ texts'[mail[j].text] = texts[mail[j].text]
    BY <1>0 DEF Past
  <2>3. QED
    BY <2>1, <2>2 DEF Copied
<1>2. CASE \E k \in DOMAIN delivered :
              /\ setting.backend = "imap"
              /\ delivered[k].text = mail[i].text \/ texts[delivered[k].text].of = i
  <2>1. PICK k \in DOMAIN delivered :
              /\ setting.backend = "imap"
              /\ delivered[k].text = mail[i].text \/ texts[delivered[k].text].of = i
    BY <1>2
  <2>2. /\ k \in DOMAIN delivered' /\ delivered'[k] = delivered[k] /\ mail'[i].text = mail[i].text
        /\ texts'[delivered[k].text] = texts[delivered[k].text] /\ setting' = setting
    BY <1>0 DEF Past
  <2>3. QED
    BY <2>1, <2>2 DEF Copied
<1>3. QED
  BY <1>1, <1>2 DEF Copied

\* A draft that was replaced stays replaced.
LEMMA ReplacedStays ==
    ASSUME Named, Carried, Past, NEW i \in DOMAIN mail, Replaced(i)
    PROVE  Replaced(i)'
BY CopiedStays DEF Replaced, Past

\* The draft a text was made from stays the one it was made from.
LEMMA SourceStays ==
    ASSUME Past, NEW text \in DOMAIN texts, NEW i \in DOMAIN mail, Source(text, i)
    PROVE  Source(text, i)'
BY DEF Past, Source

\* A delivery is of its row still.
LEMMA OfRowStays ==
    ASSUME Named, Past, NEW d, OfRow(d)
    PROVE  OfRow(d)'
<1>1. /\ d.row \in DOMAIN rows' /\ rows'[d.row].text = rows[d.row].text
      /\ rows'[d.row].env = rows[d.row].env /\ setting' = setting
      /\ texts'[rows[d.row].text] = texts[rows[d.row].text]
  BY DEF Past, OfRow, Named, RowFits, TextAt
<1>2. Reached(rows[d.row])' = Reached(rows[d.row]) /\ Visible(rows[d.row])' = Visible(rows[d.row])
  BY <1>1 DEF Reached, Visible, Envelope, Headers
<1>3. QED
  BY <1>1, <1>2 DEF OfRow

\* While nothing new is delivered, every delivery still has its row.
LEMMA CarriedStays ==
    ASSUME Named, Carried, Past, UNCHANGED delivered
    PROVE  Carried'
BY OfRowStays DEF Carried

\* What is said of the texts of rows that were there, where none is new.
LEMMA BareStays ==
    ASSUME Named, Bare, Past, DOMAIN rows' = DOMAIN rows
    PROVE  Bare'
BY DEF Past, Bare, Named, RowFits, TextAt

\* Answers stand.
LEMMA AnswersStay ==
    ASSUME Progress, Past, AnswersGrow
    PROVE  \A text \in answered' : \E k \in DOMAIN delivered' : delivered'[k].text = text
BY DEF Progress, Past, AnswersGrow

\* The stages of a push depend on the backend alone.
LEMMA PathStays ==
    ASSUME Past, NEW kind
    PROVE  Path(kind)' = Path(kind)
BY DEF Past, Path


-----------------------------------------------------------------------------
(* A step of the screen, where no call ends: a composer opened or left, a  *)
(* draft being loaded, the index refreshed.                                *)

Page ==
    /\ composers' \in Seq(ComposerRecs) /\ opened' \in Nat /\ opened <= opened' /\ seq' \in Nat
    /\ loads' \subseteq [seq : Nat, draft : Nat] /\ index' \subseteq DOMAIN mail
    /\ \A load \in loads' : load.draft = 0 \/ load.draft \in DOMAIN mail
    /\ \A i \in DOMAIN composers' :
          \/ i \in DOMAIN composers /\ composers'[i] = composers[i]
          \/ /\ i = Len(composers) + 1 /\ composers'[i].n = opened + 1 /\ opened' = opened + 1
             /\ composers'[i].draft = 0 \/ composers'[i].draft \in DOMAIN mail
    /\ UNCHANGED <<setting, texts, provider, rows, calls, crossed, answered, deleted>>

\* All but the last.
LEMMA FrontIs ==
    ASSUME Typed, Composing
    PROVE  /\ Front(composers) \in Seq(ComposerRecs)
           /\ DOMAIN Front(composers) \subseteq DOMAIN composers \ {Len(composers)}
           /\ \A i \in DOMAIN Front(composers) : Front(composers)[i] = composers[i]
<1>1. composers \in Seq(ComposerRecs) /\ composers # <<>>
  BY DEF Typed, Composing
<1>2. Len(composers) \in Nat \ {0} /\ DOMAIN composers = 1 .. Len(composers)
  BY <1>1
<1>3. Front(composers) = SubSeq(composers, 1, Len(composers) - 1)
  BY DEF Front
<1>4. DOMAIN Front(composers) = 1 .. Len(composers) - 1
  BY <1>1, <1>2, <1>3
<1>5. \A i \in DOMAIN Front(composers) : Front(composers)[i] = composers[i]
  BY <1>1, <1>2, <1>3, <1>4
<1>6. Front(composers) \in Seq(ComposerRecs)
  BY <1>1, <1>2, <1>3
<1>7. 1 .. Len(composers) - 1 \subseteq 1 .. Len(composers) \ {Len(composers)}
  BY <1>2
<1>8. QED
  BY <1>2, <1>4, <1>5, <1>6, <1>7

\* Opening a reply touches the screen alone: it has the shape Page.
LEMMA ReplyPages ==
    ASSUME IInv, Reply
    PROVE  Page
<1>0. Typed /\ Named
  BY DEF IInv
<1>1. PICK d \in IF index = {} THEN {0} ELSE {Max(index)} :
        loads' = loads \cup {[seq |-> seq + 1, draft |-> d]}
  BY DEF Reply
<1>2. mail \in Seq(MailRecs) /\ index \subseteq DOMAIN mail
  BY <1>0 DEF Typed
<1>3. Len(mail) \in Nat /\ DOMAIN mail = 1 .. Len(mail)
  BY <1>2
<1>4. index # {} => Max(index) \in DOMAIN mail
  BY <1>2, <1>3, MaxIn
<1>5. d = 0 \/ d \in DOMAIN mail
  BY <1>1, <1>4
<1>6. d \in Nat
  BY <1>0, <1>5, Stored
<1>7. seq' = seq + 1 /\ seq \in Nat
  BY <1>0 DEF Reply, Typed
<1>8. loads' \subseteq [seq : Nat, draft : Nat]
  BY <1>0, <1>1, <1>6, <1>7 DEF Typed
<1>9. \A load \in loads' : load.draft = 0 \/ load.draft \in DOMAIN mail
  BY <1>0, <1>1, <1>5 DEF Named, MailAt
<1>10. /\ UNCHANGED <<setting, texts, provider, rows, calls, crossed, answered, deleted>>
       /\ UNCHANGED <<composers, opened, index>>
  BY DEF Reply
<1>11. QED
  BY <1>0, <1>2, <1>7, <1>8, <1>9, <1>10 DEF Page, Typed

\* A composer opened goes on top, with a number of its own.
LEMMA OpenIs ==
    ASSUME Typed, Named, NEW draft \in Nat, draft = 0 \/ draft \in DOMAIN mail,
           NEW reply \in BOOLEAN, Open(draft, reply)
    PROVE  /\ composers' \in Seq(ComposerRecs) /\ opened' = opened + 1
           /\ \A i \in DOMAIN composers' :
                 \/ i \in DOMAIN composers /\ composers'[i] = composers[i]
                 \/ /\ i = Len(composers) + 1 /\ composers'[i].n = opened + 1
                    /\ composers'[i].draft = 0 \/ composers'[i].draft \in DOMAIN mail
<1>1. composers \in Seq(ComposerRecs) /\ opened \in Nat
  BY DEF Typed
<1>2. PICK m : m = [n |-> opened + 1, draft |-> draft, reply |-> reply, sending |-> FALSE]
  OBVIOUS
<1>3. m \in ComposerRecs /\ m.n = opened + 1 /\ m.draft = draft
  BY <1>1, <1>2 DEF ComposerRecs
<1>4. composers' = Append(composers, m) /\ opened' = opened + 1
  BY <1>2 DEF Open
<1>5. /\ composers' \in Seq(ComposerRecs) /\ DOMAIN composers' = 1 .. Len(composers) + 1
      /\ composers'[Len(composers) + 1] = m /\ DOMAIN composers = 1 .. Len(composers)
      /\ \A i \in DOMAIN composers : composers'[i] = composers[i]
  BY <1>1, <1>3, <1>4
<1>6. \A i \in DOMAIN composers' : i \in DOMAIN composers \/ i = Len(composers) + 1
  BY <1>5
<1>7. QED
  BY <1>3, <1>4, <1>5, <1>6

\* A composer that loads touches the screen alone.
LEMMA ComposeLoadedPages ==
    ASSUME IInv, ComposeLoaded
    PROVE  Page
<1>0. Typed /\ Named
  BY DEF IInv
<1>1. PICK load \in loads :
        /\ loads' = loads \ {load}
        /\ IF load.seq = seq THEN Open(load.draft, load.draft = 0)
           ELSE UNCHANGED <<composers, opened>>
        /\ UNCHANGED <<setting, texts, provider, index, rows, calls, seq, crossed, answered,
                       deleted, left>>
  BY DEF ComposeLoaded
<1>2. PICK d, e : d = load.draft /\ e = (load.draft = 0)
  OBVIOUS
<1>3. d \in Nat /\ (d = 0 \/ d \in DOMAIN mail) /\ e \in BOOLEAN
  BY <1>0, <1>1, <1>2 DEF Typed, Named, MailAt
<1>4. /\ loads' \subseteq [seq : Nat, draft : Nat] /\ index' \subseteq DOMAIN mail
      /\ \A l \in loads' : l.draft = 0 \/ l.draft \in DOMAIN mail
      /\ seq' \in Nat /\ opened \in Nat /\ composers \in Seq(ComposerRecs)
  BY <1>0, <1>1 DEF Typed, Named, MailAt
<1>5. CASE load.seq = seq
  <2>1. Open(d, e)
    BY <1>1, <1>2, <1>5
  <2>2. /\ composers' \in Seq(ComposerRecs) /\ opened' = opened + 1
        /\ \A i \in DOMAIN composers' :
              \/ i \in DOMAIN composers /\ composers'[i] = composers[i]
              \/ /\ i = Len(composers) + 1 /\ composers'[i].n = opened + 1
                 /\ composers'[i].draft = 0 \/ composers'[i].draft \in DOMAIN mail
    BY <1>0, <1>3, <2>1, OpenIs
  <2>3. opened' \in Nat /\ opened <= opened'
    BY <1>4, <2>2
  <2>4. QED
    BY <1>1, <1>4, <2>2, <2>3 DEF Page
<1>6. CASE load.seq # seq
  <2>1. UNCHANGED <<composers, opened>>
    BY <1>1, <1>6
  <2>2. QED
    BY <1>1, <1>4, <2>1 DEF Page
<1>7. QED
  BY <1>5, <1>6

\* An empty composer touches the screen alone.
LEMMA BlankPages ==
    ASSUME IInv, Blank
    PROVE  Page
<1>0. Typed /\ Named
  BY DEF IInv
<1>1. Open(0, FALSE) /\ 0 \in Nat /\ FALSE \in BOOLEAN
  BY DEF Blank
<1>2. /\ composers' \in Seq(ComposerRecs) /\ opened' = opened + 1
      /\ \A i \in DOMAIN composers' :
            \/ i \in DOMAIN composers /\ composers'[i] = composers[i]
            \/ /\ i = Len(composers) + 1 /\ composers'[i].n = opened + 1
               /\ composers'[i].draft = 0 \/ composers'[i].draft \in DOMAIN mail
  BY <1>0, <1>1, OpenIs
<1>3. /\ UNCHANGED <<setting, texts, provider, rows, calls, crossed, answered, deleted>>
      /\ UNCHANGED <<index, loads, seq>>
  BY DEF Blank
<1>4. opened' \in Nat /\ opened <= opened'
  BY <1>0, <1>2 DEF Typed
<1>5. QED
  BY <1>0, <1>2, <1>3, <1>4 DEF Page, Typed, Named, MailAt

\* Leaving a composer touches the screen alone.
LEMMA CancelPages ==
    ASSUME IInv, Cancel
    PROVE  Page
<1>0. Typed /\ Named
  BY DEF IInv
<1>1. Composing /\ composers' = Front(composers)
  BY DEF Cancel
<1>2. /\ composers' \in Seq(ComposerRecs)
      /\ \A i \in DOMAIN composers' : i \in DOMAIN composers /\ composers'[i] = composers[i]
  BY <1>0, <1>1, FrontIs
<1>3. /\ UNCHANGED <<setting, texts, provider, rows, calls, crossed, answered, deleted>>
      /\ UNCHANGED <<index, loads, seq, opened>>
  BY DEF Cancel
<1>4. opened \in Nat /\ opened <= opened
  BY <1>0 DEF Typed
<1>5. QED
  BY <1>0, <1>2, <1>3, <1>4 DEF Page, Typed, Named, MailAt

\* A read of the account touches the index alone.
LEMMA SyncPages ==
    ASSUME IInv, Sync
    PROVE  Page
<1>0. Typed /\ Named
  BY DEF IInv
<1>1. UNCHANGED <<setting, texts, provider, rows, calls, screen, answered, deleted>>
  BY DEF Sync
<1>2. index' \subseteq DOMAIN mail
  BY DEF Sync, Drafts
<1>3. opened \in Nat /\ opened <= opened
  BY <1>0 DEF Typed
<1>4. QED
  BY <1>0, <1>1, <1>2, <1>3 DEF Page, Typed, Named, MailAt, screen

\* It keeps the invariant.
LEMMA PageKept ==
    ASSUME IInv, Page
    PROVE  IInv'
<1>0. /\ Typed /\ Named /\ Held /\ OnPath /\ Errors /\ Sends /\ Carried /\ Bare
      /\ Progress /\ Thrown /\ Ordered /\ Guarded /\ Asked
  BY DEF IInv
<1>1. /\ setting' = setting /\ texts' = texts /\ mail' = mail /\ delivered' = delivered
      /\ rows' = rows /\ calls' = calls /\ crossed' = crossed /\ answered' = answered
      /\ deleted' = deleted
  BY DEF Page, provider
<1>2. Typed'
  BY <1>0, <1>1 DEF Typed, Page
<1>3. Named'
  BY <1>0, <1>1 DEF Named, Page, TextAt, MailAt, RowFits, CallFits
<1>4. Held'
  BY <1>0, <1>1 DEF Held
<1>5. OnPath'
  BY <1>0, <1>1 DEF OnPath, Path
<1>6. Errors'
  BY <1>0, <1>1 DEF Errors
<1>7. Sends'
  BY <1>0, <1>1 DEF Sends, Paid, Unsent
<1>8. Carried' /\ Bare'
  BY <1>0, <1>1 DEF Carried, OfRow, Bare, Reached, Visible, Envelope, Headers
<1>9. Progress'
  BY <1>0, <1>1 DEF Progress, Achieved, Went, Stands, Placed
<1>10. Thrown'
  BY <1>0, <1>1 DEF Thrown, Replaced, Copied, Source
<1>a. opened \in Nat /\ opened' \in Nat /\ opened <= opened' /\ composers \in Seq(ComposerRecs)
  BY <1>0 DEF Typed, Page
<1>b. \A n \in 0 .. opened : n # opened + 1
  BY <1>a
<1>c. Len(composers) + 1 \notin DOMAIN composers
  BY <1>a
<1>11. Ordered'
  <2>1. \A i \in DOMAIN composers' : composers'[i].n \in 1 .. opened'
    BY <1>0, <1>a DEF Ordered, Page
  <2>2. \A i, j \in DOMAIN composers' : i # j => composers'[i].n # composers'[j].n
    BY <1>0, <1>a, <1>b, <1>c DEF Ordered, Page
  <2>3. 0 .. opened \subseteq 0 .. opened'
    BY <1>a
  <2>4. QED
    BY <1>0, <1>1, <2>1, <2>2, <2>3 DEF Ordered
<1>12. Guarded'
  <2>1. ASSUME NEW i \in DOMAIN composers', Own(composers'[i].n), ~composers'[i].sending
        PROVE  /\ \A c \in Callers : calls[c].by # composers'[i].n
               /\ \A r \in DOMAIN rows : (rows[r].by = composers'[i].n /\ rows[r].kind = "send")
                     => rows[r].told \in Bad
    <3>1. CASE i \in DOMAIN composers /\ composers'[i] = composers[i]
      BY <1>0, <2>1, <3>1 DEF Guarded
    <3>2. CASE composers'[i].n = opened + 1
      BY <1>0, <1>b, <3>2 DEF Ordered
    <3>3. QED
      BY <3>1, <3>2 DEF Page
  <2>2. QED
    BY <1>0, <1>1, <2>1 DEF Guarded, Own, Heard
<1>13. Asked'
  BY <1>0, <1>1 DEF Asked, Own
<1>14. QED
  BY <1>2, <1>3, <1>4, <1>5, <1>6, <1>7, <1>8, <1>9, <1>10, <1>11, <1>12, <1>13 DEF IInv


-----------------------------------------------------------------------------
(* What one invariant says of a record that a step does not touch.         *)

\* What a call placed on the server stays placed.
LEMMA PlacedStays ==
    ASSUME Past, NEW call, call.row \in DOMAIN rows, call.id = 0 \/ call.id \in DOMAIN mail,
           Placed(call)
    PROVE  Placed(call)'
BY WentStays DEF Past, Placed

\* A call that fits the mail there is fits whatever is added to it.
LEMMA CallFitsStays ==
    ASSUME Past, NEW call, CallFits(call)
    PROVE  CallFits(call)'
BY DEF Past, CallFits, MailAt

\* What is known of any call.
LEMMA CallKnown ==
    ASSUME Typed, Named, NEW c \in Callers, calls[c] # NoCall
    PROVE  /\ calls[c] \in CallRecs /\ calls[c].stage # ""
           /\ calls[c].row \in DOMAIN rows /\ rows[calls[c].row] \in RowRecs
           /\ RowFits(rows[calls[c].row])
           /\ calls[c].id = 0 \/ calls[c].id \in DOMAIN mail
           /\ calls[c].replaces = 0 \/ calls[c].replaces \in DOMAIN mail
<1>1. /\ calls[c].row \in DOMAIN rows /\ calls[c] \in CallRecs /\ calls[c].stage # ""
      /\ calls[c].id = 0 \/ calls[c].id \in DOMAIN mail
      /\ calls[c].replaces = 0 \/ calls[c].replaces \in DOMAIN mail
  BY DEF Typed, Named, CallFits, MailAt
<1>2. RowFits(rows[calls[c].row])
  BY <1>1 DEF Named
<1>3. rows[calls[c].row] \in RowRecs
  <2>1. calls[c].row \in DOMAIN rows /\ rows \in Seq(RowRecs)
    BY <1>1 DEF Typed
  <2>2. QED
    BY ONLY <2>1
<1>4. QED
  BY <1>1, <1>2, <1>3

\* A composer is guarded while the screen stands, no call is asked for, and
\* what is heard of a row stays heard.
LEMMA GuardedStays ==
    ASSUME Guarded, UNCHANGED <<composers, crossed>>, DOMAIN rows' = DOMAIN rows,
           \A r \in DOMAIN rows : /\ rows'[r].by = rows[r].by /\ rows'[r].kind = rows[r].kind
                                  /\ rows[r].told \in Bad => rows'[r].told \in Bad,
           \A c \in Callers :
              \/ calls'[c].by = 0
              \/ /\ calls'[c].by = calls[c].by
                 /\ \A r \in DOMAIN rows : Heard(r, rows[r].told, calls[c])
                       => Heard(r, rows'[r].told, calls'[c])
    PROVE  Guarded'
<1>1. ASSUME NEW i \in DOMAIN composers, Own(composers[i].n), ~composers[i].sending
      PROVE  /\ \A c \in Callers : calls'[c].by # composers[i].n
             /\ \A r \in DOMAIN rows : (rows'[r].by = composers[i].n /\ rows'[r].kind = "send")
                   => rows'[r].told \in Bad
  BY <1>1 DEF Guarded, Own
<1>2. ASSUME NEW c \in Callers, NEW d \in Callers, Own(calls'[c].by), calls'[d].by = calls'[c].by
      PROVE  c = d
  BY <1>2 DEF Guarded, Own
<1>3. ASSUME NEW c \in Callers, NEW r \in DOMAIN rows, Own(calls'[c].by),
             rows'[r].by = calls'[c].by, rows'[r].kind = "send"
      PROVE  Heard(r, rows'[r].told, calls'[c])
  <2>1. calls'[c].by = calls[c].by
    BY <1>3 DEF Own
  <2>2. Heard(r, rows[r].told, calls[c])
    BY <1>3, <2>1 DEF Guarded
  <2>3. QED
    BY <1>3, <2>2 DEF Own
<1>4. QED
  BY <1>1, <1>2, <1>3 DEF Guarded, Own

\* Rows that keep their composer, and failures that stay failures, keep every composer to one send.
LEMMA AskedStays ==
    ASSUME Asked, crossed \subseteq crossed', DOMAIN rows' = DOMAIN rows,
           \A r \in DOMAIN rows : /\ rows'[r].by = rows[r].by /\ rows'[r].kind = rows[r].kind
                                  /\ rows[r].told \in Bad => rows'[r].told \in Bad
    PROVE  Asked'
BY DEF Asked, Own

-----------------------------------------------------------------------------
(* A step of a push keeps the invariant.                                   *)

\* It leaves what it should as it was, and adds at most one delivery.
LEMMA PushPast ==
    ASSUME IInv, NEW c \in Callers, Push(c)
    PROVE  /\ Past /\ Typed' /\ DOMAIN rows' = DOMAIN rows
           /\ \A r \in DOMAIN rows :
                 Count(delivered', r) = IF r = calls[c].row /\ delivered' = Deliver(r)
                                        THEN Count(delivered, r) + 1 ELSE Count(delivered, r)
           /\ \/ UNCHANGED delivered
              \/ /\ delivered' = Deliver(calls[c].row) /\ (\E k \in DOMAIN delivered' : delivered'[k].row = calls[c].row)
                 /\ calls[c].stage \in {"submit", "send", "data"}
                 /\ \A k \in DOMAIN delivered' : \/ k \in DOMAIN delivered
                                                   /\ delivered'[k] = delivered[k]
                                                 \/ OfRow(delivered'[k])
<1> DEFINE call == calls[c]
           new == calls[c].row
<1>0. Typed /\ Named
  BY DEF IInv
<1>1. call.stage \in Pushing /\ (Effect(call) \/ UNCHANGED provider) /\ RowsStand
  BY DEF Push
<1>2. /\ call \in CallRecs /\ new \in DOMAIN rows
      /\ call.id = 0 \/ MailAt(call.id)
      /\ call.stage \in {"adopt", "submit"} => call.id # 0
      /\ call.stage = "set" => rows[new].kind = "trash"
  BY <1>1, PushReady
<1>3. /\ mail' \in Seq(MailRecs) /\ delivered' \in Seq(DeliveryRecs)
      /\ \A i \in DOMAIN mail : i \in DOMAIN mail' /\ mail'[i].text = mail[i].text
  BY <1>0, <1>1, <1>2, EffectFrame
<1>4. PICK z \in CallRecs : calls' = [calls EXCEPT ![c] = z]
  BY DEF Push, Keeps
<1>5. /\ setting' = setting /\ texts' = texts /\ index' = index /\ deleted' = deleted
      /\ UNCHANGED screen
  BY DEF Push
<1>6. Typed'
  <2>1. calls' \in [Callers -> CallRecs]
    BY <1>0, <1>4 DEF Typed
  <2>2. rows' \in Seq(RowRecs)
    BY <1>1 DEF RowsStand
  <2>3. index' \subseteq DOMAIN mail'
    BY <1>0, <1>3, <1>5 DEF Typed
  <2>4. QED
    BY <1>0, <1>3, <1>5, <2>1, <2>2, <2>3 DEF Typed, screen
<1>7. delivered \in Seq(DeliveryRecs)
  BY <1>0 DEF Typed
<1>8. \/ UNCHANGED delivered
      \/ call.stage \in {"submit", "send", "data"} /\ delivered' = Deliver(new)
  BY <1>1, DeliveryForm
<1>9. /\ Len(Deliver(new)) = Len(delivered) + 1
      /\ \A k \in DOMAIN delivered : k \in DOMAIN Deliver(new) /\ Deliver(new)[k] = delivered[k]
  BY <1>0, <1>2, DeliverTyped
<1>10. PICK e \in DeliveryRecs :
         /\ Deliver(new) = Append(delivered, e) /\ e.row = new /\ e.text = rows[new].text
         /\ e.to = Reached(rows[new]) /\ e.seen = Visible(rows[new])
  BY <1>0, <1>2, DeliverTyped
<1>11. OfRow(e)
  BY <1>2, <1>10 DEF OfRow
<1>12. /\ Len(delivered) + 1 \in DOMAIN Append(delivered, e)
       /\ \A k \in DOMAIN Append(delivered, e) :
             \/ k \in DOMAIN delivered /\ Append(delivered, e)[k] = delivered[k]
             \/ Append(delivered, e)[k] = e
       /\ Append(delivered, e)[Len(delivered) + 1] = e
  BY <1>7
<1>13. Past
  <2>1. \A k \in DOMAIN delivered : k \in DOMAIN delivered' /\ delivered'[k] = delivered[k]
    BY <1>8, <1>9
  <2>2. QED
    BY <1>1, <1>3, <1>5, <2>1 DEF Past, RowsStand
<1>14. DOMAIN rows' = DOMAIN rows
  BY <1>1 DEF RowsStand
<1>15. CASE UNCHANGED delivered
  <2>1. delivered' # Deliver(new)
    <3>1. Len(delivered) \in Nat /\ Len(delivered) # Len(delivered) + 1
      BY <1>7
    <3>2. QED
      BY <1>9, <1>15, <3>1
  <2>2. QED
    BY <1>6, <1>13, <1>14, <1>15, <2>1
<1>16. CASE call.stage \in {"submit", "send", "data"} /\ delivered' = Deliver(new)
  <2>1. \A r : Count(delivered', r) = IF r = new THEN Count(delivered, r) + 1
                                      ELSE Count(delivered, r)
    BY <1>7, <1>10, <1>16, CountAppend
  <2>2. \A r \in DOMAIN rows :
                 Count(delivered', r) = IF r = new /\ delivered' = Deliver(r)
                                        THEN Count(delivered, r) + 1 ELSE Count(delivered, r)
    BY <1>16, <2>1
  <2>3. \E k \in DOMAIN delivered' : delivered'[k].row = new
    BY <1>10, <1>12, <1>16
  <2>4. \A k \in DOMAIN delivered' :
           (k \in DOMAIN delivered /\ delivered'[k] = delivered[k]) \/ OfRow(delivered'[k])
    BY <1>10, <1>11, <1>12, <1>16
  <2>5. QED
    BY <1>6, <1>13, <1>14, <1>16, <2>2, <2>3, <2>4
<1>17. QED
  BY <1>8, <1>15, <1>16


\* A step towards the server keeps the invariant.
LEMMA PushKept ==
    ASSUME IInv, NEW c \in Callers, Push(c)
    PROVE  IInv'
<1> DEFINE call == calls[c]
           new == calls[c].row
<1>0. /\ Typed /\ Named /\ Held /\ OnPath /\ Errors /\ Sends /\ Carried /\ Bare
      /\ Progress /\ Thrown /\ Ordered /\ Guarded /\ Asked
  BY DEF IInv
<1>1. call.stage \in Pushing /\ (Effect(call) \/ UNCHANGED provider) /\ RowsStand
  BY DEF Push
<1>2. /\ call \in CallRecs /\ new \in DOMAIN rows /\ rows[new] \in RowRecs
      /\ call.id = 0 \/ MailAt(call.id)
      /\ call.stage \in Path(rows[new].kind)
      /\ call.stage \in {"adopt", "submit"} => call.id # 0
      /\ call.stage = "set" => rows[new].kind = "trash"
  BY <1>1, PushReady
<1>3. PICK z : /\ Keeps(call, z) /\ Pushed(call, z)
               /\ z.dead => c # 0 \/ calls[c].dead
               /\ calls' = [calls EXCEPT ![c] = z]
  BY DEF Push
<1>4. /\ calls \in [Callers -> CallRecs] /\ calls'[c] = z
      /\ \A d \in Callers : d # c => calls'[d] = calls[d]
  BY <1>0, <1>3 DEF Typed
<1>5. /\ z \in CallRecs /\ Active(z) /\ z.row = new /\ z.replaces = call.replaces
      /\ z.reply = call.reply /\ z.by = call.by /\ z.say = call.say
      /\ z.stage \in Path(rows[new].kind) /\ (z.stage \in Pushing => z.err = "")
      /\ z.err = "expired" => z.dead
  BY <1>3 DEF Keeps
<1>6. /\ Past /\ Typed' /\ DOMAIN rows' = DOMAIN rows
  BY PushPast
<1>7. \A r \in DOMAIN rows :
         Count(delivered', r) = IF r = new /\ delivered' = Deliver(r)
                                THEN Count(delivered, r) + 1 ELSE Count(delivered, r)
  BY PushPast
<1>8. \/ UNCHANGED delivered
      \/ /\ delivered' = Deliver(new) /\ (\E k \in DOMAIN delivered' : delivered'[k].row = new)
         /\ call.stage \in {"submit", "send", "data"}
         /\ \A k \in DOMAIN delivered' : \/ k \in DOMAIN delivered
                                           /\ delivered'[k] = delivered[k]
                                         \/ OfRow(delivered'[k])
  BY PushPast
<1>9. /\ setting' = setting /\ texts' = texts /\ index' = index /\ deleted' = deleted
      /\ answered' = answered /\ composers' = composers /\ opened' = opened /\ loads' = loads
      /\ seq' = seq /\ crossed' = crossed
  BY DEF Push, screen
<1>10. \A r \in DOMAIN rows :
          /\ rows'[r].kind = rows[r].kind /\ rows'[r].text = rows[r].text
          /\ rows'[r].env = rows[r].env /\ rows'[r].id = rows[r].id
          /\ rows'[r].by = rows[r].by /\ rows'[r].state = rows[r].state
          /\ rows'[r].held = rows[r].held /\ rows'[r].told = rows[r].told
          /\ rows'[r].cut = rows[r].cut
  BY <1>1 DEF RowsStand
<1>11. Active(call) /\ call # NoCall /\ ~(call.stage \in {"follow", "report"})
  BY <1>1, NoCallTyped DEF Active, Pushing
<1>12. /\ call.stage \in {"submit", "send", "data"} => rows[new].kind = "send"
       /\ call.stage = "file" => setting.backend = "imap" /\ rows[new].kind = "send"
  BY <1>0, <1>2, PathFacts DEF RowRecs
<1>13. rows[new].held /\ rows[new].state = "pending"
  BY <1>0, <1>11 DEF Held, Owns
<1>14. /\ \A i \in DOMAIN mail : i \in DOMAIN mail' /\ mail'[i].text = mail[i].text
       /\ \A i \in DOMAIN mail' : i \notin DOMAIN mail =>
             mail'[i].text = rows[new].text /\ mail'[i].box # "trash"
       /\ \A i \in DOMAIN mail : mail'[i].box = "trash" =>
             \/ mail[i].box = "trash"
             \/ call.stage = "set" /\ i = rows[new].id
  BY <1>0, <1>1, <1>2, EffectFrame
<1>15. \A r \in DOMAIN rows : Count(delivered, r) \in Nat /\ rows[r].cut \in Nat
  <2>1. delivered \in Seq(DeliveryRecs) /\ \A r \in DOMAIN rows : rows[r] \in RowRecs
    BY <1>0 DEF Typed
  <2>2. QED
    BY <2>1, CountType DEF RowRecs
<1>20. Named'
  <2>1. \A i \in DOMAIN mail' : mail'[i].text \in DOMAIN texts'
    BY <1>0, <1>2, <1>9, <1>14 DEF Named, TextAt, RowFits
  <2>2. \A r \in DOMAIN rows' : RowFits(rows'[r])
    BY <1>0, <1>6, <1>10 DEF Named, RowFits
  <2>3. \A r \in DOMAIN rows' : RowFits(rows[r])'
    BY <1>9, <1>14, <2>2 DEF RowFits, TextAt, MailAt
  <2>4. /\ z.stage # "" /\ z.row \in DOMAIN rows' /\ (z.id = 0 \/ z.id \in DOMAIN mail')
        /\ z.replaces = 0 \/ z.replaces \in DOMAIN mail'
    <3>1. call.replaces = 0 \/ call.replaces \in DOMAIN mail
      BY <1>0, <1>11, CallKnown
    <3>2. QED
      BY <1>2, <1>3, <1>5, <1>6, <1>14, <3>1 DEF Pushed, Active, Pushing
  <2>5. \A d \in Callers : CallFits(calls[d])'
    <3>1. CallFits(calls[c])'
      BY <1>4, <2>4 DEF CallFits, MailAt
    <3>2. ASSUME NEW d \in Callers, d # c PROVE CallFits(calls[d])'
      BY <1>0, <1>4, <1>6, <1>14, <3>2 DEF Named, CallFits, MailAt
    <3>3. QED
      BY <3>1, <3>2
  <2>6. QED
    BY <1>0, <1>9, <1>14, <2>1, <2>3, <2>5 DEF Named, MailAt, TextAt
<1>21. Held'
  <2>1. Replays(calls'[0])
    <3>1. CASE c = 0
      BY <1>0, <1>3, <1>4, <1>5, <3>1 DEF Held, Replays, Active
    <3>2. CASE c # 0
      BY <1>0, <1>4, <3>2 DEF Held, Callers
    <3>3. QED
      BY <3>1, <3>2
  <2>2. ASSUME NEW d \in Callers, Active(calls'[d])
        PROVE  /\ calls'[d].row = calls[d].row /\ calls'[d].by = calls[d].by /\ Active(calls[d])
               /\ calls[d].row \in DOMAIN rows
    <3>1. CASE d = c
      BY <1>2, <1>4, <1>5, <1>11, <3>1
    <3>2. CASE d # c
      BY <1>0, <1>4, <2>2, <3>2, NoCallTyped, CallKnown
    <3>3. QED
      BY <3>1, <3>2
  <2>3. ASSUME NEW d \in Callers, Active(calls'[d])
        PROVE  /\ Owns(calls'[d], rows'[calls'[d].row])
               /\ d # 0 => Asks(calls'[d], rows'[calls'[d].row])
    <3>1. PICK r \in DOMAIN rows : r = calls[d].row
      BY <2>2, <2>3
    <3>2. /\ rows[r].held /\ rows[r].state = "pending"
          /\ d # 0 => rows[r].told = "" /\ rows[r].cut = 0 /\ rows[r].by = calls[d].by
      BY <1>0, <2>2, <2>3, <3>1 DEF Held, Owns, Asks
    <3>3. /\ rows'[r].held /\ rows'[r].state = "pending"
          /\ d # 0 => rows'[r].told = "" /\ rows'[r].cut = 0 /\ rows'[r].by = calls[d].by
      BY <1>10, <3>2
    <3>4. calls'[d].row = r /\ calls'[d].by = calls[d].by
      BY <2>2, <2>3, <3>1
    <3>5. QED
      BY <3>3, <3>4 DEF Owns, Asks
  <2>4. QED
    BY <1>0, <2>1, <2>2, <2>3 DEF Held
<1>22. OnPath'
  <2>1. ASSUME NEW d \in Callers, Active(calls'[d])
        PROVE  calls'[d].stage \in Path(rows'[calls'[d].row].kind)
    <3>1. CASE d = c
      BY <1>2, <1>4, <1>5, <1>10, <3>1
    <3>2. CASE d # c
      <4>1. calls'[d] = calls[d] /\ calls[d] # NoCall /\ Active(calls[d])
        BY <1>4, <2>1, <3>2, NoCallTyped
      <4>2. PICK r \in DOMAIN rows : r = calls[d].row
        BY <1>0, <4>1, CallKnown
      <4>3. calls[d].stage \in Path(rows[r].kind) /\ rows'[r].kind = rows[r].kind
        BY <1>0, <1>10, <4>1, <4>2 DEF OnPath
      <4>4. QED
        BY <4>1, <4>2, <4>3
    <3>3. QED
      BY <3>1, <3>2
  <2>2. \A kind : Path(kind)' = Path(kind)
    BY <1>9 DEF Path
  <2>3. QED
    BY <2>1, <2>2 DEF OnPath
<1>23. Errors'
  <2>1. /\ z.stage \notin {"follow", "report"}
        /\ z.say = "" \/ (z.say = "done" /\ rows'[new].kind = "trash")
    BY <1>0, <1>2, <1>5, <1>10, <1>11 DEF Errors, Active, Pushing
  <2>2. ASSUME NEW d \in Callers
        PROVE  /\ calls'[d].stage \in Pushing => calls'[d].err = ""
               /\ calls'[d].err = "expired" => calls'[d].dead
               /\ calls'[d].stage \in {"follow", "report"} =>
                     calls'[d].say \in {"done", "queued"} \cup Bad
               /\ calls'[d].stage = "follow" => calls'[d].say = "done" /\ ~calls'[d].dead
               /\ Active(calls'[d]) =>
                     \/ calls'[d].say = ""
                     \/ calls'[d].say = "done" /\ rows'[calls'[d].row].kind = "trash"
    <3>1. CASE d = c
      BY <1>4, <1>5, <2>1, <3>1
    <3>2. CASE d # c
      <4>1. calls'[d] = calls[d]
        BY <1>4, <3>2
      <4>2. Active(calls[d]) => rows'[calls[d].row].kind = rows[calls[d].row].kind
        <5>1. Active(calls[d]) => calls[d].row \in DOMAIN rows
          BY <1>0, NoCallTyped, CallKnown
        <5>2. QED
          BY <1>10, <5>1
      <4>3. QED
        BY <1>0, <4>1, <4>2 DEF Errors
    <3>3. QED
      BY <3>1, <3>2
  <2>3. QED
    BY <2>2 DEF Errors

<1>24. Sends'
  <2>1. ASSUME NEW r \in DOMAIN rows
        PROVE  /\ Paid(r)'
               /\ rows[r].kind # "send" => Count(delivered', r) = 0
               /\ (rows[r].state = "pending" /\ ~rows[r].held) => Unsent(r)'
               /\ rows[r].told = "refused" =>
                     Count(delivered', r) = 0 /\ ~rows[r].held /\ rows[r].state = "failed"
    <3>1. CASE Count(delivered', r) = Count(delivered, r)
      BY <1>0, <1>10, <3>1 DEF Sends, Paid, Unsent
    <3>2. CASE Count(delivered', r) # Count(delivered, r)
      <4>1. /\ r = new /\ call.stage \in {"submit", "send", "data"}
            /\ Count(delivered', r) = Count(delivered, r) + 1
        BY <1>7, <1>8, <3>2
      <4>2. Count(delivered, r) <= rows[r].cut
        BY <1>0, <4>1 DEF Sends, Unsent, Pushing
      <4>3. Count(delivered', r) <= 1 + rows[r].cut
        BY <1>15, <4>1, <4>2
      <4>4. rows[r].told # "refused"
        BY <1>0, <1>13, <4>1 DEF Sends
      <4>5. QED
        BY <1>10, <1>12, <1>13, <4>1, <4>3, <4>4 DEF Paid
    <3>3. QED
      BY <3>1, <3>2
  <2>2. ASSUME NEW d \in Callers,
               \/ calls'[d].stage \in Pushing \ {"file"}
               \/ calls'[d].stage = "record" /\ calls'[d].err \in {"refused", "unsent"}
        PROVE  Count(delivered', calls'[d].row) <= rows'[calls'[d].row].cut
    <3>1. CASE d = c
      <4>1. call.stage # "file" /\ UNCHANGED delivered
        BY <1>3, <1>4, <2>2, <3>1 DEF Pushed
      <4>2. Unsent(new)
        BY <1>0, <1>1, <4>1 DEF Sends
      <4>3. QED
        BY <1>2, <1>4, <1>5, <1>10, <3>1, <4>1, <4>2 DEF Unsent
    <3>2. CASE d # c
      <4>1. Active(calls[d]) /\ calls'[d] = calls[d]
        BY <1>4, <2>2, <3>2 DEF Active
      <4>2. calls[d].row # new /\ calls[d].row \in DOMAIN rows
        BY <1>0, <1>11, <3>2, <4>1, NoCallTyped, CallKnown DEF Held
      <4>3. Unsent(calls[d].row)
        BY <1>0, <2>2, <4>1 DEF Sends
      <4>4. QED
        BY <1>7, <1>10, <4>1, <4>2, <4>3 DEF Unsent
    <3>3. QED
      BY <3>1, <3>2
  <2>3. QED
    BY <1>6, <1>10, <2>1, <2>2 DEF Sends, Unsent
<1>25. Carried'
  <2>1. ASSUME NEW k \in DOMAIN delivered' PROVE OfRow(delivered'[k])
    BY <1>0, <1>8, <2>1 DEF Carried
  <2>2. ASSUME NEW k \in DOMAIN delivered'
        PROVE  /\ delivered'[k].row \in DOMAIN rows'
               /\ delivered'[k].text = rows'[delivered'[k].row].text
               /\ delivered'[k].to = Reached(rows[delivered'[k].row])
               /\ delivered'[k].seen = Visible(rows[delivered'[k].row])
    BY <1>6, <1>10, <2>1 DEF OfRow
  <2>3. ASSUME NEW r \in DOMAIN rows
        PROVE  Reached(rows[r])' = Reached(rows[r]) /\ Visible(rows[r])' = Visible(rows[r])
    BY <1>9, <1>10 DEF Reached, Visible, Envelope, Headers
  <2>4. \A k \in DOMAIN delivered' : delivered'[k].row \in DOMAIN rows
    BY <2>1 DEF OfRow
  <2>5. QED
    <3>1. ASSUME NEW k \in DOMAIN delivered' PROVE OfRow(delivered[k])'
      <4>1. PICK r \in DOMAIN rows : r = delivered'[k].row
        BY <2>4
      <4>2. Reached(rows[r])' = Reached(rows[r]) /\ Visible(rows[r])' = Visible(rows[r])
        BY <2>3
      <4>3. QED
        BY <2>2, <4>1, <4>2 DEF OfRow, Reached, Visible
    <3>2. QED
      BY <3>1 DEF Carried
<1>26. Bare'
  BY <1>0, <1>6, BareStays

<1>27. Progress'
  <2>1. \A r \in DOMAIN rows' : rows'[r].told = "done" => Achieved(r)'
    BY <1>0, <1>6, <1>10, AchievedStays DEF Progress
  <2>2. \A text \in answered' : \E k \in DOMAIN delivered' : delivered'[k].text = text
    <3>1. AnswersGrow
      BY <1>9 DEF AnswersGrow
    <3>2. QED
      BY <1>0, <1>6, <3>1, AnswersStay
  <2>3. call.stage = "file" => Went(new)
    BY <1>0 DEF Progress
  <2>4. PICK p : p = new
    OBVIOUS
  <2>5. (call.stage = "file" \/ delivered' = Deliver(new)) => Went(p)'
    <3>1. Went(p) => Went(p)'
      BY <1>6, WentStays
    <3>2. delivered' = Deliver(new) => \E k \in DOMAIN delivered' : delivered'[k].row = new
      <4>1. delivered \in Seq(DeliveryRecs)
        BY <1>0 DEF Typed
      <4>2. Len(delivered) # Len(delivered) + 1
        BY <4>1
      <4>3. Len(Deliver(new)) = Len(delivered) + 1
        BY <1>0, <1>2, DeliverTyped
      <4>4. delivered' = Deliver(new) => ~UNCHANGED delivered
        BY <4>2, <4>3
      <4>5. QED
        BY <1>8, <4>4
    <3>3. (\E k \in DOMAIN delivered' : delivered'[k].row = p) => Went(p)'
      BY DEF Went
    <3>4. QED
      BY <2>3, <2>4, <3>1, <3>2, <3>3
  <2>6. Went(p)' <=> \E k \in DOMAIN delivered' : delivered'[k].row = p
    BY DEF Went
  <2>7. z.row = p /\ rows'[p].text = rows[p].text /\ rows'[p].kind = rows[p].kind
    BY <1>2, <1>5, <1>10, <2>4
  <2>8. /\ z.stage = "file" => Went(p)'
        /\ z.stage \in {"adopt", "submit"} => z.id # 0 /\ mail'[z.id].text = rows'[p].text
        /\ Succeeded(z) => /\ rows[p].kind = "send" => Went(p)'
                           /\ rows[p].kind # "trash" =>
                                IF z.id # 0 THEN mail'[z.id].text = rows'[p].text
                                ELSE setting'.backend = "imap" /\ Went(p)' /\ rows[p].kind = "send"
    BY <1>3, <1>9, <1>12, <2>4, <2>5, <2>7 DEF Pushed
  <2>9. /\ calls'[c].stage = "file" => Went(calls[c].row)'
        /\ calls'[c].stage \in {"adopt", "submit"} => calls'[c].id # 0 /\ Placed(calls[c])'
        /\ Succeeded(calls'[c]) => Achieved(calls[c].row)'
        /\ (Succeeded(calls'[c]) /\ rows'[calls'[c].row].kind # "trash") => Placed(calls[c])'
        /\ calls'[c].stage # "follow"
        /\ calls'[c].reply /\ calls'[c].stage # "report" => rows'[calls'[c].row].kind = "send"
    <3>1. calls'[c].stage = "file" => Went(calls[c].row)'
      BY <1>4, <2>6, <2>7, <2>8 DEF Went
    <3>2. calls'[c].stage \in {"adopt", "submit"} => calls'[c].id # 0 /\ Placed(calls[c])'
      BY <1>4, <2>7, <2>8 DEF Placed
    <3>3. (Succeeded(calls'[c]) /\ rows'[calls'[c].row].kind # "trash") => Placed(calls[c])'
      BY <1>4, <2>6, <2>7, <2>8 DEF Placed, Went
    <3>4. Succeeded(calls'[c]) => Achieved(calls[c].row)'
      <4>1. CASE rows[p].kind = "send"
        BY <1>4, <2>6, <2>7, <2>8, <4>1 DEF Achieved, Went
      <4>2. CASE rows[p].kind = "draft"
        <5>1. Succeeded(z) => z.id # 0 /\ mail'[z.id].text = rows'[p].text
          BY <2>8, <4>2
        <5>2. z.id # 0 => z.id \in DOMAIN mail'
          BY <1>3 DEF Pushed
        <5>3. QED
          BY <1>4, <2>7, <4>2, <5>1, <5>2 DEF Achieved, Stands
      <4>3. CASE rows[p].kind \notin {"send", "draft"}
        BY <1>4, <2>7, <4>3 DEF Achieved
      <4>4. QED
        BY <4>1, <4>2, <4>3
    <3>5. calls'[c].stage # "follow"
      BY <1>4, <1>5 DEF Active, Pushing
    <3>6. calls'[c].reply => rows'[calls'[c].row].kind = "send"
      BY <1>0, <1>4, <1>5, <1>11, <2>4, <2>7 DEF Progress
    <3>7. QED
      BY <3>1, <3>2, <3>3, <3>4, <3>5, <3>6
  <2>10. ASSUME NEW d \in Callers, d # c
         PROVE  /\ calls'[d].stage = "file" => Went(calls[d].row)'
                /\ calls'[d].stage \in {"adopt", "submit"} => calls'[d].id # 0 /\ Placed(calls[d])'
                /\ Succeeded(calls'[d]) => Achieved(calls[d].row)'
                /\ (Succeeded(calls'[d]) /\ rows'[calls'[d].row].kind # "trash") => Placed(calls[d])'
                /\ calls'[d].stage = "follow" =>
                      rows'[calls'[d].row].told = "done"
                      /\ (rows'[calls'[d].row].kind # "trash" => Placed(calls[d])')
                /\ calls'[d].reply /\ calls'[d].stage # "report" => rows'[calls'[d].row].kind = "send"
    <3>1. calls'[d] = calls[d]
      BY <1>4, <2>10
    <3>2. CASE calls[d] = NoCall
      BY <3>1, <3>2, NoCallTyped DEF Succeeded
    <3>3. CASE calls[d] # NoCall
      <4>1. PICK y : y = calls[d]
        OBVIOUS
      <4>2. y.row \in DOMAIN rows /\ (y.id = 0 \/ y.id \in DOMAIN mail)
        BY <1>0, <3>3, <4>1, CallKnown
      <4>3. /\ rows'[y.row].kind = rows[y.row].kind /\ rows'[y.row].told = rows[y.row].told
        BY <1>10, <4>2
      <4>4. Went(y.row) => Went(y.row)'
        BY <1>6, WentStays
      <4>5. Placed(y) => Placed(y)'
        BY <1>6, <4>2, PlacedStays
      <4>6. Achieved(y.row) => Achieved(y.row)'
        BY <1>6, <4>2, AchievedStays
      <4>7. /\ Went(calls[d].row)' <=> Went(y.row)'
            /\ Placed(calls[d])' <=> Placed(y)'
            /\ Achieved(calls[d].row)' <=> Achieved(y.row)'
        BY <3>1, <4>1 DEF Went, Placed, Achieved, Stands
      <4>8. QED
        BY <1>0, <3>1, <4>1, <4>3, <4>4, <4>5, <4>6, <4>7 DEF Progress
    <3>4. QED
      BY <3>2, <3>3
  <2>11. QED
    BY <2>1, <2>2, <2>9, <2>10 DEF Progress
<1>28. Thrown'
  <2>1. ASSUME NEW r \in DOMAIN rows, rows[r].kind = "trash"
        PROVE  rows[r].id \in DOMAIN mail /\ Replaced(rows[r].id)
    BY <1>0, <2>1 DEF Thrown, Named, RowFits, MailAt
  <2>2. ASSUME NEW i \in DOMAIN mail', mail'[i].box = "trash"
        PROVE  Replaced(i)'
    <3>1. i \in DOMAIN mail /\ Replaced(i)
      BY <1>0, <1>2, <1>14, <2>1, <2>2 DEF Thrown
    <3>2. QED
      BY <1>0, <1>6, <3>1, ReplacedStays
  <2>3. ASSUME NEW r \in DOMAIN rows, rows[r].kind = "trash"
        PROVE  Replaced(rows[r].id)'
    <3>1. PICK i : i = rows[r].id
      OBVIOUS
    <3>2. Replaced(i)'
      BY <1>0, <1>6, <2>1, <2>3, <3>1, ReplacedStays
    <3>3. rows'[r].id = i
      BY <1>10, <3>1
    <3>4. QED
      BY <3>2, <3>3 DEF Replaced, Copied
  <2>4. ASSUME NEW d \in Callers, calls'[d].replaces # 0, calls'[d].stage # "report"
        PROVE  /\ rows'[calls'[d].row].kind # "trash"
               /\ Source(rows[calls[d].row].text, calls[d].replaces)'
    <3>1. /\ calls'[d].row = calls[d].row /\ calls'[d].replaces = calls[d].replaces
          /\ calls[d].stage # "report" /\ calls[d] # NoCall
      BY <1>4, <1>5, <1>11, <2>4, NoCallTyped
    <3>2. PICK r, i : r = calls[d].row /\ i = calls[d].replaces
      OBVIOUS
    <3>3. r \in DOMAIN rows /\ i \in DOMAIN mail /\ rows[r].text \in DOMAIN texts
      BY <1>0, <2>4, <3>1, <3>2, CallKnown DEF RowFits, TextAt
    <3>4. rows[r].kind # "trash" /\ Source(rows[r].text, i)
      BY <1>0, <2>4, <3>1, <3>2 DEF Thrown
    <3>5. rows'[r].text = mail'[i].text \/ texts'[rows'[r].text].of = i
      BY <1>9, <1>10, <1>14, <3>3, <3>4 DEF Source
    <3>6. QED
      BY <1>10, <3>1, <3>2, <3>3, <3>4, <3>5 DEF Source
  <2>5. QED
    BY <1>6, <1>10, <2>2, <2>3, <2>4 DEF Thrown
<1>29. Ordered'
  BY <1>0, <1>4, <1>5, <1>6, <1>9, <1>10 DEF Ordered
<1>30. Guarded'
  <2>1. ASSUME NEW d \in Callers
        PROVE  /\ calls'[d].by = calls[d].by
               /\ \A r \in DOMAIN rows : Heard(r, rows[r].told, calls[d])
                     => Heard(r, rows'[r].told, calls'[d])
    BY <1>4, <1>5, <1>10, <1>11 DEF Heard
  <2>2. QED
    BY <1>0, <1>6, <1>9, <1>10, <2>1, GuardedStays
<1>31. Asked'
  BY <1>0, <1>6, <1>9, <1>10, AskedStays
<1>32. QED
  BY <1>6, <1>20, <1>21, <1>22, <1>23, <1>24, <1>25, <1>26, <1>27, <1>28, <1>29, <1>30, <1>31
     DEF IInv


-----------------------------------------------------------------------------
(* The other steps leave the provider as it is.  The invariant is put      *)
(* together from what it says of each call, of each row, and of the rest.  *)

Sound(c) ==
    LET call == calls[c]
        row == rows[call.row]
    IN  /\ CallFits(call)
        /\ Active(call) => /\ Owns(call, row) /\ (c # 0 => Asks(call, row))
                           /\ call.stage \in Path(row.kind)
                           /\ call.say = "" \/ (call.say = "done" /\ row.kind = "trash")
        /\ call.stage \in Pushing => call.err = ""
        /\ call.err = "expired" => call.dead
        /\ call.stage \in {"follow", "report"} => call.say \in {"done", "queued"} \cup Bad
        /\ call.stage = "follow" => call.say = "done" /\ ~call.dead
        /\ (\/ call.stage \in Pushing \ {"file"}
            \/ call.stage = "record" /\ call.err \in {"refused", "unsent"}) => Unsent(call.row)
        /\ call.stage = "file" => Went(call.row)
        /\ call.stage \in {"adopt", "submit"} => call.id # 0 /\ Placed(call)
        /\ Succeeded(call) => Achieved(call.row)
        /\ (Succeeded(call) /\ row.kind # "trash") => Placed(call)
        /\ call.stage = "follow" => row.told = "done" /\ (row.kind # "trash" => Placed(call))
        /\ (call.reply /\ call.stage # "report") => row.kind = "send"
        /\ (call.replaces # 0 /\ call.stage # "report") =>
              row.kind # "trash" /\ Source(row.text, call.replaces)
RowSound(r) ==
    /\ RowFits(rows[r]) /\ Paid(r)
    /\ rows[r].kind # "send" => Count(delivered, r) = 0
    /\ (rows[r].state = "pending" /\ ~rows[r].held) => Unsent(r)
    /\ rows[r].told = "refused" =>
          Count(delivered, r) = 0 /\ ~rows[r].held /\ rows[r].state = "failed"
    /\ rows[r].env => ~texts[rows[r].text].header
    /\ rows[r].told = "done" => Achieved(r)
    /\ rows[r].kind = "trash" => Replaced(rows[r].id)
Apart ==
    \A c, d \in Callers :
       (c # d /\ Active(calls[c]) /\ Active(calls[d])) => calls[c].row # calls[d].row
ScreenNamed ==
    /\ \A i \in DOMAIN composers : composers[i].draft = 0 \/ MailAt(composers[i].draft)
    /\ \A load \in loads : load.draft = 0 \/ MailAt(load.draft)
MailNamed == \A i \in DOMAIN mail : TextAt(mail[i].text)
MailThrown == \A i \in DOMAIN mail : mail[i].box = "trash" => Replaced(i)
AnswersWent == \A text \in answered : \E k \in DOMAIN delivered : delivered[k].text = text

\* The invariant, taken apart: what it says of each call, of each row, and of the rest.
LEMMA Apiece ==
    ASSUME IInv
    PROVE  /\ Typed /\ Named /\ (\A c \in Callers : Sound(c)) /\ (\A r \in DOMAIN rows : RowSound(r))
           /\ Replays(calls[0]) /\ Apart /\ ScreenNamed /\ MailNamed /\ MailThrown /\ AnswersWent
           /\ Carried /\ Bare /\ Progress /\ Ordered /\ Guarded /\ Asked
<1>0. /\ Typed /\ Named /\ Held /\ OnPath /\ Errors /\ Sends /\ Carried /\ Bare
      /\ Progress /\ Thrown /\ Ordered /\ Guarded /\ Asked
  BY DEF IInv
<1>1. ASSUME NEW c \in Callers PROVE Sound(c)
  BY <1>0 DEF Sound, Named, Held, OnPath, Errors, Sends, Progress, Thrown
<1>2. ASSUME NEW r \in DOMAIN rows PROVE RowSound(r)
  BY <1>0 DEF RowSound, Named, Sends, Bare, Progress, Thrown
<1>3. Replays(calls[0]) /\ Apart
  BY <1>0 DEF Held, Apart
<1>4. ScreenNamed /\ MailNamed /\ MailThrown /\ AnswersWent
  BY <1>0 DEF ScreenNamed, MailNamed, MailThrown, AnswersWent, Named, Thrown, Progress
<1>5. QED
  BY <1>0, <1>1, <1>2, <1>3, <1>4

\* The invariant, put together again from what it says of each call and of each row.
LEMMA Together ==
    ASSUME Typed', \A c \in Callers : Sound(c)', \A r \in DOMAIN rows' : RowSound(r)',
           Replays(calls'[0]), Apart', ScreenNamed', MailNamed', MailThrown', AnswersWent',
           Carried', Ordered', Guarded', Asked'
    PROVE  IInv'
<1>1. Named'
  BY DEF Named, Sound, RowSound, ScreenNamed, MailNamed
<1>2. Held'
  BY DEF Held, Sound, Apart
<1>3. OnPath' /\ Errors'
  BY DEF OnPath, Errors, Sound
<1>4. Sends'
  BY DEF Sends, Sound, RowSound
<1>5. Bare'
  BY DEF Bare, RowSound
<1>6. Progress'
  BY DEF Progress, Sound, RowSound, AnswersWent
<1>7. Thrown'
  BY DEF Thrown, Sound, RowSound, MailThrown
<1>8. QED
  BY <1>1, <1>2, <1>3, <1>4, <1>5, <1>6, <1>7 DEF IInv

\* No call is as it should be, and so is one that is not touched, nor its row.
LEMMA NoCallSound ==
    ASSUME NEW c \in Callers, calls'[c] = NoCall
    PROVE  Sound(c)'
<1>1. /\ ~Active(calls'[c]) /\ calls'[c].stage = "" /\ calls'[c].stage \notin Pushing
      /\ calls'[c].replaces = 0 /\ ~calls'[c].reply /\ calls'[c].err = "" 
  BY NoCallTyped
<1>2. QED
  BY <1>1 DEF Sound, Succeeded, CallFits

\* A call that did not move is as sound as it was, whatever the others did.
LEMMA SoundStays ==
    ASSUME IInv, Past, UNCHANGED provider, NEW c \in Callers, calls'[c] = calls[c],
           (Active(calls[c]) \/ calls[c].stage = "follow") =>
              rows'[calls[c].row].told = rows[calls[c].row].told,
           Active(calls[c]) => /\ rows'[calls[c].row].held = rows[calls[c].row].held
                               /\ rows'[calls[c].row].state = rows[calls[c].row].state
                               /\ rows'[calls[c].row].cut = rows[calls[c].row].cut
    PROVE  Sound(c)'
<1>1. CASE calls[c] = NoCall
  BY <1>1, NoCallSound
<1>2. CASE calls[c] # NoCall
  <2>1. PICK y, r : y = calls[c] /\ r = y.row
    OBVIOUS
  <2>2. Typed /\ Named /\ Sound(c)
    BY Apiece
  <2>3. /\ r \in DOMAIN rows /\ rows[r].text \in DOMAIN texts
        /\ y.id = 0 \/ y.id \in DOMAIN mail
        /\ y.replaces = 0 \/ y.replaces \in DOMAIN mail
    BY <1>2, <2>1, <2>2, CallKnown DEF RowFits, TextAt
  <2>4. /\ rows'[r].kind = rows[r].kind /\ rows'[r].text = rows[r].text /\ rows'[r].by = rows[r].by
        /\ (Active(y) \/ y.stage = "follow") => rows'[r].told = rows[r].told
        /\ Active(y) => /\ rows'[r].held = rows[r].held /\ rows'[r].state = rows[r].state
                        /\ rows'[r].cut = rows[r].cut
    BY <1>2, <2>1, <2>3 DEF Past
  <2>5. /\ Went(r) => Went(r)'
        /\ Achieved(r) => Achieved(r)'
        /\ CallFits(y) => CallFits(y)'
        /\ Path(rows[r].kind)' = Path(rows'[r].kind)
    <3>1. Went(r) => Went(r)'
      BY WentStays
    <3>2. Achieved(r) => Achieved(r)'
      BY <2>3, AchievedStays
    <3>3. CallFits(y) => CallFits(y)'
      BY CallFitsStays
    <3>4. QED
      BY <3>1, <3>2, <3>3 DEF Past, Path
  <2>6. Placed(y) => Placed(y)'
    BY <1>2, <2>1, <2>2, CallKnown, PlacedStays
  <2>7. /\ CallFits(calls[c])' <=> CallFits(y)'
        /\ Placed(calls[c])' <=> Placed(y)'
        /\ Went(calls[c].row)' <=> Went(r)'
        /\ Achieved(calls[c].row)' <=> Achieved(r)'
    BY <2>1 DEF CallFits, Placed, Went, Achieved, Stands, MailAt
  <2>8. calls'[c] = y /\ calls'[c].row = r /\ (y.stage \in Pushing \cup {"record"} <=> Active(y))
    BY <2>1 DEF Active
  <2>9. ASSUME Active(y)
        PROVE  /\ Owns(y, rows'[r]) /\ (c # 0 => Asks(y, rows'[r]))
               /\ y.stage \in Path(rows[r].kind)'
               /\ y.say = "" \/ (y.say = "done" /\ rows'[r].kind = "trash")
    <3>1. /\ Owns(y, rows[r]) /\ (c # 0 => Asks(y, rows[r]))
          /\ y.stage \in Path(rows[r].kind)
          /\ y.say = "" \/ (y.say = "done" /\ rows[r].kind = "trash")
      BY <2>1, <2>2, <2>9 DEF Sound
    <3>2. PICK k : k = rows[r].kind
      OBVIOUS
    <3>3. Path(k)' = Path(k) /\ rows'[r].kind = k
      BY <2>4, <3>2, PathStays
    <3>4. Path(rows[r].kind)' = Path(k)'
      BY <3>3 DEF Path
    <3>5. QED
      BY <2>4, <2>9, <3>1, <3>2, <3>3, <3>4 DEF Owns, Asks
  <2>10. (\/ y.stage \in Pushing \ {"file"}
          \/ y.stage = "record" /\ y.err \in {"refused", "unsent"}) => Unsent(r)'
    <3>1. Active(y) /\ Unsent(r) => Unsent(r)'
      BY <2>4 DEF Unsent, provider
    <3>2. QED
      BY <2>1, <2>2, <2>8, <3>1 DEF Sound
  <2>11. Unsent(calls[c].row)' <=> Unsent(r)'
    BY <2>8 DEF Unsent
  <2>12. (y.replaces # 0 /\ y.stage # "report") =>
            rows'[r].kind # "trash" /\ Source(rows[r].text, y.replaces)'
    <3>1. (y.replaces # 0 /\ y.stage # "report") =>
             rows[r].kind # "trash" /\ Source(rows[r].text, y.replaces)
      BY <2>1, <2>2 DEF Sound
    <3>2. PICK t : t = rows[r].text
      OBVIOUS
    <3>3. (y.replaces # 0 /\ y.stage # "report") => Source(t, y.replaces)'
      BY <2>3, <3>1, <3>2, SourceStays
    <3>4. Source(rows[r].text, y.replaces)' <=> Source(t, y.replaces)'
      BY <2>4, <3>2 DEF Source
    <3>5. QED
      BY <2>4, <3>1, <3>3, <3>4
  <2>13. Source(rows[calls[c].row].text, calls[c].replaces)' <=> Source(rows[r].text, y.replaces)'
    BY <2>1, <2>8 DEF Source
  <2>14. Path(rows[calls[c].row].kind)' = Path(rows[r].kind)'
    BY <2>1, <2>8 DEF Path
  <2>15. /\ y.stage \in Pushing => y.err = ""
         /\ y.err = "expired" => y.dead
         /\ y.stage \in {"follow", "report"} => y.say \in {"done", "queued"} \cup Bad
         /\ y.stage = "follow" => y.say = "done" /\ ~y.dead
         /\ y.stage = "file" => Went(r)
         /\ y.stage \in {"adopt", "submit"} => y.id # 0 /\ Placed(y)
         /\ Succeeded(y) => Achieved(r)
         /\ (Succeeded(y) /\ rows[r].kind # "trash") => Placed(y)
         /\ y.stage = "follow" => rows[r].told = "done" /\ (rows[r].kind # "trash" => Placed(y))
         /\ (y.reply /\ y.stage # "report") => rows[r].kind = "send"
         /\ CallFits(y)
    BY <2>1, <2>2 DEF Sound
  <2>16. Active(calls'[c]) =>
            /\ Owns(calls'[c], rows'[calls'[c].row]) /\ (c # 0 => Asks(calls'[c], rows'[calls'[c].row]))
            /\ calls'[c].stage \in Path(rows[calls[c].row].kind)'
            /\ \/ calls'[c].say = ""
               \/ calls'[c].say = "done" /\ rows'[calls'[c].row].kind = "trash"
    BY <2>8, <2>9, <2>14
  <2>17. /\ CallFits(calls[c])'
         /\ calls'[c].stage \in Pushing => calls'[c].err = ""
         /\ calls'[c].err = "expired" => calls'[c].dead
         /\ calls'[c].stage \in {"follow", "report"} => calls'[c].say \in {"done", "queued"} \cup Bad
         /\ calls'[c].stage = "follow" => calls'[c].say = "done" /\ ~calls'[c].dead
    BY <2>5, <2>7, <2>8, <2>15
  <2>18. /\ (\/ calls'[c].stage \in Pushing \ {"file"}
             \/ calls'[c].stage = "record" /\ calls'[c].err \in {"refused", "unsent"})
               => Unsent(calls[c].row)'
         /\ calls'[c].stage = "file" => Went(calls[c].row)'
         /\ calls'[c].stage \in {"adopt", "submit"} => calls'[c].id # 0 /\ Placed(calls[c])'
         /\ Succeeded(calls'[c]) => Achieved(calls[c].row)'
    BY <2>5, <2>6, <2>7, <2>8, <2>10, <2>11, <2>15
  <2>19. /\ (Succeeded(calls'[c]) /\ rows'[calls'[c].row].kind # "trash") => Placed(calls[c])'
         /\ calls'[c].stage = "follow" =>
               rows'[calls'[c].row].told = "done"
               /\ (rows'[calls'[c].row].kind # "trash" => Placed(calls[c])')
    BY <2>4, <2>6, <2>7, <2>8, <2>15
  <2>20. /\ (calls'[c].reply /\ calls'[c].stage # "report") => rows'[calls'[c].row].kind = "send"
         /\ (calls'[c].replaces # 0 /\ calls'[c].stage # "report") =>
               rows'[calls'[c].row].kind # "trash"
               /\ Source(rows[calls[c].row].text, calls[c].replaces)'
    BY <2>4, <2>8, <2>12, <2>13, <2>15
  <2>21. QED
    BY <2>16, <2>17, <2>18, <2>19, <2>20 DEF Sound
<1>3. QED
  BY <1>1, <1>2

\* What a row is of does not change, nor does what follows from it.
LEMMA RowKept ==
    ASSUME IInv, Past, UNCHANGED provider, NEW r \in DOMAIN rows
    PROVE  /\ RowFits(rows[r])'
           /\ rows'[r].kind # "send" => Count(delivered', r) = 0
           /\ rows'[r].env => ~texts'[rows'[r].text].header
           /\ rows'[r].kind = "trash" => Replaced(rows[r].id)'
           /\ Achieved(r) => Achieved(r)'
<1>1. RowSound(r) /\ Named /\ Carried
  BY Apiece
<1>2. /\ rows'[r].kind = rows[r].kind /\ rows'[r].text = rows[r].text
      /\ rows'[r].env = rows[r].env /\ rows'[r].id = rows[r].id
      /\ rows[r].text \in DOMAIN texts' /\ texts'[rows[r].text] = texts[rows[r].text]
  BY <1>1 DEF Past, RowSound, RowFits, TextAt
<1>3. RowFits(rows[r])'
  BY <1>1, <1>2 DEF RowSound, RowFits, TextAt, MailAt, Past
<1>4. rows'[r].kind # "send" => Count(delivered', r) = 0
  BY <1>1, <1>2 DEF RowSound, provider
<1>5. rows'[r].env => ~texts'[rows'[r].text].header
  BY <1>1, <1>2 DEF RowSound
<1>6. rows'[r].kind = "trash" => Replaced(rows[r].id)'
  <2>1. PICK i : i = rows[r].id
    OBVIOUS
  <2>2. (rows[r].kind = "trash" /\ Replaced(i)) => Replaced(i)'
    BY <1>1, <2>1, ReplacedStays DEF RowSound, RowFits, MailAt
  <2>3. Replaced(rows[r].id)' <=> Replaced(i)'
    BY <1>2, <2>1 DEF Replaced, Copied
  <2>4. QED
    BY <1>1, <1>2, <2>1, <2>2, <2>3 DEF RowSound
<1>7. QED
  BY <1>3, <1>4, <1>5, <1>6, AchievedStays

\* A row that did not change is as sound as it was.
LEMMA RowSoundStays ==
    ASSUME IInv, Past, UNCHANGED provider, NEW r \in DOMAIN rows, rows'[r] = rows[r]
    PROVE  RowSound(r)'
<1>1. RowSound(r)
  BY Apiece
<1>2. /\ Paid(r) => Paid(r)'
      /\ Unsent(r) => Unsent(r)'
      /\ Count(delivered, r) = 0 => Count(delivered', r) = 0
  BY DEF Paid, Unsent, provider
<1>3. QED
  BY <1>1, <1>2, RowKept DEF RowSound


\* Where the provider stands, so does what is said of it.
LEMMA ProviderStands ==
    ASSUME IInv, Past, UNCHANGED provider
    PROVE  MailNamed' /\ MailThrown' /\ Carried'
<1>1. Typed /\ Named /\ Carried /\ MailNamed /\ MailThrown
  BY Apiece
<1>2. mail' = mail /\ delivered' = delivered
  BY DEF provider
<1>3. MailNamed'
  BY <1>1, <1>2 DEF MailNamed, TextAt, Past
<1>4. MailThrown'
  BY <1>1, <1>2, ReplacedStays DEF MailThrown
<1>5. QED
  BY <1>1, <1>2, <1>3, <1>4, CarriedStays

\* A call that comes to rest keeps the invariant.
LEMMA RestKept ==
    ASSUME IInv, NEW c \in Callers, Rest(c)
    PROVE  IInv'
<1>0. /\ Typed /\ Named /\ (\A d \in Callers : Sound(d)) /\ (\A r \in DOMAIN rows : RowSound(r))
      /\ Replays(calls[0]) /\ Apart /\ ScreenNamed /\ MailNamed /\ MailThrown /\ AnswersWent
      /\ Carried /\ Progress /\ Ordered /\ Guarded /\ Asked
  BY Apiece
<1>1. PICK z : /\ z \in CallRecs /\ z.stage = "report" /\ z.row = calls[c].row
               /\ z.id = calls[c].id /\ z.err = calls[c].err /\ z.dead = calls[c].dead
               /\ z.replaces = calls[c].replaces /\ z.reply = calls[c].reply
               /\ z.by = calls[c].by /\ z.say = calls[c].say
               /\ calls' = [calls EXCEPT ![c] = z]
  BY DEF Rest
<1>2. /\ c # 0 /\ calls[c].stage = "follow" /\ AnswersGrow /\ UNCHANGED provider
      /\ setting' = setting /\ texts' = texts /\ mail' = mail /\ delivered' = delivered
      /\ rows' = rows /\ index' = index /\ deleted' = deleted
      /\ composers' = composers /\ opened' = opened /\ loads' = loads /\ seq' = seq
      /\ crossed' = crossed
  BY DEF Rest, provider, screen
<1>3. /\ calls'[c] = z /\ calls' \in [Callers -> CallRecs]
      /\ \A d \in Callers : d # c => calls'[d] = calls[d]
  BY <1>0, <1>1 DEF Typed
<1>4. Past
  BY <1>2 DEF Past
<1>5. Typed'
  BY <1>0, <1>2, <1>3 DEF Typed
<1>6. calls[c].say = "done" /\ calls[c] # NoCall /\ calls[c].stage # ""
  BY <1>2, FollowReady, NoCallTyped
<1>7. ~Active(z) /\ z.stage \notin Pushing /\ z.stage # "follow" /\ z.stage # "record"
  BY <1>1 DEF Active, Pushing
<1>8. Sound(c)'
  <2>1. CallFits(calls[c])'
    BY <1>0, <1>1, <1>2, <1>3, <1>6 DEF Sound, CallFits, MailAt
  <2>2. z.err = "expired" => z.dead
    BY <1>0, <1>1 DEF Sound
  <2>3. QED
    BY <1>1, <1>3, <1>6, <1>7, <2>1, <2>2 DEF Sound, Succeeded, Pushing
<1>9. ASSUME NEW d \in Callers PROVE Sound(d)'
  <2>1. CASE d = c
    BY <1>8, <2>1
  <2>2. CASE d # c
    BY <1>2, <1>3, <1>4, <2>2, SoundStays
  <2>3. QED
    BY <2>1, <2>2
<1>10. \A r \in DOMAIN rows' : RowSound(r)'
  BY <1>2, <1>4, RowSoundStays
<1>11. Replays(calls'[0])
  BY <1>0, <1>2, <1>3 DEF Callers
<1>12. Apart'
  BY <1>0, <1>3, <1>7 DEF Apart
<1>13. ScreenNamed'
  BY <1>0, <1>2 DEF ScreenNamed, MailAt
<1>14. MailNamed' /\ MailThrown' /\ Carried'
  BY <1>2, <1>4, ProviderStands
<1>15. AnswersWent'
  BY <1>0, <1>2, <1>4, AnswersStay DEF AnswersWent
<1>16. Ordered'
  BY <1>0, <1>1, <1>2, <1>3 DEF Ordered
<1>17. Guarded'
  <2>1. ASSUME NEW d \in Callers
        PROVE  /\ calls'[d].by = calls[d].by
               /\ \A r \in DOMAIN rows : Heard(r, rows[r].told, calls[d])
                     => Heard(r, rows'[r].told, calls'[d])
    BY <1>1, <1>2, <1>3, <1>6 DEF Heard
  <2>2. QED
    BY <1>0, <1>2, <2>1, GuardedStays
<1>18. Asked'
  BY <1>0, <1>2, AskedStays
<1>19. QED
  BY <1>5, <1>9, <1>10, <1>11, <1>12, <1>13, <1>14, <1>15, <1>16, <1>17, <1>18, Together


\* A pending row taken up once more.
LEMMA ReplayKept ==
    ASSUME IInv, NEW n \in DOMAIN rows, Replay(n)
    PROVE  IInv'
<1>0. /\ Typed /\ Named /\ (\A d \in Callers : Sound(d)) /\ (\A r \in DOMAIN rows : RowSound(r))
      /\ Replays(calls[0]) /\ Apart /\ ScreenNamed /\ MailNamed /\ MailThrown /\ AnswersWent
      /\ Carried /\ Progress /\ Ordered /\ Guarded /\ Asked
  BY Apiece
<1>1. /\ calls[0] = NoCall /\ rows[n].state = "pending" /\ ~rows[n].held
      /\ rows' = [rows EXCEPT ![n].held = TRUE] /\ UNCHANGED provider
      /\ setting' = setting /\ texts' = texts /\ mail' = mail /\ delivered' = delivered
      /\ index' = index /\ deleted' = deleted /\ answered' = answered
      /\ composers' = composers /\ opened' = opened /\ loads' = loads /\ seq' = seq
      /\ crossed' = crossed
  BY DEF Replay, provider, screen
<1>2. rows \in Seq(RowRecs) /\ rows[n] \in RowRecs /\ 0 \in Callers /\ n \in Nat
  BY <1>0 DEF Typed, Callers
<1>3. PICK w : w = [rows[n] EXCEPT !.held = TRUE]
  OBVIOUS
<1>4. /\ w \in RowRecs /\ w.kind = rows[n].kind /\ w.text = rows[n].text /\ w.env = rows[n].env
      /\ w.id = rows[n].id /\ w.by = rows[n].by /\ w.state = rows[n].state
      /\ w.told = rows[n].told /\ w.cut = rows[n].cut /\ w.held
  BY <1>2, <1>3 DEF RowRecs
<1>5. /\ rows' \in Seq(RowRecs) /\ DOMAIN rows' = DOMAIN rows /\ rows'[n] = w
      /\ \A r \in DOMAIN rows : r # n => rows'[r] = rows[r]
  <2>1. rows' = [rows EXCEPT ![n] = w]
    BY <1>1, <1>3
  <2>2. QED
    BY <1>2, <1>4, <2>1
<1>6. PICK s : s = FirstStage(rows[n].kind)
  OBVIOUS
<1>7. s \in Path(rows[n].kind) /\ s \in Pushing \ {"file", "adopt", "submit"} /\ s \in Stages
  BY <1>0, <1>2, <1>6, PathSteps DEF RowRecs, Stages
<1>8. PICK z : z = [NoCall EXCEPT !.row = n, !.stage = s]
  OBVIOUS
<1>9. /\ z \in CallRecs /\ z.row = n /\ z.stage = s /\ z.id = 0 /\ z.err = "" /\ ~z.dead
      /\ z.by = 0 /\ z.say = "" /\ ~z.reply /\ z.replaces = 0
  BY <1>2, <1>7, <1>8, NoCallTyped DEF CallRecs
<1>10. /\ calls'[0] = z /\ calls' \in [Callers -> CallRecs]
       /\ \A d \in Callers : d # 0 => calls'[d] = calls[d]
  <2>1. calls' = [calls EXCEPT ![0] = z]
    BY <1>6, <1>8 DEF Replay
  <2>2. QED
    BY <1>0, <1>2, <1>9, <2>1 DEF Typed
<1>11. Past
  BY <1>1, <1>4, <1>5 DEF Past
<1>12. Typed'
  BY <1>0, <1>1, <1>5, <1>10 DEF Typed
<1>13. Active(z) /\ z.stage \notin {"follow", "report", "record", ""}
  BY <1>7, <1>9 DEF Active, Pushing
<1>14. Unsent(n) /\ Path(rows[n].kind)' = Path(rows[n].kind)
  <2>1. Unsent(n)
    BY <1>0, <1>1 DEF RowSound
  <2>2. Path(rows[n].kind)' = Path(rows[n].kind)
    BY <1>1, <1>4, <1>5 DEF Path
  <2>3. QED
    BY <2>1, <2>2
<1>15. Sound(0)'
  <2>1. CallFits(calls[0])'
    BY <1>5, <1>9, <1>10, <1>13 DEF CallFits
  <2>2. /\ Owns(calls'[0], rows'[calls'[0].row])
        /\ calls'[0].stage \in Path(rows[calls[0].row].kind)'
    BY <1>1, <1>4, <1>5, <1>7, <1>9, <1>10, <1>14 DEF Owns, Path
  <2>3. Unsent(calls[0].row)'
    BY <1>1, <1>4, <1>5, <1>9, <1>10, <1>14 DEF Unsent
  <2>4. QED
    BY <1>7, <1>9, <1>10, <1>13, <2>1, <2>2, <2>3 DEF Sound, Succeeded
<1>16. ASSUME NEW d \in Callers PROVE Sound(d)'
  <2>1. CASE d = 0
    BY <1>15, <2>1
  <2>2. CASE d # 0
    <3>1. Active(calls[d]) => calls[d].row # n
      BY <1>0, <1>1 DEF Sound, Owns
    <3>2. (Active(calls[d]) \/ calls[d].stage = "follow") => calls[d].row \in DOMAIN rows
      BY <1>0, NoCallTyped, CallKnown
    <3>3. QED
      BY <1>1, <1>4, <1>5, <1>10, <1>11, <2>2, <3>1, <3>2, SoundStays
  <2>3. QED
    BY <2>1, <2>2
<1>17. ASSUME NEW r \in DOMAIN rows' PROVE RowSound(r)'
  <2>1. CASE r # n
    BY <1>1, <1>5, <1>11, <2>1, RowSoundStays
  <2>2. CASE r = n
    <3>1. Paid(n)' /\ rows'[n].told # "refused"
      BY <1>0, <1>1, <1>4, <1>5 DEF RowSound, Paid
    <3>2. rows'[n].told = "done" => Achieved(n)
      BY <1>0, <1>4, <1>5 DEF RowSound
    <3>3. QED
      BY <1>1, <1>4, <1>5, <1>11, <2>2, <3>1, <3>2, RowKept DEF RowSound
  <2>3. QED
    BY <2>1, <2>2
<1>18. Replays(calls'[0])
  BY <1>7, <1>9, <1>10 DEF Replays
<1>19. Apart'
  <2>1. \A d \in Callers : Active(calls[d]) => calls[d].row # n
    BY <1>0, <1>1 DEF Sound, Owns
  <2>2. QED
    BY <1>0, <1>9, <1>10, <2>1 DEF Apart
<1>20. ScreenNamed' /\ AnswersWent'
  BY <1>0, <1>1 DEF ScreenNamed, MailAt, AnswersWent
<1>21. MailNamed' /\ MailThrown' /\ Carried'
  BY <1>1, <1>11, ProviderStands
<1>22. \A r \in DOMAIN rows : /\ rows'[r].by = rows[r].by /\ rows'[r].kind = rows[r].kind
                              /\ rows'[r].told = rows[r].told
  BY <1>4, <1>5
<1>23. Ordered'
  <2>1. \A d \in Callers : calls'[d].by \in 0 .. opened
    <3>1. 0 \in 0 .. opened
      BY <1>0 DEF Typed
    <3>2. QED
      BY <1>0, <1>9, <1>10, <3>1 DEF Ordered
  <2>2. QED
    BY <1>0, <1>1, <1>5, <1>22, <2>1 DEF Ordered
<1>24. Guarded'
  BY <1>0, <1>1, <1>5, <1>9, <1>10, <1>22, GuardedStays
<1>25. Asked'
  BY <1>0, <1>1, <1>5, <1>22, AskedStays
<1>26. QED
  BY <1>12, <1>16, <1>17, <1>18, <1>19, <1>20, <1>21, <1>23, <1>24, <1>25, Together


\* What came of a push written down.
LEMMA NoteKept ==
    ASSUME IInv, NEW c \in Callers, Note(c)
    PROVE  IInv'
<1>a. PICK call, n : call = calls[c] /\ n = calls[c].row
  OBVIOUS
<1>0. /\ Typed /\ Named /\ (\A d \in Callers : Sound(d)) /\ (\A r \in DOMAIN rows : RowSound(r))
      /\ Replays(calls[0]) /\ Apart /\ ScreenNamed /\ MailNamed /\ MailThrown /\ AnswersWent
      /\ Carried /\ Progress /\ Ordered /\ Guarded /\ Asked
  BY Apiece
<1>b. PICK w, z :
         /\ Written(rows[calls[c].row], calls[c], w)
         /\ \/ c = 0 /\ z = NoCall /\ w.told = rows[calls[c].row].told
            \/ /\ c # 0 /\ Saying(rows[calls[c].row], calls[c], w)
               /\ z \in CallRecs /\ z.row = calls[c].row
               /\ z.id = calls[c].id /\ z.err = calls[c].err /\ z.dead = calls[c].dead
               /\ z.replaces = calls[c].replaces /\ z.reply = calls[c].reply
               /\ z.by = calls[c].by /\ z.say = w.told
               /\ z.stage \in {"follow", "report"}
               /\ z.stage = "follow" => w.told = "done" /\ ~calls[c].dead
         /\ rows' = [rows EXCEPT ![calls[c].row] = w]
         /\ calls' = [calls EXCEPT ![c] = z]
  BY DEF Note
<1>1. /\ Written(rows[n], call, w)
      /\ \/ c = 0 /\ z = NoCall /\ w.told = rows[n].told
         \/ /\ c # 0 /\ Saying(rows[n], call, w)
            /\ z \in CallRecs /\ z.row = n
            /\ z.id = call.id /\ z.err = call.err /\ z.dead = call.dead
            /\ z.replaces = call.replaces /\ z.reply = call.reply
            /\ z.by = call.by /\ z.say = w.told
            /\ z.stage \in {"follow", "report"}
            /\ z.stage = "follow" => w.told = "done" /\ ~call.dead
      /\ rows' = [rows EXCEPT ![n] = w]
      /\ calls' = [calls EXCEPT ![c] = z]
  BY <1>a, <1>b
<1>2. /\ call.stage = "record" /\ UNCHANGED provider /\ index' \subseteq DOMAIN mail
      /\ setting' = setting /\ texts' = texts /\ mail' = mail /\ delivered' = delivered
      /\ deleted' = deleted /\ answered' = answered
      /\ composers' = composers /\ opened' = opened /\ loads' = loads /\ seq' = seq
      /\ crossed' = crossed
  BY <1>a DEF Note, provider, screen
<1>3. /\ call \in CallRecs /\ n \in DOMAIN rows /\ rows[n] \in RowRecs
      /\ Active(call) /\ call # NoCall
      /\ rows[n].held /\ rows[n].state = "pending"
      /\ c # 0 => rows[n].told = "" /\ rows[n].cut = 0
      /\ call.err = "expired" => call.dead
      /\ call.say = "" \/ (call.say = "done" /\ rows[n].kind = "trash")
  BY <1>a, <1>2, RecordReady, NoCallTyped
<1>4. /\ w \in RowRecs /\ w.kind = rows[n].kind /\ w.text = rows[n].text /\ w.env = rows[n].env
      /\ w.id = rows[n].id /\ w.by = rows[n].by /\ ~w.held
      /\ call.dead => w.cut = rows[n].cut + 1
      /\ ~call.dead => /\ w.cut = rows[n].cut
                       /\ w.state = "pending" => call.err \in {"unsent", "lost"}
                                               /\ (rows[n].kind = "send" => call.err = "unsent")
  BY <1>1 DEF Written
<1>5. /\ rows' \in Seq(RowRecs) /\ DOMAIN rows' = DOMAIN rows /\ rows'[n] = w
      /\ \A r \in DOMAIN rows : r # n => rows'[r] = rows[r]
  <2>1. rows \in Seq(RowRecs) /\ n \in DOMAIN rows /\ w \in RowRecs
    BY <1>0, <1>3, <1>4 DEF Typed
  <2>2. rows' = [rows EXCEPT ![n] = w]
    BY <1>1
  <2>3. QED
    BY ONLY <2>1, <2>2
<1>6. z \in CallRecs
  BY <1>1, NoCallTyped
<1>7. /\ calls'[c] = z /\ calls' \in [Callers -> CallRecs]
      /\ \A d \in Callers : d # c => calls'[d] = calls[d]
  BY <1>0, <1>1, <1>6 DEF Typed
<1>8. ~Active(z) /\ z.stage \notin Pushing /\ z.stage # "record"
  BY <1>1, NoCallTyped DEF Active, Pushing
<1>9. Past
  BY <1>2, <1>4, <1>5 DEF Past
<1>10. Typed'
  BY <1>0, <1>2, <1>5, <1>7 DEF Typed
<1>11. RowSound(n) /\ Sound(c) /\ rows[n].cut \in Nat /\ Count(delivered, n) \in Nat
  <2>1. delivered \in Seq(DeliveryRecs)
    BY <1>0 DEF Typed
  <2>2. QED
    BY <1>0, <1>3, <2>1, CountType DEF RowRecs
<1>12. \A d \in Callers : (d # c /\ Active(calls[d])) => calls[d].row # n /\ calls[d].row \in DOMAIN rows
  BY <1>0, <1>a, <1>3, NoCallTyped, CallKnown DEF Apart
<1>13. c # 0 => /\ w.told \in {"done", "queued"} \cup Bad /\ (call.say # "" => w.told = call.say)
                /\ w.told = "done" => (~call.dead /\ call.err = "") \/ rows[n].kind = "trash"
                /\ w.told = "refused" => ~call.dead /\ call.err = "refused" /\ w.state = "failed"
  BY <1>1 DEF Saying
<1>14. RowSound(n)'
  <2>1. Count(delivered, n) <= 1 + w.cut
    BY <1>4, <1>11 DEF RowSound, Paid
  <2>2. ASSUME w.state = "pending" PROVE Count(delivered, n) <= w.cut
    <3>1. CASE call.dead
      BY <1>4, <1>11, <3>1 DEF RowSound, Paid
    <3>2. CASE ~call.dead /\ rows[n].kind = "send"
      BY <1>a, <1>2, <1>4, <1>11, <2>2, <3>2 DEF Sound, Unsent
    <3>3. CASE ~call.dead /\ rows[n].kind # "send"
      BY <1>4, <1>11, <3>3 DEF RowSound
    <3>4. QED
      BY <3>1, <3>2, <3>3
  <2>3. ASSUME w.told = "refused"
        PROVE  Count(delivered, n) = 0 /\ w.state = "failed"
    <3>1. c # 0
      BY <1>1, <1>3, <1>11, <2>3 DEF RowSound
    <3>2. ~call.dead /\ call.err = "refused" /\ w.state = "failed" /\ rows[n].cut = 0
      BY <1>3, <1>13, <2>3, <3>1
    <3>3. Count(delivered, n) <= 0
      BY <1>a, <1>2, <1>11, <3>2 DEF Sound, Unsent
    <3>4. QED
      BY <1>11, <3>2, <3>3
  <2>4. ASSUME w.told = "done" PROVE Achieved(n)
    <3>1. CASE c = 0
      BY <1>1, <1>11, <2>4, <3>1 DEF RowSound
    <3>2. CASE c # 0 /\ rows[n].kind = "trash"
      BY <3>2 DEF Achieved
    <3>3. CASE c # 0 /\ rows[n].kind # "trash"
      <4>1. Succeeded(call)
        BY <1>2, <1>13, <2>4, <3>3 DEF Succeeded
      <4>2. QED
        BY <1>a, <1>11, <4>1 DEF Sound
    <3>4. QED
      BY <3>1, <3>2, <3>3
  <2>5. Paid(n)' /\ (w.state = "pending" => Unsent(n)')
    BY <1>2, <1>5, <2>1, <2>2 DEF Paid, Unsent
  <2>6. QED
    BY <1>2, <1>3, <1>4, <1>5, <1>9, <2>3, <2>4, <2>5, RowKept DEF RowSound
<1>15. ASSUME NEW r \in DOMAIN rows' PROVE RowSound(r)'
  <2>1. CASE r # n
    BY <1>2, <1>5, <1>9, <2>1, RowSoundStays
  <2>2. CASE r = n
    BY <1>14, <2>2
  <2>3. QED
    BY <2>1, <2>2
<1>16. Sound(c)'
  <2>1. CASE c = 0
    BY <1>1, <1>7, <2>1, NoCallSound
  <2>2. CASE c # 0
    <3>1. /\ z.row = n /\ z.id = call.id /\ z.err = call.err /\ z.dead = call.dead
          /\ z.replaces = call.replaces /\ z.reply = call.reply
          /\ z.by = call.by /\ z.say = w.told
          /\ z.stage \in {"follow", "report"}
          /\ z.stage = "follow" => w.told = "done" /\ ~call.dead
      BY <1>1, <2>2
    <3>2. CallFits(calls[c])'
      BY <1>0, <1>a, <1>2, <1>3, <1>5, <1>7, <3>1, CallKnown DEF CallFits, MailAt
    <3>3. ASSUME z.stage = "follow"
          PROVE  /\ rows'[n].told = "done" /\ (rows'[n].kind # "trash" => Placed(calls[c])')
      <4>1. w.told = "done" /\ ~call.dead
        BY <3>1, <3>3
      <4>2. ASSUME rows[n].kind # "trash" PROVE Placed(call)'
        <5>1. Succeeded(call)
          BY <1>2, <1>13, <2>2, <4>1, <4>2 DEF Succeeded
        <5>2. Placed(call)
          BY <1>a, <1>11, <4>2, <5>1 DEF Sound
        <5>3. call.row \in DOMAIN rows /\ (call.id = 0 \/ call.id \in DOMAIN mail)
          BY <1>0, <1>a, <1>3, CallKnown
        <5>4. QED
          BY <1>9, <5>2, <5>3, PlacedStays
      <4>3. Placed(calls[c])' <=> Placed(call)'
        BY <1>a, <1>7, <3>1 DEF Placed, Went
      <4>4. QED
        BY <1>4, <1>5, <4>1, <4>2, <4>3
    <3>4. (z.reply /\ z.stage # "report") => rows'[n].kind = "send"
      BY <1>a, <1>2, <1>4, <1>5, <1>11, <3>1 DEF Sound
    <3>5. (z.replaces # 0 /\ z.stage # "report") =>
             rows'[n].kind # "trash" /\ Source(rows[calls[c].row].text, calls[c].replaces)'
      <4>1. call.replaces # 0 => rows[n].kind # "trash" /\ Source(rows[n].text, call.replaces)
        BY <1>a, <1>2, <1>11 DEF Sound
      <4>2. rows'[calls'[c].row].text = rows[n].text /\ calls'[c].replaces = call.replaces
        BY <1>4, <1>5, <1>7, <3>1
      <4>3. Source(rows[calls[c].row].text, calls[c].replaces)' <=> Source(rows[n].text, call.replaces)
        BY <1>2, <4>2 DEF Source
      <4>4. QED
        BY <1>4, <1>5, <3>1, <4>1, <4>3
    <3>6. z.say \in {"done", "queued"} \cup Bad
      BY <1>13, <2>2, <3>1
    <3>7. QED
      BY <1>3, <1>7, <1>8, <3>1, <3>2, <3>3, <3>4, <3>5, <3>6 DEF Sound, Succeeded, Pushing
  <2>3. QED
    BY <2>1, <2>2
<1>17. ASSUME NEW d \in Callers PROVE Sound(d)'
  <2>1. CASE d = c
    BY <1>16, <2>1
  <2>2. CASE d # c
    <3>1. calls'[d] = calls[d]
      BY <1>7, <2>2
    <3>2. Active(calls[d]) => rows'[calls[d].row] = rows[calls[d].row]
      BY <1>5, <1>12, <2>2
    <3>3. calls[d].stage = "follow" => rows'[calls[d].row].told = rows[calls[d].row].told
      <4>1. ASSUME calls[d].stage = "follow" PROVE rows'[calls[d].row].told = rows[calls[d].row].told
        <5>1. calls[d].row \in DOMAIN rows /\ rows[calls[d].row].told = "done"
          BY <1>0, <4>1, NoCallTyped, CallKnown DEF Sound
        <5>2. CASE calls[d].row = n
          BY <1>1, <1>3, <1>5, <5>1, <5>2
        <5>3. CASE calls[d].row # n
          BY <1>5, <5>1, <5>3
        <5>4. QED
          BY <5>2, <5>3
      <4>2. QED
        BY <4>1
    <3>4. QED
      BY <1>2, <1>9, <3>1, <3>2, <3>3, SoundStays
  <2>3. QED
    BY <2>1, <2>2
<1>18. Replays(calls'[0])
  <2>1. CASE c = 0
    BY <1>1, <1>7, <2>1, NoCallTyped DEF Replays
  <2>2. CASE c # 0
    BY <1>0, <1>7, <2>2 DEF Callers
  <2>3. QED
    BY <2>1, <2>2
<1>19. Apart'
  BY <1>0, <1>7, <1>8 DEF Apart
<1>20. ScreenNamed' /\ AnswersWent'
  BY <1>0, <1>2 DEF ScreenNamed, MailAt, AnswersWent
<1>21. MailNamed' /\ MailThrown' /\ Carried'
  BY <1>2, <1>9, ProviderStands
<1>22. \A r \in DOMAIN rows : /\ rows'[r].by = rows[r].by /\ rows'[r].kind = rows[r].kind
                              /\ rows[r].told # "" => rows'[r].told = rows[r].told
  BY <1>1, <1>3, <1>4, <1>5
<1>23. \A d \in Callers : calls'[d].by = calls[d].by \/ calls'[d].by = 0
  BY <1>a, <1>1, <1>7, NoCallTyped
<1>24. Ordered'
  <2>1. \A d \in Callers : calls'[d].by \in 0 .. opened
    <3>1. 0 \in 0 .. opened
      BY <1>0 DEF Typed
    <3>2. QED
      BY <1>0, <1>23, <3>1 DEF Ordered
  <2>2. QED
    BY <1>0, <1>2, <1>5, <1>22, <2>1 DEF Ordered
<1>25. ASSUME NEW d \in Callers, calls'[d].by # 0
       PROVE  /\ calls'[d].by = calls[d].by
              /\ \A r \in DOMAIN rows : Heard(r, rows[r].told, calls[d])
                    => Heard(r, rows'[r].told, calls'[d])
  <2>1. ASSUME NEW r \in DOMAIN rows, Heard(r, rows[r].told, calls[d])
        PROVE  Heard(r, rows'[r].told, calls'[d])
    <3>1. CASE rows[r].told \in Bad
      BY <1>22, <3>1 DEF Heard, Bad
    <3>2. CASE d = c
      <4>1. c # 0 /\ z.say = w.told /\ z.stage \in {"follow", "report"}
        BY <1>1, <1>7, <1>25, <3>2, NoCallTyped
      <4>2. CASE r = n
        BY <1>5, <1>7, <3>2, <4>1, <4>2 DEF Heard
      <4>3. CASE r # n
        <5>1. rows[r].told \in Bad \/ call.say = "done"
          BY <1>a, <1>2, <2>1, <3>2, <4>3 DEF Heard
        <5>2. call.say = "done" => z.say = "done"
          BY <1>13, <4>1
        <5>3. QED
          BY <1>7, <1>22, <3>2, <5>1, <5>2 DEF Heard, Bad
      <4>4. QED
        BY <4>2, <4>3
    <3>3. CASE d # c
      <4>1. calls'[d] = calls[d]
        BY <1>7, <3>3
      <4>2. calls[d].stage \in {"follow", "report"} => calls[d].say # ""
        BY <1>0 DEF Sound, Bad
      <4>3. QED
        BY <1>22, <2>1, <4>1, <4>2 DEF Heard, Bad
    <3>4. QED
      BY <3>2, <3>3
  <2>2. QED
    BY <1>23, <1>25, <2>1
<1>26. Guarded'
  BY <1>0, <1>2, <1>5, <1>22, <1>25, GuardedStays DEF Bad
<1>27. Asked'
  BY <1>0, <1>2, <1>5, <1>22, AskedStays DEF Bad
<1>28. QED
  BY <1>10, <1>15, <1>17, <1>18, <1>19, <1>20, <1>21, <1>24, <1>26, <1>27, Together


\* The answer reported, and the composer on top closed or given back.
LEMMA ReportKept ==
    ASSUME IInv, NEW c \in Callers, Report(c)
    PROVE  IInv'
<1>0. /\ Typed /\ Named /\ (\A d \in Callers : Sound(d)) /\ (\A r \in DOMAIN rows : RowSound(r))
      /\ Replays(calls[0]) /\ Apart /\ ScreenNamed /\ MailNamed /\ MailThrown /\ AnswersWent
      /\ Carried /\ Progress /\ Ordered /\ Guarded /\ Asked
  BY Apiece
<1>1. /\ calls[c].stage = "report" /\ UNCHANGED provider
      /\ setting' = setting /\ texts' = texts /\ mail' = mail /\ delivered' = delivered
      /\ rows' = rows /\ index' = index /\ deleted' = deleted /\ answered' = answered
      /\ opened' = opened /\ loads' = loads /\ seq' = seq
  BY DEF Report, provider
<1>2. /\ calls'[c] = NoCall /\ calls' \in [Callers -> CallRecs]
      /\ \A d \in Callers : d # c => calls'[d] = calls[d]
  BY <1>0, NoCallTyped DEF Typed, Report
<1>3. PICK by, n : by = calls[c].by /\ n = Top.n
  OBVIOUS
<1>4. \/ composers' = composers /\ crossed' = crossed
      \/ /\ Composing /\ by # 0 /\ crossed' = crossed \cup ({n} \ {by})
         /\ composers' = IF calls[c].say \in {"done", "queued"} THEN Front(composers)
                         ELSE [composers EXCEPT ![Len(composers)].sending = FALSE]
  BY <1>3 DEF Report
\* Every composer that is left was there; one given back was on top.
<1>5. /\ composers' \in Seq(ComposerRecs)
      /\ \A i \in DOMAIN composers' :
            /\ i \in DOMAIN composers /\ composers'[i].n = composers[i].n
            /\ composers'[i].draft = composers[i].draft
            /\ composers'[i].sending = composers[i].sending
               \/ (composers[i].n = n /\ calls[c].say \in Bad /\ by # 0 /\ crossed' = crossed \cup ({n} \ {by}))
  <2>1. composers \in Seq(ComposerRecs)
    BY <1>0 DEF Typed
  <2>2. CASE composers' = composers
    BY <2>1, <2>2
  <2>3. CASE Composing /\ composers' = Front(composers)
    BY <1>0, <2>3, FrontIs
  <2>4. CASE /\ Composing /\ by # 0 /\ crossed' = crossed \cup ({n} \ {by})
             /\ calls[c].say \notin {"done", "queued"}
             /\ composers' = [composers EXCEPT ![Len(composers)].sending = FALSE]
    <3>1. calls[c].say \in Bad
      BY <1>0, <1>1, <2>4 DEF Sound
    <3>2. /\ Len(composers) \in DOMAIN composers /\ composers[Len(composers)].n = n
          /\ composers[Len(composers)] \in ComposerRecs
      BY <1>0, <1>3, <2>4, TopIs
    <3>3. PICK l \in DOMAIN composers : l = Len(composers)
      BY <3>2
    <3>4. PICK m : m = [composers[l] EXCEPT !.sending = FALSE]
      OBVIOUS
    <3>5. m \in ComposerRecs /\ m.n = n /\ m.draft = composers[l].draft /\ composers[l].n = n
      BY <3>2, <3>3, <3>4 DEF ComposerRecs
    <3>6. composers' = [composers EXCEPT ![l] = m]
      BY <2>4, <3>3, <3>4
    <3>7. /\ composers' \in Seq(ComposerRecs) /\ DOMAIN composers' = DOMAIN composers
          /\ composers'[l] = m /\ \A i \in DOMAIN composers : i # l => composers'[i] = composers[i]
      BY <2>1, <3>5, <3>6
    <3>8. QED
      BY <2>4, <3>1, <3>5, <3>7
  <2>5. QED
    BY <1>4, <2>2, <2>3, <2>4
<1>6. crossed \subseteq crossed'
  BY <1>4
<1>7. Past
  BY <1>1 DEF Past
<1>8. Typed'
  BY <1>0, <1>1, <1>2, <1>5 DEF Typed
<1>9. ASSUME NEW d \in Callers PROVE Sound(d)'
  <2>1. CASE d = c
    BY <1>2, <2>1, NoCallSound
  <2>2. CASE d # c
    BY <1>1, <1>2, <1>7, <2>2, SoundStays
  <2>3. QED
    BY <2>1, <2>2
<1>10. \A r \in DOMAIN rows' : RowSound(r)'
  BY <1>1, <1>7, RowSoundStays
<1>11. Replays(calls'[0])
  <2>1. Replays(NoCall)
    BY NoCallTyped DEF Replays
  <2>2. QED
    BY <1>0, <1>2, <2>1 DEF Callers
<1>12. Apart'
  BY <1>0, <1>2, NoCallTyped DEF Apart
<1>13. ScreenNamed' /\ AnswersWent'
  BY <1>0, <1>1, <1>5 DEF ScreenNamed, MailAt, AnswersWent
<1>14. MailNamed' /\ MailThrown' /\ Carried'
  BY <1>1, <1>7, ProviderStands
<1>15. \A d \in Callers : calls'[d].by = 0 \/ (d # c /\ calls'[d] = calls[d])
  BY <1>2, NoCallTyped
<1>16. Ordered'
  <2>1. \A d \in Callers : calls'[d].by \in 0 .. opened
    <3>1. 0 \in 0 .. opened
      BY <1>0 DEF Typed
    <3>2. QED
      BY <1>0, <1>15, <3>1 DEF Ordered
  <2>2. QED
    BY <1>0, <1>1, <1>5, <2>1 DEF Ordered
<1>17. Guarded'
  <2>1. ASSUME NEW i \in DOMAIN composers', composers'[i].n \notin {0} \cup crossed',
               ~composers'[i].sending
        PROVE  /\ \A d \in Callers : calls'[d].by # composers'[i].n
               /\ \A r \in DOMAIN rows : (rows[r].by = composers'[i].n /\ rows[r].kind = "send")
                     => rows[r].told \in Bad
    <3>1. Own(composers'[i].n)
      BY <1>6, <2>1 DEF Own
    <3>2. CASE composers'[i].sending = composers[i].sending
      <4>1. i \in DOMAIN composers /\ Own(composers[i].n) /\ ~composers[i].sending
            /\ composers'[i].n = composers[i].n
        BY <1>5, <2>1, <3>1, <3>2
      <4>2. QED
        BY <1>0, <1>15, <2>1, <4>1 DEF Guarded
    <3>3. CASE /\ composers[i].n = n /\ calls[c].say \in Bad /\ by # 0
               /\ crossed' = crossed \cup ({n} \ {by})
      <4>1. composers'[i].n = by /\ Own(calls[c].by)
        BY <1>3, <1>5, <2>1, <3>1, <3>3
      <4>2. \A d \in Callers : calls'[d].by # by
        BY <1>0, <1>3, <1>15, <3>3, <4>1 DEF Guarded
      <4>3. ~Active(calls[c]) /\ calls[c].say # "done"
        BY <1>1, <3>3 DEF Active, Pushing, Bad
      <4>4. \A r \in DOMAIN rows : (rows[r].by = by /\ rows[r].kind = "send")
               => Heard(r, rows[r].told, calls[c])
        BY <1>0, <1>3, <4>1 DEF Guarded
      <4>5. QED
        BY <3>3, <4>1, <4>2, <4>3, <4>4 DEF Heard
    <3>4. QED
      BY <1>5, <3>2, <3>3
  <2>2. ASSUME NEW d \in Callers, NEW e \in Callers, calls'[d].by \notin {0} \cup crossed',
               calls'[e].by = calls'[d].by
        PROVE  d = e
    BY <1>0, <1>6, <1>15, <2>2 DEF Guarded, Own
  <2>3. ASSUME NEW d \in Callers, NEW r \in DOMAIN rows, calls'[d].by \notin {0} \cup crossed',
               rows[r].by = calls'[d].by, rows[r].kind = "send"
        PROVE  Heard(r, rows[r].told, calls'[d])
    BY <1>0, <1>6, <1>15, <2>3 DEF Guarded, Own
  <2>4. QED
    BY <1>1, <2>1, <2>2, <2>3 DEF Guarded, Own
<1>18. Asked'
  BY <1>0, <1>1, <1>6, AskedStays
<1>19. QED
  BY <1>8, <1>9, <1>10, <1>11, <1>12, <1>13, <1>14, <1>16, <1>17, <1>18, Together


\* The pushes of a process that dies are cut short.
LEMMA CrashKept ==
    ASSUME IInv, Crash
    PROVE  IInv'
<1>0. /\ Typed /\ Named /\ (\A d \in Callers : Sound(d)) /\ (\A r \in DOMAIN rows : RowSound(r))
      /\ Replays(calls[0]) /\ Apart /\ ScreenNamed /\ MailNamed /\ MailThrown /\ AnswersWent
      /\ Carried /\ Progress /\ Ordered /\ Guarded /\ Asked
  BY Apiece
<1>1. PICK cs \in SUBSET Callers :
        /\ Abandon(cs)
        /\ \/ UNCHANGED screen
           \/ /\ \A c \in Callers : calls[c].by # 0 => c \in cs
              /\ composers' = <<>> /\ loads' = {} /\ UNCHANGED <<opened, seq, crossed>>
  <2>1. CASE \E c \in Callers : Abandon({c}) /\ UNCHANGED screen
    BY <2>1
  <2>2. CASE /\ Abandon({c \in Callers : calls[c].by # 0})
             /\ composers' = <<>> /\ loads' = {} /\ UNCHANGED <<opened, seq, crossed>>
    BY <2>2
  <2>3. QED
    BY <2>1, <2>2 DEF Crash
<1>2. /\ UNCHANGED provider
      /\ setting' = setting /\ texts' = texts /\ mail' = mail /\ delivered' = delivered
      /\ index' = index /\ deleted' = deleted /\ answered' = answered
  BY DEF Crash, provider
<1>3. /\ \A c \in Callers : calls'[c] = IF c \in cs THEN NoCall ELSE calls[c]
      /\ calls' \in [Callers -> CallRecs]
  BY <1>0, <1>1, NoCallTyped DEF Typed, Abandon
<1>4. /\ rows \in Seq(RowRecs) /\ Len(rows) \in Nat /\ DOMAIN rows = 1 .. Len(rows)
      /\ \A r \in DOMAIN rows : rows[r] \in RowRecs
  <2>1. rows \in Seq(RowRecs)
    BY <1>0 DEF Typed
  <2>2. QED
    BY <2>1
<1>5. DOMAIN rows' = DOMAIN rows
  BY <1>1 DEF Abandon
<1>6. ASSUME NEW r \in DOMAIN rows
      PROVE  \/ rows'[r] = rows[r]
             \/ /\ rows'[r] = [rows[r] EXCEPT !.held = FALSE, !.cut = @ + 1]
                /\ \E c \in cs : calls[c].row = r /\ Active(calls[c])
  BY <1>1 DEF Abandon, Active
\* A row that is cut short was held.
<1>7. ASSUME NEW r \in DOMAIN rows, rows'[r] # rows[r]
      PROVE  /\ \E c \in cs : calls[c].row = r /\ Active(calls[c])
             /\ rows[r].held /\ rows'[r] \in RowRecs /\ ~rows'[r].held
             /\ rows'[r].cut = rows[r].cut + 1 /\ rows[r].cut \in Nat
             /\ rows'[r].kind = rows[r].kind /\ rows'[r].text = rows[r].text
             /\ rows'[r].env = rows[r].env /\ rows'[r].id = rows[r].id
             /\ rows'[r].by = rows[r].by /\ rows'[r].told = rows[r].told
             /\ rows'[r].state = rows[r].state
  <2>1. PICK c \in cs : calls[c].row = r /\ Active(calls[c])
    BY <1>6, <1>7
  <2>2. rows[r].held
    BY <1>0, <2>1 DEF Sound, Owns
  <2>3. rows[r] \in RowRecs /\ rows[r].cut \in Nat /\ rows[r].cut + 1 \in Nat
    BY <1>4 DEF RowRecs
  <2>4. rows'[r] = [rows[r] EXCEPT !.held = FALSE, !.cut = rows[r].cut + 1]
    BY <1>6, <1>7
  <2>5. QED
    BY <2>1, <2>2, <2>3, <2>4 DEF RowRecs
<1>8. \A r \in DOMAIN rows :
         /\ rows'[r] \in RowRecs
         /\ rows'[r].kind = rows[r].kind /\ rows'[r].text = rows[r].text
         /\ rows'[r].env = rows[r].env /\ rows'[r].id = rows[r].id
         /\ rows'[r].by = rows[r].by /\ rows'[r].told = rows[r].told
         /\ rows'[r].state = rows[r].state
  BY <1>4, <1>7
<1>9. rows' \in Seq(RowRecs)
  <2>1. rows' = [r \in DOMAIN rows |-> rows'[r]]
    BY <1>1 DEF Abandon
  <2>2. rows' = [r \in 1 .. Len(rows) |-> rows'[r]]
    BY <1>4, <2>1
  <2>3. QED
    BY <1>4, <1>8, <2>2
<1>10. Past
  BY <1>2, <1>5, <1>8 DEF Past
<1>11. /\ opened' = opened /\ seq' = seq /\ crossed' = crossed
       /\ \/ composers' = composers /\ loads' = loads
          \/ /\ composers' = <<>> /\ loads' = {}
             /\ \A c \in Callers : calls'[c].by = 0
  <2>1. CASE UNCHANGED screen
    BY <2>1 DEF screen
  <2>2. CASE /\ \A c \in Callers : calls[c].by # 0 => c \in cs
             /\ composers' = <<>> /\ loads' = {} /\ UNCHANGED <<opened, seq, crossed>>
    BY <1>3, <2>2, NoCallTyped
  <2>3. QED
    BY <1>1, <2>1, <2>2
<1>12. Typed'
  <2>1. composers' \in Seq(ComposerRecs) /\ loads' \subseteq [seq : Nat, draft : Nat]
    <3>1. <<>> \in Seq(ComposerRecs) /\ {} \subseteq [seq : Nat, draft : Nat]
      OBVIOUS
    <3>2. composers \in Seq(ComposerRecs) /\ loads \subseteq [seq : Nat, draft : Nat]
      BY <1>0 DEF Typed
    <3>3. QED
      BY <1>11, <3>1, <3>2
  <2>2. QED
    BY <1>0, <1>2, <1>3, <1>9, <1>11, <2>1 DEF Typed
<1>13. ASSUME NEW d \in Callers PROVE Sound(d)'
  <2>1. CASE d \in cs
    BY <1>3, <2>1, NoCallSound
  <2>2. CASE d \notin cs
    <3>1. calls'[d] = calls[d]
      BY <1>3, <2>2
    <3>2. (Active(calls[d]) \/ calls[d].stage = "follow") => calls[d].row \in DOMAIN rows
      BY <1>0, NoCallTyped, CallKnown
    <3>3. Active(calls[d]) => rows'[calls[d].row] = rows[calls[d].row]
      BY <1>0, <1>7, <2>2, <3>2 DEF Apart
    <3>4. (Active(calls[d]) \/ calls[d].stage = "follow") =>
             rows'[calls[d].row].told = rows[calls[d].row].told
      BY <1>8, <3>2
    <3>5. QED
      BY <1>2, <1>10, <3>1, <3>3, <3>4, SoundStays
  <2>3. QED
    BY <2>1, <2>2
<1>14. ASSUME NEW r \in DOMAIN rows' PROVE RowSound(r)'
  <2>1. CASE rows'[r] = rows[r]
    BY <1>2, <1>5, <1>10, <2>1, RowSoundStays
  <2>2. CASE rows'[r] # rows[r]
    <3>1. /\ rows[r].held /\ ~rows'[r].held /\ rows'[r].cut = rows[r].cut + 1
          /\ rows[r].cut \in Nat /\ rows'[r].told = rows[r].told /\ RowSound(r)
      BY <1>0, <1>5, <1>7, <2>2
    <3>2. delivered \in Seq(DeliveryRecs)
      BY <1>0 DEF Typed
    <3>3. Count(delivered, r) \in Nat
      BY <3>2, CountType
    <3>4. Paid(r)' /\ Unsent(r)'
      BY <1>2, <3>1, <3>3 DEF RowSound, Paid, Unsent
    <3>5. rows'[r].told # "refused" /\ (rows'[r].told = "done" => Achieved(r))
      BY <3>1 DEF RowSound
    <3>6. QED
      BY <1>2, <1>5, <1>10, <3>4, <3>5, RowKept DEF RowSound
  <2>3. QED
    BY <2>1, <2>2
<1>15. Replays(calls'[0])
  <2>1. Replays(NoCall)
    BY NoCallTyped DEF Replays
  <2>2. QED
    BY <1>0, <1>3, <2>1 DEF Callers
<1>16. Apart'
  BY <1>0, <1>3, NoCallTyped DEF Apart
<1>17. ScreenNamed' /\ AnswersWent'
  BY <1>0, <1>2, <1>11 DEF ScreenNamed, MailAt, AnswersWent
<1>18. MailNamed' /\ MailThrown' /\ Carried'
  BY <1>2, <1>10, ProviderStands
<1>19. Ordered'
  <2>1. \A d \in Callers : calls'[d].by \in 0 .. opened
    <3>1. 0 \in 0 .. opened
      BY <1>0 DEF Typed
    <3>2. QED
      BY <1>0, <1>3, <3>1, NoCallTyped DEF Ordered
  <2>2. QED
    BY <1>0, <1>5, <1>8, <1>11, <2>1 DEF Ordered
<1>20. Guarded'
  <2>1. CASE composers' = composers
    <3>1. \A d \in Callers : calls'[d].by = 0 \/ calls'[d] = calls[d]
      BY <1>3, NoCallTyped
    <3>2. QED
      BY <1>0, <1>5, <1>8, <1>11, <2>1, <3>1, GuardedStays
  <2>2. CASE composers' = <<>> /\ \A c \in Callers : calls'[c].by = 0
    BY <2>2 DEF Guarded, Own
  <2>3. QED
    BY <1>11, <2>1, <2>2
<1>21. Asked'
  BY <1>0, <1>5, <1>8, <1>11, AskedStays
<1>22. QED
  BY <1>12, <1>13, <1>14, <1>15, <1>16, <1>17, <1>18, <1>19, <1>20, <1>21, Together


\* A row written and its push begun.
LEMMA QueueKept ==
    ASSUME IInv, NEW c \in Callers, Queue(c)
    PROVE  IInv'
<1>0. /\ Typed /\ Named /\ (\A d \in Callers : Sound(d)) /\ (\A r \in DOMAIN rows : RowSound(r))
      /\ Replays(calls[0]) /\ Apart /\ ScreenNamed /\ MailNamed /\ MailThrown /\ AnswersWent
      /\ Carried /\ Progress /\ Ordered /\ Guarded /\ Asked
  BY Apiece
<1>1. PICK row, z : /\ Fresh(row, z) /\ Asker(c, row, z.say)
                    /\ rows' = Append(rows, row) /\ calls' = [calls EXCEPT ![c] = z]
  BY DEF Queue
<1>2. PICK n : n = Len(rows) + 1
  OBVIOUS
<1>3. /\ row \in RowRecs /\ row.held /\ row.state = "pending" /\ row.told = "" /\ row.cut = 0
      /\ z \in CallRecs /\ z.row = n /\ z.stage = FirstStage(row.kind)
      /\ z.id = 0 /\ z.err = "" /\ ~z.dead /\ z.by = row.by
      /\ z.say = "" \/ (z.say = "done" /\ row.kind = "trash")
      /\ z.reply => row.kind = "send"
      /\ row.text \in DOMAIN texts'
      /\ row.env => ~texts'[row.text].header
  BY <1>1, <1>2 DEF Fresh
<1>4. /\ row.kind = "trash" => row.id \in DOMAIN mail /\ (row.id \in deleted' \/ Copied(row.id))
      /\ z.replaces # 0 =>
            /\ z.replaces \in DOMAIN mail /\ row.kind # "trash"
            /\ row.text = mail[z.replaces].text \/ texts'[row.text].of = z.replaces
  BY <1>1 DEF Fresh
<1>5. /\ c # 0 /\ ~Active(calls[c]) /\ TextsGrow /\ AnswersGrow /\ UNCHANGED provider
      /\ setting' = setting /\ mail' = mail /\ delivered' = delivered
      /\ index' \subseteq DOMAIN mail /\ deleted \subseteq deleted'
  BY DEF Queue, provider
<1>6. /\ n \in Nat /\ n \notin DOMAIN rows /\ DOMAIN rows' = DOMAIN rows \cup {n}
      /\ rows' \in Seq(RowRecs) /\ rows'[n] = row
      /\ (\A r \in DOMAIN rows : rows'[r] = rows[r] /\ r < n)
  <2>1. rows \in Seq(RowRecs) /\ row \in RowRecs /\ n = Len(rows) + 1 /\ rows' = Append(rows, row)
    BY <1>0, <1>1, <1>2, <1>3 DEF Typed
  <2>2. Len(rows) \in Nat /\ DOMAIN rows = 1 .. Len(rows)
    BY <2>1
  <2>3. /\ n \in Nat /\ n \notin DOMAIN rows /\ \A r \in DOMAIN rows : r < n
        /\ 1 .. n = 1 .. Len(rows) \cup {n}
    BY ONLY <2>1, <2>2
  <2>4. /\ DOMAIN rows' = 1 .. n /\ rows' \in Seq(RowRecs) /\ rows'[n] = row
        /\ \A r \in DOMAIN rows : rows'[r] = rows[r]
    BY ONLY <2>1, <2>2
  <2>5. QED
    BY <2>2, <2>3, <2>4
<1>7. /\ calls'[c] = z /\ calls' \in [Callers -> CallRecs]
      /\ \A d \in Callers : d # c => calls'[d] = calls[d]
  BY <1>0, <1>1, <1>3 DEF Typed
<1>8. texts' \in Seq(TextRecs) /\ \A t \in DOMAIN texts : t \in DOMAIN texts' /\ texts'[t] = texts[t]
  <2>1. texts \in Seq(TextRecs)
    BY <1>0 DEF Typed
  <2>2. CASE texts' = texts
    BY <2>1, <2>2
  <2>3. ASSUME NEW t \in TextRecs, texts' = Append(texts, t)
        PROVE  texts' \in Seq(TextRecs)
               /\ \A i \in DOMAIN texts : i \in DOMAIN texts' /\ texts'[i] = texts[i]
    BY ONLY <2>1, <2>3
  <2>4. QED
    BY <1>5, <2>2, <2>3 DEF TextsGrow
<1>9. Past
  BY <1>5, <1>6, <1>8 DEF Past
\* The screen is as it was, or the composer on top is locked.
<1>10. /\ composers' \in Seq(ComposerRecs) /\ opened' = opened /\ loads' = loads /\ seq' = seq
       /\ crossed' = crossed /\ DOMAIN composers' = DOMAIN composers
       /\ \A i \in DOMAIN composers : /\ composers'[i].n = composers[i].n
                                      /\ composers'[i].draft = composers[i].draft
                                      /\ composers[i].sending => composers'[i].sending
       /\ \/ row.by = 0
          \/ calls[c].stage = "follow" /\ row.by = calls[c].by /\ row.kind = "trash" /\ z.say = "done"
          \/ \E l \in DOMAIN composers : /\ row.by = composers[l].n /\ ~composers[l].sending
                                         /\ composers'[l].sending
  <2>1. CASE UNCHANGED screen
    <3>1. /\ composers' = composers /\ opened' = opened /\ loads' = loads /\ seq' = seq
          /\ crossed' = crossed /\ composers \in Seq(ComposerRecs)
      BY <1>0, <2>1 DEF screen, Typed
    <3>2. \/ row.by = 0
          \/ calls[c].stage = "follow" /\ row.by = calls[c].by /\ row.kind = "trash" /\ z.say = "done"
          \/ \E l \in DOMAIN composers : /\ row.by = composers[l].n /\ ~composers[l].sending
                                         /\ composers'[l].sending
      <4>1. CASE Composing /\ Locked
        <5>1. Len(composers) \in DOMAIN composers
          BY <1>0, <4>1, TopIs
        <5>2. composers'[Len(composers)].sending = TRUE
          BY <3>1, <4>1, <5>1 DEF Locked, Typed, ComposerRecs
        <5>3. QED
          BY <1>0, <1>1, <3>1, <5>1, <5>2, TopIs DEF Asker
      <4>2. CASE ~(Composing /\ Locked)
        BY <1>1, <4>2 DEF Asker
      <4>3. QED
        BY <4>1, <4>2
    <3>3. QED
      BY <3>1, <3>2
  <2>2. CASE /\ Composing /\ ~Top.sending /\ row.by = Top.n /\ Locked
             /\ UNCHANGED <<opened, loads, seq, crossed>>
    <3>1. PICK l \in DOMAIN composers : l = Len(composers) /\ composers[l] = Top
      BY <1>0, <2>2, TopIs
    <3>2. PICK m : m = [composers[l] EXCEPT !.sending = TRUE]
      OBVIOUS
    <3>3. composers \in Seq(ComposerRecs) /\ composers[l] \in ComposerRecs
      BY <1>0 DEF Typed
    <3>4. m \in ComposerRecs /\ m.n = composers[l].n /\ m.draft = composers[l].draft /\ m.sending
      BY <3>2, <3>3 DEF ComposerRecs
    <3>5. composers' = [composers EXCEPT ![l] = m]
      BY <2>2, <3>1, <3>2 DEF Locked
    <3>6. /\ composers' \in Seq(ComposerRecs) /\ DOMAIN composers' = DOMAIN composers
          /\ composers'[l] = m /\ \A i \in DOMAIN composers : i # l => composers'[i] = composers[i]
      BY <3>3, <3>4, <3>5
    <3>7. \A i \in DOMAIN composers : /\ composers'[i].n = composers[i].n
                                      /\ composers'[i].draft = composers[i].draft
                                      /\ composers[i].sending => composers'[i].sending
      BY <3>4, <3>6
    <3>8. row.by = composers[l].n /\ ~composers[l].sending /\ composers'[l].sending
      BY <2>2, <3>1, <3>4, <3>6
    <3>9. QED
      BY <2>2, <3>6, <3>7, <3>8
  <2>3. QED
    BY <1>1, <2>1, <2>2 DEF Asker
<1>11. Typed'
  BY <1>0, <1>5, <1>6, <1>7, <1>8, <1>10 DEF Typed
<1>12. /\ FirstStage(row.kind) \in Path(row.kind)
       /\ FirstStage(row.kind) \in Pushing \ {"file", "adopt", "submit"}
  BY <1>0, <1>3, PathSteps DEF RowRecs
<1>13. Active(z) /\ z.stage \notin {"follow", "report", "record", "", "file", "adopt", "submit"}
       /\ z.stage \in Pushing
  BY <1>3, <1>12 DEF Active, Pushing
<1>14. Count(delivered, n) = 0
  BY <1>0, <1>6, CountNone DEF Carried, OfRow
<1>a. /\ rows'[n].cut = 0 /\ calls'[c].row = n /\ rows'[n].by = row.by /\ calls'[c].by = row.by
      /\ Count(delivered', n) = 0
  BY <1>3, <1>5, <1>6, <1>7, <1>14
<1>b. Unsent(n)' /\ Paid(n)'
  <2>1. 0 <= 0 /\ 0 <= 1 + 0
    OBVIOUS
  <2>2. QED
    BY <1>a, <2>1 DEF Unsent, Paid
<1>15. Sound(c)'
  <2>1. CallFits(calls[c])'
    BY <1>3, <1>4, <1>5, <1>6, <1>7, <1>13 DEF CallFits, MailAt
  <2>2. Owns(calls'[c], rows'[calls'[c].row]) /\ Asks(calls'[c], rows'[calls'[c].row])
    BY <1>3, <1>6, <1>7 DEF Owns, Asks
  <2>3. calls'[c].stage \in Path(rows[calls[c].row].kind)'
    BY <1>3, <1>5, <1>6, <1>7, <1>12 DEF Path
  <2>4. Unsent(calls[c].row)'
    BY <1>a, <1>b DEF Unsent
  <2>5. calls'[c].replaces # 0 =>
           rows'[calls'[c].row].kind # "trash" /\ Source(rows[calls[c].row].text, calls[c].replaces)'
    BY <1>3, <1>4, <1>5, <1>6, <1>7 DEF Source
  <2>6. QED
    BY <1>3, <1>6, <1>7, <1>13, <2>1, <2>2, <2>3, <2>4, <2>5 DEF Sound, Succeeded
<1>16. ASSUME NEW d \in Callers PROVE Sound(d)'
  <2>1. CASE d = c
    BY <1>15, <2>1
  <2>2. CASE d # c
    <3>1. (Active(calls[d]) \/ calls[d].stage = "follow") => calls[d].row \in DOMAIN rows
      BY <1>0, NoCallTyped, CallKnown
    <3>2. QED
      BY <1>5, <1>6, <1>7, <1>9, <2>2, <3>1, SoundStays
  <2>3. QED
    BY <2>1, <2>2
<1>17. ASSUME NEW r \in DOMAIN rows' PROVE RowSound(r)'
  <2>1. CASE r \in DOMAIN rows
    BY <1>5, <1>6, <1>9, <2>1, RowSoundStays
  <2>2. CASE r = n
    <3>1. RowFits(rows[r])'
      BY <1>3, <1>4, <1>5, <1>6, <2>2 DEF RowFits, TextAt, MailAt
    <3>2. Paid(r)' /\ Unsent(r)' /\ Count(delivered', r) = 0
      BY <1>a, <1>b, <2>2
    <3>3. rows'[r].kind = "trash" => Replaced(rows[r].id)'
      <4>1. PICK i : i = row.id
        OBVIOUS
      <4>2. row.kind = "trash" => Replaced(i)'
        BY <1>0, <1>4, <1>9, <4>1, CopiedStays DEF Replaced
      <4>3. Replaced(rows[r].id)' <=> Replaced(i)'
        BY <1>6, <2>2, <4>1 DEF Replaced, Copied
      <4>4. QED
        BY <1>6, <2>2, <4>2, <4>3
    <3>4. QED
      BY <1>3, <1>6, <2>2, <3>1, <3>2, <3>3 DEF RowSound
  <2>3. QED
    BY <1>6, <2>1, <2>2
<1>18. Replays(calls'[0])
  BY <1>0, <1>5, <1>7 DEF Callers
<1>19. Apart'
  <2>1. \A d \in Callers : Active(calls[d]) => calls[d].row # n
    BY <1>0, <1>6, NoCallTyped, CallKnown
  <2>2. QED
    BY <1>0, <1>7, <1>a, <2>1 DEF Apart
<1>20. ScreenNamed'
  BY <1>0, <1>5, <1>10 DEF ScreenNamed, MailAt
<1>21. MailNamed' /\ MailThrown' /\ Carried'
  BY <1>5, <1>9, ProviderStands
<1>22. AnswersWent'
  BY <1>0, <1>5, <1>9, AnswersStay DEF AnswersWent
<1>23. Ordered'
  <2>1. row.by \in 0 .. opened
    <3>1. 0 \in 0 .. opened /\ 1 .. opened \subseteq 0 .. opened
      BY <1>0 DEF Typed
    <3>2. QED
      BY <1>0, <1>10, <3>1 DEF Ordered
  <2>2. QED
    <3>1. \A r \in DOMAIN rows' : rows'[r].by \in 0 .. opened
      BY <1>0, <1>6, <2>1 DEF Ordered
    <3>2. \A d \in Callers : calls'[d].by \in 0 .. opened
      BY <1>0, <1>7, <1>a, <2>1 DEF Ordered
    <3>3. QED
      BY <1>0, <1>10, <3>1, <3>2 DEF Ordered
<1>24. /\ z.by = row.by
       /\ \/ row.by = 0
          \/ row.by = calls[c].by /\ row.kind # "send" /\ z.say = "done"
          \/ \E l \in DOMAIN composers : /\ row.by = composers[l].n /\ ~composers[l].sending
                                         /\ composers'[l].sending
  BY <1>3, <1>10
<1>25. Guarded'
  <2>1. ASSUME NEW i \in DOMAIN composers, Own(composers[i].n), ~composers'[i].sending
        PROVE  /\ \A d \in Callers : calls'[d].by # composers[i].n
               /\ \A r \in DOMAIN rows' : (rows'[r].by = composers[i].n /\ rows'[r].kind = "send")
                     => rows'[r].told \in Bad
    <3>1. /\ \A d \in Callers : calls[d].by # composers[i].n
          /\ \A r \in DOMAIN rows : (rows[r].by = composers[i].n /\ rows[r].kind = "send")
                => rows[r].told \in Bad
      BY <1>0, <1>10, <2>1 DEF Guarded
    <3>2. row.by # composers[i].n
      BY <1>0, <1>24, <2>1, <3>1 DEF Ordered, Own
    <3>3. QED
      BY <1>6, <1>7, <1>24, <3>1, <3>2
  <2>2. ASSUME NEW l \in DOMAIN composers, row.by = composers[l].n, ~composers[l].sending, Own(row.by)
        PROVE  /\ \A d \in Callers : calls[d].by # row.by
               /\ \A r \in DOMAIN rows : (rows[r].by = row.by /\ rows[r].kind = "send")
                     => rows[r].told \in Bad
    BY <1>0, <2>2 DEF Guarded
  <2>3. ASSUME NEW d \in Callers, NEW e \in Callers, Own(calls'[d].by), calls'[e].by = calls'[d].by
        PROVE  d = e
    <3>1. CASE d # c /\ e # c
      BY <1>0, <1>7, <2>3, <3>1 DEF Guarded
    <3>2. CASE d = c /\ e = c
      BY <3>2
    <3>3. ASSUME NEW f \in Callers, f # c, calls[f].by = row.by, Own(row.by) PROVE FALSE
      <4>1. row.by # 0
        BY <3>3 DEF Own
      <4>2. CASE row.by = calls[c].by
        BY <1>0, <3>3, <4>2 DEF Guarded
      <4>3. CASE \E l \in DOMAIN composers : row.by = composers[l].n /\ ~composers[l].sending
        BY <2>2, <3>3, <4>3
      <4>4. QED
        BY <1>24, <4>1, <4>2, <4>3
    <3>4. QED
      BY <1>7, <1>24, <2>3, <3>1, <3>2, <3>3
  <2>4. ASSUME NEW d \in Callers, NEW r \in DOMAIN rows', Own(calls'[d].by),
               rows'[r].by = calls'[d].by, rows'[r].kind = "send"
        PROVE  Heard(r, rows'[r].told, calls'[d])
    <3>1. CASE d = c /\ r = n
      BY <1>3, <1>7, <1>13, <3>1 DEF Heard
    <3>2. CASE d = c /\ r # n
      <4>1. r \in DOMAIN rows /\ rows'[r] = rows[r] /\ Own(row.by) /\ rows[r].by = row.by
        BY <1>6, <1>7, <1>24, <2>4, <3>2
      <4>2. CASE z.say = "done"
        BY <1>7, <3>2, <4>2 DEF Heard
      <4>3. CASE \E l \in DOMAIN composers : row.by = composers[l].n /\ ~composers[l].sending
        BY <2>2, <2>4, <4>1, <4>3 DEF Heard
      <4>4. QED
        BY <1>24, <4>1, <4>2, <4>3 DEF Own
    <3>3. CASE d # c /\ r = n
      <4>1. calls[d].by = row.by /\ Own(row.by) /\ row.kind = "send"
        BY <1>6, <1>7, <2>4, <3>3
      <4>2. calls'[c].by = calls'[d].by /\ Own(calls'[d].by)
        BY <1>7, <1>24, <2>4, <3>3, <4>1
      <4>3. QED
        BY <2>3, <3>3, <4>2
    <3>4. CASE d # c /\ r # n
      BY <1>0, <1>6, <1>7, <2>4, <3>4 DEF Guarded
    <3>5. QED
      BY <3>1, <3>2, <3>3, <3>4
  <2>5. QED
    BY <1>10, <2>1, <2>3, <2>4 DEF Guarded, Own
<1>26. Asked'
  <2>1. ASSUME NEW r \in DOMAIN rows', NEW later \in DOMAIN rows', r < later, Own(rows'[r].by),
               rows'[later].by = rows'[r].by, rows'[r].kind = "send", rows'[later].kind = "send"
        PROVE  rows'[r].told \in Bad
    <3>1. r \in DOMAIN rows
      <4>1. r # n
        BY <1>6, <2>1
      <4>2. QED
        BY <1>6, <4>1
    <3>2. CASE later \in DOMAIN rows
      BY <1>0, <1>6, <2>1, <3>1, <3>2 DEF Asked
    <3>3. CASE later = n
      <4>1. rows[r].by = row.by /\ Own(row.by) /\ row.kind = "send" /\ rows[r].kind = "send"
        BY <1>6, <2>1, <3>1, <3>3
      <4>2. \E l \in DOMAIN composers : row.by = composers[l].n /\ ~composers[l].sending
        BY <1>24, <4>1 DEF Own
      <4>3. rows[r].told \in Bad
        BY <1>0, <3>1, <4>1, <4>2 DEF Guarded
      <4>4. QED
        BY <1>6, <3>1, <4>3
    <3>4. QED
      BY <1>6, <3>2, <3>3
  <2>2. QED
    BY <1>10, <2>1 DEF Asked, Own
<1>27. QED
  BY <1>11, <1>16, <1>17, <1>18, <1>19, <1>20, <1>21, <1>22, <1>23, <1>25, <1>26, Together


-----------------------------------------------------------------------------
(* The invariant holds of every state.                                     *)

\* The initial states have the invariant.
LEMMA InitHolds ==
    ASSUME Init
    PROVE  IInv
<1>1. PICK t \in TextRecs : texts = <<t>> /\ t.header \in BOOLEAN
  <2>1. PICK header \in BOOLEAN : texts = <<[of |-> 0, blind |-> FALSE, header |-> header]>>
    BY DEF Init
  <2>2. [of |-> 0, blind |-> FALSE, header |-> header] \in TextRecs
    BY DEF TextRecs
  <2>3. QED
    BY <2>1, <2>2
<1>2. PICK m : m = [text |-> 1, box |-> "drafts"]
  OBVIOUS
<1>3. m \in MailRecs /\ m.text = 1 /\ m.box = "drafts"
  BY <1>2 DEF MailRecs
<1>4. /\ mail = <<m>> /\ delivered = <<>> /\ index = {1} /\ rows = <<>>
      /\ calls = [c \in Callers |-> NoCall] /\ composers = <<>> /\ opened = 0 /\ loads = {}
      /\ seq = 0 /\ crossed = {} /\ answered = {} /\ deleted = {}
  BY <1>2 DEF Init
<1>5. /\ texts \in Seq(TextRecs) /\ DOMAIN texts = {1}
      /\ mail \in Seq(MailRecs) /\ DOMAIN mail = {1} /\ mail[1] = m
      /\ delivered \in Seq(DeliveryRecs) /\ DOMAIN delivered = {}
      /\ rows \in Seq(RowRecs) /\ DOMAIN rows = {}
      /\ composers \in Seq(ComposerRecs) /\ DOMAIN composers = {}
  BY <1>1, <1>3, <1>4
<1>6. setting \in [backend : {"jmap", "gmail", "imap"}, blind : BOOLEAN]
  BY SendAssumption DEF Init
<1>7. 0 \in Callers /\ \A c \in Callers : calls[c] = NoCall
  BY <1>4 DEF Callers
<1>8. Typed
  BY <1>4, <1>5, <1>6, NoCallTyped DEF Typed
<1>9. Named
  BY <1>3, <1>4, <1>5, <1>7 DEF Named, TextAt, CallFits
<1>10. Held /\ OnPath /\ Errors
  BY <1>7, NoCallTyped DEF Held, Replays, OnPath, Errors
<1>11. Sends /\ Carried /\ Bare
  BY <1>5, <1>7, NoCallTyped DEF Sends, Carried, Bare
<1>12. Progress
  BY <1>4, <1>5, <1>7, NoCallTyped DEF Progress, Succeeded
<1>13. Thrown
  BY <1>3, <1>5, <1>7, NoCallTyped DEF Thrown
<1>14. Ordered /\ Guarded /\ Asked
  <2>1. 0 \in 0 .. opened
    BY <1>4
  <2>2. Ordered
    BY <1>5, <1>7, <2>1, NoCallTyped DEF Ordered
  <2>3. Guarded /\ Asked
    BY <1>4, <1>5, <1>7, NoCallTyped DEF Guarded, Asked, Own
  <2>4. QED
    BY <2>2, <2>3
<1>15. QED
  BY <1>8, <1>9, <1>10, <1>11, <1>12, <1>13, <1>14 DEF IInv

\* Every step is of one of these shapes.
LEMMA Shapes ==
    ASSUME IInv, Next
    PROVE  \/ \E c \in Callers : Push(c) \/ Queue(c) \/ Rest(c) \/ Note(c) \/ Report(c)
           \/ \E r \in DOMAIN rows : Replay(r)
           \/ Page \/ Crash
<1>1. ASSUME NEW c \in Callers, Call(c) \/ CallFails(c) \/ Deadline(c)
      PROVE  Push(c)
  BY <1>1, CallPushes, FailurePushes, DeadlinePushes
<1>2. ASSUME NEW c \in Callers, Follow(c)
      PROVE  Queue(c) \/ Rest(c)
  BY <1>2, FollowQueues, FollowRests
<1>3. ASSUME NEW c \in Callers, Applied(c)
      PROVE  Note(c)
  BY <1>3, AppliedNotes
<1>4. ASSUME ReplayEnds
      PROVE  \E c \in Callers : Note(c)
  BY <1>4, ReplayEndNotes
<1>5. ASSUME NEW c \in Callers,
             \/ Delete(c) \/ CommandDraft(c)
             \/ \E kind \in {"send", "draft"} : Submit(c, kind) \/ Command(c, kind)
      PROVE  Queue(c)
  BY <1>5, DeleteQueues, CommandDraftQueues, SubmitQueues, CommandQueues
<1>6. ASSUME Reply \/ ComposeLoaded \/ Blank \/ Cancel \/ Sync
      PROVE  Page
  BY <1>6, ReplyPages, ComposeLoadedPages, BlankPages, CancelPages, SyncPages
<1>7. QED
  BY <1>1, <1>2, <1>3, <1>4, <1>5, <1>6 DEF Next

\* Every step keeps the invariant.
LEMMA IInvKept ==
    ASSUME IInv, [Next]_vars
    PROVE  IInv'
<1>1. CASE Next
  BY <1>1, Shapes, PushKept, QueueKept, RestKept, NoteKept, ReportKept, ReplayKept, PageKept,
     CrashKept
<1>2. CASE UNCHANGED vars
  <2>1. Page
    <3>1. /\ UNCHANGED <<setting, texts, provider, rows, calls, crossed, answered, deleted>>
          /\ UNCHANGED <<index, composers, opened, loads, seq>>
      BY <1>2 DEF vars, provider
    <3>2. Typed /\ Named /\ opened \in Nat /\ opened <= opened
      BY DEF IInv, Typed
    <3>3. QED
      BY <3>1, <3>2 DEF Page, Typed, Named, MailAt
  <2>2. QED
    BY <2>1, PageKept
<1>3. QED
  BY <1>1, <1>2

\* The invariant holds in every reachable state.
LEMMA IInvHolds == Spec => []IInv
<1>1. Init => IInv
  BY InitHolds
<1>2. IInv /\ [Next]_vars => IInv'
  BY IInvKept
<1>3. QED
  BY <1>1, <1>2, PTL DEF Spec

-----------------------------------------------------------------------------
\* A message goes out once, unless a push of it was cut short; and a composer
\* that got no answer but its own asks again only when it was told that the
\* last time failed.
THEOREM SendsOnce == Spec => []SentOnce
<1>1. IInv => SentOnce
  <2> SUFFICES ASSUME IInv PROVE SentOnce
    OBVIOUS
  <2>1. \A r \in DOMAIN rows : Deliveries(r) <= 1 + rows[r].cut
    BY DEF IInv, Sends, Paid, Count, Deliveries
  <2>2. QED
    BY <2>1 DEF IInv, Asked, Own, Bad, SentOnce
<1>2. QED
  BY <1>1, IInvHolds, PTL

\* What the user is told of a message is so: sent, stored, queued or refused,
\* and the original answered.
THEOREM TellsTheTruth == Spec => []ToldTrue
<1>1. IInv => ToldTrue
  <2> SUFFICES ASSUME IInv PROVE ToldTrue
    OBVIOUS
  <2>0. Typed /\ Named /\ Sends /\ Carried /\ Bare /\ Progress
    BY DEF IInv
  <2>1. ASSUME NEW r \in DOMAIN rows, rows[r].told = "done", rows[r].kind = "send"
        PROVE  \E k \in DOMAIN delivered :
                  /\ delivered[k].row = r
                  /\ rows[r].env => /\ Envelope(rows[r].text) \subseteq delivered[k].to
                                    /\ ~delivered[k].seen
    <3>1. PICK k \in DOMAIN delivered : delivered[k].row = r
      BY <2>0, <2>1 DEF Progress, Achieved, Went
    <3>2. delivered[k].to = Reached(rows[r]) /\ delivered[k].seen = Visible(rows[r])
      BY <2>0, <3>1 DEF Carried, OfRow
    <3>3. rows[r].env => Reached(rows[r]) = Envelope(rows[r].text) /\ ~Visible(rows[r])
      BY <2>0 DEF Bare, Reached, Visible
    <3>4. QED
      BY <3>1, <3>2, <3>3
  <2>2. ASSUME NEW r \in DOMAIN rows, rows[r].told = "done", rows[r].kind = "draft"
        PROVE  Holding(rows[r].text) # {}
    BY <2>0, <2>2 DEF Progress, Achieved, Stands, Holding
  <2>3. ASSUME NEW r \in DOMAIN rows
        PROVE  /\ (rows[r].state = "pending" /\ ~rows[r].held /\ rows[r].cut = 0)
                     => Deliveries(r) = 0
               /\ rows[r].told = "refused" => Deliveries(r) = 0
    <3>1. delivered \in Seq(DeliveryRecs)
      BY <2>0 DEF Typed
    <3>2. Count(delivered, r) \in Nat /\ Deliveries(r) = Count(delivered, r)
      BY <3>1, CountType DEF Count, Deliveries
    <3>3. QED
      BY <2>0, <3>2 DEF Sends, Unsent
  <2>4. \A text \in answered : \E k \in DOMAIN delivered : delivered[k].text = text
    BY <2>0 DEF Progress
  <2>5. QED
    BY <2>1, <2>2, <2>3, <2>4 DEF ToldTrue
<1>2. QED
  BY <1>1, IInvHolds, PTL

\* A stored draft is thrown away by the user, or for what really replaced it.
THEOREM DraftsAreKept == Spec => []DraftKept
<1>1. IInv => DraftKept
  BY DEF IInv, Thrown, Replaced, Copied, DraftKept
<1>2. QED
  BY <1>1, IInvHolds, PTL
=============================================================================
