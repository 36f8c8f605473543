-------------------------------- MODULE Compose -------------------------------
(***************************************************************************)
(* Answering and passing on: what is written under the words of a reply or *)
(* a forward, and how it is told from them again, by a reader and by the   *)
(* composer (internal/compose/compose.go, mime/quote.go,                   *)
(* tui/compose_ai.go).                                                     *)
(*                                                                         *)
(* A text is a sequence of lines, each of a kind:                          *)
(*   text, blank; quoted and qattr, after a ">", qattr being an attribution *)
(*   attr    "On Mon 3 May at 10:15, Ann wrote:"                           *)
(*   said    a sentence that starts and ends like one, and has no date     *)
(*   on      a line with a date that starts like one; wrote, one with an   *)
(*           address that ends like one: the halves of a wrapped one       *)
(*   sep     "--- Forwarded message ---"; rule, a row of underscores       *)
(*   from    a "From:" line; fields, the "Sent:", "To:" and "Subject:"     *)
(*   sig     "-- " exactly; dash, "--" and the like; mobile, "Sent from"   *)
(***************************************************************************)
EXTENDS Integers, Sequences, FiniteSets, SequencesExt

CONSTANT MaxSignature \* lines under a "--" that still make a signature

IsQuoted(l) == l \in {"quoted", "qattr"}
Has(lines, i, kinds) == i \in DOMAIN lines /\ lines[i] \in kinds

\* The first so many lines from i on that are not blank.
Upcoming(lines, i, n) ==
    LET rest == SelectSeq(SubSeq(lines, i, Len(lines)), LAMBDA l : l # "blank")
    IN  {rest[k] : k \in DOMAIN rest \cap 1 .. n}

\* Without the lines of these kinds at its end, and without the blank ones around it.
Cut(lines, kinds) == SubSeq(lines, 1, SelectLastInSeq(lines, LAMBDA l : l \notin kinds))
Trim(lines) == Reverse(Cut(Reverse(Cut(lines, {"blank"})), {"blank"}))

-----------------------------------------------------------------------------
(* Where the quote starts: cutIndex, 0 for nowhere.                         *)

\* attributionConfirmed: a date or an address in the line, or a quote below.
Confirmed(lines, i, kinds) ==
    kinds \cap {"attr", "qattr", "on", "wrote"} # {}
    \/ \E l \in Upcoming(lines, i + 1, 3) : IsQuoted(l)

\* A line that is one, or one that is wrapped over two lines or three.
Attribution(lines, i) ==
    \/ Has(lines, i, {"attr", "qattr", "said"}) /\ Confirmed(lines, i, {lines[i]})
    \/ /\ Has(lines, i, {"attr", "said", "on"})
       /\ \E n \in 1 .. 2 : /\ Has(lines, i + n, {"attr", "said", "wrote"})
                            /\ Confirmed(lines, i, {lines[k] : k \in i .. i + n})

\* outlookHeaderAt: the fields follow within five lines, blank ones between.
OutlookHeader(lines, i) ==
    /\ lines[i] = "from"
    /\ \E n \in 1 .. 5 : /\ Has(lines, i + n, {"fields"})
                         /\ \A k \in i + 1 .. i + n - 1 : lines[k] = "blank"

Separator(lines, i) ==
    \/ lines[i] = "sep"
    \/ lines[i] = "rule" /\ "from" \in Upcoming(lines, i + 1, 4)

CutIndex(lines) ==
    LET at == {i \in DOMAIN lines : \/ Separator(lines, i) \/ Attribution(lines, i)
                                    \/ OutlookHeader(lines, i)}
    IN  IF at = {} THEN 0 ELSE Min(at)

SplitQuote(lines) ==
    LET i == CutIndex(lines)
    IN  IF i = 0 THEN <<lines, <<>>>> ELSE <<SubSeq(lines, 1, i - 1), SubSeq(lines, i, Len(lines))>>

-----------------------------------------------------------------------------
(* What a reader is shown: SplitReadable and StripQuotes.                   *)

SignatureBlock(rest) ==
    LET block == Cut(rest, {"blank"})
    IN  /\ Len(block) \in 1 .. MaxSignature
        /\ \A i \in DOMAIN block : block[i] # "blank" /\ ~IsQuoted(block[i])

CutSignature(lines) ==
    LET at == {i \in 2 .. Len(lines) :
                  \/ lines[i] = "sig"
                  \/ lines[i] = "dash" /\ SignatureBlock(SubSeq(lines, i + 1, Len(lines)))}
    IN  IF at = {} THEN lines ELSE SubSeq(lines, 1, Min(at) - 1)

\* Footers and quotes go from the end as long as there are any.
Peel(lines) == Cut(lines, {"blank", "mobile", "quoted", "qattr"})

\* Mutant of SplitReadable: a message that is all quote is shown as nothing.
SplitReadable_Bare(text) ==
    LET all  == Trim(text)
        kept == Peel(CutSignature(SplitQuote(all)[1]))
    IN  <<Trim(kept), Trim(SubSeq(all, Len(kept) + 1, Len(all)))>>

SplitReadable(text) ==
    LET all  == Trim(text)
        kept == Peel(CutSignature(SplitQuote(all)[1]))
    IN  IF Trim(kept) = <<>> THEN <<all, <<>>>>
        ELSE <<Trim(kept), Trim(SubSeq(all, Len(kept) + 1, Len(all)))>>
StripQuotes(text) == SplitReadable(text)[1]

-----------------------------------------------------------------------------
(* What is written under a reply and a forward.                             *)

\* Quote
Quote(orig) ==
    LET own == StripQuotes(orig)
    IN  <<"attr">> \o [i \in 1 .. IF own = <<>> THEN 1 ELSE Len(own) |->
                          IF Has(own, i, {"attr"}) THEN "qattr" ELSE "quoted"]
Forwarded(orig) == <<"sep", "from", "fields", "blank">> \o Cut(orig, {"blank"})
Under(typed, tail) == typed \o <<"blank">> \o tail

\* composeView.split, startAssist and onDraft: what a model writes replaces what was
\* typed, and the quote goes under it again.
Split(body, quote) ==
    LET at == {i \in 0 .. Len(body) - Len(quote) :
                  SubSeq(body, i + 1, i + Len(quote)) = quote}
    IN  IF quote # <<>> /\ at # {}
          THEN <<SubSeq(body, 1, Min(at)), SubSeq(body, Min(at) + 1, Len(body))>>
          ELSE SplitQuote(body)
Assisted(body, quote, text) ==
    LET quoted == Reverse(Cut(Reverse(Split(body, quote)[2]), {"blank"}))
    IN  IF quoted = <<>> THEN text ELSE Under(Trim(text), quoted)

-----------------------------------------------------------------------------
(* Who a reply goes to: Reply, MergeAddresses, Envelope.                    *)

MergeAddresses(base, add, skip) ==
    FoldLeft(LAMBDA list, a : IF a \in skip \cup ToSet(list) THEN list ELSE Append(list, a), base, add)
Reply(draft, orig, all, self) ==
    LET to == IF draft.to # <<>> THEN draft.to
              ELSE IF orig.replyTo # <<>> THEN orig.replyTo ELSE <<orig.from>>
    IN  [draft EXCEPT !.to = IF all THEN MergeAddresses(to, orig.to, self) ELSE to,
                      !.cc = IF all THEN MergeAddresses(@, orig.cc, self) ELSE @]
Envelope(d) == MergeAddresses(<<>>, d.to \o d.cc \o d.bcc, {})

-----------------------------------------------------------------------------
(* Properties                                                               *)

\* A text that was read is shown: something is, and all of it is either above the cut
\* or below.
Shown(text) ==
    LET s == SplitReadable(text)
        Count(lines, l) == Cardinality({i \in DOMAIN lines : lines[i] = l})
    IN  /\ Trim(text) # <<>> => s[1] # <<>>
        /\ \A l \in ToSet(text) \ {"blank"} : Count(text, l) = Count(s[1], l) + Count(s[2], l)

\* Words that no cue is in, and whose end nothing joins to the attribution below: a
\* line that starts like one does, over a blank line, and so does a sentence that
\* reads like one when a quote follows soon.
Plain(typed) == /\ CutIndex(typed) = 0
                /\ "said" \notin ToSet(typed)
                /\ typed # <<>> => Last(typed) # "on"

\* What is typed above a quote is told from it, by the composer and by a reader of the
\* reply, and a model's draft keeps the quote; so a reply quotes one round.
QuoteTold(typed, orig) ==
    LET body == Under(typed, Quote(orig))
    IN  Plain(typed) =>
           /\ SplitQuote(body) = <<Append(typed, "blank"), Quote(orig)>>
           /\ Peel(CutSignature(Trim(typed))) # <<>>
                => StripQuotes(body) = Trim(Peel(CutSignature(Trim(Append(typed, "blank")))))
           /\ Assisted(body, Quote(orig), <<"text">>) = Under(<<"text">>, Quote(orig))
           /\ Assisted(body, <<>>, <<"text">>) = Under(<<"text">>, Quote(orig))

\* What is passed on is below the note, whole.
ForwardTold(note, orig) ==
    Plain(note) =>
        LET body == Under(note, Forwarded(orig))
        IN  /\ SplitQuote(body)[2] = Forwarded(orig)
            /\ Trim(Peel(CutSignature(Trim(note)))) # <<>> /\ Trim(orig) # <<>>
                 => Trim(Forwarded(orig)) = SubSeq(SplitReadable(body)[2],
                      Len(SplitReadable(body)[2]) + 1 - Len(Trim(Forwarded(orig))),
                      Len(SplitReadable(body)[2]))

\* A reply to all reaches everybody but the one who writes it, once.
Reached(orig, self) ==
    LET d == Reply([to |-> <<>>, cc |-> <<>>, bcc |-> <<>>], orig, TRUE, self)
        first == IF orig.replyTo # <<>> THEN ToSet(orig.replyTo) ELSE {orig.from}
    IN  /\ ToSet(Envelope(d)) = first \cup ((ToSet(orig.to) \cup ToSet(orig.cc)) \ self)
        /\ Cardinality(ToSet(Envelope(d))) = Len(Envelope(d))
=============================================================================
