--------------------------------- MODULE Mime ---------------------------------
(***************************************************************************)
(* A message as bytes: what emlcal builds, what it reads out of any        *)
(* message, and the page it makes of one (internal/mime/build.go,          *)
(* parse.go, htmldoc.go).                                                  *)
(*                                                                         *)
(* An entity is a leaf, or a multipart with entities in it; `bound` says   *)
(* that its boundary can be read.  The words of a leaf are a name, blank   *)
(* for none.  A path is a sequence of positions.                           *)
(***************************************************************************)
EXTENDS Integers, Sequences, FiniteSets, SequencesExt

CONSTANTS MaxDepth, MaxParts \* how deep and how far a message is read

Blank == ""
Leaf(type, words) ==
    [type |-> type, name |-> Blank, disp |-> Blank, cid |-> Blank, method |-> Blank,
     words |-> words, bound |-> FALSE, parts |-> <<>>]
Multi(parts) == [Leaf("multipart", Blank) EXCEPT !.bound = TRUE, !.parts = parts]

Multipart(e)       == e.type = "multipart"
Text(type)         == type \in {"plain", "html", "calendar", "textfile"}
IsCalendar(type)   == type \in {"calendar", "ics"}
IsMessage(type)    == type = "message"

RECURSIVE Inside(_)
\* The words in the bytes of an entity.
Inside(e) == ({e.words} \ {Blank}) \cup UNION {Inside(e.parts[i]) : i \in DOMAIN e.parts}

-----------------------------------------------------------------------------
(* Reading: Parse and PartContent.                                          *)

\* addLeaf, dispositionOf: what is known of a leaf, attached messages being named
\* after their subject unless their bytes are kept.
Part(e, path, target) ==
    [path |-> path, type |-> e.type, cid |-> e.cid, disp |-> e.disp, method |-> e.method,
     inline |-> e.disp = "inline" \/ (e.disp = Blank /\ e.cid # Blank /\ e.type = "image"),
     name |-> IF e.name # Blank THEN e.name
              ELSE IF IsCalendar(e.type) THEN "invite.ics"
              ELSE IF IsMessage(e.type) /\ path # target THEN "subject.eml" ELSE Blank,
     words |-> Inside(e)]

RECURSIVE Walk(_, _, _, _, _)
\* walker.walk
Walk(leaves, e, path, depth, target) ==
    IF Len(leaves) >= MaxParts THEN leaves
    ELSE IF Multipart(e) /\ depth < MaxDepth /\ e.bound /\ e.parts # <<>>
      THEN FoldLeftDomain(LAMBDA got, i : Walk(got, e.parts[i], Append(path, i), depth + 1, target),
                          leaves, e.parts)
      ELSE Append(leaves, Part(e, IF path = <<>> THEN <<1>> ELSE path, target))

Leaves(e) == Walk(<<>>, e, <<>>, 0, <<>>)

\* isAttachmentPart
Attached(l) ==
    \/ l.disp = "attachment"
    \/ l.name # Blank /\ ~Text(l.type)
    \/ l.inline /\ l.cid # Blank /\ ~Text(l.type)
    \/ IsMessage(l.type)
    \/ IsCalendar(l.type)

Candidates(leaves, type) == SelectSeq(leaves, LAMBDA l : ~Attached(l) /\ l.type = type)
First(list) == IF list = <<>> THEN {} ELSE {Head(list)}
WordsOf(list) == UNION {l.words : l \in First(list)}

\* Mutant of Body: the first plain part, whatever is in it.
Body_First(leaves) ==
    WordsOf(Candidates(leaves, "plain") \o Candidates(leaves, "html"))

\* selectBody: the first plain part with words, else the first page, else the bytes
\* of a multipart that could not be read.
Body(leaves) ==
    LET plain == SelectSeq(Candidates(leaves, "plain"), LAMBDA l : l.words # {})
        whole == SelectSeq(Candidates(leaves, "multipart"), LAMBDA l : l.words # {})
    IN  WordsOf(plain \o Candidates(leaves, "html") \o whole)

PageOf(leaves) == {l.path : l \in First(Candidates(leaves, "html"))}

\* The first leaf of a calendar, wherever it is.
Invite(leaves) ==
    {[path |-> l.path, method |-> l.method]
       : l \in First(SelectSeq(leaves, LAMBDA l : IsCalendar(l.type)))}

Parse(e) ==
    LET leaves == Leaves(e)
    IN  [parts |-> leaves, attachments |-> SelectSeq(leaves, Attached),
         calendar |-> Invite(leaves), page |-> PageOf(leaves), body |-> Body(leaves)]

\* PartContent: the same walk, the bytes of one path kept.
PartContent(e, path) ==
    {[type |-> l.type, name |-> l.name, words |-> l.words]
       : l \in {x \in ToSet(Walk(<<>>, e, <<>>, 0, path)) : x.path = path}}

-----------------------------------------------------------------------------
(* Writing: Build.                                                          *)

\* A draft has words, files and at most one calendar object.
File(f) == [Leaf(f.type, f.words) EXCEPT !.name = f.name, !.disp = "attachment"]
Files(d) == [i \in DOMAIN d.files |-> File(d.files[i])]
Words(d) == Leaf("plain", d.words)

\* buildAlternative
Alternative(d) ==
    Multi(<<Words(d), [Leaf("calendar", "event") EXCEPT !.method = d.method]>>)

Build(d) ==
    LET first == IF d.method = Blank THEN Words(d) ELSE Alternative(d)
    IN  IF d.files = <<>> THEN first ELSE Multi(<<first>> \o Files(d))

-----------------------------------------------------------------------------
(* The page: the pictures that travel inside it, of what sizes they are, within  *)
(* a budget.  None has size 0: no such part, or a fetch that failed.             *)

\* One picture after the other, the same one once.
Spend(pictures, size, got) ==
    LET Take(g, x) == IF x \in g.shown \/ size[x] = 0 \/ size[x] > g.left THEN g
                      ELSE [shown |-> g.shown \cup {x}, left |-> g.left - size[x]]
    IN  FoldLeft(Take, got, pictures)

\* inlineRemote: the first so many addresses.
Asked(urls, most) == FoldLeft(LAMBDA list, u : IF u \in ToSet(list) \/ Len(list) >= most THEN list
                                               ELSE Append(list, u), <<>>, urls)

\* HTMLDocument: the message's own parts first.
HTMLDocument(cids, urls, size, budget, most) ==
    Spend(Asked(urls, most), size, Spend(cids, size, [shown |-> {}, left |-> budget]))

-----------------------------------------------------------------------------
(* A header, writeHeader: the lengths of its lines, for a field name and words  *)
(* of these lengths.  Lines end before a word that does not fit in max, and in  *)
(* a word that does not fit in hard.                                            *)

\* hardFold: the lines written for a line of this length, and what is left of it.
Pieces(len, hard) == IF len <= hard THEN 0 ELSE (len - hard + hard - 2) \div (hard - 1)
Header(key, words, max, hard) ==
    LET Add(got, w) ==
            LET fresh == got.line + 1 + w > max /\ ~got.first
                len   == (IF fresh THEN 1 ELSE got.line + 1) + w
                n     == Pieces(len, hard)
            IN  [done |-> got.done \o (IF fresh THEN <<got.line>> ELSE <<>>) \o [i \in 1 .. n |-> hard],
                 line |-> len - n * (hard - 1), first |-> FALSE]
        all == FoldLeft(Add, [done |-> <<>>, line |-> key, first |-> TRUE], words)
    IN  Append(all.done, all.line)

\* encodeWordsForced: runes of these widths, packed into encoded words.
Encoded(runes, budget) ==
    LET Add(got, r) == IF got.cur > 0 /\ got.cur + r > budget
                         THEN [words |-> Append(got.words, got.cur), cur |-> r]
                         ELSE [got EXCEPT !.cur = @ + r]
        all == FoldLeft(Add, [words |-> <<>>, cur |-> 0], runes)
    IN  IF all.cur > 0 THEN Append(all.words, all.cur) ELSE all.words

-----------------------------------------------------------------------------
(* What is looked at.                                                        *)

Picture == [Leaf("image", "pixels") EXCEPT !.cid = "logo"]
Bodies == {Leaf("plain", "text"), Leaf("plain", Blank), Leaf("html", "markup"), Leaf("html", Blank)}
Others == {Picture, [Picture EXCEPT !.cid = Blank, !.name = "p.png"], Leaf("message", "mail"),
           [Leaf("calendar", "event") EXCEPT !.method = "REQUEST"], Leaf("ics", "event"),
           [Leaf("plain", "notes") EXCEPT !.name = "n.txt", !.disp = "attachment"],
           [Multi(<<Leaf("plain", "text")>>) EXCEPT !.bound = FALSE], Multi(<<>>)}
Lists(set) == UNION {[1 .. n -> set] : n \in 1 .. 2}
Shallow == Bodies \cup Others \cup {Multi(l) : l \in Lists(Bodies \cup {Picture})}
Messages == Shallow \cup {Multi(l) : l \in Lists(Shallow)}
              \cup {Multi(<<Multi(<<Multi(<<l>>), l>>), l>>) : l \in Bodies}

Attachments == {[type |-> "bytes", name |-> "a.bin", words |-> "bytes"],
                [type |-> "plain", name |-> "n.txt", words |-> "notes"],
                [type |-> "message", name |-> Blank, words |-> "mail"],
                [type |-> "ics", name |-> "m.ics", words |-> "event"]}
Drafts == [words : {"text", Blank}, method : {Blank, "REPLY"}, files : {<<>>} \cup Lists(Attachments)]

-----------------------------------------------------------------------------
(* Properties                                                               *)

\* What is read of a message has a body when one of its texts has words, unless
\* the first page is blank; and each part it lists can be fetched, as it is listed
\* but for the name of an attached message.
Complete(e) ==
    LET p == Parse(e)
    IN  /\ p.body = {} => /\ Candidates(p.parts, "plain") = SelectSeq(Candidates(p.parts, "plain"),
                                                                       LAMBDA l : l.words = {})
                          /\ WordsOf(Candidates(p.parts, "html")) = {}
        /\ Len(p.parts) \in 1 .. MaxParts
        /\ \A l \in ToSet(p.parts) :
              \E part \in PartContent(e, l.path) :
                  /\ PartContent(e, l.path) = {part}
                  /\ part.type = l.type /\ part.words = l.words
                  /\ part.name = l.name \/ IsMessage(l.type)

\* What is built is read back: the words, the files in their order, and the answer
\* to an invitation, whatever files of calendars there are.
Faithful(d) ==
    LET p == Parse(Build(d))
        n == IF d.method = Blank THEN 0 ELSE 1
    IN  1 + n + Len(d.files) <= MaxParts =>
        /\ p.body = {d.words} \ {Blank}
        /\ Len(p.attachments) = Len(d.files) + n
        /\ \A i \in DOMAIN d.files :
              LET l == p.attachments[i + n]
              IN  /\ l.type = d.files[i].type /\ l.words = {d.files[i].words}
                  /\ d.files[i].name \in {l.name, Blank}
        /\ n = 1 => \A c \in p.calendar : c.method = d.method /\ c.path = p.attachments[1].path
        /\ p.calendar = {} <=> n = 0 /\ \A i \in DOMAIN d.files : ~IsCalendar(d.files[i].type)

\* No line of a header is longer than a server takes, nor than it should be but for
\* a word that has no room beside the name of the field.
Folded(key, words, max, hard) ==
    LET lines == Header(key, words, max, hard)
        longest == IF words = <<>> THEN 0 ELSE CHOOSE w \in ToSet(words) : \A v \in ToSet(words) : v <= w
    IN  /\ \A i \in DOMAIN lines : lines[i] <= hard
        /\ \A i \in DOMAIN lines : lines[i] <= max \/ lines[i] <= key + 1 + longest

\* No encoded word is longer than a line has room for.
Packed(runes, budget) == \A i \in DOMAIN Encoded(runes, budget) : Encoded(runes, budget)[i] <= budget

\* The pictures of a page fit its budget, and none is left out that would have fitted
\* beside those before it.
PageFits(cids, urls, size, budget, most) ==
    LET page == HTMLDocument(cids, urls, size, budget, most)
        all == cids \o Asked(urls, most)
        Sum(set) == FoldSet(LAMBDA x, n : n + size[x], 0, set)
        Before(i) == {all[k] : k \in 1 .. i - 1} \cap page.shown
    IN  /\ page.left = budget - Sum(page.shown) /\ page.left >= 0
        /\ \A i \in DOMAIN all :
              (size[all[i]] > 0 /\ Sum(Before(i) \cup {all[i]}) <= budget) => all[i] \in page.shown
=============================================================================
