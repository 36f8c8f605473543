-------------------------------- MODULE Assist --------------------------------
(***************************************************************************)
(* Drafts and summaries by a language model: a question asked on a         *)
(* composer or a summary screen (internal/tui/compose_ai.go, summary.go),  *)
(* the goroutine that answers it (runModel), its turns and lookups         *)
(* (internal/ai/agent.go), the stream of a model's server (ai/openai,      *)
(* ai/ollama), and the events that bring it to the screens.                *)
(*                                                                         *)
(* An event names its generation by a number each screen counts for        *)
(* itself, and is given to every screen there is; of a generation that was *)
(* stopped one reader is left, with at most one event.                     *)
(*                                                                         *)
(* The prompt with its question and the second ctrl+g over written text    *)
(* are one step with the start; notes of lookups, which change a status    *)
(* line, are left out.                                                     *)
(***************************************************************************)
EXTENDS Integers, Sequences, FiniteSets, SequencesExt, FiniteSetsExt

CONSTANTS MaxLookups, \* of one generation before it has to write
          CacheMax,   \* answers remembered
          Allowances  \* bound: how often each of Things may happen, one or the
                      \* other of these

Things == {"composers", "summaries", "asks", "stops", "edits", "pieces", "calls",
           "faults", "arrivals"}

VARIABLES
    screens,      \* the composers and summaries open, the top one last
    shown,        \* how many have been opened
    gens,         \* every generation, with its channel
    readers,      \* commands waiting on each channel
    conversation, \* its newest message and how many there are
    cache,        \* answerCache
    toolset,      \* whether the model may look things up
    spare         \* of the allowance
avars == <<screens, shown, gens, readers, conversation, cache, toolset, spare>>

Use(thing) == spare[thing] > 0 /\ spare' = [spare EXCEPT ![thing] = @ - 1]
maxTurns == MaxLookups + 2
NoThread == [newest |-> 0, size |-> 0]
Own == [gen |-> 0, turn |-> 0, kind |-> "word"]
Empty == [words |-> <<>>, quote |-> FALSE]

Up == screens # <<>>
Top == Last(screens)
Ready == Up /\ Top.run = 0

-----------------------------------------------------------------------------
(* What is made of a text.                                                 *)

\* The reasoning a model leaked ahead of its answer comes off.
CleanText(words) ==
    SubSeq(words, SelectInSeq(words \o <<Own>>, LAMBDA w : w.kind # "think"), Len(words))

\* renderThread: the sizes of a conversation's messages, oldest first, and
\* which of them go into the prompt: as many of the newest as fit, and always one.
Rendered(sizes, budget) ==
    LET From(start) == FoldSeq(LAMBDA size, sum : size + sum, 0,
                               SubSeq(sizes, start, Len(sizes)))
    IN  Min({start \in DOMAIN sizes : From(start) <= budget} \cup {Len(sizes)}) .. Len(sizes)

-----------------------------------------------------------------------------
(* The screens.                                                            *)

Screen(kind, quote) ==
    [n |-> shown + 1, kind |-> kind, asked |-> 0, run |-> 0, question |-> "",
     body |-> [words |-> IF kind = "composer" THEN <<Own>> ELSE <<>>, quote |-> quote],
     before |-> Empty, left |-> quote, crossed |-> FALSE]

\* A composer goes on top of whatever is there when its message has been read; a
\* draft has a quote below the text or not.
OpenComposer ==
    /\ Use("composers")
    /\ \E quote \in BOOLEAN : screens' = Append(screens, Screen("composer", quote))
    /\ shown' = shown + 1
    /\ UNCHANGED <<gens, readers, conversation, cache, toolset>>

OpenSummary ==
    /\ ~Up /\ Use("summaries")
    /\ screens' = <<Screen("summary", FALSE)>> /\ shown' = shown + 1
    /\ UNCHANGED <<gens, readers, conversation, cache, toolset>>

Close ==
    /\ Ready
    /\ screens' = Front(screens)
    /\ UNCHANGED <<shown, gens, readers, conversation, cache, toolset, spare>>

\* The user writes, and may take the quote away.
Edit ==
    /\ Ready /\ Top.kind = "composer" /\ Use("edits")
    /\ \E quote \in {Top.body.quote, FALSE} :
        screens' = [screens EXCEPT ![Len(screens)].body = [words |-> <<Own>>, quote |-> quote],
                                   ![Len(screens)].left = quote]
    /\ UNCHANGED <<shown, gens, readers, conversation, cache, toolset>>

Generation(question) ==
    [by |-> Top.n, seq |-> Top.asked + 1, question |-> question, stage |-> "read",
     snap |-> NoThread, turn |-> 1, offered |-> toolset, lookups |-> 0, due |-> 0,
     words |-> <<>>, out |-> <<>>, err |-> "", cancelled |-> FALSE, queue |-> <<>>]

\* startAssist and start: the body makes room for what arrives.
Ask ==
    /\ Ready /\ Use("asks")
    /\ \E question \in IF Top.kind = "composer" THEN {"draft"} ELSE {"", "question"} :
        /\ gens' = Append(gens, Generation(question))
        /\ screens' = [screens EXCEPT ![Len(screens)] =
               [@ EXCEPT !.asked = @ + 1, !.run = Len(gens) + 1, !.question = question,
                         !.before = IF Top.kind = "composer" THEN Top.body ELSE Empty,
                         !.body = Empty]]
    /\ readers' = Append(readers, 1)
    /\ UNCHANGED <<shown, conversation, cache, toolset>>

Settled(s, body) == [s EXCEPT !.run = 0, !.body = body]

\* stopAssist and stop.
Stop ==
    /\ Up /\ Top.run # 0 /\ Use("stops")
    /\ screens' = [screens EXCEPT ![Len(screens)] = Settled(@, Top.before)]
    /\ gens' = [gens EXCEPT ![Top.run].cancelled = TRUE]
    /\ UNCHANGED <<shown, readers, conversation, cache, toolset>>

-----------------------------------------------------------------------------
(* The generation, beside the screens.                                     *)

Running(g, stage) == gens[g].stage = stage

\* What it sends to a screen that has stopped listening may be dropped.
Sent(gen, kind, words) ==
    {[gen EXCEPT !.queue = Append(@, [seq |-> gen.seq, kind |-> kind, words |-> words])]}
    \cup (IF gen.cancelled THEN {gen} ELSE {})

Ended(gen, out) == Sent([gen EXCEPT !.stage = "ended", !.out = out], "done", out)
Failed(gen, err) == Sent([gen EXCEPT !.stage = "ended", !.err = err], "failed", <<>>)
Becomes(g, outcomes) == \E gen \in outcomes : gens' = [gens EXCEPT ![g] = gen]

\* summaryKey: a draft is not remembered.
Key(gen, snap) == <<snap.newest, gen.question>>
Put(gen, out) ==
    IF gen.question = "draft" THEN UNCHANGED cache
    ELSE cache' = LET kept == IF Cardinality(DOMAIN cache) >= CacheMax THEN {} ELSE DOMAIN cache
                  IN  [key \in kept \cup {Key(gen, gen.snap)} |->
                          IF key = Key(gen, gen.snap) THEN out ELSE cache[key]]

\* The conversation comes off disk; one that cannot be read is no reason not to
\* ask.  An answer remembered is given at once.
Read(g) ==
    LET gen == gens[g] IN
    /\ Running(g, "read")
    /\ \E snap \in {conversation, NoThread} :
        /\ IF snap = NoThread /\ ~gen.cancelled THEN Use("faults") ELSE UNCHANGED spare
        /\ LET known == [gen EXCEPT !.snap = snap] IN
           IF gen.question # "draft" /\ Key(gen, snap) \in DOMAIN cache
           THEN \E told \in Sent(known, "text", cache[Key(gen, snap)]) :
                    Becomes(g, Ended(told, cache[Key(gen, snap)]))
           ELSE Becomes(g, {[known EXCEPT !.stage = "window"]})
    /\ UNCHANGED <<screens, shown, readers, conversation, cache, toolset>>

\* The model's window is asked for, and stopping does not end that wait.
Window(g) ==
    /\ Running(g, "window")
    /\ Becomes(g, {[gens[g] EXCEPT !.stage = "chat"]})
    /\ UNCHANGED <<screens, shown, readers, conversation, cache, toolset, spare>>

\* Chat: a piece of text arrives; a thinking model may think first.
Piece(g) ==
    /\ Running(g, "chat") /\ Use("pieces")
    /\ \E kind \in {"word"} \cup (IF gens[g].words = <<>> THEN {"think"} ELSE {}) :
        LET word == [gen |-> g, turn |-> gens[g].turn, kind |-> kind]
        IN  Becomes(g, Sent([gens[g] EXCEPT !.words = Append(@, word)], "text", <<word>>))
    /\ UNCHANGED <<screens, shown, readers, conversation, cache, toolset>>

\* The server fails, refuses or ends its stream without saying that was all.
Breaks(g) ==
    /\ Running(g, "chat")
    /\ IF gens[g].cancelled THEN UNCHANGED spare ELSE Use("faults")
    /\ Becomes(g, Failed(gens[g], "broken"))
    /\ UNCHANGED <<screens, shown, readers, conversation, cache, toolset>>

\* A turn without lookups is the answer, and so is what was written beside
\* lookups that were no longer on offer.
Answers(g) ==
    LET gen == gens[g] IN
    /\ Running(g, "chat")
    /\ \/ Put(gen, gen.words) /\ UNCHANGED spare
          /\ Becomes(g, Ended(gen, gen.words))
       \/ /\ toolset /\ ~gen.offered /\ gen.words = <<>> /\ UNCHANGED <<cache, spare>>
          /\ Becomes(g, Failed(gen, "insists"))
    /\ UNCHANGED <<screens, shown, readers, conversation, toolset>>

\* A turn with lookups: what it wrote so far was not the answer.
AsksFor(g) ==
    /\ Running(g, "chat") /\ gens[g].offered /\ Use("calls")
    /\ \E due \in 1 .. 2 :
        Becomes(g, Sent([gens[g] EXCEPT !.stage = "lookup", !.due = due, !.words = <<>>],
                        "reset", <<>>))
    /\ UNCHANGED <<screens, shown, readers, conversation, cache, toolset>>

\* After enough of them, or of turns, there are no more.
Offered(lookups) == lookups < MaxLookups
Lookup(g) ==
    LET gen == gens[g] IN
    /\ Running(g, "lookup")
    /\ Becomes(g, IF gen.cancelled THEN Failed(gen, "cancelled")
                  ELSE IF gen.due > 1
                  THEN {[gen EXCEPT !.lookups = @ + 1, !.due = @ - 1]}
                  ELSE IF gen.turn = maxTurns THEN Failed(gen, "no answer")
                  ELSE {[gen EXCEPT !.lookups = @ + 1, !.due = 0, !.turn = @ + 1,
                             !.stage = "chat", !.offered = Offered(gen.lookups + 1)]})
    /\ UNCHANGED <<screens, shown, readers, conversation, cache, toolset, spare>>

-----------------------------------------------------------------------------
(* The events.                                                             *)

Matches(s, event) == s.run # 0 /\ gens[s.run].seq = event.seq

\* onDraft and onEvent.
Folded(s, event) ==
    CASE event.kind = "text" -> [s EXCEPT !.body.words = @ \o event.words]
      [] event.kind = "reset" -> [s EXCEPT !.body.words = <<>>]
      [] event.kind = "failed" -> Settled(s, s.before)
      [] event.kind = "done" ->
           LET text == CleanText(event.words)
           IN  Settled(s, IF text = <<>> THEN s.before
                          ELSE [words |-> text, quote |-> s.before.quote])

\* A reader brings the next event, to every screen there is; those that take it
\* for theirs read on, or are done and cancel what they were waiting for.
Deliver(g) ==
    LET event == Head(gens[g].queue)
        hit == {i \in DOMAIN screens : Matches(screens[i], event)}
        over == event.kind \in {"done", "failed"}
        runs == {screens[i].run : i \in hit}
    IN  /\ readers[g] > 0 /\ gens[g].queue # <<>>
        /\ screens' = [i \in DOMAIN screens |->
               IF i \in hit THEN [Folded(screens[i], event) EXCEPT
                                      !.crossed = @ \/ screens[i].run # g]
               ELSE screens[i]]
        /\ gens' = [h \in DOMAIN gens |->
               [gens[h] EXCEPT !.queue = IF h = g THEN Tail(@) ELSE @,
                               !.cancelled = @ \/ (over /\ h \in runs)]]
        /\ readers' = [h \in DOMAIN gens |->
               readers[h] - (IF h = g THEN 1 ELSE 0) + (IF h \in runs /\ ~over THEN 1 ELSE 0)]
        /\ UNCHANGED <<shown, conversation, cache, toolset, spare>>

\* The channel is closed.
NoMore(g) ==
    /\ readers[g] > 0 /\ gens[g].queue = <<>> /\ gens[g].stage = "ended"
    /\ readers' = [readers EXCEPT ![g] = @ - 1]
    /\ UNCHANGED <<screens, shown, gens, conversation, cache, toolset, spare>>

\* A message joins the conversation: the newest one, or one that comes late.
Arrive ==
    /\ Use("arrivals")
    /\ \E newer \in 0 .. 1 :
        conversation' = [newest |-> conversation.newest + newer, size |-> conversation.size + 1]
    /\ UNCHANGED <<screens, shown, gens, readers, cache, toolset>>

None == [thing \in Things |-> 0]
Quiet ==
    /\ screens = <<>> /\ shown = 0 /\ gens = <<>> /\ readers = <<>>
    /\ conversation = [newest |-> 1, size |-> 1] /\ cache = <<>>
    /\ toolset = FALSE /\ spare = None
Init ==
    /\ screens = <<>> /\ shown = 0 /\ gens = <<>> /\ readers = <<>>
    /\ conversation = [newest |-> 1, size |-> 1] /\ cache = <<>>
    /\ spare \in Allowances
    /\ toolset \in (IF spare["calls"] > 0 THEN BOOLEAN ELSE {FALSE})

Next ==
    \/ OpenComposer \/ OpenSummary \/ Close \/ Edit \/ Ask \/ Stop \/ Arrive
    \/ \E g \in DOMAIN gens : Read(g) \/ Window(g) \/ Piece(g) \/ Breaks(g) \/ Answers(g)
                              \/ AsksFor(g) \/ Lookup(g) \/ Deliver(g) \/ NoMore(g)

-----------------------------------------------------------------------------
Mine(s) == {g \in DOMAIN gens : gens[g].by = s.n}

\* A composer that waits for nothing holds what its user left there, or the whole
\* of an answer it asked for itself, above the quote its user left; never what
\* had arrived of a draft that was stopped or failed, nor a lead-in to a lookup.
\* A summary holds the whole of an answer to the question it asked, about a
\* conversation with the same newest message (onDraft, onEvent, runModel).
WholeOrBefore ==
    \A i \in DOMAIN screens :
        LET s == screens[i]
            words == s.body.words
            gen == gens[Head(words).gen]
        IN  (s.run = 0 /\ ~s.crossed /\ words \notin {<<>>, <<Own>>}) =>
                /\ gen.stage = "ended" /\ gen.err = "" /\ words = CleanText(gen.out)
                /\ IF s.kind = "composer" THEN gen.by = s.n
                   ELSE /\ gen.question = s.question
                        /\ gen.snap.newest = gens[Max(Mine(s))].snap.newest

QuoteStays ==
    \A i \in DOMAIN screens :
        LET s == screens[i]
        IN  (s.run = 0 /\ ~s.crossed) => s.body.quote = s.left

\* What a screen shows of an answer that arrives, with what is still on its way,
\* is what the model has written in the turn it is in.
StreamTrue ==
    \A i \in DOMAIN screens :
        LET s == screens[i]
            gen == gens[s.run]
            Then(words, event) == IF event.kind = "reset" THEN <<>>
                                  ELSE IF event.kind = "text" THEN words \o event.words
                                  ELSE words
        IN  (s.run # 0 /\ ~s.crossed) =>
                /\ readers[s.run] = 1
                /\ FoldLeft(Then, s.body.words, gen.queue)
                     = IF gen.stage = "ended" /\ gen.err = "" THEN gen.out ELSE gen.words

\* The limit on lookups ends the turns before the limit on turns does
\* (MaxLookups and maxTurns in ai/agent.go).
LimitWrites == \A g \in DOMAIN gens : gens[g].err # "no answer"

DraftsWhole == WholeOrBefore /\ QuoteStays /\ StreamTrue /\ LimitWrites
===============================================================================
