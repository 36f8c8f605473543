-------------------------------- MODULE MCSend --------------------------------
(* Send for an account of each kind, one stored draft, and a user who answers, *)
(* continues, saves, sends and deletes, on screen and at the command line;     *)
(* the texts that are answered, of up to three lines; and, with nothing to     *)
(* send, drafts and summaries written by a model.                              *)
EXTENDS Send

CONSTANTS MaxSignature, MaxLookups, CacheMax
VARIABLES screens, shown, gens, readers, conversation, cache, toolset, spare
assisting == <<screens, shown, gens, readers, conversation, cache, toolset, spare>>

Nothing == [kind \in Kinds |-> 0]
MCBudgets ==
    {\* a conversation answered, continued, its draft deleted
     [Nothing EXCEPT !["loads"] = 2, !["submits"] = 2, !["deletes"] = 1, !["faults"] = 1, !["syncs"] = 1],
     [Nothing EXCEPT !["loads"] = 1, !["submits"] = 1, !["deletes"] = 1, !["faults"] = 2, !["syncs"] = 1],
     [Nothing EXCEPT !["loads"] = 2, !["submits"] = 2, !["faults"] = 2],
     [Nothing EXCEPT !["loads"] = 1, !["submits"] = 1, !["faults"] = 1, !["crashes"] = 1],
     \* a new message, asked for again
     [Nothing EXCEPT !["blanks"] = 1, !["submits"] = 2, !["faults"] = 2, !["deadlines"] = 1],
     \* commands
     [Nothing EXCEPT !["commands"] = 1, !["faults"] = 2, !["crashes"] = 1, !["deadlines"] = 1],
     [Nothing EXCEPT !["drafts"] = 2, !["faults"] = 1, !["crashes"] = 1],
     \* the draft continued on screen and sent by a command
     [Nothing EXCEPT !["loads"] = 1, !["submits"] = 1, !["drafts"] = 1, !["faults"] = 1, !["syncs"] = 1],
     \* a new message sent while a reply is being loaded
     [Nothing EXCEPT !["loads"] = 1, !["blanks"] = 1, !["submits"] = 2, !["faults"] = 1],
     \* a model writes
     Nothing}
StackedBudgets ==
    {[Nothing EXCEPT !["loads"] = 1, !["blanks"] = 1, !["submits"] = 2, !["faults"] = 1]}

NoThing == [composers |-> 0, summaries |-> 0, asks |-> 0, stops |-> 0, edits |-> 0,
            pieces |-> 0, calls |-> 0, faults |-> 0, arrivals |-> 0]
Allowances ==
    {\* a summary stopped or not, and drafts beside it
     [NoThing EXCEPT !.composers = 1, !.summaries = 1, !.asks = 2, !.stops = 1, !.pieces = 1],
     [NoThing EXCEPT !.composers = 1, !.asks = 2, !.stops = 1, !.faults = 1,
                     !.pieces = 2, !.calls = 1],
     \* a conversation that goes on
     [NoThing EXCEPT !.summaries = 2, !.asks = 2, !.pieces = 2, !.faults = 1, !.arrivals = 1],
     \* a model that looks things up
     [NoThing EXCEPT !.composers = 1, !.asks = 1, !.pieces = 3, !.calls = 4, !.stops = 1,
                     !.edits = 1]}
Assist == INSTANCE Assist

Compose == INSTANCE Compose

Lines == {"text", "blank", "quoted", "qattr", "attr", "said", "on", "wrote", "sep",
          "rule", "from", "fields", "sig", "dash", "mobile"}
Lists(set, n) == UNION {[1 .. k -> set] : k \in 0 .. n}
Originals == {<<>>, <<"text">>, <<"text", "attr", "quoted">>, <<"quoted", "text">>,
              <<"dash", "text">>, <<"attr">>}
Received == [from : {"ann", "me"}, replyTo : Lists({"ann", "bob"}, 1),
             to : Lists({"ann", "bob", "me"}, 2), cc : Lists({"ann", "carl", "me"}, 2)]

WordsTold ==
    /\ \A text \in Lists(Lines, 3) : Compose!Shown(text)
    /\ \A typed \in Lists(Lines \ {"rule", "fields", "from", "attr"}, 2), orig \in Originals :
          Compose!QuoteTold(typed, orig)
    /\ \A note \in Lists(Lines \ {"rule", "fields"}, 2), orig \in Originals :
          Compose!ForwardTold(note, orig)
    /\ \A orig \in Received : Compose!Reached(orig, {"me"})

\* What goes into a prompt is the end of the conversation, its newest message
\* always, all that fits, and no more than that unless it is one message.
PromptTold ==
    \A sizes \in Lists(1 .. 3, 4) \ {<<>>}, budget \in 0 .. 8 :
        LET kept == Assist!Rendered(sizes, budget)
            Sum(from) == FoldSeq(LAMBDA a, b : a + b, 0, SubSeq(sizes, from, Len(sizes)))
        IN  /\ Len(sizes) \in kept
            /\ Sum(Min(kept)) <= budget \/ Cardinality(kept) = 1
            /\ Min(kept) > 1 => Sum(Min(kept) - 1) > budget

\* What somebody wrote is told from what is quoted below it, by the composer, by a
\* model's draft and by whoever reads the answer; no line of a message is lost on
\* the way, and an answer to all goes to each of them once.  A model's draft
\* replaces what was written only when it is whole, and leaves the quote.
WordsKept ==
    /\ (Init /\ Assist!Quiet /\ left = Nothing) => WordsTold /\ PromptTold
    /\ Assist!DraftsWhole

MCInit ==
    /\ Init
    /\ \/ Assist!Quiet
       \/ /\ Assist!Init /\ left = Nothing
          /\ setting.backend = "jmap" /\ ~setting.blind /\ ~texts[1].header
MCSpec ==
    MCInit /\ [][\/ Next /\ UNCHANGED assisting
                 \/ Assist!Next /\ UNCHANGED vars]_<<vars, assisting>>
===============================================================================
