----------------------------- MODULE MCArchive ------------------------------
(* An instance of Archive for TLC: a reply that arrives before what it     *)
(* answers, a third message that ties both to an older one, and two        *)
(* messages of the same bytes; and the reading of messages, for messages   *)
(* of up to three levels and drafts of up to two files.                    *)
EXTENDS Archive, Sequences

CONSTANTS MaxGC, MaxPurges, MaxReindexes, MaxRethreads, MaxReads, MaxCrashes, MaxFiles, MaxDestroys,
          MaxDepth, MaxParts

MCSha == <<"a", "b", "a">>
MCReferences == <<<<>>, <<0>>, <<0, 1>>>>
MCInReplyTo == <<<<>>, <<0>>, <<1>>>>
MCTo == <<{"ann"}, {"bob"}, {"ann", "bob"}>>

MCBudget == [e \in Events |-> CASE e = "gc" -> MaxGC
                                [] e = "purge" -> MaxPurges
                                [] e = "reindex" -> MaxReindexes
                                [] e = "rethread" -> MaxRethreads
                                [] e = "read" -> MaxReads
                                [] e = "crash" -> MaxCrashes
                                [] e = "file" -> MaxFiles
                                [] e = "destroy" -> MaxDestroys]

\* The old orphan is the bytes that two messages do not share.
MCInit == Init /\ files = Orphans
MCSpec == MCInit /\ [][Next]_vars

Mime == INSTANCE Mime

Lists(set, n) == UNION {[1 .. k -> set] : k \in 0 .. n}
Pictures == {"a", "b", "c", "d"}

MimeHolds ==
    /\ \A e \in Mime!Messages : Mime!Complete(e)
    /\ \A d \in Mime!Drafts : Mime!Faithful(d)
    /\ \A key \in {3, 6}, words \in Lists({1, 3, 4, 9, 12}, 3) : Mime!Folded(key, words, 8, 10)
    /\ \A runes \in Lists({1, 3, 6}, 5) : Mime!Packed(runes, 7)
    /\ \A cids \in Lists({"a", "b"}, 2), urls \in Lists({"c", "d"}, 3),
          size \in [Pictures -> {0, 2, 3}] : Mime!PageFits(cids, urls, size, 4, 2)

\* Any message is read with its text, a part that is listed can be fetched, and what
\* emlcal builds comes back from its own reader; headers keep to their limits and
\* pages to their budget.
ReadBack == Init => MimeHolds
=============================================================================
