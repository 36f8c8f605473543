---------------------------- MODULE MCLocalWrite ----------------------------
(* Instances of LocalWrite for TLC: a message that is unread and in the    *)
(* inbox.                                                                  *)
EXTENDS LocalWrite

CONSTANTS unread, trash,           \* writes
          Others, Offlines, Refusals, Deadlines, Crashes, Aborts

MCOrigin == [seen |-> 0, inbox |-> 1]

\* Trashing takes the message out of the inbox here, and marks it read at the
\* provider as well: the patch has guessed wrong.
MCShows == [w \in Writes |-> CASE w = unread -> [seen |-> 0]
                               [] w = trash -> [inbox |-> 0]]
MCDoes == [w \in Writes |-> CASE w = unread -> [seen |-> 0]
                              [] w = trash -> [inbox |-> 0, seen |-> 1]]

MCBudget == [f \in Faults |-> CASE f = "other" -> Others
                                [] f = "offline" -> Offlines
                                [] f = "refuse" -> Refusals
                                [] f = "deadline" -> Deadlines
                                [] f = "crash" -> Crashes
                                [] f = "abort" -> Aborts]
=============================================================================
