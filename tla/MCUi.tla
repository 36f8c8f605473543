--------------------------------- MODULE MCUi ---------------------------------
(* Ui with a conversation of two messages and one of a single message.        *)
EXTENDS Ui

MCConversations == <<<<1, 2>>, <<3>>>>
MCViews == <<"inbox", "all">>
MCHomes == [m \in 1..3 |-> IF m = 2 THEN {"archive"} ELSE {"inbox"}]

Budget(triage, undos, opens, reads, views, ticks, moves, failures) ==
    [triage |-> triage, undo |-> undos, opens |-> opens, reads |-> reads,
     views |-> views, ticks |-> ticks, moves |-> moves, failures |-> failures]

MCBudgets == {Budget(2, 1, 0, 0, 0, 1, 0, 1),  \* two keys on the list
              Budget(1, 1, 0, 0, 1, 1, 1, 1),  \* the list, its mailbox and other clients
              Budget(1, 1, 1, 0, 0, 0, 1, 1),  \* in a conversation
              Budget(2, 1, 1, 0, 0, 0, 0, 0),  \* two keys in a conversation
              Budget(1, 1, 1, 1, 0, 1, 0, 1)}  \* reading
=============================================================================
