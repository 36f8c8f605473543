------------------------------ MODULE MCEventMap ------------------------------
(* One update of an event that a server holds, by a user east of UTC whose    *)
(* Google calendar is there too.                                              *)
EXTENDS EventMap

VARIABLE command \* nothing at first

MCOffset == [z \in {"UTC", "east", "west"} |->
                CASE z = "UTC" -> 0 [] z = "east" -> 1 [] z = "west" -> -1]

Init == command = {}
Update == /\ command = {}
          /\ \E b \in {"google", "caldav", "jmap"} : \E c \in Commands(b) : command' = {c}
Spec == Init /\ [][Update]_command

\* `cal update --help` (cli/cal_write.go:321): "Only the flags you pass are
\* changed; everything else keeps the value the index holds."  Then an all-day
\* event stays on its days when no flag speaks of them.
DaysKept ==
    \A c \in command :
        (c.held.when.kind = "date" /\ ~TimeFlags(c.flags))
            => Means(Result(c.held, c.flags).when) = Means(c.held.when)
=============================================================================
