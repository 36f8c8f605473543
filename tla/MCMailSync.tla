------------------------------ MODULE MCMailSync ------------------------------
(* Instances of MailSync for TLC: few changes and any of the faults; or one    *)
(* message more, and more changes, while JMAP's list is walked and nothing     *)
(* else goes wrong.                                                            *)
EXTENDS MailSync

CONSTANTS Spoils, Aborts, Forgets, Fulls, Restarts, Losses, Skips, Quiets, Reads,
          FewMsgs, FewChanges, FewFaults, FewEvents \* the bounds of the first scene

MCBudget == [f \in Faults |-> CASE f = "spoil" -> Spoils
                                [] f = "abort" -> Aborts
                                [] f = "forget" -> Forgets
                                [] f = "full" -> Fulls
                                [] f = "restart" -> Restarts
                                [] f = "loss" -> Losses
                                [] f = "skip" -> Skips
                                [] f = "quiet" -> Quiets
                                [] f = "read" -> Reads]

VARIABLE scene \* which of the two it is

Fits ==
    \/ /\ scene = "faults"
       /\ Len(log) + spent["spoil"] <= FewChanges
       /\ SumFunction(spent) <= IF backend = "jmap" THEN FewFaults ELSE FewFaults - 1
       /\ Len(log) + SumFunction(spent) <= FewEvents
       /\ \A m \in Msgs : m > FewMsgs => ver[m] = 0
    \/ /\ scene = "listing" /\ backend = "jmap" /\ spent["spoil"] = 1
       /\ \A m \in Msgs : ver[m] <= 1
       /\ \A f \in {"abort", "forget", "restart", "quiet"} : spent[f] = 0

MCInit == /\ scene \in {"faults", "listing"} /\ Init /\ Fits
          /\ scene = "listing" => here = Old /\ \A m \in here : Exists(m) => Agrees(m)
MCNext == /\ Next /\ UNCHANGED scene /\ Fits'
          /\ scene = "listing" /\ log' # log => pc = "enum" /\ cursor # Fresh
MCSpec == /\ MCInit /\ [][MCNext]_<<scene, vars>>
          /\ WF_<<scene, vars>>(Pass /\ UNCHANGED scene)
================================================================================
