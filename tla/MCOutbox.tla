------------------------------ MODULE MCOutbox ------------------------------
(* Instances of Outbox for TLC.                                            *)
EXTENDS Outbox

CONSTANTS send, flag, trash,      \* writes
          cli, tui, daemon, shell,\* processes
          cmd, ui, drain, ticker, retry

MCProcOf ==
    [g \in Workers |-> CASE g = cmd -> cli
                         [] g \in {ui, drain} -> tui
                         [] g = ticker -> daemon
                         [] g = retry -> shell]
=============================================================================
