------------------------- MODULE MCSessionDispatcher -------------------------
(***************************************************************************)
(* Small instances of SessionDispatcher: what the senders say besides      *)
(* their first SenderHello and their SessionCompletes.                     *)
(***************************************************************************)
EXTENDS SessionDispatcher

MCHeartbeat == {Heartbeat}
MCChatter == {SenderHello, Heartbeat, Progress}
=============================================================================
