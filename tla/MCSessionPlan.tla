---------------------------- MODULE MCSessionPlan ----------------------------
(***************************************************************************)
(* Small instance of SessionPlan.  The sender ids 1, 2 and 5 are not their *)
(* own positions; the rosters include the empty one and one with a         *)
(* duplicate; the sizes run past 2^FloatBits and over every remainder of   *)
(* every block size.  The configurations include ones that are refused, and *)
(* ones that are accepted for the sake of the environment only.            *)
(***************************************************************************)
EXTENDS SessionPlan

MCFileSizes == 0 .. 17
MCConfigFiles ==
    {[state |-> "toml", tables |-> {"paths", "pacing", "fec", "senders"},
      values |-> [watch_path |-> Text("directory"), socket_path |-> Text("nothing"),
                  k |-> Number(k), n |-> Number(4), symbol_bytes |-> Number(s)]] :
        k \in 0 .. 4, s \in 0 .. 1}
MCEnvironments == {<<>>, [symbol_bytes |-> Number(2)], [base_port |-> Number(0)], [k |-> Text("two")]}
MCRosters == {<<>>, <<2>>, <<2, 2>>, <<1, 5>>, <<5, 1>>, <<1, 2, 5>>}
MCPaths == {<<"/", "w", "a">>, <<"/", "w", "d", "a">>, <<"/", "w", "..", "a">>, <<"/", "x", "a">>}
MCWatchRoot == <<"/", "w">>
=============================================================================
