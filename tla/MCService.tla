------------------------------ MODULE MCService ------------------------------
(***************************************************************************)
(* Small instances of Service: a good file, one that only the environment  *)
(* makes good, and files that fail in each way load_config can fail.       *)
(***************************************************************************)
EXTENDS MCProcessSupervisor, Service

AllTables == {"paths", "pacing", "fec", "senders"}

GoodValues ==
    [watch_path |-> Text("nothing"), socket_path |-> Text("nothing"),
     k |-> Number(200), n |-> Number(255), symbol_bytes |-> Number(1400),
     sender_count |-> Number(Cardinality(Children))]

GoodFile == [state |-> "toml", tables |-> AllTables, values |-> GoodValues]

With(key, value) == [GoodFile EXCEPT !.values[key] = value]

\* Each of these is refused with 78.
BadFiles ==
    {[GoodFile EXCEPT !.state = "unreadable"], [GoodFile EXCEPT !.state = "malformed"],
     [GoodFile EXCEPT !.tables = AllTables \ {"fec"}],
     With("watch_path", Text("other")), With("watch_path", Text("unreachable")),
     With("n", Number(256)), With("k", Number(255)), With("k", Text("two")),
     With("symbol_bytes", Number(0)), With("sender_count", Number(-1))}

\* These raise an AttributeError, a TypeError, an OverflowError and a RecursionError.
CrashingFiles ==
    {[GoodFile EXCEPT !.tables = AllTables \ {"senders"}], With("n", Array),
     With("n", Infinity), [GoodFile EXCEPT !.state = "nested"]}

MCConfigFiles == {GoodFile} \cup BadFiles \cup CrashingFiles
MCEnvironments == {<<>>, [n |-> Number(201)], [n |-> Text("many")]}
MCSocketPaths == {"free", "socket", "directory", "denied"}
=============================================================================
