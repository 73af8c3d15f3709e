---------------------------- MODULE SenderRegistry ----------------------------
(***************************************************************************)
(* SenderRegistry, src/src/file_monitor/services/registry.py: the senders  *)
(* heard recently enough to be given work.  Its operations are operators   *)
(* that return the registry's next value, for the actions of the service   *)
(* that calls them.                                                        *)
(*                                                                         *)
(* The code stores the time a sender was last seen and compares            *)
(* now - last_seen with the timeout.  The model stores that difference,    *)
(* the sender's silence, which Elapse lets grow until it has passed the    *)
(* timeout: beyond that the code tells no values apart.  A registry is a   *)
(* function whose domain is the set of registered senders.                 *)
(***************************************************************************)
EXTENDS Integers, Sequences, FiniteSets

CONSTANTS
    HEARTBEAT_INTERVAL_SECONDS,
    MISSED_HEARTBEAT_LIMIT

ASSUME RegistryAssumption ==
    /\ HEARTBEAT_INTERVAL_SECONDS \in Nat \ {0}
    /\ MISSED_HEARTBEAT_LIMIT \in Nat \ {0}

timeout_seconds == HEARTBEAT_INTERVAL_SECONDS * MISSED_HEARTBEAT_LIMIT

empty_registry == [s \in {} |-> 0]

register(registry, s) ==
    [x \in DOMAIN registry \cup {s} |-> IF x = s THEN 0 ELSE registry[x]]

\* Faulty form of remove: the sender stays registered.
keep(registry, s) == registry

remove(registry, s) == [x \in DOMAIN registry \ {s} |-> registry[x]]

\* Faulty form of expired: a sender silent for the whole timeout is kept.
expired_late(registry, s) == registry[s] > timeout_seconds

expired(registry, s) == registry[s] >= timeout_seconds

purge_expired(registry) ==
    [x \in {s \in DOMAIN registry : ~ expired(registry, s)} |-> registry[x]]

\* sorted(...): the increasing enumerations of a set of ids, one at most.
sorted(ids) ==
    {q \in [1 .. Cardinality(ids) -> ids] :
        \A i, j \in 1 .. Cardinality(ids) : i < j => q[i] < q[j]}

\* A second goes by.
Elapse(registry) ==
    [x \in DOMAIN registry |->
        IF registry[x] <= timeout_seconds THEN registry[x] + 1 ELSE registry[x]]
=============================================================================
