------------------------------- MODULE IpcPort -------------------------------
(***************************************************************************)
(* What the IPC server promises its callers (IpcServer in                  *)
(* src/src/file_monitor/ports/protocols.py): per sender a bounded queue    *)
(* that exists while the sender is connected, and one bounded queue of     *)
(* incoming messages.  UdsServer implements it (UdsServer!Implements);     *)
(* SessionDispatcher is built on it.                                       *)
(*                                                                         *)
(* The promise is weaker than it looks, and callers must live with that:   *)
(* a payload that send accepted leaves the queue for a limbo when a write  *)
(* begins or when the sender reconnects, and from the limbo or from a      *)
(* queue that disappears it is delivered or lost without anyone being told.*)
(***************************************************************************)
EXTENDS Integers, Sequences, FiniteSets

CONSTANTS
    Senders,
    Incoming,       \* messages a connected sender may send
    Unlinked,       \* value of queue[s] when s is not connected
    SendQueueMax,   \* SEND_QUEUE_MAXSIZE
    IncomingMax     \* INCOMING_QUEUE_MAXSIZE

ASSUME PortAssumption ==
    /\ SendQueueMax \in Nat \ {0}
    /\ IncomingMax \in Nat \ {0}

VARIABLES
    queue,          \* queue[s]: payloads waiting for the writer of s, or Unlinked
    limbo,          \* limbo[s]: accepted payloads that will be delivered or lost
    delivered,      \* delivered[s]: payloads written to s
    feeds,          \* feeds[s]: connections whose messages count as those of s
    incoming        \* messages not yet taken by the service

portVars == <<queue, limbo, delivered, feeds, incoming>>

PortInit ==
    /\ queue = [s \in Senders |-> Unlinked]
    /\ limbo = [s \in Senders |-> {}]
    /\ delivered = [s \in Senders |-> {}]
    /\ feeds = [s \in Senders |-> 0]
    /\ incoming = <<>>

Linked(s) == queue[s] # Unlinked

Elements(q) == {q[i] : i \in DOMAIN q}

\* The payloads of s that may still go either way if its link goes.
Pending(s) == limbo[s] \cup (IF Linked(s) THEN Elements(queue[s]) ELSE {})

\* A message of s enters the incoming queue.
Enqueue(s, m) ==
    /\ Len(incoming) < IncomingMax
    /\ incoming' = Append(incoming, [from |-> s, msg |-> m])

\* Faulty form of Attach: the new connection inherits the payloads that the
\* old one may still be writing.
InheritingAttach(s, m) ==
    /\ queue' = [queue EXCEPT ![s] = IF Linked(s) THEN @ ELSE <<>>]
    /\ limbo' = [limbo EXCEPT ![s] = Pending(s)]
    /\ feeds' = [feeds EXCEPT ![s] = @ + 1]
    /\ UNCHANGED incoming \/ Enqueue(s, m)
    /\ UNCHANGED delivered

\* The hello m of sender s is accepted; it enters the incoming queue at once
\* or, when that is full, is posted later.  A reconnecting sender gets a new, empty
\* queue while the old connection may go on writing the old one.
Attach(s, m) ==
    /\ queue' = [queue EXCEPT ![s] = <<>>]
    /\ limbo' = [limbo EXCEPT ![s] = Pending(s)]
    /\ feeds' = [feeds EXCEPT ![s] = @ + 1]
    /\ UNCHANGED incoming \/ Enqueue(s, m)
    /\ UNCHANGED delivered

Post(s, m) ==
    /\ feeds[s] > 0
    /\ Enqueue(s, m)
    /\ UNCHANGED <<queue, limbo, delivered, feeds>>

\* One of the connections of s breaks or ends.  The link may or may not be
\* the one it carried, and any of the pending payloads may go with it.
Detach(s, ended) ==
    /\ feeds[s] >= ended
    /\ feeds' = [feeds EXCEPT ![s] = @ - ended]
    /\ \/ /\ UNCHANGED queue
          /\ \E rest \in SUBSET limbo[s] : limbo' = [limbo EXCEPT ![s] = rest]
       \/ /\ Linked(s)
          /\ queue' = [queue EXCEPT ![s] = Unlinked]
          /\ \E rest \in SUBSET Pending(s) : limbo' = [limbo EXCEPT ![s] = rest]
    /\ UNCHANGED <<delivered, incoming>>

BeginWrite(s) ==
    /\ Linked(s)
    /\ queue[s] # <<>>
    /\ limbo' = [limbo EXCEPT ![s] = @ \cup {Head(queue[s])}]
    /\ queue' = [queue EXCEPT ![s] = Tail(@)]
    /\ UNCHANGED <<delivered, feeds, incoming>>

Deliver(s) ==
    /\ \E p \in limbo[s] :
          /\ limbo' = [limbo EXCEPT ![s] = @ \ {p}]
          /\ delivered' = [delivered EXCEPT ![s] = @ \cup {p}]
    /\ UNCHANGED <<queue, feeds, incoming>>

\* What send answers: "unknown" is UnknownSenderError, "full" is
\* SendQueueFullError.
SendOutcome(s) ==
    CASE ~ Linked(s) -> "unknown"
      [] Linked(s) /\ Len(queue[s]) >= SendQueueMax -> "full"
      [] OTHER -> "ok"

Send(s, p) ==
    /\ SendOutcome(s) = "ok"
    /\ queue' = [queue EXCEPT ![s] = Append(@, p)]
    /\ UNCHANGED <<limbo, delivered, feeds, incoming>>

TakeIncoming ==
    /\ incoming # <<>>
    /\ incoming' = Tail(incoming)
    /\ UNCHANGED <<queue, limbo, delivered, feeds>>

\* The steps that are not the caller's.
PortStep ==
    \E s \in Senders :
        \/ \E m \in Incoming : Attach(s, m) \/ Post(s, m)
        \/ \E ended \in {0, 1} : Detach(s, ended)
        \/ BeginWrite(s)
        \/ Deliver(s)

PortNext(Payloads) ==
    \/ PortStep
    \/ \E s \in Senders, p \in Payloads : Send(s, p)
    \/ TakeIncoming
=============================================================================
