------------------------------ MODULE UdsServer ------------------------------
(***************************************************************************)
(* The Unix-socket server of file-monitor, src/src/file_monitor/ipc/uds.py *)
(* (class UdsIpcServer), with the senders' ends of the connections.        *)
(*                                                                         *)
(* Everything runs in one asyncio loop, so the code between two awaits     *)
(* that suspend is one action.  Each connection has a handler task         *)
(* (_handle_peer) and, after its handshake, a writer task (_write_loop).   *)
(* The asyncio.Queue of a connection is identified with the connection:    *)
(* peers[s] = c stands for _peers[s] being c's queue, None for no entry.   *)
(*                                                                         *)
(* handler[c]   "none"       not accepted yet                              *)
(*              "recv"       in sock_recv                                  *)
(*              "put"        in _incoming.put, the queue being full        *)
(*              "done"       ended: its finally block has run              *)
(* writer[c]    "none"       not started                                   *)
(*              "get"        in queue.get                                  *)
(*              "send"       in sock_sendall                               *)
(*              "failed"     ended by an OSError                           *)
(*              "cancelled"  cancelled by the handler                      *)
(***************************************************************************)
EXTENDS Integers, Sequences, FiniteSets

CONSTANTS
    Senders,        \* sender ids
    Conns,          \* connections, each used once
    Bodies,         \* messages that are not a SenderHello
    GoodHash,       \* the server's _expected_proto_hash
    BadHash,        \* any other proto hash
    None,           \* no sender, no connection, no message
    SendQueueMax,   \* SEND_QUEUE_MAXSIZE
    IncomingMax,    \* INCOMING_QUEUE_MAXSIZE
    MaxMessages,    \* bound: messages a client sends on one connection
    MaxSends        \* bound: payloads the service sends

Hello(s, h) == [type |-> "sender_hello", sender_id |-> s, proto_hash |-> h]
Body(b) == [type |-> "body", body |-> b]

Messages == {Hello(s, h) : s \in Senders, h \in {GoodHash, BadHash}} \cup {Body(b) : b \in Bodies}

ASSUME UdsAssumption ==
    /\ None \notin Senders \cup Conns \cup Messages
    /\ None \notin Seq(1 .. MaxSends)
    /\ GoodHash # BadHash
    /\ SendQueueMax \in Nat \ {0}
    /\ IncomingMax \in Nat \ {0}
    /\ MaxMessages \in Nat
    /\ MaxSends \in Nat

Payloads == 1 .. MaxSends

VARIABLES
    serving,        \* the accept loop is running
    client,         \* client[c]: the sender's end, "idle", "open" or "closed"
    clientSent,     \* clientSent[c]: messages the client has sent, for MaxMessages
    inbox,          \* inbox[c]: messages in the socket, not yet received
    readShut,       \* readShut[c]: SHUT_RD was done on the server's end
    handler,
    owner,          \* owner[c]: _handle_peer's sender_id
    held,           \* held[c]: the message _handle_peer is trying to put
    sendQueue,      \* sendQueue[c]: the connection's asyncio.Queue
    writer,
    inflight,       \* inflight[c]: the payload in sock_sendall, as a sequence
    wire,           \* wire[c]: payloads written to the socket
    peers,          \* _peers
    incoming,       \* _incoming: [from, msg] records
    sends,          \* payloads accepted by send so far; the last one's number
    accepted,       \* history, accepted[c]: payloads send put in c's queue
    newest,         \* history, newest[s]: last connection to shake hands as s
    first           \* history, first[c]: the first message the client sent

clientVars == <<client, clientSent>>
writeVars  == <<sendQueue, writer, inflight, wire>>
history    == <<sends, accepted, newest, first>>
vars == <<serving, client, clientSent, inbox, readShut, handler, owner, held,
          sendQueue, writer, inflight, wire, peers, incoming, sends, accepted, newest, first>>

Init ==
    /\ serving = TRUE
    /\ client = [c \in Conns |-> "idle"]
    /\ clientSent = [c \in Conns |-> 0]
    /\ inbox = [c \in Conns |-> <<>>]
    /\ readShut = [c \in Conns |-> FALSE]
    /\ handler = [c \in Conns |-> "none"]
    /\ owner = [c \in Conns |-> None]
    /\ held = [c \in Conns |-> None]
    /\ sendQueue = [c \in Conns |-> <<>>]
    /\ writer = [c \in Conns |-> "none"]
    /\ inflight = [c \in Conns |-> <<>>]
    /\ wire = [c \in Conns |-> <<>>]
    /\ peers = [s \in Senders |-> None]
    /\ incoming = <<>>
    /\ sends = 0
    /\ accepted = [c \in Conns |-> <<>>]
    /\ newest = [s \in Senders |-> None]
    /\ first = [c \in Conns |-> None]

(***************************************************************************)
(* The senders' ends of the connections: processes outside the repository, *)
(* which may send anything and leave at any moment.                        *)
(***************************************************************************)

ClientConnect(c) ==
    /\ client[c] = "idle"
    /\ client' = [client EXCEPT ![c] = "open"]
    /\ UNCHANGED <<serving, clientSent, inbox, readShut, handler, owner, held, peers, incoming>>
    /\ UNCHANGED <<writeVars, history>>

\* After SHUT_RD on the server's end the client's send fails with EPIPE.
ClientSend(c, m) ==
    /\ client[c] = "open"
    /\ handler[c] # "done"
    /\ ~ readShut[c]
    /\ clientSent[c] < MaxMessages
    /\ clientSent' = [clientSent EXCEPT ![c] = @ + 1]
    /\ inbox' = [inbox EXCEPT ![c] = Append(@, m)]
    /\ first' = [first EXCEPT ![c] = IF @ = None THEN m ELSE @]
    /\ UNCHANGED <<serving, client, readShut, handler, owner, held, peers, incoming>>
    /\ UNCHANGED <<writeVars, sends, accepted, newest>>

ClientClose(c) ==
    /\ client[c] = "open"
    /\ client' = [client EXCEPT ![c] = "closed"]
    /\ UNCHANGED <<serving, clientSent, inbox, readShut, handler, owner, held, peers, incoming>>
    /\ UNCHANGED <<writeVars, history>>

(***************************************************************************)
(* serve and _handle_peer.                                                 *)
(***************************************************************************)

Accept(c) ==
    /\ serving
    /\ client[c] # "idle"
    /\ handler[c] = "none"
    /\ handler' = [handler EXCEPT ![c] = "recv"]
    /\ UNCHANGED <<serving, clientVars, inbox, readShut, owner, held, peers, incoming>>
    /\ UNCHANGED <<writeVars, history>>

\* Faulty form of OwnsEntry: the clean-up pops whatever queue is registered.
AnyEntry(s, c) == s # None

\* self._peers.get(sender_id) is send_queue
OwnsEntry(s, c) == s # None /\ peers[s] = c

\* Faulty form of ForgetPeer: the entry stays.
KeepPeer(s, c) == peers' = peers

ForgetPeer(s, c) ==
    peers' = IF OwnsEntry(s, c) THEN [peers EXCEPT ![s] = None] ELSE peers

\* The finally block of _handle_peer.  What is left in the queue, in flight
\* or in the socket goes with the task and the socket.
HandlerExit(c) ==
    /\ handler' = [handler EXCEPT ![c] = "done"]
    /\ ForgetPeer(owner[c], c)
    /\ writer' = [writer EXCEPT ![c] = IF @ \in {"get", "send"} THEN "cancelled" ELSE @]
    /\ inbox' = [inbox EXCEPT ![c] = <<>>]
    /\ held' = [held EXCEPT ![c] = None]
    /\ sendQueue' = [sendQueue EXCEPT ![c] = <<>>]
    /\ inflight' = [inflight EXCEPT ![c] = <<>>]
    /\ UNCHANGED <<serving, clientVars, readShut, owner, wire, incoming, history>>

Receiving(c) == serving /\ handler[c] = "recv"

\* Faulty form of PutIncoming: the queue has no bound.
PutUnbounded(c, s, m) ==
    /\ incoming' = Append(incoming, [from |-> s, msg |-> m])
    /\ UNCHANGED <<handler, held>>

\* await self._incoming.put((s, m)): suspends only when the queue is full.
PutIncoming(c, s, m) ==
    IF Len(incoming) < IncomingMax
    THEN /\ incoming' = Append(incoming, [from |-> s, msg |-> m])
         /\ UNCHANGED <<handler, held>>
    ELSE /\ handler' = [handler EXCEPT ![c] = "put"]
         /\ held' = [held EXCEPT ![c] = m]
         /\ UNCHANGED incoming

\* Faulty form of HandshakeAccepted: the proto hash is not compared.
AnyHelloAccepted(m) == m.type = "sender_hello"

\* _complete_handshake raises neither HandshakeError, ProtoHashMismatchError
\* nor, for bytes that are no Envelope, codec.decode's error.
HandshakeAccepted(m) == m.type = "sender_hello" /\ m.proto_hash = GoodHash

\* First message of a connection, and a good one: _complete_handshake, and
\* then the hello itself is put in _incoming.
PeerHello(c) ==
    /\ Receiving(c)
    /\ owner[c] = None
    /\ inbox[c] # <<>>
    /\ LET m == Head(inbox[c])
       IN  /\ HandshakeAccepted(m)
           /\ owner' = [owner EXCEPT ![c] = m.sender_id]
           /\ peers' = [peers EXCEPT ![m.sender_id] = c]
           /\ newest' = [newest EXCEPT ![m.sender_id] = c]
           /\ PutIncoming(c, m.sender_id, m)
    /\ writer' = [writer EXCEPT ![c] = "get"]
    /\ inbox' = [inbox EXCEPT ![c] = Tail(@)]
    /\ UNCHANGED <<serving, clientVars, readShut, sendQueue, inflight, wire, sends, accepted, first>>

PeerRefused(c) ==
    /\ Receiving(c)
    /\ owner[c] = None
    /\ inbox[c] # <<>>
    /\ ~ HandshakeAccepted(Head(inbox[c]))
    /\ HandlerExit(c)

\* A later message, a second SenderHello included, is only passed on.
PeerMessage(c) ==
    /\ Receiving(c)
    /\ owner[c] # None
    /\ inbox[c] # <<>>
    /\ PutIncoming(c, owner[c], Head(inbox[c]))
    /\ inbox' = [inbox EXCEPT ![c] = Tail(@)]
    /\ UNCHANGED <<serving, clientVars, readShut, owner, peers>>
    /\ UNCHANGED <<writeVars, history>>

\* A slot came free while the handler was in _incoming.put.
PeerPut(c) ==
    /\ serving
    /\ handler[c] = "put"
    /\ Len(incoming) < IncomingMax
    /\ incoming' = Append(incoming, [from |-> owner[c], msg |-> held[c]])
    /\ handler' = [handler EXCEPT ![c] = "recv"]
    /\ held' = [held EXCEPT ![c] = None]
    /\ UNCHANGED <<serving, clientVars, inbox, readShut, owner, peers>>
    /\ UNCHANGED <<writeVars, history>>

\* Faulty form of AtEof: the end of the client's stream is not noticed.
AtOwnShutdownOnly(c) == inbox[c] = <<>> /\ readShut[c]

\* sock_recv returns b"": everything buffered was received first.
AtEof(c) == inbox[c] = <<>> /\ (client[c] = "closed" \/ readShut[c])

PeerEof(c) ==
    /\ Receiving(c)
    /\ AtEof(c)
    /\ HandlerExit(c)

\* The client left with payloads unread: sock_recv raises ECONNRESET, and
\* what the client had still sent is lost.
PeerReset(c) ==
    /\ Receiving(c)
    /\ client[c] = "closed"
    /\ wire[c] # <<>>
    /\ HandlerExit(c)

\* serve is cancelled: the listening socket is closed and every handler is
\* cancelled.  From here on a handler's next step raises CancelledError.
StopServe ==
    /\ serving
    /\ serving' = FALSE
    /\ UNCHANGED <<clientVars, inbox, readShut, handler, owner, held, peers, incoming>>
    /\ UNCHANGED <<writeVars, history>>

\* Faulty form of CancelledByServe: only the idle handlers are cancelled.
CancelledInRecvOnly(c) == ~ serving /\ handler[c] = "recv"

CancelledByServe(c) == ~ serving /\ handler[c] \in {"recv", "put"}

HandlerCancelled(c) ==
    /\ CancelledByServe(c)
    /\ HandlerExit(c)

(***************************************************************************)
(* _write_loop.                                                            *)
(***************************************************************************)

\* Faulty form of TakeHead: the payload stays in the queue.
KeepHead(q) == q

TakeHead(q) == Tail(q)

WriterGet(c) ==
    /\ writer[c] = "get"
    /\ sendQueue[c] # <<>>
    /\ inflight' = [inflight EXCEPT ![c] = <<Head(sendQueue[c])>>]
    /\ sendQueue' = [sendQueue EXCEPT ![c] = TakeHead(@)]
    /\ writer' = [writer EXCEPT ![c] = "send"]
    /\ UNCHANGED <<serving, clientVars, inbox, readShut, handler, owner, held, peers, incoming>>
    /\ UNCHANGED <<wire, history>>

WriteDone(c) ==
    /\ writer[c] = "send"
    /\ client[c] = "open"
    /\ wire' = [wire EXCEPT ![c] = @ \o inflight[c]]
    /\ inflight' = [inflight EXCEPT ![c] = <<>>]
    /\ writer' = [writer EXCEPT ![c] = "get"]
    /\ UNCHANGED <<serving, clientVars, inbox, readShut, handler, owner, held, peers, incoming>>
    /\ UNCHANGED <<sendQueue, history>>

\* Faulty form of ShutRead: the handler is not woken.
LeaveRead(c) == UNCHANGED readShut

\* connection.shutdown(SHUT_RD), so that the handler's sock_recv returns.
ShutRead(c) == readShut' = [readShut EXCEPT ![c] = TRUE]

\* sock_sendall raises OSError: certain once the client has closed, possible
\* at any other time.  The queue has no reader from here on.
WriteFails(c) ==
    /\ writer[c] = "send"
    /\ ForgetPeer(owner[c], c)
    /\ ShutRead(c)
    /\ writer' = [writer EXCEPT ![c] = "failed"]
    /\ inflight' = [inflight EXCEPT ![c] = <<>>]
    /\ sendQueue' = [sendQueue EXCEPT ![c] = <<>>]
    /\ UNCHANGED <<serving, clientVars, inbox, handler, owner, held, wire, incoming, history>>

(***************************************************************************)
(* send and incoming, the operations the service calls.                    *)
(***************************************************************************)

\* Faulty form of SendOutcome: the bound of the queue is not looked at.
NeverFull(s) == IF peers[s] = None THEN "unknown" ELSE "ok"

\* "unknown": UnknownSenderError; "full": SendQueueFullError.
SendOutcome(s) ==
    CASE peers[s] = None -> "unknown"
      [] peers[s] # None /\ Len(sendQueue[peers[s]]) >= SendQueueMax -> "full"
      [] OTHER -> "ok"

Send(s) ==
    /\ sends < MaxSends
    /\ SendOutcome(s) = "ok"
    /\ sends' = sends + 1
    /\ sendQueue' = [sendQueue EXCEPT ![peers[s]] = Append(@, sends + 1)]
    /\ accepted' = [accepted EXCEPT ![peers[s]] = Append(@, sends + 1)]
    /\ UNCHANGED <<serving, clientVars, inbox, readShut, handler, owner, held, peers, incoming>>
    /\ UNCHANGED <<writer, inflight, wire, newest, first>>

TakeIncoming ==
    /\ incoming # <<>>
    /\ incoming' = Tail(incoming)
    /\ UNCHANGED <<serving, clientVars, inbox, readShut, handler, owner, held, peers>>
    /\ UNCHANGED <<writeVars, history>>

HandlerStep(c) ==
    \/ PeerHello(c)
    \/ PeerRefused(c)
    \/ PeerMessage(c)
    \/ PeerPut(c)
    \/ PeerEof(c)
    \/ HandlerCancelled(c)

Next ==
    \/ \E c \in Conns :
          \/ ClientConnect(c)
          \/ ClientClose(c)
          \/ \E m \in Messages : ClientSend(c, m)
          \/ Accept(c)
          \/ HandlerStep(c)
          \/ PeerReset(c)
          \/ WriterGet(c)
          \/ WriteDone(c)
          \/ WriteFails(c)
    \/ \E s \in Senders : Send(s)
    \/ TakeIncoming
    \/ StopServe

Spec == Init /\ [][Next]_vars

(***************************************************************************)
(* The event loop runs every task that can go on: accepting, the handlers, *)
(* the writers' queue.get and the consumer of _incoming.  Nothing is       *)
(* assumed of the clients, nor that a sock_sendall ever ends.              *)
(***************************************************************************)
Fairness ==
    /\ \A c \in Conns : /\ WF_vars(Accept(c))
                        /\ WF_vars(HandlerStep(c))
                        /\ WF_vars(WriterGet(c))
    /\ WF_vars(TakeIncoming)

FairSpec == Spec /\ Fairness

(***************************************************************************)
(* Properties.                                                             *)
(***************************************************************************)

Entries == [from : Senders, msg : Messages]

TypeOK ==
    /\ serving \in BOOLEAN
    /\ client \in [Conns -> {"idle", "open", "closed"}]
    /\ clientSent \in [Conns -> 0 .. MaxMessages]
    /\ inbox \in [Conns -> Seq(Messages)]
    /\ readShut \in [Conns -> BOOLEAN]
    /\ handler \in [Conns -> {"none", "recv", "put", "done"}]
    /\ owner \in [Conns -> Senders \cup {None}]
    /\ held \in [Conns -> Messages \cup {None}]
    /\ sendQueue \in [Conns -> Seq(Payloads)]
    /\ writer \in [Conns -> {"none", "get", "send", "failed", "cancelled"}]
    /\ inflight \in [Conns -> Seq(Payloads)]
    /\ wire \in [Conns -> Seq(Payloads)]
    /\ peers \in [Senders -> Conns \cup {None}]
    /\ incoming \in Seq(Entries)
    /\ Len(incoming) <= IncomingMax
    /\ sends \in 0 .. MaxSends
    /\ accepted \in [Conns -> Seq(Payloads)]
    /\ newest \in [Senders -> Conns \cup {None}]
    /\ first \in [Conns -> Messages \cup {None}]

\* Both tasks of connection c are running.
Live(c) == handler[c] \in {"recv", "put"} /\ writer[c] \in {"get", "send"}

(***************************************************************************)
(* send never puts a payload in a queue that nobody reads: a registered    *)
(* queue belongs to a connection of that very sender whose handler and     *)
(* writer are both running, whatever failed or was replaced before.        *)
(***************************************************************************)
RegisteredPeerIsServed ==
    \A s \in Senders :
        peers[s] # None => Live(peers[s]) /\ owner[peers[s]] = s

(***************************************************************************)
(* After reconnects the newest connection of a sender is the registered    *)
(* one for as long as it lives, however late the clean-up of its           *)
(* predecessors runs; and once it ends none of them comes back.            *)
(***************************************************************************)
NewestConnectionRegistered ==
    \A s \in Senders :
        peers[s] = IF newest[s] # None /\ Live(newest[s]) THEN newest[s] ELSE None

IsPrefixOf(s, t) == Len(s) <= Len(t) /\ SubSeq(t, 1, Len(s)) = s

(***************************************************************************)
(* The payloads send accepted for a connection are written in the order    *)
(* they were accepted, none twice and none left out; while the connection  *)
(* lives each of them is written, in flight or still queued.               *)
(***************************************************************************)
AcceptedInOrder ==
    \A c \in Conns :
        LET account == wire[c] \o inflight[c] \o sendQueue[c]
        IN  /\ IsPrefixOf(account, accepted[c])
            /\ Live(c) => account = accepted[c]

(***************************************************************************)
(* The service hears a sender only if some connection opened with that     *)
(* sender's hello carrying the server's proto hash: nothing sent before a  *)
(* handshake, or after a refused one, reaches _incoming or the registry.   *)
(***************************************************************************)
OnlyGreetedSendersHeard ==
    /\ \A c \in Conns : owner[c] # None => first[c] = Hello(owner[c], GoodHash)
    /\ \A i \in DOMAIN incoming :
          \E c \in Conns : first[c] = Hello(incoming[i].from, GoodHash)

(***************************************************************************)
(* A failed write ends the connection: the handler, which may be blocked   *)
(* in sock_recv on a client that never says anything, is woken and ends.   *)
(***************************************************************************)
FailedWriteEndsHandler ==
    \A c \in Conns : writer[c] = "failed" ~> handler[c] = "done"

(***************************************************************************)
(* A client that has left is noticed, and its connection cleaned up, even  *)
(* when its handler was waiting for room in _incoming.                     *)
(***************************************************************************)
DepartedClientForgotten ==
    \A c \in Conns : client[c] = "closed" ~> handler[c] = "done" \/ ~ serving

(***************************************************************************)
(* When serve is cancelled no sender stays registered: the handlers in     *)
(* sock_recv and those in _incoming.put both run their clean-up.           *)
(***************************************************************************)
StopForgetsPeers ==
    ~ serving ~> \A s \in Senders : peers[s] = None

(***************************************************************************)
(* Refinement: the server implements IpcPort.  The queue of a sender is    *)
(* that of its registered connection; its limbo holds what its writers     *)
(* have in flight and what is queued on connections that were replaced.    *)
(***************************************************************************)
ElementsOf(q) == {q[i] : i \in DOMAIN q}

ConnsOf(s) == {c \in Conns : owner[c] = s}

PortQueue == [s \in Senders |-> IF peers[s] = None THEN None ELSE sendQueue[peers[s]]]

PortLimbo ==
    [s \in Senders |->
        (UNION {ElementsOf(inflight[c]) : c \in ConnsOf(s)})
          \cup (UNION {ElementsOf(sendQueue[c]) : c \in {d \in ConnsOf(s) : d # peers[s]}})]

PortDelivered == [s \in Senders |-> UNION {ElementsOf(wire[c]) : c \in ConnsOf(s)}]

PortFeeds ==
    [s \in Senders |-> Cardinality({c \in ConnsOf(s) : handler[c] \in {"recv", "put"}})]

Port == INSTANCE IpcPort WITH
    Incoming  <- Messages,
    Unlinked  <- None,
    queue     <- PortQueue,
    limbo     <- PortLimbo,
    delivered <- PortDelivered,
    feeds     <- PortFeeds

(***************************************************************************)
(* Every step of the server is one the port allows its callers to see, or  *)
(* none: in particular a payload is delivered only to the sender it was    *)
(* accepted for, and only once, across reconnects and failures.            *)
(***************************************************************************)
Implements == Port!PortInit /\ [][Port!PortNext(Payloads)]_(Port!portVars)
=============================================================================
