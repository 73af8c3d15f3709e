--------------------------- MODULE UdsServerProofs ---------------------------
(***************************************************************************)
(* The registration of connections in UdsServer, for any number of         *)
(* senders, connections and messages and any queue sizes.                  *)
(***************************************************************************)
EXTENDS UdsServer, TLAPS

\* A hello that passes the handshake names a sender.
LEMMA HelloNamesSender ==
    ASSUME NEW m \in Messages, HandshakeAccepted(m)
    PROVE  m.sender_id \in Senders
BY DEF Messages, Hello, Body, HandshakeAccepted

\* A handler waiting in _incoming.put has shaken hands and holds a message.
HeldInv ==
    \A c \in Conns : handler[c] = "put" => owner[c] \in Senders /\ held[c] \in Messages

TypeInv == TypeOK /\ HeldInv

LEMMA TypeInvInit == Init => TypeInv
<1> SUFFICES ASSUME Init PROVE TypeInv
  OBVIOUS
<1>1. TypeOK
  BY UdsAssumption DEF Init, TypeOK
<1>2. HeldInv
  BY DEF Init, HeldInv
<1> QED
  BY <1>1, <1>2 DEF TypeInv

LEMMA HandlerExitType ==
    ASSUME TypeInv, NEW c \in Conns, HandlerExit(c)
    PROVE  TypeInv'
<1>1. TypeOK'
  BY SMTT(30) DEF TypeInv, TypeOK, HandlerExit, ForgetPeer, OwnsEntry, clientVars, history
<1>2. HeldInv'
  BY DEF TypeInv, TypeOK, HeldInv, HandlerExit
<1> QED
  BY <1>1, <1>2 DEF TypeInv

LEMMA PutIncomingType ==
    ASSUME TypeInv, NEW c \in Conns, NEW s \in Senders, NEW m \in Messages,
           handler[c] = "recv", PutIncoming(c, s, m)
    PROVE  /\ handler' \in [Conns -> {"none", "recv", "put", "done"}]
           /\ held' \in [Conns -> Messages \cup {None}]
           /\ incoming' \in Seq(Entries)
           /\ Len(incoming') <= IncomingMax
           /\ handler'[c] = "put" => held'[c] = m
           /\ \A d \in Conns : d # c => handler'[d] = handler[d] /\ held'[d] = held[d]
<1> USE DEF TypeInv, TypeOK
<1>1. CASE Len(incoming) < IncomingMax
  <2>1. UNCHANGED <<handler, held>> /\ incoming' = Append(incoming, [from |-> s, msg |-> m])
    BY <1>1 DEF PutIncoming
  <2>2. [from |-> s, msg |-> m] \in Entries
    BY DEF Entries
  <2>3. incoming' \in Seq(Entries) /\ Len(incoming') = Len(incoming) + 1
    BY <2>1, <2>2
  <2>4. Len(incoming') <= IncomingMax
    BY <1>1, <2>3, UdsAssumption
  <2> QED
    BY <2>1, <2>3, <2>4
<1>2. CASE ~ (Len(incoming) < IncomingMax)
  <2>1. /\ UNCHANGED incoming
        /\ handler' = [handler EXCEPT ![c] = "put"]
        /\ held' = [held EXCEPT ![c] = m]
    BY <1>2 DEF PutIncoming
  <2> QED
    BY <2>1
<1> QED
  BY <1>1, <1>2

LEMMA TypeInvStep == TypeInv /\ [Next]_vars => TypeInv'
<1> SUFFICES ASSUME TypeInv, [Next]_vars PROVE TypeInv'
  OBVIOUS
<1> USE UdsAssumption DEF clientVars, writeVars, history
<1>1. ASSUME NEW c \in Conns, ClientConnect(c) PROVE TypeInv'
  BY <1>1 DEF TypeInv, TypeOK, HeldInv, ClientConnect
<1>2. ASSUME NEW c \in Conns, ClientClose(c) PROVE TypeInv'
  BY <1>2 DEF TypeInv, TypeOK, HeldInv, ClientClose
<1>3. ASSUME NEW c \in Conns, NEW m \in Messages, ClientSend(c, m) PROVE TypeInv'
  BY <1>3 DEF TypeInv, TypeOK, HeldInv, ClientSend
<1>4. ASSUME NEW c \in Conns, Accept(c) PROVE TypeInv'
  BY <1>4 DEF TypeInv, TypeOK, HeldInv, Accept
<1>5. ASSUME NEW c \in Conns, PeerHello(c) PROVE TypeInv'
  <2> DEFINE m == Head(inbox[c])
  <2>1. m \in Messages /\ HandshakeAccepted(m) /\ Tail(inbox[c]) \in Seq(Messages)
    BY <1>5 DEF PeerHello, TypeInv, TypeOK
  <2>2. m.sender_id \in Senders
    BY <2>1, HelloNamesSender
  <2>3. /\ PutIncoming(c, m.sender_id, m)
        /\ handler[c] = "recv"
        /\ owner' = [owner EXCEPT ![c] = m.sender_id]
        /\ peers' = [peers EXCEPT ![m.sender_id] = c]
        /\ newest' = [newest EXCEPT ![m.sender_id] = c]
        /\ writer' = [writer EXCEPT ![c] = "get"]
        /\ inbox' = [inbox EXCEPT ![c] = Tail(@)]
        /\ UNCHANGED <<serving, client, clientSent, readShut, sendQueue, inflight, wire, sends,
                       accepted, first>>
    BY <1>5 DEF PeerHello, Receiving
  <2> HIDE DEF m
  <2>4. /\ handler' \in [Conns -> {"none", "recv", "put", "done"}]
        /\ held' \in [Conns -> Messages \cup {None}]
        /\ incoming' \in Seq(Entries)
        /\ Len(incoming') <= IncomingMax
        /\ handler'[c] = "put" => held'[c] = m
        /\ \A d \in Conns : d # c => handler'[d] = handler[d] /\ held'[d] = held[d]
    BY <2>1, <2>2, <2>3, PutIncomingType
  <2>5. TypeOK'
    BY <2>1, <2>2, <2>3, <2>4 DEF TypeInv, TypeOK
  <2>6. HeldInv'
    BY <2>1, <2>2, <2>3, <2>4 DEF TypeInv, TypeOK, HeldInv
  <2> QED
    BY <2>5, <2>6 DEF TypeInv
<1>6. ASSUME NEW c \in Conns, PeerMessage(c) PROVE TypeInv'
  <2> DEFINE m == Head(inbox[c])
  <2>1. m \in Messages /\ owner[c] \in Senders /\ Tail(inbox[c]) \in Seq(Messages)
    BY <1>6 DEF PeerMessage, TypeInv, TypeOK
  <2>2. /\ PutIncoming(c, owner[c], m)
        /\ handler[c] = "recv"
        /\ inbox' = [inbox EXCEPT ![c] = Tail(@)]
        /\ UNCHANGED <<serving, client, clientSent, readShut, owner, peers, sendQueue, writer,
                       inflight, wire, sends, accepted, newest, first>>
    BY <1>6 DEF PeerMessage, Receiving
  <2> HIDE DEF m
  <2>3. /\ handler' \in [Conns -> {"none", "recv", "put", "done"}]
        /\ held' \in [Conns -> Messages \cup {None}]
        /\ incoming' \in Seq(Entries)
        /\ Len(incoming') <= IncomingMax
        /\ handler'[c] = "put" => held'[c] = m
        /\ \A d \in Conns : d # c => handler'[d] = handler[d] /\ held'[d] = held[d]
    BY <2>1, <2>2, PutIncomingType
  <2>4. TypeOK'
    BY <2>1, <2>2, <2>3 DEF TypeInv, TypeOK
  <2>5. HeldInv'
    BY <2>1, <2>2, <2>3 DEF TypeInv, TypeOK, HeldInv
  <2> QED
    BY <2>4, <2>5 DEF TypeInv
<1>7. ASSUME NEW c \in Conns, PeerPut(c) PROVE TypeInv'
  BY <1>7 DEF TypeInv, TypeOK, HeldInv, PeerPut, Entries
<1>8. ASSUME NEW c \in Conns, PeerRefused(c) \/ PeerEof(c) \/ PeerReset(c) \/ HandlerCancelled(c)
      PROVE  TypeInv'
  BY <1>8, HandlerExitType DEF PeerRefused, PeerEof, PeerReset, HandlerCancelled
<1>9. ASSUME NEW c \in Conns, WriterGet(c) PROVE TypeInv'
  BY <1>9 DEF TypeInv, TypeOK, HeldInv, WriterGet, TakeHead
<1>10. ASSUME NEW c \in Conns, WriteDone(c) PROVE TypeInv'
  BY <1>10 DEF TypeInv, TypeOK, HeldInv, WriteDone
<1>11. ASSUME NEW c \in Conns, WriteFails(c) PROVE TypeInv'
  BY <1>11 DEF TypeInv, TypeOK, HeldInv, WriteFails, ForgetPeer, OwnsEntry, ShutRead
<1>12. ASSUME NEW s \in Senders, Send(s) PROVE TypeInv'
  <2>1. peers[s] \in Conns
    BY <1>12 DEF TypeInv, TypeOK, Send, SendOutcome
  <2>2. sends + 1 \in Payloads
    BY <1>12 DEF TypeInv, TypeOK, Send, Payloads
  <2>3. sends + 1 \in 0 .. MaxSends
    BY <2>2 DEF Payloads
  <2> QED
    BY SMTT(30), <1>12, <2>1, <2>2, <2>3 DEF TypeInv, TypeOK, HeldInv, Send
<1>13. CASE TakeIncoming
  BY <1>13 DEF TypeInv, TypeOK, HeldInv, TakeIncoming
<1>14. CASE StopServe
  BY <1>14 DEF TypeInv, TypeOK, HeldInv, StopServe
<1>15. CASE UNCHANGED vars
  BY <1>15 DEF TypeInv, TypeOK, HeldInv, vars
<1> QED
  BY <1>1, <1>2, <1>3, <1>4, <1>5, <1>6, <1>7, <1>8, <1>9, <1>10, <1>11, <1>12, <1>13, <1>14,
     <1>15 DEF Next, HandlerStep

(***************************************************************************)
(* Type correctness: the queues hold messages and payloads, the incoming   *)
(* queue keeps its bound, and the registry maps senders to connections.    *)
(***************************************************************************)
THEOREM TypeCorrect == Spec => []TypeOK
<1>1. TypeInv => TypeOK
  BY DEF TypeInv
<1> QED
  BY TypeInvInit, TypeInvStep, <1>1, PTL DEF Spec

(***************************************************************************)
(* The inductive invariant of the registration.  NewestConnectionRegistered*)
(* alone is not inductive: that a clean-up finds the queue of another      *)
(* connection in its own entry only when it has been replaced needs to     *)
(* know whose entry it looks at.                                           *)
(***************************************************************************)
NewestOwned ==
    \A s \in Senders : newest[s] # None =>
        owner[newest[s]] = s /\ handler[newest[s]] # "none"

RegInv == TypeInv /\ NewestOwned /\ NewestConnectionRegistered

LEMMA RegInvInit == Init => RegInv
BY TypeInvInit DEF Init, RegInv, NewestOwned, NewestConnectionRegistered

\* A step that starts, ends or registers nothing.
LEMMA UntouchedRegistration ==
    ASSUME RegInv, UNCHANGED <<peers, newest, owner>>,
           \A c \in Conns : /\ Live(c)' <=> Live(c)
                            /\ handler[c] # "none" => handler'[c] # "none"
    PROVE  (NewestOwned /\ NewestConnectionRegistered)'
BY DEF RegInv, TypeInv, TypeOK, NewestOwned, NewestConnectionRegistered

\* A step after which connection c is dead, its own entry popped.
LEMMA DeathUnregisters ==
    ASSUME RegInv, NEW c \in Conns, ForgetPeer(owner[c], c),
           UNCHANGED <<newest, owner>>, ~ Live(c)',
           handler[c] # "none" => handler'[c] # "none",
           \A d \in Conns : d # c => handler'[d] = handler[d] /\ writer'[d] = writer[d]
    PROVE  (NewestOwned /\ NewestConnectionRegistered)'
<1>1. NewestOwned'
  BY DEF RegInv, TypeInv, TypeOK, NewestOwned
<1>2. NewestConnectionRegistered'
  <2> SUFFICES ASSUME NEW s \in Senders
               PROVE  peers'[s] = IF newest[s] # None /\ Live(newest[s])' THEN newest[s] ELSE None
    BY DEF NewestConnectionRegistered, Live
  <2>1. peers[s] = IF newest[s] # None /\ Live(newest[s]) THEN newest[s] ELSE None
    BY DEF RegInv, NewestConnectionRegistered
  <2>2. CASE newest[s] = c
    <3>1. owner[c] = s
      BY <2>2, UdsAssumption DEF RegInv, NewestOwned
    <3>2. peers'[s] = None
      BY <2>1, <2>2, <3>1, UdsAssumption DEF ForgetPeer, OwnsEntry, RegInv, TypeInv, TypeOK
    <3> QED
      BY <2>2, <3>2
  <2>3. CASE newest[s] # c
    <3>1. peers[s] # c
      BY <2>1, <2>3, UdsAssumption
    <3>2. peers'[s] = peers[s]
      BY <3>1 DEF ForgetPeer, OwnsEntry, RegInv, TypeInv, TypeOK
    <3>3. newest[s] # None => (Live(newest[s])' <=> Live(newest[s]))
      BY <2>3 DEF Live, RegInv, TypeInv, TypeOK
    <3> QED
      BY <2>1, <3>2, <3>3
  <2> QED
    BY <2>2, <2>3
<1> QED
  BY <1>1, <1>2

LEMMA HandlerExitRegistration ==
    ASSUME RegInv, NEW c \in Conns, HandlerExit(c)
    PROVE  (NewestOwned /\ NewestConnectionRegistered)'
<1>1. ForgetPeer(owner[c], c) /\ UNCHANGED <<newest, owner>>
  BY DEF HandlerExit, history
<1>2. ~ Live(c)' /\ handler'[c] = "done"
  BY DEF HandlerExit, Live, RegInv, TypeInv, TypeOK
<1>3. \A d \in Conns : d # c => handler'[d] = handler[d] /\ writer'[d] = writer[d]
  BY DEF HandlerExit, RegInv, TypeInv, TypeOK
<1> QED
  BY <1>1, <1>2, <1>3, DeathUnregisters

LEMMA RegInvStep == RegInv /\ [Next]_vars => RegInv'
<1> SUFFICES ASSUME RegInv, [Next]_vars PROVE (NewestOwned /\ NewestConnectionRegistered)'
  BY TypeInvStep DEF RegInv
<1> USE DEF clientVars, writeVars, history
<1>1. ASSUME UNCHANGED <<peers, newest, owner, handler, writer>>
      PROVE  (NewestOwned /\ NewestConnectionRegistered)'
  <2>1. \A c \in Conns : Live(c)' <=> Live(c)
    BY <1>1 DEF Live
  <2> QED
    BY <1>1, <2>1, UntouchedRegistration
<1>2. ASSUME NEW c \in Conns,
             \/ ClientConnect(c) \/ ClientClose(c) \/ \E m \in Messages : ClientSend(c, m)
      PROVE  (NewestOwned /\ NewestConnectionRegistered)'
  BY <1>1, <1>2 DEF ClientConnect, ClientClose, ClientSend
<1>3. ASSUME NEW c \in Conns, Accept(c)
      PROVE  (NewestOwned /\ NewestConnectionRegistered)'
  <2>1. /\ UNCHANGED <<peers, newest, owner, writer>>
        /\ handler[c] = "none"
        /\ handler' = [handler EXCEPT ![c] = "recv"]
    BY <1>3 DEF Accept
  <2>2. \A s \in Senders : newest[s] # c
    BY <2>1, UdsAssumption DEF RegInv, NewestOwned
  <2>3. \A s \in Senders : newest[s] # None =>
           handler'[newest[s]] = handler[newest[s]] /\ (Live(newest[s])' <=> Live(newest[s]))
    BY <2>1, <2>2 DEF Live, RegInv, TypeInv, TypeOK
  <2> QED
    BY <2>1, <2>3 DEF RegInv, NewestOwned, NewestConnectionRegistered
<1>4. ASSUME NEW c \in Conns, PeerHello(c)
      PROVE  (NewestOwned /\ NewestConnectionRegistered)'
  <2> DEFINE m == Head(inbox[c])
  <2>1. m \in Messages /\ HandshakeAccepted(m)
    BY <1>4 DEF PeerHello, RegInv, TypeInv, TypeOK
  <2>2. PICK t \in Senders : m.sender_id = t
    BY <2>1, HelloNamesSender
  <2>3. /\ owner[c] = None
        /\ handler[c] = "recv"
        /\ PutIncoming(c, t, m)
        /\ owner' = [owner EXCEPT ![c] = t]
        /\ peers' = [peers EXCEPT ![t] = c]
        /\ newest' = [newest EXCEPT ![t] = c]
        /\ writer' = [writer EXCEPT ![c] = "get"]
    BY <1>4, <2>2 DEF PeerHello, Receiving
  <2> HIDE DEF m
  <2>4. handler'[c] \in {"recv", "put"} /\ \A d \in Conns : d # c => handler'[d] = handler[d]
    BY <2>3 DEF PutIncoming, RegInv, TypeInv, TypeOK
  <2>5. Live(c)'
    BY <2>3, <2>4 DEF Live, RegInv, TypeInv, TypeOK
  <2>6. \A s \in Senders : newest[s] # c
    BY <2>3, UdsAssumption DEF RegInv, NewestOwned
  <2>7. \A s \in Senders \ {t} : newest[s] # None =>
           /\ owner'[newest[s]] = owner[newest[s]]
           /\ handler'[newest[s]] = handler[newest[s]]
           /\ Live(newest[s])' <=> Live(newest[s])
    BY <2>3, <2>4, <2>6 DEF Live, RegInv, TypeInv, TypeOK
  <2>8. /\ newest'[t] = c /\ peers'[t] = c /\ owner'[c] = t
        /\ \A s \in Senders \ {t} : newest'[s] = newest[s] /\ peers'[s] = peers[s]
    BY <2>3 DEF RegInv, TypeInv, TypeOK
  <2>9. NewestOwned'
    BY <2>4, <2>7, <2>8 DEF RegInv, NewestOwned
  <2>10. NewestConnectionRegistered'
    <3> SUFFICES ASSUME NEW s \in Senders
                 PROVE  peers'[s] =
                           IF newest'[s] # None /\ Live(newest[s])' THEN newest'[s] ELSE None
      BY DEF NewestConnectionRegistered
    <3>1. CASE s = t
      BY <2>5, <2>8, <3>1, UdsAssumption DEF Live
    <3>2. CASE s # t
      <4>1. peers[s] = IF newest[s] # None /\ Live(newest[s]) THEN newest[s] ELSE None
        BY DEF RegInv, NewestConnectionRegistered
      <4> QED
        BY <2>7, <2>8, <3>2, <4>1 DEF Live
    <3> QED
      BY <3>1, <3>2
  <2> QED
    BY <2>9, <2>10
<1>5. ASSUME NEW c \in Conns, PeerMessage(c) \/ PeerPut(c)
      PROVE  (NewestOwned /\ NewestConnectionRegistered)'
  <2>1. UNCHANGED <<peers, newest, owner, writer>>
    BY <1>5 DEF PeerMessage, PeerPut
  <2>2. /\ handler[c] \in {"recv", "put"} /\ handler'[c] \in {"recv", "put"}
        /\ \A d \in Conns : d # c => handler'[d] = handler[d]
    BY <1>5 DEF PeerMessage, PeerPut, PutIncoming, Receiving, RegInv, TypeInv, TypeOK
  <2>3. \A d \in Conns : (Live(d)' <=> Live(d)) /\ (handler[d] # "none" => handler'[d] # "none")
    BY <2>1, <2>2 DEF Live
  <2> QED
    BY <2>1, <2>3, UntouchedRegistration
<1>6. ASSUME NEW c \in Conns, PeerRefused(c) \/ PeerEof(c) \/ PeerReset(c) \/ HandlerCancelled(c)
      PROVE  (NewestOwned /\ NewestConnectionRegistered)'
  BY <1>6, HandlerExitRegistration DEF PeerRefused, PeerEof, PeerReset, HandlerCancelled
<1>7. ASSUME NEW c \in Conns, WriterGet(c) \/ WriteDone(c)
      PROVE  (NewestOwned /\ NewestConnectionRegistered)'
  <2>1. UNCHANGED <<peers, newest, owner, handler>>
    BY <1>7 DEF WriterGet, WriteDone
  <2>2. \A d \in Conns : Live(d)' <=> Live(d)
    BY <1>7 DEF WriterGet, WriteDone, Live, RegInv, TypeInv, TypeOK
  <2> QED
    BY <2>1, <2>2, UntouchedRegistration
<1>8. ASSUME NEW c \in Conns, WriteFails(c)
      PROVE  (NewestOwned /\ NewestConnectionRegistered)'
  <2>1. ForgetPeer(owner[c], c) /\ UNCHANGED <<newest, owner, handler>>
    BY <1>8 DEF WriteFails
  <2>2. ~ Live(c)' /\ \A d \in Conns : d # c => writer'[d] = writer[d]
    BY <1>8 DEF WriteFails, Live, RegInv, TypeInv, TypeOK
  <2> QED
    BY <2>1, <2>2, DeathUnregisters
<1>9. ASSUME NEW s \in Senders, Send(s)
      PROVE  (NewestOwned /\ NewestConnectionRegistered)'
  BY <1>1, <1>9 DEF Send
<1>10. CASE TakeIncoming \/ StopServe
  BY <1>1, <1>10 DEF TakeIncoming, StopServe
<1>11. CASE UNCHANGED vars
  BY <1>1, <1>11 DEF vars
<1> QED
  BY <1>2, <1>3, <1>4, <1>5, <1>6, <1>7, <1>8, <1>9, <1>10, <1>11 DEF Next, HandlerStep

(***************************************************************************)
(* However often senders reconnect and in whichever order the clean-ups of *)
(* their old connections run, the newest living connection is registered.  *)
(***************************************************************************)
THEOREM NewestRegistered == Spec => []NewestConnectionRegistered
<1>1. RegInv => NewestConnectionRegistered
  BY DEF RegInv
<1> QED
  BY RegInvInit, RegInvStep, <1>1, PTL DEF Spec

(***************************************************************************)
(* send never accepts a payload for a queue without a reader.              *)
(***************************************************************************)
THEOREM RegisteredServed == Spec => []RegisteredPeerIsServed
<1>1. RegInv => RegisteredPeerIsServed
  BY UdsAssumption DEF RegInv, NewestOwned, NewestConnectionRegistered, RegisteredPeerIsServed
<1> QED
  BY RegInvInit, RegInvStep, <1>1, PTL DEF Spec

(***************************************************************************)
(* The order of the payloads.  AcceptedInOrder is not inductive: a         *)
(* connection that shakes hands must start with an empty account, a writer *)
(* that takes a payload must have none in flight, and only a live          *)
(* connection may be written or sent to.                                   *)
(***************************************************************************)
Account(c) == wire[c] \o inflight[c] \o sendQueue[c]

WriterInv ==
    \A c \in Conns :
        /\ owner[c] = None => writer[c] = "none"
        /\ writer[c] = "none" =>
              sendQueue[c] = <<>> /\ inflight[c] = <<>> /\ wire[c] = <<>> /\ accepted[c] = <<>>
        /\ writer[c] = "get" => inflight[c] = <<>>
        /\ writer[c] = "send" => Len(inflight[c]) = 1
        /\ writer[c] \in {"get", "send"} => handler[c] \in {"recv", "put"}

OrderInv == RegInv /\ WriterInv /\ AcceptedInOrder

\* Prefixes, element by element.
LEMMA PrefixElements ==
    ASSUME NEW S, NEW p \in Seq(S), NEW q \in Seq(S)
    PROVE  IsPrefixOf(p, q) <=> Len(p) <= Len(q) /\ \A i \in 1 .. Len(p) : p[i] = q[i]
<1>1. Len(p) \in Nat /\ Len(q) \in Nat
  OBVIOUS
<1>2. ASSUME Len(p) <= Len(q)
      PROVE  SubSeq(q, 1, Len(p)) = p <=> \A i \in 1 .. Len(p) : p[i] = q[i]
  <2>1. /\ SubSeq(q, 1, Len(p)) \in Seq(S)
        /\ Len(SubSeq(q, 1, Len(p))) = Len(p)
        /\ \A i \in 1 .. Len(p) : SubSeq(q, 1, Len(p))[i] = q[i]
    BY <1>1, <1>2
  <2> QED
    BY <1>1, <2>1
<1> QED
  BY <1>1, <1>2 DEF IsPrefixOf

LEMMA PrefixReflexive ==
    ASSUME NEW S, NEW p \in Seq(S)
    PROVE  IsPrefixOf(p, p)
BY PrefixElements

\* What is left when the queue and the payload in flight are dropped.
LEMMA PrefixOfAccount ==
    ASSUME NEW S, NEW w \in Seq(S), NEW f \in Seq(S), NEW q \in Seq(S), NEW a \in Seq(S),
           IsPrefixOf(w \o f \o q, a)
    PROVE  IsPrefixOf(w \o <<>> \o <<>>, a)
<1> DEFINE p == w \o f \o q
<1>1. w \o <<>> \o <<>> = w
  OBVIOUS
<1>2. p \in Seq(S) /\ Len(w) <= Len(p) /\ IsPrefixOf(p, a)
  OBVIOUS
<1>3. \A i \in 1 .. Len(w) : p[i] = w[i]
  OBVIOUS
<1> HIDE DEF p
<1>4. Len(p) <= Len(a) /\ \A i \in 1 .. Len(p) : p[i] = a[i]
  BY <1>2, PrefixElements
<1>5. Len(w) <= Len(a) /\ \A i \in 1 .. Len(w) : w[i] = a[i]
  BY <1>2, <1>3, <1>4
<1> QED
  BY <1>1, <1>5, PrefixElements

\* A payload moves from the queue into flight, and from there to the wire.
LEMMA AccountMoves ==
    ASSUME NEW S, NEW w \in Seq(S), NEW f \in Seq(S), NEW q \in Seq(S)
    PROVE  /\ q # <<>> => w \o <<Head(q)>> \o Tail(q) = w \o <<>> \o q
           /\ (w \o f) \o <<>> \o q = w \o f \o q
<1>1. ASSUME q # <<>> PROVE w \o <<Head(q)>> \o Tail(q) = w \o <<>> \o q
  <2>1. Head(q) \in S /\ Tail(q) \in Seq(S) /\ Len(Tail(q)) = Len(q) - 1
        /\ \A i \in 1 .. Len(q) - 1 : Tail(q)[i] = q[i + 1]
    BY <1>1
  <2>2. w \o <<>> \o q = w \o q
    OBVIOUS
  <2>3. <<Head(q)>> \o Tail(q) = q
    BY <1>1, <2>1
  <2>4. (w \o <<Head(q)>>) \o Tail(q) = w \o (<<Head(q)>> \o Tail(q))
    BY <2>1
  <2> QED
    BY <2>2, <2>3, <2>4
<1>2. (w \o f) \o <<>> = w \o f
  OBVIOUS
<1> QED
  BY <1>1, <1>2

\* A payload is accepted.
LEMMA AccountAppend ==
    ASSUME NEW S, NEW w \in Seq(S), NEW f \in Seq(S), NEW q \in Seq(S), NEW e \in S
    PROVE  w \o f \o Append(q, e) = Append(w \o f \o q, e)
OBVIOUS

LEMMA OrderInvInit == Init => OrderInv
<1> SUFFICES ASSUME Init PROVE WriterInv /\ AcceptedInOrder
  BY RegInvInit DEF OrderInv
<1>1. WriterInv
  BY DEF Init, WriterInv
<1>2. <<>> \o <<>> \o <<>> = <<>> /\ IsPrefixOf(<<>>, <<>>)
  <2>1. <<>> \in Seq(Payloads)
    OBVIOUS
  <2>2. IsPrefixOf(<<>>, <<>>)
    BY <2>1, PrefixReflexive
  <2> QED
    BY <2>2
<1>3. AcceptedInOrder
  BY <1>2 DEF Init, AcceptedInOrder
<1> QED
  BY <1>1, <1>3

\* The account of one connection is in order.
InOrder(c) ==
    /\ IsPrefixOf(Account(c), accepted[c])
    /\ Live(c) => Account(c) = accepted[c]

LEMMA OrderMeans == AcceptedInOrder <=> \A c \in Conns : InOrder(c)
BY DEF AcceptedInOrder, InOrder, Account

\* Nothing of connection c moves, unless it dies.
LEMMA OrderUntouched ==
    ASSUME NEW c \in Conns, InOrder(c), wire'[c] = wire[c], inflight'[c] = inflight[c],
           sendQueue'[c] = sendQueue[c], accepted'[c] = accepted[c], Live(c)' => Live(c)
    PROVE  InOrder(c)'
BY DEF InOrder, Account

\* Connection c dies, and what it had in flight or in its queue is dropped.
LEMMA OrderDies ==
    ASSUME TypeOK, NEW c \in Conns, InOrder(c), wire'[c] = wire[c], inflight'[c] = <<>>,
           sendQueue'[c] = <<>>, accepted'[c] = accepted[c], ~ Live(c)'
    PROVE  InOrder(c)'
<1>1. /\ wire[c] \in Seq(Payloads) /\ inflight[c] \in Seq(Payloads)
      /\ sendQueue[c] \in Seq(Payloads) /\ accepted[c] \in Seq(Payloads)
  BY DEF TypeOK
<1>2. IsPrefixOf(wire[c] \o <<>> \o <<>>, accepted[c])
  BY <1>1, PrefixOfAccount DEF InOrder, Account
<1> QED
  BY <1>2 DEF InOrder, Account

\* The account of a live connection is whole.
LEMMA OrderWhole ==
    ASSUME TypeOK', NEW c \in Conns, Account(c)' = accepted'[c]
    PROVE  InOrder(c)'
<1>1. accepted'[c] \in Seq(Payloads)
  BY DEF TypeOK
<1> QED
  BY <1>1, PrefixReflexive DEF InOrder

LEMMA WriterInvStep == OrderInv /\ [Next]_vars => WriterInv'
<1> SUFFICES ASSUME OrderInv, [Next]_vars PROVE WriterInv'
  OBVIOUS
<1> USE DEF OrderInv, RegInv, TypeInv, TypeOK, clientVars, writeVars, history
<1>1. CASE UNCHANGED <<owner, handler, sendQueue, writer, inflight, wire, accepted>>
  BY <1>1 DEF WriterInv
<1>2. ASSUME NEW c \in Conns, Accept(c) PROVE WriterInv'
  BY <1>2 DEF WriterInv, Accept
<1>3. ASSUME NEW c \in Conns, PeerHello(c) PROVE WriterInv'
  <2>1. /\ owner[c] = None /\ handler[c] = "recv"
        /\ writer' = [writer EXCEPT ![c] = "get"]
        /\ UNCHANGED <<sendQueue, inflight, wire, accepted>>
        /\ \A d \in Conns : d # c => owner'[d] = owner[d]
    BY <1>3 DEF PeerHello, Receiving
  <2>2. handler'[c] \in {"recv", "put"} /\ \A d \in Conns : d # c => handler'[d] = handler[d]
    BY <1>3, <2>1 DEF PeerHello, PutIncoming
  <2>3. owner'[c] # None
    <3>1. Head(inbox[c]) \in Messages /\ HandshakeAccepted(Head(inbox[c]))
      BY <1>3 DEF PeerHello
    <3>2. Head(inbox[c]).sender_id \in Senders /\ owner'[c] = Head(inbox[c]).sender_id
      BY <1>3, <3>1, HelloNamesSender DEF PeerHello
    <3> QED
      BY <3>2, UdsAssumption
  <2> QED
    BY <2>1, <2>2, <2>3 DEF WriterInv
<1>4. ASSUME NEW c \in Conns, PeerMessage(c) \/ PeerPut(c) PROVE WriterInv'
  <2>1. UNCHANGED <<owner, sendQueue, writer, inflight, wire, accepted>>
    BY <1>4 DEF PeerMessage, PeerPut
  <2>2. /\ handler[c] \in {"recv", "put"} /\ handler'[c] \in {"recv", "put"}
        /\ \A d \in Conns : d # c => handler'[d] = handler[d]
    BY <1>4 DEF PeerMessage, PeerPut, PutIncoming, Receiving
  <2> QED
    BY <2>1, <2>2 DEF WriterInv
<1>5. ASSUME NEW c \in Conns, PeerRefused(c) \/ PeerEof(c) \/ PeerReset(c) \/ HandlerCancelled(c)
      PROVE  WriterInv'
  <2>1. HandlerExit(c)
    BY <1>5 DEF PeerRefused, PeerEof, PeerReset, HandlerCancelled
  <2> QED
    BY <2>1 DEF HandlerExit, WriterInv
<1>6. ASSUME NEW c \in Conns, WriterGet(c) PROVE WriterInv'
  <2>1. /\ inflight'[c] = <<Head(sendQueue[c])>> /\ writer[c] = "get" /\ writer'[c] = "send"
        /\ UNCHANGED <<owner, handler, wire, accepted>>
        /\ \A d \in Conns : d # c =>
              sendQueue'[d] = sendQueue[d] /\ inflight'[d] = inflight[d] /\ writer'[d] = writer[d]
    BY <1>6 DEF WriterGet
  <2>2. Len(inflight'[c]) = 1
    BY <2>1
  <2> QED
    BY ZenonT(30), <2>1, <2>2 DEF WriterInv
<1>7. ASSUME NEW c \in Conns, WriteDone(c) PROVE WriterInv'
  BY <1>7 DEF WriteDone, WriterInv
<1>8. ASSUME NEW c \in Conns, WriteFails(c) PROVE WriterInv'
  BY <1>8 DEF WriteFails, WriterInv
<1>9. ASSUME NEW s \in Senders, Send(s) PROVE WriterInv'
  <2>1. peers[s] \in Conns /\ Live(peers[s])
    BY <1>9, UdsAssumption DEF Send, SendOutcome, NewestConnectionRegistered
  <2> QED
    BY <1>9, <2>1 DEF Send, Live, WriterInv
<1> QED
  BY <1>1, <1>2, <1>3, <1>4, <1>5, <1>6, <1>7, <1>8, <1>9
  DEF Next, HandlerStep, vars, ClientConnect, ClientClose, ClientSend, TakeIncoming, StopServe

LEMMA OrderStep == OrderInv /\ [Next]_vars => AcceptedInOrder'
<1> SUFFICES ASSUME OrderInv, [Next]_vars, NEW c \in Conns PROVE InOrder(c)'
  BY DEF AcceptedInOrder, InOrder, Account
<1>a. InOrder(c) /\ RegInv /\ TypeOK /\ WriterInv
  BY OrderMeans DEF OrderInv, RegInv, TypeInv
<1>b. TypeOK'
  BY TypeInvStep DEF OrderInv, RegInv, TypeInv
<1> USE DEF TypeOK, clientVars, writeVars, history
<1>1. CASE UNCHANGED <<handler, sendQueue, writer, inflight, wire, accepted>>
  BY <1>a, <1>1, OrderUntouched DEF Live
<1>2. ASSUME NEW d \in Conns, Accept(d) PROVE InOrder(c)'
  <2>1. Live(c)' => Live(c)
    BY <1>a, <1>2 DEF Accept, Live, WriterInv
  <2> QED
    BY <1>a, <1>2, <2>1, OrderUntouched DEF Accept
<1>3. ASSUME NEW d \in Conns, PeerHello(d) PROVE InOrder(c)'
  <2>1. /\ owner[d] = None /\ writer' = [writer EXCEPT ![d] = "get"]
        /\ UNCHANGED <<sendQueue, inflight, wire, accepted>>
    BY <1>3 DEF PeerHello
  <2>2. \A e \in Conns : e # d => handler'[e] = handler[e]
    BY <1>a, <1>3 DEF PeerHello, PutIncoming
  <2>3. CASE c = d
    <3>1. sendQueue'[c] = <<>> /\ inflight'[c] = <<>> /\ wire'[c] = <<>> /\ accepted'[c] = <<>>
      BY <1>a, <2>1, <2>3 DEF WriterInv
    <3>2. <<>> \o <<>> \o <<>> = <<>>
      OBVIOUS
    <3>3. Account(c)' = accepted'[c]
      BY <3>1, <3>2 DEF Account
    <3> QED
      BY <1>b, <3>3, OrderWhole
  <2>4. CASE c # d
    <3>1. Live(c)' => Live(c)
      BY <1>a, <2>1, <2>2, <2>4 DEF Live
    <3> QED
      BY <1>a, <2>1, <3>1, OrderUntouched
  <2> QED
    BY <2>3, <2>4
<1>4. ASSUME NEW d \in Conns, PeerMessage(d) \/ PeerPut(d) PROVE InOrder(c)'
  <2>1. UNCHANGED <<sendQueue, writer, inflight, wire, accepted>>
    BY <1>4 DEF PeerMessage, PeerPut
  <2>2. /\ handler[d] \in {"recv", "put"} /\ handler'[d] \in {"recv", "put"}
        /\ \A e \in Conns : e # d => handler'[e] = handler[e]
    BY <1>a, <1>4 DEF PeerMessage, PeerPut, PutIncoming, Receiving
  <2>3. Live(c)' => Live(c)
    BY <2>1, <2>2 DEF Live
  <2> QED
    BY <1>a, <2>1, <2>3, OrderUntouched
<1>5. ASSUME NEW d \in Conns,
             PeerRefused(d) \/ PeerEof(d) \/ PeerReset(d) \/ HandlerCancelled(d) \/ WriteFails(d)
      PROVE  InOrder(c)'
  <2>1. HandlerExit(d) \/ WriteFails(d)
    BY <1>5 DEF PeerRefused, PeerEof, PeerReset, HandlerCancelled
  <2>2. UNCHANGED <<wire, accepted>>
    BY <2>1 DEF HandlerExit, WriteFails
  <2>3. CASE c = d
    <3>1. inflight'[c] = <<>> /\ sendQueue'[c] = <<>> /\ ~ Live(c)'
      BY <1>a, <2>1, <2>3 DEF HandlerExit, WriteFails, Live
    <3> QED
      BY <1>a, <2>2, <3>1, OrderDies
  <2>4. CASE c # d
    <3>1. /\ inflight'[c] = inflight[c] /\ sendQueue'[c] = sendQueue[c]
          /\ handler'[c] = handler[c] /\ writer'[c] = writer[c]
      BY <1>a, <2>1, <2>4 DEF HandlerExit, WriteFails
    <3> QED
      BY <1>a, <2>2, <3>1, OrderUntouched DEF Live
  <2> QED
    BY <2>3, <2>4
<1>6. ASSUME NEW d \in Conns, WriterGet(d) \/ WriteDone(d) PROVE InOrder(c)'
  <2>1. UNCHANGED <<handler, accepted>> /\ writer[d] \in {"get", "send"} /\ writer'[d] \in {"get", "send"}
        /\ \A e \in Conns : e # d => /\ writer'[e] = writer[e] /\ wire'[e] = wire[e]
                                     /\ inflight'[e] = inflight[e] /\ sendQueue'[e] = sendQueue[e]
    <3>1. UNCHANGED <<handler, accepted>>
      BY <1>6 DEF WriterGet, WriteDone, history
    <3>2. writer[d] \in {"get", "send"} /\ writer'[d] \in {"get", "send"}
      BY <1>a, <1>6 DEF WriterGet, WriteDone
    <3>3. ASSUME NEW e \in Conns, e # d
          PROVE  /\ writer'[e] = writer[e] /\ wire'[e] = wire[e]
                 /\ inflight'[e] = inflight[e] /\ sendQueue'[e] = sendQueue[e]
      <4>1. CASE WriterGet(d)
        BY <1>a, <3>3, <4>1 DEF WriterGet
      <4>2. CASE WriteDone(d)
        BY <1>a, <3>3, <4>2 DEF WriteDone
      <4> QED
        BY <1>6, <4>1, <4>2
    <3> QED
      BY <3>1, <3>2, <3>3
  <2>2. CASE c = d
    <3>1. Live(c) /\ Account(c) = accepted[c]
      BY <1>a, <2>1, <2>2 DEF WriterInv, Live, InOrder
    <3>2. /\ wire[c] \in Seq(Payloads) /\ inflight[c] \in Seq(Payloads)
          /\ sendQueue[c] \in Seq(Payloads)
      BY <1>a
    <3>3. Account(c)' = Account(c)
      <4>1. CASE WriterGet(c)
        <5>1. /\ inflight[c] = <<>> /\ sendQueue[c] # <<>> /\ wire'[c] = wire[c]
              /\ inflight'[c] = <<Head(sendQueue[c])>> /\ sendQueue'[c] = Tail(sendQueue[c])
          BY <1>a, <4>1 DEF WriterGet, TakeHead, WriterInv
        <5>2. wire[c] \o <<Head(sendQueue[c])>> \o Tail(sendQueue[c]) = wire[c] \o <<>> \o sendQueue[c]
          BY <3>2, <5>1, AccountMoves
        <5> QED
          BY <5>1, <5>2 DEF Account
      <4>2. CASE WriteDone(c)
        <5>1. /\ wire'[c] = wire[c] \o inflight[c] /\ inflight'[c] = <<>>
              /\ sendQueue'[c] = sendQueue[c]
          BY <1>a, <4>2 DEF WriteDone
        <5> QED
          BY <3>2, <5>1, AccountMoves DEF Account
      <4> QED
        BY <1>6, <2>2, <4>1, <4>2
    <3> QED
      BY <1>b, <2>1, <3>1, <3>3, OrderWhole
  <2>3. CASE c # d
    BY <1>a, <2>1, <2>3, OrderUntouched DEF Live
  <2> QED
    BY <2>2, <2>3
<1>7. ASSUME NEW s \in Senders, Send(s) PROVE InOrder(c)'
  <2>1. PICK d \in Conns : peers[s] = d /\ Live(d)
    BY <1>a, <1>7, UdsAssumption DEF Send, SendOutcome, RegInv, NewestConnectionRegistered
  <2>2. /\ UNCHANGED <<handler, writer, inflight, wire>>
        /\ sendQueue'[d] = Append(sendQueue[d], sends + 1)
        /\ accepted'[d] = Append(accepted[d], sends + 1)
        /\ \A e \in Conns : e # d => sendQueue'[e] = sendQueue[e] /\ accepted'[e] = accepted[e]
    BY <1>a, <1>7, <2>1 DEF Send
  <2>3. CASE c = d
    <3>1. /\ wire[c] \in Seq(Payloads) /\ inflight[c] \in Seq(Payloads)
          /\ sendQueue[c] \in Seq(Payloads) /\ sends + 1 \in Payloads
      BY <1>a, <1>7, UdsAssumption DEF Send, Payloads
    <3>2. Account(c) = accepted[c]
      BY <1>a, <2>1, <2>3 DEF InOrder
    <3>3. Account(c)' = accepted'[c]
      <4>1. PICK e \in Payloads : e = sends + 1
        BY <3>1
      <4>2. wire[c] \o inflight[c] \o Append(sendQueue[c], e)
              = Append(wire[c] \o inflight[c] \o sendQueue[c], e)
        <5>1. PICK w \in Seq(Payloads), f \in Seq(Payloads), q \in Seq(Payloads) :
                w = wire[c] /\ f = inflight[c] /\ q = sendQueue[c]
          BY <3>1
        <5>2. w \o f \o Append(q, e) = Append(w \o f \o q, e)
          BY SMTT(30), AccountAppend
        <5> QED
          BY <5>1, <5>2
      <4> QED
        BY <2>2, <2>3, <3>2, <4>1, <4>2 DEF Account
    <3> QED
      BY <1>b, <3>3, OrderWhole
  <2>4. CASE c # d
    BY <1>a, <2>2, <2>4, OrderUntouched DEF Live
  <2> QED
    BY <2>3, <2>4
<1> QED
  BY <1>1, <1>2, <1>3, <1>4, <1>5, <1>6, <1>7
  DEF Next, HandlerStep, vars, ClientConnect, ClientClose, ClientSend, TakeIncoming, StopServe

LEMMA OrderInvariant == Spec => []OrderInv
<1>1. OrderInv /\ [Next]_vars => OrderInv'
  BY RegInvStep, WriterInvStep, OrderStep DEF OrderInv
<1> QED
  BY OrderInvInit, <1>1, PTL DEF Spec

(***************************************************************************)
(* Payloads reach a connection's socket in the order send accepted them,   *)
(* none twice and none skipped, across full queues, failed writes,         *)
(* cancelled handlers and reconnects.                                      *)
(***************************************************************************)
THEOREM WrittenInOrder == Spec => []AcceptedInOrder
<1>1. OrderInv => AcceptedInOrder
  BY DEF OrderInv
<1> QED
  BY OrderInvariant, <1>1, PTL

(***************************************************************************)
(* Who is heard.  OnlyGreetedSendersHeard is not inductive: that the       *)
(* message a handler takes for a greeting is the first one its client sent *)
(* needs to be known while the message is still in the socket.             *)
(***************************************************************************)
Unread ==
    \A c \in Conns : owner[c] = None /\ handler[c] # "done" =>
        first[c] = IF inbox[c] = <<>> THEN None ELSE Head(inbox[c])

Greeted(s) == \E c \in Conns : first[c] = Hello(s, GoodHash)

OwnersGreeted == \A c \in Conns : owner[c] # None => first[c] = Hello(owner[c], GoodHash)

HeardGreeted == \A i \in DOMAIN incoming : Greeted(incoming[i].from)

GreetInv == TypeInv /\ Unread /\ OwnersGreeted /\ HeardGreeted

\* A hello that passes the handshake is the greeting of the sender it names.
LEMMA AcceptedHello ==
    ASSUME NEW m \in Messages, HandshakeAccepted(m)
    PROVE  m = Hello(m.sender_id, GoodHash)
BY UdsAssumption DEF Messages, Hello, Body, HandshakeAccepted

LEMMA HeadOfAppend ==
    ASSUME NEW S, NEW q \in Seq(S), NEW m \in S
    PROVE  Append(q, m) # <<>> /\ Head(Append(q, m)) = IF q = <<>> THEN m ELSE Head(q)
<1>1. Append(q, m) \in Seq(S) /\ Len(Append(q, m)) = Len(q) + 1 /\ Len(q) \in Nat
  OBVIOUS
<1>2. Append(q, m) # <<>>
  BY <1>1
<1>3. Head(Append(q, m)) = Append(q, m)[1]
  BY <1>1, <1>2
<1>4. CASE q = <<>>
  BY <1>3, <1>4
<1>5. CASE q # <<>>
  <2>1. 1 \in 1 .. Len(q) /\ Head(q) = q[1]
    BY <1>5
  <2>2. Append(q, m)[1] = q[1]
    BY <2>1
  <2> QED
    BY <1>2, <1>3, <1>5, <2>1, <2>2
<1> QED
  BY <1>2, <1>4, <1>5

\* A client's first message stays its first.
LEMMA FirstKept ==
    ASSUME GreetInv, [Next]_vars, NEW c \in Conns, first[c] # None
    PROVE  first'[c] = first[c]
<1>1. ASSUME NEW d \in Conns, NEW m \in Messages, ClientSend(d, m) PROVE first'[c] = first[c]
  BY <1>1 DEF ClientSend, GreetInv, TypeInv, TypeOK
<1>2. CASE UNCHANGED first
  BY <1>2
<1> QED
  BY ZenonT(30), <1>1, <1>2 DEF Next, HandlerStep, vars, history, ClientConnect, ClientClose, Accept, PeerHello,
     PeerRefused, PeerMessage, PeerPut, PeerEof, PeerReset, HandlerCancelled, HandlerExit, WriterGet,
     WriteDone, WriteFails, Send, TakeIncoming, StopServe

\* A greeting is never taken back.
LEMMA GreetedKept ==
    ASSUME GreetInv, [Next]_vars, NEW s \in Senders, Greeted(s)
    PROVE  Greeted(s)'
<1>1. PICK c \in Conns : first[c] = Hello(s, GoodHash)
  BY DEF Greeted
<1>2. Hello(s, GoodHash) \in Messages
  BY DEF Messages
<1>3. first[c] # None
  BY <1>1, <1>2, UdsAssumption
<1>4. first'[c] = first[c]
  BY <1>3, FirstKept
<1> QED
  BY <1>1, <1>4 DEF Greeted

\* The incoming queue grows by an entry of a greeted sender, or not at all.
LEMMA HeardStep ==
    ASSUME GreetInv, [Next]_vars,
           \/ incoming' = incoming
           \/ incoming # <<>> /\ incoming' = Tail(incoming)
           \/ \E s \in Senders, m \in Messages :
                 Greeted(s)' /\ incoming' = Append(incoming, [from |-> s, msg |-> m])
    PROVE  HeardGreeted'
<1> DEFINE E == Entries
<1>0. \A e \in E : e.from \in Senders
  BY DEF Entries
<1>1. incoming \in Seq(E) /\ HeardGreeted
  BY DEF GreetInv, TypeInv, TypeOK
<1> HIDE DEF E
<1>2. ASSUME NEW i \in DOMAIN incoming
      PROVE  \E c \in Conns : first'[c] = Hello(incoming[i].from, GoodHash)
  <2>1. incoming[i] \in E /\ Greeted(incoming[i].from)
    BY <1>1, <1>2 DEF HeardGreeted
  <2>2. PICK s \in Senders : s = incoming[i].from
    BY <1>0, <2>1
  <2>3. Greeted(s)'
    BY <2>1, <2>2, GreetedKept
  <2> QED
    BY <2>2, <2>3 DEF Greeted
<1>3. CASE incoming' = incoming
  BY <1>2, <1>3 DEF HeardGreeted, Greeted
<1>4. CASE incoming # <<>> /\ incoming' = Tail(incoming)
  <2>1. \A i \in DOMAIN incoming' : i + 1 \in DOMAIN incoming /\ incoming'[i] = incoming[i + 1]
    BY <1>1, <1>4
  <2>2. ASSUME NEW i \in DOMAIN incoming'
        PROVE  \E c \in Conns : first'[c] = Hello(incoming'[i].from, GoodHash)
    <3>1. PICK j \in DOMAIN incoming : incoming'[i] = incoming[j]
      BY <2>1, <2>2
    <3> QED
      BY <1>2, <3>1 DEF Greeted
  <2> QED
    BY <2>2 DEF HeardGreeted, Greeted
<1>5. ASSUME NEW s \in Senders, NEW m \in Messages, Greeted(s)',
             incoming' = Append(incoming, [from |-> s, msg |-> m])
      PROVE  HeardGreeted'
  <2>1. PICK e \in E : e = [from |-> s, msg |-> m]
    BY DEF Entries, E
  <2>2. \A i \in DOMAIN incoming' :
           incoming'[i] = e \/ (i \in DOMAIN incoming /\ incoming'[i] = incoming[i])
    BY <1>1, <1>5, <2>1
  <2>3. e.from = s
    BY <2>1
  <2>4. ASSUME NEW i \in DOMAIN incoming'
        PROVE  \E c \in Conns : first'[c] = Hello(incoming'[i].from, GoodHash)
    <3>1. CASE incoming'[i] = e
      BY <1>5, <2>3, <3>1 DEF Greeted
    <3>2. CASE i \in DOMAIN incoming /\ incoming'[i] = incoming[i]
      BY <1>2, <3>2 DEF Greeted
    <3> QED
      BY <2>2, <2>4, <3>1, <3>2
  <2> QED
    BY <2>4 DEF HeardGreeted, Greeted
<1> QED
  BY <1>3, <1>4, <1>5

LEMMA GreetInvInit == Init => GreetInv
BY TypeInvInit DEF Init, GreetInv, Unread, OwnersGreeted, HeardGreeted

LEMMA GreetInvStep == GreetInv /\ [Next]_vars => GreetInv'
<1> SUFFICES ASSUME GreetInv, [Next]_vars PROVE (Unread /\ OwnersGreeted /\ HeardGreeted)'
  BY TypeInvStep DEF GreetInv
<1>a. TypeOK /\ HeldInv /\ Unread /\ OwnersGreeted
  BY DEF GreetInv, TypeInv
<1> USE DEF TypeOK, clientVars, writeVars, history
<1>b. ASSUME UNCHANGED owner PROVE OwnersGreeted'
  <2> SUFFICES ASSUME NEW c \in Conns, owner[c] # None PROVE first'[c] = Hello(owner[c], GoodHash)
    BY <1>b DEF OwnersGreeted
  <2>1. first[c] = Hello(owner[c], GoodHash) /\ Hello(owner[c], GoodHash) \in Messages
    BY <1>a DEF OwnersGreeted, Messages
  <2> QED
    BY <2>1, FirstKept, UdsAssumption
<1>1. CASE UNCHANGED <<owner, handler, inbox, first>>
           /\ (incoming' = incoming \/ (incoming # <<>> /\ incoming' = Tail(incoming)))
  <2>1. Unread'
    BY <1>a, <1>1 DEF Unread
  <2> QED
    BY <1>b, <1>1, <2>1, HeardStep
<1>2. ASSUME NEW c \in Conns, NEW m \in Messages, ClientSend(c, m)
      PROVE  (Unread /\ OwnersGreeted /\ HeardGreeted)'
  <2>1. /\ UNCHANGED <<owner, handler, incoming>>
        /\ inbox' = [inbox EXCEPT ![c] = Append(@, m)]
        /\ first' = [first EXCEPT ![c] = IF @ = None THEN m ELSE @]
    BY <1>2 DEF ClientSend
  <2>2. ASSUME NEW d \in Conns, owner[d] = None, handler[d] # "done"
        PROVE  first'[d] = IF inbox'[d] = <<>> THEN None ELSE Head(inbox'[d])
    <3>1. first[d] = IF inbox[d] = <<>> THEN None ELSE Head(inbox[d])
      BY <1>a, <2>2 DEF Unread
    <3>2. CASE d = c
      <4>1. PICK q \in Seq(Messages) : q = inbox[c]
        BY <1>a
      <4>2. inbox'[c] = Append(q, m)
        BY <1>a, <2>1, <4>1
      <4>2a. Append(q, m) # <<>> /\ Head(Append(q, m)) = IF q = <<>> THEN m ELSE Head(q)
        BY HeadOfAppend
      <4>3. q # <<>> => Head(q) \in Messages
        BY <4>1
      <4>4. first'[c] = IF first[c] = None THEN m ELSE first[c]
        BY <1>a, <2>1
      <4>5. first[c] = None <=> q = <<>>
        BY <3>1, <3>2, <4>1, <4>3, UdsAssumption
      <4> QED
        BY <3>1, <3>2, <4>1, <4>2, <4>2a, <4>4, <4>5
    <3>3. CASE d # c
      BY <1>a, <2>1, <3>1, <3>3
    <3> QED
      BY <3>2, <3>3
  <2>3. Unread'
    BY <2>1, <2>2 DEF Unread
  <2> QED
    BY <1>b, <2>1, <2>3, HeardStep
<1>3. ASSUME NEW c \in Conns, Accept(c) PROVE (Unread /\ OwnersGreeted /\ HeardGreeted)'
  <2>1. UNCHANGED <<owner, incoming, inbox, first>>
    BY <1>3 DEF Accept
  <2>2. Unread'
    BY <1>a, <1>3, <2>1 DEF Accept, Unread
  <2> QED
    BY <1>b, <2>1, <2>2, HeardStep
<1>4. ASSUME NEW c \in Conns, PeerHello(c) PROVE (Unread /\ OwnersGreeted /\ HeardGreeted)'
  <2>1. PICK m \in Messages : m = Head(inbox[c]) /\ HandshakeAccepted(m)
    BY <1>a, <1>4 DEF PeerHello
  <2>2. PICK t \in Senders : m.sender_id = t
    BY <2>1, HelloNamesSender
  <2>3. /\ owner[c] = None /\ handler[c] = "recv" /\ inbox[c] # <<>>
        /\ PutIncoming(c, t, m)
        /\ owner' = [owner EXCEPT ![c] = t]
        /\ inbox' = [inbox EXCEPT ![c] = Tail(@)]
        /\ UNCHANGED first
    BY <1>4, <2>1, <2>2 DEF PeerHello, Receiving
  <2>4. first[c] = Hello(t, GoodHash)
    BY <1>a, <2>1, <2>2, <2>3, AcceptedHello DEF Unread
  <2>5. OwnersGreeted'
    BY <1>a, <2>3, <2>4 DEF OwnersGreeted
  <2>6. Unread'
    BY SMTT(30), <1>a, <2>3, UdsAssumption DEF PutIncoming, Unread
  <2>7. Greeted(t)'
    BY <2>3, <2>4 DEF Greeted
  <2>8. HeardGreeted'
    BY <2>3, <2>7, HeardStep DEF PutIncoming
  <2> QED
    BY <2>5, <2>6, <2>8
<1>5. ASSUME NEW c \in Conns, PeerMessage(c) PROVE (Unread /\ OwnersGreeted /\ HeardGreeted)'
  <2>1. PICK m \in Messages : m = Head(inbox[c])
    BY <1>a, <1>5 DEF PeerMessage
  <2>2. PICK t \in Senders : t = owner[c]
    BY <1>a, <1>5 DEF PeerMessage
  <2>3. /\ PutIncoming(c, t, m)
        /\ inbox' = [inbox EXCEPT ![c] = Tail(@)]
        /\ UNCHANGED <<owner, first>>
    BY <1>5, <2>1, <2>2 DEF PeerMessage
  <2>4. Unread'
    <3>1. owner[c] # None /\ \A d \in Conns : d # c => handler'[d] = handler[d] /\ inbox'[d] = inbox[d]
      BY SMTT(30), <1>a, <2>2, <2>3, UdsAssumption DEF PutIncoming
    <3> QED
      BY <1>a, <2>3, <3>1 DEF Unread
  <2>5. Greeted(t)'
    BY <1>a, <2>2, <2>3, UdsAssumption DEF OwnersGreeted, Greeted
  <2>6. HeardGreeted'
    BY <2>3, <2>5, HeardStep DEF PutIncoming
  <2> QED
    BY <1>b, <2>3, <2>4, <2>6
<1>6. ASSUME NEW c \in Conns, PeerPut(c) PROVE (Unread /\ OwnersGreeted /\ HeardGreeted)'
  <2>1. PICK m \in Messages, t \in Senders : m = held[c] /\ t = owner[c]
    BY <1>a, <1>6 DEF PeerPut, HeldInv
  <2>2. /\ incoming' = Append(incoming, [from |-> t, msg |-> m])
        /\ handler[c] = "put" /\ handler' = [handler EXCEPT ![c] = "recv"]
        /\ UNCHANGED <<inbox, owner, first>>
    BY <1>6, <2>1 DEF PeerPut
  <2>3. Unread'
    BY <1>a, <2>2 DEF Unread
  <2>4. Greeted(t)'
    BY <1>a, <2>1, <2>2, UdsAssumption DEF OwnersGreeted, Greeted
  <2>5. HeardGreeted'
    BY <2>2, <2>4, HeardStep
  <2> QED
    BY <1>b, <2>2, <2>3, <2>5
<1>7. ASSUME NEW c \in Conns, PeerRefused(c) \/ PeerEof(c) \/ PeerReset(c) \/ HandlerCancelled(c)
      PROVE  (Unread /\ OwnersGreeted /\ HeardGreeted)'
  <2>1. HandlerExit(c)
    BY <1>7 DEF PeerRefused, PeerEof, PeerReset, HandlerCancelled
  <2>2. Unread'
    BY <1>a, <2>1 DEF HandlerExit, Unread
  <2> QED
    BY <1>b, <2>1, <2>2, HeardStep DEF HandlerExit
<1> QED
  BY <1>1, <1>2, <1>3, <1>4, <1>5, <1>6, <1>7
  DEF Next, HandlerStep, vars, ClientConnect, ClientClose, WriterGet, WriteDone, WriteFails, Send,
      TakeIncoming, StopServe

(***************************************************************************)
(* Nothing a client says is heard, and no client is registered, unless the *)
(* first message of some connection was that sender's hello with the       *)
(* server's own proto hash.                                                *)
(***************************************************************************)
THEOREM GreetedBeforeHeard == Spec => []OnlyGreetedSendersHeard
<1>1. GreetInv => OnlyGreetedSendersHeard
  BY DEF GreetInv, OwnersGreeted, HeardGreeted, Greeted, OnlyGreetedSendersHeard
<1> QED
  BY GreetInvInit, GreetInvStep, <1>1, PTL DEF Spec
=============================================================================
