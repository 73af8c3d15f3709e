------------------------- MODULE UdsRefinementProofs -------------------------
(***************************************************************************)
(* UdsServer implements IpcPort, for any number of senders, connections    *)
(* and messages and any queue sizes: every step of the server is one the   *)
(* port allows its callers to see, or none.                                *)
(***************************************************************************)
EXTENDS UdsServerProofs, FiniteSetTheorems

(***************************************************************************)
(* What the refinement needs beside OrderInv: a connection that was not    *)
(* accepted has no owner; no payload was accepted twice, which makes the   *)
(* payload a writer delivers leave the limbo; and only finitely many       *)
(* handlers run, which makes the number of a sender's feeds a number.      *)
(***************************************************************************)
FreshInv == \A c \in Conns : handler[c] = "none" => owner[c] = None

DistinctInv ==
    /\ \A c \in Conns : \A i \in DOMAIN accepted[c] : accepted[c][i] <= sends
    /\ \A c, d \in Conns : \A i \in DOMAIN accepted[c], j \in DOMAIN accepted[d] :
          accepted[c][i] = accepted[d][j] => c = d /\ i = j

Running == {c \in Conns : handler[c] \in {"recv", "put"}}

RefInv == OrderInv /\ FreshInv /\ DistinctInv /\ IsFiniteSet(Running)

LEMMA RefInvInit == Init => RefInv
<1> SUFFICES ASSUME Init PROVE FreshInv /\ DistinctInv /\ IsFiniteSet(Running)
  BY OrderInvInit DEF RefInv
<1>1. FreshInv /\ DistinctInv
  BY DEF Init, FreshInv, DistinctInv
<1>2. Running = {}
  BY DEF Init, Running
<1> QED
  BY <1>1, <1>2, FS_EmptySet

LEMMA FreshStep == RefInv /\ [Next]_vars => FreshInv'
<1> SUFFICES ASSUME RefInv, [Next]_vars PROVE FreshInv'
  OBVIOUS
<1>a. TypeOK /\ FreshInv
  BY DEF RefInv, OrderInv, RegInv, TypeInv
<1> USE DEF TypeOK, clientVars, writeVars, history
<1>1. CASE UNCHANGED <<owner, handler>>
  BY <1>a, <1>1 DEF FreshInv
<1>2. ASSUME NEW c \in Conns, Accept(c) PROVE FreshInv'
  BY <1>a, <1>2 DEF Accept, FreshInv
<1>3. ASSUME NEW c \in Conns, PeerHello(c) PROVE FreshInv'
  <2>1. \A d \in Conns : d # c => owner'[d] = owner[d] /\ handler'[d] = handler[d]
    BY <1>a, <1>3 DEF PeerHello, PutIncoming
  <2>2. handler'[c] # "none"
    BY <1>a, <1>3 DEF PeerHello, PutIncoming, Receiving
  <2> QED
    BY <1>a, <2>1, <2>2 DEF FreshInv
<1>4. ASSUME NEW c \in Conns, PeerMessage(c) \/ PeerPut(c) PROVE FreshInv'
  <2>1. owner' = owner /\ handler'[c] # "none" /\ \A d \in Conns : d # c => handler'[d] = handler[d]
    BY <1>a, <1>4 DEF PeerMessage, PeerPut, PutIncoming, Receiving
  <2> QED
    BY <1>a, <2>1 DEF FreshInv
<1>5. ASSUME NEW c \in Conns, PeerRefused(c) \/ PeerEof(c) \/ PeerReset(c) \/ HandlerCancelled(c)
      PROVE  FreshInv'
  <2>1. HandlerExit(c)
    BY <1>5 DEF PeerRefused, PeerEof, PeerReset, HandlerCancelled
  <2> QED
    BY <1>a, <2>1 DEF FreshInv, HandlerExit
<1> QED
  BY <1>1, <1>2, <1>3, <1>4, <1>5
  DEF Next, HandlerStep, vars, ClientConnect, ClientClose, ClientSend, WriterGet, WriteDone,
      WriteFails, Send, TakeIncoming, StopServe

LEMMA DistinctStep == RefInv /\ [Next]_vars => DistinctInv'
<1> SUFFICES ASSUME RefInv, [Next]_vars PROVE DistinctInv'
  OBVIOUS
<1>a. TypeOK /\ DistinctInv /\ RegInv
  BY DEF RefInv, OrderInv, RegInv, TypeInv
<1>1. CASE UNCHANGED <<sends, accepted>>
  BY <1>a, <1>1 DEF DistinctInv
<1>2. ASSUME NEW s \in Senders, Send(s) PROVE DistinctInv'
  <2>1. PICK d \in Conns : peers[s] = d
    BY <1>a, <1>2 DEF Send, SendOutcome, TypeOK
  <2>2. PICK n \in Nat : n = sends
    BY <1>a DEF TypeOK
  <2>3. PICK a \in Seq(Payloads) : a = accepted[d]
    BY <1>a DEF TypeOK
  <2>4. n + 1 \in Payloads
    BY <1>a, <1>2, <2>2, UdsAssumption DEF Send, TypeOK, Payloads
  <2>5. /\ sends' = n + 1
        /\ accepted'[d] = Append(a, n + 1)
        /\ \A c \in Conns : c # d => accepted'[c] = accepted[c]
    BY <1>a, <1>2, <2>1, <2>2, <2>3 DEF Send, TypeOK
  <2>6. PICK k \in Nat : k = Len(a)
    BY <2>3
  <2>7. /\ DOMAIN a = 1 .. k /\ DOMAIN Append(a, n + 1) = 1 .. k + 1
        /\ Append(a, n + 1)[k + 1] = n + 1
        /\ \A i \in 1 .. k : Append(a, n + 1)[i] = a[i]
    BY <2>3, <2>4, <2>6
  <2>8. \A c \in Conns : \A i \in DOMAIN accepted[c] : accepted[c][i] \in Payloads
    BY SMTT(30), <1>a DEF TypeOK
  <2>9. ASSUME NEW c \in Conns, NEW i \in DOMAIN accepted'[c]
        PROVE  \/ i \in DOMAIN accepted[c] /\ accepted'[c][i] = accepted[c][i]
               \/ c = d /\ i = k + 1 /\ accepted'[c][i] = n + 1
    BY <2>3, <2>5, <2>7
  <2>10. \A c \in Conns : \A i \in DOMAIN accepted[c] : accepted[c][i] <= n
    BY <1>a, <2>2 DEF DistinctInv
  <2>11. \A c \in Conns : \A i \in DOMAIN accepted'[c] : accepted'[c][i] <= n + 1
    BY <2>8, <2>9, <2>10 DEF Payloads
  <2>12. ASSUME NEW c \in Conns, NEW e \in Conns, NEW i \in DOMAIN accepted'[c],
                NEW j \in DOMAIN accepted'[e], accepted'[c][i] = accepted'[e][j]
         PROVE  c = e /\ i = j
    <3>1. CASE accepted'[c][i] = n + 1
      <4>1. ~ (i \in DOMAIN accepted[c] /\ accepted'[c][i] = accepted[c][i])
        BY <2>8, <2>10, <3>1 DEF Payloads
      <4>2. ~ (j \in DOMAIN accepted[e] /\ accepted'[e][j] = accepted[e][j])
        BY <2>8, <2>10, <2>12, <3>1 DEF Payloads
      <4> QED
        BY <2>9, <4>1, <4>2
    <3>2. CASE accepted'[c][i] # n + 1
      <4>1. i \in DOMAIN accepted[c] /\ accepted'[c][i] = accepted[c][i]
        BY <2>9, <3>2
      <4>2. j \in DOMAIN accepted[e] /\ accepted'[e][j] = accepted[e][j]
        BY <2>9, <2>12, <3>2
      <4>3. accepted[c][i] = accepted[e][j]
        BY <2>12, <4>1, <4>2
      <4>4. \A x, y \in Conns : \A p \in DOMAIN accepted[x], q \in DOMAIN accepted[y] :
               accepted[x][p] = accepted[y][q] => x = y /\ p = q
        BY <1>a DEF DistinctInv
      <4> QED
        BY <4>1, <4>2, <4>3, <4>4
    <3> QED
      BY <3>1, <3>2
  <2> QED
    BY <2>5, <2>11, <2>12 DEF DistinctInv
<1> QED
  BY ZenonT(30), <1>1, <1>2
  DEF Next, HandlerStep, vars, clientVars, writeVars, history, ClientConnect, ClientClose, ClientSend,
      Accept, PeerHello, PeerRefused, PeerMessage, PeerPut, PeerEof, PeerReset, HandlerCancelled,
      HandlerExit, WriterGet, WriteDone, WriteFails, TakeIncoming, StopServe

LEMMA RunningStep == RefInv /\ [Next]_vars => IsFiniteSet(Running')
<1> SUFFICES ASSUME RefInv, [Next]_vars PROVE IsFiniteSet(Running')
  OBVIOUS
<1>a. TypeOK /\ IsFiniteSet(Running)
  BY DEF RefInv, OrderInv, RegInv, TypeInv
<1>1. ASSUME NEW c \in Conns, \A d \in Conns : d # c => handler'[d] = handler[d]
      PROVE  IsFiniteSet(Running')
  <2>1. Running' \subseteq Running \cup {c}
    BY <1>1 DEF Running
  <2>2. IsFiniteSet(Running \cup {c})
    BY <1>a, FS_AddElement
  <2> QED
    BY <2>1, <2>2, FS_Subset
<1>2. CASE handler' = handler
  BY <1>a, <1>2 DEF Running
<1> USE DEF TypeOK, clientVars, writeVars, history
<1>3. ASSUME NEW c \in Conns,
             \/ Accept(c) \/ PeerHello(c) \/ PeerMessage(c) \/ PeerPut(c)
             \/ PeerRefused(c) \/ PeerEof(c) \/ PeerReset(c) \/ HandlerCancelled(c)
      PROVE  IsFiniteSet(Running')
  <2>1. \A d \in Conns : d # c => handler'[d] = handler[d]
    BY <1>a, <1>3 DEF Accept, PeerHello, PeerMessage, PeerPut, PutIncoming, PeerRefused, PeerEof,
       PeerReset, HandlerCancelled, HandlerExit
  <2> QED
    BY <1>1, <2>1
<1> QED
  BY <1>2, <1>3
  DEF Next, HandlerStep, vars, ClientConnect, ClientClose, ClientSend, WriterGet, WriteDone,
      WriteFails, Send, TakeIncoming, StopServe

LEMMA RefInvariant == Spec => []RefInv
<1>1. RefInv /\ [Next]_vars => RefInv'
  BY RegInvStep, WriterInvStep, OrderStep, FreshStep, DistinctStep, RunningStep
  DEF RefInv, OrderInv
<1> QED
  BY RefInvInit, <1>1, PTL DEF Spec

(***************************************************************************)
(* The refinement mapping, sender by sender.                               *)
(***************************************************************************)

\* The functions the mapping gives the port are functions on the senders,
\* so that one that changes at one sender only is an EXCEPT of itself.
LEMMA ChangedAt ==
    ASSUME NEW t \in Senders, NEW v
    PROVE  /\ (\A s \in Senders \ {t} : PortQueue'[s] = PortQueue[s]) /\ PortQueue'[t] = v
                 => PortQueue' = [PortQueue EXCEPT ![t] = v]
           /\ (\A s \in Senders \ {t} : PortLimbo'[s] = PortLimbo[s]) /\ PortLimbo'[t] = v
                 => PortLimbo' = [PortLimbo EXCEPT ![t] = v]
           /\ (\A s \in Senders \ {t} : PortDelivered'[s] = PortDelivered[s]) /\ PortDelivered'[t] = v
                 => PortDelivered' = [PortDelivered EXCEPT ![t] = v]
           /\ (\A s \in Senders \ {t} : PortFeeds'[s] = PortFeeds[s]) /\ PortFeeds'[t] = v
                 => PortFeeds' = [PortFeeds EXCEPT ![t] = v]
<1>1. \A F, G : /\ F = [s \in Senders |-> F[s]] /\ G = [s \in Senders |-> G[s]]
                /\ \A s \in Senders \ {t} : G[s] = F[s]
                /\ G[t] = v
                => G = [F EXCEPT ![t] = v]
  OBVIOUS
<1>2. PortQueue = [s \in Senders |-> PortQueue[s]] /\ PortQueue' = [s \in Senders |-> PortQueue'[s]]
  BY DEF PortQueue
<1>3. PortLimbo = [s \in Senders |-> PortLimbo[s]] /\ PortLimbo' = [s \in Senders |-> PortLimbo'[s]]
  BY DEF PortLimbo
<1>4. /\ PortDelivered = [s \in Senders |-> PortDelivered[s]]
      /\ PortDelivered' = [s \in Senders |-> PortDelivered'[s]]
  BY DEF PortDelivered
<1>5. PortFeeds = [s \in Senders |-> PortFeeds[s]] /\ PortFeeds' = [s \in Senders |-> PortFeeds'[s]]
  BY DEF PortFeeds
<1> QED
  BY <1>1, <1>2, <1>3, <1>4, <1>5

LEMMA ChangedNowhere ==
    /\ (\A s \in Senders : PortQueue'[s] = PortQueue[s]) => PortQueue' = PortQueue
    /\ (\A s \in Senders : PortLimbo'[s] = PortLimbo[s]) => PortLimbo' = PortLimbo
    /\ (\A s \in Senders : PortDelivered'[s] = PortDelivered[s]) => PortDelivered' = PortDelivered
    /\ (\A s \in Senders : PortFeeds'[s] = PortFeeds[s]) => PortFeeds' = PortFeeds
<1>1. \A F, G : /\ F = [s \in Senders |-> F[s]] /\ G = [s \in Senders |-> G[s]]
                /\ \A s \in Senders : G[s] = F[s]
                => G = F
  OBVIOUS
<1>2. PortQueue = [s \in Senders |-> PortQueue[s]] /\ PortQueue' = [s \in Senders |-> PortQueue'[s]]
  BY DEF PortQueue
<1>3. PortLimbo = [s \in Senders |-> PortLimbo[s]] /\ PortLimbo' = [s \in Senders |-> PortLimbo'[s]]
  BY DEF PortLimbo
<1>4. /\ PortDelivered = [s \in Senders |-> PortDelivered[s]]
      /\ PortDelivered' = [s \in Senders |-> PortDelivered'[s]]
  BY DEF PortDelivered
<1>5. PortFeeds = [s \in Senders |-> PortFeeds[s]] /\ PortFeeds' = [s \in Senders |-> PortFeeds'[s]]
  BY DEF PortFeeds
<1> QED
  BY <1>1, <1>2, <1>3, <1>4, <1>5

\* What is in a sender's limbo, and what was delivered to it.
LEMMA LimboMembers ==
    \A s \in Senders : \A p :
        p \in PortLimbo[s] <=>
           \E c \in Conns : /\ owner[c] = s
                            /\ \/ p \in ElementsOf(inflight[c])
                               \/ c # peers[s] /\ p \in ElementsOf(sendQueue[c])
<1> SUFFICES ASSUME NEW s \in Senders
             PROVE  \A p : p \in PortLimbo[s] <=>
                       \E c \in Conns : /\ owner[c] = s
                                        /\ \/ p \in ElementsOf(inflight[c])
                                           \/ c # peers[s] /\ p \in ElementsOf(sendQueue[c])
  OBVIOUS
<1> DEFINE A == UNION {ElementsOf(inflight[c]) : c \in ConnsOf(s)}
           B == UNION {ElementsOf(sendQueue[c]) : c \in {d \in ConnsOf(s) : d # peers[s]}}
<1>1. PortLimbo[s] = A \cup B
  BY DEF PortLimbo
<1>2. \A p : p \in A <=> \E c \in Conns : owner[c] = s /\ p \in ElementsOf(inflight[c])
  BY DEF ConnsOf
<1>3. \A p : p \in B <=>
         \E c \in Conns : owner[c] = s /\ c # peers[s] /\ p \in ElementsOf(sendQueue[c])
  BY DEF ConnsOf
<1> HIDE DEF A, B
<1> QED
  BY <1>1, <1>2, <1>3

LEMMA LimboMembersNext ==
    \A s \in Senders : \A p :
        p \in PortLimbo'[s] <=>
           \E c \in Conns : /\ owner'[c] = s
                            /\ \/ p \in ElementsOf(inflight'[c])
                               \/ c # peers'[s] /\ p \in ElementsOf(sendQueue'[c])
<1> SUFFICES ASSUME NEW s \in Senders
             PROVE  \A p : p \in PortLimbo'[s] <=>
                       \E c \in Conns : /\ owner'[c] = s
                                        /\ \/ p \in ElementsOf(inflight'[c])
                                           \/ c # peers'[s] /\ p \in ElementsOf(sendQueue'[c])
  OBVIOUS
<1> DEFINE O == {c \in Conns : owner'[c] = s}
           A == UNION {ElementsOf(inflight'[c]) : c \in O}
           B == UNION {ElementsOf(sendQueue'[c]) : c \in {d \in O : d # peers'[s]}}
<1>1. PortLimbo'[s] = A \cup B
  BY DEF PortLimbo, ConnsOf, ElementsOf
<1>2. \A p : p \in A <=> \E c \in Conns : owner'[c] = s /\ p \in ElementsOf(inflight'[c])
  OBVIOUS
<1>3. \A p : p \in B <=>
         \E c \in Conns : owner'[c] = s /\ c # peers'[s] /\ p \in ElementsOf(sendQueue'[c])
  OBVIOUS
<1> HIDE DEF A, B
<1> QED
  BY <1>1, <1>2, <1>3

LEMMA DeliveredMembers ==
    \A s \in Senders : \A p :
        p \in PortDelivered[s] <=> \E c \in Conns : owner[c] = s /\ p \in ElementsOf(wire[c])
BY DEF PortDelivered, ConnsOf

LEMMA DeliveredMembersNext ==
    \A s \in Senders : \A p :
        p \in PortDelivered'[s] <=> \E c \in Conns : owner'[c] = s /\ p \in ElementsOf(wire'[c])
BY DEF PortDelivered, ConnsOf, ElementsOf

\* The running handlers of a sender.
Feeding(s) == {c \in Conns : owner[c] = s /\ handler[c] \in {"recv", "put"}}

LEMMA FeedsCount ==
    /\ \A s \in Senders : PortFeeds[s] = Cardinality(Feeding(s))
    /\ \A s \in Senders : PortFeeds'[s] = Cardinality(Feeding(s)')
<1>1. \A s : {c \in ConnsOf(s) : handler[c] \in {"recv", "put"}} = Feeding(s)
  BY DEF ConnsOf, Feeding
<1>2. \A s : {c \in ConnsOf(s)' : handler'[c] \in {"recv", "put"}} = Feeding(s)'
  BY DEF ConnsOf, Feeding
<1> QED
  BY <1>1, <1>2 DEF PortFeeds

LEMMA FeedingFinite ==
    ASSUME RefInv, NEW s \in Senders
    PROVE  IsFiniteSet(Feeding(s)) /\ Cardinality(Feeding(s)) \in Nat
<1>1. Feeding(s) \subseteq Running /\ IsFiniteSet(Running)
  BY DEF Feeding, Running, RefInv
<1> QED
  BY <1>1, FS_Subset, FS_CardinalityType

\* The registered connection of a sender is its own.
LEMMA RegisteredOwned ==
    ASSUME RefInv, NEW s \in Senders, peers[s] # None
    PROVE  peers[s] \in Conns /\ owner[peers[s]] = s /\ Live(peers[s])
BY UdsAssumption
DEF RefInv, OrderInv, RegInv, TypeInv, TypeOK, NewestOwned, NewestConnectionRegistered

\* The port sees nothing of a sender none of whose connections is touched.
LEMMA SenderUntouched ==
    ASSUME RefInv, NEW s \in Senders, peers'[s] = peers[s],
           \A c \in Conns : owner'[c] = s <=> owner[c] = s,
           \A c \in Conns : owner[c] = s =>
              /\ inflight'[c] = inflight[c] /\ sendQueue'[c] = sendQueue[c] /\ wire'[c] = wire[c]
              /\ handler'[c] \in {"recv", "put"} <=> handler[c] \in {"recv", "put"}
    PROVE  /\ PortQueue'[s] = PortQueue[s]
           /\ PortLimbo'[s] = PortLimbo[s]
           /\ PortDelivered'[s] = PortDelivered[s]
           /\ PortFeeds'[s] = PortFeeds[s]
<1>1. PortQueue'[s] = PortQueue[s]
  BY RegisteredOwned DEF PortQueue
<1>2. PortLimbo'[s] = PortLimbo[s]
  <2>1. \A p : p \in PortLimbo'[s] <=> p \in PortLimbo[s]
    BY LimboMembers, LimboMembersNext
  <2> QED
    BY <2>1
<1>3. PortDelivered'[s] = PortDelivered[s]
  <2>1. \A p : p \in PortDelivered'[s] <=> p \in PortDelivered[s]
    BY DeliveredMembers, DeliveredMembersNext
  <2> QED
    BY <2>1
<1>4. Feeding(s)' = Feeding(s)
  BY DEF Feeding
<1> QED
  BY <1>1, <1>2, <1>3, <1>4, FeedsCount

\* A step on connection c shows at its sender t only, if it has one.
LEMMA OthersUntouched ==
    ASSUME RefInv, NEW c \in Conns, NEW t \in Senders \cup {None},
           owner[c] \in {t, None}, owner'[c] \in {t, None},
           \A d \in Conns \ {c} :
              /\ owner'[d] = owner[d] /\ handler'[d] = handler[d] /\ wire'[d] = wire[d]
              /\ inflight'[d] = inflight[d] /\ sendQueue'[d] = sendQueue[d],
           \A s \in Senders \ {t} : peers'[s] = peers[s]
    PROVE  \A s \in Senders \ {t} :
              /\ PortQueue'[s] = PortQueue[s]
              /\ PortLimbo'[s] = PortLimbo[s]
              /\ PortDelivered'[s] = PortDelivered[s]
              /\ PortFeeds'[s] = PortFeeds[s]
<1> SUFFICES ASSUME NEW s \in Senders \ {t}
             PROVE  /\ PortQueue'[s] = PortQueue[s]
                    /\ PortLimbo'[s] = PortLimbo[s]
                    /\ PortDelivered'[s] = PortDelivered[s]
                    /\ PortFeeds'[s] = PortFeeds[s]
  OBVIOUS
<1>1. s # None /\ owner[c] # s /\ owner'[c] # s /\ peers'[s] = peers[s]
  BY UdsAssumption
<1> QED
  BY <1>1, SenderUntouched

\* A step that shows at no sender and leaves the incoming queue alone.
LEMMA Unseen ==
    ASSUME \A s \in Senders :
              /\ PortQueue'[s] = PortQueue[s]
              /\ PortLimbo'[s] = PortLimbo[s]
              /\ PortDelivered'[s] = PortDelivered[s]
              /\ PortFeeds'[s] = PortFeeds[s],
           incoming' = incoming
    PROVE  UNCHANGED Port!portVars
BY ChangedNowhere DEF Port!portVars

LEMMA AcceptUnseen ==
    ASSUME RefInv, NEW c \in Conns, Accept(c)
    PROVE  UNCHANGED Port!portVars
<1>1. /\ owner[c] = None
      /\ UNCHANGED <<owner, wire, inflight, sendQueue, peers, incoming>>
      /\ \A d \in Conns \ {c} : handler'[d] = handler[d]
  BY DEF Accept, writeVars, RefInv, FreshInv, OrderInv, RegInv, TypeInv, TypeOK
<1>2. \A s \in Senders \ {None} :
         /\ PortQueue'[s] = PortQueue[s]
         /\ PortLimbo'[s] = PortLimbo[s]
         /\ PortDelivered'[s] = PortDelivered[s]
         /\ PortFeeds'[s] = PortFeeds[s]
  BY <1>1, OthersUntouched
<1> QED
  BY <1>1, <1>2, Unseen, UdsAssumption

\* What _handle_peer puts in the incoming queue is a post of its sender.
LEMMA PutPosts ==
    ASSUME RefInv, NEW c \in Conns, PeerMessage(c) \/ PeerPut(c)
    PROVE  UNCHANGED Port!portVars \/ \E s \in Senders, m \in Messages : Port!Post(s, m)
<1>a. TypeOK /\ HeldInv
  BY DEF RefInv, OrderInv, RegInv, TypeInv
<1>1. PICK t \in Senders, m \in Messages :
         /\ t = owner[c]
         /\ \/ incoming' = incoming
            \/ Len(incoming) < IncomingMax /\ incoming' = Append(incoming, [from |-> t, msg |-> m])
  <2>1. CASE PeerMessage(c)
    <3>1. owner[c] \in Senders
      BY <1>a, <2>1 DEF PeerMessage, TypeOK
    <3>2. Head(inbox[c]) \in Messages
      BY <1>a, <2>1 DEF PeerMessage, TypeOK
    <3> QED
      BY <2>1, <3>1, <3>2 DEF PeerMessage, PutIncoming
  <2>2. CASE PeerPut(c)
    <3>1. owner[c] \in Senders /\ held[c] \in Messages
      BY <1>a, <2>2 DEF PeerPut, HeldInv
    <3> QED
      BY <2>2, <3>1 DEF PeerPut
  <2> QED
    BY <2>1, <2>2
<1>2. /\ handler[c] \in {"recv", "put"} /\ handler'[c] \in {"recv", "put"}
      /\ \A d \in Conns : d # c => handler'[d] = handler[d]
  BY <1>a DEF PeerMessage, PeerPut, PutIncoming, Receiving, TypeOK
<1>3. UNCHANGED <<owner, wire, inflight, sendQueue, peers>>
  BY DEF PeerMessage, PeerPut, writeVars
<1>4. \A s \in Senders :
         /\ PortQueue'[s] = PortQueue[s]
         /\ PortLimbo'[s] = PortLimbo[s]
         /\ PortDelivered'[s] = PortDelivered[s]
         /\ PortFeeds'[s] = PortFeeds[s]
  BY <1>2, <1>3, SenderUntouched
<1>5. PortFeeds[t] > 0
  <2>1. c \in Feeding(t)
    BY <1>1, <1>2 DEF Feeding
  <2>2. Cardinality(Feeding(t)) # 0 /\ Cardinality(Feeding(t)) \in Nat
    BY <2>1, FeedingFinite, FS_EmptySet
  <2> QED
    BY <2>2, FeedsCount
<1>6. CASE incoming' = incoming
  BY <1>4, <1>6, Unseen
<1>7. CASE Len(incoming) < IncomingMax /\ incoming' = Append(incoming, [from |-> t, msg |-> m])
  <2>1. PortQueue' = PortQueue /\ PortLimbo' = PortLimbo /\ PortDelivered' = PortDelivered
        /\ PortFeeds' = PortFeeds
    BY <1>4, ChangedNowhere
  <2>2. Port!Post(t, m)
    BY <1>5, <1>7, <2>1 DEF Port!Post, Port!Enqueue
  <2> QED
    BY <2>2
<1> QED
  BY <1>1, <1>6, <1>7

\* A handshake attaches its sender.
LEMMA HelloAttaches ==
    ASSUME RefInv, NEW c \in Conns, PeerHello(c)
    PROVE  \E s \in Senders, m \in Messages : Port!Attach(s, m)
<1>a. TypeOK /\ WriterInv
  BY DEF RefInv, OrderInv, RegInv, TypeInv
<1>1. PICK m \in Messages : m = Head(inbox[c]) /\ HandshakeAccepted(m)
  BY <1>a DEF PeerHello, TypeOK
<1>2. PICK t \in Senders : m.sender_id = t
  BY <1>1, HelloNamesSender
<1>3. /\ owner[c] = None /\ handler[c] = "recv"
      /\ PutIncoming(c, t, m)
      /\ owner' = [owner EXCEPT ![c] = t]
      /\ peers' = [peers EXCEPT ![t] = c]
      /\ UNCHANGED <<sendQueue, inflight, wire>>
  BY <1>1, <1>2 DEF PeerHello, Receiving
<1>4. sendQueue[c] = <<>> /\ inflight[c] = <<>> /\ wire[c] = <<>>
  BY <1>a, <1>3 DEF WriterInv
<1>5. /\ owner'[c] = t /\ peers'[t] = c
      /\ \A d \in Conns \ {c} : owner'[d] = owner[d]
      /\ \A s \in Senders \ {t} : peers'[s] = peers[s]
  BY <1>a, <1>3 DEF TypeOK
<1>6. handler'[c] \in {"recv", "put"} /\ \A d \in Conns \ {c} : handler'[d] = handler[d]
  BY <1>a, <1>3 DEF PutIncoming, TypeOK
<1>7. \A s \in Senders \ {t} :
         /\ PortQueue'[s] = PortQueue[s]
         /\ PortLimbo'[s] = PortLimbo[s]
         /\ PortDelivered'[s] = PortDelivered[s]
         /\ PortFeeds'[s] = PortFeeds[s]
  BY <1>3, <1>5, <1>6, OthersUntouched
<1>b. c # None /\ t # None /\ owner[c] # t /\ peers[t] # c
  BY <1>3, RegisteredOwned, UdsAssumption
<1>8. PortQueue'[t] = <<>>
  BY <1>3, <1>4, <1>5, <1>b DEF PortQueue
<1>9. PortLimbo'[t] = Port!Pending(t)
  <2>1. \A p : p \in PortLimbo'[t] <=>
           \E d \in Conns \ {c} :
              owner[d] = t /\ (p \in ElementsOf(inflight[d]) \/ p \in ElementsOf(sendQueue[d]))
    <3>1. \A p : p \notin ElementsOf(inflight[c]) /\ p \notin ElementsOf(sendQueue[c])
      BY <1>4 DEF ElementsOf
    <3> QED
      BY <1>3, <1>5, <3>1, LimboMembersNext
  <2>2. CASE peers[t] = None
    <3>1. Port!Pending(t) = PortLimbo[t]
      BY <2>2 DEF Port!Pending, Port!Linked, PortQueue
    <3>2. \A p : p \in PortLimbo'[t] <=> p \in PortLimbo[t]
      BY <1>b, <2>1, <2>2, LimboMembers, UdsAssumption
    <3> QED
      BY <3>1, <3>2
  <2>3. CASE peers[t] # None
    <3>1. PICK d \in Conns \ {c} : peers[t] = d /\ owner[d] = t
      BY <1>b, <2>3, RegisteredOwned
    <3>2. PortQueue[t] = sendQueue[d] /\ sendQueue[d] # None
      BY <1>a, <2>3, <3>1, UdsAssumption DEF PortQueue, TypeOK, Payloads
    <3>3. Port!Pending(t) = PortLimbo[t] \cup ElementsOf(sendQueue[d])
      BY <3>2 DEF Port!Pending, Port!Linked, Port!Elements, ElementsOf
    <3>4. \A p : p \in PortLimbo'[t] <=> (p \in PortLimbo[t] \/ p \in ElementsOf(sendQueue[d]))
      BY <1>b, <2>1, <3>1, LimboMembers
    <3> QED
      BY <3>3, <3>4
  <2> QED
    BY <2>2, <2>3
<1>10. PortDelivered'[t] = PortDelivered[t]
  <2>1. \A p : p \in PortDelivered'[t] <=> p \in PortDelivered[t]
    <3>1. \A p : p \notin ElementsOf(wire[c])
      BY <1>4 DEF ElementsOf
    <3> QED
      BY <1>3, <1>5, <1>b, <3>1, DeliveredMembers, DeliveredMembersNext
  <2> QED
    BY <2>1
<1>11. PortFeeds'[t] = PortFeeds[t] + 1
  <2>1. Feeding(t)' = Feeding(t) \cup {c} /\ c \notin Feeding(t)
    BY <1>5, <1>6, <1>b DEF Feeding
  <2>2. Cardinality(Feeding(t)') = Cardinality(Feeding(t)) + 1
    BY <2>1, FeedingFinite, FS_AddElement
  <2> QED
    BY <2>2, FeedsCount
<1>12. /\ PortQueue' = [PortQueue EXCEPT ![t] = <<>>]
       /\ PortLimbo' = [PortLimbo EXCEPT ![t] = Port!Pending(t)]
       /\ PortFeeds' = [PortFeeds EXCEPT ![t] = PortFeeds[t] + 1]
       /\ PortDelivered' = PortDelivered
  BY <1>7, <1>8, <1>9, <1>10, <1>11, ChangedAt, ChangedNowhere
<1>13. incoming' = incoming \/ Port!Enqueue(t, m)
  BY <1>3 DEF PutIncoming, Port!Enqueue
<1>14. Port!Attach(t, m)
  BY <1>12, <1>13 DEF Port!Attach
<1> QED
  BY <1>14

\* Connection c of sender t loses what it has in flight and in its queue, and
\* its entry in the registry if it has one: the link goes, or a replaced
\* connection's part of the limbo.
LEMMA LossDetaches ==
    ASSUME RefInv, NEW c \in Conns, NEW t \in Senders, NEW ended \in {0, 1},
           owner[c] = t, ForgetPeer(t, c), UNCHANGED <<owner, wire, incoming>>,
           inflight' = [inflight EXCEPT ![c] = <<>>],
           sendQueue' = [sendQueue EXCEPT ![c] = <<>>],
           \A d \in Conns \ {c} : handler'[d] = handler[d],
           PortFeeds[t] >= ended, PortFeeds'[t] = PortFeeds[t] - ended
    PROVE  Port!Detach(t, ended)
<1>a. TypeOK
  BY DEF RefInv, OrderInv, RegInv, TypeInv
<1>b. c # None /\ t # None
  BY UdsAssumption
<1>1. /\ inflight'[c] = <<>> /\ sendQueue'[c] = <<>>
      /\ \A d \in Conns \ {c} : inflight'[d] = inflight[d] /\ sendQueue'[d] = sendQueue[d]
      /\ \A s \in Senders \ {t} : peers'[s] = peers[s]
      /\ peers'[t] = IF peers[t] = c THEN None ELSE peers[t]
  BY <1>a, <1>b DEF TypeOK, ForgetPeer, OwnsEntry
<1>2. \A s \in Senders \ {t} :
         /\ PortQueue'[s] = PortQueue[s]
         /\ PortLimbo'[s] = PortLimbo[s]
         /\ PortDelivered'[s] = PortDelivered[s]
         /\ PortFeeds'[s] = PortFeeds[s]
  BY <1>1, OthersUntouched
<1>3. PortDelivered' = PortDelivered
  BY DEF PortDelivered, ConnsOf
<1>4. PortFeeds' = [PortFeeds EXCEPT ![t] = PortFeeds[t] - ended]
  BY <1>2, ChangedAt
<1>5. PortLimbo' = [PortLimbo EXCEPT ![t] = PortLimbo'[t]]
  BY <1>2, ChangedAt
<1>6. \A p : p \notin ElementsOf(inflight'[c]) /\ p \notin ElementsOf(sendQueue'[c])
  BY <1>1 DEF ElementsOf
<1>7. CASE peers[t] = c
  <2>1. PortQueue[t] = sendQueue[c] /\ sendQueue[c] # None /\ PortQueue'[t] = None
    BY <1>1, <1>7, <1>a, <1>b, UdsAssumption DEF PortQueue, TypeOK, Payloads
  <2>2. PortQueue' = [PortQueue EXCEPT ![t] = None]
    BY <1>2, <2>1, ChangedAt
  <2>3. Port!Linked(t)
    BY <2>1 DEF Port!Linked
  <2>4. PortLimbo'[t] \subseteq Port!Pending(t)
    <3>1. \A p : p \in PortLimbo'[t] => p \in PortLimbo[t]
      BY <1>1, <1>6, <1>7, LimboMembers, LimboMembersNext
    <3> QED
      BY <3>1 DEF Port!Pending
  <2>5. \E rest \in SUBSET Port!Pending(t) : PortLimbo' = [PortLimbo EXCEPT ![t] = rest]
    BY <1>5, <2>4
  <2> QED
    BY <1>3, <1>4, <2>2, <2>3, <2>5 DEF Port!Detach
<1>8. CASE peers[t] # c
  <2>1. PortQueue'[t] = PortQueue[t]
    BY <1>1, <1>8, RegisteredOwned DEF PortQueue
  <2>2. PortQueue' = PortQueue
    BY <1>2, <2>1, ChangedNowhere
  <2>3. PortLimbo'[t] \subseteq PortLimbo[t]
    <3>1. \A p : p \in PortLimbo'[t] => p \in PortLimbo[t]
      BY <1>1, <1>6, <1>8, LimboMembers, LimboMembersNext
    <3> QED
      BY <3>1
  <2>4. \E rest \in SUBSET PortLimbo[t] : PortLimbo' = [PortLimbo EXCEPT ![t] = rest]
    BY <1>5, <2>3
  <2> QED
    BY <1>3, <1>4, <2>2, <2>4 DEF Port!Detach
<1> QED
  BY <1>7, <1>8

\* The end of a handler detaches its sender, or shows nowhere if it has none.
LEMMA ExitDetaches ==
    ASSUME RefInv, NEW c \in Conns, handler[c] \in {"recv", "put"}, HandlerExit(c)
    PROVE  UNCHANGED Port!portVars \/ \E s \in Senders : Port!Detach(s, 1)
<1>a. TypeOK /\ WriterInv
  BY DEF RefInv, OrderInv, RegInv, TypeInv
<1>1. /\ ForgetPeer(owner[c], c) /\ UNCHANGED <<owner, wire, incoming>>
      /\ inflight' = [inflight EXCEPT ![c] = <<>>]
      /\ sendQueue' = [sendQueue EXCEPT ![c] = <<>>]
      /\ handler'[c] = "done" /\ \A d \in Conns \ {c} : handler'[d] = handler[d]
  BY <1>a DEF HandlerExit, TypeOK
<1>2. CASE owner[c] = None
  <2>1. peers' = peers /\ \A d \in Conns \ {c} : inflight'[d] = inflight[d] /\ sendQueue'[d] = sendQueue[d]
    BY <1>a, <1>1, <1>2 DEF ForgetPeer, OwnsEntry, TypeOK
  <2>2. \A s \in Senders \ {None} :
           /\ PortQueue'[s] = PortQueue[s]
           /\ PortLimbo'[s] = PortLimbo[s]
           /\ PortDelivered'[s] = PortDelivered[s]
           /\ PortFeeds'[s] = PortFeeds[s]
    BY <1>1, <1>2, <2>1, OthersUntouched
  <2> QED
    BY <1>1, <2>2, Unseen, UdsAssumption
<1>3. CASE owner[c] # None
  <2>1. PICK t \in Senders : owner[c] = t
    BY <1>a, <1>3 DEF TypeOK
  <2>2. c \in Feeding(t) /\ Feeding(t)' = Feeding(t) \ {c}
    BY <1>1, <2>1 DEF Feeding
  <2>3. /\ Cardinality(Feeding(t)) \in Nat /\ Cardinality(Feeding(t)) # 0
        /\ Cardinality(Feeding(t)') = Cardinality(Feeding(t)) - 1
    BY ZenonT(30), <2>2, FeedingFinite, FS_EmptySet, FS_RemoveElement
  <2>4. PortFeeds[t] >= 1 /\ PortFeeds'[t] = PortFeeds[t] - 1
    BY <2>3, FeedsCount
  <2>5. Port!Detach(t, 1)
    BY <1>1, <2>1, <2>4, LossDetaches
  <2> QED
    BY <2>5
<1> QED
  BY <1>2, <1>3

\* A failed write detaches its sender; the handler still counts as a feed.
LEMMA FailureDetaches ==
    ASSUME RefInv, NEW c \in Conns, WriteFails(c)
    PROVE  \E s \in Senders : Port!Detach(s, 0)
<1>a. TypeOK /\ WriterInv
  BY DEF RefInv, OrderInv, RegInv, TypeInv
<1>1. PICK t \in Senders : owner[c] = t
  BY <1>a DEF WriteFails, WriterInv, TypeOK
<1>2. /\ ForgetPeer(t, c) /\ UNCHANGED <<owner, wire, incoming, handler>>
      /\ inflight' = [inflight EXCEPT ![c] = <<>>]
      /\ sendQueue' = [sendQueue EXCEPT ![c] = <<>>]
  BY <1>1 DEF WriteFails
<1>3. Feeding(t)' = Feeding(t) /\ Cardinality(Feeding(t)) \in Nat
  BY <1>2, FeedingFinite DEF Feeding
<1>4. PortFeeds[t] >= 0 /\ PortFeeds'[t] = PortFeeds[t] - 0
  BY <1>3, FeedsCount
<1>5. Port!Detach(t, 0)
  BY <1>1, <1>2, <1>4, LossDetaches
<1> QED
  BY <1>5

\* The elements of a queue without its head, and of a longer wire.
LEMMA ElementsOfTail ==
    ASSUME NEW S, NEW q \in Seq(S), q # <<>>
    PROVE  ElementsOf(q) = {Head(q)} \cup ElementsOf(Tail(q))
<1>1. PICK n \in Nat : n = Len(q) /\ n > 0
  OBVIOUS
<1>2. DOMAIN q = 1 .. n /\ DOMAIN Tail(q) = 1 .. n - 1 /\ Head(q) = q[1]
      /\ \A i \in 1 .. n - 1 : Tail(q)[i] = q[i + 1]
  BY <1>1
<1>3. ASSUME NEW i \in 1 .. n PROVE q[i] \in {Head(q)} \cup ElementsOf(Tail(q))
  <2>1. CASE i = 1
    BY <1>2, <2>1
  <2>2. CASE i # 1
    <3>1. PICK j \in 1 .. n - 1 : i = j + 1
      BY <1>1, <2>2
    <3> QED
      BY <1>2, <3>1 DEF ElementsOf
  <2> QED
    BY <2>1, <2>2
<1>4. ASSUME NEW j \in 1 .. n - 1 PROVE Tail(q)[j] \in ElementsOf(q)
  <2>1. j + 1 \in 1 .. n
    BY <1>1
  <2> QED
    BY <1>2, <2>1 DEF ElementsOf
<1>5. Head(q) \in ElementsOf(q)
  BY <1>1, <1>2 DEF ElementsOf
<1> QED
  BY ZenonT(30), <1>2, <1>3, <1>4, <1>5 DEF ElementsOf

LEMMA ElementsOfLonger ==
    ASSUME NEW S, NEW w \in Seq(S), NEW p \in S
    PROVE  ElementsOf(w \o <<p>>) = ElementsOf(w) \cup {p}
<1>1. PICK n \in Nat : n = Len(w)
  OBVIOUS
<1>2. /\ DOMAIN w = 1 .. n /\ DOMAIN (w \o <<p>>) = 1 .. n + 1
      /\ \A i \in 1 .. n : (w \o <<p>>)[i] = w[i]
      /\ (w \o <<p>>)[n + 1] = p
  BY <1>1
<1>3. \A i \in 1 .. n + 1 : i \in 1 .. n \/ i = n + 1
  OBVIOUS
<1>4. \A i \in 1 .. n : i \in 1 .. n + 1
  OBVIOUS
<1>5. n + 1 \in 1 .. n + 1
  OBVIOUS
<1> QED
  BY <1>2, <1>3, <1>4, <1>5 DEF ElementsOf

\* queue.get of the registered connection begins a write; of a replaced one
\* it moves a payload within the limbo.
LEMMA GetBegins ==
    ASSUME RefInv, NEW c \in Conns, WriterGet(c)
    PROVE  UNCHANGED Port!portVars \/ \E s \in Senders : Port!BeginWrite(s)
<1>a. TypeOK /\ WriterInv
  BY DEF RefInv, OrderInv, RegInv, TypeInv
<1>1. PICK t \in Senders : owner[c] = t
  BY <1>a DEF WriterGet, WriterInv, TypeOK
<1>2. PICK q \in Seq(Payloads) : q = sendQueue[c] /\ q # <<>>
  BY <1>a DEF WriterGet, TypeOK
<1>3. PICK h \in Payloads : h = Head(q)
  BY <1>2
<1>4. /\ UNCHANGED <<owner, wire, incoming, handler, peers>>
      /\ inflight[c] = <<>> /\ inflight'[c] = <<h>> /\ sendQueue'[c] = Tail(q)
      /\ \A d \in Conns \ {c} : inflight'[d] = inflight[d] /\ sendQueue'[d] = sendQueue[d]
  BY <1>a, <1>2, <1>3 DEF WriterGet, TakeHead, WriterInv, TypeOK
<1>5. \A s \in Senders \ {t} :
         /\ PortQueue'[s] = PortQueue[s]
         /\ PortLimbo'[s] = PortLimbo[s]
         /\ PortDelivered'[s] = PortDelivered[s]
         /\ PortFeeds'[s] = PortFeeds[s]
  BY <1>1, <1>4, OthersUntouched
<1>6. PortDelivered' = PortDelivered /\ PortFeeds' = PortFeeds
  BY <1>4 DEF PortDelivered, PortFeeds, ConnsOf
<1>7. \A p : /\ p \notin ElementsOf(inflight[c])
             /\ p \in ElementsOf(inflight'[c]) <=> p = h
             /\ p \in ElementsOf(sendQueue[c]) <=> (p = h \/ p \in ElementsOf(sendQueue'[c]))
  <2>1. ElementsOf(q) = {h} \cup ElementsOf(Tail(q))
    BY <1>2, <1>3, ElementsOfTail
  <2>2. ElementsOf(<<>>) = {} /\ ElementsOf(<<h>>) = {h}
    BY DEF ElementsOf
  <2> QED
    BY <1>2, <1>4, <2>1, <2>2
<1>8. CASE peers[t] = c
  <2>1. PortQueue[t] = q /\ PortQueue'[t] = Tail(q) /\ q # None
    BY <1>2, <1>4, <1>8, UdsAssumption DEF PortQueue, Payloads
  <2>2. \A p : p \in PortLimbo'[t] <=> (p \in PortLimbo[t] \/ p = h)
    <3>1. ASSUME NEW p \in PortLimbo'[t] PROVE p \in PortLimbo[t] \/ p = h
      <4>1. PICK d \in Conns : /\ owner[d] = t
                               /\ \/ p \in ElementsOf(inflight'[d])
                                  \/ d # peers[t] /\ p \in ElementsOf(sendQueue'[d])
        BY <1>4, <3>1, LimboMembersNext
      <4>2. CASE d = c
        BY <1>7, <1>8, <4>1, <4>2
      <4>3. CASE d # c
        BY <1>4, <4>1, <4>3, LimboMembers
      <4> QED
        BY <4>2, <4>3
    <3>2. ASSUME NEW p \in PortLimbo[t] PROVE p \in PortLimbo'[t]
      <4>1. PICK d \in Conns : /\ owner[d] = t
                               /\ \/ p \in ElementsOf(inflight[d])
                                  \/ d # peers[t] /\ p \in ElementsOf(sendQueue[d])
        BY <3>2, LimboMembers
      <4>2. d # c
        BY <1>7, <1>8, <4>1
      <4> QED
        BY <1>4, <4>1, <4>2, LimboMembersNext
    <3>3. h \in PortLimbo'[t]
      BY <1>1, <1>4, <1>7, LimboMembersNext
    <3> QED
      BY <3>1, <3>2, <3>3
  <2>3. PortLimbo'[t] = PortLimbo[t] \cup {h}
    BY <2>2
  <2>4. /\ PortQueue' = [PortQueue EXCEPT ![t] = Tail(q)]
        /\ PortLimbo' = [PortLimbo EXCEPT ![t] = PortLimbo[t] \cup {h}]
    BY <1>5, <2>1, <2>3, ChangedAt
  <2>5. Port!BeginWrite(t)
    BY <1>2, <1>3, <1>4, <1>6, <2>1, <2>4 DEF Port!BeginWrite, Port!Linked
  <2> QED
    BY <2>5
<1>9. CASE peers[t] # c
  <2>1. PortQueue'[t] = PortQueue[t]
    BY <1>4, <1>9, RegisteredOwned DEF PortQueue
  <2>2. \A p : p \in PortLimbo'[t] <=> p \in PortLimbo[t]
    <3>1. ASSUME NEW p \in PortLimbo'[t] PROVE p \in PortLimbo[t]
      <4>1. PICK d \in Conns : /\ owner[d] = t
                               /\ \/ p \in ElementsOf(inflight'[d])
                                  \/ d # peers[t] /\ p \in ElementsOf(sendQueue'[d])
        BY <1>4, <3>1, LimboMembersNext
      <4>2. CASE d = c
        <5>1. p \in ElementsOf(sendQueue[c])
          BY <1>7, <4>1, <4>2
        <5> QED
          BY <1>1, <1>9, <5>1, LimboMembers
      <4>3. CASE d # c
        BY <1>4, <4>1, <4>3, LimboMembers
      <4> QED
        BY <4>2, <4>3
    <3>2. ASSUME NEW p \in PortLimbo[t] PROVE p \in PortLimbo'[t]
      <4>1. PICK d \in Conns : /\ owner[d] = t
                               /\ \/ p \in ElementsOf(inflight[d])
                                  \/ d # peers[t] /\ p \in ElementsOf(sendQueue[d])
        BY <3>2, LimboMembers
      <4>2. CASE d = c
        <5>1. p \in ElementsOf(inflight'[c]) \/ p \in ElementsOf(sendQueue'[c])
          BY <1>7, <4>1, <4>2
        <5> QED
          BY <1>1, <1>4, <1>9, <5>1, LimboMembersNext
      <4>3. CASE d # c
        BY <1>4, <4>1, <4>3, LimboMembersNext
      <4> QED
        BY <4>2, <4>3
    <3> QED
      BY <3>1, <3>2
  <2>3. PortLimbo'[t] = PortLimbo[t]
    BY <2>2
  <2> QED
    BY <1>4, <1>5, <1>6, <2>1, <2>3, Unseen
<1> QED
  BY <1>8, <1>9

\* Where the payloads of an account stand among the accepted ones.
LEMMA AccountPositions ==
    ASSUME NEW S, NEW w \in Seq(S), NEW f \in Seq(S), NEW q \in Seq(S), NEW a \in Seq(S),
           IsPrefixOf(w \o f \o q, a)
    PROVE  /\ \A i \in DOMAIN f : Len(w) + i \in DOMAIN a /\ f[i] = a[Len(w) + i]
           /\ \A i \in DOMAIN q :
                 Len(w) + Len(f) + i \in DOMAIN a /\ q[i] = a[Len(w) + Len(f) + i]
<1> DEFINE p == w \o f \o q
<1>1. PICK lw \in Nat, lf \in Nat, lq \in Nat, la \in Nat :
        lw = Len(w) /\ lf = Len(f) /\ lq = Len(q) /\ la = Len(a)
  OBVIOUS
<1>2. p \in Seq(S) /\ Len(p) = lw + lf + lq
  BY <1>1
<1>3. /\ \A i \in 1 .. lf : p[lw + i] = f[i]
      /\ \A i \in 1 .. lq : p[lw + lf + i] = q[i]
  BY <1>1
<1>4. IsPrefixOf(p, a)
  OBVIOUS
<1> HIDE DEF p
<1>5. Len(p) <= la /\ \A i \in 1 .. Len(p) : p[i] = a[i]
  <2>1. Len(p) <= Len(a) /\ \A i \in 1 .. Len(p) : p[i] = a[i]
    BY SMTT(30), <1>2, <1>4, PrefixElements
  <2> QED
    BY <1>1, <2>1
<1>6. DOMAIN f = 1 .. lf /\ DOMAIN q = 1 .. lq /\ DOMAIN a = 1 .. la
  BY <1>1
<1>7. ASSUME NEW i \in 1 .. lf PROVE lw + i \in 1 .. la /\ f[i] = a[lw + i]
  <2>1. lw + i \in 1 .. Len(p) /\ lw + i \in 1 .. la
    BY <1>2, <1>5
  <2> QED
    BY <1>3, <1>5, <2>1
<1>8. ASSUME NEW i \in 1 .. lq PROVE lw + lf + i \in 1 .. la /\ q[i] = a[lw + lf + i]
  <2>1. lw + lf + i \in 1 .. Len(p) /\ lw + lf + i \in 1 .. la
    BY <1>2, <1>5
  <2> QED
    BY <1>3, <1>5, <2>1
<1> QED
  BY <1>1, <1>6, <1>7, <1>8

\* The payload in flight is nowhere else.
LEMMA InflightOnce ==
    ASSUME RefInv, NEW c \in Conns, NEW h \in Payloads, inflight[c] = <<h>>, NEW d \in Conns
    PROVE  h \notin ElementsOf(sendQueue[d]) /\ (d # c => h \notin ElementsOf(inflight[d]))
<1>1. ASSUME NEW x \in Conns
      PROVE  /\ \A i \in DOMAIN inflight[x] :
                   /\ Len(wire[x]) + i \in DOMAIN accepted[x]
                   /\ inflight[x][i] = accepted[x][Len(wire[x]) + i]
             /\ \A i \in DOMAIN sendQueue[x] :
                   /\ Len(wire[x]) + Len(inflight[x]) + i \in DOMAIN accepted[x]
                   /\ sendQueue[x][i] = accepted[x][Len(wire[x]) + Len(inflight[x]) + i]
  <2>1. PICK w \in Seq(Payloads), f \in Seq(Payloads), q \in Seq(Payloads), a \in Seq(Payloads) :
          w = wire[x] /\ f = inflight[x] /\ q = sendQueue[x] /\ a = accepted[x]
    BY DEF RefInv, OrderInv, RegInv, TypeInv, TypeOK
  <2>2. IsPrefixOf(w \o f \o q, a)
    BY <2>1 DEF RefInv, OrderInv, AcceptedInOrder
  <2>3. /\ \A i \in DOMAIN f : Len(w) + i \in DOMAIN a /\ f[i] = a[Len(w) + i]
        /\ \A i \in DOMAIN q :
              Len(w) + Len(f) + i \in DOMAIN a /\ q[i] = a[Len(w) + Len(f) + i]
    BY <2>2, AccountPositions
  <2> QED
    BY <2>1, <2>3
<1>2. \A x, y \in Conns : \A i \in DOMAIN accepted[x], j \in DOMAIN accepted[y] :
         accepted[x][i] = accepted[y][j] => x = y /\ i = j
  BY DEF RefInv, DistinctInv
<1>3. PICK k \in DOMAIN accepted[c] : k = Len(wire[c]) + 1 /\ h = accepted[c][k]
  <2>1. 1 \in DOMAIN inflight[c] /\ inflight[c][1] = h
    OBVIOUS
  <2> QED
    BY <1>1, <2>1
<1>4. Len(wire[c]) \in Nat /\ Len(inflight[c]) = 1 /\ DOMAIN sendQueue[c] \subseteq Nat \ {0}
  <2>1. wire[c] \in Seq(Payloads) /\ sendQueue[c] \in Seq(Payloads)
    BY DEF RefInv, OrderInv, RegInv, TypeInv, TypeOK
  <2> QED
    BY <2>1
<1>5. ASSUME NEW i \in DOMAIN sendQueue[d], sendQueue[d][i] = h PROVE FALSE
  <2>1. PICK j : j = Len(wire[d]) + Len(inflight[d]) + i
    OBVIOUS
  <2>2. j \in DOMAIN accepted[d] /\ sendQueue[d][i] = accepted[d][j]
    BY <1>1, <2>1
  <2>3. accepted[c][k] = accepted[d][j]
    BY <1>3, <1>5, <2>2
  <2>4. c = d /\ k = j
    BY <1>2, <1>3, <2>2, <2>3
  <2>5. PICK l \in Nat \ {0} : l = i
    BY <1>4, <2>4
  <2>6. PICK n \in Nat : n = Len(wire[c])
    BY <1>4
  <2>7. n + 1 = n + 1 + l
    BY <1>3, <1>4, <2>1, <2>4, <2>5, <2>6
  <2>8. n + 1 # n + 1 + l
    OBVIOUS
  <2> QED
    BY <2>7, <2>8
<1>6. ASSUME NEW i \in DOMAIN inflight[d], inflight[d][i] = h, d # c PROVE FALSE
  <2>1. PICK j : j = Len(wire[d]) + i
    OBVIOUS
  <2>2. j \in DOMAIN accepted[d] /\ inflight[d][i] = accepted[d][j]
    BY <1>1, <2>1
  <2>3. accepted[c][k] = accepted[d][j]
    BY <1>3, <1>6, <2>2
  <2> QED
    BY <1>2, <1>3, <1>6, <2>2, <2>3
<1> QED
  BY <1>5, <1>6 DEF ElementsOf

\* The end of a write delivers its payload.
LEMMA DoneDelivers ==
    ASSUME RefInv, NEW c \in Conns, WriteDone(c)
    PROVE  \E s \in Senders : Port!Deliver(s)
<1>a. TypeOK /\ WriterInv
  BY DEF RefInv, OrderInv, RegInv, TypeInv
<1>1. PICK t \in Senders : owner[c] = t
  BY <1>a DEF WriteDone, WriterInv, TypeOK
<1>2. PICK h \in Payloads : inflight[c] = <<h>>
  <2>1. inflight[c] \in Seq(Payloads) /\ Len(inflight[c]) = 1
    BY <1>a DEF WriteDone, WriterInv, TypeOK
  <2>2. inflight[c][1] \in Payloads /\ inflight[c] = <<inflight[c][1]>>
    BY <2>1
  <2> QED
    BY <2>2
<1>3. /\ UNCHANGED <<owner, sendQueue, incoming, handler, peers>>
      /\ inflight'[c] = <<>> /\ wire'[c] = wire[c] \o <<h>>
      /\ \A d \in Conns \ {c} : inflight'[d] = inflight[d] /\ wire'[d] = wire[d]
  BY <1>a, <1>2 DEF WriteDone, TypeOK
<1>4. \A s \in Senders \ {t} :
         /\ PortQueue'[s] = PortQueue[s]
         /\ PortLimbo'[s] = PortLimbo[s]
         /\ PortDelivered'[s] = PortDelivered[s]
         /\ PortFeeds'[s] = PortFeeds[s]
  BY <1>1, <1>3, OthersUntouched
<1>5. PortQueue' = PortQueue /\ PortFeeds' = PortFeeds
  BY <1>3 DEF PortQueue, PortFeeds, ConnsOf
<1>6. \A p : /\ p \in ElementsOf(inflight[c]) <=> p = h
             /\ p \notin ElementsOf(inflight'[c])
             /\ p \in ElementsOf(wire'[c]) <=> (p \in ElementsOf(wire[c]) \/ p = h)
  <2>1. PICK w \in Seq(Payloads) : w = wire[c]
    BY <1>a DEF TypeOK
  <2>2. ElementsOf(w \o <<h>>) = ElementsOf(w) \cup {h}
    BY ElementsOfLonger
  <2>3. ElementsOf(<<>>) = {} /\ ElementsOf(<<h>>) = {h}
    BY DEF ElementsOf
  <2> QED
    BY <1>2, <1>3, <2>1, <2>2, <2>3
<1>7. \A d \in Conns : h \notin ElementsOf(sendQueue[d]) /\ (d # c => h \notin ElementsOf(inflight[d]))
  BY <1>2, InflightOnce
<1>8. h \in PortLimbo[t]
  BY <1>1, <1>6, LimboMembers
<1>9. PortLimbo'[t] = PortLimbo[t] \ {h}
  <2>1. \A p : p \in PortLimbo'[t] <=> (p \in PortLimbo[t] /\ p # h)
    BY <1>1, <1>3, <1>6, <1>7, LimboMembers, LimboMembersNext
  <2> QED
    BY <2>1
<1>10. PortDelivered'[t] = PortDelivered[t] \cup {h}
  <2>1. \A p : p \in PortDelivered'[t] <=> (p \in PortDelivered[t] \/ p = h)
    <3>1. ASSUME NEW p \in PortDelivered'[t] PROVE p \in PortDelivered[t] \/ p = h
      <4>1. PICK d \in Conns : owner[d] = t /\ p \in ElementsOf(wire'[d])
        BY <1>3, <3>1, DeliveredMembersNext
      <4>2. p \in ElementsOf(wire[d]) \/ p = h
        BY <1>3, <1>6, <4>1
      <4> QED
        BY <4>1, <4>2, DeliveredMembers
    <3>2. ASSUME NEW p \in PortDelivered[t] PROVE p \in PortDelivered'[t]
      <4>1. PICK d \in Conns : owner[d] = t /\ p \in ElementsOf(wire[d])
        BY <3>2, DeliveredMembers
      <4>2. p \in ElementsOf(wire'[d])
        BY <1>3, <1>6, <4>1
      <4> QED
        BY <1>3, <4>1, <4>2, DeliveredMembersNext
    <3>3. h \in PortDelivered'[t]
      BY <1>1, <1>3, <1>6, DeliveredMembersNext
    <3> QED
      BY <3>1, <3>2, <3>3
  <2> QED
    BY <2>1
<1>11. /\ PortLimbo' = [PortLimbo EXCEPT ![t] = PortLimbo[t] \ {h}]
       /\ PortDelivered' = [PortDelivered EXCEPT ![t] = PortDelivered[t] \cup {h}]
  BY <1>4, <1>9, <1>10, ChangedAt
<1>12. Port!Deliver(t)
  BY <1>3, <1>5, <1>8, <1>11 DEF Port!Deliver
<1> QED
  BY <1>12

\* send is the port's send.
LEMMA SendSends ==
    ASSUME RefInv, NEW s \in Senders, Send(s)
    PROVE  \E p \in Payloads : Port!Send(s, p)
<1>a. TypeOK
  BY DEF RefInv, OrderInv, RegInv, TypeInv
<1>1. PICK c \in Conns : peers[s] = c
  BY <1>a DEF Send, SendOutcome, TypeOK
<1>2. owner[c] = s /\ c # None
  BY <1>1, RegisteredOwned, UdsAssumption
<1>3. PICK p \in Payloads : p = sends + 1
  BY <1>a, UdsAssumption DEF Send, TypeOK, Payloads
<1>4. /\ UNCHANGED <<owner, wire, inflight, incoming, handler, peers>>
      /\ sendQueue'[c] = Append(sendQueue[c], p)
      /\ \A d \in Conns \ {c} : sendQueue'[d] = sendQueue[d]
      /\ ~ (Len(sendQueue[c]) >= SendQueueMax)
  BY <1>a, <1>1, <1>2, <1>3 DEF Send, SendOutcome, TypeOK
<1>5. \A r \in Senders \ {s} :
         /\ PortQueue'[r] = PortQueue[r]
         /\ PortLimbo'[r] = PortLimbo[r]
         /\ PortDelivered'[r] = PortDelivered[r]
         /\ PortFeeds'[r] = PortFeeds[r]
  BY <1>2, <1>4, OthersUntouched
<1>6. PortDelivered' = PortDelivered /\ PortFeeds' = PortFeeds
  BY <1>4 DEF PortDelivered, PortFeeds, ConnsOf
<1>7. PortLimbo'[s] = PortLimbo[s]
  <2>1. \A e : e \in PortLimbo'[s] <=> e \in PortLimbo[s]
    BY <1>1, <1>4, LimboMembers, LimboMembersNext
  <2> QED
    BY <2>1
<1>8. PortLimbo' = PortLimbo
  BY <1>5, <1>7, ChangedNowhere
<1>9. /\ PortQueue[s] = sendQueue[c] /\ PortQueue[s] # None
      /\ PortQueue'[s] = Append(sendQueue[c], p)
  BY <1>a, <1>1, <1>2, <1>4, UdsAssumption DEF PortQueue, TypeOK, Payloads
<1>10. PortQueue' = [PortQueue EXCEPT ![s] = Append(PortQueue[s], p)]
  BY <1>5, <1>9, ChangedAt
<1>11. Port!SendOutcome(s) = "ok"
  BY <1>4, <1>9 DEF Port!SendOutcome, Port!Linked
<1>12. Port!Send(s, p)
  BY <1>4, <1>6, <1>8, <1>10, <1>11 DEF Port!Send
<1> QED
  BY <1>12

LEMMA RefinementInit == Init => Port!PortInit
<1> SUFFICES ASSUME Init PROVE Port!PortInit
  OBVIOUS
<1>1. PortQueue = [s \in Senders |-> None]
  BY DEF Init, PortQueue
<1>2. PortLimbo = [s \in Senders |-> {}]
  <2>1. \A s \in Senders : \A p : p \notin PortLimbo[s]
    BY LimboMembers, UdsAssumption DEF Init
  <2>2. \A s \in Senders : PortLimbo[s] = {}
    BY <2>1
  <2>3. PortLimbo = [s \in Senders |-> PortLimbo[s]]
    BY DEF PortLimbo
  <2> QED
    BY <2>2, <2>3
<1>3. PortDelivered = [s \in Senders |-> {}]
  <2>1. \A s \in Senders : \A p : p \notin PortDelivered[s]
    BY DeliveredMembers, UdsAssumption DEF Init
  <2>2. \A s \in Senders : PortDelivered[s] = {}
    BY <2>1
  <2>3. PortDelivered = [s \in Senders |-> PortDelivered[s]]
    BY DEF PortDelivered
  <2> QED
    BY <2>2, <2>3
<1>4. PortFeeds = [s \in Senders |-> 0]
  <2>1. \A s \in Senders : Feeding(s) = {}
    BY DEF Init, Feeding
  <2>2. \A s \in Senders : PortFeeds[s] = 0
    BY <2>1, FeedsCount, FS_EmptySet
  <2>3. PortFeeds = [s \in Senders |-> PortFeeds[s]]
    BY DEF PortFeeds
  <2> QED
    BY <2>2, <2>3
<1>5. incoming = <<>>
  BY DEF Init
<1> QED
  BY <1>1, <1>2, <1>3, <1>4, <1>5 DEF Port!PortInit

LEMMA RefinementStep ==
    RefInv /\ [Next]_vars => [Port!PortNext(Payloads)]_(Port!portVars)
<1> SUFFICES ASSUME RefInv, [Next]_vars
             PROVE  Port!PortNext(Payloads) \/ UNCHANGED Port!portVars
  OBVIOUS
<1>1. CASE UNCHANGED <<owner, handler, peers, sendQueue, inflight, wire, incoming>>
  BY <1>1 DEF Port!portVars, PortQueue, PortLimbo, PortDelivered, PortFeeds, ConnsOf
<1>2. ASSUME NEW c \in Conns, Accept(c) PROVE UNCHANGED Port!portVars
  BY <1>2, AcceptUnseen
<1>3. ASSUME NEW c \in Conns, PeerHello(c) PROVE Port!PortNext(Payloads)
  BY <1>3, HelloAttaches DEF Port!PortNext, Port!PortStep
<1>4. ASSUME NEW c \in Conns, PeerMessage(c) \/ PeerPut(c)
      PROVE  Port!PortNext(Payloads) \/ UNCHANGED Port!portVars
  BY <1>4, PutPosts DEF Port!PortNext, Port!PortStep
<1>5. ASSUME NEW c \in Conns, PeerRefused(c) \/ PeerEof(c) \/ PeerReset(c) \/ HandlerCancelled(c)
      PROVE  Port!PortNext(Payloads) \/ UNCHANGED Port!portVars
  <2>1. handler[c] \in {"recv", "put"} /\ HandlerExit(c)
    BY <1>5 DEF PeerRefused, PeerEof, PeerReset, HandlerCancelled, Receiving, CancelledByServe
  <2> QED
    BY <2>1, ExitDetaches DEF Port!PortNext, Port!PortStep
<1>6. ASSUME NEW c \in Conns, WriterGet(c)
      PROVE  Port!PortNext(Payloads) \/ UNCHANGED Port!portVars
  BY <1>6, GetBegins DEF Port!PortNext, Port!PortStep
<1>7. ASSUME NEW c \in Conns, WriteDone(c) PROVE Port!PortNext(Payloads)
  BY <1>7, DoneDelivers DEF Port!PortNext, Port!PortStep
<1>8. ASSUME NEW c \in Conns, WriteFails(c) PROVE Port!PortNext(Payloads)
  BY <1>8, FailureDetaches DEF Port!PortNext, Port!PortStep
<1>9. ASSUME NEW s \in Senders, Send(s) PROVE Port!PortNext(Payloads)
  BY <1>9, SendSends DEF Port!PortNext
<1>10. ASSUME TakeIncoming PROVE Port!PortNext(Payloads)
  <2>1. /\ incoming # <<>> /\ incoming' = Tail(incoming)
        /\ UNCHANGED <<owner, handler, peers, sendQueue, inflight, wire>>
    BY <1>10 DEF TakeIncoming, writeVars
  <2>2. UNCHANGED <<PortQueue, PortLimbo, PortDelivered, PortFeeds>>
    BY <2>1 DEF PortQueue, PortLimbo, PortDelivered, PortFeeds, ConnsOf
  <2>3. Port!TakeIncoming
    BY <2>1, <2>2 DEF Port!TakeIncoming
  <2> QED
    BY <2>3 DEF Port!PortNext
<1> QED
  BY <1>1, <1>2, <1>3, <1>4, <1>5, <1>6, <1>7, <1>8, <1>9, <1>10
  DEF Next, HandlerStep, vars, clientVars, writeVars, history, ClientConnect, ClientClose, ClientSend,
      StopServe

(***************************************************************************)
(* UdsIpcServer keeps the promise of IpcServer: whatever the clients do    *)
(* and however connections fail, are replaced or are cancelled, its        *)
(* callers see only what the port allows.  SessionDispatcher relies on it. *)
(***************************************************************************)
THEOREM ServerImplementsPort == Spec => Implements
<1>1. Spec => []RefInv
  BY RefInvariant
<1>2. RefInv /\ [Next]_vars => [Port!PortNext(Payloads)]_(Port!portVars)
  BY RefinementStep
<1> QED
  BY <1>1, <1>2, RefinementInit, PTL DEF Spec, Implements
=============================================================================
