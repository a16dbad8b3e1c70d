--------------------------- MODULE ExecutorProofs ---------------------------
(***************************************************************************)
(* The server and the running executable, for any number of peers and      *)
(* frames, any interleaving with stop(), any ring and any batch.           *)
(*                                                                         *)
(* The server: which connection stop() may shut down, that a wake is fired *)
(* once, after its ack, in its peer's order, and what the counters say of  *)
(* it.  Three inductive invariants, each built on the one before:          *)
(* ConnectionInv (whose descriptor is published, and which peers wait),    *)
(* OrderInv (the chunks still to be read are whole frames, later than all  *)
(* that were acked) and CountInv (the wakes counted and not fired).        *)
(*                                                                         *)
(* The executable: what run() may rely on when it ends, and how the rows   *)
(* of the telemetry follow the server's acks.  Its steps are steps of the  *)
(* server or leave it alone, so the server's invariants hold in it.        *)
(* RunInv is about the order in which run() takes things down; LogInv      *)
(* places every row of the telemetry among the wakes recorded, and counts  *)
(* them.                                                                   *)
(***************************************************************************)
EXTENDS Executor, SequenceFacts, FiniteSetTheorems, SequenceTheorems, TLAPS

-----------------------------------------------------------------------------
(* The connection and its descriptor.                                      *)

\* The server is between two connections, or has one that stop() may know of.
Between == {"check", "poll", "polled", "accept", "return", "exited", "gave_up"}
Serving == {"loop", "read_prefix", "read_body", "send", "record", "fire", "clear_fd"}

ConnectionTypeOK ==
    /\ pc \in Between \cup Serving \cup {"store_fd", "close"}
    /\ cur \in Clients \cup {NoClient}
    /\ backlog \in Seq(Clients)
    /\ link \in [Clients -> {"none", "pending", "serving", "shut", "closed"}]
    /\ stopping \in BOOLEAN
    /\ stopper \in {"idle", "write", "load", "shutdown", "done"}

\* What the server's thread and the others see in connection_fd_: the current
\* connection or none, and none at all once the connection has been closed.
FdPublished ==
    /\ pc \in Between => cur = NoClient /\ buffered = << >> /\ connection_fd = NoClient
    /\ pc = "store_fd" => cur # NoClient /\ buffered = << >> /\ connection_fd = NoClient
    /\ pc \in Serving =>
          /\ cur # NoClient
          /\ \/ buffered = << >> /\ connection_fd = cur
             \/ buffered = <<cur>> /\ connection_fd = NoClient
    /\ pc = "close" =>
          /\ cur # NoClient
          /\ \/ buffered = << >> /\ connection_fd = NoClient
             \/ buffered = <<NoClient>> /\ connection_fd \in {NoClient, cur}

\* A stop() that holds a descriptor holds the current one, or that of a connection
\* closed since, after which a server that has been told to stop accepts no other.
StopKnows ==
    /\ stopper # "idle" => stopping
    /\ stopper = "shutdown" /\ stop_fd # NoClient =>
          stop_fd = cur \/ (cur = NoClient /\ pc \in {"return", "exited"})

\* The listen queue holds peers that wait, each once; the current peer is the one
\* whose connection is open.
QueueWaits ==
    /\ pc \in {"polled", "accept"} => backlog # << >>
    /\ \A i \in 1..Len(backlog) : link[backlog[i]] = "pending"
    /\ \A i, j \in 1..Len(backlog) : backlog[i] = backlog[j] => i = j
    /\ \A c \in Clients : link[c] \in {"serving", "shut"} <=> cur = c

\* The inductive invariant of the connection.
ConnectionInv == ConnectionTypeOK /\ FdPublished /\ StopKnows /\ QueueWaits

\* NoClient is no peer.
LEMMA NoClientIsNone == NoClient \notin Clients
  BY ServerAssumption DEF NoClient

\* The invariant holds of a server that listens.
LEMMA ConnectionInvInit == Init => ConnectionInv
  <1> SUFFICES ASSUME Init PROVE ConnectionInv
    OBVIOUS
  <1>1. ConnectionTypeOK
    <2>1. backlog \in Seq(Clients)
      BY DEF Init
    <2>2. link \in [Clients -> {"none", "pending", "serving", "shut", "closed"}]
      BY DEF Init
    <2> QED
      BY <2>1, <2>2, Zenon DEF Init, ConnectionTypeOK, Between
  <1>2. FdPublished /\ StopKnows
    BY DEF Init, FdPublished, StopKnows, Between, Serving
  <1>3. QueueWaits
    BY NoClientIsNone DEF Init, QueueWaits
  <1> QED
    BY <1>1, <1>2, <1>3 DEF ConnectionInv

\* The steps of the server that keep the connection it has, or go on without one.
LEMMA ConnectionInvStay ==
  ASSUME ConnectionInv,
         \/ Check \/ Poll \/ Polled \/ PollFails \/ AcceptFails \/ PublishConnection
         \/ WithdrawConnection \/ Return \/ LoopTop \/ ReadEnds \/ ReadPrefix
         \/ ReadBody \/ SendAck \/ SendFails \/ RecordWakeRecv \/ Fire \/ BufferDrains
  PROVE  ConnectionInv'
  <1> USE DEF ConnectionInv, serverRest, stopVars, fdVars, Go
  <1>1. UNCHANGED <<cur, backlog, link, stopping, stopper, stop_fd>>
    BY DEF Check, Poll, Polled, PollFails, AcceptFails, PublishConnection, WithdrawConnection,
           Return, LoopTop, ReadEnds, ReadPrefix, ReadBody, SendAck, SendFails,
           RecordWakeRecv, Fire, BufferDrains
  <1>2. CASE Check \/ Poll \/ Polled \/ PollFails \/ AcceptFails \/ Return
    BY <1>1, <1>2 DEF Check, Poll, Polled, PollFails, AcceptFails, Return, ConnectionTypeOK,
                      FdPublished, StopKnows, QueueWaits, Between, Serving
  <1>3. CASE PublishConnection \/ WithdrawConnection \/ BufferDrains
    BY <1>1, <1>3 DEF PublishConnection, WithdrawConnection, BufferDrains, StoreFd,
                      ConnectionTypeOK, FdPublished, StopKnows, QueueWaits, Between, Serving
  <1>4. CASE \/ LoopTop \/ ReadEnds \/ ReadPrefix \/ ReadBody \/ SendAck \/ SendFails
             \/ RecordWakeRecv \/ Fire
    <2>1. pc \in Serving /\ pc' \in Serving /\ UNCHANGED fdVars
      BY <1>4 DEF LoopTop, ReadEnds, ReadPrefix, ReadBody, SendAck, SendFails,
                  RecordWakeRecv, Fire, CountFrame, Serving
    <2> QED
      BY <1>1, <2>1 DEF ConnectionTypeOK, FdPublished, StopKnows, QueueWaits, Between, Serving
  <1> QED
    BY <1>2, <1>3, <1>4

\* accept() takes the first of the queue.
LEMMA ConnectionInvAccept ==
  ASSUME ConnectionInv, Accept
  PROVE  ConnectionInv'
  <1> USE NoClientIsNone DEF ConnectionInv, Accept, serverRest, stopVars, fdVars, Go
  <1>1. /\ backlog \in Seq(Clients) /\ backlog # << >> /\ Len(backlog) \in Nat
        /\ Len(backlog) >= 1
    BY DEF ConnectionTypeOK, QueueWaits
  <1>2. /\ Head(backlog) = backlog[1] /\ backlog[1] \in Clients
        /\ Tail(backlog) \in Seq(Clients) /\ Len(Tail(backlog)) = Len(backlog) - 1
        /\ \A i \in 1..Len(Tail(backlog)) : Tail(backlog)[i] = backlog[i + 1]
    BY <1>1, HeadTailProperties
  <1>3. ConnectionTypeOK'
    BY <1>2 DEF ConnectionTypeOK, Between, Serving
  <1>4. FdPublished' /\ StopKnows'
    BY <1>2 DEF FdPublished, StopKnows, Between, Serving
  <1>5. QueueWaits'
    <2>1. ASSUME NEW i \in 1..Len(backlog') PROVE link'[backlog'[i]] = "pending"
      <3>1. backlog'[i] = backlog[i + 1] /\ i + 1 \in 1..Len(backlog) /\ i + 1 # 1
        BY <1>1, <1>2
      <3>2. backlog[i + 1] # backlog[1] /\ backlog[i + 1] \in Clients
        BY <1>1, <3>1 DEF QueueWaits
      <3> QED
        BY <1>2, <3>1, <3>2 DEF QueueWaits, ConnectionTypeOK
    <2>2. ASSUME NEW i \in 1..Len(backlog'), NEW j \in 1..Len(backlog'),
                 backlog'[i] = backlog'[j]
          PROVE  i = j
      <3>1. /\ backlog'[i] = backlog[i + 1] /\ i + 1 \in 1..Len(backlog)
            /\ backlog'[j] = backlog[j + 1] /\ j + 1 \in 1..Len(backlog)
        BY <1>1, <1>2
      <3>2. i + 1 = j + 1
        BY <2>2, <3>1 DEF QueueWaits
      <3> QED
        BY <3>2
    <2>3. ASSUME NEW c \in Clients PROVE link'[c] \in {"serving", "shut"} <=> cur' = c
      <3>1. cur = NoClient
        BY DEF FdPublished, Between
      <3> QED
        BY <1>2, <3>1 DEF QueueWaits, ConnectionTypeOK
    <2> QED
      BY <2>1, <2>2, <2>3 DEF QueueWaits
  <1> QED
    BY <1>3, <1>4, <1>5

\* The connection is closed, and its descriptor was withdrawn before.
LEMMA ConnectionInvClose ==
  ASSUME ConnectionInv, CloseConnection
  PROVE  ConnectionInv'
  <1> USE NoClientIsNone DEF ConnectionInv, CloseConnection, serverRest, stopVars, fdVars, Go
  <1>1. cur \in Clients /\ connection_fd = NoClient
    BY DEF ConnectionTypeOK, FdPublished
  <1>2. ConnectionTypeOK' /\ FdPublished' /\ StopKnows'
    BY <1>1 DEF ConnectionTypeOK, FdPublished, StopKnows, Between, Serving
  <1>3. QueueWaits'
    BY <1>1 DEF ConnectionTypeOK, QueueWaits
  <1> QED
    BY <1>2, <1>3

\* What stop() does: it shuts down at most the connection it looked up.
LEMMA StopShutsItsOwn ==
  ASSUME ConnectionInv, Stop
  PROVE  \/ UNCHANGED link
         \/ cur \in Clients /\ stop_fd' = cur /\ link' = [link EXCEPT ![cur] = "shut"]
  <1> USE DEF ConnectionInv, Stop, stopRest, fdVars, Shut
  <1>1. CASE StopFromHandler
    <2>1. buffered = << >> => stop_fd' \in {NoClient, cur}
      BY <1>1 DEF StopFromHandler, FdPublished, ConnectionTypeOK, Between, Serving
    <2>2. buffered # << >> => stop_fd' \in {NoClient, cur}
      BY <1>1 DEF StopFromHandler, FdPublished, ConnectionTypeOK, Between, Serving
    <2> QED
      BY <1>1, <2>1, <2>2 DEF StopFromHandler, ConnectionTypeOK
  <1>2. CASE StopShutsDown
    BY <1>2 DEF StopShutsDown, StopKnows, ConnectionTypeOK
  <1>3. CASE StopStoresFlag \/ StopWritesPipe \/ StopLoadsFd
    BY <1>3 DEF StopStoresFlag, StopWritesPipe, StopLoadsFd
  <1> QED
    BY <1>1, <1>2, <1>3

\* stop() keeps the invariant: what it loads is the current connection's or none.
LEMMA ConnectionInvStop ==
  ASSUME ConnectionInv, Stop
  PROVE  ConnectionInv'
  <1> USE NoClientIsNone DEF ConnectionInv
  <1>1. UNCHANGED stopRest
    BY DEF Stop, StopFromHandler, StopStoresFlag, StopWritesPipe, StopLoadsFd, StopShutsDown
  <1>2. /\ link' \in [Clients -> {"none", "pending", "serving", "shut", "closed"}]
        /\ \A c \in Clients : link'[c] = link[c] \/ (c = cur /\ link'[c] = "shut")
    BY StopShutsItsOwn DEF ConnectionTypeOK
  <1>3. ConnectionTypeOK'
    BY <1>1, <1>2 DEF stopRest, ConnectionTypeOK, Stop, StopFromHandler, StopStoresFlag,
                      StopWritesPipe, StopLoadsFd, StopShutsDown
  <1>4. FdPublished'
    BY <1>1 DEF stopRest, fdVars, FdPublished
  <1>5. StopKnows'
    BY <1>1 DEF stopRest, fdVars, StopKnows, FdPublished, ConnectionTypeOK, Between, Serving,
                Stop, StopFromHandler, StopStoresFlag, StopWritesPipe, StopLoadsFd,
                StopShutsDown
  <1>6. QueueWaits'
    <2>1. \A c \in Clients : link[c] = "pending" => link'[c] = "pending"
      BY <1>2 DEF QueueWaits
    <2>2. \A i \in 1..Len(backlog) : backlog[i] \in Clients
      BY DEF ConnectionTypeOK
    <2> QED
      BY <1>1, <1>2, <2>1, <2>2 DEF stopRest, QueueWaits
  <1> QED
    BY <1>3, <1>4, <1>5, <1>6

\* A peer that connects joins the end of the queue, once.
LEMMA ConnectionInvPeer ==
  ASSUME ConnectionInv, Peer
  PROVE  ConnectionInv'
  <1> USE NoClientIsNone DEF ConnectionInv, peerRest, stopVars, fdVars
  <1>1. ASSUME NEW c \in Clients, Connect(c) PROVE ConnectionInv'
    <2>1. /\ UNCHANGED <<pc, cur, connection_fd, buffered, stopping, stopper, stop_fd>>
          /\ link' = [link EXCEPT ![c] = "pending"] /\ link[c] = "none"
          /\ backlog' = Append(backlog, c)
      BY <1>1 DEF Connect
    <2>2. /\ backlog \in Seq(Clients) /\ Len(backlog) \in Nat
          /\ backlog' \in Seq(Clients) /\ Len(backlog') = Len(backlog) + 1
          /\ \A i \in 1..Len(backlog) : backlog'[i] = backlog[i] /\ backlog[i] \in Clients
          /\ backlog'[Len(backlog) + 1] = c
      BY <2>1, AppendProperties DEF ConnectionTypeOK
    <2>3. ConnectionTypeOK' /\ FdPublished' /\ StopKnows'
      BY <2>1, <2>2 DEF ConnectionTypeOK, FdPublished, StopKnows
    <2>4. \A i \in 1..Len(backlog) : backlog[i] # c
      BY <2>1 DEF QueueWaits
    <2>5. \A i \in 1..Len(backlog') : i \in 1..Len(backlog) \/ i = Len(backlog) + 1
      BY <2>2
    <2>6. QueueWaits'
      <3>1. backlog' # << >>
        BY <2>2
      <3>2. \A i \in 1..Len(backlog') : link'[backlog'[i]] = "pending"
        BY <2>1, <2>2, <2>4, <2>5 DEF QueueWaits, ConnectionTypeOK
      <3>3. \A i, j \in 1..Len(backlog') : backlog'[i] = backlog'[j] => i = j
        BY <2>2, <2>4, <2>5 DEF QueueWaits
      <3>4. \A d \in Clients : link'[d] \in {"serving", "shut"} <=> cur' = d
        BY <2>1 DEF QueueWaits, ConnectionTypeOK
      <3> QED
        BY <3>1, <3>2, <3>3, <3>4 DEF QueueWaits
    <2> QED
      BY <2>3, <2>6
  <1>2. ASSUME NEW c \in Clients,
               \/ SendBody(c) \/ ReadAck(c) \/ Disconnect(c)
               \/ \E kind \in Kinds : SendPrefix(c, kind)
        PROVE  ConnectionInv'
    <2>1. UNCHANGED <<pc, cur, connection_fd, buffered, stopping, stopper, stop_fd,
                      link, backlog>>
      BY <1>2 DEF SendBody, ReadAck, Disconnect, SendPrefix
    <2> QED
      BY <2>1 DEF ConnectionTypeOK, FdPublished, StopKnows, QueueWaits
  <1> QED
    BY <1>1, <1>2 DEF Peer

\* No step breaks the invariant.
LEMMA ConnectionInvNext == ConnectionInv /\ [Next]_vars => ConnectionInv'
  <1> SUFFICES ASSUME ConnectionInv, [Next]_vars PROVE ConnectionInv'
    OBVIOUS
  <1>1. CASE UNCHANGED vars
    BY <1>1 DEF vars, stopVars, fdVars, ConnectionInv, ConnectionTypeOK, FdPublished,
                StopKnows, QueueWaits
  <1> QED
    BY <1>1, ConnectionInvStay, ConnectionInvAccept, ConnectionInvClose, ConnectionInvStop,
       ConnectionInvPeer DEF Next, Server

\* stop() shuts down no connection but the one it looked up, on any thread and at
\* any point of the server's, although the number of its descriptor may be reused.
THEOREM StopHitsOnlyItsConnection == Spec => StopHitsItsConnection
  <1>1. ConnectionInv /\ [Next]_vars =>
           [\A c \in Clients : link[c] # "shut" /\ link'[c] = "shut" => c = stop_fd']_vars
    <2> SUFFICES ASSUME ConnectionInv, Next, NEW c \in Clients,
                        link[c] # "shut", link'[c] = "shut"
                 PROVE  c = stop_fd'
      OBVIOUS
    <2>1. CASE Stop
      BY <2>1, StopShutsItsOwn DEF ConnectionInv, ConnectionTypeOK
    <2>2. CASE Server \/ PollFails \/ BufferDrains
      BY <2>2 DEF Server, BufferDrains, Check, Poll, Polled, PollFails, Accept, AcceptFails,
         PublishConnection, WithdrawConnection, CloseConnection, Return, LoopTop, ReadEnds,
         ReadPrefix, ReadBody, SendAck, SendFails, RecordWakeRecv, Fire, ConnectionInv,
         ConnectionTypeOK
    <2>3. CASE Peer
      BY <2>3 DEF Peer, Connect, SendBody, ReadAck, Disconnect, SendPrefix, ConnectionInv,
         ConnectionTypeOK
    <2> QED
      BY <2>1, <2>2, <2>3 DEF Next
  <1> QED
    BY <1>1, ConnectionInvInit, ConnectionInvNext, PTL DEF Spec, StopHitsItsConnection

-----------------------------------------------------------------------------
(* Frames, acks and fires, in order.                                       *)

\* A peer's chunks s of the frames F, of which the last may be the prefix of a frame
\* h that is sent half: frames in order, one chunk of an empty frame and two of any
\* other.
Framed(F, s, h) ==
    /\ \A i, j \in 1..Len(s) :
          i < j => s[i] < s[j] \/ (j = i + 1 /\ s[i] = s[j] /\ F[s[i]].kind # "empty")
    /\ \A i \in 1..Len(s) :
          F[s[i]].kind # "empty" =>
              (i = Len(s) /\ s[i] = h) \/ \E j \in 1..Len(s) : j # i /\ s[j] = s[i]
    /\ h # 0 =>
          /\ Len(s) >= 1 /\ s[Len(s)] = h /\ F[h].kind # "empty"
          /\ \A i \in 1..(Len(s) - 1) : s[i] < h

\* What is left to read of the peer's frames, the one the server is in included.
Chunks(c) == IF pc = "read_body" /\ cur = c THEN <<frame>> \o inbox[c] ELSE inbox[c]

\* The server may still read a frame of this peer.
InSync(c) == link[c] # "closed" /\ ~(cur = c /\ pc \in {"clear_fd", "close"})

\* All that is left of the peer's frames comes after frame n.
After(n, c) ==
    /\ \A k \in 1..Len(Chunks(c)) : n < Chunks(c)[k]
    /\ half[c] # 0 => n < half[c]

OrderTypeOK ==
    /\ frames \in Seq([from : Clients, kind : Kinds])
    /\ inbox \in [Clients -> Seq(Nat)] /\ half \in [Clients -> Nat]
    /\ frame \in Nat
    /\ acked \in Seq(Nat) /\ recorded \in Seq(Nat) /\ fired \in Seq(Nat)

\* Every chunk is of a frame that the peer sent.
SentByPeer ==
    \A c \in Clients :
        /\ \A i \in 1..Len(inbox[c]) :
              inbox[c][i] \in 1..Len(frames) /\ frames[inbox[c][i]].from = c
        /\ half[c] # 0 => half[c] \in 1..Len(frames) /\ frames[half[c]].from = c

\* What the server has still to read of a peer are whole frames: it is never inside
\* a body when it reads a prefix.
WholeFrames == \A c \in Clients : InSync(c) => Framed(frames, Chunks(c), half[c])

\* What was acked is never read again.
AckedIsPast ==
    \A i \in 1..Len(acked) :
        /\ acked[i] \in 1..Len(frames)
        /\ InSync(frames[acked[i]].from) => After(acked[i], frames[acked[i]].from)

\* The frame in hand is the current peer's; once it is read, it comes before what
\* is left and after what was acked.
FrameInHand ==
    /\ pc \in {"read_body", "send", "record", "fire"} =>
          frame \in 1..Len(frames) /\ frames[frame].from = cur
    /\ pc = "read_body" => frames[frame].kind # "empty"
    /\ pc = "send" =>
          /\ After(frame, cur)
          /\ \A i \in 1..Len(acked) : frames[acked[i]].from = cur => acked[i] < frame

\* The acks of a peer are in the order of its frames.
AckedInOrder ==
    \A i, j \in 1..Len(acked) :
        i < j /\ frames[acked[i]].from = frames[acked[j]].from => acked[i] < acked[j]

\* Between its ack and its fire there is one wake at most, the one in hand.
FiredInStep ==
    /\ pc = "record" => recorded = fired /\ acked = Append(fired, frame)
    /\ pc = "fire" => recorded = acked /\ acked = Append(fired, frame)
    /\ pc \notin {"record", "fire"} => recorded = acked /\ fired = acked

\* The inductive invariant of the order of frames.
OrderInv ==
    /\ OrderTypeOK /\ SentByPeer /\ WholeFrames /\ AckedIsPast /\ FrameInHand
    /\ AckedInOrder /\ FiredInStep

\* A chunk read back in front of the others.
LEMMA ConsProperties ==
  ASSUME NEW x \in Nat, NEW s \in Seq(Nat)
  PROVE  /\ <<x>> \o s \in Seq(Nat) /\ Len(<<x>> \o s) = Len(s) + 1
         /\ (<<x>> \o s)[1] = x
         /\ \A i \in 1..Len(s) : (<<x>> \o s)[i + 1] = s[i]
  <1>1. <<x>> \in Seq(Nat) /\ Len(<<x>>) = 1 /\ <<x>>[1] = x
    OBVIOUS
  <1>2. /\ <<x>> \o s \in Seq(Nat) /\ Len(<<x>> \o s) = 1 + Len(s)
        /\ \A i \in 1..(1 + Len(s)) : (<<x>> \o s)[i] = IF i <= 1 THEN <<x>>[i] ELSE s[i - 1]
    BY <1>1, ConcatProperties, Zenon
  <1>3. Len(s) \in Nat
    OBVIOUS
  <1> QED
    BY <1>1, <1>2, <1>3

\* t is what is left of s when its first frame is read: one chunk of an empty one and
\* two of any other.
FrameLength(F, s) == IF F[s[1]].kind = "empty" THEN 1 ELSE 2
FrameRead(F, s, t) ==
    /\ Len(s) >= FrameLength(F, s) /\ Len(t) = Len(s) - FrameLength(F, s)
    /\ \A i \in 1..Len(t) : t[i] = s[i + FrameLength(F, s)]

\* Reading a whole frame leaves whole frames, all of them later.
LEMMA FramedDrop ==
  ASSUME NEW F, NEW s \in Seq(Nat), NEW t \in Seq(Nat), NEW h \in Nat,
         Framed(F, s, h), FrameRead(F, s, t)
  PROVE  /\ Framed(F, t, h)
         /\ \A k \in 1..Len(t) : s[1] < t[k]
         /\ h # 0 => s[1] < h
  <1> DEFINE d == FrameLength(F, s)
  <1>0. /\ d \in {1, 2} /\ d = IF F[s[1]].kind = "empty" THEN 1 ELSE 2
        /\ Len(s) >= d /\ Len(t) = Len(s) - d /\ \A i \in 1..Len(t) : t[i] = s[i + d]
    BY DEF FrameLength, FrameRead
  <1> HIDE DEF d
  <1> USE <1>0
  <1>1. /\ Len(s) \in Nat /\ Len(t) \in Nat /\ 1 \in 1..Len(s)
        /\ \A i \in 1..Len(s) : s[i] \in Nat
        /\ \A i \in 1..Len(t) : i + d \in 1..Len(s)
    OBVIOUS
  <1>2. ASSUME NEW i \in (d + 1)..Len(s) PROVE s[1] < s[i]
    <2>1. i \in 1..Len(s) /\ 1 < i
      BY <1>1
    <2>2. s[1] < s[i] \/ (i = 1 + 1 /\ F[s[1]].kind # "empty")
      BY <1>1, <2>1 DEF Framed
    <2> QED
      BY <2>2
  <1>3. ASSUME NEW k \in 1..Len(t) PROVE s[1] < t[k]
    <2>1. k + d \in (d + 1)..Len(s)
      BY <1>1
    <2> QED
      BY <1>2, <2>1
  <1>4. d = 2 => s[2] = s[1]
    <2> SUFFICES ASSUME d = 2 PROVE s[2] = s[1]
      OBVIOUS
    <2>1. PICK j \in 1..Len(s) : j # 1 /\ s[j] = s[1]
      BY <1>1 DEF Framed
    <2>2. j \notin (d + 1)..Len(s)
      BY <1>1, <1>2, <2>1
    <2> QED
      BY <2>1, <2>2
  <1>5. h # 0 => s[1] < h /\ Len(s) > d
    <2> SUFFICES ASSUME h # 0 PROVE s[1] < h /\ Len(s) > d
      OBVIOUS
    <2>1. s[Len(s)] = h /\ F[h].kind # "empty" /\ \A i \in 1..(Len(s) - 1) : s[i] < h
      BY DEF Framed
    <2>2. Len(s) # 1
      BY <2>1
    <2>3. s[1] < h
      BY <1>1, <2>1, <2>2
    <2> QED
      BY <1>1, <1>4, <2>1, <2>2, <2>3
  <1>6. ASSUME NEW i \in 1..Len(t), NEW j \in 1..Len(t), i < j
        PROVE  t[i] < t[j] \/ (j = i + 1 /\ t[i] = t[j] /\ F[t[i]].kind # "empty")
    <2>0. i + d \in 1..Len(s) /\ j + d \in 1..Len(s) /\ i + d < j + d
      BY <1>1, <1>6
    <2>1. /\ i + d \in 1..Len(s) /\ j + d \in 1..Len(s) /\ i + d < j + d
          /\ t[i] = s[i + d] /\ t[j] = s[j + d]
      BY <2>0
    <2>2. \/ s[i + d] < s[j + d]
          \/ j + d = (i + d) + 1 /\ s[i + d] = s[j + d] /\ F[s[i + d]].kind # "empty"
      BY <2>1 DEF Framed
    <2> QED
      BY <2>1, <2>2
  <1>7. ASSUME NEW i \in 1..Len(t), F[t[i]].kind # "empty"
        PROVE  (i = Len(t) /\ t[i] = h) \/ \E j \in 1..Len(t) : j # i /\ t[j] = t[i]
    <2>1. i + d \in 1..Len(s) /\ t[i] = s[i + d]
      BY <1>1
    <2>2. CASE i + d = Len(s) /\ s[i + d] = h
      BY <1>1, <2>1, <2>2
    <2>3. CASE \E j \in 1..Len(s) : j # i + d /\ s[j] = s[i + d]
      <3>1. PICK j \in 1..Len(s) : j # i + d /\ s[j] = s[i + d]
        BY <2>3
      <3>2. s[1] < s[j]
        BY <1>3, <2>1, <3>1
      <3>3. j \notin 1..d
        BY <1>1, <1>4, <3>2, SMTT(30)
      <3>4. j - d \in 1..Len(t) /\ j - d # i /\ (j - d) + d = j
        BY <1>1, <3>1, <3>3
      <3>5. t[j - d] = s[j]
        BY <3>4
      <3> QED
        BY <2>1, <3>1, <3>4, <3>5
    <2>4. F[s[i + d]].kind # "empty"
      BY <1>7, <2>1
    <2>5. \/ i + d = Len(s) /\ s[i + d] = h
          \/ \E j \in 1..Len(s) : j # i + d /\ s[j] = s[i + d]
      <3>1. \A k \in 1..Len(s) :
               F[s[k]].kind # "empty" =>
                   (k = Len(s) /\ s[k] = h) \/ \E j \in 1..Len(s) : j # k /\ s[j] = s[k]
        BY Zenon DEF Framed
      <3> QED
        BY <2>1, <2>4, <3>1, ZenonT(30)
    <2> QED
      BY <2>2, <2>3, <2>5
  <1>8. ASSUME h # 0
        PROVE  /\ Len(t) >= 1 /\ t[Len(t)] = h /\ F[h].kind # "empty"
               /\ \A i \in 1..(Len(t) - 1) : t[i] < h
    <2>1. Len(t) \in 1..Len(t) /\ Len(t) + d = Len(s)
      BY <1>1, <1>5, <1>8
    <2>2. t[Len(t)] = h /\ F[h].kind # "empty"
      BY <1>8, <2>1 DEF Framed
    <2>3. ASSUME NEW i \in 1..(Len(t) - 1) PROVE t[i] < h
      <3>1. i \in 1..Len(t) /\ i + d \in 1..(Len(s) - 1)
        BY <1>1
      <3> QED
        BY <1>8, <3>1 DEF Framed
    <2>4. Len(t) >= 1
      BY <1>1, <1>5, <1>8
    <2> QED
      BY <2>1, <2>2, <2>3, <2>4, Zenon
  <1> QED
    BY <1>3, <1>4, <1>5, <1>6, <1>7, <1>8 DEF Framed

\* A peer sends the prefix of its next frame: all of an empty one, half of another.
LEMMA FramedSendPrefix ==
  ASSUME NEW F, NEW s \in Seq(Nat), NEW n \in Nat \ {0}, Framed(F, s, 0),
         \A i \in 1..Len(s) : 0 < s[i] /\ s[i] < n
  PROVE  Framed(F, Append(s, n), IF F[n].kind = "empty" THEN 0 ELSE n)
  <1> DEFINE t == Append(s, n)
  <1>1. /\ t \in Seq(Nat) /\ Len(t) = Len(s) + 1 /\ Len(s) \in Nat
        /\ t[Len(s) + 1] = n
        /\ \A i \in 1..Len(s) : t[i] = s[i] /\ s[i] \in Nat /\ i \in 1..Len(t)
    BY AppendProperties
  <1>2. \A i \in 1..Len(t) : i \in 1..Len(s) \/ i = Len(s) + 1
    BY <1>1
  <1> HIDE DEF t
  <1>3. ASSUME NEW i \in 1..Len(t), NEW j \in 1..Len(t), i < j
        PROVE  t[i] < t[j] \/ (j = i + 1 /\ t[i] = t[j] /\ F[t[i]].kind # "empty")
    <2>1. i \in 1..Len(s)
      BY <1>1, <1>3
    <2>2. CASE j \in 1..Len(s)
      BY <1>1, <1>3, <2>1, <2>2 DEF Framed
    <2>3. CASE j = Len(s) + 1
      BY <1>1, <2>1, <2>3
    <2> QED
      BY <1>2, <2>2, <2>3
  <1>4. ASSUME NEW i \in 1..Len(t), F[t[i]].kind # "empty"
        PROVE  \/ i = Len(t) /\ t[i] = IF F[n].kind = "empty" THEN 0 ELSE n
               \/ \E j \in 1..Len(t) : j # i /\ t[j] = t[i]
    <2>1. CASE i = Len(s) + 1
      BY <1>1, <1>4, <2>1
    <2>2. CASE i \in 1..Len(s)
      <3>1. t[i] = s[i] /\ s[i] \in Nat
        BY <1>1, <2>2
      <3>2. s[i] # 0
        BY <2>2, <3>1
      <3>3. PICK j \in 1..Len(s) : j # i /\ s[j] = s[i]
        BY <1>4, <2>2, <3>1, <3>2 DEF Framed
      <3> QED
        BY <1>1, <3>1, <3>3
    <2> QED
      BY <1>2, <2>1, <2>2
  <1>5. /\ Len(t) >= 1 /\ t[Len(t)] = n
        /\ \A i \in 1..(Len(t) - 1) : t[i] < n
    BY <1>1, SMTT(30)
  <1> QED
    BY <1>3, <1>4, <1>5 DEF Framed, t

\* A peer sends the body of the frame of which it has sent the prefix.
LEMMA FramedSendBody ==
  ASSUME NEW F, NEW s \in Seq(Nat), NEW h \in Nat \ {0}, Framed(F, s, h)
  PROVE  Framed(F, Append(s, h), 0)
  <1> DEFINE t == Append(s, h)
  <1>1. /\ t \in Seq(Nat) /\ Len(t) = Len(s) + 1 /\ Len(s) \in Nat
        /\ t[Len(s) + 1] = h
        /\ \A i \in 1..Len(s) : t[i] = s[i] /\ s[i] \in Nat /\ i \in 1..Len(t)
    BY AppendProperties
  <1>2. \A i \in 1..Len(t) : i \in 1..Len(s) \/ i = Len(s) + 1
    BY <1>1
  <1> HIDE DEF t
  <1>3. /\ Len(s) \in 1..Len(s) /\ s[Len(s)] = h /\ F[h].kind # "empty"
        /\ \A i \in 1..(Len(s) - 1) : s[i] < h
    BY <1>1 DEF Framed
  <1>4. ASSUME NEW i \in 1..Len(t), NEW j \in 1..Len(t), i < j
        PROVE  t[i] < t[j] \/ (j = i + 1 /\ t[i] = t[j] /\ F[t[i]].kind # "empty")
    <2>1. i \in 1..Len(s)
      BY <1>1, <1>4
    <2>2. CASE j \in 1..Len(s)
      BY <1>1, <1>4, <2>1, <2>2, ZenonT(30) DEF Framed
    <2>3. CASE j = Len(s) + 1 /\ i = Len(s)
      BY <1>1, <1>3, <2>3
    <2>4. CASE j = Len(s) + 1 /\ i # Len(s)
      <3>1. i \in 1..(Len(s) - 1)
        BY <1>1, <2>1, <2>4
      <3> QED
        BY <1>1, <1>3, <2>1, <2>4, <3>1
    <2> QED
      BY <1>2, <2>2, <2>3, <2>4
  <1>5. ASSUME NEW i \in 1..Len(t), F[t[i]].kind # "empty"
        PROVE  \E j \in 1..Len(t) : j # i /\ t[j] = t[i]
    <2>1. CASE i = Len(s) + 1
      BY <1>1, <1>3, <2>1
    <2>2. CASE i = Len(s)
      BY <1>1, <1>3, <2>2
    <2>3. CASE i \in 1..Len(s) /\ i # Len(s)
      <3>1. t[i] = s[i]
        BY <1>1, <2>3
      <3>2. PICK j \in 1..Len(s) : j # i /\ s[j] = s[i]
        BY <1>5, <2>3, <3>1 DEF Framed
      <3> QED
        BY <1>1, <3>1, <3>2
    <2> QED
      BY <1>2, <2>1, <2>2, <2>3
  <1> QED
    BY <1>4, <1>5 DEF Framed, t

\* Frames sent later change nothing.
LEMMA FramedMore ==
  ASSUME NEW F, NEW G, NEW s, NEW h, Framed(F, s, h),
         \A i \in 1..Len(s) : F[s[i]].kind = G[s[i]].kind,
         h # 0 => F[h].kind = G[h].kind
  PROVE  Framed(G, s, h)
  BY DEF Framed

\* Putting a chunk in front and one at the end commute.
LEMMA ConsAppend ==
  ASSUME NEW x \in Nat, NEW s \in Seq(Nat), NEW n \in Nat
  PROVE  <<x>> \o Append(s, n) = Append(<<x>> \o s, n)
  <1> DEFINE a == <<x>> \o Append(s, n)
             b == Append(<<x>> \o s, n)
  <1>1. /\ Append(s, n) \in Seq(Nat) /\ Len(Append(s, n)) = Len(s) + 1 /\ Len(s) \in Nat
        /\ \A i \in 1..Len(s) : Append(s, n)[i] = s[i]
        /\ Append(s, n)[Len(s) + 1] = n
    BY AppendProperties
  <1>2. /\ <<x>> \o s \in Seq(Nat) /\ Len(<<x>> \o s) = Len(s) + 1
        /\ (<<x>> \o s)[1] = x
        /\ \A i \in 1..Len(s) : (<<x>> \o s)[i + 1] = s[i]
    BY ConsProperties
  <1>3. /\ a \in Seq(Nat) /\ Len(a) = Len(s) + 2 /\ a[1] = x
        /\ \A i \in 1..(Len(s) + 1) : a[i + 1] = Append(s, n)[i]
    BY <1>1, ConsProperties
  <1>4. /\ b \in Seq(Nat) /\ Len(b) = Len(s) + 2
        /\ \A i \in 1..(Len(s) + 1) : b[i] = (<<x>> \o s)[i]
        /\ b[Len(s) + 2] = n
    BY <1>1, <1>2, AppendProperties
  <1> HIDE DEF a, b
  <1>5. ASSUME NEW i \in 1..Len(a) PROVE a[i] = b[i]
    <2>1. CASE i = 1
      BY <1>1, <1>2, <1>3, <1>4, <2>1
    <2>2. CASE i = Len(s) + 2
      <3>1. Len(s) + 1 \in 1..(Len(s) + 1) /\ (Len(s) + 1) + 1 = i
        BY <1>1, <2>2
      <3> QED
        BY <1>1, <1>3, <1>4, <2>2, <3>1
    <2>3. CASE i \in 2..(Len(s) + 1)
      <3>1. /\ i - 1 \in 1..Len(s) /\ i - 1 \in 1..(Len(s) + 1) /\ (i - 1) + 1 = i
            /\ i \in 1..(Len(s) + 1)
        BY <1>1, <2>3
      <3>2. a[i] = s[i - 1]
        BY <1>1, <1>3, <3>1
      <3>3. b[i] = s[i - 1]
        BY <1>2, <1>4, <3>1
      <3> QED
        BY <3>2, <3>3
    <2>4. i = 1 \/ i = Len(s) + 2 \/ i \in 2..(Len(s) + 1)
      BY <1>1, <1>3
    <2> QED
      BY <2>1, <2>2, <2>3, <2>4
  <1>6. a = b
    BY <1>3, <1>4, <1>5, SeqEqual
  <1> QED
    BY <1>6 DEF a, b

\* A chunk put back in front of the rest.
LEMMA ConsHeadTail ==
  ASSUME NEW s \in Seq(Nat), s # << >>
  PROVE  /\ Head(s) = s[1] /\ Head(s) \in Nat /\ Len(s) \in Nat /\ Len(s) >= 1
         /\ Tail(s) \in Seq(Nat) /\ Len(Tail(s)) = Len(s) - 1
         /\ \A i \in 1..Len(Tail(s)) : Tail(s)[i] = s[i + 1] /\ i + 1 \in 1..Len(s)
         /\ <<Head(s)>> \o Tail(s) = s
  <1>1. /\ Head(s) = s[1] /\ Head(s) \in Nat /\ Len(s) \in Nat /\ Len(s) >= 1
        /\ Tail(s) \in Seq(Nat) /\ Len(Tail(s)) = Len(s) - 1
        /\ \A i \in 1..Len(Tail(s)) : Tail(s)[i] = s[i + 1] /\ i + 1 \in 1..Len(s)
    BY HeadTailProperties
  <1> DEFINE a == <<Head(s)>> \o Tail(s)
  <1>2. /\ a \in Seq(Nat) /\ Len(a) = Len(Tail(s)) + 1 /\ a[1] = Head(s)
        /\ \A i \in 1..Len(Tail(s)) : a[i + 1] = Tail(s)[i]
    BY <1>1, ConsProperties
  <1> HIDE DEF a
  <1>3. ASSUME NEW i \in 1..Len(a) PROVE a[i] = s[i]
    <2>1. CASE i = 1
      BY <1>1, <1>2, <2>1
    <2>2. CASE i # 1
      <3>1. i - 1 \in 1..Len(Tail(s)) /\ (i - 1) + 1 = i
        BY <1>1, <1>2, <2>2
      <3> QED
        BY <1>1, <1>2, <3>1
    <2> QED
      BY <2>1, <2>2
  <1>4. a = s
    BY <1>1, <1>2, <1>3, SeqEqual
  <1> QED
    BY <1>1, <1>4 DEF a

\* A frame that was sent has a sender and a kind.
LEMMA FrameFields ==
  ASSUME OrderInv, NEW n \in 1..Len(frames)
  PROVE  frames[n].from \in Clients /\ frames[n].kind \in Kinds
  <1>1. frames[n] \in [from : Clients, kind : Kinds]
    BY ElementOfSeq DEF OrderInv, OrderTypeOK
  <1> QED
    BY <1>1

\* All that is left to read of a peer are chunks of frames it has sent.
LEMMA ChunksSent ==
  ASSUME OrderInv, NEW c \in Clients
  PROVE  /\ Chunks(c) \in Seq(Nat)
         /\ \A k \in 1..Len(Chunks(c)) :
               Chunks(c)[k] \in 1..Len(frames) /\ frames[Chunks(c)[k]].from = c
  <1>1. inbox[c] \in Seq(Nat) /\ Len(inbox[c]) \in Nat
    BY DEF OrderInv, OrderTypeOK
  <1>2. CASE pc = "read_body" /\ cur = c
    <2>1. frame \in 1..Len(frames) /\ frames[frame].from = c /\ frame \in Nat
      BY <1>2 DEF OrderInv, FrameInHand, OrderTypeOK
    <2> DEFINE t == <<frame>> \o inbox[c]
    <2>2. /\ t \in Seq(Nat) /\ Len(t) = Len(inbox[c]) + 1 /\ t[1] = frame
          /\ \A i \in 1..Len(inbox[c]) : t[i + 1] = inbox[c][i]
      BY <1>1, <2>1, ConsProperties
    <2>3. Chunks(c) = t
      BY <1>2 DEF Chunks
    <2> HIDE DEF t
    <2>4. ASSUME NEW k \in 1..Len(t)
          PROVE  t[k] \in 1..Len(frames) /\ frames[t[k]].from = c
      <3>1. CASE k = 1
        BY <2>1, <2>2, <3>1
      <3>2. CASE k # 1
        <4>1. k - 1 \in 1..Len(inbox[c]) /\ (k - 1) + 1 = k
          BY <1>1, <2>2, <3>2
        <4>2. t[k] = inbox[c][k - 1]
          BY <2>2, <4>1
        <4>3. inbox[c][k - 1] \in 1..Len(frames) /\ frames[inbox[c][k - 1]].from = c
          BY <4>1 DEF OrderInv, SentByPeer
        <4> QED
          BY <4>2, <4>3
      <3> QED
        BY <3>1, <3>2
    <2> QED
      BY <2>2, <2>3, <2>4
  <1>3. CASE ~(pc = "read_body" /\ cur = c)
    BY <1>1, <1>3 DEF Chunks, OrderInv, SentByPeer
  <1> QED
    BY <1>2, <1>3

\* The current peer is in sync while the server reads and answers its frames.
LEMMA CurrentInSync ==
  ASSUME ConnectionInv, pc \in Serving \ {"clear_fd"}
  PROVE  cur \in Clients /\ InSync(cur)
  <1>1. cur \in Clients
    BY DEF ConnectionInv, ConnectionTypeOK, FdPublished
  <1>2. link[cur] \in {"serving", "shut"}
    BY <1>1 DEF ConnectionInv, QueueWaits
  <1> QED
    BY <1>1, <1>2 DEF InSync, Serving

\* The parts of the invariant that speak of chunks.
InFlight == SentByPeer /\ WholeFrames /\ AckedIsPast /\ FrameInHand /\ AckedInOrder

\* A step that reads no frame and sends none, and brings no peer back into sync.
LEMMA QuietStep ==
  ASSUME OrderInv, UNCHANGED <<frames, inbox, half, frame, acked>>,
         \A c \in Clients : InSync(c)' => InSync(c) /\ Chunks(c)' = Chunks(c),
         \/ pc' = pc /\ cur' = cur
         \/ pc' \notin {"read_body", "send", "record", "fire"}
         \/ pc = "record" /\ pc' = "fire" /\ cur' = cur
  PROVE  InFlight'
  <1> USE DEF OrderInv
  <1>1. SentByPeer' /\ AckedInOrder'
    BY DEF SentByPeer, AckedInOrder
  <1>2. WholeFrames'
    BY DEF WholeFrames
  <1>3. AckedIsPast'
    <2> SUFFICES ASSUME NEW i \in 1..Len(acked), InSync(frames[acked[i]].from)'
                 PROVE  After(acked[i], frames[acked[i]].from)'
      BY DEF AckedIsPast
    <2> DEFINE c == frames[acked[i]].from
    <2>1. c \in Clients
      <3>1. acked[i] \in 1..Len(frames)
        BY DEF AckedIsPast
      <3> QED
        BY <3>1, FrameFields
    <2>2. After(acked[i], c) /\ Chunks(c)' = Chunks(c)
      BY <2>1 DEF AckedIsPast
    <2> QED
      BY <2>2 DEF After
  <1>4. FrameInHand'
    BY DEF FrameInHand, After, Chunks
  <1> QED
    BY <1>1, <1>2, <1>3, <1>4 DEF InFlight

\* The steps that read no frame: of the server, of stop() and of the peers.
LEMMA OrderInvQuiet ==
  ASSUME ConnectionInv, OrderInv,
         \/ Check \/ Poll \/ Polled \/ PollFails \/ Accept \/ AcceptFails \/ PublishConnection
         \/ WithdrawConnection \/ CloseConnection \/ Return \/ LoopTop \/ ReadEnds
         \/ SendFails \/ RecordWakeRecv \/ Fire
         \/ BufferDrains \/ Stop \/ UNCHANGED vars
         \/ \E c \in Clients : Connect(c) \/ ReadAck(c) \/ Disconnect(c)
  PROVE  OrderInv'
  <1> USE DEF Go
  <1> DEFINE Moves ==
         \/ Check \/ Poll \/ Polled \/ PollFails \/ Accept \/ AcceptFails \/ PublishConnection
         \/ WithdrawConnection \/ CloseConnection \/ Return \/ LoopTop \/ ReadEnds
         \/ SendFails \/ RecordWakeRecv \/ Fire
  <1>1. UNCHANGED <<frames, inbox, half, frame, acked>>
    BY DEF Check, Poll, Polled, PollFails, Accept, AcceptFails, PublishConnection, WithdrawConnection,
           CloseConnection, Return, LoopTop, ReadEnds, SendFails, RecordWakeRecv, Fire,
           BufferDrains, Stop, StopFromHandler, StopStoresFlag, StopWritesPipe, StopLoadsFd,
           StopShutsDown, Connect, ReadAck, Disconnect, vars, serverRest, stopRest, peerRest,
           peerVars, statVars
  <1>2. CASE Moves
    <2>1. /\ pc' \notin {"read_body", "send", "record"}
          /\ pc' = "fire" => pc = "record" /\ cur' = cur
          /\ pc = "read_body" => pc' = "clear_fd" /\ cur' = cur
          /\ pc = "clear_fd" => pc' = "close" /\ cur' = cur
      BY <1>2 DEF Check, Poll, Polled, PollFails, Accept, AcceptFails, PublishConnection,
                  WithdrawConnection, CloseConnection, Return, LoopTop, ReadEnds, SendFails,
                  RecordWakeRecv, Fire
    <2>2. ASSUME NEW c \in Clients, InSync(c)' PROVE InSync(c)
      <3>1. CASE Accept
        <4>1. link[Head(backlog)] = "pending" /\ pc = "accept"
          <5>1. backlog \in Seq(Clients) /\ backlog # << >> /\ pc = "accept"
            BY <3>1 DEF Accept, ConnectionInv, ConnectionTypeOK, QueueWaits
          <5>2. Head(backlog) = backlog[1] /\ 1 \in 1..Len(backlog)
            BY <5>1
          <5> QED
            BY <5>1, <5>2 DEF ConnectionInv, QueueWaits
        <4> QED
          BY <2>2, <3>1, <4>1 DEF Accept, InSync, ConnectionInv, ConnectionTypeOK
      <3>2. CASE CloseConnection
        BY <2>2, <3>2 DEF CloseConnection, InSync, ConnectionInv, ConnectionTypeOK
      <3>3. CASE ~Accept /\ ~CloseConnection
        <4>1. UNCHANGED <<link, cur>> /\ pc # "close"
          BY <1>2, <3>3 DEF Check, Poll, Polled, PollFails, AcceptFails, PublishConnection,
                WithdrawConnection, Return, LoopTop, ReadEnds, SendFails, RecordWakeRecv, Fire
        <4> QED
          BY <2>1, <2>2, <4>1 DEF InSync
      <3> QED
        BY <3>1, <3>2, <3>3
    <2>3. ASSUME NEW c \in Clients, InSync(c)' PROVE Chunks(c)' = Chunks(c)
      BY <1>1, <2>1, <2>3 DEF InSync, Chunks
    <2>4. InFlight'
      <3>1. \A c \in Clients : InSync(c)' => InSync(c) /\ Chunks(c)' = Chunks(c)
        BY <2>2, <2>3
      <3>2. \/ pc' = pc /\ cur' = cur
            \/ pc' \notin {"read_body", "send", "record", "fire"}
            \/ pc = "record" /\ pc' = "fire" /\ cur' = cur
        BY <2>1
      <3> QED
        BY <1>1, <3>1, <3>2, QuietStep, Zenon
    <2>5. OrderTypeOK' /\ FiredInStep'
      <3>1. CASE RecordWakeRecv
        <4>1. recorded' = Append(recorded, frame) /\ UNCHANGED fired /\ pc = "record" /\ pc' = "fire"
          BY <3>1 DEF RecordWakeRecv
        <4> QED
          BY <1>1, <4>1 DEF OrderInv, OrderTypeOK, FiredInStep
      <3>2. CASE Fire
        <4>1. fired' = Append(fired, frame) /\ UNCHANGED recorded /\ pc = "fire" /\ pc' = "loop"
          BY <3>2 DEF Fire
        <4> QED
          BY <1>1, <4>1 DEF OrderInv, OrderTypeOK, FiredInStep
      <3>3. CASE ~RecordWakeRecv /\ ~Fire
        <4>1. UNCHANGED <<recorded, fired>> /\ pc \notin {"record", "fire"}
              /\ pc' \notin {"record", "fire"}
          BY <1>2, <3>3 DEF Check, Poll, Polled, PollFails, Accept, AcceptFails, PublishConnection,
                  WithdrawConnection, CloseConnection, Return, LoopTop, ReadEnds, SendFails,
                  statVars
        <4> QED
          BY <1>1, <4>1 DEF OrderInv, OrderTypeOK, FiredInStep
      <3> QED
        BY <3>1, <3>2, <3>3
    <2> QED
      BY <2>4, <2>5 DEF OrderInv, InFlight
  <1>3. CASE ~Moves
    <2>1. UNCHANGED <<pc, cur, recorded, fired>>
      BY <1>3 DEF BufferDrains, Stop, StopFromHandler, StopStoresFlag, StopWritesPipe,
           StopLoadsFd, StopShutsDown, Connect, ReadAck, Disconnect, vars, stopRest, peerRest,
           statVars
    <2>2. ASSUME NEW c \in Clients, link[c] = "closed" PROVE link'[c] = "closed"
      <3>1. CASE Stop
        BY <2>2, <3>1, StopShutsItsOwn DEF ConnectionInv, ConnectionTypeOK, QueueWaits
      <3>2. CASE BufferDrains \/ UNCHANGED vars \/ \E d \in Clients : ReadAck(d) \/ Disconnect(d)
        BY <2>2, <3>2 DEF BufferDrains, vars, ReadAck, Disconnect
      <3>3. CASE \E d \in Clients : Connect(d)
        BY <2>2, <3>3 DEF Connect, ConnectionInv, ConnectionTypeOK
      <3> QED
        BY <1>3, <3>1, <3>2, <3>3
    <2>3. ASSUME NEW c \in Clients, InSync(c)' PROVE InSync(c) /\ Chunks(c)' = Chunks(c)
      BY <1>1, <2>1, <2>2, <2>3 DEF InSync, Chunks
    <2>4. InFlight'
      <3>1. \A c \in Clients : InSync(c)' => InSync(c) /\ Chunks(c)' = Chunks(c)
        BY <2>3
      <3>2. pc' = pc /\ cur' = cur
        BY <2>1
      <3> QED
        BY <1>1, <3>1, <3>2, QuietStep, Zenon
    <2>5. OrderTypeOK' /\ FiredInStep'
      BY <1>1, <2>1 DEF OrderInv, OrderTypeOK, FiredInStep
    <2> QED
      BY <2>4, <2>5 DEF OrderInv, InFlight
  <1> QED
    BY <1>2, <1>3

\* A step that takes a chunk from the current peer, and leaves whole frames, no
\* nearer to what was acked.
LEMMA ReadStep ==
  ASSUME OrderInv, cur \in Clients, UNCHANGED <<frames, half, acked, cur, link>>,
         inbox[cur] # << >>, inbox' = [inbox EXCEPT ![cur] = Tail(@)],
         pc \in {"read_prefix", "read_body"},
         InSync(cur)' =>
            /\ Framed(frames, Chunks(cur)', half[cur])
            /\ \A n \in Nat : After(n, cur) => After(n, cur)'
  PROVE  /\ SentByPeer' /\ WholeFrames' /\ AckedIsPast' /\ AckedInOrder'
         /\ inbox' \in [Clients -> Seq(Nat)]
  <1> USE DEF OrderInv
  <1>1. /\ inbox[cur] \in Seq(Nat) /\ Tail(inbox[cur]) \in Seq(Nat)
        /\ \A i \in 1..Len(Tail(inbox[cur])) :
              Tail(inbox[cur])[i] = inbox[cur][i + 1] /\ i + 1 \in 1..Len(inbox[cur])
    BY ConsHeadTail DEF OrderTypeOK
  <1>2. inbox' \in [Clients -> Seq(Nat)] /\ inbox'[cur] = Tail(inbox[cur])
    BY <1>1 DEF OrderTypeOK
  <1>3. ASSUME NEW c \in Clients \ {cur}
        PROVE  inbox'[c] = inbox[c] /\ Chunks(c)' = Chunks(c) /\ (InSync(c)' => InSync(c))
    BY <1>3 DEF Chunks, InSync, OrderTypeOK
  <1>4. SentByPeer'
    <2> SUFFICES ASSUME NEW c \in Clients
                 PROVE  \A i \in 1..Len(inbox'[c]) :
                          inbox'[c][i] \in 1..Len(frames) /\ frames[inbox'[c][i]].from = c
      BY DEF SentByPeer
    <2>1. CASE c = cur
      <3> SUFFICES ASSUME NEW i \in 1..Len(inbox'[cur])
                   PROVE  inbox'[cur][i] \in 1..Len(frames) /\ frames[inbox'[cur][i]].from = cur
        BY <2>1
      <3>1. inbox'[cur][i] = inbox[cur][i + 1] /\ i + 1 \in 1..Len(inbox[cur])
        BY <1>1, <1>2
      <3> QED
        BY <3>1 DEF SentByPeer
    <2>2. CASE c # cur
      BY <1>3, <2>2 DEF SentByPeer
    <2> QED
      BY <2>1, <2>2
  <1>5. InSync(cur)' => InSync(cur)
    BY DEF InSync
  <1>6. WholeFrames'
    <2> SUFFICES ASSUME NEW c \in Clients, InSync(c)'
                 PROVE  Framed(frames, Chunks(c)', half[c])
      BY DEF WholeFrames
    <2>1. CASE c = cur
      BY <2>1
    <2>2. CASE c # cur
      BY <1>3, <2>2 DEF WholeFrames
    <2> QED
      BY <2>1, <2>2
  <1>7. AckedIsPast'
    <2> SUFFICES ASSUME NEW i \in 1..Len(acked), InSync(frames[acked[i]].from)'
                 PROVE  After(acked[i], frames[acked[i]].from)'
      BY DEF AckedIsPast
    <2> DEFINE c == frames[acked[i]].from
    <2>1. c \in Clients /\ acked[i] \in Nat
      <3>1. acked[i] \in 1..Len(frames)
        BY DEF AckedIsPast
      <3> QED
        BY <3>1, FrameFields
    <2>2. CASE c = cur
      BY <1>5, <2>1, <2>2 DEF AckedIsPast
    <2>3. CASE c # cur
      <3>1. After(acked[i], c) /\ Chunks(c)' = Chunks(c)
        BY <1>3, <2>1, <2>3 DEF AckedIsPast
      <3> QED
        BY <3>1 DEF After
    <2> QED
      BY <2>2, <2>3
  <1>8. AckedInOrder'
    BY DEF AckedInOrder
  <1> QED
    BY <1>2, <1>4, <1>6, <1>7, <1>8

\* A prefix is read: a frame that is too long ends the connection, an empty one is
\* whole, and of any other the body is next.
LEMMA OrderInvReadPrefix ==
  ASSUME ConnectionInv, OrderInv, ReadPrefix
  PROVE  OrderInv'
  <1> DEFINE s == inbox[cur]
  <1>1. pc = "read_prefix" /\ s # << >> /\ inbox' = [inbox EXCEPT ![cur] = Tail(@)]
        /\ frame' = Head(s) /\ UNCHANGED <<cur, link, frames, half, acked, recorded, fired>>
    BY DEF ReadPrefix, CountFrame, serverRest, peerVars, statVars
  <1>2. cur \in Clients /\ InSync(cur)
    BY <1>1, CurrentInSync DEF Serving
  <1>3. /\ s \in Seq(Nat) /\ Head(s) = s[1] /\ Head(s) \in Nat /\ Len(s) \in Nat /\ Len(s) >= 1
        /\ Tail(s) \in Seq(Nat) /\ Len(Tail(s)) = Len(s) - 1
        /\ \A i \in 1..Len(Tail(s)) : Tail(s)[i] = s[i + 1] /\ i + 1 \in 1..Len(s)
        /\ <<Head(s)>> \o Tail(s) = s
    <2>1. s \in Seq(Nat)
      BY <1>2 DEF OrderInv, OrderTypeOK
    <2> QED
      BY <1>1, <2>1, ConsHeadTail
  <1>4. /\ frame' \in 1..Len(frames) /\ frames[frame'].from = cur /\ frame' \in Nat
    <2>1. 1 \in 1..Len(inbox[cur]) /\ frame' = inbox[cur][1]
      BY <1>1, <1>3
    <2>2. inbox[cur][1] \in 1..Len(frames) /\ frames[inbox[cur][1]].from = cur
      BY <1>2, <2>1 DEF OrderInv, SentByPeer
    <2> QED
      BY <2>1, <2>2
  <1>5. Chunks(cur) = s /\ Framed(frames, s, half[cur]) /\ half[cur] \in Nat
    BY <1>1, <1>2 DEF Chunks, OrderInv, WholeFrames, OrderTypeOK
  <1>6. inbox'[cur] = Tail(s)
    BY <1>1, <1>2 DEF OrderInv, OrderTypeOK
  <1>7. FiredInStep' /\ frame' \in Nat
    <2>1. pc' \in {"clear_fd", "send", "read_body"}
      BY DEF ReadPrefix, CountFrame, Go
    <2> QED
      BY <1>1, <1>4, <2>1 DEF OrderInv, FiredInStep
  <1> HIDE DEF s
  <1>8. CASE pc' = "clear_fd"
    <2>1. ~InSync(cur)'
      BY <1>1, <1>8 DEF InSync
    <2>2. /\ SentByPeer' /\ WholeFrames' /\ AckedIsPast' /\ AckedInOrder'
          /\ inbox' \in [Clients -> Seq(Nat)]
      BY <1>1, <1>2, <2>1, ReadStep DEF s
    <2>3. FrameInHand'
      BY <1>8 DEF FrameInHand
    <2> QED
      BY <1>1, <1>7, <2>2, <2>3 DEF OrderInv, OrderTypeOK
  <1>9. CASE pc' = "send" /\ frames[frame'].kind = "empty"
    <2>1. Chunks(cur)' = Tail(s)
      BY <1>1, <1>6, <1>9 DEF Chunks
    <2>2. /\ Framed(frames, Tail(s), half[cur])
          /\ \A k \in 1..Len(Tail(s)) : s[1] < Tail(s)[k]
          /\ half[cur] # 0 => s[1] < half[cur]
      <3>1. FrameLength(frames, s) = 1
        BY <1>1, <1>3, <1>9 DEF FrameLength
      <3> DEFINE u == Tail(s)
      <3>2. u \in Seq(Nat) /\ FrameRead(frames, s, u)
        BY <1>3, <3>1 DEF FrameRead
      <3> HIDE DEF u
      <3>3. /\ Framed(frames, u, half[cur])
            /\ \A k \in 1..Len(u) : s[1] < u[k]
            /\ half[cur] # 0 => s[1] < half[cur]
        BY <1>3, <1>5, <3>2, FramedDrop, SMTT(30)
      <3> QED
        BY <3>3 DEF u
    <2>3. ASSUME NEW n \in Nat, After(n, cur) PROVE After(n, cur)'
      BY <1>1, <1>3, <1>5, <2>1, <2>3 DEF After
    <2>4. /\ SentByPeer' /\ WholeFrames' /\ AckedIsPast' /\ AckedInOrder'
          /\ inbox' \in [Clients -> Seq(Nat)]
      BY <1>1, <1>2, <2>1, <2>2, <2>3, ReadStep DEF s
    <2>5. After(frame, cur)'
      BY <1>1, <1>3, <2>1, <2>2 DEF After
    <2>6. ASSUME NEW i \in 1..Len(acked), frames[acked[i]].from = cur
          PROVE  acked[i] < frame'
      <3>1. 1 \in 1..Len(s) /\ frame' = s[1]
        BY <1>1, <1>3
      <3>2. After(acked[i], cur)
        BY <1>2, <2>6 DEF OrderInv, AckedIsPast
      <3> QED
        BY <1>5, <3>1, <3>2 DEF After
    <2>7. FrameInHand'
      BY <1>1, <1>4, <1>9, <2>5, <2>6 DEF FrameInHand
    <2> QED
      BY <1>1, <1>7, <2>4, <2>7 DEF OrderInv, OrderTypeOK
  <1>10. CASE pc' = "read_body" /\ frames[frame'].kind # "empty"
    <2>1. Chunks(cur)' = s
      BY <1>1, <1>3, <1>6, <1>10 DEF Chunks
    <2>2. \A n \in Nat : After(n, cur) => After(n, cur)'
      BY <1>1, <1>5, <2>1 DEF After
    <2>3. /\ SentByPeer' /\ WholeFrames' /\ AckedIsPast' /\ AckedInOrder'
          /\ inbox' \in [Clients -> Seq(Nat)]
      BY <1>1, <1>2, <1>5, <2>1, <2>2, ReadStep DEF s
    <2>4. FrameInHand'
      BY <1>1, <1>4, <1>10 DEF FrameInHand
    <2> QED
      BY <1>1, <1>7, <2>3, <2>4 DEF OrderInv, OrderTypeOK
  <1> QED
    BY <1>8, <1>9, <1>10 DEF ReadPrefix, CountFrame, Go

\* A body is read: it is that of the frame in hand, which is whole with it.
LEMMA OrderInvReadBody ==
  ASSUME ConnectionInv, OrderInv, ReadBody
  PROVE  OrderInv'
  <1> DEFINE s == inbox[cur]
  <1>1. pc = "read_body" /\ s # << >> /\ inbox' = [inbox EXCEPT ![cur] = Tail(@)] /\ pc' = "send"
        /\ UNCHANGED <<cur, link, frames, half, frame, acked, recorded, fired>>
    BY DEF ReadBody, CountFrame, Go, serverRest, peerVars, statVars
  <1>2. cur \in Clients /\ InSync(cur)
    BY <1>1, CurrentInSync DEF Serving
  <1>3. /\ s \in Seq(Nat) /\ Len(s) \in Nat /\ Len(s) >= 1
        /\ Tail(s) \in Seq(Nat) /\ Len(Tail(s)) = Len(s) - 1
        /\ \A i \in 1..Len(Tail(s)) : Tail(s)[i] = s[i + 1] /\ i + 1 \in 1..Len(s)
    <2>1. s \in Seq(Nat)
      BY <1>2 DEF OrderInv, OrderTypeOK
    <2> QED
      BY <1>1, <2>1, ConsHeadTail
  <1>4. /\ frame \in 1..Len(frames) /\ frames[frame].from = cur /\ frame \in Nat
        /\ frames[frame].kind # "empty"
    BY <1>1 DEF OrderInv, FrameInHand, OrderTypeOK
  <1> DEFINE t == <<frame>> \o s
  <1>5. Chunks(cur) = t /\ Framed(frames, t, half[cur]) /\ half[cur] \in Nat
    BY <1>1, <1>2 DEF Chunks, OrderInv, WholeFrames, OrderTypeOK
  <1>6. /\ t \in Seq(Nat) /\ Len(t) = Len(s) + 1 /\ t[1] = frame
        /\ \A i \in 1..Len(s) : t[i + 1] = s[i]
    BY <1>3, <1>4, ConsProperties
  <1>7. inbox'[cur] = Tail(s)
    BY <1>1, <1>2 DEF OrderInv, OrderTypeOK
  <1>8. FiredInStep'
    BY <1>1 DEF OrderInv, FiredInStep
  <1> HIDE DEF s, t
  <1>9. Chunks(cur)' = Tail(s)
    BY <1>1, <1>7 DEF Chunks
  <1>10. /\ Framed(frames, Tail(s), half[cur])
         /\ \A k \in 1..Len(Tail(s)) : t[1] < Tail(s)[k]
         /\ half[cur] # 0 => t[1] < half[cur]
    <2>1. ASSUME NEW i \in 1..Len(Tail(s)) PROVE Tail(s)[i] = t[i + 2]
      <3>1. i + 1 \in 1..Len(s) /\ (i + 1) + 1 = i + 2 /\ Tail(s)[i] = s[i + 1]
        BY <1>3
      <3> QED
        BY <1>6, <3>1
    <2>2. FrameLength(frames, t) = 2
      BY <1>4, <1>6 DEF FrameLength
    <2> DEFINE u == Tail(s)
    <2>3. u \in Seq(Nat) /\ FrameRead(frames, t, u)
      BY <1>3, <1>6, <2>1, <2>2 DEF FrameRead
    <2> HIDE DEF u
    <2>4. /\ Framed(frames, u, half[cur])
          /\ \A k \in 1..Len(u) : t[1] < u[k]
          /\ half[cur] # 0 => t[1] < half[cur]
      BY <1>5, <1>6, <2>3, FramedDrop
    <2> QED
      BY <2>4 DEF u
  <1>11. ASSUME NEW n \in Nat, After(n, cur) PROVE After(n, cur)'
    <2>1. 1 \in 1..Len(t) /\ n < t[1]
      BY <1>3, <1>5, <1>6, <1>11 DEF After
    <2>2. \A k \in 1..Len(Tail(s)) : Tail(s)[k] \in Nat
      BY <1>3
    <2> QED
      BY <1>1, <1>4, <1>6, <1>9, <1>10, <1>11, <2>1, <2>2, SMTT(30) DEF After
  <1>12. /\ SentByPeer' /\ WholeFrames' /\ AckedIsPast' /\ AckedInOrder'
         /\ inbox' \in [Clients -> Seq(Nat)]
    BY <1>1, <1>2, <1>9, <1>10, <1>11, ReadStep DEF s
  <1>13. After(frame, cur)'
    BY <1>1, <1>6, <1>9, <1>10 DEF After
  <1>14. ASSUME NEW i \in 1..Len(acked), frames[acked[i]].from = cur
         PROVE  acked[i] < frame
    <2>1. 1 \in 1..Len(t)
      BY <1>3, <1>6
    <2> QED
      BY <1>2, <1>5, <1>6, <1>14, <2>1 DEF OrderInv, AckedIsPast, After
  <1>15. FrameInHand'
    BY <1>1, <1>4, <1>13, <1>14 DEF FrameInHand
  <1> QED
    BY <1>1, <1>8, <1>12, <1>15 DEF OrderInv, OrderTypeOK

\* A chunk of an ack is sent; with the last one of a wake's, the wake is acked.
LEMMA OrderInvSendAck ==
  ASSUME ConnectionInv, OrderInv, SendAck
  PROVE  OrderInv'
  <1>1. /\ pc = "send" /\ UNCHANGED <<cur, link, frames, inbox, half, frame, recorded, fired>>
        /\ \/ pc' = "send" /\ acked' = acked
           \/ pc' = "loop" /\ acked' = acked
           \/ pc' = "record" /\ acked' = Append(acked, frame)
    BY DEF SendAck, Go, serverRest, peerVars
  <1>2. cur \in Clients /\ InSync(cur)
    BY <1>1, CurrentInSync DEF Serving
  <1>3. ASSUME NEW c \in Clients
        PROVE  (InSync(c)' => InSync(c)) /\ Chunks(c)' = Chunks(c)
    BY <1>1 DEF InSync, Chunks
  <1>4. CASE acked' = acked
    <2>1. pc' \in {"send", "loop"}
      <3>1. Len(Append(acked, frame)) = Len(acked) + 1 /\ Len(acked) \in Nat
        BY DEF OrderInv, OrderTypeOK
      <3> QED
        BY <1>1, <1>4, <3>1
    <2>2. InFlight'
      <3>1. \/ pc' = pc /\ cur' = cur
            \/ pc' \notin {"read_body", "send", "record", "fire"}
            \/ pc = "record" /\ pc' = "fire" /\ cur' = cur
        BY <1>1, <2>1
      <3>2. \A c \in Clients : InSync(c)' => InSync(c) /\ Chunks(c)' = Chunks(c)
        BY <1>3
      <3> QED
        BY <1>1, <1>4, <3>1, <3>2, QuietStep, Zenon
    <2>3. OrderTypeOK' /\ FiredInStep'
      BY <1>1, <1>4, <2>1 DEF OrderInv, OrderTypeOK, FiredInStep
    <2> QED
      BY <2>2, <2>3 DEF OrderInv, InFlight
  <1>5. CASE pc' = "record" /\ acked' = Append(acked, frame)
    <2>1. /\ frame \in 1..Len(frames) /\ frames[frame].from = cur /\ frame \in Nat
          /\ After(frame, cur)
          /\ \A i \in 1..Len(acked) : frames[acked[i]].from = cur => acked[i] < frame
      BY <1>1 DEF OrderInv, FrameInHand, OrderTypeOK
    <2>2. /\ acked \in Seq(Nat) /\ acked' \in Seq(Nat) /\ Len(acked) \in Nat
          /\ Len(acked') = Len(acked) + 1 /\ acked'[Len(acked) + 1] = frame
          /\ \A i \in 1..Len(acked) : acked'[i] = acked[i]
      BY <1>5, <2>1, AppendProperties DEF OrderInv, OrderTypeOK
    <2>3. \A i \in 1..Len(acked') : i \in 1..Len(acked) \/ i = Len(acked) + 1
      BY <2>2
    <2>4. SentByPeer' /\ WholeFrames'
      BY <1>1, <1>3 DEF OrderInv, SentByPeer, WholeFrames
    <2>5. AckedIsPast'
      <3> SUFFICES ASSUME NEW i \in 1..Len(acked'), NEW m, NEW d, m = acked'[i],
                          d = frames[m].from
                   PROVE  m \in 1..Len(frames) /\ (InSync(d)' => After(m, d)')
        BY <1>1 DEF AckedIsPast, InSync, After, Chunks
      <3>1. CASE i = Len(acked) + 1
        <4>1. m = frame /\ d = cur
          BY <2>1, <2>2, <3>1
        <4> QED
          BY <1>1, <1>2, <1>3, <2>1, <4>1 DEF After
      <3>2. CASE i \in 1..Len(acked)
        <4>1. m = acked[i] /\ m \in 1..Len(frames)
          BY <2>2, <3>2 DEF OrderInv, AckedIsPast
        <4>2. d \in Clients
          BY <4>1, FrameFields
        <4>3. InSync(d) => After(m, d)
          BY <3>2, <4>1 DEF OrderInv, AckedIsPast
        <4> QED
          BY <1>1, <1>3, <4>1, <4>2, <4>3 DEF After
      <3> QED
        BY <2>3, <3>1, <3>2
    <2>6. FrameInHand'
      BY <1>1, <1>5, <2>1 DEF FrameInHand
    <2>7. AckedInOrder'
      <3> SUFFICES ASSUME NEW i \in 1..Len(acked'), NEW j \in 1..Len(acked'), i < j,
                          frames[acked'[i]].from = frames[acked'[j]].from
                   PROVE  acked'[i] < acked'[j]
        BY <1>1 DEF AckedInOrder
      <3>1. i \in 1..Len(acked) /\ acked'[i] = acked[i]
        BY <2>2
      <3>2. CASE j = Len(acked) + 1
        BY <2>1, <2>2, <3>1, <3>2
      <3>3. CASE j \in 1..Len(acked)
        BY <2>2, <3>1, <3>3 DEF OrderInv, AckedInOrder
      <3> QED
        BY <2>3, <3>2, <3>3
    <2>8. OrderTypeOK' /\ FiredInStep'
      BY <1>1, <1>5, <2>2 DEF OrderInv, OrderTypeOK, FiredInStep
    <2> QED
      BY <2>4, <2>5, <2>6, <2>7, <2>8 DEF OrderInv
  <1> QED
    BY <1>1, <1>4, <1>5

\* What a peer changes when it sends chunk n: the frames sent before are the same.
Sends(c, n, h) ==
    /\ UNCHANGED <<pc, cur, frame, link, acked, recorded, fired>>
    /\ frames' \in Seq([from : Clients, kind : Kinds])
    /\ Len(frames') >= Len(frames)
    /\ \A k \in 1..Len(frames) : frames'[k] = frames[k]
    /\ n \in 1..Len(frames') /\ frames'[n].from = c
    /\ inbox' = [inbox EXCEPT ![c] = Append(@, n)]
    /\ half' = [half EXCEPT ![c] = h]

\* A chunk that a peer sends comes after all that was read of the peer, and leaves
\* whole frames.
LEMMA SendStep ==
  ASSUME OrderInv, NEW c \in Clients, NEW n \in Nat \ {0}, NEW h \in {0, n}, Sends(c, n, h),
         InSync(c) => Framed(frames', Append(Chunks(c), n), h),
         \A m \in 1..Len(frames) : After(m, c) => m < n
  PROVE  OrderInv'
  <1>1. /\ UNCHANGED <<pc, cur, frame, link, acked, recorded, fired>>
        /\ frames' \in Seq([from : Clients, kind : Kinds]) /\ frames \in Seq([from : Clients, kind : Kinds])
        /\ Len(frames) \in Nat /\ Len(frames') \in Nat /\ Len(frames') >= Len(frames)
        /\ \A k \in 1..Len(frames) : frames'[k] = frames[k] /\ k \in 1..Len(frames')
        /\ n \in 1..Len(frames') /\ frames'[n].from = c
    BY SMTT(30) DEF Sends, OrderInv, OrderTypeOK
  <1>2. /\ inbox[c] \in Seq(Nat) /\ inbox' \in [Clients -> Seq(Nat)]
        /\ inbox'[c] = Append(inbox[c], n)
        /\ half' \in [Clients -> Nat] /\ half'[c] = h
    BY SMTT(30) DEF Sends, OrderInv, OrderTypeOK
  <1>3. ASSUME NEW d \in Clients \ {c}
        PROVE  inbox'[d] = inbox[d] /\ half'[d] = half[d]
    BY SMTT(30) DEF Sends, OrderInv, OrderTypeOK
  <1>4. ASSUME NEW d \in Clients PROVE InSync(d)' = InSync(d)
    BY <1>1 DEF InSync
  <1>5. ASSUME NEW d \in Clients \ {c} PROVE Chunks(d)' = Chunks(d)
    BY <1>1, <1>3 DEF Chunks
  <1>6. Chunks(c)' = Append(Chunks(c), n)
    <2>1. frame \in Nat /\ n \in Nat
      BY DEF OrderInv, OrderTypeOK
    <2>2. <<frame>> \o Append(inbox[c], n) = Append(<<frame>> \o inbox[c], n)
      BY <1>2, <2>1, ConsAppend
    <2>3. CASE pc = "read_body" /\ cur = c
      BY <1>1, <1>2, <2>2, <2>3, Zenon DEF Chunks
    <2>4. CASE ~(pc = "read_body" /\ cur = c)
      BY <1>1, <1>2, <2>4 DEF Chunks
    <2> QED
      BY <2>3, <2>4
  <1>7. /\ Chunks(c) \in Seq(Nat) /\ Len(Chunks(c)) \in Nat
        /\ Len(Append(Chunks(c), n)) = Len(Chunks(c)) + 1
        /\ Append(Chunks(c), n)[Len(Chunks(c)) + 1] = n
        /\ \A k \in 1..Len(Chunks(c)) : Append(Chunks(c), n)[k] = Chunks(c)[k]
    BY ChunksSent, AppendProperties
  <1>8. OrderTypeOK' /\ FiredInStep'
    BY <1>1, <1>2 DEF OrderInv, OrderTypeOK, FiredInStep
  <1>9. SentByPeer'
    <2> SUFFICES ASSUME NEW d \in Clients
                 PROVE  /\ \A i \in 1..Len(inbox'[d]) :
                              inbox'[d][i] \in 1..Len(frames') /\ frames'[inbox'[d][i]].from = d
                        /\ half'[d] # 0 => half'[d] \in 1..Len(frames') /\ frames'[half'[d]].from = d
      BY DEF SentByPeer
    <2>1. /\ \A i \in 1..Len(inbox[d]) :
                inbox[d][i] \in 1..Len(frames') /\ frames'[inbox[d][i]].from = d
          /\ half[d] # 0 => half[d] \in 1..Len(frames') /\ frames'[half[d]].from = d
      BY <1>1 DEF OrderInv, SentByPeer
    <2>2. CASE d # c
      BY <1>3, <2>1, <2>2
    <2>3. CASE d = c
      <3>1. half'[d] # 0 => half'[d] \in 1..Len(frames') /\ frames'[half'[d]].from = d
        BY <1>1, <1>2, <2>3
      <3>2. ASSUME NEW i \in 1..Len(inbox'[c])
            PROVE  inbox'[c][i] \in 1..Len(frames') /\ frames'[inbox'[c][i]].from = c
        <4>1. /\ Len(inbox[c]) \in Nat
              /\ i \in 1..Len(inbox[c]) => inbox'[c][i] = inbox[c][i]
              /\ i \notin 1..Len(inbox[c]) => inbox'[c][i] = n
          BY <1>2, AppendProperties
        <4> QED
          BY <1>1, <2>1, <2>3, <4>1
      <3> QED
        BY <2>3, <3>1, <3>2
    <2> QED
      BY <2>2, <2>3
  <1>10. WholeFrames'
    <2> SUFFICES ASSUME NEW d \in Clients, InSync(d)
                 PROVE  Framed(frames', Chunks(d)', half'[d])
      BY <1>4 DEF WholeFrames
    <2>1. CASE d = c
      BY <1>2, <1>6, <2>1
    <2>2. CASE d # c
      <3>1. Framed(frames, Chunks(d), half[d])
        BY DEF OrderInv, WholeFrames
      <3>2. \A i \in 1..Len(Chunks(d)) : frames[Chunks(d)[i]].kind = frames'[Chunks(d)[i]].kind
        BY <1>1, ChunksSent
      <3>3. half[d] # 0 => frames[half[d]].kind = frames'[half[d]].kind
        BY <1>1 DEF OrderInv, SentByPeer
      <3>4. Framed(frames', Chunks(d), half[d])
        BY <3>1, <3>2, <3>3, FramedMore
      <3> QED
        BY <1>3, <1>5, <2>2, <3>4
    <2> QED
      BY <2>1, <2>2
  <1>11. ASSUME NEW m \in 1..Len(frames), NEW d \in Clients, After(m, d)
         PROVE  After(m, d)'
    <2>1. CASE d # c
      BY <1>3, <1>5, <1>11, <2>1 DEF After
    <2>2. CASE d = c
      <3>1. m < n
        BY <1>11, <2>2
      <3>2. ASSUME NEW k \in 1..Len(Chunks(c)')
            PROVE  m < Chunks(c)'[k]
        <4>1. CASE k \in 1..Len(Chunks(c))
          BY <1>6, <1>7, <1>11, <2>2, <4>1 DEF After
        <4>2. CASE k = Len(Chunks(c)) + 1
          BY <1>6, <1>7, <3>1, <4>2
        <4> QED
          BY <1>6, <1>7, <4>1, <4>2
      <3> QED
        BY <1>2, <2>2, <3>1, <3>2 DEF After
    <2> QED
      BY <2>1, <2>2
  <1>12. AckedIsPast'
    <2> SUFFICES ASSUME NEW i \in 1..Len(acked), NEW m, NEW d, m = acked[i],
                        d = frames'[m].from
                 PROVE  m \in 1..Len(frames') /\ (InSync(d)' => After(m, d)')
      BY <1>1 DEF AckedIsPast, InSync, After, Chunks
    <2>1. m \in 1..Len(frames) /\ frames'[m] = frames[m] /\ m \in 1..Len(frames')
      BY <1>1 DEF OrderInv, AckedIsPast
    <2>2. d \in Clients
      BY <2>1, FrameFields
    <2>3. InSync(d) => After(m, d)
      BY <2>1 DEF OrderInv, AckedIsPast
    <2> QED
      BY <1>4, <1>11, <2>1, <2>2, <2>3
  <1>13. FrameInHand'
    <2>1. CASE pc \in {"read_body", "send", "record", "fire"}
      <3>1. frame \in 1..Len(frames) /\ frames[frame].from = cur /\ frames'[frame] = frames[frame]
        BY <1>1, <2>1 DEF OrderInv, FrameInHand
      <3>2. cur \in Clients
        BY <3>1, FrameFields
      <3>3. pc = "send" => After(frame, cur)'
        BY <1>1, <1>11, <3>1, <3>2 DEF OrderInv, FrameInHand
      <3>4. ASSUME pc = "send", NEW i \in 1..Len(acked), frames'[acked[i]].from = cur
            PROVE  acked[i] < frame
        <4>1. acked[i] \in 1..Len(frames) /\ frames'[acked[i]] = frames[acked[i]]
          BY <1>1 DEF OrderInv, AckedIsPast
        <4> QED
          BY <3>4, <4>1 DEF OrderInv, FrameInHand
      <3>5. pc = "read_body" => frames'[frame].kind # "empty"
        BY <3>1 DEF OrderInv, FrameInHand
      <3> QED
        BY <1>1, <3>1, <3>3, <3>4, <3>5 DEF FrameInHand, After, Chunks
    <2>2. CASE pc \notin {"read_body", "send", "record", "fire"}
      BY <1>1, <2>2 DEF FrameInHand
    <2> QED
      BY <2>1, <2>2
  <1>14. AckedInOrder'
    <2>1. ASSUME NEW i \in 1..Len(acked)
          PROVE  frames'[acked[i]] = frames[acked[i]]
      BY <1>1 DEF OrderInv, AckedIsPast
    <2> QED
      BY <1>1, <2>1 DEF OrderInv, AckedInOrder
  <1> QED
    BY <1>8, <1>9, <1>10, <1>12, <1>13, <1>14 DEF OrderInv

\* A peer begins its next frame.
LEMMA OrderInvSendPrefix ==
  ASSUME OrderInv, NEW c \in Clients, NEW kind \in Kinds, SendPrefix(c, kind)
  PROVE  OrderInv'
  <1> DEFINE n == Len(frames) + 1
             r == [from |-> c, kind |-> kind]
             h == IF kind = "empty" THEN 0 ELSE n
  <1>1. /\ frames \in Seq([from : Clients, kind : Kinds]) /\ r \in [from : Clients, kind : Kinds]
        /\ Len(frames) \in Nat /\ n \in Nat \ {0} /\ h \in {0, n}
    BY DEF OrderInv, OrderTypeOK
  <1>2. /\ half[c] = 0 /\ frames' = Append(frames, r)
        /\ inbox' = [inbox EXCEPT ![c] = Append(@, Len(frames'))]
        /\ half' = [half EXCEPT ![c] = IF kind = "empty" THEN 0 ELSE Len(frames')]
        /\ UNCHANGED <<pc, cur, frame, link, acked, recorded, fired>>
    BY DEF SendPrefix, peerRest, statVars
  <1>3. /\ frames' \in Seq([from : Clients, kind : Kinds]) /\ Len(frames') = n
        /\ frames'[n] = r /\ \A k \in 1..Len(frames) : frames'[k] = frames[k]
    BY <1>1, <1>2, AppendProperties
  <1>4. Sends(c, n, h)
    BY <1>1, <1>2, <1>3 DEF Sends
  <1>5. /\ Chunks(c) \in Seq(Nat)
        /\ \A k \in 1..Len(Chunks(c)) :
              /\ 0 < Chunks(c)[k] /\ Chunks(c)[k] < n
              /\ frames[Chunks(c)[k]].kind = frames'[Chunks(c)[k]].kind
    BY <1>1, <1>3, ChunksSent
  <1>6. frames'[n].kind = kind
    BY <1>3
  <1> HIDE DEF n, r
  <1>7. ASSUME InSync(c) PROVE Framed(frames', Append(Chunks(c), n), h)
    <2>1. Framed(frames, Chunks(c), 0)
      BY <1>2, <1>7 DEF OrderInv, WholeFrames
    <2>2. Framed(frames', Chunks(c), 0)
      BY <1>5, <2>1, FramedMore
    <2>3. Framed(frames', Append(Chunks(c), n), IF frames'[n].kind = "empty" THEN 0 ELSE n)
      BY <1>1, <1>5, <2>2, FramedSendPrefix
    <2> QED
      BY <1>6, <2>3
  <1>8. \A m \in 1..Len(frames) : m < n
    BY <1>1 DEF n
  <1> HIDE DEF h
  <1> QED
    BY <1>1, <1>4, <1>7, <1>8, SendStep

\* A peer ends the frame it has begun.
LEMMA OrderInvSendBody ==
  ASSUME OrderInv, NEW c \in Clients, SendBody(c)
  PROVE  OrderInv'
  <1> DEFINE n == half[c]
  <1>1. /\ n \in Nat \ {0}
        /\ inbox' = [inbox EXCEPT ![c] = Append(@, n)] /\ half' = [half EXCEPT ![c] = 0]
        /\ UNCHANGED <<pc, cur, frame, link, acked, recorded, fired, frames>>
    BY DEF SendBody, peerRest, statVars, OrderInv, OrderTypeOK
  <1>2. n \in 1..Len(frames) /\ frames[n].from = c
    BY <1>1 DEF OrderInv, SentByPeer
  <1>3. Sends(c, n, 0)
    BY <1>1, <1>2 DEF Sends, OrderInv, OrderTypeOK
  <1>4. Chunks(c) \in Seq(Nat)
    BY ChunksSent
  <1>5. InSync(c) => Framed(frames, Chunks(c), n)
    BY DEF OrderInv, WholeFrames
  <1>6. \A m \in 1..Len(frames) : After(m, c) => m < n
    BY <1>1 DEF After
  <1> HIDE DEF n
  <1>7. InSync(c) => Framed(frames', Append(Chunks(c), n), 0)
    BY <1>1, <1>4, <1>5, FramedSendBody
  <1> QED
    BY <1>1, <1>3, <1>6, <1>7, SendStep

\* No frame has been sent to a server that starts.
LEMMA OrderInvInit == Init => OrderInv
  <1> SUFFICES ASSUME Init PROVE OrderInv
    OBVIOUS
  <1>1. ASSUME NEW c \in Clients
        PROVE  inbox[c] = << >> /\ half[c] = 0 /\ Chunks(c) = << >> /\ Len(Chunks(c)) = 0
    BY DEF Init, Chunks
  <1>2. OrderTypeOK
    BY DEF Init, OrderTypeOK
  <1>3. SentByPeer
    BY <1>1 DEF SentByPeer
  <1>4. WholeFrames
    BY <1>1 DEF WholeFrames, Framed
  <1>5. AckedIsPast /\ AckedInOrder
    BY DEF Init, AckedIsPast, AckedInOrder
  <1>6. FrameInHand /\ FiredInStep
    BY DEF Init, FrameInHand, FiredInStep
  <1> QED
    BY <1>2, <1>3, <1>4, <1>5, <1>6 DEF OrderInv

\* Every step keeps the order.
LEMMA OrderInvNext == ConnectionInv /\ OrderInv /\ [Next]_vars => OrderInv'
  <1> SUFFICES ASSUME ConnectionInv, OrderInv, [Next]_vars PROVE OrderInv'
    OBVIOUS
  <1>1. CASE ReadPrefix
    BY <1>1, OrderInvReadPrefix
  <1>2. CASE ReadBody
    BY <1>2, OrderInvReadBody
  <1>3. CASE SendAck
    BY <1>3, OrderInvSendAck
  <1>4. CASE \E c \in Clients : SendBody(c)
    BY <1>4, OrderInvSendBody
  <1>5. CASE \E c \in Clients, kind \in Kinds : SendPrefix(c, kind)
    BY <1>5, OrderInvSendPrefix
  <1>6. CASE \/ Check \/ Poll \/ Polled \/ PollFails \/ Accept \/ AcceptFails \/ PublishConnection
             \/ WithdrawConnection \/ CloseConnection \/ Return \/ LoopTop \/ ReadEnds
             \/ SendFails \/ RecordWakeRecv \/ Fire
             \/ BufferDrains \/ Stop \/ UNCHANGED vars
             \/ \E c \in Clients : Connect(c) \/ ReadAck(c) \/ Disconnect(c)
    BY <1>6, OrderInvQuiet
  <1> QED
    BY <1>1, <1>2, <1>3, <1>4, <1>5, <1>6, Zenon DEF Next, Server, Peer

\* A sequence is a prefix of itself, and of itself with one more.
LEMMA PrefixFacts ==
  ASSUME NEW s \in Seq(Nat), NEW x \in Nat
  PROVE  IsPrefixOf(s, s) /\ IsPrefixOf(s, Append(s, x))
  <1> DEFINE t == Append(s, x)
  <1>1. Len(s) \in Nat /\ t \in Seq(Nat) /\ Len(t) = Len(s) + 1 /\ \A i \in 1..Len(s) : t[i] = s[i]
    BY AppendProperties
  <1> HIDE DEF t
  <1>2. ASSUME NEW u \in Seq(Nat), Len(s) <= Len(u), \A i \in 1..Len(s) : u[i] = s[i]
        PROVE  s = SubSeq(u, 1, Len(s))
    <2>1. /\ SubSeq(u, 1, Len(s)) \in Seq(Nat) /\ Len(SubSeq(u, 1, Len(s))) = Len(s)
          /\ \A i \in 1..Len(s) : SubSeq(u, 1, Len(s))[i] = u[i]
      BY <1>1, <1>2
    <2> DEFINE v == SubSeq(u, 1, Len(s))
    <2> HIDE DEF v
    <2>2. v \in Seq(Nat) /\ Len(v) = Len(s) /\ \A i \in 1..Len(s) : v[i] = s[i]
      BY <1>2, <2>1 DEF v
    <2>3. v = s
      BY <2>2, SeqEqual
    <2> QED
      BY <2>3 DEF v
  <1>3. s = SubSeq(s, 1, Len(s)) /\ s = SubSeq(t, 1, Len(s))
    BY <1>1, <1>2
  <1> QED
    BY <1>1, <1>3 DEF IsPrefixOf, t

\* "Read the body, stamp, decode, ack, then fire", for any number of peers and
\* frames and whenever stop() is called: a wake is recorded and fired once, after
\* its whole ack, in its peer's order, and before the server looks at anything
\* else (serve_connection(), src/executor.cpp).
THEOREM AcksThenFiresOnce == Spec => []AckThenFireOnce
  <1>1. OrderInv => AckThenFireOnce
    <2> SUFFICES ASSUME OrderInv PROVE AckThenFireOnce
      OBVIOUS
    <2>1. acked \in Seq(Nat) /\ recorded \in Seq(Nat) /\ fired \in Seq(Nat) /\ frame \in Nat
      BY DEF OrderInv, OrderTypeOK
    <2>2. IsPrefixOf(recorded, acked) /\ IsPrefixOf(fired, recorded)
      BY <2>1, PrefixFacts DEF OrderInv, FiredInStep
    <2>3. DOMAIN acked = 1..Len(acked)
      BY <2>1
    <2> QED
      BY <2>2, <2>3 DEF AckThenFireOnce, OrderInv, FiredInStep, AckedInOrder
  <1> QED
    BY <1>1, ConnectionInvInit, ConnectionInvNext, OrderInvInit, OrderInvNext, PTL DEF Spec

-----------------------------------------------------------------------------
(* The types, and the room in the sockets.                                 *)

\* What the ack under way and the locals of stop() may be, and that a frame in hand
\* is one that was sent.
LocalsOK ==
    /\ sent \in 0..2 /\ (pc = "send" => sent < 2)
    /\ frame \in 0..Len(frames) /\ Len(frames) <= MaxFrames
    /\ wake_pipe \in BOOLEAN /\ missed \in BOOLEAN
    /\ stop_fd \in Clients \cup {NoClient}

\* The chunks of acks that a peer has not read fit into its socket.
OutboxOK ==
    /\ outbox \in [Clients -> Seq(Nat \X {"head", "rest"})]
    /\ \A c \in Clients : Len(outbox[c]) <= SendRoom

\* A peer that waits is in the listen queue.
WaitsInQueue ==
    \A c \in Clients : link[c] = "pending" => \E i \in 1..Len(backlog) : backlog[i] = c

\* With ConnectionInv and OrderInv, the inductive invariant of the types.
TypesInv == LocalsOK /\ OutboxOK /\ WaitsInQueue

LEMMA TypesInvInit == Init => TypesInv
  <1> SUFFICES ASSUME Init PROVE TypesInv
    OBVIOUS
  <1>1. LocalsOK
    <2>1. sent \in 0..2 /\ (pc = "send" => sent < 2) /\ frame \in 0..Len(frames)
          /\ Len(frames) <= MaxFrames
      BY ServerAssumption DEF Init
    <2>2. wake_pipe \in BOOLEAN /\ missed \in BOOLEAN /\ stop_fd \in Clients \cup {NoClient}
      BY Zenon DEF Init
    <2> QED
      BY <2>1, <2>2, Zenon DEF LocalsOK
  <1>2. OutboxOK
    BY ServerAssumption DEF Init, OutboxOK
  <1>3. WaitsInQueue
    BY DEF Init, WaitsInQueue
  <1> QED
    BY <1>1, <1>2, <1>3 DEF TypesInv

\* A peer that waits keeps its place when the first one is accepted or another one
\* connects.
LEMMA WaitsNext ==
  ASSUME ConnectionInv, WaitsInQueue, Next
  PROVE  WaitsInQueue'
  <1> USE DEF ConnectionInv, ConnectionTypeOK
  <1>1. CASE Accept
    <2>1. /\ backlog \in Seq(Clients) /\ backlog # << >> /\ backlog' = Tail(backlog)
          /\ link' = [link EXCEPT ![Head(backlog)] = "serving"]
      BY <1>1 DEF Accept, QueueWaits
    <2> SUFFICES ASSUME NEW c \in Clients, link'[c] = "pending"
                 PROVE  \E i \in 1..Len(backlog') : backlog'[i] = c
      BY DEF WaitsInQueue
    <2>2. c # Head(backlog) /\ link[c] = "pending"
      BY <2>1
    <2>3. PICK i \in 1..Len(backlog) : backlog[i] = c
      BY <2>2 DEF WaitsInQueue
    <2>4. i # 1
      BY <2>1, <2>2, <2>3
    <2>5. i - 1 \in 1..Len(backlog') /\ backlog'[i - 1] = backlog[i]
      BY <2>1, <2>3, <2>4
    <2> QED
      BY <2>3, <2>5
  <1>2. ASSUME NEW d \in Clients, Connect(d) PROVE WaitsInQueue'
    <2>1. /\ backlog \in Seq(Clients) /\ backlog' = Append(backlog, d)
          /\ link' = [link EXCEPT ![d] = "pending"]
      BY <1>2 DEF Connect
    <2>2. /\ Len(backlog) \in Nat /\ Len(backlog') = Len(backlog) + 1 /\ backlog'[Len(backlog) + 1] = d
          /\ \A i \in 1..Len(backlog) : backlog'[i] = backlog[i]
      BY <2>1
    <2> SUFFICES ASSUME NEW c \in Clients, link'[c] = "pending"
                 PROVE  \E i \in 1..Len(backlog') : backlog'[i] = c
      BY DEF WaitsInQueue
    <2>3. CASE c = d
      BY <2>2, <2>3
    <2>4. CASE c # d
      <3>1. link[c] = "pending"
        BY <2>1, <2>4
      <3>2. PICK i \in 1..Len(backlog) : backlog[i] = c
        BY <3>1 DEF WaitsInQueue
      <3> QED
        BY <2>2, <3>2
    <2> QED
      BY <2>3, <2>4
  <1>3. ASSUME UNCHANGED backlog, \A c \in Clients : link'[c] = "pending" => link[c] = "pending"
        PROVE  WaitsInQueue'
    BY <1>3 DEF WaitsInQueue
  <1>4. CASE Stop
    BY <1>3, <1>4 DEF Stop, StopFromHandler, StopStoresFlag, StopWritesPipe, StopLoadsFd,
                      StopShutsDown, Shut, stopRest
  <1>5. CASE CloseConnection
    BY <1>3, <1>5 DEF CloseConnection
  <1>6. CASE \/ Check \/ Poll \/ Polled \/ PollFails \/ AcceptFails \/ PublishConnection \/ WithdrawConnection
             \/ Return \/ LoopTop \/ ReadEnds \/ ReadPrefix \/ ReadBody \/ SendAck \/ SendFails
             \/ RecordWakeRecv \/ Fire \/ BufferDrains
    <2>1. UNCHANGED <<backlog, link>>
      BY <1>6 DEF Check, Poll, Polled, PollFails, AcceptFails, PublishConnection, WithdrawConnection, Return,
         LoopTop, ReadEnds, ReadPrefix, ReadBody, SendAck, SendFails, RecordWakeRecv, Fire,
         BufferDrains
    <2> QED
      BY <1>3, <2>1
  <1>7. ASSUME NEW c \in Clients,
               \/ SendBody(c) \/ ReadAck(c) \/ Disconnect(c)
               \/ \E kind \in Kinds : SendPrefix(c, kind)
        PROVE  WaitsInQueue'
    <2>1. UNCHANGED <<backlog, link>>
      BY <1>7 DEF SendBody, ReadAck, Disconnect, SendPrefix
    <2> QED
      BY <1>3, <2>1
  <1> QED
    BY <1>1, <1>2, <1>4, <1>5, <1>6, <1>7, Zenon DEF Next, Server, Peer

\* send() adds a chunk while there is room for it, and nothing else does.
LEMMA OutboxNext ==
  ASSUME ConnectionInv, OrderInv, LocalsOK, OutboxOK, Next
  PROVE  OutboxOK'
  <1> DEFINE Chunk == Nat \X {"head", "rest"}
  <1>1. CASE SendAck
    <2> DEFINE x == <<frame, Ack[sent + 1]>>
    <2>1. /\ pc = "send" /\ Len(outbox[cur]) < SendRoom
          /\ outbox' = [outbox EXCEPT ![cur] = Append(outbox[cur], x)]
      BY <1>1 DEF SendAck
    <2>2. cur \in Clients
      BY <2>1 DEF ConnectionInv, ConnectionTypeOK, FdPublished, Serving
    <2>3. x \in Chunk
      <3>1. frame \in Nat
        BY DEF OrderInv, OrderTypeOK
      <3>2. sent = 0 \/ sent = 1
        BY <2>1 DEF LocalsOK
      <3>3. Ack[sent + 1] \in {"head", "rest"}
        BY <3>2 DEF Ack
      <3> QED
        BY <3>1, <3>3
    <2> HIDE DEF x, Chunk
    <2>4. outbox \in [Clients -> Seq(Chunk)] /\ SendRoom \in Nat
      BY ServerAssumption DEF OutboxOK, Chunk
    <2>5. Append(outbox[cur], x) \in Seq(Chunk) /\ Len(Append(outbox[cur], x)) = Len(outbox[cur]) + 1
      BY <2>2, <2>3, <2>4
    <2>6. outbox' \in [Clients -> Seq(Chunk)]
      BY <2>1, <2>2, <2>4, <2>5
    <2>7. ASSUME NEW c \in Clients PROVE Len(outbox'[c]) <= SendRoom
      <3>1. CASE c = cur
        <4>1. Len(outbox[cur]) \in Nat
          BY <2>2, <2>4
        <4>2. outbox'[c] = Append(outbox[cur], x)
          BY <2>1, <2>2, <2>4, <3>1
        <4> QED
          BY <2>1, <2>4, <2>5, <4>1, <4>2
      <3>2. CASE c # cur
        BY <2>1, <2>4, <3>2 DEF OutboxOK
      <3> QED
        BY <3>1, <3>2
    <2> QED
      BY <2>6, <2>7 DEF OutboxOK, Chunk
  <1>2. ASSUME NEW d \in Clients, ReadAck(d) PROVE OutboxOK'
    <2>1. outbox[d] # << >> /\ outbox' = [outbox EXCEPT ![d] = Tail(outbox[d])]
      BY <1>2 DEF ReadAck
    <2> HIDE DEF Chunk
    <2>2. outbox \in [Clients -> Seq(Chunk)] /\ SendRoom \in Nat
      BY ServerAssumption DEF OutboxOK, Chunk
    <2>3. /\ Tail(outbox[d]) \in Seq(Chunk) /\ Len(Tail(outbox[d])) = Len(outbox[d]) - 1
          /\ Len(outbox[d]) \in Nat
      BY <2>1, <2>2
    <2>4. outbox' \in [Clients -> Seq(Chunk)]
      BY <2>1, <2>2, <2>3
    <2>5. ASSUME NEW c \in Clients PROVE Len(outbox'[c]) <= SendRoom
      <3>1. Len(outbox[c]) <= SendRoom /\ Len(outbox[d]) <= SendRoom
        BY DEF OutboxOK
      <3>2. outbox'[c] = IF c = d THEN Tail(outbox[d]) ELSE outbox[c]
        BY <2>1, <2>2
      <3> QED
        BY <2>2, <2>3, <3>1, <3>2
    <2> QED
      BY <2>4, <2>5 DEF OutboxOK, Chunk
  <1>3. CASE UNCHANGED outbox
    BY <1>3 DEF OutboxOK
  <1>4. CASE \/ Check \/ Poll \/ Polled \/ PollFails \/ Accept \/ AcceptFails \/ PublishConnection
             \/ WithdrawConnection \/ CloseConnection \/ Return \/ LoopTop \/ ReadEnds
             \/ ReadPrefix \/ ReadBody \/ SendFails \/ RecordWakeRecv \/ Fire \/ BufferDrains
             \/ Stop
    BY <1>3, <1>4 DEF Check, Poll, Polled, PollFails, Accept, AcceptFails, PublishConnection,
       WithdrawConnection, CloseConnection, Return, LoopTop, ReadEnds, ReadPrefix, ReadBody,
       SendFails, RecordWakeRecv, Fire, BufferDrains, Stop, StopFromHandler, StopStoresFlag,
       StopWritesPipe, StopLoadsFd, StopShutsDown, stopRest
  <1>5. ASSUME NEW c \in Clients,
               \/ Connect(c) \/ SendBody(c) \/ Disconnect(c)
               \/ \E kind \in Kinds : SendPrefix(c, kind)
        PROVE  OutboxOK'
    BY <1>3, <1>5 DEF Connect, SendBody, Disconnect, SendPrefix
  <1> QED
    BY <1>1, <1>2, <1>4, <1>5, Zenon DEF Next, Server, Peer

\* The ack under way, the frame in hand and the locals of stop().
LEMMA LocalsNext ==
  ASSUME ConnectionInv, OrderInv, LocalsOK, Next
  PROVE  LocalsOK'
  <1> DEFINE Sending == sent \in 0..2 /\ (pc = "send" => sent < 2)
             Handling == frame \in 0..Len(frames) /\ Len(frames) <= MaxFrames
             Stopping == /\ wake_pipe \in BOOLEAN /\ missed \in BOOLEAN
                         /\ stop_fd \in Clients \cup {NoClient}
  <1>1. Sending'
    <2>1. sent \in 0..2 /\ (pc = "send" => sent < 2)
      BY DEF LocalsOK
    <2>2. CASE ReadPrefix \/ ReadBody
      BY <2>1, <2>2 DEF ReadPrefix, ReadBody, CountFrame, Go
    <2>3. CASE SendAck
      <3>1. Len(Ack) = 2
        BY DEF Ack
      <3> QED
        BY <2>1, <2>3, <3>1 DEF SendAck, Go
    <2>4. CASE \/ Check \/ Poll \/ Polled \/ PollFails \/ Accept \/ AcceptFails \/ PublishConnection
               \/ WithdrawConnection \/ CloseConnection \/ Return \/ LoopTop \/ ReadEnds
               \/ SendFails \/ RecordWakeRecv \/ Fire \/ BufferDrains \/ Stop \/ Peer
      <3>1. UNCHANGED sent /\ (pc' = "send" => pc = "send")
        BY <2>4 DEF Check, Poll, Polled, PollFails, Accept, AcceptFails, PublishConnection,
           WithdrawConnection, CloseConnection, Return, LoopTop, ReadEnds, SendFails,
           RecordWakeRecv, Fire, BufferDrains, Stop, StopFromHandler, StopStoresFlag,
           StopWritesPipe, StopLoadsFd, StopShutsDown, stopRest, Peer, Connect, SendBody,
           ReadAck, Disconnect, SendPrefix, peerRest, Go
      <3> QED
        BY <2>1, <3>1
    <2> QED
      BY <2>2, <2>3, <2>4, Zenon DEF Next, Server
  <1>2. Handling'
    <2>1. /\ frame \in 0..Len(frames) /\ Len(frames) <= MaxFrames
          /\ frames \in Seq([from : Clients, kind : Kinds]) /\ Len(frames) \in Nat
      BY DEF LocalsOK, OrderInv, OrderTypeOK
    <2>2. CASE ReadPrefix
      <3>1. pc = "read_prefix" /\ inbox[cur] # << >> /\ frame' = Head(inbox[cur]) /\ UNCHANGED frames
        BY <2>2 DEF ReadPrefix, serverRest, peerVars
      <3>2. cur \in Clients
        BY <3>1 DEF ConnectionInv, ConnectionTypeOK, FdPublished, Serving
      <3>3. inbox[cur] \in Seq(Nat)
        BY <3>2 DEF OrderInv, OrderTypeOK
      <3>4. 1 \in 1..Len(inbox[cur]) /\ Head(inbox[cur]) = inbox[cur][1]
        BY <3>1, <3>3
      <3>5. frame' \in 1..Len(frames)
        BY <3>1, <3>2, <3>4 DEF OrderInv, SentByPeer
      <3> QED
        BY <2>1, <3>1, <3>5
    <2>3. ASSUME NEW c \in Clients, NEW kind \in Kinds, SendPrefix(c, kind) PROVE Handling'
      <3>1. /\ UNCHANGED frame /\ Len(frames) < MaxFrames
            /\ frames' = Append(frames, [from |-> c, kind |-> kind])
        BY <2>3 DEF SendPrefix, peerRest
      <3>2. Len(frames') = Len(frames) + 1
        BY <2>1, <3>1
      <3> QED
        BY <2>1, <3>1, <3>2, ServerAssumption
    <2>4. CASE \/ Check \/ Poll \/ Polled \/ PollFails \/ Accept \/ AcceptFails \/ PublishConnection
               \/ WithdrawConnection \/ CloseConnection \/ Return \/ LoopTop \/ ReadEnds
               \/ ReadBody \/ SendAck \/ SendFails \/ RecordWakeRecv \/ Fire \/ BufferDrains \/ Stop
               \/ \E c \in Clients : Connect(c) \/ SendBody(c) \/ ReadAck(c) \/ Disconnect(c)
      <3>1. UNCHANGED <<frame, frames>>
        BY <2>4 DEF Check, Poll, Polled, PollFails, Accept, AcceptFails, PublishConnection,
           WithdrawConnection, CloseConnection, Return, LoopTop, ReadEnds, ReadBody, SendAck,
           SendFails, RecordWakeRecv, Fire, BufferDrains, Stop, StopFromHandler, StopStoresFlag,
           StopWritesPipe, StopLoadsFd, StopShutsDown, stopRest, Connect, SendBody, ReadAck,
           Disconnect, peerRest, serverRest, peerVars
      <3> QED
        BY <2>1, <3>1
    <2> QED
      BY <2>2, <2>3, <2>4, Zenon DEF Next, Server, Peer
  <1>3. Stopping'
    <2>1. wake_pipe \in BOOLEAN /\ missed \in BOOLEAN /\ stop_fd \in Clients \cup {NoClient}
      BY DEF LocalsOK
    <2>2. CASE UNCHANGED <<wake_pipe, missed, stop_fd>>
      BY <2>1, <2>2, Zenon
    <2>3. CASE Stop
      <3>1. wake_pipe' \in BOOLEAN /\ missed' \in BOOLEAN
        BY <2>1, <2>3, Zenon DEF Stop, StopFromHandler, StopStoresFlag, StopWritesPipe,
           StopLoadsFd, StopShutsDown
      <3>2. /\ connection_fd \in Clients \cup {NoClient}
            /\ buffered # << >> => Head(buffered) \in Clients \cup {NoClient}
        BY DEF ConnectionInv, ConnectionTypeOK, FdPublished, Between, Serving
      <3>3. stop_fd' \in {stop_fd, connection_fd} \/ (buffered # << >> /\ stop_fd' = Head(buffered))
        BY <2>3 DEF Stop, StopFromHandler, StopStoresFlag, StopWritesPipe, StopLoadsFd,
           StopShutsDown
      <3> QED
        BY <2>1, <3>1, <3>2, <3>3, Zenon
    <2>4. CASE Server \/ PollFails \/ BufferDrains
      <3>1. UNCHANGED serverRest
        BY <2>4, Zenon DEF Server, BufferDrains, Check, Poll, Polled, PollFails, Accept, AcceptFails,
           PublishConnection, WithdrawConnection, CloseConnection, Return, LoopTop, ReadEnds,
           ReadPrefix, ReadBody, SendAck, SendFails, RecordWakeRecv, Fire, serverRest
      <3> QED
        BY <2>2, <3>1 DEF serverRest, stopVars
    <2>5. CASE Peer
      BY <2>2, <2>5 DEF Peer, Connect, SendBody, ReadAck, Disconnect, SendPrefix, peerRest, stopVars
    <2> QED
      BY <2>3, <2>4, <2>5, Zenon DEF Next
  <1> QED
    BY <1>1, <1>2, <1>3, Zenon DEF LocalsOK

LEMMA TypesInvNext == ConnectionInv /\ OrderInv /\ TypesInv /\ [Next]_vars => TypesInv'
  <1> SUFFICES ASSUME ConnectionInv, OrderInv, TypesInv, [Next]_vars PROVE TypesInv'
    OBVIOUS
  <1>1. CASE Next
    BY <1>1, WaitsNext, OutboxNext, LocalsNext DEF TypesInv
  <1>2. CASE UNCHANGED vars
    <2>1. WaitsInQueue' /\ OutboxOK'
      BY <1>2 DEF vars, TypesInv, OutboxOK, WaitsInQueue
    <2>2. LocalsOK'
      BY <1>2, Zenon DEF vars, stopVars, peerVars, TypesInv, LocalsOK
    <2> QED
      BY <2>1, <2>2 DEF TypesInv
  <1> QED
    BY <1>1, <1>2

\* The server's types, for any number of peers and frames: what a peer leaves unread
\* of its acks fits into its socket, a peer that connected and is not served yet is in
\* the listen queue, and a connection is open exactly while it is the current one
\* (serve_one_connection() and send_frame(), src/executor.cpp).
THEOREM ServerTypeCorrect == Spec => []TypeOK
  <1>1. ConnectionInv /\ OrderInv /\ TypesInv => TypeOK
    <2> SUFFICES ASSUME ConnectionInv, OrderInv, TypesInv PROVE TypeOK
      OBVIOUS
    <2>1. /\ pc \in {"check", "poll", "polled", "accept", "store_fd", "loop",
                     "read_prefix", "read_body", "send", "record", "fire", "clear_fd",
                     "close", "return", "exited", "gave_up"}
          /\ cur \in Clients \cup {NoClient}
          /\ stopper \in {"idle", "write", "load", "shutdown", "done"}
          /\ link \in [Clients -> {"none", "pending", "serving", "shut", "closed"}]
          /\ \A c \in Clients : link[c] \in {"serving", "shut"} <=> cur = c
      BY DEF ConnectionInv, ConnectionTypeOK, QueueWaits, Between, Serving
    <2>2. connection_fd \in Clients \cup {NoClient}
      BY DEF ConnectionInv, ConnectionTypeOK, FdPublished, Between, Serving
    <2>3. Len(buffered) <= 1 /\ Range(buffered) \subseteq Clients \cup {NoClient}
      <3>1. buffered = << >> \/ buffered = <<cur>> \/ buffered = <<NoClient>>
        BY DEF ConnectionInv, ConnectionTypeOK, FdPublished, Between, Serving
      <3>2. CASE buffered = << >>
        <4>1. Len(buffered) = 0 /\ DOMAIN buffered = {}
          BY <3>2
        <4> QED
          BY <4>1 DEF Range
      <3>3. ASSUME NEW x \in Clients \cup {NoClient}, buffered = <<x>>
            PROVE  Len(buffered) <= 1 /\ Range(buffered) \subseteq Clients \cup {NoClient}
        <4>1. Len(buffered) = 1 /\ DOMAIN buffered = {1} /\ buffered[1] = x
          BY <3>3
        <4> QED
          BY <4>1 DEF Range
      <3> QED
        BY <2>1, <3>1, <3>2, <3>3
    <2>4. frame \in 0..Len(frames) /\ sent \in 0..Len(Ack)
      BY DEF TypesInv, LocalsOK, Ack
    <2>5. /\ stopping \in BOOLEAN /\ wake_pipe \in BOOLEAN /\ missed \in BOOLEAN
          /\ stop_fd \in Clients \cup {NoClient}
      BY DEF TypesInv, LocalsOK, ConnectionInv, ConnectionTypeOK
    <2>6. Range(backlog) = {c \in Clients : link[c] = "pending"}
      <3>1. backlog \in Seq(Clients) /\ DOMAIN backlog = 1..Len(backlog)
        BY DEF ConnectionInv, ConnectionTypeOK
      <3>2. ASSUME NEW c \in Range(backlog) PROVE c \in Clients /\ link[c] = "pending"
        BY <3>1, <3>2 DEF Range, ConnectionInv, QueueWaits
      <3>3. ASSUME NEW c \in Clients, link[c] = "pending" PROVE c \in Range(backlog)
        BY <3>1, <3>3 DEF Range, TypesInv, WaitsInQueue
      <3> QED
        BY <3>2, <3>3
    <2>7. \A n \in DOMAIN frames : frames[n].from \in Clients /\ frames[n].kind \in Kinds
      <3> SUFFICES ASSUME NEW n \in DOMAIN frames
                   PROVE  frames[n].from \in Clients /\ frames[n].kind \in Kinds
        OBVIOUS
      <3> DEFINE R == [from : Clients, kind : Kinds]
      <3>1. \A r \in R : r.from \in Clients /\ r.kind \in Kinds
        OBVIOUS
      <3> HIDE DEF R
      <3>2. frames \in Seq(R)
        BY DEF R, OrderInv, OrderTypeOK
      <3>3. frames[n] \in R
        BY <3>2
      <3> QED
        BY <3>1, <3>3
    <2>8. half \in [Clients -> 0..MaxFrames]
      <3>1. half \in [Clients -> Nat] /\ Len(frames) \in Nat /\ Len(frames) <= MaxFrames
            /\ MaxFrames \in Nat
        BY ServerAssumption DEF OrderInv, OrderTypeOK, TypesInv, LocalsOK
      <3>2. ASSUME NEW c \in Clients PROVE half[c] \in 0..MaxFrames
        BY <3>1 DEF OrderInv, SentByPeer
      <3> QED
        BY <3>1, <3>2
    <2>9. \A c \in Clients : Len(outbox[c]) <= SendRoom
      BY DEF TypesInv, OutboxOK
    <2> QED
      BY <2>1, <2>2, <2>3, <2>4, <2>5, <2>6, <2>7, <2>8, <2>9, Zenon DEF TypeOK
  <1> QED
    BY <1>1, ConnectionInvInit, ConnectionInvNext, OrderInvInit, OrderInvNext, TypesInvInit,
       TypesInvNext, PTL DEF Spec

-----------------------------------------------------------------------------
(* The counters.                                                           *)

\* The connections that have ended, and the wakes counted that were not fired.
ClosedPeers == {c \in Clients : link[c] = "closed"}
Unfired == acks_accepted - Len(fired)

\* The ack of a wake is being sent, or the wake is on its way to be fired.
WakeInHand == pc \in {"record", "fire"} \/ (pc = "send" /\ frames[frame].kind = "wake")

\* The inductive invariant of the counters: every connection that has ended may have
\* left one wake unfired, and the current one leaves one when it ends in a send.
CountInv ==
    /\ frames_read \in Nat /\ acks_accepted \in Nat /\ acks_rejected \in Nat
    /\ frames_read = acks_accepted + acks_rejected
    /\ 0 <= Unfired
    /\ WakeInHand => 1 <= Unfired
    /\ IF WakeInHand \/ pc \in {"clear_fd", "close"}
         THEN Unfired <= Cardinality(ClosedPeers) + 1
         ELSE Unfired <= Cardinality(ClosedPeers)

\* Nobody has ended, and nothing is counted.
LEMMA CountInvInit == Init => CountInv
  <1> SUFFICES ASSUME Init PROVE CountInv
    OBVIOUS
  <1>1. ClosedPeers = {}
    BY DEF Init, ClosedPeers
  <1>2. Cardinality(ClosedPeers) = 0
    BY <1>1, FS_EmptySet
  <1>3. Len(fired) = 0 /\ acks_accepted = 0
    BY DEF Init
  <1>4. Unfired = 0
    BY <1>3 DEF Unfired
  <1>5. ~WakeInHand /\ pc = "check"
    BY DEF Init, WakeInHand
  <1> QED
    BY <1>2, <1>4, <1>5 DEF CountInv, Init

\* The ended connections are finitely many.
LEMMA ClosedFinite == IsFiniteSet(ClosedPeers) /\ Cardinality(ClosedPeers) \in Nat
  BY ServerAssumption, FS_Subset, FS_CardinalityType DEF ClosedPeers

\* The current connection is open.
LEMMA CurrentOpen ==
  ASSUME ConnectionInv, cur # NoClient
  PROVE  cur \in Clients /\ link[cur] \in {"serving", "shut"} /\ cur \notin ClosedPeers
  <1>1. cur \in Clients
    BY DEF ConnectionInv, ConnectionTypeOK
  <1>2. link[cur] \in {"serving", "shut"}
    BY <1>1 DEF ConnectionInv, QueueWaits
  <1> QED
    BY <1>1, <1>2 DEF ClosedPeers

\* Only close() ends a connection.
LEMMA ClosedStay ==
  ASSUME ConnectionInv, [Next]_vars, ~CloseConnection
  PROVE  ClosedPeers' = ClosedPeers
  <1> SUFFICES ASSUME NEW c \in Clients PROVE link'[c] = "closed" <=> link[c] = "closed"
    BY DEF ClosedPeers
  <1>1. CASE Accept
    <2>1. backlog \in Seq(Clients) /\ backlog # << >>
      BY <1>1 DEF Accept, ConnectionInv, ConnectionTypeOK, QueueWaits
    <2>2. Head(backlog) = backlog[1] /\ 1 \in 1..Len(backlog)
      BY <2>1
    <2>3. link[Head(backlog)] = "pending"
      BY <2>2 DEF ConnectionInv, QueueWaits
    <2> QED
      BY <1>1, <2>3 DEF Accept, ConnectionInv, ConnectionTypeOK
  <1>2. CASE Stop
    BY <1>2, StopShutsItsOwn DEF ConnectionInv, ConnectionTypeOK, QueueWaits
  <1>3. CASE \E d \in Clients : Connect(d)
    BY <1>3 DEF Connect, ConnectionInv, ConnectionTypeOK
  <1>4. CASE ~Accept /\ ~Stop /\ ~(\E d \in Clients : Connect(d))
    <2>1. UNCHANGED link
      BY <1>4 DEF Next, Server, BufferDrains, Peer, Check, Poll, Polled, PollFails, AcceptFails,
           PublishConnection, WithdrawConnection, Return, LoopTop, ReadEnds, ReadPrefix,
           ReadBody, SendAck, SendFails, RecordWakeRecv, Fire, SendBody, ReadAck, Disconnect,
           SendPrefix, vars
    <2> QED
      BY <2>1
  <1> QED
    BY <1>1, <1>2, <1>3, <1>4

\* A step that neither counts nor fires.
LEMMA CountInvStay ==
  ASSUME CountInv, fired \in Seq(Nat),
         UNCHANGED <<frames_read, acks_accepted, acks_rejected, fired>>,
         ClosedPeers' = ClosedPeers,
         WakeInHand' => WakeInHand,
         WakeInHand \/ pc \in {"clear_fd", "close"} =>
            WakeInHand' \/ pc' \in {"clear_fd", "close"}
  PROVE  CountInv'
  <1>1. Unfired' = Unfired
    BY DEF Unfired
  <1>2. Unfired \in Int /\ Cardinality(ClosedPeers) \in Nat
    BY ClosedFinite DEF CountInv, Unfired
  <1> QED
    BY <1>1, <1>2 DEF CountInv

\* A frame is read: a wake is one more to fire.
LEMMA CountInvRead ==
  ASSUME CountInv, fired \in Seq(Nat), CountFrame(frame'), UNCHANGED frames,
         pc \in {"read_prefix", "read_body"}, ClosedPeers' = ClosedPeers
  PROVE  CountInv'
  <1>1. /\ pc' = "send" /\ UNCHANGED fired /\ frames_read' = frames_read + 1
        /\ frames[frame'].kind = "wake" =>
              acks_accepted' = acks_accepted + 1 /\ acks_rejected' = acks_rejected
        /\ frames[frame'].kind # "wake" =>
              acks_accepted' = acks_accepted /\ acks_rejected' = acks_rejected + 1
    BY DEF CountFrame, Go, CountInv
  <1>2. WakeInHand' <=> frames[frame'].kind = "wake"
    BY <1>1 DEF WakeInHand
  <1>3. ~WakeInHand /\ Len(fired) \in Nat /\ Cardinality(ClosedPeers) \in Nat
    BY ClosedFinite DEF WakeInHand
  <1>4. /\ Unfired \in Nat /\ Unfired <= Cardinality(ClosedPeers)
        /\ frames_read \in Nat /\ acks_accepted \in Nat /\ acks_rejected \in Nat
        /\ frames_read = acks_accepted + acks_rejected
    BY <1>3 DEF CountInv, Unfired
  <1>5. CASE frames[frame'].kind = "wake"
    <2>1. Unfired' = Unfired + 1
      BY <1>1, <1>3, <1>4, <1>5 DEF Unfired
    <2> QED
      BY <1>1, <1>2, <1>3, <1>4, <1>5, <2>1 DEF CountInv
  <1>6. CASE frames[frame'].kind # "wake"
    <2>1. Unfired' = Unfired
      BY <1>1, <1>6 DEF Unfired
    <2> QED
      BY <1>1, <1>2, <1>3, <1>4, <1>6, <2>1 DEF CountInv
  <1> QED
    BY <1>5, <1>6

\* Every step keeps the counters.
LEMMA CountInvNext ==
    ConnectionInv /\ OrderInv /\ CountInv /\ [Next]_vars => CountInv'
  <1> SUFFICES ASSUME ConnectionInv, OrderInv, CountInv, [Next]_vars PROVE CountInv'
    OBVIOUS
  <1> USE DEF Go
  <1>1. fired \in Seq(Nat) /\ Len(fired) \in Nat
    BY DEF OrderInv, OrderTypeOK
  <1>2. Cardinality(ClosedPeers) \in Nat /\ IsFiniteSet(ClosedPeers)
    BY ClosedFinite
  <1>3. CASE CloseConnection
    <2>1. /\ pc = "close" /\ pc' = "return" /\ link' = [link EXCEPT ![cur] = "closed"]
          /\ UNCHANGED <<frames_read, acks_accepted, acks_rejected, fired>>
      BY <1>3 DEF CloseConnection, statVars
    <2>2. cur \in Clients /\ cur \notin ClosedPeers
      BY <2>1, CurrentOpen DEF ConnectionInv, FdPublished
    <2>3. ClosedPeers' = ClosedPeers \cup {cur}
      BY <2>1, <2>2 DEF ClosedPeers, ConnectionInv, ConnectionTypeOK
    <2>4. Cardinality(ClosedPeers') = Cardinality(ClosedPeers) + 1
      BY <1>2, <2>2, <2>3, FS_AddElement
    <2> QED
      BY <1>1, <1>2, <2>1, <2>4 DEF CountInv, Unfired, WakeInHand
  <1>4. CASE ~CloseConnection
    <2>1. ClosedPeers' = ClosedPeers
      BY <1>4, ClosedStay
    <2>2. CASE ReadPrefix
      <3>1. CASE CountFrame(frame')
        <4>1. pc = "read_prefix" /\ UNCHANGED frames
          BY <2>2 DEF ReadPrefix, serverRest, peerVars
        <4> QED
          BY <1>1, <2>1, <3>1, <4>1, CountInvRead
      <3>2. CASE ~CountFrame(frame')
        <4>1. /\ pc = "read_prefix" /\ pc' \in {"clear_fd", "read_body"} /\ UNCHANGED frames
              /\ UNCHANGED <<frames_read, acks_accepted, acks_rejected, fired>>
          BY <2>2, <3>2 DEF ReadPrefix, serverRest, peerVars, statVars
        <4> QED
          BY <1>1, <1>2, <2>1, <4>1 DEF CountInv, Unfired, WakeInHand
      <3> QED
        BY <3>1, <3>2
    <2>3. CASE ReadBody
      <3>1. pc = "read_body" /\ UNCHANGED <<frames, frame>> /\ CountFrame(frame)
        BY <2>3 DEF ReadBody, serverRest, peerVars
      <3>2. CountFrame(frame')
        BY <3>1 DEF CountFrame
      <3> QED
        BY <1>1, <2>1, <3>1, <3>2, CountInvRead
    <2>4. CASE Fire
      <3>1. /\ pc = "fire" /\ pc' = "loop" /\ fired' = Append(fired, frame)
            /\ UNCHANGED <<frames_read, acks_accepted, acks_rejected>>
        BY <2>4 DEF Fire
      <3>2. Len(fired') = Len(fired) + 1
        BY <1>1, <3>1
      <3> QED
        BY <1>1, <1>2, <2>1, <3>1, <3>2 DEF CountInv, Unfired, WakeInHand
    <2>5. CASE SendFails \/ ReadEnds \/ LoopTop
      <3>1. /\ UNCHANGED <<frames_read, acks_accepted, acks_rejected, fired>>
            /\ pc' \in {"clear_fd", "read_prefix"} /\ pc \in {"loop", "read_prefix", "read_body", "send"}
            /\ pc = "send" => pc' = "clear_fd"
        BY <2>5 DEF SendFails, ReadEnds, LoopTop, statVars
      <3> QED
        BY <1>1, <1>2, <2>1, <3>1 DEF CountInv, Unfired, WakeInHand
    <2>6. CASE SendAck
      <3>1. /\ UNCHANGED <<frames_read, acks_accepted, acks_rejected, fired, frames, frame>>
            /\ pc = "send" /\ pc' \in {"send", "record", "loop"}
            /\ pc' = "record" => frames[frame].kind = "wake"
            /\ pc' = "loop" => frames[frame].kind # "wake"
        BY <2>6 DEF SendAck, serverRest, peerVars
      <3> QED
        BY <1>1, <2>1, <3>1, CountInvStay DEF WakeInHand
    <2>7. CASE \E c \in Clients, kind \in Kinds : SendPrefix(c, kind)
      <3>1. PICK c \in Clients, kind \in Kinds : SendPrefix(c, kind)
        BY <2>7
      <3>2. /\ UNCHANGED <<frames_read, acks_accepted, acks_rejected, fired, pc, frame>>
            /\ frames' = Append(frames, [from |-> c, kind |-> kind])
        BY <3>1 DEF SendPrefix, peerRest, statVars
      <3>3. \A k \in 1..Len(frames) : frames'[k] = frames[k]
        BY <3>2, AppendProperties DEF OrderInv, OrderTypeOK
      <3>4. WakeInHand' <=> WakeInHand
        BY <3>2, <3>3 DEF WakeInHand, OrderInv, FrameInHand
      <3> QED
        BY <1>1, <2>1, <3>2, <3>4, CountInvStay
    <2>8. CASE \/ Check \/ Poll \/ Polled \/ PollFails \/ Accept \/ AcceptFails \/ PublishConnection
               \/ WithdrawConnection \/ Return \/ RecordWakeRecv
               \/ BufferDrains \/ Stop \/ UNCHANGED vars
               \/ \E c \in Clients : Connect(c) \/ SendBody(c) \/ ReadAck(c) \/ Disconnect(c)
      <3>1. UNCHANGED <<frames_read, acks_accepted, acks_rejected, fired, frames, frame>>
        BY <2>8 DEF Check, Poll, Polled, PollFails, Accept, AcceptFails, PublishConnection,
             WithdrawConnection, Return, RecordWakeRecv, BufferDrains, Stop, StopFromHandler,
             StopStoresFlag, StopWritesPipe, StopLoadsFd, StopShutsDown, Connect, SendBody,
             ReadAck, Disconnect, vars, statVars, serverRest, stopRest, peerRest, peerVars
      <3>2. \/ pc' = pc
            \/ /\ pc \in {"check", "poll", "polled", "accept", "store_fd", "return"}
               /\ pc' \in Between \cup {"store_fd", "loop"}
            \/ pc = "clear_fd" /\ pc' = "close"
            \/ pc = "record" /\ pc' = "fire"
        BY <2>8 DEF Check, Poll, Polled, PollFails, Accept, AcceptFails, PublishConnection,
             WithdrawConnection, Return, RecordWakeRecv, BufferDrains, Stop, StopFromHandler,
             StopStoresFlag, StopWritesPipe, StopLoadsFd, StopShutsDown, Connect, SendBody,
             ReadAck, Disconnect, vars, stopRest, peerRest, Between
      <3> QED
        BY <1>1, <2>1, <3>1, <3>2, CountInvStay DEF WakeInHand, Between
    <2> QED
      BY <1>4, <2>2, <2>3, <2>4, <2>5, <2>6, <2>7, <2>8, Zenon DEF Next, Server, Peer
  <1> QED
    BY <1>3, <1>4

\* The counters that main prints, for any number of peers and frames: every frame
\* read got an answer, and the accepted acks exceed the fires by one at most for
\* each connection that was served (serve_connection(), src/executor.cpp).
THEOREM StatsExplainTheFires == Spec => []StatsExplainFires
  <1>1. ConnectionInv /\ OrderInv /\ CountInv => StatsExplainFires
    <2> SUFFICES ASSUME ConnectionInv, OrderInv, CountInv PROVE StatsExplainFires
      OBVIOUS
    <2> DEFINE Touched == {c \in Clients : link[c] \in {"serving", "shut", "closed"}}
    <2>1. Len(fired) \in Nat /\ Cardinality(ClosedPeers) \in Nat /\ IsFiniteSet(ClosedPeers)
      BY ClosedFinite DEF OrderInv, OrderTypeOK
    <2>2. CASE cur = NoClient
      <3>1. Touched = ClosedPeers
        BY <2>2, NoClientIsNone DEF ClosedPeers, ConnectionInv, QueueWaits
      <3>2. pc \notin {"send", "record", "fire", "clear_fd", "close"}
        BY <2>2 DEF ConnectionInv, FdPublished, Serving
      <3>3. 0 <= Unfired /\ Unfired <= Cardinality(ClosedPeers)
        BY <3>2 DEF CountInv, WakeInHand
      <3>4. Unfired \in 0..Cardinality(ClosedPeers)
        BY <2>1, <3>3 DEF Unfired, CountInv
      <3> QED
        BY <3>1, <3>4 DEF StatsExplainFires, CountInv, Unfired
    <2>3. CASE cur # NoClient
      <3>1. cur \in Clients /\ link[cur] \in {"serving", "shut"} /\ cur \notin ClosedPeers
        BY <2>3, CurrentOpen
      <3>2. Touched = ClosedPeers \cup {cur}
        BY <3>1 DEF ClosedPeers, ConnectionInv, QueueWaits
      <3>3. Cardinality(Touched) = Cardinality(ClosedPeers) + 1
        BY <2>1, <3>1, <3>2, FS_AddElement
      <3> QED
        BY <2>1, <3>3 DEF StatsExplainFires, CountInv, Unfired
    <2> QED
      BY <2>2, <2>3
  <1> QED
    BY <1>1, ConnectionInvInit, ConnectionInvNext, OrderInvInit, OrderInvNext, CountInvInit,
       CountInvNext, PTL DEF Spec

-----------------------------------------------------------------------------
(* The server in the executable.                                           *)

\* A step of the executable is a step of the server, or leaves it alone.
LEMMA ServerSteps == [ExecutorNext]_allVars => [Next]_vars
  <1> SUFFICES ASSUME ExecutorNext \/ UNCHANGED allVars PROVE Next \/ UNCHANGED vars
    OBVIOUS
  <1>1. CASE ServeForever
    BY <1>1 DEF ServeForever, Next
  <1>2. CASE HandlerOnServer \/ HandlerRuns
    BY <1>2 DEF HandlerOnServer, HandlerRuns, Next, Stop
  <1>3. CASE Environment
    BY <1>3 DEF Environment, Next
  <1>4. CASE \/ OpenAll \/ OpenAllFails \/ ServeForeverReturns \/ WriterSettles
             \/ CloseTelemetry \/ ReturnFromRun \/ HandlerOnWriter \/ HandlerCalls
             \/ HandlerCallsNull \/ Crash
    BY <1>4 DEF OpenAll, OpenAllFails, ServeForeverReturns, WriterSettles, CloseTelemetry,
           ReturnFromRun, HandlerOnWriter, HandlerCalls, HandlerCallsNull, Crash
  <1>5. CASE UNCHANGED allVars
    BY <1>5 DEF allVars
  <1> QED
    BY <1>1, <1>2, <1>3, <1>4, <1>5 DEF ExecutorNext

\* So its invariants hold.
LEMMA ServerInvAlways == ExecutorSpec => [](ConnectionInv /\ OrderInv)
  <1>1. ExecutorInit => ConnectionInv /\ OrderInv
    BY ConnectionInvInit, OrderInvInit DEF ExecutorInit
  <1>2. ConnectionInv /\ OrderInv /\ [ExecutorNext]_allVars => (ConnectionInv /\ OrderInv)'
    BY ServerSteps, ConnectionInvNext, OrderInvNext
  <1> QED
    BY <1>1, <1>2, PTL DEF ExecutorSpec

-----------------------------------------------------------------------------
(* How run() takes things down.                                            *)

\* The server returns for a stop() that has begun, or gives up; a handler that has
\* only checked g_server, or has died of it, has begun none.
StopStarts ==
    /\ pc \in Between \cup Serving \cup {"store_fd", "close"}
    /\ stopper = "idle" => ~stopping /\ ~wake_pipe
    /\ pc = "exited" => stopping \/ wake_pipe
    /\ handling \in {"checked", "null"} => stopper = "idle"

\* The writer's thread, and so a handler on it, exists only with a database; run()
\* goes on to close the telemetry when the server has returned, and to destroy the
\* server when no handler is on its way to stop() or in it.
RunInv ==
    /\ phase \in {"open", "serve", "close", "destroy", "done", "crashed"}
    /\ sink \in BOOLEAN /\ handling \in {"no", "checked", "called", "null"}
    /\ up => sink
    /\ handling # "no" => sink
    /\ phase = "open" => handling = "no" /\ pc = "check"
    /\ phase \in {"close", "destroy"} => Ended
    /\ phase = "done" => Ended \/ pc = "check"
    /\ phase \in {"destroy", "done"} => ~WriterBusy
    /\ handling = "checked" => phase \in {"serve", "close", "crashed"}
    /\ handling = "null" => phase = "crashed" /\ pc = "gave_up"
    /\ StopStarts

\* run() has begun.
LEMMA RunInvInit == ExecutorInit => RunInv
  BY DEF ExecutorInit, Init, Log!Init, RunInv, WriterBusy, StopStarts, Between

\* The steps of the server's thread begin no stop(), and return for one.
LEMMA StopStartsServer ==
  ASSUME StopStarts, UNCHANGED handling, Server \/ PollFails \/ BufferDrains \/ Peer
  PROVE  StopStarts'
  <1> USE DEF StopStarts, Between, Serving
  <1>1. CASE Check \/ Poll \/ Polled \/ PollFails \/ AcceptFails \/ Return
    BY <1>1 DEF Check, Poll, Polled, PollFails, AcceptFails, Return, Go, serverRest, stopVars
  <1>2. CASE \/ Accept \/ PublishConnection \/ WithdrawConnection \/ CloseConnection
             \/ LoopTop \/ ReadEnds \/ SendAck \/ SendFails \/ RecordWakeRecv \/ Fire
    BY <1>2 DEF Accept, PublishConnection, WithdrawConnection, CloseConnection, LoopTop, ReadEnds,
           SendAck, SendFails, RecordWakeRecv, Fire, Go, serverRest, stopVars
  <1>3. CASE ReadPrefix \/ ReadBody
    BY <1>3 DEF ReadPrefix, ReadBody, CountFrame, Go, serverRest, stopVars
  <1>4. CASE BufferDrains
    BY <1>4 DEF BufferDrains, serverRest, stopVars
  <1>5. CASE Peer
    <2>1. PICK c \in Clients : \/ Connect(c) \/ SendBody(c) \/ ReadAck(c) \/ Disconnect(c)
                              \/ \E kind \in Kinds : SendPrefix(c, kind)
      BY <1>5, Zenon DEF Peer
    <2>2. UNCHANGED peerRest
      BY <2>1, Zenon DEF Connect, SendPrefix, SendBody, ReadAck, Disconnect
    <2> QED
      BY <2>2 DEF peerRest, stopVars
  <1> QED
    BY <1>1, <1>2, <1>3, <1>4, <1>5 DEF Server

\* Every step keeps the invariant.
LEMMA RunInvNext == RunInv /\ [ExecutorNext]_allVars => RunInv'
  <1> SUFFICES ASSUME RunInv, ExecutorNext \/ UNCHANGED allVars PROVE RunInv'
    OBVIOUS
  <1> USE DEF RunInv
  <1>1. CASE OpenAll \/ OpenAllFails
    <2>1. UNCHANGED <<pc, stopper, stopping, wake_pipe>>
      BY <1>1 DEF OpenAll, OpenAllFails, vars, stopVars
    <2> QED
      BY <1>1, <2>1 DEF OpenAll, OpenAllFails, Log!Open, logVars, WriterBusy, StopStarts
  <1>2. CASE ServeForever
    <2>1. phase = "serve" /\ UNCHANGED runVars
      BY <1>2 DEF ServeForever
    <2>2. UNCHANGED up
      BY <1>2 DEF ServeForever, Log!Accept, Log!Drop, logVars
    <2>3. StopStarts'
      BY <1>2, <2>1, StopStartsServer DEF ServeForever, runVars
    <2> QED
      BY <2>1, <2>2, <2>3 DEF runVars
  <1>3. CASE ServeForeverReturns \/ CloseTelemetry \/ ReturnFromRun
    <2>1. UNCHANGED <<pc, stopper, stopping, wake_pipe, sink, handling>>
      BY <1>3 DEF ServeForeverReturns, CloseTelemetry, ReturnFromRun, vars, stopVars
    <2>2. StopStarts'
      BY <2>1 DEF StopStarts
    <2> QED
      BY <1>3, <2>1, <2>2 DEF ServeForeverReturns, CloseTelemetry, ReturnFromRun,
             Log!CloseReturns, logVars, WriterBusy, Ended
  <1>4. CASE WriterSettles
    <2>1. UNCHANGED <<pc, stopper, stopping, wake_pipe, phase, sink, handling>>
      BY <1>4 DEF WriterSettles, vars, stopVars, runVars
    <2>2. UNCHANGED up
      BY <1>4 DEF WriterSettles, Log!Settle, Log!Write, Log!GiveUp
    <2> QED
      BY <2>1, <2>2 DEF WriterBusy, Ended, StopStarts
  <1>5. CASE HandlerOnServer
    BY <1>5 DEF HandlerOnServer, StopFromHandler, stopRest, runVars, logVars, StopStarts
  <1>6. CASE HandlerOnWriter \/ HandlerCalls
    <2>1. UNCHANGED <<pc, stopper, stopping, wake_pipe, phase, sink, up>>
      BY <1>6 DEF HandlerOnWriter, HandlerCalls, logVars, vars, stopVars
    <2> QED
      BY <1>6, <2>1 DEF HandlerOnWriter, HandlerCalls, Ended, StopStarts
  <1>7. CASE HandlerCallsNull
    <2>1. UNCHANGED <<pc, stopper, stopping, wake_pipe, sink>> /\ up' = FALSE
      BY <1>7 DEF HandlerCallsNull, Log!Crash, vars, stopVars
    <2>2. pc = "gave_up"
      BY <1>7 DEF HandlerCallsNull, StopStarts, Ended
    <2> QED
      BY <1>7, <2>1, <2>2 DEF HandlerCallsNull, StopStarts
  <1>8. CASE HandlerRuns
    <2>1. UNCHANGED <<pc, phase, sink, handling, up>> /\ handling = "called"
      BY <1>8 DEF HandlerRuns, runVars, logVars, StopStoresFlag, StopWritesPipe, StopLoadsFd,
             StopShutsDown, stopRest
    <2>2. stopper # "done" /\ stopper' # "idle"
      BY <1>8 DEF HandlerRuns, StopStoresFlag, StopWritesPipe, StopLoadsFd, StopShutsDown
    <2>3. (stopping => stopping') /\ (wake_pipe => wake_pipe')
      BY <1>8 DEF HandlerRuns, StopStoresFlag, StopWritesPipe, StopLoadsFd, StopShutsDown
    <2> QED
      BY <2>1, <2>2, <2>3 DEF WriterBusy, Ended, StopStarts
  <1>9. CASE Crash
    <2>1. UNCHANGED <<pc, stopper, stopping, wake_pipe, sink, handling>>
      BY <1>9 DEF Crash, vars, stopVars
    <2> QED
      BY <1>9, <2>1 DEF Crash, Log!Crash, StopStarts
  <1>10. CASE Environment
    <2>1. phase = "serve" /\ UNCHANGED <<phase, sink, handling, up>>
      BY <1>10 DEF Environment, runVars, logVars
    <2>2. StopStarts'
      BY <1>10, <2>1, StopStartsServer DEF Environment
    <2> QED
      BY <2>1, <2>2
  <1>11. CASE UNCHANGED allVars
    BY <1>11 DEF allVars, vars, stopVars, runVars, logVars, WriterBusy, Ended, StopStarts
  <1> QED
    BY <1>1, <1>2, <1>3, <1>4, <1>5, <1>6, <1>7, <1>8, <1>9, <1>10, <1>11 DEF ExecutorNext

\* run() destroys the server without a handler that has found g_server set on its way
\* to stop() or in it, since close() joins the thread it may be on and the other
\* thread is run()'s own; and the handler calls stop() through a g_server cleared
\* since its check only when the server had given up by itself (request_stop and
\* run() in src/main.cpp).
THEOREM HandlerNeverOutlivesServer == ExecutorSpec => []StopNeverOnDeadServer
  <1>1. RunInv => StopNeverOnDeadServer
    BY DEF RunInv, StopNeverOnDeadServer
  <1> QED
    BY <1>1, RunInvInit, RunInvNext, PTL DEF ExecutorSpec

-----------------------------------------------------------------------------
(* The rows of the telemetry among the wakes recorded.                     *)

\* What comes before what in a sequence.
Before(s) == {p \in Nat \X Nat : \E k, l \in 1..Len(s) : k < l /\ s[k] = p[1] /\ s[l] = p[2]}

\* Of the rows S, whose order is R: those of the table t are in that order, so are
\* those that wait, in p, and these come after those of the table and those lost, l.
Placed(R, S, t, p, l) ==
    /\ SortedBy(R, t) /\ SortedBy(R, p)
    /\ \A x \in Range(t) \cup l, y \in Range(p) : <<x, y>> \in R
    /\ (Range(t) \cup l) \cup Range(p) \subseteq S

LogTypeOK ==
    /\ pending \in Seq(Nat) /\ table \in Seq(Nat)
    /\ lost \in SUBSET Nat /\ IsFiniteSet(lost) /\ dropped \in Nat

\* The log's invariant: the rows are placed among the wakes recorded, and until a
\* crash each of those is a row, lost, dropped or waiting; none waits without a
\* database or once close() has returned.
LogInv ==
    /\ LogTypeOK
    /\ Placed(Before(recorded), Range(recorded), table, pending, lost)
    /\ ~sink => pending = << >>
    /\ phase \in {"open", "destroy", "done"} => pending = << >>
    /\ sink /\ phase # "crashed" =>
          Len(recorded) = ((Len(table) + Cardinality(lost)) + dropped) + Len(pending)

\* A row that comes last in the order is placed when it waits, or is nowhere.
LEMMA PlacedArrives ==
  ASSUME NEW R, NEW S, NEW R2, NEW S2, NEW r \in Nat,
         NEW t \in Seq(Nat), NEW p \in Seq(Nat), NEW l \in SUBSET Nat,
         Placed(R, S, t, p, l), R \subseteq R2, S \subseteq S2, r \in S2,
         \A x \in S : <<x, r>> \in R2
  PROVE  Placed(R2, S2, t, Append(p, r), l) /\ Placed(R2, S2, t, p, l)
  <1>1. Placed(R2, S2, t, p, l)
    BY DEF Placed, SortedBy
  <1> DEFINE o == <<r>>
             c == Append(p, r)
  <1>2. /\ o \in Seq(Nat) /\ Range(o) = {r} /\ Range(c) = Range(p) \cup {r}
        /\ c = p \o o /\ Len(o) = 1
    BY Ranges, AppendJoins
  <1> HIDE DEF o, c
  <1>3. SortedBy(R2, o)
    BY <1>2 DEF SortedBy
  <1>4. SortedBy(R2, p) /\ \A x \in Range(p), y \in Range(o) : <<x, y>> \in R2
    BY <1>1, <1>2 DEF Placed
  <1>5. SortedBy(R2, c)
    <2>1. SortedBy(R2, p \o o)
      BY <1>2, <1>3, <1>4, SortedJoined, Zenon
    <2> QED
      BY <1>2, <2>1
  <1>6. Placed(R2, S2, t, c, l)
    BY <1>1, <1>2, <1>5, Zenon DEF Placed
  <1> QED
    BY <1>1, <1>6 DEF c

\* The rows u of a transaction, which waited first.
LEMMA PlacedWritten ==
  ASSUME NEW R, NEW S, NEW l \in SUBSET Nat,
         NEW t \in Seq(Nat), NEW u \in Seq(Nat), NEW q \in Seq(Nat),
         Placed(R, S, t, u \o q, l)
  PROVE  Placed(R, S, t \o u, q, l)
  <1>1. /\ Range(u \o q) = Range(u) \cup Range(q)
        /\ Range(t \o u) = Range(t) \cup Range(u)
    BY Ranges
  <1>2. /\ SortedBy(R, u) /\ SortedBy(R, q)
        /\ \A x \in Range(u), y \in Range(q) : <<x, y>> \in R
    BY SortedJoined, Zenon DEF Placed
  <1>3. \A x \in Range(t), y \in Range(u) : <<x, y>> \in R
    BY <1>1, Zenon DEF Placed
  <1>4. SortedBy(R, t \o u)
    BY <1>2, <1>3, SortedJoined, Zenon DEF Placed
  <1> QED
    BY <1>1, <1>2, <1>4, Zenon DEF Placed

\* The first row that waited, given up.
LEMMA PlacedLost ==
  ASSUME NEW R, NEW S, NEW l \in SUBSET Nat, NEW x \in Nat,
         NEW t \in Seq(Nat), NEW q \in Seq(Nat),
         Placed(R, S, t, <<x>> \o q, l)
  PROVE  Placed(R, S, t, q, l \cup {x}) /\ \A y \in l : <<y, x>> \in R
  <1> DEFINE o == <<x>>
  <1>1. o \in Seq(Nat) /\ Range(o) = {x}
    BY Ranges
  <1>2. Placed(R, S, t, o \o q, l)
    OBVIOUS
  <1> HIDE DEF o
  <1>3. Range(o \o q) = {x} \cup Range(q)
    <2>1. Range(o \o q) = Range(o) \cup Range(q)
      BY <1>1, Ranges, Zenon
    <2> QED
      BY <1>1, <2>1
  <1>4. SortedBy(R, q) /\ \A z \in Range(o), y \in Range(q) : <<z, y>> \in R
    BY <1>1, <1>2, SortedJoined, Zenon DEF Placed
  <1> QED
    BY <1>1, <1>2, <1>3, <1>4, Zenon DEF Placed

\* A crash costs what waited.
LEMMA PlacedCrash ==
  ASSUME NEW R, NEW S, NEW t, NEW p, NEW l, Placed(R, S, t, p, l)
  PROVE  Placed(R, S, t, << >>, l)
  <1>1. Range(<< >>) = {}
    <2>1. << >> \in Seq(Nat) /\ 0 \in Nat
      OBVIOUS
    <2> QED
      BY <2>1, Ranges, Zenon
  <1>2. SortedBy(R, << >>)
    BY DEF SortedBy
  <1> QED
    BY <1>1, <1>2, Zenon DEF Placed

\* A wake recorded comes after all the others.
LEMMA BeforeGrows ==
  ASSUME NEW s \in Seq(Nat), NEW r \in Nat
  PROVE  /\ Before(s) \subseteq Before(Append(s, r))
         /\ Range(s) \subseteq Range(Append(s, r)) /\ r \in Range(Append(s, r))
         /\ \A x \in Range(s) : <<x, r>> \in Before(Append(s, r))
  <1> DEFINE a == Append(s, r)
  <1>1. /\ Len(s) \in Nat /\ Len(a) = Len(s) + 1 /\ a[Len(s) + 1] = r
        /\ \A i \in 1..Len(s) : a[i] = s[i] /\ i \in 1..Len(a) /\ i < Len(s) + 1
        /\ Len(s) + 1 \in 1..Len(a)
    BY AppendProperties
  <1>2. Range(s) = {s[i] : i \in 1..Len(s)} /\ Range(s) \subseteq Nat /\ Range(a) = Range(s) \cup {r}
    BY Ranges
  <1> HIDE DEF a
  <1>3. ASSUME NEW p \in Before(s) PROVE p \in Before(a)
    BY <1>1 DEF Before
  <1>4. ASSUME NEW x \in Range(s) PROVE <<x, r>> \in Before(a)
    <2>1. PICK k \in 1..Len(s) : x = s[k]
      BY <1>2
    <2>2. x \in Nat /\ a[k] = x /\ k \in 1..Len(a) /\ k < Len(s) + 1
      BY <1>1, <1>2, <2>1
    <2> QED
      BY <1>1, <2>2 DEF Before
  <1> QED
    BY <1>2, <1>3, <1>4 DEF a

\* A wake is recorded once.
LEMMA RecordedOnce ==
  ASSUME OrderInv, NEW x
  PROVE  <<x, x>> \notin Before(recorded)
  <1> SUFFICES ASSUME NEW k \in 1..Len(recorded), NEW l \in 1..Len(recorded),
                      k < l, recorded[k] = recorded[l]
               PROVE  FALSE
    BY DEF Before
  <1>1. acked \in Seq(Nat) /\ recorded \in Seq(Nat) /\ fired \in Seq(Nat) /\ frame \in Nat
    BY DEF OrderInv, OrderTypeOK
  <1>2. recorded = acked \/ (recorded = fired /\ acked = Append(fired, frame))
    BY DEF OrderInv, FiredInStep
  <1>3. /\ k \in 1..Len(acked) /\ l \in 1..Len(acked)
        /\ acked[k] = recorded[k] /\ acked[l] = recorded[l]
    <2>1. CASE recorded = acked
      BY <2>1
    <2>2. CASE recorded = fired /\ acked = Append(fired, frame)
      BY <1>1, <2>2, AppendProperties
    <2> QED
      BY <1>2, <2>1, <2>2
  <1>4. acked[k] < acked[l]
    BY <1>3 DEF OrderInv, AckedInOrder
  <1>5. acked[k] \in Nat
    BY <1>1, <1>3
  <1> QED
    BY <1>3, <1>4, <1>5

\* What a step does to the log: nothing; a wake is recorded, and its row waits, is
\* dropped or goes nowhere; the rows of a transaction, or the first that waits, are
\* settled; or a crash.
LogUnchanged == UNCHANGED <<pending, table, lost, dropped>>
LogRecord ==
    /\ pc = "record" /\ phase = "serve" /\ phase' = "serve"
    /\ recorded' = Append(recorded, frame)
    /\ \/ ~sink /\ LogUnchanged
       \/ sink /\ pending' = Append(pending, frame) /\ UNCHANGED <<table, lost, dropped>>
       \/ sink /\ dropped' = dropped + 1 /\ UNCHANGED <<pending, table, lost>>
LogQuiet ==
    /\ UNCHANGED recorded /\ LogUnchanged
    /\ phase = "crashed" => phase' = "crashed"
    /\ phase' \in {"open", "destroy", "done"} =>
          phase \in {"open", "destroy", "done"} \/ pending = << >> \/ ~sink
LogSettle ==
    /\ UNCHANGED <<recorded, dropped, phase>> /\ phase \in {"serve", "close"} /\ up
    /\ \/ /\ \E n \in Nat : /\ n <= Len(pending)
                           /\ table' = table \o SubSeq(pending, 1, n)
                           /\ pending' = SubSeq(pending, n + 1, Len(pending))
          /\ UNCHANGED lost
       \/ /\ pending # << >> /\ lost' = lost \cup {Head(pending)} /\ pending' = Tail(pending)
          /\ UNCHANGED table
LogCrash ==
    /\ phase' = "crashed" /\ pending' = << >> /\ dropped' = 0
    /\ UNCHANGED <<recorded, table, lost>>

\* One of these is what a step does.
LEMMA LogSteps ==
  [ExecutorNext]_allVars => UNCHANGED sink /\ (LogRecord \/ LogQuiet \/ LogSettle \/ LogCrash)
  <1> SUFFICES ASSUME ExecutorNext \/ UNCHANGED allVars
               PROVE  UNCHANGED sink /\ (LogRecord \/ LogQuiet \/ LogSettle \/ LogCrash)
    OBVIOUS
  <1> USE DEF LogUnchanged
  <1>1. CASE OpenAll \/ OpenAllFails
    <2>1. UNCHANGED <<recorded, sink, pending, table, lost, dropped>> /\ phase = "open"
      BY <1>1 DEF OpenAll, OpenAllFails, Log!Open, logVars, vars, statVars
    <2> QED
      BY <2>1 DEF LogQuiet
  <1>2. CASE ServeForever
    <2>1. phase = "serve" /\ UNCHANGED <<phase, sink>>
      BY <1>2 DEF ServeForever, runVars
    <2>2. CASE pc = "record"
      <3>1. recorded' = Append(recorded, frame)
        <4>1. RecordWakeRecv
          BY <1>2, <2>2 DEF ServeForever, Server, Check, Poll, Polled, PollFails, Accept, AcceptFails,
                 PublishConnection, WithdrawConnection, CloseConnection, Return, LoopTop,
                 ReadEnds, ReadPrefix, ReadBody, SendAck, SendFails, Fire
        <4> QED
          BY <4>1 DEF RecordWakeRecv
      <3>2. CASE sink
        BY <1>2, <2>1, <2>2, <3>1, <3>2 DEF ServeForever, Log!Accept, Log!Drop, LogRecord
      <3>3. CASE ~sink
        BY <1>2, <2>1, <2>2, <3>1, <3>3 DEF ServeForever, logVars, LogRecord
      <3> QED
        BY <3>2, <3>3
    <2>3. CASE pc # "record"
      <3>1. UNCHANGED recorded
        <4>1. CASE \/ Check \/ Poll \/ Polled \/ PollFails \/ Accept \/ AcceptFails \/ PublishConnection
                   \/ WithdrawConnection \/ CloseConnection \/ Return \/ LoopTop \/ ReadEnds
          BY <4>1, Zenon DEF Check, Poll, Polled, PollFails, Accept, AcceptFails, PublishConnection,
                 WithdrawConnection, CloseConnection, Return, LoopTop, ReadEnds, statVars
        <4>2. CASE ReadPrefix
          BY <4>2, Zenon DEF ReadPrefix, CountFrame, statVars
        <4>3. CASE ReadBody
          BY <4>3, Zenon DEF ReadBody, CountFrame, statVars
        <4>4. CASE SendAck \/ SendFails \/ Fire
          BY <4>4, Zenon DEF SendAck, SendFails, Fire, statVars
        <4>5. ~RecordWakeRecv
          BY <2>3 DEF RecordWakeRecv
        <4> QED
          BY <1>2, <4>1, <4>2, <4>3, <4>4, <4>5 DEF ServeForever, Server
      <3>2. LogUnchanged
        BY <1>2, <2>3 DEF ServeForever, logVars
      <3> QED
        BY <2>1, <3>1, <3>2 DEF LogQuiet
    <2> QED
      BY <2>2, <2>3
  <1>3. CASE ServeForeverReturns \/ CloseTelemetry \/ ReturnFromRun
    <2>1. UNCHANGED <<recorded, sink, pending, table, lost, dropped>>
      BY <1>3 DEF ServeForeverReturns, CloseTelemetry, ReturnFromRun, Log!CloseReturns, logVars,
             vars, statVars
    <2> QED
      BY <1>3, <2>1 DEF ServeForeverReturns, CloseTelemetry, ReturnFromRun, Log!CloseReturns,
             LogQuiet
  <1>4. CASE WriterSettles
    <2>1. UNCHANGED <<recorded, sink, phase>> /\ phase \in {"serve", "close"}
      BY <1>4 DEF WriterSettles, vars, statVars, runVars
    <2>2. CASE Log!Write
      <3>1. PICK n \in 1..MaxBatchRows :
                /\ n <= Len(pending)
                /\ table' = table \o SubSeq(pending, 1, n)
                /\ pending' = SubSeq(pending, n + 1, Len(pending))
        BY <2>2 DEF Log!Write
      <3>2. n \in Nat
        OBVIOUS
      <3> QED
        BY <2>1, <2>2, <3>1, <3>2 DEF Log!Write, LogSettle
    <2>3. CASE Log!GiveUp
      BY <2>1, <2>3 DEF Log!GiveUp, LogSettle
    <2> QED
      BY <1>4, <2>2, <2>3 DEF WriterSettles, Log!Settle
  <1>5. CASE HandlerOnServer \/ HandlerOnWriter \/ HandlerCalls \/ HandlerRuns \/ Environment
    <2>1. UNCHANGED <<phase, sink, pending, table, lost, dropped>>
      BY <1>5 DEF HandlerOnServer, HandlerOnWriter, HandlerCalls, HandlerRuns, Environment,
             runVars, logVars
    <2>2. UNCHANGED recorded
      BY <1>5 DEF HandlerOnServer, HandlerOnWriter, HandlerCalls, HandlerRuns, Environment,
             vars, statVars, PollFails, StopFromHandler, StopStoresFlag, StopWritesPipe, StopLoadsFd, StopShutsDown, stopRest,
             BufferDrains, Peer, Connect, SendPrefix, SendBody, ReadAck, Disconnect, peerRest
    <2> QED
      BY <2>1, <2>2 DEF LogQuiet
  <1>6. CASE Crash \/ HandlerCallsNull
    BY <1>6 DEF Crash, HandlerCallsNull, Log!Crash, LogCrash, vars, statVars
  <1>7. CASE UNCHANGED allVars
    BY <1>7 DEF allVars, vars, statVars, runVars, logVars, LogQuiet
  <1> QED
    BY <1>1, <1>2, <1>3, <1>4, <1>5, <1>6, <1>7 DEF ExecutorNext

\* Nothing is recorded yet.
LEMMA LogInvInit == ExecutorInit => LogInv
  <1> SUFFICES ASSUME ExecutorInit PROVE LogInv
    OBVIOUS
  <1>1. /\ pending = << >> /\ table = << >> /\ lost = {} /\ dropped = 0
        /\ recorded = << >> /\ phase = "open"
    BY DEF ExecutorInit, Init, Log!Init
  <1>2. << >> \in Seq(Nat) /\ 0 \in Nat /\ Len(<< >>) = 0
    OBVIOUS
  <1>3. Range(<< >>) = {}
    BY <1>2, Ranges, Zenon
  <1>4. IsFiniteSet({}) /\ Cardinality({}) = 0
    BY FS_EmptySet
  <1>5. Placed(Before(recorded), Range(recorded), table, pending, lost)
    <2>1. \A R : SortedBy(R, << >>)
      BY DEF SortedBy
    <2> QED
      BY <1>1, <1>3, <2>1, Zenon DEF Placed
  <1>6. LogTypeOK
    BY <1>1, <1>2, <1>4, Zenon DEF LogTypeOK
  <1>7. Len(recorded) = ((Len(table) + Cardinality(lost)) + dropped) + Len(pending)
    BY <1>1, <1>4
  <1> QED
    BY <1>1, <1>5, <1>6, <1>7 DEF LogInv

\* A wake is recorded.
LEMMA LogInvRecord == LogInv /\ OrderInv /\ UNCHANGED sink /\ LogRecord => LogInv'
  <1> SUFFICES ASSUME LogInv, OrderInv, UNCHANGED sink, LogRecord PROVE LogInv'
    OBVIOUS
  <1>1. recorded \in Seq(Nat) /\ frame \in Nat
    BY DEF OrderInv, OrderTypeOK
  <1>2. /\ pending \in Seq(Nat) /\ table \in Seq(Nat)
        /\ lost \in SUBSET Nat /\ IsFiniteSet(lost) /\ dropped \in Nat
    BY DEF LogInv, LogTypeOK
  <1>3. /\ Placed(Before(recorded'), Range(recorded'), table, Append(pending, frame), lost)
        /\ Placed(Before(recorded'), Range(recorded'), table, pending, lost)
    <2>1. /\ Before(recorded) \subseteq Before(recorded')
          /\ Range(recorded) \subseteq Range(recorded') /\ frame \in Range(recorded')
          /\ \A x \in Range(recorded) : <<x, frame>> \in Before(recorded')
      BY <1>1, BeforeGrows DEF LogRecord
    <2>2. Placed(Before(recorded), Range(recorded), table, pending, lost)
      BY DEF LogInv
    <2> QED
      BY <1>1, <1>2, <2>1, <2>2, PlacedArrives
  <1>4. phase' = "serve" /\ phase = "serve"
    BY DEF LogRecord
  <1>5. Len(recorded') = Len(recorded) + 1 /\ Len(recorded) \in Nat
    BY <1>1, AppendProperties DEF LogRecord
  <1>6. Len(table) \in Nat /\ Len(pending) \in Nat /\ Cardinality(lost) \in Nat
    BY <1>2, FS_CardinalityType
  <1>7. sink => Len(recorded) = ((Len(table) + Cardinality(lost)) + dropped) + Len(pending)
    BY <1>4 DEF LogInv
  <1>8. CASE ~sink /\ LogUnchanged
    <2>1. pending = << >>
      BY <1>8 DEF LogInv
    <2> QED
      BY <1>2, <1>3, <1>4, <1>8, <2>1 DEF LogInv, LogTypeOK, LogUnchanged
  <1>9. CASE sink /\ pending' = Append(pending, frame) /\ UNCHANGED <<table, lost, dropped>>
    <2>1. pending' \in Seq(Nat) /\ Len(pending') = Len(pending) + 1
      BY <1>1, <1>2, <1>9, AppendProperties
    <2>2. Len(recorded') = ((Len(table') + Cardinality(lost')) + dropped') + Len(pending')
      <3>1. /\ Len(table') = Len(table) /\ Cardinality(lost') = Cardinality(lost)
            /\ dropped' = dropped /\ dropped \in Nat
        BY <1>2, <1>9
      <3>2. Len(pending') = Len(pending) + 1
        BY <2>1
      <3>3. Len(recorded) = ((Len(table) + Cardinality(lost)) + dropped) + Len(pending)
        BY <1>7, <1>9
      <3> QED
        BY <1>5, <1>6, <3>1, <3>2, <3>3
    <2>3. Placed(Before(recorded'), Range(recorded'), table', pending', lost')
      BY <1>3, <1>9
    <2> QED
      BY <1>2, <1>4, <1>9, <2>1, <2>2, <2>3 DEF LogInv, LogTypeOK
  <1>10. CASE sink /\ dropped' = dropped + 1 /\ UNCHANGED <<pending, table, lost>>
    <2>1. Len(recorded') = ((Len(table') + Cardinality(lost')) + dropped') + Len(pending')
      BY <1>2, <1>5, <1>6, <1>7, <1>10
    <2>2. Placed(Before(recorded'), Range(recorded'), table', pending', lost')
      BY <1>3, <1>10
    <2> QED
      BY <1>2, <1>4, <1>10, <2>1, <2>2 DEF LogInv, LogTypeOK
  <1> QED
    BY <1>8, <1>9, <1>10 DEF LogRecord

\* Rows are settled.
LEMMA LogInvSettle == LogInv /\ RunInv /\ OrderInv /\ UNCHANGED sink /\ LogSettle => LogInv'
  <1> SUFFICES ASSUME LogInv, RunInv, OrderInv, UNCHANGED sink, LogSettle PROVE LogInv'
    OBVIOUS
  <1>1. /\ pending \in Seq(Nat) /\ table \in Seq(Nat)
        /\ lost \in SUBSET Nat /\ IsFiniteSet(lost) /\ dropped \in Nat
    BY DEF LogInv, LogTypeOK
  <1>2. /\ sink /\ sink' /\ phase' = phase /\ phase \in {"serve", "close"}
        /\ UNCHANGED <<recorded, dropped>>
    BY DEF LogSettle, RunInv
  <1>3. Len(table) \in Nat /\ Len(pending) \in Nat /\ Cardinality(lost) \in Nat
    BY <1>1, FS_CardinalityType
  <1>4. Len(recorded) = ((Len(table) + Cardinality(lost)) + dropped) + Len(pending)
    BY <1>2 DEF LogInv
  <1> DEFINE R == Before(recorded)
             S == Range(recorded)
  <1>5. Placed(R, S, table, pending, lost)
    BY DEF LogInv
  <1>6. R = Before(recorded') /\ S = Range(recorded')
    BY <1>2
  <1> HIDE DEF R, S
  <1>7. ASSUME NEW n \in Nat, n <= Len(pending),
               table' = table \o SubSeq(pending, 1, n),
               pending' = SubSeq(pending, n + 1, Len(pending)), UNCHANGED lost
        PROVE  LogInv'
    <2> DEFINE u == SubSeq(pending, 1, n)
               q == SubSeq(pending, n + 1, Len(pending))
    <2>1. n \in 0..Len(pending)
      BY <1>3, <1>7
    <2>2. u \in Seq(Nat) /\ q \in Seq(Nat) /\ Len(u) = n /\ pending = u \o q
      BY <1>1, <2>1, CutAt
    <2>3. table' = table \o u /\ pending' = q
      BY <1>7
    <2> HIDE DEF u, q
    <2>4. Placed(R, S, table \o u, q, lost)
      BY <1>1, <1>5, <2>2, PlacedWritten
    <2>5. Len(pending) = Len(u) + Len(q) /\ Len(u) \in Nat /\ Len(q) \in Nat
      BY <2>2, Joined, Zenon
    <2>6. table \o u \in Seq(Nat) /\ Len(table \o u) = Len(table) + Len(u)
      BY <1>1, <2>2, Joined, Zenon
    <2>7. Len(recorded') = ((Len(table') + Cardinality(lost')) + dropped') + Len(pending')
      <3>1. /\ Len(table') = Len(table) + Len(u) /\ Len(pending') = Len(q)
            /\ Cardinality(lost') = Cardinality(lost) /\ dropped' = dropped
            /\ Len(recorded') = Len(recorded) /\ dropped \in Nat
        BY <1>1, <1>2, <1>7, <2>3, <2>6
      <3>2. Len(recorded') = ((Len(table) + Cardinality(lost)) + dropped) + (Len(u) + Len(q))
        BY <1>4, <2>5, <3>1
      <3>3. /\ Len(table) \in Nat /\ Cardinality(lost) \in Nat /\ dropped \in Nat
            /\ Len(u) \in Nat /\ Len(q) \in Nat
        BY <1>3, <2>5, <3>1
      <3>4. ((Len(table) + Cardinality(lost)) + dropped) + (Len(u) + Len(q))
              = (((Len(table) + Len(u)) + Cardinality(lost)) + dropped) + Len(q)
        BY <3>3
      <3> QED
        BY <3>1, <3>2, <3>4, Zenon
    <2>8. Placed(Before(recorded'), Range(recorded'), table', pending', lost')
      BY <1>6, <1>7, <2>3, <2>4
    <2>9. LogTypeOK'
      BY <1>1, <1>2, <1>7, <2>2, <2>3, <2>6 DEF LogTypeOK
    <2> QED
      BY <1>2, <2>7, <2>8, <2>9 DEF LogInv
  <1>8. ASSUME pending # << >>, lost' = lost \cup {Head(pending)}, pending' = Tail(pending),
               UNCHANGED table
        PROVE  LogInv'
    <2> DEFINE x == Head(pending)
               q == Tail(pending)
    <2>1. x \in Nat /\ q \in Seq(Nat) /\ pending = <<x>> \o q
      BY <1>1, <1>8, CutFirst
    <2>2. Len(q) = Len(pending) - 1
      BY <1>1, <1>8, HeadTailProperties
    <2>3. lost' = lost \cup {x} /\ pending' = q
      BY <1>8
    <2> HIDE DEF x, q
    <2>4. Placed(R, S, table, q, lost \cup {x}) /\ \A y \in lost : <<y, x>> \in R
      BY <1>1, <1>5, <2>1, PlacedLost
    <2>5. x \notin lost
      BY <2>4, RecordedOnce DEF R
    <2>6. IsFiniteSet(lost \cup {x}) /\ Cardinality(lost \cup {x}) = Cardinality(lost) + 1
      BY <1>1, <2>5, FS_AddElement
    <2>7. Len(recorded') = ((Len(table') + Cardinality(lost')) + dropped') + Len(pending')
      <3>1. /\ Len(table') = Len(table) /\ Len(pending') = Len(q)
            /\ Cardinality(lost') = Cardinality(lost) + 1 /\ dropped' = dropped
            /\ Len(recorded') = Len(recorded) /\ dropped \in Nat
        BY <1>1, <1>2, <1>8, <2>3, <2>6
      <3> QED
        BY <1>3, <1>4, <2>2, <3>1
    <2>8. Placed(Before(recorded'), Range(recorded'), table', pending', lost')
      BY <1>6, <1>8, <2>3, <2>4
    <2>9. LogTypeOK'
      BY <1>1, <1>2, <1>8, <2>1, <2>3, <2>6 DEF LogTypeOK
    <2> QED
      BY <1>2, <2>7, <2>8, <2>9 DEF LogInv
  <1> QED
    BY <1>7, <1>8 DEF LogSettle

\* Every step keeps the invariant.
LEMMA LogInvNext == LogInv /\ RunInv /\ OrderInv /\ [ExecutorNext]_allVars => LogInv'
  <1> SUFFICES ASSUME LogInv, RunInv, OrderInv, [ExecutorNext]_allVars PROVE LogInv'
    OBVIOUS
  <1>1. UNCHANGED sink /\ (LogRecord \/ LogQuiet \/ LogSettle \/ LogCrash)
    BY LogSteps
  <1>2. CASE LogRecord
    BY <1>1, <1>2, LogInvRecord
  <1>3. CASE LogSettle
    BY <1>1, <1>3, LogInvSettle
  <1>4. CASE LogQuiet
    <2>1. UNCHANGED <<recorded, pending, table, lost, dropped, sink>>
      BY <1>1, <1>4 DEF LogQuiet, LogUnchanged
    <2>2. /\ phase = "crashed" => phase' = "crashed"
          /\ phase' \in {"open", "destroy", "done"} =>
                phase \in {"open", "destroy", "done"} \/ pending = << >> \/ ~sink
      BY <1>4 DEF LogQuiet
    <2> QED
      BY <2>1, <2>2 DEF LogInv, LogTypeOK
  <1>5. CASE LogCrash
    <2>1. /\ phase' = "crashed" /\ pending' = << >> /\ dropped' = 0
          /\ UNCHANGED <<recorded, table, lost>>
      BY <1>5 DEF LogCrash
    <2>2. Placed(Before(recorded'), Range(recorded'), table', pending', lost')
      BY <2>1, PlacedCrash DEF LogInv
    <2>3. LogTypeOK'
      BY <2>1 DEF LogInv, LogTypeOK
    <2> QED
      BY <2>1, <2>2, <2>3 DEF LogInv
  <1> QED
    BY <1>1, <1>2, <1>3, <1>4, <1>5

\* All of it together.
LEMMA LogInvAlways == ExecutorSpec => [](RunInv /\ OrderInv /\ LogInv)
  <1>1. ExecutorSpec => []RunInv
    BY RunInvInit, RunInvNext, PTL DEF ExecutorSpec
  <1> QED
    BY <1>1, ServerInvAlways, LogInvInit, LogInvNext, PTL DEF ExecutorSpec

\* When run() has ended with a database, every fire is a row, lost or dropped: no
\* wake is in hand, so what was recorded is what was fired, and nothing waits.
THEOREM FiresAreAccounted == ExecutorSpec => []EveryFireAccounted
  <1>1. RunInv /\ OrderInv /\ LogInv => EveryFireAccounted
    <2> SUFFICES ASSUME RunInv, OrderInv, LogInv, phase = "done", sink
                 PROVE  Len(fired) = Len(table) + Cardinality(lost) + dropped /\ pending = << >>
      BY DEF EveryFireAccounted
    <2>1. pending = << >> /\ Len(pending) = 0
      BY DEF LogInv
    <2>2. Len(recorded) = ((Len(table) + Cardinality(lost)) + dropped) + Len(pending)
      BY DEF LogInv
    <2>3. pc \notin {"record", "fire"}
      BY DEF RunInv, Ended
    <2>4. fired = recorded
      BY <2>3 DEF OrderInv, FiredInStep
    <2>5. Len(table) \in Nat /\ Cardinality(lost) \in Nat /\ dropped \in Nat
      BY FS_CardinalityType DEF LogInv, LogTypeOK
    <2> QED
      BY <2>1, <2>2, <2>4, <2>5
  <1> QED
    BY <1>1, LogInvAlways, PTL

\* At any moment, and after a crash, the rows of the table are acked wakes in the order
\* of the acks, and one that was not fired is of the wake in hand.
THEOREM RowsFollowTheAcks == ExecutorSpec => []RowsFollowAcks
  <1>1. RunInv /\ OrderInv /\ LogInv => RowsFollowAcks
    <2> SUFFICES ASSUME OrderInv, LogInv PROVE RowsFollowAcks
      OBVIOUS
    <2>1. /\ acked \in Seq(Nat) /\ recorded \in Seq(Nat) /\ fired \in Seq(Nat) /\ frame \in Nat
          /\ table \in Seq(Nat) /\ DOMAIN acked = 1..Len(acked) /\ DOMAIN table = 1..Len(table)
      BY DEF OrderInv, OrderTypeOK, LogInv, LogTypeOK
    <2>2. /\ SortedBy(Before(recorded), table) /\ Range(table) \subseteq Range(recorded)
      BY DEF LogInv, Placed
    <2>3. \/ recorded = fired /\ (acked = fired \/ acked = Append(fired, frame))
          \/ pc = "fire" /\ recorded = acked /\ acked = Append(fired, frame)
      BY DEF OrderInv, FiredInStep
    <2>4. Range(Append(fired, frame)) = Range(fired) \cup {frame}
      BY <2>1, Ranges, Zenon
    <2>5. Range(table) \subseteq Range(acked)
      BY <2>2, <2>3, <2>4
    <2>6. \A r \in Range(table) \ Range(fired) : r = frame /\ pc = "fire"
      BY <2>2, <2>3, <2>4
    <2>7. recorded = acked \/ acked = Append(recorded, frame)
      BY <2>3
    <2>8. Before(recorded) \subseteq Before(acked)
      BY <2>1, <2>7, BeforeGrows
    <2>9. ASSUME NEW i \in DOMAIN table, NEW j \in DOMAIN table, i < j
          PROVE  AckedBefore(table[i], table[j])
      <3>1. <<table[i], table[j]>> \in Before(acked)
        BY <2>1, <2>2, <2>8, <2>9 DEF SortedBy
      <3> QED
        BY <2>1, <3>1 DEF Before, AckedBefore
    <2> QED
      BY <2>5, <2>6, <2>9 DEF RowsFollowAcks
  <1> QED
    BY <1>1, LogInvAlways, PTL


=============================================================================
