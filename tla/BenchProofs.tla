---------------------------- MODULE BenchProofs ----------------------------
(***************************************************************************)
(* The benchmark program: the request signer, for any keys and requests;   *)
(* the round trip, for any number of wakes and any size of the socket's    *)
(* buffer; and the driver of both, for any options and width of size_t.    *)
(*                                                                         *)
(* The signer's two promises speak of the moment a call has returned.      *)
(* What carries them through a call is what the context holds at each step *)
(* of sign(), and which objects load() has made and not yet handed over.   *)
(*                                                                         *)
(* The round trip's speaks of its end.  What carries it there is where the *)
(* one wake that is under way is: with the client, in the socket, in the   *)
(* worker's hands, or in pieces of an ack.                                 *)
(*                                                                         *)
(* The driver's speaks of its exit status.  The results follow the         *)
(* position of run(), and a sum of the options that wraps ends in a throw. *)
(***************************************************************************)
EXTENDS BenchDriver, SequenceTheorems, TLAPS

-----------------------------------------------------------------------------
(* The request signer: any order of load() and sign(), any OpenSSL call    *)
(* failing and any change of the file.                                     *)

SignerTypeOK ==
    /\ key \in RsaKeys \cup {"none"}
    /\ at \in {"idle", "read", "type", "context", "init", "parameters", "sign"}
    /\ at # "idle" => result = << >>
    /\ leaked \in Nat

\* The objects that exist beside those of key_ are the ones load() works on, and the
\* keys it has lost.
Accounted ==
    live = Live(IF at = "read" THEN 1 ELSE 0,
                Owned + leaked + (IF at \in {"type", "context"} THEN 1 ELSE 0), Owned)

\* A context is given to a key of the right type only, and a signature is computed
\* in a context that this call of sign() has prepared from the start.
Prepared ==
    /\ at = "context" => fresh \in RsaKeys
    /\ at = "parameters" => ctx = Initialised(key)
    /\ at = "sign" => ctx = Context(key, "pss", "digest", "sha256")

\* The inductive invariant.
SignerInv == SignerTypeOK /\ Accounted /\ Prepared /\ SignaturesAreOfThisRequest

\* The invariant holds of a signer just constructed.
LEMMA SignerInvInit == SignerInit => SignerInv
  BY DEF SignerInit, SignerInv, SignerTypeOK, Accounted, Prepared, Owned,
         SignaturesAreOfThisRequest

\* Every step of load(), whether OpenSSL's call in it succeeds or fails.
LEMMA SignerInvLoad ==
  ASSUME SignerInv, LoadOpens \/ LoadStep
  PROVE  SignerInv'
  <1> USE SignerAssumption DEF Proceed, GiveBack
  <1>1. SignerTypeOK' /\ Prepared'
    BY DEF SignerInv, SignerTypeOK, Prepared, LoadOpens, LoadStep, LoadReads,
           LoadChecksType, LoadKeeps
  <1>2. Accounted'
    BY DEF SignerInv, SignerTypeOK, Accounted, Prepared, Owned, Live, LoadOpens,
           LoadStep, LoadReads, LoadChecksType, LoadKeeps
  <1>3. SignaturesAreOfThisRequest'
    BY DEF SignaturesAreOfThisRequest, LoadOpens, LoadStep, LoadReads,
           LoadChecksType, LoadKeeps
  <1> QED
    BY <1>1, <1>2, <1>3 DEF SignerInv

\* Every step of sign(), likewise.
LEMMA SignerInvSign ==
  ASSUME SignerInv, Sign \/ SignStep
  PROVE  SignerInv'
  <1> USE DEF SignerInv, SignerTypeOK, Accounted, Prepared,
          SignaturesAreOfThisRequest, Owned, Proceed, GiveBack
  <1>1. ASSUME NEW request, SignAssembles(request)
        PROVE  SignerInv'
    BY <1>1 DEF SignAssembles
  <1>2. CASE SignInitialises
    BY <1>2 DEF SignInitialises
  <1>3. CASE SignSetsParameters
    BY <1>3 DEF SignSetsParameters, Initialised, Context
  <1>4. CASE SignComputes
    BY <1>4 DEF SignComputes, Signature, Base64
  <1> QED
    BY <1>1, <1>2, <1>3, <1>4 DEF Sign, SignStep

\* No step breaks the invariant.
LEMMA SignerInvNext == SignerInv /\ [SignerNext]_signerVars => SignerInv'
  <1> SUFFICES ASSUME SignerInv, [SignerNext]_signerVars PROVE SignerInv'
    OBVIOUS
  <1>1. CASE FileChanges \/ UNCHANGED signerVars
    BY <1>1 DEF FileChanges, signerVars, SignerInv, SignerTypeOK, Accounted, Prepared,
                SignaturesAreOfThisRequest, Owned
  <1> QED
    BY <1>1, SignerInvLoad, SignerInvSign DEF SignerNext

\* Whatever failed half-way before it in the same context and buffer, a signature
\* that sign() returns is of the request of this call, by the loaded key, with
\* the PSS parameters.
THEOREM SignsThisRequest == SignerSpec => []SignaturesAreOfThisRequest
  <1>1. SignerInv => SignaturesAreOfThisRequest
    BY DEF SignerInv
  <1> QED
    BY <1>1, SignerInvInit, SignerInvNext, PTL DEF SignerSpec

\* On every way out of load() and sign() OpenSSL holds what key_ owns, and beyond it
\* the keys whose owner could not be allocated, and no more.
THEOREM LeaksNothing == SignerSpec => []OwnsWhatItHolds
  <1>1. SignerInv => OwnsWhatItHolds
    BY DEF SignerInv, SignerTypeOK, Accounted, OwnsWhatItHolds, Owned
  <1> QED
    BY <1>1, SignerInvInit, SignerInvNext, PTL DEF SignerSpec

-----------------------------------------------------------------------------
(* The round trip.                                                         *)

\* A step of bench_roundtrip, which is started with any number of samples.
RoundtripNext == BenchNext \/ \E n \in Nat : BenchStart(n)

Pieces == {"head", "rest"}
Ends == {"none", "pending", "serving", "shut", "closed"}

RoundtripTypeOK ==
    /\ acks \in Seq(Nat) /\ got \in Seq(Nat \X Pieces) /\ total \in Nat /\ failed \in BOOLEAN
    /\ frames \in Seq([from : Clients, kind : Kinds]) /\ half \in [Clients -> Nat]
    /\ inbox \in [Clients -> Seq(Nat)] /\ outbox \in [Clients -> Seq(Nat \X Pieces)]
    /\ acked \in Seq(Nat) /\ recorded \in Seq(Nat) /\ fired \in Seq(Nat)
    /\ frame \in Nat /\ sent \in 0..Len(Ack) /\ (pc = "send" => sent < Len(Ack))
    /\ backlog \in Seq(Clients) /\ link \in [Clients -> Ends]

\* The worker serves the client, if anyone, which stays until it is closed and is not
\* shut down before.
ServesPoller ==
    /\ pc \in {"polled", "accept"} => backlog # << >>
    /\ pc \in {"store_fd", "loop", "read_prefix", "read_body", "send", "record", "fire",
               "clear_fd", "close"} => cur = Poller
    /\ bpc \in {"send", "send_rest", "read"} => Poller \in open
    /\ bpc \notin {"stop", "join", "done"} => link[Poller] # "shut"
    /\ bpc = "done" => Ended

\* Between its ack and its fire there is one wake at most.
FiresInStep ==
    /\ pc = "record" => Len(recorded) = Len(fired) /\ Len(acked) = Len(fired) + 1
    /\ pc = "fire" => Len(recorded) = Len(acked) /\ Len(acked) = Len(fired) + 1
    /\ pc \notin {"record", "fire"} => Len(recorded) = Len(acked) /\ Len(fired) = Len(acked)

\* The worker has a frame in hand that it has read or begun to read.
InHand == pc \in {"read_body", "send"}

\* k chunks of the last frame, and nothing else, are on their way to the worker.
InFlight(k) ==
    Len(inbox[Poller]) = k /\ \A i \in 1..k : inbox[Poller][i] = Len(frames)

\* No ack is on its way, or read in part.
Silent == outbox[Poller] = << >> /\ got = << >>

\* k chunks of the last frame's ack have been sent, of which one at most is read.
Answering(k) ==
    /\ Len(got) + Len(outbox[Poller]) = k /\ Len(got) <= 1
    /\ \A i \in 1..Len(got) : got[i][1] = Len(frames)
    /\ \A i \in 1..Len(outbox[Poller]) : outbox[Poller][i][1] = Len(frames)

\* Nothing is under way after k wakes.
Quiet(k) == Len(frames) = k /\ Len(acked) = k /\ ~InHand /\ InFlight(0)

\* k chunks of the next wake have been sent, and none of its ack.
Asked(k) ==
    /\ Silent
    /\ \/ ~InHand /\ InFlight(k)
       \/ pc = "read_body" /\ frame = Len(frames) /\ InFlight(k - 1)

\* A wake is under way, the first that is not answered.
UnderWay == Len(frames) = Len(acks) + 1

\* Where the exchange is while nothing has failed.
Exchange ==
    \/ bpc \in {"idle", "connect"} /\ acks = << >> /\ Quiet(0) /\ Silent /\ half[Poller] = 0
    \/ bpc = "send" /\ Quiet(Len(acks)) /\ Silent /\ half[Poller] = 0
    \/ /\ bpc = "send_rest" /\ UnderWay /\ Len(acked) = Len(acks) /\ Asked(1)
       /\ half[Poller] = Len(frames)
    \/ /\ bpc = "read" /\ UnderWay /\ half[Poller] = 0
       /\ \/ Len(acked) = Len(acks) /\ Asked(2)
          \/ /\ Len(acked) = Len(acks) /\ pc = "send" /\ frame = Len(frames) /\ InFlight(0)
             /\ Answering(sent)
          \/ Len(acked) = Len(frames) /\ ~InHand /\ InFlight(0) /\ Answering(Len(Ack))
    \/ bpc \in {"close", "stop", "join", "done"} /\ Len(acks) = total /\ Quiet(total)

\* The inductive invariant of the round trip.
RoundtripInv ==
    /\ RoundtripTypeOK /\ ServesPoller /\ FiresInStep
    /\ \A i \in 1..Len(acks) : acks[i] = i
    /\ \A i \in 1..Len(frames) : frames[i].kind = "wake"
    /\ IF failed THEN bpc \in {"close", "stop", "join", "done"} ELSE Exchange

\* The client is the only peer.
LEMMA PollerFacts == Poller \in Clients /\ Poller # NoClient /\ Clients \subseteq Nat /\ Len(Ack) = 2
  BY BenchAssumption, ServerAssumption DEF NoClient, Ack

\* bench_roundtrip has not begun.
LEMMA RoundtripInvInit == BenchInit => RoundtripInv
  <1> SUFFICES ASSUME BenchInit PROVE RoundtripInv
    OBVIOUS
  <1> USE DEF BenchInit, Init
  <1>1. RoundtripTypeOK
    <2>1. /\ acks \in Seq(Nat) /\ got \in Seq(Nat \X Pieces)
          /\ frames \in Seq([from : Clients, kind : Kinds])
          /\ acked \in Seq(Nat) /\ recorded \in Seq(Nat) /\ fired \in Seq(Nat)
          /\ backlog \in Seq(Clients)
      OBVIOUS
    <2>2. half \in [Clients -> Nat] /\ link \in [Clients -> Ends]
      BY DEF Ends
    <2>3. inbox \in [Clients -> Seq(Nat)] /\ outbox \in [Clients -> Seq(Nat \X Pieces)]
      OBVIOUS
    <2>4. frame \in Nat /\ sent \in 0..Len(Ack) /\ total \in Nat
      BY PollerFacts
    <2>5. failed \in BOOLEAN
      BY Zenon
    <2> QED
      BY <2>1, <2>2, <2>3, <2>4, <2>5 DEF RoundtripTypeOK
  <1>2. ServesPoller /\ FiresInStep
    BY PollerFacts DEF ServesPoller, FiresInStep
  <1>3. Exchange
    BY PollerFacts DEF Exchange, Quiet, Silent, InHand, InFlight
  <1> QED
    BY <1>1, <1>2, <1>3 DEF RoundtripInv

\* The worker's steps that read and send nothing.
WorkerAside ==
    \/ Check \/ Poll \/ PollFails \/ Polled \/ Accept \/ WorkerAcceptFails \/ PublishConnection
    \/ WithdrawConnection \/ CloseConnection \/ WorkerReturns \/ LoopTop
    \/ RecordWakeRecv \/ Fire \/ BufferDrains

\* They leave both directions of the connection alone.
LEMMA AsideSteps ==
  ASSUME WorkerAside, RoundtripTypeOK
  PROVE  /\ UNCHANGED <<frames, half, inbox, outbox, acked, frame, sent, open>>
         /\ \/ pc' = pc \/ pc \notin {"read_body", "send"}
         /\ pc' \notin {"read_body", "send"} \/ pc' = pc
  <1>1. CASE Check \/ Poll \/ PollFails \/ Polled \/ WorkerReturns \/ LoopTop
    BY <1>1, Zenon DEF Check, Poll, PollFails, Polled, WorkerReturns, LoopTop, Go, statVars, serverRest, peerVars
  <1>2. CASE Accept \/ WorkerAcceptFails \/ CloseConnection
    BY <1>2 DEF Accept, WorkerAcceptFails, CloseConnection, Go, statVars, serverRest, peerVars
  <1>3. CASE PublishConnection \/ WithdrawConnection \/ BufferDrains
    BY <1>3 DEF PublishConnection, WithdrawConnection, BufferDrains, Go, statVars, serverRest,
           peerVars
  <1>4. CASE RecordWakeRecv \/ Fire
    BY <1>4 DEF RecordWakeRecv, Fire, Go, serverRest, peerVars
  <1> QED
    BY <1>1, <1>2, <1>3, <1>4 DEF WorkerAside

\* So the exchange stays where it is.
LEMMA ExchangeStays ==
  ASSUME Exchange, UNCHANGED <<frames, half, inbox, outbox, acked, frame, sent, benchVars>>,
         pc' = pc \/ (~InHand /\ ~InHand')
  PROVE  Exchange'
  <1>1. UNCHANGED <<bpc, total, failed, got, acks>>
    BY DEF benchVars
  <1>2. InHand' = InHand /\ (pc = "read_body" <=> pc' = "read_body") /\ (pc = "send" <=> pc' = "send")
    BY DEF InHand
  <1> QED
    BY <1>1, <1>2 DEF Exchange, Quiet, Silent, InFlight, Answering, Asked, UnderWay

\* The worker's other steps.
WorkerTalks == ReadEnds \/ ReadPrefix \/ ReadBody \/ SendAck \/ SendFails

\* What a step of the round trip is.
LEMMA RoundtripSteps ==
  ASSUME [RoundtripNext]_roundtripVars
  PROVE  \/ (WorkerAside \/ WorkerTalks) /\ UNCHANGED benchVars
         \/ BenchConnect \/ BenchSend \/ BenchSendRest \/ BenchRead \/ BenchReadFails
         \/ BenchAllAnswered \/ BenchClose \/ BenchStop \/ BenchJoin
         \/ \E n \in Nat : BenchStart(n)
         \/ UNCHANGED roundtripVars
  BY Zenon DEF RoundtripNext, BenchNext, Bench, Worker, WorkerAside, WorkerTalks

\* The worker's steps keep the types.
LEMMA WorkerTypes ==
  ASSUME RoundtripInv, WorkerAside \/ WorkerTalks, UNCHANGED benchVars
  PROVE  RoundtripTypeOK'
  <1>1. UNCHANGED <<bpc, total, failed, got, acks>>
    BY DEF benchVars
  <1>2. RoundtripTypeOK /\ ServesPoller
    BY DEF RoundtripInv
  <1> USE <1>1, <1>2, PollerFacts DEF RoundtripTypeOK
  <1>3. CASE WorkerAside
    <2>1. /\ UNCHANGED <<frames, half, inbox, outbox, acked, frame, sent>>
          /\ pc' = "send" => pc = "send"
      BY <1>3, AsideSteps
    <2>2. CASE Check \/ Poll \/ PollFails \/ Polled \/ WorkerAcceptFails \/ PublishConnection \/ WithdrawConnection
               \/ WorkerReturns \/ LoopTop \/ BufferDrains
      <3>1. UNCHANGED <<statVars, backlog, link>>
        BY <2>2, Zenon DEF Check, Poll, PollFails, Polled, WorkerAcceptFails, PublishConnection,
               WithdrawConnection, WorkerReturns, LoopTop, BufferDrains
      <3> QED
        BY <2>1, <3>1 DEF statVars
    <2>3. CASE Accept
      <3>1. backlog # << >>
        BY <2>3 DEF Accept, ServesPoller
      <3>2. UNCHANGED statVars /\ backlog' \in Seq(Clients) /\ link' \in [Clients -> Ends]
        BY <2>3, <3>1 DEF Accept, Ends
      <3> QED
        BY <2>1, <3>2 DEF statVars
    <2>4. CASE CloseConnection
      <3>1. UNCHANGED statVars /\ UNCHANGED backlog /\ link' \in [Clients -> Ends]
        BY <2>4 DEF CloseConnection, Ends
      <3> QED
        BY <2>1, <3>1 DEF statVars
    <2>5. CASE RecordWakeRecv \/ Fire
      <3>1. Append(recorded, frame) \in Seq(Nat) /\ Append(fired, frame) \in Seq(Nat)
        OBVIOUS
      <3>2. /\ recorded' \in {recorded, Append(recorded, frame)}
            /\ fired' \in {fired, Append(fired, frame)} /\ UNCHANGED <<backlog, link>>
        BY <2>5 DEF RecordWakeRecv, Fire
      <3>3. recorded' \in Seq(Nat) /\ fired' \in Seq(Nat)
        BY <3>1, <3>2
      <3> QED
        BY <2>1, <3>2, <3>3
    <2> QED
      BY <1>3, <2>2, <2>3, <2>4, <2>5 DEF WorkerAside
  <1>4. CASE ReadEnds \/ SendFails
    BY <1>4 DEF ReadEnds, SendFails, Go, statVars, serverRest, peerVars
  <1>5. CASE ReadPrefix \/ ReadBody
    <2>1. cur = Poller
      BY <1>5 DEF ReadPrefix, ReadBody, ServesPoller
    <2>2. inbox' \in [Clients -> Seq(Nat)] /\ frame' \in Nat
      <3>1. inbox[Poller] \in Seq(Nat) /\ inbox[Poller] # << >>
        BY <1>5, <2>1 DEF ReadPrefix, ReadBody
      <3>2. Tail(inbox[Poller]) \in Seq(Nat) /\ Head(inbox[Poller]) \in Nat
        BY <3>1
      <3> QED
        BY <1>5, <2>1, <3>2 DEF ReadPrefix, ReadBody
    <2>3. /\ sent' \in 0..Len(Ack) /\ (pc' = "send" => sent' < Len(Ack))
          /\ UNCHANGED <<acked, recorded, fired>>
      BY <1>5, SMTT(30) DEF ReadPrefix, ReadBody, CountFrame, Go, statVars
    <2>4. UNCHANGED <<frames, half, outbox, backlog, link>>
      BY <1>5 DEF ReadPrefix, ReadBody, serverRest, peerVars
    <2> QED
      BY <2>2, <2>3, <2>4
  <1>6. CASE SendAck
    <2>1. cur = Poller /\ frame \in Nat /\ outbox[Poller] \in Seq(Nat \X Pieces)
      BY <1>6 DEF SendAck, ServesPoller
    <2>2. Ack[sent + 1] \in Pieces /\ sent + 1 \in 0..Len(Ack)
      BY <1>6, SMTT(30) DEF SendAck, Ack, Pieces
    <2>3. Append(outbox[Poller], <<frame, Ack[sent + 1]>>) \in Seq(Nat \X Pieces)
      BY <2>1, <2>2, SMTT(30)
    <2>4. outbox' \in [Clients -> Seq(Nat \X Pieces)]
      BY <1>6, <2>1, <2>3 DEF SendAck
    <2>5. sent' \in 0..Len(Ack) /\ (pc' = "send" => sent' < Len(Ack))
      BY <1>6, <2>2 DEF SendAck, Go
    <2>6. acked' \in Seq(Nat)
      <3>1. acked' \in {acked, Append(acked, frame)}
        BY <1>6 DEF SendAck
      <3>2. Append(acked, frame) \in Seq(Nat)
        BY <2>1
      <3> QED
        BY <3>1, <3>2
    <2> QED
      BY <1>6, <2>4, <2>5, <2>6 DEF SendAck, serverRest, peerVars
  <1> QED
    BY <1>3, <1>4, <1>5, <1>6 DEF WorkerTalks

\* The benchmark's steps keep the types.
LEMMA BenchTypes ==
  ASSUME RoundtripInv,
         \/ BenchConnect \/ BenchSend \/ BenchSendRest \/ BenchRead \/ BenchReadFails
         \/ BenchAllAnswered \/ BenchClose \/ BenchStop \/ BenchJoin
         \/ \E n \in Nat : BenchStart(n)
         \/ UNCHANGED roundtripVars
  PROVE  RoundtripTypeOK'
  <1>1. RoundtripTypeOK
    BY DEF RoundtripInv
  <1> USE <1>1, PollerFacts DEF RoundtripTypeOK
  <1>2. CASE \/ BenchReadFails \/ BenchAllAnswered \/ BenchJoin \/ UNCHANGED roundtripVars
             \/ \E n \in Nat : BenchStart(n)
    <2>1. UNCHANGED vars /\ UNCHANGED <<got, acks>>
      BY <1>2 DEF BenchReadFails, BenchAllAnswered, BenchJoin, BenchStart, Throw, roundtripVars,
             benchVars
    <2>2. total' \in Nat
      BY <1>2 DEF BenchReadFails, BenchAllAnswered, BenchJoin, BenchStart,
             Throw, roundtripVars, benchVars
    <2>3. failed' \in BOOLEAN
      BY <1>2, Zenon DEF BenchReadFails, BenchAllAnswered, BenchJoin, BenchStart, Throw,
             roundtripVars, benchVars
    <2> QED
      BY <2>1, <2>2, <2>3 DEF vars, statVars, peerVars
  <1>3. CASE BenchConnect
    <2>1. UNCHANGED <<total, got, acks>>
      BY <1>3 DEF BenchConnect, Throw
    <2>2. failed' \in BOOLEAN
      BY <1>3, Zenon DEF BenchConnect, Throw
    <2>3. UNCHANGED <<frames, inbox, half, outbox, pc, frame, sent, statVars>>
      BY <1>3 DEF BenchConnect, Connect, peerRest, vars, peerVars
    <2>4. link' \in [Clients -> Ends] /\ backlog' \in Seq(Clients)
      <3>1. Append(backlog, Poller) \in Seq(Clients)
            /\ [link EXCEPT ![Poller] = "pending"] \in [Clients -> Ends]
        BY DEF Ends
      <3> QED
        BY <1>3, <3>1 DEF BenchConnect, Connect, vars
    <2> QED
      BY <2>1, <2>2, <2>3, <2>4 DEF statVars
  <1>4. CASE BenchSend
    <2>1. UNCHANGED <<total, failed, got, acks, backlog, link, outbox, pc, frame, sent, statVars>>
      BY <1>4 DEF BenchSend, SendPrefix, peerRest
    <2>2. frames' \in Seq([from : Clients, kind : Kinds]) /\ Len(frames') \in Nat
      BY <1>4 DEF BenchSend, SendPrefix, Kinds
    <2>3. Append(inbox[Poller], Len(frames')) \in Seq(Nat)
      BY <2>2
    <2>4. inbox' \in [Clients -> Seq(Nat)] /\ half' \in [Clients -> Nat]
      BY <1>4, <2>2, <2>3 DEF BenchSend, SendPrefix
    <2> QED
      BY <2>1, <2>2, <2>4 DEF statVars
  <1>5. CASE BenchSendRest
    <2>1. /\ UNCHANGED <<total, failed, got, acks, backlog, link, outbox, frames, pc, frame, sent>>
          /\ UNCHANGED statVars
      BY <1>5 DEF BenchSendRest, SendBody, peerRest
    <2>2. Append(inbox[Poller], half[Poller]) \in Seq(Nat)
      OBVIOUS
    <2>3. inbox' \in [Clients -> Seq(Nat)] /\ half' \in [Clients -> Nat]
      BY <1>5, <2>2 DEF BenchSendRest, SendBody
    <2> QED
      BY <2>1, <2>3 DEF statVars
  <1>6. CASE BenchRead
    <2>1. UNCHANGED <<total, failed, frames, half, backlog, link, inbox, pc, frame, sent, statVars>>
      BY <1>6 DEF BenchRead, ReadAck, peerRest
    <2>2. outbox[Poller] \in Seq(Nat \X Pieces) /\ outbox[Poller] # << >>
      BY <1>6 DEF BenchRead, ReadAck
    <2>3. Tail(outbox[Poller]) \in Seq(Nat \X Pieces) /\ Head(outbox[Poller]) \in Nat \X Pieces
      BY <2>2
    <2> DEFINE chunks == Append(got, Head(outbox[Poller]))
    <2>4. chunks \in Seq(Nat \X Pieces) /\ chunks[1] \in Nat \X Pieces
      BY <2>3, SMTT(30)
    <2>5. chunks[1][1] \in Nat
      BY <2>4
    <2>6. /\ got' \in {chunks, << >>} /\ acks' \in {acks, Append(acks, chunks[1][1])}
          /\ outbox' = [outbox EXCEPT ![Poller] = Tail(@)]
      BY <1>6, Zenon DEF BenchRead, ReadAck
    <2> HIDE DEF chunks
    <2>7. got' \in Seq(Nat \X Pieces) /\ acks' \in Seq(Nat)
      <3>1. Append(acks, chunks[1][1]) \in Seq(Nat) /\ << >> \in Seq(Nat \X Pieces)
        BY <2>5
      <3> QED
        BY <2>4, <2>6, <3>1
    <2>8. outbox' \in [Clients -> Seq(Nat \X Pieces)]
      BY <2>3, <2>6
    <2> QED
      BY <2>1, <2>7, <2>8 DEF statVars
  <1>7. CASE BenchClose
    BY <1>7 DEF BenchClose, Disconnect, peerRest, vars, statVars, peerVars
  <1>8. CASE BenchStop
    <2>1. UNCHANGED <<total, failed, got, acks, stopRest>>
      BY <1>8 DEF BenchStop, StopStoresFlag, StopWritesPipe, StopLoadsFd, StopShutsDown
    <2>2. link' \in {link, Shut(stop_fd)}
      BY <1>8 DEF BenchStop, StopStoresFlag, StopWritesPipe, StopLoadsFd, StopShutsDown
    <2>3. Shut(stop_fd) \in [Clients -> Ends]
      BY DEF Shut, Ends
    <2> QED
      BY <2>1, <2>2, <2>3 DEF stopRest, peerVars, statVars
  <1> QED
    BY <1>2, <1>3, <1>4, <1>5, <1>6, <1>7, <1>8

\* The worker goes on serving the client, and ends once.
LEMMA ServesPollerNext ==
  ASSUME RoundtripInv, [RoundtripNext]_roundtripVars
  PROVE  ServesPoller'
  <1>1. RoundtripTypeOK /\ ServesPoller
    BY DEF RoundtripInv
  <1> USE <1>1, PollerFacts
  <1>2. CASE WorkerAside /\ UNCHANGED benchVars
    <2>1. UNCHANGED <<open, bpc>>
      BY <1>2, AsideSteps DEF benchVars
    <2>2. CASE Accept
      <3>1. Head(backlog) = Poller
        <4>1. backlog \in Seq(Clients) /\ backlog # << >>
          BY <2>2 DEF Accept, ServesPoller, RoundtripTypeOK
        <4>2. Head(backlog) \in Clients
          BY <4>1
        <4> QED
          BY <4>2, BenchAssumption
      <3>2. cur' = Poller /\ link'[Poller] # "shut" /\ pc' = "store_fd" /\ ~Ended
        BY <2>2, <3>1 DEF Accept, Go, RoundtripTypeOK, Ended
      <3> QED
        BY <2>1, <3>2 DEF ServesPoller
    <2>3. CASE CloseConnection
      <3>1. link'[Poller] = "closed" /\ pc' = "return" /\ pc = "close"
        BY <2>3 DEF CloseConnection, Go, ServesPoller, RoundtripTypeOK
      <3> QED
        BY <2>1, <3>1 DEF ServesPoller, Ended
    <2>4. CASE BufferDrains
      <3>1. UNCHANGED <<pc, cur, backlog, link>>
        BY <2>4 DEF BufferDrains
      <3> QED
        BY <2>1, <3>1 DEF ServesPoller, Ended
    <2>5. CASE Check \/ Poll \/ PollFails \/ Polled \/ WorkerAcceptFails \/ WorkerReturns
      <3>1. UNCHANGED <<cur, backlog, link>>
        BY <2>5 DEF Check, Poll, PollFails, Polled, WorkerAcceptFails, WorkerReturns
      <3>2. /\ ~Ended /\ pc' \in {"poll", "polled", "accept", "exited", "check", "gave_up"}
            /\ pc' \in {"polled", "accept"} => pc = "polled" \/ backlog # << >>
        BY <2>5 DEF Check, Poll, PollFails, Polled, WorkerAcceptFails, WorkerReturns, Go, Ended
      <3> QED
        BY <2>1, <3>1, <3>2 DEF ServesPoller
    <2>6. CASE PublishConnection \/ WithdrawConnection \/ LoopTop \/ RecordWakeRecv \/ Fire
      <3>1. UNCHANGED <<cur, backlog, link>>
        BY <2>6 DEF PublishConnection, WithdrawConnection, LoopTop, RecordWakeRecv, Fire
      <3>2. /\ pc \in {"store_fd", "clear_fd", "loop", "record", "fire"}
            /\ pc' \in {"loop", "close", "clear_fd", "read_prefix", "fire"}
        BY <2>6 DEF PublishConnection, WithdrawConnection, LoopTop, RecordWakeRecv, Fire, Go
      <3> QED
        BY <2>1, <3>1, <3>2 DEF ServesPoller, Ended
    <2> QED
      BY <1>2, <2>2, <2>3, <2>4, <2>5, <2>6 DEF WorkerAside
  <1>3. CASE WorkerTalks /\ UNCHANGED benchVars
    <2>1. UNCHANGED <<cur, backlog, link, open, bpc>>
      BY <1>3 DEF WorkerTalks, ReadEnds, ReadPrefix, ReadBody, SendAck, SendFails, serverRest,
             peerVars, benchVars
    <2>2. /\ pc \in {"read_prefix", "read_body", "send"}
          /\ pc' \in {"clear_fd", "send", "read_body", "record", "loop"}
      BY <1>3 DEF WorkerTalks, ReadEnds, ReadPrefix, ReadBody, SendAck, SendFails, CountFrame, Go
    <2> QED
      BY <2>1, <2>2 DEF ServesPoller, Ended
  <1>4. CASE BenchConnect
    <2>1. UNCHANGED <<pc, cur>> /\ bpc = "connect" /\ bpc' \in {"send", "close"}
      BY <1>4 DEF BenchConnect, Connect, Throw, peerRest, vars
    <2>2. backlog' # << >> \/ backlog' = backlog
      <3>1. backlog \in Seq(Clients) /\ Poller \in Clients
        BY DEF RoundtripTypeOK
      <3>2. Append(backlog, Poller) # << >>
        BY <3>1
      <3> QED
        BY <1>4, <3>2 DEF BenchConnect, Connect, vars
    <2>3. link'[Poller] # "shut" /\ (bpc' = "send" => Poller \in open')
      BY <1>4, <2>1 DEF BenchConnect, Connect, Throw, vars, RoundtripTypeOK, ServesPoller
    <2> QED
      BY <2>1, <2>2, <2>3 DEF ServesPoller
  <1>5. CASE BenchSend \/ BenchSendRest \/ BenchRead
    <2>1. UNCHANGED <<pc, cur, backlog, link, open>>
      BY <1>5 DEF BenchSend, BenchSendRest, BenchRead, SendPrefix, SendBody, ReadAck, peerRest
    <2>2. bpc \in {"send", "send_rest", "read"} /\ bpc' \in {"send", "send_rest", "read"}
      BY <1>5 DEF BenchSend, BenchSendRest, BenchRead
    <2> QED
      BY <2>1, <2>2 DEF ServesPoller
  <1>6. CASE BenchReadFails \/ BenchAllAnswered \/ BenchJoin \/ \E n \in Nat : BenchStart(n)
    <2>1. UNCHANGED <<pc, cur, backlog, link, open>>
      BY <1>6 DEF BenchReadFails, BenchAllAnswered, BenchJoin, BenchStart, vars, peerVars
    <2>2. \/ bpc \notin {"stop", "join", "done"} /\ bpc' \in {"close", "connect"}
          \/ bpc = "join" /\ bpc' = "done" /\ Ended
      BY <1>6 DEF BenchReadFails, BenchAllAnswered, BenchJoin, BenchStart, Throw
    <2> QED
      BY <2>1, <2>2 DEF ServesPoller, Ended
  <1>7. CASE BenchClose
    <2>1. UNCHANGED <<pc, cur, backlog, link>> /\ bpc' = "stop"
      BY <1>7 DEF BenchClose, Disconnect, peerRest, vars
    <2> QED
      BY <2>1 DEF ServesPoller
  <1>8. CASE BenchStop
    <2>1. UNCHANGED <<pc, cur, backlog>> /\ bpc' \in {"stop", "join"}
      BY <1>8 DEF BenchStop, StopStoresFlag, StopWritesPipe, StopLoadsFd, StopShutsDown, stopRest
    <2> QED
      BY <2>1 DEF ServesPoller
  <1>9. CASE UNCHANGED roundtripVars
    BY <1>9 DEF ServesPoller, roundtripVars, benchVars, vars, peerVars, Ended
  <1> QED
    BY RoundtripSteps, <1>2, <1>3, <1>4, <1>5, <1>6, <1>7, <1>8, <1>9

\* A wake acked is recorded, then fired.
LEMMA FiresInStepNext ==
  ASSUME RoundtripInv, [RoundtripNext]_roundtripVars
  PROVE  FiresInStep'
  <1>1. RoundtripTypeOK /\ FiresInStep
    BY DEF RoundtripInv
  <1>2. ASSUME UNCHANGED <<acked, recorded, fired>>,
               pc' = pc \/ (pc \notin {"record", "fire"} /\ pc' \notin {"record", "fire"})
        PROVE  FiresInStep'
    BY <1>1, <1>2 DEF FiresInStep
  <1>3. /\ Len(acked) \in Nat /\ Len(Append(acked, frame)) = Len(acked) + 1
        /\ Len(recorded) \in Nat /\ Len(Append(recorded, frame)) = Len(recorded) + 1
        /\ Len(fired) \in Nat /\ Len(Append(fired, frame)) = Len(fired) + 1
    BY <1>1 DEF RoundtripTypeOK
  <1>4. CASE WorkerAside
    <2>1. CASE RecordWakeRecv \/ Fire
      BY <1>1, <1>3, <2>1 DEF RecordWakeRecv, Fire, Go, FiresInStep
    <2>2. CASE ~(RecordWakeRecv \/ Fire)
      <3>1. UNCHANGED statVars
        BY <1>4, <2>2, Zenon DEF WorkerAside, Check, Poll, PollFails, Polled, Accept, WorkerAcceptFails, PublishConnection,
               WithdrawConnection, CloseConnection, WorkerReturns, LoopTop, BufferDrains
      <3>2. pc' = pc \/ (pc \notin {"record", "fire"} /\ pc' \notin {"record", "fire"})
        BY <1>4, <2>2 DEF WorkerAside, Check, Poll, PollFails, Polled, Accept, WorkerAcceptFails, PublishConnection,
               WithdrawConnection, CloseConnection, WorkerReturns, LoopTop, BufferDrains, Go
      <3> QED
        BY <1>2, <3>1, <3>2 DEF statVars
    <2> QED
      BY <2>1, <2>2
  <1>5. CASE ReadEnds \/ ReadPrefix \/ ReadBody \/ SendFails
    <2>1. UNCHANGED <<acked, recorded, fired>>
      BY <1>5 DEF ReadEnds, ReadPrefix, ReadBody, SendFails, CountFrame, statVars
    <2>2. pc \notin {"record", "fire"} /\ pc' \notin {"record", "fire"}
      BY <1>5 DEF ReadEnds, ReadPrefix, ReadBody, SendFails, CountFrame, Go
    <2> QED
      BY <1>2, <2>1, <2>2
  <1>6. CASE SendAck
    <2>1. UNCHANGED <<recorded, fired>> /\ pc = "send"
      BY <1>6 DEF SendAck
    <2>2. \/ UNCHANGED acked /\ pc' \in {"send", "loop"}
          \/ acked' = Append(acked, frame) /\ pc' = "record"
      BY <1>6 DEF SendAck, Go
    <2> QED
      BY <1>1, <1>3, <2>1, <2>2 DEF FiresInStep
  <1>7. CASE \/ BenchConnect \/ BenchSend \/ BenchSendRest \/ BenchRead \/ BenchReadFails
             \/ BenchAllAnswered \/ BenchClose \/ BenchStop \/ BenchJoin
             \/ \E n \in Nat : BenchStart(n)
             \/ UNCHANGED roundtripVars
    <2>1. UNCHANGED <<pc, statVars>>
      <3>1. CASE BenchConnect \/ BenchSend \/ BenchSendRest \/ BenchRead \/ BenchClose
        BY <3>1 DEF BenchConnect, BenchSend, BenchSendRest, BenchRead, BenchClose, Connect,
               SendPrefix, SendBody, ReadAck, Disconnect, peerRest, vars
      <3>2. CASE BenchStop
        BY <3>2 DEF BenchStop, StopStoresFlag, StopWritesPipe, StopLoadsFd, StopShutsDown, stopRest
      <3>3. CASE \/ BenchReadFails \/ BenchAllAnswered \/ BenchJoin \/ UNCHANGED roundtripVars
                 \/ \E n \in Nat : BenchStart(n)
        BY <3>3 DEF BenchReadFails, BenchAllAnswered, BenchJoin, BenchStart, roundtripVars, vars
      <3> QED
        BY <1>7, <3>1, <3>2, <3>3
    <2> QED
      BY <1>2, <2>1 DEF statVars
  <1> QED
    BY RoundtripSteps, <1>4, <1>5, <1>6, <1>7 DEF WorkerTalks

\* The first chunk taken from a sequence.
LEMMA Taken ==
  ASSUME NEW T, NEW s \in Seq(T), s # << >>
  PROVE  /\ Tail(s) \in Seq(T) /\ Len(s) \in Nat /\ Len(s) >= 1 /\ Len(Tail(s)) = Len(s) - 1
         /\ Head(s) = s[1] /\ \A i \in 1..(Len(s) - 1) : Tail(s)[i] = s[i + 1]
  BY HeadTailProperties

\* What the worker reads and sends is of the wake under way.
LEMMA ExchangeTalks ==
  ASSUME RoundtripInv, ~failed, WorkerTalks, UNCHANGED benchVars
  PROVE  Exchange'
  <1>1. RoundtripTypeOK /\ ServesPoller /\ Exchange /\ \A i \in 1..Len(frames) : frames[i].kind = "wake"
    BY DEF RoundtripInv
  <1>2. UNCHANGED <<bpc, total, failed, got, acks>>
    BY DEF benchVars
  <1>3. UNCHANGED <<frames, half, open>> /\ cur = Poller /\ pc \in {"read_prefix", "read_body", "send"}
    BY <1>1 DEF WorkerTalks, ReadEnds, ReadPrefix, ReadBody, SendAck, SendFails, serverRest,
           peerVars, ServesPoller
  <1>4. /\ Len(frames) \in Nat /\ Len(acks) \in Nat /\ Len(acked) \in Nat /\ frame \in Nat
        /\ inbox[Poller] \in Seq(Nat) /\ Len(inbox[Poller]) \in Nat
        /\ outbox[Poller] \in Seq(Nat \X Pieces) /\ got \in Seq(Nat \X Pieces)
        /\ Len(outbox[Poller]) \in Nat /\ Len(got) \in Nat
    BY <1>1, PollerFacts DEF RoundtripTypeOK
  <1>5. InHand => bpc \in {"send_rest", "read"} /\ ~HungUp(cur)
    BY <1>1, <1>3 DEF Exchange, Quiet, Asked, ServesPoller, HungUp
  <1>6. CASE ReadEnds \/ SendFails
    <2>1. ~InHand /\ ~InHand'
      BY <1>5, <1>6 DEF ReadEnds, SendFails, InHand, Go
    <2>2. UNCHANGED <<inbox, outbox, acked, frame, sent>>
      BY <1>6 DEF ReadEnds, SendFails, statVars
    <2> QED
      BY <1>1, <1>3, <2>1, <2>2, ExchangeStays
  <1>7. CASE ReadPrefix
    <2>1. pc = "read_prefix" /\ ~InHand /\ inbox[Poller] # << >>
      BY <1>3, <1>7 DEF ReadPrefix, InHand
    <2>2. PICK k \in {1, 2} :
             /\ UnderWay /\ Len(acked) = Len(acks) /\ Silent /\ InFlight(k)
             /\ \/ k = 1 /\ bpc = "send_rest" /\ half[Poller] = Len(frames)
                \/ k = 2 /\ bpc = "read" /\ half[Poller] = 0
      <3>1. ~InFlight(0)
        BY <1>4, <2>1 DEF InFlight
      <3> QED
        BY <1>1, <2>1, <3>1 DEF Exchange, Quiet, Asked
    <2>3. inbox[Poller][1] = Len(frames) /\ Len(inbox[Poller]) = k
      BY <2>2 DEF InFlight
    <2>4. /\ frame' = Len(frames) /\ inbox'[Poller] = Tail(inbox[Poller])
      BY <1>1, <1>3, <1>4, <1>7, <2>1, <2>3, Taken, PollerFacts DEF ReadPrefix, RoundtripTypeOK
    <2>5. frames[frame'].kind = "wake"
      BY <1>1, <1>4, <2>2, <2>4 DEF UnderWay
    <2>6. pc' = "read_body" /\ UNCHANGED <<outbox, acked>>
      BY <1>7, <2>5 DEF ReadPrefix, Go, statVars
    <2>7. InFlight(k - 1)'
      <3>1. Len(inbox'[Poller]) = k - 1
        BY <1>4, <2>1, <2>3, <2>4, Taken
      <3>2. \A i \in 1..(k - 1) : inbox'[Poller][i] = inbox[Poller][i + 1] /\ i + 1 \in 1..k
        BY <1>4, <2>1, <2>3, <2>4, Taken
      <3> QED
        BY <1>3, <2>2, <3>1, <3>2 DEF InFlight
    <2>8. Asked(k)'
      BY <1>2, <1>3, <2>2, <2>4, <2>6, <2>7 DEF Asked, Silent
    <2> QED
      BY <1>2, <1>3, <2>2, <2>6, <2>8 DEF Exchange, UnderWay
  <1>8. CASE ReadBody
    <2>1. pc = "read_body" /\ inbox[Poller] # << >>
      BY <1>3, <1>8 DEF ReadBody
    <2>2. /\ UnderWay /\ Len(acked) = Len(acks) /\ Silent /\ InFlight(1)
          /\ bpc = "read" /\ half[Poller] = 0 /\ frame = Len(frames)
      <3>1. ~InFlight(0) /\ InHand /\ 1 - 1 = 0 /\ 2 - 1 = 1
        BY <1>4, <2>1 DEF InFlight, InHand
      <3> QED
        BY <1>1, <2>1, <3>1 DEF Exchange, Quiet, Asked
    <2>3. inbox'[Poller] = Tail(inbox[Poller]) /\ Len(inbox[Poller]) = 1
      BY <1>1, <1>3, <1>8, <2>2, PollerFacts DEF ReadBody, RoundtripTypeOK, InFlight
    <2>4. InFlight(0)'
      <3>1. Len(inbox'[Poller]) = 0
        BY <1>4, <2>1, <2>3, Taken
      <3> QED
        BY <3>1 DEF InFlight
    <2>5. pc' = "send" /\ sent' = 0 /\ UNCHANGED <<frame, outbox, acked>>
      BY <1>8 DEF ReadBody, CountFrame, Go
    <2>6. Answering(0)'
      BY <1>2, <2>2, <2>5 DEF Silent, Answering
    <2> QED
      BY <1>2, <1>3, <2>2, <2>4, <2>5, <2>6 DEF Exchange, UnderWay
  <1>9. CASE SendAck
    <2>1. pc = "send" /\ sent \in 0..1
      BY <1>1, <1>9, PollerFacts DEF SendAck, RoundtripTypeOK
    <2>2. /\ UnderWay /\ Len(acked) = Len(acks) /\ InFlight(0) /\ Answering(sent)
          /\ bpc = "read" /\ half[Poller] = 0 /\ frame = Len(frames)
      BY <1>1, <2>1 DEF Exchange, Quiet, Asked, InHand
    <2>3. UNCHANGED <<frame, inbox>> /\ sent' = sent + 1
      BY <1>9 DEF SendAck
    <2> DEFINE x == <<frame, Ack[sent + 1]>>
               o == outbox[Poller]
    <2>4. x \in Nat \X Pieces /\ x[1] = Len(frames)
      BY <1>4, <2>1, <2>2 DEF Ack, Pieces
    <2>5. outbox'[Poller] = Append(o, x)
      BY <1>1, <1>3, <1>9, PollerFacts DEF SendAck, RoundtripTypeOK
    <2>6. o \in Seq(Nat \X Pieces) /\ Len(o) \in Nat
      BY <1>4
    <2> HIDE DEF x, o
    <2>7. /\ Len(Append(o, x)) = Len(o) + 1 /\ Append(o, x)[Len(o) + 1] = x
          /\ \A i \in 1..Len(o) : Append(o, x)[i] = o[i]
      BY <2>4, <2>6, AppendProperties
    <2>8. Answering(sent)'
      <3>1. /\ Len(got) + Len(o) = sent /\ Len(got) <= 1
            /\ \A i \in 1..Len(got) : got[i][1] = Len(frames)
            /\ \A i \in 1..Len(o) : o[i][1] = Len(frames)
        BY <2>2 DEF Answering, o
      <3>2. Len(got) + Len(Append(o, x)) = sent + 1
        BY <1>4, <2>1, <2>6, <2>7, <3>1
      <3>3. \A i \in 1..Len(Append(o, x)) : Append(o, x)[i][1] = Len(frames)
        BY <2>4, <2>6, <2>7, <3>1
      <3> QED
        BY <1>2, <1>3, <2>3, <2>5, <3>1, <3>2, <3>3 DEF Answering
    <2>9. CASE sent = 0
      <3>1. pc' = "send" /\ UNCHANGED acked
        BY <1>9, <2>9, PollerFacts DEF SendAck, Go
      <3> QED
        BY <1>2, <1>3, <2>2, <2>3, <2>8, <3>1 DEF Exchange, UnderWay, InFlight
    <2>10. CASE sent = 1
      <3>1. frames[frame].kind = "wake"
        BY <1>1, <1>4, <2>2 DEF UnderWay
      <3>2. pc' = "record" /\ acked' = Append(acked, frame)
        BY <1>9, <2>10, <3>1, PollerFacts DEF SendAck, Go
      <3>3. Len(acked') = Len(frames)
        BY <1>1, <1>4, <2>2, <3>2, SMTT(30) DEF UnderWay, RoundtripTypeOK
      <3>4. Answering(Len(Ack))' /\ InFlight(0)'
        BY <1>3, <2>2, <2>3, <2>8, <2>10, PollerFacts DEF InFlight
      <3> QED
        BY <1>2, <1>3, <2>2, <3>2, <3>3, <3>4 DEF Exchange, UnderWay, InHand
    <2> QED
      BY <2>1, <2>9, <2>10
  <1> QED
    BY <1>6, <1>7, <1>8, <1>9 DEF WorkerTalks

\* What the benchmark's thread does to the exchange, and to the acks it has.
LEMMA ExchangeBench ==
  ASSUME RoundtripInv, ~failed, ~failed',
         \/ BenchConnect \/ BenchSend \/ BenchSendRest \/ BenchRead \/ BenchReadFails
         \/ BenchAllAnswered \/ BenchClose \/ BenchStop \/ BenchJoin
         \/ \E n \in Nat : BenchStart(n)
         \/ UNCHANGED roundtripVars
  PROVE  Exchange' /\ \A i \in 1..Len(acks') : acks'[i] = i
  <1>1. RoundtripTypeOK /\ Exchange /\ \A i \in 1..Len(acks) : acks[i] = i
    BY DEF RoundtripInv
  <1>2. /\ Len(frames) \in Nat /\ Len(acks) \in Nat /\ Len(acked) \in Nat
        /\ inbox[Poller] \in Seq(Nat) /\ Len(inbox[Poller]) \in Nat
        /\ outbox[Poller] \in Seq(Nat \X Pieces) /\ got \in Seq(Nat \X Pieces)
        /\ Len(outbox[Poller]) \in Nat /\ Len(got) \in Nat /\ half[Poller] \in Nat
    BY <1>1, PollerFacts DEF RoundtripTypeOK
  <1>3. CASE BenchConnect \/ BenchAllAnswered \/ BenchClose \/ BenchStop \/ BenchJoin
             \/ \E n \in Nat : BenchStart(n)
    <2>1. UNCHANGED <<frames, inbox, outbox, half, pc, acked, frame, got, acks>>
      <3>1. CASE BenchConnect \/ BenchClose
        BY <3>1 DEF BenchConnect, BenchClose, Connect, Disconnect, Throw, peerRest, vars,
               peerVars, statVars
      <3>2. CASE BenchStop
        BY <3>2 DEF BenchStop, StopStoresFlag, StopWritesPipe, StopLoadsFd, StopShutsDown, stopRest,
               peerVars, statVars
      <3>3. CASE BenchAllAnswered \/ BenchJoin \/ \E n \in Nat : BenchStart(n)
        BY <3>3 DEF BenchAllAnswered, BenchJoin, BenchStart, vars, peerVars, statVars
      <3> QED
        BY <1>3, <3>1, <3>2, <3>3
    <2>2. \/ bpc \in {"idle", "connect"} /\ bpc' \in {"connect", "send"}
          \/ bpc = "send" /\ bpc' = "close" /\ Len(acks) = total /\ UNCHANGED total
          \/ /\ bpc \in {"close", "stop", "join"} /\ bpc' \in {"stop", "join", "done"}
             /\ UNCHANGED total
      BY <1>3 DEF BenchConnect, BenchAllAnswered, BenchClose, BenchStop, BenchJoin, BenchStart, Throw
    <2>3. \A k : Quiet(k) => Quiet(k)'
      BY <2>1 DEF Quiet, InHand, InFlight
    <2>4. Silent => Silent'
      BY <2>1 DEF Silent
    <2>5. Exchange'
      <3>1. CASE bpc \in {"idle", "connect"} /\ bpc' \in {"connect", "send"}
        <4>1. acks = << >> /\ Len(acks) = 0 /\ Quiet(0) /\ Silent /\ half[Poller] = 0
          BY <1>1, <3>1 DEF Exchange
        <4>2. acks' = << >> /\ Len(acks)' = 0 /\ Quiet(0)' /\ Silent' /\ half'[Poller] = 0
          BY <2>1, <2>4, <4>1 DEF Quiet, InHand, InFlight
        <4>3. Quiet(Len(acks))'
          BY <4>2 DEF Quiet
        <4> QED
          BY <3>1, <4>2, <4>3 DEF Exchange
      <3>2. CASE bpc = "send" /\ bpc' = "close" /\ Len(acks) = total /\ UNCHANGED total
        <4>1. Quiet(total)
          BY <1>1, <3>2 DEF Exchange
        <4>2. Quiet(total)'
          BY <2>1, <3>2, <4>1 DEF Quiet, InHand, InFlight
        <4> QED
          BY <2>1, <3>2, <4>2 DEF Exchange
      <3>3. CASE /\ bpc \in {"close", "stop", "join"} /\ bpc' \in {"stop", "join", "done"}
                 /\ UNCHANGED total
        <4>1. Quiet(total) /\ Len(acks) = total
          BY <1>1, <3>3 DEF Exchange
        <4>2. Quiet(total)'
          BY <2>1, <3>3, <4>1 DEF Quiet, InHand, InFlight
        <4> QED
          BY <2>1, <3>3, <4>1, <4>2 DEF Exchange
      <3> QED
        BY <2>2, <3>1, <3>2, <3>3
    <2> QED
      BY <1>1, <2>1, <2>5
  <1>4. CASE BenchSend
    <2>1. /\ bpc = "send" /\ bpc' = "send_rest"
          /\ UNCHANGED <<outbox, pc, frame, acked, got, acks>>
      BY <1>4 DEF BenchSend, SendPrefix, peerRest, statVars
    <2>2. Quiet(Len(acks)) /\ Silent
      BY <1>1, <2>1 DEF Exchange
    <2>3. /\ frames' = Append(frames, [from |-> Poller, kind |-> "wake"])
          /\ inbox'[Poller] = Append(inbox[Poller], Len(frames')) /\ half'[Poller] = Len(frames')
      BY <1>1, <1>4, PollerFacts DEF BenchSend, SendPrefix, RoundtripTypeOK
    <2>4. Len(frames') = Len(frames) + 1
      BY <1>1, <2>3 DEF RoundtripTypeOK
    <2>5. InFlight(1)'
      <3>1. Len(inbox[Poller]) = 0 /\ Len(frames') \in Nat
        BY <1>2, <2>2, <2>4 DEF Quiet, InFlight
      <3>2. Len(inbox'[Poller]) = 1 /\ inbox'[Poller][1] = Len(frames')
        BY <1>2, <2>3, <3>1
      <3> QED
        BY <3>2 DEF InFlight
    <2>6. Asked(1)'
      BY <2>1, <2>2, <2>5 DEF Asked, Silent, Quiet, InHand
    <2>7. UnderWay' /\ Len(acked') = Len(acks')
      BY <2>1, <2>2, <2>4 DEF UnderWay, Quiet
    <2> QED
      BY <1>1, <2>1, <2>3, <2>6, <2>7 DEF Exchange
  <1>5. CASE BenchSendRest
    <2>1. /\ bpc = "send_rest" /\ bpc' = "read"
          /\ UNCHANGED <<frames, outbox, pc, frame, acked, got, acks>>
      BY <1>5 DEF BenchSendRest, SendBody, peerRest, statVars
    <2>2. UnderWay /\ Len(acked) = Len(acks) /\ Asked(1) /\ half[Poller] = Len(frames)
      BY <1>1, <2>1 DEF Exchange
    <2>3. inbox'[Poller] = Append(inbox[Poller], half[Poller]) /\ half'[Poller] = 0
      BY <1>1, <1>5, PollerFacts DEF BenchSendRest, SendBody, RoundtripTypeOK
    <2>4. \A k \in {0, 1} : InFlight(k) => InFlight(k + 1)'
      <3> SUFFICES ASSUME NEW k \in {0, 1}, InFlight(k) PROVE InFlight(k + 1)'
        OBVIOUS
      <3>1. Len(inbox'[Poller]) = k + 1 /\ inbox'[Poller][k + 1] = Len(frames)
        BY <1>2, <2>2, <2>3 DEF InFlight
      <3>2. \A i \in 1..k : inbox'[Poller][i] = Len(frames)
        BY <1>2, <2>3 DEF InFlight
      <3>3. \A i \in 1..(k + 1) : i \in 1..k \/ i = k + 1
        OBVIOUS
      <3> QED
        BY <2>1, <3>1, <3>2, <3>3 DEF InFlight
    <2>5. Asked(2)'
      <3>1. 1 - 1 = 0 /\ 0 + 1 = 1 /\ 1 + 1 = 2 /\ 2 - 1 = 1
        OBVIOUS
      <3> QED
        BY <2>1, <2>2, <2>4, <3>1 DEF Asked, Silent, InHand
    <2> QED
      BY <1>1, <2>1, <2>2, <2>3, <2>5 DEF Exchange, UnderWay
  <1>6. CASE BenchRead
    <2> DEFINE o == outbox[Poller]
               x == Head(o)
               chunks == Append(got, x)
    <2>1. bpc = "read" /\ o # << >> /\ UNCHANGED <<frames, half, inbox, pc, frame, sent, acked>>
      BY <1>6 DEF BenchRead, ReadAck, peerRest, statVars
    <2>2. /\ UnderWay /\ half[Poller] = 0 /\ InFlight(0)
          /\ \/ /\ Len(acked) = Len(acks) /\ pc = "send" /\ frame = Len(frames)
                /\ Answering(sent) /\ sent < Len(Ack)
             \/ Len(acked) = Len(frames) /\ ~InHand /\ Answering(Len(Ack))
      BY <1>1, <2>1 DEF Exchange, Asked, Silent, RoundtripTypeOK
    <2>3. o \in Seq(Nat \X Pieces) /\ Len(o) \in Nat
      BY <1>2
    <2>4. outbox'[Poller] = Tail(o)
      BY <1>1, <1>6, PollerFacts DEF BenchRead, ReadAck, RoundtripTypeOK
    <2>5. /\ \/ Len(chunks) < Len(Ack) /\ got' = chunks /\ UNCHANGED <<acks, bpc>>
             \/ /\ ~(Len(chunks) < Len(Ack)) /\ got' = << >> /\ acks' = Append(acks, chunks[1][1])
                /\ bpc' = "send"
      BY <1>6 DEF BenchRead
    <2>6. /\ Tail(o) \in Seq(Nat \X Pieces) /\ Len(o) >= 1 /\ Len(Tail(o)) = Len(o) - 1
          /\ x = o[1] /\ \A i \in 1..(Len(o) - 1) : Tail(o)[i] = o[i + 1]
      BY <2>1, <2>3, Taken
    <2>7. x \in Nat \X Pieces
      BY <2>3, <2>6
    <2> HIDE DEF x
    <2>8. /\ Len(chunks) = Len(got) + 1 /\ chunks[Len(got) + 1] = x
          /\ \A i \in 1..Len(got) : chunks[i] = got[i]
      BY <1>2, <2>7, AppendProperties
    <2> HIDE DEF chunks
    <2>9. /\ Len(got) <= 1 /\ Len(got) + Len(o) <= Len(Ack)
          /\ \A i \in 1..Len(got) : got[i][1] = Len(frames)
          /\ \A i \in 1..Len(o) : o[i][1] = Len(frames)
      <3>1. sent \in Nat /\ Len(Ack) = 2
        BY <1>1, PollerFacts DEF RoundtripTypeOK
      <3> QED
        BY <2>2, <3>1 DEF Answering
    <2>10. CASE Len(got) = 0
      <3>1. got' = chunks /\ UNCHANGED <<acks, bpc>>
        BY <1>2, <2>5, <2>8, <2>10, PollerFacts
      <3>2. Len(chunks) = 1 /\ chunks[1][1] = Len(frames)
        BY <2>3, <2>6, <2>8, <2>9, <2>10
      <3>3. /\ Len(chunks) + Len(Tail(o)) = Len(got) + Len(o)
            /\ \A i \in 1..Len(chunks) : chunks[i][1] = Len(frames)
        BY <2>3, <2>6, <2>10, <3>2
      <3>4. \A i \in 1..Len(Tail(o)) : Tail(o)[i][1] = Len(frames)
        BY <2>3, <2>6, <2>9
      <3>5. \A k : Len(got) + Len(o) = k => Len(got') + Len(outbox'[Poller]) = k
        BY <2>4, <3>1, <3>3
      <3>6. /\ Len(got') <= 1 /\ \A i \in 1..Len(got') : got'[i][1] = Len(frames')
            /\ \A i \in 1..Len(outbox'[Poller]) : outbox'[Poller][i][1] = Len(frames')
        BY <2>1, <2>4, <3>1, <3>2, <3>3, <3>4
      <3>7. (Answering(sent) => Answering(sent)') /\ (Answering(Len(Ack)) => Answering(Len(Ack))')
        BY <2>1, <3>5, <3>6 DEF Answering, o
      <3>8. InFlight(0)' /\ UnderWay' /\ half'[Poller] = 0 /\ bpc' = "read"
        BY <2>1, <2>2, <3>1 DEF InFlight, UnderWay
      <3> QED
        BY <1>1, <2>1, <2>2, <3>1, <3>7, <3>8 DEF Exchange, InHand
    <2>11. CASE Len(got) = 1
      <3>1. /\ Len(chunks) = 2 /\ chunks[1][1] = Len(frames)
        BY <2>8, <2>9, <2>11
      <3>2. got' = << >> /\ acks' = Append(acks, Len(frames)) /\ bpc' = "send"
        BY <2>5, <3>1, PollerFacts
      <3>3. Len(o) = 1 /\ ~(Answering(sent) /\ sent < Len(Ack))
        <4>1. sent \in Nat /\ Len(Ack) = 2
          BY <1>1, PollerFacts DEF RoundtripTypeOK
        <4>2. Len(o) = 1
          <5>1. 1 + Len(o) <= 2 /\ Len(o) >= 1 /\ Len(o) \in Nat
            BY <2>3, <2>6, <2>9, <2>11, <4>1
          <5>2. \A n \in Nat : 1 + n <= 2 /\ n >= 1 => n = 1
            OBVIOUS
          <5> QED
            BY <5>1, <5>2, Zenon
        <4>3. ~(Answering(sent) /\ sent < Len(Ack))
          <5>1. Answering(sent) => Len(got) + Len(o) = sent
            BY DEF Answering
          <5>2. Len(got) + Len(o) = 2
            BY <2>11, <4>2
          <5> QED
            BY <4>1, <5>1, <5>2
        <4> QED
          BY <4>2, <4>3
      <3>4. Len(acked) = Len(frames) /\ ~InHand
        BY <2>2, <3>3
      <3>5. outbox'[Poller] = << >>
        <4> DEFINE t == Tail(o)
        <4>1. t \in Seq(Nat \X Pieces) /\ Len(t) = 0
          BY <2>6, <3>3
        <4>2. outbox'[Poller] = t
          BY <2>4
        <4> HIDE DEF t
        <4>3. t = << >>
          BY <4>1, EmptySeq
        <4> QED
          BY <4>2, <4>3
      <3>6. /\ Len(frames) = Len(acks) + 1 /\ Len(acks') = Len(acks) + 1
            /\ acks'[Len(acks) + 1] = Len(frames) /\ \A i \in 1..Len(acks) : acks'[i] = acks[i]
        <4>1. acks \in Seq(Nat) /\ Len(frames) \in Nat
          BY <1>1 DEF RoundtripTypeOK
        <4>2. Len(frames) = Len(acks) + 1
          BY <1>2, <2>2 DEF UnderWay
        <4> DEFINE n == Len(frames)
        <4>3. acks' = Append(acks, n) /\ n \in Nat
          BY <3>2, <4>1
        <4> HIDE DEF n
        <4>4. /\ Len(acks') = Len(acks) + 1 /\ acks'[Len(acks) + 1] = n
              /\ \A i \in 1..Len(acks) : acks'[i] = acks[i]
          BY <4>1, <4>3
        <4> QED
          BY <4>2, <4>4 DEF n
      <3>7. \A i \in 1..Len(acks') : acks'[i] = i
        <4>1. Len(acks) \in Nat /\ \A i \in 1..Len(acks) : acks[i] = i
          BY <1>1, <1>2 DEF RoundtripTypeOK
        <4> DEFINE m == Len(acks)
        <4>2. \A i \in 1..m : acks'[i] = i
          BY <3>6, <4>1
        <4>3. Len(acks') = m + 1 /\ acks'[m + 1] = m + 1 /\ m \in Nat
          BY <3>6, <4>1
        <4> HIDE DEF m
        <4>4. \A i \in 1..(m + 1) : i \in 1..m \/ i = m + 1
          BY <4>3
        <4> QED
          BY <4>2, <4>3, <4>4
      <3>8. Quiet(Len(acks))' /\ Silent'
        BY <2>1, <2>2, <3>2, <3>4, <3>5, <3>6 DEF Quiet, Silent, InFlight, InHand
      <3> QED
        BY <2>1, <2>2, <3>2, <3>7, <3>8 DEF Exchange
    <2>12. Len(got) = 0 \/ Len(got) = 1
      <3>1. Len(got) \in Nat /\ Len(got) <= 1
        BY <1>2, <2>9
      <3>2. \A n \in Nat : n <= 1 => n = 0 \/ n = 1
        OBVIOUS
      <3> QED
        BY <3>1, <3>2, Zenon
    <2> QED
      BY <2>10, <2>11, <2>12
  <1>7. CASE BenchReadFails
    BY <1>7 DEF BenchReadFails, Throw
  <1>8. CASE UNCHANGED roundtripVars
    <2>1. UNCHANGED <<frames, half, inbox, outbox, acked, frame, sent, benchVars, pc, acks>>
      BY <1>8 DEF roundtripVars, vars, peerVars, statVars, benchVars
    <2> QED
      BY <1>1, <2>1, ExchangeStays
  <1> QED
    BY <1>3, <1>4, <1>5, <1>6, <1>7, <1>8

\* Every step keeps the invariant.
LEMMA RoundtripInvNext == RoundtripInv /\ [RoundtripNext]_roundtripVars => RoundtripInv'
  <1> SUFFICES ASSUME RoundtripInv, [RoundtripNext]_roundtripVars PROVE RoundtripInv'
    OBVIOUS
  <1>1. ServesPoller' /\ FiresInStep'
    BY ServesPollerNext, FiresInStepNext
  <1>2. CASE (WorkerAside \/ WorkerTalks) /\ UNCHANGED benchVars
    <2>1. RoundtripTypeOK'
      BY <1>2, WorkerTypes
    <2>2. UNCHANGED <<bpc, failed, acks>>
      BY <1>2 DEF benchVars
    <2>3. UNCHANGED frames
      <3>1. CASE WorkerAside
        BY <3>1, AsideSteps DEF RoundtripInv
      <3>2. CASE WorkerTalks
        BY <3>2 DEF WorkerTalks, ReadEnds, ReadPrefix, ReadBody, SendAck, SendFails, serverRest,
               peerVars
      <3> QED
        BY <1>2, <3>1, <3>2
    <2>4. ~failed => Exchange'
      <3>1. CASE ~failed /\ WorkerTalks
        BY <1>2, <3>1, ExchangeTalks
      <3>2. CASE ~failed /\ WorkerAside
        <4>1. /\ UNCHANGED <<frames, half, inbox, outbox, acked, frame, sent>>
              /\ pc' = pc \/ (~InHand /\ ~InHand')
          BY <3>2, AsideSteps DEF RoundtripInv, InHand
        <4>2. Exchange
          BY <3>2 DEF RoundtripInv
        <4> QED
          BY <1>2, <4>1, <4>2, ExchangeStays
      <3> QED
        BY <1>2, <3>1, <3>2
    <2> QED
      BY <1>1, <2>1, <2>2, <2>3, <2>4 DEF RoundtripInv
  <1>3. CASE \/ BenchConnect \/ BenchSend \/ BenchSendRest \/ BenchRead \/ BenchReadFails
             \/ BenchAllAnswered \/ BenchClose \/ BenchStop \/ BenchJoin
             \/ \E n \in Nat : BenchStart(n)
             \/ UNCHANGED roundtripVars
    <2>1. RoundtripTypeOK'
      BY <1>3, BenchTypes
    <2>2. \A i \in 1..Len(frames') : frames'[i].kind = "wake"
      <3>1. CASE BenchSend
        <4>1. frames' = Append(frames, [from |-> Poller, kind |-> "wake"])
          BY <3>1 DEF BenchSend, SendPrefix
        <4>2. frames \in Seq([from : Clients, kind : Kinds])
              /\ [from |-> Poller, kind |-> "wake"] \in [from : Clients, kind : Kinds]
          BY PollerFacts DEF RoundtripInv, RoundtripTypeOK, Kinds
        <4> QED
          BY <4>1, <4>2 DEF RoundtripInv
      <3>2. CASE ~BenchSend
        <4>1. UNCHANGED frames
          BY <1>3, <3>2 DEF BenchConnect, BenchSendRest, BenchRead, BenchReadFails, BenchAllAnswered,
                 BenchClose, BenchStop, BenchJoin, BenchStart, Connect, SendBody, ReadAck, Disconnect,
                 StopStoresFlag, StopWritesPipe, StopLoadsFd, StopShutsDown, stopRest, roundtripVars,
                 vars, peerVars
        <4> QED
          BY <4>1 DEF RoundtripInv
      <3> QED
        BY <3>1, <3>2
    <2>3. CASE ~failed /\ ~failed'
      <3>1. Exchange' /\ \A i \in 1..Len(acks') : acks'[i] = i
        BY <1>3, <2>3, ExchangeBench
      <3> QED
        BY <1>1, <2>1, <2>2, <2>3, <3>1 DEF RoundtripInv
    <2>4. CASE ~failed /\ failed'
      <3>1. bpc' = "close" /\ UNCHANGED acks
        BY <1>3, <2>4 DEF BenchConnect, BenchSend, BenchSendRest, BenchRead, BenchReadFails,
               BenchAllAnswered, BenchClose, BenchStop, BenchJoin, BenchStart, Throw, roundtripVars,
               benchVars
      <3> QED
        BY <1>1, <2>1, <2>2, <2>4, <3>1 DEF RoundtripInv
    <2>5. CASE failed
      <3>1. bpc \in {"close", "stop", "join", "done"}
        BY <2>5 DEF RoundtripInv
      <3>2. UNCHANGED <<failed, acks>> /\ bpc' \in {"close", "stop", "join", "done"}
        BY <1>3, <3>1 DEF BenchConnect, BenchSend, BenchSendRest, BenchRead, BenchReadFails,
               BenchAllAnswered, BenchClose, BenchStop, BenchJoin, BenchStart, Throw, roundtripVars,
               benchVars
      <3> QED
        BY <1>1, <2>1, <2>2, <2>5, <3>2 DEF RoundtripInv
    <2> QED
      BY <2>3, <2>4, <2>5
  <1> QED
    BY RoundtripSteps, <1>2, <1>3

\* What the invariant says of the end of bench_roundtrip.
LEMMA RoundtripEnds == RoundtripInv => RoundtripsAddUp
  <1> SUFFICES ASSUME RoundtripInv PROVE RoundtripsAddUp
    OBVIOUS
  <1>1. \A i \in DOMAIN acks : acks[i] = i
    <2>1. acks \in Seq(Nat) /\ \A i \in 1..Len(acks) : acks[i] = i
      BY DEF RoundtripInv, RoundtripTypeOK
    <2>2. DOMAIN acks = 1..Len(acks)
      BY <2>1
    <2> QED
      BY <2>1, <2>2, Zenon
  <1>2. ASSUME bpc = "done", ~failed PROVE Len(fired) = total /\ Len(recorded) = total
    <2>1. Len(acked) = total
      BY <1>2 DEF RoundtripInv, Exchange, Quiet
    <2>2. pc \notin {"record", "fire"}
      BY <1>2 DEF RoundtripInv, ServesPoller, Ended
    <2> QED
      BY <2>1, <2>2 DEF RoundtripInv, FiresInStep
  <1> QED
    BY <1>1, <1>2 DEF RoundtripsAddUp

-----------------------------------------------------------------------------
(* The driver.                                                             *)

Options == [iterations : 0..(SizeMod - 1), warmup : 0..(SizeMod - 1),
            only : {""} \cup Range(Names), csv : BOOLEAN]
Rows == [name : {"header", "decode", "encode_ack", "sign", "roundtrip", "wake_recv"},
         n : Nat, warmup : Nat]

\* What each benchmark adds to the results.
Decoded == Wanted("decode", <<"decode">>)
Encoded == Wanted("encode_ack", <<"encode_ack">>)
Signed == Wanted("sign", <<"sign">>)
Returned == Wanted("roundtrip", <<"roundtrip", "wake_recv">>)

\* The results hold the rows of the benchmarks that are behind run().
ResultsSoFar ==
    /\ dpc \in {"options", "decode"} => results = << >>
    /\ dpc = "encode_ack" => results = Decoded
    /\ dpc \in {"sign", "key", "unwind", "load", "signing"} => results = Decoded \o Encoded
    /\ dpc = "roundtrip" => results = Decoded \o Encoded \o Signed
    /\ dpc \in {"report", "csv"} => results = Decoded \o Encoded \o Signed \o Returned

\* Before the end nothing is written or decided; what is under way was selected, and
\* bench_roundtrip was started with the samples of these options.
Undecided ==
    /\ dpc # "exited" => exit = -1 /\ csv = csvBefore
    /\ bpc # "idle" => dpc \in {"roundtrip", "report", "csv", "exited"}
    /\ dpc \in {"key", "unwind", "load", "signing"} => Selected("sign")
    /\ dpc = "roundtrip" /\ bpc # "idle" => total = Samples /\ Selected("roundtrip")

\* The inductive invariant.
DriverInv == options \in Options /\ ResultsSoFar /\ Undecided /\ ExitZeroMeansMeasured

\* What from_samples makes of n samples: the ones behind the warm-up, if there are any.
LEMMA FromSamplesCounts ==
  ASSUME NEW n \in Nat, NEW w \in Nat
  PROVE  LET stats == P!FromSamples([i \in 1..n |-> 1], w)
         IN  stats.err = "none" => w < n /\ stats.n = n - w /\ stats.warmup = w
  <1> DEFINE s == [i \in 1..n |-> 1]
             d == IF w < n THEN w ELSE n
             kept == SubSeq(s, d + 1, n)
             Q(p) == P!Interpolate(P!Ordered(kept), p)
  <1>1. s \in Seq(Nat) /\ Len(s) = n
    OBVIOUS
  <1>2. d \in Nat /\ d <= n
    OBVIOUS
  <1> HIDE DEF s, d
  <1>3. kept \in Seq(Nat) /\ Len(kept) = n - d
    BY <1>1, <1>2
  <1> HIDE DEF kept
  <1>4. P!FromSamples(s, w) =
          IF kept = << >> THEN [err |-> "invalid_argument"]
          ELSE [err |-> "none", p50 |-> Q(50), p90 |-> Q(90), p99 |-> Q(99),
                n |-> Len(kept), warmup |-> d]
    BY <1>1 DEF P!FromSamples, kept, d
  <1>5. P!FromSamples(s, w).err = "none" => kept # << >>
    BY <1>4
  <1>6. kept # << >> => P!FromSamples(s, w).n = Len(kept) /\ P!FromSamples(s, w).warmup = d
    BY <1>4
  <1>7. kept # << >> => w < n /\ d = w
    BY <1>2, <1>3 DEF d
  <1> QED
    BY <1>3, <1>5, <1>6, <1>7 DEF s

\* A sum of two counts that wraps is less than either.
LEMMA SumWraps ==
  ASSUME NEW m \in Nat \ {0}, NEW a \in 0..(m - 1), NEW b \in 0..(m - 1)
  PROVE  (a + b) % m \in Nat /\ (a < (a + b) % m => (a + b) % m = a + b)
  OBVIOUS

\* The statistics of warmup + iterations samples, where they do not throw, are over
\* the iterations: a sum that wraps leaves none behind the warm-up.
LEMMA SamplesCounted ==
  ASSUME options \in Options
  PROVE  /\ Samples \in Nat
         /\ FromSamples(Samples).err = "none" =>
              FromSamples(Samples).n = options.iterations
              /\ FromSamples(Samples).warmup = options.warmup
  <1>1. /\ options.iterations \in 0..(SizeMod - 1) /\ options.warmup \in 0..(SizeMod - 1)
        /\ SizeMod \in Nat \ {0}
    BY DriverAssumption DEF Options
  <1> DEFINE n == Samples
             w == options.warmup
             k == options.iterations
  <1>2. n \in Nat /\ (w < n => n = w + k)
    BY <1>1, SumWraps DEF Samples
  <1>3. w \in Nat /\ k \in Nat
    BY <1>1
  <1>4. FromSamples(n).err = "none" => w < n /\ FromSamples(n).n = n - w /\ FromSamples(n).warmup = w
    BY <1>2, <1>3, FromSamplesCounts DEF FromSamples
  <1> HIDE DEF n, w, k
  <1>5. w < n => n - w = k
    BY <1>2, <1>3
  <1>6. FromSamples(n).err = "none" => FromSamples(n).n = k /\ FromSamples(n).warmup = w
    BY <1>4, <1>5
  <1> QED
    BY <1>2, <1>6 DEF n, w, k

\* The rows a benchmark adds are a sequence of rows.
LEMMA WantedRows ==
  ASSUME options \in Options
  PROVE  /\ Decoded \in Seq(Rows) /\ Encoded \in Seq(Rows) /\ Signed \in Seq(Rows)
         /\ Returned \in Seq(Rows)
  <1>1. options.iterations \in Nat /\ options.warmup \in Nat
    <2>1. options.iterations \in 0..(SizeMod - 1) /\ options.warmup \in 0..(SizeMod - 1)
      BY DEF Options
    <2> QED
      BY <2>1, DriverAssumption
  <1>2. \A name \in {"decode", "encode_ack", "sign"} : Wanted(name, <<name>>) \in Seq(Rows)
    <2> TAKE name \in {"decode", "encode_ack", "sign"}
    <2>1. \A i \in 1..1 : Row(<<name>>[i], options.iterations, options.warmup) \in Rows
      BY <1>1 DEF Row, Rows
    <2>2. [i \in 1..1 |-> Row(<<name>>[i], options.iterations, options.warmup)] \in Seq(Rows)
      BY <2>1
    <2>3. DOMAIN <<name>> = 1..1
      OBVIOUS
    <2> QED
      BY <2>2, <2>3 DEF Wanted
  <1>3. Returned \in Seq(Rows)
    <2> DEFINE names == <<"roundtrip", "wake_recv">>
    <2>1. \A i \in 1..2 : Row(names[i], options.iterations, options.warmup) \in Rows
      BY <1>1 DEF Row, Rows
    <2>2. [i \in 1..2 |-> Row(names[i], options.iterations, options.warmup)] \in Seq(Rows)
      BY <2>1
    <2>3. DOMAIN names = 1..2
      OBVIOUS
    <2> QED
      BY <2>2, <2>3 DEF Wanted, Returned
  <1> QED
    BY <1>2, <1>3 DEF Decoded, Encoded, Signed

\* A benchmark that is over adds the rows it was asked for, or the run fails.
LEMMA FinishAdds ==
  ASSUME options \in Options, NEW name, NEW names, NEW next,
         Selected(name), Finish(names, Samples, next)
  PROVE  \/ Exit(1)
         \/ results' = results \o Wanted(name, names) /\ dpc' = next /\ UNCHANGED exit
  <1>1. CASE FromSamples(Samples).err # "none"
    BY <1>1 DEF Finish
  <1>2. CASE FromSamples(Samples).err = "none"
    BY <1>2, SamplesCounted DEF Finish, Wanted
  <1> QED
    BY <1>1, <1>2

\* A benchmark that is not selected adds nothing, and is wanted for nothing.
LEMMA SkipAdds ==
  ASSUME results \in Seq(Rows), NEW name, NEW names, NEW next, Skip(name, next)
  PROVE  results' = results \o Wanted(name, names) /\ dpc' = next /\ UNCHANGED exit
  BY DEF Skip, Wanted

\* The invariant holds when the benchmark starts.
LEMMA DriverInvInit == BenchInit /\ DriverInit => DriverInv
  <1> SUFFICES ASSUME BenchInit, DriverInit PROVE DriverInv
    OBVIOUS
  <1>1. options \in Options
    <2>1. 0 \in 0..(SizeMod - 1)
      BY DriverAssumption
    <2>2. options = [iterations |-> 0, warmup |-> 0, only |-> "", csv |-> FALSE]
      BY DEF DriverInit
    <2> QED
      BY <2>1, <2>2 DEF Options
  <1>2. dpc = "options" /\ results = << >> /\ csv = csvBefore /\ exit = -1
    BY DEF DriverInit
  <1>3. exit # 0 /\ bpc = "idle"
    BY <1>2 DEF BenchInit
  <1> QED
    BY <1>1, <1>2, <1>3 DEF DriverInv, ResultsSoFar, Undecided, ExitZeroMeansMeasured

\* A run that fails says nothing of its results.
LEMMA FailsHonestly ==
  ASSUME DriverInv, UNCHANGED options, NEW code \in {1, 2}, Exit(code)
  PROVE  DriverInv'
  BY DEF DriverInv, ResultsSoFar, Undecided, ExitZeroMeansMeasured, Exit

\* The rows of an option set that stays are the same rows.
LEMMA WantedStays ==
  ASSUME UNCHANGED options
  PROVE  UNCHANGED <<Decoded, Encoded, Signed, Returned, Samples>>
  BY DEF Decoded, Encoded, Signed, Returned, Wanted, Selected, Samples

\* run() goes on to the next benchmark with the rows of this one.
LEMMA GoesOn ==
  ASSUME DriverInv, UNCHANGED <<options, exit, csv, csvBefore, bpc>>, dpc # "exited",
         \/ /\ dpc = "decode" /\ dpc' = "encode_ack" /\ results' = results \o Decoded
         \/ /\ dpc = "encode_ack" /\ dpc' = "sign" /\ results' = results \o Encoded
         \/ /\ dpc \in {"sign", "signing"} /\ dpc' = "roundtrip"
            /\ results' = results \o Signed
         \/ /\ dpc = "roundtrip" /\ dpc' = "report" /\ results' = results \o Returned
  PROVE  DriverInv'
  <1>1. options' \in Options
    BY DEF DriverInv
  <1>2. UNCHANGED <<Decoded, Encoded, Signed, Returned, Samples>>
    BY WantedStays
  <1>3. << >> \o Decoded = Decoded
    BY WantedRows DEF DriverInv
  <1>4. ResultsSoFar'
    BY <1>2, <1>3 DEF DriverInv, ResultsSoFar
  <1>5. Undecided' /\ exit' # 0
    BY DEF DriverInv, Undecided
  <1> QED
    BY <1>1, <1>4, <1>5 DEF DriverInv, ExitZeroMeansMeasured

\* A step within a benchmark leaves the results to its end.
LEMMA StaysWithin ==
  ASSUME DriverInv, UNCHANGED <<options, results, exit, csv, csvBefore>>, dpc # "exited",
         \/ UNCHANGED dpc
         \/ dpc \in {"sign", "key", "load"} /\ dpc' \in {"key", "unwind", "load", "signing"},
         UNCHANGED bpc \/ dpc = "roundtrip",
         dpc = "sign" => Selected("sign") \/ UNCHANGED dpc,
         dpc = "roundtrip" => bpc' = "idle" \/ (total' = Samples /\ Selected("roundtrip"))
  PROVE  DriverInv'
  <1>1. options' \in Options
    BY DEF DriverInv
  <1>2. UNCHANGED <<Decoded, Encoded, Signed, Returned, Samples>>
    BY WantedStays
  <1>3. ResultsSoFar'
    BY <1>2 DEF DriverInv, ResultsSoFar
  <1>4. dpc' \in {"key", "unwind", "load", "signing"} => Selected("sign")'
    <2>1. dpc' \in {"key", "unwind", "load", "signing"} => Selected("sign")
      BY DEF DriverInv, Undecided
    <2> QED
      BY <2>1 DEF Selected
  <1>5. dpc' = "roundtrip" /\ bpc' # "idle" => total' = Samples' /\ Selected("roundtrip")'
    <2>1. dpc' = "roundtrip" => dpc = "roundtrip"
      OBVIOUS
    <2> QED
      BY <1>2, <2>1 DEF Selected
  <1>6. Undecided' /\ exit' # 0
    BY <1>4, <1>5 DEF DriverInv, Undecided
  <1> QED
    BY <1>1, <1>3, <1>6 DEF DriverInv, ExitZeroMeansMeasured

\* bench_roundtrip keeps the number of samples it was started with.
LEMMA BenchKeepsTotal ==
  ASSUME BenchNext
  PROVE  bpc # "idle" /\ UNCHANGED total
  BY DEF BenchNext, Bench, BenchConnect, BenchSend, BenchSendRest, BenchRead, BenchReadFails,
         BenchAllAnswered, BenchClose, BenchStop, BenchJoin, Throw, benchVars

\* No step of run() breaks the invariant.
LEMMA DriverInvNext ==
  DriverInv /\ [DriverNext]_<<driverVars, driverRest>> => DriverInv'
  <1> SUFFICES ASSUME DriverInv, [DriverNext]_<<driverVars, driverRest>> PROVE DriverInv'
    OBVIOUS
  <1> USE DEF Exit
  <1>1. options \in Options /\ ResultsSoFar
    BY DEF DriverInv
  <1>2. dpc # "exited" => exit = -1 /\ csv = csvBefore
    BY DEF DriverInv, Undecided
  <1>3. results \in Seq(Rows) 
        \/ dpc \notin {"decode", "encode_ack", "sign", "signing", "roundtrip", "csv"}
    <2> DEFINE two == Decoded \o Encoded
               three == two \o Signed
               four == three \o Returned
    <2>1. << >> \in Seq(Rows) /\ Decoded \in Seq(Rows) /\ two \in Seq(Rows)
      BY <1>1, WantedRows
    <2> HIDE DEF two
    <2>2. three \in Seq(Rows)
      BY <1>1, <2>1, WantedRows
    <2> HIDE DEF three
    <2>3. four \in Seq(Rows)
      BY <1>1, <2>2, WantedRows
    <2> HIDE DEF four
    <2>4. dpc \in {"decode", "encode_ack", "sign", "signing", "roundtrip", "csv"}
            => results \in {<< >>, Decoded, two, three, four}
      BY <1>1 DEF ResultsSoFar, two, three, four
    <2> QED
      BY <2>1, <2>2, <2>3, <2>4
  <1>4. CASE ParseOptions
    <2>1. CASE Exit(2) /\ UNCHANGED options
      BY <1>4, <2>1, FailsHonestly DEF ParseOptions
    <2>2. CASE dpc' = "decode" /\ UNCHANGED exit /\ options' \in Options
      <3>1. dpc = "options" /\ UNCHANGED <<results, csv, csvBefore, bpc>>
        BY <1>4 DEF ParseOptions, driverRest, roundtripVars, benchVars
      <3>2. results = << >> /\ exit = -1 /\ csv = csvBefore /\ bpc = "idle"
        BY <1>1, <1>2, <3>1 DEF ResultsSoFar, DriverInv, Undecided
      <3>3. ResultsSoFar' /\ Undecided' /\ exit' # 0
        BY <2>2, <3>1, <3>2 DEF ResultsSoFar, Undecided
      <3> QED
        BY <2>2, <3>3 DEF DriverInv, ExitZeroMeansMeasured
    <2>3. [iterations : 1..(SizeMod - 1), warmup : 0..(SizeMod - 1),
           only : {""} \cup Range(Names), csv : BOOLEAN] \subseteq Options
      <3> DEFINE S == {""} \cup Range(Names)
      <3>1. 1..(SizeMod - 1) \subseteq 0..(SizeMod - 1)
        BY DriverAssumption
      <3> HIDE DEF S
      <3>2. [iterations : 1..(SizeMod - 1), warmup : 0..(SizeMod - 1), only : S, csv : BOOLEAN]
              \subseteq [iterations : 0..(SizeMod - 1), warmup : 0..(SizeMod - 1), only : S,
                         csv : BOOLEAN]
        BY <3>1
      <3> QED
        BY <3>2 DEF Options, S
    <2> QED
      BY <1>4, <2>1, <2>2, <2>3 DEF ParseOptions
  <1>5. CASE BenchDecode
    <2>1. CASE Exit(1)
      BY <1>5, <2>1, FailsHonestly DEF BenchDecode, Measure
    <2>2. CASE Selected("decode") /\ Finish(<<"decode">>, Samples, "encode_ack") /\ ~Exit(1)
      <3>1. results' = results \o Decoded /\ dpc' = "encode_ack" /\ UNCHANGED exit
        BY <1>1, <2>2, FinishAdds DEF Decoded
      <3> QED
        BY <1>5, <3>1, GoesOn DEF BenchDecode, Measure, driverRest, roundtripVars, benchVars
    <2>3. CASE Skip("decode", "encode_ack")
      <3>1. results' = results \o Decoded /\ dpc' = "encode_ack" /\ UNCHANGED exit
        BY <1>3, <1>5, <2>3, SkipAdds DEF Decoded, BenchDecode, Measure
      <3> QED
        BY <1>5, <3>1, GoesOn DEF BenchDecode, Measure, driverRest, roundtripVars, benchVars
    <2> QED
      BY <1>5, <2>1, <2>2, <2>3 DEF BenchDecode, Measure
  <1>6. CASE BenchEncodeAck
    <2>1. CASE Exit(1)
      BY <1>6, <2>1, FailsHonestly DEF BenchEncodeAck, Measure
    <2>2. CASE Selected("encode_ack") /\ Finish(<<"encode_ack">>, Samples, "sign") /\ ~Exit(1)
      <3>1. results' = results \o Encoded /\ dpc' = "sign" /\ UNCHANGED exit
        BY <1>1, <2>2, FinishAdds DEF Encoded
      <3> QED
        BY <1>6, <3>1, GoesOn DEF BenchEncodeAck, Measure, driverRest, roundtripVars,
               benchVars
    <2>3. CASE Skip("encode_ack", "sign")
      <3>1. results' = results \o Encoded /\ dpc' = "sign" /\ UNCHANGED exit
        BY <1>3, <1>6, <2>3, SkipAdds DEF Encoded, BenchEncodeAck, Measure
      <3> QED
        BY <1>6, <3>1, GoesOn DEF BenchEncodeAck, Measure, driverRest, roundtripVars,
               benchVars
    <2> QED
      BY <1>6, <2>1, <2>2, <2>3 DEF BenchEncodeAck, Measure
  <1>7. CASE BenchSign
    <2>1. CASE Exit(1)
      BY <1>7, <2>1, FailsHonestly DEF BenchSign
    <2>2. CASE Skip("sign", "roundtrip")
      <3>1. results' = results \o Signed /\ dpc' = "roundtrip" /\ UNCHANGED exit
        BY <1>3, <1>7, <2>2, SkipAdds DEF Signed, BenchSign
      <3> QED
        BY <1>7, <3>1, GoesOn DEF BenchSign, driverRest, roundtripVars, benchVars
    <2>3. CASE Selected("sign") /\ dpc' = "key" /\ UNCHANGED <<results, exit>>
      BY <1>7, <2>3, StaysWithin DEF BenchSign, driverRest, roundtripVars, benchVars
    <2> QED
      BY <1>7, <2>1, <2>2, <2>3 DEF BenchSign
  <1>8. CASE BenchSigned
    <2>1. CASE Exit(1)
      BY <1>8, <2>1, FailsHonestly DEF BenchSigned
    <2>2. CASE samples = Samples /\ Finish(<<"sign">>, samples, "roundtrip") /\ ~Exit(1)
      <3>1. results' = results \o Signed /\ dpc' = "roundtrip" /\ UNCHANGED exit
        BY <1>1, <1>8, <2>2, FinishAdds DEF Signed, BenchSigned, DriverInv, Undecided
      <3> QED
        BY <1>8, <3>1, GoesOn DEF BenchSigned, roundtripVars, benchVars
    <2> QED
      BY <1>8, <2>1, <2>2 DEF BenchSigned
  <1>9. CASE BenchWritesKey \/ BenchLoads \/ BenchSigns
    BY <1>9, StaysWithin DEF BenchWritesKey, BenchLoads, BenchSigns, driverVars, roundtripVars,
           benchVars
  <1>10. CASE BenchLoaded
    <2>1. CASE Exit(1)
      BY <1>10, <2>1, FailsHonestly DEF BenchLoaded
    <2>2. CASE dpc' = "signing" /\ UNCHANGED exit
      BY <1>10, <2>2, StaysWithin DEF BenchLoaded, roundtripVars, benchVars
    <2> QED
      BY <1>10, <2>1, <2>2 DEF BenchLoaded
  <1>11. CASE BenchRoundtripStarts
    <2>1. CASE Exit(1)
      BY <1>11, <2>1, FailsHonestly DEF BenchRoundtripStarts
    <2>2. CASE Skip("roundtrip", "report") /\ UNCHANGED roundtripVars
      <3>1. results' = results \o Returned /\ dpc' = "report" /\ UNCHANGED exit
        BY <1>3, <1>11, <2>2, SkipAdds DEF Returned, BenchRoundtripStarts
      <3> QED
        BY <1>11, <2>2, <3>1, GoesOn DEF BenchRoundtripStarts, roundtripVars, benchVars
    <2>3. CASE Selected("roundtrip") /\ BenchStart(Samples) /\ UNCHANGED <<dpc, results, exit>>
      <3>1. total' = Samples
        BY <2>3 DEF BenchStart
      <3> QED
        BY <1>11, <2>3, <3>1, StaysWithin DEF BenchRoundtripStarts
    <2> QED
      BY <1>11, <2>1, <2>2, <2>3 DEF BenchRoundtripStarts
  <1>12. CASE BenchRoundtripEnds
    <2>1. CASE Exit(1)
      BY <1>12, <2>1, FailsHonestly DEF BenchRoundtripEnds
    <2>2. CASE Finish(<<"roundtrip", "wake_recv">>, total, "report") /\ ~Exit(1)
      <3>1. total = Samples /\ Selected("roundtrip")
        BY <1>12 DEF BenchRoundtripEnds, DriverInv, Undecided
      <3>2. results' = results \o Returned /\ dpc' = "report" /\ UNCHANGED exit
        BY <1>1, <2>2, <3>1, FinishAdds DEF Returned
      <3> QED
        BY <1>12, <3>2, GoesOn DEF BenchRoundtripEnds, driverRest, roundtripVars, benchVars
    <2> QED
      BY <1>12, <2>1, <2>2 DEF BenchRoundtripEnds
  <1>13. CASE Report
    <2>1. dpc = "report" /\ UNCHANGED <<options, results, csv, csvBefore>>
      BY <1>13 DEF Report
    <2>2. UNCHANGED <<Decoded, Encoded, Signed, Returned, Samples>>
      BY <2>1, WantedStays
    <2>3. results = Decoded \o Encoded \o Signed \o Returned
      BY <1>1, <2>1 DEF ResultsSoFar
    <2>4. results' = Decoded' \o Encoded' \o Signed' \o Returned'
      BY <2>1, <2>2, <2>3
    <2>5. CASE options.csv /\ dpc' = "csv" /\ UNCHANGED exit
      <3>1. ResultsSoFar'
        BY <2>4, <2>5 DEF ResultsSoFar
      <3>2. Undecided' /\ exit' # 0
        BY <1>2, <2>1, <2>5 DEF Undecided
      <3> QED
        BY <1>1, <2>1, <3>1, <3>2 DEF DriverInv, ExitZeroMeansMeasured
    <2>6. CASE ~options.csv /\ Exit(0)
      <3>1. ExitZeroMeansMeasured'
        BY <2>1, <2>4, <2>6 DEF ExitZeroMeansMeasured, Decoded, Encoded, Signed, Returned
      <3> QED
        BY <1>1, <2>1, <2>6, <3>1 DEF DriverInv, ResultsSoFar, Undecided
    <2> QED
      BY <1>13, <2>5, <2>6 DEF Report
  <1>14. CASE WriteCsv
    <2>1. dpc = "csv" /\ UNCHANGED <<options, results, csvBefore>>
      BY <1>14 DEF WriteCsv
    <2>2. CASE Exit(1)
      BY <2>1, <2>2, FailsHonestly
    <2>3. CASE ~Exit(1)
      <3> DEFINE head == IF csv = << >> THEN <<Header>> ELSE << >>
                 before == IF csv = << >> THEN << >> ELSE csv[1]
      <3>1. Exit(0) /\ csv' = <<before \o (head \o results)>>
        BY <1>14, <2>3 DEF WriteCsv
      <3>2. results \in Seq(Rows) /\ csv = csvBefore
        BY <1>2, <1>3, <2>1
      <3>3. before \o (head \o results)
              = (IF csvBefore = << >> THEN <<Header>> ELSE csvBefore[1]) \o results
        <4>1. << >> \o results = results
          BY <3>2
        <4>2. <<Header>> \o results \in Seq(Rows)
          BY <3>2 DEF Header, Row, Rows
        <4>3. << >> \o (<<Header>> \o results) = <<Header>> \o results
          BY <4>2
        <4> QED
          BY <3>2, <4>1, <4>3
      <3> HIDE DEF head, before
      <3>4. results = Decoded \o Encoded \o Signed \o Returned
        BY <1>1, <2>1 DEF ResultsSoFar
      <3>5. results' = Decoded' \o Encoded' \o Signed' \o Returned'
        BY <2>1, <3>4, WantedStays
      <3>6. csv' = << (IF csvBefore' = << >> THEN <<Header>> ELSE csvBefore'[1]) \o results' >>
        BY <2>1, <3>1, <3>3
      <3>7. ExitZeroMeansMeasured'
        BY <3>5, <3>6 DEF ExitZeroMeansMeasured, Decoded, Encoded, Signed, Returned
      <3> QED
        BY <1>1, <2>1, <3>1, <3>7 DEF DriverInv, ResultsSoFar, Undecided
    <2> QED
      BY <2>2, <2>3
  <1>15. CASE dpc = "roundtrip" /\ BenchNext /\ UNCHANGED <<driverVars, signerVars>>
    <2>1. bpc # "idle" /\ UNCHANGED total
      BY <1>15, BenchKeepsTotal
    <2>2. total = Samples /\ Selected("roundtrip")
      BY <1>15, <2>1 DEF DriverInv, Undecided
    <2> QED
      BY <1>15, <2>1, <2>2, StaysWithin DEF driverVars
  <1>16. CASE UNCHANGED <<driverVars, driverRest>>
    <2>1. UNCHANGED <<dpc, options, results, exit, csv, csvBefore, bpc, total>>
      BY <1>16 DEF driverVars, driverRest, roundtripVars, benchVars
    <2>2. CASE dpc # "exited"
      <3>1. dpc = "roundtrip" => bpc' = "idle" \/ (total' = Samples /\ Selected("roundtrip"))
        BY <2>1 DEF DriverInv, Undecided
      <3> QED
        BY <2>1, <2>2, <3>1, StaysWithin
    <2>3. CASE dpc = "exited"
      <3>1. UNCHANGED <<Decoded, Encoded, Signed, Returned>>
        BY <2>1, WantedStays
      <3>2. ExitZeroMeansMeasured'
        BY <2>1, <3>1 DEF DriverInv, ExitZeroMeansMeasured, Decoded, Encoded, Signed, Returned
      <3> QED
        BY <1>1, <2>1, <2>3, <3>2 DEF DriverInv, ResultsSoFar, Undecided
    <2> QED
      BY <2>2, <2>3
  <1>17. CASE BenchUnwinds
    BY <1>17, FailsHonestly DEF BenchUnwinds
  <1> QED
    BY <1>4, <1>5, <1>6, <1>7, <1>8, <1>9, <1>10, <1>11, <1>12, <1>13, <1>14, <1>15, <1>16,
       <1>17 DEF DriverNext, Driver

\* What a step of run() does to bench_roundtrip is one of its steps, or its start with
\* some number of samples.
LEMMA DriverStepsRoundtrip ==
  DriverInv /\ [DriverNext]_<<driverVars, driverRest>> => [RoundtripNext]_roundtripVars
  <1> SUFFICES ASSUME DriverInv, [DriverNext]_<<driverVars, driverRest>>
               PROVE  RoundtripNext \/ UNCHANGED roundtripVars
    OBVIOUS
  <1>1. CASE BenchRoundtripStarts
    <2>1. Samples \in Nat
      BY SamplesCounted DEF DriverInv
    <2> QED
      BY <1>1, <2>1 DEF BenchRoundtripStarts, RoundtripNext
  <1>2. CASE dpc = "roundtrip" /\ BenchNext
    BY <1>2 DEF RoundtripNext
  <1>3. CASE ParseOptions \/ BenchDecode \/ BenchEncodeAck \/ BenchRoundtripEnds \/ Report \/ WriteCsv
             \/ UNCHANGED <<driverVars, driverRest>>
    BY <1>3 DEF ParseOptions, BenchDecode, BenchEncodeAck, Measure, BenchRoundtripEnds, Report,
           WriteCsv, driverRest
  <1>4. CASE BenchSign \/ BenchWritesKey \/ BenchUnwinds \/ BenchLoads \/ BenchLoaded
             \/ BenchSigns \/ BenchSigned
    BY <1>4 DEF BenchSign, BenchWritesKey, BenchUnwinds, BenchLoads, BenchLoaded, BenchSigns,
           BenchSigned, driverRest
  <1> QED
    BY <1>1, <1>2, <1>3, <1>4 DEF DriverNext, Driver

\* Whatever the options are and whichever benchmark fails, the acks that send_wake
\* returned are of its own wakes, in order, and behind a round trip that did not
\* throw the executor has recorded and fired every wake, for any number of samples.
THEOREM RoundtripsCounted == DriverSpec => []RoundtripsAddUp
  <1>1. BenchInit => RoundtripInv
    BY RoundtripInvInit
  <1>2. BenchInit /\ DriverInit => DriverInv
    BY DriverInvInit
  <1>3. RoundtripInv /\ DriverInv /\ [DriverNext]_<<driverVars, driverRest>>
          => (RoundtripInv /\ DriverInv)'
    BY DriverInvNext, DriverStepsRoundtrip, RoundtripInvNext
  <1> QED
    BY <1>1, <1>2, <1>3, RoundtripEnds, PTL DEF DriverSpec

\* For any options, counts that wrap included, a benchmark that exits 0 measured what
\* it was asked to and wrote what it measured.
THEOREM ZeroMeansMeasured == DriverSpec => []ExitZeroMeansMeasured
  <1>1. DriverInv => ExitZeroMeansMeasured
    BY DEF DriverInv
  <1> QED
    BY <1>1, DriverInvInit, DriverInvNext, PTL DEF DriverSpec

\* ~RequestSigner between two calls gives back what the signer owns.
LEMMA SignerInvDestroy ==
  ASSUME SignerInv, DestroySigner, at = "idle"
  PROVE  SignerInv'
  <1>1. live = Live(0, Owned + leaked, Owned) /\ Owned \in {0, 1} /\ leaked \in Nat
    BY DEF SignerInv, SignerTypeOK, Accounted, Owned
  <1>2. live' = Live(0, leaked, 0) /\ Owned' = 0
    BY <1>1 DEF DestroySigner, Live, Owned
  <1> QED
    BY <1>2 DEF DestroySigner, SignerInv, SignerTypeOK, Accounted, Prepared,
           SignaturesAreOfThisRequest

\* bench_sign uses the signer as any client may: it destroys it between two calls, and
\* in between only loads, signs and writes the key's file.
LEMMA DriverStepsSigner ==
  SignerInv /\ [DriverNext]_<<driverVars, driverRest>> => SignerInv'
  <1> SUFFICES ASSUME SignerInv, [DriverNext]_<<driverVars, driverRest>> PROVE SignerInv'
    OBVIOUS
  <1>1. CASE UNCHANGED signerVars
    BY <1>1, SignerInvNext
  <1>2. CASE BenchWritesKey \/ BenchUnwinds
    <2>1. FileChanges
      BY <1>2 DEF BenchWritesKey, BenchUnwinds, FileChanges, Files, signerRest
    <2> QED
      BY <2>1, SignerInvNext DEF SignerNext
  <1>3. CASE BenchLoads
    BY <1>3, SignerInvLoad DEF BenchLoads
  <1>4. CASE BenchSigns
    <2>1. Sign \/ SignStep
      BY <1>4 DEF BenchSigns, Sign
    <2> QED
      BY <2>1, SignerInvSign
  <1>5. CASE BenchLoaded \/ BenchSigned
    <2>1. UNCHANGED signerVars \/ (DestroySigner /\ at = "idle")
      <3>1. result # << >> => at = "idle"
        BY DEF SignerInv, SignerTypeOK
      <3>2. <<"threw">> # << >>
        OBVIOUS
      <3> QED
        BY <1>5, <3>1, <3>2 DEF BenchLoaded, BenchSigned, LeaveSign
    <2> QED
      BY <1>1, <2>1, SignerInvDestroy
  <1>6. CASE \/ ParseOptions \/ BenchDecode \/ BenchEncodeAck \/ BenchSign
             \/ BenchRoundtripStarts
             \/ BenchRoundtripEnds \/ Report \/ WriteCsv
             \/ dpc = "roundtrip" /\ BenchNext /\ UNCHANGED <<driverVars, signerVars>>
             \/ UNCHANGED <<driverVars, driverRest>>
    <2>1. UNCHANGED signerVars
      BY <1>6 DEF ParseOptions, BenchDecode, BenchEncodeAck, Measure, BenchSign,
             BenchRoundtripStarts, BenchRoundtripEnds, Report, WriteCsv, driverRest
    <2> QED
      BY <1>1, <2>1
  <1> QED
    BY <1>2, <1>3, <1>4, <1>5, <1>6 DEF DriverNext, Driver

\* In the benchmark too, where bench_sign destroys its signer on the way out of a load()
\* or a sign() that failed or threw: nothing is leaked but a key whose owner could not be
\* allocated, and no signature is of an earlier request.
THEOREM BenchmarkSigns == DriverSpec => [](SignaturesAreOfThisRequest /\ OwnsWhatItHolds)
  <1>1. SignerInv => SignaturesAreOfThisRequest /\ OwnsWhatItHolds
    BY DEF SignerInv, SignerTypeOK, Accounted, OwnsWhatItHolds, Owned
  <1> QED
    BY <1>1, SignerInvInit, DriverStepsSigner, PTL DEF DriverSpec

=============================================================================
