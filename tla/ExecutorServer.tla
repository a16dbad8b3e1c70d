--------------------------- MODULE ExecutorServer ---------------------------
(***************************************************************************)
(* ExecutorServer (src/executor.cpp): one thread that accepts one peer at  *)
(* a time and serves it (read a frame, decode, ack, record, fire), and     *)
(* stop(), called by a signal handler on the server's own thread or by     *)
(* another thread, which has to get it out of whatever it blocks in.       *)
(*                                                                         *)
(* The step of the server thread is one system call or one access of the   *)
(* two atomics it shares with stop().  Sockets are external: a peer's      *)
(* frames arrive in two chunks (prefix, body), an ack leaves in two, and   *)
(* the socket holds SendRoom chunks the peer has not read.                 *)
(*                                                                         *)
(* Memory model.  stopping_ and connection_fd_ are relaxed: the server's   *)
(* store to connection_fd_ may become visible to another thread only       *)
(* later, at the latest at the server's next system call.  A handler on    *)
(* the server's own thread always sees it.                                 *)
(***************************************************************************)
EXTENDS Integers, Sequences, FiniteSets, Functions

CONSTANTS
    Clients,    \* the peers, numbered in the order in which they connect
    SendRoom,   \* ack chunks the socket buffer holds
    MaxFrames   \* bound: frames sent by all the peers

ASSUME ServerAssumption ==
    /\ IsFiniteSet(Clients) /\ Clients \subseteq Nat \ {0}
    /\ SendRoom \in Nat /\ SendRoom >= 1
    /\ MaxFrames \in Nat

\* What the decoder tells apart: a wake, a body it rejects, a zero length (no
\* body to read, and rejected too), a length above kMaxFrameBytes.
Kinds == {"wake", "malformed", "empty", "oversized"}
Ack == <<"head", "rest">>     \* the chunks of an ack frame
NoClient == 0

VARIABLES
    pc,              \* where the server thread is
    cur,             \* the peer being served (`fd`)
    frame,           \* the frame being handled
    sent,            \* send_frame's `sent`, in chunks
    stopping,        \* stopping_
    connection_fd,   \* connection_fd_, as another thread sees it
    buffered,        \* the server's store to connection_fd_ not yet visible, if any
    wake_pipe,       \* whether the wake pipe is readable
    stopper,         \* where stop() is
    stop_fd,         \* stop()'s local `fd`
    missed,          \* history: stop() loaded connection_fd_ before a store to it
                     \* that the server had made was visible
    backlog,         \* connections waiting in the listen queue
    link,            \* the server's end of each peer's connection
    open,            \* the peers that have not closed their end
    frames,          \* history: the frames sent, in order
    inbox,           \* chunks in flight to the server
    half,            \* the frame of which a peer has only sent the prefix
    outbox,          \* ack chunks in flight to the peer
    frames_read, acks_accepted, acks_rejected,   \* stats_
    acked,           \* history: wakes whose ack was handed over whole
    recorded,        \* history: wakes given to record_wake_recv
    fired            \* history: wakes given to handle_fire

stopVars == <<stopping, wake_pipe, stopper, stop_fd, missed>>
fdVars == <<connection_fd, buffered>>
peerVars == <<open, frames, half>>
statVars == <<frames_read, acks_accepted, acks_rejected, acked, recorded, fired>>
vars == <<pc, cur, frame, sent, stopVars, fdVars, backlog, link, peerVars, inbox,
          outbox, statVars>>

Init ==
    /\ pc = "check" /\ cur = NoClient /\ frame = 0 /\ sent = 0
    /\ stopping = FALSE /\ wake_pipe = FALSE /\ stopper = "idle" /\ stop_fd = NoClient
    /\ missed = FALSE
    /\ connection_fd = NoClient /\ buffered = << >>
    /\ backlog = << >>
    /\ link = [c \in Clients |-> "none"]
    /\ open = {} /\ frames = << >> /\ half = [c \in Clients |-> 0]
    /\ inbox = [c \in Clients |-> << >>] /\ outbox = [c \in Clients |-> << >>]
    /\ frames_read = 0 /\ acks_accepted = 0 /\ acks_rejected = 0
    /\ acked = << >> /\ recorded = << >> /\ fired = << >>

-----------------------------------------------------------------------------
(* serve_one_connection(): stopping_ is loaded at five places, each a step *)
(* of its own.                                                             *)

serverRest == <<stopVars, peerVars>>

Go(next) == pc' = next

\* serve_forever() has returned.
Ended == pc \in {"exited", "gave_up"}

Check ==
    /\ pc = "check"
    /\ Go(IF stopping THEN "exited" ELSE "poll")
    /\ UNCHANGED <<cur, frame, sent, fdVars, backlog, link, inbox, outbox, statVars,
                   serverRest>>

\* poll() blocks until a peer connects or stop() writes to the pipe.
Poll ==
    /\ pc = "poll" /\ buffered = << >>
    /\ wake_pipe \/ backlog # << >>
    /\ Go(IF wake_pipe THEN "exited" ELSE "polled")
    /\ UNCHANGED <<cur, frame, sent, fdVars, backlog, link, inbox, outbox, statVars,
                   serverRest>>

\* poll() fails: it is called again on an EINTR before a stop, which changes nothing
\* here, and on any other error serve_forever() returns as if stop() had been called.
PollFails ==
    /\ pc = "poll" /\ buffered = << >>
    /\ Go(IF stopping THEN "exited" ELSE "gave_up")
    /\ UNCHANGED <<cur, frame, sent, fdVars, backlog, link, inbox, outbox, statVars,
                   serverRest>>

Polled ==
    /\ pc = "polled"
    /\ Go(IF stopping THEN "exited" ELSE "accept")
    /\ UNCHANGED <<cur, frame, sent, fdVars, backlog, link, inbox, outbox, statVars,
                   serverRest>>

Accept ==
    /\ pc = "accept"
    /\ cur' = Head(backlog)
    /\ backlog' = Tail(backlog)
    /\ link' = [link EXCEPT ![Head(backlog)] = "serving"]
    /\ Go("store_fd")
    /\ UNCHANGED <<frame, sent, fdVars, inbox, outbox, statVars, serverRest>>

\* accept() fails: only EINTR, and only before a stop, keeps the server going.
AcceptFails ==
    /\ pc = "accept"
    /\ \E eintr \in BOOLEAN :
          Go(IF stopping THEN "exited" ELSE IF eintr THEN "check" ELSE "gave_up")
    /\ UNCHANGED <<cur, frame, sent, fdVars, backlog, link, inbox, outbox, statVars,
                   serverRest>>

\* A relaxed store to connection_fd_.
StoreFd(value) == buffered' = <<value>> /\ UNCHANGED connection_fd

\* Mutant: the connection never told to stop().
PublishConnectionForgotten ==
    /\ pc = "store_fd"
    /\ Go("loop")
    /\ UNCHANGED <<cur, frame, sent, fdVars, backlog, link, inbox, outbox, statVars,
                   serverRest>>

PublishConnection ==
    /\ pc = "store_fd"
    /\ StoreFd(cur)
    /\ Go("loop")
    /\ UNCHANGED <<cur, frame, sent, backlog, link, inbox, outbox, statVars,
                   serverRest>>

\* The store reaches the other threads.
BufferDrains ==
    /\ buffered # << >>
    /\ connection_fd' = Head(buffered)
    /\ buffered' = << >>
    /\ UNCHANGED <<pc, cur, frame, sent, backlog, link, inbox, outbox, statVars,
                   serverRest>>

WithdrawConnection ==
    /\ pc = "clear_fd"
    /\ StoreFd(NoClient)
    /\ Go("close")
    /\ UNCHANGED <<cur, frame, sent, backlog, link, inbox, outbox, statVars,
                   serverRest>>

CloseConnection ==
    /\ pc = "close" /\ buffered = << >>
    /\ link' = [link EXCEPT ![cur] = "closed"]
    /\ cur' = NoClient
    /\ Go("return")
    /\ UNCHANGED <<frame, sent, fdVars, backlog, inbox, outbox, statVars, serverRest>>

\* Mutant: one connection served, and no other.
ReturnOnce ==
    /\ pc = "return"
    /\ Go("exited")
    /\ UNCHANGED <<cur, frame, sent, fdVars, backlog, link, inbox, outbox, statVars,
                   serverRest>>

\* serve_forever() calls serve_one_connection() again while it returns true.
Return ==
    /\ pc = "return"
    /\ Go(IF stopping THEN "exited" ELSE "check")
    /\ UNCHANGED <<cur, frame, sent, fdVars, backlog, link, inbox, outbox, statVars,
                   serverRest>>

-----------------------------------------------------------------------------
(* serve_connection() and send_frame().                                    *)

LoopTop ==
    /\ pc = "loop"
    /\ Go(IF stopping THEN "clear_fd" ELSE "read_prefix")
    /\ UNCHANGED <<cur, frame, sent, fdVars, backlog, link, inbox, outbox, statVars,
                   serverRest>>

\* After shutdown(SHUT_RDWR), or once the peer closed, a read drains what had
\* arrived and then returns 0, and a send fails.
HungUp(c) == c \notin open \/ link[c] = "shut"

\* Mutant: a read of 0 bytes tried again, as EINTR is.
ReadEndsRetried ==
    /\ pc \in {"read_prefix", "read_body"} /\ buffered = << >>
    /\ inbox[cur] = << >> /\ HungUp(cur)
    /\ UNCHANGED vars

\* read_exactly() gets 0 or an error before the count: the frame is abandoned.
ReadEnds ==
    /\ pc \in {"read_prefix", "read_body"} /\ buffered = << >>
    /\ inbox[cur] = << >> /\ HungUp(cur)
    /\ Go("clear_fd")
    /\ UNCHANGED <<cur, frame, sent, fdVars, backlog, link, inbox, outbox, statVars,
                   serverRest>>

\* frames_read, and the ack encoded and counted before it is sent.
CountFrame(n) ==
    LET ok == frames[n].kind = "wake"
    IN  /\ frames_read' = frames_read + 1
        /\ acks_accepted' = acks_accepted + (IF ok THEN 1 ELSE 0)
        /\ acks_rejected' = acks_rejected + (IF ok THEN 0 ELSE 1)
        /\ sent' = 0
        /\ Go("send")
        /\ UNCHANGED <<acked, recorded, fired>>

ReadPrefix ==
    /\ pc = "read_prefix" /\ buffered = << >>
    /\ inbox[cur] # << >>
    /\ inbox' = [inbox EXCEPT ![cur] = Tail(@)]
    /\ frame' = Head(inbox[cur])
    /\ \/ frames[frame'].kind = "oversized"
          /\ Go("clear_fd") /\ UNCHANGED <<sent, statVars>>
       \/ frames[frame'].kind = "empty" /\ CountFrame(frame')
       \/ frames[frame'].kind \in {"wake", "malformed"}
          /\ Go("read_body") /\ UNCHANGED <<sent, statVars>>
    /\ UNCHANGED <<cur, fdVars, backlog, link, outbox, serverRest>>

ReadBody ==
    /\ pc = "read_body" /\ buffered = << >>
    /\ inbox[cur] # << >>
    /\ inbox' = [inbox EXCEPT ![cur] = Tail(@)]
    /\ CountFrame(frame)
    /\ UNCHANGED <<cur, frame, fdVars, backlog, link, outbox, serverRest>>

\* Mutant: send_frame takes one short write for the whole frame.
SendAckShort ==
    /\ pc = "send" /\ buffered = << >>
    /\ ~HungUp(cur) /\ Len(outbox[cur]) < SendRoom
    /\ outbox' = [outbox EXCEPT ![cur] = Append(@, <<frame, Ack[sent + 1]>>)]
    /\ sent' = sent + 1
    /\ acked' = acked
    /\ Go(IF frames[frame].kind = "wake" THEN "record" ELSE "loop")
    /\ UNCHANGED <<cur, frame, fdVars, backlog, link, inbox, frames_read,
                   acks_accepted, acks_rejected, recorded, fired, serverRest>>

\* send() takes what fits, and blocks while the peer does not read.
SendAck ==
    /\ pc = "send" /\ buffered = << >>
    /\ ~HungUp(cur) /\ Len(outbox[cur]) < SendRoom
    /\ outbox' = [outbox EXCEPT ![cur] = Append(@, <<frame, Ack[sent + 1]>>)]
    /\ sent' = sent + 1
    /\ IF sent' < Len(Ack)
         THEN Go("send") /\ UNCHANGED acked
         ELSE IF frames[frame].kind = "wake"
           THEN Go("record") /\ acked' = Append(acked, frame)
           ELSE Go("loop") /\ UNCHANGED acked
    /\ UNCHANGED <<cur, frame, fdVars, backlog, link, inbox, frames_read,
                   acks_accepted, acks_rejected, recorded, fired, serverRest>>

\* Mutant: the loop goes on after an ack that could not be sent.
SendFailsIgnored ==
    /\ pc = "send" /\ buffered = << >>
    /\ HungUp(cur)
    /\ Go("loop")
    /\ UNCHANGED <<cur, frame, sent, fdVars, backlog, link, inbox, outbox, statVars,
                   serverRest>>

\* Mutant: a wake recorded and fired although its ack could not be sent.
SendFailsFires ==
    /\ pc = "send" /\ buffered = << >>
    /\ HungUp(cur)
    /\ Go(IF frames[frame].kind = "wake" THEN "record" ELSE "clear_fd")
    /\ UNCHANGED <<cur, frame, sent, fdVars, backlog, link, inbox, outbox, statVars,
                   serverRest>>

\* EPIPE: the connection ends, and a wake already counted is never fired.
SendFails ==
    /\ pc = "send" /\ buffered = << >>
    /\ HungUp(cur)
    /\ Go("clear_fd")
    /\ UNCHANGED <<cur, frame, sent, fdVars, backlog, link, inbox, outbox, statVars,
                   serverRest>>

RecordWakeRecv ==
    /\ pc = "record"
    /\ recorded' = Append(recorded, frame)
    /\ Go("fire")
    /\ UNCHANGED <<cur, frame, sent, fdVars, backlog, link, inbox, outbox,
                   frames_read, acks_accepted, acks_rejected, acked, fired,
                   serverRest>>

\* handle_fire(), whose outcome the module FirePath describes.
Fire ==
    /\ pc = "fire"
    /\ fired' = Append(fired, frame)
    /\ Go("loop")
    /\ UNCHANGED <<cur, frame, sent, fdVars, backlog, link, inbox, outbox,
                   frames_read, acks_accepted, acks_rejected, acked, recorded,
                   serverRest>>

-----------------------------------------------------------------------------
(* stop().  A handler runs it between two steps of the server thread.      *)

stopRest == <<pc, cur, frame, sent, fdVars, backlog, peerVars, inbox, outbox,
              statVars>>

\* What shutdown(fd) hits is the connection that has the number now: accept()
\* gives the lowest free one, which is that of the connection closed last.
Shut(fd) ==
    IF fd # NoClient /\ cur # NoClient
    THEN [link EXCEPT ![cur] = "shut"] ELSE link

StopFromHandler ==
    /\ stopper = "idle" /\ ~Ended
    /\ stopping' = TRUE /\ wake_pipe' = TRUE
    /\ stop_fd' = IF buffered = << >> THEN connection_fd ELSE Head(buffered)
    /\ link' = Shut(stop_fd')
    /\ stopper' = "done"
    /\ UNCHANGED <<missed, stopRest>>

\* Mutant: the connection looked up before the flag is stored.
StopLoadsFirst ==
    /\ stopper = "idle"
    /\ stop_fd' = connection_fd
    /\ missed' = (buffered # << >>)
    /\ stopper' = "shutdown"
    /\ UNCHANGED <<stopping, wake_pipe, link, stopRest>>

StopStoresFlag ==
    /\ stopper = "idle"
    /\ stopping' = TRUE
    /\ stopper' = "write"
    /\ UNCHANGED <<wake_pipe, stop_fd, missed, link, stopRest>>

StopWritesPipe ==
    /\ stopper = "write"
    /\ wake_pipe' = TRUE
    /\ stopper' = "load"
    /\ UNCHANGED <<stopping, stop_fd, missed, link, stopRest>>

StopLoadsFd ==
    /\ stopper = "load"
    /\ stop_fd' = connection_fd
    /\ missed' = (buffered # << >>)
    /\ stopper' = "shutdown"
    /\ UNCHANGED <<stopping, wake_pipe, link, stopRest>>

StopShutsDown ==
    /\ stopper = "shutdown"
    /\ link' = Shut(stop_fd)
    /\ stopper' = "done"
    /\ UNCHANGED <<stopping, wake_pipe, stop_fd, missed, stopRest>>

-----------------------------------------------------------------------------
(* The peers, which may do anything at any time, or nothing.               *)

peerRest == <<pc, cur, frame, sent, stopVars, fdVars, statVars>>

Connect(c) ==
    /\ link[c] = "none" /\ \A d \in Clients : d < c => link[d] # "none"
    /\ link' = [link EXCEPT ![c] = "pending"]
    /\ backlog' = Append(backlog, c)
    /\ open' = open \cup {c}
    /\ UNCHANGED <<frames, inbox, half, outbox, peerRest>>

CanSend(c) == c \in open /\ link[c] \in {"pending", "serving"}

SendPrefix(c, kind) ==
    /\ CanSend(c) /\ half[c] = 0
    /\ Len(frames) < MaxFrames
    /\ frames' = Append(frames, [from |-> c, kind |-> kind])
    /\ inbox' = [inbox EXCEPT ![c] = Append(@, Len(frames'))]
    /\ half' = [half EXCEPT ![c] = IF kind = "empty" THEN 0 ELSE Len(frames')]
    /\ UNCHANGED <<open, backlog, link, outbox, peerRest>>

SendBody(c) ==
    /\ CanSend(c) /\ half[c] # 0
    /\ inbox' = [inbox EXCEPT ![c] = Append(@, half[c])]
    /\ half' = [half EXCEPT ![c] = 0]
    /\ UNCHANGED <<open, frames, backlog, link, outbox, peerRest>>

ReadAck(c) ==
    /\ c \in open /\ outbox[c] # << >>
    /\ outbox' = [outbox EXCEPT ![c] = Tail(@)]
    /\ UNCHANGED <<open, frames, half, backlog, link, inbox, peerRest>>

Disconnect(c) ==
    /\ c \in open
    /\ open' = open \ {c}
    /\ UNCHANGED <<frames, half, backlog, link, inbox, outbox, peerRest>>

-----------------------------------------------------------------------------
Server ==
    \/ Check \/ Poll \/ Polled \/ Accept \/ AcceptFails
    \/ PublishConnection \/ WithdrawConnection \/ CloseConnection \/ Return
    \/ LoopTop \/ ReadEnds \/ ReadPrefix \/ ReadBody
    \/ SendAck \/ SendFails \/ RecordWakeRecv \/ Fire

Stop ==
    \/ StopFromHandler
    \/ StopStoresFlag \/ StopWritesPipe \/ StopLoadsFd \/ StopShutsDown

\* Once the server has exited nothing a peer does is seen.
Peer ==
    ~Ended /\ \E c \in Clients :
        \/ Connect(c) \/ SendBody(c) \/ ReadAck(c) \/ Disconnect(c)
        \/ \E kind \in Kinds : SendPrefix(c, kind)

Next == Server \/ PollFails \/ BufferDrains \/ Stop \/ Peer

\* Fairness.  The server's thread and a stop() that has begun keep running, and
\* a store becomes visible; accept() is not interrupted by a signal every time.
\* Nobody has to call stop(), a peer owes nothing, and a poll() that blocks does
\* not have to fail.
Fairness ==
    /\ WF_vars(Server)
    /\ WF_vars(BufferDrains)
    /\ SF_vars(Accept)
    /\ WF_vars(StopWritesPipe \/ StopLoadsFd \/ StopShutsDown)

Spec == Init /\ [][Next]_vars /\ Fairness

-----------------------------------------------------------------------------
(* Properties.                                                             *)

\* The variables keep their types; a peer is marked as served exactly while it
\* is the current one, so no connection outlives its turn.
TypeOK ==
    /\ pc \in {"check", "poll", "polled", "accept", "store_fd", "loop",
               "read_prefix", "read_body", "send", "record", "fire", "clear_fd",
               "close", "return", "exited", "gave_up"}
    /\ cur \in Clients \cup {NoClient}
    /\ frame \in 0..Len(frames) /\ sent \in 0..Len(Ack)
    /\ stopping \in BOOLEAN /\ wake_pipe \in BOOLEAN /\ missed \in BOOLEAN
    /\ stopper \in {"idle", "write", "load", "shutdown", "done"}
    /\ stop_fd \in Clients \cup {NoClient}
    /\ connection_fd \in Clients \cup {NoClient}
    /\ Len(buffered) <= 1 /\ Range(buffered) \subseteq Clients \cup {NoClient}
    /\ link \in [Clients -> {"none", "pending", "serving", "shut", "closed"}]
    /\ \A c \in Clients : link[c] \in {"serving", "shut"} <=> cur = c
    /\ Range(backlog) = {c \in Clients : link[c] = "pending"}
    /\ \A n \in DOMAIN frames : frames[n].from \in Clients /\ frames[n].kind \in Kinds
    /\ half \in [Clients -> 0..MaxFrames]
    /\ \A c \in Clients : Len(outbox[c]) <= SendRoom

IsPrefixOf(s, t) == Len(s) <= Len(t) /\ s = SubSeq(t, 1, Len(s))

\* "Read the body, stamp, decode, ack, then fire": a wake is recorded and fired
\* only after its whole ack was handed over, once, in the order of its peer's
\* frames; and a wake whose ack was handed over is recorded and fired before the
\* server looks at anything else, a stop included, so an accepted ack a peer has
\* read always stands for a fire.
AckThenFireOnce ==
    /\ IsPrefixOf(recorded, acked) /\ IsPrefixOf(fired, recorded)
    /\ pc \notin {"record", "fire"} => fired = acked
    /\ \A i, j \in DOMAIN acked :
          i < j /\ frames[acked[i]].from = frames[acked[j]].from => acked[i] < acked[j]

\* The counters that main prints: every frame read got an answer, and
\* acks_accepted exceeds the fires by at most one for each connection that
\* ended, although it is counted before the ack is sent.
StatsExplainFires ==
    /\ frames_read = acks_accepted + acks_rejected
    /\ acks_accepted - Len(fired) \in
          0..Cardinality({c \in Clients : link[c] \in {"serving", "shut", "closed"}})

\* stop(), in a handler or on another thread, gets the server out of the poll, the
\* read or the send it blocks in, wherever it was when stop() began and whatever
\* the peer does.  The one way to fail is a store to connection_fd_ that stop()
\* misses.
StopTerminates == stopper # "idle" ~> (Ended \/ missed)

\* The promise of stop() without the exception: it "shuts down the connection being
\* served so a read blocked between wakes returns too".
StopAlwaysTerminates == stopper # "idle" ~> Ended

\* stop() on another thread uses the descriptor after the server may have closed
\* it, and its number may be another connection's by then; yet it shuts down no
\* connection but the one it looked up: a server that has seen the flag accepts
\* no other.
StopHitsItsConnection ==
    [][\A c \in Clients : link[c] # "shut" /\ link'[c] = "shut" => c = stop_fd']_vars

\* While connections come to an end, a peer that has connected is served, however
\* often the accept is interrupted, what its predecessors sent and how they left,
\* unless somebody calls stop() or poll() or accept() gives serve_forever() up.
PeersAreServed ==
    \A c \in Clients :
        []<>(cur = NoClient) =>
            (link[c] = "pending" ~> (link[c] # "pending" \/ stopping \/ pc = "gave_up"))

\* A peer that disconnects, even inside a frame or with acks unread, does not
\* keep the server from the next one.
DisconnectReleasesServer ==
    \A c \in Clients : (cur = c /\ c \notin open) ~> cur # c

=============================================================================
