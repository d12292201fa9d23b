---------------------------- MODULE Conversation ----------------------------
(***************************************************************************)
(* One connection of the peer network with a remote peer: the pipes that   *)
(* carry messages from whoever writes them to the network thread           *)
(* (util/pipe.rs), the outbox, the inbox and the reply handles of the      *)
(* connection (net/connection.rs), the conversation (net/chat.rs) and the  *)
(* pass of the network thread over it (net/p2p.rs).                        *)
(*                                                                         *)
(* A message goes out in three stages.  Its first write fills the channel  *)
(* of its pipe, the rest waits in the writer until somebody flushes the    *)
(* handle; the network thread copies what the pipe holds to the socket,    *)
(* and takes the end of the pipe for the end of the message; only then is  *)
(* a request in flight, and can be answered or time out.                   *)
(*                                                                         *)
(* A message is a sequence of units <<m, i>>, the pieces that reads and    *)
(* writes may separate.  A reply has the name of the request it is for,    *)
(* and its sequence number.  Time is kept as what is left of a request's   *)
(* ttl and as the time since the peer was heard: the code only compares    *)
(* these.  The handle's own deadline, ttl + now for a ttl that is a date   *)
(* already, does not pass.  The remote peer and the socket are external:   *)
(* the peer reads, answers once, twice or not at all, sends requests of    *)
(* its own and answers to our heartbeats, and may close.  Both sides have  *)
(* completed a handshake of their own, and preambles are valid.            *)
(***************************************************************************)
EXTENDS Integers, FiniteSets, SequencesExt

CONSTANTS
    Walks,         \* requests of the neighbor walk, polled by the network thread
    Threads,       \* requests of other threads, which block in flush and recv
    Relays,        \* messages sent without waiting for a reply, heartbeats included
    Rekeys,        \* handshakes with a new private key
    Pings,         \* the peer's pings; our pong has the ping's name
    Queries,       \* the peer's requests for neighbors; so has our answer
    Pong,          \* the peer's answer to a heartbeat, which no request waits for
    OutLen,        \* units of a message we send
    InLen,         \* units of a message we receive
    ReadLen,       \* units in the buffer for reading a pipe
    SocketLen,     \* units the socket holds in each direction
    InboxMaxlen,
    OutboxMaxlen,
    Timeout,       \* ttl of a request
    Heartbeat,     \* silence after which a peer is unresponsive
    MaxReplies,    \* bound: how many replies the peer sends
    MaxMessages    \* bound: how many other messages the two sides start

Requests == Walks \cup Threads \cup Rekeys
PeerRequests == Pings \cup Queries
Outgoing == Requests \cup Relays \cup PeerRequests

ASSUME ConversationAssumption ==
    /\ OutLen \in Nat \ {0, 1}
    /\ {InLen, ReadLen, SocketLen} \subseteq Nat \ {0}
    /\ {InboxMaxlen, OutboxMaxlen, Timeout, Heartbeat} \subseteq Nat
    /\ {MaxReplies, MaxMessages} \subseteq Nat
    /\ Pong \notin Outgoing

VARIABLES
    phase,          \* where the network thread is in its pass
    connected,      \* the conversation exists
    pipe,           \* pipe[m]: the pipe of an outgoing message
    queued,         \* history: the outgoing messages in the order of their handles
    outbox,         \* messages whose end has not been sent
    out,            \* socket_out_buf from socket_out_ptr on
    inflight,       \* requests sent and not answered
    left,           \* what is left of the ttl of a request, -1 once it has passed
    reply,          \* reply[m]: the reply channel of the handle
    result,         \* result[m]: how the request ended for its owner
    relay_handles,  \* handles of relayed messages, with the network
    reply_handles,  \* handles of replies to the peer, with the conversation
    ibuf,           \* bytes of the message being received
    silence,        \* time since last_recv_time
    truncated,      \* history: messages whose handle was dropped unflushed
    to_peer,        \* the socket, in each direction
    from_peer,
    peer            \* the remote peer

handles == <<pipe, queued, outbox, left>>
owners == <<reply, result, truncated>>
inbound == <<ibuf, silence, from_peer>>
vars == <<phase, connected, handles, out, inflight, owners, relay_handles,
          reply_handles, inbound, to_peer, peer>>

None == "none"

\* A peer with nothing read or written, and one that has closed.
IdlePeer(closed) ==
    [closed |-> closed, partial |-> <<>>, arrived |-> <<>>, malformed |-> FALSE,
     replies |-> 0, started |-> <<>>, sending |-> <<>>]

Units(m, len) == [i \in 1..len |-> <<m, i>>]

----------------------------------------------------------------------------
\* The pipe (util/pipe.rs).

\* Nobody writes and nobody reads.
DeadPipe == [chan |-> <<>>, rbuf |-> <<>>, wbuf |-> <<>>, open |-> FALSE]

\* The message has been written: write_or_buffer sends the first piece and
\* keeps the others, since the channel has room for one.
WrittenPipe(m) ==
    [chan |-> Units(m, 1), rbuf |-> <<>>, wbuf |-> Tail(Units(m, OutLen)),
     open |-> TRUE]

\* The reading end is in the outbox.
HasReader(m) == m \in Range(outbox)

\* PipeWrite::try_flush.
FlushResult(m) ==
    CASE pipe[m].wbuf = <<>> -> "done"
      [] pipe[m].wbuf # <<>> /\ ~ HasReader(m) -> "broken"
      [] OTHER -> IF pipe[m].chan = <<>> THEN "done" ELSE "again"

\* NetworkReplyHandle::try_flush: the writer is dropped, unless it has to try again.
Flushed(m) ==
    CASE FlushResult(m) = "again" -> pipe[m]
      [] FlushResult(m) = "broken" -> [pipe[m] EXCEPT !.wbuf = <<>>, !.open = FALSE]
      [] OTHER -> [pipe[m] EXCEPT !.chan = pipe[m].chan \o pipe[m].wbuf,
                                  !.wbuf = <<>>, !.open = FALSE]

\* With a defect: what does not fit into the reader's buffer is forgotten.
ReadPipeForgets(p) ==
    LET avail == p.rbuf \o p.chan
        n == IF Len(avail) < ReadLen THEN Len(avail) ELSE ReadLen
    IN  [data |-> SubSeq(avail, 1, n),
         pipe |-> [p EXCEPT !.rbuf = <<>>, !.chan = <<>>]]

\* PipeRead::read, without blocking: what is left of the last chunk, and the
\* next one if that leaves room.  What does not fit is kept.
ReadPipe(p) ==
    LET more == Len(p.rbuf) < ReadLen
        avail == IF more THEN p.rbuf \o p.chan ELSE p.rbuf
        n == IF Len(avail) < ReadLen THEN Len(avail) ELSE ReadLen
    IN  [data |-> SubSeq(avail, 1, n),
         pipe |-> [p EXCEPT !.rbuf = SubSeq(avail, n + 1, Len(avail)),
                            !.chan = IF more THEN <<>> ELSE @]]

----------------------------------------------------------------------------
\* Handles (net/connection.rs).

Made(m) == m \in Range(queued)
Waiting(m) == Made(m) /\ result[m] = None

PositionOf(s, m) == CHOOSE i \in DOMAIN s : s[i] = m

\* next_seq: each side numbers the messages it starts, from 0.  A reply has the
\* number of what it answers.
Started(m) == m \notin PeerRequests
request_id(m) ==
    CASE m \in PeerRequests -> PositionOf(peer.started, m) - 1
      [] m \in Requests \cup Relays -> PositionOf(SelectSeq(queued, Started), m) - 1
      [] OTHER -> -1

WithinBound == Cardinality(Range(queued) \cup Range(peer.started)) < MaxMessages

\* queue_message refuses when there are more than outbox_maxlen already.
CanQueue == connected /\ Len(outbox) <= OutboxMaxlen /\ WithinBound

\* make_request_handle, make_relay_handle, and writing the message to the handle.
MakeHandle(m) ==
    /\ pipe' = [pipe EXCEPT ![m] = WrittenPipe(m)]
    /\ queued' = Append(queued, m)
    /\ outbox' = Append(outbox, m)
    /\ left' = IF m \in Requests THEN [left EXCEPT ![m] = Timeout] ELSE left

\* try_recv and recv: the channel of a request is gone when its notification
\* is neither in the outbox nor in flight.
RecvResult(m) ==
    CASE reply[m] # None -> "reply"
      [] reply[m] = None /\ m \in Range(outbox) \cup Range(inflight) -> None
      [] OTHER -> "broken"

\* try_send_recv.
SendRecvResult(m) ==
    CASE pipe[m].open /\ FlushResult(m) = "broken" -> "broken"
      [] pipe[m].open /\ FlushResult(m) = "again" -> None
      [] OTHER -> RecvResult(m)

\* The handle is dropped, and what its writer still held is lost.
Dropped(m) == [pipe[m] EXCEPT !.wbuf = <<>>, !.open = FALSE]

----------------------------------------------------------------------------
\* The pass of the network thread (PeerNetwork::dispatch_network).

\* The reading end of the pipe is dropped.
Unread(p) == [p EXCEPT !.chan = <<>>, !.rbuf = <<>>]

\* deregister_peer: the conversation is dropped, and the socket shut down.
\* Of the pipes as they are now, those of the messages in the outbox lose their
\* reader.
DeregisterPeer(pipes) ==
    /\ connected' = FALSE
    /\ pipe' = [m \in Outgoing |-> IF m \in Range(outbox) THEN Unread(pipes[m]) ELSE pipes[m]]
    /\ outbox' = <<>> /\ out' = <<>> /\ inflight' = <<>>
    /\ reply_handles' = <<>>
    /\ ibuf' = <<>> /\ from_peer' = <<>> /\ to_peer' = <<>> /\ silence' = 0
    /\ peer' = IdlePeer(TRUE)
    /\ UNCHANGED <<queued, left, owners>>

\* dispatch_request, for a request or a relayed message of another thread.
DispatchRequest(m) ==
    /\ phase = "dispatch"
    /\ m \in Threads \cup Relays
    /\ ~ Made(m)
    /\ CanQueue
    /\ MakeHandle(m)
    /\ relay_handles' = IF m \in Relays THEN Append(relay_handles, m) ELSE relay_handles
    /\ UNCHANGED <<phase, connected, out, inflight, owners, reply_handles, inbound,
                   to_peer, peer>>

\* consume_messages, one unit at a time: messages are cut at their length, and
\* no further one is begun once the inbox holds more than inbox_maxlen.
ConsumeUnit(st, u) ==
    LET got == Append(st.buf, u)
    IN  IF st.overflow \/ (st.buf = <<>> /\ Len(st.inbox) > InboxMaxlen)
        THEN [st EXCEPT !.overflow = TRUE]
        ELSE IF Len(got) < InLen THEN [st EXCEPT !.buf = got]
        ELSE [st EXCEPT !.buf = <<>>, !.inbox = Append(@, got[1][1])]

Consumed ==
    FoldLeft(ConsumeUnit, [buf |-> ibuf, inbox |-> <<>>, overflow |-> FALSE], from_peer)

\* With a defect: replies have to come in the order of the requests.
SolicitedInOrder(st, msg) ==
    {i \in DOMAIN st.inflight : i = 1 /\ request_id(st.inflight[i]) = request_id(msg)}

\* is_solicited: the notifications in flight that expect this number.
Solicited(st, msg) ==
    {i \in DOMAIN st.inflight : request_id(st.inflight[i]) = request_id(msg)}

\* With a defect: the notification stays in flight.
FulfillAgain(st, msg) ==
    LET r == st.inflight[Min(Solicited(st, msg))]
    IN  [st EXCEPT !.blocked = result[r] = None /\ st.reply[r] # None,
                   !.reply = IF result[r] = None THEN [@ EXCEPT ![r] = msg] ELSE @]

\* fulfill_request: the first of them is used up, and the message goes to the
\* handle it belongs to, if that still exists.  The channel holds one message;
\* sending a second one would block.
Fulfill(st, msg) ==
    LET i == Min(Solicited(st, msg))
        r == st.inflight[i]
    IN  [st EXCEPT !.inflight = RemoveAt(@, i),
                   !.blocked = result[r] = None /\ st.reply[r] # None,
                   !.reply = IF result[r] = None THEN [@ EXCEPT ![r] = msg] ELSE @]

\* relay_signed_message, for the answer to a request of the peer.
AnswerPeer(st, msg) ==
    [st EXCEPT !.outbox = Append(@, msg), !.reply_handles = Append(@, msg)]

\* A request of the peer is answered: a ping always, and the conversation fails
\* if the outbox is full; a query for neighbors unless it fulfilled a request.
Respond(st, msg) ==
    CASE msg \in Pings /\ Len(st.outbox) > OutboxMaxlen -> [st EXCEPT !.failed = TRUE]
      [] msg \in Pings /\ Len(st.outbox) <= OutboxMaxlen -> AnswerPeer(st, msg)
      [] msg \in Queries /\ Solicited(st, msg) = {} /\ Len(st.outbox) <= OutboxMaxlen ->
            AnswerPeer(st, msg)
      [] OTHER -> st

\* ConversationP2P::chat on one message: whoever waits for it gets it.
ChatAbout(st, msg) ==
    LET after == Respond(st, msg)
    IN  CASE st.failed \/ st.blocked -> st
          [] ~ (st.failed \/ st.blocked) /\ after.failed -> after
          [] OTHER -> IF Solicited(st, msg) # {} THEN Fulfill(after, msg)
                      ELSE [after EXCEPT !.unsolicited = @ \cup ({msg} \cap Requests)]

Chat(inbox) ==
    FoldLeft(ChatAbout,
             [failed |-> FALSE, blocked |-> FALSE, outbox |-> outbox,
              inflight |-> inflight, reply |-> reply, unsolicited |-> {},
              reply_handles |-> reply_handles],
             inbox)

\* process_p2p_conversation up to sending: recv_bytes reads and consumes until
\* the socket has no more, chat takes every message out of the inbox, also when
\* receiving failed, and deregister_peer ends a conversation that failed.
Receive ==
    LET got == Consumed
        st == Chat(got.inbox)
        new == SubSeq(st.outbox, Len(outbox) + 1, Len(st.outbox))
        dead == got.overflow \/ (from_peer = <<>> /\ peer.closed) \/ st.failed
    IN  /\ phase = "dispatch"
        /\ connected
        /\ phase' = CASE st.blocked -> "blocked"
                      [] ~ st.blocked /\ dead -> "flush"
                      [] OTHER -> "send"
        /\ connected' = ~ dead
        /\ reply' = st.reply
        /\ queued' = queued \o new
        /\ outbox' = IF dead THEN <<>> ELSE st.outbox
        /\ inflight' = IF dead THEN <<>> ELSE st.inflight
        /\ reply_handles' = IF dead THEN <<>> ELSE st.reply_handles
        /\ out' = IF dead THEN <<>> ELSE out
        /\ pipe' = [m \in Outgoing |->
                        CASE m \in Range(new) -> IF dead THEN DeadPipe ELSE WrittenPipe(m)
                          [] m \in Range(outbox) /\ dead -> Unread(pipe[m])
                          [] OTHER -> pipe[m]]
        /\ ibuf' = IF dead THEN <<>> ELSE got.buf
        /\ silence' = IF from_peer # <<>> \/ dead THEN 0 ELSE silence
        /\ from_peer' = <<>>
        /\ to_peer' = IF dead THEN <<>> ELSE to_peer
        /\ peer' = IF dead THEN IdlePeer(TRUE) ELSE peer
        /\ UNCHANGED <<left, result, truncated, relay_handles>>

\* The socket is not looked at if poll did not report it as ready, as it does
\* when there is something to read.
NotReady ==
    /\ phase = "dispatch"
    /\ ~ connected \/ (from_peer = <<>> /\ ~ peer.closed)
    /\ phase' = "flush"
    /\ UNCHANGED <<connected, handles, out, inflight, owners, relay_handles,
                   reply_handles, inbound, to_peer, peer>>

\* send_bytes, one turn of its loop: take what the pipe of the first message
\* has, write what the socket takes, and finish the message when its pipe has
\* ended and nothing is left to write.
AfterSend == IF phase = "send" THEN "flush" ELSE "rekey"

NothingToSend ==
    /\ phase \in {"send", "send_out"}
    /\ outbox = <<>>
    /\ phase' = AfterSend
    /\ UNCHANGED <<connected, handles, out, inflight, owners, relay_handles,
                   reply_handles, inbound, to_peer, peer>>

SendBytes ==
    LET m == Head(outbox)
        read == ReadPipe(pipe[m])
        eof == read.data = <<>> /\ ~ pipe[m].open
        waiting == read.data = <<>> /\ pipe[m].open
        unsent == out \o read.data
        room == SocketLen - Len(to_peer)
        n == IF Len(unsent) < room THEN Len(unsent) ELSE room
        finished == eof /\ n = Len(unsent)
    IN  /\ phase \in {"send", "send_out"}
        /\ outbox # <<>>
        /\ pipe' = [pipe EXCEPT ![m] = read.pipe]
        /\ to_peer' = to_peer \o SubSeq(unsent, 1, n)
        /\ out' = SubSeq(unsent, n + 1, Len(unsent))
        /\ outbox' = IF finished THEN Tail(outbox) ELSE outbox
        /\ inflight' = IF finished /\ m \in Requests THEN Append(inflight, m) ELSE inflight
        /\ phase' = IF waiting \/ (unsent # <<>> /\ room = 0) THEN AfterSend ELSE phase
        /\ UNCHANGED <<connected, queued, left, owners, relay_handles, reply_handles,
                       inbound, peer>>

\* Writing to a socket the peer has closed fails.
SendFailed ==
    /\ phase \in {"send", "send_out"}
    /\ outbox # <<>>
    /\ peer.closed
    /\ out # <<>> \/ ReadPipe(pipe[Head(outbox)]).data # <<>>
    /\ phase' = AfterSend
    /\ DeregisterPeer(pipe)
    /\ UNCHANGED relay_handles

\* With a defect: the ttl is the first second that is too late.
ExpiredEarly(m) == left[m] <= 0

\* With a defect: the ttl, a date, is taken for a number of seconds from now, and
\* does not pass.
ExpiredNever(m) == left[m] < -1

\* drain_timeouts: ttl < now.
Expired(m) == left[m] < 0

\* flush_relay_handles tries every relayed message, and the first of the replies;
\* clear_timeouts and disconnect_unresponsive follow.
FlushRelayHandles ==
    LET first == IF reply_handles = <<>> THEN {} ELSE {Head(reply_handles)}
        again(m) == FlushResult(m) = "again"
        intime(m) == ~ Expired(m)
        flushed == [m \in Outgoing |-> IF m \in Range(relay_handles) \cup first
                                       THEN Flushed(m) ELSE pipe[m]]
    IN  /\ phase = "flush"
        /\ phase' = "walk"
        /\ relay_handles' = SelectSeq(relay_handles, again)
        /\ \/ /\ connected /\ silence > Heartbeat
              /\ DeregisterPeer(flushed)
           \/ /\ ~ (connected /\ silence > Heartbeat)
              /\ pipe' = flushed
              /\ reply_handles' = IF first # {} /\ ~ again(Head(reply_handles))
                                  THEN Tail(reply_handles) ELSE reply_handles
              /\ inflight' = SelectSeq(inflight, intime)
              /\ UNCHANGED <<connected, queued, outbox, left, out, owners, inbound,
                             to_peer, peer>>

\* walk_peer_graph: the walk sends a request, polls those it has sent, or is
\* given up and drops them.
WalkBegin(m) ==
    /\ phase = "walk"
    /\ m \in Walks
    /\ ~ Made(m)
    /\ CanQueue
    /\ phase' = "send_out"
    /\ MakeHandle(m)
    /\ UNCHANGED <<connected, out, inflight, owners, relay_handles, reply_handles,
                   inbound, to_peer, peer>>

PendingWalks == {m \in Walks : Waiting(m)}

WalkTryFinish ==
    /\ phase = "walk"
    /\ phase' = "send_out"
    /\ pipe' = [m \in Outgoing |-> IF m \in PendingWalks /\ pipe[m].open
                                   THEN Flushed(m) ELSE pipe[m]]
    /\ result' = [m \in Requests |-> IF m \in PendingWalks THEN SendRecvResult(m)
                                     ELSE result[m]]
    /\ UNCHANGED <<connected, queued, outbox, left, out, inflight, reply, truncated,
                   relay_handles, reply_handles, inbound, to_peer, peer>>

WalkGivenUp ==
    /\ phase = "walk"
    /\ PendingWalks # {}
    /\ phase' = "send_out"
    /\ pipe' = [m \in Outgoing |-> IF m \in PendingWalks THEN Dropped(m) ELSE pipe[m]]
    /\ result' = [m \in Requests |-> IF m \in PendingWalks THEN "dropped" ELSE result[m]]
    /\ truncated' = truncated \cup {m \in PendingWalks : pipe[m].wbuf # <<>>}
    /\ UNCHANGED <<connected, queued, outbox, left, out, inflight, reply,
                   relay_handles, reply_handles, inbound, to_peer, peer>>

\* queue_ping_heartbeats, when nothing was sent for long.
QueuePingHeartbeat(m) ==
    /\ phase = "rekey"
    /\ m \in Relays
    /\ ~ Made(m)
    /\ CanQueue
    /\ MakeHandle(m)
    /\ relay_handles' = Append(relay_handles, m)
    /\ UNCHANGED <<phase, connected, out, inflight, owners, reply_handles, inbound,
                   to_peer, peer>>

\* rekey: a handshake is sent, or the handles are asked for a reply.
RekeyBegin(m) ==
    /\ phase = "rekey"
    /\ m \in Rekeys
    /\ ~ Made(m)
    /\ \A k \in Rekeys : ~ Waiting(k)
    /\ CanQueue
    /\ phase' = "dispatch"
    /\ MakeHandle(m)
    /\ UNCHANGED <<connected, out, inflight, owners, relay_handles, reply_handles,
                   inbound, to_peer, peer>>

RekeyTryRecv ==
    LET pending == {m \in Rekeys : Waiting(m)}
    IN  /\ phase = "rekey"
        /\ phase' = "dispatch"
        /\ result' = [m \in Requests |-> IF m \in pending THEN RecvResult(m)
                                         ELSE result[m]]
        /\ pipe' = [m \in Outgoing |-> IF m \in pending /\ RecvResult(m) # None
                                       THEN Dropped(m) ELSE pipe[m]]
        /\ UNCHANGED <<connected, queued, outbox, left, out, inflight, reply,
                       truncated, relay_handles, reply_handles, inbound,
                       to_peer, peer>>

----------------------------------------------------------------------------
\* Another thread with a handle: it flushes the pipe, which blocks while the
\* channel is full, drops the writer, and waits for the reply.

ThreadFlush(m) ==
    /\ m \in Threads
    /\ Waiting(m)
    /\ pipe[m].wbuf # <<>>
    /\ HasReader(m) /\ pipe[m].chan = <<>>
    /\ pipe' = [pipe EXCEPT ![m].chan = pipe[m].wbuf, ![m].wbuf = <<>>]
    /\ UNCHANGED <<phase, connected, queued, outbox, left, out, inflight, owners,
                   relay_handles, reply_handles, inbound, to_peer, peer>>

ThreadBroken(m) ==
    /\ m \in Threads
    /\ Waiting(m)
    /\ pipe[m].wbuf # <<>>
    /\ ~ HasReader(m)
    /\ pipe' = [pipe EXCEPT ![m] = Dropped(m)]
    /\ result' = [result EXCEPT ![m] = "broken"]
    /\ UNCHANGED <<phase, connected, queued, outbox, left, out, inflight, reply,
                   truncated, relay_handles, reply_handles, inbound,
                   to_peer, peer>>

ThreadDropWriter(m) ==
    /\ m \in Threads
    /\ Waiting(m)
    /\ pipe[m].open /\ pipe[m].wbuf = <<>>
    /\ pipe' = [pipe EXCEPT ![m].open = FALSE]
    /\ UNCHANGED <<phase, connected, queued, outbox, left, out, inflight, owners,
                   relay_handles, reply_handles, inbound, to_peer, peer>>

ThreadRecv(m) ==
    /\ m \in Threads
    /\ Waiting(m)
    /\ ~ pipe[m].open
    /\ RecvResult(m) # None
    /\ result' = [result EXCEPT ![m] = RecvResult(m)]
    /\ UNCHANGED <<phase, connected, handles, out, inflight, reply, truncated,
                   relay_handles, reply_handles, inbound, to_peer, peer>>

----------------------------------------------------------------------------
\* The remote peer and the clock.

\* The peer reads what has arrived, and recognises a message by its units.
ReadUnit(p, u) ==
    LET got == Append(p.partial, u)
    IN  CASE p.malformed -> p
          [] ~ p.malformed /\ got # Units(u[1], Len(got)) -> [p EXCEPT !.malformed = TRUE]
          [] OTHER -> IF Len(got) < OutLen THEN [p EXCEPT !.partial = got]
                      ELSE [p EXCEPT !.partial = <<>>, !.arrived = Append(@, u[1])]

PeerRead ==
    /\ phase = "dispatch"
    /\ ~ peer.closed
    /\ to_peer # <<>>
    /\ peer' = FoldLeft(ReadUnit, peer, to_peer)
    /\ to_peer' = <<>>
    /\ UNCHANGED <<phase, connected, handles, out, inflight, owners, relay_handles,
                   reply_handles, inbound>>

\* What the peer writes is seen when poll returns.  It may come in two parts.
PeerWrite(msg, p) ==
    /\ phase = "dispatch"
    /\ connected /\ ~ peer.closed
    /\ peer.sending = <<>>
    /\ \E n \in 1..InLen :
          /\ n <= SocketLen - Len(from_peer)
          /\ from_peer' = from_peer \o Units(msg, n)
          /\ peer' = [p EXCEPT !.sending = SubSeq(Units(msg, InLen), n + 1, InLen)]
    /\ UNCHANGED <<phase, connected, handles, out, inflight, owners, relay_handles,
                   reply_handles, ibuf, silence, to_peer>>

PeerReplies(m) ==
    /\ m \in Requests
    /\ m \in Range(peer.arrived)
    /\ peer.replies < MaxReplies
    /\ PeerWrite(m, [peer EXCEPT !.replies = @ + 1])

PeerAsks(m) ==
    /\ m \in PeerRequests \ Range(peer.started)
    /\ WithinBound
    /\ PeerWrite(m, [peer EXCEPT !.started = Append(@, m)])

PeerPongs == PeerWrite(Pong, peer)

PeerWritesRest ==
    /\ phase = "dispatch"
    /\ connected /\ ~ peer.closed
    /\ peer.sending # <<>>
    /\ Len(peer.sending) <= SocketLen - Len(from_peer)
    /\ from_peer' = from_peer \o peer.sending
    /\ peer' = [peer EXCEPT !.sending = <<>>]
    /\ UNCHANGED <<phase, connected, handles, out, inflight, owners, relay_handles,
                   reply_handles, ibuf, silence, to_peer>>

PeerCloses ==
    /\ connected /\ ~ peer.closed
    /\ peer' = [IdlePeer(TRUE) EXCEPT !.started = peer.started]
    /\ UNCHANGED <<phase, connected, handles, out, inflight, owners, relay_handles,
                   reply_handles, inbound, to_peer>>

\* Time passes while the network thread waits in poll.  The dates of requests
\* that have ended, and of a peer that is gone, are not looked at again.
Tick ==
    /\ phase = "dispatch"
    /\ left' = [m \in Requests |->
                   IF m \in Range(outbox) \cup Range(inflight) /\ left[m] >= 0
                   THEN left[m] - 1 ELSE left[m]]
    /\ silence' = IF connected /\ silence <= Heartbeat THEN silence + 1 ELSE silence
    /\ UNCHANGED <<phase, connected, pipe, queued, outbox, out, inflight, owners,
                   relay_handles, reply_handles, ibuf, from_peer,
                   to_peer, peer>>

----------------------------------------------------------------------------

Init ==
    /\ phase = "dispatch"
    /\ connected = TRUE
    /\ pipe = [m \in Outgoing |-> DeadPipe]
    /\ queued = <<>> /\ outbox = <<>> /\ out = <<>> /\ inflight = <<>>
    /\ left = [m \in Requests |-> -1]
    /\ reply = [m \in Requests |-> None]
    /\ result = [m \in Requests |-> None]
    /\ relay_handles = <<>> /\ reply_handles = <<>>
    /\ ibuf = <<>> /\ silence = 0
    /\ truncated = {}
    /\ to_peer = <<>> /\ from_peer = <<>>
    /\ peer = IdlePeer(FALSE)

NetworkThread ==
    \/ \E m \in Threads \cup Relays : DispatchRequest(m)
    \/ Receive \/ NotReady
    \/ NothingToSend \/ SendBytes \/ SendFailed
    \/ FlushRelayHandles
    \/ \E m \in Walks : WalkBegin(m)
    \/ WalkTryFinish \/ WalkGivenUp
    \/ \E m \in Relays : QueuePingHeartbeat(m)
    \/ \E m \in Rekeys : RekeyBegin(m)
    \/ RekeyTryRecv

OtherThread(m) ==
    ThreadFlush(m) \/ ThreadBroken(m) \/ ThreadDropWriter(m) \/ ThreadRecv(m)

RemotePeer ==
    \/ PeerRead \/ PeerPongs \/ PeerWritesRest \/ PeerCloses
    \/ \E m \in Requests : PeerReplies(m)
    \/ \E m \in PeerRequests : PeerAsks(m)

Next ==
    \/ NetworkThread
    \/ \E m \in Threads : OtherThread(m)
    \/ RemotePeer
    \/ Tick

\* The network thread, which always has a step to take, makes pass after pass,
\* other threads are scheduled, and time passes.  The peer need not do anything.
Fairness ==
    /\ []<>(phase = "dispatch") /\ []<>(phase # "dispatch")
    /\ \A m \in Threads : WF_vars(OtherThread(m))
    /\ SF_vars(Tick)

Spec == Init /\ [][Next]_vars /\ Fairness

----------------------------------------------------------------------------
\* What goes over the wire is a sequence of whole messages, in the order in
\* which their handles were made, however the writers, the network thread and
\* the socket take turns.  The exception is a handle dropped before it was
\* flushed: connection.rs takes the end of a pipe for the end of a message.
MessagesWhole ==
    truncated = {} => ~ peer.malformed /\ IsPrefix(peer.arrived, queued)

\* A request is answered at most once, by its own reply and never by the reply
\* to another request, however often the peer answers and in whatever order; the
\* network thread never blocks on a channel that is full.  (A request of the peer
\* may have the same number: see NoRequestForReply.)
AnsweredOnce ==
    /\ phase # "blocked"
    /\ \A m \in Requests : reply[m] \in {m, None} \cup PeerRequests

\* A reply is passed over only when nobody can wait for it any more: its request
\* was answered, has timed out, or is that of another thread which has sent the
\* last piece and not yet dropped the pipe.
ReplyNotMissed ==
    [][Receive => \A m \in Chat(Consumed.inbox).unsolicited :
          \/ reply'[m] # None \/ left[m] < 0 \/ result[m] # None
          \/ m \in Threads \cap Range(outbox)]_vars

\* A request fails only if its time is up or the connection is gone.
NoEarlyFailure ==
    \A m \in Requests : result[m] = "broken" => ~ connected \/ left[m] < 0

\* A re-key handshake sits in the outbox with nobody to flush it.
RekeyStuck == \E k \in Rekeys : k \in Range(outbox) /\ pipe[k].wbuf # <<>>

\* A peer that has not closed empties its socket again and again.  Nothing in the
\* code makes it: only requests in flight time out (connection.rs), and a peer that
\* keeps sending is not unresponsive, whether or not it reads (p2p.rs).
PeerReads == []<>(to_peer = <<>> \/ peer.closed)

\* A request in flight ends, with a reply or an error, for its owner, whatever the
\* peer does or does not do.  Of a peer that reads, or closes, the same holds of
\* every request that was accepted, unless a re-key handshake is stuck before it;
\* the peer need not answer.
EveryRequestEnds ==
    \A m \in Walks \cup Threads :
        /\ m \in Range(inflight) ~> result[m] # None
        /\ PeerReads => (Made(m) ~> (result[m] # None \/ RekeyStuck))

\* rekey sends a handshake to every peer (p2p.rs): of a peer that reads, or
\* closes, it leaves the outbox.
RekeyHandshakeSent ==
    PeerReads => \A k \in Rekeys : Made(k) ~> k \notin Range(outbox)

\* What a request is answered with is a reply, not a request of the peer
\* (connection.rs, fulfill_request).
NoRequestForReply ==
    \A m \in Requests : reply[m] \notin PeerRequests
=============================================================================
