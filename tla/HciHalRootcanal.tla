--------------------------- MODULE HciHalRootcanal ---------------------------
(***************************************************************************)
(* The H4 transport of src/gd/hal/hci_hal_host_rootcanal.cc.               *)
(*                                                                         *)
(* Threads: HCI-layer threads call sendHciCommand/sendAclData/sendScoData; *)
(* the reactor thread hci_incoming_thread_ runs one callback at a time:    *)
(* incoming_packet_received (read) or the write lambda; the module         *)
(* registry calls Start and Stop.  Everything the senders, the write       *)
(* lambda and Start/Stop do happens under mutex_, so each of them is one   *)
(* atomic step.  incoming_packet_received takes no lock: its recv calls    *)
(* are separate steps, between which bytes arrive and Stop can run.        *)
(*                                                                         *)
(* The peer (rootcanal) writes H4 frames; the bytes of one write reach the *)
(* socket whole or, when SegmentedArrival, in any number of pieces.        *)
(***************************************************************************)
EXTENDS Naturals, Sequences, SequencesExt

CONSTANTS
    PeerFrames,         \* frames the peer may write: [type, bytes] (bytes = header ++ payload)
    OutFrames,          \* frames the host may send: [type, bytes]
    MaxPeerFrames,      \* bound on frames written by the peer
    MaxSends,           \* bound on send* calls
    MaxStarts,          \* bound on Start calls
    SegmentedArrival,   \* a peer write may reach the socket in pieces
    PartialWrites,      \* write() on the non-blocking socket may write fewer bytes
    PeerMayClose,       \* the peer may close the connection
    ConnectMayFail      \* rootcanal may be unreachable when Start connects

\* H4 type bytes and header sizes (kH4*, kHci*HeaderSize), kBufSize.
kH4Command == 1
kH4Acl == 2
kH4Sco == 3
kH4Event == 4
Tag == [CMD |-> kH4Command, ACL |-> kH4Acl, SCO |-> kH4Sco, EVT |-> kH4Event]
kH4HeaderSize == 1
HeaderSize == [t \in {kH4Acl, kH4Sco, kH4Event} |->
                 CASE t = kH4Acl -> 4 [] t = kH4Sco -> 3 [] t = kH4Event -> 2]
kBufSize == 1024
PacketType == [t \in {kH4Acl, kH4Sco, kH4Event} |->
                 CASE t = kH4Acl -> "ACL" [] t = kH4Sco -> "SCO" [] t = kH4Event -> "EVT"]

\* The H4 encoding of a frame: its type byte, then header and payload.
H4(f) == <<Tag[f.type]>> \o f.bytes

\* Payload length as the code reads it from the header buf[1..]: byte 2
\* for events, bytes 3 and 4 little-endian for ACL, byte 3 for SCO.
PayloadLength(tag, hdr) ==
    CASE tag = kH4Event -> hdr[2]
      [] tag = kH4Acl   -> hdr[4] * 256 + hdr[3]
      [] tag = kH4Sco   -> hdr[3]

VARIABLES
    sock_open,      \* sock_fd_ != INVALID_FD
    reactable,      \* "none", "read" (write callback nullptr) or "readwrite"
    callback_set,   \* incoming_packet_callback_ != nullptr
    logger,         \* btsnoop_logger_: "uninit", "null" or "live"
    out_queue,      \* hci_outgoing_queue_: H4 frames not yet written
    to_peer,        \* bytes the peer has received
    sent,           \* H4 frames queued by send*, in lock order
    wire,           \* peer writes not yet at the socket: Seq of byte sequences
    sockbuf,        \* bytes at the socket, not yet read
    peer_sent,      \* frames the peer has written, in order
    peer_closed,    \* the peer has closed its end
    rd,             \* incoming_packet_received in progress: [pc, tag, hdr]
    delivered,      \* packets handed to the callback: [type, bytes]
    overflow,       \* recv has written past the end of buf
    fatal,          \* "none", or what aborted the process
    starts          \* Start calls made

vars == <<sock_open, reactable, callback_set, logger, out_queue, to_peer, sent,
          wire, sockbuf, peer_sent, peer_closed, rd, delivered, overflow,
          fatal, starts>>
readvars == <<rd, delivered, overflow, sockbuf>>
peervars == <<wire, peer_sent, peer_closed>>

Running == sock_open /\ reactable # "none"

Idle == [pc |-> "idle", tag |-> 0, hdr |-> <<>>]

\* recv(fd, n) on the non-blocking socket: min(n, available) bytes, 0 at
\* end of stream, -1 (EAGAIN or a closed fd) when nothing can be read.
RecvCount(n) ==
    IF ~sock_open THEN -1
    ELSE IF n = 0 THEN 0
    ELSE IF sockbuf # <<>> THEN IF Len(sockbuf) < n THEN Len(sockbuf) ELSE n
    ELSE IF peer_closed /\ wire = <<>> THEN 0
    ELSE -1

Abort(why) == fatal' = why

\* An ASSERT in a reactor callback.  Once Stop has closed sock_fd_ and
\* cleared the receiver, every such ASSERT is one Stop caused.
CallbackAbort(why, after_stop) == fatal' = IF sock_open THEN why ELSE after_stop

-----------------------------------------------------------------------------
(* Lifecycle: Start, Stop and the receiver registration.                   *)

\* ConnectToRootCanal: a non-blocking socket connected to the server, or
\* INVALID_FD when socket() (an fd below 1 counts as failure),
\* gethostbyname, connect or fcntl fails.
ConnectToRootCanal == IF ConnectMayFail THEN {"fd", "INVALID_FD"} ELSE {"fd"}

\* Start holds mutex_ from the connect until the logger exists; the senders,
\* Stop, the receiver registration and the write lambda wait for it.  The
\* read callback takes no lock.
MutexFree == ~(sock_open /\ logger # "live")

\* Start, up to the reactor registration: connect and ASSERT that it
\* succeeded, then register the read callback, which can run from now on.
Start ==
    /\ ~sock_open /\ starts < MaxStarts
    /\ starts' = starts + 1
    /\ \E fd \in ConnectToRootCanal :
         IF fd = "INVALID_FD"
         THEN /\ Abort("no rootcanal")
              /\ UNCHANGED <<sock_open, reactable>>
         ELSE /\ sock_open' = TRUE
              /\ reactable' = "read"
              /\ UNCHANGED fatal
    /\ UNCHANGED <<callback_set, logger, out_queue, to_peer, sent, peervars, readvars, rd>>

\* The rest of Start: create the logger and release mutex_.
StartLogger ==
    /\ ~MutexFree
    /\ logger' = "live"
    /\ UNCHANGED <<sock_open, reactable, callback_set, out_queue, to_peer, sent,
                   peervars, readvars, rd, fatal, starts>>

\* Stop: delete the logger, unregister, clear the receiver, close the fd.
\* hci_outgoing_queue_ is left as it is.  A read callback already running
\* is not waited for.
Stop ==
    /\ sock_open /\ MutexFree
    /\ logger' = "null"
    /\ reactable' = "none"
    /\ callback_set' = FALSE
    /\ sock_open' = FALSE
    /\ UNCHANGED <<out_queue, to_peer, sent, peervars, readvars, rd, fatal, starts>>

\* registerIncomingPacketCallback: exactly one receiver.
registerIncomingPacketCallback ==
    /\ ~callback_set /\ sock_open /\ MutexFree
    /\ callback_set' = TRUE
    /\ UNCHANGED <<sock_open, reactable, logger, out_queue, to_peer, sent,
                   peervars, readvars, rd, fatal, starts>>

-----------------------------------------------------------------------------
(* Write side.                                                             *)

\* Mutant of Send: the size() == 1 test made before emplace.
SendArmsBeforeEmplace(f) ==
    /\ Len(sent) < MaxSends /\ MutexFree /\ sock_open
    /\ out_queue' = Append(out_queue, H4(f))
    /\ sent' = Append(sent, H4(f))
    /\ reactable' = IF Len(out_queue) = 1 THEN "readwrite" ELSE reactable
    /\ UNCHANGED <<sock_open, callback_set, logger, to_peer, peervars, readvars,
                   rd, fatal, starts>>

\* sendHciCommand / sendAclData / sendScoData and write_to_rootcanal_fd:
\* ASSERT the fd is open, capture, prepend the type byte, queue, and arm the
\* write callback when the queue has just become one long.
Send(f) ==
    /\ Len(sent) < MaxSends /\ MutexFree
    /\ IF ~sock_open
       THEN Abort("send on closed fd") /\ UNCHANGED <<out_queue, sent, reactable>>
       ELSE /\ out_queue' = Append(out_queue, H4(f))
            /\ sent' = Append(sent, H4(f))
            /\ reactable' = IF Len(out_queue') = 1 THEN "readwrite" ELSE reactable
            /\ UNCHANGED fatal
    /\ UNCHANGED <<sock_open, callback_set, logger, to_peer, peervars, readvars,
                   rd, starts>>

\* The reactor thread picks a ready callback: the read lambda when bytes or
\* end of stream are at the socket, the write lambda when it is armed.
Dispatch ==
    /\ rd.pc = "idle"
    /\ \/ reactable # "none" /\ (sockbuf # <<>> \/ (peer_closed /\ wire = <<>>))
          /\ rd' = [rd EXCEPT !.pc = "read"]
       \/ reactable = "readwrite"
          /\ rd' = [rd EXCEPT !.pc = "write"]
    /\ UNCHANGED <<sock_open, reactable, callback_set, logger, out_queue, to_peer,
                   sent, peervars, delivered, overflow, sockbuf, fatal, starts>>

\* Mutant of WriteReady: the write callback is never disarmed.
WriteReadyNeverDisarms ==
    /\ rd.pc = "write" /\ MutexFree
    /\ rd' = Idle
    /\ LET pkt == Head(out_queue) IN
       /\ IF peer_closed \/ ~sock_open
          THEN Abort("write") /\ UNCHANGED to_peer
          ELSE to_peer' = to_peer \o pkt /\ UNCHANGED fatal
       /\ out_queue' = Tail(out_queue)
    /\ UNCHANGED <<reactable, sock_open, callback_set, logger, sent, peervars,
                   delivered, overflow, sockbuf, starts>>

\* Mutant of WriteReady: the written frame is not popped.
WriteReadyKeepsFront ==
    /\ rd.pc = "write" /\ MutexFree
    /\ rd' = Idle
    /\ IF peer_closed \/ ~sock_open
       THEN Abort("write") /\ UNCHANGED to_peer
       ELSE to_peer' = to_peer \o Head(out_queue) /\ UNCHANGED fatal
    /\ UNCHANGED <<out_queue, reactable, sock_open, callback_set, logger, sent,
                   peervars, delivered, overflow, sockbuf, starts>>

\* The write lambda, once it holds mutex_: write the front frame, pop it,
\* abort on -1, disarm when the queue is empty.  A short write loses the
\* rest of the frame.  After Stop the fd is closed and write returns -1.
WriteReady ==
    /\ rd.pc = "write" /\ MutexFree
    /\ rd' = Idle
    /\ LET pkt == Head(out_queue) IN
       \E n \in IF PartialWrites THEN 1..Len(pkt) ELSE {Len(pkt)} :
          /\ IF peer_closed \/ ~sock_open
             THEN CallbackAbort("write", "write after Stop") /\ UNCHANGED to_peer
             ELSE to_peer' = to_peer \o SubSeq(pkt, 1, n) /\ UNCHANGED fatal
          /\ out_queue' = Tail(out_queue)
          /\ reactable' = IF out_queue' = <<>> /\ reactable # "none" THEN "read" ELSE reactable
    /\ UNCHANGED <<sock_open, callback_set, logger, sent, peervars, delivered,
                   overflow, sockbuf, starts>>

-----------------------------------------------------------------------------
(* Read side: incoming_packet_received, one step per recv.                 *)

\* Read the H4 type byte.  0 bytes: the peer closed, raise(SIGINT).  An
\* unknown type byte matches no branch and is dropped.
ReadType ==
    /\ rd.pc = "read"
    /\ IF ~callback_set THEN CallbackAbort("no callback", "read after Stop") /\ UNCHANGED <<rd, sockbuf>>
       ELSE LET got == RecvCount(kH4HeaderSize) IN
            CASE got = -1 -> CallbackAbort("recv type", "read after Stop") /\ UNCHANGED <<rd, sockbuf>>
              [] got = 0  -> CallbackAbort("SIGINT", "read after Stop") /\ UNCHANGED <<rd, sockbuf>>
              [] OTHER ->
                   /\ sockbuf' = Tail(sockbuf)
                   /\ rd' = IF Head(sockbuf) \in DOMAIN HeaderSize
                            THEN [pc |-> "header", tag |-> Head(sockbuf), hdr |-> <<>>]
                            ELSE Idle
                   /\ UNCHANGED fatal
    /\ UNCHANGED <<sock_open, reactable, callback_set, logger, out_queue, to_peer,
                   sent, peervars, delivered, overflow, starts>>

\* Read the fixed header; anything short of it fails ASSERT_LOG.
ReadHeader ==
    /\ rd.pc = "header"
    /\ LET n == HeaderSize[rd.tag]
           got == RecvCount(n)
       IN IF got # n
          THEN CallbackAbort("malformed header", "read after Stop") /\ UNCHANGED <<rd, sockbuf>>
          ELSE /\ rd' = [rd EXCEPT !.pc = "payload", !.hdr = SubSeq(sockbuf, 1, n)]
               /\ sockbuf' = SubSeq(sockbuf, n + 1, Len(sockbuf))
               /\ UNCHANGED fatal
    /\ UNCHANGED <<sock_open, reactable, callback_set, logger, out_queue, to_peer,
                   sent, peervars, delivered, overflow, starts>>

\* Read the payload into buf after the header, then check its size (and,
\* for ACL, the length bound), capture it and hand it to the callback.
ReadPayload ==
    /\ rd.pc = "payload"
    /\ LET len == PayloadLength(rd.tag, rd.hdr)
           got == RecvCount(len)
           end == kH4HeaderSize + HeaderSize[rd.tag] + got
       IN /\ overflow' = (overflow \/ end > kBufSize)
          /\ sockbuf' = IF got > 0 THEN SubSeq(sockbuf, got + 1, Len(sockbuf)) ELSE sockbuf
          /\ rd' = Idle
          /\ CASE got # len -> CallbackAbort("malformed payload", "read after Stop") /\ UNCHANGED delivered
               [] rd.tag = kH4Acl /\ len > kBufSize - kH4HeaderSize - HeaderSize[kH4Acl] ->
                    CallbackAbort("packet too long", "read after Stop") /\ UNCHANGED delivered
               [] logger # "live" \/ ~callback_set ->
                    CallbackAbort("null logger or receiver", "read after Stop") /\ UNCHANGED delivered
               [] OTHER ->
                    /\ delivered' = Append(delivered,
                          [type |-> PacketType[rd.tag],
                           bytes |-> rd.hdr \o SubSeq(sockbuf, 1, got)])
                    /\ UNCHANGED fatal
    /\ UNCHANGED <<sock_open, reactable, callback_set, logger, out_queue, to_peer,
                   sent, peervars, starts>>

-----------------------------------------------------------------------------
(* The peer.                                                               *)

PeerWrite(f) ==
    /\ sock_open /\ ~peer_closed
    /\ Len(peer_sent) < MaxPeerFrames
    /\ wire' = Append(wire, H4(f))
    /\ peer_sent' = Append(peer_sent, f)
    /\ UNCHANGED <<sock_open, reactable, callback_set, logger, out_queue, to_peer,
                   sent, peer_closed, readvars, fatal, starts>>

\* The oldest write reaches the socket, whole or in a first piece.
Arrive ==
    /\ wire # <<>>
    /\ \E k \in IF SegmentedArrival THEN 1..Len(Head(wire)) ELSE {Len(Head(wire))} :
         /\ sockbuf' = sockbuf \o SubSeq(Head(wire), 1, k)
         /\ wire' = IF k = Len(Head(wire)) THEN Tail(wire)
                    ELSE <<SubSeq(Head(wire), k + 1, Len(Head(wire)))>> \o Tail(wire)
    /\ UNCHANGED <<sock_open, reactable, callback_set, logger, out_queue, to_peer,
                   sent, peer_sent, peer_closed, rd, delivered, overflow, fatal, starts>>

PeerClose ==
    /\ PeerMayClose /\ sock_open /\ ~peer_closed
    /\ peer_closed' = TRUE
    /\ UNCHANGED <<sock_open, reactable, callback_set, logger, out_queue, to_peer,
                   sent, wire, peer_sent, readvars, fatal, starts>>

-----------------------------------------------------------------------------

Init ==
    /\ sock_open = FALSE
    /\ reactable = "none"
    /\ callback_set = FALSE
    /\ logger = "uninit"
    /\ out_queue = <<>> /\ to_peer = <<>> /\ sent = <<>>
    /\ wire = <<>> /\ sockbuf = <<>> /\ peer_sent = <<>> /\ peer_closed = FALSE
    /\ rd = Idle
    /\ delivered = <<>>
    /\ overflow = FALSE
    /\ fatal = "none"
    /\ starts = 0

Reactor == Dispatch \/ WriteReady \/ ReadType \/ ReadHeader \/ ReadPayload

Next ==
    /\ fatal = "none"
    /\ \/ Start \/ StartLogger \/ Stop \/ registerIncomingPacketCallback
       \/ \E f \in OutFrames : Send(f)
       \/ Reactor
       \/ \E f \in PeerFrames : PeerWrite(f)
       \/ Arrive \/ PeerClose

\* The reactor thread, Start's own thread and the network make progress;
\* callers need not.
Fairness ==
    /\ WF_vars(fatal = "none" /\ StartLogger)
    /\ WF_vars(fatal = "none" /\ Reactor)
    /\ WF_vars(fatal = "none" /\ Arrive)

Spec == Init /\ [][Next]_vars
FairSpec == Spec /\ Fairness

-----------------------------------------------------------------------------
(* Properties.                                                             *)

Bytes == 0..255
Frame == [type : {"CMD", "ACL", "SCO", "EVT"}, bytes : Seq(Bytes)]

TypeOK ==
    /\ sock_open \in BOOLEAN /\ callback_set \in BOOLEAN
    /\ reactable \in {"none", "read", "readwrite"}
    /\ logger \in {"uninit", "null", "live"}
    /\ out_queue \in Seq(Seq(Bytes)) /\ sent \in Seq(Seq(Bytes))
    /\ to_peer \in Seq(Bytes) /\ sockbuf \in Seq(Bytes)
    /\ wire \in Seq(Seq(Bytes)) /\ peer_sent \in Seq(Frame)
    /\ rd.pc \in {"idle", "read", "header", "payload", "write"}
    /\ delivered \in Seq(Frame)
    /\ overflow \in BOOLEAN /\ starts \in 0..MaxStarts

\* The bytes the peer receives are, in order, a prefix of the H4 frames
\* the send* calls queued: the write lambda writes whole frames in FIFO
\* order and loses none.
OutgoingStreamIsSentFrames == IsPrefix(to_peer, FlattenSeq(sent))

\* A frame queued while the transport is open is eventually written (or
\* the transport is stopped, or the process has died): write_to_rootcanal_fd
\* arms the write callback whenever frames are waiting.
QueuedFramesDrain ==
    (sock_open /\ out_queue # <<>>) ~> (out_queue = <<>> \/ ~sock_open \/ fatal # "none")

\* The write callback is armed only while frames wait in
\* hci_outgoing_queue_: the write lambda disarms itself when it pops the
\* last frame, so it never calls front() on an empty queue.
WriteArmedOnlyWithFrames == reactable = "readwrite" => out_queue # <<>>

\* recv never writes past the end of buf[kBufSize]: the payload of a frame
\* fits before it is read.
NoBufferOverflow == ~overflow

\* Stop quiesces the reactor: a read or write callback the reactor thread
\* has already entered when Stop unregisters, closes sock_fd_ and clears
\* the receiver and the logger never aborts the process because of it
\* (close() promises that no callback fires afterward).  Stop takes
\* mutex_, but incoming_packet_received takes no lock.
StopQuiescesReactor == fatal \notin {"read after Stop", "write after Stop"}


\* The HAL implements the abstract channel HciChannel: every step of
\* sendHciCommand/sendAclData/sendScoData, the write lambda and
\* incoming_packet_received either leaves both directions alone, queues one
\* frame, moves exactly the next queued frame whole to the peer, or hands
\* exactly the next peer frame to the callback.  A frame popped by a write
\* that failed (and aborted) has not been transmitted.
Chan == INSTANCE HciChannel
          WITH OutEncodings <- {H4(f) : f \in OutFrames},
               transmitted <- Len(sent) - Len(out_queue) - (IF fatal \in {"write", "write after Stop"} THEN 1 ELSE 0)

ImplementsChannel == Chan!Spec

=============================================================================
