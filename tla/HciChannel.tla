------------------------------ MODULE HciChannel ------------------------------
(***************************************************************************)
(* What the Rootcanal HAL promises its two users, with no sockets, reactor *)
(* or byte-level framing: two reliable FIFO channels.                      *)
(*                                                                         *)
(*   host -> peer: the HCI layer hands over H4-encoded frames; the peer's  *)
(*                 byte stream grows by one whole frame at a time, in the  *)
(*                 order they were handed over.                            *)
(*   peer -> host: the peer writes frames; the receiver callback gets      *)
(*                 them one at a time, in the order they were written.     *)
(*                                                                         *)
(* Nothing here says a frame is ever moved: the HAL may be stopped or the  *)
(* process may abort, so the promise is safety only.                       *)
(***************************************************************************)
EXTENDS Naturals, Sequences

CONSTANTS OutEncodings, PeerFrames

VARIABLES
    sent,           \* encoded frames handed over by the host, in order
    transmitted,    \* how many of them the peer has received
    to_peer,        \* the peer's received byte stream
    peer_sent,      \* frames written by the peer, in order
    delivered       \* frames handed to the receiver, in order

chanvars == <<sent, transmitted, to_peer, peer_sent, delivered>>

Init ==
    /\ sent = <<>> /\ transmitted = 0 /\ to_peer = <<>>
    /\ peer_sent = <<>> /\ delivered = <<>>

HostSend(e) ==
    /\ sent' = Append(sent, e)
    /\ UNCHANGED <<transmitted, to_peer, peer_sent, delivered>>

\* The next untransmitted frame reaches the peer, whole.
Transmit ==
    /\ transmitted < Len(sent)
    /\ transmitted' = transmitted + 1
    /\ to_peer' = to_peer \o sent[transmitted + 1]
    /\ UNCHANGED <<sent, peer_sent, delivered>>

PeerSend(f) ==
    /\ peer_sent' = Append(peer_sent, f)
    /\ UNCHANGED <<sent, transmitted, to_peer, delivered>>

\* The oldest undelivered peer frame reaches the receiver.
Deliver ==
    /\ Len(delivered) < Len(peer_sent)
    /\ delivered' = Append(delivered, peer_sent[Len(delivered) + 1])
    /\ UNCHANGED <<sent, transmitted, to_peer, peer_sent>>

Next ==
    \/ \E e \in OutEncodings : HostSend(e)
    \/ Transmit
    \/ \E f \in PeerFrames : PeerSend(f)
    \/ Deliver

Spec == Init /\ [][Next]_chanvars

==============================================================================
