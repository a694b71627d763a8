------------------------- MODULE MC_HciHalRootcanal -------------------------
EXTENDS HciHalRootcanal

\* A Command Complete event with one parameter byte, a one-byte ACL packet
\* and a one-byte SCO packet on handle 1.
MCPeerFrames ==
    { [type |-> "EVT", bytes |-> <<14, 1, 170>>],
      [type |-> "ACL", bytes |-> <<1, 0, 1, 0, 170>>],
      [type |-> "SCO", bytes |-> <<1, 0, 1, 170>>] }

\* An ACL packet of 1020 payload bytes, one more than buf can hold.
MCOversizeAcl ==
    { [type |-> "ACL", bytes |-> <<1, 0, 1020 % 256, 1020 \div 256>> \o [i \in 1..1020 |-> 170]] }

\* HCI_Reset (opcode 0x0c03, no parameters) and an empty ACL packet.
MCOutFrames ==
    { [type |-> "CMD", bytes |-> <<3, 12, 0>>],
      [type |-> "ACL", bytes |-> <<1, 0, 0, 0>>] }
=============================================================================
