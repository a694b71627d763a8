---------------------------- MODULE MC_BtmInquiry ----------------------------
EXTENDS BtmInquiry, TLC

CONSTANTS d1, d2

\* d1 is BR/EDR only; d2 was seen by an LE scan first.
MCDevices == {d1, d2}
MCLeDevices == {d2}
MCNoLeDevices == {}
=============================================================================
