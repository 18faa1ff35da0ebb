---------------------------- MODULE MCSwitchboard ----------------------------
\* Requests, rollouts and rollbacks of two apps on one box.
EXTENDS Switchboard

CONSTANTS r1, c1, c2, k1, k2, u1, u2
==============================================================================
