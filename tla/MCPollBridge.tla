---------------------------- MODULE MCPollBridge ----------------------------
EXTENDS PollBridge

CONSTANTS w1, t1, t2, e1, e2, e3

MCWatches == {w1}
MCTimers == {t1, t2}
MCEventIds == {e1, e2, e3}
=============================================================================
