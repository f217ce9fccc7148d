---------------------------- MODULE MCMotionOwner ----------------------------
EXTENDS MotionOwner

\* A pass in time and one that is later than any freshness limit.
MCPasses == {1, 2}

\* Uptime that went back, stood still, or advanced.
MCAdvances == {-1, 0, 1}
===============================================================================
