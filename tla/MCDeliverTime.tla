---------------------------- MODULE MCDeliverTime ----------------------------
EXTENDS DeliverTime
=============================================================================
