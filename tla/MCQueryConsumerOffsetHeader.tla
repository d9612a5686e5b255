-------------------- MODULE MCQueryConsumerOffsetHeader --------------------
EXTENDS QueryConsumerOffsetHeader
=============================================================================
