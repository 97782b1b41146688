---------------------------- MODULE MCBatchBuffers ----------------------------
EXTENDS BatchBuffers

CONSTANTS t1, t2
===============================================================================
