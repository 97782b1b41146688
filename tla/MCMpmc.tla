-------------------------------- MODULE MCMpmc --------------------------------
EXTENDS Mpmc

CONSTANTS p1, p2, k1, k2, v1, v2
===============================================================================
