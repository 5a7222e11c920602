-------------------------------- MODULE MCRlog --------------------------------
EXTENDS Rlog

CONSTANTS w1, w2
=============================================================================
