--------------------------- MODULE MCEpollPoller ---------------------------
(* TLC instance of EpollPoller: the channels are interchangeable.          *)
EXTENDS EpollPoller, TLC

Symmetry == Permutations(Channels)
=============================================================================
