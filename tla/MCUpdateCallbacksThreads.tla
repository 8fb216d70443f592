----------------------- MODULE MCUpdateCallbacksThreads -----------------------
(* UpdateCallbacksThreads with two threads and a very short array.            *)
EXTENDS UpdateCallbacksThreads, TLC

CONSTANTS f, g, x, y

TwoPairs == {<<f, x>>, <<g, y>>}
AllModes == {"guarded", "oneWriter", "appendOnly"}
=============================================================================
