------------------------ MODULE MCAsyncRecvListener -------------------------
(* Two capture threads, three packets, a queue of two and two listeners:   *)
(* the queue fills, both threads contend for it and a listener is replaced *)
(* or removed at every point of the worker's loop.                         *)
EXTENDS AsyncRecvListener
=============================================================================
