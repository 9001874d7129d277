--------------------------- MODULE MCStreamObserve ---------------------------
(* Model-checking instance of StreamObserve; its configurations only bound *)
(* the number of chunks.                                                   *)
EXTENDS StreamObserve
=============================================================================
