--------------------------- MODULE MCUserDebugger ---------------------------
(* An attached process with two threads and an image that is started. *)
EXTENDS UserDebugger, TLC

Owners == ("t1" :> "p") @@ ("t2" :> "p") @@ ("u" :> "q")
=============================================================================
