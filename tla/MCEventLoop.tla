---------------------------- MODULE MCEventLoop ------------------------------
(* EventLoop with two connections and FIFOs of a few places. *)
EXTENDS EventLoop

MCClients == {"c1", "c2"}
==============================================================================
