----------------------------- MODULE MCEventLoop -----------------------------
(* TLC instance of EventLoop over ThreadPool. *)
EXTENDS EventLoop
=============================================================================
