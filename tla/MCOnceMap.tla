----------------------------- MODULE MCOnceMap -----------------------------
(* An instance of OnceMap: three tasks, so that one can run a job while    *)
(* one subscribes and one sleeps; two keys, so that a notification can go  *)
(* to the wrong waiters.                                                   *)
EXTENDS OnceMap
=============================================================================
