------------------------- MODULE MCExceptionLifecycle -------------------------
(* Three clients race; four transitions take an exception to "closed", out   *)
(* of it by a stale commit, and in again.                                    *)
EXTENDS ExceptionLifecycle
===============================================================================
