---------------------------- MODULE MCWebSession -----------------------------
(* A visitor with or without a cookie, two calls at a time and two sessions: *)
(* a login and its step-up, or a session and the one that comes after it.    *)
EXTENDS WebSession
=============================================================================
