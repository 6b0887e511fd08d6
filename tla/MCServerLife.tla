----------------------------- MODULE MCServerLife -----------------------------
(* ServerLife with two sessions, logins and emails on one of two servers. *)
EXTENDS ServerLife
===============================================================================
