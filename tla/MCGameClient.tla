---- MODULE MCGameClient ----
(* Two characters, one's own and the other: the second login may be as the    *)
(* other.  Two threads of buttons, so that a login may overtake another.       *)
EXTENDS GameClient
====
