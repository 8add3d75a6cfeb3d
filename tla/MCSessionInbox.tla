--------------------------- MODULE MCSessionInbox ---------------------------
(***************************************************************************)
(* SessionInbox, instantiated for TLC: a text message that may enter a     *)
(* running turn, one that may not, and a ride-along.                       *)
(***************************************************************************)
EXTENDS SessionInbox

CONSTANTS text, reply, note
=============================================================================
