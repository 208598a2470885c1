----------------------------- MODULE MCSlimLink ------------------------------
(* Model-checking instances of SlimLink.                                     *)
EXTENDS SlimLink

Packet(op, body) == [op |-> op, body |-> body]

\* A heartbeat, a start and a bogus length; a command of the session and a
\* rename.
MCScripts == { << Packet("t", 2), Packet("start", 1), Packet("bogus", 0) >>,
               << Packet("command", 1), Packet("setd", 1) >> }
==============================================================================
