-------------------------- MODULE MCClientSession --------------------------
(* ClientSession with one profile, three connects and four generations:    *)
(* connect, a lost core, connect again, disconnect, connect.               *)
EXTENDS ClientSession
CONSTANT p1
MCProfiles == {p1}
MCBoth == BOOLEAN
=============================================================================
