------------------------------- MODULE Dialogue -------------------------------
(* What the remote protocol of the debugger promises: one party at a time has *)
(* the floor.  The client hands it over with a request, the server gives it   *)
(* back with a reply or to the machine, and the machine gives it back with a  *)
(* stop.  A client opens a session with a request; the session may end at any *)
(* time and another one may begin.                                            *)
VARIABLE floor

Init == floor = "nobody"

Begin == floor = "nobody" /\ floor' = "server"
Ask == floor = "client" /\ floor' = "server"
Reply == floor = "server" /\ floor' = "client"
Resume == floor = "server" /\ floor' = "machine"
Stop == floor = "machine" /\ floor' = "client"
End == floor # "nobody" /\ floor' = "nobody"

Next == Begin \/ Ask \/ Reply \/ Resume \/ Stop \/ End

Spec == Init /\ [][Next]_floor
=============================================================================
