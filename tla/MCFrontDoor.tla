----------------------------- MODULE MCFrontDoor ----------------------------
(* An instance of FrontDoor for TLC: one process with two requests in      *)
(* progress, both of a browser that logs in and out.                       *)
EXTENDS FrontDoor

CONSTANTS server, c1, c2, browser, key, ip

SlotsOf == [c \in Calls |-> server]
OneAddress == [u \in Callers |-> ip]
Tokens == [u \in Callers |-> NoToken]
=============================================================================
