--------------------------- MODULE MCHttpSessions ---------------------------
(* HttpSessions with one session, one request in it, and at most one       *)
(* cancellation of that request and one other notification.                *)
EXTENDS HttpSessions

CONSTANTS i1, c1, k1, n1

MCInits == {i1}
MCCalls == {c1}
MCCancels == {k1}
NoCancels == {}
MCNotes == {n1}
NoNotes == {}
MCTarget == [k \in MCCancels |-> c1]
NoTarget == [k \in NoCancels |-> c1]
=============================================================================
