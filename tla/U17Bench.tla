------------------------------ MODULE U17Bench ------------------------------
(* The bench: one of the three tools is used. *)
EXTENDS U17Image, U17Service, U17Session

VARIABLE tool

benchVars == <<tool, imageVars, serviceVars, sessionVars>>

Init ==
    /\ tool \in {"image", "service", "session"}
    /\ ImageInit /\ ServiceInit /\ SessionInit

Next ==
    /\ UNCHANGED tool
    /\ \/ tool = "image" /\ ImageNext /\ UNCHANGED <<serviceVars, sessionVars>>
       \/ tool = "service" /\ ServiceNext /\ UNCHANGED <<imageVars, sessionVars>>
       \/ tool = "session" /\ SessionNext /\ UNCHANGED <<imageVars, serviceVars>>

Spec == Init /\ [][Next]_benchVars
=============================================================================
