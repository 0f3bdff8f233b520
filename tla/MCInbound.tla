------------------------------ MODULE MCInbound ------------------------------
(***************************************************************************)
(* The inbound drivers for TLC: events by Inbound, totals by BrokerCounter.*)
(* The two share no state in the models, so a behaviour is of one of them  *)
(* and leaves the other where it began.                                    *)
(***************************************************************************)
EXTENDS Inbound, BrokerCounter

VARIABLE side  \* which of the two this behaviour is of

allVars == <<side, eventVars, counterVars>>

Init == side \in {"events", "totals"} /\ EventsInit /\ CounterInit

Events == side = "events" /\ EventsNext /\ UNCHANGED <<side, counterVars>>

Totals == side = "totals" /\ CounterNext /\ UNCHANGED <<side, eventVars>>

Next == Events \/ Totals

Polls == side = "events" /\ Poll /\ UNCHANGED <<side, counterVars>>

Spec == Init /\ [][Next]_allVars /\ WF_allVars(Polls)

TypeOK == EventsTypeOK /\ CounterTypeOK
=============================================================================
