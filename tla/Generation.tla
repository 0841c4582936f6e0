------------------------------ MODULE Generation ------------------------------
(***************************************************************************)
(* Gateway requests and agent loops that call the same wrapped models at   *)
(* the same time.                                                          *)
(***************************************************************************)
EXTENDS Gateway, ToolLoop

CONSTANT MaxActive \* bound: requests and loops that begin

ASSUME GenerationAssumption ==
  Requests \cap Loops = {} /\ Callers = Requests \cup Loops

vars == <<calls, gateway, loops>>

TypeOK == CallsTypeOK /\ GatewayTypeOK /\ LoopTypeOK

Init == CallsInit /\ GatewayInit /\ LoopInit

Active == {r \in Requests : request[r].at # "idle"} \cup {l \in Loops : at[l] # "idle"}

Arrive ==
  /\ Cardinality(Active) < MaxActive
  /\ \/ \E r \in Requests : Submit(r) /\ UNCHANGED loops
     \/ \E l \in Loops : Begin(l) /\ UNCHANGED gateway

Work ==
  \/ \E f \in Flights : FlightStep(f) /\ UNCHANGED <<gateway, loops>>
  \/ \E r \in Requests : RequestStep(r) /\ UNCHANGED loops
  \/ \E l \in Loops : LoopStep(l) /\ UNCHANGED gateway

Environment ==
  /\ \/ \E c \in Active : Expire(c)
     \/ \E b \in Breakers : CoolDown(b)
  /\ UNCHANGED <<gateway, loops>>

Next == Arrive \/ Work \/ Environment

Spec == Init /\ [][Next]_vars

-----------------------------------------------------------------------------
\* While a request or a loop is not over something can go on: nobody waits
\* for a call that nobody works for, or for a worker that has gone.  Each
\* step uses up attempts, steps or tools, so all of them come to an end.
NobodyStuck ==
  \/ /\ \A r \in Requests \cap Active : request[r].at = "over"
     /\ \A l \in Loops \cap Active : at[l] = "over"
  \/ ENABLED Work
=============================================================================
