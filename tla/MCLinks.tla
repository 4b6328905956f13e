------------------------------ MODULE MCLinks ------------------------------
(***************************************************************************)
(* What processes and browsers are linked by: the logical clocks, the      *)
(* broker connection of a process, the socket of a room page.  They share  *)
(* no state; the link chosen at the start runs, the others stay where they *)
(* begin.                                                                  *)
(***************************************************************************)
EXTENDS Hlc, RabbitClient, RoomPage

CONSTANTS room1, room2

VARIABLE chosen

linksVars == <<chosen, vars, rabbitVars, pageVars>>

LinksInit ==
  /\ chosen \in {"clock", "broker", "page"}
  /\ Init /\ RabbitInit /\ PageInit

OfClock(action) == chosen = "clock" /\ action /\ UNCHANGED <<chosen, rabbitVars, pageVars>>
OfBroker(action) == chosen = "broker" /\ action /\ UNCHANGED <<chosen, vars, pageVars>>
OfPage(action) == chosen = "page" /\ action /\ UNCHANGED <<chosen, vars, rabbitVars>>

LinksNext == OfClock(Next) \/ OfBroker(RabbitNext) \/ OfPage(PageNext)

\* RabbitFairness and PageFairness, for the link that runs.
LinksFairness ==
  /\ WF_linksVars(OfBroker(Running(TimerFires)))
  /\ \A i \in Conns : /\ WF_linksVars(OfBroker(Running(Connecting(i))))
                      /\ WF_linksVars(OfBroker(Running(Emit(i))))
  /\ WF_linksVars(OfPage(PageStep))

LinksSpec == LinksInit /\ [][LinksNext]_linksVars /\ LinksFairness

\* Every link's state has its type.
LinksTypeOK ==
  CASE chosen = "clock" -> TypeOK
    [] chosen = "broker" -> RabbitTypeOK
    [] chosen = "page" -> PageTypeOK

\* EventuallyServing, of a broker connection that runs.
BrokerServes == chosen = "broker" => EventuallyServing

=============================================================================
