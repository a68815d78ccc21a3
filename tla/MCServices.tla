------------------------------ MODULE MCServices ------------------------------
(* The services around the agents on small instances: SessionCaches, MailProxy, *)
(* TerminalBridge and Shutdown.  They share nothing; a behaviour is one of one  *)
(* of them, and fairness is asked of that one only.                             *)
EXTENDS SessionCaches, MailProxy, TerminalBridge, Shutdown

VARIABLE part

services == <<softVars, mailVars, bridgeVars, shutdownVars>>
vars == <<services, part>>

SoftPart(A) == part = "soft" /\ A /\ UNCHANGED <<mailVars, bridgeVars, shutdownVars, part>>
MailPart(A) == part = "mail" /\ A /\ UNCHANGED <<softVars, bridgeVars, shutdownVars, part>>
BridgePart(A) == part = "bridge" /\ A /\ UNCHANGED <<softVars, mailVars, shutdownVars, part>>
ShutdownPart(A) == part = "shutdown" /\ A /\ UNCHANGED <<softVars, mailVars, bridgeVars, part>>

Init ==
    /\ part \in {"soft", "mail", "bridge", "shutdown"}
    /\ SoftInit /\ MailInit /\ BridgeInit /\ ShutdownInit

Next ==
    \/ SoftPart(SoftNext)
    \/ MailPart(MailNext)
    \/ BridgePart(BridgeNext)
    \/ ShutdownPart(ShutdownNext)

Spec ==
    /\ Init /\ [][Next]_vars
    /\ WF_vars(SoftPart(RosterLoadEnds))
    /\ WF_vars(BridgePart(FlushStaleBuffers)) /\ WF_vars(BridgePart(Tick))
    /\ WF_vars(ShutdownPart(ShutdownStep))

ServicesTypeOK == SoftTypeOK /\ MailTypeOK /\ BridgeTypeOK /\ ShutdownTypeOK

CONSTANTS ada, ada1, ada2

\* Agents share nothing: one of them, with two terminals.
MCAgentOf == [t \in {ada1, ada2} |-> ada]
==============================================================================
