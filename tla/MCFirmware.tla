------------------------------ MODULE MCFirmware -------------------------------
(* The two rigs of the firmware, of which one is built: the direct trigger link       *)
(* (esp32-link, pro-micro-hid) or the Pi's proxy link (esp32-proxy, pro-micro-proxy). *)
EXTENDS MCTriggerLink, MCReportLink

VARIABLE rig

firmwareVars == <<rig, vars, reportVars>>

FirmwareInit == rig \in {"link", "proxy"} /\ Init /\ ReportInit

OfLink(A) == rig = "link" /\ A /\ UNCHANGED <<rig, reportVars>>
OfProxy(A) == rig = "proxy" /\ A /\ UNCHANGED <<rig, vars>>

FirmwareNext == OfLink(Next) \/ OfProxy(ReportNext)

\* Both boards of a rig run, what is not lost arrives and time passes.  On the link a Mac
\* that is up is heard again and again, and 20 ms between two bytes is time enough for loop()
\* to drain the buffer and act; on the proxy the Pi's keepalive sends.
FirmwareSpec ==
  /\ FirmwareInit /\ [][FirmwareNext]_firmwareVars
  /\ WF_firmwareVars(OfLink(Esp))
  /\ SF_firmwareVars(OfLink(Read /\ rx' = << >>)) /\ SF_firmwareVars(OfLink(Act))
  /\ WF_firmwareVars(OfLink(Pro)) /\ SF_firmwareVars(OfLink(Keepalive))
  /\ WF_firmwareVars(OfProxy(\E r \in Reports : PiSend(r)))
  /\ WF_firmwareVars(OfProxy(Deliver))
  /\ WF_firmwareVars(OfProxy(ReportWatchdog)) /\ WF_firmwareVars(OfProxy(Silence))
===============================================================================
