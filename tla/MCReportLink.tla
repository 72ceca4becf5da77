---------------------------- MODULE MCReportLink ----------------------------
(* Reports of three bytes of two bits for TLC: modifiers, reserved, one key.   *)
EXTENDS ReportLink

Header == Bits

\* A byte other than the header byte equals START in no frame of these.
PlainReports == {<<m, {}, k>> : m \in {{}, {1}}, k \in {{}, {1}}}

\* The checksum of {1}, {}, {2} is START, as that of Right GUI and Tab is in the code.
AliasReports == {<<m, {}, k>> : m \in {{}, {1}}, k \in {{}, {2}}}
=============================================================================
