------------------------------- MODULE StartUp --------------------------------
(***************************************************************************)
(* What macvision makes of --trigger-target and --source: parse_target and *)
(* open_trigger (trigger.py), parse_source and build_source                *)
(* (sources/__init__.py), and the defaults main fills in.                  *)
(*                                                                         *)
(* A text is a record of its parts; a part that is not there is "".  The   *)
(* numbers are texts too: "0" is the one Python takes for false.           *)
(***************************************************************************)

\* --trigger-target.  A port of "bad" is out of range or no number.
Targets == [scheme : {"", "none", "auto", "udp", "serial", "other"},
            name : {"", "given"}, port : {"", "0", "bad"}]

\* --source.  bare: no :// follows the scheme.  options: ?crop, size, fps, and with udp
\* whatever stands behind the port, a path included.  What a camera's name is followed by
\* is part of the name.
Texts == {t \in [scheme : {"", "udp", "camera", "other"}, bare : BOOLEAN,
                 name : {"", "0", "1", "given"}, port : {"", "0", "7000", "bad"},
                 options : {"", "good", "bad"}] :
            /\ t.scheme = "" => t.bare
            /\ t.bare => t.name = "" /\ t.port = "" /\ t.options = ""
            /\ t.scheme = "camera" => t.port = ""
            /\ t.scheme = "other" => t.name = "" /\ t.port = "" /\ t.options = ""}

-----------------------------------------------------------------------------
\* The kind of link a target names; a keyword with anything behind it is none of these.
parse_target(t) ==
  CASE t.scheme \in {"", "none", "auto"} ->
         IF t.name # "" \/ t.port # "" THEN "unknown" ELSE IF t.scheme = "auto" THEN "auto" ELSE "none"
    [] t.scheme = "udp" -> IF t.name = "" \/ t.port = "bad" THEN "unknown" ELSE "udp"
    [] t.scheme = "serial" -> "serial"
    [] OTHER -> "unknown"

\* The factory raises where the device or the socket cannot be had.
build_transport(kind) == {kind, "raised"}

\* An empty path is not tried.
_open_serial(path) == IF path = "" THEN {"none"} ELSE build_transport("serial")

\* The links a target can end with: every failure leaves NullTransport, also one to start
\* the keepalive thread (_start).  auto takes the first port that is plugged in.
open_trigger(t) ==
  LET kind == parse_target(t)
      tried == CASE kind = "udp" -> build_transport("udp")
                 [] kind = "serial" -> _open_serial(t.name)
                 [] kind = "auto" -> UNION {_open_serial(p) : p \in {"", "first"}}
                 [] OTHER -> {"none"}
  IN  {"none"} \cup (tried \ {"raised"})

-----------------------------------------------------------------------------
DEFAULT_KIND == "udp"
udp_port == "50505"   \* --udp-port, what a text without a port stands for

Unknown == [kind |-> "unknown", name |-> "", port |-> ""]

\* What a text of --source asks for; udp looks at the host and the port only.
parse_source(t) ==
  CASE t.scheme = "" -> [Unknown EXCEPT !.kind = DEFAULT_KIND]
    [] t.scheme \in {"udp", "camera"} /\ t.bare -> [Unknown EXCEPT !.kind = t.scheme]
    [] t.scheme = "udp" /\ ~ t.bare /\ t.port # "bad" ->
         [kind |-> "udp", name |-> t.name, port |-> t.port]
    [] t.scheme = "camera" /\ ~ t.bare /\ t.name # "" /\ t.options # "bad" ->
         [kind |-> "camera", name |-> t.name, port |-> ""]
    [] OTHER -> Unknown

\* SourceAsAsked: a port or a device that Python takes for false counts as not given.
Defaulted_Falsy(spec) ==
  [spec EXCEPT
     !.name = IF spec.name = "" /\ spec.kind = "camera" THEN "0" ELSE spec.name,
     !.port = IF spec.port \in {"", "0"} /\ spec.kind = "udp" THEN udp_port ELSE spec.port]

\* The arguments of build_source: 0 is a port and a device, and only an absent one is replaced.
Defaulted(spec) ==
  [spec EXCEPT
     !.name = IF spec.name = "" /\ spec.kind = "camera" THEN "0" ELSE spec.name,
     !.port = IF spec.port = "" /\ spec.kind = "udp" THEN udp_port ELSE spec.port]
===============================================================================
