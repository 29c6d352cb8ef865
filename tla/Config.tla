------------------------------- MODULE Config -------------------------------
(***************************************************************************)
(* internal/config/config.go, and what startReverseClients makes of a      *)
(* configuration. A configuration file is the function of the fields it    *)
(* sets, with the nested objects flattened; fields that carry no           *)
(* behaviour of the model (tokens, log level) are left out.                *)
(***************************************************************************)
EXTENDS Naturals

(* strings.TrimSpace(s) == "" *)
IsBlank(s) == s \in {"", " "}

Ports == 1..65535

Default ==
  [ws_gateway |-> "", rest_gateway |-> "", host |-> "0.0.0.0", port |-> 6700,
   forward |-> {"api", "event", "universal"},  \* the enable_... that are set
   reverse |-> FALSE, use_universal_client |-> FALSE,
   url |-> "", api_url |-> "", event_url |-> "", reconnect_interval_ms |-> 3000,
   self_id |-> 0, message_format |-> "array", heartbeat_interval_ms |-> 15000,
   cache_size |-> 2048]

Fields == DOMAIN Default

(* json.Decoder.Decode into Default(). *)
Decoded(file) ==
  [k \in Fields |-> IF k \in DOMAIN file THEN file[k] ELSE Default[k]]

ReverseURLs(c) == {c.url, c.api_url, c.event_url}

(* Fault: a reverse configuration needs no URL. *)
ValidateWithoutURL(c) ==
  /\ ~IsBlank(c.ws_gateway)
  /\ ~IsBlank(c.rest_gateway)
  /\ c.port \in Ports
  /\ ~IsBlank(c.host)
  /\ c.message_format \in {"array", "string"}
  /\ c.heartbeat_interval_ms > 0
  /\ c.cache_size > 0
  /\ c.reverse => c.reconnect_interval_ms > 0

Validate(c) ==
  /\ ~IsBlank(c.ws_gateway)
  /\ ~IsBlank(c.rest_gateway)
  /\ c.port \in Ports
  /\ ~IsBlank(c.host)
  /\ c.message_format \in {"array", "string"}
  /\ c.heartbeat_interval_ms > 0
  /\ c.cache_size > 0
  /\ c.reverse =>
       /\ c.reconnect_interval_ms > 0
       /\ \E url \in ReverseURLs(c) : ~IsBlank(url)

(* Load returns a configuration; DisallowUnknownFields. *)
Loads(file) == DOMAIN file \subseteq Fields /\ Validate(Decoded(file))

FirstNonEmpty(a, b) == IF IsBlank(a) THEN (IF IsBlank(b) THEN "" ELSE b) ELSE a

(* The roles for which startReverseClients starts a reverse client. *)
ReverseRoles(c) ==
  LET universal == FirstNonEmpty(c.url, FirstNonEmpty(c.api_url, c.event_url))
      api == FirstNonEmpty(c.api_url, c.url)
      event == FirstNonEmpty(c.event_url, c.url)
  IN IF ~c.reverse THEN {}
     ELSE IF c.use_universal_client
       THEN {r \in {"Universal"} : universal # ""}
     ELSE {r \in {"API"} : api # ""} \union {r \in {"Event"} : event # ""}

=============================================================================
