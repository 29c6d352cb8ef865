----------------------------- MODULE MCService -----------------------------
(***************************************************************************)
(* Service for TLC: configuration files of every kind of reverse client,   *)
(* with and without a self_id, and some that Load refuses.                 *)
(***************************************************************************)
EXTENDS Service

Gateways == [ws_gateway |-> "ws://milky/event", rest_gateway |-> "http://milky/api"]

(* The fields that f sets besides the gateways. *)
File(f) ==
  [k \in DOMAIN Gateways \union DOMAIN f |->
     IF k \in DOMAIN f THEN f[k] ELSE Gateways[k]]

MCFiles ==
  {File(f) : f \in
     {[forward |-> {"universal"}],
      [forward |-> {"api"}, self_id |-> 2, reverse |-> TRUE, api_url |-> "ws://bot/api"],
      [forward |-> {}, reverse |-> TRUE, url |-> "ws://bot", api_url |-> " "],
      [forward |-> {"http"}, reverse |-> TRUE, use_universal_client |-> TRUE,
       event_url |-> "ws://bot/event"],
      [forward |-> {"api"}, reverse |-> TRUE, url |-> " "],
      [ws_gateway |-> " "], [port |-> 65536], [cache_size |-> 0],
      [message_format |-> "xml"], [heartbeats |-> 15000]}}

=============================================================================
