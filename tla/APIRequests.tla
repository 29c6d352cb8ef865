---------------------------- MODULE APIRequests ----------------------------
(***************************************************************************)
(* How a request of a bot reaches HandleAPI, and what HandleAPI makes of    *)
(* it: handleHTTPAPI with authorized and buildHTTPParams, the frames of a  *)
(* WebSocket, NormalizeAction, the parameters each action decodes.         *)
(*                                                                         *)
(* A bot wishes for an action with arguments and puts them into a frame, a  *)
(* query or a body.                                                        *)
(*                                                                         *)
(* A JSON value is a pair of its type and itself. The numbers of a JSON     *)
(* body become float64s, whose mantissa is scaled down to MaxExact. The    *)
(* maps are seen as the keys they have; Bridge shows how they come by them. *)
(* currentSession finds the session of which Service shows that it is there *)
(* before bots are served.                                                 *)
(***************************************************************************)
EXTENDS Naturals, SequencesExt

CONSTANTS
  Wishes,      \* requests a bot may want: [action, suffixes, args]
  Numbers,     \* the numbers they name
  Decimal,     \* how each of them is written: strconv.FormatInt
  MaxExact,    \* every number up to it is a float64
  KnownIds,    \* the keys of MessageMap
  KnownFlags,  \* the keys of RequestMap, with the kind of each
  Unsendable,  \* messages that toMilkySegments refuses: <<message, auto_escape>>
  None

ASSUME NumbersAssumption == Numbers \subseteq Nat /\ MaxExact \in Nat
ASSUME NoneAssumption == None \notin Nat

(* strconv.ParseInt reads back what strconv.FormatInt has written. *)
ASSUME DecimalAssumption ==
  /\ Decimal \in [Numbers -> STRING]
  /\ \A m, n \in Numbers : Decimal[m] = Decimal[n] => m = n

(* The values of JSON. Only the segments of a message are a list or object. *)
Values ==
  ({"int"} \X Numbers) \union ({"bool"} \X BOOLEAN) \union ({"string", "segments"} \X STRING)

ASSUME WishesAssumption ==
  \A w \in Wishes :
    /\ w.suffixes \in Seq(STRING)
    /\ w.args \in [DOMAIN w.args -> Values]
    /\ "access_token" \notin DOMAIN w.args

VARIABLES
  cfg,      \* is the HTTP API enabled, is an access token configured?
  wish,     \* what the bot wants
  via,      \* how it asks: "ws" or an HTTP method
  token,    \* where the access token is
  query,    \* the texts of each key of the query, or of a form in the body
  body,     \* the arguments in the frame, or in a body that is no form
  sound,    \* is that JSON, and the query one?
  plain,    \* and is every parameter there once?
  stage,    \* where the handler of the request is
  params,   \* APIRequest.Params, empty if there are none
  effect,   \* the call of Milky, or None
  answer    \* the HTTP status, and the retcode if there is a response

requestVars == <<wish, via, token, query, body, sound, plain>>
vars == <<cfg, requestVars, stage, params, effect, answer>>

-----------------------------------------------------------------------------
(* NormalizeAction trims "_async", then "_rate_limited". *)
NormalizeAction(w) ==
  LET Trim(s, suffix) == IF s # <<>> /\ Last(s) = suffix THEN Front(s) ELSE s
  IN IF Trim(Trim(w.suffixes, "_async"), "_rate_limited") = <<>>
       THEN w.action ELSE "unknown"

(* The structs into which HandleAPI decodes the parameters. *)
FieldsOf ==
  LET id == [message_id |-> "int"] IN
    [send_private_msg |->
       [user_id |-> "int", message |-> "message", auto_escape |-> "bool"],
     send_group_msg |->
       [group_id |-> "int", message |-> "message", auto_escape |-> "bool"],
     send_msg |->
       [message_type |-> "string", user_id |-> "int", group_id |-> "int",
        message |-> "message", auto_escape |-> "bool"],
     get_group_info |-> [group_id |-> "int"],
     get_group_member_info |-> [group_id |-> "int", user_id |-> "int"],
     get_group_member_list |-> [group_id |-> "int"],
     delete_msg |-> id,
     get_msg |-> id,
     set_friend_add_request |->
       [flag |-> "string", approve |-> "bool", remark |-> "string"],
     set_group_add_request |->
       [flag |-> "string", approve |-> "bool", reason |-> "string"]]

WithoutParams == {"get_login_info", "get_status", "get_version_info",
                  "can_send_image", "can_send_record", "get_group_list"}

NoMessage == <<"none", "">>
Zero == [int |-> 0, string |-> "", bool |-> FALSE, message |-> NoMessage]

(* json.Unmarshal into such a struct; a message is left as it is. *)
Decodes(fields, p) ==
  \A k \in DOMAIN fields \intersect DOMAIN p :
    fields[k] = "message" \/ p[k][1] = fields[k]

Decoded(fields, p) ==
  [k \in DOMAIN fields |->
     IF k \notin DOMAIN p THEN Zero[fields[k]]
     ELSE IF fields[k] = "message" THEN p[k] ELSE p[k][2]]

(* What parseOneBotMessage accepts, CQCodec says how. *)
Parses(message) == message[1] \in {"string", "segments"}

(* HandleAPI up to its call of Milky: the call, or the retcode without one. *)
Calls(what) == [call |-> what, retcode |-> 0]
Responds(retcode) == [call |-> None, retcode |-> retcode]

(* The segments are converted first; if one cannot be there is no call. *)
Send(type, peer, d) ==
  IF <<d.message, d.auto_escape>> \in Unsendable THEN Responds(1500)
  ELSE Calls(<<"send", type, peer, d.message, d.auto_escape>>)

Sends(action, d) ==
  IF ~Parses(d.message) THEN Responds(1400) ELSE
    CASE action = "send_private_msg" -> Send("private", d.user_id, d)
      [] action = "send_group_msg" -> Send("group", d.group_id, d)
      [] action = "send_msg" /\ d.message_type \in {"", "private"} /\ d.user_id # 0 ->
           Send("private", d.user_id, d)
      [] action = "send_msg" /\ d.message_type = "group" /\ d.group_id # 0 ->
           Send("group", d.group_id, d)
      [] OTHER -> Responds(1400)

Decides(kind, d, call) ==
  CASE d.flag \notin DOMAIN KnownFlags -> Responds(1502)
    [] d.flag \in DOMAIN KnownFlags /\ KnownFlags[d.flag] # kind -> Responds(1400)
    [] OTHER -> Calls(call)

HandleAPI(action, p) ==
  IF action \in WithoutParams
    THEN IF action = "get_group_list" THEN Calls(<<action>>) ELSE Responds(0)
  ELSE IF action \notin DOMAIN FieldsOf THEN Responds(1503)
  ELSE IF p = <<>> \/ ~Decodes(FieldsOf[action], p) THEN Responds(1400)
  ELSE LET d == Decoded(FieldsOf[action], p) IN
    CASE action \in {"send_private_msg", "send_group_msg", "send_msg"} -> Sends(action, d)
      [] action \in {"delete_msg", "get_msg"} ->
           IF d.message_id \in KnownIds THEN Calls(<<action, d.message_id>>)
           ELSE Responds(1502)
      [] action = "set_friend_add_request" ->
           Decides("friend", d, <<"friend", d.flag, d.approve, d.remark>>)
      [] action = "set_group_add_request" ->
           Decides("group", d, <<"group", d.flag, d.approve>>)
      [] OTHER -> Calls(<<action, d>>)

-----------------------------------------------------------------------------
(* buildHTTPParams *)

Text(value) ==
  CASE value[1] = "int" -> Decimal[value[2]]
    [] value[1] = "bool" -> IF value[2] THEN "true" ELSE "false"
    [] OTHER -> value[2]

NumericKeys == {"user_id", "group_id", "message_id"}
BooleanKeys == {"auto_escape", "approve"}
TrueTexts == {"1", "true"}
FalseTexts == {"0", "false"}

(* Seeded faults: an operator that says "Fault" is a copy of the next one   *)
(* with a bug in it; no specification uses it.                             *)

(* Fault: a value is taken for what it looks like, whatever its key. *)
NormalizeHTTPScalarByLooks(key, text) ==
  IF \E n \in Numbers : Decimal[n] = text
    THEN <<"int", CHOOSE n \in Numbers : Decimal[n] = text>>
  ELSE IF text \in TrueTexts \union FalseTexts THEN <<"bool", text \in TrueTexts>>
  ELSE <<"string", text>>

NormalizeHTTPScalar(key, text) ==
  IF key \in NumericKeys /\ \E n \in Numbers : Decimal[n] = text
    THEN <<"int", CHOOSE n \in Numbers : Decimal[n] = text>>
  ELSE IF key \in BooleanKeys /\ text \in TrueTexts \union FalseTexts
    THEN <<"bool", text \in TrueTexts>>
  ELSE <<"string", text>>

QueryParams ==
  [k \in DOMAIN query |->
     IF Len(query[k]) = 1 THEN NormalizeHTTPScalar(k, query[k][1])
     ELSE <<"array", [i \in DOMAIN query[k] |-> NormalizeHTTPScalar(k, query[k][i])]>>]

(* The nearest float64 to a number, of two the one with an even mantissa. *)
Float(value) ==
  IF value[1] # "int" \/ value[2] <= MaxExact \/ (value[2] % 2) = 0 THEN value
  ELSE LET half == value[2] \div 2 IN <<"int", 2 * (half + (half % 2))>>

(* The body's entries replace those of the query. *)
HTTPParams(entries) ==
  [k \in DOMAIN entries \union DOMAIN query |->
     IF k \in DOMAIN entries THEN Float(entries[k]) ELSE QueryParams[k]]

-----------------------------------------------------------------------------
(* The bot asks. A request is sound unless its frame or body is not JSON or *)
(* its query or form cannot be parsed, and plain if it also gives every    *)
(* parameter of the query once.                                            *)
Ask(w) ==
  /\ stage = "idle"
  /\ wish' = w
  /\ UNCHANGED <<cfg, params, effect, answer>>

AskWS(w) ==
  /\ Ask(w)
  /\ stage' = "frame"
  /\ via' = "ws"
  /\ token' = "header"
  /\ query' = <<>>
  /\ body' = w.args
  /\ sound' \in BOOLEAN
  /\ plain' = sound'

(* The arguments are split between query and body; all are in the query     *)
(* with GET or in a form, and segments cannot be there. Some parameters of  *)
(* the query are stale: also in the body, or there twice.                  *)
AskHTTP(w, inQuery, stale) ==
  /\ Ask(w)
  /\ stage' = "route"
  /\ via' \in {"GET", "POST", "PUT"}
  /\ token' \in {"none", "query", "header"}
  /\ sound' \in BOOLEAN
  /\ via' = "GET" => inQuery = DOMAIN w.args
  /\ \A k \in inQuery : w.args[k][1] # "segments"
  /\ body' = [k \in DOMAIN w.args \ inQuery |-> w.args[k]]
  /\ query' = [k \in inQuery \union stale \union {t \in {"access_token"} : token' = "query"} |->
                 CASE k = "access_token" -> <<"secret">>
                   [] k \in inQuery \intersect stale -> <<Text(w.args[k]), "0">>
                   [] k \in inQuery \ stale -> <<Text(w.args[k])>>
                   [] OTHER -> <<"0">>]
  /\ plain' = (sound' /\ stale \intersect inQuery = {})

-----------------------------------------------------------------------------
Answer(status, retcode) ==
  /\ stage' = "answered"
  /\ answer' = [status |-> status, retcode |-> retcode]

(* A frame of a WebSocket. *)
ReadFrame ==
  /\ stage = "frame"
  /\ \/ ~sound /\ Answer(None, 1400) /\ UNCHANGED params
     \/ /\ sound
        /\ params' = body
        /\ stage' = "handle"
        /\ UNCHANGED answer
  /\ UNCHANGED <<cfg, requestVars, effect>>

Authorized == ~cfg.token \/ token \in {"query", "header"}

(* The checks of handleHTTPAPI, in their order. *)
Refusal ==
  IF ~cfg.http THEN 404
  ELSE IF ~Authorized THEN 401
  ELSE IF via \notin {"GET", "POST"} THEN 405
  ELSE IF wish.action = "" /\ wish.suffixes = <<>> THEN 400
  ELSE 200

Route ==
  /\ stage = "route"
  /\ IF Refusal # 200 THEN Answer(Refusal, None)
     ELSE stage' = "params" /\ UNCHANGED answer
  /\ UNCHANGED <<cfg, requestVars, params, effect>>

(* Fault: a body that cannot be read is taken for none. *)
BuildParamsWithoutBody ==
  /\ stage = "params"
  /\ params' = HTTPParams(IF sound THEN body ELSE <<>>)
  /\ stage' = "handle"
  /\ UNCHANGED <<cfg, requestVars, effect, answer>>

(* Neither ParseForm nor the body may fail. *)
BuildParams ==
  /\ stage = "params"
  /\ \/ ~sound /\ Answer(400, None) /\ UNCHANGED params
     \/ /\ sound
        /\ params' = HTTPParams(body)
        /\ stage' = "handle"
        /\ UNCHANGED answer
  /\ UNCHANGED <<cfg, requestVars, effect>>

(* The response; over HTTP the retcode 1400 alone has a status of its own. *)
Respond(retcode) ==
  Answer(IF via = "ws" THEN None ELSE IF retcode = 1400 THEN 400 ELSE 200,
         retcode)

Handle ==
  /\ stage = "handle"
  /\ LET outcome == HandleAPI(NormalizeAction(wish), params) IN
       /\ effect' = outcome.call
       /\ IF outcome.call = None THEN Respond(outcome.retcode)
          ELSE stage' = "upstream" /\ UNCHANGED answer
  /\ UNCHANGED <<cfg, requestVars, params>>

MilkyAnswers ==
  /\ stage = "upstream"
  /\ \E retcode \in {0, 1500} : Respond(retcode)
  /\ UNCHANGED <<cfg, requestVars, params, effect>>

-----------------------------------------------------------------------------
Init ==
  /\ cfg \in [http : BOOLEAN, token : BOOLEAN]
  /\ wish = None
  /\ via = None
  /\ token = None
  /\ query = <<>>
  /\ body = <<>>
  /\ sound = TRUE
  /\ plain = TRUE
  /\ stage = "idle"
  /\ params = <<>>
  /\ effect = None
  /\ answer = None

Next ==
  \/ \E w \in Wishes : AskWS(w)
  \/ \E w \in Wishes : \E inQuery \in SUBSET DOMAIN w.args,
                         stale \in {{}} \union {{k} : k \in DOMAIN w.args} :
       AskHTTP(w, inQuery, stale)
  \/ ReadFrame \/ Route \/ BuildParams \/ Handle \/ MilkyAnswers

Spec == Init /\ [][Next]_vars

-----------------------------------------------------------------------------
Accepted == {<<>>, <<"_async">>, <<"_rate_limited">>, <<"_rate_limited", "_async">>}

Admitted == via = "ws" \/ Refusal = 200

(* The arguments have the types OneBot documents. *)
Documented(args) ==
  \A k \in DOMAIN args :
    args[k][1] \in (IF k \in NumericKeys THEN {"int"}
                   ELSE IF k \in BooleanKeys THEN {"bool"}
                   ELSE {"string", "segments"})

(* What a wish asks for, as far as it is heard: a number of a POST body is   *)
(* a float64.                                                              *)
MeantArgs ==
  [k \in DOMAIN wish.args |->
     IF via = "POST" /\ k \in DOMAIN body THEN Float(wish.args[k]) ELSE wish.args[k]]

MeantCall ==
  HandleAPI(IF wish.suffixes \in Accepted THEN wish.action ELSE "unknown", MeantArgs)

(* Requests of which every transport makes the same: parameters are plain   *)
(* and documented, and there are some if the action has any.               *)
Comparable ==
  /\ plain
  /\ Admitted
  /\ Documented(wish.args)
  /\ wish.args # <<>> \/ wish.action \in WithoutParams

(* An action with arguments does the same whichever way it is asked for, on *)
(* a WebSocket, in a query, in a body or in both, where the body prevails:  *)
(* numbers, flags and texts are what they are whatever they look like. The *)
(* one difference are numbers of a body beyond the exact float64s. Of two   *)
(* suffixes only one order is known.                                       *)
TransportsAgree ==
  stage = "answered" /\ Comparable =>
    /\ effect = MeantCall.call
    /\ effect = None => answer.retcode = MeantCall.retcode

(* Some message of the parameters p is one that cannot be sent. *)
Unsent(p) == "message" \in DOMAIN p /\ \E m \in Unsendable : m[1] = p.message

(* A request that is refused, by a status, by a retcode of its own, or      *)
(* because part of it cannot be read, has not called Milky. A bot is told   *)
(* of the failure of a call by its retcode 1500 alone; without a call that  *)
(* is only the answer to a message of which a segment cannot be sent.      *)
RefusedHasNoEffect ==
  stage = "answered" =>
    /\ effect # None =>
         /\ sound /\ Admitted
         /\ answer.status \in {None, 200}
         /\ answer.retcode \in {0, 1500}
    /\ answer.retcode = 1500 => effect # None \/ Unsent(params)

(* The inductive strengthening: what is settled at each stage. *)
Stages == {"idle", "frame", "route", "params", "handle", "upstream", "answered"}

RequestInv ==
  /\ stage \in Stages
  /\ stage = "frame" => via = "ws"
  /\ stage \in {"params", "handle", "upstream"} => Admitted
  /\ stage \in {"handle", "upstream"} => sound
  /\ stage \notin {"upstream", "answered"} => effect = None
  /\ stage = "upstream" => effect # None
  /\ RefusedHasNoEffect

(* What a request holds is what was wished for, wherever it was put.        *)
Carried ==
  /\ body \in [DOMAIN body -> Values]
  /\ \A k \in DOMAIN body : k \in DOMAIN wish.args /\ body[k] = wish.args[k]
  /\ via = "GET" => DOMAIN body = {}
  /\ plain =>
       /\ sound
       /\ DOMAIN wish.args \subseteq DOMAIN body \union DOMAIN query
       /\ \A k \in DOMAIN query :
            \/ k = "access_token"
            \/ k \in DOMAIN body
            \/ /\ k \in DOMAIN wish.args
               /\ wish.args[k][1] # "segments"
               /\ query[k] = <<Text(wish.args[k])>>

(* And the parameters of an action say what was meant, the access token set *)
(* aside.                                                                  *)
Understood ==
  /\ DOMAIN params \ {"access_token"} = DOMAIN wish.args
  /\ \A k \in DOMAIN wish.args : params[k] = MeantArgs[k]

TransportsInv ==
  /\ stage # "idle" => wish \in Wishes
  /\ stage = "frame" => via = "ws" /\ body = wish.args /\ (plain => sound)
  /\ stage \in {"route", "params"} => via # "ws" /\ Carried
  /\ stage = "handle" /\ Comparable => Understood
  /\ stage = "upstream" /\ Comparable => effect = MeantCall.call
  /\ TransportsAgree

=============================================================================
