------------------------- MODULE APIRequests_proofs -------------------------
(***************************************************************************)
(* Refused requests have no effect, and accepted ones the same effect over  *)
(* every transport, whatever a bot wishes for and whatever the maps hold.  *)
(* RequestInv is inductive, and TransportsInv together with it.            *)
(***************************************************************************)
EXTENDS APIRequests, SequenceTheorems, TLAPS

-----------------------------------------------------------------------------
(* What HandleAPI does with the parameters it has decoded. *)
Outcome(action, d) ==
  CASE action \in {"send_private_msg", "send_group_msg", "send_msg"} -> Sends(action, d)
    [] action \in {"delete_msg", "get_msg"} ->
         IF d.message_id \in KnownIds THEN Calls(<<action, d.message_id>>)
         ELSE Responds(1502)
    [] action = "set_friend_add_request" ->
         Decides("friend", d, <<"friend", d.flag, d.approve, d.remark>>)
    [] action = "set_group_add_request" ->
         Decides("group", d, <<"group", d.flag, d.approve>>)
    [] OTHER -> Calls(<<action, d>>)

(* HandleAPI sees of the parameters what it decodes. *)
LEMMA HandleDecodes ==
  ASSUME NEW action \in DOMAIN FieldsOf, action \notin WithoutParams, NEW p
  PROVE  HandleAPI(action, p) =
           IF p = <<>> \/ ~Decodes(FieldsOf[action], p) THEN Responds(1400)
           ELSE Outcome(action, Decoded(FieldsOf[action], p))
<1>1. action \notin DOMAIN FieldsOf <=> FALSE
  OBVIOUS
<1> QED BY <1>1 DEF HandleAPI, Outcome

(* Only an answer of Milky yields the retcode 1500, or a message that        *)
(* cannot be sent.                                                         *)
LEMMA FailureBeforeCall ==
  ASSUME NEW action, NEW p, HandleAPI(action, p).retcode = 1500
  PROVE  Unsent(p)
<1> DEFINE d == Decoded(FieldsOf[action], p)
<1>1. \A x : Calls(x).retcode # 1500
  BY DEF Calls
<1>2. \A n \in {0, 1400, 1502, 1503} : Responds(n).retcode # 1500
  BY DEF Responds
<1>3. ASSUME Sends(action, d).retcode = 1500
      PROVE  Parses(d.message) /\ \E m \in Unsendable : m[1] = d.message
  <2>1. ASSUME NEW type, NEW peer, Send(type, peer, d).retcode = 1500
        PROVE  \E m \in Unsendable : m[1] = d.message
    <3>1. <<d.message, d.auto_escape>> \in Unsendable
      BY <1>1, <2>1 DEF Send
    <3>2. <<d.message, d.auto_escape>>[1] = d.message
      OBVIOUS
    <3> QED BY <3>1, <3>2
  <2> HIDE DEF d
  <2>2. \/ Sends(action, d) = Responds(1400)
        \/ /\ Parses(d.message)
           /\ \/ Sends(action, d) = Send("private", d.user_id, d)
              \/ Sends(action, d) = Send("group", d.group_id, d)
    <3> DEFINE private == action = "send_msg" /\ d.message_type \in {"", "private"} /\ d.user_id # 0
               group == action = "send_msg" /\ d.message_type = "group" /\ d.group_id # 0
    <3>1. Sends(action, d) =
            IF ~Parses(d.message) THEN Responds(1400) ELSE
              CASE action = "send_private_msg" -> Send("private", d.user_id, d)
                [] action = "send_group_msg" -> Send("group", d.group_id, d)
                [] private -> Send("private", d.user_id, d)
                [] group -> Send("group", d.group_id, d)
                [] OTHER -> Responds(1400)
      BY DEF Sends
    <3> HIDE DEF private, group
    <3> QED BY <3>1
  <2> QED BY <1>2, <1>3, <2>1, <2>2
<1>4. \A kind, call : Decides(kind, d, call).retcode # 1500
  <2> HIDE DEF d
  <2> QED BY <1>1, <1>2 DEF Decides
<1>5. action \notin WithoutParams /\ action \in DOMAIN FieldsOf
  BY <1>1, <1>2 DEF HandleAPI
<1>6. action \in {"send_private_msg", "send_group_msg", "send_msg"} /\ Sends(action, d).retcode = 1500
  <2> HIDE DEF d
  <2>1. HandleAPI(action, p) =
          IF p = <<>> \/ ~Decodes(FieldsOf[action], p) THEN Responds(1400)
          ELSE Outcome(action, d)
    BY <1>5, HandleDecodes DEF d
  <2>2. Outcome(action, d).retcode = 1500
    BY <1>2, <2>1
  <2> QED BY <1>1, <1>2, <1>4, <2>2 DEF Outcome
<1>7. /\ "message" \in DOMAIN FieldsOf[action]
      /\ FieldsOf[action]["message"] = "message"
  BY <1>6 DEF FieldsOf
<1>8. d.message = IF "message" \notin DOMAIN p THEN NoMessage ELSE p["message"]
  <2>1. PICK F : F = FieldsOf[action]
    OBVIOUS
  <2>2. "message" \in DOMAIN F /\ F["message"] = "message"
    BY <1>7, <2>1
  <2>3. Zero.message = NoMessage
    BY DEF Zero
  <2>4. Decoded(F, p).message =
          IF "message" \notin DOMAIN p THEN Zero["message"] ELSE p["message"]
    BY <2>2 DEF Decoded
  <2>5. d = Decoded(F, p)
    BY <2>1
  <2>6. Zero["message"] = Zero.message
    OBVIOUS
  <2> HIDE DEF d
  <2> QED BY <2>3, <2>4, <2>5, <2>6
<1>9. ~Parses(NoMessage)
  BY DEF Parses, NoMessage
<1>10. p["message"] = p.message
  OBVIOUS
<1> HIDE DEF d
<1>11. Parses(d.message) /\ \E m \in Unsendable : m[1] = d.message
  BY <1>3, <1>6
<1>12. "message" \in DOMAIN p /\ d.message = p.message
  BY <1>8, <1>9, <1>10, <1>11
<1> QED BY <1>11, <1>12 DEF Unsent

(* The first state satisfies the invariant. *)
LEMMA InitInv == Init => RequestInv
BY DEF Init, RequestInv, Stages, RefusedHasNoEffect

(* A bot's question puts its request at the first stage of a handler. *)
LEMMA AskInv ==
  ASSUME RequestInv, stage = "idle", UNCHANGED effect,
         (stage' = "frame" /\ via' = "ws") \/ stage' = "route"
  PROVE  RequestInv'
BY DEF RequestInv, Stages, RefusedHasNoEffect

(* An answer without a call of Milky is a refusal, or comes from the bridge *)
(* itself.                                                                 *)
LEMMA AnswerInv ==
  ASSUME RequestInv, NEW status, NEW retcode, retcode = 1500 => Unsent(params'),
         effect' = None, Answer(status, retcode)
  PROVE  RequestInv'
BY DEF RequestInv, Stages, RefusedHasNoEffect, Answer

(* A frame is read, or refused as it is no JSON. *)
LEMMA ReadFrameInv ==
  ASSUME RequestInv, ReadFrame
  PROVE  RequestInv'
<1>1. CASE sound
  BY <1>1 DEF RequestInv, Stages, RefusedHasNoEffect, ReadFrame, Admitted, requestVars
<1>2. CASE ~sound
  BY <1>2, AnswerInv DEF RequestInv, ReadFrame
<1> QED BY <1>1, <1>2

(* A step that leaves the request and the configuration alone leaves what   *)
(* is said of them.                                                        *)
LEMMA SameRequest ==
  ASSUME UNCHANGED <<cfg, requestVars>>
  PROVE  Admitted' = Admitted /\ sound' = sound /\ via' = via
BY DEF Admitted, Refusal, Authorized, requestVars

(* Route lets through what it does not refuse. *)
LEMMA RouteInv ==
  ASSUME RequestInv, Route
  PROVE  RequestInv'
<1>1. effect' = None
  BY DEF RequestInv, Route
<1>2. CASE Refusal # 200
  BY <1>1, <1>2, AnswerInv, NoneAssumption DEF Route
<1>3. CASE Refusal = 200
  <2>1. UNCHANGED <<cfg, requestVars>>
    BY DEF Route
  <2>2. Admitted'
    BY <1>3, <2>1, SameRequest DEF Admitted
  <2>3. stage' = "params"
    BY <1>3 DEF Route
  <2> QED BY <1>1, <2>2, <2>3 DEF RequestInv, Stages, RefusedHasNoEffect
<1> QED BY <1>2, <1>3

(* What is not JSON does not get past BuildParams. *)
LEMMA BuildParamsInv ==
  ASSUME RequestInv, BuildParams
  PROVE  RequestInv'
<1>1. /\ effect' = None
      /\ UNCHANGED <<cfg, requestVars>>
  BY DEF RequestInv, BuildParams
<1>2. CASE ~sound
  BY <1>1, <1>2, AnswerInv, NoneAssumption DEF BuildParams
<1>3. CASE sound
  <2>1. stage' = "handle" /\ Admitted' /\ sound'
    BY <1>1, <1>3, SameRequest DEF BuildParams, RequestInv
  <2> QED BY <1>1, <2>1 DEF RequestInv, Stages, RefusedHasNoEffect
<1> QED BY <1>2, <1>3

(* HandleAPI answers itself or calls Milky, and not both. *)
LEMMA HandleInv ==
  ASSUME RequestInv, Handle
  PROVE  RequestInv'
<1> DEFINE outcome == HandleAPI(NormalizeAction(wish), params)
<1>1. outcome.retcode = 1500 => Unsent(params)
  BY FailureBeforeCall
<1>2. /\ stage = "handle"
      /\ effect' = outcome.call
      /\ IF outcome.call = None THEN Respond(outcome.retcode)
         ELSE stage' = "upstream" /\ UNCHANGED answer
      /\ UNCHANGED <<cfg, requestVars, params>>
  BY DEF Handle
<1> HIDE DEF outcome
<1>3. CASE outcome.call = None
  BY <1>1, <1>2, <1>3, AnswerInv DEF Respond
<1>4. CASE outcome.call # None
  <2>1. stage' = "upstream" /\ effect' # None /\ Admitted' /\ sound'
    BY <1>2, <1>4, SameRequest DEF RequestInv
  <2> QED BY <2>1 DEF RequestInv, Stages, RefusedHasNoEffect
<1> QED BY <1>3, <1>4

(* The answer of Milky is passed on with a status that is no failure. *)
LEMMA MilkyAnswersInv ==
  ASSUME RequestInv, MilkyAnswers
  PROVE  RequestInv'
<1>1. /\ stage = "upstream"
      /\ UNCHANGED <<cfg, requestVars>>
      /\ effect' = effect
  BY DEF MilkyAnswers
<1>2. effect' # None /\ Admitted' /\ sound'
  BY <1>1, SameRequest DEF RequestInv
<1>3. PICK retcode \in {0, 1500} : Respond(retcode)
  BY DEF MilkyAnswers
<1>4. /\ stage' = "answered"
      /\ answer' = [status |-> IF via = "ws" THEN None ELSE 200, retcode |-> retcode]
  BY <1>3 DEF Respond, Answer
<1> QED BY <1>2, <1>3, <1>4 DEF RequestInv, Stages, RefusedHasNoEffect

(* Every step preserves the invariant. *)
LEMMA NextInv == RequestInv /\ [Next]_vars => RequestInv'
<1> SUFFICES ASSUME RequestInv, [Next]_vars PROVE RequestInv'
  OBVIOUS
<1>1. ASSUME NEW w \in Wishes, AskWS(w) PROVE RequestInv'
  BY <1>1, AskInv DEF AskWS, Ask
<1>2. ASSUME NEW w \in Wishes, NEW inQuery, NEW stale, AskHTTP(w, inQuery, stale)
      PROVE  RequestInv'
  <2>1. stage = "idle" /\ effect' = effect /\ stage' = "route"
    BY <1>2 DEF AskHTTP, Ask
  <2> QED BY <2>1, AskInv
<1>3. CASE UNCHANGED vars
  <2>1. UNCHANGED <<cfg, requestVars>> /\ UNCHANGED <<stage, params, effect, answer>>
    BY <1>3 DEF vars
  <2> QED BY <2>1, SameRequest DEF RequestInv, Stages, RefusedHasNoEffect
<1> QED
  BY <1>1, <1>2, <1>3, ReadFrameInv, RouteInv, BuildParamsInv, HandleInv,
     MilkyAnswersInv DEF Next

(* A request that is refused has not called Milky, and the retcode 1500 is  *)
(* Milky's unless the message cannot be sent.                              *)
THEOREM RefusedWithoutEffect == Spec => []RefusedHasNoEffect
<1>1. RequestInv => RefusedHasNoEffect
  BY DEF RequestInv
<1> QED BY InitInv, NextInv, <1>1, PTL DEF Spec

-----------------------------------------------------------------------------
(* The transports agree. *)

(* Trimming one suffix. *)
Trimmed(s, suffix) == IF s # <<>> /\ Last(s) = suffix THEN Front(s) ELSE s

(* The last member of a sequence, and what comes before it. *)
LEMMA FrontAndLast ==
  ASSUME NEW S, NEW s \in Seq(S), NEW x \in S
  PROVE  Front(Append(s, x)) = s /\ Last(Append(s, x)) = x
<1>1. /\ Append(s, x) \in Seq(S)
      /\ Len(Append(s, x)) = Len(s) + 1
      /\ Append(s, x)[Len(s) + 1] = x
      /\ \A i \in 1..Len(s) : Append(s, x)[i] = s[i]
  BY AppendProperties
<1>2. PICK t : t = Append(s, x)
  OBVIOUS
<1>3. Len(s) \in Nat /\ \A i \in 1..Len(s) : s[i] \in S
  BY LenProperties
<1>4. Len(t) = Len(s) + 1 /\ t[Len(s) + 1] = x /\ \A i \in 1..Len(s) : t[i] = s[i]
  BY <1>1, <1>2
<1>5. /\ SubSeq(t, 1, Len(s)) \in Seq(S)
      /\ Len(SubSeq(t, 1, Len(s))) = IF 1 <= Len(s) THEN Len(s) - 1 + 1 ELSE 0
      /\ \A i \in 1..(Len(s) - 1 + 1) : SubSeq(t, 1, Len(s))[i] = t[1 + i - 1]
  BY <1>3, <1>4, SubSeqProperties
<1>6. PICK front : front = SubSeq(t, 1, Len(s))
  OBVIOUS
<1>7. front \in Seq(S) /\ Len(front) = Len(s) /\ \A i \in 1..Len(s) : front[i] = s[i]
  BY <1>3, <1>4, <1>5, <1>6
<1>8. front = s
  BY <1>7, SeqEqual
<1>9. Front(t) = SubSeq(t, 1, Len(s)) /\ Last(t) = x
  BY <1>3, <1>4 DEF Front, Last
<1> QED BY <1>2, <1>6, <1>8, <1>9

(* Trimming yields a sequence. *)
LEMMA TrimmedType ==
  ASSUME NEW S, NEW s \in Seq(S), NEW x \in S
  PROVE  Trimmed(s, x) \in Seq(S)
<1>1. CASE s # <<>>
  <2>1. PICK u \in Seq(S), y \in S : s = Append(u, y)
    BY <1>1, SequenceEmptyOrAppend
  <2>2. Front(s) = u
    BY <2>1, FrontAndLast
  <2> QED BY <2>2 DEF Trimmed
<1>2. CASE s = <<>>
  BY <1>2 DEF Trimmed
<1> QED BY <1>1, <1>2

(* What trimming leaves alone, or takes the last suffix of. *)
LEMMA TrimmedTo ==
  ASSUME NEW S, NEW s \in Seq(S), NEW x \in S, NEW t \in Seq(S)
  PROVE  Trimmed(s, x) = t <=>
           \/ s = t /\ ~(t # <<>> /\ Last(t) = x)
           \/ s = Append(t, x)
<1>1. CASE s # <<>> /\ Last(s) = x
  <2>1. PICK u \in Seq(S), y \in S : s = Append(u, y)
    BY <1>1, SequenceEmptyOrAppend
  <2>2. Last(s) = y /\ Front(s) = u
    BY <2>1, FrontAndLast
  <2>3. Trimmed(s, x) = u /\ y = x
    BY <1>1, <2>2 DEF Trimmed
  <2>4. s = Append(t, x) <=> t = u
    BY <2>1, <2>3, AppendInjective
  <2> QED BY <1>1, <2>3, <2>4
<1>2. CASE ~(s # <<>> /\ Last(s) = x)
  <2>1. Append(t, x) # <<>> /\ Last(Append(t, x)) = x
    BY FrontAndLast, AppendProperties
  <2>2. s # Append(t, x)
    BY <1>2, <2>1
  <2>3. Trimmed(s, x) = s
    BY <1>2 DEF Trimmed
  <2> QED BY <1>2, <2>2, <2>3
<1> QED BY <1>1, <1>2

(* Sequences of one and of two members. *)
LEMMA AppendToOne ==
  ASSUME NEW S, NEW x \in S, NEW y \in S
  PROVE  Append(<<y>>, x) = <<y, x>>
<1>1. /\ <<y>> \in Seq(S) /\ Len(<<y>>) = 1 /\ <<y>>[1] = y
      /\ <<y, x>> \in Seq(S) /\ Len(<<y, x>>) = 2 /\ <<y, x>>[1] = y /\ <<y, x>>[2] = x
  OBVIOUS
<1>2. PICK t : t = <<y>>
  BY Zenon
<1>3. t \in Seq(S)
  BY <1>1, <1>2
<1>4. /\ Append(t, x) \in Seq(S)
      /\ Len(Append(t, x)) = Len(t) + 1
      /\ \A i \in 1..Len(t) : Append(t, x)[i] = t[i]
      /\ Append(t, x)[Len(t) + 1] = x
  BY <1>3, AppendProperties
<1>5. PICK u : u = Append(t, x)
  BY Zenon
<1>6. PICK v : v = <<y, x>>
  BY Zenon
<1>7. Len(t) = 1 /\ t[1] = y /\ v \in Seq(S) /\ Len(v) = 2 /\ v[1] = y /\ v[2] = x
  BY <1>1, <1>2, <1>6
<1>8. u \in Seq(S) /\ Len(u) = 2 /\ u[1] = y /\ u[2] = x
  BY <1>4, <1>5, <1>7
<1>9. u = v
  BY <1>7, <1>8, SeqEqual
<1> QED BY <1>2, <1>5, <1>6, <1>9

(* Two suffixes trimmed one after the other leave nothing of these. *)
LEMMA TrimmedTwice ==
  ASSUME NEW S, NEW s \in Seq(S), NEW x \in S, NEW y \in S, x # y
  PROVE  Trimmed(Trimmed(s, x), y) = <<>> <=>
           s = <<>> \/ s = <<x>> \/ s = <<y>> \/ s = <<y, x>>
<1>1. PICK e \in Seq(S) : e = <<>>
  BY EmptySeq
<1>2. Append(e, x) = <<x>> /\ Append(e, y) = <<y>>
  BY <1>1
<1>3. PICK t \in Seq(S) : t = <<y>>
  <2>1. <<y>> \in Seq(S)
    OBVIOUS
  <2> QED BY <2>1, Zenon
<1>4. Append(t, x) = <<y, x>>
  BY <1>3, AppendToOne
<1>5. t # e /\ Last(t) = y
  BY <1>1, <1>3 DEF Last
<1>6. \A r \in Seq(S) : \A z \in S : Trimmed(r, z) = e <=> r = e \/ r = Append(e, z)
  <2> SUFFICES ASSUME NEW r \in Seq(S), NEW z \in S
               PROVE  Trimmed(r, z) = e <=> r = e \/ r = Append(e, z)
    BY Zenon
  <2>1. Trimmed(r, z) = e <=>
          \/ r = e /\ ~(e # <<>> /\ Last(e) = z)
          \/ r = Append(e, z)
    BY TrimmedTo
  <2>2. ~(e # <<>> /\ Last(e) = z)
    BY <1>1, Zenon
  <2> QED BY <2>1, <2>2, Zenon
<1>7. Trimmed(s, x) = t <=> s = t \/ s = Append(t, x)
  BY <1>5, TrimmedTo
<1>8. Trimmed(s, x) \in Seq(S)
  BY TrimmedType
<1>9. Trimmed(Trimmed(s, x), y) = e <=>
        \/ s = e \/ s = Append(e, x)
        \/ s = t \/ s = Append(t, x)
  <2>1. Append(e, y) = t
    BY <1>2, <1>3
  <2> QED BY <1>6, <1>7, <1>8, <2>1
<1> QED BY <1>1, <1>2, <1>3, <1>4, <1>9

(* NormalizeAction knows an action with the suffixes of Accepted, and only   *)
(* with them.                                                              *)
LEMMA SuffixesAccepted ==
  ASSUME NEW w, w.suffixes \in Seq(STRING)
  PROVE  NormalizeAction(w) = IF w.suffixes \in Accepted THEN w.action ELSE "unknown"
<1>1. NormalizeAction(w) =
        IF Trimmed(Trimmed(w.suffixes, "_async"), "_rate_limited") = <<>>
          THEN w.action ELSE "unknown"
  BY DEF NormalizeAction, Trimmed
<1>2. PICK S : S = STRING \union {"_async", "_rate_limited"}
  BY Zenon
<1>3. Trimmed(Trimmed(w.suffixes, "_async"), "_rate_limited") = <<>> <=>
        w.suffixes \in Accepted
  <2>1. PICK s : s = w.suffixes
    OBVIOUS
  <2>2. PICK x : x = "_async"
    OBVIOUS
  <2>3. PICK y : y = "_rate_limited"
    OBVIOUS
  <2>4. s \in Seq(S)
    BY <1>2, <2>1, SeqMonotonic
  <2>5. x \in S /\ y \in S /\ x # y
    BY <1>2, <2>2, <2>3
  <2>6. Trimmed(Trimmed(s, x), y) = <<>> <=>
           s = <<>> \/ s = <<x>> \/ s = <<y>> \/ s = <<y, x>>
    BY <2>4, <2>5, TrimmedTwice
  <2> QED BY <2>1, <2>2, <2>3, <2>6, Zenon DEF Accepted
<1> QED BY <1>1, <1>3

(* A text of a query is taken for what it was, if its key says so. *)
LEMMA ReadBack ==
  ASSUME NEW k, NEW v \in Values, v[1] # "segments",
         v[1] \in (IF k \in NumericKeys THEN {"int"}
                   ELSE IF k \in BooleanKeys THEN {"bool"}
                   ELSE {"string", "segments"})
  PROVE  NormalizeHTTPScalar(k, Text(v)) = v
<1>1. CASE k \in NumericKeys
  <2>1. PICK n \in Numbers : v = <<"int", n>>
    BY <1>1 DEF Values
  <2>2. Text(v) = Decimal[n]
    BY <2>1 DEF Text
  <2>3. (CHOOSE m \in Numbers : Decimal[m] = Decimal[n]) = n
    BY DecimalAssumption
  <2> QED BY <1>1, <2>1, <2>2, <2>3 DEF NormalizeHTTPScalar
<1>2. CASE k \notin NumericKeys /\ k \in BooleanKeys
  <2>1. PICK b \in BOOLEAN : v = <<"bool", b>>
    BY <1>2 DEF Values
  <2>2. Text(v) = IF b THEN "true" ELSE "false"
    BY <2>1 DEF Text
  <2>3. Text(v) \in TrueTexts \union FalseTexts /\ (Text(v) \in TrueTexts) = b
    BY <2>2 DEF TrueTexts, FalseTexts
  <2> QED BY <1>2, <2>1, <2>3 DEF NormalizeHTTPScalar
<1>3. CASE k \notin NumericKeys /\ k \notin BooleanKeys
  <2>1. v[1] = "string"
    BY <1>3
  <2>2. v \in {"string", "segments"} \X STRING
    BY <2>1 DEF Values
  <2>3. PICK t \in STRING : v = <<"string", t>>
    <3>1. v = <<v[1], v[2]>> /\ v[2] \in STRING
      BY <2>2
    <3> QED BY <2>1, <3>1, Zenon
  <2>4. Text(v) = t
    BY <2>3 DEF Text
  <2> QED BY <1>3, <2>3, <2>4 DEF NormalizeHTTPScalar
<1> QED BY <1>1, <1>2, <1>3

(* No action has a parameter of the name of the access token. *)
LEMMA TokenIsNoField ==
  ASSUME NEW action \in DOMAIN FieldsOf
  PROVE  "access_token" \notin DOMAIN FieldsOf[action]
BY DEF FieldsOf

(* HandleAPI does the same with the same parameters, an access token or not. *)
LEMMA SameCall ==
  ASSUME NEW action, NEW args, NEW p,
         DOMAIN p \ {"access_token"} = DOMAIN args,
         \A k \in DOMAIN args : p[k] = args[k],
         DOMAIN args # {} \/ action \in WithoutParams
  PROVE  HandleAPI(action, p) = HandleAPI(action, args)
<1>1. CASE action \in WithoutParams \/ action \notin DOMAIN FieldsOf
  BY <1>1 DEF HandleAPI
<1>2. CASE action \notin WithoutParams /\ action \in DOMAIN FieldsOf
  <2>1. PICK F : F = FieldsOf[action]
    OBVIOUS
  <2>2. "access_token" \notin DOMAIN F
    BY <1>2, <2>1, TokenIsNoField
  <2>3. p # <<>> /\ args # <<>>
    BY <1>2
  <2>4. Decodes(F, p) <=> Decodes(F, args)
    BY <2>2 DEF Decodes
  <2>5. Decoded(F, p) = Decoded(F, args)
    BY <2>2 DEF Decoded
  <2>6. \A q : q # <<>> =>
          HandleAPI(action, q) =
            IF ~Decodes(F, q) THEN Responds(1400) ELSE Outcome(action, Decoded(F, q))
    BY <1>2, <2>1, HandleDecodes
  <2> QED BY <2>3, <2>4, <2>5, <2>6
<1> QED BY <1>1, <1>2

(* So it does as was meant, once the parameters are understood. *)
LEMMA UnderstoodCall ==
  ASSUME wish \in Wishes, Comparable, Understood
  PROVE  HandleAPI(NormalizeAction(wish), params) = MeantCall
<1> DEFINE action == NormalizeAction(wish)
           D == DOMAIN wish.args
<1>1. action = IF wish.suffixes \in Accepted THEN wish.action ELSE "unknown"
  BY SuffixesAccepted, WishesAssumption
<1>2. MeantCall = HandleAPI(action, MeantArgs)
  BY <1>1 DEF MeantCall
<1>3. DOMAIN MeantArgs = D
  BY DEF MeantArgs
<1>4. D # {} \/ wish.action \in WithoutParams
  <2>1. wish.args \in [D -> Values]
    BY WishesAssumption
  <2> QED BY <2>1 DEF Comparable
<1>5. CASE D # {} \/ action \in WithoutParams
  BY <1>2, <1>3, <1>5, SameCall DEF Understood
<1>6. CASE action = "unknown"
  BY <1>2, <1>6 DEF HandleAPI, WithoutParams, FieldsOf
<1> QED BY <1>1, <1>4, <1>5, <1>6

(* The first state. *)
LEMMA InitTransports == Init => TransportsInv
BY DEF Init, TransportsInv, TransportsAgree

(* A step that leaves the request alone leaves alone what is meant by it. *)
LEMMA SameMeaning ==
  ASSUME UNCHANGED <<cfg, requestVars>>
  PROVE  /\ Comparable' = Comparable /\ MeantArgs' = MeantArgs /\ MeantCall' = MeantCall
         /\ Carried' = Carried /\ wish' = wish /\ via' = via
BY DEF Comparable, Admitted, Refusal, Authorized, MeantCall, MeantArgs, Carried, requestVars

(* An argument in the query is there as its text. *)
LEMMA AskHTTPCarries ==
  ASSUME NEW w \in Wishes, NEW inQuery \in SUBSET DOMAIN w.args,
         NEW stale \in {{}} \union {{k} : k \in DOMAIN w.args},
         AskHTTP(w, inQuery, stale)
  PROVE  Carried'
<1> DEFINE D == DOMAIN w.args
<1>1. w.args \in [D -> Values] /\ "access_token" \notin D
  BY WishesAssumption
<1>2. wish' = w
  BY DEF AskHTTP, Ask
<1>3. /\ body' = [k \in D \ inQuery |-> w.args[k]]
      /\ via' = "GET" => inQuery = D
      /\ plain' = (sound' /\ stale \intersect inQuery = {})
      /\ \A k \in inQuery : w.args[k][1] # "segments"
  BY DEF AskHTTP
<1>4. query' = [k \in inQuery \union stale \union {t \in {"access_token"} : token' = "query"} |->
                 CASE k = "access_token" -> <<"secret">>
                   [] k \in inQuery \intersect stale -> <<Text(w.args[k]), "0">>
                   [] k \in inQuery \ stale -> <<Text(w.args[k])>>
                   [] OTHER -> <<"0">>]
  BY DEF AskHTTP
<1>5. /\ body' \in [DOMAIN body' -> Values]
      /\ \A k \in DOMAIN body' : k \in D /\ body'[k] = w.args[k]
      /\ via' = "GET" => DOMAIN body' = {}
      /\ DOMAIN body' = D \ inQuery
  BY <1>1, <1>3
<1>6. stale \subseteq D
  OBVIOUS
<1>7. ASSUME plain' PROVE D \subseteq DOMAIN body' \union DOMAIN query'
  BY <1>4, <1>5
<1>8. ASSUME plain', NEW k \in DOMAIN query', k # "access_token", k \notin DOMAIN body'
      PROVE  /\ k \in D
             /\ w.args[k][1] # "segments"
             /\ query'[k] = <<Text(w.args[k])>>
  <2>1. k \in inQuery \union stale
    BY <1>4, <1>8
  <2>2. k \in inQuery /\ k \notin stale
    BY <1>3, <1>5, <1>6, <1>8, <2>1
  <2>3. query'[k] = CASE k = "access_token" -> <<"secret">>
                      [] k \in inQuery \intersect stale -> <<Text(w.args[k]), "0">>
                      [] k \in inQuery \ stale -> <<Text(w.args[k])>>
                      [] OTHER -> <<"0">>
    BY <1>4
  <2>4. query'[k] = <<Text(w.args[k])>>
    BY <1>8, <2>2, <2>3
  <2> QED BY <1>3, <2>2, <2>4
<1> QED BY <1>2, <1>3, <1>5, <1>7, <1>8 DEF Carried

(* BuildParams understands what a request holds. *)
LEMMA ParamsUnderstood ==
  ASSUME wish \in Wishes, Carried, Comparable, via # "ws", params' = HTTPParams(body),
         UNCHANGED <<cfg, requestVars>>
  PROVE  Understood'
<1> DEFINE D == DOMAIN wish.args
<1>1. wish.args \in [D -> Values] /\ "access_token" \notin D
  BY WishesAssumption
<1>2. via \in {"GET", "POST"}
  <2>1. Refusal = 200
    BY DEF Comparable, Admitted
  <2>2. via \notin {"GET", "POST"} => Refusal \in {404, 401, 405}
    BY DEF Refusal
  <2> QED BY <2>1, <2>2
<1>3. plain /\ Documented(wish.args)
  BY DEF Comparable
<1>4. /\ DOMAIN params' = DOMAIN body \union DOMAIN query
      /\ \A k \in DOMAIN body : params'[k] = Float(body[k])
      /\ \A k \in DOMAIN query \ DOMAIN body : params'[k] = QueryParams[k]
  BY DEF HTTPParams
<1>5. /\ \A k \in DOMAIN body : k \in D /\ body[k] = wish.args[k]
      /\ via = "GET" => DOMAIN body = {}
      /\ D \subseteq DOMAIN body \union DOMAIN query
      /\ \A k \in DOMAIN query :
           \/ k = "access_token"
           \/ k \in DOMAIN body
           \/ /\ k \in D
              /\ wish.args[k][1] # "segments"
              /\ query[k] = <<Text(wish.args[k])>>
  BY <1>3 DEF Carried
<1>6. DOMAIN params' \ {"access_token"} = D
  BY <1>1, <1>4, <1>5
<1>7. ASSUME NEW k \in D PROVE params'[k] = MeantArgs[k]
  <2>1. MeantArgs[k] = IF via = "POST" /\ k \in DOMAIN body
                         THEN Float(wish.args[k]) ELSE wish.args[k]
    BY DEF MeantArgs
  <2>2. CASE k \in DOMAIN body
    <3>1. via = "POST"
      BY <1>2, <1>5, <2>2
    <3> QED BY <1>4, <1>5, <2>1, <2>2, <3>1
  <2>3. CASE k \notin DOMAIN body
    <3>1. /\ k \in DOMAIN query
          /\ wish.args[k][1] # "segments"
          /\ query[k] = <<Text(wish.args[k])>>
      BY <1>1, <1>5, <2>3
    <3>2. QueryParams[k] = NormalizeHTTPScalar(k, Text(wish.args[k]))
      <4>1. Len(query[k]) = 1 /\ query[k][1] = Text(wish.args[k])
        BY <3>1
      <4> QED BY <3>1, <4>1 DEF QueryParams
    <3>3. NormalizeHTTPScalar(k, Text(wish.args[k])) = wish.args[k]
      BY <1>1, <1>3, <3>1, ReadBack DEF Documented
    <3> QED BY <1>4, <2>1, <2>3, <3>1, <3>2, <3>3
  <2> QED BY <2>2, <2>3
<1>8. wish' = wish /\ MeantArgs' = MeantArgs
  BY SameMeaning
<1> QED BY <1>6, <1>7, <1>8 DEF Understood

(* Every step preserves the invariant; that of RequestInv tells which       *)
(* requests come as far as this.                                           *)
LEMMA NextTransports == RequestInv /\ TransportsInv /\ [Next]_vars => TransportsInv'
<1> SUFFICES ASSUME RequestInv, TransportsInv, [Next]_vars PROVE TransportsInv'
  OBVIOUS
<1>1. ASSUME NEW w \in Wishes, AskWS(w) PROVE TransportsInv'
  <2>1. stage' = "frame" /\ wish' = w /\ via' = "ws" /\ body' = w.args /\ plain' = sound'
    BY <1>1 DEF AskWS, Ask
  <2> QED BY <2>1 DEF TransportsInv, TransportsAgree
<1>2. ASSUME NEW w \in Wishes, NEW inQuery \in SUBSET DOMAIN w.args,
             NEW stale \in {{}} \union {{k} : k \in DOMAIN w.args},
             AskHTTP(w, inQuery, stale)
      PROVE  TransportsInv'
  <2>1. stage' = "route" /\ wish' = w /\ via' # "ws"
    BY <1>2 DEF AskHTTP, Ask
  <2>2. Carried'
    BY <1>2, AskHTTPCarries
  <2> QED BY <2>1, <2>2 DEF TransportsInv, TransportsAgree
<1>3. CASE ReadFrame
  <2>1. /\ stage = "frame" /\ UNCHANGED <<cfg, requestVars>>
        /\ wish \in Wishes /\ via = "ws" /\ body = wish.args /\ (plain => sound)
    BY <1>3 DEF ReadFrame, TransportsInv
  <2>2. wish' = wish /\ via' = via /\ MeantArgs' = MeantArgs /\ Comparable' = Comparable
    BY <2>1, SameMeaning
  <2>3. CASE ~sound
    <3>1. stage' = "answered" /\ ~Comparable
      BY <1>3, <2>1, <2>3 DEF ReadFrame, Answer, Comparable
    <3> QED BY <2>1, <2>2, <3>1 DEF TransportsInv, TransportsAgree
  <2>4. CASE sound
    <3>1. stage' = "handle" /\ params' = wish.args
      BY <1>3, <2>1, <2>4 DEF ReadFrame
    <3>2. wish.args \in [DOMAIN wish.args -> Values] /\ "access_token" \notin DOMAIN wish.args
      BY <2>1, WishesAssumption
    <3>3. Understood'
      BY <2>1, <2>2, <3>1, <3>2 DEF Understood, MeantArgs
    <3> QED BY <2>1, <2>2, <3>1, <3>3 DEF TransportsInv, TransportsAgree
  <2> QED BY <2>3, <2>4
<1>4. CASE Route
  <2>1. stage = "route" /\ UNCHANGED <<cfg, requestVars>> /\ wish \in Wishes /\ via # "ws" /\ Carried
    BY <1>4 DEF Route, TransportsInv
  <2>2. wish' = wish /\ via' = via /\ Carried' /\ Comparable' = Comparable
    BY <2>1, SameMeaning
  <2>3. CASE Refusal # 200
    <3>1. stage' = "answered" /\ ~Comparable
      BY <1>4, <2>1, <2>3 DEF Route, Answer, Comparable, Admitted
    <3> QED BY <2>1, <2>2, <3>1 DEF TransportsInv, TransportsAgree
  <2>4. CASE Refusal = 200
    <3>1. stage' = "params"
      BY <1>4, <2>4 DEF Route
    <3> QED BY <2>1, <2>2, <3>1 DEF TransportsInv, TransportsAgree
  <2> QED BY <2>3, <2>4
<1>5. CASE BuildParams
  <2>1. /\ stage = "params" /\ UNCHANGED <<cfg, requestVars>>
        /\ wish \in Wishes /\ via # "ws" /\ Carried
    BY <1>5 DEF BuildParams, TransportsInv
  <2>2. wish' = wish /\ via' = via /\ Comparable' = Comparable
    BY <2>1, SameMeaning
  <2>3. CASE ~sound
    <3>1. stage' = "answered" /\ ~Comparable
      BY <1>5, <2>1, <2>3 DEF BuildParams, Answer, Comparable, Carried
    <3> QED BY <2>1, <2>2, <3>1 DEF TransportsInv, TransportsAgree
  <2>4. CASE sound
    <3>1. stage' = "handle" /\ params' = HTTPParams(body)
      BY <1>5, <2>4 DEF BuildParams
    <3>2. Comparable => Understood'
      BY <2>1, <3>1, ParamsUnderstood
    <3> QED BY <2>1, <2>2, <3>1, <3>2 DEF TransportsInv, TransportsAgree
  <2> QED BY <2>3, <2>4
<1>6. CASE Handle
  <2> DEFINE outcome == HandleAPI(NormalizeAction(wish), params)
  <2>1. /\ stage = "handle" /\ UNCHANGED <<cfg, requestVars>> /\ wish \in Wishes
        /\ effect' = outcome.call
        /\ IF outcome.call = None THEN Respond(outcome.retcode)
           ELSE stage' = "upstream" /\ UNCHANGED answer
    BY <1>6 DEF Handle, TransportsInv
  <2>2. wish' = wish /\ Comparable' = Comparable /\ MeantCall' = MeantCall
    BY <2>1, SameMeaning
  <2>3. Comparable => outcome = MeantCall
    BY <2>1, UnderstoodCall DEF TransportsInv
  <2> HIDE DEF outcome
  <2>4. CASE outcome.call = None
    <3>1. stage' = "answered" /\ answer'.retcode = outcome.retcode
      BY <2>1, <2>4 DEF Respond, Answer
    <3> QED BY <2>1, <2>2, <2>3, <3>1 DEF TransportsInv, TransportsAgree
  <2>5. CASE outcome.call # None
    BY <2>1, <2>2, <2>3, <2>5 DEF TransportsInv, TransportsAgree
  <2> QED BY <2>4, <2>5
<1>7. CASE MilkyAnswers
  <2>1. /\ stage = "upstream" /\ UNCHANGED <<cfg, requestVars>> /\ wish \in Wishes
        /\ effect' = effect /\ effect # None
    BY <1>7 DEF MilkyAnswers, TransportsInv, RequestInv
  <2>2. wish' = wish /\ Comparable' = Comparable /\ MeantCall' = MeantCall
    BY <2>1, SameMeaning
  <2>3. stage' = "answered"
    BY <1>7 DEF MilkyAnswers, Respond, Answer
  <2> QED BY <2>1, <2>2, <2>3 DEF TransportsInv, TransportsAgree
<1>8. CASE UNCHANGED vars
  <2>1. UNCHANGED <<cfg, requestVars>> /\ UNCHANGED <<stage, params, effect, answer>>
    BY <1>8 DEF vars
  <2>2. Comparable' = Comparable /\ MeantCall' = MeantCall /\ MeantArgs' = MeantArgs
        /\ Carried' = Carried /\ wish' = wish /\ via' = via /\ body' = body
    BY <2>1, SameMeaning DEF requestVars
  <2>3. Understood' = Understood
    BY <2>1, <2>2 DEF Understood
  <2> QED BY <2>1, <2>2, <2>3 DEF TransportsInv, TransportsAgree, requestVars
<1> QED BY <1>1, <1>2, <1>3, <1>4, <1>5, <1>6, <1>7, <1>8 DEF Next

(* An action does the same on a WebSocket, in a query, in a body or in both, *)
(* whatever its texts and numbers look like.                               *)
THEOREM TransportsAgreeAlways == Spec => []TransportsAgree
<1>1. TransportsInv => TransportsAgree
  BY DEF TransportsInv
<1> QED BY InitInv, NextInv, InitTransports, NextTransports, <1>1, PTL DEF Spec

=============================================================================
