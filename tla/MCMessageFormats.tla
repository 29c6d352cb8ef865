-------------------------- MODULE MCMessageFormats --------------------------
(***************************************************************************)
(* MessageFormats for TLC: texts and addresses that hold what codes and    *)
(* entities are made of, numbers on both sides of the exponent form.       *)
(***************************************************************************)
EXTENDS MessageFormats

MCWords == {"a", "u", "v", "all", "face", "shake"}

MCTexts == {<<>>, <<"a">>, <<"[", "CQ:", "at", "]">>, <<"&", "#91;">>, <<",", "=">>}
Addresses == {<<>>, <<"u">>, <<"u", ",", "&", "]">>}

MCElements ==
  [type : {"text"}, text : MCTexts] \union
  [type : {"image"}, uri : Addresses, temp : Addresses] \union
  [type : {"record"}, uri : {<<"u">>}, temp : {<<>>}] \union
  [type : {"at", "reply"}, id : {0, 12, Million}] \union
  [type : {"face"}]

Str(t) == [str |-> t]
Obj(type, key, value) == [type |-> type, data |-> (Token(key) :> value)]

MCObjects ==
  {Obj("text", "text", Str(t)) : t \in MCTexts} \union
  {Obj("image", key, Str(<<"u", ",">>)) : key \in {"file", "url", "id"}} \union
  {[type |-> "record", data |-> Token("file") :> Str(<<"u">>) @@
                                Token("url") :> Str(<<"v">>)]} \union
  {Obj("at", "qq", v) : v \in {Str(<<"7">>), Str(<<"all">>), Str(<<>>)}} \union
  {Obj("at", "qq", [num |-> n]) : n \in {12, Million - 1, Million}} \union
  {Obj("reply", "id", [num |-> 7]), Obj("poke", "qq", Str(<<"7">>)),
   Obj("face", "id", Str(<<"]">>)), [type |-> "shake", data |-> <<>>]}

MCChunks ==
  {<<"[", "CQ:", "at", ",", "qq", "=">>, <<"[", "CQ:", "image", ",", "file", "=", "7">>,
   <<",", "url", "=">>, <<"[", "CQ:", "face">>, <<"7">>, <<"a">>, <<"]">>, <<"[">>,
   <<",">>, <<"&">>, <<"amp;">>, <<"&", "#91;">>, <<"CQ:">>}

=============================================================================
