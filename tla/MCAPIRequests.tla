--------------------------- MODULE MCAPIRequests ---------------------------
(***************************************************************************)
(* APIRequests for TLC: each way an action decodes its parameters, with    *)
(* texts that look like numbers or booleans, ids that are known or not, an *)
(* id that is no float64 next to one that is, a number sent as a text, and  *)
(* pictures that cannot be sent, unless a code for one is a text.          *)
(***************************************************************************)
EXTENDS APIRequests

MCNumbers == {0, 1, 7, 8, 9}
MCDecimal == [n \in MCNumbers |-> ToString(n)]
MCKnownFlags == "friend:1" :> "friend" @@ "1" :> "group"

MCUnsendable ==
  ({<<"segments", "no file">>} \X BOOLEAN) \union {<<<<"string", "[CQ:image]">>, FALSE>>}

Num(n) == <<"int", n>>
Str(s) == <<"string", s>>
Wish(action, suffixes, args) == [action |-> action, suffixes |-> suffixes, args |-> args]

MCWishes ==
  {Wish("send_private_msg", <<>>, [user_id |-> Num(7), message |-> m]) :
     m \in {Str("7"), Str("true"), <<"segments", "picture">>, <<"segments", "no file">>}} \union
  {Wish("send_msg", <<>>, [message_type |-> Str("group"), group_id |-> Num(7),
                           message |-> Str("[CQ:image]"), auto_escape |-> <<"bool", e>>]) :
     e \in BOOLEAN} \union
  {Wish("send_private_msg", <<>>, [user_id |-> Num(7)])} \union
  {Wish("send_group_msg", s, [group_id |-> Num(7), message |-> Str("hello"),
                              auto_escape |-> <<"bool", TRUE>>]) :
     s \in {<<>>, <<"_async">>, <<"_rate_limited">>, <<"_rate_limited", "_async">>,
            <<"_async", "_rate_limited">>}} \union
  {Wish("send_msg", <<>>, [message_type |-> Str(t), user_id |-> Num(u), message |-> Str("1")]) :
     t \in {"", "private", "group"}, u \in {0, 7}} \union
  {Wish("delete_msg", <<"_async">>, [message_id |-> Num(n)]) : n \in {7, 8, 9}} \union
  {Wish("set_friend_add_request", <<>>,
        [flag |-> Str(f), approve |-> <<"bool", TRUE>>, remark |-> Str("1")]) :
     f \in {"friend:1", "1", "2"}} \union
  {Wish("set_group_add_request", <<>>, [flag |-> Str("1")]),
   Wish("get_group_member_info", <<>>, [group_id |-> Num(7), user_id |-> Num(8)]),
   Wish("get_msg", <<>>, <<>>), Wish("get_group_list", <<>>, <<>>),
   Wish("get_status", <<"_rate_limited">>, <<>>), Wish("", <<>>, <<>>),
   Wish("get_group_info", <<>>, [group_id |-> Str("7")]),
   Wish("send_like", <<>>, [user_id |-> Num(7)])}

=============================================================================
