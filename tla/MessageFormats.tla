--------------------------- MODULE MessageFormats ---------------------------
(***************************************************************************)
(* The conversions of CQCodec put together the way messages go through     *)
(* them: from Milky to a bot and back (a bot that repeats what it gets),   *)
(* and from a bot to Milky, in the array or in the string format.          *)
(*                                                                         *)
(* A behaviour composes one message piece by piece: the elements Milky     *)
(* pushes, the segment objects a bot sends, or what a user types.          *)
(***************************************************************************)
EXTENDS CQCodec

CONSTANTS
  Elements,   \* elements of the messages Milky pushes
  Objects,    \* segment objects a bot puts into an array
  Chunks,     \* what a user types, or a bot writes, piece by piece
  MaxPieces,  \* bound: elements or objects of a message
  MaxChunks   \* bound: pieces of a text

ASSUME LengthsAssumption == MaxPieces \in Nat /\ MaxChunks \in Nat

(* Elements without a segment type have what data they like. *)
ASSUME ElementsAssumption ==
  \A e \in Elements :
    \/ e \in [type : {"text"}, text : Texts]
    \/ e \in [type : Media, uri : Texts, temp : Texts]
    \/ e \in [type : {"at", "reply"}, id : Nat]
    \/ e.type \notin Media \union {"text", "at", "reply"}

(* The data of an object are strings or whole numbers. *)
ASSUME ObjectsAssumption ==
  \A obj \in Objects :
    /\ obj.type \in Tokens
    /\ IsFiniteSet(DOMAIN obj.data)
    /\ \A k \in DOMAIN obj.data :
         k \in Texts /\ obj.data[k] \in [str : Texts] \union [num : Nat]

ASSUME ChunksAssumption == Chunks \subseteq Texts

VARIABLES
  heard,  \* the elements of a message from Milky
  said,   \* the segment objects of a message from a bot
  typed   \* a text

vars == <<heard, said, typed>>

Init ==
  /\ heard = <<>>
  /\ said = <<>>
  /\ typed = <<>>

(* Milky pushes, and fromReceiveMessage converts, one more element. *)
Hear(e) ==
  /\ said = <<>> /\ typed = <<>>
  /\ Len(heard) < MaxPieces
  /\ heard' = Append(heard, e)
  /\ UNCHANGED <<said, typed>>

(* A bot adds an object to its array. *)
Say(obj) ==
  /\ heard = <<>> /\ typed = <<>>
  /\ Len(said) < MaxPieces
  /\ said' = Append(said, obj)
  /\ UNCHANGED <<heard, typed>>

(* A user, or a bot that uses the string format, goes on typing. *)
Type(chunk) ==
  /\ heard = <<>> /\ said = <<>>
  /\ Len(typed) < MaxChunks
  /\ typed' = Append(typed, chunk)
  /\ UNCHANGED <<heard, said>>

Next ==
  \/ \E e \in Elements : Hear(e)
  \/ \E obj \in Objects : Say(obj)
  \/ \E chunk \in Chunks : Type(chunk)

Spec == Init /\ [][Next]_vars

-----------------------------------------------------------------------------
(* What a reader of a Milky message sees: the characters of its texts, one  *)
(* text or several, and between them the other elements.                   *)
Seen(elements) ==
  FlattenSeq([i \in DOMAIN elements |->
    IF elements[i].type = "text"
      THEN [j \in DOMAIN elements[i].text |-> [char |-> elements[i].text[j]]]
      ELSE <<elements[i]>>])

Refused == [ok |-> FALSE, elements |-> <<>>]

(* What Milky makes of a message of a bot: HandleAPI's parseOneBotMessage   *)
(* and toMilkySegments.                                                    *)
Meaning(message, autoEscape) ==
  LET parsed == ParseOneBotMessage(message, autoEscape)
      sent == ToMilkySegments(parsed.segments)
  IN IF parsed.ok /\ sent.ok
       THEN [ok |-> TRUE, elements |-> Seen(sent.elements)] ELSE Refused

String(t) == [format |-> "string", body |-> t]
Array(objects) == [format |-> "array", body |-> objects]
Text == FlattenSeq(typed)

(* A picture or recording with two addresses, of which a code keeps one. *)
TwoAddresses(segments) ==
  \E i \in DOMAIN segments :
    /\ segments[i].type \in Media
    /\ Get(segments[i].data, "file") \notin {<<>>, Get(segments[i].data, "url")}

(* The element a bot sends if it repeats e: the picture of a temporary URL  *)
(* by that URL, and what has no segment type as a text.                    *)
Repeated(e) ==
  CASE e.type \in Media -> [type |-> e.type, uri |-> IF e.temp = <<>> THEN e.uri ELSE e.temp]
    [] e.type \in {"text", "at", "reply"} -> e
    [] OTHER -> [type |-> "text", text |-> <<"[", "unsupported", "]">>]

(* A bot that sends back a message it was given, in either format, sends    *)
(* what it heard: texts that look like codes or entities stay texts,       *)
(* commas in an address do not end it, and ids are the same.               *)
EchoIsFaithful ==
  LET expected == [i \in DOMAIN heard |-> Repeated(heard[i])]
      addressed == \A i \in DOMAIN expected :
                     expected[i].type \in Media => expected[i].uri # <<>>
  IN \A format \in {"array", "string"} :
       Meaning(BuildOneBotMessage(format, FromMilkySegments(heard)), FALSE) =
         IF addressed THEN [ok |-> TRUE, elements |-> Seen(expected)] ELSE Refused

(* The two formats of a message mean the same to Milky, and are refused     *)
(* alike: an array and its string with CQ codes, and a single object and   *)
(* the array of it.                                                        *)
FormatsAgree ==
  LET segments == ParseOneBotMessage(Array(said), FALSE).segments IN
    /\ ~TwoAddresses(segments) =>
         Meaning(Array(said), FALSE) = Meaning(String(BuildCString(segments)), FALSE)
    /\ Len(said) = 1 =>
         Meaning([format |-> "object", body |-> said[1]], FALSE) =
           Meaning(Array(said), FALSE)

(* A number in place of a string, as JSON allows it in a segment, goes to   *)
(* Milky as that very number or has the whole message refused; it is       *)
(* refused from a million on, where fmt.Sprint takes the exponent form.    *)
NumbersExactOrRefused ==
  LET numbers == {i \in DOMAIN said :
                    /\ said[i].type \in {"at", "reply"}
                    /\ Token(KeyOf[said[i].type]) \in DOMAIN said[i].data
                    /\ "num" \in DOMAIN said[i].data[Token(KeyOf[said[i].type])]}
      number(i) == said[i].data[Token(KeyOf[said[i].type])].num
      meaning == Meaning(Array(said), FALSE)
  IN /\ (\E i \in numbers : number(i) >= Million) => ~meaning.ok
     /\ numbers = DOMAIN said =>
          \/ \E i \in numbers : number(i) >= Million
          \/ meaning = [ok |-> TRUE,
                        elements |-> [i \in DOMAIN said |->
                                        [type |-> said[i].type, id |-> number(i)]]]

(* A text that was escaped, between codes or as a value, is read back as it *)
(* was; sent with auto_escape it needs no escaping.                        *)
EscapedTextIsText ==
  /\ Meaning(String(EscapeCQText(Text)), FALSE) = Meaning(String(Text), TRUE)
  /\ ParseCQMessage(CQCode("reply", "id", Text)) = <<Segment("reply", "id", Text)>>

(* What the bridge would write for a string it has read means the same as   *)
(* that string: get_msg and raw_message can be sent again.                 *)
WrittenAsRead ==
  LET segments == ParseCQMessage(Text) IN
    ~TwoAddresses(segments) =>
      Meaning(String(BuildCString(segments)), FALSE) = Meaning(String(Text), FALSE)

=============================================================================
