------------------------------ MODULE CQCodec ------------------------------
(***************************************************************************)
(* The message conversions of internal/bridge/message_ir.go and of         *)
(* toMilkySegments and fromMilkySegments in internal/milky/client.go:      *)
(* OneBot message (string with CQ codes, or array of segment objects)      *)
(* <-> []types.Segment <-> elements of a Milky message.                    *)
(*                                                                         *)
(* A string is a sequence of tokens: the characters the code looks for,    *)
(* "CQ:", the tails of the four entities, digits, and words that it only    *)
(* passes on. Segment.Data is a function from such strings to such strings. *)
(***************************************************************************)
EXTENDS Naturals, SequencesExt

CONSTANT Words  \* the words the code passes on

DigitTokens == <<"0", "1", "2", "3", "4", "5", "6", "7", "8", "9">>

Tokens ==
  Words \union {DigitTokens[d] : d \in 1..10} \union
  {"[", "]", "CQ:", ",", "=", "&", "amp;", "#91;", "#93;", "#44;",
   "text", "image", "record", "at", "poke", "reply", "file", "url", "qq", "id",
   "e+", "unsupported"}

Texts == Seq(Tokens)

Token(s) == <<s>>

(* The entities of CQ codes: "&#91;" is the token "&" and the token "#91;". *)
Entity ==
  [ch \in {"&", "[", "]", ","} |->
     CASE ch = "&" -> "amp;" [] ch = "[" -> "#91;"
       [] ch = "]" -> "#93;" [] ch = "," -> "#44;"]

(* strings.ReplaceAll of a character by its entity. *)
ReplaceChar(t, ch) ==
  FlattenSeq([i \in DOMAIN t |->
                IF t[i] = ch THEN <<"&", Entity[ch]>> ELSE <<t[i]>>])

(* Seeded faults: an operator that says "Fault" is a copy of the next one  *)
(* with a bug in it; no specification uses it.                             *)

(* Fault: "&" is escaped last. *)
EscapeAmpersandLast(t) == ReplaceChar(ReplaceChar(ReplaceChar(t, "["), "]"), "&")

EscapeCQText(t) == ReplaceChar(ReplaceChar(ReplaceChar(t, "&"), "["), "]")

(* Fault: a value is escaped as a text is. *)
EscapeValueAsText(t) == EscapeCQText(t)

EscapeCQValue(t) == ReplaceChar(EscapeCQText(t), ",")

EntityAt(t, i) ==
  i \in 1..(Len(t) - 1) /\ t[i] = "&" /\ \E ch \in DOMAIN Entity : t[i + 1] = Entity[ch]

(* strings.NewReplacer: one pass from left to right. *)
UnescapeCQText(t) ==
  FlattenSeq([i \in DOMAIN t |->
    IF EntityAt(t, i) THEN <<CHOOSE ch \in DOMAIN Entity : Entity[ch] = t[i + 1]>>
    ELSE IF EntityAt(t, i - 1) THEN <<>>
    ELSE <<t[i]>>])

-----------------------------------------------------------------------------
(* Numbers: strconv.FormatInt, strconv.ParseInt, and fmt.Sprint of a number *)
(* that encoding/json has decoded into a float64, which takes the exponent  *)
(* form from a million on.                                                 *)

FormatInt[n \in Nat] ==
  IF n < 10 THEN <<DigitTokens[n + 1]>>
  ELSE FormatInt[n \div 10] \o <<DigitTokens[(n % 10) + 1]>>

IsInt(t) == t # <<>> /\ \A i \in DOMAIN t : \E d \in 1..10 : t[i] = DigitTokens[d]

ParseInt(t) ==
  LET Digit(d) == (CHOOSE k \in 1..10 : DigitTokens[k] = d) - 1
      value[i \in 0..Len(t)] == IF i = 0 THEN 0 ELSE 10 * value[i - 1] + Digit(t[i])
  IN value[Len(t)]

Million == 1000000

SprintFloat(n) ==
  IF n < Million THEN FormatInt[n] ELSE <<Head(FormatInt[n]), "e+">>

-----------------------------------------------------------------------------
(* Segments. *)

Get(data, key) == IF Token(key) \in DOMAIN data THEN data[Token(key)] ELSE <<>>

Segment(type, key, value) == [type |-> type, data |-> [k \in {Token(key)} |-> value]]

TextSegment(t) == Segment("text", "text", t)

NormalizeMediaData(data) ==
  [k \in {Token("file"), Token("url")} |->
     IF k = Token("url") /\ Get(data, "url") # <<>> THEN Get(data, "url")
     ELSE Get(data, "file")]

(* The cases that parseSegmentObject, parseCQToken and buildOneBotMessage   *)
(* have in common: a segment keeps the one entry that matters to its type. *)
Media == {"image", "record"}
KeyOf == [type \in {"at", "poke", "reply"} |-> IF type = "reply" THEN "id" ELSE "qq"]

TypedSegment(type, data) ==
  IF type \in Media
    THEN [type |-> type, data |-> NormalizeMediaData(data)]
    ELSE Segment(type, KeyOf[type], Get(data, KeyOf[type]))

CQTypes == Media \union DOMAIN KeyOf

-----------------------------------------------------------------------------
(* From a bot: a string with CQ codes. *)

(* strings.Index, of a character and from i on; behind the end if there is  *)
(* none.                                                                   *)
Index(t, i, ch) ==
  CHOOSE j \in i..(Len(t) + 1) :
    /\ j = Len(t) + 1 \/ t[j] = ch
    /\ \A k \in i..(j - 1) : t[k] # ch

(* What strings.Split cuts off at a comma: the item that begins at i. *)
Item(token, i) == SubSeq(token, i, Index(token, i, ",") - 1)

(* The entries "key=value" of a code. One without "=" is passed over, of two *)
(* with a key the last one stays.                                          *)
CQData(token) ==
  LET starts == {i + 1 : i \in {c \in DOMAIN token : token[c] = ","}}
      Eq(i) == Index(Item(token, i), 1, "=")
      entries == {i \in starts : Eq(i) <= Len(Item(token, i))}
      Key(i) == SubSeq(Item(token, i), 1, Eq(i) - 1)
      Value(i) == SubSeq(Item(token, i), Eq(i) + 1, Len(Item(token, i)))
      LastOf(key) == CHOOSE i \in entries :
                       Key(i) = key /\ \A j \in entries : Key(j) = key => j <= i
  IN [key \in {Key(i) : i \in entries} |-> UnescapeCQText(Value(LastOf(key)))]

ParseCQToken(token) ==
  LET name == Item(token, 1) IN
    IF \E type \in CQTypes : name = Token(type)
      THEN TypedSegment(name[1], CQData(token))
      ELSE TextSegment(<<"[", "CQ:">> \o token \o <<"]">>)

(* Fault: text between codes is not unescaped. *)
PlainTextEscaped(t) == IF t = <<>> THEN <<>> ELSE <<TextSegment(t)>>

(* Text between codes; none is left out, none is made up. *)
PlainText(t) == IF t = <<>> THEN <<>> ELSE <<TextSegment(UnescapeCQText(t))>>

(* One round of the loop of parseCQMessage: up to the first "[CQ:" the      *)
(* input is text, up to the "]" after it a code; a code that is not closed  *)
(* is text.                                                                *)
CodeAt(input, i) == i < Len(input) /\ input[i] = "[" /\ input[i + 1] = "CQ:"

CodeStart(input) ==
  CHOOSE i \in 1..(Len(input) + 1) :
    /\ i = Len(input) + 1 \/ CodeAt(input, i)
    /\ \A k \in 1..(i - 1) : ~CodeAt(input, k)

CodeEnd(input) == Index(input, CodeStart(input), "]")

(* The segments of a round, and the input it leaves to the next. *)
Pieces(input) ==
  LET start == CodeStart(input)
      end == CodeEnd(input)
  IN PlainText(SubSeq(input, 1, start - 1)) \o
     IF end <= Len(input) THEN <<ParseCQToken(SubSeq(input, start + 2, end - 1))>>
     ELSE PlainText(SubSeq(input, start, Len(input)))

Remaining(input) == SubSeq(input, CodeEnd(input) + 1, Len(input))

(* A round consumes at least a token; none is left when there are no more.  *)
ParseCQMessage(input) ==
  LET rest[n \in 0..Len(input)] == IF n = 0 THEN input ELSE Remaining(rest[n - 1])
  IN FlattenSeq([n \in DOMAIN input |-> Pieces(rest[n - 1])])

(* A segment object of the array format. Its data are strings or numbers;   *)
(* the entries of an unsupported one are joined in some order.             *)
Sprint(value) == IF "num" \in DOMAIN value THEN SprintFloat(value.num) ELSE value.str

ParseSegmentObject(obj) ==
  LET data == [k \in DOMAIN obj.data |-> Sprint(obj.data[k])] IN
    IF obj.type = "text" THEN TextSegment(Get(data, "text"))
    ELSE IF obj.type \in CQTypes THEN TypedSegment(obj.type, data)
    ELSE TextSegment(<<"[", "CQ:", obj.type>> \o
           FlattenSeq([i \in 1..Cardinality(DOMAIN data) |->
             LET k == SetToSeq(DOMAIN data)[i] IN <<",">> \o k \o <<"=">> \o data[k]])
           \o <<"]">>)

(* parseOneBotMessage, of what encoding/json made of the message. *)
ParseOneBotMessage(message, autoEscape) ==
  LET Parsed(segments) == [ok |-> TRUE, segments |-> segments] IN
    CASE message.format = "string" ->
           Parsed(IF autoEscape THEN <<TextSegment(message.body)>>
                  ELSE ParseCQMessage(message.body))
      [] message.format = "object" -> Parsed(<<ParseSegmentObject(message.body)>>)
      [] message.format = "array" ->
           Parsed([i \in DOMAIN message.body |-> ParseSegmentObject(message.body[i])])
      [] OTHER -> [ok |-> FALSE, segments |-> <<>>]

-----------------------------------------------------------------------------
(* To a bot. *)

(* A code names the file, or else the url. *)
CQCode(type, key, value) ==
  <<"[", "CQ:">> \o <<type, ",">> \o <<key, "=">> \o EscapeCQValue(value) \o <<"]">>

BuildCString(segments) ==
  FlattenSeq([i \in DOMAIN segments |->
    LET type == segments[i].type
        data == segments[i].data
    IN IF type \in Media
         THEN CQCode(type, "file", IF Get(data, "file") = <<>>
                                     THEN Get(data, "url") ELSE Get(data, "file"))
       ELSE IF type \in DOMAIN KeyOf
         THEN CQCode(type, KeyOf[type], Get(data, KeyOf[type]))
       ELSE EscapeCQText(Get(data, "text"))])

(* buildOneBotMessage: the message in the configured format; raw_message is *)
(* BuildCString in both.                                                   *)
BuildOneBotMessage(format, segments) ==
  IF format = "string"
    THEN [format |-> "string", body |-> BuildCString(segments)]
    ELSE [format |-> "array",
          body |-> [i \in DOMAIN segments |->
            LET s == IF segments[i].type \in CQTypes
                       THEN TypedSegment(segments[i].type, segments[i].data)
                       ELSE TextSegment(Get(segments[i].data, "text"))
            IN [type |-> s.type,
                data |-> [k \in DOMAIN s.data |-> [str |-> s.data[k]]]]]]

-----------------------------------------------------------------------------
(* To and from Milky. *)

MediaURI(data) == IF Get(data, "url") = <<>> THEN Get(data, "file") ELSE Get(data, "url")

Sendable(s) ==
  /\ s.type \in Media => MediaURI(s.data) # <<>>
  /\ s.type \in {"at", "reply"} => IsInt(Get(s.data, KeyOf[s.type]))

(* A poke is passed over; a segment of another type is its text, if any. *)
ElementOf(s) ==
  IF s.type \in Media THEN <<[type |-> s.type, uri |-> MediaURI(s.data)]>>
  ELSE IF s.type \in {"at", "reply"}
    THEN <<[type |-> s.type, id |-> ParseInt(Get(s.data, KeyOf[s.type]))]>>
  ELSE IF s.type = "text" THEN <<[type |-> "text", text |-> Get(s.data, "text")]>>
  ELSE IF s.type = "poke" \/ Get(s.data, "text") = <<>> THEN <<>>
  ELSE <<[type |-> "text", text |-> Get(s.data, "text")]>>

(* Fault: a segment that cannot be sent is passed over. *)
ToMilkySegmentsInPart(segments) ==
  [ok |-> TRUE,
   elements |-> FlattenSeq([i \in DOMAIN segments |->
                  IF Sendable(segments[i]) THEN ElementOf(segments[i]) ELSE <<>>])]

(* One segment that cannot be sent fails the whole message. *)
ToMilkySegments(segments) ==
  IF \A i \in DOMAIN segments : Sendable(segments[i])
    THEN [ok |-> TRUE,
          elements |-> FlattenSeq([i \in DOMAIN segments |-> ElementOf(segments[i])])]
    ELSE [ok |-> FALSE, elements |-> <<>>]

(* Fault: a picture has its permanent URI for url. *)
FromElementIgnoresTempURL(e) ==
  IF e.type \in Media THEN Segment(e.type, "url", e.uri)
  ELSE IF e.type \in {"at", "reply"} THEN Segment(e.type, KeyOf[e.type], FormatInt[e.id])
  ELSE IF e.type = "text" THEN TextSegment(e.text)
  ELSE Segment("unknown", "text", <<"[", "unsupported", "]">>)

FromElement(e) ==
  IF e.type \in Media
    THEN Segment(e.type, "url", IF e.temp = <<>> THEN e.uri ELSE e.temp)
  ELSE IF e.type \in {"at", "reply"} THEN Segment(e.type, KeyOf[e.type], FormatInt[e.id])
  ELSE IF e.type = "text" THEN TextSegment(e.text)
  ELSE Segment("unknown", "text", <<"[", "unsupported", "]">>)

FromMilkySegments(elements) == [i \in DOMAIN elements |-> FromElement(elements[i])]

=============================================================================
