----------------------- MODULE MessageFormats_proofs -----------------------
(***************************************************************************)
(* What MessageFormats says of the conversions, for messages of any length *)
(* and any texts, elements and segment objects.                            *)
(***************************************************************************)
EXTENDS MessageFormats, CQCodec_proofs, FiniteSetTheorems

-----------------------------------------------------------------------------
(* What the composed messages are made of. *)
TypeOK ==
  /\ heard \in Seq(Elements)
  /\ said \in Seq(Objects)
  /\ typed \in Seq(Chunks)

(* Messages are put together of elements, objects and pieces of text.       *)
LEMMA TypeCorrect == Spec => []TypeOK
<1>1. Init => TypeOK
  BY DEF Init, TypeOK
<1>2. TypeOK /\ [Next]_vars => TypeOK'
  <2> SUFFICES ASSUME TypeOK, [Next]_vars PROVE TypeOK'
    OBVIOUS
  <2>1. ASSUME NEW e \in Elements, Hear(e) PROVE TypeOK'
    BY <2>1 DEF Hear, TypeOK
  <2>2. ASSUME NEW obj \in Objects, Say(obj) PROVE TypeOK'
    BY <2>2 DEF Say, TypeOK
  <2>3. ASSUME NEW chunk \in Chunks, Type(chunk) PROVE TypeOK'
    BY <2>3 DEF Type, TypeOK
  <2>4. CASE UNCHANGED vars
    BY <2>4 DEF vars, TypeOK
  <2> QED BY <2>1, <2>2, <2>3, <2>4 DEF Next
<1> QED BY <1>1, <1>2, PTL DEF Spec

-----------------------------------------------------------------------------
(* Segment objects. *)

Strings(obj) == [k \in DOMAIN obj.data |-> Sprint(obj.data[k])]

(* What is not a string is printed. *)
LEMMA StringsType ==
  ASSUME NEW obj \in Objects
  PROVE  /\ Strings(obj) \in Data
         /\ DOMAIN Strings(obj) = DOMAIN obj.data
         /\ \A k \in DOMAIN obj.data : Strings(obj)[k] = Sprint(obj.data[k])
<1>1. \A k \in DOMAIN obj.data : k \in Texts /\ obj.data[k] \in [str : Texts] \union [num : Nat]
  BY ObjectsAssumption, Zenon
<1>2. \A v \in [str : Texts] : Sprint(v) \in Texts
  BY DEF Sprint
<1>3. \A v \in [num : Nat] : Sprint(v) \in Texts
  <2>1. \A v \in [num : Nat] : Sprint(v) = SprintFloat(v.num) /\ v.num \in Nat
    BY DEF Sprint
  <2> QED BY <2>1, SprintFloatIs, Zenon
<1>4. \A k \in DOMAIN obj.data : Sprint(obj.data[k]) \in Texts
  BY <1>1, <1>2, <1>3, Zenon
<1>5. PICK D \in SUBSET Texts : D = DOMAIN obj.data
  BY <1>1
<1>6. Strings(obj) \in [D -> Texts]
  BY <1>4, <1>5 DEF Strings
<1>7. Strings(obj) \in Data
  BY <1>6, DataIs
<1> QED BY <1>7 DEF Strings

(* The entries of an unsupported object. *)
EntryOf(data) ==
  [k \in DOMAIN data |-> <<",">> \o k \o <<"=">> \o data[k]]

(* An entry is text. *)
LEMMA EntryOfType ==
  ASSUME NEW data \in Data, NEW k \in DOMAIN data
  PROVE  EntryOf(data)[k] \in Texts
<1>1. k \in Seq(Tokens) /\ data[k] \in Seq(Tokens)
  BY DataParts, Zenon DEF Texts
<1>2. "," \in Tokens /\ "=" \in Tokens
  BY KnownTokens DEF Specials
<1>3. PICK c \in Seq(Tokens) : c = <<",">>
  BY <1>2, OneType, Zenon
<1>4. PICK q \in Seq(Tokens) : q = <<"=">>
  BY <1>2, OneType, Zenon
<1>5. Cat(Cat(Cat(c, k), q), data[k]) \in Texts
  BY <1>1, CatType, Zenon DEF Texts
<1>6. EntryOf(data)[k] = <<",">> \o k \o <<"=">> \o data[k]
  BY DEF EntryOf
<1> QED BY <1>3, <1>4, <1>5, <1>6, Zenon DEF Cat

(* The members of a finite set, as a sequence. *)
LEMMA SetToSeqType ==
  ASSUME NEW S, IsFiniteSet(S)
  PROVE  SetToSeq(S) \in Seq(S) /\ Len(SetToSeq(S)) = Cardinality(S)
<1>1. PICK n \in Nat : n = Cardinality(S) /\ ExistsBijection(1..n, S)
  BY FS_CardinalityType
<1>2. PICK f \in [1..n -> S] : \A a, b \in 1..n : f[a] = f[b] => a = b
  BY <1>1 DEF ExistsBijection, Bijection, Injection, IsInjective, Surjection
<1>3. IsInjective(f)
  BY <1>2 DEF IsInjective
<1>4. SetToSeq(S) \in [1..n -> S]
  BY <1>1, <1>2, <1>3, Zenon DEF SetToSeq
<1> QED BY <1>1, <1>4, FunctionIsSeq, Zenon

(* An object is read as a segment of text or with a code. *)
LEMMA ObjectType ==
  ASSUME NEW obj \in Objects
  PROVE  ParseSegmentObject(obj) \in Segments
<1>1. PICK data \in Data : data = Strings(obj) /\ DOMAIN data = DOMAIN obj.data
  BY StringsType, Zenon
<1>2. CASE obj.type = "text"
  <2>1. ParseSegmentObject(obj) = TextSegment(Get(data, "text"))
    BY <1>1, <1>2, Zenon DEF ParseSegmentObject, Strings
  <2> QED BY <2>1, GetType, TextSegmentType, Zenon
<1>3. CASE obj.type # "text" /\ obj.type \in CQTypes
  <2>1. ParseSegmentObject(obj) = TypedSegment(obj.type, data)
    BY <1>1, <1>3, Zenon DEF ParseSegmentObject, Strings
  <2> QED BY <1>3, <2>1, TypedSegmentType, Zenon
<1>4. CASE obj.type # "text" /\ obj.type \notin CQTypes
  <2>1. PICK s \in Seq(DOMAIN data) : s = SetToSeq(DOMAIN data) /\ Len(s) = Cardinality(DOMAIN data)
    <3>1. IsFiniteSet(DOMAIN data)
      BY <1>1, ObjectsAssumption, Zenon
    <3> QED BY <3>1, SetToSeqType, Zenon
  <2>2. Mapping(EntryOf(data), DOMAIN data, Texts)
    BY EntryOfType, TextsMonoid, Zenon DEF Mapping
  <2>3. PICK m \in Texts : m = Mapped(EntryOf(data), s)
    BY <2>2, MappedType, Zenon
  <2>4. FlattenSeq([i \in 1..Cardinality(DOMAIN data) |->
             LET k == SetToSeq(DOMAIN data)[i] IN <<",">> \o k \o <<"=">> \o data[k]]) = m
    <3>1. DOMAIN s = 1..Cardinality(DOMAIN data) /\ \A i \in DOMAIN s : s[i] \in DOMAIN data
      BY <2>1, LenProperties
    <3>2. \A i \in DOMAIN s : EntryOf(data)[s[i]] = <<",">> \o s[i] \o <<"=">> \o data[s[i]]
      BY <3>1 DEF EntryOf
    <3>3. [i \in 1..Cardinality(DOMAIN data) |->
             LET k == SetToSeq(DOMAIN data)[i] IN <<",">> \o k \o <<"=">> \o data[k]] =
            Images(EntryOf(data), s)
      BY <2>1, <3>1, <3>2 DEF Images
    <3> QED BY <2>3, <3>3, Zenon DEF Mapped
  <2>5. PICK o \in Seq(Tokens) : o = <<"[", "CQ:", obj.type>>
    <3>1. obj.type \in Tokens /\ "[" \in Tokens /\ "CQ:" \in Tokens
      BY ObjectsAssumption, KnownTokens DEF Specials
    <3>2. <<"[", "CQ:", obj.type>> \in Seq(Tokens)
      BY <3>1
    <3> QED BY <3>2, Zenon
  <2>6. PICK c \in Seq(Tokens) : c = <<"]">>
    <3>1. "]" \in Tokens
      BY KnownTokens DEF Specials
    <3> QED BY <3>1, OneType, Zenon
  <2>7. Cat(Cat(o, m), c) \in Texts
    BY CatType, Zenon DEF Texts
  <2> DEFINE Entries(d) ==
               FlattenSeq([i \in 1..Cardinality(DOMAIN d) |->
                 LET k == SetToSeq(DOMAIN d)[i] IN <<",">> \o k \o <<"=">> \o d[k]])
  <2>8. ParseSegmentObject(obj) =
          TextSegment(<<"[", "CQ:", obj.type>> \o Entries(Strings(obj)) \o <<"]">>)
    BY <1>4, Zenon DEF ParseSegmentObject, Strings
  <2>9. Entries(data) = m
    BY <2>4, Zenon
  <2> HIDE DEF Entries
  <2>10. ParseSegmentObject(obj) = TextSegment(Cat(Cat(o, m), c))
    BY <1>1, <2>5, <2>6, <2>8, <2>9, Zenon DEF Cat
  <2> QED BY <2>7, <2>10, TextSegmentType, Zenon
<1> QED BY <1>2, <1>3, <1>4

-----------------------------------------------------------------------------
(* What Milky makes of segments. *)

(* Two segments that are the same to Milky. *)
Alike(s, t) ==
  /\ s.type = t.type
  /\ s.type \in Media => MediaURI(s.data) = MediaURI(t.data)
  /\ s.type \in {"at", "reply"} => Get(s.data, KeyOf[s.type]) = Get(t.data, KeyOf[t.type])
  /\ s.type = "text" => Get(s.data, "text") = Get(t.data, "text")

(* They are sent alike. *)
LEMMA AlikeSent ==
  ASSUME NEW s \in Segments, NEW t \in Segments, Alike(s, t)
  PROVE  (Sendable(s) <=> Sendable(t)) /\ ElementOf(s) = ElementOf(t)
<1>1. Sendable(s) <=> Sendable(t)
  BY Zenon DEF Alike, Sendable
<1>2. CASE s.type \in Media
  <2>1. MediaURI(s.data) = MediaURI(t.data) /\ s.type = t.type
    BY <1>2, Zenon DEF Alike
  <2>2. ElementOf(s) = <<[type |-> s.type, uri |-> MediaURI(s.data)]>>
    BY <1>2, Zenon DEF ElementOf
  <2>3. ElementOf(t) = <<[type |-> t.type, uri |-> MediaURI(t.data)]>>
    BY <1>2, <2>1, Zenon DEF ElementOf
  <2> QED BY <1>1, <2>1, <2>2, <2>3, Zenon
<1>3. CASE s.type \notin Media /\ s.type \in {"at", "reply"}
  <2>1. Get(s.data, KeyOf[s.type]) = Get(t.data, KeyOf[t.type]) /\ s.type = t.type
    BY <1>3, Zenon DEF Alike
  <2>2. PICK x : x = Get(s.data, KeyOf[s.type])
    BY Zenon
  <2>3. ElementOf(s) = <<[type |-> s.type, id |-> ParseInt(x)]>>
    BY <1>3, <2>2, Zenon DEF ElementOf
  <2>4. ElementOf(t) = <<[type |-> t.type, id |-> ParseInt(x)]>>
    BY <1>3, <2>1, <2>2, Zenon DEF ElementOf
  <2> QED BY <1>1, <2>1, <2>3, <2>4, Zenon
<1>4. CASE s.type \notin Media /\ s.type \notin {"at", "reply"} /\ s.type = "text"
  <2>1. Get(s.data, "text") = Get(t.data, "text") /\ s.type = t.type
    BY <1>4, Zenon DEF Alike
  <2> QED BY <1>1, <1>4, <2>1, Zenon DEF ElementOf
<1>5. CASE s.type \notin Media /\ s.type \notin {"at", "reply"} /\ s.type # "text"
  <2>1. s.type = t.type
    BY Zenon DEF Alike
  <2>2. s.type = "poke"
    BY <1>5, SegmentParts, TypesAndKeys DEF SegmentTypes
  <2> QED BY <1>1, <1>5, <2>1, <2>2, Zenon DEF ElementOf
<1> QED BY <1>1, <1>2, <1>3, <1>4, <1>5, Zenon

(* What ToMilkySegments can make of segments. *)
WithURI == {s \in Segments : s.type \in Media}
WithId == {s \in Segments : s.type \in {"at", "reply"}}
Sent ==
  {[type |-> s.type, uri |-> MediaURI(s.data)] : s \in WithURI} \union
  {[type |-> s.type, id |-> ParseInt(Get(s.data, KeyOf[s.type]))] : s \in WithId} \union
  {[type |-> "text", text |-> t] : t \in Texts}

(* What a reader sees of an element, character by character. *)
CharOf == [c \in Tokens |-> [char |-> c]]
CharsOf == [c \in Tokens |-> <<CharOf[c]>>]
SeenOf(e) == IF e.type = "text" THEN Mapped(CharsOf, e.text) ELSE <<e>>
Sights == Sent \union {CharOf[c] : c \in Tokens}

(* Nobody but the reader takes texts apart. *)
LEMMA CharsType ==
  /\ Mapping(CharsOf, Tokens, Seq(Sights))
  /\ \A t \in Texts : Mapped(CharsOf, t) = [j \in DOMAIN t |-> [char |-> t[j]]]
<1>1. \A c \in Tokens : CharsOf[c] = <<CharOf[c]>> /\ CharOf[c] = [char |-> c]
  BY DEF CharsOf, CharOf
<1>2. \A c \in Tokens : CharOf[c] \in Sights
  BY Zenon DEF Sights
<1>3. \A c \in Tokens : CharsOf[c] \in Seq(Sights)
  BY <1>1, <1>2, OneType, Zenon
<1>4. ASSUME NEW t \in Texts PROVE Mapped(CharsOf, t) = [j \in DOMAIN t |-> [char |-> t[j]]]
  <2>1. t \in Seq(Tokens)
    BY Zenon DEF Texts
  <2>2. Mapped(CharsOf, t) = Images(CharOf, t)
    BY <1>1, <2>1, Singles, Zenon
  <2>3. \A j \in DOMAIN t : t[j] \in Tokens
    BY TextLen
  <2>4. \A j \in DOMAIN t : CharOf[t[j]] = [char |-> t[j]]
    BY <1>1, <2>3, Zenon
  <2>5. Images(CharOf, t) = [j \in DOMAIN t |-> [char |-> t[j]]]
    BY <2>4 DEF Images
  <2> QED BY <2>2, <2>5, Zenon
<1> QED BY <1>3, <1>4, SeqMonoid, Zenon DEF Mapping

(* What is seen of some elements. *)
Sighted == [e \in Sent |-> SeenOf(e)]

(* A text element has a text. *)
LEMMA SentTexts == \A e \in Sent : e.type = "text" => e.text \in Texts
<1>1. \A s \in WithURI : s.type # "text"
  BY TypesAndKeys DEF WithURI
<1>2. \A s \in WithId : s.type # "text"
  BY DEF WithId
<1>3. \A s \in WithURI : [type |-> s.type, uri |-> MediaURI(s.data)].type # "text"
  BY <1>1
<1>4. \A s \in WithId :
        [type |-> s.type, id |-> ParseInt(Get(s.data, KeyOf[s.type]))].type # "text"
  BY <1>2
<1>5. \A t \in Texts : [type |-> "text", text |-> t].text \in Texts
  OBVIOUS
<1> QED BY <1>3, <1>4, <1>5, Zenon DEF Sent

(* Something, or the characters of a text. *)
LEMMA SightedType == Mapping(Sighted, Sent, Seq(Sights))
<1>1. ASSUME NEW e \in Sent PROVE Sighted[e] \in Seq(Sights)
  <2>1. CASE e.type = "text"
    <3>1. e.text \in Seq(Tokens)
      BY <2>1, SentTexts, Zenon DEF Texts
    <3>2. Mapped(CharsOf, e.text) \in Seq(Sights)
      BY <3>1, CharsType, MappedType, Zenon
    <3>3. Sighted[e] = Mapped(CharsOf, e.text)
      BY <2>1 DEF Sighted, SeenOf
    <3> QED BY <3>2, <3>3, Zenon
  <2>2. CASE e.type # "text"
    <3>1. e \in Sights
      BY Zenon DEF Sights
    <3>2. Sighted[e] = <<e>>
      BY <2>2 DEF Sighted, SeenOf
    <3> QED BY <3>1, <3>2, OneType, Zenon
  <2> QED BY <2>1, <2>2
<1> QED BY <1>1, SeqMonoid, Zenon DEF Mapping

(* What a segment is sent as. *)
LEMMA ElementOfIs ==
  ASSUME NEW s \in Segments
  PROVE  \/ /\ s.type \in Media
            /\ ElementOf(s) = <<[type |-> s.type, uri |-> MediaURI(s.data)]>>
         \/ /\ s.type \in {"at", "reply"}
            /\ ElementOf(s) = <<[type |-> s.type, id |-> ParseInt(Get(s.data, KeyOf[s.type]))]>>
         \/ /\ s.type = "text"
            /\ ElementOf(s) = <<[type |-> "text", text |-> Get(s.data, "text")]>>
         \/ /\ s.type = "poke"
            /\ ElementOf(s) = <<>>
<1>1. s.type \in {"image", "record", "at", "poke", "reply", "text"}
  BY SegmentParts, TypesAndKeys DEF SegmentTypes
<1>2. CASE s.type \in Media
  BY <1>2, Zenon DEF ElementOf
<1>3. CASE s.type \in {"at", "reply"}
  <2>1. s.type \notin Media
    BY <1>3, TypesAndKeys
  <2> QED BY <1>3, <2>1, Zenon DEF ElementOf
<1>4. CASE s.type = "text"
  <2>1. s.type \notin Media /\ s.type \notin {"at", "reply"}
    BY <1>4, TypesAndKeys
  <2> QED BY <1>4, <2>1, Zenon DEF ElementOf
<1>5. CASE s.type = "poke"
  <2>1. s.type \notin Media /\ s.type \notin {"at", "reply"} /\ s.type # "text"
    BY <1>5, TypesAndKeys
  <2> QED BY <1>5, <2>1, Zenon DEF ElementOf
<1> QED BY <1>1, <1>2, <1>3, <1>4, <1>5, TypesAndKeys

(* A segment is sent as elements. *)
LEMMA ElementOfType ==
  ASSUME NEW s \in Segments
  PROVE  ElementOf(s) \in Seq(Sent)
<1>1. CASE s.type \in Media /\ ElementOf(s) = <<[type |-> s.type, uri |-> MediaURI(s.data)]>>
  <2>1. [type |-> s.type, uri |-> MediaURI(s.data)] \in Sent
    BY <1>1, Zenon DEF Sent, WithURI
  <2> QED BY <1>1, <2>1, OneType, Zenon
<1>2. CASE /\ s.type \in {"at", "reply"}
           /\ ElementOf(s) = <<[type |-> s.type, id |-> ParseInt(Get(s.data, KeyOf[s.type]))]>>
  <2>1. [type |-> s.type, id |-> ParseInt(Get(s.data, KeyOf[s.type]))] \in Sent
    BY <1>2, Zenon DEF Sent, WithId
  <2> QED BY <1>2, <2>1, OneType, Zenon
<1>3. CASE s.type = "text" /\ ElementOf(s) = <<[type |-> "text", text |-> Get(s.data, "text")]>>
  <2>1. Get(s.data, "text") \in Texts
    BY SegmentParts, GetType, Zenon
  <2>2. [type |-> "text", text |-> Get(s.data, "text")] \in Sent
    BY <2>1, Zenon DEF Sent
  <2> QED BY <1>3, <2>2, OneType, Zenon
<1>4. CASE ElementOf(s) = <<>>
  BY <1>4, EmptySeq, Zenon
<1> QED BY <1>1, <1>2, <1>3, <1>4, ElementOfIs, Zenon

(* What is seen of some elements, one after the other. *)
LEMMA SeenIs ==
  ASSUME NEW elements \in Seq(Sent)
  PROVE  Seen(elements) = Mapped(Sighted, elements)
<1>1. DOMAIN elements = 1..Len(elements) /\ \A i \in DOMAIN elements : elements[i] \in Sent
  BY LenProperties
<1>2. ASSUME NEW e \in Sent
      PROVE  Sighted[e] = IF e.type = "text"
                            THEN [j \in DOMAIN e.text |-> [char |-> e.text[j]]] ELSE <<e>>
  <2>1. CASE e.type = "text"
    <3>1. e.text \in Texts
      BY <2>1, SentTexts, Zenon
    <3>2. Sighted[e] = Mapped(CharsOf, e.text)
      BY <2>1 DEF Sighted, SeenOf
    <3> QED BY <2>1, <3>1, <3>2, CharsType, Zenon
  <2>2. CASE e.type # "text"
    BY <2>2 DEF Sighted, SeenOf
  <2> QED BY <2>1, <2>2
<1>3. \A i \in DOMAIN elements :
        Sighted[elements[i]] =
          IF elements[i].type = "text"
            THEN [j \in DOMAIN elements[i].text |-> [char |-> elements[i].text[j]]]
            ELSE <<elements[i]>>
  BY <1>1, <1>2, Zenon
<1>4. Seen(elements) = FlattenSeq([i \in DOMAIN elements |-> Sighted[elements[i]]])
  BY <1>3 DEF Seen
<1> QED BY <1>4, Zenon DEF Mapped, Images

(* The two views of segments: what they are seen as, and a mark for each    *)
(* that cannot be sent.                                                    *)
Sight == [s \in Segments |-> Mapped(Sighted, ElementOf(s))]
Marks == {"refused"}
Refusal == [s \in Segments |-> IF Sendable(s) THEN <<>> ELSE <<"refused">>]

(* What they are. *)
LEMMA ViewsType ==
  /\ Mapping(Sight, Segments, Seq(Sights))
  /\ Mapping(Refusal, Segments, Seq(Marks))
<1>1. ASSUME NEW s \in Segments PROVE Sight[s] \in Seq(Sights)
  <2>1. Mapped(Sighted, ElementOf(s)) \in Seq(Sights)
    BY ElementOfType, SightedType, MappedType, Zenon
  <2>2. Sight[s] = Mapped(Sighted, ElementOf(s))
    BY DEF Sight
  <2> QED BY <2>1, <2>2, Zenon
<1>2. \A s \in Segments : Refusal[s] \in Seq(Marks)
  <2>1. <<>> \in Seq(Marks) /\ <<"refused">> \in Seq(Marks)
    BY DEF Marks
  <2>2. \A s \in Segments : Refusal[s] = <<>> \/ Refusal[s] = <<"refused">>
    BY DEF Refusal
  <2> QED BY <2>1, <2>2, Zenon
<1> QED BY <1>1, <1>2, SeqMonoid, Zenon DEF Mapping

(* Segments are all sent if there is no mark. *)
LEMMA AllSent ==
  ASSUME NEW segments \in Seq(Segments)
  PROVE  (\A i \in DOMAIN segments : Sendable(segments[i])) <=> Mapped(Refusal, segments) = <<>>
<1> DEFINE All(t) == \A i \in 1..Len(t) : Sendable(t[i])
           P == {t \in Seq(Segments) : All(t) <=> Mapped(Refusal, t) = <<>>}
<1>1. <<>> \in P
  <2>1. <<>> \in Seq(Segments) /\ All(<<>>)
    OBVIOUS
  <2> HIDE DEF All
  <2> QED BY <2>1, MappedEmpty, Zenon
<1>2. ASSUME NEW t \in Seq(Segments), NEW s \in Segments, t \in P PROVE Cat(t, <<s>>) \in P
  <2>1. PICK one \in Seq(Segments) : one = <<s>> /\ Len(one) = 1 /\ one[1] = s
    BY OneType, Zenon
  <2>2. PICK u \in Seq(Segments) : u = Cat(t, one)
    BY CatType, Zenon
  <2>3. PICK n \in Nat : n = Len(t)
    BY LenProperties, Zenon
  <2>4. Len(u) = n + 1
    BY <2>1, <2>2, <2>3, CatLen
  <2>5. \A i \in 1..n : u[i] = t[i]
    BY <2>2, <2>3, CatLeft
  <2>6. u[n + 1] = s
    <3>1. \A i \in 1..Len(one) : Cat(t, one)[Len(t) + i] = one[i]
      BY CatRight
    <3>2. 1 \in 1..Len(one)
      BY <2>1
    <3> QED BY <2>1, <2>2, <2>3, <3>1, <3>2, Zenon
  <2>7. All(u) <=> All(t) /\ Sendable(s)
    <3>1. \A i \in 1..(n + 1) : i \in 1..n \/ i = n + 1
      OBVIOUS
    <3>2. \A i \in 1..n : i \in 1..(n + 1)
      OBVIOUS
    <3>3. n + 1 \in 1..(n + 1)
      OBVIOUS
    <3> QED BY <2>3, <2>4, <2>5, <2>6, <3>1, <3>2, <3>3, Zenon
  <2>8. PICK a \in Seq(Marks) : a = Mapped(Refusal, t)
    BY ViewsType, MappedType, Zenon
  <2>9. Mapped(Refusal, Cat(t, <<s>>)) = Cat(Mapped(Refusal, t), Refusal[s])
    BY ViewsType, MappedLast
  <2>10. Mapped(Refusal, u) = <<>> <=> a = <<>> /\ Sendable(s)
    <3>1. CASE Sendable(s)
      <4>1. Refusal[s] = <<>>
        BY <3>1 DEF Refusal
      <4>2. Cat(a, <<>>) = a
        BY CatEmpty, Zenon
      <4> QED BY <2>1, <2>2, <2>8, <2>9, <3>1, <4>1, <4>2, Zenon
    <3>2. CASE ~Sendable(s)
      <4>1. Refusal[s] = <<"refused">>
        BY <3>2 DEF Refusal
      <4>2. PICK mark \in Seq(Marks) : mark = <<"refused">> /\ Len(mark) = 1
        BY OneType DEF Marks
      <4>3. Len(Cat(a, mark)) = Len(a) + Len(mark)
        BY CatLen
      <4>4. Len(a) \in Nat
        OBVIOUS
      <4>5. Len(Cat(a, mark)) # 0
        BY <4>2, <4>3, <4>4
      <4>6. Len(<<>>) = 0
        OBVIOUS
      <4> QED BY <2>1, <2>2, <2>8, <2>9, <3>2, <4>1, <4>2, <4>5, <4>6, Zenon
    <3> QED BY <3>1, <3>2
  <2> HIDE DEF All
  <2>11. All(t) <=> Mapped(Refusal, t) = <<>>
    BY <1>2, Zenon
  <2>12. All(u) <=> Mapped(Refusal, u) = <<>>
    BY <2>7, <2>8, <2>10, <2>11, Zenon
  <2> QED BY <2>1, <2>2, <2>12, Zenon
<1> HIDE DEF P
<1>3. segments \in P
  BY <1>1, <1>2, InductionLast, Zenon
<1>4. DOMAIN segments = 1..Len(segments)
  BY LenProperties
<1> QED BY <1>3, <1>4, Zenon DEF P

(* What Milky makes of segments. *)
Understood(segments) ==
  IF Mapped(Refusal, segments) = <<>>
    THEN [ok |-> TRUE, elements |-> Mapped(Sight, segments)] ELSE Refused

Read(message, autoEscape, segments) ==
  ParseOneBotMessage(message, autoEscape) = [ok |-> TRUE, segments |-> segments]

(* What it makes of a message that is read as these segments. *)
LEMMA MeaningIs ==
  ASSUME NEW message, NEW autoEscape, NEW segments \in Seq(Segments),
         Read(message, autoEscape, segments)
  PROVE  Meaning(message, autoEscape) = Understood(segments)
<1>1. PICK parsed : parsed = ParseOneBotMessage(message, autoEscape)
  BY Zenon
<1>2. parsed.ok = TRUE /\ parsed.segments = segments
  <2>1. parsed = [ok |-> TRUE, segments |-> segments]
    BY <1>1, Zenon DEF Read
  <2> QED BY <2>1
<1>3. PICK sent : sent = ToMilkySegments(segments)
  BY Zenon
<1>4. Meaning(message, autoEscape) =
        IF sent.ok THEN [ok |-> TRUE, elements |-> Seen(sent.elements)] ELSE Refused
  BY <1>1, <1>2, <1>3, Zenon DEF Meaning
<1>5. CASE Mapped(Refusal, segments) = <<>>
  <2>1. \A i \in DOMAIN segments : Sendable(segments[i])
    BY <1>5, AllSent, Zenon
  <2>2. sent = [ok |-> TRUE,
                elements |-> FlattenSeq([i \in DOMAIN segments |-> ElementOf(segments[i])])]
    BY <1>3, <2>1, Zenon DEF ToMilkySegments
  <2>3. PICK elementOf : elementOf = [s \in Segments |-> ElementOf(s)]
    BY Zenon
  <2>4. \A s \in Segments : elementOf[s] = ElementOf(s)
    BY <2>3
  <2>5. sent.ok = TRUE /\ sent.elements = Mapped(elementOf, segments)
    <3>1. \A i \in DOMAIN segments : elementOf[segments[i]] = ElementOf(segments[i])
      BY <2>4, LenProperties
    <3>2. [i \in DOMAIN segments |-> ElementOf(segments[i])] = Images(elementOf, segments)
      BY <3>1 DEF Images
    <3>3. FlattenSeq([i \in DOMAIN segments |-> ElementOf(segments[i])]) =
            Mapped(elementOf, segments)
      BY <3>2, Zenon DEF Mapped
    <3> QED BY <2>2, <3>3
  <2>6. Mapping(elementOf, Segments, Seq(Sent))
    BY <2>4, ElementOfType, SeqMonoid, Zenon DEF Mapping
  <2>7. Seen(sent.elements) = Mapped(Sighted, Mapped(elementOf, segments))
    BY <2>5, <2>6, MappedType, SeenIs, Zenon
  <2>8. \A s \in Segments : Sight[s] = Mapped(Sighted, elementOf[s])
    BY <2>4 DEF Sight
  <2>9. Mapped(Sighted, Mapped(elementOf, segments)) = Mapped(Sight, segments)
    BY <2>6, <2>8, SightedType, MappedTwice
  <2> QED BY <1>4, <1>5, <2>5, <2>7, <2>9, Zenon DEF Understood
<1>6. CASE Mapped(Refusal, segments) # <<>>
  <2>1. ~\A i \in DOMAIN segments : Sendable(segments[i])
    BY <1>6, AllSent, Zenon
  <2>2. sent = [ok |-> FALSE, elements |-> <<>>]
    BY <1>3, <2>1, Zenon DEF ToMilkySegments
  <2>3. sent.ok = FALSE
    BY <2>2
  <2> QED BY <1>4, <1>6, <2>3, Zenon DEF Understood
<1> QED BY <1>5, <1>6, Zenon

(* How messages are read. *)
LEMMA MessagesRead ==
  /\ \A t : Read(String(t), FALSE, ParseCQMessage(t))
  /\ \A t : Read(String(t), TRUE, <<TextSegment(t)>>)
  /\ \A s : Read(Array(s), FALSE, [i \in DOMAIN s |-> ParseSegmentObject(s[i])])
  /\ \A s : Read([format |-> "object", body |-> s], FALSE, <<ParseSegmentObject(s)>>)
<1>1. \A t : Read(String(t), FALSE, ParseCQMessage(t))
  BY DEF Read, String, ParseOneBotMessage
<1>2. \A t : Read(String(t), TRUE, <<TextSegment(t)>>)
  BY DEF Read, String, ParseOneBotMessage
<1>3. \A s : Read(Array(s), FALSE, [i \in DOMAIN s |-> ParseSegmentObject(s[i])])
  BY DEF Read, Array, ParseOneBotMessage
<1>4. \A s : Read([format |-> "object", body |-> s], FALSE, <<ParseSegmentObject(s)>>)
  BY DEF Read, ParseOneBotMessage
<1> QED BY <1>1, <1>2, <1>3, <1>4

(* What is seen of a text, and that it is sent. *)
LEMMA TextViews ==
  ASSUME NEW t \in Texts
  PROVE  Sight[TextSegment(t)] = Mapped(CharsOf, t) /\ Refusal[TextSegment(t)] = <<>>
<1>1. PICK s \in Segments : s = TextSegment(t) /\ s.type = "text" /\ Get(s.data, "text") = t
  BY TextSegmentType, Zenon
<1>2. s.type \notin Media /\ s.type \notin {"at", "reply"}
  BY <1>1, TypesAndKeys
<1>3. ElementOf(s) = <<[type |-> "text", text |-> t]>>
  BY <1>1, <1>2, Zenon DEF ElementOf
<1>4. PICK e : e = [type |-> "text", text |-> t]
  BY Zenon
<1>5. e \in Sent
  BY <1>4, Zenon DEF Sent
<1>6. Mapped(Sighted, <<e>>) = Sighted[e]
  BY <1>5, SightedType, MappedOne, Zenon
<1>7. Sighted[e] = Mapped(CharsOf, t)
  BY <1>4, <1>5 DEF Sighted, SeenOf
<1>8. Sight[s] = Mapped(Sighted, ElementOf(s))
  BY DEF Sight
<1>9. Sendable(s)
  BY <1>2, Zenon DEF Sendable
<1>10. Refusal[s] = <<>>
  BY <1>9 DEF Refusal
<1> QED BY <1>1, <1>3, <1>4, <1>6, <1>7, <1>8, <1>10, Zenon

(* Neither view tells where a text is cut in two. *)
LEMMA Views == View(Sight, Seq(Sights)) /\ View(Refusal, Seq(Marks))
<1>1. <<>> \in Texts
  BY DEF Texts
<1>2. Sight[TextSegment(<<>>)] = <<>> /\ Refusal[TextSegment(<<>>)] = <<>>
  BY <1>1, TextViews, MappedEmpty, Zenon
<1>3. ASSUME NEW a \in Texts, NEW b \in Texts
      PROVE  /\ Sight[TextSegment(Cat(a, b))] = Cat(Sight[TextSegment(a)], Sight[TextSegment(b)])
             /\ Refusal[TextSegment(Cat(a, b))] =
                  Cat(Refusal[TextSegment(a)], Refusal[TextSegment(b)])
  <2>1. a \in Seq(Tokens) /\ b \in Seq(Tokens)
    BY Zenon DEF Texts
  <2>2. Cat(a, b) \in Texts
    BY <2>1, CatType, Zenon DEF Texts
  <2>3. Mapped(CharsOf, Cat(a, b)) = Cat(Mapped(CharsOf, a), Mapped(CharsOf, b))
    BY <2>1, CharsType, MappedCat
  <2>4. Cat(<<>>, <<>>) = <<>>
    <3>1. <<>> \in Seq({})
      OBVIOUS
    <3> QED BY <3>1, CatEmpty, Zenon
  <2>5. Sight[TextSegment(Cat(a, b))] = Cat(Sight[TextSegment(a)], Sight[TextSegment(b)])
    BY <2>2, <2>3, TextViews, Zenon
  <2>6. /\ Refusal[TextSegment(Cat(a, b))] = <<>>
        /\ Refusal[TextSegment(a)] = <<>> /\ Refusal[TextSegment(b)] = <<>>
    BY <2>2, TextViews, Zenon
  <2> QED BY <2>4, <2>5, <2>6, Zenon
<1> QED BY <1>2, <1>3, ViewsType, Zenon DEF View

(* Segments that are the same to Milky are seen and refused alike. *)
LEMMA AlikeSeen ==
  ASSUME NEW s \in Segments, NEW t \in Segments, Alike(s, t)
  PROVE  Sight[s] = Sight[t] /\ Refusal[s] = Refusal[t]
<1>1. (Sendable(s) <=> Sendable(t)) /\ ElementOf(s) = ElementOf(t)
  BY AlikeSent, Zenon
<1>2. Sight[s] = Mapped(Sighted, ElementOf(s)) /\ Sight[t] = Mapped(Sighted, ElementOf(t))
  BY DEF Sight
<1>3. Refusal[s] = Refusal[t]
  BY <1>1 DEF Refusal
<1> QED BY <1>1, <1>2, <1>3, Zenon

-----------------------------------------------------------------------------
(* Texts. *)

(* Pieces of text are a text. *)
LEMMA TextType ==
  ASSUME TypeOK
  PROVE  Text \in Texts
<1>1. typed \in Seq(Texts)
  BY ChunksAssumption DEF TypeOK
<1> QED BY <1>1, FlattenType, TextsMonoid, Zenon DEF Text

(* A text that is escaped means what it means with auto_escape. *)
LEMMA EscapedMeaning ==
  ASSUME NEW t \in Texts
  PROVE  Meaning(String(EscapeCQText(t)), FALSE) = Meaning(String(t), TRUE)
<1>1. PICK u \in Texts : u = Escape(TextSpecials, t) /\ \A i \in 1..Len(u) : u[i] # "["
  BY ReadText, Zenon
<1>2. EscapeCQText(t) = u
  BY <1>1, EscapeTextIs, Zenon
<1>3. ParseCQMessage(u) = PlainText(u)
  BY <1>1, ParseText
<1>4. PICK s \in Segments : s = TextSegment(t)
  BY TextSegmentType, Zenon
<1>5. PICK r \in Seq(Segments) : r = PlainText(u)
  BY <1>1, ViewOfText, Views, Zenon
<1>6. PICK one \in Seq(Segments) : one = <<s>>
  BY OneType, Zenon
<1>7. Mapped(Sight, r) = Sight[s]
  BY <1>1, <1>4, <1>5, ViewOfText, Views, Zenon
<1>8. Mapped(Refusal, r) = Refusal[s]
  BY <1>1, <1>4, <1>5, ViewOfText, Views, Zenon
<1>9. Mapped(Sight, one) = Sight[s] /\ Mapped(Refusal, one) = Refusal[s]
  <2>1. Mapped(Sight, <<s>>) = Sight[s]
    BY ViewsType, MappedOne
  <2>2. Mapped(Refusal, <<s>>) = Refusal[s]
    BY ViewsType, MappedOne
  <2> QED BY <1>6, <2>1, <2>2, Zenon
<1>10. Read(String(u), FALSE, r) /\ Read(String(t), TRUE, one)
  BY <1>3, <1>4, <1>5, <1>6, MessagesRead, Zenon
<1>11. Mapped(Sight, r) = Mapped(Sight, one) /\ Mapped(Refusal, r) = Mapped(Refusal, one)
  BY <1>7, <1>8, <1>9, Zenon
<1>12. Meaning(String(u), FALSE) = Meaning(String(t), TRUE)
  <2>1. Meaning(String(u), FALSE) = Understood(r)
    BY <1>10, MeaningIs
  <2>2. Meaning(String(t), TRUE) = Understood(one)
    BY <1>10, MeaningIs, Zenon
  <2>3. Understood(r) = Understood(one)
    BY <1>11, Zenon DEF Understood
  <2> QED BY <2>1, <2>2, <2>3, Zenon
<1> QED BY <1>2, <1>12, Zenon

(* A value is read back from the code that it was written into. *)
LEMMA ValueRead ==
  ASSUME NEW t \in Texts
  PROVE  ParseCQMessage(CQCode("reply", "id", t)) = <<Segment("reply", "id", t)>>
<1>1. "reply" \in CQTypes /\ KeyOf["reply"] = "id" /\ "reply" \notin Media
  BY TypesAndKeys
<1>2. PICK code : code = CQCode("reply", "id", t)
  BY Zenon
<1>3. <<>> \in Texts /\ \A i \in 1..Len(<<>>) : <<>>[i] # "["
  BY DEF Texts
<1>4. PICK s : s = TypedSegment("reply", Entry("id", t))
  BY Zenon
<1>5. s = Segment("reply", "id", t)
  <2>1. Get(Entry("id", t), "id") = t
    BY DEF Get, Entry
  <2>2. s = Segment("reply", "id", Get(Entry("id", t), "id"))
    BY <1>1, <1>4 DEF TypedSegment
  <2> QED BY <2>1, <2>2, Zenon
<1>6. /\ code \in Texts
      /\ ParseCQMessage(Cat(<<>>, Cat(code, <<>>))) =
           Cat(Cat(PlainText(<<>>), <<s>>), ParseCQMessage(<<>>))
  <2>1. "id" \in {"file", "qq", "id"}
    OBVIOUS
  <2> QED BY <1>1, <1>2, <1>3, <1>4, <2>1, ReadCode
<1>7. Cat(<<>>, Cat(code, <<>>)) = code
  <2>1. code \in Seq(Tokens)
    BY <1>6, Zenon DEF Texts
  <2> QED BY <2>1, CatEmpty, Zenon
<1>8. Cat(Cat(<<>>, <<s>>), <<>>) = <<s>>
  <2>1. <<s>> \in Seq({s})
    BY OneType, Zenon
  <2> QED BY <2>1, CatEmpty, Zenon
<1>9. PlainText(<<>>) = <<>>
  BY Zenon DEF PlainText
<1> QED BY <1>2, <1>5, <1>6, <1>7, <1>8, <1>9, ParseEmpty, Zenon

(* EscapedTextIsText: whatever is typed, escaped by the bridge as a text or *)
(* as the value of a code, is read as what was typed.                      *)
THEOREM EscapedTextIsTextAlways == Spec => []EscapedTextIsText
<1>1. TypeOK => EscapedTextIsText
  BY TextType, EscapedMeaning, ValueRead, Zenon DEF EscapedTextIsText
<1> QED BY <1>1, TypeCorrect, PTL

-----------------------------------------------------------------------------
(* Strings. *)

(* The entry of a code. *)
CodeKey(s) == IF s.type \in Media THEN "file" ELSE KeyOf[s.type]
CodeValue(s) ==
  IF s.type \in Media
    THEN IF Get(s.data, "file") = <<>> THEN Get(s.data, "url") ELSE Get(s.data, "file")
    ELSE Get(s.data, KeyOf[s.type])

(* What is written for a segment, and what is read of it. *)
Written(s) ==
  IF s.type \in CQTypes THEN CQCode(s.type, CodeKey(s), CodeValue(s))
  ELSE EscapeCQText(Get(s.data, "text"))

ReadBack(s) ==
  IF s.type \in CQTypes THEN TypedSegment(s.type, Entry(CodeKey(s), CodeValue(s)))
  ELSE TextSegment(Get(s.data, "text"))

(* The keys of codes are different, and their values are texts. *)
LEMMA CodeType ==
  ASSUME NEW s, s.data \in Data, s.type \in CQTypes
  PROVE  CodeKey(s) \in {"file", "qq", "id"} /\ CodeValue(s) \in Texts
<1>1. CodeKey(s) \in {"file", "qq", "id"}
  BY TypesAndKeys DEF CodeKey
<1>2. \A key : Get(s.data, key) \in Texts
  BY GetType
<1>3. CodeValue(s) \in Texts
  BY <1>2, Zenon DEF CodeValue
<1> QED BY <1>1, <1>3

(* It is a code or an escaped text. *)
LEMMA WrittenIs ==
  ASSUME NEW s, s.data \in Data
  PROVE  \/ \E y \in Texts : Written(s) = Escape(TextSpecials, y) /\ ReadBack(s) = TextSegment(y)
         \/ \E type \in CQTypes, key \in {"file", "qq", "id"}, v \in Texts :
              /\ Written(s) = CQCode(type, key, v)
              /\ ReadBack(s) = TypedSegment(type, Entry(key, v))
<1>1. CASE s.type \in CQTypes
  <2>1. /\ Written(s) = CQCode(s.type, CodeKey(s), CodeValue(s))
        /\ ReadBack(s) = TypedSegment(s.type, Entry(CodeKey(s), CodeValue(s)))
    BY <1>1, Zenon DEF Written, ReadBack
  <2> QED BY <1>1, <2>1, CodeType, Zenon
<1>2. CASE s.type \notin CQTypes
  <2>1. PICK y \in Texts : y = Get(s.data, "text")
    BY GetType, Zenon
  <2>2. Written(s) = Escape(TextSpecials, y) /\ ReadBack(s) = TextSegment(y)
    BY <1>2, <2>1, EscapeTextIs, Zenon DEF Written, ReadBack
  <2> QED BY <2>2, Zenon
<1> QED BY <1>1, <1>2

(* BuildCString writes one segment after the other. *)
LEMMA BuildIs ==
  ASSUME NEW segments
  PROVE  BuildCString(segments) =
           FlattenSeq([i \in DOMAIN segments |-> Written(segments[i])])
<1>1. \A s : Written(s) =
        IF s.type \in Media
          THEN CQCode(s.type, "file", IF Get(s.data, "file") = <<>>
                                        THEN Get(s.data, "url") ELSE Get(s.data, "file"))
        ELSE IF s.type \in DOMAIN KeyOf
          THEN CQCode(s.type, KeyOf[s.type], Get(s.data, KeyOf[s.type]))
        ELSE EscapeCQText(Get(s.data, "text"))
  BY Zenon DEF Written, CodeKey, CodeValue, CQTypes
<1> QED BY <1>1 DEF BuildCString

(* The segments of a string whose data are entries again. *)
OneAddress(s) ==
  s.type \in Media => Get(s.data, "file") \in {<<>>, Get(s.data, "url")}

(* A segment is read back as one that is the same to Milky. *)
LEMMA ReadBackAlike ==
  ASSUME NEW s \in Segments, OneAddress(s)
  PROVE  ReadBack(s) \in Segments /\ Alike(ReadBack(s), s)
<1>1. s.data \in Data /\ s.type \in SegmentTypes
  BY SegmentParts, Zenon
<1>2. CASE s.type \in CQTypes
  <2>1. PICK key \in {"file", "qq", "id"}, v \in Texts : key = CodeKey(s) /\ v = CodeValue(s)
    BY <1>1, <1>2, CodeType, Zenon
  <2>2. PICK t : t = TypedSegment(s.type, Entry(key, v))
    BY Zenon
  <2>3. ReadBack(s) = t
    BY <1>2, <2>1, <2>2, Zenon DEF ReadBack
  <2>4. t \in Segments /\ t.type = s.type
    BY <1>2, <2>2, EntryType, TypedSegmentType, Zenon
  <2>5. Get(Entry(key, v), key) = v
    BY DEF Get, Entry
  <2>6. CASE s.type \in Media
    <3>1. key = "file"
      BY <2>1, <2>6, Zenon DEF CodeKey
    <3>2. t = [type |-> s.type, data |-> NormalizeMediaData(Entry(key, v))]
      BY <2>2, <2>6, Zenon DEF TypedSegment
    <3>3. t.data = NormalizeMediaData(Entry(key, v))
      BY <3>2
    <3>4. Get(Entry(key, v), "url") = <<>>
      <4>1. Token("url") # Token("file")
        BY Keys
      <4> QED BY <3>1, <4>1 DEF Get, Entry
    <3>5. Entry(key, v) \in Data
      BY EntryType
    <3>6. Get(t.data, "file") = v /\ Get(t.data, "url") = v
      BY <2>5, <3>1, <3>3, <3>4, <3>5, MediaEntries, Zenon
    <3>7. MediaURI(t.data) = v
      BY <3>6, Zenon DEF MediaURI
    <3>8. MediaURI(s.data) = v
      <4>1. Get(s.data, "file") = <<>> \/ Get(s.data, "file") = Get(s.data, "url")
        BY <2>6 DEF OneAddress
      <4>2. v = IF Get(s.data, "file") = <<>> THEN Get(s.data, "url") ELSE Get(s.data, "file")
        BY <2>1, <2>6, Zenon DEF CodeValue
      <4> QED BY <4>1, <4>2, Zenon DEF MediaURI
    <3>9. s.type \notin {"at", "reply"} /\ s.type # "text"
      BY <2>6, TypesAndKeys
    <3> QED BY <2>3, <2>4, <3>7, <3>8, <3>9, Zenon DEF Alike
  <2>7. CASE s.type \notin Media
    <3>1. key = KeyOf[s.type] /\ v = Get(s.data, KeyOf[s.type])
      BY <2>1, <2>7, Zenon DEF CodeKey, CodeValue
    <3>2. t = Segment(s.type, KeyOf[s.type], Get(Entry(key, v), KeyOf[s.type]))
      BY <2>2, <2>7, Zenon DEF TypedSegment
    <3>3. t = Segment(s.type, key, v)
      BY <2>5, <3>1, <3>2, Zenon
    <3>4. Get(t.data, key) = v
      BY <1>1, <3>3, OneEntry
    <3>5. s.type # "text"
      BY <1>2, TypesAndKeys
    <3> QED BY <2>3, <2>4, <2>7, <3>1, <3>4, <3>5, Zenon DEF Alike
  <2> QED BY <2>6, <2>7
<1>3. CASE s.type \notin CQTypes
  <2>1. s.type = "text"
    BY <1>1, <1>3 DEF SegmentTypes
  <2>2. Get(s.data, "text") \in Texts
    BY <1>1, GetType
  <2>3. ReadBack(s) = TextSegment(Get(s.data, "text"))
    BY <1>3, Zenon DEF ReadBack
  <2>4. /\ ReadBack(s) \in Segments /\ ReadBack(s).type = "text"
        /\ Get(ReadBack(s).data, "text") = Get(s.data, "text")
    BY <2>2, <2>3, TextSegmentType, Zenon
  <2>5. s.type \notin Media /\ s.type \notin {"at", "reply"}
    BY <2>1, TypesAndKeys
  <2> QED BY <2>1, <2>4, <2>5, Zenon DEF Alike
<1> QED BY <1>2, <1>3

(* What is written and read back, for anything that has segments.           *)
LEMMA WrittenRead ==
  ASSUME NEW S, NEW seg, \A x \in S : seg[x].data \in Data,
         NEW w, \A x \in S : w[x] = Written(seg[x]),
         NEW V, NEW h, View(h, V), NEW k, \A x \in S : k[x] = h[ReadBack(seg[x])],
         NEW s \in Seq(S)
  PROVE  /\ Mapped(w, s) \in Texts
         /\ Mapped(h, ParseCQMessage(Mapped(w, s))) = Mapped(k, s)
<1>1. PICK c : c = [x \in S |-> ReadBack(seg[x])]
  BY Zenon
<1>2. \A x \in S : c[x] = ReadBack(seg[x])
  BY <1>1
<1>3. Writes(S, w, c)
  <2>1. ASSUME NEW x \in S
        PROVE  \/ \E y \in Texts : w[x] = Escape(TextSpecials, y) /\ c[x] = TextSegment(y)
               \/ \E type \in CQTypes, key \in {"file", "qq", "id"}, v \in Texts :
                    w[x] = CQCode(type, key, v) /\ c[x] = TypedSegment(type, Entry(key, v))
    <3>1. PICK r : r = seg[x]
      BY Zenon
    <3>2. r.data \in Data
      BY <3>1, Zenon
    <3>3. w[x] = Written(r) /\ c[x] = ReadBack(r)
      BY <1>2, <3>1, Zenon
    <3> QED BY <3>2, <3>3, WrittenIs, Zenon
  <2> QED BY <2>1, Zenon DEF Writes
<1>4. \A x \in S : k[x] = h[c[x]]
  BY <1>2, Zenon
<1>5. Mapping(w, S, Texts)
  BY <1>3, WritesType, TextsMonoid, Zenon DEF Mapping
<1>6. Mapped(w, s) \in Texts
  BY <1>5, MappedType, Zenon
<1>7. Mapped(h, ParseCQMessage(Mapped(w, s))) = Mapped(k, s)
  BY <1>3, <1>4, ReadWrittenOnly
<1> QED BY <1>6, <1>7

Single == {s \in Segments : OneAddress(s)}

(* A string of segments means what they mean. *)
LEMMA WrittenMeaning ==
  ASSUME NEW segments \in Seq(Single)
  PROVE  /\ BuildCString(segments) \in Texts
         /\ Understood(ParseCQMessage(BuildCString(segments))) = Understood(segments)
<1>1. PICK w : w = [s \in Single |-> Written(s)]
  BY Zenon
<1>2. \A s \in Single : w[s] = Written(s)
  BY <1>1
<1>3. PICK id : id = [s \in Single |-> s]
  BY Zenon
<1>4. \A s \in Single : id[s] = s
  BY <1>3
<1>5. \A s \in Single : s \in Segments /\ s.data \in Data
  BY SegmentParts DEF Single
<1>6. BuildCString(segments) = Mapped(w, segments)
  <2>1. \A i \in DOMAIN segments : segments[i] \in Single
    BY LenProperties
  <2>2. \A i \in DOMAIN segments : w[segments[i]] = Written(segments[i])
    BY <1>2, <2>1, Zenon
  <2>3. [i \in DOMAIN segments |-> Written(segments[i])] = Images(w, segments)
    BY <2>2 DEF Images
  <2> QED BY <2>3, BuildIs, Zenon DEF Mapped
<1>7. /\ \A s \in Single : id[s].data \in Data
      /\ \A s \in Single : w[s] = Written(id[s])
  BY <1>2, <1>4, <1>5, Zenon
<1>8. \A s \in Single : Sight[s] = Sight[ReadBack(id[s])] /\ Refusal[s] = Refusal[ReadBack(id[s])]
  <2>1. ASSUME NEW s \in Single PROVE Sight[s] = Sight[ReadBack(s)] /\ Refusal[s] = Refusal[ReadBack(s)]
    <3>1. s \in Segments /\ OneAddress(s)
      BY Zenon DEF Single
    <3>2. ReadBack(s) \in Segments /\ Alike(ReadBack(s), s)
      BY <3>1, ReadBackAlike
    <3> QED BY <3>1, <3>2, AlikeSeen, Zenon
  <2> QED BY <1>4, <2>1, Zenon
<1>9. Mapped(w, segments) \in Texts
  <2>1. \A s \in Single : Sight[s] = Sight[ReadBack(id[s])]
    BY <1>8, Zenon
  <2> QED BY <1>7, <2>1, Views, WrittenRead
<1>10. Mapped(Sight, ParseCQMessage(Mapped(w, segments))) = Mapped(Sight, segments)
  <2>1. \A s \in Single : Sight[s] = Sight[ReadBack(id[s])]
    BY <1>8, Zenon
  <2> QED BY <1>7, <2>1, Views, WrittenRead
<1>11. Mapped(Refusal, ParseCQMessage(Mapped(w, segments))) = Mapped(Refusal, segments)
  <2>1. \A s \in Single : Refusal[s] = Refusal[ReadBack(id[s])]
    BY <1>8, Zenon
  <2> QED BY <1>7, <2>1, Views, WrittenRead
<1> QED BY <1>6, <1>9, <1>10, <1>11, Zenon DEF Understood

(* Segments without two addresses. *)
LEMMA SingleAre ==
  ASSUME NEW segments \in Seq(Segments), ~TwoAddresses(segments)
  PROVE  segments \in Seq(Single)
<1>1. PICK n \in Nat : n = Len(segments) /\ DOMAIN segments = 1..n
  BY LenProperties, Zenon
<1>2. \A i \in DOMAIN segments : segments[i] \in Segments
  BY LenProperties
<1>3. \A i \in DOMAIN segments : OneAddress(segments[i])
  BY Zenon DEF TwoAddresses, OneAddress
<1>4. \A i \in 1..n : segments[i] \in Single
  BY <1>1, <1>2, <1>3, Zenon DEF Single
<1> QED BY <1>1, <1>4

(* WrittenAsRead: a string that was read means what the bridge would write  *)
(* for it means, unless it has a picture with two addresses.               *)
THEOREM WrittenAsReadAlways == Spec => []WrittenAsRead
<1>1. ASSUME TypeOK PROVE WrittenAsRead
  <2>1. PICK t \in Texts : t = Text
    BY <1>1, TextType, Zenon
  <2>2. PICK segments \in Seq(Segments) : segments = ParseCQMessage(t)
    BY ParseType, Zenon
  <2>3. ASSUME ~TwoAddresses(segments)
        PROVE  Meaning(String(BuildCString(segments)), FALSE) = Meaning(String(t), FALSE)
    <3>1. segments \in Seq(Single)
      BY <2>3, SingleAre
    <3>2. PICK u \in Texts : /\ u = BuildCString(segments)
                             /\ Understood(ParseCQMessage(u)) = Understood(segments)
      BY <3>1, WrittenMeaning, Zenon
    <3>3. Meaning(String(u), FALSE) = Understood(ParseCQMessage(u))
      BY ParseType, MessagesRead, MeaningIs, Zenon
    <3>4. Meaning(String(t), FALSE) = Understood(segments)
      BY <2>2, MessagesRead, MeaningIs, Zenon
    <3> QED BY <3>2, <3>3, <3>4, Zenon
  <2> QED BY <2>1, <2>2, <2>3, Zenon DEF WrittenAsRead
<1> QED BY <1>1, TypeCorrect, PTL

-----------------------------------------------------------------------------
(* Arrays. *)

SaidSegments == [i \in DOMAIN said |-> ParseSegmentObject(said[i])]

(* They are segments. *)
LEMMA SaidType ==
  ASSUME TypeOK
  PROVE  SaidSegments \in Seq(Segments) /\ DOMAIN SaidSegments = DOMAIN said
<1>1. said \in Seq(Objects)
  BY DEF TypeOK
<1>2. PICK n \in Nat : n = Len(said) /\ DOMAIN said = 1..n /\ \A i \in 1..n : said[i] \in Objects
  BY <1>1, LenProperties
<1>3. \A i \in 1..n : ParseSegmentObject(said[i]) \in Segments
  BY <1>2, ObjectType, Zenon
<1>4. SaidSegments \in [1..n -> Segments] /\ DOMAIN SaidSegments = DOMAIN said
  BY <1>2, <1>3 DEF SaidSegments
<1> QED BY <1>4, FunctionIsSeq

(* What Milky makes of an array. *)
LEMMA SaidMeaning ==
  ASSUME TypeOK
  PROVE  /\ Meaning(Array(said), FALSE) = Understood(SaidSegments)
         /\ ParseOneBotMessage(Array(said), FALSE).segments = SaidSegments
<1>1. Read(Array(said), FALSE, SaidSegments)
  BY MessagesRead, Zenon DEF SaidSegments
<1>2. SaidSegments \in Seq(Segments)
  BY SaidType, Zenon
<1>3. Meaning(Array(said), FALSE) = Understood(SaidSegments)
  BY <1>1, <1>2, MeaningIs, Zenon
<1>4. ParseOneBotMessage(Array(said), FALSE).segments = SaidSegments
  <2>1. PICK s : s = SaidSegments
    BY Zenon
  <2>2. ParseOneBotMessage(Array(said), FALSE) = [ok |-> TRUE, segments |-> s]
    BY <1>1, <2>1, Zenon DEF Read
  <2>3. [ok |-> TRUE, segments |-> s].segments = s
    OBVIOUS
  <2> QED BY <2>1, <2>2, <2>3, Zenon
<1> QED BY <1>3, <1>4, Zenon

(* FormatsAgree: an array and its string with CQ codes, a single object and *)
(* the array of it, mean the same to Milky and are refused alike.          *)
THEOREM FormatsAgreeAlways == Spec => []FormatsAgree
<1>1. ASSUME TypeOK PROVE FormatsAgree
  <2>1. PICK segments \in Seq(Segments) : segments = SaidSegments
    BY <1>1, SaidType, Zenon
  <2>2. /\ Meaning(Array(said), FALSE) = Understood(segments)
        /\ ParseOneBotMessage(Array(said), FALSE).segments = segments
    BY <1>1, <2>1, SaidMeaning, Zenon
  <2>3. ASSUME ~TwoAddresses(segments)
        PROVE  Meaning(Array(said), FALSE) = Meaning(String(BuildCString(segments)), FALSE)
    <3>1. segments \in Seq(Single)
      BY <2>3, SingleAre
    <3>2. PICK u \in Texts : /\ u = BuildCString(segments)
                             /\ Understood(ParseCQMessage(u)) = Understood(segments)
      BY <3>1, WrittenMeaning, Zenon
    <3>3. Meaning(String(u), FALSE) = Understood(ParseCQMessage(u))
      BY ParseType, MessagesRead, MeaningIs, Zenon
    <3> QED BY <2>2, <3>2, <3>3, Zenon
  <2>4. ASSUME Len(said) = 1
        PROVE  Meaning([format |-> "object", body |-> said[1]], FALSE) =
                 Meaning(Array(said), FALSE)
    <3>1. DOMAIN said = 1..1 /\ said[1] \in Objects
      <4>1. said \in Seq(Objects)
        BY <1>1, Zenon DEF TypeOK
      <4>2. DOMAIN said = 1..Len(said) /\ \A i \in 1..Len(said) : said[i] \in Objects
        BY <4>1, LenProperties
      <4>3. 1 \in 1..1
        OBVIOUS
      <4> QED BY <2>4, <4>2, <4>3, Zenon
    <3>2. SaidSegments = <<ParseSegmentObject(said[1])>>
      BY <3>1 DEF SaidSegments
    <3>3. Read([format |-> "object", body |-> said[1]], FALSE, segments)
      BY <2>1, <3>2, MessagesRead, Zenon
    <3>4. Meaning([format |-> "object", body |-> said[1]], FALSE) = Understood(segments)
      BY <3>3, MeaningIs, Zenon
    <3> QED BY <2>2, <3>4, Zenon
  <2> QED BY <2>2, <2>3, <2>4, Zenon DEF FormatsAgree
<1> QED BY <1>1, TypeCorrect, PTL

-----------------------------------------------------------------------------
(* Numbers. *)

IsNumber(obj) ==
  /\ obj.type \in {"at", "reply"}
  /\ Token(KeyOf[obj.type]) \in DOMAIN obj.data
  /\ "num" \in DOMAIN obj.data[Token(KeyOf[obj.type])]
NumberOf(obj) == obj.data[Token(KeyOf[obj.type])].num

(* The segments that have an id. *)
Ids == [s \in Segments |-> [type |-> s.type, id |-> ParseInt(Get(s.data, KeyOf[s.type]))]]

(* What is seen of them. *)
LEMMA IdSight ==
  ASSUME NEW s \in WithId
  PROVE  Sight[s] = <<Ids[s]>>
<1>1. s \in Segments /\ s.type \in {"at", "reply"}
  BY Zenon DEF WithId
<1>2. PICK e : e = [type |-> s.type, id |-> ParseInt(Get(s.data, KeyOf[s.type]))]
  BY Zenon
<1>3. s.type \notin Media
  BY <1>1, TypesAndKeys
<1>4. ElementOf(s) = <<e>>
  BY <1>1, <1>2, <1>3, Zenon DEF ElementOf
<1>5. e \in Sent
  BY <1>2, Zenon DEF Sent
<1>6. Mapped(Sighted, <<e>>) = Sighted[e]
  BY <1>5, SightedType, MappedOne, Zenon
<1>7. e.type # "text"
  BY <1>1, <1>2
<1>8. Sighted[e] = <<e>>
  BY <1>5, <1>7 DEF Sighted, SeenOf
<1>9. Sight[s] = Mapped(Sighted, ElementOf(s))
  BY <1>1 DEF Sight
<1>10. Ids[s] = e
  BY <1>1, <1>2 DEF Ids
<1> QED BY <1>4, <1>6, <1>8, <1>9, <1>10, Zenon

(* What becomes of a number. *)
LEMMA NumberRead ==
  ASSUME NEW obj \in Objects, IsNumber(obj)
  PROVE  /\ NumberOf(obj) \in Nat
         /\ ParseSegmentObject(obj) \in WithId
         /\ NumberOf(obj) >= Million => ~Sendable(ParseSegmentObject(obj))
         /\ NumberOf(obj) < Million =>
              /\ Sendable(ParseSegmentObject(obj))
              /\ Ids[ParseSegmentObject(obj)] = [type |-> obj.type, id |-> NumberOf(obj)]
<1>1. PICK type : type = obj.type
  BY Zenon
<1>2. type \in {"at", "reply"} /\ type \in CQTypes /\ type \notin Media /\ type # "text"
  BY <1>1, TypesAndKeys DEF IsNumber
<1>3. PICK key \in {"qq", "id"} : key = KeyOf[type]
  BY <1>2, TypesAndKeys
<1>4. PICK v : v = obj.data[Token(key)]
  BY Zenon
<1>5. Token(key) \in DOMAIN obj.data /\ "num" \in DOMAIN v
  BY <1>1, <1>3, <1>4, Zenon DEF IsNumber
<1>6. v \in [str : Texts] \union [num : Nat]
  BY <1>4, <1>5, ObjectsAssumption, Zenon
<1>7. v.num \in Nat
  <2>1. \A r \in [str : Texts] : "num" \notin DOMAIN r
    OBVIOUS
  <2>2. v \in [num : Nat]
    BY <1>5, <1>6, <2>1, Zenon
  <2> QED BY <2>2
<1>8. NumberOf(obj) = v.num
  BY <1>1, <1>3, <1>4, Zenon DEF NumberOf
<1>9. PICK n \in Nat : n = v.num
  BY <1>7, Zenon
<1>10. PICK data \in Data :
         /\ data = Strings(obj) /\ DOMAIN data = DOMAIN obj.data
         /\ \A k \in DOMAIN obj.data : data[k] = Sprint(obj.data[k])
  BY StringsType, Zenon
<1>11. Get(data, key) = SprintFloat(n)
  <2>1. data[Token(key)] = Sprint(v)
    BY <1>4, <1>5, <1>10, Zenon
  <2>2. Sprint(v) = SprintFloat(n)
    BY <1>5, <1>9, Zenon DEF Sprint
  <2> QED BY <1>5, <1>10, <2>1, <2>2, Zenon DEF Get
<1>12. PICK s \in Segments : s = ParseSegmentObject(obj)
  BY ObjectType, Zenon
<1>13. s = TypedSegment(type, data)
  BY <1>1, <1>2, <1>10, <1>12, Zenon DEF ParseSegmentObject, Strings
<1>14. s = Segment(type, key, SprintFloat(n))
  BY <1>2, <1>3, <1>11, <1>13, Zenon DEF TypedSegment
<1>15. s.type = type /\ Get(s.data, key) = SprintFloat(n)
  <2>1. type \in SegmentTypes /\ key \in {"text", "file", "url", "qq", "id"}
    BY <1>2 DEF SegmentTypes
  <2>2. SprintFloat(n) \in Texts
    BY SprintFloatIs, Zenon
  <2>3. /\ Segment(type, key, SprintFloat(n)).type = type
        /\ Get(Segment(type, key, SprintFloat(n)).data, key) = SprintFloat(n)
    BY <2>1, <2>2, OneEntry
  <2> QED BY <1>14, <2>3, Zenon
<1>16. s \in WithId
  BY <1>2, <1>15, Zenon DEF WithId
<1>17. Sendable(s) <=> IsInt(SprintFloat(n))
  BY <1>2, <1>3, <1>15, Zenon DEF Sendable
<1>18. Ids[s] = [type |-> type, id |-> ParseInt(SprintFloat(n))]
  BY <1>3, <1>15 DEF Ids
<1>19. n >= Million => ~Sendable(s)
  BY <1>17, SprintFloatIs, Zenon
<1>20. n < Million => Sendable(s) /\ Ids[s] = [type |-> type, id |-> n]
  BY <1>17, <1>18, SprintFloatIs, Zenon
<1> QED BY <1>1, <1>8, <1>9, <1>12, <1>16, <1>19, <1>20, Zenon

(* NumbersExactOrRefused: a number in place of a string goes to Milky as    *)
(* that number, or, from a million on, has the whole message refused.      *)
THEOREM NumbersExactOrRefusedAlways == Spec => []NumbersExactOrRefused
<1>1. ASSUME TypeOK PROVE NumbersExactOrRefused
  <2> DEFINE numbers == {i \in DOMAIN said : IsNumber(said[i])}
  <2>1. PICK meaning : meaning = Meaning(Array(said), FALSE)
    BY Zenon
  <2>2. PICK segments \in Seq(Segments) : segments = SaidSegments
    BY <1>1, SaidType, Zenon
  <2>3. /\ DOMAIN segments = DOMAIN said
        /\ \A i \in DOMAIN said : segments[i] = ParseSegmentObject(said[i])
    BY <2>2 DEF SaidSegments
  <2>4. meaning = Understood(segments)
    BY <1>1, <2>1, <2>2, SaidMeaning, Zenon
  <2>5. \A i \in DOMAIN said : said[i] \in Objects
    <3>1. said \in Seq(Objects)
      BY <1>1, Zenon DEF TypeOK
    <3> QED BY <3>1, LenProperties
  <2>6. /\ numbers \subseteq DOMAIN said
        /\ \A i \in numbers : IsNumber(said[i])
    OBVIOUS
  <2> HIDE DEF numbers
  <2>7. ASSUME NEW i \in numbers
        PROVE  /\ NumberOf(said[i]) \in Nat
               /\ segments[i] \in WithId
               /\ NumberOf(said[i]) >= Million => ~Sendable(segments[i])
               /\ NumberOf(said[i]) < Million =>
                    /\ Sendable(segments[i])
                    /\ Ids[segments[i]] = [type |-> said[i].type, id |-> NumberOf(said[i])]
    BY <2>3, <2>5, <2>6, NumberRead, Zenon
  <2>8. ASSUME NEW i \in numbers, NumberOf(said[i]) >= Million PROVE ~meaning.ok
    <3>1. ~Sendable(segments[i]) /\ i \in DOMAIN segments
      BY <2>3, <2>6, <2>8, <2>7, Zenon
    <3>2. Mapped(Refusal, segments) # <<>>
      BY <3>1, AllSent, Zenon
    <3>3. meaning = Refused
      BY <2>4, <3>2, Zenon DEF Understood
    <3> QED BY <3>3 DEF Refused
  <2>9. ASSUME numbers = DOMAIN said, ~\E i \in numbers : NumberOf(said[i]) >= Million
        PROVE  meaning = [ok |-> TRUE,
                          elements |-> [i \in DOMAIN said |->
                                          [type |-> said[i].type, id |-> NumberOf(said[i])]]]
    <3> Million \in Nat
      BY SMT DEF Million
    <3>1. \A i \in DOMAIN said : NumberOf(said[i]) < Million
      <4>1. ASSUME NEW i \in DOMAIN said PROVE NumberOf(said[i]) < Million
        <5>1. i \in numbers /\ NumberOf(said[i]) \in Nat
          BY <2>9, <2>7, Zenon
        <5>2. ~(NumberOf(said[i]) >= Million)
          BY <2>9, <5>1, Zenon
        <5> QED BY <5>1, <5>2
      <4> QED BY <4>1, Zenon
    <3>2. \A i \in DOMAIN said :
            /\ segments[i] \in WithId /\ Sendable(segments[i])
            /\ Ids[segments[i]] = [type |-> said[i].type, id |-> NumberOf(said[i])]
      BY <2>9, <2>7, <3>1, Zenon
    <3>3. Mapped(Refusal, segments) = <<>>
      BY <2>3, <3>2, AllSent, Zenon
    <3>4. segments \in Seq(WithId)
      <4>1. PICK n \in Nat : n = Len(segments) /\ DOMAIN segments = 1..n
        BY LenProperties, Zenon
      <4>2. \A i \in 1..n : segments[i] \in WithId
        BY <2>3, <3>2, <4>1, Zenon
      <4> QED BY <4>1, <4>2
    <3>5. Mapped(Sight, segments) = Images(Ids, segments)
      BY <3>4, IdSight, Singles, Zenon
    <3>6. Images(Ids, segments) =
            [i \in DOMAIN said |-> [type |-> said[i].type, id |-> NumberOf(said[i])]]
      BY <2>3, <3>2 DEF Images
    <3> QED BY <2>4, <3>3, <3>5, <3>6, Zenon DEF Understood
  <2>10. numbers = {i \in DOMAIN said :
                    /\ said[i].type \in {"at", "reply"}
                    /\ Token(KeyOf[said[i].type]) \in DOMAIN said[i].data
                    /\ "num" \in DOMAIN said[i].data[Token(KeyOf[said[i].type])]}
    BY Zenon DEF IsNumber, numbers
  <2>11. \A i : NumberOf(said[i]) = said[i].data[Token(KeyOf[said[i].type])].num
    BY Zenon DEF NumberOf
  <2>12. /\ (\E i \in numbers : NumberOf(said[i]) >= Million) => ~meaning.ok
         /\ numbers = DOMAIN said =>
              \/ \E i \in numbers : NumberOf(said[i]) >= Million
              \/ meaning = [ok |-> TRUE,
                            elements |-> [i \in DOMAIN said |->
                                            [type |-> said[i].type, id |-> NumberOf(said[i])]]]
    BY <2>8, <2>9, Zenon
  <2> QED BY <2>1, <2>10, <2>11, <2>12 DEF NumbersExactOrRefused
<1> QED BY <1>1, TypeCorrect, PTL

-----------------------------------------------------------------------------
(* Repeated messages. *)

(* A segment with the one entry that matters to its type. *)
Typed(s) ==
  IF s.type \in CQTypes THEN TypedSegment(s.type, s.data)
  ELSE TextSegment(Get(s.data, "text"))

AsObject(s) == [type |-> s.type, data |-> [k \in DOMAIN s.data |-> [str |-> s.data[k]]]]

(* It is the same to Milky. *)
LEMMA TypedAlike ==
  ASSUME NEW s \in Segments
  PROVE  Typed(s) \in Segments /\ Alike(Typed(s), s)
<1>1. s.data \in Data /\ s.type \in SegmentTypes
  BY SegmentParts, Zenon
<1>2. CASE s.type \in CQTypes
  <2>1. PICK t : t = TypedSegment(s.type, s.data)
    BY Zenon
  <2>2. Typed(s) = t
    BY <1>2, <2>1, Zenon DEF Typed
  <2>3. t \in Segments /\ t.type = s.type
    BY <1>1, <1>2, <2>1, TypedSegmentType, Zenon
  <2>4. s.type # "text"
    BY <1>2, TypesAndKeys
  <2>5. CASE s.type \in Media
    <3>1. t = [type |-> s.type, data |-> NormalizeMediaData(s.data)]
      BY <2>1, <2>5, Zenon DEF TypedSegment
    <3>2. t.data = NormalizeMediaData(s.data)
      BY <3>1
    <3>3. /\ Get(t.data, "file") = Get(s.data, "file")
          /\ Get(t.data, "url") = IF Get(s.data, "url") # <<>> THEN Get(s.data, "url")
                                  ELSE Get(s.data, "file")
      BY <1>1, <3>2, MediaEntries, Zenon
    <3>4. MediaURI(t.data) = MediaURI(s.data)
      BY <3>3, Zenon DEF MediaURI
    <3>5. s.type \notin {"at", "reply"}
      BY <2>5, TypesAndKeys
    <3> QED BY <2>2, <2>3, <2>4, <3>4, <3>5, Zenon DEF Alike
  <2>6. CASE s.type \notin Media
    <3>1. PICK key \in {"qq", "id"} : key = KeyOf[s.type]
      BY <1>2, <2>6, TypesAndKeys
    <3>2. PICK v \in Texts : v = Get(s.data, key)
      BY <1>1, GetType, Zenon
    <3>3. t = Segment(s.type, key, v)
      BY <2>1, <2>6, <3>1, <3>2, Zenon DEF TypedSegment
    <3>4. Get(Segment(s.type, key, v).data, key) = v
      <4>1. key \in {"text", "file", "url", "qq", "id"}
        BY <3>1
      <4> QED BY <1>1, <4>1, OneEntry
    <3> QED BY <2>2, <2>3, <2>4, <2>6, <3>1, <3>2, <3>3, <3>4, Zenon DEF Alike
  <2> QED BY <2>5, <2>6
<1>3. CASE s.type \notin CQTypes
  <2>1. s.type = "text"
    BY <1>1, <1>3 DEF SegmentTypes
  <2>2. PICK y \in Texts : y = Get(s.data, "text")
    BY <1>1, GetType, Zenon
  <2>3. Typed(s) = TextSegment(y)
    BY <1>3, <2>2, Zenon DEF Typed
  <2>4. /\ TextSegment(y) \in Segments /\ TextSegment(y).type = "text"
        /\ Get(TextSegment(y).data, "text") = y
    BY TextSegmentType
  <2>5. s.type \notin Media /\ s.type \notin {"at", "reply"}
    BY <2>1, TypesAndKeys
  <2> QED BY <2>1, <2>2, <2>3, <2>4, <2>5, Zenon DEF Alike
<1> QED BY <1>2, <1>3

(* An object of strings is read as the segment it was made of. *)
LEMMA ObjectRead ==
  ASSUME NEW s \in Segments
  PROVE  ParseSegmentObject(AsObject(s)) = Typed(s)
<1>1. s.data \in Data /\ s.type \in SegmentTypes
  BY SegmentParts, Zenon
<1>2. PICK obj : obj = AsObject(s)
  BY Zenon
<1>3. obj.type = s.type /\ obj.data = [k \in DOMAIN s.data |-> [str |-> s.data[k]]]
  BY <1>2 DEF AsObject
<1>4. \A v : Sprint([str |-> v]) = v
  <2>1. ASSUME NEW v PROVE Sprint([str |-> v]) = v
    <3>1. "num" \notin DOMAIN [str |-> v] /\ [str |-> v].str = v
      OBVIOUS
    <3> QED BY <3>1 DEF Sprint
  <2> QED BY <2>1
<1>5. PICK data : data = s.data
  BY Zenon
<1>6. PICK D : D = DOMAIN data
  BY Zenon
<1>7. data = [k \in D |-> data[k]]
  <2>1. PICK E \in SUBSET Texts : data \in [E -> Texts]
    BY <1>1, <1>5 DEF Data
  <2>2. D = E
    BY <1>6, <2>1
  <2> QED BY <2>1, <2>2
<1>8. DOMAIN obj.data = D /\ \A k \in D : Sprint(obj.data[k]) = data[k]
  <2>1. DOMAIN obj.data = D /\ \A k \in D : obj.data[k] = [str |-> data[k]]
    BY <1>3, <1>5, <1>6
  <2> QED BY <1>4, <2>1, Zenon
<1>9. Strings(obj) = data
  <2>1. Strings(obj) = [k \in D |-> data[k]]
    BY <1>8 DEF Strings
  <2> QED BY <1>7, <2>1, Zenon
<1>10. CASE s.type = "text"
  <2>1. ParseSegmentObject(obj) = TextSegment(Get(data, "text"))
    BY <1>3, <1>9, <1>10, Zenon DEF ParseSegmentObject, Strings
  <2>2. s.type \notin CQTypes
    BY <1>10, TypesAndKeys
  <2> QED BY <1>2, <1>5, <2>1, <2>2, Zenon DEF Typed
<1>11. CASE s.type # "text"
  <2>1. s.type \in CQTypes
    BY <1>1, <1>11 DEF SegmentTypes
  <2>2. ParseSegmentObject(obj) = TypedSegment(s.type, data)
    BY <1>3, <1>9, <1>11, <2>1, Zenon DEF ParseSegmentObject, Strings
  <2> QED BY <1>2, <1>5, <2>1, <2>2, Zenon DEF Typed
<1> QED BY <1>10, <1>11

(* A segment that is given to a bot for an element, written and put into an *)
(* object as the segment g is, which means the element r.                  *)
Echoes(s, g, r) ==
  /\ Written(s) = Written(g)
  /\ Typed(s) = Typed(g)
  /\ r \in Sent
  /\ Sight[g] = Sighted[r]
  /\ Sendable(g) <=> (r.type \in Media => r.uri # <<>>)

(* A text, or what stands for an element without a segment type. *)
LEMMA EchoOfText ==
  ASSUME NEW type \in {"text", "unknown"}, NEW t \in Texts
  PROVE  \E g \in Single : Echoes(Segment(type, "text", t), g, [type |-> "text", text |-> t])
<1>1. PICK s : s = Segment(type, "text", t)
  BY Zenon
<1>2. PICK g \in Segments : g = TextSegment(t) /\ g.type = "text" /\ Get(g.data, "text") = t
  BY TextSegmentType, Zenon
<1>3. s.type = type /\ s.data = g.data
  BY <1>1, <1>2 DEF TextSegment, Segment
<1>4. s.type \notin CQTypes /\ g.type \notin CQTypes /\ g.type \notin Media
      /\ g.type \notin {"at", "reply"}
  BY <1>2, <1>3, TypesAndKeys
<1>5. Written(s) = Written(g) /\ Typed(s) = Typed(g)
  BY <1>3, <1>4, Zenon DEF Written, Typed
<1>6. PICK r : r = [type |-> "text", text |-> t]
  BY Zenon
<1>7. r \in Sent
  BY <1>6, Zenon DEF Sent
<1>8. r.type = "text" /\ r.text = t
  BY <1>6
<1>9. Sighted[r] = Mapped(CharsOf, t)
  BY <1>7, <1>8 DEF Sighted, SeenOf
<1>10. Sight[g] = Sighted[r]
  BY <1>2, <1>9, TextViews, Zenon
<1>11. r.type \notin Media
  BY <1>8, TypesAndKeys
<1>12. Sendable(g)
  BY <1>4, Zenon DEF Sendable
<1>13. g \in Single
  BY <1>4, Zenon DEF Single, OneAddress
<1>14. Echoes(s, g, r)
  BY <1>5, <1>7, <1>10, <1>11, <1>12, Zenon DEF Echoes
<1> QED BY <1>1, <1>6, <1>13, <1>14, Zenon

(* What is sent as one element that is not a text. *)
LEMMA OneSight ==
  ASSUME NEW s \in Segments, NEW e \in Sent, e.type # "text", ElementOf(s) = <<e>>
  PROVE  Sight[s] = Sighted[e]
<1>1. Mapped(Sighted, <<e>>) = Sighted[e]
  BY SightedType, MappedOne, Zenon
<1>2. Sight[s] = Mapped(Sighted, ElementOf(s))
  BY DEF Sight
<1> QED BY <1>1, <1>2, Zenon

(* A picture or a recording. *)
LEMMA EchoOfMedia ==
  ASSUME NEW type \in Media, NEW u \in Texts
  PROVE  \E g \in Single : Echoes(Segment(type, "url", u), g, [type |-> type, uri |-> u])
<1>1. PICK g : g = Segment(type, "url", u)
  BY Zenon
<1>2. type \in SegmentTypes /\ type # "text" /\ type \notin {"at", "reply"}
  BY TypesAndKeys DEF SegmentTypes
<1>3. g \in Segments /\ g.type = type /\ Get(g.data, "url") = u
  <2>1. "url" \in {"text", "file", "url", "qq", "id"}
    OBVIOUS
  <2>2. /\ Segment(type, "url", u) \in Segments
        /\ Segment(type, "url", u).type = type
        /\ Get(Segment(type, "url", u).data, "url") = u
    BY <1>2, <2>1, OneEntry
  <2> QED BY <1>1, <2>2, Zenon
<1>4. Get(g.data, "file") = <<>>
  <2>1. Get(Segment(type, "url", u).data, "file") = <<>>
    BY OtherEntry
  <2> QED BY <1>1, <2>1, Zenon
<1>5. MediaURI(g.data) = u
  BY <1>3, <1>4, Zenon DEF MediaURI
<1>6. g \in Single
  BY <1>3, <1>4 DEF Single, OneAddress
<1>7. PICK r : r = [type |-> type, uri |-> u]
  BY Zenon
<1>8. r.type = type /\ r.uri = u
  BY <1>7
<1>9. g \in WithURI
  BY <1>3, Zenon DEF WithURI
<1>10. r \in Sent
  BY <1>3, <1>5, <1>7, <1>9, Zenon DEF Sent
<1>11. ElementOf(g) = <<r>>
  BY <1>3, <1>5, <1>7, Zenon DEF ElementOf
<1>12. Sight[g] = Sighted[r]
  BY <1>2, <1>3, <1>8, <1>10, <1>11, OneSight, Zenon
<1>13. Sendable(g) <=> (r.type \in Media => r.uri # <<>>)
  BY <1>2, <1>3, <1>5, <1>8, Zenon DEF Sendable
<1>14. Echoes(g, g, r)
  BY <1>10, <1>12, <1>13, Zenon DEF Echoes
<1> QED BY <1>1, <1>6, <1>7, <1>14, Zenon

(* A mention or a reply. *)
LEMMA EchoOfId ==
  ASSUME NEW type \in {"at", "reply"}, NEW n \in Nat
  PROVE  \E g \in Single :
           Echoes(Segment(type, KeyOf[type], FormatInt[n]), g, [type |-> type, id |-> n])
<1>1. PICK key \in {"qq", "id"} : key = KeyOf[type]
  BY TypesAndKeys
<1>2. type \in SegmentTypes /\ type # "text" /\ type \notin Media
  BY TypesAndKeys DEF SegmentTypes
<1>3. PICK t \in Texts : t = FormatInt[n] /\ ParseInt(t) = n /\ IsInt(t)
  BY ParseFormatInt, DigitTextsAre, IsIntIs, Zenon
<1>4. PICK g : g = Segment(type, key, t)
  BY Zenon
<1>5. g \in Segments /\ g.type = type /\ Get(g.data, key) = t
  <2>1. key \in {"text", "file", "url", "qq", "id"}
    OBVIOUS
  <2>2. /\ Segment(type, key, t) \in Segments
        /\ Segment(type, key, t).type = type
        /\ Get(Segment(type, key, t).data, key) = t
    BY <1>2, <2>1, OneEntry
  <2> QED BY <1>4, <2>2, Zenon
<1>6. g \in Single
  BY <1>2, <1>5, Zenon DEF Single, OneAddress
<1>7. PICK r : r = [type |-> type, id |-> n]
  BY Zenon
<1>8. r.type = type
  BY <1>7
<1>9. g \in WithId
  BY <1>5, Zenon DEF WithId
<1>10. Get(g.data, KeyOf[g.type]) = t
  BY <1>1, <1>5, Zenon
<1>11. r \in Sent
  BY <1>3, <1>5, <1>7, <1>9, <1>10, Zenon DEF Sent
<1>12. ElementOf(g) = <<r>>
  BY <1>2, <1>3, <1>5, <1>7, <1>10, Zenon DEF ElementOf
<1>13. Sight[g] = Sighted[r]
  BY <1>2, <1>5, <1>8, <1>11, <1>12, OneSight, Zenon
<1>14. Sendable(g) <=> (r.type \in Media => r.uri # <<>>)
  BY <1>2, <1>3, <1>5, <1>8, <1>10, Zenon DEF Sendable
<1>15. Echoes(g, g, r)
  BY <1>11, <1>13, <1>14, Zenon DEF Echoes
<1> QED BY <1>1, <1>3, <1>4, <1>6, <1>7, <1>15, Zenon

(* Whatever Milky pushes. *)
LEMMA EchoOfElement ==
  ASSUME NEW e \in Elements
  PROVE  \E g \in Single : Echoes(FromElement(e), g, Repeated(e))
<1>1. CASE e \in [type : {"text"}, text : Texts]
  <2>1. e.type = "text" /\ e.text \in Texts /\ e = [type |-> "text", text |-> e.text]
    BY <1>1
  <2>2. e.type \notin Media /\ e.type \notin {"at", "reply"}
    BY <2>1, TypesAndKeys
  <2>3. FromElement(e) = Segment("text", "text", e.text)
    BY <2>1, <2>2, Zenon DEF FromElement, TextSegment
  <2>4. Repeated(e) = e
    BY <2>1, <2>2 DEF Repeated
  <2>5. PICK t \in Texts : t = e.text
    BY <2>1, Zenon
  <2>6. \E g \in Single : Echoes(Segment("text", "text", t), g, [type |-> "text", text |-> t])
    BY EchoOfText
  <2> QED BY <2>1, <2>3, <2>4, <2>5, <2>6, Zenon
<1>2. CASE e \in [type : Media, uri : Texts, temp : Texts]
  <2>1. e.type \in Media /\ e.uri \in Texts /\ e.temp \in Texts
    BY <1>2
  <2>2. PICK u \in Texts : u = IF e.temp = <<>> THEN e.uri ELSE e.temp
    BY <2>1, Zenon
  <2>3. FromElement(e) = Segment(e.type, "url", u)
    BY <2>1, <2>2, Zenon DEF FromElement
  <2>4. e.type \notin {"text", "at", "reply"}
    BY <2>1, TypesAndKeys
  <2>5. Repeated(e) = [type |-> e.type, uri |-> u]
    BY <2>1, <2>2, <2>4 DEF Repeated
  <2> QED BY <2>1, <2>3, <2>5, EchoOfMedia, Zenon
<1>3. CASE e \in [type : {"at", "reply"}, id : Nat]
  <2>1. e.type \in {"at", "reply"} /\ e.id \in Nat /\ e = [type |-> e.type, id |-> e.id]
    BY <1>3
  <2>2. e.type \notin Media
    BY <2>1, TypesAndKeys
  <2>3. FromElement(e) = Segment(e.type, KeyOf[e.type], FormatInt[e.id])
    BY <2>1, <2>2, Zenon DEF FromElement
  <2>4. Repeated(e) = e
    BY <2>1, <2>2 DEF Repeated
  <2>5. PICK type \in {"at", "reply"}, n \in Nat : type = e.type /\ n = e.id
    BY <2>1, Zenon
  <2>6. \E g \in Single :
          Echoes(Segment(type, KeyOf[type], FormatInt[n]), g, [type |-> type, id |-> n])
    BY EchoOfId
  <2> QED BY <2>1, <2>3, <2>4, <2>5, <2>6, Zenon
<1>4. CASE e.type \notin Media \union {"text", "at", "reply"}
  <2>1. e.type \notin Media /\ e.type \notin {"at", "reply"} /\ e.type # "text"
        /\ e.type \notin {"text", "at", "reply"}
    BY <1>4
  <2>2. PICK t \in Texts : t = <<"[", "unsupported", "]">>
    <3>1. "[" \in Tokens /\ "unsupported" \in Tokens /\ "]" \in Tokens
      BY KnownTokens DEF Specials
    <3>2. <<"[", "unsupported", "]">> \in Seq(Tokens)
      BY <3>1
    <3> QED BY <3>2, Zenon DEF Texts
  <2>3. FromElement(e) = Segment("unknown", "text", t)
    BY <2>1, <2>2, Zenon DEF FromElement
  <2>4. Repeated(e) = [type |-> "text", text |-> t]
    BY <2>1, <2>2 DEF Repeated
  <2> QED BY <2>3, <2>4, EchoOfText, Zenon
<1> QED BY <1>1, <1>2, <1>3, <1>4, ElementsAssumption, Zenon

(* The segments that stand for the elements. *)
Standing(g) == \A e \in Elements : g[e] \in Single /\ Echoes(FromElement(e), g[e], Repeated(e))

(* There are such. *)
LEMMA StandingExist == \E g : Standing(g)
<1>1. PICK g : g = [e \in Elements |->
                      CHOOSE s \in Single : Echoes(FromElement(e), s, Repeated(e))]
  BY Zenon
<1>2. ASSUME NEW e \in Elements
      PROVE  g[e] \in Single /\ Echoes(FromElement(e), g[e], Repeated(e))
  <2>1. g[e] = CHOOSE s \in Single : Echoes(FromElement(e), s, Repeated(e))
    BY <1>1
  <2> QED BY <2>1, EchoOfElement, Zenon
<1> QED BY <1>2, Zenon DEF Standing

(* What Milky makes of the segments that stand for what was heard. *)
LEMMA StandingMeaning ==
  ASSUME TypeOK, NEW g, Standing(g),
         NEW expected, expected = [i \in DOMAIN heard |-> Repeated(heard[i])]
  PROVE  /\ Images(g, heard) \in Seq(Single)
         /\ Understood(Images(g, heard)) =
              IF \A i \in DOMAIN expected :
                   expected[i].type \in Media => expected[i].uri # <<>>
                THEN [ok |-> TRUE, elements |-> Seen(expected)] ELSE Refused
<1>1. heard \in Seq(Elements)
  BY Zenon DEF TypeOK
<1>2. \A i \in DOMAIN heard : heard[i] \in Elements
  BY <1>1, LenProperties
<1>3. Sends(g, Elements, Single) /\ Sends(g, Elements, Segments)
  BY Zenon DEF Standing, Sends, Single
<1>4. Images(g, heard) \in Seq(Single)
  BY <1>1, <1>3, ImagesType
<1>5. PICK segments \in Seq(Segments) : segments = Images(g, heard)
  BY <1>1, <1>3, ImagesType
<1>6. DOMAIN segments = DOMAIN heard /\ \A i \in DOMAIN heard : segments[i] = g[heard[i]]
  BY <1>5 DEF Images
<1>7. DOMAIN expected = DOMAIN heard /\ \A i \in DOMAIN heard : expected[i] = Repeated(heard[i])
  OBVIOUS
<1>8. Mapped(Refusal, segments) = <<>> <=>
        \A i \in DOMAIN expected : expected[i].type \in Media => expected[i].uri # <<>>
  <2>1. ASSUME NEW i \in DOMAIN heard
        PROVE  Sendable(segments[i]) <=>
                 (expected[i].type \in Media => expected[i].uri # <<>>)
    <3>1. PICK e \in Elements : e = heard[i]
      BY <1>2, Zenon
    <3>2. segments[i] = g[e] /\ expected[i] = Repeated(e)
      BY <1>6, <1>7, <3>1, Zenon
    <3>3. Echoes(FromElement(e), g[e], Repeated(e))
      BY Zenon DEF Standing
    <3> QED BY <3>2, <3>3, Zenon DEF Echoes
  <2> QED BY <1>6, <1>7, <2>1, AllSent, Zenon
<1>9. PICK r : r = [e \in Elements |-> Repeated(e)]
  BY Zenon
<1>10. \A e \in Elements : r[e] = Repeated(e)
  BY <1>9
<1>11. Sends(r, Elements, Sent)
  BY <1>10, Zenon DEF Standing, Echoes, Sends
<1>12. expected = Images(r, heard)
  <2>1. \A i \in DOMAIN heard : r[heard[i]] = Repeated(heard[i])
    BY <1>2, <1>10, Zenon
  <2> QED BY <2>1 DEF Images
<1>13. expected \in Seq(Sent)
  <2>1. Images(r, heard) \in Seq(Sent)
    BY <1>1, <1>11, ImagesType
  <2> QED BY <1>12, <2>1, Zenon
<1>14. PICK k : k = [e \in Elements |-> Sighted[Repeated(e)]]
  BY Zenon
<1>15. \A e \in Elements : k[e] = Sighted[Repeated(e)]
  BY <1>14
<1>16. Mapped(Sight, segments) = Mapped(k, heard)
  <2>1. \A e \in Elements : k[e] = Sight[g[e]]
    BY <1>15, Zenon DEF Standing, Echoes
  <2>2. Mapped(Sight, Images(g, heard)) = Mapped(k, heard)
    BY <1>1, <1>3, <2>1, MappedImages
  <2> QED BY <1>5, <2>2, Zenon
<1>17. Seen(expected) = Mapped(k, heard)
  <2>1. \A e \in Elements : k[e] = Sighted[r[e]]
    BY <1>10, <1>15, Zenon
  <2>2. Mapped(Sighted, Images(r, heard)) = Mapped(k, heard)
    BY <1>1, <1>11, <2>1, MappedImages
  <2>3. Seen(expected) = Mapped(Sighted, expected)
    BY <1>13, SeenIs
  <2> QED BY <1>12, <2>2, <2>3, Zenon
<1>18. Understood(segments) =
         IF \A i \in DOMAIN expected : expected[i].type \in Media => expected[i].uri # <<>>
           THEN [ok |-> TRUE, elements |-> Seen(expected)] ELSE Refused
  BY <1>8, <1>16, <1>17, Zenon DEF Understood
<1> QED BY <1>4, <1>5, <1>18, Zenon

(* The string a bot is given means the same as these segments. *)
LEMMA EchoedString ==
  ASSUME TypeOK, NEW g, Standing(g), Images(g, heard) \in Seq(Single)
  PROVE  Meaning(BuildOneBotMessage("string", FromMilkySegments(heard)), FALSE) =
           Understood(Images(g, heard))
<1>1. \A i \in DOMAIN heard : heard[i] \in Elements
  BY LenProperties DEF TypeOK
<1>2. PICK segments : segments = Images(g, heard)
  BY Zenon
<1>3. DOMAIN segments = DOMAIN heard /\ \A i \in DOMAIN heard : segments[i] = g[heard[i]]
  BY <1>2 DEF Images
<1>4. PICK given : given = FromMilkySegments(heard)
  BY Zenon
<1>5. DOMAIN given = DOMAIN heard /\ \A i \in DOMAIN heard : given[i] = FromElement(heard[i])
  BY <1>4 DEF FromMilkySegments
<1>6. \A i \in DOMAIN heard : Written(given[i]) = Written(segments[i])
  BY <1>1, <1>3, <1>5, Zenon DEF Standing, Echoes
<1>7. BuildCString(given) = BuildCString(segments)
  <2>1. [i \in DOMAIN given |-> Written(given[i])] =
          [i \in DOMAIN segments |-> Written(segments[i])]
    BY <1>3, <1>5, <1>6
  <2> QED BY <2>1, BuildIs, Zenon
<1>8. PICK u \in Texts : /\ u = BuildCString(segments)
                         /\ Understood(ParseCQMessage(u)) = Understood(segments)
  BY <1>2, WrittenMeaning, Zenon
<1>9. BuildOneBotMessage("string", given) = String(u)
  BY <1>7, <1>8, Zenon DEF BuildOneBotMessage, String
<1>10. Meaning(String(u), FALSE) = Understood(ParseCQMessage(u))
  BY ParseType, MessagesRead, MeaningIs, Zenon
<1> QED BY <1>2, <1>4, <1>8, <1>9, <1>10, Zenon

(* So does the array. *)
LEMMA EchoedArray ==
  ASSUME TypeOK, NEW g, Standing(g), Images(g, heard) \in Seq(Single)
  PROVE  Meaning(BuildOneBotMessage("array", FromMilkySegments(heard)), FALSE) =
           Understood(Images(g, heard))
<1>1. heard \in Seq(Elements) /\ \A i \in DOMAIN heard : heard[i] \in Elements
  BY LenProperties DEF TypeOK
<1>2. PICK given : given = FromMilkySegments(heard)
  BY Zenon
<1>3. DOMAIN given = DOMAIN heard /\ \A i \in DOMAIN heard : given[i] = FromElement(heard[i])
  BY <1>2 DEF FromMilkySegments
<1>4. PICK objects : objects = [i \in DOMAIN given |-> AsObject(Typed(given[i]))]
  BY Zenon
<1>5. BuildOneBotMessage("array", given) = Array(objects)
  BY <1>4, Zenon DEF BuildOneBotMessage, Array, AsObject, Typed
<1>6. PICK p : p = [e \in Elements |-> Typed(g[e])]
  BY Zenon
<1>7. \A e \in Elements : p[e] = Typed(g[e])
  BY <1>6
<1>8. ASSUME NEW e \in Elements
      PROVE  /\ g[e] \in Segments
             /\ p[e] \in Segments /\ Alike(p[e], g[e])
             /\ ParseSegmentObject(AsObject(Typed(FromElement(e)))) = Typed(p[e])
             /\ Typed(p[e]) \in Segments /\ Alike(Typed(p[e]), p[e])
  <2>1. g[e] \in Single /\ Typed(FromElement(e)) = Typed(g[e])
    BY Zenon DEF Standing, Echoes
  <2>2. g[e] \in Segments
    BY <2>1, Zenon DEF Single
  <2>3. p[e] \in Segments /\ Alike(p[e], g[e])
    BY <1>7, <2>2, TypedAlike, Zenon
  <2>4. ParseSegmentObject(AsObject(p[e])) = Typed(p[e])
    BY <2>3, ObjectRead
  <2>5. Typed(p[e]) \in Segments /\ Alike(Typed(p[e]), p[e])
    BY <2>3, TypedAlike
  <2> QED BY <1>7, <2>1, <2>2, <2>3, <2>4, <2>5, Zenon
<1>9. PICK q : q = [e \in Elements |-> Typed(p[e])]
  BY Zenon
<1>10. \A e \in Elements : q[e] = Typed(p[e])
  BY <1>9
<1>11. Sends(q, Elements, Segments) /\ Sends(g, Elements, Segments)
  BY <1>8, <1>10, Zenon DEF Sends
<1>12. \A e \in Elements : Sight[q[e]] = Sight[g[e]] /\ Refusal[q[e]] = Refusal[g[e]]
  <2>1. ASSUME NEW e \in Elements
        PROVE  Sight[q[e]] = Sight[g[e]] /\ Refusal[q[e]] = Refusal[g[e]]
    <3>1. PICK a \in Segments : a = g[e]
      BY <1>8, Zenon
    <3>2. PICK b \in Segments : b = p[e] /\ Alike(b, a)
      BY <1>8, <3>1, Zenon
    <3>3. PICK c \in Segments : c = q[e] /\ Alike(c, b)
      BY <1>8, <1>10, <3>2, Zenon
    <3>4. Sight[b] = Sight[a] /\ Refusal[b] = Refusal[a]
      BY <3>2, AlikeSeen
    <3>5. Sight[c] = Sight[b] /\ Refusal[c] = Refusal[b]
      BY <3>3, AlikeSeen
    <3> QED BY <3>1, <3>2, <3>3, <3>4, <3>5, Zenon
  <2> QED BY <2>1
<1>13. PICK segments \in Seq(Segments) : segments = Images(q, heard)
  BY <1>1, <1>11, ImagesType
<1>14. segments = [i \in DOMAIN objects |-> ParseSegmentObject(objects[i])]
  <2>1. \A i \in DOMAIN heard : ParseSegmentObject(objects[i]) = q[heard[i]]
    <3>1. \A i \in DOMAIN heard : objects[i] = AsObject(Typed(given[i]))
      BY <1>3, <1>4
    <3> QED BY <1>1, <1>3, <1>8, <1>10, <3>1, Zenon
  <2>2. DOMAIN objects = DOMAIN heard
    BY <1>3, <1>4
  <2> QED BY <1>13, <2>1, <2>2 DEF Images
<1>15. Meaning(Array(objects), FALSE) = Understood(segments)
  <2>1. Read(Array(objects), FALSE, segments)
    BY <1>14, MessagesRead, Zenon
  <2> QED BY <2>1, MeaningIs
<1>16. PICK k : k = [e \in Elements |-> Sight[g[e]]]
  BY Zenon
<1>17. PICK l : l = [e \in Elements |-> Refusal[g[e]]]
  BY Zenon
<1>18. \A e \in Elements : k[e] = Sight[g[e]] /\ l[e] = Refusal[g[e]]
  BY <1>16, <1>17
<1>19. Mapped(Sight, Images(q, heard)) = Mapped(Sight, Images(g, heard))
  <2>1. \A e \in Elements : k[e] = Sight[q[e]]
    BY <1>12, <1>18, Zenon
  <2>2. \A e \in Elements : k[e] = Sight[g[e]]
    BY <1>18, Zenon
  <2>3. Mapped(Sight, Images(q, heard)) = Mapped(k, heard)
    BY <1>1, <1>11, <2>1, MappedImages
  <2>4. Mapped(Sight, Images(g, heard)) = Mapped(k, heard)
    BY <1>1, <1>11, <2>2, MappedImages
  <2> QED BY <2>3, <2>4, Zenon
<1>20. Mapped(Refusal, Images(q, heard)) = Mapped(Refusal, Images(g, heard))
  <2>1. \A e \in Elements : l[e] = Refusal[q[e]]
    BY <1>12, <1>18, Zenon
  <2>2. \A e \in Elements : l[e] = Refusal[g[e]]
    BY <1>18, Zenon
  <2>3. Mapped(Refusal, Images(q, heard)) = Mapped(l, heard)
    BY <1>1, <1>11, <2>1, MappedImages
  <2>4. Mapped(Refusal, Images(g, heard)) = Mapped(l, heard)
    BY <1>1, <1>11, <2>2, MappedImages
  <2> QED BY <2>3, <2>4, Zenon
<1>21. Understood(segments) = Understood(Images(g, heard))
  BY <1>13, <1>19, <1>20, Zenon DEF Understood
<1> QED BY <1>2, <1>5, <1>15, <1>21, Zenon

(* EchoIsFaithful: a bot that sends back what it was given, in either       *)
(* format, sends what it heard, or is refused for an address that it was   *)
(* not given.                                                              *)
THEOREM EchoIsFaithfulAlways == Spec => []EchoIsFaithful
<1>1. ASSUME TypeOK PROVE EchoIsFaithful
  <2>1. PICK g : Standing(g)
    BY StandingExist, Zenon
  <2>2. PICK expected : expected = [i \in DOMAIN heard |-> Repeated(heard[i])]
    BY Zenon
  <2>3. /\ Images(g, heard) \in Seq(Single)
        /\ Understood(Images(g, heard)) =
             IF \A i \in DOMAIN expected :
                  expected[i].type \in Media => expected[i].uri # <<>>
               THEN [ok |-> TRUE, elements |-> Seen(expected)] ELSE Refused
    BY <1>1, <2>1, <2>2, StandingMeaning
  <2>4. /\ Meaning(BuildOneBotMessage("string", FromMilkySegments(heard)), FALSE) =
             Understood(Images(g, heard))
        /\ Meaning(BuildOneBotMessage("array", FromMilkySegments(heard)), FALSE) =
             Understood(Images(g, heard))
    BY <1>1, <2>1, <2>3, EchoedString, EchoedArray
  <2>5. \A format \in {"array", "string"} :
          Meaning(BuildOneBotMessage(format, FromMilkySegments(heard)), FALSE) =
            Understood(Images(g, heard))
    BY <2>4, Zenon
  <2> QED BY <2>2, <2>3, <2>5, Zenon DEF EchoIsFaithful
<1> QED BY <1>1, TypeCorrect, PTL

=============================================================================
