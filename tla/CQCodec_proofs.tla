--------------------------- MODULE CQCodec_proofs ---------------------------
(***************************************************************************)
(* The operators of CQCodec for every text: escaping and unescaping, what   *)
(* parseCQMessage reads of codes and texts, numbers and their digits.      *)
(***************************************************************************)
EXTENDS CQCodec, Texts_proofs

-----------------------------------------------------------------------------
(* Tokens. *)

Specials == {"&", "[", "]", ","}
Tails == {"amp;", "#91;", "#93;", "#44;"}

(* The tokens that the code looks for or writes. *)
LEMMA KnownTokens ==
  /\ Specials \subseteq Tokens
  /\ Tails \subseteq Tokens
  /\ {"CQ:", "=", "e+", "unsupported"} \subseteq Tokens
  /\ {"text", "image", "record", "at", "poke", "reply", "file", "url", "qq", "id"} \subseteq Tokens
BY DEF Specials, Tails, Tokens

(* The entities: one for each special character, and none of them one. *)
LEMMA Entities ==
  /\ DOMAIN Entity = Specials
  /\ \A ch \in Specials : Entity[ch] \in Tails
  /\ \A c, d \in Specials : Entity[c] = Entity[d] => c = d
  /\ \A e \in Tails : \E ch \in Specials : Entity[ch] = e
<1>1. DOMAIN Entity = Specials
  BY DEF Entity, Specials
<1>2. /\ Entity["&"] = "amp;" /\ Entity["["] = "#91;"
      /\ Entity["]"] = "#93;" /\ Entity[","] = "#44;"
  BY DEF Entity
<1> QED BY <1>1, <1>2 DEF Specials, Tails

(* No tail of an entity is a special character. *)
LEMMA TailsAreTokens ==
  /\ \A e \in Tails : e \in Tokens /\ e \notin Specials
  /\ \A ch \in Specials : ch \in Tokens /\ ch \notin Tails
<1>1. \A e \in Tails : e \notin Specials
  BY DEF Tails, Specials
<1> QED BY <1>1, KnownTokens

(* Texts can be flattened. *)
LEMMA TextsMonoid == Monoid(Texts)
BY SeqMonoid, Zenon DEF Texts

-----------------------------------------------------------------------------
(* Escaping. *)

EscapeOf(X) == [c \in Tokens |-> IF c \in X THEN <<"&", Entity[c]>> ELSE <<c>>]
Escape(X, t) == Mapped(EscapeOf(X), t)

(* The tokens of an escaped text. *)
LEMMA EscapeOfType ==
  ASSUME NEW X \in SUBSET Specials, "&" \in X
  PROVE  Mapping(EscapeOf(X), Tokens, Seq(Tokens \ (X \ {"&"})))
<1> DEFINE T == Tokens \ (X \ {"&"})
<1>1. Monoid(Seq(T))
  BY SeqMonoid, Zenon
<1>2. ASSUME NEW c \in Tokens PROVE EscapeOf(X)[c] \in Seq(T)
  <2>1. CASE c \in X
    <3>1. EscapeOf(X)[c] = <<"&", Entity[c]>>
      BY <2>1 DEF EscapeOf
    <3>2. "&" \in T /\ Entity[c] \in T
      <4>1. c \in Specials /\ "&" \in Specials
        BY <2>1 DEF Specials
      <4> QED BY <4>1, Entities, TailsAreTokens
    <3> HIDE DEF T
    <3> QED BY <3>1, <3>2
  <2>2. CASE c \notin X
    <3>1. EscapeOf(X)[c] = <<c>>
      BY <2>2 DEF EscapeOf
    <3>2. c \in T
      BY <2>2
    <3> HIDE DEF T
    <3> QED BY <3>1, <3>2, OneType, Zenon
  <2> QED BY <2>1, <2>2
<1> QED BY <1>1, <1>2, Zenon DEF Mapping

(* In general. *)
LEMMA EscapeOfTexts ==
  ASSUME NEW X \in SUBSET Specials
  PROVE  Mapping(EscapeOf(X), Tokens, Texts)
<1>1. ASSUME NEW c \in Tokens PROVE EscapeOf(X)[c] \in Texts
  <2>1. CASE c \in X
    <3>1. EscapeOf(X)[c] = <<"&", Entity[c]>>
      BY <2>1 DEF EscapeOf
    <3>2. "&" \in Tokens /\ Entity[c] \in Tokens
      <4>1. c \in Specials /\ "&" \in Specials
        BY <2>1 DEF Specials
      <4> QED BY <4>1, Entities, TailsAreTokens
    <3> QED BY <3>1, <3>2 DEF Texts
  <2>2. CASE c \notin X
    <3>1. EscapeOf(X)[c] = <<c>>
      BY <2>2 DEF EscapeOf
    <3> QED BY <3>1, OneType, Zenon DEF Texts
  <2> QED BY <2>1, <2>2
<1> QED BY <1>1, TextsMonoid, Zenon DEF Mapping

(* Replacing one character is escaping that one. *)
LEMMA ReplaceIsEscape ==
  ASSUME NEW ch \in Specials, NEW t \in Texts
  PROVE  ReplaceChar(t, ch) = Escape({ch}, t)
<1>1. \A i \in DOMAIN t : t[i] \in Tokens
  BY ElementOfSeq, LenProperties DEF Texts
<1>2. \A i \in DOMAIN t : EscapeOf({ch})[t[i]] = IF t[i] = ch THEN <<"&", Entity[ch]>> ELSE <<t[i]>>
  BY <1>1 DEF EscapeOf
<1>3. [i \in DOMAIN t |-> EscapeOf({ch})[t[i]]] =
      [i \in DOMAIN t |-> IF t[i] = ch THEN <<"&", Entity[ch]>> ELSE <<t[i]>>]
  BY <1>2
<1> QED BY <1>3, Zenon DEF ReplaceChar, Escape, Mapped, Images

(* Escaping a character more. *)
LEMMA EscapeMore ==
  ASSUME NEW X \in SUBSET Specials, "&" \in X, NEW ch \in Specials \ X, NEW t \in Texts
  PROVE  Escape({ch}, Escape(X, t)) = Escape(X \union {ch}, t)
<1> DEFINE Y == X \union {ch}
           P == {u \in Texts : Escape({ch}, Escape(X, u)) = Escape(Y, u)}
<1>1. {ch} \in SUBSET Specials /\ Y \in SUBSET Specials
  OBVIOUS
<1> HIDE DEF Y
<1>2. /\ Mapping(EscapeOf(X), Tokens, Texts)
      /\ Mapping(EscapeOf(Y), Tokens, Texts)
      /\ Mapping(EscapeOf({ch}), Tokens, Texts)
  BY <1>1, EscapeOfTexts, Zenon
<1>3. <<>> \in P
  <2>1. <<>> \in Texts
    BY EmptySeq, Zenon DEF Texts
  <2>2. \A Z : Escape(Z, <<>>) = <<>>
    BY MappedEmpty, Zenon DEF Escape
  <2>3. Escape({ch}, Escape(X, <<>>)) = Escape(Y, <<>>)
    BY <2>2
  <2> QED BY <2>1, <2>3, Zenon
<1>4. ASSUME NEW c \in Tokens
      PROVE  Mapped(EscapeOf({ch}), EscapeOf(X)[c]) = EscapeOf(Y)[c]
  <2>1. CASE c \in X
    <3>1. PICK e \in Tokens : e = Entity[c] /\ e # ch
      BY <2>1, Entities, TailsAreTokens
    <3>2. "&" \in Tokens /\ "&" # ch
      BY KnownTokens
    <3>3. PICK a \in Seq(Tokens) : a = <<"&">>
      BY <3>2, OneType, Zenon
    <3>4. PICK b \in Seq(Tokens) : b = <<e>>
      BY OneType, Zenon
    <3>5. <<"&", e>> = Cat(a, b)
      BY <3>2, <3>3, <3>4, CatOfTwo, Zenon
    <3>6. EscapeOf({ch})["&"] = <<"&">> /\ EscapeOf({ch})[e] = <<e>>
      BY <3>1, <3>2 DEF EscapeOf
    <3>7. Mapped(EscapeOf({ch}), a) = a /\ Mapped(EscapeOf({ch}), b) = b
      BY <1>2, <3>2, <3>3, <3>4, <3>6, MappedOne
    <3>8. Mapped(EscapeOf({ch}), Cat(a, b)) = Cat(a, b)
      <4>1. Mapped(EscapeOf({ch}), Cat(a, b)) =
              Cat(Mapped(EscapeOf({ch}), a), Mapped(EscapeOf({ch}), b))
        BY <1>2, MappedCat
      <4> QED BY <3>7, <4>1, Zenon
    <3>9. EscapeOf(X)[c] = <<"&", e>> /\ EscapeOf(Y)[c] = <<"&", e>>
      BY <2>1, <3>1 DEF EscapeOf, Y
    <3> QED BY <3>5, <3>8, <3>9, Zenon
  <2>2. CASE c \notin X
    <3>1. EscapeOf(X)[c] = <<c>>
      BY <2>2 DEF EscapeOf
    <3>2. EscapeOf({ch})[c] = EscapeOf(Y)[c]
      BY <2>2 DEF EscapeOf, Y
    <3> QED BY <1>2, <3>1, <3>2, MappedOne
  <2> QED BY <2>1, <2>2
<1>5. ASSUME NEW s \in Seq(Tokens), NEW c \in Tokens, s \in P PROVE Cat(s, <<c>>) \in P
  <2>1. Cat(s, <<c>>) \in Texts
    BY OneType, CatType, Zenon DEF Texts
  <2>2. Escape(X, Cat(s, <<c>>)) = Cat(Escape(X, s), EscapeOf(X)[c])
    BY <1>2, MappedLast DEF Escape
  <2>3. Escape(Y, Cat(s, <<c>>)) = Cat(Escape(Y, s), EscapeOf(Y)[c])
    BY <1>2, MappedLast DEF Escape
  <2>4. Escape(X, s) \in Seq(Tokens) /\ EscapeOf(X)[c] \in Seq(Tokens)
    BY <1>2, MappedType, Zenon DEF Escape, Texts, Mapping
  <2>5. Escape({ch}, Cat(Escape(X, s), EscapeOf(X)[c])) =
          Cat(Escape({ch}, Escape(X, s)), Mapped(EscapeOf({ch}), EscapeOf(X)[c]))
    BY <1>2, <2>4, MappedCat DEF Escape
  <2> QED BY <1>4, <1>5, <2>1, <2>2, <2>3, <2>5, Zenon
<1> HIDE DEF P
<1>6. t \in P
  BY <1>3, <1>5, InductionLast, Zenon DEF Texts
<1> QED BY <1>6, Zenon DEF P, Y

TextSpecials == {"&", "[", "]"}

(* The escaping of texts and of values. *)
LEMMA EscapeTextIs ==
  ASSUME NEW t \in Texts
  PROVE  EscapeCQText(t) = Escape(TextSpecials, t)
<1>1. Escape({"["}, Escape({"&"}, t)) = Escape({"&", "["}, t)
  <2>1. {"&"} \in SUBSET Specials /\ "[" \in Specials \ {"&"} /\ {"&"} \union {"["} = {"&", "["}
    BY DEF Specials
  <2> QED BY <2>1, EscapeMore
<1>2. Escape({"]"}, Escape({"&", "["}, t)) = Escape(TextSpecials, t)
  <2>1. /\ {"&", "["} \in SUBSET Specials /\ "]" \in Specials \ {"&", "["}
        /\ {"&", "["} \union {"]"} = TextSpecials
    BY DEF Specials, TextSpecials
  <2> QED BY <2>1, EscapeMore
<1>3. "&" \in Specials /\ "[" \in Specials /\ "]" \in Specials /\ {"&"} \in SUBSET Specials
      /\ {"&", "["} \in SUBSET Specials
  BY DEF Specials
<1>4. Escape({"&"}, t) \in Texts /\ Escape({"&", "["}, t) \in Texts
  BY <1>3, EscapeOfTexts, MappedType, Zenon DEF Escape, Texts
<1>5. /\ ReplaceChar(t, "&") = Escape({"&"}, t)
      /\ ReplaceChar(Escape({"&"}, t), "[") = Escape({"["}, Escape({"&"}, t))
      /\ ReplaceChar(Escape({"&", "["}, t), "]") = Escape({"]"}, Escape({"&", "["}, t))
  BY <1>3, <1>4, ReplaceIsEscape, Zenon
<1> QED BY <1>1, <1>2, <1>5, Zenon DEF EscapeCQText

(* The escaping of values. *)
LEMMA EscapeValueIs ==
  ASSUME NEW t \in Texts
  PROVE  EscapeCQValue(t) = Escape(Specials, t)
<1>1. /\ TextSpecials \in SUBSET Specials /\ "," \in Specials \ TextSpecials
      /\ "&" \in TextSpecials /\ TextSpecials \union {","} = Specials /\ "," \in Specials
  BY DEF Specials, TextSpecials
<1>2. Escape({","}, Escape(TextSpecials, t)) = Escape(Specials, t)
  BY <1>1, EscapeMore, Zenon
<1>3. Escape(TextSpecials, t) \in Texts
  BY <1>1, EscapeOfTexts, MappedType, Zenon DEF Escape, Texts
<1>4. ReplaceChar(Escape(TextSpecials, t), ",") = Escape({","}, Escape(TextSpecials, t))
  BY <1>1, <1>3, ReplaceIsEscape, Zenon
<1> QED BY <1>2, <1>4, EscapeTextIs, Zenon DEF EscapeCQValue

(* The text that is escaped, token by token. *)
LEMMA EscapeLast ==
  ASSUME NEW X \in SUBSET Specials, NEW t \in Texts, NEW c \in Tokens
  PROVE  Escape(X, Cat(t, <<c>>)) = Cat(Escape(X, t), EscapeOf(X)[c])
<1>1. Mapping(EscapeOf(X), Tokens, Texts) /\ t \in Seq(Tokens)
  BY EscapeOfTexts, Zenon DEF Texts
<1> QED BY <1>1, MappedLast DEF Escape

-----------------------------------------------------------------------------
(* Unescaping. *)

EndedTexts == {u \in Texts : u = <<>> \/ u[Len(u)] # "&"}

(* Texts that do not end within an entity, put together, are such a text. *)
LEMMA EndedMonoid == Monoid(EndedTexts)
<1>1. <<>> \in EndedTexts
  BY TextsMonoid, Zenon DEF Monoid, EndedTexts
<1>2. ASSUME NEW s \in EndedTexts, NEW t \in EndedTexts PROVE Cat(s, t) \in EndedTexts
  <2>1. s \in Seq(Tokens) /\ t \in Seq(Tokens)
    BY Zenon DEF EndedTexts, Texts
  <2>2. PICK u \in Seq(Tokens) : u = Cat(s, t)
    BY <2>1, CatType, Zenon
  <2>3. CASE t = <<>>
    BY <2>1, <2>3, CatEmpty, Zenon
  <2>4. CASE t # <<>>
    <3>1. Len(t) \in 1..Len(t) /\ Len(s) \in Nat
      BY <2>1, <2>4, EmptySeq, LenProperties
    <3>2. Len(u) = Len(s) + Len(t)
      BY <2>1, <2>2, CatLen
    <3>3. u[Len(s) + Len(t)] = t[Len(t)]
      BY <2>1, <2>2, <3>1, CatRight
    <3>4. t[Len(t)] # "&"
      BY <2>4, Zenon DEF EndedTexts
    <3>5. u[Len(u)] # "&"
      BY <3>2, <3>3, <3>4, Zenon
    <3> QED BY <2>2, <3>5, Zenon DEF EndedTexts, Texts
  <2> QED BY <2>3, <2>4
<1>3. \A s \in EndedTexts : s \in Texts
  BY Zenon DEF EndedTexts
<1>4. \A s \in EndedTexts : Cat(<<>>, s) = s /\ Cat(s, <<>>) = s
  BY <1>3, TextsMonoid, Zenon DEF Monoid
<1>5. \A s, t, u \in EndedTexts : Cat(Cat(s, t), u) = Cat(s, Cat(t, u))
  BY <1>3, TextsMonoid, Zenon DEF Monoid
<1> QED BY <1>1, <1>2, <1>4, <1>5, Zenon DEF Monoid

(* An escaped text does not end within an entity. *)
LEMMA EscapedEnds ==
  ASSUME NEW X \in SUBSET Specials, "&" \in X, NEW t \in Texts
  PROVE  Escape(X, t) \in EndedTexts
<1>1. ASSUME NEW c \in Tokens PROVE EscapeOf(X)[c] \in EndedTexts
  <2>1. EscapeOf(X)[c] \in Texts
    BY EscapeOfTexts, Zenon DEF Mapping
  <2>2. CASE c \in X
    <3>1. PICK e : e = Entity[c] /\ e # "&"
      <4>1. c \in Specials /\ "&" \in Specials
        BY <2>2 DEF Specials
      <4> QED BY <4>1, Entities, TailsAreTokens
    <3>2. EscapeOf(X)[c] = <<"&", e>>
      BY <2>2, <3>1 DEF EscapeOf
    <3>3. Len(<<"&", e>>) = 2 /\ <<"&", e>>[2] = e
      OBVIOUS
    <3> QED BY <2>1, <3>1, <3>2, <3>3, Zenon DEF EndedTexts
  <2>3. CASE c \notin X
    <3>1. EscapeOf(X)[c] = <<c>>
      BY <2>3 DEF EscapeOf
    <3>2. Len(<<c>>) = 1 /\ <<c>>[1] = c
      OBVIOUS
    <3>3. c # "&"
      BY <2>3
    <3> QED BY <2>1, <3>1, <3>2, <3>3, Zenon DEF EndedTexts
  <2> QED BY <2>2, <2>3
<1>2. Mapping(EscapeOf(X), Tokens, EndedTexts)
  BY <1>1, EndedMonoid, Zenon DEF Mapping
<1> QED BY <1>2, MappedType DEF Escape, Texts

Unescaped(t) ==
  [i \in DOMAIN t |->
    IF EntityAt(t, i) THEN <<CHOOSE ch \in DOMAIN Entity : Entity[ch] = t[i + 1]>>
    ELSE IF EntityAt(t, i - 1) THEN <<>>
    ELSE <<t[i]>>]

(* The text that is read. *)
LEMMA UnescapeIs ==
  ASSUME NEW t
  PROVE  UnescapeCQText(t) = FlattenSeq(Unescaped(t))
BY Zenon DEF UnescapeCQText, Unescaped

(* Where there is an entity. *)
LEMMA EntityAtIs ==
  ASSUME NEW t, NEW i
  PROVE  EntityAt(t, i) <=> i \in 1..(Len(t) - 1) /\ t[i] = "&" /\ t[i + 1] \in Tails
<1>1. (\E ch \in DOMAIN Entity : t[i + 1] = Entity[ch]) <=> t[i + 1] \in Tails
  BY Entities, Zenon
<1> QED BY <1>1, Zenon DEF EntityAt

(* Reading an entity gives the character it is for. *)
LEMMA EntityRead ==
  ASSUME NEW ch \in Specials, NEW e, e = Entity[ch]
  PROVE  (CHOOSE c \in DOMAIN Entity : Entity[c] = e) = ch
BY Entities

(* What is flattened to the unescaped text. *)
LEMMA UnescapedType ==
  ASSUME NEW t \in Texts, NEW n \in Nat, n = Len(t)
  PROVE  Unescaped(t) \in [1..n -> Texts] /\ Len(Unescaped(t)) = n
<1>1. DOMAIN t = 1..n /\ \A i \in 1..n : t[i] \in Tokens
  BY LenProperties DEF Texts
<1>2. \A c \in Tokens : <<c>> \in Texts
  BY OneType, Zenon DEF Texts
<1>3. <<>> \in Texts
  BY TextsMonoid, Zenon DEF Monoid
<1>4. PICK f : f = Unescaped(t) /\ f = [i \in 1..n |-> Unescaped(t)[i]]
  BY <1>1 DEF Unescaped
<1>5. ASSUME NEW i \in 1..n PROVE f[i] \in Texts
  <2>1. f[i] = IF EntityAt(t, i) THEN <<CHOOSE ch \in DOMAIN Entity : Entity[ch] = t[i + 1]>>
               ELSE IF EntityAt(t, i - 1) THEN <<>>
               ELSE <<t[i]>>
    BY <1>1, <1>4 DEF Unescaped
  <2>2. CASE EntityAt(t, i)
    <3>1. PICK ch \in Specials : Entity[ch] = t[i + 1]
      BY <2>2, EntityAtIs, Entities, Zenon
    <3>2. PICK e : e = t[i + 1]
      BY Zenon
    <3>3. (CHOOSE c \in DOMAIN Entity : Entity[c] = e) = ch
      BY <3>1, <3>2, EntityRead
    <3>4. f[i] = <<CHOOSE c \in DOMAIN Entity : Entity[c] = e>>
      BY <2>1, <2>2, <3>2, Zenon
    <3> QED BY <1>2, <3>3, <3>4, TailsAreTokens, Zenon
  <2>3. CASE ~EntityAt(t, i)
    BY <1>1, <1>2, <1>3, <2>1, <2>3, Zenon
  <2> QED BY <2>2, <2>3
<1>6. f \in [1..n -> Texts]
  BY <1>4, <1>5
<1>7. Len(f) = n
  BY <1>6, FunctionIsSeq
<1> QED BY <1>4, <1>6, <1>7

(* Unescaped text is text. *)
LEMMA UnescapeType ==
  ASSUME NEW t \in Texts
  PROVE  UnescapeCQText(t) \in Texts
<1>1. PICK n \in Nat : n = Len(t)
  BY LenProperties, Zenon DEF Texts
<1>2. Unescaped(t) \in [1..n -> Texts]
  BY <1>1, UnescapedType
<1>3. Unescaped(t) \in Seq(Texts)
  BY <1>2, SeqDef, Zenon
<1> QED BY <1>3, FlattenType, TextsMonoid, Zenon DEF UnescapeCQText, Unescaped

(* One token more in a text: the entities before it stay what they are. *)
LEMMA UnescapedExtended ==
  ASSUME NEW s \in Texts, NEW t \in Texts, NEW n \in Nat, Len(s) = n, Len(t) = n + 1,
         \A i \in 1..n : t[i] = s[i],
         t[n + 1] \notin Tails \/ s \in EndedTexts
  PROVE  /\ \A i \in 1..n : Unescaped(t)[i] = Unescaped(s)[i]
         /\ Unescaped(t)[n + 1] = <<t[n + 1]>>
<1>1. DOMAIN s = 1..n /\ DOMAIN t = 1..(n + 1)
  BY LenProperties, Zenon DEF Texts
<1>2. ~EntityAt(t, n)
  <2>1. CASE t[n + 1] \in Tails
    <3>1. s \in EndedTexts
      BY <2>1, Zenon
    <3>2. n \in 1..n => s[n] # "&"
      <4>1. ASSUME n \in 1..n PROVE s # <<>>
        BY <4>1, EmptySeq
      <4> QED BY <3>1, <4>1, Zenon DEF EndedTexts
    <3>3. n \in 1..n => t[n] # "&"
      BY <3>2, Zenon
    <3>4. n \in 1..(Len(t) - 1) => n \in 1..n
      OBVIOUS
    <3> QED BY <3>3, <3>4, EntityAtIs, Zenon
  <2>2. CASE t[n + 1] \notin Tails
    BY <2>2, EntityAtIs, Zenon
  <2> QED BY <2>1, <2>2
<1>3. ~EntityAt(t, n + 1)
  <2>1. ~(n + 1 \in 1..(Len(t) - 1))
    OBVIOUS
  <2> QED BY <2>1, EntityAtIs, Zenon
<1>4. ~EntityAt(s, n)
  <2>1. ~(n \in 1..(Len(s) - 1))
    OBVIOUS
  <2> QED BY <2>1, EntityAtIs, Zenon
<1>5. ASSUME NEW i \in 0..n PROVE EntityAt(t, i) <=> EntityAt(s, i)
  <2>1. CASE i = n
    BY <1>2, <1>4, <2>1, Zenon
  <2>2. CASE i # n
    <3>1. (i \in 1..(Len(t) - 1) <=> i \in 1..(Len(s) - 1))
      BY <2>2
    <3>2. ASSUME i \in 1..(Len(s) - 1) PROVE t[i] = s[i] /\ t[i + 1] = s[i + 1]
      BY <3>2
    <3> QED BY <3>1, <3>2, EntityAtIs, Zenon
  <2> QED BY <2>1, <2>2
<1>6. ASSUME NEW i \in 1..n PROVE Unescaped(t)[i] = Unescaped(s)[i]
  <2>1. (EntityAt(t, i) <=> EntityAt(s, i)) /\ (EntityAt(t, i - 1) <=> EntityAt(s, i - 1))
    <3>1. i \in 0..n /\ i - 1 \in 0..n
      OBVIOUS
    <3> QED BY <1>5, <3>1, Zenon
  <2>2. /\ Unescaped(s)[i] = IF EntityAt(s, i)
                               THEN <<CHOOSE ch \in DOMAIN Entity : Entity[ch] = s[i + 1]>>
                             ELSE IF EntityAt(s, i - 1) THEN <<>> ELSE <<s[i]>>
        /\ Unescaped(t)[i] = IF EntityAt(t, i)
                               THEN <<CHOOSE ch \in DOMAIN Entity : Entity[ch] = t[i + 1]>>
                             ELSE IF EntityAt(t, i - 1) THEN <<>> ELSE <<t[i]>>
    <3>1. i \in DOMAIN s /\ i \in DOMAIN t
      BY <1>1
    <3> QED BY <3>1, Zenon DEF Unescaped
  <2>3. EntityAt(s, i) => t[i + 1] = s[i + 1]
    <3>1. EntityAt(s, i) => i \in 1..(Len(s) - 1)
      BY EntityAtIs, Zenon
    <3>2. i \in 1..(Len(s) - 1) => i + 1 \in 1..n
      OBVIOUS
    <3> QED BY <3>1, <3>2, Zenon
  <2>4. t[i] = s[i]
    OBVIOUS
  <2>5. CASE EntityAt(s, i)
    BY <2>1, <2>2, <2>3, <2>5, Zenon
  <2>6. CASE ~EntityAt(s, i)
    BY <2>1, <2>2, <2>4, <2>6, Zenon
  <2> QED BY <2>5, <2>6
<1>7. Unescaped(t)[n + 1] = <<t[n + 1]>>
  <2>1. n + 1 \in DOMAIN t /\ (n + 1) - 1 = n
    BY <1>1
  <2>2. ~EntityAt(t, (n + 1) - 1)
    BY <1>2, <2>1, Zenon
  <2> QED BY <1>3, <2>1, <2>2, Zenon DEF Unescaped
<1> QED BY <1>6, <1>7, Zenon

(* What a text with a token more is made of. *)
LEMMA TokenMore ==
  ASSUME NEW s \in Texts, NEW c \in Tokens, NEW n \in Nat, Len(s) = n
  PROVE  \E t \in Texts :
           /\ t = Cat(s, <<c>>) /\ Len(t) = n + 1 /\ t[n + 1] = c
           /\ \A i \in 1..n : t[i] = s[i]
<1> USE DEF Texts
<1>1. PICK o \in Seq(Tokens) : o = <<c>> /\ Len(o) = 1 /\ o[1] = c
  BY OneType, Zenon
<1>2. PICK t \in Seq(Tokens) : t = Cat(s, o)
  BY CatType, Zenon
<1>3. Len(t) = Len(s) + Len(o)
  BY <1>2, CatLen
<1>4. t[Len(s) + 1] = o[1]
  <2>1. 1 \in 1..Len(o)
    BY <1>1
  <2> QED BY <1>2, <2>1, CatRight
<1>5. \A i \in 1..Len(s) : t[i] = s[i]
  BY <1>2, CatLeft
<1>6. Len(t) = n + 1 /\ t[n + 1] = c /\ \A i \in 1..n : t[i] = s[i]
  BY <1>1, <1>3, <1>4, <1>5, Zenon
<1> QED BY <1>1, <1>2, <1>6, Zenon

(* A token that does not end an entity is read as it is. *)
LEMMA UnescapeToken ==
  ASSUME NEW s \in Texts, NEW c \in Tokens, c \notin Tails \/ s \in EndedTexts
  PROVE  UnescapeCQText(Cat(s, <<c>>)) = Cat(UnescapeCQText(s), <<c>>)
<1>1. PICK n \in Nat : Len(s) = n
  BY LenProperties, Zenon DEF Texts
<1>2. PICK t \in Texts : /\ t = Cat(s, <<c>>) /\ Len(t) = n + 1 /\ t[n + 1] = c
                         /\ \A i \in 1..n : t[i] = s[i]
  BY <1>1, TokenMore
<1>3. PICK f : f = Unescaped(s)
  BY Zenon
<1>4. PICK g : g = Unescaped(t)
  BY Zenon
<1>5. f \in [1..n -> Texts] /\ Len(f) = n
  BY <1>1, <1>3, UnescapedType
<1>6. g \in [1..(n + 1) -> Texts] /\ Len(g) = n + 1
  <2>1. n + 1 \in Nat
    OBVIOUS
  <2> QED BY <1>2, <1>4, <2>1, UnescapedType
<1>7. PICK o \in Texts : o = <<c>>
  BY OneType, Zenon DEF Texts
<1>8. g[n + 1] = o /\ \A i \in 1..n : g[i] = f[i]
  <2>1. /\ \A i \in 1..n : Unescaped(t)[i] = Unescaped(s)[i]
        /\ Unescaped(t)[n + 1] = <<t[n + 1]>>
    BY <1>1, <1>2, UnescapedExtended
  <2> QED BY <1>2, <1>3, <1>4, <1>7, <2>1, Zenon
<1>9. FlattenSeq(g) = Cat(FlattenSeq(f), o)
  BY <1>5, <1>6, <1>8, TextsMonoid, FlattenExtended
<1> QED BY <1>2, <1>3, <1>4, <1>7, <1>9, UnescapeIs, Zenon

(* An entity is read as the character it is for. *)
LEMMA UnescapeEntity ==
  ASSUME NEW s \in Texts, NEW ch \in Specials
  PROVE  UnescapeCQText(Cat(s, <<"&", Entity[ch]>>)) = Cat(UnescapeCQText(s), <<ch>>)
<1>1. PICK n \in Nat : Len(s) = n
  BY LenProperties, Zenon DEF Texts
<1>2. PICK e \in Tails : e = Entity[ch] /\ e \in Tokens /\ e # "&"
  <2>1. "&" \in Specials
    BY DEF Specials
  <2> QED BY <2>1, Entities, TailsAreTokens
<1>3. "&" \in Tokens /\ "&" \notin Tails
  BY KnownTokens DEF Tails, Specials
<1>4. PICK t \in Texts : /\ t = Cat(s, <<"&">>) /\ Len(t) = n + 1 /\ t[n + 1] = "&"
                         /\ \A i \in 1..n : t[i] = s[i]
  BY <1>1, <1>3, TokenMore
<1>5. PICK u \in Texts : /\ u = Cat(t, <<e>>) /\ Len(u) = n + 2 /\ u[n + 2] = e
                         /\ \A i \in 1..(n + 1) : u[i] = t[i]
  <2>1. PICK m \in Nat : m = n + 1 /\ m + 1 = n + 2
    OBVIOUS
  <2>2. Len(t) = m
    BY <1>4, <2>1, Zenon
  <2>3. \E w \in Texts : /\ w = Cat(t, <<e>>) /\ Len(w) = m + 1 /\ w[m + 1] = e
                         /\ \A i \in 1..m : w[i] = t[i]
    BY <1>2, <2>2, TokenMore
  <2> QED BY <2>1, <2>3, Zenon
<1>6. u = Cat(s, <<"&", e>>)
  <2>1. PICK a \in Seq(Tokens) : a = <<"&">>
    BY <1>3, OneType, Zenon
  <2>2. PICK b \in Seq(Tokens) : b = <<e>>
    BY <1>2, OneType, Zenon
  <2>3. s \in Seq(Tokens)
    BY Zenon DEF Texts
  <2>4. Cat(Cat(s, a), b) = Cat(s, Cat(a, b))
    BY <2>3, CatAssociative
  <2>5. Cat(a, b) = <<"&", e>>
    BY <1>2, <1>3, <2>1, <2>2, CatOfTwo, Zenon
  <2> QED BY <1>4, <1>5, <2>1, <2>2, <2>4, <2>5, Zenon
<1>7. PICK f : f = Unescaped(s)
  BY Zenon
<1>8. PICK g : g = Unescaped(t)
  BY Zenon
<1>9. PICK h : h = Unescaped(u)
  BY Zenon
<1>10. f \in [1..n -> Texts] /\ Len(f) = n
  BY <1>1, <1>7, UnescapedType
<1>11. h \in [1..(n + 2) -> Texts] /\ Len(h) = n + 2
  <2>1. n + 2 \in Nat
    OBVIOUS
  <2> QED BY <1>5, <1>9, <2>1, UnescapedType
<1>12. \A i \in 1..n : g[i] = f[i]
  <2>1. \A i \in 1..n : Unescaped(t)[i] = Unescaped(s)[i]
    BY <1>1, <1>3, <1>4, UnescapedExtended
  <2> QED BY <1>7, <1>8, <2>1, Zenon
<1>13. DOMAIN t = 1..(n + 1) /\ DOMAIN u = 1..(n + 2)
  BY <1>4, <1>5, LenProperties, Zenon DEF Texts
<1>14. ASSUME NEW i \in 0..n PROVE EntityAt(u, i) <=> EntityAt(t, i)
  <2>1. CASE i \in 1..n
    <3>1. i \in 1..(Len(u) - 1) /\ i \in 1..(Len(t) - 1) /\ u[i] = t[i] /\ u[i + 1] = t[i + 1]
      BY <1>4, <1>5, <2>1
    <3> QED BY <3>1, EntityAtIs, Zenon
  <2>2. CASE i \notin 1..n
    <3>1. i \notin 1..(Len(u) - 1) /\ i \notin 1..(Len(t) - 1)
      BY <2>2
    <3> QED BY <3>1, EntityAtIs, Zenon
  <2> QED BY <2>1, <2>2
<1>15. ASSUME NEW i \in 1..n PROVE h[i] = f[i]
  <2>1. (EntityAt(u, i) <=> EntityAt(t, i)) /\ (EntityAt(u, i - 1) <=> EntityAt(t, i - 1))
    <3>1. i \in 0..n /\ i - 1 \in 0..n
      OBVIOUS
    <3> QED BY <1>14, <3>1, Zenon
  <2>2. i \in DOMAIN t /\ i \in DOMAIN u /\ u[i] = t[i] /\ u[i + 1] = t[i + 1]
    BY <1>5, <1>13
  <2>3. Unescaped(u)[i] = Unescaped(t)[i]
    <3>1. /\ Unescaped(t)[i] = IF EntityAt(t, i)
                                 THEN <<CHOOSE c \in DOMAIN Entity : Entity[c] = t[i + 1]>>
                               ELSE IF EntityAt(t, i - 1) THEN <<>> ELSE <<t[i]>>
          /\ Unescaped(u)[i] = IF EntityAt(u, i)
                                 THEN <<CHOOSE c \in DOMAIN Entity : Entity[c] = u[i + 1]>>
                               ELSE IF EntityAt(u, i - 1) THEN <<>> ELSE <<u[i]>>
      BY <2>2, Zenon DEF Unescaped
    <3>2. CASE EntityAt(t, i)
      BY <2>1, <2>2, <3>1, <3>2, Zenon
    <3>3. CASE ~EntityAt(t, i)
      BY <2>1, <2>2, <3>1, <3>3, Zenon
    <3> QED BY <3>2, <3>3
  <2> QED BY <1>8, <1>9, <1>12, <2>3, Zenon
<1>16. EntityAt(u, n + 1) /\ u[(n + 1) + 1] = e
  <2>1. n + 1 \in 1..(Len(u) - 1) /\ u[n + 1] = "&" /\ u[(n + 1) + 1] = e
    BY <1>4, <1>5
  <2> QED BY <1>2, <2>1, EntityAtIs, Zenon
<1>17. h[n + 1] = <<ch>>
  <2>1. n + 1 \in DOMAIN u
    BY <1>13
  <2>2. h[n + 1] = <<CHOOSE c \in DOMAIN Entity : Entity[c] = e>>
    BY <1>9, <1>16, <2>1, Zenon DEF Unescaped
  <2>3. (CHOOSE c \in DOMAIN Entity : Entity[c] = e) = ch
    BY <1>2, EntityRead
  <2> QED BY <2>2, <2>3, Zenon
<1>18. h[n + 2] = <<>>
  <2>1. n + 2 \in DOMAIN u /\ ~(n + 2 \in 1..(Len(u) - 1)) /\ (n + 2) - 1 = n + 1
    BY <1>5, <1>13
  <2>2. ~EntityAt(u, n + 2) /\ EntityAt(u, (n + 2) - 1)
    BY <1>16, <2>1, EntityAtIs, Zenon
  <2> QED BY <1>9, <2>1, <2>2, Zenon DEF Unescaped
<1>19. PICK o \in Texts : o = <<ch>>
  BY OneType, TailsAreTokens, Zenon DEF Texts
<1>20. PICK z \in Texts : z = <<>>
  BY TextsMonoid, Zenon DEF Monoid
<1> DEFINE m == [i \in 1..(n + 1) |-> h[i]]
<1>21. m \in [1..(n + 1) -> Texts] /\ Len(m) = n + 1
  <2>1. m \in [1..(n + 1) -> Texts]
    BY <1>11
  <2>2. n + 1 \in Nat
    OBVIOUS
  <2> HIDE DEF m
  <2> QED BY <2>1, <2>2, FunctionIsSeq
<1>22. m[n + 1] = o /\ \A i \in 1..n : m[i] = f[i]
  BY <1>15, <1>17, <1>19
<1>23. \A i \in 1..(n + 1) : h[i] = m[i]
  OBVIOUS
<1> HIDE DEF m
<1>24. FlattenSeq(m) = Cat(FlattenSeq(f), o)
  BY <1>10, <1>21, <1>22, TextsMonoid, FlattenExtended
<1>25. FlattenSeq(h) = Cat(FlattenSeq(m), z)
  <2>1. PICK k \in Nat : k = n + 1 /\ k + 1 = n + 2
    OBVIOUS
  <2>2. m \in [1..k -> Texts] /\ Len(m) = k /\ h \in [1..(k + 1) -> Texts] /\ Len(h) = k + 1
    BY <1>11, <1>21, <2>1, Zenon
  <2>3. h[k + 1] = z /\ \A i \in 1..k : h[i] = m[i]
    BY <1>18, <1>20, <1>23, <2>1, Zenon
  <2> QED BY <2>2, <2>3, TextsMonoid, FlattenExtended
<1>26. FlattenSeq(m) \in Texts
  <2>1. n + 1 \in Nat
    OBVIOUS
  <2>2. m \in Seq(Texts)
    BY <1>21, <2>1, FunctionIsSeq
  <2> QED BY <2>2, TextsMonoid, FlattenType, Zenon
<1>27. FlattenSeq(h) = FlattenSeq(m)
  BY <1>20, <1>25, <1>26, TextsMonoid, Zenon DEF Monoid
<1> QED BY <1>2, <1>6, <1>7, <1>9, <1>19, <1>24, <1>27, UnescapeIs, Zenon

(* Nothing is read as nothing. *)
LEMMA UnescapeEmpty == UnescapeCQText(<<>>) = <<>>
<1>1. Unescaped(<<>>) = <<>>
  BY DEF Unescaped
<1> QED BY <1>1, UnescapeIs, FlattenEmpty, Zenon

(* What was escaped is read as it was. *)
LEMMA UnescapeEscape ==
  ASSUME NEW X \in SUBSET Specials, "&" \in X, NEW t \in Texts
  PROVE  UnescapeCQText(Escape(X, t)) = t
<1> DEFINE P == {u \in Texts : UnescapeCQText(Escape(X, u)) = u}
<1>1. <<>> \in P
  BY UnescapeEmpty, MappedEmpty, TextsMonoid, Zenon DEF Escape, Monoid
<1>2. ASSUME NEW s \in Seq(Tokens), NEW c \in Tokens, s \in P PROVE Cat(s, <<c>>) \in P
  <2>1. s \in Texts /\ Cat(s, <<c>>) \in Texts
    BY OneType, CatType, Zenon DEF Texts
  <2>2. Escape(X, Cat(s, <<c>>)) = Cat(Escape(X, s), EscapeOf(X)[c])
    BY <2>1, EscapeLast
  <2>3. Escape(X, s) \in EndedTexts /\ Escape(X, s) \in Texts
    BY <2>1, EscapedEnds, Zenon DEF EndedTexts
  <2>4. CASE c \in X
    <3>1. EscapeOf(X)[c] = <<"&", Entity[c]>> /\ c \in Specials
      BY <2>4 DEF EscapeOf
    <3>2. UnescapeCQText(Cat(Escape(X, s), <<"&", Entity[c]>>)) =
            Cat(UnescapeCQText(Escape(X, s)), <<c>>)
      BY <2>3, <3>1, UnescapeEntity, Zenon
    <3> QED BY <1>2, <2>1, <2>2, <3>1, <3>2, Zenon
  <2>5. CASE c \notin X
    <3>1. EscapeOf(X)[c] = <<c>>
      BY <2>5 DEF EscapeOf
    <3>2. UnescapeCQText(Cat(Escape(X, s), <<c>>)) = Cat(UnescapeCQText(Escape(X, s)), <<c>>)
      BY <2>3, UnescapeToken, Zenon
    <3> QED BY <1>2, <2>1, <2>2, <3>1, <3>2, Zenon
  <2> QED BY <2>4, <2>5
<1> HIDE DEF P
<1>3. t \in P
  BY <1>1, <1>2, InductionLast, Zenon DEF Texts
<1> QED BY <1>3, Zenon DEF P

-----------------------------------------------------------------------------
(* Segments. *)

Data == UNION {[D -> Texts] : D \in SUBSET Texts}
SegmentTypes == CQTypes \union {"text"}
Segments == [type : SegmentTypes, data : Data]

(* A segment has a type and data. *)
LEMMA SegmentType ==
  ASSUME NEW type \in SegmentTypes, NEW data \in Data
  PROVE  /\ [type |-> type, data |-> data] \in Segments
         /\ [type |-> type, data |-> data].type = type
         /\ [type |-> type, data |-> data].data = data
BY DEF Segments

(* And nothing else. *)
LEMMA SegmentParts ==
  ASSUME NEW s \in Segments
  PROVE  s.type \in SegmentTypes /\ s.data \in Data
BY DEF Segments

(* Data are functions from texts to texts. *)
LEMMA DataIs ==
  ASSUME NEW D \in SUBSET Texts, NEW data \in [D -> Texts]
  PROVE  data \in Data
BY DEF Data

(* And so are all data. *)
LEMMA DataParts ==
  ASSUME NEW data \in Data
  PROVE  /\ DOMAIN data \subseteq Texts
         /\ \A k \in DOMAIN data : data[k] \in Texts
BY DEF Data

(* The keys of segments. *)
LEMMA Keys ==
  /\ \A key \in {"text", "file", "url", "qq", "id"} : Token(key) \in Texts
  /\ \A key, other \in {"text", "file", "url", "qq", "id"} :
       Token(key) = Token(other) => key = other
<1>1. ASSUME NEW key \in {"text", "file", "url", "qq", "id"} PROVE Token(key) \in Texts
  <2>1. key \in Tokens
    BY KnownTokens
  <2> QED BY <2>1, OneType, Zenon DEF Token, Texts
<1>2. ASSUME NEW key, NEW other, <<key>> = <<other>> PROVE key = other
  <2>1. <<key>>[1] = key /\ <<other>>[1] = other
    OBVIOUS
  <2> QED BY <1>2, <2>1, Zenon
<1> QED BY <1>1, <1>2, Zenon DEF Token

(* An entry of data. *)
LEMMA GetType ==
  ASSUME NEW data \in Data, NEW key
  PROVE  Get(data, key) \in Texts
<1>1. <<>> \in Texts
  BY TextsMonoid, Zenon DEF Monoid
<1> QED BY <1>1, DataParts, Zenon DEF Get

(* A segment of one entry. *)
LEMMA OneEntry ==
  ASSUME NEW type \in SegmentTypes, NEW key \in {"text", "file", "url", "qq", "id"},
         NEW v \in Texts
  PROVE  /\ Segment(type, key, v) \in Segments
         /\ Segment(type, key, v).type = type
         /\ Get(Segment(type, key, v).data, key) = v
<1>1. PICK k \in Texts : k = Token(key)
  BY Keys, Zenon
<1>2. PICK data : data = [x \in {k} |-> v]
  BY Zenon
<1>3. data \in [{k} -> Texts] /\ data[k] = v /\ DOMAIN data = {k}
  BY <1>2
<1>4. data \in Data
  BY <1>3, DataIs
<1>5. Get(data, key) = v
  BY <1>1, <1>3, Zenon DEF Get
<1>6. Segment(type, key, v) = [type |-> type, data |-> data]
  BY <1>1, <1>2, Zenon DEF Segment
<1>7. PICK s : s = [type |-> type, data |-> data]
  BY Zenon
<1>8. s \in Segments /\ s.type = type /\ s.data = data
  BY <1>4, <1>7, SegmentType
<1> QED BY <1>5, <1>6, <1>7, <1>8, Zenon

(* The other keys have no entry in it. *)
LEMMA OtherEntry ==
  ASSUME NEW type, NEW key \in {"text", "file", "url", "qq", "id"}, NEW v,
         NEW other \in {"text", "file", "url", "qq", "id"}, other # key
  PROVE  Get(Segment(type, key, v).data, other) = <<>>
<1>1. Token(other) # Token(key)
  BY Keys, Zenon
<1>2. PICK data : data = [x \in {Token(key)} |-> v]
  BY Zenon
<1>3. DOMAIN data = {Token(key)}
  BY <1>2
<1>4. Segment(type, key, v).data = data
  BY <1>2 DEF Segment
<1>5. Get(data, other) = <<>>
  BY <1>1, <1>3, Zenon DEF Get
<1> QED BY <1>4, <1>5, Zenon

(* The types of segments and the keys they have. *)
LEMMA TypesAndKeys ==
  /\ CQTypes = {"image", "record", "at", "poke", "reply"}
  /\ Media = {"image", "record"}
  /\ DOMAIN KeyOf = {"at", "poke", "reply"}
  /\ KeyOf["at"] = "qq" /\ KeyOf["poke"] = "qq" /\ KeyOf["reply"] = "id"
BY DEF CQTypes, Media, KeyOf

(* A segment of text. *)
LEMMA TextSegmentType ==
  ASSUME NEW t \in Texts
  PROVE  /\ TextSegment(t) \in Segments
         /\ TextSegment(t).type = "text"
         /\ Get(TextSegment(t).data, "text") = t
<1>1. "text" \in SegmentTypes
  BY DEF SegmentTypes
<1> QED BY <1>1, OneEntry DEF TextSegment

(* The file and the url of a picture or a recording. *)
LEMMA MediaEntries ==
  ASSUME NEW data \in Data
  PROVE  /\ NormalizeMediaData(data) \in Data
         /\ Get(NormalizeMediaData(data), "file") = Get(data, "file")
         /\ Get(NormalizeMediaData(data), "url") =
              IF Get(data, "url") # <<>> THEN Get(data, "url") ELSE Get(data, "file")
<1>1. PICK f \in Texts : f = Get(data, "file")
  BY GetType, Zenon
<1>2. PICK u \in Texts : u = Get(data, "url")
  BY GetType, Zenon
<1>3. PICK kf \in Texts : kf = Token("file")
  BY Keys
<1>4. PICK ku \in Texts : ku = Token("url")
  BY Keys
<1>5. kf # ku
  BY <1>3, <1>4, Keys
<1>6. PICK w \in Texts : w = IF u # <<>> THEN u ELSE f
  BY Zenon
<1>7. PICK d : d = [k \in {kf, ku} |-> IF k = ku THEN w ELSE f]
  BY Zenon
<1>8. d \in [{kf, ku} -> Texts] /\ d[kf] = f /\ d[ku] = w /\ DOMAIN d = {kf, ku}
  BY <1>5, <1>7
<1>9. NormalizeMediaData(data) = d
  <2>1. NormalizeMediaData(data) = [k \in {kf, ku} |-> IF k = ku /\ u # <<>> THEN u ELSE f]
    BY <1>1, <1>2, <1>3, <1>4, Zenon DEF NormalizeMediaData
  <2>2. \A k \in {kf, ku} : (IF k = ku /\ u # <<>> THEN u ELSE f) = (IF k = ku THEN w ELSE f)
    BY <1>6, Zenon
  <2>3. [k \in {kf, ku} |-> IF k = ku /\ u # <<>> THEN u ELSE f] =
        [k \in {kf, ku} |-> IF k = ku THEN w ELSE f]
    BY <2>2
  <2> QED BY <1>7, <2>1, <2>3, Zenon
<1>10. d \in Data
  BY <1>8, DataIs
<1>11. Get(d, "file") = f
  BY <1>3, <1>8, Zenon DEF Get
<1>12. Get(d, "url") = w
  BY <1>4, <1>8, Zenon DEF Get
<1> QED BY <1>1, <1>2, <1>6, <1>9, <1>10, <1>11, <1>12, Zenon

(* A segment of one of the types with codes. *)
LEMMA TypedSegmentType ==
  ASSUME NEW type \in CQTypes, NEW data \in Data
  PROVE  TypedSegment(type, data) \in Segments /\ TypedSegment(type, data).type = type
<1>1. type \in SegmentTypes
  BY DEF SegmentTypes
<1>2. CASE type \in Media
  <2>1. TypedSegment(type, data) = [type |-> type, data |-> NormalizeMediaData(data)]
    BY <1>2, Zenon DEF TypedSegment
  <2>2. PICK d \in Data : d = NormalizeMediaData(data)
    BY MediaEntries, Zenon
  <2>3. TypedSegment(type, data) = [type |-> type, data |-> d]
    BY <2>1, <2>2, Zenon
  <2> QED BY <1>1, <2>3, SegmentType
<1>3. CASE type \notin Media
  <2>1. TypedSegment(type, data) = Segment(type, KeyOf[type], Get(data, KeyOf[type]))
    BY <1>3, Zenon DEF TypedSegment
  <2>2. KeyOf[type] \in {"text", "file", "url", "qq", "id"}
    BY <1>3, TypesAndKeys
  <2>3. Get(data, KeyOf[type]) \in Texts
    BY GetType, Zenon
  <2> QED BY <1>1, <2>1, <2>2, <2>3, OneEntry
<1> QED BY <1>2, <1>3

-----------------------------------------------------------------------------
(* Looking for a token. *)

Found(t, i, ch, j) ==
  /\ j \in i..(Len(t) + 1)
  /\ j = Len(t) + 1 \/ t[j] = ch
  /\ \A k \in i..(j - 1) : t[k] # ch

(* Index is the one place where it is found. *)
LEMMA IndexIs ==
  ASSUME NEW t, Len(t) \in Nat, NEW i \in Nat, NEW ch, NEW j, Found(t, i, ch, j)
  PROVE  Index(t, i, ch) = j
<1>1. \A k \in i..(Len(t) + 1) : Found(t, i, ch, k) => k = j
  <2> SUFFICES ASSUME NEW k \in i..(Len(t) + 1), Found(t, i, ch, k), k # j PROVE FALSE
    BY Zenon
  <2>1. CASE k < j
    <3>1. k \in i..(j - 1) /\ k # Len(t) + 1
      BY <2>1 DEF Found
    <3> QED BY <3>1, Zenon DEF Found
  <2>2. CASE k > j
    <3>1. j \in i..(k - 1) /\ j # Len(t) + 1
      BY <2>2 DEF Found
    <3> QED BY <3>1, Zenon DEF Found
  <2> QED BY <2>1, <2>2 DEF Found
<1>2. j \in i..(Len(t) + 1)
  BY DEF Found
<1>3. Index(t, i, ch) = CHOOSE k \in i..(Len(t) + 1) : Found(t, i, ch, k)
  <2>1. \A k \in i..(Len(t) + 1) :
          Found(t, i, ch, k) <=> /\ k = Len(t) + 1 \/ t[k] = ch
                                 /\ \A l \in i..(k - 1) : t[l] # ch
    BY Zenon DEF Found
  <2> QED BY <2>1 DEF Index
<1> QED BY <1>1, <1>2, <1>3, Zenon

(* There is always one. *)
LEMMA IndexType ==
  ASSUME NEW t, Len(t) \in Nat, NEW i \in 1..(Len(t) + 1), NEW ch
  PROVE  Found(t, i, ch, Index(t, i, ch))
<1> DEFINE T == {j \in i..(Len(t) + 1) : j = Len(t) + 1 \/ t[j] = ch}
<1>1. T \in SUBSET Nat /\ T # {}
  <2>1. Len(t) + 1 \in T
    OBVIOUS
  <2> QED BY <2>1
<1>2. PICK j \in T : \A k \in T : j <= k
  BY <1>1, LeastNat
<1>3. Found(t, i, ch, j)
  <2>1. \A k \in i..(j - 1) : t[k] # ch
    BY <1>2
  <2> QED BY <2>1 DEF Found
<1>4. i \in Nat
  OBVIOUS
<1> HIDE DEF T
<1> QED BY <1>3, <1>4, IndexIs, Zenon

(* A part of a text. *)
LEMMA PartType ==
  ASSUME NEW t \in Texts, NEW a \in Nat \ {0}, NEW b \in Nat, b <= Len(t)
  PROVE  SubSeq(t, a, b) \in Texts /\ Len(SubSeq(t, a, b)) = IF a <= b THEN b - a + 1 ELSE 0
<1>1. PICK n \in Nat : n = Len(t) /\ \A i \in 1..n : t[i] \in Tokens
  BY LenProperties, ElementOfSeq DEF Texts
<1>2. \A i \in a..b : t[i] \in Tokens
  BY <1>1
<1>3. a \in Int /\ b \in Int
  OBVIOUS
<1>4. SubSeq(t, a, b) \in Seq(Tokens) /\ Len(SubSeq(t, a, b)) = IF a <= b THEN b - a + 1 ELSE 0
  BY <1>2, <1>3, SubSeqProperties
<1> QED BY <1>4, Zenon DEF Texts

(* The length of a text. *)
LEMMA TextLen ==
  ASSUME NEW t \in Texts
  PROVE  Len(t) \in Nat /\ DOMAIN t = 1..Len(t) /\ \A i \in 1..Len(t) : t[i] \in Tokens
BY LenProperties DEF Texts

(* What is cut off at a comma. *)
LEMMA ItemType ==
  ASSUME NEW t \in Texts, NEW i \in 1..(Len(t) + 1)
  PROVE  Item(t, i) \in Texts
<1>1. PICK n \in Nat : n = Len(t)
  BY TextLen, Zenon
<1>2. PICK j : j = Index(t, i, ",")
  BY Zenon
<1>3. Found(t, i, ",", j)
  BY <1>1, <1>2, IndexType
<1>4. i \in Nat \ {0} /\ j - 1 \in Nat /\ j - 1 <= Len(t)
  <2>1. j \in i..(n + 1) /\ i \in 1..(n + 1)
    BY <1>1, <1>3, Zenon DEF Found
  <2>2. i \in Nat \ {0} /\ j - 1 \in Nat /\ j - 1 <= n
    BY <2>1
  <2> QED BY <1>1, <2>2, Zenon
<1>5. SubSeq(t, i, j - 1) \in Texts
  BY <1>4, PartType
<1> QED BY <1>2, <1>5, Zenon DEF Item

(* The last of some numbers. *)
LEMMA GreatestNat ==
  ASSUME NEW n \in Nat, NEW T \in SUBSET (0..n), T # {}
  PROVE  \E x \in T : \A y \in T : y <= x
<1> DEFINE U == {z \in 0..n : n - z \in T}
<1>1. U \in SUBSET Nat
  OBVIOUS
<1>2. U # {}
  <2>1. PICK y \in T : y \in 0..n
    OBVIOUS
  <2>2. n - y \in 0..n /\ n - (n - y) = y
    BY <2>1
  <2>3. n - y \in U
    BY <2>1, <2>2
  <2> QED BY <2>3
<1>3. PICK z \in U : \A y \in U : z <= y
  BY <1>1, <1>2, LeastNat
<1>4. n - z \in T
  OBVIOUS
<1>5. ASSUME NEW y \in T PROVE y <= n - z
  <2>1. y \in 0..n /\ n - y \in 0..n /\ n - (n - y) = y
    OBVIOUS
  <2>2. n - y \in U
    BY <2>1
  <2>3. z <= n - y
    BY <1>3, <2>2
  <2> QED BY <2>1, <2>3
<1> QED BY <1>4, <1>5

(* What is read of a code are data. *)
LEMMA CQDataType ==
  ASSUME NEW token \in Texts
  PROVE  CQData(token) \in Data
<1> DEFINE starts == {i + 1 : i \in {c \in DOMAIN token : token[c] = ","}}
           Eq(i) == Index(Item(token, i), 1, "=")
           entries == {i \in starts : Eq(i) <= Len(Item(token, i))}
           KeyAt(i) == SubSeq(Item(token, i), 1, Eq(i) - 1)
           ValueAt(i) == SubSeq(Item(token, i), Eq(i) + 1, Len(Item(token, i)))
           LastOf(key) == CHOOSE i \in entries :
                            KeyAt(i) = key /\ \A j \in entries : KeyAt(j) = key => j <= i
           keys == {KeyAt(i) : i \in entries}
           data == [key \in keys |-> UnescapeCQText(ValueAt(LastOf(key)))]
<1>1. PICK n \in Nat : n = Len(token)
  BY TextLen, Zenon
<1>2. starts \in SUBSET (2..(n + 1))
  <2>1. \A c \in DOMAIN token : c + 1 \in 2..(n + 1)
    BY <1>1, TextLen
  <2> QED BY <2>1
<1> HIDE DEF starts
<1>3. ASSUME NEW i \in entries PROVE KeyAt(i) \in Texts /\ ValueAt(i) \in Texts
  <2>1. i \in 1..(Len(token) + 1)
    BY <1>1, <1>2
  <2>2. PICK item \in Texts : item = Item(token, i)
    BY <2>1, ItemType, Zenon
  <2>3. PICK m \in Nat : m = Len(item)
    BY TextLen, Zenon
  <2>4. PICK e : e = Index(item, 1, "=")
    BY Zenon
  <2>5. e \in 1..(m + 1)
    <3>1. 1 \in 1..(Len(item) + 1) /\ Len(item) \in Nat
      BY <2>3
    <3>2. Found(item, 1, "=", e)
      BY <2>4, <3>1, IndexType
    <3> QED BY <2>3, <3>2, Zenon DEF Found
  <2>6. e <= m
    BY <2>2, <2>3, <2>4, Zenon
  <2>7. /\ 1 \in Nat \ {0} /\ e - 1 \in Nat /\ e - 1 <= Len(item)
        /\ e + 1 \in Nat \ {0} /\ Len(item) \in Nat /\ Len(item) <= Len(item)
    BY <2>3, <2>5, <2>6
  <2>8. SubSeq(item, 1, e - 1) \in Texts
    BY <2>7, PartType
  <2>9. SubSeq(item, e + 1, Len(item)) \in Texts
    BY <2>7, PartType
  <2> QED BY <2>2, <2>4, <2>8, <2>9, Zenon
<1>4. ASSUME NEW key \in keys PROVE LastOf(key) \in entries
  <2> DEFINE T == {i \in entries : KeyAt(i) = key}
  <2>1. T \in SUBSET (0..(n + 1))
    <3>1. \A i \in starts : i \in 0..(n + 1)
      BY <1>2
    <3>2. \A i \in T : i \in starts
      BY Zenon
    <3> HIDE DEF T
    <3> QED BY <3>1, <3>2
  <2>2. T # {}
    BY Zenon
  <2>3. n + 1 \in Nat
    OBVIOUS
  <2> HIDE DEF T
  <2>4. PICK i \in T : \A j \in T : j <= i
    BY <2>1, <2>2, <2>3, GreatestNat
  <2>5. i \in entries /\ KeyAt(i) = key /\ \A j \in entries : KeyAt(j) = key => j <= i
    BY <2>4, Zenon DEF T
  <2> QED BY <2>5, Zenon
<1>5. ASSUME NEW key \in keys PROVE UnescapeCQText(ValueAt(LastOf(key))) \in Texts
  BY <1>3, <1>4, UnescapeType, Zenon
<1>6. keys \in SUBSET Texts
  BY <1>3, Zenon
<1>7. data \in [keys -> Texts]
  <2> DEFINE v(key) == UnescapeCQText(ValueAt(LastOf(key)))
  <2>1. \A key \in keys : v(key) \in Texts
    BY <1>5, Zenon
  <2>2. data = [key \in keys |-> v(key)]
    BY Zenon
  <2> HIDE DEF data, keys, v
  <2>3. [key \in keys |-> v(key)] \in [keys -> Texts]
    BY <2>1
  <2> QED BY <2>2, <2>3, Zenon
<1>8. data \in Data
  <2> HIDE DEF data, keys
  <2> QED BY <1>6, <1>7, DataIs, Zenon
<1>9. CQData(token) = data
  BY Zenon DEF CQData, starts
<1> QED BY <1>8, <1>9, Zenon

(* A code is read as a segment. *)
LEMMA ParseCQTokenType ==
  ASSUME NEW token \in Texts
  PROVE  ParseCQToken(token) \in Segments
<1>1. 1 \in 1..(Len(token) + 1)
  BY TextLen
<1>2. PICK name \in Texts : name = Item(token, 1)
  BY <1>1, ItemType, Zenon
<1>3. CASE \E type \in CQTypes : name = Token(type)
  <2>1. PICK type \in CQTypes : name = <<type>>
    BY <1>3, Zenon DEF Token
  <2>2. name[1] = type
    BY <2>1
  <2>3. ParseCQToken(token) = TypedSegment(type, CQData(token))
    BY <1>2, <1>3, <2>2, Zenon DEF ParseCQToken
  <2> QED BY <2>3, CQDataType, TypedSegmentType, Zenon
<1>4. CASE ~\E type \in CQTypes : name = Token(type)
  <2>1. PICK a \in Seq(Tokens) : a = <<"[", "CQ:">>
    <3>1. "[" \in Tokens /\ "CQ:" \in Tokens
      BY KnownTokens DEF Specials
    <3>2. <<"[", "CQ:">> \in Seq(Tokens)
      BY <3>1
    <3> QED BY <3>2, Zenon
  <2>2. PICK b \in Seq(Tokens) : b = <<"]">>
    <3>1. "]" \in Tokens
      BY KnownTokens DEF Specials
    <3> QED BY <3>1, OneType, Zenon
  <2>3. Cat(Cat(a, token), b) \in Texts
    BY CatType, Zenon DEF Texts
  <2>4. ParseCQToken(token) = TextSegment(Cat(Cat(a, token), b))
    BY <1>2, <1>4, <2>1, <2>2, Zenon DEF ParseCQToken, Cat
  <2> QED BY <2>3, <2>4, TextSegmentType, Zenon
<1> QED BY <1>3, <1>4

-----------------------------------------------------------------------------
(* A round of the parser. *)

CodeFound(x, j) ==
  /\ j \in 1..(Len(x) + 1)
  /\ j = Len(x) + 1 \/ CodeAt(x, j)
  /\ \A k \in 1..(j - 1) : ~CodeAt(x, k)

(* The first code begins at one place ... *)
LEMMA CodeStartIs ==
  ASSUME NEW x, Len(x) \in Nat, NEW j, CodeFound(x, j)
  PROVE  CodeStart(x) = j
<1>1. \A k \in 1..(Len(x) + 1) : CodeFound(x, k) => k = j
  <2> SUFFICES ASSUME NEW k \in 1..(Len(x) + 1), CodeFound(x, k), k # j PROVE FALSE
    BY Zenon
  <2>1. CASE k < j
    <3>1. k \in 1..(j - 1) /\ k # Len(x) + 1
      BY <2>1 DEF CodeFound
    <3> QED BY <3>1, Zenon DEF CodeFound
  <2>2. CASE k > j
    <3>1. j \in 1..(k - 1) /\ j # Len(x) + 1
      BY <2>2 DEF CodeFound
    <3> QED BY <3>1, Zenon DEF CodeFound
  <2> QED BY <2>1, <2>2 DEF CodeFound
<1>2. j \in 1..(Len(x) + 1)
  BY DEF CodeFound
<1>3. CodeStart(x) = CHOOSE k \in 1..(Len(x) + 1) : CodeFound(x, k)
  <2>1. \A k \in 1..(Len(x) + 1) :
          CodeFound(x, k) <=> /\ k = Len(x) + 1 \/ CodeAt(x, k)
                              /\ \A l \in 1..(k - 1) : ~CodeAt(x, l)
    BY Zenon DEF CodeFound
  <2> QED BY <2>1 DEF CodeStart
<1> QED BY <1>1, <1>2, <1>3, Zenon

(* ... or behind the end. *)
LEMMA CodeStartType ==
  ASSUME NEW x, Len(x) \in Nat
  PROVE  CodeFound(x, CodeStart(x))
<1> DEFINE T == {j \in 1..(Len(x) + 1) : j = Len(x) + 1 \/ CodeAt(x, j)}
<1>1. T \in SUBSET Nat /\ T # {}
  <2>1. Len(x) + 1 \in T
    OBVIOUS
  <2> QED BY <2>1
<1>2. PICK j \in T : \A k \in T : j <= k
  BY <1>1, LeastNat
<1>3. CodeFound(x, j)
  <2>1. \A k \in 1..(j - 1) : ~CodeAt(x, k)
    BY <1>2
  <2> QED BY <2>1 DEF CodeFound
<1> HIDE DEF T
<1> QED BY <1>3, CodeStartIs, Zenon

(* Where a round ends. *)
LEMMA RoundType ==
  ASSUME NEW x \in Texts
  PROVE  /\ CodeStart(x) \in 1..(Len(x) + 1)
         /\ CodeEnd(x) \in CodeStart(x)..(Len(x) + 1)
<1>1. Len(x) \in Nat
  BY TextLen
<1>2. CodeStart(x) \in 1..(Len(x) + 1)
  BY <1>1, CodeStartType, Zenon DEF CodeFound
<1>3. Found(x, CodeStart(x), "]", CodeEnd(x))
  BY <1>1, <1>2, IndexType DEF CodeEnd
<1> QED BY <1>2, <1>3, Zenon DEF Found

(* What is left is shorter. *)
LEMMA RemainingType ==
  ASSUME NEW x \in Texts
  PROVE  /\ Remaining(x) \in Texts
         /\ Len(Remaining(x)) < Len(x) \/ Remaining(x) = <<>>
<1>1. PICK n \in Nat : n = Len(x)
  BY TextLen, Zenon
<1>2. PICK e \in 1..(n + 1) : e = CodeEnd(x)
  <2>1. PICK s \in 1..(n + 1) : s = CodeStart(x)
    BY <1>1, RoundType, Zenon
  <2>2. CodeEnd(x) \in s..(n + 1)
    BY <1>1, <2>1, RoundType, Zenon
  <2>3. CodeEnd(x) \in 1..(n + 1)
    BY <2>2
  <2> QED BY <2>3, Zenon
<1>3. PICK r : r = SubSeq(x, e + 1, n)
  BY Zenon
<1>4. r \in Texts /\ Len(r) = IF e + 1 <= n THEN n - (e + 1) + 1 ELSE 0
  <2>1. PICK a \in Nat \ {0} : a = e + 1
    OBVIOUS
  <2>2. n <= Len(x)
    BY <1>1
  <2>3. SubSeq(x, a, n) \in Texts /\ Len(SubSeq(x, a, n)) = IF a <= n THEN n - a + 1 ELSE 0
    BY <2>2, PartType
  <2> QED BY <1>3, <2>1, <2>3, Zenon
<1>5. CASE e + 1 <= n
  <2>1. Len(r) < n
    BY <1>4, <1>5
  <2> QED BY <1>1, <1>2, <1>3, <1>4, <2>1, Zenon DEF Remaining
<1>6. CASE ~(e + 1 <= n)
  <2>1. Len(r) = 0
    BY <1>4, <1>6
  <2>2. r = <<>>
    BY <1>4, <2>1, EmptySeq DEF Texts
  <2> QED BY <1>1, <1>2, <1>3, <1>4, <2>2, Zenon DEF Remaining
<1> QED BY <1>5, <1>6

(* Text is read as a segment or none. *)
LEMMA PlainTextType ==
  ASSUME NEW t \in Texts
  PROVE  PlainText(t) \in Seq(Segments)
<1>1. CASE t = <<>>
  BY <1>1, EmptySeq, Zenon DEF PlainText
<1>2. CASE t # <<>>
  <2>1. PICK s \in Segments : s = TextSegment(UnescapeCQText(t))
    BY UnescapeType, TextSegmentType, Zenon
  <2>2. PlainText(t) = <<s>>
    BY <1>2, <2>1, Zenon DEF PlainText
  <2> QED BY <2>2, OneType, Zenon
<1> QED BY <1>1, <1>2

(* The second part of a round. *)
LastPiece(x) ==
  IF CodeEnd(x) <= Len(x)
    THEN <<ParseCQToken(SubSeq(x, CodeStart(x) + 2, CodeEnd(x) - 1))>>
    ELSE PlainText(SubSeq(x, CodeStart(x), Len(x)))

(* The two parts of a round. *)
LEMMA PiecesAre ==
  ASSUME NEW x
  PROVE  Pieces(x) = Cat(PlainText(SubSeq(x, 1, CodeStart(x) - 1)), LastPiece(x))
BY Zenon DEF Pieces, LastPiece, Cat

(* A round gives segments. *)
LEMMA PiecesType ==
  ASSUME NEW x \in Texts
  PROVE  Pieces(x) \in Seq(Segments)
<1>1. PICK n \in Nat : n = Len(x)
  BY TextLen, Zenon
<1>2. PICK s \in 1..(n + 1) : s = CodeStart(x)
  BY <1>1, RoundType, Zenon
<1>3. PICK e \in s..(n + 1) : e = CodeEnd(x)
  BY <1>1, <1>2, RoundType, Zenon
<1>4. SubSeq(x, 1, s - 1) \in Texts
  <2>1. 1 \in Nat \ {0} /\ s - 1 \in Nat /\ s - 1 <= n
    OBVIOUS
  <2> QED BY <1>1, <2>1, PartType
<1>5. SubSeq(x, s + 2, e - 1) \in Texts
  <2>1. s + 2 \in Nat \ {0} /\ e - 1 \in Nat /\ e - 1 <= n
    OBVIOUS
  <2> QED BY <1>1, <2>1, PartType
<1>6. SubSeq(x, s, n) \in Texts
  <2>1. s \in Nat \ {0} /\ n \in Nat /\ n <= n
    OBVIOUS
  <2> QED BY <1>1, <2>1, PartType
<1>7. PlainText(SubSeq(x, 1, s - 1)) \in Seq(Segments)
  BY <1>4, PlainTextType, Zenon
<1>8. LastPiece(x) \in Seq(Segments)
  <2>1. CASE e <= n
    <3>1. LastPiece(x) = <<ParseCQToken(SubSeq(x, s + 2, e - 1))>>
      BY <1>1, <1>2, <1>3, <2>1, Zenon DEF LastPiece
    <3> QED BY <1>5, <3>1, ParseCQTokenType, OneType, Zenon
  <2>2. CASE ~(e <= n)
    <3>1. LastPiece(x) = PlainText(SubSeq(x, s, n))
      BY <1>1, <1>2, <1>3, <2>2, Zenon DEF LastPiece
    <3> QED BY <1>6, <3>1, PlainTextType, Zenon
  <2> QED BY <2>1, <2>2
<1>9. Pieces(x) = Cat(PlainText(SubSeq(x, 1, s - 1)), LastPiece(x))
  BY <1>2, PiecesAre, Zenon
<1> QED BY <1>7, <1>8, <1>9, CatType, Zenon

-----------------------------------------------------------------------------
(* The rounds of the parser. *)

(* The inputs of n rounds, and what they leave. *)
Rounds(x, n, f) ==
  /\ f \in [0..n -> Texts]
  /\ f[0] = x
  /\ \A i \in 1..n : f[i] = Remaining(f[i - 1])

(* There can be any number of rounds. *)
LEMMA RoundsExist ==
  ASSUME NEW x \in Texts, NEW n \in Nat
  PROVE  \E f : Rounds(x, n, f)
<1> DEFINE h == [i \in 1..n |-> [t \in Texts |-> Remaining(t)]]
<1>1. \A i \in 1..n : \A t \in Texts : h[i][t] = Remaining(t)
  OBVIOUS
<1>2. \A i \in 1..n : \A t \in Texts : h[i][t] \in Texts
  BY <1>1, RemainingType, Zenon
<1> HIDE DEF h
<1>3. PICK f : Recursion(Texts, x, n, h, f)
  BY <1>2, PrefixRecursion
<1>4. f \in [0..n -> Texts] /\ f[0] = x /\ \A i \in 1..n : f[i] = h[i][f[i - 1]]
  BY <1>3, Zenon DEF Recursion
<1>5. ASSUME NEW i \in 1..n PROVE f[i] = Remaining(f[i - 1])
  <2>1. i - 1 \in 0..n
    OBVIOUS
  <2>2. f[i - 1] \in Texts
    BY <1>4, <2>1
  <2> QED BY <1>1, <1>4, <2>2, Zenon
<1> QED BY <1>4, <1>5, Zenon DEF Rounds

(* What the rounds give. *)
Parsed(n, f) == [i \in 1..n |-> Pieces(f[i - 1])]

(* They give segments. *)
LEMMA ParsedType ==
  ASSUME NEW x \in Texts, NEW n \in Nat, NEW f, Rounds(x, n, f)
  PROVE  /\ Parsed(n, f) \in [1..n -> Seq(Segments)]
         /\ Parsed(n, f) \in Seq(Seq(Segments))
         /\ Len(Parsed(n, f)) = n
<1>1. PICK V : V = Seq(Segments)
  BY Zenon
<1>2. ASSUME NEW i \in 1..n PROVE Pieces(f[i - 1]) \in V
  <2>1. i - 1 \in 0..n
    OBVIOUS
  <2>2. f[i - 1] \in Texts
    BY <2>1 DEF Rounds
  <2> QED BY <1>1, <2>2, PiecesType, Zenon
<1>3. Parsed(n, f) \in [1..n -> V]
  BY <1>2 DEF Parsed
<1>4. Parsed(n, f) \in Seq(V) /\ Len(Parsed(n, f)) = n
  BY <1>3, FunctionIsSeq
<1> QED BY <1>1, <1>3, <1>4, Zenon

(* The parser's own rounds, as many as the input has tokens. *)
LEMMA ParseIs ==
  ASSUME NEW x \in Texts, NEW n \in Nat, n = Len(x), NEW f, Rounds(x, n, f)
  PROVE  ParseCQMessage(x) = FlattenSeq(Parsed(n, f))
<1> DEFINE F(g) == [i \in 0..Len(x) |-> IF i = 0 THEN x ELSE Remaining(g[i - 1])]
           rest == CHOOSE g : g = F(g)
<1>1. f = F(f)
  <2>1. f = [i \in 0..n |-> f[i]]
    BY DEF Rounds
  <2>2. \A i \in 0..n : f[i] = IF i = 0 THEN x ELSE Remaining(f[i - 1])
    <3>1. \A i \in 0..n : i # 0 => i \in 1..n
      OBVIOUS
    <3> QED BY <3>1, Zenon DEF Rounds
  <2>3. [i \in 0..n |-> f[i]] = F(f)
    BY <2>2
  <2> QED BY <2>1, <2>3, Zenon
<1>2. rest = F(rest)
  BY <1>1
<1>3. \A i \in 0..n : rest[i] = IF i = 0 THEN x ELSE Remaining(rest[i - 1])
  BY <1>2
<1>4. ParseCQMessage(x) = FlattenSeq([i \in DOMAIN x |-> Pieces(rest[i - 1])])
  BY Zenon DEF ParseCQMessage
<1> HIDE DEF rest, F
<1> DEFINE A == {m \in Nat : m <= n => rest[m] = f[m]}
<1>5. 0 \in A
  BY <1>3 DEF Rounds
<1>6. ASSUME NEW m \in Nat, m \in A PROVE m + 1 \in A
  <2> SUFFICES ASSUME m + 1 <= n PROVE rest[m + 1] = f[m + 1]
    OBVIOUS
  <2>1. m + 1 \in 0..n /\ m + 1 \in 1..n /\ m + 1 # 0 /\ (m + 1) - 1 = m
    OBVIOUS
  <2>2. rest[m] = f[m]
    BY <1>6
  <2>3. rest[m + 1] = Remaining(rest[m])
    BY <1>3, <2>1
  <2>4. f[m + 1] = Remaining(f[m])
    BY <2>1 DEF Rounds
  <2> QED BY <2>2, <2>3, <2>4, Zenon
<1> HIDE DEF A
<1>7. Nat \subseteq A
  BY <1>5, <1>6, SetInduction
<1>8. \A i \in 1..n : rest[i - 1] = f[i - 1]
  <2>1. \A i \in 1..n : i - 1 \in Nat /\ i - 1 <= n
    OBVIOUS
  <2> QED BY <1>7, <2>1 DEF A
<1>9. [i \in DOMAIN x |-> Pieces(rest[i - 1])] = Parsed(n, f)
  <2>1. DOMAIN x = 1..n
    BY TextLen
  <2> QED BY <1>8, <2>1 DEF Parsed
<1> QED BY <1>4, <1>9, Zenon

(* Every round makes the input shorter. *)
LEMMA RoundsEnd ==
  ASSUME NEW x \in Texts, NEW n \in Nat, NEW f, Rounds(x, n, f), NEW i \in 0..n, i >= Len(x)
  PROVE  f[i] = <<>>
<1>1. PICK l \in Nat : l = Len(x)
  BY TextLen, Zenon
<1> DEFINE A == {m \in Nat : m <= n => f[m] = <<>> \/ Len(f[m]) + m <= l}
<1>2. 0 \in A
  <2>1. f[0] = x
    BY DEF Rounds
  <2>2. Len(f[0]) + 0 <= l
    BY <1>1, <2>1
  <2> QED BY <2>2
<1>3. ASSUME NEW m \in Nat, m \in A PROVE m + 1 \in A
  <2>1. m + 1 \in Nat
    OBVIOUS
  <2> SUFFICES ASSUME m + 1 <= n PROVE f[m + 1] = <<>> \/ Len(f[m + 1]) + (m + 1) <= l
    BY <2>1, Zenon
  <2>2. m \in 0..n /\ m + 1 \in 0..n /\ m + 1 \in 1..n /\ (m + 1) - 1 = m
    OBVIOUS
  <2>3. f[m + 1] = Remaining(f[m])
    BY <2>2 DEF Rounds
  <2>4. PICK t \in Texts : t = f[m]
    BY <2>2 DEF Rounds
  <2>5. PICK r \in Texts : r = Remaining(t) /\ (Len(r) < Len(t) \/ r = <<>>)
    BY RemainingType, Zenon
  <2>6. Len(t) \in Nat /\ Len(r) \in Nat
    BY TextLen, Zenon
  <2>7. CASE t = <<>>
    <3>1. Len(t) = 0
      BY <2>7
    <3>2. r = <<>>
      BY <2>5, <2>6, <3>1
    <3> QED BY <2>3, <2>4, <2>5, <3>2, Zenon
  <2>8. CASE t # <<>>
    <3>1. Len(t) + m <= l
      BY <1>3, <2>4, <2>8
    <3>2. r = <<>> \/ Len(r) + (m + 1) <= l
      BY <2>5, <2>6, <3>1
    <3> QED BY <2>3, <2>4, <2>5, <3>2, Zenon
  <2> QED BY <2>7, <2>8
<1> HIDE DEF A
<1>4. i \in A
  BY <1>2, <1>3, SetInduction
<1>5. f[i] = <<>> \/ Len(f[i]) + i <= l
  BY <1>4 DEF A
<1>6. PICK t \in Texts : t = f[i]
  BY DEF Rounds
<1>7. Len(t) \in Nat
  BY TextLen, Zenon
<1>8. t = <<>> \/ Len(t) = 0
  BY <1>1, <1>5, <1>6, <1>7
<1>9. Len(t) = 0 => t = <<>>
  BY EmptySeq DEF Texts
<1> QED BY <1>6, <1>8, <1>9, Zenon

(* Of nothing, a round makes nothing. *)
LEMMA PiecesEmpty == Pieces(<<>>) = <<>>
<1>1. CodeFound(<<>>, 1) /\ Len(<<>>) = 0
  BY DEF CodeFound
<1>2. CodeStart(<<>>) = 1
  BY <1>1, CodeStartIs
<1>3. Found(<<>>, 1, "]", 1)
  BY <1>1 DEF Found
<1>4. CodeEnd(<<>>) = 1
  BY <1>1, <1>2, <1>3, IndexIs DEF CodeEnd
<1>5. SubSeq(<<>>, 1, 0) = <<>>
  OBVIOUS
<1>6. PlainText(<<>>) = <<>>
  BY Zenon DEF PlainText
<1>7. ~(1 <= 0) /\ 1 - 1 = 0
  OBVIOUS
<1>8. LastPiece(<<>>) = <<>>
  BY <1>1, <1>2, <1>4, <1>5, <1>6, <1>7, Zenon DEF LastPiece
<1>9. Pieces(<<>>) = Cat(<<>>, <<>>)
  BY <1>2, <1>5, <1>6, <1>7, <1>8, PiecesAre, Zenon
<1>10. <<>> \in Texts
  BY TextsMonoid, Zenon DEF Monoid
<1> QED BY <1>9, <1>10, TextsMonoid, Zenon DEF Monoid

(* More rounds give no more segments. *)
LEMMA ParseIsMore ==
  ASSUME NEW x \in Texts, NEW n \in Nat, Len(x) <= n, NEW f, Rounds(x, n, f)
  PROVE  ParseCQMessage(x) = FlattenSeq(Parsed(n, f))
<1>1. PICK l \in Nat : l = Len(x)
  BY TextLen, Zenon
<1> DEFINE A == {m \in Nat : \A g : Rounds(x, l + m, g) =>
                               ParseCQMessage(x) = FlattenSeq(Parsed(l + m, g))}
<1>2. 0 \in A
  <2>1. l + 0 = l
    OBVIOUS
  <2>2. \A g : Rounds(x, l, g) => ParseCQMessage(x) = FlattenSeq(Parsed(l, g))
    BY <1>1, ParseIs
  <2> QED BY <2>1, <2>2
<1>3. ASSUME NEW m \in Nat, m \in A PROVE m + 1 \in A
  <2> SUFFICES ASSUME NEW g, Rounds(x, l + (m + 1), g)
               PROVE  ParseCQMessage(x) = FlattenSeq(Parsed(l + (m + 1), g))
    OBVIOUS
  <2>1. PICK k \in Nat : k = l + m /\ k + 1 = l + (m + 1)
    OBVIOUS
  <2>2. Rounds(x, k + 1, g)
    BY <2>1, Zenon
  <2> DEFINE e == [i \in 0..k |-> g[i]]
  <2>3. Rounds(x, k, e)
    <3>1. \A i \in 0..k : i \in 0..(k + 1) /\ e[i] = g[i]
      OBVIOUS
    <3>2. \A i \in 1..k : i \in 1..(k + 1) /\ i \in 0..k /\ i - 1 \in 0..k
      OBVIOUS
    <3>3. 0 \in 0..k
      OBVIOUS
    <3>4. e \in [0..k -> Texts]
      BY <2>2, <3>1 DEF Rounds
    <3> HIDE DEF e
    <3>5. e[0] = x
      BY <2>2, <3>1, <3>3, Zenon DEF Rounds
    <3>6. \A i \in 1..k : e[i] = Remaining(e[i - 1])
      BY <2>2, <3>1, <3>2, Zenon DEF Rounds
    <3> QED BY <3>4, <3>5, <3>6, Zenon DEF Rounds
  <2>4. \A i \in 1..k : e[i - 1] = g[i - 1]
    OBVIOUS
  <2> HIDE DEF e
  <2>5. ParseCQMessage(x) = FlattenSeq(Parsed(k, e))
    BY <1>3, <2>1, <2>3, Zenon
  <2>6. PICK V : V = Seq(Segments) /\ Monoid(V)
    BY SeqMonoid, Zenon
  <2>7. PICK r : r = Parsed(k, e)
    BY Zenon
  <2>8. PICK s : s = Parsed(k + 1, g)
    BY Zenon
  <2>9. r \in [1..k -> V] /\ r \in Seq(V) /\ Len(r) = k
    BY <2>3, <2>6, <2>7, ParsedType, Zenon
  <2>10. s \in [1..(k + 1) -> V] /\ Len(s) = k + 1
    <3>1. k + 1 \in Nat
      OBVIOUS
    <3> QED BY <2>2, <2>6, <2>8, <3>1, ParsedType, Zenon
  <2>11. \A i \in 1..k : s[i] = r[i]
    BY <2>4, <2>7, <2>8 DEF Parsed
  <2>12. PICK z \in V : z = <<>>
    BY <2>6, Zenon DEF Monoid
  <2>13. s[k + 1] = z
    <3>1. k \in 0..(k + 1) /\ k >= Len(x) /\ k + 1 \in Nat
      BY <1>1, <2>1
    <3>2. g[k] = <<>>
      BY <2>2, <3>1, RoundsEnd
    <3>3. s[k + 1] = Pieces(g[k])
      <4>1. k + 1 \in 1..(k + 1) /\ (k + 1) - 1 = k
        OBVIOUS
      <4>2. s[k + 1] = Pieces(g[(k + 1) - 1])
        BY <2>8, <4>1 DEF Parsed
      <4> QED BY <4>1, <4>2, Zenon
    <3> QED BY <2>12, <3>2, <3>3, PiecesEmpty, Zenon
  <2>14. Monoid(V)
    BY <2>6, Zenon
  <2>15. FlattenSeq(s) = Cat(FlattenSeq(r), z)
    BY <2>9, <2>10, <2>11, <2>13, <2>14, FlattenExtended
  <2>16. FlattenSeq(r) \in V
    BY <2>6, <2>9, FlattenType, Zenon
  <2>17. FlattenSeq(s) = FlattenSeq(r)
    BY <2>6, <2>12, <2>15, <2>16, Zenon DEF Monoid
  <2> QED BY <2>1, <2>5, <2>7, <2>8, <2>17, Zenon
<1> HIDE DEF A
<1>4. n - l \in Nat /\ l + (n - l) = n
  BY <1>1
<1>5. n - l \in A
  BY <1>2, <1>3, <1>4, SetInduction
<1> QED BY <1>4, <1>5, Zenon DEF A

(* A message is read as segments. *)
LEMMA ParseType ==
  ASSUME NEW x \in Texts
  PROVE  ParseCQMessage(x) \in Seq(Segments)
<1>1. PICK n \in Nat : n = Len(x)
  BY TextLen, Zenon
<1>2. PICK f : Rounds(x, n, f)
  BY RoundsExist
<1>3. ParseCQMessage(x) = FlattenSeq(Parsed(n, f))
  BY <1>1, <1>2, ParseIs
<1>4. Parsed(n, f) \in Seq(Seq(Segments))
  BY <1>2, ParsedType
<1>5. Monoid(Seq(Segments))
  BY SeqMonoid, Zenon
<1> QED BY <1>3, <1>4, <1>5, FlattenType, Zenon

(* Of nothing, nothing is read. *)
LEMMA ParseEmpty == ParseCQMessage(<<>>) = <<>>
<1>1. PICK x \in Texts : x = <<>>
  BY TextsMonoid, Zenon DEF Monoid
<1>2. Len(x) = 0
  BY <1>1
<1>3. PICK f : Rounds(x, 0, f)
  BY RoundsExist
<1>4. ParseCQMessage(x) = FlattenSeq(Parsed(0, f))
  BY <1>2, <1>3, ParseIs
<1>5. Parsed(0, f) = <<>>
  BY DEF Parsed
<1> QED BY <1>1, <1>4, <1>5, FlattenEmpty, Zenon

(* A message is read round by round. *)
LEMMA ParseUnfolds ==
  ASSUME NEW x \in Texts, x # <<>>
  PROVE  ParseCQMessage(x) = Cat(Pieces(x), ParseCQMessage(Remaining(x)))
<1>1. PICK m \in Nat : m + 1 = Len(x)
  <2>1. Len(x) \in Nat /\ Len(x) # 0
    BY TextLen, EmptySeq DEF Texts
  <2> QED BY <2>1
<1>2. PICK f : Rounds(x, m + 1, f)
  <2>1. m + 1 \in Nat
    OBVIOUS
  <2> QED BY <2>1, RoundsExist
<1>3. f \in [0..(m + 1) -> Texts] /\ f[0] = x /\ \A i \in 1..(m + 1) : f[i] = Remaining(f[i - 1])
  BY <1>2, Zenon DEF Rounds
<1>4. ParseCQMessage(x) = FlattenSeq(Parsed(m + 1, f))
  <2>1. m + 1 \in Nat
    OBVIOUS
  <2> QED BY <1>1, <1>2, <2>1, ParseIs
<1>5. PICK y \in Texts : y = Remaining(x) /\ (Len(y) < Len(x) \/ y = <<>>)
  BY RemainingType, Zenon
<1>6. Len(y) <= m
  <2>1. Len(y) \in Nat
    BY TextLen, Zenon
  <2>2. y = <<>> => Len(y) = 0
    OBVIOUS
  <2> QED BY <1>1, <1>5, <2>1, <2>2
<1> DEFINE g == [i \in 0..m |-> f[i + 1]]
<1>7. Rounds(y, m, g)
  <2>1. \A i \in 0..m : i + 1 \in 0..(m + 1) /\ g[i] = f[i + 1]
    OBVIOUS
  <2>2. \A i \in 1..m : i \in 0..m /\ i - 1 \in 0..m /\ i + 1 \in 1..(m + 1) /\ (i + 1) - 1 = (i - 1) + 1
    OBVIOUS
  <2>3. 0 \in 0..m /\ 0 + 1 = 1 /\ 1 \in 1..(m + 1) /\ 1 - 1 = 0
    OBVIOUS
  <2>4. g \in [0..m -> Texts]
    BY <1>3, <2>1
  <2> HIDE DEF g
  <2>5. g[0] = y
    BY <1>3, <1>5, <2>1, <2>3, Zenon
  <2>6. \A i \in 1..m : g[i] = Remaining(g[i - 1])
    BY <1>3, <2>1, <2>2, Zenon
  <2> QED BY <2>4, <2>5, <2>6, Zenon DEF Rounds
<1>8. \A i \in 1..m : g[i - 1] = f[(i + 1) - 1]
  OBVIOUS
<1> HIDE DEF g
<1>9. ParseCQMessage(y) = FlattenSeq(Parsed(m, g))
  BY <1>6, <1>7, ParseIsMore
<1>10. PICK V : V = Seq(Segments)
  BY Zenon
<1>11. Monoid(V)
  BY <1>10, SeqMonoid, Zenon
<1>12. PICK p \in V : p = Pieces(x)
  BY <1>10, PiecesType, Zenon
<1>13. PICK o \in Seq(V) : o = <<p>> /\ Len(o) = 1 /\ o[1] = p
  BY OneType, Zenon
<1>14. PICK r \in Seq(V) : r = Parsed(m, g) /\ Len(r) = m
  BY <1>7, <1>10, ParsedType, Zenon
<1>15. PICK s \in Seq(V) : s = Parsed(m + 1, f) /\ Len(s) = m + 1
  <2>1. m + 1 \in Nat
    OBVIOUS
  <2> QED BY <1>2, <1>10, <2>1, ParsedType, Zenon
<1>16. s[1] = p
  <2>1. 1 \in 1..(m + 1) /\ 1 - 1 = 0
    OBVIOUS
  <2>2. s[1] = Pieces(f[1 - 1])
    BY <1>15, <2>1 DEF Parsed
  <2> QED BY <1>3, <1>12, <2>1, <2>2, Zenon
<1>17. \A i \in 1..m : s[1 + i] = r[i]
  <2>1. \A i \in 1..m : i + 1 \in 1..(m + 1) /\ 1 + i = i + 1
    OBVIOUS
  <2>2. \A i \in 1..m : s[i + 1] = Pieces(f[(i + 1) - 1])
    BY <1>15, <2>1 DEF Parsed
  <2>3. \A i \in 1..m : r[i] = Pieces(g[i - 1])
    BY <1>14 DEF Parsed
  <2> QED BY <1>8, <2>1, <2>2, <2>3, Zenon
<1>18. PICK u \in Seq(V) : u = Cat(o, r)
  BY CatType, Zenon
<1>19. Len(u) = Len(o) + Len(r)
  BY <1>18, CatLen
<1>20. \A i \in 1..Len(o) : u[i] = o[i]
  BY <1>18, CatLeft
<1>21. \A i \in 1..Len(r) : u[Len(o) + i] = r[i]
  BY <1>18, CatRight
<1>22. Len(u) = m + 1 /\ u[1] = p /\ \A i \in 1..m : u[1 + i] = r[i]
  BY <1>13, <1>14, <1>19, <1>20, <1>21
<1>23. ASSUME NEW i \in 1..(m + 1) PROVE u[i] = s[i]
  <2>1. i = 1 \/ (i - 1 \in 1..m /\ i = 1 + (i - 1))
    OBVIOUS
  <2> QED BY <1>16, <1>17, <1>22, <2>1, Zenon
<1>24. u = s
  BY <1>15, <1>22, <1>23, SeqEqual
<1>25. FlattenSeq(Cat(o, r)) = Cat(FlattenSeq(o), FlattenSeq(r))
  BY <1>11, FlattenCat
<1>26. FlattenSeq(o) = p
  BY <1>11, <1>13, FlattenOne, Zenon
<1> QED BY <1>4, <1>5, <1>9, <1>12, <1>14, <1>15, <1>18, <1>24, <1>25, <1>26, Zenon

-----------------------------------------------------------------------------
(* Reading texts and codes. *)

(* A text without codes is one round. *)
LEMMA ParseText ==
  ASSUME NEW t \in Texts, \A i \in 1..Len(t) : t[i] # "["
  PROVE  ParseCQMessage(t) = PlainText(t)
<1>1. CASE t = <<>>
  BY <1>1, ParseEmpty, Zenon DEF PlainText
<1>2. CASE t # <<>>
  <2>1. PICK n \in Nat : n = Len(t)
    BY TextLen, Zenon
  <2>2. CodeStart(t) = n + 1
    <3>1. \A k \in 1..n : ~CodeAt(t, k)
      BY <2>1 DEF CodeAt
    <3>2. CodeFound(t, n + 1)
      <4>1. n + 1 \in 1..(n + 1) /\ (n + 1) - 1 = n
        OBVIOUS
      <4> QED BY <2>1, <3>1, <4>1, Zenon DEF CodeFound
    <3> QED BY <2>1, <3>2, CodeStartIs
  <2>3. CodeEnd(t) = n + 1
    <3>1. n + 1 \in Nat /\ n + 1 \in (n + 1)..(n + 1) /\ ~(\E k \in (n + 1)..((n + 1) - 1) : TRUE)
      OBVIOUS
    <3>2. Found(t, n + 1, "]", n + 1)
      BY <2>1, <3>1, Zenon DEF Found
    <3>3. Index(t, n + 1, "]") = n + 1
      BY <2>1, <3>1, <3>2, IndexIs
    <3> QED BY <2>2, <3>3, Zenon DEF CodeEnd
  <2>4. SubSeq(t, 1, n) = t
    <3>1. t \in Seq(Tokens) /\ <<>> \in Seq(Tokens) /\ Cat(t, <<>>) = t
      BY EmptySeq, CatEmpty, Zenon DEF Texts
    <3>2. SubSeq(Cat(t, <<>>), 1, Len(t)) = t
      BY <3>1, CutLeft, Zenon
    <3> QED BY <2>1, <3>1, <3>2, Zenon
  <2>5. SubSeq(t, n + 1, n) = <<>> /\ SubSeq(t, (n + 1) + 1, n) = <<>>
    <3>1. ASSUME NEW a \in Nat, a > n PROVE SubSeq(t, a, n) = <<>>
      <4>1. a \in Nat \ {0} /\ n <= Len(t) /\ ~(a <= n)
        BY <2>1, <3>1
      <4>2. SubSeq(t, a, n) \in Texts /\ Len(SubSeq(t, a, n)) = 0
        BY <4>1, PartType
      <4> QED BY <4>2, EmptySeq DEF Texts
    <3>2. n + 1 \in Nat /\ n + 1 > n /\ (n + 1) + 1 \in Nat /\ (n + 1) + 1 > n
      OBVIOUS
    <3> QED BY <3>1, <3>2, Zenon
  <2>6. LastPiece(t) = <<>>
    <3>1. ~(n + 1 <= n)
      OBVIOUS
    <3> QED BY <2>1, <2>2, <2>3, <2>5, <3>1, Zenon DEF LastPiece, PlainText
  <2>7. Pieces(t) = Cat(PlainText(t), <<>>)
    <3>1. (n + 1) - 1 = n
      OBVIOUS
    <3> QED BY <2>2, <2>4, <2>6, <3>1, PiecesAre, Zenon
  <2>8. Remaining(t) = <<>>
    BY <2>1, <2>3, <2>5, Zenon DEF Remaining
  <2>9. PlainText(t) \in Seq(Segments)
    BY PlainTextType, Zenon
  <2>10. Cat(PlainText(t), <<>>) = PlainText(t)
    BY <2>9, CatEmpty, Zenon
  <2>11. ParseCQMessage(t) = Cat(Pieces(t), ParseCQMessage(Remaining(t)))
    BY <1>2, ParseUnfolds, Zenon
  <2> QED BY <2>7, <2>8, <2>10, <2>11, ParseEmpty, Zenon
<1> QED BY <1>1, <1>2

Open == <<"[", "CQ:">>
Close == <<"]">>

(* The brackets of a code. *)
LEMMA Brackets ==
  /\ Open \in Seq(Tokens) /\ Len(Open) = 2 /\ Open[1] = "[" /\ Open[2] = "CQ:"
  /\ Close \in Seq(Tokens) /\ Len(Close) = 1 /\ Close[1] = "]"
<1>1. "[" \in Tokens /\ "]" \in Tokens /\ "CQ:" \in Tokens
  BY KnownTokens DEF Specials
<1>2. Open \in Seq(Tokens)
  BY <1>1 DEF Open
<1>3. Close \in Seq(Tokens)
  BY <1>1 DEF Close
<1> QED BY <1>2, <1>3 DEF Open, Close

(* A message that begins with a text and a code, and their lengths. *)
CodeIn(x, t, inner, rest, m, k, r) ==
  /\ t \in Seq(Tokens) /\ inner \in Seq(Tokens) /\ rest \in Seq(Tokens)
  /\ m \in Nat /\ k \in Nat /\ r \in Nat
  /\ x = Cat(t, Cat(Open, Cat(inner, Cat(Close, rest))))
  /\ m = Len(t) /\ k = Len(inner) /\ r = Len(rest)

TokensOf(x, t, inner, m, k, r) ==
  /\ x \in Seq(Tokens)
  /\ Len(x) = m + 3 + k + r
  /\ \A i \in 1..m : x[i] = t[i]
  /\ x[m + 1] = "["
  /\ x[m + 2] = "CQ:"
  /\ \A i \in 1..k : x[m + 2 + i] = inner[i]
  /\ x[m + 3 + k] = "]"

PartsOf(x, t, inner, rest, m, k) ==
  /\ SubSeq(x, 1, m) = t
  /\ SubSeq(x, m + 3, m + 2 + k) = inner
  /\ SubSeq(x, m + 4 + k, Len(x)) = rest

(* Its tokens. *)
LEMMA CodeMembers ==
  ASSUME NEW x, NEW t, NEW inner, NEW rest, NEW m, NEW k, NEW r,
         CodeIn(x, t, inner, rest, m, k, r)
  PROVE  TokensOf(x, t, inner, m, k, r)
<1> /\ t \in Seq(Tokens) /\ inner \in Seq(Tokens) /\ rest \in Seq(Tokens)
    /\ m \in Nat /\ k \in Nat /\ r \in Nat
    /\ x = Cat(t, Cat(Open, Cat(inner, Cat(Close, rest))))
    /\ m = Len(t) /\ k = Len(inner) /\ r = Len(rest)
  BY Zenon DEF CodeIn
<1>1. PICK y \in Seq(Tokens) : y = Cat(Close, rest)
  BY Brackets, CatType, Zenon
<1>2. PICK z \in Seq(Tokens) : z = Cat(inner, y)
  BY CatType, Zenon
<1>3. PICK w \in Seq(Tokens) : w = Cat(Open, z)
  BY Brackets, CatType, Zenon
<1>4. x = Cat(t, w) /\ x \in Seq(Tokens)
  BY <1>1, <1>2, <1>3, CatType, Zenon
<1>5. Len(y) = 1 + r /\ y[1] = "]"
  <2>1. Len(y) = Len(Close) + Len(rest)
    BY <1>1, Brackets, CatLen
  <2>2. 1 \in 1..Len(Close)
    BY Brackets
  <2>3. y[1] = Close[1]
    BY <1>1, <2>2, Brackets, CatLeft
  <2> QED BY <2>1, <2>3, Brackets, Zenon
<1>6. Len(z) = k + (1 + r) /\ z[k + 1] = "]" /\ \A i \in 1..k : z[i] = inner[i]
  <2>1. Len(z) = Len(inner) + Len(y)
    BY <1>2, CatLen
  <2>2. 1 \in 1..Len(y)
    BY <1>5
  <2>3. z[k + 1] = y[1]
    <3>1. \A i \in 1..Len(y) : Cat(inner, y)[Len(inner) + i] = y[i]
      BY CatRight, Zenon
    <3> QED BY <1>2, <2>2, <3>1, Zenon
  <2>4. \A i \in 1..Len(inner) : z[i] = inner[i]
    BY <1>2, CatLeft
  <2> QED BY <1>5, <2>1, <2>3, <2>4, Zenon
<1>7. Len(w) = 2 + (k + (1 + r)) /\ w[1] = "[" /\ w[2] = "CQ:"
  <2>1. Len(w) = Len(Open) + Len(z)
    BY <1>3, Brackets, CatLen
  <2>2. 1 \in 1..Len(Open) /\ 2 \in 1..Len(Open)
    BY Brackets
  <2>3. w[1] = Open[1] /\ w[2] = Open[2]
    BY <1>3, <2>2, Brackets, CatLeft
  <2> QED BY <1>6, <2>1, <2>3, Brackets, Zenon
<1>8. \A i \in 1..(k + (1 + r)) : w[2 + i] = z[i]
  <2>1. \A i \in 1..Len(z) : w[2 + i] = z[i]
    <3>1. Open \in Seq(Tokens) /\ 2 = Len(Open)
      BY Brackets, Zenon
    <3>2. \A i \in 1..Len(z) : Cat(Open, z)[Len(Open) + i] = z[i]
      BY <3>1, CatRight, Zenon
    <3> QED BY <1>3, <3>1, <3>2, Zenon
  <2> QED BY <1>6, <2>1, Brackets, Zenon
<1>9. Len(x) = m + (2 + (k + (1 + r)))
  <2>1. Len(x) = Len(t) + Len(w)
    BY <1>4, CatLen
  <2> QED BY <1>7, <2>1, Zenon
<1>10. \A i \in 1..m : x[i] = t[i]
  BY <1>4, CatLeft
<1>11. \A i \in 1..(2 + (k + (1 + r))) : x[m + i] = w[i]
  <2>1. \A i \in 1..Len(w) : x[m + i] = w[i]
    <3>1. \A i \in 1..Len(w) : Cat(t, w)[Len(t) + i] = w[i]
      BY CatRight, Zenon
    <3> QED BY <1>4, <3>1, Zenon
  <2> QED BY <1>7, <2>1, Zenon
<1>12. x[m + 1] = "[" /\ x[m + 2] = "CQ:"
  <2>1. 1 \in 1..(2 + (k + (1 + r))) /\ 2 \in 1..(2 + (k + (1 + r)))
    OBVIOUS
  <2> QED BY <1>7, <1>11, <2>1, Zenon
<1>13. ASSUME NEW i \in 1..(k + 1) PROVE x[m + 2 + i] = z[i]
  <2>1. /\ 2 + i \in 1..(2 + (k + (1 + r))) /\ i \in 1..(k + (1 + r))
        /\ m + (2 + i) = m + 2 + i
    OBVIOUS
  <2>2. x[m + (2 + i)] = w[2 + i] /\ w[2 + i] = z[i]
    BY <1>8, <1>11, <2>1, Zenon
  <2> QED BY <2>1, <2>2, Zenon
<1>14. \A i \in 1..k : x[m + 2 + i] = inner[i]
  <2>1. \A i \in 1..k : i \in 1..(k + 1)
    OBVIOUS
  <2> QED BY <1>6, <1>13, <2>1, Zenon
<1>15. x[m + 3 + k] = "]"
  <2>1. k + 1 \in 1..(k + 1) /\ m + 2 + (k + 1) = m + 3 + k
    OBVIOUS
  <2> QED BY <1>6, <1>13, <2>1, Zenon
<1>16. Len(x) = m + 3 + k + r
  BY <1>9
<1> QED BY <1>4, <1>10, <1>12, <1>14, <1>15, <1>16, Zenon DEF TokensOf

(* The parts of such a message: the text, the code and what follows. *)
LEMMA CodeParts ==
  ASSUME NEW x, NEW t, NEW inner, NEW rest, NEW m, NEW k, NEW r,
         CodeIn(x, t, inner, rest, m, k, r)
  PROVE  PartsOf(x, t, inner, rest, m, k)
<1> /\ t \in Seq(Tokens) /\ inner \in Seq(Tokens) /\ rest \in Seq(Tokens)
    /\ m \in Nat /\ k \in Nat /\ r \in Nat
    /\ x = Cat(t, Cat(Open, Cat(inner, Cat(Close, rest))))
    /\ m = Len(t) /\ k = Len(inner) /\ r = Len(rest)
  BY Zenon DEF CodeIn
<1>1. PICK y \in Seq(Tokens) : y = Cat(Close, rest)
  BY Brackets, CatType, Zenon
<1>2. PICK z \in Seq(Tokens) : z = Cat(inner, y)
  BY CatType, Zenon
<1>3. PICK w \in Seq(Tokens) : w = Cat(Open, z)
  BY Brackets, CatType, Zenon
<1>4. x = Cat(t, w)
  BY <1>1, <1>2, <1>3, Zenon
<1>5. SubSeq(x, 1, m) = t
  <2>1. SubSeq(Cat(t, w), 1, Len(t)) = t
    BY CutLeft, Zenon
  <2> QED BY <1>4, <2>1, Zenon
<1>6. PICK a \in Seq(Tokens) : a = Cat(t, Open) /\ Len(a) = m + 2
  <2>1. Len(Cat(t, Open)) = Len(t) + Len(Open) /\ Cat(t, Open) \in Seq(Tokens)
    BY Brackets, CatLen, CatType, Zenon
  <2> QED BY <2>1, Brackets, Zenon
<1>7. x = Cat(a, z)
  <2>1. Cat(Cat(t, Open), z) = Cat(t, Cat(Open, z))
    <3>1. PICK o \in Seq(Tokens) : o = Open
      BY Brackets, Zenon
    <3>2. Cat(Cat(t, o), z) = Cat(t, Cat(o, z))
      BY CatAssociative
    <3> QED BY <3>1, <3>2, Zenon
  <2> QED BY <1>3, <1>4, <1>6, <2>1, Zenon
<1>8. SubSeq(x, m + 3, m + 2 + k) = inner
  <2>1. SubSeq(Cat(a, Cat(inner, y)), Len(a) + 1, Len(a) + Len(inner)) = inner
    BY CutMiddle, Zenon
  <2>2. SubSeq(x, (m + 2) + 1, (m + 2) + k) = inner
    BY <1>2, <1>6, <1>7, <2>1, Zenon
  <2>3. (m + 2) + 1 = m + 3 /\ (m + 2) + k = m + 2 + k
    OBVIOUS
  <2> QED BY <2>2, <2>3, Zenon
<1>9. PICK b \in Seq(Tokens) : b = Cat(a, inner) /\ Len(b) = (m + 2) + k
  <2>1. Len(Cat(a, inner)) = Len(a) + Len(inner) /\ Cat(a, inner) \in Seq(Tokens)
    BY CatLen, CatType, Zenon
  <2> QED BY <1>6, <2>1, Zenon
<1>10. PICK c \in Seq(Tokens) : c = Cat(b, Close) /\ Len(c) = ((m + 2) + k) + 1
  <2>1. Len(Cat(b, Close)) = Len(b) + Len(Close) /\ Cat(b, Close) \in Seq(Tokens)
    BY Brackets, CatLen, CatType, Zenon
  <2> QED BY <1>9, <2>1, Brackets, Zenon
<1>11. x = Cat(c, rest)
  <2>1. Cat(Cat(a, inner), y) = Cat(a, Cat(inner, y))
    BY CatAssociative
  <2>2. PICK d \in Seq(Tokens) : d = Close
    BY Brackets, Zenon
  <2>3. Cat(Cat(b, d), rest) = Cat(b, Cat(d, rest))
    BY CatAssociative
  <2> QED BY <1>1, <1>2, <1>7, <1>9, <1>10, <2>1, <2>2, <2>3, Zenon
<1>12. SubSeq(x, m + 4 + k, Len(x)) = rest
  <2>1. SubSeq(Cat(c, rest), Len(c) + 1, Len(Cat(c, rest))) = rest
    BY CutRight, Zenon
  <2>2. (((m + 2) + k) + 1) + 1 = m + 4 + k
    OBVIOUS
  <2> QED BY <1>10, <1>11, <2>1, <2>2, Zenon
<1> QED BY <1>5, <1>8, <1>12, Zenon DEF PartsOf

(* It is read as the text, the code, and what follows. *)
LEMMA ParseCode ==
  ASSUME NEW t \in Texts, \A i \in 1..Len(t) : t[i] # "[",
         NEW inner \in Texts, \A i \in 1..Len(inner) : inner[i] # "]",
         NEW rest \in Texts
  PROVE  ParseCQMessage(Cat(t, Cat(Open, Cat(inner, Cat(Close, rest))))) =
           Cat(Cat(PlainText(t), <<ParseCQToken(inner)>>), ParseCQMessage(rest))
<1>1. PICK m \in Nat : m = Len(t)
  BY TextLen, Zenon
<1>2. PICK k \in Nat : k = Len(inner)
  BY TextLen, Zenon
<1>3. PICK r \in Nat : r = Len(rest)
  BY TextLen, Zenon
<1>4. PICK x : x = Cat(t, Cat(Open, Cat(inner, Cat(Close, rest))))
  BY Zenon
<1>5. CodeIn(x, t, inner, rest, m, k, r)
  BY <1>1, <1>2, <1>3, <1>4, Zenon DEF CodeIn, Texts
<1>6. /\ x \in Seq(Tokens)
      /\ Len(x) = m + 3 + k + r
      /\ \A i \in 1..m : x[i] = t[i]
      /\ x[m + 1] = "["
      /\ x[m + 2] = "CQ:"
      /\ \A i \in 1..k : x[m + 2 + i] = inner[i]
      /\ x[m + 3 + k] = "]"
  <2>1. TokensOf(x, t, inner, m, k, r)
    BY <1>5, CodeMembers, Zenon
  <2> QED BY <2>1, Zenon DEF TokensOf
<1>7. /\ SubSeq(x, 1, m) = t
      /\ SubSeq(x, m + 3, m + 2 + k) = inner
      /\ SubSeq(x, m + 4 + k, Len(x)) = rest
  <2>1. PartsOf(x, t, inner, rest, m, k)
    BY <1>5, CodeParts, Zenon
  <2> QED BY <2>1, Zenon DEF PartsOf
<1>8. x \in Texts /\ Len(x) \in Nat
  BY <1>6 DEF Texts
<1>9. CodeStart(x) = m + 1
  <2>1. \A i \in 1..((m + 1) - 1) : ~CodeAt(x, i)
    <3>1. \A i \in 1..((m + 1) - 1) : i \in 1..m
      OBVIOUS
    <3> QED BY <1>1, <1>6, <3>1, Zenon DEF CodeAt
  <2>2. m + 1 < Len(x) /\ m + 1 \in 1..(Len(x) + 1) /\ (m + 1) + 1 = m + 2
    BY <1>6
  <2>3. CodeAt(x, m + 1)
    BY <1>6, <2>2, Zenon DEF CodeAt
  <2>4. CodeFound(x, m + 1)
    BY <2>1, <2>2, <2>3, Zenon DEF CodeFound
  <2> QED BY <1>8, <2>4, CodeStartIs, Zenon
<1>10. CodeEnd(x) = m + 3 + k
  <2>1. ASSUME NEW i \in (m + 1)..((m + 3 + k) - 1) PROVE x[i] # "]"
    <3>1. i = m + 1 \/ i = m + 2 \/ (i - (m + 2) \in 1..k /\ m + 2 + (i - (m + 2)) = i)
      OBVIOUS
    <3> QED BY <1>2, <1>6, <3>1, Zenon
  <2>2. m + 3 + k \in (m + 1)..(Len(x) + 1) /\ m + 1 \in Nat
    BY <1>6
  <2>3. Found(x, m + 1, "]", m + 3 + k)
    BY <1>6, <2>1, <2>2, Zenon DEF Found
  <2>4. Index(x, m + 1, "]") = m + 3 + k
    BY <1>8, <2>2, <2>3, IndexIs, Zenon
  <2> QED BY <1>9, <2>4, Zenon DEF CodeEnd
<1>11. LastPiece(x) = <<ParseCQToken(inner)>>
  <2>1. m + 3 + k <= Len(x) /\ (m + 1) + 2 = m + 3 /\ (m + 3 + k) - 1 = m + 2 + k
    BY <1>6
  <2> QED BY <1>7, <1>9, <1>10, <2>1, Zenon DEF LastPiece
<1>12. Pieces(x) = Cat(PlainText(t), <<ParseCQToken(inner)>>)
  <2>1. (m + 1) - 1 = m
    OBVIOUS
  <2> QED BY <1>7, <1>9, <1>11, <2>1, PiecesAre, Zenon
<1>13. Remaining(x) = rest
  <2>1. (m + 3 + k) + 1 = m + 4 + k
    OBVIOUS
  <2> QED BY <1>7, <1>10, <2>1, Zenon DEF Remaining
<1>14. x # <<>>
  <2>1. Len(x) # 0
    BY <1>6
  <2> QED BY <2>1
<1> QED BY <1>4, <1>8, <1>12, <1>13, <1>14, ParseUnfolds, Zenon

-----------------------------------------------------------------------------
(* Reading what was written. *)

Inner(type, key, e) == Cat(<<type, ",">>, Cat(<<key, "=">>, e))

(* The value of a code. *)
LEMMA ValueType ==
  ASSUME NEW v \in Texts
  PROVE  EscapeCQValue(v) \in Seq(Tokens)
<1>1. Specials \in SUBSET Specials
  OBVIOUS
<1>2. Escape(Specials, v) \in Texts
  BY <1>1, EscapeOfTexts, MappedType, Zenon DEF Escape, Texts
<1> QED BY <1>2, EscapeValueIs, Zenon DEF Texts

(* A code is brackets around its type, its key and its value. *)
LEMMA CQCodeIs ==
  ASSUME NEW type \in Tokens, NEW key \in Tokens, NEW v \in Texts
  PROVE  CQCode(type, key, v) = Cat(Open, Cat(Inner(type, key, EscapeCQValue(v)), Close))
<1>1. "," \in Tokens /\ "=" \in Tokens
  BY KnownTokens DEF Specials
<1>2. PICK p \in Seq(Tokens) : p = <<type, ",">>
  BY <1>1, TwoType, Zenon
<1>3. PICK q \in Seq(Tokens) : q = <<key, "=">>
  BY <1>1, TwoType, Zenon
<1>4. PICK e \in Seq(Tokens) : e = EscapeCQValue(v)
  BY ValueType, Zenon
<1>5. PICK o \in Seq(Tokens) : o = Open
  BY Brackets, Zenon
<1>6. PICK z \in Seq(Tokens) : z = Close
  BY Brackets, Zenon
<1>7. CQCode(type, key, v) = Cat(Cat(Cat(Cat(o, p), q), e), z)
  BY <1>2, <1>3, <1>4, <1>5, <1>6, Zenon DEF CQCode, Cat, Open, Close
<1>8. PICK op \in Seq(Tokens) : op = Cat(o, p)
  BY CatType, Zenon
<1>9. PICK qe \in Seq(Tokens) : qe = Cat(q, e)
  BY CatType, Zenon
<1>10. PICK pqe \in Seq(Tokens) : pqe = Cat(p, qe)
  BY CatType, Zenon
<1>11. Cat(Cat(op, q), e) = Cat(op, qe)
  BY <1>9, CatAssociative
<1>12. Cat(op, qe) = Cat(o, pqe)
  BY <1>8, <1>10, CatAssociative
<1>13. Cat(Cat(o, pqe), z) = Cat(o, Cat(pqe, z))
  BY CatAssociative
<1>14. pqe = Inner(type, key, e)
  BY <1>2, <1>3, <1>9, <1>10, Zenon DEF Inner
<1> QED BY <1>4, <1>5, <1>6, <1>7, <1>8, <1>11, <1>12, <1>13, <1>14, Zenon

(* A code whose type and key are words, and whose value has no comma in it. *)
CodeOf(inner, type, key, e) ==
  /\ type \in CQTypes /\ key \in {"file", "qq", "id"}
  /\ e \in Seq(Tokens) /\ \A i \in 1..Len(e) : e[i] # "," /\ e[i] # "]"
  /\ inner = Inner(type, key, e)

InnerTokens(inner, type, key, e) ==
  /\ inner \in Seq(Tokens)
  /\ Len(inner) = 4 + Len(e)
  /\ inner[1] = type
  /\ inner[2] = ","
  /\ inner[3] = key
  /\ inner[4] = "="
  /\ \A i \in 5..(4 + Len(e)) : inner[i] # "," /\ inner[i] # "]"

(* The tokens of such a code. *)
LEMMA CodeTokens ==
  ASSUME NEW inner, NEW type, NEW key, NEW e, CodeOf(inner, type, key, e)
  PROVE  InnerTokens(inner, type, key, e)
<1>1. /\ type \in CQTypes /\ key \in {"file", "qq", "id"}
    /\ e \in Seq(Tokens) /\ \A i \in 1..Len(e) : e[i] # "," /\ e[i] # "]"
    /\ inner = Inner(type, key, e)
  BY Zenon DEF CodeOf
<1>2. type \in Tokens /\ key \in Tokens /\ "," \in Tokens /\ "=" \in Tokens
  BY <1>1, KnownTokens, TypesAndKeys DEF Specials
<1>3. PICK p : p = <<type, ",">>
  BY Zenon
<1>4. PICK q : q = <<key, "=">>
  BY Zenon
<1>5. p \in Seq(Tokens)
  BY <1>2, <1>3, TwoType, Zenon
<1>6. Len(p) = 2 /\ p[1] = type /\ p[2] = ","
  BY <1>2, <1>3, TwoType, Zenon
<1>7. q \in Seq(Tokens)
  BY <1>2, <1>4, TwoType, Zenon
<1>8. Len(q) = 2 /\ q[1] = key /\ q[2] = "="
  BY <1>2, <1>4, TwoType, Zenon
<1>9. e \in Seq(Tokens)
  BY <1>1, Zenon
<1>10. PICK n \in Nat : n = Len(e)
  BY <1>9, LenProperties, Zenon
<1>11. PICK qe \in Seq(Tokens) : qe = Cat(q, e)
  BY <1>7, <1>9, CatType, Zenon
<1>12. Len(qe) = Len(q) + Len(e)
  BY <1>7, <1>9, <1>11, CatLen
<1>13. \A i \in 1..Len(q) : qe[i] = q[i]
  BY <1>7, <1>9, <1>11, CatLeft
<1>14. \A i \in 1..Len(e) : qe[Len(q) + i] = e[i]
  BY <1>7, <1>9, <1>11, CatRight
<1>15. PICK pqe \in Seq(Tokens) : pqe = Cat(p, qe)
  BY <1>5, CatType, Zenon
<1>16. Len(pqe) = Len(p) + Len(qe)
  BY <1>5, <1>15, CatLen
<1>17. \A i \in 1..Len(p) : pqe[i] = p[i]
  BY <1>5, <1>15, CatLeft
<1>18. \A i \in 1..Len(qe) : pqe[Len(p) + i] = qe[i]
  BY <1>5, <1>15, CatRight
<1>19. inner = pqe
  <2>1. Inner(type, key, e) = Cat(p, Cat(q, e))
    BY <1>3, <1>4 DEF Inner
  <2>2. inner = Inner(type, key, e)
    BY Zenon DEF CodeOf
  <2> QED BY <1>11, <1>15, <2>1, <2>2, Zenon
<1>20. Len(qe) = 2 + n
  BY <1>8, <1>10, <1>12, Zenon
<1>21. Len(pqe) = 4 + n
  <2>1. Len(pqe) = 2 + (2 + n)
    BY <1>6, <1>16, <1>20, Zenon
  <2> QED BY <2>1
<1>22. pqe[1] = type /\ pqe[2] = ","
  <2>1. 1 \in 1..2 /\ 2 \in 1..2
    OBVIOUS
  <2> QED BY <1>6, <1>17, <2>1, Zenon
<1>23. \A i \in 1..(2 + n) : pqe[2 + i] = qe[i]
  BY <1>6, <1>18, <1>20, Zenon
<1>24. pqe[3] = key /\ pqe[4] = "="
  <2>1. 1 \in 1..Len(q) /\ 2 \in 1..Len(q) /\ 1 \in 1..(2 + n) /\ 2 \in 1..(2 + n)
    BY <1>8
  <2>2. qe[1] = key /\ qe[2] = "="
    BY <1>8, <1>13, <2>1, Zenon
  <2>3. pqe[2 + 1] = qe[1] /\ pqe[2 + 2] = qe[2]
    BY <1>23, <2>1, Zenon
  <2>4. 2 + 1 = 3 /\ 2 + 2 = 4
    OBVIOUS
  <2> QED BY <2>2, <2>3, <2>4, Zenon
<1>25. ASSUME NEW i \in 5..(4 + n) PROVE pqe[i] # "," /\ pqe[i] # "]"
  <2>1. PICK j \in 1..n : i = 2 + (2 + j)
    <3>1. i - 4 \in 1..n /\ i = 2 + (2 + (i - 4))
      OBVIOUS
    <3> QED BY <3>1
  <2>2. 2 + j \in 1..(2 + n) /\ j \in 1..Len(e)
    BY <1>10
  <2>3. pqe[2 + (2 + j)] = qe[2 + j]
    BY <1>23, <2>2, Zenon
  <2>4. qe[2 + j] = e[j]
    BY <1>8, <1>14, <2>2, Zenon
  <2> QED BY <1>1, <2>1, <2>2, <2>3, <2>4, Zenon
<1> QED BY <1>10, <1>19, <1>21, <1>22, <1>24, <1>25, Zenon DEF InnerTokens

(* The first token of a text. *)
LEMMA FirstOnly ==
  ASSUME NEW t \in Seq(Tokens), NEW n \in Nat \ {0}, n = Len(t)
  PROVE  SubSeq(t, 1, 1) = <<t[1]>>
<1>1. PICK s : s = SubSeq(t, 1, 1)
  BY Zenon
<1>2. s \in Seq(Tokens) /\ Len(s) = 1
  <2>1. 1 \in Nat \ {0} /\ 1 \in Nat /\ 1 <= Len(t)
    OBVIOUS
  <2>2. Len(SubSeq(t, 1, 1)) = IF 1 <= 1 THEN 1 - 1 + 1 ELSE 0
    BY <2>1, PartType, Zenon DEF Texts
  <2>3. SubSeq(t, 1, 1) \in Seq(Tokens)
    BY <2>1, PartType, Zenon DEF Texts
  <2> QED BY <1>1, <2>2, <2>3
<1>3. s[1] = t[1]
  BY <1>1
<1>4. s = <<s[1]>>
  BY <1>2
<1> QED BY <1>1, <1>3, <1>4, Zenon

(* The one entry of such a code ... *)
EntryParts(it, key, e) ==
  /\ it \in Seq(Tokens)
  /\ Index(it, 1, "=") = 2
  /\ 2 <= Len(it)
  /\ SubSeq(it, 1, 1) = <<key>>
  /\ SubSeq(it, 3, Len(it)) = e

(* ... has a key and a value. *)
LEMMA EntryIs ==
  ASSUME NEW it, NEW key \in {"file", "qq", "id"}, NEW e \in Seq(Tokens),
         it = Cat(<<key, "=">>, e)
  PROVE  EntryParts(it, key, e)
<1>1. key \in Tokens /\ "=" \in Tokens /\ key # "="
  BY KnownTokens
<1>2. PICK q : q = <<key, "=">>
  BY Zenon
<1>3. q \in Seq(Tokens)
  BY <1>1, <1>2, TwoType, Zenon
<1>4. Len(q) = 2 /\ q[1] = key /\ q[2] = "="
  BY <1>1, <1>2, TwoType, Zenon
<1>5. it \in Seq(Tokens)
  BY <1>2, <1>3, CatType, Zenon
<1>6. PICK n \in Nat : n = Len(e)
  BY LenProperties, Zenon
<1>7. Len(it) = 2 + n
  <2>1. Len(Cat(q, e)) = Len(q) + Len(e)
    BY <1>3, CatLen
  <2> QED BY <1>2, <1>4, <1>6, <2>1, Zenon
<1>8. it[1] = key /\ it[2] = "="
  <2>1. \A i \in 1..Len(q) : Cat(q, e)[i] = q[i]
    BY <1>3, CatLeft
  <2>2. 1 \in 1..Len(q) /\ 2 \in 1..Len(q)
    BY <1>4
  <2> QED BY <1>2, <1>4, <2>1, <2>2, Zenon
<1>9. Index(it, 1, "=") = 2
  <2>1. 2 \in 1..(Len(it) + 1) /\ Len(it) \in Nat /\ 1 \in Nat
    BY <1>6, <1>7
  <2>2. \A k \in 1..(2 - 1) : it[k] # "="
    BY <1>1, <1>8
  <2>3. Found(it, 1, "=", 2)
    BY <1>8, <2>1, <2>2, Zenon DEF Found
  <2> QED BY <2>1, <2>3, IndexIs, Zenon
<1>10. 2 <= Len(it)
  BY <1>6, <1>7
<1>11. SubSeq(it, 1, 1) = <<key>>
  <2>1. 2 + n \in Nat \ {0}
    OBVIOUS
  <2> QED BY <1>5, <1>7, <1>8, <2>1, FirstOnly, Zenon
<1>12. SubSeq(it, 3, Len(it)) = e
  <2>1. SubSeq(Cat(q, e), Len(q) + 1, Len(Cat(q, e))) = e
    BY <1>3, CutRight
  <2>2. 2 + 1 = 3
    OBVIOUS
  <2> QED BY <1>2, <1>4, <2>1, <2>2, Zenon
<1> QED BY <1>5, <1>9, <1>10, <1>11, <1>12, Zenon DEF EntryParts

InnerItems(inner, type, key, e) ==
  /\ Item(inner, 1) = <<type>>
  /\ {i + 1 : i \in {c \in DOMAIN inner : inner[c] = ","}} = {3}
  /\ Item(inner, 3) = Cat(<<key, "=">>, e)

(* The items of such a code: its type and its entry. *)
LEMMA CodeItems ==
  ASSUME NEW inner, NEW type, NEW key, NEW e, CodeOf(inner, type, key, e)
  PROVE  InnerItems(inner, type, key, e)
<1>1. type \in CQTypes /\ key \in {"file", "qq", "id"} /\ e \in Seq(Tokens)
      /\ inner = Inner(type, key, e)
  BY Zenon DEF CodeOf
<1>2. InnerTokens(inner, type, key, e)
  BY CodeTokens, Zenon
<1>3. inner \in Seq(Tokens)
  BY <1>2, Zenon DEF InnerTokens
<1>4. PICK n \in Nat : n = Len(e)
  BY <1>1, LenProperties, Zenon
<1>5. PICK m \in Nat : m = 4 + n
  OBVIOUS
<1>6. Len(inner) = m
  BY <1>2, <1>4, <1>5, Zenon DEF InnerTokens
<1>7. inner[1] = type /\ inner[2] = "," /\ inner[3] = key /\ inner[4] = "="
  BY <1>2, Zenon DEF InnerTokens
<1>8. \A i \in 5..m : inner[i] # ","
  BY <1>2, <1>4, <1>5, Zenon DEF InnerTokens
<1>9. type # "," /\ key # "," /\ "=" # ","
  BY <1>1, TypesAndKeys
<1>10. \A i \in 1..m : inner[i] = "," <=> i = 2
  <2>1. \A i \in 1..m : i = 1 \/ i = 2 \/ i = 3 \/ i = 4 \/ i \in 5..m
    BY <1>5
  <2> QED BY <1>7, <1>8, <1>9, <2>1
<1>11. Item(inner, 1) = <<type>>
  <2>1. 2 \in 1..(Len(inner) + 1) /\ Len(inner) \in Nat /\ 1 \in Nat
    BY <1>5, <1>6
  <2>2. \A k \in 1..(2 - 1) : inner[k] # ","
    <3>1. \A k \in 1..(2 - 1) : k \in 1..m /\ k # 2
      BY <1>5
    <3> QED BY <1>10, <3>1, Zenon
  <2>3. Found(inner, 1, ",", 2)
    BY <1>7, <2>1, <2>2, Zenon DEF Found
  <2>4. Index(inner, 1, ",") = 2
    BY <2>1, <2>3, IndexIs, Zenon
  <2>5. 2 - 1 = 1 /\ m \in Nat \ {0}
    BY <1>5
  <2>6. SubSeq(inner, 1, 1) = <<inner[1]>>
    BY <1>3, <1>6, <2>5, FirstOnly, Zenon
  <2> QED BY <1>7, <2>4, <2>5, <2>6, Zenon DEF Item
<1>12. {i + 1 : i \in {c \in DOMAIN inner : inner[c] = ","}} = {3}
  <2>1. DOMAIN inner = 1..m
    BY <1>3, <1>6, LenProperties, Zenon
  <2>2. 2 \in 1..m
    BY <1>5
  <2>3. {c \in DOMAIN inner : inner[c] = ","} = {2}
    BY <1>10, <2>1, <2>2, Zenon
  <2>4. {i + 1 : i \in {2}} = {3}
    OBVIOUS
  <2> QED BY <2>3, <2>4, Zenon
<1>13. Item(inner, 3) = Cat(<<key, "=">>, e)
  <2>1. m + 1 \in 3..(Len(inner) + 1) /\ Len(inner) \in Nat /\ 3 \in Nat /\ m + 1 = Len(inner) + 1
    BY <1>5, <1>6
  <2>2. \A k \in 3..((m + 1) - 1) : inner[k] # ","
    <3>1. \A k \in 3..((m + 1) - 1) : k \in 1..m /\ k # 2
      BY <1>5
    <3> QED BY <1>10, <3>1, Zenon
  <2>3. Found(inner, 3, ",", m + 1)
    BY <2>1, <2>2, Zenon DEF Found
  <2>4. Index(inner, 3, ",") = m + 1
    BY <2>1, <2>3, IndexIs, Zenon
  <2>5. (m + 1) - 1 = m
    OBVIOUS
  <2>6. Item(inner, 3) = SubSeq(inner, 3, Len(inner))
    BY <1>6, <2>4, <2>5, Zenon DEF Item
  <2>7. type \in Tokens /\ key \in Tokens /\ "," \in Tokens /\ "=" \in Tokens
    BY <1>1, KnownTokens, TypesAndKeys DEF Specials
  <2>8. PICK p : p = <<type, ",">>
    BY Zenon
  <2>9. PICK q : q = <<key, "=">>
    BY Zenon
  <2>10. p \in Seq(Tokens)
    BY <2>7, <2>8, TwoType, Zenon
  <2>11. Len(p) = 2
    BY <2>7, <2>8, TwoType, Zenon
  <2>12. q \in Seq(Tokens)
    BY <2>7, <2>9, TwoType, Zenon
  <2>13. PICK qe \in Seq(Tokens) : qe = Cat(q, e)
    BY <1>1, <2>12, CatType, Zenon
  <2>14. SubSeq(Cat(p, qe), Len(p) + 1, Len(Cat(p, qe))) = qe
    BY <2>10, CutRight
  <2>15. 2 + 1 = 3
    OBVIOUS
  <2>16. Inner(type, key, e) = Cat(p, qe)
    BY <2>8, <2>9, <2>13, Zenon DEF Inner
  <2>17. inner = Cat(p, qe)
    BY <1>1, <2>16, Zenon
  <2> QED BY <2>6, <2>9, <2>11, <2>13, <2>14, <2>15, <2>17, Zenon
<1> QED BY <1>11, <1>12, <1>13, Zenon DEF InnerItems

CodeData(inner, key, e) == CQData(inner) = [k \in {Token(key)} |-> UnescapeCQText(e)]

(* Such a code has that one entry. *)
LEMMA CodeDataIs ==
  ASSUME NEW inner, NEW type, NEW key, NEW e, CodeOf(inner, type, key, e)
  PROVE  CodeData(inner, key, e)
<1> DEFINE starts == {i + 1 : i \in {c \in DOMAIN inner : inner[c] = ","}}
           Eq(i) == Index(Item(inner, i), 1, "=")
           entries == {i \in starts : Eq(i) <= Len(Item(inner, i))}
           KeyAt(i) == SubSeq(Item(inner, i), 1, Eq(i) - 1)
           ValueAt(i) == SubSeq(Item(inner, i), Eq(i) + 1, Len(Item(inner, i)))
           LastOf(k) == CHOOSE i \in entries :
                          KeyAt(i) = k /\ \A j \in entries : KeyAt(j) = k => j <= i
           keys == {KeyAt(i) : i \in entries}
<1>1. key \in {"file", "qq", "id"} /\ e \in Seq(Tokens)
  BY Zenon DEF CodeOf
<1>2. PICK it : it = Item(inner, 3)
  BY Zenon
<1>3. starts = {3} /\ it = Cat(<<key, "=">>, e)
  BY <1>2, CodeItems, Zenon DEF InnerItems
<1>4. EntryParts(it, key, e)
  BY <1>1, <1>3, EntryIs, Zenon
<1>5. /\ Index(it, 1, "=") = 2
      /\ 2 <= Len(it)
      /\ SubSeq(it, 1, 1) = <<key>>
      /\ SubSeq(it, 3, Len(it)) = e
  BY <1>4, Zenon DEF EntryParts
<1>6. 2 - 1 = 1 /\ 2 + 1 = 3 /\ 3 <= 3
  OBVIOUS
<1>7. KeyAt(3) = Token(key) /\ ValueAt(3) = e
  BY <1>2, <1>5, <1>6, Zenon DEF Token
<1>8. Eq(3) <= Len(Item(inner, 3))
  BY <1>2, <1>5, Zenon
<1>9. CQData(inner) = [k \in keys |-> UnescapeCQText(ValueAt(LastOf(k)))]
  BY Zenon DEF CQData
<1> HIDE DEF starts, KeyAt, ValueAt, Eq
<1>10. entries = {3}
  BY <1>3, <1>8, Zenon
<1> HIDE DEF entries
<1>11. keys = {Token(key)}
  BY <1>7, <1>10, Zenon
<1>12. \A k \in {Token(key)} : LastOf(k) = 3
  <2>1. KeyAt(3) = Token(key) /\ \A j \in entries : KeyAt(j) = Token(key) => j <= 3
    BY <1>6, <1>7, <1>10, Zenon
  <2>2. \A i \in entries : i = 3
    BY <1>10, Zenon
  <2>3. 3 \in entries
    BY <1>10, Zenon
  <2> QED BY <2>1, <2>2, <2>3, Zenon
<1> HIDE DEF keys, LastOf
<1>13. \A k \in keys : UnescapeCQText(ValueAt(LastOf(k))) = UnescapeCQText(e)
  BY <1>7, <1>11, <1>12, Zenon
<1>14. CQData(inner) = [k \in keys |-> UnescapeCQText(e)]
  BY <1>9, <1>13, Zenon
<1> QED BY <1>11, <1>14, Zenon DEF CodeData

(* An escaped text has none of the characters that were escaped, but "&". *)
LEMMA EscapedAvoids ==
  ASSUME NEW X \in SUBSET Specials, "&" \in X, NEW t \in Texts
  PROVE  /\ Escape(X, t) \in Texts
         /\ \A i \in 1..Len(Escape(X, t)) : Escape(X, t)[i] \notin X \ {"&"}
<1>1. PICK A : A = Tokens \ (X \ {"&"})
  BY Zenon
<1>2. PICK u : u = Escape(X, t)
  BY Zenon
<1>3. Mapping(EscapeOf(X), Tokens, Seq(A))
  BY <1>1, EscapeOfType
<1>4. t \in Seq(Tokens)
  BY Zenon DEF Texts
<1>5. u \in Seq(A)
  BY <1>2, <1>3, <1>4, MappedType, Zenon DEF Escape
<1>6. u \in Seq(Tokens) /\ \A i \in 1..Len(u) : u[i] \in A
  BY <1>1, <1>5
<1> QED BY <1>1, <1>2, <1>6, Zenon DEF Texts

(* Data of one entry. *)
Entry(key, v) == [k \in {Token(key)} |-> v]

(* They are data. *)
LEMMA EntryType ==
  ASSUME NEW key \in {"file", "qq", "id"}, NEW v \in Texts
  PROVE  Entry(key, v) \in Data
<1>1. {Token(key)} \in SUBSET Texts
  BY Keys
<1>2. Entry(key, v) \in [{Token(key)} -> Texts]
  BY DEF Entry
<1> QED BY <1>1, <1>2, DataIs

(* What was written as a code is read as a segment with that one entry. *)
LEMMA CodeRead ==
  ASSUME NEW type \in CQTypes, NEW key \in {"file", "qq", "id"}, NEW v \in Texts
  PROVE  /\ Inner(type, key, EscapeCQValue(v)) \in Texts
         /\ \A i \in 1..Len(Inner(type, key, EscapeCQValue(v))) :
              Inner(type, key, EscapeCQValue(v))[i] # "]"
         /\ ParseCQToken(Inner(type, key, EscapeCQValue(v))) =
              TypedSegment(type, Entry(key, v))
<1>1. PICK e : e = Escape(Specials, v)
  BY Zenon
<1>2. "&" \in Specials /\ "," \in Specials \ {"&"} /\ "]" \in Specials \ {"&"}
  BY DEF Specials
<1>3. e \in Seq(Tokens) /\ \A i \in 1..Len(e) : e[i] \notin Specials \ {"&"}
  BY <1>1, <1>2, EscapedAvoids DEF Texts
<1>4. \A i \in 1..Len(e) : e[i] # "," /\ e[i] # "]"
  BY <1>2, <1>3, Zenon
<1>5. PICK inner : inner = Inner(type, key, e)
  BY Zenon
<1>6. CodeOf(inner, type, key, e)
  BY <1>3, <1>4, <1>5, Zenon DEF CodeOf
<1>7. InnerTokens(inner, type, key, e)
  BY <1>6, CodeTokens, Zenon
<1>8. PICK n \in Nat : n = Len(e)
  BY <1>3, LenProperties, Zenon
<1>9. \A i \in 1..Len(inner) : inner[i] # "]"
  <2>1. Len(inner) = 4 + n
    BY <1>7, <1>8, Zenon DEF InnerTokens
  <2>2. inner[1] = type /\ inner[2] = "," /\ inner[3] = key /\ inner[4] = "="
    BY <1>7, Zenon DEF InnerTokens
  <2>3. \A i \in 5..(4 + n) : inner[i] # "]"
    BY <1>7, <1>8, Zenon DEF InnerTokens
  <2>4. \A i \in 1..(4 + n) : i = 1 \/ i = 2 \/ i = 3 \/ i = 4 \/ i \in 5..(4 + n)
    OBVIOUS
  <2>5. type # "]" /\ "," # "]" /\ key # "]" /\ "=" # "]"
    BY TypesAndKeys
  <2> QED BY <2>1, <2>2, <2>3, <2>4, <2>5
<1>10. inner \in Texts
  BY <1>7, Zenon DEF InnerTokens, Texts
<1>11. UnescapeCQText(e) = v
  BY <1>1, <1>2, UnescapeEscape
<1>12. CQData(inner) = Entry(key, v)
  <2>1. CodeData(inner, key, e)
    BY <1>6, CodeDataIs, Zenon
  <2>2. CQData(inner) = [k \in {Token(key)} |-> UnescapeCQText(e)]
    BY <2>1, Zenon DEF CodeData
  <2> QED BY <1>11, <2>2, Zenon DEF Entry
<1>13. Item(inner, 1) = Token(type)
  <2>1. InnerItems(inner, type, key, e)
    BY <1>6, CodeItems, Zenon
  <2> QED BY <2>1, Zenon DEF InnerItems, Token
<1>14. Item(inner, 1)[1] = type
  BY <1>13 DEF Token
<1>15. ParseCQToken(inner) = TypedSegment(type, CQData(inner))
  BY <1>13, <1>14, Zenon DEF ParseCQToken
<1>16. e = EscapeCQValue(v)
  BY <1>1, EscapeValueIs
<1> QED BY <1>5, <1>9, <1>10, <1>12, <1>15, <1>16, Zenon

(* A text, a code, and what follows. *)
LEMMA ReadCode ==
  ASSUME NEW t \in Texts, \A i \in 1..Len(t) : t[i] # "[",
         NEW type \in CQTypes, NEW key \in {"file", "qq", "id"}, NEW v \in Texts,
         NEW rest \in Texts
  PROVE  /\ CQCode(type, key, v) \in Texts
         /\ ParseCQMessage(Cat(t, Cat(CQCode(type, key, v), rest))) =
              Cat(Cat(PlainText(t), <<TypedSegment(type, Entry(key, v))>>),
                  ParseCQMessage(rest))
<1>1. PICK inner \in Texts :
        /\ inner = Inner(type, key, EscapeCQValue(v))
        /\ \A i \in 1..Len(inner) : inner[i] # "]"
        /\ ParseCQToken(inner) = TypedSegment(type, Entry(key, v))
  BY CodeRead, Zenon
<1>2. PICK code : code = CQCode(type, key, v)
  BY Zenon
<1>3. code = Cat(Open, Cat(inner, Close))
  <2>1. type \in Tokens /\ key \in Tokens
    BY KnownTokens, TypesAndKeys
  <2> QED BY <1>1, <1>2, <2>1, CQCodeIs, Zenon
<1>4. inner \in Seq(Tokens) /\ rest \in Seq(Tokens)
  BY Zenon DEF Texts
<1>5. PICK o \in Seq(Tokens) : o = Open
  BY Brackets, Zenon
<1>6. PICK c \in Seq(Tokens) : c = Close
  BY Brackets, Zenon
<1>7. PICK ic \in Seq(Tokens) : ic = Cat(inner, c)
  BY <1>4, CatType, Zenon
<1>8. PICK cr \in Seq(Tokens) : cr = Cat(c, rest)
  BY <1>4, CatType, Zenon
<1>9. Cat(Cat(o, ic), rest) = Cat(o, Cat(ic, rest))
  BY <1>4, CatAssociative
<1>10. Cat(Cat(inner, c), rest) = Cat(inner, cr)
  BY <1>4, <1>8, CatAssociative
<1>11. Cat(code, rest) = Cat(Open, Cat(inner, Cat(Close, rest)))
  BY <1>3, <1>5, <1>6, <1>7, <1>8, <1>9, <1>10, Zenon
<1>12. code \in Texts
  BY <1>3, <1>5, <1>6, <1>7, CatType, Zenon DEF Texts
<1>13. ParseCQMessage(Cat(t, Cat(Open, Cat(inner, Cat(Close, rest))))) =
         Cat(Cat(PlainText(t), <<ParseCQToken(inner)>>), ParseCQMessage(rest))
  BY <1>1, ParseCode
<1> QED BY <1>1, <1>2, <1>11, <1>12, <1>13, Zenon

(* An escaped text, between codes, is read as that text, or as nothing if   *)
(* there is none of it.                                                    *)
LEMMA ReadText ==
  ASSUME NEW x \in Texts
  PROVE  /\ Escape(TextSpecials, x) \in Texts
         /\ \A i \in 1..Len(Escape(TextSpecials, x)) : Escape(TextSpecials, x)[i] # "["
         /\ PlainText(Escape(TextSpecials, x)) = IF x = <<>> THEN <<>> ELSE <<TextSegment(x)>>
<1>1. TextSpecials \in SUBSET Specials /\ "&" \in TextSpecials /\ "[" \in TextSpecials \ {"&"}
  BY DEF TextSpecials, Specials
<1>2. PICK u : u = Escape(TextSpecials, x)
  BY Zenon
<1>3. u \in Texts /\ \A i \in 1..Len(u) : u[i] \notin TextSpecials \ {"&"}
  BY <1>1, <1>2, EscapedAvoids
<1>4. \A i \in 1..Len(u) : u[i] # "["
  BY <1>1, <1>3, Zenon
<1>5. UnescapeCQText(u) = x
  BY <1>1, <1>2, UnescapeEscape
<1>6. u = <<>> <=> x = <<>>
  <2>1. u = <<>> => x = <<>>
    BY <1>5, UnescapeEmpty, Zenon
  <2>2. x = <<>> => u = <<>>
    BY <1>2, MappedEmpty, Zenon DEF Escape
  <2> QED BY <2>1, <2>2
<1>7. PlainText(u) = IF x = <<>> THEN <<>> ELSE <<TextSegment(x)>>
  <2>1. CASE x = <<>>
    BY <1>6, <2>1, Zenon DEF PlainText
  <2>2. CASE x # <<>>
    BY <1>5, <1>6, <2>2, Zenon DEF PlainText
  <2> QED BY <2>1, <2>2, Zenon
<1> QED BY <1>2, <1>3, <1>4, <1>7, Zenon

(* What can be flattened is associative. *)
LEMMA MonoidCat ==
  ASSUME NEW V, Monoid(V), NEW a \in V, NEW b \in V, NEW d \in V
  PROVE  Cat(Cat(a, b), d) = Cat(a, Cat(b, d))
BY Zenon DEF Monoid

(* What is written, piece by piece: an escaped text or a code of one entry. *)
Writes(S, w, c) ==
  \A x \in S :
    \/ \E y \in Texts : w[x] = Escape(TextSpecials, y) /\ c[x] = TextSegment(y)
    \/ \E type \in CQTypes, key \in {"file", "qq", "id"}, v \in Texts :
         /\ w[x] = CQCode(type, key, v)
         /\ c[x] = TypedSegment(type, Entry(key, v))

(* A view of segments that does not tell where a text is cut in two. *)
View(h, V) ==
  /\ Mapping(h, Segments, V)
  /\ h[TextSegment(<<>>)] = <<>>
  /\ \A a, b \in Texts :
       h[TextSegment(Cat(a, b))] = Cat(h[TextSegment(a)], h[TextSegment(b)])

(* What is written is text, and is read as a segment. *)
LEMMA WritesType ==
  ASSUME NEW S, NEW w, NEW c, Writes(S, w, c), NEW x \in S
  PROVE  w[x] \in Texts /\ c[x] \in Segments
<1>1. CASE \E y \in Texts : w[x] = Escape(TextSpecials, y) /\ c[x] = TextSegment(y)
  BY <1>1, ReadText, TextSegmentType, Zenon
<1>2. CASE \E type \in CQTypes, key \in {"file", "qq", "id"}, v \in Texts :
             /\ w[x] = CQCode(type, key, v)
             /\ c[x] = TypedSegment(type, Entry(key, v))
  <2>1. PICK type \in CQTypes, key \in {"file", "qq", "id"}, v \in Texts :
               /\ w[x] = CQCode(type, key, v)
               /\ c[x] = TypedSegment(type, Entry(key, v))
    BY <1>2, Zenon
  <2>2. c[x] \in Segments
    BY <2>1, EntryType, TypedSegmentType, Zenon
  <2>3. \A i \in 1..Len(<<>>) : <<>>[i] # "["
    OBVIOUS
  <2>4. <<>> \in Texts
    BY DEF Texts
  <2>5. w[x] \in Texts
    BY <2>1, <2>3, <2>4, ReadCode
  <2> QED BY <2>2, <2>5
<1> QED BY <1>1, <1>2, Zenon DEF Writes

(* A view of what PlainText makes of an escaped text. *)
LEMMA ViewOfText ==
  ASSUME NEW V, NEW h, View(h, V), NEW x \in Texts
  PROVE  /\ Mapped(h, PlainText(Escape(TextSpecials, x))) = h[TextSegment(x)]
         /\ PlainText(Escape(TextSpecials, x)) \in Seq(Segments)
<1>1. Mapping(h, Segments, V) /\ h[TextSegment(<<>>)] = <<>>
  BY Zenon DEF View
<1>2. PICK u : u = PlainText(Escape(TextSpecials, x))
  BY Zenon
<1>3. u = IF x = <<>> THEN <<>> ELSE <<TextSegment(x)>>
  BY <1>2, ReadText, Zenon
<1>4. u \in Seq(Segments)
  BY <1>2, ReadText, PlainTextType, Zenon
<1>5. CASE x = <<>>
  BY <1>1, <1>2, <1>3, <1>4, <1>5, MappedEmpty, Zenon
<1>6. CASE x # <<>>
  BY <1>1, <1>2, <1>3, <1>4, <1>6, MappedOne, TextSegmentType, Zenon
<1> QED BY <1>5, <1>6

(* A view of a text, a code and what follows. *)
LEMMA ViewOfCode ==
  ASSUME NEW V, NEW h, View(h, V), NEW x \in Texts,
         NEW type \in CQTypes, NEW key \in {"file", "qq", "id"}, NEW v \in Texts,
         NEW rest \in Texts
  PROVE  Mapped(h, ParseCQMessage(Cat(Escape(TextSpecials, x), Cat(CQCode(type, key, v), rest)))) =
           Cat(Cat(h[TextSegment(x)], h[TypedSegment(type, Entry(key, v))]),
               Mapped(h, ParseCQMessage(rest)))
<1>1. Mapping(h, Segments, V)
  BY Zenon DEF View
<1>2. PICK s : s = TypedSegment(type, Entry(key, v))
  BY Zenon
<1>3. PICK t \in Texts : t = Escape(TextSpecials, x) /\ \A i \in 1..Len(t) : t[i] # "["
  BY ReadText, Zenon
<1>4. ParseCQMessage(Cat(t, Cat(CQCode(type, key, v), rest))) =
        Cat(Cat(PlainText(t), <<s>>), ParseCQMessage(rest))
  BY <1>2, <1>3, ReadCode
<1>5. PICK p \in Seq(Segments) : p = PlainText(t) /\ Mapped(h, p) = h[TextSegment(x)]
  BY <1>3, ViewOfText, Zenon
<1>6. PICK r \in Seq(Segments) : r = ParseCQMessage(rest)
  BY ParseType, Zenon
<1>7. s \in Segments
  BY <1>2, EntryType, TypedSegmentType, Zenon
<1>8. PICK one \in Seq(Segments) : one = <<s>>
  BY <1>7, OneType, Zenon
<1>9. PICK ps \in Seq(Segments) : ps = Cat(p, one)
  BY CatType, Zenon
<1>10. Mapped(h, Cat(ps, r)) = Cat(Mapped(h, ps), Mapped(h, r))
  BY <1>1, MappedCat
<1>11. Mapped(h, ps) = Cat(Mapped(h, p), h[s])
  <2>1. Mapped(h, Cat(p, <<s>>)) = Cat(Mapped(h, p), h[s])
    BY <1>1, <1>7, MappedLast
  <2> QED BY <1>8, <1>9, <2>1, Zenon
<1> QED BY <1>2, <1>3, <1>4, <1>5, <1>6, <1>8, <1>9, <1>10, <1>11, Zenon

(* What was written is seen, when it is read, as what was written. *)
LEMMA ReadWritten ==
  ASSUME NEW S, NEW V, NEW h, NEW w, NEW c, NEW k,
         View(h, V), Writes(S, w, c), \A x \in S : k[x] = h[c[x]],
         NEW s \in Seq(S), NEW x \in Texts
  PROVE  Mapped(h, ParseCQMessage(Cat(Escape(TextSpecials, x), Mapped(w, s)))) =
           Cat(h[TextSegment(x)], Mapped(k, s))
<1> DEFINE Seen(t, y) ==
             Mapped(h, ParseCQMessage(Cat(Escape(TextSpecials, y), Mapped(w, t)))) =
               Cat(h[TextSegment(y)], Mapped(k, t))
           P == {t \in Seq(S) : \A y \in Texts : Seen(t, y)}
<1>1. Mapping(h, Segments, V) /\ Monoid(V)
  BY Zenon DEF View, Mapping
<1>2. \A y \in Texts : h[TextSegment(y)] \in V
  BY <1>1, TextSegmentType, Zenon DEF Mapping
<1>3. Mapping(w, S, Texts)
  BY WritesType, TextsMonoid, Zenon DEF Mapping
<1>4. Mapping(k, S, V)
  BY <1>1, WritesType, Zenon DEF Mapping
<1>5. \A y \in Texts : Escape(TextSpecials, y) \in Texts
  BY ReadText
<1>6. <<>> \in Seq(S) /\ <<>> \in Texts
  BY DEF Texts
<1>7. \A t \in Seq(S) : Mapped(w, t) \in Texts /\ Mapped(k, t) \in V
  BY <1>3, <1>4, MappedType, Zenon
<1>8. <<>> \in P
  <2>1. ASSUME NEW y \in Texts PROVE Seen(<<>>, y)
    <3>1. PICK u \in Texts : u = Escape(TextSpecials, y) /\ \A i \in 1..Len(u) : u[i] # "["
      BY ReadText, Zenon
    <3>2. Cat(u, Mapped(w, <<>>)) = u
      BY MappedEmpty, CatEmpty, Zenon DEF Texts
    <3>3. ParseCQMessage(u) = PlainText(u)
      BY <3>1, ParseText
    <3>4. Mapped(h, PlainText(u)) = h[TextSegment(y)]
      BY <3>1, ViewOfText, Zenon
    <3>5. Cat(h[TextSegment(y)], Mapped(k, <<>>)) = h[TextSegment(y)]
      BY <1>1, <1>2, MappedEmpty, Zenon DEF Monoid
    <3> QED BY <3>1, <3>2, <3>3, <3>4, <3>5, Zenon
  <2> HIDE DEF Seen
  <2> QED BY <1>6, <2>1, Zenon
<1>9. ASSUME NEW t \in Seq(S), NEW z \in S, t \in P PROVE Cat(<<z>>, t) \in P
  <2>1. PICK zt \in Seq(S) : zt = Cat(<<z>>, t)
    BY OneType, CatType, Zenon
  <2>2. Mapped(w, zt) = Cat(w[z], Mapped(w, t)) /\ Mapped(k, zt) = Cat(k[z], Mapped(k, t))
    <3>1. PICK one \in Seq(S) : one = <<z>>
      BY OneType, Zenon
    <3>2. Mapped(w, one) = w[z] /\ Mapped(k, one) = k[z]
      <4>1. Mapped(w, <<z>>) = w[z]
        BY <1>3, MappedOne
      <4>2. Mapped(k, <<z>>) = k[z]
        BY <1>4, MappedOne
      <4> QED BY <3>1, <4>1, <4>2, Zenon
    <3>3. Mapped(w, Cat(one, t)) = Cat(Mapped(w, one), Mapped(w, t))
      BY <1>3, MappedCat
    <3>4. Mapped(k, Cat(one, t)) = Cat(Mapped(k, one), Mapped(k, t))
      BY <1>4, MappedCat
    <3> QED BY <2>1, <3>1, <3>2, <3>3, <3>4, Zenon
  <2>3. PICK wt \in Texts : wt = Mapped(w, t)
    BY <1>7, Zenon
  <2>4. PICK kt \in V : kt = Mapped(k, t)
    BY <1>7, Zenon
  <2>5. \A y \in Texts : Mapped(h, ParseCQMessage(Cat(Escape(TextSpecials, y), wt))) =
                           Cat(h[TextSegment(y)], kt)
    BY <1>9, <2>3, <2>4, Zenon
  <2>6. ASSUME NEW y \in Texts PROVE Seen(zt, y)
    <3>1. PICK u \in Texts : u = Escape(TextSpecials, y)
      BY <1>5, Zenon
    <3>2. CASE \E a \in Texts : w[z] = Escape(TextSpecials, a) /\ c[z] = TextSegment(a)
      <4>1. PICK a \in Texts : w[z] = Escape(TextSpecials, a) /\ c[z] = TextSegment(a)
        BY <3>2, Zenon
      <4>2. PICK ya \in Texts : ya = Cat(y, a)
        BY CatType, Zenon DEF Texts
      <4>3. Escape(TextSpecials, ya) = Cat(u, w[z])
        <5>1. TextSpecials \in SUBSET Specials
          BY DEF TextSpecials, Specials
        <5>2. Mapping(EscapeOf(TextSpecials), Tokens, Texts)
          BY <5>1, EscapeOfTexts
        <5>3. y \in Seq(Tokens) /\ a \in Seq(Tokens)
          BY Zenon DEF Texts
        <5>4. Mapped(EscapeOf(TextSpecials), Cat(y, a)) =
                Cat(Mapped(EscapeOf(TextSpecials), y), Mapped(EscapeOf(TextSpecials), a))
          BY <5>2, <5>3, MappedCat
        <5> QED BY <3>1, <4>1, <4>2, <5>4, Zenon DEF Escape
      <4>4. PICK wz \in Texts : wz = w[z]
        BY <1>3, Zenon DEF Mapping
      <4>5. Cat(Cat(u, wz), wt) = Cat(u, Cat(wz, wt))
        BY TextsMonoid, MonoidCat
      <4>6. Mapped(h, ParseCQMessage(Cat(u, Mapped(w, zt)))) = Cat(h[TextSegment(ya)], kt)
        BY <2>2, <2>3, <2>5, <4>2, <4>3, <4>4, <4>5, Zenon
      <4>7. h[TextSegment(ya)] = Cat(h[TextSegment(y)], h[TextSegment(a)])
        BY <4>2, Zenon DEF View
      <4>8. Cat(Cat(h[TextSegment(y)], h[TextSegment(a)]), kt) =
              Cat(h[TextSegment(y)], Cat(h[TextSegment(a)], kt))
        BY <1>1, <1>2, MonoidCat
      <4>9. k[z] = h[TextSegment(a)]
        BY <4>1, Zenon
      <4> QED BY <2>2, <2>4, <3>1, <4>6, <4>7, <4>8, <4>9, Zenon
    <3>3. CASE \E type \in CQTypes, key \in {"file", "qq", "id"}, v \in Texts :
                 /\ w[z] = CQCode(type, key, v)
                 /\ c[z] = TypedSegment(type, Entry(key, v))
      <4>1. PICK type \in CQTypes, key \in {"file", "qq", "id"}, v \in Texts :
                 /\ w[z] = CQCode(type, key, v)
                 /\ c[z] = TypedSegment(type, Entry(key, v))
        BY <3>3, Zenon
      <4>2. Mapped(h, ParseCQMessage(Cat(u, Cat(CQCode(type, key, v), wt)))) =
              Cat(Cat(h[TextSegment(y)], h[TypedSegment(type, Entry(key, v))]),
                  Mapped(h, ParseCQMessage(wt)))
        BY <3>1, ViewOfCode
      <4>3. Mapped(h, ParseCQMessage(wt)) = kt
        <5>1. Escape(TextSpecials, <<>>) = <<>>
          BY MappedEmpty, Zenon DEF Escape
        <5>2. Cat(<<>>, wt) = wt
          BY CatEmpty, Zenon DEF Texts
        <5>3. Cat(h[TextSegment(<<>>)], kt) = kt
          BY <1>1, Zenon DEF View, Monoid
        <5> QED BY <1>6, <2>5, <5>1, <5>2, <5>3, Zenon
      <4>4. PICK hz \in V : hz = k[z]
        BY <1>4, Zenon DEF Mapping
      <4>5. Cat(Cat(h[TextSegment(y)], hz), kt) = Cat(h[TextSegment(y)], Cat(hz, kt))
        BY <1>1, <1>2, MonoidCat
      <4>6. k[z] = h[TypedSegment(type, Entry(key, v))]
        BY <4>1, Zenon
      <4> QED BY <2>2, <2>3, <2>4, <3>1, <4>1, <4>2, <4>3, <4>4, <4>5, <4>6, Zenon
    <3> QED BY <3>2, <3>3, Zenon DEF Writes
  <2> HIDE DEF Seen
  <2> QED BY <2>1, <2>6, Zenon
<1> HIDE DEF Seen
<1>10. Seq(S) \subseteq P
  <2> HIDE DEF P
  <2> QED BY <1>8, <1>9, InductionFirst
<1>11. Seen(s, x)
  BY <1>10, Zenon
<1> QED BY <1>11, Zenon DEF Seen

(* The same, of what begins with no text. *)
LEMMA ReadWrittenOnly ==
  ASSUME NEW S, NEW V, NEW h, NEW w, NEW c, NEW k,
         View(h, V), Writes(S, w, c), \A x \in S : k[x] = h[c[x]],
         NEW s \in Seq(S)
  PROVE  Mapped(h, ParseCQMessage(Mapped(w, s))) = Mapped(k, s)
<1>1. <<>> \in Texts
  BY DEF Texts
<1>2. Mapped(h, ParseCQMessage(Cat(Escape(TextSpecials, <<>>), Mapped(w, s)))) =
        Cat(h[TextSegment(<<>>)], Mapped(k, s))
  BY <1>1, ReadWritten
<1>3. Escape(TextSpecials, <<>>) = <<>>
  BY MappedEmpty, Zenon DEF Escape
<1>4. Mapping(w, S, Texts)
  BY WritesType, TextsMonoid, Zenon DEF Mapping
<1>5. Cat(<<>>, Mapped(w, s)) = Mapped(w, s)
  BY <1>4, MappedType, TextsMonoid, Zenon DEF Monoid
<1>6. Mapping(k, S, V) /\ Monoid(V) /\ h[TextSegment(<<>>)] = <<>>
  BY WritesType, Zenon DEF Mapping, View
<1>7. Cat(<<>>, Mapped(k, s)) = Mapped(k, s)
  BY <1>6, MappedType, Zenon DEF Monoid
<1> QED BY <1>2, <1>3, <1>5, <1>6, <1>7, Zenon

-----------------------------------------------------------------------------
(* Numbers. *)

(* The digits are ten different tokens. *)
LEMMA DigitsDiffer ==
  /\ \A d \in 1..10 : DigitTokens[d] \in Tokens
  /\ \A d, e \in 1..10 : DigitTokens[d] = DigitTokens[e] => d = e
  /\ \A d \in 1..10 : DigitTokens[d] # "e+"
<1>1. \A d \in 1..10 : DigitTokens[d] \in Tokens
  BY DEF Tokens
<1>2. \A d \in 1..10 : d = 1 \/ d = 2 \/ d = 3 \/ d = 4 \/ d = 5 \/ d = 6 \/ d = 7 \/ d = 8 \/ d = 9 \/ d = 10
  OBVIOUS
<1>3. /\ DigitTokens[1] = "0" /\ DigitTokens[2] = "1" /\ DigitTokens[3] = "2"
      /\ DigitTokens[4] = "3" /\ DigitTokens[5] = "4" /\ DigitTokens[6] = "5"
      /\ DigitTokens[7] = "6" /\ DigitTokens[8] = "7" /\ DigitTokens[9] = "8"
      /\ DigitTokens[10] = "9"
  BY DEF DigitTokens
<1>4. \A d \in 1..10 : DigitTokens[d] # "e+"
  BY <1>2, <1>3
<1>5. \A d, e \in 1..10 : DigitTokens[d] = DigitTokens[e] => d = e
  BY <1>2, <1>3
<1> QED BY <1>1, <1>4, <1>5

(* The last digit of a number, and the others. *)
LowDigit(n) == DigitTokens[(n % 10) + 1]

(* What they are. *)
LEMMA DivTen ==
  ASSUME NEW n \in Nat
  PROVE  /\ n \div 10 \in Nat
         /\ n % 10 \in 0..9
         /\ n = 10 * (n \div 10) + (n % 10)
         /\ n < 10 => n % 10 = n
         /\ n >= 10 => n \div 10 < n /\ n \div 10 > 0
OBVIOUS

(* The last digit is a token. *)
LEMMA LowDigitType ==
  ASSUME NEW n \in Nat
  PROVE  LowDigit(n) \in Tokens /\ <<LowDigit(n)>> \in Texts
<1>1. (n % 10) + 1 \in 1..10
  BY DivTen
<1>2. LowDigit(n) \in Tokens
  BY <1>1, DigitsDiffer, Zenon DEF LowDigit
<1> QED BY <1>2, OneType, Zenon DEF Texts

Formatted(f, n) ==
  IF n < 10 THEN <<LowDigit(n)>> ELSE Cat(f[n \div 10], <<LowDigit(n)>>)

Formats(N, f) ==
  /\ f \in [0..N -> Texts]
  /\ \A n \in 0..N : f[n] = Formatted(f, n)

(* Numbers up to a bound can be formatted, *)
LEMMA FormatsExist ==
  ASSUME NEW N \in Nat
  PROVE  \E f : Formats(N, f)
<1> DEFINE S == {M \in Nat : \E f : Formats(M, f)}
<1>1. 0 \in S
  <2>1. PICK f : f = [n \in 0..0 |-> <<LowDigit(0)>>]
    BY Zenon
  <2>2. f \in [0..0 -> Texts]
    BY <2>1, LowDigitType
  <2>3. \A n \in 0..0 : f[n] = Formatted(f, n)
    BY <2>1 DEF Formatted
  <2> QED BY <2>2, <2>3 DEF Formats
<1>2. ASSUME NEW M \in Nat, M \in S PROVE M + 1 \in S
  <2>1. PICK f : Formats(M, f)
    BY <1>2
  <2>2. f \in [0..M -> Texts] /\ \A n \in 0..M : f[n] = Formatted(f, n)
    BY <2>1, Zenon DEF Formats
  <2>3. PICK w : w = Formatted(f, M + 1)
    BY Zenon
  <2>4. w \in Texts
    <3>1. M + 1 \in Nat
      OBVIOUS
    <3>2. PICK d \in Texts : d = <<LowDigit(M + 1)>>
      BY <3>1, LowDigitType, Zenon
    <3>3. CASE M + 1 < 10
      BY <2>3, <3>2, <3>3, Zenon DEF Formatted
    <3>4. CASE ~(M + 1 < 10)
      <4>1. (M + 1) \div 10 \in 0..M
        BY <3>1, <3>4, DivTen
      <4>2. f[(M + 1) \div 10] \in Texts
        BY <2>2, <4>1
      <4>3. Cat(f[(M + 1) \div 10], d) \in Texts
        BY <4>2, CatType, Zenon DEF Texts
      <4> QED BY <2>3, <3>2, <3>4, <4>3, Zenon DEF Formatted
    <3> QED BY <3>3, <3>4
  <2>5. PICK g : g = [n \in 0..(M + 1) |-> IF n = M + 1 THEN w ELSE f[n]]
    BY Zenon
  <2>6. g \in [0..(M + 1) -> Texts]
    BY <2>2, <2>4, <2>5
  <2>7. \A n \in 0..M : g[n] = f[n]
    BY <2>5
  <2>8. ASSUME NEW n \in 0..(M + 1) PROVE g[n] = Formatted(g, n)
    <3>1. CASE n < 10
      <4>1. Formatted(g, n) = Formatted(f, n)
        BY <3>1, Zenon DEF Formatted
      <4>2. CASE n = M + 1
        BY <2>3, <2>5, <4>1, <4>2
      <4>3. CASE n # M + 1
        <5>1. n \in 0..M
          BY <4>3
        <5> QED BY <2>2, <2>7, <4>1, <5>1, Zenon
      <4> QED BY <4>2, <4>3
    <3>2. CASE ~(n < 10)
      <4>1. n \div 10 \in 0..M
        BY <3>2, DivTen
      <4>2. Formatted(g, n) = Formatted(f, n)
        BY <2>7, <4>1, Zenon DEF Formatted
      <4>3. CASE n = M + 1
        BY <2>3, <2>5, <4>2, <4>3
      <4>4. CASE n # M + 1
        <5>1. n \in 0..M
          BY <4>4
        <5> QED BY <2>2, <2>7, <4>2, <5>1, Zenon
      <4> QED BY <4>3, <4>4
    <3> QED BY <3>1, <3>2
  <2>9. Formats(M + 1, g)
    BY <2>6, <2>8, Zenon DEF Formats
  <2>10. M + 1 \in Nat
    OBVIOUS
  <2> QED BY <2>9, <2>10
<1> HIDE DEF S
<1>3. N \in S
  BY <1>1, <1>2, SetInduction
<1> QED BY <1>3 DEF S

(* in one way. *)
LEMMA FormatsUnique ==
  ASSUME NEW N \in Nat, NEW M \in Nat, NEW f, NEW g, Formats(N, f), Formats(M, g),
         NEW n \in Nat, n <= N, n <= M
  PROVE  f[n] = g[n]
<1> DEFINE T == {m \in Nat : m <= N /\ m <= M /\ f[m] # g[m]}
<1> SUFFICES ASSUME f[n] # g[n] PROVE FALSE
  OBVIOUS
<1>1. T \in SUBSET Nat /\ T # {}
  <2>1. n \in T
    OBVIOUS
  <2> QED BY <2>1
<1>2. PICK m \in T : \A l \in T : m <= l
  BY <1>1, LeastNat
<1>3. m \in Nat /\ m \in 0..N /\ m \in 0..M /\ f[m] # g[m]
  OBVIOUS
<1>4. f[m] = Formatted(f, m) /\ g[m] = Formatted(g, m)
  BY <1>3, Zenon DEF Formats
<1>5. Formatted(f, m) = Formatted(g, m)
  <2>1. CASE m < 10
    BY <2>1, Zenon DEF Formatted
  <2>2. CASE ~(m < 10)
    <3>1. m \div 10 \in Nat /\ m \div 10 < m
      BY <1>3, <2>2, DivTen
    <3>2. ~(m \div 10 \in T)
      BY <1>2, <3>1
    <3>3. m \div 10 <= N /\ m \div 10 <= M
      BY <1>3, <3>1
    <3>4. f[m \div 10] = g[m \div 10]
      BY <3>1, <3>2, <3>3, Zenon
    <3> QED BY <3>4, Zenon DEF Formatted
  <2> QED BY <2>1, <2>2
<1> QED BY <1>3, <1>4, <1>5

(* FormatInt is that function. *)
LEMMA FormatIntIs ==
  ASSUME NEW n \in Nat
  PROVE  FormatInt[n] = Formatted(FormatInt, n)
<1> DEFINE F == [m \in Nat |-> (CHOOSE f : Formats(m, f))[m]]
<1>1. ASSUME NEW m \in Nat PROVE F[m] = Formatted(F, m)
  <2>1. PICK f : f = CHOOSE g : Formats(m, g)
    BY Zenon
  <2>2. Formats(m, f)
    BY <2>1, FormatsExist, Zenon
  <2>3. F[m] = f[m]
    BY <2>1
  <2>4. f[m] = Formatted(f, m)
    BY <2>2 DEF Formats
  <2>5. CASE m < 10
    BY <2>3, <2>4, <2>5, Zenon DEF Formatted
  <2>6. CASE ~(m < 10)
    <3>1. PICK l \in Nat : l = m \div 10 /\ l <= m
      BY <2>6, DivTen
    <3>2. PICK h : h = CHOOSE g : Formats(l, g)
      BY Zenon
    <3>3. Formats(l, h)
      BY <3>2, FormatsExist, Zenon
    <3>4. F[l] = h[l]
      BY <3>2
    <3>5. l <= l
      OBVIOUS
    <3>6. h[l] = f[l]
      BY <2>2, <3>1, <3>3, <3>5, FormatsUnique
    <3> QED BY <2>3, <2>4, <2>6, <3>1, <3>4, <3>6, Zenon DEF Formatted
  <2> QED BY <2>5, <2>6
<1> DEFINE G(f) == [m \in Nat |->
                      IF m < 10 THEN <<DigitTokens[m + 1]>>
                      ELSE f[m \div 10] \o <<DigitTokens[(m % 10) + 1]>>]
<1>2. \A f : \A m \in Nat : G(f)[m] = Formatted(f, m)
  <2>1. \A m \in Nat : m < 10 => LowDigit(m) = DigitTokens[m + 1]
    BY DivTen DEF LowDigit
  <2> QED BY <2>1 DEF Formatted, LowDigit, Cat
<1>3. F = G(F)
  <2>1. \A m \in Nat : F[m] = G(F)[m]
    BY <1>1, <1>2, Zenon
  <2>2. F = [m \in Nat |-> F[m]] /\ G(F) = [m \in Nat |-> G(F)[m]]
    OBVIOUS
  <2> HIDE DEF F, G
  <2> QED BY <2>1, <2>2
<1> HIDE DEF F
<1>4. FormatInt = CHOOSE f : f = G(f)
  BY DEF FormatInt
<1> HIDE DEF G
<1>5. FormatInt = G(FormatInt)
  BY <1>3, <1>4, Zenon
<1> QED BY <1>2, <1>5, Zenon

(* Texts of digits, and the number a digit is. *)
DigitTexts == Seq({DigitTokens[d] : d \in 1..10})
DigitValue(c) == (CHOOSE d \in 1..10 : DigitTokens[d] = c) - 1

(* A number ends in its last digit. *)
LEMMA LowDigitValue ==
  ASSUME NEW n \in Nat
  PROVE  /\ DigitValue(LowDigit(n)) = n % 10
         /\ LowDigit(n) \in {DigitTokens[d] : d \in 1..10}
<1>1. PICK d \in 1..10 : d = (n % 10) + 1
  BY DivTen
<1>2. LowDigit(n) = DigitTokens[d]
  BY <1>1, Zenon DEF LowDigit
<1>3. (CHOOSE k \in 1..10 : DigitTokens[k] = LowDigit(n)) = d
  BY <1>2, DigitsDiffer, Zenon
<1>4. d - 1 = n % 10
  BY <1>1, DivTen
<1> QED BY <1>2, <1>3, <1>4, Zenon DEF DigitValue

(* Digits have values. *)
LEMMA DigitValueType ==
  ASSUME NEW c \in {DigitTokens[d] : d \in 1..10}
  PROVE  DigitValue(c) \in 0..9
<1>1. PICK d \in 1..10 : DigitTokens[d] = c
  BY Zenon
<1>2. PICK k : k = CHOOSE d2 \in 1..10 : DigitTokens[d2] = c
  BY Zenon
<1>3. k \in 1..10
  BY <1>1, <1>2, Zenon
<1>4. k - 1 \in 0..9
  BY <1>3
<1> QED BY <1>2, <1>4, Zenon DEF DigitValue

(* A text of digits. *)
LEMMA IsIntIs ==
  ASSUME NEW t \in Texts
  PROVE  IsInt(t) <=> t # <<>> /\ t \in DigitTexts
<1>1. DOMAIN t = 1..Len(t)
  BY TextLen
<1>2. IsInt(t) <=> t # <<>> /\ \A i \in 1..Len(t) : t[i] \in {DigitTokens[d] : d \in 1..10}
  BY <1>1 DEF IsInt
<1> DEFINE D == {DigitTokens[d] : d \in 1..10}
<1> HIDE DEF D
<1>3. (\A i \in 1..Len(t) : t[i] \in D) <=> t \in Seq(D)
  BY DEF Texts
<1> QED BY <1>2, <1>3, Zenon DEF DigitTexts, D

(* The values of the beginnings of a text. *)
Reads(t, n, f) ==
  /\ f \in [0..n -> Nat]
  /\ f[0] = 0
  /\ \A i \in 1..n : f[i] = 10 * f[i - 1] + DigitValue(t[i])

(* They exist. *)
LEMMA ReadsExist ==
  ASSUME NEW t \in DigitTexts, NEW n \in Nat, n = Len(t)
  PROVE  \E f : Reads(t, n, f)
<1> DEFINE h == [i \in 1..n |-> [v \in Nat |-> 10 * v + DigitValue(t[i])]]
<1>1. \A i \in 1..n : DigitValue(t[i]) \in Nat
  <2>1. \A i \in 1..n : t[i] \in {DigitTokens[d] : d \in 1..10}
    <3> DEFINE D == {DigitTokens[d] : d \in 1..10}
    <3>1. t \in Seq(D)
      BY DEF DigitTexts
    <3> HIDE DEF D
    <3>2. \A i \in 1..n : t[i] \in D
      BY <3>1
    <3> QED BY <3>2, Zenon DEF D
  <2>2. \A i \in 1..n : DigitValue(t[i]) \in 0..9
    BY <2>1, DigitValueType, Zenon
  <2> QED BY <2>2
<1>2. \A i \in 1..n : \A v \in Nat : h[i][v] = 10 * v + DigitValue(t[i])
  OBVIOUS
<1>3. \A i \in 1..n : \A v \in Nat : h[i][v] \in Nat
  BY <1>1, <1>2
<1> HIDE DEF h
<1>4. PICK f : Recursion(Nat, 0, n, h, f)
  BY <1>3, PrefixRecursion
<1>5. f \in [0..n -> Nat] /\ f[0] = 0 /\ \A i \in 1..n : f[i] = h[i][f[i - 1]]
  BY <1>4, Zenon DEF Recursion
<1>6. ASSUME NEW i \in 1..n PROVE f[i] = 10 * f[i - 1] + DigitValue(t[i])
  <2>1. i - 1 \in 0..n
    OBVIOUS
  <2>2. f[i - 1] \in Nat
    BY <1>5, <2>1
  <2> QED BY <1>2, <1>5, <2>2, Zenon
<1> QED BY <1>5, <1>6, Zenon DEF Reads

(* The number is the last of them. *)
LEMMA ParseIntIs ==
  ASSUME NEW t, NEW n \in Nat, n = Len(t), NEW f, Reads(t, n, f)
  PROVE  ParseInt(t) = f[n]
<1> DEFINE F(g) == [i \in 0..Len(t) |->
                      IF i = 0 THEN 0 ELSE 10 * g[i - 1] + DigitValue(t[i])]
           value == CHOOSE g : g = F(g)
<1>1. f = F(f)
  <2>1. f = [i \in 0..n |-> f[i]]
    BY DEF Reads
  <2>2. \A i \in 0..n : f[i] = IF i = 0 THEN 0 ELSE 10 * f[i - 1] + DigitValue(t[i])
    <3>1. \A i \in 0..n : i # 0 => i \in 1..n
      OBVIOUS
    <3> QED BY <3>1, Zenon DEF Reads
  <2>3. [i \in 0..n |-> f[i]] = F(f)
    BY <2>2
  <2> QED BY <2>1, <2>3, Zenon
<1>2. value = F(value)
  BY <1>1
<1>3. \A i \in 0..n : value[i] = IF i = 0 THEN 0 ELSE 10 * value[i - 1] + DigitValue(t[i])
  BY <1>2
<1>4. ParseInt(t) = value[n]
  BY Zenon DEF ParseInt, DigitValue
<1> HIDE DEF value, F
<1> DEFINE A == {m \in Nat : m <= n => value[m] = f[m]}
<1>5. 0 \in A
  BY <1>3 DEF Reads
<1>6. ASSUME NEW m \in Nat, m \in A PROVE m + 1 \in A
  <2> SUFFICES ASSUME m + 1 <= n PROVE value[m + 1] = f[m + 1]
    OBVIOUS
  <2>1. m + 1 \in 0..n /\ m + 1 \in 1..n /\ m + 1 # 0 /\ (m + 1) - 1 = m
    OBVIOUS
  <2>2. value[m] = f[m]
    BY <1>6
  <2>3. value[m + 1] = 10 * value[m] + DigitValue(t[m + 1])
    BY <1>3, <2>1, Zenon
  <2>4. f[m + 1] = 10 * f[m] + DigitValue(t[m + 1])
    BY <2>1, Zenon DEF Reads
  <2> QED BY <2>2, <2>3, <2>4, Zenon
<1> HIDE DEF A
<1>7. n \in A
  BY <1>5, <1>6, SetInduction
<1>8. value[n] = f[n]
  BY <1>7 DEF A
<1> QED BY <1>4, <1>8, Zenon

(* No digits are zero. *)
LEMMA ParseIntEmpty == ParseInt(<<>>) = 0
<1>1. <<>> \in DigitTexts /\ Len(<<>>) = 0
  BY DEF DigitTexts
<1>2. PICK f : Reads(<<>>, 0, f)
  BY <1>1, ReadsExist
<1>3. ParseInt(<<>>) = f[0]
  BY <1>1, <1>2, ParseIntIs
<1> QED BY <1>2, <1>3, Zenon DEF Reads

(* A digit more. *)
LEMMA ParseIntMore ==
  ASSUME NEW s \in DigitTexts, NEW c \in {DigitTokens[d] : d \in 1..10}
  PROVE  /\ Cat(s, <<c>>) \in DigitTexts
         /\ ParseInt(Cat(s, <<c>>)) = 10 * ParseInt(s) + DigitValue(c)
<1> DEFINE D == {DigitTokens[d] : d \in 1..10}
<1>1. s \in Seq(D) /\ c \in D
  BY Zenon DEF DigitTexts
<1> HIDE DEF D
<1>2. PICK n \in Nat : n = Len(s)
  BY <1>1, LenProperties, Zenon
<1>3. PICK one \in Seq(D) : one = <<c>> /\ Len(one) = 1 /\ one[1] = c
  BY <1>1, OneType, Zenon
<1>4. PICK t \in Seq(D) : t = Cat(s, one)
  BY <1>1, CatType, Zenon
<1>5. t \in DigitTexts
  BY Zenon DEF DigitTexts, D
<1>6. Len(t) = n + 1
  BY <1>1, <1>2, <1>3, <1>4, CatLen
<1>7. \A i \in 1..n : t[i] = s[i]
  BY <1>1, <1>2, <1>4, CatLeft
<1>8. t[n + 1] = c
  <2>1. \A i \in 1..Len(one) : Cat(s, one)[Len(s) + i] = one[i]
    BY <1>1, CatRight
  <2>2. 1 \in 1..Len(one)
    BY <1>3
  <2> QED BY <1>2, <1>3, <1>4, <2>1, <2>2, Zenon
<1>9. n + 1 \in Nat
  OBVIOUS
<1>10. PICK f : Reads(t, n + 1, f)
  BY <1>5, <1>6, <1>9, ReadsExist
<1>11. PICK g : g = [i \in 0..n |-> f[i]]
  BY Zenon
<1>12. Reads(s, n, g)
  <2>1. \A i \in 0..n : g[i] = f[i] /\ i \in 0..(n + 1)
    BY <1>11
  <2>2. g \in [0..n -> Nat]
    BY <1>10, <1>11 DEF Reads
  <2>3. g[0] = 0
    BY <1>10, <2>1 DEF Reads
  <2>4. ASSUME NEW i \in 1..n PROVE g[i] = 10 * g[i - 1] + DigitValue(s[i])
    <3>1. i \in 0..n /\ i - 1 \in 0..n /\ i \in 1..(n + 1)
      OBVIOUS
    <3>2. f[i] = 10 * f[i - 1] + DigitValue(t[i])
      BY <1>10, <3>1, Zenon DEF Reads
    <3>3. g[i] = f[i] /\ g[i - 1] = f[i - 1]
      BY <2>1, <3>1
    <3> QED BY <1>7, <3>2, <3>3
  <2> QED BY <2>2, <2>3, <2>4, Zenon DEF Reads
<1>13. ParseInt(t) = f[n + 1]
  BY <1>6, <1>9, <1>10, ParseIntIs
<1>14. ParseInt(s) = f[n]
  <2>1. ParseInt(s) = g[n]
    BY <1>2, <1>12, ParseIntIs
  <2>2. g[n] = f[n]
    BY <1>11
  <2> QED BY <2>1, <2>2
<1>15. f[n + 1] = 10 * f[n] + DigitValue(c)
  <2>1. n + 1 \in 1..(n + 1) /\ (n + 1) - 1 = n
    OBVIOUS
  <2> QED BY <1>8, <1>10, <2>1 DEF Reads
<1> QED BY <1>3, <1>4, <1>5, <1>13, <1>14, <1>15, Zenon

(* A number that was written is read as that number. *)
LEMMA ParseFormatInt ==
  ASSUME NEW n \in Nat
  PROVE  /\ FormatInt[n] \in DigitTexts
         /\ FormatInt[n] # <<>>
         /\ ParseInt(FormatInt[n]) = n
<1> DEFINE Good(m) == /\ FormatInt[m] \in DigitTexts
                      /\ FormatInt[m] # <<>>
                      /\ ParseInt(FormatInt[m]) = m
           T == {m \in Nat : ~Good(m)}
<1> SUFFICES ASSUME ~Good(n) PROVE FALSE
  BY Zenon
<1>1. T \in SUBSET Nat /\ T # {}
  <2>1. n \in T
    BY Zenon
  <2> HIDE DEF Good
  <2> QED BY <2>1
<1>2. PICK m \in T : \A l \in T : m <= l
  BY <1>1, LeastNat
<1>3. m \in Nat /\ ~Good(m)
  BY <1>2, Zenon
<1>4. PICK c : c = LowDigit(m)
  BY Zenon
<1>5. DigitValue(c) = m % 10 /\ c \in {DigitTokens[d] : d \in 1..10}
  BY <1>3, <1>4, LowDigitValue, Zenon
<1>6. \A s : Cat(s, <<c>>) # <<>> \/ s \notin DigitTexts
  <2>1. ASSUME NEW s \in DigitTexts PROVE Cat(s, <<c>>) # <<>>
    <3> DEFINE D == {DigitTokens[d] : d \in 1..10}
    <3>1. s \in Seq(D) /\ c \in D
      BY <1>5, Zenon DEF DigitTexts
    <3> HIDE DEF D
    <3>2. PICK one \in Seq(D) : one = <<c>> /\ Len(one) = 1
      BY <3>1, OneType, Zenon
    <3>3. Len(Cat(s, one)) = Len(s) + Len(one)
      BY <3>1, CatLen
    <3>4. Len(s) \in Nat
      BY <3>1
    <3>5. Len(Cat(s, one)) # 0
      BY <3>2, <3>3, <3>4
    <3>6. Len(<<>>) = 0
      OBVIOUS
    <3> QED BY <3>2, <3>5, <3>6, Zenon
  <2> QED BY <2>1, Zenon
<1>7. CASE m < 10
  <2>1. FormatInt[m] = <<c>>
    BY <1>3, <1>4, <1>7, FormatIntIs, Zenon DEF Formatted
  <2>2. <<>> \in DigitTexts
    BY DEF DigitTexts
  <2>3. Cat(<<>>, <<c>>) = <<c>>
    <3>1. <<c>> \in Seq({c})
      BY OneType
    <3> QED BY <3>1, CatEmpty
  <2>4. Cat(<<>>, <<c>>) \in DigitTexts /\ ParseInt(Cat(<<>>, <<c>>)) = 10 * 0 + DigitValue(c)
    BY <1>5, <2>2, ParseIntMore, ParseIntEmpty, Zenon
  <2>5. 10 * 0 + (m % 10) = m
    BY <1>3, <1>7, DivTen
  <2>6. Good(m)
    BY <1>5, <1>6, <2>1, <2>2, <2>3, <2>4, <2>5, Zenon
  <2> QED BY <1>3, <2>6, Zenon
<1>8. CASE ~(m < 10)
  <2>1. PICK l \in Nat : l = m \div 10 /\ l < m
    BY <1>3, <1>8, DivTen
  <2>2. Good(l)
    <3>1. ~(m <= l)
      BY <1>3, <2>1
    <3> HIDE DEF Good
    <3> QED BY <1>2, <2>1, <3>1, Zenon
  <2>3. FormatInt[m] = Cat(FormatInt[l], <<c>>)
    BY <1>3, <1>4, <1>8, <2>1, FormatIntIs, Zenon DEF Formatted
  <2>4. /\ Cat(FormatInt[l], <<c>>) \in DigitTexts
        /\ ParseInt(Cat(FormatInt[l], <<c>>)) = 10 * l + DigitValue(c)
    BY <1>5, <2>2, ParseIntMore, Zenon
  <2>5. 10 * l + (m % 10) = m
    BY <1>3, <2>1, DivTen
  <2>6. Good(m)
    BY <1>5, <1>6, <2>2, <2>3, <2>4, <2>5, Zenon
  <2> QED BY <1>3, <2>6, Zenon
<1> QED BY <1>7, <1>8

(* Texts of digits are texts. *)
LEMMA DigitTextsAre == DigitTexts \subseteq Texts
<1> DEFINE D == {DigitTokens[d] : d \in 1..10}
<1>1. D \subseteq Tokens
  BY DigitsDiffer, Zenon
<1> HIDE DEF D
<1>2. Seq(D) \subseteq Seq(Tokens)
  BY <1>1
<1> QED BY <1>2, Zenon DEF DigitTexts, Texts, D

(* What fmt.Sprint makes of a number: digits up to a million, then none. *)
LEMMA SprintFloatIs ==
  ASSUME NEW n \in Nat
  PROVE  /\ SprintFloat(n) \in Texts
         /\ n < Million => IsInt(SprintFloat(n)) /\ ParseInt(SprintFloat(n)) = n
         /\ n >= Million => ~IsInt(SprintFloat(n))
<1>1. PICK t \in Texts : t = FormatInt[n]
  BY ParseFormatInt, DigitTextsAre, Zenon
<1>2. t \in DigitTexts /\ t # <<>> /\ ParseInt(t) = n
  BY <1>1, ParseFormatInt, Zenon
<1>3. IsInt(t)
  BY <1>2, IsIntIs, Zenon
<1>4. CASE n < Million
  BY <1>1, <1>2, <1>3, <1>4 DEF SprintFloat, Million
<1>5. CASE ~(n < Million)
  <2>1. SprintFloat(n) = <<Head(t), "e+">>
    BY <1>1, <1>5, Zenon DEF SprintFloat
  <2>2. Head(t) \in Tokens
    BY <1>2 DEF Texts
  <2>3. "e+" \in Tokens
    BY KnownTokens
  <2>4. PICK u : u = <<Head(t), "e+">>
    BY Zenon
  <2>5. u \in Seq(Tokens) /\ Len(u) = 2 /\ u[2] = "e+"
    BY <2>2, <2>3, <2>4, TwoType, Zenon
  <2>6. ~IsInt(u)
    <3>1. DOMAIN u = 1..2
      BY <2>5, LenProperties, Zenon
    <3>2. 2 \in 1..2
      OBVIOUS
    <3>3. \A d \in 1..10 : DigitTokens[d] # "e+"
      BY DigitsDiffer, Zenon
    <3> QED BY <2>5, <3>1, <3>2, <3>3, Zenon DEF IsInt
  <2> QED BY <1>5, <2>1, <2>4, <2>5, <2>6, Zenon DEF Texts
<1>6. n >= Million <=> ~(n < Million)
  BY DEF Million
<1> QED BY <1>4, <1>5, <1>6

=============================================================================
