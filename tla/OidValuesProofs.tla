--------------------------- MODULE OidValuesProofs ---------------------------
(***************************************************************************)
(* Proofs about the values of an OID, for any numbers, texts and random    *)
(* configurations: what a walk recorded is what the simulated device       *)
(* answers, through imports, exports and the requests between them.        *)
(***************************************************************************)
EXTENDS OidValues, TLAPS

AnyRow == [mode : Modes \cup {"absent"}, static : Text, walk : Text, config : Config,
           script : Scripts \cup {NoScript}, type : Types]

\* Written by none of the requests that leave a text in the column static_value.
NoStatic(w) == w \cap {"static", "exported walk", "import"} = {}

Value(l, type) == Or(Normalised(Kept(l), type), Empty)

\* The row answers for the walk line l, and so will the entry of an export.
OfLine(r, l) ==
  /\ l \in WalkLines
  /\ r.mode = "walk_seed" /\ r.type = TypeOfTag(TagOf(l))
  /\ Or(r.walk, Empty) = Value(l, r.type)

EntryOfLine(e, l) ==
  /\ l \in WalkLines
  /\ e.mode = "walk_seed" /\ e.type = TypeOfTag(TagOf(l))
  /\ e.walk = NoText /\ Or(e.static, Empty) = Value(l, e.type)

RowsTyped == row \in AnyRow /\ file.entry \in AnyRow

EntryKept ==
  /\ file.entry.mode \notin {"static", "walk_seed"} => file.entry.static = NoText
  /\ file.entry.mode = "walk_seed" => file.entry.static # NoText \/ file = NoFile

StaticKnown == NoStatic(ways) => row.static = NoText

LineKept ==
  line # NoLine =>
    /\ OfLine(row, line)
    /\ "walk" \in ways \/ (ways = {"import"} /\ row.static = row.walk)

FileKept == file.line # NoLine /\ OneWay(file) => EntryOfLine(file.entry, file.line)

ValuesInv == RowsTyped /\ EntryKept /\ StaticKnown /\ LineKept /\ FileKept

-----------------------------------------------------------------------------
(* Rows.                                                                   *)

LEMMA Texts == NoText \in Text /\ Empty \in Text /\ NoText # Empty
  BY DEF NoText, Empty, Text, Shapes

LEMMA Configurations == NoConfig \in Config
  BY OidValuesAssumption DEF NoConfig, Config, Types

LEMMA NewRows == /\ NewRow \in AnyRow /\ NoRow \in AnyRow
                 /\ NewRow.static = NoText /\ NoRow.static = NoText
  BY Texts, Configurations DEF NewRow, NoRow, AnyRow, Modes, Types

LEMMA PresentType ==
  ASSUME NEW r \in AnyRow
  PROVE  Present(r) \in AnyRow /\ Present(r).static = r.static
  BY NewRows DEF Present

LEMMA BodyType ==
  ASSUME NEW m \in Modes, NEW t \in Types
  PROVE  /\ Body(m, t) \in AnyRow /\ Body(m, t).static = NoText
         /\ Body(m, t).mode = m
  BY NewRows DEF Body, AnyRow, NewRow

\* A request body that leaves no trace in ways has no static value.
LEMMA BodiesType ==
  ASSUME NEW b \in Bodies
  PROVE  b \in AnyRow /\ (NoStatic(WaysOf(b)) => b.static = NoText)
<1> USE BodyType, OidValuesAssumption, Texts, Configurations
<1>1. ASSUME NEW t \in GivenTypes, NEW x \in Given \cup {NoText},
             b = [Body("static", t) EXCEPT !.static = x]
      PROVE  b \in AnyRow /\ "static" \in WaysOf(b)
  <2>1. Body("static", t) \in AnyRow /\ Body("static", t).mode = "static" /\ x \in Text
    BY DEF Modes
  <2>2. b \in AnyRow /\ b.mode = "static"
    BY <1>1, <2>1 DEF AnyRow
  <2>3. QED BY <2>2 DEF WaysOf
<1>2. ASSUME NEW t \in GivenTypes, NEW x \in Given \cup {NoText},
             b = [Body("walk_seed", t) EXCEPT !.walk = x]
      PROVE  b \in AnyRow /\ b.static = NoText
  <2>1. Body("walk_seed", t) \in AnyRow /\ Body("walk_seed", t).static = NoText /\ x \in Text
    BY DEF Modes
  <2>2. QED BY <1>2, <2>1 DEF AnyRow
<1>3. ASSUME NEW t \in GivenTypes, NEW c \in Configs \cup {NoConfig},
             b = [Body("random", t) EXCEPT !.config = c]
      PROVE  b \in AnyRow /\ b.static = NoText
  <2>1. Body("random", t) \in AnyRow /\ Body("random", t).static = NoText /\ c \in Config
    BY DEF Modes
  <2>2. QED BY <1>3, <2>1 DEF AnyRow
<1>4. ASSUME NEW t \in GivenTypes, NEW x \in Scripts,
             b = [Body("scripted", t) EXCEPT !.script = x]
      PROVE  b \in AnyRow /\ b.static = NoText
  <2>1. Body("scripted", t) \in AnyRow /\ Body("scripted", t).static = NoText
    BY DEF Modes
  <2>2. QED BY <1>4, <2>1 DEF AnyRow
<1>5. ASSUME NEW t \in GivenTypes, b = Body("other", t)
      PROVE  b \in AnyRow /\ b.static = NoText
  BY <1>5 DEF Modes
<1>6. \/ \E t \in GivenTypes, x \in Given \cup {NoText} :
              \/ b = [Body("static", t) EXCEPT !.static = x]
              \/ b = [Body("walk_seed", t) EXCEPT !.walk = x]
      \/ \E t \in GivenTypes, c \in Configs \cup {NoConfig} :
              b = [Body("random", t) EXCEPT !.config = c]
      \/ \E t \in GivenTypes, x \in Scripts : b = [Body("scripted", t) EXCEPT !.script = x]
      \/ \E t \in GivenTypes : b = Body("other", t)
  BY DEF Bodies
<1>7. b \in AnyRow /\ (b.static = NoText \/ "static" \in WaysOf(b))
  BY <1>1, <1>2, <1>3, <1>4, <1>5, <1>6
<1>8. QED BY <1>7 DEF NoStatic

LEMMA AppliedType ==
  ASSUME NEW r \in AnyRow, NEW b \in AnyRow
  PROVE  /\ Applied(r, b) \in AnyRow
         /\ b.static = NoText => Applied(r, b).static = r.static
<1>1. /\ (IF b.static = NoText THEN r.static ELSE b.static) \in Text
      /\ (IF b.walk = NoText THEN r.walk ELSE b.walk) \in Text
      /\ (IF b.config = NoConfig THEN r.config ELSE b.config) \in Config
      /\ (IF b.script = NoScript THEN r.script ELSE b.script) \in Scripts \cup {NoScript}
  BY DEF AnyRow
<1>2. PICK s, w \in Text, c \in Config, x \in Scripts \cup {NoScript} :
        /\ Applied(r, b) = [b EXCEPT !.static = s, !.walk = w, !.config = c, !.script = x]
        /\ b.static = NoText => s = r.static
  BY <1>1 DEF Applied
<1>3. QED BY <1>2 DEF AnyRow

\* The lines of a walk, one case for each thing that is printed.
LEMMA WalkLinesAre ==
  ASSUME NEW l \in WalkLines
  PROVE  \/ \E i \in Numbers, sh \in {"number", "word"} :
              l = Line("INTEGER", T(sh, i), Ans("Integer", Num(i)))
         \/ \E i \in Within, sh \in {"number", "word"}, c \in {"Counter32", "Gauge32"} :
              l = Line(c, T(sh, i), Ans(c, Num(i)))
         \/ \E i \in Within : l = Line("Timeticks", T("ticks", i), Ans("TimeTicks", Num(i)))
         \/ \E i \in Naturally : l = Line("Counter64", Num(i), Ans("Counter64", Num(i)))
         \/ \E t :
              /\ l.tag \in {"STRING", "HexSTRING", "BITS"} /\ l.meant = Ans("OctetString", t)
              /\ l.text \in {T("word", 0), Num(0), Quotes}
              /\ l.tag = "STRING" => t \in {Kept(l), T("edged", 0), T("lines", 0)}
              /\ l.tag # "STRING" => l.text = T("word", 0)
         \/ l.tag = "STRING" /\ l.text = Empty /\ l.meant.class = "OctetString"
         \/ l = Line("none", Quotes, Ans("OctetString", Empty))
         \/ l.tag \in {"Opaque", "OID"} /\ l.text \in {T("dotted", 0), T("word", 0)}
         \/ l = Line("IpAddress", T("address", 0), Ans("IpAddress", T("address", 0)))
         \/ l.tag \in TagsOfWords /\ l.text = T("word", 0)
         \/ l = Line("none", T("word", 0), NoSuchObject)
<1>1. \A tag, text, meant : /\ Line(tag, text, meant).tag = tag
                            /\ Line(tag, text, meant).text = text
                            /\ Line(tag, text, meant).meant = meant
  BY DEF Line
<1>2. \A c, t : Ans(c, t).class = c /\ Ans(c, t).text = t
  BY DEF Ans
<1>3. /\ T("word", 0) # Empty /\ Num(0) # Empty /\ Quotes # Empty
      /\ T("word", 0).shape = "word" /\ Num(0).shape = "number" /\ Quotes.shape = "quotes"
  BY DEF T, Num, Quotes, Empty
<1>4. \A x : x.tag = "STRING" /\ x.text # Empty =>
        Kept(x) = IF x.text.shape = "quotes" THEN Empty ELSE x.text
  BY DEF Kept, Tagged, TagsOfWords
<1> DEFINE Strings == {Line("STRING", T("word", 0), Ans("OctetString", T("word", 0))),
                       Line("STRING", Num(0), Ans("OctetString", Num(0))),
                       Line("STRING", Quotes, Ans("OctetString", Empty)),
                       Line("STRING", T("word", 0), Ans("OctetString", T("edged", 0))),
                       Line("STRING", T("word", 0), Ans("OctetString", T("lines", 0))),
                       Line("STRING", Quotes, Ans("OctetString", T("lines", 0)))}
           Coded == {Line("HexSTRING", T("word", 0), Ans("OctetString", T("octets", 0))),
                     Line("BITS", T("word", 0), Ans("OctetString", T("octets", 0)))}
           Others == {Line("Opaque", T("word", 0), Ans("Opaque", T("octets", 0))),
                      Line("OID", T("dotted", 0), Ans("ObjectIdentifier", T("dotted", 0))),
                      Line("OID", T("word", 0), Ans("ObjectIdentifier", T("dotted", 0)))}
           Worded == {Line("NetworkAddress", T("word", 0), Ans("IpAddress", T("address", 0))),
                      Line("WrongType", T("word", 0), Ans("Integer", Num(0)))}
<1>5. l \in Strings => \E t :
        /\ l.tag = "STRING" /\ l.text \in {T("word", 0), Num(0), Quotes}
        /\ l.meant = Ans("OctetString", t)
        /\ t \in {Kept(l), T("edged", 0), T("lines", 0)}
  <2>1. ASSUME l \in Strings
        PROVE  \E t : /\ l.tag = "STRING" /\ l.text \in {T("word", 0), Num(0), Quotes}
                      /\ l.meant = Ans("OctetString", t)
                      /\ \/ t \in {T("edged", 0), T("lines", 0)}
                         \/ t = l.text /\ l.text # Quotes
                         \/ t = Empty /\ l.text = Quotes
    BY <1>1, <1>3, <2>1
  <2>2. QED BY <1>3, <1>4, <2>1
<1>6. l \in Coded => \E t :
        l.tag \in {"HexSTRING", "BITS"} /\ l.text = T("word", 0) /\ l.meant = Ans("OctetString", t)
  BY <1>1
<1>7. l \in Others => l.tag \in {"Opaque", "OID"} /\ l.text \in {T("dotted", 0), T("word", 0)}
  BY <1>1
<1>8. l \in Worded => l.tag \in TagsOfWords /\ l.text = T("word", 0)
  BY <1>1 DEF TagsOfWords
<1>9. l = Line("STRING", Empty, Ans("OctetString", Empty)) =>
        l.tag = "STRING" /\ l.text = Empty /\ l.meant.class = "OctetString"
  BY <1>1, <1>2
<1>10. \/ \E i \in Numbers, sh \in {"number", "word"} :
              l = Line("INTEGER", T(sh, i), Ans("Integer", Num(i)))
       \/ \E i \in Within, sh \in {"number", "word"}, c \in {"Counter32", "Gauge32"} :
              l = Line(c, T(sh, i), Ans(c, Num(i)))
       \/ \E i \in Within : l = Line("Timeticks", T("ticks", i), Ans("TimeTicks", Num(i)))
       \/ \E i \in Naturally : l = Line("Counter64", Num(i), Ans("Counter64", Num(i)))
       \/ l \in Strings \cup Coded \cup Others \cup Worded
       \/ l = Line("STRING", Empty, Ans("OctetString", Empty))
       \/ l = Line("none", Quotes, Ans("OctetString", Empty))
       \/ l = Line("IpAddress", T("address", 0), Ans("IpAddress", T("address", 0)))
       \/ l = Line("none", T("word", 0), NoSuchObject)
  BY DEF WalkLines
<1> HIDE DEF Strings, Coded, Others, Worded
<1>11. QED BY <1>5, <1>6, <1>7, <1>8, <1>9, <1>10

LEMMA TagsType ==
  /\ \A tag : TypeOfTag(tag) \in Types \ {"oid"}
  /\ TypeOfTag("INTEGER") = "integer" /\ TypeOfTag("Timeticks") = "timeticks"
  /\ TypeOfTag("Counter32") = "counter" /\ TypeOfTag("Counter64") = "counter"
  /\ TypeOfTag("Gauge32") = "gauge" /\ TypeOfTag("IpAddress") = "ipaddress"
  /\ \A tag \in {"STRING", "none", "HexSTRING", "OID", "BITS", "Opaque"} :
       TypeOfTag(tag) = "string"
  BY DEF TypeOfTag, TagTypes, Types

\* The texts of lines, and what is kept of them.
LEMMA Shaped ==
  ASSUME NEW i \in Int, NEW sh \in Shapes \ {"none", "empty"}
  PROVE  T(sh, i) \in Text /\ T(sh, i).shape = sh /\ T(sh, i).n = i
         /\ T(sh, i) # NoText /\ T(sh, i) # Empty
  BY DEF T, Text, NoText, Empty

LEMMA KeptOf ==
  ASSUME NEW l, l.text # Empty, l.tag \notin TagsOfWords
  PROVE  /\ TagOf(l) = l.tag
         /\ Kept(l) = IF l.text.shape = "quotes" THEN Empty ELSE l.text
  BY DEF TagOf, Kept, Tagged

LEMMA KeptWhole ==
  ASSUME NEW l, l.tag # "none", l.text = Empty \/ l.tag \in TagsOfWords
  PROVE  TagOf(l) = "none" /\ Kept(l) = T("word", 0)
  BY DEF TagOf, Kept, Tagged

LEMMA LineText ==
  ASSUME NEW l \in WalkLines PROVE Kept(l) \in Text \ {NoText}
<1>1. Numbers \subseteq Int /\ Naturally \subseteq Int /\ Within \subseteq Int
  BY OidValuesAssumption DEF Naturally, Within
<1>2. T("word", 0) \in Text \ {NoText}
  BY Shaped DEF Shapes
<1>3. l.text \in Text \ {NoText} => Kept(l) \in Text \ {NoText}
  BY <1>2, Texts DEF Kept
<1>4. \A i \in Int : Num(i) = T("number", i)
  BY DEF Num
<1>5. \A tag, text, meant : Line(tag, text, meant).text = text
  BY DEF Line
<1>6. ASSUME NEW i \in Int, NEW sh \in Shapes \ {"none", "empty"}, l.text = T(sh, i)
      PROVE  Kept(l) \in Text \ {NoText}
  BY <1>3, <1>6, Shaped
<1>7. l.text = Empty => Kept(l) \in Text \ {NoText}
  BY <1>3, Texts
<1>8. \/ \E i \in Int, sh \in Shapes \ {"none", "empty"} : l.text = T(sh, i)
      \/ l.text = Empty
  <2> DEFINE Of(t) == \E i \in Int, sh \in Shapes \ {"none", "empty"} : t = T(sh, i)
  <2>1. \A i \in Int : /\ Of(T("number", i)) /\ Of(T("word", i)) /\ Of(T("ticks", i))
                       /\ Of(T("address", i)) /\ Of(T("dotted", i)) /\ Of(T("quotes", i))
    BY DEF Shapes
  <2> HIDE DEF Of
  <2>2. Of(T("word", 0)) /\ Of(T("dotted", 0)) /\ Of(T("address", 0)) /\ Of(Num(0)) /\ Of(Quotes)
    BY <1>4, <2>1 DEF Quotes
  <2>3. CASE \/ \E i \in Numbers, sh \in {"number", "word"} :
                  l = Line("INTEGER", T(sh, i), Ans("Integer", Num(i)))
             \/ \E i \in Within, sh \in {"number", "word"}, c \in {"Counter32", "Gauge32"} :
                  l = Line(c, T(sh, i), Ans(c, Num(i)))
    <3>1. PICK i \in Int, sh \in {"number", "word"} : l.text = T(sh, i)
      BY <1>1, <1>5, <2>3
    <3>2. Of(l.text)
      BY <2>1, <3>1
    <3>3. QED BY <3>2 DEF Of
  <2>4. CASE \/ \E i \in Within : l = Line("Timeticks", T("ticks", i), Ans("TimeTicks", Num(i)))
             \/ \E i \in Naturally : l = Line("Counter64", Num(i), Ans("Counter64", Num(i)))
    <3>1. PICK i \in Int : l.text \in {T("ticks", i), T("number", i)}
      BY <1>1, <1>4, <1>5, <2>4
    <3>2. Of(l.text)
      BY <2>1, <3>1
    <3>3. QED BY <3>2 DEF Of
  <2>5. CASE l.text \in {T("word", 0), T("dotted", 0), T("address", 0), Num(0), Quotes}
    BY <2>2, <2>5 DEF Of
  <2>6. QED BY <1>5, <2>3, <2>4, <2>5, WalkLinesAre
<1>9. QED BY <1>6, <1>7, <1>8

LEMMA NotTicks ==
  ASSUME NEW t, NEW type, type # "timeticks"
  PROVE  Normalised(t, type) = t
  BY DEF Normalised

LEMMA ValueType ==
  ASSUME NEW l \in WalkLines, NEW type
  PROVE  Normalised(Kept(l), type) \in Text
  BY LineText DEF Normalised, Num, T, Text, Shapes

-----------------------------------------------------------------------------
(* What the agent makes of a walk's row.                                   *)

\* The one answer of a row in mode walk_seed.
LEMMA WalkAnswer ==
  ASSUME NEW r \in AnyRow, r.mode = "walk_seed"
  PROVE  Answers(r) = {Encoded(Coerced(Or(r.walk, Empty), r.type), r.type)}
<1>1. r # NoRow
  BY DEF NoRow, NewRow
<1>2. /\ Pushed(r).mode = "walk_seed" /\ Pushed(r).type = r.type
      /\ Pushed(r).text = Or(r.walk, Empty)
  BY DEF Pushed, Payload
<1>3. Resolutions(Pushed(r)) = {<<Coerced(Or(r.walk, Empty), r.type), r.type>>}
  BY <1>2 DEF Resolutions
<1>4. QED BY <1>1, <1>3 DEF Answers

\* By type: what a text becomes.
LEMMA IntegerAnswer ==
  ASSUME NEW t \in Text
  PROVE  Encoded(Coerced(t, "integer"), "integer") =
           Ans("Integer", IF t.shape = "number" THEN t ELSE Num(0))
  BY DEF Encoded, Coerced, Py, Numeric, Num, T, Failed, NoText, Empty, Text

LEMMA UnsignedAnswer ==
  ASSUME NEW t \in Text, NEW type \in {"counter", "gauge", "timeticks"}
  PROVE  Encoded(Coerced(t, type), type) =
           IF t.shape # "number"
             THEN Ans(CASE type = "counter" -> "Counter32" [] type = "gauge" -> "Gauge32"
                        [] OTHER -> "TimeTicks", Num(0))
           ELSE IF t.n \in 0 .. Max32
             THEN Ans(CASE type = "counter" -> "Counter32" [] type = "gauge" -> "Gauge32"
                        [] OTHER -> "TimeTicks", t)
           ELSE NoSuchObject
<1>1. Coerced(t, type) = Py("int", IF t.shape = "number" THEN t ELSE Num(0))
  BY DEF Coerced, Numeric
<1>2. PICK u \in Text : u = IF t.shape = "number" THEN t ELSE Num(0)
  <2>1. Num(0) \in Text
    BY DEF Num, T, Text, Shapes
  <2>2. QED BY <2>1
<1>3. /\ Py("int", u).text = u /\ Py("int", u).py = "int" /\ Py("int", u) # Failed
      /\ u # Empty /\ u.shape = "number"
  BY <1>2 DEF Py, Failed, NoText, Empty, Num, T
<1>4. t.shape # "number" => u.n \in 0 .. Max32
  BY <1>2, OidValuesAssumption DEF Num, T
<1>5. Unsigned("Counter32", Py("int", u)) =
        IF u.n \in 0 .. Max32 THEN Ans("Counter32", u) ELSE NoSuchObject
  BY <1>3 DEF Unsigned
<1>6. Unsigned("Gauge32", Py("int", u)) =
        IF u.n \in 0 .. Max32 THEN Ans("Gauge32", u) ELSE NoSuchObject
  BY <1>3 DEF Unsigned
<1>7. Unsigned("TimeTicks", Py("int", u)) =
        IF u.n \in 0 .. Max32 THEN Ans("TimeTicks", u) ELSE NoSuchObject
  BY <1>3 DEF Unsigned
<1>8. Encoded(Py("int", u), type) =
        CASE type = "counter" -> Unsigned("Counter32", Py("int", u))
          [] type = "gauge" -> Unsigned("Gauge32", Py("int", u))
          [] OTHER -> Unsigned("TimeTicks", Py("int", u))
  BY <1>3 DEF Encoded
<1>9. QED BY <1>1, <1>2, <1>4, <1>5, <1>6, <1>7, <1>8

LEMMA TextAnswer ==
  ASSUME NEW t \in Text, NEW type \in {"string", "ipaddress"}
  PROVE  Encoded(Coerced(t, type), type) =
           Ans(IF type = "ipaddress" /\ t.shape = "address" THEN "IpAddress" ELSE "OctetString", t)
  BY DEF Encoded, Coerced, Py, Numeric, Failed

\* What a row that holds the value of a line answers.
LineAnswer(l) ==
  LET type == TypeOfTag(TagOf(l)) IN Encoded(Coerced(Value(l, type), type), type)

Faithful(l) ==
  /\ LineAnswer(l) # Dropped
  /\ LineAnswer(l) = NoSuchObject => l.text.n > Max32
  /\ Plain(l) => LineAnswer(l) = l.meant
  /\ ~OtherClass(l) => LineAnswer(l).class = l.meant.class

LEMMA LineFaithful ==
  ASSUME NEW l \in WalkLines PROVE Faithful(l)
<1> DEFINE type == TypeOfTag(TagOf(l))
<1>1. /\ \A i \in Int : Num(i) = T("number", i)
      /\ Numbers \subseteq Int /\ Naturally \subseteq Int /\ Within \subseteq Naturally
      /\ \A i \in Within : i \in 0 .. Max32
      /\ \A i \in Naturally : i \notin 0 .. Max32 => i > Max32
  <2>1. Numbers \subseteq Int /\ Max32 \in Nat
    BY OidValuesAssumption
  <2>2. \A i \in Naturally : i \in Numbers /\ i >= 0
    BY DEF Naturally
  <2>3. \A i \in Within : i \in Naturally /\ i <= Max32
    BY DEF Within
  <2>4. ASSUME NEW i \in Within PROVE i \in 0 .. Max32
    <3>1. i \in Int /\ i >= 0 /\ i <= Max32
      BY <2>1, <2>2, <2>3
    <3>2. QED BY <2>1, <3>1
  <2>5. ASSUME NEW i \in Naturally, i \notin 0 .. Max32 PROVE i > Max32
    <3>1. i \in Int /\ i >= 0
      BY <2>1, <2>2
    <3>2. QED BY <2>1, <2>5, <3>1
  <2>6. QED BY <2>1, <2>2, <2>3, <2>4, <2>5 DEF Num
<1>2. \A c, t : Ans(c, t).class = c /\ Ans(c, t).text = t
  BY DEF Ans
<1>3. \A c, t : c \notin {"dropped", "noSuchObject"} => Ans(c, t) # Dropped /\ Ans(c, t) # NoSuchObject
  BY <1>2 DEF Dropped, NoSuchObject
<1>4. \A tag, text, meant : /\ Line(tag, text, meant).tag = tag
                            /\ Line(tag, text, meant).text = text
                            /\ Line(tag, text, meant).meant = meant
  BY DEF Line
<1>5. \A t : t # NoText => Or(t, Empty) = t
  BY DEF Or, Falsy
<1>6. ASSUME NEW i \in Numbers, NEW sh \in {"number", "word"},
             l = Line("INTEGER", T(sh, i), Ans("Integer", Num(i)))
      PROVE  Faithful(l)
  <2>1. /\ l.tag = "INTEGER" /\ l.text = T(sh, i) /\ l.meant = Ans("Integer", Num(i))
        /\ l.text \in Text /\ l.text.shape = sh /\ l.text # Empty /\ l.text # NoText
    BY <1>1, <1>4, <1>6, Shaped DEF Shapes
  <2>2. type = "integer" /\ Value(l, type) = l.text
    <3>1. TagOf(l) = "INTEGER" /\ Kept(l) = l.text
      BY <2>1, KeptOf DEF TagsOfWords
    <3>2. QED BY <1>5, <2>1, <3>1, TagsType, NotTicks DEF Value
  <2>3. LineAnswer(l) = Ans("Integer", IF l.text.shape = "number" THEN l.text ELSE Num(0))
    BY <2>1, <2>2, IntegerAnswer DEF LineAnswer
  <2>4. QED BY <1>1, <1>2, <1>3, <2>1, <2>3 DEF Faithful, Plain
\* The classes without sign, in terms of the text that is kept.
<1>7. ASSUME NEW i \in Naturally, NEW sh \in {"number", "word"},
             NEW ty \in {"counter", "gauge", "timeticks"}, type = ty,
             Value(l, type) = T(sh, i), l.text.n = i,
             \/ /\ i \in 0 .. Max32
                /\ l.meant = Ans(CASE ty = "counter" -> "Counter32" [] ty = "gauge" -> "Gauge32"
                                   [] OTHER -> "TimeTicks", Num(i))
                /\ Plain(l) => sh = "number"
             \/ l.tag = "Counter64" /\ l.text.shape = "number"
      PROVE  Faithful(l)
  <2> DEFINE c == CASE ty = "counter" -> "Counter32" [] ty = "gauge" -> "Gauge32"
                    [] OTHER -> "TimeTicks"
  <2>1. T(sh, i) \in Text /\ T(sh, i).shape = sh /\ T(sh, i).n = i
    BY <1>1, Shaped DEF Shapes
  <2>2. LineAnswer(l) = IF sh # "number" THEN Ans(c, Num(0))
                        ELSE IF i \in 0 .. Max32 THEN Ans(c, T(sh, i)) ELSE NoSuchObject
    BY <1>7, <2>1, UnsignedAnswer DEF LineAnswer
  <2>3. c \notin {"dropped", "noSuchObject"}
    OBVIOUS
  <2>4. NoSuchObject # Dropped
    BY <1>2 DEF Dropped, NoSuchObject
  <2>5. l.tag = "Counter64" /\ l.text.shape = "number" => ~Plain(l) /\ OtherClass(l)
    BY DEF Plain, OtherClass, Quotes, T
  <2> HIDE DEF c
  <2>6. CASE l.tag = "Counter64" /\ l.text.shape = "number"
    BY <1>1, <1>3, <1>7, <2>2, <2>3, <2>4, <2>5, <2>6 DEF Faithful
  <2>7. CASE i \in 0 .. Max32 /\ l.meant = Ans(c, Num(i)) /\ (Plain(l) => sh = "number")
    BY <1>1, <1>2, <1>3, <2>2, <2>3, <2>7 DEF Faithful
  <2>8. QED BY <1>7, <2>6, <2>7 DEF c
<1>8. ASSUME NEW i \in Within, NEW sh \in {"number", "word"}, NEW c \in {"Counter32", "Gauge32"},
             l = Line(c, T(sh, i), Ans(c, Num(i)))
      PROVE  Faithful(l)
  <2>1. /\ l.tag = c /\ l.text = T(sh, i) /\ l.meant = Ans(c, Num(i)) /\ i \in Naturally
        /\ l.text.shape = sh /\ l.text # Empty /\ l.text # NoText /\ l.text.n = i
    BY <1>1, <1>4, <1>8, Shaped DEF Shapes
  <2>2. TagOf(l) = c /\ Kept(l) = l.text
    BY <2>1, KeptOf DEF TagsOfWords
  <2>3. /\ type = (IF c = "Counter32" THEN "counter" ELSE "gauge") /\ Value(l, type) = l.text
    BY <1>5, <2>1, <2>2, TagsType, NotTicks DEF Value
  <2>4. Plain(l) => sh = "number"
    BY <2>1 DEF Plain
  <2> HIDE DEF type
  <2>5. QED BY <1>1, <1>7, <2>1, <2>3, <2>4
<1>9. ASSUME NEW i \in Within, l = Line("Timeticks", T("ticks", i), Ans("TimeTicks", Num(i)))
      PROVE  Faithful(l)
  <2>1. /\ l.tag = "Timeticks" /\ l.text = T("ticks", i) /\ l.meant = Ans("TimeTicks", Num(i))
        /\ i \in Naturally /\ l.text.shape = "ticks" /\ l.text # Empty /\ l.text.n = i
    BY <1>1, <1>4, <1>9, Shaped DEF Shapes
  <2>2. TagOf(l) = "Timeticks" /\ Kept(l) = l.text
    BY <2>1, KeptOf DEF TagsOfWords
  <2>3. type = "timeticks" /\ Normalised(Kept(l), type) = Num(i)
    BY <2>1, <2>2, TagsType DEF Normalised
  <2>4. Num(i) = T("number", i) /\ T("number", i) # NoText
    BY <1>1, Shaped DEF Shapes
  <2>5. Value(l, type) = T("number", i)
    BY <1>5, <2>3, <2>4 DEF Value
  <2> HIDE DEF type
  <2>6. QED BY <1>1, <1>7, <2>1, <2>3, <2>5
<1>10. ASSUME NEW i \in Naturally, l = Line("Counter64", Num(i), Ans("Counter64", Num(i)))
       PROVE  Faithful(l)
  <2>1. /\ l.tag = "Counter64" /\ l.text = T("number", i) /\ l.text.shape = "number"
        /\ l.text # Empty /\ l.text # NoText /\ l.text.n = i
    BY <1>1, <1>4, <1>10, Shaped DEF Shapes
  <2>2. TagOf(l) = "Counter64" /\ Kept(l) = l.text
    BY <2>1, KeptOf DEF TagsOfWords
  <2>3. type = "counter" /\ Value(l, type) = l.text
    BY <1>5, <2>1, <2>2, TagsType, NotTicks DEF Value
  <2> HIDE DEF type
  <2>4. QED BY <1>7, <2>1, <2>3
\* The texts.
<1>11. ASSUME NEW ty \in {"string", "ipaddress"}, type = ty, NEW class,
              class = (IF ty = "ipaddress" /\ Kept(l).shape = "address"
                         THEN "IpAddress" ELSE "OctetString"),
              Plain(l) => l.meant = Ans(class, Kept(l)),
              OtherClass(l) \/ l.meant.class = class
       PROVE  Faithful(l)
  <2>1. Kept(l) \in Text /\ Kept(l) # NoText
    BY LineText
  <2>2. Value(l, type) = Kept(l)
    BY <1>5, <1>11, <2>1, NotTicks DEF Value
  <2>3. LineAnswer(l) = Ans(class, Kept(l))
    BY <1>11, <2>1, <2>2, TextAnswer DEF LineAnswer
  <2>4. QED BY <1>2, <1>3, <1>11, <2>3 DEF Faithful
<1>12. /\ T("word", 0) # Empty /\ Num(0) # Empty /\ Quotes # Empty /\ T("dotted", 0) # Empty
       /\ T("word", 0) # Quotes /\ T("dotted", 0) # Quotes /\ Quotes.shape = "quotes"
       /\ T("word", 0).shape = "word" /\ Num(0).shape = "number" /\ Empty.shape = "empty"
       /\ T("dotted", 0).shape = "dotted"
       /\ T("edged", 0).shape = "edged" /\ T("lines", 0).shape = "lines"
  BY DEF T, Num, Quotes, Empty
<1>13. ASSUME NEW t, l.tag \in {"STRING", "HexSTRING", "BITS"}, l.meant = Ans("OctetString", t),
              l.text \in {T("word", 0), Num(0), Quotes},
              l.tag = "STRING" => t \in {Kept(l), T("edged", 0), T("lines", 0)},
              l.tag # "STRING" => l.text = T("word", 0)
       PROVE  Faithful(l)
  <2>1. TagOf(l) = l.tag /\ type = "string"
    BY <1>12, <1>13, KeptOf, TagsType DEF TagsOfWords
  <2>2. Plain(l) => t = Kept(l)
    BY <1>2, <1>12, <1>13 DEF Plain
  <2>3. QED BY <1>2, <1>11, <1>13, <2>1, <2>2
<1>14. ASSUME l.tag = "STRING", l.text = Empty, l.meant.class = "OctetString"
       PROVE  Faithful(l)
  <2>1. TagOf(l) = "none" /\ type = "string" /\ ~Plain(l)
    BY <1>14, KeptWhole, TagsType DEF Plain
  <2>2. QED BY <1>11, <1>14, <2>1
<1>15. ASSUME l = Line("none", Quotes, Ans("OctetString", Empty)) PROVE Faithful(l)
  <2>1. l.tag = "none" /\ l.text = Quotes /\ l.meant = Ans("OctetString", Empty)
    BY <1>4, <1>15
  <2>2. TagOf(l) = "none" /\ Kept(l) = Empty /\ type = "string"
    BY <1>12, <2>1, KeptOf, TagsType DEF TagsOfWords
  <2>3. QED BY <1>2, <1>11, <2>1, <2>2
<1>16. ASSUME l.tag \in {"Opaque", "OID"}, l.text \in {T("dotted", 0), T("word", 0)}
       PROVE  Faithful(l)
  <2>1. TagOf(l) = l.tag /\ type = "string"
    BY <1>12, <1>16, KeptOf, TagsType DEF TagsOfWords
  <2>2. ~Plain(l) /\ OtherClass(l)
    BY <1>12, <1>16 DEF Plain, OtherClass
  <2>3. QED BY <1>11, <2>1, <2>2
<1>17. ASSUME l = Line("IpAddress", T("address", 0), Ans("IpAddress", T("address", 0)))
       PROVE  Faithful(l)
  <2>1. /\ l.tag = "IpAddress" /\ l.text = T("address", 0) /\ l.meant = Ans("IpAddress", l.text)
        /\ l.text.shape = "address" /\ l.text # Empty
    BY <1>4, <1>17, Shaped DEF Shapes
  <2>2. TagOf(l) = "IpAddress" /\ Kept(l) = l.text /\ type = "ipaddress"
    BY <2>1, KeptOf, TagsType DEF TagsOfWords
  <2>3. QED BY <1>2, <1>11, <2>1, <2>2
<1>18. ASSUME l.tag \in TagsOfWords, l.text = T("word", 0) PROVE Faithful(l)
  <2>1. TagOf(l) = "none" /\ type = "string"
    BY <1>18, KeptWhole, TagsType DEF TagsOfWords
  <2>2. ~Plain(l) /\ OtherClass(l)
    BY <1>12, <1>18 DEF Plain, OtherClass, TagsOfWords
  <2>3. QED BY <1>11, <2>1, <2>2
<1>19. ASSUME l = Line("none", T("word", 0), NoSuchObject) PROVE Faithful(l)
  <2>1. l.tag = "none" /\ l.text = T("word", 0) /\ l.meant = NoSuchObject
    BY <1>4, <1>19
  <2>2. TagOf(l) = "none" /\ type = "string"
    BY <1>12, <2>1, KeptOf, TagsType DEF TagsOfWords
  <2>3. ~Plain(l) /\ OtherClass(l)
    BY <1>12, <2>1 DEF Plain, OtherClass
  <2>4. QED BY <1>11, <2>2, <2>3
<1> HIDE DEF type
<1>20. QED
  BY <1>6, <1>8, <1>9, <1>10, <1>13, <1>14, <1>15, <1>16, <1>17, <1>18, <1>19, WalkLinesAre

-----------------------------------------------------------------------------
(* What requests make of the row, and an export of it.                     *)

LEMMA WalkedType ==
  ASSUME NEW r \in AnyRow, NEW l \in WalkLines
  PROVE  /\ Walked(r, l) \in AnyRow /\ Walked(r, l).static = r.static
         /\ OfLine(Walked(r, l), l)
<1> DEFINE type == TypeOfTag(TagOf(l))
<1>1. type \in Types /\ Normalised(Kept(l), type) \in Text
  BY TagsType, ValueType
<1>2. PICK ty \in Types, t \in Text : ty = type /\ t = Normalised(Kept(l), type)
  BY <1>1
<1>3. Walked(r, l) = [r EXCEPT !.mode = "walk_seed", !.type = ty, !.walk = t]
  BY <1>2 DEF Walked
<1>4. /\ Walked(r, l) \in AnyRow /\ Walked(r, l).static = r.static
      /\ Walked(r, l).mode = "walk_seed" /\ Walked(r, l).type = ty /\ Walked(r, l).walk = t
  BY <1>3 DEF AnyRow, Modes
<1>5. QED BY <1>2, <1>4 DEF OfLine, Value

LEMMA ExportedType ==
  ASSUME NEW r \in AnyRow
  PROVE  /\ Exported(r) \in AnyRow
         /\ Exported(r).mode = r.mode /\ Exported(r).type = r.type
         /\ Exported(r).walk = NoText
         /\ r.mode \in {"static", "walk_seed"} =>
              Exported(r).static = Or(Or(r.static, r.walk), Empty)
         /\ r.mode \notin {"static", "walk_seed"} => Exported(r).static = NoText
<1> DEFINE base == Body(r.mode, r.type)
<1>1. /\ base \in AnyRow /\ base.mode = r.mode /\ base.type = r.type /\ base.walk = NoText
  BY NewRows DEF Body, NewRow, AnyRow
<1>2. /\ (IF r.mode \in {"static", "walk_seed"} THEN Or(Or(r.static, r.walk), Empty)
          ELSE NoText) \in Text
      /\ (IF r.mode = "random" THEN r.config ELSE base.config) \in Config
      /\ (IF r.mode = "scripted" THEN r.script ELSE base.script) \in Scripts \cup {NoScript}
  BY <1>1, Texts DEF AnyRow, Or
<1>3. PICK s \in Text, c \in Config, x \in Scripts \cup {NoScript} :
        /\ s = IF r.mode \in {"static", "walk_seed"} THEN Or(Or(r.static, r.walk), Empty)
               ELSE NoText
        /\ Exported(r) = [base EXCEPT !.static = s, !.config = c, !.script = x]
  BY <1>2 DEF Exported
<1> HIDE DEF base
<1>4. /\ Exported(r) \in AnyRow /\ Exported(r).static = s /\ Exported(r).walk = NoText
      /\ Exported(r).mode = r.mode /\ Exported(r).type = r.type
  BY <1>1, <1>3 DEF AnyRow
<1>5. QED BY <1>3, <1>4

\* The file of a row that one kind of request wrote has the line's value.
LEMMA ExportOfLine ==
  ASSUME NEW r \in AnyRow, NEW l \in WalkLines, OfLine(r, l),
         r.static = NoText \/ r.static = r.walk
  PROVE  EntryOfLine(Exported(r), l)
<1>1. /\ r.mode = "walk_seed" /\ r.type = TypeOfTag(TagOf(l))
      /\ Or(r.walk, Empty) = Value(l, r.type)
  BY DEF OfLine
<1>2. Or(r.static, r.walk) = r.walk
  BY DEF Or, Falsy
<1>3. Exported(r).static = Or(r.walk, Empty)
  BY <1>1, <1>2, ExportedType
<1>4. Or(Exported(r).static, Empty) = Or(r.walk, Empty)
  BY <1>3 DEF Or, Falsy
<1>5. QED BY <1>1, <1>4, ExportedType DEF EntryOfLine

LEMMA ReimportedType ==
  ASSUME NEW e \in AnyRow
  PROVE  /\ Reimported(e) \in AnyRow
         /\ \A l : EntryOfLine(e, l) =>
              OfLine(Reimported(e), l) /\ Reimported(e).static = Reimported(e).walk
<1>1. PICK w \in Text : w = Or(e.walk, e.static)
  BY DEF AnyRow, Or
<1>2. Reimported(e) = [e EXCEPT !.walk = w]
  BY <1>1 DEF Reimported
<1>3. /\ Reimported(e) \in AnyRow /\ Reimported(e).walk = w
      /\ Reimported(e).static = e.static /\ Reimported(e).mode = e.mode
      /\ Reimported(e).type = e.type
  BY <1>2 DEF AnyRow
<1>4. e.walk = NoText => w = e.static
  BY <1>1 DEF Or, Falsy
<1>5. QED BY <1>3, <1>4 DEF EntryOfLine, OfLine

-----------------------------------------------------------------------------
(* ValuesInv is inductive.                                                 *)

LEMMA ValuesInitially == ValuesInit => ValuesInv
<1> SUFFICES ASSUME ValuesInit PROVE ValuesInv
  OBVIOUS
<1>1. row = NoRow /\ file.entry = NoRow /\ line = NoLine /\ file.line = NoLine
  BY DEF ValuesInit, NoFile
<1>2. RowsTyped /\ StaticKnown
  BY <1>1, NewRows DEF RowsTyped, StaticKnown
<1>3. EntryKept
  BY <1>1, NewRows DEF EntryKept, NoRow, NewRow
<1>4. QED BY <1>1, <1>2, <1>3 DEF ValuesInv, LineKept, FileKept

LEMMA ValuesStep == ValuesInv /\ [ValuesNext]_valueVars => ValuesInv'
<1> SUFFICES ASSUME ValuesInv, [ValuesNext]_valueVars PROVE ValuesInv'
  OBVIOUS
<1>0. RowsTyped /\ EntryKept /\ StaticKnown /\ LineKept /\ FileKept
  BY DEF ValuesInv
<1>01. row \in AnyRow /\ file.entry \in AnyRow
       /\ Present(row) \in AnyRow /\ Present(row).static = row.static
  BY <1>0, PresentType DEF RowsTyped
<1>02. \A v, w : NoStatic(v \cup w) => NoStatic(v) /\ NoStatic(w)
  BY DEF NoStatic
\* A request that leaves the file alone and is not about a line of a walk.
<1>03. ASSUME file' = file, line' = NoLine, row' \in AnyRow,
              NoStatic(ways') => row'.static = NoText
       PROVE  ValuesInv'
  <2>1. RowsTyped' /\ StaticKnown'
    BY <1>01, <1>03 DEF RowsTyped, StaticKnown
  <2>2. EntryKept' /\ FileKept'
    BY <1>0, <1>03 DEF EntryKept, FileKept
  <2>3. QED BY <1>03, <2>1, <2>2 DEF ValuesInv, LineKept
<1>1. CASE Upsert
  <2>1. PICK b \in Bodies : /\ row' = Applied(Present(row), b)
                            /\ ways' = ways \cup WaysOf(b)
                            /\ line' = NoLine /\ file' = file
    BY <1>1 DEF Upsert
  <2>2. b \in AnyRow /\ (NoStatic(WaysOf(b)) => b.static = NoText)
    BY BodiesType
  <2>3. row' \in AnyRow /\ (b.static = NoText => row'.static = row.static)
    BY <1>01, <2>1, <2>2, AppliedType
  <2>4. NoStatic(ways') => row'.static = NoText
    BY <1>0, <1>02, <2>1, <2>2, <2>3 DEF StaticKnown
  <2>5. QED BY <1>03, <2>1, <2>3, <2>4
<1>2. CASE BulkImport
  <2>1. /\ row' = Applied(Present(row), file.entry)
        /\ ways' = ways \cup WaysOf(file.entry)
        /\ line' = NoLine /\ file' = file /\ file # NoFile
    BY <1>2 DEF BulkImport
  <2>2. NoStatic(WaysOf(file.entry)) => file.entry.static = NoText
    <3>1. CASE file.entry.mode = "static"
      BY <3>1 DEF WaysOf, NoStatic
    <3>2. CASE file.entry.mode = "walk_seed"
      BY <1>0, <2>1, <3>2 DEF WaysOf, NoStatic, EntryKept
    <3>3. CASE file.entry.mode \notin {"static", "walk_seed"}
      BY <1>0, <3>3 DEF EntryKept
    <3>4. QED BY <3>1, <3>2, <3>3
  <2>3. row' \in AnyRow /\ (file.entry.static = NoText => row'.static = row.static)
    BY <1>01, <2>1, AppliedType
  <2>4. NoStatic(ways') => row'.static = NoText
    BY <1>0, <1>02, <2>1, <2>2, <2>3 DEF StaticKnown
  <2>5. QED BY <1>03, <2>1, <2>3, <2>4
<1>3. CASE SeedJson
  <2>1. /\ row' = Reimported(file.entry) /\ ways' = {"import"} /\ file' = file
        /\ line' = IF OneWay(file) THEN file.line ELSE NoLine
    BY <1>3 DEF SeedJson
  <2>2. row' \in AnyRow
    BY <1>01, <2>1, ReimportedType
  <2>3. RowsTyped' /\ StaticKnown'
    BY <1>01, <2>1, <2>2 DEF RowsTyped, StaticKnown, NoStatic
  <2>4. EntryKept' /\ FileKept'
    BY <1>0, <2>1 DEF EntryKept, FileKept, OneWay
  <2>5. LineKept'
    <3> SUFFICES ASSUME line' # NoLine
                 PROVE  OfLine(row, line)' /\ (row.static = row.walk)'
      BY <2>1 DEF LineKept
    <3>1. line' = file.line /\ EntryOfLine(file.entry, file.line)
      BY <1>0, <2>1 DEF FileKept
    <3>2. OfLine(row', line') /\ row'.static = row'.walk
      BY <1>01, <2>1, <3>1, ReimportedType
    <3>3. QED BY <3>2 DEF OfLine
  <2>6. QED BY <2>3, <2>4, <2>5 DEF ValuesInv
<1>4. CASE SeedWalk
  <2>1. PICK l \in WalkLines : /\ row' = Walked(Present(row), l)
                               /\ ways' = ways \cup {"walk"}
                               /\ line' = l /\ file' = file
    BY <1>4 DEF SeedWalk
  <2>2. row' \in AnyRow /\ row'.static = row.static /\ OfLine(row', line')
    BY <1>01, <2>1, WalkedType
  <2>3. RowsTyped' /\ StaticKnown'
    BY <1>0, <1>01, <1>02, <2>1, <2>2 DEF RowsTyped, StaticKnown
  <2>4. EntryKept' /\ FileKept'
    BY <1>0, <2>1 DEF EntryKept, FileKept, OneWay
  <2>5. OfLine(row, line)'
    BY <2>2 DEF OfLine
  <2>6. LineKept'
    BY <2>1, <2>5 DEF LineKept
  <2>7. QED BY <2>3, <2>4, <2>6 DEF ValuesInv
<1>5. CASE BulkDevices
  <2>1. PICK b \in Bodies : /\ row' = Overwritten(Present(row), b)
                            /\ ways' = WaysOf(b)
                            /\ line' = NoLine /\ file' = file
    BY <1>5 DEF BulkDevices
  <2>2. b \in AnyRow /\ (NoStatic(WaysOf(b)) => b.static = NoText)
    BY BodiesType
  <2>3. row' \in AnyRow /\ row'.static = b.static
    BY <1>01, <2>1, <2>2 DEF Overwritten, AnyRow
  <2>4. QED BY <1>03, <2>1, <2>2, <2>3
<1>6. CASE Delete
  <2>1. row' = NoRow /\ line' = NoLine /\ file' = file
    BY <1>6 DEF Delete
  <2>2. QED BY <1>03, <2>1, NewRows
<1>7. CASE Export
  <2>1. /\ UNCHANGED <<row, ways, line>>
        /\ file'.entry = Exported(row) /\ file'.ways = ways /\ file'.line = line
    BY <1>7 DEF Export
  <2>2. file'.entry \in AnyRow
    BY <1>01, <2>1, ExportedType
  <2>3. RowsTyped' /\ StaticKnown' /\ LineKept'
    BY <1>0, <1>01, <2>1, <2>2 DEF RowsTyped, StaticKnown, LineKept, OfLine
  <2>4. EntryKept'
    <3>1. row.mode = "walk_seed" => file'.entry.static # NoText
      BY <1>01, <2>1, ExportedType, Texts DEF Or, Falsy
    <3>2. row.mode \notin {"static", "walk_seed"} => file'.entry.static = NoText
      BY <1>01, <2>1, ExportedType
    <3>3. file'.entry.mode = row.mode
      BY <1>01, <2>1, ExportedType
    <3>4. QED BY <3>1, <3>2, <3>3 DEF EntryKept
  <2>5. FileKept'
    <3> SUFFICES ASSUME line # NoLine, ways \in {{}, {"static"}, {"walk"}, {"import"}}
                 PROVE  EntryOfLine(file'.entry, line)
      BY <2>1 DEF FileKept, OneWay, EntryOfLine
    <3>1. /\ OfLine(row, line) /\ line \in WalkLines
          /\ "walk" \in ways \/ (ways = {"import"} /\ row.static = row.walk)
      BY <1>0 DEF LineKept, OfLine
    <3>2. row.static = NoText \/ row.static = row.walk
      <4>1. "walk" \in ways => ways = {"walk"}
        OBVIOUS
      <4>2. NoStatic({"walk"})
        BY DEF NoStatic
      <4>3. QED BY <1>0, <3>1, <4>1, <4>2 DEF StaticKnown
    <3>3. QED BY <1>01, <2>1, <3>1, <3>2, ExportOfLine
  <2>6. QED BY <2>3, <2>4, <2>5 DEF ValuesInv
<1>8. CASE UNCHANGED valueVars
  BY <1>0, <1>8 DEF valueVars, ValuesInv, RowsTyped, EntryKept, StaticKnown, LineKept,
                    FileKept, OfLine, OneWay
<1>9. QED
  BY <1>1, <1>2, <1>3, <1>4, <1>5, <1>6, <1>7, <1>8 DEF ValuesNext

\* Rows and files stand for the walk lines that line and file.line name.
THEOREM ValuesInvariant == ValuesSpec => []ValuesInv
<1>1. QED BY ValuesInitially, ValuesStep, PTL DEF ValuesSpec

LEMMA AnswersForLine ==
  ASSUME ValuesInv, line # NoLine
  PROVE  Answers(row) = {LineAnswer(line)} /\ Faithful(line)
<1>1. row \in AnyRow /\ OfLine(row, line)
  BY DEF ValuesInv, RowsTyped, LineKept
<1>2. Answers(row) = {Encoded(Coerced(Or(row.walk, Empty), row.type), row.type)}
  BY <1>1, WalkAnswer DEF OfLine
<1>3. Answers(row) = {LineAnswer(line)}
  BY <1>1, <1>2 DEF OfLine, LineAnswer
<1>4. QED BY <1>1, <1>3, LineFaithful DEF OfLine

\* Whatever a walk held, the agent answers the OID, unless the number needs more
\* than 32 bits: no line of a walk can silence a station or end its walk.
THEOREM WalkAlwaysAnswered == ValuesSpec => []WalkAnswered
<1>1. ValuesInv => WalkAnswered
  BY AnswersForLine DEF Faithful, WalkAnswered
<1>2. QED BY <1>1, ValuesInvariant, PTL

\* What was walked on a device is what the simulated one answers, also after an
\* export and a re-import of the file, where the walk's line holds the value
\* whole; and it has the value's ASN.1 class unless net-snmp's tag is one that the
\* parser gives another class (_LINE_RE, _TYPE_MAP, _normalize_value).
THEOREM WalkAlwaysReproduced == ValuesSpec => []WalkReproduced
<1>1. ValuesInv => WalkReproduced
  BY AnswersForLine DEF Faithful, WalkReproduced
<1>2. QED BY <1>1, ValuesInvariant, PTL

-----------------------------------------------------------------------------
(* An import of an export.  What a row's columns hold follows from the ways *)
(* it was written in.                                                       *)

WalkKnown(r, w)   == w \cap {"walk", "import"} = {} => r.walk = NoText
ImportKnown(r, w) == w = {"import"} => r.static = r.walk
ModeKnown(r, w) ==
  /\ r.mode = "static" => w \cap {"static", "import"} # {}
  /\ r.mode = "walk_seed" => w \cap {"walk", "exported walk", "import"} # {}

ColumnsKnown ==
  /\ WalkKnown(row, ways) /\ ImportKnown(row, ways) /\ ModeKnown(row, ways)
  /\ row # NoRow => row.mode # "absent"

EntryBare == file.entry.walk = NoText /\ (file # NoFile => file.entry.mode # "absent")

FileFaithful ==
  file # NoFile /\ OneWay(file) => Answers(Reimported(file.entry)) = file.answers

CopyInv == ColumnsKnown /\ EntryBare /\ FileFaithful /\ ReimportFaithful

LEMMA BodiesWays ==
  ASSUME NEW b \in Bodies
  PROVE  /\ "walk" \notin WaysOf(b) => b.walk = NoText
         /\ b.mode \notin {"static", "walk_seed"} => b.static = NoText /\ b.walk = NoText
         /\ ModeKnown(b, WaysOf(b))
         /\ "import" \notin WaysOf(b) /\ (WaysOf(b) = {} => b.static = NoText)
         /\ b.mode # "absent"
<1> USE BodyType, OidValuesAssumption
<1>1. /\ b.mode = "static" => b.walk = NoText
      /\ b.mode # "absent"
      /\ b.mode = "walk_seed" => b.static = NoText
      /\ b.mode \notin {"static", "walk_seed"} => b.static = NoText /\ b.walk = NoText
  <2>0. \A m \in Modes, t \in Types :
          /\ Body(m, t).walk = NoText /\ Body(m, t).static = NoText
          /\ Body(m, t).mode = m /\ Body(m, t) \in AnyRow
    BY DEF Body, NewRow
  <2>1. ASSUME NEW t \in GivenTypes, NEW x, b = [Body("static", t) EXCEPT !.static = x]
        PROVE  b.mode = "static" /\ b.walk = NoText
    BY <2>0, <2>1 DEF Modes, AnyRow
  <2>2. ASSUME NEW t \in GivenTypes, NEW x, b = [Body("walk_seed", t) EXCEPT !.walk = x]
        PROVE  b.mode = "walk_seed" /\ b.static = NoText
    BY <2>0, <2>2 DEF Modes, AnyRow
  <2>3. ASSUME NEW t \in GivenTypes, NEW x,
               \/ b = [Body("random", t) EXCEPT !.config = x]
               \/ b = [Body("scripted", t) EXCEPT !.script = x]
               \/ b = Body("other", t)
        PROVE  b.mode \notin {"static", "walk_seed", "absent"} /\ b.static = NoText /\ b.walk = NoText
    BY <2>0, <2>3 DEF Modes, AnyRow
  <2>4. \/ \E t \in GivenTypes, x \in Given \cup {NoText} :
                \/ b = [Body("static", t) EXCEPT !.static = x]
                \/ b = [Body("walk_seed", t) EXCEPT !.walk = x]
        \/ \E t \in GivenTypes, c \in Configs \cup {NoConfig} :
                b = [Body("random", t) EXCEPT !.config = c]
        \/ \E t \in GivenTypes, x \in Scripts : b = [Body("scripted", t) EXCEPT !.script = x]
        \/ \E t \in GivenTypes : b = Body("other", t)
    BY DEF Bodies
  <2>5. QED BY <2>1, <2>2, <2>3, <2>4
<1>2. CASE b.mode = "static"
  <2>1. WaysOf(b) = {"static"}
    BY <1>2 DEF WaysOf
  <2>2. QED BY <1>1, <1>2, <2>1 DEF ModeKnown
<1>3. CASE b.mode = "walk_seed"
  <2>1. WaysOf(b) = {"walk"}
    BY <1>1, <1>3 DEF WaysOf
  <2>2. QED BY <1>3, <2>1 DEF ModeKnown
<1>4. CASE b.mode \notin {"static", "walk_seed"}
  <2>1. WaysOf(b) = {}
    BY <1>4 DEF WaysOf
  <2>2. QED BY <1>1, <1>4, <2>1 DEF ModeKnown
<1>5. QED BY <1>2, <1>3, <1>4

LEMMA AppliedColumns ==
  ASSUME NEW r \in AnyRow, NEW b \in AnyRow
  PROVE  /\ Applied(r, b).mode = b.mode
         /\ b.static = NoText => Applied(r, b).static = r.static
         /\ b.walk = NoText => Applied(r, b).walk = r.walk
<1>1. PICK s, w, c, x :
        /\ Applied(r, b) = [b EXCEPT !.static = s, !.walk = w, !.config = c, !.script = x]
        /\ b.static = NoText => s = r.static
        /\ b.walk = NoText => w = r.walk
  BY DEF Applied
<1>2. QED BY <1>1 DEF AnyRow

\* A value written one way survives an export and an import of it.
LEMMA ReimportAnswers ==
  ASSUME NEW r \in AnyRow, NEW w, w \in {{}, {"static"}, {"walk"}, {"import"}},
         r.mode # "absent", NoStatic(w) => r.static = NoText,
         WalkKnown(r, w), ImportKnown(r, w), ModeKnown(r, w)
  PROVE  Answers(Reimported(Exported(r))) = Answers(r)
<1> DEFINE e == Exported(r)
           n == Reimported(e)
<1>1. /\ e \in AnyRow /\ e.mode = r.mode /\ e.type = r.type /\ e.walk = NoText
      /\ r.mode \in {"static", "walk_seed"} => e.static = Or(Or(r.static, r.walk), Empty)
  BY ExportedType
<1>2. /\ r.mode = "random" => e.config = r.config
      /\ r.mode = "scripted" => e.script = r.script
  <2> DEFINE base == Body(r.mode, r.type)
  <2>1. base \in AnyRow
    BY NewRows DEF Body, NewRow, AnyRow
  <2>2. PICK s : Exported(r) =
          [base EXCEPT !.static = s,
             !.config = IF r.mode = "random" THEN r.config ELSE @,
             !.script = IF r.mode = "scripted" THEN r.script ELSE @]
    BY DEF Exported
  <2> HIDE DEF base
  <2>3. QED BY <2>1, <2>2 DEF AnyRow
<1>3. /\ n.mode = e.mode /\ n.type = e.type /\ n.static = e.static
      /\ n.config = e.config /\ n.script = e.script /\ n.walk = Or(e.walk, e.static)
  BY <1>1 DEF Reimported, AnyRow
<1> HIDE DEF e, n
<1>4. n.walk = e.static
  BY <1>1, <1>3 DEF Or, Falsy
<1>5. ASSUME r.mode \in {"static", "walk_seed"}
      PROVE  /\ r.static = r.walk \/ r.static = NoText \/ r.walk = NoText
             /\ r.mode = "static" => r.walk = NoText \/ r.static = r.walk
             /\ r.mode = "walk_seed" => r.static = NoText \/ r.static = r.walk
  <2>1. r.mode = "static" => w \in {{"static"}, {"import"}}
    BY DEF ModeKnown
  <2>2. r.mode = "walk_seed" => w \in {{"walk"}, {"import"}}
    BY DEF ModeKnown
  <2>3. w = {"static"} => r.walk = NoText
    BY DEF WalkKnown
  <2>4. w = {"walk"} => r.static = NoText
    BY DEF NoStatic
  <2>5. w = {"import"} => r.static = r.walk
    BY DEF ImportKnown
  <2>6. QED BY <1>5, <2>1, <2>2, <2>3, <2>4, <2>5
<1>6. n # NoRow /\ r # NoRow
  BY <1>1, <1>3 DEF NoRow, NewRow
<1>7. Resolutions(Pushed(n)) = Resolutions(Pushed(r))
  <2>1. CASE r.mode = "static"
    <3>1. Or(n.static, Empty) = Or(r.static, Empty)
      BY <1>1, <1>3, <1>5, <2>1 DEF Or, Falsy
    <3>2. /\ Pushed(n).mode = "static" /\ Pushed(r).mode = "static"
          /\ Pushed(n).text = Pushed(r).text /\ Pushed(n).type = Pushed(r).type
      BY <1>1, <1>3, <2>1, <3>1 DEF Pushed, Payload
    <3>3. QED BY <3>2 DEF Resolutions
  <2>2. CASE r.mode = "walk_seed"
    <3>1. Or(n.walk, Empty) = Or(r.walk, Empty)
      BY <1>1, <1>4, <1>5, <2>2 DEF Or, Falsy
    <3>2. /\ Pushed(n).mode = "walk_seed" /\ Pushed(r).mode = "walk_seed"
          /\ Pushed(n).text = Pushed(r).text /\ Pushed(n).type = Pushed(r).type
      BY <1>1, <1>3, <2>2, <3>1 DEF Pushed, Payload
    <3>3. QED BY <3>2 DEF Resolutions
  <2>3. CASE r.mode = "random"
    <3>1. /\ Pushed(n).mode = "random" /\ Pushed(r).mode = "random"
          /\ Pushed(n).config = Pushed(r).config
      BY <1>1, <1>2, <1>3, <2>3 DEF Pushed, Payload
    <3>2. QED BY <3>1 DEF Resolutions
  <2>4. CASE r.mode = "scripted"
    <3>1. /\ Pushed(n).mode = "scripted" /\ Pushed(r).mode = "scripted"
          /\ Pushed(n).script = Pushed(r).script /\ Pushed(n).type = Pushed(r).type
      BY <1>1, <1>2, <1>3, <2>4 DEF Pushed, Payload
    <3>2. QED BY <3>1 DEF Resolutions
  <2>5. CASE r.mode \notin {"static", "walk_seed", "random", "scripted"}
    <3>1. /\ Pushed(n).mode = "static" /\ Pushed(r).mode = "static"
          /\ Pushed(n).text = Pushed(r).text /\ Pushed(n).type = Pushed(r).type
      BY <1>1, <1>3, <2>5 DEF Pushed, Payload
    <3>2. QED BY <3>1 DEF Resolutions
  <2>6. QED BY <2>1, <2>2, <2>3, <2>4, <2>5
<1>8. Answers(n) = Answers(r)
  BY <1>6, <1>7 DEF Answers
<1>9. QED BY <1>8 DEF n, e

LEMMA CopyInitially == ValuesInit => CopyInv
<1> SUFFICES ASSUME ValuesInit PROVE CopyInv
  OBVIOUS
<1>1. /\ row = NoRow /\ file = NoFile /\ ways = {} /\ copied.how = "none"
      /\ file.entry = NoRow
  BY DEF ValuesInit, NoFile, NoCopy
<1>2. NoRow.mode = "absent" /\ NoRow.walk = NoText
  BY DEF NoRow, NewRow
<1>3. ColumnsKnown
  BY <1>1, <1>2 DEF ColumnsKnown, WalkKnown, ImportKnown, ModeKnown
<1>4. QED BY <1>1, <1>2, <1>3 DEF CopyInv, EntryBare, FileFaithful, ReimportFaithful

LEMMA CopyStep == ValuesInv /\ CopyInv /\ [ValuesNext]_valueVars => CopyInv'
<1> SUFFICES ASSUME ValuesInv, CopyInv, [ValuesNext]_valueVars PROVE CopyInv'
  OBVIOUS
<1>0. /\ RowsTyped /\ EntryKept /\ StaticKnown
      /\ ColumnsKnown /\ EntryBare /\ FileFaithful /\ ReimportFaithful
  BY DEF ValuesInv, CopyInv
<1>01. row \in AnyRow /\ file.entry \in AnyRow /\ Present(row) \in AnyRow
       /\ Present(row).static = row.static /\ Present(row).walk = row.walk
  <2>1. NewRow.walk = NoText /\ NoRow.walk = NoText
    BY DEF NewRow, NoRow
  <2>2. Present(row).walk = row.walk
    BY <2>1 DEF Present
  <2>3. QED BY <1>0, <2>2, PresentType DEF RowsTyped
\* A request that leaves the file alone and makes no copy of it from JSON.
<1>02. ASSUME file' = file, copied'.how # "json", ColumnsKnown' PROVE CopyInv'
  BY <1>0, <1>02 DEF CopyInv, EntryBare, FileFaithful, ReimportFaithful, OneWay
\* The columns a body does not give stay as they were known to be.
<1>03. ASSUME NEW b \in AnyRow, row' = Applied(Present(row), b),
              ways' = ways \cup WaysOf(b), b.mode # "absent",
              "walk" \notin WaysOf(b) => b.walk = NoText,
              WaysOf(b) = {} => b.static = NoText, "import" \notin WaysOf(b),
              ModeKnown(b, WaysOf(b))
       PROVE  ColumnsKnown'
  <2>1. /\ row'.mode = b.mode
        /\ b.static = NoText => row'.static = row.static
        /\ b.walk = NoText => row'.walk = row.walk
    BY <1>01, <1>03, AppliedColumns
  <2>2. WalkKnown(row, ways)'
    <3> SUFFICES ASSUME ways' \cap {"walk", "import"} = {} PROVE row'.walk = NoText
      BY DEF WalkKnown
    <3>1. ways \cap {"walk", "import"} = {} /\ "walk" \notin WaysOf(b)
      BY <1>03
    <3>2. QED BY <1>0, <1>03, <2>1, <3>1 DEF ColumnsKnown, WalkKnown
  <2>3. ImportKnown(row, ways)'
    <3> SUFFICES ASSUME ways' = {"import"} PROVE row'.static = row'.walk
      BY DEF ImportKnown
    <3>1. ways = {"import"} /\ WaysOf(b) = {}
      BY <1>03
    <3>2. QED BY <1>0, <1>03, <2>1, <3>1 DEF ColumnsKnown, ImportKnown
  <2>4. ModeKnown(row, ways)'
    BY <1>03, <2>1 DEF ModeKnown
  <2>5. QED BY <1>03, <2>1, <2>2, <2>3, <2>4 DEF ColumnsKnown
<1>1. CASE Upsert
  <2>1. PICK b \in Bodies : /\ row' = Applied(Present(row), b)
                            /\ ways' = ways \cup WaysOf(b)
                            /\ copied' = NoCopy /\ file' = file
    BY <1>1 DEF Upsert
  <2>2. b \in AnyRow
    BY BodiesType
  <2>3. ColumnsKnown'
    BY <1>03, <2>1, <2>2, BodiesWays
  <2>4. QED BY <1>02, <2>1, <2>3 DEF NoCopy
<1>2. CASE BulkImport
  <2> DEFINE e == file.entry
  <2>1. /\ row' = Applied(Present(row), e) /\ ways' = ways \cup WaysOf(e)
        /\ copied'.how = "bulk" /\ file' = file /\ file # NoFile
    BY <1>2 DEF BulkImport
  <2>2. e \in AnyRow /\ e.walk = NoText /\ e.mode # "absent"
    BY <1>0, <1>01, <2>1 DEF EntryBare
  <2>3. /\ WaysOf(e) = {} => e.static = NoText
        /\ "import" \notin WaysOf(e) /\ ModeKnown(e, WaysOf(e))
    <3>1. CASE e.mode = "static"
      <4>1. WaysOf(e) = {"static"}
        BY <3>1 DEF WaysOf
      <4>2. QED BY <3>1, <4>1 DEF ModeKnown
    <3>2. CASE e.mode = "walk_seed"
      <4>1. WaysOf(e) = {"exported walk"}
        BY <1>0, <2>1, <3>2 DEF WaysOf, EntryKept
      <4>2. QED BY <3>2, <4>1 DEF ModeKnown
    <3>3. CASE e.mode \notin {"static", "walk_seed"}
      <4>1. WaysOf(e) = {}
        BY <3>3 DEF WaysOf
      <4>2. QED BY <1>0, <3>3, <4>1 DEF ModeKnown, EntryKept
    <3>4. QED BY <3>1, <3>2, <3>3
  <2> HIDE DEF e
  <2>4. ColumnsKnown'
    BY <1>03, <2>1, <2>2, <2>3
  <2>5. QED BY <1>02, <2>1, <2>4
<1>3. CASE SeedJson
  <2>1. /\ row' = Reimported(file.entry) /\ ways' = {"import"} /\ file' = file
        /\ copied'.file = file /\ file # NoFile
    BY <1>3 DEF SeedJson
  <2>2. /\ row'.walk = Or(file.entry.walk, file.entry.static)
        /\ row'.static = file.entry.static /\ row'.mode = file.entry.mode
    BY <1>01, <2>1 DEF Reimported, AnyRow
  <2>3. row'.walk = row'.static
    BY <1>0, <2>2 DEF EntryBare, Or, Falsy
  <2>4. ColumnsKnown'
    BY <1>0, <2>1, <2>2, <2>3
       DEF ColumnsKnown, WalkKnown, ImportKnown, ModeKnown, EntryBare
  <2>5. EntryBare' /\ FileFaithful'
    BY <1>0, <2>1 DEF EntryBare, FileFaithful, OneWay
  <2>6. OneWay(file) => Answers(row') = file.answers
    BY <1>0, <2>1 DEF FileFaithful
  <2>7. Answers(row)' = Answers(row')
    BY DEF Answers, Resolutions, Pushed
  <2>8. ReimportFaithful'
    BY <2>1, <2>6, <2>7 DEF ReimportFaithful, OneWay
  <2>9. QED BY <2>4, <2>5, <2>8 DEF CopyInv
<1>4. CASE SeedWalk
  <2>1. PICK l \in WalkLines : /\ row' = Walked(Present(row), l)
                               /\ ways' = ways \cup {"walk"}
                               /\ copied' = NoCopy /\ file' = file
    BY <1>4 DEF SeedWalk
  <2>2. row'.mode = "walk_seed"
    BY <1>01, <2>1, WalkedType DEF OfLine
  <2>3. "walk" \in ways'
    BY <2>1
  <2>4. ways' # {"import"} /\ ways' \cap {"walk", "import"} # {}
    BY <2>3
  <2>5. WalkKnown(row, ways)' /\ ImportKnown(row, ways)'
    BY <2>4 DEF WalkKnown, ImportKnown
  <2>6. ModeKnown(row, ways)'
    BY <2>2, <2>3 DEF ModeKnown
  <2>7. ColumnsKnown'
    BY <2>2, <2>5, <2>6 DEF ColumnsKnown
  <2>8. QED BY <1>02, <2>1, <2>7 DEF NoCopy
<1>5. CASE BulkDevices
  <2>1. PICK b \in Bodies : /\ row' = Overwritten(Present(row), b)
                            /\ ways' = WaysOf(b)
                            /\ copied' = NoCopy /\ file' = file
    BY <1>5 DEF BulkDevices
  <2>2. b \in AnyRow
    BY BodiesType
  <2>3. row'.static = b.static /\ row'.walk = b.walk /\ row'.mode = b.mode
    BY <2>1, <2>2 DEF Overwritten, AnyRow
  <2>4. ColumnsKnown'
    BY <2>1, <2>3, BodiesWays DEF ColumnsKnown, WalkKnown, ImportKnown, ModeKnown
  <2>5. QED BY <1>02, <2>1, <2>4 DEF NoCopy
<1>6. CASE Delete
  <2>1. row' = NoRow /\ ways' = {} /\ copied' = NoCopy /\ file' = file
    BY <1>6 DEF Delete
  <2>2. NoRow.mode = "absent" /\ NoRow.walk = NoText
    BY DEF NoRow, NewRow
  <2>3. ColumnsKnown'
    BY <2>1, <2>2 DEF ColumnsKnown, WalkKnown, ImportKnown, ModeKnown
  <2>4. QED BY <1>02, <2>1, <2>3 DEF NoCopy
<1>7. CASE Export
  <2>1. /\ UNCHANGED <<row, ways, copied>> /\ row # NoRow
        /\ file'.entry = Exported(row) /\ file'.ways = ways /\ file'.answers = Answers(row)
    BY <1>7 DEF Export
  <2>2. row.mode # "absent"
    BY <1>0, <2>1 DEF ColumnsKnown
  <2>3. EntryBare'
    BY <1>01, <2>1, <2>2, ExportedType DEF EntryBare
  <2>4. ASSUME ways \in {{}, {"static"}, {"walk"}, {"import"}}
        PROVE  Answers(Reimported(Exported(row))) = Answers(row)
    BY <1>0, <1>01, <2>2, <2>4, ReimportAnswers DEF ColumnsKnown, StaticKnown
  <2>5. FileFaithful'
    <3> SUFFICES ASSUME ways \in {{}, {"static"}, {"walk"}, {"import"}}
                 PROVE  Answers(Reimported(file'.entry)) = file'.answers
      BY <2>1 DEF FileFaithful, OneWay, Answers, Resolutions, Pushed
    <3>1. QED BY <2>1, <2>4
  <2>6. ColumnsKnown' /\ ReimportFaithful'
    BY <1>0, <2>1 DEF ColumnsKnown, WalkKnown, ImportKnown, ModeKnown, ReimportFaithful
  <2>7. QED BY <2>3, <2>5, <2>6 DEF CopyInv
<1>8. CASE UNCHANGED valueVars
  BY <1>0, <1>8 DEF valueVars, CopyInv, ColumnsKnown, WalkKnown, ImportKnown, ModeKnown,
                    EntryBare, FileFaithful, ReimportFaithful, OneWay
<1>9. QED
  BY <1>1, <1>2, <1>3, <1>4, <1>5, <1>6, <1>7, <1>8 DEF ValuesNext

\* A device seeded from the export of a device answers as that one did, whatever
\* was written in between, if the OID had been written in one way.
THEOREM ReimportAlwaysFaithful == ValuesSpec => []ReimportFaithful
<1>1. CopyInv => ReimportFaithful
  BY DEF CopyInv
<1>2. QED BY <1>1, ValuesInvariant, CopyInitially, CopyStep, PTL DEF ValuesSpec
-----------------------------------------------------------------------------
(* Types: whatever is written, the agent makes an answer of it.            *)

LEMMA RowsHaveModes == ASSUME NEW r \in AnyRow, r.mode \in Modes PROVE r \in Row
  BY DEF AnyRow, Row

LEMMA NumbersAreTexts == ASSUME NEW i \in Int PROVE Num(i) \in Text
  BY DEF Num, T, Text, Shapes

LEMMA CoercedType == ASSUME NEW t \in Text, NEW type PROVE Coerced(t, type) \in Python
<1>1. Num(0) \in Text
  BY NumbersAreTexts
<1>2. \A k \in {"int", "str", "tuple"}, x \in Text : Py(k, x) \in Python
  BY DEF Py, Python
<1>3. QED BY <1>1, <1>2 DEF Coerced

LEMMA EncodedType ==
  ASSUME NEW v \in Python \cup {Failed}, NEW type PROVE Encoded(v, type) \in Answer
<1>1. Num(0) \in Text
  BY NumbersAreTexts
<1>2. \A c, x : c \in {"Integer", "Counter32", "Gauge32", "TimeTicks", "Counter64",
                       "OctetString", "IpAddress", "ObjectIdentifier",
                       "noSuchObject", "dropped"} /\ x \in Text => Ans(c, x) \in Answer
  BY DEF Ans, Answer
<1>3. NoSuchObject \in Answer /\ Dropped \in Answer
  BY <1>2, Texts DEF NoSuchObject, Dropped
<1>4. CASE v = Failed
  BY <1>3, <1>4 DEF Encoded
<1>5. CASE v # Failed
  <2>1. v.text \in Text
    BY <1>5 DEF Python
  <2>2. \A c \in {"Counter32", "Gauge32", "TimeTicks"} : Unsigned(c, v) \in Answer
    BY <1>1, <1>2, <1>3, <2>1 DEF Unsigned
  <2>3. Identifier(v) \in Answer
    BY <1>2, <1>3, <2>1 DEF Identifier
  <2>4. QED BY <1>1, <1>2, <1>3, <1>5, <2>1, <2>2, <2>3 DEF Encoded
<1>6. QED BY <1>4, <1>5

\* Whatever mode a row has, what it resolves to is a value or a failure.
LEMMA ResolutionsType ==
  ASSUME NEW r \in Row, NEW a \in Resolutions(Pushed(r))
  PROVE  a[1] \in Python \cup {Failed}
<1> DEFINE p == Pushed(r)
<1>1. /\ p.text \in Text /\ p.config = r.config /\ p.script = r.script
      /\ p.mode \in {"static", "walk_seed", "random", "scripted"}
  <2>1. Or(r.static, Empty) \in Text /\ Or(r.walk, Empty) \in Text /\ Empty \in Text
    BY Texts DEF Or, Row
  <2>2. r.mode \in Modes
    BY DEF Row
  <2>3. QED BY <2>1, <2>2 DEF Pushed, Payload, Modes
<1>2. r.config.lo \in Int /\ r.config.hi \in Int /\ r.script \in Scripts \cup {NoScript}
  BY DEF Row, Config
<1> HIDE DEF p
<1>3. CASE p.mode \in {"static", "walk_seed"}
  <2>1. a = <<Coerced(p.text, p.type), p.type>>
    BY <1>3 DEF Resolutions, p
  <2>2. QED BY <1>1, <2>1, CoercedType
<1>4. CASE p.mode = "random"
  <2>1. a[1] = Failed \/ \E i \in p.config.lo .. p.config.hi : a[1] = Py("int", Num(i))
    BY <1>4 DEF Resolutions, p
  <2>2. \A i \in Int : Py("int", Num(i)) \in Python
    BY NumbersAreTexts DEF Py, Python
  <2>3. QED BY <1>1, <1>2, <2>1, <2>2
<1>5. CASE p.mode = "scripted"
  <2>1. \E v \in IF p.script = NoScript THEN {Py("int", Num(0))} ELSE Yields[p.script] :
          a[1] = IF v = Failed THEN Py("int", Num(0)) ELSE v
    BY <1>5 DEF Resolutions, p
  <2>2. Py("int", Num(0)) \in Python
    BY NumbersAreTexts DEF Py, Python
  <2>3. \A x \in Scripts : Yields[x] \subseteq Python \cup {Failed}
    BY OidValuesAssumption
  <2>4. QED BY <1>1, <1>2, <2>1, <2>2, <2>3
<1>6. QED BY <1>1, <1>3, <1>4, <1>5

LEMMA AnswersType == ASSUME NEW r \in Row \cup {NoRow} PROVE Answers(r) \subseteq Answer
<1>1. CASE r = NoRow
  BY <1>1, Texts DEF Answers, NoSuchObject, Ans, Answer
<1>2. CASE r # NoRow
  <2>1. Answers(r) = {Encoded(a[1], a[2]) : a \in Resolutions(Pushed(r))}
    BY <1>2 DEF Answers
  <2>2. \A a \in Resolutions(Pushed(r)) : Encoded(a[1], a[2]) \in Answer
    BY <1>2, ResolutionsType, EncodedType
  <2>3. QED BY <2>1, <2>2
<1>3. QED BY <1>1, <1>2

\* A row has one of the modes from the first request on, and so has an entry.
ModesKept ==
  /\ row = NoRow \/ row.mode \in Modes
  /\ file = NoFile \/ file.entry.mode \in Modes
  /\ ops \in 0 .. MaxOps

LEMMA BodiesModes == ASSUME NEW b \in Bodies PROVE b.mode \in Modes
<1>1. \A m, t : Body(m, t).mode = m /\ DOMAIN Body(m, t) = DOMAIN NewRow
  BY DEF Body, NewRow
<1>2. b.mode \in {"static", "walk_seed", "random", "scripted", "other"}
  BY <1>1 DEF Bodies, NewRow
<1>3. QED BY <1>2 DEF Modes

LEMMA ModesOf ==
  ASSUME NEW r, NEW b \in AnyRow, NEW l
  PROVE  /\ Applied(r, b).mode = b.mode /\ Overwritten(r, b).mode = b.mode
         /\ Reimported(b).mode = b.mode /\ Exported(b).mode = b.mode
         /\ Walked(b, l).mode = "walk_seed"
<1>1. DOMAIN b = {"mode", "static", "walk", "config", "script", "type"}
  BY DEF AnyRow
<1>2. Exported(b).mode = b.mode
  BY DEF Exported, Body, NewRow
<1>3. Applied(r, b).mode = b.mode /\ Overwritten(r, b).mode = b.mode
  BY <1>1 DEF Applied, Overwritten
<1>4. Reimported(b).mode = b.mode /\ Walked(b, l).mode = "walk_seed"
  BY <1>1 DEF Reimported, Walked
<1>5. QED BY <1>2, <1>3, <1>4

LEMMA ModesStep == ValuesInv /\ ModesKept /\ [ValuesNext]_valueVars => ModesKept'
<1> SUFFICES ASSUME ValuesInv, ModesKept, [ValuesNext]_valueVars PROVE ModesKept'
  OBVIOUS
<1>1. row \in AnyRow /\ file.entry \in AnyRow /\ Present(row) \in AnyRow
  BY PresentType DEF ValuesInv, RowsTyped
<1>2. ASSUME ValuesNext PROVE ops' \in 0 .. MaxOps
  <2>1. Request
    BY <1>2 DEF ValuesNext, Upsert, BulkImport, SeedJson, SeedWalk, BulkDevices, Delete, Export
  <2>2. QED BY <2>1, OidValuesAssumption DEF Request, ModesKept
<1>3. CASE Upsert \/ BulkDevices
  <2>1. PICK b \in Bodies : row' \in {Applied(Present(row), b), Overwritten(Present(row), b)}
    BY <1>3 DEF Upsert, BulkDevices
  <2>2. row'.mode \in Modes
    BY <2>1, BodiesType, BodiesModes, ModesOf
  <2>3. file' = file
    BY <1>3 DEF Upsert, BulkDevices
  <2>4. QED BY <1>2, <1>3, <2>2, <2>3 DEF ValuesNext, ModesKept
<1>4. CASE BulkImport \/ SeedJson
  <2>1. /\ file # NoFile /\ file' = file
        /\ row' \in {Applied(Present(row), file.entry), Reimported(file.entry)}
    BY <1>4 DEF BulkImport, SeedJson
  <2>2. row'.mode \in Modes
    BY <1>1, <2>1, ModesOf DEF ModesKept
  <2>3. QED BY <1>2, <1>4, <2>1, <2>2 DEF ValuesNext, ModesKept
<1>5. CASE SeedWalk
  <2>1. file' = file /\ \E l \in WalkLines : row' = Walked(Present(row), l)
    BY <1>5 DEF SeedWalk
  <2>2. row'.mode \in Modes
    BY <1>1, <2>1, ModesOf DEF Modes
  <2>3. QED BY <1>2, <1>5, <2>1, <2>2 DEF ValuesNext, ModesKept
<1>6. CASE Delete
  BY <1>2, <1>6 DEF Delete, ValuesNext, ModesKept
<1>7. CASE Export
  <2>1. row # NoRow /\ row' = row /\ file'.entry = Exported(row)
    BY <1>7 DEF Export
  <2>2. file'.entry.mode \in Modes
    BY <1>1, <2>1, ModesOf DEF ModesKept
  <2>3. QED BY <1>2, <1>7, <2>1, <2>2 DEF ValuesNext, ModesKept
<1>8. CASE UNCHANGED valueVars
  BY <1>8 DEF valueVars, ModesKept
<1>9. QED BY <1>3, <1>4, <1>5, <1>6, <1>7, <1>8 DEF ValuesNext

\* Rows and exports are of their types, and whatever a client has written in
\* whatever order, the agent makes of it an answer or drops the response.
THEOREM ValuesTypeCorrect == ValuesSpec => []ValuesTypeOK
<1>1. ValuesInit => ModesKept
  BY OidValuesAssumption DEF ValuesInit, ModesKept
<1>2. ValuesInv /\ ModesKept => ValuesTypeOK
  <2> SUFFICES ASSUME ValuesInv, ModesKept PROVE ValuesTypeOK
    OBVIOUS
  <2>1. row \in Row \cup {NoRow}
    BY RowsHaveModes DEF ValuesInv, RowsTyped, ModesKept
  <2>2. file.entry \in Row \cup {NoRow}
    BY RowsHaveModes DEF ValuesInv, RowsTyped, ModesKept, NoFile
  <2>3. QED BY <2>1, <2>2, AnswersType DEF ModesKept, ValuesTypeOK
<1>3. QED BY <1>1, <1>2, ModesStep, ValuesInvariant, PTL DEF ValuesSpec
=============================================================================
