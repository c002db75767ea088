------------------------------ MODULE OidValues ------------------------------
(***************************************************************************)
(* What one OID of one device answers, from the request that configures it *)
(* to the ASN.1 value in the agent's response: the walk parser, the row    *)
(* and the requests that write it, the payload push_device_oids puts into  *)
(* Redis, resolve_oid_value and _encode_value.  Requests are taken one at  *)
(* a time, each with its push: OidPush is about their interleaving.        *)
(*                                                                         *)
(* ways, line, copied, and what a file keeps beside its entry, are         *)
(* history: no guard reads them.                                           *)
(***************************************************************************)
EXTENDS Integers, FiniteSets

CONSTANTS
  Numbers,     \* the integers that occur in values
  Max32,       \* 2^32 - 1 in the code
  DefaultHi,   \* the upper end of a random value without a config: 100
  Given,       \* texts a client puts into a request
  GivenTypes,  \* value types a client puts into a request
  Configs,     \* random_config objects
  Scripts,     \* scripts
  Yields,      \* the values evaluating each may give
  MaxOps       \* bound: requests in one behaviour

Types == {"string", "integer", "counter", "gauge", "timeticks", "ipaddress", "oid"}
Modes == {"static", "walk_seed", "random", "scripted", "other"}

\* A text is known by what conversions make of it: "5" is a number, "up(5)" a
\* word as is "5 seconds", "(5) 0:00:00.05" ticks; an edged text has quotes or
\* blanks at an end, one of quotes has nothing else; NoText is None or null.
Shapes  == {"none", "empty", "number", "word", "ticks", "dotted", "address", "octets",
            "quotes", "edged", "lines"}
Text    == [shape : Shapes, n : Int]
NoText  == [shape |-> "none", n |-> 0]
Empty   == [shape |-> "empty", n |-> 0]
T(s, i) == [shape |-> s, n |-> i]
Num(i)  == T("number", i)
Quotes  == T("quotes", 0)
Falsy   == {NoText, Empty}
Or(a, b) == IF a \in Falsy THEN b ELSE a

Config   == [lo : Int, hi : Int, type : Types]
NoConfig == [lo |-> 0, hi |-> DefaultHi, type |-> "integer"]
NoScript == "none"

\* A Python value on its way to the encoder, and what the encoder makes of it.
Python == [py : {"int", "str", "tuple"}, text : Text]
Py(k, t) == [py |-> k, text |-> t]
Failed == Py("error", NoText)
Answer == [class : {"Integer", "Counter32", "Gauge32", "TimeTicks", "Counter64",
                    "OctetString", "IpAddress", "ObjectIdentifier",
                    "noSuchObject", "dropped"}, text : Text]
Ans(c, t) == [class |-> c, text |-> t]
NoSuchObject == Ans("noSuchObject", NoText)  \* it raised: the var-bind is empty
Dropped == Ans("dropped", NoText)            \* the whole response is lost

ASSUME OidValuesAssumption ==
  /\ Numbers \subseteq Int /\ Max32 \in Nat /\ DefaultHi \in Nat /\ MaxOps \in Nat
  /\ Given \subseteq Text /\ NoText \notin Given
  /\ GivenTypes \subseteq Types
  /\ Configs \subseteq Config /\ NoConfig \notin Configs
  /\ NoScript \notin Scripts
  /\ Yields \in [Scripts -> SUBSET (Python \cup {Failed})]

-----------------------------------------------------------------------------
(* The walk parser.  A printed line has a kind of name in front, a tag      *)
(* before its value ("none": no tag), and the text after it, of which a     *)
(* value of several lines has the first.  meant is the value printed.       *)

Line(tag, text, meant) == [tag |-> tag, text |-> text, meant |-> meant]
NoLine == Line("none", NoText, NoSuchObject)

\* _LINE_RE: a name is dotted numbers after a dot, or MODULE::name and numbers;
\* one of another form ("bare") loses its line.
Names == {"numeric", "known", "unknown", "bare"}

\* A tag is one word.  The value has at least one character: of a tag that
\* nothing follows, and of one of several words, it is part of the value.
TagsOfWords == {"NetworkAddress", "WrongType"}
Tagged(l) == l.tag \notin {"none"} \cup TagsOfWords /\ l.text # Empty
TagOf(l) == IF Tagged(l) THEN l.tag ELSE "none"
Matches(name, l) == name # "bare" /\ (l.tag = "none" => l.text # Empty)

\* The quotes around a value are stripped.
Kept(l) ==
  IF l.tag # "none" /\ ~Tagged(l) THEN T("word", 0)
  ELSE IF l.text.shape = "quotes" THEN Empty ELSE l.text

TagTypes == [STRING |-> "string", OID |-> "string", Counter32 |-> "counter",
             Counter64 |-> "counter", Gauge32 |-> "gauge", Gauge64 |-> "gauge",
             INTEGER |-> "integer", Timeticks |-> "timeticks",
             IpAddress |-> "ipaddress", HexSTRING |-> "string", BITS |-> "string",
             NetworkAddress |-> "string"]

\* mutant: _TYPE_MAP.get(typetag, typetag)
TypeOfTagRaw(tag) == IF tag \in DOMAIN TagTypes THEN TagTypes[tag] ELSE tag
\* mutant: an OID gets the type the resolver has for OIDs
TypeOfTagOid(tag) ==
  IF tag = "OID" THEN "oid" ELSE IF tag \in DOMAIN TagTypes THEN TagTypes[tag] ELSE "string"

\* No tag, or one the map lacks, means a string.
TypeOfTag(tag) == IF tag \in DOMAIN TagTypes THEN TagTypes[tag] ELSE "string"

\* A symbolic name is in the table, or pysnmp resolves it.
Resolved(name) == name # "unknown"

\* mutant: the number of Timeticks is not extracted
NormalisedNot(text, type) == text

\* "(5) 0:00:00.05" becomes "5"; anything else that has no number, "0".
Normalised(text, type) ==
  IF type # "timeticks" THEN text
  ELSE IF text.shape = "ticks" \/ (text.shape = "number" /\ text.n >= 0) THEN Num(text.n)
  ELSE Num(0)

\* What net-snmp prints for a value, and for an OID it got no value for.
Naturally == {i \in Numbers : i >= 0}
Within == {i \in Naturally : i <= Max32}
WalkLines ==   \* a word: up(5), 5 seconds
  {Line("INTEGER", T(sh, i), Ans("Integer", Num(i))) : sh \in {"number", "word"}, i \in Numbers}
  \cup {Line(c, T(sh, i), Ans(c, Num(i))) :
           c \in {"Counter32", "Gauge32"}, sh \in {"number", "word"}, i \in Within}
  \cup {Line("Timeticks", T("ticks", i), Ans("TimeTicks", Num(i))) : i \in Within}
  \cup {Line("Counter64", Num(i), Ans("Counter64", Num(i))) : i \in Naturally}
  \cup {Line("STRING", T("word", 0), Ans("OctetString", T("word", 0))),
        Line("STRING", Num(0), Ans("OctetString", Num(0))),
        Line("STRING", Quotes, Ans("OctetString", Empty)),
        Line("STRING", Empty, Ans("OctetString", Empty)),
        Line("none", Quotes, Ans("OctetString", Empty)),
        Line("STRING", T("word", 0), Ans("OctetString", T("edged", 0))),
        Line("STRING", T("word", 0), Ans("OctetString", T("lines", 0))),
        Line("STRING", Quotes, Ans("OctetString", T("lines", 0))),
        Line("HexSTRING", T("word", 0), Ans("OctetString", T("octets", 0))),
        Line("BITS", T("word", 0), Ans("OctetString", T("octets", 0))),
        Line("Opaque", T("word", 0), Ans("Opaque", T("octets", 0))),
        Line("OID", T("dotted", 0), Ans("ObjectIdentifier", T("dotted", 0))),
        Line("OID", T("word", 0), Ans("ObjectIdentifier", T("dotted", 0))),
        Line("IpAddress", T("address", 0), Ans("IpAddress", T("address", 0))),
        Line("NetworkAddress", T("word", 0), Ans("IpAddress", T("address", 0))),
        Line("WrongType", T("word", 0), Ans("Integer", Num(0))),
        Line("none", T("word", 0), NoSuchObject)}

-----------------------------------------------------------------------------
(* The row of the OID and what requests make of it.                        *)

Row == [mode : Modes, static : Text, walk : Text, config : Config,
        script : Scripts \cup {NoScript}, type : Types]
NewRow == [mode |-> "static", static |-> NoText, walk |-> NoText,
           config |-> NoConfig, script |-> NoScript, type |-> "string"]
NoRow == [NewRow EXCEPT !.mode = "absent"]

Present(r) == IF r = NoRow THEN NewRow ELSE r

\* A request body, shaped like a row.  Each client of the repository sends the
\* field of the mode and leaves the others null.
Body(mode, type) == [NewRow EXCEPT !.mode = mode, !.type = type]
Bodies ==
  {[Body("static", t) EXCEPT !.static = x] : t \in GivenTypes, x \in Given \cup {NoText}}
  \cup {[Body("walk_seed", t) EXCEPT !.walk = x] : t \in GivenTypes, x \in Given \cup {NoText}}
  \cup {[Body("random", t) EXCEPT !.config = c] : t \in GivenTypes, c \in Configs \cup {NoConfig}}
  \cup {[Body("scripted", t) EXCEPT !.script = x] : t \in GivenTypes, x \in Scripts}
  \cup {Body("other", t) : t \in GivenTypes}

\* _apply_fields: a null field leaves the row's; mode and type have defaults.
Applied(r, b) ==
  [b EXCEPT !.static = IF @ = NoText THEN r.static ELSE @,
            !.walk   = IF @ = NoText THEN r.walk ELSE @,
            !.config = IF @ = NoConfig THEN r.config ELSE @,
            !.script = IF @ = NoScript THEN r.script ELSE @]

\* POST bulk-oids writes nulls as well, and has no type to write.
Overwritten(r, b) == [b EXCEPT !.type = r.type]

Walked(r, l) ==
  LET type == TypeOfTag(TagOf(l)) IN
  [r EXCEPT !.mode = "walk_seed", !.type = type, !.walk = Normalised(Kept(l), type)]

\* An entry of the file an export writes: it has no walk_seed_value.
Exported(r) ==
  [Body(r.mode, r.type) EXCEPT
     !.static = IF r.mode \in {"static", "walk_seed"} THEN Or(Or(r.static, r.walk), Empty)
                ELSE NoText,
     !.config = IF r.mode = "random" THEN r.config ELSE @,
     !.script = IF r.mode = "scripted" THEN r.script ELSE @]

\* mutant: the walk value is not taken from static_value
ReimportedBare(e) == e

\* The seed endpoint given such a file: every field is written.
Reimported(e) == [e EXCEPT !.walk = Or(@, e.static)]

-----------------------------------------------------------------------------
(* The payload in Redis, and what the agent makes of it.                   *)

Payload(mode, text, type, r) ==
  [mode |-> mode, text |-> text, type |-> type, config |-> r.config, script |-> r.script]

Pushed(r) ==
  CASE r.mode = "static"    -> Payload("static", Or(r.static, Empty), r.type, r)
    [] r.mode = "walk_seed" -> Payload("walk_seed", Or(r.walk, Empty), r.type, r)
    [] r.mode = "random"    -> Payload("random", Empty, "string", r)
    [] r.mode = "scripted"  -> Payload("scripted", Empty, r.type, r)
    [] OTHER                -> Payload("static", Empty, "string", r)

Numeric == {"integer", "counter", "gauge", "timeticks"}

Coerced(text, type) ==
  CASE type \in Numeric -> Py("int", IF text.shape = "number" THEN text ELSE Num(0))
    [] type = "oid" -> Py("tuple", IF text.shape \in {"dotted", "number", "address"}
                                   THEN text ELSE Num(0))
    [] OTHER -> Py("str", text)

\* The values resolve_oid_value may return for a payload, each with its type.
Resolutions(p) ==
  CASE p.mode \in {"static", "walk_seed"} -> {<<Coerced(p.text, p.type), p.type>>}
    [] p.mode = "random" ->
         IF p.config.lo > p.config.hi THEN {<<Failed, p.config.type>>}
         ELSE {<<Py("int", Num(i)), p.config.type>> : i \in p.config.lo .. p.config.hi}
    [] p.mode = "scripted" ->
         {<<IF v = Failed THEN Py("int", Num(0)) ELSE v, p.type>> :
             v \in IF p.script = NoScript THEN {Py("int", Num(0))} ELSE Yields[p.script]}

\* int(raw_value) if raw_value else 0, in a class of 32 bits without sign.
Unsigned(class, v) ==
  CASE v.text = Empty -> Ans(class, Num(0))
    [] v.text.shape = "number" /\ v.py # "tuple" /\ v.text.n \in 0 .. Max32 -> Ans(class, v.text)
    [] OTHER -> NoSuchObject

\* An OBJECT IDENTIFIER of one arc, or with arcs like an address's, can be
\* built, but encoding the response raises.
Identifier(v) ==
  CASE v.py = "str" /\ v.text.shape \notin {"dotted", "number", "address"} ->
         Ans("OctetString", v.text)
    [] v.text.shape = "dotted" -> Ans("ObjectIdentifier", v.text)
    [] OTHER -> Dropped

Encoded(v, type) ==
  IF v = Failed THEN NoSuchObject ELSE
  CASE type = "counter"   -> Unsigned("Counter32", v)
    [] type = "gauge"     -> Unsigned("Gauge32", v)
    [] type = "timeticks" -> Unsigned("TimeTicks", v)
    [] type = "integer" ->
         IF v.text = Empty THEN Ans("Integer", Num(0))
         ELSE IF v.text.shape = "number" THEN Ans("Integer", v.text) ELSE NoSuchObject
    [] type = "ipaddress" ->
         Ans(IF v.text.shape = "address" THEN "IpAddress" ELSE "OctetString", v.text)
    [] type = "oid" -> Identifier(v)
    [] OTHER -> Ans(IF v.py = "int" THEN "Integer" ELSE "OctetString", v.text)

\* The answers a request for the OID may get.
Answers(r) ==
  IF r = NoRow THEN {NoSuchObject}
  ELSE {Encoded(a[1], a[2]) : a \in Resolutions(Pushed(r))}

-----------------------------------------------------------------------------

VARIABLES
  row,     \* the OID's row; Redis holds Pushed(row), the agent serves it
  file,    \* the last export taken, or "none"
  ways,    \* in which ways the row was written since it was last overwritten
  line,    \* the walk line the row stands for, if it does
  copied,  \* the copy the row is, if it was imported and not written since
  ops      \* requests so far

valueVars == <<row, file, ways, line, copied, ops>>

NoFile == [entry |-> NoRow, answers |-> {}, ways |-> {}, line |-> NoLine]
NoCopy == [how |-> "none", file |-> NoFile, fresh |-> FALSE]

ValuesInit ==
  /\ row = NoRow /\ file = NoFile
  /\ ways = {} /\ line = NoLine /\ copied = NoCopy /\ ops = 0

Request == ops < MaxOps /\ ops' = ops + 1

\* A body in walk_seed mode whose value is in static_value: an exported one.
WaysOf(b) ==
  CASE b.mode = "static" -> {"static"}
    [] b.mode = "walk_seed" -> IF b.static = NoText THEN {"walk"} ELSE {"exported walk"}
    [] OTHER -> {}

\* Only one kind of request wrote the row since it was created or overwritten.
OneWay(f) == f.ways \in {{}, {"static"}, {"walk"}, {"import"}}

\* PUT /devices/{id}/oids/{oid}, or an item of POST .../oids/bulk.
Upsert ==
  \E b \in Bodies :
    /\ Request
    /\ row' = Applied(Present(row), b)
    /\ ways' = ways \cup WaysOf(b)
    /\ line' = NoLine /\ copied' = NoCopy
    /\ UNCHANGED file

\* An exported entry given to POST .../oids/bulk.
BulkImport ==
  /\ Request /\ file # NoFile
  /\ row' = Applied(Present(row), file.entry)
  /\ ways' = ways \cup WaysOf(file.entry)
  /\ line' = NoLine
  /\ copied' = [how |-> "bulk", file |-> file, fresh |-> row = NoRow]
  /\ UNCHANGED file

\* The same file given to POST .../seed.
SeedJson ==
  /\ Request /\ file # NoFile
  /\ row' = Reimported(file.entry)
  /\ ways' = {"import"}
  /\ line' = IF OneWay(file) THEN file.line ELSE NoLine
  /\ copied' = [how |-> "json", file |-> file, fresh |-> row = NoRow]
  /\ UNCHANGED file

\* POST .../seed with a walk: the last of its lines that names the OID.
SeedWalk ==
  \E l \in WalkLines, name \in Names :
    /\ Request /\ Matches(name, l) /\ Resolved(name)
    /\ row' = Walked(Present(row), l)
    /\ ways' = ways \cup {"walk"}
    /\ line' = l /\ copied' = NoCopy
    /\ UNCHANGED file

\* POST /devices/bulk-oids with this device among the devices.
BulkDevices ==
  \E b \in Bodies :
    /\ Request
    /\ row' = Overwritten(Present(row), b)
    /\ ways' = WaysOf(b)
    /\ line' = NoLine /\ copied' = NoCopy
    /\ UNCHANGED file

Delete ==
  /\ Request /\ row # NoRow
  /\ row' = NoRow
  /\ ways' = {} /\ line' = NoLine /\ copied' = NoCopy
  /\ UNCHANGED file

Export ==
  /\ Request /\ row # NoRow
  /\ file' = [entry |-> Exported(row), answers |-> Answers(row), ways |-> ways, line |-> line]
  /\ UNCHANGED <<row, ways, line, copied>>

ValuesNext ==
  Upsert \/ BulkImport \/ SeedJson \/ SeedWalk \/ BulkDevices \/ Delete \/ Export

ValuesSpec == ValuesInit /\ [][ValuesNext]_valueVars

-----------------------------------------------------------------------------

ValuesTypeOK ==
  /\ row \in Row \cup {NoRow}
  /\ file.entry \in Row \cup {NoRow}
  /\ Answers(row) \subseteq Answer
  /\ ops \in 0 .. MaxOps

\* A device seeded from the export of a device answers as that one did when it
\* was exported, though the file has one value for the two columns: unless the
\* OID had been written in several ways, so that the column its mode does not
\* serve still held a value, which the export prefers.  (export_device_oids and
\* the JSON branch of seed_from_walk.)
ReimportFaithful ==
  copied.how = "json" /\ OneWay(copied.file) => Answers(row) = copied.file.answers

\* The line holds the value whole: a number without a name or units, or a text
\* of one line with nothing at its ends that the parser strips.
Plain(l) ==
  CASE l.tag \in {"INTEGER", "Counter32", "Gauge32"} -> l.text.shape = "number"
    [] l.tag = "STRING" -> l.text # Empty /\ l.meant.text.shape \notin {"edged", "lines"}
    [] OTHER -> l.tag \in {"Timeticks", "IpAddress"} \/ l.text = Quotes

\* What net-snmp prints by another class than that of the type it is given.
OtherClass(l) ==
  l.tag \in {"OID", "Counter64", "Opaque"} \cup TagsOfWords \/ l.meant = NoSuchObject

\* What was walked on the real device is what the simulated one answers, also
\* after an export and re-import, where the line holds the value whole; of an
\* enumerated integer, a number with units, an empty, quoted or many-lined
\* string, hexadecimal or BITS the ASN.1 type survives.
WalkReproduced ==
  line # NoLine =>
    /\ Plain(line) => Answers(row) = {line.meant}
    /\ ~OtherClass(line) => \A a \in Answers(row) : a.class = line.meant.class

\* Whatever the walk held, the OID is answered: a value the agent cannot encode
\* would end every walk of a station, and one it cannot send would silence it.
\* Only a number of more than 32 bits is refused.
WalkAnswered ==
  line # NoLine =>
    /\ Dropped \notin Answers(row)
    /\ NoSuchObject \in Answers(row) => line.text.n > Max32

\* An export cloned through the bulk endpoint answers as the original.
\* (oids.py:108-114)
CloneServesOrigin ==
  copied.how = "bulk" /\ copied.fresh /\ OneWay(copied.file) =>
    Answers(row) = copied.file.answers

=============================================================================
