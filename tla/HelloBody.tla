----------------------------- MODULE HelloBody ------------------------------
(***************************************************************************)
(* The hello exchanged when a bridge connection opens: the JSON object the *)
(* host sends, with its process name escaped, and the parser that reads    *)
(* the object of the T1 (crates/t1-bridge/src/hello.rs).                   *)
(*                                                                         *)
(* A body is a sequence of tokens.  A string is one token, of the          *)
(* characters between its quotes; each character is [esc, c]: written as   *)
(* itself ("no"), as a two-character escape ("short") or as one or two     *)
(* four-digit escapes ("u").  A number token is TRUE when its value is at  *)
(* least one, and a token "bad" stands for anything no rule of the grammar *)
(* accepts (a leading zero, an unfinished literal, a control character).   *)
(*                                                                         *)
(* Characters are numbers, and the planes of Unicode are scaled: BmpTop    *)
(* for 2^16, with High and Low the two ranges of surrogates of Half values *)
(* each, so that a supplementary character is two escapes.                 *)
(***************************************************************************)
EXTENDS Naturals, Sequences, FiniteSets, SequencesExt

CONSTANTS
    MaxDepth,      \* MAX_JSON_DEPTH
    MaxKeyLen,     \* MAX_JSON_KEY_LEN, in bytes
    MaxNameLen,    \* MAX_PROCESS_NAME_LEN, in bytes
    MaxBody,       \* MAX_HELLO_BODY_LEN, in tokens and characters of strings
    VersionKey,    \* PROTOCOL_VERSION_KEY, as characters
    Bodies,        \* the bodies tried
    Names          \* the process names tried

VARIABLES
    task,      \* "parse" or "name"
    input,     \* the body, or the process name
    outcome    \* "none", or what parse_hello or encode_hello gave


vars == <<task, input, outcome>>

-----------------------------------------------------------------------------
(* Characters. *)

NulChar == 0          \* a control character with no short escape
NewLine == 1          \* one with a short escape
Quote == 2
Backslash == 3
Accented == 6 .. 7    \* beyond ASCII, in the basic plane
Half == 2
HighStart == 8        \* 0xd800
LowStart == 10        \* 0xdc00
BmpTop == 12          \* 2^16
CharTop == BmpTop + Half * Half
Chars == (0 .. 7) \cup (BmpTop .. CharTop - 1)

Utf8Len(c) == IF c < 6 THEN 1 ELSE IF c < BmpTop THEN 2 ELSE 4
Utf8Size(s) == FoldLeft(LAMBDA n, c : n + Utf8Len(c), 0, s)

Plain(c) == [esc |-> "no", c |-> c]
Short(c) == [esc |-> "short", c |-> c]
U(v) == [esc |-> "u", c |-> v]

\* escape_json_string for one character, append_unicode_escape included.
Escape(c) ==
    CASE c \in {Quote, Backslash, NewLine} -> <<Short(c)>>
      [] c \in {NulChar} \cup Accented -> <<U(c)>>
      [] c >= BmpTop -> <<U(HighStart + ((c - BmpTop) \div Half)), U(LowStart + ((c - BmpTop) % Half))>>
      [] OTHER -> <<Plain(c)>>

EscapeString(s) == FoldLeft(LAMBDA out, c : out \o Escape(c), <<>>, s)

\* A string token, a number, a punctuation mark or a literal.
Str(s) == [t |-> "str", s |-> s, atLeastOne |-> FALSE]
Num(b) == [t |-> "num", s |-> <<>>, atLeastOne |-> b]
Tok(x) == [t |-> x, s |-> <<>>, atLeastOne |-> FALSE]

\* encode_hello.
EncodeHello(name) ==
    IF name = <<>> \/ Utf8Size(name) > MaxNameLen
    THEN <<>>
    ELSE << Tok("{"), Str(<<Plain(4), Plain(4)>>), Tok(":"), Str(<<Plain(5)>>), Tok(","),
            Str(<<Plain(5)>>), Tok(":"), Num(TRUE), Tok(","),
            Str(<<Plain(5), Plain(4)>>), Tok(":"), Str(EscapeString(name)), Tok(","),
            Str([i \in DOMAIN VersionKey |-> Plain(VersionKey[i])]), Tok(":"), Num(TRUE), Tok("}") >>

-----------------------------------------------------------------------------
(* The parser.  A parse is [ok, pos, error]; a string's also the decoded   *)
(* characters.                                                             *)

Good(p) == [ok |-> TRUE, pos |-> p, error |-> ""]
Bad(e) == [ok |-> FALSE, pos |-> 0, error |-> e]

\* peek, and expect.
At(b, p) == IF p \in DOMAIN b THEN b[p].t ELSE "end"

\* skip_whitespace: runs of white space are single "ws" tokens.
RECURSIVE Skip(_, _)
Skip(b, p) == IF At(b, p) = "ws" THEN Skip(b, p + 1) ELSE p

IsHigh(v) == v \in HighStart .. HighStart + Half - 1
IsLow(v) == v \in LowStart .. LowStart + Half - 1

\* parse_unicode_escape: <<characters used, character>>, or <<0, 0>> for a
\* surrogate without its other half.
UnicodeEscape(s, i) ==
    CASE IsHigh(s[i].c) /\ i < Len(s) /\ s[i + 1].esc = "u" /\ IsLow(s[i + 1].c) ->
            <<2, BmpTop + (s[i].c - HighStart) * Half + (s[i + 1].c - LowStart)>>
      [] ~IsHigh(s[i].c) /\ ~IsLow(s[i].c) -> <<1, s[i].c>>
      [] OTHER -> <<0, 0>>

\* parse_string from the i-th character on; keep says whether the characters
\* are collected, as they are for the keys of the outer object.
RECURSIVE ReadChars(_, _, _, _)
ReadChars(s, i, keep, out) ==
    IF i > Len(s) THEN [ok |-> TRUE, text |-> out, error |-> ""]
    ELSE LET got == IF s[i].esc = "u" THEN UnicodeEscape(s, i) ELSE <<1, s[i].c>>
         IN CASE got[1] = 0 \/ (s[i].esc = "no" /\ s[i].c \in {NulChar, NewLine}) ->
                    [ok |-> FALSE, text |-> <<>>, error |-> "MalformedJson"]
              [] got[1] # 0 /\ keep /\ Utf8Size(out) + Utf8Len(got[2]) > MaxKeyLen ->
                    [ok |-> FALSE, text |-> <<>>, error |-> "JsonKeyTooLong"]
              [] OTHER -> ReadChars(s, i + got[1], keep, IF keep THEN Append(out, got[2]) ELSE out)

ParseString(b, p, keep) ==
    IF At(b, p) # "str" THEN [ok |-> FALSE, text |-> <<>>, error |-> "MalformedJson"]
    ELSE ReadChars(b[p].s, 1, keep, <<>>)

-----------------------------------------------------------------------------
RECURSIVE ParseValue(_, _, _), ParseMembers(_, _, _), ParseItems(_, _, _)

\* parse_value.
ParseValue(b, p, depth) ==
    IF depth > MaxDepth THEN Bad("NestingTooDeep")
    ELSE CASE At(b, p) = "str" ->
                LET s == ParseString(b, p, FALSE) IN IF s.ok THEN Good(p + 1) ELSE Bad(s.error)
           [] At(b, p) = "{" ->
                IF At(b, Skip(b, p + 1)) = "}" THEN Good(Skip(b, p + 1) + 1)
                ELSE ParseMembers(b, Skip(b, p + 1), depth)
           [] At(b, p) = "[" ->
                IF At(b, Skip(b, p + 1)) = "]" THEN Good(Skip(b, p + 1) + 1)
                ELSE ParseItems(b, Skip(b, p + 1), depth)
           [] At(b, p) \in {"lit", "num"} -> Good(p + 1)
           [] OTHER -> Bad("MalformedJson")

\* The loop of parse_object.
ParseMembers(b, p, depth) ==
    LET key == ParseString(b, p, FALSE)
        colon == Skip(b, p + 1)
        value == ParseValue(b, Skip(b, colon + 1), depth + 1)
        after == Skip(b, value.pos)
    IN CASE ~key.ok -> Bad(key.error)
         [] key.ok /\ At(b, colon) # ":" -> Bad("MalformedJson")
         [] key.ok /\ At(b, colon) = ":" /\ ~value.ok -> value
         [] OTHER -> CASE At(b, after) = "}" -> Good(after + 1)
                       [] At(b, after) = "," -> ParseMembers(b, Skip(b, after + 1), depth)
                       [] OTHER -> Bad("MalformedJson")

\* The loop of parse_array.
ParseItems(b, p, depth) ==
    LET value == ParseValue(b, p, depth + 1)
        after == Skip(b, value.pos)
    IN IF ~value.ok THEN value
       ELSE CASE At(b, after) = "]" -> Good(after + 1)
              [] At(b, after) = "," -> ParseItems(b, Skip(b, after + 1), depth)
              [] OTHER -> Bad("MalformedJson")

-----------------------------------------------------------------------------
\* parse_protocol_version: the parse, and whether the value is a number of
\* at least one.
ParseProtocolVersion(b, p) ==
    [parse |-> IF At(b, p) = "num" THEN Good(p + 1) ELSE ParseValue(b, p, 1),
     supported |-> At(b, p) = "num" /\ b[p].atLeastOne]

\* finish: the position is the end of the body, but for white space.
Finished(b, p) == Skip(b, p) = Len(b) + 1

Verdict(version) ==
    CASE version = "none" -> "MissingProtocolVersion"
      [] version = "low" -> "UnsupportedProtocolVersion"
      [] version = "supported" -> "ok"

RECURSIVE HelloMembers(_, _, _)

\* The loop of parse_hello over the members of the outer object.
HelloMembers(b, p, version) ==
    LET key == ParseString(b, p, TRUE)
        colon == Skip(b, p + 1)
        start == Skip(b, colon + 1)
        isVersion == key.text = VersionKey
        read == ParseProtocolVersion(b, start)
        value == IF isVersion THEN read.parse ELSE ParseValue(b, start, 1)
        now == IF ~isVersion THEN version ELSE IF read.supported THEN "supported" ELSE "low"
        after == Skip(b, value.pos)
    IN CASE ~key.ok -> key.error
         [] key.ok /\ At(b, colon) # ":" -> "MalformedJson"
         [] key.ok /\ At(b, colon) = ":" /\ isVersion /\ version # "none" -> "DuplicateProtocolVersion"
         [] OTHER ->
              CASE ~value.ok -> value.error
                [] value.ok /\ At(b, after) = "}" -> IF Finished(b, after + 1) THEN Verdict(now) ELSE "MalformedJson"
                [] value.ok /\ At(b, after) = "," -> HelloMembers(b, Skip(b, after + 1), now)
                [] OTHER -> "MalformedJson"

\* validate_peer_hello and parse_hello.
ParseHello(b) ==
    LET open == Skip(b, 1)
        first == Skip(b, open + 1)
    IN IF At(b, open) # "{" THEN "MalformedJson"
       ELSE IF At(b, first) = "}"
            THEN IF Finished(b, first + 1) THEN Verdict("none") ELSE "MalformedJson"
            ELSE HelloMembers(b, first, "none")

\* validate_peer_hello.
BodySize(b) == FoldLeft(LAMBDA n, t : n + 1 + Len(t.s), 0, b)
ValidatePeerHello(b) == IF BodySize(b) > MaxBody THEN "BodyTooLarge" ELSE ParseHello(b)

-----------------------------------------------------------------------------
(* A reference reading: which token sequences are values, by the grammar   *)
(* alone, and which are hellos.                                            *)

\* The text of a string token: surrogates only in pairs, no bare control.
RECURSIVE Meaning(_)
Meaning(s) ==
    IF s = <<>> THEN {<<>>}
    ELSE LET one == IF s[1].esc # "no" \/ s[1].c \notin {NulChar, NewLine}
                    THEN IF s[1].esc = "u" /\ s[1].c \in HighStart .. BmpTop - 1 THEN {} ELSE {s[1].c}
                    ELSE {}
             two == IF Len(s) > 1 /\ s[1].esc = "u" /\ s[2].esc = "u"
                    THEN {BmpTop + Half * h + l : h \in {x \in 0 .. Half - 1 : s[1].c = HighStart + x},
                                               l \in {x \in 0 .. Half - 1 : s[2].c = LowStart + x}} ELSE {}
         IN {<<c>> \o rest : c \in one, rest \in Meaning(Tail(s))}
            \cup (IF Len(s) > 1 THEN {<<c>> \o rest : c \in two, rest \in Meaning(SubSeq(s, 3, Len(s)))} ELSE {})

Sub(b, i, j) == SubSeq(b, i, j)

\* The body without its white space.
Bare(b) == SelectSeq(b, LAMBDA t : t.t # "ws")

\* IsValue(b, d): b, without white space, is one value whose containers nest at
\* most d deep.
RECURSIVE IsValue(_, _), IsList(_, _, _)

IsValue(b, d) ==
    /\ d > 0
    /\ b # <<>>
    /\ \/ Len(b) = 1 /\ b[1].t \in {"num", "lit"}
       \/ Len(b) = 1 /\ b[1].t = "str" /\ Meaning(b[1].s) # {}
       \/ Len(b) > 1 /\ b[1].t = "[" /\ b[Len(b)].t = "]" /\ IsList(Sub(b, 2, Len(b) - 1), FALSE, d - 1)
       \/ Len(b) > 1 /\ b[1].t = "{" /\ b[Len(b)].t = "}" /\ IsList(Sub(b, 2, Len(b) - 1), TRUE, d - 1)

IsItem(b, members, d) ==
    IF members
    THEN /\ Len(b) > 2
         /\ b[1].t = "str" /\ Meaning(b[1].s) # {} /\ b[2].t = ":"
         /\ IsValue(Sub(b, 3, Len(b)), d)
    ELSE IsValue(b, d)

\* A list of items separated by commas, possibly empty.
IsList(b, members, d) ==
    \/ b = <<>>
    \/ IsItem(b, members, d)
    \/ \E i \in DOMAIN b : /\ b[i].t = "," /\ i < Len(b)
                           /\ IsItem(Sub(b, 1, i - 1), members, d)
                           /\ IsList(Sub(b, i + 1, Len(b)), members, d)

\* How deep the brackets are before token i.
Level(b, i) == Cardinality({j \in 1 .. i - 1 : b[j].t \in {"{", "["}})
               - Cardinality({j \in 1 .. i - 1 : b[j].t \in {"}", "]"}})

\* The tokens that are keys of the outer object.
OuterKeys(b) == {i \in DOMAIN b : b[i].t = "str" /\ Level(b, i) = 1 /\ i < Len(b) /\ b[i + 1].t = ":"}

-----------------------------------------------------------------------------
Init ==
    /\ outcome = "none"
    /\ \/ task = "parse" /\ input \in Bodies
       \/ task = "name" /\ input \in Names

Answer ==
    /\ outcome = "none"
    /\ outcome' = CASE task = "parse" -> ValidatePeerHello(input)
                    [] task = "name" -> IF EncodeHello(input) = <<>> THEN "InvalidProcessName"
                                        ELSE ValidatePeerHello(EncodeHello(input))
    /\ UNCHANGED <<task, input>>

Next == Answer

Spec == Init /\ [][Next]_vars

-----------------------------------------------------------------------------
(* Properties. *)

\* validate_peer_hello accepts exactly the JSON objects of bounded size, white
\* space aside, whose members have readable keys of bounded length and values
\* within the nesting limit, and among whose keys the protocol version, however
\* its characters are escaped, appears once with a number of at least one:
\* nothing after the object, no second version, none hidden in a nested object.
AcceptedIsHello ==
    (task = "parse" /\ outcome # "none") =>
        LET b == Bare(input)
            keys == OuterKeys(b)
            named == {i \in keys : VersionKey \in Meaning(b[i].s)}
        IN (outcome = "ok") <=>
              /\ BodySize(input) <= MaxBody
              /\ IsValue(b, MaxDepth + 1) /\ b[1].t = "{"
              /\ \A i \in keys : \A m \in Meaning(b[i].s) : Utf8Size(m) <= MaxKeyLen
              /\ Cardinality(named) = 1
              /\ \A i \in named : b[i + 2].t = "num" /\ b[i + 2].atLeastOne

\* encode_hello and validate_peer_hello agree: every process name within the
\* length limit gives a body the parser accepts, and the escapes written for
\* it, surrogate pairs included, read back as the same characters.
NameSurvives ==
    (task = "name" /\ outcome # "none") =>
        IF input = <<>> \/ Utf8Size(input) > MaxNameLen
        THEN outcome = "InvalidProcessName"
        ELSE /\ outcome = "ok"
             /\ ReadChars(EscapeString(input), 1, TRUE, <<>>).text = input
=============================================================================
