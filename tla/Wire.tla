-------------------------------- MODULE Wire --------------------------------
(***************************************************************************)
(* The request line, from the value a Python caller gives to the value a C *)
(* function gets: python/riglink/_wire.py encodes, src/riglink_proto.c     *)
(* assembles the line, cuts it into tokens and parses them,                *)
(* include/riglink_pp.h checks the widths.  Operators only; Pump gives     *)
(* them a state.                                                           *)
(*                                                                         *)
(* Text is a sequence of characters.  The words "true" and "false" are     *)
(* characters of their own: nothing looks inside them.  Integers have      *)
(* Wide bits where the code has 64 and Narrow bits where it has 8, 16 or   *)
(* 32.  Floating point is left to strtod and repr.                         *)
(***************************************************************************)
EXTENDS Integers, SequencesExt, FiniteSetsExt

CONSTANTS LineBuf,   \* RIG_LINE_BUF_SIZE
          MaxArgs,   \* RIG_MAX_ARGS
          StrArg,    \* RIG_STR_ARG_SIZE
          Wide,      \* bits of int64_t and uint64_t
          Narrow     \* bits of the smaller integer types

ASSUME WireAssumption ==
  /\ {LineBuf, StrArg, Narrow} \subseteq Nat \ {0}
  /\ MaxArgs \in Nat
  /\ Wide \in Nat /\ Wide > Narrow

\* Two to the n.
Power[n \in Nat] == IF n = 0 THEN 1 ELSE 2 * Power[n-1]

Quote == "\""
Backslash == "\\"
Blank == {" ", "\t"}
Spaces == Blank \cup {"\n", "\r"}
Control == {"\t", "\n", "\r"}
Digits == <<"0", "1", "2", "3", "4", "5", "6", "7", "8", "9",
            "a", "b", "c", "d", "e", "f">>
Capitals == <<"0", "1", "2", "3", "4", "5", "6", "7", "8", "9",
              "A", "B", "C", "D", "E", "F">>
None == <<"NULL">>       \* no name, printed as "?"; no line has this character

-----------------------------------------------------------------------------
(* The host.  A value is a pair of its type and its contents.              *)

Integer(n)  == <<"int", n>>
Text(s)  == <<"str", s>>
Truth(b) == <<"bool", b>>

IsValue(v) == \/ v = Integer(v[2]) /\ v[2] \in Int
              \/ v = Truth(v[2]) /\ v[2] \in BOOLEAN
              \/ v = Text(v[2]) /\ v[2] \in Seq(STRING)

\* A name of a command is one word.
IsName(name) == /\ name \in Seq(STRING) /\ name # <<>>
                /\ \A i \in DOMAIN name : name[i] \notin Spaces
                /\ name[1] \notin {"#", Quote}

Decimal[n \in Nat] == IF n < 10 THEN <<Digits[n + 1]>>
                      ELSE Append(Decimal[n \div 10], Digits[(n % 10) + 1])

NeedsQuoting(s) == \/ s = <<>>
                   \/ s[1] = "#"
                   \/ \E i \in DOMAIN s : s[i] \in Spaces \cup {Quote}

\* str.replace(c, Backslash + c)
Prefixed(s, c) ==
  LET done[i \in 0..Len(s)] ==
        IF i = 0 THEN <<>> ELSE done[i-1] \o (IF s[i] = c THEN <<Backslash, c>> ELSE <<s[i]>>)
  IN  done[Len(s)]

\* Fault: the quotes are escaped first, and their backslashes then again.
EscapedQuotesFirst(s) == Prefixed(Prefixed(s, Quote), Backslash)

Escaped(s) == Prefixed(Prefixed(s, Backslash), Quote)

\* A string with a control character has no encoding: encode_token() raises.
Encodable(v) == v[1] = "str" => \A i \in DOMAIN v[2] : v[2][i] \notin Control

EncodeToken(v) ==
  CASE v[1] = "bool" -> IF v[2] THEN <<"true">> ELSE <<"false">>
    [] v[1] = "int" -> IF v[2] < 0 THEN <<"-">> \o Decimal[-v[2]] ELSE Decimal[v[2]]
    [] v[1] = "str" -> IF NeedsQuoting(v[2]) THEN <<Quote>> \o Escaped(v[2]) \o <<Quote>>
                       ELSE v[2]

\* The name and the arguments, blanks between them.
Written(name, args) ==
  LET written[i \in 0..Len(args)] ==
        IF i = 0 THEN name ELSE Append(written[i-1], " ") \o EncodeToken(args[i])
  IN  written[Len(args)]

EncodeCall(name, args) == Append(Written(name, args), "\n")

-----------------------------------------------------------------------------
(* The device: line assembly.                                              *)

EmptyLine == [buf |-> <<>>, overflow |-> FALSE]

\* Fault: the buffer is filled to its last byte, where the NUL goes.
FeedOneOff(l, c) ==
  IF c \in {"\n", "\r"} THEN l
  ELSE IF Len(l.buf) < LineBuf THEN [l EXCEPT !.buf = Append(@, c)]
  ELSE [l EXCEPT !.overflow = TRUE]

\* Fault: a line that does not fit is cut, and nobody is told.
FeedOneCuts(l, c) ==
  IF c \notin {"\n", "\r"} /\ Len(l.buf) < LineBuf - 1 THEN [l EXCEPT !.buf = Append(@, c)] ELSE l

\* rig_line_feed() of a byte: of a line that is too long, the rest is eaten.
FeedOne(l, c) ==
  IF c \in {"\n", "\r"} THEN l
  ELSE IF Len(l.buf) < LineBuf - 1 THEN [l EXCEPT !.buf = Append(@, c)]
  ELSE [l EXCEPT !.overflow = TRUE]

\* The bytes of a call, none before the last of which ends the line.
Feed(l, bytes) ==
  LET fed[i \in 0..Len(bytes)] == IF i = 0 THEN l ELSE FeedOne(fed[i-1], bytes[i])
  IN  fed[Len(bytes)]

-----------------------------------------------------------------------------
(* The device: the tokenizer.  slots is argv so far, the token being read  *)
(* at its end; mode says what the next character means.                    *)

\* A character that begins a token (or the comment, or one token too many).
BeginToken(t, c) ==
  IF t.slots = <<>> /\ c = "#" THEN [t EXCEPT !.mode = "comment"]
  ELSE IF Len(t.slots) > MaxArgs THEN [t EXCEPT !.mode = "many"]
  ELSE IF c = Quote THEN [slots |-> Append(t.slots, <<>>), mode |-> "quoted"]
  ELSE [slots |-> Append(t.slots, <<c>>), mode |-> "bare"]

Extend(t, s, mode) == [slots |-> [t.slots EXCEPT ![Len(t.slots)] = @ \o s], mode |-> mode]

Scan(t, c) ==
  CASE t.mode = "gap"    -> IF c \in Blank THEN t ELSE BeginToken(t, c)
    [] t.mode = "bare"   -> IF c \in Blank THEN [t EXCEPT !.mode = "gap"] ELSE Extend(t, <<c>>, "bare")
    [] t.mode = "quoted" -> IF c = Quote THEN [t EXCEPT !.mode = "closed"]
                            ELSE IF c = Backslash THEN [t EXCEPT !.mode = "escape"]
                            ELSE Extend(t, <<c>>, "quoted")
    [] t.mode = "escape" -> Extend(t, IF c \in {Quote, Backslash} THEN <<c>> ELSE <<Backslash, c>>, "quoted")
    [] t.mode = "closed" -> [t EXCEPT !.mode = IF c \in Blank THEN "gap" ELSE "garbage"]
    [] OTHER -> t        \* comment, many, garbage: the function has returned

\* The state after a line.
Scanned(line) ==
  LET scan[i \in 0..Len(line)] ==
        IF i = 0 THEN [slots |-> <<>>, mode |-> "gap"] ELSE Scan(scan[i-1], line[i])
  IN  scan[Len(line)]

\* Fault: the name is set although the malformed token is the name itself.
TokenizeNamesBadToken(line) ==
  LET t  == Scanned(line)
      ok == t.mode \notin {"many", "garbage", "quoted", "escape"}
  IN  [ok   |-> ok,
       name |-> IF t.slots # <<>> /\ t.mode # "many" THEN t.slots[1] ELSE None,
       args |-> IF ok /\ t.slots # <<>> THEN Tail(t.slots) ELSE <<>>]

\* What rig_tokenize() leaves: whether the line is well formed, name and arguments.
\* An error keeps the name only when a whole token came before the bad one.
Tokenize(line) ==
  LET t     == Scanned(line)
      ok    == t.mode \notin {"many", "garbage", "quoted", "escape"}
      named == IF ok THEN t.slots # <<>> ELSE t.mode # "many" /\ Len(t.slots) > 1
  IN  [ok   |-> ok,
       name |-> IF named THEN t.slots[1] ELSE None,
       args |-> IF ok /\ named THEN Tail(t.slots) ELSE <<>>]

-----------------------------------------------------------------------------
(* The device: parsing.  Each operator gives the set of values accepted,   *)
(* which is empty when the token is refused.                               *)

\* The leading characters of chars skipped.
Without(s, chars) == LET others == {i \in DOMAIN s : s[i] \notin chars}
                     IN  IF others = {} THEN <<>> ELSE SubSeq(s, Min(others), Len(s))

\* What a character counts as a digit.
Weight(c) == {d \in 0..15 : c \in {Digits[d + 1], Capitals[d + 1]}}

\* The number that digits of a base write.
Size(base, digits) ==
  LET upto[i \in 0..Len(digits)] ==
        IF i = 0 THEN 0 ELSE base * upto[i-1] + (CHOOSE d \in Weight(digits[i]) : TRUE)
  IN  upto[Len(digits)]

Base(s) == CASE Len(s) > 2 /\ s[1] = "0" /\ s[2] \in {"x", "X"} -> 16
             [] s # <<>> /\ s[1] = "0" -> 8
             [] OTHER -> 10

\* The number that follows a sign, if it is one.
Unsigned(s) ==
  LET digits == IF Base(s) = 16 THEN SubSeq(s, 3, Len(s)) ELSE s
      good   == digits # <<>> /\ \A i \in DOMAIN digits : Weight(digits[i]) \cap 0..(Base(s) - 1) # {}
  IN  IF good THEN {Size(Base(s), digits)} ELSE {}

\* strtol with base 0: spaces, a sign, 0x or 0 or a decimal; the whole token.
Number(tok) ==
  LET body   == Without(tok, Spaces)
      signed == body # <<>> /\ body[1] \in {"-", "+"}
  IN  {[negative |-> signed /\ body[1] = "-", size |-> n] : n \in Unsigned(IF signed THEN Tail(body) ELSE body)}

\* rig_parse_i64
ParseSigned(tok) ==
  {v \in {IF n.negative THEN -n.size ELSE n.size : n \in Number(tok)} :
     v \in -(Power[Wide-1]) .. (Power[Wide-1] - 1)}

\* Fault: strtoull() is trusted with the sign.
ParseUnsignedWraps(tok) ==
  {IF n.negative THEN (Power[Wide] - n.size) % Power[Wide] ELSE n.size :
     n \in {m \in Number(tok) : m.size < Power[Wide]}}

\* rig_parse_u64: a minus after blanks (not after other spaces) is refused, strtoull wraps the rest.
ParseUnsigned(tok) ==
  LET body == Without(tok, {" "})
  IN  IF body # <<>> /\ body[1] = "-" THEN {}
      ELSE {IF n.negative THEN (Power[Wide] - n.size) % Power[Wide] ELSE n.size :
              n \in {m \in Number(tok) : m.size < Power[Wide]}}

\* The ranges of the types.
InRange(type, v) ==
  CASE type \in {"uint64_t", "int64_t"} -> TRUE
    [] type = "uint8_t" -> v < Power[Narrow]
    [] type = "int8_t"  -> v \in -(Power[Narrow-1]) .. (Power[Narrow-1] - 1)

\* rig_parse_<type>_ : the values accepted for a parameter of the type.
Parse(type, tok) ==
  CASE type = "bool" -> IF tok \in {<<"true">>, <<"false">>} THEN {Truth(tok = <<"true">>)} ELSE {}
    [] type = "str"  -> {Text(IF Len(tok) >= StrArg THEN SubSeq(tok, 1, StrArg - 1) ELSE tok)}
    [] type \in {"uint8_t", "uint64_t"} -> {Integer(v) : v \in {u \in ParseUnsigned(tok) : InRange(type, u)}}
    [] OTHER -> {Integer(v) : v \in {i \in ParseSigned(tok) : InRange(type, i)}}
=============================================================================
