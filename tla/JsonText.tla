------------------------------- MODULE JsonText -------------------------------
(***************************************************************************)
(* The texts of the API: how api/mod.rs escapes strings and cuts a stream  *)
(* of bytes into server-sent events, and what api/json.rs reads.  A text   *)
(* is a sequence of characters; the ones below stand for the classes that  *)
(* the code tells apart.  These are pure functions: the state is a text,   *)
(* every text up to a length is reached, and the properties say what the   *)
(* functions return on it.                                                 *)
(***************************************************************************)
EXTENDS Naturals, Sequences, SequencesExt

CONSTANTS
  MaxString,    \* bound: characters of a string
  MaxDocument,  \* bound: tokens of a JSON document
  MaxNumber,    \* bound: characters of a number
  MaxStream     \* bound: bytes of a stream

ASSUME JsonTextAssumption == {MaxString, MaxDocument, MaxNumber, MaxStream} \subseteq Nat

VARIABLES
  kind,     \* what the text is: "none", "string", "document", "number", "stream"
  sample    \* the text

texts == <<kind, sample>>

-----------------------------------------------------------------------------
(* Plausible mistakes in the code, each the body of one definition.        *)

Received_Chunk(r, chunk) == chunk
-----------------------------------------------------------------------------
(* escape_json(), Parser::parse_string(), unescape_json().                 *)

\* A quote, a backslash, a line feed, a control character without a short
\* escape, a character that no rule names, and the letters and digits that
\* occur in escapes.
Char == {"quote", "backslash", "LF", "ctrl1", "other", "n", "u", "0", "1"}

EscapeChar(c) ==
  CASE c = "quote"     -> <<"backslash", "quote">>
    [] c = "backslash" -> <<"backslash", "backslash">>
    [] c = "LF"        -> <<"backslash", "n">>
    [] c = "ctrl1"     -> <<"backslash", "u", "0", "0", "0", "1">>
    [] OTHER           -> <<c>>

EscapeJson(s) == FlattenSeq([i \in 1 .. Len(s) |-> EscapeChar(s[i])])

Failure == [ok |-> FALSE, str |-> <<>>, next |-> 0]
IsHex4(t, i) == i + 3 <= Len(t) /\ \A k \in i .. i + 3 : t[k] \in {"0", "1"}

\* The character of four hex digits; of the codes, 1 is a character above.
FromHex(t, i) == IF SubSeq(t, i, i + 3) = <<"0", "0", "0", "1">> THEN "ctrl1" ELSE "other"

\* parse_string() from i on, after the quote, with s read so far.
RECURSIVE ParseString(_, _, _)
ParseString(t, i, s) ==
  IF i > Len(t) THEN Failure
  ELSE CASE t[i] = "quote" -> [ok |-> TRUE, str |-> s, next |-> i + 1]
         [] t[i] # "quote" /\ t[i] # "backslash" -> ParseString(t, i + 1, Append(s, t[i]))
         [] t[i] = "backslash" ->
              IF i = Len(t) THEN Failure
              ELSE CASE t[i + 1] \in {"quote", "backslash"} -> ParseString(t, i + 2, Append(s, t[i + 1]))
                     [] t[i + 1] = "n" -> ParseString(t, i + 2, Append(s, "LF"))
                     [] t[i + 1] = "u" ->
                          IF IsHex4(t, i + 2) THEN ParseString(t, i + 6, Append(s, FromHex(t, i + 2)))
                                              ELSE Failure
                     [] OTHER -> Failure

\* extract_content_delta_legacy(): the text up to the first quote that does
\* not follow a backslash, unescaped.  An escape it does not know is kept.
LegacyEnd(t) ==
  LET ends == {i \in 1 .. Len(t) : t[i] = "quote" /\ (i = 1 \/ t[i - 1] # "backslash")}
  IN IF ends = {} THEN Len(t) ELSE (CHOOSE i \in ends : \A j \in ends : i <= j) - 1

RECURSIVE UnescapeJson(_, _)
UnescapeJson(t, i) ==
  IF i > Len(t) THEN <<>>
  ELSE CASE t[i] # "backslash" -> <<t[i]>> \o UnescapeJson(t, i + 1)
         [] t[i] = "backslash" ->
              IF i = Len(t) THEN <<"backslash">>
              ELSE CASE t[i + 1] \in {"quote", "backslash"} -> <<t[i + 1]>> \o UnescapeJson(t, i + 2)
                     [] t[i + 1] = "n" -> <<"LF">> \o UnescapeJson(t, i + 2)
                     [] t[i + 1] = "u" ->
                          <<IF i + 5 <= Len(t) THEN FromHex(t, i + 2) ELSE "other">>
                            \o UnescapeJson(t, i + 6)
                     [] OTHER -> <<"backslash", t[i + 1]>> \o UnescapeJson(t, i + 2)

Legacy(t) == UnescapeJson(SubSeq(t, 1, LegacyEnd(t)), 1)

-----------------------------------------------------------------------------
(* Parser: documents of tokens; "s" is a string, "v" any other scalar.     *)

Mark == {"{", "}", "[", "]", ",", ":", "s", "v"}
At(t, i, m) == i <= Len(t) /\ t[i] = m

\* parse_value(), parse_array() and parse_object(): the place after the value
\* that begins at i, 0 if there is none.
RECURSIVE ParseValue(_, _), ParseItems(_, _, _)

ParseItem(close, t, i) ==
  IF close = "]" THEN ParseValue(t, i)
  ELSE IF At(t, i, "s") /\ At(t, i + 1, ":") THEN ParseValue(t, i + 2) ELSE 0

ParseItems(close, t, i) ==
  LET j == ParseItem(close, t, i)
  IN CASE j # 0 /\ At(t, j, close) -> j + 1
       [] j # 0 /\ At(t, j, ",") -> ParseItems(close, t, j + 1)
       [] OTHER -> 0

ParseValue(t, i) ==
  CASE At(t, i, "s") \/ At(t, i, "v") -> i + 1
    [] At(t, i, "[") -> IF At(t, i + 1, "]") THEN i + 2 ELSE ParseItems("]", t, i + 1)
    [] At(t, i, "{") -> IF At(t, i + 1, "}") THEN i + 2 ELSE ParseItems("}", t, i + 1)
    [] OTHER -> 0

\* parse(): one value and nothing after it.
Parse(t) == ParseValue(t, 1) = Len(t) + 1

-----------------------------------------------------------------------------
(* Parser::parse_number().                                                 *)

Digit == {"0", "1"}
NumberChar == Digit \cup {"-", ".", "e"}

RECURSIVE SkipDigits(_, _)
SkipDigits(t, i) == IF i <= Len(t) /\ t[i] \in Digit THEN SkipDigits(t, i + 1) ELSE i

\* At least one digit; the place after them, 0 if there is none.
SomeDigits(t, i) == IF i <= Len(t) /\ t[i] \in Digit THEN SkipDigits(t, i) ELSE 0
SkipSign(t, i) == IF At(t, i, "-") THEN i + 1 ELSE i

IntegerPart(t, i) == IF At(t, i, "0") THEN i + 1 ELSE SomeDigits(t, i)
FractionPart(t, i) == IF i > 0 /\ At(t, i, ".") THEN SomeDigits(t, i + 1) ELSE i
ExponentPart(t, i) == IF i > 0 /\ At(t, i, "e") THEN SomeDigits(t, SkipSign(t, i + 1)) ELSE i

ParseNumber(t) ==
  ExponentPart(t, FractionPart(t, IntegerPart(t, SkipSign(t, 1)))) = Len(t) + 1

-----------------------------------------------------------------------------
(* The header and the events of a response: HttpResponse::parse(),         *)
(* find_sse_event_end() and the read loop around them.                     *)

Byte == {"CR", "LF", "x"}

HeaderEnd(buf) ==
  {i \in 1 .. Len(buf) - 3 : SubSeq(buf, i, i + 3) = <<"CR", "LF", "CR", "LF">>}
EventEnd(buf) == {i \in 2 .. Len(buf) : buf[i - 1] = "LF" /\ buf[i] = "LF"}
First(S) == CHOOSE i \in S : \A j \in S : i <= j
From(buf, i) == SubSeq(buf, i, Len(buf))

NoStream == [headers |-> FALSE, buf |-> <<>>, events |-> <<>>]

RECURSIVE Cut(_)
Cut(r) ==
  IF EventEnd(r.buf) = {} THEN r
  ELSE LET e == First(EventEnd(r.buf))
       IN Cut([r EXCEPT !.buf = From(r.buf, e + 1), !.events = Append(@, SubSeq(r.buf, 1, e))])

\* raw_buf when a chunk of bytes has been read.
Received(r, chunk) == r.buf \o chunk

\* The reader after one more chunk of bytes.
Feed(r, chunk) ==
  LET all == Received(r, chunk)
      got == IF r.headers \/ HeaderEnd(all) = {} THEN [r EXCEPT !.buf = all]
             ELSE [r EXCEPT !.headers = TRUE, !.buf = From(all, First(HeaderEnd(all)) + 4)]
  IN IF got.headers THEN Cut(got) ELSE got

-----------------------------------------------------------------------------
(* Every text of every kind.                                               *)

Alphabet == [none |-> {}, string |-> Char, document |-> Mark, number |-> NumberChar,
             stream |-> Byte]
Longest == [none |-> 0, string |-> MaxString, document |-> MaxDocument,
            number |-> MaxNumber, stream |-> MaxStream]

TextInit == kind = "none" /\ sample = <<>>

Choose(k) == kind = "none" /\ kind' = k /\ sample' = <<>>

Grow ==
  /\ Len(sample) < Longest[kind]
  /\ \E c \in Alphabet[kind] : sample' = Append(sample, c)
  /\ UNCHANGED kind

TextNext == Grow \/ \E k \in DOMAIN Alphabet \ {"none"} : Choose(k)

-----------------------------------------------------------------------------
(* Properties.                                                             *)

\* A string that the client writes is read back unchanged by each of the two
\* readers (the fallback one errs on a text that ends in a backslash), and a
\* string that was cut off anywhere is no string.
StringsSurvive ==
  kind = "string" =>
    LET t == Append(EscapeJson(sample), "quote")
    IN /\ ParseString(t, 1, <<>>) = [ok |-> TRUE, str |-> sample, next |-> Len(t) + 1]
       /\ sample = <<>> \/ Last(sample) # "backslash" => Legacy(t) = sample
       /\ \A k \in 0 .. Len(t) - 1 : ~ParseString(SubSeq(t, 1, k), 1, <<>>).ok

\* The documents of the JSON grammar with n levels of nesting.
RECURSIVE Document(_)
Document(n) ==
  {<<"s">>, <<"v">>, <<"[", "]">>, <<"{", "}">>} \cup
  IF n = 0 THEN {}
  ELSE LET D == Document(n - 1)
       IN {<<"[">> \o d \o <<"]">> : d \in D} \cup
          {<<"[">> \o d \o <<",">> \o e \o <<"]">> : d, e \in D} \cup
          {<<"{", "s", ":">> \o d \o <<"}">> : d \in D}

Documents == {d \in Document(2) : Len(d) <= MaxDocument}

\* The parser accepts the documents of the grammar and nothing else: no
\* trailing comma, missing value or trailing token.  A tool input that was
\* cut off is therefore refused.
ParsesJson == kind = "document" => (Parse(sample) <=> sample \in Documents)

Digits(t) == t # <<>> /\ \A i \in 1 .. Len(t) : t[i] \in Digit
Unsigned(t) == IF t # <<>> /\ t[1] = "-" THEN Tail(t) ELSE t
Integer(t) == Digits(t) /\ (Len(t) = 1 \/ t[1] # "0")

\* The numbers of the JSON grammar: an integer, a fraction and an exponent.
Number(t) ==
  \E i \in 0 .. Len(t), j \in 0 .. Len(t) : i <= j /\
    LET int == Unsigned(SubSeq(t, 1, i))  frac == SubSeq(t, i + 1, j)
        exp == SubSeq(t, j + 1, Len(t))
    IN /\ Integer(int)
       /\ frac = <<>> \/ (frac[1] = "." /\ Digits(Tail(frac)))
       /\ exp = <<>> \/ (exp[1] = "e" /\ Digits(Unsigned(Tail(exp))))

\* The parser accepts the numbers of the grammar and nothing else.
ParsesNumbers == kind = "number" => (ParseNumber(sample) <=> Number(sample))

\* However the network cuts a response into reads, inside a header, a
\* separator or an event, the client finds the same events.
SameEventsHoweverRead ==
  kind = "stream" => \A k \in 0 .. Len(sample) :
    Feed(Feed(NoStream, SubSeq(sample, 1, k)), From(sample, k + 1)) = Feed(NoStream, sample)

\* What is read from a text is what the text says, by whichever reader and in
\* whichever pieces it came.
TextsFaithful == StringsSurvive /\ ParsesJson /\ ParsesNumbers /\ SameEventsHoweverRead
=============================================================================
