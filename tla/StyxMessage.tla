----------------------------- MODULE StyxMessage -----------------------------
(***************************************************************************)
(* The wire format of fs/styx/message.rs: parse() turns the bytes of a     *)
(* request into a message, encode() a reply into bytes.  A message is      *)
(* size[4] type[1] tag[2] and its fields; numbers are little-endian.  The  *)
(* other end of the wire, Marshal and Unmarshal, is external: it is        *)
(* written from the format, not from the code.                             *)
(***************************************************************************)
EXTENDS Naturals, Sequences, SequencesExt

CONSTANTS
  MaxWalk,     \* names a request to walk may have: 16
  WireNumber,  \* numbers the messages are made of
  WireText,    \* texts the messages are made of, as bytes
  Garbled      \* for each of them that is not UTF-8, the text it stands for

ASSUME MessageAssumption ==
  /\ MaxWalk \in Nat /\ WireNumber \subseteq Nat /\ WireText \subseteq Seq(0 .. 255)
  /\ DOMAIN Garbled \subseteq WireText

VARIABLES
  holds,    \* "none", or what the buffer holds: a "request" or a "reply"
  sent,     \* the message
  buffer,   \* its bytes, as far as they have come
  claim     \* the size its first four bytes claim

wire == <<holds, sent, buffer, claim>>

NumberSize == [u8 |-> 1, u16 |-> 2, u32 |-> 4, u64 |-> 8]

\* Fields of the requests the server knows, and of its replies.
RequestFields ==
  [Tversion |-> <<"u32", "text">>, Tattach |-> <<"u32", "u32", "text", "text">>,
   Twalk |-> <<"u32", "u32", "names">>, Topen |-> <<"u32", "u8">>,
   Tread |-> <<"u32", "u64", "u32">>, Twrite |-> <<"u32", "u64", "data">>,
   Tclunk |-> <<"u32">>, Tstat |-> <<"u32">>]
ReplyFields ==
  [Rversion |-> <<"u32", "text">>, Rattach |-> <<"qid">>, Rerror |-> <<"text">>,
   Rwalk |-> <<"qids">>, Ropen |-> <<"qid", "u32">>, Rread |-> <<"data">>,
   Rwrite |-> <<"u32">>, Rclunk |-> <<>>, Rstat |-> <<"stat">>]

Code ==
  [Tversion |-> 100, Rversion |-> 101, Tauth |-> 102, Tattach |-> 104, Rattach |-> 105,
   Rerror |-> 107, Tflush |-> 108, Twalk |-> 110, Rwalk |-> 111, Topen |-> 112,
   Ropen |-> 113, Tcreate |-> 114, Tread |-> 116, Rread |-> 117, Twrite |-> 118,
   Rwrite |-> 119, Tclunk |-> 120, Rclunk |-> 121, Tremove |-> 122, Tstat |-> 124,
   Rstat |-> 125, Twstat |-> 126]

\* The numbers that from_u8() knows: those of replies too.
Known == 100 .. 127 \ {106}

-----------------------------------------------------------------------------
(* Plausible mistakes in the code, each the body of one definition.        *)

TooMany_AtLimit(n) == n >= MaxWalk
-----------------------------------------------------------------------------
(* parse().  A reader is where it is in the body, what it has read and     *)
(* whether it has met its end.                                             *)

\* n bytes of b from the offset, which counts from zero, as a number.
Le(b, off, n) == FoldLeft(LAMBDA v, i : v * 256 + b[off + i], 0, Reverse([i \in 1 .. n |-> i]))

Short(b, off, n) == off + n > Len(b)
TooShort(r) == [r EXCEPT !.ok = FALSE]
Got(r, v, n) == [r EXCEPT !.vals = Append(@, v), !.off = @ + n]

ReadNumber(r, n) ==
  IF Short(r.b, r.off, n) THEN TooShort(r) ELSE Got(r, Le(r.b, r.off, n), n)

\* String::from_utf8_lossy(): the bytes of a character that its first byte asks
\* for, 0 when it is none, and the ones among them that may come second.
Width(b) ==
  CASE b \in 0 .. 127 -> 1 [] b \in 194 .. 223 -> 2 [] b \in 224 .. 239 -> 3
    [] b \in 240 .. 244 -> 4 [] OTHER -> 0
Second(b) ==
  CASE b = 224 -> 160 .. 191 [] b = 237 -> 128 .. 159 [] b = 240 -> 144 .. 191
    [] b = 244 -> 128 .. 143 [] OTHER -> 128 .. 191

\* How many bytes from position i on are a character, or the beginning of one.
Fitting(s, i) ==
  LET fits(k) == \A j \in 1 .. k - 1 :
        i + j <= Len(s) /\ s[i + j] \in IF j = 1 THEN Second(s[i]) ELSE 128 .. 191
  IN  CHOOSE k \in 1 .. 4 :
        /\ fits(k) /\ (k = 1 \/ k <= Width(s[i]))
        /\ k >= Width(s[i]) \/ ~fits(k + 1)

\* Whole characters are kept, each of the other parts becomes U+FFFD.
Lossy(s) ==
  LET read(a, i) ==
        LET k == Fitting(s, i)
        IN  IF i < a.next THEN a
            ELSE [next |-> i + k,
                  text |-> a.text \o IF k = Width(s[i]) THEN SubSeq(s, i, i + k - 1)
                                     ELSE <<239, 191, 189>>]
  IN  FoldLeft(read, [next |-> 1, text |-> <<>>], [i \in DOMAIN s |-> i]).text

\* A length of w bytes and as many bytes, which are a text or data.
ReadCounted(r, w, text) ==
  IF Short(r.b, r.off, w) THEN TooShort(r)
  ELSE LET n == Le(r.b, r.off, w)
           bytes == SubSeq(r.b, r.off + w + 1, r.off + w + n)
       IN  IF Short(r.b, r.off + w, n) THEN TooShort(r)
           ELSE Got(r, IF text THEN Lossy(bytes) ELSE bytes, w + n)

ReadText(r) == ReadCounted(r, 2, TRUE)
ReadData(r) == ReadCounted(r, 4, FALSE)

TooMany(n) == n > MaxWalk
ReadNames(r) ==
  IF Short(r.b, r.off, 2) \/ TooMany(Le(r.b, r.off, 2)) THEN TooShort(r)
  ELSE LET next(a, i) == IF a.ok THEN ReadText(a) ELSE a
           all == FoldLeft(next, [r EXCEPT !.off = @ + 2, !.vals = <<>>],
                           [i \in 1 .. Le(r.b, r.off, 2) |-> i])
       IN  [all EXCEPT !.vals = Append(r.vals, all.vals)]

ReadField(r, f) ==
  CASE ~r.ok -> r
    [] r.ok /\ f \in DOMAIN NumberSize -> ReadNumber(r, NumberSize[f])
    [] r.ok /\ f = "text" -> ReadText(r)
    [] r.ok /\ f = "data" -> ReadData(r)
    [] r.ok /\ f = "names" -> ReadNames(r)

NoMessage == [type |-> "error", tag |-> 0, vals |-> <<>>]
Panics == [type |-> "panic", tag |-> 0, vals |-> <<>>]

\* A size below that of the header makes the slice of the body panic, before the
\* types that are not implemented are told apart.
ParseMessage(data) ==
  IF Len(data) < 7 \/ Len(data) < Le(data, 0, 4) \/ data[5] \notin Known THEN NoMessage
  ELSE LET types == {t \in DOMAIN RequestFields : Code[t] = data[5]}
       IN  IF Le(data, 0, 4) < 7 THEN Panics
           ELSE IF types = {} THEN NoMessage
           ELSE LET t == CHOOSE t \in types : TRUE
                    r == FoldLeft(ReadField,
                           [b |-> SubSeq(data, 8, Le(data, 0, 4)), off |-> 0, vals |-> <<>>,
                            ok |-> TRUE], RequestFields[t])
                IN  IF r.ok THEN [type |-> t, tag |-> Le(data, 5, 2), vals |-> r.vals]
                    ELSE NoMessage

-----------------------------------------------------------------------------
(* encode().                                                               *)

LittleEndian(v, n) == [i \in 1 .. n |-> (v \div (256 ^ (i - 1))) % 256]
ZeroBytes(n) == [i \in 1 .. n |-> 0]
WriteText(s) == LittleEndian(Len(s), 2) \o s
WriteQid(q) == <<q.type>> \o ZeroBytes(4) \o LittleEndian(q.path, 4) \o ZeroBytes(4)

\* The size in a stat counts what follows it.
StatSize(n) == n
WriteStat(s) ==
  LET body == ZeroBytes(6) \o WriteQid(s.qid) \o LittleEndian(s.mode, 4)
                \o ZeroBytes(8) \o LittleEndian(s.length, 4) \o ZeroBytes(4)
                \o WriteText(s.name) \o ZeroBytes(6)
      stat == LittleEndian(StatSize(Len(body)), 2) \o body
  IN  LittleEndian(Len(stat), 2) \o stat

WriteField(f, v) ==
  CASE f = "u32" -> LittleEndian(v, 4)
    [] f = "text" -> WriteText(v)
    [] f = "data" -> LittleEndian(Len(v), 4) \o v
    [] f = "qid" -> WriteQid(v)
    [] f = "qids" -> LittleEndian(Len(v), 2) \o FlattenSeq([i \in DOMAIN v |-> WriteQid(v[i])])
    [] f = "stat" -> WriteStat(v)

Encode(m) ==
  LET fields == ReplyFields[m.type]
      body == FlattenSeq([i \in DOMAIN fields |-> WriteField(fields[i], m.vals[i])])
  IN  LittleEndian(7 + Len(body), 4) \o <<Code[m.type]>> \o LittleEndian(m.tag, 2) \o body

-----------------------------------------------------------------------------
(* External: the client's end of the wire.                                 *)

Bytes(v, n) == [i \in 1 .. n |-> IF i = 1 THEN v % 256 ELSE IF i = 2 THEN v \div 256 ELSE 0]
Counted(s, w) == Bytes(Len(s), w) \o s

Marshalled(f, v) ==
  CASE f = "u8" -> <<v % 256>>
    [] f \in {"u32", "u64"} -> Bytes(v, NumberSize[f])
    [] f = "text" -> Counted(v, 2)
    [] f = "data" -> Counted(v, 4)
    [] f = "names" -> Bytes(Len(v), 2) \o FlattenSeq([i \in DOMAIN v |-> Counted(v[i], 2)])

\* Requests that the server knows by their number only; nothing looks at their
\* bodies.
Unserved == {"Tauth", "Tflush", "Tcreate", "Tremove", "Twstat"}
Fields(t) == IF t \in DOMAIN RequestFields THEN RequestFields[t] ELSE <<"u32">>

Marshal(m) ==
  LET fields == Fields(m.type)
      body == FlattenSeq([i \in DOMAIN fields |-> Marshalled(fields[i], m.vals[i])])
  IN  <<Code[m.type]>> \o Bytes(m.tag, 2) \o body

FieldValues(f) ==
  CASE f \in {"u8", "u32", "u64"} -> IF f = "u8" THEN WireNumber \cap 0 .. 255 ELSE WireNumber
    [] f \in {"text", "data"} -> WireText
    [] f = "names" -> {<<>>} \cup {<<a>> : a \in WireText} \cup {<<a, b>> : a, b \in WireText}
                        \cup {[i \in 1 .. MaxWalk + 1 |-> <<>>]}
    [] f = "qid" -> [type : {0, 128}, path : WireNumber]
    [] f = "qids" -> {<<>>} \cup {<<q, r>> : q, r \in [type : {0, 128}, path : WireNumber]}
    [] f = "stat" -> [qid : [type : {0, 128}, path : WireNumber], mode : WireNumber,
                      length : WireNumber, name : WireText]

Messages(fields) ==
  LET n == Len(fields)
  IN  CASE n = 0 -> {<<>>}
        [] n = 1 -> {<<a>> : a \in FieldValues(fields[1])}
        [] n = 2 -> {<<a, b>> : a \in FieldValues(fields[1]), b \in FieldValues(fields[2])}
        [] n = 3 -> {<<a, b, c>> : a \in FieldValues(fields[1]), b \in FieldValues(fields[2]),
                                   c \in FieldValues(fields[3])}
        [] n = 4 -> {<<a, b, c, d>> : a \in FieldValues(fields[1]), b \in FieldValues(fields[2]),
                                      c \in FieldValues(fields[3]), d \in FieldValues(fields[4])}

MessageInit == holds = "none" /\ sent = NoMessage /\ buffer = <<>> /\ claim = 0

\* A request comes, cut or not, under a size that is right or not.
RequestComes ==
  /\ holds = "none" /\ holds' = "request"
  /\ \E t \in DOMAIN RequestFields \cup Unserved, tag \in WireNumber :
     \E v \in Messages(Fields(t)) :
       LET m == [type |-> t, tag |-> tag, vals |-> v]
           all == 4 + Len(Marshal(m))
       IN  /\ sent' = m
           /\ \E size \in {0, 6, all - 1, all, all + 1} \cap 0 .. 255, n \in {3, 6, all - 1, all} :
                /\ claim' = size
                /\ buffer' = SubSeq(Bytes(size, 4) \o Marshal(m), 1, n)

ReplyGoes ==
  /\ holds = "none" /\ holds' = "reply"
  /\ \E t \in DOMAIN ReplyFields, tag \in WireNumber : \E v \in Messages(ReplyFields[t]) :
       /\ sent' = [type |-> t, tag |-> tag, vals |-> v]
       /\ buffer' = Encode(sent')
  /\ claim' = Len(buffer')

MessageNext == RequestComes \/ ReplyGoes
-----------------------------------------------------------------------------

\* External: the message the client means, with what is no UTF-8 replaced.
Intended(text) == IF text \in DOMAIN Garbled THEN Garbled[text] ELSE text
Meant(f, v) ==
  CASE f = "text" -> Intended(v)
    [] f = "names" -> [i \in DOMAIN v |-> Intended(v[i])]
    [] OTHER -> v
Meaning(m) ==
  [m EXCEPT !.vals = [i \in DOMAIN m.vals |-> Meant(RequestFields[m.type][i], m.vals[i])]]

\* A request that has come whole under its own size is the message that was
\* meant, with its sixteen names and no more, texts in UTF-8 unchanged and the
\* others repaired; one that is cut short, claims more bytes than there are or is
\* not implemented is refused; and so is what is shorter than it claims to need,
\* unless it claims to be shorter than a header.
RequestsSurvive ==
  holds = "request" =>
    LET whole == Len(buffer) = 4 + Len(Marshal(sent)) /\ claim = Len(buffer)
        served == sent.type \in DOMAIN RequestFields
        long == sent.type = "Twalk" /\ Len(sent.vals[3]) > MaxWalk
    IN  ParseMessage(buffer) =
          IF whole /\ served /\ ~long THEN Meaning(sent)
          ELSE IF Len(buffer) >= 7 /\ claim < 7 THEN Panics ELSE NoMessage

\* External: what a client finds in a reply.  Numbers here are below 2^16.
Small(b, at) == b[at] + 256 * b[at + 1]
QidAt(b, at) == [type |-> b[at], path |-> Small(b, at + 5)]
TextAt(b, at) == SubSeq(b, at + 2, at + 1 + Small(b, at))
DataAt(b, at) == SubSeq(b, at + 4, at + 3 + Small(b, at))
StatAt(b, at) ==
  [qid |-> QidAt(b, at + 10), mode |-> Small(b, at + 23), length |-> Small(b, at + 35),
   name |-> TextAt(b, at + 43)]

Unmarshalled(type, b) ==
  CASE type = "Rversion" -> <<Small(b, 1), TextAt(b, 5)>>
    [] type = "Rerror" -> <<TextAt(b, 1)>>
    [] type = "Rattach" -> <<QidAt(b, 1)>>
    [] type = "Rwalk" -> <<[i \in 1 .. Small(b, 1) |-> QidAt(b, 3 + 13 * (i - 1))]>>
    [] type = "Ropen" -> <<QidAt(b, 1), Small(b, 14)>>
    [] type = "Rread" -> <<DataAt(b, 1)>>
    [] type = "Rwrite" -> <<Small(b, 1)>>
    [] type = "Rstat" -> <<StatAt(b, 1)>>
    [] type = "Rclunk" -> <<>>

\* The bytes of a body: a qid has thirteen, a stat those of its name and 51.
Length(type, v) ==
  CASE type = "Rversion" -> 6 + Len(v[2]) [] type = "Rerror" -> 2 + Len(v[1])
    [] type = "Rattach" -> 13 [] type = "Rwalk" -> 2 + 13 * Len(v[1]) [] type = "Ropen" -> 17
    [] type = "Rread" -> 4 + Len(v[1]) [] type = "Rwrite" -> 4
    [] type = "Rstat" -> 51 + Len(v[1].name) [] type = "Rclunk" -> 0

\* A client finds in the bytes of a reply their number, the tag of its request
\* and every field, the qid and the iounit of an open among them, and nothing
\* else; the two sizes of a stat agree with each other and with it.
RepliesSurvive ==
  holds = "reply" =>
    LET body == SubSeq(buffer, 8, Len(buffer))
    IN  /\ Small(buffer, 1) = Len(buffer) /\ buffer[5] = Code[sent.type]
        /\ Small(buffer, 6) = sent.tag
        /\ Len(body) = Length(sent.type, sent.vals)
        /\ Unmarshalled(sent.type, body) = sent.vals
        /\ sent.type = "Rstat" =>
             Small(body, 1) = Len(body) - 2 /\ Small(body, 3) = Len(body) - 4

\* Both directions of the wire say what was meant.
MessagesSurvive == RequestsSurvive /\ RepliesSurvive
=============================================================================
