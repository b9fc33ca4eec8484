------------------------------ MODULE ByteFile -------------------------------
(***************************************************************************)
(* What SQLite relies on when it calls xRead, xWrite, xTruncate and        *)
(* xFileSize: a file is a sequence of bytes, and every call is answered    *)
(* for the offset, the amount and the data that it was made with.  Two     *)
(* things the VFS leaves open are left open here: the bytes between the    *)
(* old end of a file and a write that starts beyond it, and which bytes a  *)
(* failed write has replaced.                                              *)
(***************************************************************************)
EXTENDS Integers, Sequences

CONSTANT
  Request     \* the calls: records of op, at, count and data

VARIABLES
  bytes,      \* the file
  call,       \* the call that is under way, or NoCall
  answer      \* what it returned, or NoAnswer

NoCall == [op |-> "none", at |-> 0, count |-> 0, data |-> <<>>]
NoAnswer == [rc |-> "none", buf |-> <<>>]
Answers(rc) == answer' = [rc |-> rc, buf |-> <<>>]

Init == bytes = <<>> /\ call = NoCall /\ answer = NoAnswer

Call == call = NoCall /\ call' \in Request /\ UNCHANGED <<bytes, answer>>

\* The byte at position p of the file; p lies in the data d written at o.
Byte(p) == bytes[p + 1]
Within(p, o, d) == p \in o .. o + Len(d) - 1
Positions == 0 .. Len(bytes) - 1

\* All of the bytes asked for, the missing ones as zeros.
Read(o, n) ==
  /\ Len(answer'.buf) = n
  /\ answer' = [rc |-> IF o + n <= Len(bytes) THEN "ok" ELSE "short_read",
                buf |-> [j \in 1 .. n |-> IF o + j <= Len(bytes) THEN bytes[o + j] ELSE 0]]
  /\ UNCHANGED bytes

Size == answer' = [rc |-> "size", buf |-> <<Len(bytes)>>] /\ UNCHANGED bytes

Write(o, d) ==
  /\ Answers("ok")
  /\ Len(bytes') = IF o + Len(d) > Len(bytes) THEN o + Len(d) ELSE Len(bytes)
  /\ \A p \in Positions : ~Within(p, o, d) => bytes'[p + 1] = Byte(p)
  /\ \A j \in 1 .. Len(d) : bytes'[o + j] = d[j]

\* The file keeps its length; its bytes are old or new.
FailedWrite(o, d) ==
  /\ Answers("ioerr")
  /\ Len(bytes') = Len(bytes)
  /\ \A p \in Positions :
       \/ bytes'[p + 1] = Byte(p)
       \/ Within(p, o, d) /\ bytes'[p + 1] = d[p - o + 1]

Failed(rc) == Answers(rc) /\ UNCHANGED bytes

\* Truncation to more than the length does nothing.
Truncate(n) ==
  /\ Answers("ok")
  /\ bytes' = IF n > Len(bytes) THEN bytes ELSE SubSeq(bytes, 1, n)

\* open(), close() and sync() leave the bytes alone.
Other == Answers("ok") /\ UNCHANGED bytes
Remove == Answers("ok") /\ bytes' = <<>>

\* The one answer to the call, each kind of call with its own.
Serve ==
  \/ call.op = "read" /\ (Read(call.at, call.count) \/ Failed("ioerr"))
  \/ call.op = "write" /\ (\/ Write(call.at, call.data)
                           \/ FailedWrite(call.at, call.data) \/ Failed("full"))
  \/ call.op = "truncate" /\ Truncate(call.at)
  \/ call.op = "size" /\ Size
  \/ call.op = "open" /\ (Other \/ Failed("cantopen") \/ Failed("full"))
  \/ call.op = "close" /\ Other
  \/ call.op = "sync" /\ (Other \/ Failed("ioerr"))
  \/ call.op = "delete" /\ Remove

\* The caller has its answer.
Done == answer # NoAnswer /\ answer' = NoAnswer /\ call' = NoCall /\ UNCHANGED bytes

Next ==
  \/ Call
  \/ answer = NoAnswer /\ Serve /\ UNCHANGED call
  \/ Done

Spec == Init /\ [][Next]_<<bytes, call, answer>>
=============================================================================
