----------------------------- MODULE LineEditor -----------------------------
(***************************************************************************)
(* LineEditor::read_line() of shell/line.rs: the bytes of the serial line  *)
(* edit a buffer, and the echo is to keep the terminal showing it.  The    *)
(* terminal is external: it has cells after the prompt and a cursor.       *)
(***************************************************************************)
EXTENDS Naturals, Sequences, SequencesExt

CONSTANTS
  Printable,  \* printable characters that end no escape sequence
  MaxLine,    \* MAX_LINE
  MaxParams,  \* bytes of an escape sequence that are skipped at most
  MaxKeys     \* bound: bytes received

ASSUME EditorAssumption ==
  MaxLine \in Nat \ {0} /\ MaxParams \in Nat \ {0} /\ MaxKeys \in Nat

VARIABLES
  line,     \* buf[..len]
  mode,     \* "text", "esc" after an escape, "csi" in a sequence, "done"
  params,   \* bytes of the sequence still to be skipped
  cells,    \* the terminal: characters after the prompt
  cursor,   \* the terminal: the cell the cursor is on
  keys      \* bytes received so far

editor == <<line, mode, params, cells, cursor, keys>>

Blank == " "
Letter == {"A", "~"}              \* bytes that end an escape sequence
Text == Printable \cup Letter \cup {"["}
Control == {"enter", "^C", "^D", "^U", "^L", "bs", "esc", "other"}

EditorInit ==
  /\ line = <<>> /\ mode = "text" /\ params = 0 /\ keys = 0
  /\ cells = [i \in 1 .. MaxLine + 1 |-> Blank] /\ cursor = 1

-----------------------------------------------------------------------------

\* The terminal: n backspaces move the cursor to the left, and a text is
\* written from the cursor on.
Terminal == [cells |-> cells, at |-> cursor]
Left(t, n) == [t EXCEPT !.at = IF @ > n THEN @ - n ELSE 1]
Put(t, s) ==
  [cells |-> [i \in DOMAIN t.cells |->
                IF i \in t.at .. t.at + Len(s) - 1 THEN s[i - t.at + 1] ELSE t.cells[i]],
   at |-> t.at + Len(s)]

\* What the serial line has made of the terminal.
Echo(t) == cells' = t.cells /\ cursor' = t.at

\* Back, blanks and back again, over the last n characters.
Erase(t, n) == Left(Put(Left(t, n), [i \in 1 .. n |-> Blank]), n)

-----------------------------------------------------------------------------
(* Plausible mistakes in the code, each the body of one definition.        *)

EraseChar_BackOnly(t) == Left(t, 1)
-----------------------------------------------------------------------------

EraseChar(t) == Erase(t, 1)
EraseLine(t) == Erase(t, Len(line))
Redraw(t) == Put(t, line)

\* Enter and Ctrl-C end the line; Ctrl-D does on an empty one.
EndLine(b) ==
  /\ b \in {"enter", "^C"} \/ (b = "^D" /\ line = <<>>)
  /\ mode' = "done" /\ line' = IF b = "^C" THEN <<>> ELSE line
  /\ UNCHANGED <<params, cells, cursor>>

Edit(b) ==
  /\ \/ b = "^U" /\ Echo(EraseLine(Terminal)) /\ line' = <<>>
     \/ b = "^L" /\ Echo(Redraw(EraseLine(Terminal))) /\ UNCHANGED line
     \/ b = "bs" /\ line # <<>> /\ Echo(EraseChar(Terminal)) /\ line' = Front(line)
     \/ /\ b \in Text /\ Len(line) < MaxLine - 1
        /\ Echo(Put(Terminal, <<b>>)) /\ line' = Append(line, b)
  /\ UNCHANGED <<mode, params>>

\* What the code consumes without effect.
Ignore(b) ==
  /\ \/ b = "other" \/ (b = "^D" /\ line # <<>>) \/ (b = "bs" /\ line = <<>>)
     \/ (b \in Text /\ Len(line) >= MaxLine - 1)
  /\ UNCHANGED <<line, mode, params, cells, cursor>>

Escape(b) == b = "esc" /\ mode' = "esc" /\ UNCHANGED <<line, params, cells, cursor>>

\* A byte of an escape sequence is skipped: up to a letter, or a few of them.
Inside(b) == b \notin Letter /\ params > 1
Skip(b) ==
  /\ \/ mode = "esc" /\ b = "[" /\ mode' = "csi" /\ params' = MaxParams
     \/ mode = "esc" /\ b # "[" /\ mode' = "text" /\ params' = 0
     \/ mode = "csi" /\ Inside(b) /\ params' = params - 1 /\ UNCHANGED mode
     \/ mode = "csi" /\ ~Inside(b) /\ mode' = "text" /\ params' = 0
  /\ UNCHANGED <<line, cells, cursor>>

Key(b) ==
  /\ keys < MaxKeys /\ keys' = keys + 1
  /\ \/ mode = "text" /\ (EndLine(b) \/ Edit(b) \/ Ignore(b) \/ Escape(b))
     \/ Skip(b)

\* The rest of the sequence does not come in time: what comes later is text.
SequenceTimesOut ==
  /\ mode \in {"esc", "csi"} /\ mode' = "text" /\ params' = 0
  /\ UNCHANGED <<line, cells, cursor, keys>>

\* The caller prints its prompt on a line of its own and reads the next line.
Prompt ==
  /\ mode = "done" /\ mode' = "text" /\ line' = <<>>
  /\ cells' = [i \in DOMAIN cells |-> Blank] /\ cursor' = 1
  /\ UNCHANGED <<params, keys>>

EditorNext == SequenceTimesOut \/ Prompt \/ \E b \in Text \cup Control : Key(b)

EditorSpec == EditorInit /\ [][EditorNext]_editor

-----------------------------------------------------------------------------

EditorTypeOK ==
  /\ line \in Seq(Text) /\ Len(line) < MaxLine
  /\ mode \in {"text", "esc", "csi", "done"} /\ params \in 0 .. MaxParams /\ keys \in 0 .. MaxKeys
  /\ cells \in [1 .. MaxLine + 1 -> Text \cup {Blank}] /\ cursor \in 1 .. MaxLine

\* What is submitted is what the terminal shows: after any editing, redrawing,
\* escape sequence, and at the limit, the cells hold the line and nothing
\* else, and the cursor is behind it.
ShowsLine ==
  /\ EditorTypeOK
  /\ mode # "done" =>
       /\ \A i \in DOMAIN cells : cells[i] = IF i <= Len(line) THEN line[i] ELSE Blank
       /\ cursor = Len(line) + 1
=============================================================================
