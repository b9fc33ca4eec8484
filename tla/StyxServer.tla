----------------------------- MODULE StyxServer -----------------------------
(***************************************************************************)
(* The Styx (9P2000) server of fs/styx/server.rs over the synthetic file   *)
(* tree of fs/styx/namespace.rs.  A request is handled in one call, which  *)
(* returns its reply.  A line of a listing is one unit, and so is a byte   *)
(* of the memory report, the longest of the files.                         *)
(***************************************************************************)
EXTENDS Naturals, Sequences, FiniteSets

CONSTANTS
  Fid,        \* numbers a client uses for its references
  MaxFids,    \* MAX_FIDS
  MaxMsize,   \* MAX_MSIZE
  Msize,      \* message sizes a client proposes
  NoFid,      \* no such reference
  Walks,      \* names in requests to walk
  MaxSessions, \* bound: sessions of a behaviour
  ReportLen,  \* length of the report on memory
  Count       \* sizes of the pieces a client reads

\* The names of the tree and one that is not in it, and what a file can hold.
Name == {"agents", "db", "hw", "sys", "ctl", "schema", "meminfo", "uptime", "gpu", "nvme", "none"}
Line == Name \cup {"ok", "line", "m1", "m2"}

ASSUME StyxAssumption ==
  /\ MaxFids \in Nat \ {0} /\ MaxMsize \in Nat /\ Msize \subseteq Nat
  /\ MaxSessions \in Nat /\ {ReportLen} \cup Count \subseteq Nat /\ Walks \subseteq Seq(Name)
  /\ IsFiniteSet(Fid)
  /\ NoFid \notin [path : Seq(Name), open : BOOLEAN]

VARIABLES
  fids,       \* the references: where they are and whether they are open
  msize,      \* the message size in force
  response,   \* the answer the control file keeps for its readers
  memory,     \* what the page allocator reports
  panic,      \* a handler has panicked
  sessions    \* how many times a session was begun

\* What a client knows; the code has no such state.
VARIABLES
  view,       \* its references, from the replies it got
  version,    \* the session was begun anew while it had references
  reader,     \* a file read piece by piece
  overlong    \* a reply to what it may ask for was longer than the message size

table == <<fids, msize, response>>
client == <<view, version, reader, overlong>>
vars == <<table, memory, panic, sessions, client>>

-----------------------------------------------------------------------------
(* The tree, in the order of its maps.                                     *)

Children(path) ==
  CASE path = <<>> -> <<"agents", "db", "hw", "sys">>
    [] path = <<"db">> -> <<"ctl", "schema">>
    [] path = <<"sys">> -> <<"meminfo", "uptime">>
    [] path = <<"hw">> -> <<"gpu", "nvme">>
    [] OTHER -> <<>>

Dir == {<<>>, <<"agents">>, <<"db">>, <<"hw">>, <<"sys">>, <<"hw", "gpu">>, <<"hw", "nvme">>}
Ctl == {<<"db", "ctl">>}
ReadOnly == {<<"db", "schema">>, <<"sys", "meminfo">>, <<"sys", "uptime">>}
Node == Dir \cup Ctl \cup ReadOnly

\* Every component is looked up in the directory before it.
Resolves(path) ==
  \A i \in 1 .. Len(path) :
    \E j \in DOMAIN Children(SubSeq(path, 1, i - 1)) :
      Children(SubSeq(path, 1, i - 1))[j] = path[i]

\* A directory lists its names; a file is made when it is read.
ReadNode(path) ==
  CASE path \in Dir -> Children(path)
    [] path \in Ctl -> response
    [] path = <<"sys", "meminfo">> -> [i \in 1 .. ReportLen |-> memory]
    [] OTHER -> <<"line">>

-----------------------------------------------------------------------------

NoReader == [fid |-> NoFid, of |-> <<>>, got |-> <<>>, done |-> FALSE]

Init ==
  /\ fids = [f \in Fid |-> NoFid] /\ msize = MaxMsize /\ response = <<>>
  /\ memory = "m1" /\ panic = FALSE /\ sessions = 0
  /\ view = fids /\ version = FALSE /\ reader = NoReader
  /\ overlong = FALSE

-----------------------------------------------------------------------------
(* Plausible mistakes in the code, each the body of one definition.        *)

WalkTo_Partly(f, names) == IF Resolves(fids[f].path \o names) THEN fids[f].path \o names
                           ELSE fids[f].path
Slice_EndsEarly(content, offset, count) ==
  IF offset + 1 >= Len(content) THEN <<>>
  ELSE SubSeq(content, offset + 1,
              IF offset + count < Len(content) THEN offset + count ELSE Len(content))
-----------------------------------------------------------------------------
(* Requests.  One the server refuses changes nothing.                      *)

Refuse == UNCHANGED vars

Used == {f \in Fid : fids[f] # NoFid}
Full == Cardinality(Used) >= MaxFids

\* The references of the session before stay in the table.
Tversion(size) ==
  /\ sessions < MaxSessions /\ sessions' = sessions + 1
  /\ msize' = IF size < MaxMsize THEN size ELSE MaxMsize
  /\ view' = [f \in Fid |-> NoFid]
  /\ version' = (version \/ \E f \in Fid : fids[f] # NoFid)
  /\ UNCHANGED <<fids, response, memory, panic, reader, overlong>>

\* A full table refuses even a reference it would replace.
Tattach(f) ==
  \/ Full /\ Refuse
  \/ /\ ~Full
     /\ fids' = [fids EXCEPT ![f] = [path |-> <<>>, open |-> FALSE]]
     /\ view' = [view EXCEPT ![f] = [path |-> <<>>, open |-> FALSE]]
     /\ UNCHANGED <<msize, response, memory, panic, sessions, version, reader, overlong>>

WalkTo(f, names) == fids[f].path \o names

\* Every name on the way must be found; the new reference replaces what its
\* number stood for, open or not.
CanWalk(f, newfid, names) ==
  fids[f] # NoFid /\ Resolves(WalkTo(f, names)) /\ (f # newfid => ~Full)

Twalk(f, newfid, names) ==
  \/ ~CanWalk(f, newfid, names) /\ Refuse
  \/ /\ CanWalk(f, newfid, names)
     /\ fids' = [fids EXCEPT ![newfid] = [path |-> WalkTo(f, names), open |-> FALSE]]
     /\ view' = [view EXCEPT ![newfid] =
                   IF view[f] = NoFid THEN NoFid
                   ELSE [path |-> view[f].path \o names, open |-> FALSE]]
     /\ UNCHANGED <<msize, response, memory, panic, sessions, version, reader, overlong>>

Header == 24
Iounit == msize - Header

\* With a message size below the header's the subtraction panics, or wraps to
\* a number beyond any size in a build without overflow checks.
Topen(f) ==
  \/ fids[f] = NoFid /\ Refuse
  \/ /\ fids[f] # NoFid
     /\ fids' = [fids EXCEPT ![f].open = TRUE]
     /\ \/ /\ view' = IF view[f] = NoFid THEN view ELSE [view EXCEPT ![f].open = TRUE]
           /\ UNCHANGED panic
        \/ msize < Header /\ panic' = TRUE /\ UNCHANGED view
     /\ UNCHANGED <<msize, response, memory, sessions, version, reader, overlong>>

\* Up to count lines from the offset.
Slice(content, offset, count) ==
  IF offset >= Len(content) THEN <<>>
  ELSE SubSeq(content, offset + 1,
              IF offset + count < Len(content) THEN offset + count ELSE Len(content))

\* The client begins a file, or reads on where it is, as long as the file is
\* what it was when it began.
Reading(f, offset, count, content, data) ==
  LET end == data = <<>> /\ count > 0
  IN  IF offset = 0 THEN [fid |-> f, of |-> content, got |-> data, done |-> end]
      ELSE IF reader.fid = f /\ offset = Len(reader.got) /\ ~reader.done /\ content = reader.of
      THEN [reader EXCEPT !.got = @ \o data, !.done = end]
      ELSE NoReader

IsOpen(f) == fids[f] # NoFid /\ fids[f].open

Tread(f, offset, count) ==
  \/ ~IsOpen(f) /\ Refuse
  \/ /\ IsOpen(f)
     /\ LET content == ReadNode(fids[f].path)
            data == Slice(content, offset, count)
        IN  /\ overlong' = (overlong \/ (msize >= Header /\ count <= Iounit /\ 11 + Len(data) > msize))
            /\ reader' = Reading(f, offset, count, content, data)
     /\ UNCHANGED <<table, memory, panic, sessions, view, version>>

\* A control file runs the command and keeps its answer; the offset is ignored.
Twrite(f) ==
  \/ ~(IsOpen(f) /\ fids[f].path \in Ctl) /\ Refuse
  \/ /\ IsOpen(f) /\ fids[f].path \in Ctl
     /\ response' = <<"ok">>
     /\ UNCHANGED <<fids, msize, memory, panic, sessions, client>>

Tclunk(f) ==
  /\ fids' = [fids EXCEPT ![f] = NoFid] /\ view' = [view EXCEPT ![f] = NoFid]
  /\ UNCHANGED <<msize, response, memory, panic, sessions, version, reader, overlong>>

\* Looks the node up and changes nothing.
Tstat(f) == UNCHANGED vars

\* What is not a request the server knows is refused under tag zero.
Unparsed == Refuse

\* The numbers the page allocator reports change.
MemoryChanges ==
  /\ memory' \in {"m1", "m2"} /\ memory' # memory
  /\ UNCHANGED <<table, panic, sessions, client>>
-----------------------------------------------------------------------------

Next ==
  /\ ~panic
  /\ \/ \E size \in Msize : Tversion(size)
     \/ \E f \in Fid : \/ Tattach(f) \/ Topen(f) \/ Twrite(f) \/ Tclunk(f) \/ Tstat(f)
                       \/ \E g \in Fid, names \in Walks : Twalk(f, g, names)
                       \/ \E offset \in {0, 1, Len(reader.got)}, count \in Count : Tread(f, offset, count)
     \/ Unparsed
     \/ MemoryChanges

Spec == Init /\ [][Next]_vars
-----------------------------------------------------------------------------

References == [path : Node, open : BOOLEAN] \cup {NoFid}
Reader == [fid : Fid \cup {NoFid}, of : Seq(Line), got : Seq(Line), done : BOOLEAN]

\* Every variable has its type: a reference is at a node of the tree.
TypeOK ==
  /\ fids \in [Fid -> References] /\ view \in [Fid -> References]
  /\ msize \in 0 .. MaxMsize /\ response \in {<<>>, <<"ok">>} /\ memory \in {"m1", "m2"}
  /\ {panic, version, overlong} \subseteq BOOLEAN
  /\ sessions \in 0 .. MaxSessions /\ reader \in Reader

\* The table keeps to its bound, whatever order its references come and go in.
Bounded == Cardinality(Used) <= MaxFids

\* What a client can infer from the replies it got is what the server holds:
\* each of its references is at the node it walked to and open if it opened
\* it, after any refusal; and the server holds no others unless the client
\* began a session anew, which leaves the old ones in the table.
ClientAgrees ==
  ~panic =>
  /\ \A f \in Fid : view[f] # NoFid => fids[f] = view[f]
  /\ ~version => fids = view

\* The table keeps its bound and agrees with the client.
FidsConsistent == TypeOK /\ Bounded /\ ClientAgrees

\* What has been read so far is the beginning of the file.
ReaderInv ==
  /\ Len(reader.got) <= Len(reader.of)
  /\ reader.got = SubSeq(reader.of, 1, Len(reader.got))

\* A file read piece by piece, from the start to the first empty reply, is the
\* file, whatever the pieces and whoever reads or opens something else in
\* between, unless what it is made of changed meanwhile.
ReadWhole == reader.done => reader.got = reader.of

\* A client that asks for no more than it was told on opening gets no reply
\* longer than the message size, once that has room for a header.
WithinMsize == ~overlong

\* Replies to Tread add up to the file and fit the message size.
ReadsFaithful == ReadWhole /\ WithinMsize
=============================================================================
