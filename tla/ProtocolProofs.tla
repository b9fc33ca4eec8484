--------------------------- MODULE ProtocolProofs ---------------------------
(***************************************************************************)
(* The protocols the kernel speaks, proved: StyxServer for any number of   *)
(* fids, any bound on the table, any message sizes, walks and pieces and   *)
(* any length of the report, and AgentLoop, with the resolver and the API  *)
(* client it is composed of, for any number of retries, turns and commands *)
(* and answers of any length.                                              *)
(*                                                                         *)
(* The parts of FidsConsistent are inductive together: a reply reports the *)
(* path and the mode that the table holds.  ReadWhole is not: it needs     *)
(* ReaderInv, that the pieces got so far are the beginning of the file, so *)
(* that an empty piece can only come at its end.                           *)
(*                                                                         *)
(* What a request returns is right because what it has parsed is right at  *)
(* every event, StreamInv, and a conversation because the results and the  *)
(* calls still to run make up the calls of the answer, ToolsInv.           *)
(***************************************************************************)
EXTENDS StyxServer, AgentLoop, FiniteSetTheorems, SequenceTheorems, TLAPS

IInv == TypeOK /\ Bounded /\ ClientAgrees /\ ReaderInv /\ ReadsFaithful

-----------------------------------------------------------------------------
(* The tree.                                                               *)

\* What each node of the tree lists; all others list nothing.
LEMMA ChildrenFacts ==
  /\ Children(<<>>) = <<"agents", "db", "hw", "sys">>
  /\ Children(<<"db">>) = <<"ctl", "schema">>
  /\ Children(<<"sys">>) = <<"meminfo", "uptime">>
  /\ Children(<<"hw">>) = <<"gpu", "nvme">>
  /\ \A p : p \notin {<<>>, <<"db">>, <<"sys">>, <<"hw">>} => Children(p) = <<>>
<1>1. /\ <<"db">> # <<>> /\ <<"sys">> # <<>> /\ <<"hw">> # <<>>
      /\ <<"db">> # <<"sys">> /\ <<"db">> # <<"hw">> /\ <<"sys">> # <<"hw">>
  OBVIOUS
<1>2. Children(<<>>) = <<"agents", "db", "hw", "sys">>
  BY <1>1 DEF Children
<1>3. Children(<<"db">>) = <<"ctl", "schema">>
  BY <1>1 DEF Children
<1>4. Children(<<"sys">>) = <<"meminfo", "uptime">>
  BY <1>1 DEF Children
<1>5. Children(<<"hw">>) = <<"gpu", "nvme">>
  BY <1>1 DEF Children
<1>6. ASSUME NEW p, p \notin {<<>>, <<"db">>, <<"sys">>, <<"hw">>}
      PROVE  Children(p) = <<>>
  BY <1>6 DEF Children
<1> QED BY <1>2, <1>3, <1>4, <1>5, <1>6

\* The names in a listing are names of the tree.
LEMMA ChildrenType == ASSUME NEW p PROVE Children(p) \in Seq(Name)
<1>1. /\ <<>> \in Seq(Name) /\ <<"agents", "db", "hw", "sys">> \in Seq(Name)
      /\ <<"ctl", "schema">> \in Seq(Name) /\ <<"meminfo", "uptime">> \in Seq(Name)
      /\ <<"gpu", "nvme">> \in Seq(Name)
  BY DEF Name
<1> QED BY <1>1, ChildrenFacts

\* A node's path is a sequence of names.
LEMMA NodeType == Node \subseteq Seq(Name)
  BY DEF Name, Node, Dir, Ctl, ReadOnly

\* The beginning of a path, and what it says of the name after it.
LEMMA PrefixFacts ==
  ASSUME NEW p \in Seq(Name)
  PROVE  /\ SubSeq(p, 1, 0) = <<>>
         /\ Len(p) >= 1 => SubSeq(p, 1, 1) = <<p[1]>>
         /\ Len(p) >= 2 => SubSeq(p, 1, 2) = <<p[1], p[2]>>
         /\ SubSeq(p, 1, Len(p)) = p
<1>1. SubSeq(p, 1, 0) = <<>>
  BY SubSeqEmpty
<1>2. ASSUME Len(p) >= 1 PROVE SubSeq(p, 1, 1) = <<p[1]>>
  <2>1. p[1] \in Name
    BY <1>2, ElementOfSeq
  <2>2. /\ SubSeq(p, 1, 1) \in Seq(Name) /\ Len(SubSeq(p, 1, 1)) = 1
        /\ SubSeq(p, 1, 1)[1] = p[1]
    BY <2>1, SubSeqProperties
  <2>3. <<p[1]>> \in Seq(Name) /\ Len(<<p[1]>>) = 1 /\ <<p[1]>>[1] = p[1]
    BY <2>1
  <2>4. \A i \in 1 .. Len(SubSeq(p, 1, 1)) : SubSeq(p, 1, 1)[i] = <<p[1]>>[i]
    BY <2>2
  <2> QED BY <2>2, <2>3, <2>4, SeqEqual
<1>3. ASSUME Len(p) >= 2 PROVE SubSeq(p, 1, 2) = <<p[1], p[2]>>
  <2>1. p[1] \in Name /\ p[2] \in Name
    BY <1>3, ElementOfSeq
  <2>2. /\ SubSeq(p, 1, 2) \in Seq(Name) /\ Len(SubSeq(p, 1, 2)) = 2
        /\ SubSeq(p, 1, 2)[1] = p[1] /\ SubSeq(p, 1, 2)[2] = p[2]
    BY <2>1, SubSeqProperties
  <2>3. <<p[1], p[2]>> \in Seq(Name) /\ Len(<<p[1], p[2]>>) = 2
    BY <2>1
  <2>4. \A i \in 1 .. Len(SubSeq(p, 1, 2)) : SubSeq(p, 1, 2)[i] = <<p[1], p[2]>>[i]
    BY <2>2
  <2> QED BY <2>2, <2>3, <2>4, SeqEqual
<1>4. SubSeq(p, 1, Len(p)) = p
  BY SubSeqFull
<1> QED BY <1>1, <1>2, <1>3, <1>4

\* On a path that resolves, each name is found in the listing of the directory
\* before it.
LEMMA Found ==
  ASSUME NEW p \in Seq(Name), Resolves(p), NEW k \in Nat, k < Len(p),
         NEW q, SubSeq(p, 1, k) = q
  PROVE  \E j \in DOMAIN Children(q) : Children(q)[j] = p[k + 1]
<1>1. k + 1 \in 1 .. Len(p) /\ (k + 1) - 1 = k
  BY LenProperties
<1>2. \E j \in DOMAIN Children(SubSeq(p, 1, (k + 1) - 1)) :
        Children(SubSeq(p, 1, (k + 1) - 1))[j] = p[k + 1]
  BY <1>1, Zenon DEF Resolves
<1> QED BY <1>1, <1>2

\* A path every name of which is found leads to a node: resolve_path() cannot
\* end anywhere else.
LEMMA ResolvesToNode ==
  ASSUME NEW p \in Seq(Name), Resolves(p)
  PROVE  p \in Node
<1>0. Len(p) \in Nat
  BY LenProperties
<1>1. CASE Len(p) = 0
  <2>1. p = <<>>
    BY <1>1, EmptySeq
  <2> QED BY <2>1 DEF Node, Dir
<1>2. CASE Len(p) > 0
  <2>1. p[1] \in {"agents", "db", "hw", "sys"}
    <3>1. \E j \in DOMAIN Children(<<>>) : Children(<<>>)[j] = p[0 + 1]
      BY <1>2, PrefixFacts, Found
    <3> QED BY <3>1, ChildrenFacts
  <2>2. CASE Len(p) = 1
    <3>1. p = <<p[1]>>
      BY <2>2, PrefixFacts
    <3> QED BY <2>1, <3>1 DEF Node, Dir
  <2>3. CASE Len(p) > 1
    <3>1. SubSeq(p, 1, 1) = <<p[1]>>
      BY <1>0, <2>3, PrefixFacts
    <3>2. \E j \in DOMAIN Children(<<p[1]>>) : Children(<<p[1]>>)[j] = p[1 + 1]
      BY <2>3, <3>1, Found
    <3>3. \/ p[1] = "db" /\ p[2] \in {"ctl", "schema"}
          \/ p[1] = "sys" /\ p[2] \in {"meminfo", "uptime"}
          \/ p[1] = "hw" /\ p[2] \in {"gpu", "nvme"}
      <4>1. CASE p[1] = "agents"
        <5>1. Children(<<p[1]>>) = <<>>
          BY <4>1, ChildrenFacts
        <5> QED BY <3>2, <5>1
      <4>2. CASE p[1] = "db"
        BY <3>2, <4>2, ChildrenFacts
      <4>3. CASE p[1] = "sys"
        BY <3>2, <4>3, ChildrenFacts
      <4>4. CASE p[1] = "hw"
        BY <3>2, <4>4, ChildrenFacts
      <4> QED BY <2>1, <4>1, <4>2, <4>3, <4>4
    <3>4. CASE Len(p) = 2
      <4>1. p = <<p[1], p[2]>>
        BY <3>4, PrefixFacts
      <4> QED BY <3>3, <4>1 DEF Node, Dir, Ctl, ReadOnly
    <3>5. CASE Len(p) > 2
      <4>1. Children(<<p[1], p[2]>>) = <<>>
        <5>1. <<p[1], p[2]>> \notin {<<>>, <<"db">>, <<"sys">>, <<"hw">>}
          OBVIOUS
        <5> QED BY <5>1, ChildrenFacts
      <4>2. SubSeq(p, 1, 2) = <<p[1], p[2]>>
        BY <1>0, <3>5, PrefixFacts
      <4>3. \E j \in DOMAIN Children(<<p[1], p[2]>>) : Children(<<p[1], p[2]>>)[j] = p[2 + 1]
        BY <3>5, <4>2, Found
      <4> QED BY <4>1, <4>3
    <3>6. Len(p) = 2 \/ Len(p) > 2
      BY <1>0, <2>3, SMTT(30)
    <3> QED BY <3>4, <3>5, <3>6, Zenon
  <2>4. Len(p) = 1 \/ Len(p) > 1
    <3>1. \A n \in Nat : n > 0 => n = 1 \/ n > 1
      OBVIOUS
    <3> QED BY <1>0, <1>2, <3>1, Zenon
  <2> QED BY <2>2, <2>3, <2>4, Zenon
<1> QED BY <1>0, <1>1, <1>2

-----------------------------------------------------------------------------
(* Files and their pieces.                                                 *)

\* Whatever is read holds lines.
LEMMA ContentType ==
  ASSUME TypeOK, NEW p
  PROVE  ReadNode(p) \in Seq(Line)
<1>1. Children(p) \in Seq(Line)
  <2>1. Name \subseteq Line
    BY DEF Line
  <2> QED BY <2>1, ChildrenType, SeqMonotonic
<1>2. response \in Seq(Line)
  <2>1. <<>> \in Seq(Line) /\ <<"ok">> \in Seq(Line)
    BY DEF Line
  <2> QED BY <2>1 DEF TypeOK
<1>3. [i \in 1 .. ReportLen |-> memory] \in Seq(Line)
  <2>1. ReportLen \in Nat
    BY StyxAssumption
  <2>2. [i \in 1 .. ReportLen |-> memory] \in [1 .. ReportLen -> Line]
    BY DEF TypeOK, Line
  <2> QED BY <2>1, <2>2, SeqDef
<1>4. <<"line">> \in Seq(Line)
  BY DEF Line
<1> QED BY <1>1, <1>2, <1>3, <1>4 DEF ReadNode

\* A piece is no longer than asked for, is empty only at the end, and
\* continues what comes before it.
LEMMA SliceFacts ==
  ASSUME NEW content \in Seq(Line), NEW offset \in Nat, NEW count \in Nat,
         NEW data, data = Slice(content, offset, count)
  PROVE  /\ data \in Seq(Line) /\ Len(data) \in Nat /\ Len(data) <= count
         /\ data = <<>> /\ count > 0 => offset >= Len(content)
         /\ offset <= Len(content) =>
              /\ offset + Len(data) <= Len(content)
              /\ SubSeq(content, 1, offset) \o data = SubSeq(content, 1, offset + Len(data))
<1>0. Len(content) \in Nat
  BY LenProperties
<1>1. CASE offset >= Len(content)
  <2>1. data = <<>> /\ data \in Seq(Line) /\ Len(data) = 0
    BY <1>1, EmptySeq DEF Slice
  <2>2. ASSUME offset <= Len(content)
        PROVE  SubSeq(content, 1, offset) \o data = SubSeq(content, 1, offset + Len(data))
    <3>1. offset = Len(content)
      BY <1>0, <1>1, <2>2
    <3>2. SubSeq(content, 1, offset) = content
      BY <3>1, SubSeqFull
    <3>3. content \o <<>> = content
      BY ConcatEmptySeq
    <3>4. offset + Len(data) = offset
      BY <2>1
    <3> QED BY <2>1, <3>2, <3>3, <3>4
  <2>3. offset + Len(data) <= Len(content) <=> offset <= Len(content)
    BY <2>1
  <2>4. Len(data) \in Nat /\ Len(data) <= count
    BY <2>1
  <2> QED BY <1>1, <2>1, <2>2, <2>3, <2>4
<1>2. CASE offset < Len(content)
  <2> DEFINE end == IF offset + count < Len(content) THEN offset + count ELSE Len(content)
  <2>1. /\ end \in Nat /\ offset <= end /\ end <= Len(content) /\ end - offset <= count
        /\ count > 0 => end > offset
    BY <1>0, <1>2
  <2>2. data = SubSeq(content, offset + 1, end)
    BY <1>0, <1>2 DEF Slice
  <2> HIDE DEF end
  <2>3. \A i \in offset + 1 .. end : content[i] \in Line
    BY <1>0, <2>1, ElementOfSeq
  <2>4. data \in Seq(Line) /\ Len(data) = end - offset
    BY <2>1, <2>2, <2>3, SubSeqProperties
  <2>5. SubSeq(content, 1, offset) \o data = SubSeq(content, 1, end)
    <3>1. /\ 1 \in 1 .. Len(content) + 1 /\ offset \in 1 - 1 .. Len(content)
          /\ end \in offset .. Len(content)
      BY <1>0, <2>1
    <3> QED BY <2>2, <3>1, ConcatAdjacentSubSeq
  <2>6. offset + Len(data) = end /\ Len(data) \in Nat /\ Len(data) <= count
    BY <2>1, <2>4
  <2>7. ASSUME data = <<>>, count > 0 PROVE FALSE
    BY <2>1, <2>4, <2>7
  <2> QED BY <2>1, <2>4, <2>5, <2>6, <2>7
<1> QED BY <1>0, <1>1, <1>2

-----------------------------------------------------------------------------
(* The table.                                                              *)

\* A reference is not the absence of one.
LEMMA RefFacts ==
  /\ \A r \in [path : Node, open : BOOLEAN] : r # NoFid
  /\ \A n \in Node : [path |-> n, open |-> FALSE] # NoFid
<1>1. NoFid \notin [path : Seq(Name), open : BOOLEAN]
  BY StyxAssumption
<1>2. ASSUME NEW r \in [path : Node, open : BOOLEAN] PROVE r # NoFid
  <2>1. r \in [path : Seq(Name), open : BOOLEAN]
    BY NodeType
  <2> QED BY <1>1, <2>1
<1>3. ASSUME NEW n \in Node PROVE [path |-> n, open |-> FALSE] # NoFid
  <2>1. [path |-> n, open |-> FALSE] \in [path : Node, open : BOOLEAN]
    OBVIOUS
  <2> QED BY <1>2, <2>1
<1> QED BY <1>2, <1>3

\* Taking a fid adds at most one to the table and giving one up adds none.
LEMMA UsedFacts ==
  ASSUME NEW U \in SUBSET Fid, NEW f \in Fid
  PROVE  /\ Cardinality(U) \in Nat
         /\ Cardinality(U \cup {f}) <= Cardinality(U) + 1
         /\ Cardinality(U \ {f}) <= Cardinality(U)
<1>1. IsFiniteSet(U) /\ Cardinality(U) \in Nat
  BY StyxAssumption, FS_Subset, FS_CardinalityType
<1>2. Cardinality(U \cup {f}) <= Cardinality(U) + 1
  BY <1>1, FS_AddElement
<1>3. Cardinality(U \ {f}) <= Cardinality(U)
  BY <1>1, FS_RemoveElement
<1> QED BY <1>1, <1>2, <1>3

\* A new reference: the table, the bound and the client's view after it.
LEMMA NewReference ==
  ASSUME TypeOK, Bounded, ~Full, NEW f \in Fid, NEW r \in [path : Node, open : BOOLEAN],
         fids' = [fids EXCEPT ![f] = r]
  PROVE  fids' \in [Fid -> References] /\ Bounded'
<1>1. fids' \in [Fid -> References]
  BY DEF TypeOK, References
<1>2. Used' = Used \cup {f}
  BY RefFacts DEF Used, TypeOK
<1>3. Used \in SUBSET Fid
  BY DEF Used
<1>4. Cardinality(Used) < MaxFids
  <2>1. Cardinality(Used) \in Nat
    BY <1>3, UsedFacts
  <2>2. MaxFids \in Nat
    BY StyxAssumption
  <2> QED BY <2>1, <2>2 DEF Full
<1>5. Cardinality(Used') <= Cardinality(Used) + 1 /\ Cardinality(Used) \in Nat
  BY <1>2, <1>3, UsedFacts
<1>6. Used' \in SUBSET Fid
  BY <1>2, <1>3
<1>7. Cardinality(Used') \in Nat
  BY <1>6, UsedFacts
<1> QED BY <1>1, <1>4, <1>5, <1>7, StyxAssumption DEF Bounded

\* Requests that touch no file read leave what is known of it.
LEMMA ReaderKept ==
  ASSUME IInv, UNCHANGED <<reader, overlong>>
  PROVE  ReaderInv' /\ ReadsFaithful'
  BY DEF IInv, ReaderInv, ReadsFaithful, ReadWhole, WithinMsize

-----------------------------------------------------------------------------
(* One lemma per request.                                                  *)

\* A new server has an empty table, and its client knows of no file.
LEMMA InitIInv == Init => IInv
<1> SUFFICES ASSUME Init PROVE IInv
  OBVIOUS
<1>1. reader = NoReader /\ Len(<<>>) = 0 /\ <<>> \in Seq(Line) /\ SubSeq(<<>>, 1, 0) = <<>>
  BY EmptySeq, SubSeqEmpty DEF Init
<1>2. TypeOK
  <2>1. fids \in [Fid -> References] /\ view \in [Fid -> References]
    BY DEF Init, References
  <2>2. reader \in Reader
    BY <1>1 DEF NoReader, Reader
  <2>3. msize \in 0 .. MaxMsize /\ sessions \in 0 .. MaxSessions
    BY StyxAssumption DEF Init
  <2>4. {panic, version, overlong} \subseteq BOOLEAN
    BY DEF Init
  <2> QED BY <2>1, <2>2, <2>3, <2>4 DEF Init, TypeOK
<1>3. Bounded
  <2>1. Used = {}
    BY DEF Init, Used
  <2>2. Cardinality(Used) = 0
    BY <2>1, FS_EmptySet
  <2> QED BY <2>2, StyxAssumption DEF Bounded
<1>4. ClientAgrees
  BY DEF Init, ClientAgrees
<1>5. ReaderInv
  BY <1>1 DEF NoReader, ReaderInv
<1>6. ReadsFaithful
  BY <1>1 DEF Init, NoReader, ReadsFaithful, ReadWhole, WithinMsize
<1> QED BY <1>2, <1>3, <1>4, <1>5, <1>6 DEF IInv

\* Refused requests, Tstat and what cannot be parsed change nothing.
LEMMA StutterIInv == IInv /\ UNCHANGED vars => IInv'
  BY DEF IInv, vars, table, client, TypeOK, Bounded, Used, ClientAgrees, ReaderInv,
         ReadsFaithful, ReadWhole, WithinMsize

\* Tversion keeps the table, and the client of the new session holds nothing.
LEMMA VersionIInv ==
  ASSUME IInv, ~panic, NEW size \in Msize, Tversion(size)
  PROVE  IInv'
<1> USE DEF IInv
<1>1. TypeOK'
  <2>1. fids' \in [Fid -> References] /\ view' \in [Fid -> References] /\ reader' \in Reader
    BY DEF Tversion, TypeOK, References
  <2>2. msize' \in 0 .. MaxMsize /\ sessions' \in 0 .. MaxSessions
    BY StyxAssumption DEF Tversion, TypeOK
  <2>3. {panic', version', overlong'} \subseteq BOOLEAN
    BY DEF Tversion, TypeOK
  <2>4. response' \in {<<>>, <<"ok">>} /\ memory' \in {"m1", "m2"}
    BY DEF Tversion, TypeOK
  <2> QED BY <2>1, <2>2, <2>3, <2>4 DEF TypeOK
<1>2. Bounded'
  BY DEF Tversion, Bounded, Used
<1>3. ClientAgrees'
  <2>1. \A f \in Fid : view'[f] = NoFid
    BY DEF Tversion
  <2>2. ASSUME ~version' PROVE fids' = view'
    <3>1. \A f \in Fid : fids[f] = NoFid
      BY <2>2 DEF Tversion
    <3> QED BY <3>1 DEF Tversion, TypeOK
  <2> QED BY <2>1, <2>2 DEF ClientAgrees
<1>4. ReaderInv' /\ ReadsFaithful'
  BY ReaderKept DEF Tversion
<1> QED BY <1>1, <1>2, <1>3, <1>4

\* Tattach takes a fid at the root unless the table is full.
LEMMA AttachIInv ==
  ASSUME IInv, ~panic, NEW f \in Fid, Tattach(f)
  PROVE  IInv'
<1> USE DEF IInv
<1>1. CASE Full /\ Refuse
  BY <1>1, StutterIInv DEF Refuse
<1>2. CASE ~(Full /\ Refuse)
  <2> DEFINE r == [path |-> <<>>, open |-> FALSE]
  <2>1. r \in [path : Node, open : BOOLEAN]
    BY DEF Node, Dir
  <2>2. /\ ~Full /\ fids' = [fids EXCEPT ![f] = r] /\ view' = [view EXCEPT ![f] = r]
        /\ UNCHANGED <<msize, response, memory, panic, sessions, version, reader, overlong>>
    BY <1>2 DEF Tattach
  <2> HIDE DEF r
  <2>3. fids' \in [Fid -> References] /\ Bounded'
    BY <2>1, <2>2, NewReference
  <2>4. view' \in [Fid -> References]
    BY <2>1, <2>2 DEF TypeOK, References
  <2>5. TypeOK'
    BY <2>2, <2>3, <2>4 DEF TypeOK
  <2>6. ClientAgrees'
    BY <2>2 DEF ClientAgrees, TypeOK
  <2>7. ReaderInv' /\ ReadsFaithful'
    BY <2>2, ReaderKept
  <2> QED BY <2>3, <2>5, <2>6, <2>7
<1> QED BY <1>1, <1>2

\* Twalk takes or replaces a fid at the node the names lead to, and only if
\* every name is found.
LEMMA WalkIInv ==
  ASSUME IInv, ~panic, NEW f \in Fid, NEW g \in Fid, NEW names \in Walks, Twalk(f, g, names)
  PROVE  IInv'
<1> USE DEF IInv
<1>1. CASE ~CanWalk(f, g, names)
  BY <1>1, StutterIInv DEF Twalk, Refuse
<1>2. CASE CanWalk(f, g, names)
  <2> DEFINE r == [path |-> WalkTo(f, names), open |-> FALSE]
             known == [path |-> view[f].path \o names, open |-> FALSE]
  <2>1. fids[f] \in [path : Node, open : BOOLEAN]
    BY <1>2 DEF CanWalk, TypeOK, References
  <2>2. WalkTo(f, names) \in Node
    <3>1. fids[f].path \in Seq(Name) /\ names \in Seq(Name)
      BY <2>1, NodeType, StyxAssumption
    <3>2. WalkTo(f, names) \in Seq(Name)
      BY <3>1, ConcatProperties DEF WalkTo
    <3> QED BY <1>2, <3>2, ResolvesToNode DEF CanWalk
  <2>3. r \in [path : Node, open : BOOLEAN]
    BY <2>2
  <2>4. /\ fids' = [fids EXCEPT ![g] = r]
        /\ view' = [view EXCEPT ![g] = IF view[f] = NoFid THEN NoFid ELSE known]
        /\ UNCHANGED <<msize, response, memory, panic, sessions, version, reader, overlong>>
    BY <1>2 DEF Twalk
  <2>5. view[f] # NoFid => known = r
    BY DEF ClientAgrees, WalkTo
  <2>6. view[f] = NoFid => version
    BY <1>2 DEF ClientAgrees, CanWalk
  <2>7. f # g => ~Full
    BY <1>2 DEF CanWalk
  <2> HIDE DEF r, known
  <2>8. fids' \in [Fid -> References] /\ Bounded'
    <3>1. CASE f # g
      BY <2>3, <2>4, <2>7, <3>1, NewReference
    <3>2. CASE f = g
      <4>1. fids' \in [Fid -> References]
        BY <2>3, <2>4 DEF TypeOK, References
      <4>2. fids[g] # NoFid
        BY <1>2, <3>2 DEF CanWalk
      <4>3. Used' = Used
        BY <2>3, <2>4, <4>2, RefFacts DEF Used, TypeOK
      <4> QED BY <4>1, <4>3 DEF Bounded
    <3> QED BY <3>1, <3>2
  <2>9. view' \in [Fid -> References]
    BY <2>3, <2>4, <2>5 DEF TypeOK, References
  <2>10. TypeOK'
    BY <2>4, <2>8, <2>9 DEF TypeOK
  <2>11. ClientAgrees'
    BY <2>4, <2>5, <2>6 DEF ClientAgrees, TypeOK
  <2>12. ReaderInv' /\ ReadsFaithful'
    BY <2>4, ReaderKept
  <2> QED BY <2>8, <2>10, <2>11, <2>12
<1> QED BY <1>1, <1>2

\* Topen marks the reference, even when the computation of the iounit panics.
LEMMA OpenIInv ==
  ASSUME IInv, ~panic, NEW f \in Fid, Topen(f)
  PROVE  IInv'
<1> USE DEF IInv
<1>1. CASE fids[f] = NoFid
  BY <1>1, StutterIInv DEF Topen, Refuse
<1>2. CASE fids[f] # NoFid
  <2>1. /\ fids' = [fids EXCEPT ![f].open = TRUE]
        /\ UNCHANGED <<msize, response, memory, sessions, version, reader, overlong>>
    BY <1>2 DEF Topen
  <2>2. \/ /\ view' = IF view[f] = NoFid THEN view ELSE [view EXCEPT ![f].open = TRUE]
           /\ panic' = panic
        \/ panic' = TRUE /\ view' = view
    BY <1>2 DEF Topen
  <2>3. fids[f] \in [path : Node, open : BOOLEAN]
    BY <1>2 DEF TypeOK, References
  <2>4. [fids[f] EXCEPT !.open = TRUE] \in [path : Node, open : BOOLEAN]
    BY <2>3
  <2>5. fids' \in [Fid -> References]
    BY <2>1, <2>4 DEF TypeOK, References
  <2>6. view' \in [Fid -> References]
    <3>1. view[f] # NoFid => [view[f] EXCEPT !.open = TRUE] \in [path : Node, open : BOOLEAN]
      BY DEF TypeOK, References
    <3> QED BY <2>2, <3>1 DEF TypeOK, References
  <2>7. panic' \in BOOLEAN
    BY <2>2 DEF TypeOK
  <2>8. TypeOK'
    BY <2>1, <2>5, <2>6, <2>7 DEF TypeOK
  <2>9. Bounded'
    <3>1. [fids[f] EXCEPT !.open = TRUE] # NoFid
      BY <2>4, RefFacts
    <3>2. Used' = Used
      BY <1>2, <2>1, <3>1 DEF Used, TypeOK
    <3> QED BY <3>2 DEF Bounded
  <2>10. ClientAgrees'
    BY <1>2, <2>1, <2>2 DEF ClientAgrees, TypeOK
  <2>11. ReaderInv' /\ ReadsFaithful'
    BY <2>1, ReaderKept
  <2> QED BY <2>8, <2>9, <2>10, <2>11
<1> QED BY <1>1, <1>2

\* Tread hands out the piece at the offset asked for: the client's file grows
\* by it, and ends when it is empty.
LEMMA ReadIInv ==
  ASSUME IInv, ~panic, NEW f \in Fid, NEW offset \in {0, 1, Len(reader.got)},
         NEW count \in Count, Tread(f, offset, count)
  PROVE  IInv'
<1> USE DEF IInv
<1>1. CASE ~IsOpen(f)
  BY <1>1, StutterIInv DEF Tread, Refuse
<1>2. CASE IsOpen(f)
  <2> DEFINE content == ReadNode(fids[f].path)
             data == Slice(content, offset, count)
  <2>1. /\ overlong' = (overlong \/ (/\ msize >= Header /\ count <= Iounit
                                     /\ 11 + Len(data) > msize))
        /\ reader' = Reading(f, offset, count, content, data)
        /\ UNCHANGED <<table, memory, panic, sessions, view, version>>
    BY <1>2 DEF Tread
  <2>2. content \in Seq(Line)
    BY ContentType
  <2>3. reader \in Reader
    BY DEF TypeOK
  <2>4. /\ reader.got \in Seq(Line) /\ reader.of \in Seq(Line)
        /\ Len(reader.got) \in Nat /\ Len(reader.of) \in Nat
    BY <2>3, LenProperties DEF Reader
  <2>5. offset \in Nat /\ count \in Nat
    BY <2>4, StyxAssumption
  <2> HIDE DEF content
  <2>6. /\ data \in Seq(Line) /\ Len(data) \in Nat /\ Len(data) <= count
        /\ data = <<>> /\ count > 0 => offset >= Len(content)
        /\ offset <= Len(content) =>
             /\ offset + Len(data) <= Len(content)
             /\ SubSeq(content, 1, offset) \o data = SubSeq(content, 1, offset + Len(data))
    BY <2>2, <2>5, SliceFacts
  <2> HIDE DEF data
  <2>7. Len(content) \in Nat
    BY <2>2, LenProperties
  <2>8. overlong' = FALSE
    <3>1. overlong = FALSE
      BY DEF ReadsFaithful, WithinMsize, TypeOK
    <3>2. msize \in Nat
      BY StyxAssumption DEF TypeOK
    <3>3. ~(msize >= Header /\ count <= Iounit /\ 11 + Len(data) > msize)
      BY <2>5, <2>6, <3>2 DEF Header, Iounit
    <3> QED BY <2>1, <3>1, <3>3, Zenon
  <2> DEFINE end == data = <<>> /\ count > 0
  <2>9. reader' \in Reader /\ ReaderInv' /\ ReadWhole'
    <3>1. CASE offset = 0
      <4>1. reader' = [fid |-> f, of |-> content, got |-> data, done |-> end]
        BY <2>1, <3>1 DEF Reading
      <4>2. reader' \in Reader
        BY <2>2, <2>6, <4>1 DEF Reader
      <4>3. Len(data) <= Len(content) /\ data = SubSeq(content, 1, Len(data))
        <5>1. SubSeq(content, 1, 0) \o data = data
          BY <2>6, SubSeqEmpty, ConcatEmptySeq
        <5> QED BY <2>6, <2>7, <3>1, <5>1
      <4>4. end => data = content
        <5>1. end => Len(content) = 0 /\ data = <<>>
          BY <2>6, <2>7, <3>1
        <5> QED BY <2>2, <5>1, EmptySeq
      <4> QED BY <4>1, <4>2, <4>3, <4>4 DEF ReaderInv, ReadWhole
    <3>2. CASE /\ offset # 0 /\ reader.fid = f /\ offset = Len(reader.got) /\ ~reader.done
               /\ content = reader.of
      <4>1. reader' = [reader EXCEPT !.got = @ \o data, !.done = end]
        BY <2>1, <3>2 DEF Reading
      <4>2. reader.got \o data \in Seq(Line) /\ Len(reader.got \o data) = offset + Len(data)
        BY <2>4, <2>6, <3>2, ConcatProperties
      <4>3. reader' \in Reader
        BY <2>3, <4>1, <4>2 DEF Reader
      <4>4. reader'.got = reader.got \o data /\ reader'.of = content /\ reader'.done = end
        BY <2>3, <3>2, <4>1 DEF Reader
      <4>5. /\ offset + Len(data) <= Len(content)
            /\ reader.got \o data = SubSeq(content, 1, offset + Len(data))
        BY <2>6, <3>2 DEF ReaderInv
      <4>6. end => reader.got \o data = content
        <5>1. end => offset + Len(data) = Len(content)
          BY <2>5, <2>6, <2>7, <4>5
        <5>2. SubSeq(content, 1, Len(content)) = content
          BY <2>2, SubSeqFull
        <5> QED BY <4>5, <5>1, <5>2
      <4> QED BY <4>2, <4>3, <4>4, <4>5, <4>6 DEF ReaderInv, ReadWhole
    <3>3. CASE /\ offset # 0
               /\ ~(reader.fid = f /\ offset = Len(reader.got) /\ ~reader.done /\ content = reader.of)
      <4>1. reader' = NoReader
        BY <2>1, <3>3 DEF Reading
      <4>2. Len(<<>>) = 0 /\ <<>> \in Seq(Line) /\ SubSeq(<<>>, 1, 0) = <<>>
        BY EmptySeq, SubSeqEmpty
      <4> QED BY <4>1, <4>2 DEF NoReader, Reader, ReaderInv, ReadWhole
    <3> QED BY <3>1, <3>2, <3>3
  <2>10. TypeOK'
    BY <2>1, <2>8, <2>9 DEF TypeOK, table
  <2>11. Bounded' /\ ClientAgrees'
    BY <2>1 DEF Bounded, Used, ClientAgrees, table
  <2> QED BY <2>8, <2>9, <2>10, <2>11 DEF ReadsFaithful, WithinMsize
<1> QED BY <1>1, <1>2

\* Twrite changes what the ctl file answers, no reference and no file read.
LEMMA WriteIInv ==
  ASSUME IInv, ~panic, NEW f \in Fid, Twrite(f)
  PROVE  IInv'
<1> USE DEF IInv
<1>1. CASE Refuse
  BY <1>1, StutterIInv DEF Refuse
<1>2. CASE ~Refuse
  <2>1. response' = <<"ok">> /\ UNCHANGED <<fids, msize, memory, panic, sessions, client>>
    BY <1>2 DEF Twrite
  <2>2. TypeOK'
    BY <2>1 DEF TypeOK, client
  <2>3. Bounded' /\ ClientAgrees'
    BY <2>1 DEF Bounded, Used, ClientAgrees, client
  <2>4. ReaderInv' /\ ReadsFaithful'
    BY <2>1, ReaderKept DEF client
  <2> QED BY <2>2, <2>3, <2>4
<1> QED BY <1>1, <1>2

\* Tclunk gives the fid up on both sides, known or not.
LEMMA ClunkIInv ==
  ASSUME IInv, ~panic, NEW f \in Fid, Tclunk(f)
  PROVE  IInv'
<1> USE DEF IInv
<1>1. fids' = [fids EXCEPT ![f] = NoFid] /\ view' = [view EXCEPT ![f] = NoFid]
  BY DEF Tclunk
<1>2. TypeOK'
  <2>1. fids' \in [Fid -> References] /\ view' \in [Fid -> References]
    BY <1>1 DEF TypeOK, References
  <2> QED BY <2>1 DEF Tclunk, TypeOK
<1>3. Bounded'
  <2>1. Used' = Used \ {f} /\ Used \in SUBSET Fid /\ Used' \in SUBSET Fid
    BY <1>1 DEF Used, TypeOK
  <2>2. Cardinality(Used') <= Cardinality(Used)
    BY <2>1, UsedFacts
  <2>3. Cardinality(Used') \in Nat /\ Cardinality(Used) \in Nat /\ MaxFids \in Nat
    BY <2>1, UsedFacts, StyxAssumption
  <2> QED BY <2>2, <2>3 DEF Bounded
<1>4. ClientAgrees'
  BY <1>1 DEF Tclunk, ClientAgrees, TypeOK
<1>5. ReaderInv' /\ ReadsFaithful'
  BY ReaderKept DEF Tclunk
<1> QED BY <1>2, <1>3, <1>4, <1>5

\* The report of the memory in use changes under the client.
LEMMA MemoryIInv ==
  ASSUME IInv, ~panic, MemoryChanges
  PROVE  IInv'
<1> USE DEF IInv
<1>1. TypeOK'
  BY DEF MemoryChanges, TypeOK, table, client
<1>2. Bounded' /\ ClientAgrees'
  BY DEF MemoryChanges, Bounded, Used, ClientAgrees, table, client
<1>3. ReaderInv' /\ ReadsFaithful'
  BY ReaderKept DEF MemoryChanges, client
<1> QED BY <1>1, <1>2, <1>3

-----------------------------------------------------------------------------

\* Every request of every client preserves the invariant.
LEMMA NextIInv == IInv /\ [Next]_vars => IInv'
<1> SUFFICES ASSUME IInv, [Next]_vars PROVE IInv'
  OBVIOUS
<1>1. CASE UNCHANGED vars
  BY <1>1, StutterIInv
<1>2. CASE Next
  <2>1. ~panic
    BY <1>2 DEF Next
  <2>2. ASSUME NEW size \in Msize, Tversion(size) PROVE IInv'
    BY <2>1, <2>2, VersionIInv
  <2>3. ASSUME NEW f \in Fid, Tattach(f) PROVE IInv'
    BY <2>1, <2>3, AttachIInv
  <2>4. ASSUME NEW f \in Fid, Topen(f) PROVE IInv'
    BY <2>1, <2>4, OpenIInv
  <2>5. ASSUME NEW f \in Fid, Twrite(f) PROVE IInv'
    BY <2>1, <2>5, WriteIInv
  <2>6. ASSUME NEW f \in Fid, Tclunk(f) PROVE IInv'
    BY <2>1, <2>6, ClunkIInv
  <2>7. ASSUME NEW f \in Fid, NEW g \in Fid, NEW names \in Walks, Twalk(f, g, names)
        PROVE  IInv'
    BY <2>1, <2>7, WalkIInv
  <2>8. ASSUME NEW f \in Fid, NEW offset \in {0, 1, Len(reader.got)}, NEW count \in Count,
               Tread(f, offset, count)
        PROVE  IInv'
    BY <2>1, <2>8, ReadIInv
  <2>9. ASSUME NEW f \in Fid, Tstat(f) PROVE IInv'
    BY <2>9, StutterIInv DEF Tstat
  <2>10. CASE Unparsed
    BY <2>10, StutterIInv DEF Unparsed, Refuse
  <2>11. CASE MemoryChanges
    BY <2>1, <2>11, MemoryIInv
  <2> QED BY <1>2, <2>2, <2>3, <2>4, <2>5, <2>6, <2>7, <2>8, <2>9, <2>10, <2>11 DEF Next
<1> QED BY <1>1, <1>2

\* The inductive invariant of the server and its client.
THEOREM Invariance == Spec => []IInv
  BY InitIInv, NextIInv, PTL DEF Spec

\* What the client infers from the replies of dispatch() is what the table
\* holds, every reference is at a node of the tree, and the table keeps to
\* MAX_FIDS, for any number of fids, walks and refusals.
THEOREM FidsCorrect == Spec => []FidsConsistent
<1>1. IInv => FidsConsistent
  BY DEF IInv, FidsConsistent
<1> QED BY <1>1, Invariance, PTL

\* A file read piece by piece is the file, and no reply to a client that keeps
\* to the iounit is longer than the message size, for files and pieces of any
\* length.
THEOREM ReadsCorrect == Spec => []ReadsFaithful
<1>1. IInv => ReadsFaithful
  BY DEF IInv
<1> QED BY <1>1, Invariance, PTL

-----------------------------------------------------------------------------
(* The resolver.                                                           *)

\* A step of the resolver, or of the command that sets the address.
DnsStep ==
  \/ Tick \/ UseCached \/ Ask \/ NoAnswer
  \/ \E ip \in Address \cup {NoAddress} : SetTarget(ip)
  \/ \E ip \in Address, ttl \in Ttl : Answer(ip, ttl)

\* The resolver begins with an empty cache and no socket.
LEMMA DnsInitIInv == DnsInit => DnsIInv
  BY DnsAssumption DEF DnsInit, DnsIInv, DnsTypeOK, NoEntry, NoQuery

\* An answer is cached for a time that is a number.
LEMMA LifetimeType == ASSUME NEW ttl \in Nat PROVE Lifetime(ttl) \in Nat
  BY DnsAssumption DEF Lifetime

\* Every step of the resolver preserves its invariant.
LEMMA DnsStepIInv ==
  ASSUME DnsIInv, DnsStep \/ UNCHANGED dnsVars
  PROVE  DnsIInv'
<1> USE DnsAssumption DEF DnsIInv, DnsTypeOK
<1>1. CASE UNCHANGED dnsVars
  BY <1>1 DEF dnsVars, Lifetime
<1>2. CASE Tick
  BY <1>2 DEF Tick, Lifetime
<1>3. CASE UseCached
  <2>1. target' \in Address \cup {NoAddress}
    BY <1>3 DEF UseCached, Cached
  <2> QED BY <1>3, <2>1 DEF UseCached, Lifetime
<1>4. CASE Ask
  BY <1>4 DEF Ask, Lifetime
<1>5. CASE NoAnswer
  BY <1>5 DEF NoAnswer, NoQuery, Drop, Lifetime
<1>6. ASSUME NEW ip \in Address \cup {NoAddress}, SetTarget(ip) PROVE DnsIInv'
  BY <1>6 DEF SetTarget, Lifetime
<1>7. ASSUME NEW ip \in Address, NEW ttl \in Ttl, Answer(ip, ttl) PROVE DnsIInv'
  <2>1. ttl \in Nat /\ Lifetime(ttl) \in Nat
    BY LifetimeType
  <2>2. cache' = [ip |-> ip, expires |-> query.asked + Lifetime(ttl)]
    BY <1>7 DEF Answer
  <2>3. answered' = [asked |-> query.asked, ttl |-> ttl]
    BY <1>7 DEF Answer
  <2>4. cache'.expires = answered'.asked + Lifetime(answered'.ttl)
    BY <2>2, <2>3
  <2>5. DnsTypeOK' /\ udp' = IF query'.open THEN 1 ELSE 0
    BY <1>7, <2>1, <2>2, <2>3 DEF Answer, NoQuery, Drop
  <2>6. (Lifetime(answered.ttl))' = Lifetime(answered'.ttl)
    BY DEF Lifetime
  <2> QED BY <2>4, <2>5, <2>6
<1> QED BY <1>1, <1>2, <1>3, <1>4, <1>5, <1>6, <1>7 DEF DnsStep

\* An entry that has not expired is as fresh as its answer.
LEMMA FreshFromIInv == DnsIInv => FreshAddress
<1> SUFFICES ASSUME DnsIInv PROVE FreshAddress
  OBVIOUS
<1> USE DnsAssumption DEF DnsIInv, DnsTypeOK
<1>1. ASSUME NEW ip \in Cached
      PROVE  \/ ip = manual
             \/ now < answered.asked + answered.ttl /\ now < answered.asked + TtlCap
  <2>1. CASE manual # NoAddress
    BY <1>1, <2>1 DEF Cached
  <2>2. CASE manual = NoAddress
    <3>1. cache.ip # NoAddress /\ cache.expires > now
      BY <1>1, <2>2 DEF Cached
    <3>2. now < answered.asked + Lifetime(answered.ttl)
      BY <3>1, LifetimeType
    <3> QED BY <3>2 DEF Lifetime
  <2> QED BY <2>1, <2>2
<1>2. udp = 0 \/ query.open
  OBVIOUS
<1> QED BY <1>1, <1>2 DEF FreshAddress

-----------------------------------------------------------------------------
(* The pauses between attempts.                                            *)

\* The pause of the back-off is never none.
LEMMA BackOff == ASSUME NEW n \in Nat PROVE Backoff(n) \in Nat \ {0}
<1> DEFINE a == Lesser(n, 4)
<1>a. a \in Nat
  BY DEF Lesser
<1> HIDE DEF a
<1>1. IsFiniteSet(1 .. a) /\ Cardinality(1 .. a) = a
  <2>1. a \in Int /\ 1 \in Int
    BY <1>a
  <2> QED BY <1>a, <2>1, FS_Interval
<1>2. IsFiniteSet(SUBSET (1 .. a)) /\ Cardinality(SUBSET (1 .. a)) = 2 ^ a
  BY <1>1, FS_SUBSET
<1>3. SUBSET (1 .. a) # {}
  OBVIOUS
<1>4. Cardinality(SUBSET (1 .. a)) # 0
  BY <1>2, <1>3, FS_EmptySet
<1>5. 2 ^ a # 0
  BY <1>2, <1>4, Zenon
<1>6. \A x, y \in Nat \ {0} : x * y \in Nat \ {0}
  OBVIOUS
<1>7. 2 ^ a \in Nat
  <2>1. Cardinality(SUBSET (1 .. a)) \in Nat
    BY <1>2, FS_CardinalityType
  <2> QED BY <1>2, <2>1, Zenon
<1>8. BaseDelay \in Nat \ {0} /\ 2 ^ a \in Nat \ {0}
  BY <1>5, <1>7, ApiClientAssumption
<1> QED BY <1>6, <1>8 DEF Backoff, a

\* The wait before the next attempt covers the back-off and what the peer asked.
LEMMA WaitFacts ==
  ASSUME NEW a \in Nat, NEW r \in RetryAfter
  PROVE  /\ Wait(a, r) \in Nat /\ Pause(r) \in Nat
         /\ Wait(a, r) >= Backoff((a + 1) - 1)
         /\ r * 1000 < WordSize => Wait(a, r) > Lesser(r * 1000, RetryAfterCap)
<1> DEFINE b == Backoff(a)
           m == r * 1000
<1>1. b \in Nat \ {0}
  BY BackOff
<1>2. (a + 1) - 1 = a
  OBVIOUS
<1>3. m \in Nat /\ RetryAfterCap \in Nat /\ WordSize \in Nat \ {0}
  BY ApiClientAssumption
<1>4. /\ Pause(r) \in Nat /\ Lesser(m, RetryAfterCap) \in Nat
      /\ m < WordSize => Pause(r) = Lesser(m, RetryAfterCap)
  <2>1. Pause(r) = Lesser(m % WordSize, RetryAfterCap)
    BY DEF Pause
  <2> HIDE DEF m
  <2>2. m % WordSize \in Nat /\ (m < WordSize => m % WordSize = m)
    BY <1>3
  <2> QED BY <1>3, <2>1, <2>2 DEF Lesser
<1>5. Wait(a, r) = Pause(r) + b
  BY DEF Wait
<1> HIDE DEF b, m
<1>6. /\ Wait(a, r) \in Nat /\ Wait(a, r) >= b
      /\ m < WordSize => Wait(a, r) > Lesser(m, RetryAfterCap)
  BY <1>1, <1>3, <1>4, <1>5
<1>7. b = Backoff((a + 1) - 1)
  BY <1>2 DEF b
<1> QED BY <1>4, <1>6, <1>7 DEF m

-----------------------------------------------------------------------------
(* A request.                                                              *)

\* The errors an attempt fails with.
Kinds ==
  {"ConnectionFailed", "ConnectionTimeout", "Refused", "HttpStatus", "TlsHandshakeFailed",
   "SendFailed", "EmptyResponse", "ApiError"}

\* Before the first event nothing has been sent.
LEMMA NothingSent ==
  /\ blocks = <<>> => SentText = {} /\ SentCalls = {} /\ ~InBlock
  /\ (blocks = <<>>)' => SentText' = {} /\ SentCalls' = {} /\ ~InBlock'
  BY DEF SentText, SentCalls, InBlock

\* What was sent depends on the blocks and on the number of the request alone.
LEMMA SentKept ==
  ASSUME UNCHANGED <<blocks, serial>>
  PROVE  /\ SentText' = SentText /\ SentCalls' = SentCalls /\ InBlock' = InBlock
         /\ \A i : (SentCall(i))' = SentCall(i)
  BY DEF SentText, SentCalls, SentCall, InBlock

\* Where nothing was sent, nothing was parsed and nothing printed.
LEMMA NothingParsed ==
  ASSUME ApiIInv, pc # "idle", blocks = <<>>
  PROVE  text = <<>> /\ printed = <<>> /\ calls = <<>> /\ cur = NoTool
<1>1. Range(text) = {} /\ Range(calls) = {} /\ ~InBlock
  BY NothingSent DEF ApiIInv, StreamInv, IsSentText, IsSentCalls
<1>2. DOMAIN text = {} /\ DOMAIN calls = {}
  BY <1>1 DEF Range
<1>3. text = <<>> /\ calls = <<>>
  BY <1>2 DEF ApiIInv, ApiTypeOK
<1> QED BY <1>1, <1>3 DEF ApiIInv, StreamInv

\* The empty text and no calls are what was sent when nothing was.
LEMMA EmptyStream ==
  ASSUME (blocks = <<>> /\ text = <<>> /\ calls = <<>> /\ events \in Nat)'
  PROVE  /\ IsSentText(text)' /\ IsSentCalls(calls)'
         /\ (Len(blocks) <= events)' /\ (\A i \in 1 .. Len(blocks) - 1 : blocks[i].closed)'
         /\ (\A t \in SentText : t <= events)' /\ ~InBlock'
<1>1. SentText' = {} /\ SentCalls' = {} /\ ~InBlock'
  BY NothingSent
<1> QED BY <1>1 DEF IsSentText, IsSentCalls, Range

\* While a request is under way it has returned nothing.
LEMMA BusyIInv ==
  ASSUME (ApiTypeOK /\ pc # "idle" /\ StreamInv /\ accepted <= 1 /\ RetryAfterHonoured)'
  PROVE  ApiIInv'
  BY DEF ApiIInv, StreamInv, AnswerFaithful, AnswerIsWhatWasSent, WholeAnswer, RetriesSafe,
         AcceptedOnce, NoResult

\* A request begins with nothing sent, and ends with its result taken.
LEMMA FreshIInv ==
  ASSUME ApiIInv, Fresh, pc' \in {"idle", "connect"}, mode' \in {"plain", "tls", "agentic"},
         serial' \in Nat
  PROVE  ApiIInv'
<1> USE DEF Fresh
<1>1. ApiTypeOK'
  BY ApiClientAssumption DEF ApiIInv, ApiTypeOK, NoResult, Outcome
<1>2. StreamInv'
  BY EmptyStream DEF StreamInv
<1>3. AnswerFaithful'
  BY DEF AnswerFaithful, AnswerIsWhatWasSent, WholeAnswer, NoResult
<1>4. RetriesSafe'
  BY DEF RetriesSafe, AcceptedOnce, RetryAfterHonoured, NoResult
<1> QED BY <1>1, <1>2, <1>3, <1>4 DEF ApiIInv

\* An attempt that fails leaves nothing behind, and only one that was never
\* accepted is followed by another.
LEMMA FailIInv ==
  ASSUME ApiIInv, pc # "idle", NEW kind \in Kinds, NEW r \in RetryAfter, Fail(kind, r),
         kind \in Retryable => pc # "stream",
         UNCHANGED <<mode, serial, printed, accepted>>,
         sock' \in {"none", "open", "closed"}, ending' \in {"open", "complete", "broken", "mention"}
  PROVE  ApiIInv'
<1> USE ApiClientAssumption
<1>1. ApiTypeOK /\ StreamInv /\ RetriesSafe
  BY DEF ApiIInv
<1>2. attempt \in Nat /\ Wait(attempt, r) \in Nat /\ Pause(r) \in Nat
  <2>1. attempt \in Nat
    BY <1>1 DEF ApiTypeOK
  <2> QED BY <2>1, WaitFacts
<1>3. /\ (blocks = <<>> /\ text = <<>> /\ calls = <<>> /\ events \in Nat)'
      /\ cur' = NoTool /\ owed' = r
  BY DEF Fail
<1>4. CASE kind \in Retryable /\ attempt < MaxRetries
  <2>1. pc' = "connect" /\ attempt' = attempt + 1 /\ waited' = Wait(attempt, r) /\ result' = result
    BY <1>4 DEF Fail
  <2>2. ApiTypeOK'
    BY <1>1, <1>2, <1>3, <1>4, <2>1 DEF ApiTypeOK, Fail
  <2>3. blocks = <<>> /\ accepted = 0 /\ result = NoResult
    BY <1>1, <1>4 DEF StreamInv
  <2>4. printed = <<>>
    BY <2>3, NothingParsed
  <2>5. StreamInv'
    BY <1>3, <2>1, <2>3, <2>4, EmptyStream DEF StreamInv
  <2>6. RetryAfterHonoured'
    BY <1>2, <1>3, <2>1, WaitFacts DEF RetryAfterHonoured
  <2> QED BY <2>1, <2>2, <2>3, <2>5, <2>6, BusyIInv
<1>5. CASE ~(kind \in Retryable /\ attempt < MaxRetries)
  <2>1. /\ pc' = "idle" /\ attempt' = attempt
        /\ result' = Err(IF kind = "ConnectionFailed" THEN "ConnectionTimeout" ELSE kind)
        /\ waited' \in {Pause(r), waited}
    BY <1>5 DEF Fail
  <2>2. /\ result'.kind \in Outcome \ {"answer", "content"}
        /\ result' \in [kind : Outcome, text : Seq(Token), calls : Seq(Call)]
    BY <2>1 DEF Err, Outcome, Kinds
  <2>3. ApiTypeOK'
    BY <1>1, <1>2, <1>3, <2>1, <2>2 DEF ApiTypeOK, Fail
  <2>4. StreamInv' /\ RetryAfterHonoured'
    BY <2>1 DEF StreamInv, RetryAfterHonoured
  <2>5. AnswerFaithful'
    BY <2>2 DEF AnswerFaithful, AnswerIsWhatWasSent, WholeAnswer
  <2>6. AcceptedOnce'
    BY <1>1, <2>2 DEF RetriesSafe, AcceptedOnce
  <2> QED BY <2>3, <2>4, <2>5, <2>6 DEF ApiIInv, RetriesSafe
<1> QED BY <1>4, <1>5

\* A step of the attempt in which nothing of the answer arrives.
LEMMA QuietIInv ==
  ASSUME ApiIInv, pc # "idle", pc' # "idle",
         pc' \in {"handshake", "send", "headers", "stream"},
         pc' # "stream" => pc # "stream" /\ accepted' = accepted,
         UNCHANGED <<mode, attempt, waited, serial, parsed, result, blocks, events, owed, ending>>,
         sock' \in {"none", "open", "closed"}, accepted' \in Nat, accepted' <= 1
  PROVE  ApiIInv'
<1>1. ApiTypeOK /\ StreamInv /\ RetriesSafe
  BY DEF ApiIInv
<1>2. ApiTypeOK'
  BY <1>1 DEF ApiTypeOK, parsed
<1>3. SentText' = SentText /\ SentCalls' = SentCalls /\ InBlock' = InBlock
  BY SentKept
<1>4. (SentCall(Len(blocks)))' = SentCall(Len(blocks))
  BY DEF SentCall
<1>5. StreamInv'
  BY <1>1, <1>3, <1>4 DEF StreamInv, IsSentText, IsSentCalls, parsed
<1>6. RetryAfterHonoured'
  BY <1>1 DEF RetriesSafe, RetryAfterHonoured
<1> QED BY <1>2, <1>5, <1>6, BusyIInv

\* An answer is returned as it was parsed, and its end was noticed.
LEMMA AnswerIInv ==
  ASSUME (ApiTypeOK /\ pc = "idle" /\ result = Ok("answer", text, calls) /\ printed = text)',
         (IsSentText(text) /\ IsSentCalls(calls) /\ ending # "open" /\ accepted <= 1)'
  PROVE  ApiIInv'
<1>1. StreamInv' /\ RetryAfterHonoured'
  BY DEF StreamInv, RetryAfterHonoured
<1>2. result'.kind = "answer" /\ result'.text = text' /\ result'.calls = calls'
  BY DEF Ok
<1>3. AnswerFaithful'
  BY <1>2 DEF AnswerFaithful, AnswerIsWhatWasSent, WholeAnswer, IsSentText, IsSentCalls
<1>4. AcceptedOnce'
  BY <1>2 DEF AcceptedOnce
<1> QED BY <1>1, <1>3, <1>4 DEF ApiIInv, RetriesSafe

-----------------------------------------------------------------------------
(* The events of an answer.                                                *)

\* The blocks of an answer are all closed but the last, and what each holds
\* has its type.
LEMMA StreamFacts ==
  ASSUME ApiIInv, pc = "stream"
  PROVE  /\ blocks \in Seq(Block) /\ text \in Seq(Token) /\ calls \in Seq(Call)
         /\ events \in 0 .. MaxEvents /\ Len(blocks) \in 0 .. events /\ serial \in Nat
         /\ \A i \in 1 .. Len(blocks) - 1 : blocks[i].closed
         /\ printed = text /\ IsSentText(text) /\ IsSentCalls(calls)
         /\ \A t \in SentText : t <= events
         /\ cur = IF InBlock /\ Last(blocks).tool THEN SentCall(Len(blocks)) ELSE NoTool
         /\ result = NoResult /\ accepted <= 1
  BY DEF ApiIInv, ApiTypeOK, StreamInv, RetriesSafe, AcceptedOnce

\* What is sent of a text are tokens.
LEMMA SentTokens ==
  ASSUME blocks \in Seq(Block)
  PROVE  SentText \subseteq Token
<1> SUFFICES ASSUME NEW t \in SentText PROVE t \in Token
  OBVIOUS
<1>1. PICK i \in DOMAIN blocks : t \in Range(blocks[i].deltas)
  BY DEF SentText
<1>2. blocks[i] \in Block
  BY <1>1
<1>3. blocks[i].deltas \in Seq(Token)
  BY <1>2 DEF Block
<1> QED BY <1>1, <1>3 DEF Range

\* A sequence with one more element.
LEMMA RangeAppend ==
  ASSUME NEW S, NEW s \in Seq(S), NEW x \in S
  PROVE  Range(Append(s, x)) = Range(s) \cup {x}
<1>1. /\ DOMAIN s = 1 .. Len(s) /\ DOMAIN Append(s, x) = 1 .. Len(s) + 1 /\ Len(s) \in Nat
      /\ Append(s, x)[Len(s) + 1] = x /\ \A i \in 1 .. Len(s) : Append(s, x)[i] = s[i]
  OBVIOUS
<1>2. \A i \in 1 .. Len(s) + 1 : i \in 1 .. Len(s) \/ i = Len(s) + 1
  BY <1>1
<1>3. (\A i \in 1 .. Len(s) : i \in 1 .. Len(s) + 1) /\ Len(s) + 1 \in 1 .. Len(s) + 1
  BY <1>1
<1> QED BY <1>1, <1>2, <1>3 DEF Range

\* The peer begins a block.
LEMMA BlockStartIInv ==
  ASSUME ApiIInv, NEW tool \in BOOLEAN, BlockStart(tool)
  PROVE  ApiIInv'
<1> USE ApiClientAssumption
<1> DEFINE new == [tool |-> tool, deltas |-> <<>>, closed |-> FALSE]
           n == Len(blocks)
<1>1. pc = "stream" /\ ~InBlock /\ events < MaxEvents
  BY DEF BlockStart
<1>2. /\ blocks \in Seq(Block) /\ events \in 0 .. MaxEvents /\ n \in 0 .. events /\ serial \in Nat
      /\ cur = NoTool
  BY <1>1, StreamFacts
<1>3. blocks' = Append(blocks, new) /\ new \in Block /\ events' = events + 1
  BY DEF BlockStart, Block
<1>4. /\ blocks' \in Seq(Block) /\ Len(blocks') = n + 1 /\ blocks'[n + 1] = new
      /\ \A i \in 1 .. n : blocks'[i] = blocks[i]
      /\ DOMAIN blocks = 1 .. n /\ DOMAIN blocks' = 1 .. n + 1
  BY <1>2, <1>3
<1>5. cur' = IF tool THEN [id |-> <<serial, n + 1>>, input |-> <<>>] ELSE NoTool
  BY <1>2 DEF BlockStart
<1>6. cur' \in Call \cup {NoTool}
  <2>1. n + 1 \in 1 .. MaxEvents
    BY <1>1, <1>2
  <2> QED BY <1>2, <1>5, <2>1 DEF Call
<1>7. ApiTypeOK'
  BY <1>1, <1>2, <1>3, <1>4, <1>6 DEF ApiIInv, ApiTypeOK, BlockStart, request
<1>8. SentText' = SentText
  <2>1. Range(new.deltas) = {}
    BY DEF Range
  <2>2. \A i \in 1 .. n : blocks'[i].deltas = blocks[i].deltas /\ blocks'[i].tool = blocks[i].tool
    BY <1>4
  <2>3. \A i \in 1 .. n + 1 : i \in 1 .. n \/ i = n + 1
    BY <1>2
  <2>4. SentText' \subseteq SentText
    BY <1>4, <2>1, <2>2, <2>3 DEF SentText
  <2>5. \A i \in 1 .. n : i \in 1 .. n + 1
    BY <1>2
  <2>6. SentText \subseteq SentText'
    BY <1>4, <2>2, <2>5 DEF SentText
  <2> QED BY <2>4, <2>6
<1>9. SentCalls' = SentCalls
  <2>1. \A i \in 1 .. n : (SentCall(i))' = SentCall(i)
    BY <1>4 DEF SentCall, BlockStart, request
  <2>2. \A i \in 1 .. n + 1 : i \in 1 .. n \/ (i = n + 1 /\ ~blocks'[i].closed)
    BY <1>2, <1>4
  <2>3. \A i \in 1 .. n : i \in 1 .. n + 1
    BY <1>2
  <2> QED BY <1>4, <2>1, <2>2, <2>3 DEF SentCalls
<1>10. \A i \in 1 .. n : blocks[i].closed
  <2>1. n > 0 => blocks[n].closed
    BY <1>1, <1>2 DEF InBlock, Last
  <2> QED BY <1>1, <1>2, <2>1, StreamFacts
<1>11. (SentCall(Len(blocks)))' = [id |-> <<serial, n + 1>>, input |-> <<>>]
  BY <1>4 DEF SentCall, BlockStart, request
<1>12. InBlock' /\ (Last(blocks).tool)' = tool
  BY <1>4, <1>2 DEF InBlock, Last
<1>13. /\ text' = text /\ printed' = printed /\ calls' = calls /\ pc' = pc /\ result' = result
       /\ accepted' = accepted /\ UNCHANGED <<attempt, waited, owed>>
  BY DEF BlockStart, request
<1>14. StreamInv'
  <2>1. /\ IsSentText(text)' /\ IsSentCalls(calls)'
    BY <1>1, <1>8, <1>9, <1>13, StreamFacts DEF IsSentText, IsSentCalls
  <2>2. (\A t \in SentText : t <= events)'
    <3>1. SentText \subseteq Nat
      BY <1>2, SentTokens DEF Token
    <3> QED BY <1>1, <1>2, <1>3, <1>8, <3>1, StreamFacts
  <2>3. (Len(blocks) <= events)' /\ (\A i \in 1 .. Len(blocks) - 1 : blocks[i].closed)'
    BY <1>2, <1>3, <1>4, <1>10
  <2>4. (cur = IF InBlock /\ Last(blocks).tool THEN SentCall(Len(blocks)) ELSE NoTool)'
    BY <1>5, <1>11, <1>12
  <2>5. printed' = text' /\ result' = NoResult
    BY <1>1, <1>13, StreamFacts
  <2> QED BY <1>1, <1>13, <2>1, <2>2, <2>3, <2>4, <2>5 DEF StreamInv
<1>15. RetryAfterHonoured'
  BY <1>13 DEF ApiIInv, RetriesSafe, RetryAfterHonoured
<1> QED BY <1>1, <1>7, <1>13, <1>14, <1>15, BusyIInv, StreamFacts

\* A token of text or of tool input arrives.
LEMMA DeltaIInv ==
  ASSUME ApiIInv, NEW mention \in BOOLEAN, Delta(mention)
  PROVE  ApiIInv'
<1> USE ApiClientAssumption
<1> DEFINE n == Len(blocks)
           e == events + 1
           d == Append(blocks[n].deltas, e)
<1>1. pc = "stream" /\ InBlock /\ events < MaxEvents /\ (mention => ~Last(blocks).tool)
  BY DEF Delta
<1>2. /\ blocks \in Seq(Block) /\ events \in 0 .. MaxEvents /\ n \in 0 .. events /\ serial \in Nat
      /\ text \in Seq(Token) /\ calls \in Seq(Call) /\ printed = text
  BY <1>1, StreamFacts
<1>3. n \in 1 .. events /\ e \in Token /\ Last(blocks) = blocks[n] /\ ~blocks[n].closed
  BY <1>1, <1>2 DEF InBlock, Last, Token
<1>4. d \in Seq(Token) /\ blocks[n] \in Block
  <2>1. blocks[n] \in Block
    BY <1>2, <1>3
  <2>2. blocks[n].deltas \in Seq(Token)
    BY <2>1 DEF Block
  <2> QED BY <1>3, <2>1, <2>2
<1>5. /\ blocks' \in Seq(Block) /\ Len(blocks') = n
      /\ blocks'[n] = [blocks[n] EXCEPT !.deltas = d]
      /\ \A i \in 1 .. n : i # n => blocks'[i] = blocks[i]
      /\ DOMAIN blocks = 1 .. n /\ DOMAIN blocks' = 1 .. n
  <2>1. blocks' = [blocks EXCEPT ![n] = [blocks[n] EXCEPT !.deltas = d]]
    BY DEF Delta
  <2>2. [blocks[n] EXCEPT !.deltas = d] \in Block
    BY <1>4 DEF Block
  <2>3. n \in 1 .. Len(blocks) /\ DOMAIN blocks = 1 .. n
    BY <1>2, <1>3
  <2> HIDE DEF n, d
  <2>4. \A b \in Block : LET c == [blocks EXCEPT ![n] = b] IN
          /\ c \in Seq(Block) /\ Len(c) = n /\ c[n] = b /\ DOMAIN c = 1 .. n
          /\ \A i \in 1 .. n : i # n => c[i] = blocks[i]
    <3> SUFFICES ASSUME NEW b \in Block
                 PROVE  LET c == [blocks EXCEPT ![n] = b] IN
                          /\ c \in Seq(Block) /\ Len(c) = n /\ c[n] = b /\ DOMAIN c = 1 .. n
                          /\ \A i \in 1 .. n : i # n => c[i] = blocks[i]
      OBVIOUS
    <3> DEFINE c == [blocks EXCEPT ![n] = b]
    <3>1. /\ c \in Seq(Block) /\ Len(c) = Len(blocks)
          /\ \A j \in 1 .. Len(blocks) : c[j] = IF j = n THEN b ELSE blocks[j]
      BY <1>2, <2>3, ExceptSeq
    <3>2. DOMAIN c = DOMAIN blocks
      OBVIOUS
    <3> QED BY <2>3, <3>1, <3>2 DEF n
  <2> QED BY <2>1, <2>2, <2>3, <2>4
<1>6. /\ blocks'[n].deltas = d /\ blocks'[n].tool = blocks[n].tool /\ ~blocks'[n].closed
  BY <1>3, <1>4, <1>5 DEF Block
<1>7. UNCHANGED <<mode, serial, calls, accepted>> /\ events' = e
  BY DEF Delta
<1>8. SentCalls' = SentCalls
  <2>1. \A i \in 1 .. n : i # n => (SentCall(i))' = SentCall(i)
    BY <1>5, <1>7 DEF SentCall
  <2>2. \A i \in 1 .. n :
          /\ blocks'[i].tool /\ blocks'[i].closed <=> blocks[i].tool /\ blocks[i].closed
          /\ blocks[i].closed => i # n
    BY <1>3, <1>5, <1>6
  <2> HIDE DEF n
  <2>3. SentCalls' \subseteq SentCalls
    BY <1>5, <2>1, <2>2 DEF SentCalls
  <2>4. SentCalls \subseteq SentCalls'
    BY <1>5, <2>1, <2>2 DEF SentCalls
  <2> QED BY <2>3, <2>4
<1>9. InBlock' /\ (Last(blocks))' = blocks'[n]
  BY <1>3, <1>5, <1>6 DEF InBlock, Last
<1>10. (Len(blocks) <= events)' /\ (\A i \in 1 .. Len(blocks) - 1 : blocks[i].closed)'
  BY <1>1, <1>2, <1>3, <1>5, <1>7, StreamFacts
<1>11. IsSentCalls(calls)'
  BY <1>1, <1>7, <1>8, StreamFacts DEF IsSentCalls
<1>12. SentText \subseteq Nat /\ \A t \in SentText : t <= events
  BY <1>1, <1>2, StreamFacts, SentTokens DEF Token
<1>13. accepted' <= 1 /\ result = NoResult
  BY <1>1, <1>7, StreamFacts
<1>14. CASE blocks[n].tool
  <2>1. ~mention /\ ~StopsAt("delta", mention)
    BY <1>1, <1>3, <1>14 DEF StopsAt
  <2>2. /\ cur' = [cur EXCEPT !.input = Append(@, e)] /\ UNCHANGED <<text, printed>>
        /\ UNCHANGED <<pc, result, attempt, waited, owed, sock, ending>>
    BY <1>3, <1>14, <2>1 DEF Delta
  <2>3. cur = SentCall(n)
    BY <1>1, <1>3, <1>14, StreamFacts
  <2>4. cur' = (SentCall(Len(blocks)))'
    BY <1>5, <1>6, <1>7, <2>2, <2>3 DEF SentCall
  <2>5. cur' \in Call
    <3>1. n \in 1 .. MaxEvents /\ serial' \in Nat
      BY <1>2, <1>3, <1>7
    <3>2. cur' = [id |-> <<serial', n>>, input |-> d]
      BY <1>5, <1>6, <2>4 DEF SentCall
    <3> HIDE DEF n, d
    <3> QED BY <1>4, <3>1, <3>2 DEF Call
  <2>6. ApiTypeOK'
    BY <1>2, <1>3, <1>5, <1>7, <2>2, <2>5 DEF ApiIInv, ApiTypeOK, Token
  <2>7. SentText' = SentText
    BY <1>3, <1>5, <1>6, <1>14, ZenonT(40) DEF SentText
  <2>8. IsSentText(text)' /\ (\A t \in SentText : t <= events)'
    <3>1. IsSentText(text)'
      BY <1>1, <2>2, <2>7, StreamFacts DEF IsSentText
    <3>2. \A t \in SentText : t <= e
      BY <1>2, <1>12
    <3> QED BY <1>7, <2>7, <3>1, <3>2
  <2>9. (Last(blocks).tool)'
    BY <1>6, <1>9, <1>14
  <2>10. StreamInv'
    BY <1>1, <1>2, <1>9, <1>10, <1>11, <1>13, <2>2, <2>4, <2>8, <2>9 DEF StreamInv
  <2>11. RetryAfterHonoured'
    BY <2>2 DEF ApiIInv, RetriesSafe, RetryAfterHonoured
  <2> QED BY <1>1, <1>13, <2>2, <2>6, <2>10, <2>11, BusyIInv
<1>15. CASE ~blocks[n].tool
  <2>1. text' = Append(text, e) /\ printed' = Append(printed, e) /\ cur' = cur
    BY <1>3, <1>15 DEF Delta
  <2>2. cur = NoTool
    BY <1>1, <1>3, <1>15, StreamFacts
  <2>3. text' \in Seq(Token) /\ printed' = text'
    BY <1>2, <1>3, <2>1
  <2>4. SentText' = SentText \cup {e}
    <3>1. \A i \in 1 .. n : i # n => /\ blocks'[i].tool = blocks[i].tool
                                     /\ Range(blocks'[i].deltas) = Range(blocks[i].deltas)
      BY <1>5
    <3>2. Range(blocks'[n].deltas) = Range(blocks[n].deltas) \cup {e} /\ ~blocks'[n].tool
      <4>1. blocks[n].deltas \in Seq(Token)
        BY <1>4 DEF Block
      <4> QED BY <1>3, <1>6, <1>15, <4>1, RangeAppend
    <3>3. n \in DOMAIN blocks /\ n \in DOMAIN blocks' /\ DOMAIN blocks = DOMAIN blocks'
      BY <1>3, <1>5
    <3>4. e \in SentText'
      BY <3>2, <3>3 DEF SentText
    <3> HIDE DEF n, e
    <3>5. ASSUME NEW t \in SentText PROVE t \in SentText'
      <4>1. PICK i \in 1 .. n : ~blocks[i].tool /\ t \in Range(blocks[i].deltas)
        BY <1>5 DEF SentText
      <4>2. ~blocks'[i].tool /\ t \in Range(blocks'[i].deltas)
        BY <3>1, <3>2, <4>1
      <4> QED BY <1>5, <4>2 DEF SentText
    <3>6. ASSUME NEW t \in SentText' PROVE t \in SentText \cup {e}
      <4>1. PICK i \in 1 .. n : ~blocks'[i].tool /\ t \in Range(blocks'[i].deltas)
        BY <1>5 DEF SentText
      <4>2. CASE i # n
        BY <1>5, <3>1, <4>1, <4>2 DEF SentText
      <4>3. CASE i = n
        BY <1>5, <1>15, <3>2, <4>1, <4>3 DEF SentText
      <4> QED BY <4>2, <4>3
    <3> QED BY <3>4, <3>5, <3>6
  <2>5. IsSentText(text)'
    <3>1. Range(text') = Range(text) \cup {e}
      BY <1>2, <1>3, <2>1, RangeAppend
    <3>2. Range(text) = SentText /\ \A i, j \in DOMAIN text : i < j => text[i] < text[j]
      BY <1>1, StreamFacts DEF IsSentText
    <3>3. \A i \in 1 .. Len(text) : text[i] \in Nat /\ text[i] < e
      <4>1. \A i \in 1 .. Len(text) : text[i] \in SentText
        BY <1>2, <3>2 DEF Range
      <4>2. \A t \in SentText : t \in Nat /\ t < e
        BY <1>2, <1>12
      <4> QED BY <4>1, <4>2
    <3>4. \A i, j \in DOMAIN text' : i < j => text'[i] < text'[j]
      BY <1>2, <1>3, <2>1, <3>2, <3>3
    <3> QED BY <2>4, <3>1, <3>2, <3>4 DEF IsSentText
  <2>6. (\A t \in SentText : t <= events)'
    BY <1>2, <1>7, <1>12, <2>4
  <2>7. ~(Last(blocks).tool)'
    BY <1>6, <1>9, <1>15
  <2>8. CASE StopsAt("delta", mention)
    <3>1. /\ pc' = "idle" /\ result' = Ok("answer", text', calls) /\ ending' = "mention"
          /\ UNCHANGED <<attempt, waited, owed>> /\ sock' \in {"closed", sock}
      BY <2>8 DEF Delta, Succeed, CloseSocket
    <3>2. ApiTypeOK'
      BY <1>2, <1>3, <1>5, <1>7, <2>1, <2>2, <2>3, <3>1, SMTT(30) DEF ApiIInv, ApiTypeOK, Token, Ok, Outcome
    <3> QED BY <1>7, <1>11, <1>13, <2>3, <2>5, <3>1, <3>2, AnswerIInv
  <2>9. CASE ~StopsAt("delta", mention)
    <3>1. UNCHANGED <<pc, result, attempt, waited, owed, sock, ending>>
      BY <2>9 DEF Delta
    <3>2. ApiTypeOK'
      BY <1>2, <1>3, <1>5, <1>7, <2>1, <2>2, <2>3, <3>1 DEF ApiIInv, ApiTypeOK, Token
    <3>3. StreamInv'
      BY <1>1, <1>10, <1>11, <1>13, <2>1, <2>2, <2>3, <2>5, <2>6, <2>7, <3>1 DEF StreamInv
    <3>4. RetryAfterHonoured'
      BY <3>1 DEF ApiIInv, RetriesSafe, RetryAfterHonoured
    <3> QED BY <1>1, <1>13, <3>1, <3>2, <3>3, <3>4, BusyIInv
  <2> QED BY <2>8, <2>9
<1> QED BY <1>14, <1>15

\* A block is complete: the tool call in it, if it is one, joins the calls.
LEMMA BlockStopIInv ==
  ASSUME ApiIInv, BlockStop
  PROVE  ApiIInv'
<1> USE ApiClientAssumption
<1> DEFINE n == Len(blocks)
<1>1. pc = "stream" /\ InBlock
  BY DEF BlockStop
<1>2. /\ blocks \in Seq(Block) /\ events \in 0 .. MaxEvents /\ n \in 0 .. events /\ serial \in Nat
      /\ text \in Seq(Token) /\ calls \in Seq(Call) /\ printed = text
  BY <1>1, StreamFacts
<1>3. n \in 1 .. events /\ Last(blocks) = blocks[n] /\ ~blocks[n].closed /\ blocks[n] \in Block
  BY <1>1, <1>2 DEF InBlock, Last
<1>4. /\ blocks' \in Seq(Block) /\ Len(blocks') = n
      /\ blocks'[n] = [blocks[n] EXCEPT !.closed = TRUE]
      /\ \A i \in 1 .. n : i # n => blocks'[i] = blocks[i]
      /\ DOMAIN blocks = 1 .. n /\ DOMAIN blocks' = 1 .. n
  <2> DEFINE b == [blocks[n] EXCEPT !.closed = TRUE]
  <2>1. blocks' = [blocks EXCEPT ![n] = b]
    BY DEF BlockStop
  <2>2. b \in Block
    BY <1>3 DEF Block
  <2>3. n \in 1 .. Len(blocks) /\ DOMAIN blocks = 1 .. n
    BY <1>2, <1>3
  <2> HIDE DEF b
  <2>4. /\ blocks' \in Seq(Block) /\ Len(blocks') = Len(blocks)
        /\ \A j \in 1 .. Len(blocks) : blocks'[j] = IF j = n THEN b ELSE blocks[j]
    BY <1>2, <2>1, <2>2, <2>3, ExceptSeq
  <2>5. DOMAIN blocks' = DOMAIN blocks
    BY <2>1
  <2> QED BY <2>3, <2>4, <2>5 DEF b
<1>5. /\ blocks'[n].deltas = blocks[n].deltas /\ blocks'[n].tool = blocks[n].tool
      /\ blocks'[n].closed
  BY <1>3, <1>4 DEF Block
<1>6. /\ UNCHANGED <<mode, serial, sock, text, printed, events, accepted, ending>>
      /\ UNCHANGED <<pc, result, attempt, waited, owed>>
  BY DEF BlockStop, StopsAt
<1>7. \A i \in 1 .. n : blocks'[i].deltas = blocks[i].deltas /\ blocks'[i].tool = blocks[i].tool
  BY <1>4, <1>5
<1>8. SentText' = SentText
  BY <1>4, <1>7 DEF SentText
<1>9. \A i \in 1 .. n : (SentCall(i))' = SentCall(i)
  BY <1>6, <1>7 DEF SentCall
<1>10. /\ IsSentText(text)' /\ (\A t \in SentText : t <= events)' /\ ~InBlock'
       /\ (Len(blocks) <= events)' /\ (\A i \in 1 .. Len(blocks) - 1 : blocks[i].closed)'
  <2>1. IsSentText(text)' /\ (\A t \in SentText : t <= events)'
    BY <1>1, <1>6, <1>8, StreamFacts DEF IsSentText
  <2>2. ~InBlock'
    BY <1>3, <1>4, <1>5 DEF InBlock, Last
  <2>3. (Len(blocks) <= events)' /\ (\A i \in 1 .. Len(blocks) - 1 : blocks[i].closed)'
    BY <1>1, <1>2, <1>3, <1>4, <1>6, StreamFacts
  <2> QED BY <2>1, <2>2, <2>3
<1>11. cur' = NoTool /\ calls' \in Seq(Call) /\ IsSentCalls(calls)'
  <2>1. /\ Range(calls) = SentCalls
        /\ \A i, j \in DOMAIN calls : i < j => calls[i].id[2] < calls[j].id[2]
    BY <1>1, StreamFacts DEF IsSentCalls
  <2>2. CASE blocks[n].tool
    <3>1. cur = SentCall(n)
      BY <1>1, <1>3, <2>2, StreamFacts
    <3>2. cur = [id |-> <<serial, n>>, input |-> blocks[n].deltas]
      BY <3>1 DEF SentCall
    <3>3. cur \in Call
      <4>1. blocks[n].deltas \in Seq(Token) /\ n \in 1 .. MaxEvents
        BY <1>2, <1>3 DEF Block
      <4> HIDE DEF n
      <4> QED BY <1>2, <3>2, <4>1 DEF Call
    <3>4. cur.id # NoTool.id
      BY <1>3, <3>2 DEF NoTool
    <3>5. calls' = Append(calls, cur) /\ cur' = NoTool
      BY <3>4 DEF BlockStop, Finalized
    <3>6. SentCalls' = SentCalls \cup {cur}
      <4>1. \A i \in 1 .. n : i # n => (blocks'[i].tool /\ blocks'[i].closed
                                          <=> blocks[i].tool /\ blocks[i].closed)
        BY <1>4
      <4>2. /\ n \in 1 .. n /\ blocks'[n].tool /\ blocks'[n].closed
            /\ cur = [id |-> <<serial', n>>, input |-> blocks'[n].deltas]
        BY <1>3, <1>5, <1>6, <2>2, <3>2
      <4> HIDE DEF n
      <4>3. ASSUME NEW c \in SentCalls PROVE c \in SentCalls'
        <5>1. PICK i \in 1 .. n : blocks[i].tool /\ blocks[i].closed /\ c = SentCall(i)
          BY <1>4 DEF SentCalls
        <5>2. i # n /\ c = (SentCall(i))'
          BY <1>3, <1>9, <5>1
        <5> QED BY <1>4, <4>1, <5>1, <5>2 DEF SentCalls
      <4>4. ASSUME NEW c \in SentCalls' PROVE c \in SentCalls \cup {cur}
        <5>1. PICK i \in 1 .. n : blocks'[i].tool /\ blocks'[i].closed /\ c = (SentCall(i))'
          BY <1>4 DEF SentCalls
        <5>2. CASE i # n
          BY <1>4, <1>9, <4>1, <5>1, <5>2 DEF SentCalls
        <5>3. CASE i = n
          BY <4>2, <5>1, <5>3 DEF SentCall
        <5> QED BY <5>2, <5>3
      <4>5. cur \in SentCalls'
        BY <1>4, <4>2 DEF SentCalls, SentCall
      <4> QED BY <4>3, <4>4, <4>5
    <3>7. \A c \in SentCalls : c.id[2] \in Nat /\ c.id[2] < n
      <4> SUFFICES ASSUME NEW c \in SentCalls PROVE c.id[2] \in Nat /\ c.id[2] < n
        OBVIOUS
      <4>1. PICK i \in 1 .. n : blocks[i].closed /\ c = SentCall(i)
        BY <1>4 DEF SentCalls
      <4>2. i # n /\ c.id[2] = i
        BY <1>3, <4>1 DEF SentCall
      <4> QED BY <1>3, <4>2
    <3>8. Range(calls') = SentCalls'
      BY <1>2, <2>1, <3>3, <3>5, <3>6, RangeAppend
    <3>9. \A i, j \in DOMAIN calls' : i < j => calls'[i].id[2] < calls'[j].id[2]
      <4>1. cur.id[2] = n
        BY <3>2
      <4>2. \A i \in 1 .. Len(calls) : calls[i].id[2] < n
        BY <1>2, <2>1, <3>7 DEF Range
      <4> HIDE DEF n
      <4> QED BY <1>2, <2>1, <3>3, <3>5, <4>1, <4>2
    <3> QED BY <1>2, <3>3, <3>5, <3>8, <3>9 DEF IsSentCalls
  <2>3. CASE ~blocks[n].tool
    <3>1. cur = NoTool
      BY <1>1, <1>3, <2>3, StreamFacts
    <3>2. calls' = calls /\ cur' = NoTool
      BY <3>1 DEF BlockStop
    <3>3. \A i \in 1 .. n :
            blocks'[i].tool /\ blocks'[i].closed <=> blocks[i].tool /\ blocks[i].closed
      BY <1>4, <1>5, <2>3
    <3>4. SentCalls' = SentCalls
      <4> HIDE DEF n
      <4> QED BY <1>4, <1>9, <3>3 DEF SentCalls
    <3> QED BY <1>2, <2>1, <3>2, <3>4 DEF IsSentCalls
  <2> QED BY <2>2, <2>3
<1>12. ApiTypeOK'
  BY <1>4, <1>6, <1>11 DEF ApiIInv, ApiTypeOK
<1>13. StreamInv'
  <2>1. result = NoResult /\ printed = text
    BY <1>1, StreamFacts
  <2> QED BY <1>1, <1>6, <1>10, <1>11, <2>1 DEF StreamInv
<1>14. RetryAfterHonoured' /\ accepted' <= 1
  BY <1>1, <1>6, StreamFacts DEF ApiIInv, RetriesSafe, RetryAfterHonoured
<1> QED BY <1>1, <1>6, <1>12, <1>13, <1>14, BusyIInv

\* The answer is complete.
LEMMA MessageStopIInv ==
  ASSUME ApiIInv, MessageStop
  PROVE  ApiIInv'
<1>1. /\ pc = "stream" /\ pc' = "idle" /\ ending' = "complete" /\ result' = Ok("answer", text, calls)
      /\ UNCHANGED <<mode, serial, text, calls, cur, printed, blocks, events, accepted>>
      /\ UNCHANGED <<attempt, waited, owed>> /\ sock' \in {"closed", sock}
  BY DEF MessageStop, Succeed, CloseSocket, parsed
<1>2. /\ text \in Seq(Token) /\ calls \in Seq(Call) /\ printed = text /\ accepted <= 1
      /\ IsSentText(text) /\ IsSentCalls(calls)
  BY <1>1, StreamFacts
<1>3. SentText' = SentText /\ SentCalls' = SentCalls
  BY <1>1, SentKept
<1>4. IsSentText(text)' /\ IsSentCalls(calls)'
  BY <1>1, <1>2, <1>3 DEF IsSentText, IsSentCalls
<1>5. ApiTypeOK'
  BY <1>1, <1>2 DEF ApiIInv, ApiTypeOK, Ok, Outcome
<1> QED BY <1>1, <1>2, <1>4, <1>5, AnswerIInv

\* The connection ends or a read times out.
LEMMA ReadEndsIInv ==
  ASSUME ApiIInv, NEW raw \in BOOLEAN, ReadEnds(raw)
  PROVE  ApiIInv'
<1>1. /\ pc \in {"headers", "stream"} /\ ending' = "broken"
      /\ UNCHANGED <<mode, serial, printed, accepted>>
      /\ sock' \in {"closed", sock}
  BY DEF ReadEnds, CloseSocket
<1>2. ApiTypeOK /\ StreamInv /\ AcceptedOnce
  BY DEF ApiIInv, RetriesSafe
<1>3. /\ text \in Seq(Token) /\ calls \in Seq(Call) /\ printed = text /\ accepted <= 1
      /\ IsSentText(text) /\ IsSentCalls(calls)
  BY <1>1, <1>2 DEF StreamInv, ApiTypeOK, AcceptedOnce
<1>4. CASE Succeed("answer", text, calls) /\ UNCHANGED <<text, calls, cur, blocks, events>>
  <2>1. /\ pc' = "idle" /\ result' = Ok("answer", text, calls)
        /\ UNCHANGED <<attempt, waited, owed>>
    BY <1>4 DEF Succeed
  <2>2. SentText' = SentText /\ SentCalls' = SentCalls
    BY <1>1, <1>4, SentKept
  <2>3. IsSentText(text)' /\ IsSentCalls(calls)'
    BY <1>3, <1>4, <2>2 DEF IsSentText, IsSentCalls
  <2>4. ApiTypeOK'
    BY <1>1, <1>2, <1>3, <1>4, <2>1 DEF ApiTypeOK, Ok, Outcome
  <2> QED BY <1>1, <1>3, <1>4, <2>1, <2>3, <2>4, AnswerIInv
<1>5. CASE Succeed("raw", <<>>, <<>>) /\ UNCHANGED <<text, calls, cur, blocks, events>>
  <2>1. /\ pc' = "idle" /\ result' = [kind |-> "raw", text |-> <<>>, calls |-> <<>>]
        /\ UNCHANGED <<attempt, waited, owed>>
    BY <1>5 DEF Succeed, Ok
  <2>2. ApiTypeOK'
    BY <1>1, <1>2, <1>5, <2>1 DEF ApiTypeOK, Outcome
  <2>3. StreamInv' /\ AnswerFaithful' /\ RetriesSafe'
    BY <1>1, <1>3, <2>1 DEF StreamInv, AnswerFaithful, AnswerIsWhatWasSent, WholeAnswer, RetriesSafe,
         AcceptedOnce, RetryAfterHonoured
  <2> QED BY <2>2, <2>3 DEF ApiIInv
<1>6. CASE Fail("EmptyResponse", 0)
  <2>1. "EmptyResponse" \in Kinds /\ "EmptyResponse" \notin Retryable /\ 0 \in RetryAfter
    BY ApiClientAssumption DEF Kinds, Retryable
  <2>2. sock' \in {"none", "open", "closed"}
    BY <1>1, <1>2 DEF ApiTypeOK
  <2> QED BY <1>1, <1>6, <2>1, <2>2, FailIInv
<1> QED BY <1>4, <1>5, <1>6 DEF ReadEnds

\* The body is a JSON document.
LEMMA JsonBodyIInv ==
  ASSUME ApiIInv, NEW err \in BOOLEAN, JsonBody(err)
  PROVE  ApiIInv'
<1>1. /\ pc = "stream" /\ blocks = <<>> /\ ending' = "complete" /\ sock' \in {"closed", sock}
      /\ UNCHANGED <<mode, serial, accepted>>
  BY DEF JsonBody, CloseSocket
<1>2. ApiTypeOK /\ accepted <= 1
  BY DEF ApiIInv, RetriesSafe, AcceptedOnce
<1>3. CASE err
  <2>1. Fail("ApiError", 0) /\ printed' = printed
    BY <1>3 DEF JsonBody
  <2>2. "ApiError" \in Kinds /\ "ApiError" \notin Retryable /\ 0 \in RetryAfter
    BY ApiClientAssumption DEF Kinds, Retryable
  <2>3. sock' \in {"none", "open", "closed"}
    BY <1>1, <1>2 DEF ApiTypeOK
  <2> QED BY <1>1, <2>1, <2>2, <2>3, FailIInv
<1>4. CASE ~err
  <2>1. /\ pc' = "idle" /\ result' = [kind |-> "content", text |-> <<1>>, calls |-> <<>>]
        /\ UNCHANGED <<attempt, waited, owed, text, calls, cur, blocks, events>>
        /\ printed' = Append(printed, 1)
    BY <1>4 DEF JsonBody, Succeed, Ok
  <2>2. printed' = <<1>>
    BY <1>1, <2>1, NothingParsed
  <2>3. <<1>> \in Seq(Token)
    BY ApiClientAssumption DEF Token
  <2>4. ApiTypeOK'
    BY <1>1, <1>2, <2>1, <2>2, <2>3 DEF ApiTypeOK, Outcome
  <2>5. StreamInv' /\ AnswerFaithful' /\ RetriesSafe'
    BY <1>1, <1>2, <2>1, <2>2 DEF StreamInv, AnswerFaithful, AnswerIsWhatWasSent, WholeAnswer,
         RetriesSafe, AcceptedOnce, RetryAfterHonoured
  <2> QED BY <2>4, <2>5 DEF ApiIInv
<1> QED BY <1>3, <1>4

-----------------------------------------------------------------------------

\* Every step of an attempt preserves the invariant of the request.
LEMMA AttemptIInv ==
  ASSUME ApiIInv, Attempt
  PROVE  ApiIInv'
<1> USE ApiClientAssumption
<1>1. ApiTypeOK /\ accepted <= 1
  BY DEF ApiIInv, RetriesSafe, AcceptedOnce
<1>2. /\ {"ConnectionFailed", "ConnectionTimeout", "Refused", "HttpStatus", "TlsHandshakeFailed",
          "SendFailed"} \subseteq Kinds
      /\ 0 \in RetryAfter
  BY DEF Kinds
<1>3. CASE ConnectFails
  BY <1>1, <1>2, <1>3, FailIInv DEF ConnectFails, ApiTypeOK
<1>4. CASE ConnectTimesOut
  BY <1>1, <1>2, <1>4, FailIInv DEF ConnectTimesOut, ApiTypeOK
<1>5. CASE Connected
  <2>1. /\ pc = "connect" /\ pc' \in {"handshake", "send"} /\ sock' = "open"
        /\ UNCHANGED <<mode, attempt, waited, serial, parsed, result, blocks, events, owed, ending>>
        /\ accepted' = accepted
    BY <1>5 DEF Connected, peer
  <2> QED BY <1>1, <2>1, QuietIInv DEF ApiTypeOK
<1>6. CASE HandshakeDone \/ Sent
  <2>1. /\ pc \in {"handshake", "send"} /\ pc' \in {"send", "headers"} /\ sock' = sock
        /\ UNCHANGED <<mode, attempt, waited, serial, parsed, result, blocks, events, owed, ending>>
        /\ accepted' = accepted
    BY <1>6 DEF HandshakeDone, Sent, peer, request
  <2> QED BY <1>1, <2>1, QuietIInv DEF ApiTypeOK
<1>7. CASE SetupFails
  <2>1. PICK kind \in {"TlsHandshakeFailed", "SendFailed"} : Fail(kind, 0)
    BY <1>7 DEF SetupFails
  <2>2. /\ pc \in {"handshake", "send"} /\ sock' \in {"closed", sock}
        /\ UNCHANGED <<mode, serial, printed, accepted, ending>>
    BY <1>7 DEF SetupFails, CloseSocket
  <2> QED BY <1>1, <1>2, <2>1, <2>2, FailIInv DEF ApiTypeOK
<1>8. ASSUME NEW r \in RetryAfter, Refused(r) PROVE ApiIInv'
  <2>1. PICK kind \in {"Refused", "HttpStatus"} : Fail(kind, r)
    BY <1>8 DEF Refused
  <2>2. /\ pc = "headers" /\ sock' \in {"closed", sock}
        /\ UNCHANGED <<mode, serial, printed, accepted, ending>>
    BY <1>8 DEF Refused, CloseSocket
  <2> QED BY <1>1, <1>2, <2>1, <2>2, FailIInv DEF ApiTypeOK
<1>9. CASE Accepted
  <2>1. /\ pc = "headers" /\ pc' = "stream" /\ sock' = sock /\ accepted' = accepted + 1
        /\ UNCHANGED <<mode, attempt, waited, serial, parsed, result, blocks, events, owed, ending>>
    BY <1>9 DEF Accepted, request
  <2>2. accepted = 0
    BY <2>1 DEF ApiIInv, StreamInv
  <2> QED BY <1>1, <2>1, <2>2, QuietIInv DEF ApiTypeOK
<1>10. ASSUME NEW b \in BOOLEAN, BlockStart(b) \/ Delta(b) \/ Eof(b) \/ Stall(b) \/ JsonBody(b)
       PROVE  ApiIInv'
  BY <1>10, BlockStartIInv, DeltaIInv, ReadEndsIInv, JsonBodyIInv DEF Eof, Stall
<1> QED BY <1>3, <1>4, <1>5, <1>6, <1>7, <1>8, <1>9, <1>10, BlockStopIInv, MessageStopIInv
    DEF Attempt

\* A request that is not touched keeps its invariant.
LEMMA ApiKept ==
  ASSUME ApiIInv, UNCHANGED apiVars
  PROVE  ApiIInv'
<1>1. /\ UNCHANGED <<pc, mode, attempt, waited, serial, sock, text, calls, cur, printed, result>>
      /\ UNCHANGED <<blocks, events, accepted, owed, ending>>
  BY DEF apiVars, request, parsed, peer
<1>2. /\ SentText' = SentText /\ SentCalls' = SentCalls /\ InBlock' = InBlock
  BY <1>1, SentKept
<1>3. (SentCall(Len(blocks)))' = SentCall(Len(blocks))
  BY <1>1 DEF SentCall
<1>4. ApiTypeOK' /\ RetriesSafe'
  BY <1>1 DEF ApiIInv, ApiTypeOK, RetriesSafe, AcceptedOnce, RetryAfterHonoured
<1>5. StreamInv' /\ AnswerFaithful'
  BY <1>1, <1>2, <1>3 DEF ApiIInv, StreamInv, AnswerFaithful, AnswerIsWhatWasSent, WholeAnswer,
       IsSentText, IsSentCalls
<1> QED BY <1>4, <1>5 DEF ApiIInv

-----------------------------------------------------------------------------
(* The loop.                                                               *)

\* No command runs, and its locals are gone.
LEMMA AgentInitIInv == AgentInit => AgentIInv
<1> SUFFICES ASSUME AgentInit PROVE AgentIInv
  OBVIOUS
<1>1. DnsIInv
  BY DnsInitIInv DEF AgentInit
<1>2. ApiIInv
  <2> USE DEF AgentInit, ApiInit
  <2>1. ApiTypeOK
    BY ApiClientAssumption DEF ApiTypeOK, NoResult, Outcome
  <2>2. StreamInv /\ AnswerFaithful /\ RetriesSafe
    BY DEF StreamInv, AnswerFaithful, AnswerIsWhatWasSent, WholeAnswer, RetriesSafe, AcceptedOnce,
         RetryAfterHonoured, NoResult
  <2> QED BY <2>1, <2>2 DEF ApiIInv
<1>3. LoopTypeOK /\ LoopInv
  BY AgentAssumption DEF AgentInit, LoopTypeOK, LoopInv, ToolsInv
<1>4. silent \in BOOLEAN
  BY DEF AgentInit
<1> QED BY <1>1, <1>2, <1>3, <1>4 DEF AgentIInv

\* A loop that is not touched keeps its invariant.
LEMMA LoopKept ==
  ASSUME LoopTypeOK, LoopInv, UNCHANGED loop
  PROVE  LoopTypeOK' /\ LoopInv'
  BY DEF loop, LoopTypeOK, LoopInv, ToolsInv

\* So does one that goes on from the address to the request, or to the reply.
LEMMA StepKept ==
  ASSUME LoopTypeOK, LoopInv, step \in {"resolve", "send"}, step' \in {"send", "reply"},
         turn' \in 0 .. MaxTurns, turn' = turn \/ (task = "agent" /\ step' = "reply"),
         UNCHANGED <<task, tls, messages, pending, results, files, commands>>
  PROVE  LoopTypeOK' /\ LoopInv'
  BY DEF LoopTypeOK, LoopInv, ToolsInv

\* A command begins.
LEMMA BeginInv ==
  ASSUME LoopTypeOK, LoopInv, NEW t \in {"ask", "agent"}, NEW useTls \in BOOLEAN, Begin(t, useTls)
  PROVE  LoopTypeOK' /\ LoopInv'
<1>1. /\ User(<<>>) \in Message /\ User(<<>>).role = "user"
      /\ User(<<>>).uses = <<>> /\ User(<<>>).results = <<>>
  BY DEF User, Message
<1>2. messages' \in Seq(Message) /\ (t = "agent" => messages' = <<User(<<>>)>>)
  BY <1>1 DEF Begin
<1>3. LoopTypeOK'
  BY <1>2, AgentAssumption DEF Begin, LoopTypeOK
<1>4. task = "none" /\ task' = t /\ turn' = turn /\ step' \in {"resolve", "send"} /\ turn < MaxTurns
  BY AgentAssumption DEF Begin, LoopInv
<1>5. LoopInv'
  <2>1. ToolsInv'
    BY <1>4 DEF ToolsInv
  <2>2. /\ (task # "agent")' => (step \notin {"tools", "panic"} /\ turn = 0)'
        /\ (step \in {"resolve", "send"} => turn < MaxTurns)'
    BY <1>4 DEF LoopInv
  <2>3. ASSUME t = "agent"
        PROVE  /\ messages' # <<>> /\ Len(messages') = 1
               /\ messages'[1] = User(<<>>) /\ (Last(messages))' = User(<<>>)
    <3>1. \A x : <<x>> # <<>> /\ Len(<<x>>) = 1 /\ <<x>>[1] = x
      OBVIOUS
    <3>2. messages' = <<User(<<>>)>>
      BY <1>2, <2>3
    <3>3. messages' # <<>> /\ Len(messages') = 1 /\ messages'[1] = User(<<>>)
      BY <3>1, <3>2
    <3> QED BY <3>3 DEF Last
  <2>4. (task = "agent" =>
           /\ messages # <<>> /\ messages[1].role = "user" /\ messages[1].results = <<>>
           /\ \A i \in 1 .. Len(messages) - 1 :
                /\ messages[i].role # messages[i + 1].role
                /\ messages[i].uses = messages[i + 1].results
           /\ step \notin {"tools", "panic"} => Last(messages).role = "user" /\ Last(messages).uses = <<>>)'
    <3> SUFFICES ASSUME t = "agent"
                 PROVE  /\ messages' # <<>> /\ messages'[1].role = "user"
                        /\ messages'[1].results = <<>>
                        /\ \A i \in 1 .. Len(messages') - 1 :
                             /\ messages'[i].role # messages'[i + 1].role
                             /\ messages'[i].uses = messages'[i + 1].results
                        /\ (Last(messages))'.role = "user" /\ (Last(messages))'.uses = <<>>
      BY <1>4
    <3>1. 1 .. Len(messages') - 1 = {}
      <4>1. \A k : k = 1 => 1 .. k - 1 = {}
        OBVIOUS
      <4> HIDE DEF User
      <4>2. Len(messages') = 1
        BY <2>3
      <4> QED BY <4>1, <4>2
    <3> HIDE DEF User
    <3> QED BY <1>1, <2>3, <3>1
  <2> QED BY <2>1, <2>2, <2>4 DEF LoopInv
<1> QED BY <1>3, <1>5

\* A command ends.
LEMMA FinishInv ==
  ASSUME LoopTypeOK, Finish
  PROVE  LoopTypeOK' /\ LoopInv'
  BY AgentAssumption DEF Finish, LoopTypeOK, LoopInv, ToolsInv

\* A conversation with one more message.
LEMMA Said ==
  ASSUME messages \in Seq(Message), messages # <<>>, NEW m \in Message,
         messages' = Append(messages, m), messages[1].role = "user", messages[1].results = <<>>,
         Last(messages).role # m.role, Last(messages).uses = m.results,
         \A i \in 1 .. Len(messages) - 1 :
           /\ messages[i].role # messages[i + 1].role
           /\ messages[i].uses = messages[i + 1].results
  PROVE  /\ messages' \in Seq(Message) /\ messages' # <<>> /\ (Last(messages))' = m
         /\ messages'[1].role = "user" /\ messages'[1].results = <<>>
         /\ \A i \in 1 .. Len(messages') - 1 :
              /\ messages'[i].role # messages'[i + 1].role
              /\ messages'[i].uses = messages'[i + 1].results
<1> DEFINE n == Len(messages)
<1>1. n \in Nat \ {0}
  OBVIOUS
<1>2. /\ messages' \in Seq(Message) /\ Len(messages') = n + 1 /\ messages'[n + 1] = m
      /\ \A i \in 1 .. n : messages'[i] = messages[i]
  OBVIOUS
<1>3. messages' # <<>> /\ (Last(messages))' = m /\ messages'[1] = messages[1]
  BY <1>1, <1>2 DEF Last
<1>4. ASSUME NEW i \in 1 .. Len(messages') - 1
      PROVE  /\ messages'[i].role # messages'[i + 1].role
             /\ messages'[i].uses = messages'[i + 1].results
  <2>1. i \in 1 .. n /\ messages'[i] = messages[i]
    BY <1>1, <1>2
  <2>2. CASE i = n
    BY <1>2, <2>1, <2>2 DEF Last
  <2>3. CASE i # n
    <3>1. i \in 1 .. n - 1 /\ i + 1 \in 1 .. n
      BY <1>1, <2>1, <2>3
    <3>2. messages'[i + 1] = messages[i + 1]
      BY <1>2, <3>1
    <3> QED BY <2>1, <3>1, <3>2
  <2> QED BY <2>2, <2>3
<1> QED BY <1>2, <1>3, <1>4

\* The answer becomes a message, and its calls are still to run.
LEMMA ReplyCallsInv ==
  ASSUME LoopTypeOK, LoopInv, ApiTypeOK, ReplyCalls
  PROVE  LoopTypeOK' /\ LoopInv'
<1> DEFINE c == result.calls
           m == Assistant(c)
<1>1. /\ task = "agent" /\ step = "reply" /\ step' = "tools" /\ pending' = c /\ results' = <<>>
      /\ messages' = Append(messages, m) /\ UNCHANGED <<task, tls, turn, files, commands>>
  BY DEF ReplyCalls
<1>2. c \in Seq(Call)
  BY DEF ApiTypeOK
<1>3. /\ m.role = "assistant" /\ m.results = <<>> /\ m.uses = [i \in DOMAIN c |-> c[i].id]
      /\ m.inputs \in BOOLEAN
      /\ m = [role |-> "assistant", uses |-> m.uses, results |-> <<>>, inputs |-> m.inputs]
  BY DEF Assistant
<1>4. /\ m.uses \in Seq(Nat \X Nat) /\ Len(m.uses) = Len(c)
      /\ \A i \in 1 .. Len(c) : m.uses[i] = c[i].id
  <2>1. \A i \in 1 .. Len(c) : c[i].id \in Nat \X Nat
    <3> SUFFICES ASSUME NEW i \in 1 .. Len(c) PROVE c[i].id \in Nat \X Nat
      OBVIOUS
    <3>1. c[i] \in Call
      BY <1>2
    <3>2. c[i].id \in Nat \X (1 .. MaxEvents)
      BY <3>1 DEF Call
    <3> QED BY <3>2
  <2>2. DOMAIN c = 1 .. Len(c) /\ Len(c) \in Nat
    BY <1>2
  <2> HIDE DEF c, m
  <2> QED BY <1>3, <2>1, <2>2
<1>5. m \in Message
  <2>1. \A u \in Seq(Nat \X Nat), b \in BOOLEAN :
          [role |-> "assistant", uses |-> u, results |-> <<>>, inputs |-> b] \in Message
    BY DEF Message
  <2> HIDE DEF m
  <2> QED BY <1>3, <1>4, <2>1
<1> HIDE DEF m, c
<1>6. /\ messages' \in Seq(Message) /\ messages' # <<>> /\ (Last(messages))' = m
      /\ messages'[1].role = "user" /\ messages'[1].results = <<>>
      /\ \A i \in 1 .. Len(messages') - 1 :
           /\ messages'[i].role # messages'[i + 1].role
           /\ messages'[i].uses = messages'[i + 1].results
  BY <1>1, <1>3, <1>5, Said DEF LoopTypeOK, LoopInv
<1>7. LoopTypeOK'
  BY <1>1, <1>2, <1>6 DEF LoopTypeOK
<1>8. ToolsInv'
  BY <1>1, <1>2, <1>3, <1>4, <1>6 DEF ToolsInv
<1> QED BY <1>1, <1>6, <1>7, <1>8 DEF LoopInv

\* What a tool leaves in the files.
LEMMA FilesAfter ==
  ASSUME LoopTypeOK, RunTool
  PROVE  files' \in [Path -> Content \cup {NoContent}]
<1> DEFINE h == Head(pending)
<1>1. files \in [Path -> Content \cup {NoContent}]
  BY DEF LoopTypeOK
<1>2. PICK r \in Dispatch(h) : files' = r.files
  BY DEF RunTool
<1>3. \A p \in Path, c \in Content :
        /\ [files EXCEPT ![p] = c] \in [Path -> Content \cup {NoContent}]
        /\ [files EXCEPT ![p] = Replaced(p, c)] \in [Path -> Content \cup {NoContent}]
  BY <1>1 DEF Replaced
<1> HIDE DEF h
<1>4. \/ files' = files
      \/ \E p \in Path, c \in Content : \/ files' = [files EXCEPT ![p] = c]
                                        \/ files' = [files EXCEPT ![p] = Replaced(p, c)]
  BY <1>2 DEF Dispatch, ReadFile, WriteFile, StrReplace, ListDir, SqlQuery, ToolError
<1> QED BY <1>1, <1>3, <1>4

\* The result of a tool cannot be shown: the loop stays where it is.
LEMMA PanicInv ==
  ASSUME LoopTypeOK, LoopInv, RunTool, step' = "panic", UNCHANGED <<results, pending>>
  PROVE  LoopTypeOK' /\ LoopInv'
<1>1. step = "tools" /\ UNCHANGED <<task, tls, turn, messages, commands>>
  BY DEF RunTool
<1>2. LoopTypeOK'
  BY <1>1, FilesAfter DEF LoopTypeOK
<1>3. ToolsInv'
  BY DEF ToolsInv
<1> QED BY <1>1, <1>2, <1>3 DEF LoopInv

\* A result takes the place of its call.
LEMMA ResultKept ==
  ASSUME LoopTypeOK, LoopInv, RunTool, ~(step' = "panic" /\ UNCHANGED <<results, pending>>)
  PROVE  LoopTypeOK' /\ LoopInv'
<1> DEFINE h == Head(pending)
           uses == Last(messages).uses
<1>1. /\ step = "tools" /\ pending # <<>> /\ pending' = Tail(pending)
      /\ results' = Append(results, h.id)
      /\ UNCHANGED <<task, step, tls, turn, messages, commands>>
  BY DEF RunTool, AllResults
<1>2. pending \in Seq(Call) /\ results \in Seq(Nat \X Nat)
  BY DEF LoopTypeOK
<1>3. h \in Call /\ h = pending[1]
  BY <1>1, <1>2
<1>4. h.id \in Nat \X Nat
  <2>1. h.id \in Nat \X (1 .. MaxEvents)
    BY <1>3 DEF Call
  <2> QED BY <2>1
<1>5. files' \in [Path -> Content \cup {NoContent}]
  BY FilesAfter
<1>6. /\ Len(pending') = Len(pending) - 1 /\ Len(pending) \in Nat \ {0}
      /\ \A i \in 1 .. Len(pending) - 1 : pending'[i] = pending[i + 1]
      /\ pending' \in Seq(Call)
  BY <1>1, <1>2
<1> HIDE DEF h
<1>7. /\ Len(results') = Len(results) + 1 /\ Len(results) \in Nat
      /\ results'[Len(results) + 1] = h.id
      /\ \A i \in 1 .. Len(results) : results'[i] = results[i]
      /\ results' \in Seq(Nat \X Nat)
  BY <1>1, <1>2, <1>4
<1>8. LoopTypeOK'
  BY <1>1, <1>5, <1>6, <1>7 DEF LoopTypeOK
<1>9. ToolsInv'
  <2>1. /\ Last(messages).role = "assistant"
        /\ Len(uses) = Len(results) + Len(pending)
        /\ \A i \in 1 .. Len(results) : results[i] = uses[i]
        /\ \A i \in 1 .. Len(pending) : pending[i].id = uses[Len(results) + i]
    BY <1>1 DEF LoopInv, ToolsInv
  <2>2. (Last(messages))' = Last(messages)
    BY <1>1 DEF Last
  <2> HIDE DEF uses
  <2>3. h.id = uses[Len(results) + 1]
    BY <1>3, <1>6, <2>1
  <2>4. \A i \in 1 .. Len(results') : results'[i] = uses[i]
    BY <1>7, <2>1, <2>3, SMTT(30)
  <2>5. \A i \in 1 .. Len(pending') : pending'[i].id = uses[Len(results') + i]
    <3> SUFFICES ASSUME NEW i \in 1 .. Len(pending')
                 PROVE  pending'[i].id = uses[Len(results') + i]
      OBVIOUS
    <3>1. i + 1 \in 1 .. Len(pending) /\ pending'[i] = pending[i + 1]
      BY <1>6
    <3>2. Len(results) + (i + 1) = Len(results') + i
      BY <1>6, <1>7
    <3>3. pending[i + 1].id = uses[Len(results) + (i + 1)]
      BY <2>1, <3>1
    <3> QED BY <3>1, <3>2, <3>3
  <2>6. Len(uses) = Len(results') + Len(pending')
    BY <1>6, <1>7, <2>1
  <2> QED BY <2>1, <2>2, <2>4, <2>5, <2>6 DEF ToolsInv, uses
<1> QED BY <1>1, <1>8, <1>9 DEF LoopInv, Last

\* A tool runs.
LEMMA RunToolInv ==
  ASSUME LoopTypeOK, LoopInv, RunTool
  PROVE  LoopTypeOK' /\ LoopInv'
  BY PanicInv, ResultKept

\* The results become a message, and they are those of the answer's calls.
LEMMA NextTurnInv ==
  ASSUME LoopTypeOK, LoopInv, NextTurn
  PROVE  LoopTypeOK' /\ LoopInv'
<1> DEFINE m == User(results)
<1>1. /\ step = "tools" /\ pending = <<>> /\ turn # MaxTurns /\ step' = "send" /\ results' = <<>>
      /\ messages' = Append(messages, m) /\ UNCHANGED <<task, tls, turn, pending, files, commands>>
  BY DEF NextTurn, LastTurn
<1>2. results \in Seq(Nat \X Nat) /\ messages \in Seq(Message) /\ turn \in 0 .. MaxTurns
  BY DEF LoopTypeOK
<1>3. m \in Message /\ m.role = "user" /\ m.uses = <<>> /\ m.results = results
  BY <1>2 DEF User, Message
<1>4. task = "agent" /\ messages # <<>>
  BY <1>1 DEF LoopInv
<1>5. Last(messages).role = "assistant" /\ Last(messages).uses = results
  <2> DEFINE uses == Last(messages).uses
  <2>1. /\ Last(messages).role = "assistant" /\ Len(uses) = Len(results) + 0
        /\ \A i \in 1 .. Len(results) : results[i] = uses[i]
    BY <1>1 DEF LoopInv, ToolsInv
  <2>2. Last(messages) \in Message
    BY <1>2, <1>4 DEF Last
  <2>3. uses \in Seq(Nat \X Nat)
    BY <2>2 DEF Message
  <2> HIDE DEF uses
  <2>4. uses = results
    BY <1>2, <2>1, <2>3, SeqEqual
  <2> QED BY <2>1, <2>4 DEF uses
<1> HIDE DEF m
<1>6. /\ messages' \in Seq(Message) /\ messages' # <<>> /\ (Last(messages))' = m
      /\ messages'[1].role = "user" /\ messages'[1].results = <<>>
      /\ \A i \in 1 .. Len(messages') - 1 :
           /\ messages'[i].role # messages'[i + 1].role
           /\ messages'[i].uses = messages'[i + 1].results
  BY <1>1, <1>2, <1>3, <1>4, <1>5, Said DEF LoopInv
<1>7. LoopTypeOK'
  BY <1>1, <1>6 DEF LoopTypeOK
<1>8. turn' < MaxTurns
  BY <1>1, <1>2, AgentAssumption
<1> QED BY <1>1, <1>3, <1>4, <1>6, <1>7, <1>8 DEF LoopInv, ToolsInv

-----------------------------------------------------------------------------

\* The steps the client takes by itself are steps of an attempt.
LEMMA OwnStepAttempt == OwnStep => Attempt
  BY DEF OwnStep, Attempt

\* Every step of every command preserves the invariant.
LEMMA AgentNextIInv == AgentIInv /\ [AgentNext]_agentVars => AgentIInv'
<1> SUFFICES ASSUME AgentIInv, [AgentNext]_agentVars PROVE AgentIInv'
  OBVIOUS
<1>1. ApiIInv /\ DnsIInv /\ LoopTypeOK /\ LoopInv /\ ApiTypeOK
  BY DEF AgentIInv, ApiIInv
<1>a. silent' \in BOOLEAN
  BY DEF AgentIInv, AgentNext, FallSilent, agentVars
<1> SUFFICES ApiIInv' /\ DnsIInv' /\ LoopTypeOK' /\ LoopInv'
  BY <1>a DEF AgentIInv
<1>b. CASE FallSilent
  BY <1>1, <1>b, ApiKept, DnsStepIInv, LoopKept DEF FallSilent
<1>2. CASE UNCHANGED agentVars
  BY <1>1, <1>2, ApiKept, DnsStepIInv, LoopKept DEF agentVars
<1>3. CASE Idle
  BY <1>1, <1>3, ApiKept, DnsStepIInv, LoopKept DEF Idle, DnsStep
<1>4. CASE Command
  <2>1. PICK t \in {"ask", "agent"}, useTls \in BOOLEAN : Begin(t, useTls)
    BY <1>4 DEF Command
  <2>2. UNCHANGED apiVars /\ UNCHANGED dnsVars
    BY <2>1 DEF Begin
  <2> QED BY <1>1, <2>1, <2>2, ApiKept, DnsStepIInv, BeginInv
<1>5. CASE Resolve
  <2>1. UNCHANGED apiVars /\ DnsStep
    BY <1>5 DEF Resolve, DnsStep
  <2>2. CASE UNCHANGED loop
    BY <1>1, <2>1, <2>2, ApiKept, DnsStepIInv, LoopKept
  <2>3. CASE Finish
    BY <1>1, <2>1, <2>3, ApiKept, DnsStepIInv, FinishInv
  <2>4. CASE /\ step = "resolve" /\ step' = "send"
             /\ UNCHANGED <<task, tls, turn, messages, pending, results, files, commands>>
    <3>1. turn' \in 0 .. MaxTurns
      BY <1>1, <2>4 DEF LoopTypeOK
    <3> QED BY <1>1, <2>1, <2>4, <3>1, ApiKept, DnsStepIInv, StepKept
  <2> QED BY <1>5, <2>2, <2>3, <2>4 DEF Resolve
<1>6. CASE SendRequest
  <2>1. PICK m \in {"plain", "tls", "agentic"}, n \in Nat : Send(m, n)
    <3>1. turn + 1 \in Nat
      BY <1>1, AgentAssumption DEF LoopTypeOK
    <3> QED BY <1>6, <3>1 DEF SendRequest
  <2>2. ApiIInv'
    BY <1>1, <2>1, FreshIInv DEF Send
  <2>3. /\ step = "send" /\ step' = "reply" /\ turn' = IF task = "agent" THEN turn + 1 ELSE turn
        /\ UNCHANGED <<task, tls, messages, pending, results, files, commands>>
        /\ UNCHANGED dnsVars
    BY <1>6 DEF SendRequest
  <2>4. turn' \in 0 .. MaxTurns
    BY <1>1, <2>3, AgentAssumption DEF LoopTypeOK, LoopInv
  <2> QED BY <1>1, <2>2, <2>3, <2>4, DnsStepIInv, StepKept
<1>7. CASE Request
  <2>1. Attempt
    BY <1>7, OwnStepAttempt DEF Request
  <2> QED BY <1>1, <1>7, <2>1, AttemptIInv, DnsStepIInv, LoopKept DEF Request
<1>8. CASE ReplyEnds
  <2>1. ApiIInv'
    BY <1>1, <1>8, FreshIInv DEF ReplyEnds, Return, ApiTypeOK
  <2> QED BY <1>1, <1>8, <2>1, DnsStepIInv, FinishInv DEF ReplyEnds
<1>9. CASE ReplyCalls
  <2>1. ApiIInv'
    BY <1>1, <1>9, FreshIInv DEF ReplyCalls, Return, ApiTypeOK
  <2>2. UNCHANGED dnsVars
    BY <1>9 DEF ReplyCalls
  <2> QED BY <1>1, <1>9, <2>1, <2>2, DnsStepIInv, ReplyCallsInv
<1>10. CASE RunTool
  <2>1. UNCHANGED apiVars /\ UNCHANGED dnsVars
    BY <1>10 DEF RunTool
  <2> QED BY <1>1, <1>10, <2>1, ApiKept, DnsStepIInv, RunToolInv
<1>11. CASE NextTurn
  <2>1. UNCHANGED apiVars /\ UNCHANGED dnsVars
    BY <1>11 DEF NextTurn
  <2> QED BY <1>1, <1>11, <2>1, ApiKept, DnsStepIInv, NextTurnInv
<1>12. CASE TurnLimit
  <2>1. UNCHANGED apiVars /\ UNCHANGED dnsVars /\ Finish
    BY <1>12 DEF TurnLimit
  <2> QED BY <1>1, <2>1, ApiKept, DnsStepIInv, FinishInv
<1> QED BY <1>b, <1>2, <1>3, <1>4, <1>5, <1>6, <1>7, <1>8, <1>9, <1>10, <1>11, <1>12
    DEF AgentNext, Progress

\* The inductive invariant of the commands, the resolver and the client.
THEOREM AgentInvariance == AgentSpec => []AgentIInv
  BY AgentInitIInv, AgentNextIInv, PTL DEF AgentSpec

\* However the stream of an answer is cut off, refused or retried, the tool
\* calls that claude_request_tls_agentic() returns are the ones the peer
\* completed, in order, once and whole, and so is the text: for answers of any
\* length and any number of retries.
THEOREM AnswersCorrect == AgentSpec => []AnswerFaithful
<1>1. AgentIInv => AnswerFaithful
  BY DEF AgentIInv, ApiIInv
<1> QED BY <1>1, AgentInvariance, PTL

\* No attempt of claude_send_with_retry() follows one that was accepted or
\* printed, and none comes before the back-off and the capped Retry-After have
\* passed, for any delays and number of retries.
THEOREM RetriesCorrect == AgentSpec => []RetriesSafe
<1>1. AgentIInv => RetriesSafe
  BY DEF AgentIInv, ApiIInv
<1> QED BY <1>1, AgentInvariance, PTL

\* The address resolve_a() gives without a query is one set by hand or the
\* answer to a question no older than its time-to-live and the cap, and no
\* query keeps its socket, for any addresses, times-to-live and cap.
THEOREM AddressesFresh == AgentSpec => []FreshAddress
<1>1. AgentIInv => FreshAddress
  BY FreshFromIInv DEF AgentIInv
<1> QED BY <1>1, AgentInvariance, PTL

\* Every conversation run_agent_loop() sends has its calls answered, each once
\* and in order, for any number of turns, calls and failing tools.
THEOREM ConversationsCorrect == AgentSpec => []ConversationConsistent
<1>1. AgentIInv => ConversationConsistent
  BY DEF AgentIInv, ApiIInv, DnsIInv, ConversationConsistent, AgentTypeOK, ConversationAnswered,
       LoopInv
<1> QED BY <1>1, AgentInvariance, PTL

\* claude_request_plain() closes the socket of every attempt that was
\* connected, however the attempt ends.
THEOREM PlainSocketsClosed == AgentSpec => PlainCloses
<1>1. ASSUME [AgentNext]_agentVars
      PROVE  [mode = "plain" /\ pc \notin {"idle", "connect"} /\ pc' \in {"idle", "connect"}
                => sock' = "closed"]_apiVars
  <2> SUFFICES ASSUME mode = "plain", pc \notin {"idle", "connect"}, pc' \in {"idle", "connect"}
               PROVE  sock' = "closed"
    OBVIOUS
  <2>1. ~UNCHANGED apiVars
    BY DEF apiVars
  <2>2. /\ ~UNCHANGED agentVars /\ ~FallSilent
        /\ ~Idle /\ ~Command /\ ~Resolve /\ ~RunTool /\ ~NextTurn /\ ~TurnLimit
    BY <2>1 DEF agentVars, FallSilent, Idle, Command, Begin, Resolve, RunTool, NextTurn, TurnLimit
  <2>3. ~SendRequest /\ ~ReplyEnds /\ ~ReplyCalls
    BY DEF SendRequest, Send, ReplyEnds, ReplyCalls
  <2>4. Attempt
    BY <1>1, <2>2, <2>3, OwnStepAttempt DEF AgentNext, Progress, Request
  <2>5. CloseSocket => sock' = "closed"
    BY DEF CloseSocket, Closes
  <2>6. /\ ~ConnectFails /\ ~ConnectTimesOut /\ ~Connected /\ ~HandshakeDone
        /\ ~SetupFails /\ ~Sent /\ ~Accepted
    BY DEF ConnectFails, ConnectTimesOut, Connected, HandshakeDone, SetupFails, Sent, Accepted
  <2>7. ~BlockStop /\ \A b : ~BlockStart(b)
    BY DEF BlockStop, StopsAt, BlockStart
  <2>8. ASSUME NEW b, Delta(b) PROVE CloseSocket
    BY <2>8 DEF Delta
  <2> QED BY <2>4, <2>5, <2>6, <2>7, <2>8
          DEF Attempt, Refused, MessageStop, Eof, Stall, ReadEnds, JsonBody
<1> QED BY <1>1, PTL DEF AgentSpec, PlainCloses
=============================================================================
