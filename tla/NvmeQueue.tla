----------------------------- MODULE NvmeQueue ------------------------------
(***************************************************************************)
(* The I/O queue pair of the NVMe driver, drivers/nvme/queue.rs and the    *)
(* read_blocks(), write_blocks() and flush() of drivers/nvme/mod.rs: one   *)
(* command at a time is put in the submission ring, then the completion    *)
(* ring is polled until an entry has the expected phase or 30 s are over.  *)
(*                                                                         *)
(* The controller is external.  It fetches submissions in order, executes  *)
(* the fetched commands in any order, and posts completions in the order   *)
(* in which the commands end, as long as the completion ring has room.     *)
(***************************************************************************)
EXTENDS Integers, Sequences

CONSTANTS
  Size,         \* entries of each ring
  CidCount,     \* number of command identifiers (2^16 in the code)
  CidLow,       \* the controller writes the identifier in the low half of the word
  MaxCommands   \* bound: commands submitted in a behaviour

Ring == 0 .. Size - 1
Tag  == 1 .. MaxCommands    \* commands are told apart by the order of submission

ASSUME NvmeQueueAssumption ==
  /\ Size \in Nat \ {0, 1} /\ CidCount \in Nat \ {0} /\ MaxCommands \in Nat
  /\ CidLow \in BOOLEAN

VARIABLES
  sq, sq_tail, next_cid,         \* QueuePair: submission side
  cq_head, cq_phase,             \* QueuePair: completion side
  wait,                          \* tag of the command that is waited for, 0 if none
  tag,                           \* tag of the last command submitted
  outcome,                       \* what the last call returned
  cq,                            \* the completion ring, written by the controller
  sq_db, cq_db,                  \* the two doorbells
  sq_head, cq_tail, dev_phase,   \* controller: its ends of the rings
  inflight,                      \* controller: fetched, not executed
  done,                          \* controller: executed, completion to be posted
  cached, durable                \* controller: writes in its cache, on the medium

\* What the client may expect; the code has no such state.
VARIABLES
  succeeded,  \* commands executed without error
  acked,      \* writes that were reported done
  promised,   \* writes that a flush() that returned Ok came after
  late,       \* a call has timed out
  posted,     \* tags in the order their completions were posted
  consumed    \* tags in the order their completions were polled

driver == <<sq, sq_tail, next_cid, cq_head, cq_phase, wait, tag, outcome, sq_db, cq_db>>
controller == <<cq, sq_head, cq_tail, dev_phase, inflight, done, cached, durable>>
ghost == <<succeeded, acked, promised, late, posted, consumed>>
nvme == <<driver, controller, ghost>>

Kind == {"read", "write", "flush"}
NoCommand == [kind |-> "read", cid |-> 0, tag |-> 0]

-----------------------------------------------------------------------------
(* Plausible mistakes in the code, each the body of one definition.        *)

NextPhase_Never(h) == cq_phase
Acceptable_Always(status) == TRUE
Expired_Never == FALSE
-----------------------------------------------------------------------------
(* Completion entries: the word cid_status.                                *)

\* What the controller writes.  The comment on the field, and the NVMe
\* specification, have the identifier in bits 15:0, the phase in bit 16 and the
\* status above it; the accessors below read the phase and the status from the
\* low half.  CidLow tells which of the two a controller follows.
Word(cid, phase, status) ==
  IF CidLow THEN cid + 65536 * (phase + 2 * status)
            ELSE phase + 2 * status + 65536 * cid

\* CompletionEntry::phase() and status().
Phase(word) == word % 2
Status(word) == (word \div 2) % 32768

\* The index after p.
Advance(p) == (p + 1) % Size

-----------------------------------------------------------------------------

NvmeInit ==
  /\ sq = [p \in Ring |-> NoCommand] /\ sq_tail = 0 /\ next_cid = 0
  /\ cq = [p \in Ring |-> [word |-> 0, tag |-> 0]] /\ cq_head = 0 /\ cq_phase = 1
  /\ wait = 0 /\ tag = 0 /\ outcome = [tag |-> 0, ok |-> FALSE]
  /\ sq_db = 0 /\ cq_db = 0
  /\ sq_head = 0 /\ cq_tail = 0 /\ dev_phase = 1
  /\ inflight = {} /\ done = {} /\ cached = {} /\ durable = {}
  /\ succeeded = {} /\ acked = {} /\ promised = {} /\ late = FALSE
  /\ posted = <<>> /\ consumed = <<>>

-----------------------------------------------------------------------------
(* The driver.                                                             *)

\* submit() and the doorbell.  Nothing checks that the ring has room.
Submit(kind) ==
  /\ wait = 0 /\ tag < MaxCommands
  /\ sq' = [sq EXCEPT ![sq_tail] = [kind |-> kind, cid |-> next_cid, tag |-> tag + 1]]
  /\ next_cid' = (next_cid + 1) % CidCount
  /\ sq_tail' = Advance(sq_tail) /\ sq_db' = sq_tail'
  /\ tag' = tag + 1 /\ wait' = tag + 1
  /\ UNCHANGED <<cq_head, cq_phase, outcome, cq_db, controller, ghost>>

\* The entry at the head of the completion ring is new.
Available == Phase(cq[cq_head].word) = cq_phase

\* The phase expected after the head moved to h.
NextPhase(h) == IF h = 0 THEN 1 - cq_phase ELSE cq_phase

\* The status with which a call returns Ok.
Acceptable(status) == status = 0

\* The doorbell tells the controller how far the driver has read.
Doorbell == cq_head'

\* poll_completion() finds an entry and the call returns its status.  The
\* command identifier is not looked at.
Complete ==
  /\ wait # 0 /\ Available
  /\ cq_head' = Advance(cq_head)
  /\ cq_phase' = NextPhase(cq_head')
  /\ cq_db' = Doorbell
  /\ LET ok == Acceptable(Status(cq[cq_head].word))
         kind == sq[(sq_tail + Size - 1) % Size].kind
     IN /\ outcome' = [tag |-> wait, ok |-> ok]
        /\ acked' = IF ok /\ kind = "write" THEN acked \cup {wait} ELSE acked
        /\ promised' = IF ok /\ kind = "flush" THEN acked ELSE promised
  /\ consumed' = Append(consumed, cq[cq_head].tag)
  /\ wait' = 0
  /\ UNCHANGED <<sq, sq_tail, next_cid, tag, sq_db, controller, succeeded, late, posted>>

\* The 30 s can be over at any poll, and some time they are.
Expired == TRUE

\* poll_with_timeout() gives up: the command stays with the controller.
Timeout ==
  /\ wait # 0 /\ ~Available /\ Expired
  /\ outcome' = [tag |-> wait, ok |-> FALSE]
  /\ wait' = 0 /\ late' = TRUE
  /\ UNCHANGED <<sq, sq_tail, next_cid, cq_head, cq_phase, tag, sq_db, cq_db,
                 controller, succeeded, acked, promised, posted, consumed>>

-----------------------------------------------------------------------------
(* The controller.                                                         *)

Fetch ==
  /\ sq_head # sq_db
  /\ inflight' = inflight \cup {sq[sq_head]}
  /\ sq_head' = Advance(sq_head)
  /\ UNCHANGED <<driver, cq, cq_tail, dev_phase, done, cached, durable, ghost>>

\* A write goes to the cache; a flush writes the cache to the medium.
Execute(c) ==
  /\ inflight' = inflight \ {c}
  /\ done' = done \cup {[cid |-> c.cid, tag |-> c.tag, status |-> 0]}
  /\ succeeded' = succeeded \cup {c.tag}
  /\ cached' = IF c.kind = "write" THEN cached \cup {c.tag} ELSE cached
  /\ durable' = IF c.kind = "flush" THEN durable \cup cached ELSE durable
  /\ UNCHANGED <<driver, cq, sq_head, cq_tail, dev_phase, acked, promised, late, posted, consumed>>

\* The command ends with an error status and no effect.
Fail(c) ==
  /\ inflight' = inflight \ {c}
  /\ done' = done \cup {[cid |-> c.cid, tag |-> c.tag, status |-> 1]}
  /\ UNCHANGED <<driver, cq, sq_head, cq_tail, dev_phase, cached, durable, ghost>>

\* A completion is posted, unless the ring is full.
Post(d) ==
  /\ (cq_tail + 1) % Size # cq_db
  /\ done' = done \ {d}
  /\ cq' = [cq EXCEPT ![cq_tail] = [word |-> Word(d.cid, dev_phase, d.status), tag |-> d.tag]]
  /\ cq_tail' = (cq_tail + 1) % Size
  /\ dev_phase' = IF cq_tail' = 0 THEN 1 - dev_phase ELSE dev_phase
  /\ posted' = Append(posted, d.tag)
  /\ UNCHANGED <<driver, sq_head, inflight, cached, durable,
                 succeeded, acked, promised, late, consumed>>

-----------------------------------------------------------------------------

Controller == \/ Fetch
              \/ \E c \in inflight : Execute(c) \/ Fail(c)
              \/ \E d \in done : Post(d)

NvmeNext == (\E kind \in Kind : Submit(kind)) \/ Complete \/ Timeout \/ Controller

NvmeSpec == NvmeInit /\ [][NvmeNext]_nvme

\* The driver polls until it returns.  Nothing is assumed of the controller.
NvmeFairSpec == NvmeSpec /\ WF_nvme(Complete \/ Timeout)

-----------------------------------------------------------------------------
(* Properties.                                                             *)

\* Every variable has its type.
NvmeTypeOK ==
  /\ sq \in [Ring -> [kind : Kind, cid : 0 .. CidCount - 1, tag : 0 .. MaxCommands]]
  /\ cq \in [Ring -> [word : Nat, tag : 0 .. MaxCommands]]
  /\ sq_tail \in Ring /\ sq_db \in Ring /\ sq_head \in Ring
  /\ cq_head \in Ring /\ cq_db \in Ring /\ cq_tail \in Ring
  /\ next_cid \in 0 .. CidCount - 1
  /\ cq_phase \in {0, 1} /\ dev_phase \in {0, 1}
  /\ wait \in 0 .. MaxCommands /\ tag \in 0 .. MaxCommands
  /\ outcome \in [tag : 0 .. MaxCommands, ok : BOOLEAN]
  /\ inflight \subseteq [kind : Kind, cid : 0 .. CidCount - 1, tag : Tag]
  /\ done \subseteq [cid : 0 .. CidCount - 1, tag : Tag, status : {0, 1}]
  /\ cached \subseteq Tag /\ durable \subseteq Tag
  /\ succeeded \subseteq Tag /\ acked \subseteq Tag /\ promised \subseteq Tag
  /\ late \in BOOLEAN
  /\ posted \in Seq(Tag) /\ consumed \in Seq(Tag)

\* The driver consumes each completion at most once, in the order posted,
\* however often the rings wrap and however late completions arrive, and never
\* an entry that is not there.
ConsumedInOrder ==
  /\ Len(consumed) <= Len(posted)
  /\ consumed = SubSeq(posted, 1, Len(consumed))

\* poll_completion(), "Returns the status code if a new completion is
\* available": a completion that is in the ring is seen.
NewEntrySeen == Len(posted) > Len(consumed) => Available

\* A call returns Ok only on the completion of a command that the controller
\* executed without error, time-outs or not.
OkIsSuccess == outcome.ok => consumed # <<>> /\ consumed[Len(consumed)] \in succeeded

\* The rings stay in range, and the driver takes each completion at most once
\* and in order, late ones included, whichever half of the word has the phase.
\* When the controller writes the word as the accessors read it, no completion
\* is overlooked and no error is taken for success.
RingsConsistent ==
  /\ NvmeTypeOK /\ ConsumedInOrder
  /\ ~CidLow => NewEntrySeen /\ OkIsSuccess

\* As long as no call has timed out, a call that returns Ok has had its own
\* command executed, although the command identifier is never compared.
OwnCompletion == outcome.ok /\ ~late => outcome.tag \in succeeded

\* As long as no call has timed out, flush() returns Ok only when every write
\* acknowledged before it is on the medium, whatever the controller reorders:
\* the guarantee that sync() of the VFS rests on.
FlushIsDurable == ~late => promised \subseteq durable

\* As long as no call has timed out, the controller executes a command only
\* while its caller waits for it, and so never reads or writes a DMA buffer
\* that was given back.
BufferStillOwned == ~late => \A c \in inflight : c.tag = wait

\* What every caller relies on, until a call has timed out: Ok means that its
\* own command was executed, flush() is durable, and no command is left that
\* uses memory given back.
SafeUntilTimeout == OwnCompletion /\ FlushIsDurable /\ BufferStillOwned

\* Every call returns, however slow the controller is.
CommandReturns == wait # 0 ~> wait = 0

-----------------------------------------------------------------------------
(* Why these hold: the inductive invariant.                                *)

\* The phase of the entry posted as number k, counted from 0: 1 in the first
\* lap of the ring, 0 in the second, and so on.
PhaseAt(k) == 1 - ((k \div Size) % 2)

\* Both ends of the completion ring are where the numbers of completions
\* posted and consumed say, the entries between them are those posted and not
\* consumed, and all the others still have the phase of the lap before.
CompletionRing ==
  /\ Len(posted) < Len(consumed) + Size
  /\ cq_head = Len(consumed) % Size /\ cq_db = cq_head /\ cq_phase = PhaseAt(Len(consumed))
  /\ cq_tail = Len(posted) % Size /\ dev_phase = PhaseAt(Len(posted))
  /\ \A k \in Len(consumed) .. Len(posted) - 1 : cq[k % Size].tag = posted[k + 1]
  /\ \A k \in Len(posted) .. Len(consumed) + Size - 1 : Phase(cq[k % Size].word) # PhaseAt(k)

\* The submission ring has no empty entry among those used so far.
SubmissionRing ==
  /\ sq_tail = tag % Size /\ sq_db = sq_tail
  /\ tag < Size => sq_head <= tag
  /\ \A p \in Ring : p < tag => sq[p].tag # 0

\* The command submitted last, and what it has left behind once it succeeded.
Last == sq[(sq_tail + Size - 1) % Size]
Effect ==
  /\ wait \in succeeded
  /\ Last.kind = "write" => wait \in cached
  /\ Last.kind = "flush" => acked \subseteq durable

\* The four places where the command that is waited for can be.
Unfetched == Advance(sq_head) = sq_tail /\ inflight = {} /\ done = {} /\ posted = consumed
Executing == sq_head = sq_tail /\ inflight = {Last} /\ done = {} /\ posted = consumed
Ended ==
  /\ sq_head = sq_tail /\ inflight = {} /\ posted = consumed
  /\ \E d \in done : done = {d} /\ (d.status = 0 => Effect)
Answered ==
  /\ sq_head = sq_tail /\ inflight = {} /\ done = {} /\ Len(posted) = Len(consumed) + 1
  /\ ~CidLow /\ Status(cq[cq_head].word) = 0 => Effect

\* Until a call times out, the command that is waited for is the only one.
OneOutstanding ==
  ~late =>
    /\ wait = 0 => sq_head = sq_tail /\ inflight = {} /\ done = {} /\ posted = consumed
    /\ wait # 0 => wait = tag /\ Last.tag = wait
                     /\ (Unfetched \/ Executing \/ Ended \/ Answered)
    /\ acked \subseteq cached

\* What holds of the rings and the calls without reading an entry.
RingInv ==
  /\ NvmeTypeOK /\ ConsumedInOrder /\ SafeUntilTimeout
  /\ CompletionRing /\ SubmissionRing /\ OneOutstanding

\* What the accessors read of a completion that is posted and not consumed is
\* what happened, when the controller writes the word as they expect.
EntriesRight ==
  ~CidLow => \A k \in Len(consumed) .. Len(posted) - 1 :
               /\ Phase(cq[k % Size].word) = PhaseAt(k)
               /\ Status(cq[k % Size].word) = 0 => posted[k + 1] \in succeeded

\* A completion that will say success is of a command that succeeded.
DoneRight == \A d \in done : d.status = 0 => d.tag \in succeeded

\* With the identifier in the low half, the completion of command 0 does not
\* look new, and so the first call ends with a time-out.
FirstUnseen ==
  CidLow /\ ~late =>
    /\ wait = tag /\ (tag = 0 => next_cid = 0)
    /\ consumed = <<>> /\ ~outcome.ok
    /\ \A p \in Ring : sq[p].cid = 0 /\ Phase(cq[p].word) = 0
    /\ \A c \in inflight : c.cid = 0
    /\ \A d \in done : d.cid = 0

WordInv == EntriesRight /\ DoneRight /\ FirstUnseen /\ (~CidLow => OkIsSuccess)

NvmeIInv == RingInv /\ WordInv

-----------------------------------------------------------------------------
(* What the comments say, and the code does not do.                        *)

\* mod.rs, on flush(): "force all written data to non-volatile storage.  This
\* is the ACID guarantee".  Every flush() that returns Ok is durable.
EveryFlushIsDurable == promised \subseteq durable
=============================================================================
