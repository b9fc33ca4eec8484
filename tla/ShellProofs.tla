----------------------------- MODULE ShellProofs -----------------------------
(***************************************************************************)
(* That locks are given back, operations audited, agents restricted and    *)
(* cut off in time, proved for every sequence of commands, any limits and  *)
(* any number of rows.  An error can strike in the middle of a builtin, so *)
(* the invariant says what holds at each of its steps.  And that what a    *)
(* Lua state is charged for its memory is what it holds, and that the line *)
(* editor keeps the terminal showing the line it edits.                    *)
(***************************************************************************)
EXTENDS LuaHost, LuaAlloc, LineEditor, FiniteSetTheorems, TLAPS

\* What a Lua state begins with has its type.
LEMMA Initials ==
  /\ NoCall \in Builtins /\ NoChunk \in Chunk
  /\ NoCall.lock = "none" /\ NoCall.after = "script" /\ NoCall.todo = 0 /\ NoCall.fn = "none"
<1>1. NoCall \in Builtins
  BY DEF NoCall, Builtins
<1>2. NoChunk \in Chunk
  BY DEF NoChunk, Chunk
<1> QED BY <1>1, <1>2 DEF NoCall

\* A builtin that begins to make values keeps its name, argument and lock.
LEMMA MakingFacts ==
  ASSUME call \in Builtins, NEW n \in Nat, NEW after \in {"script", "audit"}
  PROVE  /\ Making(n, after) \in Builtins
         /\ Making(n, after).todo = n /\ Making(n, after).after = after
         /\ Making(n, after).fn = call.fn /\ Making(n, after).arg = call.arg
         /\ Making(n, after).lock = call.lock
<1> DEFINE c == [call EXCEPT !.todo = n]
<1>1. /\ c \in Builtins /\ c.todo = n
      /\ c.fn = call.fn /\ c.arg = call.arg /\ c.lock = call.lock
  BY DEF Builtins
<1> HIDE DEF c
<1>2. /\ [c EXCEPT !.after = after] \in Builtins
      /\ [c EXCEPT !.after = after].after = after
      /\ [c EXCEPT !.after = after].todo = c.todo
      /\ [c EXCEPT !.after = after].fn = c.fn
      /\ [c EXCEPT !.after = after].arg = c.arg
      /\ [c EXCEPT !.after = after].lock = c.lock
  BY <1>1 DEF Builtins
<1> QED BY <1>1, <1>2 DEF c, Making

\* The calls that the builtins begin with have their type.
LEMMA CallFacts ==
  /\ \A fn \in {"sql", "read", "write", "ls", "audit"},
        arg \in Path \cup DOMAIN Statement \cup {"none"} :
       Do(fn, arg) \in Builtins /\ Do(fn, arg).lock = "db"
  /\ \A lock \in {"net", "ask"} :
       /\ Message(lock) \in Builtins /\ Message(lock).lock = lock
       /\ Message(lock).after = "script"
  /\ [NoCall EXCEPT !.fn = "ask"] \in Builtins
<1>1. ASSUME NEW fn \in {"sql", "read", "write", "ls", "audit"},
             NEW arg \in Path \cup DOMAIN Statement \cup {"none"}
      PROVE  Do(fn, arg) \in Builtins /\ Do(fn, arg).lock = "db"
  BY DEF Do, Builtins
<1>2. ASSUME NEW lock \in {"net", "ask"}
      PROVE  /\ Message(lock) \in Builtins /\ Message(lock).lock = lock
             /\ Message(lock).after = "script"
  BY DEF Message, Builtins
<1>3. [NoCall EXCEPT !.fn = "ask"] \in Builtins
  BY DEF NoCall, Builtins
<1> QED BY <1>1, <1>2, <1>3

\* The thread that runs is one, and an instruction leaves its count a count.
LEMMA SteppedFacts ==
  ASSUME TypeOK
  PROVE  Running \in Thread /\ Stepped \in [Thread -> Counts]
<1>1. VmTypeOK /\ HookEvery \in Nat \ {0}
  BY LuaHostAssumption DEF TypeOK
<1>2. Running \in Thread
  BY <1>1 DEF VmTypeOK, Running, Last
<1> DEFINE r == hooks[Running]
           e == [count |-> (r.count + 1) % HookEvery, late |-> Overtime(r.late)]
<1>3. r.count \in Nat /\ r.late \in Nat
  BY <1>1, <1>2 DEF VmTypeOK, Counts
<1> HIDE DEF r
<1>4. (r.count + 1) % HookEvery \in 0 .. HookEvery - 1 /\ Overtime(r.late) \in Nat
  BY <1>1, <1>3 DEF Overtime
<1>5. e \in Counts
  BY <1>4 DEF Counts
<1>6. Stepped \in {hooks, [hooks EXCEPT ![Running] = e]}
  BY DEF Stepped, r
<1> HIDE DEF e
<1>7. [hooks EXCEPT ![Running] = e] \in [Thread -> Counts]
  BY <1>1, <1>5 DEF VmTypeOK
<1> QED BY <1>1, <1>2, <1>6, <1>7 DEF VmTypeOK

\* An instruction on which the hook is not called, or that is run in time, leaves
\* the late instructions of every thread among those it has counted.
LEMMA SteppedCounted ==
  ASSUME TypeOK, LateCounted, ~finalized, ~HookDue \/ clock < begun + Timeout
  PROVE  Counted(Stepped)
<1>1. VmTypeOK /\ HookEvery \in Nat \ {0} /\ fin = "none" /\ Counted(hooks)
  BY LuaHostAssumption DEF TypeOK, LateCounted
<1> DEFINE r == hooks[Running]
           c == (r.count + 1) % HookEvery
           m == Overtime(r.late)
           e == [count |-> c, late |-> m]
<1>2. Running \in Thread
  BY SteppedFacts
<1>3. r.count \in 0 .. HookEvery - 1 /\ r.late \in Nat /\ r.late <= r.count
  BY <1>1, <1>2 DEF VmTypeOK, Counts, Counted
<1>4. CASE who # "agent"
  BY <1>1, <1>4 DEF Stepped
<1>5. CASE who = "agent"
  <2>1. ~(clock < begun + Timeout) => r.count + 1 # HookEvery
    BY <1>1, <1>5 DEF HookDue
  <2> HIDE DEF r
  <2>2. c \in Nat /\ (r.count + 1 # HookEvery => c = r.count + 1)
    BY <1>1, <1>3
  <2>3. /\ clock < begun + Timeout => m = 0
        /\ ~(clock < begun + Timeout) => m = r.late + 1
    BY <1>1, <1>3 DEF Overtime
  <2> HIDE DEF c, m
  <2>4. m <= c
    BY <1>3, <2>1, <2>2, <2>3
  <2>5. e.late <= e.count
    BY <2>4
  <2>6. Stepped = [hooks EXCEPT ![Running] = e]
    BY <1>5 DEF Stepped, r, c, m
  <2> HIDE DEF e
  <2>7. \A t \in Thread : Stepped[t] = IF t = Running THEN e ELSE hooks[t]
    BY <1>1, <2>6 DEF VmTypeOK
  <2> QED BY <1>1, <2>5, <2>7 DEF Counted
<1> QED BY <1>4, <1>5

\* An instruction of the script keeps what is said of the threads.
LEMMA InstructionKeeps ==
  ASSUME TypeOK, LateCounted, Instruction, UNCHANGED <<active, fin, finalized>>
  PROVE  VmTypeOK' /\ LateCounted'
<1>1. hooks' = Stepped /\ ~HookDue
  BY DEF Instruction
<1>2. VmTypeOK'
  BY <1>1, SteppedFacts DEF TypeOK, VmTypeOK
<1>3. LateCounted'
  <2>1. CASE finalized
    BY <2>1 DEF LateCounted
  <2>2. CASE ~finalized
    BY <1>1, <2>2, SteppedCounted DEF LateCounted, Counted
  <2> QED BY <2>1, <2>2
<1> QED BY <1>2, <1>3

\* What a step keeps that leaves the host where no builtin is in progress: it has
\* changed nothing but the machine, or closed the state, and what the builtin had
\* is accounted for, its guards as leaked and the row that was due as lost.
LEMMA Settled ==
  ASSUME IInv, pc \in {"repl", "script", "rows", "push", "audit"},
         pc' \in {"shell", "repl", "script"}, pc' = "shell" => who' = "none",
         held' = held, leaked' = leaked \cup held, lost' = lost + RowDue,
         UNCHANGED <<clock, table, performed, ask>>,
         \/ UNCHANGED <<who, readonly, deadline, stack, begun, returned, printed>>
         \/ /\ who' = "none" /\ readonly' = FALSE /\ deadline' = Never /\ begun' = 0
            /\ stack' = 0 /\ returned' = FALSE /\ printed' = 0,
         call' \in {call, NoCall}, gc' \in BOOLEAN, chunk' \in {chunk, NoChunk},
         VmTypeOK', LateCounted'
  PROVE  /\ TypeOK' /\ LockOwned' /\ LocksGivenBack' /\ RowsAddUp' /\ AgentLimited'
         /\ StatementAllowed' /\ LateCounted' /\ StackReturned' /\ PrintsOwnValues' /\ AskSpaced'
<1>0. /\ TypeOK /\ RowsAddUp /\ AgentLimited /\ StackReturned /\ PrintsOwnValues /\ AskSpaced
      /\ leaked \subseteq held /\ audit \in Nat /\ lost \in Nat /\ performed \in Nat
      /\ ControlTypeOK /\ KernelTypeOK
  BY DEF IInv, LocksConsistent, Paced, TypeOK, KernelTypeOK
<1>1. RowDue \in {0, 1} /\ audit + lost + RowDue = performed
  BY <1>0 DEF RowDue, RowsAddUp
<1> DEFINE r == RowDue
<1>2. r \in {0, 1} /\ audit + lost + r = performed
  BY <1>1
<1>3. /\ lost' = lost + r
      /\ UNCHANGED <<clock, files, audit, performed, lastAsk, through, gap>>
  BY DEF table, ask
<1> HIDE DEF r
<1>4. KernelTypeOK'
  BY <1>0, <1>2, <1>3 DEF KernelTypeOK
<1>5. /\ readonly' \in BOOLEAN /\ returned' \in BOOLEAN
      /\ who' \in {"none", "agent", "repl"} /\ deadline' \in 0 .. Never
      /\ begun' \in Nat /\ stack' \in 0 .. MaxStack /\ printed' \in Nat
  <2>1. CASE UNCHANGED <<who, readonly, deadline, stack, begun, returned, printed>>
    BY <1>0, <2>1 DEF ControlTypeOK
  <2>2. CASE /\ who' = "none" /\ readonly' = FALSE /\ deadline' = Never /\ begun' = 0
             /\ stack' = 0 /\ returned' = FALSE /\ printed' = 0
    <3>1. readonly' \in BOOLEAN /\ returned' \in BOOLEAN
      BY <2>2, Zenon
    <3> QED BY <2>2, <3>1, LuaHostAssumption DEF Never
  <2> QED BY <2>1, <2>2
<1>6. ControlTypeOK'
  <2>1. chunk' \in Chunk /\ call' \in Builtins
    BY <1>0, Initials DEF ControlTypeOK
  <2> QED BY <1>5, <2>1 DEF ControlTypeOK
<1>7. LockOwned' /\ LocksGivenBack'
  BY <1>0 DEF LockOwned, LocksGivenBack, Idle
<1>8. RowsAddUp'
  BY <1>0, <1>2, <1>3 DEF RowsAddUp, RowDue
<1>9. AgentLimited' /\ StatementAllowed'
  BY <1>0 DEF AgentLimited, StatementAllowed
<1>10. AskSpaced' /\ StackReturned' /\ PrintsOwnValues'
  BY <1>0, <1>3 DEF AskSpaced, StackReturned, PrintsOwnValues
<1> QED BY <1>4, <1>6, <1>7, <1>8, <1>9, <1>10 DEF TypeOK

\* The threads of a new state (lua_newstate()).
LEMMA NewThreads ==
  /\ NewThread \in Counts /\ NewThread.late <= NewThread.count
  /\ [t \in Thread |-> NewThread] \in [Thread -> Counts] /\ Counted([t \in Thread |-> NewThread])
  /\ <<"main">> \in Seq(Thread) /\ <<"main">> # <<>>
<1>1. NewThread \in Counts /\ NewThread.late <= NewThread.count
  BY LuaHostAssumption DEF NewThread, Counts
<1>2. \A n \in Counts :
        n.late <= n.count =>
          [t \in Thread |-> n] \in [Thread -> Counts] /\ Counted([t \in Thread |-> n])
  BY DEF Counted
<1>3. <<"main">> \in Seq(Thread) /\ <<"main">> # <<>>
  BY DEF Thread
<1> QED BY <1>1, <1>2, <1>3

\* A closed state leaves nothing behind.
LEMMA ClosedVm ==
  ASSUME Closed
  PROVE  VmTypeOK' /\ LateCounted'
<1>1. finalized' \in BOOLEAN /\ ~finalized' /\ fin' = "none"
  BY Zenon DEF Closed
<1>2. hooks' = [t \in Thread |-> NewThread] /\ active' = <<"main">>
  BY DEF Closed
<1>3. VmTypeOK'
  BY <1>1, <1>2, NewThreads DEF VmTypeOK
<1> QED BY <1>1, <1>2, <1>3, NewThreads DEF LateCounted, Counted

\* lua_close() is called where no builtin is in progress, or by an error.
LEMMA CloseVm ==
  ASSUME TypeOK, NEW h \in [Thread -> Counts], Close(h)
  PROVE  VmTypeOK' /\ LateCounted'
<1>1. CASE Closed
  BY <1>1, ClosedVm
<1>2. CASE ~Closed
  <2>1. finalized' = TRUE /\ fin' = "close" /\ hooks' = h /\ active' = <<"main">>
    BY <1>2 DEF Close
  <2>2. finalized' \in BOOLEAN /\ finalized'
    BY <2>1, Zenon
  <2> QED BY <2>1, <2>2, NewThreads DEF VmTypeOK, LateCounted
<1> QED BY <1>1, <1>2

\* How an error, or the end of a script or of a finalizer, leaves the state.
LEMMA CloseState ==
  ASSUME TypeOK, NEW h, Close(h) \/ Closed
  PROVE  /\ pc' \in {"shell", "repl", "script"} /\ (pc' = "shell" => who' = "none")
         /\ call' = NoCall /\ gc' \in BOOLEAN /\ chunk' \in {chunk, NoChunk}
         /\ \/ UNCHANGED <<who, readonly, deadline, stack, begun, returned, printed>>
            \/ /\ who' = "none" /\ readonly' = FALSE /\ deadline' = Never /\ begun' = 0
               /\ stack' = 0 /\ returned' = FALSE /\ printed' = 0
<1>1. gc' \in BOOLEAN
  BY Zenon DEF Close, Closed
<1> QED BY <1>1 DEF Close, Closed, state

\* The same for an error that is caught or printed, and for a finalizer that is over.
LEMMA CutState ==
  ASSUME TypeOK, NEW h, Catch(h) \/ FinalizerOver \/ Unwind(h)
  PROVE  /\ pc' \in {"shell", "repl", "script"} /\ (pc' = "shell" => who' = "none")
         /\ call' = NoCall /\ gc' \in BOOLEAN /\ chunk' \in {chunk, NoChunk}
         /\ \/ UNCHANGED <<who, readonly, deadline, stack, begun, returned, printed>>
            \/ /\ who' = "none" /\ readonly' = FALSE /\ deadline' = Never /\ begun' = 0
               /\ stack' = 0 /\ returned' = FALSE /\ printed' = 0
<1>1. CASE Close(h) \/ Closed
  BY <1>1, CloseState
<1>2. CASE ~(Close(h) \/ Closed)
  <2>1. gc' = gc /\ gc \in BOOLEAN
    BY <1>2 DEF Catch, FinalizerOver, Unwind, TypeOK, ControlTypeOK
  <2> QED BY <1>2, <2>1 DEF Catch, FinalizerOver, Unwind, state
<1> QED BY <1>1, <1>2

\* An error leaves the threads of the machine with their types, and their counts as
\* they were; the coroutines that it has passed are dead.
LEMMA CutVm ==
  ASSUME TypeOK, LateCounted, NEW h \in [Thread -> Counts], ~finalized => Counted(h),
         Catch(h) \/ FinalizerOver \/ Unwind(h)
  PROVE  VmTypeOK' /\ LateCounted'
<1>0. VmTypeOK
  BY DEF TypeOK
<1>1. CASE Close(h)
  BY <1>1, CloseVm
<1>2. CASE Closed
  BY <1>2, ClosedVm
<1>3. CASE Catch(h)
  <2>1. UNCHANGED <<fin, finalized>>
    BY <1>3 DEF Catch
  <2>2. PICK n \in 1 .. Len(active) :
          /\ active' = SubSeq(active, 1, n)
          /\ hooks' = [t \in Thread |-> IF t \in {active[i] : i \in n + 1 .. Len(active)}
                                        THEN NewThread ELSE h[t]]
    BY <1>3 DEF Catch
  <2>3. active' \in Seq(Thread) /\ active' # <<>>
    BY <1>0, <2>2 DEF VmTypeOK
  <2>4. \A t \in Thread : hooks'[t] = NewThread \/ hooks'[t] = h[t]
    BY <2>2
  <2>5. hooks' \in [Thread -> Counts]
    BY <2>2, NewThreads
  <2>6. ~finalized => \A t \in Thread : hooks'[t].late <= hooks'[t].count
    BY <2>4, NewThreads DEF Counted
  <2>7. VmTypeOK'
    BY <1>0, <2>1, <2>3, <2>5 DEF VmTypeOK
  <2> QED BY <2>1, <2>6, <2>7 DEF LateCounted, Counted
<1>4. CASE ~Close(h) /\ ~Closed /\ ~Catch(h)
  <2>1. UNCHANGED <<hooks, active, finalized>> /\ fin' \in {fin, "none"}
    BY <1>4 DEF FinalizerOver, Unwind, vm
  <2> QED BY <1>0, <2>1 DEF VmTypeOK, LateCounted, Counted
<1> QED BY <1>1, <1>2, <1>3, <1>4

\* An error keeps the invariant wherever it strikes, in the middle of a builtin too
\* (luaL_error unwinding in lua/mod.rs and builtins.rs).
LEMMA CutKeeps ==
  ASSUME IInv, pc \in {"script", "rows", "push", "audit"}, NEW h \in [Thread -> Counts],
         ~finalized => Counted(h), Cut(RowDue, h)
  PROVE  /\ TypeOK' /\ LockOwned' /\ LocksGivenBack' /\ RowsAddUp' /\ AgentLimited'
         /\ StatementAllowed' /\ LateCounted' /\ StackReturned' /\ PrintsOwnValues' /\ AskSpaced'
<1>1. TypeOK /\ LateCounted
  BY DEF IInv, LocksConsistent
<1>2. Catch(h) \/ FinalizerOver \/ Unwind(h)
  BY DEF Cut
<1>3. /\ held' = held /\ leaked' = leaked \cup held /\ lost' = lost + RowDue
      /\ UNCHANGED <<clock, table, performed, ask>>
  BY DEF Cut
<1>4. VmTypeOK' /\ LateCounted'
  BY <1>1, <1>2, CutVm
<1>5. /\ pc' \in {"shell", "repl", "script"} /\ (pc' = "shell" => who' = "none")
      /\ call' = NoCall /\ gc' \in BOOLEAN /\ chunk' \in {chunk, NoChunk}
  BY <1>1, <1>2, CutState
<1>6. \/ UNCHANGED <<who, readonly, deadline, stack, begun, returned, printed>>
      \/ /\ who' = "none" /\ readonly' = FALSE /\ deadline' = Never /\ begun' = 0
         /\ stack' = 0 /\ returned' = FALSE /\ printed' = 0
  BY <1>1, <1>2, CutState
<1> QED BY <1>3, <1>4, <1>5, <1>6, Settled

\* The same for an error that the hook does not raise.
LEMMA CutOffKeeps ==
  ASSUME IInv, pc \in {"script", "rows", "push", "audit"}, CutOff(RowDue)
  PROVE  /\ TypeOK' /\ LockOwned' /\ LocksGivenBack' /\ RowsAddUp' /\ AgentLimited'
         /\ StatementAllowed' /\ LateCounted' /\ StackReturned' /\ PrintsOwnValues' /\ AskSpaced'
<1>1. hooks \in [Thread -> Counts] /\ (~finalized => Counted(hooks))
  BY DEF IInv, LocksConsistent, TypeOK, VmTypeOK, LateCounted
<1>2. Cut(RowDue, hooks)
  BY DEF CutOff
<1> QED BY <1>1, <1>2, CutKeeps

-----------------------------------------------------------------------------
(* The steps of the machine.                                               *)

\* The steps that change nothing but the state of the machine, or end it.
Resumes == \E c \in Coroutine, new \in BOOLEAN : Resume(c, new)
VmStep ==
  \/ Compute \/ Hook \/ ScriptFails \/ Finalizer \/ FinalizerReturns \/ Yield \/ Resumes
  \/ Return \/ Exit

\* Where the script has control no guard is taken and no row is due.
LEMMA NothingDue ==
  ASSUME IInv, pc \in {"repl", "script"}
  PROVE  held = leaked /\ leaked \cup held = leaked /\ RowDue = 0 /\ lost + RowDue = lost
<1>1. held = leaked /\ lost \in Nat
  BY DEF IInv, LocksConsistent, LocksGivenBack, Idle, TypeOK, KernelTypeOK
<1>2. RowDue = 0
  BY DEF RowDue
<1> QED BY <1>1, <1>2

\* A step inside the machine that leaves its threads as they must be.
LEMMA InsideKeeps ==
  ASSUME IInv, pc = "script", pc' = "script", call' = call, gc' \in BOOLEAN,
         VmTypeOK', LateCounted',
         UNCHANGED <<held, leaked, clock, table, trail, state, ask>>
  PROVE  /\ TypeOK' /\ LockOwned' /\ LocksGivenBack' /\ RowsAddUp' /\ AgentLimited'
         /\ StatementAllowed' /\ LateCounted' /\ StackReturned' /\ PrintsOwnValues' /\ AskSpaced'
<1>0. pc \in {"repl", "script"}
  OBVIOUS
<1>1. held' = held /\ leaked' = leaked \cup held /\ lost' = lost + RowDue
  BY <1>0, NothingDue DEF trail
<1>2. UNCHANGED <<clock, table, performed, ask>>
  BY DEF trail
<1>3. /\ UNCHANGED <<who, readonly, deadline, stack, begun, returned, printed>>
      /\ chunk' \in {chunk, NoChunk} /\ call' \in {call, NoCall}
  BY DEF state
<1>4. /\ pc \in {"repl", "script", "rows", "push", "audit"}
      /\ pc' \in {"shell", "repl", "script"} /\ (pc' = "shell" => who' = "none")
  OBVIOUS
<1> QED BY <1>1, <1>2, <1>3, <1>4, Settled

\* A step that ends a finalizer or the state.
LEMMA Ended ==
  ASSUME IInv, pc \in {"repl", "script"}, Close(hooks) \/ FinalizerOver,
         UNCHANGED <<held, leaked, clock, table, trail, ask>>
  PROVE  /\ TypeOK' /\ LockOwned' /\ LocksGivenBack' /\ RowsAddUp' /\ AgentLimited'
         /\ StatementAllowed' /\ LateCounted' /\ StackReturned' /\ PrintsOwnValues' /\ AskSpaced'
<1>1. /\ TypeOK /\ LateCounted
      /\ hooks \in [Thread -> Counts] /\ (~finalized => Counted(hooks))
  BY DEF IInv, LocksConsistent, TypeOK, VmTypeOK, LateCounted
<1>2. held' = held /\ leaked' = leaked \cup held /\ lost' = lost + RowDue
  BY NothingDue DEF trail
<1>3. VmTypeOK' /\ LateCounted'
  BY <1>1, CloseVm, CutVm
<1>4. /\ pc' \in {"shell", "repl", "script"} /\ (pc' = "shell" => who' = "none")
      /\ call' = NoCall /\ gc' \in BOOLEAN /\ chunk' \in {chunk, NoChunk}
  BY <1>1, CloseState, CutState
<1>5. \/ UNCHANGED <<who, readonly, deadline, stack, begun, returned, printed>>
      \/ /\ who' = "none" /\ readonly' = FALSE /\ deadline' = Never /\ begun' = 0
         /\ stack' = 0 /\ returned' = FALSE /\ printed' = 0
  BY <1>1, CloseState, CutState
<1>6. UNCHANGED <<clock, table, performed, ask>>
  BY DEF trail
<1> QED BY <1>2, <1>3, <1>4, <1>5, <1>6, Settled

\* A coroutine begins, or goes on, with a count of its own (lua_newthread() in lstate.c).
LEMMA ResumeKeeps ==
  ASSUME TypeOK, LateCounted, NEW c \in Coroutine, NEW new \in BOOLEAN, Resume(c, new)
  PROVE  VmTypeOK' /\ LateCounted'
<1> DEFINE e == IF new THEN NewThread ELSE Stepped[c]
<1>1. /\ VmTypeOK /\ c \in Thread /\ ~HookDue /\ UNCHANGED <<fin, finalized>>
      /\ active' = Append(active, c) /\ hooks' = [Stepped EXCEPT ![c] = e]
  BY DEF TypeOK, Thread, Resume
<1>2. Stepped \in [Thread -> Counts]
  BY SteppedFacts
<1>3. e \in Counts
  BY <1>1, <1>2, NewThreads
<1>4. ~finalized => Counted(Stepped) /\ e.late <= e.count
  <2> SUFFICES ASSUME ~finalized PROVE Counted(Stepped) /\ e.late <= e.count
    OBVIOUS
  <2>1. Counted(Stepped)
    BY <1>1, SteppedCounted
  <2> QED BY <1>1, <2>1, NewThreads DEF Counted
<1> HIDE DEF e
<1>5. /\ hooks' \in [Thread -> Counts]
      /\ \A t \in Thread : hooks'[t] = IF t = c THEN e ELSE Stepped[t]
  BY <1>1, <1>2, <1>3
<1>6. active' \in Seq(Thread) /\ active' # <<>>
  BY <1>1 DEF VmTypeOK
<1>7. VmTypeOK'
  BY <1>1, <1>5, <1>6 DEF VmTypeOK
<1>8. LateCounted'
  BY <1>1, <1>4, <1>5 DEF LateCounted, Counted
<1> QED BY <1>7, <1>8

\* A step of the machine keeps the invariant.
LEMMA VmKeeps ==
  ASSUME IInv, VmStep
  PROVE  /\ TypeOK' /\ LockOwned' /\ LocksGivenBack' /\ RowsAddUp' /\ AgentLimited'
         /\ StatementAllowed' /\ LateCounted' /\ StackReturned' /\ PrintsOwnValues' /\ AskSpaced'
<1>0. TypeOK /\ LateCounted /\ AgentLimited /\ VmTypeOK /\ gc \in BOOLEAN
  BY DEF IInv, LocksConsistent, TypeOK, ControlTypeOK
<1>1. CASE Compute
  <2>1. gc' \in BOOLEAN
    BY <1>0, <1>1, Zenon DEF Compute
  <2>2. /\ Instruction /\ UNCHANGED <<active, fin, finalized>> /\ pc = "script" /\ pc' = "script"
        /\ call' = call /\ UNCHANGED <<held, leaked, clock, table, trail, state, ask>>
    BY <1>1 DEF Compute, Instruction
  <2>3. VmTypeOK' /\ LateCounted'
    BY <1>0, <2>2, InstructionKeeps
  <2> QED BY <2>1, <2>2, <2>3, InsideKeeps
<1>2. CASE Hook
  <2>0. pc = "script" /\ HookDue /\ who = "agent" /\ Running \in Thread
    BY <1>0, <1>2, SteppedFacts DEF Hook, HookDue
  <2>1. CASE Cut(0, [hooks EXCEPT ![Running] = NewThread])
    <3> DEFINE h == [hooks EXCEPT ![Running] = NewThread]
    <3>1. h \in [Thread -> Counts]
      BY <1>0, NewThreads DEF VmTypeOK
    <3>2. \A t \in Thread : h[t] = IF t = Running THEN NewThread ELSE hooks[t]
      BY <1>0 DEF VmTypeOK
    <3>3. Cut(RowDue, h)
      BY <2>0, <2>1, NothingDue
    <3> HIDE DEF h
    <3>4. ~finalized => Counted(h)
      BY <1>0, <3>2, NewThreads DEF LateCounted, Counted
    <3> QED BY <2>0, <3>1, <3>3, <3>4, CutKeeps
  <2>2. CASE ~Cut(0, [hooks EXCEPT ![Running] = NewThread])
    <3>1. /\ clock < deadline /\ hooks' = Stepped /\ UNCHANGED <<active, fin, finalized>>
          /\ pc' = "script" /\ call' = call /\ gc' = gc
          /\ UNCHANGED <<held, leaked, clock, table, trail, state, ask>>
      BY <1>2, <2>0, <2>2 DEF Hook
    <3>2. clock < begun + Timeout
      BY <1>0, <2>0, <3>1 DEF AgentLimited
    <3>3. VmTypeOK'
      BY <1>0, <3>1, SteppedFacts DEF VmTypeOK
    <3>4. LateCounted'
      BY <1>0, <3>1, <3>2, SteppedCounted DEF LateCounted, Counted
    <3>5. gc' \in BOOLEAN
      BY <1>0, <3>1, Zenon
    <3> QED BY <2>0, <3>1, <3>3, <3>4, <3>5, InsideKeeps
  <2> QED BY <2>1, <2>2
<1>3. CASE ScriptFails
  <2>1. pc = "script" /\ CutOff(RowDue)
    BY <1>3, NothingDue DEF ScriptFails, Raise
  <2> QED BY <2>1, CutOffKeeps
<1>4. CASE Finalizer
  <2>1. /\ gc' \in BOOLEAN /\ finalized' = TRUE /\ fin' = "gc" /\ hooks' = Stepped
        /\ pc = "script" /\ pc' = "script" /\ active' = active
        /\ call' = call /\ UNCHANGED <<held, leaked, clock, table, trail, state, ask>>
    BY <1>4 DEF Finalizer, Instruction
  <2>2. finalized' \in BOOLEAN /\ finalized'
    BY <2>1, Zenon
  <2>3. VmTypeOK' /\ LateCounted'
    BY <1>0, <2>1, <2>2, SteppedFacts DEF VmTypeOK, LateCounted
  <2> QED BY <2>1, <2>3, InsideKeeps
<1>5. CASE FinalizerReturns
  BY <1>5, Ended DEF FinalizerReturns
<1>6. CASE Yield
  <2>1. /\ Instruction /\ ~HookDue /\ hooks' = Stepped /\ UNCHANGED <<fin, finalized>>
        /\ pc = "script" /\ pc' = "script" /\ Len(active) > 1 /\ active' = Front(active)
        /\ call' = call /\ gc' = gc
        /\ UNCHANGED <<held, leaked, clock, table, trail, state, ask>>
    BY <1>6 DEF Yield, Instruction
  <2>2. active' \in Seq(Thread) /\ active' # <<>>
    <3>1. active \in Seq(Thread) /\ active' = SubSeq(active, 1, Len(active) - 1)
      BY <1>0, <2>1 DEF VmTypeOK, Front
    <3>2. Len(active) - 1 \in Nat /\ Len(active) - 1 > 0 /\ Len(active) - 1 <= Len(active)
      BY <2>1, <3>1
    <3>3. SubSeq(active, 1, Len(active) - 1) \in Seq(Thread)
      BY <3>1, <3>2
    <3>4. Len(SubSeq(active, 1, Len(active) - 1)) = Len(active) - 1
      BY <3>1, <3>2
    <3>5. \A q \in Seq(Thread) : Len(q) > 0 => q # <<>>
      OBVIOUS
    <3> QED BY <3>1, <3>2, <3>3, <3>4, <3>5
  <2>3. VmTypeOK'
    BY <1>0, <2>1, <2>2, SteppedFacts DEF VmTypeOK
  <2>4. LateCounted'
    BY <1>0, <2>1, SteppedCounted DEF LateCounted, Counted
  <2>5. gc' \in BOOLEAN
    BY <1>0, <2>1, Zenon
  <2> QED BY <2>1, <2>3, <2>4, <2>5, InsideKeeps
<1>7. CASE Resumes
  <2>1. PICK c \in Coroutine, new \in BOOLEAN : Resume(c, new)
    BY <1>7 DEF Resumes
  <2>2. VmTypeOK' /\ LateCounted'
    BY <1>0, <2>1, ResumeKeeps
  <2>3. /\ pc = "script" /\ pc' = "script"
        /\ call' = call /\ gc' = gc
        /\ UNCHANGED <<held, leaked, clock, table, trail, state, ask>>
    BY <2>1 DEF Resume
  <2>4. gc' \in BOOLEAN
    BY <1>0, <2>3, Zenon
  <2> QED BY <2>2, <2>3, <2>4, InsideKeeps
<1>8. CASE Return
  BY <1>8, Ended DEF Return, InChunk
<1>9. CASE Exit
  BY <1>9, Ended DEF Exit, InChunk
<1> QED BY <1>1, <1>2, <1>3, <1>4, <1>5, <1>6, <1>7, <1>8, <1>9 DEF VmStep

-----------------------------------------------------------------------------
(* Every step, one part of the invariant at a time.                        *)

\* Every step leaves the variables of the Lua state with their types.
LEMMA NextControlTypes ==
  ASSUME IInv, Next
  PROVE  ControlTypeOK'
<1> USE LuaHostAssumption DEF table, bounds, trail, state, ask
<1>0. TypeOK /\ ControlTypeOK /\ KernelTypeOK
  BY DEF IInv, LocksConsistent, Paced, TypeOK
<1>1. CASE Tick
  BY <1>0, <1>1, Initials DEF Tick, ControlTypeOK, Never
<1>2. CASE VmStep
  BY <1>2, VmKeeps DEF TypeOK
<1>5. CASE NumberError
  BY <1>0, <1>5, Initials DEF NumberError, Panic, ControlTypeOK, Never
<1>7. CASE LineDone
  <2>1. returned' \in BOOLEAN
    BY <1>7, Zenon DEF LineDone
  <2>2. chunk.results \in 0 .. 1
    BY <1>0 DEF ControlTypeOK, Chunk
  <2> QED BY <1>0, <1>7, <2>1, <2>2, Initials DEF LineDone, InChunk, Popped, ControlTypeOK
<1>8. CASE PrintPanics
  BY <1>0, <1>8, Initials DEF PrintPanics, InChunk, Panic, ControlTypeOK, Never
<1>9. CASE Lock
  BY <1>0, <1>9, Initials DEF Lock, ControlTypeOK, Never
<1>10. CASE SqlBody
  BY <1>0, <1>10, MakingFacts, Initials DEF SqlBody, Rows, Unlock, Unlocked, Effect, Owes,
     AuditedAfter, ControlTypeOK, Never
<1>11. CASE ReadBody
  BY <1>0, <1>11, MakingFacts, Initials DEF ReadBody, Unlock, Unlocked, Owes, AuditedAfter,
     ControlTypeOK, Never
<1>12. CASE WriteBody
  BY <1>0, <1>12, Initials DEF WriteBody, Unlock, Unlocked, Owes, ControlTypeOK, Never
<1>13. CASE LsBody
  BY <1>0, <1>13, MakingFacts, Initials DEF LsBody, Rows, ControlTypeOK, Never
<1>14. CASE AuditBody
  BY <1>0, <1>14, Initials DEF AuditBody, Owes, Insert, Unlock, Unlocked, ControlTypeOK,
     Never
<1>15. CASE MakeValue
  <2>1. CASE CutOff(RowDue)
    BY <1>15, <2>1, CutOffKeeps DEF MakeValue, TypeOK
  <2>2. CASE ~CutOff(RowDue)
    BY <1>0, <1>15, <2>2, Initials DEF MakeValue, RowDue, Builtins, ControlTypeOK
  <2> QED BY <2>1, <2>2
<1>16. CASE ValuesMade
  <2>1. call.after \in {"script", "audit"}
    BY <1>0 DEF ControlTypeOK, Builtins
  <2> QED BY <1>0, <1>16, <2>1, Initials DEF ValuesMade, Unlock, ControlTypeOK
<1>17. CASE Push
  <2>1. CASE CutOff(RowDue)
    BY <1>17, <2>1, CutOffKeeps DEF Push, TypeOK
  <2>2. CASE ~CutOff(RowDue)
    BY <1>0, <1>17, <2>2, Initials DEF Push, Raise, RowDue, ControlTypeOK
  <2> QED BY <2>1, <2>2
<1>18. CASE AuditLog
  <2>1. CASE CutOff(RowDue)
    BY <1>18, <2>1, CutOffKeeps DEF AuditLog, TypeOK
  <2>2. CASE ~CutOff(RowDue)
    BY <1>0, <1>18, <2>2, Initials DEF AuditLog, RowDue, Insert, Next_, ControlTypeOK
  <2> QED BY <2>1, <2>2
<1>19. CASE Network
  BY <1>0, <1>19, Initials, CallFacts DEF Network, Next_, ControlTypeOK
<1>20. CASE CallDb
  <2>1. UNCHANGED <<gc, state>>
    BY <1>20 DEF CallDb
  <2>2. call' \in Builtins /\ pc' \in {"lock", "rows", "push", "net", "stuck"}
    BY <1>0, <1>20, Initials, CallFacts DEF CallDb, Next_, ControlTypeOK
  <2> QED BY <1>0, <2>1, <2>2 DEF ControlTypeOK
<1>21. CASE CallAsk
  <2>1. UNCHANGED <<gc, state>>
    BY <1>21 DEF CallAsk
  <2>2. call' \in Builtins /\ pc' \in {"lock", "rows", "push", "net", "stuck"}
    BY <1>0, <1>21, Initials, CallFacts DEF CallAsk, Next_, ControlTypeOK
  <2> QED BY <1>0, <2>1, <2>2 DEF ControlTypeOK
<1>22. CASE Sleep
  BY <1>0, <1>22, Initials DEF Sleep, Calls, Instruction, ControlTypeOK, Never
<1>23. CASE Store
  BY <1>0, <1>23, Initials DEF Store, Command, ShellStuck, ControlTypeOK, Never
<1>24. CASE Query
  BY <1>0, <1>24, Initials DEF Query, Command, ShellStuck, ControlTypeOK, Never
<1>25. CASE Run
  <2>1. readonly' \in BOOLEAN
    BY <1>0, <1>25, Zenon DEF Run, ShellStuck, Restricted, ControlTypeOK
  <2> QED BY <1>0, <1>25, <2>1 DEF Run, Command, ShellStuck, Deadline, ControlTypeOK,
                                    KernelTypeOK, Never
<1>26. CASE Repl
  BY <1>0, <1>26, Initials DEF Repl, Command, ControlTypeOK, Never
<1>27. CASE Line
  BY <1>0, <1>27, Initials DEF Line, ControlTypeOK, Never
<1> QED BY <1>1, <1>2, <1>5, <1>7, <1>8, <1>9, <1>10, <1>11, <1>12, <1>13,
   <1>14, <1>15, <1>16, <1>17, <1>18, <1>19, <1>20, <1>21, <1>22, <1>23, <1>24,
   <1>25, <1>26, <1>27 DEF Next, VmStep, Resumes, Machine, Builtin, Script, Shell

\* Every step leaves the variables of the kernel with their types.  That a guard
\* which is dropped was not a leaked one needs LockOwned.
LEMMA NextKernelTypes ==
  ASSUME IInv, Next
  PROVE  KernelTypeOK'
<1> USE LuaHostAssumption DEF table, bounds, trail, state, ask
<1>0. TypeOK /\ ControlTypeOK /\ KernelTypeOK /\ LockOwned
  BY DEF IInv, LocksConsistent, Paced, TypeOK
<1>1. CASE Tick
  BY <1>0, <1>1 DEF Tick, KernelTypeOK
<1>2. CASE VmStep
  BY <1>2, VmKeeps DEF TypeOK
<1>5. CASE NumberError
  BY <1>0, <1>5 DEF NumberError, Panic, KernelTypeOK
<1>7. CASE LineDone
  BY <1>0, <1>7 DEF LineDone, InChunk, Popped, KernelTypeOK
<1>8. CASE PrintPanics
  BY <1>0, <1>8 DEF PrintPanics, InChunk, Panic, KernelTypeOK
<1>9. CASE Lock
  BY <1>0, <1>9 DEF Lock, KernelTypeOK
<1>10. CASE SqlBody
  <2>1. held' \subseteq {"db", "net", "ask"} /\ leaked' \subseteq held'
    BY <1>0, <1>10 DEF SqlBody, Rows, Unlock, Unlocked, LockOwned, KernelTypeOK
  <2>2. files' \in [Path -> {"none", "lua", "data"}]
    BY <1>0, <1>10 DEF SqlBody, Rows, Effect, Owes, KernelTypeOK
  <2>3. audit' \in Nat /\ performed' \in Nat /\ lost' \in Nat
    BY <1>0, <1>10 DEF SqlBody, Rows, Effect, Owes, KernelTypeOK
  <2>4. UNCHANGED <<clock, lastAsk, through, gap>>
    BY <1>10 DEF SqlBody
  <2> QED BY <1>0, <2>1, <2>2, <2>3, <2>4 DEF KernelTypeOK
<1>11. CASE ReadBody
  <2>1. held' \subseteq {"db", "net", "ask"} /\ leaked' \subseteq held'
    BY <1>0, <1>11 DEF ReadBody, Unlock, Unlocked, LockOwned, KernelTypeOK
  <2>2. files' \in [Path -> {"none", "lua", "data"}]
    BY <1>0, <1>11 DEF ReadBody, Owes, KernelTypeOK
  <2>3. audit' \in Nat /\ performed' \in Nat /\ lost' \in Nat
    BY <1>0, <1>11 DEF ReadBody, Owes, KernelTypeOK
  <2>4. UNCHANGED <<clock, lastAsk, through, gap>>
    BY <1>11 DEF ReadBody
  <2> QED BY <1>0, <2>1, <2>2, <2>3, <2>4 DEF KernelTypeOK
<1>12. CASE WriteBody
  <2>1. held' \subseteq {"db", "net", "ask"} /\ leaked' \subseteq held'
    BY <1>0, <1>12 DEF WriteBody, Unlock, Unlocked, LockOwned, KernelTypeOK
  <2>2. files' \in [Path -> {"none", "lua", "data"}]
    BY <1>0, <1>12 DEF WriteBody, Owes, KernelTypeOK
  <2>3. audit' \in Nat /\ performed' \in Nat /\ lost' \in Nat
    BY <1>0, <1>12 DEF WriteBody, Owes, KernelTypeOK
  <2>4. UNCHANGED <<clock, lastAsk, through, gap>>
    BY <1>12 DEF WriteBody
  <2> QED BY <1>0, <2>1, <2>2, <2>3, <2>4 DEF KernelTypeOK
<1>13. CASE LsBody
  <2>1. held' \subseteq {"db", "net", "ask"} /\ leaked' \subseteq held'
    BY <1>0, <1>13 DEF LsBody, Rows, LockOwned, KernelTypeOK
  <2>2. files' \in [Path -> {"none", "lua", "data"}]
    BY <1>0, <1>13 DEF LsBody, Rows, KernelTypeOK
  <2>3. audit' \in Nat /\ performed' \in Nat /\ lost' \in Nat
    BY <1>0, <1>13 DEF LsBody, Rows, KernelTypeOK
  <2>4. UNCHANGED <<clock, lastAsk, through, gap>>
    BY <1>13 DEF LsBody
  <2> QED BY <1>0, <2>1, <2>2, <2>3, <2>4 DEF KernelTypeOK
<1>14. CASE AuditBody
  <2>1. held' \subseteq {"db", "net", "ask"} /\ leaked' \subseteq held'
    BY <1>0, <1>14 DEF AuditBody, Unlock, Unlocked, LockOwned, KernelTypeOK
  <2>2. files' \in [Path -> {"none", "lua", "data"}]
    BY <1>0, <1>14 DEF AuditBody, Owes, Insert, KernelTypeOK
  <2>3. audit' \in Nat /\ performed' \in Nat /\ lost' \in Nat
    BY <1>0, <1>14 DEF AuditBody, Owes, Insert, KernelTypeOK
  <2>4. UNCHANGED <<clock, lastAsk, through, gap>>
    BY <1>14 DEF AuditBody
  <2> QED BY <1>0, <2>1, <2>2, <2>3, <2>4 DEF KernelTypeOK
<1>15. CASE MakeValue
  <2>1. CASE CutOff(RowDue)
    BY <1>15, <2>1, CutOffKeeps DEF MakeValue, TypeOK
  <2>2. CASE ~CutOff(RowDue)
    BY <1>0, <1>15, <2>2 DEF MakeValue, RowDue, KernelTypeOK
  <2> QED BY <2>1, <2>2
<1>16. CASE ValuesMade
  <2>1. held' \subseteq {"db", "net", "ask"} /\ leaked' \subseteq held'
    BY <1>0, <1>16 DEF ValuesMade, Unlock, Unlocked, LockOwned, KernelTypeOK
  <2>2. files' \in [Path -> {"none", "lua", "data"}]
    BY <1>0, <1>16 DEF ValuesMade, KernelTypeOK
  <2>3. audit' \in Nat /\ performed' \in Nat /\ lost' \in Nat
    BY <1>0, <1>16 DEF ValuesMade, KernelTypeOK
  <2>4. UNCHANGED <<clock, lastAsk, through, gap>>
    BY <1>16 DEF ValuesMade
  <2> QED BY <1>0, <2>1, <2>2, <2>3, <2>4 DEF KernelTypeOK
<1>17. CASE Push
  <2>1. CASE CutOff(RowDue)
    BY <1>17, <2>1, CutOffKeeps DEF Push, TypeOK
  <2>2. CASE ~CutOff(RowDue)
    BY <1>0, <1>17, <2>2 DEF Push, Raise, RowDue, KernelTypeOK
  <2> QED BY <2>1, <2>2
<1>18. CASE AuditLog
  <2>1. CASE CutOff(RowDue)
    BY <1>18, <2>1, CutOffKeeps DEF AuditLog, TypeOK
  <2>2. CASE ~CutOff(RowDue)
    <3>1. /\ audit' \in Nat /\ lost' \in Nat
          /\ UNCHANGED <<held, leaked, files, clock, performed, ask>>
      BY <1>0, <1>18, <2>2 DEF AuditLog, RowDue, Insert, KernelTypeOK
    <3> QED BY <1>0, <3>1 DEF KernelTypeOK
  <2> QED BY <2>1, <2>2
<1>19. CASE Network
  <2>1. held' \subseteq {"db", "net", "ask"} /\ leaked' \subseteq held'
    BY <1>0, <1>19 DEF Network, LockOwned, KernelTypeOK
  <2>2. files' \in [Path -> {"none", "lua", "data"}]
    BY <1>0, <1>19 DEF Network, Owes, KernelTypeOK
  <2>3. audit' \in Nat /\ performed' \in Nat /\ lost' \in Nat
    BY <1>0, <1>19 DEF Network, Owes, KernelTypeOK
  <2>4. UNCHANGED <<clock, lastAsk, through, gap>>
    BY <1>19 DEF Network
  <2> QED BY <1>0, <2>1, <2>2, <2>3, <2>4 DEF KernelTypeOK
<1>20. CASE CallDb
  BY <1>0, <1>20 DEF CallDb, Calls, Instruction, Next_, Do, KernelTypeOK
<1>21. CASE CallAsk
  BY <1>0, <1>21 DEF CallAsk, Calls, Instruction, Next_, Message, Accepted,
     TooSoon, KernelTypeOK
<1>22. CASE Sleep
  BY <1>0, <1>22 DEF Sleep, Calls, Instruction, KernelTypeOK
<1>23. CASE Store
  BY <1>0, <1>23 DEF Store, Command, ShellStuck, KernelTypeOK
<1>24. CASE Query
  BY <1>0, <1>24 DEF Query, Command, ShellStuck, KernelTypeOK
<1>25. CASE Run
  BY <1>0, <1>25 DEF Run, Command, ShellStuck, Restricted, Deadline, KernelTypeOK
<1>26. CASE Repl
  BY <1>0, <1>26 DEF Repl, Command, KernelTypeOK
<1>27. CASE Line
  BY <1>0, <1>27 DEF Line, KernelTypeOK
<1> QED BY <1>1, <1>2, <1>5, <1>7, <1>8, <1>9, <1>10, <1>11, <1>12, <1>13,
   <1>14, <1>15, <1>16, <1>17, <1>18, <1>19, <1>20, <1>21, <1>22, <1>23, <1>24,
   <1>25, <1>26, <1>27 DEF Next, VmStep, Resumes, Machine, Builtin, Script, Shell

\* Every step keeps a builtin's lock its own: taken when free, dropped once, on each
\* path of sql(), read(), write(), ls(), audit() and ask().
LEMMA NextLockOwned ==
  ASSUME IInv, Next
  PROVE  LockOwned'
<1> USE LuaHostAssumption DEF table, bounds, trail, state, ask
<1>0. /\ TypeOK /\ LockOwned
      /\ call \in Builtins /\ call.after \in {"script", "audit"}
  BY DEF IInv, LocksConsistent, Paced, TypeOK, ControlTypeOK, KernelTypeOK, Builtins
<1>1. CASE Tick
  BY <1>0, <1>1 DEF Tick, LockOwned
<1>2. CASE VmStep
  BY <1>2, VmKeeps
<1>5. CASE NumberError
  BY <1>0, <1>5 DEF NumberError, Panic, LockOwned
<1>7. CASE LineDone
  BY <1>0, <1>7 DEF LineDone, InChunk, Popped, LockOwned
<1>8. CASE PrintPanics
  BY <1>0, <1>8 DEF PrintPanics, InChunk, Panic, LockOwned
<1>9. CASE Lock
  BY <1>0, <1>9 DEF Lock, LockOwned
<1>10. CASE SqlBody
  <2>1. \A n \in 0 .. MaxRows : 1 + n \in Nat
    OBVIOUS
  <2>2. CASE pc' = "rows"
    <3>1. call'.lock = call.lock /\ UNCHANGED <<held, leaked>>
      BY <1>0, <1>10, <2>1, <2>2, MakingFacts DEF SqlBody, Rows, Unlock, AuditedAfter
    <3> QED BY <1>0, <1>10, <2>2, <3>1 DEF SqlBody, LockOwned
  <2>3. CASE pc' # "rows"
    BY <1>0, <1>10, <2>3 DEF SqlBody, Rows, Unlock, Unlocked, LockOwned
  <2> QED BY <2>2, <2>3
<1>11. CASE ReadBody
  <2>1. CASE pc' = "rows"
    <3>1. call'.lock = call.lock /\ UNCHANGED <<held, leaked>>
      BY <1>0, <1>11, <2>1, MakingFacts DEF ReadBody, Unlock, AuditedAfter
    <3> QED BY <1>0, <1>11, <2>1, <3>1 DEF ReadBody, LockOwned
  <2>2. CASE pc' # "rows"
    BY <1>0, <1>11, <2>2 DEF ReadBody, Unlock, Unlocked, LockOwned
  <2> QED BY <2>1, <2>2
<1>12. CASE WriteBody
  BY <1>0, <1>12 DEF WriteBody, Unlock, Unlocked, Owes, LockOwned
<1>13. CASE LsBody
  BY <1>0, <1>13, MakingFacts DEF LsBody, Rows, LockOwned
<1>14. CASE AuditBody
  BY <1>0, <1>14 DEF AuditBody, Owes, Insert, Unlock, Unlocked, LockOwned
<1>15. CASE MakeValue
  <2>1. CASE CutOff(RowDue)
    BY <1>15, <2>1, CutOffKeeps DEF MakeValue
  <2>2. CASE ~CutOff(RowDue)
    BY <1>0, <1>15, <2>2 DEF MakeValue, RowDue, Builtins, LockOwned
  <2> QED BY <2>1, <2>2
<1>16. CASE ValuesMade
  BY <1>0, <1>16 DEF ValuesMade, Unlock, Unlocked, LockOwned
<1>17. CASE Push
  <2>1. CASE CutOff(RowDue)
    BY <1>17, <2>1, CutOffKeeps DEF Push
  <2>2. CASE ~CutOff(RowDue)
    BY <1>0, <1>17, <2>2 DEF Push, Raise, RowDue, LockOwned
  <2> QED BY <2>1, <2>2
<1>18. CASE AuditLog
  <2>1. CASE CutOff(RowDue)
    BY <1>18, <2>1, CutOffKeeps DEF AuditLog
  <2>2. CASE ~CutOff(RowDue)
    BY <1>0, <1>18, <2>2 DEF AuditLog, RowDue, Insert, Next_, LockOwned
  <2> QED BY <2>1, <2>2
<1>19. CASE Network
  BY <1>0, <1>19 DEF Network, Next_, Message, Owes, LockOwned
<1>20. CASE CallDb
  BY <1>0, <1>20 DEF CallDb, Calls, Instruction, Next_, Do, LockOwned
<1>21. CASE CallAsk
  BY <1>0, <1>21 DEF CallAsk, Calls, Instruction, Next_, Message, Accepted,
     TooSoon, LockOwned
<1>22. CASE Sleep
  BY <1>0, <1>22 DEF Sleep, Calls, Instruction, LockOwned
<1>23. CASE Store
  BY <1>0, <1>23 DEF Store, Command, ShellStuck, LockOwned
<1>24. CASE Query
  BY <1>0, <1>24 DEF Query, Command, ShellStuck, LockOwned
<1>25. CASE Run
  BY <1>0, <1>25 DEF Run, Command, ShellStuck, Restricted, Deadline, LockOwned
<1>26. CASE Repl
  BY <1>0, <1>26 DEF Repl, Command, LockOwned
<1>27. CASE Line
  BY <1>0, <1>27 DEF Line, LockOwned
<1> QED BY <1>1, <1>2, <1>5, <1>7, <1>8, <1>9, <1>10, <1>11, <1>12, <1>13,
   <1>14, <1>15, <1>16, <1>17, <1>18, <1>19, <1>20, <1>21, <1>22, <1>23, <1>24,
   <1>25, <1>26, <1>27 DEF Next, VmStep, Resumes, Machine, Builtin, Script, Shell

\* Every step that gives control back leaves no lock taken but the leaked ones, and
\* every wait for a lock is for a leaked one, or that of a finalizer.
LEMMA NextLocksGivenBack ==
  ASSUME IInv, Next
  PROVE  LocksGivenBack'
<1> USE LuaHostAssumption DEF table, bounds, trail, state, ask
<1>0. /\ TypeOK /\ LockOwned /\ LocksGivenBack
      /\ call.after \in {"script", "audit"}
  BY DEF IInv, LocksConsistent, Paced, TypeOK, ControlTypeOK, KernelTypeOK, Builtins
<1>1. CASE Tick
  BY <1>0, <1>1 DEF Tick, LockOwned, LocksGivenBack, Idle
<1>2. CASE VmStep
  BY <1>2, VmKeeps
<1>5. CASE NumberError
  BY <1>0, <1>5 DEF NumberError, Panic, LockOwned, LocksGivenBack, Idle
<1>7. CASE LineDone
  BY <1>0, <1>7 DEF LineDone, InChunk, Popped, LockOwned, LocksGivenBack, Idle
<1>8. CASE PrintPanics
  BY <1>0, <1>8 DEF PrintPanics, InChunk, Panic, LockOwned, LocksGivenBack, Idle
<1>9. CASE Lock
  BY <1>0, <1>9 DEF Lock, LockOwned, LocksGivenBack, Idle
<1>10. CASE SqlBody
  BY <1>0, <1>10, MakingFacts DEF SqlBody, Rows, Unlock, Unlocked, Effect, Owes,
     AuditedAfter, LockOwned, LocksGivenBack, Idle
<1>11. CASE ReadBody
  BY <1>0, <1>11, MakingFacts DEF ReadBody, Unlock, Unlocked, Owes, AuditedAfter, LockOwned,
     LocksGivenBack, Idle
<1>12. CASE WriteBody
  BY <1>0, <1>12 DEF WriteBody, Unlock, Unlocked, Owes, LockOwned, LocksGivenBack, Idle
<1>13. CASE LsBody
  BY <1>0, <1>13, MakingFacts DEF LsBody, Rows, LockOwned, LocksGivenBack, Idle
<1>14. CASE AuditBody
  BY <1>0, <1>14 DEF AuditBody, Owes, Insert, Unlock, Unlocked, LockOwned, LocksGivenBack,
     Idle
<1>15. CASE MakeValue
  <2>1. CASE CutOff(RowDue)
    BY <1>15, <2>1, CutOffKeeps DEF MakeValue
  <2>2. CASE ~CutOff(RowDue)
    BY <1>0, <1>15, <2>2 DEF MakeValue, RowDue, LockOwned, LocksGivenBack, Idle
  <2> QED BY <2>1, <2>2
<1>16. CASE ValuesMade
  BY <1>0, <1>16 DEF ValuesMade, Unlock, Unlocked, LockOwned, LocksGivenBack, Idle
<1>17. CASE Push
  <2>1. CASE CutOff(RowDue)
    BY <1>17, <2>1, CutOffKeeps DEF Push
  <2>2. CASE ~CutOff(RowDue)
    BY <1>0, <1>17, <2>2 DEF Push, Raise, RowDue, LockOwned, LocksGivenBack, Idle
  <2> QED BY <2>1, <2>2
<1>18. CASE AuditLog
  <2>1. CASE CutOff(RowDue)
    BY <1>18, <2>1, CutOffKeeps DEF AuditLog
  <2>2. CASE ~CutOff(RowDue)
    BY <1>0, <1>18, <2>2 DEF AuditLog, RowDue, Insert, Next_, LockOwned, LocksGivenBack, Idle
  <2> QED BY <2>1, <2>2
<1>19. CASE Network
  BY <1>0, <1>19 DEF Network, Next_, Message, Owes, LockOwned, LocksGivenBack, Idle
<1>20. CASE CallDb
  BY <1>0, <1>20 DEF CallDb, Calls, Instruction, Next_, Do, LockOwned,
     LocksGivenBack, Idle
<1>21. CASE CallAsk
  BY <1>0, <1>21 DEF CallAsk, Calls, Instruction, Next_, Message, Accepted,
     TooSoon, LockOwned, LocksGivenBack, Idle
<1>22. CASE Sleep
  BY <1>0, <1>22 DEF Sleep, Calls, Instruction, LockOwned, LocksGivenBack, Idle
<1>23. CASE Store
  BY <1>0, <1>23 DEF Store, Command, ShellStuck, LockOwned, LocksGivenBack, Idle
<1>24. CASE Query
  BY <1>0, <1>24 DEF Query, Command, ShellStuck, LockOwned, LocksGivenBack, Idle
<1>25. CASE Run
  BY <1>0, <1>25 DEF Run, Command, ShellStuck, Restricted, Deadline, LockOwned,
     LocksGivenBack, Idle
<1>26. CASE Repl
  BY <1>0, <1>26 DEF Repl, Command, LockOwned, LocksGivenBack, Idle
<1>27. CASE Line
  BY <1>0, <1>27 DEF Line, LockOwned, LocksGivenBack, Idle
<1> QED BY <1>1, <1>2, <1>5, <1>7, <1>8, <1>9, <1>10, <1>11, <1>12, <1>13,
   <1>14, <1>15, <1>16, <1>17, <1>18, <1>19, <1>20, <1>21, <1>22, <1>23, <1>24,
   <1>25, <1>26, <1>27 DEF Next, VmStep, Resumes, Machine, Builtin, Script, Shell

\* Every step keeps operations and rows in balance: an operation is counted when its
\* row becomes due, and the row is written or counted as lost.
LEMMA NextRowsAddUp ==
  ASSUME IInv, Next
  PROVE  RowsAddUp'
<1> USE LuaHostAssumption DEF table, bounds, trail, state, ask
<1>0. /\ TypeOK /\ RowsAddUp
      /\ audit \in Nat /\ lost \in Nat /\ performed \in Nat
      /\ call \in Builtins /\ call.after \in {"script", "audit"}
  BY DEF IInv, LocksConsistent, Paced, TypeOK, ControlTypeOK, KernelTypeOK, Builtins
<1>1. CASE Tick
  BY <1>0, <1>1 DEF Tick, RowsAddUp, RowDue
<1>2. CASE VmStep
  BY <1>2, VmKeeps
<1>5. CASE NumberError
  BY <1>0, <1>5 DEF NumberError, Panic, RowsAddUp, RowDue
<1>7. CASE LineDone
  BY <1>0, <1>7 DEF LineDone, InChunk, Popped, RowsAddUp, RowDue
<1>8. CASE PrintPanics
  BY <1>0, <1>8 DEF PrintPanics, InChunk, Panic, RowsAddUp, RowDue
<1>9. CASE Lock
  BY <1>0, <1>9 DEF Lock, RowsAddUp, RowDue
<1>10. CASE SqlBody
  BY <1>0, <1>10, MakingFacts DEF SqlBody, Rows, Unlock, Unlocked, Effect, Owes,
     AuditedAfter, RowsAddUp, RowDue
<1>11. CASE ReadBody
  BY <1>0, <1>11, MakingFacts DEF ReadBody, Unlock, Unlocked, Owes, AuditedAfter, RowsAddUp,
     RowDue
<1>12. CASE WriteBody
  BY <1>0, <1>12 DEF WriteBody, Unlock, Unlocked, Owes, RowsAddUp, RowDue
<1>13. CASE LsBody
  BY <1>0, <1>13, MakingFacts DEF LsBody, Rows, RowsAddUp, RowDue
<1>14. CASE AuditBody
  BY <1>0, <1>14 DEF AuditBody, Owes, Insert, Unlock, Unlocked, RowsAddUp, RowDue
<1>15. CASE MakeValue
  <2>1. CASE CutOff(RowDue)
    BY <1>15, <2>1, CutOffKeeps DEF MakeValue
  <2>2. CASE ~CutOff(RowDue)
    BY <1>0, <1>15, <2>2 DEF MakeValue, RowDue, Builtins, RowsAddUp
  <2> QED BY <2>1, <2>2
<1>16. CASE ValuesMade
  BY <1>0, <1>16 DEF ValuesMade, Unlock, Unlocked, RowsAddUp, RowDue
<1>17. CASE Push
  <2>1. CASE CutOff(RowDue)
    BY <1>17, <2>1, CutOffKeeps DEF Push
  <2>2. CASE ~CutOff(RowDue)
    BY <1>0, <1>17, <2>2 DEF Push, Raise, RowDue, RowsAddUp
  <2> QED BY <2>1, <2>2
<1>18. CASE AuditLog
  <2>1. CASE CutOff(RowDue)
    BY <1>18, <2>1, CutOffKeeps DEF AuditLog
  <2>2. CASE ~CutOff(RowDue)
    BY <1>0, <1>18, <2>2 DEF AuditLog, RowDue, Insert, Next_, RowsAddUp
  <2> QED BY <2>1, <2>2
<1>19. CASE Network
  BY <1>0, <1>19 DEF Network, Next_, Message, Owes, RowsAddUp, RowDue
<1>20. CASE CallDb
  BY <1>0, <1>20 DEF CallDb, Calls, Instruction, Next_, Do, RowsAddUp, RowDue
<1>21. CASE CallAsk
  BY <1>0, <1>21 DEF CallAsk, Calls, Instruction, Next_, Message, Accepted,
     TooSoon, RowsAddUp, RowDue
<1>22. CASE Sleep
  BY <1>0, <1>22 DEF Sleep, Calls, Instruction, RowsAddUp, RowDue
<1>23. CASE Store
  BY <1>0, <1>23 DEF Store, Command, ShellStuck, RowsAddUp, RowDue
<1>24. CASE Query
  BY <1>0, <1>24 DEF Query, Command, ShellStuck, RowsAddUp, RowDue
<1>25. CASE Run
  BY <1>0, <1>25 DEF Run, Command, ShellStuck, Restricted, Deadline, RowsAddUp, RowDue
<1>26. CASE Repl
  BY <1>0, <1>26 DEF Repl, Command, RowsAddUp, RowDue
<1>27. CASE Line
  BY <1>0, <1>27 DEF Line, RowsAddUp, RowDue
<1> QED BY <1>1, <1>2, <1>5, <1>7, <1>8, <1>9, <1>10, <1>11, <1>12, <1>13,
   <1>14, <1>15, <1>16, <1>17, <1>18, <1>19, <1>20, <1>21, <1>22, <1>23, <1>24,
   <1>25, <1>26, <1>27 DEF Next, VmStep, Resumes, Machine, Builtin, Script, Shell

\* Every step leaves an agent with the deadline and the restriction that run_agent()
\* gave it.
LEMMA NextAgentLimited ==
  ASSUME IInv, Next
  PROVE  AgentLimited'
<1> USE LuaHostAssumption DEF table, bounds, trail, state, ask
<1>0. /\ TypeOK /\ AgentLimited
      /\ call.after \in {"script", "audit"}
  BY DEF IInv, LocksConsistent, Paced, TypeOK, ControlTypeOK, KernelTypeOK, Builtins
<1>1. CASE Tick
  BY <1>0, <1>1 DEF Tick, AgentLimited
<1>2. CASE VmStep
  BY <1>2, VmKeeps
<1>5. CASE NumberError
  BY <1>0, <1>5 DEF NumberError, Panic, AgentLimited
<1>7. CASE LineDone
  BY <1>0, <1>7 DEF LineDone, InChunk, Popped, AgentLimited
<1>8. CASE PrintPanics
  BY <1>0, <1>8 DEF PrintPanics, InChunk, Panic, AgentLimited
<1>9. CASE Lock
  BY <1>0, <1>9 DEF Lock, AgentLimited
<1>10. CASE SqlBody
  BY <1>0, <1>10, MakingFacts DEF SqlBody, Rows, Unlock, Unlocked, Effect, Owes,
     AuditedAfter, AgentLimited
<1>11. CASE ReadBody
  BY <1>0, <1>11, MakingFacts DEF ReadBody, Unlock, Unlocked, Owes, AuditedAfter,
     AgentLimited
<1>12. CASE WriteBody
  BY <1>0, <1>12 DEF WriteBody, Unlock, Unlocked, Owes, AgentLimited
<1>13. CASE LsBody
  BY <1>0, <1>13, MakingFacts DEF LsBody, Rows, AgentLimited
<1>14. CASE AuditBody
  BY <1>0, <1>14 DEF AuditBody, Owes, Insert, Unlock, Unlocked, AgentLimited
<1>15. CASE MakeValue
  <2>1. CASE CutOff(RowDue)
    BY <1>15, <2>1, CutOffKeeps DEF MakeValue
  <2>2. CASE ~CutOff(RowDue)
    BY <1>0, <1>15, <2>2 DEF MakeValue, RowDue, AgentLimited
  <2> QED BY <2>1, <2>2
<1>16. CASE ValuesMade
  BY <1>0, <1>16 DEF ValuesMade, Unlock, Unlocked, AgentLimited
<1>17. CASE Push
  <2>1. CASE CutOff(RowDue)
    BY <1>17, <2>1, CutOffKeeps DEF Push
  <2>2. CASE ~CutOff(RowDue)
    BY <1>0, <1>17, <2>2 DEF Push, Raise, RowDue, AgentLimited
  <2> QED BY <2>1, <2>2
<1>18. CASE AuditLog
  <2>1. CASE CutOff(RowDue)
    BY <1>18, <2>1, CutOffKeeps DEF AuditLog
  <2>2. CASE ~CutOff(RowDue)
    BY <1>0, <1>18, <2>2 DEF AuditLog, RowDue, Insert, Next_, AgentLimited
  <2> QED BY <2>1, <2>2
<1>19. CASE Network
  BY <1>0, <1>19 DEF Network, Next_, Message, Owes, AgentLimited
<1>20. CASE CallDb
  BY <1>0, <1>20 DEF CallDb, Calls, Instruction, Next_, Do, AgentLimited
<1>21. CASE CallAsk
  BY <1>0, <1>21 DEF CallAsk, Calls, Instruction, Next_, Message, Accepted,
     TooSoon, AgentLimited
<1>22. CASE Sleep
  BY <1>0, <1>22 DEF Sleep, Calls, Instruction, AgentLimited
<1>23. CASE Store
  BY <1>0, <1>23 DEF Store, Command, ShellStuck, AgentLimited
<1>24. CASE Query
  BY <1>0, <1>24 DEF Query, Command, ShellStuck, AgentLimited
<1>25. CASE Run
  BY <1>0, <1>25 DEF Run, Command, ShellStuck, Restricted, Deadline, AgentLimited
<1>26. CASE Repl
  BY <1>0, <1>26 DEF Repl, Command, AgentLimited
<1>27. CASE Line
  BY <1>0, <1>27 DEF Line, AgentLimited
<1> QED BY <1>1, <1>2, <1>5, <1>7, <1>8, <1>9, <1>10, <1>11, <1>12, <1>13,
   <1>14, <1>15, <1>16, <1>17, <1>18, <1>19, <1>20, <1>21, <1>22, <1>23, <1>24,
   <1>25, <1>26, <1>27 DEF Next, VmStep, Resumes, Machine, Builtin, Script, Shell

\* Only a statement that sql() has let through reaches the database.
LEMMA NextStatementAllowed ==
  ASSUME IInv, Next
  PROVE  StatementAllowed'
<1> USE LuaHostAssumption DEF table, bounds, trail, state, ask
<1>0. /\ TypeOK /\ StatementAllowed
      /\ call.after \in {"script", "audit"}
  BY DEF IInv, LocksConsistent, Paced, TypeOK, ControlTypeOK, KernelTypeOK, Builtins
<1>1. CASE Tick
  BY <1>0, <1>1 DEF Tick, StatementAllowed, Allowed, NoCall
<1>2. CASE VmStep
  BY <1>2, VmKeeps
<1>5. CASE NumberError
  BY <1>0, <1>5 DEF NumberError, Panic, StatementAllowed, Allowed, NoCall
<1>7. CASE LineDone
  BY <1>0, <1>7 DEF LineDone, InChunk, Popped, StatementAllowed, Allowed, NoCall
<1>8. CASE PrintPanics
  BY <1>0, <1>8 DEF PrintPanics, InChunk, Panic, StatementAllowed, Allowed, NoCall
<1>9. CASE Lock
  BY <1>0, <1>9 DEF Lock, StatementAllowed, Allowed, NoCall
<1>10. CASE SqlBody
  BY <1>0, <1>10, MakingFacts DEF SqlBody, Rows, Unlock, Unlocked, Effect, Owes,
     AuditedAfter, StatementAllowed, Allowed, NoCall
<1>11. CASE ReadBody
  BY <1>0, <1>11, MakingFacts DEF ReadBody, Unlock, Unlocked, Owes, AuditedAfter,
     StatementAllowed, Allowed, NoCall
<1>12. CASE WriteBody
  BY <1>0, <1>12 DEF WriteBody, Unlock, Unlocked, Owes, StatementAllowed, Allowed, NoCall
<1>13. CASE LsBody
  BY <1>0, <1>13, MakingFacts DEF LsBody, Rows, StatementAllowed, Allowed, NoCall
<1>14. CASE AuditBody
  BY <1>0, <1>14 DEF AuditBody, Owes, Insert, Unlock, Unlocked, StatementAllowed, Allowed,
     NoCall
<1>15. CASE MakeValue
  <2>1. CASE CutOff(RowDue)
    BY <1>15, <2>1, CutOffKeeps DEF MakeValue
  <2>2. CASE ~CutOff(RowDue)
    BY <1>0, <1>15, <2>2 DEF MakeValue, RowDue, StatementAllowed, Allowed, NoCall
  <2> QED BY <2>1, <2>2
<1>16. CASE ValuesMade
  BY <1>0, <1>16 DEF ValuesMade, Unlock, Unlocked, StatementAllowed, Allowed, NoCall
<1>17. CASE Push
  <2>1. CASE CutOff(RowDue)
    BY <1>17, <2>1, CutOffKeeps DEF Push
  <2>2. CASE ~CutOff(RowDue)
    BY <1>0, <1>17, <2>2 DEF Push, Raise, RowDue, StatementAllowed, Allowed, NoCall
  <2> QED BY <2>1, <2>2
<1>18. CASE AuditLog
  <2>1. CASE CutOff(RowDue)
    BY <1>18, <2>1, CutOffKeeps DEF AuditLog
  <2>2. CASE ~CutOff(RowDue)
    BY <1>0, <1>18, <2>2 DEF AuditLog, RowDue, Insert, Next_, StatementAllowed, Allowed,
       NoCall
  <2> QED BY <2>1, <2>2
<1>19. CASE Network
  BY <1>0, <1>19 DEF Network, Next_, Message, Owes, StatementAllowed, Allowed, NoCall
<1>20. CASE CallDb
  BY <1>0, <1>20 DEF CallDb, Calls, Instruction, Next_, Do, StatementAllowed,
     Allowed, NoCall
<1>21. CASE CallAsk
  BY <1>0, <1>21 DEF CallAsk, Calls, Instruction, Next_, Message, Accepted,
     TooSoon, StatementAllowed, Allowed, NoCall
<1>22. CASE Sleep
  BY <1>0, <1>22 DEF Sleep, Calls, Instruction, StatementAllowed, Allowed, NoCall
<1>23. CASE Store
  BY <1>0, <1>23 DEF Store, Command, ShellStuck, StatementAllowed, Allowed, NoCall
<1>24. CASE Query
  BY <1>0, <1>24 DEF Query, Command, ShellStuck, StatementAllowed, Allowed, NoCall
<1>25. CASE Run
  BY <1>0, <1>25 DEF Run, Command, ShellStuck, Restricted, Deadline, StatementAllowed,
     Allowed, NoCall
<1>26. CASE Repl
  BY <1>0, <1>26 DEF Repl, Command, StatementAllowed, Allowed, NoCall
<1>27. CASE Line
  BY <1>0, <1>27 DEF Line, StatementAllowed, Allowed, NoCall
<1> QED BY <1>1, <1>2, <1>5, <1>7, <1>8, <1>9, <1>10, <1>11, <1>12, <1>13,
   <1>14, <1>15, <1>16, <1>17, <1>18, <1>19, <1>20, <1>21, <1>22, <1>23, <1>24,
   <1>25, <1>26, <1>27 DEF Next, VmStep, Resumes, Machine, Builtin, Script, Shell

\* The instructions that a thread runs after the time of its agent are among those
\* since its hook was last called, since the hook ends the agent.
LEMMA NextVm ==
  ASSUME IInv, Next
  PROVE  VmTypeOK' /\ LateCounted'
<1>0. TypeOK /\ LateCounted /\ VmTypeOK
  BY DEF IInv, LocksConsistent, TypeOK
<1>1. CASE UNCHANGED vm
  BY <1>0, <1>1 DEF vm, VmTypeOK, LateCounted, Counted
<1>2. CASE VmStep
  BY <1>2, VmKeeps DEF TypeOK
<1>3. CASE CallDb \/ CallAsk \/ Sleep
  <2>1. Instruction /\ UNCHANGED <<active, fin, finalized>>
    BY <1>3 DEF CallDb, CallAsk, Sleep, Calls
  <2> QED BY <1>0, <2>1, InstructionKeeps
<1>4. CASE MakeValue \/ Push \/ AuditLog
  <2>1. pc \in {"script", "rows", "push", "audit"}
    BY <1>4 DEF MakeValue, Push, AuditLog
  <2>2. CASE CutOff(RowDue)
    BY <2>1, <2>2, CutOffKeeps DEF TypeOK
  <2>3. CASE ~CutOff(RowDue)
    <3>1. UNCHANGED vm
      BY <1>4, <2>3 DEF MakeValue, Push, AuditLog, Raise, RowDue
    <3> QED BY <1>1, <3>1
  <2> QED BY <2>2, <2>3
<1>5. CASE Tick \/ NumberError \/ LineDone \/ PrintPanics
  <2>1. UNCHANGED vm
    BY <1>5 DEF Tick, NumberError, Panic, LineDone, PrintPanics
  <2> QED BY <1>1, <2>1
<1>6. CASE Lock \/ SqlBody \/ ReadBody \/ WriteBody \/ LsBody \/ AuditBody \/ ValuesMade \/ Network
  <2>1. UNCHANGED vm
    BY <1>6 DEF Lock, SqlBody, ReadBody, WriteBody, LsBody, AuditBody, ValuesMade, Network
  <2> QED BY <1>1, <2>1
<1>7. CASE Store \/ Query \/ Run \/ Repl \/ Line
  <2>1. UNCHANGED vm
    BY <1>7 DEF Store, Query, Run, Repl, Line, ShellStuck
  <2> QED BY <1>1, <2>1
<1> QED BY <1>2, <1>3, <1>4, <1>5, <1>6, <1>7
        DEF Next, VmStep, Resumes, Machine, Builtin, Script, Shell

\* A value on the stack of the REPL, or printed from it, was left there by a return
\* statement.
LEMMA NextStack ==
  ASSUME IInv, Next
  PROVE  StackReturned' /\ PrintsOwnValues'
<1> USE LuaHostAssumption DEF table, bounds, trail, state, ask
<1>0. /\ TypeOK /\ StackReturned /\ PrintsOwnValues
      /\ stack \in Nat /\ chunk.results \in Nat /\ chunk.form \in {"expr", "stmt"}
  BY DEF IInv, LocksConsistent, Paced, TypeOK, ControlTypeOK, Chunk
<1>1. CASE Tick
  BY <1>0, <1>1 DEF Tick, StackReturned, PrintsOwnValues
<1>2. CASE VmStep
  BY <1>2, VmKeeps
<1>5. CASE NumberError
  BY <1>0, <1>5 DEF NumberError, Panic, StackReturned, PrintsOwnValues
<1>7. CASE LineDone
  <2>1. returned' <=> returned \/ (chunk.form = "stmt" /\ chunk.results > 0)
    BY <1>7, Zenon DEF LineDone
  <2>2. \/ /\ chunk.form = "stmt" /\ stack' = stack + chunk.results /\ printed' = 0
        \/ chunk.form = "expr" /\ stack' = 0 /\ printed' = stack
    BY <1>0, <1>7 DEF LineDone, Popped
  <2> QED BY <1>0, <2>1, <2>2 DEF StackReturned, PrintsOwnValues
<1>8. CASE PrintPanics
  BY <1>0, <1>8 DEF PrintPanics, InChunk, Panic, StackReturned, PrintsOwnValues
<1>9. CASE Lock
  BY <1>0, <1>9 DEF Lock, StackReturned, PrintsOwnValues
<1>10. CASE SqlBody
  BY <1>0, <1>10, MakingFacts DEF SqlBody, Rows, Unlock, Unlocked, Effect, Owes,
     AuditedAfter, StackReturned, PrintsOwnValues
<1>11. CASE ReadBody
  BY <1>0, <1>11, MakingFacts DEF ReadBody, Unlock, Unlocked, Owes, AuditedAfter,
     StackReturned, PrintsOwnValues
<1>12. CASE WriteBody
  BY <1>0, <1>12 DEF WriteBody, Unlock, Unlocked, Owes, StackReturned, PrintsOwnValues
<1>13. CASE LsBody
  BY <1>0, <1>13, MakingFacts DEF LsBody, Rows, StackReturned, PrintsOwnValues
<1>14. CASE AuditBody
  BY <1>0, <1>14 DEF AuditBody, Owes, Insert, Unlock, Unlocked, StackReturned,
     PrintsOwnValues
<1>15. CASE MakeValue
  <2>1. CASE CutOff(RowDue)
    BY <1>15, <2>1, CutOffKeeps DEF MakeValue
  <2>2. CASE ~CutOff(RowDue)
    BY <1>0, <1>15, <2>2 DEF MakeValue, RowDue, StackReturned, PrintsOwnValues
  <2> QED BY <2>1, <2>2
<1>16. CASE ValuesMade
  BY <1>0, <1>16 DEF ValuesMade, Unlock, Unlocked, StackReturned, PrintsOwnValues
<1>17. CASE Push
  <2>1. CASE CutOff(RowDue)
    BY <1>17, <2>1, CutOffKeeps DEF Push
  <2>2. CASE ~CutOff(RowDue)
    BY <1>0, <1>17, <2>2 DEF Push, Raise, RowDue, StackReturned, PrintsOwnValues
  <2> QED BY <2>1, <2>2
<1>18. CASE AuditLog
  <2>1. CASE CutOff(RowDue)
    BY <1>18, <2>1, CutOffKeeps DEF AuditLog
  <2>2. CASE ~CutOff(RowDue)
    BY <1>0, <1>18, <2>2 DEF AuditLog, RowDue, Insert, Next_, StackReturned, PrintsOwnValues
  <2> QED BY <2>1, <2>2
<1>19. CASE Network
  BY <1>0, <1>19 DEF Network, Next_, Message, Owes, StackReturned, PrintsOwnValues
<1>20. CASE CallDb
  BY <1>0, <1>20 DEF CallDb, Calls, Instruction, Next_, Do, StackReturned,
     PrintsOwnValues
<1>21. CASE CallAsk
  BY <1>0, <1>21 DEF CallAsk, Calls, Instruction, Next_, Message, Accepted,
     TooSoon, StackReturned, PrintsOwnValues
<1>22. CASE Sleep
  BY <1>0, <1>22 DEF Sleep, Calls, Instruction, StackReturned, PrintsOwnValues
<1>23. CASE Store
  BY <1>0, <1>23 DEF Store, Command, ShellStuck, StackReturned, PrintsOwnValues
<1>24. CASE Query
  BY <1>0, <1>24 DEF Query, Command, ShellStuck, StackReturned, PrintsOwnValues
<1>25. CASE Run
  BY <1>0, <1>25 DEF Run, Command, ShellStuck, Restricted, Deadline, StackReturned,
     PrintsOwnValues
<1>26. CASE Repl
  BY <1>0, <1>26 DEF Repl, Command, StackReturned, PrintsOwnValues
<1>27. CASE Line
  BY <1>0, <1>27 DEF Line, StackReturned, PrintsOwnValues
<1> QED BY <1>1, <1>2, <1>5, <1>7, <1>8, <1>9, <1>10, <1>11, <1>12, <1>13,
   <1>14, <1>15, <1>16, <1>17, <1>18, <1>19, <1>20, <1>21, <1>22, <1>23, <1>24,
   <1>25, <1>26, <1>27 DEF Next, VmStep, Resumes, Machine, Builtin, Script, Shell

\* Requests of ask() that go through are the interval apart.
LEMMA NextAskSpaced ==
  ASSUME IInv, Next
  PROVE  AskSpaced'
<1> USE LuaHostAssumption DEF table, bounds, trail, state, ask
<1>0. /\ TypeOK /\ AskSpaced
      /\ clock \in Nat /\ lastAsk \in 0 .. clock /\ through \in 0 .. lastAsk
  BY DEF IInv, LocksConsistent, Paced, TypeOK, KernelTypeOK
<1>1. CASE Tick
  BY <1>0, <1>1 DEF Tick, AskSpaced
<1>2. CASE VmStep
  BY <1>2, VmKeeps
<1>5. CASE NumberError
  BY <1>0, <1>5 DEF NumberError, Panic, AskSpaced
<1>7. CASE LineDone
  BY <1>0, <1>7 DEF LineDone, InChunk, Popped, AskSpaced
<1>8. CASE PrintPanics
  BY <1>0, <1>8 DEF PrintPanics, InChunk, Panic, AskSpaced
<1>9. CASE Lock
  BY <1>0, <1>9 DEF Lock, AskSpaced
<1>10. CASE SqlBody
  BY <1>0, <1>10, MakingFacts DEF SqlBody, Rows, Unlock, Unlocked, Effect, Owes,
     AuditedAfter, AskSpaced
<1>11. CASE ReadBody
  BY <1>0, <1>11, MakingFacts DEF ReadBody, Unlock, Unlocked, Owes, AuditedAfter, AskSpaced
<1>12. CASE WriteBody
  BY <1>0, <1>12 DEF WriteBody, Unlock, Unlocked, Owes, AskSpaced
<1>13. CASE LsBody
  BY <1>0, <1>13, MakingFacts DEF LsBody, Rows, AskSpaced
<1>14. CASE AuditBody
  BY <1>0, <1>14 DEF AuditBody, Owes, Insert, Unlock, Unlocked, AskSpaced
<1>15. CASE MakeValue
  <2>1. CASE CutOff(RowDue)
    BY <1>15, <2>1, CutOffKeeps DEF MakeValue
  <2>2. CASE ~CutOff(RowDue)
    BY <1>0, <1>15, <2>2 DEF MakeValue, RowDue, AskSpaced
  <2> QED BY <2>1, <2>2
<1>16. CASE ValuesMade
  BY <1>0, <1>16 DEF ValuesMade, Unlock, Unlocked, AskSpaced
<1>17. CASE Push
  <2>1. CASE CutOff(RowDue)
    BY <1>17, <2>1, CutOffKeeps DEF Push
  <2>2. CASE ~CutOff(RowDue)
    BY <1>0, <1>17, <2>2 DEF Push, Raise, RowDue, AskSpaced
  <2> QED BY <2>1, <2>2
<1>18. CASE AuditLog
  <2>1. CASE CutOff(RowDue)
    BY <1>18, <2>1, CutOffKeeps DEF AuditLog
  <2>2. CASE ~CutOff(RowDue)
    BY <1>0, <1>18, <2>2 DEF AuditLog, RowDue, Insert, Next_, AskSpaced
  <2> QED BY <2>1, <2>2
<1>19. CASE Network
  BY <1>0, <1>19 DEF Network, Next_, Message, Owes, AskSpaced
<1>20. CASE CallDb
  BY <1>0, <1>20 DEF CallDb, Calls, Instruction, Next_, Do, AskSpaced
<1>21. CASE CallAsk
  BY <1>0, <1>21 DEF CallAsk, Calls, Instruction, Next_, Message, Accepted,
     TooSoon, AskSpaced
<1>22. CASE Sleep
  BY <1>0, <1>22 DEF Sleep, Calls, Instruction, AskSpaced
<1>23. CASE Store
  BY <1>0, <1>23 DEF Store, Command, ShellStuck, AskSpaced
<1>24. CASE Query
  BY <1>0, <1>24 DEF Query, Command, ShellStuck, AskSpaced
<1>25. CASE Run
  BY <1>0, <1>25 DEF Run, Command, ShellStuck, Restricted, Deadline, AskSpaced
<1>26. CASE Repl
  BY <1>0, <1>26 DEF Repl, Command, AskSpaced
<1>27. CASE Line
  BY <1>0, <1>27 DEF Line, AskSpaced
<1> QED BY <1>1, <1>2, <1>5, <1>7, <1>8, <1>9, <1>10, <1>11, <1>12, <1>13,
   <1>14, <1>15, <1>16, <1>17, <1>18, <1>19, <1>20, <1>21, <1>22, <1>23, <1>24,
   <1>25, <1>26, <1>27 DEF Next, VmStep, Resumes, Machine, Builtin, Script, Shell

\* The statements that a restricted state may run change no table.
LEMMA ReadingChangesNothing ==
  ASSUME NEW s \in DOMAIN Statement, Statement[s].reads
  PROVE  Statement[s].does = "nothing"
BY DEF Statement

\* Audit and time limit follow from the parts of the invariant behind them.
LEMMA Conclusions ==
  ASSUME TypeOK, RowsAddUp, LateCounted
  PROVE  Audited /\ CutInTime
<1>1. audit \in Nat /\ lost \in Nat /\ performed \in Nat
  BY DEF TypeOK, KernelTypeOK
<1>2. /\ HookEvery \in Nat
      /\ \A t \in Thread : hooks[t].late \in Nat /\ hooks[t].count \in 0 .. HookEvery - 1
  BY LuaHostAssumption DEF TypeOK, VmTypeOK, Counts
<1>3. Audited
  BY <1>1 DEF Audited, Idle, RowsAddUp, RowDue
<1>4. CutInTime
  BY <1>2 DEF CutInTime, LateCounted, Counted
<1> QED BY <1>3, <1>4

\* No step of an agent removes a file or a row of the audit table, whatever
\* statements it tries.
LEMMA AgentKeepsTables ==
  ASSUME IInv, Next, who = "agent"
  PROVE  /\ audit' >= audit
         /\ \A p \in Path : files[p] # "none" => files'[p] # "none"
<1> USE DEF table, bounds, trail, state, ask
<1>0. /\ TypeOK /\ AgentLimited /\ StatementAllowed /\ audit \in Nat
      /\ files \in [Path -> {"none", "lua", "data"}] /\ readonly /\ pc # "shell"
  BY DEF IInv, LocksConsistent, TypeOK, KernelTypeOK, AgentLimited
<1>1. CASE UNCHANGED <<files, audit>>
  BY <1>0, <1>1
<1>2. CASE SqlBody
  <2>1. Statement[call.arg].does = "nothing"
    BY <1>0, <1>2, ReadingChangesNothing DEF SqlBody, StatementAllowed, Allowed
  <2>2. UNCHANGED <<files, audit>>
    BY <1>2, <2>1 DEF SqlBody, Effect, Rows
  <2> QED BY <1>1, <2>2
<1>3. CASE WriteBody
  BY <1>0, <1>3 DEF WriteBody
<1>4. CASE AuditBody
  BY <1>0, <1>4 DEF AuditBody, Insert
<1>5. CASE AuditLog
  <2>1. CASE CutOff(1)
    BY <1>1, <2>1 DEF CutOff, Cut
  <2>2. CASE /\ UNCHANGED files
             /\ Insert(call.fn = "sql" /\ Statement[call.arg].nul) \/ UNCHANGED audit
    BY <1>0, <2>2 DEF Insert
  <2> QED BY <1>5, <2>1, <2>2 DEF AuditLog
<1>6. CASE Tick \/ Machine
  BY <1>1, <1>6 DEF Tick, Machine, Compute, Hook, Raise, CutOff, Cut, ScriptFails, NumberError,
    Panic, Return, LineDone, PrintPanics, Finalizer, FinalizerReturns, Yield, Resume
<1>7. CASE Lock \/ ReadBody \/ LsBody \/ MakeValue \/ ValuesMade \/ Push \/ Network
  BY <1>1, <1>7 DEF Lock, ReadBody, LsBody, Rows, MakeValue, ValuesMade, Push, Network, Raise,
    CutOff, Cut
<1>8. CASE Script
  BY <1>1, <1>8 DEF Script, CallDb, CallAsk, Sleep
<1>9. CASE Line \/ Exit
  BY <1>1, <1>9 DEF Line, Exit
<1>10. ~(Store \/ Query \/ Run \/ Repl)
  BY <1>0 DEF Store, Query, Run, Repl, Command
<1> QED BY <1>2, <1>3, <1>4, <1>5, <1>6, <1>7, <1>8, <1>9, <1>10 DEF Next, Builtin, Shell

\* The kernel starts in the invariant.
LEMMA InitIInv == Init => IInv
<1> SUFFICES ASSUME Init PROVE IInv
  OBVIOUS
<1> USE LuaHostAssumption
<1>1. readonly \in BOOLEAN /\ gc \in BOOLEAN /\ returned \in BOOLEAN
  BY Zenon DEF Init
<1>2. call \in Builtins /\ chunk \in Chunk
  BY Initials DEF Init
<1>3. ControlTypeOK
  BY <1>1, <1>2 DEF Init, ControlTypeOK, Never
<1>4. KernelTypeOK
  BY DEF Init, KernelTypeOK
<1>5. LocksGivenBack /\ PrintsOwnValues /\ LockOwned /\ StackReturned
  BY DEF Init, LocksGivenBack, Idle, PrintsOwnValues, LockOwned, StackReturned
<1>6. RowsAddUp /\ AgentLimited /\ StatementAllowed /\ AskSpaced
  BY DEF Init, RowsAddUp, RowDue, AgentLimited, StatementAllowed, AskSpaced
<1>7. VmTypeOK /\ LateCounted
  <2>1. finalized \in BOOLEAN
    BY Zenon DEF Init
  <2> QED BY <2>1, NewThreads DEF Init, VmTypeOK, LateCounted
<1> QED BY <1>3, <1>4, <1>5, <1>6, <1>7, Conclusions DEF IInv, LocksConsistent, TypeOK, Paced

\* The invariant holds in every state of every sequence of commands, scripts and
\* errors.
THEOREM Invariance == Spec => []IInv
<1>1. Init => IInv
  BY InitIInv
<1>2. IInv /\ [Next]_vars => IInv'
  <2> SUFFICES ASSUME IInv, [Next]_vars PROVE IInv'
    OBVIOUS
  <2>1. CASE Next
    <3>1. ControlTypeOK' /\ KernelTypeOK' /\ LockOwned' /\ LocksGivenBack' /\ RowsAddUp'
      BY <2>1, NextControlTypes, NextKernelTypes, NextLockOwned, NextLocksGivenBack, NextRowsAddUp
    <3>2. /\ AgentLimited' /\ StatementAllowed' /\ VmTypeOK' /\ LateCounted' /\ AskSpaced'
          /\ StackReturned' /\ PrintsOwnValues'
      BY <2>1, NextAgentLimited, NextStatementAllowed, NextVm, NextAskSpaced, NextStack
    <3>3. TypeOK'
      BY <3>1, <3>2 DEF TypeOK
    <3>4. Audited' /\ CutInTime'
      <4>1. TypeOK' /\ RowsAddUp' /\ LateCounted' => Audited' /\ CutInTime'
        BY Conclusions, PTL
      <4> QED BY <3>1, <3>2, <3>3, <4>1
    <3> QED BY <3>1, <3>2, <3>3, <3>4 DEF IInv, LocksConsistent, Paced
  <2>2. CASE UNCHANGED vars
    BY <2>2 DEF vars, table, bounds, trail, state, ask, vm, IInv, LocksConsistent, TypeOK,
       ControlTypeOK, VmTypeOK, KernelTypeOK, LocksGivenBack, Idle, PrintsOwnValues, Audited, Paced,
       CutInTime, AskSpaced, LockOwned, RowsAddUp, RowDue, AgentLimited, StatementAllowed, Allowed,
       LateCounted, Counted, StackReturned
  <2> QED BY <2>1, <2>2
<1> QED BY <1>1, <1>2, PTL DEF Spec

\* Locks are given back by every builtin of builtins.rs on every path, except those
\* whose guard an error cut off; nothing else ever waits for a lock; and the REPL
\* prints no value that another line left, unless one was a return statement.
THEOREM LocksCorrect == Spec => []LocksConsistent
<1>1. IInv => LocksConsistent
  BY DEF IInv
<1> QED BY <1>1, Invariance, PTL

\* Every audited operation has its row once its builtin is over, unless the row was
\* lost to an error (audit_log() in builtins.rs).
THEOREM AuditCorrect == Spec => []Audited
<1>1. IInv => Audited
  BY DEF IInv
<1> QED BY <1>1, Invariance, PTL

\* As long as no finalizer has run, every thread of an agent is cut off within HookEvery
\* instructions of the time limit, whatever errors are caught and coroutines resumed
\* (install_timeout_hook() in lua/mod.rs over luaG_traceexec() in ldebug.c); and requests
\* of ask() are the interval apart, whatever scripts and failures come between.
THEOREM PaceCorrect == Spec => []Paced
<1>1. IInv => Paced
  BY DEF IInv
<1> QED BY <1>1, Invariance, PTL

\* An agent never removes a file or a row of the audit table (_SQL_READONLY in
\* lua/mod.rs, read by sql() in builtins.rs).
THEOREM RestrictionCorrect == Spec => AgentsReadOnly
<1> DEFINE Kept == who = "agent" => /\ audit' >= audit
                                    /\ \A p \in Path : files[p] # "none" => files'[p] # "none"
<1>1. IInv /\ [Next]_vars => [Kept]_vars
  BY AgentKeepsTables
<1> QED BY <1>1, Invariance, PTL DEF Spec, AgentsReadOnly

-----------------------------------------------------------------------------
(* The memory of a Lua state.                                              *)

\* The units of one block, and those of all others.
UnitsOf(b) == {b} \X (1 .. blocks[b])
OtherUnits(b) == {u \in Block \X (1 .. MaxSize) : u[1] # b /\ u[2] <= blocks[u[1]]}

\* A block of n units has n units.
LEMMA UnitsCount ==
  ASSUME NEW b, NEW n \in Nat
  PROVE  IsFiniteSet({b} \X (1 .. n)) /\ Cardinality({b} \X (1 .. n)) = n
<1>1. IsFiniteSet({b}) /\ Cardinality({b}) = 1
  BY FS_Singleton
<1>2. IsFiniteSet(1 .. n) /\ Cardinality(1 .. n) = n
  BY FS_Interval, 1 \in Int, n \in Int
<1> DEFINE S == {b}
           T == 1 .. n
<1> HIDE DEF S, T
<1>3. IsFiniteSet(S \X T) /\ Cardinality(S \X T) = Cardinality(S) * Cardinality(T)
  <2>1. IsFiniteSet(S) /\ IsFiniteSet(T)
    BY <1>1, <1>2 DEF S, T
  <2> QED BY <2>1, FS_Product, Zenon
<1>4. Cardinality(S) = 1 /\ Cardinality(T) = n /\ 1 * n = n
  BY <1>1, <1>2 DEF S, T
<1> QED BY <1>3, <1>4 DEF S, T

\* A state holds the units of a block and those of the others.
LEMMA HeldIsSum ==
  ASSUME LuaAllocTypeOK, NEW b \in Block
  PROVE  /\ IsFiniteSet(Held) /\ IsFiniteSet(OtherUnits(b))
         /\ Cardinality(OtherUnits(b)) \in Nat
         /\ Cardinality(Held) = Cardinality(OtherUnits(b)) + blocks[b]
<1>1. blocks[b] \in 0 .. MaxSize /\ MaxSize \in Nat /\ blocks[b] \in Nat
  BY LuaAllocAssumption DEF LuaAllocTypeOK
<1>2. IsFiniteSet(Block) /\ IsFiniteSet(1 .. MaxSize)
  BY <1>1, LuaAllocAssumption, FS_Interval, 1 \in Int, MaxSize \in Int
<1>3. IsFiniteSet(Block \X (1 .. MaxSize))
  BY <1>2, FS_Product
<1>4. IsFiniteSet(Held) /\ IsFiniteSet(OtherUnits(b))
  BY <1>3, FS_Subset DEF Held, OtherUnits
<1>5. Cardinality(OtherUnits(b)) \in Nat
  BY <1>4, FS_CardinalityType
<1>6. IsFiniteSet(UnitsOf(b)) /\ Cardinality(UnitsOf(b)) = blocks[b]
  BY <1>1, UnitsCount DEF UnitsOf
<1>7. Held = OtherUnits(b) \cup UnitsOf(b)
  <2>1. ASSUME NEW u \in Held PROVE u \in OtherUnits(b) \cup UnitsOf(b)
    BY <1>1, <2>1 DEF Held, OtherUnits, UnitsOf
  <2>2. ASSUME NEW u \in UnitsOf(b) PROVE u \in Held
    BY <1>1, <2>2 DEF Held, UnitsOf
  <2> QED BY <2>1, <2>2 DEF Held, OtherUnits
<1>8. OtherUnits(b) \cap UnitsOf(b) = {}
  BY DEF OtherUnits, UnitsOf
<1>9. Cardinality(Held) = Cardinality(OtherUnits(b)) + Cardinality(UnitsOf(b)) - Cardinality({})
  BY <1>4, <1>6, <1>7, <1>8, FS_Union
<1>10. Cardinality({}) = 0
  BY FS_EmptySet
<1> QED BY <1>1, <1>4, <1>5, <1>6, <1>9, <1>10

\* After a block is resized to n, the state holds n units and the others'.
LEMMA HeldAfter ==
  ASSUME LuaAllocTypeOK, NEW b \in Block, NEW n \in 0 .. MaxSize, blocks' = [blocks EXCEPT ![b] = n]
  PROVE  /\ blocks' \in [Block -> 0 .. MaxSize]
         /\ Cardinality(Held') = Cardinality(OtherUnits(b)) + n
<1>1. blocks' \in [Block -> 0 .. MaxSize] /\ blocks'[b] = n
  BY DEF LuaAllocTypeOK
<1>2. OtherUnits(b)' = OtherUnits(b)
  BY DEF OtherUnits, LuaAllocTypeOK
<1>3. n \in Nat /\ MaxSize \in Nat
  BY LuaAllocAssumption
<1>4. Held' = OtherUnits(b) \cup ({b} \X (1 .. n))
  <2>1. ASSUME NEW u \in Held' PROVE u \in OtherUnits(b) \cup ({b} \X (1 .. n))
    BY <1>1, <1>2, <1>3, <2>1 DEF Held, OtherUnits
  <2>2. ASSUME NEW u \in {b} \X (1 .. n) PROVE u \in Held'
    BY <1>1, <1>3, <2>2 DEF Held
  <2>3. OtherUnits(b) \subseteq Held'
    BY <1>2 DEF Held, OtherUnits
  <2> QED BY <2>1, <2>2, <2>3
<1>5. IsFiniteSet({b} \X (1 .. n)) /\ Cardinality({b} \X (1 .. n)) = n
  BY <1>3, UnitsCount
<1>6. OtherUnits(b) \cap ({b} \X (1 .. n)) = {}
  BY DEF OtherUnits
<1>7. Cardinality(Held') = Cardinality(OtherUnits(b)) + Cardinality({b} \X (1 .. n)) - Cardinality({})
  BY <1>4, <1>5, <1>6, HeldIsSum, FS_Union
<1>8. Cardinality({}) = 0
  BY FS_EmptySet
<1>9. Cardinality(OtherUnits(b)) \in Nat
  BY HeldIsSum
<1> QED BY <1>1, <1>3, <1>5, <1>7, <1>8, <1>9

\* No block is held by a new state.
LEMMA HeapInitAccounted == HeapInit => Accounted
<1> SUFFICES ASSUME HeapInit PROVE Accounted
  OBVIOUS
<1>1. LuaAllocTypeOK
  BY LuaAllocAssumption DEF HeapInit, LuaAllocTypeOK
<1>2. Held = {}
  BY LuaAllocAssumption DEF Held, HeapInit
<1>3. Cardinality(Held) = 0
  BY <1>2, FS_EmptySet
<1> QED BY <1>1, <1>3, LuaAllocAssumption DEF Accounted, HeapInit

\* A change of one block that is charged as it is held.
LEMMA ChargedAsHeld ==
  ASSUME Accounted, NEW b \in Block, NEW n \in 0 .. MaxSize, blocks' = [blocks EXCEPT ![b] = n],
         used' = (used - blocks[b]) + n, used' <= limit, limit' = limit
  PROVE  Accounted'
<1> DEFINE rest == Cardinality(OtherUnits(b))
<1>1. LuaAllocTypeOK /\ used = Cardinality(Held)
  BY DEF Accounted
<1>2. rest \in Nat /\ used = rest + blocks[b] /\ blocks[b] \in Nat /\ n \in Nat
  BY <1>1, HeldIsSum, LuaAllocAssumption DEF LuaAllocTypeOK
<1>3. blocks' \in [Block -> 0 .. MaxSize] /\ Cardinality(Held') = rest + n
  BY <1>1, HeldAfter
<1> HIDE DEF rest
<1>4. used' = rest + n
  BY <1>2
<1>5. used' \in Nat /\ used' = Cardinality(Held')
  BY <1>2, <1>3, <1>4
<1> QED BY <1>1, <1>3, <1>5 DEF Accounted, LuaAllocTypeOK

\* A block that is allocated, resized or freed is charged as it is held.
LEMMA HeapNextAccounted == Accounted /\ [HeapNext]_heap => Accounted'
<1> SUFFICES ASSUME Accounted, [HeapNext]_heap PROVE Accounted'
  OBVIOUS
<1>1. LuaAllocTypeOK /\ used = Cardinality(Held) /\ used <= limit
  BY DEF Accounted
<1>2. used \in Nat /\ limit \in Nat /\ MaxSize \in Nat
  BY <1>1, LuaAllocAssumption DEF LuaAllocTypeOK
<1>3. ASSUME NEW b \in Block
      PROVE  blocks[b] \in 0 .. MaxSize /\ blocks[b] <= used /\ Monus(used, blocks[b]) = used - blocks[b]
  <2>1. blocks[b] \in 0 .. MaxSize
    BY <1>1, <1>3 DEF LuaAllocTypeOK
  <2>2. blocks[b] <= used
    BY <1>1, <1>2, <1>3, <2>1, HeldIsSum
  <2> QED BY <1>2, <2>1, <2>2 DEF Monus
<1>4. CASE UNCHANGED heap
  BY <1>1, <1>4 DEF heap, Accounted, LuaAllocTypeOK, Held
<1>5. ASSUME NEW b \in Block, Free(b) PROVE Accounted'
  <2>1. /\ blocks' = [blocks EXCEPT ![b] = 0] /\ used' = (used - blocks[b]) + 0 /\ limit' = limit
        /\ used' <= limit /\ 0 \in 0 .. MaxSize
    BY <1>1, <1>2, <1>3, <1>5 DEF Free, Released
  <2> QED BY <2>1, ChargedAsHeld
<1>6. ASSUME NEW b \in Block, NEW n \in 1 .. MaxSize, Malloc(b, n) PROVE Accounted'
  <2>1. /\ blocks' = [blocks EXCEPT ![b] = n] /\ used' = (used - blocks[b]) + n /\ limit' = limit
        /\ used' <= limit /\ n \in 0 .. MaxSize
    BY <1>1, <1>2, <1>6 DEF Malloc, Fits
  <2> QED BY <2>1, ChargedAsHeld
<1>7. ASSUME NEW b \in Block, NEW n \in 1 .. MaxSize, Realloc(b, n) PROVE Accounted'
  <2>1. /\ blocks' = [blocks EXCEPT ![b] = n] /\ used' = (used - blocks[b]) + n /\ limit' = limit
        /\ n \in 0 .. MaxSize /\ n \in Nat
    BY <1>2, <1>3, <1>7 DEF Realloc, Resized
  <2>2. n > blocks[b] => used + (n - blocks[b]) <= limit
    BY <1>7 DEF Realloc, Fits
  <2>3. used' <= limit
    BY <1>1, <1>2, <1>3, <2>1, <2>2
  <2> QED BY <2>1, <2>3, ChargedAsHeld
<1> QED BY <1>4, <1>5, <1>6, <1>7 DEF HeapNext

\* What heaven_lua_alloc() charges to a state is what the state holds and never
\* more than its limit, for any number and sizes of blocks and either limit.
THEOREM MemoryAccounted == HeapSpec => []Accounted
  BY HeapInitAccounted, HeapNextAccounted, PTL DEF HeapSpec

-----------------------------------------------------------------------------
(* The line editor.                                                        *)

Cell == Text \cup {Blank}

\* The terminal t after s was written at p of C, and after n characters before
\* p were erased.
Written(t, C, p, s) ==
  /\ t.cells \in [1 .. MaxLine + 1 -> Cell] /\ t = [cells |-> t.cells, at |-> p + Len(s)]
  /\ \A j \in 1 .. Len(s) : t.cells[p + j - 1] = s[j]
  /\ \A i \in 1 .. MaxLine + 1 : i < p \/ i >= p + Len(s) => t.cells[i] = C[i]
Erased(t, C, p, n) ==
  /\ t.cells \in [1 .. MaxLine + 1 -> Cell] /\ t = [cells |-> t.cells, at |-> p - n]
  /\ \A i \in 1 .. MaxLine + 1 : t.cells[i] = IF p - n <= i /\ i < p THEN Blank ELSE C[i]

\* What is written appears from the cursor on, and the cursor moves behind it.
LEMMA PutFacts ==
  ASSUME NEW C \in [1 .. MaxLine + 1 -> Cell], NEW p \in 1 .. MaxLine, NEW s \in Seq(Cell),
         p + Len(s) \in 1 .. MaxLine + 1
  PROVE  Written(Put([cells |-> C, at |-> p], s), C, p, s)
<1> DEFINE e == p + Len(s)
           t == Put([cells |-> C, at |-> p], s)
           D == [i \in 1 .. MaxLine + 1 |->
                   IF i \in p .. p + Len(s) - 1 THEN s[i - p + 1] ELSE C[i]]
<1>1. t = [cells |-> D, at |-> e]
  BY DEF Put
<1>2. \A i \in p .. p + Len(s) - 1 : s[i - p + 1] \in Cell
  BY EditorAssumption
<1>3. D \in [1 .. MaxLine + 1 -> Cell]
  BY <1>2
<1>4. \A i \in 1 .. MaxLine + 1 : i < p \/ i >= e => D[i] = C[i]
  BY EditorAssumption
<1>5. ASSUME NEW j \in 1 .. Len(s) PROVE D[p + j - 1] = s[j]
  <2>1. p + j - 1 \in 1 .. MaxLine + 1 /\ p + j - 1 \in p .. p + Len(s) - 1 /\ (p + j - 1) - p + 1 = j
    BY EditorAssumption
  <2> QED BY <2>1
<1> HIDE DEF D
<1>6. t.cells = D
  BY <1>1
<1> HIDE DEF t
<1> QED BY <1>1, <1>3, <1>4, <1>5, <1>6 DEF Written, t

\* The last n characters before the cursor become blank, and it moves to the
\* first of them.
LEMMA EraseFacts ==
  ASSUME NEW C \in [1 .. MaxLine + 1 -> Cell], NEW p \in 1 .. MaxLine, NEW n \in Nat, n < p
  PROVE  Erased(Erase([cells |-> C, at |-> p], n), C, p, n)
<1> DEFINE s == [i \in 1 .. n |-> Blank]
           q == p - n
           t == Erase([cells |-> C, at |-> p], n)
           u == Put([cells |-> C, at |-> q], s)
<1>1. Left([cells |-> C, at |-> p], n) = [cells |-> C, at |-> q]
  BY DEF Left
<1>2. s \in Seq(Cell) /\ Len(s) = n /\ \A i \in 1 .. n : s[i] = Blank
  BY DEF Cell
<1>3. q \in 1 .. MaxLine /\ p = q + n /\ MaxLine \in Nat /\ p \in 1 .. MaxLine + 1
  BY EditorAssumption
<1> HIDE DEF s, q
<1>4. /\ u.cells \in [1 .. MaxLine + 1 -> Cell] /\ u = [cells |-> u.cells, at |-> p]
      /\ \A j \in 1 .. Len(s) : u.cells[q + j - 1] = s[j]
      /\ \A i \in 1 .. MaxLine + 1 : i < q \/ i >= p => u.cells[i] = C[i]
  <2>1. q + Len(s) \in 1 .. MaxLine + 1 /\ q + Len(s) = p
    BY <1>2, <1>3
  <2>2. Written(u, C, q, s)
    BY <1>2, <1>3, <2>1, PutFacts
  <2> HIDE DEF u
  <2> QED BY <2>1, <2>2 DEF Written
<1> HIDE DEF u
<1>5. ASSUME NEW i \in 1 .. MaxLine + 1
      PROVE  u.cells[i] = IF q <= i /\ i < p THEN Blank ELSE C[i]
  <2>1. CASE q <= i /\ i < p
    <3> DEFINE j == i - q + 1
    <3>1. j \in 1 .. n /\ q + j - 1 = i
      BY <1>3, <2>1
    <3> HIDE DEF j
    <3>2. u.cells[q + j - 1] = Blank
      BY <1>2, <1>4, <3>1
    <3> QED BY <2>1, <3>1, <3>2
  <2>2. CASE ~(q <= i /\ i < p)
    BY <1>3, <1>4, <2>2
  <2> QED BY <2>1, <2>2
<1>6. Left(u, n) = [cells |-> u.cells, at |-> q]
  BY <1>3, <1>4 DEF Left, q
<1>7. t = [cells |-> u.cells, at |-> q]
  BY <1>1, <1>6 DEF Erase, u, s
<1> HIDE DEF t
<1>8. Erased(t, C, p, n)
  BY <1>4, <1>5, <1>7 DEF Erased, q
<1> QED BY <1>8 DEF t

\* The editor begins with an empty line on an empty screen.
LEMMA EditorInitShows == EditorInit => ShowsLine
  BY EditorAssumption DEF EditorInit, ShowsLine, EditorTypeOK

\* What the terminal shows after the editor has shown the line l.
Showing(l, C, p) ==
  /\ C \in [1 .. MaxLine + 1 -> Cell] /\ p = Len(l) + 1
  /\ \A i \in 1 .. MaxLine + 1 : C[i] = IF i <= Len(l) THEN l[i] ELSE Blank

\* Erasing some characters of a line leaves the others.
LEMMA EraseShows ==
  ASSUME NEW l \in Seq(Text), Len(l) < MaxLine, NEW C, Showing(l, C, Len(l) + 1),
         NEW n \in 0 .. Len(l), NEW t, t = Erase([cells |-> C, at |-> Len(l) + 1], n)
  PROVE  /\ t = [cells |-> t.cells, at |-> t.at]
         /\ Showing(SubSeq(l, 1, Len(l) - n), t.cells, t.at)
<1> DEFINE k == SubSeq(l, 1, Len(l) - n)
           p == Len(l) + 1
<1>1. Len(l) \in Nat /\ p \in 1 .. MaxLine /\ n \in Nat /\ n < p /\ MaxLine \in Nat
  BY EditorAssumption
<1>2. C \in [1 .. MaxLine + 1 -> Cell]
  BY DEF Showing
<1>3. Len(k) = Len(l) - n /\ \A i \in 1 .. Len(l) - n : k[i] = l[i]
  BY <1>1
<1>4. /\ t.cells \in [1 .. MaxLine + 1 -> Cell] /\ t = [cells |-> t.cells, at |-> p - n]
      /\ \A i \in 1 .. MaxLine + 1 : t.cells[i] = IF p - n <= i /\ i < p THEN Blank ELSE C[i]
  <2>1. Erased(t, C, p, n)
    BY <1>1, <1>2, EraseFacts
  <2> QED BY <2>1 DEF Erased
<1>5. t.at = Len(k) + 1
  BY <1>1, <1>3, <1>4
<1> HIDE DEF k
<1>6. ASSUME NEW i \in 1 .. MaxLine + 1
      PROVE  t.cells[i] = IF i <= Len(k) THEN k[i] ELSE Blank
  <2>1. C[i] = IF i <= Len(l) THEN l[i] ELSE Blank
    BY DEF Showing
  <2> QED BY <1>1, <1>3, <1>4, <2>1
<1> QED BY <1>4, <1>5, <1>6 DEF Showing, k

\* Writing behind a line continues it.
LEMMA PutShows ==
  ASSUME NEW l \in Seq(Text), NEW s \in Seq(Text), Len(l) + Len(s) < MaxLine,
         NEW C, Showing(l, C, Len(l) + 1), NEW t, t = Put([cells |-> C, at |-> Len(l) + 1], s)
  PROVE  Showing(l \o s, t.cells, t.at)
<1> DEFINE k == l \o s
           p == Len(l) + 1
           e == p + Len(s)
<1>1. /\ Len(l) \in Nat /\ Len(s) \in Nat /\ p \in 1 .. MaxLine /\ s \in Seq(Cell)
      /\ e \in 1 .. MaxLine + 1 /\ MaxLine \in Nat
  BY EditorAssumption DEF Cell
<1>2. C \in [1 .. MaxLine + 1 -> Cell]
  BY DEF Showing
<1>3. /\ Len(k) = Len(l) + Len(s)
      /\ \A i \in 1 .. Len(k) : k[i] = IF i <= Len(l) THEN l[i] ELSE s[i - Len(l)]
  OBVIOUS
<1>4. /\ t.cells \in [1 .. MaxLine + 1 -> Cell] /\ t = [cells |-> t.cells, at |-> e]
      /\ \A j \in 1 .. Len(s) : t.cells[p + j - 1] = s[j]
      /\ \A i \in 1 .. MaxLine + 1 : i < p \/ i >= e => t.cells[i] = C[i]
  <2>1. Written(t, C, p, s)
    BY <1>1, <1>2, PutFacts
  <2> QED BY <2>1 DEF Written
<1> HIDE DEF k
<1>5. ASSUME NEW i \in 1 .. MaxLine + 1
      PROVE  t.cells[i] = IF i <= Len(k) THEN k[i] ELSE Blank
  <2>1. C[i] = IF i <= Len(l) THEN l[i] ELSE Blank
    BY DEF Showing
  <2>2. CASE i \in p .. e - 1
    <3> DEFINE j == i - Len(l)
    <3>1. j \in 1 .. Len(s) /\ p + j - 1 = i /\ i \in 1 .. Len(k) /\ i > Len(l)
      BY <1>1, <1>3, <2>2
    <3>2. k[i] = s[j]
      BY <1>1, <1>3, <3>1
    <3> HIDE DEF j
    <3>3. t.cells[p + j - 1] = s[j]
      BY <1>4, <3>1
    <3> QED BY <1>1, <1>3, <3>1, <3>2, <3>3
  <2>3. CASE i \notin p .. e - 1
    <3>1. i < p \/ i >= e
      BY <1>1, <2>3
    <3>2. t.cells[i] = C[i]
      BY <1>4, <3>1
    <3>3. CASE i < p
      BY <1>1, <1>3, <2>1, <3>2, <3>3
    <3>4. CASE i >= e
      BY <1>1, <1>3, <2>1, <3>2, <3>4
    <3> QED BY <3>1, <3>3, <3>4
  <2> QED BY <2>2, <2>3
<1>6. t.at = Len(k) + 1
  BY <1>1, <1>3, <1>4
<1> QED BY <1>4, <1>5, <1>6 DEF Showing, k

\* Every byte and every time-out keeps the terminal showing the line.
LEMMA EditorNextShows == ShowsLine /\ [EditorNext]_editor => ShowsLine'
<1> SUFFICES ASSUME ShowsLine, [EditorNext]_editor PROVE ShowsLine'
  OBVIOUS
<1> USE EditorAssumption
<1>1. EditorTypeOK
  BY DEF ShowsLine
<1>2. mode # "done" => Showing(line, cells, cursor)
  BY <1>1 DEF ShowsLine, EditorTypeOK, Showing, Cell
<1>3. ASSUME line' \in Seq(Text), Len(line') < MaxLine, Showing(line', cells', cursor'),
             mode' \in {"text", "esc", "csi", "done"}, params' \in 0 .. MaxParams,
             keys' \in 0 .. MaxKeys
      PROVE  ShowsLine'
  <2>1. cursor' \in 1 .. MaxLine /\ cursor' = Len(line') + 1
    BY <1>3 DEF Showing
  <2>2. DOMAIN cells' = 1 .. MaxLine + 1
    BY <1>3 DEF Showing
  <2> QED BY <1>3, <2>1, <2>2 DEF ShowsLine, EditorTypeOK, Showing, Cell
<1>4. CASE UNCHANGED editor
  BY <1>4 DEF editor, ShowsLine, EditorTypeOK
<1>5. CASE SequenceTimesOut
  BY <1>5 DEF SequenceTimesOut, ShowsLine, EditorTypeOK
<1>6. CASE Prompt
  BY <1>6 DEF Prompt, ShowsLine, EditorTypeOK
<1>7. ASSUME NEW b \in Text \cup Control, Key(b) PROVE ShowsLine'
  <2>1. keys' \in 0 .. MaxKeys
    BY <1>1, <1>7 DEF Key, EditorTypeOK
  <2>2. CASE Skip(b)
    BY <2>1, <2>2 DEF Skip, Inside, ShowsLine, EditorTypeOK
  <2>3. CASE mode = "text" /\ EndLine(b)
    BY <2>1, <2>3 DEF EndLine, ShowsLine, EditorTypeOK
  <2>4. CASE mode = "text" /\ Ignore(b)
    BY <2>1, <2>4 DEF Ignore, ShowsLine, EditorTypeOK
  <2>5. CASE mode = "text" /\ Escape(b)
    BY <2>1, <2>5 DEF Escape, ShowsLine, EditorTypeOK
  <2>6. CASE mode = "text" /\ Edit(b)
    <3>1. /\ Showing(line, cells, Len(line) + 1) /\ Terminal = [cells |-> cells, at |-> Len(line) + 1]
          /\ line \in Seq(Text) /\ Len(line) < MaxLine /\ Len(line) \in Nat
      BY <1>1, <1>2, <2>6 DEF Showing, Terminal, EditorTypeOK
    <3>2. mode' = mode /\ params' = params
      BY <2>6 DEF Edit
    <3>3. \A n \in 0 .. Len(line) :
            LET t == Erase(Terminal, n) IN
            /\ t = [cells |-> t.cells, at |-> t.at]
            /\ Showing(SubSeq(line, 1, Len(line) - n), t.cells, t.at)
      BY <3>1, EraseShows
    <3>4. SubSeq(line, 1, Len(line) - Len(line)) = <<>>
      BY <3>1
    <3>5. /\ Showing(<<>>, EraseLine(Terminal).cells, EraseLine(Terminal).at)
          /\ EraseLine(Terminal) = [cells |-> EraseLine(Terminal).cells, at |-> EraseLine(Terminal).at]
      <4>1. Len(line) \in 0 .. Len(line)
        BY <3>1
      <4> QED BY <3>3, <3>4, <4>1 DEF EraseLine
    <3>6. CASE Echo(EraseLine(Terminal)) /\ line' = <<>>
      <4>1. Showing(line', cells', cursor') /\ line' \in Seq(Text) /\ Len(line') < MaxLine
        BY <3>5, <3>6 DEF Echo
      <4> QED BY <1>1, <1>3, <2>1, <3>2, <4>1 DEF EditorTypeOK
    <3>7. CASE Echo(Redraw(EraseLine(Terminal))) /\ line' = line
      <4> DEFINE e == EraseLine(Terminal)
                 t == Put(e, line)
      <4>1. e.at = 1 /\ e = [cells |-> e.cells, at |-> Len(<<>>) + 1]
            /\ Showing(<<>>, e.cells, Len(<<>>) + 1) /\ <<>> \in Seq(Text)
        BY <3>5 DEF Showing
      <4> HIDE DEF e
      <4>2. Showing(<<>> \o line, t.cells, t.at)
        <5>1. t = Put([cells |-> e.cells, at |-> Len(<<>>) + 1], line)
          BY <4>1
        <5>2. Len(<<>>) + Len(line) < MaxLine
          BY <3>1
        <5> QED BY <3>1, <4>1, <5>1, <5>2, PutShows
      <4>3. <<>> \o line = line
        BY <3>1
      <4>4. Showing(line', cells', cursor')
        BY <3>7, <4>2, <4>3 DEF Echo, Redraw, e
      <4> QED BY <1>1, <1>3, <2>1, <3>1, <3>2, <3>7, <4>4 DEF EditorTypeOK
    <3>8. CASE line # <<>> /\ Echo(EraseChar(Terminal)) /\ line' = Front(line)
      <4>1. 1 \in 0 .. Len(line) /\ Front(line) = SubSeq(line, 1, Len(line) - 1)
        BY <3>1, <3>8 DEF Front
      <4>2. Showing(line', cells', cursor')
        BY <3>3, <3>8, <4>1 DEF Echo, EraseChar
      <4>3. line' \in Seq(Text) /\ Len(line') < MaxLine
        BY <3>1, <3>8, <4>1
      <4> QED BY <1>1, <1>3, <2>1, <3>2, <4>2, <4>3 DEF EditorTypeOK
    <3>9. CASE /\ b \in Text /\ Len(line) < MaxLine - 1
               /\ Echo(Put(Terminal, <<b>>)) /\ line' = Append(line, b)
      <4>1. <<b>> \in Seq(Text) /\ Len(<<b>>) = 1 /\ Len(line) + Len(<<b>>) < MaxLine
        BY <3>1, <3>9
      <4>2. line \o <<b>> = Append(line, b)
        BY <3>1, <3>9
      <4>3. LET t == Put(Terminal, <<b>>) IN Showing(line \o <<b>>, t.cells, t.at)
        BY <3>1, <4>1, PutShows
      <4>4. Showing(line', cells', cursor')
        BY <3>9, <4>2, <4>3 DEF Echo
      <4>5. line' \in Seq(Text) /\ Len(line') < MaxLine
        BY <3>1, <3>9
      <4> QED BY <1>1, <1>3, <2>1, <3>2, <4>4, <4>5 DEF EditorTypeOK
    <3> QED BY <2>6, <3>6, <3>7, <3>8, <3>9 DEF Edit
  <2> QED BY <1>7, <2>2, <2>3, <2>4, <2>5, <2>6 DEF Key
<1> QED BY <1>4, <1>5, <1>6, <1>7 DEF EditorNext

\* What read_line() submits is what the terminal shows, for lines and escape
\* sequences of any length, any bound on the line and any number of keys.
THEOREM LineShown == EditorSpec => []ShowsLine
  BY EditorInitShows, EditorNextShows, PTL DEF EditorSpec
=============================================================================
