------------------------------- MODULE LuaHost -------------------------------
(***************************************************************************)
(* The Lua host of lua/mod.rs, lua/repl.rs and lua/builtins.rs over the    *)
(* database binding of sqlite/, and the shell commands that share its      *)
(* locks.  One processor runs everything: a lock that is taken while it    *)
(* is held is waited for forever.  An error in the interpreter unwinds to  *)
(* the protected call without running the destructors of Rust frames, so   *)
(* the guards of a builtin that it cuts are never dropped.                 *)
(*                                                                         *)
(* Of the virtual machine, vendor/lua/, the model has what decides whether *)
(* the host keeps control of a script: the count of instructions behind    *)
(* the hook, which every coroutine has for itself, the catching of errors  *)
(* and the finalizers, which run without the hook.  A finalizer that is    *)
(* collected inside a builtin and takes no lock of it is run after it; a   *)
(* coroutine that a finalizer starts is part of the finalizer; the REPL,   *)
(* which has no hook, starts none.                                         *)
(***************************************************************************)
EXTENDS Naturals, Sequences, SequencesExt

CONSTANTS
  Path,         \* paths of the namespace table
  MaxRows,      \* bound: rows of a result
  Timeout,      \* EXEC_TIMEOUT_MS
  HookEvery,    \* instructions between two calls of the hook
  Coroutine,    \* coroutines a script has at a time
  AskInterval,  \* ASK_MIN_INTERVAL_MS
  MaxSleep,     \* MAX_SLEEP_MS
  MaxTime,      \* bound: ticks of a behaviour
  MaxCommands,  \* bound: commands of the shell
  MaxCalls,     \* bound: builtins called
  MaxCatches,   \* bound: errors the scripts catch
  MaxStack      \* bound: values left on the stack of the REPL

ASSUME LuaHostAssumption ==
  /\ {MaxRows, MaxTime, MaxCommands, MaxCalls, MaxCatches, MaxStack} \subseteq Nat
  /\ {Timeout, HookEvery, AskInterval, MaxSleep} \subseteq Nat \ {0}
  /\ "main" \notin Coroutine

Thread == {"main"} \cup Coroutine

VARIABLES
  pc,        \* who has control: "shell", "repl", "script", a step of a builtin,
             \* "stuck" on a lock, or "halted" by a panic
  who,       \* the Lua state: "none", "agent" or "repl"
  readonly,  \* _SQL_READONLY of its registry
  deadline,  \* _DEADLINE of its registry
  hooks,     \* of each thread the instructions since its hook was last due, and
             \* how many of them ran after the time was up (the code has only the
             \* first)
  active,    \* the threads that resumed each other; the last one runs
  fin,       \* a finalizer runs: "none", "gc" or, from lua_close(), "close"
  chunk,     \* the line the REPL runs
  stack,     \* values on the stack of the REPL between lines
  call,      \* the builtin in progress
  gc,        \* a table with a finalizer awaits collection
  held,      \* locks taken: "db", "net", "ask"
  services,  \* what is there: "db", "net", "key"
  files,     \* the namespace table: the type of each path
  audit,     \* number of rows of the audit table
  lastAsk,   \* LAST_ASK_MS
  clock,     \* monotonic time
  commands, calls, catches   \* how many so far

\* What happened; the code has no such state.
VARIABLES
  leaked,    \* locks whose guard was cut off by an error
  begun,     \* when the agent began
  finalized, \* a finalizer of this state has begun
  performed, \* operations that are to be audited
  lost,      \* those whose row could not be written
  through,   \* when a call of ask() last went through to the network
  gap,       \* and how long after the one before it
  returned,  \* some line of this REPL was a return statement
  printed    \* values printed for the last line that were not its own

table == <<files, audit>>
bounds == <<commands, calls, catches>>
trail == <<performed, lost>>
state == <<who, readonly, deadline, chunk, stack, begun, returned, printed>>
ask == <<lastAsk, through, gap>>
vm == <<hooks, active, fin, finalized>>
vars == <<pc, vm, call, gc, held, leaked, services, clock,
          table, bounds, trail, state, ask>>

NoCall == [fn |-> "none", arg |-> "none", lock |-> "none", todo |-> 0, after |-> "script"]
NoChunk == [form |-> "expr", results |-> 0, number |-> FALSE]
Never == MaxTime + Timeout + 1
NewThread == [count |-> 0, late |-> 0]

\* Statements: whether they begin with SELECT, EXPLAIN or PRAGMA, whether they
\* have columns, what they do, and whether their text has a NUL, which ends it.
Statement ==
  [select |-> [reads |-> TRUE, columns |-> TRUE, does |-> "nothing", nul |-> FALSE],
   pragma |-> [reads |-> TRUE, columns |-> FALSE, does |-> "nothing", nul |-> FALSE],
   cut    |-> [reads |-> TRUE, columns |-> TRUE, does |-> "nothing", nul |-> TRUE],
   with   |-> [reads |-> FALSE, columns |-> TRUE, does |-> "nothing", nul |-> FALSE],
   delete |-> [reads |-> FALSE, columns |-> FALSE, does |-> "delete", nul |-> FALSE],
   wipe   |-> [reads |-> FALSE, columns |-> FALSE, does |-> "wipe", nul |-> FALSE]]

Init ==
  /\ pc = "shell" /\ who = "none" /\ readonly = FALSE /\ deadline = Never
  /\ hooks = [t \in Thread |-> NewThread] /\ active = <<"main">>
  /\ fin = "none" /\ finalized = FALSE
  /\ chunk = NoChunk /\ stack = 0 /\ call = NoCall /\ gc = FALSE
  /\ held = {} /\ services \in {{"net", "key"}, {"db", "net", "key"}}
  /\ files \in [Path -> {"none", "lua"}] /\ audit = 0
  /\ lastAsk = 0 /\ clock = 0
  /\ commands = 0 /\ calls = 0 /\ catches = 0
  /\ leaked = {} /\ begun = 0
  /\ performed = 0 /\ lost = 0 /\ through = 0 /\ gap = AskInterval
  /\ returned = FALSE /\ printed = 0

-----------------------------------------------------------------------------
(* Plausible mistakes in the code, each the body of one definition.        *)

Deadline_Uncalibrated == Never
Restricted_NotSet == FALSE
Unlocked_Later == held
Accepted_Later == lastAsk
AuditedAfter_Never(fn) == "script"
-----------------------------------------------------------------------------
(* Time and the virtual machine.                                           *)

\* Time passes; what passes inside a builtin counts when it is over.
Tick ==
  /\ pc \in {"shell", "script"} /\ clock < MaxTime /\ clock' = clock + 1
  /\ UNCHANGED <<pc, vm, call, gc, held, leaked, services,
                 table, bounds, trail, state, ask>>

Running == Last(active)

\* The instructions of an agent after its time, up to one too many.
Overtime(n) ==
  IF clock < begun + Timeout \/ finalized THEN 0 ELSE IF n > HookEvery THEN n ELSE n + 1

\* The counts of the threads after one more instruction.  The count goes on in
\* a finalizer; the REPL has no hook and no count.
Stepped ==
  IF who = "agent"
  THEN [hooks EXCEPT ![Running] = [count |-> (@.count + 1) % HookEvery, late |-> Overtime(@.late)]]
  ELSE hooks

\* The hook is called at the next instruction: in no finalizer, for which the
\* collector turns hooks off.
HookDue == who = "agent" /\ fin = "none" /\ hooks[Running].count + 1 = HookEvery

\* The script runs an instruction on which the hook is not called.
Instruction == pc = "script" /\ ~HookDue /\ hooks' = Stepped

\* The state is gone, with every block of it and the locals of the host.
Closed ==
  /\ pc' = "shell" /\ who' = "none" /\ readonly' = FALSE /\ deadline' = Never
  /\ chunk' = NoChunk /\ stack' = 0 /\ gc' = FALSE
  /\ hooks' = [t \in Thread |-> NewThread] /\ active' = <<"main">>
  /\ fin' = "none" /\ finalized' = FALSE
  /\ call' = NoCall /\ begun' = 0 /\ returned' = FALSE /\ printed' = 0

\* lua_close() runs the finalizers that are left, on the main thread and with
\* hooks off, and frees the state.  h: the counts of the threads.
Close(h) ==
  \/ ~gc /\ Closed
  \/ /\ gc /\ pc' = "script" /\ fin' = "close" /\ finalized' = TRUE /\ gc' = FALSE
     /\ hooks' = h /\ active' = <<"main">> /\ call' = NoCall
     /\ UNCHANGED state

\* A finalizer is over, by an error as well: the script goes on where its
\* table was collected, or the state is freed.
FinalizerOver ==
  \/ /\ fin = "gc" /\ fin' = "none" /\ pc' = "script" /\ call' = NoCall
     /\ UNCHANGED <<hooks, active, finalized, gc, state>>
  \/ fin = "close" /\ Closed

\* An error reaches the protected call of the host: an agent ends, the REPL
\* prints it.  The message is a string already.
Unwind(h) ==
  \/ who = "agent" /\ Close(h)
  \/ /\ who = "repl" /\ pc' = "repl"
     /\ call' = NoCall /\ chunk' = NoChunk
     /\ UNCHANGED <<vm, gc, who, readonly, deadline, stack, begun, returned, printed>>

\* The script catches an error: a pcall() of the thread that raised it or, by
\* way of resume() and wrap(), one that resumed it.  The coroutines in between
\* are dead.
Catch(h) ==
  /\ catches < MaxCatches /\ catches' = catches + 1
  /\ pc' = "script" /\ call' = NoCall
  /\ \E n \in 1 .. Len(active) :
       LET dead == {active[i] : i \in n + 1 .. Len(active)} IN
       /\ fin # "none" => dead = {}
       /\ active' = SubSeq(active, 1, n)
       /\ hooks' = [t \in Thread |-> IF t \in dead THEN NewThread ELSE h[t]]
  /\ UNCHANGED <<fin, finalized, gc, state>>

\* An error: the script catches it, or it ends the finalizer it is raised in,
\* or reaches the host.  Guards of the frames that are cut stay taken, and a
\* row that was still to be written is not.  The counts are left as they are.
Cut(rows, h) ==
  /\ leaked' = leaked \cup held
  /\ lost' = lost + rows
  /\ \/ Catch(h)
     \/ fin # "none" /\ FinalizerOver /\ UNCHANGED catches
     \/ fin = "none" /\ Unwind(h) /\ UNCHANGED catches
  /\ UNCHANGED <<held, services, clock, table, commands, calls, performed, ask>>

CutOff(rows) == Cut(rows, hooks)
Raise == CutOff(0)

\* The instruction on which the hook is called, which begins a new count.
Hook ==
  /\ pc = "script" /\ HookDue
  /\ \/ clock >= deadline /\ Cut(0, [hooks EXCEPT ![Running] = NewThread])
     \/ /\ clock < deadline /\ hooks' = Stepped
        /\ UNCHANGED <<pc, active, fin, finalized, call, gc, held, leaked, services, clock,
                       table, bounds, trail, state, ask>>

\* The script computes; a table may get a finalizer, unless the state closes.
Compute ==
  /\ Instruction
  /\ gc' = gc \/ (gc' = TRUE /\ fin # "close")   \* setmetatable(t, {__gc = f})
  /\ UNCHANGED <<pc, active, fin, finalized, call, held, leaked, services, clock, table,
                 bounds, trail, state, ask>>

\* An allocation collects a table, and its finalizer is run, though not inside
\* of another; more may await theirs.
Finalizer ==
  /\ Instruction /\ gc /\ fin = "none"
  /\ fin' = "gc" /\ finalized' = TRUE /\ gc' \in BOOLEAN
  /\ UNCHANGED <<pc, active, call, held, leaked, services, clock, table, bounds, trail,
                 state, ask>>

FinalizerReturns ==
  /\ pc = "script" /\ fin # "none" /\ FinalizerOver
  /\ UNCHANGED <<held, leaked, services, clock, table, bounds, trail, ask>>

\* resume(): a suspended coroutine goes on with the count it had, a new one
\* begins its own.  The name of one that is dropped is free.
Resume(c, new) ==
  /\ pc = "script" /\ who = "agent" /\ fin = "none" /\ ~HookDue
  /\ c \in Coroutine \ Range(active)
  /\ hooks' = [Stepped EXCEPT ![c] = IF new THEN NewThread ELSE @]
  /\ active' = Append(active, c)
  /\ UNCHANGED <<pc, fin, finalized, call, gc, held, leaked, services, clock, table, bounds,
                 trail, state, ask>>

\* yield(), or the end of a coroutine; neither is possible in a finalizer.
Yield ==
  /\ Instruction /\ Len(active) > 1 /\ fin = "none"
  /\ active' = Front(active)
  /\ UNCHANGED <<pc, fin, finalized, call, gc, held, leaked, services, clock, table, bounds,
                 trail, state, ask>>

\* The chunk that the host called has control.
InChunk == pc = "script" /\ fin = "none" /\ Len(active) = 1

\* A refused allocation, error() or a failed operation.
ScriptFails == pc = "script" /\ Raise

\* The error value is a number, which the host turns into a string outside of
\* any protected call: when that allocation is refused the kernel stops.
Panic ==
  /\ pc' = "halted"
  /\ UNCHANGED <<vm, call, gc, held, leaked, services, clock,
                 table, bounds, trail, state, ask>>

NumberError == pc = "script" /\ fin = "none" /\ Panic

-----------------------------------------------------------------------------
(* Builtins.  A call takes an instruction; the steps that follow are of    *)
(* the host.                                                               *)

Calls ==
  /\ Instruction /\ calls < MaxCalls /\ calls' = calls + 1
  /\ UNCHANGED <<active, fin, finalized, commands, catches>>

Next_(step, c) == pc' = step /\ call' = c

Do(fn, arg) == [fn |-> fn, arg |-> arg, lock |-> "db", todo |-> 0, after |-> "script"]

\* Statements a restricted state may run.
Allowed(s) == ~readonly \/ Statement[s].reads

\* sql(), read(), write(), ls() and audit() with usable arguments go for the
\* database; sql() reports arguments it cannot use.
CallDb ==
  /\ Calls
  /\ \/ \E s \in DOMAIN Statement :
          IF Allowed(s) THEN Next_("lock", Do("sql", s)) ELSE Next_("push", NoCall)
     \/ \E fn \in {"read", "write"}, p \in Path : Next_("lock", Do(fn, p))
     \/ \E fn \in {"ls", "audit"} : Next_("lock", Do(fn, "none"))
     \/ Next_("push", NoCall)
  /\ UNCHANGED <<gc, held, leaked, services, clock, table, trail, state, ask>>

Lock ==
  /\ pc = "lock"
  /\ IF "db" \in held THEN pc' = "stuck" /\ UNCHANGED held
     ELSE pc' = "body" /\ held' = held \cup {"db"}
  /\ UNCHANGED <<vm, call, gc, leaked, services, clock, table,
                 bounds, trail, state, ask>>

Unlocked == held \ {call.lock}

\* The guard is dropped and the builtin goes on without it.
Unlock(step) ==
  /\ held' = Unlocked /\ pc' = step
  /\ call' = IF step = "script" THEN NoCall ELSE call

\* The builtin makes n values, then goes on, all of it with the lock taken.
Making(n, after) == [[call EXCEPT !.todo = n] EXCEPT !.after = after]
Rows(n, after) ==
  /\ pc' = "rows" /\ call' = Making(n, after)
  /\ UNCHANGED <<held, table, trail>>

\* The operation is done and owes the audit table a row.
Owes == performed' = performed + 1

\* What a statement does to the tables.
Effect(s) ==
  CASE Statement[s].does = "delete" ->
         /\ \E p \in Path : files' = [files EXCEPT ![p] = "none"]
         /\ Owes /\ UNCHANGED <<audit, lost>>
    [] Statement[s].does = "wipe" ->
         audit' = 0 /\ lost' = 0 /\ performed' = 1 /\ UNCHANGED files
    [] OTHER -> Owes /\ UNCHANGED <<table, lost>>

\* Where sql() and read() go once their values are made.
AuditedAfter(fn) == "audit"

SqlBody ==
  /\ pc = "body" /\ call.fn = "sql"
  /\ \/ "db" \notin services /\ Rows(1, "script")
     \/ "db" \in services /\ Unlock("push") /\ UNCHANGED <<table, trail>>   \* error
     \/ /\ "db" \in services /\ ~Statement[call.arg].columns
        /\ Effect(call.arg) /\ Unlock("audit")
     \/ /\ "db" \in services /\ Statement[call.arg].columns
        /\ \E n \in 0 .. MaxRows :
             /\ pc' = "rows" /\ Owes
             /\ call' = Making(1 + n, AuditedAfter("sql"))
        /\ UNCHANGED <<held, table, lost>>
  /\ UNCHANGED <<vm, gc, leaked, services, clock, bounds, state, ask>>

ReadBody ==
  /\ pc = "body" /\ call.fn = "read"
  /\ \/ Unlock("script") /\ UNCHANGED trail            \* not open, absent, or an error
     \/ /\ "db" \in services /\ files[call.arg] # "none" /\ Owes
        /\ pc' = "rows" /\ call' = Making(1, AuditedAfter("read"))
        /\ UNCHANGED <<held, lost>>
  /\ UNCHANGED <<vm, gc, leaked, services, clock, table, bounds, state, ask>>

\* The row is replaced, its type with it; a failure is audited all the same.
WriteBody ==
  /\ pc = "body" /\ call.fn = "write"
  /\ \/ "db" \notin services /\ Unlock("script") /\ UNCHANGED <<files, performed>>
     \/ /\ "db" \in services /\ Unlock("audit") /\ Owes
        /\ \/ files' = [files EXCEPT ![call.arg] = "data"]
           \/ UNCHANGED files
  /\ UNCHANGED <<vm, gc, leaked, services, clock, audit, lost,
                 bounds, state, ask>>

LsBody ==
  /\ pc = "body" /\ call.fn = "ls"
  /\ \/ Rows(1, "script")                               \* not open, or an error
     \/ "db" \in services /\ \E n \in 1 .. MaxRows : Rows(1 + n, "script")
  /\ UNCHANGED <<vm, gc, leaked, services, clock, bounds, state, ask>>

\* An INSERT into the audit table, which may fail; its text may end early.
Insert(nul) ==
  \/ ~nul /\ "db" \in services /\ audit' = audit + 1 /\ UNCHANGED lost
  \/ lost' = lost + 1 /\ UNCHANGED audit

\* audit(), the row of which is the script's own.
AuditBody ==
  /\ pc = "body" /\ call.fn = "audit"
  /\ Owes /\ Insert(FALSE) /\ Unlock("script")
  /\ UNCHANGED <<vm, gc, leaked, services, clock, files, bounds, state, ask>>

-----------------------------------------------------------------------------

\* A value is made under the lock.  Its allocation may be refused, or collect
\* a table whose finalizer calls a builtin that takes the same lock.
MakeValue ==
  /\ pc = "rows" /\ call.todo > 0
  /\ \/ /\ call' = [call EXCEPT !.todo = @ - 1]
        /\ UNCHANGED <<pc, vm, gc, held, leaked, services, clock, table,
                       bounds, trail, state, ask>>
     \/ /\ gc /\ fin = "none" /\ pc' = "stuck"
        /\ UNCHANGED <<vm, call, gc, held, leaked, services, clock,
                       table, bounds, trail, state, ask>>
     \/ CutOff(IF call.after = "audit" THEN 1 ELSE 0)

ValuesMade ==
  /\ pc = "rows" /\ call.todo = 0 /\ Unlock(call.after)
  /\ UNCHANGED <<vm, gc, leaked, services, clock, table, bounds,
                 trail, state, ask>>

\* A message or an answer is pushed without a lock.
Push ==
  /\ pc = "push"
  /\ \/ /\ pc' = "script" /\ call' = NoCall
        /\ UNCHANGED <<vm, gc, held, leaked, services, clock, table,
                       bounds, trail, state, ask>>
     \/ Raise

\* audit_log(): the name of the agent is looked up, which may be refused, and
\* the row inserted with the lock taken.
AuditLog ==
  /\ pc = "audit"
  /\ \/ CutOff(1)
     \/ /\ "db" \in held /\ pc' = "stuck"
        /\ UNCHANGED <<vm, call, gc, held, leaked, services, clock,
                       table, bounds, trail, state, ask>>
     \/ /\ "db" \notin held
        /\ Insert(call.fn = "sql" /\ Statement[call.arg].nul)
        /\ IF call.fn = "ask" THEN Next_("push", call) ELSE Next_("script", NoCall)
        /\ UNCHANGED <<vm, gc, held, leaked, services, clock, files,
                       bounds, performed, state, ask>>

-----------------------------------------------------------------------------
(* ask() and sleep().                                                      *)

TooSoon == clock - lastAsk < AskInterval
Accepted == clock
Message(lock) == [fn |-> "ask", arg |-> "none", lock |-> lock, todo |-> 1, after |-> "script"]

\* The refusal is pushed with the lock on the time of the last call taken.
CallAsk ==
  /\ Calls
  /\ \/ "ask" \in held /\ pc' = "stuck" /\ UNCHANGED <<call, held, ask>>
     \/ /\ "ask" \notin held /\ TooSoon
        /\ Next_("rows", Message("ask")) /\ held' = held \cup {"ask"} /\ UNCHANGED ask
     \/ /\ "ask" \notin held /\ ~TooSoon
        /\ lastAsk' = Accepted
        /\ \/ Next_("push", NoCall) /\ UNCHANGED <<through, gap>>     \* no key, or bad arguments
           \/ /\ "key" \in services /\ Next_("net", [NoCall EXCEPT !.fn = "ask"])
              /\ through' = clock /\ gap' = clock - through
        /\ UNCHANGED held
  /\ UNCHANGED <<gc, leaked, services, clock, table, trail, state>>

\* The request runs with the network stack taken, and so do the messages when
\* there is no network or no address.
Network ==
  /\ pc = "net"
  /\ \/ "net" \in held /\ pc' = "stuck" /\ UNCHANGED <<call, held, trail>>
     \/ /\ "net" \notin held
        /\ Next_("rows", Message("net")) /\ held' = held \cup {"net"} /\ UNCHANGED trail
     \/ /\ "net" \notin held /\ "net" \in services
        /\ \/ Next_("push", NoCall) /\ UNCHANGED trail
           \/ Next_("audit", call) /\ Owes /\ UNCHANGED lost
        /\ UNCHANGED held
  /\ UNCHANGED <<vm, gc, leaked, services, clock, table, bounds, state, ask>>

\* sleep() spins for as long as it is asked to, up to MAX_SLEEP_MS.
Sleep ==
  /\ Calls
  /\ \E ms \in 1 .. MaxSleep : clock' = IF clock + ms > MaxTime THEN MaxTime ELSE clock + ms
  /\ UNCHANGED <<pc, call, gc, held, leaked, services, table, trail, state, ask>>

-----------------------------------------------------------------------------
(* The shell.  Commands that use the database take its lock.               *)

Command == pc = "shell" /\ commands < MaxCommands /\ commands' = commands + 1

ShellStuck(lock) ==
  /\ lock \in held /\ pc' = "stuck" /\ UNCHANGED <<files, state, vm>>

\* store: the row is replaced, or the statement fails.
Store ==
  /\ Command
  /\ \/ ShellStuck("db")
     \/ /\ "db" \notin held
        /\ \/ "db" \in services /\ \E p \in Path : files' = [files EXCEPT ![p] = "lua"]
           \/ UNCHANGED files
        /\ UNCHANGED <<pc, state, vm>>
  /\ UNCHANGED <<call, gc, held, leaked, services, clock, audit, calls, catches, trail, ask>>

\* sql runs any statement and cat reads; the ask command takes the network.
Query ==
  /\ Command
  /\ \/ \E l \in {"db", "net"} : ShellStuck(l) /\ UNCHANGED <<audit, trail>>
     \/ /\ {"db", "net"} \cap held = {}
        /\ \/ UNCHANGED <<files, audit, trail>>
           \/ /\ "db" \in services /\ \E p \in Path : files' = [files EXCEPT ![p] = "none"]
              /\ UNCHANGED <<audit, trail>>
           \/ /\ "db" \in services /\ audit' = 0 /\ performed' = 0 /\ lost' = 0
              /\ UNCHANGED files
        /\ UNCHANGED <<pc, state, vm>>
  /\ UNCHANGED <<call, gc, held, leaked, services, clock, calls, catches, ask>>

Deadline == clock + Timeout
Restricted == TRUE

\* run: the script is read from the table and a state of its own made for it.
\* Memory refused before the protected call stops the kernel.
Run ==
  /\ Command /\ clock + Timeout <= MaxTime
  /\ \/ ShellStuck("db")
     \/ "db" \notin held /\ UNCHANGED <<pc, state, vm>>   \* not found, no state
     \/ /\ "db" \notin held /\ "db" \in services /\ \E p \in Path : files[p] = "lua"
        /\ \/ pc' = "script" \/ pc' = "halted"
        /\ who' = "agent" /\ readonly' = Restricted /\ deadline' = Deadline /\ begun' = clock
        /\ UNCHANGED <<chunk, stack, returned, printed, vm>>
  /\ UNCHANGED <<files, call, gc, held, leaked, services, clock, audit, calls,
                 catches, trail, ask>>

\* The script of an agent ends.
Return ==
  /\ InChunk /\ who = "agent" /\ Close(hooks)
  /\ UNCHANGED <<held, leaked, services, clock, table, bounds, trail, ask>>

-----------------------------------------------------------------------------
(* The REPL: one state for all lines, no time limit and no restriction.    *)

Repl ==
  /\ Command
  /\ \/ UNCHANGED <<pc, who>>
     \/ who' = "repl" /\ (pc' = "repl" \/ pc' = "halted")
  /\ UNCHANGED <<readonly, deadline, chunk, stack, begun, returned, printed, vm, call,
                 gc, held, leaked, services, clock, table, calls, catches, trail, ask>>

\* A line: its form, how many values it has, and whether one is a number.
Chunk == {c \in [form : {"expr", "stmt"}, results : 0 .. 1, number : BOOLEAN] :
            c.number => c.form = "expr" /\ c.results > 0}

\* A line is tried as an expression and then as a statement; what does not
\* compile is reported and has no effect.
Line ==
  /\ pc = "repl" /\ pc' = "script"
  /\ chunk' \in Chunk
  /\ printed' = 0
  /\ UNCHANGED <<who, readonly, deadline, stack, begun, returned, vm, call,
                 gc, held, leaked, services, clock, table, bounds, trail, ask>>

\* What is left of n values on the stack once they are printed.
Popped(n) == 0

\* The values of an expression are everything on the stack; those of a
\* statement, a return, stay there.
LineDone ==
  /\ InChunk /\ who = "repl" /\ pc' = "repl"
  /\ IF chunk.form = "stmt" THEN stack' = stack + chunk.results /\ printed' = 0
     ELSE stack' = Popped(stack + chunk.results) /\ printed' = stack
  /\ stack' <= MaxStack
  /\ returned' = (returned \/ (chunk.form = "stmt" /\ chunk.results > 0))
  /\ chunk' = NoChunk
  /\ UNCHANGED <<who, readonly, deadline, begun, vm, call, gc, held,
                 leaked, services, clock, table, bounds, trail, ask>>

\* A number is turned into a string to be printed, outside of a protected call.
PrintPanics ==
  /\ InChunk /\ who = "repl" /\ chunk.number /\ Panic

\* exit(), Ctrl-C and Ctrl-D close the state; exit() is an error, and ends no
\* more than the finalizer it is called in.
Exit ==
  /\ who = "repl" /\ (pc = "repl" \/ InChunk) /\ Close(hooks)
  /\ UNCHANGED <<held, leaked, services, clock, table, bounds, trail, ask>>
-----------------------------------------------------------------------------

Machine ==
  \/ Compute \/ Hook \/ ScriptFails \/ NumberError \/ Return \/ LineDone \/ PrintPanics
  \/ Finalizer \/ FinalizerReturns \/ Yield \/ \E c \in Coroutine, new \in BOOLEAN : Resume(c, new)
Builtin ==
  \/ Lock \/ SqlBody \/ ReadBody \/ WriteBody \/ LsBody \/ AuditBody
  \/ MakeValue \/ ValuesMade \/ Push \/ AuditLog \/ Network
Script == CallDb \/ CallAsk \/ Sleep
Shell == Store \/ Query \/ Run \/ Repl \/ Line \/ Exit

Next == Tick \/ Machine \/ Builtin \/ Script \/ Shell

Fairness == WF_vars(Tick) /\ WF_vars(Machine \/ Builtin)
Spec == Init /\ [][Next]_vars /\ Fairness
-----------------------------------------------------------------------------

Idle == pc \in {"shell", "repl", "script"}

\* A builtin: its name, its argument, the lock it takes, the values it has still
\* to make and where it goes then.
Builtins ==
  [fn : {"none", "sql", "read", "write", "ls", "audit", "ask"},
   arg : Path \cup DOMAIN Statement \cup {"none"},
   lock : {"none", "db", "net", "ask"}, todo : Nat, after : {"script", "audit"}]

ControlTypeOK ==
  /\ pc \in {"shell", "repl", "script", "lock", "body", "rows", "push", "audit", "net",
             "stuck", "halted"}
  /\ who \in {"none", "agent", "repl"} /\ readonly \in BOOLEAN /\ deadline \in 0 .. Never
  /\ begun \in Nat
  /\ call \in Builtins /\ gc \in BOOLEAN
  /\ chunk \in Chunk /\ stack \in 0 .. MaxStack /\ printed \in Nat /\ returned \in BOOLEAN

\* What the machine keeps of a thread.
Counts == [count : 0 .. HookEvery - 1, late : Nat]

VmTypeOK ==
  /\ hooks \in [Thread -> Counts]
  /\ active \in Seq(Thread) /\ active # <<>>
  /\ fin \in {"none", "gc", "close"} /\ finalized \in BOOLEAN

KernelTypeOK ==
  /\ held \subseteq {"db", "net", "ask"} /\ leaked \subseteq held
  /\ files \in [Path -> {"none", "lua", "data"}]
  /\ audit \in Nat /\ performed \in Nat /\ lost \in Nat
  /\ clock \in 0 .. MaxTime /\ lastAsk \in 0 .. clock /\ through \in 0 .. lastAsk /\ gap \in Nat

\* Every variable has its type: those of the Lua state and of the kernel.
TypeOK == ControlTypeOK /\ VmTypeOK /\ KernelTypeOK

\* Whenever a script or the shell has control every lock has been given back,
\* except those whose guard an error cut off; and nothing waits for a lock
\* unless one was cut off so, or a finalizer ran inside the builtin that has it.
\* In particular no path of a builtin logs to the database with its lock taken.
LocksGivenBack ==
  /\ Idle => held = leaked
  /\ pc = "stuck" => leaked # {} \/ (gc /\ call.todo > 0)

\* Every statement, read, write and request of a script whose builtin is over
\* has its row in the audit table, unless the row could not be written or an
\* error cut the builtin off before it was.
Audited == Idle => audit + lost = performed

\* An agent never removes a row of the audit table or a file, whatever it runs:
\* the registry flag set before the script starts is read by every sql().
AgentsReadOnly ==
  [][who = "agent" => /\ audit' >= audit
                      /\ \A p \in Path : files[p] # "none" => files'[p] # "none"]_vars

\* As long as no finalizer has run, no thread of an agent whose time is up runs
\* more instructions than there are between two calls of the hook before the
\* hook cuts it off (each of which may be a long sleep(), or resume another
\* thread): an error that is caught begins no new count.
CutInTime ==
  who = "agent" /\ ~finalized => \A t \in Thread : hooks[t].late <= HookEvery

\* The host is back in the shell, or a lock was lost, or memory ran out where
\* nothing catches it.
Over == who = "none" \/ pc \in {"stuck", "halted"}

\* A command that runs an agent comes back to the shell, even from a script
\* that loops, in whatever threads, as long as the script catches finitely many
\* errors and its finalizers come to an end.
AgentEnds == <>[](fin = "none") => (who = "agent" ~> Over)

\* What the limit of install_timeout_hook() promises: a command that runs an
\* agent comes back, whatever the script does.
AgentAborted == who = "agent" ~> Over

\* Two calls of ask() that reach the network began the interval apart, even
\* from different scripts and after failures in between.
AskSpaced == gap >= AskInterval

\* Neither loops nor failures get a script more time, or more requests, than
\* the two limits give it.
Paced == CutInTime /\ AskSpaced

\* The REPL prints the values of a line and none that an earlier one left,
\* unless an earlier line was a return statement.
PrintsOwnValues == printed > 0 => returned

\* Between two builtins the kernel is as it was: locks given back, the stack of
\* the REPL empty.
LocksConsistent == TypeOK /\ LocksGivenBack /\ PrintsOwnValues

-----------------------------------------------------------------------------
(* Why these hold: the inductive invariant.                                *)

\* The one lock that a builtin has is its own, taken when nobody had it; apart
\* from it only guards that were cut off are still taken.
LockOwned ==
  /\ pc \in {"shell", "repl", "script", "lock", "push", "audit", "net"} => held = leaked
  /\ pc \in {"body", "rows"} =>
       held = leaked \cup {call.lock} /\ call.lock \notin leaked /\ call.lock # "none"
  /\ pc = "lock" => call.lock = "db"

\* The row that the builtin in progress has still to write.
RowDue == IF pc = "audit" \/ (pc = "rows" /\ call.after = "audit") THEN 1 ELSE 0

\* Operations, rows and rows lost add up in the middle of a builtin too.
RowsAddUp == pc \notin {"stuck", "halted"} => audit + lost + RowDue = performed

\* An agent has its time limit and its restriction from before its first
\* instruction to after its last.
AgentLimited ==
  /\ pc = "shell" => who = "none"
  /\ who = "agent" => readonly /\ deadline = begun + Timeout

\* The statement on its way to the database is one the state may run.
StatementAllowed ==
  pc \in {"lock", "body"} /\ call.fn = "sql" => call.arg \in DOMAIN Statement /\ Allowed(call.arg)

\* The instructions of a thread after the time was up are among those since its
\* hook was last called, as long as no finalizer has moved its count.
Counted(h) == \A t \in Thread : h[t].late <= h[t].count
LateCounted == /\ fin # "none" => finalized
               /\ ~finalized => Counted(hooks)

\* What is on the stack of the REPL was left by a return statement.
StackReturned == stack > 0 => returned

IInv ==
  /\ LocksConsistent /\ Audited /\ Paced
  /\ LockOwned /\ RowsAddUp /\ AgentLimited /\ StatementAllowed /\ LateCounted /\ StackReturned
=============================================================================
