------------------------------ MODULE AgentLoop ------------------------------
(***************************************************************************)
(* The shell's ask and agent commands: run_agent_loop() of shell/agent.rs  *)
(* and cmd_ask() of shell/commands.rs, composed with the resolver that     *)
(* finds the API and the client that talks to it.  The agent loop sends    *)
(* the conversation, runs the tools the answer calls, appends their        *)
(* results and repeats.  The loop holds the network stack to its end.      *)
(***************************************************************************)
EXTENDS ApiClient, DnsResolver

CONSTANTS
  MaxTurns,   \* MAX_TURNS
  MaxCommands, \* bound: commands of a behaviour
  Path,       \* paths of the namespace table
  Content,    \* contents of its files
  NoContent   \* there is no such file

ASSUME AgentAssumption ==
  MaxTurns \in Nat \ {0} /\ MaxCommands \in Nat /\ NoContent \notin Content

VARIABLES
  task,      \* what the shell is doing: "none", "ask" or "agent"
  step,      \* where in it: "resolve", "send", "reply", "tools"; "panic": halted
  tls,       \* use_tls of the command
  turn,      \* turns of the agent loop begun
  messages,  \* the conversation
  pending,   \* the tool calls of this turn that are still to run
  results,   \* the results of the ones that have run
  files,     \* the namespace table of the database
  commands   \* number of commands so far

\* The peer of the API, or the network before it, sends nothing any more.
VARIABLE silent

loop == <<task, step, tls, turn, messages, pending, results, files, commands>>
agentVars == <<apiVars, dnsVars, loop, silent>>

AgentInit ==
  /\ ApiInit /\ DnsInit
  /\ task = "none" /\ step = "send" /\ tls = TRUE /\ turn = 0
  /\ messages = <<>> /\ pending = <<>> /\ results = <<>>
  /\ files = [p \in Path |-> NoContent] /\ commands = 0 /\ silent = FALSE

User(ids) == [role |-> "user", uses |-> <<>>, results |-> ids, inputs |-> TRUE]
Assistant(cs) ==
  [role |-> "assistant", uses |-> [i \in DOMAIN cs |-> cs[i].id], results |-> <<>>,
   inputs |-> \A i \in DOMAIN cs : cs[i].input # <<>>]

-----------------------------------------------------------------------------
(* Plausible mistakes in the code, each the body of one definition.        *)

AllResults_ErrorsDropped(id, err) == IF err THEN results ELSE Append(results, id)
-----------------------------------------------------------------------------
(* A command begins: the API key is set, the network stack is taken and    *)
(* the address found.  The proxy has a fixed address.                      *)

Begin(t, useTls) ==
  /\ task = "none" /\ commands < MaxCommands /\ commands' = commands + 1
  /\ task' = t /\ tls' = useTls
  /\ step' = IF useTls THEN "resolve" ELSE "send"
  /\ messages' = IF t = "agent" THEN <<User(<<>>)>> ELSE <<>>
  /\ UNCHANGED <<apiVars, dnsVars, turn, pending, results, files>>

\* The command ends: it releases the network stack and its locals are gone.
Finish ==
  /\ task' = "none" /\ step' = "send" /\ tls' = TRUE /\ turn' = 0
  /\ messages' = <<>> /\ pending' = <<>> /\ results' = <<>>
  /\ UNCHANGED <<files, commands>>

Resolve ==
  /\ task # "none" /\ step = "resolve"
  /\ \/ Ask /\ UNCHANGED loop
     \/ /\ UseCached \/ \E ip \in Address, ttl \in Ttl : Answer(ip, ttl)
        /\ step' = "send"
        /\ UNCHANGED <<task, tls, turn, messages, pending, results, files, commands>>
     \/ NoAnswer /\ Finish
  /\ UNCHANGED apiVars

\* The request of an ask command, or of the next turn of the agent loop.  The
\* agentic form is TLS whatever the command asked for.
SendRequest ==
  /\ task # "none" /\ step = "send"
  /\ IF task = "ask" THEN Send(IF tls THEN "tls" ELSE "plain", 1) ELSE Send("agentic", turn + 1)
  /\ turn' = IF task = "agent" THEN turn + 1 ELSE turn
  /\ step' = "reply"
  /\ UNCHANGED <<dnsVars, task, tls, messages, pending, results, files, commands>>

\* The body of a request is a JSON document unless the conversation holds a
\* tool call without input, which is written as nothing at all.
BodyIsJson == \A i \in DOMAIN messages : messages[i].inputs

\* The proxy speaks plain HTTP, so that no TLS handshake with it succeeds; and
\* the peer accepts no request that it cannot read.  A peer that has fallen
\* silent takes no part any more.
Request ==
  /\ task # "none" /\ step = "reply"
  /\ IF silent THEN OwnStep ELSE Attempt
  /\ ~tls => ~(pc = "handshake" /\ pc' = "send")
  /\ ~BodyIsJson => pc' # "stream"
  /\ UNCHANGED <<dnsVars, loop>>

-----------------------------------------------------------------------------
(* What becomes of the answer.                                             *)

\* The loop has had its turns.
LastTurn == turn = MaxTurns

\* An error, the answer to an ask, or an answer with no tool calls.
ReplyEnds ==
  /\ task # "none" /\ step = "reply" /\ pc = "idle"
  /\ ~IsOk(result) \/ task = "ask" \/ result.calls = <<>>
  /\ Finish
  /\ Return
  /\ UNCHANGED dnsVars

\* The answer is recorded and its tool calls are run.
ReplyCalls ==
  /\ task = "agent" /\ step = "reply" /\ pc = "idle"
  /\ IsOk(result) /\ result.calls # <<>>
  /\ messages' = Append(messages, Assistant(result.calls))
  /\ pending' = result.calls /\ results' = <<>>
  /\ step' = "tools"
  /\ Return
  /\ UNCHANGED <<dnsVars, task, tls, turn, files, commands>>

\* A file after the replacement of a text in it, whatever else it holds.
Replaced(p, c) == IF files[p] = NoContent THEN NoContent ELSE c

\* dispatch_tool(): what each tool does to the files.  A tool without its
\* parameters, with an input that is no JSON or of an unknown name is an
\* error, as is any tool when the database is not open or fails.
ReadFile(p) == [err |-> files[p] = NoContent, files |-> files]
WriteFile(p, c) == [err |-> FALSE, files |-> [files EXCEPT ![p] = c]]
StrReplace(p, c) == [err |-> files[p] = NoContent, files |-> [files EXCEPT ![p] = Replaced(p, c)]]
ListDir == [err |-> FALSE, files |-> files]
SqlQuery == [err |-> FALSE, files |-> files]
ToolError == [err |-> TRUE, files |-> files]

Dispatch(call) ==
  IF call.input = <<>> THEN {ToolError}
  ELSE {ToolError, ListDir, SqlQuery}
         \cup {ReadFile(p) : p \in Path}
         \cup {WriteFile(p, c) : p \in Path, c \in Content}
         \cup {StrReplace(p, c) : p \in Path, c \in Content}

\* The result blocks after the result of one more call.
AllResults(id, err) == Append(results, id)

\* The tool is run, its result shown and kept.  A result of more than 200 bytes
\* is cut at byte 200 to show it, and the kernel panics when that byte is inside
\* a character, after what the tool has done.
RunTool ==
  /\ step = "tools" /\ pending # <<>>
  /\ \E r \in Dispatch(Head(pending)) :
       /\ files' = r.files
       /\ \/ /\ results' = AllResults(Head(pending).id, r.err)
             /\ pending' = Tail(pending)
             /\ UNCHANGED step
          \/ /\ Head(pending).input # <<>>
             /\ step' = "panic"
             /\ UNCHANGED <<results, pending>>
  /\ UNCHANGED <<apiVars, dnsVars, task, tls, turn, messages, commands>>

\* All results go into one user message and the next turn begins.
NextTurn ==
  /\ step = "tools" /\ pending = <<>> /\ ~LastTurn
  /\ messages' = Append(messages, User(results))
  /\ results' = <<>> /\ step' = "send"
  /\ UNCHANGED <<apiVars, dnsVars, task, tls, turn, pending, files, commands>>

\* The loop ends without a text, and nobody reads the last results.
TurnLimit ==
  /\ step = "tools" /\ pending = <<>> /\ LastTurn
  /\ Finish
  /\ UNCHANGED <<apiVars, dnsVars>>

-----------------------------------------------------------------------------

\* Between commands the user sets the address, and time passes.
Idle ==
  /\ \/ Tick /\ (task = "none" \/ query.open)
     \/ task = "none" /\ \E ip \in Address \cup {NoAddress} : SetTarget(ip)
  /\ UNCHANGED <<apiVars, loop>>

Command == \E t \in {"ask", "agent"}, useTls \in BOOLEAN : Begin(t, useTls)

Progress ==
  \/ Resolve \/ SendRequest \/ Request
  \/ ReplyEnds \/ ReplyCalls \/ RunTool \/ NextTurn \/ TurnLimit

\* The peer falls silent, for good.
FallSilent == ~silent /\ silent' = TRUE /\ UNCHANGED <<apiVars, dnsVars, loop>>

AgentNext ==
  \/ (Idle \/ Command \/ Progress) /\ UNCHANGED silent
  \/ FallSilent

\* The kernel is one thread that runs a command to its end: its own steps are
\* not put off for ever.  Of a request these are only the steps that follow the
\* peer's silence: every byte that arrives begins a new wait, and no deadline
\* bounds them all, so that nothing ends a request whose peer goes on sending.
KernelStep ==
  /\ \/ Resolve \/ SendRequest \/ (silent /\ Request)
     \/ ReplyEnds \/ ReplyCalls \/ RunTool \/ NextTurn \/ TurnLimit
  /\ UNCHANGED silent

AgentSpec == AgentInit /\ [][AgentNext]_agentVars
AgentFairSpec == AgentSpec /\ WF_agentVars(KernelStep)

-----------------------------------------------------------------------------
(* Properties.                                                             *)

Message ==
  [role : {"user", "assistant"}, uses : Seq(Nat \X Nat), results : Seq(Nat \X Nat), inputs : BOOLEAN]

LoopTypeOK ==
  /\ task \in {"none", "ask", "agent"} 
  /\ step \in {"resolve", "send", "reply", "tools", "panic"}
  /\ tls \in BOOLEAN /\ turn \in 0 .. MaxTurns
  /\ commands \in 0 .. MaxCommands
  /\ files \in [Path -> Content \cup {NoContent}]
  /\ messages \in Seq(Message)
  /\ pending \in Seq(Call) /\ results \in Seq(Nat \X Nat)

AgentTypeOK == ApiTypeOK /\ DnsTypeOK /\ LoopTypeOK /\ silent \in BOOLEAN

\* Every conversation that is sent is one the API accepts: the user begins,
\* the roles alternate, and the tool calls of an answer are all answered, each
\* once and in order, by the next message, whether or not a tool failed and
\* whether or not the answer was cut off.
ConversationAnswered ==
  task = "agent" /\ step = "send" /\ messages # <<>> =>
    /\ messages[1].role = "user" /\ messages[1].results = <<>>
    /\ Last(messages).role = "user"
    /\ \A i \in 1 .. Len(messages) - 1 :
         /\ messages[i].role # messages[i + 1].role
         /\ messages[i].uses = messages[i + 1].results

\* The state of the loop has its type, and so has every conversation it sends.
ConversationConsistent == AgentTypeOK /\ ConversationAnswered

\* A turn of the loop: its answer is the last message while its tools run, and
\* the results so far and the calls still to run are those of the answer.
ToolsInv ==
  LET uses == Last(messages).uses IN
  step = "tools" =>
    /\ Last(messages).role = "assistant"
    /\ Len(uses) = Len(results) + Len(pending)
    /\ \A i \in 1 .. Len(results) : results[i] = uses[i]
    /\ \A i \in 1 .. Len(pending) : pending[i].id = uses[Len(results) + i]

\* The conversation at every step of the loop.
LoopInv ==
  /\ task # "agent" => step \notin {"tools", "panic"} /\ turn = 0
  /\ step \in {"resolve", "send"} => turn < MaxTurns
  /\ task = "agent" =>
       /\ messages # <<>> /\ messages[1].role = "user" /\ messages[1].results = <<>>
       /\ \A i \in 1 .. Len(messages) - 1 :
            /\ messages[i].role # messages[i + 1].role
            /\ messages[i].uses = messages[i + 1].results
       /\ step \notin {"tools", "panic"} => Last(messages).role = "user" /\ Last(messages).uses = <<>>
  /\ ToolsInv

\* The inductive invariant of the commands.
AgentIInv == ApiIInv /\ DnsIInv /\ LoopTypeOK /\ LoopInv /\ silent \in BOOLEAN

\* A command whose peer falls silent ends, at whatever point that happens and
\* through all the retries and turns to come: over TLS every wait for the peer
\* has a time-out.  The kernel may panic over a tool's result before.
CommandEnds ==
  silent /\ task # "none" /\ (tls \/ task = "agent") ~> task = "none" \/ step = "panic"

\* A command ends once its peer is silent, and a plain one leaves no connection behind.
EndsAndCloses == CommandEnds /\ PlainCloses
=============================================================================
