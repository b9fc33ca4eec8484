------------------------------- MODULE MCShell -------------------------------
(***************************************************************************)
(* The shell: the commands and scripts, and, from the initial state and    *)
(* independent of them, the line editor and the allocator of a Lua state.  *)
(***************************************************************************)
EXTENDS LuaHost, LineEditor, LuaAlloc

MCInit == Init /\ EditorInit /\ HeapInit

Only(A) == EditorInit /\ HeapInit /\ limit = LuaLimit /\ A /\ UNCHANGED <<editor, heap>>
Scripts == Only(Next)
Editing == Init /\ HeapInit /\ limit = LuaLimit /\ EditorNext /\ UNCHANGED <<vars, heap>>
Allocating == Init /\ EditorInit /\ HeapNext /\ UNCHANGED <<vars, editor>>

MCNext == Scripts \/ Editing \/ Allocating

mcVars == <<vars, editor, heap>>
MCSpec ==
  /\ MCInit /\ [][MCNext]_mcVars
  /\ WF_mcVars(Only(Tick)) /\ WF_mcVars(Only(Machine \/ Builtin))
=============================================================================
