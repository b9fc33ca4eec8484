------------------------------- MODULE MCAgent -------------------------------
(***************************************************************************)
(* The commands: two of them, of up to two turns, where an answer has up   *)
(* to two tool calls or a call and its input, and every attempt may fail   *)
(* at every point.  From the initial state the run also goes through the   *)
(* texts of JsonText, which no command depends on.                         *)
(***************************************************************************)
EXTENDS AgentLoop, JsonText

MCInit == AgentInit /\ TextInit

Commands == kind = "none" /\ AgentNext /\ UNCHANGED texts
ReadTexts == AgentInit /\ TextNext /\ UNCHANGED agentVars

MCNext == Commands \/ ReadTexts

MCSpec ==
  MCInit /\ [][MCNext]_<<agentVars, texts>>
         /\ WF_<<agentVars, texts>>(kind = "none" /\ KernelStep /\ UNCHANGED texts)
=============================================================================
