--------------------------- MODULE MCReplayCommands ---------------------------
(***************************************************************************)
(* Two commands on streams of up to three lines: acceptable ones of every  *)
(* length, one too long, and the ways to be refused.                       *)
(***************************************************************************)
EXTENDS ReplayCommands

MCStreams ==
    {[schema |-> TRUE, samples |-> s] :
       s \in {<<>>, <<0>>, <<0, 1>>, <<0, 1, 2>>, <<0, Bad>>, <<1>>}}
      \cup {[schema |-> FALSE, samples |-> <<0, 1>>]}
==============================================================================
