-------------------------- MODULE MCRandomxProgram --------------------------
(***************************************************************************)
(* What RandomX compiles, for model checking: programs of four instructions*)
(* over two registers, of which CBRANCH tests two bits above two lower     *)
(* ones; and SuperscalarHash programs for a processor of three registers.  *)
(* Generator and compilers share nothing: a behaviour runs one of them.    *)
(***************************************************************************)
EXTENDS RandomxProgram, Superscalar

VARIABLE part

RandomxVars == <<part, vars, superVars>>

RandomxInit ==
  /\ part \in {"program", "superscalar"}
  /\ Init /\ SuperInit
  /\ part = "superscalar" => tweak = FALSE

RandomxNext ==
  /\ \/ part = "program" /\ Next /\ UNCHANGED superVars
     \/ part = "superscalar" /\ SuperNext /\ UNCHANGED vars
  /\ UNCHANGED part

RandomxSpec ==
  /\ RandomxInit /\ [][RandomxNext]_RandomxVars
  /\ part = "program" => WF_vars(Next)
=============================================================================
