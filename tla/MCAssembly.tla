----------------------------- MODULE MCAssembly ----------------------------
(***************************************************************************)
(* Assembly on a small word: every loan with every output of the sell      *)
(* quote, and answers of up to two setup instructions.                     *)
(***************************************************************************)
EXTENDS Assembly

MCAnswers == [setups : 0..2, cleanup : BOOLEAN]

=============================================================================
