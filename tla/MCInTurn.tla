------------------------------ MODULE MCInTurn ------------------------------
(***************************************************************************)
(* The instance in which the uploads of a name follow one another.         *)
(***************************************************************************)
EXTENDS MCFileServer

(* It is one of those the theorems of FileServerStore speak of.            *)
ASSUME OrderlyAssumption == Orderly

=============================================================================
