------------------------------ MODULE MCPgCdc ------------------------------
(* Instances of PgCdc for TLC. *)
EXTENDS PgCdc, TLC

CONSTANTS a, b
Tables == Permutations(Stream)

=============================================================================
