---------------------------- MODULE MCFileLease ----------------------------
(* Instances of FileLease for TLC: two connector instances. *)
EXTENDS FileLease, TLC

CONSTANTS a, b

\* Distinct tokens, as processes of one host mint them.
TwoTokens == a :> 1 @@ b :> 2
\* b is a newer build, with a newer document format.
TwoBuilds == a :> 1 @@ b :> 2

\* b's clock runs one tick ahead of a's.
AheadSkew == a :> 0 @@ b :> 1

=============================================================================
