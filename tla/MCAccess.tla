------------------------------ MODULE MCAccess ------------------------------
(* For TLC: the rate limit, with the instance of MCRateLimit, and the calls *)
(* of Cognito, which share no state.  A behaviour is one of one of them, so *)
(* that the state spaces add up instead of multiplying.                     *)
EXTENDS MCRateLimit, Cognito

CONSTANTS alice, k1, k2

MCCall == {k1, k2}

\* The calls may be exchanged as well: with the instances, of which a call of Cognito
\* knows nothing.
MCAccessSymmetry ==
  Permutations(MCRequest) \cup {(i1 :> i2) @@ (i2 :> i1) @@ (k1 :> k2) @@ (k2 :> k1)}

-----------------------------------------------------------------------------
VARIABLE part

AccessInit ==
  /\ part \in {"rate_limit", "cognito"}
  /\ Init
  /\ CognitoInit
  /\ part = "cognito" \/ options = [secret |-> FALSE, rotates |-> FALSE, mfa |-> FALSE, rotation |-> FALSE]

AccessNext ==
  /\ UNCHANGED part
  /\ \/ part = "rate_limit" /\ Next /\ UNCHANGED cognitoVars
     \/ part = "cognito" /\ CognitoNext /\ UNCHANGED vars

AccessSpec == AccessInit /\ [][AccessNext]_<<part, vars, cognitoVars>>
=============================================================================
