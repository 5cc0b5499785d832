----------------------------- MODULE MCFreezer -----------------------------
EXTENDS Freezer, TLC

CONSTANTS headers, bodies, light, heavy

MCTable == {headers, bodies}
MCPayload == {light, heavy}
MCSize == headers :> (light :> 1 @@ heavy :> 1) @@ bodies :> (light :> 1 @@ heavy :> 2)
=============================================================================
