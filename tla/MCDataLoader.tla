---------------------------- MODULE MCDataLoader ----------------------------
EXTENDS DataLoader, TLC

CONSTANTS high, low, later

\* A request of high priority and two of the same low one.
MCRequests == {high, low, later}

MCPriority == (high :> 10 @@ low :> 50 @@ later :> 50)
=============================================================================
