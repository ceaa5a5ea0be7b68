------------------------- MODULE MCTwoPhaseLocking -------------------------
(* One resource is only locked exclusively, the other in both ways; one        *)
(* transaction may ask again for the second, the others ask once.              *)
EXTENDS TwoPhaseLocking

CONSTANTS r1, t1

MCModes == [r \in Resource |-> IF r = r1 THEN {"EXCLUSIVE"} ELSE LockType]
MCMaxRequests ==
  [t \in Txn |-> [r \in Resource |-> IF t = t1 /\ r # r1 THEN 2 ELSE 1]]
=============================================================================
