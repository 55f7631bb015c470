------------------------ MODULE MCContractLifecycle ------------------------
(* A small instance of ContractLifecycle for TLC. *)
EXTENDS ContractLifecycle

CONSTANTS u1, q1

Terms(endDate) ==
  {[user |-> u1, endDate |-> endDate, monthlyHours |-> 1,
    cancellationLimit |-> 1, cancellationWindowHours |-> 1]}

EarlyAndLate == Terms(0) \cup Terms(1)

KeepAll ==
  [status |-> Keep, endDate |-> Keep, monthlyHours |-> Keep,
   cancellationLimit |-> Keep, cancellationWindowHours |-> Keep]

Edits == {[KeepAll EXCEPT !.status = "ACTIVE"], [KeepAll EXCEPT !.endDate = 0]}
=============================================================================
