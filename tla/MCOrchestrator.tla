--------------------------- MODULE MCOrchestrator ---------------------------
(* Orchestrator for TLC: two calls, two rules, and one config of each kind   *)
(* the code tells apart.                                                     *)
EXTENDS Orchestrator, TLC

CONSTANTS alice, bob

MCApprover == {alice, bob}
By(who, day) == [approver |-> who, approved_at |-> day]
Cut(low, high, approvals) ==
    [approve_below |-> low, decline_above |-> high, approvals |-> approvals]

Approved == {By(alice, 1), By(bob, 1)}
SignedTwice == {By(alice, 1), By(alice, 2)}

MCConfigs ==
    {Cut(3, 6, Approved),           \* effective
     Cut(5, 8, Approved),           \* effective, laxer
     Cut(3, 6, SignedTwice),        \* one person, two signatures
     Cut(Pending, 6, Approved)}     \* a cutoff still TBD

SomeConfigs == {Cut(3, 6, Approved), Cut(5, 8, Approved), Cut(3, 6, SignedTwice)}
FewConfigs == {Cut(3, 6, Approved), Cut(5, 8, Approved)}

MCRules == <<"decline", "approve">>
NoRules == <<>>

Symmetry == Permutations(Requests)
=============================================================================
