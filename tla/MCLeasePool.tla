---------------------------- MODULE MCLeasePool -----------------------------
(* Instances of LeasePool for TLC. *)
EXTENDS LeasePoolProps, TLC

CONSTANTS a1, a2, p1, p2, w1, w2, b1, b2

OneAccount    == {a1}
TwoAccounts   == {a1, a2}
OnePrincipal  == {p1}
TwoPrincipals == {p1, p2}
OneWorker     == {w1}
TwoWorkers    == {w1, w2}
OneBuilder    == {b1}
TwoBuilders   == {b1, b2}

AllHandlers    == HandlerNames \ {"leaseAuth"}
SerialHandlers == {"createLease", "deleteLease", "updateAccount", "deleteAccount",
                   "leaseAuth"}
ResetHandlers  == {"createLease", "deleteLease", "createAccount",
                   "populateResetQueue", "leaseAuth"}
PolicyHandlers == {"createLease", "updatePrincipalPolicy"}
RemoveHandlers == {"createLease", "deleteAccount"}
LeaseHandlers  == {"createLease", "deleteLease"}

Symmetry == Permutations(Workers) \cup Permutations(Principals)
              \cup Permutations(Accounts) \cup Permutations(Builders)
=============================================================================
