-------------------------- MODULE ControlledStatus --------------------------
(***************************************************************************)
(* The manager as one of its statuses sees it: the status of permutation   *)
(* Watched, told of some of the literals, is the CosyStatus of that        *)
(* permutation.                                                            *)
(***************************************************************************)
EXTENDS SymmetryController

CONSTANT Watched      \* any of the permutations

ASSUME WatchedAssumption == Watched \in Statuses

Status == INSTANCE CosyStatus WITH
    InverseOf   <- Inverses[Watched],
    LookupOrder <- LookupOf(Watched),
    lookupIndex <- lookupIndex[Watched],
    lookupInfos <- lookupInfos[Watched],
    state       <- state[Watched]

\* The manager keeps the protocol of each of its statuses, whichever of them
\* a reducer kept from hearing of a literal and whichever literals the solver
\* cancels without having notified them: each implements CosyStatus!Spec.
StatusKeepsProtocol == Status!Spec

=============================================================================
