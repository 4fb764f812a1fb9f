------------------------ MODULE MCIdentityLifecycle ------------------------
(* Constants for model checking IdentityLifecycle: an administrator who    *)
(* manages everyone and may revoke, and another identity.                  *)
EXTENDS IdentityLifecycle, TLC

CONSTANTS admin, alice, adminRow, aliceRow

\* The identities of the configuration file: the administrator, or both.
AdminOnly == adminRow :> admin
AdminAndAlice == adminRow :> admin @@ aliceRow :> alice

AdminManagesAll == {admin} \X IDs

Symmetry ==
    Permutations(Handlers) \cup Permutations(Serials)
        \cup Permutations(Rows \ DOMAIN Bootstrap)
=============================================================================
