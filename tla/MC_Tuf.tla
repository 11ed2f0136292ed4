------------------------------- MODULE MC_Tuf -------------------------------
(* A small instance of the trust engine for TLC: two keys, versions 1..2,  *)
(* a clock over 0..2 and one delegated role.                               *)
EXTENDS Tuf

CONSTANTS k1, k2

MCKeys == {k1, k2}

K1 == [keyids |-> {k1}, threshold |-> 1]
K2 == [keyids |-> {k2}, threshold |-> 1]

MCRoleDefs == {K1, K2}

\* All roles under k1, all roles under k2, and a root role on k1 with the
\* other roles on k2.
MCRootRoles ==
    { [x \in TopRoles |-> K1],
      [x \in TopRoles |-> K2],
      [x \in TopRoles |-> IF x = "root" THEN K1 ELSE K2] }

\* Only the first map: a single root key set, no rotation.
MCRootRolesFixed == {[x \in TopRoles |-> K1]}

MCSignerSets == {{k1}, {k2}, {k1, k2}}

\* Single signers only: with a fixed root no document needs two signatures.
MCSingleSigners == {{k1}, {k2}}

MCDelegatedRoles == {"a"}
=============================================================================
