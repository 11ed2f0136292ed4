----------------------------- MODULE TufRelease -----------------------------
(***************************************************************************)
(* What a TUF client promises about the targets it trusts, seen from the  *)
(* repository's releases.  The repository publishes releases 1, 2, ...;   *)
(* the client trusts the targets of one published release at a time, or  *)
(* none while it is between two, and never goes back to a release older  *)
(* than one it has trusted before.                                         *)
(***************************************************************************)
EXTENDS Naturals

CONSTANT MaxRelease     \* the last release the repository publishes

VARIABLES
    published,          \* the newest release the repository has published
    trusted,            \* the release whose targets the client trusts, 0 for none
    highest             \* the newest release the client has ever trusted

relVars == <<published, trusted, highest>>

Init ==
    /\ published = 1
    /\ trusted = 0
    /\ highest = 0

Publish ==
    /\ published < MaxRelease
    /\ published' = published + 1
    /\ UNCHANGED <<trusted, highest>>

\* The client comes to trust a published release no older than any it
\* trusted before.
Adopt(v) ==
    /\ v \in 1..published
    /\ v >= highest
    /\ trusted' = v
    /\ highest' = v
    /\ UNCHANGED published

\* The client stops trusting any targets until it has verified new ones.
Drop ==
    /\ trusted' = 0
    /\ UNCHANGED <<published, highest>>

Next ==
    \/ Publish
    \/ \E v \in 1..MaxRelease : Adopt(v)
    \/ Drop

Spec == Init /\ [][Next]_relVars

\* The promise against rollback: once the client trusts release v, whenever
\* it trusts a release again that release is no older than v.
NoRollback ==
    \A v \in 1..MaxRelease :
        [](trusted = v => [](trusted # 0 => trusted >= v))

=============================================================================
