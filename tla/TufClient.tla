------------------------------ MODULE TufClient ------------------------------
(***************************************************************************)
(* The trust engine of Tuf.tla composed with an honest repository and an  *)
(* unreliable channel.  The repository publishes releases 1..MaxVersion;  *)
(* release v is a timestamp v describing snapshot v, a snapshot v listing *)
(* targets v, and targets v, all signed with the keys the trusted root    *)
(* assigns to their roles and valid until MaxTime.  The caller of the     *)
(* engine hands it any document of any release published so far: fetches *)
(* may be lost, repeated, reordered or replayed from an older release.    *)
(* The root is not rotated and no delegations are used here.              *)
(***************************************************************************)
EXTENDS Tuf

VARIABLES
    release,    \* the newest release the repository has published
    highest     \* history: the newest targets version the client has trusted

clientVars == <<vars, release, highest>>

\* The repository signs each document with exactly the keys its role lists,
\* and that key set is one of the signer sets documents may carry.
ASSUME RepoSignersAssumption == \A d \in RoleDefs : d.keyids \in SignerSets

\* The documents of release v, as the repository signs them.
RepoTimestamp(v) ==
    [version |-> v, expires |-> MaxTime, snapshot |-> v,
     sigs |-> root.roles["timestamp"].keyids]

RepoSnapshot(v) ==
    [version |-> v, expires |-> MaxTime,
     meta |-> [p \in MetaPaths |-> IF p = TargetsPath THEN v ELSE Absent],
     sigs |-> root.roles["snapshot"].keyids]

RepoTargets(v) ==
    [version |-> v, expires |-> MaxTime, delegations |-> NoDelegations,
     sigs |-> root.roles["targets"].keyids]

\* Every step keeps the history variable up to date.
RecordHighest ==
    highest' = IF current_targets_version' > highest
               THEN current_targets_version' ELSE highest

\* The client starts from a trusted root that stays valid for the whole run.
ClientInit ==
    /\ Init
    /\ root.expires = MaxTime
    /\ now < MaxTime
    /\ release = 1
    /\ highest = 0

Publish ==
    /\ release < MaxVersion
    /\ release' = release + 1
    /\ UNCHANGED <<vars, highest>>

\* The caller hands the engine a document of a published release v.
FetchTimestamp(v) ==
    /\ update_timestamp(RepoTimestamp(v))
    /\ RecordHighest
    /\ UNCHANGED release

FetchSnapshot(v) ==
    /\ update_snapshot(RepoSnapshot(v))
    /\ RecordHighest
    /\ UNCHANGED release

FetchTargets(v) ==
    /\ update_targets(RepoTargets(v))
    /\ RecordHighest
    /\ UNCHANGED release

\* The clock moves, but not past the repository's expiry.
Tick ==
    /\ ClockChange
    /\ now' < MaxTime
    /\ UNCHANGED <<release, highest>>

ClientNext ==
    \/ Publish
    \/ \E v \in 1..release :
          FetchTimestamp(v) \/ FetchSnapshot(v) \/ FetchTargets(v)
    \/ Tick

\* The caller's update loop keeps fetching the repository's newest
\* documents: each of those fetches is weakly fair.
ClientFairness ==
    /\ WF_clientVars(FetchTimestamp(release))
    /\ WF_clientVars(FetchSnapshot(release))
    /\ WF_clientVars(FetchTargets(release))

ClientSpec == ClientInit /\ [][ClientNext]_clientVars /\ ClientFairness

-----------------------------------------------------------------------------
(***************************************************************************)
(* Against an honest repository, whatever documents the channel replays,  *)
(* every document the engine holds is one the repository published, the  *)
(* snapshot is the one the trusted timestamp describes, and the versions  *)
(* are ordered: the trusted targets are no newer than the newest ever     *)
(* trusted, which is no newer than the trusted timestamp (update_timestamp *)
(* only moves forward, and update_snapshot and update_targets only accept *)
(* what the timestamp describes).                                         *)
(***************************************************************************)
ClientView ==
    /\ release \in 1..MaxVersion
    /\ highest \in Nat
    /\ timestamp = NoDoc \/ \E v \in 1..release : timestamp = RepoTimestamp(v)
    /\ snapshot # NoDoc =>
          timestamp # NoDoc /\ snapshot = RepoSnapshot(timestamp.version)
    /\ targets = NoDoc \/ \E v \in 1..release : targets = RepoTargets(v)
    /\ current_targets_version <= highest
    /\ highest <= current_timestamp_version

Release == INSTANCE TufRelease
    WITH MaxRelease <- MaxVersion,
         published <- release,
         trusted <- current_targets_version,
         highest <- highest

(***************************************************************************)
(* Against an honest repository whose documents may be replayed,         *)
(* reordered or lost, the engine implements TufRelease: it trusts only    *)
(* targets of published releases and never goes back to a release older  *)
(* than one it trusted (the rollback checks of update_timestamp,          *)
(* update_snapshot and update_targets).                                   *)
(***************************************************************************)
ImplementsRelease == Release!Spec

(***************************************************************************)
(* Under the fetch loop's fairness, the client ends up trusting the       *)
(* targets of the repository's newest release (update_timestamp,         *)
(* update_snapshot and update_targets advance one after the other).       *)
(***************************************************************************)
EventuallyCurrent ==
    <>[](targets # NoDoc /\ targets.version = release)

=============================================================================
