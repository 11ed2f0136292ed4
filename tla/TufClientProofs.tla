--------------------------- MODULE TufClientProofs ---------------------------
(***************************************************************************)
(* Proofs about the engine composed with an honest repository and a       *)
(* replaying channel (TufClient.tla): the client's view invariant, and    *)
(* that the composition implements the abstract release model TufRelease. *)
(***************************************************************************)
EXTENDS TufClient, TufProofs

-----------------------------------------------------------------------------
(* The repository's documents.                                             *)

LEMMA RepoFields ==
    ASSUME NEW v
    PROVE  /\ RepoTimestamp(v).version = v
           /\ RepoTimestamp(v).snapshot = v
           /\ RepoSnapshot(v).version = v
           /\ RepoSnapshot(v).meta[TargetsPath] = v
           /\ RepoTargets(v).version = v
BY DEF RepoTimestamp, RepoSnapshot, RepoTargets, MetaPaths

\* A document the repository publishes is a document of the engine's type,
\* and so never the empty slot.
LEMMA RepoDocsPresent ==
    ASSUME root \in RootDocs, NEW v \in Versions
    PROVE  /\ RepoTimestamp(v) \in TimestampDocs
           /\ RepoSnapshot(v) \in SnapshotDocs
           /\ RepoTargets(v) \in TargetsDocs
           /\ RepoTimestamp(v) # NoDoc
           /\ RepoSnapshot(v) # NoDoc
           /\ RepoTargets(v) # NoDoc
<1>1. /\ root.roles["timestamp"].keyids \in SignerSets
      /\ root.roles["snapshot"].keyids \in SignerSets
      /\ root.roles["targets"].keyids \in SignerSets
    BY RootRolesAssumption, RepoSignersAssumption DEF RootDocs, TopRoles
<1>2. MaxTime \in Expiries
    BY TimeAssumption DEF Expiries
<1>3. RepoTimestamp(v) \in TimestampDocs
    BY <1>1, <1>2 DEF RepoTimestamp, TimestampDocs
<1>4. RepoSnapshot(v) \in SnapshotDocs
    BY <1>1, <1>2 DEF RepoSnapshot, SnapshotDocs, Versions, Absent
<1>5. RepoTargets(v) \in TargetsDocs
    BY <1>1, <1>2 DEF RepoTargets, TargetsDocs, DelegationsSections
<1>6. QED
    BY <1>3, <1>4, <1>5, NoDocAssumption

-----------------------------------------------------------------------------
(* The client's view is inductive, together with the type of the root,    *)
(* which no client step changes.                                           *)

CInv == root \in RootDocs /\ ClientView

LEMMA ClientInitCInv == ClientInit => CInv
<1> SUFFICES ASSUME ClientInit PROVE CInv
    OBVIOUS
<1>1. root \in RootDocs
    BY DEF ClientInit, Init, from_trusted_root, from_root_with_trusted_keys
<1>2. /\ timestamp = NoDoc /\ snapshot = NoDoc /\ targets = NoDoc
      /\ release = 1 /\ highest = 0
    BY DEF ClientInit, Init, from_trusted_root, from_root_with_trusted_keys
<1>3. QED
    BY <1>1, <1>2, VersionAssumption
    DEF CInv, ClientView, current_targets_version, current_timestamp_version

\* Under CInv the versions the engine compares are natural numbers.
LEMMA CInvVersions ==
    ASSUME CInv
    PROVE  /\ release \in Versions
           /\ current_timestamp_version \in Nat
           /\ current_targets_version \in Nat
           /\ timestamp # NoDoc => timestamp = RepoTimestamp(timestamp.version)
           /\ targets # NoDoc => targets = RepoTargets(targets.version)
<1>1. release \in Versions
    BY DEF CInv, ClientView, Versions
<1>2. timestamp # NoDoc =>
        /\ timestamp.version \in 1..release
        /\ timestamp = RepoTimestamp(timestamp.version)
    BY RepoFields DEF CInv, ClientView
<1>3. targets # NoDoc =>
        /\ targets.version \in 1..release
        /\ targets = RepoTargets(targets.version)
    BY RepoFields DEF CInv, ClientView
<1>4. QED
    BY <1>1, <1>2, <1>3, VersionAssumption
    DEF current_timestamp_version, current_targets_version, Versions

\* The repository's documents depend on the root alone.
LEMMA RepoDocsPrimed ==
    ASSUME root' = root
    PROVE  \A v : /\ RepoTimestamp(v)' = RepoTimestamp(v)
                  /\ RepoSnapshot(v)' = RepoSnapshot(v)
                  /\ RepoTargets(v)' = RepoTargets(v)
BY DEF RepoTimestamp, RepoSnapshot, RepoTargets

\* update_timestamp never touches the targets, so the history stays put.
LEMMA FetchTimestampFrame ==
    ASSUME CInv, NEW v \in 1..release, FetchTimestamp(v)
    PROVE  /\ root' = root /\ release' = release /\ targets' = targets
           /\ highest' = highest
<1>1. root' = root /\ release' = release /\ targets' = targets
    BY DEF FetchTimestamp, update_timestamp, engine
<1>2. QED
    BY <1>1, CInvVersions
    DEF FetchTimestamp, RecordHighest, current_targets_version, CInv, ClientView

\* update_snapshot keeps the targets or clears them; neither raises the
\* history.
LEMMA FetchSnapshotFrame ==
    ASSUME CInv, NEW v \in 1..release, FetchSnapshot(v)
    PROVE  /\ root' = root /\ release' = release /\ timestamp' = timestamp
           /\ targets' \in {targets, NoDoc}
           /\ current_targets_version' <= current_targets_version
           /\ current_targets_version' \in Nat
           /\ highest' = highest
<1>1. root' = root /\ release' = release /\ timestamp' = timestamp
    BY DEF FetchSnapshot, update_snapshot, engine
<1>2. targets' \in {targets, NoDoc}
    BY DEF FetchSnapshot, update_snapshot, engine, targets_after_snapshot
<1>3. /\ current_targets_version' <= current_targets_version
      /\ current_targets_version' \in Nat
    BY <1>2, CInvVersions DEF current_targets_version
<1>4. QED
    BY <1>1, <1>2, <1>3, CInvVersions
    DEF FetchSnapshot, RecordHighest, CInv, ClientView

\* update_targets either leaves the targets and the history alone, or
\* installs release v's targets where v is the trusted timestamp's release,
\* no older than the newest targets trusted before; v becomes the history.
LEMMA FetchTargetsEffect ==
    ASSUME CInv, NEW v \in 1..release, FetchTargets(v)
    PROVE  /\ root' = root /\ release' = release /\ timestamp' = timestamp
           /\ snapshot' = snapshot
           /\ \/ targets' = targets /\ highest' = highest
              \/ /\ targets' = RepoTargets(v)
                 /\ v = current_timestamp_version
                 /\ current_targets_version' = v
                 /\ highest' = v
<1> DEFINE t == RepoTargets(v)
<1>1. /\ root' = root /\ release' = release /\ timestamp' = timestamp
      /\ snapshot' = snapshot
    BY DEF FetchTargets, update_targets, engine
<1>2. v \in Versions /\ t # NoDoc
    <2>1. v \in Versions
        BY CInvVersions, VersionAssumption DEF Versions
    <2>2. QED
        BY <2>1, RepoDocsPresent DEF CInv
<1>3. CASE TargetsVerdict(t) = "Advanced"
    <2>1. targets' = t
        BY <1>3 DEF FetchTargets, update_targets
    <2>2. snapshot # NoDoc /\ t.version = snapshot.meta[TargetsPath]
        BY <1>3, TargetsAdvanced
    <2>3. timestamp # NoDoc /\ snapshot = RepoSnapshot(timestamp.version)
        BY <2>2 DEF CInv, ClientView
    <2>4. v = current_timestamp_version
        BY <2>2, <2>3, RepoFields DEF current_timestamp_version
    <2>5. current_targets_version' = v
        BY <1>2, <2>1, RepoFields DEF current_targets_version
    <2>6. highest' = v
        BY <1>2, <2>4, <2>5, CInvVersions
        DEF FetchTargets, RecordHighest, CInv, ClientView, Versions
    <2>7. QED
        BY <1>1, <2>1, <2>4, <2>5, <2>6
<1>4. CASE TargetsVerdict(t) # "Advanced"
    <2>1. UNCHANGED engine
        BY <1>4 DEF FetchTargets, update_targets
    <2>2. highest' = highest
        BY <2>1, CInvVersions
        DEF FetchTargets, RecordHighest, engine, current_targets_version,
            CInv, ClientView
    <2>3. QED
        BY <1>1, <2>1, <2>2 DEF engine
<1>5. QED
    BY <1>3, <1>4

\* update_timestamp leaves the view consistent: an accepted timestamp is
\* newer than the highest targets version trusted, and the snapshot it no
\* longer describes is cleared.
LEMMA FetchTimestampCInv ==
    ASSUME CInv, NEW v \in 1..release, FetchTimestamp(v)
    PROVE  CInv'
<1> DEFINE t == RepoTimestamp(v)
<1>1. root' = root /\ release' = release /\ targets' = targets
      /\ highest' = highest
    BY FetchTimestampFrame
<1>2. v \in Versions /\ t \in TimestampDocs /\ t # NoDoc
    <2>1. v \in Versions
        BY CInvVersions, VersionAssumption DEF Versions
    <2>2. QED
        BY <2>1, RepoDocsPresent DEF CInv
<1>3. CASE TimestampVerdict(t) = "Advanced"
    <2>1. timestamp' = t /\ snapshot' = snapshot_after_timestamp(t)
        BY <1>3 DEF FetchTimestamp, update_timestamp
    <2>2. v > current_timestamp_version
        BY <1>2, <1>3, TimestampVerdictVersion, RepoFields, CInvVersions
        DEF Versions
    <2>3. current_timestamp_version' = v
        BY <1>2, <2>1, RepoFields DEF current_timestamp_version
    <2>4. snapshot' # NoDoc =>
            timestamp' # NoDoc /\ snapshot' = RepoSnapshot(timestamp'.version)
        BY <1>2, <2>1, RepoFields
        DEF snapshot_after_timestamp, current_snapshot_version, CInv, ClientView
    <2>5. QED
        BY <1>1, <1>2, <2>1, <2>2, <2>3, <2>4, RepoDocsPrimed,
           CInvVersions
        DEF CInv, ClientView, current_targets_version
<1>4. CASE TimestampVerdict(t) # "Advanced"
    <2>1. UNCHANGED engine
        BY <1>4 DEF FetchTimestamp, update_timestamp
    <2>2. QED
        BY <1>1, <2>1, RepoDocsPrimed
        DEF CInv, ClientView, engine, current_targets_version,
            current_timestamp_version
<1>5. QED
    BY <1>3, <1>4

\* update_snapshot leaves the view consistent: it accepts only the snapshot
\* the trusted timestamp describes, and keeps or clears the targets.
LEMMA FetchSnapshotCInv ==
    ASSUME CInv, NEW v \in 1..release, FetchSnapshot(v)
    PROVE  CInv'
<1> DEFINE s == RepoSnapshot(v)
<1>1. /\ root' = root /\ release' = release /\ timestamp' = timestamp
      /\ targets' \in {targets, NoDoc}
      /\ current_targets_version' <= current_targets_version
      /\ current_targets_version' \in Nat
      /\ highest' = highest
    BY FetchSnapshotFrame
<1>2. CASE SnapshotVerdict(s) = "Advanced"
    <2>1. snapshot' = s
        BY <1>2 DEF FetchSnapshot, update_snapshot
    <2>2. timestamp # NoDoc /\ s.version = timestamp.snapshot
        BY <1>2, SnapshotAdvanced
    <2>3. v = timestamp.version
        BY <2>2, RepoFields, CInvVersions
    <2>4. (snapshot # NoDoc =>
             timestamp # NoDoc /\ snapshot = RepoSnapshot(timestamp.version))'
        BY <1>1, <2>1, <2>2, <2>3, RepoDocsPrimed
    <2>5. (targets = NoDoc \/ \E w \in 1..release : targets = RepoTargets(w))'
        BY <1>1, RepoDocsPrimed DEF CInv, ClientView
    <2>6. (timestamp = NoDoc \/
           \E w \in 1..release : timestamp = RepoTimestamp(w))'
        BY <1>1, RepoDocsPrimed DEF CInv, ClientView
    <2>7. (current_targets_version <= highest
           /\ highest <= current_timestamp_version)'
        BY <1>1, CInvVersions DEF CInv, ClientView, current_timestamp_version
    <2>8. QED
        BY <1>1, <2>4, <2>5, <2>6, <2>7 DEF CInv, ClientView
<1>3. CASE SnapshotVerdict(s) # "Advanced"
    <2>1. UNCHANGED engine
        BY <1>3 DEF FetchSnapshot, update_snapshot
    <2>2. QED
        BY <1>1, <2>1, RepoDocsPrimed
        DEF CInv, ClientView, engine, current_targets_version,
            current_timestamp_version
<1>4. QED
    BY <1>2, <1>3

\* update_targets leaves the view consistent.
LEMMA FetchTargetsCInv ==
    ASSUME CInv, NEW v \in 1..release, FetchTargets(v)
    PROVE  CInv'
<1>1. /\ root' = root /\ release' = release /\ timestamp' = timestamp
      /\ snapshot' = snapshot
    BY FetchTargetsEffect
<1>2. v \in 1..release /\ highest \in Nat
    BY DEF CInv, ClientView
<1>3. CASE targets' = targets /\ highest' = highest
    BY <1>1, <1>3, RepoDocsPrimed
    DEF CInv, ClientView, current_targets_version, current_timestamp_version
<1>4. CASE /\ targets' = RepoTargets(v)
           /\ v = current_timestamp_version
           /\ current_targets_version' = v
           /\ highest' = v
    BY <1>1, <1>2, <1>4, RepoDocsPrimed
    DEF CInv, ClientView, current_timestamp_version
<1>5. QED
    BY <1>3, <1>4, FetchTargetsEffect
LEMMA PublishCInv ==
    ASSUME CInv, Publish
    PROVE  CInv'
<1>1. root' = root /\ release' = release + 1 /\ release' \in 1..MaxVersion
    <2>1. root' = root /\ release' = release + 1 /\ release < MaxVersion
        BY DEF Publish, vars
    <2>2. QED
        BY <2>1, CInvVersions, VersionAssumption DEF Versions
<1>2. 1..release \subseteq 1..release'
    BY <1>1, CInvVersions DEF Versions
<1>3. QED
    BY <1>1, <1>2, RepoDocsPrimed
    DEF Publish, vars, CInv, ClientView, current_targets_version,
        current_timestamp_version

LEMMA TickCInv ==
    ASSUME CInv, Tick
    PROVE  CInv'
BY RepoDocsPrimed
DEF Tick, ClockChange, CInv, ClientView, current_targets_version,
    current_timestamp_version

LEMMA ClientNextCInv == CInv /\ [ClientNext]_clientVars => CInv'
<1> SUFFICES ASSUME CInv, [ClientNext]_clientVars PROVE CInv'
    OBVIOUS
<1>1. CASE Publish
    BY <1>1, PublishCInv
<1>2. ASSUME NEW v \in 1..release, FetchTimestamp(v) PROVE CInv'
    BY <1>2, FetchTimestampCInv
<1>3. ASSUME NEW v \in 1..release, FetchSnapshot(v) PROVE CInv'
    BY <1>3, FetchSnapshotCInv
<1>4. ASSUME NEW v \in 1..release, FetchTargets(v) PROVE CInv'
    BY <1>4, FetchTargetsCInv
<1>5. CASE Tick
    BY <1>5, TickCInv
<1>6. CASE UNCHANGED clientVars
    BY <1>6, RepoDocsPrimed
    DEF clientVars, vars, CInv, ClientView, current_targets_version,
        current_timestamp_version
<1>7. QED
    BY <1>1, <1>2, <1>3, <1>4, <1>5, <1>6 DEF ClientNext

\* Whatever the channel replays, the engine composed with an honest
\* repository only holds published documents, its snapshot is the one its
\* timestamp describes, and the targets it trusts are no newer than the
\* newest ever trusted, which is no newer than its timestamp
\* (update_timestamp, update_snapshot, update_targets).
THEOREM ClientViewInvariant == ClientSpec => []ClientView
<1>1. ClientSpec => []CInv
    BY ClientInitCInv, ClientNextCInv, PTL DEF ClientSpec
<1>2. QED
    BY <1>1, PTL DEF CInv

-----------------------------------------------------------------------------
(* Refinement: under the mapping of TufClient, the initial state is an    *)
(* initial state of TufRelease and every step is a TufRelease step or a  *)
(* stutter.                                                                *)

LEMMA InitRefines == ClientInit => Release!Init
BY DEF ClientInit, Init, from_trusted_root, from_root_with_trusted_keys,
       Release!Init, current_targets_version

\* A step that leaves the release, the targets and the history alone is a
\* stutter of TufRelease.
LEMMA StutterRefines ==
    ASSUME release' = release, targets' = targets, highest' = highest
    PROVE  [Release!Next]_Release!relVars
BY DEF Release!relVars, current_targets_version

\* A step that drops the targets and keeps the release and the history is
\* TufRelease's Drop.
LEMMA DropRefines ==
    ASSUME release' = release, targets' = NoDoc, highest' = highest
    PROVE  [Release!Next]_Release!relVars
<1>1. Release!Drop
    BY DEF Release!Drop, current_targets_version
<1>2. QED
    BY <1>1 DEF Release!Next

LEMMA ClientStepRefines ==
    CInv /\ [ClientNext]_clientVars => [Release!Next]_Release!relVars
<1> SUFFICES ASSUME CInv, [ClientNext]_clientVars
             PROVE  [Release!Next]_Release!relVars
    OBVIOUS
<1>1. CASE Publish
    <2>1. Release!Publish
        BY <1>1 DEF Publish, Release!Publish, vars, current_targets_version
    <2>2. QED
        BY <2>1 DEF Release!Next
<1>2. ASSUME NEW v \in 1..release, FetchTimestamp(v)
      PROVE  [Release!Next]_Release!relVars
    BY <1>2, FetchTimestampFrame, StutterRefines
<1>3. ASSUME NEW v \in 1..release, FetchSnapshot(v)
      PROVE  [Release!Next]_Release!relVars
    BY <1>3, FetchSnapshotFrame, StutterRefines, DropRefines
<1>4. ASSUME NEW v \in 1..release, FetchTargets(v)
      PROVE  [Release!Next]_Release!relVars
    <2>1. CASE targets' = targets /\ highest' = highest
        BY <1>4, <2>1, FetchTargetsEffect, StutterRefines
    <2>2. CASE /\ targets' = RepoTargets(v)
               /\ v = current_timestamp_version
               /\ current_targets_version' = v
               /\ highest' = v
        <3>1. release' = release /\ v \in 1..MaxVersion /\ v >= highest
            <4>1. release' = release
                BY <1>4, FetchTargetsEffect
            <4>2. v \in 1..MaxVersion
                BY CInvVersions, VersionAssumption DEF Versions
            <4>3. v >= highest
                BY <2>2 DEF CInv, ClientView
            <4>4. QED
                BY <4>1, <4>2, <4>3
        <3>2. Release!Adopt(v)
            BY <1>4, <2>2, <3>1 DEF Release!Adopt
        <3>3. QED
            BY <3>1, <3>2 DEF Release!Next
    <2>3. QED
        BY <1>4, <2>1, <2>2, FetchTargetsEffect
<1>5. CASE Tick
    BY <1>5, StutterRefines DEF Tick, ClockChange
<1>6. CASE UNCHANGED clientVars
    BY <1>6, StutterRefines DEF clientVars, vars
<1>7. QED
    BY <1>1, <1>2, <1>3, <1>4, <1>5, <1>6 DEF ClientNext

\* The engine, fed any published document in any order, implements the
\* abstract release model: it trusts only targets of published releases and
\* never goes back to a release older than one it trusted (the rollback
\* checks of update_timestamp, update_snapshot and update_targets).
THEOREM ClientImplementsRelease == ClientSpec => ImplementsRelease
<1>1. ClientSpec => []CInv
    BY ClientInitCInv, ClientNextCInv, PTL DEF ClientSpec
<1>2. QED
    BY <1>1, InitRefines, ClientStepRefines, PTL
    DEF ClientSpec, ImplementsRelease, Release!Spec


-----------------------------------------------------------------------------
(* No rollback against an honest repository.  TufProofs shows the engine  *)
(* alone does roll back when the channel delivers a newer timestamp that  *)
(* describes an older snapshot; an honest repository never signs one, and *)
(* then neither the snapshot nor the targets go back.                     *)

RP == INSTANCE TufReleaseProofs
    WITH MaxRelease <- MaxVersion,
         published <- release,
         trusted <- current_targets_version,
         highest <- highest

\* update_timestamp only installs a newer timestamp.
LEMMA FetchTimestampVersion ==
    ASSUME CInv, NEW v \in 1..release, FetchTimestamp(v)
    PROVE  /\ current_timestamp_version' \in Nat
           /\ current_timestamp_version' >= current_timestamp_version
<1> DEFINE t == RepoTimestamp(v)
<1>1. v \in Versions /\ t # NoDoc
    <2>1. v \in Versions
        BY CInvVersions, VersionAssumption DEF Versions
    <2>2. QED
        BY <2>1, RepoDocsPresent DEF CInv
<1>2. current_timestamp_version \in Nat
    BY CInvVersions
<1>3. CASE TimestampVerdict(t) = "Advanced"
    <3>1. timestamp' = t
        BY <1>3 DEF FetchTimestamp, update_timestamp
    <3>2. v > current_timestamp_version
        BY <1>1, <1>2, <1>3, TimestampVerdictVersion, RepoFields DEF Versions
    <3>3. current_timestamp_version' = v
        BY <1>1, <3>1, RepoFields DEF current_timestamp_version
    <3>4. QED
        BY <1>1, <1>2, <3>2, <3>3 DEF Versions
<1>4. CASE TimestampVerdict(t) # "Advanced"
    <3>1. timestamp' = timestamp
        BY <1>4 DEF FetchTimestamp, update_timestamp, engine
    <3>2. QED
        BY <1>2, <3>1 DEF current_timestamp_version
<1>5. QED
    BY <1>3, <1>4

\* Once the trusted timestamp has reached version w it stays there or above.
LEMMA TimestampVersionStable ==
    ASSUME NEW w \in Nat
    PROVE  CInv /\ current_timestamp_version >= w /\ [ClientNext]_clientVars
             => (current_timestamp_version >= w)'
<1> SUFFICES ASSUME CInv, current_timestamp_version >= w,
                    [ClientNext]_clientVars
             PROVE  current_timestamp_version' >= w
    OBVIOUS
<1>1. current_timestamp_version \in Nat
    BY CInvVersions
<1>2. CASE timestamp' = timestamp
    BY <1>2 DEF current_timestamp_version
<1>3. ASSUME NEW v \in 1..release, FetchTimestamp(v)
      PROVE  current_timestamp_version' >= w
    <2>1. /\ current_timestamp_version' \in Nat
          /\ current_timestamp_version' >= current_timestamp_version
        BY <1>3, FetchTimestampVersion
    <2>2. QED
        BY <1>1, <2>1
<1>4. ASSUME NEW v \in 1..release, FetchSnapshot(v)
      PROVE  timestamp' = timestamp
    BY <1>4, FetchSnapshotFrame
<1>5. ASSUME NEW v \in 1..release, FetchTargets(v)
      PROVE  timestamp' = timestamp
    BY <1>5, FetchTargetsEffect
<1>6. Publish \/ Tick \/ UNCHANGED clientVars => timestamp' = timestamp
    BY DEF Publish, Tick, ClockChange, clientVars, vars
<1>7. QED
    BY <1>2, <1>3, <1>4, <1>5, <1>6 DEF ClientNext

\* Rollback protection for the snapshot (update_timestamp's version check,
\* and update_snapshot accepting only what the timestamp describes): once
\* the engine has trusted snapshot v, any snapshot it trusts later under the
\* same root has version v or above.
THEOREM ClientSnapshotNoRollback == ClientSpec => SnapshotNoRollback
<1>1. ClientSpec => []CInv
    BY ClientInitCInv, ClientNextCInv, PTL DEF ClientSpec
<1>2. ASSUME NEW e \in Versions, NEW v \in Versions
      PROVE  ClientSpec =>
               [](root.version = e /\ snapshot # NoDoc /\ snapshot.version = v
                   => [](root.version = e /\ snapshot # NoDoc =>
                           snapshot.version >= v))
    <2>1. CInv => (snapshot # NoDoc =>
                     snapshot.version = current_timestamp_version)
        BY RepoFields DEF CInv, ClientView, current_timestamp_version
    <2>2. CInv /\ snapshot # NoDoc /\ snapshot.version = v
            => current_timestamp_version >= v
        BY <2>1, CInvVersions DEF Versions
    <2>3. CInv /\ current_timestamp_version >= v /\ [ClientNext]_clientVars
            => (current_timestamp_version >= v)'
        BY TimestampVersionStable DEF Versions
    <2>4. CInv /\ current_timestamp_version >= v
            => (snapshot # NoDoc => snapshot.version >= v)
        BY <2>1
    <2>5. QED
        BY <1>1, <2>2, <2>3, <2>4, PTL DEF ClientSpec
<1>3. QED
    BY <1>2 DEF SnapshotNoRollback

\* Rollback protection for the targets, carried over from the abstract
\* release model through the refinement: once the engine has trusted
\* targets v, any targets it trusts later under the same root have version
\* v or above (update_targets' version check against the snapshot's entry).
THEOREM ClientTargetsNoRollback == ClientSpec => TargetsNoRollback
<1>1. ClientSpec => []CInv
    BY ClientInitCInv, ClientNextCInv, PTL DEF ClientSpec
<1>2. ClientSpec => RP!NoRollback
    <2>1. ClientSpec => RP!Spec
        BY ClientImplementsRelease
        DEF ImplementsRelease, Release!Spec, RP!Spec, Release!Init, RP!Init,
            Release!Next, RP!Next, Release!relVars, RP!relVars,
            Release!Publish, RP!Publish, Release!Adopt, RP!Adopt,
            Release!Drop, RP!Drop
    <2>2. QED
        BY <2>1, RP!ReleaseNoRollback
<1>3. ASSUME NEW e \in Versions, NEW v \in Versions
      PROVE  ClientSpec =>
               [](root.version = e /\ targets # NoDoc /\ targets.version = v
                   => [](root.version = e /\ targets # NoDoc =>
                           targets.version >= v))
    <2>1. ClientSpec =>
            [](current_targets_version = v =>
                 [](current_targets_version # 0 =>
                      current_targets_version >= v))
        BY <1>2 DEF RP!NoRollback, Versions
    <2>2. targets # NoDoc /\ targets.version = v => current_targets_version = v
        BY DEF current_targets_version
    <2>3. CInv /\ (current_targets_version # 0 => current_targets_version >= v)
            => (targets # NoDoc => targets.version >= v)
        BY RepoFields DEF CInv, ClientView, current_targets_version
    <2>4. QED
        BY <1>1, <2>1, <2>2, <2>3, PTL
<1>4. QED
    BY <1>3 DEF TargetsNoRollback


-----------------------------------------------------------------------------
(* The composition runs the engine: every client step is a step of Tuf's  *)
(* Next or leaves the engine alone, so every theorem of TufProofs holds   *)
(* for the engine inside the client too.                                  *)

\* Each client action calls one engine handler on a document of the
\* engine's type (RepoDocsPresent), or moves the clock, or only publishes.
LEMMA ClientStepIsEngineStep == CInv /\ [ClientNext]_clientVars => [Next]_vars
<1> SUFFICES ASSUME CInv, [ClientNext]_clientVars PROVE [Next]_vars
    OBVIOUS
<1>1. ASSUME NEW v \in 1..release PROVE v \in Versions
    BY CInvVersions, VersionAssumption DEF Versions
<1>2. ASSUME NEW v \in 1..release, FetchTimestamp(v) PROVE [Next]_vars
    <2>1. RepoTimestamp(v) \in TimestampDocs
        BY <1>1, RepoDocsPresent DEF CInv
    <2>2. QED
        BY <1>2, <2>1 DEF FetchTimestamp, Next
<1>3. ASSUME NEW v \in 1..release, FetchSnapshot(v) PROVE [Next]_vars
    <2>1. RepoSnapshot(v) \in SnapshotDocs
        BY <1>1, RepoDocsPresent DEF CInv
    <2>2. QED
        BY <1>3, <2>1 DEF FetchSnapshot, Next
<1>4. ASSUME NEW v \in 1..release, FetchTargets(v) PROVE [Next]_vars
    <2>1. RepoTargets(v) \in TargetsDocs
        BY <1>1, RepoDocsPresent DEF CInv
    <2>2. QED
        BY <1>4, <2>1 DEF FetchTargets, Next
<1>5. CASE Tick
    BY <1>5 DEF Tick, Next
<1>6. CASE Publish \/ UNCHANGED clientVars
    BY <1>6 DEF Publish, clientVars
<1>7. QED
    BY <1>2, <1>3, <1>4, <1>5, <1>6 DEF ClientNext

\* Whatever documents the channel delivers in whatever order, the engine
\* inside the client takes only steps its own handlers allow.
THEOREM ClientRunsEngine == ClientSpec => Spec
<1>1. ClientSpec => []CInv
    BY ClientInitCInv, ClientNextCInv, PTL DEF ClientSpec
<1>2. ClientInit => Init
    BY DEF ClientInit
<1>3. QED
    BY <1>1, <1>2, ClientStepIsEngineStep, PTL DEF ClientSpec, Spec

\* So the consistency of the engine's view (snapshot as the timestamp
\* describes, targets as the snapshot lists, every document signed under the
\* current root) holds in the client as well.
THEOREM ClientConsistentView == ClientSpec => []ConsistentView
BY ClientRunsEngine, ConsistentViewInvariant

=============================================================================
