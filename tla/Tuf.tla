-------------------------------- MODULE Tuf ---------------------------------
(***************************************************************************)
(* The trust engine of src/src/tuf.rs: the struct Tuf holding the trusted  *)
(* root, the optional timestamp, snapshot and targets metadata and the map *)
(* of loaded delegated targets metadata, with one action per update_*      *)
(* operation.  Each operation is modelled as the whole handler: a verdict  *)
(* computed by the chain of checks and early returns in code order, then  *)
(* the commit (including the purges it calls) when the verdict is          *)
(* "Advanced".  The verdict is kept in `result`, the value returned to the *)
(* caller.                                                                 *)
(*                                                                         *)
(* Data is abstracted: a signed document is a record of the fields the     *)
(* engine reads plus `sigs`, the set of keys whose signature over the      *)
(* canonical bytes is valid.  Keys are model values.  Expiry is an integer *)
(* compared with the wall clock `now` exactly as the code compares         *)
(* `expires() <= &Utc::now()`.                                             *)
(***************************************************************************)
EXTENDS Naturals, FiniteSets

CONSTANTS
    Keys,             \* the signing keys (model values)
    MaxVersion,       \* documents carry versions 1..MaxVersion
    MaxTime,          \* the clock ranges over 0..MaxTime
    DelegatedRoles,   \* metadata paths of delegated targets roles
    RoleDefs,         \* role definitions {key_ids, threshold} documents may carry
    RootRoles,        \* the role maps a root document may carry
    TrustedKeys,      \* keys given to from_root_with_trusted_keys
    TrustedThreshold, \* threshold given to from_root_with_trusted_keys
    SignerSets,       \* the sets of keys that may have signed a document
    NoDoc,            \* an empty Option slot (None)
    NoDelegations     \* a targets document without a delegations section

TopRoles == {"root", "timestamp", "snapshot", "targets"}

\* MetadataPath::from_role(&Role::Targets)
TargetsPath == "targets"

MetaPaths == {TargetsPath} \cup DelegatedRoles

Versions == 1..MaxVersion
Times == 0..MaxTime
Expiries == 1..MaxTime

\* A snapshot meta entry that is not present (map.get(..) = None).
Absent == 0

ASSUME KeysAssumption == IsFiniteSet(Keys) /\ Keys # {}
ASSUME VersionAssumption == MaxVersion \in Nat \ {0}
ASSUME TimeAssumption == MaxTime \in Nat \ {0}
ASSUME RoleDefsAssumption ==
    RoleDefs \subseteq [keyids : SUBSET Keys, threshold : Nat \ {0}]
ASSUME RootRolesAssumption == RootRoles \subseteq [TopRoles -> RoleDefs]
ASSUME TrustedAssumption ==
    TrustedKeys \subseteq Keys /\ TrustedThreshold \in Nat
ASSUME SignerSetsAssumption == SignerSets \subseteq SUBSET Keys
ASSUME PathsAssumption == TargetsPath \notin DelegatedRoles

-----------------------------------------------------------------------------
(* The documents.  Each is the parsed metadata together with the set of    *)
(* keys that produced a valid signature over it.                           *)

RootDocs ==
    [version : Versions, expires : Expiries, roles : RootRoles, sigs : SignerSets]

TimestampDocs ==
    [version : Versions, expires : Expiries, snapshot : Versions, sigs : SignerSets]

SnapshotDocs ==
    [version : Versions, expires : Expiries,
     meta : [MetaPaths -> {Absent} \cup Versions], sigs : SignerSets]

\* Delegations.roles: for each delegated role, the Delegation naming it
\* (the first one, as find_delegation returns the first match), or NoDoc.
DelegationsSections ==
    {NoDelegations} \cup [DelegatedRoles -> RoleDefs \cup {NoDoc}]

TargetsDocs ==
    [version : Versions, expires : Expiries,
     delegations : DelegationsSections, sigs : SignerSets]

\* None is no document.
ASSUME NoDocAssumption ==
    NoDoc \notin RootDocs \cup TimestampDocs \cup SnapshotDocs \cup TargetsDocs

Results ==
    {"Advanced", "Unchanged", "VerificationFailure", "ExpiredMetadata",
     "MissingMetadata"}

VARIABLES
    root,         \* RootMetadata
    timestamp,    \* Option<TimestampMetadata>
    snapshot,     \* Option<SnapshotMetadata>
    targets,      \* Option<TargetsMetadata>
    delegations,  \* HashMap<MetadataPath, TargetsMetadata>
    now,          \* Utc::now()
    result        \* what the last operation returned

engine == <<root, timestamp, snapshot, targets, delegations>>
vars == <<root, timestamp, snapshot, targets, delegations, now, result>>

-----------------------------------------------------------------------------
(* SignedMetadata::verify(threshold, keys) (metadata.rs): the number of    *)
(* distinct authorized keys with a valid signature reaches the threshold.  *)
Verify(sigs, roledef) == Cardinality(sigs \cap roledef.keyids) >= roledef.threshold

\* `expires() <= &Utc::now()`
Expired(doc) == doc.expires <= now

current_timestamp_version == IF timestamp = NoDoc THEN 0 ELSE timestamp.version
\* Mutant: the version the timestamp describes read in place of the version
\* of the snapshot held.
current_snapshot_version_described ==
    IF timestamp = NoDoc THEN 0 ELSE timestamp.snapshot

current_snapshot_version == IF snapshot = NoDoc THEN 0 ELSE snapshot.version
current_targets_version == IF targets = NoDoc THEN 0 ELSE targets.version
current_delegation_version(role) ==
    IF delegations[role] = NoDoc THEN 0 ELSE delegations[role].version

\* The safe_*_ref gates: "ok" or the error they return.
safe_root_ref == IF Expired(root) THEN "ExpiredMetadata" ELSE "ok"
SafeRef(doc) ==
    IF doc = NoDoc THEN "MissingMetadata"
    ELSE IF Expired(doc) THEN "ExpiredMetadata"
    ELSE "ok"
safe_timestamp_ref == SafeRef(timestamp)
safe_snapshot_ref == SafeRef(snapshot)
safe_targets_ref == SafeRef(targets)

\* Mutant: the timestamp survives a root rotation.
purge_metadata_keeps_timestamp ==
    /\ snapshot' = NoDoc
    /\ targets' = NoDoc
    /\ timestamp' = timestamp
    /\ delegations' = [r \in DelegatedRoles |-> NoDoc]

purge_metadata ==
    /\ snapshot' = NoDoc
    /\ targets' = NoDoc
    /\ timestamp' = NoDoc
    /\ delegations' = [r \in DelegatedRoles |-> NoDoc]

\* Mutant: the purge runs before the new snapshot is installed, so it
\* compares with the versions the previous snapshot listed.
purge_delegations_before_install(s) ==
    [r \in DelegatedRoles |->
        IF snapshot # NoDoc /\ snapshot.meta[r] # Absent
           /\ current_delegation_version(r) > snapshot.meta[r]
        THEN NoDoc ELSE delegations[r]]

\* Drop every loaded delegation whose version exceeds the version the new
\* snapshot `s` lists for it; roles the snapshot does not list are kept.
purge_delegations(s) ==
    [r \in DelegatedRoles |->
        IF s.meta[r] # Absent /\ current_delegation_version(r) > s.meta[r]
        THEN NoDoc ELSE delegations[r]]

\* The role definition `parent` gives to `role`, or NoDoc.
find_delegation(parent, role) ==
    LET p == IF parent = TargetsPath THEN targets ELSE delegations[parent]
    IN  IF p = NoDoc THEN NoDoc
        ELSE IF p.delegations = NoDelegations THEN NoDoc
        ELSE p.delegations[role]

-----------------------------------------------------------------------------
(* Construction.                                                           *)

from_trusted_root(r) ==
    /\ Verify(r.sigs, r.roles["root"])
    /\ root = r
    /\ timestamp = NoDoc
    /\ snapshot = NoDoc
    /\ targets = NoDoc
    /\ delegations = [d \in DelegatedRoles |-> NoDoc]

from_root_with_trusted_keys(r, threshold, keys) ==
    /\ Verify(r.sigs, [keyids |-> keys, threshold |-> threshold])
    /\ from_trusted_root(r)

Init ==
    /\ now \in Times
    /\ result = "Advanced"
    /\ \E r \in RootDocs :
          \/ from_root_with_trusted_keys(r, TrustedThreshold, TrustedKeys)
          \/ from_trusted_root(r)

-----------------------------------------------------------------------------
(* The operations.  <Op>Verdict is the chain of checks of the handler, in  *)
(* the order the code makes them.                                          *)

\* Mutant: the new root is not checked against the outgoing root's keys.
RootVerdict_self_signed(r) ==
    IF r.version = root.version THEN "Unchanged"
    ELSE IF r.version < root.version THEN "VerificationFailure"
    ELSE IF ~Verify(r.sigs, r.roles["root"]) THEN "VerificationFailure"
    ELSE "Advanced"

RootVerdict(r) ==
    IF ~Verify(r.sigs, root.roles["root"]) THEN "VerificationFailure"
    ELSE IF r.version = root.version THEN "Unchanged"
    ELSE IF r.version < root.version THEN "VerificationFailure"
    ELSE IF ~Verify(r.sigs, r.roles["root"]) THEN "VerificationFailure"
    ELSE "Advanced"

update_root(r) ==
    /\ result' = RootVerdict(r)
    /\ \/ /\ result' = "Advanced"
          /\ root' = r
          /\ purge_metadata
       \/ /\ result' # "Advanced"
          /\ UNCHANGED engine
    /\ UNCHANGED now

\* Mutant: the rollback check on the timestamp version left out.
TimestampVerdict_no_rollback(t) ==
    IF ~Verify(t.sigs, root.roles["timestamp"]) THEN "VerificationFailure"
    ELSE IF Expired(t) THEN "ExpiredMetadata"
    ELSE IF t.version = current_timestamp_version THEN "Unchanged"
    ELSE "Advanced"

TimestampVerdict(t) ==
    IF ~Verify(t.sigs, root.roles["timestamp"]) THEN "VerificationFailure"
    ELSE IF Expired(t) THEN "ExpiredMetadata"
    ELSE IF t.version < current_timestamp_version THEN "VerificationFailure"
    ELSE IF t.version = current_timestamp_version THEN "Unchanged"
    ELSE "Advanced"

\* Mutant: the snapshot is kept whatever version the timestamp describes.
snapshot_after_timestamp_kept(t) == snapshot

\* The snapshot slot once timestamp t is installed: cleared when t describes
\* another snapshot version.
snapshot_after_timestamp(t) ==
    IF current_snapshot_version # t.snapshot THEN NoDoc ELSE snapshot

update_timestamp(t) ==
    /\ result' = TimestampVerdict(t)
    /\ \/ /\ result' = "Advanced"
          /\ snapshot' = snapshot_after_timestamp(t)
          /\ timestamp' = t
          /\ UNCHANGED <<root, targets, delegations>>
       \/ /\ result' # "Advanced"
          /\ UNCHANGED engine
    /\ UNCHANGED now

SnapshotVerdict(s) ==
    IF safe_root_ref # "ok" THEN safe_root_ref
    ELSE IF safe_timestamp_ref # "ok" THEN safe_timestamp_ref
    ELSE IF timestamp.snapshot < current_snapshot_version THEN "VerificationFailure"
    ELSE IF timestamp.snapshot = current_snapshot_version THEN "Unchanged"
    ELSE IF ~Verify(s.sigs, root.roles["snapshot"]) THEN "VerificationFailure"
    ELSE IF s.version # timestamp.snapshot THEN "VerificationFailure"
    ELSE "Advanced"

\* Mutant: the targets are kept whatever version the snapshot lists.
targets_after_snapshot_kept(s) == targets

\* The targets slot once snapshot s is installed: cleared when s lists
\* another targets version (an absent entry counts as version 0).
targets_after_snapshot(s) ==
    IF current_targets_version # s.meta[TargetsPath] THEN NoDoc ELSE targets

\* No expiry check on the new snapshot: deliberate in the code.
update_snapshot(s) ==
    /\ result' = SnapshotVerdict(s)
    /\ \/ /\ result' = "Advanced"
          /\ targets' = targets_after_snapshot(s)
          /\ snapshot' = s
          /\ delegations' = purge_delegations(s)
          /\ UNCHANGED <<root, timestamp>>
       \/ /\ result' # "Advanced"
          /\ UNCHANGED engine
    /\ UNCHANGED now

TargetsVerdict(t) ==
    LET desc == snapshot.meta[TargetsPath] IN
    IF safe_root_ref # "ok" THEN safe_root_ref
    ELSE IF safe_snapshot_ref # "ok" THEN safe_snapshot_ref
    ELSE IF desc = Absent THEN "VerificationFailure"
    ELSE IF desc < current_targets_version THEN "VerificationFailure"
    ELSE IF desc = current_targets_version THEN "Unchanged"
    ELSE IF ~Verify(t.sigs, root.roles["targets"]) THEN "VerificationFailure"
    ELSE IF t.version # desc THEN "VerificationFailure"
    ELSE IF Expired(t) THEN "ExpiredMetadata"
    ELSE "Advanced"

update_targets(t) ==
    /\ result' = TargetsVerdict(t)
    /\ \/ /\ result' = "Advanced"
          /\ targets' = t
          /\ UNCHANGED <<root, timestamp, snapshot, delegations>>
       \/ /\ result' # "Advanced"
          /\ UNCHANGED engine
    /\ UNCHANGED now

DelegationVerdict(parent, role, d) ==
    LET desc == snapshot.meta[role]
        def == find_delegation(parent, role)
    IN
    IF safe_root_ref # "ok" THEN safe_root_ref
    ELSE IF safe_snapshot_ref # "ok" THEN safe_snapshot_ref
    ELSE IF safe_targets_ref # "ok" THEN safe_targets_ref
    ELSE IF targets.delegations = NoDelegations THEN "VerificationFailure"
    ELSE IF desc = Absent THEN "VerificationFailure"
    ELSE IF desc < current_delegation_version(role) THEN "VerificationFailure"
    ELSE IF def = NoDoc THEN "VerificationFailure"
    ELSE IF ~Verify(d.sigs, def) THEN "VerificationFailure"
    ELSE IF current_delegation_version(role) = desc THEN "Unchanged"
    ELSE IF d.version # desc THEN "VerificationFailure"
    ELSE IF Expired(d) THEN "ExpiredMetadata"
    ELSE "Advanced"

\* Mutant: the verified document is inserted under parent_role, not role.
update_delegation_under_parent(parent, role, d) ==
    /\ result' = DelegationVerdict(parent, role, d)
    /\ \/ /\ result' = "Advanced"
          /\ delegations' = [x \in DOMAIN delegations \cup {parent} |->
                               IF x = parent THEN d ELSE delegations[x]]
          /\ UNCHANGED <<root, timestamp, snapshot, targets>>
       \/ /\ result' # "Advanced"
          /\ UNCHANGED engine
    /\ UNCHANGED now

update_delegation(parent, role, d) ==
    /\ result' = DelegationVerdict(parent, role, d)
    /\ \/ /\ result' = "Advanced"
          /\ delegations' = [delegations EXCEPT ![role] = d]
          /\ UNCHANGED <<root, timestamp, snapshot, targets>>
       \/ /\ result' # "Advanced"
          /\ UNCHANGED engine
    /\ UNCHANGED now

\* The wall clock read by the expiry checks; Utc::now() is not monotonic.
ClockChange ==
    /\ now' \in Times \ {now}
    /\ UNCHANGED <<root, timestamp, snapshot, targets, delegations, result>>

Next ==
    \/ \E r \in RootDocs : update_root(r)
    \/ \E t \in TimestampDocs : update_timestamp(t)
    \/ \E s \in SnapshotDocs : update_snapshot(s)
    \/ \E t \in TargetsDocs : update_targets(t)
    \/ \E p \in {TargetsPath} \cup DelegatedRoles, role \in DelegatedRoles,
          d \in TargetsDocs : update_delegation(p, role, d)
    \/ ClockChange

Spec == Init /\ [][Next]_vars

-----------------------------------------------------------------------------
(* Properties.                                                             *)

TypeOK ==
    /\ root \in RootDocs
    /\ timestamp \in TimestampDocs \cup {NoDoc}
    /\ snapshot \in SnapshotDocs \cup {NoDoc}
    /\ targets \in TargetsDocs \cup {NoDoc}
    /\ delegations \in [DelegatedRoles -> TargetsDocs \cup {NoDoc}]
    /\ now \in Times
    /\ result \in Results

\* Mix-and-match (update_timestamp clears a snapshot the new timestamp no
\* longer describes): a trusted snapshot is always the version the trusted
\* timestamp describes.
SnapshotMatchesTimestamp ==
    snapshot # NoDoc =>
        /\ timestamp # NoDoc
        /\ snapshot.version = timestamp.snapshot

\* Mix-and-match (update_snapshot clears targets the new snapshot does not
\* describe): trusted targets are the version the trusted snapshot lists.
TargetsMatchSnapshot ==
    snapshot # NoDoc /\ targets # NoDoc =>
        targets.version = snapshot.meta[TargetsPath]

\* purge_delegations: no loaded delegation is newer than the version the
\* trusted snapshot lists for it.
DelegationsNotAheadOfSnapshot ==
    snapshot # NoDoc =>
        \A r \in DelegatedRoles :
            delegations[r] # NoDoc /\ snapshot.meta[r] # Absent =>
                delegations[r].version <= snapshot.meta[r]

\* Root rotation (purge_metadata in update_root): every trusted timestamp,
\* snapshot and targets document is signed by a threshold of the keys the
\* CURRENT root assigns to its role, never only by keys of an earlier root.
SignedUnderCurrentRoot ==
    /\ timestamp # NoDoc => Verify(timestamp.sigs, root.roles["timestamp"])
    /\ snapshot # NoDoc => Verify(snapshot.sigs, root.roles["snapshot"])
    /\ targets # NoDoc => Verify(targets.sigs, root.roles["targets"])

\* Continuity of trust (update_root, spec 4.1): whatever step replaces the
\* trusted root, the new root has a higher version and is signed by a
\* threshold of the outgoing root's root keys and of its own.  No other
\* operation, and no sequence of them, installs a root.
RootStep ==
    /\ root'.version > root.version
    /\ Verify(root'.sigs, root.roles["root"])
    /\ Verify(root'.sigs, root'.roles["root"])

RootChainOfTrust == [][root' # root => RootStep]_vars

\* Timestamp rollback protection (update_timestamp's version check): while
\* the root stays the same, a trusted timestamp is never dropped nor
\* replaced by an older one; only a root rotation (purge_metadata) clears
\* it.  Unlike the snapshot and the targets, whose slots another handler
\* clears, the timestamp slot is written by update_timestamp alone.
TimestampMonotonic ==
    [][root' = root /\ timestamp # NoDoc =>
         /\ timestamp' # NoDoc
         /\ timestamp'.version >= timestamp.version]_vars

\* Rollback protection (spec: "if the engine accepts v_n it rejects any
\* future v < v_n"), read per root: while the trusted root stays the same,
\* the trusted snapshot version never goes below a version trusted earlier.
\* update_timestamp clears the snapshot when the new timestamp describes a
\* different version, and update_snapshot then compares with version 0.
SnapshotNoRollback ==
    \A e, v \in Versions :
        [](root.version = e /\ snapshot # NoDoc /\ snapshot.version = v =>
            [](root.version = e /\ snapshot # NoDoc => snapshot.version >= v))

\* The same for targets: while the root stays the same, the trusted targets
\* version never goes below one trusted earlier.  update_snapshot clears
\* targets the new snapshot lists at another version, and update_targets
\* then compares with version 0.
TargetsNoRollback ==
    \A e, v \in Versions :
        [](root.version = e /\ targets # NoDoc /\ targets.version = v =>
            [](root.version = e /\ targets # NoDoc => targets.version >= v))

\* Rollback protection for the targets themselves, apart from the snapshot's:
\* while the root stays the same and the trusted snapshot is no older than
\* the one under which targets v were trusted, the trusted targets version
\* never goes below v.  A newer snapshot that lists older targets clears the
\* targets slot (update_snapshot), and update_targets then compares with 0.
TargetsNoRollbackUnderSnapshot ==
    \A e, s, v \in Versions :
        [](/\ root.version = e
           /\ snapshot # NoDoc /\ snapshot.version = s
           /\ targets # NoDoc /\ targets.version = v
           => [](/\ root.version = e
                 /\ snapshot # NoDoc /\ snapshot.version >= s
                 /\ targets # NoDoc
                 => targets.version >= v))

\* A delegation is the top-level targets role's authorization of a key set:
\* a loaded delegated role that the trusted targets delegates to is signed
\* by a threshold of the keys the trusted targets assigns to it now (the
\* keys target_description relies on when it reads that role).
DelegationSignedByParentKeys ==
    \A r \in DelegatedRoles :
        delegations[r] # NoDoc /\ find_delegation(TargetsPath, r) # NoDoc =>
            Verify(delegations[r].sigs, find_delegation(TargetsPath, r))

=============================================================================
