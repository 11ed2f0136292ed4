------------------------------ MODULE TufProofs ------------------------------
(***************************************************************************)
(* Proofs about the trust engine of Tuf.tla, for every value of the        *)
(* constants that satisfies the module's assumptions.                      *)
(***************************************************************************)
EXTENDS Tuf, TLAPS

-----------------------------------------------------------------------------
(* What each verdict returns.                                              *)

LEMMA SafeRefValues ==
    /\ safe_root_ref \in {"ok", "ExpiredMetadata"}
    /\ safe_timestamp_ref \in {"ok", "ExpiredMetadata", "MissingMetadata"}
    /\ safe_snapshot_ref \in {"ok", "ExpiredMetadata", "MissingMetadata"}
    /\ safe_targets_ref \in {"ok", "ExpiredMetadata", "MissingMetadata"}
BY DEF safe_root_ref, safe_timestamp_ref, safe_snapshot_ref, safe_targets_ref,
       SafeRef

LEMMA VerdictsInResults ==
    ASSUME NEW r, NEW t, NEW s, NEW p, NEW role, NEW d
    PROVE  /\ RootVerdict(r) \in Results
           /\ TimestampVerdict(t) \in Results
           /\ SnapshotVerdict(s) \in Results
           /\ TargetsVerdict(t) \in Results
           /\ DelegationVerdict(p, role, d) \in Results
BY SafeRefValues DEF RootVerdict, TimestampVerdict, SnapshotVerdict,
                     TargetsVerdict, DelegationVerdict, Results

\* A gate that lets a handler through implies the slot holds a document.
LEMMA SafeRefPresent ==
    /\ safe_timestamp_ref = "ok" => timestamp # NoDoc
    /\ safe_snapshot_ref = "ok" => snapshot # NoDoc
    /\ safe_targets_ref = "ok" => targets # NoDoc
BY DEF safe_timestamp_ref, safe_snapshot_ref, safe_targets_ref, SafeRef

-----------------------------------------------------------------------------
(* What an "Advanced" verdict guarantees about the new document.           *)

LEMMA TimestampAdvanced ==
    ASSUME NEW t, TimestampVerdict(t) = "Advanced"
    PROVE  Verify(t.sigs, root.roles["timestamp"])
BY DEF TimestampVerdict

\* An accepted timestamp is strictly newer than the one held.
LEMMA TimestampVerdictVersion ==
    ASSUME NEW t, t.version \in Nat, current_timestamp_version \in Nat,
           TimestampVerdict(t) = "Advanced"
    PROVE  t.version > current_timestamp_version
BY DEF TimestampVerdict

LEMMA SnapshotAdvanced ==
    ASSUME NEW s, SnapshotVerdict(s) = "Advanced"
    PROVE  /\ timestamp # NoDoc
           /\ s.version = timestamp.snapshot
           /\ Verify(s.sigs, root.roles["snapshot"])
BY SafeRefPresent, SafeRefValues DEF SnapshotVerdict

LEMMA TargetsAdvanced ==
    ASSUME NEW t, TargetsVerdict(t) = "Advanced"
    PROVE  /\ snapshot # NoDoc
           /\ t.version = snapshot.meta[TargetsPath]
           /\ Verify(t.sigs, root.roles["targets"])
BY SafeRefPresent, SafeRefValues DEF TargetsVerdict

LEMMA DelegationAdvanced ==
    ASSUME NEW p, NEW role, NEW d, DelegationVerdict(p, role, d) = "Advanced"
    PROVE  /\ snapshot # NoDoc
           /\ d.version = snapshot.meta[role]
BY SafeRefPresent, SafeRefValues DEF DelegationVerdict

-----------------------------------------------------------------------------
(* Type correctness.                                                       *)

LEMMA InitTypeOK == Init => TypeOK
BY DEF Init, TypeOK, from_trusted_root, from_root_with_trusted_keys, Results

LEMMA NextTypeOK == TypeOK /\ [Next]_vars => TypeOK'
<1> SUFFICES ASSUME TypeOK, [Next]_vars PROVE TypeOK'
    OBVIOUS
<1> USE DEF TypeOK
<1>1. ASSUME NEW r \in RootDocs, update_root(r) PROVE TypeOK'
    BY <1>1, VerdictsInResults DEF update_root, purge_metadata, engine
<1>2. ASSUME NEW t \in TimestampDocs, update_timestamp(t) PROVE TypeOK'
    BY <1>2, VerdictsInResults DEF update_timestamp, snapshot_after_timestamp,
                                   engine
<1>3. ASSUME NEW s \in SnapshotDocs, update_snapshot(s) PROVE TypeOK'
    BY <1>3, VerdictsInResults DEF update_snapshot, targets_after_snapshot,
                                   purge_delegations, engine
<1>4. ASSUME NEW t \in TargetsDocs, update_targets(t) PROVE TypeOK'
    BY <1>4, VerdictsInResults DEF update_targets, engine
<1>5. ASSUME NEW p \in {TargetsPath} \cup DelegatedRoles,
             NEW role \in DelegatedRoles, NEW d \in TargetsDocs,
             update_delegation(p, role, d)
      PROVE  TypeOK'
    BY <1>5, VerdictsInResults DEF update_delegation, engine
<1>6. CASE ClockChange
    BY <1>6 DEF ClockChange
<1>7. CASE UNCHANGED vars
    BY <1>7 DEF vars
<1>8. QED
    BY <1>1, <1>2, <1>3, <1>4, <1>5, <1>6, <1>7 DEF Next

\* The engine's state always has the shape TypeOK describes.
THEOREM TypeCorrect == Spec => []TypeOK
BY InitTypeOK, NextTypeOK, PTL DEF Spec


-----------------------------------------------------------------------------
(* The trusted view is consistent.  Each of the four parts is inductive    *)
(* once TypeOK is known: every update either installs a document the       *)
(* verdict checked against the current view, or clears the slots that the  *)
(* new document no longer describes.                                       *)

ConsistentView ==
    /\ SnapshotMatchesTimestamp
    /\ TargetsMatchSnapshot
    /\ DelegationsNotAheadOfSnapshot
    /\ SignedUnderCurrentRoot

IInv == TypeOK /\ ConsistentView

LEMMA InitIInv == Init => IInv
<1> SUFFICES ASSUME Init PROVE IInv
    OBVIOUS
<1>1. TypeOK
    BY InitTypeOK
<1>2. ConsistentView
    BY DEF Init, from_trusted_root, from_root_with_trusted_keys, ConsistentView,
           SnapshotMatchesTimestamp, TargetsMatchSnapshot,
           DelegationsNotAheadOfSnapshot, SignedUnderCurrentRoot
<1>3. QED
    BY <1>1, <1>2 DEF IInv

LEMMA RootIInv ==
    ASSUME IInv, NEW r \in RootDocs, update_root(r)
    PROVE  ConsistentView'
<1>1. CASE result' = "Advanced"
    BY <1>1 DEF update_root, purge_metadata, ConsistentView,
             SnapshotMatchesTimestamp, TargetsMatchSnapshot,
             DelegationsNotAheadOfSnapshot, SignedUnderCurrentRoot
<1>2. CASE result' # "Advanced"
    BY <1>2 DEF update_root, engine, IInv, ConsistentView,
             SnapshotMatchesTimestamp, TargetsMatchSnapshot,
             DelegationsNotAheadOfSnapshot, SignedUnderCurrentRoot, Verify
<1>3. QED
    BY <1>1, <1>2

LEMMA TimestampIInv ==
    ASSUME IInv, NEW t \in TimestampDocs, update_timestamp(t)
    PROVE  ConsistentView'
<1>1. CASE result' = "Advanced"
    <2> USE <1>1 DEF update_timestamp
    <2>1. snapshot' = NoDoc \/ (snapshot' = snapshot /\ snapshot # NoDoc
                                /\ snapshot.version = t.snapshot)
        BY DEF snapshot_after_timestamp, current_snapshot_version
    <2>2. timestamp' = t /\ t # NoDoc
        BY NoDocAssumption
    <2>3. Verify(t.sigs, root.roles["timestamp"])
        BY TimestampAdvanced
    <2>4. QED
        BY <2>1, <2>2, <2>3 DEF IInv, ConsistentView,
             SnapshotMatchesTimestamp, TargetsMatchSnapshot,
             DelegationsNotAheadOfSnapshot, SignedUnderCurrentRoot
<1>2. CASE result' # "Advanced"
    BY <1>2 DEF update_timestamp, engine, IInv, ConsistentView,
             SnapshotMatchesTimestamp, TargetsMatchSnapshot,
             DelegationsNotAheadOfSnapshot, SignedUnderCurrentRoot
<1>3. QED
    BY <1>1, <1>2

LEMMA SnapshotIInv ==
    ASSUME IInv, NEW s \in SnapshotDocs, update_snapshot(s)
    PROVE  ConsistentView'
<1>1. CASE result' = "Advanced"
    <2> USE <1>1 DEF update_snapshot
    <2>1. /\ timestamp # NoDoc
          /\ s.version = timestamp.snapshot
          /\ Verify(s.sigs, root.roles["snapshot"])
        BY SnapshotAdvanced
    <2>2. snapshot' = s /\ s # NoDoc
        BY NoDocAssumption
    <2>3. targets' = NoDoc \/ (targets' = targets /\ targets # NoDoc
                              /\ targets.version = s.meta[TargetsPath])
        BY DEF targets_after_snapshot, current_targets_version
    <2>4. SnapshotMatchesTimestamp'
        BY <2>1, <2>2 DEF SnapshotMatchesTimestamp
    <2>5. TargetsMatchSnapshot'
        BY <2>2, <2>3 DEF TargetsMatchSnapshot
    <2>6. DelegationsNotAheadOfSnapshot'
        <3> SUFFICES ASSUME NEW x \in DelegatedRoles,
                            delegations'[x] # NoDoc, s.meta[x] # Absent
                     PROVE  delegations'[x].version <= s.meta[x]
            BY <2>2 DEF DelegationsNotAheadOfSnapshot
        <3>1. delegations'[x] = delegations[x]
              /\ ~(current_delegation_version(x) > s.meta[x])
            BY DEF purge_delegations
        <3>2. delegations[x] \in TargetsDocs
            BY <3>1 DEF IInv, TypeOK
        <3>3. s.meta[x] \in Versions
            BY DEF SnapshotDocs, MetaPaths, Absent
        <3>4. QED
            BY <3>1, <3>2, <3>3 DEF current_delegation_version, TargetsDocs,
                                    Versions
    <2>7. SignedUnderCurrentRoot'
        BY <2>1, <2>2, <2>3 DEF IInv, ConsistentView, SignedUnderCurrentRoot
    <2>8. QED
        BY <2>4, <2>5, <2>6, <2>7 DEF ConsistentView
<1>2. CASE result' # "Advanced"
    BY <1>2 DEF update_snapshot, engine, IInv, ConsistentView,
             SnapshotMatchesTimestamp, TargetsMatchSnapshot,
             DelegationsNotAheadOfSnapshot, SignedUnderCurrentRoot
<1>3. QED
    BY <1>1, <1>2

LEMMA TargetsIInv ==
    ASSUME IInv, NEW t \in TargetsDocs, update_targets(t)
    PROVE  ConsistentView'
<1>1. CASE result' = "Advanced"
    <2> USE <1>1 DEF update_targets
    <2>1. /\ snapshot # NoDoc
          /\ t.version = snapshot.meta[TargetsPath]
          /\ Verify(t.sigs, root.roles["targets"])
        BY TargetsAdvanced
    <2>2. QED
        BY <2>1 DEF IInv, ConsistentView,
             SnapshotMatchesTimestamp, TargetsMatchSnapshot,
             DelegationsNotAheadOfSnapshot, SignedUnderCurrentRoot
<1>2. CASE result' # "Advanced"
    BY <1>2 DEF update_targets, engine, IInv, ConsistentView,
             SnapshotMatchesTimestamp, TargetsMatchSnapshot,
             DelegationsNotAheadOfSnapshot, SignedUnderCurrentRoot
<1>3. QED
    BY <1>1, <1>2

LEMMA DelegationIInv ==
    ASSUME IInv, NEW p \in {TargetsPath} \cup DelegatedRoles,
           NEW role \in DelegatedRoles, NEW d \in TargetsDocs,
           update_delegation(p, role, d)
    PROVE  ConsistentView'
<1>1. CASE result' = "Advanced"
    <2> USE <1>1 DEF update_delegation
    <2>1. DelegationVerdict(p, role, d) = "Advanced"
        OBVIOUS
    <2>2. snapshot # NoDoc /\ d.version = snapshot.meta[role]
        BY <2>1, DelegationAdvanced
    <2>3. DelegationsNotAheadOfSnapshot'
        <3> SUFFICES ASSUME NEW x \in DelegatedRoles,
                            delegations'[x] # NoDoc, snapshot.meta[x] # Absent
                     PROVE  delegations'[x].version <= snapshot.meta[x]
            BY DEF DelegationsNotAheadOfSnapshot
        <3>1. delegations \in [DelegatedRoles -> TargetsDocs \cup {NoDoc}]
            BY DEF IInv, TypeOK
        <3>2. CASE x = role
            BY <2>2, <3>1, <3>2 DEF TargetsDocs, Versions
        <3>3. CASE x # role
            <4>1. delegations'[x] = delegations[x]
                BY <3>1, <3>3
            <4>2. QED
                BY <2>2, <4>1 DEF IInv, ConsistentView,
                                  DelegationsNotAheadOfSnapshot
        <3>4. QED
            BY <3>2, <3>3
    <2>4. QED
        BY <2>3 DEF IInv, ConsistentView,
             SnapshotMatchesTimestamp, TargetsMatchSnapshot,
             SignedUnderCurrentRoot
<1>2. CASE result' # "Advanced"
    BY <1>2 DEF update_delegation, engine, IInv, ConsistentView,
             SnapshotMatchesTimestamp, TargetsMatchSnapshot,
             DelegationsNotAheadOfSnapshot, SignedUnderCurrentRoot
<1>3. QED
    BY <1>1, <1>2

LEMMA NextIInv == IInv /\ [Next]_vars => IInv'
<1> SUFFICES ASSUME IInv, [Next]_vars PROVE IInv'
    OBVIOUS
<1>1. TypeOK'
    BY NextTypeOK DEF IInv
<1>2. ConsistentView'
    <2>1. CASE \E r \in RootDocs : update_root(r)
        BY <2>1, RootIInv
    <2>2. CASE \E t \in TimestampDocs : update_timestamp(t)
        BY <2>2, TimestampIInv
    <2>3. CASE \E s \in SnapshotDocs : update_snapshot(s)
        BY <2>3, SnapshotIInv
    <2>4. CASE \E t \in TargetsDocs : update_targets(t)
        BY <2>4, TargetsIInv
    <2>5. CASE \E p \in {TargetsPath} \cup DelegatedRoles, role \in DelegatedRoles,
                  d \in TargetsDocs : update_delegation(p, role, d)
        BY <2>5, DelegationIInv
    <2>6. CASE ClockChange
        BY <2>6 DEF ClockChange, IInv, ConsistentView,
             SnapshotMatchesTimestamp, TargetsMatchSnapshot,
             DelegationsNotAheadOfSnapshot, SignedUnderCurrentRoot, Verify
    <2>7. CASE UNCHANGED vars
        BY <2>7 DEF vars, IInv, ConsistentView,
             SnapshotMatchesTimestamp, TargetsMatchSnapshot,
             DelegationsNotAheadOfSnapshot, SignedUnderCurrentRoot, Verify
    <2>8. QED
        BY <2>1, <2>2, <2>3, <2>4, <2>5, <2>6, <2>7 DEF Next
<1>3. QED
    BY <1>1, <1>2 DEF IInv

\* Mix-and-match protection: in every reachable state the trusted snapshot is
\* the version the trusted timestamp describes, the trusted targets are the
\* version the snapshot lists, no loaded delegation is newer than the
\* snapshot lists, and every top-level document is signed under the current
\* root's keys (update_timestamp, update_snapshot, purge_delegations and
\* purge_metadata together).
THEOREM ConsistentViewInvariant == Spec => []ConsistentView
<1>1. IInv => ConsistentView
    BY DEF IInv
<1>2. QED
    BY InitIInv, NextIInv, <1>1, PTL DEF Spec

\* The single property checked by the main run, as a corollary.
THEOREM SnapshotMatchesTimestampInvariant == Spec => []SnapshotMatchesTimestamp
BY ConsistentViewInvariant, PTL DEF ConsistentView


\* The other conjuncts of the consistent view, each checked by a run.
THEOREM TargetsMatchSnapshotInvariant == Spec => []TargetsMatchSnapshot
BY ConsistentViewInvariant, PTL DEF ConsistentView

\* Root rotation leaves nothing trusted that the current root's keys did
\* not sign (purge_metadata in update_root).
THEOREM SignedUnderCurrentRootInvariant == Spec => []SignedUnderCurrentRoot
BY ConsistentViewInvariant, PTL DEF ConsistentView

\* purge_delegations keeps every loaded delegation at or below the version
\* the trusted snapshot lists.
THEOREM DelegationsNotAheadOfSnapshotInvariant ==
    Spec => []DelegationsNotAheadOfSnapshot
BY ConsistentViewInvariant, PTL DEF ConsistentView

-----------------------------------------------------------------------------
(* Continuity of trust for the root.                                       *)

\* What an "Advanced" verdict of update_root guarantees about the new root.
LEMMA RootAdvanced ==
    ASSUME TypeOK, NEW r \in RootDocs, RootVerdict(r) = "Advanced"
    PROVE  /\ r.version > root.version
           /\ Verify(r.sigs, root.roles["root"])
           /\ Verify(r.sigs, r.roles["root"])
<1>1. /\ Verify(r.sigs, root.roles["root"])
      /\ r.version # root.version
      /\ ~(r.version < root.version)
      /\ Verify(r.sigs, r.roles["root"])
    BY DEF RootVerdict
<1>2. r.version \in Nat /\ root.version \in Nat
    BY DEF TypeOK, RootDocs, Versions
<1>3. QED
    BY <1>1, <1>2

\* Every step of the engine either keeps the root or is a cross-signed
\* rotation to a higher version.
LEMMA NextRootStep ==
    TypeOK /\ [Next]_vars => [root' # root => RootStep]_vars
<1> SUFFICES ASSUME TypeOK, [Next]_vars, root' # root
             PROVE  RootStep
    OBVIOUS
<1>1. ASSUME NEW r \in RootDocs, update_root(r) PROVE RootStep
    <2>1. result' = "Advanced" /\ root' = r
        BY <1>1 DEF update_root, engine
    <2>2. RootVerdict(r) = "Advanced"
        BY <1>1, <2>1 DEF update_root
    <2>3. QED
        BY <2>1, <2>2, RootAdvanced DEF RootStep
<1>2. ASSUME NEW t \in TimestampDocs, update_timestamp(t) PROVE FALSE
    BY <1>2 DEF update_timestamp, engine
<1>3. ASSUME NEW s \in SnapshotDocs, update_snapshot(s) PROVE FALSE
    BY <1>3 DEF update_snapshot, engine
<1>4. ASSUME NEW t \in TargetsDocs, update_targets(t) PROVE FALSE
    BY <1>4 DEF update_targets, engine
<1>5. ASSUME NEW p \in {TargetsPath} \cup DelegatedRoles,
             NEW role \in DelegatedRoles, NEW d \in TargetsDocs,
             update_delegation(p, role, d)
      PROVE  FALSE
    BY <1>5 DEF update_delegation, engine
<1>6. CASE ClockChange
    BY <1>6 DEF ClockChange
<1>7. CASE UNCHANGED vars
    BY <1>7 DEF vars
<1>8. QED
    BY <1>1, <1>2, <1>3, <1>4, <1>5, <1>6, <1>7 DEF Next

\* Continuity of trust (spec 4.1, update_root): in every behaviour, each
\* change of the trusted root installs a higher version signed by a
\* threshold of the outgoing root's root keys and of its own.
THEOREM RootChainOfTrustHolds == Spec => RootChainOfTrust
<1>1. Spec => []TypeOK
    BY TypeCorrect
<1>2. QED
    BY <1>1, NextRootStep, PTL DEF Spec, RootChainOfTrust

\* The condition of TimestampMonotonic, for one step.
TimestampStep ==
    root' = root /\ timestamp # NoDoc =>
        /\ timestamp' # NoDoc
        /\ timestamp'.version >= timestamp.version

\* Every step of the engine that keeps the root keeps a trusted timestamp
\* or replaces it by a newer one: update_timestamp is the only handler that
\* writes the slot, and its verdict rejects an older version.
LEMMA NextTimestampStep ==
    TypeOK /\ [Next]_vars => [TimestampStep]_vars
<1> SUFFICES ASSUME TypeOK, [Next]_vars, root' = root, timestamp # NoDoc
             PROVE  timestamp' # NoDoc /\ timestamp'.version >= timestamp.version
    BY DEF TimestampStep
<1>1. timestamp.version \in Nat
    BY DEF TypeOK, TimestampDocs, Versions
<1>2. CASE timestamp' = timestamp
    BY <1>1, <1>2
<1>3. ASSUME NEW r \in RootDocs, update_root(r) PROVE timestamp' = timestamp
    <2>1. CASE RootVerdict(r) = "Advanced"
        <3>1. r.version > root.version /\ root' = r
            BY <1>3, <2>1, RootAdvanced DEF update_root
        <3>2. root.version \in Nat
            BY DEF TypeOK, RootDocs, Versions
        <3>3. QED
            BY <3>1, <3>2
    <2>2. CASE RootVerdict(r) # "Advanced"
        BY <1>3, <2>2 DEF update_root, engine
    <2>3. QED
        BY <2>1, <2>2
<1>4. ASSUME NEW t \in TimestampDocs, update_timestamp(t)
      PROVE  timestamp' # NoDoc /\ timestamp'.version >= timestamp.version
    <2>1. CASE TimestampVerdict(t) = "Advanced"
        <3>1. timestamp' = t
            BY <1>4, <2>1 DEF update_timestamp
        <3>2. t # NoDoc /\ t.version \in Nat
            BY NoDocAssumption DEF TimestampDocs, Versions
        <3>3. current_timestamp_version = timestamp.version
            BY DEF current_timestamp_version
        <3>4. t.version > timestamp.version
            BY <1>1, <2>1, <3>2, <3>3, TimestampVerdictVersion
        <3>5. QED
            BY <1>1, <3>1, <3>2, <3>4
    <2>2. CASE TimestampVerdict(t) # "Advanced"
        BY <1>1, <1>4, <2>2 DEF update_timestamp, engine
    <2>3. QED
        BY <2>1, <2>2
<1>5. ASSUME NEW s \in SnapshotDocs, update_snapshot(s) PROVE timestamp' = timestamp
    BY <1>5 DEF update_snapshot, engine
<1>6. ASSUME NEW t \in TargetsDocs, update_targets(t) PROVE timestamp' = timestamp
    BY <1>6 DEF update_targets, engine
<1>7. ASSUME NEW p \in {TargetsPath} \cup DelegatedRoles,
             NEW role \in DelegatedRoles, NEW d \in TargetsDocs,
             update_delegation(p, role, d)
      PROVE  timestamp' = timestamp
    BY <1>7 DEF update_delegation, engine
<1>8. CASE ClockChange
    BY <1>2, <1>8 DEF ClockChange
<1>9. CASE UNCHANGED vars
    BY <1>2, <1>9 DEF vars
<1>10. QED
    BY <1>2, <1>3, <1>4, <1>5, <1>6, <1>7, <1>8, <1>9 DEF Next

\* Timestamp rollback protection (update_timestamp): in every behaviour, as
\* long as the root stays the same, a trusted timestamp is never dropped nor
\* replaced by an older version.
THEOREM TimestampMonotonicHolds == Spec => TimestampMonotonic
<1>1. Spec => []TypeOK
    BY TypeCorrect
<1>2. QED
    BY <1>1, NextTimestampStep, PTL DEF Spec, TimestampMonotonic, TimestampStep

=============================================================================
