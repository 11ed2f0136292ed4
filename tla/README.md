# TLA+ verification of the rust-tuf trust engine

This directory models the client-side TUF verifier in `src/src/tuf.rs` and
`src/src/crypto.rs` in TLA+. TLC checks the models on small instances. TLAPS
proves the central invariants for every value of the constants.

## 1. Inventory

### Components

| Component | Source | State | Operations |
|---|---|---|---|
| Trust engine (`Tuf<D>`) | `tuf.rs` 17-626 | `root`, `timestamp: Option`, `snapshot: Option`, `targets: Option`, `delegations: HashMap<MetadataPath, TargetsMetadata>` | `from_root_with_trusted_keys`, `from_trusted_root`, `update_root`, `update_timestamp`, `update_snapshot`, `update_targets`, `update_delegation`, `target_description`. Helpers: `purge_metadata`, `purge_delegations`, `find_delegation`, `safe_*_ref`, `current_*_version` |
| Delegation resolver | `tuf.rs` 496-575 (`lookup` inside `target_description`) | none; a per-query `visited` set | depth-first search over the delegation lists, with a `terminating` flag and path-chain matching |
| Signature verifier | `SignedMetadata::verify` in `metadata.rs` (not in this tree) | none | counts the distinct authorized keys with a valid signature and compares the count with a threshold |
| Metadata model | `metadata.rs` (not in this tree) | documents | typed root/timestamp/snapshot/targets/delegation documents |
| Crypto primitives | `crypto.rs` | none | `calculate_key_id`, `PublicKey::from_ed25519`, `from_rsa`, `verify`, `SignatureScheme`/`KeyType` parsing |
| Interchange, fetcher, CLI | not in this tree | none | not modelled |

### How the parts interact

The caller fetches signed documents and hands each one to an `update_*` call.
Each call does three things:

1. It reads the engine's state: the current root's role keys and thresholds,
   and the current versions.
2. It calls `SignedMetadata::verify` with the keys of the relevant role.
3. It checks versions, expiry and cross-references against the other
   trusted documents.

All checks run before anything is committed. The commit then installs the
document and clears derived documents the new one no longer describes:

- a new root clears everything else;
- a new timestamp clears the snapshot if it describes a different snapshot
  version;
- a new snapshot clears the targets if it lists a different targets version,
  and drops delegations it lists at a lower version.

`target_description` reads the state only. It first looks in the top-level
targets, then searches the delegation graph recursively. The wall clock
(`Utc::now()`) is read by every expiry check.

### What is hard

The engine is single-threaded and does no I/O. The hard behaviours are
therefore sequences of calls, not interleavings:

- Documents can arrive in any order and any combination. A repository or
  attacker can serve a timestamp, snapshot or targets whose cross-references
  disagree with what the client already trusts (mix-and-match, rollback).
- Every update clears some derived state. A check that compares against a
  cleared slot compares against version 0. This is where the rollback
  findings below come from.
- Root rotation must invalidate everything signed under the old keys.
- Delegations are keyed by role name only. A role stays loaded across
  changes of the parent that delegates to it.
- The clock is not monotonic, and the snapshot is installed without an
  expiry check.

### What makes each component correct

- **Trust engine**
  - Consistency (no mix-and-match): the snapshot is the one the timestamp
    describes, the targets are the version the snapshot lists, and no loaded
    delegation is newer than the snapshot lists.
  - Root isolation: every trusted document is signed under the current root's
    keys.
  - Rollback protection: within one root, the trusted versions never decrease.
  - Delegation trust: a loaded delegation is signed by the keys its parent
    assigns to it now.
  - Atomicity: a failed update changes nothing.
- **Delegation resolver**
  - Soundness: a returned description comes from a loaded, unexpired role
    whose chain of delegated path patterns admits the target.
  - Completeness: it agrees with the TUF preorder search (`terminating`
    stops the search; a non-terminating miss continues with the next
    sibling).
- **Crypto**
  - One key has one key id, `SHA-256(stored bytes)`.
  - Unknown schemes and key types are errors, not panics.
- **Signature verifier**
  - A document is accepted iff the number of distinct valid authorized
    signers is at least the threshold.

The hazards are listed, each at its source line, in `PROJECT.json` under
"hazards".

## 2. Plan

Modules, in the order they are built. The most important behaviour comes
first.

1. **`Tuf.tla`**: the trust engine. Done in this sitting. It has one action
   per `update_*` operation, a clock action, and `Init` for the two
   constructors.
2. **`TufProofs.tla`**: the type invariant and the consistency invariant.
   Done.
3. **`TargetLookup.tla`**: done. `lookup` is a recursive operator. It is
   compared with a reference preorder search over all bounded delegation
   graphs. The module uses RECURSIVE, so it holds no theorems.
4. **`Crypto.tla`**: done. It models the keyring of constructed
   `PublicKey`s and scheme parsing.
   Still to do:
   - compose Crypto with the engine's signature counting, to show that two
     key ids of one RSA key let a single key pair count twice toward a
     threshold when a role lists both ids.
5. **`TufRelease.tla`** and **`TufClient.tla`**: done. The abstract
   promise is stated per repository release, not per root epoch: the client
   trusts targets of a published release, or none, and never goes back to
   an older release than one it trusted. The full `Tuf` spec cannot refine
   that, because of the rollback findings below. `TufClient` therefore
   composes the engine with an honest repository that never publishes
   the inconsistent documents those findings need, and shows the refinement
   there.
6. **Liveness**: done in `TufClient`, with weak fairness on fetching the
   newest release. The property is that the client ends up trusting the
   newest targets. `target_description` itself is a query, checked in
   `TargetLookup`.
7. **More proofs**: done for the refinement of `TufRelease`
   (`TufClientProofs`) and the keyring invariant (`CryptoProofs`), and for
   `RootChainOfTrust`, stated as an action
   property over successive roots, so no history variable is needed, and
   for the three remaining invariants one by one. Also done: no rollback
   of snapshot and targets against an honest repository, the targets case
   carried over from `TufReleaseProofs` through the refinement.

## 3. Modules and runs

### `Tuf.tla`: the trust engine

#### State

| Variable | Code |
|---|---|
| `root` | `Tuf::root` |
| `timestamp` | `Tuf::timestamp` |
| `snapshot` | `Tuf::snapshot` |
| `targets` | `Tuf::targets` |
| `delegations` | `Tuf::delegations` |
| `now` | `Utc::now()` |
| `result` | the value the last call returned (`Advanced` = `Ok(true)`/`Ok(Some)`, `Unchanged` = `Ok(false)`/`Ok(None)`, or the error kind) |

- `NoDoc` is `None`.
- A document is a record of the fields the engine reads, plus `sigs`. `sigs`
  is the set of keys whose signature over the canonical bytes is valid.
  Signature bytes, hashes, lengths and target descriptions are left out.
  They do not influence the engine's state transitions.
- A snapshot's `meta` maps each metadata path to a version, or to
  `Absent = 0` when the entry is missing.
- A targets document's `delegations` is either `NoDelegations` or a map from
  each delegated role to the role definition of its first `Delegation`
  entry. `find_delegation` returns the first match, so later duplicate
  entries are never used.

#### Actions

Each `update_*` action is the whole handler, in two parts:

- `<Op>Verdict` is the chain of checks in the code's order. Each early
  `return` is an `IF` branch.
- The commit: when the verdict is `Advanced`, the document is installed and
  the purges the handler calls are applied in the same step. Otherwise the
  engine is unchanged and only `result` records the error or no-op.

This is the code's "verify fully, then commit" structure. The only write
before the end of a handler, `self.snapshot = None` in `update_timestamp`,
comes after every check.

`ClockChange` moves `now` to any other value, because `Utc::now()` is not
monotonic.

#### Properties

- `SnapshotMatchesTimestamp`, `TargetsMatchSnapshot`,
  `DelegationsNotAheadOfSnapshot`: the mix-and-match invariants.
- `SignedUnderCurrentRoot`: root rotation leaves nothing signed under old
  keys.
- `SnapshotNoRollback`, `TargetsNoRollback`: temporal properties. A
  version trusted while the root had version `e` is never followed by a
  lower version of the same document while the root still has version `e`.
  Root versions strictly increase, so `e` identifies the root.
- `TargetsNoRollbackUnderSnapshot`: the targets property on its own. While
  the root stays the same and the trusted snapshot is no older than the one
  under which targets `v` were trusted, the trusted targets never go below
  `v`. Requiring the snapshot not to go back keeps a snapshot rollback
  (finding 1) from counting as a targets rollback.
- `DelegationSignedByParentKeys`: a loaded delegation that the trusted
  targets delegates to is signed by the keys the targets assigns to it now.

### Runs

All runs use keys `{k1, k2}`, versions `1..2` and role definitions
"key k1, threshold 1" and "key k2, threshold 1".

| Run | cfg | Expect | Checks | Bounds and why |
|---|---|---|---|---|
| engine | `MC_Tuf.cfg` | pass | `SnapshotMatchesTimestamp`, `TargetsMatchSnapshot`, `SignedUnderCurrentRoot`, `RootChainOfTrust`, `TimestampMonotonic` | Three root role assignments (all k1; all k2; root k1 and the rest k2). Signer sets `{k1}`, `{k2}`, `{k1,k2}`, so roots can be cross-signed and rotate keys. Clock 0..2 and expiries 1..2, so a document can be valid, expire, and be valid again when the clock moves back. No delegated roles (their state is checked in the next run). About 400k states, under 1 minute. |
| delegations | `MC_TufDelegation.cfg` | pass | `TypeOK`, `DelegationsNotAheadOfSnapshot` | One delegated role `a`. Targets and delegations can assign it k1, k2 or nothing, or have no delegations section. One root assignment (all k1). Single signers. Clock 0..1. Covers `update_delegation` and `find_delegation` through both parents (`targets` and `a` itself). About 20k states. |
| snapshot_rollback | `MC_TufSnapshotRollback.cfg` | violation | `SnapshotNoRollback` | Timestamp v1 describes snapshot v2. Timestamp v2 describes snapshot v1, which clears the snapshot, and snapshot v1 is accepted. |
| targets_rollback | `MC_TufTargetsRollback.cfg` | violation | `TargetsNoRollbackUnderSnapshot` | Timestamp v1 describes snapshot 1, which lists targets 2, and targets v2 is trusted. Timestamp v2 describes snapshot 2, which lists targets 1. It clears the targets, and targets v1 is accepted. The snapshot only goes forward. |
| stale_delegation | `MC_TufStaleDelegation.cfg` | violation | `DelegationSignedByParentKeys` | Delegation `a` is loaded signed by k1. The next targets assigns `a` to k2, and the old `a` stays loaded. |

`RootChainOfTrust` is an action property: every step that changes the
root raises its version and is signed by a threshold of both the outgoing
root's root keys (`tuf.rs:121-130`) and the incoming root's own
(`tuf.rs:147-157`). Its mutant drops the check against the outgoing keys.

`TimestampMonotonic` is the timestamp's rollback protection. While the root
stays the same, the trusted timestamp is never dropped and never replaced by
an older version. It holds because `update_timestamp` is the only handler
that writes the slot, and it rejects older versions (`tuf.rs:193-200`).
The snapshot and targets slots are different: another handler clears them,
and that is why findings 1 and 2 exist. The mutant leaves out the version
check.

Versions `1..2` are enough for every check here: a rollback needs two
versions, and an equal-version no-op needs a replay. Two keys are enough
for a rotation, a cross-signature and a wrong-key signature.

Every property of a passing run has a mutant in `PROJECT.json`: a
plausible bug in the mapped code (a purge left out, a purge run against
the old snapshot, an insert under the wrong key) that TLC catches.

### Findings

A related hazard has no finding of its own: `find_delegation`
(`tuf.rs:380`) accepts any loaded delegation as a parent, without checking
that its own parent still delegates to it. This is the FIXME #279 in the
code. At depth one this is exactly finding 3. At depth two it would need
two delegated roles, beyond the bounds of the delegation runs.

1. **Snapshot rollback** (`tuf.rs:206`, with the check at 225-235). Within
   one root, the trusted snapshot can go from v2 to v1. This needs only
   correctly signed documents: a newer timestamp that describes an older
   snapshot. The spec (section 8, Monotonicity) says an older version is
   rejected.
2. **Targets rollback** (`tuf.rs:262`, with the check at 321-331). The same
   happens for targets, without any snapshot rollback. A newer snapshot
   that lists an older targets version than its predecessor clears the
   targets, and the older targets are accepted.
3. **Stale delegation keys** (`tuf.rs:360`, `277-302`). The targets role can
   re-key a delegation, but the delegated document verified under the old
   keys stays in `delegations`. `target_description` then reads it
   (`tuf.rs:531`).

### `TargetLookup.tla`: the delegation resolver

This module models `target_description` (`tuf.rs` 500-575) as one query
(`Query`) made against any trusted state:

- `topHit`: whether the top-level targets lists the path;
- `top`: its delegations section;
- `delegated`: the loaded delegated documents (`Tuf::delegations`).

The state is abstracted as follows:

- The query path is fixed. A `Delegation` entry is its role, its
  `terminating` flag and whether its path patterns admit the path
  (`admits`).
- A loaded document is reduced to three things: whether it is expired at
  the time of the query, whether it lists the path, and its own
  delegations.
- The answer is the role whose document lists the path. This stands for
  the `TargetDescription` returned.

`lookup` keeps the code's structure:

- It is a recursive operator over the loop index. It threads the shared
  `visited` set through the recursive calls and on to later siblings, as
  the `&mut HashSet` does.
- It keeps every early return in the code's order.

`PreorderList`/`PreorderBranch` are the reference: the search of spec
section 4.5, with the glossary's rule that a non-terminating miss goes on
with the next sibling. `DelegationChains` are the delegation paths a
search can descend along.

The safe-reference gates that `target_description` checks first are
modelled in `Tuf`. This module starts after they pass.

The bounds are two delegated roles and lists of at most two entries. This
gives every graph with self-loops, two-cycles, shared children, a
terminating and a non-terminating sibling, an expired and a missing
document at each position, and depth 2 (13 million initial states, about 75 s).

| Run | cfg | Expect | Checks |
|---|---|---|---|
| lookup | `MC_TargetLookup.cfg` | pass | `LookupAnswerTrusted`: an answer comes from a loaded, unexpired role reached along a chain whose ancestors' patterns admit the path. |
| lookup_own_paths | `MC_TargetLookupOwnPaths.cfg` | violation | `LookupRespectsDelegatedPaths`: `top = <<a (admits FALSE)>>` with `a` listing the path returns `a`. |
| lookup_siblings | `MC_TargetLookupSiblings.cfg` | violation | `LookupMatchesPreorder`: `a` delegates to `<<a, b>>`. The revisit of `a` (non-terminating) ends the search, so `b`, which lists the path, is never searched. |

### `Crypto.tla`: key construction

The state is the `keyring` of built `PublicKey` records
(`typ`, `format`, `key_id`, `value`) and the `result` of the last call.

Byte strings are abstracted to what the code tells apart:

- the PKCS#1 or SPKI encoding of an RSA key pair;
- raw Ed25519 bytes of length 31 or 32;
- `Junk`, which no parser accepts.

SHA-256 is an injective tag of its input.

Some helpers are not in this tree and are modelled from the spec:
`rsa::from_pkcs1`, `rsa::from_spki` and `ring::signature::verify`. The
model's `ring_verify` accepts only a 32-byte raw key for Ed25519 and PKCS#1
for RSA, of the signing pair, under the same scheme.

The actions are:

- `from_ed25519`, `from_rsa` (key id computed first, as at line 231);
- `verify`;
- `deserialize_name` for the `Deserialize` impls of `SignatureScheme` and
  `KeyType` (`unwrap()`).

| Run | cfg | Expect | Checks |
|---|---|---|---|
| crypto | `MC_Crypto.cfg` | pass | `KeyringVerifiesOwnSignatures`: every accepted key is stored in the form ring verifies. |
| crypto_key_id | `MC_CryptoKeyId.cfg` | violation | `KeyIdDeterminism`: one RSA key read as PKCS#1 and as SPKI has the same stored bytes and two key ids. |
| crypto_panic | `MC_CryptoPanic.cfg` | violation | `NoPanic`: an unknown scheme name panics. |

### More findings

4. **Delegated role answers outside its paths** (`tuf.rs:527`). `lookup`
   never checks the current delegation's own patterns. It checks only the
   ancestors' patterns, and only at depth > 0.
5. **Early return skips siblings** (`tuf.rs:520-538`). A visited,
   non-matching, missing or expired delegation returns from the whole
   loop. A child's early `(false, None)` also lets the parent go on past a
   terminating delegation (`tuf.rs:556`).
6. **Two key ids for one RSA key** (`crypto.rs:231`).
7. **Panic on unknown scheme or key type** (`crypto.rs:109`, `197`).

### `TufClient.tla` and `TufRelease.tla`: client, repository and channel

`TufRelease` is the abstract promise, in three variables:

- `published`: the repository's newest release;
- `trusted`: the release whose targets the client trusts, 0 for none;
- `highest`: the newest release ever trusted.

Its actions are `Publish`, `Adopt(v)` (any published `v >= highest`) and
`Drop` (trust nothing for a while).

`TufClient` EXTENDS `Tuf` and composes three parts:

- **The engine**: the `Tuf` actions, unchanged.
- **The repository**: release `v` consists of `RepoTimestamp(v)`,
  `RepoSnapshot(v)` and `RepoTargets(v)`. They describe one another, are
  signed with the keys the trusted root assigns and expire at `MaxTime`.
  The repository is not in this source tree, so these are spec-modelled.
- **The caller and the channel**: `FetchTimestamp(v)`, `FetchSnapshot(v)`
  and `FetchTargets(v)` hand the engine a document of any release
  published so far. This models the fault model: the channel may lose,
  repeat, reorder or replay a document from an older release. Each fetch
  is the whole `update_*` handler.

Two more pieces complete the model:

- `highest` is a history variable, updated on every step. Without it, a
  rollback that goes through an empty slot (Drop, then Adopt of an older
  version) would look like a legal abstract step.
- `Tick` moves the clock, but keeps it below `MaxTime`. This is an
  environment assumption: an honest repository re-signs before its
  documents expire. Without it no client could stay current.

`ClientView` is the invariant that explains the refinement. It has three
parts:

- every document held is one the repository published;
- the snapshot held is the one the held timestamp describes;
- current targets version <= `highest` <= timestamp version <= `release`.

It names the assumption `RepoSignersAssumption`: the repository signs each
document with exactly the keys its role lists, and that key set is one of
`SignerSets`.

The refinement mapping is `published <- release`,
`trusted <- current_targets_version` and `highest <- highest`.
`ImplementsRelease == Release!Spec` is checked as a PROPERTY.

**Fairness.** `ClientFairness` is weak fairness on fetching each document
of the newest release. It stands for the caller's update loop, which
fetches the latest timestamp, snapshot and targets over and over. The
engine itself has no loop. `EventuallyCurrent` says the client ends up
trusting `targets` of the newest release, for good.

| Run | cfg | Expect | Checks | Bounds and why |
|---|---|---|---|---|
| client | `MC_TufClient.cfg` | pass | `ClientView`, `ImplementsRelease`, `EventuallyCurrent`, `SnapshotNoRollback`, `TargetsNoRollback` | Three releases (`MaxVersion = 3`), so a replay of release 1 can arrive after release 2 was trusted while release 3 is being published. The trusted root is any of the three role assignments of the engine run and is not rotated. Clock 0..1, below expiry 2. About 3k states. |

`SnapshotNoRollback` and `TargetsNoRollback` are the engine's own rollback
properties. The snapshot_rollback run finds `SnapshotNoRollback` violated,
and the targets_rollback run finds the weaker
`TargetsNoRollbackUnderSnapshot` violated, so `TargetsNoRollback` fails
there too. Here they hold: the rollbacks need a timestamp or snapshot that
describes an older version than its predecessor did, and an honest
repository never signs one. A replayed old timestamp is rejected by the
version check before it can clear anything.

The mutants of the five properties:

- `TimestampVerdict_no_rollback` leaves out the timestamp's rollback check.
  The view's version order breaks, and so does the refinement. A replayed
  timestamp 1 then clears snapshot 2, and snapshot 1 and targets 1 are
  accepted again, so both rollback properties break too.
- `current_snapshot_version_described` reads the version the timestamp
  describes where the code reads the held snapshot's version. Then
  `update_snapshot` answers `Unchanged` forever, and liveness breaks.

## 4. Proofs

`TufProofs.tla` (EXTENDS `Tuf`, `TLAPS`) proves, from the assumptions of
`Tuf.tla`:

- `TypeCorrect`: `Spec => []TypeOK`.
- `ConsistentViewInvariant`: `Spec => []ConsistentView`, where
  `ConsistentView` is the conjunction of `SnapshotMatchesTimestamp`,
  `TargetsMatchSnapshot`, `DelegationsNotAheadOfSnapshot` and
  `SignedUnderCurrentRoot`.
- `SnapshotMatchesTimestampInvariant`, `TargetsMatchSnapshotInvariant`,
  `SignedUnderCurrentRootInvariant` and
  `DelegationsNotAheadOfSnapshotInvariant`: the invariants of the engine
  and delegations runs, each a corollary of the above.
- `TimestampMonotonicHolds`: `Spec => TimestampMonotonic`. Lemma
  `NextTimestampStep` shows that, under `TypeOK`, every step keeps the
  timestamp or installs a strictly newer one
  (`TimestampVerdictVersion`), unless it rotates the root.
- `RootChainOfTrustHolds`: `Spec => RootChainOfTrust`. Lemma
  `RootAdvanced` says what an `Advanced` root verdict guarantees. Lemma
  `NextRootStep` shows that, under `TypeOK`, every `Next` step leaves the
  root alone or is a `RootStep`. The theorem combines it with
  `TypeCorrect` by PTL.

The assumptions used are `NoDocAssumption` (`None` is not a document) and
the types of the constants.

### The argument

The inductive invariant is `IInv == TypeOK /\ ConsistentView`.
`ConsistentView` alone is not inductive. The step for `update_snapshot`
needs `s.meta[x] \in Versions` and `delegations[x] \in TargetsDocs` to
compare versions. These come from `TypeOK`.

The lemmas `<Op>Advanced` extract what an `Advanced` verdict guarantees
about the new document:

- `update_snapshot`: the timestamp is present, and the new snapshot has the
  described version and is signed under the snapshot role.
- `update_targets`: the version the snapshot lists.
- `update_delegation`: the version the snapshot lists for that role.

There is one lemma per action (`RootIInv` ... `DelegationIInv`). Each has
one case for the commit and one for the error or no-op path.

### `TufClientProofs.tla`: the client view and the refinement

This module EXTENDS `TufClient` and `TufProofs`. It proves:

- `ClientViewInvariant`: `ClientSpec => []ClientView`.
- `ClientImplementsRelease`: `ClientSpec => ImplementsRelease`, that is,
  `ClientSpec => Release!Spec`.
- `ClientSnapshotNoRollback`: `ClientSpec => SnapshotNoRollback`.
- `ClientTargetsNoRollback`: `ClientSpec => TargetsNoRollback`.
- `ClientRunsEngine`: `ClientSpec => Spec`. Every client step is a step of
  the engine's `Next`, or it leaves the engine alone
  (`ClientStepIsEngineStep`). Each fetch hands a handler a document of the
  engine's type (`RepoDocsPresent`). `Tick` is `ClockChange`, and
  `Publish` does not touch the engine. So every theorem of `TufProofs`
  holds for the engine inside the client as well. `ClientConsistentView`
  states this for `ConsistentView`.

All of them hold for every number of releases and every key assignment. The
assumptions are those of `Tuf` and `RepoSignersAssumption`.

The inductive invariant is `CInv == root \in RootDocs /\ ClientView`.
`root \in RootDocs` is needed to show that a repository document belongs
to its document set (`RepoDocsPresent`), so that by `NoDocAssumption` it is
never the empty slot. The full `TypeOK` is not needed.

The argument, one lemma per action:

- `FetchTimestamp`: an accepted timestamp is strictly newer than the one
  held (`TimestampVerdictVersion` of `TufProofs`). So `highest <= timestamp version`
  survives.
- `FetchSnapshot`: the snapshot accepted is the one the timestamp
  describes (`SnapshotAdvanced` from `TufProofs`). The targets are kept or
  cleared (`FetchSnapshotFrame`).
- `FetchTargets`: the targets accepted are the version the snapshot lists,
  which is the timestamp's release. That is at least `highest`, and it
  becomes the new `highest` (`FetchTargetsEffect`).
- `Publish` and `Tick`: they change nothing the invariant reads, except
  `release`, which only grows.

The refinement step (`ClientStepRefines`) reuses the same lemmas:

- `Publish` maps to `Publish`.
- An accepted `FetchTargets` maps to `Adopt(v)`. `CInv` gives
  `v >= highest`.
- A snapshot that clears the targets maps to `Drop`.
- Every other step is a stutter.

The theorem closes with `InitRefines` and `ClientStepRefines` by PTL.

**No rollback.** The two rollback theorems have the form
`[](P => []Q)`. Each is proved from a state predicate `S` that is stable
(`CInv /\ S /\ [ClientNext]_clientVars => S'`), follows from `P`, and
gives `Q`. PTL then closes the proof from `[]CInv`.

- Snapshot: `S` is `current_timestamp_version >= v`. Under `CInv` the
  trusted snapshot's version is the timestamp's version. `S` is stable by
  `TimestampVersionStable`: an accepted timestamp is newer
  (`FetchTimestampVersion`), and no other client step touches the
  timestamp.
- Targets: the proof goes through the refinement. `TufReleaseProofs`
  proves `ReleaseNoRollback`, `Spec => NoRollback`, for the abstract
  model. Its invariant `RInv` says the release trusted, if any, is the
  newest ever trusted, and `HighestStable` says that one never goes down
  (Adopt's guard `v >= highest`). `TufClientProofs` instantiates
  `TufReleaseProofs` under the refinement mapping (`RP`). It gets
  `ClientSpec => RP!NoRollback` from `ClientImplementsRelease`. Then it
  reads `current_targets_version` back as the targets' version, which
  `CInv` makes nonzero whenever targets are held.

### `CryptoProofs.tla`: the keyring

`KeyringVerifiesOwnSignaturesInvariant` proves
`Spec => []KeyringVerifiesOwnSignatures` for every set of key pairs. The
invariant is not inductive as it stands, because it speaks of a witness
scheme.

The strengthening `KInv` states the stored form of every key: not junk,
and either an RSA key in PKCS#1 form or a 32-byte raw Ed25519 key. Two
lemmas carry it through the constructors:

- `Pkcs1ValueForm`: from_rsa stores PKCS#1 bytes whatever the input
  format.
- `Ed25519InputForm`: the only 32-byte input is a raw key.

`StoredFormVerifies` then picks the witness scheme.

### Left to TLC

TLAPS cannot check these, so only TLC does:

- the temporal rollback properties of the engine alone. They are
  violated there. Against an honest repository they are proved
  (`TufClientProofs`).
- `DelegationSignedByParentKeys` (violated);
- the liveness property `EventuallyCurrent` of `TufClient`. Liveness under
  fairness needs ENABLED and temporal reasoning beyond the provers
  installed here.
- everything in `TargetLookup`. It uses a RECURSIVE operator, which
  takes the SMT backend away from any module that reaches it, and what a
  recursive search returns for every graph is induction over data.
- `KeyIdDeterminism` and `NoPanic` of `Crypto`. They are violated.

## 5. Not modelled

- `metadata.rs`, `interchange`, `shims`, `rsa`: not in this source tree.
  Documents and `verify` are modelled from the spec and marked
  `spec_modelled`.
- Getters (`root()`, `snapshot()`, ...): read-only.
- The tests in `tuf.rs` 628-1000. Their scenarios are reachable in the model:
  rotation, replay, wrong key and wrong version.
- Cryptographic strength: signatures are ideal. A key signs exactly what
  `sigs` says.
