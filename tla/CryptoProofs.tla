---------------------------- MODULE CryptoProofs ----------------------------
(***************************************************************************)
(* Proofs about the key handling of Crypto.tla, for every set of key      *)
(* pairs.                                                                  *)
(***************************************************************************)
EXTENDS Crypto, TLAPS

\* What the constructors store: every key holds parseable bytes, in PKCS#1
\* form for an RSA key and as 32 raw bytes for an Ed25519 key.
StoredForm(k) ==
    /\ k.value # Junk
    /\ \/ k.typ = "rsa" /\ k.value.enc = "pkcs1"
       \/ k.typ = "ed25519" /\ k.value.enc = "raw" /\ k.value.len = 32

KInv == \A k \in keyring : StoredForm(k)

\* from_pkcs1, from_spki and the HexLower branch of from_rsa: whatever
\* from_rsa would store is PKCS#1 bytes, unless it is the error value.
LEMMA Pkcs1ValueForm ==
    ASSUME NEW value, NEW format, pkcs1_value(value, format) # Junk
    PROVE  pkcs1_value(value, format).enc = "pkcs1"
BY DEF pkcs1_value, from_pkcs1, from_spki, Pkcs1

\* The only input of 32 bytes is a raw Ed25519 key.
LEMMA Ed25519InputForm ==
    ASSUME NEW value \in Inputs, ByteLength(value) = 32
    PROVE  value # Junk /\ value.enc = "raw" /\ value.len = 32
BY DEF Inputs, ByteLength, Pkcs1, Spki, Raw

LEMMA InitKInv == Init => KInv
BY DEF Init, KInv

LEMMA NextKInv == KInv /\ [Next]_vars => KInv'
<1> SUFFICES ASSUME KInv, [Next]_vars PROVE KInv'
    OBVIOUS
<1>1. ASSUME NEW v \in Inputs, from_ed25519(v) PROVE KInv'
    <2>1. CASE ByteLength(v) # 32
        BY <1>1, <2>1 DEF from_ed25519, KInv
    <2>2. CASE ByteLength(v) = 32
        <3>1. v # Junk /\ v.enc = "raw" /\ v.len = 32
            BY <2>2, Ed25519InputForm
        <3>2. QED
            BY <1>1, <2>2, <3>1 DEF from_ed25519, KInv, StoredForm
    <2>3. QED
        BY <2>1, <2>2
<1>2. ASSUME NEW v \in Inputs, NEW f \in KeyFormats, from_rsa(v, f)
      PROVE  KInv'
    <2>1. CASE pkcs1_value(v, f) = Junk
        BY <1>2, <2>1 DEF from_rsa, KInv
    <2>2. CASE pkcs1_value(v, f) # Junk
        <3>1. pkcs1_value(v, f).enc = "pkcs1"
            BY <2>2, Pkcs1ValueForm
        <3>2. QED
            BY <1>2, <2>2, <3>1 DEF from_rsa, KInv, StoredForm
    <2>3. QED
        BY <2>1, <2>2
<1>3. ASSUME NEW k \in keyring, NEW s \in SchemeNames,
             NEW p \in RsaKeys \cup EdKeys, NEW ps \in SchemeNames,
             verify(k, s, p, ps)
      PROVE  KInv'
    BY <1>3 DEF verify, KInv
<1>4. ASSUME NEW s \in Names, NEW known \in {SchemeNames, KeyTypeNames},
             deserialize_name(s, known)
      PROVE  KInv'
    BY <1>4 DEF deserialize_name, KInv
<1>5. CASE UNCHANGED vars
    BY <1>5 DEF vars, KInv
<1>6. QED
    BY <1>1, <1>2, <1>3, <1>4, <1>5 DEF Next

\* A key in its stored form verifies its own pair's signatures under one
\* scheme of its type.
LEMMA StoredFormVerifies ==
    ASSUME NEW k, StoredForm(k)
    PROVE  \E s \in SchemeNames :
              /\ SchemeKeyType(s) = k.typ
              /\ ring_verify(s, k.value, k.value.key, s)
<1> USE DEF SchemeNames
<1>1. CASE k.typ = "rsa"
    <2>1. WITNESS "rsassa-pss-sha256" \in SchemeNames
    <2>2. QED
        BY <1>1 DEF StoredForm, SchemeKeyType, ring_verify
<1>2. CASE k.typ = "ed25519"
    <2>1. WITNESS "ed25519" \in SchemeNames
    <2>2. QED
        BY <1>2 DEF StoredForm, SchemeKeyType, ring_verify
<1>3. QED
    BY <1>1, <1>2 DEF StoredForm

\* Whatever sequence of from_ed25519, from_rsa (PKCS#1 or SPKI), verify and
\* deserialize calls a client makes, every key in its keyring verifies the
\* signatures of its own key pair: from_rsa converts SPKI to the PKCS#1 form
\* ring reads, and from_ed25519 accepts 32 bytes only.
THEOREM KeyringVerifiesOwnSignaturesInvariant ==
    Spec => []KeyringVerifiesOwnSignatures
<1>1. Spec => []KInv
    BY InitKInv, NextKInv, PTL DEF Spec
<1>2. KInv => KeyringVerifiesOwnSignatures
    BY StoredFormVerifies DEF KInv, KeyringVerifiesOwnSignatures
<1>3. QED
    BY <1>1, <1>2, PTL

=============================================================================
