------------------------------- MODULE Crypto -------------------------------
(***************************************************************************)
(* The key handling of src/src/crypto.rs: the PublicKey constructors      *)
(* from_ed25519 and from_rsa with calculate_key_id, PublicKey::verify,    *)
(* and the deserialization of SignatureScheme and KeyType strings.  The   *)
(* state is the keyring of PublicKeys a client has built and the result   *)
(* of its last call.                                                       *)
(*                                                                         *)
(* Byte strings are abstracted to what the code tells apart: the PKCS#1   *)
(* or SPKI DER encoding of an RSA key, a raw Ed25519 key of some length,  *)
(* or bytes no parser accepts.  SHA-256 is a collision-free digest: the   *)
(* tagged image of its input.                                             *)
(***************************************************************************)
EXTENDS Naturals

CONSTANTS
    RsaKeys,        \* RSA key pairs
    EdKeys,         \* Ed25519 key pairs
    Junk            \* bytes no key parser accepts

ASSUME CryptoAssumption == RsaKeys # {} /\ EdKeys # {}

Pkcs1(m) == [enc |-> "pkcs1", key |-> m, len |-> 270]
Spki(m)  == [enc |-> "spki",  key |-> m, len |-> 294]
Raw(e, n) == [enc |-> "raw", key |-> e, len |-> n]

\* The inputs a caller can hand to a constructor.
Inputs ==
    {Pkcs1(m) : m \in RsaKeys} \cup {Spki(m) : m \in RsaKeys}
        \cup {Raw(e, n) : e \in EdKeys, n \in {31, 32}} \cup {Junk}

ByteLength(b) == IF b = Junk THEN 0 ELSE b.len

KeyFormats == {"HexLower", "Pkcs1", "Spki"}
SchemeNames == {"ed25519", "rsassa-pss-sha256", "rsassa-pss-sha512"}
KeyTypeNames == {"ed25519", "rsa"}
\* Strings met in deserialized metadata: the known names and one other.
Names == SchemeNames \cup KeyTypeNames \cup {"unknown"}

Results == {"Ok", "Decode", "IllegalArgument", "BadSignature", "Panic"}

VARIABLES keyring, result
vars == <<keyring, result>>

\* SHA-256 over the bytes.
Sha256(b) == [digest |-> b]

\* calculate_key_id(public_key)
calculate_key_id(value) == Sha256(value)

\* rsa::from_pkcs1: the PKCS#1 bytes of a parseable key, or None.
from_pkcs1(b) == IF b # Junk /\ b.enc = "pkcs1" THEN b ELSE Junk

\* Mutant: the SPKI bytes stored as they came, without conversion.
from_spki_unconverted(b) == IF b # Junk /\ b.enc = "spki" THEN b ELSE Junk

\* rsa::from_spki: the PKCS#1 bytes of the key inside the SPKI structure.
from_spki(b) == IF b # Junk /\ b.enc = "spki" THEN Pkcs1(b.key) ELSE Junk

\* PublicKey::from_ed25519(value)
from_ed25519(value) ==
    IF ByteLength(value) # 32
    THEN /\ result' = "Decode"
         /\ UNCHANGED keyring
    ELSE /\ keyring' = keyring \cup
                {[typ |-> "ed25519", format |-> "HexLower",
                  key_id |-> calculate_key_id(value), value |-> value]}
         /\ result' = "Ok"

\* The PKCS#1 value from_rsa stores, by format, or Junk for an error.
pkcs1_value(value, format) ==
    CASE format = "Pkcs1" -> from_pkcs1(value)
      [] format = "Spki"  -> from_spki(value)
      [] OTHER            -> Junk

\* PublicKey::from_rsa(value, format): the key id is taken over the bytes
\* passed in, before the conversion to PKCS#1.
from_rsa(value, format) ==
    LET key_id == calculate_key_id(value)
        stored == pkcs1_value(value, format)
    IN IF stored = Junk
       THEN /\ result' = "IllegalArgument"
            /\ UNCHANGED keyring
       ELSE /\ keyring' = keyring \cup
                   {[typ |-> "rsa", format |-> format,
                     key_id |-> key_id, value |-> stored]}
            /\ result' = "Ok"

\* The key type each scheme verifies with ring.
SchemeKeyType(scheme) == IF scheme = "ed25519" THEN "ed25519" ELSE "rsa"

\* ring::signature::verify(alg, key, msg, sig) for a signature made by key
\* pair `signer` under `scheme`: the key bytes must be in the form the
\* algorithm reads (32 raw Ed25519 bytes, or PKCS#1 RSA), of the signer's
\* pair.
ring_verify(scheme, value, signer, sigScheme) ==
    /\ value # Junk
    /\ value.key = signer
    /\ scheme = sigScheme
    /\ IF SchemeKeyType(scheme) = "ed25519" THEN value.enc = "raw" /\ value.len = 32
                                             ELSE value.enc = "pkcs1"

\* PublicKey::verify(scheme, msg, sig)
verify(k, scheme, signer, sigScheme) ==
    /\ result' = IF ring_verify(scheme, k.value, signer, sigScheme)
                 THEN "Ok" ELSE "BadSignature"
    /\ UNCHANGED keyring

\* <SignatureScheme as Deserialize> and <KeyType as Deserialize>:
\* string.parse().unwrap().
deserialize_name(s, known) ==
    /\ result' = IF s \in known THEN "Ok" ELSE "Panic"
    /\ UNCHANGED keyring

Init ==
    /\ keyring = {}
    /\ result = "Ok"

Next ==
    \/ \E v \in Inputs : from_ed25519(v)
    \/ \E v \in Inputs, f \in KeyFormats : from_rsa(v, f)
    \/ \E k \in keyring, s \in SchemeNames, p \in RsaKeys \cup EdKeys,
          ps \in SchemeNames : verify(k, s, p, ps)
    \/ \E s \in Names : deserialize_name(s, SchemeNames)
    \/ \E s \in Names : deserialize_name(s, KeyTypeNames)

Spec == Init /\ [][Next]_vars

-----------------------------------------------------------------------------
TypeOK ==
    /\ \A k \in keyring :
          /\ k.typ \in KeyTypeNames
          /\ k.format \in KeyFormats
          /\ k.value \in Inputs \ {Junk}
    /\ result \in Results

(***************************************************************************)
(* Every key in the keyring can verify the signatures of its own key      *)
(* pair: from_rsa stores the PKCS#1 form ring reads, whatever format the  *)
(* key arrived in, and from_ed25519 stores a 32-byte raw key.             *)
(***************************************************************************)
KeyringVerifiesOwnSignatures ==
    \A k \in keyring : \E s \in SchemeNames :
        /\ SchemeKeyType(s) = k.typ
        /\ ring_verify(s, k.value, k.value.key, s)

(***************************************************************************)
(* Key-id determinism (spec section 8): KeyId(k) = SHA-256(stored bytes), *)
(* so two keys holding the same stored bytes have the same key id,        *)
(* whatever form the key was imported from.                               *)
(***************************************************************************)
KeyIdDeterminism ==
    \A k1, k2 \in keyring : k1.value = k2.value => k1.key_id = k2.key_id

(***************************************************************************)
(* Deserializing a signature scheme or key type string returns an error  *)
(* for an unknown name (spec: UnsupportedSignatureScheme /               *)
(* UnsupportedKeyType); the process never panics.                         *)
(***************************************************************************)
NoPanic == result # "Panic"

=============================================================================
