CONSTANTS
    RsaKeys = {m1, m2}
    EdKeys = {e1}
    Junk = Junk
SPECIFICATION Spec
INVARIANTS
    KeyringVerifiesOwnSignatures
