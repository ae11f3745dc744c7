---- MODULE Envelope ----
(***************************************************************************)
(* Sealed sectors (zero-crypto: aad.rs, encrypt.rs, sign.rs, envelope.rs): *)
(* what seal_envelope makes and what open_envelope accepts.                *)
(*                                                                         *)
(* The primitives (X25519, ML-KEM-768, HKDF, ChaCha20-Poly1305, Ed25519,   *)
(* ML-DSA-65) come from other crates and are modelled as free              *)
(* constructors: what they return is equal only for equal inputs.  A call  *)
(* returns [ok |-> value] or [err |-> CryptoError].                        *)
(***************************************************************************)
EXTENDS Integers, Sequences, FiniteSets

CONSTANTS
    Plaintexts,
    NoId        \* prev_sector_id: None

\* Bytes of the right length that no operation below returned.
Damaged == <<"damaged">>

\* Bytes of a length that no key, and no signature, has.
Truncated == <<"truncated">>

Ok(v) == [ok |-> v]
Err(e) == [err |-> e]
IsOk(r) == "ok" \in DOMAIN r

CryptoError == {"Hpke", "MlKem", "MlDsa", "Ed25519", "AadEncoding", "DecryptionFailed",
                "SignatureVerificationFailed: Ed25519",
                "SignatureVerificationFailed: ML-DSA-65"}

----------------------------------------------------------------------------
(* aad.rs: the AAD is a CBOR map, here the sequence of its entries *)

Integer(n) == <<"int", n>>
Bytes(b) == <<"bytes", b>>
Null == <<"null">>

\* Mutant: the entry of an absent predecessor is left out.
encode_M(aad) ==
    <<<<"epoch", Integer(aad.epoch)>>>>
    \o (IF aad.prev_sector_id = NoId THEN <<>>
        ELSE <<<<"prev_sector_id", Bytes(aad.prev_sector_id)>>>>)
    \o <<<<"schema_tag", Integer(aad.schema_tag)>>, <<"sector_id", Bytes(aad.sector_id)>>,
         <<"sender_identity", Bytes(aad.sender_identity)>>,
         <<"sender_machine", Bytes(aad.sender_machine)>>>>

\* encode: six entries in a fixed order, prev_sector_id always among them.
encode(aad) ==
    <<<<"epoch", Integer(aad.epoch)>>,
      <<"prev_sector_id", IF aad.prev_sector_id = NoId THEN Null
                          ELSE Bytes(aad.prev_sector_id)>>,
      <<"schema_tag", Integer(aad.schema_tag)>>,
      <<"sector_id", Bytes(aad.sector_id)>>,
      <<"sender_identity", Bytes(aad.sender_identity)>>,
      <<"sender_machine", Bytes(aad.sender_machine)>>>>

\* The kinds of value each key is read with (extract_u64, extract_bytes16).
ReadAs == [epoch |-> {"int"}, schema_tag |-> {"int"}, prev_sector_id |-> {"null", "bytes"},
           sector_id |-> {"bytes"}, sender_identity |-> {"bytes"},
           sender_machine |-> {"bytes"}]

\* decode: unknown keys are passed over, of a repeated key the last entry
\* counts; a value of the wrong kind, or a missing key, is an error.
decode(map) ==
    LET Entries(f) == {i \in DOMAIN map : map[i][1] = f}
        Value(f) == map[CHOOSE i \in Entries(f) : \A j \in Entries(f) : j =< i][2]
    IN  IF \E f \in DOMAIN ReadAs :
              \/ Entries(f) = {}
              \/ \E i \in Entries(f) : map[i][2][1] \notin ReadAs[f]
        THEN Err("AadEncoding")
        ELSE Ok([f \in DOMAIN ReadAs |-> IF Value(f) = Null THEN NoId ELSE Value(f)[2]])

----------------------------------------------------------------------------
(* encrypt.rs *)

\* A key pair is named after the randomness it was generated from.
generate_x25519_keypair(rng) == [secret |-> <<"x25519", rng>>, public |-> <<"X25519", rng>>]
generate_mlkem_keypair(rng) == [decap |-> <<"mlkem", rng>>, encap |-> <<"MLKEM", rng>>]

make_keypair(rng) ==
    LET x == generate_x25519_keypair(rng)
        k == generate_mlkem_keypair(rng)
    IN  [private |-> [x25519_secret |-> x.secret, mlkem_decap_key |-> k.decap],
         public  |-> [x25519 |-> x.public, mlkem_encap_key |-> k.encap]]

\* Either side of a Diffie-Hellman exchange gets the same secret.
diffie_hellman(secret, public) == {<<"X25519", secret[2]>>, public}

encapsulate(ek, rng) == [ct |-> <<"ct", ek, rng>>, ss |-> <<"ss", ek, rng>>]

\* decapsulate never fails: a ciphertext made for another key, or damaged,
\* gives a secret that nobody else has.
decapsulate(dk, ct) ==
    IF ct # Damaged /\ ct[2] = <<"MLKEM", dk[2]>> THEN <<"ss", ct[2], ct[3]>>
    ELSE <<"reject", dk, ct>>

derive_aead_key(x25519_ss, mlkem_ss) == <<x25519_ss, mlkem_ss>>

\* ChaCha20-Poly1305.
aead(key, nonce, msg, aad) == <<key, nonce, msg, aad>>

\* kem_output is the ephemeral public key (32 bytes), then the ciphertext of
\* ML-KEM, as two elements of a sequence.
hybrid_encrypt(plaintext, recipient, aad_bytes, rng) ==
    LET eph == generate_x25519_keypair(rng)
        kem == encapsulate(recipient.mlkem_encap_key, rng)
        key == derive_aead_key(diffie_hellman(eph.secret, recipient.x25519), kem.ss)
    IN  IF recipient.mlkem_encap_key = Truncated THEN Err("MlKem")
        ELSE Ok([kem_output |-> <<eph.public, kem.ct>>, nonce |-> <<"nonce", rng>>,
                 ciphertext |-> aead(key, <<"nonce", rng>>, plaintext, aad_bytes)])

\* The cipher opens exactly what was encrypted with this key, nonce and AAD.
hybrid_decrypt(ct, recipient_sk, aad_bytes) ==
    IF Len(ct.kem_output) < 2 THEN Err("DecryptionFailed")
    ELSE IF recipient_sk.mlkem_decap_key = Truncated THEN Err("MlKem")
    ELSE IF Len(ct.kem_output) > 2 THEN Err("DecryptionFailed")
    ELSE LET x25519_ss == diffie_hellman(recipient_sk.x25519_secret, ct.kem_output[1])
             mlkem_ss == decapsulate(recipient_sk.mlkem_decap_key, ct.kem_output[2])
             key == derive_aead_key(x25519_ss, mlkem_ss)
             opened == {p \in Plaintexts : ct.ciphertext = aead(key, ct.nonce, p, aad_bytes)}
         IN  IF opened = {} THEN Err("DecryptionFailed") ELSE Ok(CHOOSE p \in opened : TRUE)

----------------------------------------------------------------------------
(* sign.rs *)

generate_ed25519_keypair(rng) == [secret |-> <<"ed25519", rng>>, public |-> <<"Ed25519", rng>>]
generate_mldsa_keypair(rng) == [secret |-> <<"mldsa", rng>>, public |-> <<"MLDSA", rng>>]

SigningKeys(rng) == [ed25519_secret |-> generate_ed25519_keypair(rng).secret,
                     mldsa_secret |-> generate_mldsa_keypair(rng).secret]
VerifyingKeys(rng) == [ed25519_public |-> generate_ed25519_keypair(rng).public,
                       mldsa_public |-> generate_mldsa_keypair(rng).public]

\* A signature verifies under the public half of the key that made it.
signature(secret, message) == <<"signed", secret, message>>

dual_sign(message, keys) ==
    IF keys.mldsa_secret = Truncated THEN Err("MlDsa")
    ELSE Ok([ed25519 |-> signature(keys.ed25519_secret, message),
             mldsa |-> signature(keys.mldsa_secret, message)])

\* Mutant: one good signature is enough.
dual_verify_M(message, sig, keys) ==
    IF /\ sig.ed25519 # signature(<<"ed25519", keys.ed25519_public[2]>>, message)
       /\ sig.mldsa # signature(<<"mldsa", keys.mldsa_public[2]>>, message)
    THEN Err("SignatureVerificationFailed: Ed25519")
    ELSE Ok(TRUE)

\* Ed25519 first, then ML-DSA-65, and both must verify; keys and signatures
\* that are none are refused before they are used.
dual_verify(message, sig, keys) ==
    IF keys.ed25519_public = Damaged THEN Err("Ed25519")
    ELSE IF sig.ed25519 # signature(<<"ed25519", keys.ed25519_public[2]>>, message)
    THEN Err("SignatureVerificationFailed: Ed25519")
    ELSE IF Truncated \in {keys.mldsa_public, sig.mldsa} THEN Err("MlDsa")
    ELSE IF sig.mldsa # signature(<<"mldsa", keys.mldsa_public[2]>>, message)
    THEN Err("SignatureVerificationFailed: ML-DSA-65")
    ELSE Ok(TRUE)

----------------------------------------------------------------------------
(* envelope.rs *)

\* aad || kem_output || nonce, without the marks of where each ends; the
\* cipher's own output is not signed.
signing_message(aad, ct) == aad \o ct.kem_output \o <<ct.nonce>>

seal_envelope(plaintext, aad, recipient_pk, sender_sk, rng) ==
    LET bytes == encode(aad)
        ct == hybrid_encrypt(plaintext, recipient_pk, bytes, rng)
        sig == dual_sign(signing_message(bytes, ct.ok), sender_sk)
    IN  IF ~IsOk(ct) THEN ct
        ELSE IF ~IsOk(sig) THEN sig
        ELSE Ok([aad |-> bytes, ciphertext |-> ct.ok, signature |-> sig.ok])

\* The signatures are verified before anything is decrypted, and the AAD is
\* decoded last.
open_envelope(env, recipient_sk, sender_vk) ==
    LET verified == dual_verify(signing_message(env.aad, env.ciphertext),
                                env.signature, sender_vk)
        plaintext == hybrid_decrypt(env.ciphertext, recipient_sk, env.aad)
        aad == decode(env.aad)
    IN  IF ~IsOk(verified) THEN verified
        ELSE IF ~IsOk(plaintext) THEN plaintext
        ELSE IF ~IsOk(aad) THEN aad
        ELSE Ok(<<plaintext.ok, aad.ok>>)
====
