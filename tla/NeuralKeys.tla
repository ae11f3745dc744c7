---- MODULE NeuralKeys ----
(***************************************************************************)
(* NeuralKey and its Shamir shares (zero-identity: neural_key.rs).         *)
(* Hashing and secret sharing come from other crates.  A call returns      *)
(* [ok |-> value] or [err |-> IdentityError].                              *)
(***************************************************************************)
EXTENDS Integers, Sequences, FiniteSets

CONSTANTS
    NeuralKey,      \* 256-bit root secrets
    Stranger,       \* the key that shares which do not belong together give
    keyed_hash,     \* BLAKE3 under the identity-id context, cut to 16 bytes
    MAX_SHARES,
    NotAShare       \* bytes that ShamirShare::from_bytes refuses

ASSUME KeyConstants ==
    /\ Stranger \in NeuralKey
    /\ DOMAIN keyed_hash = NeuralKey
    /\ \A k1, k2 \in NeuralKey : keyed_hash[k1] = keyed_hash[k2] => k1 = k2
    /\ MAX_SHARES \in Nat \ {0}
    /\ NotAShare \notin [of : NeuralKey, threshold : Nat, index : Nat]

IdentityError == {"Zid", "InvalidShareConfig", "ShareRecoveryFailed", "KeyNotFound",
                  "SerializationError", "SealError", "UnsealError"}

identity_id(key) == keyed_hash[key]

\* shamir_split: points of one polynomial.  Only the index and the value go
\* into the bytes of a share: nothing in them tells the threshold.
Share(key, cfg, i) == [of |-> key, threshold |-> cfg.threshold, index |-> i]

split_neural_key(key, cfg) ==
    IF cfg.threshold = 0 \/ cfg.total < cfg.threshold \/ cfg.total > MAX_SHARES
    THEN [err |-> "InvalidShareConfig"]
    ELSE [ok |-> [shares |-> [i \in 1 .. cfg.total |-> Share(key, cfg, i)],
                  threshold |-> cfg.threshold]]

\* shamir_combine: equal indexes are refused; the points of one polynomial give
\* the secret back when they are enough, and something else when they are not,
\* unless the library notices.
shamir_combine(shares) ==
    LET indexes == {shares[i].index : i \in DOMAIN shares}
        enough == \A i \in DOMAIN shares : Len(shares) >= shares[i].threshold
    IN  IF Cardinality(indexes) # Len(shares) THEN {[err |-> "ShareRecoveryFailed"]}
        ELSE IF enough THEN {[ok |-> shares[1].of]}
        ELSE {[err |-> "ShareRecoveryFailed"], [ok |-> Stranger]}

\* recover_neural_key, as the set of results it may have.
recover_neural_key(shares, threshold) ==
    IF threshold = 0 \/ Len(shares) < threshold \/ Len(shares) > MAX_SHARES
    THEN {[err |-> "InvalidShareConfig"]}
    ELSE IF NotAShare \in {shares[i] : i \in DOMAIN shares}
    THEN {[err |-> "ShareRecoveryFailed"]}
    ELSE shamir_combine(shares)
====
