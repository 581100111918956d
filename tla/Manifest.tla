------------------------------- MODULE Manifest -------------------------------
(***************************************************************************)
(* Signed policy manifests: sign_manifest and load_manifest.               *)
(*                                                                         *)
(* A policy is what the pipeline reads of it (grants, deny_categories, the *)
(* ceiling in its metadata), and whether its fields have the shapes the    *)
(* loader converts them to.  An Ed25519 signature is the key that made it  *)
(* and the policy it was made over; it is valid for no other.  Canonical   *)
(* JSON is injective: two policies have the same bytes only when equal.    *)
(***************************************************************************)
CONSTANTS
    Keys,
    Absent,         \* a field of an envelope, or a trusted key, that is not given
    Misshapen,      \* a policy that is not an object
    NoFile, BadJSON,    \* files load_manifest turns away with a ManifestError
    Unreadable      \* a file whose reading, or whose shape, raises another error

\* sign_manifest
SignManifest(policy, signer) ==
    [policy |-> policy,
     signature |-> [key |-> signer, policy |-> policy],
     public_key |-> signer]

Readable(file) == file \notin {NoFile, BadJSON, Unreadable}

\* `trusted_pubkey or embedded'
PublicKey(file, trusted) == IF trusted # Absent THEN trusted ELSE file.public_key

\* _verify_envelope: the two keys agree when both are there, and the signature
\* is of that key over the whole policy.
Verifies_GrantsOnly(file, trusted) ==
    /\ file.policy \notin {Absent, Misshapen} /\ file.signature # Absent
    /\ PublicKey(file, trusted) # Absent
    /\ Absent \in {trusted, file.public_key} \/ trusted = file.public_key
    /\ file.signature.key = PublicKey(file, trusted)
    /\ file.signature.policy.grants = file.policy.grants
Verifies(file, trusted) ==
    /\ file.policy \notin {Absent, Misshapen} /\ file.signature # Absent
    /\ PublicKey(file, trusted) # Absent
    /\ Absent \in {trusted, file.public_key} \/ trusted = file.public_key
    /\ file.signature = [key |-> PublicKey(file, trusted), policy |-> file.policy]

\* load_manifest raises a ManifestError, or returns the policy; else a read or a
\* conversion raises an error of its own.
Refused(file, trusted) ==
    \/ file \in {NoFile, BadJSON}
    \/ Readable(file) /\ ~ Verifies(file, trusted)
Loads(file, trusted) ==
    Readable(file) /\ Verifies(file, trusted) /\ file.policy.converts
=============================================================================
