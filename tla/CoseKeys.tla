------------------------------ MODULE CoseKeys ------------------------------
(***************************************************************************)
(* The key of one credential from the algorithm offered to the signature   *)
(* verified: selection in makeCredential, key generation, the COSE key in  *)
(* the attested credential data, the signature of an assertion and the     *)
(* COSE key that enumerateCredentials reports.  A firmware update may      *)
(* change the rs256 feature of the build under a stored credential.  Keys  *)
(* and signatures are terms: what made them and which key pair they are.   *)
(***************************************************************************)
EXTENDS Integers, Sequences

CONSTANTS
  None,
  Offers,      \* bound: the pubKeyCredParams lists a relying party sends
  MaxUpdates   \* bound: firmware updates

VARIABLES
  rs256,       \* the build has the rs256 feature
  updates,
  offered,     \* the list of the registration, or None
  credential,  \* the stored credential, or None
  registered,  \* the COSE key the relying party keeps, or None
  assertion,   \* the signature of the last assertion, or None
  listed       \* the COSE key enumerateCredentials reported last, or None

vars == <<rs256, updates, offered, credential, registered, assertion, listed>>

----------------------------------------------------------------------------
(* Key pairs and signatures. *)

\* A private key and a public key in the format the generator returns.
Pair(format, len) == [private |-> [format |-> format, len |-> IF format = "seed" THEN 32 ELSE 138],
                      public |-> [format |-> format, len |-> len]]
generate_key_pair == Pair("seed", 32)
generate_p256_key_pair == Pair("p256", 65)
generate_p384_key_pair == Pair("p384", 97)
generate_rsa_key_pair == Pair("rsa", 270)

\* Signing parses the private key first; what does not parse is an error.
Signs(private, format, scheme) == IF private.format = format THEN scheme ELSE None
sign_p256(private) == Signs(private, "p256", "ES256")
sign_p384(private) == Signs(private, "p384", "ES384")
sign_rsa_pss(private) == Signs(private, "rsa", "PS256")
sign_rsa(private) == Signs(private, "rsa", "RS256")
sign(private) == IF private.len # 32 THEN None ELSE "EdDSA"

----------------------------------------------------------------------------
(* COSE keys: type, algorithm, curve and the named parts of the key. *)

Cose(kty, alg, crv, public, x, y) ==
  [kty |-> kty, alg |-> alg, crv |-> crv, of |-> public.format, x |-> x, y |-> y]
build_cose_key(public) == Cose(1, -8, 6, public, public.len, 0)
build_cose_key_p256(public) == Cose(2, -7, 1, public, 32, 32)
build_cose_key_p384(public) == Cose(2, -35, 2, public, 48, 48)
build_cose_key_rsa(public) == Cose(3, -257, 0, public, 256, 3)
build_cose_key_rsa_pss(public) == Cose(3, -37, 0, public, 256, 3)

\* What a relying party does with a key and a signature.
verify_ed25519(cose, sig) == cose.alg = -8 /\ cose.of = "seed" /\ cose.x = 32 /\ sig = "EdDSA"
verify_p256(cose, sig) == cose.alg = -7 /\ cose.of = "p256" /\ sig = "ES256"
verify_p384(cose, sig) == cose.alg = -35 /\ cose.of = "p384" /\ sig = "ES384"
verify_rsa_pss(cose, sig) == cose.alg = -37 /\ cose.of = "rsa" /\ sig = "PS256"
verify_rsa(cose, sig) == cose.alg = -257 /\ cose.of = "rsa" /\ sig = "RS256"
Verifies(cose, sig) ==
  \/ verify_ed25519(cose, sig) \/ verify_p256(cose, sig) \/ verify_p384(cose, sig)
  \/ verify_rsa_pss(cose, sig) \/ verify_rsa(cose, sig)

----------------------------------------------------------------------------
(* makeCredential, getAssertion, enumerateCredentials. *)

\* The algorithms this build takes from an offer.
Supported == {-7, -8, -35} \union (IF rs256 THEN {-37, -257} ELSE {})

\* The first supported one wins; an empty list means EdDSA.
selected_alg(offer) ==
  LET fit == {i \in DOMAIN offer : offer[i] \in Supported}
  IN  IF offer = <<>> THEN -8 ELSE IF fit = {} THEN None
      ELSE offer[CHOOSE i \in fit : \A j \in fit : i <= j]

key_pair(alg) ==
  CASE alg = -7 -> generate_p256_key_pair
    [] alg = -35 -> generate_p384_key_pair
    [] alg \in {-37, -257} -> generate_rsa_key_pair
    [] OTHER -> generate_key_pair

\* The key in attestedCredentialData.
build_auth_data(alg, public) ==
  CASE alg = -7 -> IF public.len = 65 THEN build_cose_key_p256(public) ELSE None
    [] alg = -35 -> IF public.len = 97 THEN build_cose_key_p384(public) ELSE None
    [] alg = -37 /\ rs256 -> build_cose_key_rsa_pss(public)
    [] alg = -257 /\ rs256 -> build_cose_key_rsa(public)
    [] OTHER -> build_cose_key(public)

\* Mutant: both RSA algorithms sign with PKCS#1 v1.5.
signature_mutant(c) ==
  CASE c.algorithm = -7 -> sign_p256(c.private)
    [] c.algorithm = -35 -> sign_p384(c.private)
    [] c.algorithm \in {-37, -257} /\ rs256 -> sign_rsa(c.private)
    [] OTHER -> sign(c.private)

\* An RSA credential met by a build without the feature falls to Ed25519, whose seed
\* check refuses its private key.
signature(c) ==
  CASE c.algorithm = -7 -> sign_p256(c.private)
    [] c.algorithm = -35 -> sign_p384(c.private)
    [] c.algorithm = -37 /\ rs256 -> sign_rsa_pss(c.private)
    [] c.algorithm = -257 /\ rs256 -> sign_rsa(c.private)
    [] OTHER -> sign(c.private)

\* The key enumerateCredentials reports: P-256, or Ed25519 whatever the credential is.
cose_key_value(c) ==
  IF c.algorithm = -7
  THEN Cose(2, -7, 1, c.public, 32, IF c.public.len \in {64, 65} THEN 32 ELSE 0)
  ELSE Cose(1, -8, 6, c.public, c.public.len, 0)

Init ==
  /\ rs256 \in BOOLEAN
  /\ updates = 0
  /\ offered = None /\ credential = None /\ registered = None
  /\ assertion = None /\ listed = None

\* The relying party keeps the key only if the registration succeeds.
make_credential(offer) ==
  LET alg == selected_alg(offer)
      pair == key_pair(alg)
      cose == build_auth_data(alg, pair.public)
  IN  /\ credential = None /\ offered = None
      /\ offered' = offer
      /\ IF alg = None THEN UNCHANGED <<credential, registered>>
         ELSE /\ credential' = [algorithm |-> alg, private |-> pair.private,
                                public |-> pair.public]
              /\ registered' = cose
      /\ UNCHANGED <<rs256, updates, assertion, listed>>

get_assertion ==
  /\ credential # None
  /\ assertion' = signature(credential)
  /\ UNCHANGED <<rs256, updates, offered, credential, registered, listed>>

enumerate_credentials ==
  /\ credential # None
  /\ listed' = cose_key_value(credential)
  /\ UNCHANGED <<rs256, updates, offered, credential, registered, assertion>>

\* A refused relying party offers another list.
Retry ==
  /\ offered # None /\ credential = None
  /\ offered' = None
  /\ UNCHANGED <<rs256, updates, credential, registered, assertion, listed>>

Update ==
  /\ updates < MaxUpdates
  /\ updates' = updates + 1
  /\ rs256' = ~rs256
  /\ UNCHANGED <<offered, credential, registered, assertion, listed>>

Next ==
  \/ \E offer \in Offers : make_credential(offer)
  \/ get_assertion \/ enumerate_credentials \/ Retry \/ Update

Spec == Init /\ [][Next]_vars

Signatures == {"EdDSA", "ES256", "ES384", "PS256", "RS256"}
Formats == {"seed", "p256", "p384", "rsa"}
KeyParts == [format : Formats, len : Int]
Credentials == [algorithm : Int, private : KeyParts, public : KeyParts]
CoseKeySet == [kty : Int, alg : Int, crv : Int, of : Formats, x : Int, y : Int]

\* None is no algorithm, offer, credential, key or signature.
ConstantsOK ==
  /\ Offers # {} /\ MaxUpdates \in Nat /\ \A offer \in Offers : offer \in Seq(Int)
  /\ None \notin Int /\ None \notin Offers /\ None \notin Signatures
  /\ None \notin Credentials /\ None \notin CoseKeySet

----------------------------------------------------------------------------
(* Properties. *)

\* Every assertion the device signs verifies under the key the relying party kept, also
\* after an update to a build that does not know the credential's algorithm.
AssertionVerifies ==
  assertion # None => registered # None /\ Verifies(registered, assertion)

\* The relying party gets the algorithm it prefers among the ones the build supports:
\* every supported one before it in the list would have been taken.
PreferredAlgorithm ==
  credential # None /\ updates = 0 =>
    \/ offered = <<>> /\ registered.alg = -8
    \/ \E i \in DOMAIN offered :
         /\ offered[i] = registered.alg
         /\ \A j \in 1..i - 1 : offered[j] \notin Supported

\* enumerateCredentials reports the key that was registered, of the two algorithms
\* cose_key_value knows; keys of the others it reports as Ed25519 keys.
ListedAsRegistered ==
  listed # None /\ credential.algorithm \in {-7, -8} => listed = registered

\* Type invariant.
TypeOK ==
  /\ rs256 \in BOOLEAN /\ updates \in 0..MaxUpdates
  /\ offered = None \/ offered \in Offers
  /\ credential = None <=> registered = None
  /\ credential = None \/ credential.algorithm \in {-7, -8, -35, -37, -257}
  /\ assertion \in Signatures \cup {None}
=============================================================================
