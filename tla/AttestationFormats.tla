------------------------- MODULE AttestationFormats -------------------------
(***************************************************************************)
(* The attestation statement formats: when each verifier accepts a         *)
(* statement for a credential, and how it classifies it.                   *)
(*                                                                         *)
(* Cryptography is symbolic: a signature is the record of its algorithm,   *)
(* key and signed data, a digest the pair of algorithm and data.  A parsed *)
(* structure is a record; what does not parse has `parses' FALSE or is     *)
(* Malformed, and an absent field or certificate extension is Absent.      *)
(*                                                                         *)
(* A request is [format, statement, authData, hash, key, alg, conveyance]: *)
(* authData = [rpId, id, aaguid, flags, key, attested], the client data    *)
(* hash, and the public key [kind, curve, bits, exponent, id] decoded from *)
(* authData, with its algorithm.  The ceremony never passes an empty hash  *)
(* or empty authenticator data, which the verifiers would refuse.          *)
(*                                                                         *)
(* A statement has its set of `fields', `typed' (each of them has the type *)
(* and the non-empty value that package attstmt asks for) and their values.*)
(***************************************************************************)
EXTENDS Integers, Sequences, FiniteSets

CONSTANTS
    Absent, Malformed,
    Algorithms,        \* algorithms enabled in the signature verifier
    HardwareOnly,      \* android-key: Policy.RequireHardwareEnforced
    SafetyNet          \* the SafetyNet policy: package, digests, versions,
                       \* maxAge, skew, cts, basic

Digest(hash, data) == <<hash, data>>

SignedData(req) == <<req.authData, req.hash>>

-----------------------------------------------------------------------------
(***************************************************************************)
(* Keys and signatures.                                                    *)
(***************************************************************************)

\* The kind of key and curve that VerifySignature demands for an algorithm.
AlgorithmKey ==
    [a \in {"ES256", "ESP256", "ES384", "ESP384", "ES512", "ESP512",
            "RS256", "RS384", "RS512", "PS256", "PS384", "PS512",
            "EdDSA", "Ed25519"} |->
        CASE a \in {"ES256", "ESP256"} -> <<"EC2", "P-256">>
          [] a \in {"ES384", "ESP384"} -> <<"EC2", "P-384">>
          [] a \in {"ES512", "ESP512"} -> <<"EC2", "P-521">>
          [] a \in {"EdDSA", "Ed25519"} -> <<"OKP", "Ed25519">>
          [] OTHER -> <<"RSA", "none">>]

\* RSAPublicKeyMaterial.Valid.
RSAValid(key) == key.bits \in 2048 .. 16384 /\ key.exponent >= 3 /\ key.exponent % 2 = 1

\* PublicKeyMaterial converts the public key of a certificate.
PublicKeySupported(key) ==
    CASE key.kind = "EC2" -> key.curve \in {"P-256", "P-384", "P-521"}
      [] key.kind = "RSA" -> RSAValid(key)
      [] key.kind = "OKP" -> key.curve = "Ed25519"

\* ValidatePublicKey: the key of the certificate is the credential's.
CertifiesKey(certificate, key) ==
    PublicKeySupported(certificate.key) /\ certificate.key = key

\* VerifySignature of the standard verifier; `live' unless the context is done.
VerifySignature(alg, key, signed, signature, live) ==
    /\ alg \in Algorithms
    /\ live
    /\ <<key.kind, key.curve>> = AlgorithmKey[alg]
    /\ key.kind = "RSA" => RSAValid(key)
    /\ signature = [alg |-> alg, key |-> key, signed |-> signed]

-----------------------------------------------------------------------------
(***************************************************************************)
(* Statements and certificates.                                            *)
(***************************************************************************)

\* The statement has exactly these fields.
HasFields(statement, fields) == statement.fields = fields /\ statement.typed

\* ParseCertificateChain: all of a non-empty chain parses.
ChainParses(x5c) == x5c # <<>> /\ \A i \in DOMAIN x5c : x5c[i].parses

\* Every required attribute of a name occurs once, with a proper tag and value.
NameHas(attributes, required) ==
    \A type \in required :
        \E i \in DOMAIN attributes :
            /\ attributes[i] = [type |-> type, proper |-> TRUE]
            /\ \A j \in DOMAIN attributes \ {i} : attributes[j].type # type

\* An extension that may be absent; if present it is not critical and parses.
Optional(extension) ==
    extension # Absent => ~extension.critical /\ extension.value # Malformed

\* The extension that names the authenticator model names this one.
AAGUIDExtensionMatches(certificate, aaguid) ==
    /\ Optional(certificate.aaguid)
    /\ certificate.aaguid # Absent => certificate.aaguid.value = aaguid

\* An end-entity X.509 version 3 certificate.
LeafConstraints(certificate) ==
    certificate.version = 3 /\ certificate.constraints = "leaf"

\* validatePackedCertificate.  A certificate for one device, with its serial
\* number, is for enterprise attestation alone.
PackedCertificate(certificate, aaguid, conveyance) ==
    /\ LeafConstraints(certificate)
    /\ NameHas(certificate.subject, {"C", "O", "OU", "CN"})
    /\ AAGUIDExtensionMatches(certificate, aaguid)
    /\ Optional(certificate.firmware)
    /\ certificate.firmware # Absent => certificate.firmware.value >= 0
    /\ Optional(certificate.serial)
    /\ certificate.serial # Absent => conveyance = "enterprise"

\* validateAIKCertificate.
AIKCertificate(certificate, aaguid) ==
    /\ LeafConstraints(certificate)
    /\ certificate.subject = <<>>
    /\ certificate.san # Absent /\ certificate.san.critical
    /\ NameHas(certificate.san.name, {"manufacturer", "model", "version"})
    /\ certificate.aikUsage
    /\ AAGUIDExtensionMatches(certificate, aaguid)

-----------------------------------------------------------------------------
(***************************************************************************)
(* none, packed, fido-u2f, apple.                                          *)
(***************************************************************************)

NoneVerifies(req) == req.statement.fields = {}

PackedSelf(req, live) ==
    /\ req.statement.alg = req.alg
    /\ VerifySignature(req.alg, req.key, SignedData(req), req.statement.sig, live)

PackedX5C(req, live) ==
    LET x5c == req.statement.x5c IN
    /\ req.authData.attested
    /\ ChainParses(x5c)
    /\ PackedCertificate(x5c[1], req.authData.aaguid, req.conveyance)
    /\ PublicKeySupported(x5c[1].key)
    /\ VerifySignature(req.statement.alg, x5c[1].key, SignedData(req),
                       req.statement.sig, live)

\* parseStatement of packed.
PackedStatement(statement) ==
    HasFields(statement, {"alg", "sig"}) \/ HasFields(statement, {"alg", "sig", "x5c"})

PackedVerifies(req, live) ==
    /\ PackedStatement(req.statement)
    /\ IF "x5c" \in req.statement.fields THEN PackedX5C(req, live) ELSE PackedSelf(req, live)

\* u2fVerificationData: neither the flags nor the AAGUID are signed.
U2FVerificationData(req) ==
    <<"u2f", req.authData.rpId, req.hash, req.authData.id, req.key>>

\* parseStatement of fido-u2f: a single certificate.
FidoU2FStatement(statement) ==
    HasFields(statement, {"x5c", "sig"}) /\ Len(statement.x5c) = 1

FidoU2FVerifies(req, live) ==
    LET x5c == req.statement.x5c IN
    /\ FidoU2FStatement(req.statement)
    /\ req.alg = "ES256" /\ req.key.curve = "P-256"
    /\ req.authData.attested
    /\ ChainParses(x5c)
    /\ x5c[1].key.kind = "EC2" /\ x5c[1].key.curve = "P-256"
    /\ VerifySignature("ES256", x5c[1].key, U2FVerificationData(req),
                       req.statement.sig, live)

\* expectedNonce, of Apple and of SafetyNet.
ExpectedNonce(req) == Digest("SHA-256", SignedData(req))

\* parseStatement of apple.
AppleStatement(statement) == HasFields(statement, {"x5c"})

\* The Apple verifier satisfied with any nonce.
AppleVerifiesAnyNonce(req) ==
    LET x5c == req.statement.x5c IN
    /\ AppleStatement(req.statement)
    /\ ChainParses(x5c)
    /\ x5c[1].nonce # Absent
    /\ CertifiesKey(x5c[1], req.key)

\* The nonce in the certificate stands for a signature: whoever issued the
\* certificate saw it.
AppleVerifies(req) ==
    LET x5c == req.statement.x5c IN
    /\ AppleStatement(req.statement)
    /\ ChainParses(x5c)
    /\ x5c[1].nonce = ExpectedNonce(req)
    /\ CertifiesKey(x5c[1], req.key)

-----------------------------------------------------------------------------
(***************************************************************************)
(* android-key and android-safetynet.                                      *)
(***************************************************************************)

\* authorizationListsExactlyMatchWebAuthn.
ExactlyMatchWebAuthn(lists) ==
    /\ UNION {list.origins : list \in lists} = {"generated"}
    /\ UNION {list.purposes : list \in lists} = {"sign"}

\* parseAndroidKeyDescription.
DescriptionParses(description) == description # Malformed

\* validateAndroidKeyExtension.
AndroidKeyDescription(description, hash) ==
    /\ DescriptionParses(description)
    /\ description.challenge = hash
    /\ ~description.software.allApplications /\ ~description.hardware.allApplications
    /\ IF HardwareOnly
       THEN /\ {description.level, description.keymaster} \subseteq {"TEE", "StrongBox"}
            /\ ExactlyMatchWebAuthn({description.hardware})
       ELSE ExactlyMatchWebAuthn({description.software, description.hardware})

\* parseStatement of android-key.
AndroidKeyStatement(statement) == HasFields(statement, {"alg", "sig", "x5c"})

AndroidKeyVerifies(req, live) ==
    LET x5c == req.statement.x5c IN
    /\ AndroidKeyStatement(req.statement)
    /\ ChainParses(x5c)
    /\ CertifiesKey(x5c[1], req.key)
    /\ x5c[1].description # Absent
    /\ AndroidKeyDescription(x5c[1].description, req.hash)
    /\ VerifySignature(req.statement.alg, x5c[1].key, SignedData(req),
                       req.statement.sig, live)

\* validatePolicy of SafetyNet.
SafetyNetPolicyValid ==
    /\ SafetyNet.package # "" /\ SafetyNet.digests # {} /\ "" \notin SafetyNet.versions
    /\ SafetyNet.maxAge > 0 /\ SafetyNet.skew >= 0
    /\ SafetyNet.cts \/ SafetyNet.basic

\* An integrity claim: absent is allowed unless it is required to be true.
ClaimHolds(claim, required) ==
    claim = TRUE \/ (~required /\ claim # Malformed)

\* validatePayload.
PayloadValid(payload, nonce, version, now) ==
    /\ payload # Malformed
    /\ SafetyNet.versions # {} => version \in SafetyNet.versions
    /\ payload.nonce = nonce
    /\ ClaimHolds(payload.cts, SafetyNet.cts)
    /\ ClaimHolds(payload.basic, SafetyNet.basic)
    /\ payload.timestamp > 0
    /\ payload.timestamp \in now - SafetyNet.maxAge .. now + SafetyNet.skew
    /\ payload.package = SafetyNet.package
    /\ payload.digests \cap SafetyNet.digests # {}

\* VerifyJWS: the caller's verifier checks the signature with the leaf's key.
VerifyJWS(jws) == jws.x5c # <<>> /\ jws.key = jws.x5c[1].key

\* parseStatement of android-safetynet.
SafetyNetStatement(statement) == HasFields(statement, {"ver", "response"})

\* validateSafetyNetCertificate: the leaf names the attestation service.
SafetyNetCertificate(x5c) == x5c[1].parses /\ x5c[1].host = "attest.android.com"

SafetyNetVerifies(req, now) ==
    LET jws == req.statement.response IN
    /\ SafetyNetPolicyValid
    /\ SafetyNetStatement(req.statement)
    /\ VerifyJWS(jws)
    /\ SafetyNetCertificate(jws.x5c)
    /\ PayloadValid(jws.payload, ExpectedNonce(req), req.statement.ver, now)

-----------------------------------------------------------------------------
(***************************************************************************)
(* tpm.                                                                    *)
(***************************************************************************)

\* signatureAlgorithmSpec: signature scheme and hash of a TPM signature.
TPMSignatureSpec ==
    [a \in {"ES256", "ES384", "ES512", "RS256", "RS384", "RS512",
            "PS256", "PS384", "PS512"} |->
        [scheme |-> CASE a \in {"ES256", "ES384", "ES512"} -> "ECDSA"
                      [] a \in {"RS256", "RS384", "RS512"} -> "RSASSA"
                      [] OTHER -> "RSAPSS",
         hash |-> CASE a \in {"ES256", "RS256", "PS256"} -> "SHA-256"
                    [] a \in {"ES384", "RS384", "PS384"} -> "SHA-384"
                    [] OTHER -> "SHA-512"]]

TPMHashes == {"SHA-256", "SHA-384", "SHA-512"}

\* validTPMRSAExponent that stops one divisor early.
PrimeExponentShort(exponent) ==
    LET trial[divisor \in Nat] ==
            \/ divisor >= exponent \div divisor
            \/ exponent % divisor # 0 /\ trial[divisor + 2]
    IN  exponent >= 3 /\ exponent % 2 = 1 /\ trial[3]

\* validTPMRSAExponent: trial division by odd numbers up to the square root.
PrimeExponent(exponent) ==
    LET trial[divisor \in Nat] ==
            \/ divisor > exponent \div divisor
            \/ exponent % divisor # 0 /\ trial[divisor + 2]
    IN  exponent >= 3 /\ exponent % 2 = 1 /\ trial[3]

\* The key in a public area; exponent zero stands for the default.
PublicAreaKey(area) ==
    IF area.key.kind = "RSA" /\ area.key.exponent = 0
    THEN [area.key EXCEPT !.exponent = 65537] ELSE area.key

\* parseScheme: the signing scheme is null, or allowed with a known hash.
SchemeParses(area, allowed) ==
    area.scheme = "null" \/ (area.scheme \in allowed /\ area.schemeHash \in TPMHashes)

\* parsePublicArea, parseECCPublicArea and parseRSAPublicArea.
PublicAreaParses(area) ==
    /\ area.parses /\ area.symmetric = "null"
    /\ \/ /\ area.key.kind = "EC2"
          /\ SchemeParses(area, {"ECDSA"}) /\ area.kdf = "null"
          /\ PublicKeySupported(area.key)
       \/ /\ area.key.kind = "RSA"
          /\ SchemeParses(area, {"RSASSA", "RSAPSS"})
          /\ area.keyBits % 8 = 0 /\ area.keyBits = area.key.bits
          /\ RSAValid(PublicAreaKey(area)) /\ PrimeExponent(PublicAreaKey(area).exponent)

\* name.
PublicAreaName(area) == <<area.nameAlg, Digest(area.nameAlg, area)>>

\* parseCertInfo, and validateCertInfoBinding without the name.
CertInfoBindsAnyName(certInfo, extraData, name) ==
    /\ certInfo.parses /\ certInfo.magic = "TPM_GENERATED" /\ certInfo.type = "certify"
    /\ certInfo.extraData = extraData

\* parseCertInfo and validateCertInfoBinding.
CertInfoBinds(certInfo, extraData, name) ==
    /\ certInfo.parses /\ certInfo.magic = "TPM_GENERATED" /\ certInfo.type = "certify"
    /\ certInfo.extraData = extraData
    /\ certInfo.name = name

\* parseTPMSignature.
TPMSignatureParses(signature, alg) ==
    /\ signature.parses
    /\ signature.scheme = TPMSignatureSpec[alg].scheme
    /\ signature.hash = TPMSignatureSpec[alg].hash

\* parseStatement of tpm.
TPMStatement(statement) ==
    HasFields(statement, {"ver", "alg", "x5c", "sig", "certInfo", "pubArea"})

\* validatePublicAreaBinding: the public area holds the credential's key.
PublicAreaBinds(area, key) == PublicAreaKey(area) = key

TPMVerifies(req, live) ==
    LET s == req.statement IN
    /\ TPMStatement(s)
    /\ s.ver = "2.0"
    /\ s.alg \in DOMAIN TPMSignatureSpec
    /\ req.authData.attested
    /\ PublicAreaParses(s.pubArea)
    /\ PublicAreaBinds(s.pubArea, req.key)
    /\ s.pubArea.nameAlg \in TPMHashes
    /\ CertInfoBinds(s.certInfo, Digest(TPMSignatureSpec[s.alg].hash, SignedData(req)),
                     PublicAreaName(s.pubArea))
    /\ ChainParses(s.x5c)
    /\ AIKCertificate(s.x5c[1], req.authData.aaguid)
    /\ TPMSignatureParses(s.sig, s.alg)
    /\ PublicKeySupported(s.x5c[1].key)
    /\ VerifySignature(s.alg, s.x5c[1].key, s.certInfo, s.sig.value, live)

-----------------------------------------------------------------------------

Formats == {"none", "packed", "fido-u2f", "apple", "android-key", "android-safetynet", "tpm"}

\* The verifier registered for the request's format accepts the statement.
FormatVerifies(req, now, live) ==
    CASE req.format = "none" -> NoneVerifies(req)
      [] req.format = "packed" -> PackedVerifies(req, live)
      [] req.format = "fido-u2f" -> FidoU2FVerifies(req, live)
      [] req.format = "apple" -> AppleVerifies(req)
      [] req.format = "android-key" -> AndroidKeyVerifies(req, live)
      [] req.format = "android-safetynet" -> SafetyNetVerifies(req, now)
      [] req.format = "tpm" -> TPMVerifies(req, live)

\* Its result: the attestation type, and the certificates of the trust path.
FormatResult(req) ==
    LET x5c == IF req.format = "android-safetynet" THEN req.statement.response.x5c
               ELSE IF "x5c" \in req.statement.fields THEN req.statement.x5c ELSE <<>>
    IN  [format |-> req.format,
         type |-> CASE req.format = "none" -> "none"
                    [] req.format = "packed" /\ x5c = <<>> -> "self"
                    [] req.format = "packed" /\ x5c # <<>> -> "uncertain"
                    [] req.format = "fido-u2f" -> "uncertain"
                    [] req.format = "apple" -> "anonymization-ca"
                    [] req.format = "tpm" -> "attca"
                    [] OTHER -> "basic",
         path |-> IF x5c = <<>> THEN "none" ELSE "x5c",
         certificates |-> x5c]
=============================================================================
