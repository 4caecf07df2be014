---------------------------- MODULE MCAttestation ----------------------------
(***************************************************************************)
(* Attestation with genuine statements of every format, statements that    *)
(* differ from a genuine one in one respect, and compound statements.      *)
(***************************************************************************)
EXTENDS Attestation, TLC

Key(kind, curve, exponent, id) ==
    [kind |-> kind, curve |-> curve, exponent |-> exponent, id |-> id,
     bits |-> IF kind = "RSA" THEN 2048 ELSE 0]

CredentialKey(id) == Key("EC2", "P-256", 0, id)
RSAKey(exponent) == Key("RSA", "none", exponent, "rsa")
AttestationKey == Key("EC2", "P-256", 0, "attestation")
AIK == Key("RSA", "none", 65537, "aik")

Ceremony(key, flags, hash, conveyance) ==
    [authData |-> [rpId |-> "example", id |-> key.id, aaguid |-> "model", flags |-> flags,
                   key |-> key, attested |-> TRUE],
     hash |-> hash, key |-> key,
     alg |-> IF key.kind = "RSA" THEN "RS256" ELSE "ES256", conveyance |-> conveyance]

Main == Ceremony(CredentialKey("one"), "UP UV", "hash", "direct")
Enterprise == [Main EXCEPT !.conveyance = "enterprise"]
Others ==
    {Enterprise,
     [Main EXCEPT !.hash = "other hash"],
     Ceremony(CredentialKey("one"), "UP", "hash", "direct"),
     Ceremony(CredentialKey("two"), "UP UV", "hash", "direct")}
RSACeremony(exponent) == Ceremony(RSAKey(exponent), "UP UV", "hash", "direct")

-----------------------------------------------------------------------------

Attribute(type) == [type |-> type, proper |-> TRUE]
Name(types) == [i \in DOMAIN types |-> Attribute(types[i])]
Extension(value) == [critical |-> FALSE, value |-> value]

Certificate(key) ==
    [parses |-> TRUE, version |-> 3, constraints |-> "leaf", key |-> key,
     subject |-> Name(<<"C", "O", "OU", "CN">>), aaguid |-> Absent, firmware |-> Absent,
     serial |-> Absent, san |-> Absent, aikUsage |-> FALSE, nonce |-> Absent,
     description |-> Absent, host |-> "none", issuer |-> "vendor", status |-> "good"]

Packed == Certificate(AttestationKey)
PackedCertificates ==
    {Packed,
     [Packed EXCEPT !.version = 1],
     [Packed EXCEPT !.constraints = "ca"],
     [Packed EXCEPT !.subject = Name(<<"C", "O", "OU">>)],
     [Packed EXCEPT !.subject = Name(<<"C", "O", "OU", "CN", "CN">>)],
     [Packed EXCEPT !.aaguid = Extension("model"), !.firmware = Extension(1)],
     [Packed EXCEPT !.aaguid = Extension("other model")],
     [Packed EXCEPT !.aaguid = [critical |-> TRUE, value |-> "model"]],
     [Packed EXCEPT !.firmware = Extension(-1)],
     [Packed EXCEPT !.serial = Extension("serial")],
     [Packed EXCEPT !.serial = Extension(Malformed)],
     [Packed EXCEPT !.issuer = "nobody"],
     [Packed EXCEPT !.status = ""]}

Object(format, statement) == [format |-> format, statement |-> statement]
Fields(fields) == [fields |-> fields, typed |-> TRUE]
Signed(alg, key, data) == [alg |-> alg, key |-> key, signed |-> data]
DataOf(c) == <<c.authData, c.hash>>

None == Object("none", Fields({}))

SelfSigned(c, alg) ==
    Object("packed", Fields({"alg", "sig"}) @@
        [alg |-> alg, sig |-> Signed(c.alg, c.key, DataOf(c))])

PackedBy(c, certificate) ==
    Object("packed", Fields({"alg", "sig", "x5c"}) @@
        [alg |-> "ES256", sig |-> Signed("ES256", AttestationKey, DataOf(c)),
         x5c |-> <<certificate>>])

U2F(c, x5c) ==
    Object("fido-u2f", Fields({"sig", "x5c"}) @@
        [x5c |-> x5c,
         sig |-> Signed("ES256", AttestationKey,
                     <<"u2f", c.authData.rpId, c.hash, c.authData.id, c.key>>)])

Apple(c, key) ==
    Object("apple", Fields({"x5c"}) @@
        [x5c |-> <<[Certificate(key) EXCEPT !.nonce = <<"SHA-256", DataOf(c)>>]>>])

List(origins, purposes) ==
    [origins |-> origins, purposes |-> purposes, allApplications |-> FALSE]
Description(c) ==
    [challenge |-> c.hash, level |-> "TEE", keymaster |-> "TEE",
     software |-> List({}, {}), hardware |-> List({"generated"}, {"sign"})]
AndroidKey(c, description) ==
    Object("android-key", Fields({"alg", "sig", "x5c"}) @@
        [alg |-> "ES256", sig |-> Signed("ES256", c.key, DataOf(c)),
         x5c |-> <<[Certificate(c.key) EXCEPT !.description = description]>>])
AndroidKeys(c) ==
    {AndroidKey(c, d) : d \in
        {Absent, Malformed, Description(c),
         [Description(c) EXCEPT !.challenge = "other hash"],
         [Description(c) EXCEPT !.level = "software"],
         [Description(c) EXCEPT !.hardware.purposes = {"sign", "decrypt"}],
         [Description(c) EXCEPT !.software.purposes = {"decrypt"}],
         [Description(c) EXCEPT !.software = List({"generated"}, {"sign"}),
                                !.hardware = List({}, {})],
         [Description(c) EXCEPT !.hardware.allApplications = TRUE]}}

Payload(c) ==
    [nonce |-> <<"SHA-256", DataOf(c)>>, cts |-> TRUE, basic |-> Absent, timestamp |-> 2,
     package |-> "app", digests |-> {"app digest"}]
SafetyNetBy(c, payload) ==
    Object("android-safetynet", Fields({"ver", "response"}) @@
        [ver |-> "1",
         response |-> [payload |-> payload, key |-> AttestationKey,
             x5c |-> <<[Packed EXCEPT !.host = "attest.android.com"]>>]])
SafetyNets(c) ==
    {SafetyNetBy(c, p) : p \in
        {Malformed, Payload(c), [Payload(c) EXCEPT !.cts = FALSE],
         [Payload(c) EXCEPT !.basic = Malformed], [Payload(c) EXCEPT !.timestamp = 5],
         [Payload(c) EXCEPT !.package = "other app"]}}

AIKCert ==
    [Certificate(AIK) EXCEPT !.subject = <<>>, !.aikUsage = TRUE,
        !.san = [critical |-> TRUE, name |-> Name(<<"manufacturer", "model", "version">>)]]
Area(key) ==
    [parses |-> TRUE, symmetric |-> "null", scheme |-> "null", schemeHash |-> "none",
     kdf |-> "null", nameAlg |-> "SHA-256", key |-> key,
     keyBits |-> key.bits]
TPM(c, area, certified, certificate) ==
    LET certInfo == [parses |-> TRUE, magic |-> "TPM_GENERATED", type |-> "certify",
                     extraData |-> <<"SHA-256", DataOf(c)>>,
                     name |-> <<certified.nameAlg, <<certified.nameAlg, certified>>>>]
    IN  Object("tpm", Fields({"ver", "alg", "x5c", "sig", "certInfo", "pubArea"}) @@
            [ver |-> "2.0", alg |-> "RS256", x5c |-> <<certificate>>,
             sig |-> [parses |-> TRUE, scheme |-> "RSASSA", hash |-> "SHA-256",
                      value |-> Signed("RS256", AIK, certInfo)],
             certInfo |-> certInfo, pubArea |-> area])
TPMs(c) ==
    {TPM(c, Area(c.key), Area(c.key), AIKCert),
     TPM(c, Area(c.key), Area(CredentialKey("another")), AIKCert),
     TPM(c, Area(CredentialKey("another")), Area(CredentialKey("another")), AIKCert),
     TPM(c, [Area(c.key) EXCEPT !.scheme = "ECDSA"],
            [Area(c.key) EXCEPT !.scheme = "ECDSA"], AIKCert),
     TPM(c, [Area(c.key) EXCEPT !.key.exponent = 0],
            [Area(c.key) EXCEPT !.key.exponent = 0], AIKCert),
     TPM(c, Area(c.key), Area(c.key), [AIKCert EXCEPT !.aikUsage = FALSE])}

Single(c) ==
    {None, SelfSigned(c, "ES256"), SelfSigned(c, "RS256"),
     U2F(c, <<Packed>>), U2F(c, <<Packed, Packed>>),
     Apple(c, c.key), Apple(c, CredentialKey("another"))}
        \cup {PackedBy(c, certificate) : certificate \in PackedCertificates}
        \cup AndroidKeys(c) \cup SafetyNets(c) \cup TPMs(c)

Compound(subs) ==
    Object("compound", Fields({"statements"}) @@ [subs |-> subs])
Compounds(c) ==
    LET good == PackedBy(c, Packed)
        bad == PackedBy(c, [Packed EXCEPT !.version = 1])
        serial == PackedBy(c, [Packed EXCEPT !.serial = Extension("serial")])
        apple == Apple(c, c.key)
        unknown == Object("unknown", Fields({}))
    IN  {Compound(subs) : subs \in
            {<<good>>, <<good, apple>>, <<good, bad>>, <<bad, unknown, apple>>,
             <<None, None>>, <<good, Compound(<<good, good>>)>>, <<serial, apple>>,
             <<apple, unknown, None>>, <<good, bad, apple, None>>}}

-----------------------------------------------------------------------------

Threshold(minimum, all, maximum) == [minimum |-> minimum, all |-> all, maximum |-> maximum]
Default == Threshold(0, FALSE, 0)
MCThresholds ==
    {Default, Threshold(1, FALSE, 0), Threshold(2, FALSE, 3), Threshold(1, TRUE, 0),
     Threshold(3, FALSE, 0), Threshold(-1, FALSE, 0), Threshold(1, FALSE, 9)}

Roots == RequireTrustedRoots("up", {"vendor"})
AnyType == RejectTypes({})
Asked ==
    {Nil, AnyType, AllowTypes({"none"}), RejectTypes({"none"}), Roots,
     RequireTrustedRoots("nil", {}), RequireTrustedMetadata("up", {"model"}),
     RequireTrustedMetadata("failing", {}), RequireCertificateStatus("up", {}),
     RequireCertificateStatus("up", {"unknown"}),
     AllOf(<<>>), AnyOf(<<>>), AllOf(<<Roots, Nil>>),
     AllOf(<<AllowFormats({"packed", "tpm"}), Roots>>),
     AllOf(<<RequireCertificateStatus("failing", {}), RequireAAGUID({"model"})>>),
     AnyOf(<<AllowTypes({"none"}), Roots>>),
     AnyOf(<<RequireTrustedMetadata("failing", {}), AllowTypes({"none"})>>),
     AnyOf(<<AllOf(<<Roots, RequireCertificateStatus("up", {})>>),
             AllOf(<<AllowTypes({"self"}), RequireAAGUID({"model"})>>)>>)}

MCPolicies ==
    LET with(policies) == policies \cup UNION {Children(p) : p \in policies}
    IN  with(with(Asked))

MCPolicyDepth ==
    [p \in MCPolicies |->
        LET grandchildren == UNION {Children(c) : c \in Children(p)} IN
        CASE Children(p) = {} -> 0 [] grandchildren = {} -> 1 [] OTHER -> 2]

Input(c, o, t, p) == [ceremony |-> c, object |-> o, threshold |-> t, policy |-> p]

\* Every statement with every policy in the ceremony it was made for; with one
\* policy in the others; every compound statement with every threshold.
MCInputs ==
    {Input(Main, o, Default, p) : o \in Single(Main), p \in Asked}
    \cup {Input(c, o, Default, AnyType) : o \in Single(Main), c \in Others}
    \cup {Input(RSACeremony(e), o, Default, AnyType) :
             e \in {3, 9, 65537}, o \in UNION {TPMs(RSACeremony(f)) : f \in {3, 9, 65537}}}
    \cup {Input(c, o, t, p) : c \in {Main, Enterprise}, o \in Compounds(Main),
             t \in MCThresholds, p \in {AnyType, Roots}}
    \cup {Input(Main, Object(f, Fields({})), Default, AnyType) : f \in {"unknown", "bad name"}}

MCSafetyNet ==
    [package |-> "app", digests |-> {"app digest"}, versions |-> {}, maxAge |-> 1,
     skew |-> 1, cts |-> TRUE, basic |-> FALSE]
MCRegistered == Formats \cup {"compound"}
=============================================================================
