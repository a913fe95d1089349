----------------------------- MODULE TlvUseCases -----------------------------
(***************************************************************************)
(* The signed structures an application reads with lib_tlv/use_cases:      *)
(* trusted names, dynamic token descriptors and transaction checks.  Each  *)
(* use case parses a payload, hashing every field but the signature as it  *)
(* goes, checks the structure, then the signature against the certificate  *)
(* lib_pki has loaded (lib_pki/ledger_pki.c).  The output structure is the *)
(* caller's: it is kept from one call to the next.                         *)
(*                                                                         *)
(* A payload is a function from its tags to their values; the order of its *)
(* fields only matters when one of them is refused: it is the first or the *)
(* last one.                                                               *)
(***************************************************************************)
EXTENDS Integers, FiniteSets, TLC

CONSTANT MaxCalls    \* the number of calls of an application

VARIABLES
  use,               \* the use case the application calls
  tlvOut,            \* the output structure of the caller, its flags included
  tlv_status,        \* what the last call returned
  last_payload,      \* the payload of the last call
  calls              \* the number of calls, at most MaxCalls

useCaseVars == <<use, tlvOut, tlv_status, last_payload, calls>>

\* The tags a structure must have, those it may have, and what it is signed
\* with.  TAG_SIGNER_ALGORITHM only exists in a trusted name.
MandatoryTags(u) ==
  {"TYPE", "VERSION", "SIGNATURE"} \cup
  CASE u = "trusted_name" ->
         {"TRUSTED_NAME_TYPE", "TRUSTED_NAME_SOURCE", "TRUSTED_NAME", "CHAIN_ID", "ADDRESS",
          "SIGNER_KEY_ID", "SIGNER_ALGORITHM"}
    [] u = "dynamic_descriptor" ->
         {"COIN_TYPE", "APPLICATION_NAME", "TICKER", "MAGNITUDE", "TUID"}
    [] u = "transaction_check" ->
         {"TX_HASH", "ADDRESS", "NORMALIZED_RISK", "NORMALIZED_CATEGORY", "TINY_URL",
          "SIMULATION_TYPE"}

OptionalTags(u) ==
  CASE u = "trusted_name" ->
         {"NFT_ID", "SOURCE_CONTRACT", "CHALLENGE", "NOT_VALID_AFTER", "BLOCKCHAIN_FAMILY"}
    [] u = "dynamic_descriptor" -> {}
    [] u = "transaction_check" -> {"CHAIN_ID", "DOMAIN_HASH", "PROVIDER_MSG", "ADDITIONAL_DATA"}

TlvTags(u) == MandatoryTags(u) \cup OptionalTags(u)

\* Fields whose handler writes to the parser's own structure or nowhere, and
\* not to the caller's.
Internal(u) ==
  {"TYPE", "SIGNATURE", "SIGNER_KEY_ID", "SIGNER_ALGORITHM", "APPLICATION_NAME", "ADDITIONAL_DATA"}
    \cup (IF u = "transaction_check" THEN {"VERSION"} ELSE {})

CURRENT_TRUSTED_NAME_SPEC_VERSION == 3

SOURCE_CONTRACT_RECEIVED_MIN_VERSION == 2

-----------------------------------------------------------------------------
(***************************************************************************)
(* lib_pki.  A signature is the key that made it and what it signed: a     *)
(* hash function and the fields.  A certificate gives a key a usage, a     *)
(* curve and a name; there may be none.                                    *)
(***************************************************************************)

\* handle_common: every field but the signature goes into the hash.  The slip
\* leaves the address out of it.
Hashed_Slip(alg, f) ==
  [alg |-> alg, fields |-> [t \in DOMAIN f \ {"SIGNATURE", "ADDRESS"} |-> f[t]]]

Hashed(alg, f) == [alg |-> alg, fields |-> [t \in DOMAIN f \ {"SIGNATURE"} |-> f[t]]]

check_signature_with_pki(cert, hash, usage, curve, sig) ==
  IF ~cert.loaded THEN "MISSING_CERTIFICATE"
  ELSE IF cert.usage # usage THEN "WRONG_CERTIFICATE_USAGE"
  ELSE IF cert.curve # curve THEN "WRONG_CERTIFICATE_CURVE"
  ELSE IF sig # [key |-> cert.key, hash |-> hash] THEN "WRONG_SIGNATURE"
  ELSE "SUCCESS"

\* The hash finalize_hash_for_algo takes for each algorithm of a trusted
\* name; any other algorithm makes it fail.
HashOf ==
  [a \in {1} |-> "sha256"] @@ [a \in {2, 24} |-> "sha3_256"] @@
  [a \in {3, 23} |-> "keccak_256"] @@ [a \in {4} |-> "ripemd160"] @@ [a \in {22} |-> "sha512"]

TrustedNameCurve(algo) == IF algo \in {23, 24} THEN "Ed25519" ELSE "SECP256K1"

Usage ==
  [trusted_name |-> "TRUSTED_NAME", dynamic_descriptor |-> "COIN_META",
   transaction_check |-> "TX_SIMU_SIGNER"]

-----------------------------------------------------------------------------
(***************************************************************************)
(* The checks on the fields f of a parsed structure, in the order of the   *)
(* code.  Structure type, key id and application name are right when 1.    *)
(***************************************************************************)

TrustedNameStruct(f) ==
  IF "TYPE" \notin DOMAIN f THEN "MISSING_STRUCTURE_TAG"
  ELSE IF f["TYPE"] # 1 THEN "WRONG_TYPE"
  ELSE IF ~(MandatoryTags("trusted_name") \subseteq DOMAIN f) THEN "MISSING_TAG"
  ELSE IF f["VERSION"] \notin 1 .. CURRENT_TRUSTED_NAME_SPEC_VERSION THEN "UNKNOWN_VERSION"
  ELSE IF /\ "SOURCE_CONTRACT" \in DOMAIN f
          /\ f["VERSION"] < SOURCE_CONTRACT_RECEIVED_MIN_VERSION THEN "UNSUPPORTED_TAG"
  ELSE IF f["SIGNER_KEY_ID"] # 1 THEN "WRONG_KEY_ID"
  ELSE "SUCCESS"

DescriptorStruct(f) ==
  IF "TYPE" \notin DOMAIN f THEN "MISSING_STRUCTURE_TAG"
  ELSE IF f["TYPE"] # 1 THEN "WRONG_TYPE"
  ELSE IF ~(MandatoryTags("dynamic_descriptor") \subseteq DOMAIN f) THEN "MISSING_TAG"
  ELSE IF f["APPLICATION_NAME"] # 1 THEN "WRONG_APPLICATION_NAME"
  ELSE IF f["VERSION"] # 1 THEN "UNKNOWN_VERSION"
  ELSE "SUCCESS"

TransactionCheckStruct(f) ==
  IF "TYPE" \notin DOMAIN f THEN "MISSING_STRUCTURE_TAG"
  ELSE IF f["TYPE"] # 1 THEN "WRONG_TYPE"
  ELSE IF ~(MandatoryTags("transaction_check") \subseteq DOMAIN f) THEN "MISSING_TAG"
  ELSE IF f["VERSION"] # 1 THEN "UNKNOWN_VERSION"
  ELSE "SUCCESS"

\* verify_signature, the structure being complete.
Curve(f) ==
  IF use = "trusted_name" THEN TrustedNameCurve(f["SIGNER_ALGORITHM"]) ELSE "SECP256K1"

HashUsed(f) == IF use = "trusted_name" THEN HashOf[f["SIGNER_ALGORITHM"]] ELSE "sha256"

verify_signature(p) ==
  IF use = "trusted_name" /\ p.fields["SIGNER_ALGORITHM"] \notin DOMAIN HashOf
  THEN "HASH_FAILED"
  ELSE check_signature_with_pki(p.cert, Hashed(HashUsed(p.fields), p.fields), Usage[use],
                                Curve(p.fields), p.sig)

verify_struct(f) ==
  CASE use = "trusted_name"       -> TrustedNameStruct(f)
    [] use = "dynamic_descriptor" -> DescriptorStruct(f)
    [] use = "transaction_check"  -> TransactionCheckStruct(f)

-----------------------------------------------------------------------------
(***************************************************************************)
(* The output.  Only a transaction check resets it; the handlers write the *)
(* fields as they are parsed, up to a field that is refused; the flags of  *)
(* the optional fields are set once the mandatory tags are known to be     *)
(* there.                                                                  *)
(***************************************************************************)

NoOutput == [fields |-> [t \in TlvTags(use) \ Internal(use) |-> 0], received |-> {}, partner |-> 0]

Written(o, p) ==
  IF p.refused = "first" THEN o
  ELSE [o EXCEPT !.fields = [t \in DOMAIN @ |-> IF t \in DOMAIN p.fields
                                                THEN p.fields[t] ELSE @[t]]]

FlagsForwarded(f) ==
  /\ "TYPE" \in DOMAIN f /\ f["TYPE"] = 1
  /\ MandatoryTags(use) \subseteq DOMAIN f
  /\ use = "transaction_check" => f["VERSION"] = 1

WithFlags(o, f) ==
  IF FlagsForwarded(f) THEN [o EXCEPT !.received = OptionalTags(use) \cap DOMAIN f] ELSE o

\* The partner's name is the certificate's, "Transaction Checks" if it is
\* empty.
WithPartner(o, cert) ==
  IF use = "transaction_check"
  THEN [o EXCEPT !.partner = IF cert.name = 0 THEN 9 ELSE cert.name] ELSE o

tlv_use_case(p) ==
  LET start == IF use = "transaction_check" THEN NoOutput ELSE tlvOut
      o     == Written(start, p)
      flagged == WithFlags(o, p.fields)
      struct  == verify_struct(p.fields)
      signed  == verify_signature(p)
  IN IF p.refused # "none" THEN [out |-> o, status |-> "PARSING_ERROR"]
     ELSE IF struct # "SUCCESS" THEN [out |-> flagged, status |-> struct]
     ELSE IF signed # "SUCCESS" THEN [out |-> flagged, status |-> signed]
     ELSE [out |-> WithPartner(flagged, p.cert), status |-> "SUCCESS"]

-----------------------------------------------------------------------------
(***************************************************************************)
(* The payloads: a good one for one of two statements, with some of the    *)
(* optional tags, and at most one thing wrong with it.                     *)
(***************************************************************************)

Good(v, optional) ==
  [t \in MandatoryTags(use) \cup optional |->
     IF t \in {"TYPE", "SIGNER_KEY_ID", "SIGNER_ALGORITHM", "APPLICATION_NAME"} THEN 1
     ELSE IF t = "VERSION" THEN (IF use = "trusted_name" THEN 2 ELSE 1)
     ELSE v]

Variants(f) ==
  {f} \cup {[t \in DOMAIN f \ {x} |-> f[t]] : x \in DOMAIN f}
      \cup {[f EXCEPT !["TYPE"] = 2]} \cup {[f EXCEPT !["VERSION"] = n] : n \in 0 .. 4}
      \cup {[f EXCEPT ![t] = 2] : t \in DOMAIN f \cap {"SIGNER_KEY_ID", "APPLICATION_NAME"}}
      \cup {[f EXCEPT ![t] = a] : t \in DOMAIN f \cap {"SIGNER_ALGORITHM"},
                                  a \in {0, 2, 22, 23}}

Certificate(usage, curve, name) ==
  [loaded |-> TRUE, usage |-> usage, curve |-> curve, key |-> 1, name |-> name]

Certificates ==
  {Certificate(Usage[use], c, n) : c \in {"SECP256K1", "Ed25519"}, n \in 0 .. 1}
    \cup {Certificate("OTHER", "SECP256K1", 1)}
    \cup {[Certificate("OTHER", "SECP256K1", 0) EXCEPT !.loaded = FALSE]}

\* A signature of the certificate's key, of another key, or of the statement
\* without its address or its ticker.
Signature(key, f) ==
  LET known == "SIGNER_ALGORITHM" \in DOMAIN f /\ f["SIGNER_ALGORITHM"] \in DOMAIN HashOf
  IN [key  |-> key,
      hash |-> [alg    |-> IF known THEN HashOf[f["SIGNER_ALGORITHM"]] ELSE "sha256",
                fields |-> [t \in DOMAIN f \ {"SIGNATURE"} |-> f[t]]]]

Signatures(f) ==
  {Signature(1, f), Signature(2, f)}
    \cup {Signature(1, [t \in DOMAIN f \ {x} |-> f[t]]) : x \in {"ADDRESS", "TICKER"}}

Payloads ==
  LET goods == {Good(v, o) : v \in 1 .. 2, o \in {{}, OptionalTags(use)}}
      Made(fs, certs, refused) ==
        UNION {{[fields |-> f, cert |-> c, sig |-> s, refused |-> refused] :
                  c \in certs, s \in Signatures(f)} : f \in fs}
      fine == {Certificate(Usage[use], "SECP256K1", 1)}
  IN Made(UNION {Variants(g) : g \in goods}, fine, "none")
       \cup Made({f \in Variants(Good(1, {})) : DOMAIN f = DOMAIN Good(1, {})}, Certificates, "none")
       \cup Made(goods, fine, "first") \cup Made(goods, fine, "last")

UseCaseInit ==
  /\ use \in {"trusted_name", "dynamic_descriptor", "transaction_check"}
  /\ tlvOut = NoOutput /\ tlv_status = "none" /\ calls = 0
  /\ last_payload = [fields |-> <<>>, cert |-> Certificate("none", "none", 0),
             sig |-> Signature(0, <<>>), refused |-> "none"]

CallUseCase(p) ==
  /\ calls < MaxCalls
  /\ LET r == tlv_use_case(p) IN tlvOut' = r.out /\ tlv_status' = r.status
  /\ last_payload' = p /\ calls' = calls + 1
  /\ UNCHANGED use

UseCaseNext == \E p \in Payloads : CallUseCase(p)

UseCaseSpec == UseCaseInit /\ [][UseCaseNext]_useCaseVars

-----------------------------------------------------------------------------
\* When a use case succeeds, every mandatory field of the caller's structure,
\* and every optional field it marks as received, is the one of the payload
\* of this call, never what an earlier call, refused or not, has left there;
\* and the loaded certificate's key, certified for this use and the curve of
\* the algorithm, signed exactly these fields.
OutputSigned ==
  tlv_status = "SUCCESS" =>
    LET f == last_payload.fields
        read == (MandatoryTags(use) \cup tlvOut.received) \cap DOMAIN tlvOut.fields
    IN /\ tlvOut.received = OptionalTags(use) \cap DOMAIN f
       /\ \A t \in read : t \in DOMAIN f /\ tlvOut.fields[t] = f[t]
       /\ last_payload.cert.loaded /\ last_payload.cert.usage = Usage[use]
       /\ last_payload.cert.curve = Curve(f)
       /\ last_payload.sig = Signature(last_payload.cert.key, f)

=============================================================================
