------------------------------ MODULE CxCalls ------------------------------
(***************************************************************************)
(* The calls of lib_cxng that use the big number processor or the scratch  *)
(* memory all of them share.  The processor (cx_bn_*, cx_ecpoint_*, behind *)
(* system calls) serves one lock owner at a time and forgets every number  *)
(* when the lock is released; the scratch memory is one union, G_cx, whose *)
(* members overwrite each other.  Any checked call may fail, CX_CHECK then *)
(* leaves for the function's "end:" label.                                 *)
(*                                                                         *)
(* A function is the sequence of its steps, branches included, in the      *)
(* order of the code; a caller may make any call after any other.          *)
(***************************************************************************)
EXTENDS Integers, Sequences

CONSTANTS
    CX_MAX_TRIES    \* nonces a signature tries (100 in the code)

ASSUME CxAssumption == CX_MAX_TRIES \in Nat \ {0}

VARIABLES
    cxCall,     \* the call in progress: its name, the next step (0 at "end:"),
                \* the nonces tried, and how it stands: "ok", "error", "false"
                \* for a signature found wrong, "gaveup" for a loop left with
                \* CX_OK after too many nonces
    bn,         \* the processor: its lock, and the numbers and points it holds
    gcx,        \* the member of G_cx that was initialised last
    written,    \* the results the call has stored
    keys,       \* the local variables that hold a private key
    returned    \* the last call and what it returned

cxVars == <<cxCall, bn, gcx, written, keys, returned>>

-----------------------------------------------------------------------------
(* The steps.                                                              *)

CxStep(op, objs, name, n) == [op |-> op, objs |-> objs, name |-> name, n |-> n]

Lock == CxStep("lock", {}, "", 0)                 \* cx_bn_lock
Unlock == CxStep("unlock", {}, "", 0)             \* cx_bn_unlock
AllocBn(x) == CxStep("alloc", {x}, "", 0)           \* cx_bn_alloc(_init), cx_ecpoint_alloc
Use(S) == CxStep("use", S, "", 0)                 \* a call on these numbers and points
Export(S, out) == CxStep("use", S, out, 0)        \* the same, with a result for the caller
Destroy(x) == CxStep("destroy", {x}, "", 0)       \* cx_bn_destroy, cx_ecpoint_destroy
Check == CxStep("check", {}, "", 0)               \* a call that uses neither
Refuse == CxStep("refuse", {}, "", 0)             \* a test that leaves with an error
Stop == CxStep("stop", {}, "", 0)                 \* a test that leaves without one
Setup(m) == CxStep("init", {}, m, 0)               \* initialise a member of G_cx
Feed(m) == CxStep("feed", {}, m, 0)               \* go on with what it holds
WipeScratch == CxStep("clear", {}, "none", 0)           \* cx_hash_destroy, explicit_bzero of it
WriteOut(out) == CxStep("write", {}, out, 0)         \* store a result
Key(x) == CxStep("key", {}, x, 0)                 \* a call that stores a private key
Label(what, limit) == CxStep("label", {}, what, limit)    \* RETRY, and what too many tries do
Retry == CxStep("retry", {}, "", 0)               \* a zero: goto RETRY
Maybe(s) == <<CxStep("maybe", {}, "", Len(s))>> \o s      \* steps under a condition

Jump(n) == CxStep("jump", {}, "", n)
Either(s, t) == Maybe(Append(s, Jump(Len(t)))) \o t      \* if ... else ...

Allocs(names) == [i \in DOMAIN names |-> AllocBn(names[i])]

-----------------------------------------------------------------------------
(* cx_math.c                                                               *)

cx_math_cmp_no_throw == <<Lock>> \o Allocs(<<"a", "b">>) \o <<Export({"a", "b"}, "diff")>>

\* cx_math_add_no_throw, _sub_ and _mult_
cx_math_add_no_throw ==
    <<Lock>> \o Allocs(<<"r", "a", "b">>) \o <<Use({"r", "a", "b"}), Export({"r"}, "r")>>

\* cx_math_addm_no_throw, _subm_ and _multm_
cx_math_addm_no_throw ==
    <<Lock>> \o Allocs(<<"r", "a", "b", "m">>)
    \o <<Use({"r", "a", "b", "m"}), Export({"r"}, "r")>>

\* cx_math_modm_no_throw, _powm_ and _invprimem_
cx_math_modm_no_throw ==
    <<Lock>> \o Allocs(<<"r", "v", "m">>) \o <<Use({"r", "v", "m"}), Export({"r"}, "r")>>

cx_math_invintm_no_throw ==
    <<Lock>> \o Allocs(<<"r", "m">>) \o <<Use({"r", "m"}), Export({"r"}, "r")>>

cx_math_is_prime_no_throw == <<Lock, AllocBn("r"), Export({"r"}, "prime")>>

cx_math_next_prime_no_throw == <<Lock, AllocBn("r"), Use({"r"}), Export({"r"}, "r")>>

-----------------------------------------------------------------------------
(* cx_ecdsa.c                                                              *)

\* A random number below the order of the curve.
truernd ==
    <<Check, Check, Lock>> \o Allocs(<<"r", "t", "n">>)
    \o <<Use({"t"}), Use({"r", "t", "n"}), Use({"r"}), Unlock>>

\* A deterministic nonce (cx_rng_rfc6979.c): initialise the generator, then
\* ask it for as many numbers as were tried.
rfcrnd == <<Check, Check, Setup("rfc6979"), Feed("rfc6979")>>

initialize_hash(v) == <<Use({v})>> \o Maybe(<<Use({v})>>)

Nonce(rnd) == IF rnd = "TRNG" THEN truernd ELSE IF rnd = "RFC6979" THEN rfcrnd ELSE <<>>


\* The point Q = k.G, its coordinate r and whether it is zero.
EcdsaR ==
    <<Lock, AllocBn("Q"), Use({"Q"}), Use({"Q"}), Use({"Q"}),
      AllocBn("n"), Use({"n"}), AllocBn("r"), Use({"Q", "r"}), Destroy("Q"), Use({"r", "n"})>>
    \o Maybe(<<Use({"r", "n"})>>) \o <<Use({"r"}), Retry>>

\* s = k^-1 (h + d r), and its canonical form.
EcdsaS ==
    Allocs(<<"s", "t", "v", "t1", "t2">>)
    \o <<Use({"t", "n"}), Use({"t1"}), Use({"v", "t1", "t", "n"}), Use({"t2", "v", "r", "n"}),
         Use({"t1", "t", "r", "n"})>>
    \o initialize_hash("v")
    \o <<Use({"v", "t1", "n"}), Use({"v", "t2", "n"}), Use({"t1"}), Use({"t2", "t1", "n"}),
         Use({"s", "v", "t2", "n"}), Use({"s"}), Retry>>
    \o Maybe(<<Use({"t1", "n", "s"}), Use({"n"}), Use({"s", "n"})>> \o Maybe(<<Use({"s", "t1"})>>))

cx_ecdsa_sign_no_throw(rnd) ==
    <<Check, Check, Refuse, Label("refuse", IF rnd = "PROVIDED" THEN 1 ELSE CX_MAX_TRIES)>>
    \o Nonce(rnd) \o EcdsaR \o EcdsaS
    \o <<Use({"r"}), Use({"s"}), WriteOut("sig")>>

cx_ecdsa_verify_no_throw ==
    <<Check, Check, Refuse, Lock, AllocBn("n"), Use({"n"})>> \o Allocs(<<"r", "s", "h">>)
    \o initialize_hash("h") \o Allocs(<<"u1", "u2", "c">>)
    \o <<Use({"u2"}), Use({"r", "u2"}), Stop, Use({"r", "n"}), Stop, Use({"s", "u2"}), Stop,
         Use({"s", "n"}), Stop,
         Use({"c", "s", "n"}), Use({"u1", "h", "c", "n"}), Use({"u2", "r", "c", "n"}),
         Destroy("h"), Destroy("c"), Destroy("s"),
         AllocBn("G"), Use({"G"}), AllocBn("Q"), Use({"Q"}), AllocBn("R"),
         Use({"R", "G", "Q", "u1", "u2"}), Use({"R"}), Stop,
         Use({"R", "u1"}), Use({"u2", "u1", "n"}), Use({"u2", "r"}), Stop, WriteOut("verified")>>

-----------------------------------------------------------------------------
(* cx_eddsa.c: the hash in G_cx holds the private key's digest first, then *)
(* the signature's.                                                        *)

cx_eddsa_get_public_key_internal(withKey) ==
    <<Check, Refuse, Setup("hash_ctx")>> \o Maybe(<<Feed("hash_ctx"), Feed("hash_ctx"), WipeScratch>>)
    \o (IF withKey
        THEN <<AllocBn("W"), Use({"W"}), Use({"W"}), Export({"W"}, "public_key"), Destroy("W")>>
        ELSE <<>>)

cx_eddsa_get_public_key_no_throw ==
    <<Check, Lock>> \o cx_eddsa_get_public_key_internal(TRUE)

cx_eddsa_check_params == <<Refuse>>

\* The domain string of Ed448.
Dom4 == Maybe(<<Feed("hash_ctx"), Feed("hash_ctx")>>)

cx_eddsa_sign_init_first_hash ==
    <<Check>> \o cx_eddsa_check_params \o <<Refuse>>
    \o cx_eddsa_get_public_key_internal(FALSE) \o <<Setup("hash_ctx")>> \o Dom4
    \o <<Feed("hash_ctx")>>

cx_eddsa_sign_init_second_hash ==
    <<Check, Refuse>> \o cx_eddsa_get_public_key_internal(FALSE)
    \o <<Lock>> \o Allocs(<<"h", "r", "n", "Q">>)
    \o <<Use({"n"}), Use({"r", "h", "n"}), Destroy("h"),
         Use({"Q"}), Use({"Q"}), Use({"Q"}), Use({"r"}), Use({"Q"}), Use({"Q"}), Use({"Q"}),
         Setup("hash_ctx")>> \o Dom4
    \o <<Feed("hash_ctx"), Feed("hash_ctx"), Unlock>>

cx_eddsa_sign_hash ==
    <<Check, Refuse, Lock>> \o Allocs(<<"s", "h", "n", "r">>)
    \o <<Use({"n"}), Use({"r", "h", "n"})>> \o cx_eddsa_get_public_key_internal(FALSE)
    \o <<AllocBn("a"), Use({"s", "r", "a", "n"}), Use({"r"}), Use({"s", "r", "n"}), Use({"r"}),
         Use({"s", "r", "n"}), Export({"s"}, "sig"), Unlock>>

\* cx_eddsa_update_hash, then cx_eddsa_final_hash
UpdateAndFinal == <<Feed("hash_ctx"), Refuse, Feed("hash_ctx")>>

cx_eddsa_sign_no_throw ==
    cx_eddsa_sign_init_first_hash \o UpdateAndFinal \o <<WipeScratch>>
    \o cx_eddsa_sign_init_second_hash \o UpdateAndFinal \o cx_eddsa_sign_hash

cx_eddsa_verify_init_hash ==
    <<Check>> \o cx_eddsa_check_params \o <<Refuse, Lock, AllocBn("P"), Setup("hash_ctx")>> \o Dom4
    \o <<Feed("hash_ctx")>> \o Maybe(<<Use({"P"}), Use({"P"})>>) \o <<Feed("hash_ctx"), Unlock>>

cx_eddsa_verify_hash ==
    <<Check, Refuse, Lock, AllocBn("n"), Use({"n"}), AllocBn("rs"), AllocBn("h"),
      Use({"rs", "h", "n"}), Use({"rs"}), AllocBn("P"), Use({"P"}), Use({"P"}),
      AllocBn("rs"), Use({"rs", "n"}), Stop,
      AllocBn("left"), Use({"left"}), AllocBn("right"), Use({"left", "P"}), Use({"right", "left", "P"}),
      AllocBn("R"), AllocBn("p"), Use({"p"}), AllocBn("y"), Use({"y"}), Use({"y", "p"}), Stop,
      Use({"R"}), Destroy("left"), Destroy("P"), Use({"R", "right"}), Stop, WriteOut("verified"), Unlock>>

cx_eddsa_verify_no_throw ==
    cx_eddsa_verify_init_hash \o UpdateAndFinal \o cx_eddsa_verify_hash

-----------------------------------------------------------------------------
(* cx_ecfp.c and cx_ecdh.c                                                 *)

\* A public key from the generator and the private key.
PublicKey == <<AllocBn("W"), Use({"W"}), Use({"W"}), Export({"W"}, "public_key")>>

cx_ecfp_generate_pair2_no_throw(curve) ==
    <<Check, Lock, AllocBn("n"), Use({"n"}), AllocBn("r")>>
    \o Either(<<Refuse, Use({"r"})>>,
              <<AllocBn("a"), Use({"a"}), Use({"r", "a", "n"}), Destroy("a"), Use({"r"})>>)
    \o (IF curve = "TWISTED_EDWARDS" THEN cx_eddsa_get_public_key_internal(TRUE) ELSE PublicKey)

cx_ecfp_add_point_no_throw ==
    <<Check, Lock>> \o Allocs(<<"P", "Q", "R">>)
    \o <<Use({"P"}), Use({"Q"}), Use({"R", "P", "Q"}), Export({"R"}, "R")>>

cx_ecfp_scalar_mult_no_throw ==
    <<Check, Lock, AllocBn("P"), Use({"P"}), Use({"P"}), Export({"P"}, "P")>>

cx_edwards_compress_point_no_throw == <<Check, Lock, AllocBn("P"), Use({"P"}), Export({"P"}, "P")>>

cx_edwards_decompress_point_no_throw ==
    <<Check, Lock, AllocBn("P"), Use({"P"}), Export({"P"}, "P")>>

cx_ecdh_no_throw ==
    <<Check, Refuse, Lock, AllocBn("W"), Use({"W"}), Use({"W"}), Refuse, Use({"W"}),
      Export({"W"}, "secret")>>

\* cx_x25519 and cx_x448
cx_x25519 == <<Check, Lock, AllocBn("u"), Use({"u"}), Use({"u"}), Export({"u"}, "u")>>

-----------------------------------------------------------------------------
(* cx_ecschnorr.c: all hashes are the SHA-256 of G_cx, destroyed at "end:". *)

Sha256Of(n) == <<Setup("sha256")>> \o [i \in 1 .. n |-> Feed("sha256")]

\* BIP 340: the key with an even public point, and the nonce seed from it.
Bip340Seed ==
    <<Use({"Q"}), Use({"Q"}), Use({"d"}), Use({"Q"})>> \o Maybe(<<Use({"d", "n"})>>)
    \o Sha256Of(1) \o Sha256Of(3)
    \o <<Use({"k"}), Use({"r", "d", "k"}), Use({"r"})>>
    \o Sha256Of(1) \o Sha256Of(3) \o <<Use({"Q"}), Feed("sha256"), Feed("sha256")>>

SchnorrNonce(mode, rnd) ==
    (IF rnd = "PROVIDED" THEN <<Use({"r"}), Use({"k", "r", "n"})>> ELSE <<Use({"k", "n"})>>)
    \o (IF mode = "BIP0340" THEN <<Use({"k"}), Refuse>> ELSE <<>>)
    \o <<Use({"k"}), Use({"Q"}), Use({"Q"})>>

\* The challenge R as r modulo the order; a zero asks for another nonce.
ReduceR == <<Use({"d"}), Use({"r", "d", "n"}), Use({"r"}), Retry>>

\* s from k, the key and r; a zero asks for another nonce.
ComputeS == <<Use({"d"}), Use({"s", "d", "r", "n"}), Use({"s", "k", "n"}), Use({"s"}), Retry,
              Use({"s"}), WriteOut("S")>>

Schnorr_ISO14888 ==
    <<Setup("sha256"), Use({"Q"}), Feed("sha256")>> \o Maybe(<<Use({"Q"}), Feed("sha256")>>)
    \o <<Feed("sha256"), WriteOut("R"), Use({"d"}), Use({"r", "d", "n"}), Use({"r"})>>
    \o <<CxStep("unlockretry", {}, "", 0)>>
    \o <<Use({"d"}), Use({"s", "d", "r", "n"}), Use({"s", "k", "n"}), Use({"k"}),
         Use({"s", "k", "n"}), Use({"s"}), Retry, Use({"s"}), WriteOut("S")>>

Schnorr_BSI03111 ==
    <<Setup("sha256"), Feed("sha256"), Use({"Q"}), Feed("sha256"), WriteOut("R")>> \o ReduceR \o ComputeS

Schnorr_Z ==
    <<Setup("sha256"), Use({"Q"}), Use({"Q"}), Feed("sha256"), Use({"Q"}), Use({"Q"}), Use({"Q"}),
      Use({"Q"}), Feed("sha256"), Feed("sha256")>> \o ReduceR \o <<Use({"r"}), WriteOut("R")>>
    \o ComputeS

Schnorr_LIBSECP ==
    <<Use({"Q"})>> \o Maybe(<<Use({"k", "n"}), Use({"k"}), Use({"Q"}), Use({"Q"}), Use({"Q"})>>)
    \o <<Use({"Q"}), WriteOut("R")>> \o ReduceR \o Sha256Of(2)
    \o <<Use({"r"}), Use({"r"}), Retry, Use({"r", "n"}), Retry>> \o ComputeS

Schnorr_BIP0340 ==
    <<Use({"Q"})>> \o Maybe(<<Use({"k", "n"}), Use({"k"})>>) \o <<Use({"Q"}), WriteOut("R")>>
    \o Sha256Of(1) \o Sha256Of(5)
    \o <<Use({"s"}), Use({"r", "s", "n"}), Use({"s", "d", "r", "n"}), Use({"s", "k", "n"}),
         Use({"k"}), Use({"s", "k", "n"}), Use({"s"}), WriteOut("S")>>

Schnorr(mode) ==
    IF mode = "ISO14888" THEN Schnorr_ISO14888
    ELSE IF mode = "BSI03111" THEN Schnorr_BSI03111
    ELSE IF mode = "Z" THEN Schnorr_Z
    ELSE IF mode = "LIBSECP" THEN Schnorr_LIBSECP ELSE Schnorr_BIP0340

cx_ecschnorr_sign_no_throw(mode, rnd) ==
    <<Check, CxStep("return", {}, "", 0), Lock, AllocBn("n"), Use({"n"})>>
    \o Allocs(<<"k", "d", "r", "s", "Q">>)
    \o (IF mode = "BIP0340" THEN Bip340Seed ELSE <<>>)
    \o <<Label("stop", IF rnd = "PROVIDED" THEN 1 ELSE CX_MAX_TRIES)>>
    \o SchnorrNonce(mode, rnd) \o Schnorr(mode)

\* The verification of a mode, between the tests of r and s and its result.
VerifyISO14888 ==
    <<Use({"r"}), Stop, Use({"n", "s"}), Stop, Use({"s"}), Stop, Use({"n", "s"}), Stop,
      Use({"Q"}), Use({"R", "P", "Q", "s", "r"}), Setup("sha256"), Use({"R"}), Feed("sha256")>>
    \o Maybe(<<Use({"R"}), Feed("sha256")>>) \o <<Feed("sha256"), Use({"s"}), Use({"r", "s"})>>

VerifyBSI03111 ==
    <<Use({"r"}), Stop, Use({"s"}), Stop, Use({"n", "s"}), Stop, Use({"R", "P", "Q", "s", "r"}),
      Setup("sha256"), Feed("sha256"), Use({"R"}), Feed("sha256"), Use({"s"}), Use({"r", "s"})>>

VerifyZ ==
    <<Use({"r"}), Stop, Use({"r", "n"}), Stop, Use({"s"}), Stop, Use({"s", "n"}), Stop,
      Use({"R", "P", "Q", "s", "r"}), Setup("sha256"), Use({"R"}), Use({"R"}), Feed("sha256"),
      Feed("sha256"), Feed("sha256"), Use({"d"}), Use({"s", "d", "n"}), Use({"r", "s"})>>

VerifyLIBSECP ==
    <<Use({"r"}), Stop, Use({"s"}), Stop, Use({"n", "s"}), Stop, Setup("sha256"), Use({"r"}),
      Feed("sha256"), Feed("sha256"), Use({"s"}), Use({"s"}), Stop, Use({"s", "n"}), Stop,
      Use({"d"}), Use({"R", "P", "Q", "d", "s"}), Use({"R", "s", "d"}), Use({"d"}), Stop,
      Use({"r", "s"})>>

VerifyBIP0340 ==
    Allocs(<<"x", "y", "p">>)
    \o <<Use({"p"}), Use({"Q", "x", "y"}), Use({"s"}), Use({"r", "x", "s", "p"}), Use({"s"}),
         Use({"r", "s", "p"}), Use({"s", "p"}), Use({"d"}), Use({"s", "d"}), Use({"s"}),
         Use({"y", "r", "s", "p"}), Use({"y"})>> \o Maybe(<<Use({"y", "p"})>>)
    \o <<Use({"Q", "x", "y"}), Use({"Q"}), Refuse>> \o Sha256Of(1) \o Sha256Of(5)
    \o <<Use({"x"}), Use({"r", "x", "n"}), Use({"r", "n"}), Use({"s"}),
         Use({"R", "P", "Q", "s", "r"}), Use({"R", "x", "y"}), Use({"y"}), Use({"r"}),
         Use({"x", "r"}), Refuse>>

SchnorrVerify(mode) ==
    IF mode = "ISO14888" THEN VerifyISO14888
    ELSE IF mode = "BSI03111" THEN VerifyBSI03111
    ELSE IF mode = "Z" THEN VerifyZ
    ELSE IF mode = "LIBSECP" THEN VerifyLIBSECP ELSE VerifyBIP0340

cx_ecschnorr_verify(mode) ==
    <<Check, Refuse, Lock, AllocBn("n"), Use({"n"}), Stop>> \o Allocs(<<"r", "s", "d">>)
    \o <<Use({"r"}), Stop, Use({"s"}), Stop>> \o Allocs(<<"P", "Q", "R">>)
    \o <<Use({"P"}), Use({"Q"})>> \o SchnorrVerify(mode)
    \o (IF mode = "BIP0340" THEN <<>> ELSE <<Stop>>) \o <<WriteOut("verified")>>


-----------------------------------------------------------------------------
(* cx_rsa.c and cx_pkcs1.c: the padding works in G_cx, with the processor  *)
(* locked or not.                                                          *)

Mgf1Round == <<Setup("pkcs1"), Feed("pkcs1"), Feed("pkcs1"), Feed("pkcs1")>>

\* A mask of one or two rounds.
cx_pkcs1_MGF1 == <<Refuse>> \o Mgf1Round \o Maybe(Mgf1Round)

cx_pkcs1_emsa_v1o5_encode == <<Refuse>>

cx_pkcs1_emsa_pss_encode ==
    <<Refuse, Setup("pkcs1"), Feed("pkcs1"), Feed("pkcs1"), Feed("pkcs1"), Feed("pkcs1")>>
    \o cx_pkcs1_MGF1 \o <<WipeScratch>>

cx_pkcs1_emsa_pss_verify ==
    <<Refuse>> \o cx_pkcs1_MGF1
    \o <<Refuse, Setup("pkcs1"), Feed("pkcs1"), Feed("pkcs1"), Feed("pkcs1"), Feed("pkcs1"), Stop>>

\* cx_pkcs1_eme_v1o5_encode and _decode
cx_pkcs1_eme_v1o5 == <<Refuse>>

cx_pkcs1_eme_oaep_encode == <<Refuse>> \o cx_pkcs1_MGF1 \o cx_pkcs1_MGF1

cx_pkcs1_eme_oaep_decode == <<Refuse>> \o cx_pkcs1_MGF1 \o cx_pkcs1_MGF1 \o <<Refuse>>

RsaComponents == <<Refuse, Check>>

\* cx_rsa_init_public_key_no_throw and _private_
cx_rsa_init_key == <<Refuse, Check, Check, WriteOut("key")>>

cx_rsa_generate_pair_no_throw ==
    <<Refuse, Check, Check, Check, Lock>> \o Allocs(<<"p", "q">>)
    \o Either(<<Use({"p"}), Use({"q"})>>,
              <<Use({"p"}), Use({"p"}), Use({"p"}), Use({"q"}), Use({"q"}), Use({"q"}),
                Use({"p"}), Use({"q"})>>)
    \o <<AllocBn("n"), Use({"n", "p", "q"}), Export({"n"}, "public_key"), Destroy("n"),
         AllocBn("n"), Use({"n"}), Use({"p", "n"}), Use({"q", "n"}), Destroy("n"),
         AllocBn("n"), Use({"n", "p", "q"}), Destroy("p"), Destroy("q"),
         AllocBn("p"), Use({"p", "n"}), Export({"p"}, "private_key")>>

RsaPower == <<Use({"r", "msg", "n"})>>

cx_rsa_sign_with_salt_len(pad) ==
    RsaComponents \o <<Lock>> \o Allocs(<<"r", "n">>)
    \o (IF pad = "PSS" THEN <<Use({"n"})>> \o cx_pkcs1_emsa_pss_encode ELSE cx_pkcs1_emsa_v1o5_encode)
    \o <<AllocBn("msg")>> \o RsaPower \o <<Export({"r"}, "sig")>>

cx_rsa_verify_with_salt_len(pad) ==
    RsaComponents \o <<Lock>> \o Allocs(<<"r", "n", "msg">>) \o RsaPower \o <<Use({"r"})>>
    \o (IF pad = "PSS" THEN <<Use({"n"})>> \o cx_pkcs1_emsa_pss_verify ELSE <<Stop>>)
    \o <<WriteOut("verified")>>

cx_rsa_encrypt_no_throw(pad) ==
    <<Refuse>> \o (IF pad = "OAEP" THEN cx_pkcs1_eme_oaep_encode ELSE cx_pkcs1_eme_v1o5)
    \o <<Check, Lock>> \o Allocs(<<"r", "n", "msg">>) \o RsaPower \o <<Export({"r"}, "enc")>>

cx_rsa_decrypt_no_throw(pad) ==
    RsaComponents \o <<Lock>> \o Allocs(<<"r", "n", "msg">>) \o <<Use({"msg", "n"}), Refuse>>
    \o RsaPower \o <<Use({"r"})>>
    \o (IF pad = "OAEP" THEN cx_pkcs1_eme_oaep_decode ELSE cx_pkcs1_eme_v1o5)
    \o <<WriteOut("dec")>>

-----------------------------------------------------------------------------
(* cx_poly1305.c, cx_aes_gcm.c, cx_chacha.c and cx_aes.c: a lock for every *)
(* run of blocks; one-shot calls keep their context in G_cx.               *)

cx_poly1305_process ==
    <<Lock>> \o Allocs(<<"p", "acc", "r", "d", "res">>)
    \o <<Use({"d"}), Use({"acc"}), Use({"acc", "d"}), Use({"r"}), Use({"res", "acc", "r"}),
         Use({"acc", "res", "p"}), Use({"acc"}), Unlock>>

cx_poly1305_compute_mac ==
    <<Lock>> \o Allocs(<<"acc", "s">>)
    \o <<Use({"acc"}), Use({"s"}), Use({"acc", "s"}), Export({"acc"}, "tag"), Unlock>>

poly1305_update_calls == Maybe(cx_poly1305_process) \o Maybe(cx_poly1305_process)

poly1305_finish_calls == Maybe(cx_poly1305_process) \o cx_poly1305_compute_mac

cx_poly1305_mac ==
    <<Setup("poly1305")>> \o poly1305_update_calls \o <<Feed("poly1305")>> \o poly1305_finish_calls

cx_gcm_mul ==
    <<Lock>> \o Allocs(<<"r", "a", "b", "n", "c">>)
    \o <<Use({"r", "b", "a", "n", "c"}), Use({"r"}), Unlock>>

gcm_start_calls ==
    <<Refuse>> \o Maybe(<<Check>> \o Maybe(cx_gcm_mul \o cx_gcm_mul) \o <<Check>>)

\* A block of additional data, then of text.
cx_aes_gcm_process_and_tag ==
    gcm_start_calls \o Maybe(cx_gcm_mul) \o Maybe(<<Check>> \o cx_gcm_mul)
    \o <<Refuse>> \o cx_gcm_mul \o <<WriteOut("tag")>>

cx_aes_gcm_decrypt_and_auth == cx_aes_gcm_process_and_tag \o <<Refuse>>

cx_chacha_cipher == <<Setup("chacha"), Refuse, Feed("chacha"), Feed("chacha"), WriteOut("out")>>

cx_aes_iv_no_throw ==
    <<Refuse, Setup("cipher"), Feed("cipher"), Check, Feed("cipher"), Feed("cipher"), WriteOut("out")>>

cx_chachapoly_process_and_tag ==
    <<Refuse, Check>> \o poly1305_update_calls \o <<Refuse>> \o poly1305_update_calls
    \o poly1305_update_calls \o <<Refuse>> \o poly1305_update_calls \o poly1305_update_calls
    \o poly1305_finish_calls

-----------------------------------------------------------------------------
(* cx_hmac.c, cx_hkdf.c, cx_pbkdf2.c and the one-shot hashes.              *)

HmacIn(m) == <<Setup(m), Feed(m), Feed(m)>>

\* cx_hmac_sha256 and cx_hmac_sha512
cx_hmac_sha256 == HmacIn("hmac") \o <<WriteOut("mac")>>

cx_hkdf_extract == HmacIn("hmac") \o <<WriteOut("prk")>>

cx_hkdf_expand ==
    HmacIn("hmac") \o <<Feed("hmac")>>
    \o Maybe(HmacIn("hmac") \o <<Feed("hmac"), Feed("hmac")>>) \o <<WriteOut("okm")>>

cx_pbkdf2_hmac ==
    <<Refuse>> \o HmacIn("pbkdf2") \o <<Feed("pbkdf2")>> \o Maybe(HmacIn("pbkdf2"))
    \o <<WriteOut("key")>>

-----------------------------------------------------------------------------
(* lib_standard_app/crypto_helpers.c: derive a key, use it, wipe it.       *)

bip32_derive_with_seed_init_privkey_256 ==
    <<Check, Refuse, Key("raw_privkey"), Key("privkey")>>

\* The same, called by the functions below: its "end:" wipes the raw key.
InitPrivkey == bip32_derive_with_seed_init_privkey_256 \o <<CxStep("wipe", {}, "raw_privkey", 0)>>

bip32_derive_with_seed_get_pubkey_256 ==
    InitPrivkey \o cx_ecfp_generate_pair2_no_throw("WEIERSTRASS")
    \o <<Unlock, Refuse, WriteOut("raw_pubkey")>>

bip32_derive_with_seed_ecdsa_sign_hash_256 == InitPrivkey \o cx_ecdsa_sign_no_throw("RFC6979")

bip32_derive_with_seed_eddsa_sign_hash_256 ==
    <<Refuse>> \o InitPrivkey \o cx_eddsa_sign_no_throw \o <<Check>>

-----------------------------------------------------------------------------
(* The calls an application can make: their steps, the results a success   *)
(* promises, and what "end:" does: release the processor, destroy the hash *)
(* of G_cx through its own description, wipe it or the keys of the call,   *)
(* and clear the results of a failed call.                                 *)

Fn(steps, outs, end, wipes, clears) ==
    [steps |-> steps, outs |-> outs, end |-> end, wipes |-> wipes, clears |-> clears]

\* A function whose "end:" calls cx_bn_unlock, one that has nothing to undo,
\* and a one-shot call that erases its context.
OnBn(steps, out) == Fn(steps, {out}, {"unlock"}, {}, FALSE)
Plain(steps, out) == Fn(steps, {out}, {}, {}, FALSE)
OneShot(steps, out) == Fn(steps, {out}, {"bzero"}, {}, FALSE)
Helper(steps, out) == Fn(steps, {out}, {"unlock"}, {"raw_privkey", "privkey"}, TRUE)

Schnorrs ==
    [call \in {"ISO14888", "BSI03111", "Z", "LIBSECP", "BIP0340"} \X {"TRNG", "PROVIDED"} |->
        Fn(cx_ecschnorr_sign_no_throw(call[1], call[2]), {"R", "S"}, {"destroy", "unlock"}, {}, FALSE)]

Verifications ==
    [call \in {"ISO14888", "BSI03111", "Z", "LIBSECP", "BIP0340"} \X {"verify"} |->
        OnBn(cx_ecschnorr_verify(call[1]), "verified")]

SignatureCalls ==
    [call \in {"ecdsa"} \X {"TRNG", "RFC6979", "PROVIDED"} |->
        OnBn(cx_ecdsa_sign_no_throw(call[2]), "sig")]

OtherCalls ==
    [math_cmp |-> OnBn(cx_math_cmp_no_throw, "diff"),
     math_add |-> OnBn(cx_math_add_no_throw, "r"),
     math_addm |-> OnBn(cx_math_addm_no_throw, "r"),
     math_modm |-> OnBn(cx_math_modm_no_throw, "r"),
     math_invintm |-> OnBn(cx_math_invintm_no_throw, "r"),
     math_is_prime |-> OnBn(cx_math_is_prime_no_throw, "prime"),
     math_next_prime |-> OnBn(cx_math_next_prime_no_throw, "r"),
     ecdsa_verify |-> OnBn(cx_ecdsa_verify_no_throw, "verified"),
     eddsa_public_key |-> OnBn(cx_eddsa_get_public_key_no_throw, "public_key"),
     eddsa_sign |-> Fn(cx_eddsa_sign_no_throw, {"sig"}, {"unlock", "bzero"}, {}, FALSE),
     eddsa_verify |-> Fn(cx_eddsa_verify_no_throw, {"verified"}, {"unlock", "bzero"}, {}, FALSE),
     generate_pair |-> OnBn(cx_ecfp_generate_pair2_no_throw("WEIERSTRASS"), "public_key"),
     generate_edpair |-> OnBn(cx_ecfp_generate_pair2_no_throw("TWISTED_EDWARDS"), "public_key"),
     add_point |-> OnBn(cx_ecfp_add_point_no_throw, "R"),
     scalar_mult |-> OnBn(cx_ecfp_scalar_mult_no_throw, "P"),
     compress |-> OnBn(cx_edwards_compress_point_no_throw, "P"),
     decompress |-> OnBn(cx_edwards_decompress_point_no_throw, "P"),
     ecdh |-> OnBn(cx_ecdh_no_throw, "secret"),
     x25519 |-> OnBn(cx_x25519, "u"),
     rsa_init_key |-> Plain(cx_rsa_init_key, "key"),
     rsa_generate |-> OnBn(cx_rsa_generate_pair_no_throw, "private_key"),
     rsa_sign_pss |-> OnBn(cx_rsa_sign_with_salt_len("PSS"), "sig"),
     rsa_sign_1o5 |-> OnBn(cx_rsa_sign_with_salt_len("1o5"), "sig"),
     rsa_verify_pss |-> OnBn(cx_rsa_verify_with_salt_len("PSS"), "verified"),
     rsa_verify_1o5 |-> OnBn(cx_rsa_verify_with_salt_len("1o5"), "verified"),
     rsa_encrypt_oaep |-> OnBn(cx_rsa_encrypt_no_throw("OAEP"), "enc"),
     rsa_encrypt_1o5 |-> OnBn(cx_rsa_encrypt_no_throw("1o5"), "enc"),
     rsa_decrypt_oaep |-> OnBn(cx_rsa_decrypt_no_throw("OAEP"), "dec"),
     rsa_decrypt_1o5 |-> OnBn(cx_rsa_decrypt_no_throw("1o5"), "dec"),
     poly1305 |-> Fn(cx_poly1305_mac, {"tag"}, {"unlock", "bzero"}, {}, FALSE),
     gcm_encrypt |-> OnBn(cx_aes_gcm_process_and_tag, "tag"),
     gcm_decrypt |-> OnBn(cx_aes_gcm_decrypt_and_auth, "tag"),
     chachapoly |-> OnBn(cx_chachapoly_process_and_tag, "tag"),
     chacha |-> OneShot(cx_chacha_cipher, "out"),
     aes |-> OneShot(cx_aes_iv_no_throw, "out"),
     hmac |-> OneShot(cx_hmac_sha256, "mac"),
     hkdf_extract |-> Plain(cx_hkdf_extract, "prk"),
     hkdf_expand |-> Plain(cx_hkdf_expand, "okm"),
     pbkdf2 |-> Plain(cx_pbkdf2_hmac, "key"),
     init_privkey |-> Fn(bip32_derive_with_seed_init_privkey_256, {"privkey"}, {}, {"raw_privkey"}, TRUE),
     get_pubkey |-> Helper(bip32_derive_with_seed_get_pubkey_256, "raw_pubkey"),
     ecdsa_sign_hash |-> Helper(bip32_derive_with_seed_ecdsa_sign_hash_256, "sig"),
     eddsa_sign_hash |-> Helper(bip32_derive_with_seed_eddsa_sign_hash_256, "sig")]

Calls == DOMAIN Schnorrs \cup DOMAIN Verifications \cup DOMAIN SignatureCalls
         \cup {<<name, "">> : name \in DOMAIN OtherCalls}

FnOf(call) ==
    IF call \in DOMAIN Schnorrs THEN Schnorrs[call]
    ELSE IF call \in DOMAIN Verifications THEN Verifications[call]
    ELSE IF call \in DOMAIN SignatureCalls THEN SignatureCalls[call] ELSE OtherCalls[call[1]]

CxFunctions == [call \in Calls |-> FnOf(call)]

-----------------------------------------------------------------------------
(* Execution.                                                              *)

NoCxCall == [call |-> <<"", "">>, pc |-> 0, tries |-> 0, error |-> "ok"]

Calling == cxCall.call # <<"", "">>

Steps == CxFunctions[cxCall.call].steps

\* Is the call at a step, and not at its "end:"?
AtStep == Calling /\ cxCall.pc # 0

This == Steps[cxCall.pc]

\* Past the last step is "end:".
GoTo(n) == [cxCall EXCEPT !.pc = IF n > Len(Steps) THEN 0 ELSE n]

ToNext == GoTo(cxCall.pc + 1)

ToEnd(error) == [cxCall EXCEPT !.pc = 0, !.error = error]

CxStart ==
    /\ ~Calling
    /\ \E call \in Calls : cxCall' = [call |-> call, pc |-> 1, tries |-> 0, error |-> "ok"]
    /\ written' = {}
    /\ returned' = [call |-> <<"", "">>, error |-> "ok"]
    /\ UNCHANGED <<bn, gcx, keys>>

\* The processor refuses what needs the lock without it, and a second lock.
RefusedByBn(s) ==
    \/ s.op = "lock" /\ bn.locked
    \/ s.op \in {"alloc", "use", "destroy"} /\ ~bn.locked

\* The steps whose failure the code sees: three initialisations return
\* nothing, or nothing that is looked at.
Fallible(s) ==
    /\ s.op \in {"lock", "alloc", "use", "destroy", "check", "refuse", "init", "feed", "key"}
    /\ ~(s.op = "init" /\ s.name \in {"sha256", "chacha", "poly1305"})

\* A checked call fails.  A derivation that fails may have stored the key.
CxFail ==
    /\ AtStep
    /\ Fallible(This)
    /\ cxCall' = ToEnd("error")
    /\ keys' = IF This.op = "key" THEN keys \cup {This.name} ELSE keys
    /\ UNCHANGED <<bn, gcx, written, returned>>

\* An early return that passes by "end:".
CxReturn ==
    /\ AtStep
    /\ This.op = "return"
    /\ \/ /\ cxCall' = ToNext
          /\ UNCHANGED returned
       \/ /\ cxCall' = NoCxCall
          /\ returned' = [call |-> cxCall.call, error |-> "error"]
    /\ UNCHANGED <<bn, gcx, written, keys>>

LockBn ==
    /\ AtStep
    /\ This.op \in {"lock", "unlock"}
    /\ ~RefusedByBn(This)
    /\ bn' = [locked |-> This.op = "lock", live |-> {}]
    /\ cxCall' = ToNext
    /\ UNCHANGED <<gcx, written, keys, returned>>

UseBn ==
    /\ AtStep
    /\ This.op \in {"alloc", "use", "destroy"}
    /\ ~RefusedByBn(This)
    /\ bn' = [bn EXCEPT !.live = IF This.op = "alloc" THEN @ \cup This.objs
                                 ELSE IF This.op = "destroy" THEN @ \ This.objs ELSE @]
    /\ written' = IF This.name = "" THEN written ELSE written \cup {This.name}
    /\ cxCall' = ToNext
    /\ UNCHANGED <<gcx, keys, returned>>

UseScratch ==
    /\ AtStep
    /\ This.op \in {"init", "feed", "clear"}
    /\ gcx' = IF This.op = "feed" THEN gcx ELSE This.name
    /\ cxCall' = ToNext
    /\ UNCHANGED <<bn, written, keys, returned>>

\* The steps that touch neither.
LocalStep ==
    /\ AtStep
    /\ This.op \in {"check", "refuse", "stop", "write", "key", "wipe", "maybe", "retry", "unlockretry"}
    /\ written' = IF This.op \in {"write", "key"} THEN written \cup {This.name} ELSE written
    /\ keys' = IF This.op = "key" THEN keys \cup {This.name}
               ELSE IF This.op = "wipe" THEN keys \ {This.name} ELSE keys
    /\ cxCall' = ToNext
    /\ UNCHANGED <<bn, gcx, returned>>

\* A condition that does not hold, and the end of a branch.
SkipSteps ==
    /\ AtStep
    /\ This.op \in {"maybe", "jump"}
    /\ cxCall' = GoTo(cxCall.pc + This.n + 1)
    /\ UNCHANGED <<bn, gcx, written, keys, returned>>

\* A signature that is wrong.
SayFalse ==
    /\ AtStep
    /\ This.op = "stop"
    /\ cxCall' = ToEnd("false")
    /\ UNCHANGED <<bn, gcx, written, keys, returned>>

\* The label RETRY: after too many nonces an error or, for Schnorr, "end:".
TryNonce ==
    /\ AtStep
    /\ This.op = "label"
    /\ cxCall' = IF cxCall.tries < This.n
                 THEN [ToNext EXCEPT !.tries = @ + 1]
                 ELSE ToEnd(IF This.name = "refuse" THEN "error" ELSE "gaveup")
    /\ UNCHANGED <<bn, gcx, written, keys, returned>>

\* A zero r or s: goto RETRY; ISO 14888 releases the processor first.
ZeroFound ==
    /\ AtStep
    /\ This.op \in {"retry", "unlockretry"}
    /\ \E i \in DOMAIN Steps : Steps[i].op = "label" /\ cxCall' = GoTo(i)
    /\ bn' = IF This.op = "unlockretry" THEN [locked |-> FALSE, live |-> {}] ELSE bn
    /\ UNCHANGED <<gcx, written, keys, returned>>

\* The label "end:".
Wiped(fn) == fn.wipes \cup (IF fn.clears /\ cxCall.error # "ok" THEN fn.outs ELSE {})

\* A variant that returns on an error without cx_bn_unlock.
ReleasedBn_Slip(fn) ==
    IF "unlock" \in fn.end /\ cxCall.error = "ok" THEN [locked |-> FALSE, live |-> {}] ELSE bn

ReleasedBn(fn) == IF "unlock" \in fn.end THEN [locked |-> FALSE, live |-> {}] ELSE bn

EndCallOf(fn) ==
    /\ bn' = ReleasedBn(fn)
    /\ gcx' = IF fn.end \cap {"bzero", "destroy"} # {} THEN "none" ELSE gcx
    /\ keys' = keys \ (Wiped(fn) \cup (IF cxCall.error = "ok" THEN fn.outs ELSE {}))
    /\ written' = written \ Wiped(fn)

CxEnd ==
    /\ Calling
    /\ cxCall.pc = 0
    /\ EndCallOf(CxFunctions[cxCall.call])
    /\ returned' = [call |-> cxCall.call, error |-> cxCall.error]
    /\ cxCall' = NoCxCall

CxInit ==
    /\ cxCall = NoCxCall
    /\ bn = [locked |-> FALSE, live |-> {}]
    /\ gcx = "none"
    /\ written = {}
    /\ keys = {}
    /\ returned = [call |-> <<"", "">>, error |-> "ok"]

CxNext ==
    \/ CxStart
    \/ CxFail
    \/ CxReturn
    \/ LockBn
    \/ UseBn
    \/ UseScratch
    \/ LocalStep
    \/ SkipSteps
    \/ SayFalse
    \/ TryNonce
    \/ ZeroFound
    \/ CxEnd

CxSpec == CxInit /\ [][CxNext]_cxVars

-----------------------------------------------------------------------------
(* Properties.                                                             *)

\* A step finds what it needs.  The processor is free when a call locks it and
\* locked when a call uses it, except after a zero nonce result, where the code goes back
\* with the lock held (ECDSA) or released (ISO 14888) and the call fails.
CallsReady ==
    AtStep =>
        /\ This.op \in {"use", "destroy"} /\ bn.locked => This.objs \subseteq bn.live
        /\ This.op = "feed" => gcx = This.name
        /\ cxCall.tries <= 1 => ~RefusedByBn(This)

\* A call that has returned leaves nothing behind but its results.
ReturnsClean ==
    ~Calling =>
        /\ ~bn.locked
        /\ keys = {}
        /\ returned.call # <<"", "">> =>
              /\ returned.error = "ok" => CxFunctions[returned.call].outs \subseteq written
              /\ returned.error # "ok" /\ CxFunctions[returned.call].clears
                    => CxFunctions[returned.call].outs \cap written = {}


=============================================================================
