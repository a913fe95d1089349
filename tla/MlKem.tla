------------------------------- MODULE MlKem -------------------------------
(***************************************************************************)
(* ML-KEM (lib_cxng/src/cx_mlkem*.c): key generation, encapsulation and    *)
(* decapsulation, with the real modulus and compression.  A polynomial has *)
(* KemN coefficients instead of 256 and a vector two polynomials; the      *)
(* number-theoretic transforms are the product they compute; what the hash *)
(* functions return is chosen where it is sampled from, and is the value   *)
(* that was hashed elsewhere.                                              *)
(***************************************************************************)
EXTENDS Integers, Sequences, FiniteSetsExt, SequencesExt

CONSTANTS
    KemParams,       \* parameter sets [eta1, eta2, du, dv]
    KemSeeds,        \* key seeds [rho, noise]: what they expand to
    KemCoins,        \* what the coins of a message expand to, [message -> noise]
    KemMessages,     \* messages, as sequences of bits
    KemFaults        \* what is added to a compressed coefficient of a ciphertext

VARIABLE kem

kemVars == <<kem>>

MLKEM_Q == 3329
MLKEM_Q_HALF == 1665
KemN == 2
KemCoeffs == 0 .. KemN - 1
KemRows == 1 .. 2

-----------------------------------------------------------------------------
(* Compression: u times a constant c1 2^16 + c0, rounded to its top bits.  *)

\* The product in 16-bit halves; "width" is that of its upper half.
Scaled(u, c1, c0, shift, width) ==
    ((u * c1 + (u * c0) \div 65536 + 2^(shift - 17)) % 2^width) \div 2^(shift - 16)

MLKEM_POLY_scalar_compress(u, d) ==
    IF d = 1 THEN Scaled(u, 19, 44984, 31, 16)
    ELSE IF d = 4 THEN Scaled(u, 19, 44976, 28, 16)
    ELSE IF d = 5 THEN Scaled(u, 19, 44992, 27, 16)
    ELSE IF d = 10 THEN Scaled(u, 40317, 48128, 33, 30) % 1024
    ELSE Scaled(u, 40317, 48128, 32, 30) % 2048

MLKEM_POLY_scalar_decompress(u, d) == (u * MLKEM_Q + 2^(d - 1)) \div 2^d

\* What it has to be: the nearest integer to 2^d u / q, modulo 2^d.
CompressRef(u, d) == ((u * 2^(d + 1) + MLKEM_Q) \div (2 * MLKEM_Q)) % 2^d

-----------------------------------------------------------------------------
(* Polynomials *)

KemTerm(a, b, i, j) == IF j <= i THEN a[j] * b[i - j] ELSE -(a[j] * b[KemN + i - j])

\* MLKEM_POLYVEC_ntt, basemul_acc_montgomery and invntt_tomont
KemDot(a, b) ==
    [i \in KemCoeffs |->
        MapThenSumSet(LAMBDA r : MapThenSumSet(LAMBDA j : KemTerm(a[r], b[r], i, j), KemCoeffs), KemRows)]

MLKEM_POLY_reduce(a) == [i \in KemCoeffs |-> a[i] % MLKEM_Q]

KemAdd(a, b) == [i \in KemCoeffs |-> a[i] + b[i]]

KemCompress(a, d) == [i \in KemCoeffs |-> MLKEM_POLY_scalar_compress(a[i], d)]
KemDecompress(a, d) == [i \in KemCoeffs |-> MLKEM_POLY_scalar_decompress(a[i], d)]

MLKEM_POLY_frommsg(m) == [i \in KemCoeffs |-> m[i + 1] * MLKEM_Q_HALF]
MLKEM_POLY_tomsg(a) == [i \in 1 .. KemN |-> MLKEM_POLY_scalar_compress(a[i - 1], 1)]

\* MLKEM_POLY_tobytes: fields of 12 bits
MLKEM_POLY_tobytes(a) == [i \in KemCoeffs |-> a[i] % 4096]

-----------------------------------------------------------------------------
(* Sampling *)

\* MLKEM_SAMPLE_cbd2 and cbd3: of 2 eta bits, the first eta count for and the
\* others against.
Bit(x, b) == (x \div 2^b) % 2
MLKEM_SAMPLE_cbd(x, eta) ==
    MapThenSumSet(LAMBDA b : Bit(x, b), 0 .. eta - 1) - MapThenSumSet(LAMBDA b : Bit(x, b), eta .. 2 * eta - 1)
MLKEM_SAMPLE_getnoise(fields, eta) == [i \in KemCoeffs |-> MLKEM_SAMPLE_cbd(fields[i + 1], eta)]

\* MLKEM_SAMPLE_rej_uniform
MLKEM_SAMPLE_rej_uniform(buf) ==
    [i \in KemCoeffs |-> SelectSeq(buf, LAMBDA t : t < MLKEM_Q)[i + 1]]

MLKEM_POLYMAT_gen_matrix_row(rho, transposed, r) ==
    [c \in KemRows |-> MLKEM_SAMPLE_rej_uniform(IF transposed THEN rho[r][c] ELSE rho[c][r])]

-----------------------------------------------------------------------------
(* The public-key scheme (cx_mlkem_indcpa.c): a key is t = A s + e.        *)

MLKEM_INDCPA_keypair_derand(seed, s, e) ==
    [sk |-> [r \in KemRows |-> MLKEM_POLY_tobytes(MLKEM_POLY_reduce(s[r]))],
     pk |-> [rho |-> seed.rho,
             t |-> [r \in KemRows |->
                       MLKEM_POLY_tobytes(MLKEM_POLY_reduce(
                           KemAdd(KemDot(MLKEM_POLYMAT_gen_matrix_row(seed.rho, FALSE, r), s), e[r])))]]]

\* u = A^T s' + e', v = t s' + e'' + m, both compressed
EncU(p, pk, sp, ep) ==
    [r \in KemRows |->
        KemCompress(MLKEM_POLY_reduce(KemAdd(KemDot(MLKEM_POLYMAT_gen_matrix_row(pk.rho, TRUE, r), sp), ep[r])),
                    p.du)]
EncV(p, pk, m, sp, epp) ==
    KemCompress(MLKEM_POLY_reduce(KemAdd(KemAdd(KemDot(pk.t, sp), epp), MLKEM_POLY_frommsg(m))), p.dv)

MLKEM_INDCPA_enc(p, pk, m, coins) ==
    [u |-> EncU(p, pk, [r \in KemRows |-> MLKEM_SAMPLE_getnoise(coins[r], p.eta1)],
                [r \in KemRows |-> MLKEM_SAMPLE_getnoise(coins[2 + r], p.eta2)]),
     v |-> EncV(p, pk, m, [r \in KemRows |-> MLKEM_SAMPLE_getnoise(coins[r], p.eta1)],
                MLKEM_SAMPLE_getnoise(coins[5], p.eta2))]

Minus(v, sb) == [i \in KemCoeffs |-> v[i] - sb[i]]
MLKEM_INDCPA_dec(p, sk, ct) ==
    MLKEM_POLY_tomsg(MLKEM_POLY_reduce(
        Minus(KemDecompress(ct.v, p.dv), KemDot(sk, [r \in KemRows |-> KemDecompress(ct.u[r], p.du)]))))

-----------------------------------------------------------------------------
(* The key encapsulation: hash_g of the message and of the digest of the   *)
(* key gives the shared secret and the coins of the encryption.            *)

HashG(m, pk) == <<"G", m, pk>>
HashJ(z, ct) == <<"J", z, ct>>

\* MLKEM_UTIL_check_ek
MLKEM_UTIL_check_ek(pk) == \A r \in KemRows, i \in KemCoeffs : pk.t[r][i] < MLKEM_Q

\* cx_constant_time_eq of the whole ciphertext
Differs_Slip(ct, ct2) == ct.u # ct2.u
Differs(ct, ct2) == ct # ct2

\* MLKEM_crypto_kem_dec, given the coins of the decrypted message
Decapsulated(ct, ct2, m, pk, z) == IF Differs(ct, ct2) THEN HashJ(z, ct) ELSE HashG(m, pk)
MLKEM_crypto_kem_dec(p, key, ct, m, coins) ==
    Decapsulated(ct, MLKEM_INDCPA_enc(p, key.pk, m, coins), m, key.pk, key.z)

-----------------------------------------------------------------------------
(* Calls *)

KemInit == kem = [step |-> "none"]

MLKEM_crypto_kem_keypair ==
    /\ kem.step = "none"
    /\ \E p \in KemParams, seed \in KemSeeds :
          kem' = [step |-> "key", p |-> p, z |-> "z",
                  key |-> MLKEM_INDCPA_keypair_derand(
                              seed, [r \in KemRows |-> MLKEM_SAMPLE_getnoise(seed.noise[r], p.eta1)],
                              [r \in KemRows |-> MLKEM_SAMPLE_getnoise(seed.noise[2 + r], p.eta1)])]

\* MLKEM_crypto_kem_enc with the key, or with one of its fields out of range
WithField(pk, r, i, x) == [pk EXCEPT !.t[r][i] = x]

Encapsulated(p, key, pk, m, coins) ==
    IF MLKEM_UTIL_check_ek(pk)
    THEN [step |-> "sent", p |-> p, key |-> key, z |-> "z", coins |-> coins, pk |-> pk,
          ct |-> MLKEM_INDCPA_enc(p, pk, m, coins[m]), ss |-> HashG(m, pk)]
    ELSE [step |-> "refused", pk |-> pk]
MLKEM_crypto_kem_enc ==
    /\ kem.step = "key"
    /\ \E m \in KemMessages, coins \in KemCoins :
          \/ kem' = Encapsulated(kem.p, kem.key, kem.key.pk, m, coins)
          \/ \E r \in KemRows, i \in KemCoeffs, x \in {MLKEM_Q, 4095} :
                kem' = Encapsulated(kem.p, kem.key, WithField(kem.key.pk, r, i, x), m, coins)

Received(s, ct) ==
    [step |-> "received", same |-> ct = s.ct, sent |-> s.ss, ct |-> ct,
     ss |-> MLKEM_crypto_kem_dec(s.p, [pk |-> s.key.pk, z |-> s.z], ct, MLKEM_INDCPA_dec(s.p, s.key.sk, ct),
                                 s.coins[MLKEM_INDCPA_dec(s.p, s.key.sk, ct)])]

KemDecapsulate == kem.step = "sent" /\ kem' = Received(kem, kem.ct)

\* The ciphertext may be changed on its way.
FaultyU(ct, r, i, x, d) == [ct EXCEPT !.u[r][i] = (@ + x) % 2^d]
FaultyV(ct, i, x, d) == [ct EXCEPT !.v[i] = (@ + x) % 2^d]
KemDecapsulateFaulty ==
    /\ kem.step = "sent"
    /\ \E i \in KemCoeffs, x \in KemFaults :
          \/ \E r \in KemRows : kem' = Received(kem, FaultyU(kem.ct, r, i, x, kem.p.du))
          \/ kem' = Received(kem, FaultyV(kem.ct, i, x, kem.p.dv))

\* Any coefficient is compressed, and decompressed.
KemRound ==
    /\ kem.step = "none"
    /\ \E u \in 0 .. MLKEM_Q - 1, d \in {1, 4, 5, 10, 11} :
          kem' = [step |-> "rounded", u |-> u, d |-> d, c |-> MLKEM_POLY_scalar_compress(u, d)]

KemNext ==
    \/ MLKEM_crypto_kem_keypair \/ MLKEM_crypto_kem_enc
    \/ KemDecapsulate \/ KemDecapsulateFaulty \/ KemRound

KemSpec == KemInit /\ [][KemNext]_kemVars

-----------------------------------------------------------------------------
\* Decapsulation (MLKEM_crypto_kem_dec) gives the secret the sender has exactly
\* when the ciphertext is the one sent, and otherwise a secret that depends on
\* the ciphertext and the rejection seed only; the sender refuses a key with a
\* coefficient out of range (MLKEM_UTIL_check_ek); and the multiply-and-shift
\* compressions (MLKEM_POLY_scalar_compress_d1 .. d11) round to nearest for
\* every coefficient, a decompressed value compressing to itself.
SecretShared ==
    /\ kem.step = "received" => kem.ss = IF kem.same THEN kem.sent ELSE HashJ("z", kem.ct)
    /\ kem.step = "sent" => kem.pk = kem.key.pk
    /\ kem.step = "rounded" =>
          /\ kem.c = CompressRef(kem.u, kem.d)
          /\ MLKEM_POLY_scalar_compress(MLKEM_POLY_scalar_decompress(kem.c, kem.d), kem.d) = kem.c

=============================================================================
