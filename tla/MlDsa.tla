------------------------------- MODULE MlDsa -------------------------------
(***************************************************************************)
(* ML-DSA (lib_cxng/src/cx_mldsa*.c): key generation, the two builds of    *)
(* the signer and of the verifier (the plain one, and the low-RAM one of   *)
(* HAVE_MLDSA_OPTIMIZATION), with the real modulus and rounding.  A        *)
(* polynomial has PolyN coefficients instead of 256; the number-theoretic  *)
(* transforms are the product they compute; what SHAKE returns is chosen,  *)
(* a digest being the value it is the digest of.                           *)
(***************************************************************************)
EXTENDS Integers, Sequences, FiniteSetsExt, SequencesExt

CONSTANTS
    MldsaParams,      \* parameter sets [gamma1, gamma2, eta, tau, beta, omega]
    KeySeeds(_),      \* what the key's seed expands to, for a parameter set
    Masks(_, _),      \* what rhoprime expands to for each nonce, for a parameter set and a seed
    ChallengeSeeds,   \* what a challenge digest expands to: [signs, buf]
    SignedMessages,   \* messages [mode, ctx, body] that are signed
    CheckedMessages,  \* and messages a signature is checked for
    SignAttempts      \* MLDSA_MAX_SIGN_ATTEMPTS

VARIABLE mldsa

mldsaVars == <<mldsa>>

MLDSA_Q == 8380417
MLDSA_D == 13
PolyN == 2        \* MLDSA_N
RowsK == 1 .. 2   \* the rows p->k
ColsL == 1 .. 2   \* and columns p->l of the matrix
Coeffs == 0 .. PolyN - 1

ZeroPoly == [i \in Coeffs |-> 0]

-----------------------------------------------------------------------------
(* Coefficients *)

\* Products modulo q, seven bits of b at a time.
MulStep(r, a, digit) == (r * 128 + a * digit) % MLDSA_Q
MulQ(a, b) ==
    MulStep(MulStep(MulStep((a * (b \div 2097152)) % MLDSA_Q,
                            a, (b \div 16384) % 128), a, (b \div 128) % 128), a, b % 128)

MLDSA_POLY_reduce32(a) == a - ((a + 4194304) \div 8388608) * MLDSA_Q

MLDSA_POLY_caddq(a) == IF a < 0 THEN a + MLDSA_Q ELSE a

mldsa_freeze(a) == MLDSA_POLY_caddq(MLDSA_POLY_reduce32(a))

Abs(a) == IF a < 0 THEN -a ELSE a

MLDSA_ROUNDING_power2round(a) == (a + 4095) \div 8192

\* The high bits of a; the low bits are what remains, centred.
HighOf(a1, gamma2) ==
    IF gamma2 = (MLDSA_Q - 1) \div 32
    THEN ((a1 * 1025 + 2097152) \div 4194304) % 16
    ELSE ((a1 * 11275 + 8388608) \div 16777216) % 44
MLDSA_ROUNDING_decompose(a, gamma2) == HighOf((a + 127) \div 128, gamma2)

Centred(a0) == IF a0 > (MLDSA_Q - 1) \div 2 THEN a0 - MLDSA_Q ELSE a0
LowBits(a, gamma2) == Centred(a - MLDSA_ROUNDING_decompose(a, gamma2) * 2 * gamma2)

MLDSA_ROUNDING_make_hint(a0, a1, gamma2) ==
    a0 > gamma2 \/ a0 < -gamma2 \/ (a0 = -gamma2 /\ a1 # 0)

NbHighBits(gamma2) == (MLDSA_Q - 1) \div (2 * gamma2)
MLDSA_ROUNDING_use_hint(a, hint, gamma2) ==
    (MLDSA_ROUNDING_decompose(a, gamma2)
       + (IF ~hint THEN 0 ELSE IF LowBits(a, gamma2) > 0 THEN 1 ELSE -1)) % NbHighBits(gamma2)

-----------------------------------------------------------------------------
(* Polynomials *)

\* MLDSA_POLY_ntt, pointwise_montgomery and invntt_tomont: the product modulo
\* X^N + 1 and q, in the representative 0 .. q - 1.
Term(a, b, i, j) ==
    IF j <= i THEN MulQ(a[j] % MLDSA_Q, b[i - j] % MLDSA_Q)
    ELSE MLDSA_Q - MulQ(a[j] % MLDSA_Q, b[PolyN + i - j] % MLDSA_Q)
PolyMul(a, b) == [i \in Coeffs |-> MapThenSumSet(LAMBDA j : Term(a, b, i, j), Coeffs) % MLDSA_Q]

\* MLDSA_SMALLPOLY_ntt, basemul_invntt: the product modulo 3329, centred.
SmallCentred(x) == IF x > 1664 THEN x - 3329 ELSE x
SmallTerm(a, b, i, j) == IF j <= i THEN a[j] * b[i - j] ELSE -(a[j] * b[PolyN + i - j])
MLDSA_SMALLPOLY_basemul_invntt(a, b) ==
    [i \in Coeffs |-> SmallCentred(MapThenSumSet(LAMBDA j : SmallTerm(a, b, i, j), Coeffs) % 3329)]

PolyAdd(a, b) == [i \in Coeffs |-> a[i] + b[i]]
PolySub(a, b) == [i \in Coeffs |-> a[i] - b[i]]
MLDSA_POLY_reduce(a) == [i \in Coeffs |-> MLDSA_POLY_reduce32(a[i])]
MLDSA_POLY_caddq_all(a) == [i \in Coeffs |-> MLDSA_POLY_caddq(a[i])]
MLDSA_POLY_chknorm(a, B) == B > (MLDSA_Q - 1) \div 8 \/ \E i \in Coeffs : Abs(a[i]) >= B

-----------------------------------------------------------------------------
(* Sampling, from what SHAKE returns *)

CoefficientsOf(accepted) == [i \in Coeffs |-> IF i < Len(accepted) THEN accepted[i + 1] ELSE 0]

MLDSA_SAMPLE_uniform(buf) == CoefficientsOf(SelectSeq(buf, LAMBDA t : t < MLDSA_Q))

MLDSA_SAMPLE_eta(nibbles, eta) ==
    [i \in Coeffs |->
        IF eta = 2 THEN 2 - (SelectSeq(nibbles, LAMBDA t : t < 15)[i + 1] % 5)
        ELSE 4 - SelectSeq(nibbles, LAMBDA t : t < 9)[i + 1]]

MLDSA_SAMPLE_gamma1(fields, gamma1) == [i \in Coeffs |-> gamma1 - fields[i + 1]]

\* MLDSA_SAMPLE_challenge: coefficient i takes the place of a coefficient j <= i,
\* which becomes 1 or -1; when the bytes run out, its own.
NextAt(buf, pos, i) == {x \in pos .. Len(buf) : buf[x] <= i}
OneMore(s, buf, i, j, pos) ==
    [c |-> [s.c EXCEPT ![i] = s.c[j], ![j] = 1 - 2 * (s.signs % 2)],
     signs |-> s.signs \div 2, pos |-> pos]
ChallengeStep(s, buf, i) ==
    IF NextAt(buf, s.pos, i) = {} THEN OneMore(s, buf, i, i, Len(buf) + 1)
    ELSE OneMore(s, buf, i, buf[Min(NextAt(buf, s.pos, i))], Min(NextAt(buf, s.pos, i)) + 1)
MLDSA_SAMPLE_challenge(seed, tau) ==
    FoldLeft(LAMBDA s, x : ChallengeStep(s, seed.buf, PolyN - tau + x - 1),
             [c |-> ZeroPoly, signs |-> seed.signs, pos |-> 1], [x \in 1 .. tau |-> x]).c

-----------------------------------------------------------------------------
(* Packing: a coefficient becomes a field of so many bits *)

Field(a, bits) == a % 2^bits

EtaBits(eta) == IF eta = 2 THEN 3 ELSE 4
ZBits(gamma1) == IF gamma1 = 131072 THEN 18 ELSE 20
W1Bits(gamma2) == IF gamma2 = (MLDSA_Q - 1) \div 32 THEN 4 ELSE 6

MLDSA_PACK_polyt1(a) == [i \in Coeffs |-> Field(a[i], 10)]
MLDSA_PACK_polyt0(a) == [i \in Coeffs |-> Field(4096 - a[i], 13)]
MLDSA_PACK_unpack_polyt0(r) == [i \in Coeffs |-> 4096 - r[i]]
MLDSA_PACK_polyeta(a, eta) == [i \in Coeffs |-> Field(eta - a[i], EtaBits(eta))]
MLDSA_PACK_unpack_polyeta(r, eta) == [i \in Coeffs |-> eta - r[i]]
MLDSA_PACK_polyz(a, gamma1) == [i \in Coeffs |-> Field(gamma1 - a[i], ZBits(gamma1))]
MLDSA_PACK_unpack_polyz(r, gamma1) == [i \in Coeffs |-> gamma1 - r[i]]
MLDSA_PACK_polyw1(a, gamma2) == [i \in Coeffs |-> Field(a[i], W1Bits(gamma2))]

-----------------------------------------------------------------------------
(* Messages: mu is the digest of tr (the digest of the public key) and of  *)
(* the formatted message, a sequence of bytes.                             *)

PrehashOid == <<9>>

mldsa_format_message_pure(m) == <<0, Len(m.ctx)>> \o m.ctx \o m.body
mldsa_format_message_prehash(m) == <<1, Len(m.ctx)>> \o m.ctx \o PrehashOid \o m.body

MPrime(m) == IF m.mode = "pure" THEN mldsa_format_message_pure(m) ELSE mldsa_format_message_prehash(m)

mldsa_compute_mu(tr, m) == <<tr, MPrime(m)>>

-----------------------------------------------------------------------------
(* Hints: the indices of each row in increasing order, zeros, and the end  *)
(* of each row.                                                            *)

RowIndices(H, r) == SelectSeq([i \in 1 .. PolyN |-> i - 1], LAMBDA i : i \in H[r])
AllIndices(H) == FoldLeft(LAMBDA s, r : s \o RowIndices(H, r), <<>>, [r \in RowsK |-> r])
NbHints(H) == Len(AllIndices(H))

EncodeHints(H, omega) ==
    [j \in 1 .. omega + Cardinality(RowsK) |->
        IF j > omega THEN MapThenSumSet(LAMBDA r : Cardinality(H[r]), 1 .. j - omega)
        ELSE IF j <= NbHints(H) THEN AllIndices(H)[j] ELSE 0]

\* The encoding check of both verifiers: a row ends where it started or later,
\* within omega; its indices increase; what follows the last row is zero.
RowStart(h, omega, r) == IF r = 1 THEN 0 ELSE h[omega + r - 1]

HintsValid_Slip(h, omega) ==
    /\ \A r \in RowsK : RowStart(h, omega, r) <= h[omega + r] /\ h[omega + r] <= omega
    /\ \A r \in RowsK : \A j \in RowStart(h, omega, r) + 2 .. h[omega + r] : h[j] > h[j - 1]
HintsValid(h, omega) ==
    /\ \A r \in RowsK : RowStart(h, omega, r) <= h[omega + r] /\ h[omega + r] <= omega
    /\ \A r \in RowsK : \A j \in RowStart(h, omega, r) + 2 .. h[omega + r] : h[j] > h[j - 1]
    /\ \A j \in h[omega + Cardinality(RowsK)] + 1 .. omega : h[j] = 0

RowHints(h, omega, r) == {h[j] : j \in RowStart(h, omega, r) + 1 .. h[omega + r]}

-----------------------------------------------------------------------------
(* Key generation: t = A s1 + s2 is split into t1, published, and t0.      *)

Aij(key, r, l) == MLDSA_SAMPLE_uniform(key.rho[r][l])

\* A row of A times a vector, accumulated in one polynomial.
RowTimes(key, r, v) ==
    FoldLeft(LAMBDA s, l : [i \in Coeffs |-> (s[i] + PolyMul(Aij(key, r, l), v[l])[i]) % MLDSA_Q],
             ZeroPoly, [l \in ColsL |-> l])

KeyRow(key, s1, s2r, r) == MLDSA_POLY_caddq_all(PolyAdd(RowTimes(key, r, s1), s2r))

Rounded(t) == [i \in Coeffs |-> MLDSA_ROUNDING_power2round(t[i])]
RoundedOff(t) == [i \in Coeffs |-> t[i] - MLDSA_ROUNDING_power2round(t[i]) * 2^MLDSA_D]

KeyOf(seed, s1, s2, t, eta) ==
    [rho |-> seed.rho,
     s1 |-> [l \in ColsL |-> MLDSA_PACK_polyeta(s1[l], eta)],
     s2 |-> [r \in RowsK |-> MLDSA_PACK_polyeta(s2[r], eta)],
     t0 |-> [r \in RowsK |-> MLDSA_PACK_polyt0(RoundedOff(t[r]))],
     t1 |-> [r \in RowsK |-> MLDSA_PACK_polyt1(Rounded(t[r]))]]

KeyOfSecrets(seed, s1, s2, eta) ==
    KeyOf(seed, s1, s2, [r \in RowsK |-> KeyRow(seed, s1, s2[r], r)], eta)

MLDSA_internal_keygen(seed, p) ==
    KeyOfSecrets(seed, [l \in ColsL |-> MLDSA_SAMPLE_eta(seed.s1[l], p.eta)],
                 [r \in RowsK |-> MLDSA_SAMPLE_eta(seed.s2[r], p.eta)], p.eta)

\* tr is the digest of the public key.
Tr(key) == <<key.rho, key.t1>>

-----------------------------------------------------------------------------
(* One attempt of the plain signer: w = A y, the challenge c of its high   *)
(* bits, then the checks in the order of the code.                         *)

NoSig == [ok |-> FALSE]

SigOf(ctilde, z, h) == [ok |-> TRUE, ctilde |-> ctilde, z |-> z, h |-> h]

HighRow(w, gamma2) ==
    MLDSA_PACK_polyw1([i \in Coeffs |-> MLDSA_ROUNDING_decompose(w[i], gamma2)], gamma2)

ZRow(p, key, c, y, l) ==
    MLDSA_POLY_reduce(PolyAdd(y, PolyMul(c, MLDSA_PACK_unpack_polyeta(key.s1[l], p.eta))))

R0Row(p, key, c, w, r) ==
    MLDSA_POLY_reduce(PolySub([i \in Coeffs |-> LowBits(w[i], p.gamma2)],
                              PolyMul(c, MLDSA_PACK_unpack_polyeta(key.s2[r], p.eta))))

Ct0Row(key, c, r) == MLDSA_POLY_reduce(PolyMul(c, MLDSA_PACK_unpack_polyt0(key.t0[r])))

HintRow(p, w, r0, ct0) ==
    {i \in Coeffs : MLDSA_ROUNDING_make_hint(ct0[i] + r0[i],
                                             MLDSA_ROUNDING_decompose(w[i], p.gamma2), p.gamma2)}

PlainHinted(p, ctilde, z, H) ==
    IF NbHints(H) > p.omega THEN NoSig
    ELSE SigOf(ctilde, [l \in ColsL |-> MLDSA_PACK_polyz(z[l], p.gamma1)], EncodeHints(H, p.omega))

PlainRows(p, ctilde, z, w, r0, ct0) ==
    IF \/ \E l \in ColsL : MLDSA_POLY_chknorm(z[l], p.gamma1 - p.beta)
       \/ \E r \in RowsK : \/ MLDSA_POLY_chknorm(r0[r], p.gamma2 - p.beta)
                           \/ MLDSA_POLY_chknorm(ct0[r], p.gamma2)
    THEN NoSig
    ELSE PlainHinted(p, ctilde, z, [r \in RowsK |-> HintRow(p, w[r], r0[r], ct0[r])])

PlainChallenged(p, key, mu, w, y, c) ==
    PlainRows(p, <<mu, [r \in RowsK |-> HighRow(w[r], p.gamma2)]>>,
              [l \in ColsL |-> ZRow(p, key, c, y[l], l)], w,
              [r \in RowsK |-> R0Row(p, key, c, w[r], r)],
              [r \in RowsK |-> Ct0Row(key, c, r)])

PlainMasked(p, key, mu, y, c) ==
    PlainChallenged(p, key, mu, [r \in RowsK |-> RowTimes(key, r, y)], y, c)

\* y is sampled with the nonces kappa_base, kappa_base + 1, ...
PlainAttempt(p, key, mu, mask, c, kappa_base) ==
    PlainMasked(p, key, mu,
                [l \in ColsL |-> MLDSA_SAMPLE_gamma1(mask[kappa_base + l - 1], p.gamma1)], c)

\* The rejection loop of MLDSA_internal_sign_core.
PlainSign(p, key, mu, mask, c) ==
    FoldLeft(LAMBDA s, n : IF s.ok THEN s
                           ELSE PlainAttempt(p, key, mu, mask, c, (n - 1) * Cardinality(ColsL)),
             NoSig, [n \in 1 .. SignAttempts |-> n])

-----------------------------------------------------------------------------
(* The low-RAM signer: w is kept frozen in 24-bit fields (wcomp), w1 only  *)
(* packed, the challenge as its positions and signs (ccomp); y is sampled  *)
(* again when it is needed.                                                *)

\* MLDSA_LOWRAM_challenge_compress and _decompress
MLDSA_LOWRAM_challenge_compress(c) ==
    [x \in 1 .. Len(SelectSeq([i \in 1 .. PolyN |-> i - 1], LAMBDA i : c[i] # 0)) |->
        <<SelectSeq([i \in 1 .. PolyN |-> i - 1], LAMBDA i : c[i] # 0)[x],
          IF c[SelectSeq([i \in 1 .. PolyN |-> i - 1], LAMBDA i : c[i] # 0)[x]] = -1 THEN -1 ELSE 1>>]
MLDSA_LOWRAM_challenge_decompress(ccomp) ==
    FoldLeft(LAMBDA c, e : [c EXCEPT ![e[1]] = e[2]], ZeroPoly, ccomp)

\* MLDSA_LOWRAM_schoolbook_t0 and _t1: c times t, one coefficient of c at a time.
Shifted(t, pos) == [i \in Coeffs |-> IF i >= pos THEN t[i - pos] ELSE -t[PolyN + i - pos]]
Schoolbook(ccomp, t) ==
    FoldLeft(LAMBDA s, e : [i \in Coeffs |-> s[i] + e[2] * Shifted(t, e[1])[i]], ZeroPoly, ccomp)
MLDSA_LOWRAM_schoolbook_t0(ccomp, t0) == Schoolbook(ccomp, MLDSA_PACK_unpack_polyt0(t0))
MLDSA_LOWRAM_schoolbook_t1(ccomp, t1) ==
    Schoolbook(ccomp, [i \in Coeffs |-> t1[i] * 2^MLDSA_D])

\* MLDSA_LOWRAM_expand_aij_accum: every product is added and frozen.
MLDSA_LOWRAM_expand_aij_accum(wcomp, aij, b) ==
    [i \in Coeffs |-> mldsa_freeze(wcomp[i] + PolyMul(aij, b)[i])]
LowRow(key, r, v) ==
    FoldLeft(LAMBDA wcomp, l : MLDSA_LOWRAM_expand_aij_accum(wcomp, Aij(key, r, l), v[l]),
             ZeroPoly, [l \in ColsL |-> l])

\* MLDSA_LOWRAM_polyw_pack
MLDSA_LOWRAM_polyw_pack(a) == [i \in Coeffs |-> mldsa_freeze(a[i])]

\* z = c s1 and the mask sampled again, MLDSA_LOWRAM_sample_gamma1_add
MLDSA_LOWRAM_sample_gamma1_add(b, fields, gamma1) == [i \in Coeffs |-> b[i] + gamma1 - fields[i + 1]]

LowZRow(p, key, ccomp, fields, l) ==
    MLDSA_POLY_reduce(MLDSA_LOWRAM_sample_gamma1_add(
        MLDSA_SMALLPOLY_basemul_invntt(MLDSA_LOWRAM_challenge_decompress(ccomp),
                                       MLDSA_PACK_unpack_polyeta(key.s1[l], p.eta)),
        fields, p.gamma1))

\* w - c s2, back into wcomp
LowWRow(p, key, ccomp, wcomp, r) ==
    MLDSA_LOWRAM_polyw_pack(MLDSA_POLY_reduce(PolySub(wcomp,
        MLDSA_SMALLPOLY_basemul_invntt(MLDSA_LOWRAM_challenge_decompress(ccomp),
                                       MLDSA_PACK_unpack_polyeta(key.s2[r], p.eta)))))

\* The high bits are those of w, not of w - c s2.
MLDSA_LOWRAM_poly_r0(wcomp, w1, gamma2) ==
    [i \in Coeffs |-> MLDSA_POLY_reduce32(wcomp[i] - w1[i] * 2 * gamma2)]

MLDSA_LOWRAM_make_hint(ct0, wcomp, w1, gamma2) ==
    {i \in Coeffs : MLDSA_ROUNDING_make_hint(
                        MLDSA_POLY_reduce32(wcomp[i] + ct0[i] - w1[i] * 2 * gamma2), w1[i], gamma2)}

LowRows(p, ctilde, z, w1, wcomp, ct0) ==
    IF \/ \E l \in ColsL : MLDSA_POLY_chknorm(z[l], p.gamma1 - p.beta)
       \/ \E r \in RowsK : MLDSA_POLY_chknorm(MLDSA_LOWRAM_poly_r0(wcomp[r], w1[r], p.gamma2),
                                              p.gamma2 - p.beta)
       \/ \E r \in RowsK : MLDSA_POLY_chknorm(ct0[r], p.gamma2)
    THEN NoSig
    ELSE PlainHinted(p, ctilde, z,
                     [r \in RowsK |-> MLDSA_LOWRAM_make_hint(ct0[r], wcomp[r], w1[r], p.gamma2)])

LowChallenged(p, key, mu, w, w1, fields, ccomp) ==
    LowRows(p, <<mu, w1>>, [l \in ColsL |-> LowZRow(p, key, ccomp, fields[l], l)], w1,
            [r \in RowsK |-> LowWRow(p, key, ccomp, w[r], r)],
            [r \in RowsK |-> MLDSA_POLY_reduce(MLDSA_LOWRAM_schoolbook_t0(ccomp, key.t0[r]))])

LowHigh(p, key, mu, w, fields, c) ==
    LowChallenged(p, key, mu, w, [r \in RowsK |-> HighRow(w[r], p.gamma2)], fields,
                  MLDSA_LOWRAM_challenge_compress(c))

LowMasked(p, key, mu, y, fields, c) ==
    LowHigh(p, key, mu, [r \in RowsK |-> MLDSA_LOWRAM_polyw_pack(LowRow(key, r, y))], fields, c)

\* kappa has moved on when y is sampled again: the nonces are kappa - l, ...
LowAttempt(p, key, mu, mask, c, kappa) ==
    LowMasked(p, key, mu,
              [l \in ColsL |-> MLDSA_SAMPLE_gamma1(mask[kappa - Cardinality(ColsL) + l - 1], p.gamma1)],
              [l \in ColsL |-> mask[kappa - Cardinality(ColsL) + l - 1]], c)

LowSign(p, key, mu, mask, c) ==
    FoldLeft(LAMBDA s, n : IF s.ok THEN s
                           ELSE LowAttempt(p, key, mu, mask, c, n * Cardinality(ColsL)),
             NoSig, [n \in 1 .. SignAttempts |-> n])

-----------------------------------------------------------------------------
(* The verifiers: A z - c t1 2^d has, with the hints, the high bits of w.  *)

UnpackedZ(p, sig) == [l \in ColsL |-> MLDSA_PACK_unpack_polyz(sig.z[l], p.gamma1)]

WellFormed(p, sig) ==
    /\ HintsValid(sig.h, p.omega)
    /\ \A l \in ColsL : ~MLDSA_POLY_chknorm(UnpackedZ(p, sig)[l], p.gamma1 - p.beta)

\* MLDSA_ROUNDING_poly_use_hint and MLDSA_LOWRAM_use_hint_indices
WithHints(p, w, hints) ==
    MLDSA_PACK_polyw1([i \in Coeffs |-> MLDSA_ROUNDING_use_hint(w[i], i \in hints, p.gamma2)], p.gamma2)

PlainWRow(p, key, sig, c, r) ==
    [i \in Coeffs |-> (RowTimes(key, r, UnpackedZ(p, sig))[i]
                         - PolyMul(c, [j \in Coeffs |-> key.t1[r][j] * 2^MLDSA_D])[i]) % MLDSA_Q]

PlainVerify(p, key, mu, sig, c) ==
    /\ WellFormed(p, sig)
    /\ sig.ctilde = <<mu, [r \in RowsK |-> WithHints(p, PlainWRow(p, key, sig, c, r),
                                                     RowHints(sig.h, p.omega, r))]>>

LowVWRow(p, key, sig, ccomp, r) ==
    MLDSA_POLY_caddq_all(MLDSA_POLY_reduce(
        PolySub(LowRow(key, r, UnpackedZ(p, sig)), MLDSA_LOWRAM_schoolbook_t1(ccomp, key.t1[r]))))

LowVerify(p, key, mu, sig, c) ==
    /\ WellFormed(p, sig)
    /\ sig.ctilde = <<mu, [r \in RowsK |-> WithHints(p, LowVWRow(p, key, sig,
                                                                 MLDSA_LOWRAM_challenge_compress(c), r),
                                                     RowHints(sig.h, p.omega, r))]>>

-----------------------------------------------------------------------------
(* Calls *)

NoMldsa == [step |-> "none"]

MldsaInit == mldsa = NoMldsa

\* MLDSA_keygen
MLDSA_keygen ==
    /\ mldsa.step = "none"
    /\ \E p \in MldsaParams : \E seed \in KeySeeds(p) :
          mldsa' = [step |-> "key", p |-> p, seed |-> seed, key |-> MLDSA_internal_keygen(seed, p)]

\* MLDSA_sign and MLDSA_sign_prehash, by the two builds
BothSigned(p, key, m, mu, mask, c, challenge) ==
    [step |-> "signed", p |-> p, key |-> key, m |-> m, c |-> challenge,
     plain |-> PlainSign(p, key, mu, mask, c), low |-> LowSign(p, key, mu, mask, c)]
MLDSA_sign ==
    /\ mldsa.step = "key"
    /\ \E m \in SignedMessages, seed \in ChallengeSeeds, mask \in Masks(mldsa.p, mldsa.seed) :
          mldsa' = BothSigned(mldsa.p, mldsa.key, m, mldsa_compute_mu(Tr(mldsa.key), m), mask,
                              MLDSA_SAMPLE_challenge(seed, mldsa.p.tau),
                              MLDSA_SAMPLE_challenge(seed, mldsa.p.tau))

\* MLDSA_verify and MLDSA_verify_prehash of the signature, and of the signature
\* with another encoding of hints
SignatureAccepted(s, mu, sig, same) ==
    [step |-> "verified", same |-> same, plain |-> PlainVerify(s.p, s.key, mu, sig, s.c),
     low |-> LowVerify(s.p, s.key, mu, sig, s.c)]

MLDSA_verify ==
    /\ mldsa.step = "signed" /\ mldsa.plain.ok
    /\ \E m \in CheckedMessages :
          mldsa' = SignatureAccepted(mldsa, mldsa_compute_mu(Tr(mldsa.key), m), mldsa.plain, m = mldsa.m)

HintEncodings(omega) ==
    {h \in [1 .. omega + Cardinality(RowsK) -> 0 .. omega + 1] : \A j \in 1 .. omega : h[j] \in Coeffs}

MLDSA_verifyHints ==
    /\ mldsa.step = "signed" /\ mldsa.plain.ok
    /\ \E h \in HintEncodings(mldsa.p.omega) :
          mldsa' = SignatureAccepted(mldsa, mldsa_compute_mu(Tr(mldsa.key), mldsa.m),
                            [mldsa.plain EXCEPT !.h = h], h = mldsa.plain.h)

MldsaNext == MLDSA_keygen \/ MLDSA_sign \/ MLDSA_verify \/ MLDSA_verifyHints

MldsaSpec == MldsaInit /\ [][MldsaNext]_mldsaVars

-----------------------------------------------------------------------------
\* The two builds of MLDSA_internal_sign_core reject the same attempts and give
\* the same signature; and both builds of MLDSA_internal_verify_core accept a
\* signature for exactly the message, mode and context it was made for, and
\* with exactly the encoding of hints it was made with.
SignVerify ==
    /\ mldsa.step = "signed" => mldsa.plain = mldsa.low
    /\ mldsa.step = "verified" => mldsa.plain = mldsa.same /\ mldsa.low = mldsa.same

=============================================================================
