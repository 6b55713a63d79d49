# DF-VRF in TLA+

Specifications, model-checking configurations and proofs for DF-VRF, a
verifiable random function built on deterministic Falcon-512 signatures. Paths
are relative to the repository root, without the leading `src/`.

Run a check with `tlc -config X.cfg M` and the proofs with `tlapm M_proofs.tla`;
`PROJECT.json` pairs configurations and modules, and maps every definition to
the lines it stands for.

## 1. The system

| Component | State it keeps | Operations | Talks to |
|---|---|---|---|
| VRF API, `crypto/df_vrf.go`, `falcon.go` | none | key generation, prove, verify, proof to hash, sign, verify, CT conversion, in two modes | deterministic API through cgo |
| Deterministic API, `crypto/deterministic.c` | none | sign and verify with a fixed versioned salt (SHAKE) or a derived 40-byte nonce (Keccak); convert compressed to CT; coefficient accessors | streamed API, codecs, hash to point |
| Streamed Falcon API, `crypto/falcon.c` | hash context, caller's generator, scratch array | keygen_make, sign_start, sign_dyn/tree_finish, verify_start/finish | signer, verifier, codecs, SHAKE context |
| Signer core, `crypto/sign.c` | scratch array, sampler generator | sign_dyn, sign_tree: sample until short | norm test, ChaCha20, FFT |
| Norm test, hash to point, `crypto/common.c` | none between calls | is_short, is_short_half; hash_to_point_vartime, _ct and Keccak variants | hash contexts |
| SHAKE context, `crypto/shake.c` | sponge state, position `dptr` | init, inject, flip, extract | - |
| Keccak generator, `crypto/keccak_prng.c` | input buffer, state, counter, output buffer | init, inject, flip, extract, each may refuse | Keccak-256 |
| Key generation, `crypto/keygen.c` | global iteration counter | draw f and g until they pass the tests and the NTRU solver succeeds | SHAKE generator, verifier arithmetic |
| NTRU solver, `crypto/keygen.c` | scratch array: f, g, F, G of the level | make_fg, deepest level, intermediate levels, depths 1 and 0, final check | floating point, residue arithmetic |
| Codecs, `crypto/codec.c` | none | comp_encode/decode, trim_*_encode/decode, modq_* | - |
| Verifier arithmetic, `crypto/vrfy.c` | none | modular arithmetic, NTT, compute_public, complete_private, verify_raw, key recovery | norm test |
| ChaCha20 generator, `crypto/rng.c` | key and counter, 512-byte buffer and position | init, refill, get_bytes, get_u8, get_u64 | SHAKE context |
| Floating point and FFT, `crypto/fpr.c`, `fft.c` | none | emulated IEEE-754, transforms, LDL, split and merge | - |
| Epervier wrapper, `crypto/epervier16.c` | none | sign, sign_open with a length field | signer |
| Solidity verifiers, `contracts/DFVRF_*.sol` | none | decompress, hash to point, NTT, norm, VRF verify | - |

A VRF evaluation runs: transcript = SHA-512(domain, pk, message); sign it
deterministically; the signature is the proof; beta = SHA-512(domain, pk,
message, proof). A consumer verifies the signature on the transcript and
computes beta itself.

The library is sequential. What makes it hard is not threads but:

* retry loops that overwrite their own inputs (`hm` and the signature vector
  share memory) and must restore a saved hash context;
* refusals that callers ignore, and refused calls that callers repeat;
* streams cut into calls at arbitrary places, with buffers that must neither
  lose nor repeat a byte;
* fixed-width arithmetic that wraps on purpose (norm accumulators, truncated
  words in the GCD, bit accumulators of the codecs) and is right only because
  of an argument in a comment;
* array lengths taken from statistics: the NTRU solver computes with too few
  words now and then, and only a check at its very end catches it;
* values that are dropped and computed again: G is not part of the private key,
  s1 is not part of a signature, and the Falcon tree is rebuilt at each signing
  or read from the expanded key;
* two implementations of one thing that have to agree: signer and verifier,
  variable-time and constant-time hashing, compressed and CT format, two
  backends on the same key;
* proofs that are copied, damaged and recombined on their way to a consumer.

`PROJECT.json` lists these hazards at their lines with the properties that
cover them, and says of the others why no property does.

What makes each component correct:

* VRF API: a proof made with matching keys verifies; one output per point and
  mode; what verifies was signed by that key.
* Streamed API: what is released verifies, in one form per type, inside the
  caller's buffer; each attempt uses fresh randomness.
* Norm test: exact decision in spite of wrap-around; signer and verifier agree.
* Hash to point: the two functions agree; the squeeze loses nothing.
* Contexts: the output is a function of the input and the position only.
* NTRU solver: at every level the equation holds as long as the values fit
  their arrays; what is returned solves it in any case; solvable resultants are
  not given up.
* Key generation and use: the key that is encoded is the key that signs, and
  what it releases verifies with the public key.
* Fast Fourier sampling: the two ways to sign are one computation, and the
  signature is as short as the sampled distances say.
* Codecs: round trip, one accepted encoding per vector, and the length that is
  announced is the room that is needed.
* On-chain verifier (not modelled): it accepts what the C verifier accepts.

## 2. The modules

| Module | Models | Runs |
|---|---|---|
| `DetFalcon` | operators: signing, verification, conversion of both backends | through `VRF` |
| `VRFSpec` | abstract: what a VRF promises | refined by `VRF` |
| `VRF`, `MCVRF` | key holders, wire, consumers | `VRF.cfg`, `VRFLongData.cfg` |
| `SignVerify`, `MCSignVerify` | the streamed signing calls and their retries | `SignVerify.cfg` |
| `NormCheck`, `MCNormCheck` | both norm tests on one vector | `NormCheck.cfg` |
| `HashToPoint`, `MCHashToPoint` | both hash-to-point functions on one stream | `HashToPoint.cfg` |
| `ByteStream` | abstract: what a hashing context promises | refined by the next two |
| `ShakeContext` | the SHAKE256 sponge, loop by loop | `ShakeContext.cfg` |
| `KeccakContext` | the Keccak counter-mode generator | `KeccakContext.cfg` |
| `Bezout`, `MCBezout` | the deepest level of the NTRU solver | `Bezout.cfg`, `BezoutOne.cfg` |
| `ModP` | operators: residues modulo the 31-bit primes and their NTT | through `KeyGen` |
| `Zint` | operators: big integers of the solver, CRT, scaled subtraction | through `KeyGen` |
| `NTRU` | the NTRU solver, level by level | through `KeyGen` |
| `ModQ` | operators: arithmetic modulo q, its NTT, public key, verifiers | through `KeyGen` |
| `KeyGen`, `MCKeyGen` | a key from its generation to a verified signature | `KeyGen.cfg` |
| `Codec`, `MCCodec` | every encoding, a writer and a reader | `Codec.cfg` |
| `FFT` | operators: complex numbers, FFT, LDL, split and merge | through `Sampling` |
| `Sampling`, `MCSampling` | expanded keys, the Falcon tree, both forms of sampling | `Sampling.cfg` |
| `VRF_proofs`, `HashToPoint_proofs`, `ShakeContext_proofs`, `KeccakContext_proofs`, `Bezout_proofs` | theorems about the module of that name | |
| `Vectors_proofs` | theorems about `Codec` and `NormCheck`: what is done with the vectors of keys and signatures | |
| `Falcon_proofs` | theorems about `SignVerify`, the streamed calls, and about `ModP`, `Zint` and `ModQ`, the integer arithmetic under key generation and verification | |
| `NumberLemmas` | lemmas the proofs share: induction, recursion, division, growing sequences, powers of two, bits as numbers | |

Operators marked "Deliberate bug" are mutated forms of the definition after
them. No specification uses them; each shows that some property notices that
mistake (`PROJECT.json`, "mutants").

### VRF and DetFalcon

State: the keys made, every signing call that returned, the evaluations handed
to key holders, the compressed signatures in circulation, the CT signatures
obtained by conversion, the outputs consumers accepted. Actions:
`GenerateKey`, `SignCompressedWithMode`, `VRFProveWithMode` (whose public key
is a parameter nothing compares with the private key, as in `df_vrf.go`),
`AlterOnWire` (external: any one field of a signature in circulation is
replaced, also by a field of another one; several alterations compose),
`VRFVerifyWithMode`, `Convert`.

Ideal: a digest is the record of what was absorbed, so equal digests mean equal
inputs; `verify_raw` accepts a vector for exactly the key and the hash point it
was made for, so nobody finds a second short vector. The uniqueness shown here
therefore is uniqueness of encodings, not the lattice assumption. The codec's
contract (one accepted encoding per vector) is taken as given; `OneEncoding` of
module `Codec` is proved. Not ideal: lengths. A Keccak context refuses what
does not fit into 4096 bytes and the callers ignore it, so `Absorbed` drops
such data.

### SignVerify

State: the number of extractions from the caller's generator, the hash context
and its saved copy, the array that holds `hm` and then the signature, the call
in progress and what it returned. One action per step of the loops:
`SignStart`, `Inject`, `FinishRefused`, `Finish`, `HashToPoint`, `SampleLong`,
`SampleShort`, `EncodeCompressed`, `EncodePadded`, `EncodeCT`, `EncodeRetry`,
`EncodeFails`. `FALCON_ERR_SIZE` is also what the compressed and CT formats
return for a coefficient without an encoding (`Wide`), as in the range checks
of `codec.c`. That the retry loops end is a matter of probability, and nothing
is claimed about it.

### NormCheck

One vector goes through the signer's two passes (`do_sign_*`, then
`is_short_half`) and then the verifier's `is_short`, one coefficient per
action, with accumulators modulo `2 * Half`. `norm` is the exact sum, for the
properties only. The vector is the same on both sides: s1 is recomputed by the
verifier modulo q, and that part is not in this module.

A square fits half the accumulator's range (`CoeffAssumption`). For the
`int16_t` that `is_short` and `is_short_half` read, its type says so. The
signer's `z` in `do_sign_dyn` and `do_sign_tree` is an `int32_t`, narrowed only
after its square was added; there it is an assumption about the sampler, which
the code does not check: |z| <= 46340, where coefficients of about 180 already
exhaust the bound.

### HashToPoint

Both functions run on one stream of `N + Over` samples. A sample is accepted
below 5q and reduced, by `%` in one function and by three conditional
subtractions in the other; the constant-time squeeze moves cell by cell. The
arrays `x`, `tt1` and `tt2` of the code are one array here. Streams on which
the variable-time function needs more samples than the other one draws are in
the model; agreement is claimed for the rest.

### ShakeContext, KeccakContext and ByteStream

One action per loop iteration. The permutation and Keccak-256 are ideal (the
state is the history of what went into it). `ByteStream` promises that byte n
of the output depends on the input and n alone; both contexts implement it,
with `ShakeByte` and `KeccakByte` written from the definitions of the sponge
and of the counter mode. Callers of the SHAKE context respect the order
`falcon.h` asks for, which the code does not enforce; the Keccak context
refuses wrong orders, and these refusals are in the model.

### Bezout

`solve_NTRU_deepest` from the rebuilt resultants on. The parity dispatch, the
binary GCD with its truncated top words and batched halvings, the reduction of
the cofactors by a Montgomery step, their mapping back and the scaling by q.
Numbers are values; a carry out of the array is an overflow. `NTRU` uses its
result, an inverse pair that is unique, without the loop.

### NTRU, ModP and Zint

`solve_NTRU` as the code runs it: `solve_NTRU_deepest`, then for each level one
`Lift...` action (residues of F and G from the level below, multiplied crosswise
with f and g in NTT form, and rebuilt by the CRT) and the iterations of its
reduction loop (`ReduceIntermediate` for `solve_NTRU_intermediate`,
`ReduceDepth1`, and both in one for `solve_NTRU_binary_depth0`), then the size
test and the equation modulo one prime (`Finish`, `FinishFails`). State: the
arguments, the level, f, g, F and G of the level, the three locals of the
reduction loop. `exact` is a history variable: it stays true as long as each
value written so far had room where it was written, and the rebuilt integers lay
within the product of their primes. It is what the code cannot see.
`LevelEquation` speaks of the states where `exact` holds, and so of signs, rows
and scales; what happens after a value outgrew its array (too few primes, a
length cut too early, the words of depth 1) is `KeyEquation`'s alone.

`ModP` and `Zint` are the arithmetic underneath, branch-free forms included:
borrows, Montgomery products, the table of primes with their roots, the NTT
with its bit-reversed tables, and integers of a given number of words, whose
excess is lost (`Wrap`).

Abstractions: integers are values and not arrays of words; the quotient k, which
the code approximates in floating point, is exact up to one unit in its first
coefficient (`Approximations`), so that both answers of a rounding near one half
are there; BITLENGTH's estimates are given as constants of each depth.

### ModQ and KeyGen

`ModQ` is `vrfy.c` as operators that return what the C function writes, or the
empty set where it returns 0. `KeyGen` is the life of one key: `DrawPair` (the
tests of `new_keygen` in their order), `Solve` (the actions of `NTRU`),
`TryAgain`, `EncodeKey` (`falcon_keygen_make`: f, g and F are kept, G is
dropped, the public key is computed again), `LoadKey` (`complete_private`),
`Sign` (the lattice point and the norm test), `SampleAgain`. The Gaussian table
is a set of pairs, the signer's sampler a set of offsets from the rounded
target, an encoded key the values it holds (`Codec` has the bytes).

### Codec

A writer asks for a length, encodes into a buffer of that size or one byte away
from it (`AskLength`, `Write`), and a reader decodes (`ReadBack`); another
reader starts from any bytes (`Receive`), and compressed signatures are
converted to fixed width (`ConvertToCT`). The accumulator is bounded
(`AccBits`), as the `uint32_t` of the code is; bytes have `ByteBits` bits, and
the low part of a compressed element one less. The two-byte encodings of
`epervier16.c` are in the module with the vectors they can hold; outside of
these (the top bit of a word, values from 2047 on) they do not round-trip, and
no property claims it. The loops of the code are functions from the number of
iterations to the state after them (`Packing`, `CompPacking`, `Unpacking`,
`Scanning`, `CompUnpacking`). A step of the specification is a whole call. Its
definitions are called `CodecInit`, `CodecNext` and `CodecSpec`, so that one
module can prove things about it and about `NormCheck`.

### FFT and Sampling

Reals are exact. They are the integers modulo a prime p with p = 3 (mod 4), in
which -1 has no root, so that pairs of them are complex numbers with the same
algebra, roots of unity and conjugation included; an identity between exact
reals that holds for the algorithm holds in them. The reals that have to be
compared or rounded (`fpr_rint`, the norm test) are integers by then, and small.
Rounding errors are out of the model, and with them `fpr.c`.

`Sampling` signs with an expanded key (`Expand`, `SignTree`) and from the basis
(`SignDyn`), with the same sampler's answers for both (`tape`, which stands for
the generator both seed in the same way), until an attempt is short (`Retry`).
`sig` keeps the sampler's calls: center, leaf and answer. A leaf is kept as its
square.

## 3. What the runs check

| Run | Bounds | Distinct states | Shows |
|---|---|---|---|
| `vrf` | 2 keys, an empty and a 5000-byte message, 2 salt versions, 2 signing calls, 3 signatures in circulation | 93,604 | provability, one output, binding in SHAKE mode and after conversion, `VRFSpec` implemented |
| `vrf_long_data` | 1 call, 1 signature, two 5000-byte messages | counterexample | finding 1 |
| `norm` | 4 coefficients of {-2, 0, 1} per polynomial, 4-bit accumulators | 104,976 | no overflow is forgotten, both sides decide exactly and agree |
| `hash_to_point` | q = 3, 4 coefficients, 4 spare samples, 3 edge samples | 241,671 | both functions agree; the squeeze keeps order and lands on free cells |
| `shake` | rate 3, calls up to 7 bytes, 8 bytes in and out | 440 | the output is SHAKE256 of the input however both are cut |
| `keccak` | block 3, buffer 5, calls up to 7 bytes, 8 bytes out | 1,506 | the same, with refusals |
| `bezout` | 3 words of 3 bits, q = 5, 76 resultants of every size | 59,956 | the cofactors stay right, the helpers' preconditions hold, the result solves the equation, solvable pairs are kept |
| `bezout_one` | 2 words of 3 bits, resultants 1 to 15 | counterexample | finding 2 |
| `keys` | words of 15 bits, q = 17, 43 pairs (f, g) of degrees 4 and 8, k within 15, 2 messages, 2 x 2 offsets | 1,294 | the equation at every level whose values fitted, for every key that comes out, and between the encoded key and G; released signatures pass every verifier |
| `codec` | bytes of 3 bits, an 8-bit accumulator, compressed values up to 11, q = 29, 2 or 4 coefficients, all strings of up to 4 bytes | 96,382 | round trip, one encoding per vector, announced length and room agree |
| `sampling` | degrees 2 to 16, 8 keys for q = 17, reals modulo 8191, 3 messages, 3 tapes | 449 | both ways to sign agree call by call, the norm is the sampled distance, the tree holds the norms key generation tested |
| `sign_verify` | encodings of 1 to 3 bytes and one too wide, buffers of 1 to 5 bytes around padded size 4 and CT size 5, 7 extractions | 8,936 | what is released verifies, in one form per type, inside the buffer, with fresh seeds |

Why the bounds are enough. In `vrf` the binding question needs two keys, two
data and both modes, and a recombination needs two signatures and a third one
made of them; 5000 bytes is beyond what a Keccak context holds after nonce and
after private key. In `norm` eight squares of up to 4 pass 16 twice over, so
the sum wraps back below the bound. In `hash_to_point` `Over = 4` gives three
squeeze passes, and the three samples lie on both sides of the rejection
threshold and on the reduction steps. The sponge runs let one call span three
blocks and end before, at and after each block end. In `bezout` every parity
combination occurs with every operand length, and the values near the limit
overflow at every place the code tests. In `sign_verify` the sizes separate
"does not fit the prefix", "fits compressed", "fits padded" and "fits CT", and
seven extractions allow several retries within one call and several calls.

In `keys` degree 4 takes all levels through `solve_NTRU_intermediate`, and
degree 8 goes through every function: deepest level, an intermediate one, depth
1, depth 0. Words hold 15 bits because TLC's integers hold 31. The pairs, found
by a search, include ones that fail for each reason the solver has: a common
factor of the resultants, a k out of bounds (`KBits` is as small as that takes),
F or G beyond `lim`, and an equation that does not hold because something was
cut off or because a resultant is 1 (disagreement 2). Only the overflows of the
deepest level do not occur here; run `bezout` has them. As in the code (127 against 12289), `2 * lim <
q`. In `codec` the accumulator has just the bits that are pending at most, so a
bit pushed too many is lost; values lie on both sides of each limit, and four
bytes hold vectors with and without a full last byte. In `sampling` degrees 2
and 4 are the inlined cases of `ffSampling_fft` and end its recursion at degrees
8 and 16; some attempts are too long and are retried.

`CHECK_DEADLOCK FALSE` stands in the runs whose system ends: a computation that
returns (`norm`, `hash_to_point`, `bezout`, `keys`, `codec`, `sampling`), or one
cut off by a bound (`vrf`, `sign_verify`).

**Fairness.** Only `ShakeContext` and `KeccakContext` have liveness (every call
returns), under weak fairness of the loop iterations `InjectChunk`,
`ExtractChunk` and `ExtractBlock`: a loop that has begun is run by its thread
until it ends. No fairness is assumed of callers.

### Disagreements met while modelling

1. `crypto/deterministic.c:300` (run `vrf_long_data`). In Keccak mode, data
   longer than 4056 bytes is refused by the context and the refusal is ignored,
   so it is signed and verified as if it were empty. The header promises
   verification with respect to "the data provided in data[] (of length
   data_len bytes)". The VRF signs 64-byte transcripts and is not affected:
   `OneOutput` and `ImplementsVRF` hold with such messages.
2. `crypto/keygen.c:1926` (run `bezout_one`). For y = 1, `zint_bezout` returns
   1 with u = 0 and v = x - 1, which is not the solution its comment promises.
   Key generation is unaffected because `solve_NTRU` checks the full equation
   at its end. Run `bezout` excludes resultants of 1 for this reason; run `keys`
   has such a pair, and the check refuses it.

Seen while modelling and not the subject of a run:

* `crypto/epervier16.c`: `sign_open` compares the length `ep_comp_decode16`
  returns (1024) with `EPERVIER_SIG_BODY_SIZE` (1026) and reads s2 two bytes
  after the place `sign` puts it, so it refuses every message.
* `crypto/keygen.c:4484`, `4529` and `4541` say that both resultants are odd;
  the code draws f and g of opposite parities, so exactly one is. The solver
  handles it (`OddCofactors`); the function `keygen`, which wanted both odd, is
  not called.
* `zint_bezout`'s caller bounds q*u by the array's unsigned range, and the next
  level reads the array as signed. A value with the top bit set changes its
  sign; `exact` turns false and the final check decides.
* `prng_get_bytes` (`crypto/rng.c:371`) has no callers.

## 4. What is proved

For every value of the constants that satisfies the modules' assumptions:

| Module | Assumptions on the constants |
|---|---|
| `VRF` | `Empty` has length 0, lengths are numbers, the current salt version exists, `NoKey` is not a key |
| `SignVerify` | each format is longer than its prefix, there is a buffer size and a greatest one, `Wide` is not a length |
| `NormCheck` | a square fits in half the accumulator's range (the signer's by an assumption about the sampler, see `NormCheck` above), the bound lies below that half |
| `HashToPoint` | q and the degree are positive, samples are numbers |
| `ShakeContext`, `KeccakContext` | the rate and the block are not empty; the bounds are numbers |
| `Bezout` | words of two bits or more, arrays of one word or more, 0 < q < 2^W (1 < q for `KeepsSolvablePairs`), resultants that fit their arrays |
| `ModP`, `Zint` | W + 1 is a power of two (32), W <= 32 for `NegInverse`; primes are odd and have exactly W bits |
| `ModQ` | q is 1 modulo twice the largest degree and below 2^RBits |
| `Codec` | a compressed element fits the accumulator behind what is pending (8 + 16 + 7 bits in 32), and so does every word of fixed width; `MaxAbs` takes the low bits at least (2047 and 127); q fits its words (12289, 14 bits and int16_t) |

The model-checked instances satisfy the same assumptions, which TLC evaluates.

`VRF_proofs`:

* `TypeCorrect`, `ProvabilityHolds`, `OneOutputHolds`, `ShakeBindingHolds`,
  `CTBindingHolds`, `DataBindingInBufferHolds`, and `Refinement`:
  `Spec => ImplementsVRF`.
* The inductive invariant `IInv` adds three parts to the types: every vector
  in circulation comes from a recorded signing call, for a key, data and mode
  (`WireBodiesSigned`); every evaluation handed to a key holder is what
  signing gives (`EvalsHonest`); every output accepted is the value of a point
  that was evaluated (`OutputsHonest`). The properties themselves are not
  inductive: `OneOutput` speaks of what was accepted and not of what may still
  be accepted from the wire.
* The argument: the two backends' hash points differ (`ModesHashApart`), each
  determines its data (`SaltedHashInjective`, `NonceHashInjective` with
  `AbsorbedTranscript`: a transcript fits a Keccak context, so what was
  absorbed is all of it), and therefore a transcript signature that verifies is
  field for field the one its key holder makes (`AcceptedIsHonest`).
* For converted signatures, `CTsConverted` says that conversion keeps the
  vector and the salt version of a signature whose vector was signed.
* `DataBinding` is refuted by run `vrf_long_data`. `DataBindingInBuffer` says
  how far it does hold: for all data in SHAKE mode, and in Keccak mode for data
  that fit behind the nonce, the empty data aside (a signature of refused data
  verifies for them as well).

`Falcon_proofs`, about `SignVerify`:

* `TypeCorrect`, `InsideBufferHolds`, `ReleasedVerifiesHolds`,
  `OneFormPerTypeHolds`, `SeedsFreshHolds`.
* The inductive invariant says that a call that got past its checks works on
  the context it saved, flipped once and never drawn from, and on the buffer of
  its caller (`InCall`); and that the array shared by `hm` and the signature
  holds what the step at `pc` is about to read (`Contents`). Without `Contents`
  a retry might hash what the last attempt left behind.
* A seed is the count of extractions when it was taken, so all earlier ones are
  smaller (`SeedsTaken`).

`Vectors_proofs`:

* About `Codec`: `CodecAlways`, `RoomIsEnoughHolds`, `RoundTripHolds` and
  `OneEncodingHolds`, for all sizes of bytes, words and accumulator, all vectors
  and all strings; with them everything a run of three-bit bytes could only
  suggest.
* The inductive invariant `CodecInv` says where each part of the state came
  from: what was written is the encoding of `x` for the room given (`Wrote`),
  what the reader of it was given begins as the encoding does (`ReadOwn`), and
  what came from elsewhere was decoded and encoded again (`Received`).
  `RoundTrip` speaks of `input` and `decoded` only and says nothing of a buffer
  that has been written but not read yet. The rest is about the functions.
* The bits a string holds are one number (`ValueOf`, in `NumberLemmas`), and
  `Front` is the number its first k bits stand for. An accumulator holds bits
  that are on their way: the bytes written so far, times 2^len, plus the low
  `len` bits of `acc` is what was pushed so far (`Total`), exactly, although
  `acc` wraps, because no more than `AccBits` bits are ever pending (`KeepBits`).
  A number has one sequence of digits of a given number and size
  (`WholeUnique`), so both directions are statements about equal numbers.
* Fixed width: the bytes written are the words as one number, shifted by the
  padding, and the words read are the bytes as one number without it; so the
  two are inverse as soon as the padding is zero, which is the last test of the
  decoders. `WordsReturn` and `WordsOnce` say so for words, `DecodeWritten` and
  `EncodeDecoded` for the elements of every coding.
* Compressed: an element is a sign, low bits and a run of zeros that ends in a
  one (`ElementBits`). While `comp_decode` scans the run, it has seen zeros only
  (`Open`), or found the one (`Found`), or refused because no run ends within the
  range and the bytes given (`Missed`). At a position of a string there is one
  element at most (`HoldsUnique`), because a run has one end; minus zero, which
  would be a second form of zero, is refused. By induction over the elements the
  decoder finds the vector that a string holds (`CompReads`).
  `CompUnpackPacked` and `CompPackUnpacked` are the two directions. A string
  without the last byte of an encoding is refused because the vector's bits do
  not fit into it.
* About `NormCheck`: `TypeCorrect`, `NothingForgottenHolds`, `ExactDecisionsHold`,
  `SignerVerifierAgreeHolds`. The inductive invariant adds to
  `NothingForgotten` that an accumulator whose bit 31 was never seen is below
  2^31 (`Unsaturated`); with a square of at most 2^30 the next addition then
  cannot wrap (`PlusExact`).
* That both sides agree needs the two norms to be the same number although one
  is summed polynomial by polynomial and the other pair by pair: `SumsFollowed`
  relates the history variable to the partial sums of both polynomials at every
  step of either loop.

`HashToPoint_proofs`:

* `TypeCorrect`, `FreeDestinationHolds`, `OrderKeptHolds`, `AgreementHolds`.
* The inductive invariant gives each valid value r, counted in the order drawn,
  its cell `pos[r]`. In the pass with jump p the distance `pos[r] - (r - 1)`
  that the value has still to move is a multiple of p, and of 2p for the values
  the pass has been at (`Squeezing`). When a value is due to jump, its distance
  is an odd multiple of p; the value before it has a distance that is not
  greater (`Spacing`) and a multiple of 2p, hence smaller by p at least, so
  the cell p places down is free (`JumpLandsFree`).
  After the last pass distances are multiples of a number above `Over`. If all
  values wanted are there, they are at most `Over` from their places, so the
  distances are 0 and the first N cells are the first N valid samples.
* `ReducedIsRemainder`: three conditional subtractions compute `w % q` for
  every accepted sample.

`ShakeContext_proofs` and `KeccakContext_proofs`:

* `Refinement`: `Spec => ImplementsStream` for the safety specification (the
  runs check it of `FairSpec`, which implies `Spec`), `InsideRateHolds` and the
  Keccak context's `TypeCorrect`.
* SHAKE: while absorbing, the permuted blocks and the part of the state at
  `dptr` are the input cut at multiples of the rate (`Absorbing`); while
  squeezing, position and number of permutations say how many bytes were
  delivered (`Squeezing`), the rate being full exactly when the next byte needs
  a permutation.
* Keccak: the number of bytes delivered is Output times the blocks made, less
  what is left in the output buffer (`Position`), and the buffer is the last
  block made (`LastBlock`); before the flip nothing has been delivered
  (`BeforeFlip`). These are what the reset of `out_buffer_len` and the order of
  the copies maintain.

`Bezout_proofs`:

* `TypeCorrect`, `HelpersApplyHold`, `CofactorsHold`, `ContractHolds`,
  `SolvedHolds`, `WithoutOne`, `MappingNeverBorrows` and, for q # 1,
  `KeepsSolvablePairs` (`GivesUpOnlyWhenItMust`). The inductive invariant `IInv` has no exception for an operand of 1; the theorems on the
  result hold unless y = 1, which is disagreement 2, and `WithoutOne` shows that
  y is only 1 if a resultant is. TLC agreed to `IInv` on both instances before
  it was proved.
* The inner loop (`Inner`): after i halvings the factors combine a and b to
  exactly 2^i times the halved numbers (`Row`), so that bit i of the low words
  is their parity (`BitIsParity`), and after W halvings the combinations are
  multiples of the base. What the loop decides on the top words can be wrong.
  It does no harm: the estimate of a number is off by at most half a unit for
  each subtraction, every subtraction is followed by a halving of one of the
  two numbers, so the count of either number's halvings bounds the error
  (`Approximate`); and a number that was halved k times began with 2^k units
  per unit it has now. Hence no number leaves the range -bound .. bound of its
  first value (`HalvedWithin`). The top words of both numbers together never
  fall below 2^(W-i), so there is always a unit to compare (`Estimates`);
  numbers of at most two words are exact.
* The outer loop (`Loop`): the negated factors still add up to at most the
  base, so a Montgomery step leaves each cofactor within one modulus
  (`MontgomeryIs`). The new remainder times the base is the combination of the
  old ones up to a multiple of x*y; x*y is odd, and the base, a power of two,
  cancels (`CombinationKept`, `CancelPower`). At the end the congruence for
  a = 1 is between numbers that differ by less than x*y, hence an equation
  (`CofactorsOfOne`).
* The iterations suffice (`GInv`, `Progress`): in units of one bit of the
  countdown, the product a*b halves, no common divisor is gained, and a does
  not reach 0 before b does. At the end a*b < 1, so b = 0 and a divides both
  operands (`LoopEnds`). With exact top words the halving of the product is
  plain: after W halvings of one number or the other it is divided by 2^W, and
  2^(W-1) leaves a factor of 2 to spare. With truncated ones a subtraction may
  take the larger number from the smaller. A number that becomes negative by
  it is small, because the top words were off by few units (`Lag`) and the
  factors say how large the first values were (`Factored`): `FirstNegative`
  where it was positive before, `NegativeAgain` where it was not. `Crossed`
  says what its product with the other number, and with all that the remaining
  subtractions can add, is at most: twice the first product, which is the
  factor to spare (`PairShrinks`). The matrix of the factors has determinant
  2^i (`Factored`), so the first values are integer combinations of the last,
  and a common divisor of these was one of those.
* Of a pair that is given up, then, the resultants have a common divisor or one
  of them is at least Limit/(2q). `CombineBounds` keeps the mapped cofactors
  within twice the resultants. For q = 1 the statement is false: the mapping
  adds up to 2*gp + fp first and may overflow where the result fits (TLC:
  W = 3, len = 2, fp = 17, gp = 30). The code's q is 12289.

`Falcon_proofs`, about `ModP`, `Zint` and `ModQ`:

* These modules have no state; the theorems say what the functions return for
  every operand, width of a word, modulus in range and length of an integer.
  `Same` is congruence. `PrimeContext(P)` says what a function may expect of
  the constants of a prime, and `SetUpIsRight` that `modp_ninv31` and `modp_R2`
  provide it.
* `NegInverse`: if p*y = 1 + e then one of Newton's steps leaves e^2 in place of
  e, modulo the word (`NewtonStep`). For an odd p the first e is a multiple of
  4, so four steps leave a multiple of 2^32: the exact bits are 2, 4, 8, 16, 32.
* `MontgomeryReduction`, `ElementProduct`: what is added to z makes it a multiple
  of the word (or of R) below 2p words (`ExactQuotient`), so one conditional
  subtraction of p is enough. `Q0I` exists because q is odd (`OddInverse`).
* A residue is the Montgomery form of what it represents (`Form`), and
  `FormProduct` multiplies what two forms stand for. With it `SquareOfR` and
  `PowerOfR` are inductions over squarings and over the bits of the exponent.
* `ResidueOfUnsigned`: after k words Horner's rule is at the number's top k words,
  modulo p. `ResidueOfSigned` subtracts 2^(W*n) when the top word has its top
  bit, which is when the number is negative (`SignOfTopWord`).
* `RebuildIsExact`: after u primes the integer is congruent to the one sought
  modulo their product and lies below it (`Holds`). The digit of the next prime
  makes the residue right, and s, the product's inverse, also shows that the
  new prime divides what is left (`GarnerDigit`), so neither that the moduli are
  prime nor that they are different is assumed. The
  hypothesis `FirstPrimes` is about the literals p and s of the table PRIMES, one
  by one; the table of run `keys` satisfies it. Normalized, the range is symmetric
  because the product is odd.
* Not here: the divisions `modp_div` and `mq_div_12289` need Fermat's theorem, and
  the arrays of the NTT are built with `@@`, which the provers cannot evaluate.

`NumberLemmas`: the library states induction and recursion for an operator,
which the provers cannot instantiate. Stated for a set or a function they are
ordinary facts (`Induction`, `RecursiveDefinition`), proved from
well-foundedness; they let `ValidUpTo` and `PartialSums`, which are defined by
recursion, be reasoned about for every input. The provers know nothing of
`2 ^ n` but its type; `PowerOfTwo` and `PowerSum` get the laws by counting
subsets (`FS_SUBSET` of the library).

Only model-checked: `KeyGen` (with `NTRU`, the NTT of `ModP` and `ModQ`, and the
functions on polynomials in `Zint` and `ModQ`) and `Sampling`. Out of the prover's reach: liveness under fairness
(`CallsReturn`), ENABLED, and RECURSIVE operators. Only `Sampling` declares
these, for the recursion over the Falcon tree, and holds no theorem; elsewhere
recursion is by recursive functions.

## 5. Not modelled

* `fpr.c`: the emulation of IEEE-754 numbers in 64-bit integers, and rounding
  errors wherever floating point is used: numerics over 2^64 values.
* The integer samplers (`gaussian0_sampler`, `BerExp`, `sampler`,
  `new_sampler`) and the Gaussian table of key generation: what they return is
  an input; how often they return it is a matter of probability.
* The ChaCha20 generator: it feeds the samplers only.
* Keccak-256, the Keccak permutation, SHA-512: ideal.
* `get_seed`, command-line tools, experiments, deployment scripts, tests:
  input and output around the library.
* The contracts. They are another implementation of the verifier in another
  language, over byte offsets and memory addresses; the C verifier is the one
  modelled.
* The messages of `epervier16.c`, whose reader refuses every one.
* In the parts modelled: the coefficient accessors and the key-generation
  counter of `deterministic.c` (a statistic that decides nothing), the argument
  checks of keygen_make, make_public, expand_privkey and verify_start, and the
  unused function `keygen`.

## 6. Plan

What is left is proof: `mq_div_12289` and `modp_div` from Fermat's theorem, then
the NTT as evaluation at the roots, level by level, with its arrays written
without `@@`; with these `LevelEquation` of `KeyGen` would come within reach.
`Sampling` has RECURSIVE operators and is left to TLC.
