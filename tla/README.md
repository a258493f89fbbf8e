# BIKE-KEM: specification, model checking and proofs

TLA+ modules for the additional implementation of BIKE in this repository: a
key encapsulation mechanism over the ring F2[x]/(x^R - 1), written in C with
portable, AVX2, AVX-512, PCLMUL and VPCLMUL code. The library is sequential and
keeps no state between two calls but the caller's buffers and four flags about
the CPU. What is hard here is therefore not scheduling: it is arithmetic at the
edges of machine words, buffers carried from call to call, offsets into shared
scratch memory, order of recomputation in the decoder, tables written by hand,
failure in the middle of a call, and several versions of one routine that must
fit each other. A test sees few of them, since a wrong bit shows up once in
2^128 keys or only on a CPU that the tester does not have.

## 1. The system

| part | code | state | operations | what makes it correct |
|---|---|---|---|---|
| KEM API | `kem.c` | the caller's `pk`, `sk`, `ct`, `ss`; locals | `crypto_kem_keypair`, `_enc`, `_dec` | both sides agree; anything else is rejected implicitly; a failing call changes no buffer |
| AES-CTR PRF | `random/aes_ctr_prf.c` | counter, 16-byte buffer and its cursor, remaining invocations | `init_prf_state`, `get_prf_output` | consecutive key stream, nothing twice; the budget is exact |
| SHAKE PRF | `random/shake_prf.c` | Keccak state, block and cursor, invocations | the same | the same |
| Samplers | `random/sampling*.c` | list of indices, loop counter, PRF | Fisher-Yates (default), rejection of the key and constant-time rejection of the error (`UNIFORM_SAMPLING`) | distinct indices in range, exact weight, near uniformity, termination |
| Index list to bits | `secure_set_bits_*` | the polynomial | one call per half | exactly the listed bits, zero padding |
| Keys and errors | `random/sampling.c` | a generator that both halves share, the lists, the polynomials | `generate_secret_key`, `generate_error_vector` | every index from bytes of its own; lists and polynomials agree; a failure is the last call |
| Decoder | `decode/decode.c` | syndrome, error, black and gray lists | `decode` | syndrome and error in step; marked positions only; termination |
| UPC counters | `decode/decode*.c` | bit slices | add, subtract, read the sign | no carry lost; sign says count >= threshold |
| Rotation | `decode/decode_*.c` | tripled syndrome | `dup`, `rotate_right` | rotation by any amount below R |
| Multiplication | `gf2x/gf2x_mul*.c` | operands, product, scratch buffer | `karatzuba`, `gf2x_red`, `gf2x_mul_base_*` | product modulo x^R - 1, no overlap of buffers |
| Inversion | `gf2x/gf2x_inv.c` | f, g, t and tables | `gf2x_mod_inv` | a times its inverse is 1 |
| Vector products | `gf2x/gf2x_mul_base_*pclmul.c` | registers | `gf2x_mul_base`, `gf2x_sqr` | exact products and squares whatever the lanes |
| k-squaring | `gf2x/gf2x_ksqr_*.c` | map of positions, a byte per bit | `generate_map`, `k_sqr` | i -> i*l mod R, applied bit for bit |
| CPU dispatch | `common/cpu_features.c`, `*_internal.h` | four flags, tables of functions | `cpu_features_init`, `*_ctx_init` | only code the CPU has, versions that fit |
| SHA-384 | `random/sha.c` | hash state, a local array for the end of the message | `sha`, `sha_update` | the padding of the standard, no byte of the stack |
| Keccak | `third_party_src/fips202.c` | the state | absorb, first squeeze | the padding and domain byte of the standard |
| AES, permutations, utilities | `aes.c`, `fips202.c`, `utilities.c` | local | compute | see section 8 |

How they interact: the API draws seeds, samples the key with a PRF, turns the
indices into polynomials and calls inversion and multiplication; encapsulation
hashes m to an error, samples it and multiplies; decapsulation decodes (which
multiplies, rotates and counts), hashes again and chooses between m' and sigma.
Every operation fills its table of functions from the flags when it starts. All
calls return through `GUARD`, whose failure unwinds to the caller.

## 2. Modules

Abstract specifications

- `PrfStream`: every successful call hands out the next bytes of one stream; a
  failure ends it. `AesCtrPrf` and `ShakePrf` implement it.
- `DistinctSample`: distinct indices picked one at a time, or failure.
  `FisherYates` and `RejectionSample` implement it.
- `Gf2Ring`: the ring, a polynomial being its set of exponents. It is what
  `Karatsuba`, `ModInv` and `BgfDecoder` are measured against.

Components

- `AesCtrPrf`: `get_prf_output` in steps of one block. `pc` says where the call
  stands; `out` is the caller's buffer with a stream position per byte. Calls
  start with every length in `Lens`; the overuse and the AES errors are actions.
- `ShakePrf`: one action per path of the SHAKE `get_prf_output`.
- `IndexDraw`, `FisherYates`, `FisherYatesBias`: the index chosen from a word;
  the loop that draws downwards; the same loop followed for all words at once,
  counting how many sequences of words lead to each set.
- `RejectionSample`: `generate_indices_mod_z`, one masked word per step.
- `ConstTimeSample`: `sample_error_vec_indices_*`, one word per step whether it
  is kept or not. `Width` is the padded length of the vector versions.
- `SecureSelect`: the comparisons of `utilities.h` in their three versions, and
  the selection by mask at each place that uses one. All other modules have the
  branch the mask stands for.
- `SparseBits`: the three versions of `secure_set_bits`, a quad-word or a group
  of registers per step, then the cleaning of the padding.
- `SparseSampling`: the two functions a key and an error come from. It composes
  `AesCtrPrf`, `FisherYates` and `SparseBits`: the actions of the three run in
  the order of the calls, from every key stream, and `used` records the bytes
  each draw was made from.
- `BgfDecoder`: `decode`, one action for each call of `find_err1` and
  `find_err2` with the recomputation of the syndrome that follows it. The
  first iteration has three passes, later ones have one (BGF).
- `UpcCounter`: the slices of one position, at the real sizes.
- `SyndromeRotate`: `dup`, each turn of the barrel shifter, and the final shift
  inside registers of 1, 4 or 8 quad-words.
- `Karatsuba`: the recursion with an explicit stack of frames, the scratch
  buffer and the product as memory, the high product skipped when it is zero,
  and the reduction.
- `MulBasePort`: `gf2x_mul_base_port`, two windows of three bits per step, with
  the correction for the top bits of b.
- `MulBaseX86`: the PCLMUL and VPCLMUL products and squares. A register is a
  function from lanes to quad-words, and each instruction an operator; one
  action per half-sized product and per register squared.
- `ModInv`, `InvTables`: the exponentiation chain, and the tables of the code.
- `KSqrMap`: the map generators of the AVX2 and AVX-512 files, a register row
  at a time, in signed and unsigned arithmetic of the width of `map_word_t`.
- `KSqrBytes`: how the map is applied: bits spread over bytes, permuted and
  gathered, by masks (AVX-512) or by shifts, a shuffle and a blend (AVX2).
- `Sha384`: `sha` and `sha_update`, the end of the message put together on an
  uninitialised array and one action per block compressed; the state of the hash
  is all that was compressed into it.
- `KeccakSponge`: `keccak_absorb` and the first squeeze, in the same way.
- `CpuDispatch`: the flags assigned one at a time and the tables chosen from
  them, for any CPU of a set.
- `Kem`: the three functions, one action per `GUARD`, any of which may fail.

Model checking

The components meet at calls, and most of them only through a value that is
handed over (a list of indices, a product, a syndrome), so that each can be
explored from every input of its own. The MC modules put the parts of one
subsystem side by side: `MCSymmetric` the two generators and the two hashes,
`MCSampling` the samplers, `MCKeySampling` the setting of bits from any list, the
whole generation of keys and errors and the selections by mask, `MCFindErr`
the rotation and the counters of `find_err1`, `MCMultiply` the product of
polynomials and the base products, `MCInversion` the inversion, its permutation
maps and their application. A variable says which part runs; the others rest. The
definitions that are checked are those of the part's own module; where an MC
module gives one a name, its comment says whose it is. `MCBgfDecoder` and
`MCCpuDispatch` give values to the constants, and the former adds a property of
the key it chooses. `BgfDecoder` and `CpuDispatch` have longer names for their
specifications, `DecodeSpec` and `DispatchSpec`, so that one module of proofs can
extend them beside another component.

Proofs are in modules of their own. `Gf2Ring_proof` has the laws of the ring, for
the others to cite. `Kem_proof` extends the component. `SparseSampling_proof`,
`Symmetric_proof`, `Samplers_proof`, `Multiply_proof`, `Inversion_proof` and
`Decoder_proof` extend MC modules, and prove what is said there about each
component, for every value of the constants and not only for those of the
configuration. `Decoder_proof` has the decoder together with the rotation and the
counters it is made of, `Multiply_proof` also the tables of functions by which a
multiplication is chosen. Operators whose comment says
"Mutant" are plausible bugs beside the definition they alter; no specification
uses them. They document how each property can fail.

## 3. Runs

Every run passes unless it is marked as a violation. All bounds are constants
of the configuration or definitions of the MC module.

| run | question | bounds and why they are enough |
|---|---|---|
| MCSymmetric | one stream and an exact budget, for both generators; the padding of both hashes | AES: 4-byte blocks, requests of 0 to 9 bytes, 5 invocations: a request may empty the buffer, take two blocks and a tail, and run out at every alignment. SHAKE: the real rate 136 and request of 4 bytes, 5 blocks. SHA-384: the real block of 128, length field of 16 of which 8 are stored, messages of 0 to 400 bytes. Keccak: the rates 136 and 104 and domain bytes of SHAKE256 and SHA3-384, messages of 0 to 300 bytes |
| MCSampling | distinct indices, exact weight, how uniform, termination | Fisher-Yates: 4 of 7 with words of 16 values, so that the scaling rounds; for all words at once up to 4 of 6, word ranges 8, 16 and 60, where 60 is a multiple of all widths and the bounds meet. Rejection: 3 of 5 with 5 words: masked words up to 7, so both kinds of rejection and exhaustion happen. Constant time: 3 of 5 in a list of 4 with 6 draws of 8 values: short, exact and overfull lists |
| MCKeySampling | exactly the bits of the list, padding clean; keys and errors from a key stream; masks for branches | lists: R = 5 in 4 quad-words of 2 bits filled two at a time, every list of up to 3 indices, invalid ones too. Generation: weights 2 per half and 3 for the error, blocks of two words, words of two bytes of 3 values, every key stream, budgets of 1 to 3 blocks: the stream ends before, in and after the second half. Masks: types of 2, 4 and 8 bits for 8, 32 and 64, all pairs compared in the lower half of a word, values selected with bits in every part |
| MCBgfDecoder | syndrome in step, single errors, marked flips | R = 13, weight 3 per half, five iterations, every received word up to rotation (rotating the word rotates the whole run) |
| MCFindErr | carries and sign of the counter, rotation in three versions | counter: the real R, D, SLICES, DELTA and threshold formula of LEVELs 1 and 5, every count and syndrome weight. Rotation: registers of 1, 4 and 8 quad-words of 2 bits, R = 83, every amount |
| MCFindErrLevel3 (violation) | the sign at LEVEL 3 | see findings |
| MCMultiply | product modulo x^R - 1, use of the buffers, product of two words | 4 to 7 quad-words padded to 8, three levels of recursion, bases of 1, 2 and 4; all pairs of single terms, which by bilinearity stand for all operands (what is skipped depends on lengths only), and two dense pairs. Words of 10 bits, every a, every b of one bit, and the full one. Vectors: quad-words of 2 bits, all pairs of single terms of 8 and of 16 quad-words and the full pair, squares of 13 quad-words, which end in a half and in a partly full register |
| MCInversion | the inverse, by the recipe and by the tables of the code, and the maps | R = 5, 11, 13 and all invertible inputs; the three LEVELs at full size, a value being a set of conjugates; the maps at full size, both vector versions, every parameter used; their application to 67 bits in 2 of 3 quad-words for k = 1, 2, 9: every bit of a byte and of a double word occurs, and the last quad-word is nearly empty |
| MCKem | agreement, rejection, secrets, buffers | 3 draws of seeds and 2 decapsulations, with and without BIND_PK_AND_M: two keys and one ciphertext, or one key and two, spliced or changed, failures anywhere |
| MCCpuDispatch | versions fit the CPU | all combinations of features an x86 server CPU has, operations before and after detection |
| MCCpuWithoutBW, MCCpuWithoutPclmul (violations) | CPUs out of the ordinary | see findings |

Every property of a passing run is violated when one definition is replaced by
its mutant; `PROJECT.json` pairs them.

Deadlock checking is off where a specification follows one call, or a bounded
number of them, and stops; it is on for `CpuDispatch`, whose operations never
end.

## 4. What the properties say

- Streams. `KeystreamAccounted`: what was generated is what was delivered plus
  what is buffered. `BudgetExact` and `SqueezeBudgetExact` say when a call may
  fail. `RefinesStream` and `RefinesSqueezedStream` say it from the client's side.
  The two generators differ: the SHAKE one checks its budget before its buffer,
  so the bytes left of the last block it may squeeze are never handed out.
- Hashes. `PaddedMessage`: what is compressed, or absorbed, is the message padded
  as the standard says, in the least number of whole blocks. `Kem` takes hashes
  for injective terms; this is the part of that which is in the code.
- Keys and errors. `FreshWords`: the j-th draw is made of the j-th bytes of the
  key stream, across halves and blocks, and never of a buffer that a failed call
  left behind; the same seed therefore gives the same error, on which the
  recomputation in decapsulation rests. `SparseAsPromised`: polynomials, lists
  and weights agree on success.
- Samplers. `PositionStillFree` is why a duplicate may be replaced by the loop
  index: nothing drawn so far is below it. `NearlyUniform` bounds the bias of
  the scaling by the rounding of each step. `NoStrayIndex`: a constant-time
  draw that comes out short lowers the weight, and never adds a position.
  `RejectionRefines` covers the weight of a key half drawn by rejection, since
  `DistinctSample` is done only with `Count` distinct values.
- Masks. `SelectsAsBranch`: at every use, on every kind of CPU, the masked value is
  the one a branch would give, in all bits of its type. The assumption says what
  the code relies on: the numbers compared are below 2^31, since x86-64 compares
  them as signed.
- Decoder. `SyndromeOfResidue`: whenever a pass starts, the syndrome belongs to
  the ciphertext plus the error found so far. `FoundStaysFound`: once the
  syndrome is zero no later pass changes the error, which is why the code may
  run a fixed number of iterations. `SecondLookOnlyMarked` and
  `SingleErrorsFound` are about the lists and the result.
- Counters. `SignTellsErrors` is the contract between the bit slices and the
  decoder, which reads the last slice only.
- Arithmetic. `ProductModR`, `SubproductsInPlace`, `BuffersSuffice` for the
  recursion, `PartialProduct` and `BaseProductsExact` for the products it ends
  in, `Inverts` for the chain, `MapRight` for the maps and `KSquared` for their
  application, `RotatesRight` for the shifter.
- API. `KeyAgreement`, `RejectsAnythingElse`, `SecretsBound`,
  `OutputsCoherent`, and the action property `AllOrNothing`.

## 5. Fairness

One property is a liveness property: `RejectionReturns`, the end of the only
loop in the library that has no bound of its own. `MCSpec` of `MCSampling`
assumes weak fairness of the steps of that loop: one thread that is in the call
goes on executing it. Its end does not rest on lucky words, which nothing
guarantees, but on the budget of the generator; AES may also fail at any word
before, which ends the loop sooner. All other loops count to a
constant and the property that they are left would only restate the count.

## 6. Proofs

Checked by tlapm, for every value of the constants that satisfies the named
assumptions. TLC evaluates each assumption for the values of the configuration,
and has checked each property on it.

**`Kem_proof`**, for any number of calls and either build. `OpensOrSigma` is the
heart: of a ciphertext put together from any two that were sent and changed at
will, decapsulation gets the message of the very encapsulation it came from, or
sigma. It rests on H having no collisions and on an error the decoder made up
being none of its values; no freshness of seeds is needed, only that a message
and a sigma are never the same seed. `IInv` says what the locals hold before each
fallible call (`EncInv`, `DecInv`), what each history entry is (`HistoryInv`), and
that the output buffers of an encapsulation fit (`SentInv`). `KeyAgreement` alone
is not inductive: it speaks of ciphertexts already sent, while `Agrees` speaks of
any ciphertext made for the key.

**`Symmetric_proof`**, in four parts.

- AES in counter mode, from `AesAssumption`. `IInv` adds to the types where the
  counter stands (`CursorInv`: between calls the bytes past the cursor are owed,
  within a call every block encrypted has gone to the caller) and what the
  caller's buffer holds (`OutInv`). The listed safety properties follow from it,
  and so does `Refinement`: each step is a step of `PrfStream` or leaves its
  variables alone. `KeystreamAccounted` alone is not inductive, since inside a
  call `idx` plays the part of the cursor.
- SHAKE, from `ShakeAssumption`: the rate is a multiple of the request.
  `ShakeIInv` places the cursor between two requests, which makes the buffer empty
  whenever a block is squeezed, so that no byte is lost, and gives
  `SqueezeBudgetExact` and `RefinesSqueezedStream`.
- SHA-384, from `ShaAssumption`: the length field fits in a block with a byte to
  spare. `ShaIInv` follows the local array as far as it is written
  (`ShaBlockInv`), what is hashed against the padded message of its final length
  (`ShaHashedInv`), and what is left to hash (`ShaLengthInv`): `n` blocks, up to the
  end of the whole blocks or of the array.
- Keccak, from `KeccakAssumption`, for every rate and any domain byte below 128.
  `SpongeIInv` has the message absorbed so far and, in the last block, the padding
  built so far, of which the last byte may be the one with the domain bits.

`HashesPadded` is `PaddedMessage` for both hashes.

**`Samplers_proof`**, from the assumptions of the three samplers. Fisher-Yates:
`ScaledInRange` shows that multiply-and-shift stays below the bound for any word
range, `SelectedIsNew` that the choice is new; the invariant has the indices drawn
in range, at least the loop counter, and as many as draws made. Rejection: `ctr` is
the number of distinct indices below it, so leaving the loop means the full weight.
Constant time: up to the end of the list the positions below the counter are the
words of `seen` (`ConstTimeKeptInv`), and what stands behind is not valid or in
`seen` (`ConstTimeRestInv`): this is why comparing a word with the whole list,
rejected words included, loses no new one. `FirstDrawnKept` and `NoStrayIndex`
follow.

`Spread` is `NearlyUniform`, from `BiasAssumption`. The words that are scaled to one
of w values are an interval of the range, as long as the range divided by w, rounded
down or up (`WordsToValue`). A set that contains the position just drawn is reached
from one set only, by a word for any of its members; one that does not contain it is
reached from each set of one member less, by a word for the missing one. Either way
the ways grow by the size of the set times that length (`DrawnBetween`), and this is
where the replacement of duplicates by the position makes up for itself. The sum over
the sets a set is reached from is a fold of the library, of which the proof has
first to show that it exists (`SumExists`).

**`SparseSampling_proof`**, from `SparseBitsAssumption` and `SamplingAssumption`.
`BitsInv` says of `secure_set_bits` that the quad-words filled so far hold the bits of
the list and that those behind are empty; what an error list puts into the padding
is allowed until it is cleaned. The whole generation needs what every part holds when it is called, and
`SamplingInv` is one conjunct per part: the generator delivers the stream from its
start (`PrfInv`), `used` is the intervals of the stream in order (`UsedInv`), the
indices of the half at hand are distinct and in range (`DrawnInv`), as many bytes are
used as indices are drawn (`PhaseInv`), and the lists that are complete have their
weight (`ListInv`). None of the three properties is inductive
without the others: that a word is fresh rests on the cursor of the generator, and
the weight on the sampler having been given the bounds of its own half. The
recursive functions of the model are given by their first value and their next;
that they exist, which is needed before anything is said of them, is shown by
counting up (`CountingUp`, from the well-foundedness of strict inclusion).

The last part is the masks, from `SelectAssumption`: a byte is narrower than a word,
a long is two words, and what is compared is below the sign bit of a word. C's `&` is
a recursive function on the bits of a number, and `|` is what `&` leaves of the sum;
`AndIs` has from it, by counting up, what 0 and a mask of k ones do to a number that
fits k bits, and that `|` keeps the larger of two numbers, its top bit with it.
`Comparisons` gives the results for the three kinds of CPU: where C takes the carry of
a difference, where the assembler decrements a flag, and where the top bit of a
difference says that two numbers differ. `SelectInv` carries the result from the
comparison to the selection, and `Selects` is `SelectsAsBranch`, use by use
(`SelectStepInv`), for all widths of the types and all values selected from.

**`Gf2Ring_proof`**, for every R: sums and products of polynomials, of which
`MulAssoc` is the one that takes work. It is an induction over the terms of a
polynomial. Instead of an induction theorem, which would need an operator for its
parameter, it takes a smallest polynomial for which the law fails, by the
well-foundedness of strict inclusion; for a single term the two sides are counted
by sets with a bijection between them. For the inversion there are the conjugations:
multiplying all exponents by one number modulo R is a map of the ring into itself,
and for 2 it is the square.

**`Decoder_proof`**, in four parts.

- Rotation, from `RotateAssumption`. A quad-word is a run of the syndrome's bits;
  `dup` makes runs that go on where the one below ends, a turn of the shifter moves
  them down and uses up registers at the top, and `RotatedInv` says how many are
  still good: as many as the turns that are left will need. `RotatesRight` is that
  at the end, in all three versions and for any size of register.
- Counters, from `LevelsAssumption`, for any number of slices and any weight.
  `CounterInv`: slice k is bit k of the count, and after the subtraction bit k in
  two's complement of the count less the threshold. It holds at every LEVEL.
  `LastSliceTells` makes `SignTellsErrors` of it where `SlicesSuffice`: neither
  difference needs more bits than there are slices. `CountersOfTheDecoder` proves
  that condition for LEVELs 1 and 5 from their parameters at full size, every
  syndrome weight; at LEVEL 3 it is false, which is the finding below.
- The decoder, from `RingAssumption` and `DecoderAssumption`. The code computes the
  syndrome as h0 * (pk * e1 + c0 + e0), and `SyndromeKept` says that it is
  h0 * c0 + h0 * e0 + h1 * e1, for every R. The step between them is made of two laws
  of the ring, of which the repository only uses the results: `MulAddLeft`, as what
  two sets share is counted twice, and `MulAssoc`. `SecondLooks` needs no more than
  that black and gray stay disjoint. `FoundStays` needs `CounterAssumption` as well:
  the thresholds that apply to a zero syndrome are at least 1 and at most half the
  range of a counter. It holds at all three LEVELs, where the finding below concerns
  heavy syndromes. `SeparatedErrorsFound` says which errors the first pass finds
  exactly, of any weight: those with which every position of the error reaches the
  threshold by checks that no other position of the error is in, and no other
  position shares as many checks with the error (`Separated`). The counter of a
  position differs from the number of its checks, or from 0, by at most the checks it
  shares, and by linearity all depends on the error and the key only. `SingleErrors`
  applies it to the errors of one position: `KeyParameters`, which TLC evaluates for
  the key of the configuration, says of a key that those are separated.
- What the decoder takes of its parts. `RotationsCountedIn`: the rotated syndrome in
  which it counts is what `rotate_right` yields for that syndrome. `LastSliceReaches`:
  its test of a count is what the last slice tells, where the slices suffice. They
  tie the operators `Rotated` and `Reaches` of `BgfDecoder` to the two modules that
  model how they are computed.

**`Multiply_proof`**, in four parts.

- The recursion, from `KaratsubaAssumption`, which is what the sizes of the code
  have in common: R is not a multiple of the quad-word, halving the padded length
  ends at the base length, whole registers fit in it. The laws of polynomials
  without reduction come first, then the value of a place in memory (`PolyAt`), then
  the identity of Karatsuba on halves, and on the quarters in which the code
  overwrites the product. `StackInv` has the calls nest, each at half the size of
  its caller, in a part of the scratch buffer above the caller's; `BuffersSuffice`
  follows. `KaratsubaInv` adds for every call on the stack what is not yet written
  (`Fresh`), which of its products are saved and where (`Saved`), and that the callee
  that has just returned left its product in full length (`Returned`).
  `SubproductsInPlace` and, through the folding at x^R, `ProductModR` follow. A
  product skipped because the operands end below it is never written: it is right
  only because the place of the result was empty before and no other call has been
  there, which is what `Fresh` is for.
- Words, from `WidthAssumption`: widths whose last window has one bit, as 64 has.
  `WordInv` has, in the windows, the product of the bits of a gone through by b without
  its top bits, and then that of a by the bits of b gone through: what the windows
  lose at the top of the word is there in the end, and nothing twice. `WordsMultiply` is `PartialProduct`.
- Vectors, from `X86Assumption`: any width of a quad-word and any size of a square.
  The lanes each permutation brings where are computed once; from the carry-less
  products of lanes the identity of Karatsuba gives the 2-lane, the 4-lane and the
  8-lane products. Squaring is doubling exponents, register by register, with the
  partly full last one (`SqrInv`). `VecInv` has both, and `VectorsMultiply` is
  `BaseProductsExact`.

- Dispatch, for every set of CPUs. `DispatchInv`: no flag is set without its feature,
  those assigned so far are exact (`FlagsInv`), and each table holds what the features
  of the CPU allow, with the portable multiplication beside vector additions only
  where PCLMUL is missing (`TablesInv`). Operations that start before detection are
  covered. `RunsOnThisCpu` follows if AVX-512F implies BW and DQ, and
  `AdditionsAligned` if AVX2 or AVX-512 implies PCLMUL. Neither hypothesis is asserted
  in the code; the two violation runs are CPUs without it, so neither can be dropped.

**`Inversion_proof`**, in three parts.

- The chain, from `ChainParameters` and `RingLevels`. The first says of R and of the
  tables what the code takes from a script: R is odd and divides 2^(R-1) - 1, EXP0_K
  has the powers of 2, EXP1_K what the digits of R - 2 below each digit 1 stand for,
  and each `l_param` is an inverse of 2^k modulo R. TLC evaluates it for the small rings and,
  at full size, for the tables of all three LEVELs. The second says that `Times` is
  the product of the ring and that the inputs have an inverse. `ChainInv` has `f`
  and `t` as norms, products of the first conjugates a, a^2, a^4, ..., as many as the
  digits done so far make up, and `g` as the conjugate of `f` that the squarings done
  so far make. That the inverses are found (`InversesFound`) then follows without
  the order of 2 modulo R: the product of all R - 1 conjugates is its own square and
  has an inverse, so it is 1. In the run, the three LEVELs are represented by sets of
  conjugates instead of polynomials of 40000 bits; the theorem is about polynomials.
- The maps, from `BuildsAssumption`: a word holds twice R. `MapInv` has the lanes
  of the registers in step with the position, in the signed arithmetic of the AVX2
  version and the unsigned one of the other; `MapsRight` is `MapRight` for any R,
  number of lanes and `l_param`.
- Their application, from `BytesAssumption`. A bit, spread to the top of its byte by
  masks or by the shifts, the shuffle and the blend, goes to the byte that the map
  names and is gathered where it belongs; `KSquarings` is `KSquared` for every
  operand, R and k.

Only model-checked:

- `RejectionReturns`, a liveness property, which needs ENABLED;
- `SignTellsErrors` at LEVEL 3, which is false.

## 7. Findings

- LEVEL 3 counters (`MCFindErrLevel3`). With `SLICES = 8` and a threshold of up
  to 145 the difference wraps for syndromes of weight 21604 or more: the sign
  reads "reached" for counts far below the threshold. `decode.c:164` says every
  zero bit indicates a potential error. An honest syndrome is never that heavy.
- `MCCpuWithoutBW`: the AVX-512 files need F, BW and DQ, of which only F is tested.
- `MCCpuWithoutPclmul`: with AVX2 and no PCLMUL the additions get operands
  shorter than a register, against their own assertion.

Noticed on the way, and not stated as a property: `README.md` says the detection
of the CPU is automatic, and the program has to call `cpu_features_init`;
`main_test.c:89` takes a nonzero return code for a decoding failure, and
`crypto_kem_dec` returns SUCCESS with a secret made of sigma; the comment at
`gf2x_ksqr_avx2.c:153` has the two operands of the blend the other way round, and
the code is right (`KSquared` fails when it is made to agree); `bit_scan_reverse_vartime`
is commented as the rounded-up logarithm and gives the number of bits;
`secure_l32_mask` compares as signed numbers on x86-64, and is only called with
numbers for which this is the same; the turns of `rotate_right` make up
`2 * UPTOPOW2(n / 2) - 1` registers, which for a syndrome of n = 2^k + 1 registers is
one short of what some amounts need. No assertion excludes that, and no LEVEL has
it: the proof needs it as the last conjunct of `RotateAssumption`, and without it
`RotatesRight` fails for R = 65 in quad-words of 2 bits.

## 8. Not modelled

- The compression function of SHA-384, the Keccak permutation and the AES key
  schedule and block: straight-line computations on fixed words without control,
  taken as injective functions or streams. The OpenSSL versions of SHA and AES
  are external.
- `BG_DECODER`: `bike_defs.h` always defines `BGF_DECODER`.
- Erasure of stack memory: `secure_clean` of index lists covers one element
  (`sampling.c:161`, `:210`). In `Kem` a return ends all locals, the public
  `l_pk` and `l_ct`, which the code does not clean, like the secret ones: no step
  reads them again, and no property is about what stays on the stack.
- `cpu_features.c:64-67`, the early return for a CPU with CPUID leaf 7 and no
  leaf 1, which does not exist. Whether the system saves the vector registers
  (XGETBV) is asked neither by the code nor by the model.
- The division by a constant as a high product (`MUL64HIGH`, `decode.c:92-100`):
  `GetThreshold` and `Threshold` divide, since TLC's integers have 32 bits. Both
  give the same for every syndrome weight of the levels.
- In `ModInv` a polynomial is the set of its exponents below R: what the portable
  k-squaring writes past R in the last byte, and its mask clears again
  (`gf2x_ksqr_portable.c:47`), does not appear. `KSqrBytes` has the bytes of the
  vector versions.
- `sample_uniform_r_bits_with_fixed_prf_context`: nothing calls it.
- Printing, measurement, tests, known-answer generation: output only.

## 9. Plan

Done: the API, the generators and samplers, the generation of keys and errors
composed from them, the hashes, the decoder, its counters and rotation,
multiplication down to the vector instructions, inversion and its maps, and
dispatch, each with its proof. What is left:

1. The refinement of one position of `BgfDecoder` by `UpcCounter` and
   `SyndromeRotate` as one composed specification, of which `RotationsCountedIn`
   and `LastSliceReaches` are the two steps.
2. `sample_uniform_r_bits_with_fixed_prf_context`, should anything call it.
