---------------------------- MODULE RandomSource ----------------------------
(***************************************************************************)
(* The random number generators of a Machine (internal/prng), the random   *)
(* instruction (opcode_var.go), and the chunk of a saved state that holds  *)
(* a generator (state.go).  There are two of everything: two machines that *)
(* the same things may happen to, or a machine and Frotz itself, whose     *)
(* numbers the Frotz generator promises to draw.                           *)
(***************************************************************************)
EXTENDS Integers, Sequences, FiniteSets

CONSTANTS
    StateLimit,     \* 2^31: the states of the Frotz generator as kept here
    WideLimit,      \* 2^64: seeds, and the states that Frotz keeps in a long of its host
    Shift,          \* 2^16: the low part of a state, which is not drawn
    ResultLimit,    \* 2^15: the numbers drawn, before they are cut to a range
    Multiplier,
    Increment,
    CounterLimit,   \* 2^16: the width of the counter
    IntervalSeed,   \* 1000: the seeds below it count instead of generating
    RangeLimit,     \* 2^16: the width of an operand of random
    IntLimit,       \* 2^32: the width in which a negative one is negated
    Ranges,         \* the operands that a story gives to random, signed
    HostSeeds,      \* the seeds that a host gives to New
    NoSeed,
    PcgNumbers,     \* the sequence that PCG draws, by where it starts
    Entropy,        \* what the host's source of entropy may return
    NoEntropy,      \* it fails
    ForeignChunks   \* generator states that no machine has written

ASSUME RandomAssumption ==
    /\ {Shift, ResultLimit, WideLimit} \subseteq Nat \ {0}
    /\ StateLimit = Shift * ResultLimit /\ StateLimit > 1 /\ WideLimit % StateLimit = 0
    /\ {Multiplier, Increment} \subseteq Nat
    /\ CounterLimit \in Nat /\ IntervalSeed \in 1 .. CounterLimit
    /\ {RangeLimit, IntLimit} \subseteq Nat
    /\ RangeLimit \div 2 < IntLimit \div 2 /\ IntLimit <= WideLimit
    /\ Ranges \subseteq -(RangeLimit \div 2) .. RangeLimit \div 2 - 1
    /\ HostSeeds \subseteq Nat \cup {NoSeed}
    /\ Entropy \subseteq Nat
    \* PCG draws from any seed.
    /\ {0} \cup Entropy \cup (HostSeeds \ {NoSeed}) \cup {-n : n \in {r \in Ranges : r < 0}}
          \subseteq DOMAIN PcgNumbers
    \* The fields of a chunk have the width of the fields of a generator.
    /\ \A chunk \in ForeignChunks :
          chunk.kind \in {"pcg", "frotz"} /\ chunk.legal =>
             /\ chunk.predictable \in BOOLEAN
             /\ {chunk.from, chunk.drawn, chunk.a} \subseteq Nat
             /\ chunk.from \in DOMAIN PcgNumbers
             /\ {chunk.interval, chunk.counter} \subseteq 0 .. CounterLimit - 1

VARIABLES
    twins,          \* the two generators
    together,       \* the two have had the same seed or state, and the same since
    numbers         \* what an instruction that both executed has returned

randomVars == <<twins, together, numbers>>

Generator(kind, seed, limit) ==
    [ kind |-> kind, predictable |-> FALSE, from |-> 0, drawn |-> 0,
      a |-> 1, interval |-> 0, counter |-> 0,
      seed |-> seed, limit |-> limit, foreign |-> FALSE ]

-----------------------------------------------------------------------------
\* A mutant: a counter that has been used before goes on from there.
SownOver(m, seed, entropy) ==
    CASE m.kind = "pcg" -> [m EXCEPT !.from = seed, !.drawn = 0]
      [] m.kind = "frotz" /\ seed = 0 ->
           IF entropy = NoEntropy
           THEN [m EXCEPT !.a = 1, !.interval = 0]
           ELSE [m EXCEPT !.a = entropy % m.limit, !.interval = 0, !.counter = 0]
      [] m.kind = "frotz" /\ seed \in 1 .. IntervalSeed - 1 -> [m EXCEPT !.interval = seed]
      [] OTHER -> [m EXCEPT !.a = seed % m.limit, !.interval = 0]

\* SeedWith: Frotz takes its seed apart, and a seed of zero asks for entropy.
Sown(m, seed, entropy) ==
    CASE m.kind = "pcg" -> [m EXCEPT !.from = seed, !.drawn = 0]
      [] m.kind = "frotz" /\ seed = 0 ->
           IF entropy = NoEntropy
           THEN [m EXCEPT !.a = 1, !.interval = 0]
           ELSE [m EXCEPT !.a = entropy % m.limit, !.interval = 0, !.counter = 0]
      [] m.kind = "frotz" /\ seed \in 1 .. IntervalSeed - 1 ->
           [m EXCEPT !.interval = seed, !.counter = 0]
      [] OTHER -> [m EXCEPT !.a = seed % m.limit, !.interval = 0]

SetRandomSeed(m, seed, entropy) ==
    [Sown(m, seed, entropy) EXCEPT !.predictable = TRUE, !.foreign = FALSE]

\* reseedRandom; if there is no entropy the instruction faults and the generator
\* is the old one.
Reseeded(m, entropy) ==
    IF entropy = NoEntropy
    THEN m
    ELSE [m EXCEPT !.from = IF m.kind = "pcg" THEN entropy ELSE @,
                   !.drawn = 0,
                   !.a = IF m.kind = "frotz" THEN entropy % m.limit ELSE @,
                   !.interval = 0, !.counter = 0,
                   !.predictable = FALSE, !.foreign = FALSE]

\* seedRandom, of New, of restart and of a saved state without a generator.
SeedRandom(m, entropy) ==
    IF m.seed = NoSeed THEN Reseeded(m, entropy) ELSE SetRandomSeed(m, m.seed, entropy)

\* The counter after a number: one that never meets the interval goes to the
\* end of its width.
Advanced(m) ==
    LET next == (m.counter + 1) % CounterLimit
    IN  [m EXCEPT !.counter = IF next = m.interval THEN 0 ELSE next]

\* The generator after a number has been drawn from it.
Drawn(m) ==
    CASE m.kind = "pcg" -> [m EXCEPT !.drawn = @ + 1]
      [] m.kind = "frotz" /\ m.interval # 0 -> Advanced(m)
      [] OTHER -> [m EXCEPT !.a = (@ * Multiplier + Increment) % m.limit]

CanDraw(m) == m.kind = "pcg" => m.drawn < Len(PcgNumbers[m.from])

\* The number, between 1 and n.
Number(m, n) ==
    LET result == CASE m.kind = "pcg" -> PcgNumbers[m.from][m.drawn + 1]
                    [] m.kind = "frotz" /\ m.interval # 0 -> m.counter
                    [] OTHER -> (Drawn(m).a \div Shift) % ResultLimit
    IN  (result % n) + 1

-----------------------------------------------------------------------------
\* The random chunk of a saved state, and what restoring one does: a state of
\* another kind brings its generator along, and what is no state is refused.
Chunk(m) ==
    [ kind |-> m.kind, legal |-> TRUE, predictable |-> m.predictable, from |-> m.from,
      drawn |-> m.drawn, a |-> m.a, interval |-> m.interval, counter |-> m.counter ]

CanRestore(chunk) == chunk.kind \in {"pcg", "frotz"} /\ chunk.legal

RestoredFrom(m, chunk, foreign) ==
    [ kind |-> chunk.kind, predictable |-> chunk.predictable, from |-> chunk.from,
      drawn |-> chunk.drawn, a |-> chunk.a % StateLimit, interval |-> chunk.interval,
      counter |-> chunk.counter, seed |-> m.seed, limit |-> m.limit, foreign |-> foreign ]

\* What is left of n in a signed integer.
InWidth(n, limit) ==
    LET bits == n % limit
    IN  IF bits < limit \div 2 THEN bits ELSE bits - limit

\* A mutant: the operand is negated in its own width, where the smallest is its
\* own negative.
NegatedAsOperand(range) == InWidth(-range, RangeLimit) % WideLimit

\* Negated in an int32, and widened to the uint64 of a seed with its sign.
Negated(range) == InWidth(-range, IntLimit) % WideLimit

\* The seed of a negative operand; Frotz takes it without its sign.
SeedOf(m, range) == IF m.limit = WideLimit THEN -range ELSE Negated(range)

\* executeRandom on one generator: the number it draws, and what it leaves.
ExecuteRandom(m, range, entropy) ==
    CASE range > 0 -> [m |-> Drawn(m), number |-> Number(m, range)]
      [] range < 0 -> [m |-> SetRandomSeed(m, SeedOf(m, range), entropy), number |-> 0]
      [] OTHER -> [m |-> Reseeded(m, entropy), number |-> 0]

-----------------------------------------------------------------------------
Fresh(m, seed, limit, entropy) == SeedRandom(Generator(m, seed, limit), entropy)

\* New, and a second machine or Frotz itself.
RandomInit ==
    /\ \E kind \in {"pcg", "frotz"}, seed1, seed2 \in HostSeeds, limit \in {StateLimit, WideLimit} :
          /\ limit = WideLimit => kind = "frotz"
          /\ \E entropy \in Entropy :
                twins = << Fresh(kind, seed1, StateLimit, entropy), Fresh(kind, seed2, limit, entropy) >>
    /\ together = FALSE
    /\ numbers = <<0, 0>>

\* One of them executes random on its own.
Alone(i) ==
    \E range \in Ranges, entropy \in Entropy \cup {NoEntropy} :
       /\ range > 0 => CanDraw(twins[i])
       /\ range # 0 => entropy = NoEntropy
       /\ twins' = [twins EXCEPT ![i] = ExecuteRandom(@, range, entropy).m]
       /\ numbers' = <<0, 0>>
       /\ together' = FALSE

\* Both execute the same: from then on they are one, if it sows a seed in two
\* generators of one kind.
Alike ==
    \E range \in Ranges \ {0} :
       /\ range < 0 => twins[1].kind = twins[2].kind
       /\ range > 0 => together /\ \A i \in {1, 2} : CanDraw(twins[i])
       /\ LET done == [i \in {1, 2} |-> ExecuteRandom(twins[i], range, NoEntropy)]
          IN  /\ twins' = <<done[1].m, done[2].m>>
              /\ numbers' = <<done[1].number, done[2].number>>
       /\ together' = TRUE

\* restart, or a saved state without a generator.
StartAgain(i) ==
    \E entropy \in Entropy :
       /\ twins' = [twins EXCEPT ![i] = SeedRandom(twins[i], entropy)]
       /\ numbers' = <<0, 0>>
       /\ together' = FALSE

\* The second machine restores what the first has saved.
MoveState ==
    /\ twins[2].limit = StateLimit
    /\ twins' = [twins EXCEPT ![2] = RestoredFrom(@, Chunk(twins[1]), twins[1].foreign)]
    /\ numbers' = <<0, 0>>
    /\ together' = TRUE

RestoreForeign ==
    \E chunk \in ForeignChunks :
       /\ IF CanRestore(chunk)
          THEN twins' = [twins EXCEPT ![1] = RestoredFrom(@, chunk, TRUE)]
          ELSE UNCHANGED twins
       /\ together' = (together /\ ~CanRestore(chunk))
       /\ UNCHANGED numbers

RandomNext ==
    \/ \E i \in {1, 2} : Alone(i) \/ StartAgain(i)
    \/ Alike \/ MoveState \/ RestoreForeign

RandomSpec == RandomInit /\ [][RandomNext]_randomVars

-----------------------------------------------------------------------------
RandomTypeOK ==
    \A i \in {1, 2} :
       /\ twins[i].kind \in {"pcg", "frotz"}
       /\ twins[i].a \in 0 .. twins[i].limit - 1
       /\ twins[i].counter \in 0 .. CounterLimit - 1
       /\ twins[i].from \in DOMAIN PcgNumbers

\* "Sowing the same seed twice must produce the same sequence" (machine.go), a
\* machine that takes over a saved state goes on as the one that saved it, and
\* the Frotz generator draws what Frotz draws, which keeps all of its long: so
\* it is whatever either had drawn before.
SameNumbers == together => numbers[1] = numbers[2]

\* A counter that a machine has come to by itself lies in its cycle, so that the
\* numbers come round; only a state from elsewhere may have one beyond it.
CycleKept ==
    \A i \in {1, 2} :
       twins[i].kind = "frotz" /\ twins[i].interval # 0 /\ ~twins[i].foreign =>
          twins[i].counter < twins[i].interval

=============================================================================
