------------------------------- MODULE Bitset -------------------------------
(***************************************************************************)
(* bitset_utils.hpp: occupancy bits packed into words, and the scans for   *)
(* the nearest set bit by masking the first word and counting zeros.       *)
(* Words are unsigned integers of kBitsPerWord bits.                       *)
(***************************************************************************)
EXTENDS Naturals, FiniteSetsExt, Bitwise

CONSTANTS kBitsPerWord,   \* 64 in the code
          Sizes,          \* num_bits the constructor is called with
          nullopt

VARIABLES num_bits, words
vars == <<num_bits, words>>

AllOnes == 2 ^ kBitsPerWord - 1
ShiftLeft(word, n) == (word * 2 ^ n) % 2 ^ kBitsPerWord
Complement(word) == AllOnes - word
BitsIn(word) == {b \in 0 .. kBitsPerWord - 1 : (word \div 2 ^ b) % 2 = 1}

countr_zero(word) == Min(BitsIn(word))
countl_zero(word) == kBitsPerWord - 1 - Max(BitsIn(word))

word_of(i) == i \div kBitsPerWord
offset(i) == i % kBitsPerWord
bit(i) == ShiftLeft(1, offset(i))

test(i) == (words[word_of(i)] & bit(i)) # 0

Init ==
    /\ num_bits \in Sizes
    /\ words = [w \in 0 .. (num_bits + kBitsPerWord - 1) \div kBitsPerWord - 1 |-> 0]

\* (mutant) The carry of an addition instead of an OR.
SetByAdding ==
    /\ \E i \in 0 .. num_bits - 1 :
        words' = [words EXCEPT ![word_of(i)] = (@ + bit(i)) % 2 ^ kBitsPerWord]
    /\ UNCHANGED num_bits

Set ==
    /\ \E i \in 0 .. num_bits - 1 : words' = [words EXCEPT ![word_of(i)] = @ | bit(i)]
    /\ UNCHANGED num_bits

Clear ==
    /\ \E i \in 0 .. num_bits - 1 :
        words' = [words EXCEPT ![word_of(i)] = @ & Complement(bit(i))]
    /\ UNCHANGED num_bits

Next == Set \/ Clear

Spec == Init /\ [][Next]_vars
-----------------------------------------------------------------------------
\* The loop of find_next_set.
RECURSIVE scan_up(_, _)
scan_up(word, w) ==
    IF word # 0
    THEN LET pos == w * kBitsPerWord + countr_zero(word)
         IN  IF pos < num_bits THEN pos ELSE nullopt
    ELSE IF w + 1 \in DOMAIN words THEN scan_up(words[w + 1], w + 1) ELSE nullopt

find_next_set(from) ==
    IF from >= num_bits THEN nullopt
    ELSE scan_up(words[word_of(from)] & ShiftLeft(AllOnes, offset(from)), word_of(from))

\* The loop of find_prev_set.
RECURSIVE scan_down(_, _)
scan_down(word, w) ==
    IF word # 0 THEN w * kBitsPerWord + (kBitsPerWord - 1 - countl_zero(word))
    ELSE IF w = 0 THEN nullopt ELSE scan_down(words[w - 1], w - 1)

\* (mutant) The guard of the last bit is dropped; the hardware shifts by the
\* amount modulo the word size.
mask_unguarded(off) == ShiftLeft(1, (off + 1) % kBitsPerWord) - 1

mask(off) == IF off = kBitsPerWord - 1 THEN AllOnes ELSE ShiftLeft(1, off + 1) - 1

find_prev_set(from) ==
    IF from >= num_bits THEN nullopt
    ELSE scan_down(words[word_of(from)] & mask(offset(from)), word_of(from))
-----------------------------------------------------------------------------
Bits == {i \in 0 .. num_bits - 1 : test(i)}

Ref == INSTANCE IndexSet WITH bits <- Bits

\* find_next_set returns the least set bit not below `from`, also across
\* empty words and one past the end (the idx + 1 of order_book_array.cpp);
\* find_prev_set the greatest not above it, also from the last bit of a word,
\* where the mask cannot be built by a shift.
ScansExact ==
    /\ \A from \in 0 .. num_bits : find_next_set(from) = Ref!find_next_set(Bits, from)
    /\ \A from \in 0 .. num_bits - 1 : find_prev_set(from) = Ref!find_prev_set(Bits, from)

\* set and clear change one bit at most: the others of its word stay.
ImplementsIndexSet == Ref!Spec
=============================================================================
