------------------------------ MODULE MutUint64 ------------------------------
(***************************************************************************)
(* The 64 bit integers of uint64/struct/mut_uint64.c, which are the        *)
(* counters of counter/uint64: pairs of words.  Here a word has WordBits   *)
(* bits.  The module counts as mut.c does for its statistics, then prints  *)
(* a counter, a digit a step, as mut_log_stats does.                       *)
(***************************************************************************)
EXTENDS Integers, Sequences

CONSTANTS
    WordBits,   \* bits of an unsigned int, a multiple of chunk_bits
    ObjectSizes, \* sizes of the target's objects
    Carried,    \* values of the total of space when counting begins
    Junk,       \* bound: what a word that was never assigned may hold
    MaxLive,    \* bound: objects at a time
    MaxProduced \* bound: objects in all

Word == 2^WordBits
ULONG_MAX == Word - 1
chunk_bits == 4
Chunk == 2^chunk_bits

ASSUME Uint64Assumption ==
    /\ WordBits \in Nat /\ WordBits > chunk_bits /\ WordBits % chunk_bits = 0
    /\ ObjectSizes \subseteq 1..ULONG_MAX /\ Carried \subseteq 0..(Word * Word - 1) /\ Junk \subseteq 0..ULONG_MAX
    /\ MaxLive \in Nat /\ MaxProduced \in Nat

VARIABLES
    stage,      \* "count", "print", "printed", "abort" by an assertion, or "idle"
    now, max,   \* stats.now.space and stats.max.space.space
    total,      \* stats.total.space
    objects,    \* the sizes of the objects there are
    produced,   \* objects there were
    ever, peak, \* the sizes of all there were, and the most there were, added up
    ui, buffer  \* in mut_uint64_out: the rest of the number, and its digits

countVars == <<stage, now, max, total, objects, produced, ever, peak, ui, buffer>>

Pair(v) == [hi |-> v \div Word, lo |-> v % Word]
Value(x) == x.hi * Word + x.lo

-----------------------------------------------------------------------------
(* mut_uint64.c *)

\* At an overflow ans.hi is counted up without having been assigned: it can
\* have any value of Junk.  The two ways the code takes to ans.lo are one sum.
mut_uint64_inc(x, n) ==
    IF ULONG_MAX - x.lo < n
    THEN [hi : Junk,
          lo : {IF x.lo > n THEN n - (ULONG_MAX - x.lo) - 1 ELSE x.lo - (ULONG_MAX - n) - 1}]
    ELSE {[hi |-> x.hi, lo |-> x.lo + n]}

\* mut_assert_check of mut_uint64_dec, which is about the operand.
MayDec(x, n) == x.lo < n => x.hi > 0

\* The borrow too comes out of an ans.hi that has no value.
mut_uint64_dec(x, n) ==
    IF x.lo < n
    THEN [hi : Junk, lo : {ULONG_MAX - (n - x.lo) + 1}]
    ELSE {[hi |-> x.hi, lo |-> x.lo - n]}

mut_uint64_lt(a, b) == a.hi <= b.hi /\ a.lo < b.lo

\* Division by ten, chunk by chunk from the top.  In d are the word n, the
\* quotient so far, the last remainder, the place of the next chunk, and the
\* bits the next chunk is taken from: those of the remainder before it, and
\* those above as long as they were zero.  A quotient is below Chunk, so that
\* or-ing it to the shifted answer adds it.
DivideChunk(d, x) ==
    [ans   |-> ((d.ans * Chunk) + (x \div 10)) % Word,
     r     |-> x % 10,
     n     |-> LET above == d.n \div (Chunk * 2^d.shift)
               IN  ((above * Chunk) + (x % 10)) * 2^d.shift + (d.n % 2^d.shift),
     bits  |-> IF x = 0 THEN d.bits + chunk_bits ELSE 2 * chunk_bits,
     shift |-> d.shift - chunk_bits]

\* Every chunk of a word but its first, which differs for the two words.
DivideRest(first) ==
    LET at[i \in 0..(WordBits \div chunk_bits - 1)] ==
            IF i = 0 THEN first
            ELSE LET d == at[i - 1] IN DivideChunk(d, (d.n \div 2^d.shift) % 2^d.bits)
    IN  at[WordBits \div chunk_bits - 1]

\* Defect: the remainder of the high word is not carried into the low one.
UdivApart(v) ==
    LET top == WordBits - chunk_bits
        Start(n, b) == [ans |-> 0, r |-> 0, n |-> n, bits |-> b, shift |-> top]
        hi == DivideRest(DivideChunk(Start(v.hi, chunk_bits), v.hi \div 2^top))
        lo == DivideRest(DivideChunk(Start(v.lo, 2 * chunk_bits), v.lo \div 2^top))
    IN  [quotient |-> [hi |-> hi.ans, lo |-> lo.ans], r |-> lo.r]

mut_uint64_udiv10(v) ==
    LET top == WordBits - chunk_bits
        Start(n, b) == [ans |-> 0, r |-> 0, n |-> n, bits |-> b, shift |-> top]
        hi == DivideRest(DivideChunk(Start(v.hi, chunk_bits), (v.hi \div 2^top) % Chunk))
        lo == DivideRest(DivideChunk(Start(v.lo, 2 * chunk_bits),
                                     (hi.r * Chunk + (v.lo \div 2^top)) % 2^(2 * chunk_bits)))
    IN  [quotient |-> [hi |-> hi.ans, lo |-> lo.ans], r |-> lo.r]

-----------------------------------------------------------------------------
(* the statistics of mut.c *)

\* What the objects are when one of size n is added: as many as MaxLive, and
\* together in the target's address space.
Sum(s) == LET add[i \in 0..Len(s)] == IF i = 0 THEN 0 ELSE add[i - 1] + s[i] IN add[Len(s)]
Remove(s, i) == SubSeq(s, 1, i - 1) \o SubSeq(s, i + 1, Len(s))

\* mut_collect_producer_stats, its part about space
Produce(n) ==
    /\ stage = "count" /\ Len(objects) < MaxLive /\ produced < MaxProduced
    /\ Sum(objects) + n <= ULONG_MAX
    /\ now' \in mut_uint64_inc(now, n)
    /\ total' \in mut_uint64_inc(total, n)
    /\ max' = IF mut_uint64_lt(max, now') THEN now' ELSE max
    /\ objects' = Append(objects, n) /\ produced' = produced + 1 /\ ever' = ever + n
    /\ peak' = IF Sum(objects') > peak THEN Sum(objects') ELSE peak
    /\ UNCHANGED <<stage, ui, buffer>>

\* A consumer, or a realloc, takes an object out of the statistics.
Consume(i) ==
    /\ stage = "count" /\ i \in 1..Len(objects)
    /\ IF MayDec(now, objects[i])
       THEN now' \in mut_uint64_dec(now, objects[i]) /\ objects' = Remove(objects, i) /\ stage' = stage
       ELSE stage' = "abort" /\ UNCHANGED <<now, objects>>
    /\ UNCHANGED <<max, total, produced, ever, peak, ui, buffer>>

\* mut_uint64_out, called at the end for stats.total.space and the others.
StartOut ==
    /\ stage = "count"
    /\ stage' = "print" /\ ui' = total /\ buffer' = <<>>
    /\ UNCHANGED <<now, max, total, objects, produced, ever, peak>>

\* One round of its loop, which ends when there is nothing left to divide.
OutDigit ==
    /\ stage = "print"
    /\ LET d == mut_uint64_udiv10(ui)
       IN  /\ ui' = d.quotient
           /\ buffer' = <<d.r>> \o buffer
           /\ stage' = IF d.quotient.hi # 0 \/ d.quotient.lo # 0 THEN "print" ELSE "printed"
    /\ UNCHANGED <<now, max, total, objects, produced, ever, peak>>

-----------------------------------------------------------------------------
CountInit ==
    /\ stage = "count" /\ objects = <<>> /\ produced = 0 /\ peak = 0
    /\ ever \in Carried
    /\ now = Pair(0) /\ max = Pair(0) /\ total = Pair(ever)
    /\ ui = Pair(0) /\ buffer = <<>>

CountNext ==
    \/ \E n \in ObjectSizes : ever + n < Word * Word /\ Produce(n)
    \/ \E i \in 1..MaxLive : Consume(i)
    \/ StartOut \/ OutDigit

-----------------------------------------------------------------------------
\* What the statistics count (mut.c:250): the space in use and its maximum are
\* those of the program and no counter is taken below zero, for no program has
\* more space than a word can count.  The total is that of the program while a
\* word can count it; from the first carry on only its low word is.
CountersRight ==
    /\ Value(now) = Sum(objects) /\ stage # "abort"
    /\ Value(max) = peak
    /\ ever < Word => Value(total) = ever
    /\ total.lo = ever % Word

\* mut_uint64_out prints the number it is given: at every round of its loop the
\* digits in buffer continue the number that is left, each is a digit, and they
\* are no more than mut_uint64_max_decimal_chars, the digits of the largest.
Digits(v) == CHOOSE k \in 1..(WordBits * 2) : v < 10^k /\ (k = 1 \/ v >= 10^(k - 1))
DigitsRight ==
    stage \in {"print", "printed"} =>
        /\ \A i \in 1..Len(buffer) : buffer[i] \in 0..9
        /\ Value(ui) * 10^Len(buffer)
             + Sum([i \in 1..Len(buffer) |-> buffer[i] * 10^(Len(buffer) - i)]) = Value(total)
        /\ Len(buffer) <= Digits(Word * Word - 1)
        /\ stage = "printed" => Len(buffer) = Digits(Value(total)) /\ ui = Pair(0)

\* With -s mut prints the counters it keeps, digit by digit, and they are those
\* of the program as long as it has not allocated more than a word counts in
\* all; TotalExact is about the programs that have.
StatsRight == CountersRight /\ DigitsRight

\* counter/README: an unsigned long "is not necessarily large enough to count
\* the number of hits in a long running program", so that a counter counts on
\* where the low word ends; count64.c is there to test it.
TotalExact == Value(total) = ever
=============================================================================
