------------------------------ MODULE MCMutBase ------------------------------
(* What mut is built on, at small sizes: its counters, its copying of words *)
(* and its memory manager.  They share no state; a behaviour is of one.     *)
EXTENDS MutUint64, MutWords, MutMem, TLC

\* Words of three nibbles, and counters in which each nibble of a word is 0,
\* 9 or 15: every remainder and every carry of the division, zeroes
\* in a row, and low words where the next object overflows.
Nibble == {0, 9, 15}
SomeWords == {256 * a + 16 * b + c : a, b, c \in Nibble}
SomeCounters == {Word * hi + lo : hi, lo \in SomeWords}

\* No address of a block is told from another.
Symmetry == Permutations(Addr)

NoCounts ==
    /\ stage = "idle" /\ now = Pair(0) /\ max = Pair(0) /\ total = Pair(0)
    /\ objects = <<>> /\ produced = 0 /\ ever = 0 /\ peak = 0 /\ ui = Pair(0) /\ buffer = <<>>
NoWords ==
    /\ mem = [p \in Places |-> {}] /\ before = mem
    /\ call = [kind |-> "none", dest |-> 0, src |-> 0, n |-> 0, goes |-> "idle"]
    /\ dest = 0 /\ src = 0 /\ nwords = 0 /\ calls = MaxCopies
NoBlocks ==
    /\ store = [in_use |-> {}, freed |-> {}, n_bytes_allocated |-> 0, n_bytes_in_use |-> 0,
                n_blocks_in_use |-> 0, max_bytes_in_use |-> 0, max_blocks_in_use |-> 0,
                n_malloc |-> 0, n_realloc |-> 0, n_realloc0 |-> 0, n_free |-> 0, n_free0 |-> 0]
    /\ heap = {} /\ held = {} /\ lost = {} /\ wrong = FALSE /\ phase = "closed"

BaseInit ==
    \/ CountInit /\ NoWords /\ NoBlocks
    \/ NoCounts /\ WordsInit /\ NoBlocks
    \/ NoCounts /\ NoWords /\ Init
BaseNext ==
    \/ CountNext /\ UNCHANGED <<wordsVars, vars>>
    \/ WordsNext /\ UNCHANGED <<countVars, vars>>
    \/ Next /\ UNCHANGED <<countVars, wordsVars>>
=============================================================================
