------------------------------ MODULE MutWords ------------------------------
(***************************************************************************)
(* mut_process_memcpy and mut_process_memset of proc/ptrace/mut_process.c: *)
(* mut copies and clears objects of the target a word at a time, each word *)
(* a ptrace request that can fail, and merges the bytes an object has in   *)
(* its last word into what that word holds.                                *)
(*                                                                         *)
(* A byte is the set of its one bits, or of marks that stand for them, so  *)
(* that or is union and a byte of zeroes is {}.  Bytes are in the order of *)
(* the target, an x86: the first byte of a word is its lowest.             *)
(***************************************************************************)
EXTENDS Integers

CONSTANTS
    W,          \* sizeof(mut_reg)
    Words,      \* words of memory in the target
    Lengths,    \* lengths asked for
    Pattern,    \* the byte c of mut_process_memset, as a set of bits
    MaxCopies   \* bound: calls in all

ASSUME WordsAssumption ==
    /\ W \in Nat \ {0} /\ Words \in Nat /\ MaxCopies \in Nat
    /\ Lengths \subseteq 1..(W * Words)

VARIABLES
    mem,        \* the bytes of the target
    before,     \* the bytes there were when the call was made
    call,       \* the call: what it does, its arguments, and whether it goes on
    dest, src,  \* the addresses it has come to
    nwords,     \* the whole words that are left
    calls       \* the calls made

wordsVars == <<mem, before, call, dest, src, nwords, calls>>

Places == 0..(W * Words - 1)
Aligned == {W * i : i \in 0..(Words - 1)}
Covered(n) == ((n + W - 1) \div W) * W
Span(a, n) == a..(a + n - 1)

-----------------------------------------------------------------------------
(* requests of mut_trace.c *)

Peek(a) == [i \in 0..(W - 1) |-> mem[a + i]]
Poke(a, word) == mem' = [p \in Places |-> IF p \in Span(a, W) THEN word[p - a] ELSE mem[p]]

\* data |= orig & mut_process_byte_mask(nb): the mask has the lowest W - nb
\* bytes of a word, which on this target are the first.
Merge(nb, data, orig) ==
    [i \in 0..(W - 1) |-> IF i < W - nb THEN data[i] \cup orig[i] ELSE data[i]]

\* mut_process_memcpy(p, d, s, n), between two objects of the target, and
\* mut_process_memset(p, d, c, n); the pre-conditions have the addresses aligned.
Start(kind, d, s, n) ==
    /\ call.goes # "on" /\ calls < MaxCopies
    /\ d + Covered(n) <= W * Words
    /\ kind = "memcpy" =>
         /\ s + Covered(n) <= W * Words
         /\ d + Covered(n) <= s \/ s + Covered(n) <= d
    /\ kind = "memset" => s = d
    /\ call' = [kind |-> kind, dest |-> d, src |-> s, n |-> n, goes |-> "on"]
    /\ before' = mem /\ calls' = calls + 1
    /\ dest' = d /\ src' = s /\ nwords' = n \div W
    /\ UNCHANGED mem

\* Writes a word, and one that is merged with what is there, and the result 1.
WriteWord(data) ==
    /\ nwords # 0
    /\ Poke(dest, data)
    /\ dest' = dest + W /\ nwords' = nwords - 1
    /\ UNCHANGED <<before, call, calls>>

WriteBytes(data) ==
    /\ nwords = 0
    /\ IF call.n % W # 0
       THEN Poke(dest, Merge(call.n % W, data, Peek(dest)))
       ELSE UNCHANGED mem
    /\ call' = [call EXCEPT !.goes = "done"]
    /\ UNCHANGED <<before, dest, src, nwords, calls>>

Copies == call.goes = "on" /\ call.kind = "memcpy"
Sets == call.goes = "on" /\ call.kind = "memset"
pattern == [i \in 0..(W - 1) |-> Pattern]

\* Defect: the source does not move on.
CopyWordStays == Copies /\ WriteWord(Peek(src)) /\ src' = src

\* The loop over the whole words, and the bytes after them.
CopyWord == Copies /\ WriteWord(Peek(src)) /\ src' = src + W
CopyBytes == Copies /\ WriteBytes(Peek(src))

SetWord == Sets /\ WriteWord(pattern) /\ src' = src
SetBytes == Sets /\ WriteBytes(pattern)

\* A request fails, to read or to write: the word is as it was and the result 0.
RequestFails ==
    /\ call.goes = "on" /\ (nwords # 0 \/ call.n % W # 0)
    /\ call' = [call EXCEPT !.goes = "failed"]
    /\ UNCHANGED <<mem, before, dest, src, nwords, calls>>

-----------------------------------------------------------------------------
WordsInit ==
    /\ mem = [p \in Places |-> {p}] /\ before = mem
    /\ call = [kind |-> "none", dest |-> 0, src |-> 0, n |-> 0, goes |-> "no"]
    /\ dest = 0 /\ src = 0 /\ nwords = 0 /\ calls = 0

WordsNext ==
    \/ \E kind \in {"memcpy", "memset"}, d, s \in Aligned, n \in Lengths : Start(kind, d, s, n)
    \/ CopyWord \/ CopyBytes \/ SetWord \/ SetBytes \/ RequestFails

WordsSpec == WordsInit /\ [][WordsNext]_wordsVars

-----------------------------------------------------------------------------
\* The byte the caller wants at place p of the destination.
Wanted(p) == IF call.kind = "memcpy" THEN before[call.src + (p - call.dest)] ELSE Pattern

\* However far a call has come, or where it failed, the words it has done are
\* copied in order and whole, the words it has not come to and all others are
\* as they were, the object it copies is untouched, and in the word of the
\* last bytes every byte has at least what is wanted there, and nothing but that,
\* what it held before, and what is behind the last byte of the object.
WordsRight ==
    LET whole == call.n - (call.n % W)
        done  == Span(call.dest, dest - call.dest)
        last  == IF call.goes = "done" THEN Span(call.dest + whole, Covered(call.n) - whole) ELSE {}
    IN  /\ \A p \in done : mem[p] = Wanted(p)
        /\ \A p \in last : Wanted(p) \subseteq mem[p] /\ mem[p] \subseteq Wanted(p) \cup before[p]
        /\ \A p \in Places \ (done \cup last) : mem[p] = before[p]
        /\ call.goes = "done" => done = Span(call.dest, whole)

\* mut_process.txt:208: mut_process_memset "fills the first nbytes of the memory
\* area [...] with the constant byte c".
FirstBytesSet ==
    call.kind = "memset" /\ call.goes = "done" =>
        \A p \in Span(call.dest, call.n) : mem[p] = Pattern

\* mut_process.txt:195: mut_process_memcpy "copies nbytes of data from src to
\* dest".
FirstBytesCopied ==
    call.kind = "memcpy" /\ call.goes = "done" =>
        \A p \in Span(call.dest, call.n) : mem[p] = Wanted(p)
=============================================================================
