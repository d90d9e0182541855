------------------------------ MODULE Winnowing ------------------------------
(***************************************************************************)
(* The loop of Fingerprinter::winnow with the rolling hash it draws from   *)
(* (fingerprinting.hpp): a circular window of the last w hashes and the    *)
(* position of its minimum, kept up to date one character at a time.       *)
(* A character is its code; hashes are numbers modulo HashSize.            *)
(***************************************************************************)
EXTENDS Fingerprinting

CONSTANTS
    p,           \* the base of RollingHash
    HashSize     \* 2^64

VARIABLES
    buf,         \* the file
    curr_pos, last_hash,   \* the state of the hasher
    r,           \* the loop counter
    h,           \* the circular window
    min,         \* the position of its minimum
    hashes       \* the positions pushed so far

vars == <<buf, curr_pos, last_hash, r, h, min, hashes>>

\* hash(substr, n): the hash of the whole string s, as long as it is short.
HashOf(s) == LET Sum[n \in 0 .. Len(s)] ==
                     IF n = 0 THEN 0 ELSE (Sum[n - 1] * p + s[n]) % HashSize
             IN  Sum[Len(s)]

\* myPow(p, n), by repeated squaring.
myPow[n \in 0 .. Kgrams] ==
    IF n = 0 THEN 1 ELSE IF n = 1 THEN p
    ELSE LET tmp == myPow[n \div 2]
         IN  (IF n % 2 = 0 THEN tmp * tmp ELSE p * tmp * tmp) % HashSize

ASSUME RollingAssumption ==
    /\ Char \subseteq Int
    /\ p \in Nat \ {0} /\ HashSize \in Nat \ {0}
    /\ MaxHash = HashSize - 1
    /\ \A s \in Gram : GramHash[s] = HashOf(s)

Init ==
    /\ buf \in File
    /\ curr_pos = 0 /\ last_hash = 0
    /\ r = 1
    /\ h = [x \in 0 .. w - 1 |-> MaxHash]
    /\ min = 0
    /\ hashes = << >>

-----------------------------------------------------------------------------
Char0(i) == buf[i + 1]   \* buf[i] of the code

\* Mutant: the character that leaves the k-gram is the wrong one.
next_hash_off == IF curr_pos < Kgrams
                 THEN HashOf(SubSeq(buf, 1, curr_pos + 1))
                 ELSE (last_hash * p - Char0(curr_pos - Kgrams + 1) * myPow[Kgrams]
                       + Char0(curr_pos)) % HashSize

\* The first hashes are computed afresh, the others from the previous one.
next_hash == IF curr_pos < Kgrams
             THEN HashOf(SubSeq(buf, 1, curr_pos + 1))
             ELSE (last_hash * p - Char0(curr_pos - Kgrams) * myPow[Kgrams]
                   + Char0(curr_pos)) % HashSize

NextHashCall ==
    /\ r < Len(buf) - w
    /\ last_hash' = next_hash
    /\ curr_pos' = curr_pos + 1
    /\ h' = [h EXCEPT ![r % w] = last_hash']
    /\ r' = r + 1
    /\ UNCHANGED buf

Push(m) == min' = m /\ hashes' = Append(hashes, m)

\* The scan goes left from r and moves only to smaller hashes: it ends at the
\* rightmost minimum of the whole window.
RightmostMin(win) ==
    r - CHOOSE j \in 0 .. w - 1 :
            /\ \A i \in 0 .. w - 1 : win[(r - j) % w] <= win[(r - i) % w]
            /\ \A i \in 0 .. j - 1 : win[(r - j) % w] < win[(r - i) % w]

\* Mutant: the newest hash is taken instead of scanning the window.
RescanTakesNewest ==
    /\ NextHashCall
    /\ min % w = r % w
    /\ Push(r)

\* The minimum has left the window: it was overwritten by the new hash.
Rescan ==
    /\ NextHashCall
    /\ min % w = r % w
    /\ Push(RightmostMin(h'))

\* Mutant: a tie keeps the older minimum.
IsNewMinimumStrict(win) == win[r % w] < win[min % w]
IsNewMinimum(win) == win[r % w] <= win[min % w]

NewMinimum ==
    /\ NextHashCall
    /\ min % w # r % w
    /\ IsNewMinimum(h')
    /\ Push(r)

KeepMinimum ==
    /\ NextHashCall
    /\ min % w # r % w
    /\ ~IsNewMinimum(h')
    /\ UNCHANGED <<min, hashes>>

Next == Rescan \/ NewMinimum \/ KeepMinimum

Spec == Init /\ [][Next]_vars

-----------------------------------------------------------------------------
(***************************************************************************)
(* However many characters have been rolled in and out, modulo HashSize,   *)
(* the hash is that of the last Kgrams characters alone.                   *)
(***************************************************************************)
RollingHashIsLocal == curr_pos > 0 => last_hash = NextHash(buf, curr_pos)

(***************************************************************************)
(* The circular window loses nothing: the positions pushed are, in order   *)
(* and each once, the rightmost minima of all the windows seen so far.     *)
(***************************************************************************)
CutsAreWindowMinima ==
    /\ {hashes[i] : i \in DOMAIN hashes} = {WindowMin(buf, x) : x \in 1 .. r - 1}
    /\ \A i \in 2 .. Len(hashes) : hashes[i - 1] < hashes[i]

(***************************************************************************)
(* What winnowing is for: any two windows of w k-grams with the same       *)
(* characters are cut at the same place, whatever precedes them, so that   *)
(* an insertion disturbs only the chunks near it.                          *)
(***************************************************************************)
CutsAreLocal ==
    \A x, y \in w + Kgrams - 1 .. r - 1 :
        SubSeq(buf, x - w - Kgrams + 2, x) = SubSeq(buf, y - w - Kgrams + 2, y) =>
            \E i, j \in DOMAIN hashes :
                /\ hashes[i] \in x - w + 1 .. x
                /\ hashes[j] \in y - w + 1 .. y
                /\ x - hashes[i] = y - hashes[j]
=============================================================================
