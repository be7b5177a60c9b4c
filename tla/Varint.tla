------------------------------- MODULE Varint -------------------------------
(***************************************************************************)
(* Numbers in the executor's format: 64-bit words written as signed        *)
(* variable-length integers, and read back by the executor.                *)
(*                                                                         *)
(* A word has Width bits (64), a group Group bits (7); a byte of the       *)
(* encoding is a group and, as its highest bit, whether more follow.       *)
(***************************************************************************)
EXTENDS Integers, Sequences

CONSTANTS Half,       \* 2^63: half of the number of words
          GroupSize,  \* 2^7
          WordLists   \* sequences of words to write

Word == 0 .. 2 * Half - 1

ASSUME WordsAssumption ==
    /\ Half \in Nat \ {0}
    /\ GroupSize \in Nat /\ GroupSize > 1
    /\ WordLists \subseteq Seq(Word)

VARIABLES
    words,    \* still to write
    first,    \* the words there were
    rest,     \* what is left of the word that is written, or -1
    buf,      \* bytes written
    pos,      \* bytes read
    group,    \* value of the next group, that is GroupSize to the number of groups read
    partial,  \* what has been read of a word
    read      \* words read

writer == <<words, rest, buf>>
reader == <<pos, group, partial, read>>
wordsVars == <<first, writer, reader>>

(* write_val: zigzag, (x << 1) ^ (x >> 63) for x as a signed word; the     *)
(* shift keeps the sign.                                                   *)
LogicalShift(v) == IF v < Half THEN 2 * v ELSE 2 * (v - Half) + 1   \* mutant: it does not
ZigZag(v) == IF v < Half THEN 2 * v ELSE 4 * Half - 1 - 2 * v

(* Go's binary.ReadVarint in the executor                                  *)
UnZigZag(u) == IF u % 2 = 0 THEN u \div 2 ELSE 2 * Half - (u + 1) \div 2

WordsInit ==
    /\ first \in WordLists
    /\ words = first /\ rest = -1 /\ buf = <<>>
    /\ pos = 0 /\ group = 1 /\ partial = 0 /\ read = <<>>

Write ==
    /\ rest = -1 /\ words # <<>>
    /\ rest' = ZigZag(Head(words)) /\ words' = Tail(words)
    /\ UNCHANGED <<first, buf, reader>>

(* write_uvarint                                                           *)
More(v) == v >= GroupSize

WriteGroup ==
    /\ rest # -1 /\ More(rest)
    /\ buf' = Append(buf, GroupSize + (rest % GroupSize))
    /\ rest' = rest \div GroupSize
    /\ UNCHANGED <<first, words, reader>>

WriteLast ==
    /\ rest # -1 /\ ~More(rest)
    /\ buf' = Append(buf, rest)
    /\ rest' = -1
    /\ UNCHANGED <<first, words, reader>>

(* The executor reads what there is, a byte at a time.                     *)
ReadMore ==
    /\ pos < Len(buf) /\ buf[pos + 1] >= GroupSize
    /\ partial' = partial + (buf[pos + 1] - GroupSize) * group
    /\ group' = group * GroupSize /\ pos' = pos + 1
    /\ UNCHANGED <<first, writer, read>>

ReadLast ==
    /\ pos < Len(buf) /\ buf[pos + 1] < GroupSize
    /\ read' = Append(read, UnZigZag(partial + buf[pos + 1] * group))
    /\ partial' = 0 /\ group' = 1 /\ pos' = pos + 1
    /\ UNCHANGED <<first, writer>>

WordsNext == Write \/ WriteGroup \/ WriteLast \/ ReadMore \/ ReadLast

WordsSpec == WordsInit /\ [][WordsNext]_wordsVars

-----------------------------------------------------------------------------
(* The executor reads the words that were written, in that order and none  *)
(* else, negative ones and the largest included.                           *)
WordsReadBack ==
    /\ Len(read) <= Len(first)
    /\ \A i \in DOMAIN read : read[i] = first[i]
=============================================================================
