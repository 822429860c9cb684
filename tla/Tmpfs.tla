-------------------------------- MODULE Tmpfs --------------------------------
(***************************************************************************)
(* A file of fs/tmpfs.rs: a size and a sparse map of pages, each under a   *)
(* lock of its own, read and written by several threads, truncated, and    *)
(* mapped.  read_at takes the two locks one after the other; write_at and  *)
(* truncate hold both.  A page is PageLen cells; frame_alloc hands out     *)
(* pages of zeros.                                                         *)
(***************************************************************************)
EXTENDS Integers, Sequences, FiniteSets

CONSTANTS Pages,     \* page numbers 0 .. Pages - 1
          PageLen,   \* cells of a page
          Values,    \* values written, not 0
          Thread,
          MaxTmp     \* bound on the number of calls

VARIABLES page,      \* pages: number to cells
          fsize,     \* size
          reading,   \* of each thread: the length read_at found, and where
          expect,    \* history: what each cell may hold
          result,    \* history: what the last read returned, and what it might
          tcalls

tmpVars == <<page, fsize, reading, expect, result, tcalls>>

Cells == 0 .. Pages * PageLen - 1
Zero == [i \in 0 .. PageLen - 1 |-> 0]
NotReading == [from |-> -1, len |-> 0]
TmpCall == tcalls < MaxTmp /\ tcalls' = tcalls + 1
At(P, c) == IF c \div PageLen \in DOMAIN P THEN P[c \div PageLen][c % PageLen] ELSE 0
Touched(first, n) == {c \div PageLen : c \in first .. first + n - 1}

(* raw_write_at.                                                           *)
WriteAt(t, first, n, v) ==
    /\ TmpCall /\ reading[t] = NotReading /\ first + n - 1 \in Cells
    /\ page' = [p \in DOMAIN page \cup Touched(first, n) |->
                   [i \in 0 .. PageLen - 1 |->
                       IF p * PageLen + i \in first .. first + n - 1 THEN v ELSE At(page, p * PageLen + i)]]
    /\ fsize' = IF first + n > fsize THEN first + n ELSE fsize
    /\ expect' = [c \in Cells |-> IF c \in first .. first + n - 1 THEN {v} ELSE expect[c]]
    /\ UNCHANGED <<reading, result>>

(* raw_read_at: the length under one lock, the cells under the other.      *)
ReadSize(t, first, n) ==
    /\ TmpCall /\ reading[t] = NotReading /\ first < fsize
    /\ reading' = [reading EXCEPT ![t] = [from |-> first, len |-> IF n < fsize - first THEN n ELSE fsize - first]]
    /\ UNCHANGED <<page, fsize, expect, result>>
ReadPages(t) ==
    LET r == reading[t]
    IN /\ r # NotReading
       /\ result' = [c \in r.from .. r.from + r.len - 1 |-> [got |-> At(page, c), may |-> expect[c]]]
       /\ reading' = [reading EXCEPT ![t] = NotReading]
       /\ UNCHANGED <<page, fsize, expect, tcalls>>

\* Mutant: the last page that still has bytes of the file goes too.
TruncateRoundsDown(t, len) ==
    /\ TmpCall /\ reading[t] = NotReading
    /\ fsize' = len
    /\ page' = IF len < fsize THEN [p \in {q \in DOMAIN page : q < len \div PageLen} |-> page[p]] ELSE page
    /\ expect' = [c \in Cells |-> IF c >= len THEN expect[c] \cup {0} ELSE expect[c]]
    /\ UNCHANGED <<reading, result>>
(* truncate: pages past the end go, the rest of the last one stays as it   *)
(* was and shows again when the file grows.                                *)
Truncate(t, len) ==
    LET newEndPage == (len + PageLen - 1) \div PageLen
    IN /\ TmpCall /\ reading[t] = NotReading
       /\ fsize' = len
       /\ page' = IF len < fsize THEN [p \in {q \in DOMAIN page : q < newEndPage} |-> page[p]] ELSE page
       /\ expect' = [c \in Cells |-> IF c >= len THEN expect[c] \cup {0} ELSE expect[c]]
       /\ UNCHANGED <<reading, result>>

(* get_shared_page for a mapping, and a store through it, which may lie    *)
(* past the end of the file; get_file_page inserts nothing.                *)
MapPage(p) ==
    /\ TmpCall /\ p \notin DOMAIN page
    /\ page' = [q \in DOMAIN page \cup {p} |-> IF q = p THEN Zero ELSE page[q]]
    /\ UNCHANGED <<fsize, reading, expect, result>>
MapStore(p, i, v) ==
    /\ TmpCall /\ p \in DOMAIN page
    /\ page' = [page EXCEPT ![p][i] = v]
    /\ expect' = [expect EXCEPT ![p * PageLen + i] = {v}]
    /\ UNCHANGED <<fsize, reading, result>>

TmpInit ==
    /\ page = << >> /\ fsize = 0 /\ tcalls = 0
    /\ reading = [t \in Thread |-> NotReading]
    /\ expect = [c \in Cells |-> {0}] /\ result = << >>
TmpNext ==
    \/ \E t \in Thread : \/ \E c \in Cells, n \in 1 .. PageLen + 1 :
                               ReadSize(t, c, n) \/ \E v \in Values : WriteAt(t, c, n, v)
                         \/ ReadPages(t)
                         \/ \E len \in 0 .. Pages * PageLen : Truncate(t, len)
    \/ \E p \in 0 .. Pages - 1 : MapPage(p) \/ (\E i \in 0 .. PageLen - 1, v \in Values : MapStore(p, i, v))
TmpSpec == TmpInit /\ [][TmpNext]_tmpVars

(* A read returns, for every cell, the last value written to it through    *)
(* write_at or a mapping, or zero where nothing was written or a           *)
(* truncation took it away, even if the file is truncated between the two  *)
(* locks of the read.                                                      *)
TmpReads ==
    \A c \in DOMAIN result : result[c].got \in result[c].may
=============================================================================
