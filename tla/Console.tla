------------------------------ MODULE Console -------------------------------
(***************************************************************************)
(* The buffer that a thread fills with the output of a VM (serial_output,  *)
(* and likewise that of the ssh process), of which the host takes a copy   *)
(* when it wants to know whether the guest crashed.                        *)
(***************************************************************************)
EXTENDS Integers

CONSTANTS
    NoCrash,
    Limit, Kept,   \* 256 KB and 128 KB
    MaxLine,       \* the longest line or chunk
    MaxTotal       \* bound: bytes printed

ASSUME ConsoleAssumption ==
    /\ NoCrash \notin Nat
    /\ Limit \in Nat /\ Kept \in 0 .. Limit /\ MaxLine \in Nat \ {0} /\ MaxTotal \in Nat

VARIABLES
    total,   \* bytes printed and read so far
    start,   \* of them, those before the first one in the buffer
    crash,   \* the bytes before the line that reports the crash, or NoCrash
    size     \* of that line

consoleVars == <<total, start, crash, size>>

Held == total - start

ConsoleInit == total = 0 /\ start = 0 /\ crash = NoCrash /\ size = 0

DrainedAll(end) == IF end - start > Limit THEN total ELSE start   \* mutant: only the new line is left
(* The buffer after bytes up to end were added.                            *)
Drained(end) == IF end - start > Limit THEN end - Kept ELSE start

(* The thread reads a line, and adds it with a line feed.                  *)
ReadLine(n) ==
    /\ total + n <= MaxTotal
    /\ total' = total + n
    /\ start' = Drained(total + n)
    /\ UNCHANGED <<crash, size>>

ReadCrash(n) ==
    /\ crash = NoCrash /\ total + n <= MaxTotal
    /\ total' = total + n
    /\ start' = Drained(total + n)
    /\ crash' = total /\ size' = n

ConsoleNext == \E n \in 1 .. MaxLine : ReadLine(n) \/ ReadCrash(n)

ConsoleSpec == ConsoleInit /\ [][ConsoleNext]_consoleVars

-----------------------------------------------------------------------------
(* What detect_crash finds in a copy of the buffer: the line is there as a *)
(* whole.                                                                  *)
Found == crash # NoCrash /\ start <= crash

ConsoleTypeOK == total \in 0 .. MaxTotal /\ start \in 0 .. total /\ Held <= Limit

(* A crash is found as long as no more than 128 KB were printed from its   *)
(* line on, however the output comes in lines.                             *)
RecentCrashIsFound == crash # NoCrash /\ total - crash <= Kept => Found
=============================================================================
