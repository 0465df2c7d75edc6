----------------------------- MODULE StringShim -----------------------------
(***************************************************************************)
(* Buffers of the image that strlcpy, strlcat and memset_pattern16 write   *)
(* (stubs/src/stub_str.c:11-44): byte by byte, with the byte behind each.  *)
(***************************************************************************)
EXTENDS Integers, Sequences, FiniteSetsExt

CONSTANTS Size,      \* of the buffer
          Sources,   \* strings the image copies or appends
          Width,     \* of a pattern: 16 bytes in the code
          MaxLength  \* bound on the length of what the image means to write

StringsAssumption == /\ Size \in Nat /\ Width \in Nat \ {0} /\ MaxLength \in Nat
                     /\ \A s \in Sources : s \in Seq(Nat \ {0})

VARIABLES memory,  \* bytes from 0, the last one behind the buffer
          meant,   \* the string the image means to have there
          told,    \* the last result, and the length it has to tell
          old,     \* memory before the last call
          filled   \* length of the last pattern, if that was the last call

vars == <<memory, meant, told, old, filled>>

Offsets == 0 .. Size
Nul     == 0
Stale   == 99
None    == -1

Init == /\ memory = [i \in Offsets |-> Stale] /\ old = memory
        /\ meant = << >> /\ told = [result |-> None, right |-> None] /\ filled = None

\* memcpy to offset at, of bytes from 0.
Copy(m, at, n, Byte(_)) == [i \in Offsets |-> IF i >= at /\ i < at + n THEN Byte(i - at) ELSE m[i]]

\* Byte j of a string, with its terminator.
ByteOf(s, j) == IF j < Len(s) THEN s[j + 1] ELSE Nul

\* strlen, up to the end of memory.
Strlen(m) == IF \E i \in Offsets : m[i] = Nul THEN Min({i \in Offsets : m[i] = Nul}) ELSE Size + 1

Least(a, b) == IF a < b THEN a ELSE b

\* memcpy of n - 1 bytes, and the terminator.
Strlcpy(m, s) ==
    LET n == Least(Len(s) + 1, Size)
    IN  IF Size = 0 THEN m
        ELSE [Copy(m, 0, n - 1, LAMBDA j : ByteOf(s, j)) EXCEPT ![n - 1] = Nul]

\* strncat appends at most n bytes of s, and a terminator.
Strncat(m, s, n) ==
    LET at == Strlen(m)
        k  == Least(Len(s), n)
    IN  [Copy(m, at, k, LAMBDA j : ByteOf(s, j)) EXCEPT ![at + k] = Nul]

\* Variant with a plausible bug: no room is left for the terminator.
StrlcatFull(m, s) ==
    IF Size = 0 THEN m
    ELSE LET ended == [m EXCEPT ![Size - 1] = Nul] IN Strncat(ended, s, Size - Strlen(ended))

Strlcat(m, s) ==
    IF Size = 0 THEN m
    ELSE LET ended == [m EXCEPT ![Size - 1] = Nul] IN Strncat(ended, s, Size - Strlen(ended) - 1)

StrlcatResult(m) == IF Size = 0 THEN 0 ELSE Strlen(m)

\* The pattern's bytes are the numbers from 1 to Width.
Pattern(j) == j + 1

\* Pieces of the pattern's width, then the rest of it, where rem bytes are left;
\* they do not overlap.
Fill(m, len) ==
    LET Fills[rem \in 0 .. len] ==
            IF rem >= Width THEN Copy(Fills[rem - Width], len - rem, Width, Pattern)
            ELSE Copy(m, len - rem, rem, Pattern)
    IN  Fills[len]

CallStrlcpy(s) == /\ memory' = Strlcpy(memory, s) /\ old' = memory
                  /\ meant' = s
                  /\ told' = [result |-> Len(s), right |-> Len(s)]
                  /\ filled' = None

\* Only a string may be appended to.
CallStrlcat(s) == /\ meant # << >> /\ Len(meant) + Len(s) <= MaxLength
                  /\ memory' = Strlcat(memory, s) /\ old' = memory
                  /\ meant' = meant \o s
                  /\ told' = [result |-> StrlcatResult(memory'), right |-> Len(meant')]
                  /\ filled' = None

MemsetPattern16(len) == /\ memory' = Fill(memory, len) /\ old' = memory
                        /\ meant' = << >>
                        /\ told' = [result |-> None, right |-> None]
                        /\ filled' = len

Next == \/ \E s \in Sources : CallStrlcpy(s) \/ CallStrlcat(s)
        \/ \E len \in 0 .. Size : MemsetPattern16(len)

Spec == Init /\ [][Next]_vars

-----------------------------------------------------------------------------
\* After any number of copies and appends the buffer has as much of the string
\* that was meant as fits, ended inside the buffer, and the byte behind it is
\* nobody's (stub_str.c:11-26).
FitsAndEnds == /\ memory[Size] = Stale
               /\ meant # << >> /\ Size > 0 =>
                     /\ Strlen(memory) = Least(Len(meant), Size - 1)
                     /\ \A i \in 0 .. Strlen(memory) - 1 : memory[i] = meant[i + 1]

\* The result is the length that was meant, except that strlcat does not tell
\* what it cut off: it says what fits, and 0 of no buffer (stub_str.c:18, 22, 25).
ToldLength == told.result # None =>
                  /\ told.result \in {told.right, IF Size = 0 THEN 0 ELSE Size - 1}
                  /\ told.right < Size => told.result = told.right

\* A pattern goes on where its last piece ended, to the length and no further
\* (stub_str.c:35-44).
PatternRepeats == filled # None =>
    \A i \in Offsets : memory[i] = (IF i < filled THEN Pattern(i % Width) ELSE old[i])
=============================================================================
