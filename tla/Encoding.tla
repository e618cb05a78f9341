------------------------------ MODULE Encoding ------------------------------
(***************************************************************************)
(* The three forms of a key in trie_by_cid/trie/encoding.go: key bytes,    *)
(* hex (a nibble per element, then the terminator 16 when the key ends in  *)
(* a value) and compact (the hex prefix form of the nodes on disk).        *)
(***************************************************************************)
EXTENDS Integers, Sequences, SequencesExt, FiniteSetsExt

Terminator == 16

hasTerm(s) == s # <<>> /\ Last(s) = Terminator

\* The key without its terminator, and without its first n elements.
Nibbles(hex) == IF hasTerm(hex) THEN Front(hex) ELSE hex
From(s, n) == SubSeq(s, n + 1, Len(s))

decodeNibbles(nibbles) ==
    [i \in 1..(Len(nibbles) \div 2) |-> 16 * nibbles[2 * i - 1] + nibbles[2 * i]]

\* The flag byte: whether the key has a terminator, whether it is odd, and the
\* first nibble of an odd key.
FlagByte(hex) ==
    (IF hasTerm(hex) THEN 32 ELSE 0)
    + (IF Len(Nibbles(hex)) % 2 = 1 THEN 16 + hex[1] ELSE 0)

\* Mutant: the first nibble of an odd key stays among the others.
hexToCompactAligned(hex) == <<FlagByte(hex)>> \o decodeNibbles(Nibbles(hex))

hexToCompact(hex) ==
    <<FlagByte(hex)>> \o decodeNibbles(From(Nibbles(hex), Len(Nibbles(hex)) % 2))

\* The same within the buffer of the hex key: byte bi overwrites what has been
\* read before.
hexToCompactInPlace(hex) ==
    LET n       == Len(Nibbles(hex))
        binLen  == n \div 2 + 1
        odd     == n % 2
        Step(buf, bi) == [buf EXCEPT ![bi + 1] = 16 * buf[2 * bi + odd - 1] + buf[2 * bi + odd]]
        packed  == FoldLeft(Step, hex, [bi \in 1..(binLen - 1) |-> bi])
    IN  SubSeq([packed EXCEPT ![1] = FlagByte(hex)], 1, binLen)

keybytesToHex(str) ==
    Append([i \in 1..(2 * Len(str)) |->
               IF i % 2 = 1 THEN str[(i + 1) \div 2] \div 16 ELSE str[i \div 2] % 16],
           Terminator)

compactToHex(compact) ==
    IF compact = <<>> THEN <<>>
    ELSE LET base == keybytesToHex(compact)
         IN  From(IF base[1] < 2 THEN Front(base) ELSE base, 2 - (base[1] % 2))

hexToKeyBytes(hex) == decodeNibbles(Nibbles(hex))

prefixLen(a, b) ==
    LET length == IF Len(a) < Len(b) THEN Len(a) ELSE Len(b)
    IN  CHOOSE i \in 0..length : /\ \A j \in 1..i : a[j] = b[j]
                                 /\ i < length => a[i + 1] # b[i + 1]

\* bytes.Compare(a, b) < 0 and bytes.HasPrefix(s, prefix).
Before(a, b) ==
    LET n == prefixLen(a, b)
    IN  n < Len(b) /\ (n = Len(a) \/ a[n + 1] < b[n + 1])
HasPrefix(s, prefix) == Len(prefix) <= Len(s) /\ \A i \in 1..Len(prefix) : prefix[i] = s[i]

-----------------------------------------------------------------------------
\* Hex keys of up to four nibbles, with and without terminator.
SampleHex ==
    LET nibbles == UNION {[1..n -> {0, 1, 15}] : n \in 0..4}
    IN  nibbles \cup {Append(s, Terminator) : s \in nibbles}

\* The forms of a key determine each other: compact keys turn back into the hex
\* keys they are made from, in the buffer of the key or out of it, and the hex
\* keys of bytes into the bytes.
Invertible(hex) ==
    /\ compactToHex(hexToCompact(hex)) = hex
    /\ hex # <<>> => hexToCompactInPlace(hex) = hexToCompact(hex)
    /\ hasTerm(hex) /\ Len(hex) % 2 = 1 => keybytesToHex(hexToKeyBytes(hex)) = hex
=============================================================================
