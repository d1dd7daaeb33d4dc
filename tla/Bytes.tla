-------------------------------- MODULE Bytes ---------------------------------
(***************************************************************************)
(* Byte strings.  A byte is a number below 256 and a text is a sequence of *)
(* bytes: paths, header names and values are arbitrary bytes in this code, *)
(* never decoded characters.  The character classes are the methods of     *)
(* Rust's u8.                                                              *)
(***************************************************************************)
EXTENDS Integers, SequencesExt, FiniteSetsExt

Byte == 0..255

Nul == 0
Newline == 10
Return == 13
Space == 32
Quote == 34
Percent == 37
Comma == 44
Dash == 45
Dot == 46
Slash == 47
Colon == 58
Semicolon == 59
OpenBracket == 91
Backslash == 92
CloseBracket == 93
Underscore == 95

IsAscii(b) == b < 128
IsUpper(b) == b \in 65..90
IsLower(b) == b \in 97..122
IsDigit(b) == b \in 48..57
IsAlphanumeric(b) == IsUpper(b) \/ IsLower(b) \/ IsDigit(b)
ToUpper(b) == IF IsLower(b) THEN b - 32 ELSE b
ToLower(b) == IF IsUpper(b) THEN b + 32 ELSE b

Uppercase(t) == [i \in DOMAIN t |-> ToUpper(t[i])]
Lowercase(t) == [i \in DOMAIN t |-> ToLower(t[i])]

\* 0..15 as a lower-case digit.
HexDigit(n) == IF n < 10 THEN 48 + n ELSE 87 + n

\* The last `width` hexadecimal digits of n.
Hex(n, width) ==
  LET quotient[k \in 0..width] == IF k = 0 THEN n ELSE quotient[k - 1] \div 16
  IN  [i \in 1..width |-> HexDigit(quotient[width - i] % 16)]

\* What a loop has computed after n turns, when turn k makes Turn(s, k) of s.
Loop(Turn(_, _), start, n) ==
  LET state[k \in 0..n] == IF k = 0 THEN start ELSE Turn(state[k - 1], k)
  IN  state[n]

\* slice::join: the parts with a separator between them.
JoinWith(parts, separator) ==
  Loop(LAMBDA t, i : IF i = 1 THEN parts[1] ELSE t \o separator \o parts[i], <<>>, Len(parts))

\* The bytes of a text that satisfy a test.
Filtered(t, Keep(_)) ==
  Loop(LAMBDA kept, i : IF Keep(t[i]) THEN Append(kept, t[i]) ELSE kept, <<>>, Len(t))

\* What C sees of a byte string it is given as a char *.
CString(t) ==
  IF Nul \in Range(t) THEN SubSeq(t, 1, SelectInSeq(t, LAMBDA b : b = Nul) - 1) ELSE t
-------------------------------------------------------------------------------
(* UTF-8 (std::str): the code point the bytes encode; -1 when they are not the encoding *)
(* of one.                                                                             *)

\* A char: in one of the 17 planes and no surrogate.
IsChar(v) == v < 17 * 65536 /\ v \notin 55296..57343

Continuation(b) == b \in 128..191

RuneBits(b) ==
  Loop(LAMBDA v, i : IF i = 1 THEN b[1] % <<128, 32, 16, 8>>[Len(b)] ELSE (v * 64) + (b[i] % 64),
       0, Len(b))

\* By length: the bytes it begins with, and the code point below which it is overlong.
LeadBytes == <<0..127, 192..223, 224..239, 240..247>>
Smallest == <<0, 128, 2048, 65536>>

Rune(b) ==
  LET value == RuneBits(b)
  IN  IF /\ b[1] \in LeadBytes[Len(b)]
         /\ \A i \in 2..Len(b) : Continuation(b[i])
         /\ value >= Smallest[Len(b)] /\ IsChar(value)
      THEN value ELSE -1

\* The width of the character a text begins with; 0: it begins with an invalid byte.
RuneWidth(t) ==
  LET widths == {w \in 1..4 : w <= Len(t) /\ Rune(SubSeq(t, 1, w)) >= 0}
  IN  IF widths = {} THEN 0 ELSE Min(widths)

\* A character begins with these bytes and goes on after them.
IsBegun(b) ==
  \E n \in (Len(b) + 1)..4, c \in {128, 191} :
    Rune(b \o [i \in 1..(n - Len(b)) |-> c]) >= 0

\* How many bytes one replacement character stands for.
InvalidWidth(t) ==
  Max({1} \cup {w \in 2..3 : w <= Len(t) /\ IsBegun(SubSeq(t, 1, w))})

Replacement == <<239, 191, 189>>

LossyTurn(s) ==
  LET width == RuneWidth(s.rest)
  IN  CASE s.rest = <<>> -> s
        [] s.rest # <<>> /\ width = 0 ->
             [rest |-> SubSeq(s.rest, InvalidWidth(s.rest) + 1, Len(s.rest)),
              output |-> s.output \o Replacement]
        [] OTHER -> [rest |-> SubSeq(s.rest, width + 1, Len(s.rest)),
                     output |-> s.output \o SubSeq(s.rest, 1, width)]

from_utf8_lossy(t) ==
  Loop(LAMBDA s, k : LossyTurn(s), [rest |-> t, output |-> <<>>], Len(t)).output
===============================================================================
